CONSTANTS
  a = a
  b = b
  RowNames = {a, b}
  NoName = NoName
  Files <- MCFiles
  Requests = {r1, r2}
  Users = {u1}
  Addresses = {x1}
  limit = 2
  window_seconds = 3
  MAX_ROWS_PER_IMPORT = 3
  Many = 2
SPECIFICATION ImportSpec
INVARIANTS ImportTypeOK TwoLimitsAtMost SecondNamesAreRaced
PROPERTY LimitIsLifted
