SPECIFICATION Spec
CONSTANTS
  ann = ann  bob = bob  s1 = s1  s2 = s2  w1 = w1  w2 = w2
  Users = {ann, bob}
  Watched = {ann}
  Admins = {ann, bob}
  Tokens = {s1, s2}
  Workers = {w1, w2}
  MAX_LOGIN_ATTEMPTS = 1
  LOCKOUT_DURATION = 1
  TokenTTL = 2
  Retention = 3
  MaxTime = 3
  MaxFailed = 1
  MaxChanges = 1
SYMMETRY Symmetry
INVARIANTS TypeOK PasswordEndsSessions AdminRemains
PROPERTIES RefreshOnce LockIsKept
CHECK_DEADLOCK FALSE
