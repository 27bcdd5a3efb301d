SPECIFICATION FairSpec
CONSTANTS
  a1 = a1  a2 = a2  h1 = h1  w1 = w1  q1 = q1
  slack = slack  syslog = syslog  none = none
  None = none
  Alerts = {a1, a2}
  Hooks = {h1}
  Workers = {w1}
  Requests = {q1}
  Names = {slack, syslog}
  Channels <- Routes
  Silent = {syslog}
  Filter <- Filters
  Unreachable = {}
  Batch = 1
  Limit = 2
  MaxFailures = 3
  MaxUpsets = 2
INVARIANTS TypeOK ToldOnce FailuresHappened
PROPERTY HandledUnlessCutOff
CHECK_DEADLOCK FALSE
