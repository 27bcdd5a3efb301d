SPECIFICATION FairSpec
CONSTANTS
  c1 = c1
  c2 = c2
  c3 = c3
  w1 = w1
  w2 = w2
  all = all
  none = none
  All = all
  None = none
  Integrations = {c1, c2, c3}
  Workers = {w1, w2}
  Limit = 2
  Reliable = {}
  Broken = {c1}
  Poisoned = {c2}
  Unsupported = {c3}
  MaxCount = 3
  MaxEdits = 1
INVARIANT TypeOK
PROPERTIES DisabledForCause BrokenIsDisabled TriedUnlessPassedOver
