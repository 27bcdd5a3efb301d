\* One package with one fix, two rows, decisions, deployments and patch cancellations interleaved, and a crash.
CONSTANTS
  p1 = p1
  p2 = p2
  a1 = a1
  a2 = a2
  i1 = i1
  i2 = i2
  i3 = i3
  Packages = {p1}
  Versions = {1, 2}
  Advisories = {a1}
  FixedIn <- OneFix
  Critical = {a1}
  Doubled = {}
  Pinned = {p1}
  Ids = {i1, i2}
  Admins = {adm}
  AiBatch = 1
  MaxDeploys = 1
  MaxCrashes = 1
  MaxEdits = 0
  MaxQueue = 1
  NoVersion = NoVersion
  AllRows = AllRows
SPECIFICATION Spec
SYMMETRY RowSymmetry
INVARIANTS
  TypeOK
  PatchNeedsApproval
  PendingMatchesInventory
  OnePendingPerFix
PROPERTIES
  FailsClosed
  ImplementsGate
CHECK_DEADLOCK FALSE
