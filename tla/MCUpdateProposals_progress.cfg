\* One row, two advisories (one without a fix, reported twice), a crash and an edit, with a fair
\* worker and beat.
CONSTANTS
  p1 = p1
  p2 = p2
  a1 = a1
  a2 = a2
  i1 = i1
  i2 = i2
  i3 = i3
  Packages = {p1}
  Versions = {1, 2}
  Advisories = {a1, a2}
  FixedIn <- NoFixForTwo
  Critical = {a1}
  Doubled = {a2}
  Pinned = {p1}
  Ids = {i1}
  Admins = {adm}
  AiBatch = 1
  MaxDeploys = 0
  MaxCrashes = 1
  MaxEdits = 1
  MaxQueue = 1
  NoVersion = NoVersion
  AllRows = AllRows
SPECIFICATION FairSpec
INVARIANTS
  CleanScanClosesSignal
PROPERTIES
  RunningScanEnds
  ApprovalIsActedUpon
CHECK_DEADLOCK FALSE
