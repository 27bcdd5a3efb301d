CONSTANTS
  Assets = {a1}
  Critical = {a1}
  Controls = {"SI-2"}
  Postures <- MCPostures
  Workers = {w1, w2}
  ListLimit = 1
  ResultLimit = 1
  MaxCopies = 3
  MaxFailures = 1
SPECIFICATION Spec
INVARIANTS TypeOK AlertsPerMapping ViewsAgree
PROPERTY AlertsFollowGaps
