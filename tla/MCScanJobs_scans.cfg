SPECIFICATION FairSpec
CONSTANTS
  s1 = s1  s2 = s2  s3 = s3  n1 = n1  n2 = n2  w1 = w1  w2 = w2
  none = none
  NoScan = none
  Workers = {w1, w2}
  Networks = {n1, n2}
  Scans = {s1, s2, s3}
  Ambiguous = {n2}
  TaskLimit = 1
  StaleAfter = 2
  MaxStops = 1
INVARIANTS TypeOK OnlyOrphansRecovered
PROPERTIES ScanRowsEnd
