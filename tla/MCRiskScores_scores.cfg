SPECIFICATION Spec
CONSTANTS
  a1 = a1  c1 = c1  w1 = w1  w2 = w2
  Assets = {a1}
  Cves = {c1}
  Listing <- MCListing
  Cvss <- MCCvss
  Epss <- MCEpss
  Catalog = {c1}
  Postures <- MCPostures
  Workers = {w1, w2}
  Batch = 1
  MaxOutages = 1
  MaxEdits = 1
INVARIANTS TypeOK ExploitIsLinked
PROPERTIES ScoresSettle ExploitCounts
