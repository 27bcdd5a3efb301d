SPECIFICATION Spec
CONSTANTS
  a1 = a1  a2 = a2
  m1 = m1  m2 = m2  x1 = x1  n1 = n1  ssh = ssh  http = http
  w1 = w1  w2 = w2
  nmap = nmap  edr = edr  manually = manually  none = none
  Manual = manually
  None = none
  Priority <- Ranking
  Sources = {nmap, edr, manually}
  Authoritative = {edr}
  Macs = {m1, m2}
  Ips = {x1}
  Names = {n1}
  Services = {ssh, http}
  MaxAlerts = 1
  Ids = {a1, a2}
  Workers = {w1, w2}
  MaxManual = 0
  Reports <- SharedAddress
INVARIANT SingleAsset
\* The system may stop: the ids may run out, or every report may raise.
CHECK_DEADLOCK FALSE
