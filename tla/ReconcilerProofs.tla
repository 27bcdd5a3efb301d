--------------------------- MODULE ReconcilerProofs ---------------------------
(***************************************************************************)
(* Merging keeps the flag of shadow IT right and gives no MAC to two rows  *)
(* but in a race: for any numbers of assets, sources and reports, any      *)
(* ranking of sources, and however many batches are merged at the same     *)
(* time.  Imports, the other way into the inventory, add second names only *)
(* when raced.                                                             *)
(***************************************************************************)
EXTENDS Reconciler, AssetImport, FiniteSetTheorems, TLAPS

-----------------------------------------------------------------------------
(* The invariant: what holds of the table, and of every batch in progress  *)
(* over the table.                                                         *)

Table == [Ids -> Row \union {NoRow}]

\* The table t as batch j sees it.
Over(j, t) == [a \in Ids |-> IF j.mine[a] # NoRow THEN j.mine[a] ELSE t[a]]

\* A row is flagged as it should be when told are the sources that reported it:
\* among its sources no authoritative one is missing from told.
Flagged(row, told) ==
  /\ row.sources # {} /\ row.sources \intersect Authoritative \subseteq told
  /\ told # {} /\ told \intersect Authoritative = {} => row.shadow

\* The rows a batch has written are flagged as they should be once it has reported
\* them.  The row a merge has read may be stale: if it was flagged, then the row is
\* flagged still, unless an authoritative source has reported it since.
BatchFlagged(j, t, rep) ==
  /\ j.source = None => \A a \in Ids : j.mine[a] = NoRow
  /\ \A a \in Ids : j.mine[a] # NoRow => Flagged(j.mine[a], rep[a] \union {j.source})
  /\ j.into # None =>
       /\ Over(j, t)[j.into] # NoRow /\ j.seen \in Row /\ j.report \in Reports
       /\ j.report.source = j.source /\ j.seen.sources # {}
       /\ j.seen.sources \intersect Authoritative \subseteq rep[j.into] \union {j.source}
       /\ j.seen.shadow /\ (rep[j.into] \union {j.source}) \intersect Authoritative = {}
            => Over(j, t)[j.into].shadow

TableFlagged(t, rep) ==
  \A a \in Ids : IF t[a] = NoRow THEN rep[a] = {} ELSE Flagged(t[a], rep[a])

\* A row is written by one batch at a time.
RowsAreLocked == \A v, w \in Workers : v # w => Mine(v) \intersect Mine(w) = {}

FlagInv ==
  /\ TypeOK /\ RowsAreLocked /\ TableFlagged(asset, reporters)
  /\ \A w \in Workers : BatchFlagged(job[w], asset, reporters)

-----------------------------------------------------------------------------
(* What the operators of the model return.                                 *)

LEMMA RowHas ==
  ASSUME NEW r \in Row
  PROVE  /\ r.mac \in Macs \union {None} /\ r.ip \in Ips \union {None}
         /\ r.name \in Names \union Ips \union {None} /\ r.owner \in Sources
         /\ r.sources \in SUBSET Sources /\ r.services \in SUBSET Services /\ r.shadow \in BOOLEAN
BY DEF Row

LEMMA ReportHas ==
  ASSUME NEW r \in Reports
  PROVE  /\ r.mac \in Macs \union {None} /\ r.ip \in Ips \union {None}
         /\ r.name \in Names \union Ips \union {None} /\ r.source \in Sources \ {Manual}
         /\ r.services \in SUBSET Services
BY ReportsAreHosts

LEMMA RowIsNoNoRow == NoRow \notin Row
<1> SUFFICES ASSUME NoRow \in Row PROVE FALSE
  OBVIOUS
<1>1. "mac" \in DOMAIN NoRow
  BY DEF Row
<1>2. DOMAIN NoRow = {"owner"}
  BY DEF NoRow
<1> QED
  BY <1>1, <1>2

LEMMA JobHas ==
  ASSUME NEW j \in Job \union {Idle}
  PROVE  /\ j.mine \in Table /\ j.asked \in SUBSET Macs /\ j.alerts \in SUBSET (AlertTypes \X Ids)
         /\ j.into \in Ids \union {None} /\ j.seen \in Row \union {NoRow}
         /\ j # Idle => j.source \in Sources /\ j.source # None
         /\ j = [source |-> j.source, asked |-> j.asked, mine |-> j.mine, alerts |-> j.alerts,
                 into |-> j.into, seen |-> j.seen, report |-> j.report]
BY NoneIsNoValue DEF Job, Idle, Table

LEMMA IdleHas ==
  /\ Idle.source = None /\ Idle.asked = {} /\ Idle.into = None /\ Idle.alerts = {}
  /\ \A a \in Ids : Idle.mine[a] = NoRow
BY DEF Idle

LEMMA OverHas ==
  ASSUME NEW t \in Table, NEW j, j.mine \in Table
  PROVE  /\ Over(j, t) \in Table
         /\ \A a \in Ids : Over(j, t)[a] = IF j.mine[a] # NoRow THEN j.mine[a] ELSE t[a]
BY DEF Over, Table

\* A session sees the table under its own batch.
LEMMA ViewHas ==
  ASSUME TypeOK, NEW w \in Workers
  PROVE  /\ View(w) = Over(job[w], asset) /\ View(w) \in Table /\ asset \in Table
         /\ job[w] \in Job \union {Idle} /\ job[w].mine \in Table
         /\ \A a \in Ids : a \in Mine(w) <=> job[w].mine[a] # NoRow
         /\ \A a \in Ids : View(w)[a] = IF a \in Mine(w) THEN job[w].mine[a] ELSE asset[a]
<1>1. asset \in Table /\ job[w] \in Job \union {Idle}
  BY DEF TypeOK, Table
<1>2. job[w].mine \in Table
  BY <1>1, JobHas
<1>3. \A a \in Ids : a \in Mine(w) <=> job[w].mine[a] # NoRow
  BY DEF Mine
<1>4. View(w) = Over(job[w], asset)
  BY <1>3 DEF View, Over
<1> QED
  BY <1>1, <1>2, <1>3, <1>4, OverHas

\* A merge keeps the sources of a row that has some.
LEMMA MergedHas ==
  ASSUME NEW r \in Reports, NEW seen \in Row, seen.sources # {}
  PROVE  /\ Merged(r, seen) \in Row
         /\ Merged(r, seen).sources = seen.sources
         /\ Merged(r, seen).mac \in {seen.mac} \union ({r.mac} \ {None})
         /\ Merged(r, seen).shadow = Unclaimed(seen.sources \union {r.source})
<1> DEFINE given == {f \in {"mac", "ip", "name"} : r[f] # None /\ Outranks(r, seen)}
<1> DEFINE mac == IF "mac" \in given THEN r.mac ELSE seen.mac
<1> DEFINE ip == IF "ip" \in given THEN r.ip ELSE seen.ip
<1> DEFINE name == IF "name" \in given THEN r.name ELSE seen.name
<1> DEFINE owner == IF Outranks(r, seen) THEN r.source ELSE seen.owner
<1> DEFINE shadow == Unclaimed(seen.sources \union {r.source})
<1>1. /\ mac \in Macs \union {None} /\ ip \in Ips \union {None}
      /\ name \in Names \union Ips \union {None}
  BY RowHas, ReportHas
<1>2. owner \in Sources
  BY RowHas, ReportHas
<1>3. shadow \in BOOLEAN
  BY DEF Unclaimed
<1>4. Merged(r, seen) = [mac |-> mac, ip |-> ip, name |-> name, owner |-> owner,
                         sources |-> seen.sources, services |-> r.services, shadow |-> shadow]
  BY DEF Merged
<1>5. mac \in {seen.mac} \union ({r.mac} \ {None})
  OBVIOUS
<1> HIDE DEF mac, ip, name, owner, shadow
<1>6. seen.sources \in SUBSET Sources /\ r.services \in SUBSET Services
  BY RowHas, ReportHas
<1>7. Merged(r, seen) \in Row
  BY <1>1, <1>2, <1>3, <1>4, <1>6 DEF Row
<1>8. Merged(r, seen).sources = seen.sources /\ Merged(r, seen).mac = mac
  BY <1>4
<1>9. Merged(r, seen).shadow = shadow
  BY <1>4
<1> QED
  BY <1>5, <1>7, <1>8, <1>9 DEF shadow

LEMMA CreatedHas ==
  ASSUME NEW r \in Reports
  PROVE  /\ Created(r) \in Row /\ Created(r) # NoRow
         /\ Created(r).sources = {r.source} /\ Created(r).mac = r.mac
         /\ Created(r).shadow = Unclaimed({r.source})
<1>1. Unclaimed({r.source}) \in BOOLEAN
  BY DEF Unclaimed
<1> SUFFICES ASSUME NEW shadow \in BOOLEAN, shadow = Unclaimed({r.source}),
                    NEW name, name = IF r.name # None THEN r.name ELSE r.ip
             PROVE  /\ Created(r) \in Row
                    /\ Created(r).sources = {r.source} /\ Created(r).mac = r.mac
                    /\ Created(r).shadow = shadow
  BY <1>1, RowIsNoNoRow
<1>2. name \in Names \union Ips \union {None}
  BY ReportHas
<1>3. Created(r) = [mac |-> r.mac, ip |-> r.ip, name |-> name, owner |-> r.source,
                    sources |-> {r.source}, services |-> {}, shadow |-> shadow]
  BY DEF Created
<1> QED
  BY <1>2, <1>3, ReportHas DEF Row

\* An UPDATE writes the columns that the merge changed.
LEMMA WrittenHas ==
  ASSUME NEW stored \in Row, NEW r \in Row, NEW s \in Row
  PROVE  /\ Written(stored, r, s) \in Row
         /\ Written(stored, r, s).mac = IF s.mac # r.mac THEN s.mac ELSE stored.mac
         /\ Written(stored, r, s).sources = IF s.sources # r.sources THEN s.sources ELSE stored.sources
         /\ Written(stored, r, s).shadow = IF s.shadow # r.shadow THEN s.shadow ELSE stored.shadow
<1> DEFINE columns == {"mac", "ip", "name", "owner", "sources", "services", "shadow"}
<1> DEFINE value(c) == IF s[c] # r[c] THEN s[c] ELSE stored[c]
<1>1. DOMAIN r = columns
  BY DEF Row
<1>2. Written(stored, r, s) = [c \in columns |-> value(c)]
  BY <1>1 DEF Written
<1>3. /\ value("mac") = IF s.mac # r.mac THEN s.mac ELSE stored.mac
      /\ value("sources") = IF s.sources # r.sources THEN s.sources ELSE stored.sources
      /\ value("shadow") = IF s.shadow # r.shadow THEN s.shadow ELSE stored.shadow
  OBVIOUS
<1>4. \A c \in columns : value(c) = s[c] \/ value(c) = stored[c]
  OBVIOUS
<1> HIDE DEF value
<1>5. Written(stored, r, s) =
        [mac |-> value("mac"), ip |-> value("ip"), name |-> value("name"), owner |-> value("owner"),
         sources |-> value("sources"), services |-> value("services"), shadow |-> value("shadow")]
  BY <1>2
<1>6. /\ value("mac") \in Macs \union {None} /\ value("ip") \in Ips \union {None}
      /\ value("name") \in Names \union Ips \union {None} /\ value("owner") \in Sources
  BY <1>4, RowHas
<1>7. /\ value("sources") \in SUBSET Sources /\ value("services") \in SUBSET Services
      /\ value("shadow") \in BOOLEAN
  BY <1>4, RowHas
<1>8. Written(stored, r, s) \in Row
  BY <1>5, <1>6, <1>7 DEF Row
<1> QED
  BY <1>3, <1>5, <1>8

-----------------------------------------------------------------------------
(* Flags: what one batch does to itself.                                   *)

\* What a merge writes is flagged as it should be, and has its own MAC or that of
\* the report.
LEMMA FlushWrites ==
  ASSUME NEW j \in Job \union {Idle}, NEW t \in Table, NEW rep,
         BatchFlagged(j, t, rep), TableFlagged(t, rep), j.into # None
  PROVE  LET x == Over(j, t)[j.into]
             y == Written(x, j.seen, Merged(j.report, j.seen))
         IN  /\ x \in Row /\ y \in Row /\ y.mac \in {x.mac} \union ({j.report.mac} \ {None})
             /\ Flagged(y, rep[j.into] \union {j.source})
<1>1. j.into \in Ids /\ j.mine \in Table
  BY JobHas
<1>2. Over(j, t)[j.into] \in Row /\ Over(j, t)[j.into] = IF j.mine[j.into] # NoRow THEN j.mine[j.into] ELSE t[j.into]
  BY <1>1, OverHas DEF BatchFlagged, Table
<1>3. /\ j.seen \in Row /\ j.report \in Reports /\ j.report.source = j.source /\ j.seen.sources # {}
      /\ j.seen.sources \intersect Authoritative \subseteq rep[j.into] \union {j.source}
      /\ j.seen.shadow /\ (rep[j.into] \union {j.source}) \intersect Authoritative = {}
           => Over(j, t)[j.into].shadow
  BY DEF BatchFlagged
<1> SUFFICES ASSUME NEW x \in Row, x = Over(j, t)[j.into], NEW seen \in Row, seen = j.seen,
                    NEW r \in Reports, r = j.report, NEW told, told = rep[j.into] \union {j.source},
                    NEW m, m = Merged(r, seen), NEW y, y = Written(x, seen, m)
             PROVE  y \in Row /\ y.mac \in {x.mac} \union ({r.mac} \ {None}) /\ Flagged(y, told)
  BY <1>2, <1>3
<1>4. /\ m \in Row /\ m.sources = seen.sources /\ m.mac \in {seen.mac} \union ({r.mac} \ {None})
      /\ m.shadow = Unclaimed(seen.sources \union {r.source})
  BY <1>3, MergedHas
<1>5. /\ y \in Row
      /\ y.mac = IF m.mac # seen.mac THEN m.mac ELSE x.mac
      /\ y.sources = IF m.sources # seen.sources THEN m.sources ELSE x.sources
      /\ y.shadow = IF m.shadow # seen.shadow THEN m.shadow ELSE x.shadow
  BY <1>4, WrittenHas
<1>6. y.mac \in {x.mac} \union ({r.mac} \ {None})
  BY <1>4, <1>5
<1>7. x.sources # {} /\ x.sources \intersect Authoritative \subseteq told
  <2>1. CASE j.mine[j.into] # NoRow
    BY <1>1, <1>2, <2>1 DEF BatchFlagged, Flagged
  <2>2. CASE j.mine[j.into] = NoRow
    <3>1. x = t[j.into] /\ t[j.into] # NoRow
      BY <1>2, <2>2, RowIsNoNoRow
    <3> QED
      BY <1>1, <3>1 DEF TableFlagged, Flagged
  <2> QED
    BY <2>1, <2>2
<1>8. y.sources = x.sources
  BY <1>4, <1>5
<1>9. ASSUME told \intersect Authoritative = {} PROVE y.shadow
  <2>1. m.shadow
    BY <1>3, <1>4, <1>9 DEF Unclaimed
  <2>2. seen.shadow => x.shadow
    BY <1>3, <1>9
  <2>3. seen.shadow \in BOOLEAN /\ m.shadow \in BOOLEAN
    BY <1>4, RowHas
  <2> QED
    BY <1>5, <2>1, <2>2, <2>3
<1> QED
  BY <1>5, <1>6, <1>7, <1>8, <1>9 DEF Flagged

\* A step of one batch that writes only rows no other batch has written.
LEMMA BatchStep ==
  ASSUME FlagInv, NEW w \in Workers, NEW j \in Job \union {Idle}, job' = [job EXCEPT ![w] = j],
         UNCHANGED <<asset, open, manual, reporters, crossed>>, BatchFlagged(j, asset, reporters),
         \A a \in Ids : j.mine[a] # NoRow => \A v \in Workers \ {w} : a \notin Mine(v)
  PROVE  FlagInv'
<1>0. TypeOK /\ job' \in [Workers -> Job \union {Idle}]
      /\ job'[w] = j /\ \A v \in Workers \ {w} : job'[v] = job[v]
  BY DEF FlagInv, TypeOK
<1>1. TypeOK'
  BY <1>0 DEF TypeOK
<1>2. RowsAreLocked'
  <2>1. \A v \in Workers \ {w} : Mine(v)' = Mine(v)
    BY <1>0 DEF Mine
  <2>2. \A a \in Mine(w)' : a \in Ids /\ \A v \in Workers \ {w} : a \notin Mine(v)
    BY <1>0 DEF Mine
  <2> QED
    BY <2>1, <2>2 DEF RowsAreLocked, FlagInv
<1>3. TableFlagged(asset, reporters)'
  BY DEF FlagInv, TableFlagged
<1>4. \A v \in Workers : BatchFlagged(job'[v], asset, reporters)
  BY <1>0 DEF FlagInv
<1>5. \A v \in Workers : BatchFlagged(job'[v], asset', reporters')
  BY <1>4
<1> QED
  BY <1>1, <1>2, <1>3, <1>5 DEF FlagInv

LEMMA AbandonFlags ==
  ASSUME FlagInv, NEW w \in Workers, Abandon(w)
  PROVE  FlagInv'
<1>1. job' = [job EXCEPT ![w] = Idle] /\ UNCHANGED <<asset, open, manual, reporters, crossed>>
  BY DEF Abandon
<1>2. BatchFlagged(Idle, asset, reporters)
  BY IdleHas DEF BatchFlagged
<1>3. \A a \in Ids : Idle.mine[a] = NoRow
  BY IdleHas
<1> QED
  BY <1>1, <1>2, <1>3, BatchStep

\* The batch after a report was read: the row to merge into is in memory...
LEMMA ReadHostHas ==
  ASSUME TypeOK, NEW w \in Workers, NEW r \in Reports, NEW a \in Ids, ReadHost(w, r, a)
  PROVE  \E j \in Job :
           /\ job' = [job EXCEPT ![w] = j]
           /\ j.source = r.source /\ j.asked = job[w].asked \union ({r.mac} \ {None})
           /\ j.mine = job[w].mine /\ j.into = a /\ j.seen = View(w)[a] /\ j.report = r
<1>1. job[w] \in Job \union {Idle} /\ View(w)[a] \in Row \union {NoRow}
  BY ViewHas DEF Table
<1>2. (IF Drifted(View(w)[a], r) THEN DueFor(w, "drift", a) ELSE {}) \in SUBSET (AlertTypes \X Ids)
  BY DEF DueFor, AlertTypes
<1>3. Looked(w, r) = job[w].asked \union ({r.mac} \ {None}) /\ Looked(w, r) \in SUBSET Macs
  BY <1>1, JobHas, ReportHas DEF Looked
<1>4. job[w].mine \in Table /\ job[w].alerts \in SUBSET (AlertTypes \X Ids) /\ r.source \in Sources
  BY <1>1, JobHas, ReportHas
<1>5. PICK j : j =
        [source |-> r.source, asked |-> Looked(w, r), mine |-> job[w].mine,
         alerts |-> job[w].alerts \union IF Drifted(View(w)[a], r) THEN DueFor(w, "drift", a) ELSE {},
         into |-> a, seen |-> View(w)[a], report |-> r]
  OBVIOUS
<1>6. job' = [job EXCEPT ![w] = j]
  BY <1>5 DEF ReadHost
<1>7. j \in Job
  BY <1>1, <1>2, <1>3, <1>4, <1>5 DEF Job, Table
<1>8. /\ j.source = r.source /\ j.asked = Looked(w, r) /\ j.mine = job[w].mine /\ j.into = a
      /\ j.seen = View(w)[a] /\ j.report = r
  BY <1>5
<1> QED
  BY <1>3, <1>6, <1>7, <1>8

\* ... or a new row has been inserted.
LEMMA InsertHostHas ==
  ASSUME TypeOK, NEW w \in Workers, NEW r \in Reports, NEW a \in Ids, InsertHost(w, r, a)
  PROVE  \E j \in Job :
           /\ job' = [job EXCEPT ![w] = j]
           /\ j.source = r.source /\ j.asked = job[w].asked \union ({r.mac} \ {None})
           /\ j.mine = [job[w].mine EXCEPT ![a] = Created(r)] /\ j.into = None
<1>1. job[w] \in Job \union {Idle}
  BY ViewHas
<1>2. (IF Unclaimed({r.source}) THEN {<<"shadow_it", a>>} ELSE {}) \in SUBSET (AlertTypes \X Ids)
  BY DEF AlertTypes
<1>3. Looked(w, r) = job[w].asked \union ({r.mac} \ {None}) /\ Looked(w, r) \in SUBSET Macs
  BY <1>1, JobHas, ReportHas DEF Looked
<1>4. /\ [job[w].mine EXCEPT ![a] = Created(r)] \in Table
      /\ job[w].alerts \in SUBSET (AlertTypes \X Ids) /\ r.source \in Sources
  BY <1>1, JobHas, ReportHas, CreatedHas DEF Table
<1>5. PICK j : j =
        [source |-> r.source, asked |-> Looked(w, r), mine |-> [job[w].mine EXCEPT ![a] = Created(r)],
         alerts |-> job[w].alerts \union IF Unclaimed({r.source}) THEN {<<"shadow_it", a>>} ELSE {},
         into |-> None, seen |-> NoRow, report |-> None]
  OBVIOUS
<1>6. job' = [job EXCEPT ![w] = j]
  BY <1>5 DEF InsertHost
<1>7. j \in Job
  BY <1>2, <1>3, <1>4, <1>5 DEF Job, Table
<1>8. /\ j.source = r.source /\ j.asked = Looked(w, r) /\ j.into = None
      /\ j.mine = [job[w].mine EXCEPT ![a] = Created(r)]
  BY <1>5
<1> QED
  BY <1>3, <1>6, <1>7, <1>8

\* The batch after a flush: the row has been written, and is locked.
LEMMA FlushHas ==
  ASSUME TypeOK, NEW w \in Workers, Flush(w),
         NEW y \in Row, y = Written(View(w)[job[w].into], job[w].seen, Merged(job[w].report, job[w].seen))
  PROVE  \E j \in Job :
           /\ job' = [job EXCEPT ![w] = j] /\ j.source = job[w].source /\ j.asked = job[w].asked
           /\ j.mine = [job[w].mine EXCEPT ![job[w].into] = y] /\ j.into = None
<1>1. job[w] \in Job \union {Idle} /\ job[w] # Idle
  BY ViewHas, IdleHas DEF Flush
<1>2. /\ job[w].source \in Sources /\ job[w].asked \in SUBSET Macs
      /\ job[w].alerts \in SUBSET (AlertTypes \X Ids) /\ [job[w].mine EXCEPT ![job[w].into] = y] \in Table
  BY <1>1, JobHas DEF Table
<1>3. PICK j : j =
        [source |-> job[w].source, asked |-> job[w].asked,
         mine |-> [job[w].mine EXCEPT ![job[w].into] = y], alerts |-> job[w].alerts,
         into |-> None, seen |-> NoRow, report |-> None]
  OBVIOUS
<1>4. job' = [job EXCEPT ![w] = j]
  BY <1>3 DEF Flush
<1>5. j \in Job
  BY <1>2, <1>3 DEF Job, Table
<1>6. /\ j.source = job[w].source /\ j.asked = job[w].asked /\ j.into = None
      /\ j.mine = [job[w].mine EXCEPT ![job[w].into] = y]
  BY <1>3
<1> QED
  BY <1>4, <1>5, <1>6

\* A report may be read by a batch of its source: rows it has written stay flagged.
LEMMA ReadFlags ==
  ASSUME FlagInv, NEW w \in Workers, NEW r \in Reports, Read(w, r)
  PROVE  FlagInv'
<1>0. /\ TypeOK /\ UNCHANGED <<asset, open, manual, reporters, crossed>>
      /\ job[w].source \in {None, r.source} /\ job[w].into = None
      /\ BatchFlagged(job[w], asset, reporters) /\ reporters \in [Ids -> SUBSET Sources]
      /\ TableFlagged(asset, reporters) /\ r.source \in Sources /\ r.source # None
  BY ReportHas, NoneIsNoValue DEF FlagInv, Read, TypeOK
<1>1. PICK a \in Ids : ReadHost(w, r, a) \/ InsertHost(w, r, a)
  BY DEF Read
<1>2. /\ View(w) = Over(job[w], asset) /\ View(w) \in Table /\ asset \in Table
      /\ job[w] \in Job \union {Idle} /\ job[w].mine \in Table
      /\ \A b \in Ids : b \in Mine(w) <=> job[w].mine[b] # NoRow
      /\ \A b \in Ids : View(w)[b] = IF b \in Mine(w) THEN job[w].mine[b] ELSE asset[b]
  BY <1>0, ViewHas
<1>3. \A b \in Ids : job[w].mine[b] # NoRow =>
        /\ job[w].source = r.source /\ Flagged(job[w].mine[b], reporters[b] \union {r.source})
        /\ \A v \in Workers \ {w} : b \notin Mine(v)
  <2> SUFFICES ASSUME NEW b \in Ids, job[w].mine[b] # NoRow
               PROVE  /\ job[w].source = r.source /\ Flagged(job[w].mine[b], reporters[b] \union {r.source})
                      /\ \A v \in Workers \ {w} : b \notin Mine(v)
    OBVIOUS
  <2>1. b \in Mine(w)
    BY <1>2
  <2>2. \A v \in Workers \ {w} : b \notin Mine(v)
    BY <2>1 DEF FlagInv, RowsAreLocked
  <2>3. job[w].source = r.source
    BY <1>0 DEF BatchFlagged
  <2> QED
    BY <1>0, <2>2, <2>3 DEF BatchFlagged
<1>4. CASE ReadHost(w, r, a)
  <2>1. PICK j \in Job :
           /\ job' = [job EXCEPT ![w] = j]
           /\ j.source = r.source /\ j.asked = job[w].asked \union ({r.mac} \ {None})
           /\ j.mine = job[w].mine /\ j.into = a /\ j.seen = View(w)[a] /\ j.report = r
    BY <1>0, <1>4, ReadHostHas
  <2>2. View(w)[a] \in Row /\ View(w)[a] # NoRow
    <3>1. a \in Found(r, View(w))
      BY <1>4 DEF ReadHost
    <3>2. View(w)[a] # NoRow
      BY <3>1 DEF Found, ByMac, ByIp, ByName
    <3> QED
      BY <1>2, <3>2 DEF Table
  <2>3. Over(j, asset) = View(w)
    BY <1>2, <2>1 DEF Over
  <2>4. View(w)[a].sources # {} /\ View(w)[a].sources \intersect Authoritative \subseteq reporters[a] \union {r.source}
    <3>1. CASE job[w].mine[a] # NoRow
      BY <1>2, <1>3, <3>1 DEF Flagged
    <3>2. CASE job[w].mine[a] = NoRow
      <4>1. View(w)[a] = asset[a] /\ asset[a] # NoRow
        BY <1>2, <2>2, <3>2
      <4> QED
        BY <1>0, <4>1 DEF TableFlagged, Flagged
    <3> QED
      BY <3>1, <3>2
  <2>5. BatchFlagged(j, asset, reporters)
    BY <1>0, <1>3, <2>1, <2>2, <2>3, <2>4 DEF BatchFlagged
  <2>6. \A b \in Ids : j.mine[b] # NoRow => \A v \in Workers \ {w} : b \notin Mine(v)
    BY <1>3, <2>1
  <2> QED
    BY <1>0, <2>1, <2>5, <2>6, BatchStep
<1>5. CASE InsertHost(w, r, a)
  <2>1. PICK j \in Job :
           /\ job' = [job EXCEPT ![w] = j]
           /\ j.source = r.source /\ j.asked = job[w].asked \union ({r.mac} \ {None})
           /\ j.mine = [job[w].mine EXCEPT ![a] = Created(r)] /\ j.into = None
    BY <1>0, <1>5, InsertHostHas
  <2>2. Flagged(Created(r), reporters[a] \union {r.source})
    BY CreatedHas DEF Flagged, Unclaimed
  <2>3. j.mine[a] = Created(r) /\ \A b \in Ids \ {a} : j.mine[b] = job[w].mine[b]
    BY <1>2, <2>1 DEF Table
  <2>4. \A b \in Ids : j.mine[b] # NoRow => Flagged(j.mine[b], reporters[b] \union {j.source})
    BY <1>3, <2>1, <2>2, <2>3
  <2>5. BatchFlagged(j, asset, reporters)
    BY <1>0, <2>1, <2>4 DEF BatchFlagged
  <2>6. \A v \in Workers : a \notin Mine(v)
    BY <1>5 DEF InsertHost, Fresh
  <2>7. \A b \in Ids : j.mine[b] # NoRow => \A v \in Workers \ {w} : b \notin Mine(v)
    BY <1>3, <2>3, <2>6
  <2> QED
    BY <1>0, <2>1, <2>5, <2>7, BatchStep
<1> QED
  BY <1>1, <1>4, <1>5

LEMMA FlushFlags ==
  ASSUME FlagInv, NEW w \in Workers, Flush(w)
  PROVE  FlagInv'
<1>0. /\ TypeOK /\ UNCHANGED <<asset, open, manual, reporters, crossed>> /\ job[w].into # None
      /\ BatchFlagged(job[w], asset, reporters) /\ TableFlagged(asset, reporters)
  BY DEF FlagInv, Flush
<1>1. /\ View(w) = Over(job[w], asset) /\ asset \in Table
      /\ job[w] \in Job \union {Idle} /\ job[w].mine \in Table
      /\ \A b \in Ids : b \in Mine(w) <=> job[w].mine[b] # NoRow
  BY <1>0, ViewHas
<1>2. PICK y \in Row : /\ y = Written(View(w)[job[w].into], job[w].seen, Merged(job[w].report, job[w].seen))
                       /\ Flagged(y, reporters[job[w].into] \union {job[w].source})
  BY <1>0, <1>1, FlushWrites
<1>3. PICK j \in Job :
           /\ job' = [job EXCEPT ![w] = j] /\ j.source = job[w].source /\ j.asked = job[w].asked
           /\ j.mine = [job[w].mine EXCEPT ![job[w].into] = y] /\ j.into = None
  BY <1>0, <1>2, FlushHas
<1>4. job[w].into \in Ids /\ job[w] # Idle /\ job[w].source # None
  BY <1>0, <1>1, IdleHas, JobHas
<1>5. j.mine[job[w].into] = y /\ \A b \in Ids \ {job[w].into} : j.mine[b] = job[w].mine[b]
  BY <1>1, <1>3, <1>4 DEF Table
<1>6. BatchFlagged(j, asset, reporters)
  BY <1>0, <1>2, <1>3, <1>4, <1>5 DEF BatchFlagged
<1>7. \A v \in Workers \ {w} : job[w].into \notin Mine(v)
  BY DEF Flush
<1>8. ASSUME NEW b \in Ids, j.mine[b] # NoRow PROVE \A v \in Workers \ {w} : b \notin Mine(v)
  <2>1. CASE b = job[w].into
    BY <1>7, <2>1
  <2>2. CASE b # job[w].into
    <3>1. b \in Mine(w)
      BY <1>1, <1>5, <1>8, <2>2
    <3> QED
      BY <3>1 DEF FlagInv, RowsAreLocked
  <2> QED
    BY <2>1, <2>2
<1> QED
  BY <1>0, <1>3, <1>6, <1>8, BatchStep

-----------------------------------------------------------------------------
(* Flags: what a commit and the other steps do to the table.               *)

LEMMA RaiseIsTyped ==
  ASSUME open \in [AlertTypes -> [Ids -> 0..MaxAlerts]], NEW alerts, Raise(alerts)
  PROVE  open' \in [AlertTypes -> [Ids -> 0..MaxAlerts]]
<1>1. ASSUME NEW t \in AlertTypes, NEW a \in Ids
      PROVE  (IF <<t, a>> \in alerts /\ open[t][a] < MaxAlerts THEN open[t][a] + 1 ELSE open[t][a]) \in 0..MaxAlerts
  <2>1. open[t][a] \in 0..MaxAlerts
    OBVIOUS
  <2> QED
    BY <2>1, BoundsAreNaturals
<1> QED
  BY <1>1 DEF Raise

\* What a commit does to the table.
LEMMA CommitHas ==
  ASSUME TypeOK, NEW w \in Workers, Commit(w)
  PROVE  /\ asset' \in Table /\ asset' = View(w) /\ reporters' \in [Ids -> SUBSET Sources]
         /\ \A a \in Mine(w) : asset'[a] = job[w].mine[a] /\ reporters'[a] = reporters[a] \union {job[w].source}
         /\ \A a \in Ids \ Mine(w) : asset'[a] = asset[a] /\ reporters'[a] = reporters[a]
         /\ job' \in [Workers -> Job \union {Idle}] /\ job'[w] = Idle
         /\ \A v \in Workers \ {w} : job'[v] = job[v] /\ Mine(v)' = Mine(v)
<1>1. /\ View(w) \in Table /\ job[w] \in Job \union {Idle} /\ job[w] # Idle
      /\ \A a \in Ids : View(w)[a] = IF a \in Mine(w) THEN job[w].mine[a] ELSE asset[a]
  BY ViewHas, IdleHas DEF Commit
<1>2. job[w].source \in Sources /\ Mine(w) \subseteq Ids
  BY <1>1, JobHas DEF Mine
<1>3. /\ asset' = View(w) /\ job' = [job EXCEPT ![w] = Idle]
      /\ reporters' = [a \in Ids |-> IF a \in Mine(w) THEN reporters[a] \union {job[w].source} ELSE reporters[a]]
  BY DEF Commit
<1>4. /\ job' \in [Workers -> Job \union {Idle}] /\ job'[w] = Idle
      /\ \A v \in Workers \ {w} : job'[v] = job[v]
  BY <1>3 DEF TypeOK
<1>5. \A v \in Workers \ {w} : Mine(v)' = Mine(v)
  BY <1>4 DEF Mine
<1>6. reporters' \in [Ids -> SUBSET Sources]
  BY <1>2, <1>3 DEF TypeOK
<1> QED
  BY <1>1, <1>2, <1>3, <1>4, <1>5, <1>6

\* A batch is over: its rows are in the table, with one more source that reported
\* them, and other merges that had read them remember no more than is true.
LEMMA CommitFlags ==
  ASSUME FlagInv, NEW w \in Workers, Commit(w)
  PROVE  FlagInv'
<1>0. /\ TypeOK /\ RowsAreLocked /\ TableFlagged(asset, reporters)
      /\ job[w] \in Job \union {Idle} /\ manual' = manual /\ Raise(job[w].alerts)
      /\ crossed' = crossed \union (Given(w) \intersect AskedByOthers(w))
      /\ \A v \in Workers : BatchFlagged(job[v], asset, reporters)
  BY ViewHas DEF FlagInv, Commit
<1>1. /\ asset' \in Table /\ reporters' \in [Ids -> SUBSET Sources]
      /\ \A a \in Mine(w) : asset'[a] = job[w].mine[a] /\ reporters'[a] = reporters[a] \union {job[w].source}
      /\ \A a \in Ids \ Mine(w) : asset'[a] = asset[a] /\ reporters'[a] = reporters[a]
      /\ job' \in [Workers -> Job \union {Idle}] /\ job'[w] = Idle
      /\ \A v \in Workers \ {w} : job'[v] = job[v] /\ Mine(v)' = Mine(v)
  BY <1>0, CommitHas
<1>2. \A a \in Mine(w) : a \in Ids /\ job[w].mine[a] # NoRow
                         /\ Flagged(job[w].mine[a], reporters[a] \union {job[w].source})
  BY <1>0 DEF Mine, BatchFlagged
<1>3. AskedByOthers(w) \subseteq Macs
  BY <1>0, JobHas DEF AskedByOthers, TypeOK
<1>4. open' \in [AlertTypes -> [Ids -> 0..MaxAlerts]]
  BY <1>0, RaiseIsTyped DEF TypeOK
<1>5. TypeOK'
  BY <1>0, <1>1, <1>3, <1>4 DEF TypeOK, Table
<1>6. RowsAreLocked'
  <2>1. Mine(w)' = {}
    BY <1>1, IdleHas DEF Mine
  <2> QED
    BY <1>0, <1>1, <2>1 DEF RowsAreLocked
<1>7. TableFlagged(asset', reporters')
  <2> SUFFICES ASSUME NEW a \in Ids
               PROVE  IF asset'[a] = NoRow THEN reporters'[a] = {} ELSE Flagged(asset'[a], reporters'[a])
    BY DEF TableFlagged
  <2>1. CASE a \in Mine(w)
    BY <1>1, <1>2, <2>1
  <2>2. CASE a \notin Mine(w)
    BY <1>0, <1>1, <2>2 DEF TableFlagged
  <2> QED
    BY <2>1, <2>2
<1>8. ASSUME NEW v \in Workers \ {w} PROVE BatchFlagged(job[v], asset', reporters')
  <2>0. \A a \in Mine(v) : a \in Ids \ Mine(w)
    BY <1>0 DEF RowsAreLocked, Mine
  <2>1. /\ job[v] \in Job \union {Idle} /\ job[v].mine \in Table /\ asset \in Table
        /\ \A a \in Ids : a \in Mine(v) <=> job[v].mine[a] # NoRow
    BY <1>0, ViewHas
  <2>2. \A a \in Ids : /\ Over(job[v], asset)[a] = IF job[v].mine[a] # NoRow THEN job[v].mine[a] ELSE asset[a]
                       /\ Over(job[v], asset')[a] = IF job[v].mine[a] # NoRow THEN job[v].mine[a] ELSE asset'[a]
    BY <1>1, <2>1, OverHas
  <2>3. \A a \in Ids : job[v].mine[a] # NoRow => Flagged(job[v].mine[a], reporters'[a] \union {job[v].source})
    BY <1>0, <1>1, <2>0, <2>1 DEF BatchFlagged
  <2>4. ASSUME job[v].into # None
        PROVE  /\ Over(job[v], asset')[job[v].into] # NoRow
               /\ job[v].seen.sources \intersect Authoritative \subseteq reporters'[job[v].into] \union {job[v].source}
               /\ job[v].seen.shadow /\ (reporters'[job[v].into] \union {job[v].source}) \intersect Authoritative = {}
                    => Over(job[v], asset')[job[v].into].shadow
    <3>1. PICK c \in Ids : c = job[v].into
      BY <2>1, <2>4, JobHas
    <3>2. /\ Over(job[v], asset)[c] # NoRow
          /\ job[v].seen.sources \intersect Authoritative \subseteq reporters[c] \union {job[v].source}
          /\ job[v].seen.shadow /\ (reporters[c] \union {job[v].source}) \intersect Authoritative = {}
               => Over(job[v], asset)[c].shadow
      BY <1>0, <2>4, <3>1 DEF BatchFlagged
    <3>3. CASE c \notin Mine(w)
      BY <1>1, <2>2, <3>1, <3>2, <3>3
    <3>4. CASE c \in Mine(w)
      <4>1. c \notin Mine(v)
        BY <2>0, <3>4
      <4>2. Over(job[v], asset')[c] = job[w].mine[c] /\ reporters'[c] = reporters[c] \union {job[w].source}
        BY <1>1, <2>1, <2>2, <3>4, <4>1
      <4>3. (reporters[c] \union {job[w].source}) \intersect Authoritative = {} => job[w].mine[c].shadow
        BY <1>2, <3>4 DEF Flagged
      <4>4. job[w].mine[c] # NoRow
        BY <1>2, <3>4
      <4> QED
        BY <3>1, <3>2, <4>2, <4>3, <4>4
    <3> QED
      BY <3>3, <3>4
  <2> QED
    BY <1>0, <2>3, <2>4 DEF BatchFlagged
<1>9. \A v \in Workers : BatchFlagged(job'[v], asset', reporters')
  <2>1. BatchFlagged(Idle, asset', reporters')
    BY IdleHas DEF BatchFlagged
  <2> QED
    BY <1>1, <1>8, <2>1
<1> QED
  BY <1>5, <1>6, <1>7, <1>9 DEF FlagInv

\* A row entered by hand is no other's.
LEMMA CreateAssetFlags ==
  ASSUME FlagInv, NEW a \in Ids, NEW mac \in Macs \union {None}, NEW ip \in Ips \union {None}, NEW name \in Names,
         CreateAsset(a, mac, ip, name)
  PROVE  FlagInv'
<1>0. /\ TypeOK /\ RowsAreLocked /\ TableFlagged(asset, reporters) /\ UNCHANGED <<open, job, reporters>>
      /\ \A v \in Workers : BatchFlagged(job[v], asset, reporters)
      /\ asset[a] = NoRow /\ (\A v \in Workers : a \notin Mine(v)) /\ asset \in Table
  BY DEF FlagInv, CreateAsset, Fresh, TypeOK, Table
<1>1. PICK y : y = [mac |-> mac, ip |-> ip, name |-> name, owner |-> Manual, sources |-> {Manual},
                    services |-> {}, shadow |-> FALSE]
  OBVIOUS
<1>2. asset' = [asset EXCEPT ![a] = y]
  BY <1>1 DEF CreateAsset
<1>3. y \in Row /\ y # NoRow
  <2>1. y \in Row
    BY <1>1, SourcesDeclared DEF Row
  <2> QED
    BY <2>1, RowIsNoNoRow
<1>4. y.sources # {} /\ y.sources \intersect Authoritative = {}
  BY <1>1, SourcesDeclared
<1>5. asset' \in Table /\ asset'[a] = y /\ \A b \in Ids \ {a} : asset'[b] = asset[b]
  BY <1>0, <1>2, <1>3 DEF Table
<1>6. TypeOK'
  <2>1. manual' \in 0..MaxManual
    BY <1>0, BoundsAreNaturals DEF CreateAsset, TypeOK
  <2>2. \A w \in Workers : job[w].asked \subseteq Macs
    BY <1>0, JobHas DEF TypeOK
  <2>3. {MacOf(asset[b]) : b \in Ids} \subseteq Macs \union {None}
    BY <1>0, RowHas DEF Table, MacOf
  <2>4. crossed' \subseteq Macs
    BY <1>0, <2>2, <2>3 DEF CreateAsset, TypeOK
  <2> QED
    BY <1>0, <1>5, <2>1, <2>4 DEF TypeOK, Table
<1>7. RowsAreLocked'
  BY <1>0 DEF RowsAreLocked, Mine
<1>8. TableFlagged(asset', reporters')
  <2> SUFFICES ASSUME NEW b \in Ids
               PROVE  IF asset'[b] = NoRow THEN reporters[b] = {} ELSE Flagged(asset'[b], reporters[b])
    BY <1>0 DEF TableFlagged
  <2>1. CASE b = a
    <3>1. reporters[a] = {}
      BY <1>0 DEF TableFlagged
    <3> QED
      BY <1>3, <1>4, <1>5, <2>1, <3>1 DEF Flagged
  <2>2. CASE b # a
    BY <1>0, <1>5, <2>2 DEF TableFlagged
  <2> QED
    BY <2>1, <2>2
<1>9. ASSUME NEW v \in Workers PROVE BatchFlagged(job[v], asset', reporters)
  <2>1. /\ job[v] \in Job \union {Idle} /\ job[v].mine \in Table
        /\ \A b \in Ids : b \in Mine(v) <=> job[v].mine[b] # NoRow
    BY <1>0, ViewHas
  <2>2. \A b \in Ids : /\ Over(job[v], asset)[b] = IF job[v].mine[b] # NoRow THEN job[v].mine[b] ELSE asset[b]
                       /\ Over(job[v], asset')[b] = IF job[v].mine[b] # NoRow THEN job[v].mine[b] ELSE asset'[b]
    BY <1>0, <1>5, <2>1, OverHas
  <2>3. Over(job[v], asset)[a] = NoRow
    BY <1>0, <2>1, <2>2
  <2>4. \A b \in Ids \ {a} : Over(job[v], asset')[b] = Over(job[v], asset)[b]
    BY <1>5, <2>2
  <2>5. job[v].into # None => job[v].into \in Ids \ {a}
    BY <1>0, <2>1, <2>3, JobHas DEF BatchFlagged
  <2> QED
    BY <1>0, <2>4, <2>5 DEF BatchFlagged
<1> QED
  BY <1>0, <1>6, <1>7, <1>8, <1>9 DEF FlagInv

LEMMA AlertFlags ==
  ASSUME FlagInv, \/ \E a \in Ids : DayPasses(a)
                  \/ \E a \in Ids, t \in AlertTypes : Resolve(t, a)
  PROVE  FlagInv'
<1>0. TypeOK
  BY DEF FlagInv
<1>1. UNCHANGED <<asset, job, manual, reporters, crossed>>
  BY DEF DayPasses, Resolve
<1>2. open' \in [AlertTypes -> [Ids -> 0..MaxAlerts]]
  <2>1. ASSUME NEW a \in Ids, DayPasses(a) PROVE open' \in [AlertTypes -> [Ids -> 0..MaxAlerts]]
    <3>1. open' = [t \in AlertTypes |-> [open[t] EXCEPT ![a] = 0]]
      BY <2>1 DEF DayPasses
    <3>2. \A t \in AlertTypes : [open[t] EXCEPT ![a] = 0] \in [Ids -> 0..MaxAlerts]
      BY <1>0, BoundsAreNaturals DEF TypeOK
    <3> QED
      BY <3>1, <3>2
  <2>2. ASSUME NEW a \in Ids, NEW t \in AlertTypes, Resolve(t, a)
        PROVE  open' \in [AlertTypes -> [Ids -> 0..MaxAlerts]]
    <3>1. open' = [open EXCEPT ![t] = [open[t] EXCEPT ![a] = open[t][a] - 1]] /\ open[t][a] > 0
      BY <1>0, <2>2 DEF Resolve, TypeOK
    <3>2. open[t] \in [Ids -> 0..MaxAlerts] /\ open[t][a] - 1 \in 0..MaxAlerts
      BY <1>0, <3>1, BoundsAreNaturals DEF TypeOK
    <3>3. [open[t] EXCEPT ![a] = open[t][a] - 1] \in [Ids -> 0..MaxAlerts]
      BY <3>2
    <3> QED
      BY <1>0, <3>1, <3>3 DEF TypeOK
  <2> QED
    BY <2>1, <2>2
<1>3. TypeOK'
  BY <1>0, <1>1, <1>2 DEF TypeOK
<1>4. RowsAreLocked' /\ TableFlagged(asset, reporters)'
  BY <1>1 DEF FlagInv, RowsAreLocked, Mine, TableFlagged
<1> QED
  BY <1>1, <1>3, <1>4 DEF FlagInv

LEMMA FlagsHold == Spec => []FlagInv
<1>1. Init => FlagInv
  <2> SUFFICES ASSUME Init PROVE FlagInv
    OBVIOUS
  <2>1. TypeOK
    BY BoundsAreNaturals DEF Init, TypeOK
  <2>2. \A w \in Workers : job[w] = Idle /\ Mine(w) = {}
    BY IdleHas DEF Init, Mine
  <2>3. TableFlagged(asset, reporters)
    BY DEF Init, TableFlagged
  <2>4. BatchFlagged(Idle, asset, reporters)
    BY IdleHas DEF BatchFlagged
  <2> QED
    BY <2>1, <2>2, <2>3, <2>4 DEF FlagInv, RowsAreLocked
<1>2. FlagInv /\ [Next]_vars => FlagInv'
  <2> SUFFICES ASSUME FlagInv, [Next]_vars PROVE FlagInv'
    OBVIOUS
  <2>1. CASE UNCHANGED vars
    <3>1. UNCHANGED <<asset, open, job, manual, reporters, crossed>>
      BY <2>1 DEF vars
    <3>2. TypeOK' /\ RowsAreLocked' /\ TableFlagged(asset, reporters)'
      BY <3>1 DEF FlagInv, TypeOK, RowsAreLocked, Mine, TableFlagged
    <3> QED
      BY <3>1, <3>2 DEF FlagInv
  <2>2. ASSUME NEW w \in Workers, Flush(w) \/ Commit(w) \/ Abandon(w) \/ \E r \in Reports : Read(w, r) PROVE FlagInv'
    BY <2>2, FlushFlags, CommitFlags, AbandonFlags, ReadFlags
  <2> QED
    BY <2>1, <2>2, CreateAssetFlags, AlertFlags DEF Next
<1> QED
  BY <1>1, <1>2, PTL DEF Spec

-----------------------------------------------------------------------------
(* The theorems on types and flags.                                        *)

\* Rows, jobs and counters keep their types.
THEOREM InventoryTypeCorrect == Spec => []TypeOK
<1>1. FlagInv => TypeOK
  BY DEF FlagInv
<1> QED
  BY <1>1, FlagsHold, PTL

\* An asset that no authoritative source has reported is flagged as shadow IT,
\* whatever reports of it are merged at the same time.
THEOREM UnreportedStaysShadow == Spec => []UnreportedIsShadow
<1>1. FlagInv => UnreportedIsShadow
  BY DEF FlagInv, TableFlagged, Flagged, UnreportedIsShadow, Known
<1> QED
  BY <1>1, FlagsHold, PTL

-----------------------------------------------------------------------------
(* One row for each MAC.  A batch looks a MAC up before it gives it to a    *)
(* row, and sees its own rows; what it does not see are the rows of other   *)
(* batches, and crossed has the MACs these bring in behind its back.        *)

OneRow(t, m) ==
  \A a, b \in Ids : t[a] # NoRow /\ t[b] # NoRow /\ t[a].mac = m /\ t[b].mac = m => a = b

\* A batch sees one row of each MAC it has looked up, and has given its rows no
\* other MACs; a row that has the MAC of the report in memory is the one the
\* report is merged into.
BatchApart(j, t, x) ==
  /\ \A m \in j.asked \ x : OneRow(Over(j, t), m)
  /\ \A a \in Ids : j.mine[a] # NoRow =>
       \/ j.mine[a].mac \in j.asked \union {None}
       \/ t[a] # NoRow /\ t[a].mac = j.mine[a].mac
  /\ j.into # None =>
       /\ j.report.mac \in j.asked \union {None}
       /\ j.report.mac \notin x \union {None} =>
            \A b \in Ids : Over(j, t)[b] # NoRow /\ Over(j, t)[b].mac = j.report.mac => b = j.into

TableApart(t, x) == \A m \in Macs \ x : OneRow(t, m)

ApartInv == TableApart(asset, crossed) /\ \A w \in Workers : BatchApart(job[w], asset, crossed)

\* What is true of the table is true of what a session sees.
LEMMA SeenApart ==
  ASSUME NEW t \in Table, NEW x, NEW j \in Job \union {Idle}, TableApart(t, x), BatchApart(j, t, x),
         NEW m \in Macs \ x
  PROVE  OneRow(Over(j, t), m)
<1>1. j.mine \in Table
  BY JobHas
<1>2. \A a \in Ids : Over(j, t)[a] = IF j.mine[a] # NoRow THEN j.mine[a] ELSE t[a]
  BY <1>1, OverHas
<1>3. CASE m \in j.asked
  BY <1>3 DEF BatchApart
<1>4. CASE m \notin j.asked
  <2>1. \A a \in Ids : Over(j, t)[a] # NoRow /\ Over(j, t)[a].mac = m => t[a] # NoRow /\ t[a].mac = m
    BY <1>2, <1>4, NoneIsNoValue DEF BatchApart
  <2>2. OneRow(t, m)
    BY DEF TableApart
  <2> QED
    BY <2>1, <2>2 DEF OneRow
<1> QED
  BY <1>3, <1>4

\* A step of one batch leaves the table, and what other batches see of it, alone.
LEMMA BatchStepApart ==
  ASSUME FlagInv, ApartInv, NEW w \in Workers, NEW j, job' = [job EXCEPT ![w] = j],
         UNCHANGED <<asset, crossed>>, BatchApart(j, asset, crossed)
  PROVE  ApartInv'
<1>1. job'[w] = j /\ \A v \in Workers \ {w} : job'[v] = job[v]
  BY DEF FlagInv, TypeOK
<1>2. \A v \in Workers : BatchApart(job'[v], asset, crossed)
  BY <1>1 DEF ApartInv
<1>3. \A v \in Workers : BatchApart(job'[v], asset', crossed')
  BY <1>2
<1>4. TableApart(asset', crossed')
  BY DEF ApartInv
<1> QED
  BY <1>3, <1>4 DEF ApartInv

LEMMA AbandonApart ==
  ASSUME FlagInv, ApartInv, NEW w \in Workers, Abandon(w)
  PROVE  ApartInv'
<1>1. BatchApart(Idle, asset, crossed)
  BY IdleHas DEF BatchApart
<1> QED
  BY <1>1, BatchStepApart DEF Abandon

LEMMA ReadApart ==
  ASSUME FlagInv, ApartInv, NEW w \in Workers, NEW r \in Reports, Read(w, r)
  PROVE  ApartInv'
<1>0. /\ TypeOK /\ UNCHANGED <<asset, crossed>> /\ job[w].into = None
      /\ BatchApart(job[w], asset, crossed) /\ TableApart(asset, crossed)
  BY DEF FlagInv, ApartInv, Read
<1>1. PICK a \in Ids : ReadHost(w, r, a) \/ InsertHost(w, r, a)
  BY DEF Read
<1>2. /\ View(w) = Over(job[w], asset) /\ asset \in Table
      /\ job[w] \in Job \union {Idle} /\ job[w].mine \in Table /\ job[w].asked \subseteq Macs
      /\ \A b \in Ids : b \in Mine(w) <=> job[w].mine[b] # NoRow
      /\ \A b \in Ids : View(w)[b] = IF b \in Mine(w) THEN job[w].mine[b] ELSE asset[b]
  BY <1>0, ViewHas, JobHas
<1>3. \A m \in Macs \ crossed : OneRow(View(w), m)
  BY <1>0, <1>2, SeenApart
<1>4. r.mac \in Macs \union {None}
  BY ReportHas
<1>5. \A b \in Ids : View(w)[b] # NoRow /\ View(w)[b].mac = r.mac /\ r.mac # None => b \in Found(r, View(w))
  BY DEF Found, ByMac
<1>6. CASE ReadHost(w, r, a)
  <2>1. PICK j \in Job :
           /\ job' = [job EXCEPT ![w] = j]
           /\ j.source = r.source /\ j.asked = job[w].asked \union ({r.mac} \ {None})
           /\ j.mine = job[w].mine /\ j.into = a /\ j.seen = View(w)[a] /\ j.report = r
    BY <1>0, <1>6, ReadHostHas
  <2>2. Over(j, asset) = View(w)
    BY <1>2, <2>1 DEF Over
  <2>3. \A m \in j.asked \ crossed : OneRow(Over(j, asset), m)
    BY <1>2, <1>3, <1>4, <2>1, <2>2
  <2>4. \A b \in Ids : View(w)[b] # NoRow /\ View(w)[b].mac = r.mac /\ r.mac # None => b = a
    BY <1>5, <1>6 DEF ReadHost
  <2>5. BatchApart(j, asset, crossed)
    BY <1>0, <1>4, <2>1, <2>2, <2>3, <2>4 DEF BatchApart
  <2> QED
    BY <1>0, <2>1, <2>5, BatchStepApart
<1>7. CASE InsertHost(w, r, a)
  <2>1. PICK j \in Job :
           /\ job' = [job EXCEPT ![w] = j]
           /\ j.source = r.source /\ j.asked = job[w].asked \union ({r.mac} \ {None})
           /\ j.mine = [job[w].mine EXCEPT ![a] = Created(r)] /\ j.into = None
    BY <1>0, <1>7, InsertHostHas
  <2>2. j.mine[a] = Created(r) /\ (\A b \in Ids \ {a} : j.mine[b] = job[w].mine[b]) /\ j.mine \in Table
    BY <1>2, <2>1, JobHas DEF Table
  <2>3. Over(j, asset)[a] = Created(r) /\ Created(r).mac = r.mac
        /\ \A b \in Ids \ {a} : Over(j, asset)[b] = View(w)[b]
    <3>1. \A b \in Ids : Over(j, asset)[b] = IF j.mine[b] # NoRow THEN j.mine[b] ELSE asset[b]
      BY <1>2, <2>2, OverHas
    <3>2. Created(r).mac = r.mac /\ Created(r) # NoRow
      BY CreatedHas
    <3>3. \A b \in Ids : View(w)[b] = IF job[w].mine[b] # NoRow THEN job[w].mine[b] ELSE asset[b]
      BY <1>2
    <3> QED
      BY <2>2, <3>1, <3>2, <3>3
  <2>4. \A b \in Ids : View(w)[b] # NoRow => View(w)[b].mac # r.mac \/ r.mac = None
    BY <1>5, <1>7 DEF InsertHost
  <2>5. ASSUME NEW m \in j.asked \ crossed PROVE OneRow(Over(j, asset), m)
    <3>1. m \in Macs \ crossed /\ m # None
      BY <1>2, <1>4, <2>1, <2>5, NoneIsNoValue
    <3>2. OneRow(View(w), m)
      BY <1>3, <3>1
    <3>3. CASE m = r.mac
      BY <2>3, <2>4, <3>1, <3>3 DEF OneRow
    <3>4. CASE m # r.mac
      BY <2>3, <3>2, <3>4 DEF OneRow
    <3> QED
      BY <3>3, <3>4
  <2>6. \A b \in Ids : j.mine[b] # NoRow =>
          \/ j.mine[b].mac \in j.asked \union {None}
          \/ asset[b] # NoRow /\ asset[b].mac = j.mine[b].mac
    BY <1>0, <2>1, <2>2, <2>3 DEF BatchApart
  <2>7. BatchApart(j, asset, crossed)
    BY <2>1, <2>5, <2>6 DEF BatchApart
  <2> QED
    BY <1>0, <2>1, <2>7, BatchStepApart
<1> QED
  BY <1>1, <1>6, <1>7

LEMMA FlushApart ==
  ASSUME FlagInv, ApartInv, NEW w \in Workers, Flush(w)
  PROVE  ApartInv'
<1>0. /\ TypeOK /\ UNCHANGED <<asset, crossed>> /\ job[w].into # None
      /\ BatchFlagged(job[w], asset, reporters) /\ TableFlagged(asset, reporters)
      /\ BatchApart(job[w], asset, crossed)
  BY DEF FlagInv, ApartInv, Flush
<1>1. /\ View(w) = Over(job[w], asset) /\ asset \in Table
      /\ job[w] \in Job \union {Idle} /\ job[w].mine \in Table /\ job[w].asked \subseteq Macs
      /\ \A b \in Ids : View(w)[b] = IF job[w].mine[b] # NoRow THEN job[w].mine[b] ELSE asset[b]
  BY <1>0, ViewHas, JobHas
<1>2. PICK c \in Ids : c = job[w].into
  BY <1>0, <1>1, JobHas
<1>3. PICK r : r = job[w].report
  OBVIOUS
<1>4. /\ View(w)[c] # NoRow
      /\ r.mac \in job[w].asked \union {None}
      /\ r.mac \notin crossed \union {None} =>
           \A b \in Ids : View(w)[b] # NoRow /\ View(w)[b].mac = r.mac => b = c
  BY <1>0, <1>1, <1>2, <1>3 DEF BatchFlagged, BatchApart
<1>5. PICK y \in Row : /\ y = Written(View(w)[job[w].into], job[w].seen, Merged(job[w].report, job[w].seen))
                       /\ y.mac \in {View(w)[c].mac} \union ({r.mac} \ {None})
  BY <1>0, <1>1, <1>2, <1>3, FlushWrites
<1>6. PICK j \in Job :
           /\ job' = [job EXCEPT ![w] = j] /\ j.source = job[w].source /\ j.asked = job[w].asked
           /\ j.mine = [job[w].mine EXCEPT ![job[w].into] = y] /\ j.into = None
  BY <1>0, <1>5, FlushHas
<1>7. /\ j.mine \in Table /\ j.mine[c] = y /\ y # NoRow
      /\ \A b \in Ids \ {c} : j.mine[b] = job[w].mine[b]
  BY <1>1, <1>2, <1>6, JobHas, RowIsNoNoRow DEF Table
<1>8. Over(j, asset)[c] = y /\ \A b \in Ids \ {c} : Over(j, asset)[b] = View(w)[b]
  <2>1. \A b \in Ids : Over(j, asset)[b] = IF j.mine[b] # NoRow THEN j.mine[b] ELSE asset[b]
    BY <1>1, <1>7, OverHas
  <2> QED
    BY <1>1, <1>7, <2>1
<1>9. ASSUME NEW m \in j.asked \ crossed PROVE OneRow(Over(j, asset), m)
  <2>1. OneRow(View(w), m) /\ m # None
    BY <1>0, <1>1, <1>6, <1>9, NoneIsNoValue DEF BatchApart
  <2>2. CASE y.mac = View(w)[c].mac
    BY <1>4, <1>7, <1>8, <2>1, <2>2 DEF OneRow
  <2>3. CASE y.mac = r.mac /\ r.mac # None
    <3>1. CASE m = r.mac
      BY <1>4, <1>8, <1>9, <2>3, <3>1 DEF OneRow
    <3>2. CASE m # r.mac
      BY <1>8, <2>1, <2>3, <3>2 DEF OneRow
    <3> QED
      BY <3>1, <3>2
  <2> QED
    BY <1>5, <2>2, <2>3
<1>10. ASSUME NEW b \in Ids, j.mine[b] # NoRow
       PROVE  \/ j.mine[b].mac \in j.asked \union {None}
              \/ asset[b] # NoRow /\ asset[b].mac = j.mine[b].mac
  <2>1. CASE b # c
    BY <1>0, <1>6, <1>7, <1>10, <2>1 DEF BatchApart
  <2>2. CASE b = c /\ y.mac = View(w)[c].mac
    <3>1. CASE job[w].mine[c] # NoRow
      BY <1>0, <1>1, <1>6, <1>7, <2>2, <3>1 DEF BatchApart
    <3>2. CASE job[w].mine[c] = NoRow
      BY <1>1, <1>4, <1>7, <2>2, <3>2
    <3> QED
      BY <3>1, <3>2
  <2>3. CASE b = c /\ y.mac = r.mac
    BY <1>4, <1>6, <1>7, <2>3
  <2> QED
    BY <1>5, <2>1, <2>2, <2>3
<1>11. BatchApart(j, asset, crossed)
  BY <1>6, <1>9, <1>10 DEF BatchApart
<1> QED
  BY <1>0, <1>6, <1>11, BatchStepApart

\* The rows of a batch are given no MAC that others have looked up, but one that is crossed.
LEMMA CommitApart ==
  ASSUME FlagInv, ApartInv, NEW w \in Workers, Commit(w)
  PROVE  ApartInv'
<1>0. /\ TypeOK /\ RowsAreLocked /\ TableApart(asset, crossed)
      /\ crossed' = crossed \union (Given(w) \intersect AskedByOthers(w))
      /\ \A v \in Workers : BatchApart(job[v], asset, crossed)
  BY DEF FlagInv, ApartInv, Commit
<1>1. /\ asset' \in Table /\ asset' = View(w)
      /\ \A a \in Mine(w) : asset'[a] = job[w].mine[a]
      /\ \A a \in Ids \ Mine(w) : asset'[a] = asset[a]
      /\ job'[w] = Idle /\ \A v \in Workers \ {w} : job'[v] = job[v]
  BY <1>0, CommitHas
<1>2. asset \in Table /\ View(w) = Over(job[w], asset) /\ job[w] \in Job \union {Idle}
  BY <1>0, ViewHas
<1>3. TableApart(asset', crossed')
  <2>1. ASSUME NEW m \in Macs \ crossed' PROVE OneRow(asset', m)
    <3>1. m \in Macs \ crossed
      BY <1>0, <2>1
    <3> QED
      BY <1>0, <1>1, <1>2, <3>1, SeenApart
  <2> QED
    BY <2>1 DEF TableApart
<1>4. ASSUME NEW v \in Workers \ {w} PROVE BatchApart(job[v], asset', crossed')
  <2>1. /\ job[v] \in Job \union {Idle} /\ job[v].mine \in Table /\ job[v].asked \subseteq Macs
        /\ BatchApart(job[v], asset, crossed)
        /\ \A a \in Ids : a \in Mine(v) <=> job[v].mine[a] # NoRow
    BY <1>0, ViewHas, JobHas
  <2>2. \A a \in Ids : /\ Over(job[v], asset)[a] = IF job[v].mine[a] # NoRow THEN job[v].mine[a] ELSE asset[a]
                       /\ Over(job[v], asset')[a] = IF job[v].mine[a] # NoRow THEN job[v].mine[a] ELSE asset'[a]
    BY <1>1, <1>2, <2>1, OverHas
  <2>3. \A a \in Mine(v) : a \notin Mine(w)
    BY <1>0 DEF RowsAreLocked
  <2>4. ASSUME NEW m \in job[v].asked \ crossed', NEW a \in Ids,
               Over(job[v], asset')[a] # NoRow, Over(job[v], asset')[a].mac = m
        PROVE  Over(job[v], asset)[a] # NoRow /\ Over(job[v], asset)[a].mac = m
    <3>1. m \in AskedByOthers(w) /\ m \notin Given(w) /\ m # None
      BY <1>0, <2>1, <2>4, NoneIsNoValue DEF AskedByOthers
    <3>2. CASE a \in Mine(v)
      BY <2>1, <2>2, <2>4, <3>2
    <3>3. CASE a \notin Mine(v) /\ a \notin Mine(w)
      BY <1>1, <2>1, <2>2, <2>4, <3>3
    <3>4. CASE a \notin Mine(v) /\ a \in Mine(w)
      <4>1. job[w].mine[a].mac = m /\ Over(job[v], asset)[a] = asset[a]
        BY <1>1, <2>1, <2>2, <2>4, <3>4
      <4>2. MacOf(asset[a]) = m
        BY <3>1, <3>4, <4>1 DEF Given
      <4> QED
        BY <3>1, <4>1, <4>2 DEF MacOf
    <3> QED
      BY <3>2, <3>3, <3>4
  <2>5. \A m \in job[v].asked \ crossed' : OneRow(Over(job[v], asset'), m)
    <3> SUFFICES ASSUME NEW m \in job[v].asked \ crossed' PROVE OneRow(Over(job[v], asset'), m)
      OBVIOUS
    <3>1. OneRow(Over(job[v], asset), m)
      BY <1>0, <2>1 DEF BatchApart
    <3> QED
      BY <2>4, <3>1 DEF OneRow
  <2>6. \A a \in Ids : job[v].mine[a] # NoRow => asset'[a] = asset[a]
    BY <1>1, <2>1, <2>3
  <2>7. ASSUME job[v].into # None, job[v].report.mac \notin crossed' \union {None}, NEW b \in Ids,
               Over(job[v], asset')[b] # NoRow, Over(job[v], asset')[b].mac = job[v].report.mac
        PROVE  b = job[v].into
    <3>1. job[v].report.mac \in job[v].asked \ crossed'
      BY <2>1, <2>7 DEF BatchApart
    <3>2. Over(job[v], asset)[b] # NoRow /\ Over(job[v], asset)[b].mac = job[v].report.mac
      BY <2>4, <2>7, <3>1
    <3>3. job[v].report.mac \notin crossed \union {None}
      BY <1>0, <2>7
    <3> QED
      BY <2>1, <2>7, <3>2, <3>3 DEF BatchApart
  <2> QED
    BY <2>1, <2>5, <2>6, <2>7 DEF BatchApart
<1>5. \A v \in Workers : BatchApart(job'[v], asset', crossed')
  <2>1. BatchApart(Idle, asset', crossed')
    BY IdleHas DEF BatchApart
  <2> QED
    BY <1>1, <1>4, <2>1
<1> QED
  BY <1>3, <1>5 DEF ApartInv

LEMMA CreateAssetApart ==
  ASSUME FlagInv, ApartInv, NEW a \in Ids, NEW mac, NEW ip, NEW name, CreateAsset(a, mac, ip, name)
  PROVE  ApartInv'
<1>0. /\ TypeOK /\ TableApart(asset, crossed) /\ job' = job /\ asset \in Table
      /\ \A v \in Workers : BatchApart(job[v], asset, crossed)
      /\ asset[a] = NoRow /\ \A v \in Workers : a \notin Mine(v)
      /\ crossed' = crossed \union
           (({mac} \ {None}) \intersect ({MacOf(asset[b]) : b \in Ids} \union UNION {job[w].asked : w \in Workers}))
  BY DEF FlagInv, ApartInv, CreateAsset, Fresh, TypeOK, Table
<1>1. PICK y : y = [mac |-> mac, ip |-> ip, name |-> name, owner |-> Manual, sources |-> {Manual},
                    services |-> {}, shadow |-> FALSE]
  OBVIOUS
<1>2. asset' = [asset EXCEPT ![a] = y] /\ y.mac = mac
  BY <1>1 DEF CreateAsset
<1>3. asset'[a] = y /\ (\A b \in Ids \ {a} : asset'[b] = asset[b]) /\ DOMAIN asset' = Ids
  BY <1>0, <1>2 DEF Table
<1>4. TableApart(asset', crossed')
  <2> SUFFICES ASSUME NEW m \in Macs \ crossed' PROVE OneRow(asset', m)
    BY DEF TableApart
  <2>1. OneRow(asset, m) /\ m # None
    BY <1>0, NoneIsNoValue DEF TableApart
  <2>2. CASE m = mac
    <3>1. \A b \in Ids : MacOf(asset[b]) # m
      BY <1>0, <2>1, <2>2
    <3> QED
      BY <1>3, <3>1 DEF OneRow, MacOf
  <2>3. CASE m # mac
    BY <1>2, <1>3, <2>1, <2>3 DEF OneRow
  <2> QED
    BY <2>2, <2>3
<1>5. ASSUME NEW v \in Workers PROVE BatchApart(job[v], asset', crossed')
  <2>1. /\ job[v] \in Job \union {Idle} /\ job[v].mine \in Table /\ job[v].asked \subseteq Macs
        /\ BatchApart(job[v], asset, crossed) /\ job[v].mine[a] = NoRow
    BY <1>0, ViewHas, JobHas
  <2>2. \A b \in Ids : /\ Over(job[v], asset)[b] = IF job[v].mine[b] # NoRow THEN job[v].mine[b] ELSE asset[b]
                       /\ Over(job[v], asset')[b] = IF job[v].mine[b] # NoRow THEN job[v].mine[b] ELSE asset'[b]
    BY DEF Over
  <2>3. ASSUME NEW m \in job[v].asked \ crossed', NEW b \in Ids,
               Over(job[v], asset')[b] # NoRow, Over(job[v], asset')[b].mac = m
        PROVE  Over(job[v], asset)[b] # NoRow /\ Over(job[v], asset)[b].mac = m
    <3>1. m # mac
      BY <1>0, <2>1, <2>3, NoneIsNoValue
    <3>2. b # a
      BY <1>2, <1>3, <2>1, <2>2, <2>3, <3>1
    <3> QED
      BY <1>3, <2>2, <2>3, <3>2
  <2>4. \A m \in job[v].asked \ crossed' : OneRow(Over(job[v], asset'), m)
    <3> SUFFICES ASSUME NEW m \in job[v].asked \ crossed' PROVE OneRow(Over(job[v], asset'), m)
      OBVIOUS
    <3>1. OneRow(Over(job[v], asset), m)
      BY <1>0, <2>1 DEF BatchApart
    <3> QED
      BY <2>3, <3>1 DEF OneRow
  <2>5. \A b \in Ids : job[v].mine[b] # NoRow => asset'[b] = asset[b]
    BY <1>3, <2>1
  <2>6. ASSUME job[v].into # None, job[v].report.mac \notin crossed' \union {None}, NEW b \in Ids,
               Over(job[v], asset')[b] # NoRow, Over(job[v], asset')[b].mac = job[v].report.mac
        PROVE  b = job[v].into
    <3>1. job[v].report.mac \in job[v].asked \ crossed'
      BY <2>1, <2>6 DEF BatchApart
    <3>2. Over(job[v], asset)[b] # NoRow /\ Over(job[v], asset)[b].mac = job[v].report.mac
      BY <2>3, <2>6, <3>1
    <3>3. job[v].report.mac \notin crossed \union {None}
      BY <1>0, <2>6
    <3> QED
      BY <2>1, <2>6, <3>2, <3>3 DEF BatchApart
  <2> QED
    BY <2>1, <2>4, <2>5, <2>6 DEF BatchApart
<1> QED
  BY <1>0, <1>4, <1>5 DEF ApartInv

\* However hosts change their addresses and names, whatever reports leave out and
\* however many batches are merged at the same time, two rows have one MAC only
\* where a session gave it to a row while another that had looked it up went on, or
\* where it was entered by hand.
THEOREM OnlyRacesDoubleHosts == Spec => []OneAssetPerMac
<1>1. Init => ApartInv
  <2> SUFFICES ASSUME Init PROVE ApartInv
    OBVIOUS
  <2>1. TableApart(asset, crossed)
    BY DEF Init, TableApart, OneRow
  <2>2. BatchApart(Idle, asset, crossed)
    BY IdleHas DEF BatchApart
  <2> QED
    BY <2>1, <2>2 DEF Init, ApartInv
<1>2. FlagInv /\ ApartInv /\ [Next]_vars => ApartInv'
  <2> SUFFICES ASSUME FlagInv, ApartInv, [Next]_vars PROVE ApartInv'
    OBVIOUS
  <2>1. ASSUME UNCHANGED <<asset, job, crossed>> PROVE ApartInv'
    BY <2>1 DEF ApartInv
  <2>2. CASE UNCHANGED vars
    BY <2>1, <2>2 DEF vars
  <2>3. ASSUME NEW w \in Workers, Flush(w) \/ Commit(w) \/ Abandon(w) \/ \E r \in Reports : Read(w, r) PROVE ApartInv'
    BY <2>3, FlushApart, CommitApart, AbandonApart, ReadApart
  <2>4. ASSUME NEW a \in Ids, DayPasses(a) \/ \E t \in AlertTypes : Resolve(t, a) PROVE ApartInv'
    BY <2>1, <2>4 DEF DayPasses, Resolve
  <2> QED
    BY <2>2, <2>3, <2>4, CreateAssetApart DEF Next
<1>3. FlagInv /\ ApartInv => OneAssetPerMac
  <2> SUFFICES ASSUME FlagInv, ApartInv, NEW a \in Known, NEW b \in Known,
                      asset[a].mac \notin crossed \union {None}, asset[a].mac = asset[b].mac
               PROVE  a = b
    BY DEF OneAssetPerMac
  <2>1. a \in Ids /\ b \in Ids /\ asset[a] # NoRow /\ asset[b] # NoRow /\ asset[a] \in Row
    BY DEF Known, FlagInv, TypeOK
  <2>2. asset[a].mac \in Macs \ crossed
    BY <2>1, RowHas
  <2> QED
    BY <2>1, <2>2 DEF ApartInv, TableApart, OneRow
<1> QED
  BY <1>1, <1>2, <1>3, FlagsHold, PTL DEF Spec

-----------------------------------------------------------------------------
(* Bulk imports, the other way into the inventory, for any files, requests, *)
(* limit and window: files and counts first.                               *)

LEMMA FileHas ==
  ASSUME NEW f \in Files
  PROVE  f.rows \in Seq(Rows) /\ DOMAIN f.rows = 1..Len(f.rows) /\ Len(f.rows) \in Nat
<1>1. f.rows \in Seq(Rows)
  BY ImportsArePrepared
<1> QED
  BY <1>1

\* An import adds no more assets of a name than it has rows of that name.
LEMMA AddedAtMost ==
  ASSUME NEW f \in Files, NEW n
  PROVE  /\ IsFiniteSet(Positions(f, n)) /\ Cardinality(Positions(f, n)) \in Nat
         /\ Added(f, n) \in Nat /\ Added(f, n) <= Cardinality(Positions(f, n))
         /\ Added(f, n) > 0 => Positions(f, n) # {}
<1>1. IsFiniteSet(1..Len(f.rows))
  <2>1. 1 \in Int /\ Len(f.rows) \in Int
    BY FileHas
  <2> QED
    BY <2>1, FS_Interval
<1>2. Positions(f, n) \subseteq 1..Len(f.rows)
  BY FileHas DEF Positions
<1>3. IsFiniteSet(Positions(f, n)) /\ Cardinality(Positions(f, n)) \in Nat
  BY <1>1, <1>2, FS_Subset, FS_CardinalityType
<1> DEFINE kept == {i \in Positions(f, n) : f.rows[i].value # "ragged"}
<1>4. kept \subseteq Positions(f, n)
  OBVIOUS
<1>5. IsFiniteSet(kept) /\ Cardinality(kept) <= Cardinality(Positions(f, n)) /\ Cardinality(kept) \in Nat
  BY <1>3, <1>4, FS_Subset, FS_CardinalityType
<1>6. Positions(f, n) = {} => Cardinality(kept) = 0
  BY <1>4, FS_EmptySet
<1> QED
  BY <1>3, <1>5, <1>6 DEF Added

LEMMA LimitsArePositive ==
  /\ limit \in Nat /\ limit >= 1 /\ window_seconds \in Nat /\ window_seconds >= 1
  /\ Many \in Nat /\ Many >= 1 /\ Forever = -1
BY ImportsArePrepared DEF Forever

\* A second later, what was admitted in some seconds before is what was in one second less.
LEMMA EarlierAge ==
  ASSUME NEW age \in Ages, age # 0
  PROVE  age - 1 \in Ages /\ age \in Int
BY LimitsArePositive DEF Ages

LEMMA RequestHas ==
  ASSUME NEW q, q \in Request \union {NoRequest}, q # NoRequest
  PROVE  q.phase \in {"counted", "admitted", "checked"} /\ q.file \in Files /\ q.address \in Addresses
BY DEF Request

LEMMA IdleHasNoPhase ==
  NoRequest.phase = "idle"
BY DEF NoRequest

-----------------------------------------------------------------------------
(* The window.                                                             *)

\* The requests that a bucket has admitted: those it has counted, up to the limit.
Taken(b) == IF b.count > limit THEN limit ELSE b.count

\* Of what was admitted in the last window_seconds, the bucket has admitted its share, and at
\* most one limit was admitted before; and in the seconds since its expiry was set, only what
\* the bucket has.
InWindow(b, sums) ==
  \A age \in Ages :
    /\ sums[age] <= Taken(b) + limit
    /\ (b.ttl # Forever /\ age < window_seconds - b.ttl) => sums[age] <= Taken(b)

Window == \A x \in Addresses : InWindow(bucket[x], admitted[x])

WInv == ImportTypeOK /\ Window

LEMMA BucketTypes ==
  ASSUME NEW b \in Bucket
  PROVE  /\ Incremented(b) \in Bucket /\ Aged(b) \in Bucket
         /\ [b EXCEPT !.ttl = window_seconds] \in Bucket
BY LimitsArePositive DEF Bucket, Incremented, Aged, NoBucket, Forever

LEMMA ImportTypeStep ==
  ASSUME ImportTypeOK, [ImportNext]_importVars
  PROVE  ImportTypeOK'
<1>0. /\ assets \in [RowNames -> 0..Many]
      /\ bucket \in [Addresses -> Bucket]
      /\ req \in [Requests -> Request \union {NoRequest}]
      /\ admitted \in [Users \union Addresses -> [Ages -> Nat]]
      /\ lost \subseteq Addresses
      /\ clash \subseteq RowNames \X {"name", "NAME"} /\ raced \subseteq RowNames
  BY DEF ImportTypeOK
<1>1. ASSUME NEW r \in Requests, NEW f \in Files, NEW u \in Users, NEW x \in Addresses,
             Count(r, f, u, x)
      PROVE  ImportTypeOK'
  <2>1. bucket' \in [Addresses -> Bucket]
    BY <1>0, <1>1, BucketTypes DEF Count
  <2>2. UNCHANGED <<assets, lost, clash, raced>>
    BY <1>1 DEF Count
  <2>3. admitted' \in [Users \union Addresses -> [Ages -> Nat]]
    BY <1>0, <1>1 DEF Count, Admit
  <2>4. req' \in [Requests -> Request \union {NoRequest}]
    BY <1>0, <1>1 DEF Count, Request
  <2> QED
    BY <1>0, <2>1, <2>2, <2>3, <2>4 DEF ImportTypeOK
<1>2. ASSUME NEW r \in Requests, Expire(r)
      PROVE  ImportTypeOK'
  <2>1. req[r] # NoRequest /\ req[r] \in Request /\ req[r].address \in Addresses
    BY <1>0, <1>2, RequestHas, IdleHasNoPhase DEF Expire
  <2>2. bucket' \in [Addresses -> Bucket]
    <3> SUFFICES ASSUME NEW x \in Addresses, x = req[r].address
                 PROVE  [bucket EXCEPT ![x].ttl = window_seconds] \in [Addresses -> Bucket]
      BY <1>2, <2>1 DEF Expire
    <3>1. [bucket[x] EXCEPT !.ttl = window_seconds] \in Bucket
      BY <1>0, BucketTypes
    <3> QED
      BY <1>0, <3>1
  <2>3. [req[r] EXCEPT !.phase = "admitted"] \in Request
    BY <2>1 DEF Request
  <2>4. req' \in [Requests -> Request \union {NoRequest}]
    BY <1>0, <1>2, <2>3 DEF Expire
  <2> QED
    BY <1>0, <1>2, <2>2, <2>4 DEF Expire, ImportTypeOK
<1>3. ASSUME NEW r \in Requests, Check(r)
      PROVE  ImportTypeOK'
  <2>1. req[r] \in Request
    BY <1>0, <1>3, IdleHasNoPhase DEF Check
  <2>2. [req[r] EXCEPT !.phase = "checked"] \in Request
    BY <2>1 DEF Request
  <2>3. req' \in [Requests -> Request \union {NoRequest}]
    BY <1>0, <1>3, <2>2 DEF Check
  <2> QED
    BY <1>0, <1>3, <2>3 DEF Check, ImportTypeOK
<1>4. ASSUME NEW r \in Requests, CommitImport(r)
      PROVE  ImportTypeOK'
  <2>1. req[r] \in Request /\ req[r].file \in Files
    BY <1>0, <1>4, RequestHas, IdleHasNoPhase DEF CommitImport
  <2>2. req' \in [Requests -> Request \union {NoRequest}] /\ UNCHANGED <<bucket, admitted, lost>>
    BY <1>0, <1>4 DEF CommitImport
  <2>3. \A n \in RowNames : Capped(assets[n] + Added(req[r].file, n)) \in 0..Many
    BY <1>0, <2>1, AddedAtMost, LimitsArePositive DEF Capped
  <2>4. req[r].file.header \in {"name", "NAME"}
    BY <2>1, ImportsArePrepared
  <2>5. assets' \in [RowNames -> 0..Many] /\ raced' \subseteq RowNames
    BY <1>0, <1>4, <2>3 DEF CommitImport
  <2>6. clash' \subseteq RowNames \X {"name", "NAME"}
    BY <1>0, <1>4, <2>4 DEF CommitImport
  <2> QED
    BY <1>0, <2>2, <2>5, <2>6 DEF ImportTypeOK
<1>5. ASSUME NEW n \in RowNames, Appear(n)
      PROVE  ImportTypeOK'
  BY <1>0, <1>5, LimitsArePositive DEF Appear, ImportTypeOK
<1>6. ASSUME NEW r \in Requests, Lose(r)
      PROVE  ImportTypeOK'
  <2>1. lost' \subseteq Addresses
    BY <1>0, <1>6, RequestHas DEF Lose
  <2> QED
    BY <1>0, <1>6, <2>1 DEF Lose, ImportTypeOK
<1>7. CASE Second
  <2>1. bucket' \in [Addresses -> Bucket]
    BY <1>0, <1>7, BucketTypes DEF Second
  <2>2. admitted' \in [Users \union Addresses -> [Ages -> Nat]]
    <3>1. \A who \in Users \union Addresses, age \in Ages :
            (IF age = 0 THEN 0 ELSE admitted[who][age - 1]) \in Nat
      BY <1>0, EarlierAge
    <3> QED
      BY <1>7, <3>1 DEF Second
  <2> QED
    BY <1>0, <1>7, <2>1, <2>2 DEF Second, ImportTypeOK
<1>8. CASE UNCHANGED importVars
  BY <1>0, <1>8 DEF importVars, ImportTypeOK
<1> QED
  BY <1>1, <1>2, <1>3, <1>4, <1>5, <1>6, <1>7, <1>8 DEF ImportNext

\* A request is counted, and admitted if the count allows it.
LEMMA WindowCounts ==
  ASSUME NEW b \in Bucket, NEW sums \in [Ages -> Nat], InWindow(b, sums),
         NEW c, c = Incremented(b), NEW more,
         more = IF c.count > limit THEN sums ELSE [age \in Ages |-> sums[age] + 1]
  PROVE  InWindow(c, more)
<1>1. /\ c.count = (IF b.count > limit THEN b.count ELSE b.count + 1) /\ c.ttl = b.ttl
      /\ b.count \in 0..limit + 1
  BY LimitsArePositive DEF Bucket, Incremented
<1>2. CASE b.count >= limit
  <2>1. more = sums /\ Taken(c) = Taken(b)
    BY <1>1, <1>2, LimitsArePositive DEF Taken
  <2> QED
    BY <1>1, <2>1 DEF InWindow
<1>3. CASE b.count < limit
  <2>1. /\ \A age \in Ages : more[age] = sums[age] + 1
        /\ Taken(c) = Taken(b) + 1 /\ Taken(b) \in Nat
    BY <1>1, <1>3, LimitsArePositive DEF Taken
  <2> SUFFICES ASSUME NEW age \in Ages
               PROVE  /\ more[age] <= Taken(c) + limit
                      /\ (c.ttl # Forever /\ age < window_seconds - c.ttl) => more[age] <= Taken(c)
    BY DEF InWindow
  <2>2. /\ sums[age] <= Taken(b) + limit
        /\ (b.ttl # Forever /\ age < window_seconds - b.ttl) => sums[age] <= Taken(b)
    BY DEF InWindow
  <2> QED
    BY <1>1, <2>1, <2>2, LimitsArePositive
<1> QED
  BY <1>1, <1>2, <1>3, LimitsArePositive

\* A second passes, and the bucket may end with it.
LEMMA WindowAges ==
  ASSUME NEW b \in Bucket, NEW sums \in [Ages -> Nat], InWindow(b, sums),
         NEW older, older = [age \in Ages |-> IF age = 0 THEN 0 ELSE sums[age - 1]]
  PROVE  InWindow(Aged(b), older)
<1> DEFINE c == Aged(b)
<1>1. b.count \in 0..limit + 1 /\ b.ttl \in {Forever} \union 1..window_seconds /\ Taken(b) \in 0..limit
  BY LimitsArePositive DEF Bucket, Taken
<1>2. ASSUME NEW age \in Ages, age # 0
      PROVE  /\ age - 1 \in Ages /\ older[age] = sums[age - 1] /\ sums[age - 1] \in Nat
             /\ sums[age - 1] <= Taken(b) + limit
             /\ (b.ttl # Forever /\ age - 1 < window_seconds - b.ttl) => sums[age - 1] <= Taken(b)
  BY <1>2, EarlierAge DEF InWindow
<1>3. CASE b.ttl = 1
  <2>1. c.count = 0 /\ c.ttl = Forever /\ Taken(c) = 0
    BY <1>3, LimitsArePositive DEF Aged, NoBucket, Taken
  <2>2. ASSUME NEW age \in Ages PROVE older[age] <= limit
    <3>1. CASE age = 0
      BY <3>1, LimitsArePositive
    <3>2. CASE age # 0
      <4>1. age - 1 < window_seconds - 1
        BY <3>2, LimitsArePositive DEF Ages
      <4> QED
        BY <1>1, <1>2, <1>3, <3>2, <4>1, LimitsArePositive
    <3> QED
      BY <3>1, <3>2
  <2> QED
    BY <2>1, <2>2, LimitsArePositive DEF InWindow
<1>4. CASE b.ttl # 1
  <2>1. c.count = b.count /\ c.ttl = IF b.ttl = Forever THEN Forever ELSE b.ttl - 1
    BY <1>4 DEF Aged, Bucket
  <2>2. Taken(c) = Taken(b)
    BY <2>1 DEF Taken
  <2> HIDE DEF c
  <2>3. ASSUME NEW age \in Ages
        PROVE  /\ older[age] <= Taken(b) + limit
               /\ (c.ttl # Forever /\ age < window_seconds - c.ttl) => older[age] <= Taken(b)
    <3>1. CASE age = 0
      BY <1>1, <3>1, LimitsArePositive
    <3>2. CASE age # 0
      <4>1. age \in Int
        BY <3>2, EarlierAge
      <4> QED
        BY <1>1, <1>2, <2>1, <3>2, <4>1, LimitsArePositive
    <3> QED
      BY <3>1, <3>2
  <2>4. InWindow(c, older)
    BY <2>2, <2>3 DEF InWindow
  <2> QED
    BY <2>4 DEF c
<1> QED
  BY <1>3, <1>4

\* The expiry of a bucket is set, late or not: what was admitted in the seconds since then is
\* nothing yet.
LEMMA WindowBegins ==
  ASSUME NEW b \in Bucket, NEW sums \in [Ages -> Nat], InWindow(b, sums),
         NEW c, c = [b EXCEPT !.ttl = window_seconds]
  PROVE  InWindow(c, sums)
<1>1. c.count = b.count /\ c.ttl = window_seconds
  BY DEF Bucket
<1>2. Taken(c) = Taken(b) /\ \A age \in Ages : ~(age < window_seconds - c.ttl)
  BY <1>1, LimitsArePositive DEF Taken, Ages
<1> QED
  BY <1>2 DEF InWindow

LEMMA WindowStep ==
  ASSUME WInv, [ImportNext]_importVars
  PROVE  WInv'
<1>0. /\ ImportTypeOK' /\ bucket \in [Addresses -> Bucket]
      /\ admitted \in [Users \union Addresses -> [Ages -> Nat]]
      /\ req \in [Requests -> Request \union {NoRequest}]
  BY ImportTypeStep DEF WInv, ImportTypeOK
<1> SUFFICES ASSUME NEW y \in Addresses PROVE InWindow(bucket'[y], admitted'[y])
  BY <1>0 DEF WInv, Window
<1>1. bucket[y] \in Bucket /\ admitted[y] \in [Ages -> Nat] /\ InWindow(bucket[y], admitted[y])
  BY <1>0 DEF WInv, Window
<1>2. ASSUME NEW r \in Requests, NEW f \in Files, NEW u \in Users, NEW x \in Addresses,
             Count(r, f, u, x)
      PROVE  InWindow(bucket'[y], admitted'[y])
  <2>1. CASE y # x
    <3>1. y # u
      BY ImportsArePrepared
    <3>2. bucket'[y] = bucket[y] /\ admitted'[y] = admitted[y]
      BY <1>0, <1>2, <2>1, <3>1 DEF Count, Admit
    <3> QED
      BY <1>1, <3>2
  <2>2. CASE y = x
    <3>1. bucket'[y] = Incremented(bucket[y])
      BY <1>0, <1>2, <2>2 DEF Count
    <3>2. bucket'[y] \in Bucket
      BY <1>1, <3>1, BucketTypes
    <3>3. bucket'[y].count \in Nat
      BY <3>2, LimitsArePositive DEF Bucket
    <3>4. admitted'[y] = IF bucket'[y].count > limit THEN admitted[y]
                         ELSE [age \in Ages |-> admitted[y][age] + 1]
      BY <1>0, <1>2, <2>2, <3>3, LimitsArePositive DEF Count, Admit
    <3> QED
      BY <1>1, <3>1, <3>4, WindowCounts
  <2> QED
    BY <2>1, <2>2
<1>3. ASSUME NEW r \in Requests, Expire(r)
      PROVE  InWindow(bucket'[y], admitted'[y])
  <2>1. admitted' = admitted /\ bucket' = [bucket EXCEPT ![req[r].address].ttl = window_seconds]
    BY <1>3 DEF Expire
  <2>2. \/ bucket'[y] = bucket[y]
        \/ bucket'[y] = [bucket[y] EXCEPT !.ttl = window_seconds]
    BY <1>0, <2>1
  <2> QED
    BY <1>1, <2>1, <2>2, WindowBegins
<1>4. CASE Second
  <2>1. /\ bucket'[y] = Aged(bucket[y])
        /\ admitted'[y] = [age \in Ages |-> IF age = 0 THEN 0 ELSE admitted[y][age - 1]]
    BY <1>4 DEF Second
  <2> QED
    BY <1>1, <2>1, WindowAges
<1>5. CASE bucket' = bucket /\ admitted' = admitted
  BY <1>1, <1>5
<1>6. ASSUME NEW r \in Requests, Check(r) \/ CommitImport(r) \/ Lose(r)
      PROVE  bucket' = bucket /\ admitted' = admitted
  BY <1>6 DEF Check, CommitImport, Lose
<1>7. ASSUME NEW n \in RowNames, Appear(n)
      PROVE  bucket' = bucket /\ admitted' = admitted
  BY <1>7 DEF Appear
<1>8. UNCHANGED importVars => bucket' = bucket /\ admitted' = admitted
  BY DEF importVars
<1> QED
  BY <1>2, <1>3, <1>4, <1>5, <1>6, <1>7, <1>8 DEF ImportNext

LEMMA ImportTypesInit ==
  ASSUME ImportInit
  PROVE  ImportTypeOK
<1>1. /\ lost \subseteq Addresses /\ raced \subseteq RowNames
      /\ clash \subseteq RowNames \X {"name", "NAME"}
  BY DEF ImportInit
<1>3. assets \in [RowNames -> 0..Many]
  BY LimitsArePositive DEF ImportInit
<1>4. admitted \in [Users \union Addresses -> [Ages -> Nat]]
  BY DEF ImportInit
<1>5. req \in [Requests -> Request \union {NoRequest}]
  BY DEF ImportInit
<1>2. bucket \in [Addresses -> Bucket]
  BY LimitsArePositive DEF ImportInit, NoBucket, Bucket
<1> QED
  BY <1>1, <1>2, <1>3, <1>4, <1>5 DEF ImportTypeOK

LEMMA WindowHolds ==
  ImportSpec => []WInv
<1>1. ImportInit => WInv
  <2> SUFFICES ASSUME ImportInit, NEW x \in Addresses PROVE InWindow(bucket[x], admitted[x])
    BY ImportTypesInit DEF WInv, Window
  <2>1. bucket[x] = NoBucket /\ \A age \in Ages : admitted[x][age] = 0
    BY DEF ImportInit
  <2>2. Taken(bucket[x]) = 0 /\ bucket[x].ttl = Forever
    BY <2>1, LimitsArePositive DEF NoBucket, Taken
  <2> QED
    BY <2>1, <2>2, LimitsArePositive DEF InWindow
<1>2. WInv /\ [ImportNext]_importVars => WInv'
  BY WindowStep
<1> QED
  BY <1>1, <1>2, PTL DEF ImportSpec

\* The variables of an import have their types.
THEOREM ImportTypeCorrect == ImportSpec => []ImportTypeOK
<1>1. WInv => ImportTypeOK
  BY DEF WInv
<1> QED
  BY <1>1, WindowHolds, PTL

\* However requests, expiries and losses fall, no window admits more than two limits from one
\* address: INCR decides (core/rate_limit.py), the window starts with the first request, and a
\* bucket that never got its expiry only admits fewer.  Of the requests of a user, who may come
\* from several addresses, it says nothing.
THEOREM TwoLimitsAreNotPassed == ImportSpec => []TwoLimitsAtMost
<1>1. WInv => TwoLimitsAtMost
  <2> SUFFICES ASSUME WInv, NEW x \in Addresses, NEW age \in Ages
               PROVE  admitted[x][age] <= 2 * limit
    BY DEF TwoLimitsAtMost
  <2>1. bucket[x] \in Bucket /\ admitted[x] \in [Ages -> Nat] /\ InWindow(bucket[x], admitted[x])
    BY DEF WInv, Window, ImportTypeOK
  <2>2. bucket[x].count \in Nat /\ admitted[x][age] <= Taken(bucket[x]) + limit
        /\ admitted[x][age] \in Nat
    BY <2>1, LimitsArePositive DEF InWindow, Bucket
  <2> QED
    BY <2>2, LimitsArePositive DEF Taken
<1> QED
  BY <1>1, WindowHolds, PTL

-----------------------------------------------------------------------------
(* Names.                                                                  *)

Wants(r, n) == req[r].phase = "checked" /\ n \in Seen(req[r].file)

\* A request that is about to add a name adds it once, and it is new, unless it was raced.
NamesAreNew ==
  \A r \in Requests, n \in RowNames : Wants(r, n) =>
    /\ Cardinality(Positions(req[r].file, n)) <= 1
    /\ assets[n] = 0 \/ n \in raced

NInv == ImportTypeOK /\ NamesAreNew /\ SecondNamesAreRaced

LEMMA NamesStep ==
  ASSUME NInv, [ImportNext]_importVars
  PROVE  NInv'
<1>0. ImportTypeOK /\ ImportTypeOK' /\ req \in [Requests -> Request \union {NoRequest}] /\ assets \in [RowNames -> 0..Many]
  BY ImportTypeStep DEF NInv, ImportTypeOK
<1>1. ASSUME assets' = assets, clash' = clash, raced' = raced,
             \A q \in Requests : req'[q].phase = "checked" => req'[q] = req[q]
      PROVE  NInv'
  BY <1>0, <1>1 DEF NInv, NamesAreNew, SecondNamesAreRaced, Wants
<1>2. ASSUME NEW r \in Requests, NEW f \in Files, NEW u \in Users, NEW x \in Addresses,
             Count(r, f, u, x)
      PROVE  NInv'
  <2>1. UNCHANGED <<assets, clash, raced>>
    BY <1>2 DEF Count
  <2>2. \A q \in Requests : req'[q].phase = "checked" => req'[q] = req[q]
    BY <1>0, <1>2 DEF Count
  <2> QED
    BY <1>1, <2>1, <2>2
<1>3. ASSUME NEW r \in Requests, Expire(r)
      PROVE  NInv'
  <2>1. req[r] \in Request
    BY <1>0, <1>3 DEF Expire, NoRequest
  <2>2. \A q \in Requests : req'[q].phase = "checked" => req'[q] = req[q]
    BY <1>0, <1>3, <2>1 DEF Expire, Request
  <2> QED
    BY <1>1, <1>3, <2>2 DEF Expire
<1>4. ASSUME NEW r \in Requests, Check(r)
      PROVE  NInv'
  <2>1. UNCHANGED <<assets, clash, raced>>
    BY <1>4 DEF Check
  <2> DEFINE f == req[r].file
  <2>2. CASE req' = [req EXCEPT ![r] = NoRequest]
    BY <1>0, <1>1, <2>1, <2>2 DEF NoRequest
  <2>3. CASE /\ req' = [req EXCEPT ![r] = [req[r] EXCEPT !.phase = "checked"]]
             /\ Repeated(f) = {} /\ \A n \in Seen(f) : ~(assets[n] > 0)
    <3>1. f \in Files /\ req[r] \in Request
      BY <1>0, <1>4, RequestHas, IdleHasNoPhase DEF Check
    <3>2. ASSUME NEW q \in Requests, NEW n \in RowNames, Wants(q, n)'
          PROVE  /\ Cardinality(Positions(req'[q].file, n)) <= 1
                 /\ assets'[n] = 0 \/ n \in raced'
      <4>1. CASE q # r
        <5>1. req'[q] = req[q]
          BY <1>0, <2>3, <4>1
        <5> QED
          BY <2>1, <3>2, <5>1 DEF NInv, NamesAreNew, Wants
      <4>2. CASE q = r
        <5>1. req'[q].file = f /\ n \in Seen(f)
          BY <1>0, <2>3, <3>1, <3>2, <4>2 DEF Wants, Request
        <5>2. ~(Cardinality(Positions(f, n)) > 1)
          BY <2>3, <5>1 DEF Repeated
        <5>3. Cardinality(Positions(f, n)) <= 1
          BY <3>1, <5>2, AddedAtMost
        <5>4. assets[n] \in 0..Many /\ ~(assets[n] > 0)
          BY <1>0, <2>3, <5>1
        <5> QED
          BY <2>1, <5>1, <5>3, <5>4, LimitsArePositive
      <4> QED
        BY <4>1, <4>2
    <3> QED
      BY <1>0, <2>1, <3>2 DEF NInv, NamesAreNew, SecondNamesAreRaced
  <2> QED
    BY <1>4, <2>2, <2>3 DEF Check
<1>5. ASSUME NEW r \in Requests, CommitImport(r)
      PROVE  NInv'
  <2> DEFINE f == req[r].file
  <2> DEFINE new == {n \in RowNames : Added(f, n) > 0}
  <2>1. f \in Files /\ req[r].phase = "checked" /\ req' = [req EXCEPT ![r] = NoRequest]
    BY <1>0, <1>5, RequestHas DEF CommitImport, NoRequest
  <2>2. \A q \in Requests : req'[q].phase = "checked" => q # r /\ req'[q] = req[q]
    BY <1>0, <2>1 DEF NoRequest
  <2>3. CASE Refused(f)
    BY <1>1, <1>5, <2>2, <2>3 DEF CommitImport
  <2>4. CASE ~Refused(f)
    <3>1. /\ assets' = [n \in RowNames |-> Capped(assets[n] + Added(f, n))]
          /\ clash' = clash \union
                        {<<n, f.header>> : n \in {m \in new : assets[m] + Added(f, m) > 1}}
          /\ raced' = raced \union (new \intersect Wanted(r))
      BY <1>5, <2>4 DEF CommitImport
    <3>2. ASSUME NEW n \in RowNames
          PROVE  /\ Added(f, n) \in Nat /\ assets[n] \in Nat
                 /\ n \in new /\ f.header = "name" => Wants(r, n)
      BY <1>0, <2>1, AddedAtMost, LimitsArePositive DEF Wants, Seen
    <3>3. SecondNamesAreRaced'
      <4> SUFFICES ASSUME NEW n \in new, assets[n] + Added(f, n) > 1, f.header = "name"
                   PROVE  n \in raced'
        BY <3>1 DEF NInv, SecondNamesAreRaced
      <4>1. Cardinality(Positions(f, n)) <= 1 /\ (assets[n] = 0 \/ n \in raced)
        BY <3>2 DEF NInv, NamesAreNew
      <4>2. Added(f, n) <= 1
        BY <2>1, <4>1, AddedAtMost
      <4> QED
        BY <3>1, <3>2, <4>1, <4>2
    <3>4. NamesAreNew'
      <4> SUFFICES ASSUME NEW q \in Requests, NEW n \in RowNames, Wants(q, n)'
                   PROVE  /\ Cardinality(Positions(req'[q].file, n)) <= 1
                          /\ assets'[n] = 0 \/ n \in raced'
        BY DEF NamesAreNew
      <4>1. Wants(q, n) /\ q # r /\ req'[q] = req[q]
        BY <2>2 DEF Wants
      <4>2. Cardinality(Positions(req[q].file, n)) <= 1 /\ (assets[n] = 0 \/ n \in raced)
        BY <4>1 DEF NInv, NamesAreNew
      <4>3. CASE n \in new
        BY <3>1, <4>1, <4>2, <4>3 DEF Wanted, Wants
      <4>4. CASE n \notin new
        <5>1. Added(f, n) = 0
          BY <3>2, <4>4
        <5>2. assets'[n] = assets[n] \/ assets[n] # 0
          BY <3>1, <3>2, <5>1, LimitsArePositive DEF Capped
        <5> QED
          BY <3>1, <4>1, <4>2, <5>2
      <4> QED
        BY <4>3, <4>4
    <3> QED
      BY <1>0, <3>3, <3>4 DEF NInv
  <2> QED
    BY <2>3, <2>4
<1>6. ASSUME NEW n \in RowNames, Appear(n)
      PROVE  NInv'
  <2>1. /\ assets' = [assets EXCEPT ![n] = assets[n] + 1] /\ req' = req /\ clash' = clash
        /\ raced \subseteq raced'
        /\ \A q \in Requests : Wants(q, n) => n \in raced'
    BY <1>6 DEF Appear, Wants
  <2>2. \A m \in RowNames : m # n => assets'[m] = assets[m]
    BY <1>0, <2>1
  <2> QED
    BY <1>0, <2>1, <2>2 DEF NInv, NamesAreNew, SecondNamesAreRaced, Wants
<1>7. ASSUME NEW r \in Requests, Lose(r)
      PROVE  NInv'
  <2>1. \A q \in Requests : req'[q].phase = "checked" => req'[q] = req[q]
    BY <1>0, <1>7 DEF Lose, NoRequest
  <2> QED
    BY <1>1, <1>7, <2>1 DEF Lose
<1>8. CASE Second
  BY <1>1, <1>8 DEF Second
<1>9. CASE UNCHANGED importVars
  BY <1>1, <1>9 DEF importVars
<1> QED
  BY <1>2, <1>3, <1>4, <1>5, <1>6, <1>7, <1>8, <1>9 DEF ImportNext

LEMMA NamesHold ==
  ImportSpec => []NInv
<1>1. ImportInit => NInv
  <2>1. ImportInit => ImportTypeOK
    BY ImportTypesInit
  <2>2. ImportInit => NamesAreNew /\ SecondNamesAreRaced
    BY DEF ImportInit, NamesAreNew, SecondNamesAreRaced, Wants, NoRequest
  <2> QED
    BY <2>1, <2>2 DEF NInv
<1>2. NInv /\ [ImportNext]_importVars => NInv'
  BY NamesStep
<1> QED
  BY <1>1, <1>2, PTL DEF ImportSpec

\* An import whose file spells the header as the first pass reads it gives no name to a second
\* asset unless the name was added between its query and its commit (api/assets.py), by files
\* in another spelling too.
THEOREM ImportsAddNoSecondName == ImportSpec => []SecondNamesAreRaced
<1>1. NInv => SecondNamesAreRaced
  BY DEF NInv
<1> QED
  BY <1>1, NamesHold, PTL

\* The promise of import_assets_csv is kept of such a file: about to be added, it repeats no
\* name.  Files that spell the header otherwise break it.
THEOREM SpelledDuplicatesAbort ==
  ImportSpec => [](\A r \in Requests :
    req[r].phase = "checked" /\ req[r].file.header = "name" =>
      \A n \in RowNames : Cardinality(Positions(req[r].file, n)) <= 1)
<1> DEFINE Aborted ==
      \A r \in Requests :
        req[r].phase = "checked" /\ req[r].file.header = "name" =>
          \A n \in RowNames : Cardinality(Positions(req[r].file, n)) <= 1
<1>1. NInv => Aborted
  <2> SUFFICES ASSUME NInv, NEW r \in Requests, req[r].phase = "checked",
                      req[r].file.header = "name", NEW n \in RowNames
               PROVE  Cardinality(Positions(req[r].file, n)) <= 1
    OBVIOUS
  <2>1. CASE Positions(req[r].file, n) = {}
    BY <2>1, FS_EmptySet
  <2>2. CASE Positions(req[r].file, n) # {}
    <3>1. Wants(r, n)
      BY <2>2 DEF Wants, Seen
    <3> QED
      BY <3>1 DEF NInv, NamesAreNew
  <2> QED
    BY <2>1, <2>2
<1> QED
  BY <1>1, NamesHold, PTL
=============================================================================
