------------------------------ MODULE Reconciler ------------------------------
(***************************************************************************)
(* The asset inventory: reports of hosts from network scans and connectors *)
(* are merged into one row per asset, and the reconciler decides what is   *)
(* shadow IT, what has drifted and which alerts to raise.                  *)
(*                                                                         *)
(* Scans and syncs run in different workers.  A session merges a batch of  *)
(* reports of one source, all hosts of a network or of a connector, and    *)
(* commits once.  A merge is made in memory and flushed before the next    *)
(* query: the row is then locked until the session ends, and the UPDATE    *)
(* writes only the columns that changed, at READ COMMITTED, over whatever  *)
(* the row has become since it was read.                                   *)
(***************************************************************************)
EXTENDS Integers, FiniteSets

CONSTANTS
  Ids,            \* ids of assets rows
  Macs, Ips, Names, Services,
  Sources,        \* connector types, "nmap_scan" and "manual"
  Priority,       \* SOURCE_PRIORITY
  Authoritative,  \* sources whose claim makes an asset a known one
  Reports,        \* what sources may report
  Workers,        \* scanner and reconciler processes
  MaxManual,      \* bound: assets entered by hand
  MaxAlerts,      \* bound: alerts of one type told apart
  Manual,         \* the source of an asset entered by hand
  None            \* an absent value

ASSUME PrioritiesAreNumbers == Priority \in [Sources -> Nat]
ASSUME SourcesDeclared == Authoritative \subseteq Sources /\ Manual \in Sources \ Authoritative
ASSUME ReportsAreHosts ==
  Reports \subseteq [source: Sources \ {Manual}, mac: Macs \union {None}, ip: Ips \union {None},
                     name: Names \union Ips \union {None}, services: SUBSET Services]
ASSUME NoneIsNoValue ==
  None \notin Macs \union Ips \union Names \union Ids \union Sources /\ \A services \in SUBSET Services : services # None
ASSUME BoundsAreNaturals == MaxManual \in Nat /\ MaxAlerts \in Nat \ {0}

VARIABLES
  asset,    \* the assets table
  open,     \* open alerts, younger than 24 hours, of each type and asset
  job,      \* the batch of reports each worker is merging
  manual,   \* assets entered by hand so far
  reporters,  \* history: the sources that have reported each asset
  crossed   \* history: MACs given to a row while another session in progress
            \* had looked them up, or by hand while they were known or looked up

vars == <<asset, open, job, manual, reporters, crossed>>

-----------------------------------------------------------------------------
AlertTypes == {"shadow_it", "drift"}

\* owner: the source that last set the authoritative fields.
Row == [mac: Macs \union {None}, ip: Ips \union {None}, name: Names \union Ips \union {None},
        owner: Sources, sources: SUBSET Sources, services: SUBSET Services, shadow: BOOLEAN]
NoRow == [owner |-> None]
Known == {a \in Ids : asset[a] # NoRow}

\* asked: MACs the batch has looked up; mine: rows it has inserted or updated,
\* not committed yet; into, seen, report: the merge in memory and the row it read.
Job == [source: Sources, asked: SUBSET Macs, mine: [Ids -> Row \union {NoRow}],
        alerts: SUBSET (AlertTypes \X Ids), into: Ids \union {None}, seen: Row \union {NoRow},
        report: Reports \union {None}]
Idle == [source |-> None, asked |-> {}, mine |-> [a \in Ids |-> NoRow], alerts |-> {},
         into |-> None, seen |-> NoRow, report |-> None]

Mine(w) == {a \in Ids : job[w].mine[a] # NoRow}

\* The table as a session sees it: what is committed, and its own writes over it.
View(w) == [a \in Ids |-> IF a \in Mine(w) THEN job[w].mine[a] ELSE asset[a]]

\* Ids no row has, committed or not.
Fresh == {a \in Ids : asset[a] = NoRow /\ \A w \in Workers : a \notin Mine(w)}

Init ==
  /\ asset = [a \in Ids |-> NoRow]
  /\ open = [t \in AlertTypes |-> [a \in Ids |-> 0]]
  /\ job = [w \in Workers |-> Idle]
  /\ manual = 0
  /\ reporters = [a \in Ids |-> {}]
  /\ crossed = {}

ByMac(r, t)  == {a \in Ids : t[a] # NoRow /\ r.mac # None /\ t[a].mac = r.mac}
ByIp(r, t)   == {a \in Ids : t[a] # NoRow /\ r.ip # None /\ t[a].ip = r.ip}
ByName(r, t) == {a \in Ids : t[a] # NoRow /\ r.name # None /\ t[a].name = r.name}

\* Slip: the address is tried before the hardware address.
FoundIpFirst(r, t) ==
  CASE ByIp(r, t) # {}  -> ByIp(r, t)
    [] ByIp(r, t) = {} /\ ByMac(r, t) # {} -> ByMac(r, t)
    [] OTHER -> ByName(r, t)

\* The assets a report speaks of: by MAC, else by IP, else by name.
Found(r, t) ==
  CASE ByMac(r, t) # {} -> ByMac(r, t)
    [] ByMac(r, t) = {} /\ ByIp(r, t) # {} -> ByIp(r, t)
    [] OTHER -> ByName(r, t)

\* Slip: a hand-entered asset counts as claimed.
UnclaimedNorManual(sources) == sources \intersect (Authoritative \union {Manual}) = {}

Unclaimed(sources) == sources \intersect Authoritative = {}

Drifted(seen, r) == seen.services # {} /\ r.services # {} /\ seen.services # r.services

Outranks(r, seen) == \A s \in seen.sources : Priority[r.source] >= Priority[s]

\* Slip: a report without services is stored as a list of one missing service.
MergedMissingService(r, seen) ==
  [seen EXCEPT !.services = IF r.services = {} THEN {None} ELSE r.services,
               !.shadow = Unclaimed(seen.sources \union {r.source})]

\* The row in memory after the merge of a report.  The list of sources is
\* appended to in place, which the session does not see as a change unless
\* the list was empty.
Merged(r, seen) ==
  LET given == {f \in {"mac", "ip", "name"} : r[f] # None /\ Outranks(r, seen)} IN
  [mac      |-> IF "mac" \in given THEN r.mac ELSE seen.mac,
   ip       |-> IF "ip" \in given THEN r.ip ELSE seen.ip,
   name     |-> IF "name" \in given THEN r.name ELSE seen.name,
   owner    |-> IF Outranks(r, seen) THEN r.source ELSE seen.owner,
   sources  |-> IF seen.sources = {} THEN {r.source} ELSE seen.sources,
   services |-> r.services,
   shadow   |-> Unclaimed(seen.sources \union {r.source})]

Created(r) ==
  [mac |-> r.mac, ip |-> r.ip, name |-> IF r.name # None THEN r.name ELSE r.ip,
   owner |-> r.source, sources |-> {r.source}, services |-> {}, shadow |-> Unclaimed({r.source})]

\* The open alerts of a type that a session sees, its own included.
OpenFor(w, type, a) == open[type][a] + (IF <<type, a>> \in job[w].alerts THEN 1 ELSE 0)

\* An alert is due unless one of its type is open and younger than 24 hours.
DueFor(w, type, a) == IF OpenFor(w, type, a) = 0 THEN {<<type, a>>} ELSE {}

\* An ambiguous match, or two open alerts of one type, make scalar_one_or_none
\* raise.  The batch is then rolled back by a scan (Abandon), and committed as
\* far as it was merged by a sync (Commit).
Raises(w, r) ==
  \/ Cardinality(Found(r, View(w))) > 1
  \/ \E a \in Found(r, View(w)) : Drifted(View(w)[a], r) /\ OpenFor(w, "drift", a) > 1

Looked(w, r) == job[w].asked \union ({r.mac} \ {None})

\* reconcile_host for the next report of a batch: the host is known...
ReadHost(w, r, a) ==
  /\ Found(r, View(w)) = {a}
  /\ job' = [job EXCEPT ![w] =
       [source |-> r.source, asked |-> Looked(w, r), mine |-> job[w].mine,
        alerts |-> job[w].alerts \union IF Drifted(View(w)[a], r) THEN DueFor(w, "drift", a) ELSE {},
        into |-> a, seen |-> View(w)[a], report |-> r]]

\* ... or it is not, and its row is inserted at once.
InsertHost(w, r, a) ==
  /\ Found(r, View(w)) = {}
  /\ a \in Fresh
  /\ job' = [job EXCEPT ![w] =
       [source |-> r.source, asked |-> Looked(w, r), mine |-> [job[w].mine EXCEPT ![a] = Created(r)],
        alerts |-> job[w].alerts \union IF Unclaimed({r.source}) THEN {<<"shadow_it", a>>} ELSE {},
        into |-> None, seen |-> NoRow, report |-> None]]

Read(w, r) ==
  /\ job[w].source \in {None, r.source}
  /\ job[w].into = None
  /\ ~Raises(w, r)
  /\ \E a \in Ids : ReadHost(w, r, a) \/ InsertHost(w, r, a)
  /\ UNCHANGED <<asset, open, manual, reporters, crossed>>

\* What an UPDATE leaves of row x when a session that read r made it s.
Written(x, r, s) == [c \in DOMAIN r |-> IF s[c] # r[c] THEN s[c] ELSE x[c]]

\* The merge in memory is flushed, once no other session has the row locked.
Flush(w) ==
  /\ job[w].into # None
  /\ \A v \in Workers \ {w} : job[w].into \notin Mine(v)
  /\ LET row == Written(View(w)[job[w].into], job[w].seen, Merged(job[w].report, job[w].seen)) IN
     job' = [job EXCEPT ![w] =
       [source |-> job[w].source, asked |-> job[w].asked,
        mine |-> [job[w].mine EXCEPT ![job[w].into] = row], alerts |-> job[w].alerts,
        into |-> None, seen |-> NoRow, report |-> None]]
  /\ UNCHANGED <<asset, open, manual, reporters, crossed>>

MacOf(row) == IF row = NoRow THEN None ELSE row.mac

\* The MACs a batch gives to rows that had another one or none.
Given(w) == {job[w].mine[a].mac : a \in {b \in Mine(w) : job[w].mine[b].mac # MacOf(asset[b])}}

AskedByOthers(w) == UNION {job[v].asked : v \in Workers \ {w}}

Raise(alerts) ==
  open' = [t \in AlertTypes |-> [a \in Ids |->
             IF <<t, a>> \in alerts /\ open[t][a] < MaxAlerts THEN open[t][a] + 1 ELSE open[t][a]]]

\* The commit of a network or of a connector.
Commit(w) ==
  /\ job[w].source # None
  /\ job[w].into = None
  /\ asset' = View(w)
  /\ Raise(job[w].alerts)
  /\ reporters' = [a \in Ids |->
       IF a \in Mine(w) THEN reporters[a] \union {job[w].source} ELSE reporters[a]]
  /\ crossed' = crossed \union (Given(w) \intersect AskedByOthers(w))
  /\ job' = [job EXCEPT ![w] = Idle]
  /\ UNCHANGED manual

\* The session is rolled back: the scan raised, the worker is lost or killed, or
\* the database has chosen it to end a deadlock.
Abandon(w) ==
  /\ job[w].source # None
  /\ job' = [job EXCEPT ![w] = Idle]
  /\ UNCHANGED <<asset, open, manual, reporters, crossed>>

\* POST /assets: nothing is looked up.
CreateAsset(a, mac, ip, name) ==
  /\ manual < MaxManual
  /\ manual' = manual + 1
  /\ a \in Fresh
  /\ asset' = [asset EXCEPT ![a] =
       [mac |-> mac, ip |-> ip, name |-> name, owner |-> Manual, sources |-> {Manual},
        services |-> {}, shadow |-> FALSE]]
  /\ crossed' = crossed \union
       (({mac} \ {None}) \intersect ({MacOf(asset[b]) : b \in Ids} \union UNION {job[w].asked : w \in Workers}))
  /\ UNCHANGED <<open, job, reporters>>

\* PATCH /alerts/{id}/resolve.
Resolve(t, a) ==
  /\ open[t][a] > 0
  /\ open' = [open EXCEPT ![t][a] = @ - 1]
  /\ UNCHANGED <<asset, job, manual, reporters, crossed>>

\* 24 hours pass for the alerts of one asset.
DayPasses(a) ==
  /\ \E t \in AlertTypes : open[t][a] > 0
  /\ open' = [t \in AlertTypes |-> [open[t] EXCEPT ![a] = 0]]
  /\ UNCHANGED <<asset, job, manual, reporters, crossed>>

Next ==
  \/ \E w \in Workers : Flush(w) \/ Commit(w) \/ Abandon(w) \/ \E r \in Reports : Read(w, r)
  \/ \E a \in Ids, mac \in Macs \union {None}, ip \in Ips \union {None}, name \in Names :
       CreateAsset(a, mac, ip, name)
  \/ \E a \in Ids : DayPasses(a) \/ \E t \in AlertTypes : Resolve(t, a)

Spec == Init /\ [][Next]_vars

-----------------------------------------------------------------------------
(* Properties.                                                              *)

\* Rows, jobs and counters hold what their columns can hold.
TypeOK ==
  /\ asset \in [Ids -> Row \union {NoRow}]
  /\ open \in [AlertTypes -> [Ids -> 0..MaxAlerts]]
  /\ job \in [Workers -> Job \union {Idle}]
  /\ manual \in 0..MaxManual
  /\ reporters \in [Ids -> SUBSET Sources]
  /\ crossed \subseteq Macs

\* One asset is one row: however hosts change their addresses and names, and
\* whatever a report leaves out, no two rows come to have the same MAC, unless
\* a session gave it to a row while another that had looked it up went on, or
\* it was entered by hand beside a row or a lookup.
OneAssetPerMac ==
  \A a, b \in Known :
    asset[a].mac \notin crossed \union {None} /\ asset[a].mac = asset[b].mac => a = b

\* An asset that no authoritative source has reported is flagged as shadow IT,
\* whatever reports of it are merged at the same time.
UnreportedIsShadow ==
  \A a \in Known :
    reporters[a] # {} /\ reporters[a] \intersect Authoritative = {} => asset[a].shadow

\* INTEGRATION-NOTES.md:280: the reports of one host, matched by its MAC, make a
\* single asset.
SingleAsset ==
  \A a, b \in Known : asset[a].mac # None /\ asset[a].mac = asset[b].mac => a = b

\* reconciler.py:86: higher-priority sources overwrite, so that the source that
\* set the authoritative fields ranks no lower than any that reported the asset.
OwnerOutranksReporters ==
  \A a \in Known : \A s \in reporters[a] : Priority[asset[a].owner] >= Priority[s]

\* reconciler.py:56: every report of a host is merged into an asset or makes one.
ReportsFindOneAsset == \A r \in Reports : Cardinality(Found(r, asset)) <= 1

\* reconciler.py:248: the same alert is not fired again within 24 hours.
AlertsAreDeduplicated == \A t \in AlertTypes, a \in Ids : open[t][a] <= 1

\* TECHNICAL-ARCHITECTURE.md:46: the references to an asset's sources are preserved.
SourcesPreserved == \A a \in Known : reporters[a] \subseteq asset[a].sources

\* INTEGRATION-NOTES.md:205: an asset an authoritative source claims is no shadow IT.
ClaimedIsNotShadow ==
  \A a \in Known : reporters[a] \intersect Authoritative # {} => ~asset[a].shadow
=============================================================================
