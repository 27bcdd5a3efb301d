---------------------------- MODULE ComplianceAudit ----------------------------
(***************************************************************************)
(* Compliance audits.  An audit, scheduled, requested or delivered again,  *)
(* is one transaction: it reads the assets, then the mappings, and judges  *)
(* one asset and control after the other, with a result and its evidence,  *)
(* an update or insert of the mapping, and a query for the alerts of that  *)
(* gap.  The query sends what is pending first, so that the update of a    *)
(* mapping holds its row until the audit ends; the alerts found are        *)
(* changed in memory and sent one step later.  No constraint keeps two     *)
(* mappings of one asset and control, or two alerts, apart.                *)
(***************************************************************************)
EXTENDS ComplianceRules, Functions

CONSTANTS
  Assets,
  Critical,     \* assets of criticality critical, tier-1 or high
  Controls,     \* controls of the catalog
  Postures,     \* what the record of each asset may come to say
  Workers,      \* processes that serve the queue
  ListLimit,    \* mappings that GET /compliance returns at most
  ResultLimit,  \* newest results it looks for their metadata in
  MaxCopies,    \* bound: mappings of one key, and alerts of one gap, told apart
  MaxFailures   \* bound: audits that fail, deadlocks apart

ASSUME CriticalAreAssets == Critical \subseteq Assets
ASSUME PosturesOfAssets == DOMAIN Postures = Assets
ASSUME ControlsAreSeeded == Controls \subseteq {s[1] : s \in Seeded}
ASSUME ManyAreFinite == \A many \in {Assets, Controls, Workers} : IsFiniteSet(many)
ASSUME EachWorkerMayInsert == MaxCopies \in Nat /\ MaxCopies > Cardinality(Workers)
ASSUME LimitsAreNaturals == {ListLimit, ResultLimit} \subseteq Nat
ASSUME FailuresAreCounted == MaxFailures \in Nat

VARIABLES
  asset,     \* the records of assets
  mapping,   \* compliance_mappings, by asset and control
  alert,     \* the open alerts of each gap, while its asset keeps the name in their title
  job,       \* the audit each worker runs
  lineage,   \* the results of the audit that began last, of those committed
  latest,    \* the results of the audit committed last
  failures,
  settled    \* history: the audit committed last was alone all the time it ran

vars == <<asset, mapping, alert, job, lineage, latest, failures, settled>>
-----------------------------------------------------------------------------
Keys == Assets \X Controls
Copies == 1..MaxCopies

Inventories ==
  {inventory \in [Assets -> UNION Range(Postures)] : \A a \in Assets : inventory[a] \in Postures[a]}

\* cited: the status of the result the row refers to as its evidence.
Row == [status: Statuses, cited: Statuses]
NoRow == [status |-> "none"]
Rows(k) == {i \in Copies : mapping[k][i] # NoRow}

Unseen == "unseen"
Idle == [phase |-> "idle"]
Active == {w \in Workers : job[w] # Idle}

Status(k) == Assess(asset[k[1]], k[2])

Init ==
  /\ asset \in Inventories
  /\ mapping = [k \in Keys |-> [i \in Copies |-> NoRow]]
  /\ alert = [k \in Keys |-> {}]
  /\ job = [w \in Workers |-> Idle]
  /\ lineage = [k \in Keys |-> Unseen]
  /\ latest = [k \in Keys |-> Unseen]
  /\ failures = 0
  /\ settled = TRUE

\* Slip: the query for alerts does not send the update of the mapping first.
HoldsNothing(v, k, i) == FALSE

\* What an audit has sent and holds until it ends.
HoldsMapping(v, k, i) == job[v].phase = "judging" /\ job[v].found[k] # Unseen /\ job[v].row[k] = i

HoldsAlert(v, k, i) ==
  job[v].phase = "judging" /\ k # job[v].unsent /\ i \in job[v].touched[k]

\* The alerts changed in memory are sent: no other audit holds one of them.
CanSend(w) ==
  \A k \in Keys, i \in Copies, v \in Workers \ {w} :
    k = job[w].unsent /\ i \in job[w].touched[k] => ~HoldsAlert(v, k, i)

-----------------------------------------------------------------------------
\* Assets are edited through the API and by the reconciler.
Edit(a, posture) ==
  /\ posture # asset[a]
  /\ asset' = [asset EXCEPT ![a] = posture]
  /\ UNCHANGED <<mapping, alert, job, lineage, latest, failures, settled>>

\* PATCH /alerts/{id}/resolve, for an alert no audit holds.
Resolve(k, i) ==
  /\ i \in alert[k]
  /\ \A v \in Workers : ~HoldsAlert(v, k, i)
  /\ alert' = [alert EXCEPT ![k] = @ \ {i}]
  /\ UNCHANGED <<asset, mapping, job, lineage, latest, failures, settled>>

\* The task is delivered, and reads the assets.
Begin(w) ==
  /\ job[w] = Idle
  /\ job' = [v \in Workers |->
       IF v = w THEN [phase |-> "reading", seen |-> asset, before |-> Active,
                      overtaken |-> FALSE, alone |-> Active = {}]
       ELSE IF job[v] = Idle THEN Idle ELSE [job[v] EXCEPT !.alone = FALSE]]
  /\ UNCHANGED <<asset, mapping, alert, lineage, latest, failures, settled>>

\* mapping_by_key: of two rows of one key, whichever the query returns last.
ReadMappings(w) ==
  LET j == job[w] IN
  /\ j.phase = "reading"
  /\ \E row \in [Keys -> Copies \union {0}] :
       /\ \A k \in Keys : row[k] \in (IF Rows(k) = {} THEN {0} ELSE Rows(k))
       /\ job' = [job EXCEPT ![w] =
            [phase |-> "judging", seen |-> j.seen, before |-> j.before, overtaken |-> j.overtaken,
             alone |-> j.alone, row |-> row, unsent |-> <<>>,
             loaded  |-> [k \in Keys |-> IF row[k] = 0 THEN Unseen ELSE mapping[k][row[k]].status],
             found   |-> [k \in Keys |-> Unseen],
             touched |-> [k \in Keys |-> {}]]]
  /\ UNCHANGED <<asset, mapping, alert, lineage, latest, failures, settled>>

\* The keys an audit may judge next: one asset after the other.
Pending(w) ==
  LET left == {k \in Keys : job[w].found[k] = Unseen}
      begun == {k \in left : \E c \in Controls : <<k[1], c>> \notin left}
  IN IF begun # {} THEN begun ELSE left

\* The body of the loop.  A compliant result closes every open alert of the gap; another one
\* refreshes the first, or raises one if the asset is critical.
Judge(w, k) ==
  LET j      == job[w]
      open   == alert[k]
      status == Assess(j.seen[k[1]], k[2])
  IN
  /\ j.phase = "judging"
  /\ k \in Pending(w)
  /\ CanSend(w)
  /\ \A v \in Workers \ {w} : j.row[k] # 0 => ~HoldsMapping(v, k, j.row[k])
  /\ \E touched \in SUBSET open :
       /\ CASE status = "compliant" -> touched = open
            [] status # "compliant" /\ k[1] \in Critical /\ open # {} -> Cardinality(touched) = 1
            [] OTHER -> touched = {}
       /\ job' = [job EXCEPT ![w].found[k] = status, ![w].touched[k] = touched, ![w].unsent = k]
  /\ UNCHANGED <<asset, mapping, alert, lineage, latest, failures, settled>>

\* Slip: a gap is announced when its mapping is made.
RaisedWithMapping(w) ==
  {k \in Keys : job[w].found[k] # "compliant" /\ k[1] \in Critical /\ job[w].row[k] = 0}

\* The gaps an audit raises an alert for.
Raised(w) ==
  {k \in Keys : job[w].found[k] # "compliant" /\ k[1] \in Critical /\ job[w].touched[k] = {}}

\* Slip: alerts are numbered from zero.
FreeFromZero(k) == {0} \union (Copies \ alert[k])

\* Copies an insert may take: free, and not the alert another audit is changing.
FreeAlert(k) ==
  {i \in Copies \ alert[k] : \A v \in Workers : job[v].phase = "judging" => i \notin job[v].touched[k]}

First(copies) == CHOOSE i \in copies : \A other \in copies : i <= other

\* Slip: the evidence is put together before the row is changed.
WrittenBehind(row, loaded, found) ==
  [status |-> IF found # loaded THEN found ELSE row.status, cited |-> row.status]

\* A commit writes the status of a row only if it differs from the one loaded.
Written(row, loaded, found) ==
  [status |-> IF found # loaded THEN found ELSE row.status, cited |-> found]

\* Another audit has ended: it is no longer one that began earlier, and if it
\* began later, this one is overtaken.
After(w, v, committed) ==
  IF v = w THEN Idle
  ELSE IF job[v] = Idle THEN Idle
  ELSE [job[v] EXCEPT !.before = @ \ {w}, !.overtaken = @ \/ (committed /\ v \in job[w].before)]

Commit(w) ==
  LET j == job[w] IN
  /\ j.phase = "judging"
  /\ \A k \in Keys : j.found[k] # Unseen
  /\ CanSend(w)
  /\ \A k \in Raised(w) : FreeAlert(k) # {}   \* bound: MaxCopies
  /\ mapping' = [k \in Keys |->
       IF j.row[k] # 0
         THEN [mapping[k] EXCEPT ![j.row[k]] = Written(@, j.loaded[k], j.found[k])]
         ELSE [mapping[k] EXCEPT ![First(Copies \ Rows(k))] =
                 [status |-> j.found[k], cited |-> j.found[k]]]]
  /\ alert' = [k \in Keys |->
       IF j.found[k] = "compliant" THEN alert[k] \ j.touched[k]
       ELSE IF k \in Raised(w) THEN alert[k] \union {First(FreeAlert(k))}
       ELSE alert[k]]
  /\ lineage' = IF j.overtaken THEN lineage ELSE j.found
  /\ latest' = j.found
  /\ settled' = j.alone
  /\ job' = [v \in Workers |-> After(w, v, TRUE)]
  /\ UNCHANGED <<asset, failures>>

Waits(w, v) ==
  /\ job[w].phase = "judging" /\ v # w
  /\ \/ \E k \in Pending(w) : job[w].row[k] # 0 /\ HoldsMapping(v, k, job[w].row[k])
     \/ ~CanSend(w)
Deadlocked(w) == \E v \in Workers : Waits(w, v) /\ Waits(v, w)

\* The task fails, its process is lost, or PostgreSQL ends it as one of two that wait for
\* rows of each other: all of it is rolled back.
Fail(w) ==
  /\ job[w] # Idle
  /\ Deadlocked(w) \/ failures < MaxFailures
  /\ failures' = IF Deadlocked(w) THEN failures ELSE failures + 1
  /\ job' = [v \in Workers |-> After(w, v, FALSE)]
  /\ UNCHANGED <<asset, mapping, alert, lineage, latest, settled>>

-----------------------------------------------------------------------------
(* What the API makes of it.                                               *)

\* What a query with a limit may return.
Limited(many, limit) ==
  {some \in SUBSET many :
     Cardinality(some) = limit \/ (some = many /\ Cardinality(some) <= limit)}

Stored == UNION {{k} \X Rows(k) : k \in Keys}

\* GET /compliance: mappings in no order, each beside the newest result of its asset and
\* control if that is among the newest results of all.
Lists ==
  {{[key |-> r[1], status |-> mapping[r[1]][r[2]].status, cited |-> mapping[r[1]][r[2]].cited,
     newest |-> IF r[1] \in recent THEN lineage[r[1]] ELSE Unseen] : r \in rows} :
     rows \in Limited(Stored, ListLimit), recent \in Limited(Keys, ResultLimit)}

\* GET /compliance/summary: counts of the latest run, or of the mappings if none has completed.
Summary(status) ==
  IF \E k \in Keys : latest[k] # Unseen THEN Cardinality({k \in Keys : latest[k] = status})
  ELSE Cardinality({k \in Keys : \E i \in Rows(k) : mapping[k][i].status = status})

-----------------------------------------------------------------------------
Run(w) == ReadMappings(w) \/ (\E k \in Keys : Judge(w, k)) \/ Commit(w)

Next ==
  \/ \E a \in Assets : \E posture \in Postures[a] : Edit(a, posture)
  \/ \E k \in Keys, i \in Copies : Resolve(k, i)
  \/ \E w \in Workers : Begin(w) \/ Run(w) \/ Fail(w)

\* The schedule begins an audit every day, and a worker goes on with what it has begun.
Spec ==
  /\ Init /\ [][Next]_vars
  /\ \A w \in Workers : WF_vars(Begin(w)) /\ WF_vars(Run(w)) /\ WF_vars(Deadlocked(w) /\ Fail(w))

-----------------------------------------------------------------------------
Audit ==
  [phase: {"reading"}, seen: Inventories, before: SUBSET Workers, overtaken: BOOLEAN,
   alone: BOOLEAN]
    \union
  [phase: {"judging"}, seen: Inventories, before: SUBSET Workers, overtaken: BOOLEAN,
   alone: BOOLEAN, row: [Keys -> Copies \union {0}], unsent: Keys \union {<<>>},
   loaded: [Keys -> Statuses \union {Unseen}], found: [Keys -> Statuses \union {Unseen}],
   touched: [Keys -> SUBSET Copies]]

\* The variables have their types.
TypeOK ==
  /\ asset \in Inventories
  /\ mapping \in [Keys -> [Copies -> Row \union {NoRow}]]
  /\ alert \in [Keys -> SUBSET Copies]
  /\ job \in [Workers -> Audit \union {Idle}]
  /\ {lineage, latest} \subseteq [Keys -> Statuses \union {Unseen}]
  /\ failures \in 0..MaxFailures
  /\ settled \in BOOLEAN

\* Overlapping audits raise the alert of one gap twice only if they also inserted its mapping
\* twice: once the mapping exists, its row lock lets the later audit see the alert of the
\* earlier one.
AlertsPerMapping ==
  \A k \in Keys : Cardinality(alert[k]) <= Cardinality(Rows(k))

\* After an audit that ran alone, whatever overlapping audits had left before: the mappings
\* listed, the results they cite and the newest results agree, and no status is listed more
\* often than the summary counts it; the counts are the same when no limit cuts the list.
\* Except for a second mapping of one asset and control, which no later audit need ever touch.
ViewsAgree ==
  settled =>
    \A list \in Lists :
      LET single == {line \in list : Cardinality(Rows(line.key)) = 1}
          counted(s) == Cardinality({line \in single : line.status = s})
      IN
      /\ \A line \in single : line.cited = line.status /\ line.newest \in {line.status, Unseen}
      /\ Cardinality(Keys) <= ResultLimit => \A line \in single : line.newest = line.status
      /\ \A s \in Statuses :
           /\ counted(s) <= Summary(s)
           /\ Cardinality(single) = Cardinality(Keys) => counted(s) = Summary(s)

\* api/compliance.py:154: "Return the compatibility mapping plus the newest evidence-backed
\* result metadata."
ListIsWhole ==
  \A list \in Lists, k \in Keys :
    Rows(k) # {} => \E line \in list : line.key = k /\ line.newest = lineage[k]

\* The same line: what a mapping is listed with is a result that backs its status, the one it
\* cites or the newest.
ResultsBackMappings ==
  \A list \in Lists : \A line \in list : line.status \in {line.cited, line.newest}

\* What the record of an asset says for good reaches its alerts: a gap of a critical asset has
\* an open alert again and again, whoever resolves it, and a control that is compliant is in
\* the end without one.
AlertsFollowGaps ==
  \A k \in Keys :
    /\ <>[](k[1] \in Critical /\ Status(k) # "compliant") => []<>(alert[k] # {})
    /\ <>[](Status(k) = "compliant") => <>[](alert[k] = {})
=============================================================================
