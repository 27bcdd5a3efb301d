------------------------------ MODULE ScanJobs ------------------------------
(***************************************************************************)
(* The scan jobs: a daily or manual task goes through the enabled networks *)
(* it is authorized to scan, and keeps a scans row for each.  A task may   *)
(* outlive its time limit, lose its worker, or fail halfway, and leaves    *)
(* its row running; the next task recovers rows that run for too long.     *)
(*                                                                         *)
(* Two workers consume the scanner queue, so that a task recovers rows     *)
(* while another one scans.  Time passes in ticks.                         *)
(***************************************************************************)
EXTENDS Integers, FiniteSets

CONSTANTS
  Scans,        \* ids of scans rows
  Networks,     \* enabled networks within SCAN_NETWORKS
  Ambiguous,    \* networks with a host that the reconciler cannot merge
  Workers,      \* processes of the scanner queue
  TaskLimit,    \* Celery's task_time_limit, in ticks
  StaleAfter,   \* twice SCAN_TIMEOUT_SEC, in ticks
  MaxStops,     \* bound: tasks killed or lost in a behaviour
  NoScan        \* the task has no scan under way

ASSUME LimitsAreTimes == TaskLimit \in Nat /\ StaleAfter \in Nat
ASSUME BoundIsNatural == MaxStops \in Nat
ASSUME AmbiguousDeclared == Ambiguous \subseteq Networks
ASSUME NoScanIsNoRow == NoScan \notin Scans

VARIABLES
  scan,     \* the scans table
  task,     \* the task each worker runs
  missed,   \* history: networks listed by a task and not scanned since
  stops     \* tasks killed at the limit or lost with their worker so far

vars == <<scan, task, missed, stops>>

-----------------------------------------------------------------------------
\* error: the error column says the row was recovered; age: ticks since
\* started_at while the row is running, 0 after.
Row == [status: {"running", "completed", "failed"}, error: BOOLEAN, age: 0..(StaleAfter + 1)]
NoRow == [status |-> "none", error |-> FALSE, age |-> 0]

\* phase: recovering rows that were stale when it began, listing the networks,
\* or scanning those left of the list.
Task == [phase: {"idle", "recovering", "listing", "scanning"}, stale: SUBSET Scans,
         todo: SUBSET Networks, id: Scans \union {NoScan}, net: SUBSET Networks, age: 0..TaskLimit]
Idle == [phase |-> "idle", stale |-> {}, todo |-> {}, id |-> NoScan, net |-> {}, age |-> 0]

Busy(w) == task[w].phase # "idle"
Scanning(w) == task[w].phase = "scanning" /\ task[w].id # NoScan

Init ==
  /\ scan = [i \in Scans |-> NoRow]
  /\ task = [w \in Workers |-> Idle]
  /\ missed = {}
  /\ stops = 0

\* Slip: rows are never too old.
NeverStale(i) == FALSE

\* Slip: the cutoff is the time-out, not twice the time-out.
StaleEarly(i) == scan[i].status = "running" /\ 2 * scan[i].age >= StaleAfter

Stale(i) == scan[i].status = "running" /\ scan[i].age > StaleAfter

\* A worker takes the daily task, a manual one or one that was lost, and reads
\* the rows to recover.
Begin(w) ==
  /\ ~Busy(w)
  /\ task' = [task EXCEPT ![w] = [phase |-> "recovering", stale |-> {i \in Scans : Stale(i)},
                                  todo |-> {}, id |-> NoScan, net |-> {}, age |-> 0]]
  /\ UNCHANGED <<scan, missed, stops>>

\* The commit of the recovery writes the rows as they were read.
Recover(w) ==
  /\ task[w].phase = "recovering"
  /\ scan' = [i \in Scans |->
       IF i \in task[w].stale THEN [status |-> "failed", error |-> TRUE, age |-> 0] ELSE scan[i]]
  /\ task' = [task EXCEPT ![w].phase = "listing", ![w].stale = {}]
  /\ UNCHANGED <<missed, stops>>

ListNetworks(w) ==
  /\ task[w].phase = "listing"
  /\ task' = [task EXCEPT ![w].phase = "scanning", ![w].todo = Networks]
  /\ missed' = Networks
  /\ UNCHANGED <<scan, stops>>

\* A new row for the next network, in a row id that no job needs (bound).
Launch(w, n, i) ==
  /\ task[w].phase = "scanning" /\ task[w].id = NoScan
  /\ n \in task[w].todo
  /\ scan[i].status # "running" /\ \A v \in Workers : task[v].id # i /\ i \notin task[v].stale
  /\ scan' = [scan EXCEPT ![i] = [status |-> "running", error |-> FALSE, age |-> 0]]
  /\ task' = [task EXCEPT ![w].todo = @ \ {n}, ![w].id = i, ![w].net = {n}]
  /\ missed' = missed \ {n}
  /\ UNCHANGED stops

\* Slip: the row takes the outcome of the task.
ClosePartly(w, status) ==
  scan' = [scan EXCEPT ![task[w].id] =
            [status |-> IF task[w].todo = {} THEN status ELSE "partial", error |-> @.error, age |-> 0]]

Close(w, status) ==
  scan' = [scan EXCEPT ![task[w].id] = [status |-> status, error |-> @.error, age |-> 0]]

\* The hosts are merged and the job completes with them.
Finish(w) ==
  /\ Scanning(w) /\ task[w].net \intersect Ambiguous = {}
  /\ Close(w, "completed")
  /\ task' = [task EXCEPT ![w].id = NoScan, ![w].net = {}]
  /\ UNCHANGED <<missed, stops>>

\* nmap fails: no transaction is open, and the task goes on.
DiscoveryFails(w) ==
  /\ Scanning(w)
  /\ Close(w, "failed")
  /\ task' = [task EXCEPT ![w].id = NoScan, ![w].net = {}]
  /\ UNCHANGED <<missed, stops>>

\* The reconciler raises: the rollback expires every object of the session, the
\* failure is recorded, and naming the network in the log raises again.
ReconciliationFails(w) ==
  /\ Scanning(w) /\ task[w].net \subseteq Ambiguous
  /\ Close(w, "failed")
  /\ task' = [task EXCEPT ![w] = Idle]
  /\ UNCHANGED <<missed, stops>>

Return(w) ==
  /\ task[w].phase = "scanning" /\ task[w].id = NoScan /\ task[w].todo = {}
  /\ task' = [task EXCEPT ![w] = Idle]
  /\ UNCHANGED <<scan, missed, stops>>

\* The limit: the process is killed and its message acknowledged.
Kill(w) ==
  /\ Busy(w) /\ task[w].age = TaskLimit /\ stops < MaxStops
  /\ stops' = stops + 1
  /\ task' = [task EXCEPT ![w] = Idle]
  /\ UNCHANGED <<scan, missed>>

\* The worker is lost.  Its task is delivered again, which is one more that Begin
\* may take at any time.
Lose(w) ==
  /\ Busy(w) /\ stops < MaxStops
  /\ stops' = stops + 1
  /\ task' = [task EXCEPT ![w] = Idle]
  /\ UNCHANGED <<scan, missed>>

Tick ==
  /\ \A w \in Workers : Busy(w) => task[w].age < TaskLimit
  /\ task' = [w \in Workers |-> IF Busy(w) THEN [task[w] EXCEPT !.age = @ + 1] ELSE task[w]]
  /\ scan' = [i \in Scans |->
       IF scan[i].status = "running" /\ scan[i].age <= StaleAfter
       THEN [scan[i] EXCEPT !.age = @ + 1] ELSE scan[i]]
  /\ UNCHANGED <<missed, stops>>

Work(w) ==
  \/ Recover(w) \/ ListNetworks(w) \/ Finish(w) \/ DiscoveryFails(w) \/ ReconciliationFails(w)
  \/ Return(w)
  \/ \E n \in Networks, i \in Scans : Launch(w, n, i)

Next ==
  \/ Tick
  \/ \E w \in Workers : Begin(w) \/ Work(w) \/ Kill(w) \/ Lose(w)

Spec == Init /\ [][Next]_vars

\* Beat sends a task every day, tasks go on, and time passes.
Fairness ==
  /\ SF_vars(Tick)
  /\ \A w \in Workers : WF_vars(Begin(w)) /\ WF_vars(Work(w))

FairSpec == Spec /\ Fairness

-----------------------------------------------------------------------------
(* Properties.                                                              *)

\* Rows and tasks hold what their columns and loops can hold.
TypeOK ==
  /\ scan \in [Scans -> Row \union {NoRow}]
  /\ task \in [Workers -> Task]
  /\ missed \subseteq Networks
  /\ stops \in 0..MaxStops

\* A row is recovered only when no worker is scanning for it: the recovery of
\* one task never declares the running scan of another one interrupted
\* (scan_tasks.py:37).
OnlyOrphansRecovered ==
  \A v, w \in Workers : Scanning(w) => task[w].id \notin task[v].stale

\* A row that says it was recovered is a failed one: a job that completed never
\* carries the error of an interrupted one.
RecoveredIsFailed == \A i \in Scans : scan[i].error => scan[i].status = "failed"

\* scan_tasks.py:28: a worker restart does not leave a job running for ever.
ScanRowsEnd == \A i \in Scans : scan[i].status = "running" ~> scan[i].status # "running"

\* scan_tasks.py:26: discovery runs for every enabled network.
NetworksAreScanned == \A n \in Networks : n \in missed ~> n \notin missed
=============================================================================
