--------------------------- MODULE ScanJobsProofs ---------------------------
(***************************************************************************)
(* Proofs about ScanJobs, for any rows, networks, workers and bounds.      *)
(*                                                                         *)
(* A row is read as stale when it has run for more than twice the time-out *)
(* of a scan, so what keeps the recovery off the rows of running tasks is  *)
(* a relation between two settings, TaskLimit <= StaleAfter, and two ages: *)
(* a row is never older than the task that scans for it.                   *)
(***************************************************************************)
EXTENDS ScanJobs, TLAPS

\* The row of a task that scans is running, and no older than the task.
JobRows ==
  \A w \in Workers :
    Scanning(w) =>
      /\ scan[task[w].id].status = "running"
      /\ ~scan[task[w].id].error
      /\ scan[task[w].id].age <= task[w].age

\* Two tasks never scan for one row.
Apart ==
  \A v, w \in Workers :
    Scanning(v) /\ Scanning(w) /\ task[v].id = task[w].id => v = w

\* A task holds a row only while it goes through its networks.
NoEarlyRow == \A w \in Workers : task[w].phase # "scanning" => task[w].id = NoScan

IInv == TypeOK /\ NoEarlyRow /\ JobRows /\ Apart /\ OnlyOrphansRecovered /\ RecoveredIsFailed

-----------------------------------------------------------------------------
\* The tables start empty and the workers idle.
LEMMA InitHolds == Init => IInv
<1> SUFFICES ASSUME Init PROVE IInv
    OBVIOUS
<1>1. NoRow \in Row \union {NoRow} /\ Idle \in Task /\ NoRow.error = FALSE
  BY LimitsAreTimes DEF Task, Idle, NoRow
<1>2. \A w \in Workers : task[w] = Idle
  BY DEF Init
<1>3. \A w \in Workers : ~Scanning(w)
  BY <1>2 DEF Scanning, Idle
<1>4. TypeOK
  <2>1. scan \in [Scans -> Row \union {NoRow}] /\ task \in [Workers -> Task]
    BY <1>1 DEF Init
  <2>2. missed \subseteq Networks
    BY Zenon DEF Init
  <2>3. stops \in 0..MaxStops
    BY BoundIsNatural DEF Init
  <2> QED
    BY <2>1, <2>2, <2>3 DEF TypeOK
<1>5. RecoveredIsFailed
  BY <1>1 DEF Init, RecoveredIsFailed, NoRow
<1> QED
  BY <1>2, <1>3, <1>4, <1>5 DEF IInv, NoEarlyRow, JobRows, Apart, OnlyOrphansRecovered, Idle

\* Every step keeps the tables and the tasks within their types.
LEMMA TypeKept == TypeOK /\ [Next]_vars => TypeOK'
<1> SUFFICES ASSUME TypeOK, [Next]_vars PROVE TypeOK'
    OBVIOUS
<1> USE LimitsAreTimes, BoundIsNatural
<1>0. Idle \in Task
  BY DEF Idle, Task
<1>1. CASE UNCHANGED vars
  BY <1>1 DEF vars, TypeOK
<1>2. CASE Tick
  <2>1. ASSUME NEW i \in Scans PROVE scan'[i] \in Row \union {NoRow}
    BY <1>2 DEF Tick, TypeOK, Row, NoRow
  <2>2. ASSUME NEW w \in Workers PROVE task'[w] \in Task
    BY <1>2 DEF Tick, TypeOK, Task, Busy
  <2> QED
    BY <1>2, <2>1, <2>2 DEF Tick, TypeOK
<1>3. ASSUME NEW w \in Workers, Begin(w) PROVE TypeOK'
  <2> DEFINE late == {i \in Scans : Stale(i)}
  <2>0. late \in SUBSET Scans
    OBVIOUS
  <2> HIDE DEF late
  <2>1. [phase |-> "recovering", stale |-> late, todo |-> {}, id |-> NoScan, net |-> {}, age |-> 0]
          \in Task
    BY <2>0 DEF Task
  <2> QED
    BY <1>3, <2>1 DEF Begin, TypeOK, late
<1>4. ASSUME NEW w \in Workers, Recover(w) PROVE TypeOK'
  <2>1. ASSUME NEW i \in Scans PROVE scan'[i] \in Row \union {NoRow}
    BY <1>4 DEF Recover, TypeOK, Row
  <2>2. task' = [task EXCEPT ![w] = [task[w] EXCEPT !.phase = "listing", !.stale = {}]]
    BY <1>4 DEF Recover, TypeOK
  <2>3. [task[w] EXCEPT !.phase = "listing", !.stale = {}] \in Task
    <3>1. task[w] \in Task
      BY DEF TypeOK
    <3> QED
      BY <3>1 DEF Task
  <2>4. task' \in [Workers -> Task]
    BY <2>2, <2>3 DEF TypeOK
  <2> QED
    BY <1>4, <2>1, <2>4 DEF Recover, TypeOK
<1>5. ASSUME NEW w \in Workers, ListNetworks(w) PROVE TypeOK'
  <2>1. task' = [task EXCEPT ![w] = [task[w] EXCEPT !.phase = "scanning", !.todo = Networks]]
    BY <1>5 DEF ListNetworks, TypeOK
  <2>2. [task[w] EXCEPT !.phase = "scanning", !.todo = Networks] \in Task
    <3>1. task[w] \in Task
      BY DEF TypeOK
    <3> QED
      BY <3>1 DEF Task
  <2>3. task' \in [Workers -> Task]
    BY <2>1, <2>2 DEF TypeOK
  <2> QED
    BY <1>5, <2>3 DEF ListNetworks, TypeOK
<1>6. ASSUME NEW w \in Workers, NEW n \in Networks, NEW i \in Scans, Launch(w, n, i)
      PROVE TypeOK'
  <2>1. task' \in [Workers -> Task]
    <3>1. task[w] \in Task
      BY DEF TypeOK
    <3>2. task' = [task EXCEPT ![w] =
                     [task[w] EXCEPT !.todo = task[w].todo \ {n}, !.id = i, !.net = {n}]]
      BY <1>6 DEF Launch, TypeOK
    <3>3. [task[w] EXCEPT !.todo = task[w].todo \ {n}, !.id = i, !.net = {n}] \in Task
      BY <3>1 DEF Task
    <3> QED
      BY <3>2, <3>3 DEF TypeOK
  <2>2. scan' \in [Scans -> Row \union {NoRow}]
    BY <1>6 DEF Launch, TypeOK, Row
  <2> QED
    BY <1>6, <2>1, <2>2 DEF Launch, TypeOK
<1>7. ASSUME NEW w \in Workers, NEW s \in {"completed", "failed"}, Scanning(w), Close(w, s)
      PROVE scan' \in [Scans -> Row \union {NoRow}]
  <2>1. task[w].id \in Scans
    BY <1>7 DEF Scanning, TypeOK, Task
  <2> DEFINE row == scan[task[w].id]
  <2>2. row.error \in BOOLEAN
    <3>1. row \in Row \union {NoRow}
      BY <2>1 DEF TypeOK
    <3>2. CASE row \in Row
      BY <3>2 DEF Row
    <3>3. CASE row = NoRow
      BY <3>3 DEF NoRow
    <3> QED
      BY <3>1, <3>2, <3>3
  <2>3. [status |-> s, error |-> row.error, age |-> 0] \in Row
    BY <2>2 DEF Row
  <2>4. scan' = [scan EXCEPT ![task[w].id] = [status |-> s, error |-> row.error, age |-> 0]]
    BY <1>7, <2>1 DEF Close, TypeOK
  <2> QED
    BY <2>1, <2>3, <2>4 DEF TypeOK
<1>8. ASSUME NEW w \in Workers PROVE [task EXCEPT ![w].id = NoScan, ![w].net = {}] \in [Workers -> Task]
  <2>1. task[w] \in Task
    BY DEF TypeOK
  <2>2. [task[w] EXCEPT !.id = NoScan, !.net = {}] \in Task
    BY <2>1 DEF Task
  <2> QED
    BY <2>2 DEF TypeOK
<1>9. ASSUME NEW w \in Workers, Finish(w) \/ DiscoveryFails(w) \/ ReconciliationFails(w) PROVE TypeOK'
  <2>1. scan' \in [Scans -> Row \union {NoRow}]
    BY <1>7, <1>9 DEF Finish, DiscoveryFails, ReconciliationFails
  <2>2. task' \in [Workers -> Task]
    BY <1>0, <1>8, <1>9 DEF Finish, DiscoveryFails, ReconciliationFails, TypeOK
  <2> QED
    BY <1>9, <2>1, <2>2 DEF Finish, DiscoveryFails, ReconciliationFails, TypeOK
<1>10. ASSUME NEW w \in Workers, Return(w) \/ Kill(w) \/ Lose(w) PROVE TypeOK'
  <2>1. scan' = scan /\ missed' = missed
        /\ task' = [task EXCEPT ![w] = Idle]
    BY <1>10 DEF Return, Kill, Lose
  <2>2. stops' \in 0..MaxStops
    BY <1>10 DEF Return, Kill, Lose, TypeOK
  <2>3. task' \in [Workers -> Task]
    BY <1>0, <2>1 DEF TypeOK
  <2> QED
    BY <2>1, <2>2, <2>3 DEF TypeOK
<1> QED
  BY <1>1, <1>2, <1>3, <1>4, <1>5, <1>6, <1>9, <1>10 DEF Next, Work

-----------------------------------------------------------------------------
\* The relation of rows and tasks, when recovery waits for the task limit.
LEMMA RowsKept ==
  ASSUME TaskLimit <= StaleAfter
  PROVE  IInv /\ [Next]_vars => NoEarlyRow' /\ JobRows' /\ Apart' /\ OnlyOrphansRecovered' /\ RecoveredIsFailed'
<1> SUFFICES ASSUME IInv, [Next]_vars
             PROVE  NoEarlyRow' /\ JobRows' /\ Apart' /\ OnlyOrphansRecovered' /\ RecoveredIsFailed'
    OBVIOUS
<1> USE LimitsAreTimes DEF IInv
<1>0. /\ \A w \in Workers : Scanning(w) => task[w].id \in Scans
      /\ \A w \in Workers : task[w].age \in 0..TaskLimit
      /\ \A i \in Scans : scan[i].age \in Nat
  BY DEF TypeOK, Task, Row, NoRow, Scanning
<1>1. CASE UNCHANGED vars
  BY <1>1 DEF vars, NoEarlyRow, JobRows, Apart, OnlyOrphansRecovered, RecoveredIsFailed, Scanning
<1>2. CASE Tick
  <2>1. \A w \in Workers : /\ task'[w].phase = task[w].phase
                           /\ task'[w].id = task[w].id
                           /\ task'[w].stale = task[w].stale
                           /\ Busy(w) => task'[w].age = task[w].age + 1
    BY <1>2 DEF Tick, TypeOK, Task
  <2>2. \A i \in Scans : /\ scan'[i].status = scan[i].status
                         /\ scan'[i].error = scan[i].error
                         /\ scan'[i].age \in Nat /\ scan'[i].age <= scan[i].age + 1
    <3> SUFFICES ASSUME NEW i \in Scans
                 PROVE  /\ scan'[i].status = scan[i].status
                        /\ scan'[i].error = scan[i].error
                        /\ scan'[i].age \in Nat /\ scan'[i].age <= scan[i].age + 1
        OBVIOUS
    <3>1. scan[i] \in Row \union {NoRow}
      BY DEF TypeOK
    <3>2. scan'[i] = IF scan[i].status = "running" /\ scan[i].age <= StaleAfter
                     THEN [scan[i] EXCEPT !.age = @ + 1] ELSE scan[i]
      BY <1>2 DEF Tick
    <3> QED
      BY <3>1, <3>2, <1>0 DEF Row, NoRow
  <2>3. \A w \in Workers : (Scanning(w)' <=> Scanning(w)) /\ (Scanning(w) => Busy(w))
    BY <2>1 DEF Scanning, Busy
  <2>4. JobRows'
    <3> SUFFICES ASSUME NEW w \in Workers, Scanning(w)
                 PROVE  /\ scan'[task'[w].id].status = "running"
                        /\ ~scan'[task'[w].id].error
                        /\ scan'[task'[w].id].age <= task'[w].age
        BY <2>3 DEF JobRows
    <3>1. task[w].id \in Scans /\ task'[w].id = task[w].id /\ task'[w].age = task[w].age + 1
      BY <1>0, <2>1, <2>3
    <3>2. scan[task[w].id].status = "running" /\ ~scan[task[w].id].error
          /\ scan[task[w].id].age <= task[w].age
      BY DEF JobRows
    <3> QED
      BY <3>1, <3>2, <2>2, <1>0 DEF TypeOK
  <2> QED
    BY <2>1, <2>2, <2>3, <2>4 DEF NoEarlyRow, Apart, OnlyOrphansRecovered, RecoveredIsFailed
<1>3. ASSUME NEW w \in Workers, Begin(w)
      PROVE  NoEarlyRow' /\ JobRows' /\ Apart' /\ OnlyOrphansRecovered' /\ RecoveredIsFailed'
  <2>1. /\ scan' = scan
        /\ task'[w].phase = "recovering" /\ task'[w].stale = {i \in Scans : Stale(i)}
        /\ \A v \in Workers : v # w => task'[v] = task[v]
    BY <1>3 DEF Begin, TypeOK, Idle
  <2>2. \A v \in Workers : Scanning(v)' => v # w /\ Scanning(v) /\ task'[v] = task[v]
    BY <2>1 DEF Scanning
  <2>3. \A v \in Workers : Scanning(v) => ~Stale(task[v].id)
    BY <1>0 DEF JobRows, Stale
  <2>4. NoEarlyRow'
    BY <1>3, <2>1 DEF NoEarlyRow, Begin, TypeOK
  <2>5. JobRows' /\ Apart' /\ RecoveredIsFailed'
    BY <2>1, <2>2 DEF JobRows, Apart, RecoveredIsFailed
  <2>6. OnlyOrphansRecovered'
    BY <2>1, <2>2, <2>3 DEF OnlyOrphansRecovered
  <2> QED
    BY <2>4, <2>5, <2>6
<1>4. ASSUME NEW w \in Workers, Recover(w)
      PROVE  NoEarlyRow' /\ JobRows' /\ Apart' /\ OnlyOrphansRecovered' /\ RecoveredIsFailed'
  <2>1. /\ task'[w].phase = "listing" /\ task'[w].stale = {}
        /\ \A v \in Workers : v # w => task'[v] = task[v]
    BY <1>4 DEF Recover, TypeOK, Task
  <2>2. \A i \in Scans : /\ i \notin task[w].stale => scan'[i] = scan[i]
                         /\ i \in task[w].stale => scan'[i].status = "failed"
    BY <1>4 DEF Recover
  <2>3. \A v \in Workers : Scanning(v)' => v # w /\ Scanning(v) /\ task'[v] = task[v]
    BY <2>1 DEF Scanning
  <2>4. \A v \in Workers : Scanning(v) => scan'[task[v].id] = scan[task[v].id]
    BY <1>0, <2>2 DEF OnlyOrphansRecovered
  <2>5. NoEarlyRow'
    BY <1>4, <2>1 DEF NoEarlyRow, Recover, TypeOK
  <2>6. JobRows' /\ Apart' /\ OnlyOrphansRecovered'
    BY <2>1, <2>3, <2>4 DEF JobRows, Apart, OnlyOrphansRecovered
  <2>7. RecoveredIsFailed'
    BY <2>2 DEF RecoveredIsFailed
  <2> QED
    BY <2>5, <2>6, <2>7
<1>5. ASSUME NEW w \in Workers, ListNetworks(w)
      PROVE  NoEarlyRow' /\ JobRows' /\ Apart' /\ OnlyOrphansRecovered' /\ RecoveredIsFailed'
  <2>1. /\ scan' = scan
        /\ task'[w].phase = "scanning" /\ task'[w].id = NoScan /\ task'[w].stale = task[w].stale
        /\ \A v \in Workers : v # w => task'[v] = task[v]
    BY <1>5 DEF ListNetworks, TypeOK, Task, NoEarlyRow
  <2>2. \A v \in Workers : Scanning(v)' => v # w /\ Scanning(v) /\ task'[v] = task[v]
    BY <2>1 DEF Scanning
  <2> QED
    BY <2>1, <2>2 DEF NoEarlyRow, JobRows, Apart, OnlyOrphansRecovered, RecoveredIsFailed
<1>6. ASSUME NEW w \in Workers, NEW n \in Networks, NEW i \in Scans, Launch(w, n, i)
      PROVE  NoEarlyRow' /\ JobRows' /\ Apart' /\ OnlyOrphansRecovered' /\ RecoveredIsFailed'
  <2>1. /\ task'[w].phase = "scanning" /\ task'[w].id = i /\ task'[w].stale = task[w].stale
        /\ task'[w].age = task[w].age
        /\ \A v \in Workers : v # w => task'[v] = task[v]
        /\ \A v \in Workers : task[v].id # i /\ i \notin task[v].stale
    BY <1>6 DEF Launch, TypeOK, Task
  <2>2. /\ scan'[i] = [status |-> "running", error |-> FALSE, age |-> 0]
        /\ \A j \in Scans : j # i => scan'[j] = scan[j]
    BY <1>6 DEF Launch, TypeOK
  <2>3. \A v \in Workers : v # w => (Scanning(v)' <=> Scanning(v))
    BY <2>1 DEF Scanning
  <2>4. \A v \in Workers : v # w /\ Scanning(v) => scan'[task[v].id] = scan[task[v].id]
    BY <1>0, <2>1, <2>2
  <2> QED
    BY <1>0, <2>1, <2>2, <2>3, <2>4
    DEF NoEarlyRow, JobRows, Apart, OnlyOrphansRecovered, RecoveredIsFailed
<1>7. ASSUME NEW w \in Workers, NEW s \in {"completed", "failed"}, Scanning(w), Close(w, s),
             task'[w].id = NoScan, task'[w].stale \subseteq task[w].stale,
             \A v \in Workers : v # w => task'[v] = task[v]
      PROVE  NoEarlyRow' /\ JobRows' /\ Apart' /\ OnlyOrphansRecovered' /\ RecoveredIsFailed'
  <2>1. \A v \in Workers : Scanning(v)' => v # w /\ Scanning(v) /\ task'[v] = task[v]
    BY <1>7 DEF Scanning
  <2>2. task[w].id \in Scans /\ ~scan[task[w].id].error
    BY <1>0, <1>7 DEF JobRows
  <2>3. /\ \A j \in Scans : j # task[w].id => scan'[j] = scan[j]
        /\ ~scan'[task[w].id].error
    BY <1>7, <2>2 DEF Close, TypeOK, Row, NoRow
  <2>4. \A v \in Workers : Scanning(v)' => scan'[task[v].id] = scan[task[v].id]
    BY <1>0, <1>7, <2>1, <2>3 DEF Apart
  <2> QED
    BY <1>0, <1>7, <2>1, <2>3, <2>4
    DEF NoEarlyRow, JobRows, Apart, OnlyOrphansRecovered, RecoveredIsFailed
<1>8. ASSUME NEW w \in Workers, Finish(w) \/ DiscoveryFails(w) \/ ReconciliationFails(w)
      PROVE  NoEarlyRow' /\ JobRows' /\ Apart' /\ OnlyOrphansRecovered' /\ RecoveredIsFailed'
  <2>1. Scanning(w) /\ \E s \in {"completed", "failed"} : Close(w, s)
    BY <1>8 DEF Finish, DiscoveryFails, ReconciliationFails
  <2>2. /\ task'[w].id = NoScan /\ task'[w].stale \subseteq task[w].stale
        /\ \A v \in Workers : v # w => task'[v] = task[v]
    BY <1>8 DEF Finish, DiscoveryFails, ReconciliationFails, TypeOK, Task, Idle
  <2> QED
    BY <1>7, <2>1, <2>2
<1>9. ASSUME NEW w \in Workers, Return(w) \/ Kill(w) \/ Lose(w)
      PROVE  NoEarlyRow' /\ JobRows' /\ Apart' /\ OnlyOrphansRecovered' /\ RecoveredIsFailed'
  <2>1. /\ scan' = scan
        /\ task'[w].id = NoScan /\ task'[w].stale = {}
        /\ \A v \in Workers : v # w => task'[v] = task[v]
    BY <1>9 DEF Return, Kill, Lose, TypeOK, Idle
  <2>2. \A v \in Workers : Scanning(v)' => v # w /\ Scanning(v) /\ task'[v] = task[v]
    BY <2>1 DEF Scanning
  <2> QED
    BY <2>1, <2>2 DEF NoEarlyRow, JobRows, Apart, OnlyOrphansRecovered, RecoveredIsFailed
<1> QED
  BY <1>1, <1>2, <1>3, <1>4, <1>5, <1>6, <1>8, <1>9 DEF Next, Work

-----------------------------------------------------------------------------
\* Rows and tasks keep their types, whatever the limits.
THEOREM ScansTypeCorrect == Spec => []TypeOK
<1>1. Init => TypeOK
  BY InitHolds DEF IInv
<1> QED
  BY <1>1, TypeKept, PTL DEF Spec

\* The inductive invariant, when the task limit is within twice the time-out.
LEMMA Inductive ==
  ASSUME TaskLimit <= StaleAfter
  PROVE  Spec => []IInv
<1>1. IInv /\ [Next]_vars => IInv'
  BY TypeKept, RowsKept DEF IInv
<1> QED
  BY <1>1, InitHolds, PTL DEF Spec

\* scan_tasks.py:37: when the task limit is within twice the time-out of a
\* scan, a task never recovers the row of a scan that another worker runs.
THEOREM RecoverySparesRunningScans ==
  ASSUME TaskLimit <= StaleAfter
  PROVE  Spec => []OnlyOrphansRecovered
<1> QED
  BY Inductive, PTL DEF IInv

\* Under the same limits a completed job never carries the error of an
\* interrupted one.
THEOREM RecoveryIsFinal ==
  ASSUME TaskLimit <= StaleAfter
  PROVE  Spec => []RecoveredIsFailed
<1> QED
  BY Inductive, PTL DEF IInv
=============================================================================
