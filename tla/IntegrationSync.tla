--------------------------- MODULE IntegrationSync ---------------------------
(***************************************************************************)
(* The bookkeeping of integration syncs: the failure count of a connector, *)
(* its reset by a success and the disabling of a connector that keeps      *)
(* failing.                                                                *)
(*                                                                         *)
(* A sync task loads the rows of the enabled integrations once, and works  *)
(* on them for minutes: the session does not expire them at a commit.  It  *)
(* commits after each integration, and a commit writes the columns whose   *)
(* value differs from the one that was loaded.  The hourly task, a manual  *)
(* run and a redelivered task may overlap, for the queue has two workers.  *)
(***************************************************************************)
EXTENDS Integers, FiniteSets

CONSTANTS
  Integrations,  \* ids of integrations rows
  Workers,       \* processes that consume the reconciler queue
  Limit,         \* consecutive failures that disable an integration: 5
  Reliable,      \* integrations that never fail
  Broken,        \* integrations that never succeed
  Poisoned,      \* integrations that may report a host the assets table refuses
  Unsupported,   \* integrations of a type without a connector
  MaxCount,      \* bound: failures counted
  MaxEdits,      \* bound: changes of an integration in a behaviour
  All,           \* a sync of every enabled integration
  None           \* no sync

ASSUME LimitIsPositive == Limit \in Nat \ {0}
ASSUME BoundsAreNaturals == {MaxCount, MaxEdits} \subseteq Nat
ASSUME KindsOfIntegration ==
  /\ Reliable \subseteq Integrations /\ Broken \subseteq Integrations
  /\ Poisoned \subseteq Integrations /\ Unsupported \subseteq Integrations
  /\ Reliable \intersect Broken = {}
ASSUME AllIsNoIntegration == All # None /\ {All, None} \intersect Integrations = {}

VARIABLES
  row,      \* the integrations table
  task,     \* the sync each worker runs
  queue,    \* sync messages an administrator or a lost worker left
  streak,   \* history: syncs that failed in a row
  missed,   \* history: enabled when an hourly sync began, not tried since
  raced,    \* history: a sync has counted from a row that was out of date,
            \* and no sync that had the row to itself has succeeded since
  edits     \* changes of integrations so far

vars == <<row, task, queue, streak, missed, raced, edits>>

-----------------------------------------------------------------------------
Status == {"never", "success", "failed"}
Row == [enabled: BOOLEAN, failures: 0..MaxCount, status: Status]

\* loaded: the rows still on the task's list, as the task loaded them.
Task == [target: Integrations \union {All}, loaded: UNION {[S -> Row] : S \in SUBSET Integrations}]
Idle == [target |-> None, loaded |-> <<>>]
Todo(w) == DOMAIN task[w].loaded

Init ==
  /\ row = [i \in Integrations |-> [enabled |-> TRUE, failures |-> 0, status |-> "never"]]
  /\ task = [w \in Workers |-> Idle]
  /\ queue = {}
  /\ streak = [i \in Integrations |-> 0]
  /\ missed = {}
  /\ raced = {}
  /\ edits = 0

\* Slip: an integration whose last sync succeeded is not due.
ListedUnlessSynced(target) ==
  {i \in Integrations : row[i].enabled /\ row[i].status # "success" /\ target \in {All, i}}

\* The list of a sync: the enabled integrations it is asked for.
Listed(target) == {i \in Integrations : row[i].enabled /\ target \in {All, i}}

\* A worker takes a message; beat sends one for all integrations every hour.
Begin(w, target) ==
  /\ task[w] = Idle
  /\ target \in queue \union {All}
  /\ queue' = queue \ {target}
  /\ task' = [task EXCEPT ![w] = [target |-> target, loaded |-> [i \in Listed(target) |-> row[i]]]]
  /\ missed' = missed \union {i \in Integrations : row[i].enabled /\ target = All}
  /\ UNCHANGED <<row, streak, raced, edits>>

\* What a commit leaves in the table when a task that loaded r changed it to s.
Written(i, r, s) ==
  [c \in DOMAIN r |-> IF s[c] # r[c] THEN s[c] ELSE row[i][c]]

\* bound: longer streaks are not told apart.
Longer(i) == IF streak[i] < MaxCount THEN [streak EXCEPT ![i] = @ + 1] ELSE streak

\* Another sync has counted since this one loaded the row.
OutOfDate(w, i) == row[i].failures # task[w].loaded[i].failures

\* The row is as this sync loaded it, and no other sync has it on its list.
ToItself(w, i) ==
  /\ task[w].loaded[i] = row[i]
  /\ \A v \in Workers \ {w} : i \notin Todo(v)

Synced(w, i, after) ==
  /\ row' = [row EXCEPT ![i] = Written(i, task[w].loaded[i], after)]
  /\ task' = [task EXCEPT ![w].loaded = [j \in Todo(w) \ {i} |-> task[w].loaded[j]]]
  /\ missed' = missed \ {i}
  /\ UNCHANGED <<queue, edits>>

Crossed(w, i) == IF OutOfDate(w, i) THEN raced \union {i} ELSE raced

\* Slip: the success is recorded under the name that network scans use.
AfterSuccessCompleted(r) == [r EXCEPT !.status = "completed", !.failures = 0]

AfterSuccess(r) == [r EXCEPT !.status = "success", !.failures = 0]

SyncSucceeds(w, i) ==
  /\ i \in Todo(w) \ (Broken \union Unsupported)
  /\ Synced(w, i, AfterSuccess(task[w].loaded[i]))
  /\ raced' = IF ToItself(w, i) THEN raced \ {i} ELSE Crossed(w, i)
  /\ streak' = [streak EXCEPT ![i] = 0]

\* Slip: failures are reported but not counted.
AfterFailureUncounted(r) == [r EXCEPT !.status = "failed"]

\* Slip: a single failure is enough.
AfterFailureHasty(r) == [r EXCEPT !.status = "failed", !.failures = @ + 1, !.enabled = FALSE]

AfterFailure(r) ==
  [r EXCEPT !.status = "failed", !.failures = @ + 1, !.enabled = @ /\ r.failures + 1 < Limit]

SyncFails(w, i) ==
  /\ i \in Todo(w) \ (Reliable \union Unsupported)
  /\ task[w].loaded[i].failures < MaxCount   \* bound
  /\ Synced(w, i, AfterFailure(task[w].loaded[i]))
  /\ raced' = Crossed(w, i)
  /\ streak' = Longer(i)

\* The database refuses a host.  The session is not rolled back, so reading the
\* row in the handler raises: the failure is not recorded and the task ends.
SyncIsRefused(w, i) ==
  /\ i \in (Todo(w) \intersect Poisoned) \ Unsupported
  /\ streak' = Longer(i)
  /\ task' = [task EXCEPT ![w] = Idle]
  /\ missed' = missed \ {i}
  /\ UNCHANGED <<row, queue, raced, edits>>

\* The list is done: what is left of it was passed by, for nothing knows how to
\* talk to an integration of such a type.
Return(w) ==
  /\ task[w] # Idle /\ Todo(w) \subseteq Unsupported
  /\ task' = [task EXCEPT ![w] = Idle]
  /\ UNCHANGED <<row, queue, streak, missed, raced, edits>>

\* A worker is lost, and its message is delivered again.
Lose(w) ==
  /\ task[w] # Idle
  /\ queue' = queue \union {task[w].target}
  /\ task' = [task EXCEPT ![w] = Idle]
  /\ UNCHANGED <<row, streak, missed, raced, edits>>

\* The time limit ends the task, and its message is acknowledged.
Kill(w) ==
  /\ task[w] # Idle
  /\ task' = [task EXCEPT ![w] = Idle]
  /\ UNCHANGED <<row, queue, streak, missed, raced, edits>>

\* POST /integrations/{id}/run.
RunNow(i) ==
  /\ edits < MaxEdits
  /\ edits' = edits + 1
  /\ queue' = queue \union {i}
  /\ UNCHANGED <<row, task, streak, missed, raced>>

\* PATCH /integrations/{id} with "enabled": the count of failures stays.
SetEnabled(i, enabled) ==
  /\ edits < MaxEdits
  /\ edits' = edits + 1
  /\ row' = [row EXCEPT ![i].enabled = enabled]
  /\ missed' = IF enabled THEN missed ELSE missed \ {i}
  /\ UNCHANGED <<task, queue, streak, raced>>

Work(w) ==
  \/ \E i \in Integrations : SyncSucceeds(w, i) \/ SyncFails(w, i) \/ SyncIsRefused(w, i)
  \/ Return(w)

Next ==
  \/ \E w \in Workers, target \in Integrations \union {All} : Begin(w, target)
  \/ \E w \in Workers : Work(w) \/ Lose(w) \/ Kill(w)
  \/ \E i \in Integrations : RunNow(i) \/ \E b \in BOOLEAN : SetEnabled(i, b)

Spec == Init /\ [][Next]_vars

\* Beat sends an hourly sync for ever, and a worker goes on with its task.
Fairness ==
  /\ \A w \in Workers : WF_vars(Work(w))
  /\ \E w \in Workers : SF_vars(Begin(w, All))

FairSpec == Spec /\ Fairness

-----------------------------------------------------------------------------
(* Properties.                                                              *)

\* Rows and tasks hold what their columns and loops can hold.
TypeOK ==
  /\ row \in [Integrations -> Row]
  /\ task \in [Workers -> Task \union {Idle}]
  /\ queue \subseteq Integrations \union {All}
  /\ streak \in [Integrations -> 0..MaxCount]
  /\ missed \subseteq Integrations
  /\ raced \subseteq Integrations
  /\ edits \in 0..MaxEdits

\* A sync disables a connector only when Limit syncs in a row have failed.  Two
\* syncs that counted from the same row are excused, but no longer than until a
\* sync that has the row to itself succeeds.
DisabledForCause ==
  [][\A i \in Integrations \ raced' :
       row[i].enabled /\ ~row'[i].enabled /\ edits' = edits => streak'[i] >= Limit]_vars

\* reconcile_tasks.py:61: a sync disables a connector after Limit consecutive
\* failures.
DisabledAfterLimit ==
  [][\A i \in Integrations :
       row[i].enabled /\ ~row'[i].enabled /\ edits' = edits => streak'[i] >= Limit]_vars

\* A connector whose last sync is reported as successful starts its count anew,
\* and one that is reported as failed has a failure counted, with the same excuse.
StatusMatchesCount ==
  \A i \in Integrations \ raced : row[i].failures > 0 <=> row[i].status = "failed"

\* A sync ends with i still on its list.
PassesOver(i) == \E w \in Workers : i \in Todo(w) /\ task'[w] = Idle

\* A connector that never works is disabled in the end, however the workers
\* overwrite each other's counts, unless for ever syncs end before they reach it.
BrokenIsDisabled ==
  \A i \in Broken \ Unsupported :
    (row[i].enabled ~> ~row[i].enabled) \/ []<><<PassesOver(i)>>_vars

\* An integration that was enabled when an hourly sync began is tried, by that
\* sync or a later one, unless for ever syncs end before they reach it.
TriedUnlessPassedOver ==
  \A i \in Integrations \ Unsupported :
    (i \in missed ~> i \notin missed) \/ []<><<PassesOver(i)>>_vars

\* celery_app.py:51: every hour all enabled integrations are pulled from, as long
\* as workers are not lost and tasks not killed for ever.
EveryEnabledIsTried ==
  \A i \in Integrations \ Unsupported :
    (i \in missed ~> i \notin missed) \/ []<><<\E w \in Workers : Lose(w) \/ Kill(w)>>_vars

\* INTEGRATION-NOTES.md:318: a sync that fails Limit times in a row disables
\* its connector, whatever made it fail.
FailuresDisable ==
  [][\A i \in Integrations :
       streak'[i] > streak[i] /\ streak'[i] >= Limit => ~row'[i].enabled]_vars
=============================================================================
