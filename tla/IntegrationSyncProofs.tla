------------------------ MODULE IntegrationSyncProofs ------------------------
(***************************************************************************)
(* A connector is disabled for cause, and its status agrees with its count *)
(* of failures: for any numbers of integrations, of syncs at the same time *)
(* and of failures that disable, whichever connectors fail.                *)
(***************************************************************************)
EXTENDS IntegrationSync, TLAPS

Agrees(r) == r.failures > 0 <=> r.status = "failed"

\* What a sync loaded and has not tried yet agrees as the table does.
LoadedAgree == \A w \in Workers : \A i \in Todo(w) \ raced : Agrees(task[w].loaded[i])

\* No more failures are counted than happened in a row.
CountsHappened == \A i \in Integrations \ raced : row[i].failures <= streak[i]

SInv == TypeOK /\ StatusMatchesCount /\ LoadedAgree /\ CountsHappened

-----------------------------------------------------------------------------
(* What the operators of the model return.                                 *)

LEMMA RowHas ==
  ASSUME NEW r \in Row
  PROVE  r.enabled \in BOOLEAN /\ r.failures \in 0..MaxCount /\ r.status \in Status
BY DEF Row

\* A commit writes the columns that differ from the row as it was loaded.
LEMMA WrittenHas ==
  ASSUME TypeOK, NEW i \in Integrations, NEW r \in Row, NEW s \in Row
  PROVE  /\ Written(i, r, s) \in Row
         /\ Written(i, r, s).enabled = IF s.enabled # r.enabled THEN s.enabled ELSE row[i].enabled
         /\ Written(i, r, s).failures = IF s.failures # r.failures THEN s.failures ELSE row[i].failures
         /\ Written(i, r, s).status = IF s.status # r.status THEN s.status ELSE row[i].status
<1> SUFFICES ASSUME NEW stored \in Row, stored = row[i] PROVE
         /\ Written(i, r, s) \in Row
         /\ Written(i, r, s).enabled = IF s.enabled # r.enabled THEN s.enabled ELSE stored.enabled
         /\ Written(i, r, s).failures = IF s.failures # r.failures THEN s.failures ELSE stored.failures
         /\ Written(i, r, s).status = IF s.status # r.status THEN s.status ELSE stored.status
  BY DEF TypeOK
<1> DEFINE value(c) == IF s[c] # r[c] THEN s[c] ELSE stored[c]
<1>1. DOMAIN r = {"enabled", "failures", "status"}
  BY DEF Row
<1>2. Written(i, r, s) = [c \in {"enabled", "failures", "status"} |-> value(c)]
  BY <1>1 DEF Written
<1>3. /\ value("enabled") = IF s.enabled # r.enabled THEN s.enabled ELSE stored.enabled
      /\ value("failures") = IF s.failures # r.failures THEN s.failures ELSE stored.failures
      /\ value("status") = IF s.status # r.status THEN s.status ELSE stored.status
  OBVIOUS
<1> HIDE DEF value
<1>4. Written(i, r, s) =
        [enabled |-> value("enabled"), failures |-> value("failures"), status |-> value("status")]
  BY <1>2
<1>5. /\ value("enabled") \in BOOLEAN /\ value("failures") \in 0..MaxCount
      /\ value("status") \in Status
  BY <1>3, RowHas
<1>6. Written(i, r, s) \in Row
  BY <1>4, <1>5 DEF Row
<1> QED
  BY <1>3, <1>4, <1>6

\* The list of a sync, and the rows on it.
LEMMA TodoHas ==
  ASSUME TypeOK, NEW w \in Workers
  PROVE  /\ Todo(w) \subseteq Integrations
         /\ \A i \in Todo(w) : task[w].loaded[i] \in Row
         /\ \A i \in Todo(w) : task[w] \in Task
<1> SUFFICES ASSUME NEW t \in Task \union {Idle}, t = task[w]
             PROVE  /\ DOMAIN t.loaded \subseteq Integrations
                    /\ \A i \in DOMAIN t.loaded : t.loaded[i] \in Row
                    /\ \A i \in DOMAIN t.loaded : t \in Task
  BY DEF TypeOK, Todo
<1>1. CASE t = Idle
  <2>1. DOMAIN t.loaded = {}
    BY <1>1 DEF Idle
  <2> QED
    BY <2>1
<1>2. CASE t \in Task
  <2>1. PICK S \in SUBSET Integrations : t.loaded \in [S -> Row]
    BY <1>2 DEF Task
  <2> QED
    BY <1>2, <2>1
<1> QED
  BY <1>1, <1>2

LEMMA TaskOf ==
  ASSUME NEW target \in Integrations \union {All}, NEW S \in SUBSET Integrations, NEW f \in [S -> Row]
  PROVE  [target |-> target, loaded |-> f] \in Task
BY DEF Task

\* A sync goes on with the rest of its list.
LEMMA RestIsTask ==
  ASSUME TypeOK, NEW w \in Workers, NEW i \in Todo(w)
  PROVE  [task[w] EXCEPT !.loaded = [j \in Todo(w) \ {i} |-> task[w].loaded[j]]] \in Task
<1>1. task[w] \in Task /\ Todo(w) \ {i} \in SUBSET Integrations
  BY TodoHas
<1>2. task[w].target \in Integrations \union {All}
  BY <1>1 DEF Task
<1>3. [j \in Todo(w) \ {i} |-> task[w].loaded[j]] \in [Todo(w) \ {i} -> Row]
  BY TodoHas
<1>4. [task[w] EXCEPT !.loaded = [j \in Todo(w) \ {i} |-> task[w].loaded[j]]]
        = [target |-> task[w].target, loaded |-> [j \in Todo(w) \ {i} |-> task[w].loaded[j]]]
  BY <1>1 DEF Task
<1> QED
  BY <1>1, <1>2, <1>3, <1>4, TaskOf

-----------------------------------------------------------------------------
(* The steps.                                                              *)

\* A sync records its result: it is enough that the row it writes agrees, and
\* what others have loaded of it, unless it is left as raced.
LEMMA SyncedStep ==
  ASSUME SInv, NEW w \in Workers, NEW i \in Todo(w), NEW after, Synced(w, i, after),
         NEW y \in Row, y = Written(i, task[w].loaded[i], after),
         NEW n \in 0..MaxCount, streak' = [streak EXCEPT ![i] = n],
         raced' \subseteq Integrations, raced \ {i} \subseteq raced',
         i \notin raced' => /\ Agrees(y) /\ y.failures <= n
                            /\ \A v \in Workers \ {w} : i \in Todo(v) => Agrees(task[v].loaded[i])
  PROVE  SInv'
<1> SUFFICES ASSUME NEW t, t = [task[w] EXCEPT !.loaded = [j \in Todo(w) \ {i} |-> task[w].loaded[j]]]
             PROVE  SInv'
  OBVIOUS
<1>0. TypeOK /\ i \in Integrations /\ t \in Task
  BY TodoHas, RestIsTask DEF SInv
<1>1. /\ row' = [row EXCEPT ![i] = y] /\ task' = [task EXCEPT ![w] = t]
      /\ missed' = missed \ {i}
      /\ UNCHANGED <<queue, edits>>
  BY DEF Synced
<1>2. \A j \in Integrations : j # i /\ j \notin raced' => j \notin raced
  OBVIOUS
<1>3. t.loaded = [j \in Todo(w) \ {i} |-> task[w].loaded[j]]
  BY <1>0, TodoHas DEF Task
<1>4. TypeOK'
  BY <1>0, <1>1 DEF TypeOK
<1>5. StatusMatchesCount'
  BY <1>0, <1>1, <1>2 DEF SInv, StatusMatchesCount, TypeOK, Agrees
<1>6. LoadedAgree'
  <2> SUFFICES ASSUME NEW v \in Workers, NEW j \in Todo(v)', j \notin raced'
               PROVE  Agrees(task'[v].loaded[j])
    BY DEF LoadedAgree, Agrees
  <2>1. CASE v = w
    <3>1. task'[v] = t
      BY <1>0, <1>1, <2>1 DEF TypeOK
    <3>2. j \in Todo(w) /\ j # i /\ task'[v].loaded[j] = task[w].loaded[j]
      BY <1>3, <3>1 DEF Todo
    <3> QED
      BY <1>0, <1>2, <3>2, TodoHas DEF SInv, LoadedAgree
  <2>2. CASE v # w
    <3>1. task'[v] = task[v]
      BY <1>0, <1>1, <2>2 DEF TypeOK
    <3>2. j \in Todo(v) /\ j \in Integrations
      BY <1>0, <3>1, TodoHas DEF Todo
    <3> QED
      BY <1>2, <2>2, <3>1, <3>2 DEF SInv, LoadedAgree
  <2> QED
    BY <2>1, <2>2
<1>7. CountsHappened'
  BY <1>0, <1>1, <1>2 DEF SInv, CountsHappened, TypeOK
<1> QED
  BY <1>4, <1>5, <1>6, <1>7 DEF SInv

\* What others have loaded of a row that is not raced agrees.
LEMMA OthersAgree ==
  ASSUME SInv, NEW w \in Workers, NEW i \in Integrations, i \notin raced
  PROVE  \A v \in Workers \ {w} : i \in Todo(v) => Agrees(task[v].loaded[i])
BY DEF SInv, LoadedAgree

LEMMA SuccessStep ==
  ASSUME SInv, NEW w \in Workers, NEW i \in Integrations, SyncSucceeds(w, i)
  PROVE  SInv'
<1>1. TypeOK /\ i \in Todo(w)
  BY DEF SInv, SyncSucceeds
<1> SUFFICES ASSUME NEW r \in Row, r = task[w].loaded[i], NEW s, s = AfterSuccess(r),
                    NEW y, y = Written(i, r, s), NEW x \in Row, x = row[i]
             PROVE  SInv'
  BY <1>1, TodoHas DEF TypeOK
<1>2. 0 \in 0..MaxCount /\ "success" \in Status
  BY BoundsAreNaturals DEF Status
<1>3. s.enabled = r.enabled /\ s.failures = 0 /\ s.status = "success" /\ s \in Row
  BY <1>2 DEF AfterSuccess, Row
<1>4. y \in Row /\ y.failures = (IF s.failures # r.failures THEN s.failures ELSE x.failures)
      /\ y.status = (IF s.status # r.status THEN s.status ELSE x.status)
  BY <1>1, <1>3, WrittenHas
<1>5. Synced(w, i, s) /\ streak' = [streak EXCEPT ![i] = 0]
      /\ raced' = IF ToItself(w, i) THEN raced \ {i} ELSE Crossed(w, i)
  BY DEF SyncSucceeds
<1>6. raced' \subseteq Integrations /\ raced \ {i} \subseteq raced'
  BY <1>1, <1>5 DEF Crossed, TypeOK
<1>7. CASE ToItself(w, i)
  <2>1. x = r /\ \A v \in Workers \ {w} : i \notin Todo(v)
    BY <1>7 DEF ToItself
  <2>2. Agrees(y) /\ y.failures <= 0
    BY <1>3, <1>4, <2>1 DEF Agrees
  <2> QED
    BY <1>1, <1>2, <1>4, <1>5, <1>6, <2>1, <2>2, SyncedStep
<1>8. ASSUME i \notin raced, x.failures = r.failures
      PROVE  Agrees(y) /\ y.failures <= 0
  <2>1. Agrees(r) /\ Agrees(x)
    BY <1>1, <1>8 DEF SInv, LoadedAgree, StatusMatchesCount, Agrees
  <2>2. y.failures = 0
    BY <1>3, <1>4, <1>8
  <2>3. y.status # "failed"
    BY <1>3, <1>4, <1>8, <2>1 DEF Agrees
  <2> QED
    BY <2>2, <2>3 DEF Agrees
<1>9. CASE ~ToItself(w, i)
  <2>1. i \notin raced' => i \notin raced /\ x.failures = r.failures
    BY <1>5, <1>9 DEF Crossed, OutOfDate
  <2> QED
    BY <1>1, <1>2, <1>4, <1>5, <1>6, <1>8, <2>1, OthersAgree, SyncedStep
<1> QED
  BY <1>7, <1>9

\* The row that a failed sync writes.
LEMMA FailedRow ==
  ASSUME TypeOK, NEW i \in Integrations, NEW r \in Row, r.failures < MaxCount
  PROVE  /\ Written(i, r, AfterFailure(r)) \in Row
         /\ Written(i, r, AfterFailure(r)).failures = r.failures + 1
         /\ Written(i, r, AfterFailure(r)).status = IF r.status = "failed" THEN row[i].status ELSE "failed"
         /\ row[i].enabled /\ ~Written(i, r, AfterFailure(r)).enabled => r.failures + 1 >= Limit
<1>1. r.failures \in 0..MaxCount /\ r.failures + 1 \in 0..MaxCount /\ r.failures + 1 # r.failures
      /\ r.failures + 1 \in Nat /\ Limit \in Nat
  BY RowHas, BoundsAreNaturals, LimitIsPositive
<1> SUFFICES ASSUME NEW c \in Nat, c = r.failures + 1, NEW s, s = AfterFailure(r)
             PROVE  /\ Written(i, r, s) \in Row
                    /\ Written(i, r, s).failures = c
                    /\ Written(i, r, s).status = IF r.status = "failed" THEN row[i].status ELSE "failed"
                    /\ row[i].enabled /\ ~Written(i, r, s).enabled => c >= Limit
  BY <1>1
<1>2. s.failures = c /\ s.status = "failed" /\ s.enabled = (r.enabled /\ c < Limit)
  BY DEF AfterFailure, Row
<1>3. s \in Row
  <2>1. "failed" \in Status /\ c \in 0..MaxCount
    BY <1>1 DEF Status
  <2>2. s = [enabled |-> r.enabled /\ c < Limit, failures |-> c, status |-> "failed"]
    BY DEF AfterFailure, Row
  <2> QED
    BY <2>1, <2>2 DEF Row
<1>4. Written(i, r, s) \in Row
  BY <1>3, WrittenHas
<1>5. Written(i, r, s).failures = c
  <2>1. Written(i, r, s).failures = IF s.failures # r.failures THEN s.failures ELSE row[i].failures
    BY <1>3, WrittenHas
  <2> QED
    BY <1>1, <1>2, <2>1
<1>6. Written(i, r, s).status = IF r.status = "failed" THEN row[i].status ELSE "failed"
  <2>1. Written(i, r, s).status = IF s.status # r.status THEN s.status ELSE row[i].status
    BY <1>3, WrittenHas
  <2> QED
    BY <1>2, <2>1
<1>7. row[i].enabled /\ ~Written(i, r, s).enabled => c >= Limit
  <2>1. Written(i, r, s).enabled = IF s.enabled # r.enabled THEN s.enabled ELSE row[i].enabled
    BY <1>3, WrittenHas
  <2>2. c < Limit => s.enabled = r.enabled
    <3>1. r.enabled \in BOOLEAN
      BY RowHas
    <3> QED
      BY <1>2, <3>1
  <2>3. c < Limit => Written(i, r, s).enabled = row[i].enabled
    BY <2>1, <2>2
  <2>4. c < Limit \/ c >= Limit
    BY <1>1
  <2> QED
    BY <2>3, <2>4, Zenon
<1> QED
  BY <1>4, <1>5, <1>6, <1>7

\* A count that agreed and happened, after one more failure.
LEMMA OneMoreFailure ==
  ASSUME NEW r \in Row, NEW x \in Row, NEW y \in Row, NEW k \in 0..MaxCount,
         r.failures < MaxCount, x.failures = r.failures, Agrees(r), Agrees(x), x.failures <= k,
         y.failures = r.failures + 1,
         y.status = IF r.status = "failed" THEN x.status ELSE "failed"
  PROVE  Agrees(y) /\ y.failures <= IF k < MaxCount THEN k + 1 ELSE k
<1>1. r.failures \in Nat /\ k \in Nat /\ MaxCount \in Nat
  BY RowHas, BoundsAreNaturals
<1>2. y.status = "failed"
  BY DEF Agrees
<1>3. y.failures > 0
  BY <1>1
<1>4. y.failures <= IF k < MaxCount THEN k + 1 ELSE k
  BY <1>1
<1> QED
  BY <1>2, <1>3, <1>4 DEF Agrees

\* What a failed sync writes, and that it is no more than what happened.
LEMMA FailureWrites ==
  ASSUME SInv, NEW w \in Workers, NEW i \in Integrations, SyncFails(w, i),
         NEW y, y = Written(i, task[w].loaded[i], AfterFailure(task[w].loaded[i]))
  PROVE  /\ i \in Todo(w) /\ Synced(w, i, AfterFailure(task[w].loaded[i])) /\ y \in Row
         /\ row'[i] = y
         /\ \E n \in 0..MaxCount :
              /\ streak' = [streak EXCEPT ![i] = n]
              /\ i \notin raced /\ ~OutOfDate(w, i) =>
                   /\ Agrees(y) /\ y.failures <= n
                   /\ row[i].enabled /\ ~y.enabled => Limit <= n
<1>1. TypeOK /\ i \in Todo(w) /\ Synced(w, i, AfterFailure(task[w].loaded[i]))
      /\ task[w].loaded[i].failures < MaxCount /\ streak' = Longer(i)
  BY DEF SInv, SyncFails
<1>2. task[w].loaded[i] \in Row /\ row[i] \in Row /\ streak[i] \in 0..MaxCount
  BY <1>1, TodoHas DEF TypeOK
<1> DEFINE n == IF streak[i] < MaxCount THEN streak[i] + 1 ELSE streak[i]
<1>3. n \in 0..MaxCount /\ n \in Nat /\ Limit \in Nat
  BY <1>2, BoundsAreNaturals, LimitIsPositive
<1>4. streak' = [streak EXCEPT ![i] = n]
  BY <1>1 DEF Longer, TypeOK
<1>5. row'[i] = y
  <2>1. row' = [row EXCEPT ![i] = y]
    BY <1>1 DEF Synced
  <2> QED
    BY <1>1, <2>1 DEF TypeOK
<1>6. /\ y \in Row /\ y.failures = task[w].loaded[i].failures + 1
      /\ y.status = IF task[w].loaded[i].status = "failed" THEN row[i].status ELSE "failed"
      /\ row[i].enabled /\ ~y.enabled => y.failures >= Limit
  BY <1>1, <1>2, FailedRow
<1>7. ASSUME i \notin raced, ~OutOfDate(w, i)
      PROVE  Agrees(y) /\ y.failures <= n /\ (row[i].enabled /\ ~y.enabled => Limit <= n)
  <2>1. row[i].failures = task[w].loaded[i].failures
    BY <1>7 DEF OutOfDate
  <2>2. Agrees(task[w].loaded[i])
    BY <1>1, <1>7 DEF SInv, LoadedAgree
  <2>3. Agrees(row[i])
    BY <1>7 DEF SInv, StatusMatchesCount, Agrees
  <2>4. row[i].failures <= streak[i]
    BY <1>7 DEF SInv, CountsHappened
  <2>5. Agrees(y) /\ y.failures <= n
    BY <1>1, <1>2, <1>6, <2>1, <2>2, <2>3, <2>4, OneMoreFailure
  <2>6. y.failures \in Nat
    BY <1>6, RowHas
  <2> QED
    BY <1>3, <1>6, <2>5, <2>6
<1> HIDE DEF n
<1> QED
  BY <1>1, <1>3, <1>4, <1>5, <1>6, <1>7

LEMMA FailureStep ==
  ASSUME SInv, NEW w \in Workers, NEW i \in Integrations, SyncFails(w, i)
  PROVE  SInv'
<1> SUFFICES ASSUME NEW s, s = AfterFailure(task[w].loaded[i]),
                    NEW y, y = Written(i, task[w].loaded[i], s)
             PROVE  SInv'
  OBVIOUS
<1>1. i \in Todo(w) /\ Synced(w, i, s) /\ y \in Row
  BY FailureWrites
<1>2. PICK n \in 0..MaxCount :
              /\ streak' = [streak EXCEPT ![i] = n]
              /\ i \notin raced /\ ~OutOfDate(w, i) => Agrees(y) /\ y.failures <= n
  BY FailureWrites
<1>3. raced' = Crossed(w, i)
  BY DEF SyncFails
<1>4. raced' \subseteq Integrations /\ raced \ {i} \subseteq raced'
      /\ (i \notin raced' => i \notin raced /\ ~OutOfDate(w, i))
  BY <1>3 DEF Crossed, SInv, TypeOK
<1>5. i \notin raced' =>
        /\ Agrees(y) /\ y.failures <= n
        /\ \A v \in Workers \ {w} : i \in Todo(v) => Agrees(task[v].loaded[i])
  BY <1>2, <1>4, OthersAgree
<1> QED
  BY <1>1, <1>2, <1>4, <1>5, SyncedStep

\* A step that ends or starts no count: the rows keep their counts, and what is
\* on the lists was there before or is as the table has it.
LEMMA PlainStep ==
  ASSUME SInv, TypeOK', raced' = raced,
         \A i \in Integrations : /\ row'[i].failures = row[i].failures /\ row'[i].status = row[i].status
                                 /\ streak'[i] >= streak[i],
         \A w \in Workers : \A i \in Todo(w)' :
              \/ i \in Todo(w) /\ task'[w].loaded[i] = task[w].loaded[i]
              \/ i \in Integrations /\ task'[w].loaded[i] = row[i]
  PROVE  SInv'
<1>0. TypeOK /\ \A w \in Workers : Todo(w)' \subseteq Integrations
  BY TodoHas DEF SInv
<1>1. StatusMatchesCount'
  BY DEF SInv, StatusMatchesCount
<1>2. LoadedAgree'
  <2> SUFFICES ASSUME NEW w \in Workers, NEW i \in Todo(w)', i \notin raced
               PROVE  Agrees(task'[w].loaded[i])
    BY DEF LoadedAgree, Agrees
  <2>1. i \in Integrations
    BY <1>0
  <2> QED
    BY <2>1 DEF SInv, LoadedAgree, StatusMatchesCount, Agrees
<1>3. CountsHappened'
  <2> SUFFICES ASSUME NEW i \in Integrations, i \notin raced PROVE row'[i].failures <= streak'[i]
    BY DEF CountsHappened
  <2>1. row[i].failures \in Nat /\ streak[i] \in Nat /\ streak'[i] \in Nat
    BY <1>0, RowHas, BoundsAreNaturals DEF TypeOK
  <2>2. row[i].failures <= streak[i]
    BY DEF SInv, CountsHappened
  <2> QED
    BY <2>1, <2>2
<1> QED
  BY <1>1, <1>2, <1>3 DEF SInv

LEMMA IdleHasNoRows == Idle.loaded = <<>> /\ DOMAIN Idle.loaded = {}
BY DEF Idle

\* A task that is left, or begins with the rows of the table.
LEMMA TaskStep ==
  ASSUME TypeOK, NEW w \in Workers, NEW x, task' = [task EXCEPT ![w] = x],
         \/ x = Idle
         \/ \A i \in DOMAIN x.loaded : i \in Integrations /\ x.loaded[i] = row[i]
  PROVE  \A v \in Workers : \A i \in Todo(v)' :
              \/ i \in Todo(v) /\ task'[v].loaded[i] = task[v].loaded[i]
              \/ i \in Integrations /\ task'[v].loaded[i] = row[i]
<1>1. \A v \in Workers : task'[v] = IF v = w THEN x ELSE task[v]
  BY DEF TypeOK
<1> QED
  BY <1>1, IdleHasNoRows DEF Todo

LEMMA BeginStep ==
  ASSUME SInv, NEW w \in Workers, NEW target \in Integrations \union {All}, Begin(w, target)
  PROVE  SInv'
<1>0. TypeOK
  BY DEF SInv
<1> SUFFICES ASSUME NEW x, x = [target |-> target, loaded |-> [i \in Listed(target) |-> row[i]]]
             PROVE  SInv'
  OBVIOUS
<1>1. /\ task' = [task EXCEPT ![w] = x] /\ queue' = queue \ {target}
      /\ missed' = missed \union {i \in Integrations : row[i].enabled /\ target = All}
      /\ UNCHANGED <<row, streak, raced, edits>>
  BY DEF Begin
<1>2. Listed(target) \in SUBSET Integrations /\ [i \in Listed(target) |-> row[i]] \in [Listed(target) -> Row]
  BY <1>0 DEF Listed, TypeOK
<1>3. x \in Task
  BY <1>2, TaskOf
<1>4. TypeOK'
  <2>1. task' \in [Workers -> Task \union {Idle}]
    BY <1>0, <1>1, <1>3 DEF TypeOK
  <2> QED
    BY <1>0, <1>1, <2>1 DEF TypeOK
<1>5. \A i \in DOMAIN x.loaded : i \in Integrations /\ x.loaded[i] = row[i]
  BY <1>2
<1>6. \A i \in Integrations : /\ row'[i].failures = row[i].failures /\ row'[i].status = row[i].status
                              /\ streak'[i] >= streak[i]
  BY <1>0, <1>1, BoundsAreNaturals DEF TypeOK
<1>7. \A v \in Workers : \A i \in Todo(v)' :
              \/ i \in Todo(v) /\ task'[v].loaded[i] = task[v].loaded[i]
              \/ i \in Integrations /\ task'[v].loaded[i] = row[i]
  BY <1>0, <1>1, <1>5, TaskStep
<1> QED
  BY <1>1, <1>4, <1>6, <1>7, PlainStep

\* A task that ends or goes on without a result.
LEMMA EndStep ==
  ASSUME SInv, NEW w \in Workers,
         (\E i \in Integrations : SyncIsRefused(w, i)) \/ Return(w) \/ Lose(w) \/ Kill(w)
  PROVE  SInv'
<1>0. TypeOK
  BY DEF SInv
<1>1. task' = [task EXCEPT ![w] = Idle] /\ row' = row /\ raced' = raced /\ edits' = edits
  BY DEF SyncIsRefused, Return, Lose, Kill
<1>2. \A v \in Workers : \A i \in Todo(v)' :
              \/ i \in Todo(v) /\ task'[v].loaded[i] = task[v].loaded[i]
              \/ i \in Integrations /\ task'[v].loaded[i] = row[i]
  BY <1>0, <1>1, TaskStep
<1>3. task' \in [Workers -> Task \union {Idle}]
  BY <1>0, <1>1 DEF TypeOK
<1>4. ASSUME NEW i \in Integrations, SyncIsRefused(w, i)
      PROVE  TypeOK' /\ \A j \in Integrations : streak'[j] >= streak[j]
  <2>1. streak' = Longer(i) /\ missed' = missed \ {i} /\ UNCHANGED queue
    BY <1>4 DEF SyncIsRefused
  <2>2. streak[i] \in 0..MaxCount /\ MaxCount \in Nat
    BY <1>0, BoundsAreNaturals DEF TypeOK
  <2>3. streak' = streak \/ (streak[i] < MaxCount /\ streak' = [streak EXCEPT ![i] = streak[i] + 1])
    BY <2>1 DEF Longer
  <2>4. streak' \in [Integrations -> 0..MaxCount]
    BY <1>0, <2>2, <2>3 DEF TypeOK
  <2>5. \A j \in Integrations : streak'[j] >= streak[j]
    BY <1>0, <2>2, <2>3 DEF TypeOK
  <2> QED
    BY <1>0, <1>1, <1>3, <2>1, <2>4, <2>5 DEF TypeOK
<1>5. CASE Return(w) \/ Lose(w) \/ Kill(w)
  <2>1. streak' = streak /\ missed' = missed
    BY <1>5 DEF Return, Lose, Kill
  <2>2. queue' \subseteq Integrations \union {All}
    <3>1. task[w] # Idle => task[w].target \in Integrations \union {All}
      BY <1>0 DEF TypeOK, Task
    <3> QED
      BY <1>0, <1>5, <3>1 DEF Return, Lose, Kill, TypeOK
  <2>3. TypeOK'
    BY <1>0, <1>1, <1>3, <2>1, <2>2 DEF TypeOK
  <2>4. \A j \in Integrations : streak'[j] >= streak[j]
    BY <1>0, <2>1, BoundsAreNaturals DEF TypeOK
  <2> QED
    BY <1>1, <1>2, <2>3, <2>4, PlainStep
<1> QED
  BY <1>1, <1>2, <1>4, <1>5, PlainStep

\* What administrators do.
LEMMA EditStep ==
  ASSUME SInv, NEW i \in Integrations, RunNow(i) \/ \E b \in BOOLEAN : SetEnabled(i, b)
  PROVE  SInv'
<1>0. TypeOK
  BY DEF SInv
<1>1. task' = task /\ streak' = streak /\ raced' = raced
      /\ edits < MaxEdits /\ edits' = edits + 1
  BY DEF RunNow, SetEnabled
<1>2. PICK b \in BOOLEAN : row' = row \/ row' = [row EXCEPT ![i].enabled = b]
  BY DEF RunNow, SetEnabled
<1>3. \A j \in Integrations : /\ row'[j].failures = row[j].failures /\ row'[j].status = row[j].status
                              /\ row'[j] \in Row
  <2>1. \A j \in Integrations : row'[j] = row[j] \/ row'[j] = [row[j] EXCEPT !.enabled = b]
    BY <1>0, <1>2 DEF TypeOK
  <2>2. \A j \in Integrations : row[j] \in Row
    BY <1>0 DEF TypeOK
  <2> QED
    BY <2>1, <2>2 DEF Row
<1>4. row' \in [Integrations -> Row]
  BY <1>0, <1>2, <1>3 DEF TypeOK
<1>5. queue' \subseteq Integrations \union {All} /\ missed' \subseteq Integrations
  BY <1>0 DEF RunNow, SetEnabled, TypeOK
<1>6. edits' \in 0..MaxEdits
  BY <1>0, <1>1, BoundsAreNaturals DEF TypeOK
<1>7. TypeOK'
  BY <1>0, <1>1, <1>4, <1>5, <1>6 DEF TypeOK
<1>8. \A j \in Integrations : streak'[j] >= streak[j]
  BY <1>0, <1>1, BoundsAreNaturals DEF TypeOK
<1>9. \A w \in Workers : \A j \in Todo(w)' : j \in Todo(w) /\ task'[w].loaded[j] = task[w].loaded[j]
  BY <1>1 DEF Todo
<1> QED
  BY <1>1, <1>3, <1>7, <1>8, <1>9, PlainStep

-----------------------------------------------------------------------------
(* The theorems.                                                           *)

LEMMA SyncsHold == Spec => []SInv
<1>1. Init => SInv
  <2> SUFFICES ASSUME Init PROVE SInv
    OBVIOUS
  <2>1. \A w \in Workers : Todo(w) = {}
    BY IdleHasNoRows DEF Init, Todo
  <2>2. TypeOK
    BY BoundsAreNaturals DEF Init, TypeOK, Row, Status
  <2> QED
    BY <2>1, <2>2 DEF Init, SInv, StatusMatchesCount, LoadedAgree, CountsHappened
<1>2. SInv /\ [Next]_vars => SInv'
  <2> SUFFICES ASSUME SInv, [Next]_vars PROVE SInv'
    OBVIOUS
  <2>1. CASE UNCHANGED vars
    BY <2>1 DEF vars, SInv, TypeOK, StatusMatchesCount, LoadedAgree, CountsHappened, Todo, Agrees
  <2> QED
    BY <2>1, BeginStep, SuccessStep, FailureStep, EndStep, EditStep DEF Next, Work
<1> QED
  BY <1>1, <1>2, PTL DEF Spec

\* The table, the lists of the syncs and the history keep their types.
THEOREM SyncTypeCorrect == Spec => []TypeOK
<1>1. SInv => TypeOK
  BY DEF SInv
<1> QED
  BY <1>1, SyncsHold, PTL

\* A connector that is reported as failed has a failure counted, and one that is
\* reported as successful has none, unless syncs counted from one row at the same
\* time and none that had the row to itself has succeeded since.
THEOREM StatusIsOfTheCount == Spec => []StatusMatchesCount
<1>1. SInv => StatusMatchesCount
  BY DEF SInv
<1> QED
  BY <1>1, SyncsHold, PTL

\* A sync disables a connector only when Limit syncs in a row have failed, with
\* the same excuse.
THEOREM DisablingHasCause == Spec => DisabledForCause
<1>1. SInv /\ [Next]_vars =>
        [\A i \in Integrations \ raced' :
           row[i].enabled /\ ~row'[i].enabled /\ edits' = edits => streak'[i] >= Limit]_vars
  <2> SUFFICES ASSUME SInv, Next, NEW i \in Integrations \ raced', row[i].enabled, ~row'[i].enabled,
                      edits' = edits
               PROVE  streak'[i] >= Limit
    BY DEF vars
  <2>0. TypeOK
    BY DEF SInv
  <2>1. ASSUME NEW w \in Workers, NEW j \in Integrations, SyncFails(w, j) PROVE streak'[i] >= Limit
    <3> SUFFICES ASSUME NEW y, y = Written(j, task[w].loaded[j], AfterFailure(task[w].loaded[j]))
                 PROVE  streak'[i] >= Limit
      OBVIOUS
    <3>1. PICK n \in 0..MaxCount :
             /\ streak' = [streak EXCEPT ![j] = n] /\ row'[j] = y
             /\ j \in Todo(w) /\ Synced(w, j, AfterFailure(task[w].loaded[j]))
             /\ j \notin raced /\ ~OutOfDate(w, j) => (row[j].enabled /\ ~y.enabled => Limit <= n)
      BY <2>1, FailureWrites
    <3>2. i = j
      BY <2>0, <3>1 DEF Synced, TypeOK
    <3>3. i \notin raced /\ ~OutOfDate(w, j)
      BY <2>1, <3>2 DEF SyncFails, Crossed
    <3> QED
      BY <2>0, <3>1, <3>2, <3>3, BoundsAreNaturals, LimitIsPositive DEF TypeOK
  <2>2. ASSUME NEW w \in Workers, NEW j \in Integrations, SyncSucceeds(w, j) PROVE FALSE
    <3>1. j \in Todo(w) /\ Synced(w, j, AfterSuccess(task[w].loaded[j]))
      BY <2>2 DEF SyncSucceeds
    <3> SUFFICES ASSUME NEW r \in Row, r = task[w].loaded[j], NEW s, s = AfterSuccess(r),
                        NEW y, y = Written(j, r, s)
                 PROVE  FALSE
      BY <2>0, <3>1, TodoHas
    <3>2. row' = [row EXCEPT ![j] = y]
      BY <3>1 DEF Synced
    <3>3. s \in Row /\ s.enabled = r.enabled
      <4>1. 0 \in 0..MaxCount /\ "success" \in Status
        BY BoundsAreNaturals DEF Status
      <4> QED
        BY <4>1 DEF AfterSuccess, Row
    <3>4. y.enabled = row[j].enabled
      BY <2>0, <3>3, WrittenHas
    <3> QED
      BY <2>0, <3>2, <3>4 DEF TypeOK
  <2>3. CASE \/ \E w \in Workers, target \in Integrations \union {All} : Begin(w, target)
             \/ \E w \in Workers, j \in Integrations : SyncIsRefused(w, j)
             \/ \E w \in Workers : Return(w) \/ Lose(w) \/ Kill(w)
    BY <2>3 DEF Begin, SyncIsRefused, Return, Lose, Kill
  <2>4. CASE \E j \in Integrations : RunNow(j) \/ \E b \in BOOLEAN : SetEnabled(j, b)
    BY <2>0, <2>4, BoundsAreNaturals DEF RunNow, SetEnabled, TypeOK
  <2> QED
    BY <2>1, <2>2, <2>3, <2>4 DEF Next, Work
<1> QED
  BY <1>1, SyncsHold, PTL DEF Spec, DisabledForCause

=============================================================================
