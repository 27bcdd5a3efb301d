------------------------- MODULE ComplianceAuditProofs -------------------------
(***************************************************************************)
(* Overlapping audits, for any assets, controls, postures and workers.     *)
(***************************************************************************)
EXTENDS ComplianceAudit, FiniteSetTheorems, WellFoundedInduction, TLAPS

\* Audits that hold a row of k, and those of them that will raise an alert for k; and audits
\* that will insert a row of k.
Holding(k) ==
  {w \in Workers : job[w].phase = "judging" /\ job[w].found[k] # Unseen /\ job[w].row[k] # 0}
Raising(k) == {w \in Holding(k) : k \in Raised(w)}
Inserting(k) == {w \in Workers : job[w].phase = "judging" /\ job[w].row[k] = 0}

\* A row that an audit has read still exists.
RowsExist ==
  \A w \in Workers, k \in Keys :
    job[w].phase = "judging" /\ job[w].row[k] # 0 => job[w].row[k] \in Rows(k)

\* No two audits hold one row.
RowsAreLocked ==
  \A k \in Keys : \A v, w \in Holding(k) : v # w => job[v].row[k] # job[w].row[k]

\* A row is inserted once by each of the workers that had found none.
InsertsFit ==
  \A k \in Keys : Cardinality(Rows(k)) + Cardinality(Inserting(k)) <= Cardinality(Workers)

\* An open alert, or the intent of one, takes a row of its own.
AlertsFit ==
  \A k \in Keys : Cardinality(alert[k]) + Cardinality(Raising(k)) <= Cardinality(Rows(k))

IAlerts == TypeOK /\ RowsExist /\ RowsAreLocked /\ InsertsFit /\ AlertsFit

\* An audit that is alone still has before it what it has read.
AloneSeesAll ==
  \A w \in Workers : job[w] # Idle /\ job[w].alone =>
    /\ ~job[w].overtaken
    /\ \A v \in Workers \ {w} : job[v] = Idle
    /\ job[w].phase = "judging" => \A k \in Keys :
         IF job[w].row[k] = 0 THEN Rows(k) = {}
         ELSE job[w].loaded[k] = mapping[k][job[w].row[k]].status

\* The results of k that are newest, those committed last, and the row of k agree.
Agrees(k) ==
  /\ latest[k] \in Statuses /\ lineage[k] = latest[k] /\ Rows(k) # {}
  /\ \A i \in Copies :
       Rows(k) = {i} => mapping[k][i].status = latest[k] /\ mapping[k][i].cited = latest[k]

SettledAgrees ==
  settled => \/ \A k \in Keys : latest[k] = Unseen /\ Rows(k) = {}
             \/ \A k \in Keys : Agrees(k)

IViews == IAlerts /\ AloneSeesAll /\ SettledAgrees

-----------------------------------------------------------------------------
(* Statuses, rows, copies and what the record of an audit holds.           *)

LEMMA AssessIsStatus ==
  ASSUME NEW posture, NEW c
  PROVE  Assess(posture, c) \in Statuses /\ Assess(posture, c) # Unseen
BY DEF Assess, Statuses, Unseen

LEMMA UnseenIsNoStatus == Unseen \notin Statuses
BY DEF Unseen, Statuses

LEMMA IdleIsNoAudit ==
  /\ Idle \notin Audit /\ Idle.phase = "idle"
  /\ \A j \in Audit : j # Idle /\ j.phase \in {"reading", "judging"}
<1>1. \A j \in Audit : j.phase \in {"reading", "judging"}
  BY DEF Audit
<1>2. Idle.phase = "idle"
  BY DEF Idle
<1> QED
  BY <1>1, <1>2

LEMMA RowIsRow ==
  /\ NoRow \notin Row
  /\ \A x, y \in Statuses : [status |-> x, cited |-> y] \in Row
<1>1. "cited" \notin DOMAIN NoRow
  BY DEF NoRow
<1>2. \A row \in Row : "cited" \in DOMAIN row
  BY DEF Row
<1> QED
  BY <1>1, <1>2 DEF Row

\* The audits that judge have all the fields of one.
LEMMA JudgingHas ==
  ASSUME NEW j \in Audit, j.phase = "judging"
  PROVE  /\ j.seen \in Inventories /\ j.before \in SUBSET Workers
         /\ j.overtaken \in BOOLEAN /\ j.alone \in BOOLEAN
         /\ j.row \in [Keys -> Copies \union {0}] /\ j.unsent \in Keys \union {<<>>}
         /\ j.loaded \in [Keys -> Statuses \union {Unseen}]
         /\ j.found \in [Keys -> Statuses \union {Unseen}]
         /\ j.touched \in [Keys -> SUBSET Copies]
BY DEF Audit

LEMMA JudgingIsAudit ==
  ASSUME NEW seen \in Inventories, NEW before \in SUBSET Workers, NEW overtaken \in BOOLEAN,
         NEW alone \in BOOLEAN, NEW row \in [Keys -> Copies \union {0}],
         NEW unsent \in Keys \union {<<>>}, NEW loaded \in [Keys -> Statuses \union {Unseen}],
         NEW found \in [Keys -> Statuses \union {Unseen}], NEW touched \in [Keys -> SUBSET Copies]
  PROVE  [phase |-> "judging", seen |-> seen, before |-> before, overtaken |-> overtaken,
          alone |-> alone, row |-> row, unsent |-> unsent, loaded |-> loaded, found |-> found,
          touched |-> touched] \in Audit
BY DEF Audit

\* What the beginning of another audit changes of an audit, and what its end does.
LEMMA NoLongerAlone ==
  ASSUME NEW j \in Audit, NEW r, r = [j EXCEPT !.alone = FALSE]
  PROVE  /\ r \in Audit /\ r.phase = j.phase /\ r.alone = FALSE
         /\ j.phase = "judging" => /\ r.row = j.row /\ r.found = j.found /\ r.touched = j.touched
                                   /\ r.loaded = j.loaded /\ r.unsent = j.unsent
BY DEF Audit

LEMMA AnotherEnded ==
  ASSUME TypeOK, NEW w \in Workers, NEW v \in Workers, v # w, job[v] # Idle, NEW committed \in BOOLEAN,
         NEW r, r = After(w, v, committed)
  PROVE  /\ r \in Audit /\ r.phase = job[v].phase /\ r.alone = job[v].alone
         /\ job[v].phase = "judging" => /\ r.row = job[v].row /\ r.found = job[v].found
                                        /\ r.touched = job[v].touched /\ r.loaded = job[v].loaded
<1>1. PICK j \in Audit : j = job[v]
  BY DEF TypeOK
<1> DEFINE before == j.before \ {w}
           overtaken == j.overtaken \/ (committed /\ v \in job[w].before)
<1>2. r = [j EXCEPT !.before = before, !.overtaken = overtaken]
  BY <1>1 DEF After
<1>3. before \in SUBSET Workers /\ overtaken \in BOOLEAN
  BY DEF Audit
<1> HIDE DEF before, overtaken
<1>4. /\ r \in Audit /\ r.phase = j.phase /\ r.alone = j.alone
      /\ j.phase = "judging" => /\ r.row = j.row /\ r.found = j.found
                                /\ r.touched = j.touched /\ r.loaded = j.loaded
  BY <1>2, <1>3 DEF Audit
<1> QED
  BY <1>1, <1>4

\* After the end of an audit: its worker is idle, and the others go on as they were.
LEMMA AfterEnd ==
  ASSUME TypeOK, NEW w \in Workers, NEW committed \in BOOLEAN,
         job' = [v \in Workers |-> After(w, v, committed)]
  PROVE  /\ job' \in [Workers -> Audit \union {Idle}]
         /\ job'[w] = Idle
         /\ \A v \in Workers : job[v] = Idle => job'[v] = Idle
         /\ \A v \in Workers \ {w} : job[v] # Idle =>
              job'[v] # Idle /\ job'[v].phase = job[v].phase /\ job'[v].alone = job[v].alone
         /\ \A v \in Workers \ {w} : job[v].phase = "judging" =>
              /\ job'[v].row = job[v].row /\ job'[v].found = job[v].found
              /\ job'[v].touched = job[v].touched /\ job'[v].loaded = job[v].loaded
<1>1. job'[w] = Idle /\ \A v \in Workers : job[v] = Idle => job'[v] = Idle
  BY DEF After
<1>2. ASSUME NEW v \in Workers, v # w, job[v] # Idle
      PROVE  /\ job'[v] \in Audit /\ job'[v].phase = job[v].phase /\ job'[v].alone = job[v].alone
             /\ job[v].phase = "judging" =>
                  /\ job'[v].row = job[v].row /\ job'[v].found = job[v].found
                  /\ job'[v].touched = job[v].touched /\ job'[v].loaded = job[v].loaded
  <2>1. job'[v] = After(w, v, committed)
    OBVIOUS
  <2> QED
    BY <1>2, <2>1, AnotherEnded
<1>3. \A v \in Workers : job'[v] \in Audit \union {Idle}
  BY <1>1, <1>2
<1>4. job' \in [Workers -> Audit \union {Idle}]
  BY <1>3
<1>5. \A v \in Workers \ {w} : job[v] # Idle => job'[v] # Idle
  BY <1>2, IdleIsNoAudit
<1>6. \A v \in Workers : job[v].phase = "judging" => job[v] # Idle
  BY IdleIsNoAudit
<1> QED
  BY <1>1, <1>2, <1>4, <1>5, <1>6

LEMMA CopiesAre == MaxCopies \in Nat /\ Copies = 1..MaxCopies /\ IsFiniteSet(Copies) /\ Cardinality(Copies) = MaxCopies
<1>1. MaxCopies \in Nat
  BY EachWorkerMayInsert
<1>2. 1 \in Int /\ MaxCopies \in Int
  BY <1>1
<1>3. IsFiniteSet(1..MaxCopies) /\ Cardinality(1..MaxCopies) = IF 1 > MaxCopies THEN 0 ELSE MaxCopies - 1 + 1
  BY <1>2, FS_Interval
<1> QED
  BY <1>1, <1>3 DEF Copies

\* The first of some copies is one of them.
LEMMA FirstIsCopy ==
  ASSUME NEW S, S \subseteq Copies, S # {}
  PROVE  First(S) \in S
<1>1. S \subseteq Nat
  BY CopiesAre
<1>2. PICK n \in S : \A m \in S : <<m, n>> \notin OpToRel(<, Nat)
  <2> DEFINE Less == OpToRel(<, Nat)
  <2>1. IsWellFoundedOn(Less, Nat)
    BY NatLessThanWellFounded
  <2> HIDE DEF Less
  <2>2. \E n \in S : \A m \in S : <<m, n>> \notin Less
    BY <1>1, <2>1, WFMin, Zenon
  <2> QED
    BY <2>2 DEF Less
<1>3. \A m \in S : ~(m < n)
  BY <1>1, <1>2 DEF OpToRel
<1>4. \A m \in S : n <= m
  BY <1>1, <1>3
<1> QED
  BY <1>4 DEF First

LEMMA FiniteCounts ==
  ASSUME TypeOK
  PROVE  /\ \A k \in Keys : /\ Rows(k) \subseteq Copies /\ IsFiniteSet(Rows(k))
                            /\ alert[k] \subseteq Copies /\ IsFiniteSet(alert[k])
         /\ \A S \in SUBSET Workers : /\ IsFiniteSet(S) /\ Cardinality(S) \in Nat
                                      /\ Cardinality(S) <= Cardinality(Workers)
         /\ \A S \in SUBSET Copies : IsFiniteSet(S) /\ Cardinality(S) \in Nat
<1>1. \A S \in SUBSET Copies : IsFiniteSet(S) /\ Cardinality(S) \in Nat
  BY CopiesAre, FS_Subset, FS_CardinalityType
<1>2. \A k \in Keys : Rows(k) \subseteq Copies /\ alert[k] \subseteq Copies
  BY DEF TypeOK, Rows
<1>3. IsFiniteSet(Workers)
  BY ManyAreFinite
<1>4. \A S \in SUBSET Workers : /\ IsFiniteSet(S) /\ Cardinality(S) \in Nat
                                /\ Cardinality(S) <= Cardinality(Workers)
  BY <1>3, FS_Subset, FS_CardinalityType
<1> QED
  BY <1>1, <1>2, <1>4

LEMMA OnlyOthersJudge ==
  ASSUME TypeOK, NEW w \in Workers, NEW committed \in BOOLEAN,
         job' = [v \in Workers |-> After(w, v, committed)]
  PROVE  \A v \in Workers : job'[v].phase = "judging" =>
           /\ v # w /\ job[v].phase = "judging" /\ job'[v].row = job[v].row
           /\ job'[v].found = job[v].found /\ job'[v].touched = job[v].touched
<1> SUFFICES ASSUME NEW v \in Workers, job'[v].phase = "judging"
             PROVE  /\ v # w /\ job[v].phase = "judging" /\ job'[v].row = job[v].row
                    /\ job'[v].found = job[v].found /\ job'[v].touched = job[v].touched
  OBVIOUS
<1>1. job'[v] # Idle
  BY IdleIsNoAudit
<1>2. v # w /\ job[v] # Idle
  BY <1>1, AfterEnd
<1>3. job'[v].phase = job[v].phase
  BY <1>2, AfterEnd
<1> QED
  BY <1>2, <1>3, AfterEnd

-----------------------------------------------------------------------------
(* Types.                                                                  *)

LEMMA RaisedIsKeys ==
  ASSUME NEW w
  PROVE  \A k \in Raised(w) : k \in Keys /\ job[w].found[k] # "compliant" /\ k[1] \in Critical
                              /\ job[w].touched[k] = {}
BY DEF Raised

\* An audit that judges k.
LEMMA JudgedAudit ==
  ASSUME TypeOK, NEW w \in Workers, NEW k \in Keys, Judge(w, k)
  PROVE  LET status == Assess(job[w].seen[k[1]], k[2]) IN
         /\ status \in Statuses
         /\ job' \in [Workers -> Audit \union {Idle}]
         /\ \A v \in Workers \ {w} : job'[v] = job[v]
         /\ job[w] \in Audit /\ job'[w].phase = "judging" /\ job[w].phase = "judging"
         /\ job'[w].row = job[w].row /\ job'[w].loaded = job[w].loaded
         /\ job'[w].alone = job[w].alone /\ job'[w].overtaken = job[w].overtaken
         /\ job'[w].found = [job[w].found EXCEPT ![k] = status]
         /\ \A other \in Keys : other # k => job'[w].touched[other] = job[w].touched[other]
         /\ job'[w].touched[k] \subseteq alert[k]
         /\ status = "compliant" => job'[w].touched[k] = alert[k]
         /\ status # "compliant" /\ k[1] \in Critical /\ alert[k] # {} => job'[w].touched[k] # {}
<1> DEFINE status == Assess(job[w].seen[k[1]], k[2])
<1>0. status \in Statuses
  BY AssessIsStatus
<1> HIDE DEF status
<1>1. PICK touched \in SUBSET alert[k] :
        /\ CASE status = "compliant" -> touched = alert[k]
             [] status # "compliant" /\ k[1] \in Critical /\ alert[k] # {} -> Cardinality(touched) = 1
             [] OTHER -> touched = {}
        /\ job' = [job EXCEPT ![w].found[k] = status, ![w].touched[k] = touched, ![w].unsent = k]
  BY Zenon DEF Judge, status
<1>2. PICK j \in Audit : j = job[w] /\ j.phase = "judging"
  BY IdleIsNoAudit DEF TypeOK, Judge
<1>3. /\ j.found \in [Keys -> Statuses \union {Unseen}] /\ j.touched \in [Keys -> SUBSET Copies]
      /\ j.unsent \in Keys \union {<<>>} /\ j.seen \in Inventories /\ j.before \in SUBSET Workers
      /\ j.overtaken \in BOOLEAN /\ j.alone \in BOOLEAN /\ j.row \in [Keys -> Copies \union {0}]
      /\ j.loaded \in [Keys -> Statuses \union {Unseen}]
  BY <1>2, JudgingHas
<1>4. touched \subseteq Copies
  BY FiniteCounts
<1>5. PICK r : r = [[[j EXCEPT !.found = [j.found EXCEPT ![k] = status]]
                       EXCEPT !.touched = [j.touched EXCEPT ![k] = touched]] EXCEPT !.unsent = k]
  OBVIOUS
<1>6. job'[w] = r /\ \A v \in Workers \ {w} : job'[v] = job[v]
  BY <1>1, <1>2, <1>5 DEF TypeOK
<1>7. DOMAIN j = {"phase", "seen", "before", "overtaken", "alone", "row", "unsent", "loaded", "found", "touched"}
  BY <1>2 DEF Audit
<1>8. /\ r.phase = "judging" /\ r.row = j.row /\ r.loaded = j.loaded /\ r.alone = j.alone
      /\ r.overtaken = j.overtaken /\ r.seen = j.seen /\ r.before = j.before /\ r.unsent = k
      /\ r.found = [j.found EXCEPT ![k] = status] /\ r.touched = [j.touched EXCEPT ![k] = touched]
  BY <1>2, <1>5, <1>7
<1>9. r.found \in [Keys -> Statuses \union {Unseen}] /\ r.touched \in [Keys -> SUBSET Copies]
  BY <1>0, <1>3, <1>4, <1>8
<1>10. r \in Audit
  <2>1. r = [phase |-> "judging", seen |-> j.seen, before |-> j.before, overtaken |-> j.overtaken,
             alone |-> j.alone, row |-> j.row, unsent |-> k, loaded |-> j.loaded, found |-> r.found,
             touched |-> r.touched]
    BY <1>5, <1>7, <1>8
  <2> QED
    BY <1>3, <1>9, <2>1 DEF Audit
<1>11. job' \in [Workers -> Audit \union {Idle}]
  BY <1>1, <1>6, <1>10 DEF TypeOK
<1>12. (status # "compliant" /\ k[1] \in Critical /\ alert[k] # {}) => touched # {}
  <2>1. Cardinality({}) # 1
    BY FS_EmptySet
  <2> QED
    BY <1>1, <2>1
<1>13. status = "compliant" => touched = alert[k]
  BY <1>1
<1>14. r.touched[k] = touched /\ \A other \in Keys : other # k => r.touched[other] = j.touched[other]
  BY <1>3, <1>8
<1> QED
  BY <1>0, <1>2, <1>6, <1>8, <1>11, <1>12, <1>13, <1>14 DEF status

\* An audit that begins.
LEMMA BegunAudit ==
  ASSUME TypeOK, NEW w \in Workers, Begin(w)
  PROVE  /\ job' \in [Workers -> Audit \union {Idle}]
         /\ job[w] = Idle /\ job'[w].phase = "reading" /\ job'[w].overtaken = FALSE
         /\ job'[w].alone <=> Active = {}
         /\ \A v \in Workers : v # w /\ job[v] = Idle => job'[v] = Idle
         /\ \A v \in Workers : v # w /\ job[v] # Idle =>
              /\ job'[v].phase = job[v].phase /\ job'[v].alone = FALSE
              /\ job[v].phase = "judging" =>
                   /\ job'[v].row = job[v].row /\ job'[v].found = job[v].found
                   /\ job'[v].touched = job[v].touched /\ job'[v].loaded = job[v].loaded
<1>1. PICK r : r = [phase |-> "reading", seen |-> asset, before |-> Active, overtaken |-> FALSE,
                    alone |-> Active = {}]
  OBVIOUS
<1>2. /\ \A v \in Workers : v # w /\ job[v] # Idle => job'[v] = [job[v] EXCEPT !.alone = FALSE]
      /\ \A v \in Workers : v # w /\ job[v] = Idle => job'[v] = Idle
      /\ job'[w] = r /\ DOMAIN job' = Workers /\ job[w] = Idle
      /\ job' = [v \in Workers |-> job'[v]]
  BY <1>1 DEF Begin
<1>3. r \in Audit
  <2>1. asset \in Inventories /\ Active \in SUBSET Workers /\ (Active = {}) \in BOOLEAN
    BY DEF TypeOK, Active
  <2> QED
    BY <1>1, <2>1 DEF Audit
<1>4. ASSUME NEW v \in Workers, v # w, job[v] # Idle
      PROVE  /\ job'[v] \in Audit
             /\ job'[v].phase = job[v].phase /\ job'[v].alone = FALSE
             /\ job[v].phase = "judging" =>
                  /\ job'[v].row = job[v].row /\ job'[v].found = job[v].found
                  /\ job'[v].touched = job[v].touched /\ job'[v].loaded = job[v].loaded
  <2>1. PICK j \in Audit : j = job[v]
    BY <1>4 DEF TypeOK
  <2>2. job'[v] = [j EXCEPT !.alone = FALSE]
    BY <1>2, <1>4, <2>1
  <2> QED
    BY <2>1, <2>2, NoLongerAlone
<1>5. \A v \in Workers : job'[v] \in Audit \union {Idle}
  BY <1>2, <1>3, <1>4
<1>6. job' \in [Workers -> Audit \union {Idle}]
  BY <1>2, <1>5
<1>7. r.phase = "reading" /\ r.overtaken = FALSE /\ (r.alone <=> Active = {})
  BY <1>1
<1> QED
  BY <1>2, <1>4, <1>6, <1>7

\* An audit that reads the mappings.
LEMMA ReadAudit ==
  ASSUME TypeOK, NEW w \in Workers, ReadMappings(w)
  PROVE  /\ job' \in [Workers -> Audit \union {Idle}]
         /\ \A v \in Workers \ {w} : job'[v] = job[v]
         /\ job[w] \in Audit /\ job[w].phase = "reading" /\ job'[w].phase = "judging"
         /\ job'[w].alone = job[w].alone /\ job'[w].overtaken = job[w].overtaken
         /\ \A k \in Keys :
              /\ job'[w].row[k] \in (IF Rows(k) = {} THEN {0} ELSE Rows(k))
              /\ job'[w].row[k] # 0 => job'[w].loaded[k] = mapping[k][job'[w].row[k]].status
              /\ job'[w].found[k] = Unseen /\ job'[w].touched[k] = {}
<1>1. PICK j \in Audit : j = job[w] /\ j.phase = "reading"
  BY IdleIsNoAudit DEF TypeOK, ReadMappings
<1>2. /\ j.seen \in Inventories /\ j.before \in SUBSET Workers /\ j.overtaken \in BOOLEAN
      /\ j.alone \in BOOLEAN
  BY DEF Audit
<1> DEFINE Loaded(row) == [k \in Keys |-> IF row[k] = 0 THEN Unseen ELSE mapping[k][row[k]].status]
           found == [k \in Keys |-> Unseen]
           touched == [k \in Keys |-> {}]
<1>3. PICK row \in [Keys -> Copies \union {0}] :
        /\ \A k \in Keys : row[k] \in (IF Rows(k) = {} THEN {0} ELSE Rows(k))
        /\ job' = [job EXCEPT ![w] =
             [phase |-> "judging", seen |-> j.seen, before |-> j.before, overtaken |-> j.overtaken,
              alone |-> j.alone, row |-> row, unsent |-> <<>>, loaded |-> Loaded(row),
              found |-> found, touched |-> touched]]
  BY <1>1 DEF ReadMappings
<1>4. Loaded(row) \in [Keys -> Statuses \union {Unseen}]
  <2>1. ASSUME NEW k \in Keys, row[k] # 0
        PROVE  mapping[k][row[k]].status \in Statuses
    <3>1. row[k] \in Rows(k)
      BY <1>3, <2>1
    <3>2. mapping[k][row[k]] \in Row
      BY <3>1 DEF Rows, TypeOK
    <3> QED
      BY <3>2 DEF Row
  <2> QED
    BY <2>1
<1>5. found \in [Keys -> Statuses \union {Unseen}] /\ touched \in [Keys -> SUBSET Copies]
  OBVIOUS
<1>6. PICK loaded : loaded = Loaded(row)
  OBVIOUS
<1>7. PICK r : r = [phase |-> "judging", seen |-> j.seen, before |-> j.before,
                    overtaken |-> j.overtaken, alone |-> j.alone, row |-> row, unsent |-> <<>>,
                    loaded |-> loaded, found |-> found, touched |-> touched]
  OBVIOUS
<1>8. job'[w] = r /\ \A v \in Workers \ {w} : job'[v] = job[v]
  BY <1>3, <1>6, <1>7 DEF TypeOK
<1>9. \A k \in Keys : /\ row[k] # 0 => loaded[k] = mapping[k][row[k]].status
                      /\ found[k] = Unseen /\ touched[k] = {}
  BY <1>6
<1>10. loaded \in [Keys -> Statuses \union {Unseen}]
  BY <1>4, <1>6
<1> HIDE DEF found, touched, Loaded
<1>11. r \in Audit
  BY <1>2, <1>5, <1>7, <1>10 DEF Audit
<1>12. job' \in [Workers -> Audit \union {Idle}]
  BY <1>3, <1>6, <1>7, <1>11 DEF TypeOK
<1>13. /\ r.phase = "judging" /\ r.alone = j.alone /\ r.overtaken = j.overtaken /\ r.row = row
       /\ r.loaded = loaded /\ r.found = found /\ r.touched = touched
  BY <1>7
<1> QED
  BY <1>1, <1>3, <1>8, <1>9, <1>12, <1>13

\* What the commit of an audit does to the rows and the alerts of k.
LEMMA RowWritten ==
  ASSUME IAlerts, NEW w \in Workers, Commit(w), NEW k \in Keys, job[w].row[k] # 0
  PROVE  /\ mapping'[k] \in [Copies -> Row \union {NoRow}]
         /\ Rows(k)' = Rows(k) /\ job[w].row[k] \in Rows(k)
         /\ mapping'[k][job[w].row[k]].cited = job[w].found[k]
         /\ mapping'[k][job[w].row[k]].status =
              IF job[w].found[k] # job[w].loaded[k] THEN job[w].found[k]
              ELSE mapping[k][job[w].row[k]].status
<1> DEFINE i == job[w].row[k]
           written == Written(mapping[k][i], job[w].loaded[k], job[w].found[k])
<1>1. mapping' = [other \in Keys |->
        IF job[w].row[other] # 0
          THEN [mapping[other] EXCEPT ![job[w].row[other]] =
                  Written(@, job[w].loaded[other], job[w].found[other])]
          ELSE [mapping[other] EXCEPT ![First(Copies \ Rows(other))] =
                  [status |-> job[w].found[other], cited |-> job[w].found[other]]]]
  BY DEF Commit
<1>2. i \in Rows(k) /\ i \in Copies /\ mapping[k] \in [Copies -> Row \union {NoRow}]
      /\ mapping[k][i] \in Row
  BY DEF Commit, IAlerts, RowsExist, Rows, TypeOK
<1>3. mapping'[k] = [mapping[k] EXCEPT ![i] = written]
  BY <1>1
<1>4. job[w].found[k] \in Statuses
  <2>1. job[w] \in Audit /\ job[w].phase = "judging" /\ job[w].found[k] # Unseen
    BY IdleIsNoAudit DEF Commit, IAlerts, TypeOK
  <2> QED
    BY <2>1, JudgingHas
<1>5. written \in Row /\ written.cited = job[w].found[k]
      /\ written.status = IF job[w].found[k] # job[w].loaded[k] THEN job[w].found[k]
                          ELSE mapping[k][i].status
  BY <1>2, <1>4 DEF Written, Row
<1> HIDE DEF i, written
<1>6. mapping'[k] \in [Copies -> Row \union {NoRow}] /\ mapping'[k][i] = written
      /\ \A other \in Copies : other # i => mapping'[k][other] = mapping[k][other]
  BY <1>2, <1>3, <1>5
<1>7. Rows(k)' = Rows(k)
  BY <1>2, <1>5, <1>6, RowIsRow DEF Rows
<1> QED
  BY <1>2, <1>5, <1>6, <1>7 DEF i

LEMMA RowInserted ==
  ASSUME IAlerts, NEW w \in Workers, Commit(w), NEW k \in Keys, job[w].row[k] = 0
  PROVE  /\ mapping'[k] \in [Copies -> Row \union {NoRow}]
         /\ \E i \in Copies \ Rows(k) : /\ Rows(k)' = Rows(k) \union {i}
                                        /\ mapping'[k][i].status = job[w].found[k]
                                        /\ mapping'[k][i].cited = job[w].found[k]
<1>1. PICK i : i = First(Copies \ Rows(k))
  OBVIOUS
<1>2. mapping' = [other \in Keys |->
        IF job[w].row[other] # 0
          THEN [mapping[other] EXCEPT ![job[w].row[other]] =
                  Written(@, job[w].loaded[other], job[w].found[other])]
          ELSE [mapping[other] EXCEPT ![First(Copies \ Rows(other))] =
                  [status |-> job[w].found[other], cited |-> job[w].found[other]]]]
  BY DEF Commit
<1>3. PICK written : written = [status |-> job[w].found[k], cited |-> job[w].found[k]]
  OBVIOUS
<1>4. mapping'[k] = [mapping[k] EXCEPT ![i] = written]
  BY <1>1, <1>2, <1>3
<1>5. job[w].found[k] \in Statuses
  <2>1. job[w] \in Audit /\ job[w].phase = "judging" /\ job[w].found[k] # Unseen
    BY IdleIsNoAudit DEF Commit, IAlerts, TypeOK
  <2> QED
    BY <2>1, JudgingHas
<1>6. Copies \ Rows(k) # {}
  <2>1. Cardinality(Rows(k)) + Cardinality(Inserting(k)) <= Cardinality(Workers)
    BY DEF IAlerts, InsertsFit
  <2>2. Inserting(k) \in SUBSET Workers /\ Rows(k) \in SUBSET Copies
    BY DEF Inserting, Rows
  <2>3. Cardinality(Inserting(k)) \in Nat /\ Cardinality(Rows(k)) \in Nat
        /\ Cardinality(Workers) \in Nat
    BY <2>2, FiniteCounts DEF IAlerts
  <2>4. Cardinality(Rows(k)) < Cardinality(Copies)
    BY <2>1, <2>3, CopiesAre, EachWorkerMayInsert
  <2>5. Rows(k) # Copies
    BY <2>3, <2>4
  <2> QED
    BY <2>2, <2>5
<1>7. i \in Copies \ Rows(k)
  BY <1>1, <1>6, FirstIsCopy
<1>8. mapping[k] \in [Copies -> Row \union {NoRow}]
  BY DEF IAlerts, TypeOK
<1>9. written \in Row /\ written # NoRow
  BY <1>3, <1>5, RowIsRow
<1>10. mapping'[k] \in [Copies -> Row \union {NoRow}] /\ mapping'[k][i] = written
       /\ \A other \in Copies : other # i => mapping'[k][other] = mapping[k][other]
  BY <1>4, <1>7, <1>8, <1>9
<1>11. Rows(k)' = Rows(k) \union {i}
  BY <1>7, <1>9, <1>10 DEF Rows
<1>12. written.status = job[w].found[k] /\ written.cited = job[w].found[k]
  BY <1>3
<1> QED
  BY <1>7, <1>10, <1>11, <1>12

LEMMA AlertWritten ==
  ASSUME TypeOK, NEW w \in Workers, Commit(w), NEW k \in Keys
  PROVE  /\ alert'[k] \subseteq Copies
         /\ k \notin Raised(w) => alert'[k] \subseteq alert[k]
         /\ k \in Raised(w) => \E i \in Copies \ alert[k] : alert'[k] = alert[k] \union {i}
<1>1. alert' = [other \in Keys |->
        IF job[w].found[other] = "compliant" THEN alert[other] \ job[w].touched[other]
        ELSE IF other \in Raised(w) THEN alert[other] \union {First(FreeAlert(other))}
        ELSE alert[other]]
  BY DEF Commit
<1>2. alert[k] \subseteq Copies
  BY DEF TypeOK
<1>3. ASSUME k \in Raised(w)
      PROVE  \E i \in Copies \ alert[k] : alert'[k] = alert[k] \union {i}
  <2>1. FreeAlert(k) # {}
    BY <1>3 DEF Commit
  <2>2. FreeAlert(k) \subseteq Copies \ alert[k]
    BY DEF FreeAlert
  <2>3. First(FreeAlert(k)) \in FreeAlert(k)
    BY <2>1, <2>2, FirstIsCopy
  <2>4. job[w].found[k] # "compliant"
    BY <1>3, RaisedIsKeys
  <2>5. alert'[k] = alert[k] \union {First(FreeAlert(k))}
    BY <1>1, <1>3, <2>4
  <2> QED
    BY <2>2, <2>3, <2>5
<1>4. k \notin Raised(w) => alert'[k] \subseteq alert[k]
  BY <1>1
<1> QED
  BY <1>2, <1>3, <1>4

\* A step keeps the types; the commit also needs that rows exist and that an insert fits.
LEMMA TypeStep ==
  ASSUME IAlerts, [Next]_vars
  PROVE  TypeOK'
<1>0. /\ TypeOK /\ asset \in Inventories /\ mapping \in [Keys -> [Copies -> Row \union {NoRow}]]
      /\ alert \in [Keys -> SUBSET Copies] /\ job \in [Workers -> Audit \union {Idle}]
      /\ failures \in 0..MaxFailures /\ MaxFailures \in Nat
  BY FailuresAreCounted DEF IAlerts, TypeOK
<1>1. ASSUME NEW a \in Assets, NEW posture \in Postures[a], Edit(a, posture)
      PROVE  TypeOK'
  <2>1. posture \in UNION Range(Postures)
    BY PosturesOfAssets DEF Range
  <2>2. asset' \in Inventories
    BY <1>0, <1>1, <2>1 DEF Edit, Inventories
  <2> QED
    BY <1>0, <1>1, <2>2 DEF Edit, TypeOK, Row, Audit, Inventories
<1>2. ASSUME NEW k \in Keys, NEW i \in Copies, Resolve(k, i)
      PROVE  TypeOK'
  <2>1. alert' \in [Keys -> SUBSET Copies]
    BY <1>0, <1>2 DEF Resolve
  <2> QED
    BY <1>0, <1>2, <2>1 DEF Resolve, TypeOK
<1>3. ASSUME NEW w \in Workers, Begin(w)
      PROVE  TypeOK'
  BY <1>0, <1>3, BegunAudit DEF Begin, TypeOK
<1>4. ASSUME NEW w \in Workers, ReadMappings(w)
      PROVE  TypeOK'
  BY <1>0, <1>4, ReadAudit DEF ReadMappings, TypeOK
<1>5. ASSUME NEW w \in Workers, NEW k \in Keys, Judge(w, k)
      PROVE  TypeOK'
  <2>1. job' \in [Workers -> Audit \union {Idle}]
    BY <1>0, <1>5, JudgedAudit
  <2> QED
    BY <1>0, <1>5, <2>1 DEF Judge, TypeOK
<1>6. ASSUME NEW w \in Workers, Commit(w)
      PROVE  TypeOK'
  <2>1. job' \in [Workers -> Audit \union {Idle}]
    BY <1>0, <1>6, AfterEnd DEF Commit
  <2>2. \A k \in Keys : mapping'[k] \in [Copies -> Row \union {NoRow}]
    BY <1>6, RowWritten, RowInserted
  <2>3. \A k \in Keys : alert'[k] \subseteq Copies
    BY <1>0, <1>6, AlertWritten
  <2>4. mapping' \in [Keys -> [Copies -> Row \union {NoRow}]] /\ alert' \in [Keys -> SUBSET Copies]
    BY <1>6, <2>2, <2>3 DEF Commit
  <2>5. job[w] \in Audit /\ job[w].phase = "judging"
    BY <1>0, <1>6, IdleIsNoAudit DEF Commit
  <2>6. job[w].found \in [Keys -> Statuses \union {Unseen}] /\ job[w].alone \in BOOLEAN
    BY <2>5, JudgingHas
  <2>7. {lineage', latest'} \subseteq [Keys -> Statuses \union {Unseen}] /\ settled' \in BOOLEAN
        /\ UNCHANGED <<asset, failures>>
    BY <1>0, <1>6, <2>6 DEF Commit, TypeOK
  <2> QED
    BY <1>0, <2>1, <2>4, <2>7 DEF TypeOK
<1>7. ASSUME NEW w \in Workers, Fail(w)
      PROVE  TypeOK'
  <2>1. job' \in [Workers -> Audit \union {Idle}]
    BY <1>0, <1>7, AfterEnd DEF Fail
  <2>2. failures' \in 0..MaxFailures
    BY <1>0, <1>7 DEF Fail
  <2> QED
    BY <1>0, <1>7, <2>1, <2>2 DEF Fail, TypeOK
<1>8. CASE UNCHANGED vars
  BY <1>0, <1>8 DEF vars, TypeOK
<1> QED
  BY <1>1, <1>2, <1>3, <1>4, <1>5, <1>6, <1>7, <1>8 DEF Next, Run

-----------------------------------------------------------------------------
(* Rows and alerts.                                                        *)

Locks == RowsExist /\ RowsAreLocked /\ InsertsFit /\ AlertsFit

LEMMA OneToOne ==
  ASSUME NEW S, NEW T, IsFiniteSet(T), NEW f \in [S -> T], \A x, y \in S : x # y => f[x] # f[y]
  PROVE  Cardinality(S) <= Cardinality(T)
<1>1. f \in Injection(S, T)
  BY DEF Injection, IsInjective
<1> QED
  BY <1>1, FS_Injection

LEMMA FewerCounted ==
  ASSUME TypeOK, NEW S, NEW T, S \subseteq T, T \subseteq Workers \/ T \subseteq Copies
  PROVE  Cardinality(S) \in Nat /\ Cardinality(T) \in Nat /\ Cardinality(S) <= Cardinality(T)
<1>1. IsFiniteSet(T) /\ Cardinality(T) \in Nat
  BY FiniteCounts
<1> QED
  BY <1>1, FS_Subset, FS_CardinalityType

LEMMA WorkersOfKey ==
  ASSUME NEW k
  PROVE  Holding(k) \subseteq Workers /\ Raising(k) \subseteq Holding(k) /\ Inserting(k) \subseteq Workers
         /\ Holding(k)' \subseteq Workers /\ Raising(k)' \subseteq Holding(k)'
         /\ Inserting(k)' \subseteq Workers /\ Rows(k) \subseteq Copies /\ Rows(k)' \subseteq Copies
BY DEF Holding, Raising, Inserting, Rows

\* A step that changes no row, opens no alert and only ends audits that judge.
LEMMA AuditsOnlyEnd ==
  ASSUME IAlerts, TypeOK', mapping' = mapping, \A k \in Keys : alert'[k] \subseteq alert[k],
         \A w \in Workers : job'[w].phase = "judging" =>
           /\ job[w].phase = "judging" /\ job'[w].row = job[w].row
           /\ job'[w].found = job[w].found /\ job'[w].touched = job[w].touched
  PROVE  Locks'
<1>1. ASSUME NEW k \in Keys
      PROVE  /\ Rows(k)' = Rows(k) /\ Holding(k)' \subseteq Holding(k)
             /\ Inserting(k)' \subseteq Inserting(k) /\ Raising(k)' \subseteq Raising(k)
  BY DEF Rows, Holding, Inserting, Raising, Raised
<1>2. RowsExist'
  BY <1>1 DEF IAlerts, RowsExist
<1>3. RowsAreLocked'
  BY <1>1 DEF IAlerts, RowsAreLocked, Holding
<1>4. ASSUME NEW k \in Keys
      PROVE  /\ Cardinality(Rows(k)') + Cardinality(Inserting(k)') <= Cardinality(Workers)
             /\ Cardinality(alert'[k]) + Cardinality(Raising(k)') <= Cardinality(Rows(k)')
  <2>1. Cardinality(Inserting(k)') <= Cardinality(Inserting(k)) /\ Cardinality(Inserting(k)') \in Nat
        /\ Cardinality(Inserting(k)) \in Nat
    BY <1>1, WorkersOfKey, FewerCounted DEF IAlerts
  <2>2. Cardinality(Raising(k)') <= Cardinality(Raising(k)) /\ Cardinality(Raising(k)') \in Nat
        /\ Cardinality(Raising(k)) \in Nat
    <3>1. Raising(k) \subseteq Workers
      BY WorkersOfKey
    <3> QED
      BY <1>1, <3>1, FewerCounted DEF IAlerts
  <2>3. alert[k] \subseteq Copies
    BY DEF IAlerts, TypeOK
  <2>4. Cardinality(alert'[k]) <= Cardinality(alert[k]) /\ Cardinality(alert'[k]) \in Nat
        /\ Cardinality(alert[k]) \in Nat
    BY <2>3, FewerCounted DEF IAlerts
  <2>5. Cardinality(Rows(k)) \in Nat /\ Cardinality(Workers) \in Nat
    BY WorkersOfKey, FewerCounted DEF IAlerts
  <2>6. /\ Cardinality(Rows(k)) + Cardinality(Inserting(k)) <= Cardinality(Workers)
        /\ Cardinality(alert[k]) + Cardinality(Raising(k)) <= Cardinality(Rows(k))
    BY DEF IAlerts, InsertsFit, AlertsFit
  <2> QED
    BY <1>1, <2>1, <2>2, <2>4, <2>5, <2>6
<1> QED
  BY <1>2, <1>3, <1>4 DEF Locks, InsertsFit, AlertsFit

LEMMA ReadLocks ==
  ASSUME IAlerts, NEW w \in Workers, ReadMappings(w)
  PROVE  Locks'
<1>0. TypeOK /\ mapping' = mapping /\ alert' = alert
  BY DEF IAlerts, ReadMappings
<1>1. ASSUME NEW k \in Keys
      PROVE  /\ Rows(k)' = Rows(k) /\ Holding(k)' = Holding(k) /\ Raising(k)' = Raising(k)
             /\ Inserting(k)' \subseteq Inserting(k) \union {w}
             /\ Rows(k) # {} => Inserting(k)' \subseteq Inserting(k)
  <2>1. Rows(k)' = Rows(k)
    BY <1>0 DEF Rows
  <2>2. job'[w].found[k] = Unseen /\ job[w].phase # "judging"
        /\ job'[w].row[k] \in (IF Rows(k) = {} THEN {0} ELSE Rows(k))
        /\ \A v \in Workers \ {w} : job'[v] = job[v]
    BY <1>0, ReadAudit
  <2>3. 0 \notin Rows(k)
    BY CopiesAre DEF Rows
  <2>4. Holding(k)' = Holding(k)
    BY <2>2 DEF Holding
  <2>5. w \notin Holding(k) /\ \A v \in Holding(k) : k \in Raised(v)' <=> k \in Raised(v)
    BY <2>2 DEF Holding, Raised
  <2>6. Raising(k)' = Raising(k)
    BY <2>4, <2>5 DEF Raising
  <2> QED
    BY <2>1, <2>2, <2>3, <2>4, <2>6 DEF Inserting
<1>2. RowsExist'
  <2> SUFFICES ASSUME NEW v \in Workers, NEW k \in Keys, job'[v].phase = "judging", job'[v].row[k] # 0
               PROVE  job'[v].row[k] \in Rows(k)
    BY <1>1 DEF RowsExist
  <2>1. CASE v = w
    BY <1>0, <2>1, ReadAudit
  <2>2. CASE v # w
    <3>1. job'[v] = job[v]
      BY <1>0, <2>2, ReadAudit
    <3> QED
      BY <3>1 DEF IAlerts, RowsExist
  <2> QED
    BY <2>1, <2>2
<1>3. RowsAreLocked'
  <2>1. \A k \in Keys : \A v \in Holding(k) : job'[v] = job[v]
    <3>1. \A v \in Workers \ {w} : job'[v] = job[v]
      BY <1>0, ReadAudit
    <3>2. \A k : w \notin Holding(k)
      BY <1>0, ReadAudit DEF Holding
    <3> QED
      BY <3>1, <3>2, WorkersOfKey
  <2> QED
    BY <1>1, <2>1 DEF IAlerts, RowsAreLocked
<1>4. AlertsFit'
  BY <1>0, <1>1 DEF IAlerts, AlertsFit
<1>5. ASSUME NEW k \in Keys
      PROVE  Cardinality(Rows(k)) + Cardinality(Inserting(k)') <= Cardinality(Workers)
  <2>1. CASE Rows(k) = {}
    <3>1. Cardinality(Rows(k)) = 0
      BY <2>1, FS_EmptySet
    <3>2. Cardinality(Inserting(k)') <= Cardinality(Workers) /\ Cardinality(Inserting(k)') \in Nat
      BY <1>0, WorkersOfKey, FewerCounted
    <3> QED
      BY <3>1, <3>2
  <2>2. CASE Rows(k) # {}
    <3>1. Cardinality(Inserting(k)') <= Cardinality(Inserting(k)) /\ Cardinality(Inserting(k)') \in Nat
          /\ Cardinality(Inserting(k)) \in Nat
      BY <1>0, <1>1, <2>2, WorkersOfKey, FewerCounted
    <3>2. Cardinality(Rows(k)) \in Nat /\ Cardinality(Workers) \in Nat
      BY <1>0, WorkersOfKey, FewerCounted
    <3>3. Cardinality(Rows(k)) + Cardinality(Inserting(k)) <= Cardinality(Workers)
      BY DEF IAlerts, InsertsFit
    <3> QED
      BY <3>1, <3>2, <3>3
  <2> QED
    BY <2>1, <2>2
<1>6. InsertsFit'
  BY <1>1, <1>5 DEF InsertsFit
<1> QED
  BY <1>2, <1>3, <1>4, <1>6 DEF Locks

\* An audit that judges k holds a row no other one holds; and if it will raise an alert for k,
\* there was none.
LEMMA JudgeLocks ==
  ASSUME IAlerts, NEW w \in Workers, NEW key \in Keys, Judge(w, key)
  PROVE  Locks'
<1>0. TypeOK /\ mapping' = mapping /\ alert' = alert
  BY DEF IAlerts, Judge
<1> DEFINE status == Assess(job[w].seen[key[1]], key[2])
<1>1. /\ status \in Statuses
      /\ \A v \in Workers \ {w} : job'[v] = job[v]
      /\ job[w] \in Audit /\ job'[w].phase = "judging" /\ job[w].phase = "judging"
      /\ job'[w].row = job[w].row
      /\ job'[w].found = [job[w].found EXCEPT ![key] = status]
      /\ \A other \in Keys : other # key => job'[w].touched[other] = job[w].touched[other]
      /\ status = "compliant" => job'[w].touched[key] = alert[key]
      /\ (status # "compliant" /\ key[1] \in Critical /\ alert[key] # {}) => job'[w].touched[key] # {}
  BY <1>0, JudgedAudit
<1> HIDE DEF status
<1>2. job[w].found \in [Keys -> Statuses \union {Unseen}]
  BY <1>1, JudgingHas
<1>3. job'[w].found[key] = status /\ \A other \in Keys : other # key => job'[w].found[other] = job[w].found[other]
  BY <1>1, <1>2
<1>4. ASSUME NEW k \in Keys
      PROVE  /\ Rows(k)' = Rows(k) /\ Inserting(k)' = Inserting(k)
             /\ Holding(k)' \subseteq Holding(k) \union {w}
             /\ k # key => Holding(k)' = Holding(k) /\ Raising(k)' = Raising(k)
             /\ \A v \in Workers : job'[v].row[k] = job[v].row[k]
  <2>1. \A v \in Workers : job'[v].row[k] = job[v].row[k] /\ (job'[v].phase = "judging" <=> job[v].phase = "judging")
    BY <1>1
  <2>2. \A v \in Workers : v # w \/ k # key => /\ job'[v].found[k] = job[v].found[k]
                                               /\ job'[v].touched[k] = job[v].touched[k]
    BY <1>1, <1>3
  <2>3. k # key => Holding(k)' = Holding(k)
    BY <2>1, <2>2 DEF Holding
  <2>4. k # key => Raising(k)' = Raising(k)
    BY <2>2, <2>3, WorkersOfKey DEF Raising, Raised
  <2>5. Holding(k)' \subseteq Holding(k) \union {w}
    BY <2>1, <2>2 DEF Holding
  <2>6. Inserting(k)' = Inserting(k)
    BY <2>1 DEF Inserting
  <2>7. Rows(k)' = Rows(k)
    BY <1>0 DEF Rows
  <2> QED
    BY <2>1, <2>3, <2>4, <2>5, <2>6, <2>7
<1>5. RowsExist'
  BY <1>1, <1>4 DEF IAlerts, RowsExist
<1>6. RowsAreLocked'
  <2> SUFFICES ASSUME NEW k \in Keys, NEW v \in Holding(k)', NEW u \in Holding(k)', v # u
               PROVE  job[v].row[k] # job[u].row[k]
    BY <1>4, WorkersOfKey DEF RowsAreLocked
  <2>1. CASE v \in Holding(k) /\ u \in Holding(k)
    BY <2>1 DEF IAlerts, RowsAreLocked
  <2>2. ASSUME NEW x \in Holding(key), x # w, w \in Holding(key)'
        PROVE  job[x].row[key] # job[w].row[key]
    <3>1. job[w].row[key] # 0
      BY <1>4, <2>2 DEF Holding
    <3>2. x \in Workers \ {w}
      BY <2>2, WorkersOfKey
    <3>3. ~HoldsMapping(x, key, job[w].row[key])
      BY <3>1, <3>2 DEF Judge
    <3> QED
      BY <3>3 DEF HoldsMapping, Holding
  <2>3. CASE v \notin Holding(k) \/ u \notin Holding(k)
    <3>1. k = key /\ (v = w \/ u = w)
      BY <1>4, <2>3
    <3>2. v \in Holding(k) \union {w} /\ u \in Holding(k) \union {w}
      BY <1>4
    <3> QED
      BY <2>2, <2>3, <3>1, <3>2
  <2> QED
    BY <2>1, <2>3
<1>7. InsertsFit'
  BY <1>4 DEF IAlerts, InsertsFit
<1>8. ASSUME NEW k \in Keys
      PROVE  Cardinality(alert[k]) + Cardinality(Raising(k)') <= Cardinality(Rows(k))
  <2>1. Cardinality(alert[k]) + Cardinality(Raising(k)) <= Cardinality(Rows(k))
    BY DEF IAlerts, AlertsFit
  <2>2. CASE k # key
    BY <1>4, <2>1, <2>2
  <2>3. CASE k = key /\ alert[k] = {}
    <3>1. Cardinality(alert[k]) = 0
      BY <2>3, FS_EmptySet
    <3>2. Cardinality(Raising(k)') <= Cardinality(Rows(k))
      <4> DEFINE f == [v \in Raising(k)' |-> job'[v].row[k]]
      <4>1. \A v \in Raising(k)' : job'[v].row[k] \in Rows(k)
        BY <1>4, <1>5, WorkersOfKey DEF RowsExist, Holding
      <4>2. \A v, u \in Raising(k)' : v # u => job'[v].row[k] # job'[u].row[k]
        BY <1>6, WorkersOfKey DEF RowsAreLocked
      <4>3. f \in [Raising(k)' -> Rows(k)] /\ \A v, u \in Raising(k)' : v # u => f[v] # f[u]
        BY <4>1, <4>2
      <4>4. IsFiniteSet(Rows(k))
        BY <1>0, FiniteCounts
      <4> HIDE DEF f
      <4> QED
        BY <4>3, <4>4, OneToOne
    <3>3. Cardinality(Raising(k)') \in Nat /\ Cardinality(Rows(k)) \in Nat
      <4>1. Raising(k)' \subseteq Workers
        BY WorkersOfKey
      <4> QED
        BY <1>0, <4>1, WorkersOfKey, FewerCounted
    <3> QED
      BY <3>1, <3>2, <3>3
  <2>4. CASE k = key /\ alert[k] # {}
    <3>1. Raising(k)' \subseteq Raising(k)
      <4> SUFFICES ASSUME NEW v \in Raising(k)' PROVE v \in Raising(k)
        OBVIOUS
      <4>1. v \in Workers /\ k \in Raised(v)'
        BY WorkersOfKey DEF Raising
      <4>2. job'[v].found[k] # "compliant" /\ k[1] \in Critical /\ job'[v].touched[k] = {}
        BY <4>1 DEF Raised
      <4>3. v # w
        BY <1>1, <1>3, <2>4, <4>2
      <4>4. job'[v] = job[v]
        BY <1>1, <4>1, <4>3
      <4> QED
        BY <1>4, <4>1, <4>3, <4>4 DEF Raising, Raised
    <3>2. Raising(k) \subseteq Workers
      BY WorkersOfKey
    <3>3. Cardinality(Raising(k)') <= Cardinality(Raising(k)) /\ Cardinality(Raising(k)') \in Nat
          /\ Cardinality(Raising(k)) \in Nat
      BY <1>0, <3>1, <3>2, FewerCounted
    <3>4. Cardinality(alert[k]) \in Nat /\ Cardinality(Rows(k)) \in Nat
      BY <1>0, FiniteCounts, FS_CardinalityType
    <3> QED
      BY <2>1, <3>3, <3>4
  <2> QED
    BY <2>2, <2>3, <2>4
<1>9. AlertsFit'
  BY <1>0, <1>4, <1>8 DEF AlertsFit
<1> QED
  BY <1>5, <1>6, <1>7, <1>9 DEF Locks

\* An audit that commits inserts a row where it had found none, and raises an alert where it
\* inserts a row or holds one.
LEMMA CommitLocks ==
  ASSUME IAlerts, NEW w \in Workers, Commit(w)
  PROVE  Locks'
<1>0. TypeOK /\ job[w].phase = "judging" /\ \A k \in Keys : job[w].found[k] # Unseen
  BY DEF IAlerts, Commit
<1>1. \A v \in Workers : job'[v].phase = "judging" =>
        /\ v # w /\ job[v].phase = "judging" /\ job'[v].row = job[v].row
        /\ job'[v].found = job[v].found /\ job'[v].touched = job[v].touched
  BY <1>0, OnlyOthersJudge DEF Commit
<1>2. ASSUME NEW k \in Keys
      PROVE  /\ Holding(k)' \subseteq Holding(k) \ {w} /\ Raising(k)' \subseteq Raising(k) \ {w}
             /\ Inserting(k)' \subseteq Inserting(k) \ {w}
             /\ job[w].row[k] = 0 => w \in Inserting(k)
             /\ (job[w].row[k] # 0 /\ k \in Raised(w)) => w \in Raising(k)
  BY <1>0, <1>1 DEF Holding, Raising, Raised, Inserting
<1>3. ASSUME NEW k \in Keys
      PROVE  /\ Rows(k) \subseteq Rows(k)'
             /\ Cardinality(Rows(k)) \in Nat
             /\ Cardinality(Rows(k)') = Cardinality(Rows(k)) + (IF job[w].row[k] = 0 THEN 1 ELSE 0)
  <2>1. IsFiniteSet(Rows(k)) /\ Cardinality(Rows(k)) \in Nat
    BY <1>0, FiniteCounts, FS_CardinalityType
  <2>2. CASE job[w].row[k] = 0
    <3>1. PICK i \in Copies \ Rows(k) : Rows(k)' = Rows(k) \union {i}
      BY <2>2, RowInserted
    <3>2. Cardinality(Rows(k)') = Cardinality(Rows(k)) + 1
      BY <2>1, <3>1, FS_AddElement
    <3> QED
      BY <2>1, <2>2, <3>1, <3>2
  <2>3. CASE job[w].row[k] # 0
    BY <2>1, <2>3, RowWritten
  <2> QED
    BY <2>2, <2>3
<1>4. RowsExist'
  BY <1>1, <1>3 DEF IAlerts, RowsExist
<1>5. RowsAreLocked'
  BY <1>1, <1>2, WorkersOfKey DEF IAlerts, RowsAreLocked, Holding
<1>6. ASSUME NEW S \in SUBSET Workers, NEW T, T \subseteq S \ {w}
      PROVE  /\ Cardinality(S) \in Nat /\ Cardinality(T) \in Nat /\ Cardinality(T) <= Cardinality(S)
             /\ w \in S => Cardinality(T) + 1 <= Cardinality(S)
  <2>1. Cardinality(S) \in Nat /\ Cardinality(T) \in Nat /\ Cardinality(T) <= Cardinality(S)
    BY <1>0, <1>6, FewerCounted
  <2>2. Cardinality(S \ {w}) \in Nat /\ Cardinality(T) <= Cardinality(S \ {w})
    BY <1>0, <1>6, FewerCounted
  <2>3. w \in S => Cardinality(S \ {w}) = Cardinality(S) - 1
    BY <1>0, FiniteCounts, FS_RemoveElement
  <2> QED
    BY <2>1, <2>2, <2>3
<1>7. ASSUME NEW k \in Keys
      PROVE  Cardinality(Rows(k)') + Cardinality(Inserting(k)') <= Cardinality(Workers)
  <2>1. Cardinality(Rows(k)) + Cardinality(Inserting(k)) <= Cardinality(Workers)
    BY DEF IAlerts, InsertsFit
  <2>2. /\ Cardinality(Inserting(k)) \in Nat /\ Cardinality(Inserting(k)') \in Nat
        /\ Cardinality(Inserting(k)') <= Cardinality(Inserting(k))
        /\ w \in Inserting(k) => Cardinality(Inserting(k)') + 1 <= Cardinality(Inserting(k))
    BY <1>2, <1>6, WorkersOfKey
  <2>3. Cardinality(Workers) \in Nat
    BY <1>0, FiniteCounts
  <2> QED
    BY <1>2, <1>3, <2>1, <2>2, <2>3
<1>8. ASSUME NEW k \in Keys
      PROVE  Cardinality(alert'[k]) + Cardinality(Raising(k)') <= Cardinality(Rows(k)')
  <2>1. Cardinality(alert[k]) + Cardinality(Raising(k)) <= Cardinality(Rows(k))
    BY DEF IAlerts, AlertsFit
  <2>2. /\ Cardinality(Raising(k)) \in Nat /\ Cardinality(Raising(k)') \in Nat
        /\ Cardinality(Raising(k)') <= Cardinality(Raising(k))
        /\ w \in Raising(k) => Cardinality(Raising(k)') + 1 <= Cardinality(Raising(k))
    <3>1. Raising(k) \in SUBSET Workers
      BY WorkersOfKey
    <3> QED
      BY <1>2, <1>6, <3>1
  <2>3. alert[k] \subseteq Copies /\ IsFiniteSet(alert[k]) /\ Cardinality(alert[k]) \in Nat
    BY <1>0, FiniteCounts, FS_CardinalityType
  <2>4. CASE k \in Raised(w)
    <3>1. PICK i \in Copies \ alert[k] : alert'[k] = alert[k] \union {i}
      BY <1>0, <2>4, AlertWritten
    <3>2. Cardinality(alert'[k]) = Cardinality(alert[k]) + 1
      BY <2>3, <3>1, FS_AddElement
    <3> QED
      BY <1>2, <1>3, <2>1, <2>2, <2>3, <2>4, <3>2
  <2>5. CASE k \notin Raised(w)
    <3>1. alert'[k] \subseteq alert[k]
      BY <1>0, <2>5, AlertWritten
    <3>2. Cardinality(alert'[k]) <= Cardinality(alert[k]) /\ Cardinality(alert'[k]) \in Nat
      BY <1>0, <2>3, <3>1, FewerCounted
    <3> QED
      BY <1>3, <2>1, <2>2, <2>3, <3>2
  <2> QED
    BY <2>4, <2>5
<1> QED
  BY <1>4, <1>5, <1>7, <1>8 DEF Locks, InsertsFit, AlertsFit

LEMMA AlertsStep ==
  ASSUME IAlerts, [Next]_vars
  PROVE  IAlerts'
<1>0. TypeOK /\ TypeOK'
  BY TypeStep DEF IAlerts
<1>1. Locks' => IAlerts'
  BY <1>0 DEF IAlerts, Locks
<1>2. ASSUME NEW a \in Assets, NEW posture \in Postures[a], Edit(a, posture)
      PROVE  Locks'
  BY <1>0, <1>2, AuditsOnlyEnd DEF Edit
<1>3. ASSUME NEW k \in Keys, NEW i \in Copies, Resolve(k, i)
      PROVE  Locks'
  <2>1. \A other \in Keys : alert'[other] \subseteq alert[other]
    BY <1>0, <1>3 DEF Resolve, TypeOK
  <2> QED
    BY <1>0, <1>3, <2>1, AuditsOnlyEnd DEF Resolve
<1>4. ASSUME NEW w \in Workers, Begin(w)
      PROVE  Locks'
  <2>1. \A v \in Workers : job'[v].phase = "judging" =>
          /\ job[v].phase = "judging" /\ job'[v].row = job[v].row
          /\ job'[v].found = job[v].found /\ job'[v].touched = job[v].touched
    <3> SUFFICES ASSUME NEW v \in Workers, job'[v].phase = "judging"
                 PROVE  /\ job[v].phase = "judging" /\ job'[v].row = job[v].row
                        /\ job'[v].found = job[v].found /\ job'[v].touched = job[v].touched
      OBVIOUS
    <3>1. v # w /\ job[v] # Idle
      BY <1>0, <1>4, BegunAudit, IdleIsNoAudit
    <3> QED
      BY <1>0, <1>4, <3>1, BegunAudit
  <2> QED
    BY <1>0, <1>4, <2>1, AuditsOnlyEnd DEF Begin
<1>5. ASSUME NEW w \in Workers, Fail(w)
      PROVE  Locks'
  <2>1. \A v \in Workers : job'[v].phase = "judging" =>
          /\ job[v].phase = "judging" /\ job'[v].row = job[v].row
          /\ job'[v].found = job[v].found /\ job'[v].touched = job[v].touched
    BY <1>0, <1>5, OnlyOthersJudge DEF Fail
  <2> QED
    BY <1>0, <1>5, <2>1, AuditsOnlyEnd DEF Fail
<1>6. CASE UNCHANGED vars
  BY <1>0, <1>1, <1>6, AuditsOnlyEnd DEF vars
<1>7. ASSUME NEW w \in Workers, Run(w)
      PROVE  Locks'
  BY <1>7, ReadLocks, JudgeLocks, CommitLocks DEF Run
<1>8. \/ \E a \in Assets : \E posture \in Postures[a] : Edit(a, posture)
      \/ \E k \in Keys, i \in Copies : Resolve(k, i)
      \/ \E w \in Workers : Begin(w)
      \/ \E w \in Workers : Run(w)
      \/ \E w \in Workers : Fail(w)
      \/ UNCHANGED vars
  BY DEF Next
<1> QED
  BY <1>1, <1>2, <1>3, <1>4, <1>5, <1>6, <1>7, <1>8

LEMMA AlertsInit == Init => IAlerts
<1> SUFFICES ASSUME Init PROVE IAlerts
  OBVIOUS
<1>1. \A w \in Workers : job[w] = Idle
  BY DEF Init
<1>2. TypeOK
  <2>1. asset \in Inventories /\ failures \in 0..MaxFailures /\ settled \in BOOLEAN
    BY FailuresAreCounted DEF Init
  <2>2. mapping \in [Keys -> [Copies -> Row \union {NoRow}]]
    BY DEF Init
  <2>3. alert \in [Keys -> SUBSET Copies] /\ job \in [Workers -> Audit \union {Idle}]
    BY DEF Init
  <2>4. {lineage, latest} \subseteq [Keys -> Statuses \union {Unseen}]
    BY DEF Init
  <2> QED
    BY <2>1, <2>2, <2>3, <2>4 DEF TypeOK
<1>3. ASSUME NEW k \in Keys
      PROVE  Rows(k) = {} /\ Holding(k) = {} /\ Raising(k) = {} /\ Inserting(k) = {} /\ alert[k] = {}
  BY <1>1, IdleIsNoAudit DEF Init, Rows, Holding, Raising, Inserting
<1>4. Cardinality({}) = 0 /\ Cardinality(Workers) \in Nat
  BY <1>2, FS_EmptySet, FiniteCounts
<1>5. RowsExist
  BY <1>1, IdleIsNoAudit DEF RowsExist
<1>6. RowsAreLocked
  BY <1>3 DEF RowsAreLocked
<1>7. InsertsFit /\ AlertsFit
  <2> SUFFICES ASSUME NEW k \in Keys
               PROVE  /\ Cardinality(Rows(k)) + Cardinality(Inserting(k)) <= Cardinality(Workers)
                      /\ Cardinality(alert[k]) + Cardinality(Raising(k)) <= Cardinality(Rows(k))
    BY DEF InsertsFit, AlertsFit
  <2>1. /\ Cardinality(Rows(k)) = 0 /\ Cardinality(Inserting(k)) = 0
        /\ Cardinality(alert[k]) = 0 /\ Cardinality(Raising(k)) = 0
    BY <1>3, <1>4
  <2> QED
    BY <1>4, <2>1
<1> QED
  BY <1>2, <1>5, <1>6, <1>7 DEF IAlerts

LEMMA AlertsHold == Spec => []IAlerts
<1>1. Init => IAlerts
  BY AlertsInit
<1>2. IAlerts /\ [Next]_vars => IAlerts'
  BY AlertsStep
<1> QED
  BY <1>1, <1>2, PTL DEF Spec

\* The variables have their types: in particular an insert always finds room in its table of
\* MaxCopies rows, which is what makes that bound harmless.
THEOREM AuditTypeCorrect == Spec => []TypeOK
<1>1. IAlerts => TypeOK
  BY DEF IAlerts
<1> QED
  BY <1>1, AlertsHold, PTL

\* However audits overlap, fail or are delivered again, and whoever resolves alerts meanwhile,
\* a gap has at most as many open alerts as it has mappings: the row lock of
\* compliance_tasks.py, taken by the flush before the alerts are queried, keeps two raises for
\* one row apart.
THEOREM AlertsNeverOutnumberMappings == Spec => []AlertsPerMapping
<1>1. IAlerts => AlertsPerMapping
  <2> SUFFICES ASSUME IAlerts, NEW k \in Keys
               PROVE  Cardinality(alert[k]) <= Cardinality(Rows(k))
    BY DEF AlertsPerMapping
  <2>1. Cardinality(alert[k]) + Cardinality(Raising(k)) <= Cardinality(Rows(k)) /\ TypeOK
    BY DEF IAlerts, AlertsFit
  <2>2. Raising(k) \subseteq Workers
    BY WorkersOfKey
  <2>3. Cardinality(alert[k]) \in Nat /\ Cardinality(Rows(k)) \in Nat /\ Cardinality(Raising(k)) \in Nat
    BY <2>1, <2>2, FiniteCounts, FS_CardinalityType
  <2> QED
    BY <2>1, <2>3
<1> QED
  BY <1>1, AlertsHold, PTL

-----------------------------------------------------------------------------
(* What the API makes of it.                                               *)

\* What an audit that is alone has read stays true of the rows, until it commits itself.
LEMMA AloneStep ==
  ASSUME IAlerts, AloneSeesAll, [Next]_vars
  PROVE  AloneSeesAll'
<1>0. TypeOK /\ \A w \in Workers : job[w] # Idle /\ job[w].alone =>
        /\ ~job[w].overtaken
        /\ \A v \in Workers \ {w} : job[v] = Idle
        /\ job[w].phase = "judging" => \A k \in Keys :
             IF job[w].row[k] = 0 THEN Rows(k) = {}
             ELSE job[w].loaded[k] = mapping[k][job[w].row[k]].status
  BY DEF IAlerts, AloneSeesAll
<1> DEFINE Sees(w) ==
             /\ ~job'[w].overtaken
             /\ \A v \in Workers \ {w} : job'[v] = Idle
             /\ job'[w].phase = "judging" => \A k \in Keys :
                  IF job'[w].row[k] = 0 THEN Rows(k)' = {}
                  ELSE job'[w].loaded[k] = mapping'[k][job'[w].row[k]].status
<1>1. SUFFICES ASSUME NEW w \in Workers, job'[w] # Idle, job'[w].alone
               PROVE  Sees(w)
  BY DEF AloneSeesAll
<1>2. CASE job' = job /\ mapping' = mapping
  BY <1>0, <1>1, <1>2 DEF Rows
<1>3. ASSUME NEW b \in Workers, Begin(b)
      PROVE  Sees(w)
  <2>1. w = b
    BY <1>0, <1>1, <1>3, BegunAudit
  <2>2. Active = {} /\ job'[w].phase = "reading" /\ job'[w].overtaken = FALSE
    BY <1>0, <1>1, <1>3, <2>1, BegunAudit
  <2>3. \A v \in Workers \ {w} : job[v] = Idle
    BY <2>2 DEF Active
  <2>4. \A v \in Workers \ {w} : job'[v] = Idle
    <3>1. \A v \in Workers : v # b /\ job[v] = Idle => job'[v] = Idle
      BY <1>0, <1>3, BegunAudit
    <3> QED
      BY <2>1, <2>3, <3>1
  <2> QED
    BY <2>2, <2>4
<1>4. ASSUME NEW b \in Workers, Commit(b) \/ Fail(b)
      PROVE  FALSE
  <2>1. PICK committed \in BOOLEAN : job' = [v \in Workers |-> After(b, v, committed)]
    BY <1>4 DEF Commit, Fail
  <2>2. job'[b] = Idle /\ \A v \in Workers : job[v] = Idle => job'[v] = Idle
    BY <1>0, <2>1, AfterEnd
  <2>3. w # b /\ job[w] # Idle
    BY <1>1, <2>2
  <2>4. job[w].alone
    BY <1>0, <1>1, <2>1, <2>3, AfterEnd
  <2>5. job[b] # Idle
    BY <1>4, IdleIsNoAudit DEF Commit, Fail
  <2> QED
    BY <1>0, <2>3, <2>4, <2>5
<1>5. ASSUME NEW b \in Workers, job[b] # Idle, \A v \in Workers \ {b} : job'[v] = job[v],
             job'[b].alone = job[b].alone
      PROVE  w = b /\ ~job[b].overtaken /\ \A v \in Workers \ {b} : job'[v] = Idle
  <2>1. CASE w = b
    BY <1>0, <1>1, <1>5, <2>1
  <2>2. CASE w # b
    BY <1>0, <1>1, <1>5, <2>2
  <2> QED
    BY <2>1, <2>2
<1>6. ASSUME NEW b \in Workers, ReadMappings(b)
      PROVE  Sees(w)
  <2>1. job[b] # Idle
    BY <1>0, <1>6, ReadAudit, IdleIsNoAudit
  <2>2. w = b /\ ~job[b].overtaken /\ \A v \in Workers \ {b} : job'[v] = Idle
    BY <1>0, <1>5, <1>6, <2>1, ReadAudit
  <2>3. job'[b].overtaken = job[b].overtaken
    BY <1>0, <1>6, ReadAudit
  <2>4. mapping' = mapping /\ \A k \in Keys : Rows(k)' = Rows(k)
    BY <1>6 DEF ReadMappings, Rows
  <2>5. ASSUME NEW k \in Keys
        PROVE  IF job'[b].row[k] = 0 THEN Rows(k) = {}
               ELSE job'[b].loaded[k] = mapping[k][job'[b].row[k]].status
    <3>1. /\ job'[b].row[k] \in (IF Rows(k) = {} THEN {0} ELSE Rows(k))
          /\ job'[b].row[k] # 0 => job'[b].loaded[k] = mapping[k][job'[b].row[k]].status
      BY <1>0, <1>6, ReadAudit
    <3>2. 0 \notin Rows(k)
      BY CopiesAre DEF Rows
    <3> QED
      BY <3>1, <3>2
  <2> QED
    BY <2>2, <2>3, <2>4, <2>5
<1>7. ASSUME NEW b \in Workers, NEW key \in Keys, Judge(b, key)
      PROVE  Sees(w)
  <2>1. job[b] # Idle /\ job[b].phase = "judging"
    BY <1>0, <1>7, JudgedAudit, IdleIsNoAudit
  <2>2. w = b /\ ~job[b].overtaken /\ \A v \in Workers \ {b} : job'[v] = Idle
    BY <1>0, <1>5, <1>7, <2>1, JudgedAudit
  <2>3. job'[b].overtaken = job[b].overtaken /\ job'[b].alone = job[b].alone
        /\ job'[b].row = job[b].row /\ job'[b].loaded = job[b].loaded
    BY <1>0, <1>7, JudgedAudit
  <2>4. mapping' = mapping /\ \A k \in Keys : Rows(k)' = Rows(k)
    BY <1>7 DEF Judge, Rows
  <2> QED
    BY <1>0, <1>1, <2>1, <2>2, <2>3, <2>4
<1>8. \/ \E a \in Assets : \E posture \in Postures[a] : Edit(a, posture)
      \/ \E k \in Keys, i \in Copies : Resolve(k, i)
      \/ \E b \in Workers : Begin(b)
      \/ \E b \in Workers : ReadMappings(b)
      \/ \E b \in Workers, k \in Keys : Judge(b, k)
      \/ \E b \in Workers : Commit(b) \/ Fail(b)
      \/ UNCHANGED vars
  BY DEF Next, Run
<1>9. (\/ \E a \in Assets : \E posture \in Postures[a] : Edit(a, posture)
       \/ \E k \in Keys, i \in Copies : Resolve(k, i)
       \/ UNCHANGED vars) => job' = job /\ mapping' = mapping
  BY DEF Edit, Resolve, vars
<1> QED
  BY <1>2, <1>3, <1>4, <1>6, <1>7, <1>8, <1>9

\* The commit of an audit that was alone makes rows and results agree.
LEMMA AloneCommits ==
  ASSUME IAlerts, AloneSeesAll, NEW w \in Workers, Commit(w), job[w].alone, NEW k \in Keys
  PROVE  Agrees(k)'
<1>1. job[w] # Idle /\ job[w] \in Audit /\ job[w].phase = "judging"
  BY IdleIsNoAudit DEF Commit, IAlerts, TypeOK
<1>2. /\ ~job[w].overtaken
      /\ IF job[w].row[k] = 0 THEN Rows(k) = {}
         ELSE job[w].loaded[k] = mapping[k][job[w].row[k]].status
  BY <1>1 DEF AloneSeesAll
<1>3. lineage' = job[w].found /\ latest' = job[w].found
  BY <1>2 DEF Commit
<1>4. job[w].found[k] \in Statuses
  BY <1>1, JudgingHas DEF Commit
<1>5. /\ Rows(k)' # {}
      /\ \A i \in Copies : Rows(k)' = {i} => /\ mapping'[k][i].status = job[w].found[k]
                                             /\ mapping'[k][i].cited = job[w].found[k]
  <2>1. CASE job[w].row[k] = 0
    <3>1. PICK i \in Copies \ Rows(k) : /\ Rows(k)' = Rows(k) \union {i}
                                        /\ mapping'[k][i].status = job[w].found[k]
                                        /\ mapping'[k][i].cited = job[w].found[k]
      BY <2>1, RowInserted
    <3>2. Rows(k)' = {i}
      BY <1>2, <2>1, <3>1
    <3> QED
      BY <3>1, <3>2
  <2>2. CASE job[w].row[k] # 0
    <3> DEFINE i == job[w].row[k]
    <3>1. /\ Rows(k)' = Rows(k) /\ i \in Rows(k)
          /\ mapping'[k][i].cited = job[w].found[k]
          /\ mapping'[k][i].status = IF job[w].found[k] # job[w].loaded[k] THEN job[w].found[k]
                                     ELSE mapping[k][i].status
      BY <2>2, RowWritten
    <3>2. mapping'[k][i].status = job[w].found[k]
      BY <1>2, <2>2, <3>1
    <3> QED
      BY <3>1, <3>2
  <2> QED
    BY <2>1, <2>2
<1> QED
  BY <1>3, <1>4, <1>5 DEF Agrees

LEMMA ViewsStep ==
  ASSUME IViews, [Next]_vars
  PROVE  IViews'
<1>0. IAlerts /\ IAlerts' /\ AloneSeesAll /\ AloneSeesAll'
  BY AlertsStep, AloneStep DEF IViews
<1>1. ASSUME UNCHANGED <<mapping, lineage, latest, settled>>
      PROVE  SettledAgrees'
  BY <1>1 DEF IViews, SettledAgrees, Agrees, Rows
<1>2. ASSUME NEW w \in Workers, Commit(w)
      PROVE  SettledAgrees'
  <2>1. settled' = job[w].alone
    BY <1>2 DEF Commit
  <2>2. job[w].alone => \A k \in Keys : Agrees(k)'
    BY <1>0, <1>2, AloneCommits
  <2> QED
    BY <2>1, <2>2 DEF SettledAgrees
<1>3. \/ \E w \in Workers : Commit(w)
      \/ UNCHANGED <<mapping, lineage, latest, settled>>
  <2>1. ASSUME NEW w \in Workers, Begin(w) \/ ReadMappings(w) \/ (\E k \in Keys : Judge(w, k)) \/ Fail(w)
        PROVE  UNCHANGED <<mapping, lineage, latest, settled>>
    BY <2>1 DEF Begin, ReadMappings, Judge, Fail
  <2>2. ASSUME NEW a \in Assets, NEW posture \in Postures[a], Edit(a, posture)
        PROVE  UNCHANGED <<mapping, lineage, latest, settled>>
    BY <2>2 DEF Edit
  <2>3. ASSUME NEW k \in Keys, NEW i \in Copies, Resolve(k, i)
        PROVE  UNCHANGED <<mapping, lineage, latest, settled>>
    BY <2>3 DEF Resolve
  <2> QED
    BY <2>1, <2>2, <2>3 DEF Next, Run, vars
<1>4. SettledAgrees'
  BY <1>1, <1>2, <1>3
<1> QED
  BY <1>0, <1>4 DEF IViews

\* Lines of keys that have one row: a line names its key, and there is at most one for each
\* such key.
SingleLines(list) == {line \in list : Cardinality(Rows(line.key)) = 1}

LEMMA KeysAreFinite == IsFiniteSet(Keys)
<1>1. IsFiniteSet(Assets) /\ IsFiniteSet(Controls)
  BY ManyAreFinite
<1> QED
  BY <1>1, FS_Product DEF Keys

LEMMA SingleLineHas ==
  ASSUME TypeOK, NEW list \in Lists
  PROVE  \E recent \in SUBSET Keys :
           /\ Cardinality(Keys) <= ResultLimit => recent = Keys
           /\ \A line \in SingleLines(list) :
                /\ line.key \in Keys
                /\ \E i \in Copies :
                     /\ Rows(line.key) = {i}
                     /\ line = [key |-> line.key, status |-> mapping[line.key][i].status,
                                cited |-> mapping[line.key][i].cited,
                                newest |-> IF line.key \in recent THEN lineage[line.key]
                                           ELSE Unseen]
<1> DEFINE Line(k, i, recent) ==
             [key |-> k, status |-> mapping[k][i].status, cited |-> mapping[k][i].cited,
              newest |-> IF k \in recent THEN lineage[k] ELSE Unseen]
<1>1. PICK recent \in Limited(Keys, ResultLimit) :
        \E rows \in Limited(Stored, ListLimit) : list = {Line(r[1], r[2], recent) : r \in rows}
  BY DEF Lists
<1>2. PICK rows \in Limited(Stored, ListLimit) : list = {Line(r[1], r[2], recent) : r \in rows}
  BY <1>1
<1>3. recent \in SUBSET Keys /\ (Cardinality(recent) = ResultLimit \/ recent = Keys)
  BY DEF Limited
<1>4. Cardinality(Keys) <= ResultLimit => recent = Keys
  <2>1. Cardinality(recent) \in Nat /\ Cardinality(Keys) \in Nat
    BY <1>3, KeysAreFinite, FS_Subset, FS_CardinalityType
  <2>2. Cardinality(recent) <= Cardinality(Keys)
        /\ (Cardinality(Keys) = Cardinality(recent) => Keys = recent)
    BY <1>3, KeysAreFinite, FS_Subset
  <2> QED
    BY <1>3, <2>1, <2>2, LimitsAreNaturals
<1>5. ASSUME NEW line \in SingleLines(list)
      PROVE  /\ line.key \in Keys
             /\ \E i \in Copies : Rows(line.key) = {i} /\ line = Line(line.key, i, recent)
  <2>1. line \in list /\ Cardinality(Rows(line.key)) = 1
    BY DEF SingleLines
  <2>2. PICK r \in rows : line = Line(r[1], r[2], recent)
    BY <1>2, <2>1
  <2>3. PICK k \in Keys : r \in {k} \X Rows(k)
    BY DEF Limited, Stored
  <2> SUFFICES ASSUME NEW i \in Rows(k), line = Line(k, i, recent)
               PROVE  /\ line.key \in Keys
                      /\ \E c \in Copies : Rows(line.key) = {c} /\ line = Line(line.key, c, recent)
    BY <2>2, <2>3
  <2>4. line.key = k
    OBVIOUS
  <2>5. IsFiniteSet(Rows(k)) /\ Rows(k) \subseteq Copies
    BY FiniteCounts
  <2>6. \E x : Rows(k) = {x}
    BY <2>1, <2>4, <2>5, FS_Singleton
  <2>7. Rows(k) = {i} /\ i \in Copies
    BY <2>5, <2>6
  <2> HIDE DEF Line
  <2> QED
    BY <2>4, <2>7
<1> QED
  BY <1>3, <1>4, <1>5

\* If the rows agree with the results, the lines of the keys with one row say so.
LEMMA LinesAgree ==
  ASSUME TypeOK, \A k \in Keys : Agrees(k), NEW list \in Lists
  PROVE  \A line \in SingleLines(list) :
           /\ line.key \in Keys /\ line.status = latest[line.key]
           /\ line.cited = line.status /\ line.newest \in {line.status, Unseen}
           /\ Cardinality(Keys) <= ResultLimit => line.newest = line.status
<1>1. PICK recent \in SUBSET Keys :
        /\ Cardinality(Keys) <= ResultLimit => recent = Keys
        /\ \A line \in SingleLines(list) :
             /\ line.key \in Keys
             /\ \E i \in Copies :
                  /\ Rows(line.key) = {i}
                  /\ line = [key |-> line.key, status |-> mapping[line.key][i].status,
                             cited |-> mapping[line.key][i].cited,
                             newest |-> IF line.key \in recent THEN lineage[line.key]
                                        ELSE Unseen]
  BY SingleLineHas
<1> QED
  BY <1>1 DEF Agrees

\* No two lines of keys with one row are of the same key.
LEMMA OneLineForAKey ==
  ASSUME TypeOK, NEW list \in Lists
  PROVE  \A x, y \in SingleLines(list) : x.key \in Keys /\ (x.key = y.key => x = y)
BY SingleLineHas

\* If the rows agree with the results, the summary counts at least what the list shows, and
\* no more if the list shows every key.
LEMMA SummaryCounts ==
  ASSUME TypeOK, \A k \in Keys : Agrees(k), NEW list \in Lists, NEW s \in Statuses,
         NEW lines, lines = SingleLines(list)
  PROVE  /\ Cardinality({line \in lines : line.status = s}) <= Summary(s)
         /\ Cardinality(lines) = Cardinality(Keys) =>
              Cardinality({line \in lines : line.status = s}) = Summary(s)
<1> DEFINE g == [line \in lines |-> line.key]
<1>1. g \in [lines -> Keys] /\ \A line \in lines : line.status = latest[line.key]
  BY LinesAgree
<1>2. \A x, y \in lines : x.key = y.key => x = y
  BY OneLineForAKey
<1>3. g \in Injection(lines, Keys)
  BY <1>1, <1>2 DEF Injection, IsInjective
<1>4. IsFiniteSet(lines) /\ (Cardinality(lines) = Cardinality(Keys) => g \in Surjection(lines, Keys))
  <2> HIDE DEF g
  <2> QED
    BY <1>3, KeysAreFinite, FS_Injection
<1>5. Cardinality(lines) = Cardinality(Keys) => \A k \in Keys : \E line \in lines : line.key = k
  BY <1>4 DEF Surjection
<1> DEFINE S == {line \in lines : line.status = s}
           T == {k \in Keys : latest[k] = s}
           h == [line \in S |-> line.key]
<1>6. h \in [S -> T] /\ \A x, y \in S : h[x] = h[y] => x = y
  BY <1>1, <1>2
<1>7. IsFiniteSet(S) /\ IsFiniteSet(T)
  BY <1>4, KeysAreFinite, FS_Subset
<1>8. Cardinality(S) <= Cardinality(T)
  <2> HIDE DEF S, T, h
  <2>1. h \in Injection(S, T)
    BY <1>6 DEF Injection, IsInjective
  <2> QED
    BY <1>7, <2>1, FS_Injection
<1>9. ASSUME Cardinality(lines) = Cardinality(Keys) PROVE Cardinality(S) = Cardinality(T)
  <2>1. \A k \in T : \E x \in S : h[x] = k
    BY <1>1, <1>5, <1>9
  <2> HIDE DEF S, T, h
  <2>2. h \in Bijection(S, T)
    BY <1>6, <2>1 DEF Bijection, Injection, Surjection, IsInjective
  <2> QED
    BY <1>7, <2>2, FS_Bijection DEF ExistsBijection
<1>10. Summary(s) = Cardinality(T)
  <2>1. CASE Keys = {}
    BY <2>1 DEF Summary
  <2>2. CASE Keys # {}
    <3>1. \E k \in Keys : latest[k] # Unseen
      BY <2>2, UnseenIsNoStatus DEF Agrees
    <3> QED
      BY <3>1 DEF Summary
  <2> QED
    BY <2>1, <2>2
<1> QED
  BY <1>8, <1>9, <1>10

LEMMA AgreedViews ==
  ASSUME IViews
  PROVE  ViewsAgree
<1>0. TypeOK /\ SettledAgrees
  BY DEF IViews, IAlerts
<1> SUFFICES ASSUME settled, NEW list \in Lists, NEW lines, lines = SingleLines(list)
             PROVE  /\ \A line \in lines : line.cited = line.status
                                           /\ line.newest \in {line.status, Unseen}
                    /\ Cardinality(Keys) <= ResultLimit =>
                         \A line \in lines : line.newest = line.status
                    /\ \A s \in Statuses :
                         /\ Cardinality({line \in lines : line.status = s}) <= Summary(s)
                         /\ Cardinality(lines) = Cardinality(Keys) =>
                              Cardinality({line \in lines : line.status = s}) = Summary(s)
  BY DEF ViewsAgree, SingleLines
<1>1. CASE \A k \in Keys : latest[k] = Unseen /\ Rows(k) = {}
  <2>1. lines = {}
    <3>1. \A line \in lines : Rows(line.key) = {} /\ \E i : Rows(line.key) = {i}
      BY <1>0, <1>1, SingleLineHas
    <3> QED
      BY <3>1
  <2>2. ASSUME NEW s \in Statuses
        PROVE  Cardinality({line \in lines : line.status = s}) = 0 /\ Summary(s) = 0
    <3>1. {line \in lines : line.status = s} = {}
          /\ {k \in Keys : \E i \in Rows(k) : mapping[k][i].status = s} = {}
      BY <1>1, <2>1
    <3> QED
      BY <1>1, <3>1, FS_EmptySet DEF Summary
  <2> QED
    BY <2>1, <2>2
<1>2. CASE \A k \in Keys : Agrees(k)
  BY <1>0, <1>2, LinesAgree, SummaryCounts
<1> QED
  BY <1>0, <1>1, <1>2 DEF SettledAgrees

\* After an audit that ran alone, the list and the summary of api/compliance.py say what the
\* audit found, of every asset and control that has one mapping, for any limits of the list
\* and any earlier history of audits that overlapped, failed or overtook each other.
THEOREM SettledViewsAgree == Spec => []ViewsAgree
<1>1. Init => IViews
  <2> SUFFICES ASSUME Init PROVE AloneSeesAll /\ SettledAgrees
    BY AlertsInit DEF IViews
  <2>1. AloneSeesAll
    BY DEF Init, AloneSeesAll
  <2>2. SettledAgrees
    BY DEF Init, SettledAgrees, Rows
  <2> QED
    BY <2>1, <2>2
<1>2. IViews /\ [Next]_vars => IViews'
  BY ViewsStep
<1>3. IViews => ViewsAgree
  BY AgreedViews
<1> QED
  BY <1>1, <1>2, <1>3, PTL DEF Spec
=============================================================================
