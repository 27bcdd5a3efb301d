------------------------ MODULE UpdateProposalsProofs ------------------------
(***************************************************************************)
(* Theorems about UpdateProposals, for every value of its constants.       *)
(*                                                                         *)
(* A task's commit writes rows it read earlier, so no safety property of   *)
(* the table is inductive by itself: each needs to know what the running   *)
(* task still holds.  JobHolds says it, and rests on one fact: the worker  *)
(* runs one task at a time, and only tasks remove rows or change the       *)
(* inventory.                                                              *)
(***************************************************************************)
EXTENDS UpdateProposals, TLAPS

\* Two proposals of one fix.
SameUpdate(i, j) ==
  proposal[i].pkg = proposal[j].pkg /\ proposal[i].target = proposal[j].target

JobHolds ==
  /\ \A i \in job.ids : Exists(i)
  /\ job.task \in {"apply", "rollback"} => \A i \in job.ids : proposal[i].by
  /\ job.task = "validate" =>
       \A i \in job.ids :
         /\ Matches(proposal[i].pkg, proposal[i].current)
         /\ \A j \in job.ids \union WithStatus(Pending) : SameUpdate(i, j) => i = j
  /\ job.task = "propose" =>
       /\ scan.status = "success"
       /\ \A e \in job.plan :
            /\ Matches(e.pkg, e.current)
            /\ \A f \in job.plan : e.pkg = f.pkg => e = f
            /\ \A j \in WithStatus(Pending) :
                 ~(proposal[j].pkg = e.pkg /\ proposal[j].target = e.target)

IInv ==
  /\ TypeOK
  /\ JobHolds
  /\ PatchNeedsApproval
  /\ PendingMatchesInventory
  /\ OnePendingPerFix

-----------------------------------------------------------------------------
\* Facts about the records the worker and the API are made of.

LEMMA IdleFields ==
  /\ Idle.task = "idle" /\ Idle.id = AllRows /\ Idle.ids = {} /\ Idle.plan = {}
  /\ Idle.skip = {}
BY DEF Idle

LEMMA RunningFields ==
  ASSUME NEW m, NEW ids, NEW plan, NEW skip
  PROVE  /\ Running(m, ids, plan, skip).task = m.task
         /\ Running(m, ids, plan, skip).id = m.id
         /\ Running(m, ids, plan, skip).ids = ids
         /\ Running(m, ids, plan, skip).plan = plan
         /\ Running(m, ids, plan, skip).skip = skip
BY DEF Running

\* The task of the message is the task the worker runs: no message is "idle".
LEMMA IdleIsNoTask == "idle" \notin Tasks
BY DEF Tasks

\* The initial state satisfies the inductive invariant.
LEMMA InitIInv == Init => IInv
<1> SUFFICES ASSUME Init PROVE IInv
  OBVIOUS
<1>1. TypeOK
  <2>1. /\ runtime \in [Packages -> Versions \union {NoVersion}]
        /\ inventory \in [Packages -> Versions \union {NoVersion}]
        /\ findings \in [Packages -> SUBSET Advisories]
        /\ suppressed \in [Packages -> SUBSET Advisories]
        /\ blocked \subseteq Packages
        /\ settings \in [excluded: SUBSET Packages, aiRequired: BOOLEAN]
        /\ scan \in [status: {"never", "running", "success", "failed"}, fresh: BOOLEAN]
    BY DEF Init
  <2>2. proposal \in [Ids -> Row \union {NoRow, DeletedRow}]
    BY DEF Init
  <2>3. job \in JobRecord
    BY DEF Init, Idle, JobRecord
  <2>4. request \in [Admins -> [op: {"none", "approve", "reject", "apply"},
                               id: Ids \union {AllRows}, seen: Statuses \union {"none"}]]
    BY DEF Init, NoRequest
  <2>5. deploys \in 0..MaxDeploys /\ crashes \in 0..MaxCrashes /\ edits \in 0..MaxEdits
    BY BoundsAreNaturals DEF Init
  <2>6. signal \in BOOLEAN /\ queue \subseteq Message
    BY DEF Init
  <2>7. QED
    BY <2>1, <2>2, <2>3, <2>4, <2>5, <2>6 DEF TypeOK
<1>2. \A i \in Ids : proposal[i].status = "none"
  BY DEF Init, NoRow
<1>3. JobHolds
  BY DEF Init, JobHolds, Idle
<1>4. PatchNeedsApproval /\ PendingMatchesInventory /\ OnePendingPerFix
  BY <1>2 DEF PatchNeedsApproval, PendingMatchesInventory, OnePendingPerFix, WithStatus, Pending
<1>5. QED
  BY <1>1, <1>3, <1>4 DEF IInv

-----------------------------------------------------------------------------
\* Every step keeps the types.

LEMMA TaskFieldsTyped ==
  ASSUME TypeOK
  PROVE  /\ job.task \in Tasks \union {"idle"} /\ job.id \in Ids \union {AllRows}
         /\ job.ids \subseteq Ids /\ job.plan \subseteq PlanEntry /\ job.skip \subseteq Packages
BY DEF TypeOK, JobRecord

LEMMA JobTyped ==
  ASSUME NEW m \in Message, NEW ids \in SUBSET Ids, NEW plan \in SUBSET PlanEntry,
         NEW skip \in SUBSET Packages
  PROVE  Running(m, ids, plan, skip) \in JobRecord
BY DEF Running, JobRecord, Message

LEMMA IdleTyped == Idle \in JobRecord
BY DEF Idle, JobRecord

\* Starting a task keeps the types.
LEMMA StartTypes ==
  ASSUME TypeOK, NEW m \in Message, Start(m)
  PROVE  TypeOK'
<1>1. queue' \subseteq Message
  BY DEF TypeOK, Start, ScanStart, ProposeStart, ValidateStart, ApplyStart, RollbackStart, Take
<1>2. job' \in JobRecord
  <2>1. CASE ScanStart(m)
    BY <2>1, JobTyped, IdleTyped DEF ScanStart, TypeOK
  <2>2. CASE ProposeStart(m)
    <3>1. Planned \subseteq PlanEntry /\ {p \in Considered : Fixes(p) = {}} \subseteq Packages
      BY DEF Planned, Considered
    <3>2. job' \in {Running(m, {}, Planned, {p \in Considered : Fixes(p) = {}}), Idle}
      BY <2>2 DEF ProposeStart
    <3>3. QED
      BY <3>1, <3>2, JobTyped, IdleTyped
  <2>3. CASE ValidateStart(m)
    <3>1. PICK batch \in SUBSET Ids : job' \in {Running(m, batch, {}, {}), Idle}
      BY <2>3 DEF ValidateStart, WithStatus
    <3>2. QED
      BY <3>1, JobTyped, IdleTyped
  <2>4. CASE ApplyStart(m)
    BY <2>4, JobTyped, IdleTyped DEF ApplyStart, Candidates, WithStatus
  <2>5. CASE RollbackStart(m)
    <3>1. m.id \in WithStatus({"ready_for_pr"}) => {m.id} \subseteq Ids
      BY DEF WithStatus
    <3>2. QED
      BY <2>5, <3>1, JobTyped, IdleTyped DEF RollbackStart
  <2>6. QED
    BY <2>1, <2>2, <2>3, <2>4, <2>5 DEF Start
<1>3. scan' \in [status: {"never", "running", "success", "failed"}, fresh: BOOLEAN]
  BY DEF TypeOK, Start, ScanStart, ProposeStart, ValidateStart, ApplyStart, RollbackStart, scanned
<1>4. UNCHANGED <<runtime, inventory, findings, suppressed, blocked, settings, proposal, signal,
                  request, deploys, crashes, edits>>
  BY DEF Start, ScanStart, ProposeStart, ValidateStart, ApplyStart, RollbackStart, scanned, bounds
<1>5. QED
  BY <1>1, <1>2, <1>3, <1>4 DEF TypeOK

\* A task's commit leaves the worker idle and everything else typed.
LEMMA CompleteTypes ==
  ASSUME IInv, Complete
  PROVE  TypeOK'
<1> USE DEF IInv
<1>1. job' \in JobRecord /\ UNCHANGED queue
  <2>1. job' = Idle /\ UNCHANGED queue
    BY DEF Complete, ScanFail, ScanFinish, ScanAbort, ProposeFinish, ValidateFinish,
           ApplyFinish, RollbackFinish, Finish
  <2>2. QED
    BY <2>1, IdleTyped
<1>2. /\ UNCHANGED <<runtime, settings, request, deploys, crashes, edits>>
      /\ inventory' \in [Packages -> Versions \union {NoVersion}]
      /\ findings' \in [Packages -> SUBSET Advisories]
      /\ suppressed' \in [Packages -> SUBSET Advisories]
      /\ blocked' \subseteq Packages
      /\ scan' \in [status: {"never", "running", "success", "failed"}, fresh: BOOLEAN]
      /\ signal' \in BOOLEAN
  <2>1. CASE ScanFail
    BY <2>1 DEF TypeOK, ScanFail, bounds
  <2>2. ASSUME NEW answer \in Answers, ScanFinish(answer)
        PROVE  <1>2
    BY <2>2 DEF TypeOK, ScanFinish, SignalAfter, Answers, bounds
  <2>3. CASE ScanAbort
    BY <2>3 DEF TypeOK, ScanAbort, scanned, bounds
  <2>4. CASE ProposeFinish
    BY <2>4, TaskFieldsTyped DEF TypeOK, ProposeFinish, bounds
  <2>5. CASE ValidateFinish
    BY <2>5 DEF TypeOK, ValidateFinish, scanned, bounds
  <2>6. ASSUME NEW ok \in SUBSET job.ids, ApplyFinish(ok)
        PROVE  <1>2
    BY <2>6 DEF TypeOK, ApplyFinish, scanned, bounds
  <2>7. CASE RollbackFinish
    BY <2>7 DEF TypeOK, RollbackFinish, scanned, bounds
  <2>8. QED
    BY <2>1, <2>2, <2>3, <2>4, <2>5, <2>6, <2>7 DEF Complete
<1>3. proposal' \in [Ids -> Row \union {NoRow, DeletedRow}]
  <2>0. \A i \in job.ids : proposal[i] \in Row
    BY TaskFieldsTyped DEF TypeOK, JobHolds, Exists, NoRow, DeletedRow, Statuses
  <2>1. CASE ScanFail \/ ScanAbort
    BY <2>1 DEF TypeOK, ScanFail, ScanAbort
  <2>2. ASSUME NEW answer \in Answers, ScanFinish(answer)
        PROVE  <1>3
    BY <2>2 DEF TypeOK, ScanFinish, Superseded, Exists, Row, NoRow, DeletedRow, Statuses
  <2>4. CASE ProposeFinish
    BY <2>4, TaskFieldsTyped DEF TypeOK, ProposeFinish, Row, PlanEntry, Statuses
  <2>5. CASE ValidateFinish
    BY <2>5, <2>0 DEF TypeOK, ValidateFinish, SetStatus, Row, Statuses
  <2>6. ASSUME NEW ok \in SUBSET job.ids, ApplyFinish(ok)
        PROVE  <1>3
    <3>1. \A i \in job.ids :
            /\ [proposal[i] EXCEPT !.status = "ready_for_pr", !.patch = TRUE] \in Row
            /\ [proposal[i] EXCEPT !.status = "failed"] \in Row
      BY <2>0 DEF Row, Statuses
    <3>2. QED
      BY <2>6, <3>1 DEF TypeOK, ApplyFinish
  <2>7. CASE RollbackFinish
    <3>1. \A i \in job.ids : Cancelled(proposal[i]) \in Row
      BY <2>0 DEF Cancelled, Row, Statuses
    <3>2. QED
      BY <2>7, <3>1 DEF TypeOK, RollbackFinish
  <2>8. QED
    BY <2>1, <2>2, <2>4, <2>5, <2>6, <2>7 DEF Complete
<1>4. QED
  BY <1>1, <1>2, <1>3 DEF TypeOK

\* A step of the API or of the environment keeps the types.
LEMMA OtherTypes ==
  ASSUME IInv, [Next]_vars, ~Complete, \A m \in Message : ~Start(m)
  PROVE  TypeOK'
<1> USE DEF IInv
<1>1. CASE Crash
  <2>1. {Msg(job.task, job.id)} \subseteq Message
    BY <1>1, TaskFieldsTyped DEF Crash, Msg, Message
  <2>2. QED
    BY <1>1, <2>1, IdleTyped, BoundsAreNaturals DEF TypeOK, Crash, scanned
<1>2. CASE Kill
  BY <1>2, IdleTyped, BoundsAreNaturals DEF TypeOK, Kill, Finish, scanned
<1>3. ASSUME NEW a \in Admins, NEW op \in {"approve", "reject", "apply"}, NEW i \in Ids,
             ReadProposal(a, op, i)
      PROVE  TypeOK'
  BY <1>3 DEF TypeOK, ReadProposal, Exists, scanned, worker, bounds
<1>4. ASSUME NEW a \in Admins, CommitApprove(a) \/ CommitReject(a)
      PROVE  TypeOK'
  <2>1. Exists(request[a].id)
    BY <1>4 DEF CommitApprove, CommitReject
  <2>2. request[a].id \in Ids => proposal[request[a].id] \in Row
    BY <2>1 DEF TypeOK, Exists, NoRow, DeletedRow, Statuses
  <2>3. proposal' \in [Ids -> Row \union {NoRow, DeletedRow}]
    <3>1. request[a].id \in Ids =>
            /\ [proposal[request[a].id] EXCEPT !.status = "approved", !.by = TRUE] \in Row
            /\ [proposal[request[a].id] EXCEPT !.status = "rejected"] \in Row
      BY <2>2 DEF Row, Statuses
    <3>2. QED
      BY <1>4, <3>1 DEF TypeOK, CommitApprove, CommitReject
  <2>4. request' \in [Admins -> [op: {"none", "approve", "reject", "apply"},
                                 id: Ids \union {AllRows}, seen: Statuses \union {"none"}]]
    BY <1>4 DEF TypeOK, CommitApprove, CommitReject, Respond, NoRequest
  <2>5. QED
    BY <1>4, <2>3, <2>4 DEF TypeOK, CommitApprove, CommitReject, scanned, worker, bounds
<1>5. ASSUME NEW a \in Admins, CommitApply(a) \/ FailRequest(a)
      PROVE  TypeOK'
  <2>1. request' \in [Admins -> [op: {"none", "approve", "reject", "apply"},
                                 id: Ids \union {AllRows}, seen: Statuses \union {"none"}]]
    BY <1>5 DEF TypeOK, CommitApply, FailRequest, Respond, NoRequest
  <2>2. queue' \subseteq Message
    BY <1>5 DEF TypeOK, CommitApply, FailRequest, worker, Msg, Message, Tasks
  <2>3. QED
    BY <1>5, <2>1, <2>2 DEF TypeOK, CommitApply, FailRequest, scanned, worker, bounds
<1>6. ASSUME NEW i \in Ids, RequestRollback(i)
      PROVE  TypeOK'
  BY <1>6 DEF TypeOK, RequestRollback, scanned, bounds, Msg, Message, Tasks
<1>7. ASSUME NEW p \in Packages, NEW a \in Advisories, SuppressFinding(p, a)
      PROVE  TypeOK'
  BY <1>7, BoundsAreNaturals DEF TypeOK, SuppressFinding, worker
<1>8. ASSUME NEW S \in SUBSET Packages, NEW b \in BOOLEAN, UpdateSettings(S, b)
      PROVE  TypeOK'
  BY <1>8, BoundsAreNaturals DEF TypeOK, UpdateSettings, scanned, worker
<1>9. CASE ResolveAlert
  BY <1>9 DEF TypeOK, ResolveAlert, worker, bounds
<1>10. CASE ScanAges
  BY <1>10 DEF TypeOK, ScanAges, worker, bounds
<1>11. ASSUME NEW p \in Packages, NEW v \in Versions \union {NoVersion}, Redeploy(p, v)
       PROVE  TypeOK'
  BY <1>11, BoundsAreNaturals DEF TypeOK, Redeploy, scanned, worker
<1>12. CASE UNCHANGED vars
  BY <1>12 DEF TypeOK, vars
<1>13. QED
  BY <1>1, <1>2, <1>3, <1>4, <1>5, <1>6, <1>7, <1>8, <1>9, <1>10, <1>11, <1>12 DEF Next

\* Steps keep the types.
LEMMA TypeStep == IInv /\ [Next]_vars => TypeOK'
BY StartTypes, CompleteTypes, OtherTypes DEF IInv

-----------------------------------------------------------------------------
\* The rest of the inductive invariant.

Holds == JobHolds /\ PatchNeedsApproval /\ PendingMatchesInventory /\ OnePendingPerFix

\* A step that leaves the table and the inventory alone, and the task too
\* unless it ends, keeps the invariant.
LEMMA Frame ==
  ASSUME IInv, UNCHANGED <<proposal, inventory, findings>>,
         \/ job' = Idle
         \/ UNCHANGED <<job, scan>>
         \/ job'.task = "scan" /\ job'.ids = {}
         \/ job' = job /\ scan'.status = scan.status
  PROVE  Holds'
<1>1. PatchNeedsApproval' /\ PendingMatchesInventory' /\ OnePendingPerFix'
  BY DEF IInv, PatchNeedsApproval, PendingMatchesInventory, OnePendingPerFix, WithStatus,
         Matches, Pending
<1>2. JobHolds'
  <2>1. CASE job' = Idle \/ (job'.task = "scan" /\ job'.ids = {})
    BY <2>1 DEF JobHolds, Idle
  <2>2. CASE job' = job /\ scan'.status = scan.status
    BY <2>2 DEF IInv, JobHolds, WithStatus, Exists, Matches, SameUpdate
  <2>3. CASE UNCHANGED <<job, scan>>
    BY <2>3, <2>2
  <2>4. QED
    BY <2>1, <2>2, <2>3
<1>3. QED
  BY <1>1, <1>2 DEF Holds

\* A task that starts holds rows of the status it looked for.
LEMMA StartHolds ==
  ASSUME IInv, NEW m \in Message, Start(m)
  PROVE  Holds'
<1> USE DEF IInv
<1>0. UNCHANGED <<proposal, inventory, findings>>
  BY DEF Start, ScanStart, ProposeStart, ValidateStart, ApplyStart, RollbackStart, scanned
<1>1. CASE ScanStart(m)
  <2>1. job'.task = "scan" /\ job'.ids = {}
    BY <1>1, RunningFields DEF ScanStart
  <2>2. QED
    BY <1>0, <2>1, Frame
<1>2. CASE job' = Idle
  BY <1>0, <1>2, Frame
<1>3. PatchNeedsApproval' /\ PendingMatchesInventory' /\ OnePendingPerFix'
  BY <1>0 DEF PatchNeedsApproval, PendingMatchesInventory, OnePendingPerFix, WithStatus,
              Matches, Pending
<1>4. ASSUME ProposeStart(m), job' # Idle
      PROVE  JobHolds'
  <2>1. job'.task = "propose" /\ job'.ids = {} /\ job'.plan = Planned
    BY <1>4, RunningFields DEF ProposeStart
  <2>2. scan.status = "success" /\ scan' = scan
    BY <1>4 DEF ProposeStart, ScanIsRecent, scanned
  <2>3. ASSUME NEW e \in Planned
        PROVE  /\ Matches(e.pkg, e.current)
               /\ \A f \in Planned : e.pkg = f.pkg => e = f
               /\ \A j \in WithStatus(Pending) :
                    ~(proposal[j].pkg = e.pkg /\ proposal[j].target = e.target)
    <3>1. Matches(e.pkg, e.current)
      BY <2>3 DEF Planned, Considered, Matches
    <3>2. ASSUME NEW f \in Planned, e.pkg = f.pkg
          PROVE  e = f
      <4>1. e.target \in Versions /\ f.target \in Versions
        BY DEF Planned, PlanEntry
      <4>2. e.target = f.target
        <5>1. IsTarget(e.pkg, e.target) /\ IsTarget(e.pkg, f.target)
          BY <3>2 DEF Planned
        <5>2. e.target <= f.target /\ f.target <= e.target
          BY <5>1 DEF IsTarget
        <5>3. \A x, y \in Nat : x <= y /\ y <= x => x = y
          OBVIOUS
        <5>4. e.target \in Nat /\ f.target \in Nat
          BY <4>1, VersionsAreOrdered
        <5>5. QED
          BY <5>2, <5>3, <5>4
      <4>3. QED
        BY <3>2, <4>2 DEF Planned, PlanEntry
    <3>3. ASSUME NEW j \in WithStatus(Pending), proposal[j].pkg = e.pkg,
                 proposal[j].target = e.target
          PROVE  FALSE
      <4>1. j \in SameFix(e.pkg, e.target)
        BY <3>3 DEF SameFix, WithStatus, Pending, Live
      <4>2. QED
        BY <4>1 DEF Planned
    <3>4. QED
      BY <3>1, <3>2, <3>3
  <2>4. QED
    BY <1>0, <2>1, <2>2, <2>3 DEF JobHolds, WithStatus, Matches
<1>5. ASSUME ValidateStart(m), job' # Idle
      PROVE  JobHolds'
  <2>1. PICK batch \in SUBSET WithStatus({"proposed"}) : job' = Running(m, batch, {}, {})
    BY <1>5 DEF ValidateStart
  <2>2. job'.task = "validate" /\ job'.ids = batch
    BY <1>5, <2>1, RunningFields DEF ValidateStart
  <2>3. batch \subseteq WithStatus(Pending)
    BY <2>1 DEF WithStatus, Pending
  <2>4. \A i \in batch : Exists(i)
    BY <2>1 DEF WithStatus, Exists, Statuses
  <2>5. QED
    BY <1>0, <2>2, <2>3, <2>4
    DEF JobHolds, WithStatus, Exists, Matches, SameUpdate, OnePendingPerFix, PendingMatchesInventory
<1>6. ASSUME ApplyStart(m), job' # Idle
      PROVE  JobHolds'
  <2>1. job'.task = "apply" /\ job'.ids = Candidates(m)
    BY <1>6, RunningFields DEF ApplyStart
  <2>2. \A i \in Candidates(m) : Exists(i) /\ proposal[i].by
    BY DEF Candidates, WithStatus, Exists, Statuses, PatchNeedsApproval
  <2>3. QED
    BY <1>0, <2>1, <2>2 DEF JobHolds, Exists
<1>7. ASSUME RollbackStart(m), job' # Idle
      PROVE  JobHolds'
  <2>1. job'.task = "rollback" /\ job'.ids = {m.id} /\ m.id \in WithStatus({"ready_for_pr"})
    BY <1>7, RunningFields DEF RollbackStart
  <2>2. Exists(m.id) /\ proposal[m.id].by
    BY <2>1 DEF WithStatus, Exists, Statuses, PatchNeedsApproval
  <2>3. QED
    BY <1>0, <2>1, <2>2 DEF JobHolds, Exists
<1>8. QED
  BY <1>1, <1>2, <1>3, <1>4, <1>5, <1>6, <1>7 DEF Start, Holds

\* A commit that only moves decided statuses around, and releases the worker:
\* no row becomes pending, and what it writes keeps its approval and its patch.
LEMMA Released ==
  ASSUME IInv, job' = Idle, UNCHANGED <<inventory, findings>>,
         \A i \in Ids : \/ proposal'[i] = proposal[i]
                       \/ /\ proposal'[i].status \in {"rejected", "failed"}
                          /\ proposal'[i].status \notin Pending
                       \/ /\ proposal'[i].status \in {"approved", "ready_for_pr"}
                          /\ proposal'[i].by
                          /\ proposal'[i].status = "ready_for_pr" => proposal'[i].patch
  PROVE  Holds'
<1>1. JobHolds'
  BY DEF JobHolds, Idle
<1>2. PatchNeedsApproval'
  BY DEF IInv, PatchNeedsApproval, WithStatus
<1>3. \A i \in Ids : proposal'[i].status \in Pending => proposal'[i] = proposal[i]
  BY DEF Pending
<1>4. PendingMatchesInventory' /\ OnePendingPerFix'
  BY <1>3 DEF IInv, PendingMatchesInventory, OnePendingPerFix, WithStatus, Matches
<1>5. QED
  BY <1>1, <1>2, <1>4 DEF Holds

\* A refreshed inventory rejects the proposals it does not match.
LEMMA ScanHolds ==
  ASSUME IInv, NEW answer \in Answers, ScanFinish(answer)
  PROVE  Holds'
<1> USE DEF IInv
<1>1. JobHolds'
  BY DEF ScanFinish, Finish, JobHolds, Idle
<1>2. ASSUME NEW i \in Ids, proposal'[i].status \in {"approved", "ready_for_pr"} \union Pending
      PROVE  /\ proposal'[i] = proposal[i] /\ Exists(i) /\ proposal[i].pkg \in Installed
             /\ ~Superseded(proposal[i], answer)
  <2>1. proposal'[i] =
          CASE Exists(i) /\ proposal[i].pkg \notin Installed -> DeletedRow
            [] Exists(i) /\ Superseded(proposal[i], answer)
                 -> [proposal[i] EXCEPT !.status = "rejected"]
            [] OTHER -> proposal[i]
    BY DEF ScanFinish
  <2>2. DeletedRow.status = "deleted"
    BY DEF DeletedRow
  <2>3. ~(Exists(i) /\ proposal[i].pkg \notin Installed)
    BY <1>2, <2>1, <2>2 DEF Pending
  <2>4. ~(Exists(i) /\ Superseded(proposal[i], answer))
    <3>1. Exists(i) => proposal[i] \in Row
      BY DEF TypeOK, Exists, NoRow, DeletedRow, Statuses
    <3>2. QED
      BY <1>2, <2>1, <2>3, <3>1 DEF Pending, Row, Superseded
  <2>5. proposal'[i] = proposal[i]
    BY <2>1, <2>3, <2>4
  <2>6. Exists(i)
    BY <1>2, <2>5 DEF Exists, Pending, Statuses
  <2>7. QED
    BY <2>3, <2>4, <2>5, <2>6
<1>3. PatchNeedsApproval'
  BY <1>2 DEF PatchNeedsApproval, WithStatus
<1>4. PendingMatchesInventory'
  <2>1. inventory' = runtime /\ findings' = answer
    BY DEF ScanFinish
  <2>2. ASSUME NEW i \in Ids, proposal'[i].status \in Pending
        PROVE  runtime[proposal[i].pkg] = proposal[i].current /\ answer[proposal[i].pkg] # {}
    BY <1>2, <2>2 DEF Superseded, Live, Pending
  <2>3. QED
    BY <1>2, <2>1, <2>2 DEF PendingMatchesInventory, WithStatus, Matches
<1>5. OnePendingPerFix'
  BY <1>2 DEF OnePendingPerFix, WithStatus
<1>6. QED
  BY <1>1, <1>3, <1>4, <1>5 DEF Holds

\* New proposals are about the inventory and about no fix that already waits.
LEMMA ProposeHolds ==
  ASSUME IInv, ProposeFinish
  PROVE  Holds'
<1> USE DEF IInv
<1> DEFINE Created(new, entry) ==
             /\ \A i, j \in new : entry[i] = entry[j] => i = j
             /\ proposal' = [i \in Ids |->
                  IF i \in new
                  THEN [status |-> "proposed", pkg |-> entry[i].pkg,
                        current |-> entry[i].current, target |-> entry[i].target,
                        by |-> FALSE, patch |-> FALSE]
                  ELSE proposal[i]]
<1>0. PICK new \in SUBSET WithStatus({"none"}) :
        \E entry \in [new -> job.plan] : Created(new, entry)
  BY DEF ProposeFinish
<1>1. PICK entry \in [new -> job.plan] : Created(new, entry)
  BY <1>0
<1>2. \A i \in new : /\ proposal'[i].status = "proposed"
                    /\ proposal'[i].pkg = entry[i].pkg
                    /\ proposal'[i].current = entry[i].current
                    /\ proposal'[i].target = entry[i].target
                    /\ entry[i] \in job.plan
  BY <1>1 DEF WithStatus
<1>3. \A i \in Ids \ new : proposal'[i] = proposal[i]
  BY <1>1
<1>4. UNCHANGED <<inventory, findings>> /\ job' = Idle /\ job.task = "propose"
  BY DEF ProposeFinish, Finish
<1>5. JobHolds'
  BY <1>4 DEF JobHolds, Idle
<1>6. PatchNeedsApproval'
  BY <1>2, <1>3 DEF PatchNeedsApproval, WithStatus
<1>7. PendingMatchesInventory'
  <2>1. \A i \in new : Matches(entry[i].pkg, entry[i].current)
    BY <1>2, <1>4 DEF JobHolds
  <2>2. QED
    BY <1>2, <1>3, <1>4, <2>1 DEF PendingMatchesInventory, WithStatus, Matches
<1>8. OnePendingPerFix'
  <2>1. ASSUME NEW i \in new, NEW j \in new, entry[i].pkg = entry[j].pkg
        PROVE  i = j
    BY <1>1, <1>2, <1>4, <2>1 DEF JobHolds
  <2>2. ASSUME NEW i \in new, NEW j \in Ids \ new, proposal[j].status \in Pending
        PROVE  ~(proposal[j].pkg = entry[i].pkg /\ proposal[j].target = entry[i].target)
    BY <1>2, <1>4, <2>2 DEF JobHolds, WithStatus
  <2>3. QED
    BY <1>2, <1>3, <2>1, <2>2 DEF OnePendingPerFix, WithStatus
<1>9. QED
  BY <1>5, <1>6, <1>7, <1>8 DEF Holds

\* The AI validation writes back rows that still match the inventory, and that
\* no other waiting row duplicates, whatever was decided about them meanwhile.
LEMMA ValidateHolds ==
  ASSUME IInv, ValidateFinish
  PROVE  Holds'
<1> USE DEF IInv
<1>1. \A i \in Ids \ job.ids : proposal'[i] = proposal[i]
  BY DEF ValidateFinish, SetStatus
<1>2. \A i \in job.ids : /\ proposal'[i].status = "ai_validated"
                        /\ proposal'[i].pkg = proposal[i].pkg
                        /\ proposal'[i].current = proposal[i].current
                        /\ proposal'[i].target = proposal[i].target
  <2>1. \A i \in job.ids : proposal[i] \in Row
    BY TaskFieldsTyped DEF TypeOK, JobHolds, Exists, NoRow, DeletedRow, Statuses
  <2>2. \A i \in job.ids : proposal'[i] = [proposal[i] EXCEPT !.status = "ai_validated"]
    BY TaskFieldsTyped DEF ValidateFinish, SetStatus
  <2>3. QED
    BY <2>1, <2>2 DEF Row
<1>3. UNCHANGED <<inventory, findings>> /\ job' = Idle /\ job.task = "validate"
  BY DEF ValidateFinish, Finish, scanned
<1>4. JobHolds'
  BY <1>3 DEF JobHolds, Idle
<1>5. PatchNeedsApproval'
  BY <1>1, <1>2 DEF PatchNeedsApproval, WithStatus
<1>6. PendingMatchesInventory'
  BY <1>1, <1>2, <1>3 DEF PendingMatchesInventory, WithStatus, Matches, JobHolds
<1>7. OnePendingPerFix'
  BY <1>1, <1>2, <1>3, TaskFieldsTyped DEF OnePendingPerFix, WithStatus, JobHolds, SameUpdate
<1>8. QED
  BY <1>4, <1>5, <1>6, <1>7 DEF Holds

\* Patches are prepared for, and given back to, proposals that were approved.
LEMMA PatchHolds ==
  ASSUME IInv, RollbackFinish \/ \E ok \in SUBSET job.ids : ApplyFinish(ok)
  PROVE  Holds'
<1> USE DEF IInv
<1>1. job' = Idle /\ UNCHANGED <<inventory, findings>>
  BY DEF RollbackFinish, ApplyFinish, Finish, scanned
<1>2. \A i \in job.ids : proposal[i] \in Row /\ proposal[i].by
  <2>1. \A i \in job.ids : proposal[i] \in Row
    BY TaskFieldsTyped DEF TypeOK, JobHolds, Exists, NoRow, DeletedRow, Statuses
  <2>2. QED
    BY <2>1 DEF RollbackFinish, ApplyFinish, JobHolds
<1>3. ASSUME NEW i \in Ids
      PROVE  \/ proposal'[i] = proposal[i]
             \/ /\ proposal'[i].status \in {"rejected", "failed"}
                /\ proposal'[i].status \notin Pending
             \/ /\ proposal'[i].status \in {"approved", "ready_for_pr"}
                /\ proposal'[i].by
                /\ proposal'[i].status = "ready_for_pr" => proposal'[i].patch
  <2>1. CASE RollbackFinish
    <3>1. i \notin job.ids => proposal'[i] = proposal[i]
      BY <2>1 DEF RollbackFinish
    <3>2. i \in job.ids => proposal'[i].status = "approved" /\ proposal'[i].by
      BY <2>1, <1>2 DEF RollbackFinish, Cancelled, Row
    <3>3. QED
      BY <3>1, <3>2
  <2>2. ASSUME NEW ok \in SUBSET job.ids, ApplyFinish(ok)
        PROVE  <1>3!2
    <3>1. i \notin job.ids => proposal'[i] = proposal[i]
      BY <2>2 DEF ApplyFinish
    <3>2. i \in ok => /\ proposal'[i].status = "ready_for_pr"
                     /\ proposal'[i].by /\ proposal'[i].patch
      <4>1. i \in ok => proposal'[i] = [proposal[i] EXCEPT !.status = "ready_for_pr", !.patch = TRUE]
        BY <2>2 DEF ApplyFinish
      <4>2. QED
        BY <2>2, <1>2, <4>1 DEF Row
    <3>3. i \in job.ids \ ok => proposal'[i].status = "failed"
      <4>1. i \in job.ids \ ok => proposal'[i] = [proposal[i] EXCEPT !.status = "failed"]
        BY <2>2 DEF ApplyFinish
      <4>2. QED
        BY <1>2, <4>1 DEF Row
    <3>4. QED
      BY <3>1, <3>2, <3>3 DEF Pending
  <2>3. QED
    BY <2>1, <2>2
<1>4. QED
  BY <1>1, <1>3, Released

\* A decision committed while a task runs: the row the task holds still exists,
\* and an approval or a rejection adds no waiting row.
LEMMA DecisionHolds ==
  ASSUME IInv, NEW a \in Admins, CommitApprove(a) \/ CommitReject(a)
  PROVE  Holds'
<1> USE DEF IInv
<1> DEFINE d == request[a].id
<1>1. Exists(d) /\ UNCHANGED <<inventory, findings, job, scan>>
  BY DEF CommitApprove, CommitReject, scanned, worker
<1>2. \A i \in Ids : i # d => proposal'[i] = proposal[i]
  BY DEF TypeOK, CommitApprove, CommitReject
<1>3. d \in Ids =>
        /\ proposal[d] \in Row
        /\ proposal'[d].pkg = proposal[d].pkg
        /\ proposal'[d].current = proposal[d].current
        /\ proposal'[d].target = proposal[d].target
        /\ proposal[d].by => proposal'[d].by
        /\ proposal'[d].status \in Statuses
        /\ \/ proposal'[d].status = "approved" /\ proposal'[d].by
           \/ proposal'[d].status = "rejected"
           \/ proposal'[d] = proposal[d]
  <2>1. d \in Ids => proposal[d] \in Row
    BY <1>1 DEF TypeOK, Exists, NoRow, DeletedRow, Statuses
  <2>2. CASE CommitApprove(a)
    <3>1. d \in Ids => proposal'[d] = [proposal[d] EXCEPT !.status = "approved", !.by = TRUE]
      BY <2>2 DEF TypeOK, CommitApprove
    <3>2. QED
      BY <2>1, <3>1 DEF Row, Statuses
  <2>3. CASE CommitReject(a)
    <3>1. d \in Ids => \/ proposal'[d] = proposal[d]
                       \/ proposal'[d] = [proposal[d] EXCEPT !.status = "rejected"]
      BY <2>3 DEF TypeOK, CommitReject
    <3>2. QED
      BY <1>1, <2>1, <3>1 DEF Row, Statuses, Exists
  <2>4. QED
    BY <2>2, <2>3
<1>4. \A i \in WithStatus(Pending)' : proposal'[i] = proposal[i] /\ i \in WithStatus(Pending)
  BY <1>2, <1>3 DEF WithStatus, Pending
<1>5. \A i \in Ids : /\ proposal'[i].pkg = proposal[i].pkg
                    /\ proposal'[i].current = proposal[i].current
                    /\ proposal'[i].target = proposal[i].target
  BY <1>2, <1>3
<1>6. JobHolds'
  <2>1. \A i \in job.ids : Exists(i)'
    <3>1. \A i \in job.ids : proposal'[i].status \in Statuses
      BY <1>2, <1>3, TaskFieldsTyped DEF JobHolds, Exists
    <3>2. QED
      BY <3>1 DEF Exists
  <2>2. job.task \in {"apply", "rollback"} => \A i \in job.ids : proposal'[i].by
    BY <1>2, <1>3, TaskFieldsTyped DEF JobHolds
  <2>3. job.task = "validate" =>
          \A i \in job.ids :
            /\ Matches(proposal[i].pkg, proposal[i].current)'
            /\ \A j \in job.ids \union WithStatus(Pending)' : SameUpdate(i, j)' => i = j
    BY <1>1, <1>4, <1>5, TaskFieldsTyped DEF JobHolds, Matches, SameUpdate, WithStatus
  <2>4. job.task = "propose" =>
          /\ scan'.status = "success"
          /\ \A e \in job.plan :
               /\ Matches(e.pkg, e.current)'
               /\ \A f \in job.plan : e.pkg = f.pkg => e = f
               /\ \A j \in WithStatus(Pending)' :
                    ~(proposal'[j].pkg = e.pkg /\ proposal'[j].target = e.target)
    BY <1>1, <1>4 DEF JobHolds, Matches
  <2>5. QED
    BY <1>1, <2>1, <2>2, <2>3, <2>4 DEF JobHolds
<1>7. PatchNeedsApproval'
  BY <1>2, <1>3 DEF PatchNeedsApproval, WithStatus
<1>8. PendingMatchesInventory' /\ OnePendingPerFix'
  BY <1>1, <1>4 DEF PendingMatchesInventory, OnePendingPerFix, Matches
<1>9. QED
  BY <1>6, <1>7, <1>8 DEF Holds

\* Every step keeps the rest of the inductive invariant.
LEMMA HoldsStep ==
  ASSUME IInv, [Next]_vars
  PROVE  Holds'
<1>1. ASSUME NEW m \in Message, Start(m)
      PROVE  Holds'
  BY <1>1, StartHolds
<1>2. CASE Complete
  <2>1. CASE ScanFail
    BY <2>1, Frame DEF ScanFail, Finish
  <2>2. CASE ScanAbort
    BY <2>2, Frame DEF ScanAbort, Finish, scanned
  <2>3. QED
    BY <1>2, <2>1, <2>2, ScanHolds, ProposeHolds, ValidateHolds, PatchHolds DEF Complete
<1>3. CASE Crash \/ Kill
  BY <1>3, Frame DEF Crash, Kill, Finish, scanned
<1>4. ASSUME NEW a \in Admins, CommitApprove(a) \/ CommitReject(a)
      PROVE  Holds'
  BY <1>4, DecisionHolds
<1>5. ASSUME NEW a \in Admins,
             \/ CommitApply(a) \/ FailRequest(a)
             \/ \E op \in {"approve", "reject", "apply"}, i \in Ids : ReadProposal(a, op, i)
      PROVE  Holds'
  BY <1>5, Frame DEF CommitApply, FailRequest, ReadProposal, scanned, worker
<1>6. ASSUME NEW i \in Ids, RequestRollback(i)
      PROVE  Holds'
  BY <1>6, Frame DEF RequestRollback, scanned
<1>7. ASSUME NEW p \in Packages, NEW a \in Advisories, SuppressFinding(p, a)
      PROVE  Holds'
  BY <1>7, Frame DEF SuppressFinding, worker
<1>8. ASSUME NEW S \in SUBSET Packages, NEW b \in BOOLEAN, UpdateSettings(S, b)
      PROVE  Holds'
  BY <1>8, Frame DEF UpdateSettings, scanned, worker
<1>9. CASE ResolveAlert
  BY <1>9, Frame DEF ResolveAlert, worker
<1>10. CASE ScanAges
  <2>1. scan'.status = scan.status
    BY <1>10 DEF ScanAges, IInv, TypeOK
  <2>2. QED
    BY <1>10, <2>1, Frame DEF ScanAges, worker
<1>11. ASSUME NEW p \in Packages, NEW v \in Versions \union {NoVersion}, Redeploy(p, v)
       PROVE  Holds'
  BY <1>11, Frame DEF Redeploy, scanned, worker
<1>12. CASE UNCHANGED vars
  BY <1>12, Frame DEF vars
<1>13. QED
  BY <1>1, <1>2, <1>3, <1>4, <1>5, <1>6, <1>7, <1>8, <1>9, <1>10, <1>11, <1>12 DEF Next

-----------------------------------------------------------------------------
\* The inductive invariant holds in every reachable state.
LEMMA Invariance == Spec => []IInv
<1>1. IInv /\ [Next]_vars => IInv'
  BY TypeStep, HoldsStep DEF IInv, Holds
<1>2. QED
  BY InitIInv, <1>1, PTL DEF Spec

\* Every variable holds what its column, queue or task can hold.
THEOREM TypeCorrect == Spec => []TypeOK
BY Invariance, PTL DEF IInv

\* However tasks, decisions, crashes and redeliveries interleave, an approved or
\* prepared proposal names its approver, and a prepared one has its patch.
THEOREM ApprovalOnRecord == Spec => []PatchNeedsApproval
BY Invariance, PTL DEF IInv

\* No proposal that a fresh scan superseded waits for a decision.
THEOREM WaitingIsCurrent == Spec => []PendingMatchesInventory
BY Invariance, PTL DEF IInv

\* No update waits for a decision twice.
THEOREM WaitingIsUnique == Spec => []OnePendingPerFix
BY Invariance, PTL DEF IInv

\* Rows appear only while the last scan stands as successful.
THEOREM ProposalsFailClosed == Spec => FailsClosed
<1>1. ASSUME IInv, Next, NEW i \in Ids, proposal[i] = NoRow, proposal'[i] # NoRow
      PROVE  scan.status = "success"
  <2>0. ~Exists(i)
    BY <1>1 DEF Exists, NoRow, Statuses
  <2>1. CASE ProposeFinish
    BY <1>1, <2>1 DEF IInv, JobHolds, ProposeFinish
  <2>2. ~(\E answer \in Answers : ScanFinish(answer))
    BY <1>1, <2>0 DEF ScanFinish, Exists, Superseded
  <2>3. i \notin job.ids
    BY <1>1, <2>0 DEF IInv, JobHolds
  <2>4. ~ValidateFinish /\ ~RollbackFinish /\ ~(\E ok \in SUBSET job.ids : ApplyFinish(ok))
    BY <1>1, <2>3 DEF ValidateFinish, RollbackFinish, ApplyFinish, SetStatus
  <2>5. \A a \in Admins : ~CommitApprove(a) /\ ~CommitReject(a)
    <3>1. SUFFICES ASSUME NEW a \in Admins, CommitApprove(a) \/ CommitReject(a)
                   PROVE  FALSE
      OBVIOUS
    <3>2. request[a].id # i
      BY <2>0, <3>1 DEF CommitApprove, CommitReject
    <3>3. proposal'[i] = proposal[i]
      BY <1>1, <3>1, <3>2 DEF IInv, TypeOK, CommitApprove, CommitReject
    <3>4. QED
      BY <1>1, <3>3
  <2>6. proposal' # proposal
    BY <1>1
  <2>7. \A m \in Message : ~Start(m)
    BY <2>6 DEF Start, ScanStart, ProposeStart, ValidateStart, ApplyStart, RollbackStart
  <2>8. ProposeFinish
    BY <1>1, <2>2, <2>4, <2>5, <2>6, <2>7
    DEF Next, Complete, ScanFail, ScanAbort, Crash, Kill, Finish, ReadProposal, CommitApply, FailRequest,
        RequestRollback, SuppressFinding, UpdateSettings, ResolveAlert, ScanAges, Redeploy
  <2>9. QED
    BY <2>1, <2>8
<1>2. IInv /\ [Next]_vars =>
        [\A i \in Ids : proposal[i] = NoRow /\ proposal'[i] # NoRow => scan.status = "success"]_vars
  BY <1>1
<1>3. QED
  BY Invariance, <1>2, PTL DEF Spec, FailsClosed

\* A clean successful scan leaves no self-security alert open.
THEOREM CleanScanIsQuiet == Spec => []CleanScanClosesSignal
<1>1. Init => CleanScanClosesSignal
  BY DEF Init, CleanScanClosesSignal
<1>2. ASSUME TypeOK, CleanScanClosesSignal, [Next]_vars
      PROVE  CleanScanClosesSignal'
  <2>1. ASSUME NEW answer \in Answers, ScanFinish(answer)
        PROVE  CleanScanClosesSignal'
    BY <2>1 DEF ScanFinish, SignalAfter, CleanScanClosesSignal
  <2>2. CASE scan'.status \in {"running", "failed"}
    BY <2>2 DEF CleanScanClosesSignal
  <2>3. CASE scan'.status = scan.status /\ findings' = findings /\ signal' \in {signal, FALSE}
    BY <1>2, <2>3 DEF CleanScanClosesSignal
  <2>4. ASSUME NEW m \in Message, Start(m)
        PROVE  scan'.status = "running" \/ UNCHANGED <<scan, findings, signal>>
    BY <1>2, <2>4
    DEF Start, ScanStart, ProposeStart, ValidateStart, ApplyStart, RollbackStart, TypeOK, scanned
  <2>5. ASSUME Complete, ~ \E answer \in Answers : ScanFinish(answer)
        PROVE  scan'.status = "failed" \/ UNCHANGED <<scan, findings, signal>>
    BY <1>2, <2>5
    DEF Complete, ScanFail, ScanAbort, ProposeFinish, ValidateFinish, ApplyFinish,
        RollbackFinish, TypeOK, scanned
  <2>6. CASE ScanAges \/ ResolveAlert
    <3>1. scan'.status = scan.status /\ findings' = findings /\ signal' \in {signal, FALSE}
      BY <1>2, <2>6 DEF ScanAges, ResolveAlert, TypeOK
    <3>2. QED
      BY <2>3, <3>1
  <2>7. ASSUME Next, ~(ScanAges \/ ResolveAlert), ~Complete, ~(\E m \in Message : Start(m))
        PROVE  UNCHANGED <<scan, findings, signal>>
    BY <2>7
    DEF Next, Crash, Kill, Finish, ReadProposal, CommitApprove, CommitReject, CommitApply, FailRequest,
        RequestRollback, SuppressFinding, UpdateSettings, Redeploy, scanned
  <2>8. CASE UNCHANGED vars
    BY <2>3, <2>8 DEF vars
  <2>9. QED
    BY <1>2, <2>1, <2>2, <2>3, <2>4, <2>5, <2>6, <2>7, <2>8
<1>3. QED
  BY <1>1, <1>2, TypeCorrect, PTL DEF Spec

-----------------------------------------------------------------------------
\* The pipeline implements the approval gate.

\* What the gate sees of a row.
Art(i) == Exists(i) /\ proposal[i].patch

\* A step the gate does not see.
LEMMA GateStutter ==
  ASSUME \A i \in Ids : /\ GateOf(i)' = GateOf(i) /\ UpdateOf(i)' = UpdateOf(i)
                       /\ (Art(i)' <=> Art(i))
  PROVE  UNCHANGED Gate!gateVars
<1>1. [i \in Ids |-> GateOf(i)]' = [i \in Ids |-> GateOf(i)]
  OBVIOUS
<1>2. [i \in Ids |-> UpdateOf(i)]' = [i \in Ids |-> UpdateOf(i)]
  OBVIOUS
<1>3. {i \in Ids : Exists(i) /\ proposal[i].patch}' = {i \in Ids : Exists(i) /\ proposal[i].patch}
  BY DEF Art
<1>4. QED
  BY <1>1, <1>2, <1>3 DEF Gate!gateVars

\* Rows that change status only, among the documented ones, look the same.
LEMMA SameLook ==
  ASSUME NEW i \in Ids, proposal[i] \in Row, proposal'[i] \in Row,
         proposal'[i].pkg = proposal[i].pkg, proposal'[i].current = proposal[i].current,
         proposal'[i].target = proposal[i].target
  PROVE  /\ UpdateOf(i)' = UpdateOf(i)
         /\ GateOf(i) = IF proposal[i].by THEN "approved" ELSE "open"
         /\ GateOf(i)' = IF proposal'[i].by THEN "approved" ELSE "open"
         /\ (Art(i) <=> proposal[i].patch)
         /\ (Art(i)' <=> proposal'[i].patch)
<1>1. /\ Exists(i) /\ proposal[i].status \notin {"none", "deleted"}
      /\ Exists(i)' /\ proposal'[i].status \notin {"none", "deleted"}
  BY DEF Row, Exists, Statuses
<1>2. QED
  BY <1>1 DEF UpdateOf, GateOf, Art

\* The initial table is a closed gate.
LEMMA GateInit == Init => Gate!Init
<1> SUFFICES ASSUME Init PROVE Gate!Init
  OBVIOUS
<1>1. \A i \in Ids : proposal[i].status = "none"
  BY DEF Init, NoRow
<1>2. \A i \in Ids : GateOf(i) = "absent" /\ UpdateOf(i) = NoVersion /\ ~Art(i)
  BY <1>1 DEF GateOf, UpdateOf, Art, Exists, Statuses
<1>3. QED
  BY <1>2 DEF Gate!Init, Art

\* Every step of the pipeline is a step of the gate or none.
LEMMA GateStep ==
  ASSUME IInv, TypeOK', [Next]_vars
  PROVE  [Gate!Next]_(Gate!gateVars)
<1> USE DEF IInv
<1>1. CASE proposal' = proposal
  BY <1>1, GateStutter DEF GateOf, UpdateOf, Art, Exists
<1>2. \A i \in Ids : Exists(i) => proposal[i] \in Row
  BY DEF TypeOK, Exists, NoRow, DeletedRow, Statuses
<1>3. \A i \in job.ids : proposal[i] \in Row /\ i \in Ids
  BY <1>2, TaskFieldsTyped DEF JobHolds
<1>4. ASSUME NEW answer \in Answers, ScanFinish(answer)
      PROVE  Gate!Next
  <2>0. PICK S \in SUBSET Ids : S = {i \in Ids : Exists(i) /\ proposal[i].pkg \notin Installed}
    OBVIOUS
  <2>1. ASSUME NEW i \in S
        PROVE  /\ GateOf(i) # "absent" /\ GateOf(i)' = "gone" /\ UpdateOf(i)' = NoVersion
               /\ ~Art(i)'
    <3>0. i \in Ids /\ Exists(i) /\ proposal[i].pkg \notin Installed
      BY <2>0, <2>1
    <3>1. proposal'[i] = DeletedRow
      BY <1>4, <3>0 DEF ScanFinish, Superseded
    <3>2. proposal'[i].status = "deleted" /\ ~Exists(i)'
      BY <3>1 DEF DeletedRow, Exists, Statuses
    <3>3. GateOf(i) # "absent"
      BY <3>0 DEF GateOf, Exists, Statuses
    <3>4. QED
      BY <3>2, <3>3 DEF GateOf, UpdateOf, Art
  <2>2. ASSUME NEW i \in Ids \ S
        PROVE  GateOf(i)' = GateOf(i) /\ UpdateOf(i)' = UpdateOf(i) /\ (Art(i)' <=> Art(i))
    <3>1. CASE proposal'[i] = proposal[i]
      BY <3>1 DEF GateOf, UpdateOf, Art, Exists
    <3>2. CASE Exists(i) /\ proposal'[i] = [proposal[i] EXCEPT !.status = "rejected"]
      <4>1. proposal[i] \in Row
        BY <1>2, <3>2
      <4>2. /\ proposal'[i] \in Row
            /\ proposal'[i].pkg = proposal[i].pkg /\ proposal'[i].current = proposal[i].current
            /\ proposal'[i].target = proposal[i].target /\ proposal'[i].by = proposal[i].by
            /\ proposal'[i].patch = proposal[i].patch
        BY <3>2, <4>1 DEF Row, Statuses
      <4>3. QED
        BY <4>1, <4>2, SameLook
    <3>3. i \in Ids /\ ~(Exists(i) /\ proposal[i].pkg \notin Installed)
      BY <2>0, <2>2
    <3>4. proposal'[i] =
            CASE Exists(i) /\ proposal[i].pkg \notin Installed -> DeletedRow
              [] Exists(i) /\ Superseded(proposal[i], answer)
                   -> [proposal[i] EXCEPT !.status = "rejected"]
              [] OTHER -> proposal[i]
      BY <1>4, <3>3 DEF ScanFinish
    <3>5. CASE Exists(i) /\ Superseded(proposal[i], answer)
      BY <3>2, <3>3, <3>4, <3>5
    <3>6. CASE ~(Exists(i) /\ Superseded(proposal[i], answer))
      BY <3>1, <3>3, <3>4, <3>6
    <3>7. QED
      BY <3>5, <3>6
  <2>3. Gate!Remove(S)
    BY <2>1, <2>2 DEF Gate!Remove, Art
  <2>4. QED
    BY <2>3 DEF Gate!Next
<1>5. CASE ProposeFinish
  <2> DEFINE Created(new, entry) ==
               proposal' = [i \in Ids |->
                  IF i \in new
                  THEN [status |-> "proposed", pkg |-> entry[i].pkg,
                        current |-> entry[i].current, target |-> entry[i].target,
                        by |-> FALSE, patch |-> FALSE]
                  ELSE proposal[i]]
  <2>0. PICK S \in SUBSET WithStatus({"none"}) : \E entry \in [S -> job.plan] : Created(S, entry)
    BY <1>5 DEF ProposeFinish
  <2>1. PICK entry \in [S -> job.plan] : Created(S, entry)
    BY <2>0
  <2>2. ASSUME NEW i \in S
        PROVE  /\ GateOf(i) = "absent" /\ GateOf(i)' = "open"
               /\ UpdateOf(i)' = entry[i] /\ entry[i] \in PlanEntry
               /\ (Art(i) <=> Art(i)')
    <3>1. proposal[i].status = "none" /\ i \in Ids
      BY <2>2 DEF WithStatus
    <3>2. /\ proposal'[i].status = "proposed" /\ proposal'[i].pkg = entry[i].pkg
          /\ proposal'[i].current = entry[i].current /\ proposal'[i].target = entry[i].target
          /\ ~proposal'[i].by /\ ~proposal'[i].patch
      BY <2>1, <3>1
    <3>3. entry[i] \in PlanEntry
      BY TaskFieldsTyped
    <3>4. entry[i] = [pkg |-> entry[i].pkg, current |-> entry[i].current,
                      target |-> entry[i].target]
      BY <3>3 DEF PlanEntry
    <3>5. QED
      BY <3>1, <3>2, <3>3, <3>4 DEF GateOf, UpdateOf, Art, Exists, Statuses
  <2>3. ASSUME NEW i \in Ids \ S
        PROVE  GateOf(i)' = GateOf(i) /\ UpdateOf(i)' = UpdateOf(i) /\ (Art(i)' <=> Art(i))
    BY <2>1 DEF GateOf, UpdateOf, Art, Exists
  <2>4. entry \in [S -> PlanEntry]
    BY <2>2
  <2>5. Gate!Open(S)
    BY <2>2, <2>3, <2>4 DEF Gate!Open, Art, WithStatus
  <2>6. QED
    BY <2>5 DEF Gate!Next, WithStatus
<1>6. CASE ValidateFinish
  <2>1. ASSUME NEW i \in Ids
        PROVE  GateOf(i)' = GateOf(i) /\ UpdateOf(i)' = UpdateOf(i) /\ (Art(i)' <=> Art(i))
    <3>1. CASE i \notin job.ids
      <4>1. proposal'[i] = proposal[i]
        BY <1>6, <3>1 DEF ValidateFinish, SetStatus
      <4>2. QED
        BY <4>1 DEF GateOf, UpdateOf, Art, Exists
    <3>2. CASE i \in job.ids
      <4>1. proposal[i] \in Row
        BY <1>3, <3>2
      <4>2. proposal'[i] = [proposal[i] EXCEPT !.status = "ai_validated"]
        BY <1>6, <3>2 DEF ValidateFinish, SetStatus
      <4>3. /\ proposal'[i] \in Row
            /\ proposal'[i].pkg = proposal[i].pkg /\ proposal'[i].current = proposal[i].current
            /\ proposal'[i].target = proposal[i].target /\ proposal'[i].by = proposal[i].by
            /\ proposal'[i].patch = proposal[i].patch
        BY <4>1, <4>2 DEF Row, Statuses
      <4>4. QED
        BY <4>1, <4>3, SameLook
    <3>3. QED
      BY <3>1, <3>2
  <2>2. QED
    BY <2>1, GateStutter
<1>7. ASSUME NEW ok \in SUBSET job.ids, ApplyFinish(ok)
      PROVE  Gate!Next
  <2>1. ASSUME NEW i \in Ids
        PROVE  /\ GateOf(i)' = GateOf(i) /\ UpdateOf(i)' = UpdateOf(i)
               /\ (Art(i)' <=> Art(i) \/ i \in ok)
    <3>1. CASE i \notin job.ids
      <4>1. proposal'[i] = proposal[i] /\ i \notin ok
        BY <1>7, <3>1 DEF ApplyFinish
      <4>2. QED
        BY <4>1 DEF GateOf, UpdateOf, Art, Exists
    <3>2. CASE i \in job.ids
      <4>1. proposal[i] \in Row
        BY <1>3, <3>2
      <4>2. proposal'[i] = IF i \in ok
                          THEN [proposal[i] EXCEPT !.status = "ready_for_pr", !.patch = TRUE]
                          ELSE [proposal[i] EXCEPT !.status = "failed"]
        BY <1>7, <3>2 DEF ApplyFinish
      <4>3. /\ proposal'[i] \in Row
            /\ proposal'[i].pkg = proposal[i].pkg /\ proposal'[i].current = proposal[i].current
            /\ proposal'[i].target = proposal[i].target /\ proposal'[i].by = proposal[i].by
            /\ proposal'[i].patch = (proposal[i].patch \/ i \in ok)
        <5>1. CASE i \in ok
          BY <4>1, <4>2, <5>1 DEF Row, Statuses
        <5>2. CASE i \notin ok
          BY <4>1, <4>2, <5>2 DEF Row, Statuses
        <5>3. QED
          BY <5>1, <5>2
      <4>4. QED
        BY <4>1, <4>3, SameLook
    <3>3. QED
      BY <3>1, <3>2
  <2>2. ASSUME NEW i \in ok
        PROVE  GateOf(i) = "approved"
    <3>1. proposal[i] \in Row /\ proposal[i].by
      BY <1>3, <1>7 DEF ApplyFinish, JobHolds
    <3>2. QED
      BY <3>1 DEF Row, Statuses, GateOf
  <2>3. ok \subseteq Ids
    BY <1>3
  <2>4. Gate!Publish(ok)
    BY <2>1, <2>2, <2>3 DEF Gate!Publish, Art
  <2>5. QED
    BY <2>3, <2>4 DEF Gate!Next
<1>8. CASE RollbackFinish
  <2>1. ASSUME NEW i \in Ids
        PROVE  /\ GateOf(i)' = GateOf(i) /\ UpdateOf(i)' = UpdateOf(i)
               /\ (Art(i)' <=> Art(i) /\ i \notin job.ids)
    <3>1. CASE i \notin job.ids
      <4>1. proposal'[i] = proposal[i]
        BY <1>8, <3>1 DEF RollbackFinish
      <4>2. QED
        BY <3>1, <4>1 DEF GateOf, UpdateOf, Art, Exists
    <3>2. CASE i \in job.ids
      <4>1. proposal[i] \in Row
        BY <1>3, <3>2
      <4>2. proposal'[i] = [proposal[i] EXCEPT !.status = "approved", !.patch = FALSE]
        BY <1>8, <3>2 DEF RollbackFinish, Cancelled
      <4>3. /\ proposal'[i] \in Row
            /\ proposal'[i].pkg = proposal[i].pkg /\ proposal'[i].current = proposal[i].current
            /\ proposal'[i].target = proposal[i].target /\ proposal'[i].by = proposal[i].by
            /\ proposal'[i].patch = FALSE
        BY <4>1, <4>2 DEF Row, Statuses
      <4>4. QED
        BY <3>2, <4>1, <4>3, SameLook
    <3>3. QED
      BY <3>1, <3>2
  <2>2. PICK S \in SUBSET Ids : S = job.ids
    BY <1>3
  <2>3. Gate!Retract(S)
    BY <2>1, <2>2 DEF Gate!Retract, Art
  <2>4. QED
    BY <2>3 DEF Gate!Next
<1>9. ASSUME NEW a \in Admins, CommitApprove(a) \/ CommitReject(a), proposal' # proposal
      PROVE  [Gate!Next]_(Gate!gateVars)
  <2> DEFINE d == request[a].id
  <2>1. d \in Ids
    BY <1>9 DEF TypeOK, CommitApprove, CommitReject
  <2>2. proposal[d] \in Row
    BY <1>2, <1>9, <2>1 DEF CommitApprove, CommitReject
  <2>3. \A i \in Ids : i # d =>
          GateOf(i)' = GateOf(i) /\ UpdateOf(i)' = UpdateOf(i) /\ (Art(i)' <=> Art(i))
    <3>1. \A i \in Ids : i # d => proposal'[i] = proposal[i]
      BY <1>9 DEF TypeOK, CommitApprove, CommitReject
    <3>2. QED
      BY <3>1 DEF GateOf, UpdateOf, Art, Exists
  <2>4. CASE CommitReject(a)
    <3>1. proposal'[d] = [proposal[d] EXCEPT !.status = "rejected"]
      BY <1>9, <2>1, <2>4 DEF CommitReject, TypeOK
    <3>2. /\ proposal'[d] \in Row
          /\ proposal'[d].pkg = proposal[d].pkg /\ proposal'[d].current = proposal[d].current
          /\ proposal'[d].target = proposal[d].target /\ proposal'[d].by = proposal[d].by
          /\ proposal'[d].patch = proposal[d].patch
      BY <2>2, <3>1 DEF Row, Statuses
    <3>3. \A i \in Ids : i = d =>
            GateOf(i)' = GateOf(i) /\ UpdateOf(i)' = UpdateOf(i) /\ (Art(i)' <=> Art(i))
      BY <2>2, <3>2, SameLook
    <3>4. QED
      BY <2>3, <3>3, GateStutter
  <2>5. CASE CommitApprove(a)
    <3>1. proposal'[d] = [proposal[d] EXCEPT !.status = "approved", !.by = TRUE]
      BY <2>1, <2>5 DEF CommitApprove, TypeOK
    <3>2. /\ proposal'[d] \in Row
          /\ proposal'[d].pkg = proposal[d].pkg /\ proposal'[d].current = proposal[d].current
          /\ proposal'[d].target = proposal[d].target /\ proposal'[d].by
          /\ proposal'[d].patch = proposal[d].patch
      BY <2>2, <3>1 DEF Row, Statuses
    <3>3. \A i \in Ids : i = d =>
            /\ GateOf(i)' = "approved" /\ GateOf(i) \in {"open", "approved"}
            /\ UpdateOf(i)' = UpdateOf(i) /\ (Art(i)' <=> Art(i))
      BY <2>2, <3>2, SameLook
    <3>4. Gate!Approve(d)
      BY <2>1, <2>3, <3>3 DEF Gate!Approve, Art
    <3>5. {d} \in SUBSET Ids /\ d \in {d}
      BY <2>1
    <3>6. QED
      BY <3>4, <3>5 DEF Gate!Next
  <2>6. QED
    BY <1>9, <2>4, <2>5
<1>10. ASSUME proposal' # proposal, Next
       PROVE  \/ \E answer \in Answers : ScanFinish(answer)
              \/ ProposeFinish \/ ValidateFinish \/ RollbackFinish
              \/ \E ok \in SUBSET job.ids : ApplyFinish(ok)
              \/ \E a \in Admins : CommitApprove(a) \/ CommitReject(a)
  <2>1. \A m \in Message : ~Start(m)
    BY <1>10 DEF Start, ScanStart, ProposeStart, ValidateStart, ApplyStart, RollbackStart
  <2>2. QED
    BY <1>10, <2>1
    DEF Next, Complete, ScanFail, ScanAbort, Crash, Kill, Finish, ReadProposal, CommitApply, FailRequest,
        RequestRollback, SuppressFinding, UpdateSettings, ResolveAlert, ScanAges, Redeploy
<1>11. CASE UNCHANGED vars
  BY <1>1, <1>11 DEF vars
<1>12. QED
  BY <1>1, <1>4, <1>5, <1>6, <1>7, <1>8, <1>9, <1>10, <1>11

\* The pipeline implements the approval gate: an artifact is prepared only for
\* an approved proposal, for the update that was approved, and never for a
\* removed one.
THEOREM PipelineImplementsGate == Spec => ImplementsGate
<1>1. IInv /\ IInv' /\ [Next]_vars => [Gate!Next]_(Gate!gateVars)
  BY GateStep DEF IInv
<1>2. QED
  BY GateInit, Invariance, <1>1, PTL DEF Spec, ImplementsGate, Gate!Spec
=============================================================================
