--------------------------- MODULE UpdateProposals ---------------------------
(***************************************************************************)
(* The self-security pipeline: the daily scan of the resolved runtime, the *)
(* update proposals made from its findings, the AI assessment of pending   *)
(* proposals, the administrators' decisions, and the patch artifacts       *)
(* prepared for approved proposals.                                        *)
(*                                                                         *)
(* Two kinds of process share the update_proposals table.  The             *)
(* self_security Celery worker runs one task at a time (-c 1); a task      *)
(* reads rows, works on them (OSV and AI calls take minutes), and commits  *)
(* once at its end.  The API handles administrators' requests at the same  *)
(* time, each a read of the row and a later commit.  Sessions run at READ  *)
(* COMMITTED without row locks, so a commit writes the attributes it set   *)
(* whatever happened to the row since it was read.                         *)
(***************************************************************************)
EXTENDS Integers, FiniteSets

CONSTANTS
  Packages,    \* names of the Python distributions of the runtime
  Versions,    \* versions, ordered as packaging.version orders them
  Advisories,  \* CVE ids that OSV may report
  FixedIn,     \* the "fixed" events of an advisory's ranges
  Critical,    \* advisories that are critical or in the KEV catalog
  Doubled,     \* advisories OSV reports in two records with one CVE alias
  Pinned,      \* packages that requirements.in names
  Ids,         \* ids of update_proposals rows
  Admins,      \* administrators, one request in flight each
  AiBatch,     \* limit of the AI validation's query
  MaxDeploys,  \* bound: changes of the runtime in a behaviour
  MaxCrashes,  \* bound: lost workers and killed tasks in a behaviour
  MaxEdits,    \* bound: changes of settings and suppressions in a behaviour
  MaxQueue,    \* bound: messages on the queue when the API adds one
  NoVersion,   \* no row, no distribution or no fixed version
  AllRows          \* the id of a task message that names no proposal

ASSUME VersionsAreOrdered == Versions \subseteq Nat /\ NoVersion \notin Versions
ASSUME FixesAreVersions == FixedIn \in [Advisories -> SUBSET Versions]
ASSUME SubsetsDeclared ==
  Critical \subseteq Advisories /\ Doubled \subseteq Advisories /\ Pinned \subseteq Packages
ASSUME BoundsAreNaturals == {AiBatch, MaxDeploys, MaxCrashes, MaxEdits, MaxQueue} \subseteq Nat
ASSUME AllRowsIsNoId == AllRows \notin Ids

VARIABLES
  runtime,     \* the installed version of each distribution
  inventory,   \* platform_dependencies.version
  findings,    \* dependency_findings rows of each package
  suppressed,  \* those of them an administrator suppressed
  blocked,     \* packages with an update_blocked_reason
  settings,    \* the self_security_settings row: the administrators' part
  scan,        \* the self_security_settings row: the last scan
  proposal,    \* update_proposals
  signal,      \* whether a self_security alert is open
  queue,       \* task messages on the self_security queue
  job,         \* the task the worker runs
  request,     \* the request each administrator has in flight
  deploys,     \* runtime changes so far
  crashes,     \* lost workers and killed tasks so far
  edits        \* changes of settings and suppressions so far

vars == <<runtime, inventory, findings, suppressed, blocked, settings, scan, proposal,
          signal, queue, job, request, deploys, crashes, edits>>
scanned == <<inventory, findings, suppressed, blocked, scan, signal>>
worker == <<queue, job>>
bounds == <<runtime, deploys, crashes, edits>>

-----------------------------------------------------------------------------
Statuses == {"proposed", "ai_validated", "approved", "ready_for_pr", "rejected", "failed"}
Live == {"proposed", "ai_validated", "approved", "applying"}
Pending == {"proposed", "ai_validated"}

\* by: approved_by is set; patch: rollback_snapshot holds a patch artifact.
Row == [status: Statuses, pkg: Packages, current: Versions, target: Versions,
        by: BOOLEAN, patch: BOOLEAN]
NoRow == [status |-> "none"]
DeletedRow == [status |-> "deleted"]

Exists(i) == proposal[i].status \in Statuses
WithStatus(S) == {i \in Ids : proposal[i].status \in S}

Tasks == {"scan", "propose", "validate", "apply", "rollback"}
Message == [task: Tasks, id: Ids \union {AllRows}]
Msg(t, i) == [task |-> t, id |-> i]

\* What beat and POST /scan/trigger enqueue: always available to an idle worker.
Periodic == {Msg(t, AllRows) : t \in {"scan", "propose", "validate", "apply"}}

PlanEntry == [pkg: Packages, current: Versions, target: Versions]
JobRecord == [task: Tasks \union {"idle"}, id: Ids \union {AllRows}, ids: SUBSET Ids,
              plan: SUBSET PlanEntry, skip: SUBSET Packages]
Idle == [task |-> "idle", id |-> AllRows, ids |-> {}, plan |-> {}, skip |-> {}]
Running(m, ids, plan, skip) ==
  [task |-> m.task, id |-> m.id, ids |-> ids, plan |-> plan, skip |-> skip]

NoRequest == [op |-> "none", id |-> AllRows, seen |-> "none"]

\* The first fixed version of an advisory above the installed one, if any.
FixesFor(a, v) ==
  {f \in FixedIn[a] : f > v /\ \A g \in FixedIn[a] : g > v => f <= g}

Fixes(p) == UNION {FixesFor(a, inventory[p]) : a \in findings[p] \ suppressed[p]}

\* The version an update of p aims at: the highest of its fixes.
IsTarget(p, t) == t \in Fixes(p) /\ \A f \in Fixes(p) : f <= t

\* Slip: an update already assessed or approved is not seen.
SameFixProposed(p, t) ==
  {i \in WithStatus({"proposed"}) : proposal[i].pkg = p /\ proposal[i].target = t}

SameFix(p, t) ==
  {i \in WithStatus(Live) : proposal[i].pkg = p /\ proposal[i].target = t}

\* An update of a package whose scan found advisories, and a pending proposal
\* that still speaks of the version in the inventory.
Matches(p, current) == inventory[p] = current /\ findings[p] # {}

-----------------------------------------------------------------------------
Init ==
  /\ runtime \in [Packages -> Versions]
  /\ inventory = [p \in Packages |-> NoVersion]
  /\ findings = [p \in Packages |-> {}]
  /\ suppressed = [p \in Packages |-> {}]
  /\ blocked = {}
  /\ settings = [excluded |-> {}, aiRequired |-> TRUE]
  /\ scan = [status |-> "never", fresh |-> FALSE]
  /\ proposal = [i \in Ids |-> NoRow]
  /\ signal = FALSE
  /\ queue = {}
  /\ job = Idle
  /\ request = [a \in Admins |-> NoRequest]
  /\ deploys = 0
  /\ crashes = 0
  /\ edits = 0

-----------------------------------------------------------------------------
(* The worker.  Tasks are acknowledged late: a message leaves the queue     *)
(* when the worker takes it and comes back if the worker is lost.           *)

Take(m) ==
  /\ job.task = "idle"
  /\ m \in queue \union Periodic
  /\ queue' = queue \ {m}

Finish == job' = Idle /\ UNCHANGED queue

\* Slip: a scan that is reported as running is not started again.
ScanStartOnce(m) ==
  /\ m.task = "scan" /\ scan.status # "running"
  /\ Take(m)
  /\ job' = Running(m, {}, {}, settings.excluded)
  /\ scan' = [scan EXCEPT !.status = "running"]
  /\ UNCHANGED <<inventory, findings, suppressed, blocked, settings, proposal, signal, request, bounds>>

\* The first transaction of scan_platform_deps.
ScanStart(m) ==
  /\ m.task = "scan"
  /\ Take(m)
  /\ job' = Running(m, {}, {}, settings.excluded)
  /\ scan' = [scan EXCEPT !.status = "running"]
  /\ UNCHANGED <<inventory, findings, suppressed, blocked, settings, proposal, signal, request, bounds>>

\* A source query failed, or the environment is empty: findings are preserved.
ScanFail ==
  /\ job.task = "scan"
  /\ Finish
  /\ scan' = [scan EXCEPT !.status = "failed"]
  /\ UNCHANGED <<inventory, findings, suppressed, blocked, settings, proposal, signal, request, bounds>>

Installed == {p \in Packages : runtime[p] # NoVersion}

\* What OSV answered for the packages the scan did not exclude.
Answers ==
  {f \in [Packages -> SUBSET Advisories] :
     \A p \in Packages : p \notin Installed \/ p \in job.skip => f[p] = {}}

\* Two records of one CVE insert the same (dependency, cve) twice unless the
\* row was there before the scan.
Duplicates(answer) ==
  \E p \in Packages : (answer[p] \ findings[p]) \intersect Doubled # {}

\* Slip: only vanished advisories supersede a proposal, new versions do not.
SupersededByAdvisories(r, answer) ==
  r.status \in Live /\ r.pkg \in Installed /\ answer[r.pkg] = {}

Superseded(r, answer) ==
  /\ r.status \in Live
  /\ r.pkg \in Installed
  /\ answer[r.pkg] = {} \/ r.current # runtime[r.pkg]

\* Slip: a clean scan leaves an earlier alert open.
SignalKept(answer) == signal \/ \E p \in Packages : answer[p] \intersect Critical # {}

SignalAfter(answer) == \E p \in Packages : answer[p] \intersect Critical # {}

\* The second transaction: the inventory, the findings, the proposals they
\* supersede and the alert are refreshed together.
ScanFinish(answer) ==
  /\ job.task = "scan"
  /\ Installed # {}
  /\ ~Duplicates(answer)
  /\ Finish
  /\ inventory' = runtime
  /\ findings' = answer
  /\ suppressed' = [p \in Packages |-> suppressed[p] \intersect answer[p]]
  /\ blocked' = blocked \intersect Installed
  /\ proposal' = [i \in Ids |->
       LET r == proposal[i] IN
       CASE Exists(i) /\ r.pkg \notin Installed -> DeletedRow
         [] Exists(i) /\ Superseded(r, answer) -> [r EXCEPT !.status = "rejected"]
         [] OTHER -> r]
  /\ scan' = [status |-> "success", fresh |-> TRUE]
  /\ signal' = SignalAfter(answer)
  /\ UNCHANGED <<settings, request, bounds>>

\* The second transaction, or the handler's own, raises: a refused row, a lost
\* connection.  Nothing catches it, and the status is left as it was.
ScanAbort ==
  /\ job.task = "scan"
  /\ Finish
  /\ UNCHANGED <<scanned, settings, proposal, request, bounds>>

Considered == {p \in Packages : findings[p] # {} /\ p \notin settings.excluded}

\* Two live rows of one fix make scalar_one_or_none raise.
Ambiguous(p) ==
  \E t \in Versions : IsTarget(p, t) /\ \E i, j \in SameFix(p, t) : i # j

Planned ==
  {e \in PlanEntry :
     /\ e.pkg \in Considered
     /\ e.current = inventory[e.pkg]
     /\ IsTarget(e.pkg, e.target)
     /\ SameFix(e.pkg, e.target) = {}}

\* Slip: a later scan that failed or never ended is not looked at.
ScanSucceededLately == scan.fresh

ScanIsRecent == scan.status = "success" /\ scan.fresh

\* The reads of propose_updates.
ProposeStart(m) ==
  /\ m.task = "propose"
  /\ Take(m)
  /\ Cardinality(Planned) <= Cardinality(WithStatus({"none"}))   \* bound: rows left
  /\ IF ScanIsRecent /\ ~ \E p \in Considered : Ambiguous(p)
     THEN job' = Running(m, {}, Planned, {p \in Considered : Fixes(p) = {}})
     ELSE job' = Idle
  /\ UNCHANGED <<scanned, settings, proposal, request, bounds>>

\* Its commit: one new row for each entry of the plan.
ProposeFinish ==
  /\ job.task = "propose"
  /\ \E new \in SUBSET WithStatus({"none"}) :
       /\ Cardinality(new) = Cardinality(job.plan)
       /\ \E entry \in [new -> job.plan] :
            /\ \A i, j \in new : entry[i] = entry[j] => i = j
            /\ proposal' = [i \in Ids |->
                 IF i \in new
                 THEN [status |-> "proposed", pkg |-> entry[i].pkg,
                       current |-> entry[i].current, target |-> entry[i].target,
                       by |-> FALSE, patch |-> FALSE]
                 ELSE proposal[i]]
  /\ blocked' = blocked \union job.skip
  /\ Finish
  /\ UNCHANGED <<inventory, findings, suppressed, scan, signal, settings,
                 request, bounds>>

\* The read of ai_validate_proposals: at most AiBatch pending proposals.
ValidateStart(m) ==
  /\ m.task = "validate"
  /\ Take(m)
  /\ \E batch \in SUBSET WithStatus({"proposed"}) :
       /\ \/ Cardinality(batch) = AiBatch
          \/ Cardinality(batch) < AiBatch /\ batch = WithStatus({"proposed"})
       /\ job' = IF settings.aiRequired /\ batch # {}
                 THEN Running(m, batch, {}, {}) ELSE Idle
  /\ UNCHANGED <<scanned, settings, proposal, request, bounds>>

SetStatus(S, st) ==
  [i \in Ids |-> IF i \in S THEN [proposal[i] EXCEPT !.status = st] ELSE proposal[i]]

\* Assessed or not, every proposal of the batch is written ai_validated.
ValidateFinish ==
  /\ job.task = "validate"
  /\ proposal' = SetStatus(job.ids, "ai_validated")
  /\ Finish
  /\ UNCHANGED <<scanned, settings, request, bounds>>

\* Slip: a favourable assessment counts as an approval.
CandidatesAssessed(m) ==
  {i \in WithStatus({"approved", "ai_validated"}) : m.id \in {AllRows, i}}

\* Slip: the weekly task, which names no proposal, selects none.
CandidatesNamed(m) == {i \in WithStatus({"approved"}) : m.id = i}

Candidates(m) == {i \in WithStatus({"approved"}) : m.id \in {AllRows, i}}

\* The read of apply_approved_updates: all approved proposals, or the one named.
ApplyStart(m) ==
  /\ m.task = "apply"
  /\ Take(m)
  /\ job' = IF Candidates(m) = {} THEN Idle ELSE Running(m, Candidates(m), {}, {})
  /\ UNCHANGED <<scanned, settings, proposal, request, bounds>>

\* A patch is prepared when requirements.in is readable and names the package.
ApplyFinish(ok) ==
  /\ job.task = "apply"
  /\ ok \subseteq {i \in job.ids : proposal[i].pkg \in Pinned}
  /\ proposal' = [i \in Ids |->
       CASE i \in ok -> [proposal[i] EXCEPT !.status = "ready_for_pr", !.patch = TRUE]
         [] i \in job.ids \ ok -> [proposal[i] EXCEPT !.status = "failed"]
         [] OTHER -> proposal[i]]
  /\ Finish
  /\ UNCHANGED <<scanned, settings, request, bounds>>

\* rollback_proposal reads one row, and only a prepared patch is cancelled.
RollbackStart(m) ==
  /\ m.task = "rollback"
  /\ Take(m)
  /\ job' = IF m.id \in WithStatus({"ready_for_pr"})
            THEN Running(m, {m.id}, {}, {}) ELSE Idle
  /\ UNCHANGED <<scanned, settings, proposal, request, bounds>>

\* Slip: the cancelled patch gets a status no other code knows.
CancelledForGood(r) == [r EXCEPT !.status = "cancelled", !.patch = FALSE]

Cancelled(r) == [r EXCEPT !.status = "approved", !.patch = FALSE]

RollbackFinish ==
  /\ job.task = "rollback"
  /\ proposal' = [i \in Ids |-> IF i \in job.ids THEN Cancelled(proposal[i]) ELSE proposal[i]]
  /\ Finish
  /\ UNCHANGED <<scanned, settings, request, bounds>>

Start(m) ==
  \/ ScanStart(m) \/ ProposeStart(m) \/ ValidateStart(m)
  \/ ApplyStart(m) \/ RollbackStart(m)

Complete ==
  \/ ScanFail
  \/ \E answer \in Answers : ScanFinish(answer)
  \/ ScanAbort
  \/ ProposeFinish
  \/ ValidateFinish
  \/ \E ok \in SUBSET job.ids : ApplyFinish(ok)
  \/ RollbackFinish

\* The worker is lost: its transaction rolls back and the message returns.
Crash ==
  /\ job.task # "idle" /\ crashes < MaxCrashes
  /\ crashes' = crashes + 1
  /\ queue' = queue \union {Msg(job.task, job.id)}
  /\ job' = Idle
  /\ UNCHANGED <<scanned, settings, proposal, request, runtime, deploys, edits>>

\* The time limit ends the task: its transaction rolls back too, but the
\* message is acknowledged and nobody gets it again.
Kill ==
  /\ job.task # "idle" /\ crashes < MaxCrashes
  /\ crashes' = crashes + 1
  /\ Finish
  /\ UNCHANGED <<scanned, settings, proposal, request, runtime, deploys, edits>>

-----------------------------------------------------------------------------
(* The API.  A decision reads the proposal, checks its status, and commits  *)
(* later; the commit fails only if the row is gone.                         *)

MayRead(op, st) ==
  CASE op = "approve" -> st \in Pending
    [] op = "apply"   -> st = "approved"
    [] OTHER          -> TRUE

\* approve_proposal, reject_proposal and apply_now up to their check.
ReadProposal(a, op, i) ==
  /\ request[a] = NoRequest
  /\ Exists(i)
  /\ MayRead(op, proposal[i].status)
  /\ request' = [request EXCEPT ![a] = [op |-> op, id |-> i, seen |-> proposal[i].status]]
  /\ UNCHANGED <<scanned, settings, proposal, worker, bounds>>

Respond(a) == request' = [request EXCEPT ![a] = NoRequest]

CommitApprove(a) ==
  /\ request[a].op = "approve"
  /\ Exists(request[a].id)
  /\ proposal' = [proposal EXCEPT ![request[a].id] =
                    [@ EXCEPT !.status = "approved", !.by = TRUE]]
  /\ Respond(a)
  /\ UNCHANGED <<scanned, settings, worker, bounds>>

\* A row read as rejected has an unchanged status, which the commit leaves out.
CommitReject(a) ==
  /\ request[a].op = "reject"
  /\ Exists(request[a].id)
  /\ proposal' = IF request[a].seen = "rejected" THEN proposal
                 ELSE [proposal EXCEPT ![request[a].id] = [@ EXCEPT !.status = "rejected"]]
  /\ Respond(a)
  /\ UNCHANGED <<scanned, settings, worker, bounds>>

\* apply_now enqueues the task and then commits its audit record.
CommitApply(a) ==
  /\ request[a].op = "apply"
  /\ Cardinality(queue) < MaxQueue   \* bound
  /\ queue' = queue \union {Msg("apply", request[a].id)}
  /\ Respond(a)
  /\ UNCHANGED <<scanned, settings, proposal, job, bounds>>

\* The request fails before its commit (the row is gone, the audit insert failed).
FailRequest(a) ==
  /\ request[a] # NoRequest
  /\ Respond(a)
  /\ UNCHANGED <<scanned, settings, proposal, worker, bounds>>

\* rollback enqueues its task without looking at the proposal.
RequestRollback(i) ==
  /\ Exists(i)
  /\ Cardinality(queue) < MaxQueue   \* bound
  /\ queue' = queue \union {Msg("rollback", i)}
  /\ UNCHANGED <<scanned, settings, proposal, job, request, bounds>>

SuppressFinding(p, a) ==
  /\ a \in findings[p]
  /\ edits < MaxEdits
  /\ edits' = edits + 1
  /\ suppressed' = [suppressed EXCEPT ![p] = @ \union {a}]
  /\ UNCHANGED <<inventory, findings, blocked, scan, signal, settings, proposal, worker, request, runtime, deploys, crashes>>

UpdateSettings(excluded, aiRequired) ==
  /\ edits < MaxEdits
  /\ edits' = edits + 1
  /\ settings' = [excluded |-> excluded, aiRequired |-> aiRequired]
  /\ UNCHANGED <<scanned, proposal, worker, request, runtime, deploys, crashes>>

ResolveAlert ==
  /\ signal
  /\ signal' = FALSE
  /\ UNCHANGED <<inventory, findings, suppressed, blocked, scan, settings, proposal, worker, request, bounds>>

-----------------------------------------------------------------------------
\* 26 hours pass since the last successful scan.
ScanAges ==
  /\ scan.fresh
  /\ scan' = [scan EXCEPT !.fresh = FALSE]
  /\ UNCHANGED <<inventory, findings, suppressed, blocked, signal, settings, proposal, worker, request, bounds>>

\* A new image with another version of p, or without p; the worker is stopped.
Redeploy(p, v) ==
  /\ deploys < MaxDeploys
  /\ job.task = "idle"
  /\ v # runtime[p]
  /\ runtime' = [runtime EXCEPT ![p] = v]
  /\ deploys' = deploys + 1
  /\ UNCHANGED <<scanned, settings, proposal, worker, request, crashes, edits>>

Next ==
  \/ \E m \in Message : Start(m)
  \/ Complete
  \/ Crash \/ Kill
  \/ \E a \in Admins, op \in {"approve", "reject", "apply"}, i \in Ids : ReadProposal(a, op, i)
  \/ \E a \in Admins : CommitApprove(a) \/ CommitReject(a) \/ CommitApply(a) \/ FailRequest(a)
  \/ \E i \in Ids : RequestRollback(i)
  \/ \E p \in Packages, a \in Advisories : SuppressFinding(p, a)
  \/ \E S \in SUBSET Packages, b \in BOOLEAN : UpdateSettings(S, b)
  \/ ResolveAlert
  \/ ScanAges
  \/ \E p \in Packages, v \in Versions \union {NoVersion} : Redeploy(p, v)

Spec == Init /\ [][Next]_vars

\* The worker finishes the task it runs, and beat keeps every periodic task coming.
Fairness ==
  /\ WF_vars(Complete)
  /\ \A m \in Periodic : SF_vars(Start(m))

FairSpec == Spec /\ Fairness

-----------------------------------------------------------------------------
(* Properties.                                                              *)

\* Every variable holds what its column, queue or task can hold.
TypeOK ==
  /\ runtime \in [Packages -> Versions \union {NoVersion}]
  /\ inventory \in [Packages -> Versions \union {NoVersion}]
  /\ findings \in [Packages -> SUBSET Advisories]
  /\ suppressed \in [Packages -> SUBSET Advisories]
  /\ blocked \subseteq Packages
  /\ settings \in [excluded: SUBSET Packages, aiRequired: BOOLEAN]
  /\ scan \in [status: {"never", "running", "success", "failed"}, fresh: BOOLEAN]
  /\ proposal \in [Ids -> Row \union {NoRow, DeletedRow}]
  /\ signal \in BOOLEAN
  /\ queue \subseteq Message
  /\ job \in JobRecord
  /\ request \in [Admins -> [op: {"none", "approve", "reject", "apply"}, id: Ids \union {AllRows},
                            seen: Statuses \union {"none"}]]
  /\ deploys \in 0..MaxDeploys
  /\ crashes \in 0..MaxCrashes
  /\ edits \in 0..MaxEdits

\* No patch is prepared without a human approval on record: whatever order
\* the tasks, the decisions and the crashes come in, an approved or prepared
\* row names its approver, and a prepared row has its patch.
PatchNeedsApproval ==
  \A i \in WithStatus({"approved", "ready_for_pr"}) :
    proposal[i].by /\ (proposal[i].status = "ready_for_pr" => proposal[i].patch)

\* A proposal that waits for a decision is about the version in the inventory
\* and about a package that still has findings: the AI validation, which
\* writes back rows it read minutes ago, never revives a superseded one.
PendingMatchesInventory ==
  \A i \in WithStatus(Pending) : Matches(proposal[i].pkg, proposal[i].current)

\* Administrators never see the same update waiting twice, although proposals
\* are generated daily and their status is written by four tasks.
OnePendingPerFix ==
  \A i, j \in WithStatus(Pending) :
    /\ proposal[i].pkg = proposal[j].pkg
    /\ proposal[i].target = proposal[j].target
    => i = j

\* A scan whose worker is lost, whose task is killed or whose second transaction
\* raises is reported as running with nobody at work on it.  The next daily scan
\* makes up for it: the status changes again, unless scans abort for ever.
RunningScanEnds ==
  []<>(scan.status # "running") \/ []<><<ScanAbort>>_vars

\* After a successful scan without serious findings no self-security alert
\* from an earlier scan is left open.
CleanScanClosesSignal ==
  /\ scan.status = "success"
  /\ \A p \in Packages : findings[p] \intersect Critical = {}
  => ~signal

\* The pipeline fails closed: rows are added only while the last scan stands
\* as successful.  A scan that failed, aborted, was killed or lost adds none, and
\* one that stays reported as running keeps proposals from being made.
FailsClosed ==
  [][\A i \in Ids : proposal[i] = NoRow /\ proposal'[i] # NoRow => scan.status = "success"]_vars

\* An approval is acted upon: no proposal stays approved for ever, even if
\* every apply-now message and the first workers that run them are lost.
ApprovalIsActedUpon ==
  \A i \in Ids : proposal[i].status = "approved" ~> proposal[i].status # "approved"

\* SELF-SECURITY.md:22 puts AI decision support before the administrator's
\* decision: a decided proposal never returns to a pending status.
DecisionsFollowAssessment ==
  [][\A i \in Ids : Exists(i) /\ proposal[i].status \notin Pending
                   => proposal'[i].status \notin Pending]_vars

\* self_security_tasks.py:189: a fresh scan leaves no proposal that is based on an
\* older installed version or on an advisory that is no longer present.
ScanIsAuthoritative ==
  \A i \in WithStatus(Live) :
    Matches(proposal[i].pkg, proposal[i].current)

\* self_security_tasks.py:300: no proposal is made for a version that has one.
OneProposalPerFix ==
  \A i, j \in WithStatus(Live) :
    /\ proposal[i].pkg = proposal[j].pkg
    /\ proposal[i].target = proposal[j].target
    => i = j

-----------------------------------------------------------------------------
(* The abstract specification the pipeline implements.                      *)

GateOf(i) ==
  CASE proposal[i].status = "none"    -> "absent"
    [] proposal[i].status = "deleted" -> "gone"
    [] OTHER -> IF proposal[i].by THEN "approved" ELSE "open"

UpdateOf(i) ==
  IF Exists(i)
  THEN [pkg |-> proposal[i].pkg, current |-> proposal[i].current, target |-> proposal[i].target]
  ELSE NoVersion

Gate == INSTANCE ApprovalGate WITH
  Updates <- PlanEntry, NoUpdate <- NoVersion,
  gate <- [i \in Ids |-> GateOf(i)],
  update <- [i \in Ids |-> UpdateOf(i)],
  artifact <- {i \in Ids : Exists(i) /\ proposal[i].patch}

\* The pipeline implements the approval gate: through lost updates, crashes and
\* redelivery, an artifact is only ever prepared for an approved proposal, and
\* for the update that was approved.
ImplementsGate == Gate!Spec
=============================================================================
