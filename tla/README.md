# Kepryx in TLA+

Kepryx v0.9 is an asset inventory and security-posture service: a FastAPI
application, Celery workers, PostgreSQL and Redis. These modules model the parts
of it in which several processes share state, or in which a process can be
lost halfway, and state what makes those parts correct. TLC checks the models on
small instances; TLAPS proves the properties that matter most of eight of them for
every value of the constants.

Paths below are relative to the repository; `self_security_tasks.py` and the
like are in `app/workers`, `app/api` or `app/services`.

## 1. The system

Processes (docker-compose.yml:179-247):

| process | queues | concurrency |
|---|---|---|
| API (gunicorn/uvicorn) | - | 4 workers, each with an event loop |
| scanner worker | scanner | 2 |
| enrichment worker | enrichment | 4 |
| reconciler worker | reconciler, notifications | 2 |
| self-security worker | self_security | 1 |
| beat | sends the periodic tasks of `celery_app.py:45-115` | 1 |

What all of them have in common, and all the models rely on:

- **Sessions.** `database.py:18` makes sessions with `expire_on_commit=False`, at
  PostgreSQL's READ COMMITTED, and no query locks the rows it reads; an update holds its row
  until the transaction ends. A session keeps the
  values it read until it ends, and a commit writes the columns whose value in
  memory differs from the one that was read, over whatever the row has become.
- **Tasks** are acknowledged late and come back when their worker is lost
  (`celery_app.py:33-34`), so that a task may run twice, and may overlap with
  the next periodic one. At the soft limit (3300 s) a task is ended by an exception; at
  `task_time_limit` (3600 s) the process is killed and the message is acknowledged, so that
  nothing comes back. The models tell the two apart: `Crash` or `Lose` and `Kill`.
- **External calls** (OSV, an AI model, connectors, nmap, webhooks) take seconds to
  minutes, between a read and the commit that depends on it.

### Components

| component | state | operations | interacts with | hard behaviour | what makes it correct |
|---|---|---|---|---|---|
| self-security pipeline (`self_security_tasks.py`, `self_security.py`, `self_security_scanner.py`) | dependencies, findings, settings, proposals, an alert | scan, propose, AI-validate, apply, roll back; approve, reject, apply-now, suppress, settings | one worker and the API on one table | decisions race tasks that hold stale rows; crashes; redelivery | a patch has a human approval; pending proposals are current and unique; scans fail closed |
| integration syncs (`reconcile_tasks.py`, `integrations.py`) | `integrations`: enabled, count, status | hourly sync, run now, enable | connectors, reconciler | overlapping syncs, a poisoned session, crash | counts match status; a broken connector is disabled, and only for cause |
| reconciler (`reconciler.py`) | `assets`, `alerts` | merge a report, raise alerts, stale and EDR passes | called by scans and by syncs | lookup and insert apart; two merges into one row; changing addresses | one row per MAC but for races; what nobody claims is shadow IT |
| scan jobs (`scan_tasks.py`, `scans.py`) | `scans`, `scan_networks` | daily and manual scan, recovery | nmap, reconciler | kills, lost workers, recovery by another task | rows end; recovery spares running scans |
| alert delivery (`notification_tasks.py`, `notifications.py`, `webhook_dispatcher.py`, `webhooks.py`, `alerts.py`) | `alerts.notified`, `webhooks` | flush, event, resolution, test, deletion | every raiser of alerts; receivers | one commit for many posts; failing receivers; lost flush | told once; counts are real; every alert is handled |
| enrichment and risk (`enrichment_tasks.py`, `cve_enrichment.py`, `risk_engine.py`, the edit of `assets.py`) | `cves`, `asset_cves`, scores and their components | enrich one asset or a batch, refresh the catalog, rescore, edit | NVD, EPSS, KEV | four processes, failed feeds, two writers of one score | a score settles to what the posture and the CVEs of the asset make it; a rating has its evidence |
| accounts and sessions (`auth.py`, `token_blocklist.py`, `deps.py`, `gdpr.py`, `admin.py`) | `users`, revocations and used tokens in Redis | login, refresh, password change, erasure, deactivation | Redis and PostgreSQL | two stores, no common commit; requests that read a row long before they write it | a refresh token is used once in its life; sessions end with the password; locks hold; an administrator is left |
| compliance audits (`compliance_tasks.py`, `compliance.py`) | catalogs, runs, results, mappings, alerts | scheduled or requested audit | assets, alerts | overlapping audits, row locks and deadlocks | one open alert per mapping; the views of an audit agree; alerts follow gaps |
| rate limits (`rate_limit.py`) | a counter in Redis for each address (`request.state.user` is set nowhere) | count and expire | login and import | two calls for one window | a window admits no more than the limit, and ends |
| bulk import (`bulk_import.py`) | `assets` | check a file, then add its rows | scans and forms that add assets | the check and the commit are apart | a file adds no second asset of a name |
| retention (`retention_tasks.py`) | audit log, assets | archive, delete, flag | - | never runs, see section 7 | - |
| exports, dashboard, other administration, API tokens | single rows | one transaction per request | - | - | - |
| connectors, encryption, scan authorization, AI client, parser, assistant, configuration, middleware, event stream, browser client | little or none | pure functions, calls out, display | - | - | - |

`PROJECT.json` lists each with its files, and what is modelled of it, and lists
the hazards of the code line by line.

## 2. Modules

| module | models | abstract, composed or proved |
|---|---|---|
| `ApprovalGate` | what the pipeline promises: a row is proposed once, may be approved, and only an approved row has an artifact | abstract specification of `UpdateProposals` |
| `UpdateProposals` | the self-security worker, the API's decisions and the proposals table | refines `ApprovalGate` by `ImplementsGate`; `UpdateProposalsProofs` |
| `ScanJobs` | scan rows, recovery, limits and lost workers | `ScanJobsProofs` |
| `IntegrationSync` | failure counts and disabling of connectors | `IntegrationSyncProofs` |
| `Reconciler` | the merge of reports into assets and its alerts | `ReconcilerProofs` |
| `AlertDelivery` | flush, events, webhook counts | composes `notification_tasks`, `notifications`, `webhook_dispatcher` and the API; `AlertDeliveryProofs` |
| `RiskEngine` | the arithmetic of a risk score, in hundredths | `RiskScoresProofs` |
| `RiskScores` | enrichment, the catalog refresh, rescoring and edits over one table of assets | builds on `RiskEngine`; `RiskScoresProofs` |
| `AccountSessions` | accounts in PostgreSQL, revocations in Redis, and requests between the two | `AccountSessionsProofs` |
| `ComplianceRules` | the rules of the thirteen controls | |
| `ComplianceAudit` | overlapping audits, their mappings, results and alerts | builds on `ComplianceRules`; `ComplianceAuditProofs` |
| `AssetImport` | a rate limit and the CSV import behind it | composes `rate_limit` and `bulk_import`; `ReconcilerProofs` |
| `MC...` | constants for TLC | |

### How the models correspond to the code

**A task or request is cut where others can get in.** A task is an action for
what it reads (its message is taken), and an action for its commit; what it read
is in `job`, `task`, `act` or `req`. Code between a read and a commit that no other process
can observe is part of one of the two. A request that only commits is one action.

**`UpdateProposals`.** `proposal` is the table `update_proposals`;
`approved_by` and `rollback_snapshot` are the flags `by` and `patch`. `inventory`,
`findings`, `suppressed` and `blocked` are what a scan stores about each
dependency; `scan` and `settings` are the two halves of the settings row.
`ScanStart` and `ScanFinish` are the two transactions of `_scan_platform_deps`;
`ScanFinish` refreshes inventory, findings, superseded proposals and the alert
at once, as the code does. `ScanAbort` is a second transaction that does not commit: the unique constraint on
(dependency, CVE) refuses two OSV records with one CVE alias (`Doubled`), or anything else
outside the `try` raises, a value that a column refuses or a lost connection. The status is then
left as "running", as it is by `Crash` and `Kill` of a task. `Planned` is the proposal rule: the
highest first-fixed version above the installed one, unless a live row aims at it.
`ValidateFinish`, `ApplyFinish` and `RollbackFinish` write the rows their task
read. An API decision is `ReadProposal` then its commit; `CommitReject` of a row read
as rejected writes no status, since its value did not change. `Crash`
puts the message back and `Kill` does not. `Redeploy` installs other versions.

**`IntegrationSync`.** `Begin` loads the enabled rows, and each of `SyncSucceeds`,
`SyncFails` and `SyncIsRefused` is an iteration of the loop with its commit. `Written`
is a commit by changed columns. `SyncIsRefused` is a database error while merging
a host: the handler at `reconcile_tasks.py:58` reads a row of a session that needs a
rollback, and raises, so that the task ends. Nothing bounds how often a host is refused. Rows of a type without a
connector (`Unsupported`) are passed by, and `Return` ends a list of which only they are left.
`raced` is history: syncs have counted from one row, and none that had the row to itself
(`ToItself`) has succeeded since.

**`Reconciler`.** A job is a session that merges a batch, the hosts of a network or of a connector, and
commits once. `Read` is `reconcile_host` for the next host, on what the session sees (`View`):
`ReadHost` merges into the row that is found, `InsertHost` adds one; `Found` is the lookup by
MAC, IP, then name. `Flush` sends the merge to the database, which locks the row until `Commit` or
`Abandon`, the rollback. `Merged` and `Created` are the row as it is built: appending to the
list of sources in place is not seen by the session, so that `Merged` leaves `sources` as
it was unless it was empty. `reporters` and `crossed` are history: who has reported an asset, and which MACs
were given to a row while another session that had looked them up went on. The model takes
it that an object the session no longer refers to is read again, as it is after each flush.

**`ScanJobs`.** `Recover` fails the rows that were stale when the task read them;
`Launch`, `Finish` and the two failures are the body of the loop. `Tick` is time:
no task runs beyond `TaskLimit`; at the limit it ends or is killed.

**`AlertDelivery`.** `act` is what each process does: the alerts left in a flush,
and the webhooks left in an event, with the rows its session loaded (`loaded`) and
holds (`after`). A flush commits once, an event once; `Refused` is a commit the database
rejects. A post also changes columns that no property tells apart (`delivery_count`, `last_delivery`, `last_status`);
what matters of them is that a row was touched, since a commit writes touched rows only. `CutOff` is the
soft time limit, which may end each flush before its commit: with three posts of 15 s to a webhook that
never answers, a batch of 100 alerts takes longer than the 3300 s.

**`RiskEngine`.** A rating in integers: factors are levels from 1 to 5, weights
are percents and a score is in hundredths. `Round` is Python's rounding of half to even;
`Rated` is a lookup of a word with its default; `BreakdownOf`, `Score` and `Tier`
are the parts of `calculate_risk`.

**`RiskScores`.** `row`, `cve` and `link` are the three tables; a rating is the three
columns of score, tier and components. `StartBatch` loads the assets of a batch
(`enrich_asset` is a batch of one). `Query` asks the feeds about one of them and looks
up the rows of what they found; `Store` inserts and updates CVEs and links, rates the
asset and commits. A feed that fails for good gives an empty answer, and the task
goes on; a row that another process has inserted meanwhile ends the task
(`Duplicates`). `StartSync` and `FinishSync` are the refresh of the KEV
catalog, `Rescore` and `RescoreCommit` the pass over all assets,
`Update` the edit of a posture with its recomputation. `Changed` is a commit: columns
that did not change in memory keep what others have stored.

**`AccountSessions`.** `user` is the table, `token` are the sessions issued,
`revoked` and `consumed` are the keys of Redis. `req` is the request of
each process, with the columns it read. `Login` reads the row and checks the password,
`LoginLocked`, `LoginFails` and `LoginSucceeds` are how it ends. An exchange of a refresh token is
`RefreshDecode`, which tests its expiry, `RefreshCheck`, the lookup in Redis, `Consume`, which is SET NX with
a mark that expires (`Mark`), and `RefreshIssue`. `Tick` is where Redis forgets marks and revocations. `ChangePassword`
and `Erase` are followed by `Revoke` in Redis and then by their commit; a
deactivation (`Delete`) is read and commit only. `Fail` ends a request between any two
of them: Redis may then hold a revocation that PostgreSQL knows nothing of. `Accepted`
is `_jwt_user`. A session stands for its access and its refresh
token; a tick is the granularity of `iat`. `late`, `exchanges` and `contested` are history; a session is
`late` when its own request overlapped a change of password, or was checked only after the expiry of the token it presents.

**`ComplianceRules`** are the fields each control looks at and its rule; `Assess` is
`_assess`. **`ComplianceAudit`**: `Begin` reads the assets, `ReadMappings` the mappings,
`Judge` is one turn of the loop, up to its query for alerts, and `Commit` is
the end of the transaction. The query sends what is pending, so a mapping updated earlier is locked by
this audit until it ends (`HoldsMapping`), as is an alert it closes (`HoldsAlert`), and two audits
can wait for each other: PostgreSQL ends one of them, which is a `Fail`. `Edit` and
`Resolve` are the API. `lineage` and `latest` are what `GET /compliance` and its
summary read. `Lists` are the answers of the former: any 1000 mappings, beside results out of the newest 10000
(`ListLimit`, `ResultLimit`). `settled` is history.

**`AssetImport`.** `Count`, `Expire` and `Second` are the counter of an address in Redis: the limit looks for
the user in `request.state.user`, which nothing sets, and falls back on the address. `Check` is
the first pass over the file and the query for its names, `CommitImport` the second pass and its commit.
`Appear` is every other way an asset is added. A file has its header as `name`, or in a spelling that only the check of
the headers and the second pass know, and rows that are sound, too long for the header, or refused by the database. `clash`, `raced`, `lost` and
`admitted` are history.

A definition named in a comment as a *slip* is a plausible bug. It is used by no
action: it takes the place of the definition below it to see that a property
notices.

## 3. Runs

| run | instance | distinct states | shows |
|---|---|---|---|
| `decisions` | 1 package, 2 versions, 1 advisory, 2 rows, 1 administrator, 1 deployment, 1 lost or killed task, 1 queued message | 1.8 M | the safety of the pipeline, and `ImplementsGate` |
| `progress` | 1 row, 2 advisories (one without a fix, in two records), 1 lost or killed task, 1 edit; fair | 145 K | an approval is acted upon; a scan left as running is made up for; a clean scan closes the alert |
| `syncs` | 2 workers, 3 rows (one never works, one may be refused at every sync, one has no connector), limit 2, 1 edit; fair | 283 K | nothing is disabled without cause; the broken one is disabled and everyone is tried, unless they are passed over for ever |
| `assets` | 2 workers, 2 rows, a scan and a console that report two hosts at one address, 1 asset entered by hand | 807 K | one row per MAC but for crossed lookups; what only scans report is shadow IT |
| `races` | the same without the entry by hand | - | counterexample to `SingleAsset` |
| `scans` | 2 workers, 2 networks (one cannot be merged), 3 rows, one stop; fair | 154 K | recovery spares running scans; no row runs for ever |
| `delivery` | 1 worker, 1 API request, 2 alerts, 1 webhook, limit 2, batch 1, 2 upsets; fair | 543 K | told once, real counts, all handled unless cut off for ever |
| `cutoffs` | the same with a webhook that never answers, without upsets; fair | - | counterexample to `EveryAlertIsHandled` |
| `scores` | 1 asset, 1 exploited CVE, 2 postures, 2 workers, 1 outage, 1 edit; fair | 236 K | ratings have their evidence, and settle |
| `accounts` | 2 administrators, the sessions of one of them followed, 2 sessions, 2 requests, 3 ticks, sessions of 2 ticks, 1 failed login to a lock, 1 change of password | 3.1 M | sessions end with the password; tokens work once in their life; locks hold; an administrator is left |
| `compliance` | 1 critical asset with 2 postures, control SI-2, 2 audits, 3 copies, lists of 1 mapping, 1 failure besides deadlocks; fair | 358 K | overlapping audits add no alert without a mapping; views agree; alerts follow gaps |
| `imports` | 2 requests from one address, 2 names, 7 files, limit 2 in a window of 3; fair | 588 K | a window admits no more than it may, and ends; second names come from races or unreadable headers only |

### Bounds, and why they are enough

- *Rows.* Two proposals are needed for two live rows of one fix; two assets for
  two rows of one host; three scan rows for one orphan and two
  running scans. A scan row that no process refers to and that does not run may be
  used again (`Launch`), so that scans go on for ever. Rows must be as many as
  workers and stops together: with fewer, no row is left for `Launch`, and time stands
  still for want of a row. One asset and one CVE are enough for two writers of one
  score. `MaxCopies` exceeds the workers, so that each of two audits can
  insert a mapping beside an older one. A commit of `ComplianceAudit` waits for as many free
  copies of an alert as it raises: with the copies of the run it never waits.
- *Processes.* Two are what it takes to race.
  `delivery` has one flush at a time beside a request of the API; two flushes at
  a time send an alert twice, which `ToldOnce` excuses.
- *Reports.* Those of `assets` meet at one address and differ in MAC, name, services and source: each
  lookup finds, misses or finds the row of the other host, and each merge outranks or does not. The theorem
  is for any reports.
- *Limits.* 5 failures, 10 failures, a batch of 100, an AI batch, 5 failed logins, 3 imports
  a minute, lists of 1000 and 10000 are 2, 2, 1, 1, 1, 2, 1 and 1: the code compares them and does nothing
  else with them. A list that leaves out whole keys takes a second key: the theorem has them, the run has not.
- *Addresses.* The counters of two addresses share nothing, so `imports` has one.
- *Time.* `accounts` has three ticks: a session of two ticks is opened, outlives a change of password
  or expires, and so does the mark of its exchange. `Retention` exceeds `TokenTTL`, as a revocation is kept for the
  life of a refresh token and a minute more (`token_blocklist.py`); that Redis forgets one takes a fourth tick, which is
  left to the theorem. `imports` has a window of three seconds, so that requests
  fall into two windows of the counter that one sliding window overlaps.
- *Crashes, edits, deployments, stops, upsets, outages.* One or two of each, where the progress of others
  depends on them. Every hazard listed
  needs at most one, and a second one in combination with another kind. What may go on for ever in the code is not bounded:
  aborted scans, refused hosts, lost and killed syncs, rolled back batches, flushes that are cut off. Where a liveness
  property does not survive them, it says so.
- *Counters.* `MaxCount` and `MaxFailures` exceed the limits, so that counts go past them;
  `Many` is two, one more than a name should have.
- *Versions and advisories.* One fix above the installed version, one advisory
  without a fix. Two fixes of one package are left out of the runs (not of the
  model or of the proofs).

Symmetry is used over row ids (`decisions`, `assets`), workers (`assets`, `accounts`) and tokens
(`accounts`), in runs without liveness.

Deadlock checking is off where the bounds may exhaust every action
(`UpdateProposals`, `AlertDelivery`, `AccountSessions`, `Reconciler`); the other runs check it.

### Fairness

- `UpdateProposals`: weak fairness of the running task's completion, and strong fairness of
  starting each periodic task. Beat sends each of them for ever, the worker
  takes messages in order, and an idle worker is a state that recurs but does not last: hence
  strong. No administrator has to do anything, and no external answer has to be good.
- `IntegrationSync`: a task goes on (weak), and some worker takes an hourly sync
  again and again (strong). Success and failure of a sync are not fair, nor is any bound put on refusals, losses and kills.
- `ScanJobs`: time passes (strong: it waits for tasks at their limit), tasks go
  on, and idle workers begin daily tasks.
- `AlertDelivery`: a worker goes on flushing (weak), but any flush may be cut off while it posts to a webhook
  that does not answer; requests need not be fair.
- `RiskScores`: a task that runs goes on (weak), as does the rescoring pass, which beat starts;
  the refresh of the catalog waits in the queue for a process to be free (strong). Nothing
  promises that an asset is enriched, and no query has to succeed.
- `ComplianceAudit`: the schedule begins an audit whenever a process is idle, an audit goes on, and
  PostgreSQL ends a deadlock (all weak). No audit has to be alone.
- `AssetImport`: time passes, and a request that is not lost sets its expiry (weak).

Messages that Redis would deliver twice after its visibility time-out are not modelled;
those of lost workers are.

## 4. Properties

The safety properties, where they bite:

- `PatchNeedsApproval`: a prepared patch names its approver, however AI
  validation, decisions, cancellations and crashes interleave.
- `PendingMatchesInventory`: the AI task writes rows it read minutes ago. It
  does not revive a superseded one, because scans and validations share one worker.
- `OnePendingPerFix`: four tasks and two requests move rows in and out of the
  statuses that the duplicate check looks at.
- `FailsClosed`: rows are added only while the last scan stands as successful; one that failed, aborted or was
  killed adds none.
- `CleanScanClosesSignal`: alert and scan agree.
- `ImplementsGate`: the whole pipeline is an approval gate.
- `DisabledForCause`: a sync disables a connector only after `Limit` real failures in a row,
  unless two syncs counted from one row (`raced`). The excuse ends with the next success of a sync that has the
  row to itself.
- `OneAssetPerMac`: reports that know part of a host, merged in any order by concurrent batches, give no MAC to
  two rows, unless a session gave it to a row while another that had looked it up went on, or
  it was entered by hand beside a row or a lookup (`crossed`). The excuse is the race of section 6; what is left is that a
  moved address, a missing MAC, a rollback or a stale merge alone doubles nothing.
- `UnreportedIsShadow`: an asset that no authoritative source has reported is flagged, whatever is merged
  into it at a time.
- `OnlyOrphansRecovered`: recovery does not take the row of a scan that runs.
- `ToldOnce`, `FailuresHappened`: events over stale rows neither repeat nor invent.
- `ExploitIsLinked`: a rating that counts an exploited CVE has its link and its CVE; a batch commits
  asset by asset, and a task that loses a race for a row commits nothing of that asset.
- `RefreshOnce`: requests that present one refresh token at a time exchange it once until it expires, although its
  mark in Redis expires too.
- `PasswordEndsSessions`: a session of an earlier password is refused even in the tick
  of the change, after a commit that failed, and once Redis forgot the revocation. A session
  whose own request overlapped the change is excepted.
- `AdminRemains`: the check of `gdpr.py:153` reads before it writes; it
  suffices while removals do not overlap (`contested`).
- `LockIsKept`: a request that read a row before it was locked does not unlock it, since a
  commit leaves alone the columns it did not change.
- `AlertsPerMapping`: a second alert of a gap takes a second mapping: the row lock taken by the update makes the
  later audit see the alert of the earlier one.
- `ViewsAgree`: after an audit that ran alone, whatever overlapping audits left, the mappings listed, the results
  they cite and the newest results agree, and the summary counts what is listed: no less when the limits cut the list,
  the same when they do not. Keys with a second mapping are excepted, for no later audit need touch it.
- `TwoLimitsAtMost`: no sliding window admits more than twice the limit from one address. (For a user there is no bound: section 6.)
- `SecondNamesAreRaced`: an import whose header the duplicate check can read gives a name to a second asset
  only if that name was added between its check and its commit.

Liveness:

- `ApprovalIsActedUpon`, `ScanRowsEnd`: what was asked for is done in the end.
- `RunningScanEnds`: nothing at work holds the status "running" after a crash, a kill or an aborted scan; the next daily scan makes up for it,
  unless scans abort for ever.
- `BrokenIsDisabled`, `TriedUnlessPassedOver`: a connector that never works is disabled, and each that is enabled is tried, although
  overlapping syncs lose counts, unless syncs end before they reach it for ever. A host that is refused at every sync does just that
  to the integrations listed later (section 6).
- `HandledUnlessCutOff`: an open alert is marked or resolved, whatever fails and is lost, unless flushes are cut off
  for ever, as they are by a webhook that never answers (`cutoffs`).
- `ScoresSettle`, `ExploitCounts`: whatever outages and overlapping commits left in a
  row, rescoring makes it what the stored evidence says, and an exploit missed by a
  failed fetch is counted after the next refresh of the catalog.
- `AlertsFollowGaps`: a lasting gap of a critical asset has an alert again and again; a control that
  stays compliant ends up without one.
- `LimitIsLifted`: an address is admitted again, unless a process was lost between `INCR` and `EXPIRE`.

## 5. Proofs

`tlapm` proves the following from the constants' assumptions alone, for any numbers
of packages, rows, administrators, networks, workers, assets, users, sessions and failures.
`tlapm X.tla` checks each of the modules `X`.

| module | theorem | statement |
|---|---|---|
| `UpdateProposalsProofs` | `TypeCorrect` | `Spec => []TypeOK` |
| | `ApprovalOnRecord` | `Spec => []PatchNeedsApproval` |
| | `WaitingIsCurrent` | `Spec => []PendingMatchesInventory` |
| | `WaitingIsUnique` | `Spec => []OnePendingPerFix` |
| | `ProposalsFailClosed` | `Spec => FailsClosed`: rows are added only while the last scan stands as successful |
| | `CleanScanIsQuiet` | `Spec => []CleanScanClosesSignal` |
| | `PipelineImplementsGate` | `Spec => ImplementsGate` |
| `ScanJobsProofs` | `ScansTypeCorrect` | `Spec => []TypeOK` |
| | `RecoverySparesRunningScans` | with `TaskLimit <= StaleAfter`, `Spec => []OnlyOrphansRecovered` |
| | `RecoveryIsFinal` | with the same, `Spec => []RecoveredIsFailed` |
| `IntegrationSyncProofs` | `SyncTypeCorrect` | `Spec => []TypeOK` |
| | `DisablingHasCause` | `Spec => DisabledForCause` |
| | `StatusIsOfTheCount` | `Spec => []StatusMatchesCount`: failures are counted exactly when the last sync failed |
| `ReconcilerProofs` | `InventoryTypeCorrect` | `Spec => []TypeOK` |
| | `UnreportedStaysShadow` | `Spec => []UnreportedIsShadow` |
| | `OnlyRacesDoubleHosts` | `Spec => []OneAssetPerMac` |
| | `ImportTypeCorrect` | of `AssetImport`: `ImportSpec => []ImportTypeOK` |
| | `TwoLimitsAreNotPassed` | of `AssetImport`: `ImportSpec => []TwoLimitsAtMost` |
| | `ImportsAddNoSecondName` | of `AssetImport`: `ImportSpec => []SecondNamesAreRaced` |
| | `SpelledDuplicatesAbort` | of `AssetImport`: no file with the header `name` is about to be added while it repeats a name |
| `AlertDeliveryProofs` | `DeliveryTypeCorrect` | `Spec => []TypeOK` |
| | `CountsHappened` | `Spec => []FailuresHappened` |
| | `DisabledIsFinal` | `Spec => DisabledStays`: no step enables a disabled webhook |
| | `AlertsAreToldOnce` | `Spec => []ToldOnce` |
| `RiskScoresProofs` | `ScoreIsBounded` | a score is between 1 and 5 |
| | `WorseNeverRatesLower` | worse factors lower neither score nor tier |
| | `ExploitIsNeverInformational` | an exploited CVE keeps an asset out of the lowest tier |
| | `RiskIsRated` | any words and any CVEs give a rating with levels for factors and the tier of its score |
| | `KevMeansExploited` | the KEV factor is 5 exactly if a CVE is exploited |
| | `RatingsTypeCorrect` | `Spec => []TypeOK` |
| | `ExploitedIsLinked` | `Spec => []ExploitIsLinked` |
| `AccountSessionsProofs` | `AccountsTypeCorrect` | `Spec => []TypeOK` |
| | `RefreshedOnce` | `Spec => RefreshOnce` |
| | `OldSessionsEnd` | `Spec => []PasswordEndsSessions` |
| | `LocksAreKept` | `Spec => LockIsKept` |
| | `AnAdminRemains` | `Spec => []AdminRemains` |
| `ComplianceAuditProofs` | `AuditTypeCorrect` | `Spec => []TypeOK` |
| | `AlertsNeverOutnumberMappings` | `Spec => []AlertsPerMapping` |
| | `SettledViewsAgree` | `Spec => []ViewsAgree` |

None of these properties is inductive as it stands: what a process will commit
depends on what it read. Each proof adds what is known of the processes' sessions.

*The pipeline.* `IInv` adds `JobHolds`: what
a running task has read still holds of the tables when it commits. The rows of a
validation exist, speak of the inventory's versions, and share their fix with no
other row of the batch or pending row, whatever has been decided about them; the rows of an application or a cancellation name their approver;
a proposal task runs under a successful scan, its plan names the inventory's
versions, has one entry for a package, and no pending row has the same fix.
It is kept because only the worker supersedes, adds or deletes rows and runs one task
at a time, while the API only decides. The action
property `FailsClosed` and the refinement follow from `IInv` and one step: `GateOf`
maps a row to absent, open, approved or gone, and each action to a step of the
gate or a stutter.

*Scans.* The row of a task that scans is running and no older
than the task (`JobRows`), no two tasks scan for one row (`Apart`), and a task has a row
only in its last phase (`NoEarlyRow`). With `TaskLimit <= StaleAfter` a stale row
is older than any task can be. The defaults are 3600 s and twice `SCAN_TIMEOUT_SEC`
= 7200 s; `config.py:141` lets the time-out be set lower than half the limit, and
then the row of a running scan can be recovered.

*Syncs.* `SInv`: what a sync has loaded and not tried yet agrees in count and
status as the table does (`LoadedAgree`), and no more failures are counted than happened in a row
(`CountsHappened`), outside `raced`. A commit writes the count and the status together or not
at all, so it keeps their agreement; a row loaded before another sync's commit is in `raced`. A success ends
that only if the row was loaded as it is and is on no other list, for then what it writes, and what others will load, agrees.

*The reconciler.* `FlagInv`: a row names no authoritative source that has not reported it, and is flagged if none has, in the
table (`TableFlagged`) and in each batch that holds it (`BatchFlagged`); the flag that a merge in progress read is the row's own
unless an authoritative source has reported it since; and no two sessions hold a row (`RowsAreLocked`). `ApartInv` is about MACs outside `crossed`: the table has one row of each, and so has each
session's view of it, or would have after the merge that is under way, for the session asked for the MAC before it gave it to a row. A commit
that gives a MAC to a row while another session that asked for it goes on puts it into `crossed`, and so does an entry by
hand beside a row or a lookup. Nothing else is excluded: any number of workers, batches of any length, any reports.

*Imports.* The two ways into the inventory are proved beside each other, which is why the definitions
of `AssetImport` have names of their own (`ImportSpec`, `ImportTypeOK`). `Window` counts with the bucket of each address: the last
`window_seconds` admitted at most what the bucket holds and one
limit of the bucket before, and the seconds since the expiry was set, only what the bucket
holds; a second expiry starts that count anew but keeps the first bound. `NamesAreNew`: a request that
is about to add names which the first pass saw adds each once, and the table has one only if it was added meanwhile, be it by a file
in another spelling.

*Delivery.* `CInv`: the rows a session holds count failures that happened, and are disabled only if
enough of them did; a commit can then lose failures and cannot invent one. `TInv`:
an alert outside `excused` is held by one flush, is unsent while it waits in a list, and once sent is
marked in its row or in the session that will mark it.

*The risk engine.* Bounds and monotonicity are facts of integer arithmetic: rounding
half to even is monotone (by cases on quotient and remainder), each lookup is a level, and the
weights sum to a hundred.

*Risk scores.* Types need two facts beside them: CVEs that a task saw stored, and CVEs
that are linked, are stored (nothing deletes either). `IInv` adds that only CVEs of the catalog are
stored as exploited, and that every rating a task or the pass has read or computed is justified by
a link, or will be by what the task stores with it.

*Accounts.* `RefreshOnce` needs that what was exchanged is marked in Redis until the token expires (`ExchangedIsMarked`): the
mark is set to live no shorter than the token (`MarkOutlives`). `PInv` says that
sessions of earlier passwords have ended, that all sessions have ended once the revocation of a
change that is in progress is in Redis, and that a request which is not late carries the password
of the row; sessions that are opened after the revocation and before the commit are late, and so
are those of a request that was checked only after its token, and perhaps the revocation, was gone. When
Redis forgets the revocation its sessions have expired: this is
`RevocationsOutliveTokens`. `AInv`: unless contested, one removal is in progress at a time, and it
spares an active administrator; it is true at first by `AnAdminIsCreated`.

*Compliance.* `IAlerts` counts. A mapping that an audit has read exists (`RowsExist`), no two
audits hold one (`RowsAreLocked`), the rows of a key and the inserts under way are no more
than the workers (`InsertsFit`), and its open alerts and the alerts that holders of its rows are about to
raise are no more than its rows (`AlertsFit`): who is about to raise one saw no open alert while it held
a row of its own, so there are at most as many as rows, and an insert brings its own.
`ViewsAgree` needs `AloneSeesAll`: what an audit that is alone has loaded is still in the rows when it commits, and
nobody overtakes it; its commit then makes row, evidence and result agree whatever they said before. A list
has at most one line for a key with one row, so that its lines map one to one into the keys the summary counts; if they are
as many as the keys the two counts are equal. This holds for any limits.

*Model-checked only:* liveness and whatever needs `ENABLED`. Every invariant and every action property of the passing runs is
proved; the only hypothesis besides the assumptions on constants is `TaskLimit <= StaleAfter`. No recursive operator is used.

## 6. Where code and documents disagree

Found by a run:

- `races`: the row of a new host is found by a query and inserted in the transaction of a batch, without a unique
  constraint. A scan and a sync, or two scans, that look it up before either commits make two assets of it (`reconciler.py:70`;
  docs/INTEGRATION-NOTES.md:280: "Single asset created").
- `cutoffs`: a flush marks its alerts in one commit after the last of them. With a webhook that never answers each flush
  ends at its time limit, and the same alerts are sent again by the next one (`notification_tasks.py:58`, against the comment at lines 52-53).

Claims that are definitions of a module, that no run lists, and for
which TLC gives a counterexample when one is added to the cfg of the module's first run, with what is named here:

1. `DuplicatesAbort` (AssetImport): the first pass of an import knows the column of names as `name` or `Name`, the check of the
   headers and the second pass know any spelling. In a file with a column NAME
   no name is looked for, and a repeated one is added twice (`bulk_import.py:138` and its docstring, line 82).
2. `UsersAreLimited` (AssetImport, three addresses and a limit of 1): nothing sets `request.state.user`, so that a user has as many counters as
   addresses (`rate_limit.py:58-64`); `bulk_import.py:5` says "3 imports per user per 60s".
3. `WindowEnds` (AssetImport): a process lost between `INCR` and `EXPIRE` leaves a counter without an end, and the address is
   refused for good once it is at the limit (`rate_limit.py:69`).
4. `EveryEnabledIsTried` (IntegrationSync): a host the database refuses at every sync ends every sync in its handler, so that the integrations
   after it are never tried, and it is never counted or disabled (`reconcile_tasks.py:58`, `celery_app.py:51`). `FailuresDisable` is
   the same failure seen from docs/INTEGRATION-NOTES.md:318.
5. `DisabledAfterLimit` (IntegrationSync): overlapping syncs count from one row and forget a success, so that a connector is
   disabled although its failures were not consecutive (`reconcile_tasks.py:59-61`).
6. `OwnerOutranksReporters` (Reconciler): a second source is appended in place and not stored. The row names the source that
   created it, and once a console has filled an asset that a scan created, a scan overwrites the console (`reconciler.py:86, 137`).
   `SourcesPreserved` (docs/TECHNICAL-ARCHITECTURE.md:46) and `ClaimedIsNotShadow` (docs/INTEGRATION-NOTES.md:205) fail for the same reason: the
   next scan flags a claimed asset as shadow IT.
7. `ReportsFindOneAsset` (Reconciler): a row takes an address that another row still has, and the next report that is matched by
   the address finds two, and raises (`reconciler.py:75`).
8. `AlertsAreDeduplicated` (Reconciler, `MaxAlerts` of 2): two sessions that both find no open alert raise the same one, after which each search
   for it finds two and raises (`reconciler.py:248-259`).
9. `NetworksAreScanned` (ScanJobs): after a failed merge the handler raises on an expired object, and the networks
   that follow are not scanned (`scan_tasks.py:26`).
10. `FailingIsDisabled` (AlertDelivery, the constants of `cutoffs`): the error text of a failed post exceeds its column; the commit that
   counts the failure is refused, and the webhook is never disabled
   (`webhook_dispatcher.py:210-212`).
11. `TierFitsScore` (RiskScores): `risk_engine.py:3-6` says that a rating can be reproduced from its
   components. Two sessions that each change one column leave a score beside
   another's tier, until the next rescoring.
12. `DecisionsFollowAssessment` (UpdateProposals): the AI task writes `ai_validated` over a decision that was committed
   while it ran; SELF-SECURITY.md:22 places the assessment first.
13. `ScanIsAuthoritative` (UpdateProposals): an approval read before a scan's supersession and committed after it revives the
   proposal; so does a cancelled patch.
14. `OneProposalPerFix` (UpdateProposals): a patch that is ready
   does not count as live, and its cancellation can make two live proposals of one
   update, after which proposing raises.
15. `ReplaysAreRefused` (AccountSessions): the mark of a used refresh token expires with the token, whose expiry is tested before two awaited
   calls to Redis. A request that decodes the token just before its expiry and reaches SET NX after it exchanges it again
   (`token_blocklist.py:91-101`, `auth.py:146`).
16. `ResultsBackMappings` (ComplianceAudit, limits of 3): an audit that overlaps another assigns the status it found to the row as it was
   loaded; if that is the same, only the evidence is written, and the row contradicts both the result it cites and the newest
   (`compliance_tasks.py:221`, `compliance.py:154`).
17. `ListIsWhole` (ComplianceAudit, two assets): above 76 assets of 13 controls the list leaves mappings out, above 769 results,
   while the summary counts all (`compliance.py:163, 177`).

Seen while modelling:

- Two OSV records with one CVE alias leave a scan "running" until the next scan.
- Merges made before a failure in the same sync are committed with the next integration that works.
- A drift is measured against services that reports without services overwrite, and that are empty at creation: such a change is not seen.
- Two flushes at a time send an alert twice. A flush marks an alert whose
  channels all failed. The event of a resolution may precede that of its alert.
- `webhook_dispatcher.py:6` speaks of a table of deliveries to retry, which does not exist.
- `update_blocked_reason` is never cleared once a fix appears.
- Two audits that overlap can insert two mappings of one asset and control, of
  which later audits update one; the other is listed for good. A gap alert is found by a title
  with the asset's name, and is stranded when the asset is renamed.
- SI-2 of an asset without a patch date is "partial", and with "Never" as its date and an EOL system a "gap".
- The boost for ransomware (docs/TECHNICAL-ARCHITECTURE.md:73) never applies: no caller passes `kev_ransomware`.
  `AssetCVE.suppressed` and `remediated` are never set.
- A batch of enrichments whose process loses a race for a CVE ends, and the assets after it wait for the next batch.
- Two administrators who remove each other at the same time may leave none.
- `last_seen` changes with every update of a row (`models/__init__.py:71-73`), and so with a rescoring that changes a
  score: an asset that no source reports any more may be found stale late, or not at all.

## 7. Not modelled, and why

- *Retention.* The task is scheduled (`celery_app.py:111-114`) but its module is in no
  worker's `include` (lines 12-19), and the default queue has no consumer: nothing of it
  runs, although README.md:32 lists retention among the scheduled work.
- *The passes over stale assets and EDR gaps* (`reconciler.py:202-244`): one transaction each, which raises alerts by the
  deduplication that `Reconciler` models for drift. The models have no days and no `is_stale`.
- *AI ingestion* adds assets by `create_from_source` without a lookup; in `AssetImport` it is one of the ways a name
  appears, in `Reconciler` it is left out. It doubles hosts as an entry by hand does.
- *The on-demand scan* of one host keeps no row. *MFA enrolment* is two columns
  of one row, written by the request that read them.
- *Exports, dashboard, assistant:* they read. *Other administration, API tokens, networks, tags:*
  one transaction over one row.
- *Event stream:* connections and tickets of one process, and no effect on the rest.
- *Encryption, scan authorization, password policy, parsers, AI client, connectors:*
  pure functions or calls out; in the models they are outcomes.
- *Browser client, migrations, deployment files.*

## 8. What is left

1. The stale and EDR passes of `Reconciler`, and its composition with `IntegrationSync` for a report
   that fails halfway.
2. MFA enrolment in `AccountSessions`, beside changes of password and erasures of the same row.
3. Abstract specifications of a connector's count of failures and of a scan row's life, which
   `IntegrationSync` (outside `raced`) and `ScanJobs` (with `TaskLimit <= StaleAfter`) implement, as
   `ApprovalGate` is of the pipeline, with their proofs.
