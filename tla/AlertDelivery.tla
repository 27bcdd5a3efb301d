---------------------------- MODULE AlertDelivery ----------------------------
(***************************************************************************)
(* The delivery of alerts: a flush sends the open alerts that nobody has   *)
(* been told of to the notification channels and to the webhooks, and      *)
(* marks them; a resolution and a test are sent to the webhooks by the API *)
(*                                                                         *)
(* A flush commits once, after its last alert.  Each event has a session   *)
(* of its own: it loads the webhooks, posts to one after the other, and    *)
(* commits their counts together.  Flushes run in two workers, beside the  *)
(* API.                                                                    *)
(***************************************************************************)
EXTENDS Integers, FiniteSets

CONSTANTS
  Alerts,        \* ids of alerts
  Hooks,         \* ids of webhooks
  Workers,       \* processes of the notifications queue
  Requests,      \* events the API may have in flight
  Names,         \* names of notification channels
  Channels,      \* the channels that are configured for an alert's severity
  Silent,        \* those that swallow a failure to send: syslog
  Filter,        \* what each webhook's event types and severities let through
  Unreachable,   \* webhooks whose requests always fail in the HTTP client
  Batch,         \* alerts taken by a flush: 100
  Limit,         \* failures in a row that disable a webhook: 10
  MaxFailures,   \* bound: failures counted
  MaxUpsets,     \* bound: webhooks deleted or tested and processes lost in a behaviour;
                 \* flushes cut off by the time limit are not counted
  None           \* no alert

Kinds == {"created", "resolved"}

ASSUME FiltersLetEventsThrough == Filter \in [Hooks -> SUBSET (Kinds \X Alerts)]
ASSUME ChannelsDeclared == Channels \in [Alerts -> SUBSET Names] /\ Silent \subseteq Names
ASSUME UnreachableDeclared == Unreachable \subseteq Hooks
ASSUME LimitsArePositive == Batch \in Nat \ {0} /\ Limit \in Nat \ {0}
ASSUME BoundsAreNaturals == MaxFailures \in Nat /\ MaxUpsets \in Nat
ASSUME NoneIsNoAlert == None \notin Alerts

VARIABLES
  alert,    \* the alerts table
  hook,     \* the webhooks table
  act,      \* what each worker and each request of the API is doing
  sent,     \* history: how often an alert was sent to the channels, up to 2
  excused,  \* history: alerts of a lost or cut off flush, or of two flushes at a time
  failed,   \* history: posts to each webhook that failed
  upsets    \* deletions, tests and losses so far

vars == <<alert, hook, act, sent, excused, failed, upsets>>
history == <<sent, excused, failed>>

-----------------------------------------------------------------------------
Alert == [status: {"none", "open", "resolved"}, notified: BOOLEAN, channels: SUBSET Names]

Hook == [enabled: BOOLEAN, failures: 0..MaxFailures]
Deleted == [enabled |-> FALSE, failures |-> 0, deleted |-> TRUE]
Exists(h) == hook[h] # Deleted

PartialFrom(S, T) == UNION {[X -> T] : X \in SUBSET S}

\* rows: alerts of the flush still to be sent; marked: the channels of those that
\* were; hooks: webhooks still to be posted to; loaded, after: the rows in the
\* session of the event, before and after; touched: those of them that changed in a
\* column, modelled or not; long: a status is too long to store.
Act == [step: {"idle", "alerts", "load", "post"}, rows: SUBSET Alerts,
        marked: PartialFrom(Alerts, SUBSET Names), alert: Alerts \union {None},
        hooks: SUBSET Hooks, loaded: PartialFrom(Hooks, Hook), after: PartialFrom(Hooks, Hook),
        touched: SUBSET Hooks, long: BOOLEAN]
Idle == [step |-> "idle", rows |-> {}, marked |-> <<>>, alert |-> None, hooks |-> {},
         loaded |-> <<>>, after |-> <<>>, touched |-> {}, long |-> FALSE]

Processes == Workers \union Requests

Init ==
  /\ alert = [a \in Alerts |-> [status |-> "none", notified |-> FALSE, channels |-> {}]]
  /\ hook = [h \in Hooks |-> [enabled |-> TRUE, failures |-> 0]]
  /\ act = [p \in Processes |-> Idle]
  /\ sent = [a \in Alerts |-> 0]
  /\ excused = {}
  /\ failed = [h \in Hooks |-> 0]
  /\ upsets = 0

\* A scan, a sync or an audit raises an alert.
NewAlert(a) ==
  /\ alert[a].status = "none"
  /\ alert' = [alert EXCEPT ![a].status = "open"]
  /\ UNCHANGED <<hook, act, history, upsets>>

Due == {a \in Alerts : alert[a].status = "open" /\ ~alert[a].notified}

\* The alerts of a flush that others have taken but not committed.
Held(w) == UNION {act[v].rows \union DOMAIN act[v].marked : v \in Workers \ {w}}

BeginFlush(w) ==
  /\ act[w] = Idle
  /\ Due # {}
  /\ \E rows \in SUBSET Due :
       /\ \/ Cardinality(rows) = Batch
          \/ Cardinality(rows) < Batch /\ rows = Due
       /\ act' = [act EXCEPT ![w] = [Idle EXCEPT !.step = "alerts", !.rows = rows]]
       /\ excused' = excused \union (rows \intersect Held(w))
  /\ UNCHANGED <<alert, hook, sent, failed, upsets>>

\* Slip: an alert that no channel took is left for the next flush.
MarkedIfSent(a, channels) ==
  [alert[a] EXCEPT !.notified = @ \/ channels # {},
                   !.channels = IF channels # {} THEN channels ELSE @]

\* Slip: a marked alert gets a status no other code knows.
MarkedByStatus(a, channels) == [alert[a] EXCEPT !.notified = TRUE, !.status = "notified"]

\* An alert is marked whether or not a channel took it.
Marked(a, channels) ==
  [alert[a] EXCEPT !.notified = TRUE, !.channels = IF channels # {} THEN channels ELSE @]

\* The one commit of a flush.
FinishFlush(w) ==
  /\ act[w].step = "alerts" /\ act[w].rows = {}
  /\ alert' = [a \in Alerts |->
       IF a \in DOMAIN act[w].marked THEN Marked(a, act[w].marked[a]) ELSE alert[a]]
  /\ act' = [act EXCEPT ![w] = Idle]
  /\ UNCHANGED <<hook, history, upsets>>

-----------------------------------------------------------------------------
(* An event.                                                               *)

Receivers(kind, a) ==
  {h \in Hooks : Exists(h) /\ hook[h].enabled /\ <<kind, a>> \in Filter[h]}

Load(x, S) ==
  [x EXCEPT !.step = "post", !.hooks = S,
            !.loaded = [h \in S |-> hook[h]], !.after = [h \in S |-> hook[h]],
            !.touched = {}]

AfterNotice(x, a, channels) ==
  [x EXCEPT !.rows = @ \ {a},
            !.marked = [b \in DOMAIN @ \union {a} |-> IF b = a THEN channels ELSE @[b]]]

\* A flush sends an alert to its channels and records those that did not raise;
\* then it loads the webhooks for the event.
Notify(w, a, channels) ==
  /\ act[w].step = "alerts" /\ a \in act[w].rows
  /\ Channels[a] \intersect Silent \subseteq channels /\ channels \subseteq Channels[a]
  /\ act' = [act EXCEPT ![w] =
       AfterNotice(Load(act[w], Receivers("created", a)), a, channels)]
  /\ sent' = [sent EXCEPT ![a] = IF @ < 2 THEN @ + 1 ELSE @]   \* bound
  /\ UNCHANGED <<alert, hook, excused, failed, upsets>>

\* The event of a resolution runs once the event loop comes to it.
LoadHooks(q) ==
  /\ act[q].step = "load"
  /\ act' = [act EXCEPT ![q] = [Load(act[q], Receivers("resolved", act[q].alert)) EXCEPT !.alert = None]]
  /\ UNCHANGED <<alert, hook, history, upsets>>

AfterPost(x, h, row, changed, long) ==
  [x EXCEPT !.hooks = @ \ {h}, !.after = [@ EXCEPT ![h] = row],
            !.touched = IF changed THEN @ \union {h} ELSE @, !.long = @ \/ long]

Posted(p, h, row, changed, long) ==
  act' = [act EXCEPT ![p] = AfterPost(act[p], h, row, changed, long)]

\* The first of at most three attempts that the receiver accepts: the deliveries
\* are counted, besides.
Delivers(p, h) ==
  /\ h \in act[p].hooks \ Unreachable
  /\ Posted(p, h, [act[p].after[h] EXCEPT !.failures = 0], TRUE, FALSE)
  /\ UNCHANGED <<alert, hook, history, upsets>>

\* Slip: an address that may not be posted to counts as a failure.
AfterSkipCounted(r) ==
  [r EXCEPT !.failures = IF @ < MaxFailures THEN @ + 1 ELSE @]

AfterSkip(r) == r

\* The URL, the address it resolves to or the secret is unusable: nothing is posted,
\* and only the text of the status tells of it, unless it did so before.
Skips(p, h) ==
  /\ h \in act[p].hooks
  /\ \E changed \in BOOLEAN : Posted(p, h, AfterSkip(act[p].after[h]), changed, FALSE)
  /\ UNCHANGED <<alert, hook, history, upsets>>

AfterFailure(r) ==
  [r EXCEPT !.failures = @ + 1, !.enabled = @ /\ r.failures + 1 < Limit]

\* The attempts fail.  The text of the error, cut to 60 characters, goes into a
\* status of 32: that of the HTTP client's errors, wrapped by the retries, is longer.
Fails(p, h, long) ==
  /\ h \in act[p].hooks
  /\ h \in Unreachable => long
  /\ act[p].after[h].failures < MaxFailures   \* bound
  /\ Posted(p, h, AfterFailure(act[p].after[h]), TRUE, long)
  /\ failed' = [failed EXCEPT ![h] = IF @ < MaxFailures THEN @ + 1 ELSE @]   \* bound
  /\ UNCHANGED <<alert, hook, sent, excused, upsets>>

\* A commit writes the columns whose value differs from the one loaded.
Written(h, r, s) == [c \in DOMAIN r |-> IF s[c] # r[c] THEN s[c] ELSE hook[h][c]]

\* The database refuses a status that is too long, and an update of a deleted row.
Refused(p) == act[p].long \/ \E h \in act[p].touched : ~Exists(h)

\* The commit of an event.  A flush goes on, even if it was refused.
CommitEvent(p) ==
  /\ act[p].step = "post" /\ act[p].hooks = {}
  /\ hook' = [h \in Hooks |->
       IF ~Refused(p) /\ h \in act[p].touched
       THEN Written(h, act[p].loaded[h], act[p].after[h]) ELSE hook[h]]
  /\ act' = [act EXCEPT ![p] =
       IF p \in Workers THEN [Idle EXCEPT !.step = "alerts", !.rows = act[p].rows,
                                          !.marked = act[p].marked]
       ELSE Idle]
  /\ UNCHANGED <<alert, history, upsets>>

-----------------------------------------------------------------------------
(* The API.                                                                *)

\* PATCH /alerts/{id}/resolve commits, and leaves an event to the event loop.
Resolve(q, a) ==
  /\ act[q] = Idle
  /\ alert[a].status # "none"
  /\ alert' = [alert EXCEPT ![a].status = "resolved"]
  /\ act' = [act EXCEPT ![q] = [Idle EXCEPT !.step = "load", !.alert = a]]
  /\ UNCHANGED <<hook, history, upsets>>

\* POST /webhooks/{id}/test, enabled or not.
Test(q, h) ==
  /\ act[q] = Idle /\ Exists(h) /\ upsets < MaxUpsets
  /\ upsets' = upsets + 1
  /\ act' = [act EXCEPT ![q] = Load(Idle, {h})]
  /\ UNCHANGED <<alert, hook, history>>

DeleteHook(h) ==
  /\ Exists(h) /\ upsets < MaxUpsets
  /\ upsets' = upsets + 1
  /\ hook' = [hook EXCEPT ![h] = Deleted]
  /\ UNCHANGED <<alert, act, history>>

\* A worker or a process of the API is lost, with its sessions.
Lose(p) ==
  /\ act[p] # Idle /\ upsets < MaxUpsets
  /\ upsets' = upsets + 1
  /\ act' = [act EXCEPT ![p] = Idle]
  /\ excused' = excused \union DOMAIN act[p].marked
  /\ UNCHANGED <<alert, hook, sent, failed>>

\* A flush comes to the time limit of its task before its only commit, which a batch
\* of alerts to a webhook that never answers does each time.
CutOff(w) ==
  /\ act[w] # Idle
  /\ act' = [act EXCEPT ![w] = Idle]
  /\ excused' = excused \union DOMAIN act[w].marked
  /\ UNCHANGED <<alert, hook, sent, failed, upsets>>

Event(p) ==
  \/ CommitEvent(p)
  \/ \E h \in Hooks : Delivers(p, h) \/ Skips(p, h) \/ \E long \in BOOLEAN : Fails(p, h, long)

Flush(w) ==
  \/ BeginFlush(w) \/ FinishFlush(w) \/ Event(w)
  \/ \E a \in Alerts : \E channels \in SUBSET Channels[a] : Notify(w, a, channels)

Next ==
  \/ \E a \in Alerts : NewAlert(a)
  \/ \E w \in Workers : Flush(w) \/ CutOff(w)
  \/ \E q \in Requests : LoadHooks(q) \/ Event(q) \/ \E a \in Alerts : Resolve(q, a) \/ \E h \in Hooks : Test(q, h)
  \/ \E h \in Hooks : DeleteHook(h)
  \/ \E p \in Processes : Lose(p)

Spec == Init /\ [][Next]_vars

\* Beat sends a flush every five minutes, and a worker goes on with it.
FairSpec == Spec /\ \A w \in Workers : WF_vars(Flush(w))

-----------------------------------------------------------------------------
(* Properties.                                                              *)

\* Rows, jobs and counters hold what their columns and loops can hold.
TypeOK ==
  /\ alert \in [Alerts -> Alert]
  /\ hook \in [Hooks -> Hook \union {Deleted}]
  /\ act \in [Processes -> Act]
  /\ sent \in [Alerts -> 0..2]
  /\ excused \subseteq Alerts
  /\ failed \in [Hooks -> 0..MaxFailures]
  /\ upsets \in 0..MaxUpsets

\* The channels are told of an alert once, whatever they, the webhooks and the
\* commits of their events do, unless a flush was lost or cut off or two overlapped.
ToldOnce == \A a \in Alerts \ excused : sent[a] <= 1

\* Nobody is counted as failing for more than it did: through commits over
\* stale rows, resolutions, tests and flushes at a time, the failures of a
\* webhook are at most the posts to it that failed, so that Limit of them lie
\* behind every disabled one.
FailuresHappened ==
  \A h \in Hooks : Exists(h) =>
    /\ hook[h].failures <= failed[h]
    /\ ~hook[h].enabled => failed[h] >= Limit

\* A disabled webhook stays disabled: no event that loaded it earlier, and
\* succeeds later, enables it again.
DisabledStays ==
  [][\A h \in Hooks : ~hook[h].enabled => ~hook'[h].enabled]_vars

\* An open alert is marked or resolved in the end, however many are due at
\* once, whatever channels and webhooks fail, and although workers are lost,
\* or flushes are cut off again and again.
HandledUnlessCutOff ==
  \A a \in Alerts :
    \/ a \in Due ~> a \notin Due
    \/ []<><<\E w \in Workers : CutOff(w)>>_vars

\* notification_tasks.py:52: whatever a webhook receiver does, the alert is marked
\* in the end.
EveryAlertIsHandled == \A a \in Alerts : a \in Due ~> a \notin Due

\* webhook_dispatcher.py:212: a webhook that fails Limit times in a row is
\* disabled, once the events that posted to it are committed.
FailingIsDisabled ==
  \A h \in Unreachable :
    failed[h] >= Limit /\ (\A p \in Processes : h \notin DOMAIN act[p].loaded) => ~hook[h].enabled
=============================================================================
