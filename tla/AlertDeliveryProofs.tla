-------------------------- MODULE AlertDeliveryProofs --------------------------
(***************************************************************************)
(* Alerts are told once, and the counts of webhooks are made of failures   *)
(* that happened, for any numbers of alerts, webhooks and processes.       *)
(***************************************************************************)
EXTENDS AlertDelivery, TLAPS

LEMMA PartialIsFunction ==
  ASSUME NEW S, NEW T, NEW f
  PROVE  f \in PartialFrom(S, T) <=> DOMAIN f \subseteq S /\ f \in [DOMAIN f -> T]
BY DEF PartialFrom

LEMMA EmptyIsPartial == \A S, T : <<>> \in PartialFrom(S, T) /\ DOMAIN <<>> = {}
<1>1. SUFFICES ASSUME NEW S, NEW T PROVE <<>> \in PartialFrom(S, T) /\ DOMAIN <<>> = {}
  OBVIOUS
<1>2. DOMAIN <<>> = {}
  OBVIOUS
<1>3. <<>> \in [{} -> T]
  OBVIOUS
<1> QED
  BY <1>2, <1>3, PartialIsFunction

LEMMA IdleIsAct == Idle \in Act
<1>1. /\ <<>> \in PartialFrom(Alerts, SUBSET Names)
      /\ <<>> \in PartialFrom(Hooks, Hook)
  BY EmptyIsPartial
<1> QED
  BY <1>1 DEF Idle, Act

LEMMA HookExists == \A r \in Hook : r # Deleted
<1>1. \A r \in Hook : "deleted" \notin DOMAIN r
  BY DEF Hook
<1>2. "deleted" \in DOMAIN Deleted
  BY DEF Deleted
<1> QED
  BY <1>1, <1>2

-----------------------------------------------------------------------------
(* The rows of a session.                                                  *)

\* A session has a row after the event for each row it loaded.
SessionIsWhole ==
  \A p \in Processes :
    /\ DOMAIN act[p].after = DOMAIN act[p].loaded
    /\ act[p].hooks \subseteq DOMAIN act[p].loaded /\ act[p].touched \subseteq DOMAIN act[p].loaded

DTypes == TypeOK /\ SessionIsWhole

\* The parts of what a process is doing.
LEMMA ActHas ==
  ASSUME DTypes, NEW p \in Processes
  PROVE  /\ act[p] \in Act
         /\ act[p].rows \subseteq Alerts /\ act[p].hooks \subseteq Hooks
         /\ DOMAIN act[p].marked \subseteq Alerts
         /\ act[p].marked \in [DOMAIN act[p].marked -> SUBSET Names]
         /\ DOMAIN act[p].loaded \subseteq Hooks /\ DOMAIN act[p].after = DOMAIN act[p].loaded
         /\ act[p].hooks \subseteq DOMAIN act[p].loaded
         /\ act[p].touched \subseteq DOMAIN act[p].loaded
         /\ act[p].loaded \in [DOMAIN act[p].loaded -> Hook]
         /\ act[p].after \in [DOMAIN act[p].loaded -> Hook]
<1>1. act[p] \in Act
  BY DEF DTypes, TypeOK
<1>2. /\ act[p].marked \in PartialFrom(Alerts, SUBSET Names)
      /\ act[p].loaded \in PartialFrom(Hooks, Hook)
      /\ act[p].after \in PartialFrom(Hooks, Hook)
      /\ act[p].rows \subseteq Alerts /\ act[p].hooks \subseteq Hooks
  BY <1>1 DEF Act
<1>3. /\ DOMAIN act[p].after = DOMAIN act[p].loaded
      /\ act[p].hooks \subseteq DOMAIN act[p].loaded /\ act[p].touched \subseteq DOMAIN act[p].loaded
  BY DEF DTypes, SessionIsWhole
<1> QED
  BY <1>1, <1>2, <1>3, PartialIsFunction

\* A step of one process, which may write alerts and webhooks.
LEMMA ProcessTypes ==
  ASSUME DTypes, NEW p \in Processes, NEW x \in Act, act' = [act EXCEPT ![p] = x],
         DOMAIN x.after = DOMAIN x.loaded, x.hooks \subseteq DOMAIN x.loaded,
         x.touched \subseteq DOMAIN x.loaded,
         alert' \in [Alerts -> Alert], hook' \in [Hooks -> Hook \union {Deleted}],
         sent' \in [Alerts -> 0..2], excused' \subseteq Alerts, failed' \in [Hooks -> 0..MaxFailures],
         upsets' \in 0..MaxUpsets
  PROVE  DTypes'
<1>1. \A q \in Processes : act'[q] = IF q = p THEN x ELSE act[q]
  BY DEF DTypes, TypeOK
<1>2. act' \in [Processes -> Act]
  BY DEF DTypes, TypeOK
<1>3. TypeOK'
  BY <1>2 DEF TypeOK
<1>4. SessionIsWhole'
  BY <1>1 DEF DTypes, SessionIsWhole
<1> QED
  BY <1>3, <1>4 DEF DTypes

\* Loading the rows of webhooks that exist.
LEMMA LoadIsAct ==
  ASSUME DTypes, NEW x \in Act, NEW S \in SUBSET Hooks, \A h \in S : Exists(h),
         NEW y, y = Load(x, S)
  PROVE  /\ y \in Act
         /\ y.hooks = S /\ DOMAIN y.loaded = S /\ DOMAIN y.after = S /\ y.touched = {}
         /\ \A h \in S : y.loaded[h] = hook[h] /\ y.after[h] = hook[h]
         /\ y.rows = x.rows /\ y.marked = x.marked
<1> DEFINE rows == [h \in S |-> hook[h]]
<1>1. \A h \in S : hook[h] \in Hook
  BY DEF DTypes, TypeOK, Exists
<1>2. rows \in [S -> Hook] /\ DOMAIN rows = S
  BY <1>1
<1>3. rows \in PartialFrom(Hooks, Hook)
  BY <1>2, PartialIsFunction
<1>4. y = [x EXCEPT !.step = "post", !.hooks = S, !.loaded = rows, !.after = rows,
             !.touched = {}]
  BY DEF Load
<1> HIDE DEF rows
<1>5. y \in Act
  BY <1>3, <1>4 DEF Act
<1>6. /\ y.hooks = S /\ y.loaded = rows /\ y.after = rows /\ y.touched = {}
      /\ y.rows = x.rows /\ y.marked = x.marked
  BY <1>4 DEF Act
<1> QED
  BY <1>2, <1>5, <1>6 DEF rows

\* An alert sent to its channels: it is no longer to be sent but marked.
LEMMA NoticeIsAct ==
  ASSUME NEW y \in Act, NEW a \in Alerts, NEW channels \in SUBSET Channels[a],
         NEW x, x = AfterNotice(y, a, channels)
  PROVE  /\ x \in Act
         /\ x.hooks = y.hooks /\ x.loaded = y.loaded /\ x.after = y.after /\ x.touched = y.touched
         /\ x.rows = y.rows \ {a} /\ DOMAIN x.marked = DOMAIN y.marked \union {a}
<1> DEFINE m == [b \in DOMAIN y.marked \union {a} |-> IF b = a THEN channels ELSE y.marked[b]]
<1>1. channels \in SUBSET Names
  BY ChannelsDeclared
<1>2. y.marked \in PartialFrom(Alerts, SUBSET Names)
  BY DEF Act
<1>3. DOMAIN m \subseteq Alerts /\ m \in [DOMAIN m -> SUBSET Names]
  BY <1>1, <1>2, PartialIsFunction
<1>4. m \in PartialFrom(Alerts, SUBSET Names)
  BY <1>3, PartialIsFunction
<1> DEFINE rows == y.rows \ {a}
<1>10. rows \subseteq Alerts
  BY DEF Act
<1>5. x = [y EXCEPT !.rows = rows, !.marked = m]
  BY DEF AfterNotice
<1>6. DOMAIN m = DOMAIN y.marked \union {a}
  OBVIOUS
<1> HIDE DEF m, rows
<1>7. x.marked = m
  BY <1>5 DEF Act
<1>9. x \in Act
  BY <1>4, <1>5, <1>10 DEF Act
<1>8. /\ x.hooks = y.hooks /\ x.loaded = y.loaded /\ x.after = y.after /\ x.touched = y.touched
      /\ x.rows = rows
  BY <1>5 DEF Act
<1> QED
  BY <1>6, <1>7, <1>8, <1>9 DEF rows

\* What a process is doing after a post.
LEMMA PostIsAct ==
  ASSUME DTypes, NEW p \in Processes, NEW h \in act[p].hooks, NEW row \in Hook, NEW changed \in BOOLEAN,
         NEW long \in BOOLEAN, NEW x, x = AfterPost(act[p], h, row, changed, long)
  PROVE  /\ x \in Act
         /\ x.hooks = act[p].hooks \ {h} /\ x.loaded = act[p].loaded
         /\ DOMAIN x.after = DOMAIN x.loaded /\ x.touched \subseteq DOMAIN x.loaded
         /\ x.after[h] = row /\ \A i \in DOMAIN x.loaded \ {h} : x.after[i] = act[p].after[i]
         /\ x.rows = act[p].rows /\ x.marked = act[p].marked
<1> DEFINE after == [act[p].after EXCEPT ![h] = row]
<1>1. /\ act[p] \in Act /\ act[p].hooks \subseteq Hooks /\ h \in DOMAIN act[p].loaded
      /\ act[p].after \in [DOMAIN act[p].loaded -> Hook]
      /\ DOMAIN act[p].loaded \subseteq Hooks
      /\ DOMAIN act[p].after = DOMAIN act[p].loaded /\ act[p].touched \subseteq DOMAIN act[p].loaded
  BY ActHas
<1>2. after \in [DOMAIN act[p].loaded -> Hook] /\ DOMAIN after = DOMAIN act[p].loaded
      /\ after[h] = row /\ \A i \in DOMAIN act[p].loaded \ {h} : after[i] = act[p].after[i]
  BY <1>1
<1>3. after \in PartialFrom(Hooks, Hook)
  BY <1>1, <1>2, PartialIsFunction
<1> DEFINE now == IF changed THEN act[p].touched \union {h} ELSE act[p].touched
<1> DEFINE tooLong == act[p].long \/ long
<1> DEFINE left == act[p].hooks \ {h}
<1>4. tooLong \in BOOLEAN /\ left \subseteq Hooks /\ now \subseteq Hooks /\ now \subseteq DOMAIN act[p].loaded
  BY <1>1 DEF Act
<1>5. x = [act[p] EXCEPT !.hooks = left, !.after = after, !.touched = now, !.long = tooLong]
  BY DEF AfterPost
<1>8. act[p] \in Act
  BY <1>1
<1> HIDE DEF after, now, tooLong, left
<1>6. x \in Act
  BY <1>3, <1>4, <1>5, <1>8 DEF Act
<1>7. /\ x.hooks = left /\ x.loaded = act[p].loaded /\ x.after = after
      /\ x.touched = now
      /\ x.rows = act[p].rows /\ x.marked = act[p].marked
  BY <1>5, <1>8 DEF Act
<1> QED
  BY <1>2, <1>4, <1>6, <1>7 DEF left

LEMMA AfterFailureIsHook ==
  ASSUME NEW r \in Hook, r.failures < MaxFailures
  PROVE  /\ AfterFailure(r) \in Hook
         /\ AfterFailure(r).failures = r.failures + 1
         /\ AfterFailure(r).enabled => r.enabled
         /\ ~AfterFailure(r).enabled => ~r.enabled \/ r.failures + 1 >= Limit
<1> DEFINE failures == r.failures + 1
<1> DEFINE enabled == r.enabled /\ r.failures + 1 < Limit
<1>1. failures \in 0..MaxFailures
  BY BoundsAreNaturals DEF Hook
<1>2. enabled \in BOOLEAN /\ (enabled => r.enabled)
  OBVIOUS
<1>3. ~enabled => ~r.enabled \/ failures >= Limit
  BY LimitsArePositive DEF Hook
<1>4. AfterFailure(r) = [r EXCEPT !.failures = failures, !.enabled = enabled]
  BY DEF AfterFailure
<1>5. failures = r.failures + 1
  OBVIOUS
<1> HIDE DEF failures, enabled
<1>6. AfterFailure(r) \in Hook
  BY <1>1, <1>2, <1>4 DEF Hook
<1>7. AfterFailure(r).failures = failures /\ AfterFailure(r).enabled = enabled
  BY <1>4 DEF Hook
<1> QED
  BY <1>2, <1>3, <1>5, <1>6, <1>7

\* A commit writes each column as the session changed it, or leaves it.
LEMMA WrittenIsHook ==
  ASSUME NEW h \in Hooks, hook[h] \in Hook, NEW r \in Hook, NEW s \in Hook
  PROVE  /\ Written(h, r, s) \in Hook
         /\ Written(h, r, s).failures \in {s.failures, hook[h].failures}
         /\ Written(h, r, s).enabled =
              IF s.enabled # r.enabled THEN s.enabled ELSE hook[h].enabled
<1> DEFINE value(c) == IF s[c] # r[c] THEN s[c] ELSE hook[h][c]
<1>1. DOMAIN r = {"enabled", "failures"}
  BY DEF Hook
<1>2. Written(h, r, s) = [c \in {"enabled", "failures"} |-> value(c)]
  BY <1>1 DEF Written
<1>3. value("enabled") \in BOOLEAN /\ value("failures") \in 0..MaxFailures
  BY DEF Hook
<1> HIDE DEF value
<1>4. Written(h, r, s) = [enabled |-> value("enabled"), failures |-> value("failures")]
  BY <1>2
<1> QED
  BY <1>3, <1>4 DEF Hook, value

-----------------------------------------------------------------------------
(* Types.                                                                  *)

LEMMA InitTypes == Init => DTypes
<1>1. ASSUME Init PROVE TypeOK
  <2>1. [status |-> "none", notified |-> FALSE, channels |-> {}] \in Alert
    BY DEF Alert
  <2>2. [enabled |-> TRUE, failures |-> 0] \in Hook
    BY BoundsAreNaturals DEF Hook
  <2> QED
    BY <1>1, <2>1, <2>2, IdleIsAct, BoundsAreNaturals DEF Init, TypeOK
<1>2. ASSUME Init PROVE SessionIsWhole
  BY <1>2 DEF Init, SessionIsWhole, Idle
<1> QED
  BY <1>1, <1>2 DEF DTypes
\* A post answered: the row of the webhook in the session changes.
LEMMA PostTypes ==
  ASSUME DTypes, NEW p \in Processes, NEW h \in act[p].hooks, NEW row \in Hook,
         NEW changed \in BOOLEAN,
         NEW long \in BOOLEAN, Posted(p, h, row, changed, long),
         failed' \in [Hooks -> 0..MaxFailures],
         UNCHANGED <<alert, hook, sent, excused, upsets>>
  PROVE  DTypes'
<1> SUFFICES ASSUME NEW x, x = AfterPost(act[p], h, row, changed, long) PROVE DTypes'
  OBVIOUS
<1>1. act' = [act EXCEPT ![p] = x]
  BY DEF Posted
<1>2. x \in Act /\ x.hooks = act[p].hooks \ {h} /\ x.loaded = act[p].loaded
      /\ DOMAIN x.after = DOMAIN x.loaded
  BY PostIsAct
<1>3. x.touched \subseteq DOMAIN x.loaded
  BY PostIsAct
<1>4. act[p].hooks \subseteq DOMAIN act[p].loaded
  BY ActHas
<1>5. x.hooks \subseteq DOMAIN x.loaded
  BY <1>2, <1>4
<1> QED
  BY <1>1, <1>2, <1>3, <1>5, ProcessTypes DEF DTypes, TypeOK

\* The rows a post finds and leaves.
LEMMA PostRows ==
  ASSUME DTypes, NEW p \in Processes, NEW h \in act[p].hooks
  PROVE  /\ h \in Hooks /\ h \in DOMAIN act[p].loaded
         /\ act[p].after[h] \in Hook
         /\ [act[p].after[h] EXCEPT !.failures = 0] \in Hook
<1>1. h \in Hooks /\ h \in DOMAIN act[p].loaded /\ act[p].after[h] \in Hook
  BY ActHas
<1>2. \A r \in Hook : [r EXCEPT !.failures = 0] \in Hook
  BY BoundsAreNaturals DEF Hook
<1> QED
  BY <1>1, <1>2

LEMMA EventTypes ==
  ASSUME DTypes, NEW p \in Processes, Event(p)
  PROVE  DTypes'
<1>1. CASE CommitEvent(p)
  <2> DEFINE y == IF p \in Workers THEN [Idle EXCEPT !.step = "alerts", !.rows = act[p].rows,
                                                     !.marked = act[p].marked]
                  ELSE Idle
  <2>1. act' = [act EXCEPT ![p] = y]
    BY <1>1 DEF CommitEvent
  <2>2. act[p] \in Act
    BY ActHas
  <2>3. /\ y \in Act
        /\ DOMAIN y.after = DOMAIN y.loaded /\ y.hooks \subseteq DOMAIN y.loaded
        /\ y.touched \subseteq DOMAIN y.loaded
    BY <2>2, IdleIsAct DEF Act, Idle
  <2>4. hook' \in [Hooks -> Hook \union {Deleted}]
    <3>1. ASSUME NEW h \in Hooks PROVE hook'[h] \in Hook \union {Deleted}
      <4>1. CASE ~Refused(p) /\ h \in act[p].touched
        <5>1. Exists(h) /\ h \in DOMAIN act[p].loaded
          BY <4>1, ActHas DEF Refused
        <5>2. hook[h] \in Hook
          BY <5>1 DEF Exists, DTypes, TypeOK
        <5>3. act[p].loaded[h] \in Hook /\ act[p].after[h] \in Hook
          BY <5>1, ActHas
        <5>4. hook'[h] = Written(h, act[p].loaded[h], act[p].after[h])
          BY <1>1, <4>1 DEF CommitEvent
        <5> QED
          BY <5>2, <5>3, <5>4, WrittenIsHook
      <4>2. CASE ~(~Refused(p) /\ h \in act[p].touched)
        BY <1>1, <4>2 DEF CommitEvent, DTypes, TypeOK
      <4> QED
        BY <4>1, <4>2
    <3>2. hook' = [h \in Hooks |-> hook'[h]]
      BY <1>1 DEF CommitEvent
    <3> QED
      BY <3>1, <3>2
  <2> HIDE DEF y
  <2>5. UNCHANGED <<alert, sent, excused, failed, upsets>>
    BY <1>1 DEF CommitEvent, history
  <2> QED
    BY <2>1, <2>3, <2>4, <2>5, ProcessTypes DEF DTypes, TypeOK
<1>2. ASSUME NEW h \in Hooks, Delivers(p, h) PROVE DTypes'
  <2> SUFFICES ASSUME NEW row, row = [act[p].after[h] EXCEPT !.failures = 0],
                      NEW changed, changed = TRUE
               PROVE  DTypes'
    OBVIOUS
  <2>1. h \in act[p].hooks /\ Posted(p, h, row, changed, FALSE) /\ row \in Hook
        /\ changed \in BOOLEAN /\ FALSE \in BOOLEAN
    BY <1>2, PostRows DEF Delivers
  <2>2. failed' \in [Hooks -> 0..MaxFailures] /\ UNCHANGED <<alert, hook, sent, excused, upsets>>
    BY <1>2 DEF Delivers, history, DTypes, TypeOK
  <2> QED
    BY <2>1, <2>2, PostTypes
<1>3. ASSUME NEW h \in Hooks, Skips(p, h) PROVE DTypes'
  <2>1. PICK changed \in BOOLEAN : Posted(p, h, AfterSkip(act[p].after[h]), changed, FALSE)
    BY <1>3 DEF Skips
  <2> SUFFICES ASSUME NEW row, row = act[p].after[h] PROVE DTypes'
    OBVIOUS
  <2>2. h \in act[p].hooks /\ Posted(p, h, row, changed, FALSE) /\ row \in Hook /\ FALSE \in BOOLEAN
    BY <1>3, <2>1, PostRows DEF Skips, AfterSkip
  <2>3. failed' \in [Hooks -> 0..MaxFailures] /\ UNCHANGED <<alert, hook, sent, excused, upsets>>
    BY <1>3 DEF Skips, history, DTypes, TypeOK
  <2> QED
    BY <2>2, <2>3, PostTypes
<1>4. ASSUME NEW h \in Hooks, NEW long \in BOOLEAN, Fails(p, h, long) PROVE DTypes'
  <2>1. h \in act[p].hooks /\ act[p].after[h] \in Hook /\ act[p].after[h].failures < MaxFailures
    BY <1>4, PostRows DEF Fails
  <2>2. AfterFailure(act[p].after[h]) \in Hook
    BY <2>1, AfterFailureIsHook
  <2>3. failed' \in [Hooks -> 0..MaxFailures]
    BY <1>4, BoundsAreNaturals DEF Fails, DTypes, TypeOK
  <2> SUFFICES ASSUME NEW row, row = AfterFailure(act[p].after[h]), NEW changed, changed = TRUE
               PROVE  DTypes'
    OBVIOUS
  <2>4. Posted(p, h, row, changed, long) /\ UNCHANGED <<alert, hook, sent, excused, upsets>>
        /\ changed \in BOOLEAN /\ row \in Hook
    BY <1>4, <2>2 DEF Fails
  <2> QED
    BY <2>1, <2>3, <2>4, PostTypes
<1> QED
  BY <1>1, <1>2, <1>3, <1>4 DEF Event

\* A flush: what each of its steps makes of a worker.
LEMMA FlushTypes ==
  ASSUME DTypes, NEW w \in Workers, Flush(w)
  PROVE  DTypes'
<1>0. w \in Processes
  BY DEF Processes
<1>1. CASE BeginFlush(w)
  <2>1. PICK rows \in SUBSET Due :
          /\ act' = [act EXCEPT ![w] = [Idle EXCEPT !.step = "alerts", !.rows = rows]]
          /\ excused' = excused \union (rows \intersect Held(w))
    BY <1>1 DEF BeginFlush
  <2> DEFINE x == [Idle EXCEPT !.step = "alerts", !.rows = rows]
  <2>2. rows \subseteq Alerts
    BY DEF Due
  <2>3. x \in Act /\ DOMAIN x.after = DOMAIN x.loaded /\ x.hooks \subseteq DOMAIN x.loaded
        /\ x.touched \subseteq DOMAIN x.loaded
    BY <2>2, IdleIsAct DEF Act, Idle
  <2>4. act' = [act EXCEPT ![w] = x]
    BY <2>1
  <2> HIDE DEF x
  <2> QED
    BY <1>0, <1>1, <2>1, <2>2, <2>3, <2>4, ProcessTypes DEF BeginFlush, DTypes, TypeOK
<1>2. CASE FinishFlush(w)
  <2>1. Idle \in Act /\ DOMAIN Idle.after = DOMAIN Idle.loaded /\ Idle.hooks \subseteq DOMAIN Idle.loaded
        /\ Idle.touched \subseteq DOMAIN Idle.loaded
    BY IdleIsAct DEF Idle
  <2>2. alert' \in [Alerts -> Alert]
    <3>1. ASSUME NEW a \in DOMAIN act[w].marked PROVE Marked(a, act[w].marked[a]) \in Alert
      <4>1. a \in Alerts /\ act[w].marked[a] \in SUBSET Names
        BY <1>0, ActHas
      <4>2. alert[a] \in Alert
        BY <4>1 DEF DTypes, TypeOK
      <4> QED
        BY <4>1, <4>2 DEF Marked, Alert
    <3> QED
      BY <1>2, <3>1 DEF FinishFlush, DTypes, TypeOK
  <2> QED
    BY <1>0, <1>2, <2>1, <2>2, ProcessTypes DEF FinishFlush, history, DTypes, TypeOK
<1>3. ASSUME NEW a \in Alerts, NEW channels \in SUBSET Channels[a], Notify(w, a, channels)
      PROVE  DTypes'
  <2> SUFFICES ASSUME NEW S, S = Receivers("created", a), NEW y, y = Load(act[w], S),
                        NEW x, x = AfterNotice(y, a, channels)
                 PROVE  DTypes'
    OBVIOUS
  <2>1. act' = [act EXCEPT ![w] = x]
    BY <1>3 DEF Notify
  <2>2. S \in SUBSET Hooks /\ \A h \in S : Exists(h)
    BY DEF Receivers
  <2>3. y \in Act /\ y.hooks = S /\ DOMAIN y.loaded = S /\ DOMAIN y.after = S /\ y.touched = {}
    BY <1>0, <2>2, ActHas, LoadIsAct
  <2>4. x \in Act /\ x.hooks = S /\ DOMAIN x.loaded = S /\ DOMAIN x.after = S /\ x.touched = {}
    BY <2>3, NoticeIsAct
  <2>7. sent' \in [Alerts -> 0..2]
    BY <1>3 DEF Notify, DTypes, TypeOK
  <2>8. alert' = alert /\ hook' = hook /\ excused' = excused /\ failed' = failed /\ upsets' = upsets
    BY <1>3 DEF Notify
  <2>9. x.hooks \subseteq DOMAIN x.loaded /\ DOMAIN x.after = DOMAIN x.loaded
        /\ x.touched \subseteq DOMAIN x.loaded
    BY <2>4
  <2> QED
    BY <1>0, <2>1, <2>4, <2>7, <2>8, <2>9, ProcessTypes DEF DTypes, TypeOK
<1> QED
  BY <1>0, <1>1, <1>2, <1>3, EventTypes DEF Flush

LEMMA RequestTypes ==
  ASSUME DTypes, NEW q \in Requests,
         \/ LoadHooks(q)
         \/ \E a \in Alerts : Resolve(q, a)
         \/ \E h \in Hooks : Test(q, h)
  PROVE  DTypes'
<1>0. q \in Processes
  BY DEF Processes
<1>1. CASE LoadHooks(q)
  <2> SUFFICES ASSUME NEW S, S = Receivers("resolved", act[q].alert), NEW y, y = Load(act[q], S),
                        NEW x, x = [y EXCEPT !.alert = None]
                 PROVE  DTypes'
    OBVIOUS
  <2>1. act' = [act EXCEPT ![q] = x]
    BY <1>1 DEF LoadHooks
  <2>2. S \in SUBSET Hooks /\ \A h \in S : Exists(h)
    BY DEF Receivers
  <2>3. y \in Act /\ y.hooks = S /\ DOMAIN y.loaded = S /\ DOMAIN y.after = S /\ y.touched = {}
    BY <1>0, <2>2, ActHas, LoadIsAct
  <2>4. x \in Act /\ x.hooks = S /\ DOMAIN x.loaded = S /\ DOMAIN x.after = S /\ x.touched = {}
    BY <2>3 DEF Act
  <2> QED
    BY <1>0, <1>1, <2>1, <2>4, ProcessTypes DEF LoadHooks, history, DTypes, TypeOK
<1>2. ASSUME NEW a \in Alerts, Resolve(q, a) PROVE DTypes'
  <2> DEFINE x == [Idle EXCEPT !.step = "load", !.alert = a]
  <2>1. x \in Act /\ DOMAIN x.after = DOMAIN x.loaded /\ x.hooks \subseteq DOMAIN x.loaded
        /\ x.touched \subseteq DOMAIN x.loaded
    BY IdleIsAct DEF Act, Idle
  <2>2. act' = [act EXCEPT ![q] = x]
    BY <1>2 DEF Resolve
  <2> HIDE DEF x
  <2>3. alert' \in [Alerts -> Alert]
    <3>1. [alert[a] EXCEPT !.status = "resolved"] \in Alert
      BY DEF Alert, DTypes, TypeOK
    <3> QED
      BY <1>2, <3>1 DEF Resolve, DTypes, TypeOK
  <2> QED
    BY <1>0, <1>2, <2>1, <2>2, <2>3, ProcessTypes DEF Resolve, history, DTypes, TypeOK
<1>3. ASSUME NEW h \in Hooks, Test(q, h) PROVE DTypes'
  <2> SUFFICES ASSUME NEW z, z = Idle, NEW T, T = {h}, NEW x, x = Load(z, T) PROVE DTypes'
    OBVIOUS
  <2>1. {h} \in SUBSET Hooks /\ \A i \in {h} : Exists(i)
    BY <1>3 DEF Test
  <2>2. x \in Act /\ x.hooks = {h} /\ DOMAIN x.loaded = {h} /\ DOMAIN x.after = {h}
        /\ x.touched = {}
    <3>1. z \in Act
      BY IdleIsAct
    <3>2. T \in SUBSET Hooks /\ \A i \in T : Exists(i)
      BY <2>1
    <3>3. x \in Act /\ x.hooks = T /\ DOMAIN x.loaded = T /\ DOMAIN x.after = T /\ x.touched = {}
      BY <3>1, <3>2, LoadIsAct
    <3> QED
      BY <3>3
  <2>3. act' = [act EXCEPT ![q] = x]
    BY <1>3 DEF Test
  <2>4. upsets' \in 0..MaxUpsets
    BY <1>3, BoundsAreNaturals DEF Test, DTypes, TypeOK
  <2>5. alert' = alert /\ hook' = hook /\ sent' = sent /\ excused' = excused /\ failed' = failed
    BY <1>3 DEF Test, history
  <2>6. x.hooks \subseteq DOMAIN x.loaded /\ DOMAIN x.after = DOMAIN x.loaded
        /\ x.touched \subseteq DOMAIN x.loaded
    BY <2>2
  <2> QED
    BY <1>0, <2>2, <2>3, <2>4, <2>5, <2>6, ProcessTypes DEF DTypes, TypeOK
<1> QED
  BY <1>1, <1>2, <1>3

LEMMA NextTypes == DTypes /\ [Next]_vars => DTypes'
<1> SUFFICES ASSUME DTypes, [Next]_vars PROVE DTypes'
  OBVIOUS
<1>1. ASSUME NEW a \in Alerts, NewAlert(a) PROVE DTypes'
  <2>1. [alert[a] EXCEPT !.status = "open"] \in Alert
    BY DEF Alert, DTypes, TypeOK
  <2> QED
    BY <1>1, <2>1 DEF NewAlert, history, DTypes, TypeOK, SessionIsWhole
<1>2. ASSUME NEW h \in Hooks, DeleteHook(h) PROVE DTypes'
  <2>1. upsets' \in 0..MaxUpsets
    BY <1>2, BoundsAreNaturals DEF DeleteHook, DTypes, TypeOK
  <2> QED
    BY <1>2, <2>1 DEF DeleteHook, history, DTypes, TypeOK, SessionIsWhole
<1>3. ASSUME NEW p \in Processes, Lose(p) PROVE DTypes'
  <2>1. upsets' \in 0..MaxUpsets
    BY <1>3, BoundsAreNaturals DEF Lose, DTypes, TypeOK
  <2>2. excused' \subseteq Alerts
    BY <1>3, ActHas DEF Lose, DTypes, TypeOK
  <2>3. Idle \in Act /\ DOMAIN Idle.after = DOMAIN Idle.loaded /\ Idle.hooks \subseteq DOMAIN Idle.loaded
        /\ Idle.touched \subseteq DOMAIN Idle.loaded
    BY IdleIsAct DEF Idle
  <2> QED
    BY <1>3, <2>1, <2>2, <2>3, ProcessTypes DEF Lose, DTypes, TypeOK
<1>6. ASSUME NEW w \in Workers, CutOff(w) PROVE DTypes'
  <2>1. w \in Processes
    BY DEF Processes
  <2>2. excused' \subseteq Alerts
    BY <1>6, <2>1, ActHas DEF CutOff, DTypes, TypeOK
  <2>3. Idle \in Act /\ DOMAIN Idle.after = DOMAIN Idle.loaded /\ Idle.hooks \subseteq DOMAIN Idle.loaded
        /\ Idle.touched \subseteq DOMAIN Idle.loaded
    BY IdleIsAct DEF Idle
  <2> QED
    BY <1>6, <2>1, <2>2, <2>3, ProcessTypes DEF CutOff, DTypes, TypeOK
<1>4. CASE UNCHANGED vars
  BY <1>4 DEF vars, DTypes, TypeOK, SessionIsWhole
<1>5. \A q \in Requests : q \in Processes
  BY DEF Processes
<1> QED
  BY <1>1, <1>2, <1>3, <1>4, <1>5, <1>6, FlushTypes, RequestTypes, EventTypes DEF Next

LEMMA TypesHold == Spec => []DTypes
BY InitTypes, NextTypes, PTL DEF Spec

\* The tables, the sessions and the counters have their types.
THEOREM DeliveryTypeCorrect == Spec => []TypeOK
<1>1. DTypes => TypeOK
  BY DEF DTypes
<1> QED
  BY <1>1, TypesHold, PTL

-----------------------------------------------------------------------------
(* Failures.  A session may hold rows that are older than the table: what  *)
(* makes the counts true is that its rows, too, count failures that        *)
(* happened, and that it never enables a webhook that it loaded disabled.  *)

SessionsCount ==
  \A p \in Processes : \A h \in DOMAIN act[p].loaded :
    /\ act[p].after[h].failures <= failed[h]
    /\ ~act[p].after[h].enabled => failed[h] >= Limit
    /\ act[p].after[h].enabled => act[p].loaded[h].enabled

CInv == DTypes /\ SessionsCount /\ FailuresHappened

\* Failures are never forgotten.
LEMMA FailuresGrow ==
  ASSUME DTypes, [Next]_vars
  PROVE  \A h \in Hooks : failed[h] \in Nat /\ failed'[h] \in Nat /\ failed[h] <= failed'[h]
<1>1. failed \in [Hooks -> 0..MaxFailures] /\ failed' \in [Hooks -> 0..MaxFailures]
  BY NextTypes DEF DTypes, TypeOK
<1>2. ASSUME NEW p, NEW g, NEW long, Fails(p, g, long)
      PROVE  \A h \in Hooks : failed[h] <= failed'[h]
  BY <1>1, <1>2, BoundsAreNaturals DEF Fails
<1>3. (\E p, g, long : Fails(p, g, long)) \/ failed' = failed
  BY DEF Next, Flush, Event, NewAlert, BeginFlush, FinishFlush, Notify, LoadHooks, Delivers, Skips,
         CommitEvent, Resolve, Test, DeleteHook, Lose, CutOff, history, vars
<1>4. \A h \in Hooks : failed[h] <= failed'[h]
  BY <1>1, <1>2, <1>3, BoundsAreNaturals
<1> QED
  BY <1>1, <1>4, BoundsAreNaturals

\* A step of one process whose session counts failures that happened.
LEMMA SessionStep ==
  ASSUME CInv, [Next]_vars, NEW p \in Processes, NEW x, act' = [act EXCEPT ![p] = x],
         \A h \in DOMAIN x.loaded :
           /\ x.after[h].failures <= failed'[h]
           /\ ~x.after[h].enabled => failed'[h] >= Limit
           /\ x.after[h].enabled => x.loaded[h].enabled
  PROVE  SessionsCount'
<1>1. \A q \in Processes : act'[q] = IF q = p THEN x ELSE act[q]
  BY DEF CInv, DTypes, TypeOK
<1> SUFFICES ASSUME NEW q \in Processes, NEW h \in DOMAIN act'[q].loaded
             PROVE  /\ act'[q].after[h].failures <= failed'[h]
                    /\ ~act'[q].after[h].enabled => failed'[h] >= Limit
                    /\ act'[q].after[h].enabled => act'[q].loaded[h].enabled
  BY DEF SessionsCount
<1>2. CASE q = p
  BY <1>1, <1>2
<1>3. CASE q # p
  <2>1. act'[q] = act[q]
    BY <1>1, <1>3
  <2>2. h \in DOMAIN act[q].loaded /\ h \in Hooks /\ act[q].after[h] \in Hook
    BY <2>1, ActHas DEF CInv
  <2>3. failed[h] \in Nat /\ failed'[h] \in Nat /\ failed[h] <= failed'[h]
    BY <2>2, FailuresGrow DEF CInv
  <2>4. act[q].after[h].failures \in Nat
    BY <2>2, BoundsAreNaturals DEF Hook
  <2>5. /\ act[q].after[h].failures <= failed[h]
        /\ ~act[q].after[h].enabled => failed[h] >= Limit
        /\ act[q].after[h].enabled => act[q].loaded[h].enabled
    BY <2>2 DEF CInv, SessionsCount
  <2> DEFINE f == failed[h]
             g == failed'[h]
             n == act[q].after[h].failures
  <2>6. f \in Nat /\ g \in Nat /\ f <= g /\ n \in Nat /\ n <= f
    BY <2>3, <2>4, <2>5
  <2>7. f >= Limit => g >= Limit
    BY <2>6, LimitsArePositive
  <2>8. n <= g
    BY <2>6
  <2> QED
    BY <2>1, <2>5, <2>7, <2>8
<1> QED
  BY <1>2, <1>3

\* A table that did not change, but for webhooks that were deleted.
LEMMA CountsKept ==
  ASSUME CInv, [Next]_vars, \A h \in Hooks : hook'[h] \in {hook[h], Deleted}
  PROVE  FailuresHappened'
<1> SUFFICES ASSUME NEW h \in Hooks, hook'[h] # Deleted
             PROVE  /\ hook'[h].failures <= failed'[h]
                    /\ ~hook'[h].enabled => failed'[h] >= Limit
  BY DEF FailuresHappened, Exists
<1>1. hook'[h] = hook[h] /\ Exists(h)
  BY DEF Exists
<1>2. hook[h] \in Hook
  BY <1>1 DEF CInv, DTypes, TypeOK, Exists
<1>3. hook[h].failures <= failed[h] /\ (~hook[h].enabled => failed[h] >= Limit)
  BY <1>1 DEF CInv, FailuresHappened
<1>4. failed[h] \in Nat /\ failed'[h] \in Nat /\ failed[h] <= failed'[h] /\ hook[h].failures \in Nat
  BY <1>2, FailuresGrow, BoundsAreNaturals DEF CInv, Hook
<1> DEFINE f == failed[h]
           g == failed'[h]
           n == hook[h].failures
<1>5. n <= g /\ (f >= Limit => g >= Limit)
  BY <1>3, <1>4, LimitsArePositive
<1> QED
  BY <1>1, <1>3, <1>5

\* The rows a session loads count as the table does.
LEMMA LoadCounts ==
  ASSUME CInv, [Next]_vars, UNCHANGED failed, NEW z \in Act,
         NEW S \in SUBSET Hooks, \A h \in S : Exists(h), NEW y, y = Load(z, S)
  PROVE  \A h \in DOMAIN y.loaded :
           /\ y.after[h].failures <= failed'[h]
           /\ ~y.after[h].enabled => failed'[h] >= Limit
           /\ y.after[h].enabled => y.loaded[h].enabled
<1>1. DTypes
  BY DEF CInv
<1>2. DOMAIN y.loaded = S
  BY <1>1, LoadIsAct
<1>3. \A h \in S : y.loaded[h] = hook[h] /\ y.after[h] = hook[h]
  BY <1>1, LoadIsAct
<1> QED
  BY <1>2, <1>3 DEF CInv, FailuresHappened

\* A post answered: its row counts at most one failure more than before.
LEMMA PostCounts ==
  ASSUME CInv, [Next]_vars, NEW p \in Processes, NEW h \in act[p].hooks, NEW row \in Hook,
         NEW changed \in BOOLEAN,
         NEW long \in BOOLEAN, Posted(p, h, row, changed, long), hook' = hook,
         row.failures <= failed'[h], ~row.enabled => failed'[h] >= Limit,
         row.enabled => act[p].loaded[h].enabled
  PROVE  CInv'
<1> SUFFICES ASSUME NEW x, x = AfterPost(act[p], h, row, changed, long) PROVE CInv'
  OBVIOUS
<1>0. DTypes
  BY DEF CInv
<1>1. act' = [act EXCEPT ![p] = x]
  BY DEF Posted
<1>2. x.loaded = act[p].loaded /\ DOMAIN x.after = DOMAIN x.loaded
      /\ x.after[h] = row
  BY <1>0, PostIsAct
<1>3. \A i \in DOMAIN x.loaded \ {h} : x.after[i] = act[p].after[i]
  BY <1>0, PostIsAct
<1>4. ASSUME NEW i \in DOMAIN x.loaded
      PROVE  /\ x.after[i].failures <= failed'[i]
             /\ ~x.after[i].enabled => failed'[i] >= Limit
             /\ x.after[i].enabled => x.loaded[i].enabled
  <2>1. CASE i = h
    BY <1>2, <2>1
  <2>2. CASE i # h
    <3>1. i \in DOMAIN act[p].loaded /\ x.after[i] = act[p].after[i] /\ x.loaded = act[p].loaded
      BY <1>2, <1>3, <2>2
    <3>2. i \in Hooks /\ act[p].after[i] \in Hook
      BY <1>0, <3>1, ActHas
    <3> DEFINE f == failed[i]
               g == failed'[i]
               n == act[p].after[i].failures
    <3>3. f \in Nat /\ g \in Nat /\ f <= g /\ n \in Nat
      BY <1>0, <3>2, FailuresGrow, BoundsAreNaturals DEF Hook
    <3>4. /\ n <= f /\ (~act[p].after[i].enabled => f >= Limit)
          /\ act[p].after[i].enabled => act[p].loaded[i].enabled
      BY <3>1 DEF CInv, SessionsCount
    <3>5. n <= g /\ (f >= Limit => g >= Limit)
      BY <3>3, <3>4, LimitsArePositive
    <3> QED
      BY <3>1, <3>4, <3>5
  <2> QED
    BY <2>1, <2>2
<1>5. SessionsCount'
  BY <1>1, <1>4, SessionStep
<1>6. FailuresHappened'
  BY CountsKept
<1> QED
  BY <1>0, <1>5, <1>6, NextTypes DEF CInv

\* An event commits the counts of its session.
LEMMA CommitCounts ==
  ASSUME CInv, [Next]_vars, NEW p \in Processes, CommitEvent(p)
  PROVE  /\ FailuresHappened'
         /\ \A h \in Hooks : ~hook[h].enabled => ~hook'[h].enabled
<1>0. DTypes
  BY DEF CInv
<1>1. ASSUME NEW h \in Hooks, ~Refused(p), h \in act[p].touched
      PROVE  /\ hook'[h].failures <= failed'[h]
             /\ ~hook'[h].enabled => failed'[h] >= Limit
             /\ ~hook[h].enabled => ~hook'[h].enabled
  <2>1. h \in DOMAIN act[p].loaded /\ Exists(h)
    BY <1>0, <1>1, ActHas DEF Refused
  <2>2. act[p].loaded[h] \in Hook /\ act[p].after[h] \in Hook
    BY <1>0, <2>1, ActHas
  <2>3. hook[h] \in Hook
    BY <1>0, <2>1 DEF Exists, DTypes, TypeOK
  <2>4. hook'[h] = Written(h, act[p].loaded[h], act[p].after[h]) /\ failed' = failed
    BY <1>1 DEF CommitEvent, history
  <2>5. /\ hook'[h].failures \in {act[p].after[h].failures, hook[h].failures}
        /\ hook'[h].enabled = IF act[p].after[h].enabled # act[p].loaded[h].enabled
                              THEN act[p].after[h].enabled ELSE hook[h].enabled
    BY <2>2, <2>3, <2>4, WrittenIsHook
  <2>6. /\ act[p].after[h].failures <= failed[h]
        /\ ~act[p].after[h].enabled => failed[h] >= Limit
        /\ act[p].after[h].enabled => act[p].loaded[h].enabled
    BY <2>1 DEF CInv, SessionsCount
  <2>7. hook[h].failures <= failed[h] /\ (~hook[h].enabled => failed[h] >= Limit)
    BY <2>1 DEF CInv, FailuresHappened
  <2>8. /\ act[p].after[h].enabled \in BOOLEAN /\ act[p].loaded[h].enabled \in BOOLEAN
        /\ hook[h].enabled \in BOOLEAN
    BY <2>2, <2>3 DEF Hook
  <2> QED
    BY <2>4, <2>5, <2>6, <2>7, <2>8
<1>2. ASSUME NEW h \in Hooks, ~(~Refused(p) /\ h \in act[p].touched) PROVE hook'[h] = hook[h]
  BY <1>2 DEF CommitEvent
<1>3. failed' = failed
  BY DEF CommitEvent, history
<1>4. FailuresHappened'
  BY <1>1, <1>2, <1>3 DEF CInv, FailuresHappened, Exists
<1> QED
  BY <1>1, <1>2, <1>4

LEMMA EventCounts ==
  ASSUME CInv, [Next]_vars, NEW p \in Processes, Event(p)
  PROVE  /\ CInv'
         /\ \A h \in Hooks : ~hook[h].enabled => ~hook'[h].enabled
<1>0. DTypes
  BY DEF CInv
<1>1. CASE CommitEvent(p)
  <2> SUFFICES ASSUME NEW x, act' = [act EXCEPT ![p] = x], x.loaded = <<>>
               PROVE  SessionsCount'
    <3>1. PICK x : act' = [act EXCEPT ![p] = x] /\ x.loaded = <<>>
      <4> DEFINE y == IF p \in Workers THEN [Idle EXCEPT !.step = "alerts", !.rows = act[p].rows,
                                                         !.marked = act[p].marked]
                      ELSE Idle
      <4>1. act' = [act EXCEPT ![p] = y]
        BY <1>1 DEF CommitEvent
      <4>2. y.loaded = <<>>
        BY DEF Idle
      <4> HIDE DEF y
      <4> QED
        BY <4>1, <4>2
    <3>2. SessionsCount'
      BY <3>1
    <3> QED
      BY <1>0, <1>1, <3>2, CommitCounts, NextTypes DEF CInv
  <2>1. DOMAIN x.loaded = {}
    OBVIOUS
  <2> QED
    BY <2>1, SessionStep
<1>2. ASSUME NEW h \in Hooks, Delivers(p, h) PROVE CInv' /\ hook' = hook
  <2> SUFFICES ASSUME NEW r, r = act[p].after[h], NEW row, row = [r EXCEPT !.failures = 0]
               PROVE  CInv'
    BY <1>2 DEF Delivers, history
  <2>1. h \in act[p].hooks /\ Posted(p, h, row, TRUE, FALSE) /\ hook' = hook /\ failed' = failed
    BY <1>2 DEF Delivers, history
  <2>2. h \in Hooks /\ h \in DOMAIN act[p].loaded /\ r \in Hook /\ row \in Hook
    BY <1>0, <2>1, PostRows
  <2>3. row.failures = 0 /\ row.enabled = r.enabled
    BY <2>2 DEF Hook
  <2>4. /\ ~r.enabled => failed[h] >= Limit
        /\ r.enabled => act[p].loaded[h].enabled
    BY <2>2 DEF CInv, SessionsCount
  <2>5. 0 <= failed'[h]
    BY <1>0, <2>2, FailuresGrow
  <2> QED
    BY <2>1, <2>2, <2>3, <2>4, <2>5, PostCounts
<1>3. ASSUME NEW h \in Hooks, Skips(p, h) PROVE CInv' /\ hook' = hook
  <2> SUFFICES ASSUME NEW r, r = act[p].after[h] PROVE CInv'
    BY <1>3 DEF Skips, history
  <2>0. PICK changed \in BOOLEAN : Posted(p, h, AfterSkip(act[p].after[h]), changed, FALSE)
    BY <1>3 DEF Skips
  <2>1. h \in act[p].hooks /\ Posted(p, h, r, changed, FALSE) /\ hook' = hook /\ failed' = failed
    BY <1>3, <2>0 DEF Skips, AfterSkip, history
  <2>2. h \in Hooks /\ h \in DOMAIN act[p].loaded /\ r \in Hook
    BY <1>0, <2>1, PostRows
  <2>3. /\ r.failures <= failed[h] /\ (~r.enabled => failed[h] >= Limit)
        /\ r.enabled => act[p].loaded[h].enabled
    BY <2>2 DEF CInv, SessionsCount
  <2> QED
    BY <2>1, <2>2, <2>3, PostCounts
<1>4. ASSUME NEW h \in Hooks, NEW long \in BOOLEAN, Fails(p, h, long) PROVE CInv' /\ hook' = hook
  <2> SUFFICES ASSUME NEW r, r = act[p].after[h], NEW row, row = AfterFailure(r) PROVE CInv'
    BY <1>4 DEF Fails
  <2>1. h \in act[p].hooks /\ Posted(p, h, row, TRUE, long) /\ hook' = hook /\ r.failures < MaxFailures
    BY <1>4 DEF Fails
  <2>2. h \in Hooks /\ h \in DOMAIN act[p].loaded /\ r \in Hook
    BY <1>0, <2>1, PostRows
  <2>3. /\ row \in Hook
        /\ row.failures = r.failures + 1
        /\ row.enabled => r.enabled
        /\ ~row.enabled => ~r.enabled \/ r.failures + 1 >= Limit
    BY <2>1, <2>2, AfterFailureIsHook
  <2>4. /\ r.failures <= failed[h] /\ (~r.enabled => failed[h] >= Limit)
        /\ r.enabled => act[p].loaded[h].enabled
    BY <2>2 DEF CInv, SessionsCount
  <2>5. failed'[h] = IF failed[h] < MaxFailures THEN failed[h] + 1 ELSE failed[h]
    BY <1>0, <1>4, <2>2 DEF Fails, DTypes, TypeOK
  <2>6. failed[h] \in 0..MaxFailures /\ r.failures \in Nat
    BY <1>0, <2>2, BoundsAreNaturals DEF DTypes, TypeOK, Hook
  <2> DEFINE f == failed[h]
             g == failed'[h]
             n == r.failures
  <2>7. n + 1 <= g /\ f <= g /\ f \in Nat /\ g \in Nat /\ n \in Nat
    BY <2>1, <2>4, <2>5, <2>6, BoundsAreNaturals
  <2>8. (f >= Limit => g >= Limit) /\ (n + 1 >= Limit => g >= Limit)
    BY <2>7, LimitsArePositive
  <2>9. row.failures <= g /\ (~row.enabled => g >= Limit)
    BY <2>3, <2>4, <2>7, <2>8
  <2> QED
    BY <2>1, <2>2, <2>3, <2>4, <2>9, PostCounts
<1> QED
  BY <1>1, <1>2, <1>3, <1>4, CommitCounts DEF Event

LEMMA FlushCounts ==
  ASSUME CInv, [Next]_vars, NEW w \in Workers, Flush(w)
  PROVE  CInv' /\ \A h \in Hooks : ~hook[h].enabled => ~hook'[h].enabled
<1>0. w \in Processes /\ DTypes
  BY DEF Processes, CInv
<1>1. CASE BeginFlush(w) \/ FinishFlush(w)
  <2>1. PICK x : act' = [act EXCEPT ![w] = x] /\ x.loaded = <<>>
    <3>1. Idle.loaded = <<>>
      BY DEF Idle
    <3>2. ASSUME NEW rows, NEW y, y = [Idle EXCEPT !.step = "alerts", !.rows = rows]
          PROVE  y.loaded = <<>>
      BY <3>2 DEF Idle
    <3>3. CASE BeginFlush(w)
      <4>1. PICK rows : act' = [act EXCEPT ![w] = [Idle EXCEPT !.step = "alerts", !.rows = rows]]
        BY <3>3 DEF BeginFlush
      <4> QED
        BY <3>2, <4>1
    <3>4. CASE FinishFlush(w)
      BY <3>1, <3>4 DEF FinishFlush
    <3> QED
      BY <1>1, <3>3, <3>4
  <2>2. hook' = hook
    BY <1>1 DEF BeginFlush, FinishFlush
  <2>3. DOMAIN x.loaded = {}
    BY <2>1
  <2> QED
    BY <1>0, <2>1, <2>2, <2>3, SessionStep, CountsKept, NextTypes DEF CInv
<1>2. ASSUME NEW a \in Alerts, NEW channels \in SUBSET Channels[a], Notify(w, a, channels)
      PROVE  CInv' /\ hook' = hook
  <2> SUFFICES ASSUME NEW z, z = act[w], NEW S, S = Receivers("created", a), NEW y, y = Load(z, S),
                      NEW x, x = AfterNotice(y, a, channels)
               PROVE  CInv'
    BY <1>2 DEF Notify
  <2>1. act' = [act EXCEPT ![w] = x] /\ hook' = hook /\ failed' = failed
    BY <1>2 DEF Notify
  <2>2. z \in Act /\ S \in SUBSET Hooks /\ \A h \in S : Exists(h)
    BY <1>0, ActHas DEF Receivers
  <2>3. y \in Act
    BY <1>0, <2>2, LoadIsAct
  <2>4. x.loaded = y.loaded /\ x.after = y.after
    BY <2>3, NoticeIsAct
  <2>5. \A h \in DOMAIN y.loaded :
          /\ y.after[h].failures <= failed'[h]
          /\ ~y.after[h].enabled => failed'[h] >= Limit
          /\ y.after[h].enabled => y.loaded[h].enabled
    BY <2>1, <2>2, LoadCounts
  <2>6. SessionsCount'
    BY <1>0, <2>1, <2>4, <2>5, SessionStep
  <2> QED
    BY <1>0, <2>1, <2>6, CountsKept, NextTypes DEF CInv
<1> QED
  BY <1>0, <1>1, <1>2, EventCounts DEF Flush

LEMMA RequestCounts ==
  ASSUME CInv, [Next]_vars, NEW q \in Requests,
         \/ LoadHooks(q)
         \/ \E a \in Alerts : Resolve(q, a)
         \/ \E h \in Hooks : Test(q, h)
  PROVE  CInv' /\ hook' = hook
<1>0. q \in Processes /\ DTypes
  BY DEF Processes, CInv
<1>1. CASE LoadHooks(q)
  <2> SUFFICES ASSUME NEW z, z = act[q], NEW S, S = Receivers("resolved", z.alert),
                      NEW y, y = Load(z, S), NEW x, x = [y EXCEPT !.alert = None]
               PROVE  CInv'
    BY <1>1 DEF LoadHooks
  <2>1. act' = [act EXCEPT ![q] = x] /\ hook' = hook /\ failed' = failed
    BY <1>1 DEF LoadHooks, history
  <2>2. z \in Act /\ S \in SUBSET Hooks /\ \A h \in S : Exists(h)
    BY <1>0, ActHas DEF Receivers
  <2>3. y \in Act
    BY <1>0, <2>2, LoadIsAct
  <2>4. x.loaded = y.loaded /\ x.after = y.after
    BY <2>3 DEF Act
  <2>5. \A h \in DOMAIN y.loaded :
          /\ y.after[h].failures <= failed'[h]
          /\ ~y.after[h].enabled => failed'[h] >= Limit
          /\ y.after[h].enabled => y.loaded[h].enabled
    BY <2>1, <2>2, LoadCounts
  <2>6. SessionsCount'
    BY <1>0, <2>1, <2>4, <2>5, SessionStep
  <2> QED
    BY <1>0, <2>1, <2>6, CountsKept, NextTypes DEF CInv
<1>2. ASSUME NEW a \in Alerts, Resolve(q, a) PROVE CInv' /\ hook' = hook
  <2>1. PICK x : act' = [act EXCEPT ![q] = x] /\ x.loaded = <<>>
    <3> DEFINE y == [Idle EXCEPT !.step = "load", !.alert = a]
    <3>1. act' = [act EXCEPT ![q] = y]
      BY <1>2 DEF Resolve
    <3>2. y.loaded = <<>>
      BY DEF Idle
    <3> HIDE DEF y
    <3> QED
      BY <3>1, <3>2
  <2>2. hook' = hook
    BY <1>2 DEF Resolve
  <2>3. DOMAIN x.loaded = {}
    BY <2>1
  <2> QED
    BY <1>0, <2>1, <2>2, <2>3, SessionStep, CountsKept, NextTypes DEF CInv
<1>3. ASSUME NEW h \in Hooks, Test(q, h) PROVE CInv' /\ hook' = hook
  <2> SUFFICES ASSUME NEW z, z = Idle, NEW S, S = {h}, NEW y, y = Load(z, S)
               PROVE  CInv'
    BY <1>3 DEF Test
  <2>1. act' = [act EXCEPT ![q] = y] /\ hook' = hook /\ failed' = failed
    BY <1>3 DEF Test, history
  <2>2. z \in Act /\ S \in SUBSET Hooks /\ \A i \in S : Exists(i)
    BY <1>3, IdleIsAct DEF Test
  <2>3. \A i \in DOMAIN y.loaded :
          /\ y.after[i].failures <= failed'[i]
          /\ ~y.after[i].enabled => failed'[i] >= Limit
          /\ y.after[i].enabled => y.loaded[i].enabled
    BY <2>1, <2>2, LoadCounts
  <2>4. SessionsCount'
    BY <1>0, <2>1, <2>3, SessionStep
  <2> QED
    BY <1>0, <2>1, <2>4, CountsKept, NextTypes DEF CInv
<1> QED
  BY <1>1, <1>2, <1>3

LEMMA NextCounts ==
  ASSUME CInv, [Next]_vars
  PROVE  CInv' /\ \A h \in Hooks : ~hook[h].enabled => ~hook'[h].enabled
<1>0. DTypes
  BY DEF CInv
<1>1. ASSUME NEW a \in Alerts, NewAlert(a) PROVE CInv' /\ hook' = hook
  <2>1. act' = act /\ hook' = hook /\ failed' = failed
    BY <1>1 DEF NewAlert, history
  <2> QED
    BY <1>0, <2>1, NextTypes DEF CInv, SessionsCount, FailuresHappened, Exists
<1>2. ASSUME NEW h \in Hooks, DeleteHook(h)
      PROVE  CInv' /\ \A i \in Hooks : ~hook[i].enabled => ~hook'[i].enabled
  <2>1. act' = act /\ failed' = failed
    BY <1>2 DEF DeleteHook, history
  <2>2. \A i \in Hooks : hook'[i] \in {hook[i], Deleted}
    BY <1>0, <1>2 DEF DeleteHook, DTypes, TypeOK
  <2>3. ~Deleted.enabled
    BY DEF Deleted
  <2>4. SessionsCount'
    BY <2>1 DEF CInv, SessionsCount
  <2> QED
    BY <1>0, <2>2, <2>3, <2>4, CountsKept, NextTypes DEF CInv
<1>3. ASSUME NEW p \in Processes, Lose(p) \/ CutOff(p) PROVE CInv' /\ hook' = hook
  <2>1. act' = [act EXCEPT ![p] = Idle] /\ hook' = hook /\ DOMAIN Idle.loaded = {}
    BY <1>3 DEF Lose, CutOff, Idle
  <2>2. SessionsCount'
    BY <1>0, <2>1, SessionStep
  <2> QED
    BY <1>0, <2>1, <2>2, CountsKept, NextTypes DEF CInv
<1>4. CASE UNCHANGED vars
  <2>1. act' = act /\ hook' = hook /\ failed' = failed
    BY <1>4 DEF vars
  <2> QED
    BY <1>0, <2>1, NextTypes DEF CInv, SessionsCount, FailuresHappened, Exists
<1>5. \A q \in Workers \union Requests : q \in Processes
  BY DEF Processes
<1> QED
  BY <1>1, <1>2, <1>3, <1>4, <1>5, FlushCounts, RequestCounts, EventCounts DEF Next

LEMMA CountsHold == Spec => []CInv
<1>1. Init => CInv
  <2> SUFFICES ASSUME Init PROVE CInv
    OBVIOUS
  <2>1. DTypes
    BY InitTypes
  <2>2. \A p \in Processes : DOMAIN act[p].loaded = {}
    BY DEF Init, Idle
  <2>3. SessionsCount
    BY <2>2 DEF SessionsCount
  <2>4. FailuresHappened
    BY DEF Init, FailuresHappened
  <2> QED
    BY <2>1, <2>3, <2>4 DEF CInv
<1>2. CInv /\ [Next]_vars => CInv'
  BY NextCounts
<1> QED
  BY <1>1, <1>2, PTL DEF Spec

\* A webhook is never counted as failing more often than it failed, and never
\* disabled before it failed as often as the limit says.
THEOREM CountsHappened == Spec => []FailuresHappened
<1>1. CInv => FailuresHappened
  BY DEF CInv
<1> QED
  BY <1>1, CountsHold, PTL

\* A session that loaded a webhook while it was enabled never enables it again
\* after another session has disabled it.
THEOREM DisabledIsFinal == Spec => DisabledStays
<1>1. CInv /\ [Next]_vars => [\A h \in Hooks : ~hook[h].enabled => ~hook'[h].enabled]_vars
  BY NextCounts
<1> QED
  BY <1>1, CountsHold, PTL DEF Spec, DisabledStays

-----------------------------------------------------------------------------
(* Alerts are told once.  What a worker holds, it alone holds, and what was *)
(* sent is either marked in the table or held to be marked, so that no      *)
(* flush takes it again.                                                    *)

Holds(w) == act[w].rows \union DOMAIN act[w].marked

HeldByOne ==
  \A a \in Alerts \ excused : \A v, w \in Workers : a \in Holds(v) /\ a \in Holds(w) => v = w

RowsAreUnsent ==
  \A a \in Alerts \ excused : \A w \in Workers : a \in act[w].rows => sent[a] = 0

SentIsMarked ==
  \A a \in Alerts \ excused :
    sent[a] # 0 => alert[a].notified \/ \E w \in Workers : a \in DOMAIN act[w].marked

TInv == DTypes /\ HeldByOne /\ RowsAreUnsent /\ SentIsMarked /\ ToldOnce

\* A step that takes, sends and marks nothing.
LEMMA QuietTelling ==
  ASSUME TInv, [Next]_vars, sent' = sent, excused \subseteq excused',
         \A a \in Alerts : alert[a].notified => alert'[a].notified,
         \A w \in Workers : act'[w].rows = act[w].rows /\ act'[w].marked = act[w].marked
  PROVE  TInv'
<1>1. DTypes'
  BY NextTypes DEF TInv
<1>2. HeldByOne'
  BY DEF TInv, HeldByOne, Holds
<1>3. RowsAreUnsent'
  BY DEF TInv, RowsAreUnsent
<1>4. SentIsMarked'
  BY DEF TInv, SentIsMarked
<1>5. ToldOnce'
  BY DEF TInv, ToldOnce
<1> QED
  BY <1>1, <1>2, <1>3, <1>4, <1>5 DEF TInv

LEMMA EventTelling ==
  ASSUME TInv, [Next]_vars, NEW p \in Processes, Event(p)
  PROVE  TInv'
<1>0. DTypes
  BY DEF TInv
<1>1. CASE CommitEvent(p)
  <2>1. ASSUME p \in Workers
        PROVE  \A w \in Workers : act'[w].rows = act[w].rows /\ act'[w].marked = act[w].marked
    <3> SUFFICES ASSUME NEW rows, rows = act[p].rows, NEW marked, marked = act[p].marked, NEW y,
                        y = [Idle EXCEPT !.step = "alerts", !.rows = rows, !.marked = marked],
                        NEW w \in Workers
                 PROVE  act'[w].rows = act[w].rows /\ act'[w].marked = act[w].marked
      OBVIOUS
    <3>1. act' = [act EXCEPT ![p] = y]
      BY <1>1, <2>1 DEF CommitEvent
    <3>2. y.rows = rows /\ y.marked = marked
      BY DEF Idle
    <3>3. act'[w] = IF w = p THEN y ELSE act[w]
      BY <1>0, <3>1 DEF DTypes, TypeOK, Processes
    <3> QED
      BY <3>2, <3>3
  <2>2. ASSUME p \notin Workers
        PROVE  \A w \in Workers : act'[w].rows = act[w].rows /\ act'[w].marked = act[w].marked
    <3>1. act' = [act EXCEPT ![p] = Idle]
      BY <1>1, <2>2 DEF CommitEvent
    <3> QED
      BY <1>0, <2>2, <3>1 DEF DTypes, TypeOK, Processes
  <2> QED
    BY <1>1, <2>1, <2>2, QuietTelling DEF CommitEvent, history
<1>2. ASSUME NEW h \in act[p].hooks, NEW row \in Hook, NEW changed \in BOOLEAN,
             NEW long \in BOOLEAN, Posted(p, h, row, changed, long), alert' = alert, sent' = sent, excused' = excused
      PROVE  TInv'
  <2> SUFFICES ASSUME NEW x, x = AfterPost(act[p], h, row, changed, long) PROVE TInv'
    OBVIOUS
  <2>1. act' = [act EXCEPT ![p] = x]
    BY <1>2 DEF Posted
  <2>2. x.rows = act[p].rows /\ x.marked = act[p].marked
    BY <1>0, PostIsAct
  <2>3. \A w \in Workers : act'[w] = IF w = p THEN x ELSE act[w]
    BY <1>0, <2>1 DEF DTypes, TypeOK, Processes
  <2>4. \A w \in Workers : act'[w].rows = act[w].rows /\ act'[w].marked = act[w].marked
    BY <2>2, <2>3
  <2> QED
    BY <1>2, <2>4, QuietTelling
<1>3. ASSUME NEW h \in Hooks, Delivers(p, h) PROVE TInv'
  <2> SUFFICES ASSUME NEW row, row = [act[p].after[h] EXCEPT !.failures = 0] PROVE TInv'
    OBVIOUS
  <2>1. h \in act[p].hooks /\ Posted(p, h, row, TRUE, FALSE) /\ alert' = alert /\ sent' = sent
        /\ excused' = excused
    BY <1>3 DEF Delivers, history
  <2>2. row \in Hook
    BY <1>0, <2>1, PostRows
  <2> QED
    BY <1>2, <2>1, <2>2
<1>4. ASSUME NEW h \in Hooks, Skips(p, h) PROVE TInv'
  <2> SUFFICES ASSUME NEW row, row = act[p].after[h] PROVE TInv'
    OBVIOUS
  <2>0. PICK changed \in BOOLEAN : Posted(p, h, AfterSkip(act[p].after[h]), changed, FALSE)
    BY <1>4 DEF Skips
  <2>1. h \in act[p].hooks /\ Posted(p, h, row, changed, FALSE) /\ alert' = alert /\ sent' = sent
        /\ excused' = excused
    BY <1>4, <2>0 DEF Skips, AfterSkip, history
  <2>2. row \in Hook
    BY <1>0, <2>1, PostRows
  <2> QED
    BY <1>2, <2>1, <2>2
<1>5. ASSUME NEW h \in Hooks, NEW long \in BOOLEAN, Fails(p, h, long) PROVE TInv'
  <2> SUFFICES ASSUME NEW r, r = act[p].after[h], NEW row, row = AfterFailure(r) PROVE TInv'
    OBVIOUS
  <2>1. h \in act[p].hooks /\ Posted(p, h, row, TRUE, long) /\ alert' = alert /\ sent' = sent
        /\ excused' = excused /\ r.failures < MaxFailures
    BY <1>5 DEF Fails
  <2>2. r \in Hook
    BY <1>0, <2>1, PostRows
  <2>3. row \in Hook
    BY <2>1, <2>2, AfterFailureIsHook
  <2> QED
    BY <1>2, <2>1, <2>3
<1> QED
  BY <1>1, <1>3, <1>4, <1>5 DEF Event

\* A flush takes alerts that nobody has sent: what others hold is excused.
LEMMA BeginTelling ==
  ASSUME TInv, [Next]_vars, NEW w \in Workers, BeginFlush(w)
  PROVE  TInv'
<1>0. DTypes /\ w \in Processes
  BY DEF TInv, Processes
<1>1. PICK rows \in SUBSET Due :
        /\ act' = [act EXCEPT ![w] = [Idle EXCEPT !.step = "alerts", !.rows = rows]]
        /\ excused' = excused \union (rows \intersect Held(w))
  BY DEF BeginFlush
<1> SUFFICES ASSUME NEW x, x = [Idle EXCEPT !.step = "alerts", !.rows = rows] PROVE TInv'
  OBVIOUS
<1>2. x.rows = rows /\ x.marked = <<>> /\ DOMAIN x.marked = {}
  BY DEF Idle
<1>3. act[w].rows = {} /\ DOMAIN act[w].marked = {}
  BY DEF BeginFlush, Idle
<1>4. \A v \in Workers : act'[v] = IF v = w THEN x ELSE act[v]
  BY <1>0, <1>1 DEF DTypes, TypeOK, Processes
<1>5. alert' = alert /\ sent' = sent
  BY DEF BeginFlush
<1>6. \A v \in Workers : v # w => act'[v] = act[v]
  BY <1>4
<1>7. act'[w].rows = rows /\ DOMAIN act'[w].marked = {}
  BY <1>2, <1>4
<1>8. ASSUME NEW a \in Alerts \ excused', a \in rows
      PROVE  /\ \A v \in Workers : v # w => a \notin act[v].rows /\ a \notin DOMAIN act[v].marked
             /\ sent[a] = 0
  <2>1. a \notin Held(w)
    BY <1>1, <1>8
  <2>2. \A v \in Workers : v # w => a \notin act[v].rows /\ a \notin DOMAIN act[v].marked
    BY <2>1 DEF Held
  <2>3. \A v \in Workers : a \notin DOMAIN act[v].marked
    BY <1>3, <2>2
  <2>4. ~alert[a].notified
    BY <1>8 DEF Due
  <2>5. sent[a] = 0
    BY <1>1, <2>3, <2>4 DEF TInv, SentIsMarked
  <2> QED
    BY <2>2, <2>5
<1>9. HeldByOne'
  <2> SUFFICES ASSUME NEW a \in Alerts \ excused', NEW u \in Workers, NEW v \in Workers,
                      a \in act'[u].rows \union DOMAIN act'[u].marked,
                      a \in act'[v].rows \union DOMAIN act'[v].marked
               PROVE  u = v
    BY DEF HeldByOne, Holds
  <2>1. CASE u # w /\ v # w
    BY <1>1, <1>6, <2>1 DEF TInv, HeldByOne, Holds
  <2>2. CASE u = w
    BY <1>6, <1>7, <1>8, <2>2
  <2>3. CASE v = w
    BY <1>6, <1>7, <1>8, <2>3
  <2> QED
    BY <2>1, <2>2, <2>3
<1>10. RowsAreUnsent'
  <2> SUFFICES ASSUME NEW a \in Alerts \ excused', NEW v \in Workers, a \in act'[v].rows
               PROVE  sent'[a] = 0
    BY DEF RowsAreUnsent
  <2>1. CASE v = w
    BY <1>5, <1>7, <1>8, <2>1
  <2>2. CASE v # w
    BY <1>1, <1>5, <1>6, <2>2 DEF TInv, RowsAreUnsent
  <2> QED
    BY <2>1, <2>2
<1>11. SentIsMarked'
  <2> SUFFICES ASSUME NEW a \in Alerts \ excused', sent'[a] # 0
               PROVE  alert'[a].notified \/ \E v \in Workers : a \in DOMAIN act'[v].marked
    BY DEF SentIsMarked
  <2>1. alert[a].notified \/ \E v \in Workers : a \in DOMAIN act[v].marked
    BY <1>1, <1>5 DEF TInv, SentIsMarked
  <2> QED
    BY <1>3, <1>5, <1>6, <2>1
<1>12. ToldOnce'
  BY <1>1, <1>5 DEF TInv, ToldOnce
<1> QED
  BY <1>0, <1>9, <1>10, <1>11, <1>12, NextTypes DEF TInv

\* An alert is sent by the worker that holds it, for the first time.
LEMMA NotifyTelling ==
  ASSUME TInv, [Next]_vars, NEW w \in Workers, NEW a \in Alerts, NEW channels \in SUBSET Channels[a],
         Notify(w, a, channels)
  PROVE  TInv'
<1> SUFFICES ASSUME NEW z, z = act[w], NEW S, S = Receivers("created", a), NEW y, y = Load(z, S),
                    NEW x, x = AfterNotice(y, a, channels)
             PROVE  TInv'
  OBVIOUS
<1>0. DTypes /\ w \in Processes
  BY DEF TInv, Processes
<1>1. act' = [act EXCEPT ![w] = x] /\ alert' = alert /\ excused' = excused /\ a \in act[w].rows
  BY DEF Notify
<1>2. z \in Act /\ S \in SUBSET Hooks /\ \A h \in S : Exists(h)
  BY <1>0, ActHas DEF Receivers
<1>3. y \in Act /\ y.rows = z.rows /\ y.marked = z.marked
  BY <1>0, <1>2, LoadIsAct
<1>4. x.rows = y.rows \ {a} /\ DOMAIN x.marked = DOMAIN y.marked \union {a}
  BY <1>3, NoticeIsAct
<1>5. \A v \in Workers : act'[v] = IF v = w THEN x ELSE act[v]
  BY <1>0, <1>1 DEF DTypes, TypeOK, Processes
<1>6. \A v \in Workers : v # w => act'[v] = act[v]
  BY <1>5
<1>7. /\ act'[w].rows = act[w].rows \ {a}
      /\ DOMAIN act'[w].marked = DOMAIN act[w].marked \union {a}
  BY <1>3, <1>4, <1>5
<1>8. sent' = [sent EXCEPT ![a] = IF sent[a] < 2 THEN sent[a] + 1 ELSE sent[a]]
  BY DEF Notify
<1>9. \A b \in Alerts : sent'[b] = IF b = a THEN (IF sent[a] < 2 THEN sent[a] + 1 ELSE sent[a])
                                  ELSE sent[b]
  BY <1>0, <1>8 DEF DTypes, TypeOK
<1>10. \A v \in Workers :
         act'[v].rows \union DOMAIN act'[v].marked = act[v].rows \union DOMAIN act[v].marked
  BY <1>1, <1>6, <1>7
<1>11. HeldByOne'
  BY <1>1, <1>10 DEF TInv, HeldByOne, Holds
<1>12. a \notin excused => sent[a] = 0
  BY <1>1 DEF TInv, RowsAreUnsent
<1>13. RowsAreUnsent'
  <2> SUFFICES ASSUME NEW b \in Alerts \ excused', NEW v \in Workers, b \in act'[v].rows
               PROVE  sent'[b] = 0
    BY DEF RowsAreUnsent
  <2>1. b \in act[v].rows
    BY <1>6, <1>7
  <2>2. b # a
    <3>1. CASE v = w
      BY <1>7, <3>1
    <3>2. CASE v # w
      BY <1>1, <2>1, <3>2 DEF TInv, HeldByOne, Holds
    <3> QED
      BY <3>1, <3>2
  <2>3. sent[b] = 0
    BY <1>1, <2>1 DEF TInv, RowsAreUnsent
  <2> QED
    BY <1>9, <2>2, <2>3
<1>14. SentIsMarked'
  <2> SUFFICES ASSUME NEW b \in Alerts \ excused', sent'[b] # 0
               PROVE  alert'[b].notified \/ \E v \in Workers : b \in DOMAIN act'[v].marked
    BY DEF SentIsMarked
  <2>1. CASE b = a
    BY <1>7, <2>1
  <2>2. CASE b # a
    <3>1. alert[b].notified \/ \E v \in Workers : b \in DOMAIN act[v].marked
      BY <1>1, <1>9, <2>2 DEF TInv, SentIsMarked
    <3> QED
      BY <1>1, <1>6, <1>7, <3>1
  <2> QED
    BY <2>1, <2>2
<1>15. ToldOnce'
  BY <1>1, <1>9, <1>12 DEF TInv, ToldOnce
<1> QED
  BY <1>0, <1>11, <1>13, <1>14, <1>15, NextTypes DEF TInv

\* The commit of a flush marks what it sent before the worker forgets it.
LEMMA FinishTelling ==
  ASSUME TInv, [Next]_vars, NEW w \in Workers, FinishFlush(w)
  PROVE  TInv'
<1>0. DTypes /\ w \in Processes
  BY DEF TInv, Processes
<1>1. act' = [act EXCEPT ![w] = Idle] /\ sent' = sent /\ excused' = excused
  BY DEF FinishFlush, history
<1>2. Idle.rows = {} /\ DOMAIN Idle.marked = {}
  BY DEF Idle
<1>3. \A v \in Workers : act'[v] = IF v = w THEN Idle ELSE act[v]
  BY <1>0, <1>1 DEF DTypes, TypeOK, Processes
<1>4. \A v \in Workers : act'[v].rows \subseteq act[v].rows
                         /\ DOMAIN act'[v].marked \subseteq DOMAIN act[v].marked
  BY <1>2, <1>3
<1>5. ASSUME NEW a \in DOMAIN act[w].marked PROVE alert'[a].notified
  <2>1. a \in Alerts
    BY <1>0, ActHas
  <2>2. alert[a] \in Alert
    BY <1>0, <2>1 DEF DTypes, TypeOK
  <2>3. alert'[a] = Marked(a, act[w].marked[a])
    BY <2>1 DEF FinishFlush
  <2> QED
    BY <2>2, <2>3 DEF Marked, Alert
<1>6. \A a \in Alerts : alert[a].notified => alert'[a].notified
  BY <1>5 DEF FinishFlush
<1>7. HeldByOne'
  BY <1>1, <1>4 DEF TInv, HeldByOne, Holds
<1>8. RowsAreUnsent'
  BY <1>1, <1>4 DEF TInv, RowsAreUnsent
<1>9. SentIsMarked'
  BY <1>1, <1>3, <1>5, <1>6 DEF TInv, SentIsMarked
<1>10. ToldOnce'
  BY <1>1 DEF TInv, ToldOnce
<1> QED
  BY <1>0, <1>7, <1>8, <1>9, <1>10, NextTypes DEF TInv

\* A lost worker forgets what it marked: those alerts are excused.
LEMMA LoseTelling ==
  ASSUME TInv, [Next]_vars, NEW p \in Processes, Lose(p) \/ CutOff(p)
  PROVE  TInv'
<1>0. DTypes
  BY DEF TInv
<1>1. /\ act' = [act EXCEPT ![p] = Idle] /\ sent' = sent /\ alert' = alert
      /\ excused' = excused \union DOMAIN act[p].marked
  BY DEF Lose, CutOff
<1>2. Idle.rows = {} /\ DOMAIN Idle.marked = {}
  BY DEF Idle
<1>3. \A v \in Workers : act'[v] = IF v = p THEN Idle ELSE act[v]
  BY <1>0, <1>1 DEF DTypes, TypeOK, Processes
<1>4. \A v \in Workers : act'[v].rows \subseteq act[v].rows
                         /\ DOMAIN act'[v].marked \subseteq DOMAIN act[v].marked
  BY <1>2, <1>3
<1>5. HeldByOne'
  BY <1>1, <1>4 DEF TInv, HeldByOne, Holds
<1>6. RowsAreUnsent'
  BY <1>1, <1>4 DEF TInv, RowsAreUnsent
<1>7. SentIsMarked'
  BY <1>1, <1>3 DEF TInv, SentIsMarked
<1>8. ToldOnce'
  BY <1>1 DEF TInv, ToldOnce
<1> QED
  BY <1>0, <1>5, <1>6, <1>7, <1>8, NextTypes DEF TInv

\* The requests of the API hold no alerts.
LEMMA RequestTelling ==
  ASSUME TInv, [Next]_vars, NEW q \in Requests,
         \/ LoadHooks(q)
         \/ \E a \in Alerts : Resolve(q, a)
         \/ \E h \in Hooks : Test(q, h)
  PROVE  TInv'
<1>0. q \in Processes /\ DTypes
  BY DEF Processes, TInv
<1>1. ASSUME NEW x, act' = [act EXCEPT ![q] = x], x.rows = act[q].rows, x.marked = act[q].marked,
             sent' = sent, excused' = excused,
             \A a \in Alerts : alert[a].notified => alert'[a].notified
      PROVE  TInv'
  <2>1. \A w \in Workers : act'[w] = IF w = q THEN x ELSE act[w]
    BY <1>0, <1>1 DEF DTypes, TypeOK, Processes
  <2>2. \A w \in Workers : act'[w].rows = act[w].rows /\ act'[w].marked = act[w].marked
    BY <1>1, <2>1
  <2> QED
    BY <1>1, <2>2, QuietTelling
<1>2. CASE LoadHooks(q)
  <2> SUFFICES ASSUME NEW z, z = act[q], NEW S, S = Receivers("resolved", z.alert),
                      NEW y, y = Load(z, S), NEW x, x = [y EXCEPT !.alert = None]
               PROVE  TInv'
    OBVIOUS
  <2>1. act' = [act EXCEPT ![q] = x] /\ alert' = alert /\ sent' = sent /\ excused' = excused
    BY <1>2 DEF LoadHooks, history
  <2>2. z \in Act /\ S \in SUBSET Hooks /\ \A h \in S : Exists(h)
    BY <1>0, ActHas DEF Receivers
  <2>3. y \in Act /\ y.rows = z.rows /\ y.marked = z.marked
    BY <1>0, <2>2, LoadIsAct
  <2>4. x.rows = z.rows /\ x.marked = z.marked
    BY <2>3 DEF Act
  <2> QED
    BY <1>1, <2>1, <2>4
<1>3. ASSUME NEW a \in Alerts, Resolve(q, a) PROVE TInv'
  <2> SUFFICES ASSUME NEW x, x = [Idle EXCEPT !.step = "load", !.alert = a] PROVE TInv'
    OBVIOUS
  <2>1. act' = [act EXCEPT ![q] = x] /\ sent' = sent /\ excused' = excused /\ act[q] = Idle
    BY <1>3 DEF Resolve, history
  <2>2. x.rows = Idle.rows /\ x.marked = Idle.marked
    BY DEF Idle
  <2>3. alert' = [alert EXCEPT ![a].status = "resolved"]
    BY <1>3 DEF Resolve
  <2>4. \A b \in Alerts : alert[b].notified => alert'[b].notified
    BY <1>0, <2>3 DEF DTypes, TypeOK, Alert
  <2> QED
    BY <1>1, <2>1, <2>2, <2>4
<1>4. ASSUME NEW h \in Hooks, Test(q, h) PROVE TInv'
  <2> SUFFICES ASSUME NEW z, z = Idle, NEW S, S = {h}, NEW y, y = Load(z, S) PROVE TInv'
    OBVIOUS
  <2>1. act' = [act EXCEPT ![q] = y] /\ alert' = alert /\ sent' = sent /\ excused' = excused
        /\ act[q] = Idle
    BY <1>4 DEF Test, history
  <2>2. z \in Act /\ S \in SUBSET Hooks /\ \A i \in S : Exists(i)
    BY <1>4, IdleIsAct DEF Test
  <2>3. y.rows = z.rows /\ y.marked = z.marked
    BY <1>0, <2>2, LoadIsAct
  <2> QED
    BY <1>1, <2>1, <2>3
<1> QED
  BY <1>2, <1>3, <1>4

LEMMA TellingHolds == Spec => []TInv
<1>1. Init => TInv
  <2> SUFFICES ASSUME Init PROVE TInv
    OBVIOUS
  <2>1. \A w \in Workers : act[w].rows = {} /\ DOMAIN act[w].marked = {}
    BY DEF Init, Idle, Processes
  <2>2. \A a \in Alerts : sent[a] = 0
    BY DEF Init
  <2>3. HeldByOne
    BY <2>1 DEF HeldByOne, Holds
  <2>4. RowsAreUnsent /\ SentIsMarked /\ ToldOnce
    BY <2>2 DEF RowsAreUnsent, SentIsMarked, ToldOnce
  <2> QED
    BY <2>3, <2>4, InitTypes DEF TInv
<1>2. TInv /\ [Next]_vars => TInv'
  <2> SUFFICES ASSUME TInv, [Next]_vars PROVE TInv'
    OBVIOUS
  <2>0. DTypes
    BY DEF TInv
  <2>1. ASSUME NEW a \in Alerts, NewAlert(a) PROVE TInv'
    <3>1. \A b \in Alerts : alert[b].notified => alert'[b].notified
      BY <2>0, <2>1 DEF NewAlert, DTypes, TypeOK, Alert
    <3> QED
      BY <2>1, <3>1, QuietTelling DEF NewAlert, history
  <2>2. ASSUME NEW h \in Hooks, DeleteHook(h) PROVE TInv'
    BY <2>2, QuietTelling DEF DeleteHook, history
  <2>3. CASE UNCHANGED vars
    BY <2>3, QuietTelling DEF vars
  <2>4. \A q \in Workers \union Requests : q \in Processes
    BY DEF Processes
  <2> QED
    BY <2>1, <2>2, <2>3, <2>4, EventTelling, BeginTelling, NotifyTelling, FinishTelling, LoseTelling,
       RequestTelling DEF Next, Flush
<1> QED
  BY <1>1, <1>2, PTL DEF Spec

\* However flushes, events and losses interleave, an alert is sent twice only
\* if a flush that had sent it was lost or cut off or two took it at a time.
THEOREM AlertsAreToldOnce == Spec => []ToldOnce
<1>1. TInv => ToldOnce
  BY DEF TInv
<1> QED
  BY <1>1, TellingHolds, PTL

=============================================================================
