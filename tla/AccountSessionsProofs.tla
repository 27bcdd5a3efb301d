------------------------- MODULE AccountSessionsProofs -------------------------
(***************************************************************************)
(* Sessions end with the password, a refresh token is exchanged once,      *)
(* locks are kept and an administrator is left: for any numbers of users,  *)
(* tokens and requests, and any periods of the clock.                      *)
(***************************************************************************)
EXTENDS AccountSessions, FiniteSetTheorems, TLAPS

-----------------------------------------------------------------------------
(* Types.  A request to exchange a token is about a token that was issued. *)

Presented ==
  \A w \in Workers : req[w].op \in {"check", "consume", "refresh"} =>
    /\ req[w].token \in Tokens /\ token[req[w].token] # NoSession
    /\ token[req[w].token].user = req[w].user

ATypes == TypeOK /\ Presented

LEMMA RequestHas ==
  ASSUME NEW r, r \in Request \union {Idle}
  PROVE  /\ r.op = "login" => /\ r.user \in Users /\ r.row \in Columns /\ r.right \in BOOLEAN
                              /\ r.password \in 0..MaxChanges /\ r.late \in BOOLEAN
         /\ r.op \in {"check", "consume", "refresh"} =>
              r.user \in Users /\ r.token \in Tokens /\ r.late \in BOOLEAN
         /\ r.op = "password" => r.user \in Users /\ r.revoked \in BOOLEAN
         /\ r.op = "erase" => r.user \in Users /\ r.row \in Columns /\ r.revoked \in BOOLEAN
         /\ r.op = "delete" => r.user \in Users
BY DEF Request, Idle

LEMMA SessionHas ==
  ASSUME TypeOK, NEW t \in Tokens, token[t] # NoSession
  PROVE  /\ token[t] \in Session /\ token[t].user \in Users /\ token[t].iat \in 1..MaxTime
         /\ token[t].password \in 0..MaxChanges /\ token[t].late \in BOOLEAN
BY DEF TypeOK, Session

\* An erasure closes an account and leaves it one.
LEMMA ErasedIsAccount ==
  ASSUME NEW y \in Account
  PROVE  [y EXCEPT !.active = FALSE, !.erased = TRUE] \in Account
BY DEF Account

\* A commit changes the columns of a row that its session changed.
LEMMA ChangedIsAccount ==
  ASSUME NEW stored \in Account, NEW old \in Columns, NEW new \in Columns
  PROVE  /\ Changed(stored, old, new) \in Account
         /\ Changed(stored, old, new).active = stored.active
         /\ Changed(stored, old, new).erased = stored.erased
         /\ Changed(stored, old, new).password = stored.password
         /\ Changed(stored, old, new).locked =
              IF new.locked # old.locked THEN new.locked ELSE stored.locked
<1> DEFINE value(c) == IF c \in DOMAIN old /\ new[c] # old[c] THEN new[c] ELSE stored[c]
<1>1. DOMAIN stored = {"active", "erased", "failed", "locked", "password"}
      /\ DOMAIN old = {"failed", "locked"}
  BY DEF Account, Columns
<1>2. Changed(stored, old, new) = [c \in {"active", "erased", "failed", "locked", "password"} |-> value(c)]
  BY <1>1 DEF Changed
<1>3. /\ value("active") = stored.active /\ value("erased") = stored.erased
      /\ value("password") = stored.password
      /\ value("locked") = IF new.locked # old.locked THEN new.locked ELSE stored.locked
      /\ value("failed") = IF new.failed # old.failed THEN new.failed ELSE stored.failed
  BY <1>1
<1> HIDE DEF value
<1>4. Changed(stored, old, new) =
        [active |-> value("active"), erased |-> value("erased"), failed |-> value("failed"),
         locked |-> value("locked"), password |-> value("password")]
  BY <1>2
<1>5. /\ value("active") \in BOOLEAN /\ value("erased") \in BOOLEAN /\ value("failed") \in 0..MaxFailed
      /\ value("locked") \in 0..MaxTime + LOCKOUT_DURATION /\ value("password") \in 0..MaxChanges
  BY <1>3 DEF Account, Columns
<1>6. Changed(stored, old, new) \in Account
  BY <1>4, <1>5 DEF Account
<1> QED
  BY <1>3, <1>4, <1>6

LEMMA ColumnsOfRows ==
  ASSUME TypeOK, NEW row \in Columns
  PROVE  /\ \A u \in Users : Read(u) \in Columns /\ Read(u).locked = user[u].locked
         /\ Cleared(row) \in Columns /\ Cleared(row).locked = 0
         /\ row.failed < MaxFailed => Counted(row) \in Columns
         /\ Counted(row).locked \in {row.locked, now + LOCKOUT_DURATION}
<1> DEFINE locked == IF row.failed + 1 >= MAX_LOGIN_ATTEMPTS THEN now + LOCKOUT_DURATION ELSE row.locked
           failed == row.failed + 1
<1>1. \A u \in Users : Read(u) \in Columns /\ Read(u).locked = user[u].locked
  BY DEF Read, Columns, TypeOK, Account
<1>2. Cleared(row) \in Columns /\ Cleared(row).locked = 0
  <2>1. 0 \in 0..MaxFailed /\ 0 \in 0..MaxTime + LOCKOUT_DURATION
    BY PeriodsAreTimes, BoundsAreNaturals
  <2> QED
    BY <2>1 DEF Cleared, Columns
<1>3. locked \in 0..MaxTime + LOCKOUT_DURATION /\ locked \in {row.locked, now + LOCKOUT_DURATION}
  BY PeriodsAreTimes, BoundsAreNaturals DEF Columns, TypeOK
<1>4. row.failed < MaxFailed => failed \in 0..MaxFailed
  BY BoundsAreNaturals DEF Columns
<1>5. Counted(row) = [row EXCEPT !.failed = failed, !.locked = locked]
  BY DEF Counted
<1> HIDE DEF failed, locked
<1>6. Counted(row).locked = locked
  BY <1>5 DEF Columns
<1>7. row.failed < MaxFailed => Counted(row) \in Columns
  BY <1>3, <1>4, <1>5 DEF Columns
<1> QED
  BY <1>1, <1>2, <1>3, <1>6, <1>7

\* A token that is issued.
LEMMA OpenTypes ==
  ASSUME ATypes, NEW w \in Workers, NEW u \in Users, NEW password \in 0..MaxChanges,
         NEW late \in BOOLEAN, req[w].late \in BOOLEAN, Open(w, u, password, late)
  PROVE  \E t \in Tokens : \E s \in Session :
           /\ token[t] = NoSession /\ token' = [token EXCEPT ![t] = s] /\ s # NoSession
           /\ s.user = u /\ s.iat = now /\ s.password = password
           /\ ~s.late => ~late /\ ~req[w].late /\ ~Changing(u)
<1>1. PICK t \in Tokens :
        /\ token[t] = NoSession
        /\ token' = [token EXCEPT ![t] = [user |-> u, iat |-> now, password |-> password,
                                          late |-> late \/ req[w].late \/ Changing(u)]]
  BY DEF Open
<1> DEFINE b == late \/ req[w].late \/ Changing(u)
<1>2. b \in BOOLEAN /\ (~b => ~late /\ ~req[w].late /\ ~Changing(u))
  BY DEF Changing
<1>3. now \in 1..MaxTime
  BY DEF ATypes, TypeOK
<1> HIDE DEF b
<1> DEFINE s == [user |-> u, iat |-> now, password |-> password, late |-> b]
<1>4. s \in Session
  BY <1>2, <1>3 DEF Session
<1>5. s.user = u /\ s.iat = now /\ s.password = password /\ s.late = b
  OBVIOUS
<1>6. "user" \in DOMAIN s /\ "user" \notin DOMAIN NoSession
  BY DEF NoSession
<1>7. s # NoSession
  BY <1>6
<1>8. token' = [token EXCEPT ![t] = s]
  BY <1>1 DEF b
<1> HIDE DEF s
<1> QED
  BY <1>1, <1>2, <1>4, <1>5, <1>7, <1>8
\* A step that replaces the request of one worker, and may open a session.
LEMMA ServeTypes ==
  ASSUME ATypes, NEW w \in Workers, NEW x \in Request \union {Idle}, req' = [req EXCEPT ![w] = x],
         user' \in [Users -> Account],
         \A t \in Tokens : \/ token'[t] = token[t]
                           \/ token[t] = NoSession /\ token'[t] \in Session,
         token' = [t \in Tokens |-> token'[t]],
         revoked' \in [Watched -> 0..MaxTime], consumed' \in [Tokens -> 0..MaxTime + TokenTTL], now' = now,
         exchanges' \in [Tokens -> Nat], contested' \in BOOLEAN,
         x.op \in {"check", "consume", "refresh"} =>
           x.token \in Tokens /\ token[x.token] # NoSession /\ token[x.token].user = x.user
  PROVE  ATypes'
<1>1. \A v \in Workers : req'[v] = IF v = w THEN x ELSE req[v]
  BY DEF ATypes, TypeOK
<1>2. token' \in [Tokens -> Session \union {NoSession}]
  BY DEF ATypes, TypeOK
<1>3. \A t \in Tokens : token[t] # NoSession => token'[t] = token[t]
  OBVIOUS
<1>4. req' \in [Workers -> Request \union {Idle}]
  BY DEF ATypes, TypeOK
<1>5. TypeOK'
  BY <1>2, <1>4 DEF ATypes, TypeOK
<1>6. Presented'
  <2> SUFFICES ASSUME NEW v \in Workers, req'[v].op \in {"check", "consume", "refresh"}
               PROVE  /\ req'[v].token \in Tokens /\ token'[req'[v].token] # NoSession
                      /\ token'[req'[v].token].user = req'[v].user
    BY DEF Presented
  <2>1. CASE v = w
    BY <1>1, <1>3, <2>1
  <2>2. CASE v # w
    BY <1>1, <1>3, <2>2 DEF ATypes, Presented
  <2> QED
    BY <2>1, <2>2
<1> QED
  BY <1>5, <1>6 DEF ATypes

LEMMA IdleIsRequest == Idle \in Request \union {Idle} /\ Idle.op = "idle"
BY DEF Idle

\* A step that ends a request, or is the next one of it, and opens no session.
LEMMA RequestTypes ==
  ASSUME ATypes, NEW w \in Workers, NEW x \in Request \union {Idle}, req' = [req EXCEPT ![w] = x],
         user' \in [Users -> Account], token' = token,
         revoked' \in [Watched -> 0..MaxTime], consumed' \in [Tokens -> 0..MaxTime + TokenTTL], now' = now,
         exchanges' \in [Tokens -> Nat], contested' \in BOOLEAN,
         x.op \in {"check", "consume", "refresh"} =>
           x.token \in Tokens /\ token[x.token] # NoSession /\ token[x.token].user = x.user
  PROVE  ATypes'
<1>1. token' = [t \in Tokens |-> token'[t]]
  BY DEF ATypes, TypeOK
<1> QED
  BY <1>1, ServeTypes

LEMMA LoginTypes ==
  ASSUME ATypes, NEW w \in Workers,
         \/ \E u \in Users : \E right \in BOOLEAN : Login(w, u, right)
         \/ LoginLocked(w) \/ LoginFails(w) \/ LoginSucceeds(w)
  PROVE  ATypes'
<1>0. TypeOK
  BY DEF ATypes
<1> SUFFICES ASSUME NEW r, r = req[w] PROVE ATypes'
  OBVIOUS
<1>1. r \in Request \union {Idle}
  BY DEF ATypes, TypeOK
<1>2. ASSUME NEW u \in Users, NEW right \in BOOLEAN, Login(w, u, right) PROVE ATypes'
  <2> SUFFICES ASSUME NEW row, row = Read(u), NEW password, password = user[u].password,
                      NEW x, x = [op |-> "login", user |-> u, row |-> row, right |-> right,
                                  password |-> password, late |-> FALSE]
               PROVE  ATypes'
    OBVIOUS
  <2>1. row \in Columns /\ password \in 0..MaxChanges
    BY <1>0, ColumnsOfRows, BoundsAreNaturals DEF TypeOK, Account, Read, Columns
  <2>2. x \in Request /\ x.op = "login"
    BY <2>1 DEF Request
  <2>3. req' = [req EXCEPT ![w] = x]
    BY <1>2 DEF Login
  <2> QED
    BY <1>0, <1>2, <2>2, <2>3, RequestTypes DEF Login, TypeOK
<1>3. CASE LoginLocked(w)
  BY <1>0, <1>3, IdleIsRequest, RequestTypes DEF LoginLocked, TypeOK
<1>4. CASE LoginFails(w)
  <2>1. r.op = "login" /\ r.row.failed < MaxFailed
        /\ user' = [user EXCEPT ![r.user] = Changed(user[r.user], r.row, Counted(r.row))]
    BY <1>4 DEF LoginFails
  <2>2. r.user \in Users /\ r.row \in Columns
    BY <1>1, <2>1, RequestHas
  <2> SUFFICES ASSUME NEW u \in Users, u = r.user, NEW row \in Columns, row = r.row,
                      NEW new, new = Counted(row), NEW stored, stored = user[u],
                      NEW y, y = Changed(stored, row, new)
               PROVE  ATypes'
    BY <2>2
  <2>3. new \in Columns
    BY <1>0, <2>1, ColumnsOfRows
  <2>4. stored \in Account
    BY <1>0 DEF TypeOK
  <2>5. y \in Account
    BY <2>3, <2>4, ChangedIsAccount
  <2>6. user' = [user EXCEPT ![u] = y]
    BY <2>1
  <2>7. user' \in [Users -> Account]
    BY <1>0, <2>5, <2>6 DEF TypeOK
  <2> QED
    BY <1>0, <1>4, <2>7, IdleIsRequest, RequestTypes DEF LoginFails, TypeOK
<1>5. CASE LoginSucceeds(w)
  <2>1. r.op = "login" /\ Open(w, r.user, r.password, FALSE)
        /\ user' = [user EXCEPT ![r.user] = Changed(user[r.user], r.row, Cleared(r.row))]
    BY <1>5 DEF LoginSucceeds
  <2>2. r.user \in Users /\ r.row \in Columns /\ r.password \in 0..MaxChanges /\ r.late \in BOOLEAN
    BY <1>1, <2>1, RequestHas
  <2> SUFFICES ASSUME NEW u \in Users, u = r.user, NEW row \in Columns, row = r.row,
                      NEW new, new = Cleared(row), NEW stored, stored = user[u],
                      NEW y, y = Changed(stored, row, new),
                      NEW password \in 0..MaxChanges, password = r.password,
                      NEW late \in BOOLEAN, late = FALSE
               PROVE  ATypes'
    BY <2>2
  <2>3. new \in Columns /\ stored \in Account
    BY <1>0, ColumnsOfRows DEF TypeOK
  <2>4. y \in Account
    BY <2>3, ChangedIsAccount
  <2>5. user' = [user EXCEPT ![u] = y]
    BY <2>1
  <2>6. user' \in [Users -> Account]
    BY <1>0, <2>4, <2>5 DEF TypeOK
  <2>7. Open(w, u, password, late)
    BY <2>1
  <2>8. PICK t \in Tokens, s \in Session : token[t] = NoSession /\ token' = [token EXCEPT ![t] = s]
    BY <2>2, <2>7, OpenTypes
  <2>9. /\ \A k \in Tokens : \/ token'[k] = token[k]
                             \/ token[k] = NoSession /\ token'[k] \in Session
        /\ token' = [k \in Tokens |-> token'[k]]
    BY <1>0, <2>8 DEF TypeOK
  <2> QED
    BY <1>0, <1>5, <2>6, <2>9, IdleIsRequest, ServeTypes DEF LoginSucceeds, TypeOK
<1> QED
  BY <1>2, <1>3, <1>4, <1>5

\* A mark outlives the instant, and the token it marks.
LEMMA MarkOutlives ==
  ASSUME TypeOK, NEW t \in Tokens, token[t] # NoSession
  PROVE  /\ Mark(t) \in 0..MaxTime + TokenTTL /\ Mark(t) > now /\ Mark(t) >= Expiry(t)
         /\ Expiry(t) \in Nat
<1>1. now \in 1..MaxTime /\ token[t].iat \in 1..MaxTime
  BY SessionHas DEF TypeOK
<1> QED
  BY <1>1, PeriodsAreTimes, BoundsAreNaturals DEF Mark, Expiry

\* The check of a refresh token ends its request or lets it go on, perhaps late.
LEMMA CheckedRequest ==
  ASSUME NEW w \in Workers, RefreshCheck(w), req[w].late \in BOOLEAN
  PROVE  \E late \in BOOLEAN : \E x :
           /\ x = [req[w] EXCEPT !.op = "consume", !.late = late]
           /\ req' = [req EXCEPT ![w] = Idle] \/ req' = [req EXCEPT ![w] = x]
           /\ req' # [req EXCEPT ![w] = Idle] =>
                /\ ~RevokedAt(req[w].user, token[req[w].token].iat)
                /\ ~late => ~(now >= Expiry(req[w].token))
<1> DEFINE late == req[w].late \/ now >= Expiry(req[w].token)
<1> DEFINE x == [req[w] EXCEPT !.op = "consume", !.late = late]
<1>1. late \in BOOLEAN /\ (~late => ~(now >= Expiry(req[w].token)))
  OBVIOUS
<1>2. CASE RevokedAt(req[w].user, token[req[w].token].iat) \/ consumed[req[w].token] # 0
  <2>1. req' = [req EXCEPT ![w] = Idle]
    BY <1>2 DEF RefreshCheck
  <2> QED
    BY <1>1, <2>1
<1>3. CASE ~(RevokedAt(req[w].user, token[req[w].token].iat) \/ consumed[req[w].token] # 0)
  <2>1. req' = [req EXCEPT ![w] = x]
    BY <1>3 DEF RefreshCheck
  <2> HIDE DEF late
  <2> QED
    BY <1>1, <1>3, <2>1
<1> QED
  BY <1>2, <1>3

LEMMA RefreshTypes ==
  ASSUME ATypes, NEW w \in Workers,
         (\E t \in Tokens : RefreshDecode(w, t)) \/ RefreshCheck(w) \/ Consume(w) \/ RefreshIssue(w)
  PROVE  ATypes'
<1>0. TypeOK
  BY DEF ATypes
<1> SUFFICES ASSUME NEW r, r = req[w] PROVE ATypes'
  OBVIOUS
<1>1. r \in Request \union {Idle}
  BY DEF ATypes, TypeOK
<1>2. ASSUME NEW t \in Tokens, RefreshDecode(w, t) PROVE ATypes'
  <2> SUFFICES ASSUME NEW u, u = token[t].user,
                      NEW x, x = [op |-> "check", user |-> u, token |-> t, late |-> FALSE]
               PROVE  ATypes'
    OBVIOUS
  <2>1. u \in Users /\ token[t] # NoSession
    BY <1>0, <1>2, SessionHas DEF RefreshDecode
  <2>2. x \in Request /\ x.token = t /\ x.user = u
    BY <2>1 DEF Request
  <2>3. req' = [req EXCEPT ![w] = x]
    BY <1>2 DEF RefreshDecode
  <2> QED
    BY <1>0, <1>2, <2>1, <2>2, <2>3, RequestTypes DEF RefreshDecode, TypeOK
<1>3. CASE Consume(w)
  <2>1. r.op = "consume"
    BY <1>3 DEF Consume
  <2>2. /\ r.user \in Users /\ r.token \in Tokens /\ r.late \in BOOLEAN
        /\ token[r.token] # NoSession /\ token[r.token].user = r.user
    BY <1>1, <2>1, RequestHas DEF ATypes, Presented
  <2> SUFFICES ASSUME NEW t \in Tokens, t = r.token, NEW x, x = [r EXCEPT !.op = "refresh"]
               PROVE  ATypes'
    BY <2>2
  <2>3. r \in [op: {"check", "consume", "refresh"}, user: Users, token: Tokens, late: BOOLEAN]
    BY <1>1, <2>1 DEF Request, Idle
  <2>4. x \in Request /\ x.token = t /\ x.user = r.user
    BY <2>3 DEF Request
  <2>5. consumed' \in [Tokens -> 0..MaxTime + TokenTTL]
    <3>1. consumed' = consumed \/ consumed' = [consumed EXCEPT ![t] = Mark(t)]
      BY <1>3 DEF Consume
    <3>2. Mark(t) \in 0..MaxTime + TokenTTL
      BY <1>0, <2>2, MarkOutlives DEF TypeOK
    <3> QED
      BY <1>0, <3>1, <3>2 DEF TypeOK
  <2>6. CASE consumed[t] # 0
    <3>1. req' = [req EXCEPT ![w] = Idle] /\ exchanges' = exchanges
      BY <1>3, <2>6 DEF Consume
    <3> QED
      BY <1>0, <1>3, <2>5, <3>1, IdleIsRequest, RequestTypes DEF Consume, TypeOK
  <2>7. CASE ~(consumed[t] # 0)
    <3>1. req' = [req EXCEPT ![w] = x] /\ exchanges' = [exchanges EXCEPT ![t] = exchanges[t] + 1]
      BY <1>3, <2>7 DEF Consume
    <3>2. exchanges' \in [Tokens -> Nat]
      BY <1>0, <3>1 DEF TypeOK
    <3>3. token[x.token] # NoSession /\ token[x.token].user = x.user /\ x.token \in Tokens
      BY <2>2, <2>4
    <3>4. user' = user /\ token' = token /\ revoked' = revoked /\ now' = now /\ contested' = contested
      BY <1>3 DEF Consume
    <3> QED
      BY <1>0, <2>4, <2>5, <3>1, <3>2, <3>3, <3>4, RequestTypes DEF TypeOK
  <2> QED
    BY <2>6, <2>7
<1>4. CASE RefreshIssue(w)
  <2>1. r.op = "refresh" /\ req' = [req EXCEPT ![w] = Idle]
    BY <1>4 DEF RefreshIssue
  <2>2. /\ r.user \in Users /\ r.token \in Tokens /\ r.late \in BOOLEAN
        /\ token[r.token] # NoSession
    BY <1>1, <2>1, RequestHas DEF ATypes, Presented
  <2>3. token[r.token].password \in 0..MaxChanges /\ token[r.token].late \in BOOLEAN
    BY <1>0, <2>2, SessionHas
  <2> SUFFICES ASSUME NEW u \in Users, u = r.user,
                      NEW password \in 0..MaxChanges, password = token[r.token].password,
                      NEW late \in BOOLEAN, late = token[r.token].late
               PROVE  ATypes'
    BY <2>2, <2>3
  <2>4. CASE token' = token
    BY <1>0, <1>4, <2>1, <2>4, IdleIsRequest, RequestTypes DEF RefreshIssue, TypeOK
  <2>5. CASE Open(w, u, password, late)
    <3>1. PICK t \in Tokens, s \in Session : token[t] = NoSession /\ token' = [token EXCEPT ![t] = s]
      BY <2>2, <2>5, OpenTypes
    <3>2. /\ \A k \in Tokens : \/ token'[k] = token[k]
                               \/ token[k] = NoSession /\ token'[k] \in Session
          /\ token' = [k \in Tokens |-> token'[k]]
      BY <1>0, <3>1 DEF TypeOK
    <3> QED
      BY <1>0, <1>4, <3>2, IdleIsRequest, ServeTypes DEF RefreshIssue, TypeOK
  <2> QED
    BY <1>4, <2>4, <2>5 DEF RefreshIssue
<1>5. CASE RefreshCheck(w)
  <2>1. r.op = "check"
    BY <1>5 DEF RefreshCheck
  <2>2. /\ r.token \in Tokens /\ token[r.token] # NoSession /\ token[r.token].user = r.user
        /\ r \in [op: {"check", "consume", "refresh"}, user: Users, token: Tokens, late: BOOLEAN]
    BY <1>1, <2>1 DEF ATypes, Presented, Request, Idle
  <2>a. req[w].late \in BOOLEAN
    BY <2>2
  <2> SUFFICES ASSUME NEW late \in BOOLEAN, NEW x, x = [r EXCEPT !.op = "consume", !.late = late],
                      req' = [req EXCEPT ![w] = Idle] \/ req' = [req EXCEPT ![w] = x]
               PROVE  ATypes'
    <3>1. \E late \in BOOLEAN : \E x :
            /\ x = [req[w] EXCEPT !.op = "consume", !.late = late]
            /\ req' = [req EXCEPT ![w] = Idle] \/ req' = [req EXCEPT ![w] = x]
      BY <1>5, <2>a, CheckedRequest
    <3> QED
      BY <3>1
  <2>3. x \in Request /\ x.token = r.token /\ x.user = r.user
    BY <2>2 DEF Request
  <2>4. user' = user /\ token' = token /\ revoked' = revoked /\ consumed' = consumed /\ now' = now
        /\ exchanges' = exchanges /\ contested' = contested
    BY <1>5 DEF RefreshCheck
  <2> QED
    BY <1>0, <2>2, <2>3, <2>4, IdleIsRequest, RequestTypes DEF TypeOK
<1> QED
  BY <1>2, <1>3, <1>4, <1>5

\* The request of v when u's password is replaced: the same, or marked as late.
LEMMA OutdatedHas ==
  ASSUME TypeOK, NEW u, NEW v \in Workers, NEW r, r = req[v], NEW q, q = Outdated(u)[v]
  PROVE  /\ q \in Request \union {Idle} /\ q.op = r.op
         /\ q # r => q.late /\ q.op \in {"login", "check", "consume", "refresh"}
         /\ r.op \in {"login", "check", "consume", "refresh"} => q.user = r.user
         /\ r.op \in {"check", "consume", "refresh"} => q.token = r.token
         /\ r.op = "login" => q.password = r.password /\ q.row = r.row
         /\ r.op \in {"login", "check", "consume", "refresh"} /\ r.user = u => q.late
<1>1. q = IF r.op \in {"login", "check", "consume", "refresh"} /\ r.user = u
            THEN [r EXCEPT !.late = TRUE] ELSE r
  BY DEF Outdated
<1>2. r \in Request \union {Idle}
  BY DEF TypeOK
<1>3. CASE r.op = "login" /\ r.user = u
  <2>1. r \in [op: {"login"}, user: Users, row: Columns, right: BOOLEAN, password: 0..MaxChanges,
               late: BOOLEAN]
    BY <1>2, <1>3 DEF Request, Idle
  <2> QED
    BY <1>1, <1>3, <2>1 DEF Request
<1>4. CASE r.op \in {"check", "consume", "refresh"} /\ r.user = u
  <2>1. r \in [op: {"check", "consume", "refresh"}, user: Users, token: Tokens, late: BOOLEAN]
    BY <1>2, <1>4 DEF Request, Idle
  <2> QED
    BY <1>1, <1>4, <2>1 DEF Request
<1>5. CASE ~(r.op \in {"login", "check", "consume", "refresh"} /\ r.user = u)
  BY <1>1, <1>2, <1>5
<1> QED
  BY <1>3, <1>4, <1>5

\* A change of password, or an erasure, that is committed.
LEMMA OutdatedTypes ==
  ASSUME ATypes, NEW w \in Workers, NEW u, req' = [Outdated(u) EXCEPT ![w] = Idle],
         user' \in [Users -> Account], UNCHANGED <<token, revoked, consumed, now, exchanges, contested>>
  PROVE  ATypes'
<1>0. TypeOK
  BY DEF ATypes
<1>1. \A v \in Workers : req'[v] = IF v = w THEN Idle ELSE Outdated(u)[v]
  BY DEF Outdated
<1>2. ASSUME NEW v \in Workers
      PROVE  /\ req'[v] \in Request \union {Idle}
             /\ req'[v].op \in {"check", "consume", "refresh"} =>
                  /\ req'[v].token \in Tokens /\ token[req'[v].token] # NoSession
                  /\ token[req'[v].token].user = req'[v].user
  <2>1. CASE v = w
    BY <1>1, <2>1, IdleIsRequest
  <2>2. CASE v # w
    <3> SUFFICES ASSUME NEW r, r = req[v], NEW q, q = Outdated(u)[v]
                 PROVE  /\ q \in Request \union {Idle}
                        /\ q.op \in {"check", "consume", "refresh"} =>
                             q.token \in Tokens /\ token[q.token] # NoSession /\ token[q.token].user = q.user
      BY <1>1, <2>2
    <3>1. q \in Request \union {Idle} /\ q.op = r.op
      BY <1>0, OutdatedHas
    <3>2. r.op \in {"check", "consume", "refresh"} => q.token = r.token /\ q.user = r.user
      BY <1>0, OutdatedHas
    <3> QED
      BY <3>1, <3>2 DEF ATypes, Presented
  <2> QED
    BY <2>1, <2>2
<1>3. req' = [v \in Workers |-> req'[v]]
  BY DEF Outdated
<1>4. req' \in [Workers -> Request \union {Idle}]
  BY <1>2, <1>3
<1>5. TypeOK'
  BY <1>0, <1>4 DEF TypeOK
<1>6. Presented'
  BY <1>2 DEF Presented
<1> QED
  BY <1>5, <1>6 DEF ATypes

LEMMA RemovalTypes ==
  ASSUME ATypes, NEW w \in Workers,
         \/ \E u \in Users : ChangePassword(w, u)
         \/ \E actor, u \in Users : Erase(w, actor, u) \/ Delete(w, actor, u)
         \/ Revoke(w) \/ PasswordCommit(w) \/ EraseCommit(w) \/ DeleteCommit(w) \/ Fail(w)
  PROVE  ATypes'
<1>0. TypeOK
  BY DEF ATypes
<1> SUFFICES ASSUME NEW r, r = req[w] PROVE ATypes'
  OBVIOUS
<1>1. r \in Request \union {Idle}
  BY DEF ATypes, TypeOK
<1>2. ASSUME NEW u \in Users, ChangePassword(w, u) PROVE ATypes'
  <2> SUFFICES ASSUME NEW x, x = [op |-> "password", user |-> u, revoked |-> FALSE] PROVE ATypes'
    OBVIOUS
  <2>1. x \in Request /\ x.op = "password"
    BY DEF Request
  <2>2. req' = [req EXCEPT ![w] = x]
    BY <1>2 DEF ChangePassword
  <2> QED
    BY <1>0, <1>2, <2>1, <2>2, RequestTypes DEF ChangePassword, TypeOK
<1>3. ASSUME NEW actor \in Users, NEW u \in Users, Erase(w, actor, u) PROVE ATypes'
  <2> SUFFICES ASSUME NEW row, row = Read(u),
                      NEW x, x = [op |-> "erase", user |-> u, row |-> row, revoked |-> FALSE]
               PROVE  ATypes'
    OBVIOUS
  <2>1. row \in Columns
    BY <1>0, BoundsAreNaturals DEF TypeOK, Account, Read, Columns
  <2>2. x \in Request /\ x.op = "erase"
    BY <2>1 DEF Request
  <2>3. req' = [req EXCEPT ![w] = x] /\ contested' \in BOOLEAN
    BY <1>3 DEF Erase
  <2> QED
    BY <1>0, <1>3, <2>2, <2>3, RequestTypes DEF Erase, TypeOK
<1>4. ASSUME NEW actor \in Users, NEW u \in Users, Delete(w, actor, u) PROVE ATypes'
  <2> SUFFICES ASSUME NEW x, x = [op |-> "delete", user |-> u] PROVE ATypes'
    OBVIOUS
  <2>1. x \in Request /\ x.op = "delete"
    BY DEF Request
  <2>2. req' = [req EXCEPT ![w] = x] /\ contested' \in BOOLEAN
    BY <1>4 DEF Delete
  <2> QED
    BY <1>0, <1>4, <2>1, <2>2, RequestTypes DEF Delete, TypeOK
<1>5. CASE Revoke(w)
  <2> SUFFICES ASSUME NEW x, x = [r EXCEPT !.revoked = TRUE] PROVE ATypes'
    OBVIOUS
  <2>1. r \in [op: {"password"}, user: Users, revoked: BOOLEAN]
              \union [op: {"erase"}, user: Users, row: Columns, revoked: BOOLEAN]
    BY <1>1, <1>5 DEF Revoke, Request, Idle
  <2>2. x \in Request /\ x.op \in {"password", "erase"}
    BY <2>1 DEF Request
  <2>3. req' = [req EXCEPT ![w] = x]
    BY <1>5 DEF Revoke
  <2>4. revoked' \in [Watched -> 0..MaxTime]
    BY <1>0, <1>5 DEF Revoke, TypeOK
  <2> QED
    BY <1>0, <1>5, <2>2, <2>3, <2>4, RequestTypes DEF Revoke, TypeOK
<1>6. CASE PasswordCommit(w)
  <2> SUFFICES ASSUME NEW u, u = r.user PROVE ATypes'
    OBVIOUS
  <2>1. PICK version \in 1..MaxChanges : user' = [user EXCEPT ![u].password = version]
    BY <1>6 DEF PasswordCommit
  <2>2. u \in Users
    BY <1>1, <1>6, RequestHas DEF PasswordCommit
  <2>3. user' \in [Users -> Account]
    <3>1. [user[u] EXCEPT !.password = version] \in Account
      BY <1>0, <2>2, BoundsAreNaturals DEF TypeOK, Account
    <3> QED
      BY <1>0, <2>1, <3>1 DEF TypeOK
  <2>4. req' = [Outdated(u) EXCEPT ![w] = Idle]
    BY <1>6 DEF PasswordCommit
  <2> QED
    BY <1>6, <2>3, <2>4, OutdatedTypes DEF PasswordCommit
<1>7. CASE EraseCommit(w)
  <2>1. r.user \in Users /\ r.row \in Columns
    BY <1>1, <1>7, RequestHas DEF EraseCommit
  <2> SUFFICES ASSUME NEW u \in Users, u = r.user, NEW row \in Columns, row = r.row,
                      NEW new, new = Cleared(row), NEW stored, stored = user[u],
                      NEW y, y = Changed(stored, row, new),
                      NEW z, z = [y EXCEPT !.active = FALSE, !.erased = TRUE]
               PROVE  ATypes'
    BY <2>1
  <2>2. user' = [user EXCEPT ![u] = z]
    BY <1>7 DEF EraseCommit
  <2>3. new \in Columns /\ stored \in Account
    BY <1>0, ColumnsOfRows DEF TypeOK
  <2>4. y \in Account
    BY <2>3, ChangedIsAccount
  <2>5. z \in Account
    BY <2>4, ErasedIsAccount
  <2>6. user' \in [Users -> Account]
    BY <1>0, <2>2, <2>5 DEF TypeOK
  <2>7. req' = [Outdated(u) EXCEPT ![w] = Idle]
    BY <1>7 DEF EraseCommit
  <2> QED
    BY <1>7, <2>6, <2>7, OutdatedTypes DEF EraseCommit
<1>8. CASE DeleteCommit(w)
  <2> SUFFICES ASSUME NEW u, u = r.user PROVE ATypes'
    OBVIOUS
  <2>1. user' = [user EXCEPT ![u].active = FALSE]
    BY <1>8 DEF DeleteCommit
  <2>2. u \in Users
    BY <1>1, <1>8, RequestHas DEF DeleteCommit
  <2>3. user' \in [Users -> Account]
    <3>1. user[u] \in Account /\ \A y \in Account : [y EXCEPT !.active = FALSE] \in Account
      BY <1>0, <2>2 DEF TypeOK, Account
    <3> QED
      BY <1>0, <2>1, <3>1 DEF TypeOK
  <2> QED
    BY <1>0, <1>8, <2>3, IdleIsRequest, RequestTypes DEF DeleteCommit, TypeOK
<1>9. CASE Fail(w)
  BY <1>0, <1>9, IdleIsRequest, RequestTypes DEF Fail, TypeOK
<1> QED
  BY <1>2, <1>3, <1>4, <1>5, <1>6, <1>7, <1>8, <1>9

LEMMA NextTypes == ATypes /\ [Next]_vars => ATypes'
<1> SUFFICES ASSUME ATypes, [Next]_vars PROVE ATypes'
  OBVIOUS
<1>1. CASE Tick
  <2>1. now' \in 1..MaxTime
    BY <1>1, BoundsAreNaturals DEF Tick, ATypes, TypeOK
  <2>2. revoked' \in [Watched -> 0..MaxTime]
    BY <1>1, BoundsAreNaturals DEF Tick, ATypes, TypeOK
  <2>3. consumed' \in [Tokens -> 0..MaxTime + TokenTTL]
    BY <1>1, BoundsAreNaturals, PeriodsAreTimes DEF Tick, ATypes, TypeOK
  <2> QED
    BY <1>1, <2>1, <2>2, <2>3 DEF Tick, ATypes, TypeOK, Presented
<1>2. CASE UNCHANGED vars
  BY <1>2 DEF vars, ATypes, TypeOK, Presented
<1> QED
  BY <1>1, <1>2, LoginTypes, RefreshTypes, RemovalTypes DEF Next, Serve

LEMMA InitTypes == Init => ATypes
<1> SUFFICES ASSUME Init PROVE ATypes
  OBVIOUS
<1>1. [active |-> TRUE, erased |-> FALSE, failed |-> 0, locked |-> 0, password |-> 0] \in Account
  BY BoundsAreNaturals, PeriodsAreTimes DEF Account
<1>2. now \in 1..MaxTime
  BY TimePasses, BoundsAreNaturals DEF Init
<1>3. 0 \in 0..MaxTime /\ 0 \in 0..MaxTime + TokenTTL
  BY BoundsAreNaturals, PeriodsAreTimes
<1>4. TypeOK
  BY <1>1, <1>2, <1>3, IdleIsRequest DEF Init, TypeOK
<1>5. Presented
  BY DEF Init, Presented, Idle
<1> QED
  BY <1>4, <1>5 DEF ATypes

LEMMA TypesHold == Spec => []ATypes
BY InitTypes, NextTypes, PTL DEF Spec

\* Rows, tokens, revocations and requests have their types.
THEOREM AccountsTypeCorrect == Spec => []TypeOK
<1>1. ATypes => TypeOK
  BY DEF ATypes
<1> QED
  BY <1>1, TypesHold, PTL

-----------------------------------------------------------------------------
(* A refresh token that was exchanged is marked as long as it lives.        *)

ExchangedIsMarked ==
  \A t \in Tokens : exchanges[t] # 0 =>
    /\ token[t] # NoSession
    /\ now < Expiry(t) => consumed[t] >= Expiry(t)

RInv == ATypes /\ ExchangedIsMarked

\* Sessions are never changed, nor forgotten.
LEMMA TokensStay ==
  ASSUME ATypes, [Next]_vars, NEW t \in Tokens, token[t] # NoSession
  PROVE  token'[t] = token[t]
<1>1. ASSUME NEW w, NEW u, NEW password, NEW late, Open(w, u, password, late)
      PROVE  token'[t] = token[t]
  BY <1>1 DEF Open, ATypes, TypeOK
<1>2. (\E w, u, password, late : Open(w, u, password, late)) \/ token' = token
  BY DEF Next, Serve, Login, LoginLocked, LoginFails, LoginSucceeds, RefreshDecode, RefreshCheck, Consume, RefreshIssue,
         ChangePassword, Erase, Delete, Revoke, PasswordCommit, EraseCommit, DeleteCommit, Fail,
         Tick, vars
<1> QED
  BY <1>1, <1>2

\* A step that exchanges nothing and forgets no mark before its time.
LEMMA MarksStay ==
  ASSUME RInv, [Next]_vars, exchanges' = exchanges, now <= now',
         \A t \in Tokens : consumed'[t] = consumed[t] \/ now' >= consumed[t]
  PROVE  ExchangedIsMarked'
<1> SUFFICES ASSUME NEW t \in Tokens, exchanges[t] # 0
             PROVE  /\ token'[t] # NoSession
                    /\ now' < Expiry(t)' => consumed'[t] >= Expiry(t)'
  BY DEF ExchangedIsMarked
<1>1. token[t] # NoSession /\ (now < Expiry(t) => consumed[t] >= Expiry(t))
  BY DEF RInv, ExchangedIsMarked
<1>2. token'[t] = token[t] /\ Expiry(t)' = Expiry(t)
  BY <1>1, TokensStay DEF RInv, Expiry
<1>3. Expiry(t) \in Nat /\ now \in Nat /\ now' \in Nat /\ consumed[t] \in Nat
  BY <1>1, MarkOutlives, NextTypes, BoundsAreNaturals, PeriodsAreTimes DEF RInv, ATypes, TypeOK
<1> DEFINE e == Expiry(t)
<1> HIDE DEF e
<1>4. now' < e => consumed'[t] >= e
  BY <1>1, <1>3 DEF e
<1> QED
  BY <1>1, <1>2, <1>4 DEF e

\* An exchange: the token was not marked, so that it was not exchanged in its life.
LEMMA ExchangeMarks ==
  ASSUME RInv, [Next]_vars, NEW w \in Workers, Consume(w)
  PROVE  /\ ExchangedIsMarked'
         /\ \A t \in Tokens : exchanges'[t] # exchanges[t] => exchanges[t] = 0 \/ now >= Expiry(t)
<1>0. ATypes /\ TypeOK
  BY DEF RInv, ATypes
<1> SUFFICES ASSUME NEW t, t = req[w].token
             PROVE  /\ ExchangedIsMarked'
                    /\ \A k \in Tokens : exchanges'[k] # exchanges[k] => exchanges[k] = 0 \/ now >= Expiry(k)
  OBVIOUS
<1>1. t \in Tokens /\ token[t] # NoSession /\ token' = token /\ now' = now
  BY <1>0 DEF Consume, ATypes, Presented
<1>2. CASE consumed[t] # 0
  <2>1. consumed' = consumed /\ exchanges' = exchanges
    BY <1>2 DEF Consume
  <2>2. now \in Nat
    BY <1>0, BoundsAreNaturals DEF TypeOK
  <2> QED
    BY <1>1, <2>1, <2>2, MarksStay
<1>3. CASE ~(consumed[t] # 0)
  <2>1. consumed' = [consumed EXCEPT ![t] = Mark(t)] /\ exchanges' = [exchanges EXCEPT ![t] = exchanges[t] + 1]
    BY <1>3 DEF Consume
  <2>2. consumed'[t] = Mark(t) /\ \A k \in Tokens \ {t} : consumed'[k] = consumed[k] /\ exchanges'[k] = exchanges[k]
    BY <1>0, <1>1, <2>1 DEF TypeOK
  <2>3. Mark(t) >= Expiry(t) /\ Expiry(t) \in Nat /\ now \in 1..MaxTime
    BY <1>0, <1>1, MarkOutlives DEF TypeOK
  <2>4. ExchangedIsMarked'
    <3> SUFFICES ASSUME NEW k \in Tokens, exchanges'[k] # 0
                 PROVE  token[k] # NoSession /\ (now < Expiry(k) => consumed'[k] >= Expiry(k))
      BY <1>1 DEF ExchangedIsMarked, Expiry
    <3>1. CASE k = t
      BY <1>1, <2>2, <2>3, <3>1
    <3>2. CASE k # t
      BY <2>2, <3>2 DEF RInv, ExchangedIsMarked
    <3> QED
      BY <3>1, <3>2
  <2>5. exchanges[t] = 0 \/ now >= Expiry(t)
    <3>1. consumed[t] = 0
      BY <1>3
    <3>2. exchanges[t] # 0 => (now < Expiry(t) => consumed[t] >= Expiry(t))
      BY <1>1 DEF RInv, ExchangedIsMarked
    <3> DEFINE e == Expiry(t)
    <3> HIDE DEF e
    <3>3. exchanges[t] # 0 => ~(now < e)
      BY <2>3, <3>1, <3>2, BoundsAreNaturals DEF e
    <3>4. ~(now < e) => now >= e
      BY <2>3, BoundsAreNaturals DEF e
    <3> QED
      BY <3>3, <3>4 DEF e
  <2> QED
    BY <2>2, <2>4, <2>5
<1> QED
  BY <1>2, <1>3

LEMMA NextExchanges ==
  ASSUME RInv, [Next]_vars
  PROVE  /\ RInv'
         /\ \A t \in Tokens : exchanges'[t] # exchanges[t] => exchanges[t] = 0 \/ now >= Expiry(t)
<1>0. ATypes /\ TypeOK
  BY DEF RInv, ATypes
<1>1. CASE Tick
  <2>1. exchanges' = exchanges /\ now' = now + 1
        /\ \A t \in Tokens : consumed'[t] = consumed[t] \/ now' >= consumed[t]
    BY <1>1 DEF Tick
  <2>2. now <= now'
    BY <1>0, <2>1, BoundsAreNaturals DEF TypeOK
  <2> QED
    BY <1>0, <2>1, <2>2, MarksStay, NextTypes DEF RInv
<1>2. ASSUME consumed' = consumed, exchanges' = exchanges, now' = now PROVE ExchangedIsMarked'
  <2>1. now <= now'
    BY <1>0, <1>2, BoundsAreNaturals DEF TypeOK
  <2> QED
    BY <1>2, <2>1, MarksStay
<1>3. \/ Tick \/ \E w \in Workers : Consume(w)
      \/ consumed' = consumed /\ exchanges' = exchanges /\ now' = now
  BY DEF Next, Serve, Login, LoginLocked, LoginFails, LoginSucceeds, RefreshDecode, RefreshCheck,
         RefreshIssue, ChangePassword, Erase, Delete, Revoke, PasswordCommit, EraseCommit,
         DeleteCommit, Fail, vars
<1> QED
  BY <1>0, <1>1, <1>2, <1>3, ExchangeMarks, NextTypes DEF RInv

\* However many requests present a refresh token, one of them exchanges it in its life:
\* another does so only if it comes to the exchange after the token has expired.
THEOREM RefreshedOnce == Spec => RefreshOnce
<1>1. Init => RInv
  BY InitTypes DEF Init, RInv, ExchangedIsMarked
<1>2. RInv /\ [Next]_vars => RInv'
  BY NextExchanges
<1>3. RInv /\ [Next]_vars =>
        [\A t \in Tokens : exchanges'[t] # exchanges[t] => exchanges[t] = 0 \/ now >= Expiry(t)]_vars
  BY NextExchanges
<1> QED
  BY <1>1, <1>2, <1>3, PTL DEF Spec, RefreshOnce

-----------------------------------------------------------------------------
(* Sessions end with the password.  What was opened on an earlier password *)
(* has ended: it is revoked, or too old, and stays so when Redis forgets    *)
(* the instant, for an instant outlives every token it refuses.            *)

Ended(t) == now >= token[t].iat + TokenTTL \/ RevokedAt(token[t].user, token[t].iat)

Followed(u) == {t \in Tokens : token[t] # NoSession /\ token[t].user = u /\ ~token[t].late}

\* Sessions are of watched users, and not of the future.
SessionsArePast ==
  \A t \in Tokens : token[t] # NoSession => token[t].user \in Watched /\ token[t].iat <= now
RequestsAreWatched ==
  \A w \in Workers : req[w].op \in {"login", "check", "consume", "refresh"} => req[w].user \in Watched

OldHaveEnded ==
  \A u \in Watched : \A t \in Followed(u) : token[t].password # user[u].password => Ended(t)

\* Before a change of password is committed, every session has ended.
RevokedHaveEnded ==
  \A w \in Workers : req[w].op = "password" /\ req[w].revoked =>
    \A t \in Followed(req[w].user) : Ended(t)

\* A request that overlapped no change knows the password of the account.
RequestsAreCurrent ==
  \A w \in Workers :
    /\ req[w].op = "login" /\ ~req[w].late => req[w].password = user[req[w].user].password
    /\ req[w].op \in {"consume", "refresh"} /\ ~req[w].late /\ ~token[req[w].token].late =>
         token[req[w].token].password = user[req[w].user].password

Past == ATypes /\ SessionsArePast /\ RequestsAreWatched
PInv == Past /\ OldHaveEnded /\ RevokedHaveEnded /\ RequestsAreCurrent


\* Time passes, and Redis changes, in few ways.
LEMMA ClockSteps ==
  ASSUME [Next]_vars
  PROVE  \/ Tick
         \/ now' = now /\ \E w \in Workers : Revoke(w)
         \/ now' = now /\ revoked' = revoked
BY DEF Next, Serve, Login, LoginLocked, LoginFails, LoginSucceeds, RefreshDecode, RefreshCheck, Consume, RefreshIssue,
       ChangePassword, Erase, Delete, Revoke, PasswordCommit, EraseCommit, DeleteCommit, Fail, vars

\* A session that has ended never comes back.
LEMMA EndedStays ==
  ASSUME Past, [Next]_vars, NEW t \in Tokens, token[t] # NoSession, Ended(t)
  PROVE  Ended(t)'
<1> SUFFICES ASSUME NEW u, u = token[t].user, NEW iat, iat = token[t].iat
             PROVE  now' >= iat + TokenTTL \/ (revoked'[u] # 0 /\ iat <= revoked'[u])
  BY TokensStay DEF Past, Ended, RevokedAt
<1>1. u \in Watched /\ iat <= now /\ iat \in 1..MaxTime
  BY SessionHas DEF Past, ATypes, SessionsArePast
<1>2. now >= iat + TokenTTL \/ (revoked[u] # 0 /\ iat <= revoked[u])
  BY DEF Ended, RevokedAt
<1>3. now \in 1..MaxTime /\ revoked[u] \in 0..MaxTime
  BY <1>1 DEF Past, ATypes, TypeOK
<1>4. TokenTTL \in Nat /\ Retention \in Nat /\ Retention > TokenTTL
  BY PeriodsAreTimes, RevocationsOutliveTokens
<1>5. CASE now' = now /\ revoked' = revoked
  BY <1>2, <1>5
<1>6. ASSUME NEW w \in Workers, Revoke(w), now' = now
      PROVE  now' >= iat + TokenTTL \/ (revoked'[u] # 0 /\ iat <= revoked'[u])
  <2>1. revoked'[u] \in {now, revoked[u]}
    BY <1>1, <1>6 DEF Revoke
  <2> QED
    BY <1>1, <1>2, <1>3, <1>6, <2>1, BoundsAreNaturals
<1>7. CASE Tick
  <2>1. now' = now + 1 /\ revoked'[u] = IF now' >= revoked[u] + Retention THEN 0 ELSE revoked[u]
    BY <1>1, <1>7 DEF Tick
  <2> QED
    BY <1>1, <1>2, <1>3, <1>4, <2>1, BoundsAreNaturals
<1> QED
  BY <1>5, <1>6, <1>7, ClockSteps

\* Revocation ends every session of a user, those of the same instant too.
LEMMA RevokedEnd ==
  ASSUME Past, [Next]_vars, NEW w \in Workers, Revoke(w), NEW t \in Tokens, token[t] # NoSession,
         token[t].user = req[w].user
  PROVE  Ended(t)'
<1> SUFFICES ASSUME NEW u, u = token[t].user, NEW iat, iat = token[t].iat
             PROVE  revoked'[u] # 0 /\ iat <= revoked'[u]
  BY TokensStay DEF Past, Ended, RevokedAt
<1>1. u \in Watched /\ iat <= now /\ iat \in 1..MaxTime
  BY SessionHas DEF Past, ATypes, SessionsArePast
<1>2. now \in 1..MaxTime
  BY DEF Past, ATypes, TypeOK
<1>3. revoked'[u] = now
  BY <1>1 DEF Revoke
<1> QED
  BY <1>1, <1>2, <1>3, BoundsAreNaturals

-----------------------------------------------------------------------------
(* One step.  It leaves the requests of the other workers alone, but for   *)
(* those that a change of password marks as late.                          *)

\* A step that opens no session and changes no password.
Plain == token' = token /\ \A u \in Users : user'[u].password = user[u].password

\* The request of v goes on, or was overtaken by a change of password.
Continues(v) ==
  \/ req'[v] = req[v]
  \/ /\ req[v].op \in {"login", "check", "consume", "refresh"} /\ req'[v].op = req[v].op
     /\ req'[v].user = req[v].user /\ req'[v].late

\* The workers of W go on to the request x.
Steps(W, x) == (\A w \in W : req'[w] = x) /\ \A v \in Workers \ W : Continues(v)

LEMMA RequestsOfOthers ==
  ASSUME ATypes, NEW w \in Workers, NEW x, req' = [req EXCEPT ![w] = x]
  PROVE  Steps({w}, x)
BY DEF Steps, Continues, ATypes, TypeOK

LEMMA OutdatedContinue ==
  ASSUME ATypes, NEW w \in Workers, NEW u, req' = [Outdated(u) EXCEPT ![w] = Idle]
  PROVE  /\ Steps({w}, Idle)
         /\ \A v \in Workers : req'[v].op \in {"login", "check", "consume", "refresh"} /\ req'[v].user = u
                              => req'[v].late
<1>0. TypeOK
  BY DEF ATypes
<1>1. \A v \in Workers : req'[v] = IF v = w THEN Idle ELSE Outdated(u)[v]
  BY DEF Outdated
<1>2. ASSUME NEW v \in Workers \ {w}
      PROVE  /\ Continues(v)
             /\ req'[v].op \in {"login", "check", "consume", "refresh"} /\ req'[v].user = u => req'[v].late
  <2> SUFFICES ASSUME NEW r, r = req[v], NEW q, q = Outdated(u)[v]
               PROVE  /\ \/ q = r
                         \/ /\ r.op \in {"login", "check", "consume", "refresh"} /\ q.op = r.op
                            /\ q.user = r.user /\ q.late
                      /\ q.op \in {"login", "check", "consume", "refresh"} /\ q.user = u => q.late
    BY <1>1 DEF Continues
  <2>1. q.op = r.op /\ (q # r => q.late /\ q.op \in {"login", "check", "consume", "refresh"})
    BY <1>0, OutdatedHas
  <2>2. r.op \in {"login", "check", "consume", "refresh"} => q.user = r.user
    BY <1>0, OutdatedHas
  <2>3. r.op \in {"login", "check", "consume", "refresh"} /\ r.user = u => q.late
    BY <1>0, OutdatedHas
  <2> QED
    BY <2>1, <2>2, <2>3
<1>3. Idle.op = "idle"
  BY DEF Idle
<1> QED
  BY <1>1, <1>2, <1>3 DEF Steps

LEMMA FollowedStays ==
  ASSUME ATypes, [Next]_vars, token' = token
  PROVE  \A u : Followed(u)' = Followed(u)
BY DEF Followed

\* A worker goes on to a request x, without a session or a password.
LEMMA PlainStep ==
  ASSUME PInv, [Next]_vars, NEW W \in SUBSET Workers, NEW x, Steps(W, x), Plain,
         x.op \in {"login", "check", "consume", "refresh"} => x.user \in Watched,
         x.op = "login" /\ ~x.late => x.password = user[x.user].password,
         x.op \in {"consume", "refresh"} /\ ~x.late /\ ~token[x.token].late =>
           token[x.token].password = user[x.user].password,
         x.op = "password" /\ x.revoked => \A t \in Followed(x.user) : Ended(t)'
  PROVE  PInv'
<1>0. ATypes /\ TypeOK /\ ATypes'
  BY NextTypes DEF PInv, Past, ATypes
<1>1. (\A w \in W : req'[w] = x) /\ \A v \in Workers \ W : Continues(v)
  BY DEF Steps
<1>2. now <= now' /\ now \in Nat /\ now' \in Nat
  BY <1>0, ClockSteps, BoundsAreNaturals DEF ATypes, TypeOK, Tick
<1>3. SessionsArePast'
  <2> SUFFICES ASSUME NEW t \in Tokens, token[t] # NoSession
               PROVE  token[t].user \in Watched /\ token[t].iat <= now'
    BY DEF SessionsArePast, Plain
  <2>1. token[t].user \in Watched /\ token[t].iat <= now
    BY DEF PInv, Past, SessionsArePast
  <2>2. token[t].iat \in Nat
    BY <1>0, SessionHas, BoundsAreNaturals
  <2> QED
    BY <1>2, <2>1, <2>2
<1>4. RequestsAreWatched'
  <2> SUFFICES ASSUME NEW v \in Workers, req'[v].op \in {"login", "check", "consume", "refresh"}
               PROVE  req'[v].user \in Watched
    BY DEF RequestsAreWatched
  <2>1. CASE v \in W
    BY <1>1, <2>1
  <2>2. CASE v \notin W
    BY <1>1, <2>2 DEF Continues, PInv, Past, RequestsAreWatched
  <2> QED
    BY <2>1, <2>2
<1>5. OldHaveEnded'
  <2> SUFFICES ASSUME NEW u \in Watched, NEW t \in Tokens, token'[t] # NoSession, token'[t].user = u,
                      ~token'[t].late, token'[t].password # user'[u].password
               PROVE  Ended(t)'
    BY DEF OldHaveEnded, Followed
  <2>1. t \in Followed(u) /\ token[t].password # user[u].password /\ token[t] # NoSession
    BY AdminsAreUsers DEF Plain, Followed
  <2> QED
    BY <2>1, EndedStays DEF PInv, OldHaveEnded
<1>6. RevokedHaveEnded'
  <2> SUFFICES ASSUME NEW v \in Workers, req'[v].op = "password", req'[v].revoked,
                      NEW t \in Tokens, token'[t] # NoSession, token'[t].user = req'[v].user,
                      ~token'[t].late
               PROVE  Ended(t)'
    BY DEF RevokedHaveEnded, Followed
  <2>1. token[t] # NoSession /\ t \in Followed(req'[v].user)
    BY DEF Plain, Followed
  <2>2. CASE v \in W
    BY <1>1, <2>1, <2>2
  <2>3. CASE v \notin W
    <3>1. req'[v] = req[v]
      BY <1>1, <2>3 DEF Continues
    <3> QED
      BY <2>1, <3>1, EndedStays DEF PInv, RevokedHaveEnded
  <2> QED
    BY <2>2, <2>3
<1>7. RequestsAreCurrent'
  <2> SUFFICES ASSUME NEW v \in Workers
               PROVE  /\ req'[v].op = "login" /\ ~req'[v].late =>
                           req'[v].password = user'[req'[v].user].password
                      /\ req'[v].op \in {"consume", "refresh"} /\ ~req'[v].late
                           /\ ~token'[req'[v].token].late =>
                           token'[req'[v].token].password = user'[req'[v].user].password
    BY DEF RequestsAreCurrent
  <2>1. req'[v].op \in {"login", "check", "consume", "refresh"} => req'[v].user \in Users
    BY <1>4, AdminsAreUsers DEF RequestsAreWatched
  <2>2. CASE v \in W
    BY <1>1, <2>1, <2>2 DEF Plain
  <2>3. CASE v \notin W
    <3>1. CASE req'[v] = req[v]
      BY <2>1, <3>1 DEF Plain, PInv, RequestsAreCurrent
    <3>2. CASE req'[v] # req[v]
      BY <1>1, <2>3, <3>2 DEF Continues
    <3> QED
      BY <3>1, <3>2
  <2> QED
    BY <2>2, <2>3
<1> QED
  BY <1>0, <1>3, <1>4, <1>5, <1>6, <1>7 DEF PInv, Past


LEMMA IdleSteps ==
  ASSUME PInv, [Next]_vars, NEW W \in SUBSET Workers, Steps(W, Idle), Plain
  PROVE  PInv'
<1>1. Idle.op = "idle"
  BY DEF Idle
<1> QED
  BY <1>1, PlainStep

\* A row that is committed keeps its password.
LEMMA ChangedIsPlain ==
  ASSUME ATypes, NEW u \in Users, NEW z, z.password = user[u].password,
         user' = [user EXCEPT ![u] = z], token' = token
  PROVE  Plain
BY DEF Plain, ATypes, TypeOK

LEMMA LoginPlain ==
  ASSUME PInv, [Next]_vars, NEW w \in Workers,
         \/ \E u \in Users : \E right \in BOOLEAN : Login(w, u, right)
         \/ LoginLocked(w) \/ LoginFails(w)
  PROVE  PInv'
<1>0. ATypes /\ TypeOK
  BY DEF PInv, Past, ATypes
<1>1. ASSUME NEW u \in Users, NEW right \in BOOLEAN, Login(w, u, right) PROVE PInv'
  <2> SUFFICES ASSUME NEW row, row = Read(u), NEW password, password = user[u].password,
                      NEW x, x = [op |-> "login", user |-> u, row |-> row, right |-> right,
                                  password |-> password, late |-> FALSE]
               PROVE  PInv'
    OBVIOUS
  <2>1. req' = [req EXCEPT ![w] = x] /\ u \in Watched /\ token' = token /\ user' = user
    BY <1>1 DEF Login
  <2>2. x.op = "login" /\ x.user = u /\ x.password = password /\ ~x.late
    OBVIOUS
  <2>3. Steps({w}, x) /\ Plain
    BY <1>0, <2>1, RequestsOfOthers DEF Plain
  <2> QED
    BY <2>1, <2>2, <2>3, PlainStep
<1>2. CASE LoginLocked(w)
  <2>1. Steps({w}, Idle) /\ Plain
    BY <1>0, <1>2, RequestsOfOthers DEF LoginLocked, Plain
  <2> QED
    BY <2>1, IdleSteps
<1>3. CASE LoginFails(w)
  <2> SUFFICES ASSUME NEW r, r = req[w] PROVE PInv'
    OBVIOUS
  <2>1. r.op = "login" /\ r.row.failed < MaxFailed /\ token' = token
        /\ user' = [user EXCEPT ![r.user] = Changed(user[r.user], r.row, Counted(r.row))]
        /\ req' = [req EXCEPT ![w] = Idle]
    BY <1>3 DEF LoginFails
  <2>2. r.user \in Users /\ r.row \in Columns
    BY <1>0, <2>1, RequestHas DEF TypeOK
  <2> SUFFICES ASSUME NEW u \in Users, u = r.user, NEW row \in Columns, row = r.row,
                      NEW new, new = Counted(row), NEW stored, stored = user[u],
                      NEW y, y = Changed(stored, row, new)
               PROVE  PInv'
    BY <2>2
  <2>3. new \in Columns /\ stored \in Account
    BY <1>0, <2>1, ColumnsOfRows DEF TypeOK
  <2>4. y.password = stored.password
    BY <2>3, ChangedIsAccount
  <2>5. user' = [user EXCEPT ![u] = y]
    BY <2>1
  <2>6. Steps({w}, Idle) /\ Plain
    BY <1>0, <2>1, <2>4, <2>5, RequestsOfOthers, ChangedIsPlain
  <2> QED
    BY <2>6, IdleSteps
<1> QED
  BY <1>1, <1>2, <1>3

\* A session is opened by a request that knows the password, or overlapped a change.
LEMMA OpenStep ==
  ASSUME PInv, [Next]_vars, NEW w \in Workers, req' = [req EXCEPT ![w] = Idle],
         NEW u \in Watched, NEW password \in 0..MaxChanges, NEW late \in BOOLEAN,
         req[w].late \in BOOLEAN, Open(w, u, password, late),
         ~late /\ ~req[w].late => password = user[u].password,
         \A v \in Users : user'[v].password = user[v].password
  PROVE  PInv'
<1>0. ATypes /\ TypeOK /\ ATypes' /\ u \in Users
  BY NextTypes, AdminsAreUsers DEF PInv, Past, ATypes
<1>1. PICK t \in Tokens, s \in Session :
        /\ token[t] = NoSession /\ token' = [token EXCEPT ![t] = s] /\ s # NoSession
        /\ s.user = u /\ s.iat = now /\ s.password = password
        /\ ~s.late => ~late /\ ~req[w].late /\ ~Changing(u)
  BY <1>0, OpenTypes
<1>2. token'[t] = s /\ \A k \in Tokens \ {t} : token'[k] = token[k]
  BY <1>0, <1>1 DEF TypeOK
<1>3. now' \in Nat /\ now \in Nat /\ now <= now'
  BY <1>0, ClockSteps, BoundsAreNaturals DEF TypeOK, Tick
<1>4. Steps({w}, Idle) /\ Idle.op = "idle"
  BY <1>0, RequestsOfOthers DEF Idle
<1>5. SessionsArePast'
  <2> SUFFICES ASSUME NEW k \in Tokens, token'[k] # NoSession
               PROVE  token'[k].user \in Watched /\ token'[k].iat <= now'
    BY DEF SessionsArePast
  <2>1. CASE k = t
    BY <1>1, <1>2, <1>3, <2>1
  <2>2. CASE k # t
    <3>1. token'[k] = token[k] /\ token[k].user \in Watched /\ token[k].iat <= now
      BY <1>2, <2>2 DEF PInv, Past, SessionsArePast
    <3>2. token[k].iat \in Nat
      BY <1>0, <3>1, SessionHas, BoundsAreNaturals
    <3> QED
      BY <1>3, <3>1, <3>2
  <2> QED
    BY <2>1, <2>2
<1>6. RequestsAreWatched'
  BY <1>4 DEF Steps, Continues, PInv, Past, RequestsAreWatched
<1>7. OldHaveEnded'
  <2> SUFFICES ASSUME NEW v \in Watched, NEW k \in Tokens, token'[k] # NoSession, token'[k].user = v,
                      ~token'[k].late, token'[k].password # user'[v].password
               PROVE  Ended(k)'
    BY DEF OldHaveEnded, Followed
  <2>1. user'[v].password = user[v].password
    BY AdminsAreUsers
  <2>2. k # t
    BY <1>1, <1>2, <2>1
  <2>3. token'[k] = token[k]
    BY <1>2, <2>2
  <2>4. Ended(k)
    BY <2>1, <2>3 DEF PInv, OldHaveEnded, Followed
  <2> QED
    BY <2>3, <2>4, EndedStays DEF PInv
<1>8. RevokedHaveEnded'
  <2> SUFFICES ASSUME NEW v \in Workers, req'[v].op = "password", req'[v].revoked,
                      NEW k \in Tokens, token'[k] # NoSession, token'[k].user = req'[v].user,
                      ~token'[k].late
               PROVE  Ended(k)'
    BY DEF RevokedHaveEnded, Followed
  <2>1. v # w /\ req'[v] = req[v]
    BY <1>4 DEF Steps, Continues
  <2>2. k # t
    BY <1>1, <1>2, <2>1 DEF Changing
  <2>3. token'[k] = token[k]
    BY <1>2, <2>2
  <2>4. Ended(k)
    BY <2>1, <2>3 DEF PInv, RevokedHaveEnded, Followed
  <2> QED
    BY <2>3, <2>4, EndedStays DEF PInv
<1>9. RequestsAreCurrent'
  <2> SUFFICES ASSUME NEW v \in Workers
               PROVE  /\ req'[v].op = "login" /\ ~req'[v].late =>
                           req'[v].password = user'[req'[v].user].password
                      /\ req'[v].op \in {"consume", "refresh"} /\ ~req'[v].late
                           /\ ~token'[req'[v].token].late =>
                           token'[req'[v].token].password = user'[req'[v].user].password
    BY DEF RequestsAreCurrent
  <2>1. CASE v = w
    BY <1>4, <2>1 DEF Steps
  <2>2. CASE v # w
    <3>1. CASE req'[v] = req[v]
      <4>1. req[v].op \in {"login", "check", "consume", "refresh"} => req[v].user \in Users
        BY AdminsAreUsers DEF PInv, Past, RequestsAreWatched
      <4>2. req[v].op \in {"consume", "refresh"} => token'[req[v].token] = token[req[v].token]
        BY <1>0, TokensStay DEF ATypes, Presented
      <4> QED
        BY <3>1, <4>1, <4>2 DEF PInv, RequestsAreCurrent
    <3>2. CASE req'[v] # req[v]
      BY <1>4, <2>2, <3>2 DEF Steps, Continues
    <3> QED
      BY <3>1, <3>2
  <2> QED
    BY <2>1, <2>2
<1> QED
  BY <1>0, <1>5, <1>6, <1>7, <1>8, <1>9 DEF PInv, Past


LEMMA LoginOpens ==
  ASSUME PInv, [Next]_vars, NEW w \in Workers, LoginSucceeds(w)
  PROVE  PInv'
<1>0. ATypes /\ TypeOK
  BY DEF PInv, Past, ATypes
<1> SUFFICES ASSUME NEW r, r = req[w] PROVE PInv'
  OBVIOUS
<1>1. r.op = "login" /\ Open(w, r.user, r.password, FALSE) /\ req' = [req EXCEPT ![w] = Idle]
      /\ user' = [user EXCEPT ![r.user] = Changed(user[r.user], r.row, Cleared(r.row))]
  BY DEF LoginSucceeds
<1>2. r.user \in Users /\ r.row \in Columns /\ r.password \in 0..MaxChanges /\ r.late \in BOOLEAN
  BY <1>0, <1>1, RequestHas DEF TypeOK
<1>3. r.user \in Watched
  BY <1>1 DEF PInv, Past, RequestsAreWatched
<1> SUFFICES ASSUME NEW u \in Users, u = r.user, NEW row \in Columns, row = r.row,
                    NEW new, new = Cleared(row), NEW stored, stored = user[u],
                    NEW y, y = Changed(stored, row, new),
                    NEW password \in 0..MaxChanges, password = r.password,
                    NEW late \in BOOLEAN, late = FALSE
             PROVE  PInv'
  BY <1>2
<1>4. new \in Columns /\ stored \in Account
  BY <1>0, ColumnsOfRows DEF TypeOK
<1>5. y.password = stored.password
  BY <1>4, ChangedIsAccount
<1>6. user' = [user EXCEPT ![u] = y]
  BY <1>1
<1>7. \A v \in Users : user'[v].password = user[v].password
  BY <1>0, <1>5, <1>6 DEF TypeOK
<1>8. ~r.late => password = user[u].password
  BY <1>1 DEF PInv, RequestsAreCurrent
<1>9. Open(w, u, password, late)
  BY <1>1
<1>10. req[w].late \in BOOLEAN /\ u \in Watched
  BY <1>2, <1>3
<1>11. ~late /\ ~req[w].late => password = user[u].password
  BY <1>8
<1> QED
  BY <1>1, <1>7, <1>9, <1>10, <1>11, OpenStep

LEMMA RefreshSteps ==
  ASSUME PInv, [Next]_vars, NEW w \in Workers,
         (\E t \in Tokens : RefreshDecode(w, t)) \/ RefreshCheck(w) \/ Consume(w) \/ RefreshIssue(w)
  PROVE  PInv'
<1>0. ATypes /\ TypeOK
  BY DEF PInv, Past, ATypes
<1> SUFFICES ASSUME NEW r, r = req[w] PROVE PInv'
  OBVIOUS
<1>1. r \in Request \union {Idle}
  BY <1>0 DEF TypeOK
<1>2. ASSUME NEW t \in Tokens, RefreshDecode(w, t) PROVE PInv'
  <2> SUFFICES ASSUME NEW u, u = token[t].user,
                      NEW x, x = [op |-> "check", user |-> u, token |-> t, late |-> FALSE]
               PROVE  PInv'
    OBVIOUS
  <2>1. token[t] # NoSession /\ req' = [req EXCEPT ![w] = x] /\ token' = token /\ user' = user
    BY <1>2 DEF RefreshDecode
  <2>2. x.op = "check" /\ x.user = u
    OBVIOUS
  <2>3. u \in Watched
    BY <2>1 DEF PInv, Past, SessionsArePast
  <2>4. Steps({w}, x) /\ Plain
    BY <1>0, <2>1, RequestsOfOthers DEF Plain
  <2> QED
    BY <2>2, <2>3, <2>4, PlainStep
<1>5. CASE RefreshCheck(w)
  <2>1. r.op = "check" /\ token' = token /\ user' = user
    BY <1>5 DEF RefreshCheck
  <2>2. /\ r.token \in Tokens /\ token[r.token] # NoSession /\ token[r.token].user = r.user
        /\ r \in [op: {"check", "consume", "refresh"}, user: Users, token: Tokens, late: BOOLEAN]
    BY <1>0, <1>1, <2>1 DEF ATypes, Presented, Request, Idle
  <2>3. CASE req' = [req EXCEPT ![w] = Idle]
    <3>1. Steps({w}, Idle) /\ Plain
      BY <1>0, <2>1, <2>3, RequestsOfOthers DEF Plain
    <3> QED
      BY <3>1, IdleSteps
  <2>4. CASE req' # [req EXCEPT ![w] = Idle]
    <3>a. req[w].late \in BOOLEAN
      BY <2>2
    <3> SUFFICES ASSUME NEW late \in BOOLEAN, NEW x, x = [r EXCEPT !.op = "consume", !.late = late],
                        req' = [req EXCEPT ![w] = x], ~RevokedAt(r.user, token[r.token].iat),
                        ~late => ~(now >= Expiry(r.token))
                 PROVE  PInv'
      <4>1. \E late \in BOOLEAN : \E x :
              /\ x = [req[w] EXCEPT !.op = "consume", !.late = late]
              /\ req' = [req EXCEPT ![w] = x]
              /\ ~RevokedAt(req[w].user, token[req[w].token].iat)
              /\ ~late => ~(now >= Expiry(req[w].token))
        BY <1>5, <2>4, <3>a, CheckedRequest
      <4> QED
        BY <4>1
    <3> SUFFICES ASSUME NEW t \in Tokens, t = r.token, NEW u, u = r.user PROVE PInv'
      BY <2>2
    <3>1. x.op = "consume" /\ x.user = u /\ x.token = t /\ x.late = late
      BY <2>2
    <3>2. u \in Watched
      BY <2>1 DEF PInv, Past, RequestsAreWatched
    <3>3. ~late => ~Ended(t)
      BY <2>2 DEF Ended, Expiry
    <3>4. ~late /\ ~token[t].late => token[t].password = user[u].password
      BY <2>2, <3>2, <3>3 DEF PInv, OldHaveEnded, Followed
    <3>5. Steps({w}, x) /\ Plain
      BY <1>0, <2>1, RequestsOfOthers DEF Plain
    <3> QED
      BY <3>1, <3>2, <3>4, <3>5, PlainStep
  <2> QED
    BY <2>3, <2>4
<1>3. CASE Consume(w)
  <2>1. r.op = "consume" /\ token' = token /\ user' = user
    BY <1>3 DEF Consume
  <2> SUFFICES ASSUME NEW x, x = [r EXCEPT !.op = "refresh"] PROVE PInv'
    OBVIOUS
  <2>2. CASE req' = [req EXCEPT ![w] = Idle]
    <3>1. Steps({w}, Idle) /\ Plain
      BY <1>0, <2>1, <2>2, RequestsOfOthers DEF Plain
    <3> QED
      BY <3>1, IdleSteps
  <2>3. CASE req' = [req EXCEPT ![w] = x]
    <3>1. r \in [op: {"check", "consume", "refresh"}, user: Users, token: Tokens, late: BOOLEAN]
      BY <1>1, <2>1 DEF Request, Idle
    <3>2. x.op = "refresh" /\ x.user = r.user /\ x.token = r.token /\ x.late = r.late
      BY <3>1
    <3>3. Steps({w}, x) /\ Plain
      BY <1>0, <2>1, <2>3, RequestsOfOthers DEF Plain
    <3>4. r.user \in Watched
      BY <2>1 DEF PInv, Past, RequestsAreWatched
    <3>5. ~r.late /\ ~token[r.token].late => token[r.token].password = user[r.user].password
      BY <2>1 DEF PInv, RequestsAreCurrent
    <3> QED
      BY <3>2, <3>3, <3>4, <3>5, PlainStep
  <2> QED
    BY <1>3, <2>2, <2>3 DEF Consume
<1>4. CASE RefreshIssue(w)
  <2>1. r.op = "refresh" /\ req' = [req EXCEPT ![w] = Idle] /\ user' = user
    BY <1>4 DEF RefreshIssue
  <2>2. /\ r.user \in Users /\ r.token \in Tokens /\ r.late \in BOOLEAN
        /\ token[r.token] # NoSession
    BY <1>0, <1>1, <2>1, RequestHas DEF ATypes, Presented
  <2>3. token[r.token].password \in 0..MaxChanges /\ token[r.token].late \in BOOLEAN
    BY <1>0, <2>2, SessionHas
  <2> SUFFICES ASSUME NEW u \in Users, u = r.user,
                      NEW password \in 0..MaxChanges, password = token[r.token].password,
                      NEW late \in BOOLEAN, late = token[r.token].late
               PROVE  PInv'
    BY <2>2, <2>3
  <2>4. CASE token' = token
    <3>1. Steps({w}, Idle) /\ Plain
      BY <1>0, <2>1, <2>4, RequestsOfOthers DEF Plain
    <3> QED
      BY <3>1, IdleSteps
  <2>5. CASE Open(w, u, password, late)
    <3>1. u \in Watched
      BY <2>1 DEF PInv, Past, RequestsAreWatched
    <3>2. ~late /\ ~req[w].late => password = user[u].password
      BY <2>1 DEF PInv, RequestsAreCurrent
    <3> QED
      BY <2>1, <2>2, <2>5, <3>1, <3>2, OpenStep
  <2> QED
    BY <1>4, <2>4, <2>5 DEF RefreshIssue
<1> QED
  BY <1>2, <1>3, <1>4, <1>5

\* A change of password is committed after every session of the user has ended,
\* and the requests that are in progress are late.
LEMMA PasswordStep ==
  ASSUME PInv, [Next]_vars, NEW w \in Workers, PasswordCommit(w)
  PROVE  PInv'
<1>0. ATypes /\ TypeOK /\ ATypes'
  BY NextTypes DEF PInv, Past, ATypes
<1> SUFFICES ASSUME NEW u, u = req[w].user PROVE PInv'
  OBVIOUS
<1>1. PICK version \in 1..MaxChanges : user' = [user EXCEPT ![u].password = version]
  BY DEF PasswordCommit
<1>2. /\ req[w].op = "password" /\ req[w].revoked /\ req' = [Outdated(u) EXCEPT ![w] = Idle]
      /\ token' = token /\ now' = now /\ revoked' = revoked
  BY DEF PasswordCommit
<1>3. /\ Steps({w}, Idle) /\ Idle.op = "idle"
      /\ \A v \in Workers : req'[v].op \in {"login", "check", "consume", "refresh"} /\ req'[v].user = u
                              => req'[v].late
  BY <1>0, <1>2, OutdatedContinue DEF Idle
<1>4. \A v \in Users : v # u => user'[v].password = user[v].password
  BY <1>0, <1>1 DEF TypeOK
<1>5. SessionsArePast'
  BY <1>2 DEF PInv, Past, SessionsArePast
<1>6. RequestsAreWatched'
  BY <1>3 DEF Steps, Continues, PInv, Past, RequestsAreWatched
<1>7. OldHaveEnded'
  <2> SUFFICES ASSUME NEW v \in Watched, NEW k \in Tokens, token[k] # NoSession, token[k].user = v,
                      ~token[k].late, token[k].password # user'[v].password
               PROVE  Ended(k)'
    BY <1>2 DEF OldHaveEnded, Followed
  <2>1. CASE v = u
    BY <1>2, <2>1, EndedStays DEF PInv, RevokedHaveEnded, Followed
  <2>2. CASE v # u
    BY <1>4, <2>2, EndedStays, AdminsAreUsers DEF PInv, OldHaveEnded, Followed
  <2> QED
    BY <2>1, <2>2
<1>8. RevokedHaveEnded'
  <2> SUFFICES ASSUME NEW v \in Workers, req'[v].op = "password", req'[v].revoked,
                      NEW k \in Tokens, token[k] # NoSession, token[k].user = req'[v].user,
                      ~token[k].late
               PROVE  Ended(k)'
    BY <1>2 DEF RevokedHaveEnded, Followed
  <2>1. v # w /\ req'[v] = req[v]
    BY <1>3 DEF Steps, Continues
  <2> QED
    BY <2>1, EndedStays DEF PInv, RevokedHaveEnded, Followed
<1>9. RequestsAreCurrent'
  <2> SUFFICES ASSUME NEW v \in Workers
               PROVE  /\ req'[v].op = "login" /\ ~req'[v].late =>
                           req'[v].password = user'[req'[v].user].password
                      /\ req'[v].op \in {"consume", "refresh"} /\ ~req'[v].late
                           /\ ~token'[req'[v].token].late =>
                           token'[req'[v].token].password = user'[req'[v].user].password
    BY DEF RequestsAreCurrent
  <2>1. CASE v = w
    BY <1>3, <2>1 DEF Steps
  <2>2. CASE v # w /\ req'[v] = req[v]
    <3>1. req[v].op \in {"login", "check", "consume", "refresh"} => req[v].user \in Users
      BY AdminsAreUsers DEF PInv, Past, RequestsAreWatched
    <3>2. req[v].op \in {"login", "check", "consume", "refresh"} /\ ~req[v].late => req[v].user # u
      BY <1>3, <2>2
    <3>3. req[v].op \in {"login", "check", "consume", "refresh"} /\ ~req[v].late
            => user'[req[v].user].password = user[req[v].user].password
      BY <1>4, <3>1, <3>2
    <3>4. token' = token
      BY <1>2
    <3> QED
      BY <2>2, <3>3, <3>4 DEF PInv, RequestsAreCurrent
  <2>3. CASE v # w /\ req'[v] # req[v]
    BY <1>3, <2>3 DEF Steps, Continues
  <2> QED
    BY <2>1, <2>2, <2>3
<1> QED
  BY <1>0, <1>5, <1>6, <1>7, <1>8, <1>9 DEF PInv, Past

LEMMA RemovalSteps ==
  ASSUME PInv, [Next]_vars, NEW w \in Workers,
         \/ \E u \in Users : ChangePassword(w, u)
         \/ \E actor, u \in Users : Erase(w, actor, u) \/ Delete(w, actor, u)
         \/ Revoke(w) \/ EraseCommit(w) \/ DeleteCommit(w) \/ Fail(w)
  PROVE  PInv'
<1>0. ATypes /\ TypeOK
  BY DEF PInv, Past, ATypes
<1> SUFFICES ASSUME NEW r, r = req[w] PROVE PInv'
  OBVIOUS
<1>1. r \in Request \union {Idle}
  BY <1>0 DEF TypeOK
<1>2. ASSUME NEW x, req' = [req EXCEPT ![w] = x], token' = token, user' = user,
             x.op \in {"password", "erase", "delete"}, x.op = "password" => ~x.revoked
      PROVE  PInv'
  <2>1. Steps({w}, x) /\ Plain
    BY <1>0, <1>2, RequestsOfOthers DEF Plain
  <2> QED
    BY <1>2, <2>1, PlainStep
<1>3. ASSUME NEW u \in Users, ChangePassword(w, u) PROVE PInv'
  <2> SUFFICES ASSUME NEW x, x = [op |-> "password", user |-> u, revoked |-> FALSE] PROVE PInv'
    OBVIOUS
  <2>1. req' = [req EXCEPT ![w] = x] /\ token' = token /\ user' = user
    BY <1>3 DEF ChangePassword
  <2> QED
    BY <1>2, <2>1
<1>4. ASSUME NEW actor \in Users, NEW u \in Users, Erase(w, actor, u) PROVE PInv'
  <2> SUFFICES ASSUME NEW row, row = Read(u),
                      NEW x, x = [op |-> "erase", user |-> u, row |-> row, revoked |-> FALSE]
               PROVE  PInv'
    OBVIOUS
  <2>1. req' = [req EXCEPT ![w] = x] /\ token' = token /\ user' = user
    BY <1>4 DEF Erase
  <2> QED
    BY <1>2, <2>1
<1>5. ASSUME NEW actor \in Users, NEW u \in Users, Delete(w, actor, u) PROVE PInv'
  <2> SUFFICES ASSUME NEW x, x = [op |-> "delete", user |-> u] PROVE PInv'
    OBVIOUS
  <2>1. req' = [req EXCEPT ![w] = x] /\ token' = token /\ user' = user
    BY <1>5 DEF Delete
  <2> QED
    BY <1>2, <2>1
<1>6. CASE Revoke(w)
  <2> SUFFICES ASSUME NEW x, x = [r EXCEPT !.revoked = TRUE] PROVE PInv'
    OBVIOUS
  <2>1. req' = [req EXCEPT ![w] = x] /\ token' = token /\ user' = user
    BY <1>6 DEF Revoke
  <2>2. r \in [op: {"password"}, user: Users, revoked: BOOLEAN]
              \union [op: {"erase"}, user: Users, row: Columns, revoked: BOOLEAN]
    BY <1>1, <1>6 DEF Revoke, Request, Idle
  <2>3. x.op \in {"password", "erase"} /\ x.user = r.user
    BY <2>2
  <2>4. \A t \in Followed(x.user) : Ended(t)'
    BY <1>6, <2>3, RevokedEnd DEF PInv, Followed
  <2>5. Steps({w}, x) /\ Plain
    BY <1>0, <2>1, RequestsOfOthers DEF Plain
  <2> QED
    BY <2>3, <2>4, <2>5, PlainStep
<1>7. CASE EraseCommit(w)
  <2>1. r.user \in Users /\ r.row \in Columns
    BY <1>1, <1>7, RequestHas DEF EraseCommit
  <2> SUFFICES ASSUME NEW u \in Users, u = r.user, NEW row \in Columns, row = r.row,
                      NEW new, new = Cleared(row), NEW stored, stored = user[u],
                      NEW y, y = Changed(stored, row, new),
                      NEW z, z = [y EXCEPT !.active = FALSE, !.erased = TRUE]
               PROVE  PInv'
    BY <2>1
  <2>2. user' = [user EXCEPT ![u] = z] /\ req' = [Outdated(u) EXCEPT ![w] = Idle] /\ token' = token
    BY <1>7 DEF EraseCommit
  <2>3. new \in Columns /\ stored \in Account
    BY <1>0, ColumnsOfRows DEF TypeOK
  <2>4. y \in Account /\ y.password = stored.password
    BY <2>3, ChangedIsAccount
  <2>5. z.password = stored.password
    BY <2>4 DEF Account
  <2>6. Steps({w}, Idle) /\ Plain
    BY <1>0, <2>2, <2>5, OutdatedContinue, ChangedIsPlain
  <2> QED
    BY <2>6, IdleSteps
<1>8. CASE DeleteCommit(w)
  <2>1. user' = [user EXCEPT ![r.user].active = FALSE] /\ req' = [req EXCEPT ![w] = Idle] /\ token' = token
    BY <1>8 DEF DeleteCommit
  <2>2. \A u \in Users : user'[u].password = user[u].password
    BY <1>0, <2>1 DEF TypeOK, Account
  <2>3. Steps({w}, Idle) /\ Plain
    BY <1>0, <2>1, <2>2, RequestsOfOthers DEF Plain
  <2> QED
    BY <2>3, IdleSteps
<1>9. CASE Fail(w)
  <2>1. Steps({w}, Idle) /\ Plain
    BY <1>0, <1>9, RequestsOfOthers DEF Fail, Plain
  <2> QED
    BY <2>1, IdleSteps
<1> QED
  BY <1>3, <1>4, <1>5, <1>6, <1>7, <1>8, <1>9

LEMMA PasswordsHold == Spec => []PInv
<1>1. Init => PInv
  <2> SUFFICES ASSUME Init PROVE PInv
    OBVIOUS
  <2>1. \A t \in Tokens : token[t] = NoSession
    BY DEF Init
  <2>2. \A w \in Workers : req[w].op = "idle"
    BY DEF Init, Idle
  <2>3. SessionsArePast /\ OldHaveEnded
    BY <2>1 DEF SessionsArePast, OldHaveEnded, Followed
  <2>4. RequestsAreWatched /\ RevokedHaveEnded /\ RequestsAreCurrent
    BY <2>2 DEF RequestsAreWatched, RevokedHaveEnded, RequestsAreCurrent
  <2> QED
    BY <2>3, <2>4, InitTypes DEF PInv, Past
<1>2. PInv /\ [Next]_vars => PInv'
  <2> SUFFICES ASSUME PInv, [Next]_vars PROVE PInv'
    OBVIOUS
  <2>1. CASE Tick \/ UNCHANGED vars
    <3>1. Steps({}, Idle) /\ Plain
      BY <2>1 DEF Tick, vars, Steps, Continues, Plain
    <3> QED
      BY <3>1, IdleSteps
  <2> QED
    BY <2>1, LoginPlain, LoginOpens, RefreshSteps, PasswordStep, RemovalSteps DEF Next, Serve
<1> QED
  BY <1>1, <1>2, PTL DEF Spec

\* A session opened on an earlier password is refused, in the instant of the
\* change, later, and after Redis has forgotten the instant.
THEOREM OldSessionsEnd == Spec => []PasswordEndsSessions
<1>1. PInv => PasswordEndsSessions
  <2> SUFFICES ASSUME PInv, NEW t \in Tokens, token[t] # NoSession, Accepted(t), ~token[t].late
               PROVE  token[t].password = user[token[t].user].password
    BY DEF PasswordEndsSessions
  <2>1. now \in Nat /\ token[t].iat + TokenTTL \in Nat
    BY SessionHas, PeriodsAreTimes, BoundsAreNaturals DEF PInv, Past, ATypes, TypeOK
  <2>2. ~Ended(t)
    BY <2>1 DEF Ended, Accepted, Expiry
  <2>3. t \in Followed(token[t].user) /\ token[t].user \in Watched
    BY DEF Followed, PInv, Past, SessionsArePast
  <2> QED
    BY <2>2, <2>3 DEF PInv, OldHaveEnded
<1> QED
  BY <1>1, PasswordsHold, PTL


-----------------------------------------------------------------------------
(* Locks.  A commit writes the end of a lock only if the session changed    *)
(* it, so one that read no lock leaves the lock that another has set.       *)

UnlockedBy(u) == \E w \in Workers : req[w].op = "login" /\ req[w].user = u /\ req[w].row.locked # 0

LEMMA LocksKept ==
  ASSUME ATypes, [Next]_vars, now' = now, NEW u \in Users, user[u].locked > now, user'[u].locked <= now
  PROVE  user'[u].erased \/ UnlockedBy(u)
<1>0. TypeOK
  BY DEF ATypes
<1>1. now \in Nat /\ user[u] \in Account
  BY <1>0, BoundsAreNaturals DEF TypeOK
<1>2. user'[u].locked # user[u].locked
  BY <1>1 DEF Account
<1>3. ASSUME NEW w \in Workers, NEW r, r = req[w], r.op = "login", NEW new, new \in Columns,
             user' = [user EXCEPT ![r.user] = Changed(user[r.user], r.row, new)],
             new.locked \in {0, r.row.locked, now + LOCKOUT_DURATION}
      PROVE  UnlockedBy(u)
  <2>1. r.user \in Users /\ r.row \in Columns
    BY <1>0, <1>3, RequestHas DEF TypeOK
  <2> SUFFICES ASSUME NEW row \in Columns, row = r.row, NEW stored, stored = user[u],
                      NEW y, y = Changed(stored, row, new)
               PROVE  UnlockedBy(u)
    BY <2>1
  <2>2. u = r.user
    BY <1>0, <1>2, <1>3, <2>1 DEF TypeOK
  <2>3. user'[u] = y
    BY <1>0, <1>3, <2>2 DEF TypeOK
  <2>4. y.locked = IF new.locked # row.locked THEN new.locked ELSE stored.locked
    BY <1>1, <1>3, ChangedIsAccount
  <2>5. new.locked # row.locked /\ new.locked <= now
    BY <1>2, <2>3, <2>4
  <2>6. new.locked = 0
    BY <1>1, <1>3, <2>5, PeriodsAreTimes
  <2> QED
    BY <1>3, <2>2, <2>5, <2>6 DEF UnlockedBy
<1>4. ASSUME NEW w \in Workers, LoginFails(w) PROVE UnlockedBy(u)
  <2> SUFFICES ASSUME NEW r, r = req[w], NEW row, row = r.row, NEW new, new = Counted(row)
               PROVE  UnlockedBy(u)
    OBVIOUS
  <2>1. r.op = "login" /\ row.failed < MaxFailed
        /\ user' = [user EXCEPT ![r.user] = Changed(user[r.user], r.row, new)]
    BY <1>4 DEF LoginFails
  <2>2. row \in Columns
    BY <1>0, <2>1, RequestHas DEF TypeOK
  <2>3. new \in Columns /\ new.locked \in {row.locked, now + LOCKOUT_DURATION}
    BY <1>0, <2>1, <2>2, ColumnsOfRows
  <2> QED
    BY <1>3, <2>1, <2>3
<1>5. ASSUME NEW w \in Workers, LoginSucceeds(w) PROVE UnlockedBy(u)
  <2> SUFFICES ASSUME NEW r, r = req[w], NEW row, row = r.row, NEW new, new = Cleared(row)
               PROVE  UnlockedBy(u)
    OBVIOUS
  <2>1. r.op = "login" /\ user' = [user EXCEPT ![r.user] = Changed(user[r.user], r.row, new)]
    BY <1>5 DEF LoginSucceeds
  <2>2. row \in Columns
    BY <1>0, <2>1, RequestHas DEF TypeOK
  <2>3. new \in Columns /\ new.locked = 0
    BY <1>0, <2>2, ColumnsOfRows
  <2> QED
    BY <1>3, <2>1, <2>3
<1>6. ASSUME NEW w \in Workers, EraseCommit(w) PROVE user'[u].erased
  <2> SUFFICES ASSUME NEW r, r = req[w], NEW y, y = Changed(user[r.user], r.row, Cleared(r.row)),
                      NEW z, z = [y EXCEPT !.active = FALSE, !.erased = TRUE]
               PROVE  user'[u].erased
    OBVIOUS
  <2>1. r.op = "erase" /\ user' = [user EXCEPT ![r.user] = z]
    BY <1>6 DEF EraseCommit
  <2>2. r.user \in Users /\ r.row \in Columns
    BY <1>0, <2>1, RequestHas DEF TypeOK
  <2>3. u = r.user
    BY <1>0, <1>2, <2>1, <2>2 DEF TypeOK
  <2>4. y \in Account
    <3> SUFFICES ASSUME NEW row \in Columns, row = r.row, NEW new, new = Cleared(row),
                        NEW stored, stored = user[u]
                 PROVE  Changed(stored, row, new) \in Account
      BY <2>2, <2>3
    <3> QED
      BY <1>0, <1>1, ColumnsOfRows, ChangedIsAccount
  <2>5. z.erased
    BY <2>4 DEF Account
  <2> QED
    BY <1>0, <2>1, <2>2, <2>3, <2>5 DEF TypeOK
<1>7. ASSUME NEW w \in Workers, PasswordCommit(w) PROVE FALSE
  BY <1>0, <1>2, <1>7 DEF PasswordCommit, TypeOK, Account
<1>8. ASSUME NEW w \in Workers, DeleteCommit(w) PROVE FALSE
  BY <1>0, <1>2, <1>8 DEF DeleteCommit, TypeOK, Account
<1>9. \/ \E w \in Workers : LoginFails(w) \/ LoginSucceeds(w) \/ EraseCommit(w) \/ PasswordCommit(w)
                            \/ DeleteCommit(w)
      \/ user' = user
  BY DEF Next, Serve, Login, LoginLocked, RefreshDecode, RefreshCheck, Consume, RefreshIssue, ChangePassword, Erase,
         Delete, Revoke, Fail, Tick, vars
<1> QED
  BY <1>2, <1>4, <1>5, <1>6, <1>7, <1>8, <1>9

\* A lock outlasts the requests that read the account before it was set.
THEOREM LocksAreKept == Spec => LockIsKept
<1>1. ATypes /\ [Next]_vars =>
        [\A u \in Users :
           user[u].locked > now /\ user'[u].locked <= now /\ now' = now =>
             \/ user'[u].erased
             \/ \E w \in Workers : req[w].op = "login" /\ req[w].user = u /\ req[w].row.locked # 0]_vars
  BY LocksKept DEF UnlockedBy
<1> QED
  BY <1>1, TypesHold, PTL DEF Spec, LockIsKept

-----------------------------------------------------------------------------
(* Administrators.  While one removal is in progress at a time, it leaves   *)
(* an active administrator who is not the one it removes.                   *)

Removes(w) == req[w].op \in {"erase", "delete"}
Spared(w) == \E a \in Admins : user[a].active /\ a # req[w].user

OneRemoval == contested \/ \A v, w \in Workers : Removes(v) /\ Removes(w) => v = w
RemovalsSpare == contested \/ \A w \in Workers : Removes(w) => Spared(w)

AInv == ATypes /\ AdminRemains /\ OneRemoval /\ RemovalsSpare

\* Who is signed in is active.
LEMMA SignedInIsActive ==
  ASSUME NEW u, SignedIn(u)
  PROVE  user[u].active
BY DEF SignedIn, Accepted

\* A step that deactivates nobody.
LEMMA ActiveStep ==
  ASSUME AInv, [Next]_vars, \A u \in Admins : user[u].active => user'[u].active,
         contested => contested',
         ~contested' => \A w \in Workers : Removes(w)' =>
           \/ Removes(w) /\ req'[w].user = req[w].user
           \/ (\A v \in Workers \ {w} : ~Removes(v)') /\ Spared(w)'
  PROVE  AInv'
<1>1. AdminRemains'
  BY DEF AInv, AdminRemains
<1>2. OneRemoval'
  BY DEF AInv, OneRemoval
<1>3. RemovalsSpare'
  BY DEF AInv, RemovalsSpare, Spared
<1> QED
  BY <1>1, <1>2, <1>3, NextTypes DEF AInv

\* A removal begins.
LEMMA RemovalBegins ==
  ASSUME AInv, [Next]_vars, NEW w \in Workers, NEW x, req' = [req EXCEPT ![w] = x],
         user' = user, req[w] = Idle, contested \/ Removing => contested',
         contested \/ \E a \in Admins : user[a].active /\ a # x.user
  PROVE  AInv'
<1>1. \A v \in Workers : req'[v] = IF v = w THEN x ELSE req[v]
  BY DEF AInv, ATypes, TypeOK
<1>2. ~Removes(w)
  BY DEF Removes, Idle
<1>3. ~contested' => \A v \in Workers : ~Removes(v)
  BY DEF Removing, Removes
<1>4. ~contested' => Spared(w)'
  BY <1>1 DEF Spared
<1>5. \A v \in Workers \ {w} : Removes(v)' = Removes(v)
  BY <1>1 DEF Removes
<1>6. ~contested' => \A v \in Workers : Removes(v)' =>
         v = w /\ (\A k \in Workers \ {w} : ~Removes(k)') /\ Spared(w)'
  BY <1>3, <1>4, <1>5
<1> QED
  BY <1>6, ActiveStep

\* A removal is committed: the others are not in progress, or it is contested.
LEMMA RemovalCommits ==
  ASSUME AInv, [Next]_vars, NEW w \in Workers, Removes(w), contested' = contested,
         \A u \in Users : u # req[w].user => user'[u].active = user[u].active,
         ~Removes(w)', \A v \in Workers : Removes(v)' => Removes(v)
  PROVE  AInv'
<1>1. ~contested => \E a \in Admins : user[a].active /\ a # req[w].user
  BY DEF AInv, RemovalsSpare, Spared
<1>2. AdminRemains'
  BY <1>1, AdminsAreUsers DEF AdminRemains
<1>3. ~contested => \A v \in Workers : ~Removes(v)'
  BY DEF AInv, OneRemoval
<1>4. OneRemoval' /\ RemovalsSpare'
  BY <1>3 DEF OneRemoval, RemovalsSpare
<1> QED
  BY <1>2, <1>4, NextTypes DEF AInv


\* A step of a request that is, and becomes, no removal, or goes on with one.
LEMMA OtherSteps ==
  ASSUME AInv, [Next]_vars, NEW W \in SUBSET Workers, NEW x, Steps(W, x), contested' = contested,
         \A u \in Admins : user[u].active => user'[u].active,
         \A w \in W : x.op \in {"erase", "delete"} => Removes(w) /\ req[w].user = x.user
  PROVE  AInv'
<1>1. ASSUME NEW v \in Workers, Removes(v)' PROVE Removes(v) /\ req'[v].user = req[v].user
  <2>1. CASE v \in W
    BY <1>1, <2>1 DEF Steps, Removes
  <2>2. CASE v \notin W
    BY <1>1, <2>2 DEF Steps, Continues, Removes
  <2> QED
    BY <2>1, <2>2
<1> QED
  BY <1>1, ActiveStep

LEMMA ErasureSpares ==
  ASSUME AInv, NEW u, Erasable(u)
  PROVE  contested \/ \E a \in Admins : user[a].active /\ a # u
<1>1. CASE u \in Admins /\ user[u].active
  <2> DEFINE S == {a \in Admins : user[a].active}
  <2>1. Cardinality(S) > 1
    BY <1>1 DEF Erasable
  <2>2. u \in S
    BY <1>1
  <2>3. S # {u}
    <3>1. Cardinality({u}) = 1
      BY FS_Singleton
    <3> HIDE DEF S
    <3> QED
      BY <2>1, <3>1
  <2> QED
    BY <2>2, <2>3
<1>2. CASE ~(u \in Admins /\ user[u].active)
  BY <1>2 DEF AInv, AdminRemains
<1> QED
  BY <1>1, <1>2

\* What the requests for sessions make of the accounts: nobody is deactivated.
LEMMA SessionsDeactivateNobody ==
  ASSUME TypeOK, NEW w \in Workers, LoginFails(w) \/ LoginSucceeds(w)
  PROVE  \A u \in Users : user'[u].active = user[u].active
<1> SUFFICES ASSUME NEW r, r = req[w], NEW row, row = r.row
             PROVE  \A u \in Users : user'[u].active = user[u].active
  OBVIOUS
<1>1. r.op = "login" /\ r.user \in Users /\ row \in Columns
  BY RequestHas DEF LoginFails, LoginSucceeds, TypeOK
<1>2. ASSUME NEW new \in Columns, NEW stored, stored = user[r.user], NEW y, y = Changed(stored, row, new),
             user' = [user EXCEPT ![r.user] = y]
      PROVE  \A u \in Users : user'[u].active = user[u].active
  <2>1. stored \in Account
    BY <1>1, <1>2 DEF TypeOK
  <2>2. y.active = stored.active
    BY <1>1, <1>2, <2>1, ChangedIsAccount
  <2> QED
    BY <1>1, <1>2, <2>2 DEF TypeOK
<1>3. CASE LoginFails(w)
  <2> SUFFICES ASSUME NEW new, new = Counted(row) PROVE \A u \in Users : user'[u].active = user[u].active
    OBVIOUS
  <2>1. row.failed < MaxFailed /\ user' = [user EXCEPT ![r.user] = Changed(user[r.user], row, new)]
    BY <1>3 DEF LoginFails
  <2>2. new \in Columns
    BY <1>1, <2>1, ColumnsOfRows
  <2> QED
    BY <1>2, <2>1, <2>2
<1>4. CASE LoginSucceeds(w)
  <2> SUFFICES ASSUME NEW new, new = Cleared(row) PROVE \A u \in Users : user'[u].active = user[u].active
    OBVIOUS
  <2>1. user' = [user EXCEPT ![r.user] = Changed(user[r.user], row, new)]
    BY <1>4 DEF LoginSucceeds
  <2>2. new \in Columns
    BY <1>1, ColumnsOfRows
  <2> QED
    BY <1>2, <2>1, <2>2
<1> QED
  BY <1>3, <1>4

LEMMA AdminSteps ==
  ASSUME AInv, [Next]_vars, NEW w \in Workers,
         \/ Serve(w)
         \/ \E u \in Users : \E right \in BOOLEAN : Login(w, u, right)
         \/ \E t \in Tokens : RefreshDecode(w, t)
         \/ \E u \in Users : ChangePassword(w, u)
         \/ \E actor, u \in Users : Erase(w, actor, u) \/ Delete(w, actor, u)
  PROVE  AInv'
<1>0. ATypes /\ TypeOK
  BY DEF AInv, ATypes
<1> SUFFICES ASSUME NEW r, r = req[w] PROVE AInv'
  OBVIOUS
<1>1. r \in Request \union {Idle} /\ Idle.op = "idle"
  BY <1>0 DEF TypeOK, Idle
<1>2. ASSUME NEW x, req' = [req EXCEPT ![w] = x], contested' = contested,
             \A u \in Admins : user[u].active => user'[u].active,
             x.op \in {"erase", "delete"} => Removes(w) /\ req[w].user = x.user
      PROVE  AInv'
  <2>1. Steps({w}, x)
    BY <1>0, <1>2, RequestsOfOthers
  <2> QED
    BY <1>2, <2>1, OtherSteps
<1>3. ASSUME req' = [req EXCEPT ![w] = Idle], contested' = contested,
             \A u \in Admins : user[u].active => user'[u].active
      PROVE  AInv'
  BY <1>1, <1>2, <1>3
<1>4. CASE LoginLocked(w) \/ RefreshIssue(w) \/ Fail(w)
  BY <1>3, <1>4 DEF LoginLocked, RefreshIssue, Fail
<1>5. CASE LoginFails(w) \/ LoginSucceeds(w)
  <2>1. req' = [req EXCEPT ![w] = Idle] /\ contested' = contested
    BY <1>5 DEF LoginFails, LoginSucceeds
  <2>2. \A u \in Users : user'[u].active = user[u].active
    BY <1>0, <1>5, SessionsDeactivateNobody
  <2> QED
    BY <1>3, <2>1, <2>2, AdminsAreUsers
<1>6. CASE Consume(w)
  <2> SUFFICES ASSUME NEW x, x = [r EXCEPT !.op = "refresh"] PROVE AInv'
    OBVIOUS
  <2>1. r \in [op: {"check", "consume", "refresh"}, user: Users, token: Tokens, late: BOOLEAN]
    BY <1>1, <1>6 DEF Consume, Request, Idle
  <2>2. x.op = "refresh"
    BY <2>1
  <2>3. /\ req' = [req EXCEPT ![w] = Idle] \/ req' = [req EXCEPT ![w] = x]
        /\ contested' = contested /\ user' = user
    BY <1>6 DEF Consume
  <2> QED
    BY <1>2, <1>3, <2>2, <2>3
<1>7. CASE Revoke(w)
  <2> SUFFICES ASSUME NEW x, x = [r EXCEPT !.revoked = TRUE] PROVE AInv'
    OBVIOUS
  <2>1. r \in [op: {"password"}, user: Users, revoked: BOOLEAN]
              \union [op: {"erase"}, user: Users, row: Columns, revoked: BOOLEAN]
    BY <1>1, <1>7 DEF Revoke, Request, Idle
  <2>2. x.op = r.op /\ x.user = r.user
    BY <2>1
  <2>3. req' = [req EXCEPT ![w] = x] /\ contested' = contested /\ user' = user
    BY <1>7 DEF Revoke
  <2> QED
    BY <1>2, <2>2, <2>3 DEF Removes
<1>8. CASE PasswordCommit(w)
  <2> SUFFICES ASSUME NEW u, u = r.user PROVE AInv'
    OBVIOUS
  <2>1. req' = [Outdated(u) EXCEPT ![w] = Idle] /\ contested' = contested
        /\ \E version \in 1..MaxChanges : user' = [user EXCEPT ![u].password = version]
    BY <1>8 DEF PasswordCommit
  <2>2. \A k \in Users : user'[k].active = user[k].active
    BY <1>0, <2>1 DEF TypeOK, Account
  <2>3. Steps({w}, Idle)
    BY <1>0, <2>1, OutdatedContinue
  <2> QED
    BY <1>1, <2>1, <2>2, <2>3, OtherSteps, AdminsAreUsers
<1>9. CASE EraseCommit(w)
  <2> SUFFICES ASSUME NEW u, u = r.user, NEW z, user' = [user EXCEPT ![u] = z] PROVE AInv'
    BY <1>9 DEF EraseCommit
  <2>1. req' = [Outdated(u) EXCEPT ![w] = Idle] /\ contested' = contested /\ Removes(w)
    BY <1>9 DEF EraseCommit, Removes
  <2>2. \A k \in Users : k # u => user'[k].active = user[k].active
    BY <1>0 DEF TypeOK
  <2>3. Steps({w}, Idle)
    BY <1>0, <2>1, OutdatedContinue
  <2>4. ~Removes(w)' /\ \A v \in Workers : Removes(v)' => Removes(v)
    BY <1>1, <2>3 DEF Steps, Continues, Removes
  <2> QED
    BY <2>1, <2>2, <2>4, RemovalCommits
<1>10. CASE DeleteCommit(w)
  <2>1. req' = [req EXCEPT ![w] = Idle] /\ contested' = contested /\ Removes(w)
        /\ user' = [user EXCEPT ![r.user].active = FALSE]
    BY <1>10 DEF DeleteCommit, Removes
  <2>2. \A k \in Users : k # r.user => user'[k].active = user[k].active
    BY <1>0, <2>1 DEF TypeOK
  <2>3. Steps({w}, Idle)
    BY <1>0, <2>1, RequestsOfOthers
  <2>4. ~Removes(w)' /\ \A v \in Workers : Removes(v)' => Removes(v)
    BY <1>1, <2>3 DEF Steps, Continues, Removes
  <2> QED
    BY <2>1, <2>2, <2>4, RemovalCommits
<1>11. ASSUME NEW u \in Users, NEW right \in BOOLEAN, Login(w, u, right) PROVE AInv'
  <2> SUFFICES ASSUME NEW x, req' = [req EXCEPT ![w] = x], x.op = "login" PROVE AInv'
    BY <1>11 DEF Login
  <2> QED
    BY <1>2, <1>11 DEF Login
<1>12. ASSUME NEW t \in Tokens, RefreshDecode(w, t) PROVE AInv'
  <2> SUFFICES ASSUME NEW x, req' = [req EXCEPT ![w] = x], x.op = "check" PROVE AInv'
    BY <1>12 DEF RefreshDecode
  <2> QED
    BY <1>2, <1>12 DEF RefreshDecode
<1>16. CASE RefreshCheck(w)
  <2>1. r.op = "check" /\ user' = user /\ contested' = contested
    BY <1>16 DEF RefreshCheck
  <2>2. r \in [op: {"check", "consume", "refresh"}, user: Users, token: Tokens, late: BOOLEAN]
    BY <1>1, <2>1 DEF Request, Idle
  <2> SUFFICES ASSUME NEW late \in BOOLEAN, NEW x, x = [r EXCEPT !.op = "consume", !.late = late],
                      req' = [req EXCEPT ![w] = Idle] \/ req' = [req EXCEPT ![w] = x]
               PROVE  AInv'
    BY <1>16, <2>2, CheckedRequest
  <2>3. x.op = "consume"
    BY <2>2
  <2> QED
    BY <1>2, <1>3, <2>1, <2>3
<1>13. ASSUME NEW u \in Users, ChangePassword(w, u) PROVE AInv'
  <2> SUFFICES ASSUME NEW x, req' = [req EXCEPT ![w] = x], x.op = "password" PROVE AInv'
    BY <1>13 DEF ChangePassword
  <2> QED
    BY <1>2, <1>13 DEF ChangePassword
<1>14. ASSUME NEW actor \in Users, NEW u \in Users, Erase(w, actor, u) PROVE AInv'
  <2> SUFFICES ASSUME NEW x, x = [op |-> "erase", user |-> u, row |-> Read(u), revoked |-> FALSE] PROVE AInv'
    OBVIOUS
  <2>0. req' = [req EXCEPT ![w] = x] /\ x.user = u
    BY <1>14 DEF Erase
  <2>1. user' = user /\ req[w] = Idle /\ (contested \/ Removing => contested')
    BY <1>14 DEF Erase
  <2>2. contested \/ \E a \in Admins : user[a].active /\ a # x.user
    BY <2>0, <1>14, ErasureSpares DEF Erase
  <2> QED
    BY <2>0, <2>1, <2>2, RemovalBegins
<1>15. ASSUME NEW actor \in Users, NEW u \in Users, Delete(w, actor, u) PROVE AInv'
  <2> SUFFICES ASSUME NEW x, x = [op |-> "delete", user |-> u] PROVE AInv'
    OBVIOUS
  <2>0. req' = [req EXCEPT ![w] = x] /\ x.user = u
    BY <1>15 DEF Delete
  <2>1. user' = user /\ req[w] = Idle /\ (contested \/ Removing => contested')
    BY <1>15 DEF Delete
  <2>2. contested \/ \E a \in Admins : user[a].active /\ a # x.user
    BY <2>0, <1>15, SignedInIsActive DEF Delete
  <2> QED
    BY <2>0, <2>1, <2>2, RemovalBegins
<1> QED
  BY <1>4, <1>5, <1>6, <1>7, <1>8, <1>9, <1>10, <1>11, <1>12, <1>13, <1>14, <1>15, <1>16 DEF Serve

LEMMA AdminsHold == Spec => []AInv
<1>1. Init => AInv
  <2> SUFFICES ASSUME Init PROVE AInv
    OBVIOUS
  <2>1. \A w \in Workers : ~Removes(w)
    BY DEF Init, Idle, Removes
  <2>2. OneRemoval /\ RemovalsSpare
    BY <2>1 DEF OneRemoval, RemovalsSpare
  <2>3. AdminRemains
    BY AdminsAreUsers, AnAdminIsCreated DEF Init, AdminRemains
  <2> QED
    BY <2>2, <2>3, InitTypes DEF AInv
<1>2. AInv /\ [Next]_vars => AInv'
  <2> SUFFICES ASSUME AInv, [Next]_vars PROVE AInv'
    OBVIOUS
  <2>1. CASE Tick \/ UNCHANGED vars
    <3>1. Steps({}, Idle) /\ contested' = contested /\ user' = user
      BY <2>1 DEF Tick, vars, Steps, Continues
    <3> QED
      BY <3>1, OtherSteps
  <2> QED
    BY <2>1, AdminSteps DEF Next
<1> QED
  BY <1>1, <1>2, PTL DEF Spec

\* Erasures and deactivations leave an active administrator, unless two of
\* them were in progress at once.
THEOREM AnAdminRemains == Spec => []AdminRemains
<1>1. AInv => AdminRemains
  BY DEF AInv
<1> QED
  BY <1>1, AdminsHold, PTL

=============================================================================
