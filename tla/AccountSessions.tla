--------------------------- MODULE AccountSessions ---------------------------
(***************************************************************************)
(* Accounts and their sessions.  Accounts are rows in PostgreSQL; sessions *)
(* are signed tokens that nothing stores, and what ends them early is kept *)
(* in Redis: the refresh tokens already exchanged, and for each account an *)
(* instant up to which its tokens are refused.  Four API processes serve   *)
(* requests; each reads a row, works for a while (hashing a password takes *)
(* long), and commits the columns it changed.                              *)
(*                                                                         *)
(* An instant of the clock is a tick; several tokens may be issued in one. *)
(* A session stands for its access and its refresh token.                  *)
(***************************************************************************)
EXTENDS Integers, FiniteSets

CONSTANTS
  Users, Admins,
  Watched,       \* bound: users whose sessions are followed; others stay signed in while active
  Tokens,        \* sessions that may be opened
  Workers,       \* requests in progress
  MAX_LOGIN_ATTEMPTS, LOCKOUT_DURATION,
  TokenTTL,      \* life of a refresh token
  Retention,     \* life of an instant of revocation in Redis
  MaxTime,       \* bound: ticks of the clock
  MaxFailed,     \* bound: failed attempts counted
  MaxChanges     \* bound: changes of password

ASSUME AdminsAreUsers == Admins \subseteq Users /\ Watched \subseteq Users
ASSUME AnAdminIsCreated == Admins # {}   \* bootstrap.py
ASSUME PeriodsAreTimes == {LOCKOUT_DURATION, TokenTTL, MAX_LOGIN_ATTEMPTS} \subseteq Nat \ {0}
ASSUME RevocationsOutliveTokens == Retention \in Nat /\ Retention > TokenTTL
ASSUME BoundsAreNaturals == {MaxTime, MaxFailed, MaxChanges} \subseteq Nat
ASSUME TimePasses == MaxTime > 0

VARIABLES
  user,       \* the users table
  token,      \* the sessions opened, as their tokens say
  revoked,    \* Redis: the instant up to which the tokens of a user are refused, 0 for none
  consumed,   \* Redis: until when each refresh token exchanged is marked, 0 for no mark
  req,        \* the request each worker is serving
  now,
  exchanges,  \* history: how often each refresh token was exchanged
  contested   \* history: two removals of accounts have been in progress at once

vars == <<user, token, revoked, consumed, req, now, exchanges, contested>>
-----------------------------------------------------------------------------
Account == [active: BOOLEAN, erased: BOOLEAN, failed: 0..MaxFailed,
            locked: 0..MaxTime + LOCKOUT_DURATION, password: 0..MaxChanges]

\* late: issued while, or by a request that was there before, the password changed,
\* or by one that was still to be checked when the token it presents expired.
Session == [user: Users, iat: 1..MaxTime, password: 0..MaxChanges, late: BOOLEAN]
NoSession == [iat |-> 0]
Idle == [op |-> "idle"]

Init ==
  /\ user = [u \in Users |-> [active |-> TRUE, erased |-> FALSE, failed |-> 0, locked |-> 0,
                              password |-> 0]]
  /\ token = [t \in Tokens |-> NoSession]
  /\ revoked = [u \in Watched |-> 0]
  /\ consumed = [t \in Tokens |-> 0]
  /\ req = [w \in Workers |-> Idle]
  /\ now = 1
  /\ exchanges = [t \in Tokens |-> 0]
  /\ contested = FALSE

\* What a request keeps of the row it read: the columns it may change.
Read(u) == [failed |-> user[u].failed, locked |-> user[u].locked]

\* Slip: every column is written, as it was read.
ChangedWhole(stored, old, new) ==
  [column \in DOMAIN stored |-> IF column \in DOMAIN old THEN new[column] ELSE stored[column]]

\* What becomes of a row when a session commits: it writes the columns it changed.
Changed(stored, old, new) ==
  [column \in DOMAIN stored |->
     IF column \in DOMAIN old /\ new[column] # old[column] THEN new[column] ELSE stored[column]]

\* Slip: the tokens of the very instant are left out.
RevokedBefore(u, iat) == revoked[u] # 0 /\ iat < revoked[u]

RevokedAt(u, iat) == revoked[u] # 0 /\ iat <= revoked[u]

Expiry(t) == token[t].iat + TokenTTL

\* _jwt_user: the token has not expired, is not revoked, and its user is active.
Accepted(t) ==
  /\ token[t] # NoSession
  /\ now < Expiry(t)
  /\ ~RevokedAt(token[t].user, token[t].iat)
  /\ user[token[t].user].active
SignedIn(u) ==
  IF u \in Watched THEN \E t \in Tokens : token[t] # NoSession /\ token[t].user = u /\ Accepted(t)
  ELSE user[u].active

\* A change of password or an erasure has revoked the sessions of u but not committed.
Changing(u) == \E w \in Workers : req[w].op \in {"password", "erase"} /\ req[w].user = u /\ req[w].revoked

Open(w, u, password, late) ==
  \E t \in Tokens :
    /\ token[t] = NoSession
    /\ token' = [token EXCEPT ![t] = [user |-> u, iat |-> now, password |-> password,
                                      late |-> late \/ req[w].late \/ Changing(u)]]

\* The requests for sessions of u that are in progress when its password is replaced.
Outdated(u) ==
  [w \in Workers |-> IF req[w].op \in {"login", "check", "consume", "refresh"} /\ req[w].user = u
                       THEN [req[w] EXCEPT !.late = TRUE] ELSE req[w]]

-----------------------------------------------------------------------------
Login(w, u, right) ==
  /\ req[w] = Idle
  /\ u \in Watched
  /\ ~user[u].erased
  /\ req' = [req EXCEPT ![w] = [op |-> "login", user |-> u, row |-> Read(u), right |-> right,
                                password |-> user[u].password, late |-> FALSE]]
  /\ UNCHANGED <<user, token, revoked, consumed, now, exchanges, contested>>

\* A wrong password or code is counted, and the last one the account allows locks it.
Counted(row) ==
  [row EXCEPT !.failed = @ + 1,
              !.locked = IF row.failed + 1 >= MAX_LOGIN_ATTEMPTS THEN now + LOCKOUT_DURATION ELSE @]
Cleared(row) == [row EXCEPT !.failed = 0, !.locked = 0]

LoginLocked(w) ==
  /\ req[w].op = "login"
  /\ req[w].row.locked > now
  /\ req' = [req EXCEPT ![w] = Idle]
  /\ UNCHANGED <<user, token, revoked, consumed, now, exchanges, contested>>

LoginFails(w) ==
  LET r == req[w] IN
  /\ r.op = "login" /\ ~r.right
  /\ r.row.locked <= now
  /\ r.row.failed < MaxFailed
  /\ user' = [user EXCEPT ![r.user] = Changed(@, r.row, Counted(r.row))]
  /\ req' = [req EXCEPT ![w] = Idle]
  /\ UNCHANGED <<token, revoked, consumed, now, exchanges, contested>>

LoginSucceeds(w) ==
  LET r == req[w] IN
  /\ r.op = "login" /\ r.right
  /\ r.row.locked <= now
  /\ Open(w, r.user, r.password, FALSE)
  /\ user' = [user EXCEPT ![r.user] = Changed(@, r.row, Cleared(r.row))]
  /\ req' = [req EXCEPT ![w] = Idle]
  /\ UNCHANGED <<revoked, consumed, now, exchanges, contested>>

-----------------------------------------------------------------------------
(* The exchange of a refresh token: its expiry is tested as it is decoded; *)
(* then one read of Redis, one SET NX, and the read of the account before  *)
(* new tokens are issued.                                                  *)

RefreshDecode(w, t) ==
  /\ req[w] = Idle
  /\ token[t] # NoSession
  /\ now < Expiry(t)
  /\ req' = [req EXCEPT ![w] = [op |-> "check", user |-> token[t].user, token |-> t, late |-> FALSE]]
  /\ UNCHANGED <<user, token, revoked, consumed, now, exchanges, contested>>

RefreshCheck(w) ==
  LET r == req[w] IN
  /\ r.op = "check"
  /\ req' = [req EXCEPT ![w] =
       IF RevokedAt(r.user, token[r.token].iat) \/ consumed[r.token] # 0 THEN Idle
       ELSE [r EXCEPT !.op = "consume", !.late = @ \/ now >= Expiry(r.token)]]
  /\ UNCHANGED <<user, token, revoked, consumed, now, exchanges, contested>>

\* The mark lives as long as the token, and no shorter than a second.
Mark(t) == IF Expiry(t) > now THEN Expiry(t) ELSE now + 1

\* Slip: the mark is set without NX.
ConsumeAgain(w) ==
  LET t == req[w].token IN
  /\ req[w].op = "consume"
  /\ consumed' = [consumed EXCEPT ![t] = Mark(t)]
  /\ req' = [req EXCEPT ![w].op = "refresh"]
  /\ exchanges' = [exchanges EXCEPT ![t] = @ + 1]
  /\ UNCHANGED <<user, token, revoked, now, contested>>

Consume(w) ==
  LET t == req[w].token IN
  /\ req[w].op = "consume"
  /\ IF consumed[t] # 0
       THEN req' = [req EXCEPT ![w] = Idle] /\ UNCHANGED <<consumed, exchanges>>
       ELSE /\ consumed' = [consumed EXCEPT ![t] = Mark(t)]
            /\ req' = [req EXCEPT ![w].op = "refresh"]
            /\ exchanges' = [exchanges EXCEPT ![t] = @ + 1]
  /\ UNCHANGED <<user, token, revoked, now, contested>>

RefreshIssue(w) ==
  LET r == req[w] IN
  /\ r.op = "refresh"
  /\ IF user[r.user].active
       THEN Open(w, r.user, token[r.token].password, token[r.token].late)
       ELSE UNCHANGED token
  /\ req' = [req EXCEPT ![w] = Idle]
  /\ UNCHANGED <<user, revoked, consumed, now, exchanges, contested>>

-----------------------------------------------------------------------------
(* Changes of password, erasures and deactivations.                        *)

ChangePassword(w, u) ==
  /\ req[w] = Idle
  /\ u \in Watched /\ SignedIn(u)
  /\ req' = [req EXCEPT ![w] = [op |-> "password", user |-> u, revoked |-> FALSE]]
  /\ UNCHANGED <<user, token, revoked, consumed, now, exchanges, contested>>

Removing == \E w \in Workers : req[w].op \in {"erase", "delete"}

\* Slip: the administrators are counted whether active or not.
ErasableOfAll(u) ==
  /\ ~user[u].erased
  /\ u \in Admins /\ user[u].active => Cardinality(Admins) > 1

\* The last active administrator is not erased, as far as this request can tell.
Erasable(u) ==
  /\ ~user[u].erased
  /\ u \in Admins /\ user[u].active => Cardinality({a \in Admins : user[a].active}) > 1

Erase(w, actor, u) ==
  /\ req[w] = Idle
  /\ SignedIn(actor)
  /\ actor \in Admins \/ actor = u
  /\ Erasable(u)
  /\ req' = [req EXCEPT ![w] = [op |-> "erase", user |-> u, row |-> Read(u), revoked |-> FALSE]]
  /\ contested' = (contested \/ Removing)
  /\ UNCHANGED <<user, token, revoked, consumed, now, exchanges>>

Delete(w, actor, u) ==
  /\ req[w] = Idle
  /\ SignedIn(actor)
  /\ actor \in Admins /\ actor # u
  /\ req' = [req EXCEPT ![w] = [op |-> "delete", user |-> u]]
  /\ contested' = (contested \/ Removing)
  /\ UNCHANGED <<user, token, revoked, consumed, now, exchanges>>

\* Slip: the end of the retention is stored in place of the instant.
RevokeUntil(w) ==
  /\ req[w].op \in {"password", "erase"} /\ ~req[w].revoked
  /\ revoked' = [u \in Watched |-> IF u = req[w].user THEN now + Retention ELSE revoked[u]]
  /\ req' = [req EXCEPT ![w].revoked = TRUE]
  /\ UNCHANGED <<user, token, consumed, now, exchanges, contested>>

\* revoke_user_tokens: the instant is taken as the command is sent.
Revoke(w) ==
  /\ req[w].op \in {"password", "erase"} /\ ~req[w].revoked
  /\ revoked' = [u \in Watched |-> IF u = req[w].user THEN now ELSE revoked[u]]
  /\ req' = [req EXCEPT ![w].revoked = TRUE]
  /\ UNCHANGED <<user, token, consumed, now, exchanges, contested>>

Versions == {user[u].password : u \in Users}

PasswordCommit(w) ==
  LET r == req[w] IN
  /\ r.op = "password" /\ r.revoked
  /\ \E version \in 1..MaxChanges :
       /\ \A v \in Versions : v < version
       /\ user' = [user EXCEPT ![r.user].password = version]
  /\ req' = [Outdated(r.user) EXCEPT ![w] = Idle]
  /\ UNCHANGED <<token, revoked, consumed, now, exchanges, contested>>

EraseCommit(w) ==
  LET r == req[w] IN
  /\ r.op = "erase" /\ r.revoked
  /\ user' = [user EXCEPT ![r.user] = [Changed(@, r.row, Cleared(r.row)) EXCEPT
                                          !.active = FALSE, !.erased = TRUE]]
  /\ req' = [Outdated(r.user) EXCEPT ![w] = Idle]
  /\ UNCHANGED <<token, revoked, consumed, now, exchanges, contested>>

DeleteCommit(w) ==
  LET r == req[w] IN
  /\ r.op = "delete"
  /\ user' = [user EXCEPT ![r.user].active = FALSE]
  /\ req' = [req EXCEPT ![w] = Idle]
  /\ UNCHANGED <<token, revoked, consumed, now, exchanges, contested>>

\* Redis or the database fails the request, or its process dies: nothing is committed.
Fail(w) ==
  /\ req[w] # Idle
  /\ req' = [req EXCEPT ![w] = Idle]
  /\ UNCHANGED <<user, token, revoked, consumed, now, exchanges, contested>>

\* What Redis keeps leaves it when its time is over.
Tick ==
  /\ now < MaxTime
  /\ now' = now + 1
  /\ revoked' = [u \in Watched |-> IF now' >= revoked[u] + Retention THEN 0 ELSE revoked[u]]
  /\ consumed' = [t \in Tokens |-> IF now' >= consumed[t] THEN 0 ELSE consumed[t]]
  /\ UNCHANGED <<user, token, req, exchanges, contested>>

-----------------------------------------------------------------------------
Serve(w) ==
  \/ LoginLocked(w) \/ LoginFails(w) \/ LoginSucceeds(w)
  \/ RefreshCheck(w) \/ Consume(w) \/ RefreshIssue(w)
  \/ Revoke(w) \/ PasswordCommit(w) \/ EraseCommit(w) \/ DeleteCommit(w)
  \/ Fail(w)

Next ==
  \/ \E w \in Workers : Serve(w)
  \/ \E w \in Workers, u \in Users, right \in BOOLEAN : Login(w, u, right)
  \/ \E w \in Workers, t \in Tokens : RefreshDecode(w, t)
  \/ \E w \in Workers, u \in Users : ChangePassword(w, u)
  \/ \E w \in Workers, u, v \in Users : Erase(w, u, v) \/ Delete(w, u, v)
  \/ Tick

Spec == Init /\ [][Next]_vars

-----------------------------------------------------------------------------
Columns == [failed: 0..MaxFailed, locked: 0..MaxTime + LOCKOUT_DURATION]
Request ==
  [op: {"login"}, user: Users, row: Columns, right: BOOLEAN, password: 0..MaxChanges, late: BOOLEAN]
    \union [op: {"check", "consume", "refresh"}, user: Users, token: Tokens, late: BOOLEAN]
    \union [op: {"password"}, user: Users, revoked: BOOLEAN]
    \union [op: {"erase"}, user: Users, row: Columns, revoked: BOOLEAN]
    \union [op: {"delete"}, user: Users]

\* The variables have their types.
TypeOK ==
  /\ user \in [Users -> Account]
  /\ token \in [Tokens -> Session \union {NoSession}]
  /\ revoked \in [Watched -> 0..MaxTime]
  /\ consumed \in [Tokens -> 0..MaxTime + TokenTTL]
  /\ req \in [Workers -> Request \union {Idle}]
  /\ now \in 1..MaxTime
  /\ exchanges \in [Tokens -> Nat]
  /\ contested \in BOOLEAN

\* However many requests present a refresh token, and although Redis forgets its mark, it
\* is exchanged once in its life: again only by a request that comes to it after its expiry.
RefreshOnce ==
  [][\A t \in Tokens : exchanges'[t] # exchanges[t] => exchanges[t] = 0 \/ now >= Expiry(t)]_vars

\* token_blocklist.py:91: a token that is presented again is refused.
ReplaysAreRefused == \A t \in Tokens : exchanges[t] <= 1

\* No session opened on an earlier password is accepted, in the tick of the change, after
\* the change, or after Redis forgot its instant; except sessions whose request overlapped
\* the change itself, or the expiry of the token it presented.
PasswordEndsSessions ==
  \A t \in Tokens :
    token[t] # NoSession /\ Accepted(t) /\ ~token[t].late
      => token[t].password = user[token[t].user].password

\* The check of gdpr.py:153 that an active administrator is left: it holds as long as no two
\* removals are in progress at once.
AdminRemains == contested \/ \E a \in Admins : user[a].active

\* A login, a deactivation or a change of password that read the row before it was locked
\* does not unlock it: only an erasure does, or a login that had found an earlier lock over.
LockIsKept ==
  [][\A u \in Users :
       user[u].locked > now /\ user'[u].locked <= now /\ now' = now =>
         \/ user'[u].erased
         \/ \E w \in Workers : req[w].op = "login" /\ req[w].user = u /\ req[w].row.locked # 0]_vars
=============================================================================
