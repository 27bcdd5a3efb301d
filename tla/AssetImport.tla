------------------------------ MODULE AssetImport ------------------------------
(***************************************************************************)
(* Assets enter the inventory in bulk, from a CSV file.  A request first   *)
(* passes a rate limit, a counter in Redis that is incremented by one      *)
(* command and given its expiry by another.  It is meant for each user,    *)
(* but no request carries its user where the limit looks for it, so that   *)
(* the counter is that of the address the request comes from.  The file is *)
(* then read twice: the first pass looks for names that occur twice, in    *)
(* the file or in the table, and the second one adds the rows, in one      *)
(* transaction.  Scans, the form and the AI import add assets meanwhile.   *)
(***************************************************************************)
EXTENDS Integers, Sequences, FiniteSets

CONSTANTS
  RowNames,
  NoName,
  Files,        \* files that may be sent
  Requests,     \* requests in progress
  Users,        \* who sends them
  Addresses,    \* where they come from
  limit, window_seconds,
  MAX_ROWS_PER_IMPORT,
  Many          \* bound: assets of one name told apart

Rows == [name: RowNames \union {NoName}, value: {"sound", "ragged", "refused"}]

ASSUME ImportsArePrepared ==
  /\ NoName \notin RowNames
  /\ \A f \in Files : /\ DOMAIN f = {"header", "rows", "dry_run"}
                      /\ f.header \in {"name", "NAME"} /\ f.dry_run \in BOOLEAN
                      /\ f.rows \in Seq(Rows)
  /\ Users \intersect Addresses = {}
  /\ {limit, window_seconds, Many, MAX_ROWS_PER_IMPORT} \subseteq Nat \ {0}

VARIABLES
  assets,     \* how many assets have each name
  bucket,     \* the counter of each address in Redis: its value, its time to live if it has one
  req,        \* what each request is about
  admitted,   \* history: how many requests of each user, and from each address, were admitted
              \* this second and the last age seconds
  lost,       \* history: addresses for which a process was lost between the two commands
  clash,      \* history: names an import gave to a second asset, with the header of its file
  raced       \* history: names that were added while an import that had looked for them went on

importVars == <<assets, bucket, req, admitted, lost, clash, raced>>
-----------------------------------------------------------------------------
Forever == -1
NoRequest == [phase |-> "idle"]
NoBucket == [count |-> 0, ttl |-> Forever]
Ages == 0..window_seconds - 1

ImportInit ==
  /\ assets = [n \in RowNames |-> 0]
  /\ bucket = [x \in Addresses |-> NoBucket]
  /\ req = [r \in Requests |-> NoRequest]
  /\ admitted = [who \in Users \union Addresses |-> [age \in Ages |-> 0]]
  /\ lost = {}
  /\ clash = {}
  /\ raced = {}

Positions(f, n) == {i \in DOMAIN f.rows : f.rows[i].name = n}

\* The first pass knows the column as "name" or "Name"; the check of the headers, and the
\* second pass, know it in any spelling.
Seen(f) == {n \in RowNames : f.header = "name" /\ Positions(f, n) # {}}

\* Slip: only rows that follow each other are compared.
RepeatedInARow(f) ==
  {n \in Seen(f) : \E i \in Positions(f, n) : i + 1 \in Positions(f, n)}

Repeated(f) == {n \in Seen(f) : Cardinality(Positions(f, n)) > 1}

\* Rows without a name and rows with too many cells are reported and left out.
Added(f, n) == Cardinality({i \in Positions(f, n) : f.rows[i].value # "ragged"})
Refused(f) ==
  \E i \in DOMAIN f.rows : f.rows[i].value = "refused" /\ f.rows[i].name # NoName

-----------------------------------------------------------------------------
(* The rate limit.                                                         *)

Admit(u, x) ==
  admitted' = [who \in Users \union Addresses |->
    IF who \in {u, x} THEN [age \in Ages |-> admitted[who][age] + 1] ELSE admitted[who]]

\* Slip: every request renews the expiry, those that are turned away too.
Renewed(b) ==
  [count |-> IF b.count > limit THEN b.count ELSE b.count + 1,
   ttl   |-> IF b.ttl = Forever THEN Forever ELSE window_seconds]

\* Counts above the limit are not told apart.
Incremented(b) == [b EXCEPT !.count = IF @ > limit THEN @ ELSE @ + 1]

\* INCR: the count it returns decides whether the request of u from address x goes on.
Count(r, f, u, x) ==
  /\ req[r] = NoRequest
  /\ bucket' = [bucket EXCEPT ![x] = Incremented(@)]
  /\ \/ /\ bucket'[x].count > limit
        /\ UNCHANGED <<req, admitted>>
     \/ /\ bucket'[x].count <= limit
        /\ req' = [req EXCEPT ![r] =
             [phase |-> IF bucket'[x].count = 1 THEN "counted" ELSE "admitted", file |-> f,
              address |-> x]]
        /\ Admit(u, x)
  /\ UNCHANGED <<assets, lost, clash, raced>>

\* EXPIRE, by the request whose count is 1.
Expire(r) ==
  /\ req[r].phase = "counted"
  /\ bucket' = [bucket EXCEPT ![req[r].address].ttl = window_seconds]
  /\ req' = [req EXCEPT ![r].phase = "admitted"]
  /\ UNCHANGED <<assets, admitted, lost, clash, raced>>

Aged(b) ==
  IF b.ttl = 1 THEN NoBucket ELSE [b EXCEPT !.ttl = IF @ = Forever THEN @ ELSE @ - 1]

Second ==
  /\ bucket' = [x \in Addresses |-> Aged(bucket[x])]
  /\ admitted' = [who \in Users \union Addresses |->
       [age \in Ages |-> IF age = 0 THEN 0 ELSE admitted[who][age - 1]]]
  /\ UNCHANGED <<assets, req, lost, clash, raced>>

-----------------------------------------------------------------------------
(* The import.                                                             *)

\* The first pass, and the query for names that exist.
Check(r) ==
  LET f == req[r].file
      refused == \/ Len(f.rows) > MAX_ROWS_PER_IMPORT
                 \/ Repeated(f) # {}
                 \/ \E n \in Seen(f) : assets[n] > 0
  IN
  /\ req[r].phase = "admitted"
  /\ req' = [req EXCEPT ![r] = IF f.dry_run \/ refused THEN NoRequest
                               ELSE [req[r] EXCEPT !.phase = "checked"]]
  /\ UNCHANGED <<assets, bucket, admitted, lost, clash, raced>>

\* Slip: the bound is one too high.
CappedLate(count) == IF count > Many + 1 THEN Many + 1 ELSE count

Capped(count) == IF count > Many THEN Many ELSE count

\* Names that requests other than r have looked for and are about to add.
Wanted(r) == UNION {Seen(req[q].file) : q \in {p \in Requests \ {r} : req[p].phase = "checked"}}

\* The commit; a value that its column refuses takes the whole import with it.
CommitImport(r) ==
  LET f   == req[r].file
      new == {n \in RowNames : Added(f, n) > 0}
  IN
  /\ req[r].phase = "checked"
  /\ req' = [req EXCEPT ![r] = NoRequest]
  /\ IF Refused(f) THEN UNCHANGED <<assets, clash, raced>>
     ELSE /\ assets' = [n \in RowNames |-> Capped(assets[n] + Added(f, n))]
          /\ clash' = clash \union {<<n, f.header>> : n \in {m \in new : assets[m] + Added(f, m) > 1}}
          /\ raced' = raced \union (new \intersect Wanted(r))
  /\ UNCHANGED <<bucket, admitted, lost>>

\* POST /assets, POST /assets/ingest/ai and the scanner add an asset of any name.
Appear(n) ==
  /\ assets[n] < Many
  /\ assets' = [assets EXCEPT ![n] = @ + 1]
  /\ raced' = raced \union ({n} \intersect UNION {Seen(req[q].file) : q \in
                              {p \in Requests : req[p].phase = "checked"}})
  /\ UNCHANGED <<bucket, req, admitted, lost, clash>>

\* Slip: a request that fails is not counted.
LoseRefunded(r) ==
  /\ req[r] # NoRequest
  /\ lost' = IF req[r].phase = "counted" THEN lost \union {req[r].address} ELSE lost
  /\ req' = [req EXCEPT ![r] = NoRequest]
  /\ bucket' = [bucket EXCEPT ![req[r].address].count = IF @ > 0 THEN @ - 1 ELSE 0]
  /\ UNCHANGED <<assets, admitted, clash, raced>>

\* The request fails or its process is lost: nothing of the import is kept.
Lose(r) ==
  /\ req[r] # NoRequest
  /\ lost' = IF req[r].phase = "counted" THEN lost \union {req[r].address} ELSE lost
  /\ req' = [req EXCEPT ![r] = NoRequest]
  /\ UNCHANGED <<assets, bucket, admitted, clash, raced>>

-----------------------------------------------------------------------------
ImportNext ==
  \/ \E r \in Requests, f \in Files, u \in Users, x \in Addresses : Count(r, f, u, x)
  \/ \E r \in Requests : Expire(r) \/ Check(r) \/ CommitImport(r) \/ Lose(r)
  \/ \E n \in RowNames : Appear(n)
  \/ Second

\* Time passes, and a request that is not lost goes on.
ImportSpec ==
  /\ ImportInit /\ [][ImportNext]_importVars /\ WF_importVars(Second)
  /\ \A r \in Requests : WF_importVars(Expire(r))

-----------------------------------------------------------------------------
Request == [phase: {"counted", "admitted", "checked"}, file: Files, address: Addresses]
Bucket == [count: 0..limit + 1, ttl: {Forever} \union 1..window_seconds]

\* The variables have their types.
ImportTypeOK ==
  /\ assets \in [RowNames -> 0..Many]
  /\ bucket \in [Addresses -> Bucket]
  /\ req \in [Requests -> Request \union {NoRequest}]
  /\ admitted \in [Users \union Addresses -> [Ages -> Nat]]
  /\ lost \subseteq Addresses
  /\ clash \subseteq RowNames \X {"name", "NAME"} /\ raced \subseteq RowNames

\* In no window_seconds on end are more than twice the limit admitted from one address,
\* although windows begin with the first request and their expiry is set late.
TwoLimitsAtMost == \A x \in Addresses, age \in Ages : admitted[x][age] <= 2 * limit

\* bulk_import.py:5, "Rate limit 3 imports per user per 60s": nor of one user, allowing for
\* two windows that meet.
UsersAreLimited == \A u \in Users, age \in Ages : admitted[u][age] <= 2 * limit

\* An address that keeps sending requests is admitted again and again, unless a process was
\* lost between the increment and the expiry of its counter.
LimitIsLifted == \A x \in Addresses : []<>(x \in lost \/ bucket[x].count < limit)

\* rate_limit.py:49, "limits N requests per window": a window ends, whatever is lost.
WindowEnds == \A x \in Addresses : []<>(bucket[x].count < limit)

\* An import whose file spells the header as the duplicate check reads it gives no name to a
\* second asset, in the file or in the table, unless that name was added by someone else, in
\* whatever spelling, between its query and its commit.
SecondNamesAreRaced == \A n \in RowNames : <<n, "name">> \in clash => n \in raced

\* import_assets_csv, "Pre-scans CSV for duplicate names BEFORE inserting. If duplicates
\* found, returns error and aborts": no file that is about to be added repeats a name.
DuplicatesAbort ==
  \A r \in Requests :
    req[r].phase = "checked" => \A n \in RowNames : Cardinality(Positions(req[r].file, n)) <= 1
=============================================================================
