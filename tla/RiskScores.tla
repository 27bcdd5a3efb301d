------------------------------ MODULE RiskScores ------------------------------
(***************************************************************************)
(* CVE enrichment and the scores of assets.  Enrichment tasks query the    *)
(* vulnerability database, the KEV catalog and EPSS and store what they    *)
(* learn; rescoring recomputes every score from what is stored; an analyst *)
(* edits a posture, which recomputes the score of that asset.              *)
(*                                                                         *)
(* All of them read rows, work on them over many awaits, and commit only   *)
(* the columns they changed, without a lock.  A query that fails for good  *)
(* is no error: it returns nothing, and the task goes on with that.        *)
(***************************************************************************)
EXTENDS RiskEngine, FiniteSets

CONSTANTS
  Assets, Cves,
  Listing,      \* the CVEs the vulnerability database lists for the CPEs of each asset
  Cvss, Epss,   \* what it and EPSS say of each CVE
  Catalog,      \* the CVEs of the KEV catalog
  Postures,     \* the postures assets may be given
  Workers,      \* enrichment processes
  Batch,        \* assets of one enrichment batch
  MaxOutages,   \* bound: queries that fail and tasks that are lost
  MaxEdits      \* bound: edits of postures

ASSUME FactsAreNumbers == Cvss \in [Cves -> 0..100] /\ Epss \in [Cves -> 0..100]
ASSUME ListingIsOfCves == Listing \in [Assets -> SUBSET Cves] /\ Catalog \subseteq Cves
ASSUME BoundsAreNaturals == MaxOutages \in Nat /\ MaxEdits \in Nat /\ Batch \in Nat \ {0}

VARIABLES
  row,      \* the assets table: postures and scores
  cve,      \* the cves table
  link,     \* the asset_cves table
  job,      \* the task each enrichment process runs
  rescore,  \* the rescoring pass: the ratings it read and those it computed
  outages, edits

vars == <<row, cve, link, job, rescore, outages, edits>>
-----------------------------------------------------------------------------
Idle == [phase |-> "idle"]

\* cvss and epss are 0 where the code has None.
Fact == [cvss: 0..100, epss: 0..100, kev: BOOLEAN]
NoCve == [cvss |-> 0]
Stored(c) == cve[c] # NoCve

NoBreakdown == [factor \in DOMAIN WEIGHTS |-> 0]
Ratings == [score: 0..500, tier: Tiers, breakdown: Breakdown \union {NoBreakdown}]
Unrated == [score |-> 0, tier |-> "Informational", breakdown |-> NoBreakdown]
Row == [posture: Postures, rating: Ratings]

\* The CVE rows the links of an asset lead to.
Evidence(a) == {cve[c] : c \in {d \in Cves : <<a, d>> \in link}}

\* What becomes of a row when a session commits: it writes the columns it changed.
Changed(stored, old, new) ==
  [column \in DOMAIN stored |-> IF new[column] = old[column] THEN stored[column] ELSE new[column]]

\* Assets that a source reported are unrated until the first pass; those entered by hand
\* are rated when they are created.
Init ==
  /\ row \in [Assets -> {[posture |-> p, rating |-> r] :
                           p \in Postures, r \in {Unrated} \union {Risk(q, {}) : q \in Postures}}]
  /\ \A a \in Assets : row[a].rating \in {Unrated, Risk(row[a].posture, {})}
  /\ cve = [c \in Cves |-> NoCve]
  /\ link = {}
  /\ job = [w \in Workers |-> Idle]
  /\ rescore = Idle
  /\ outages = 0
  /\ edits = 0

-----------------------------------------------------------------------------
(* Enrichment.  enrich_asset is a batch of one; a pending batch holds      *)
(* assets seen in the last day or without CVEs, in the database's order.   *)

StartBatch(w, batch) ==
  /\ job[w] = Idle
  /\ Cardinality(batch) \in 1..Batch
  /\ job' = [job EXCEPT ![w] = [phase |-> "querying", catalog |-> {},
                                old |-> [a \in batch |-> row[a]]]]
  /\ UNCHANGED <<row, cve, link, rescore, outages, edits>>

\* What the feeds say of CVE c, to an enricher that holds this catalog.
Fetched(c, catalog, scored) ==
  [cvss |-> Cvss[c], epss |-> IF scored THEN Epss[c] ELSE 0, kev |-> c \in catalog]

\* Slip: a link is added only together with its CVE.
QueryLinksNew(w, a, catalog, found, scored) ==
  LET failed == Cardinality({catalog} \ {Catalog}) + Cardinality({found} \ {Listing[a]})
                  + Cardinality({scored} \ {TRUE})
  IN
  /\ job[w].phase = "querying"
  /\ a \in DOMAIN job[w].old
  /\ outages + failed <= MaxOutages
  /\ outages' = outages + failed
  /\ job' = [job EXCEPT ![w] =
               [phase |-> "storing", asset |-> a, old |-> @.old, catalog |-> catalog,
                found |-> [c \in found |-> Fetched(c, catalog, scored)],
                seen |-> [c \in found |-> cve[c]],
                unlinked |-> {c \in found : ~Stored(c)}]]
  /\ UNCHANGED <<row, cve, link, rescore, edits>>

\* The catalog is fetched unless it is cached; a failed fetch leaves the empty cache.
\* Then the rows of the CVEs found and the links to them are looked up.
Query(w, a, catalog, found, scored) ==
  LET failed == Cardinality({catalog} \ {Catalog}) + Cardinality({found} \ {Listing[a]})
                  + Cardinality({scored} \ {TRUE})
  IN
  /\ job[w].phase = "querying"
  /\ a \in DOMAIN job[w].old
  /\ job[w].catalog = {} \/ catalog = job[w].catalog
  /\ found = {} => scored
  /\ outages + failed <= MaxOutages
  /\ outages' = outages + failed
  /\ job' = [job EXCEPT ![w] =
               [phase |-> "storing", asset |-> a, old |-> @.old, catalog |-> catalog,
                found |-> [c \in found |-> Fetched(c, catalog, scored)],
                seen |-> [c \in found |-> cve[c]],
                unlinked |-> {c \in found : <<a, c>> \notin link}]]
  /\ UNCHANGED <<row, cve, link, rescore, edits>>

\* A known CVSS is kept when the feed has none; EPSS and KEV are overwritten.
Updated(seen, fact) == [fact EXCEPT !.cvss = IF @ = 0 THEN seen.cvss ELSE @]

\* Another task has inserted a row this one means to insert.
Duplicates(j) ==
  \/ \E c \in DOMAIN j.seen : j.seen[c] = NoCve /\ Stored(c)
  \/ j.phase = "storing" /\ \E c \in j.unlinked : <<j.asset, c>> \in link

\* A duplicate key ends the task; the assets stored before it stay stored.
Store(w) ==
  LET j == job[w]
      rest == DOMAIN j.old \ {j.asset}
      new == Risk(j.old[j.asset].posture, {j.found[c] : c \in DOMAIN j.found})
  IN
  /\ j.phase = "storing"
  /\ IF Duplicates(j)
       THEN job' = [job EXCEPT ![w] = Idle] /\ UNCHANGED <<row, cve, link>>
       ELSE /\ cve' = [c \in Cves |->
                         IF c \notin DOMAIN j.found THEN cve[c]
                         ELSE IF j.seen[c] = NoCve THEN j.found[c]
                         ELSE Changed(cve[c], j.seen[c], Updated(j.seen[c], j.found[c]))]
            /\ link' = link \union {<<j.asset, c>> : c \in j.unlinked}
            /\ row' = [row EXCEPT ![j.asset].rating = Changed(@, j.old[j.asset].rating, new)]
            /\ job' = [job EXCEPT ![w] =
                         IF rest = {} THEN Idle
                         ELSE [phase |-> "querying", catalog |-> j.catalog,
                               old |-> [a \in rest |-> j.old[a]]]]
  /\ UNCHANGED <<rescore, outages, edits>>

\* The daily refresh of the KEV catalog; one that cannot fetch it changes nothing.
StartSync(w) ==
  /\ job[w] = Idle
  /\ job' = [job EXCEPT ![w] = [phase |-> "syncing", seen |-> [c \in Catalog |-> cve[c]]]]
  /\ UNCHANGED <<row, cve, link, rescore, outages, edits>>

\* Slip: the CVEs already known are left alone.
SyncedNewOnly(stored, seen) ==
  IF seen = NoCve THEN [cvss |-> 0, epss |-> 0, kev |-> TRUE] ELSE stored

Synced(stored, seen) ==
  IF seen = NoCve THEN [cvss |-> 0, epss |-> 0, kev |-> TRUE]
  ELSE Changed(stored, seen, [seen EXCEPT !.kev = TRUE])

FinishSync(w) ==
  /\ job[w].phase = "syncing"
  /\ cve' = [c \in Cves |-> IF c \in Catalog /\ ~Duplicates(job[w])
                              THEN Synced(cve[c], job[w].seen[c]) ELSE cve[c]]
  /\ job' = [job EXCEPT ![w] = Idle]
  /\ UNCHANGED <<row, link, rescore, outages, edits>>

\* The process dies, or the database ends its transaction.
Lose(w) ==
  /\ job[w] # Idle
  /\ outages < MaxOutages
  /\ job' = [job EXCEPT ![w] = Idle]
  /\ outages' = outages + 1
  /\ UNCHANGED <<row, cve, link, rescore, edits>>

-----------------------------------------------------------------------------
(* Rescoring, every 15 minutes, and edits by analysts.                     *)

\* Slip: only assets without a rating are rated.
RescoreUnrated ==
  /\ rescore = Idle
  /\ rescore' = [old |-> [a \in Assets |-> row[a].rating],
                 new |-> [a \in Assets |-> IF row[a].rating = Unrated
                                             THEN Risk(row[a].posture, Evidence(a)) ELSE row[a].rating]]
  /\ UNCHANGED <<row, cve, link, job, outages, edits>>

Rescore ==
  /\ rescore = Idle
  /\ rescore' = [old |-> [a \in Assets |-> row[a].rating], new |-> [a \in Assets |-> Risk(row[a].posture, Evidence(a))]]
  /\ UNCHANGED <<row, cve, link, job, outages, edits>>

RescoreCommit ==
  /\ rescore # Idle
  /\ row' = [a \in Assets |->
             [row[a] EXCEPT !.rating = Changed(@, rescore.old[a], rescore.new[a])]]
  /\ rescore' = Idle
  /\ UNCHANGED <<cve, link, job, outages, edits>>

\* A request lasts milliseconds: its reads and its commit are one step.
Update(a, posture) ==
  /\ edits < MaxEdits
  /\ edits' = edits + 1
  /\ row' = [row EXCEPT ![a] = [posture |-> posture, rating |-> Risk(posture, Evidence(a))]]
  /\ UNCHANGED <<cve, link, job, rescore, outages>>

-----------------------------------------------------------------------------
Enrich(w) ==
  \/ \E a \in Assets, catalog \in {{}, Catalog}, scored \in BOOLEAN :
       \E found \in SUBSET Listing[a] : Query(w, a, catalog, found, scored)
  \/ Store(w)
  \/ FinishSync(w)

Next ==
  \/ \E w \in Workers : Enrich(w) \/ StartSync(w) \/ Lose(w)
  \/ \E w \in Workers, batch \in SUBSET Assets : StartBatch(w, batch)
  \/ Rescore \/ RescoreCommit
  \/ \E a \in Assets, posture \in Postures : Update(a, posture)

\* Tasks that run go on; beat starts the refresh of the catalog, which waits its turn in
\* the queue, and the rescoring.  Nothing promises that an asset is ever enriched.
Fairness ==
  /\ \A w \in Workers : WF_vars(Enrich(w))
  /\ SF_vars(\E w \in Workers : StartSync(w))
  /\ WF_vars(Rescore) /\ WF_vars(RescoreCommit)

Spec == Init /\ [][Next]_vars /\ Fairness

-----------------------------------------------------------------------------
Some(f, S, T) == DOMAIN f \subseteq S /\ \A x \in DOMAIN f : f[x] \in T

IsJob(j) ==
  \/ j = Idle
  \/ /\ j.phase = "querying"
     /\ j.catalog \in {{}, Catalog} /\ Some(j.old, Assets, Row)
  \/ /\ j.phase = "storing"
     /\ j.catalog \in {{}, Catalog} /\ Some(j.old, Assets, Row) /\ j.asset \in DOMAIN j.old
     /\ Some(j.found, Listing[j.asset], Fact) /\ Some(j.seen, Cves, Fact \union {NoCve})
     /\ j.unlinked \subseteq DOMAIN j.found /\ DOMAIN j.seen = DOMAIN j.found
  \/ /\ j.phase = "syncing"
     /\ j.seen \in [Catalog -> Fact \union {NoCve}]

\* The variables have their types; every factor of a rating is a level from 1 to 5.
TypeOK ==
  /\ row \in [Assets -> Row]
  /\ cve \in [Cves -> Fact \union {NoCve}]
  /\ link \subseteq Assets \X Cves
  /\ DOMAIN job = Workers /\ \A w \in Workers : IsJob(job[w])
  /\ rescore \in [old: [Assets -> Ratings], new: [Assets -> Ratings]] \union {Idle}
  /\ outages \in 0..MaxOutages
  /\ edits \in 0..MaxEdits

\* An asset rated as having an exploited CVE is linked to one of the KEV catalog: a task
\* that fails half way, or loses a race for a row, stores no rating without its evidence.
ExploitIsLinked ==
  \A a \in Assets :
    row[a].rating.breakdown.kev = 5 => \E c \in Catalog : <<a, c>> \in link /\ Stored(c)

\* Whatever outages, lost tasks and overlapping sessions did to a row, every score ends up
\* as what the engine makes of the posture and the CVEs stored for the asset.
ScoresSettle ==
  <>[](\A a \in Assets : row[a].rating = Risk(row[a].posture, Evidence(a)))

\* An exploited CVE linked to an asset ends up in its rating, though an enrichment whose
\* fetch of the catalog failed may have stored it as not exploited.
ExploitCounts ==
  <>[](\A a \in Assets, c \in Catalog : <<a, c>> \in link => row[a].rating.breakdown.kev = 5)

\* The claim of risk_engine.py:3-6 that a rating can be reproduced from its components: the
\* tier of a row is that of its score.  Two sessions that each change a column break it.
TierFitsScore == \A a \in Assets : row[a].rating.tier = Tier(row[a].rating.score)
=============================================================================
