---------------------------- MODULE RiskScoresProofs ----------------------------
(***************************************************************************)
(* The risk engine rates every posture and every set of CVEs; and the      *)
(* ratings of RiskScores keep their types and their evidence, for any      *)
(* numbers of assets, CVEs, processes and failures.                        *)
(***************************************************************************)
EXTENDS RiskScores, WellFoundedInduction, FiniteSetTheorems, TLAPS

-----------------------------------------------------------------------------
(* The risk engine.                                                        *)

\* Tiers in the order of their severity.
Severity(tier) ==
  CASE tier = "Critical" -> 5 [] tier = "High" -> 4 [] tier = "Medium" -> 3
    [] tier = "Low" -> 2 [] tier = "Informational" -> 1

\* b is at least as good as c in every factor.
NoWorse(b, c) == \A factor \in DOMAIN WEIGHTS : b[factor] <= c[factor]

\* What the score reads of a CVE.
Facts == [cvss: 0..100, epss: 0..100, kev: BOOLEAN]

-----------------------------------------------------------------------------
(* Scores and tiers.                                                       *)

LEMMA WeightsAdd ==
  /\ DOMAIN WEIGHTS = {"cve", "kev", "controls", "exposure", "access", "criticality",
                       "data_classification"}
  /\ WEIGHTS.cve = 23 /\ WEIGHTS.kev = 18 /\ WEIGHTS.controls = 18 /\ WEIGHTS.exposure = 14
  /\ WEIGHTS.access = 9 /\ WEIGHTS.criticality = 10 /\ WEIGHTS.data_classification = 8
BY DEF WEIGHTS

\* The factor of KEV adds 18 or 90 hundredths to a sum of six weighted levels.
LEMMA ScoreIsSum ==
  ASSUME NEW b \in Breakdown
  PROVE  /\ Score(b) - b.kev * 18 \in 82..410
         /\ b.kev * 18 \in {18, 90}
         /\ Score(b) \in Int
<1>1. /\ b.cve \in 1..5 /\ b.kev \in {1, 5} /\ b.controls \in 1..5 /\ b.exposure \in 1..5
      /\ b.access \in 1..5 /\ b.criticality \in 1..5 /\ b.data_classification \in 1..5
  BY DEF Breakdown
<1> DEFINE p == b.cve  q == b.controls  r == b.exposure  s == b.access  t == b.criticality
           u == b.data_classification  k == b.kev
           rest == p * 23 + q * 18 + r * 14 + s * 9 + t * 10 + u * 8
<1>2. Score(b) = p * 23 + k * 18 + q * 18 + r * 14 + s * 9 + t * 10 + u * 8
  BY WeightsAdd DEF Score
<1>3. /\ p \in 1..5 /\ q \in 1..5 /\ r \in 1..5 /\ s \in 1..5 /\ t \in 1..5 /\ u \in 1..5
      /\ k \in {1, 5}
  BY <1>1
<1> HIDE DEF p, q, r, s, t, u, k
<1>4. Score(b) = rest + k * 18
  BY <1>2, <1>3
<1>5. rest \in 82..410
  <2> DEFINE m == p * 23 + q * 18 + r * 14
             n == s * 9 + t * 10 + u * 8
  <2>1. m \in 55..275
    BY <1>3
  <2>2. n \in 27..135
    BY <1>3
  <2>3. rest = m + n
    BY <1>3
  <2> HIDE DEF m, n, rest
  <2> QED
    BY <2>1, <2>2, <2>3
<1>6. k * 18 \in {18, 90}
  BY <1>3
<1> HIDE DEF rest
<1>7. Score(b) - k * 18 \in 82..410 /\ k * 18 \in {18, 90} /\ Score(b) \in Int
  BY <1>4, <1>5, <1>6
<1> QED
  BY <1>7 DEF k

\* A score is a weighted mean of levels, so it lies between 1 and 5 (risk_engine.py:103-113).
THEOREM ScoreIsBounded == \A b \in Breakdown : Score(b) \in 100..500
BY ScoreIsSum

\* A tier is never lowered by a higher score: the thresholds of risk_engine.py:58-67 ascend.
LEMMA TiersAscend ==
  ASSUME NEW s \in Int, NEW t \in Int, s <= t
  PROVE  Severity(Tier(s)) <= Severity(Tier(t))
BY DEF Severity, Tier

\* A breakdown that is worse in some factors, and better in none, never gets a lower score or
\* a lower tier.
THEOREM WorseNeverRatesLower ==
  \A b, c \in Breakdown :
    NoWorse(b, c) => /\ Rating(b).score <= Rating(c).score
                     /\ Severity(Rating(b).tier) <= Severity(Rating(c).tier)
<1>1. SUFFICES ASSUME NEW b \in Breakdown, NEW c \in Breakdown, NoWorse(b, c)
               PROVE  Score(b) <= Score(c) /\ Severity(Tier(Score(b))) <= Severity(Tier(Score(c)))
  BY DEF Rating
<1>2. /\ b.cve <= c.cve /\ b.kev <= c.kev /\ b.controls <= c.controls
      /\ b.exposure <= c.exposure /\ b.access <= c.access /\ b.criticality <= c.criticality
      /\ b.data_classification <= c.data_classification
  BY <1>1, WeightsAdd DEF NoWorse
<1>3. /\ b.cve \in Int /\ b.kev \in Int /\ b.controls \in Int /\ b.exposure \in Int
      /\ b.access \in Int /\ b.criticality \in Int /\ b.data_classification \in Int
  BY DEF Breakdown
<1>4. /\ c.cve \in Int /\ c.kev \in Int /\ c.controls \in Int /\ c.exposure \in Int
      /\ c.access \in Int /\ c.criticality \in Int /\ c.data_classification \in Int
  BY DEF Breakdown
<1>5. Score(b) <= Score(c)
  BY <1>2, <1>3, <1>4, WeightsAdd DEF Score
<1>6. Score(b) \in Int /\ Score(c) \in Int
  BY ScoreIsBounded
<1>7. Severity(Tier(Score(b))) <= Severity(Tier(Score(c)))
  BY <1>5, <1>6, TiersAscend
<1> QED
  BY <1>5, <1>7

\* An exploited CVE keeps an asset out of the lowest tier, however good its other factors are
\* (the weight and the levels of KEV at risk_engine.py:32 and 90).
THEOREM ExploitIsNeverInformational ==
  \A b \in Breakdown : b.kev = 5 => Tier(Score(b)) # "Informational"
<1>1. SUFFICES ASSUME NEW b \in Breakdown, b.kev = 5 PROVE Tier(Score(b)) # "Informational"
  OBVIOUS
<1>2. b.kev * 18 = 90
  BY <1>1
<1>3. Score(b) >= 172
  BY <1>2, ScoreIsSum
<1> QED
  BY <1>3, ScoreIsSum DEF Tier

-----------------------------------------------------------------------------
(* Factors.                                                                *)

\* The highest of a set of values is one of them, or 0.
LEMMA HighestIsBounded ==
  ASSUME NEW values, values \subseteq 0..100
  PROVE  Highest(values) \in 0..100
<1> DEFINE V == values \union {0}
           Above == {n \in Nat : \A u \in V : u <= n}
<1>1. 100 \in Above /\ Above \subseteq Nat
  OBVIOUS
<1>2. PICK n \in Above : \A m \in Above : n <= m
  <2>1. PICK n \in Above : \A m \in Above : <<m, n>> \notin OpToRel(<, Nat)
    <3> DEFINE Less == OpToRel(<, Nat)
    <3>1. IsWellFoundedOn(Less, Nat)
      BY NatLessThanWellFounded
    <3> HIDE DEF Less, Above
    <3>2. \E n \in Above : \A m \in Above : <<m, n>> \notin Less
      BY <1>1, <3>1, WFMin, Zenon
    <3> QED
      BY <3>2 DEF Less
  <2>2. \A m \in Above : ~(m < n)
    BY <1>1, <2>1 DEF OpToRel
  <2> QED
    BY <1>1, <2>2
<1>3. n \in V
  <2>1. SUFFICES ASSUME n \notin V PROVE FALSE
    OBVIOUS
  <2>2. n # 0 /\ \A u \in V : u <= n /\ u # n /\ u \in Nat
    BY <1>2, <2>1
  <2>3. n - 1 \in Above
    BY <1>2, <2>2
  <2> QED
    BY <1>2, <2>3
<1>4. \E v \in V : \A u \in V : u <= v
  BY <1>2, <1>3
<1>5. Highest(values) \in V
  BY <1>4 DEF Highest
<1>6. V \subseteq 0..100
  OBVIOUS
<1> QED
  BY <1>5, <1>6

\* round() and the two bounds around it give a level, whatever the rounding.
LEMMA NormsAreLevels ==
  ASSUME NEW n \in 0..100
  PROVE  NormCvss(n) \in 1..5 /\ NormEpss(n) \in 1..5
BY DEF NormCvss, NormEpss, Round, Level

\* What the maps know is a level, and so is the default.
LEMMA RatedIsLevel ==
  ASSUME NEW value, NEW default \in 1..5
  PROVE  /\ Rated(CONTROL_MAP, value, default) \in 1..5
         /\ Rated(EXPOSURE_MAP, value, default) \in 1..5
         /\ Rated(ACCESS_MAP, value, default) \in 1..5
         /\ Rated(CRITICALITY_MAP, value, default) \in 1..5
         /\ Rated(DATA_CLASSIFICATION_MAP, value, default) \in 1..5
BY DEF Rated, CONTROL_MAP, EXPOSURE_MAP, ACCESS_MAP, CRITICALITY_MAP, DATA_CLASSIFICATION_MAP

LEMMA CveFactorIsLevel ==
  ASSUME NEW facts, facts \subseteq Facts
  PROVE  CveFactor(facts) \in 1..5
<1>1. {f.cvss : f \in facts} \subseteq 0..100 /\ {f.epss : f \in facts} \subseteq 0..100
  BY DEF Facts
<1>2. Highest({f.cvss : f \in facts}) \in 0..100 /\ Highest({f.epss : f \in facts}) \in 0..100
  BY <1>1, HighestIsBounded
<1>3. /\ NormCvss(Highest({f.cvss : f \in facts})) \in 1..5
      /\ NormEpss(Highest({f.epss : f \in facts})) \in 1..5
  BY <1>2, NormsAreLevels
<1> QED
  BY <1>3 DEF CveFactor, Larger

\* Every factor of a rating is a level from 1 to 5, whatever words a posture holds and however
\* many CVEs there are, and the rating is that of its breakdown: score and tier agree.
THEOREM RiskIsRated ==
  ASSUME NEW posture, NEW facts, facts \subseteq Facts
  PROVE  /\ BreakdownOf(posture, facts) \in Breakdown
         /\ Risk(posture, facts) = Rating(BreakdownOf(posture, facts))
         /\ Risk(posture, facts).score \in 100..500
         /\ Risk(posture, facts).tier = Tier(Risk(posture, facts).score)
<1>1. KevFactor(facts) \in {1, 5}
  BY DEF KevFactor
<1>2. BreakdownOf(posture, facts) \in Breakdown
  BY <1>1, CveFactorIsLevel, RatedIsLevel DEF BreakdownOf, Breakdown
<1>3. Risk(posture, facts) = Rating(BreakdownOf(posture, facts))
  <2>1. {Rating(b) : b \in {BreakdownOf(posture, f) : f \in {facts}}}
          = {Rating(BreakdownOf(posture, facts))}
    OBVIOUS
  <2> QED
    BY <2>1, Zenon DEF Risk
<1> QED
  BY <1>2, <1>3, ScoreIsBounded DEF Rating

\* The factor of exploited CVEs is 5 exactly when one of them is in the KEV catalog.
THEOREM KevMeansExploited ==
  ASSUME NEW posture, NEW facts, facts \subseteq Facts
  PROVE  Risk(posture, facts).breakdown.kev = 5 <=> \E f \in facts : f.kev
<1>1. Risk(posture, facts).breakdown = BreakdownOf(posture, facts)
  BY RiskIsRated DEF Rating
<1>2. Risk(posture, facts).breakdown.kev = KevFactor(facts)
  BY <1>1 DEF BreakdownOf
<1> QED
  BY <1>2 DEF KevFactor

-----------------------------------------------------------------------------
(* The ratings of assets.                                                  *)

\* CVEs are never deleted: one that a task has seen is still stored.
SeenIsStored ==
  \A w \in Workers :
    job[w].phase \in {"storing", "syncing"} =>
      \A c \in DOMAIN job[w].seen : job[w].seen[c] # NoCve => Stored(c)

\* A link leads to a row.
LinksAreStored == \A a \in Assets, c \in Cves : <<a, c>> \in link => Stored(c)

ITypes == TypeOK /\ SeenIsStored /\ LinksAreStored

-----------------------------------------------------------------------------
(* Facts, ratings and the columns a commit writes.                         *)

LEMMA FactIsStored == \A f \in Fact : f # NoCve
<1>1. SUFFICES ASSUME NEW f \in Fact PROVE DOMAIN f # DOMAIN NoCve
  OBVIOUS
<1>2. "kev" \in DOMAIN f
  BY DEF Fact
<1>3. "kev" \notin DOMAIN NoCve
  BY DEF NoCve
<1> QED
  BY <1>2, <1>3

LEMMA ChangedFact ==
  ASSUME NEW stored \in Fact, NEW old \in Fact, NEW new \in Fact
  PROVE  /\ Changed(stored, old, new) \in Fact
         /\ Changed(stored, old, new).kev \in {stored.kev, new.kev}
BY DEF Changed, Fact

LEMMA ChangedRating ==
  ASSUME NEW stored \in Ratings, NEW old \in Ratings, NEW new \in Ratings
  PROVE  /\ Changed(stored, old, new) \in Ratings
         /\ Changed(stored, old, new).breakdown \in {stored.breakdown, new.breakdown}
<1>1. /\ stored = [score |-> stored.score, tier |-> stored.tier, breakdown |-> stored.breakdown]
      /\ DOMAIN stored = {"score", "tier", "breakdown"}
  BY DEF Ratings
<1>2. /\ stored.score \in 0..500 /\ stored.tier \in Tiers
      /\ stored.breakdown \in Breakdown \union {NoBreakdown}
      /\ new.score \in 0..500 /\ new.tier \in Tiers
      /\ new.breakdown \in Breakdown \union {NoBreakdown}
  BY DEF Ratings
<1>3. Changed(stored, old, new) =
        [column \in {"score", "tier", "breakdown"} |->
           IF new[column] = old[column] THEN stored[column] ELSE new[column]]
  BY <1>1 DEF Changed
<1> DEFINE r == Changed(stored, old, new)
<1>4. /\ r.score \in {stored.score, new.score}
      /\ r.tier \in {stored.tier, new.tier}
      /\ r.breakdown \in {stored.breakdown, new.breakdown}
  BY <1>3
<1>5. r = [score |-> r.score, tier |-> r.tier, breakdown |-> r.breakdown]
  BY <1>3
<1>6. /\ r.score \in 0..500 /\ r.tier \in Tiers /\ r.breakdown \in Breakdown \union {NoBreakdown}
  BY <1>2, <1>4
<1> HIDE DEF r
<1>7. [score |-> r.score, tier |-> r.tier, breakdown |-> r.breakdown] \in Ratings
  BY <1>6 DEF Ratings
<1>8. r \in Ratings
  BY <1>5, <1>7
<1> QED
  BY <1>4, <1>8 DEF r

LEMMA TierIsTier == \A s : Tier(s) \in Tiers
BY DEF Tier, Tiers

LEMMA RiskIsRating ==
  ASSUME NEW posture, NEW facts, facts \subseteq Fact
  PROVE  Risk(posture, facts) \in Ratings
<1>1. facts \subseteq Facts
  BY DEF Fact, Facts
<1> DEFINE b == BreakdownOf(posture, facts)
<1>2. b \in Breakdown /\ Risk(posture, facts) = Rating(b)
  BY <1>1, RiskIsRated
<1>3. Score(b) \in 0..500
  BY <1>2, ScoreIsBounded
<1> HIDE DEF b
<1>4. [score |-> Score(b), tier |-> Tier(Score(b)), breakdown |-> b] \in Ratings
  BY <1>2, <1>3, TierIsTier DEF Ratings
<1> QED
  BY <1>2, <1>4 DEF Rating

LEMMA UnratedIsRating == Unrated \in Ratings
BY DEF Unrated, Ratings, Tiers

\* The rows the links of an asset lead to are facts.
LEMMA EvidenceIsFacts ==
  ASSUME ITypes, NEW a \in Assets
  PROVE  Evidence(a) \subseteq Fact
BY DEF ITypes, TypeOK, LinksAreStored, Evidence, Stored

-----------------------------------------------------------------------------
(* Types.                                                                  *)

LEMMA InitTypes == Init => ITypes
<1> SUFFICES ASSUME Init PROVE ITypes
  OBVIOUS
<1>1. \A q \in Postures : Risk(q, {}) \in Ratings
  BY RiskIsRating
<1>2. row \in [Assets -> Row]
  BY <1>1, UnratedIsRating DEF Init, Row
<1>3. /\ cve \in [Cves -> Fact \union {NoCve}] /\ link = {}
      /\ job = [w \in Workers |-> Idle] /\ rescore = Idle
      /\ outages \in 0..MaxOutages /\ edits \in 0..MaxEdits
  BY BoundsAreNaturals DEF Init
<1>4. IsJob(Idle) /\ Idle.phase = "idle"
  BY DEF IsJob, Idle
<1>5. TypeOK
  BY <1>2, <1>3, <1>4 DEF TypeOK
<1>6. SeenIsStored
  BY <1>3, <1>4 DEF SeenIsStored
<1> QED
  BY <1>3, <1>5, <1>6 DEF ITypes, LinksAreStored

\* A step that changes one task, and no row of a CVE or link, keeps the types if the task
\* it leaves has its type.
LEMMA TaskTypes ==
  ASSUME ITypes, NEW w \in Workers, NEW j,
         job' = [job EXCEPT ![w] = j], IsJob(j),
         j.phase \in {"storing", "syncing"} => \A c \in DOMAIN j.seen : j.seen[c] # NoCve => Stored(c),
         UNCHANGED <<row, cve, link, rescore, edits>>, outages' \in 0..MaxOutages
  PROVE  ITypes'
<1>1. \A v \in Workers : job'[v] = IF v = w THEN j ELSE job[v]
  BY DEF ITypes, TypeOK
<1>2. DOMAIN job' = Workers /\ \A v \in Workers : IsJob(job'[v])
  BY <1>1 DEF ITypes, TypeOK
<1>3. TypeOK'
  BY <1>2 DEF ITypes, TypeOK, IsJob
<1>4. \A c : Stored(c)' <=> Stored(c)
  BY DEF Stored
<1>5. SeenIsStored'
  BY <1>1, <1>4 DEF ITypes, SeenIsStored
<1>6. LinksAreStored'
  BY <1>4 DEF ITypes, LinksAreStored
<1> QED
  BY <1>3, <1>5, <1>6 DEF ITypes

LEMMA IdleIsJob == IsJob(Idle) /\ Idle.phase = "idle"
BY DEF IsJob, Idle

\* The parts of a task that is about to store what it found.
LEMMA StoringHas ==
  ASSUME NEW j, IsJob(j), j.phase = "storing"
  PROVE  /\ j.catalog \in {{}, Catalog} /\ Some(j.old, Assets, Row) /\ j.asset \in DOMAIN j.old
         /\ Some(j.found, Listing[j.asset], Fact) /\ Some(j.seen, Cves, Fact \union {NoCve})
         /\ j.unlinked \subseteq DOMAIN j.found /\ DOMAIN j.seen = DOMAIN j.found
BY DEF IsJob, Idle

LEMMA QueryingHas ==
  ASSUME NEW j, IsJob(j), j.phase = "querying"
  PROVE  j.catalog \in {{}, Catalog} /\ Some(j.old, Assets, Row)
BY DEF IsJob, Idle

LEMMA SyncingHas ==
  ASSUME NEW j, IsJob(j), j.phase = "syncing"
  PROVE  j.seen \in [Catalog -> Fact \union {NoCve}]
BY DEF IsJob, Idle

LEMMA StartBatchTypes ==
  ASSUME ITypes, NEW w \in Workers, NEW batch \in SUBSET Assets, StartBatch(w, batch)
  PROVE  ITypes'
<1> DEFINE j == [phase |-> "querying", catalog |-> {}, old |-> [a \in batch |-> row[a]]]
<1>1. Some(j.old, Assets, Row)
  BY DEF ITypes, TypeOK, Some
<1>2. IsJob(j) /\ j.phase = "querying"
  BY <1>1 DEF IsJob
<1>3. /\ job' = [job EXCEPT ![w] = j] /\ outages' \in 0..MaxOutages
      /\ UNCHANGED <<row, cve, link, rescore, edits>>
  BY DEF StartBatch, ITypes, TypeOK
<1> HIDE DEF j
<1> QED
  BY <1>2, <1>3, TaskTypes

LEMMA CountsAreNaturals == \A x, y : Cardinality({x} \ {y}) \in Nat
<1>1. SUFFICES ASSUME NEW x, NEW y PROVE Cardinality({x} \ {y}) \in Nat
  OBVIOUS
<1>2. IsFiniteSet({x})
  BY FS_Singleton
<1>3. IsFiniteSet({x} \ {y})
  BY <1>2, FS_Subset
<1> QED
  BY <1>3, FS_CardinalityType

LEMMA QueryTypes ==
  ASSUME ITypes, NEW w \in Workers, NEW a \in Assets, NEW catalog \in {{}, Catalog},
         NEW scored \in BOOLEAN, NEW found \in SUBSET Listing[a], Query(w, a, catalog, found, scored)
  PROVE  ITypes'
<1> DEFINE j == [phase |-> "storing", asset |-> a, old |-> job[w].old, catalog |-> catalog,
                 found |-> [c \in found |-> Fetched(c, catalog, scored)],
                 seen |-> [c \in found |-> cve[c]],
                 unlinked |-> {c \in found : <<a, c>> \notin link}]
<1>1. found \subseteq Cves
  BY ListingIsOfCves
<1>2. Some(job[w].old, Assets, Row) /\ a \in DOMAIN job[w].old
  BY QueryingHas DEF ITypes, TypeOK, Query
<1>3. \A c \in found : Fetched(c, catalog, scored) \in Fact
  BY <1>1, FactsAreNumbers DEF Fetched, Fact
<1>4. Some(j.found, Listing[j.asset], Fact)
  BY <1>3 DEF Some
<1>5. Some(j.seen, Cves, Fact \union {NoCve})
  BY <1>1 DEF ITypes, TypeOK, Some
<1>6. IsJob(j)
  BY <1>2, <1>4, <1>5 DEF IsJob
<1>7. \A c \in DOMAIN j.seen : j.seen[c] # NoCve => Stored(c)
  BY DEF Stored
<1>8. job' = [job EXCEPT ![w] = j]
  BY DEF Query
<1>9. outages' \in 0..MaxOutages
  <2> DEFINE k == Cardinality({catalog} \ {Catalog})
             l == Cardinality({found} \ {Listing[a]})
             m == Cardinality({scored} \ {TRUE})
  <2>1. k \in Nat /\ l \in Nat /\ m \in Nat
    BY CountsAreNaturals
  <2>2. outages' = outages + (k + l + m) /\ outages + (k + l + m) <= MaxOutages
    BY DEF Query
  <2>3. outages \in Nat /\ MaxOutages \in Nat
    BY BoundsAreNaturals DEF ITypes, TypeOK
  <2> HIDE DEF k, l, m
  <2> QED
    BY <2>1, <2>2, <2>3
<1>10. UNCHANGED <<row, cve, link, rescore, edits>>
  BY DEF Query
<1> HIDE DEF j
<1> QED
  BY <1>6, <1>7, <1>8, <1>9, <1>10, TaskTypes

LEMMA StartSyncTypes ==
  ASSUME ITypes, NEW w \in Workers, StartSync(w)
  PROVE  ITypes'
<1> DEFINE j == [phase |-> "syncing", seen |-> [c \in Catalog |-> cve[c]]]
<1>1. IsJob(j)
  BY ListingIsOfCves DEF IsJob, ITypes, TypeOK
<1>2. \A c \in DOMAIN j.seen : j.seen[c] # NoCve => Stored(c)
  BY DEF Stored
<1>3. /\ job' = [job EXCEPT ![w] = j] /\ outages' \in 0..MaxOutages
      /\ UNCHANGED <<row, cve, link, rescore, edits>>
  BY DEF StartSync, ITypes, TypeOK
<1> HIDE DEF j
<1> QED
  BY <1>1, <1>2, <1>3, TaskTypes

LEMMA LoseTypes ==
  ASSUME ITypes, NEW w \in Workers, Lose(w)
  PROVE  ITypes'
<1>1. outages' \in 0..MaxOutages
  BY BoundsAreNaturals DEF Lose, ITypes, TypeOK
<1>2. job' = [job EXCEPT ![w] = Idle] /\ UNCHANGED <<row, cve, link, rescore, edits>>
  BY DEF Lose
<1> QED
  BY <1>1, <1>2, IdleIsJob, TaskTypes

\* The row of a CVE after a task stored what it found: a fact, if it was one before or is one
\* of those the task found.
LEMMA StoredFact ==
  ASSUME NEW stored \in Fact \union {NoCve}, NEW seen \in Fact \union {NoCve}, NEW fact \in Fact,
         seen # NoCve => stored # NoCve
  PROVE  LET new == IF seen = NoCve THEN fact ELSE Changed(stored, seen, Updated(seen, fact))
         IN  /\ new \in Fact
             /\ new.kev => fact.kev \/ (seen # NoCve /\ stored.kev)
<1>1. CASE seen = NoCve
  BY <1>1
<1>2. CASE seen # NoCve
  <2>1. stored \in Fact /\ seen \in Fact
    BY <1>2
  <2>2. Updated(seen, fact) \in Fact /\ Updated(seen, fact).kev = fact.kev
    BY <2>1 DEF Updated, Fact
  <2>3. /\ Changed(stored, seen, Updated(seen, fact)) \in Fact
        /\ Changed(stored, seen, Updated(seen, fact)).kev \in {stored.kev, fact.kev}
    BY <2>1, <2>2, ChangedFact
  <2> QED
    BY <1>2, <2>3
<1> QED
  BY <1>1, <1>2

\* The row of a CVE after a refresh of the catalog.
LEMMA SyncedFact ==
  ASSUME NEW stored \in Fact \union {NoCve}, NEW seen \in Fact \union {NoCve},
         seen # NoCve => stored # NoCve
  PROVE  Synced(stored, seen) \in Fact
<1>1. CASE seen = NoCve
  BY <1>1 DEF Synced, Fact
<1>2. CASE seen # NoCve
  <2>1. stored \in Fact /\ seen \in Fact /\ [seen EXCEPT !.kev = TRUE] \in Fact
    BY <1>2 DEF Fact
  <2> QED
    BY <1>2, <2>1, ChangedFact DEF Synced
<1> QED
  BY <1>1, <1>2

\* A step that adds facts, and perhaps links to them, and ends or continues a task keeps the
\* types.
LEMMA GrowthTypes ==
  ASSUME ITypes, NEW w \in Workers, NEW j,
         job' = [job EXCEPT ![w] = j], IsJob(j), j.phase \notin {"storing", "syncing"},
         row' \in [Assets -> Row], cve' \in [Cves -> Fact \union {NoCve}],
         link' \subseteq Assets \X Cves,
         \A c \in Cves : Stored(c) => cve'[c] # NoCve,
         \A a \in Assets, c \in Cves : <<a, c>> \in link' \ link => cve'[c] # NoCve,
         UNCHANGED <<rescore, outages, edits>>
  PROVE  ITypes'
<1>1. \A v \in Workers : job'[v] = IF v = w THEN j ELSE job[v]
  BY DEF ITypes, TypeOK
<1>2. DOMAIN job' = Workers /\ \A v \in Workers : IsJob(job'[v])
  BY <1>1 DEF ITypes, TypeOK
<1>3. TypeOK'
  BY <1>2 DEF ITypes, TypeOK, IsJob
<1>4. \A v \in Workers : job[v].phase \in {"storing", "syncing"} => DOMAIN job[v].seen \subseteq Cves
  <2>1. SUFFICES ASSUME NEW v \in Workers, job[v].phase \in {"storing", "syncing"}
                 PROVE  DOMAIN job[v].seen \subseteq Cves
    OBVIOUS
  <2>2. IsJob(job[v])
    BY DEF ITypes, TypeOK
  <2>3. CASE job[v].phase = "storing"
    BY <2>2, <2>3, StoringHas DEF Some
  <2>4. CASE job[v].phase = "syncing"
    BY <2>2, <2>4, SyncingHas, ListingIsOfCves
  <2> QED
    BY <2>1, <2>3, <2>4
<1>5. SeenIsStored'
  BY <1>1, <1>4 DEF ITypes, SeenIsStored, Stored
<1>6. LinksAreStored'
  BY DEF ITypes, LinksAreStored, Stored
<1> QED
  BY <1>3, <1>5, <1>6 DEF ITypes

\* What a task stores when no row it inserts is there already.
LEMMA StoreEffect ==
  ASSUME ITypes, NEW w \in Workers, Store(w), ~Duplicates(job[w])
  PROVE  LET j == job[w] IN
         /\ Some(j.old, Assets, Row) /\ j.asset \in Assets /\ j.asset \in DOMAIN j.old
         /\ DOMAIN j.found \subseteq Cves /\ \A c \in DOMAIN j.found : j.found[c] \in Fact
         /\ j.unlinked \subseteq DOMAIN j.found
         /\ \A c \in DOMAIN j.found :
              cve'[c] \in Fact /\ (cve'[c].kev => j.found[c].kev \/ (Stored(c) /\ cve[c].kev))
         /\ \A c \in Cves \ DOMAIN j.found : cve'[c] = cve[c]
         /\ cve' = [c \in Cves |-> cve'[c]]
         /\ link' = link \union {<<j.asset, c>> : c \in j.unlinked}
<1> DEFINE j == job[w]
<1>1. IsJob(j) /\ j.phase = "storing"
  BY DEF Store, ITypes, TypeOK
<1>2. /\ cve' = [c \in Cves |->
                    IF c \notin DOMAIN j.found THEN cve[c]
                    ELSE IF j.seen[c] = NoCve THEN j.found[c]
                    ELSE Changed(cve[c], j.seen[c], Updated(j.seen[c], j.found[c]))]
      /\ link' = link \union {<<j.asset, c>> : c \in j.unlinked}
  BY DEF Store
<1>3. /\ Some(j.old, Assets, Row) /\ j.asset \in Assets /\ j.asset \in DOMAIN j.old
      /\ DOMAIN j.found \subseteq Cves /\ \A c \in DOMAIN j.found : j.found[c] \in Fact
      /\ \A c \in DOMAIN j.found : j.seen[c] \in Fact \union {NoCve}
      /\ j.unlinked \subseteq DOMAIN j.found /\ DOMAIN j.seen = DOMAIN j.found
  BY <1>1, StoringHas, ListingIsOfCves DEF Some
<1>4. \A c \in DOMAIN j.found : j.seen[c] # NoCve => cve[c] # NoCve
  BY <1>1, <1>3 DEF ITypes, SeenIsStored, Stored
<1>5. \A c \in DOMAIN j.found :
        cve'[c] \in Fact /\ (cve'[c].kev => j.found[c].kev \/ (Stored(c) /\ cve[c].kev))
  <2>1. SUFFICES ASSUME NEW c \in DOMAIN j.found
                 PROVE  /\ cve'[c] \in Fact
                        /\ cve'[c].kev => j.found[c].kev \/ (Stored(c) /\ cve[c].kev)
    OBVIOUS
  <2>2. cve[c] \in Fact \union {NoCve} /\ j.seen[c] \in Fact \union {NoCve} /\ j.found[c] \in Fact
    BY <1>3 DEF ITypes, TypeOK
  <2>3. cve'[c] = IF j.seen[c] = NoCve THEN j.found[c]
                  ELSE Changed(cve[c], j.seen[c], Updated(j.seen[c], j.found[c]))
    BY <1>2, <1>3
  <2>4. /\ cve'[c] \in Fact
        /\ cve'[c].kev => j.found[c].kev \/ (j.seen[c] # NoCve /\ cve[c].kev)
    BY <1>4, <2>2, <2>3, StoredFact
  <2> QED
    BY <1>4, <2>4 DEF Stored
<1>6. \A c \in Cves \ DOMAIN j.found : cve'[c] = cve[c]
  BY <1>2
<1>7. cve' = [c \in Cves |-> cve'[c]]
  BY <1>2
<1> QED
  BY <1>2, <1>3, <1>5, <1>6, <1>7

LEMMA StoreTypes ==
  ASSUME ITypes, NEW w \in Workers, Store(w)
  PROVE  ITypes'
<1> DEFINE j == job[w]
           rest == DOMAIN j.old \ {j.asset}
           new == Risk(j.old[j.asset].posture, {j.found[c] : c \in DOMAIN j.found})
           next == IF rest = {} THEN Idle
                   ELSE [phase |-> "querying", catalog |-> j.catalog, old |-> [a \in rest |-> j.old[a]]]
<1>1. IsJob(j) /\ j.phase = "storing"
  BY DEF Store, ITypes, TypeOK
<1>2. CASE Duplicates(j)
  <2>1. job' = [job EXCEPT ![w] = Idle] /\ UNCHANGED <<row, cve, link, rescore, outages, edits>>
    BY <1>2 DEF Store
  <2> QED
    BY <2>1, IdleIsJob, TaskTypes DEF ITypes, TypeOK
<1>3. CASE ~Duplicates(j)
  <2>1. /\ row' = [row EXCEPT ![j.asset].rating = Changed(@, j.old[j.asset].rating, new)]
        /\ job' = [job EXCEPT ![w] = next]
        /\ UNCHANGED <<rescore, outages, edits>>
    BY <1>3 DEF Store
  <2>2. /\ Some(j.old, Assets, Row) /\ j.asset \in Assets /\ j.asset \in DOMAIN j.old
        /\ DOMAIN j.found \subseteq Cves /\ \A c \in DOMAIN j.found : j.found[c] \in Fact
        /\ j.unlinked \subseteq DOMAIN j.found
        /\ \A c \in DOMAIN j.found : cve'[c] \in Fact
        /\ \A c \in Cves \ DOMAIN j.found : cve'[c] = cve[c]
        /\ cve' = [c \in Cves |-> cve'[c]]
        /\ link' = link \union {<<j.asset, c>> : c \in j.unlinked}
    BY <1>3, StoreEffect
  <2>3. {j.found[c] : c \in DOMAIN j.found} \subseteq Fact
    BY <2>2
  <2>4. new \in Ratings
    BY <2>3, RiskIsRating
  <2>5. row' \in [Assets -> Row]
    <3>1. row[j.asset] \in Row /\ j.old[j.asset] \in Row
      BY <2>2 DEF ITypes, TypeOK, Some
    <3>2. row[j.asset].rating \in Ratings /\ j.old[j.asset].rating \in Ratings
      BY <3>1 DEF Row
    <3>3. Changed(row[j.asset].rating, j.old[j.asset].rating, new) \in Ratings
      BY <2>4, <3>2, ChangedRating
    <3> DEFINE changed == [row[j.asset] EXCEPT !.rating = Changed(@, j.old[j.asset].rating, new)]
    <3>4. changed \in Row
      BY <3>1, <3>3 DEF Row
    <3>5. row' = [row EXCEPT ![j.asset] = changed]
      BY <2>1
    <3> HIDE DEF changed
    <3> QED
      BY <3>4, <3>5 DEF ITypes, TypeOK
  <2>7. cve' \in [Cves -> Fact \union {NoCve}]
    <3>1. \A c \in Cves : cve'[c] \in Fact \union {NoCve}
      BY <2>2 DEF ITypes, TypeOK
    <3> QED
      BY <2>2, <3>1
  <2>8. \A c \in Cves : Stored(c) => cve'[c] # NoCve
    BY <2>2, FactIsStored DEF Stored
  <2>9. link' \subseteq Assets \X Cves
    BY <2>2 DEF ITypes, TypeOK
  <2>10. \A a \in Assets, c \in Cves : <<a, c>> \in link' \ link => cve'[c] # NoCve
    BY <2>2, FactIsStored
  <2>11. IsJob(next) /\ next.phase \notin {"storing", "syncing"}
    <3>1. CASE rest = {}
      BY <3>1, IdleIsJob
    <3>2. CASE rest # {}
      <4> DEFINE more == [a \in rest |-> j.old[a]]
      <4>1. Some(more, Assets, Row)
        BY <2>2 DEF Some
      <4> HIDE DEF more
      <4>2. /\ IsJob([phase |-> "querying", catalog |-> j.catalog, old |-> more])
            /\ [phase |-> "querying", catalog |-> j.catalog, old |-> more].phase = "querying"
        BY <1>1, <4>1, StoringHas DEF IsJob
      <4> QED
        BY <3>2, <4>2 DEF more
    <3> QED
      BY <3>1, <3>2
  <2> HIDE DEF next
  <2> QED
    BY <2>1, <2>5, <2>7, <2>8, <2>9, <2>10, <2>11, GrowthTypes
<1> QED
  BY <1>2, <1>3

LEMMA FinishSyncTypes ==
  ASSUME ITypes, NEW w \in Workers, FinishSync(w)
  PROVE  ITypes'
<1> DEFINE j == job[w]
<1>1. IsJob(j) /\ j.phase = "syncing"
  BY DEF FinishSync, ITypes, TypeOK
<1>2. j.seen \in [Catalog -> Fact \union {NoCve}] /\ Catalog \subseteq Cves
  BY <1>1, SyncingHas, ListingIsOfCves
<1>3. cve' = [c \in Cves |-> IF c \in Catalog /\ ~Duplicates(j) THEN Synced(cve[c], j.seen[c]) ELSE cve[c]]
  BY DEF FinishSync
<1>4. \A c \in Catalog : Synced(cve[c], j.seen[c]) \in Fact
  <2>1. SUFFICES ASSUME NEW c \in Catalog PROVE Synced(cve[c], j.seen[c]) \in Fact
    OBVIOUS
  <2>2. cve[c] \in Fact \union {NoCve} /\ j.seen[c] \in Fact \union {NoCve}
    BY <1>2 DEF ITypes, TypeOK
  <2>3. j.seen[c] # NoCve => cve[c] # NoCve
    BY <1>1, <1>2 DEF ITypes, SeenIsStored, Stored
  <2> QED
    BY <2>2, <2>3, SyncedFact
<1>5. \A c \in Cves : cve'[c] \in Fact \/ cve'[c] = cve[c]
  BY <1>3, <1>4
<1>6. cve' \in [Cves -> Fact \union {NoCve}]
  <2>1. \A c \in Cves : cve'[c] \in Fact \union {NoCve}
    BY <1>5 DEF ITypes, TypeOK
  <2>2. cve' = [c \in Cves |-> cve'[c]]
    BY <1>3
  <2> QED
    BY <2>1, <2>2
<1>7. \A c \in Cves : Stored(c) => cve'[c] # NoCve
  BY <1>5, FactIsStored DEF Stored
<1>8. /\ job' = [job EXCEPT ![w] = Idle] /\ UNCHANGED <<row, link, rescore, outages, edits>>
  BY DEF FinishSync
<1>9. row' \in [Assets -> Row] /\ link' \subseteq Assets \X Cves
  BY <1>8 DEF ITypes, TypeOK
<1> QED
  BY <1>6, <1>7, <1>8, <1>9, IdleIsJob, GrowthTypes

\* A step of a row or of the rescoring pass.
LEMMA RowTypes ==
  ASSUME ITypes, UNCHANGED <<cve, link, job, outages>>, row' \in [Assets -> Row],
         rescore' \in [old: [Assets -> Ratings], new: [Assets -> Ratings]] \union {Idle},
         edits' \in 0..MaxEdits
  PROVE  ITypes'
<1>1. TypeOK'
  BY DEF ITypes, TypeOK, IsJob
<1>2. SeenIsStored' /\ LinksAreStored'
  BY DEF ITypes, SeenIsStored, LinksAreStored, Stored
<1> QED
  BY <1>1, <1>2 DEF ITypes

LEMMA RescoreTypes ==
  ASSUME ITypes, Rescore
  PROVE  ITypes'
<1> DEFINE old == [a \in Assets |-> row[a].rating]
           new == [a \in Assets |-> Risk(row[a].posture, Evidence(a))]
<1>1. old \in [Assets -> Ratings]
  BY DEF ITypes, TypeOK, Row
<1>2. new \in [Assets -> Ratings]
  BY EvidenceIsFacts, RiskIsRating
<1>3. rescore' = [old |-> old, new |-> new] /\ UNCHANGED <<row, cve, link, job, outages, edits>>
  BY DEF Rescore
<1> HIDE DEF old, new
<1>4. rescore' \in [old: [Assets -> Ratings], new: [Assets -> Ratings]]
  BY <1>1, <1>2, <1>3
<1> QED
  BY <1>3, <1>4, RowTypes DEF ITypes, TypeOK

LEMMA RescoreCommitTypes ==
  ASSUME ITypes, RescoreCommit
  PROVE  ITypes'
<1>1. rescore.old \in [Assets -> Ratings] /\ rescore.new \in [Assets -> Ratings]
  BY DEF RescoreCommit, ITypes, TypeOK
<1>2. row' \in [Assets -> Row]
  <2> DEFINE rated(a) == [row[a] EXCEPT !.rating = Changed(@, rescore.old[a], rescore.new[a])]
  <2>1. ASSUME NEW a \in Assets PROVE rated(a) \in Row
    <3>1. row[a] \in Row /\ row[a].rating \in Ratings
      BY DEF ITypes, TypeOK, Row
    <3>2. Changed(row[a].rating, rescore.old[a], rescore.new[a]) \in Ratings
      BY <1>1, <3>1, ChangedRating
    <3> QED
      BY <3>1, <3>2 DEF Row
  <2>2. row' = [a \in Assets |-> rated(a)]
    BY DEF RescoreCommit
  <2> HIDE DEF rated
  <2> QED
    BY <2>1, <2>2
<1> QED
  BY <1>2, RowTypes DEF RescoreCommit, ITypes, TypeOK

LEMMA UpdateTypes ==
  ASSUME ITypes, NEW a \in Assets, NEW posture \in Postures, Update(a, posture)
  PROVE  ITypes'
<1>1. Risk(posture, Evidence(a)) \in Ratings
  BY EvidenceIsFacts, RiskIsRating
<1>2. [posture |-> posture, rating |-> Risk(posture, Evidence(a))] \in Row
  BY <1>1 DEF Row
<1>3. row' \in [Assets -> Row]
  BY <1>2 DEF Update, ITypes, TypeOK
<1>4. edits' \in 0..MaxEdits
  BY BoundsAreNaturals DEF Update, ITypes, TypeOK
<1> QED
  BY <1>3, <1>4, RowTypes DEF Update, ITypes, TypeOK

LEMMA NextTypes == ITypes /\ [Next]_vars => ITypes'
<1> SUFFICES ASSUME ITypes, [Next]_vars PROVE ITypes'
  OBVIOUS
<1>1. ASSUME NEW w \in Workers, NEW a \in Assets, NEW catalog \in {{}, Catalog},
             NEW scored \in BOOLEAN, NEW found \in SUBSET Listing[a],
             Query(w, a, catalog, found, scored)
      PROVE  ITypes'
  BY <1>1, QueryTypes
<1>2. ASSUME NEW w \in Workers, Store(w) \/ FinishSync(w) \/ StartSync(w) \/ Lose(w)
      PROVE  ITypes'
  BY <1>2, StoreTypes, FinishSyncTypes, StartSyncTypes, LoseTypes
<1>3. ASSUME NEW w \in Workers, NEW batch \in SUBSET Assets, StartBatch(w, batch) PROVE ITypes'
  BY <1>3, StartBatchTypes
<1>4. CASE Rescore \/ RescoreCommit
  BY <1>4, RescoreTypes, RescoreCommitTypes
<1>5. ASSUME NEW a \in Assets, NEW posture \in Postures, Update(a, posture) PROVE ITypes'
  BY <1>5, UpdateTypes
<1>6. CASE UNCHANGED vars
  BY <1>6 DEF vars, ITypes, TypeOK, IsJob, SeenIsStored, LinksAreStored, Stored
<1> QED
  BY <1>1, <1>2, <1>3, <1>4, <1>5, <1>6 DEF Next, Enrich

\* Rows, tasks and the rescoring pass keep their types, and every factor of a rating is a
\* level from 1 to 5 (risk_engine.py:117-131), whatever fails.
THEOREM RatingsTypeCorrect == Spec => []TypeOK
<1>1. ITypes => TypeOK
  BY DEF ITypes
<1> QED
  BY <1>1, InitTypes, NextTypes, PTL DEF Spec

-----------------------------------------------------------------------------
(* Evidence.  A rating is justified if it counts no exploited CVE or the   *)
(* asset is linked to one of the catalog.  Links and CVEs are never        *)
(* removed, so a rating that was read while it was justified still is when *)
(* it is written.                                                          *)

Linked(a) == \E c \in Catalog : <<a, c>> \in link /\ Stored(c)
Justified(a, rating) == rating.breakdown.kev = 5 => Linked(a)

\* Only CVEs of the catalog are stored as exploited.
KevIsCatalog == \A c \in Cves : Stored(c) /\ cve[c].kev => c \in Catalog

\* What a task has read and found is justified, and leads to links once it is stored.
TaskIsJustified(w) ==
  /\ job[w].phase \in {"querying", "storing"} =>
       \A a \in DOMAIN job[w].old : Justified(a, job[w].old[a].rating)
  /\ job[w].phase = "storing" =>
       \A c \in DOMAIN job[w].found :
         /\ job[w].found[c].kev => c \in Catalog
         /\ c \in job[w].unlinked \/ <<job[w].asset, c>> \in link

PassIsJustified ==
  rescore # Idle =>
    \A a \in Assets : Justified(a, rescore.old[a]) /\ Justified(a, rescore.new[a])

IInv ==
  /\ ITypes
  /\ KevIsCatalog
  /\ \A a \in Assets : Justified(a, row[a].rating)
  /\ \A w \in Workers : TaskIsJustified(w)
  /\ PassIsJustified

LEMMA ChangedIsJustified ==
  ASSUME NEW a \in Assets, NEW stored \in Ratings, NEW old \in Ratings, NEW new \in Ratings,
         Justified(a, stored), Justified(a, new)
  PROVE  Justified(a, Changed(stored, old, new))
BY ChangedRating DEF Justified

\* A rating computed from what is stored is justified.
LEMMA EvidenceIsJustified ==
  ASSUME IInv, NEW a \in Assets, NEW posture
  PROVE  Justified(a, Risk(posture, Evidence(a)))
<1>1. Evidence(a) \subseteq Facts
  BY EvidenceIsFacts DEF IInv, Fact, Facts
<1>2. SUFFICES ASSUME Risk(posture, Evidence(a)).breakdown.kev = 5 PROVE Linked(a)
  BY DEF Justified
<1>3. PICK f \in Evidence(a) : f.kev
  BY <1>1, <1>2, KevMeansExploited
<1>4. PICK c \in Cves : <<a, c>> \in link /\ f = cve[c]
  BY <1>3 DEF Evidence
<1>5. Stored(c)
  BY <1>4 DEF IInv, ITypes, LinksAreStored
<1>6. c \in Catalog
  BY <1>3, <1>4, <1>5 DEF IInv, KevIsCatalog
<1> QED
  BY <1>4, <1>5, <1>6 DEF Linked

LEMMA NothingIsExploited ==
  ASSUME NEW a \in Assets, NEW posture
  PROVE  Justified(a, Risk(posture, {})) /\ Justified(a, Unrated)
<1>1. Risk(posture, {}).breakdown.kev # 5
  BY KevMeansExploited
<1>2. Unrated.breakdown.kev # 5
  BY DEF Unrated, NoBreakdown, WEIGHTS
<1> QED
  BY <1>1, <1>2 DEF Justified

LEMMA InitJustified == Init => IInv
<1> SUFFICES ASSUME Init PROVE IInv
  OBVIOUS
<1>1. KevIsCatalog
  BY DEF Init, KevIsCatalog, Stored
<1>2. \A a \in Assets : Justified(a, row[a].rating)
  BY NothingIsExploited DEF Init
<1>3. \A w \in Workers : TaskIsJustified(w)
  BY IdleIsJob DEF Init, TaskIsJustified
<1>4. PassIsJustified
  BY DEF Init, PassIsJustified
<1> QED
  BY <1>1, <1>2, <1>3, <1>4, InitTypes DEF IInv

\* What is justified stays so while rows and links are only added.
LEMMA JustifiedStays ==
  ASSUME link \subseteq link', \A c \in Cves : Stored(c) => Stored(c)', NEW a, NEW rating
  PROVE  Justified(a, rating) => Justified(a, rating)'
BY ListingIsOfCves DEF Justified, Linked

\* A step of one task that adds no row and no link.
LEMMA TaskJustified ==
  ASSUME IInv, ITypes', NEW w \in Workers, job' = [job EXCEPT ![w] = job'[w]],
         UNCHANGED <<row, cve, link, rescore>>, TaskIsJustified(w)'
  PROVE  IInv'
<1>1. \A a, rating : Justified(a, rating)' <=> Justified(a, rating)
  BY DEF Justified, Linked, Stored
<1>2. KevIsCatalog' /\ PassIsJustified' /\ \A a \in Assets : Justified(a, row[a].rating)'
  BY <1>1 DEF IInv, KevIsCatalog, PassIsJustified, Stored
<1>3. \A v \in Workers \ {w} : job'[v] = job[v]
  BY DEF IInv, ITypes, TypeOK
<1>4. \A v \in Workers : TaskIsJustified(v)'
  BY <1>1, <1>3 DEF IInv, TaskIsJustified
<1> QED
  BY <1>2, <1>4 DEF IInv

LEMMA StoreJustified ==
  ASSUME IInv, NEW w \in Workers, NEW j, j = job[w], Store(w)
  PROVE  IInv'
<1> DEFINE rest == DOMAIN j.old \ {j.asset}
           facts == {j.found[c] : c \in DOMAIN j.found}
           new == Risk(j.old[j.asset].posture, facts)
           next == IF rest = {} THEN Idle
                   ELSE [phase |-> "querying", catalog |-> j.catalog, old |-> [a \in rest |-> j.old[a]]]
<1>1. ITypes /\ ITypes' /\ j.phase = "storing" /\ TaskIsJustified(w)
  BY StoreTypes DEF IInv, Store
<1>2. CASE Duplicates(j)
  <2>1. job' = [job EXCEPT ![w] = Idle] /\ UNCHANGED <<row, cve, link, rescore>>
    BY <1>2 DEF Store
  <2>2. job'[w] = Idle
    BY <1>1, <2>1 DEF ITypes, TypeOK
  <2>3. TaskIsJustified(w)'
    BY <2>2, IdleIsJob DEF TaskIsJustified
  <2> QED
    BY <1>1, <2>1, <2>2, <2>3, TaskJustified
<1>3. CASE ~Duplicates(j)
  <2>1. /\ row' = [row EXCEPT ![j.asset].rating = Changed(@, j.old[j.asset].rating, new)]
        /\ job' = [job EXCEPT ![w] = next] /\ rescore' = rescore
    BY <1>3 DEF Store
  <2>2. /\ Some(j.old, Assets, Row) /\ j.asset \in Assets /\ j.asset \in DOMAIN j.old
        /\ DOMAIN j.found \subseteq Cves /\ \A c \in DOMAIN j.found : j.found[c] \in Fact
        /\ j.unlinked \subseteq DOMAIN j.found
        /\ \A c \in DOMAIN j.found :
             cve'[c] \in Fact /\ (cve'[c].kev => j.found[c].kev \/ (Stored(c) /\ cve[c].kev))
        /\ \A c \in Cves \ DOMAIN j.found : cve'[c] = cve[c]
        /\ link' = link \union {<<j.asset, c>> : c \in j.unlinked}
    BY <1>1, <1>3, StoreEffect
  <2>3. link \subseteq link' /\ \A c \in Cves : Stored(c) => Stored(c)'
    BY <2>2, FactIsStored DEF Stored
  <2>4. \A a, rating : Justified(a, rating) => Justified(a, rating)'
    BY <2>3, JustifiedStays
  <2>5. KevIsCatalog'
    BY <1>1, <2>2 DEF IInv, KevIsCatalog, TaskIsJustified, Stored
  <2>6. facts \subseteq Fact
    BY <2>2
  <2>7. Justified(j.asset, new)'
    <3>1. SUFFICES ASSUME new.breakdown.kev = 5 PROVE Linked(j.asset)'
      BY DEF Justified
    <3>2. facts \subseteq Facts
      BY <2>6 DEF Fact, Facts
    <3>3. PICK c \in DOMAIN j.found : j.found[c].kev
      BY <3>1, <3>2, KevMeansExploited
    <3>4. c \in Catalog /\ (c \in j.unlinked \/ <<j.asset, c>> \in link)
      BY <1>1, <3>3 DEF TaskIsJustified
    <3>5. <<j.asset, c>> \in link' /\ Stored(c)'
      BY <2>2, <3>4, FactIsStored DEF Stored
    <3> QED
      BY <3>4, <3>5 DEF Linked
  <2>8. \A a \in Assets : Justified(a, row[a].rating)'
    <3>1. row[j.asset].rating \in Ratings /\ j.old[j.asset].rating \in Ratings /\ new \in Ratings
      BY <1>1, <2>2, <2>6, RiskIsRating DEF ITypes, TypeOK, Some, Row
    <3>2. Changed(row[j.asset].rating, j.old[j.asset].rating, new).breakdown
            \in {row[j.asset].rating.breakdown, new.breakdown}
      BY <3>1, ChangedRating
    <3>3. row'[j.asset].rating = Changed(row[j.asset].rating, j.old[j.asset].rating, new)
      <4>1. row \in [Assets -> Row] /\ row[j.asset] \in Row /\ j.asset \in Assets
        BY <1>1, <2>2 DEF ITypes, TypeOK
      <4>2. row'[j.asset]
              = [row[j.asset] EXCEPT !.rating = Changed(@, j.old[j.asset].rating, new)]
        BY <2>1, <4>1
      <4> QED
        BY <4>1, <4>2 DEF Row
    <3>4. row[j.asset].rating.breakdown.kev = 5 => Linked(j.asset)'
      BY <2>2, <2>4 DEF IInv, Justified
    <3>5. new.breakdown.kev = 5 => Linked(j.asset)'
      BY <2>7 DEF Justified
    <3>6. Justified(j.asset, row[j.asset].rating)'
      BY <3>2, <3>3, <3>4, <3>5 DEF Justified
    <3>7. \A a \in Assets \ {j.asset} : row'[a] = row[a]
      BY <1>1, <2>1 DEF ITypes, TypeOK
    <3>8. \A a \in Assets \ {j.asset} : Justified(a, row[a].rating)'
      BY <2>4, <3>7 DEF IInv, Justified
    <3> QED
      BY <3>6, <3>8
  <2>9. PassIsJustified'
    BY <2>1, <2>4 DEF IInv, PassIsJustified
  <2>10. \A v \in Workers \ {w} : TaskIsJustified(v)'
    <3>1. \A v \in Workers \ {w} : job'[v] = job[v]
      BY <1>1, <2>1 DEF ITypes, TypeOK
    <3> QED
      BY <2>3, <2>4, <3>1 DEF IInv, TaskIsJustified
  <2>11. TaskIsJustified(w)'
    <3>1. job'[w] = next
      BY <1>1, <2>1 DEF ITypes, TypeOK
    <3>2. CASE rest = {}
      BY <3>1, <3>2, IdleIsJob DEF TaskIsJustified
    <3>3. CASE rest # {}
      <4>1. job'[w].phase = "querying" /\ job'[w].old = [a \in rest |-> j.old[a]]
        BY <3>1, <3>3
      <4>2. \A a \in rest : Justified(a, j.old[a].rating)'
        BY <1>1, <2>4 DEF TaskIsJustified
      <4> QED
        BY <4>1, <4>2 DEF TaskIsJustified
    <3> QED
      BY <3>2, <3>3
  <2> QED
    BY <1>1, <2>5, <2>8, <2>9, <2>10, <2>11 DEF IInv
<1> QED
  BY <1>2, <1>3

LEMMA StartBatchJustified ==
  ASSUME IInv, NEW w \in Workers, NEW batch \in SUBSET Assets, StartBatch(w, batch)
  PROVE  IInv'
<1>1. job' = [job EXCEPT ![w] = job'[w]] /\ UNCHANGED <<row, cve, link, rescore>>
  BY DEF StartBatch, IInv, ITypes, TypeOK
<1>2. job'[w] = [phase |-> "querying", catalog |-> {}, old |-> [a \in batch |-> row[a]]]
  BY DEF StartBatch, IInv, ITypes, TypeOK
<1>3. job'[w].phase = "querying" /\ job'[w].old = [a \in batch |-> row[a]]
  BY <1>2
<1>4. \A a \in Assets : Justified(a, row[a].rating)'
  BY <1>1 DEF IInv, Justified, Linked, Stored
<1>5. TaskIsJustified(w)'
  BY <1>1, <1>3, <1>4 DEF TaskIsJustified, Justified
<1> QED
  BY <1>1, <1>5, StartBatchTypes, TaskJustified DEF IInv

LEMMA QueryJustified ==
  ASSUME IInv, NEW w \in Workers, NEW a \in Assets, NEW catalog \in {{}, Catalog},
         NEW scored \in BOOLEAN, NEW found \in SUBSET Listing[a], Query(w, a, catalog, found, scored)
  PROVE  IInv'
<1>1. job' = [job EXCEPT ![w] = job'[w]] /\ UNCHANGED <<row, cve, link, rescore>>
  BY DEF Query, IInv, ITypes, TypeOK
<1>2. job'[w] = [phase |-> "storing", asset |-> a, old |-> job[w].old, catalog |-> catalog,
                 found |-> [c \in found |-> Fetched(c, catalog, scored)],
                 seen |-> [c \in found |-> cve[c]],
                 unlinked |-> {c \in found : <<a, c>> \notin link}]
  BY DEF Query, IInv, ITypes, TypeOK
<1>3. /\ job'[w].phase = "storing" /\ job'[w].old = job[w].old /\ job'[w].asset = a
      /\ job'[w].found = [c \in found |-> Fetched(c, catalog, scored)]
      /\ job'[w].unlinked = {c \in found : <<a, c>> \notin link}
  BY <1>2
<1>4. \A b \in DOMAIN job[w].old : Justified(b, job[w].old[b].rating)
  BY DEF IInv, TaskIsJustified, Query
<1>5. \A c \in found : Fetched(c, catalog, scored).kev => c \in Catalog
  BY DEF Fetched
<1>6. TaskIsJustified(w)'
  <2>1. \A b, rating : Justified(b, rating)' <=> Justified(b, rating)
    BY <1>1 DEF Justified, Linked, Stored
  <2>2. \A b \in DOMAIN job'[w].old : Justified(b, job'[w].old[b].rating)
    BY <1>3, <1>4
  <2>3. \A c \in DOMAIN job'[w].found :
          /\ job'[w].found[c].kev => c \in Catalog
          /\ c \in job'[w].unlinked \/ <<job'[w].asset, c>> \in link'
    BY <1>1, <1>3, <1>5
  <2> QED
    BY <2>1, <2>2, <2>3 DEF TaskIsJustified
<1> QED
  BY <1>1, <1>6, QueryTypes, TaskJustified DEF IInv

\* A task that ends or refreshes the catalog holds no ratings.
LEMMA OtherJustified ==
  ASSUME IInv, NEW w \in Workers, StartSync(w) \/ Lose(w)
  PROVE  IInv'
<1>1. job' = [job EXCEPT ![w] = job'[w]] /\ UNCHANGED <<row, cve, link, rescore>>
  BY DEF StartSync, Lose, IInv, ITypes, TypeOK
<1>2. job'[w].phase \in {"syncing", "idle"}
  BY DEF StartSync, Lose, Idle, IInv, ITypes, TypeOK
<1>3. TaskIsJustified(w)'
  BY <1>2 DEF TaskIsJustified
<1> QED
  BY <1>1, <1>3, StartSyncTypes, LoseTypes, TaskJustified DEF IInv

LEMMA FinishSyncJustified ==
  ASSUME IInv, NEW w \in Workers, FinishSync(w)
  PROVE  IInv'
<1>1. ITypes /\ ITypes'
  BY FinishSyncTypes DEF IInv
<1>2. /\ job' = [job EXCEPT ![w] = Idle] /\ UNCHANGED <<row, link, rescore>>
      /\ \A c \in Cves \ Catalog : cve'[c] = cve[c]
  BY DEF FinishSync
<1>3. \A c \in Cves : Stored(c) => Stored(c)'
  <2>1. SUFFICES ASSUME NEW c \in Cves, Stored(c) PROVE Stored(c)'
    OBVIOUS
  <2>2. CASE c \in Catalog /\ ~Duplicates(job[w])
    <3>1. IsJob(job[w]) /\ job[w].phase = "syncing"
      BY <1>1 DEF FinishSync, ITypes, TypeOK
    <3>2. cve[c] \in Fact \union {NoCve} /\ job[w].seen[c] \in Fact \union {NoCve}
      BY <1>1, <2>2, <3>1, SyncingHas DEF ITypes, TypeOK
    <3>3. Synced(cve[c], job[w].seen[c]) \in Fact
      BY <2>1, <3>2, SyncedFact DEF Stored
    <3>4. cve'[c] = Synced(cve[c], job[w].seen[c])
      BY <2>2 DEF FinishSync
    <3> QED
      BY <3>3, <3>4, FactIsStored DEF Stored
  <2>3. CASE ~(c \in Catalog /\ ~Duplicates(job[w]))
    BY <2>1, <2>3 DEF FinishSync, Stored
  <2> QED
    BY <2>2, <2>3
<1>4. \A a, rating : Justified(a, rating) => Justified(a, rating)'
  BY <1>2, <1>3, JustifiedStays
<1>5. KevIsCatalog'
  BY <1>2 DEF IInv, KevIsCatalog, Stored
<1>6. \A a \in Assets : Justified(a, row[a].rating)'
  BY <1>2, <1>4 DEF IInv, Justified
<1>7. PassIsJustified'
  BY <1>2, <1>4 DEF IInv, PassIsJustified, Justified
<1>8. \A v \in Workers : job'[v] = IF v = w THEN Idle ELSE job[v]
  BY <1>1, <1>2 DEF ITypes, TypeOK
<1>9. TaskIsJustified(w)'
  BY <1>8, IdleIsJob DEF TaskIsJustified
<1>10. \A v \in Workers \ {w} : TaskIsJustified(v)'
  <2>1. \A v \in Workers \ {w} : job'[v] = job[v]
    BY <1>8
  <2> QED
    BY <1>2, <1>4, <2>1 DEF IInv, TaskIsJustified
<1> QED
  BY <1>1, <1>5, <1>6, <1>7, <1>9, <1>10 DEF IInv

\* A step of a row or of the rescoring pass.
LEMMA RowJustified ==
  ASSUME IInv, ITypes', UNCHANGED <<cve, link, job>>,
         \A a \in Assets : Justified(a, row'[a].rating),
         rescore' # Idle =>
           \A a \in Assets : Justified(a, rescore'.old[a]) /\ Justified(a, rescore'.new[a])
  PROVE  IInv'
<1>1. \A a, rating : Justified(a, rating)' <=> Justified(a, rating)
  BY DEF Justified, Linked, Stored
<1>2. (\A a \in Assets : Justified(a, row[a].rating))' /\ PassIsJustified'
  BY <1>1 DEF PassIsJustified
<1>3. KevIsCatalog' /\ \A w \in Workers : TaskIsJustified(w)'
  BY <1>1 DEF IInv, KevIsCatalog, TaskIsJustified, Stored
<1> QED
  BY <1>2, <1>3 DEF IInv

LEMMA RescoreJustified ==
  ASSUME IInv, Rescore \/ RescoreCommit
  PROVE  IInv'
<1>1. ITypes'
  BY RescoreTypes, RescoreCommitTypes DEF IInv
<1>2. CASE Rescore
  <2>1. /\ UNCHANGED <<row, cve, link, job>>
        /\ rescore'.old = [a \in Assets |-> row[a].rating]
        /\ rescore'.new = [a \in Assets |-> Risk(row[a].posture, Evidence(a))]
    BY <1>2 DEF Rescore
  <2>2. \A a \in Assets : Justified(a, row[a].rating)
    BY DEF IInv
  <2>3. \A a \in Assets : Justified(a, Risk(row[a].posture, Evidence(a)))
    BY EvidenceIsJustified
  <2> QED
    BY <1>1, <2>1, <2>2, <2>3, RowJustified
<1>3. CASE RescoreCommit
  <2>1. /\ UNCHANGED <<cve, link, job>> /\ rescore' = Idle /\ rescore # Idle
        /\ row' = [a \in Assets |->
             [row[a] EXCEPT !.rating = Changed(@, rescore.old[a], rescore.new[a])]]
    BY <1>3 DEF RescoreCommit
  <2>2. \A a \in Assets : Justified(a, row'[a].rating)
    <3>1. SUFFICES ASSUME NEW a \in Assets PROVE Justified(a, row'[a].rating)
      OBVIOUS
    <3>2. row[a] \in Row /\ row[a].rating \in Ratings
      BY DEF IInv, ITypes, TypeOK, Row
    <3>3. rescore.old[a] \in Ratings /\ rescore.new[a] \in Ratings
      BY <2>1 DEF IInv, ITypes, TypeOK
    <3>4. row'[a].rating = Changed(row[a].rating, rescore.old[a], rescore.new[a])
      BY <2>1, <3>2 DEF Row
    <3>5. Justified(a, row[a].rating) /\ Justified(a, rescore.new[a])
      BY <2>1 DEF IInv, PassIsJustified
    <3> QED
      BY <3>2, <3>3, <3>4, <3>5, ChangedIsJustified
  <2> QED
    BY <1>1, <2>1, <2>2, RowJustified
<1> QED
  BY <1>2, <1>3

LEMMA UpdateJustified ==
  ASSUME IInv, NEW a \in Assets, NEW posture \in Postures, Update(a, posture)
  PROVE  IInv'
<1>1. UNCHANGED <<cve, link, job, rescore>>
  BY DEF Update
<1>2. row' = [row EXCEPT ![a] = [posture |-> posture, rating |-> Risk(posture, Evidence(a))]]
  BY DEF Update
<1>3. Justified(a, Risk(posture, Evidence(a)))
  BY EvidenceIsJustified
<1>4. \A b \in Assets : Justified(b, row'[b].rating)
  BY <1>2, <1>3 DEF IInv, ITypes, TypeOK
<1> QED
  BY <1>1, <1>4, UpdateTypes, RowJustified DEF IInv, PassIsJustified

LEMMA NextJustified == IInv /\ [Next]_vars => IInv'
<1> SUFFICES ASSUME IInv, [Next]_vars PROVE IInv'
  OBVIOUS
<1>1. ASSUME NEW w \in Workers, NEW a \in Assets, NEW catalog \in {{}, Catalog},
             NEW scored \in BOOLEAN, NEW found \in SUBSET Listing[a],
             Query(w, a, catalog, found, scored)
      PROVE  IInv'
  BY <1>1, QueryJustified
<1>2. ASSUME NEW w \in Workers, Store(w) PROVE IInv'
  BY <1>2, StoreJustified
<1>3. ASSUME NEW w \in Workers, FinishSync(w) \/ StartSync(w) \/ Lose(w) PROVE IInv'
  BY <1>3, FinishSyncJustified, OtherJustified
<1>4. ASSUME NEW w \in Workers, NEW batch \in SUBSET Assets, StartBatch(w, batch) PROVE IInv'
  BY <1>4, StartBatchJustified
<1>5. CASE Rescore \/ RescoreCommit
  BY <1>5, RescoreJustified
<1>6. ASSUME NEW a \in Assets, NEW posture \in Postures, Update(a, posture) PROVE IInv'
  BY <1>6, UpdateJustified
<1>7. CASE UNCHANGED vars
  <2>1. UNCHANGED <<row, cve, link, job, rescore>> /\ ITypes'
    BY <1>7, NextTypes DEF vars, IInv
  <2> QED
    BY <2>1, RowJustified DEF IInv, PassIsJustified
<1> QED
  BY <1>1, <1>2, <1>3, <1>4, <1>5, <1>6, <1>7 DEF Next, Enrich

\* An asset rated as having an exploited CVE is linked to one of the KEV catalog, however
\* tasks fail, race and overwrite each other's columns (enrichment_tasks.py:110-150).
THEOREM ExploitedIsLinked == Spec => []ExploitIsLinked
<1>1. IInv => ExploitIsLinked
  BY DEF IInv, Justified, Linked, ExploitIsLinked
<1> QED
  BY <1>1, InitJustified, NextJustified, PTL DEF Spec
=============================================================================
