------------------------------ MODULE RiskEngine ------------------------------
(***************************************************************************)
(* The weighted risk score, as operators.  Weights and scores are in       *)
(* hundredths, CVSS in tenths, EPSS in percent, so that the arithmetic is  *)
(* that of integers: the sum the code rounds to two decimals is exact here.*)
(*                                                                         *)
(* A posture is what the score reads of an asset besides its CVEs.  No     *)
(* caller hands on the ransomware flag of the KEV catalog, so the boost it *)
(* would give the CVE factor is not part of any score.                     *)
(***************************************************************************)
EXTENDS Integers

CONTROL_MAP == [full |-> 1, partial |-> 3, none |-> 5]
EXPOSURE_MAP == [isolated |-> 1, internal |-> 2, dmz |-> 3, cloud |-> 4, internet_facing |-> 5]
ACCESS_MAP == [mfa_pam |-> 1, mfa |-> 2, certificate |-> 2, password |-> 4, password_only |-> 5,
               none |-> 5]
CRITICALITY_MAP == [low |-> 1, medium |-> 2, high |-> 3, critical |-> 4, tier_1 |-> 5]
DATA_CLASSIFICATION_MAP == [public |-> 1, internal |-> 2, confidential |-> 4, restricted |-> 5]

\* The rating of a value, and the default of a value the map does not know.
Rated(map, value, default) == IF value \in DOMAIN map THEN map[value] ELSE default

WEIGHTS == [cve |-> 23, kev |-> 18, controls |-> 18, exposure |-> 14, access |-> 9,
            criticality |-> 10, data_classification |-> 8]

Breakdown == [cve: 1..5, kev: {1, 5}, controls: 1..5, exposure: 1..5, access: 1..5,
              criticality: 1..5, data_classification: 1..5]

-----------------------------------------------------------------------------
\* n/d rounded to an integer, halves to the even one, as round() does.
Round(n, d) ==
  LET q == n \div d
      up == 2 * (n % d) > d \/ (2 * (n % d) = d /\ q % 2 = 1)
  IN IF up THEN q + 1 ELSE q

\* min(5, max(1, n))
Level(n) == IF n < 1 THEN 1 ELSE IF n > 5 THEN 5 ELSE n

NormCvss(tenths) == Level(Round(tenths, 20))
NormEpss(percent) == Level(Round(percent, 20))

\* max(..., default=0) of values that are never negative
Highest(values) == CHOOSE v \in values \union {0} : \A u \in values : u <= v

Larger(a, b) == IF a >= b THEN a ELSE b

CveFactor(facts) ==
  IF facts = {} THEN 1
  ELSE Larger(NormCvss(Highest({f.cvss : f \in facts})), NormEpss(Highest({f.epss : f \in facts})))

\* Slip: a factor that is absent when there is no such CVE.
KevFactorOrZero(facts) == IF \E f \in facts : f.kev THEN 5 ELSE 0
KevFactor(facts) == IF \E f \in facts : f.kev THEN 5 ELSE 1

BreakdownOf(posture, facts) ==
  [cve |-> CveFactor(facts),
   kev |-> KevFactor(facts),
   controls |-> Rated(CONTROL_MAP, posture.control_coverage, 3),
   exposure |-> Rated(EXPOSURE_MAP, posture.network_exposure, 3),
   access |-> Rated(ACCESS_MAP, posture.auth_method, 3),
   criticality |-> Rated(CRITICALITY_MAP, posture.criticality, 3),
   data_classification |-> Rated(DATA_CLASSIFICATION_MAP, posture.data_classification, 2)]

-----------------------------------------------------------------------------
Score(b) ==
  b.cve * WEIGHTS.cve + b.kev * WEIGHTS.kev + b.controls * WEIGHTS.controls
    + b.exposure * WEIGHTS.exposure + b.access * WEIGHTS.access
    + b.criticality * WEIGHTS.criticality + b.data_classification * WEIGHTS.data_classification

Tiers == {"Critical", "High", "Medium", "Low", "Informational"}
Tier(score) ==
  IF score >= 400 THEN "Critical"
  ELSE IF score >= 300 THEN "High"
  ELSE IF score >= 200 THEN "Medium"
  ELSE IF score >= 150 THEN "Low"
  ELSE "Informational"

Rating(b) == [score |-> Score(b), tier |-> Tier(Score(b)), breakdown |-> b]

\* compute_risk, without the recommended action and its SLA, which nothing stores.  The
\* sets of one element make TLC evaluate the breakdown once.
Risk(posture, facts) ==
  CHOOSE r \in {Rating(b) : b \in {BreakdownOf(posture, f) : f \in {facts}}} : TRUE
=============================================================================
