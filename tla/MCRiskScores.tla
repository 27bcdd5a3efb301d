---------------------------- MODULE MCRiskScores ----------------------------
(* An instance of RiskScores: one asset with one exploited CVE.             *)
EXTENDS RiskScores

CONSTANTS a1, c1, w1, w2

MCListing == [a \in Assets |-> Cves]
MCCvss == [c \in Cves |-> 98]
MCEpss == [c \in Cves |-> 70]

Office == [control_coverage |-> "partial", network_exposure |-> "internal",
           auth_method |-> "password", criticality |-> "medium", data_classification |-> "internal"]
Crown == [Office EXCEPT !.criticality = "tier_1", !.data_classification = "restricted"]
MCPostures == {Office, Crown}
=============================================================================
