-------------------------- MODULE MCIntegrationSync --------------------------
(* An instance of IntegrationSync: a connector that never works, one whose   *)
(* hosts the database may refuse, and a row of a type without a connector.   *)
EXTENDS IntegrationSync

CONSTANTS c1, c2, c3, w1, w2, all, none
=============================================================================
