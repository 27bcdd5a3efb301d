-------------------------- MODULE MCAccountSessions --------------------------
(* An instance of AccountSessions.                                          *)
EXTENDS AccountSessions, TLC

CONSTANTS ann, bob, s1, s2, w1, w2

Symmetry == Permutations(Tokens) \union Permutations(Workers)
=============================================================================
