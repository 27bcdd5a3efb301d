-------------------------- MODULE MCUpdateProposals --------------------------
(* Values for the constants of UpdateProposals. *)
EXTENDS UpdateProposals, TLC

CONSTANTS p1, p2, a1, a2, i1, i2, i3

OneFix == a1 :> {2}
NoFixForTwo == (a1 :> {2}) @@ (a2 :> {})
RowSymmetry == Permutations(Ids)
=============================================================================
