----------------------------- MODULE ApprovalGate -----------------------------
(***************************************************************************)
(* What the proposal pipeline promises, without its tasks, requests and    *)
(* scans: a proposal is for one update, which never changes; an artifact   *)
(* exists only for a proposal a human has approved; a removed proposal     *)
(* does not come back.                                                     *)
(***************************************************************************)
CONSTANTS Ids, Updates, NoUpdate

VARIABLES
  gate,      \* "absent", "open", "approved" (at least once) or "gone"
  update,    \* the update each proposal is for
  artifact   \* proposals with a patch artifact

gateVars == <<gate, update, artifact>>

Init ==
  /\ gate = [i \in Ids |-> "absent"]
  /\ update = [i \in Ids |-> NoUpdate]
  /\ artifact = {}

\* A task opens proposals.
Open(S) ==
  /\ \A i \in S : gate[i] = "absent"
  /\ gate' = [i \in Ids |-> IF i \in S THEN "open" ELSE gate[i]]
  /\ \E u \in [S -> Updates] : update' = [i \in Ids |-> IF i \in S THEN u[i] ELSE update[i]]
  /\ UNCHANGED artifact

\* An administrator approves one.
Approve(i) ==
  /\ gate[i] \in {"open", "approved"}
  /\ gate' = [gate EXCEPT ![i] = "approved"]
  /\ UNCHANGED <<update, artifact>>

\* Artifacts are prepared for approved proposals.
Publish(S) ==
  /\ \A i \in S : gate[i] = "approved"
  /\ artifact' = artifact \union S
  /\ UNCHANGED <<gate, update>>

Retract(S) ==
  /\ artifact' = artifact \ S
  /\ UNCHANGED <<gate, update>>

\* Proposals of a package that is no longer installed are removed.
Remove(S) ==
  /\ \A i \in S : gate[i] # "absent"
  /\ gate' = [i \in Ids |-> IF i \in S THEN "gone" ELSE gate[i]]
  /\ update' = [i \in Ids |-> IF i \in S THEN NoUpdate ELSE update[i]]
  /\ artifact' = artifact \ S

Next ==
  \E S \in SUBSET Ids :
    \/ Open(S) \/ Publish(S) \/ Retract(S) \/ Remove(S)
    \/ \E i \in S : Approve(i)

Spec == Init /\ [][Next]_gateVars
=============================================================================
