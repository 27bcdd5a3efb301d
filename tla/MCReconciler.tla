---------------------------- MODULE MCReconciler ----------------------------
(* An instance of Reconciler: a scan and an EDR console report one address, *)
(* at which the scan finds a host whose services change, and the console    *)
(* another host.                                                            *)
EXTENDS Reconciler, TLC

CONSTANTS a1, a2, m1, m2, x1, n1, ssh, http, w1, w2, nmap, edr, manually, none

Ranking == [s \in Sources |-> CASE s = nmap -> 4 [] s = edr -> 10 [] OTHER -> 3]

Host(s, mac, name, services) ==
  [source |-> s, mac |-> mac, ip |-> x1, name |-> name, services |-> services]

SharedAddress ==
  {Host(nmap, m1, x1, {ssh}), Host(nmap, m1, x1, {http}), Host(edr, m2, n1, {})}

\* Rows and workers are interchangeable.
Symmetry == Permutations(Ids) \union Permutations(Workers)
=============================================================================
