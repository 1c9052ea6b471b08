---------------------------- MODULE MCDIDRotation ----------------------------
(* The two agents, and the goroutines of an agent, are alike. *)
EXTENDS DIDRotation, TLC
Symmetry == Permutations(Agents) \cup Permutations(Workers)
=============================================================================
