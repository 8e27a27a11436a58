---------------------------- MODULE MCKeyRotation ----------------------------
(* Two replicas and two validators; three keys, so that a rotation may begin   *)
(* while replicas and validators still hold traces of the one before.          *)
EXTENDS KeyRotation, TLC

CONSTANTS r1, r2, v1, v2, k1, k2, k3

Sym == Permutations({r1, r2}) \cup Permutations({v1, v2}) \cup Permutations({k1, k2, k3})

=============================================================================
