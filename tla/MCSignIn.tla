------------------------------ MODULE MCSignIn ------------------------------
(* Small instances of SignIn: requests on one replica, or one on each of two. *)
(* Address a1 is derived from key k1, and with a node configured may carry    *)
(* code that answers for k1 or k2.                                            *)
EXTENDS SignIn, TLC

CONSTANTS r1, r2, c2, a1, k1, k2

MCHome == [c \in Callers |-> r1]
MCHomes == [c \in Callers |-> IF c = c2 THEN r2 ELSE r1]
MCEOAKey == [a \in Accounts |-> IF a = a1 THEN k1 ELSE k2]

\* Requests are interchangeable, and so are nonces.
Symmetry == Permutations(Callers) \cup Permutations(Nonces)

=============================================================================
