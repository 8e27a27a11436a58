--------------------------- MODULE MCPostgresStore ---------------------------
(* Small instances of PostgresStore: calls on two replicas.                  *)
EXTENDS PostgresStore, TLC

CONSTANTS c1, c2, c3, r1, r2

MCHome == [c \in Callers |-> IF c = c2 THEN r2 ELSE r1]

\* Two calls of the same replica are interchangeable.
Symmetry == Permutations({c1, c3})

=============================================================================
