SPECIFICATION Spec
CONSTANTS
  c1 = c1
  c2 = c2
  c3 = c3
  r1 = r1
  r2 = r2
  Callers = {c1, c2, c3}
  Replicas = {r1, r2}
  Home <- MCHome
  Nonces = {n1}
  Bodies = {b1}
  NoNonce = NoNonce
  NoChallenge = NoChallenge
  ChallengeTTL = 1
  Precision = 2
  Faults = TRUE
  MaxTime = 2
INVARIANTS TypeOK
PROPERTIES ImplementsStore
SYMMETRY Symmetry
CHECK_DEADLOCK FALSE
