SPECIFICATION Spec
CONSTANTS
  n1 = n1
  n2 = n2
  n3 = n3
  Callers = {c1, c2, c3, c4}
  Nonces = {n1, n2, n3}
  Bodies = {b1}
  NoNonce = NoNonce
  NoChallenge = NoChallenge
  NumShards = 2
  ShardOf <- MCShardOf
  MaxEntries = 1
  ChallengeTTL = 1
  MaxTime = 2
INVARIANTS TypeOK ShardBounded
PROPERTIES ImplementsStore RefusedOnlyWhenFull
SYMMETRY Symmetry
CHECK_DEADLOCK FALSE
