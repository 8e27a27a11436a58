SPECIFICATION FairSpec
CONSTANTS
  n1 = n1
  n2 = n2
  n3 = n3
  Callers = {c1, c2}
  Nonces = {n1, n3}
  Bodies = {b1}
  NoNonce = NoNonce
  NoChallenge = NoChallenge
  NumShards = 2
  ShardOf <- MCShardOf
  MaxEntries = 3
  ChallengeTTL = 1
  MaxTime = 2
PROPERTIES CallsReturn ExpiredIsSwept
CHECK_DEADLOCK FALSE
