SPECIFICATION HandlerFairSpec
CONSTANTS
  r1 = r1
  r2 = r2
  c2 = c2
  a1 = a1
  k1 = k1
  k2 = k2
  Callers = {c1, c2}
  Replicas = {r1}
  Home <- MCHome
  Nonces = {n1}
  Bodies <- Body
  NoNonce = NoNonce
  NoChallenge = NoChallenge
  ChallengeTTL = 0
  Slack = 0
  MaxTime = 1
  Accounts = {a1}
  Keys = {k1, k2}
  EOAKey <- MCEOAKey
  NoKey = NoKey
  Audiences = {}
  AllowedAudiences = {}
  DefaultAudience = {z}
  TokenTTL = 2
  Second = 2
  HasBackend = TRUE
  NoSig = NoSig
  NoToken = NoToken
PROPERTIES RPCTimeoutBounds
CHECK_DEADLOCK FALSE
