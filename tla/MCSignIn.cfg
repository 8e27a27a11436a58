SPECIFICATION SignInSpec
CONSTANTS
  r1 = r1
  r2 = r2
  c2 = c2
  a1 = a1
  k1 = k1
  k2 = k2
  Callers = {c1, c2, c3}
  Replicas = {r1}
  Home <- MCHome
  Nonces = {n1, n2}
  Bodies <- Body
  NoNonce = NoNonce
  NoChallenge = NoChallenge
  ChallengeTTL = 1
  Slack = 1
  MaxTime = 2
  Accounts = {a1, a2}
  Keys = {k1, k2}
  EOAKey <- MCEOAKey
  NoKey = NoKey
  Audiences = {x, y}
  AllowedAudiences = {x}
  DefaultAudience = {z}
  TokenTTL = 2
  Second = 2
  HasBackend = FALSE
  NoSig = NoSig
  NoToken = NoToken
INVARIANTS SignInTypeOK OneWinner DeliversWhatWasPut OneVerdictPerChallenge TokenIsVouched AdvertisedExpiryHolds
SYMMETRY Symmetry
CHECK_DEADLOCK FALSE
