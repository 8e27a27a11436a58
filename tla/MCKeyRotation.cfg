SPECIFICATION Spec
CONSTANTS
  r1 = r1
  r2 = r2
  v1 = v1
  v2 = v2
  k1 = k1
  k2 = k2
  k3 = k3
  Replicas = {r1, r2}
  Validators = {v1, v2}
  Keys = {k1, k2, k3}
  Unset = Unset
  Life = 3
  Wait = 3
  MaxAge = 3
  Patience = 3
SYMMETRY Sym
INVARIANTS TypeOK TokensVerify OldTokensAreGone
