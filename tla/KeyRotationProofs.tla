-------------------------- MODULE KeyRotationProofs --------------------------
(* What a rotation preserves, for any number of replicas, validators, HTTP      *)
(* caches, keys and rotations.  What every replica has loaded depends on        *)
(* nothing; that the old key's tokens are gone when it is dropped needs a wait  *)
(* as long as a token lives; that validators know the key in use needs          *)
(* refreshes to count only when no HTTP cache has an older answer.              *)
EXTENDS KeyRotation, TLAPS

USE RotationAssumption

----------------------------------------------------------------------------
(* The key set a replica loads.                                             *)

OneKey(e) == e[2] = Unset

\* Without the first variable there is no key, whatever the second one holds.
LEMMA NumberedNone ==
    ASSUME NEW e \in [Slots -> Keys \cup {Unset}], e[1] = Unset
    PROVE  Numbered(e) \in [{} -> Keys] /\ DOMAIN Numbered(e) = {}
  <1>1. {i \in Slots : \A j \in 1 .. i : e[j] # Unset} = {}
    BY DEF Slots
  <1> QED BY <1>1 DEF Numbered

\* Without a second variable the key set is the first key.
LEMMA NumberedOne ==
    ASSUME NEW e \in [Slots -> Keys \cup {Unset}], e[1] # Unset, OneKey(e)
    PROVE  /\ Numbered(e) \in [{1} -> Keys]
           /\ Numbered(e)[1] = e[1]
  <1>1. {i \in Slots : \A j \in 1 .. i : e[j] # Unset} = {1}
    BY DEF Slots, OneKey
  <1> QED BY <1>1 DEF Numbered, Slots

\* With both variables set, both keys, in their order.
LEMMA NumberedTwo ==
    ASSUME NEW e \in [Slots -> Keys \cup {Unset}], e[1] # Unset, ~OneKey(e)
    PROVE  /\ Numbered(e) \in [Slots -> Keys]
           /\ Numbered(e)[1] = e[1] /\ Numbered(e)[2] = e[2]
  <1>1. {i \in Slots : \A j \in 1 .. i : e[j] # Unset} = Slots
    BY DEF Slots, OneKey
  <1> QED BY <1>1 DEF Numbered, Slots

----------------------------------------------------------------------------
(* The invariant, in three parts.                                            *)

\* Between adding a key and dropping one, both variables are set.
Typed == TypeOK /\ (phase # "steady" => env[2] \in Keys)

\* Until the new key is promoted every replica that runs signs with the old one,
\* and from then on each has loaded both.
Loaded ==
    \A r \in Replicas :
        Up(r) => IF phase = "promoted"
                 THEN DOMAIN keys[r] = Slots /\ JWKS(r) = {env[1], env[2]}
                 ELSE keys[r][1] = env[1]

Base == Typed /\ Loaded

\* The key a valid token is signed with.
Signed ==
    \A t \in tokens : IF phase = "promoted" THEN t.key \in {env[1], env[2]}
                                            ELSE t.key = env[1]

\* The wait starts when the last replica signs with the new key.
OldRunOut ==
    phase = "promoted" =>
        /\ waited > 0 => Deployed
        /\ Deployed => \A t \in tokens : t.key = env[2] => t.left + waited <= Life

TokensInv == Signed /\ OldRunOut

\* What is known to whoever checks tokens: the one key, and once the new one is
\* promoted both.
InUse == IF phase = "promoted" THEN {env[1], env[2]} ELSE {env[1]}
Known ==
    /\ \A v \in Validators : InUse \subseteq cache[v]
    /\ \A copy \in copies : InUse \subseteq copy.keys

\* A copy that lacks the key that was added is older than the roll-out, so that a
\* validator that refreshed when those are gone knows the key.
Informed ==
    phase = "added" =>
        /\ waited > 0 \/ refreshed # {} => Deployed
        /\ Deployed => \A copy \in copies : env[2] \in copy.keys \/ copy.age >= waited
        /\ \A v \in refreshed : env[2] \in cache[v]
        /\ refreshed # {} => waited >= Patience

CachesInv == Known /\ Informed

----------------------------------------------------------------------------
(* Typing and what the replicas have loaded                                 *)

\* The key set of a typed environment: its first key signs.
LEMMA NumberedTyped ==
    ASSUME TypeOK
    PROVE  /\ Numbered(env)[1] = env[1]
           /\ Numbered(env) \in [{1} -> Keys] \cup [Slots -> Keys]
           /\ 2 \in DOMAIN Numbered(env) => Numbered(env)[1] # Numbered(env)[2]
           /\ env[2] \in Keys => /\ Numbered(env) \in [Slots -> Keys]
                                 /\ Numbered(env)[2] = env[2]
BY NumberedOne, NumberedTwo DEF TypeOK, OneKey

\* What a process finds gives it the key set of the environment, or none.
LEMMA GivenTyped ==
    ASSUME TypeOK
    PROVE  IF slipped THEN Numbered(Given) \in [{} -> Keys] /\ DOMAIN Numbered(Given) = {}
                      ELSE Numbered(Given) = Numbered(env)
  <1>1. CASE slipped
    <2>1. Given \in [Slots -> Keys \cup {Unset}] /\ Given[1] = Unset
      BY <1>1 DEF Given, TypeOK, Slots
    <2> QED BY <1>1, <2>1, NumberedNone
  <1>2. CASE ~slipped
    BY <1>2 DEF Given
  <1> QED BY <1>1, <1>2

\* A replica's key set is a set of keys, with the one it signs with.
LEMMA SignerServed ==
    ASSUME TypeOK, NEW r \in Replicas, Up(r)
    PROVE  JWKS(r) \in SUBSET Keys /\ keys[r][1] \in JWKS(r) /\ keys[r][1] \in Keys
BY DEF JWKS, TypeOK, Slots, Up

\* In a complete roll-out every replica that runs has exactly the keys of the environment.
LEMMA DeployedKeys ==
    ASSUME TypeOK, Deployed, NEW r \in Replicas, Up(r)
    PROVE  /\ keys[r] = Numbered(env) /\ keys[r][1] = env[1]
           /\ env[2] \in Keys => /\ keys[r] \in [Slots -> Keys] /\ keys[r][2] = env[2]
                                /\ JWKS(r) = {env[1], env[2]}
  <1>1. keys[r] = Numbered(env) /\ keys[r][1] = env[1]
    BY NumberedTyped DEF Deployed, Up
  <1>2. ASSUME env[2] \in Keys
        PROVE  /\ keys[r] \in [Slots -> Keys] /\ keys[r][2] = env[2]
               /\ JWKS(r) = {env[1], env[2]}
    <2>1. keys[r] \in [Slots -> Keys] /\ keys[r][2] = env[2]
      BY <1>1, <1>2, NumberedTyped
    <2> QED BY <1>1, <2>1 DEF JWKS, Slots
  <1> QED BY <1>1, <1>2

\* A process that starts is up to date, or does not run.
LEMMA RestartDeploys ==
    ASSUME TypeOK, NEW r \in Replicas, Restart(r), Deployed
    PROVE  Deployed'
  <1>1. \A s \in Replicas : keys'[s] = IF s = r THEN Numbered(Given) ELSE keys[s]
    BY DEF Restart, TypeOK
  <1>2. Numbered(env)' = Numbered(env)
    BY DEF Restart, Numbered
  <1>3. ASSUME NEW s \in Replicas, Up(s)' PROVE keys'[s] = Numbered(env)
    <2>1. CASE s = r
      BY <1>1, <1>3, <2>1, GivenTyped DEF Up
    <2>2. CASE s # r
      BY <1>1, <1>3, <2>2 DEF Up, Deployed
    <2> QED BY <2>1, <2>2
  <1> QED BY <1>2, <1>3 DEF Deployed

\* A step that leaves the variables and the loaded keys alone, whatever it does to
\* tokens and caches.
LEMMA BaseKept ==
    ASSUME Base, TypeOK', UNCHANGED <<env, keys, phase>>
    PROVE  Base'
  <1>1. \A r \in Replicas : JWKS(r)' = JWKS(r) /\ Up(r)' = Up(r)
    BY DEF JWKS, Up
  <1> QED BY <1>1 DEF Base, Typed, Loaded

\* Every step keeps the variables in their types and the replicas informed.
LEMMA BaseStep == Base /\ [Next]_vars => Base'
  <1> SUFFICES ASSUME Base, [Next]_vars PROVE Base'
    OBVIOUS
  <1> USE DEF Base, Typed
  <1>1. ASSUME NEW r \in Replicas, Restart(r) PROVE Base'
    <2>1. \A s \in Replicas : keys'[s] = IF s = r THEN Numbered(Given) ELSE keys[s]
      BY <1>1 DEF Restart, TypeOK
    <2>2. TypeOK'
      <3>1. /\ Numbered(Given) \in [{} -> Keys] \cup [{1} -> Keys] \cup [Slots -> Keys]
            /\ 2 \in DOMAIN Numbered(Given) => Numbered(Given)[1] # Numbered(Given)[2]
        BY NumberedTyped, GivenTyped
      <3> QED BY <1>1, <2>1, <3>1 DEF TypeOK, Restart
    <2>3. phase = phase' /\ env' = env
      BY <1>1 DEF Restart
    <2>4. ASSUME NEW s \in Replicas, Up(s)'
          PROVE  IF phase = "promoted"
                 THEN DOMAIN keys'[s] = Slots /\ JWKS(s)' = {env[1], env[2]}
                 ELSE keys'[s][1] = env[1]
      <3>1. CASE s = r
        <4>1. keys'[s] = Numbered(env)
          BY <2>1, <2>4, <3>1, GivenTyped DEF Up
        <4> QED BY <4>1, NumberedTyped DEF JWKS, Slots, TypeOK
      <3>2. CASE s # r
        <4>1. keys'[s] = keys[s] /\ Up(s)
          BY <2>1, <2>4, <3>2 DEF Up
        <4> QED BY <4>1 DEF Loaded, JWKS
      <3> QED BY <3>1, <3>2
    <2>5. Loaded'
      BY <2>3, <2>4 DEF Loaded
    <2> QED BY <2>2, <2>3, <2>5
  <1>2. ASSUME NEW r \in Replicas, Sign(r) PROVE Base'
    <2>1. [key |-> keys[r][1], left |-> Life] \in Token
      BY <1>2, SignerServed DEF Sign, Token
    <2>2. TypeOK'
      BY <1>2, <2>1 DEF TypeOK, Sign
    <2> QED BY <1>2, <2>2, BaseKept DEF Sign
  <1>3. ASSUME NEW r \in Replicas, Keep(r) PROVE Base'
    <2>1. [keys |-> JWKS(r), age |-> 0] \in Copy
      BY <1>3, SignerServed DEF Keep, Copy
    <2>2. TypeOK'
      BY <1>3, <2>1 DEF TypeOK, Keep
    <2> QED BY <1>3, <2>2, BaseKept DEF Keep
  <1>4. ASSUME NEW v \in Validators, Refresh(v) PROVE Base'
    <2>1. PICK known \in {JWKS(r) : r \in {r \in Replicas : Up(r)}} \cup {copy.keys : copy \in copies} :
              cache' = [cache EXCEPT ![v] = known]
      BY <1>4 DEF Refresh
    <2>2. known \in SUBSET Keys
      BY <2>1, SignerServed DEF TypeOK, Copy
    <2>3. TypeOK'
      BY <1>4, <2>1, <2>2 DEF Refresh, TypeOK
    <2> QED BY <1>4, <2>3, BaseKept DEF Refresh
  <1>5. CASE Tick
    <2>1. tokens' \subseteq Token
      BY <1>5 DEF Tick, TypeOK, Token
    <2>2. copies' \subseteq Copy
      BY <1>5 DEF Tick, Fresh, TypeOK, Copy
    <2>3. TypeOK'
      BY <1>5, <2>1, <2>2 DEF Tick, TypeOK, LongestWait
    <2> QED BY <1>5, <2>3, BaseKept DEF Tick
  <1>6. CASE Add
    <2>1. PICK k \in Keys \ {env[1]} : Deploy("steady", "added", [env EXCEPT ![2] = k])
      BY <1>6 DEF Add
    <2>2. env' \in [Slots -> Keys \cup {Unset}] /\ env'[1] = env[1] /\ env'[2] = k
      BY <2>1 DEF Deploy, TypeOK, Slots
    <2>3. TypeOK'
      BY <2>1, <2>2 DEF Deploy, TypeOK, LongestWait
    <2> QED BY <2>1, <2>2, <2>3 DEF Deploy, Loaded, Up
  <1>7. CASE Promote
    <2>1. /\ Deployed /\ phase = "added" /\ phase' = "promoted" /\ refreshed' = {} /\ waited' = 0
          /\ UNCHANGED <<slipped, keys, tokens, copies, cache>>
      BY <1>7 DEF Promote, Deploy
    <2>2. env' \in [Slots -> Keys \cup {Unset}] /\ env'[1] = env[2] /\ env'[2] = env[1]
      BY <1>7 DEF Promote, Deploy, TypeOK, Slots
    <2>3. env[1] \in Keys /\ env[2] \in Keys /\ env[1] # env[2]
      BY <2>1 DEF TypeOK, Slots
    <2>4. TypeOK'
      BY <2>1, <2>2, <2>3 DEF TypeOK, LongestWait
    <2>5. ASSUME NEW r \in Replicas, Up(r)'
          PROVE  DOMAIN keys'[r] = Slots /\ JWKS(r)' = {env'[1], env'[2]}
      <3>1. keys' = keys /\ Up(r)
        BY <2>1, <2>5 DEF Up
      <3> QED BY <2>1, <2>2, <2>3, <3>1, DeployedKeys DEF JWKS
    <2> QED BY <2>1, <2>2, <2>3, <2>4, <2>5 DEF Loaded
  <1>8. CASE Drop
    <2>1. /\ Deployed /\ phase' = "steady" /\ refreshed' = {} /\ waited' = 0
          /\ UNCHANGED <<slipped, keys, tokens, copies, cache>>
      BY <1>8 DEF Drop, Deploy
    <2>2. env' \in [Slots -> Keys \cup {Unset}] /\ env'[1] = env[1] /\ env'[2] = Unset
      BY <1>8 DEF Drop, Deploy, TypeOK, Slots
    <2>3. TypeOK'
      BY <2>1, <2>2 DEF TypeOK, LongestWait
    <2> QED BY <2>1, <2>2, <2>3, DeployedKeys DEF Loaded, Up
  <1>9. CASE Slip
    <2>1. TypeOK'
      BY <1>9 DEF Slip, TypeOK
    <2> QED BY <1>9, <2>1, BaseKept DEF Slip
  <1>10. CASE UNCHANGED vars
    <2>1. TypeOK'
      BY <1>10 DEF vars, TypeOK
    <2> QED BY <1>10, <2>1, BaseKept DEF vars
  <1> QED BY <1>1, <1>2, <1>3, <1>4, <1>5, <1>6, <1>7, <1>8, <1>9, <1>10 DEF Next

\* A first deployment with one key.
LEMMA InitInv == KeyRotationInit => Base /\ TokensInv /\ CachesInv
  <1> SUFFICES ASSUME KeyRotationInit PROVE Base /\ TokensInv /\ CachesInv
    OBVIOUS
  <1>1. PICK k \in Keys :
          /\ env = [i \in Slots |-> IF i = 1 THEN k ELSE Unset]
          /\ keys = [r \in Replicas |-> Numbered(env)]
          /\ tokens = {} /\ copies = {} /\ cache = [v \in Validators |-> {k}]
          /\ slipped = FALSE /\ phase = "steady" /\ refreshed = {} /\ waited = 0
    BY DEF KeyRotationInit
  <1>2. env \in [Slots -> Keys \cup {Unset}] /\ env[1] = k /\ env[2] = Unset
    BY <1>1 DEF Slots
  <1>3. \A r \in Replicas : keys[r] \in [{1} -> Keys] /\ keys[r][1] = k
    BY <1>1, <1>2, NumberedOne DEF OneKey
  <1>4. TypeOK
    <2>1. /\ keys \in [Replicas -> [{} -> Keys] \cup [{1} -> Keys] \cup [Slots -> Keys]]
          /\ \A r \in Replicas : 2 \notin DOMAIN keys[r]
      BY <1>1, <1>3
    <2>2. slipped \in BOOLEAN
      BY <1>1, Zenon
    <2>3. cache \in [Validators -> SUBSET Keys] /\ env[1] # Unset /\ env[1] # env[2]
      BY <1>1, <1>2
    <2>4. tokens \subseteq Token /\ copies \subseteq Copy /\ refreshed \subseteq Validators
      BY <1>1
    <2>5. waited \in 0 .. LongestWait
      BY <1>1 DEF LongestWait
    <2> QED BY <1>1, <1>2, <2>1, <2>2, <2>3, <2>4, <2>5 DEF TypeOK
  <1> QED BY <1>1, <1>2, <1>3, <1>4
          DEF Base, Typed, Loaded, TokensInv, Signed, OldRunOut, CachesInv, Known, InUse, Informed

\* What the replicas have loaded, in every behaviour.
LEMMA BaseInvariant == Spec => []Base
BY InitInv, BaseStep, PTL DEF Spec

\* Variables keep their types, however long anybody waits: in particular a replica
\* that runs has a key to sign with, and never the same one twice.
THEOREM TypeCorrect == Spec => []TypeOK
  <1>1. Base => TypeOK
    BY DEF Base, Typed
  <1> QED BY <1>1, BaseInvariant, PTL

----------------------------------------------------------------------------
(* The tokens                                                               *)

\* Tokens grow old together with the wait.
LEMMA TokensStep ==
    ASSUME Life <= Wait
    PROVE  Base /\ TokensInv /\ [Next]_vars => TokensInv'
  <1> SUFFICES ASSUME Base, TokensInv, [Next]_vars PROVE TokensInv'
    OBVIOUS
  <1> USE DEF Base, Typed, TokensInv
  <1>1. \A t \in tokens : t.left \in 1 .. Life
    BY DEF TypeOK, Token
  <1>2. ASSUME NEW r \in Replicas, Restart(r) PROVE TokensInv'
    <2>1. Deployed => Deployed'
      BY <1>2, RestartDeploys
    <2>2. ~Deployed /\ phase = "promoted" => waited = 0
      BY DEF OldRunOut, TypeOK
    <2> QED BY <1>1, <1>2, <2>1, <2>2 DEF Restart, Signed, OldRunOut
  <1>3. ASSUME NEW r \in Replicas, Sign(r) PROVE TokensInv'
    <2> DEFINE new == [key |-> keys[r][1], left |-> Life]
    <2>1. /\ tokens' = tokens \cup {new} /\ Deployed' = Deployed
          /\ UNCHANGED <<env, keys, phase, waited>>
      BY <1>3 DEF Sign, Deployed, Up
    <2>2. IF phase = "promoted" THEN new.key \in {env[1], env[2]} ELSE new.key = env[1]
      BY <1>3, SignerServed DEF Loaded, Sign
    <2>3. Deployed => new.key # env[2]
      BY <1>3, DeployedKeys DEF TypeOK, Sign
    <2>4. Signed'
      BY <2>1, <2>2 DEF Signed
    <2>5. OldRunOut'
      BY <2>1, <2>3 DEF OldRunOut
    <2> QED BY <2>4, <2>5
  <1>4. ASSUME UNCHANGED <<env, keys, tokens, phase, waited>> PROVE TokensInv'
    BY <1>4 DEF Signed, OldRunOut, Deployed, Up
  <1>5. CASE Tick
    <2>1. \A t \in tokens' : \E s \in tokens :
              t = [key |-> s.key, left |-> s.left - 1] /\ s.left > 1
      BY <1>5 DEF Tick, TypeOK, Token
    <2>2. /\ UNCHANGED <<env, keys, phase>> /\ Deployed' = Deployed
          /\ waited' = IF Deployed /\ waited < LongestWait THEN waited + 1 ELSE waited
      BY <1>5 DEF Tick, Deployed, Up
    <2>3. Signed'
      BY <2>1, <2>2 DEF Signed
    <2>4. ASSUME Deployed, phase = "promoted", NEW t \in tokens', t.key = env[2]
          PROVE  t.left + waited' <= Life
      <3>1. PICK s \in tokens : t = [key |-> s.key, left |-> s.left - 1] /\ s.left > 1
        BY <2>1
      <3>2. s.left + waited <= Life /\ s.left \in Nat
        BY <1>1, <2>4, <3>1 DEF OldRunOut
      <3> QED BY <2>2, <3>1, <3>2 DEF TypeOK
    <2>5. phase = "promoted" /\ waited' > 0 => Deployed
      BY <2>2 DEF OldRunOut, TypeOK
    <2>6. OldRunOut'
      BY <2>2, <2>4, <2>5 DEF OldRunOut
    <2> QED BY <2>3, <2>6
  <1>6. CASE Add
    <2>1. /\ phase = "steady" /\ phase' = "added" /\ tokens' = tokens /\ env'[1] = env[1]
      BY <1>6 DEF Add, Deploy, TypeOK, Slots
    <2> QED BY <2>1 DEF Signed, OldRunOut
  <1>7. CASE Promote
    <2>1. /\ phase = "added" /\ phase' = "promoted" /\ tokens' = tokens /\ waited' = 0
          /\ env'[1] = env[2] /\ env'[2] = env[1]
      BY <1>7 DEF Promote, Deploy, TypeOK, Slots
    <2> QED BY <1>1, <2>1 DEF Signed, OldRunOut
  <1>8. CASE Drop
    <2>1. /\ Deployed /\ waited >= Wait /\ phase = "promoted" /\ phase' = "steady"
          /\ tokens' = tokens /\ env'[1] = env[1]
      BY <1>8 DEF Drop, Deploy, TypeOK, Slots
    <2>2. waited \in Nat
      BY DEF TypeOK, LongestWait
    <2>3. ASSUME NEW t \in tokens, t.key = env[2] PROVE FALSE
      BY <1>1, <2>1, <2>2, <2>3 DEF OldRunOut
    <2> QED BY <2>1, <2>3 DEF Signed, OldRunOut
  <1> QED BY <1>2, <1>3, <1>4, <1>5, <1>6, <1>7, <1>8 DEF Next, Keep, Refresh, Slip, vars

\* Every valid token was signed with a key that is still in use.
LEMMA TokensInvariant == Life <= Wait => (Spec => [](Base /\ TokensInv))
  <1> SUFFICES ASSUME Life <= Wait PROVE Spec => [](Base /\ TokensInv)
    OBVIOUS
  <1> QED BY InitInv, BaseStep, TokensStep, PTL DEF Spec

\* When the old key is dropped, no valid token was signed by it: the wait alone
\* sees to that, whatever HTTP caches and validators do.
THEOREM OldKeyRunsOut == Life <= Wait => (Spec => []OldTokensAreGone)
  <1> SUFFICES ASSUME Life <= Wait PROVE Spec => []OldTokensAreGone
    OBVIOUS
  <1>1. Base /\ TokensInv => OldTokensAreGone
    BY DEF TokensInv, Signed, OldTokensAreGone
  <1> QED BY <1>1, TokensInvariant, PTL

\* Every replica that runs accepts every token in its life, of its own and of the
\* others.
ReplicasAccept == \A t \in tokens, r \in Replicas : Up(r) => t.key \in JWKS(r)

\* The exchange surface, which checks sign-in tokens with the keys its process
\* loaded (auth.go), never turns one down because of a rotation: this too needs
\* only the wait.
THEOREM ReplicasAcceptTokens == Life <= Wait => (Spec => []ReplicasAccept)
  <1> SUFFICES ASSUME Life <= Wait PROVE Spec => []ReplicasAccept
    OBVIOUS
  <1>1. Base /\ TokensInv => ReplicasAccept
    BY SignerServed DEF Base, Typed, Loaded, TokensInv, Signed, ReplicasAccept
  <1> QED BY <1>1, TokensInvariant, PTL

----------------------------------------------------------------------------
(* The caches                                                               *)

\* What any replica serves has the keys in use.
LEMMA ServesInUse ==
    ASSUME Base, NEW r \in Replicas, Up(r)
    PROVE  InUse \subseteq JWKS(r)
BY SignerServed DEF Base, Typed, Loaded, InUse

\* When refreshes count, no copy lacks the key that was added.
LEMMA CopiesInformed ==
    ASSUME MaxAge <= Patience, Base, CachesInv, phase = "added", Deployed, waited >= Patience,
           NEW copy \in copies
    PROVE  env[2] \in copy.keys
  <1>1. copy.age < MaxAge /\ copy.age \in Int /\ waited \in Int
    BY DEF Base, Typed, TypeOK, Copy, LongestWait
  <1> QED BY <1>1 DEF CachesInv, Informed

\* A key is everywhere before it signs.
LEMMA CachesStep ==
    ASSUME MaxAge <= Patience
    PROVE  Base /\ CachesInv /\ [Next]_vars => CachesInv'
  <1> SUFFICES ASSUME Base, CachesInv, [Next]_vars PROVE CachesInv'
    OBVIOUS
  <1> USE DEF Base, Typed, CachesInv
  <1>1. \A copy \in copies : copy.age \in Nat /\ waited \in Nat
    BY DEF TypeOK, Copy, LongestWait
  <1>2. ASSUME NEW r \in Replicas, Restart(r) PROVE CachesInv'
    <2>1. Deployed => Deployed'
      BY <1>2, RestartDeploys
    <2>2. ~Deployed /\ phase = "added" => waited = 0 /\ refreshed = {}
      BY DEF Informed, TypeOK
    <2>3. UNCHANGED <<env, copies, cache, phase, refreshed, waited>>
      BY <1>2 DEF Restart
    <2>4. Known'
      BY <2>3 DEF Known, InUse
    <2>5. Informed'
      BY <1>1, <2>1, <2>2, <2>3 DEF Informed
    <2> QED BY <2>4, <2>5
  <1>3. ASSUME NEW r \in Replicas, Keep(r) PROVE CachesInv'
    <2> DEFINE new == [keys |-> JWKS(r), age |-> 0]
    <2>1. /\ copies' = copies \cup {new} /\ Deployed' = Deployed
          /\ UNCHANGED <<env, cache, phase, refreshed, waited>>
      BY <1>3 DEF Keep, Deployed, Up
    <2>2. Deployed /\ phase = "added" => env[2] \in JWKS(r)
      BY <1>3, DeployedKeys DEF Keep
    <2>3. Known'
      BY <1>3, <2>1, ServesInUse DEF Known, InUse, Keep
    <2>4. Informed'
      BY <2>1, <2>2 DEF Informed
    <2> QED BY <2>3, <2>4
  <1>4. ASSUME NEW v \in Validators, Refresh(v) PROVE CachesInv'
    <2>1. PICK known \in {JWKS(r) : r \in {r \in Replicas : Up(r)}} \cup {copy.keys : copy \in copies} :
              cache' = [cache EXCEPT ![v] = known]
      BY <1>4 DEF Refresh
    <2>2. /\ refreshed' = IF Deployed /\ waited >= Patience
                          THEN refreshed \cup {v} ELSE refreshed
          /\ Deployed' = Deployed /\ UNCHANGED <<env, copies, phase, waited>>
      BY <1>4 DEF Refresh, Deployed, Up
    <2>3. \A w \in Validators : cache'[w] = IF w = v THEN known ELSE cache[w]
      BY <2>1 DEF TypeOK
    <2>4. InUse \subseteq known
      BY <2>1, ServesInUse DEF Known
    <2>5. Known'
      BY <2>2, <2>3, <2>4 DEF Known, InUse
    <2>6. ASSUME phase = "added", Deployed, waited >= Patience PROVE env[2] \in known
      <3>1. \A r \in Replicas : Up(r) => env[2] \in JWKS(r)
        BY <2>6, DeployedKeys
      <3> QED BY <2>1, <2>6, <3>1, CopiesInformed
    <2>7. ASSUME phase = "added", refreshed # {} PROVE Deployed /\ waited >= Patience
      BY <2>7 DEF Informed
    <2>8. Informed'
      BY <2>2, <2>3, <2>6, <2>7 DEF Informed, TypeOK
    <2> QED BY <2>5, <2>8
  <1>5. ASSUME UNCHANGED <<env, keys, copies, cache, phase, refreshed, waited>> PROVE CachesInv'
    BY <1>5 DEF Known, InUse, Informed, Deployed, Up
  <1>6. CASE Tick
    <2>1. /\ UNCHANGED <<env, keys, cache, phase, refreshed>> /\ Deployed' = Deployed
          /\ waited' = IF Deployed /\ waited < LongestWait THEN waited + 1 ELSE waited
      BY <1>6 DEF Tick, Deployed, Up
    <2>2. \A copy \in copies' : \E held \in copies :
              copy = [keys |-> held.keys, age |-> held.age + 1]
      BY <1>6 DEF Tick, TypeOK, Copy
    <2>3. Known'
      BY <2>1, <2>2 DEF Known, InUse
    <2>4. waited \in Nat /\ waited' \in Nat /\ waited <= waited' /\ waited' <= waited + 1
      BY <2>1 DEF TypeOK, LongestWait
    <2>5. ASSUME phase = "added", Deployed, NEW copy \in copies', env[2] \notin copy.keys
          PROVE  copy.age >= waited'
      <3>1. PICK held \in copies : copy.keys = held.keys /\ copy.age = held.age + 1
        BY <2>2
      <3>2. held.age >= waited /\ held.age \in Nat
        BY <1>1, <2>5, <3>1 DEF Informed
      <3> QED BY <2>4, <3>1, <3>2
    <2>6. Informed'
      BY <2>1, <2>4, <2>5 DEF Informed
    <2> QED BY <2>3, <2>6
  <1>7. CASE Add
    <2>1. /\ phase = "steady" /\ phase' = "added" /\ refreshed' = {} /\ waited' = 0
          /\ env'[1] = env[1] /\ UNCHANGED <<copies, cache>>
      BY <1>7 DEF Add, Deploy, TypeOK, Slots
    <2>2. Known'
      BY <2>1 DEF Known, InUse
    <2>3. Informed'
      BY <1>1, <2>1 DEF Informed
    <2> QED BY <2>2, <2>3
  <1>8. CASE Promote
    <2>1. /\ Deployed /\ refreshed = Validators /\ phase = "added" /\ phase' = "promoted"
          /\ UNCHANGED <<copies, cache>>
          /\ env'[1] = env[2] /\ env'[2] = env[1]
      BY <1>8 DEF Promote, Deploy, TypeOK, Slots
    <2>2. waited >= Patience /\ \A v \in Validators : env[2] \in cache[v]
      BY <2>1 DEF Informed
    <2>3. \A copy \in copies : env[2] \in copy.keys
      BY <2>1, <2>2, CopiesInformed
    <2>4. Known'
      BY <2>1, <2>2, <2>3 DEF Known, InUse
    <2> QED BY <2>1, <2>4 DEF Informed
  <1>9. CASE Drop
    <2>1. /\ phase = "promoted" /\ phase' = "steady" /\ env'[1] = env[1]
          /\ UNCHANGED <<copies, cache>>
      BY <1>9 DEF Drop, Deploy, TypeOK, Slots
    <2> QED BY <2>1 DEF Known, InUse, Informed
  <1> QED BY <1>2, <1>3, <1>4, <1>5, <1>6, <1>7, <1>8, <1>9 DEF Next, Sign, Slip, vars

\* Validators and HTTP caches have every key in use.
LEMMA CachesInvariant == MaxAge <= Patience => (Spec => [](Base /\ CachesInv))
  <1> SUFFICES ASSUME MaxAge <= Patience PROVE Spec => [](Base /\ CachesInv)
    OBVIOUS
  <1> QED BY InitInv, BaseStep, CachesStep, PTL DEF Spec

\* Whatever replica signs next, every validator already has the key.
SignersKnown == \A v \in Validators, r \in Replicas : Up(r) => keys[r][1] \in cache[v]

\* A new key reaches every validator before the first token it signs: this needs
\* the caches to be outwaited, and nothing of the old key.
THEOREM KeyKnownBeforeUse == MaxAge <= Patience => (Spec => []SignersKnown)
  <1> SUFFICES ASSUME MaxAge <= Patience PROVE Spec => []SignersKnown
    OBVIOUS
  <1>1. Base /\ CachesInv => SignersKnown
    <2> SUFFICES ASSUME Base, CachesInv, NEW v \in Validators, NEW r \in Replicas, Up(r)
                 PROVE  keys[r][1] \in cache[v]
      BY DEF SignersKnown
    <2>1. keys[r][1] \in InUse
      BY SignerServed DEF Base, Typed, Loaded, InUse
    <2> QED BY <2>1 DEF CachesInv, Known
  <1> QED BY <1>1, CachesInvariant, PTL

\* Throughout any rotation, for any number of replicas and validators, a token in
\* its life verifies at every validator and at every replica, provided the old
\* key is kept at least as long as a token lives and refreshes count when no cache
\* has an older answer any more.
THEOREM RotationIsSeamless == Life <= Wait /\ MaxAge <= Patience => (Spec => []TokensVerify)
  <1> SUFFICES ASSUME Life <= Wait, MaxAge <= Patience PROVE Spec => []TokensVerify
    OBVIOUS
  <1>1. Base /\ TokensInv /\ CachesInv => TokensVerify
    <2> SUFFICES ASSUME Base, TokensInv, CachesInv, NEW t \in tokens
                 PROVE  /\ \A v \in Validators : t.key \in cache[v]
                        /\ \A r \in Replicas : Up(r) => t.key \in JWKS(r)
      BY DEF TokensVerify
    <2>1. t.key \in InUse
      BY DEF TokensInv, Signed, InUse
    <2> QED BY <2>1, ServesInUse DEF CachesInv, Known
  <1> QED BY <1>1, TokensInvariant, CachesInvariant, PTL

=============================================================================
