----------------------------- MODULE KeyRotation -----------------------------
(***************************************************************************)
(* Signing keys: the numbered environment variables, the key set each        *)
(* replica loads from them once, the token it signs with the first key, the  *)
(* JWKS it serves with all of them, the HTTP caches that may keep it, and the *)
(* rotation of the README: add, promote, drop, each a deployment that         *)
(* replaces the replicas one by one.                                         *)
(*                                                                          *)
(* Source: internal/keyset, internal/envx/envx.go, internal/oidc,            *)
(* internal/exchange/middleware/auth.go, cmd/dauth/main.go. The validators    *)
(* and the operator are not code of this repository; they are modelled from   *)
(* how the JWKS is served and from the README's procedure.                   *)
(*                                                                          *)
(* A deployment may leave the first variable empty by mistake, which is a gap  *)
(* before the other; a gap between two takes three, which no rotation sets.   *)
(*                                                                          *)
(* Time is kept as what is left of a token's life, so it needs no bound. A    *)
(* key that no variable holds may be generated (again): keys are few here.    *)
(***************************************************************************)
EXTENDS Integers

CONSTANTS
    Replicas,
    Validators,     \* verifiers of tokens, each with a JWKS cache
    Keys,
    Unset,          \* an empty environment variable
    Life,           \* of a token, in ticks: TOKEN_TTL, or TOKEN_EXPIRATION on /exchange
    MaxAge,         \* Cache-Control of the JWKS, in ticks
    Patience,       \* before a refresh counts as one with the new key, in ticks
    Wait            \* before the old key is dropped, in ticks: TOKEN_TTL

VARIABLES
    env,            \* the numbered variables, as the rotation means them
    slipped,        \* the first of them is empty in the current deployment, by mistake
    keys,           \* KeySet.all of each replica, empty when it failed to start
    tokens,         \* valid tokens: their key and what is left of their life
    copies,         \* answers that HTTP caches hold: their keys and their age
    cache,          \* the keys each validator knows
    phase,          \* step of the rotation the operator is in
    refreshed,      \* validators that refreshed since the roll-out was complete
    waited          \* ticks since the roll-out was complete, up to LongestWait

vars == <<env, slipped, keys, tokens, copies, cache, phase, refreshed, waited>>

ASSUME RotationAssumption ==
    /\ Replicas # {} /\ Validators # {} /\ Unset \notin Keys
    /\ Life \in Nat \ {0} /\ Wait \in Nat /\ MaxAge \in Nat /\ Patience \in Nat

LongestWait == IF Wait < Patience THEN Patience ELSE Wait

Slots == 1 .. 2

\* Mutant: every variable, empty or not.
MNumbered(e) == e
\* Mutant: the gaps are skipped, as List skips empty items.
MSkipGaps(e) ==
    LET set == {i \in Slots : e[i] # Unset}
    IN  IF 1 \in set THEN [i \in set |-> e[i]] ELSE [i \in {j - 1 : j \in set} |-> e[i + 1]]
\* The variables in order, up to the first gap.
Numbered(e) == [i \in {i \in Slots : \A j \in 1 .. i : e[j] # Unset} |-> e[i]]

\* keyset.Load fails without a key, and the process with it.
Up(r) == 1 \in DOMAIN keys[r]

JWKS(r) == {keys[r][i] : i \in DOMAIN keys[r]}
Deployed == \A r \in Replicas : Up(r) => keys[r] = Numbered(env)

KeyRotationInit ==
    \E k \in Keys :
        /\ env = [i \in Slots |-> IF i = 1 THEN k ELSE Unset]
        /\ keys = [r \in Replicas |-> Numbered(env)]
        /\ tokens = {} /\ copies = {} /\ cache = [v \in Validators |-> {k}]
        /\ slipped = FALSE /\ phase = "steady" /\ refreshed = {} /\ waited = 0

\* The variables a process finds when it starts.
Given == IF slipped THEN [env EXCEPT ![1] = Unset] ELSE env

\* keyset.Load when the process starts: in a roll-out, or after a crash.
Restart(r) ==
    /\ keys' = [keys EXCEPT ![r] = Numbered(Given)]
    /\ UNCHANGED <<env, slipped, tokens, copies, cache, phase, refreshed, waited>>

Sign(r) ==
    /\ Up(r) /\ tokens' = tokens \cup {[key |-> keys[r][1], left |-> Life]}
    /\ UNCHANGED <<env, slipped, keys, copies, cache, phase, refreshed, waited>>

\* WellKnown.JWKS: an HTTP cache on the way keeps the answer.
Keep(r) ==
    /\ Up(r) /\ MaxAge > 0 /\ copies' = copies \cup {[keys |-> JWKS(r), age |-> 0]}
    /\ UNCHANGED <<env, slipped, keys, tokens, cache, phase, refreshed, waited>>

\* public, max-age=300.
Fresh(copy) == copy.age < MaxAge

\* A validator gets the JWKS from some replica or from a cache.
Refresh(v) ==
    /\ \E known \in {JWKS(r) : r \in {r \in Replicas : Up(r)}} \cup {copy.keys : copy \in copies} :
          cache' = [cache EXCEPT ![v] = known]
    /\ refreshed' = IF Deployed /\ waited >= Patience THEN refreshed \cup {v} ELSE refreshed
    /\ UNCHANGED <<env, slipped, keys, tokens, copies, phase, waited>>

Tick ==
    /\ tokens' = {[t EXCEPT !.left = @ - 1] : t \in {t \in tokens : t.left > 1}}
    /\ copies' = {copy \in {[held EXCEPT !.age = @ + 1] : held \in copies} : Fresh(copy)}
    /\ waited' = IF Deployed /\ waited < LongestWait THEN waited + 1 ELSE waited
    /\ UNCHANGED <<env, slipped, keys, cache, phase, refreshed>>

\* A deployment with the first variable empty, and the one that puts it right.
Slip ==
    /\ slipped' = ~slipped
    /\ UNCHANGED <<env, keys, tokens, copies, cache, phase, refreshed, waited>>

\* The next step of the rotation, once every replica that runs has the last one.
Deploy(from, to, e) ==
    /\ Deployed /\ ~slipped /\ phase = from /\ phase' = to
    /\ env' = e /\ refreshed' = {} /\ waited' = 0
    /\ UNCHANGED <<slipped, keys, tokens, copies, cache>>

Add == \E k \in Keys \ {env[1]} : Deploy("steady", "added", [env EXCEPT ![2] = k])
Promote ==
    /\ refreshed = Validators
    /\ Deploy("added", "promoted", [i \in Slots |-> env[3 - i]])
\* Mutant: without waiting for the old key's tokens to expire.
MDrop == Deploy("promoted", "steady", [env EXCEPT ![2] = Unset])
Drop ==
    /\ waited >= Wait
    /\ Deploy("promoted", "steady", [env EXCEPT ![2] = Unset])

Next ==
    \/ \E r \in Replicas : Restart(r) \/ Sign(r) \/ Keep(r)
    \/ \E v \in Validators : Refresh(v)
    \/ Tick \/ Slip \/ Add \/ Promote \/ Drop

Spec == KeyRotationInit /\ [][Next]_vars

----------------------------------------------------------------------------
(* Properties                                                               *)

Token == [key : Keys, left : 1 .. Life]
Copy == [keys : SUBSET Keys, age : 0 .. MaxAge - 1]

\* Every variable stays in its type: a replica that runs has a key to sign with,
\* none of its keys is an empty variable, and no two are the same (keyset.Load would
\* refuse them).
TypeOK ==
    /\ env \in [Slots -> Keys \cup {Unset}] /\ env[1] # Unset /\ env[1] # env[2]
    /\ slipped \in BOOLEAN
    /\ keys \in [Replicas -> [{} -> Keys] \cup [{1} -> Keys] \cup [Slots -> Keys]]
    /\ \A r \in Replicas : 2 \in DOMAIN keys[r] => keys[r][1] # keys[r][2]
    /\ tokens \subseteq Token /\ copies \subseteq Copy /\ cache \in [Validators -> SUBSET Keys]
    /\ phase \in {"steady", "added", "promoted"}
    /\ refreshed \subseteq Validators /\ waited \in 0 .. LongestWait

\* "New tokens are signed by the new key; the old key still verifies outstanding
\* tokens" (README): in the middle of any roll-out, a token in its life verifies
\* at every validator, whatever replica or cache it asked last, and at every replica
\* that runs, whose exchange surface checks sign-in tokens with the keys it loaded
\* (auth.go). A replica started without the first variable must not sign with the
\* key after the gap, which validators may not know yet.
TokensVerify ==
    \A t \in tokens :
        /\ \A v \in Validators : t.key \in cache[v]
        /\ \A r \in Replicas : Up(r) => t.key \in JWKS(r)

\* "After TOKEN_TTL elapses (no tokens from the old key remain valid), drop the
\* old key": between two rotations every valid token was signed by the one key. No
\* replica that starts during the wait may sign with the old key again, whichever
\* variables are set.
OldTokensAreGone == phase = "steady" => \A t \in tokens : t.key = env[1]

=============================================================================
