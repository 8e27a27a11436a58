--------------------------- MODULE SignInPromise ----------------------------
(***************************************************************************)
(* What sign-in promises, without a store, a handler or a node that takes    *)
(* its time: a client is told a challenge that nobody was told before; one   *)
(* token request per challenge, and none after its expiry, gets a verdict;   *)
(* the verdict is what the account itself would say at one moment, or that   *)
(* it could not be found out; a token is for what was told and signed, and   *)
(* no answer is taken back.                                                  *)
(*                                                                          *)
(* Source: what Challenge and Token in internal/siwe/server/handlers.go give *)
(* their clients, with Verify in internal/siwe/signer/verifier.go and Issue  *)
(* in internal/siwe/token/token.go.                                          *)
(*                                                                          *)
(* SignIn implements this specification.                                     *)
(***************************************************************************)
EXTENDS Integers

CONSTANTS
    Callers, Nonces, Replicas, Home, Accounts, Keys, NoKey, EOAKey,
    Audiences, AllowedAudiences, DefaultAudience,
    ChallengeTTL, TokenTTL, Second, MaxTime, HasBackend,
    NoNonce, NoSig, NoToken

VARIABLES
    clock,      \* wall clock of each replica
    owner,      \* key that a contract at an address answers for, or NoKey
    told,       \* challenges that clients were told
    asked,      \* nonce each token request is about
    sig,        \* signature each token request carries
    spender,    \* requests that a challenge was spent on
    approved,   \* those of them whose signature was found good
    reply,      \* answer each request got
    token       \* token minted for each request

vars == <<clock, owner, told, asked, sig, spender, approved, reply, token>>

Seconds(t) == t \div Second
Now(c) == clock[Home[c]]
Open(c) == reply[c] = "none"

Init ==
    /\ clock = [r \in Replicas |-> 0]
    /\ owner \in [Accounts -> IF HasBackend THEN Keys \cup {NoKey} ELSE {NoKey}]
    /\ told = {} /\ spender = {} /\ approved = {}
    /\ asked = [c \in Callers |-> NoNonce]
    /\ sig = [c \in Callers |-> NoSig]
    /\ reply = [c \in Callers |-> "none"]
    /\ token = [c \in Callers |-> NoToken]

----------------------------------------------------------------------------
(* POST /challenge                                                          *)

\* The challenge that a client is told, made at t.
Offer(a, n, aud, t) ==
    [message |-> [address |-> a, nonce |-> n, issuedAt |-> Seconds(t),
                  expirationTime |-> Seconds(t + ChallengeTTL)],
     address |-> a, audience |-> aud]

Tell(c) ==
    /\ Open(c) /\ asked[c] = NoNonce
    /\ reply' = [reply EXCEPT ![c] = "challenge"]
    /\ \E a \in Accounts, n \in Nonces, aud \in SUBSET AllowedAudiences, t \in 0 .. Now(c) :
          /\ \A b \in told : b.message.nonce # n
          /\ told' = told \cup {Offer(a, n, aud, t)}
    /\ UNCHANGED <<clock, owner, asked, sig, spender, approved, token>>

\* A request that is turned away before anything is judged.
Refuse(c) ==
    /\ Open(c) /\ c \notin spender
    /\ \E r \in IF asked[c] = NoNonce THEN {"badRequest", "serverError", "unavailable"}
                                     ELSE {"invalidGrant"} :
          reply' = [reply EXCEPT ![c] = r]
    /\ UNCHANGED <<clock, owner, told, asked, sig, spender, approved, token>>

----------------------------------------------------------------------------
(* POST /token                                                              *)

\* A client sends any nonce, and signs what clients were told.
Present(c) ==
    /\ Open(c) /\ asked[c] = NoNonce
    /\ \E n \in Nonces : asked' = [asked EXCEPT ![c] = n]
    /\ \E s \in [key : Keys, message : {b.message : b \in told}] \cup {NoSig} :
          sig' = [sig EXCEPT ![c] = s]
    /\ UNCHANGED <<clock, owner, told, spender, approved, reply, token>>

\* Nobody else has spent the challenge, and the expiry that was told is not over.
Spend(c) ==
    /\ Open(c) /\ asked[c] # NoNonce /\ c \notin spender
    /\ \A d \in spender : asked[d] # asked[c]
    /\ \A b \in told : b.message.nonce = asked[c] => Seconds(Now(c)) <= b.message.expirationTime
    /\ spender' = spender \cup {c}
    /\ UNCHANGED <<clock, owner, told, asked, sig, approved, reply, token>>

\* The signature is over challenge b and its key is one of K.
Signed(c, b, K) == sig[c] # NoSig /\ sig[c].message = b.message /\ sig[c].key \in K

Mine(c) == {b \in told : b.message.nonce = asked[c]}

\* At this moment the account would accept the signature.
Valid(c) == \E b \in Mine(c) : Signed(c, b, {EOAKey[b.address], owner[b.address]})

Approve(c) ==
    /\ Open(c) /\ c \in spender \ approved /\ Valid(c)
    /\ approved' = approved \cup {c}
    /\ UNCHANGED <<clock, owner, told, asked, sig, spender, reply, token>>

Reject(c) ==
    /\ Open(c) /\ c \in spender \ approved /\ ~Valid(c)
    /\ reply' = [reply EXCEPT ![c] = "badSignature"]
    /\ UNCHANGED <<clock, owner, told, asked, sig, spender, approved, token>>

\* ErrBackend: only when a node has to be asked, never for an account's own key.
Undecided(c) ==
    /\ Open(c) /\ c \in spender \ approved /\ HasBackend
    /\ \A b \in Mine(c) : ~Signed(c, b, {EOAKey[b.address]})
    /\ reply' = [reply EXCEPT ![c] = "unavailable"]
    /\ UNCHANGED <<clock, owner, told, asked, sig, spender, approved, token>>

Grant(c) ==
    /\ Open(c) /\ c \in approved
    /\ reply' = [reply EXCEPT ![c] = "token"]
    /\ \E b \in Mine(c) :
          /\ sig[c].message = b.message
          /\ token' = [token EXCEPT ![c] =
                [address |-> b.address,
                 audience |-> IF b.audience = {} THEN DefaultAudience ELSE b.audience,
                 issuedAt |-> Seconds(Now(c)), expiresAt |-> Seconds(Now(c) + TokenTTL)]]
    /\ UNCHANGED <<clock, owner, told, asked, sig, spender, approved>>

NoGrant(c) ==
    /\ Open(c) /\ c \in approved
    /\ reply' = [reply EXCEPT ![c] = "serverError"]
    /\ UNCHANGED <<clock, owner, told, asked, sig, spender, approved, token>>

----------------------------------------------------------------------------

SetOwner ==
    /\ HasBackend
    /\ \E a \in Accounts, k \in Keys \cup {NoKey} : owner' = [owner EXCEPT ![a] = k]
    /\ UNCHANGED <<clock, told, asked, sig, spender, approved, reply, token>>

Tick ==
    /\ \E r \in Replicas : clock[r] < MaxTime /\ clock' = [clock EXCEPT ![r] = @ + 1]
    /\ UNCHANGED <<owner, told, asked, sig, spender, approved, reply, token>>

Next ==
    \/ \E c \in Callers :
          \/ Tell(c) \/ Refuse(c) \/ Present(c) \/ Spend(c)
          \/ Approve(c) \/ Reject(c) \/ Undecided(c) \/ Grant(c) \/ NoGrant(c)
    \/ SetOwner \/ Tick

Spec == Init /\ [][Next]_vars

=============================================================================
