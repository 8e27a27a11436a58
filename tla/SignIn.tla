------------------------------- MODULE SignIn -------------------------------
(***************************************************************************)
(* The sign-in endpoints POST /siwe/challenge and POST /siwe/token: the two *)
(* handlers, the signature verifier they call and the token issuer, over a  *)
(* challenge store that keeps the promise of NonceStore and an Ethereum     *)
(* node that answers late, with an error, or from a newer block.            *)
(*                                                                          *)
(* Source: internal/siwe/server/handlers.go, internal/siwe/signer/          *)
(* verifier.go, internal/siwe/token/token.go, internal/siwe/message/        *)
(* message.go.                                                               *)
(*                                                                          *)
(* One caller is one HTTP request, which makes at most one call on the      *)
(* store: pc, id and held are that call's, as in NonceStore.                 *)
(***************************************************************************)
EXTENDS NonceStore

CONSTANTS
    Accounts,           \* Ethereum addresses
    Keys,               \* private keys that sign messages
    EOAKey,             \* the key an address is derived from, or NoKey
    NoKey,
    Audiences,          \* aud values a client may ask for
    AllowedAudiences,   \* SIWE_ALLOWED_AUDIENCES
    DefaultAudience,    \* the issuer's configured audience
    TokenTTL,           \* lifetime of a token, in clock ticks
    Second,             \* clock ticks in a second
    HasBackend,         \* RPC_URL is set
    NoSig, NoToken

VARIABLES
    stage,  \* where each request's handler is
    sig,    \* signature each token request carries
    reply,  \* answer each request got
    token,  \* token minted for each request
    owner,  \* key that a contract at an address answers for, NoKey without code
    seen    \* history: owners an address had while the request was under way

Seconds(t) == t \div Second

\* EIP-4361 times are RFC 3339 with whole seconds.
Message == [address : Accounts, nonce : Nonces,
            issuedAt : {Seconds(t) : t \in 0 .. MaxTime},
            expirationTime : {Seconds(t) : t \in ChallengeTTL .. (MaxTime + ChallengeTTL)}]
Body == [message : Message, address : Accounts, audience : SUBSET Audiences]

ASSUME SignInAssumption ==
    /\ EOAKey \in [Accounts -> Keys \cup {NoKey}] /\ NoKey \notin Keys
    /\ AllowedAudiences \subseteq Audiences /\ DefaultAudience # {}
    /\ TokenTTL \in Int /\ Second \in Nat \ {0} /\ HasBackend \in BOOLEAN
    /\ Bodies = Body

storeVars == <<clock, live, pc, id, held>>
requestVars == <<stage, sig, reply, token>>
signInVars == <<clock, live, pc, id, held, stage, sig, reply, token, owner, seen>>

Signature == [key : Keys, message : Message]
Token == [address : Accounts, audience : (SUBSET (Audiences \cup DefaultAudience)) \ {{}},
          issuedAt : Int, expiresAt : Int]

Stages == {"new", "store", "verify", "codeAt", "isValid", "issue", "done"}
Replies == {"none", "challenge", "token", "badRequest", "invalidGrant",
            "badSignature", "unavailable", "serverError"}

\* Every variable keeps its type, and a token is for somebody: its audience is never
\* empty, whatever the challenge asked for (token.go).
SignInTypeOK ==
    /\ TypeOK
    /\ stage \in [Callers -> Stages]
    /\ sig \in [Callers -> Signature \cup {NoSig}]
    /\ reply \in [Callers -> Replies]
    /\ token \in [Callers -> Token \cup {NoToken}]
    /\ owner \in [Accounts -> Keys \cup {NoKey}]
    /\ seen \in [Callers -> SUBSET (Accounts \X Keys)]

SignInInit ==
    /\ Init
    /\ stage = [c \in Callers |-> "new"]
    /\ sig = [c \in Callers |-> NoSig]
    /\ reply = [c \in Callers |-> "none"]
    /\ token = [c \in Callers |-> NoToken]
    /\ owner \in [Accounts -> IF HasBackend THEN Keys \cup {NoKey} ELSE {NoKey}]
    /\ seen = [c \in Callers |-> {}]

----------------------------------------------------------------------------
(* Helpers                                                                  *)

Owners == {p \in Accounts \X Keys : owner[p[1]] = p[2]}

\* A step of request c's handler.
Goto(c, from, to) ==
    /\ stage[c] = from /\ stage' = [stage EXCEPT ![c] = to]
    /\ UNCHANGED owner

\* writeJSON / writeError and the end of the handler.
Answer(c, from, answer) ==
    /\ Goto(c, from, "done")
    /\ reply' = [reply EXCEPT ![c] = answer]
    /\ UNCHANGED <<sig, seen>>

IsPut(c) == pc[c] \in PutPhases

\* What clients were given to sign.
Disclosed == {held[c].body.message : c \in {d \in Callers : reply[d] = "challenge"}}

----------------------------------------------------------------------------
(* POST /challenge                                                          *)

AudienceAllowed(aud) == aud \subseteq AllowedAudiences

\* An unreadable body, a bad or zero address, or an audience that is not allowed.
BadRequest(c) ==
    /\ Answer(c, "new", "badRequest")
    /\ UNCHANGED <<storeVars, token>>

\* nonce.New fails before anything is stored.
NonceFails(c) ==
    /\ Answer(c, "new", "serverError")
    /\ UNCHANGED <<storeVars, token>>

\* Mutant: times rounded up.
MNewMessage(c, a, n) ==
    [address |-> a, nonce |-> n, issuedAt |-> Seconds(Now(c)) + 1,
     expirationTime |-> Seconds(Now(c) + ChallengeTTL) + 1]
NewMessage(c, a, n) ==
    [address |-> a, nonce |-> n, issuedAt |-> Seconds(Now(c)),
     expirationTime |-> Seconds(Now(c) + ChallengeTTL)]

PostChallenge(c, a, n, aud) ==
    /\ Goto(c, "new", "store") /\ AudienceAllowed(aud)
    /\ CallPut(c, n, [body |-> [message |-> NewMessage(c, a, n),
                                address |-> a, audience |-> aud],
                      expiresAt |-> Now(c) + ChallengeTTL])
    /\ UNCHANGED <<sig, reply, token, seen>>

ChallengeStored(c) ==
    /\ pc[c] = "stored" /\ Answer(c, "store", "challenge")
    /\ UNCHANGED <<storeVars, token>>

ChallengeNotStored(c) ==
    /\ pc[c] \in {"refused", "putLost"} /\ Answer(c, "store", "unavailable")
    /\ UNCHANGED <<storeVars, token>>

----------------------------------------------------------------------------
(* POST /token                                                              *)

\* A client sends some nonce with a signature over a message it was given.
PostToken(c, n, s) ==
    /\ Goto(c, "new", "store")
    /\ CallConsume(c, n)
    /\ sig' = [sig EXCEPT ![c] = s]
    /\ seen' = [seen EXCEPT ![c] = Owners]
    /\ UNCHANGED <<reply, token>>

\* Mutant: only ErrNotFound is answered.
MTokenRefused(c) ==
    /\ pc[c] = "notfound"
    /\ Answer(c, "store", "invalidGrant")
    /\ UNCHANGED <<storeVars, token>>
\* Any error of the store is reported as invalid_grant.
TokenRefused(c) ==
    /\ pc[c] \in {"notfound", "failed", "consumeLost"}
    /\ Answer(c, "store", "invalidGrant")
    /\ UNCHANGED <<storeVars, token>>

TokenConsumed(c) ==
    /\ pc[c] = "got" /\ Goto(c, "store", "verify")
    /\ UNCHANGED <<storeVars, sig, reply, token, seen>>

----------------------------------------------------------------------------
(* Verifier.Verify                                                          *)

\* Mutant: the message is the client's, not the stored one.
MSignedBy(c, k) == sig[c] # NoSig /\ sig[c].key = k
\* The signature is by k and over the stored message, whichever one was sent.
SignedBy(c, k) ==
    sig[c] # NoSig /\ sig[c].key = k /\ sig[c].message = held[c].body.message

VerifyEOA(c) == SignedBy(c, EOAKey[held[c].body.address])

Verify(c) ==
    \/ /\ Goto(c, "verify", "issue") /\ VerifyEOA(c)
       /\ UNCHANGED <<storeVars, sig, reply, token, seen>>
    \/ /\ Answer(c, "verify", "badSignature") /\ ~VerifyEOA(c) /\ ~HasBackend
       /\ UNCHANGED <<storeVars, token>>
    \/ /\ Goto(c, "verify", "codeAt") /\ ~VerifyEOA(c) /\ HasBackend
       /\ UNCHANGED <<storeVars, sig, reply, token, seen>>

\* Mutant: no code to ask counts as no objection.
MCodeAt(c) ==
    \/ /\ Goto(c, "codeAt", "issue")
       /\ owner[held[c].body.address] = NoKey
       /\ UNCHANGED <<storeVars, sig, reply, token, seen>>
    \/ /\ Goto(c, "codeAt", "isValid")
       /\ owner[held[c].body.address] # NoKey
       /\ UNCHANGED <<storeVars, sig, reply, token, seen>>
\* An address without code is an EOA whose signature did not match.
CodeAt(c) ==
    \/ /\ Answer(c, "codeAt", "badSignature")
       /\ owner[held[c].body.address] = NoKey
       /\ UNCHANGED <<storeVars, token>>
    \/ /\ Goto(c, "codeAt", "isValid")
       /\ owner[held[c].body.address] # NoKey
       /\ UNCHANGED <<storeVars, sig, reply, token, seen>>

\* The contract may have changed since CodeAt; a call to no code is an error.
IsValidSignature(c) ==
    /\ stage[c] = "isValid" /\ owner[held[c].body.address] # NoKey
    /\ \/ /\ Goto(c, "isValid", "issue")
          /\ SignedBy(c, owner[held[c].body.address])
          /\ UNCHANGED <<storeVars, sig, reply, token, seen>>
       \/ /\ Answer(c, "isValid", "badSignature")
          /\ ~SignedBy(c, owner[held[c].body.address])
          /\ UNCHANGED <<storeVars, token>>

\* Mutant: a node that fails turns the signature down.
MBackendFails(c) ==
    /\ Answer(c, "codeAt", "badSignature") \/ Answer(c, "isValid", "badSignature")
    /\ UNCHANGED <<storeVars, token>>
\* ErrBackend: the node did not answer, or not with a result.
BackendFails(c) ==
    /\ Answer(c, "codeAt", "unavailable") \/ Answer(c, "isValid", "unavailable")
    /\ UNCHANGED <<storeVars, token>>

----------------------------------------------------------------------------
(* Issuer.Issue                                                             *)

\* Mutant: the default is forgotten.
MAud(requested) == requested
Aud(requested) == IF requested = {} THEN DefaultAudience ELSE requested

\* NumericDate keeps whole seconds.
Issue(c) ==
    /\ Answer(c, "issue", "token")
    /\ token' = [token EXCEPT ![c] =
          [address |-> held[c].body.address, audience |-> Aud(held[c].body.audience),
           issuedAt |-> Seconds(Now(c)), expiresAt |-> Seconds(Now(c) + TokenTTL)]]
    /\ UNCHANGED storeVars

IssueFails(c) ==
    /\ Answer(c, "issue", "serverError")
    /\ UNCHANGED <<storeVars, token>>

----------------------------------------------------------------------------
(* The environment                                                          *)

\* The account is deployed, changes hands or is destroyed on chain, which only
\* a configured node would show.
SetOwner(a, k) ==
    /\ HasBackend /\ owner[a] # k
    /\ owner' = [owner EXCEPT ![a] = k]
    /\ seen' = [c \in Callers |->
          IF stage[c] \in {"new", "done"} \/ k = NoKey THEN seen[c]
          ELSE seen[c] \cup {<<a, k>>}]
    /\ UNCHANGED <<storeVars, requestVars>>

Arrive(c) ==
    \/ BadRequest(c) \/ NonceFails(c)
    \/ \E n \in Nonces :
          \/ \E a \in Accounts, aud \in SUBSET Audiences : PostChallenge(c, a, n, aud)
          \/ \E s \in [key : Keys, message : Disclosed] \cup {NoSig} : PostToken(c, n, s)

Handle(c) ==
    \/ ChallengeStored(c) \/ ChallengeNotStored(c)
    \/ TokenRefused(c) \/ TokenConsumed(c) \/ Verify(c) \/ Issue(c) \/ IssueFails(c)

Backend(c) == CodeAt(c) \/ IsValidSignature(c) \/ BackendFails(c)

StoreOf(c) == StoreStep(c) /\ UNCHANGED <<requestVars, owner, seen>>

SignInNext ==
    \/ \E c \in Callers : Arrive(c) \/ Handle(c) \/ Backend(c) \/ StoreOf(c)
    \/ \E a \in Accounts, k \in Keys \cup {NoKey} : SetOwner(a, k)
    \/ Background /\ UNCHANGED <<requestVars, owner, seen>>

SignInSpec == SignInInit /\ [][SignInNext]_signInVars

\* Handlers run and the store answers; nothing bounds the calls to the node.
HandlerFairSpec ==
    /\ SignInSpec
    /\ \A c \in Callers : WF_signInVars(Handle(c)) /\ WF_signInVars(StoreOf(c))

\* A node that answers, or fails, every call in the end.
FairSpec == HandlerFairSpec /\ \A c \in Callers : WF_signInVars(Backend(c))

----------------------------------------------------------------------------
(* What sign-in guarantees                                                  *)

\* A challenge is good for one verdict (handlers.go:194-196, 206-208): whatever
\* races, fails or is retried, at most one token request per nonce gets as far as
\* having its signature judged, so none yields two tokens and none can be used to
\* try signature after signature.
Judged(c) == ~IsPut(c) /\ reply[c] \in {"token", "badSignature", "unavailable", "serverError"}
                /\ id[c] # NoNonce
OneVerdictPerChallenge ==
    \A c, d \in Callers : Judged(c) /\ Judged(d) /\ id[c] = id[d] => c = d

\* Every token goes back to one challenge that was issued and disclosed: it is
\* for the address and audience asked for then, and the signature is over exactly
\* that challenge's message by the key of the address or by an owner the contract
\* had while the token request was under way.
TokenIsVouched ==
    \A c \in Callers : reply[c] = "token" => \E p \in Callers :
        /\ reply[p] = "challenge" /\ id[p] = id[c]
        /\ token[c].address = held[p].body.address
        /\ sig[c].message = held[p].body.message
        /\ \/ sig[c].key = EOAKey[token[c].address]
           \/ HasBackend /\ <<token[c].address, sig[c].key>> \in seen[c]
        /\ token[c].audience = IF held[p].body.audience = {}
                               THEN DefaultAudience ELSE held[p].body.audience
        /\ token[c].audience \subseteq AllowedAudiences \cup DefaultAudience

\* A client that redeems a challenge it was given before the advertised
\* expiry (whole seconds, handlers.go:158) is told "not found" only if another
\* request used the challenge up.
AdvertisedExpiryHolds ==
    \A c, p \in Callers :
        /\ pc[c] = "notfound" /\ reply[p] = "challenge" /\ id[p] = id[c]
        /\ sig[c] # NoSig /\ sig[c].message = held[p].body.message
        /\ \A d \in Callers \ {c} : ~Removed(d, id[c])
        => \E r \in Replicas : clock[r] > held[p].body.message.expirationTime * Second - Slack

\* What SignInPromise calls told, asked, spender and approved.
ToldBodies == {held[p].body : p \in {d \in Callers : reply[d] = "challenge"}}
AskedNonce == [c \in Callers |-> IF pc[c] \in ConsumePhases THEN id[c] ELSE NoNonce]
Spenders == {c \in Callers : pc[c] = "got"}
Approved == {c \in Spenders : stage[c] = "issue" \/ reply[c] \in {"token", "serverError"}}

Promise == INSTANCE SignInPromise
    WITH told <- ToldBodies, asked <- AskedNonce, spender <- Spenders, approved <- Approved

\* The handlers, the verifier and the issuer, over a store that loses answers and a
\* node that is slow, do what one verdict at one moment would do (verifier.go:43-49,
\* handlers.go:194-233): a challenge is spent once and not after the expiry told, a
\* signature is turned down only when the account would turn it down right then, the
\* account's own key needs no node, and no answer is ever changed.
ImplementsSignIn == Promise!Spec

\* Every request is answered as long as the Ethereum node answers or fails.
EveryRequestAnswered == \A c \in Callers : stage[c] = "store" ~> stage[c] = "done"

\* README.md:184: RPC_TIMEOUT "Bounds each EIP-1271 call".
RPCTimeoutBounds ==
    \A c \in Callers : stage[c] \in {"codeAt", "isValid"} ~> stage[c] \in {"issue", "done"}

=============================================================================
