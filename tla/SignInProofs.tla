---------------------------- MODULE SignInProofs ----------------------------
(***************************************************************************)
(* Sign-in uses its store as NonceStore promises it may be used, and         *)
(* therefore judges at most one signature per challenge, gives tokens only   *)
(* for the challenge that was signed and honours the expiry it advertised,   *)
(* for any number of requests, nonces, accounts and replicas.                *)
(***************************************************************************)
EXTENDS SignIn, NonceStoreProofs

----------------------------------------------------------------------------
(* Every behaviour of sign-in is one of the store                           *)

ClockOK == clock \in [Replicas -> 0 .. MaxTime]

\* A message of the challenge handler is a message.
LEMMA NewMessageType ==
    ASSUME ClockOK, NEW c \in Callers, NEW a \in Accounts, NEW n \in Nonces
    PROVE  NewMessage(c, a, n) \in Message
<1>1. Now(c) \in 0 .. MaxTime /\ Now(c) + ChallengeTTL \in ChallengeTTL .. (MaxTime + ChallengeTTL)
  BY ChallengeAssumption, StoreAssumption DEF ClockOK, Now
<1> QED BY <1>1 DEF NewMessage, Message

\* Every step of sign-in is a step of the store's specification, or leaves the
\* store alone: the handlers only call Put with a nonce nobody has used and a
\* challenge that expires ChallengeTTL from now.
LEMMA UsesStore ==
    ASSUME ClockOK, [SignInNext]_signInVars
    PROVE  [Next]_vars
<1> USE DEF vars
<1>1. ASSUME NEW c \in Callers, Arrive(c) PROVE [Next]_vars
  <2>1. CASE BadRequest(c) \/ NonceFails(c)
    BY <2>1 DEF BadRequest, NonceFails, storeVars
  <2>2. ASSUME NEW n \in Nonces, NEW a \in Accounts, NEW aud \in SUBSET Audiences,
               PostChallenge(c, a, n, aud)
        PROVE  Next
    <3> DEFINE b == [message |-> NewMessage(c, a, n), address |-> a, audience |-> aud]
    <3>1. b \in Bodies
      BY NewMessageType, SignInAssumption DEF Body
    <3>2. CallPut(c, n, NewChallenge(c, b))
      BY <2>2 DEF PostChallenge, NewChallenge
    <3> QED BY <3>1, <3>2 DEF Next
  <2>3. ASSUME NEW n \in Nonces, NEW s, PostToken(c, n, s) PROVE Next
    BY <2>3 DEF PostToken, Next
  <2> QED BY <1>1, <2>1, <2>2, <2>3 DEF Arrive
<1>2. ASSUME NEW c \in Callers, Handle(c) \/ Backend(c)
      PROVE  UNCHANGED storeVars
  BY <1>2 DEF Handle, Backend, ChallengeStored, ChallengeNotStored, TokenRefused,
     TokenConsumed, Verify, Issue, IssueFails, CodeAt, IsValidSignature, BackendFails
<1>3. ASSUME NEW c \in Callers, StoreOf(c) PROVE Next
  BY <1>3 DEF StoreOf, Next
<1>4. ASSUME Background PROVE Next
  BY <1>4 DEF Next
<1>5. ASSUME NEW a \in Accounts, NEW k \in Keys \cup {NoKey}, SetOwner(a, k)
      PROVE  UNCHANGED storeVars
  BY <1>5 DEF SetOwner
<1>6. CASE UNCHANGED signInVars
  BY <1>6 DEF signInVars
<1> QED BY <1>1, <1>2, <1>3, <1>4, <1>5, <1>6 DEF SignInNext, storeVars

\* Clocks only tick, up to the bound of the model.
LEMMA ClockStep == ClockOK /\ [SignInNext]_signInVars => ClockOK'
<1> SUFFICES ASSUME ClockOK, [SignInNext]_signInVars PROVE ClockOK'
  OBVIOUS
<1>1. CASE UNCHANGED clock
  BY <1>1 DEF ClockOK
<1>2. ASSUME NEW r \in Replicas, Tick(r) PROVE ClockOK'
  BY <1>2, ChallengeAssumption DEF Tick, ClockOK
<1>3. CASE UNCHANGED vars
  BY <1>3, <1>1 DEF vars
<1>4. CASE Next
  BY <1>4, <1>1, <1>2 DEF Next, CallPut, CallConsume, StoreStep, Keep, Store, LateStore,
     Take, Remove, LateRemove, Move, Ack, Refuse, Deliver, Miss, Fail, Background, Evict
<1> QED BY <1>3, <1>4, UsesStore

\* Sign-in implements the store's specification: its handlers use the store as the
\* promise of NonceStore allows, so whatever the promise gives, sign-in may rely on.
THEOREM StoreUse == SignInSpec => Spec
<1>1. SignInInit => ClockOK /\ Init
  BY ChallengeAssumption DEF SignInInit, Init, ClockOK
<1> QED BY <1>1, ClockStep, UsesStore, PTL DEF SignInSpec, Spec

----------------------------------------------------------------------------
(* One verdict per challenge                                                *)

Shapes ==
    /\ pc \in [Callers -> Phases] /\ id \in [Callers -> Nonces \cup {NoNonce}]
    /\ stage \in [Callers -> Stages] /\ reply \in [Callers -> Replies]

\* A request that has not arrived has made no call; one that is not done has no
\* answer; one whose signature is being judged, or was, had its Consume succeed.
Progress(c) ==
    /\ pc[c] = "idle" => id[c] = NoNonce
    /\ stage[c] = "new" => pc[c] = "idle"
    /\ stage[c] # "done" => reply[c] = "none"
    /\ stage[c] \in {"verify", "codeAt", "isValid", "issue"} => pc[c] = "got"
    /\ Judged(c) => pc[c] = "got"

VInv == Shapes /\ \A c \in Callers : Progress(c)

\* Nothing has arrived yet.
LEMMA InitVInv == SignInInit => VInv
BY DEF SignInInit, Init, VInv, Shapes, Progress, Judged, Phases, Stages, Replies

\* The steps of the store on behalf of a request take its call forward.
LEMMA StoreOfVInv ==
    ASSUME VInv, NEW c \in Callers, StoreOf(c)
    PROVE  VInv'
<1>1. PICK f \in Phases \ {"idle", "got", "stored"}, t \in Phases \ {"idle"} :
          /\ pc[c] = f /\ pc' = [pc EXCEPT ![c] = t]
          /\ (f \in PutPhases) <=> (t \in PutPhases)
  BY DEF StoreOf, StoreStep, Keep, Store, LateStore, Take, Remove, LateRemove, Move,
     Ack, Refuse, Deliver, Miss, Fail, Phases, PutPhases, ConsumePhases
<1>2. UNCHANGED <<id, stage, reply>>
  BY DEF StoreOf, StoreStep, Keep, Store, LateStore, Take, Remove, LateRemove, Move,
     Ack, Refuse, Deliver, Miss, Fail, requestVars
<1> QED BY <1>1, <1>2 DEF VInv, Shapes, Progress, Judged, IsPut

\* Every step of every request keeps the invariant.
LEMMA VInvStep == VInv /\ [SignInNext]_signInVars => VInv'
<1> SUFFICES ASSUME VInv, [SignInNext]_signInVars PROVE VInv'
  OBVIOUS
<1> USE DEF VInv, Shapes, Progress, Judged, IsPut, Goto, Answer
<1>1. ASSUME NEW c \in Callers, Arrive(c) PROVE VInv'
  <2>1. CASE BadRequest(c) \/ NonceFails(c)
    BY <2>1, ChallengeAssumption DEF BadRequest, NonceFails, storeVars, Stages, Replies
  <2>2. ASSUME NEW n \in Nonces, NEW a \in Accounts, NEW aud \in SUBSET Audiences,
               PostChallenge(c, a, n, aud)
        PROVE  VInv'
    BY <2>2, ChallengeAssumption
    DEF PostChallenge, CallPut, Stages, Phases, PutPhases, ConsumePhases
  <2>3. ASSUME NEW n \in Nonces, NEW s, PostToken(c, n, s) PROVE VInv'
    BY <2>3, ChallengeAssumption
    DEF PostToken, CallConsume, Stages, Phases, PutPhases, ConsumePhases
  <2> QED BY <1>1, <2>1, <2>2, <2>3 DEF Arrive
<1>2. ASSUME NEW c \in Callers, Handle(c) PROVE VInv'
  <2> USE DEF storeVars, Stages, Replies
  <2>1. CASE ChallengeStored(c) \/ ChallengeNotStored(c)
    BY <2>1 DEF ChallengeStored, ChallengeNotStored, PutPhases
  <2>2. CASE TokenRefused(c) \/ TokenConsumed(c)
    BY <2>2 DEF TokenRefused, TokenConsumed
  <2>3. CASE Verify(c)
    BY <2>3 DEF Verify
  <2>4. CASE Issue(c) \/ IssueFails(c)
    BY <2>4 DEF Issue, IssueFails
  <2> QED BY <1>2, <2>1, <2>2, <2>3, <2>4 DEF Handle
<1>3. ASSUME NEW c \in Callers, Backend(c) PROVE VInv'
  BY <1>3 DEF Backend, CodeAt, IsValidSignature, BackendFails, storeVars, Stages, Replies
<1>4. ASSUME NEW c \in Callers, StoreOf(c) PROVE VInv'
  BY <1>4, StoreOfVInv
<1>5. ASSUME NEW a \in Accounts, NEW k \in Keys \cup {NoKey}, SetOwner(a, k)
      PROVE  VInv'
  BY <1>5 DEF SetOwner, storeVars, requestVars
<1>6. CASE Background /\ UNCHANGED <<requestVars, owner, seen>>
  BY <1>6 DEF Background, Evict, Tick, requestVars
<1>7. CASE UNCHANGED signInVars
  BY <1>7 DEF signInVars
<1> QED BY <1>1, <1>2, <1>3, <1>4, <1>5, <1>6, <1>7 DEF SignInNext

\* A challenge is good for one verdict: whatever races, fails or is retried, at
\* most one token request per nonce has its signature judged.
THEOREM OneVerdict == SignInSpec => []OneVerdictPerChallenge
<1>1. VInv /\ OneWinner => OneVerdictPerChallenge
  BY DEF VInv, Progress, OneWinner, OneVerdictPerChallenge
<1>2. SignInSpec => []VInv
  BY InitVInv, VInvStep, PTL DEF SignInSpec
<1>3. SignInSpec => []OneWinner
  BY StoreUse, SingleUse, PTL
<1> QED BY <1>1, <1>2, <1>3, PTL

----------------------------------------------------------------------------
(* What a step does to the calls that are under way                         *)

\* What a Put was given, what a Consume removed and what either has returned stay
\* as they are, and clocks do not go back.
Grows(d) ==
    /\ pc[d] \in PutPhases =>
          pc'[d] \in PutPhases /\ id'[d] = id[d] /\ held'[d] = held[d]
    /\ pc[d] \in {"stored", "got", "notfound"} =>
          pc'[d] = pc[d] /\ id'[d] = id[d] /\ held'[d] = held[d]
    /\ pc[d] \in ConsumePhases =>
          /\ pc'[d] \in ConsumePhases /\ id'[d] = id[d]
          /\ held[d] # NoChallenge => held'[d] = held[d]
    /\ pc'[d] = "notfound" /\ pc[d] # "notfound" =>
          /\ held'[d] = held[d] /\ id'[d] = id[d] /\ UNCHANGED clock
          /\ \/ pc[d] = "consume" /\ live[id[d]] = NoChallenge
             \/ pc[d] = "took" /\ Expired(held[d], Now(d))
    /\ \A r \in Replicas : clock[r] <= clock'[r]

\* No step of the store takes anything back.
LEMMA StoreGrows ==
    ASSUME Typed, [Next]_vars, NEW d \in Callers
    PROVE  Grows(d)
<1> USE StoreAssumption DEF Grows, Typed, TypeOK, Arguments, Phases, PutPhases, ConsumePhases
<1>1. ASSUME NEW c \in Callers, NEW n \in Nonces, NEW ch, CallPut(c, n, ch) \/ CallConsume(c, n)
      PROVE  Grows(d)
  BY <1>1 DEF CallPut, CallConsume
<1>2. ASSUME NEW c \in Callers, StoreStep(c) PROVE Grows(d)
  <2>1. ASSUME NEW f, NEW t, Keep(c, f, t),
               f \in {"put", "putLost"}, t \in {"kept", "refused"}
        PROVE  Grows(d)
    BY <2>1 DEF Keep
  <2>2. ASSUME NEW f, NEW t, Take(c, f, t),
               f \in {"consume", "consumeLost"}, t \in {"took", "failed"}
        PROVE  Grows(d)
    BY <2>2 DEF Take
  <2>3. CASE Ack(c) \/ Refuse(c)
    BY <2>3 DEF Ack, Refuse, Move
  <2>4. CASE Deliver(c) \/ Fail(c)
    BY <2>4 DEF Deliver, Fail, Move
  <2>5. CASE Miss(c)
    BY <2>5 DEF Miss, Move
  <2> QED
    BY <1>2, <2>1, <2>2, <2>3, <2>4, <2>5 DEF StoreStep, Store, LateStore, Remove, LateRemove
<1>3. ASSUME NEW S \in SUBSET Nonces, Evict(S) PROVE Grows(d)
  BY <1>3 DEF Evict
<1>4. ASSUME NEW r \in Replicas, Tick(r) PROVE Grows(d)
  BY <1>4 DEF Tick
<1>5. CASE UNCHANGED vars
  BY <1>5 DEF vars
<1> QED BY <1>1, <1>2, <1>3, <1>4, <1>5 DEF Next, Background

----------------------------------------------------------------------------
(* What a step does to the requests                                         *)

OwnTypes ==
    /\ sig \in [Callers -> Signature \cup {NoSig}]
    /\ token \in [Callers -> Token \cup {NoToken}]
    /\ owner \in [Accounts -> Keys \cup {NoKey}]
    /\ seen \in [Callers -> SUBSET (Accounts \X Keys)]

\* A request whose handler stays where it is keeps all that it has.
Stays(c) ==
    /\ UNCHANGED <<reply[c], sig[c], token[c], id[c]>>
    /\ (pc[c] \in PutPhases) <=> (pc'[c] \in PutPhases)
    /\ (pc[c] \in ConsumePhases) <=> (pc'[c] \in ConsumePhases)
    /\ seen[c] \subseteq seen'[c]
    /\ stage[c] \notin {"new", "done"} /\ Owners \subseteq seen[c] => Owners' \subseteq seen'[c]

\* A step of one request's handler, told apart from all other steps by its stage.
Acts(c) == Arrive(c) \/ Handle(c) \/ Backend(c)

\* Every step is a step of one handler, which moves, and leaves the other handlers
\* and the owners alone; or no handler moves.
LEMMA Steps ==
    ASSUME Shapes, OwnTypes, [SignInNext]_signInVars, NEW c \in Callers
    PROVE  (Acts(c) /\ UNCHANGED owner) \/ (Stays(c) /\ UNCHANGED stage[c])
<1> USE DEF Shapes, OwnTypes, Stays
<1>1. ASSUME NEW b \in Callers, Arrive(b), b # c PROVE Stays(c) /\ UNCHANGED stage[c]
  BY <1>1 DEF Arrive, BadRequest, NonceFails, PostChallenge, PostToken, CallPut, CallConsume,
     Answer, Goto, storeVars, Owners
<1>2. ASSUME NEW b \in Callers, Handle(b), b # c PROVE Stays(c) /\ UNCHANGED stage[c]
  BY <1>2 DEF Handle, ChallengeStored, ChallengeNotStored, TokenRefused, TokenConsumed,
     Verify, Issue, IssueFails, Answer, Goto, storeVars, Owners
<1>3. ASSUME NEW b \in Callers, Backend(b), b # c PROVE Stays(c) /\ UNCHANGED stage[c]
  BY <1>3 DEF Backend, CodeAt, IsValidSignature, BackendFails, Answer, Goto, storeVars, Owners
<1>4. ASSUME Acts(c) PROVE UNCHANGED owner
  BY <1>4 DEF Acts, Arrive, BadRequest, NonceFails, PostChallenge, PostToken,
     Handle, ChallengeStored, ChallengeNotStored, TokenRefused, TokenConsumed,
     Verify, Issue, IssueFails, Backend, CodeAt, IsValidSignature, BackendFails, Answer, Goto
<1>5. ASSUME NEW b \in Callers, StoreOf(b) PROVE Stays(c) /\ UNCHANGED stage[c]
  <2>1. PICK f \in Phases \ {"idle"}, t \in Phases \ {"idle"} :
            /\ pc[b] = f /\ pc' = [pc EXCEPT ![b] = t]
            /\ (f \in PutPhases) <=> (t \in PutPhases)
    BY <1>5 DEF StoreOf, StoreStep, Keep, Store, LateStore, Take, Remove, LateRemove, Move,
       Ack, Refuse, Deliver, Miss, Fail, Phases, PutPhases, ConsumePhases
  <2>2. UNCHANGED <<id, stage, reply, sig, token, owner, seen>>
    BY <1>5 DEF StoreOf, StoreStep, Keep, Store, LateStore, Take, Remove, LateRemove, Move,
       Ack, Refuse, Deliver, Miss, Fail, requestVars
  <2> QED BY <2>1, <2>2 DEF Phases, PutPhases, ConsumePhases, Owners
<1>6. ASSUME NEW a \in Accounts, NEW k \in Keys \cup {NoKey}, SetOwner(a, k)
      PROVE  Stays(c) /\ UNCHANGED stage[c]
  <2>1. UNCHANGED <<stage[c], reply[c], sig[c], token[c], id[c], pc[c]>>
    BY <1>6 DEF SetOwner, storeVars, requestVars
  <2>2. seen[c] \subseteq seen'[c]
    BY <1>6 DEF SetOwner
  <2>3. stage[c] \notin {"new", "done"} => Owners' \subseteq Owners \cup seen'[c]
    BY <1>6, SignInAssumption DEF SetOwner, Owners
  <2> QED BY <2>1, <2>2, <2>3
<1>7. CASE Background /\ UNCHANGED <<requestVars, owner, seen>>
  BY <1>7 DEF Background, Evict, Tick, requestVars, Owners
<1>8. CASE UNCHANGED signInVars
  BY <1>8 DEF signInVars, Owners
<1> HIDE DEF Shapes, OwnTypes, Stays
<1>9. CASE \E b \in Callers : Acts(b)
  BY <1>9, <1>1, <1>2, <1>3, <1>4 DEF Acts
<1>10. CASE SignInNext /\ ~\E b \in Callers : Acts(b)
  BY <1>10, <1>5, <1>6, <1>7 DEF SignInNext, Acts
<1> QED BY <1>8, <1>9, <1>10

----------------------------------------------------------------------------
(* Types of the requests' variables                                         *)

\* A client has been told a challenge that was stored.
Told == \A p \in Callers : reply[p] = "challenge" => pc[p] = "stored"

\* What holds of the store in every behaviour of sign-in, after each step too.
LEMMA StoreKept ==
    ASSUME ClockOK, IInv, [SignInNext]_signInVars
    PROVE  IInv' /\ \A d \in Callers : Grows(d)
<1>1. [Next]_vars
  BY UsesStore
<1>2. Typed
  BY DEF IInv
<1> QED BY <1>1, <1>2, IInvStep, StoreGrows

\* Messages clients were given to sign are messages.
LEMMA DisclosedType == ASSUME Typed, Told PROVE Disclosed \subseteq Message
BY SignInAssumption DEF Disclosed, Typed, Arguments, Told, PutPhases, Challenge, Body

\* Only a challenge that was stored is told, and stays stored.
LEMMA ToldStep ==
    ASSUME ClockOK, IInv, VInv, OwnTypes, Told, [SignInNext]_signInVars
    PROVE  Told'
<1> SUFFICES ASSUME NEW p \in Callers, reply'[p] = "challenge" PROVE pc'[p] = "stored"
  BY DEF Told
<1>1. Grows(p)
  BY StoreKept
<1>2. CASE Stays(p)
  BY <1>1, <1>2 DEF Stays, Told, Grows
<1>3. CASE Acts(p)
  <2>1. reply[p] = "challenge" \/ pc[p] = "stored"
    BY <1>3 DEF VInv, Shapes, Acts, Arrive, BadRequest, NonceFails, PostChallenge, PostToken, Handle,
       ChallengeStored, ChallengeNotStored, TokenRefused, TokenConsumed, Verify, Issue,
       IssueFails, Backend, CodeAt, IsValidSignature, BackendFails, Answer, Goto
  <2> QED BY <2>1, <1>1 DEF Told, Grows
<1> QED BY <1>2, <1>3, Steps DEF VInv

\* Handlers keep their variables in type: a signature is over a message clients
\* were given, a token has the times of a clock.
LEMMA OwnTypesStep ==
    ASSUME ClockOK, IInv, VInv, OwnTypes, Told, [SignInNext]_signInVars
    PROVE  OwnTypes'
<1> USE DEF OwnTypes
<1>1. ASSUME NEW c \in Callers, Arrive(c) PROVE OwnTypes'
  <2>1. CASE BadRequest(c) \/ NonceFails(c)
    BY <2>1 DEF BadRequest, NonceFails, Answer, Goto
  <2>2. ASSUME NEW n \in Nonces, NEW a \in Accounts, NEW aud \in SUBSET Audiences,
               PostChallenge(c, a, n, aud)
        PROVE  OwnTypes'
    BY <2>2 DEF PostChallenge, Goto
  <2>3. ASSUME NEW n \in Nonces, NEW s \in [key : Keys, message : Disclosed] \cup {NoSig},
               PostToken(c, n, s)
        PROVE  OwnTypes'
    <3>1. s \in Signature \cup {NoSig}
      BY DisclosedType DEF IInv, Signature
    <3>2. Owners \subseteq Accounts \X Keys
      BY DEF Owners
    <3> QED BY <2>3, <3>1, <3>2 DEF PostToken, Goto
  <2> QED BY <1>1, <2>1, <2>2, <2>3 DEF Arrive
<1>2. ASSUME NEW c \in Callers, Issue(c) PROVE OwnTypes'
  <2>1. pc[c] = "got" /\ held[c] \in Challenge
    BY <1>2 DEF Issue, Answer, Goto, VInv, Progress, IInv, Typed, Arguments
  <2>2. held[c].body.address \in Accounts /\ held[c].body.audience \in SUBSET Audiences
    BY <2>1, SignInAssumption DEF Challenge, Body
  <2>3. Seconds(Now(c)) \in Int /\ Seconds(Now(c) + TokenTTL) \in Int
    BY SignInAssumption, StoreAssumption DEF Seconds, Now, IInv, Typed, TypeOK
  <2>4. Aud(held[c].body.audience) \in (SUBSET (Audiences \cup DefaultAudience)) \ {{}}
    <3>1. DefaultAudience # {}
      BY SignInAssumption
    <3> QED BY <2>2, <3>1 DEF Aud
  <2>5. [address |-> held[c].body.address, audience |-> Aud(held[c].body.audience),
         issuedAt |-> Seconds(Now(c)), expiresAt |-> Seconds(Now(c) + TokenTTL)] \in Token
    BY <2>2, <2>3, <2>4 DEF Token
  <2> QED BY <1>2, <2>5 DEF Issue, Answer, Goto
<1>3. ASSUME NEW c \in Callers, Handle(c), ~Issue(c) PROVE OwnTypes'
  BY <1>3 DEF Handle, ChallengeStored, ChallengeNotStored, TokenRefused, TokenConsumed,
     Verify, IssueFails, Answer, Goto
<1>4. ASSUME NEW c \in Callers, Backend(c) PROVE OwnTypes'
  BY <1>4 DEF Backend, CodeAt, IsValidSignature, BackendFails, Answer, Goto
<1>5. ASSUME NEW c \in Callers, StoreOf(c) PROVE OwnTypes'
  BY <1>5 DEF StoreOf, requestVars
<1>6. ASSUME NEW a \in Accounts, NEW k \in Keys \cup {NoKey}, SetOwner(a, k)
      PROVE  OwnTypes'
  BY <1>6 DEF SetOwner, requestVars
<1>7. CASE Background /\ UNCHANGED <<requestVars, owner, seen>>
  BY <1>7 DEF requestVars
<1>8. CASE UNCHANGED signInVars
  BY <1>8 DEF signInVars
<1> QED BY <1>1, <1>2, <1>3, <1>4, <1>5, <1>6, <1>7, <1>8 DEF SignInNext

\* What the other invariants of sign-in rest on.
Base == ClockOK /\ IInv /\ VInv /\ OwnTypes /\ Told

LEMMA BaseInvariant == SignInSpec => []Base
<1>1. SignInInit => ClockOK /\ VInv /\ OwnTypes /\ Told
  BY InitVInv, ChallengeAssumption DEF SignInInit, Init, ClockOK, OwnTypes, Told
<1>2. SignInSpec => []IInv
  BY StoreUse, Invariance, PTL
<1>3. IInv /\ ClockOK /\ VInv /\ OwnTypes /\ Told /\ [SignInNext]_signInVars
         => (ClockOK /\ VInv /\ OwnTypes /\ Told)'
  BY ClockStep, VInvStep, OwnTypesStep, ToldStep
<1> QED BY <1>1, <1>2, <1>3, PTL DEF SignInSpec, Base

\* The variables of sign-in keep their types, those of its store included, and the
\* signatures it is sent are over messages it has given out.
THEOREM SignInTypeCorrect == SignInSpec => []SignInTypeOK
<1>1. Base => SignInTypeOK
  BY DEF Base, IInv, Typed, VInv, Shapes, OwnTypes, SignInTypeOK
<1> QED BY <1>1, BaseInvariant, PTL

----------------------------------------------------------------------------
(* Tokens are vouched for                                                   *)

\* What a Put was given to store: its message carries the nonce and the expiry it
\* was stored with, its audience was allowed.
Challenged ==
    \A p \in Callers : pc[p] \in PutPhases =>
        LET b == held[p].body
        IN  /\ b.message.nonce = id[p] /\ AudienceAllowed(b.audience)
            /\ b.message.expirationTime = Seconds(held[p].expiresAt)

\* A signature is over a message of a challenge that was told.
Presented ==
    \A c \in Callers : sig[c] # NoSig =>
        \E p \in Callers : reply[p] = "challenge" /\ held[p].body.message = sig[c].message

\* A token request has seen every owner since it arrived.
Watching ==
    \A c \in Callers :
        stage[c] \notin {"new", "done"} /\ pc[c] \in ConsumePhases => Owners \subseteq seen[c]

\* The signature of c is over the challenge c consumed, by a key of its address.
Verified(c) ==
    LET b == held[c].body
    IN  /\ pc[c] = "got" /\ sig[c] # NoSig /\ sig[c].message = b.message
        /\ \/ sig[c].key = EOAKey[b.address]
           \/ HasBackend /\ <<b.address, sig[c].key>> \in seen[c]

\* A token is issued for a verified signature, as the challenge says.
Vouched ==
    \A c \in Callers :
        /\ stage[c] \in {"codeAt", "isValid"} => HasBackend
        /\ stage[c] = "issue" \/ reply[c] = "token" => Verified(c)
        /\ reply[c] = "token" =>
              /\ token[c].address = held[c].body.address
              /\ token[c].audience = Aud(held[c].body.audience)

\* Two challenges that were put with the same message are one.
LEMMA SameMessage ==
    ASSUME IInv, Challenged, NEW p \in Callers, NEW q \in Callers,
           pc[p] \in PutPhases, pc[q] \in PutPhases,
           held[p].body.message = held[q].body.message
    PROVE  p = q
BY DEF IInv, OnePut, Challenged

\* A Put begins with PostChallenge only.
LEMMA PutBegins ==
    ASSUME Base, [SignInNext]_signInVars, NEW p \in Callers,
           pc[p] \notin PutPhases, pc'[p] \in PutPhases
    PROVE  \E a \in Accounts, n \in Nonces, aud \in SUBSET Audiences : PostChallenge(p, a, n, aud)
<1>1. Acts(p)
  BY Steps DEF Base, VInv, Stays
<1>2. CASE Arrive(p)
  BY <1>2 DEF Base, VInv, Shapes, Arrive, BadRequest, NonceFails, PostToken, CallConsume,
     storeVars, PutPhases, Phases
<1>3. CASE Handle(p) \/ Backend(p)
  <2>1. UNCHANGED pc
    BY <1>3 DEF Handle, ChallengeStored, ChallengeNotStored, TokenRefused, TokenConsumed,
       Verify, Issue, IssueFails, Backend, CodeAt, IsValidSignature, BackendFails, storeVars
  <2> QED BY <2>1
<1> QED BY <1>1, <1>2, <1>3 DEF Acts

\* What is put is what PostChallenge puts.
LEMMA ChallengedStep ==
    ASSUME Base, Challenged, [SignInNext]_signInVars
    PROVE  Challenged'
<1> SUFFICES ASSUME NEW p \in Callers, pc'[p] \in PutPhases
             PROVE  LET b == held'[p].body
                    IN  /\ b.message.nonce = id'[p] /\ AudienceAllowed(b.audience)
                        /\ b.message.expirationTime = Seconds(held'[p].expiresAt)
  BY DEF Challenged
<1>1. Grows(p)
  BY StoreKept DEF Base
<1>2. CASE pc[p] \in PutPhases
  BY <1>1, <1>2 DEF Grows, Challenged
<1>3. CASE pc[p] \notin PutPhases
  <2>2. PICK a \in Accounts, n \in Nonces, aud \in SUBSET Audiences : PostChallenge(p, a, n, aud)
    BY <1>3, PutBegins
  <2>3. /\ id'[p] = n
        /\ held'[p] = [body |-> [message |-> NewMessage(p, a, n), address |-> a, audience |-> aud],
                       expiresAt |-> Now(p) + ChallengeTTL]
        /\ AudienceAllowed(aud)
    BY <2>2 DEF PostChallenge, CallPut, Base, IInv, Typed, TypeOK
  <2> QED BY <2>3 DEF NewMessage
<1> QED BY <1>2, <1>3

\* A challenge that was told stays told.
LEMMA ToldKept ==
    ASSUME Base, [SignInNext]_signInVars, NEW p \in Callers, reply[p] = "challenge"
    PROVE  reply'[p] = "challenge" /\ held'[p] = held[p]
<1>1. pc[p] = "stored" /\ Grows(p)
  BY StoreKept DEF Base, Told
<1>2. stage[p] = "done"
  BY DEF Base, VInv, Progress
<1>3. ~Acts(p)
  BY <1>2 DEF Acts, Arrive, BadRequest, NonceFails, PostChallenge, PostToken, Handle,
     ChallengeStored, ChallengeNotStored, TokenRefused, TokenConsumed, Verify, Issue,
     IssueFails, Backend, CodeAt, IsValidSignature, BackendFails, Answer, Goto
<1> QED BY <1>1, <1>3, Steps DEF Base, VInv, Grows, Stays

\* Clients sign what they were told.
LEMMA PresentedStep ==
    ASSUME Base, Presented, [SignInNext]_signInVars
    PROVE  Presented'
<1> SUFFICES ASSUME NEW c \in Callers, sig'[c] # NoSig
             PROVE  \E p \in Callers : reply'[p] = "challenge"
                                       /\ held'[p].body.message = sig'[c].message
  BY DEF Presented
<1>1. ASSUME NEW p \in Callers, reply[p] = "challenge"
      PROVE  reply'[p] = "challenge" /\ held'[p] = held[p]
  BY <1>1, ToldKept
<1>2. CASE sig'[c] = sig[c]
  BY <1>1, <1>2 DEF Presented
<1>3. CASE sig'[c] # sig[c]
  <2>1. Acts(c)
    BY <1>3, Steps DEF Base, VInv, Stays
  <2>2. PICK n \in Nonces, s \in [key : Keys, message : Disclosed] \cup {NoSig} : PostToken(c, n, s)
    <3>1. Arrive(c)
      BY <2>1, <1>3 DEF Acts, Handle, ChallengeStored, ChallengeNotStored, TokenRefused,
         TokenConsumed, Verify, Issue, IssueFails, Backend, CodeAt, IsValidSignature,
         BackendFails, Answer
    <3> QED BY <3>1, <1>3 DEF Arrive, BadRequest, NonceFails, PostChallenge, Answer
  <2>3. sig'[c] = s
    BY <2>2 DEF PostToken, Base, OwnTypes
  <2>4. PICK p \in Callers : reply[p] = "challenge" /\ held[p].body.message = sig'[c].message
    BY <2>3 DEF Disclosed
  <2> QED BY <2>4, <1>1
<1> QED BY <1>2, <1>3

\* Who owns an account when a request arrives is seen, and whoever comes after.
LEMMA WatchingStep ==
    ASSUME Base, Watching, [SignInNext]_signInVars
    PROVE  Watching'
<1> SUFFICES ASSUME NEW c \in Callers, stage'[c] \notin {"new", "done"}, pc'[c] \in ConsumePhases
             PROVE  Owners' \subseteq seen'[c]
  BY DEF Watching
<1>1. CASE Stays(c) /\ UNCHANGED stage[c]
  BY <1>1 DEF Watching, Stays
<1>2. CASE Acts(c) /\ UNCHANGED owner
  <2>1. Owners' = Owners
    BY <1>2 DEF Owners
  <2>2. CASE Arrive(c)
    BY <2>1, <2>2 DEF Base, VInv, Shapes, OwnTypes, Arrive, BadRequest, NonceFails, PostChallenge,
       PostToken, CallPut, Answer, Goto, PutPhases, ConsumePhases
  <2>3. CASE Handle(c) \/ Backend(c)
    <3>1. stage[c] \notin {"new", "done"} /\ UNCHANGED <<pc, seen>>
      BY <2>3 DEF Handle, ChallengeStored, ChallengeNotStored, TokenRefused, TokenConsumed,
         Verify, Issue, IssueFails, Backend, CodeAt, IsValidSignature, BackendFails, storeVars,
         Answer, Goto
    <3> QED BY <3>1, <2>1 DEF Watching
  <2> QED BY <1>2, <2>2, <2>3 DEF Acts
<1> QED BY <1>1, <1>2, Steps DEF Base, VInv

\* A signature is judged against the challenge that was consumed, by the key of the
\* address or by one that answers for it while the request runs.
LEMMA VouchedStep ==
    ASSUME Base, Watching, Vouched, [SignInNext]_signInVars
    PROVE  Vouched'
<1> SUFFICES ASSUME NEW c \in Callers
             PROVE  /\ stage'[c] \in {"codeAt", "isValid"} => HasBackend
                    /\ stage'[c] = "issue" \/ reply'[c] = "token" => Verified(c)'
                    /\ reply'[c] = "token" =>
                          /\ token'[c].address = held'[c].body.address
                          /\ token'[c].audience = Aud(held'[c].body.audience)
  BY DEF Vouched
<1>1. Grows(c)
  BY StoreKept DEF Base
<1>2. CASE Stays(c) /\ UNCHANGED stage[c]
  <2>1. Verified(c) => Verified(c)'
    BY <1>1, <1>2 DEF Verified, Grows, Stays
  <2>2. reply[c] = "token" => held'[c] = held[c]
    BY <1>1 DEF Vouched, Verified, Grows
  <2> QED BY <1>2, <2>1, <2>2 DEF Vouched, Stays
<1>3. CASE Arrive(c)
  BY <1>3 DEF Base, VInv, Shapes, Progress, Arrive, BadRequest, NonceFails, PostChallenge, PostToken,
     Answer, Goto
<1>4. CASE Handle(c) \/ Backend(c)
  <2> USE DEF Goto, Answer, Base, VInv, Shapes
  <2>1. UNCHANGED <<pc, id, held, sig, seen>>
    BY <1>4 DEF Handle, ChallengeStored, ChallengeNotStored, TokenRefused, TokenConsumed,
       Verify, Issue, IssueFails, Backend, CodeAt, IsValidSignature, BackendFails, storeVars
  <2>2. Verified(c) => Verified(c)'
    BY <2>1 DEF Verified
  <2>3. CASE Verify(c)
    <3>1. pc[c] = "got" /\ reply[c] = "none"
      BY <2>3 DEF Verify, Progress
    <3>2. VerifyEOA(c) => Verified(c)
      BY <3>1 DEF VerifyEOA, SignedBy, Verified
    <3> QED BY <2>2, <2>3, <3>1, <3>2 DEF Verify
  <2>4. CASE CodeAt(c) \/ BackendFails(c)
    BY <2>4 DEF CodeAt, BackendFails, Vouched, Progress
  <2>5. CASE IsValidSignature(c)
    <3> DEFINE a == held[c].body.address
    <3>1. stage[c] = "isValid" /\ pc[c] = "got" /\ reply[c] = "none" /\ HasBackend
      BY <2>5 DEF IsValidSignature, Progress, Vouched
    <3>2. a \in Accounts /\ owner[a] \in Keys
      <4>1. held[c] \in Challenge
        BY <3>1 DEF IInv, Typed, Arguments
      <4> QED BY <2>5, <4>1, SignInAssumption DEF IsValidSignature, Challenge, Body, OwnTypes
    <3>3. <<a, owner[a]>> \in seen[c]
      BY <3>1, <3>2 DEF Watching, Owners, ConsumePhases
    <3>4. SignedBy(c, owner[a]) => Verified(c)
      BY <3>1, <3>3 DEF SignedBy, Verified
    <3> QED BY <2>2, <2>5, <3>1, <3>4 DEF IsValidSignature
  <2>6. CASE Issue(c)
    <3>1. Verified(c) /\ reply'[c] = "token" /\ stage'[c] = "done"
      BY <2>6 DEF Issue, Vouched
    <3>2. token'[c] = [address |-> held[c].body.address, audience |-> Aud(held[c].body.audience),
                       issuedAt |-> Seconds(Now(c)), expiresAt |-> Seconds(Now(c) + TokenTTL)]
      BY <2>6 DEF Issue, OwnTypes
    <3> QED BY <2>1, <2>2, <3>1, <3>2
  <2>7. CASE IssueFails(c)
    BY <2>7 DEF IssueFails
  <2>8. CASE ChallengeStored(c) \/ ChallengeNotStored(c) \/ TokenRefused(c) \/ TokenConsumed(c)
    BY <2>8 DEF ChallengeStored, ChallengeNotStored, TokenRefused, TokenConsumed, Progress
  <2> QED BY <1>4, <2>3, <2>4, <2>5, <2>6, <2>7, <2>8 DEF Handle, Backend
<1> QED BY <1>2, <1>3, <1>4, Steps DEF Base, VInv, Acts

Trusted == Challenged /\ Presented /\ Watching /\ Vouched

LEMMA TrustedInvariant == SignInSpec => [](Base /\ Trusted)
<1>1. SignInInit => Trusted
  BY DEF SignInInit, Init, Trusted, Challenged, Presented, Watching, Vouched, PutPhases, ConsumePhases
<1>2. Base /\ Trusted /\ [SignInNext]_signInVars => Trusted'
  BY ChallengedStep, PresentedStep, WatchingStep, VouchedStep DEF Trusted
<1> QED BY <1>1, <1>2, BaseInvariant, PTL DEF SignInSpec

\* The challenge a signature is over is the one its request names, when it was put.
LEMMA SignedChallenge ==
    ASSUME Base, Trusted, NEW c \in Callers, NEW p \in Callers, sig[c] # NoSig,
           pc[p] \in PutPhases, held[p].body.message = sig[c].message
    PROVE  reply[p] = "challenge" /\ pc[p] = "stored"
<1>1. PICK q \in Callers : reply[q] = "challenge" /\ held[q].body.message = sig[c].message
  BY DEF Trusted, Presented
<1>2. pc[q] = "stored"
  BY <1>1 DEF Base, Told
<1>3. p = q
  BY <1>1, <1>2, SameMessage DEF Base, Trusted, PutPhases
<1> QED BY <1>1, <1>2, <1>3

\* Every token goes back to one challenge that was told, and is for its address and
\* audience and for a signature over its message by a key of the account.
THEOREM EveryTokenVouched == SignInSpec => []TokenIsVouched
<1>1. Base /\ Trusted => TokenIsVouched
  <2> SUFFICES ASSUME Base, Trusted, NEW c \in Callers, reply[c] = "token"
               PROVE  \E p \in Callers :
                        /\ reply[p] = "challenge" /\ id[p] = id[c]
                        /\ token[c].address = held[p].body.address
                        /\ sig[c].message = held[p].body.message
                        /\ \/ sig[c].key = EOAKey[token[c].address]
                           \/ HasBackend /\ <<token[c].address, sig[c].key>> \in seen[c]
                        /\ token[c].audience = IF held[p].body.audience = {}
                                               THEN DefaultAudience ELSE held[p].body.audience
                        /\ token[c].audience \subseteq AllowedAudiences \cup DefaultAudience
    BY DEF TokenIsVouched
  <2>1. Verified(c) /\ token[c].address = held[c].body.address
        /\ token[c].audience = Aud(held[c].body.audience)
    BY DEF Trusted, Vouched
  <2>2. Removed(c, id[c]) /\ id[c] \in Nonces
    BY <2>1, ChallengeAssumption DEF Verified, Base, IInv, Typed, Arguments, Removed, ConsumePhases
  <2>3. PICK p \in Callers : PutOf(p, id[c], held[c])
    BY <2>2 DEF Base, IInv, RemovedWasPut
  <2>4. pc[p] \in PutPhases /\ id[p] = id[c] /\ held[p].body = held[c].body
    BY <2>3 DEF PutOf, PutPhases
  <2>5. reply[p] = "challenge"
    BY <2>1, <2>4, SignedChallenge DEF Verified
  <2>6. held[p].body.audience \subseteq AllowedAudiences
    BY <2>4 DEF Trusted, Challenged, AudienceAllowed
  <2> QED BY <2>1, <2>4, <2>5, <2>6 DEF Verified, Aud
<1> QED BY <1>1, TrustedInvariant, PTL

----------------------------------------------------------------------------
(* The advertised expiry                                                    *)

\* A Consume that missed the challenge its signature is over lost it to another
\* request, or some clock was past the expiry it was stored with.
Missed ==
    \A c, p \in Callers :
        /\ pc[c] = "notfound" /\ sig[c] # NoSig
        /\ pc[p] \in PutPhases /\ id[p] = id[c] /\ held[p].body.message = sig[c].message
        => \/ \E d \in Callers \ {c} : Removed(d, id[c])
           \/ \E r \in Replicas : clock[r] > held[p].expiresAt - Slack

\* A challenge that is not there any more was consumed or has expired.
LEMMA MissedNow ==
    ASSUME Base, Trusted, NEW c \in Callers, NEW p \in Callers, sig[c] # NoSig,
           pc[p] \in PutPhases, id[p] = id[c], held[p].body.message = sig[c].message,
           \/ pc[c] = "consume" /\ live[id[c]] = NoChallenge
           \/ pc[c] = "took" /\ Expired(held[c], Now(c))
    PROVE  \/ \E d \in Callers \ {c} : Removed(d, id[c])
           \/ \E r \in Replicas : clock[r] > held[p].expiresAt - Slack
<1> USE DEF Base, IInv, Typed, TypeOK, Arguments
<1>1. id[c] \in Nonces /\ held[p] \in Challenge
  BY DEF PutPhases
<1>2. CASE pc[c] = "consume" /\ live[id[c]] = NoChallenge
  <2>1. pc[p] = "stored"
    BY SignedChallenge
  <2>2. \/ \E d \in Callers : Removed(d, id[c])
        \/ \E r \in Replicas : ~(clock[r] <= held[p].expiresAt - Slack)
    BY <1>2, <2>1 DEF KeptIsLive
  <2>3. ~Removed(c, id[c])
    BY <1>2 DEF Removed
  <2> QED BY <1>1, <2>2, <2>3, StoreAssumption DEF Challenge
<1>3. CASE pc[c] = "took" /\ Expired(held[c], Now(c))
  <2>1. held[c] \in Challenge /\ Removed(c, id[c])
    BY <1>3, ChallengeAssumption DEF Removed, ConsumePhases
  <2>2. PICK q \in Callers : PutOf(q, id[c], held[c])
    BY <1>1, <2>1 DEF RemovedWasPut
  <2>3. q = p
    BY <2>2 DEF PutOf, OnePut, PutPhases
  <2>4. Now(c) > held[p].expiresAt - Slack
    BY <1>1, <1>3, <2>1, <2>2, <2>3, StoreAssumption DEF PutOf, Expired, Challenge, Now
  <2> QED BY <2>4, StoreAssumption DEF Now
<1> QED BY <1>2, <1>3

LEMMA MissedStep ==
    ASSUME Base, Trusted, Base', Trusted', Missed, [SignInNext]_signInVars
    PROVE  Missed'
<1> SUFFICES ASSUME NEW c \in Callers, NEW p \in Callers,
                    pc'[c] = "notfound", sig'[c] # NoSig,
                    pc'[p] \in PutPhases, id'[p] = id'[c], held'[p].body.message = sig'[c].message
             PROVE  \/ \E d \in Callers \ {c} : Removed(d, id[c])'
                    \/ \E r \in Replicas : clock'[r] > held'[p].expiresAt - Slack
  BY DEF Missed
<1>1. \A d \in Callers : Grows(d)
  BY StoreKept DEF Base
<1>2. sig'[c] = sig[c] /\ id'[c] = id[c] /\ pc[c] \in {"notfound", "consume", "took"}
  <2>1. pc[c] \in {"notfound", "consume", "took"} /\ id'[c] = id[c]
    BY <1>1 DEF Grows
  <2>2. ~Arrive(c)
    BY <2>1 DEF Arrive, BadRequest, NonceFails, PostChallenge, PostToken, CallPut, CallConsume,
       Base, VInv, Progress, Answer, Goto
  <2>3. Handle(c) \/ Backend(c) => UNCHANGED sig
    BY DEF Handle, ChallengeStored, ChallengeNotStored, TokenRefused, TokenConsumed,
       Verify, Issue, IssueFails, Backend, CodeAt, IsValidSignature, BackendFails, Answer
  <2> QED BY <2>1, <2>2, <2>3, Steps DEF Base, VInv, Stays, Acts
\* The challenge was told before c came, so it is not one that is put just now.
<1>3. pc[p] \in PutPhases /\ id'[p] = id[p] /\ held'[p] = held[p]
  <2>1. PICK q \in Callers : reply[q] = "challenge" /\ held[q].body.message = sig[c].message
    BY <1>2 DEF Trusted, Presented
  <2>2. pc[q] \in PutPhases
    BY <2>1 DEF Base, Told, PutPhases
  <2>3. pc'[q] \in PutPhases /\ held'[q] = held[q] /\ id'[q] = id[q]
    BY <1>1, <2>2 DEF Grows
  <2>4. held'[q].body.message.nonce = id'[q] /\ held'[p].body.message.nonce = id'[p]
    BY <2>3 DEF Trusted, Challenged
  <2>5. id'[q] = id'[p]
    BY <1>2, <2>1, <2>3, <2>4
  <2>6. p = q
    BY <2>3, <2>5 DEF Base, IInv, OnePut
  <2> QED BY <2>2, <2>3, <2>6
<1>4. \/ \E d \in Callers \ {c} : Removed(d, id[c])
      \/ \E r \in Replicas : clock[r] > held[p].expiresAt - Slack
  <2>1. CASE pc[c] = "notfound"
    BY <1>2, <1>3, <2>1 DEF Missed
  <2>2. CASE pc[c] # "notfound"
    <3>1. \/ pc[c] = "consume" /\ live[id[c]] = NoChallenge
          \/ pc[c] = "took" /\ Expired(held[c], Now(c))
      BY <1>1, <2>2 DEF Grows
    <3> QED BY <1>2, <1>3, <3>1, MissedNow
  <2> QED BY <2>1, <2>2
<1>5. CASE \E d \in Callers \ {c} : Removed(d, id[c])
  BY <1>1, <1>2, <1>5 DEF Removed, Grows
<1>6. CASE \E r \in Replicas : clock[r] > held[p].expiresAt - Slack
  <2>1. PICK r \in Replicas : clock[r] > held[p].expiresAt - Slack
    BY <1>6
  <2>2. clock[r] \in Int /\ clock'[r] \in Int /\ held[p].expiresAt \in Int /\ Slack \in Int
    BY <1>3, StoreAssumption DEF Base, IInv, Typed, TypeOK, Arguments, Challenge
  <2>3. clock[r] <= clock'[r]
    BY <1>1 DEF Grows
  <2> QED BY <1>3, <2>1, <2>2, <2>3
<1> QED BY <1>4, <1>5, <1>6

\* A client that redeems a challenge before the expiry it was told is sent away
\* only if another request used the challenge up: the whole seconds of the message
\* never promise more than the store keeps.
THEOREM ExpiryHonoured == SignInSpec => []AdvertisedExpiryHolds
<1>1. SignInInit => Missed
  BY DEF SignInInit, Init, Missed
<1>2. Base /\ Trusted /\ Missed => AdvertisedExpiryHolds
  <2> SUFFICES ASSUME Base, Trusted, Missed, NEW c \in Callers, NEW p \in Callers,
                      pc[c] = "notfound", reply[p] = "challenge", id[p] = id[c],
                      sig[c] # NoSig, sig[c].message = held[p].body.message,
                      \A d \in Callers \ {c} : ~Removed(d, id[c])
               PROVE  \E r \in Replicas :
                        clock[r] > held[p].body.message.expirationTime * Second - Slack
    BY DEF AdvertisedExpiryHolds
  <2>1. pc[p] \in PutPhases
    BY DEF Base, Told, PutPhases
  <2>2. PICK r \in Replicas : clock[r] > held[p].expiresAt - Slack
    BY <2>1 DEF Missed
  <2>3. held[p].expiresAt \in Int /\ clock[r] \in Int
    BY <2>1 DEF Base, IInv, Typed, TypeOK, Arguments, Challenge
  <2>4. (held[p].expiresAt \div Second) * Second <= held[p].expiresAt
    BY <2>3, SignInAssumption
  <2>5. held[p].body.message.expirationTime = held[p].expiresAt \div Second
    BY <2>1 DEF Trusted, Challenged, Seconds
  <2>6. held[p].body.message.expirationTime * Second \in Int
    BY <2>3, <2>5, SignInAssumption
  <2> QED BY <2>2, <2>3, <2>4, <2>5, <2>6, StoreAssumption
<1> QED BY <1>1, <1>2, MissedStep, TrustedInvariant, PTL DEF SignInSpec

----------------------------------------------------------------------------
(* Sign-in keeps its promise                                                *)

\* A challenge that is put was made on the clock of its replica, for an address and
\* an audience that was allowed, and its message says so.
Offered ==
    \A p \in Callers : pc[p] \in PutPhases =>
        \E a \in Accounts, aud \in SUBSET AllowedAudiences, t \in 0 .. Now(p) :
            held[p] = [body |-> Promise!Offer(a, id[p], aud, t), expiresAt |-> t + ChallengeTTL]

\* A handler whose call is under way waits for it.
Waiting == \A c \in Callers : pc[c] \in {"put", "kept", "consume", "took"} => stage[c] = "store"

\* The node is asked only about a signature that is not by the account's own key.
NotOwnKey == \A c \in Callers : stage[c] \in {"codeAt", "isValid"} => ~VerifyEOA(c)

\* Nobody hears of code at an address when there is no node to ask.
NoNode == HasBackend \/ \A a \in Accounts : owner[a] = NoKey

Kept == Offered /\ Waiting /\ NotOwnKey /\ NoNode

LEMMA OfferedStep ==
    ASSUME Base, Offered, [SignInNext]_signInVars
    PROVE  Offered'
<1> SUFFICES ASSUME NEW p \in Callers, pc'[p] \in PutPhases
             PROVE  \E a \in Accounts, aud \in SUBSET AllowedAudiences, t \in 0 .. clock'[Home[p]] :
                       held'[p] = [body |-> Promise!Offer(a, id'[p], aud, t), expiresAt |-> t + ChallengeTTL]
  BY DEF Offered, Now
<1>1. Grows(p)
  BY StoreKept DEF Base
<1>2. clock[Home[p]] \in Nat /\ clock'[Home[p]] \in Nat /\ clock[Home[p]] <= clock'[Home[p]]
  BY <1>1, StoreKept, StoreAssumption DEF Base, IInv, Typed, TypeOK, Grows
<1>3. CASE pc[p] \in PutPhases
  <2>1. PICK a \in Accounts, aud \in SUBSET AllowedAudiences, t \in 0 .. Now(p) :
            held[p] = [body |-> Promise!Offer(a, id[p], aud, t), expiresAt |-> t + ChallengeTTL]
    BY <1>3 DEF Offered
  <2>2. t \in 0 .. clock'[Home[p]]
    BY <1>2 DEF Now
  <2> QED BY <1>1, <1>3, <2>1, <2>2 DEF Grows
<1>4. CASE pc[p] \notin PutPhases
  <2>1. PICK a \in Accounts, n \in Nonces, aud \in SUBSET Audiences : PostChallenge(p, a, n, aud)
    BY <1>4, PutBegins
  <2>2. /\ id'[p] = n /\ aud \in SUBSET AllowedAudiences
        /\ held'[p] = [body |-> [message |-> NewMessage(p, a, n), address |-> a, audience |-> aud],
                       expiresAt |-> Now(p) + ChallengeTTL]
    BY <2>1 DEF PostChallenge, CallPut, AudienceAllowed, Base, IInv, Typed, TypeOK
  <2>3. [message |-> NewMessage(p, a, n), address |-> a, audience |-> aud] = Promise!Offer(a, n, aud, Now(p))
    BY DEF NewMessage, Promise!Offer, Seconds, Promise!Seconds
  <2>4. Now(p) \in 0 .. clock'[Home[p]]
    BY <1>2 DEF Now
  <2> QED BY <2>2, <2>3, <2>4
<1> QED BY <1>3, <1>4

LEMMA WaitingStep ==
    ASSUME Base, Waiting, [SignInNext]_signInVars
    PROVE  Waiting'
<1> SUFFICES ASSUME NEW c \in Callers, pc'[c] \in {"put", "kept", "consume", "took"}
             PROVE  stage'[c] = "store"
  BY DEF Waiting
<1>1. CASE Arrive(c)
  BY <1>1 DEF Base, VInv, Shapes, Progress, Arrive, BadRequest, NonceFails, PostChallenge, PostToken,
     Answer, Goto, storeVars
<1>2. CASE Handle(c) \/ Backend(c)
  BY <1>2 DEF Base, VInv, Shapes, Progress, Waiting, Handle, ChallengeStored, ChallengeNotStored,
     TokenRefused, TokenConsumed, Verify, Issue, IssueFails, Backend, CodeAt, IsValidSignature,
     BackendFails, Answer, Goto, storeVars
<1>3. CASE ~Acts(c)
  <2>1. UNCHANGED stage[c] /\ Stays(c)
    BY <1>3, Steps DEF Base, VInv
  <2>2. pc[c] \in {"put", "kept", "consume", "took"}
    <3>1. [Next]_vars /\ ~\E n \in Nonces : CallConsume(c, n) \/ \E ch : CallPut(c, n, ch)
      BY <1>3, <2>1, UsesStore DEF Base, CallConsume, CallPut, Stays, VInv, Shapes, PutPhases, ConsumePhases
    <3> QED BY <3>1 DEF Base, VInv, Shapes, vars, Next, CallPut, CallConsume, StoreStep, Keep, Store,
         LateStore, Take, Remove, LateRemove, Move, Ack, Refuse, Deliver, Miss, Fail, Background,
         Evict, Tick
  <2> QED BY <2>1, <2>2 DEF Waiting
<1> QED BY <1>1, <1>2, <1>3 DEF Acts

LEMMA NotOwnKeyStep ==
    ASSUME Base, NotOwnKey, [SignInNext]_signInVars
    PROVE  NotOwnKey'
<1> SUFFICES ASSUME NEW c \in Callers, stage'[c] \in {"codeAt", "isValid"}
             PROVE  ~VerifyEOA(c)'
  BY DEF NotOwnKey
<1>1. Grows(c)
  BY StoreKept DEF Base
<1>2. CASE Stays(c) /\ UNCHANGED stage[c]
  <2>1. pc[c] = "got" /\ held'[c] = held[c] /\ sig'[c] = sig[c]
    BY <1>1, <1>2 DEF Base, VInv, Progress, Grows, Stays
  <2> QED BY <1>2, <2>1 DEF NotOwnKey, VerifyEOA, SignedBy
<1>3. CASE Arrive(c)
  BY <1>3 DEF Base, VInv, Shapes, Arrive, BadRequest, NonceFails, PostChallenge, PostToken, Answer, Goto
<1>4. CASE Handle(c) \/ Backend(c)
  <2>1. ~VerifyEOA(c) /\ UNCHANGED <<sig, held>>
    BY <1>4 DEF Base, VInv, Shapes, NotOwnKey, Handle, ChallengeStored, ChallengeNotStored, TokenRefused,
       TokenConsumed, Verify, Issue, IssueFails, Backend, CodeAt, IsValidSignature, BackendFails,
       Answer, Goto, storeVars
  <2> QED BY <2>1 DEF VerifyEOA, SignedBy
<1> QED BY <1>2, <1>3, <1>4, Steps DEF Base, VInv, Acts

LEMMA NoNodeStep ==
    ASSUME NoNode, [SignInNext]_signInVars
    PROVE  NoNode'
<1>1. UNCHANGED owner \/ HasBackend
  BY DEF SignInNext, signInVars, Arrive, BadRequest, NonceFails, PostChallenge, PostToken,
     Handle, ChallengeStored, ChallengeNotStored, TokenRefused, TokenConsumed, Verify, Issue,
     IssueFails, Backend, CodeAt, IsValidSignature, BackendFails, StoreOf, SetOwner, Answer, Goto
<1> QED BY <1>1 DEF NoNode

LEMMA KeptInvariant == SignInSpec => [](Base /\ Trusted /\ Kept)
<1>1. SignInInit => Kept
  BY DEF SignInInit, Init, Kept, Offered, Waiting, NotOwnKey, NoNode, PutPhases
<1>2. Base /\ Kept /\ [SignInNext]_signInVars => Kept'
  BY OfferedStep, WaitingStep, NotOwnKeyStep, NoNodeStep DEF Kept
<1> QED BY <1>1, <1>2, TrustedInvariant, PTL DEF SignInSpec

\* The challenge a request has consumed is the one challenge it can be about: it was
\* told if the signature is over it.
LEMMA MineIsHeld ==
    ASSUME Base, Trusted, NEW c \in Callers, pc[c] = "got"
    PROVE  /\ \A b \in Promise!Mine(c) : b = held[c].body
           /\ sig[c] # NoSig /\ sig[c].message = held[c].body.message => held[c].body \in Promise!Mine(c)
<1>1. Removed(c, id[c]) /\ id[c] \in Nonces /\ AskedNonce[c] = id[c]
  BY ChallengeAssumption DEF Base, IInv, Typed, Arguments, Removed, ConsumePhases, AskedNonce
<1>2. PICK p \in Callers : PutOf(p, id[c], held[c])
  BY <1>1 DEF Base, IInv, RemovedWasPut
<1>3. pc[p] \in PutPhases /\ id[p] = id[c] /\ held[p].body = held[c].body
  BY <1>2 DEF PutOf, PutPhases
<1>4. ASSUME NEW b \in Promise!Mine(c) PROVE b = held[c].body
  <2>1. PICK q \in Callers : reply[q] = "challenge" /\ b = held[q].body /\ b.message.nonce = id[c]
    BY <1>1 DEF Promise!Mine, ToldBodies
  <2>2. pc[q] \in PutPhases
    BY <2>1 DEF Base, Told, PutPhases
  <2>3. q = p
    BY <1>3, <2>1, <2>2 DEF Base, IInv, OnePut, Trusted, Challenged
  <2> QED BY <1>3, <2>1, <2>3
<1>5. ASSUME sig[c] # NoSig, sig[c].message = held[c].body.message
      PROVE  held[c].body \in Promise!Mine(c)
  <2>1. reply[p] = "challenge"
    BY <1>3, <1>5, SignedChallenge
  <2>2. held[c].body.message.nonce = id[c]
    BY <1>3 DEF Trusted, Challenged
  <2> QED BY <1>1, <1>3, <2>1, <2>2 DEF Promise!Mine, ToldBodies
<1> QED BY <1>4, <1>5

\* What the verifier looks at is what the account would say.
LEMMA ValidIsSigned ==
    ASSUME Base, Trusted, NEW c \in Callers, pc[c] = "got"
    PROVE  /\ Promise!Valid(c) <=> VerifyEOA(c) \/ SignedBy(c, owner[held[c].body.address])
           /\ (\A b \in Promise!Mine(c) : ~Promise!Signed(c, b, {EOAKey[b.address]})) <=> ~VerifyEOA(c)
BY MineIsHeld DEF Promise!Valid, Promise!Signed, VerifyEOA, SignedBy

\* Whole seconds do not change the order of times.
LEMMA SecondsGrow ==
    ASSUME NEW s \in Int, NEW t \in Int, s <= t
    PROVE  Seconds(s) <= Seconds(t)
<1> DEFINE q == s \div Second  r == t \div Second
<1>1. q \in Int /\ r \in Int /\ Second \in Int /\ Second > 0
  BY SignInAssumption
<1>2. Second * q <= s /\ t < Second * (r + 1)
  BY SignInAssumption
<1>3. ASSUME q >= r + 1 PROVE Second * q >= Second * (r + 1)
  <2>1. PICK d \in Nat : q = r + 1 + d
    BY <1>1, <1>3
  <2>2. Second * d >= 0
    BY <1>1, <2>1
  <2> QED BY <1>1, <2>1, <2>2
<1> QED BY <1>1, <1>2, <1>3 DEF Seconds

\* A challenge that is delivered has not expired by the time its client was told.
LEMMA DeliveredInTime ==
    ASSUME Base, Trusted, NEW c \in Callers, Deliver(c), NEW b \in Promise!Mine(c)
    PROVE  Promise!Seconds(Promise!Now(c)) <= b.message.expirationTime
<1>1. Removed(c, id[c]) /\ id[c] \in Nonces /\ AskedNonce[c] = id[c] /\ held[c] \in Challenge
  BY ChallengeAssumption
  DEF Deliver, Move, Base, IInv, Typed, Arguments, Removed, ConsumePhases, AskedNonce
<1>2. PICK p \in Callers : PutOf(p, id[c], held[c])
  BY <1>1 DEF Base, IInv, RemovedWasPut
<1>3. PICK q \in Callers : reply[q] = "challenge" /\ b = held[q].body /\ b.message.nonce = id[c]
  BY <1>1 DEF Promise!Mine, ToldBodies
<1>4. pc[p] \in PutPhases /\ pc[q] \in PutPhases /\ q = p
  BY <1>2, <1>3 DEF PutOf, PutPhases, Base, Told, IInv, OnePut, Trusted, Challenged
<1>5. b.message.expirationTime = Seconds(held[p].expiresAt) /\ held[p] \in Challenge
  BY <1>3, <1>4 DEF Trusted, Challenged, Base, IInv, Typed, Arguments
<1>6. Now(c) \in Int /\ held[c].expiresAt \in Int /\ held[p].expiresAt \in Int
  BY <1>1, <1>5, StoreAssumption DEF Challenge, Now, Base, IInv, Typed, TypeOK
<1>7. Now(c) <= held[p].expiresAt
  BY <1>2, <1>6, StoreAssumption DEF PutOf, Deliver, Expired
<1> QED BY <1>5, <1>6, <1>7, SecondsGrow DEF Promise!Seconds, Promise!Now, Seconds, Now

\* The challenges that were told change only when a reply does.
LEMMA ToldSame ==
    ASSUME Base, [SignInNext]_signInVars, UNCHANGED reply
    PROVE  ToldBodies' = ToldBodies
BY ToldKept DEF ToldBodies

\* The handler of c goes from one stage to the next and leaves the store alone.
HandlerMoves(c, from, to, r) ==
    /\ Goto(c, from, to) /\ reply' = [reply EXCEPT ![c] = r] /\ UNCHANGED storeVars
    /\ from \in Stages \ {"done"} /\ to \in Stages /\ r \in Replies

\* What such a step does to the promise's variables.
LEMMA Moves ==
    ASSUME Base, NEW c \in Callers, NEW from, NEW to, NEW r, HandlerMoves(c, from, to, r)
    PROVE  /\ Promise!Open(c) /\ AskedNonce' = AskedNonce /\ Spenders' = Spenders
           /\ clock' = clock /\ owner' = owner
           /\ r = "challenge" => ToldBodies' = ToldBodies \cup {held[c].body}
           /\ r # "challenge" => ToldBodies' = ToldBodies
           /\ pc[c] # "got" => Approved' = Approved
           /\ from # "issue" /\ to # "issue" /\ r \notin {"token", "serverError"} =>
                 Approved' = Approved /\ c \notin Approved
           /\ pc[c] = "got" /\ from # "issue" /\ to = "issue" =>
                 Approved' = Approved \cup {c} /\ c \notin Approved
           /\ pc[c] = "got" /\ from = "issue" /\ r \in {"token", "serverError"} =>
                 Approved' = Approved /\ c \in Approved
<1> USE DEF HandlerMoves, Goto, storeVars, Base, VInv, Shapes, Progress
<1>1. reply[c] = "none" /\ stage[c] = from /\ UNCHANGED <<pc, id, held, clock, owner>>
  OBVIOUS
<1>2. /\ \A d \in Callers \ {c} : stage'[d] = stage[d] /\ reply'[d] = reply[d]
      /\ stage'[c] = to /\ reply'[c] = r
  OBVIOUS
<1>3. AskedNonce' = AskedNonce /\ Spenders' = Spenders
  BY <1>1 DEF AskedNonce, Spenders
<1>4. /\ r = "challenge" => ToldBodies' = ToldBodies \cup {held[c].body}
      /\ r # "challenge" => ToldBodies' = ToldBodies
  BY <1>1, <1>2 DEF ToldBodies
<1>5. /\ \A d \in Callers \ {c} : (d \in Approved') <=> (d \in Approved)
      /\ (c \in Approved) <=> (pc[c] = "got" /\ from = "issue")
      /\ (c \in Approved') <=> (pc[c] = "got" /\ (to = "issue" \/ r \in {"token", "serverError"}))
      /\ Approved \subseteq Callers /\ Approved' \subseteq Callers
  BY <1>1, <1>2, <1>3 DEF Approved, Spenders
<1> QED BY <1>1, <1>3, <1>4, <1>5 DEF Promise!Open

\* A handler that goes on, and neither begins nor ends to issue, does nothing that
\* its client or the promise could tell.
LEMMA GoesOn ==
    ASSUME Base, NEW c \in Callers, NEW from, NEW to \in Stages,
           from \notin {"done", "issue"}, to # "issue", Goto(c, from, to),
           UNCHANGED <<storeVars, sig, reply, token, seen>>
    PROVE  UNCHANGED Promise!vars
<1>1. HandlerMoves(c, from, to, "none")
  BY DEF HandlerMoves, Base, VInv, Shapes, Progress, Goto, Replies
<1>2. /\ AskedNonce' = AskedNonce /\ Spenders' = Spenders /\ clock' = clock /\ owner' = owner
      /\ ToldBodies' = ToldBodies /\ Approved' = Approved
  BY <1>1, Moves
<1> QED BY <1>2 DEF Promise!vars

\* A handler that has found the signature good approves what the account accepts.
LEMMA ApprovesAbove ==
    ASSUME Base, Trusted, NEW c \in Callers, NEW from \in {"verify", "isValid"}, Goto(c, from, "issue"),
           VerifyEOA(c) \/ SignedBy(c, owner[held[c].body.address]),
           UNCHANGED <<storeVars, sig, reply, token, seen>>
    PROVE  Promise!Approve(c)
<1>1. HandlerMoves(c, from, "issue", "none") /\ pc[c] = "got"
  BY DEF HandlerMoves, Base, VInv, Shapes, Progress, Goto, Replies, Stages
<1>2. /\ Promise!Open(c) /\ AskedNonce' = AskedNonce /\ Spenders' = Spenders
      /\ clock' = clock /\ owner' = owner /\ ToldBodies' = ToldBodies
      /\ Approved' = Approved \cup {c} /\ c \notin Approved
  BY <1>1, Moves
<1>3. Promise!Valid(c)
  BY <1>1, ValidIsSigned
<1> QED BY <1>1, <1>2, <1>3 DEF Promise!Approve, Spenders

\* A handler that ends without a token and without approval.
LEMMA EndsAbove ==
    ASSUME Base, Trusted, NEW c \in Callers, NEW from \in {"verify", "codeAt", "isValid"},
           NEW r \in {"badSignature", "unavailable"}, Answer(c, from, r),
           UNCHANGED <<storeVars, token>>,
           ~VerifyEOA(c),
           r = "badSignature" => ~SignedBy(c, owner[held[c].body.address]),
           r = "unavailable" => HasBackend
    PROVE  Promise!Reject(c) \/ Promise!Undecided(c)
<1>1. /\ HandlerMoves(c, from, "done", r) /\ pc[c] = "got"
      /\ reply' = [reply EXCEPT ![c] = r] /\ sig' = sig
  BY DEF HandlerMoves, Base, VInv, Shapes, Progress, Goto, Answer, Replies, Stages
<1>2. /\ Promise!Open(c) /\ AskedNonce' = AskedNonce /\ Spenders' = Spenders
      /\ clock' = clock /\ owner' = owner /\ ToldBodies' = ToldBodies /\ Approved' = Approved
      /\ c \notin Approved
  BY <1>1, Moves
<1>3. c \in Spenders /\ UNCHANGED token
  BY <1>1 DEF Spenders
<1>4. CASE r = "badSignature"
  BY <1>1, <1>2, <1>3, <1>4, ValidIsSigned DEF Promise!Reject
<1>5. CASE r = "unavailable"
  BY <1>1, <1>2, <1>3, <1>5, ValidIsSigned DEF Promise!Undecided
<1> QED BY <1>4, <1>5

\* A handler that ends before any signature is judged.
LEMMA RefusesAbove ==
    ASSUME Base, NEW c \in Callers, NEW from \in {"new", "store"}, NEW r \in Replies, Answer(c, from, r),
           UNCHANGED <<storeVars, token>>, pc[c] # "got",
           \/ pc[c] \in ConsumePhases /\ r = "invalidGrant"
           \/ pc[c] \notin ConsumePhases /\ r \in {"badRequest", "serverError", "unavailable"}
    PROVE  Promise!Refuse(c)
<1>1. HandlerMoves(c, from, "done", r) /\ reply' = [reply EXCEPT ![c] = r] /\ sig' = sig
  BY DEF HandlerMoves, Answer, Stages
<1>2. /\ Promise!Open(c) /\ AskedNonce' = AskedNonce /\ Spenders' = Spenders
      /\ clock' = clock /\ owner' = owner /\ ToldBodies' = ToldBodies /\ Approved' = Approved
  BY <1>1, Moves
<1>3. c \notin Spenders /\ UNCHANGED token
  BY DEF Spenders
<1>4. AskedNonce[c] = NoNonce <=> pc[c] \notin ConsumePhases
  BY ChallengeAssumption DEF AskedNonce, Base, IInv, Typed, Arguments, ConsumePhases
<1> QED BY <1>1, <1>2, <1>3, <1>4 DEF Promise!Refuse

\* A stored challenge is told: its nonce is new to all who were told one.
LEMMA TellsAbove ==
    ASSUME Base, Trusted, Kept, NEW c \in Callers, ChallengeStored(c)
    PROVE  Promise!Tell(c)
<1>1. /\ HandlerMoves(c, "store", "done", "challenge") /\ reply' = [reply EXCEPT ![c] = "challenge"]
      /\ pc[c] = "stored" /\ sig' = sig /\ token' = token
  BY DEF ChallengeStored, HandlerMoves, Answer, Stages, Replies
<1>2. /\ Promise!Open(c) /\ AskedNonce' = AskedNonce /\ Spenders' = Spenders
      /\ clock' = clock /\ owner' = owner /\ ToldBodies' = ToldBodies \cup {held[c].body}
      /\ Approved' = Approved
  BY <1>1, Moves
<1>3. reply[c] = "none"
  BY <1>2 DEF Promise!Open
<1>4. AskedNonce[c] = NoNonce /\ pc[c] \in PutPhases /\ id[c] \in Nonces
  BY <1>1 DEF AskedNonce, ConsumePhases, PutPhases, Base, IInv, Typed, Arguments
<1>5. ASSUME NEW b \in ToldBodies PROVE b.message.nonce # id[c]
  <2>1. PICK q \in Callers : reply[q] = "challenge" /\ b = held[q].body
    BY DEF ToldBodies
  <2>2. pc[q] \in PutPhases /\ q # c
    BY <1>3, <2>1 DEF Base, Told, PutPhases
  <2> QED BY <1>4, <2>1, <2>2 DEF Base, IInv, OnePut, Trusted, Challenged
<1>6. PICK a \in Accounts, aud \in SUBSET AllowedAudiences, t \in 0 .. Now(c) :
          held[c] = [body |-> Promise!Offer(a, id[c], aud, t), expiresAt |-> t + ChallengeTTL]
  BY <1>4 DEF Kept, Offered
<1>7. t \in 0 .. Promise!Now(c) /\ held[c].body = Promise!Offer(a, id[c], aud, t)
  BY <1>6 DEF Now, Promise!Now
<1> QED BY <1>1, <1>2, <1>4, <1>5, <1>7 DEF Promise!Tell

\* The issuer grants what was asked for in the challenge that was signed, or fails.
LEMMA GrantsAbove ==
    ASSUME Base, Trusted, NEW c \in Callers, Issue(c) \/ IssueFails(c)
    PROVE  Promise!Grant(c) \/ Promise!NoGrant(c)
<1>1. pc[c] = "got" /\ Verified(c) /\ sig' = sig
  BY DEF Issue, IssueFails, Answer, Goto, Trusted, Vouched, Verified
<1>2. held[c].body \in Promise!Mine(c) /\ sig[c].message = held[c].body.message
  BY <1>1, MineIsHeld DEF Verified
<1>3. CASE Issue(c)
  <2>1. HandlerMoves(c, "issue", "done", "token") /\ reply' = [reply EXCEPT ![c] = "token"]
    BY <1>3 DEF Issue, HandlerMoves, Answer, Stages, Replies
  <2>2. /\ Promise!Open(c) /\ AskedNonce' = AskedNonce /\ Spenders' = Spenders
        /\ clock' = clock /\ owner' = owner /\ ToldBodies' = ToldBodies
        /\ Approved' = Approved /\ c \in Approved
    BY <1>1, <2>1, Moves
  <2>3. token' = [token EXCEPT ![c] =
           [address |-> held[c].body.address,
            audience |-> IF held[c].body.audience = {} THEN DefaultAudience ELSE held[c].body.audience,
            issuedAt |-> Promise!Seconds(Promise!Now(c)),
            expiresAt |-> Promise!Seconds(Promise!Now(c) + TokenTTL)]]
    BY <1>3 DEF Issue, Aud, Seconds, Promise!Seconds, Now, Promise!Now
  <2> QED BY <1>1, <1>2, <2>1, <2>2, <2>3 DEF Promise!Grant
<1>4. CASE IssueFails(c)
  <2>1. /\ HandlerMoves(c, "issue", "done", "serverError") /\ reply' = [reply EXCEPT ![c] = "serverError"]
        /\ token' = token
    BY <1>4 DEF IssueFails, HandlerMoves, Answer, Stages, Replies
  <2>2. /\ Promise!Open(c) /\ AskedNonce' = AskedNonce /\ Spenders' = Spenders
        /\ clock' = clock /\ owner' = owner /\ ToldBodies' = ToldBodies
        /\ Approved' = Approved /\ c \in Approved
    BY <1>1, <2>1, Moves
  <2> QED BY <1>1, <2>1, <2>2 DEF Promise!NoGrant
<1> QED BY <1>3, <1>4

\* Whatever a handler does, it does of the promise, or cannot be noticed doing.
LEMMA HandlerAbove ==
    ASSUME Base, Trusted, Kept, NEW c \in Callers, Handle(c) \/ Backend(c)
    PROVE  \/ Promise!Tell(c) \/ Promise!Refuse(c) \/ Promise!Approve(c) \/ Promise!Reject(c)
           \/ Promise!Undecided(c) \/ Promise!Grant(c) \/ Promise!NoGrant(c)
           \/ UNCHANGED Promise!vars
<1>0. /\ {"store", "verify", "codeAt", "isValid"} \subseteq Stages
      /\ {"badRequest", "serverError", "unavailable", "invalidGrant"} \subseteq Replies
  BY DEF Stages, Replies
<1>1. CASE ChallengeStored(c)
  BY <1>1, TellsAbove
<1>2. CASE ChallengeNotStored(c)
  BY <1>0, <1>2, RefusesAbove DEF ChallengeNotStored, ConsumePhases
<1>3. CASE TokenRefused(c)
  BY <1>0, <1>3, RefusesAbove DEF TokenRefused, ConsumePhases
<1>4. CASE TokenConsumed(c)
  BY <1>0, <1>4, GoesOn DEF TokenConsumed
<1>5. \A a : a = held[c].body.address /\ pc[c] = "got" /\ owner[a] = NoKey => ~SignedBy(c, owner[a])
  BY SignInAssumption DEF SignedBy, Base, OwnTypes, Signature
<1>6. pc[c] = "got" => held[c].body.address \in Accounts
  BY SignInAssumption DEF Base, IInv, Typed, Arguments, Challenge, Body
<1>7. CASE Verify(c)
  <2>1. pc[c] = "got"
    BY <1>7 DEF Verify, Answer, Goto, Base, VInv, Progress
  <2>2. ~HasBackend => ~SignedBy(c, owner[held[c].body.address])
    BY <1>5, <1>6, <2>1 DEF Kept, NoNode
  <2> QED BY <1>0, <1>7, <2>2, GoesOn, ApprovesAbove, EndsAbove DEF Verify
<1>8. CASE CodeAt(c) \/ IsValidSignature(c) \/ BackendFails(c)
  <2>1. stage[c] \in {"codeAt", "isValid"} /\ pc[c] = "got" /\ ~VerifyEOA(c) /\ HasBackend
    BY <1>8 DEF CodeAt, IsValidSignature, BackendFails, Answer, Goto, Base, VInv, Progress, Kept,
       NotOwnKey, Trusted, Vouched
  <2>2. CASE CodeAt(c)
    BY <1>0, <1>5, <2>1, <2>2, GoesOn, EndsAbove DEF CodeAt
  <2>3. CASE IsValidSignature(c)
    BY <2>1, <2>3, ApprovesAbove, EndsAbove DEF IsValidSignature
  <2>4. CASE BackendFails(c)
    BY <2>1, <2>4, EndsAbove DEF BackendFails
  <2> QED BY <1>8, <2>2, <2>3, <2>4
<1>9. CASE Issue(c) \/ IssueFails(c)
  BY <1>9, GrantsAbove
<1> QED BY <1>1, <1>2, <1>3, <1>4, <1>7, <1>8, <1>9 DEF Handle, Backend

\* A request arrives: it is turned away, becomes a call on the store that no client
\* can see, or presents a signature.
LEMMA ArrivesAbove ==
    ASSUME Base, NEW c \in Callers, Arrive(c), SignInNext
    PROVE  Promise!Refuse(c) \/ Promise!Present(c) \/ UNCHANGED Promise!vars
<1>1. CASE BadRequest(c) \/ NonceFails(c)
  <2>1. pc[c] = "idle" /\ {"badRequest", "serverError"} \subseteq Replies
    BY <1>1 DEF BadRequest, NonceFails, Answer, Goto, Base, VInv, Progress, Replies
  <2> QED BY <1>1, <2>1, RefusesAbove DEF BadRequest, NonceFails, ConsumePhases
<1>2. ASSUME NEW n \in Nonces, NEW a \in Accounts, NEW aud \in SUBSET Audiences,
             PostChallenge(c, a, n, aud)
      PROVE  UNCHANGED Promise!vars
  <2>1. /\ pc[c] = "idle" /\ pc'[c] = "put" /\ stage'[c] = "store" /\ reply' = reply
        /\ \A d \in Callers \ {c} : pc'[d] = pc[d] /\ id'[d] = id[d] /\ stage'[d] = stage[d]
    BY <1>2 DEF PostChallenge, CallPut, Goto, Base, VInv, Shapes
  <2>2. AskedNonce' = AskedNonce
    BY <2>1 DEF AskedNonce, ConsumePhases
  <2>3. Spenders' = Spenders /\ Approved' = Approved
    BY <2>1 DEF Spenders, Approved
  <2>4. ToldBodies' = ToldBodies
    BY <2>1, ToldSame
  <2> QED BY <1>2, <2>2, <2>3, <2>4 DEF PostChallenge, CallPut, Goto, Promise!vars
<1>3. ASSUME NEW n \in Nonces, NEW s \in [key : Keys, message : Disclosed] \cup {NoSig},
             PostToken(c, n, s)
      PROVE  Promise!Present(c)
  <2>1. /\ pc[c] = "idle" /\ pc'[c] = "consume" /\ id'[c] = n /\ stage'[c] = "store" /\ reply' = reply
        /\ stage[c] = "new" /\ reply[c] = "none"
        /\ \A d \in Callers \ {c} : pc'[d] = pc[d] /\ id'[d] = id[d] /\ stage'[d] = stage[d]
    BY <1>3 DEF PostToken, CallConsume, Goto, Base, VInv, Shapes, Progress
  <2>2. AskedNonce' = [AskedNonce EXCEPT ![c] = n] /\ AskedNonce[c] = NoNonce
    BY <2>1 DEF AskedNonce, ConsumePhases
  <2>3. Spenders' = Spenders /\ Approved' = Approved
    BY <2>1 DEF Spenders, Approved
  <2>4. ToldBodies' = ToldBodies
    BY <2>1, ToldSame
  <2>5. s \in [key : Keys, message : {b.message : b \in ToldBodies}] \cup {NoSig}
    BY DEF Disclosed, ToldBodies
  <2> QED BY <1>3, <2>1, <2>2, <2>3, <2>4, <2>5
      DEF PostToken, CallConsume, Goto, Promise!Present, Promise!Open
<1> QED BY <1>1, <1>2, <1>3 DEF Arrive

\* The store works on a call: nothing is noticed but that a challenge is spent.
LEMMA StoreAbove ==
    ASSUME Base, Trusted, Kept, NEW c \in Callers, StoreOf(c), SignInNext
    PROVE  Promise!Spend(c) \/ UNCHANGED Promise!vars
<1>1. UNCHANGED <<id, stage, reply, sig, token, owner, clock>>
  BY DEF StoreOf, StoreStep, Keep, Store, LateStore, Take, Remove, LateRemove, Move,
     Ack, Refuse, Deliver, Miss, Fail, requestVars
<1>2. ToldBodies' = ToldBodies
  BY <1>1, ToldSame
<1>3. PICK f \in Phases \ {"idle", "got"}, t \in Phases \ {"idle"} :
          /\ pc[c] = f /\ pc' = [pc EXCEPT ![c] = t]
          /\ (f \in ConsumePhases) <=> (t \in ConsumePhases)
          /\ t = "got" => Deliver(c)
  BY DEF StoreOf, StoreStep, Keep, Store, LateStore, Take, Remove, LateRemove, Move,
     Ack, Refuse, Deliver, Miss, Fail, Phases, PutPhases, ConsumePhases
<1>4. pc'[c] = t /\ \A d \in Callers \ {c} : pc'[d] = pc[d]
  BY <1>3 DEF Base, VInv, Shapes
<1>5. AskedNonce' = AskedNonce
  BY <1>1, <1>3, <1>4 DEF AskedNonce
<1>6. CASE t # "got"
  <2>1. Spenders' = Spenders
    BY <1>3, <1>4, <1>6 DEF Spenders
  <2>2. Approved' = Approved
    BY <1>1, <2>1 DEF Approved
  <2> QED BY <1>1, <1>2, <1>5, <2>1, <2>2 DEF Promise!vars
<1>7. CASE t = "got"
  <2>1. Deliver(c) /\ pc[c] = "took" /\ stage[c] = "store" /\ reply[c] = "none"
    BY <1>3, <1>7 DEF Deliver, Move, Kept, Waiting, Base, VInv, Progress
  <2>2. Spenders' = Spenders \cup {c} /\ c \notin Spenders
    BY <1>3, <1>4, <1>7 DEF Spenders
  <2>3. Approved' = Approved
    BY <1>1, <1>3, <1>4, <2>1 DEF Approved, Spenders
  <2>4. AskedNonce[c] = id[c] /\ id[c] \in Nonces /\ AskedNonce[c] # NoNonce
    BY <2>1, ChallengeAssumption DEF AskedNonce, ConsumePhases, Base, IInv, Typed, Arguments
  <2>5. ASSUME NEW d \in Spenders PROVE AskedNonce[d] # AskedNonce[c]
    <3>1. d # c /\ d \in Callers /\ pc[d] = "got" /\ AskedNonce[d] = id[d]
      BY <2>2 DEF Spenders, AskedNonce, ConsumePhases
    <3>2. held[d] # NoChallenge /\ held[c] # NoChallenge
      BY <2>1, <3>1, ChallengeAssumption DEF Base, IInv, Typed, Arguments
    <3>3. Removed(d, id[d]) /\ Removed(c, id[c])
      BY <2>1, <3>1, <3>2 DEF Removed, ConsumePhases
    <3> QED BY <2>4, <3>1, <3>3 DEF Base, IInv, OneRemoval
  <2>6. \A b \in ToldBodies : b.message.nonce = AskedNonce[c] =>
            Promise!Seconds(Promise!Now(c)) <= b.message.expirationTime
    BY <2>1, DeliveredInTime DEF Promise!Mine
  <2> QED BY <1>1, <1>2, <1>5, <2>1, <2>2, <2>3, <2>4, <2>5, <2>6 DEF Promise!Spend, Promise!Open
<1> QED BY <1>6, <1>7

\* ImplementsSignIn, for any number of requests, accounts, nodes' answers and replicas:
\* handlers, verifier, issuer and store together behave like one that spends a
\* challenge once and in time, asks the account at one moment and answers once.
THEOREM SignInRefinement == SignInSpec => ImplementsSignIn
<1>1. SignInInit => Promise!Init
  BY DEF SignInInit, Init, Promise!Init, ToldBodies, AskedNonce, Spenders, Approved, ConsumePhases
<1>2. ASSUME Base, Trusted, Kept, SignInNext, NEW a \in Accounts, NEW k \in Keys \cup {NoKey}, SetOwner(a, k)
      PROVE  Promise!SetOwner
  BY <1>2 DEF SetOwner, storeVars, requestVars, Promise!SetOwner, ToldBodies, AskedNonce, Spenders, Approved
<1>3. ASSUME NEW r \in Replicas, Tick(r), UNCHANGED <<requestVars, owner, seen>> PROVE Promise!Tick
  BY <1>3 DEF Tick, requestVars, Promise!Tick, ToldBodies, AskedNonce, Spenders, Approved
<1>4. ASSUME NEW S \in SUBSET Nonces, Evict(S), UNCHANGED <<requestVars, owner, seen>>
      PROVE  UNCHANGED Promise!vars
  BY <1>4 DEF Evict, requestVars, Promise!vars, ToldBodies, AskedNonce, Spenders, Approved
<1>5. ASSUME UNCHANGED signInVars PROVE UNCHANGED Promise!vars
  BY <1>5 DEF signInVars, Promise!vars, ToldBodies, AskedNonce, Spenders, Approved
<1>6. Base /\ Trusted /\ Kept /\ [SignInNext]_signInVars => [Promise!Next]_(Promise!vars)
  BY <1>2, <1>3, <1>4, <1>5, ArrivesAbove, HandlerAbove, StoreAbove
  DEF SignInNext, Background, Promise!Next
<1> QED BY <1>1, <1>6, KeptInvariant, PTL DEF SignInSpec, ImplementsSignIn, Promise!Spec

----------------------------------------------------------------------------
(* What follows                                                             *)

\* No answer is taken back and no token replaced: what a client was told once is
\* what every later state says it was told (writeJSON and writeError end a handler).
AnswersAreFinal ==
    \A c \in Callers : reply[c] # "none" => reply'[c] = reply[c] /\ token'[c] = token[c]

\* AnswersAreFinal, for every step of every instance.
THEOREM FinalAnswers == SignInSpec => [][AnswersAreFinal]_signInVars
<1>1. ASSUME Base, [SignInNext]_signInVars, NEW c \in Callers, reply[c] # "none"
      PROVE  reply'[c] = reply[c] /\ token'[c] = token[c]
  <2>1. stage[c] = "done"
    BY <1>1 DEF Base, VInv, Progress
  <2>2. ~Acts(c)
    BY <2>1 DEF Acts, Arrive, BadRequest, NonceFails, PostChallenge, PostToken, Handle,
       ChallengeStored, ChallengeNotStored, TokenRefused, TokenConsumed, Verify, Issue,
       IssueFails, Backend, CodeAt, IsValidSignature, BackendFails, Answer, Goto
  <2> QED BY <1>1, <2>2, Steps DEF Base, VInv, Stays
<1>2. Base /\ [SignInNext]_signInVars => [AnswersAreFinal]_signInVars
  BY <1>1 DEF AnswersAreFinal
<1> QED BY <1>2, BaseInvariant, PTL DEF SignInSpec

\* The clocks of the replicas are no more than skew apart.
ClocksWithin(skew) == \A r, s \in Replicas : clock[r] - clock[s] <= skew

\* Nobody has a token, or is about to get one.
NobodySignsIn == \A c \in Callers : pc[c] # "got" /\ reply[c] # "token"

\* A lifetime below zero, which config.Load accepts, fails closed: as long as no two
\* clocks are further apart than it is below zero (one replica: not at all),
\* challenges are stored and told, and none of them ever yields a token.
THEOREM BornExpired ==
    ASSUME NEW skew \in Nat, ChallengeTTL + skew < 0
    PROVE  SignInSpec /\ []ClocksWithin(skew) => []NobodySignsIn
<1>1. SignInInit => NobodySignsIn
  BY DEF SignInInit, Init, NobodySignsIn
<1>2. ASSUME Base, Trusted, Kept, ClocksWithin(skew), NobodySignsIn, [SignInNext]_signInVars
      PROVE  NobodySignsIn'
  <2>1. ASSUME NEW c \in Callers PROVE ~Deliver(c)
    <3>1. SUFFICES ASSUME Deliver(c) PROVE FALSE
      OBVIOUS
    <3>2. Removed(c, id[c]) /\ id[c] \in Nonces /\ held[c] \in Challenge
      BY <1>2, <3>1, ChallengeAssumption DEF Deliver, Move, Base, IInv, Typed, Arguments, Removed, ConsumePhases
    <3>3. PICK p \in Callers : PutOf(p, id[c], held[c])
      BY <1>2, <3>2 DEF Base, IInv, RemovedWasPut
    <3>4. PICK a \in Accounts, aud \in SUBSET AllowedAudiences, t \in 0 .. Now(p) :
              held[p] = [body |-> Promise!Offer(a, id[p], aud, t), expiresAt |-> t + ChallengeTTL]
      BY <1>2, <3>3 DEF PutOf, PutPhases, Kept, Offered
    <3>5. held[p].expiresAt = t + ChallengeTTL
      BY <3>4
    <3>6. Now(c) \in Int /\ Now(p) \in Int /\ held[c].expiresAt \in Int /\ Now(p) - Now(c) <= skew
      BY <1>2, <3>2, StoreAssumption DEF Now, Base, IInv, Typed, TypeOK, Challenge, ClocksWithin
    <3>7. Now(c) <= t + ChallengeTTL
      BY <3>1, <3>3, <3>4, <3>5, <3>6, StoreAssumption, ChallengeAssumption DEF PutOf, Deliver, Expired
    <3> QED BY <3>4, <3>6, <3>7, ChallengeAssumption
  <2>2. ASSUME NEW c \in Callers PROVE pc'[c] # "got"
    BY <1>2, <2>1, UsesStore DEF NobodySignsIn, Base, VInv, Shapes, vars, Next, CallPut, CallConsume, StoreStep,
       Keep, Store, LateStore, Take, Remove, LateRemove, Move, Ack, Refuse, Miss, Fail, Background, Evict, Tick
  <2>3. ASSUME NEW c \in Callers PROVE reply'[c] # "token"
    <3>1. stage[c] # "issue"
      BY <1>2 DEF NobodySignsIn, Base, VInv, Progress
    <3> QED BY <1>2, <3>1, Steps DEF NobodySignsIn, Base, VInv, Shapes, Stays, Acts, Arrive, BadRequest, NonceFails,
         PostChallenge, PostToken, Handle, ChallengeStored, ChallengeNotStored, TokenRefused, TokenConsumed,
         Verify, Issue, IssueFails, Backend, CodeAt, IsValidSignature, BackendFails, Answer, Goto
  <2> QED BY <2>2, <2>3 DEF NobodySignsIn
<1>3. Base /\ Trusted /\ Kept /\ ClocksWithin(skew) /\ NobodySignsIn /\ [SignInNext]_signInVars => NobodySignsIn'
  BY <1>2
<1> QED BY <1>1, <1>3, KeptInvariant, PTL DEF SignInSpec

=============================================================================
