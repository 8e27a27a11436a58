----------------------------- MODULE NonceStore -----------------------------
(***************************************************************************)
(* What nonce.Store promises to the sign-in handlers, whichever store is    *)
(* behind it: Put records a challenge under a fresh nonce, Consume removes  *)
(* and returns it.  A caller sees only the outcome of its call; in between   *)
(* the store may keep the challenge, hand it out, drop it once expired, and *)
(* - when it is a database - lose the answer to a statement or run the      *)
(* statement after the caller has already been told that it failed.         *)
(*                                                                          *)
(* MemoryStore and PostgresStore implement this specification; SignIn uses  *)
(* it.                                                                       *)
(***************************************************************************)
EXTENDS ChallengeDefs

CONSTANTS
    Replicas,   \* the processes that share the store
    Home,       \* the replica each call is made on
    Slack       \* how much earlier than asked a challenge may expire

ASSUME StoreAssumption ==
    /\ Home \in [Callers -> Replicas]
    /\ Slack \in Nat

VARIABLES
    clock,  \* wall clock of each replica
    live,   \* the challenge kept under each nonce, or NoChallenge
    pc,     \* phase of each call
    id,     \* nonce argument of each call
    held    \* Put: the argument.  Consume: what the call removed; after the call
            \* has returned this is history, for the properties only

vars == <<clock, live, pc, id, held>>

----------------------------------------------------------------------------
(* Phases of a call.  "putLost" and "consumeLost" have returned an error to *)
(* the caller while their statement may still reach the database.           *)

PutPhases == {"put", "putLost", "kept", "stored", "refused"}
ConsumePhases == {"consume", "consumeLost", "took", "got", "notfound", "failed"}
Phases == {"idle"} \cup PutPhases \cup ConsumePhases

\* The challenge under n was handed to call c, which may have lost it again.
Removed(c, n) == pc[c] \in ConsumePhases /\ id[c] = n /\ held[c] # NoChallenge

Now(c) == clock[Home[c]]

TypeOK ==
    /\ clock \in [Replicas -> Nat]
    /\ live \in [Nonces -> MaybeChallenge]
    /\ pc \in [Callers -> Phases]
    /\ id \in [Callers -> Nonces \cup {NoNonce}]
    /\ held \in [Callers -> MaybeChallenge]

Init ==
    /\ clock = [r \in Replicas |-> 0]
    /\ live = [n \in Nonces |-> NoChallenge]
    /\ pc = [c \in Callers |-> "idle"]
    /\ id = [c \in Callers |-> NoNonce]
    /\ held = [c \in Callers |-> NoChallenge]

----------------------------------------------------------------------------
(* The calls                                                                *)

\* nonce.New: 32 random bytes, never returned twice.
Fresh(n) == \A c \in Callers : ~(pc[c] \in PutPhases /\ id[c] = n)

CallPut(c, n, ch) ==
    /\ pc[c] = "idle" /\ Fresh(n)
    /\ pc' = [pc EXCEPT ![c] = "put"]
    /\ id' = [id EXCEPT ![c] = n]
    /\ held' = [held EXCEPT ![c] = ch]
    /\ UNCHANGED <<clock, live>>

\* A client may send any nonce, one that was never issued too.
CallConsume(c, n) ==
    /\ pc[c] = "idle"
    /\ pc' = [pc EXCEPT ![c] = "consume"]
    /\ id' = [id EXCEPT ![c] = n]
    /\ UNCHANGED <<clock, live, held>>

----------------------------------------------------------------------------
(* Put                                                                      *)

\* Mutant: the expiry is rounded up.
MKeep(c, from, to) ==
    /\ pc[c] = from
    /\ \E e \in held[c].expiresAt .. (held[c].expiresAt + Slack) :
          live' = [live EXCEPT ![id[c]] = [body |-> held[c].body, expiresAt |-> e]]
    /\ pc' = [pc EXCEPT ![c] = to]
    /\ UNCHANGED <<clock, id, held>>
\* The challenge is recorded; a database may round its expiry down.
Keep(c, from, to) ==
    /\ pc[c] = from
    /\ \E e \in (held[c].expiresAt - Slack) .. held[c].expiresAt :
          live' = [live EXCEPT ![id[c]] = [body |-> held[c].body, expiresAt |-> e]]
    /\ pc' = [pc EXCEPT ![c] = to]
    /\ UNCHANGED <<clock, id, held>>

Store(c) == Keep(c, "put", "kept")
LateStore(c) == Keep(c, "putLost", "refused")

----------------------------------------------------------------------------
(* Consume                                                                  *)

\* Mutant: the entry is read and not removed.
MTake(c, from, to) ==
    /\ pc[c] = from /\ live[id[c]] # NoChallenge
    /\ held' = [held EXCEPT ![c] = live[id[c]]]
    /\ pc' = [pc EXCEPT ![c] = to]
    /\ UNCHANGED <<clock, id, live>>

\* Look-up and removal are one step.
Take(c, from, to) ==
    /\ pc[c] = from /\ live[id[c]] # NoChallenge
    /\ live' = [live EXCEPT ![id[c]] = NoChallenge]
    /\ held' = [held EXCEPT ![c] = live[id[c]]]
    /\ pc' = [pc EXCEPT ![c] = to]
    /\ UNCHANGED <<clock, id>>

Remove(c) == Take(c, "consume", "took")
LateRemove(c) == Take(c, "consumeLost", "failed")

----------------------------------------------------------------------------
(* Steps of a call that leave the table alone                               *)

Move(c, from, to) ==
    /\ pc[c] = from
    /\ pc' = [pc EXCEPT ![c] = to]
    /\ UNCHANGED <<clock, live, id, held>>

Ack(c) == Move(c, "kept", "stored")

\* Put fails: before it had an effect, with its effect lost to the caller, or
\* with its statement still under way.
Refuse(c) ==
    \/ Move(c, "put", "refused")
    \/ Move(c, "kept", "refused")
    \/ Move(c, "put", "putLost")
    \/ Move(c, "putLost", "refused")

Deliver(c) == Move(c, "took", "got") /\ ~Expired(held[c], Now(c))

\* ErrNotFound: nothing under the nonce, or a challenge removed too late.
Miss(c) ==
    \/ Move(c, "consume", "notfound") /\ live[id[c]] = NoChallenge
    \/ Move(c, "took", "notfound") /\ Expired(held[c], Now(c))

\* Consume fails with any other error, like Refuse.
Fail(c) ==
    \/ Move(c, "consume", "failed")
    \/ Move(c, "took", "failed")
    \/ Move(c, "consume", "consumeLost")
    \/ Move(c, "consumeLost", "failed")

----------------------------------------------------------------------------
(* The background                                                           *)

\* Mutant: a sweep drops challenges one tick early.
MEvict(S) == \E r \in Replicas :
    /\ \A n \in S : live[n] # NoChallenge /\ clock[r] + 1 > live[n].expiresAt
    /\ live' = Sweep(live, S)
    /\ UNCHANGED <<clock, pc, id, held>>

\* Sweeps drop challenges that have expired on the clock of the sweeper.
Evict(S) == \E r \in Replicas :
    /\ \A n \in S : live[n] # NoChallenge /\ Expired(live[n], clock[r])
    /\ live' = Sweep(live, S)
    /\ UNCHANGED <<clock, pc, id, held>>

Tick(r) ==
    /\ clock[r] < MaxTime
    /\ clock' = [clock EXCEPT ![r] = @ + 1]
    /\ UNCHANGED <<live, pc, id, held>>

\* A step of the store itself on behalf of call c.
StoreStep(c) ==
    \/ Store(c) \/ LateStore(c) \/ Ack(c) \/ Refuse(c)
    \/ Remove(c) \/ LateRemove(c) \/ Deliver(c) \/ Miss(c) \/ Fail(c)

Background ==
    \/ \E S \in SUBSET Nonces : Evict(S)
    \/ \E r \in Replicas : Tick(r)

\* handlers.go builds the challenge: it expires ChallengeTTL after the caller's now.
NewChallenge(c, b) == [body |-> b, expiresAt |-> Now(c) + ChallengeTTL]

Next ==
    \/ \E c \in Callers, n \in Nonces :
          \/ \E b \in Bodies : CallPut(c, n, NewChallenge(c, b))
          \/ CallConsume(c, n)
    \/ \E c \in Callers : StoreStep(c)
    \/ Background

Spec == Init /\ [][Next]_vars

----------------------------------------------------------------------------
(* What the promise amounts to                                              *)

\* Single use (nonce.go:40-43, "a second call for the same nonce returns
\* ErrNotFound"): however calls race and whatever answers are lost, at most one
\* Consume ever returns the challenge recorded under a nonce.
OneWinner ==
    \A c, d \in Callers :
        pc[c] = "got" /\ pc[d] = "got" /\ id[c] = id[d] => c = d

\* A Consume only returns what some Put was given for that very nonce: the same
\* message, address and audience, and an expiry no later than asked.
DeliversWhatWasPut ==
    \A c \in Callers : pc[c] = "got" =>
        \E p \in Callers :
            /\ pc[p] \in PutPhases /\ id[p] = id[c]
            /\ held[p].body = held[c].body
            /\ held[c].expiresAt \in (held[p].expiresAt - Slack) .. held[p].expiresAt

\* A challenge whose Put reported success is not lost: as long as no call removed
\* it and no replica's clock is past its expiry, Consume would find it.
AckedIsLive ==
    \A p \in Callers :
        /\ pc[p] = "stored"
        /\ \A c \in Callers : ~Removed(c, id[p])
        /\ \A r \in Replicas : clock[r] <= held[p].expiresAt - Slack
        => live[id[p]] # NoChallenge

=============================================================================
