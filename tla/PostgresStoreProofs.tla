------------------------- MODULE PostgresStoreProofs -------------------------
(***************************************************************************)
(* nonce.Postgres keeps the promise of nonce.Store for any number of        *)
(* replicas and calls, whatever fails.                                       *)
(***************************************************************************)
EXTENDS PostgresStore, TLAPS

\* The arguments and results each phase has.
Arguments ==
    \A c \in Callers :
        /\ pc[c] # "idle" => id[c] \in Nonces
        /\ pc[c] \in PutPhases \cup {"took", "got"} => held[c] \in Challenge
        /\ pc[c] \in {"idle", "consume", "consumeSent", "consumeLost"} => held[c] = NoChallenge

\* A sweep asks for rows that had expired before it was sent.
CutoffPast == \A r \in Replicas : cutoff[r] <= clock[r]

IInv == TypeOK /\ Arguments /\ CutoffPast

----------------------------------------------------------------------------

\* Microsecond precision loses less than a microsecond.
LEMMA TruncateBounds ==
    ASSUME NEW t \in Int
    PROVE  Truncate(t) \in Int /\ Truncate(t) \in (t - (Precision - 1)) .. t
<1>1. t % Precision \in 0 .. (Precision - 1)
  BY PostgresAssumption
<1> QED BY <1>1, PostgresAssumption DEF Truncate

\* A time of the process stays a time when it is stored.
LEMMA TruncateNat == ASSUME NEW t \in Nat PROVE Truncate(t) \in Nat
<1>1. t % Precision <= t /\ t % Precision \in Nat
  BY PostgresAssumption
<1> QED BY <1>1 DEF Truncate

\* An empty table satisfies the inductive invariant.
LEMMA InitIInv == Init => IInv
<1> SUFFICES ASSUME Init PROVE IInv
  OBVIOUS
<1>1. TypeOK
  BY DEF Init, TypeOK, Phases, InFlight, MaybeChallenge
<1>2. Arguments /\ CutoffPast
  BY DEF Init, Arguments, PutPhases, CutoffPast, NoSweep
<1> QED BY <1>1, <1>2 DEF IInv

\* What the database keeps is whole.
LEMMA TruncateWhole == ASSUME NEW t \in Int PROVE Truncate(t) % Precision = 0
<1>1. Precision \in Nat \ {0}
  BY PostgresAssumption
<1> QED BY <1>1 DEF Truncate

\* Every step keeps the invariant.
LEMMA IInvStep == IInv /\ [Next]_vars => IInv'
<1> SUFFICES ASSUME IInv, [Next]_vars PROVE IInv'
  OBVIOUS
<1> USE ChallengeAssumption, PostgresAssumption
      DEF IInv, TypeOK, Arguments, CutoffPast, Phases, InFlight, PutPhases, MaybeChallenge,
          Move, callVars, replicaVars
<1>1. ASSUME NEW c \in Callers, NEW n \in Nonces, NEW b \in Bodies, CallPut(c, n, b)
      PROVE  IInv'
  <2>1. [body |-> b, expiresAt |-> clock[Home[c]] + ChallengeTTL] \in Challenge
    BY DEF Challenge
  <2> QED BY <1>1, <2>1 DEF CallPut
<1>2. ASSUME NEW c \in Callers, NEW n \in Nonces, CallConsume(c, n) PROVE IInv'
  BY <1>2 DEF CallConsume
<1>3. ASSUME NEW c \in Callers, CallStep(c) PROVE IInv'
  <2>1. CASE Send(c)
    BY <2>1 DEF Send
  <2>2. CASE PoolClosed(c)
    BY <2>2 DEF PoolClosed
  <2>3. CASE CallFails(c)
    BY <2>3 DEF CallFails
  <2>4. CASE StatementDropped(c)
    BY <2>4 DEF StatementDropped
  <2>5. ASSUME NEW f, NEW t, Insert(c, f, t), f \in {"putSent", "putLost"}, t \in {"kept", "refused"}
        PROVE  IInv'
    <3>1. held[c] \in Challenge
      BY <2>5 DEF Insert
    <3>2. [body |-> held[c].body, expiresAt |-> Truncate(held[c].expiresAt)] \in Challenge
      BY <3>1, TruncateBounds DEF Challenge
    <3>3. Truncate(held[c].expiresAt) % Precision = 0
      BY <3>1, TruncateWhole DEF Challenge
    <3> QED BY <2>5, <3>1, <3>2, <3>3 DEF Insert
  <2>6. ASSUME NEW f, NEW t, Delete(c, f, t), f \in {"consumeSent", "consumeLost"}, t \in {"took", "failed"}
        PROVE  IInv'
    BY <2>6 DEF Delete
  <2>7. CASE Execute(c)
    BY <2>5, <2>6, <2>7 DEF Execute
  <2>8. CASE PutReturn(c) \/ ConsumeNoRows(c)
    BY <2>8 DEF PutReturn, ConsumeNoRows
  <2>9. CASE ConsumeReturn(c)
    BY <2>9 DEF ConsumeReturn
  <2> QED BY <1>3, <2>1, <2>2, <2>3, <2>4, <2>7, <2>8, <2>9 DEF CallStep
<1>4. ASSUME NEW r \in Replicas, ReplicaStep(r) PROVE IInv'
  <2>1. CASE JanitorSend(r)
    <3>1. Truncate(clock[r]) \in Nat /\ Truncate(clock[r]) <= clock[r]
      BY TruncateNat, TruncateBounds
    <3>2. Truncate(clock[r]) % Precision = 0
      BY TruncateWhole
    <3> QED BY <2>1, <3>1, <3>2 DEF JanitorSend
  <2>2. CASE JanitorDelete(r)
    BY <2>2 DEF JanitorDelete, Sweep, NoSweep
  <2>3. CASE JanitorFails(r)
    BY <2>3 DEF JanitorFails, NoSweep
  <2>4. ASSUME NEW s \in {"up", "draining", "down"}, SetStatus(r, s) PROVE IInv'
    BY <2>4 DEF SetStatus
  <2>5. CASE Shutdown(r) \/ Exit(r) \/ Restart(r)
    BY <2>4, <2>5 DEF Shutdown, Exit, Restart
  <2>6. CASE Tick(r)
    BY <2>6 DEF Tick, NoSweep
  <2> QED BY <1>4, <2>1, <2>2, <2>3, <2>5, <2>6 DEF ReplicaStep
<1>5. CASE UNCHANGED vars
  BY <1>5 DEF vars
<1> QED BY <1>1, <1>2, <1>3, <1>4, <1>5 DEF Next

\* The invariant holds throughout.
THEOREM Invariance == Spec => []IInv
BY InitIInv, IInvStep, PTL DEF Spec

\* The type invariant of the shared store.
THEOREM TypeCorrect == Spec => []TypeOK
<1>1. IInv => TypeOK
  BY DEF IInv
<1> QED BY <1>1, Invariance, PTL

----------------------------------------------------------------------------
(* Refinement                                                               *)

\* An empty table is an empty abstract store.
LEMMA RefinesInit == Init => Abs!Init
BY DEF Init, Abs!Init, AbsPhase, PhaseOf

\* A step of one call from phase f to phase t is that step of the abstract call.
LEMMA AbsMove ==
    ASSUME IInv, NEW c \in Callers, NEW f, NEW t, Move(c, f, t)
    PROVE  /\ AbsPhase[c] = PhaseOf(f)
           /\ AbsPhase' = [AbsPhase EXCEPT ![c] = PhaseOf(t)]
           /\ PhaseOf(f) = PhaseOf(t) => AbsPhase' = AbsPhase
BY DEF IInv, TypeOK, Move, AbsPhase

\* Such a step that leaves the table alone.
LEMMA AbsMoveStep ==
    ASSUME IInv, NEW c \in Callers, NEW f, NEW t, Move(c, f, t),
           UNCHANGED <<clock, rows, id, held>>
    PROVE  Abs!Move(c, PhaseOf(f), PhaseOf(t))
BY AbsMove DEF Abs!Move

\* Every step of the replicas and the database is a step of the promised store,
\* or none.
LEMMA RefinesNext == IInv /\ [Next]_vars => [Abs!Next]_(Abs!vars)
<1> SUFFICES ASSUME IInv, [Next]_vars PROVE Abs!Next \/ UNCHANGED Abs!vars
  OBVIOUS
<1> USE DEF callVars, replicaVars
<1>1. ASSUME NEW c \in Callers, NEW n \in Nonces, NEW b \in Bodies, CallPut(c, n, b)
      PROVE  Abs!Next
  <2>1. AbsPhase[c] = "idle" /\ AbsPhase' = [AbsPhase EXCEPT ![c] = "put"]
    BY <1>1, AbsMove DEF CallPut, PhaseOf
  <2>2. Abs!Fresh(n)
    BY <1>1 DEF CallPut, Fresh, Abs!Fresh, AbsPhase, PhaseOf, PutPhases, Abs!PutPhases,
                IInv, TypeOK, Phases, InFlight
  <2>3. Abs!CallPut(c, n, Abs!NewChallenge(c, b))
    BY <1>1, <2>1, <2>2 DEF CallPut, Abs!CallPut, Abs!NewChallenge, Abs!Now
  <2> QED BY <2>3 DEF Abs!Next
<1>2. ASSUME NEW c \in Callers, NEW n \in Nonces, CallConsume(c, n) PROVE Abs!Next
  <2>1. AbsPhase[c] = "idle" /\ AbsPhase' = [AbsPhase EXCEPT ![c] = "consume"]
    BY <1>2, AbsMove DEF CallConsume, PhaseOf
  <2>2. Abs!CallConsume(c, n)
    BY <1>2, <2>1 DEF CallConsume, Abs!CallConsume
  <2> QED BY <2>2 DEF Abs!Next
<1>3. ASSUME NEW c \in Callers, Abs!StoreStep(c) PROVE Abs!Next
  BY <1>3 DEF Abs!Next
<1>4. ASSUME NEW c \in Callers, CallStep(c) PROVE Abs!Next \/ UNCHANGED Abs!vars
  <2>1. CASE Send(c)
    <3>1. AbsPhase' = AbsPhase
      BY <2>1, AbsMove DEF Send, PhaseOf
    <3> QED BY <2>1, <3>1 DEF Send, Abs!vars
  <2>2. CASE PoolClosed(c)
    <3>1. Abs!Move(c, "put", "refused") \/ Abs!Move(c, "consume", "failed")
      BY <2>2, AbsMoveStep DEF PoolClosed, PhaseOf
    <3> QED BY <1>3, <3>1 DEF Abs!StoreStep, Abs!Refuse, Abs!Fail
  <2>3. CASE CallFails(c)
    <3>1. \/ Abs!Move(c, "put", "refused") \/ Abs!Move(c, "kept", "refused")
          \/ Abs!Move(c, "put", "putLost")
          \/ Abs!Move(c, "consume", "failed") \/ Abs!Move(c, "took", "failed")
          \/ Abs!Move(c, "consume", "consumeLost")
      BY <2>3, AbsMoveStep DEF CallFails, PhaseOf
    <3> QED BY <1>3, <3>1 DEF Abs!StoreStep, Abs!Refuse, Abs!Fail
  <2>4. CASE StatementDropped(c)
    <3>1. Abs!Move(c, "putLost", "refused") \/ Abs!Move(c, "consumeLost", "failed")
      BY <2>4, AbsMoveStep DEF StatementDropped, PhaseOf
    <3> QED BY <1>3, <3>1 DEF Abs!StoreStep, Abs!Refuse, Abs!Fail
  <2>5. ASSUME NEW f, NEW t, Insert(c, f, t), f \in {"putSent", "putLost"}
        PROVE  Abs!Keep(c, PhaseOf(f), PhaseOf(t))
    <3>1. held[c] \in Challenge
      BY <2>5 DEF IInv, Arguments, Insert, Move, PutPhases
    <3>2. Truncate(held[c].expiresAt) \in
              (held[c].expiresAt - (Precision - 1)) .. held[c].expiresAt
      BY <3>1, TruncateBounds DEF Challenge
    <3> QED BY <2>5, <3>2, AbsMove DEF Insert, Abs!Keep
  <2>6. ASSUME NEW f, NEW t, Delete(c, f, t)
        PROVE  Abs!Take(c, PhaseOf(f), PhaseOf(t))
    BY <2>6, AbsMove DEF Delete, Abs!Take
  <2>7. CASE Execute(c)
    <3>1. \/ Abs!Keep(c, "put", "kept") \/ Abs!Keep(c, "putLost", "refused")
          \/ Abs!Take(c, "consume", "took") \/ Abs!Take(c, "consumeLost", "failed")
      BY <2>5, <2>6, <2>7 DEF Execute, PhaseOf
    <3> QED BY <1>3, <3>1
            DEF Abs!StoreStep, Abs!Store, Abs!LateStore, Abs!Remove, Abs!LateRemove
  <2>8. CASE PutReturn(c)
    <3>1. Abs!Move(c, "kept", "stored")
      BY <2>8, AbsMoveStep DEF PutReturn, PhaseOf
    <3> QED BY <1>3, <3>1 DEF Abs!StoreStep, Abs!Ack
  <2>9. CASE ConsumeNoRows(c)
    <3>1. Abs!Move(c, "consume", "notfound")
      BY <2>9, AbsMoveStep DEF ConsumeNoRows, PhaseOf
    <3> QED BY <1>3, <2>9, <3>1 DEF ConsumeNoRows, Abs!StoreStep, Abs!Miss
  <2>10. CASE ConsumeReturn(c)
    <3>1. CASE Expired(held[c], clock[Home[c]])
      <4>1. Abs!Move(c, "took", "notfound")
        BY <2>10, <3>1, AbsMoveStep DEF ConsumeReturn, PhaseOf
      <4> QED BY <1>3, <3>1, <4>1 DEF Abs!StoreStep, Abs!Miss, Abs!Expired, Expired, Abs!Now
    <3>2. CASE ~Expired(held[c], clock[Home[c]])
      <4>1. Abs!Move(c, "took", "got")
        BY <2>10, <3>2, AbsMoveStep DEF ConsumeReturn, PhaseOf
      <4> QED BY <1>3, <3>2, <4>1 DEF Abs!StoreStep, Abs!Deliver, Abs!Expired, Expired, Abs!Now
    <3> QED BY <3>1, <3>2
  <2> QED BY <1>4, <2>1, <2>2, <2>3, <2>4, <2>7, <2>8, <2>9, <2>10 DEF CallStep
<1>5. ASSUME NEW r \in Replicas, ReplicaStep(r) PROVE Abs!Next \/ UNCHANGED Abs!vars
  <2>1. CASE JanitorSend(r) \/ JanitorFails(r)
    BY <2>1 DEF JanitorSend, JanitorFails, Abs!vars, AbsPhase
  <2>2. CASE JanitorDelete(r)
    <3> DEFINE S == {n \in Nonces : Overdue(n, cutoff[r])}
    <3>1. \A n \in S : rows[n] # NoChallenge /\ rows[n] \in Challenge /\ rows[n].expiresAt < cutoff[r]
      BY DEF Overdue, IInv, TypeOK, MaybeChallenge
    <3>2. cutoff[r] <= clock[r] /\ cutoff[r] \in Int /\ clock[r] \in Int
      BY DEF IInv, TypeOK, CutoffPast, NoSweep
    <3>3. \A n \in S : rows[n] # NoChallenge /\ Abs!Expired(rows[n], clock[r])
      BY <3>1, <3>2 DEF Abs!Expired, Challenge
    <3>4. rows' = Abs!Sweep(rows, S) /\ UNCHANGED <<clock, AbsPhase, id, held>>
      BY <2>2 DEF JanitorDelete, Sweep, Abs!Sweep, AbsPhase
    <3>5. Abs!Evict(S)
      BY <3>3, <3>4 DEF Abs!Evict
    <3> QED BY <3>5 DEF Abs!Next, Abs!Background
  <2>3. CASE Shutdown(r) \/ Exit(r) \/ Restart(r)
    BY <2>3 DEF Shutdown, Exit, Restart, SetStatus, Abs!vars, AbsPhase
  <2>4. CASE Tick(r)
    <3>1. Abs!Tick(r)
      BY <2>4 DEF Tick, Abs!Tick, AbsPhase
    <3> QED BY <3>1 DEF Abs!Next, Abs!Background
  <2> QED BY <1>5, <2>1, <2>2, <2>3, <2>4 DEF ReplicaStep
<1>6. CASE UNCHANGED vars
  BY <1>6 DEF vars, Abs!vars, AbsPhase
<1> QED BY <1>1, <1>2, <1>4, <1>5, <1>6 DEF Next

\* The shared table keeps the promise of nonce.Store.
THEOREM Refinement == Spec => ImplementsStore
<1>1. Spec => Abs!Init /\ [][Abs!Next]_(Abs!vars)
  BY RefinesInit, RefinesNext, Invariance, PTL DEF Spec
<1> QED BY <1>1 DEF ImplementsStore, Abs!Spec

----------------------------------------------------------------------------
(* What the promise gives the replicas                                      *)

\* What is proved of the promise, about what this store does.
Promise == INSTANCE NonceStoreProofs WITH
    Slack <- Precision - 1, live <- rows, pc <- AbsPhase

\* The assumptions of the promise are those of this store.
LEMMA PromiseAssumptions == Promise!ChallengeAssumption /\ Promise!StoreAssumption
BY ChallengeAssumption, PostgresAssumption
DEF Promise!ChallengeAssumption, Promise!StoreAssumption, Promise!Challenge, Challenge

\* The promise holds of every behaviour, with the invariant it rests on.
LEMMA PromiseKept == Spec => []Promise!IInv
<1>1. Abs!Spec => Promise!Spec
  <2>1. Abs!Init <=> Promise!Init
    BY DEF Abs!Init, Promise!Init
  <2>2. Abs!Next <=> Promise!Next
    BY DEF Abs!Next, Promise!Next, Abs!CallPut, Promise!CallPut, Abs!CallConsume,
           Promise!CallConsume, Abs!Fresh, Promise!Fresh, Abs!PutPhases,
           Promise!PutPhases, Abs!NewChallenge, Promise!NewChallenge, Abs!Now,
           Promise!Now, Abs!StoreStep, Promise!StoreStep, Abs!Store, Promise!Store,
           Abs!LateStore, Promise!LateStore, Abs!Keep, Promise!Keep, Abs!Ack,
           Promise!Ack, Abs!Refuse, Promise!Refuse, Abs!Remove, Promise!Remove,
           Abs!LateRemove, Promise!LateRemove, Abs!Take, Promise!Take, Abs!Deliver,
           Promise!Deliver, Abs!Miss, Promise!Miss, Abs!Fail, Promise!Fail, Abs!Move,
           Promise!Move, Abs!Expired, Promise!Expired, Abs!Background,
           Promise!Background, Abs!Evict, Promise!Evict, Abs!Sweep, Promise!Sweep,
           Abs!Tick, Promise!Tick
  <2>3. [Abs!Next]_(Abs!vars) => [Promise!Next]_(Promise!vars)
    BY <2>2 DEF Abs!vars, Promise!vars
  <2> QED BY <2>1, <2>3, PTL DEF Abs!Spec, Promise!Spec
<1>2. Promise!Spec => []Promise!IInv
  BY PromiseAssumptions, Promise!Invariance
<1> QED BY <1>1, <1>2, Refinement DEF ImplementsStore

\* The DELETE of call c returned the row of nonce n, whoever learnt of it.
Took(c, n) ==
    pc[c] \in {"took", "got", "notfound", "failed"} /\ held[c] # NoChallenge /\ id[c] = n

\* The calls that took a row are those that removed a challenge.
LEMMA TookIsRemoved ==
    ASSUME IInv, NEW c \in Callers, NEW n
    PROVE  Took(c, n) <=> Promise!Removed(c, n)
BY DEF Took, Promise!Removed, Promise!ConsumePhases, AbsPhase, PhaseOf, IInv, TypeOK, Phases,
       InFlight, Arguments

\* One DELETE at most returns the row of a nonce, on whichever replica, answered
\* or not: a challenge is spent once.
OneTaker ==
    \A c, d \in Callers, n \in Nonces : Took(c, n) /\ Took(d, n) => c = d

\* What a Consume returns, some replica's Put inserted, rounded down to the
\* database's precision; that Put may have been told that it failed.
ConsumesWhatWasPut ==
    \A c \in Callers : pc[c] = "got" => \E p \in Callers :
        /\ pc[p] \in {"kept", "stored", "refused"} /\ id[p] = id[c]
        /\ held[c].body = held[p].body
        /\ held[c].expiresAt \in (held[p].expiresAt - (Precision - 1)) .. held[p].expiresAt

\* A row whose INSERT was acknowledged is there until a call takes it or some
\* replica's clock has passed its expiry, as rounded.
StoredIsThere ==
    \A p \in Callers :
        /\ pc[p] = "stored"
        /\ \A c \in Callers : ~Took(c, id[p])
        /\ \A r \in Replicas : clock[r] <= held[p].expiresAt - (Precision - 1)
        => rows[id[p]] # NoChallenge /\ rows[id[p]].body = held[p].body

\* An INSERT under way finds no row: the primary key never rejects one.
InsertFindsNoRow ==
    \A c \in Callers : pc[c] \in {"put", "putSent", "putLost"} => rows[id[c]] = NoChallenge

\* Spent once, with replicas crashing between the DELETE and its answer.
THEOREM PostgresSingleUse == Spec => []OneTaker
<1>1. IInv /\ Promise!IInv => OneTaker
  BY TookIsRemoved DEF OneTaker, Promise!IInv, Promise!OneRemoval
<1> QED BY <1>1, Invariance, PromiseKept, PTL

\* Nothing is made up or altered between two replicas, but for the precision of
\* the expiry.
THEOREM PostgresAuthenticity == Spec => []ConsumesWhatWasPut
<1>1. IInv /\ Promise!IInv => ConsumesWhatWasPut
  <2> SUFFICES ASSUME IInv, Promise!IInv, NEW c \in Callers, pc[c] = "got"
               PROVE  \E p \in Callers :
                          /\ pc[p] \in {"kept", "stored", "refused"} /\ id[p] = id[c]
                          /\ held[c].body = held[p].body
                          /\ held[c].expiresAt \in
                                (held[p].expiresAt - (Precision - 1)) .. held[p].expiresAt
    BY DEF ConsumesWhatWasPut
  <2>1. id[c] \in Nonces /\ Took(c, id[c])
    BY ChallengeAssumption DEF Took, IInv, Arguments
  <2>2. PICK p \in Callers : Promise!PutOf(p, id[c], held[c])
    BY <2>1, TookIsRemoved DEF Promise!IInv, Promise!RemovedWasPut
  <2>3. pc[p] \in {"kept", "stored", "refused"}
    BY <2>2 DEF Promise!PutOf, AbsPhase, PhaseOf, IInv, TypeOK, Phases, InFlight
  <2> QED BY <2>2, <2>3 DEF Promise!PutOf
<1> QED BY <1>1, Invariance, PromiseKept, PTL

\* What a client was given to sign stays redeemable on every replica, through
\* restarts and the sweeps of replicas whose clocks differ.
THEOREM PostgresNoLoss == Spec => []StoredIsThere
<1>1. IInv /\ Promise!IInv => StoredIsThere
  <2> SUFFICES ASSUME IInv, Promise!IInv, NEW p \in Callers, pc[p] = "stored",
                      \A c \in Callers : ~Took(c, id[p]),
                      \A r \in Replicas : clock[r] <= held[p].expiresAt - (Precision - 1)
               PROVE  rows[id[p]] # NoChallenge /\ rows[id[p]].body = held[p].body
    BY DEF StoredIsThere
  <2>1. AbsPhase[p] = "stored" /\ id[p] \in Nonces
    BY DEF AbsPhase, PhaseOf, IInv, Arguments
  <2>2. \A c \in Callers : ~Promise!Removed(c, id[p])
    BY TookIsRemoved
  <2>3. rows[id[p]] # NoChallenge
    BY <2>1, <2>2 DEF Promise!IInv, Promise!KeptIsLive
  <2>4. PICK q \in Callers : Promise!PutOf(q, id[p], rows[id[p]])
    BY <2>1, <2>3 DEF Promise!IInv, Promise!LiveWasPut
  <2>5. q = p
    BY <2>1, <2>4 DEF Promise!PutOf, Promise!IInv, Promise!OnePut, Promise!PutPhases
  <2> QED BY <2>3, <2>4, <2>5 DEF Promise!PutOf
<1> QED BY <1>1, Invariance, PromiseKept, PTL

\* The INSERT has no conflict to handle, late statements included.
THEOREM InsertNeverConflicts == Spec => []InsertFindsNoRow
<1>1. IInv /\ Promise!IInv => InsertFindsNoRow
  <2> SUFFICES ASSUME IInv, Promise!IInv, NEW c \in Callers,
                      pc[c] \in {"put", "putSent", "putLost"}
               PROVE  rows[id[c]] = NoChallenge
    BY DEF InsertFindsNoRow
  <2>1. AbsPhase[c] \in {"put", "putLost"}
    BY DEF AbsPhase, PhaseOf
  <2> QED BY <2>1, PromiseAssumptions, Promise!NotYetPut
<1> QED BY <1>1, Invariance, PromiseKept, PTL

=============================================================================
