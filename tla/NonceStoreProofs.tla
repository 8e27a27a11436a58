-------------------------- MODULE NonceStoreProofs --------------------------
(***************************************************************************)
(* The promise of nonce.Store, proved for any number of calls, nonces and   *)
(* replicas, any clocks and any challenge lifetime.                          *)
(***************************************************************************)
EXTENDS NonceStore, TLAPS

\* Call p recorded, or may have recorded, a challenge that ch is a copy of.
PutOf(p, n, ch) ==
    /\ pc[p] \in {"kept", "stored", "refused"} /\ id[p] = n
    /\ ch.body = held[p].body
    /\ ch.expiresAt \in (held[p].expiresAt - Slack) .. held[p].expiresAt

\* The arguments and results each phase has.
Arguments ==
    \A c \in Callers :
        /\ pc[c] # "idle" => id[c] \in Nonces
        /\ pc[c] \in PutPhases \cup {"took", "got"} => held[c] \in Challenge
        /\ pc[c] \in {"idle", "consume", "consumeLost"} => held[c] = NoChallenge

\* A nonce is given to one Put.
OnePut ==
    \A c, d \in Callers :
        pc[c] \in PutPhases /\ pc[d] \in PutPhases /\ id[c] = id[d] => c = d

\* Whatever the table holds, a Put recorded.
LiveWasPut ==
    \A n \in Nonces : live[n] # NoChallenge =>
        \E p \in Callers : PutOf(p, n, live[n])

\* Whatever a Consume removed, a Put recorded, and it is gone from the table.
RemovedWasPut ==
    \A c \in Callers, n \in Nonces : Removed(c, n) =>
        /\ live[n] = NoChallenge
        /\ \E p \in Callers : PutOf(p, n, held[c])

\* A challenge is removed by one Consume.
OneRemoval ==
    \A c, d \in Callers, n \in Nonces : Removed(c, n) /\ Removed(d, n) => c = d

\* A challenge recorded, not removed and not expired anywhere is in the table.
KeptIsLive ==
    \A p \in Callers :
        /\ pc[p] \in {"kept", "stored"}
        /\ \A c \in Callers : ~Removed(c, id[p])
        /\ \A r \in Replicas : clock[r] <= held[p].expiresAt - Slack
        => live[id[p]] # NoChallenge

Typed == TypeOK /\ Arguments

IInv ==
    /\ Typed /\ OnePut /\ LiveWasPut
    /\ RemovedWasPut /\ OneRemoval /\ KeptIsLive

----------------------------------------------------------------------------
(* Typing                                                                   *)

\* Every step keeps the phases and tables in their types, with the arguments and
\* results each phase of a call has.
LEMMA TypedStep == Typed /\ [Next]_vars => Typed'
<1> SUFFICES ASSUME Typed, [Next]_vars PROVE Typed'
  OBVIOUS
<1> USE ChallengeAssumption, StoreAssumption
      DEF Typed, TypeOK, Arguments, Phases, PutPhases, ConsumePhases, MaybeChallenge
<1>1. ASSUME NEW c \in Callers, NEW n \in Nonces, NEW b \in Bodies,
             CallPut(c, n, NewChallenge(c, b))
      PROVE  Typed'
  <2>1. NewChallenge(c, b) \in Challenge
    BY DEF NewChallenge, Now, Challenge
  <2> QED BY <1>1, <2>1 DEF CallPut
<1>2. ASSUME NEW c \in Callers, NEW n \in Nonces, CallConsume(c, n) PROVE Typed'
  BY <1>2 DEF CallConsume
<1>3. ASSUME NEW c \in Callers, StoreStep(c) PROVE Typed'
  <2>1. ASSUME NEW f, NEW t, Keep(c, f, t),
               f \in {"put", "putLost"}, t \in {"kept", "refused"}
        PROVE  Typed'
    <3>1. held[c] \in Challenge /\ id[c] \in Nonces
      BY <2>1 DEF Keep
    <3>2. PICK e \in (held[c].expiresAt - Slack) .. held[c].expiresAt :
              live' = [live EXCEPT ![id[c]] = [body |-> held[c].body, expiresAt |-> e]]
      BY <2>1 DEF Keep
    <3>3. [body |-> held[c].body, expiresAt |-> e] \in Challenge
      BY <3>1 DEF Challenge
    <3> QED BY <2>1, <3>1, <3>2, <3>3 DEF Keep
  <2>2. ASSUME NEW f, NEW t, Take(c, f, t),
               f \in {"consume", "consumeLost"}, t \in {"took", "failed"}
        PROVE  Typed'
    BY <2>2 DEF Take
  <2>3. CASE Ack(c)
    BY <2>3 DEF Ack, Move
  <2>4. CASE Refuse(c)
    BY <2>4 DEF Refuse, Move
  <2>5. CASE Deliver(c) \/ Miss(c)
    BY <2>5 DEF Deliver, Miss, Move
  <2>6. CASE Fail(c)
    BY <2>6 DEF Fail, Move
  <2> QED
    BY <1>3, <2>1, <2>2, <2>3, <2>4, <2>5, <2>6
    DEF StoreStep, Store, LateStore, Remove, LateRemove
<1>4. ASSUME NEW S \in SUBSET Nonces, Evict(S) PROVE Typed'
  BY <1>4 DEF Evict, Sweep
<1>5. ASSUME NEW r \in Replicas, Tick(r) PROVE Typed'
  BY <1>5 DEF Tick
<1>6. CASE UNCHANGED vars
  BY <1>6 DEF vars
<1> QED BY <1>1, <1>2, <1>3, <1>4, <1>5, <1>6 DEF Next, Background

\* The type invariant of the store, at every moment of every behaviour.
THEOREM TypeCorrect == Spec => []TypeOK
<1>1. Init => Typed
  BY ChallengeAssumption
  DEF Init, Typed, TypeOK, Arguments, Phases, PutPhases, MaybeChallenge
<1> QED BY <1>1, TypedStep, PTL DEF Spec, Typed

----------------------------------------------------------------------------
(* Single use and no loss                                                   *)

\* An empty store satisfies the inductive invariant.
LEMMA InitIInv == Init => IInv
BY ChallengeAssumption
DEF Init, IInv, Typed, TypeOK, Arguments, Phases, PutPhases, ConsumePhases, MaybeChallenge,
    OnePut, LiveWasPut, RemovedWasPut, OneRemoval, KeptIsLive, Removed

\* A Put that has not recorded its challenge yet: nobody can have seen it.
LEMMA NotYetPut ==
    ASSUME IInv, NEW c \in Callers, pc[c] \in {"put", "putLost"}
    PROVE  /\ live[id[c]] = NoChallenge
           /\ \A d \in Callers : ~Removed(d, id[c])
<1>1. id[c] \in Nonces
  BY DEF IInv, Typed, Arguments
<1>2. ASSUME NEW p \in Callers, NEW ch, PutOf(p, id[c], ch) PROVE FALSE
  BY <1>2 DEF PutOf, IInv, OnePut, PutPhases
<1> QED BY <1>1, <1>2 DEF IInv, LiveWasPut, RemovedWasPut

\* A step that moves calls on without touching the table or what they hold keeps
\* the invariant, provided Puts stay Puts and none reaches or leaves the phases in
\* which its challenge is recorded without recording it.
LEMMA MoveKeepsIInv ==
    ASSUME IInv, Typed', NEW c \in Callers, NEW f, NEW t, Move(c, f, t),
           \/ <<f, t>> \in {<<"kept", "stored">>, <<"kept", "refused">>,
                            <<"put", "refused">>, <<"put", "putLost">>,
                            <<"putLost", "refused">>}
           \/ f \in {"consume", "consumeLost", "took"} /\ t \in ConsumePhases
    PROVE  IInv'
<1> USE DEF IInv, Move
<1>1. \A d \in Callers : (pc'[d] \in PutPhases) <=> (pc[d] \in PutPhases)
  BY DEF Typed, TypeOK, PutPhases, ConsumePhases
<1>2. \A d \in Callers, n \in Nonces : Removed(d, n)' <=> Removed(d, n)
  BY DEF Typed, TypeOK, Removed, PutPhases, ConsumePhases, Arguments
<1>3. \A p \in Callers, n \in Nonces : \A ch : PutOf(p, n, ch) => PutOf(p, n, ch)'
  BY DEF Typed, TypeOK, PutOf
<1>4. OnePut'
  BY <1>1 DEF OnePut
<1>5. LiveWasPut'
  BY <1>3 DEF LiveWasPut
<1>6. RemovedWasPut'
  BY <1>2, <1>3 DEF RemovedWasPut
<1>7. OneRemoval'
  BY <1>2 DEF OneRemoval
<1>8. KeptIsLive'
  <2>1. \A p \in Callers : pc'[p] \in {"kept", "stored"} =>
            pc[p] \in {"kept", "stored"} /\ id[p] \in Nonces
    BY DEF Typed, TypeOK, Arguments, ConsumePhases
  <2> QED BY <1>2, <2>1 DEF KeptIsLive
<1> QED BY <1>4, <1>5, <1>6, <1>7, <1>8

\* Recording a challenge keeps the invariant.
LEMMA KeepKeepsIInv ==
    ASSUME IInv, Typed', NEW c \in Callers, NEW f, NEW t, Keep(c, f, t),
           f \in {"put", "putLost"}, t \in {"kept", "refused"}
    PROVE  IInv'
<1> USE DEF IInv, Keep
<1>1. /\ live[id[c]] = NoChallenge /\ id[c] \in Nonces /\ held[c] \in Challenge
      /\ \A d \in Callers : ~Removed(d, id[c])
  BY NotYetPut DEF Typed, Arguments, PutPhases
<1>2. \A d \in Callers, n \in Nonces : Removed(d, n)' <=> Removed(d, n)
  BY DEF Typed, TypeOK, Removed, ConsumePhases
<1>3. \A p \in Callers, n \in Nonces : \A ch : PutOf(p, n, ch) => PutOf(p, n, ch)'
  BY DEF Typed, TypeOK, PutOf
<1>4. \A n \in Nonces : n # id[c] => live'[n] = live[n]
  BY <1>1 DEF Typed, TypeOK
<1>5. live'[id[c]] # NoChallenge /\ PutOf(c, id[c], live[id[c]])'
  <2>1. PICK e \in (held[c].expiresAt - Slack) .. held[c].expiresAt :
            live' = [live EXCEPT ![id[c]] = [body |-> held[c].body, expiresAt |-> e]]
    OBVIOUS
  <2>2. [body |-> held[c].body, expiresAt |-> e] \in Challenge
    BY <1>1, <2>1, StoreAssumption DEF Challenge
  <2> QED BY <1>1, <2>1, <2>2, ChallengeAssumption DEF Typed, TypeOK, PutOf
<1>6. OnePut'
  BY DEF OnePut, Typed, TypeOK, PutPhases
<1>7. LiveWasPut'
  BY <1>3, <1>4, <1>5 DEF LiveWasPut, PutOf
<1>8. RemovedWasPut'
  BY <1>1, <1>2, <1>3, <1>4 DEF RemovedWasPut
<1>9. OneRemoval'
  BY <1>2 DEF OneRemoval
<1>10. KeptIsLive'
  <2>1. \A p \in Callers : p # c /\ pc'[p] \in {"kept", "stored"} =>
            pc[p] \in {"kept", "stored"} /\ id[p] \in Nonces /\ id[p] # id[c]
    BY DEF Typed, TypeOK, Arguments, OnePut, PutPhases
  <2> QED BY <1>2, <1>4, <1>5, <2>1 DEF KeptIsLive
<1> QED BY <1>6, <1>7, <1>8, <1>9, <1>10

\* Removing a challenge keeps the invariant.
LEMMA TakeKeepsIInv ==
    ASSUME IInv, Typed', NEW c \in Callers, NEW f, NEW t, Take(c, f, t),
           f \in {"consume", "consumeLost"}, t \in {"took", "failed"}
    PROVE  IInv'
<1> USE DEF IInv, Take
<1>1. id[c] \in Nonces /\ live[id[c]] # NoChallenge /\ held[c] = NoChallenge
  BY DEF Typed, Arguments
<1>2. \A d \in Callers : ~Removed(d, id[c])
  BY <1>1 DEF RemovedWasPut
<1>3. \A p \in Callers, n \in Nonces : \A ch : PutOf(p, n, ch) => p # c /\ PutOf(p, n, ch)'
  BY DEF Typed, TypeOK, PutOf
<1>4. \A n \in Nonces : n # id[c] => live'[n] = live[n]
  BY <1>1 DEF Typed, TypeOK
<1>5. live'[id[c]] = NoChallenge /\ held'[c] = live[id[c]]
  BY <1>1 DEF Typed, TypeOK
<1>6. \A d \in Callers, n \in Nonces : d # c => (Removed(d, n)' <=> Removed(d, n))
  BY DEF Typed, TypeOK, Removed
<1>7. \A d \in Callers, n \in Nonces : d # c => held'[d] = held[d]
  BY DEF Typed, TypeOK
<1>8. \A n \in Nonces : Removed(c, n)' <=> n = id[c]
  BY <1>1, <1>5 DEF Typed, TypeOK, Removed, ConsumePhases
<1>9. OnePut'
  BY DEF OnePut, Typed, TypeOK, PutPhases
<1>10. LiveWasPut'
  BY <1>3, <1>4, <1>5 DEF LiveWasPut, PutOf
<1>11. RemovedWasPut'
  <2>1. \E p \in Callers : PutOf(p, id[c], held[c])'
    BY <1>1, <1>3, <1>5 DEF LiveWasPut, PutOf
  <2>2. ASSUME NEW d \in Callers, NEW n \in Nonces, d # c, Removed(d, n)
        PROVE  live'[n] = NoChallenge /\ \E p \in Callers : PutOf(p, n, held[d])'
    BY <2>2, <1>2, <1>3, <1>4, <1>7 DEF RemovedWasPut, PutOf
  <2> QED BY <1>5, <1>6, <1>8, <2>1, <2>2 DEF RemovedWasPut, PutOf
<1>12. OneRemoval'
  BY <1>2, <1>6, <1>8 DEF OneRemoval
<1>13. KeptIsLive'
  <2>1. \A p \in Callers : pc'[p] \in {"kept", "stored"} =>
            p # c /\ pc[p] \in {"kept", "stored"} /\ id[p] \in Nonces /\ held'[p] = held[p]
    BY DEF Typed, TypeOK, Arguments
  <2>2. SUFFICES ASSUME NEW p \in Callers, pc'[p] \in {"kept", "stored"},
                        \A d \in Callers : ~Removed(d, id[p])',
                        \A r \in Replicas : clock'[r] <= held'[p].expiresAt - Slack
                 PROVE  live'[id'[p]] # NoChallenge
    BY DEF KeptIsLive
  <2>3. id'[p] = id[p] /\ id[p] \in Nonces
    BY <2>1, <2>2
  <2>4. id[p] # id[c]
    BY <1>8, <2>2, <2>3 DEF Removed
  <2>5. \A d \in Callers : ~Removed(d, id[p])
    BY <1>1, <1>6, <2>2, <2>3 DEF Removed
  <2> QED BY <1>4, <2>1, <2>2, <2>3, <2>4, <2>5 DEF KeptIsLive
<1> QED BY <1>9, <1>10, <1>11, <1>12, <1>13

\* Every step keeps the invariant.
LEMMA IInvStep == IInv /\ [Next]_vars => IInv'
<1> SUFFICES ASSUME IInv, [Next]_vars PROVE IInv'
  OBVIOUS
<1>0. Typed /\ Typed'
  BY TypedStep DEF IInv
<1>1. ASSUME NEW c \in Callers, NEW n \in Nonces, NEW b \in Bodies,
             CallPut(c, n, NewChallenge(c, b))
      PROVE  IInv'
  <2> USE <1>1 DEF IInv, CallPut
  <2>1. \A d \in Callers : d # c => /\ pc'[d] = pc[d] /\ id'[d] = id[d] /\ held'[d] = held[d]
    BY <1>0 DEF Typed, TypeOK
  <2>2. pc'[c] = "put" /\ id'[c] = n
    BY <1>0 DEF Typed, TypeOK
  <2>3. \A d \in Callers, m \in Nonces : Removed(d, m)' <=> Removed(d, m)
    BY <2>1, <2>2 DEF Removed, ConsumePhases
  <2>4. \A p \in Callers, m \in Nonces : \A ch : PutOf(p, m, ch) => p # c /\ PutOf(p, m, ch)'
    BY <2>1, <2>2 DEF PutOf
  <2>5. OnePut'
    BY <2>1, <2>2 DEF OnePut, Fresh
  <2>6. LiveWasPut'
    BY <2>4 DEF LiveWasPut, PutOf
  <2>7. RemovedWasPut'
    <3>1. \A d \in Callers, m \in Nonces : Removed(d, m) => d # c
      BY DEF Removed, ConsumePhases
    <3> QED BY <2>1, <2>3, <2>4, <3>1 DEF RemovedWasPut, PutOf
  <2>8. OneRemoval'
    BY <2>3 DEF OneRemoval
  <2>9. KeptIsLive'
    <3>1. SUFFICES ASSUME NEW p \in Callers, pc'[p] \in {"kept", "stored"},
                          \A d \in Callers : ~Removed(d, id[p])',
                          \A r \in Replicas : clock'[r] <= held'[p].expiresAt - Slack
                   PROVE  live'[id'[p]] # NoChallenge
      BY DEF KeptIsLive
    <3>2. p # c /\ id'[p] = id[p] /\ id[p] \in Nonces
      BY <1>0, <2>1, <2>2, <3>1 DEF Typed, Arguments
    <3>3. \A d \in Callers : ~Removed(d, id[p])
      BY <2>1, <2>2, <3>1, <3>2 DEF Removed, ConsumePhases
    <3> QED BY <2>1, <3>1, <3>2, <3>3 DEF KeptIsLive
  <2> QED BY <1>0, <2>5, <2>6, <2>7, <2>8, <2>9
<1>2. ASSUME NEW c \in Callers, NEW n \in Nonces, CallConsume(c, n) PROVE IInv'
  <2> USE <1>2 DEF IInv, CallConsume
  <2>1. \A d \in Callers : d # c => /\ pc'[d] = pc[d] /\ id'[d] = id[d]
    BY <1>0 DEF Typed, TypeOK
  <2>2. pc'[c] = "consume" /\ id'[c] = n /\ held[c] = NoChallenge
    BY <1>0 DEF Typed, TypeOK, Arguments
  <2>3. \A d \in Callers, m \in Nonces : Removed(d, m)' <=> Removed(d, m)
    BY <2>1, <2>2 DEF Removed, ConsumePhases
  <2>4. \A p \in Callers, m \in Nonces : \A ch : PutOf(p, m, ch) => p # c /\ PutOf(p, m, ch)'
    BY <2>1, <2>2 DEF PutOf
  <2>5. OnePut'
    BY <2>1, <2>2 DEF OnePut, PutPhases
  <2>6. LiveWasPut'
    BY <2>4 DEF LiveWasPut, PutOf
  <2>7. RemovedWasPut'
    BY <2>3, <2>4 DEF RemovedWasPut, PutOf
  <2>8. OneRemoval'
    BY <2>3 DEF OneRemoval
  <2>9. KeptIsLive'
    <3>1. SUFFICES ASSUME NEW p \in Callers, pc'[p] \in {"kept", "stored"},
                          \A d \in Callers : ~Removed(d, id[p])',
                          \A r \in Replicas : clock'[r] <= held'[p].expiresAt - Slack
                   PROVE  live'[id'[p]] # NoChallenge
      BY DEF KeptIsLive
    <3>2. p # c /\ id'[p] = id[p] /\ id[p] \in Nonces
      BY <1>0, <2>1, <2>2, <3>1 DEF Typed, Arguments
    <3>3. \A d \in Callers : ~Removed(d, id[p])
      BY <2>1, <2>2, <3>1, <3>2 DEF Removed
    <3> QED BY <2>1, <3>1, <3>2, <3>3 DEF KeptIsLive
  <2> QED BY <1>0, <2>5, <2>6, <2>7, <2>8, <2>9
<1>3. ASSUME NEW c \in Callers, StoreStep(c) PROVE IInv'
  <2>1. CASE Store(c) \/ LateStore(c)
    BY <1>0, <2>1, KeepKeepsIInv DEF Store, LateStore
  <2>2. CASE Remove(c) \/ LateRemove(c)
    BY <1>0, <2>2, TakeKeepsIInv DEF Remove, LateRemove
  <2>3. CASE Ack(c)
    BY <1>0, <2>3, MoveKeepsIInv DEF Ack
  <2>4. CASE Refuse(c)
    BY <1>0, <2>4, MoveKeepsIInv DEF Refuse
  <2>5. CASE Deliver(c) \/ Miss(c) \/ Fail(c)
    BY <1>0, <2>5, MoveKeepsIInv DEF Deliver, Miss, Fail, ConsumePhases
  <2> QED BY <1>3, <2>1, <2>2, <2>3, <2>4, <2>5 DEF StoreStep
<1>4. ASSUME NEW S \in SUBSET Nonces, Evict(S) PROVE IInv'
  <2> USE DEF IInv
  <2>1. /\ \A n \in S : live[n] # NoChallenge
        /\ live' = [n \in Nonces |-> IF n \in S THEN NoChallenge ELSE live[n]]
        /\ clock' = clock /\ pc' = pc /\ id' = id /\ held' = held
    BY <1>4 DEF Evict, Sweep
  <2>2. PICK r \in Replicas : \A n \in S : clock[r] > live[n].expiresAt
    BY <1>4 DEF Evict, Expired
  <2>3. OnePut' /\ OneRemoval'
    BY <2>1 DEF OnePut, OneRemoval, Removed
  <2>4. LiveWasPut' /\ RemovedWasPut'
    BY <2>1 DEF LiveWasPut, RemovedWasPut, PutOf, Removed
  <2>5. KeptIsLive'
    <3>1. SUFFICES ASSUME NEW p \in Callers, pc[p] \in {"kept", "stored"},
                          \A d \in Callers : ~Removed(d, id[p]),
                          \A q \in Replicas : clock[q] <= held[p].expiresAt - Slack
                   PROVE  live'[id[p]] # NoChallenge
      BY <2>1 DEF KeptIsLive, Removed
    <3>2. id[p] \in Nonces /\ live[id[p]] # NoChallenge /\ held[p] \in Challenge
      BY <1>0, <3>1 DEF Typed, Arguments, PutPhases, KeptIsLive
    <3>3. PutOf(p, id[p], live[id[p]])
      BY <3>1, <3>2 DEF LiveWasPut, PutOf, OnePut, PutPhases
    <3>4. live[id[p]].expiresAt >= held[p].expiresAt - Slack /\ live[id[p]].expiresAt \in Int
      BY <3>2, <3>3, StoreAssumption DEF PutOf, Challenge
    <3>5. clock[r] <= held[p].expiresAt - Slack /\ clock[r] \in Int /\ held[p].expiresAt \in Int
      BY <1>0, <3>1, <3>2 DEF Typed, TypeOK, Challenge
    <3>6. id[p] \notin S
      BY <2>2, <3>4, <3>5, StoreAssumption
    <3> QED BY <2>1, <3>2, <3>6
  <2> QED BY <1>0, <2>3, <2>4, <2>5
<1>5. ASSUME NEW r \in Replicas, Tick(r) PROVE IInv'
  <2> USE DEF IInv
  <2>1. live' = live /\ pc' = pc /\ id' = id /\ held' = held
    BY <1>5 DEF Tick
  <2>2. OnePut' /\ OneRemoval' /\ LiveWasPut' /\ RemovedWasPut'
    BY <2>1 DEF OnePut, OneRemoval, LiveWasPut, RemovedWasPut, PutOf, Removed
  <2>3. KeptIsLive'
    <3>1. SUFFICES ASSUME NEW p \in Callers, pc[p] \in {"kept", "stored"},
                          \A d \in Callers : ~Removed(d, id[p]),
                          \A q \in Replicas : clock'[q] <= held[p].expiresAt - Slack
                   PROVE  live[id[p]] # NoChallenge
      BY <2>1 DEF KeptIsLive, Removed
    <3>2. held[p].expiresAt \in Int
      BY <1>0, <3>1 DEF Typed, Arguments, PutPhases, Challenge
    <3>3. \A q \in Replicas : clock[q] <= clock'[q] /\ clock[q] \in Int /\ clock'[q] \in Int
      BY <1>0, <1>5 DEF Tick, Typed, TypeOK
    <3>4. \A q \in Replicas : clock[q] <= held[p].expiresAt - Slack
      BY <3>1, <3>2, <3>3, StoreAssumption
    <3> QED BY <3>1, <3>4 DEF KeptIsLive
  <2> QED BY <1>0, <2>2, <2>3
<1>6. CASE UNCHANGED vars
  BY <1>6 DEF vars, IInv, Typed, TypeOK, Arguments, OnePut, OneRemoval, LiveWasPut,
              RemovedWasPut, KeptIsLive, PutOf, Removed
<1> QED BY <1>1, <1>2, <1>3, <1>4, <1>5, <1>6 DEF Next, Background

\* The inductive invariant of the store holds throughout.
THEOREM Invariance == Spec => []IInv
BY InitIInv, IInvStep, PTL DEF Spec

\* Single use: no schedule of calls, failures, late statements, sweeps and clocks
\* lets two Consume calls return the challenge of one nonce.
THEOREM SingleUse == Spec => []OneWinner
<1>1. IInv => OneWinner
  BY ChallengeAssumption
  DEF IInv, Typed, Arguments, OneRemoval, OneWinner, Removed, ConsumePhases
<1> QED BY <1>1, Invariance, PTL

\* Consume only returns what a Put was given for the same nonce.
THEOREM Authenticity == Spec => []DeliversWhatWasPut
<1>1. IInv => DeliversWhatWasPut
  <2> SUFFICES ASSUME IInv, NEW c \in Callers, pc[c] = "got"
               PROVE  \E p \in Callers : pc[p] \in PutPhases /\ PutOf(p, id[c], held[c])
    BY DEF DeliversWhatWasPut, PutOf
  <2>1. id[c] \in Nonces /\ Removed(c, id[c])
    BY ChallengeAssumption DEF IInv, Typed, Arguments, Removed, ConsumePhases
  <2> QED BY <2>1 DEF IInv, RemovedWasPut, PutOf, PutPhases
<1> QED BY <1>1, Invariance, PTL

\* A challenge whose Put succeeded stays until it is used or has expired.
THEOREM NoLoss == Spec => []AckedIsLive
<1>1. IInv => AckedIsLive
  BY DEF IInv, KeptIsLive, AckedIsLive
<1> QED BY <1>1, Invariance, PTL

=============================================================================
