-------------------------- MODULE MemoryStoreProofs --------------------------
(***************************************************************************)
(* nonce.Memory keeps the promise of nonce.Store, and its capacity, for any *)
(* number of shards, calls and nonces.                                       *)
(***************************************************************************)
EXTENDS MemoryStore, FiniteSetTheorems, TLAPS

\* The arguments and results each phase has.
Arguments ==
    \A c \in Callers :
        /\ pc[c] # "idle" => id[c] \in Nonces
        /\ pc[c] \in PutPhases \cup {"found", "took", "got"} => held[c] \in Challenge
        /\ pc[c] \in {"idle", "consume", "consLocked"} => held[c] = NoChallenge

Typed == TypeOK /\ Arguments

\* A shard's mutex has one holder.
Mutex ==
    /\ \A c, d \in Callers :
          /\ pc[c] \in LockedPhases /\ pc[d] \in LockedPhases
          /\ ShardOf[id[c]] = ShardOf[id[d]]
          => c = d
    /\ \A c \in Callers : jpc = "sweep" => ~HoldsLock(c, jshard)

\* What a Consume looked up is still there when it deletes it.
FoundIsThere == \A c \in Callers : pc[c] = "found" => entries[id[c]] = held[c]

\* What a Put found room for still fits when it inserts.
RoomIsThere == \A c \in Callers : pc[c] = "putRoom" => ~ShardFull(ShardOf[id[c]])

\* No shard holds more than PerShard entries.
WithinShare == \A s \in Shards : Cardinality(InShard(s)) <= PerShard

IInv == Typed /\ Mutex /\ FoundIsThere /\ RoomIsThere /\ WithinShare

----------------------------------------------------------------------------
(* Typing                                                                   *)

\* Every step keeps the variables in their types, with the arguments and results
\* each phase of a call has.
LEMMA TypedStep == Typed /\ [Next]_vars => Typed'
<1> SUFFICES ASSUME Typed, [Next]_vars PROVE Typed'
  OBVIOUS
<1> USE ChallengeAssumption, MemoryAssumption
      DEF Typed, TypeOK, Arguments, Phases, PutPhases, LockedPhases, MaybeChallenge,
          Move, callVars, janitorVars
<1>1. ASSUME NEW c \in Callers, NEW n \in Nonces, NEW b \in Bodies, CallPut(c, n, b)
      PROVE  Typed'
  <2>1. [body |-> b, expiresAt |-> now + ChallengeTTL] \in Challenge
    BY DEF Challenge
  <2> QED BY <1>1, <2>1 DEF CallPut
<1>2. ASSUME NEW c \in Callers, NEW n \in Nonces, CallConsume(c, n) PROVE Typed'
  BY <1>2 DEF CallConsume
<1>3. ASSUME NEW c \in Callers, PutStep(c) PROVE Typed'
  <2>1. CASE PutLock(c)
    BY <2>1 DEF PutLock, Lock
  <2>2. CASE PutCheck(c, "putLocked") \/ PutCheck(c, "putSwept")
    BY <2>2 DEF PutCheck
  <2>3. CASE PutSweep(c)
    BY <2>3 DEF PutSweep, SweepLocked, Sweep
  <2>4. CASE PutFull(c) \/ PutReturn(c)
    BY <2>4 DEF PutFull, PutReturn
  <2>5. CASE PutInsert(c)
    BY <2>5 DEF PutInsert
  <2> QED BY <1>3, <2>1, <2>2, <2>3, <2>4, <2>5 DEF PutStep
<1>4. ASSUME NEW c \in Callers, ConsumeStep(c) PROVE Typed'
  <2>1. CASE ConsumeLock(c)
    BY <2>1 DEF ConsumeLock, Lock
  <2>2. CASE pc[c] = "consLocked" /\ ConsumeLookup(c)
    BY <2>2 DEF ConsumeLookup
  <2>3. CASE ConsumeDelete(c)
    BY <2>3 DEF ConsumeDelete
  <2>4. CASE ConsumeReturn(c)
    BY <2>4 DEF ConsumeReturn
  <2> QED BY <1>4, <2>1, <2>2, <2>3, <2>4 DEF ConsumeStep
<1>5. CASE Janitor
  <2>1. CASE JanitorTick
    BY <2>1 DEF JanitorTick, Shards
  <2>2. CASE JanitorStop \/ JanitorLock
    BY <2>2 DEF JanitorStop, JanitorLock
  <2>3. CASE JanitorSweep
    BY <2>3 DEF JanitorSweep, SweepLocked, Sweep, Shards
  <2> QED BY <1>5, <2>1, <2>2, <2>3 DEF Janitor
<1>6. CASE Cancel
  BY <1>6 DEF Cancel
<1>7. CASE Tick
  BY <1>7 DEF Tick
<1>8. CASE UNCHANGED vars
  BY <1>8 DEF vars
<1> QED BY <1>1, <1>2, <1>3, <1>4, <1>5, <1>6, <1>7, <1>8 DEF Next

\* A store that has just been made is well typed.
LEMMA InitTyped == Init => Typed
<1>1. Init => TypeOK
  <2>1. 0 \in Shards
    BY MemoryAssumption DEF Shards
  <2>2. Init => ctxDone \in BOOLEAN
    BY Zenon DEF Init
  <2>3. ASSUME Init
        PROVE  /\ now \in Nat /\ entries \in [Nonces -> MaybeChallenge]
               /\ pc \in [Callers -> Phases] /\ id \in [Callers -> Nonces \cup {NoNonce}]
               /\ held \in [Callers -> MaybeChallenge]
               /\ jpc \in {"wait", "lock", "sweep", "stopped"} /\ jshard \in Shards
    BY <2>1, <2>3 DEF Init, Phases, MaybeChallenge
  <2> QED BY <2>2, <2>3, Zenon DEF TypeOK
<1>2. Init => Arguments
  BY DEF Init, Arguments, PutPhases
<1> QED BY <1>1, <1>2 DEF Typed

\* The type invariant of the in-memory store.
THEOREM TypeCorrect == Spec => []TypeOK
BY InitTyped, TypedStep, PTL DEF Spec, Typed

----------------------------------------------------------------------------
(* Mutual exclusion                                                         *)

\* Every step leaves each shard's mutex with one holder.
LEMMA MutexStep == Typed /\ Mutex /\ [Next]_vars => Mutex'
<1> SUFFICES ASSUME Typed, Mutex, [Next]_vars PROVE Mutex'
  OBVIOUS
<1> USE DEF Typed, TypeOK, Mutex, HoldsLock, Move, callVars, janitorVars
<1>1. ASSUME NEW c \in Callers, NEW n \in Nonces, NEW b \in Bodies, CallPut(c, n, b)
      PROVE  Mutex'
  BY <1>1 DEF CallPut, LockedPhases
<1>2. ASSUME NEW c \in Callers, NEW n \in Nonces, CallConsume(c, n) PROVE Mutex'
  BY <1>2 DEF CallConsume, LockedPhases
<1>3. ASSUME NEW c \in Callers, NEW f, NEW t, Lock(c, f, t) PROVE Mutex'
  BY <1>3 DEF Lock, Unlocked, JanitorHolds
<1>4. ASSUME NEW c \in Callers, NEW f \in LockedPhases, NEW t, Move(c, f, t),
             UNCHANGED <<id, jpc, jshard>>
      PROVE  Mutex'
  BY <1>4
<1>5. ASSUME NEW c \in Callers, PutStep(c) PROVE Mutex'
  BY <1>3, <1>4, <1>5
  DEF PutStep, PutLock, PutCheck, PutSweep, PutFull, PutInsert, PutReturn, LockedPhases
<1>6. ASSUME NEW c \in Callers, ConsumeStep(c) PROVE Mutex'
  BY <1>3, <1>4, <1>6
  DEF ConsumeStep, ConsumeLock, ConsumeLookup, ConsumeDelete, ConsumeReturn, LockedPhases
<1>7. CASE Janitor
  BY <1>7 DEF Janitor, JanitorTick, JanitorStop, JanitorLock, JanitorSweep, Unlocked
<1>8. CASE Cancel \/ Tick \/ UNCHANGED vars
  BY <1>8 DEF Cancel, Tick, vars
<1> QED BY <1>1, <1>2, <1>5, <1>6, <1>7, <1>8 DEF Next

----------------------------------------------------------------------------
(* Capacity                                                                 *)

\* The capacity of a shard is at least one entry (memory.go:64-67).
LEMMA PerShardType == PerShard \in Nat \ {0}
BY MemoryAssumption DEF PerShard

\* PerShard is the share of MaxEntries rounded down, where that is at least one.
LEMMA ShareBounds ==
    ASSUME NEW k \in Nat
    PROVE  /\ k <= PerShard => k <= 1 \/ k * NumShards <= MaxEntries
           /\ k >= PerShard => (k + 1) * NumShards > MaxEntries
<1> DEFINE q == MaxEntries \div NumShards
<1>1. NumShards \in Nat \ {0} /\ MaxEntries \in Nat
  BY MemoryAssumption
<1>2. q \in Nat /\ q * NumShards <= MaxEntries /\ (q + 1) * NumShards > MaxEntries
  BY <1>1
<1>3. k <= q => k * NumShards <= MaxEntries
  BY <1>1, <1>2
<1>4. k >= q => (k + 1) * NumShards > MaxEntries
  BY <1>1, <1>2
<1> QED BY <1>1, <1>2, <1>3, <1>4 DEF PerShard

\* The entries of a shard can be counted.
LEMMA ShardFinite ==
    ASSUME NEW s PROVE IsFiniteSet(InShard(s)) /\ Cardinality(InShard(s)) \in Nat
BY MemoryAssumption, FS_Subset, FS_CardinalityType DEF InShard

\* The same after a step.
LEMMA ShardFiniteNext ==
    ASSUME NEW s PROVE IsFiniteSet(InShard(s)') /\ Cardinality(InShard(s)') \in Nat
BY MemoryAssumption, FS_Subset, FS_CardinalityType DEF InShard

\* A step that adds no entry to a shard does not make it larger.
LEMMA ShardShrinks ==
    ASSUME NEW s, \A n \in Nonces : ShardOf[n] = s /\ entries'[n] # NoChallenge => entries[n] # NoChallenge
    PROVE  Cardinality(InShard(s)') <= Cardinality(InShard(s))
<1>1. InShard(s)' \in SUBSET InShard(s)
  BY DEF InShard
<1> QED BY <1>1, ShardFinite, FS_Subset

\* A step that adds entries nowhere keeps the capacity and the room found.
LEMMA ShrinkKeepsCapacity ==
    ASSUME IInv, Typed', \A n \in Nonces : entries'[n] # NoChallenge => entries[n] # NoChallenge,
           \A c \in Callers : pc'[c] = "putRoom" =>
               id'[c] = id[c] /\ (pc[c] = "putRoom" \/ ~ShardFull(ShardOf[id[c]]))
    PROVE  RoomIsThere' /\ WithinShare'
<1>1. \A s : Cardinality(InShard(s)') <= Cardinality(InShard(s))
             /\ Cardinality(InShard(s)') \in Nat /\ Cardinality(InShard(s)) \in Nat
  BY ShardShrinks, ShardFinite, ShardFiniteNext
<1>2. WithinShare'
  BY <1>1, PerShardType DEF IInv, WithinShare
<1>3. RoomIsThere'
  BY <1>1, PerShardType DEF IInv, RoomIsThere, ShardFull
<1> QED BY <1>2, <1>3

\* A sweep of shard s leaves the entries of the other shards alone.
LEMMA SweepLocal ==
    ASSUME Typed, NEW s, SweepLocked(s)
    PROVE  /\ \A n \in Nonces : entries'[n] # NoChallenge => entries[n] # NoChallenge
           /\ \A n \in Nonces : ShardOf[n] # s => entries'[n] = entries[n]
BY DEF SweepLocked, Sweep, InShard, Typed, TypeOK

\* Every step keeps the inductive invariant.
LEMMA IInvStep == IInv /\ [Next]_vars => IInv'
<1> SUFFICES ASSUME IInv, [Next]_vars PROVE IInv'
  OBVIOUS
<1>0. Typed /\ Typed' /\ Mutex /\ Mutex'
  BY TypedStep, MutexStep DEF IInv
<1> USE DEF Move, callVars, janitorVars
\* Steps that do not touch the table.
<1>1. ASSUME UNCHANGED entries,
             \A c \in Callers : pc'[c] = "putRoom" =>
                 id'[c] = id[c] /\ (pc[c] = "putRoom" \/ ~ShardFull(ShardOf[id[c]])),
             \A c \in Callers : pc'[c] = "found" =>
                 /\ id'[c] = id[c]
                 /\ \/ pc[c] = "found" /\ held'[c] = held[c]
                    \/ held'[c] = entries[id[c]]
      PROVE  IInv'
  BY <1>0, <1>1, ShrinkKeepsCapacity DEF IInv, FoundIsThere
\* Steps that only delete entries, of a shard whose mutex is held.
<1>2. ASSUME NEW s, \A n \in Nonces : entries'[n] # NoChallenge => entries[n] # NoChallenge,
             \A n \in Nonces : ShardOf[n] # s => entries'[n] = entries[n],
             \A c \in Callers : pc'[c] \in {"putRoom", "found"} => pc'[c] = pc[c],
             \A c \in Callers : pc'[c] = "found" => ~HoldsLock(c, s),
             UNCHANGED <<id, held>>
      PROVE  IInv'
  <2>1. FoundIsThere'
    BY <1>0, <1>2 DEF IInv, FoundIsThere, HoldsLock, LockedPhases, Typed, Arguments
  <2> QED BY <1>0, <1>2, <2>1, ShrinkKeepsCapacity DEF IInv
<1>3. ASSUME NEW c \in Callers, NEW n \in Nonces, NEW b \in Bodies, CallPut(c, n, b)
      PROVE  IInv'
  BY <1>0, <1>1, <1>3 DEF CallPut, Typed, TypeOK
<1>4. ASSUME NEW c \in Callers, NEW n \in Nonces, CallConsume(c, n) PROVE IInv'
  BY <1>0, <1>1, <1>4 DEF CallConsume, Typed, TypeOK
<1>5. ASSUME NEW c \in Callers, PutStep(c) PROVE IInv'
  <2>1. CASE PutLock(c)
    BY <1>0, <1>1, <2>1 DEF PutLock, Lock, Typed, TypeOK
  <2>2. CASE PutCheck(c, "putLocked") \/ PutCheck(c, "putSwept")
    BY <1>0, <1>1, <2>2 DEF PutCheck, Typed, TypeOK
  <2>3. CASE PutFull(c) \/ PutReturn(c)
    BY <1>0, <1>1, <2>3 DEF PutFull, PutReturn, Typed, TypeOK
  <2>4. CASE PutSweep(c)
    <3>1. SweepLocked(ShardOf[id[c]]) /\ UNCHANGED <<id, held>>
          /\ pc[c] = "putLocked" /\ pc' = [pc EXCEPT ![c] = "putSwept"]
      BY <2>4 DEF PutSweep
    <3>2. \A d \in Callers : pc'[d] \in {"putRoom", "found"} => pc'[d] = pc[d] /\ d # c
      BY <1>0, <3>1 DEF Typed, TypeOK
    <3>3. \A d \in Callers : pc'[d] = "found" => ~HoldsLock(d, ShardOf[id[c]])
      BY <1>0, <3>1, <3>2 DEF Mutex, HoldsLock, LockedPhases
    <3> QED BY <1>0, <1>2, <3>1, <3>2, <3>3, SweepLocal
  <2>5. CASE PutInsert(c)
    <3>0. PICK s : s = ShardOf[id[c]]
      OBVIOUS
    <3>1. /\ id[c] \in Nonces /\ s \in Shards /\ pc[c] = "putRoom"
          /\ pc' = [pc EXCEPT ![c] = "kept"] /\ UNCHANGED <<id, held>>
          /\ \A n \in Nonces : n # id[c] => entries'[n] = entries[n]
          /\ entries'[id[c]] # NoChallenge
      BY <1>0, <2>5, <3>0, ChallengeAssumption, MemoryAssumption
      DEF PutInsert, Typed, TypeOK, Arguments, PutPhases, Shards
    <3>2. \A d \in Callers : d # c => pc'[d] = pc[d]
      BY <1>0, <3>1 DEF Typed, TypeOK
    <3>3. \A d \in Callers : d # c /\ pc[d] \in LockedPhases => ShardOf[id[d]] # s
      BY <1>0, <3>0, <3>1 DEF Mutex, LockedPhases
    <3>4. InShard(s)' = InShard(s) \cup {id[c]}
      BY <3>0, <3>1 DEF InShard
    <3>5. Cardinality(InShard(s)) < PerShard /\ Cardinality(InShard(s)) \in Nat
      BY <3>0, <3>1, PerShardType, ShardFinite DEF IInv, RoomIsThere, ShardFull
    <3>6. Cardinality(InShard(s)') <= PerShard
      <4>1. IsFiniteSet(InShard(s))
        BY ShardFinite
      <4>2. Cardinality(InShard(s) \cup {id[c]}) \in
               {Cardinality(InShard(s)), Cardinality(InShard(s)) + 1}
        BY <4>1, FS_AddElement
      <4>3. PerShard \in Nat
        BY PerShardType
      <4> QED BY <3>4, <3>5, <4>2, <4>3
    <3>7. \A t : t # s => InShard(t)' = InShard(t)
      BY <3>0, <3>1 DEF InShard
    <3>8. WithinShare'
      BY <3>6, <3>7 DEF IInv, WithinShare
    <3>9. RoomIsThere'
      BY <3>1, <3>2, <3>3, <3>7, <1>0 DEF IInv, RoomIsThere, ShardFull, LockedPhases, Typed, TypeOK
    <3>10. FoundIsThere'
      BY <3>0, <3>1, <3>2, <3>3, <1>0
      DEF IInv, FoundIsThere, LockedPhases, Typed, TypeOK, Arguments
    <3> QED BY <1>0, <3>8, <3>9, <3>10 DEF IInv
  <2> QED BY <1>5, <2>1, <2>2, <2>3, <2>4, <2>5 DEF PutStep
<1>6. ASSUME NEW c \in Callers, ConsumeStep(c) PROVE IInv'
  <2>1. CASE ConsumeLock(c)
    BY <1>0, <1>1, <2>1 DEF ConsumeLock, Lock, Typed, TypeOK
  <2>2. CASE pc[c] = "consLocked" /\ ConsumeLookup(c)
    BY <1>0, <1>1, <2>2 DEF ConsumeLookup, Typed, TypeOK
  <2>3. CASE ConsumeReturn(c)
    BY <1>0, <1>1, <2>3 DEF ConsumeReturn, Typed, TypeOK
  <2>4. CASE ConsumeDelete(c)
    <3>1. /\ id[c] \in Nonces /\ pc[c] = "found" /\ UNCHANGED <<id, held>>
          /\ pc' = [pc EXCEPT ![c] = "took"]
          /\ entries' = [entries EXCEPT ![id[c]] = NoChallenge]
      BY <1>0, <2>4 DEF ConsumeDelete, Typed, Arguments
    <3>2. \A d \in Callers : pc'[d] \in {"putRoom", "found"} => pc'[d] = pc[d] /\ d # c
      BY <1>0, <3>1 DEF Typed, TypeOK
    <3>3. \A d \in Callers : pc'[d] = "found" => ~HoldsLock(d, ShardOf[id[c]])
      BY <1>0, <3>1, <3>2 DEF Mutex, HoldsLock, LockedPhases
    <3>4. /\ \A n \in Nonces : entries'[n] # NoChallenge => entries[n] # NoChallenge
          /\ \A n \in Nonces : ShardOf[n] # ShardOf[id[c]] => entries'[n] = entries[n]
      BY <1>0, <3>1 DEF Typed, TypeOK
    <3> QED BY <1>2, <3>1, <3>2, <3>3, <3>4
  <2> QED BY <1>6, <2>1, <2>2, <2>3, <2>4 DEF ConsumeStep
<1>7. CASE Janitor
  <2>1. CASE JanitorTick \/ JanitorStop \/ JanitorLock
    BY <1>0, <1>1, <2>1 DEF JanitorTick, JanitorStop, JanitorLock
  <2>2. CASE JanitorSweep
    <3>1. jpc = "sweep" /\ SweepLocked(jshard) /\ UNCHANGED <<pc, id, held>>
      BY <2>2 DEF JanitorSweep
    <3>2. \A d \in Callers : ~HoldsLock(d, jshard)
      BY <1>0, <3>1 DEF Mutex
    <3> QED BY <1>0, <1>2, <3>1, <3>2, SweepLocal
  <2> QED BY <1>7, <2>1, <2>2 DEF Janitor
<1>8. CASE Cancel \/ Tick \/ UNCHANGED vars
  BY <1>0, <1>1, <1>8 DEF Cancel, Tick, vars
<1> QED BY <1>3, <1>4, <1>5, <1>6, <1>7, <1>8 DEF Next

\* A store that has just been made satisfies the inductive invariant.
LEMMA InitIInv == Init => IInv
<1> SUFFICES ASSUME Init PROVE IInv
  OBVIOUS
<1>1. Typed
  BY InitTyped
<1>2. Mutex /\ FoundIsThere /\ RoomIsThere
  BY DEF Init, Mutex, LockedPhases, HoldsLock, FoundIsThere, RoomIsThere
<1>3. WithinShare
  <2>1. \A s : InShard(s) = {}
    BY DEF Init, InShard
  <2> QED BY <2>1, FS_EmptySet, PerShardType DEF WithinShare
<1> QED BY <1>1, <1>2, <1>3 DEF IInv

\* The inductive invariant of the in-memory store holds throughout.
THEOREM Invariance == Spec => []IInv
BY InitIInv, IInvStep, PTL DEF Spec

\* No shard ever holds more than its share of MaxEntries.
THEOREM CapacityHolds == Spec => []ShardBounded
<1>1. ASSUME IInv, NEW s \in Shards
      PROVE  Cardinality(InShard(s)) <= 1 \/ Cardinality(InShard(s)) * NumShards <= MaxEntries
  <2>1. Cardinality(InShard(s)) <= PerShard /\ Cardinality(InShard(s)) \in Nat
    BY <1>1, ShardFinite DEF IInv, WithinShare
  <2> QED BY <2>1, ShareBounds, PerShardType
<1>2. IInv => ShardBounded
  BY <1>1 DEF ShardBounded
<1> QED BY <1>2, Invariance, PTL

----------------------------------------------------------------------------
(* Refusals                                                                 *)

\* When the challenge of a Put was made.
Called(c) == held[c].expiresAt - ChallengeTTL

\* A Put under way was called in the past, and one that has swept its shard finds
\* nothing in it that had expired by then: it holds the lock since.
SweptInv ==
    \A c \in Callers :
        /\ pc[c] \in PutPhases => Called(c) <= now
        /\ pc[c] = "putSwept" =>
              \A n \in InShard(ShardOf[id[c]]) : ~Expired(entries[n], Called(c))

\* What a sweep leaves has not expired yet, nor had it earlier.
LEMMA SweepLeavesGood ==
    ASSUME Typed, NEW s, SweepLocked(s), NEW t \in Int, t <= now
    PROVE  \A n \in InShard(s)' : ~Expired(entries'[n], t)
<1>1. SUFFICES ASSUME NEW n \in InShard(s)' PROVE ~Expired(entries'[n], t)
  OBVIOUS
<1>2. n \in Nonces /\ n \in InShard(s) /\ entries'[n] = entries[n] /\ ~Expired(entries[n], now)
  BY <1>1 DEF SweepLocked, Sweep, InShard, Typed, TypeOK
<1>3. entries[n].expiresAt \in Int /\ now \in Int
  BY <1>2 DEF Typed, TypeOK, MaybeChallenge, Challenge, InShard
<1> QED BY <1>2, <1>3 DEF Expired

LEMMA SweptStep == IInv /\ SweptInv /\ [Next]_vars => SweptInv'
<1> SUFFICES ASSUME IInv, SweptInv, [Next]_vars PROVE SweptInv'
  OBVIOUS
<1>0. Typed /\ Typed' /\ Mutex
  BY TypedStep DEF IInv
<1> USE DEF Move, callVars, janitorVars
\* Steps that add nothing to a shard in which a Put has swept.
<1>1. ASSUME now <= now',
             \A c \in Callers : pc'[c] \in PutPhases =>
                 (pc[c] \in PutPhases /\ Called(c)' = Called(c)) \/ Called(c)' <= now,
             \A c \in Callers : pc'[c] = "putSwept" =>
                 pc[c] = "putSwept" /\ id'[c] = id[c] /\ Called(c)' = Called(c),
             \A c \in Callers, n \in Nonces : pc'[c] = "putSwept" /\ ShardOf[n] = ShardOf[id[c]] =>
                 entries'[n] \in {entries[n], NoChallenge}
      PROVE  SweptInv'
  <2>1. ASSUME NEW c \in Callers, pc'[c] \in PutPhases PROVE Called(c)' <= now'
    <3>1. now \in Int /\ now' \in Int /\ Called(c)' \in Int
      BY <1>0, <2>1, ChallengeAssumption
      DEF Typed, TypeOK, Arguments, Called, Challenge
    <3> QED BY <1>1, <2>1, <3>1 DEF SweptInv
  <2>2. ASSUME NEW c \in Callers, pc'[c] = "putSwept", NEW n \in InShard(ShardOf[id[c]])'
        PROVE  ~Expired(entries'[n], Called(c)')
    <3>1. pc[c] = "putSwept" /\ id'[c] = id[c] /\ Called(c)' = Called(c)
      BY <1>1, <2>2
    <3>2. n \in InShard(ShardOf[id[c]]) /\ entries'[n] = entries[n]
      BY <1>1, <2>2, <3>1 DEF InShard
    <3> QED BY <3>1, <3>2 DEF SweptInv
  <2> QED BY <1>1, <2>1, <2>2 DEF SweptInv, Expired
<1>2. ASSUME NEW c \in Callers, NEW n \in Nonces, NEW b \in Bodies, CallPut(c, n, b)
      PROVE  SweptInv'
  <2>1. Called(c)' <= now
    BY <1>0, <1>2, ChallengeAssumption DEF CallPut, Called, Typed, TypeOK
  <2>2. \A d \in Callers \ {c} : pc'[d] = pc[d] /\ id'[d] = id[d] /\ Called(d)' = Called(d)
    BY <1>0, <1>2 DEF CallPut, Called, Typed, TypeOK
  <2>3. pc'[c] = "put" /\ now' = now /\ entries' = entries /\ now <= now
    BY <1>0, <1>2 DEF CallPut, Typed, TypeOK
  <2> QED BY <1>1, <2>1, <2>2, <2>3
<1>3. ASSUME NEW c \in Callers, NEW n \in Nonces, CallConsume(c, n) PROVE SweptInv'
  <2>1. \A d \in Callers \ {c} : pc'[d] = pc[d] /\ id'[d] = id[d] /\ Called(d)' = Called(d)
    BY <1>0, <1>3 DEF CallConsume, Called, Typed, TypeOK
  <2>2. pc'[c] = "consume" /\ now' = now /\ entries' = entries /\ now <= now
    BY <1>0, <1>3 DEF CallConsume, Typed, TypeOK
  <2> QED BY <1>1, <2>1, <2>2 DEF PutPhases
\* Steps of one call that leave the table and the arguments alone.
<1>4. ASSUME NEW c \in Callers, UNCHANGED <<now, entries, id>>,
             NEW f, NEW t, Move(c, f, t), t # "putSwept",
             t \in PutPhases => f \in PutPhases /\ UNCHANGED held,
             \A d \in Callers \ {c} : held'[d] = held[d]
      PROVE  SweptInv'
  <2>1. \A d \in Callers \ {c} : pc'[d] = pc[d] /\ id'[d] = id[d] /\ Called(d)' = Called(d)
    BY <1>0, <1>4 DEF Called, Typed, TypeOK
  <2>2. pc'[c] = t /\ pc[c] = f /\ now <= now'
    BY <1>0, <1>4 DEF Typed, TypeOK
  <2>3. t \in PutPhases => Called(c)' = Called(c)
    BY <1>4 DEF Called
  <2> QED BY <1>1, <1>4, <2>1, <2>2, <2>3
\* Put sweeps its shard while no other call is in it, and adds to it alone.
<1>5. ASSUME NEW c \in Callers, PutStep(c) PROVE SweptInv'
  <2>1. CASE PutLock(c)
    BY <1>4, <2>1 DEF PutLock, Lock, PutPhases
  <2>2. CASE PutCheck(c, "putLocked") \/ PutCheck(c, "putSwept") \/ PutFull(c) \/ PutReturn(c)
    BY <1>4, <2>2 DEF PutCheck, PutFull, PutReturn, PutPhases
  <2>3. CASE PutSweep(c)
    <3> DEFINE s == ShardOf[id[c]]
    <3>1. /\ SweepLocked(s) /\ UNCHANGED <<now, id, held>> /\ pc[c] = "putLocked"
          /\ \A d \in Callers : pc'[d] = IF d = c THEN "putSwept" ELSE pc[d]
      BY <1>0, <2>3 DEF PutSweep, Typed, TypeOK
    <3>2. Called(c) \in Int /\ Called(c) <= now
      BY <1>0, <3>1, ChallengeAssumption
      DEF SweptInv, PutPhases, Called, Typed, TypeOK, Arguments, Challenge
    <3>3. \A n \in InShard(s)' : ~Expired(entries'[n], Called(c))
      BY <1>0, <3>1, <3>2, SweepLeavesGood
    <3>4. ASSUME NEW d \in Callers \ {c}, pc[d] = "putSwept"
          PROVE  InShard(ShardOf[id[d]])' = InShard(ShardOf[id[d]])
                 /\ \A n \in InShard(ShardOf[id[d]]) : entries'[n] = entries[n]
      <4>1. ShardOf[id[d]] # s
        BY <1>0, <3>1, <3>4 DEF Mutex, LockedPhases
      <4> QED BY <1>0, <3>1, <4>1, SweepLocal DEF InShard
    <3>5. \A d \in Callers : Called(d)' = Called(d)
      BY <3>1 DEF Called
    <3>6. \A d \in Callers : pc'[d] \in PutPhases => Called(d)' <= now'
      BY <3>1, <3>2, <3>5 DEF SweptInv
    <3>7. ASSUME NEW d \in Callers, pc'[d] = "putSwept", NEW n \in InShard(ShardOf[id[d]])'
          PROVE  ~Expired(entries'[n], Called(d)')
      BY <3>1, <3>3, <3>4, <3>5, <3>7 DEF SweptInv
    <3> QED BY <3>1, <3>6, <3>7 DEF SweptInv
  <2>4. CASE PutInsert(c)
    <3>1. /\ UNCHANGED <<now, id, held>> /\ pc[c] = "putRoom" /\ id[c] \in Nonces
          /\ \A d \in Callers : pc'[d] = IF d = c THEN "kept" ELSE pc[d]
          /\ \A n \in Nonces : n # id[c] => entries'[n] = entries[n]
      BY <1>0, <2>4 DEF PutInsert, Typed, TypeOK, Arguments, PutPhases
    <3>2. \A d \in Callers : pc[d] = "putSwept" => ShardOf[id[d]] # ShardOf[id[c]]
      BY <1>0, <3>1 DEF Mutex, LockedPhases
    <3>3. \A d \in Callers : Called(d)' = Called(d)
      BY <3>1 DEF Called
    <3>4. now <= now' /\ "putRoom" \in PutPhases
      BY <1>0, <3>1 DEF Typed, TypeOK, PutPhases
    <3> QED BY <1>1, <3>1, <3>2, <3>3, <3>4
  <2> QED BY <1>5, <2>1, <2>2, <2>3, <2>4 DEF PutStep
<1>6. ASSUME NEW c \in Callers, ConsumeStep(c) PROVE SweptInv'
  <2>1. CASE ConsumeLock(c) \/ ConsumeReturn(c)
    BY <1>4, <2>1 DEF ConsumeLock, Lock, ConsumeReturn, PutPhases
  <2>2. CASE pc[c] = "consLocked" /\ ConsumeLookup(c)
    <3>1. \A d \in Callers \ {c} : held'[d] = held[d]
      BY <1>0, <2>2 DEF ConsumeLookup, Typed, TypeOK
    <3> QED BY <1>4, <2>2, <3>1 DEF ConsumeLookup, PutPhases
  <2>3. CASE ConsumeDelete(c)
    <3>1. /\ UNCHANGED <<now, id, held>> /\ now <= now'
          /\ \A d \in Callers : pc'[d] = IF d = c THEN "took" ELSE pc[d]
          /\ \A n \in Nonces : entries'[n] \in {entries[n], NoChallenge}
      BY <1>0, <2>3 DEF ConsumeDelete, Typed, TypeOK
    <3>2. \A d \in Callers : Called(d)' = Called(d)
      BY <3>1 DEF Called
    <3> QED BY <1>1, <3>1, <3>2 DEF PutPhases
  <2> QED BY <1>6, <2>1, <2>2, <2>3 DEF ConsumeStep
<1>7. CASE JanitorTick \/ JanitorStop \/ JanitorLock \/ Cancel \/ Tick \/ UNCHANGED vars
  <2>1. UNCHANGED <<pc, id, held, entries>> /\ now <= now'
    BY <1>0, <1>7 DEF JanitorTick, JanitorStop, JanitorLock, Cancel, Tick, vars, Typed, TypeOK
  <2>2. \A d \in Callers : Called(d)' = Called(d)
    BY <2>1 DEF Called
  <2> QED BY <1>1, <2>1, <2>2
<1>8. CASE JanitorSweep
  <2>1. UNCHANGED <<pc, id, held, now>> /\ SweepLocked(jshard) /\ now <= now'
    BY <1>0, <1>8 DEF JanitorSweep, Typed, TypeOK
  <2>2. \A n \in Nonces : entries'[n] \in {entries[n], NoChallenge}
    BY <2>1 DEF SweepLocked, Sweep
  <2>3. \A d \in Callers : Called(d)' = Called(d)
    BY <2>1 DEF Called
  <2> QED BY <1>1, <2>1, <2>2, <2>3
<1> QED BY <1>2, <1>3, <1>5, <1>6, <1>7, <1>8 DEF Next, Janitor

\* RefusedOnlyWhenFull, for any number of shards, calls and entries: ErrFull says
\* the truth, whatever expired, or was swept or redeemed, meanwhile (Memory.Put).
THEOREM RefusalIsHonest == Spec => RefusedOnlyWhenFull
<1>1. Init => SweptInv
  BY DEF Init, SweptInv, PutPhases
<1>2. ASSUME IInv, SweptInv, [Next]_vars, NEW c \in Callers, pc[c] # "refused", pc'[c] = "refused"
      PROVE  LET kept == InShard(ShardOf[id[c]])
                 called == held[c].expiresAt - ChallengeTTL
             IN  /\ kept # {} /\ (Cardinality(kept) + 1) * NumShards > MaxEntries
                 /\ \A n \in kept : ~Expired(entries[n], called)
  <2>0. Typed
    BY <1>2 DEF IInv
  <2>1. PutFull(c)
    BY <1>2, <2>0
    DEF Next, CallPut, CallConsume, PutStep, PutLock, Lock, PutCheck, PutSweep, PutFull, PutInsert, PutReturn,
        ConsumeStep, ConsumeLock, ConsumeLookup, ConsumeDelete, ConsumeReturn, Janitor, JanitorTick,
        JanitorStop, JanitorLock, JanitorSweep, Cancel, Tick, Move, vars, callVars, Typed, TypeOK
  <2>2. pc[c] = "putSwept" /\ ShardFull(ShardOf[id[c]]) /\ id[c] \in Nonces
    BY <2>0, <2>1 DEF PutFull, Move, Typed, Arguments
  <2>3. ShardOf[id[c]] \in Shards
    BY <2>2, MemoryAssumption DEF Shards
  <2>4. /\ Cardinality(InShard(ShardOf[id[c]])) \in Nat
        /\ Cardinality(InShard(ShardOf[id[c]])) >= PerShard
    BY <2>2, <2>3, ShardFinite DEF ShardFull
  <2>5. InShard(ShardOf[id[c]]) # {}
    BY <2>4, PerShardType, FS_EmptySet
  <2>6. (Cardinality(InShard(ShardOf[id[c]])) + 1) * NumShards > MaxEntries
    BY <2>4, ShareBounds
  <2> QED BY <1>2, <2>2, <2>5, <2>6 DEF SweptInv, Called
<1>3. IInv /\ SweptInv /\ [Next]_vars
        => [\A c \in Callers : pc[c] # "refused" /\ pc'[c] = "refused" =>
               LET kept == InShard(ShardOf[id[c]])
                   called == held[c].expiresAt - ChallengeTTL
               IN  /\ kept # {} /\ (Cardinality(kept) + 1) * NumShards > MaxEntries
                   /\ \A n \in kept : ~Expired(entries[n], called)]_vars
  BY <1>2
<1> QED BY <1>1, <1>3, SweptStep, Invariance, PTL DEF Spec, RefusedOnlyWhenFull

----------------------------------------------------------------------------
(* Refinement                                                               *)

\* Initially the table is empty, and so is the abstract store.
LEMMA RefinesInit == Init => Abs!Init
BY DEF Init, Abs!Init, AbsPhase, AbsHeld, PhaseOf, Pod

\* A step of one call from phase f to phase t is that step of the abstract call.
LEMMA AbsMove ==
    ASSUME Typed, NEW c \in Callers, NEW f, NEW t, Move(c, f, t)
    PROVE  /\ AbsPhase[c] = PhaseOf(f)
           /\ AbsPhase' = [AbsPhase EXCEPT ![c] = PhaseOf(t)]
BY DEF Typed, TypeOK, Move, AbsPhase

\* A step between two phases that are one phase of the promise changes nothing there.
LEMMA AbsStutter ==
    ASSUME Typed, NEW c \in Callers, NEW f, NEW t, Move(c, f, t), PhaseOf(f) = PhaseOf(t)
    PROVE  AbsPhase' = AbsPhase
BY DEF Typed, TypeOK, Move, AbsPhase

\* What the abstract call holds follows what the call holds.
LEMMA AbsHeldSame ==
    ASSUME Typed, NEW c \in Callers, NEW f, NEW t, Move(c, f, t),
           f # "found", t # "found", UNCHANGED held
    PROVE  AbsHeld' = AbsHeld /\ AbsHeld[c] = held[c]
BY DEF Typed, TypeOK, Move, AbsHeld

\* Such a step that leaves the table alone.
LEMMA AbsMoveStep ==
    ASSUME Typed, NEW c \in Callers, NEW f, NEW t, Move(c, f, t),
           f # "found", t # "found", UNCHANGED <<now, entries, id, held>>
    PROVE  Abs!Move(c, PhaseOf(f), PhaseOf(t))
BY AbsMove, AbsHeldSame DEF Abs!Move

\* A sweep is an eviction of expired challenges.
LEMMA AbsSweep ==
    ASSUME Typed, NEW s, SweepLocked(s),
           UNCHANGED <<now, id, AbsPhase, AbsHeld>>
    PROVE  \E S \in SUBSET Nonces : Abs!Evict(S)
<1> DEFINE S == {n \in InShard(s) : Expired(entries[n], now)}
<1>1. S \in SUBSET Nonces
  BY DEF InShard
<1>2. /\ \A n \in S : entries[n] # NoChallenge /\ Abs!Expired(entries[n], now)
      /\ entries' = Abs!Sweep(entries, S)
  BY DEF SweepLocked, Sweep, InShard, Abs!Sweep, Abs!Expired, Expired
<1>3. Abs!Evict(S)
  BY <1>2 DEF Abs!Evict, Pod
<1> QED BY <1>1, <1>3

\* Every step of the in-memory store is a step of the promised store, or none.
LEMMA RefinesNext == IInv /\ [Next]_vars => [Abs!Next]_(Abs!vars)
<1> SUFFICES ASSUME IInv, [Next]_vars PROVE Abs!Next \/ UNCHANGED Abs!vars
  OBVIOUS
<1>0. Typed
  BY DEF IInv
<1> USE DEF callVars, janitorVars
<1>1. ASSUME NEW c \in Callers, NEW n \in Nonces, NEW b \in Bodies, CallPut(c, n, b)
      PROVE  Abs!Next
  <2>1. Move(c, "idle", "put") /\ held[c] = NoChallenge
    BY <1>0, <1>1 DEF CallPut, Move, Typed, Arguments
  <2>2. AbsPhase[c] = "idle" /\ AbsPhase' = [AbsPhase EXCEPT ![c] = "put"]
    BY <1>0, <2>1, AbsMove DEF PhaseOf
  <2>3. Abs!Fresh(n)
    BY <1>0, <1>1
    DEF CallPut, Fresh, Abs!Fresh, AbsPhase, PhaseOf, PutPhases, Abs!PutPhases,
        Typed, TypeOK, Phases, LockedPhases
  <2>4. AbsHeld' = [AbsHeld EXCEPT ![c] = Abs!NewChallenge(c, b)]
    BY <1>0, <1>1, <2>1
    DEF CallPut, Move, AbsHeld, Abs!NewChallenge, Abs!Now, Typed, TypeOK, Pod
  <2>5. Abs!CallPut(c, n, Abs!NewChallenge(c, b))
    BY <1>1, <2>2, <2>3, <2>4 DEF CallPut, Abs!CallPut
  <2> QED BY <2>5 DEF Abs!Next
<1>2. ASSUME NEW c \in Callers, NEW n \in Nonces, CallConsume(c, n) PROVE Abs!Next
  <2>1. Move(c, "idle", "consume")
    BY <1>2 DEF CallConsume
  <2>2. AbsPhase[c] = "idle" /\ AbsPhase' = [AbsPhase EXCEPT ![c] = "consume"]
    BY <1>0, <2>1, AbsMove DEF PhaseOf
  <2>3. AbsHeld' = AbsHeld
    BY <1>0, <1>2, <2>1, AbsHeldSame DEF CallConsume
  <2>4. Abs!CallConsume(c, n)
    BY <1>2, <2>2, <2>3 DEF CallConsume, Abs!CallConsume
  <2> QED BY <2>4 DEF Abs!Next
<1>3. ASSUME NEW c \in Callers, Abs!StoreStep(c) PROVE Abs!Next
  BY <1>3 DEF Abs!Next
<1>4. ASSUME NEW S \in SUBSET Nonces, Abs!Evict(S) PROVE Abs!Next
  BY <1>4 DEF Abs!Next, Abs!Background
\* Steps between phases of a call that the abstract call does not tell apart.
<1>5. ASSUME NEW c \in Callers, NEW f, NEW t, Move(c, f, t), PhaseOf(f) = PhaseOf(t),
             UNCHANGED <<now, entries, id>>, AbsHeld' = AbsHeld
      PROVE  UNCHANGED Abs!vars
  BY <1>0, <1>5, AbsStutter DEF Abs!vars
<1>6. ASSUME NEW c \in Callers, PutStep(c) PROVE Abs!Next \/ UNCHANGED Abs!vars
  <2>1. CASE PutLock(c)
    BY <1>0, <1>5, <2>1, AbsHeldSame DEF PutLock, Lock, PhaseOf
  <2>2. CASE PutCheck(c, "putLocked") \/ PutCheck(c, "putSwept")
    BY <1>0, <1>5, <2>2, AbsHeldSame DEF PutCheck, PhaseOf
  <2>3. CASE PutSweep(c)
    <3>1. AbsPhase' = AbsPhase /\ AbsHeld' = AbsHeld
      BY <1>0, <2>3, AbsStutter, AbsHeldSame DEF PutSweep, PhaseOf
    <3> QED BY <1>0, <1>4, <2>3, <3>1, AbsSweep DEF PutSweep
  <2>4. CASE PutFull(c)
    <3>1. Abs!Move(c, "put", "refused")
      BY <1>0, <2>4, AbsMoveStep DEF PutFull, PhaseOf
    <3> QED BY <1>3, <3>1 DEF Abs!StoreStep, Abs!Refuse
  <2>5. CASE PutInsert(c)
    <3>1. /\ Move(c, "putRoom", "kept") /\ entries' = [entries EXCEPT ![id[c]] = held[c]]
          /\ UNCHANGED <<now, id, held>> /\ held[c] \in Challenge
      BY <1>0, <2>5 DEF PutInsert, Move, Typed, Arguments, PutPhases
    <3>2. AbsPhase[c] = "put" /\ AbsPhase' = [AbsPhase EXCEPT ![c] = "kept"]
      BY <1>0, <3>1, AbsMove DEF PhaseOf
    <3>3. AbsHeld' = AbsHeld /\ AbsHeld[c] = held[c]
      BY <1>0, <3>1, AbsHeldSame
    <3>4. /\ held[c].expiresAt \in (held[c].expiresAt - 0) .. held[c].expiresAt
          /\ held[c] = [body |-> held[c].body, expiresAt |-> held[c].expiresAt]
      BY <3>1 DEF Challenge
    <3>5. Abs!Keep(c, "put", "kept")
      BY <3>1, <3>2, <3>3, <3>4 DEF Abs!Keep
    <3> QED BY <1>3, <3>5 DEF Abs!StoreStep, Abs!Store
  <2>6. CASE PutReturn(c)
    <3>1. Abs!Move(c, "kept", "stored")
      BY <1>0, <2>6, AbsMoveStep DEF PutReturn, PhaseOf
    <3> QED BY <1>3, <3>1 DEF Abs!StoreStep, Abs!Ack
  <2> QED BY <1>6, <2>1, <2>2, <2>3, <2>4, <2>5, <2>6 DEF PutStep
<1>7. ASSUME NEW c \in Callers, ConsumeStep(c) PROVE Abs!Next \/ UNCHANGED Abs!vars
  <2>1. CASE ConsumeLock(c)
    BY <1>0, <1>5, <2>1, AbsHeldSame DEF ConsumeLock, Lock, PhaseOf
  <2>2. CASE pc[c] = "consLocked" /\ ConsumeLookup(c)
    <3>1. CASE entries[id[c]] = NoChallenge
      <4>1. held' = held
        BY <1>0, <2>2, <3>1 DEF ConsumeLookup, Typed, TypeOK, Arguments
      <4>2. Abs!Move(c, "consume", "notfound")
        BY <1>0, <2>2, <3>1, <4>1, AbsMoveStep DEF ConsumeLookup, PhaseOf
      <4> QED BY <1>3, <3>1, <4>2 DEF Abs!StoreStep, Abs!Miss
    <3>2. CASE entries[id[c]] # NoChallenge
      <4>1. AbsHeld' = AbsHeld
        BY <1>0, <2>2, <3>2 DEF ConsumeLookup, Move, AbsHeld, Typed, TypeOK, Arguments
      <4> QED BY <1>5, <2>2, <3>2, <4>1 DEF ConsumeLookup, PhaseOf
    <3> QED BY <3>1, <3>2
  <2>3. CASE ConsumeDelete(c)
    <3>1. /\ Move(c, "found", "took") /\ entries' = [entries EXCEPT ![id[c]] = NoChallenge]
          /\ UNCHANGED <<now, id, held>>
      BY <2>3 DEF ConsumeDelete
    <3>2. AbsPhase[c] = "consume" /\ AbsPhase' = [AbsPhase EXCEPT ![c] = "took"]
      BY <1>0, <3>1, AbsMove DEF PhaseOf
    <3>3. entries[id[c]] = held[c] /\ held[c] # NoChallenge
      BY <1>0, <3>1, ChallengeAssumption DEF IInv, FoundIsThere, Move, Typed, Arguments
    <3>4. AbsHeld' = [AbsHeld EXCEPT ![c] = entries[id[c]]]
      BY <1>0, <3>1, <3>3 DEF AbsHeld, Move, Typed, TypeOK
    <3>5. Abs!Take(c, "consume", "took")
      BY <3>1, <3>2, <3>3, <3>4 DEF Abs!Take
    <3> QED BY <1>3, <3>5 DEF Abs!StoreStep, Abs!Remove
  <2>4. CASE ConsumeReturn(c)
    <3>1. pc[c] = "took" /\ AbsHeld[c] = held[c]
      BY <1>0, <2>4 DEF ConsumeReturn, AbsHeld
    <3>2. Abs!Now(c) = now
      BY DEF Abs!Now, Pod
    <3>3. CASE Expired(held[c], now)
      <4>1. Abs!Move(c, "took", "notfound")
        BY <1>0, <2>4, <3>3, AbsMoveStep DEF ConsumeReturn, PhaseOf
      <4> QED BY <1>3, <3>1, <3>2, <3>3, <4>1 DEF Abs!StoreStep, Abs!Miss, Abs!Expired, Expired
    <3>4. CASE ~Expired(held[c], now)
      <4>1. Abs!Move(c, "took", "got")
        BY <1>0, <2>4, <3>4, AbsMoveStep DEF ConsumeReturn, PhaseOf
      <4> QED BY <1>3, <3>1, <3>2, <3>4, <4>1 DEF Abs!StoreStep, Abs!Deliver, Abs!Expired, Expired
    <3> QED BY <3>3, <3>4
  <2> QED BY <1>7, <2>1, <2>2, <2>3, <2>4 DEF ConsumeStep
<1>8. CASE Janitor
  <2>1. CASE JanitorTick \/ JanitorStop \/ JanitorLock
    BY <2>1 DEF JanitorTick, JanitorStop, JanitorLock, Abs!vars, AbsPhase, AbsHeld
  <2>2. CASE JanitorSweep
    <3>1. SweepLocked(jshard) /\ UNCHANGED <<now, pc, id, held>>
      BY <2>2 DEF JanitorSweep
    <3>2. AbsPhase' = AbsPhase /\ AbsHeld' = AbsHeld
      BY <3>1 DEF AbsPhase, AbsHeld
    <3> QED BY <1>0, <1>4, <3>1, <3>2, AbsSweep
  <2> QED BY <1>8, <2>1, <2>2 DEF Janitor
<1>9. CASE Tick
  <2>1. Abs!Tick("pod")
    BY <1>0, <1>9 DEF Tick, Abs!Tick, Pod, AbsPhase, AbsHeld
  <2> QED BY <2>1 DEF Abs!Next, Abs!Background, Pod
<1>10. CASE Cancel \/ UNCHANGED vars
  BY <1>10 DEF Cancel, vars, Abs!vars, AbsPhase, AbsHeld
<1> QED BY <1>1, <1>2, <1>6, <1>7, <1>8, <1>9, <1>10 DEF Next

\* The in-memory store keeps the promise of nonce.Store.
THEOREM Refinement == Spec => ImplementsStore
<1>1. Spec => Abs!Init /\ [][Abs!Next]_(Abs!vars)
  BY RefinesInit, RefinesNext, Invariance, PTL DEF Spec
<1> QED BY <1>1 DEF ImplementsStore, Abs!Spec


----------------------------------------------------------------------------
(* What the promise gives its callers                                       *)

\* What is proved of the promise, about what this store does.
Promise == INSTANCE NonceStoreProofs WITH
    Replicas <- Pod, Home <- [c \in Callers |-> "pod"], Slack <- 0,
    clock <- [r \in Pod |-> now], live <- entries,
    pc <- AbsPhase, held <- AbsHeld

\* The promise holds of every behaviour, with the invariant it rests on.
LEMMA PromiseKept == Spec => []Promise!IInv
<1>1. Promise!ChallengeAssumption
  BY ChallengeAssumption DEF Promise!ChallengeAssumption, Promise!Challenge, Challenge
<1>2. Promise!StoreAssumption
  BY DEF Promise!StoreAssumption, Pod
<1>3. Abs!Spec => Promise!Spec
  <2>1. Abs!Init <=> Promise!Init
    BY DEF Abs!Init, Promise!Init
  <2>2. Abs!Next <=> Promise!Next
    BY DEF Abs!Next, Promise!Next, Abs!CallPut, Promise!CallPut, Abs!CallConsume,
           Promise!CallConsume, Abs!Fresh, Promise!Fresh, Abs!PutPhases,
           Promise!PutPhases, Abs!NewChallenge, Promise!NewChallenge, Abs!Now,
           Promise!Now, Abs!StoreStep, Promise!StoreStep, Abs!Store, Promise!Store,
           Abs!LateStore, Promise!LateStore, Abs!Keep, Promise!Keep, Abs!Ack,
           Promise!Ack, Abs!Refuse, Promise!Refuse, Abs!Remove, Promise!Remove,
           Abs!LateRemove, Promise!LateRemove, Abs!Take, Promise!Take, Abs!Deliver,
           Promise!Deliver, Abs!Miss, Promise!Miss, Abs!Fail, Promise!Fail, Abs!Move,
           Promise!Move, Abs!Expired, Promise!Expired, Abs!Background,
           Promise!Background, Abs!Evict, Promise!Evict, Abs!Sweep, Promise!Sweep,
           Abs!Tick, Promise!Tick
  <2>3. [Abs!Next]_(Abs!vars) => [Promise!Next]_(Promise!vars)
    BY <2>2 DEF Abs!vars, Promise!vars
  <2> QED BY <2>1, <2>3, PTL DEF Abs!Spec, Promise!Spec
<1>4. Promise!Spec => []Promise!IInv
  BY <1>1, <1>2, Promise!Invariance
<1> QED BY <1>3, <1>4, Refinement DEF ImplementsStore


\* The phases of the two specifications, where the promise looks at them.
LEMMA PhasesAgree ==
    ASSUME Typed, NEW c \in Callers
    PROVE  /\ pc[c] \in {"stored", "got", "took", "notfound"} =>
                  AbsPhase[c] = pc[c] /\ AbsHeld[c] = held[c]
           /\ AbsPhase[c] \in {"kept", "stored", "refused"} =>
                  AbsPhase[c] = pc[c] /\ AbsHeld[c] = held[c]
           /\ AbsPhase[c] = "consume" => AbsHeld[c] = NoChallenge
           /\ AbsPhase[c] \notin {"consumeLost", "failed"}
BY DEF Typed, TypeOK, Phases, LockedPhases, Arguments, AbsPhase, AbsHeld, PhaseOf

\* Consume call c has found or deleted what it holds now.
Found(c) == pc[c] \in {"found", "took", "got", "notfound"} /\ held[c] # NoChallenge

\* A Put that was refused left nothing behind: not in the table, not with anybody.
RefusedIsNowhere ==
    \A p \in Callers : pc[p] = "refused" =>
        /\ entries[id[p]] = NoChallenge
        /\ \A c \in Callers : Found(c) => id[c] # id[p]

\* A Put on its way to be refused has left nothing behind yet.
LEMMA NotInsertedYet ==
    ASSUME IInv, Promise!IInv, NEW p \in Callers, pc[p] = "putSwept"
    PROVE  /\ entries[id[p]] = NoChallenge
           /\ \A c \in Callers : Found(c) => id[c] # id[p]
<1>1. Promise!ChallengeAssumption /\ Promise!StoreAssumption
  BY ChallengeAssumption
  DEF Promise!ChallengeAssumption, Promise!StoreAssumption, Promise!Challenge, Challenge, Pod
<1>2. AbsPhase[p] = "put" /\ id[p] \in Nonces
  BY DEF AbsPhase, PhaseOf, IInv, Typed, Arguments
<1>3. /\ entries[id[p]] = NoChallenge
      /\ \A c \in Callers : ~Promise!Removed(c, id[p])
  BY <1>1, <1>2, Promise!NotYetPut
<1>4. ASSUME NEW c \in Callers, Found(c), id[c] = id[p] PROVE FALSE
  <2>1. pc[c] # "found"
    BY <1>3, <1>4 DEF Found, IInv, FoundIsThere
  <2>2. AbsPhase[c] \in Promise!ConsumePhases /\ AbsHeld[c] # NoChallenge
    BY <1>4, <2>1 DEF Found, AbsPhase, AbsHeld, PhaseOf, Promise!ConsumePhases
  <2> QED BY <1>3, <1>4, <2>2 DEF Promise!Removed
<1> QED BY <1>3, <1>4

\* What one step may do to a refused or finding call, and to an empty slot.
LEMMA Effects ==
    ASSUME Typed, [Next]_vars
    PROVE  /\ \A c \in Callers : pc'[c] = "refused" =>
                  pc[c] \in {"putSwept", "refused"} /\ id'[c] = id[c]
           /\ \A c \in Callers : Found(c)' =>
                  /\ id'[c] = id[c]
                  /\ \/ Found(c)
                     \/ pc[c] = "consLocked" /\ held'[c] = entries[id[c]]
           /\ \A n \in Nonces : entries[n] = NoChallenge /\ entries'[n] # NoChallenge =>
                  \E c \in Callers : pc[c] = "putRoom" /\ id[c] = n
<1> USE DEF Typed, TypeOK, Arguments, Found, Move, callVars
<1>1. CASE \E c \in Callers : PutStep(c) \/ ConsumeStep(c)
  BY <1>1
  DEF PutStep, PutLock, Lock, PutCheck, PutSweep, PutFull, PutInsert, PutReturn, ConsumeStep,
      ConsumeLock, ConsumeLookup, ConsumeDelete, ConsumeReturn, SweepLocked, Sweep
<1>2. CASE \E c \in Callers, n \in Nonces :
               CallConsume(c, n) \/ \E b \in Bodies : CallPut(c, n, b)
  BY <1>2 DEF CallPut, CallConsume
<1>3. CASE Janitor \/ Cancel \/ Tick \/ UNCHANGED vars
  BY <1>3
  DEF Janitor, JanitorTick, JanitorStop, JanitorLock, JanitorSweep, SweepLocked, Sweep,
      Cancel, Tick, vars
<1> QED BY <1>1, <1>2, <1>3 DEF Next

\* Nothing is inserted or found under the nonce of a refused Put.
LEMMA RefusedStep == IInv /\ Promise!IInv /\ RefusedIsNowhere /\ [Next]_vars
                         => RefusedIsNowhere'
<1> SUFFICES ASSUME IInv, Promise!IInv, RefusedIsNowhere, [Next]_vars,
                    NEW p \in Callers, pc'[p] = "refused"
             PROVE  /\ entries'[id'[p]] = NoChallenge
                    /\ \A c \in Callers : Found(c)' => id'[c] # id'[p]
  BY DEF RefusedIsNowhere
<1>1. pc[p] \in {"putSwept", "refused"} /\ id'[p] = id[p] /\ id[p] \in Nonces
  BY Effects DEF IInv, Typed, Arguments
<1>2. /\ entries[id[p]] = NoChallenge
      /\ \A c \in Callers : Found(c) => id[c] # id[p]
  BY <1>1, NotInsertedYet DEF RefusedIsNowhere
<1>3. ASSUME NEW c \in Callers, pc[c] = "putRoom" PROVE id[c] # id[p]
  <2>1. AbsPhase[c] \in Promise!PutPhases /\ AbsPhase[p] \in Promise!PutPhases
    BY <1>1, <1>3 DEF AbsPhase, PhaseOf, Promise!PutPhases
  <2> QED BY <1>1, <1>3, <2>1 DEF Promise!IInv, Promise!OnePut
<1>4. entries'[id[p]] = NoChallenge
  BY <1>1, <1>2, <1>3, Effects DEF IInv
<1>5. ASSUME NEW c \in Callers, Found(c)' PROVE id'[c] # id[p]
  BY <1>2, <1>5, Effects DEF Found, IInv
<1> QED BY <1>1, <1>4, <1>5

\* ErrFull is final: a challenge whose Put was refused, which its client was told
\* nothing of, can never be redeemed.
THEOREM RefusedIsGone == Spec => []RefusedIsNowhere
<1>1. Init => RefusedIsNowhere
  BY DEF Init, RefusedIsNowhere
<1> QED BY <1>1, RefusedStep, Invariance, PromiseKept, PTL DEF Spec

\* Single use: of all Consume calls with one nonce, one at most returns a challenge.
OneConsumer ==
    \A c, d \in Callers : pc[c] = "got" /\ pc[d] = "got" /\ id[c] = id[d] => c = d

\* Consume returns exactly what a Put inserted under the nonce.
ConsumesWhatWasPut ==
    \A c \in Callers : pc[c] = "got" =>
        \E p \in Callers : pc[p] \in {"kept", "stored"} /\ id[p] = id[c] /\ held[p] = held[c]

\* A challenge whose Put returned nil is in its shard, as it was put, until a
\* Consume deletes it or its expiry has passed.
StoredIsThere ==
    \A p \in Callers :
        /\ pc[p] = "stored" /\ ~Expired(held[p], now)
        /\ \A c \in Callers : pc[c] \in {"took", "got", "notfound"} /\ id[c] = id[p]
                                  => held[c] = NoChallenge
        => entries[id[p]] = held[p]

\* No schedule of calls, sweeps and clock ticks redeems a challenge twice.
THEOREM MemorySingleUse == Spec => []OneConsumer
<1>1. IInv /\ Promise!IInv => OneConsumer
  <2> SUFFICES ASSUME IInv, Promise!IInv, NEW c \in Callers, NEW d \in Callers,
                      pc[c] = "got", pc[d] = "got", id[c] = id[d]
               PROVE  c = d
    BY DEF OneConsumer
  <2>1. /\ AbsPhase[c] = "got" /\ AbsHeld[c] = held[c] /\ held[c] # NoChallenge
        /\ AbsPhase[d] = "got" /\ AbsHeld[d] = held[d] /\ held[d] # NoChallenge
        /\ id[c] \in Nonces
    BY PhasesAgree, ChallengeAssumption DEF IInv, Typed, Arguments
  <2>2. Promise!Removed(c, id[c]) /\ Promise!Removed(d, id[c])
    BY <2>1 DEF Promise!Removed, Promise!ConsumePhases
  <2> QED BY <2>1, <2>2 DEF Promise!IInv, Promise!OneRemoval
<1> QED BY <1>1, Invariance, PromiseKept, PTL

\* Nothing is made up, altered or given the expiry of another challenge between
\* Put and Consume.
THEOREM MemoryAuthenticity == Spec => []ConsumesWhatWasPut
<1>1. IInv /\ Promise!IInv /\ RefusedIsNowhere => ConsumesWhatWasPut
  <2> SUFFICES ASSUME IInv, Promise!IInv, RefusedIsNowhere, NEW c \in Callers, pc[c] = "got"
               PROVE  \E p \in Callers :
                          pc[p] \in {"kept", "stored"} /\ id[p] = id[c] /\ held[p] = held[c]
    BY DEF ConsumesWhatWasPut
  <2>1. /\ AbsPhase[c] = "got" /\ AbsHeld[c] = held[c] /\ held[c] \in Challenge
        /\ id[c] \in Nonces
    BY PhasesAgree DEF IInv, Typed, Arguments
  <2>2. Promise!Removed(c, id[c])
    BY <2>1, ChallengeAssumption DEF Promise!Removed, Promise!ConsumePhases
  <2>3. PICK p \in Callers : Promise!PutOf(p, id[c], held[c])
    BY <2>1, <2>2 DEF Promise!IInv, Promise!RemovedWasPut
  <2>4. /\ pc[p] \in {"kept", "stored", "refused"} /\ id[p] = id[c] /\ held[p] \in Challenge
        /\ held[c].body = held[p].body
        /\ held[c].expiresAt \in (held[p].expiresAt - 0) .. held[p].expiresAt
    BY <2>3, PhasesAgree DEF Promise!PutOf, IInv, Typed, Arguments, PutPhases
  <2>5. held[c] = held[p]
    BY <2>1, <2>4 DEF Challenge
  <2>6. pc[p] # "refused"
    BY <2>1, <2>4, ChallengeAssumption DEF RefusedIsNowhere, Found
  <2> QED BY <2>4, <2>5, <2>6
<1> QED BY <1>1, Invariance, PromiseKept, RefusedIsGone, PTL

\* What a client was given to sign stays redeemable, through every sweep.
THEOREM MemoryNoLoss == Spec => []StoredIsThere
<1>1. IInv /\ Promise!IInv => StoredIsThere
  <2> SUFFICES ASSUME IInv, Promise!IInv, NEW p \in Callers,
                      pc[p] = "stored", ~Expired(held[p], now),
                      \A c \in Callers : pc[c] \in {"took", "got", "notfound"} /\ id[c] = id[p]
                                             => held[c] = NoChallenge
               PROVE  entries[id[p]] = held[p]
    BY DEF StoredIsThere
  <2>1. /\ AbsPhase[p] = "stored" /\ AbsHeld[p] = held[p] /\ held[p] \in Challenge
        /\ id[p] \in Nonces
    BY PhasesAgree DEF IInv, Typed, Arguments, PutPhases
  <2>2. \A c \in Callers : ~Promise!Removed(c, id[p])
    BY PhasesAgree
    DEF Promise!Removed, Promise!ConsumePhases, IInv, Typed, TypeOK, Phases, LockedPhases,
        AbsPhase, AbsHeld, PhaseOf
  <2>3. \A r \in Pod : [q \in Pod |-> now][r] <= AbsHeld[p].expiresAt - 0
    BY <2>1 DEF Expired, Challenge, IInv, Typed, TypeOK
  <2>4. entries[id[p]] # NoChallenge
    BY <2>1, <2>2, <2>3 DEF Promise!IInv, Promise!KeptIsLive
  <2>5. PICK q \in Callers : Promise!PutOf(q, id[p], entries[id[p]])
    BY <2>1, <2>4 DEF Promise!IInv, Promise!LiveWasPut
  <2>6. q = p
    BY <2>1, <2>5 DEF Promise!PutOf, Promise!IInv, Promise!OnePut, Promise!PutPhases
  <2>7. entries[id[p]] \in Challenge
    BY <2>1, <2>4 DEF IInv, Typed, TypeOK, MaybeChallenge
  <2> QED BY <2>1, <2>5, <2>6, <2>7 DEF Promise!PutOf, Challenge
<1> QED BY <1>1, Invariance, PromiseKept, PTL

=============================================================================
