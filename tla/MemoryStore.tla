----------------------------- MODULE MemoryStore -----------------------------
(***************************************************************************)
(* nonce.Memory: the in-memory challenge store of a single process.  Its    *)
(* table is split into shards, each with a mutex; every call, and a         *)
(* background janitor, work on one shard at a time while they hold its      *)
(* mutex.                                                                    *)
(*                                                                          *)
(* Source: internal/siwe/nonce/memory.go.                                    *)
(***************************************************************************)
EXTENDS ChallengeDefs, FiniteSets

CONSTANTS
    NumShards,  \* const shards
    ShardOf,    \* the shard each nonce hashes to (fnv32a modulo shards)
    MaxEntries  \* the capacity NewMemory is given

ASSUME MemoryAssumption ==
    /\ NumShards \in Nat \ {0}
    /\ ShardOf \in [Nonces -> 0 .. (NumShards - 1)]
    /\ MaxEntries \in Nat
    /\ IsFiniteSet(Nonces)

VARIABLES
    now,        \* m.now()
    entries,    \* the entries of all shards; a nonce names its shard
    pc,         \* phase of each call
    id,         \* its nonce argument
    held,       \* Put: its argument.  Consume: the entry it looked up
    jpc,        \* phase of the janitor
    jshard,     \* shard the janitor is at
    ctxDone     \* the context given to NewMemory is cancelled

callVars == <<pc, id, held>>
janitorVars == <<jpc, jshard>>
vars == <<now, entries, pc, id, held, jpc, jshard, ctxDone>>

Shards == 0 .. (NumShards - 1)

\* Mutant: the early return on a missing entry leaves the mutex locked.
MLeakLock == {"putLocked", "putSwept", "putRoom", "kept", "consLocked", "found", "took",
              "notfound"}
\* Phases in which a call holds the mutex of its shard.
LockedPhases == {"putLocked", "putSwept", "putRoom", "kept", "consLocked", "found", "took"}
Phases == {"idle", "put", "stored", "refused", "consume", "got", "notfound"}
              \cup LockedPhases

TypeOK ==
    /\ now \in Nat
    /\ entries \in [Nonces -> MaybeChallenge]
    /\ pc \in [Callers -> Phases]
    /\ id \in [Callers -> Nonces \cup {NoNonce}]
    /\ held \in [Callers -> MaybeChallenge]
    /\ jpc \in {"wait", "lock", "sweep", "stopped"}
    /\ jshard \in Shards
    /\ ctxDone \in BOOLEAN

Init ==
    /\ now = 0
    /\ entries = [n \in Nonces |-> NoChallenge]
    /\ pc = [c \in Callers |-> "idle"]
    /\ id = [c \in Callers |-> NoNonce]
    /\ held = [c \in Callers |-> NoChallenge]
    /\ jpc = "wait" /\ jshard = 0
    /\ ctxDone = FALSE

----------------------------------------------------------------------------
(* Shards, locks and capacity                                               *)

\* sync.Mutex: whoever is past Lock and not yet past Unlock on shard s.
HoldsLock(c, s) == pc[c] \in LockedPhases /\ ShardOf[id[c]] = s
JanitorHolds(s) == jpc = "sweep" /\ jshard = s

\* Mutant: the calls do not lock.
MUnlocked(s) == ~JanitorHolds(s)
Unlocked(s) == ~JanitorHolds(s) /\ \A c \in Callers : ~HoldsLock(c, s)

InShard(s) == {n \in Nonces : ShardOf[n] = s /\ entries[n] # NoChallenge}

\* The capacity of one shard, clamped to at least one entry.
PerShard == IF MaxEntries \div NumShards < 1 THEN 1 ELSE MaxEntries \div NumShards

\* Mutant: off by one at the limit.
MShardFull(s) == Cardinality(InShard(s)) > PerShard
ShardFull(s) == Cardinality(InShard(s)) >= PerShard

\* sweepLocked: drop the expired entries of shard s.
SweepLocked(s) ==
    entries' = Sweep(entries, {n \in InShard(s) : Expired(entries[n], now)})

\* A step of call c from one phase to the next.
Move(c, from, to) == pc[c] = from /\ pc' = [pc EXCEPT ![c] = to]

Lock(c, from, to) ==
    /\ Unlocked(ShardOf[id[c]])
    /\ UNCHANGED <<now, entries, id, held, janitorVars, ctxDone>>
    /\ Move(c, from, to)

----------------------------------------------------------------------------
(* Put                                                                      *)

PutPhases == {"put", "putLocked", "putSwept", "putRoom", "kept", "stored", "refused"}

Fresh(n) == \A c \in Callers : ~(pc[c] \in PutPhases /\ id[c] = n)

CallPut(c, n, b) ==
    /\ Fresh(n) /\ Move(c, "idle", "put")
    /\ id' = [id EXCEPT ![c] = n]
    /\ held' = [held EXCEPT ![c] = [body |-> b, expiresAt |-> now + ChallengeTTL]]
    /\ UNCHANGED <<now, entries, janitorVars, ctxDone>>

PutLock(c) == pc[c] = "put" /\ Lock(c, "put", "putLocked")

\* len(s.entries) < perShard: there is room.
PutCheck(c, from) ==
    /\ Move(c, from, "putRoom") /\ ~ShardFull(ShardOf[id[c]])
    /\ UNCHANGED <<now, entries, id, held, janitorVars, ctxDone>>

PutInsert(c) ==
    /\ Move(c, "putRoom", "kept")
    /\ entries' = [entries EXCEPT ![id[c]] = held[c]]
    /\ UNCHANGED <<now, id, held, janitorVars, ctxDone>>

\* Mutant: a full shard is not swept.
MPutSweep(c) ==
    /\ Move(c, "putLocked", "putSwept") /\ ShardFull(ShardOf[id[c]])
    /\ UNCHANGED <<now, entries, id, held, janitorVars, ctxDone>>
PutSweep(c) ==
    /\ Move(c, "putLocked", "putSwept") /\ ShardFull(ShardOf[id[c]])
    /\ SweepLocked(ShardOf[id[c]])
    /\ UNCHANGED <<now, id, held, janitorVars, ctxDone>>

\* ErrFull, and the deferred Unlock.
PutFull(c) ==
    /\ Move(c, "putSwept", "refused") /\ ShardFull(ShardOf[id[c]])
    /\ UNCHANGED <<now, entries, id, held, janitorVars, ctxDone>>

PutReturn(c) ==
    /\ Move(c, "kept", "stored")
    /\ UNCHANGED <<now, entries, id, held, janitorVars, ctxDone>>

PutStep(c) ==
    \/ PutLock(c) \/ PutCheck(c, "putLocked") \/ PutSweep(c)
    \/ PutCheck(c, "putSwept") \/ PutFull(c) \/ PutInsert(c) \/ PutReturn(c)

----------------------------------------------------------------------------
(* Consume                                                                  *)

CallConsume(c, n) ==
    /\ Move(c, "idle", "consume")
    /\ id' = [id EXCEPT ![c] = n]
    /\ UNCHANGED <<now, entries, held, janitorVars, ctxDone>>

ConsumeLock(c) == pc[c] = "consume" /\ Lock(c, "consume", "consLocked")

\* e, ok := s.entries[id]
ConsumeLookup(c) ==
    /\ IF entries[id[c]] = NoChallenge
       THEN Move(c, "consLocked", "notfound")
       ELSE Move(c, "consLocked", "found")
    /\ held' = [held EXCEPT ![c] = entries[id[c]]]
    /\ UNCHANGED <<now, entries, id, janitorVars, ctxDone>>

ConsumeDelete(c) ==
    /\ Move(c, "found", "took")
    /\ entries' = [entries EXCEPT ![id[c]] = NoChallenge]
    /\ UNCHANGED <<now, id, held, janitorVars, ctxDone>>

\* The entry is gone whether or not it turns out to have expired.
ConsumeReturn(c) ==
    /\ pc[c] = "took"
    /\ \/ Move(c, "took", "notfound") /\ Expired(held[c], now)
       \/ Move(c, "took", "got") /\ ~Expired(held[c], now)
    /\ UNCHANGED <<now, entries, id, held, janitorVars, ctxDone>>

ConsumeStep(c) ==
    \/ ConsumeLock(c)
    \/ pc[c] = "consLocked" /\ ConsumeLookup(c)
    \/ ConsumeDelete(c) \/ ConsumeReturn(c)

----------------------------------------------------------------------------
(* The janitor                                                              *)

\* The ticker fires; with ctx also done, select may still choose it.
JanitorTick ==
    /\ jpc = "wait" /\ jpc' = "lock" /\ jshard' = 0
    /\ UNCHANGED <<now, entries, callVars, ctxDone>>

JanitorStop ==
    /\ jpc = "wait" /\ ctxDone /\ jpc' = "stopped"
    /\ UNCHANGED <<now, entries, callVars, jshard, ctxDone>>

JanitorLock ==
    /\ jpc = "lock" /\ Unlocked(jshard) /\ jpc' = "sweep"
    /\ UNCHANGED <<now, entries, callVars, jshard, ctxDone>>

\* Mutant: the loop over the shards runs one too far.
MJanitorOverrun ==
    /\ jpc = "sweep" /\ SweepLocked(jshard)
    /\ IF jshard < NumShards
       THEN jpc' = "lock" /\ jshard' = jshard + 1
       ELSE jpc' = "wait" /\ jshard' = jshard
    /\ UNCHANGED <<now, callVars, ctxDone>>
\* Mutant: it stops one short.
MJanitorShort ==
    /\ jpc = "sweep" /\ SweepLocked(jshard)
    /\ IF jshard + 2 < NumShards
       THEN jpc' = "lock" /\ jshard' = jshard + 1
       ELSE jpc' = "wait" /\ jshard' = jshard
    /\ UNCHANGED <<now, callVars, ctxDone>>
\* sweepLocked, Unlock, and on to the next shard.
JanitorSweep ==
    /\ jpc = "sweep" /\ SweepLocked(jshard)
    /\ IF jshard + 1 < NumShards
       THEN jpc' = "lock" /\ jshard' = jshard + 1
       ELSE jpc' = "wait" /\ jshard' = jshard
    /\ UNCHANGED <<now, callVars, ctxDone>>

Janitor == JanitorTick \/ JanitorStop \/ JanitorLock \/ JanitorSweep

----------------------------------------------------------------------------
(* The environment                                                          *)

Cancel ==
    /\ ~ctxDone /\ ctxDone' = TRUE
    /\ UNCHANGED <<now, entries, callVars, janitorVars>>

Tick ==
    /\ now < MaxTime /\ now' = now + 1
    /\ UNCHANGED <<entries, callVars, janitorVars, ctxDone>>

Next ==
    \/ \E c \in Callers, n \in Nonces :
          \/ \E b \in Bodies : CallPut(c, n, b)
          \/ CallConsume(c, n)
    \/ \E c \in Callers : PutStep(c) \/ ConsumeStep(c)
    \/ Janitor \/ Cancel \/ Tick

Spec == Init /\ [][Next]_vars

\* Goroutines that can run do run; a goroutine blocked on a mutex gets it in the
\* end even when it is contended (sync.Mutex hands over after 1ms of waiting).
Fairness ==
    /\ \A c \in Callers :
          /\ SF_vars(PutLock(c) \/ ConsumeLock(c))
          /\ WF_vars(PutStep(c) \/ ConsumeStep(c))
    /\ WF_vars(JanitorTick \/ JanitorSweep) /\ SF_vars(JanitorLock)

FairSpec == Spec /\ Fairness

----------------------------------------------------------------------------
(* The promise it keeps                                                     *)

\* Until the entry is deleted the table still holds it: an abstract Consume that
\* has not removed anything yet.
PhaseOf(p) ==
    CASE p \in {"putLocked", "putSwept", "putRoom"} -> "put"
      [] p \in {"consLocked", "found"} -> "consume"
      [] OTHER -> p
AbsPhase == [c \in Callers |-> PhaseOf(pc[c])]
AbsHeld == [c \in Callers |-> IF pc[c] = "found" THEN NoChallenge ELSE held[c]]

Pod == {"pod"}

Abs == INSTANCE NonceStore WITH
    Replicas <- Pod, Home <- [c \in Callers |-> "pod"], Slack <- 0,
    clock <- [r \in Pod |-> now], live <- entries,
    pc <- AbsPhase, held <- AbsHeld

\* The sharded, swept and capacity-bounded table does what nonce.Store promises:
\* no interleaving of calls, sweeps and clock ticks delivers a challenge twice,
\* after its expiry or altered, or drops one that is still good.
ImplementsStore == Abs!Spec

\* The capacity holds in every shard at every moment, so that a flood of
\* challenges cannot grow the heap (memory.go:15-17): no shard has more than its
\* share of maxEntries, or than one entry where that share is less than one.
ShardBounded ==
    \A s \in Shards :
        \/ Cardinality(InShard(s)) <= 1
        \/ Cardinality(InShard(s)) * NumShards <= MaxEntries

\* ErrFull is honest (memory.go:15-17, 56-57): a Put is refused only while its
\* shard holds its full share of challenges that were all still good when the Put
\* was called; entries that had expired by then never cost a sign-in, and an empty
\* shard has room for one however small maxEntries is.
RefusedOnlyWhenFull ==
    [][\A c \in Callers : pc[c] # "refused" /\ pc'[c] = "refused" =>
          LET kept == InShard(ShardOf[id[c]])
              called == held[c].expiresAt - ChallengeTTL
          IN  /\ kept # {} /\ (Cardinality(kept) + 1) * NumShards > MaxEntries
              /\ \A n \in kept : ~Expired(entries[n], called)]_vars

\* Every call returns, also while the janitor keeps taking the locks.
CallsReturn ==
    \A c \in Callers : pc[c] # "idle" ~> pc[c] \in {"stored", "refused", "got", "notfound"}

\* An expired entry nobody redeems is reclaimed, unless the process is told to
\* stop (memory.go:39-40).
ExpiredIsSwept ==
    \A n \in Nonces :
        (entries[n] # NoChallenge /\ Expired(entries[n], now))
            ~> (entries[n] = NoChallenge \/ ctxDone)

=============================================================================
