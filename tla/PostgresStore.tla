---------------------------- MODULE PostgresStore ----------------------------
(***************************************************************************)
(* nonce.Postgres: the challenge store several dauth replicas share, one    *)
(* row per nonce.  A call acquires a connection, sends one statement and    *)
(* waits for its answer; the connection may break at any point, the request *)
(* may be cancelled while its statement is under way, and a replica may be  *)
(* shut down or crash.                                                       *)
(*                                                                          *)
(* Source: internal/siwe/nonce/postgres.go, newStore and serveHTTP in       *)
(* cmd/dauth/main.go.  The database is modelled by the effect of each        *)
(* statement, which is atomic.                                               *)
(***************************************************************************)
EXTENDS ChallengeDefs

CONSTANTS
    Replicas,   \* the dauth processes
    Home,       \* the replica each call is made on
    Precision,  \* clock ticks in the database's unit of time (a microsecond)
    Faults      \* connections may break and requests may be cancelled

ASSUME PostgresAssumption ==
    /\ Home \in [Callers -> Replicas]
    /\ Precision \in Nat \ {0}
    /\ Faults \in BOOLEAN

VARIABLES
    clock,      \* p.now() of each replica
    rows,       \* table nonce_challenges
    pc,         \* phase of each call
    id,         \* its nonce argument
    held,       \* Put: its argument.  Consume: the row in the database's answer
    status,     \* "up", "draining" (ctx cancelled, pool closed) or "down"
    cutoff      \* argument of a replica's sweep that is under way, or NoSweep

callVars == <<pc, id, held>>
replicaVars == <<status, cutoff>>
vars == <<clock, rows, pc, id, held, status, cutoff>>

NoSweep == -1

InFlight == {"put", "putSent", "kept", "consume", "consumeSent", "took"}
Phases == InFlight \cup {"idle", "putLost", "stored", "refused",
                         "consumeLost", "got", "notfound", "failed"}

\* The column and the statements' arguments are TIMESTAMPTZ: whatever clock they
\* come from, times in the database are whole microseconds.
TypeOK ==
    /\ clock \in [Replicas -> Nat]
    /\ rows \in [Nonces -> MaybeChallenge]
    /\ \A n \in Nonces : rows[n] # NoChallenge => rows[n].expiresAt % Precision = 0
    /\ pc \in [Callers -> Phases]
    /\ id \in [Callers -> Nonces \cup {NoNonce}]
    /\ held \in [Callers -> MaybeChallenge]
    /\ status \in [Replicas -> {"up", "draining", "down"}]
    /\ cutoff \in [Replicas -> Nat \cup {NoSweep}]
    /\ \A r \in Replicas : cutoff[r] # NoSweep => cutoff[r] % Precision = 0

Init ==
    /\ clock = [r \in Replicas |-> 0]
    /\ rows = [n \in Nonces |-> NoChallenge]
    /\ pc = [c \in Callers |-> "idle"]
    /\ id = [c \in Callers |-> NoNonce]
    /\ held = [c \in Callers |-> NoChallenge]
    /\ status = [r \in Replicas |-> "up"]
    /\ cutoff = [r \in Replicas |-> NoSweep]

----------------------------------------------------------------------------
(* Calls                                                                    *)

\* Mutant: a column that keeps all the clock gives.
MTruncate(t) == t
Truncate(t) == t - (t % Precision)

Move(c, from, to) == pc[c] = from /\ pc' = [pc EXCEPT ![c] = to]

Running(c) == status[Home[c]] # "down"

PutPhases == {"put", "putSent", "putLost", "kept", "stored", "refused"}

Fresh(n) == \A c \in Callers : ~(pc[c] \in PutPhases /\ id[c] = n)

CallPut(c, n, b) ==
    /\ Fresh(n) /\ Running(c) /\ Move(c, "idle", "put")
    /\ id' = [id EXCEPT ![c] = n]
    /\ held' = [held EXCEPT
          ![c] = [body |-> b, expiresAt |-> clock[Home[c]] + ChallengeTTL]]
    /\ UNCHANGED <<clock, rows, replicaVars>>

CallConsume(c, n) ==
    /\ Running(c) /\ Move(c, "idle", "consume")
    /\ id' = [id EXCEPT ![c] = n]
    /\ UNCHANGED <<clock, rows, held, replicaVars>>

\* The pool hands out a connection and the statement goes out on it.
Send(c) ==
    /\ status[Home[c]] = "up"
    /\ Move(c, "put", "putSent") \/ Move(c, "consume", "consumeSent")
    /\ UNCHANGED <<clock, rows, id, held, replicaVars>>

\* Acquiring a connection fails once the pool is closed.
PoolClosed(c) ==
    /\ status[Home[c]] = "draining"
    /\ Move(c, "put", "refused") \/ Move(c, "consume", "failed")
    /\ UNCHANGED <<clock, rows, id, held, replicaVars>>

\* The call ends in an error: no connection, a broken connection, a request
\* cancelled by its client, or a process that is gone.  A statement already sent
\* may still be executed.
CallFails(c) ==
    /\ Faults \/ ~Running(c)
    /\ \/ Move(c, "put", "refused") \/ Move(c, "kept", "refused")
       \/ Move(c, "putSent", "putLost")
       \/ Move(c, "consume", "failed") \/ Move(c, "took", "failed")
       \/ Move(c, "consumeSent", "consumeLost")
    /\ UNCHANGED <<clock, rows, id, held, replicaVars>>

\* The database never sees the statement of a call that has failed.
StatementDropped(c) ==
    /\ Move(c, "putLost", "refused") \/ Move(c, "consumeLost", "failed")
    /\ UNCHANGED <<clock, rows, id, held, replicaVars>>

----------------------------------------------------------------------------
(* The statements                                                           *)

\* INSERT: TIMESTAMPTZ keeps microseconds.  Nonces are fresh, so the primary key
\* never rejects one.
Insert(c, from, to) ==
    /\ Move(c, from, to) /\ rows[id[c]] = NoChallenge
    /\ rows' = [rows EXCEPT ![id[c]] =
          [body |-> held[c].body, expiresAt |-> Truncate(held[c].expiresAt)]]
    /\ UNCHANGED <<clock, id, held, replicaVars>>

\* Mutant: SELECT instead of DELETE ... RETURNING.
MDelete(c, from, to) ==
    /\ Move(c, from, to) /\ rows[id[c]] # NoChallenge
    /\ held' = [held EXCEPT ![c] = rows[id[c]]]
    /\ UNCHANGED <<clock, rows, id, replicaVars>>
\* DELETE ... RETURNING of a row that exists.
Delete(c, from, to) ==
    /\ Move(c, from, to) /\ rows[id[c]] # NoChallenge
    /\ rows' = [rows EXCEPT ![id[c]] = NoChallenge]
    /\ held' = [held EXCEPT ![c] = rows[id[c]]]
    /\ UNCHANGED <<clock, id, replicaVars>>

Execute(c) ==
    \/ Insert(c, "putSent", "kept") \/ Insert(c, "putLost", "refused")
    \/ Delete(c, "consumeSent", "took") \/ Delete(c, "consumeLost", "failed")

----------------------------------------------------------------------------
(* The answers                                                              *)

PutReturn(c) ==
    /\ Running(c) /\ Move(c, "kept", "stored")
    /\ UNCHANGED <<clock, rows, id, held, replicaVars>>

\* pgx.ErrNoRows becomes ErrNotFound.
ConsumeNoRows(c) ==
    /\ Running(c) /\ Move(c, "consumeSent", "notfound") /\ rows[id[c]] = NoChallenge
    /\ UNCHANGED <<clock, rows, id, held, replicaVars>>

\* The row is gone before its expiry is looked at.
ConsumeReturn(c) ==
    /\ Running(c)
    /\ \/ Move(c, "took", "notfound") /\ Expired(held[c], clock[Home[c]])
       \/ Move(c, "took", "got") /\ ~Expired(held[c], clock[Home[c]])
    /\ UNCHANGED <<clock, rows, id, held, replicaVars>>

----------------------------------------------------------------------------
(* The janitor of each replica                                              *)

\* DELETE ... WHERE expires_at < $1 goes out with p.now().
JanitorSend(r) ==
    /\ status[r] = "up" /\ cutoff[r] = NoSweep
    /\ cutoff' = [cutoff EXCEPT ![r] = Truncate(clock[r])]
    /\ UNCHANGED <<clock, rows, callVars, status>>

\* Mutant: the comparison is the wrong way round.
MOverdue(n, t) == rows[n] # NoChallenge /\ rows[n].expiresAt > t
Overdue(n, t) == rows[n] # NoChallenge /\ rows[n].expiresAt < t

\* The sweep runs, possibly when its replica no longer does.
JanitorDelete(r) ==
    /\ cutoff[r] # NoSweep /\ cutoff' = [cutoff EXCEPT ![r] = NoSweep]
    /\ rows' = Sweep(rows, {n \in Nonces : Overdue(n, cutoff[r])})
    /\ UNCHANGED <<clock, callVars, status>>

\* A failed sweep is logged; the next tick tries again.
JanitorFails(r) ==
    /\ Faults \/ status[r] # "up"
    /\ cutoff[r] # NoSweep /\ cutoff' = [cutoff EXCEPT ![r] = NoSweep]
    /\ UNCHANGED <<clock, rows, callVars, status>>

----------------------------------------------------------------------------
(* The life of a replica                                                    *)

SetStatus(r, s) ==
    /\ status' = [status EXCEPT ![r] = s]
    /\ UNCHANGED <<clock, rows, callVars, cutoff>>

\* SIGTERM cancels ctx: the pool closes at once, while the HTTP server still
\* waits up to 10s for the requests it is serving.  Until the goroutine that closes
\* it has run, the store behaves as one that is up; Lifecycle has the two apart.
Shutdown(r) == status[r] = "up" /\ SetStatus(r, "draining")

\* The process ends, after its shutdown or by a crash.
Exit(r) ==
    /\ status[r] = "draining" \/ (Faults /\ status[r] = "up")
    /\ SetStatus(r, "down")

\* A new process takes its place; the calls of the old one are lost.
Restart(r) ==
    /\ status[r] = "down"
    /\ \A c \in Callers : Home[c] = r => pc[c] \notin InFlight
    /\ SetStatus(r, "up")

Tick(r) ==
    /\ clock[r] < MaxTime
    /\ clock' = [clock EXCEPT ![r] = @ + 1]
    /\ UNCHANGED <<rows, callVars, replicaVars>>

CallStep(c) ==
    \/ Send(c) \/ PoolClosed(c) \/ CallFails(c) \/ StatementDropped(c) \/ Execute(c)
    \/ PutReturn(c) \/ ConsumeNoRows(c) \/ ConsumeReturn(c)

ReplicaStep(r) ==
    \/ JanitorSend(r) \/ JanitorDelete(r) \/ JanitorFails(r)
    \/ Shutdown(r) \/ Exit(r) \/ Restart(r) \/ Tick(r)

Next ==
    \/ \E c \in Callers, n \in Nonces :
          \/ \E b \in Bodies : CallPut(c, n, b)
          \/ CallConsume(c, n)
    \/ \E c \in Callers : CallStep(c)
    \/ \E r \in Replicas : ReplicaStep(r)

Spec == Init /\ [][Next]_vars

\* The ticker of a running replica fires, and a database that is asked again and
\* again eventually executes a sweep.
FairSpec ==
    /\ Spec
    /\ \A r \in Replicas : WF_vars(JanitorSend(r)) /\ SF_vars(JanitorDelete(r))

----------------------------------------------------------------------------
(* The promise it keeps                                                     *)

PhaseOf(p) ==
    CASE p = "putSent" -> "put" [] p = "consumeSent" -> "consume" [] OTHER -> p
AbsPhase == [c \in Callers |-> PhaseOf(pc[c])]

Abs == INSTANCE NonceStore WITH
    Slack <- Precision - 1, live <- rows, pc <- AbsPhase

\* The table shared by the replicas does what nonce.Store promises
\* (postgres.go:19-24), with clocks that drift apart, answers lost after the row
\* was deleted, statements executed after their caller gave up, and replicas
\* stopping and coming back.
ImplementsStore == Abs!Spec

\* While some replica stays up, no row outlives its expiry for ever, whichever
\* replica issued it and however often sweeps fail (postgres.go:94-96).
OverdueIsSwept ==
    \A r \in Replicas : <>[](status[r] = "up") =>
        \A n \in Nonces : Overdue(n, Truncate(clock[r])) ~> rows[n] = NoChallenge

\* serveHTTP's comment: on cancellation it "shuts it down gracefully".  Without
\* any fault, a call that was accepted is carried out, not failed.
GracefulShutdown ==
    \A c \in Callers : Running(c) => pc[c] \notin {"refused", "failed"}

=============================================================================
