----------------------------- MODULE Lifecycle -----------------------------
(***************************************************************************)
(* The life of one dauth process: the steps of run, the three servers in    *)
(* their error group, the requests they serve, the connection pool, and the *)
(* signal that ends it all.                                                  *)
(*                                                                          *)
(* Source: cmd/dauth/main.go, internal/ops/ops.go, internal/httpmw/         *)
(* middleware.go, internal/exchange/app/app.go.                              *)
(*                                                                          *)
(* There are two contexts.  ctx ends with the signal; the group's own ends  *)
(* with the signal or with the first server that fails.  The servers stop   *)
(* on the second, the pool is closed on the first.                           *)
(***************************************************************************)
EXTENDS Config

CONSTANTS
    Environments,   \* the configurations the process may be started with
    Servers,        \* the public and the ops server, and the gRPC server
    GRPC,           \* the gRPC server, which is stopped without a time-out
    AddressOf,      \* the setting that says where each server listens
    Requests,       \* HTTP requests and gRPC calls
    ServerOf,       \* the server each one is for
    UsesStore,      \* those that need a connection of the challenge store
    NoServer

ASSUME LifecycleAssumption ==
    /\ Environments \subseteq Environment
    /\ GRPC \in Servers /\ NoServer \notin Servers
    /\ AddressOf \in [Servers -> Addresses]
    /\ ServerOf \in [Requests -> Servers]
    /\ UsesStore \subseteq Requests

VARIABLES
    env,        \* the configuration, fixed
    phase,      \* where run is
    result,     \* what run returned
    signalled,  \* SIGINT or SIGTERM has been received
    pool,       \* the Postgres connection pool
    server,     \* each server and the goroutine of the group that runs it
    failed,     \* the server whose error the group keeps, or NoServer
    overdue,    \* history: servers whose drain time-out ran out
    request     \* each request

vars == <<env, phase, result, signalled, pool, server, failed, overdue, request>>

Phases == {"config", "store", "schema", "exchange", "serve", "exited"}
Results == {"none", "ok", "error"}
ServerStates == {"off", "starting", "up", "broken", "stopping", "stopped", "failed"}
RequestStates == {"new", "accepted", "query", "answered", "refused", "cut"}

\* There is a result when main has ended, and a pool only where there is a DSN.
TypeOK ==
    /\ env \in Environments
    /\ phase \in Phases
    /\ result \in Results /\ (result = "none" <=> phase # "exited")
    /\ signalled \in BOOLEAN
    /\ pool \in {"none", "open", "closed"} /\ (env["DATABASE_URL"] = "unset" => pool = "none")
    /\ server \in [Servers -> ServerStates]
    /\ failed \in Servers \cup {NoServer}
    /\ overdue \subseteq Servers
    /\ request \in [Requests -> RequestStates]

Init ==
    /\ env \in Environments
    /\ phase = "config"
    /\ result = "none"
    /\ signalled = FALSE
    /\ pool = "none"
    /\ server = [s \in Servers |-> "off"]
    /\ failed = NoServer
    /\ overdue = {}
    /\ request = [q \in Requests |-> "new"]

----------------------------------------------------------------------------
(* Helpers                                                                  *)

InFlight == {q \in Requests : request[q] \in {"accepted", "query"}}
Serving(s) == {q \in InFlight : ServerOf[q] = s}

\* The context of the group.
Cancelled == signalled \/ failed # NoServer

\* main ends: what is still being served is cut off.
Exit(outcome) ==
    /\ phase' = "exited" /\ result' = outcome
    /\ request' = [q \in Requests |-> IF q \in InFlight THEN "cut" ELSE request[q]]
    /\ UNCHANGED <<env, signalled, pool, server, failed, overdue>>

Advance(from, to) ==
    /\ phase = from /\ phase' = to
    /\ UNCHANGED <<env, result, signalled, failed, overdue, request>>

SetServer(s, to) == server' = [server EXCEPT ![s] = to]
SetRequest(q, to) ==
    /\ phase = "serve" /\ request' = [request EXCEPT ![q] = to]
    /\ UNCHANGED <<env, phase, result, signalled, pool, server, failed, overdue>>

----------------------------------------------------------------------------
(* run, up to the servers                                                   *)

LoadConfig ==
    /\ Advance("config", "store")
    /\ LoadSignIn(env) /\ LoadExchange(env) /\ LoadKeys(env, "SIWE_SIGNING_KEYS")
    /\ UNCHANGED <<pool, server>>

\* buildSIWE, up to the pool that answers a ping.
OpenStore ==
    /\ WellFormed(env, {"RPC_URL"})
    /\ \/ ~UsePostgres(env) /\ Advance("store", "exchange") /\ UNCHANGED pool
       \/ UsePostgres(env) /\ Advance("store", "schema") /\ pool' = "open"
    /\ UNCHANGED server

\* NewPostgres.
EnsureSchema ==
    /\ pool = "open" /\ Advance("schema", "exchange")
    /\ UNCHANGED <<pool, server>>

\* The servers start together, each in a goroutine of the group.
BuildExchange ==
    /\ CreateServers(env) /\ Advance("exchange", "serve")
    /\ server' = [s \in Servers |-> "starting"]
    /\ UNCHANGED pool

\* What is not well formed, and a database that does not answer or a signal that
\* cancels the call to it, end run with an error.
StartFails ==
    /\ \/ phase = "config"
          /\ ~(LoadSignIn(env) /\ LoadExchange(env) /\ LoadKeys(env, "SIWE_SIGNING_KEYS"))
       \/ phase = "store" /\ ~WellFormed(env, {"RPC_URL"})
       \/ phase \in {"store", "schema"} /\ UsePostgres(env)
       \/ phase = "exchange" /\ ~CreateServers(env)
    /\ Exit("error")

Startup == LoadConfig \/ OpenStore \/ EnsureSchema \/ BuildExchange \/ StartFails

----------------------------------------------------------------------------
(* Signals and the pool                                                     *)

\* signal.NotifyContext cancels ctx.
Signal ==
    /\ phase # "exited" /\ ~signalled /\ signalled' = TRUE
    /\ UNCHANGED <<env, phase, result, pool, server, failed, overdue, request>>

\* Mutant: the pool follows the group's context.
MClosePool ==
    /\ Cancelled /\ phase # "exited" /\ pool = "open" /\ pool' = "closed"
    /\ UNCHANGED <<env, phase, result, signalled, server, failed, overdue, request>>
\* go func() { <-ctx.Done(); pool.Close() }
ClosePool ==
    /\ signalled /\ phase # "exited" /\ pool = "open" /\ pool' = "closed"
    /\ UNCHANGED <<env, phase, result, signalled, server, failed, overdue, request>>

----------------------------------------------------------------------------
(* The servers                                                              *)

\* A step of server s and its goroutine, from one of the states in from.
ServerStep(s, from, to) ==
    /\ phase = "serve" /\ server[s] \in from /\ SetServer(s, to)
    /\ UNCHANGED <<env, phase, result, signalled, pool, request>>

Listen(s) ==
    /\ Listenable(env, AddressOf[s]) /\ ServerStep(s, {"starting"}, "up")
    /\ UNCHANGED <<failed, overdue>>

\* ListenAndServe cannot listen, because of the address or because it is taken,
\* and returns an error into errCh.
CannotListen(s) ==
    /\ s # GRPC /\ ServerStep(s, {"starting"}, "broken")
    /\ UNCHANGED <<failed, overdue>>

\* ListenAndServe or Serve returns an error into errCh.
Breaks(s) == ServerStep(s, {"up"}, "broken") /\ UNCHANGED <<failed, overdue>>

\* Mutant: the error is lost.
MReturnError(s) ==
    /\ ServerStep(s, IF s = GRPC THEN {"starting", "broken"} ELSE {"broken"}, "failed")
    /\ UNCHANGED <<failed, overdue>>
\* The goroutine returns the error of errCh, or of net.Listen; the group keeps the
\* first one and cancels its context.
ReturnError(s) ==
    /\ ServerStep(s, IF s = GRPC THEN {"starting", "broken"} ELSE {"broken"}, "failed")
    /\ failed' = IF failed = NoServer THEN s ELSE failed
    /\ UNCHANGED overdue

\* ctx.Done: Shutdown or GracefulStop.  When errCh is ready too, select takes
\* either.  The gRPC server listens before it looks at its context.
BeginStop(s) ==
    /\ Cancelled
    /\ ServerStep(s, (IF s = GRPC THEN {} ELSE {"starting"}) \cup {"up", "broken"},
                  "stopping")
    /\ UNCHANGED <<failed, overdue>>

\* Mutant: Shutdown is started and not waited for.
MDrained(s) == ServerStep(s, {"stopping"}, "stopped") /\ UNCHANGED <<failed, overdue>>
\* Everything the server accepted has been answered.
Drained(s) ==
    /\ Serving(s) = {} /\ ServerStep(s, {"stopping"}, "stopped")
    /\ UNCHANGED <<failed, overdue>>

\* Mutant: Shutdown waits for as long as it takes.
MDrainTimesOut(s) == FALSE
\* Shutdown gives up after 10 s and serveHTTP returns nil; GracefulStop does not.
DrainTimesOut(s) ==
    /\ s # GRPC /\ Serving(s) # {} /\ ServerStep(s, {"stopping"}, "stopped")
    /\ overdue' = overdue \cup {s}
    /\ UNCHANGED failed

\* group.Wait waits for every goroutine and returns the first error.
Wait ==
    /\ phase = "serve" /\ \A s \in Servers : server[s] \in {"stopped", "failed"}
    /\ Exit(IF failed = NoServer THEN "ok" ELSE "error")

----------------------------------------------------------------------------
(* The requests                                                             *)

Accept(q) ==
    /\ request[q] = "new" /\ server[ServerOf[q]] = "up"
    /\ SetRequest(q, "accepted")

\* A connection of the pool; the in-memory store needs none.
Acquire(q) ==
    /\ q \in UsesStore /\ request[q] = "accepted" /\ pool # "closed"
    /\ SetRequest(q, "query")

\* The pool is closed: the handler answers that the store failed.
Refused(q) ==
    /\ q \in UsesStore /\ request[q] = "accepted" /\ pool = "closed"
    /\ SetRequest(q, "refused")

\* Mutant: the gRPC server is built without its recovery interceptor.
MRecovering == Servers \ {GRPC}
\* The servers that recover from a panic of a handler: Recover is around the
\* public handler, net/http does it for the ops server, and the interceptor of
\* createGRPCServer for the gRPC server, which by itself would not.
Recovering == Servers

\* A handler panics.  Where nothing recovers, that is the end of the process.
Panic(q) ==
    /\ q \in InFlight
    /\ IF ServerOf[q] \in Recovering
       THEN SetRequest(q, "answered")
       ELSE phase = "serve" /\ Exit("error")

Answer(q) ==
    /\ request[q] = "query" \/ (q \notin UsesStore /\ request[q] = "accepted")
    /\ SetRequest(q, "answered")

Handle(q) == Acquire(q) \/ Refused(q) \/ Panic(q) \/ Answer(q)

----------------------------------------------------------------------------
GroupStep(s) ==
    \/ Listen(s) \/ CannotListen(s) \/ Breaks(s) \/ ReturnError(s)
    \/ BeginStop(s) \/ Drained(s) \/ DrainTimesOut(s)

Next ==
    \/ Startup \/ Signal \/ ClosePool \/ Wait
    \/ \E s \in Servers : GroupStep(s)
    \/ \E q \in Requests : Accept(q) \/ Handle(q)

Spec == Init /\ [][Next]_vars

\* Goroutines run, listening succeeds or fails, and the 10 s pass.  No handler, of
\* HTTP or gRPC, needs to come to an end: nothing in the process bounds it.
FairSpec ==
    /\ Spec
    /\ WF_vars(Startup) /\ WF_vars(Wait)
    /\ \A s \in Servers :
          /\ WF_vars(Listen(s) \/ CannotListen(s)) /\ WF_vars(ReturnError(s))
          /\ WF_vars(BeginStop(s)) /\ WF_vars(Drained(s)) /\ WF_vars(DrainTimesOut(s))

----------------------------------------------------------------------------
(* What the process guarantees                                              *)

\* What stands of "a misconfigured deployment never starts" (config.go:1-4): at
\* whichever step of the start it is looked at, a required setting that is missing
\* or a parsed one that is malformed lets no request be accepted, and a server
\* accepts none under an address of its own that cannot be right.  The rest of the
\* claim is not so: an unchecked setting is served as it is, and a server whose
\* address is right accepts requests until another one has failed to listen.
ServesOnlyValidated ==
    \A q \in Requests : request[q] # "new" =>
        Validated(env) /\ Listenable(env, AddressOf[ServerOf[q]])

\* run returns nil only when it was asked to stop, and never when a server's error
\* reached the group (main.go:66-71, 142): a server that dies is not taken for an
\* orderly end by whatever restarts the process.  Once it serves, it ends with an
\* error only because of a server: the panic of a handler is not enough
\* (middleware.go:22-24, app.go:151-153).
ExitTellsWhy ==
    /\ result = "ok" => signalled /\ \A s \in Servers : server[s] # "failed"
    /\ result = "error" /\ (\E s \in Servers : server[s] # "off") =>
          \E s \in Servers : server[s] = "failed"

\* A request that was accepted is cut off only after its own server's 10 s or
\* when its own server has died (main.go:242-264): not by the end of another one,
\* by another one's panic or time-out, and no gRPC call by an orderly stop.
NothingCutEarly ==
    \A q \in Requests : request[q] = "cut" =>
        \/ ServerOf[q] \in overdue /\ ServerOf[q] # GRPC
        \/ server[ServerOf[q]] = "failed"

\* A server that dies takes the others down, but not the store from under the
\* requests they still drain (main.go:131, 226-230): only a signal closes the pool.
StoreOutlivesFailure == \A q \in Requests : request[q] = "refused" => signalled

\* A server that can never listen is not left out in silence (main.go:132-134, 246,
\* 268): its error ends the group, whatever the others are serving by then.
WrongAddressIsFatal ==
    (phase = "serve" /\ \E s \in Servers : ~Listenable(env, AddressOf[s]))
        ~> (failed # NoServer \/ signalled)

\* Nothing is left to wait for but gRPC calls.
WaitsForCalls ==
    /\ phase = "serve" /\ server[GRPC] = "stopping" /\ Serving(GRPC) # {}
    /\ \A s \in Servers \ {GRPC} : server[s] \in {"stopped", "failed"}

\* Once it is told to stop, or one of its servers has died, the process ends, even
\* when HTTP handlers hang (main.go:257-264).  Only a gRPC call that never ends can
\* keep it, for GracefulStop has no time-out (main.go:284), and then nothing else
\* does.
EndsWhenAsked ==
    (signalled \/ \E s \in Servers : server[s] = "broken")
        ~> (phase = "exited" \/ []WaitsForCalls)

=============================================================================
