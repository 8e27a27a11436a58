-------------------------- MODULE LifecycleProofs --------------------------
(***************************************************************************)
(* A process serves only what it has validated, ends for a reason it reports,  *)
(* and cuts off nobody early: for any number of servers and requests and    *)
(* any set of configurations.                                                *)
(***************************************************************************)
EXTENDS Lifecycle, TLAPS

----------------------------------------------------------------------------
(* Types                                                                    *)

LEMMA TypedStep == TypeOK /\ [Next]_vars => TypeOK'
<1> SUFFICES ASSUME TypeOK, [Next]_vars PROVE TypeOK'
  OBVIOUS
<1> USE LifecycleAssumption DEF TypeOK, Phases, Results, ServerStates, RequestStates
<1>1. CASE Startup
  <2>1. CASE StartFails
    BY <2>1 DEF StartFails, Exit
  <2>2. CASE OpenStore
    BY <2>2 DEF OpenStore, UsePostgres, Advance
  <2>3. CASE LoadConfig \/ EnsureSchema \/ BuildExchange
    BY <2>3 DEF LoadConfig, EnsureSchema, BuildExchange, Advance
  <2> QED BY <1>1, <2>1, <2>2, <2>3 DEF Startup
<1>2. CASE Signal \/ ClosePool
  BY <1>2 DEF Signal, ClosePool
<1>3. CASE Wait
  BY <1>3 DEF Wait, Exit
<1>4. ASSUME NEW s \in Servers, GroupStep(s) PROVE TypeOK'
  BY <1>4 DEF GroupStep, Listen, CannotListen, Breaks, ReturnError, BeginStop, Drained, DrainTimesOut,
     ServerStep, SetServer
<1>5. ASSUME NEW q \in Requests, Accept(q) \/ Handle(q) PROVE TypeOK'
  BY <1>5 DEF Accept, Handle, Acquire, Refused, Panic, Recovering, Answer, SetRequest
<1>6. CASE UNCHANGED vars
  BY <1>6 DEF vars
<1> QED BY <1>1, <1>2, <1>3, <1>4, <1>5, <1>6 DEF Next

\* Every variable keeps its type in the states of the process's life.
THEOREM TypeCorrect == Spec => []TypeOK
<1>1. Init => TypeOK
  BY DEF Init, TypeOK, Phases, Results, ServerStates, RequestStates
<1> QED BY <1>1, TypedStep, PTL DEF Spec

----------------------------------------------------------------------------
(* The invariant                                                            *)

\* What run has checked by the time it has come to a phase.
Checked ==
    /\ phase \in {"store", "schema", "exchange", "serve"} =>
          LoadSignIn(env) /\ LoadExchange(env) /\ LoadKeys(env, "SIWE_SIGNING_KEYS")
    /\ phase \in {"schema", "exchange", "serve"} => WellFormed(env, {"RPC_URL"})
    /\ phase = "serve" => CreateServers(env)

\* Nothing runs before the servers, and the result is there when main has ended.
Order ==
    /\ result # "none" => phase = "exited"
    /\ phase \in {"config", "store", "schema", "exchange"} =>
          /\ \A s \in Servers : server[s] = "off"
          /\ \A q \in Requests : request[q] = "new"
    /\ \A q \in Requests : request[q] = "cut" => phase = "exited"

\* Servers listen where they can, stop because of the signal or of the error of the
\* server the group keeps, and one that stopped with requests left ran out of time.
Stops ==
    /\ \A s \in Servers : server[s] = "failed" => failed # NoServer
    /\ failed # NoServer => server[failed] = "failed"
    /\ \A s \in Servers : server[s] \in {"stopping", "stopped"} => Cancelled
    /\ \A s \in Servers : server[s] = "up" => Listenable(env, AddressOf[s])
    /\ \A q \in InFlight : server[ServerOf[q]] = "stopped" => ServerOf[q] \in overdue
    /\ GRPC \notin overdue
    /\ pool = "closed" => signalled

IInv ==
    /\ TypeOK /\ Checked /\ Order /\ Stops
    /\ ServesOnlyValidated /\ ExitTellsWhy /\ NothingCutEarly /\ StoreOutlivesFailure

\* What run has looked at by the time it serves is all that Validated asks for.
LEMMA CheckedValidates ==
    ASSUME TypeOK, Checked, phase = "serve"
    PROVE  Validated(env)
<1>1. Present(env, SignInRequired \cup ExchangeRequired \cup {"EXCHANGE_SIGNING_KEYS"})
  BY DEF Checked, LoadSignIn, LoadExchange, CreateServers, LoadKeys, Present
<1>2. WellFormed(env, SignInParsed \cup ExchangeParsed \cup ParsedInUse)
  BY DEF Checked, LoadSignIn, LoadExchange, CreateServers, LoadKeys, WellFormed, ParsedInUse
<1> QED BY <1>1, <1>2 DEF Validated

LEMMA InitIInv == Init => IInv
BY LifecycleAssumption DEF Init, IInv, TypeOK, Phases, Results, ServerStates, RequestStates,
   Checked, Order, Stops, InFlight, ServesOnlyValidated, ExitTellsWhy, NothingCutEarly,
   StoreOutlivesFailure

\* run, up to the servers.
LEMMA StartupKeepsIInv == IInv /\ Startup => IInv'
<1> SUFFICES ASSUME IInv, Startup PROVE IInv'
  OBVIOUS
<1> USE DEF IInv
<1>0. TypeOK'
  BY TypedStep DEF Next
<1>1. phase # "serve" /\ phase # "exited" /\ InFlight = {}
  BY DEF Startup, LoadConfig, OpenStore, EnsureSchema, BuildExchange, StartFails, Advance,
     Order, InFlight
<1>2. /\ \A q \in Requests : request[q] = "new"
      /\ \A s \in Servers : server[s] = "off"
  BY <1>1 DEF Order, TypeOK, Phases
<1>3. CASE StartFails
  <2>1. request' = request
    BY <1>0, <1>1, <1>3 DEF StartFails, Exit, TypeOK
  <2> QED
    BY <1>0, <1>2, <1>3, <2>1 DEF StartFails, Exit, Checked, Order, Stops, InFlight, Cancelled,
       ServesOnlyValidated, ExitTellsWhy, NothingCutEarly, StoreOutlivesFailure
<1>4. CASE LoadConfig \/ OpenStore \/ EnsureSchema \/ BuildExchange
  <2>1. /\ UNCHANGED <<env, result, signalled, failed, overdue, request>>
        /\ phase' \in {"store", "schema", "exchange", "serve"}
        /\ pool' \in {pool, "open"}
        /\ \/ server' = server
           \/ phase' = "serve" /\ server' = [s \in Servers |-> "starting"]
    BY <1>4 DEF LoadConfig, OpenStore, EnsureSchema, BuildExchange, Advance
  <2>2. Checked'
    BY <1>4, <2>1 DEF LoadConfig, OpenStore, EnsureSchema, BuildExchange, Advance, Checked
  <2>3. Order' /\ Stops'
    <3>1. failed = NoServer
      BY <1>2 DEF Stops, TypeOK
    <3> QED BY <1>1, <1>2, <2>1, <3>1 DEF Order, Stops, InFlight, Cancelled
  <2>4. result = "none"
    BY <1>1 DEF TypeOK
  <2>5. ExitTellsWhy'
    BY <2>1, <2>4 DEF ExitTellsWhy
  <2>6. ServesOnlyValidated' /\ NothingCutEarly' /\ StoreOutlivesFailure'
    BY <1>2, <2>1 DEF ServesOnlyValidated, NothingCutEarly, StoreOutlivesFailure
  <2> QED BY <1>0, <2>2, <2>3, <2>5, <2>6
<1> QED BY <1>3, <1>4 DEF Startup

\* The servers and the goroutines of the group.
LEMMA GroupKeepsIInv == ASSUME IInv, NEW s \in Servers, GroupStep(s) PROVE IInv'
<1> USE LifecycleAssumption DEF IInv
<1>0. TypeOK'
  BY TypedStep DEF Next
<1>1. PICK from, to \in ServerStates \ {"off"} :
          /\ phase = "serve" /\ server[s] = from /\ server' = [server EXCEPT ![s] = to]
          /\ from # "failed" /\ from # "stopped"
          /\ to = "failed" => failed' = IF failed = NoServer THEN s ELSE failed
          /\ to # "failed" => failed' = failed
          /\ to = "up" => Listenable(env, AddressOf[s])
          /\ to = "stopping" => Cancelled
          /\ to = "stopped" => from = "stopping"
          /\ to = "stopped" => Serving(s) = {} \/ (s # GRPC /\ overdue' = overdue \cup {s})
          /\ overdue' \in {overdue, overdue \cup {s}}
          /\ overdue' # overdue => s # GRPC
  BY DEF GroupStep, Listen, CannotListen, Breaks, ReturnError, BeginStop, Drained, DrainTimesOut,
     ServerStep, SetServer, TypeOK, ServerStates
<1>2. UNCHANGED <<env, phase, result, signalled, pool, request>>
  BY DEF GroupStep, Listen, CannotListen, Breaks, ReturnError, BeginStop, Drained, DrainTimesOut,
     ServerStep
<1>3. InFlight' = InFlight /\ (Cancelled => Cancelled')
  BY <1>1, <1>2 DEF InFlight, Cancelled
<1>4. Checked' /\ Order'
  BY <1>1, <1>2 DEF Checked, Order
<1>5. Stops'
  <2>1. \A t \in Servers : server'[t] = "failed" => failed' # NoServer
    BY <1>1 DEF Stops, TypeOK
  <2>2. \A t \in Servers : server'[t] \in {"stopping", "stopped"} => Cancelled'
    BY <1>1, <1>3 DEF Stops, TypeOK
  <2>3. \A q \in InFlight' : server'[ServerOf[q]] = "stopped" => ServerOf[q] \in overdue'
    BY <1>1, <1>3 DEF Stops, TypeOK, Serving, InFlight
  <2>4. failed' # NoServer => server'[failed'] = "failed"
    BY <1>1 DEF Stops, TypeOK
  <2>5. \A t \in Servers : server'[t] = "up" => Listenable(env', AddressOf[t])
    BY <1>1, <1>2 DEF Stops, TypeOK, Listenable
  <2> QED BY <1>1, <1>2, <2>1, <2>2, <2>3, <2>4, <2>5 DEF Stops
<1>6. ExitTellsWhy' /\ NothingCutEarly'
  BY <1>1, <1>2 DEF ExitTellsWhy, NothingCutEarly, Order
<1> QED
  BY <1>0, <1>2, <1>4, <1>5, <1>6 DEF ServesOnlyValidated, StoreOutlivesFailure

\* The requests.
LEMMA RequestsKeepIInv ==
    ASSUME IInv, NEW q \in Requests, Accept(q) \/ Handle(q)
    PROVE  IInv'
<1> USE LifecycleAssumption DEF IInv
<1>0. TypeOK'
  BY TypedStep DEF Next
<1>1. PICK to \in {"accepted", "query", "answered", "refused"} :
          /\ phase = "serve" /\ request' = [request EXCEPT ![q] = to]
          /\ to = "refused" => signalled
          /\ q \in InFlight \/ server[ServerOf[q]] = "up"
  BY DEF Accept, Handle, Acquire, Refused, Panic, Recovering, Answer, SetRequest, InFlight,
     Stops
<1>2. UNCHANGED <<env, phase, result, signalled, pool, server, failed, overdue>>
  BY DEF Accept, Handle, Acquire, Refused, Panic, Recovering, Answer, SetRequest
<1>3. Checked' /\ Order' /\ ExitTellsWhy'
  BY <1>1, <1>2 DEF Checked, Order, ExitTellsWhy, TypeOK
<1>4. Stops'
  BY <1>1, <1>2 DEF Stops, InFlight, TypeOK, Cancelled
<1>5. ServesOnlyValidated'
  <2>1. Validated(env)
    BY <1>1, CheckedValidates
  <2>2. request[q] # "new" \/ Listenable(env, AddressOf[ServerOf[q]])
    BY <1>1 DEF InFlight, Stops
  <2> QED BY <1>1, <1>2, <2>1, <2>2 DEF ServesOnlyValidated, TypeOK
<1>6. NothingCutEarly' /\ StoreOutlivesFailure'
  BY <1>1, <1>2 DEF NothingCutEarly, StoreOutlivesFailure, TypeOK
<1> QED BY <1>0, <1>3, <1>4, <1>5, <1>6

\* main ends.
LEMMA WaitKeepsIInv == IInv /\ Wait => IInv'
<1> SUFFICES ASSUME IInv, Wait PROVE IInv'
  OBVIOUS
<1> USE LifecycleAssumption DEF IInv
<1>0. TypeOK'
  BY TypedStep DEF Next
<1>1. /\ phase = "serve" /\ phase' = "exited"
      /\ \A s \in Servers : server[s] \in {"stopped", "failed"}
      /\ result' = IF failed = NoServer THEN "ok" ELSE "error"
      /\ UNCHANGED <<env, signalled, pool, server, failed, overdue>>
      /\ \A q \in Requests : request'[q] = IF q \in InFlight THEN "cut" ELSE request[q]
  BY DEF Wait, Exit
<1>2. Checked' /\ Order'
  BY <1>1 DEF Checked, Order
<1>3. InFlight' = {}
  BY <1>1 DEF InFlight
<1>4. Stops'
  BY <1>1, <1>3 DEF Stops, Cancelled
<1>5. ExitTellsWhy'
  BY <1>1 DEF ExitTellsWhy, Stops, Cancelled, TypeOK
<1>6. NothingCutEarly'
  BY <1>1 DEF NothingCutEarly, Stops, InFlight, TypeOK, Order
<1>7. ServesOnlyValidated' /\ StoreOutlivesFailure'
  BY <1>1 DEF ServesOnlyValidated, StoreOutlivesFailure, InFlight, TypeOK
<1> QED BY <1>0, <1>2, <1>4, <1>5, <1>6, <1>7

\* Every step keeps the invariant.
LEMMA IInvStep == IInv /\ [Next]_vars => IInv'
<1> SUFFICES ASSUME IInv, [Next]_vars PROVE IInv'
  OBVIOUS
<1>1. CASE Signal \/ ClosePool
  <2>1. TypeOK'
    BY <1>1, TypedStep DEF IInv, Next
  <2>2. /\ UNCHANGED <<env, phase, result, server, failed, overdue, request>>
        /\ phase # "exited"
    BY <1>1 DEF Signal, ClosePool, IInv, Stops
  <2>3. /\ signalled => signalled'
        /\ pool' = "closed" => signalled'
    BY <1>1 DEF Signal, ClosePool, IInv, Stops
  <2>4. Stops' /\ ExitTellsWhy' /\ StoreOutlivesFailure'
    BY <2>2, <2>3 DEF IInv, Stops, InFlight, Cancelled, ExitTellsWhy, StoreOutlivesFailure
  <2> QED
    BY <2>1, <2>2, <2>4 DEF IInv, Checked, Order, ServesOnlyValidated, NothingCutEarly
<1>2. CASE UNCHANGED vars
  BY <1>2, TypedStep DEF vars, IInv, Checked, Order, Stops, InFlight, Cancelled,
     ServesOnlyValidated, ExitTellsWhy, NothingCutEarly, StoreOutlivesFailure
<1> QED
  BY <1>1, <1>2, StartupKeepsIInv, GroupKeepsIInv, RequestsKeepIInv, WaitKeepsIInv DEF Next

THEOREM Invariance == Spec => []IInv
BY InitIInv, IInvStep, PTL DEF Spec

\* A request is accepted only where every required setting is present, every parsed
\* one is well formed and the server that accepts it could listen at its address;
\* settings that nothing looks at, and the addresses of other servers, may be wrong.
THEOREM ValidatedServed == Spec => []ServesOnlyValidated
<1>1. IInv => ServesOnlyValidated
  BY DEF IInv
<1> QED BY <1>1, Invariance, PTL

\* run returns nil only when it was asked to stop and no server failed, and once it
\* serves it ends with an error only when one did.
THEOREM ExitReported == Spec => []ExitTellsWhy
<1>1. IInv => ExitTellsWhy
  BY DEF IInv
<1> QED BY <1>1, Invariance, PTL

\* An accepted request is cut off only after its own server's drain time-out or
\* death.
THEOREM Drains == Spec => []NothingCutEarly
<1>1. IInv => NothingCutEarly
  BY DEF IInv
<1> QED BY <1>1, Invariance, PTL

\* Only a signal takes the store away from accepted requests.
THEOREM StoreStays == Spec => []StoreOutlivesFailure
<1>1. IInv => StoreOutlivesFailure
  BY DEF IInv
<1> QED BY <1>1, Invariance, PTL

=============================================================================
