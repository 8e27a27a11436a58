-------------------------- MODULE TemplateService ---------------------------
(***************************************************************************)
(* GetTemplatePermissions: what a permission template asks for on a         *)
(* contract, and whether it is active. The template's agreements are read    *)
(* from the chain and IPFS once, checked against the owner's signature and   *)
(* kept in a map under an RWMutex for as long as the process lives; the      *)
(* activation is asked of the chain on every call.                           *)
(*                                                                          *)
(* Source: internal/exchange/services/template/template.go.                  *)
(*                                                                          *)
(* The code keeps agreements without a way to forget them, so it takes what  *)
(* a template's source holds as fixed, and so does Published; who accepts a   *)
(* signature and what is active may change between any two steps.            *)
(***************************************************************************)
EXTENDS AccessEval

CONSTANTS
    Calls,              \* calls of GetTemplatePermissions
    TemplateID,         \* the template each call is about
    Contract,           \* and the contract of its asset
    Published,          \* agreements of each template with a document
    NoResult,
    MaxChanges

VARIABLES
    stage,      \* where each call is
    cache,      \* Service.cache: agreements by template
    result,     \* PermissionsResult of each call
    accepts,    \* templates whose owner's account accepts the signature now
    active,     \* templates active on chain now
    changes,    \* number of changes of accepts and active so far
    accepted,   \* history: templates ever found or left acceptable
    seen        \* history: what accepts and active were during each call

vars == <<stage, cache, result, accepts, active, changes, accepted, seen>>
chain == <<accepts, active, changes, accepted>>

Templates == DOMAIN Published

ASSUME TemplateAssumption ==
    /\ DOMAIN TemplateID = Calls /\ DOMAIN Contract = Calls
    /\ MaxChanges \in Nat

Stages == {"idle", "lookup", "source", "fetch", "signature", "fill", "status", "done", "failed"}

Init ==
    /\ stage = [c \in Calls |-> "idle"]
    /\ cache = [t \in {} |-> {}]
    /\ result = [c \in Calls |-> NoResult]
    /\ accepts \in SUBSET Templates /\ active \in SUBSET Templates
    /\ changes = 0 /\ accepted = accepts
    /\ seen = [c \in Calls |-> {}]

Now == [accepts |-> accepts, active |-> active]
Goto(c, next) == stage' = [stage EXCEPT ![c] = next]
At(c, place) == stage[c] = place
Running(c) == stage[c] \notin {"idle", "done", "failed"}

Change ==
    /\ changes < MaxChanges
    /\ changes' = changes + 1
    /\ accepts' \in SUBSET Templates /\ active' \in SUBSET Templates
    /\ accepted' = accepted \cup accepts'
    /\ seen' = [c \in Calls |-> IF Running(c) THEN seen[c] \cup {Now'} ELSE seen[c]]
    /\ UNCHANGED <<stage, cache, result>>

Call(c) ==
    /\ At(c, "idle") /\ Goto(c, "lookup")
    /\ seen' = [seen EXCEPT ![c] = {Now}]
    /\ UNCHANGED <<cache, result, chain>>

Extract(c, agreements) == TemplatePermissions(agreements, Contract[c])

\* Mutant: the chain is asked also about a template without permissions.
MStatusOf(c, agreements) == Goto(c, "status") /\ UNCHANGED result
\* getTemplatePermissionsAndStatus begins: a template that says nothing about
\* the contract is not active, whatever the chain says.
StatusOf(c, agreements) ==
    IF Extract(c, agreements) = {}
    THEN Goto(c, "done") /\ result' = [result EXCEPT ![c] = [permissions |-> {}, isActive |-> FALSE]]
    ELSE Goto(c, "status") /\ UNCHANGED result

Hit(c) ==
    /\ At(c, "lookup") /\ TemplateID[c] \in DOMAIN cache
    /\ StatusOf(c, cache[TemplateID[c]])
    /\ UNCHANGED <<cache, chain, seen>>

Miss(c) ==
    /\ At(c, "lookup") /\ TemplateID[c] \notin DOMAIN cache
    /\ Goto(c, "source")
    /\ UNCHANGED <<cache, result, chain, seen>>

SourceAnswers(c) ==
    /\ At(c, "source") /\ Goto(c, "fetch")
    /\ UNCHANGED <<cache, result, chain, seen>>

\* A template that is not on chain has no source, and the fetch of none fails.
FetchAnswers(c) ==
    /\ At(c, "fetch")
    /\ Goto(c, IF TemplateID[c] \in Templates THEN "signature" ELSE "failed")
    /\ UNCHANGED <<cache, result, chain, seen>>

\* Mutant: the verdict on the owner's signature is not looked at.
MSignatureAnswers(c) ==
    /\ At(c, "signature") /\ Goto(c, "fill")
    /\ UNCHANGED <<cache, result, chain, seen>>
SignatureAnswers(c) ==
    /\ At(c, "signature")
    /\ Goto(c, IF TemplateID[c] \in accepts THEN "fill" ELSE "failed")
    /\ UNCHANGED <<cache, result, chain, seen>>

\* The lock is free: a call that looked before another filled fills again.
Fill(c) ==
    /\ At(c, "fill")
    /\ cache' = [t \in DOMAIN cache \cup {TemplateID[c]} |->
                    IF t = TemplateID[c] THEN Published[t] ELSE cache[t]]
    /\ StatusOf(c, Published[TemplateID[c]])
    /\ UNCHANGED <<chain, seen>>

\* Mutant: a template in the cache is taken to be active.
MStatusAnswers(c) ==
    /\ At(c, "status") /\ Goto(c, "done")
    /\ result' = [result EXCEPT ![c] = [permissions |-> Extract(c, cache[TemplateID[c]]), isActive |-> TRUE]]
    /\ UNCHANGED <<cache, chain, seen>>
StatusAnswers(c) ==
    /\ At(c, "status") /\ Goto(c, "done")
    /\ result' = [result EXCEPT ![c] = [permissions |-> Extract(c, cache[TemplateID[c]]),
                                        isActive |-> TemplateID[c] \in active]]
    /\ UNCHANGED <<cache, chain, seen>>

\* Mutant: the error is swallowed, and the caller gets neither it nor a result.
MCallFails(c) ==
    /\ stage[c] \in {"source", "fetch", "signature", "status"} /\ Goto(c, "done")
    /\ UNCHANGED <<cache, result, chain, seen>>
CallFails(c) ==
    /\ stage[c] \in {"source", "fetch", "signature", "status"} /\ Goto(c, "failed")
    /\ UNCHANGED <<cache, result, chain, seen>>

Step(c) ==
    \/ Hit(c) \/ Miss(c) \/ SourceAnswers(c) \/ FetchAnswers(c) \/ SignatureAnswers(c)
    \/ Fill(c) \/ StatusAnswers(c) \/ CallFails(c)

Next == Change \/ \E c \in Calls : Call(c) \/ Step(c)

Spec == Init /\ [][Next]_vars

----------------------------------------------------------------------------
(* Properties                                                               *)

PermissionNames == UNION {UNION {a.permissions : a \in Published[t]} : t \in Templates}

Results == [permissions : SUBSET PermissionNames, isActive : BOOLEAN]

\* Every variable stays in its type; a call has a result when it is done.
TypeOK ==
    /\ stage \in [Calls -> Stages]
    /\ DOMAIN cache \subseteq Templates
    /\ result \in [Calls -> Results \cup {NoResult}]
    /\ \A c \in Calls : IF At(c, "done") THEN result[c] \in Results ELSE result[c] = NoResult
    /\ accepts \subseteq Templates /\ active \subseteq Templates
    /\ changes \in 0 .. MaxChanges /\ accepted \subseteq Templates
    /\ seen \in [Calls -> SUBSET [accepts : SUBSET Templates, active : SUBSET Templates]]

\* What a template asks for on a contract, in a state of the chain.
Answer(c, w) ==
    TemplateAnswer(Published[TemplateID[c]], Contract[c], TemplateID[c] \in w.active)

\* However many calls fill the cache at once, a call answers for its own template
\* and contract, and with an activation that was true during this very call: the
\* cache keeps agreements and never the status (template.go, "Cache only the
\* agreements").
AnswersAreCurrent ==
    \A c \in Calls : At(c, "done") => \E w \in seen[c] : result[c] = Answer(c, w)

\* Only a document that its owner's account accepted gets into the cache, from
\* which nothing is ever removed.
OnlyAcceptedIsCached == DOMAIN cache \subseteq accepted

CallPhase == [c \in Calls |-> IF Running(c) THEN "running" ELSE stage[c]]

Promise == INSTANCE TemplatePromise WITH call <- CallPhase

\* The cache cannot be noticed (template.go:60-124): the calls, racing to fill it
\* while the chain changes, do what one answer at one moment would do. Exchange's
\* TemplateAnswers takes this for granted.
ImplementsPromise == Promise!Spec

=============================================================================
