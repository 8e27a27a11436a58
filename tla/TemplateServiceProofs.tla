----------------------- MODULE TemplateServiceProofs ------------------------
(***************************************************************************)
(* The invariants of TemplateService for any number of calls, templates and  *)
(* changes of the chain.                                                     *)
(***************************************************************************)
EXTENDS TemplateService, TLAPS

\* The cache holds what is published, and only what its owner's account accepted.
CacheInv ==
    /\ \A t \in DOMAIN cache : t \in accepted /\ cache[t] = Published[t]
    /\ accepts \subseteq accepted

\* Where a call is says what it has found out about its template.
StageInv ==
    \A c \in Calls :
        /\ stage[c] \in {"signature", "fill"} => TemplateID[c] \in Templates
        /\ At(c, "fill") => TemplateID[c] \in accepted
        /\ At(c, "status") => /\ TemplateID[c] \in DOMAIN cache
                              /\ Extract(c, cache[TemplateID[c]]) # {}

\* A running call has seen the chain as it is.
SeenInv == \A c \in Calls : Running(c) => Now \in seen[c]

TemplateInv == TypeOK /\ CacheInv /\ StageInv /\ SeenInv /\ AnswersAreCurrent

\* What a published template asks for are permission names.
LEMMA ExtractNames ==
    ASSUME NEW c, NEW t \in Templates
    PROVE  Extract(c, Published[t]) \subseteq PermissionNames
BY DEF Extract, TemplatePermissions, PermissionNames

\* The chain changes under the calls: each running one sees it.
LEMMA ChangeKeeps ==
    ASSUME TemplateInv, Change
    PROVE  TemplateInv'
<1>1. TypeOK'
  BY TemplateAssumption DEF TemplateInv, TypeOK, Change, Now, At
<1>2. CacheInv' /\ StageInv'
  BY DEF TemplateInv, CacheInv, StageInv, Change, At, Extract
<1>3. \A c \in Calls : seen[c] \subseteq seen'[c] /\ (Running(c) => Now' \in seen'[c])
  BY DEF TemplateInv, TypeOK, Change
<1>4. SeenInv'
  BY <1>3 DEF SeenInv, Running, Change
<1>5. AnswersAreCurrent'
  BY <1>3 DEF TemplateInv, AnswersAreCurrent, Change, At
<1> QED BY <1>1, <1>2, <1>4, <1>5 DEF TemplateInv

\* A step of a call moves that call alone: what the step must see to.
LEMMA MoveKeeps ==
    ASSUME TemplateInv, NEW c \in Calls, NEW next \in Stages, NEW r,
           ~At(c, "done"), Goto(c, next), UNCHANGED chain,
           CacheInv', DOMAIN cache \subseteq DOMAIN cache', DOMAIN cache' \subseteq Templates,
           \/ UNCHANGED seen /\ Running(c)
           \/ seen' = [seen EXCEPT ![c] = {Now}] /\ next # "done",
           next # "done" => UNCHANGED result,
           next = "done" => /\ result' = [result EXCEPT ![c] = r] /\ r \in Results
                            /\ \E w \in seen[c] : r = Answer(c, w),
           next \in {"signature", "fill"} => TemplateID[c] \in Templates,
           next = "fill" => TemplateID[c] \in accepted,
           next = "status" => TemplateID[c] \in DOMAIN cache' /\ Extract(c, Published[TemplateID[c]]) # {}
    PROVE  TemplateInv'
<1> USE DEF Goto, chain
<1>0. /\ stage' \in [Calls -> Stages] /\ stage'[c] = next
      /\ \A o \in Calls \ {c} : stage'[o] = stage[o] /\ result'[o] = result[o] /\ seen'[o] = seen[o]
      /\ Now \in [accepts : SUBSET Templates, active : SUBSET Templates] /\ Now' = Now
  BY DEF TemplateInv, TypeOK, Now
<1>1. TypeOK'
  <2>1. result' \in [Calls -> Results \cup {NoResult}] /\ (next = "done" => result'[c] = r)
    BY DEF TemplateInv, TypeOK
  <2>2. seen' \in [Calls -> SUBSET [accepts : SUBSET Templates, active : SUBSET Templates]]
    BY <1>0 DEF TemplateInv, TypeOK
  <2>3. ASSUME NEW o \in Calls
        PROVE  IF stage'[o] = "done" THEN result'[o] \in Results ELSE result'[o] = NoResult
    BY <1>0, <2>1 DEF TemplateInv, TypeOK, At
  <2> QED BY <1>0, <2>1, <2>2, <2>3 DEF TemplateInv, TypeOK, At
<1>2. StageInv'
  <2>1. ASSUME NEW t \in DOMAIN cache' PROVE cache'[t] = Published[t]
    BY DEF CacheInv
  <2>2. \A o \in Calls : Extract(o, Published[TemplateID[o]])' = Extract(o, Published[TemplateID[o]])
    BY DEF Extract
  <2> QED BY <1>0, <2>1, <2>2 DEF TemplateInv, StageInv, CacheInv, At, Extract
<1>3. SeenInv'
  BY <1>0 DEF TemplateInv, TypeOK, SeenInv, Running
<1>4. AnswersAreCurrent'
  BY <1>0 DEF TemplateInv, TypeOK, AnswersAreCurrent, At, Answer
<1> QED BY <1>1, <1>2, <1>3, <1>4 DEF TemplateInv

\* Most steps leave the cache and the result alone.
LEMMA MoveOn ==
    ASSUME TemplateInv, NEW c \in Calls, NEW next \in Stages, next \notin {"done", "fill", "status"},
           ~At(c, "done"), Goto(c, next), UNCHANGED <<cache, result, chain>>,
           \/ UNCHANGED seen /\ Running(c)
           \/ seen' = [seen EXCEPT ![c] = {Now}],
           next = "signature" => TemplateID[c] \in Templates
    PROVE  TemplateInv'
<1>1. CacheInv'
  BY DEF TemplateInv, CacheInv, chain
<1>2. DOMAIN cache \subseteq DOMAIN cache' /\ DOMAIN cache' \subseteq Templates
  BY DEF TemplateInv, TypeOK
<1>3. UNCHANGED chain /\ UNCHANGED result
  OBVIOUS
<1> QED BY <1>1, <1>2, <1>3, MoveKeeps

\* The status of a template whose agreements the cache holds.
LEMMA StatusKeeps ==
    ASSUME TemplateInv, NEW c \in Calls, Running(c), UNCHANGED <<chain, seen>>,
           TemplateID[c] \in Templates, StatusOf(c, Published[TemplateID[c]]),
           CacheInv', DOMAIN cache \subseteq DOMAIN cache', DOMAIN cache' \subseteq Templates,
           TemplateID[c] \in DOMAIN cache'
    PROVE  TemplateInv'
<1> DEFINE id == TemplateID[c]  r == [permissions |-> {}, isActive |-> FALSE]
<1>0. /\ ~At(c, "done") /\ UNCHANGED chain /\ UNCHANGED seen
      /\ "done" \in Stages /\ "status" \in Stages
  BY DEF Running, At, Stages
<1>1. CASE Extract(c, Published[id]) = {}
  <2>1. Goto(c, "done") /\ result' = [result EXCEPT ![c] = r] /\ r \in Results
    BY <1>1 DEF StatusOf, Results
  <2>2. \A w : r = Answer(c, w)
    BY <1>1 DEF Answer, TemplateAnswer, Extract
  <2>3. \E w \in seen[c] : r = Answer(c, w)
    BY <2>2 DEF TemplateInv, SeenInv
  <2> HIDE DEF r
  <2> QED BY <1>0, <2>1, <2>3, MoveKeeps
<1>2. CASE Extract(c, Published[id]) # {}
  <2>1. Goto(c, "status") /\ UNCHANGED result
    BY <1>2 DEF StatusOf
  <2> QED BY <1>0, <1>2, <2>1, MoveKeeps
<1> QED BY <1>1, <1>2

LEMMA StepKeeps ==
    ASSUME TemplateInv, NEW c \in Calls, Call(c) \/ Step(c)
    PROVE  TemplateInv'
<1> DEFINE id == TemplateID[c]
<1>0. {"lookup", "source", "fetch", "signature", "failed", "fill", "status", "done"} \subseteq Stages
  BY DEF Stages
<1>1. CASE Call(c)
  BY <1>0, <1>1, MoveOn DEF Call, At
<1>2. CASE Miss(c)
  BY <1>0, <1>2, MoveOn DEF Miss, At, Running
<1>3. CASE SourceAnswers(c)
  BY <1>0, <1>3, MoveOn DEF SourceAnswers, At, Running
<1>4. CASE FetchAnswers(c)
  BY <1>0, <1>4, MoveOn DEF FetchAnswers, At, Running
<1>5. CASE CallFails(c)
  BY <1>0, <1>5, MoveOn DEF CallFails, At, Running
<1>6. CASE SignatureAnswers(c)
  <2>1. CASE id \in accepts
    <3>1. id \in Templates /\ id \in accepted
      BY <1>6, <2>1 DEF SignatureAnswers, At, TemplateInv, StageInv, CacheInv
    <3>2. /\ CacheInv' /\ DOMAIN cache \subseteq DOMAIN cache' /\ DOMAIN cache' \subseteq Templates
          /\ UNCHANGED result /\ UNCHANGED chain /\ UNCHANGED seen
          /\ Running(c) /\ ~At(c, "done") /\ Goto(c, "fill")
      BY <1>6, <2>1 DEF SignatureAnswers, At, Running, TemplateInv, TypeOK, CacheInv, chain
    <3> QED BY <1>0, <3>1, <3>2, MoveKeeps
  <2>2. CASE id \notin accepts
    BY <1>0, <1>6, <2>2, MoveOn DEF SignatureAnswers, At, Running
  <2> QED BY <2>1, <2>2
<1>7. CASE Hit(c)
  <2>1. cache[id] = Published[id] /\ id \in Templates /\ id \in DOMAIN cache'
    BY <1>7 DEF Hit, TemplateInv, TypeOK, CacheInv
  <2>2. CacheInv' /\ DOMAIN cache \subseteq DOMAIN cache' /\ DOMAIN cache' \subseteq Templates
    BY <1>7 DEF Hit, TemplateInv, TypeOK, CacheInv, chain
  <2> QED BY <1>7, <2>1, <2>2, StatusKeeps DEF Hit, At, Running
<1>8. CASE Fill(c)
  <2>1. id \in Templates /\ id \in accepted
    BY <1>8 DEF Fill, At, TemplateInv, StageInv
  <2>2. DOMAIN cache' = DOMAIN cache \cup {id} /\ \A t \in DOMAIN cache' : cache'[t] = Published[t]
    BY <1>8 DEF Fill, TemplateInv, CacheInv
  <2>3. CacheInv' /\ DOMAIN cache' \subseteq Templates
    BY <1>8, <2>1, <2>2 DEF Fill, TemplateInv, TypeOK, CacheInv, chain
  <2> QED BY <1>8, <2>1, <2>2, <2>3, StatusKeeps DEF Fill, At, Running
<1>9. CASE StatusAnswers(c)
  <2> DEFINE r == [permissions |-> Extract(c, cache[id]), isActive |-> id \in active]
  <2>1. id \in DOMAIN cache /\ id \in Templates /\ cache[id] = Published[id] /\ Extract(c, Published[id]) # {}
    BY <1>9 DEF StatusAnswers, At, TemplateInv, TypeOK, StageInv, CacheInv
  <2>2. r = Answer(c, Now)
    BY <2>1 DEF Answer, TemplateAnswer, Now, Extract
  <2>3. r \in Results
    <3>1. Extract(c, cache[id]) \subseteq PermissionNames
      BY <2>1, ExtractNames
    <3> QED BY <3>1 DEF Results
  <2>4. Running(c) /\ Now \in seen[c]
    BY <1>9 DEF StatusAnswers, At, Running, TemplateInv, SeenInv
  <2>5. /\ CacheInv' /\ DOMAIN cache \subseteq DOMAIN cache' /\ DOMAIN cache' \subseteq Templates
        /\ UNCHANGED chain /\ UNCHANGED seen /\ ~At(c, "done") /\ Goto(c, "done")
        /\ result' = [result EXCEPT ![c] = r]
    BY <1>9 DEF StatusAnswers, At, TemplateInv, TypeOK, CacheInv, chain
  <2> HIDE DEF r
  <2> QED BY <1>0, <2>2, <2>3, <2>4, <2>5, MoveKeeps
<1> QED BY <1>1, <1>2, <1>3, <1>4, <1>5, <1>6, <1>7, <1>8, <1>9 DEF Step

LEMMA Invariant == Spec => []TemplateInv
<1>1. Init => TemplateInv
  BY TemplateAssumption DEF Init, TemplateInv, TypeOK, Stages, CacheInv, StageInv, SeenInv, Running,
     AnswersAreCurrent, At
<1>2. ASSUME TemplateInv, UNCHANGED vars PROVE TemplateInv'
  BY <1>2 DEF vars, TemplateInv, TypeOK, At, CacheInv, StageInv, Extract, SeenInv, Running, Now,
     AnswersAreCurrent, Answer
<1>3. TemplateInv /\ [Next]_vars => TemplateInv'
  BY <1>2, ChangeKeeps, StepKeeps DEF Next
<1> QED BY <1>1, <1>3, PTL DEF Spec

\* TypeOK, for every instance: what a call answers are permission names.
THEOREM TypeCorrect == Spec => []TypeOK
BY Invariant, PTL DEF TemplateInv

\* AnswersAreCurrent, for any number of calls that race to fill the cache: the
\* agreements are the template's own, the activation was true during the call
\* (GetTemplatePermissions).
THEOREM CurrentAnswers == Spec => []AnswersAreCurrent
BY Invariant, PTL DEF TemplateInv

\* OnlyAcceptedIsCached, for every instance: no interleaving of fills and changes
\* of the chain caches a document its owner's account never accepted.
THEOREM AcceptedOnly == Spec => []OnlyAcceptedIsCached
<1>1. TemplateInv => OnlyAcceptedIsCached
  BY DEF TemplateInv, CacheInv, OnlyAcceptedIsCached
<1> QED BY <1>1, Invariant, PTL

----------------------------------------------------------------------------
(* The promise                                                              *)

\* A step of a call changes the phase of that call alone.
LEMMA PhaseOf ==
    ASSUME TemplateInv, NEW c \in Calls, NEW next \in Stages, Goto(c, next)
    PROVE  CallPhase' = [CallPhase EXCEPT ![c] =
               IF next \notin {"idle", "done", "failed"} THEN "running" ELSE next]
<1>1. stage'[c] = next /\ \A o \in Calls \ {c} : stage'[o] = stage[o]
  BY DEF Goto, TemplateInv, TypeOK
<1> QED BY <1>1 DEF CallPhase, Running

\* A call that still runs after its step has done nothing of the promise.
LEMMA Unnoticed ==
    ASSUME TemplateInv, NEW c \in Calls, NEW next \in Stages \ {"idle", "done", "failed"},
           Running(c), Goto(c, next), UNCHANGED <<result, chain>>
    PROVE  UNCHANGED Promise!vars
<1>1. CallPhase[c] = "running"
  BY DEF CallPhase
<1>2. CallPhase' = CallPhase
  BY <1>1, PhaseOf DEF CallPhase
<1> QED BY <1>2 DEF Promise!vars, chain

\* A call that fails breaks off a call of the promise.
LEMMA FailsAbove ==
    ASSUME TemplateInv, NEW c \in Calls, Running(c), Goto(c, "failed"), UNCHANGED <<result, chain>>
    PROVE  Promise!Fail(c)
<1>1. CallPhase[c] = "running" /\ CallPhase' = [CallPhase EXCEPT ![c] = "failed"]
  BY PhaseOf DEF CallPhase, Stages
<1> QED BY <1>1 DEF Promise!Fail, chain

\* A call that answers for a document once accepted, with what the template says
\* and its activation now, answers as promised.
LEMMA AnswersAbove ==
    ASSUME TemplateInv, NEW c \in Calls, Running(c), Goto(c, "done"), UNCHANGED chain,
           TemplateID[c] \in accepted, result' = [result EXCEPT ![c] = Answer(c, Now)]
    PROVE  Promise!Answer(c)
<1>1. CallPhase[c] = "running" /\ CallPhase' = [CallPhase EXCEPT ![c] = "done"]
  BY PhaseOf DEF CallPhase, Stages
<1>2. Answer(c, Now) = Promise!TemplateAnswer(Published[TemplateID[c]], Contract[c], TemplateID[c] \in active)
  BY DEF Answer, Now, TemplateAnswer, Promise!TemplateAnswer, TemplatePermissions, Promise!TemplatePermissions
<1> QED BY <1>1, <1>2 DEF Promise!Answer, chain

\* The agreements are at hand: the call answers at once, or asks for the status.
LEMMA StatusAbove ==
    ASSUME TemplateInv, NEW c \in Calls, Running(c), UNCHANGED chain, TemplateID[c] \in accepted,
           StatusOf(c, Published[TemplateID[c]])
    PROVE  Promise!Answer(c) \/ UNCHANGED Promise!vars
<1>1. CASE Extract(c, Published[TemplateID[c]]) = {}
  <2>1. Answer(c, Now) = [permissions |-> {}, isActive |-> FALSE]
    BY <1>1 DEF Answer, TemplateAnswer, Extract
  <2> QED BY <1>1, <2>1, AnswersAbove DEF StatusOf
<1>2. CASE Extract(c, Published[TemplateID[c]]) # {}
  <2>1. Goto(c, "status") /\ UNCHANGED <<result, chain>> /\ "status" \in Stages \ {"idle", "done", "failed"}
    BY <1>2 DEF StatusOf, Stages
  <2> QED BY <2>1, Unnoticed
<1> QED BY <1>1, <1>2

\* Every step of a call is a step of the promise, or cannot be noticed.
LEMMA StepAbove ==
    ASSUME TemplateInv, NEW c \in Calls, Call(c) \/ Step(c)
    PROVE  Promise!Begin(c) \/ Promise!Answer(c) \/ Promise!Fail(c) \/ UNCHANGED Promise!vars
<1> DEFINE id == TemplateID[c]
<1>0. {"lookup", "source", "fetch", "signature", "fill", "status"} \subseteq Stages \ {"idle", "done", "failed"}
  BY DEF Stages
<1>1. CASE Call(c)
  <2>1. CallPhase[c] = "idle" /\ CallPhase' = [CallPhase EXCEPT ![c] = "running"]
    BY <1>0, <1>1, PhaseOf DEF Call, At, CallPhase, Running
  <2> QED BY <1>1, <2>1 DEF Call, chain, Promise!Begin
<1>2. CASE Miss(c)
  BY <1>0, <1>2, Unnoticed DEF Miss, At, Running
<1>3. CASE SourceAnswers(c)
  BY <1>0, <1>3, Unnoticed DEF SourceAnswers, At, Running
<1>4. CASE FetchAnswers(c)
  BY <1>0, <1>4, Unnoticed, FailsAbove DEF FetchAnswers, At, Running
<1>5. CASE SignatureAnswers(c)
  BY <1>0, <1>5, Unnoticed, FailsAbove DEF SignatureAnswers, At, Running
<1>6. CASE CallFails(c)
  BY <1>6, FailsAbove DEF CallFails, Running
<1>7. CASE Hit(c)
  <2>1. id \in accepted /\ cache[id] = Published[id]
    BY <1>7 DEF Hit, TemplateInv, CacheInv
  <2> QED BY <1>7, <2>1, StatusAbove DEF Hit, At, Running
<1>8. CASE Fill(c)
  <2>1. id \in accepted
    BY <1>8 DEF Fill, At, TemplateInv, StageInv
  <2> QED BY <1>8, <2>1, StatusAbove DEF Fill, At, Running
<1>9. CASE StatusAnswers(c)
  <2>1. id \in accepted /\ cache[id] = Published[id] /\ Extract(c, Published[id]) # {}
    BY <1>9 DEF StatusAnswers, At, TemplateInv, StageInv, CacheInv
  <2>2. [permissions |-> Extract(c, cache[id]), isActive |-> id \in active] = Answer(c, Now)
    BY <2>1 DEF Answer, TemplateAnswer, Now, Extract
  <2>3. result' = [result EXCEPT ![c] = Answer(c, Now)]
    BY <1>9, <2>2 DEF StatusAnswers
  <2> QED BY <1>9, <2>1, <2>3, AnswersAbove DEF StatusAnswers, At, Running
<1> QED BY <1>1, <1>2, <1>3, <1>4, <1>5, <1>6, <1>7, <1>8, <1>9 DEF Step

\* ImplementsPromise, for any number of calls, templates and changes of the chain:
\* no interleaving of lookups, fills and a chain that moves lets a caller see the
\* cache (GetTemplatePermissions), and no answer speaks for a document whose owner
\* never accepted it.
THEOREM Refinement == Spec => ImplementsPromise
<1>1. Init => Promise!Init
  BY DEF Init, Promise!Init, CallPhase, Running, Promise!Templates, Templates
<1>2. ASSUME TemplateInv, Change PROVE Promise!Change
  BY <1>2 DEF Change, TemplateInv, TypeOK, Promise!Change, CallPhase, Running, Promise!Templates, Templates
<1>3. ASSUME UNCHANGED vars PROVE UNCHANGED Promise!vars
  BY <1>3 DEF vars, Promise!vars, CallPhase, Running
<1>4. TemplateInv /\ [Next]_vars => [Promise!Next]_(Promise!vars)
  BY <1>2, <1>3, StepAbove DEF Next, Promise!Next
<1> QED BY <1>1, <1>4, Invariant, PTL DEF Spec, ImplementsPromise, Promise!Spec

=============================================================================
