-------------------------- MODULE TemplatePromise ---------------------------
(***************************************************************************)
(* What GetTemplatePermissions promises to the evaluation of a grant: a     *)
(* call fails, or answers at one moment with what the template asks for on   *)
(* the contract and its activation at that moment, and answers only for a    *)
(* template whose document its owner's account has accepted.  There is no    *)
(* cache here: nobody can tell a cached answer from another.                 *)
(*                                                                          *)
(* Source: interface TemplateService in internal/exchange/autheval/          *)
(* autheval.go and internal/exchange/services/access/access.go.              *)
(*                                                                          *)
(* TemplateService implements this specification; Exchange's steps            *)
(* TemplateAnswers, TemplateMissing and CallFails use it.                     *)
(***************************************************************************)
EXTENDS AccessEval

CONSTANTS
    Calls,              \* calls of GetTemplatePermissions
    TemplateID,         \* the template each call is about
    Contract,           \* and the contract of its asset
    Published,          \* agreements of each template with a document
    NoResult

VARIABLES
    call,       \* "idle", "running", "done" or "failed"
    result,     \* PermissionsResult of each call
    active,     \* templates active on chain now
    accepted    \* templates whose owner's account has accepted the document

vars == <<call, result, active, accepted>>

Templates == DOMAIN Published

Init ==
    /\ call = [c \in Calls |-> "idle"]
    /\ result = [c \in Calls |-> NoResult]
    /\ active \in SUBSET Templates /\ accepted \in SUBSET Templates

Begin(c) ==
    /\ call[c] = "idle" /\ call' = [call EXCEPT ![c] = "running"]
    /\ UNCHANGED <<result, active, accepted>>

Answer(c) ==
    /\ call[c] = "running" /\ TemplateID[c] \in accepted
    /\ call' = [call EXCEPT ![c] = "done"]
    /\ result' = [result EXCEPT ![c] =
          TemplateAnswer(Published[TemplateID[c]], Contract[c], TemplateID[c] \in active)]
    /\ UNCHANGED <<active, accepted>>

Fail(c) ==
    /\ call[c] = "running" /\ call' = [call EXCEPT ![c] = "failed"]
    /\ UNCHANGED <<result, active, accepted>>

\* The chain moves on; an account that has accepted a document has done so.
Change ==
    /\ active' \in SUBSET Templates
    /\ accepted' \in SUBSET Templates /\ accepted \subseteq accepted'
    /\ UNCHANGED <<call, result>>

Next == Change \/ \E c \in Calls : Begin(c) \/ Answer(c) \/ Fail(c)

Spec == Init /\ [][Next]_vars

=============================================================================
