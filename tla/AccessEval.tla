----------------------------- MODULE AccessEval -----------------------------
(***************************************************************************)
(* How the exchange decides what a grant gives: cloud event agreements with *)
(* wildcards, permission agreements with a period of validity and an        *)
(* optional template, and the two-bit permissions kept on chain.             *)
(*                                                                          *)
(* Source: internal/exchange/autheval/autheval.go and agreements.go, the    *)
(* documents of internal/exchange/models, the name tables of                *)
(* pkg/tokenclaims.                                                          *)
(*                                                                          *)
(* Slices are sets here: the code never looks at their order.                *)
(***************************************************************************)
EXTENDS Integers, Functions

CONSTANTS
    EventTypes, EventSources, EventIDs, EventTags,  \* what real events carry
    GlobalIdentifier,               \* "*"
    Unset,                          \* ""
    NoTime,                         \* time.Time's zero value
    PrivilegeIDToName,              \* tokenclaims: vehicle permissions
    ManufacturerPrivilegeIDToName,
    PrivilegeLimit                  \* 128: privileges that fit the chain's word

\* PrivilegeNameToID, ManufacturerPrivilegeNameToID
NameToID(names) == AntiFunction(names)

ASSUME AccessAssumption ==
    /\ IsInjective(PrivilegeIDToName) /\ IsInjective(ManufacturerPrivilegeIDToName)
    /\ DOMAIN PrivilegeIDToName \subseteq Nat
    /\ DOMAIN ManufacturerPrivilegeIDToName \subseteq Nat
    /\ PrivilegeLimit \in Nat

EventFilter == [eventType : EventTypes \cup {GlobalIdentifier, Unset},
                source : EventSources \cup {GlobalIdentifier, Unset},
                ids : SUBSET (EventIDs \cup {GlobalIdentifier}),
                tags : SUBSET (EventTags \cup {GlobalIdentifier})]

----------------------------------------------------------------------------
(* Cloud event agreements                                                   *)

OrGlobal(x) == IF x = Unset THEN GlobalIdentifier ELSE x
AnyIfNone(S) == IF S = {} THEN {GlobalIdentifier} ELSE S

\* What a filter leaves out, it asks for in full.
WithDefaults(f) == [eventType |-> OrGlobal(f.eventType), source |-> OrGlobal(f.source),
                    ids |-> AnyIfNone(f.ids), tags |-> AnyIfNone(f.tags)]

\* CloudEventAgreements.Add: an agreement without ids or tags is about all.
Added(a) == [eventType |-> a.eventType, source |-> a.source,
             ids |-> AnyIfNone(a.ids), tags |-> AnyIfNone(a.tags)]

\* Mutant: a wildcard matches from either side.
MMatches(granted, x) == granted = x \/ granted = GlobalIdentifier \/ x = GlobalIdentifier
Matches(granted, x) == granted = x \/ granted = GlobalIdentifier
MatchesAny(granted, x) == x \in granted \/ GlobalIdentifier \in granted

\* Agreement.Grants
Grants(a, eventType, source, i, tag) ==
    /\ Matches(a.eventType, eventType) /\ Matches(a.source, source)
    /\ MatchesAny(a.ids, i) /\ MatchesAny(a.tags, tag)

\* Every id with every tag, each by some agreement.
EvaluateCloudEvents(agreements, filters) ==
    \A f \in filters : LET d == WithDefaults(f) IN
        \A i \in d.ids, tag \in d.tags :
            \E a \in agreements : Grants(a, d.eventType, d.source, i, tag)

\* The events there can be, those a filter asks for and those agreements give.
Events == EventTypes \X EventSources \X EventIDs \X EventTags
Asked(f) == LET d == WithDefaults(f) IN
    {e \in Events : Grants(d, e[1], e[2], e[3], e[4])}
Given(agreements) == {e \in Events : \E a \in agreements : Grants(a, e[1], e[2], e[3], e[4])}

----------------------------------------------------------------------------
(* Documents                                                                *)

\* UserGrantMap skips agreements before their period and after it.
InForce(a, t) ==
    /\ a.effectiveAt # NoTime => t >= a.effectiveAt
    /\ a.expiresAt # NoTime => t <= a.expiresAt

\* extractPermissionsFromAgreements: what a template asks for on a contract.
TemplatePermissions(agreements, contract) ==
    UNION {a.permissions : a \in {b \in agreements : b.contract = contract /\ b.type = "permission"}}

\* PermissionsResult: a template that says nothing of the contract is not active.
TemplateAnswer(agreements, contract, activated) ==
    LET permissions == TemplatePermissions(agreements, contract)
    IN [permissions |-> permissions, isActive |-> permissions # {} /\ activated]

\* matchTemplatePermissions: the template must be active and fully granted.
MatchTemplate(granted, template) == template.isActive /\ template.permissions \subseteq granted

EvaluatePermissions(granted, requested) == requested \ granted

----------------------------------------------------------------------------
(* Permissions on chain: privilege p is bits 2p and 2p+1                    *)

InRange(privileges) == \A p \in privileges : 0 <= p /\ p < PrivilegeLimit

\* IntArrayTo2BitArray
Mask(privileges) == UNION {{2 * p, 2 * p + 1} : p \in privileges}

\* EvaluatePermissionsBits
LackBits(privileges, bits) ==
    {p \in privileges : 2 * p \notin bits \/ 2 * p + 1 \notin bits}

=============================================================================
