------------------------------ MODULE Exchange ------------------------------
(***************************************************************************)
(* One request to the exchange, from the Authorization header to the        *)
(* permission token, or one gRPC AccessCheck: the middleware, the two        *)
(* controllers, the access service with both of its ways to decide, the      *)
(* SACD proxy and the signer, while grants, licences and owners change       *)
(* between any two of the calls the request makes, and any call may fail.    *)
(*                                                                          *)
(* Source: internal/exchange/middleware, controllers/httpcontroller/         *)
(* exchange.go, controllers/rpc/rpc.go, services/access/access.go,           *)
(* services/sacdproxy/sacdproxy.go, services/signer.go, autheval.            *)
(*                                                                          *)
(* Requests share nothing but the template service's cache, which            *)
(* TemplateService models, so one request is enough. Documents are addressed *)
(* by their content: Document says what each source holds, for ever.         *)
(***************************************************************************)
EXTENDS AccessEval

CONSTANTS
    Requests,                   \* what clients ask, see Request
    Document,                   \* the SACD document of each source that holds one
    NoSource,                   \* no permission record: Source is ""
    TemplateAgreements,         \* the agreements of each published template
    NoTemplate,                 \* permissionTemplateId "" or "0"
    NoAsset,                    \* asset that does not decode
    NoTokenID,                  \* account-level asset (did:ethr)
    NoGrantee,
    ContractAddressVehicle, ContractAddressManufacturer,
    MaxInt32,                   \* 2^31 - 1, what a GraphQL Int holds
    NoToken,
    Worlds,                     \* states of the chain and the identity API
    MaxChanges, MaxTime

VARIABLES
    request,
    world,      \* what the chain and the identity API answer now
    now,
    changes,    \* number of changes of world so far
    stage,      \* where the request's handler is
    asked,      \* accessReq.Permissions
    source,     \* Source of the permission record read
    rest,       \* agreements UserGrantMap has yet to look at
    events,     \* CloudEventAgreements collected so far
    granted,    \* permissions collected so far
    reply, token,
    seen,       \* history: worlds during the request
    failed      \* history: a call, or the signing, failed

flow == <<stage, reply>>
grants == <<rest, events, granted>>
outside == <<request, world, now, changes, seen>>
vars == <<request, world, now, changes, stage, asked, source, rest, events,
          granted, reply, token, seen, failed>>

\* What is signed: who made the signature of a document, "" included.
IsDocument(d) ==
    /\ DOMAIN d = {"type", "signature", "grantee", "agreements", "template"}
    /\ d.type \in {"sacd", "template", "other"}
    /\ d.signature \in {"none", "key", "contract"}

\* Facts about the request's asset and grantee, and about signatures and
\* templates: a contract account may accept a signature today and not tomorrow.
\* license holds the errors of the identity API's answer, none for a license.
IsWorld(w) ==
    /\ DOMAIN w = {"license", "source", "bits", "owns", "accepts", "active"}
    /\ w.license \subseteq {"NOT_FOUND", "other"} /\ w.owns \in BOOLEAN
    /\ w.bits \subseteq 0 .. 2 * PrivilegeLimit - 1
    /\ w.accepts \subseteq DOMAIN Document
    /\ w.active \subseteq DOMAIN TemplateAgreements

IsRequest(r) ==
    /\ DOMAIN r = {"rpc", "bearer", "grantee", "asset", "permissions", "privileges", "filters"}
    /\ r.rpc \in BOOLEAN /\ r.bearer \in BOOLEAN
    /\ r.filters \subseteq EventFilter

ASSUME ExchangeAssumption ==
    /\ \A w \in Worlds : IsWorld(w)
    /\ \A r \in Requests : IsRequest(r)
    /\ \A s \in DOMAIN Document : IsDocument(Document[s])
    /\ NoSource \notin DOMAIN Document
    /\ MaxInt32 \in Nat /\ MaxTime \in Nat /\ MaxChanges \in Nat

AccountLevel(asset) == asset.tokenID = NoTokenID
IDToName(asset) == IF asset.contract = ContractAddressManufacturer
                   THEN ManufacturerPrivilegeIDToName ELSE PrivilegeIDToName

\* The proxy asks the identity API about vehicles, and the chain about the rest.
UsesIdentity(asset) == ~AccountLevel(asset) /\ asset.contract = ContractAddressVehicle
ConvertTokenID(asset) ==
    UsesIdentity(asset) => asset.tokenID > 0 /\ asset.tokenID <= MaxInt32

ExchangeInit ==
    /\ request \in Requests /\ world \in Worlds
    /\ now = 0 /\ changes = 0
    /\ stage = IF request.rpc THEN "parse" ELSE "auth"
    /\ asked = {} /\ source = NoSource
    /\ rest = {} /\ events = {} /\ granted = {}
    /\ reply = "none" /\ token = NoToken
    /\ seen = {world} /\ failed = FALSE

----------------------------------------------------------------------------
(* The outside                                                              *)

ChangeWorld ==
    /\ stage # "done" /\ changes < MaxChanges
    /\ changes' = changes + 1
    /\ world' \in Worlds \ {world}
    /\ seen' = seen \cup {world'}
    /\ UNCHANGED <<request, now, asked, source, token, failed, flow, grants>>

Tick ==
    /\ stage # "done" /\ now < MaxTime
    /\ now' = now + 1
    /\ UNCHANGED <<request, world, changes, asked, source, token, seen, failed, flow, grants>>

----------------------------------------------------------------------------
(* Middleware and controllers                                               *)

Goto(next) == stage' = next /\ UNCHANGED reply
Reply(answer) == stage' = "done" /\ reply' = answer

\* NewJWTAuthFromJWKS, and the claim NewDevLicenseValidator reads.
Authenticate ==
    /\ stage = "auth"
    /\ IF request.bearer THEN Goto("license") ELSE Reply("unauthorized")
    /\ UNCHANGED <<outside, asked, source, token, failed, grants>>

\* IsDevLicense: an error other than NOT_FOUND is no answer.
IsDevLicense(w) == w.license = {}
LookupFails(w) == w.license \ {"NOT_FOUND"} # {}

LicenseAnswers ==
    /\ stage = "license"
    /\ IF IsDevLicense(world) THEN Goto("parse")
       ELSE Reply(IF LookupFails(world) THEN "serverError" ELSE "forbidden")
    /\ UNCHANGED <<outside, asked, source, token, failed, grants>>

UnknownPrivileges(r) == r.permissions = {} /\ ~(r.privileges \subseteq DOMAIN IDToName(r.asset))
AsksNothing(r) == r.permissions = {} /\ r.privileges = {} /\ r.filters = {}

\* Mutant: the ids stay ids.
MWanted(r) == IF r.permissions = {} THEN r.privileges ELSE r.permissions
\* Permission names win over deprecated privilege ids; ids become names.
Wanted(r) == IF r.permissions = {} THEN {IDToName(r.asset)[p] : p \in r.privileges}
                                   ELSE r.permissions

\* Mutant: a token for nothing.
MInvalid(r) == r.asset = NoAsset \/ UnknownPrivileges(r) \/ (r.rpc /\ r.grantee = NoGrantee)
\* AccessCheck does not mind a request for nothing.
Invalid(r) ==
    \/ r.asset = NoAsset
    \/ UnknownPrivileges(r)
    \/ r.rpc /\ r.grantee = NoGrantee
    \/ ~r.rpc /\ AsksNothing(r)

Parse ==
    /\ stage = "parse"
    /\ IF Invalid(request) THEN Reply("badRequest") /\ UNCHANGED asked
                           ELSE Goto("record") /\ asked' = Wanted(request)
    /\ UNCHANGED <<outside, source, token, failed, grants>>

\* Access is there: AccessCheck says so, ExchangeToken goes on to sign.
Allow == IF request.rpc THEN Reply("allowed") ELSE Goto("sign")

----------------------------------------------------------------------------
(* ValidateAccessViaSourceDoc                                               *)

\* Mutant: no fallback to the record.
MDocRefused(answer) == Reply(answer)
\* ValidateAccess falls back to the record's bits, unless events are asked for.
DocRefused(answer) == IF request.filters # {} THEN Reply(answer) ELSE Goto("names")

RecordAnswers ==
    /\ stage = "record" /\ ConvertTokenID(request.asset)
    /\ source' = world.source /\ Goto("fetch")
    /\ UNCHANGED <<outside, asked, token, failed, grants>>

\* GetValidSacdDoc: a template passes for a grant here, its grantee will not.
ValidSacdDoc(s) == s \in DOMAIN Document /\ Document[s].type \in {"sacd", "template"}

\* The document arrives, then the grantee check of evaluateSacdDoc.
FetchAnswers ==
    /\ stage = "fetch"
    /\ IF ~ValidSacdDoc(source) THEN DocRefused("badRequest")
       ELSE IF Document[source].grantee # request.grantee THEN DocRefused("forbidden")
       ELSE Goto("signature")
    /\ UNCHANGED <<outside, asked, source, token, failed, grants>>

Signed(by) == stage = "signature" /\ Document[source].signature = by
Collecting == Goto("collect") /\ rest' = Document[source].agreements

\* ValidateSignature for the grantor the document names: the signature is read
\* first, then tried as the grantor's own key, without any call, and what is left
\* is put to the account with isValidSignature (EIP-1271).
SignatureEmpty ==
    /\ Signed("none") /\ DocRefused("serverError")
    /\ UNCHANGED <<outside, asked, source, token, failed, grants>>

ValidEOASignature ==
    /\ Signed("key") /\ Collecting
    /\ UNCHANGED <<outside, asked, source, token, failed, events, granted>>

SignatureAnswers ==
    /\ Signed("contract")
    /\ IF source \in world.accepts THEN Collecting ELSE DocRefused("forbidden") /\ UNCHANGED rest
    /\ UNCHANGED <<outside, asked, source, token, failed, events, granted>>

About(a) == a.asset = request.asset

\* The loop of UserGrantMap, which reads the clock for every agreement.
Skip(a) ==
    /\ stage = "collect" /\ a \in rest /\ ~InForce(a, now)
    /\ rest' = rest \ {a}
    /\ UNCHANGED <<outside, asked, source, token, failed, flow, events, granted>>

Foreign(a) ==
    /\ stage = "collect" /\ a \in rest /\ InForce(a, now) /\ ~About(a)
    /\ DocRefused("serverError")
    /\ UNCHANGED <<outside, asked, source, token, failed, grants>>

Collect(a) ==
    /\ stage = "collect" /\ a \in rest /\ InForce(a, now) /\ About(a)
    /\ rest' = rest \ {a}
    /\ events' = IF a.type = "cloudevent" THEN events \cup {Added(a)} ELSE events
    /\ granted' = IF a.type = "permission" THEN granted \cup a.permissions ELSE granted
    /\ UNCHANGED <<outside, asked, source, token, failed, flow>>

CollectEnds ==
    /\ stage = "collect" /\ rest = {}
    /\ Goto(IF Document[source].template = NoTemplate THEN "evaluate" ELSE "template")
    /\ UNCHANGED <<outside, asked, source, token, failed, grants>>

\* GetTemplatePermissions, as TemplatePromise has it.
TemplateResult(w, id) ==
    TemplateAnswer(TemplateAgreements[id], request.asset.contract, id \in w.active)

TemplateAnswers ==
    /\ stage = "template" /\ Document[source].template \in DOMAIN TemplateAgreements
    /\ granted' = IF MatchTemplate(granted, TemplateResult(world, Document[source].template))
                  THEN granted ELSE {}
    /\ Goto("evaluate")
    /\ UNCHANGED <<outside, asked, source, token, failed, rest, events>>

\* A template that is not there, or not signed by its owner.
TemplateMissing ==
    /\ stage = "template" /\ Document[source].template \notin DOMAIN TemplateAgreements
    /\ DocRefused("serverError")
    /\ UNCHANGED <<outside, asked, source, token, failed, grants>>

Evaluate ==
    /\ stage = "evaluate"
    /\ IF /\ EvaluateCloudEvents(events, request.filters)
          /\ EvaluatePermissions(granted, asked) = {}
       THEN Allow ELSE DocRefused("forbidden")
    /\ UNCHANGED <<outside, asked, source, token, failed, grants>>

----------------------------------------------------------------------------
(* ValidateAccessViaRecord                                                  *)

IDs(asset, names) == LET toID == NameToID(IDToName(asset)) IN {toID[n] : n \in names}

NamesToIDs ==
    /\ stage = "names"
    /\ IF ~(asked \subseteq DOMAIN NameToID(IDToName(request.asset))) THEN Reply("forbidden")
       ELSE IF ~InRange(IDs(request.asset, asked)) THEN Reply("badRequest")
       ELSE Goto("bits")
    /\ UNCHANGED <<outside, asked, source, token, failed, grants>>

\* Proxy.GetPermissions: the owner of a vehicle has everything asked for.  Nothing
\* here looks at when the record expires; its bits are taken as they are.
HeldBits(w, asset, mask) == IF UsesIdentity(asset) /\ w.owns THEN mask ELSE w.bits \cap mask

BitsAnswer ==
    /\ stage = "bits" /\ ConvertTokenID(request.asset)
    /\ LET ids == IDs(request.asset, asked)
       IN IF LackBits(ids, HeldBits(world, request.asset, Mask(ids))) = {}
          THEN Allow ELSE Reply("forbidden")
    /\ UNCHANGED <<outside, asked, source, token, failed, grants>>

----------------------------------------------------------------------------
(* Signing, failures                                                        *)

\* Mutant: the id of whichever table knows the name.
MPrivilegeIDs(names) ==
    {IF n \in DOMAIN NameToID(PrivilegeIDToName) THEN NameToID(PrivilegeIDToName)[n]
     ELSE IF n \in DOMAIN NameToID(ManufacturerPrivilegeIDToName)
          THEN NameToID(ManufacturerPrivilegeIDToName)[n] ELSE 0 : n \in names}
\* SignPrivilegePayload: an id for each name, 0 for names it does not know.
PrivilegeIDs(names) ==
    {IF n \in DOMAIN NameToID(PrivilegeIDToName) THEN NameToID(PrivilegeIDToName)[n] ELSE 0 :
        n \in names}

\* Mutant: what was collected on the way is signed too.
MSign ==
    /\ stage = "sign"
    /\ token' = [subject |-> request.grantee, asset |-> request.asset,
                 permissions |-> asked \cup granted, privilegeIDs |-> PrivilegeIDs(asked \cup granted),
                 filters |-> {WithDefaults(f) : f \in request.filters}]
    /\ Reply("token")
    /\ UNCHANGED <<outside, asked, source, failed, grants>>
Sign ==
    /\ stage = "sign"
    /\ token' = [subject |-> request.grantee, asset |-> request.asset,
                 permissions |-> asked, privilegeIDs |-> PrivilegeIDs(asked),
                 filters |-> {WithDefaults(f) : f \in request.filters}]
    /\ Reply("token")
    /\ UNCHANGED <<outside, asked, source, failed, grants>>

\* The subject or the key is no use to createAndReturnToken.
SignFails ==
    /\ stage = "sign" /\ Reply("serverError") /\ failed' = TRUE
    /\ UNCHANGED <<outside, asked, source, token, grants>>

\* Mutant: for a document that cannot be had the handler begins again, as often as
\* it takes.
MCallFails ==
    /\ \/ stage \in {"license", "bits"} /\ Reply("serverError")
       \/ (stage \in {"record", "template"} \/ Signed("contract")) /\ DocRefused("serverError")
       \/ stage = "fetch" /\ Goto("record")
    /\ failed' = TRUE
    /\ UNCHANGED <<outside, asked, source, token, grants>>
\* The call the handler waits for fails or times out, or its client goes away, or
\* the vehicle's id does not fit.
CallFails ==
    /\ \/ stage \in {"license", "bits"} /\ Reply("serverError")
       \/ (stage \in {"record", "template"} \/ Signed("contract")) /\ DocRefused("serverError")
       \/ stage = "fetch" /\ DocRefused("badRequest")
    /\ failed' = TRUE
    /\ UNCHANGED <<outside, asked, source, token, grants>>

Step ==
    \/ Authenticate \/ LicenseAnswers \/ Parse
    \/ RecordAnswers \/ FetchAnswers
    \/ SignatureEmpty \/ ValidEOASignature \/ SignatureAnswers
    \/ \E a \in rest : Skip(a) \/ Foreign(a) \/ Collect(a)
    \/ CollectEnds \/ TemplateAnswers \/ TemplateMissing \/ Evaluate
    \/ NamesToIDs \/ BitsAnswer \/ Sign \/ SignFails
    \/ CallFails

ExchangeNext == Step \/ ChangeWorld \/ Tick

ExchangeSpec == ExchangeInit /\ [][ExchangeNext]_vars

\* The handler waits for a call that nothing bounds: the license look-up, whose
\* HTTP client has no time-out, and the calls to the chain, which carry the
\* request's context.  The document has IPFS_TIMEOUT and the proxy's identity API
\* 5 s.
Unbounded ==
    \/ stage \in {"license", "template"} \/ Signed("contract")
    \/ stage \in {"record", "bits"} /\ ~UsesIdentity(request.asset)

\* The handler runs, and a call that is bounded answers, fails or times out.
FairExchangeSpec == ExchangeSpec /\ WF_vars(~Unbounded /\ Step)

----------------------------------------------------------------------------
(* Properties                                                               *)

Names == Range(PrivilegeIDToName) \cup Range(ManufacturerPrivilegeIDToName)
         \cup UNION {r.permissions : r \in Requests}

Stages == {"auth", "license", "parse", "record", "fetch", "signature", "collect",
           "template", "evaluate", "names", "bits", "sign", "done"}
Replies == {"none", "unauthorized", "badRequest", "forbidden", "serverError", "allowed", "token"}

\* Every variable stays in its type; what is asked for is always permission
\* names, also when the client sent privilege ids (tokenReqToAccessReq).
ExchangeTypeOK ==
    /\ request \in Requests /\ world \in Worlds /\ seen \subseteq Worlds
    /\ now \in 0 .. MaxTime /\ changes \in 0 .. MaxChanges
    /\ stage \in Stages /\ reply \in Replies /\ failed \in BOOLEAN
    /\ asked \subseteq Names
    /\ source \in {w.source : w \in Worlds} \cup {NoSource}
    /\ source \in DOMAIN Document => rest \subseteq Document[source].agreements
    /\ (reply = "none") = (stage # "done") /\ (reply # "token" => token = NoToken)

\* The agreements of a document about the request's asset that were in force
\* at some time while the request ran.
Valid(d, type) ==
    {a \in d.agreements :
        /\ a.type = type /\ a.asset = request.asset
        /\ \E t \in 0 .. now : /\ a.effectiveAt = NoTime \/ a.effectiveAt <= t
                               /\ a.expiresAt = NoTime \/ t <= a.expiresAt}

PermissionsOf(agreements) == UNION {a.permissions : a \in agreements}

\* Signed with the grantor's key, or accepted by the grantor's account.
GrantorSigned(s, w) ==
    \/ Document[s].signature = "key"
    \/ Document[s].signature = "contract" /\ s \in w.accepts

\* A document that was the grant for this asset and grantee, signed by its
\* grantor, whose valid agreements cover every event and permission asked for.
DocGives ==
    /\ ValidSacdDoc(source)
    /\ \E w \in seen : w.source = source
    /\ \E w \in seen : GrantorSigned(source, w)
    /\ LET d == Document[source]
           all == PermissionsOf(Valid(d, "permission"))
       IN /\ d.grantee = request.grantee
          /\ \A f \in request.filters : Asked(f) \subseteq Given({Added(a) : a \in Valid(d, "cloudevent")})
          /\ Wanted(request) \subseteq all
          /\ \/ d.template = NoTemplate \/ Wanted(request) = {}
             \/ /\ d.template \in DOMAIN TemplateAgreements
                /\ \E w \in seen : MatchTemplate(all, TemplateResult(w, d.template))

\* The record on chain, or at the identity API, holds both bits of each privilege.
RecordGives(w) ==
    /\ request.filters = {}
    /\ Wanted(request) \subseteq Range(IDToName(request.asset))
    /\ \/ UsesIdentity(request.asset) /\ w.owns
       \/ \A p \in DOMAIN IDToName(request.asset) :
             IDToName(request.asset)[p] \in Wanted(request) => {2 * p, 2 * p + 1} \subseteq w.bits

\* A permission token, or a yes of AccessCheck, rests on a developer license (for
\* the token) and on one grant that covers all of it: a document each part of which
\* was good at some moment of the request, or the bits of one record. No mixture of
\* ways adds up to access, and no change in between can (ValidateAccess).
TokenIsGranted ==
    reply \in {"token", "allowed"} =>
        /\ request.rpc \/ \E w \in seen : IsDevLicense(w)
        /\ DocGives \/ \E w \in seen : RecordGives(w)

\* The events a filter of a token stands for.
EventsOf(filter) == {e \in Events : Grants(filter, e[1], e[2], e[3], e[4])}

\* What the token itself says, not what the request asked for (SignPrivilegePayload):
\* it is about the grantee and the asset, and every permission and every event in it
\* is given by the accepted document, or every permission by the record and there
\* are no events. Nothing that a refused way had collected gets in.
TokenWithinGrant ==
    reply = "token" =>
        /\ token.subject = request.grantee /\ token.asset = request.asset
        /\ \/ LET d == Document[source]
              IN /\ DocGives
                 /\ token.permissions \subseteq PermissionsOf(Valid(d, "permission"))
                 /\ \A f \in token.filters :
                       EventsOf(f) \subseteq Given({Added(a) : a \in Valid(d, "cloudevent")})
           \/ \E w \in seen :
                 /\ token.filters = {} /\ token.permissions \subseteq Range(IDToName(request.asset))
                 /\ \/ UsesIdentity(request.asset) /\ w.owns
                    \/ \A p \in DOMAIN IDToName(request.asset) :
                          IDToName(request.asset)[p] \in token.permissions => {2 * p, 2 * p + 1} \subseteq w.bits

\* Who still reads the deprecated privilege_ids (signer.go:46-51) reads no more than
\* the names say: an id stands for a permission of the token, all but the 0 that
\* stands for names the vehicles' table does not know, a manufacturer's among them.
IDsMatchNames ==
    reply = "token" =>
        /\ \A p \in token.privilegeIDs :
              \/ p \in DOMAIN PrivilegeIDToName /\ PrivilegeIDToName[p] \in token.permissions
              \/ p = 0 /\ ~(token.permissions \subseteq Range(PrivilegeIDToName))
        /\ \A p \in DOMAIN PrivilegeIDToName :
              PrivilegeIDToName[p] \in token.permissions => p \in token.privilegeIDs

\* What is wrong with the document of the record, when something is.
TemplateFails(d, all) ==
    /\ d.template # NoTemplate
    /\ \/ d.template \notin DOMAIN TemplateAgreements
       \/ ~MatchTemplate(all, TemplateResult(world, d.template))

DocFails ==
    \/ ~ValidSacdDoc(world.source)
    \/ LET d == Document[world.source]
           all == PermissionsOf(Valid(d, "permission"))
       IN \/ d.grantee # request.grantee \/ ~GrantorSigned(world.source, world)
          \/ \E a \in d.agreements : InForce(a, now) /\ a.asset # request.asset
          \/ ~EvaluateCloudEvents({Added(a) : a \in Valid(d, "cloudevent")}, request.filters)
          \/ ~(Wanted(request) \subseteq all) \/ TemplateFails(d, all)

\* Nothing changed and nothing failed since the request began.
Quiet == seen = {world} /\ now = 0 /\ ~failed

Licensed == request.rpc \/ IsDevLicense(world)

\* While nothing changes and nothing fails, whoever has access gets it: the
\* fallback is taken when it should be, and no order of agreements matters.
GrantedIsServed ==
    Quiet /\ Licensed /\ reply \in {"forbidden", "serverError"} =>
        DocFails /\ ~RecordGives(world)

\* ExchangeToken signs no token without permissions and events, whichever way the
\* request spelt them and whatever the checks found.
NoEmptyToken ==
    reply = "token" => token.permissions # {} \/ token.filters # {}

\* Every request is answered, by whichever ways it falls through and whatever
\* changes or fails meanwhile (ExchangeToken, AccessCheck), or it waits for ever in
\* one call that no time-out bounds (identity_service.go:29, validator.go:57): it
\* hangs nowhere else, and keeps going round nowhere.
ExchangeAnswered == <>(stage = "done") \/ <>[]Unbounded

=============================================================================
