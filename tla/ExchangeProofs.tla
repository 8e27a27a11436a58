--------------------------- MODULE ExchangeProofs ---------------------------
(***************************************************************************)
(* The invariants of Exchange for every request, every document, every       *)
(* history of the chain and the identity API, and any number of changes       *)
(* between two calls.                                                         *)
(***************************************************************************)
EXTENDS Exchange, TLAPS

\* EvaluateCloudEvents is sound: what it lets a filter have, wildcards and
\* combinations of agreements included, the agreements give event by event.
LEMMA CloudEventsSound ==
    ASSUME NEW A, NEW B, A \subseteq B, NEW F, NEW f \in F, EvaluateCloudEvents(A, F)
    PROVE  Asked(f) \subseteq Given(B)
<1> DEFINE d == WithDefaults(f)
<1>1. SUFFICES ASSUME NEW e \in Asked(f) PROVE e \in Given(B)
  OBVIOUS
<1>2. e \in Events /\ Grants(d, e[1], e[2], e[3], e[4])
  BY <1>1 DEF Asked
<1>3. PICK i \in d.ids : i = e[3] \/ i = GlobalIdentifier
  BY <1>2 DEF Grants, MatchesAny
<1>4. PICK tag \in d.tags : tag = e[4] \/ tag = GlobalIdentifier
  BY <1>2 DEF Grants, MatchesAny
<1>5. PICK a \in A : Grants(a, d.eventType, d.source, i, tag)
  BY <1>3, <1>4 DEF EvaluateCloudEvents
<1>6. Grants(a, e[1], e[2], e[3], e[4])
  BY <1>2, <1>3, <1>4, <1>5 DEF Grants, Matches, MatchesAny
<1> QED BY <1>2, <1>5, <1>6 DEF Given

\* A filter that leaves nothing open: one type, one source, named ids and tags.
Named(f) ==
    /\ f.eventType \in EventTypes \ {GlobalIdentifier, Unset}
    /\ f.source \in EventSources \ {GlobalIdentifier, Unset}
    /\ f.ids \in SUBSET (EventIDs \ {GlobalIdentifier}) /\ f.ids # {}
    /\ f.tags \in SUBSET (EventTags \ {GlobalIdentifier}) /\ f.tags # {}

\* EvaluateCloudEvents is exact where nothing is left open: it lets filters have
\* named events just when the agreements give each of them, whichever agreement
\* gives which. (A wildcard asked for is only ever met by a wildcard.)
THEOREM CloudEventsExact ==
    ASSUME NEW A, NEW F, \A f \in F : Named(f)
    PROVE  EvaluateCloudEvents(A, F) <=> \A f \in F : Asked(f) \subseteq Given(A)
<1>1. ASSUME EvaluateCloudEvents(A, F), NEW f \in F PROVE Asked(f) \subseteq Given(A)
  BY <1>1, CloudEventsSound
<1>2. ASSUME \A f \in F : Asked(f) \subseteq Given(A) PROVE EvaluateCloudEvents(A, F)
  <2>1. SUFFICES ASSUME NEW f \in F, NEW i \in WithDefaults(f).ids, NEW tag \in WithDefaults(f).tags
                 PROVE  \E a \in A : Grants(a, WithDefaults(f).eventType, WithDefaults(f).source, i, tag)
    BY DEF EvaluateCloudEvents
  <2> DEFINE e == <<f.eventType, f.source, i, tag>>
  <2>2. Named(f)
    OBVIOUS
  <2>3. /\ WithDefaults(f).eventType = f.eventType /\ WithDefaults(f).source = f.source
        /\ WithDefaults(f).ids = f.ids /\ WithDefaults(f).tags = f.tags
    BY <2>2 DEF Named, WithDefaults, OrGlobal, AnyIfNone
  <2>4. e \in Events /\ e[1] = f.eventType /\ e[2] = f.source /\ e[3] = i /\ e[4] = tag
    BY <2>1, <2>2, <2>3 DEF Named, Events
  <2>5. Grants(WithDefaults(f), e[1], e[2], e[3], e[4])
    BY <2>1, <2>3, <2>4 DEF Grants, Matches, MatchesAny
  <2>6. e \in Given(A)
    BY <1>2, <2>4, <2>5 DEF Asked
  <2>7. PICK a \in A : Grants(a, e[1], e[2], e[3], e[4])
    BY <2>6 DEF Given
  <2> QED BY <2>3, <2>4, <2>7
<1> QED BY <1>1, <1>2

\* A privilege's name leads back to its id.
LEMMA NameToIDInverts ==
    ASSUME NEW f, IsInjective(f), NEW p \in DOMAIN f
    PROVE  f[p] \in DOMAIN NameToID(f) /\ NameToID(f)[f[p]] = p
BY DEF NameToID, AntiFunction, Inverse, IsInjective, Range

\* EvaluatePermissionsBits is sound: when nothing lacks, the record holds both
\* bits of every privilege asked for, or the grantee owns the vehicle.
LEMMA RecordSound ==
    ASSUME NEW w, request.filters = {},
           asked = Wanted(request),
           asked \subseteq DOMAIN NameToID(IDToName(request.asset)),
           LackBits(IDs(request.asset, asked),
                    HeldBits(w, request.asset, Mask(IDs(request.asset, asked)))) = {}
    PROVE  RecordGives(w)
<1> DEFINE f == IDToName(request.asset)  ids == IDs(request.asset, asked)
<1>1. IsInjective(f)
  BY AccessAssumption DEF IDToName
<1>2. asked \subseteq Range(f)
  BY DEF NameToID, AntiFunction, Inverse
<1>3. CASE UsesIdentity(request.asset) /\ w.owns
  BY <1>2, <1>3 DEF RecordGives
<1>4. CASE ~(UsesIdentity(request.asset) /\ w.owns)
  <2>1. SUFFICES ASSUME NEW p \in DOMAIN f, f[p] \in Wanted(request)
                 PROVE  {2 * p, 2 * p + 1} \subseteq w.bits
    BY <1>2 DEF RecordGives
  <2>2. NameToID(f)[f[p]] = p
    BY <1>1, NameToIDInverts
  <2>3. p \in ids
    BY <2>1, <2>2 DEF IDs
  <2>4. 2 * p \in HeldBits(w, request.asset, Mask(ids)) /\ 2 * p + 1 \in HeldBits(w, request.asset, Mask(ids))
    BY <2>3 DEF LackBits
  <2> QED BY <1>4, <2>4 DEF HeldBits
<1> QED BY <1>3, <1>4

----------------------------------------------------------------------------

\* Where the document of the record has passed the checks on it so far.
Checked == {"signature", "collect", "template", "evaluate"}
Accepted == {"collect", "template", "evaluate"}

\* Some way gives access: what a token or a yes must rest on.
Access == DocGives \/ \E w \in seen : RecordGives(w)

TypeInv == now \in Nat /\ world \in seen /\ (stage # "done" => reply = "none")

LicenseInv ==
    ~request.rpc /\ (stage \notin {"auth", "license", "done"} \/ reply \in {"token", "allowed"})
        => \E w \in seen : IsDevLicense(w)

AskedInv == stage \notin {"auth", "license", "parse", "done"} => asked = Wanted(request)

SourceInv ==
    /\ stage \in Checked \cup {"fetch"} => \E w \in seen : w.source = source
    /\ stage \in Checked => /\ ValidSacdDoc(source)
                            /\ Document[source].grantee = request.grantee

\* What has been collected comes from valid agreements of the accepted document.
CollectedInv ==
    stage \in Accepted =>
        /\ \E w \in seen : GrantorSigned(source, w)
        /\ rest \subseteq Document[source].agreements
        /\ events \subseteq {Added(a) : a \in Valid(Document[source], "cloudevent")}
        /\ granted \subseteq PermissionsOf(Valid(Document[source], "permission"))

\* Nothing is collected before, so a document starts from nothing.
FreshInv == stage \in {"auth", "license", "parse", "record", "fetch", "signature"} =>
                rest = {} /\ events = {} /\ granted = {}

TemplateInv ==
    stage = "evaluate" =>
        LET id == Document[source].template
        IN \/ id = NoTemplate \/ granted = {}
           \/ id \in DOMAIN TemplateAgreements
              /\ \E w \in seen : MatchTemplate(granted, TemplateResult(w, id))

\* The fallback is for requests without event filters.
FallbackInv == stage \in {"names", "bits"} => request.filters = {}
NamesInv == stage = "bits" => asked \subseteq DOMAIN NameToID(IDToName(request.asset))

AccessInv == stage = "sign" \/ reply \in {"token", "allowed"} => Access

\* The inductive invariant.
ExchangeInv ==
    /\ TypeInv /\ LicenseInv /\ AskedInv /\ SourceInv /\ CollectedInv /\ FreshInv
    /\ TemplateInv /\ FallbackInv /\ NamesInv /\ AccessInv

\* What was valid in a shorter request is valid in a longer one.
LEMMA ValidGrows ==
    ASSUME now \in Nat, now' \in Nat, now <= now', request' = request, NEW d, NEW type
    PROVE  Valid(d, type) \subseteq Valid(d, type)'
<1>1. 0 .. now \subseteq 0 .. now'
  OBVIOUS
<1> QED BY <1>1 DEF Valid

\* Access that was there stays seen, whatever changes.
LEMMA AccessStays ==
    ASSUME TypeInv, now' \in Nat, now <= now', request' = request, source' = source,
           seen \subseteq seen', Access
    PROVE  Access'
<1>1. CASE \E w \in seen : RecordGives(w)
  BY <1>1 DEF Access, RecordGives
<1>2. CASE DocGives
  <2> DEFINE d == Document[source]
             all == PermissionsOf(Valid(d, "permission"))
             given == {Added(a) : a \in Valid(d, "cloudevent")}
  <2>1. Valid(d, "permission") \subseteq Valid(d, "permission")' /\ Valid(d, "cloudevent") \subseteq Valid(d, "cloudevent")'
    BY ValidGrows DEF TypeInv
  <2>2. all \subseteq all' /\ Given(given) \subseteq Given(given')
    BY <2>1 DEF PermissionsOf, Given
  <2> QED BY <1>2, <2>2 DEF Access, DocGives, MatchTemplate, TemplateResult, TemplateAnswer, Wanted
<1> QED BY <1>1, <1>2 DEF Access

----------------------------------------------------------------------------

\* The world, or the clock, moves under a request: what was seen stays seen.
LEMMA OutsideMoves ==
    ASSUME ExchangeInv, ChangeWorld \/ Tick
    PROVE  ExchangeInv'
<1>1. /\ now \in Nat /\ now' \in Nat /\ now <= now' /\ seen \subseteq seen' /\ world' \in seen'
      /\ UNCHANGED <<request, stage, asked, source, rest, events, granted, reply, token>>
  BY DEF ExchangeInv, TypeInv, ChangeWorld, Tick, flow, grants
<1>2. TypeInv'
  BY <1>1 DEF ExchangeInv, TypeInv
<1>3. LicenseInv' /\ AskedInv' /\ SourceInv' /\ FreshInv' /\ FallbackInv' /\ NamesInv'
  BY <1>1 DEF ExchangeInv, LicenseInv, AskedInv, SourceInv, FreshInv, FallbackInv, NamesInv, Wanted
<1>4. CollectedInv'
  <2>1. \A type : Valid(Document[source], type) \subseteq Valid(Document[source], type)'
    BY <1>1, ValidGrows
  <2> QED BY <1>1, <2>1 DEF ExchangeInv, CollectedInv, PermissionsOf
<1>5. TemplateInv'
  BY <1>1 DEF ExchangeInv, TemplateInv, MatchTemplate, TemplateResult, TemplateAnswer
<1>6. AccessInv'
  BY <1>1, AccessStays DEF ExchangeInv, AccessInv
<1> QED BY <1>2, <1>3, <1>4, <1>5, <1>6 DEF ExchangeInv

\* Access seen before a step of the handler that keeps the record read is seen after.
LEMMA AccessKept ==
    ASSUME TypeInv, Access, UNCHANGED <<outside, source>>
    PROVE  Access'
BY AccessStays DEF TypeInv, outside

\* Collecting an agreement in force about the asset adds only what is valid.
LEMMA CollectKeeps ==
    ASSUME ExchangeInv, NEW a \in rest, Collect(a)
    PROVE  CollectedInv'
<1> DEFINE d == Document[source]
<1>1. /\ UNCHANGED <<request, now, seen, source, stage>> /\ now \in Nat
      /\ rest \subseteq d.agreements /\ rest' = rest \ {a} /\ stage = "collect"
      /\ events \subseteq {Added(b) : b \in Valid(d, "cloudevent")}
      /\ granted \subseteq PermissionsOf(Valid(d, "permission"))
      /\ \E w \in seen : GrantorSigned(source, w)
  BY DEF Collect, ExchangeInv, CollectedInv, Accepted, TypeInv, outside, flow
<1>2. \A type : a.type = type => a \in Valid(d, type)
  <2>1. /\ a.effectiveAt = NoTime \/ a.effectiveAt <= now
        /\ a.expiresAt = NoTime \/ now <= a.expiresAt
    BY DEF Collect, InForce
  <2>2. now \in 0 .. now
    BY <1>1
  <2> QED BY <1>1, <2>1, <2>2 DEF Valid, Collect, About
<1>3. UNCHANGED <<Valid(d, "cloudevent"), Valid(d, "permission")>>
  BY <1>1 DEF Valid
<1>4. events' \subseteq {Added(b) : b \in Valid(d, "cloudevent")}
  BY <1>1, <1>2 DEF Collect
<1>5. granted' \subseteq PermissionsOf(Valid(d, "permission"))
  BY <1>1, <1>2 DEF Collect, PermissionsOf
<1> QED BY <1>1, <1>3, <1>4, <1>5 DEF CollectedInv, PermissionsOf

\* A document that passes Evaluate gives access.
LEMMA EvaluateSound ==
    ASSUME ExchangeInv, stage = "evaluate",
           EvaluateCloudEvents(events, request.filters),
           EvaluatePermissions(granted, asked) = {}
    PROVE  DocGives
<1> DEFINE d == Document[source]
           all == PermissionsOf(Valid(d, "permission"))
<1>1. /\ ValidSacdDoc(source) /\ d.grantee = request.grantee
      /\ \E w \in seen : w.source = source
      /\ \E w \in seen : GrantorSigned(source, w)
      /\ events \subseteq {Added(a) : a \in Valid(d, "cloudevent")} /\ granted \subseteq all
  BY DEF ExchangeInv, SourceInv, CollectedInv, Checked, Accepted
<1>2. Wanted(request) \subseteq granted
  BY DEF ExchangeInv, AskedInv, EvaluatePermissions
<1>3. \A f \in request.filters : Asked(f) \subseteq Given({Added(a) : a \in Valid(d, "cloudevent")})
  BY <1>1, CloudEventsSound
<1>4. \/ d.template = NoTemplate \/ Wanted(request) = {}
      \/ /\ d.template \in DOMAIN TemplateAgreements
         /\ \E w \in seen : MatchTemplate(all, TemplateResult(w, d.template))
  BY <1>1, <1>2 DEF ExchangeInv, TemplateInv, MatchTemplate
<1> QED BY <1>1, <1>2, <1>3, <1>4 DEF DocGives

\* Every step of the handler keeps the invariant; the interesting ones are those
\* that collect, read a template, and decide.
LEMMA HandlerSteps ==
    ASSUME ExchangeInv, Step
    PROVE  ExchangeInv'
<1> USE DEF outside, flow, grants, Goto, Reply, DocRefused, Checked, Accepted
<1>1. CASE Authenticate
  BY <1>1 DEF Authenticate, ExchangeInv, TypeInv, LicenseInv, AskedInv, SourceInv, CollectedInv, FreshInv,
           TemplateInv, FallbackInv, NamesInv, AccessInv
<1>2. CASE LicenseAnswers
  BY <1>2 DEF LicenseAnswers, ExchangeInv, TypeInv, LicenseInv, AskedInv, SourceInv, CollectedInv, FreshInv,
           TemplateInv, FallbackInv, NamesInv, AccessInv
<1>3. CASE Parse
  BY <1>3 DEF Parse, ExchangeInv, TypeInv, LicenseInv, AskedInv, SourceInv, CollectedInv, FreshInv,
           TemplateInv, FallbackInv, NamesInv, AccessInv
<1>4. CASE RecordAnswers
  BY <1>4 DEF RecordAnswers, ExchangeInv, TypeInv, LicenseInv, AskedInv, SourceInv, CollectedInv, FreshInv,
           TemplateInv, FallbackInv, NamesInv, AccessInv
<1>5. CASE FetchAnswers
  BY <1>5 DEF FetchAnswers, ExchangeInv, TypeInv, LicenseInv, AskedInv, SourceInv, CollectedInv, FreshInv,
           TemplateInv, FallbackInv, NamesInv, AccessInv
<1>6. CASE SignatureEmpty \/ ValidEOASignature \/ SignatureAnswers
  <2>1. CollectedInv'
    <3>1. CASE stage' = "collect"
      <4>1. /\ UNCHANGED <<source, seen, events, granted>> /\ rest' = Document[source].agreements
            /\ \E w \in seen : GrantorSigned(source, w)
        BY <1>6, <3>1 DEF SignatureEmpty, ValidEOASignature, SignatureAnswers, Signed, Collecting,
             ExchangeInv, TypeInv, GrantorSigned
      <4>2. events = {} /\ granted = {}
        BY <1>6 DEF SignatureEmpty, ValidEOASignature, SignatureAnswers, Signed, ExchangeInv, FreshInv
      <4> QED BY <4>1, <4>2 DEF CollectedInv, GrantorSigned
    <3>2. CASE stage' # "collect"
      BY <1>6, <3>2 DEF SignatureEmpty, ValidEOASignature, SignatureAnswers, Signed, Collecting, CollectedInv
    <3> QED BY <3>1, <3>2
  <2> QED BY <1>6, <2>1 DEF SignatureEmpty, ValidEOASignature, SignatureAnswers, Signed, Collecting, ExchangeInv, TypeInv, LicenseInv, AskedInv, SourceInv, CollectedInv, FreshInv,
           TemplateInv, FallbackInv, NamesInv, AccessInv
<1>7. ASSUME NEW a \in rest, Skip(a) PROVE ExchangeInv'
  <2>1. CollectedInv'
    BY <1>7 DEF Skip, ExchangeInv, CollectedInv, Valid, PermissionsOf
  <2> QED BY <1>7, <2>1 DEF Skip, ExchangeInv, TypeInv, LicenseInv, AskedInv, SourceInv, CollectedInv, FreshInv,
           TemplateInv, FallbackInv, NamesInv, AccessInv
<1>8. ASSUME NEW a \in rest, Foreign(a) PROVE ExchangeInv'
  BY <1>8 DEF Foreign, ExchangeInv, TypeInv, LicenseInv, AskedInv, SourceInv, CollectedInv, FreshInv,
           TemplateInv, FallbackInv, NamesInv, AccessInv
<1>9. ASSUME NEW a \in rest, Collect(a) PROVE ExchangeInv'
  <2>1. CollectedInv'
    BY <1>9, CollectKeeps
  <2> QED BY <1>9, <2>1 DEF Collect, ExchangeInv, TypeInv, LicenseInv, AskedInv, SourceInv, CollectedInv, FreshInv,
           TemplateInv, FallbackInv, NamesInv, AccessInv
<1>10. CASE CollectEnds
  <2>1. CollectedInv'
    BY <1>10 DEF CollectEnds, ExchangeInv, CollectedInv, Valid, PermissionsOf
  <2> QED BY <1>10, <2>1 DEF CollectEnds, ExchangeInv, TypeInv, LicenseInv, AskedInv, SourceInv, CollectedInv, FreshInv,
           TemplateInv, FallbackInv, NamesInv, AccessInv
<1>11. CASE TemplateAnswers
  <2>1. CollectedInv'
    BY <1>11 DEF TemplateAnswers, ExchangeInv, CollectedInv, Valid, PermissionsOf
  <2>2. TemplateInv'
    BY <1>11 DEF TemplateAnswers, ExchangeInv, TypeInv, TemplateInv, TemplateResult, TemplateAnswer, MatchTemplate
  <2> QED BY <1>11, <2>1, <2>2 DEF TemplateAnswers, ExchangeInv, TypeInv, LicenseInv, AskedInv, SourceInv, CollectedInv, FreshInv,
           TemplateInv, FallbackInv, NamesInv, AccessInv
<1>12. CASE TemplateMissing
  BY <1>12 DEF TemplateMissing, ExchangeInv, TypeInv, LicenseInv, AskedInv, SourceInv, CollectedInv, FreshInv,
           TemplateInv, FallbackInv, NamesInv, AccessInv
<1>13. CASE Evaluate
  <2>1. AccessInv'
    <3>1. CASE EvaluateCloudEvents(events, request.filters) /\ EvaluatePermissions(granted, asked) = {}
      <4>1. Access
        BY <1>13, <3>1, EvaluateSound DEF Evaluate, Access
      <4> QED BY <1>13, <4>1, AccessKept DEF Evaluate, ExchangeInv, AccessInv
    <3>2. CASE ~(EvaluateCloudEvents(events, request.filters) /\ EvaluatePermissions(granted, asked) = {})
      BY <1>13, <3>2 DEF Evaluate, ExchangeInv, TypeInv, AccessInv
    <3> QED BY <3>1, <3>2
  <2> QED BY <1>13, <2>1 DEF Evaluate, Allow, ExchangeInv, TypeInv, LicenseInv, AskedInv, SourceInv, CollectedInv, FreshInv,
           TemplateInv, FallbackInv, NamesInv, AccessInv
<1>14. CASE NamesToIDs
  BY <1>14 DEF NamesToIDs, ExchangeInv, TypeInv, LicenseInv, AskedInv, SourceInv, CollectedInv, FreshInv,
           TemplateInv, FallbackInv, NamesInv, AccessInv
<1>15. CASE BitsAnswer
  <2> DEFINE ids == IDs(request.asset, asked)
             enough == LackBits(ids, HeldBits(world, request.asset, Mask(ids))) = {}
  <2>1. AccessInv'
    <3>1. CASE enough
      <4>1. Access
        BY <1>15, <3>1, RecordSound
           DEF BitsAnswer, ExchangeInv, TypeInv, AskedInv, FallbackInv, NamesInv, Access
      <4> QED BY <1>15, <4>1, AccessKept DEF BitsAnswer, ExchangeInv, AccessInv
    <3>2. CASE ~enough
      BY <1>15, <3>2 DEF BitsAnswer, ExchangeInv, TypeInv, AccessInv
    <3> QED BY <3>1, <3>2
  <2> QED BY <1>15, <2>1 DEF BitsAnswer, Allow, ExchangeInv, TypeInv, LicenseInv, AskedInv, SourceInv, CollectedInv, FreshInv,
           TemplateInv, FallbackInv, NamesInv, AccessInv
<1>16. CASE Sign
  <2>1. AccessInv'
    BY <1>16, AccessKept DEF Sign, ExchangeInv, AccessInv
  <2> QED BY <1>16, <2>1 DEF Sign, ExchangeInv, TypeInv, LicenseInv, AskedInv, SourceInv, CollectedInv, FreshInv,
           TemplateInv, FallbackInv, NamesInv, AccessInv
<1>17. CASE SignFails \/ CallFails
  BY <1>17 DEF SignFails, CallFails, Signed, ExchangeInv, TypeInv, LicenseInv, AskedInv, SourceInv, CollectedInv, FreshInv,
           TemplateInv, FallbackInv, NamesInv, AccessInv
<1> QED
  BY <1>1, <1>2, <1>3, <1>4, <1>5, <1>6, <1>7, <1>8, <1>9, <1>10, <1>11, <1>12, <1>13,
     <1>14, <1>15, <1>16, <1>17 DEF Step

LEMMA ExchangeInvariant == ExchangeSpec => []ExchangeInv
<1>1. ExchangeInit => ExchangeInv
  BY DEF ExchangeInit, Checked, Accepted, ExchangeInv, TypeInv, LicenseInv, AskedInv, SourceInv, CollectedInv, FreshInv,
           TemplateInv, FallbackInv, NamesInv, AccessInv
<1>2. ExchangeInv /\ [ExchangeNext]_vars => ExchangeInv'
  <2>1. ASSUME ExchangeInv, UNCHANGED vars PROVE ExchangeInv'
    <3>1. AccessInv'
      BY <2>1, AccessKept DEF vars, outside, ExchangeInv, AccessInv
    <3>2. CollectedInv'
      BY <2>1 DEF vars, ExchangeInv, CollectedInv, Valid, PermissionsOf
    <3>3. TemplateInv'
      BY <2>1 DEF vars, ExchangeInv, TemplateInv, MatchTemplate, TemplateResult, TemplateAnswer
    <3> QED BY <2>1, <3>1, <3>2, <3>3 DEF vars, ExchangeInv, TypeInv, LicenseInv, AskedInv,
               SourceInv, FreshInv, FallbackInv, NamesInv, Wanted
  <2> QED BY <2>1, OutsideMoves, HandlerSteps DEF ExchangeNext
<1> QED BY <1>1, <1>2, PTL DEF ExchangeSpec

\* TokenIsGranted, for every instance: a token, or a yes, rests on one grant each
\* part of which was good at some moment of the request (ValidateAccess).
THEOREM TokenGranted == ExchangeSpec => []TokenIsGranted
<1>1. ExchangeInv => TokenIsGranted
  BY DEF ExchangeInv, TypeInv, LicenseInv, AccessInv, Access, TokenIsGranted
<1> QED BY <1>1, ExchangeInvariant, PTL

\* A token carries what its request asked for, however it was spelt.
Carries ==
    reply = "token" =>
        /\ token.subject = request.grantee /\ token.asset = request.asset
        /\ token.permissions = Wanted(request) /\ token.privilegeIDs = PrivilegeIDs(Wanted(request))
        /\ token.filters = {WithDefaults(f) : f \in request.filters}

LEMMA CarriesInvariant == ExchangeSpec => []Carries
<1>1. ExchangeInit => Carries
  BY DEF ExchangeInit, Carries
<1>2. ASSUME ExchangeInv, Carries, [ExchangeNext]_vars PROVE Carries'
  <2>1. CASE Sign
    BY <2>1, <1>2 DEF Sign, Reply, ExchangeInv, AskedInv, Carries, outside, Wanted
  <2>2. CASE ~Sign
    <3>1. UNCHANGED <<request, token>> /\ (reply' = "token" => reply = "token")
      BY <1>2, <2>2 DEF ExchangeNext, vars, outside, ChangeWorld, Tick, flow, Step, Authenticate, LicenseAnswers,
         Parse, RecordAnswers, FetchAnswers, SignatureEmpty, ValidEOASignature, SignatureAnswers, Collecting,
         Skip, Foreign, Collect, CollectEnds, TemplateAnswers, TemplateMissing, Evaluate, Allow, DocRefused,
         NamesToIDs, BitsAnswer, SignFails, CallFails, Goto, Reply
    <3> QED BY <1>2, <3>1 DEF Carries, Wanted, IDToName
  <2> QED BY <2>1, <2>2
<1> QED BY <1>1, <1>2, ExchangeInvariant, PTL DEF ExchangeSpec

\* TokenWithinGrant, for every instance: SignPrivilegePayload signs no permission and
\* no event that the grant found by ValidateAccess does not give.
THEOREM ClaimsGranted == ExchangeSpec => []TokenWithinGrant
<1>1. Carries /\ TokenIsGranted => TokenWithinGrant
  <2> SUFFICES ASSUME Carries, TokenIsGranted, reply = "token" PROVE TokenWithinGrant
    BY DEF TokenWithinGrant
  <2>1. DocGives \/ \E w \in seen : RecordGives(w)
    BY DEF TokenIsGranted
  <2>2. CASE DocGives
    BY <2>2 DEF DocGives, Carries, TokenWithinGrant, EventsOf, Asked
  <2>3. CASE \E w \in seen : RecordGives(w)
    BY <2>3 DEF RecordGives, Carries, TokenWithinGrant
  <2> QED BY <2>1, <2>2, <2>3
<1> QED BY <1>1, CarriesInvariant, TokenGranted, PTL

\* IDsMatchNames, for every instance and all tables whose names are unique: the ids
\* of a token never stand for a permission that its names do not have.
THEOREM IDsGranted == ExchangeSpec => []IDsMatchNames
<1> DEFINE f == PrivilegeIDToName
<1>1. IsInjective(f) /\ DOMAIN NameToID(f) = Range(f)
  BY AccessAssumption DEF NameToID, AntiFunction, Inverse
<1>2. ASSUME NEW n \in DOMAIN NameToID(f) PROVE \E p \in DOMAIN f : f[p] = n /\ NameToID(f)[n] = p
  BY <1>1, NameToIDInverts DEF Range
<1>3. ASSUME Carries, reply = "token", NEW p \in token.privilegeIDs
      PROVE  \/ p \in DOMAIN f /\ f[p] \in token.permissions
             \/ p = 0 /\ ~(token.permissions \subseteq Range(f))
  BY <1>1, <1>2, <1>3 DEF Carries, PrivilegeIDs
<1>4. ASSUME Carries, reply = "token", NEW p \in DOMAIN f, f[p] \in token.permissions
      PROVE  p \in token.privilegeIDs
  <2>1. f[p] \in DOMAIN NameToID(f) /\ NameToID(f)[f[p]] = p
    BY <1>1, NameToIDInverts
  <2> QED BY <1>4, <2>1 DEF Carries, PrivilegeIDs
<1>5. Carries => IDsMatchNames
  BY <1>3, <1>4 DEF IDsMatchNames
<1> QED BY <1>5, CarriesInvariant, PTL

----------------------------------------------------------------------------
(* Types, and what a token is about                                         *)

\* A request that got past Parse over HTTP asks for something.
SpelledInv ==
    /\ stage \notin {"auth", "license", "parse", "done"} /\ ~request.rpc => ~AsksNothing(request)
    /\ stage \in {"auth", "license", "sign"} => ~request.rpc

TypesInv == ExchangeTypeOK /\ FreshInv /\ AskedInv /\ SpelledInv /\ NoEmptyToken

\* What Parse lets through is asked for by name.
LEMMA WantedNames ==
    ASSUME request \in Requests, ~UnknownPrivileges(request)
    PROVE  Wanted(request) \subseteq Names
<1>1. CASE request.permissions = {}
  <2>1. \A p \in request.privileges : IDToName(request.asset)[p] \in Range(IDToName(request.asset))
    BY <1>1 DEF UnknownPrivileges, Range
  <2> QED BY <1>1, <2>1 DEF Wanted, Names, IDToName
<1>2. CASE request.permissions # {}
  BY <1>2 DEF Wanted, Names
<1> QED BY <1>1, <1>2

\* Asking for something leaves something to sign.
LEMMA SomethingWanted ==
    ASSUME ~AsksNothing(request), request.filters = {}
    PROVE  Wanted(request) # {}
BY DEF AsksNothing, Wanted

LEMMA TypesStay ==
    ASSUME TypesInv, ExchangeNext
    PROVE  TypesInv'
<1> USE DEF outside, flow, grants, Goto, Reply, DocRefused, Allow, ExchangeTypeOK, TypesInv, Stages, Replies
<1>1. CASE ChangeWorld \/ Tick
  BY <1>1, ExchangeAssumption DEF ChangeWorld, Tick, FreshInv, AskedInv, SpelledInv, NoEmptyToken
<1>2. CASE Authenticate \/ LicenseAnswers
  BY <1>2 DEF Authenticate, LicenseAnswers, FreshInv, AskedInv, SpelledInv, NoEmptyToken
<1>3. CASE Parse
  <2>1. ~Invalid(request) => /\ Wanted(request) \subseteq Names
                             /\ request.rpc \/ ~AsksNothing(request)
    BY WantedNames DEF Invalid
  <2> QED BY <1>3, <2>1 DEF Parse, FreshInv, AskedInv, SpelledInv, NoEmptyToken
<1>4. CASE RecordAnswers
  BY <1>4 DEF RecordAnswers, FreshInv, AskedInv, SpelledInv, NoEmptyToken
<1>5. CASE FetchAnswers \/ SignatureEmpty \/ ValidEOASignature \/ SignatureAnswers
  BY <1>5 DEF FetchAnswers, SignatureEmpty, ValidEOASignature, SignatureAnswers, Signed, Collecting,
       FreshInv, AskedInv, SpelledInv, NoEmptyToken
<1>6. ASSUME NEW a \in rest, Skip(a) \/ Foreign(a) \/ Collect(a) PROVE TypesInv'
  BY <1>6 DEF Skip, Foreign, Collect, FreshInv, AskedInv, SpelledInv, NoEmptyToken
<1>7. CASE CollectEnds \/ TemplateAnswers \/ TemplateMissing \/ Evaluate
  BY <1>7 DEF CollectEnds, TemplateAnswers, TemplateMissing, Evaluate,
       FreshInv, AskedInv, SpelledInv, NoEmptyToken
<1>8. CASE NamesToIDs \/ BitsAnswer \/ SignFails \/ CallFails
  BY <1>8 DEF NamesToIDs, BitsAnswer, SignFails, CallFails, Signed, FreshInv, AskedInv, SpelledInv, NoEmptyToken
<1>9. CASE Sign
  <2>1. asked = Wanted(request) /\ ~AsksNothing(request)
    BY <1>9 DEF Sign, AskedInv, SpelledInv
  <2>2. token'.permissions = asked /\ (request.filters # {} => token'.filters # {})
    BY <1>9 DEF Sign
  <2>3. NoEmptyToken'
    BY <2>1, <2>2, SomethingWanted DEF NoEmptyToken
  <2> QED BY <1>9, <2>3 DEF Sign, FreshInv, AskedInv, SpelledInv
<1> QED
  BY <1>1, <1>2, <1>3, <1>4, <1>5, <1>6, <1>7, <1>8, <1>9 DEF ExchangeNext, Step

LEMMA TypesInvariant == ExchangeSpec => []TypesInv
<1>1. ASSUME ExchangeInit PROVE TypesInv
  <2>1. now \in 0 .. MaxTime /\ changes \in 0 .. MaxChanges
    BY <1>1, ExchangeAssumption DEF ExchangeInit
  <2>2. ((stage = "auth" /\ ~request.rpc) \/ stage = "parse") /\ reply = "none" /\ rest = {} /\ events = {} /\ granted = {}
        /\ asked = {} /\ source = NoSource /\ token = NoToken /\ failed = FALSE /\ seen = {world}
        /\ request \in Requests /\ world \in Worlds
    BY <1>1 DEF ExchangeInit
  <2>3. ExchangeTypeOK
    BY <2>1, <2>2 DEF ExchangeTypeOK, Stages, Replies
  <2> QED BY <2>2, <2>3 DEF TypesInv, FreshInv, AskedInv, SpelledInv, NoEmptyToken
<1>2. TypesInv /\ UNCHANGED vars => TypesInv'
  BY DEF vars, TypesInv, ExchangeTypeOK, Stages, Replies, FreshInv, AskedInv, SpelledInv, NoEmptyToken
<1>3. TypesInv /\ [ExchangeNext]_vars => TypesInv'
  BY <1>2, TypesStay
<1> QED BY <1>1, <1>3, PTL DEF ExchangeSpec

\* ExchangeTypeOK, for every instance: whichever way the client spelt its request,
\* the service asks by permission name (tokenReqToAccessReq).
THEOREM TypeCorrect == ExchangeSpec => []ExchangeTypeOK
BY TypesInvariant, PTL DEF TypesInv

\* NoEmptyToken, for every instance: the check on an empty request covers both
\* spellings of it, so nothing empty is ever signed (ExchangeToken).
THEOREM NothingEmptySigned == ExchangeSpec => []NoEmptyToken
BY TypesInvariant, PTL DEF TypesInv

----------------------------------------------------------------------------
(* Whoever has access gets it, while nothing changes and nothing fails      *)

\* What the agreement gives has been collected.
Taken(a) ==
    /\ a.type = "cloudevent" => Added(a) \in events
    /\ a.type = "permission" => a.permissions \subseteq granted

\* In a quiet request the handler knows what the record says, has kept all that is
\* in force, and has left the document only for a flaw in it.
QuietInv ==
    Quiet =>
        /\ stage \notin {"auth", "license", "done"} => Licensed
        /\ stage \in Checked \cup {"fetch"} => source = world.source
        /\ stage \in {"collect", "template"} =>
              \A a \in Document[source].agreements \ rest : InForce(a, now) => About(a) /\ Taken(a)
        /\ stage = "template" => rest = {} /\ Document[source].template # NoTemplate
        /\ stage = "evaluate" =>
              LET d == Document[source]
                  all == PermissionsOf(Valid(d, "permission"))
              IN /\ {Added(a) : a \in Valid(d, "cloudevent")} \subseteq events
                 /\ all \subseteq granted \/ TemplateFails(d, all)
        /\ stage \in {"names", "bits"} => DocFails

ServedInv == QuietInv /\ GrantedIsServed

\* In a quiet request nothing is valid but what is in force now.
LEMMA ValidIsInForce ==
    ASSUME now = 0, NEW d, NEW type, NEW a \in Valid(d, type)
    PROVE  a \in d.agreements /\ a.type = type /\ InForce(a, now)
BY DEF Valid, InForce

\* While the outside stands still and nothing fails, its facts stay.
LEMMA OutsideKept ==
    ASSUME UNCHANGED <<outside, failed>>
    PROVE  UNCHANGED <<Quiet, Licensed, DocFails>>
BY DEF outside, Quiet, Licensed, DocFails, Valid, PermissionsOf, TemplateFails, TemplateResult, TemplateAnswer,
   MatchTemplate, Wanted, GrantorSigned

\* A document left for a flaw in it leaves the invariant alone.
LEMMA RefusalServes ==
    ASSUME NEW answer, DocRefused(answer), UNCHANGED <<outside, failed>>, reply = "none",
           Quiet => DocFails /\ Licensed
    PROVE  ServedInv'
<1> USE DEF DocRefused, Goto, Reply, outside
<1>1. UNCHANGED <<Quiet, Licensed, DocFails>>
  BY OutsideKept
<1>2. CASE request.filters # {}
  <2>1. ~RecordGives(world)'
    BY <1>2 DEF RecordGives
  <2> QED BY <1>1, <1>2, <2>1 DEF ServedInv, QuietInv, GrantedIsServed, Checked
<1>3. CASE request.filters = {}
  BY <1>1, <1>3 DEF ServedInv, QuietInv, GrantedIsServed, Checked
<1> QED BY <1>2, <1>3

\* Names lead to privilege ids and back.
LEMMA IDToNameInverts ==
    ASSUME NEW f, NEW n \in DOMAIN NameToID(f)
    PROVE  NameToID(f)[n] \in DOMAIN f /\ f[NameToID(f)[n]] = n
BY DEF NameToID, AntiFunction, Inverse, Range

\* When a bit lacks, the record does not give what was asked for.
LEMMA LackedIsDenied ==
    ASSUME asked = Wanted(request),
           asked \subseteq DOMAIN NameToID(IDToName(request.asset)),
           LackBits(IDs(request.asset, asked),
                    HeldBits(world, request.asset, Mask(IDs(request.asset, asked)))) # {}
    PROVE  ~RecordGives(world)
<1> DEFINE f == IDToName(request.asset)  ids == IDs(request.asset, asked)
<1>1. PICK p \in ids : \/ 2 * p \notin HeldBits(world, request.asset, Mask(ids))
                      \/ 2 * p + 1 \notin HeldBits(world, request.asset, Mask(ids))
  BY DEF LackBits
<1>2. {2 * p, 2 * p + 1} \subseteq Mask(ids)
  BY <1>1 DEF Mask
<1>3. PICK n \in asked : p = NameToID(f)[n]
  BY <1>1 DEF IDs
<1>4. p \in DOMAIN f /\ f[p] \in Wanted(request)
  BY <1>3, IDToNameInverts
<1>5. ~(UsesIdentity(request.asset) /\ world.owns) /\ ~({2 * p, 2 * p + 1} \subseteq world.bits)
  BY <1>1, <1>2 DEF HeldBits
<1> QED BY <1>4, <1>5 DEF RecordGives

LEMMA ServedStays ==
    ASSUME TypesInv, ExchangeInv, ServedInv, ExchangeNext
    PROVE  ServedInv'
<1> USE DEF outside, flow, grants, Goto, Reply, Checked
<1> DEFINE d == Document[source]
           all == PermissionsOf(Valid(d, "permission"))
<1>0. stage # "done" => reply = "none"
  BY DEF ExchangeInv, TypeInv
<1>1. CASE ChangeWorld \/ Tick
  <2>1. ~Quiet'
    BY <1>1 DEF ChangeWorld, Tick, Quiet, ExchangeInv, TypeInv
  <2> QED BY <2>1 DEF ServedInv, QuietInv, GrantedIsServed
<1>2. CASE SignFails \/ CallFails
  <2>1. ~Quiet'
    BY <1>2 DEF SignFails, CallFails, Quiet
  <2> QED BY <2>1 DEF ServedInv, QuietInv, GrantedIsServed
<1>3. CASE Authenticate \/ LicenseAnswers \/ Parse
  <2>1. UNCHANGED <<Quiet, Licensed, DocFails>>
    BY <1>3, OutsideKept DEF Authenticate, LicenseAnswers, Parse
  <2>2. stage' \in {"license", "parse", "record", "done"} /\ QuietInv'
    BY <1>0, <1>3, <2>1 DEF Authenticate, LicenseAnswers, Parse, ServedInv, QuietInv, Quiet, Licensed
  <2>3. GrantedIsServed'
    BY <1>0, <1>3, <2>1 DEF Authenticate, LicenseAnswers, Parse, GrantedIsServed, Licensed, TypesInv, SpelledInv
  <2> QED BY <2>2, <2>3 DEF ServedInv
<1>4. CASE RecordAnswers
  BY <1>0, <1>4, OutsideKept DEF RecordAnswers, ServedInv, QuietInv, GrantedIsServed, Quiet
<1>5. CASE FetchAnswers
  <2>1. CASE stage' = "signature"
    BY <1>0, <1>5, <2>1, OutsideKept DEF FetchAnswers, DocRefused, ServedInv, QuietInv, GrantedIsServed
  <2>2. ASSUME NEW answer, DocRefused(answer), ~ValidSacdDoc(source) \/ d.grantee # request.grantee
        PROVE  ServedInv'
    BY <1>0, <1>5, <2>2, RefusalServes DEF FetchAnswers, ServedInv, QuietInv, DocFails
  <2> QED BY <1>5, <2>1, <2>2 DEF FetchAnswers
<1>6. CASE SignatureEmpty \/ ValidEOASignature \/ SignatureAnswers
  <2>0. stage = "signature" /\ UNCHANGED <<outside, failed>> /\ UNCHANGED source
    BY <1>6 DEF SignatureEmpty, ValidEOASignature, SignatureAnswers, Signed
  <2>1. CASE Collecting
    <3>1. UNCHANGED <<Quiet, Licensed, DocFails>>
      BY <2>0, OutsideKept
    <3> QED BY <1>0, <2>0, <2>1, <3>1 DEF Collecting, ServedInv, QuietInv, GrantedIsServed
  <2>2. ASSUME NEW answer, DocRefused(answer), ~GrantorSigned(source, world)
        PROVE  ServedInv'
    <3>1. Quiet => DocFails /\ Licensed
      BY <2>0, <2>2 DEF ServedInv, QuietInv, DocFails
    <3> QED BY <1>0, <2>0, <2>2, <3>1, RefusalServes
  <2>3. \/ Collecting
        \/ ~GrantorSigned(source, world) /\ (DocRefused("serverError") \/ DocRefused("forbidden"))
    BY <1>6 DEF SignatureEmpty, ValidEOASignature, SignatureAnswers, Signed, GrantorSigned
  <2> QED BY <2>1, <2>2, <2>3
<1>7. ASSUME NEW a \in rest, Skip(a) \/ Collect(a) PROVE ServedInv'
  <2>0. stage = "collect" /\ UNCHANGED <<outside, failed>> /\ UNCHANGED <<source, stage, reply>>
        /\ rest' = rest \ {a}
    BY <1>7 DEF Skip, Collect
  <2>1. UNCHANGED <<Quiet, Licensed, DocFails>>
    BY <2>0, OutsideKept
  <2>2. \A b : Taken(b) => Taken(b)'
    BY <1>7 DEF Skip, Collect, Taken
  <2>3. InForce(a, now) => About(a) /\ Taken(a)'
    BY <1>7 DEF Skip, Collect, Taken
  <2>4. \A b : About(b)' = About(b)
    BY <2>0 DEF About
  <2> QED BY <1>0, <2>0, <2>1, <2>2, <2>3, <2>4 DEF ServedInv, QuietInv, GrantedIsServed
<1>8. ASSUME NEW a \in rest, Foreign(a) PROVE ServedInv'
  <2>1. Quiet => DocFails /\ Licensed
    BY <1>8 DEF Foreign, About, ServedInv, QuietInv, DocFails, ExchangeInv, CollectedInv, Accepted
  <2> QED BY <1>0, <1>8, <2>1, RefusalServes DEF Foreign
<1>9. CASE CollectEnds
  <2>0. /\ stage = "collect" /\ rest = {} /\ UNCHANGED <<outside, failed>>
        /\ UNCHANGED <<source, reply, rest, events, granted>>
        /\ stage' = IF d.template = NoTemplate THEN "evaluate" ELSE "template"
    BY <1>9 DEF CollectEnds
  <2>1. UNCHANGED <<Quiet, Licensed, DocFails>>
    BY <2>0, OutsideKept
  <2>2. ASSUME Quiet PROVE \A a \in d.agreements : InForce(a, now) => About(a) /\ Taken(a)
    BY <2>0, <2>2 DEF ServedInv, QuietInv
  <2>3. Quiet => {Added(a) : a \in Valid(d, "cloudevent")} \subseteq events /\ all \subseteq granted
    BY <2>2, ValidIsInForce DEF Taken, Quiet, PermissionsOf
  <2>4. UNCHANGED <<Valid(d, "cloudevent"), all>> /\ \A a : About(a)' = About(a) /\ Taken(a)' = Taken(a)
    BY <2>0 DEF Valid, PermissionsOf, About, Taken
  <2> QED BY <1>0, <2>0, <2>1, <2>2, <2>3, <2>4 DEF ServedInv, QuietInv, GrantedIsServed
<1>10. CASE TemplateAnswers
  <2> DEFINE id == d.template  r == TemplateResult(world, id)
  <2>0. /\ stage = "template" /\ stage' = "evaluate" /\ UNCHANGED <<outside, failed>>
        /\ UNCHANGED <<source, reply, rest, events>>
        /\ granted' = IF MatchTemplate(granted, r) THEN granted ELSE {}
    BY <1>10 DEF TemplateAnswers
  <2>1. UNCHANGED <<Quiet, Licensed, DocFails, Valid(d, "cloudevent"), all, TemplateFails(d, all)>>
    BY <2>0, OutsideKept DEF Valid, PermissionsOf, TemplateFails, TemplateResult, TemplateAnswer, MatchTemplate
  <2>2. ASSUME Quiet PROVE \A a \in d.agreements : InForce(a, now) => Taken(a)
    BY <2>0, <2>2 DEF ServedInv, QuietInv
  <2>3. Quiet => {Added(a) : a \in Valid(d, "cloudevent")} \subseteq events /\ all \subseteq granted
    BY <2>2, ValidIsInForce DEF Taken, Quiet, PermissionsOf
  <2>4. Quiet => all \subseteq granted' \/ TemplateFails(d, all)
    <3>1. granted \subseteq all
      BY <2>0 DEF ExchangeInv, CollectedInv, Accepted
    <3>2. Quiet => d.template # NoTemplate
      BY <2>0 DEF ServedInv, QuietInv
    <3> QED BY <2>0, <2>3, <3>1, <3>2 DEF TemplateFails, MatchTemplate
  <2> QED BY <1>0, <2>0, <2>1, <2>3, <2>4 DEF ServedInv, QuietInv, GrantedIsServed
<1>11. CASE TemplateMissing
  <2>1. Quiet => DocFails /\ Licensed
    BY <1>11 DEF TemplateMissing, ServedInv, QuietInv, DocFails, TemplateFails
  <2> QED BY <1>0, <1>11, <2>1, RefusalServes DEF TemplateMissing
<1>12. CASE Evaluate
  <2>1. CASE stage' = "sign" \/ reply' = "allowed"
    BY <1>0, <1>12, <2>1, OutsideKept DEF Evaluate, Allow, DocRefused, ServedInv, QuietInv, GrantedIsServed
  <2>2. ASSUME DocRefused("forbidden"),
               ~(EvaluateCloudEvents(events, request.filters) /\ EvaluatePermissions(granted, asked) = {})
        PROVE  ServedInv'
    <3>1. Quiet => DocFails /\ Licensed
      BY <1>12, <2>2 DEF Evaluate, ServedInv, QuietInv, DocFails, EvaluateCloudEvents, EvaluatePermissions,
           ExchangeInv, AskedInv
    <3> QED BY <1>0, <1>12, <2>2, <3>1, RefusalServes DEF Evaluate
  <2> QED BY <1>12, <2>1, <2>2 DEF Evaluate, Allow
<1>13. CASE NamesToIDs
  <2>1. UNCHANGED <<Quiet, Licensed, DocFails>> /\ stage = "names"
    BY <1>13, OutsideKept DEF NamesToIDs
  <2>2. ~(asked \subseteq DOMAIN NameToID(IDToName(request.asset))) => ~RecordGives(world)
    BY <2>1 DEF RecordGives, NameToID, AntiFunction, Inverse, ExchangeInv, AskedInv
  <2>3. RecordGives(world)' = RecordGives(world)
    BY <1>13 DEF NamesToIDs, RecordGives, Wanted
  <2> QED BY <1>0, <1>13, <2>1, <2>2, <2>3 DEF NamesToIDs, ServedInv, QuietInv, GrantedIsServed
<1>14. CASE BitsAnswer
  <2>1. UNCHANGED <<Quiet, Licensed, DocFails>> /\ stage = "bits"
    BY <1>14, OutsideKept DEF BitsAnswer
  <2>2. reply' = "forbidden" => ~RecordGives(world)
    BY <1>0, <1>14, <2>1, LackedIsDenied DEF BitsAnswer, Allow, ExchangeInv, AskedInv, NamesInv
  <2>3. RecordGives(world)' = RecordGives(world)
    BY <1>14 DEF BitsAnswer, RecordGives, Wanted
  <2>4. stage' \in {"sign", "done"} /\ reply' # "serverError"
    BY <1>0, <1>14, <2>1 DEF BitsAnswer, Allow
  <2> QED BY <2>1, <2>2, <2>3, <2>4 DEF ServedInv, QuietInv, GrantedIsServed
<1>15. CASE Sign
  BY <1>0, <1>15 DEF Sign, ServedInv, QuietInv, GrantedIsServed
<1> QED
  BY <1>1, <1>2, <1>3, <1>4, <1>5, <1>6, <1>7, <1>8, <1>9, <1>10, <1>11, <1>12, <1>13,
     <1>14, <1>15 DEF ExchangeNext, Step

\* GrantedIsServed, for every instance: while nothing changes and nothing fails, no
\* order of agreements and no way through the fallback turns away a grantee that
\* has access (ValidateAccess, UserGrantMap).
THEOREM GrantServed == ExchangeSpec => []GrantedIsServed
<1>1. ExchangeInit => ServedInv
  BY DEF ExchangeInit, ServedInv, QuietInv, GrantedIsServed, Licensed, Checked
<1>2. TypesInv /\ ExchangeInv /\ ServedInv /\ [ExchangeNext]_vars => ServedInv'
  <2>1. ASSUME ServedInv, UNCHANGED vars PROVE ServedInv'
    <3>1. UNCHANGED <<Quiet, Licensed, DocFails>>
      BY <2>1, OutsideKept DEF vars, outside
    <3>2. RecordGives(world)' = RecordGives(world)
      BY <2>1 DEF vars, RecordGives, Wanted
    <3>3. GrantedIsServed'
      BY <2>1, <3>1, <3>2 DEF vars, ServedInv, GrantedIsServed
    <3>4. QuietInv'
      BY <2>1, <3>1 DEF vars, ServedInv, QuietInv, About, Taken, Valid, PermissionsOf, TemplateFails,
           TemplateResult, TemplateAnswer, MatchTemplate
    <3> QED BY <3>3, <3>4 DEF ServedInv
  <2> QED BY <2>1, ServedStays
<1> QED BY <1>1, <1>2, TypesInvariant, ExchangeInvariant, PTL DEF ExchangeSpec, ServedInv

=============================================================================
