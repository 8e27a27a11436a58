# A TLA+ verification of dauth

dauth is DIMO's authentication service. One process serves two HTTP surfaces and
a gRPC one:

* **sign-in** (`/siwe`): a client asks for a challenge for an Ethereum address,
  signs it with its wallet and redeems it for a short-lived token;
* **exchange** (`/exchange` and gRPC `AccessCheck`): the holder of a sign-in token
  asks for permissions on an asset, which dauth checks against grants on chain
  and on IPFS, and gets a token that carries them.

This directory models the parts whose correctness depends on order, races,
failure and time, model-checks them on small instances with TLC, and proves the
most important results with TLAPS for every value of the constants.

## 1. Inventory

| Component | Source | State | Operations | Interacts with |
|---|---|---|---|---|
| Challenge store (interface) | `internal/siwe/nonce/nonce.go` | challenges by nonce | `Put`, `Consume` | called by the handlers |
| In-memory store | `.../nonce/memory.go` | 64 shards, each a map and a mutex | `Put`, `Consume`, janitor | goroutines of one process share the shards |
| Postgres store | `.../nonce/postgres.go`, `schema.sql` | table `nonce_challenges` | `Put` (INSERT), `Consume` (DELETE RETURNING), janitor (DELETE) | replicas share the table; pool closed by `main.go` |
| Sign-in handlers | `.../server/handlers.go` | none of their own | `Challenge`, `Token` | store, verifier, issuer |
| Verifier | `.../signer/verifier.go` | none | `Verify` | Ethereum node (`CodeAt`, `isValidSignature`) |
| Issuer, message | `.../token/token.go`, `.../message/message.go` | none | `Issue`, `String` | key set |
| Life cycle | `cmd/dauth/main.go` | signal context, error group, pool | `run`: load, build, serve, drain, stop | the three servers, their requests, the stores |
| Exchange controllers | `internal/exchange/controllers/...` | none | `ExchangeToken`, `AccessCheck` | access service, signer |
| Access service, evaluation | `.../services/access`, `.../autheval` | none | `ValidateAccess` | SACD contract, IPFS, template service, signature validator |
| Template service | `.../services/template` | cache of template permissions | `GetTemplatePermissions` | template contract, IPFS |
| SACD proxy | `.../services/sacdproxy` | none | `CurrentPermissionRecord`, `GetPermissions` | identity API, SACD contract |
| Key set, JWKS, OIDC | `internal/keyset`, `internal/oidc` | signing keys | `Load`, `Sign`, `JWKS` | both surfaces; verifiers of tokens |
| Signature validator | `internal/exchange/signature` | none | `ValidateSignature` | the grantor's account on chain |
| Identity and IPFS clients | `.../services/identity_service.go`, `ipfs_service.go` | none | `IsDevLicense`, `GetValidSacdDoc` | identity API, IPFS gateway |
| Configuration | `.../config`, `internal/envx`, `internal/exchange/app` | none | `Load`, `CreateServers` | start-up only |
| Middleware, ops | `internal/httpmw`, `internal/ops` | none | `Recover`, `MaxBytes`, health, metrics | all requests |

What is hard here: requests race for one nonce, on one replica or several; the
database may execute a statement whose caller has given up, or delete a row and
lose the answer; clocks of replicas differ and are compared with stored times of
another precision; the janitor's cutoff is older than the sweep; shutdown closes
the pool under the requests it drains; the chain changes between two calls of
one verification; a node may never answer. On the exchange surface a decision is
put together from several calls while the grants behind it change, one of two
ways to decide takes over when the other fails, and a cache that is never
emptied is shared by all requests; signing keys change while replicas, tokens,
validators and HTTP caches still use the old ones. The process itself ends in
many orders: three servers, a signal, a drain that may time out on one of them
and not on another, a pool that closes on its own. `PROJECT.json` lists each at its line
("hazards").

## 2. Modules

```
ChallengeDefs            what a challenge is, when it has expired
  NonceStore             the promise of nonce.Store (abstract specification)
    NonceStoreProofs     single use, authenticity, no loss
  MemoryStore            nonce.Memory, refines NonceStore
    MemoryStoreProofs    mutual exclusion, capacity, refinement and what it brings
  PostgresStore          nonce.Postgres and the replicas, refines NonceStore
    PostgresStoreProofs  refinement and what it brings
  SignIn                 handlers, verifier, issuer; extends NonceStore with its users
    SignInProofs         sign-in uses the store as promised and keeps its own promise
SignInPromise            what sign-in promises its clients (abstract specification)
AccessEval               pure: events, agreements, templates, permission bits
  Exchange               one request, HTTP or gRPC, from header to permission token
    ExchangeProofs       access exactly when one grant covers it
  TemplatePromise        GetTemplatePermissions without a cache (abstract specification)
  TemplateService        GetTemplatePermissions and its cache, refines TemplatePromise
    TemplateServiceProofs  current answers, accepted documents only, refinement
Config                   pure: which settings are looked at, and where
  Lifecycle              run: start, three servers in an error group, pool, signal, drain
    LifecycleProofs      only what was validated served, nobody cut off early, honest exit code
KeyRotation              signing keys, rolling deployments, validators, HTTP caches
  KeyRotationProofs      no valid token ever fails to verify
MC*                      values of the constants for TLC
```

**One caller is one call.** A member of `Callers` is a single call of `Put` or
`Consume`, and in `SignIn` the HTTP request that makes it. It is used once; many
requests are a larger set. After a call has returned, its `id` and `held` are
history that the properties talk about.

**NonceStore** is what a handler may rely on whichever store is configured. The
table is `live`; a call goes `put -> kept -> stored` or `consume -> took -> got`,
and may at each point fail instead. `putLost` and `consumeLost` are calls whose
caller already has an error while the statement may still run (`LateStore`,
`LateRemove`). `Keep` may round the expiry down by at most `Slack`.

**MemoryStore** follows `memory.go` step by step: lock, capacity check, sweep,
second check, insert; lock, look-up, delete, expiry check; the janitor visits
the shards one lock at a time and the clock may tick between any two steps. A
phase in `LockedPhases` holds the mutex of the shard of its nonce; nothing else
represents the mutex. `time.Now` is one clock. The refinement maps "looked up but
not deleted" to an abstract call that has not removed anything.

**PostgresStore** separates sending a statement, its execution and its answer.
`CallFails` covers a connection that cannot be had, breaks, or whose request is
cancelled; `PoolClosed` a pool closed by shutdown; `Restart` waits for the old
process's calls to be gone. Every replica has its own clock and janitor.
`Truncate` is what TIMESTAMPTZ does to nanoseconds. The refinement has
`Slack = Precision - 1`.

**SignIn** is the two handlers with the verifier and the issuer. It extends
NonceStore: `stage` is the place in the handler, the handlers begin the store's
calls (`CallPut`, `CallConsume`) and the store moves them by its own actions. So the
runs of sign-in check the store's properties with the store's only user.
A signature is the key that made it and the message it is over, so
`SignedBy` says what `ecrecover`, or an account contract, accepts. `owner` is the
key a contract answers for, which may change at any time; `seen` collects, for
the property only, the owners during a request. Times are ticks of the process;
`Seconds` is what RFC 3339 and JWT NumericDate keep of them. A client can only
present signatures over messages it was given (`Disclosed`), by any key, with
any nonce.

**SignInPromise** is what the two handlers promise a client, with no store, no
stages and no calls to a node. A challenge is told under a nonce nobody was told
before; a token request presents a nonce and a signature, spends the challenge if
nobody has and its told expiry is not over, and is then approved or rejected by
what the account would say *at one moment*, or left undecided, which is allowed
only when a node had to be asked: never for a signature by the account's own key.
`SignIn` is mapped to it by what its states already say: `ToldBodies` are the
challenges of requests answered with one, `Spenders` the requests whose Consume
succeeded, `Approved` those whose signature was found good. So the moment is
`IsValidSignature`'s for a contract, `CodeAt`'s for an address without code, and
`Verify`'s for a key: the two calls of one verification, with changes of owner
between them, can never add up to a verdict the account would not have given.

What makes each part correct: the stores deliver a challenge once, unaltered and
while it is good, within their capacity; sign-in judges one signature per
challenge and gives tokens only for the account, audience and time it vouches
for; the exchange grants nothing that one valid grant does not cover and refuses
nothing that it does; the template cache never mixes templates or keeps a
status; a rotation never makes a good token bad.

**AccessEval** has no state. `Grants`, `WithDefaults`, `InForce`, `MatchTemplate`,
`Mask` and `LackBits` are the functions of `autheval` on the data they look at;
an event type, a permission or a tag is a model value. Slices are sets, because
no code looks at their order. `Events`, `Asked` and `Given` are the meaning the
filters are compared with in the properties.

**Exchange** follows one request through middleware, controller, access service,
proxy and signer. `stage` names the call it waits for, or the place in the
handler. `world` is what the chain and the identity API would answer now: the
developer license (the error codes of the identity API's answer, none for a
license), the source of the record, its bits, the owner, which signatures the
grantors' accounts accept, which templates are active. It may change between any two
steps, time may pass, and every call may fail (`CallFails`); `seen` collects the
worlds of the request for the properties. `DocRefused` is the fallback of
`ValidateAccess`: every failure of the document goes to the bits of the record
unless events are asked for. `UserGrantMap` is a loop over `rest`, one agreement
a step in any order, each with its own reading of the clock. One request is
enough because requests share only the template cache; documents are addressed
by their content and fixed, with their type and whoever made their signature:
nobody, the grantor's key, or somebody whose signature is for the grantor's
account to accept. `SignatureEmpty`, `ValidEOASignature` and `SignatureAnswers` are
`ValidateSignature` in the order it tries; only the last is a call. What an answer
of IPFS or the identity API that does not parse, or comes too late, does to the
request is what a failed call does. The chain id, which is one configured number, is
left out.

**TemplateService** is that cache: `Hit`, `Miss`, the calls for source, document
and signature, `Fill`, and the status asked of the chain on every call. The
read lock and the write lock each cover a single access to the map, so each is
one step. What a template's document says is fixed (`Published`), as the code
assumes by caching it; who accepts a signature and what is active may change.

**TemplatePromise** is the same service as the evaluation of a grant sees it: a
call fails, or answers at one moment with the template's permissions on the
contract and its activation at that moment, for a document that was accepted. It
has no cache, so that `TemplateService` implements it says that nobody can tell
whether an answer was cached. `TemplateAnswer` of AccessEval is what both answer,
and what `Exchange` takes for the answer of its own call.

**KeyRotation** has the operator of the README's procedure (`Add`, `Promote`,
`Drop`), each a new environment that replicas take over one by one by
`Restart`, which is also what a crash is. `Numbered` is the environment's key
list up to the first gap, and `Slip` a deployment that makes one: it leaves the
first variable empty, until another one puts it right. A replica that starts in
between has no key, so that `keyset.Load` fails and it does not run (`Up`); it must
not come up with the key after the gap, which `MSkipGaps` does and `TokensVerify`
catches. A gap between two keys takes three variables, which the procedure never
sets. Validators are clients of the JWKS and refresh at any
time from any replica, or from an HTTP cache: `Keep` is a cache on the way that
keeps an answer for at most `MaxAge` (`Cache-Control: public, max-age=300`). Time is
kept as what is left of each token's life and as the age of each copy. `Life` is
the life of the surface's tokens, `Wait` what the operator waits before dropping
the old key, `Patience` what has to pass since a roll-out before a refresh counts
as one "after validators refresh their JWKS cache".

**Config** has no state. A setting is left out, malformed, unusable (it parses and
cannot work, as a port above 65535) or right; `LoadSignIn`, `LoadExchange`,
`LoadKeys` and `CreateServers` say which of them each step of the start looks at.
`Addresses` are noticed only by the server that listens there (`Listenable`), and
`Unchecked` are those nobody looks at. `Validated` is what all steps up to the servers
have looked at between them, and no more: it is weaker than what the comments on
the two `Load` functions say, see section 4.

**Lifecycle** is `main` and `run`. `phase` is the step of `run` up to `serve`; there, every
server and its goroutine in the group is one state machine (`starting`, `up`,
`broken` when its error is in `errCh`, `stopping`, `stopped` or `failed` when the
goroutine has returned). The two contexts are `signalled` and `Cancelled`: the pool
closes on the first, the servers stop on the second. A request is accepted,
may need a connection (`Acquire`, or `Refused` by a closed pool), and is answered, or
cut off by `Exit`. Each server listens at its own address: one that cannot
(`CannotListen`, for gRPC `ReturnError`) ends the group, while another may already
have accepted requests. A handler may panic (`Panic`): on a server in `Recovering`
it costs one request, elsewhere the process. All three recover, the public one by
`Recover`, the ops server by `net/http`, the gRPC server by the interceptor of
`createGRPCServer`; dropping that one is the mutant `MRecovering`. While `run` has not returned, `NotifyContext`
swallows further signals, so one is enough. `DrainTimesOut` is `Shutdown`'s 10 s, which
`GracefulStop` does not have. `PostgresStore` has the same end seen from the stored
challenges: its `Shutdown`, `Exit` and `Restart`. There the signal and the pool that it
closes are one step, because a call between the two is a call before both.

## 3. Runs

| Run | Question | Bounds |
|---|---|---|
| `memory_store` | does the sharded store keep the promise and its capacity, and is `ErrFull` honest? | 4 calls, 3 nonces in 2 shards, `maxEntries` 1 (clamped to one entry a shard), clock 0..2 |
| `memory_store_live` | does every call return, is every expired entry reclaimed? | 2 calls, 2 nonces in different shards, `maxEntries` 3 |
| `postgres_store` | does the shared table keep the promise under faults? | 3 calls, 2 replicas, 1 nonce, Precision 2, clocks 0..2 |
| `postgres_store_live` | are overdue rows swept while one replica is up? | 2 calls, 2 replicas, otherwise the same |
| `postgres_store_drain` | (violated) is shutdown graceful for accepted requests? | no faults |
| `sign_in` | single use, authenticity, one verdict, vouched tokens, honoured expiry | 3 requests, 2 nonces, 2 accounts, 2 keys, EOA only, Slack 1, clock 0..2 |
| `sign_in_node` | does sign-in keep its promise for contract accounts that change under the request; are tokens vouched for; is nothing stored lost; is every request answered? | 2 requests on 2 replicas, 1 account, 2 keys, lifetime 0, node that answers or fails |
| `sign_in_hang` | (violated) does RPC_TIMEOUT bound the node's calls? | as above, node may be silent |
| `exchange` | is access given exactly when one grant covers it, does the token say no more than that, is every request answered or in a call that nothing bounds? | 17 requests, 7 documents, 11 worlds, 2 changes, clock 0..1 |
| `template_service` | are answers about the right template and current, is only what was accepted cached, can anybody tell that there is a cache? | 3 calls, 2 templates, 2 contracts, 1 change |
| `key_rotation` | do tokens verify through rotations, also when a deployment leaves a gap in the keys? | 2 replicas, 2 validators, 3 keys; life, wait, max-age and patience of 3 ticks |
| `lifecycle` | is nothing served under settings that are looked at and wrong, is a server that cannot listen fatal, does the process end when told to, honestly and cutting nobody off early? | 3 servers, 3 requests; the right configurations, all that are wrong in one validated setting, three wrong addresses, one setting nobody looks at |

The promise itself (`OneWinner`, `DeliversWhatWasPut`, `AckedIsLive`) is checked where it is
used, in the runs of sign-in; a run of `NonceStore` alone would only add calls that
no handler makes.

Why these bounds are enough to be interesting: three calls are a Put and two
Consumes racing for it (four in `memory_store`, so that a shard is full, swept
and full again with a Put waiting); a lifetime of one tick and clocks to two give
challenges that are fresh, in their last tick and expired, with replicas on both
sides of the expiry; `Precision = 2` makes truncation lose a tick. Symmetry is
over calls of the same replica and nonces of the same shard (in `key_rotation`,
over replicas, over validators and over keys), and only in runs without liveness. Calls are used up, so a finished system stops: deadlock is not
checked. For the exchange, requests and worlds are listed one by one so that each
branch is met: wildcards on either side, agreements that begin or end during the
request, foreign agreements, a document of another grantee, templates that are
active, inactive and not published, documents without a signature, of another
type, signed by a key or by an account, licenses that are not found and look-ups
that fail in two ways at once, privilege ids that mean nothing, token ids above
2^31 - 1, owners and manufacturers. Three calls of the template service are
two that race for one template and one that could confuse it with another.
`KeyRotation` needs no bound on time or on the number of rotations: three keys
are the old, the new and the next, and keys nobody holds are used again. Three
ticks of age are a copy that is new, one that is old and still served, and one
that is gone. In `lifecycle` two requests are for the public server, both on
the store, and one is for gRPC, and nothing is counted, so the run is complete for that shape.

**Fairness.** In memory: goroutines that can run do run (WF), and a mutex that is
released again and again is got in the end (SF; `sync.Mutex` hands over to a
waiter after 1 ms). In Postgres: the ticker of a replica that is up fires, and
of sweeps sent for ever some is executed (SF); calls need no fairness for the
property. In `sign_in_node`: handlers run, the store answers or fails, and so
does the Ethereum node; `sign_in_hang` drops the last, which nothing in the code
ensures. In `exchange`: the handler runs, and the calls with a time-out, IPFS
(`IPFS_TIMEOUT`) and the proxy's identity API (5 s), answer or fail. The license
look-up and the calls to the chain (`Unbounded`) may stay silent for ever, so
`ExchangeAnswered` says that a request is answered or stays in one of them. In
`lifecycle`: goroutines run, a listener binds or fails, and the 10 s of `Shutdown`
pass; no handler, HTTP or gRPC, has to come to an end. So `EndsWhenAsked` says that
the process ends or waits for ever in `GracefulStop` for gRPC calls, with every
other server done (`WaitsForCalls`).

## 4. Findings

Shown by runs that end in a violation:

1. Shutdown closes the connection pool at once, while the HTTP server drains
   (run `postgres_store_drain`): accepted sign-ins fail with no fault anywhere.
2. `RPC_TIMEOUT` is documented to bound each EIP-1271 call and is never used
   (run `sign_in_hang`).

Read in the code while modelling it; no run shows these:

* Any store error on `/siwe/token` is answered `invalid_grant`, "not found,
  already used, or expired", also when the challenge is still good.
* `NewMemory` is "bounded at maxEntries total"; the clamp to one entry per shard
  allows up to 64 entries when `maxEntries < 64`. main.go passes 100 000.
* Tokens for manufacturer assets carry privilege id 0 for every permission,
  because `SignPrivilegePayload` looks names up in the vehicle table only. The
  permission names in the same token are right. What holds is `IDsMatchNames`: an id
  never stands for a permission that the names do not have; the 0 stands for none.
* "The exchange holds no state": the template service keeps agreements for the
  life of the process and does not look at their signature again.
* "Load ... fails if a required value is missing or malformed"
  (`exchange/config/config.go:43-44`): `EXCHANGE_ISSUER` and `IDENTITY_URL` may be any
  text, and a contract address that is not hexadecimal becomes another address. The
  process serves with them: in `lifecycle`, requests are accepted under the
  configuration `NotNoticed`.
* "a misconfigured deployment never starts" (`siwe/config/config.go:1-4`):
  `HTTP_ADDRESS`, `OPS_ADDRESS` and a `GRPC_PORT` out of range are noticed by the server
  that listens there, after the database was opened and while the other servers
  may accept requests, which are then drained. What holds is `ServesOnlyValidated` and
  `WrongAddressIsFatal`.
* `GracefulStop` has no time-out: a gRPC call that never ends, as one that waits for
  the chain may, keeps the process from exiting (`WaitsForCalls`).
* The README documents `ALLOWABLE_TIME_SKEW`, `MAX_BODY_BYTES`, `RATE_LIMIT_*` and `TLS_*`; no code
  reads them, and `postgres.go` relies on "the HTTP rate limiter" to bound its table.
* `/ready` is answered from the moment the ops server listens until it stops,
  whatever the other servers and the pool do.
* `GetValidSacdDoc` also accepts a template document where a grant is expected; the
  grantee check refuses it later, as a template has no grantee.
* `IsDevLicense` takes any answer without errors for a license, its data unread.
* Step 2 of the rotation, "after validators refresh their JWKS cache", is enough
  only if a refresh counts from `max-age` after the roll-out on: `KeyRotation` needs
  `MaxAge <= Patience`, because a shared cache may hand out the old key set.
* The rotation procedure waits `TOKEN_TTL` also for the exchange's keys, whose
  tokens live for `TOKEN_EXPIRATION`: `KeyRotation` needs `Life <= Wait`, which
  holds with the defaults (10m, 1h).

## 5. Proofs

All theorems hold for every value of the constants that satisfies the named
assumptions (`ChallengeAssumption`, `StoreAssumption`, `MemoryAssumption`,
`PostgresAssumption`, `SignInAssumption`, `AccessAssumption`, `ExchangeAssumption`,
`TemplateAssumption`, `RotationAssumption`, `LifecycleAssumption`), in particular
any finite or infinite number of calls and any clocks; `MaxTime` is any number.
Each type invariant is proved, and with it every safety property of the runs
that pass.

* `NonceStoreProofs`. `OneWinner` is not inductive: a second Consume could only be
  ruled out by knowing that what a Consume removed is no longer in the table and
  was put there once. `IInv` says so: nonces are given to one Put (`OnePut`), what
  is in the table or was removed came from that Put (`LiveWasPut`,
  `RemovedWasPut`), what was removed is gone and was removed once
  (`RemovedWasPut`, `OneRemoval`), and what was kept is there until removed or
  expired somewhere (`KeptIsLive`). `SingleUse`, `Authenticity` and `NoLoss` follow.
* `MemoryStoreProofs`. Capacity needs mutual exclusion: the room found by a Put is
  still there when it inserts because no other call is in its shard. `IInv` joins
  the typing, `Mutex`, the share (`WithinShare`) and the room; what the share is in
  terms of `maxEntries`, clamp included, is the lemma `ShareBounds`. The same invariant gives the
  refinement: the entry looked up is the entry deleted. `RefusalIsHonest` is an action
  property: `SweptInv` says that a Put that has swept its shard finds nothing in it
  that had expired when it was called, and keeps the lock until it gives up.
  With the refinement proved, the invariant of the promise holds of the shards
  (`Promise!IInv`, the proofs of `NonceStore` under the refinement mapping), and
  `MemorySingleUse`, `MemoryAuthenticity` and `MemoryNoLoss` say in the store's own
  variables what it means there. They are stronger than the promise where memory is:
  an entry keeps its expiry, and a refused Put, which the promise allows to be
  stored after all, is nowhere (`RefusedIsGone`).
* `PostgresStoreProofs`. The refinement needs that a call's nonce is set once it
  is under way, that sweeps carry a cutoff no later than their replica's clock,
  and that truncation loses less than `Precision`. `PostgresSingleUse`,
  `PostgresAuthenticity` and `PostgresNoLoss` are read off the promise in the same way;
  "took" there includes the calls whose answer was lost. `InsertNeverConflicts`: an
  INSERT, also one executed late, never meets a row of its nonce, so the primary
  key's error is one that `Put` does not have to expect.
* `SignInProofs`. `StoreUse`: every step of sign-in is a step of the store or leaves
  it alone, so `SignInSpec` implements the store's specification and the theorems of
  `NonceStoreProofs` hold of it, its `IInv` included. `OneVerdict` follows from `SingleUse`
  and an invariant that a request whose signature is judged had its Consume
  succeed. `EveryTokenVouched` needs three more facts: the message of a challenge
  carries its own nonce (`Challenged`), a signature is over a message that was told
  (`Presented`), and a request has seen every owner since it arrived (`Watching`). A
  token's signature is over the message of the challenge its request consumed
  (`Vouched`); that challenge was put under the same nonce, and because messages name
  their nonce and nonces are put once, it is the one that was told. `ExpiryHonoured`
  adds `Missed`: a Consume that comes away empty lost its challenge to another
  request, or a clock was past its expiry; whole seconds only round the advertised
  expiry down. `Grows` is the lemma on the store behind all of it: what calls hold
  or have returned stays, and clocks do not go back.
  `SignInRefinement` adds `Kept`: what is put was made on its replica's clock for an
  allowed audience, with a message that says so (`Offered`); a handler waits while
  its call is under way (`Waiting`); a node is asked only about signatures the
  account's own key did not make (`NotOwnKey`), and only when there is one (`NoNode`).
  Then each step of a handler, of the store and of the chain is a step of
  SignInPromise or leaves its variables alone, one lemma for each kind
  (`ArrivesAbove`, `HandlerAbove`, `StoreAbove`). That a challenge is not spent after
  its told expiry is `DeliveredInTime`, from `SecondsGrow`. `FinalAnswers` is an action
  property: a request that was answered is at the end of its handler. `BornExpired` is
  about negative lifetimes: a delivery within the lifetime would need clocks
  further apart than the lifetime is below zero.
* `ExchangeProofs`. `TokenGranted` needs no invariant about what is still to come:
  what the handler has collected is always covered by agreements of the document
  that were in force at some moment so far (`Valid` only grows, `ValidGrows`), and
  what was true in some world of the request stays in `seen` (`AccessStays`). The
  two decisions are lemmas on their operators: `CloudEventsSound` for wildcards
  and defaults, `RecordSound` for bits, which rests on the two name tables being
  injective. `GrantServed` is the converse and needs what the other direction does
  not: in a quiet request every agreement in force that has left the queue was
  about the asset and was taken, and the handler is only on the fallback when the
  document fails (`QuietInv`). `NothingEmptySigned` follows from what `Parse` lets pass. `Carries` ties the
  claims of a signed token to what was asked for, so that `ClaimsGranted` and
  `IDsGranted` speak about the token and not about the request. `CloudEventsExact` is
  the converse of `CloudEventsSound`, for filters that leave nothing open; a wildcard
  that is asked for is met by wildcards only, however many agreements there are.
* `TemplateServiceProofs`. What is in the cache is a published template's agreements,
  accepted at some time (`CacheInv`); a call that asks for the status has its
  agreements in the cache, and one about to fill it was accepted (`StageInv`); what the chain says now
  is among what each running call has seen (`SeenInv`). `Refinement` maps a call to
  running, done or failed and its answer to the moment of its last step; that a
  cached answer is for an accepted document is `CacheInv`.
* `KeyRotationProofs`. The invariant has three parts with a condition each, so that
  each theorem needs no more than its own. `Base` (what the replicas that run have
  loaded in each phase; one that starts in a gap does not run, `GivenTyped`) holds however long anybody waits, and gives `TypeCorrect`. `TokensInv` (which
  key a valid token has; the old key's run out before the wait does, `OldRunOut`)
  needs `Life <= Wait`, and gives `OldKeyRunsOut` and `ReplicasAcceptTokens`. `CachesInv`
  (which keys validators and copies know; a copy without the added key is older
  than the roll-out, so that it is gone after `MaxAge`, `Informed`) needs `MaxAge <= Patience`,
  and gives `KeyKnownBeforeUse`. `RotationIsSeamless` needs both.
* `LifecycleProofs`. `Checked`: in each phase the part of the configuration looked at so
  far is right, so that serving means `Validated`, which is all that `ValidatedServed`
  claims: unchecked settings and the other servers' addresses are outside it.
  `Order`: before `serve` servers are
  off and nothing has been accepted, and `result` is there when main has ended.
  `Stops`: servers stop because of the signal or of the error the group keeps, one
  that stopped with requests left is overdue, the gRPC server never is, and only
  the signal closes the pool. The four results are inductive together with these.

Only model-checked: liveness (`CallsReturn`, `ExpiredIsSwept`, `OverdueIsSwept`,
`EveryRequestAnswered`, `ExchangeAnswered`, `WrongAddressIsFatal`, `EndsWhenAsked`), which is out of the prover's reach,
and the two violations.

## 6. What is not modelled, and why

* Cryptography: a signature is a key and a message, or a fact about an account.
* Formats: JSON, DIDs, EIP-4361 text, JWT encoding and CIDs, beyond "decodes or
  does not" and the whole seconds of the times in them.
* Generated code (contract bindings, protobuf, API docs): it has no logic of its
  own; what crosses it is an answer or a failure of the call.
* Metrics, pprof, logging and the client's address (`RemoteIP`), which only a log
  line uses.
* The values of well-formed settings: durations, sizes and names are constants of
  the models. The code accepts zero and negative lifetimes, and so do the models:
  `ChallengeTTL` and `TokenTTL` are any integers, and `BornExpired` says what a negative
  `CHALLENGE_TTL` does. The runs take a lifetime of 0 or more.
* The growth of the template cache, which no code limits.
* `/ready`, whose answer depends on no state.

## 7. State of the plan

Done: the stores and their refinement, sign-in on top of the promise and its own
promise to clients, the exchange with its signature validator and clients, the
template cache and its promise, key rotation with HTTP caches, the configuration
and the life of the process; proofs of every safety property and every refinement
that the passing runs check.

What could still be added, in this order: the composition of `Lifecycle` with
`PostgresStore` in one module (today the two share the shutdown by construction,
`ClosePool` being `Shutdown`); sign-in over a concrete store in one module, which
today follows from two refinements (`StoreUse` and each store's `Refinement`) that
are proved separately; and two exchange requests over one `TemplateService`, which
would only repeat what `Refinement` says of the one call they share.
