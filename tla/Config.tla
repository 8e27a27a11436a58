------------------------------- MODULE Config -------------------------------
(***************************************************************************)
(* What the process accepts as its configuration, and at which step of its  *)
(* start it notices what it does not.  A setting is an environment variable *)
(* (the numbered signing keys of a surface count as one) and its value is   *)
(* left out, malformed (it breaks its syntax), unusable (it keeps the       *)
(* syntax and is of no use: a port that is out of range, a key that is too   *)
(* short, a URL nobody answers at) or right.                                 *)
(*                                                                          *)
(* Source: internal/siwe/config/config.go, internal/exchange/config/        *)
(* config.go, internal/envx/envx.go, internal/keyset/keyset.go,             *)
(* internal/exchange/app/app.go.                                             *)
(***************************************************************************)

Value == {"unset", "malformed", "unusable", "ok"}

\* README.md:175-179 and 304-308: the settings without a default.
SignInRequired ==
    {"PUBLIC_BASE_URL", "SIWE_ISSUER", "JWT_AUDIENCE", "SIWE_SIGNING_KEYS"}
ExchangeRequired ==
    {"EXCHANGE_ISSUER", "BLOCKCHAIN_NODE_URL", "IDENTITY_URL", "IPFS_BASE_URL"}

\* URLs, numbers and durations, each parsed where it is loaded.  A list of
\* audiences that holds only commas and blanks is malformed.
SignInParsed ==
    {"PUBLIC_BASE_URL", "SIWE_ISSUER", "JWT_AUDIENCE", "CHAIN_ID", "CHALLENGE_TTL",
     "TOKEN_TTL", "RPC_TIMEOUT", "DATABASE_URL"}
ExchangeParsed == {"GRPC_PORT", "DIMO_REGISTRY_CHAIN_ID"}

\* Parsed by whoever uses them: keyset.Load, ethclient.Dial, CreateServers and
\* NewIPFSClient.
ParsedInUse ==
    {"SIWE_SIGNING_KEYS", "RPC_URL", "EXCHANGE_SIGNING_KEYS", "TOKEN_EXPIRATION",
     "BLOCKCHAIN_NODE_URL", "IPFS_BASE_URL", "IPFS_TIMEOUT"}

\* Where the servers listen.  Only GRPC_PORT is parsed, as a number of any size;
\* what is wrong with an address is noticed by the server that listens there.
Addresses == {"HTTP_ADDRESS", "OPS_ADDRESS", "GRPC_PORT"}

\* Taken as they are: the exchange's issuer, which unlike SIWE_ISSUER need not be a
\* URL, the identity API's address, the addresses of contracts (what is not
\* hexadecimal becomes another address) and the log level.
Unchecked == {"EXCHANGE_ISSUER", "IDENTITY_URL", "CONTRACT_ADDRESSES", "LOG_LEVEL"}

Settings ==
    SignInRequired \cup ExchangeRequired \cup SignInParsed \cup ExchangeParsed
        \cup ParsedInUse \cup Addresses \cup Unchecked

Environment == [Settings -> Value]

Present(env, names) == \A v \in names : env[v] # "unset"
WellFormed(env, names) == \A v \in names : env[v] # "malformed"

\* config.Load, the sign-in surface.
LoadSignIn(env) == Present(env, SignInRequired) /\ WellFormed(env, SignInParsed)

\* Mutant: only what has a syntax is looked at.
MLoadExchange(env) == WellFormed(env, ExchangeParsed)
\* exchangeconfig.Load.
LoadExchange(env) == Present(env, ExchangeRequired) /\ WellFormed(env, ExchangeParsed)

\* keyset.Load: at least one key, each readable, long enough and not given twice.
LoadKeys(env, keys) == env[keys] = "ok"

\* Mutant: the pool is opened without a DSN.
MUsePostgres(env) == TRUE
UsePostgres(env) == env["DATABASE_URL"] # "unset"

\* CreateServers.
CreateServers(env) ==
    /\ LoadKeys(env, "EXCHANGE_SIGNING_KEYS")
    /\ WellFormed(env, {"TOKEN_EXPIRATION", "BLOCKCHAIN_NODE_URL", "IPFS_BASE_URL",
                        "IPFS_TIMEOUT"})

\* net.Listen, by ListenAndServe or by serveGRPC.  Every address has a default.
Listenable(env, address) == env[address] \in {"unset", "ok"}

----------------------------------------------------------------------------
\* What has been looked at, in one place or another, when the servers start.  It is
\* less than Load says of itself (exchange/config/config.go:43-44): nothing looks
\* at the syntax of Unchecked, though two of them are required, and an address is
\* looked at by its own server alone.
Validated(env) ==
    /\ Present(env, SignInRequired \cup ExchangeRequired \cup {"EXCHANGE_SIGNING_KEYS"})
    /\ WellFormed(env, SignInParsed \cup ExchangeParsed \cup ParsedInUse)

=============================================================================
