---------------------------- MODULE MCLifecycle ----------------------------
(* Small instance of Lifecycle: the three servers with sign-in requests on   *)
(* the public one, a gRPC call, the two configurations that are right and    *)
(* those that are wrong in one setting, wherever that is noticed, if at all. *)
EXTENDS Lifecycle, TLC

CONSTANTS public, ops, grpc, q1, q2, q3

AllSet == [v \in Settings |-> "ok"]
Right == {AllSet, [AllSet EXCEPT !["DATABASE_URL"] = "unset"]}
WrongIn(v) == {[AllSet EXCEPT ![v] = x] : x \in Value}
NotValidated == {e \in UNION {WrongIn(v) : v \in Settings} : ~Validated(e)}
WrongAddress ==
    {[AllSet EXCEPT !["HTTP_ADDRESS"] = "malformed"],
     [AllSet EXCEPT !["OPS_ADDRESS"] = "unusable"],
     [AllSet EXCEPT !["GRPC_PORT"] = "unusable"]}
NotNoticed == {[AllSet EXCEPT !["EXCHANGE_ISSUER"] = "malformed"]}
MCEnvironments == Right \cup NotValidated \cup WrongAddress \cup NotNoticed

MCAddressOf == public :> "HTTP_ADDRESS" @@ ops :> "OPS_ADDRESS" @@ grpc :> "GRPC_PORT"
MCServerOf == q1 :> public @@ q2 :> public @@ q3 :> grpc

=============================================================================
