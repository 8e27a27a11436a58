------------------------- MODULE MCTemplateService --------------------------
(* Three calls: two about template t1, on a contract it gives permissions for  *)
(* and on one it only mentions, and one about a second template.              *)
EXTENDS TemplateService, TLC

CONSTANTS c1, c2, c3, t1, t2, vehicle, other, location, commands

MCTemplateID == c1 :> t1 @@ c2 :> t1 @@ c3 :> t2
MCNoNames == [i \in {} |-> i]

MCContract == c1 :> vehicle @@ c2 :> other @@ c3 :> vehicle

Agreement(contract, type, permissions) ==
    [contract |-> contract, type |-> type, permissions |-> permissions]
MCPublished ==
    t1 :> {Agreement(vehicle, "permission", {location}), Agreement(other, "cloudevent", {})}
    @@ t2 :> {Agreement(vehicle, "permission", {commands}), Agreement(other, "permission", {location})}

=============================================================================
