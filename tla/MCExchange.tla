----------------------------- MODULE MCExchange -----------------------------
(* Small instances of Exchange: a vehicle, a manufacturer and an account,    *)
(* seven documents and one template. A grantee g1 asks.                       *)
EXTENDS Exchange, TLC

CONSTANTS vehicle, maker, account, other,       \* contracts
          location, commands, mint,             \* permission names
          attestation, raw, device, id1, id2,   \* what events carry
          d1, d2, d3, d4, d5, d6, d7, t1, t2, g1, g2

Car == [contract |-> vehicle, tokenID |-> 1]
Large == [contract |-> vehicle, tokenID |-> 4]
Maker == [contract |-> maker, tokenID |-> 1]
Account == [contract |-> account, tokenID |-> NoTokenID]

MCPrivilegeIDToName == 1 :> location @@ 2 :> commands
MCManufacturerPrivilegeIDToName == 1 :> mint

Permission(asset, permissions, from, to) ==
    [type |-> "permission", asset |-> asset, permissions |-> permissions,
     effectiveAt |-> from, expiresAt |-> to,
     eventType |-> Unset, source |-> Unset, ids |-> {}, tags |-> {}]
CloudEvent(asset, type, from, ids, to) ==
    [type |-> "cloudevent", asset |-> asset, permissions |-> {},
     effectiveAt |-> NoTime, expiresAt |-> to,
     eventType |-> type, source |-> from, ids |-> ids, tags |-> {}]
Doc(signature, grantee, agreements, template) ==
    [type |-> "sacd", signature |-> signature, grantee |-> grantee,
     agreements |-> agreements, template |-> template]

\* d1 gives both permissions while it lasts, and attestations one id at a time;
\* d2 is another grantee's; d3 is about another asset later; d4 has a template, and
\* d5 one that is not there. A key signs d3 and d5 and nothing d6; d7 is no grant.
MCDocument ==
    d1 :> Doc("contract", g1, {Permission(Car, {location}, NoTime, 0), Permission(Car, {commands}, 1, NoTime),
                   CloudEvent(Car, attestation, device, {id1}, NoTime),
                   CloudEvent(Car, attestation, GlobalIdentifier, {id2}, 1)}, NoTemplate)
    @@ d2 :> Doc("contract", g2, {Permission(Car, {location}, NoTime, NoTime)}, NoTemplate)
    @@ d3 :> Doc("key", g1, {Permission(Car, {location}, NoTime, NoTime),
                      CloudEvent(Car, GlobalIdentifier, GlobalIdentifier, {}, NoTime),
                      Permission(Account, {location}, 1, NoTime)}, NoTemplate)
    @@ d4 :> Doc("contract", g1, {Permission(Car, {location, commands}, NoTime, NoTime),
                      CloudEvent(Car, raw, device, {}, NoTime)}, t1)
    @@ d5 :> Doc("key", g1, {Permission(Car, {location}, NoTime, NoTime)}, t2)
    @@ d6 :> Doc("none", g1, {Permission(Car, {location}, NoTime, NoTime)}, NoTemplate)
    @@ d7 :> [Doc("key", g1, {Permission(Car, {location}, NoTime, NoTime)}, NoTemplate)
              EXCEPT !.type = "other"]

MCTemplateAgreements ==
    t1 :> {[contract |-> vehicle, type |-> "permission", permissions |-> {location}]}

Filter(type, from, ids) == [eventType |-> type, source |-> from, ids |-> ids, tags |-> {}]
Http(asset, permissions, privileges, filters) ==
    [rpc |-> FALSE, bearer |-> TRUE, grantee |-> g1, asset |-> asset,
     permissions |-> permissions, privileges |-> privileges, filters |-> filters]
Rpc(grantee, asset, permissions, filters) ==
    [rpc |-> TRUE, bearer |-> FALSE, grantee |-> grantee, asset |-> asset,
     permissions |-> permissions, privileges |-> {}, filters |-> filters]

MCRequests ==
    {Http(Car, {location}, {}, {}), Http(Car, {location, commands}, {}, {}),
     Http(Car, {}, {1, 2}, {}), Http(Car, {}, {3}, {}), Http(Car, {mint}, {}, {}),
     Http(Car, {}, {}, {}), Http(NoAsset, {location}, {}, {}),
     [Http(Car, {location}, {}, {}) EXCEPT !.bearer = FALSE],
     Http(Car, {location}, {}, {Filter(attestation, device, {id1, id2})}),
     Http(Car, {}, {}, {Filter(Unset, device, {})}),
     Http(Large, {location}, {}, {}), Http(Account, {location}, {}, {}),
     Http(Maker, {}, {1}, {}),
     Rpc(g1, Car, {}, {}), Rpc(g1, Car, {commands}, {}), Rpc(NoGrantee, Car, {commands}, {}),
     Rpc(g1, Car, {location}, {Filter(raw, device, {id1})})}

World(license, src, bits, owns, accepts, active) ==
    [license |-> license, source |-> src, bits |-> bits, owns |-> owns,
     accepts |-> accepts, active |-> active]

\* Bits 2 and 3 are privilege 1, bits 4 and 5 privilege 2. The first six differ
\* in the grant, the others in one or two facts more.
Granting(s) == World({}, s, {2, 3}, FALSE, {d1, d2, d4}, {t1})
MCWorlds ==
    {Granting(s) : s \in {NoSource, d1, d2, d3, d4, d5}}
    \cup {World({}, d1, {2, 4, 5}, FALSE, {}, {}), World({}, d2, {}, TRUE, {d2}, {}),
          World({"NOT_FOUND"}, d7, {2, 3}, FALSE, {d1}, {}), World({}, d4, {}, FALSE, {d4}, {}),
          World({"NOT_FOUND", "other"}, d6, {2, 4}, FALSE, {}, {})}

=============================================================================
