----------------------------- MODULE RouterLookup -----------------------------
(***************************************************************************)
(* FindRouter (src/pkg/ipam/backend/neutron/utils.go), which both          *)
(* NewNeutronRouter and NewMixRouteStore call with the gateway address of  *)
(* the host's subnet to find the router whose static routes the            *)
(* controller then replaces.  Neutron returns the routers in its order,    *)
(* and for each router the ports whose device is that router; a router is  *)
(* modelled by its ID and the fixed IPs of those ports.  Addresses are     *)
(* unique within a subnet, not across subnets: two networks may both use   *)
(* the same private range and the same gateway address.                    *)
(***************************************************************************)
EXTENDS Naturals, Sequences, FiniteSets

CONSTANTS
    RouterIDs,   \* router IDs
    Subnets,     \* subnet IDs
    Addrs,       \* IP addresses
    Gateway,     \* subnet -> its gateway address (subnet.GatewayIP)
    NoRouter     \* FindRouter returned nil

\* A fixed IP of a router port.
IP == [subnet : Subnets, addr : Addrs]

\* A router as routers.List and ports.List(DeviceID) give it.
Router == [id : RouterIDs, ips : SUBSET IP]

\* What routers.List can return: distinct routers in any order, no two
\* holding the same address on the same subnet.
RouterLists ==
    {rs \in UNION {[1..n -> Router] : n \in 0..Cardinality(RouterIDs)} :
        \A i, j \in 1..Len(rs) :
            i # j => rs[i].id # rs[j].id /\ rs[i].ips \cap rs[j].ips = {}}

\* The loops over the router's ports and their fixed IPs: some fixed IP's
\* IPAddress equals gw; the subnet is not compared.
HasAddress(r, gw) == \E ip \in r.ips : ip.addr = gw

\* The loop over the routers from position i: the first one with a port
\* at gw.
RECURSIVE FirstRouterWith(_, _, _)
FirstRouterWith(rs, gw, i) ==
    IF i > Len(rs) THEN NoRouter
    ELSE IF HasAddress(rs[i], gw) THEN rs[i].id
    ELSE FirstRouterWith(rs, gw, i + 1)

\* FindRouter: nil for an empty list, else the first router with a port at
\* gw, else nil.
FindRouter(rs, gw) ==
    IF Len(rs) < 1 THEN NoRouter ELSE FirstRouterWith(rs, gw, 1)

\* The router the caller means: the one with an interface on the host's
\* subnet at its gateway address, or none.
SubnetRouter(rs, s) ==
    IF \E i \in 1..Len(rs) : [subnet |-> s, addr |-> Gateway[s]] \in rs[i].ips
    THEN rs[CHOOSE i \in 1..Len(rs) :
                [subnet |-> s, addr |-> Gateway[s]] \in rs[i].ips].id
    ELSE NoRouter

VARIABLES
    routers,   \* the routers routers.List and ports.List return, in order
    subnet     \* the host's subnet, whose GatewayIP is looked up

vars == <<routers, subnet>>

Init == routers \in RouterLists /\ subnet \in Subnets

\* Pure function: the inputs never change.
Next == UNCHANGED vars

Spec == Init /\ [][Next]_vars

-----------------------------------------------------------------------------
(* Properties *)

\* NewNeutronRouter's contract: FindRouter, given the gateway of the host's
\* subnet, returns the router attached to that subnet, whatever other
\* routers Neutron lists and in whatever order.
FindRouterExact ==
    FindRouter(routers, Gateway[subnet]) = SubnetRouter(routers, subnet)

=============================================================================
