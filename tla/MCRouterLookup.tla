--------------------------- MODULE MCRouterLookup ---------------------------
(* Two routers, two subnets that share the gateway address 1, and a       *)
(* second address 2.                                                      *)
EXTENDS RouterLookup

CONSTANTS r1, r2, sa, sb   \* router and subnet IDs, model values

MCRouterIDs == {r1, r2}
MCSubnets == {sa, sb}
MCGateway == [s \in MCSubnets |-> 1]
=============================================================================
