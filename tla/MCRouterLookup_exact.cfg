\* Two routers, two subnets whose gateways share the address 1, and the
\* address 2: interfaces may sit at either address of either subnet.
CONSTANTS
    r1 = r1  r2 = r2  sa = sa  sb = sb
    RouterIDs <- MCRouterIDs
    Subnets <- MCSubnets
    Addrs = {1, 2}
    Gateway <- MCGateway
    NoRouter = NoRouter

SPECIFICATION Spec

\* The lookup is a pure function of its inputs: every state is final.
CHECK_DEADLOCK FALSE
INVARIANT FindRouterExact
