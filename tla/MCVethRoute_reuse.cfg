\* Sized as MCVethRoute.cfg: a DEL whose IPAM release succeeded and whose
\* link deletion failed, then another container given the same address.
CONSTANTS
    c1 = c1
    c2 = c2
    c3 = c3
    a1 = a1
    a2 = a2
    Containers <- MCContainers
    Addrs <- MCAddrs
    MaxDels = 2
    ReliableLastDel = TRUE
    StaleNetnsPath = FALSE
    IPMasq = TRUE
    Free = Free
    NoRoute = NoRoute
    NoIP = NoIP

SPECIFICATION Spec
INVARIANT LiveRouted


\* The harness bounds the invocations: once every container has used its
\* ADD and DELs the host really stops.
CHECK_DEADLOCK FALSE
