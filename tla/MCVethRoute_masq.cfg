\* Sized as MCVethRoute.cfg: cmdDel tears the masquerade chain down only
\* when it deleted the link itself, so a DEL after the netns went, or after
\* an earlier DEL deleted the link and failed, leaves the chain.
CONSTANTS
    c1 = c1
    c2 = c2
    c3 = c3
    a1 = a1
    a2 = a2
    Containers <- MCContainers
    Addrs <- MCAddrs
    MaxDels = 2
    ReliableLastDel = TRUE
    StaleNetnsPath = FALSE
    IPMasq = TRUE
    Free = Free
    NoRoute = NoRoute
    NoIP = NoIP

SPECIFICATION Spec


\* The harness bounds the invocations: once every container has used its
\* ADD and DELs the host really stops.
CHECK_DEADLOCK FALSE
INVARIANT MasqReleasedClean
