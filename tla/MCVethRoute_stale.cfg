\* Sized as MCVethRoute.cfg, with a runtime that passes a removed netns's
\* path: WithNetNSPath fails every DEL of the container, the fault-free
\* last DEL included.
CONSTANTS
    c1 = c1
    c2 = c2
    c3 = c3
    a1 = a1
    a2 = a2
    Containers <- MCContainers
    Addrs <- MCAddrs
    MaxDels = 2
    ReliableLastDel = TRUE
    StaleNetnsPath = TRUE
    IPMasq = TRUE
    Free = Free
    NoRoute = NoRoute
    NoIP = NoIP

SPECIFICATION Spec


\* The harness bounds the invocations: once every container has used its
\* ADD and DELs the host really stops.
CHECK_DEADLOCK FALSE
INVARIANT RetriedDelTearsDown
