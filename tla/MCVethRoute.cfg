\* Three containers, two addresses, each container with one ADD and up to
\* two DELs: two containers can be live while the third waits for an
\* address, and a failed DEL can be retried.
CONSTANTS
    c1 = c1
    c2 = c2
    c3 = c3
    a1 = a1
    a2 = a2
    Containers <- MCContainers
    Addrs <- MCAddrs
    MaxDels = 2
    ReliableLastDel = TRUE
    StaleNetnsPath = FALSE
    IPMasq = TRUE
    Free = Free
    NoRoute = NoRoute
    NoIP = NoIP

SPECIFICATION Spec

INVARIANT VethReleasedClean
INVARIANT RetriedDelTearsDown

\* The harness bounds the invocations: once every container has used its
\* ADD and DELs the host really stops.
CHECK_DEADLOCK FALSE
