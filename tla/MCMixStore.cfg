\* Three concurrent containers, three free subnet addresses, MAX_IPS = 3:
\* the host address plus two containers fill the port, so the third ADD
\* meets the capacity guard, and Neutron still has a free address to reuse.
\* The last DEL of each container meets no cloud fault (ReliableLastDel), so
\* that a retried release after earlier partial failures can be judged.
\* difference is checked over two subnets s1, s2 and the addresses 1, 2.
CONSTANTS
    c1 = c1
    c2 = c2
    c3 = c3
    s1 = s1
    s2 = s2
    Containers <- MCContainers
    Addrs <- MCAddrs
    HostIP = 0
    MAX_IPS = 3
    MaxDels = 2
    ReliableLastDel = TRUE
    NoProc = NoProc
    NoIP = NoIP
    NoFile = NoFile
    Empty = Empty

SPECIFICATION Spec

INVARIANT CapacityInv
INVARIANT LiveBacked
INVARIANT NoSharedAddress
INVARIANT EmptyFileOnPort
INVARIANT RetriedReleaseSucceeds
INVARIANT DiffMatchesReference
PROPERTY InvocationsReturn

\* The harness bounds the invocations: once every container has used its
\* ADD and DELs the host really stops.
CHECK_DEADLOCK FALSE
