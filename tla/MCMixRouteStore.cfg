\* Mix-route mode, sized as MCMixStore.cfg: the properties of mix mode that
\* the stale release copy leaves intact.  Safety only, so the
\* container IDs are a symmetry set.
CONSTANTS
    c1 = c1
    c2 = c2
    c3 = c3
    Containers <- MCContainers
    Addrs <- MCAddrs
    HostIP = 0
    MAX_IPS = 3
    MaxDels = 2
    ReliableLastDel = FALSE
    NoProc = NoProc
    NoIP = NoIP
    NoFile = NoFile
    Empty = Empty

SPECIFICATION MRSpec
INVARIANT CapacityInv
INVARIANT NoSharedAddress
SYMMETRY MCSymmetry

\* The harness bounds the invocations: the host stops once they are used.
CHECK_DEADLOCK FALSE
