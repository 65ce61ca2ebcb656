\* Mix-route mode, sized as MCMixStore_retry.cfg: a first DEL whose port
\* update Neutron applied but whose reply was lost, then a fault-free DEL.
CONSTANTS
    c1 = c1
    c2 = c2
    c3 = c3
    Containers <- MCContainers
    Addrs <- MCAddrs
    HostIP = 0
    MAX_IPS = 3
    MaxDels = 2
    ReliableLastDel = TRUE
    NoProc = NoProc
    NoIP = NoIP
    NoFile = NoFile
    Empty = Empty

SPECIFICATION MRSpec
INVARIANT RetriedReleaseSucceeds
CHECK_DEADLOCK FALSE
