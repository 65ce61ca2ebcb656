\* Mix-route mode, sized as MCMixStore.cfg.  Checks that a live container's
\* address survives another container's DEL.
CONSTANTS
    c1 = c1
    c2 = c2
    c3 = c3
    Containers <- MCContainers
    Addrs <- MCAddrs
    HostIP = 0
    MAX_IPS = 3
    MaxDels = 2
    ReliableLastDel = FALSE
    NoProc = NoProc
    NoIP = NoIP
    NoFile = NoFile
    Empty = Empty

SPECIFICATION MRSpec
INVARIANT LiveBacked
CHECK_DEADLOCK FALSE
