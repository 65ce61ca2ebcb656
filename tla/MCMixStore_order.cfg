\* Mix mode, sized as MCMixStore.cfg.  Checks the crash-ordering claim of
\* spec section 5 against ReleaseByID's order of steps.
CONSTANTS
    c1 = c1
    c2 = c2
    c3 = c3
    Containers <- MCContainers
    Addrs <- MCAddrs
    HostIP = 0
    MAX_IPS = 3
    MaxDels = 2
    ReliableLastDel = FALSE
    NoProc = NoProc
    NoIP = NoIP
    NoFile = NoFile
    Empty = Empty

SPECIFICATION Spec
INVARIANT LedgerBackedAtRest
CHECK_DEADLOCK FALSE
