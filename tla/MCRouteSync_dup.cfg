\* One replica (no leader election), one worker and five pod events: a pod Succeeds on h1 and keeps its IP,
\* a new pod on h1 is given that IP, and the route list holds the same
\* entry twice.  RoutesConverge is violated: every routers.Update is
\* refused while the Succeeded pod exists.
CONSTANTS
    p1 = p1  p2 = p2  self = self  Self = self  h1 = h1  h2 = h2  i1 = i1  i2 = i2  iOut = iOut
    k1 = k1  k2 = k2  w1 = w1  w2 = w2  w3 = w3  NoIP = NoIP  NoProc = NoProc
    Pods <- MCPods
    Hosts <- MCHosts
    IPs <- MCIPs
    Subnet <- MCSubnet
    Controllers = {k1}
    Workers = {w1}
    Owner <- MCOneOwner
    LeaderElect = FALSE
    MaxEvents = 5
    MaxFaults = 0
SPECIFICATION Spec
INVARIANT TypeOK
PROPERTY RoutesConverge
