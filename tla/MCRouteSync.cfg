\* Two workers, two pods, two nodes: stale pod lists racing for the router.
CONSTANTS
    p1 = p1  p2 = p2  self = self  Self = self  h1 = h1  h2 = h2  i1 = i1  i2 = i2  iOut = iOut
    k1 = k1  k2 = k2  w1 = w1  w2 = w2  w3 = w3  NoIP = NoIP  NoProc = NoProc
    Pods <- MCPods
    Hosts <- MCHosts
    IPs <- MCIPs
    Subnet <- MCSubnet
    Controllers <- MCControllers
    Workers <- MCWorkers
    Owner <- MCOwner
    LeaderElect = TRUE
    MaxEvents = 3
    MaxFaults = 1
SPECIFICATION Spec
INVARIANT OneReplicaRuns
PROPERTY RoutesConverge
