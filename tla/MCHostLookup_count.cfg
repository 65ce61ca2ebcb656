\* Sized as MCHostLookup.cfg: one network with two addresses.
CONSTANTS
    Octets <- MCOctets
    MaxServers = 2
    MaxNets = 1
    MaxAddrs = 2

SPECIFICATION Spec
INVARIANT CountedIpsAreAddresses

\* The lookup is a pure function of its inputs: every state is final.
CHECK_DEADLOCK FALSE
