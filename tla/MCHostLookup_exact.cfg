\* Sized as MCHostLookup.cfg: the host address is a substring of an
\* address of another server listed before the host.
CONSTANTS
    Octets <- MCOctets
    MaxServers = 2
    MaxNets = 1
    MaxAddrs = 2

SPECIFICATION Spec
INVARIANT FindServerExact

\* The lookup is a pure function of its inputs: every state is final.
CHECK_DEADLOCK FALSE
