---------------------------- MODULE MCRouteSync ----------------------------
EXTENDS RouteSync

CONSTANTS p1, p2, self, h1, h2, i1, i2, iOut, k1, k2, w1, w2, w3

MCPods == {p1, p2, self}
MCHosts == {h1, h2}
\* i1, i2 in the router's subnet; iOut a pod address outside it.
MCIPs == {i1, i2, iOut}
MCSubnet == {i1, i2}
MCControllers == {k1, k2}
MCWorkers == {w1, w2, w3}
\* Two workers in k1 (controller.Run(2, ...)), one in k2.
MCOwner == [w \in MCWorkers |-> IF w = w3 THEN k2 ELSE k1]
\* One replica with one worker.
MCOneOwner == [w \in {w1} |-> k1]

=============================================================================
