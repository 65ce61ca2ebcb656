---------------------------- MODULE MCVethRoute ----------------------------
(* Model-checking instance of VethRoute: three containers sharing a pool  *)
(* of two addresses, so an address freed by one DEL is handed out again.  *)
EXTENDS VethRoute

CONSTANTS c1, c2, c3, a1, a2   \* container IDs and addresses, model values

MCContainers == {c1, c2, c3}
MCAddrs == {a1, a2}
=============================================================================
