---------------------------- MODULE MCEniStore ----------------------------
(* Model-checking instance of EniStore: three containers contending for an *)
(* instance with room for the host interface and two more.                *)
EXTENDS EniStore

CONSTANTS c1, c2, c3   \* container IDs, model values

MCContainers == {c1, c2, c3}
=============================================================================
