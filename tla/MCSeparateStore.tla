------------------------- MODULE MCSeparateStore -------------------------
(* Model-checking instance of SeparateStore with three containers.       *)
EXTENDS SeparateStore

CONSTANTS c1, c2, c3   \* container IDs, model values

MCContainers == {c1, c2, c3}
=============================================================================
