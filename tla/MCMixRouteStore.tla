------------------------- MODULE MCMixRouteStore -------------------------
(* Model-checking instance of MixRouteStore, sized as MCMixStore. *)
EXTENDS MixRouteStore, TLC

CONSTANTS c1, c2, c3   \* container IDs, model values

MCContainers == {c1, c2, c3}
MCAddrs == {1, 2, 3}

\* Nothing in the store orders or compares container IDs.
MCSymmetry == Permutations(MCContainers)
=============================================================================
