---------------------------- MODULE MCScheduling ----------------------------
(* One cycle over three nodes with two workers, the backend maxima scaled *)
(* down with MAX_IPS > MAX_ENIS kept.  The queue's pods: two priorities,  *)
(* two timestamps, the namespaces "", "a" and "a-" and the names "x" and  *)
(* "y".  '-' (45) sorts before '/' (47), so "a-/x" < "a/x" although "a"   *)
(* < "a-".                                                                *)
EXTENDS Scheduling, QueueSort

CONSTANTS n1, n2, n3   \* nodes, model values

MCNodes == {n1, n2, n3}

MCNamespaces == {<<>>, <<97>>, <<97, 45>>}
MCNames == {<<120>>, <<121>>}

\* A cycle starts with the pod the scheduling queue pops.  The queue is a
\* heap ordered by Less, and pops pods in one order whatever order they
\* were pushed in only if Less is a strict weak order, although Less builds
\* both pod keys from podInfo1's name.
LessIsStrictWeakOrder == phase = "filter" => LessStrictWeakOrder

=============================================================================
