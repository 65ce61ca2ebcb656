------------------------------ MODULE QueueSort ------------------------------
(***************************************************************************)
(* The scheduler plugin's QueueSort extension point: Scheduling.Less       *)
(* (src/pkg/scheduling/scheduling.go) orders the pods of the scheduling    *)
(* queue, a heap that pops the least pod under Less.  A heap only pops in  *)
(* a well-defined order when Less is a strict weak order.                  *)
(*                                                                         *)
(* A Go string is its bytes, so a string is a sequence of byte values and  *)
(* Go's string < is modelled by what it does: byte-wise lexicographic      *)
(* comparison.                                                             *)
(***************************************************************************)
EXTENDS Naturals, Sequences, Relation

CONSTANTS
    Priorities,  \* pod priorities (podutil.GetPodPriority)
    Times,       \* InitialAttemptTimestamps, as instants in time order
    Namespaces,  \* namespaces, as byte sequences ("" included)
    Names        \* pod names, as byte sequences

Slash == 47    \* the byte '/'

\* framework.PodInfo, with the fields Less reads.
PodInfos == [priority : Priorities, ts : Times,
             namespace : Namespaces, name : Names]

\* Go's s < t on strings: the first differing byte decides, and a proper
\* prefix is less.
RECURSIVE StrLess(_, _)
StrLess(s, t) ==
    IF s = <<>> \/ t = <<>> THEN s = <<>> /\ t # <<>>
    ELSE IF Head(s) # Head(t) THEN Head(s) < Head(t)
    ELSE StrLess(Tail(s), Tail(t))

\* fmt.Sprintf("%v/%v", namespace, name).
PodKey(namespace, name) == namespace \o <<Slash>> \o name

\* Variant: the keys compared with <= instead of <.
LessKeysOrEqual(podInfo1, podInfo2) ==
    IF podInfo1.priority # podInfo2.priority
    THEN podInfo1.priority > podInfo2.priority
    ELSE IF podInfo1.ts # podInfo2.ts
    THEN podInfo1.ts < podInfo2.ts
    ELSE LET k1 == PodKey(podInfo1.namespace, podInfo1.name)
             k2 == PodKey(podInfo2.namespace, podInfo1.name)
         IN StrLess(k1, k2) \/ k1 = k2

\* Less: higher priority first, then the earlier initial attempt, then the
\* pod keys; the second key is built from podInfo1's name.
Less(podInfo1, podInfo2) ==
    IF podInfo1.priority # podInfo2.priority
    THEN podInfo1.priority > podInfo2.priority
    ELSE IF podInfo1.ts # podInfo2.ts
    THEN podInfo1.ts < podInfo2.ts
    ELSE StrLess(PodKey(podInfo1.namespace, podInfo1.name),
                 PodKey(podInfo2.namespace, podInfo1.name))

\* Neither pod goes ahead of the other.
Tied(p1, p2) == ~Less(p1, p2) /\ ~Less(p2, p1)

-----------------------------------------------------------------------------
(* Properties *)

\* Less is a strict weak order on the pods it can be given: irreflexive,
\* asymmetric and transitive, and being tied is transitive.
LessStrictWeakOrder ==
    /\ IsStrictlyPartiallyOrderedUnder(Less, PodInfos)
    /\ IsTransitiveUnder(Tied, PodInfos)

\* Less's comment: two pods tied at priority and creation time are ordered
\* by their namespace/name keys, so distinct pods never tie.
LessOrdersDistinctKeys ==
    \A p1, p2 \in PodInfos :
        PodKey(p1.namespace, p1.name) # PodKey(p2.namespace, p2.name)
            => ~Tied(p1, p2)

=============================================================================
