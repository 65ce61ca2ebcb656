---------------------------- MODULE MCMixStore ----------------------------
(* Model-checking instance of MixStore: three containers contending for a *)
(* port that holds the host address and at most two container addresses. *)
(* The diff engine MixStore abstracts is checked where it is called, over *)
(* lists of up to three entries from two subnets and two addresses.      *)
EXTENDS MixStore

CONSTANTS c1, c2, c3,  \* container IDs, model values
          s1, s2       \* subnet IDs, model values

MCContainers == {c1, c2, c3}
MCAddrs == {1, 2, 3}

\* Two subnets and two addresses give four distinct entries, including the
\* same address under both subnets; old lists have up to two entries, new
\* lists up to three: every order of every reply to a one-entry update.
Diff == INSTANCE DiffEngine WITH Subnets <- {s1, s2}, Addrs <- {1, 2}, MaxLen <- 2

\* A container is at ReserveUpdatePort, whose reply difference reads.
Updating == \E c \in Containers : pc[c] = "update"

\* Whenever a Reserve is about to read the update's reply, difference over
\* the real fixed-IP records returns exactly the entry Neutron added,
\* whatever order the reply lists it in, also when that address already
\* occurs on the port under another subnet: the "new address of the
\* reply" that ReserveUpdatePort assumes.
DiffMatchesReference == Updating => Diff!DiffMatchesReference

=============================================================================
