----------------------------- MODULE StoreSpec -----------------------------
(***************************************************************************)
(* What a per-container store of the Neutron IPAM backend promises (spec   *)
(* sections 3, 4.2, 4.3 and 8), with each command's steps folded into the  *)
(* moments the runtime can observe.  Each container holds at most one      *)
(* cloud resource of its own (an isolated port, an attached interface):    *)
(*                                                                         *)
(*  - a resource is acquired only while fewer than Cap are held;           *)
(*  - Reserve reports success only for a container that holds one;         *)
(*  - a resource is given up only by a container whose DEL has started,    *)
(*    or that never became live (a failed or abandoned ADD);               *)
(*  - ReleaseByID reports success only when the container holds nothing,   *)
(*    also when it never held anything or was released before.            *)
(*                                                                         *)
(* Failed calls, lost replies and crashes are stuttering steps here: they  *)
(* change nothing the runtime sees, or leave a resource held.              *)
(***************************************************************************)
EXTENDS Naturals, FiniteSets

CONSTANTS
    Containers,  \* container IDs
    Cap          \* resources the host may hold at once

VARIABLES
    held,     \* containers holding their resource
    status,   \* per container: "none", "live", "dying" as the runtime sees it
    torn      \* per container: a DEL has returned success

vars == <<held, status, torn>>

TypeOK ==
    /\ held \subseteq Containers
    /\ status \in [Containers -> {"none", "live", "dying"}]
    /\ torn \in [Containers -> BOOLEAN]

Init ==
    /\ held = {}
    /\ status = [c \in Containers |-> "none"]
    /\ torn = [c \in Containers |-> FALSE]

\* Reserve returns success: a torn-down ID is never reused.
Reserved(c) ==
    /\ status[c] = "none" /\ ~torn[c]
    /\ status' = [status EXCEPT ![c] = "live"]
    /\ UNCHANGED torn

\* ReleaseByID returns success.
Released(c) ==
    /\ status[c] # "live"
    /\ status' = [status EXCEPT ![c] = "none"]
    /\ torn' = [torn EXCEPT ![c] = TRUE]

\* The runtime starts tearing a live container down (DEL is invoked).
Teardown(c) ==
    /\ status[c] = "live"
    /\ status' = [status EXCEPT ![c] = "dying"]
    /\ UNCHANGED <<held, torn>>

\* A resource is created for c, under the cap; Reserve may return with it.
Acquire(c) ==
    /\ c \notin held /\ Cardinality(held) < Cap
    /\ held' = held \cup {c}
    /\ UNCHANGED <<status, torn>> \/ Reserved(c)

\* c's resource is removed; ReleaseByID may return with it.
Drop(c) ==
    /\ c \in held /\ status[c] # "live"
    /\ held' = held \ {c}
    /\ UNCHANGED <<status, torn>> \/ Released(c)

\* A command returns without changing what is held.
Return(c) ==
    /\ \/ c \in held /\ Reserved(c)
       \/ c \notin held /\ Released(c)
    /\ UNCHANGED held

Next == \E c \in Containers :
            Teardown(c) \/ Acquire(c) \/ Drop(c) \/ Return(c)

Spec == Init /\ [][Next]_vars

=============================================================================
