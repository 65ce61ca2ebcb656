--------------------------- MODULE SeparateStore ---------------------------
(***************************************************************************)
(* The isolated-port store ("separate" mode, the default) of the Neutron   *)
(* IPAM backend (src/pkg/ipam/backend/neutron/separate_store.go), driven   *)
(* by concurrent CNI ADD/DEL invocations, one process per container ID.    *)
(*                                                                         *)
(* Each container gets its own port, named after its ID.  The store's     *)
(* Lock/Unlock take a sync.RWMutex created by NewSeparateStore, one per    *)
(* plugin process, so nothing is shared between invocations but Neutron. *)
(* CloudFaults switches on failed calls, lost replies and crashes.         *)
(***************************************************************************)
EXTENDS Naturals, FiniteSets

CONSTANTS
    Containers,  \* container IDs, one CNI caller per ID
    MaxDels,     \* bound on DEL invocations per container
    CloudFaults  \* whether calls may fail, replies be lost, processes die

ASSUME MaxDels \in Nat /\ CloudFaults \in BOOLEAN

VARIABLES
    ports,      \* Neutron: containers that have a port named after their ID
    op,         \* per container: the CNI command in flight
    pc,         \* per container: the next step of that command
    added,      \* per container: ADD has been invoked
    dels,       \* per container: DEL invocations so far
    status,     \* per container: "none", "live", "dying", as in MixStore
    torn,       \* per container: a DEL has returned success
    found       \* per container: the port FindPort returned to its DEL

vars == <<ports, op, pc, added, dels, status, torn, found>>

TypeOK ==
    /\ ports \subseteq Containers
    /\ op \in [Containers -> {"none", "add", "del"}]
    /\ pc \in [Containers -> {"idle", "new", "create", "subnet", "dfind", "delete"}]
    /\ added \in [Containers -> BOOLEAN]
    /\ dels \in [Containers -> 0..MaxDels]
    /\ status \in [Containers -> {"none", "live", "dying"}]
    /\ torn \in [Containers -> BOOLEAN]
    /\ found \in [Containers -> Containers]

Init ==
    /\ ports = {}
    /\ op = [c \in Containers |-> "none"]
    /\ pc = [c \in Containers |-> "idle"]
    /\ added = [c \in Containers |-> FALSE]
    /\ dels = [c \in Containers |-> 0]
    /\ status = [c \in Containers |-> "none"]
    /\ torn = [c \in Containers |-> FALSE]
    /\ found = [c \in Containers |-> c]

-----------------------------------------------------------------------------
Return(c) ==
    /\ op' = [op EXCEPT ![c] = "none"]
    /\ pc' = [pc EXCEPT ![c] = "idle"]

Fail(c) == Return(c) /\ UNCHANGED <<status, torn>>

\* A failure the environment may inject: a cloud error or a lost reply.
Fault(c) == CloudFaults /\ Fail(c)

AddSucceeded(c) ==
    Return(c) /\ status' = [status EXCEPT ![c] = "live"] /\ UNCHANGED torn

DelSucceeded(c) ==
    /\ Return(c)
    /\ status' = [status EXCEPT ![c] = "none"]
    /\ torn' = [torn EXCEPT ![c] = TRUE]

CmdAdd(c) ==
    /\ op[c] = "none" /\ ~added[c] /\ dels[c] = 0
    /\ op' = [op EXCEPT ![c] = "add"]
    /\ pc' = [pc EXCEPT ![c] = "new"]
    /\ added' = [added EXCEPT ![c] = TRUE]
    /\ UNCHANGED <<ports, dels, status, torn, found>>

CmdDel(c) ==
    /\ op[c] = "none" /\ dels[c] < MaxDels
    /\ op' = [op EXCEPT ![c] = "del"]
    /\ pc' = [pc EXCEPT ![c] = "new"]
    /\ dels' = [dels EXCEPT ![c] = @ + 1]
    /\ status' = [status EXCEPT ![c] = IF @ = "live" THEN "dying" ELSE @]
    /\ UNCHANGED <<ports, added, torn, found>>

\* NewSeparateStore (connect, check the network list), then the allocator's
\* Lock on the store's own mutex, which no other process can hold.
NewSeparateStore(c) ==
    /\ pc[c] = "new"
    /\ \/ Fault(c)
       \/ /\ pc' = [pc EXCEPT ![c] = IF op[c] = "add" THEN "create" ELSE "dfind"]
          /\ UNCHANGED <<op, status, torn>>
    /\ UNCHANGED <<ports, added, dels, found>>

\* networks.Get, then ports.Create named after the container ID.
ReserveCreatePort(c) ==
    /\ pc[c] = "create"
    /\ \/ Fault(c) /\ UNCHANGED ports                \* error, no effect
       \/ /\ ports' = ports \cup {c}
          /\ \/ Fault(c)                             \* applied, reply lost
             \/ /\ pc' = [pc EXCEPT ![c] = "subnet"]
                /\ UNCHANGED <<op, status, torn>>
    /\ UNCHANGED <<added, dels, found>>

\* The port's first fixed IP, subnets.Get and ParseCIDR; then return.
ReserveGetSubnet(c) ==
    /\ pc[c] = "subnet"
    /\ Fault(c) \/ AddSucceeded(c)
    /\ UNCHANGED <<ports, added, dels, found>>

\* Variant: a FindPort error is eaten and the release reported done.
ReleaseFindPortEatErr(c) ==
    /\ pc[c] = "dfind"
    /\ \/ CloudFaults /\ DelSucceeded(c)
       \/ c \notin ports /\ Fail(c)
       \/ /\ c \in ports
          /\ pc' = [pc EXCEPT ![c] = "delete"]
          /\ UNCHANGED <<op, status, torn>>
    /\ UNCHANGED <<ports, added, dels, found>>

\* Variant: FindPort lists without the Name filter (ListOpts{Limit: 1})
\* and returns whichever port Neutron lists first.
ReleaseFindPortAnyName(c) ==
    /\ pc[c] = "dfind"
    /\ \/ Fault(c) /\ UNCHANGED found
       \/ ports = {} /\ Fail(c) /\ UNCHANGED found
       \/ \E q \in ports :
             /\ found' = [found EXCEPT ![c] = q]
             /\ pc' = [pc EXCEPT ![c] = "delete"]
             /\ UNCHANGED <<op, status, torn>>
    /\ UNCHANGED <<ports, added, dels>>

\* FindPort by the container ID.  An error fails the DEL.  When no port has
\* that name FindPort returns (nil, nil) and ports.Delete(port.ID)
\* dereferences nil: the plugin panics and the DEL fails.
ReleaseFindPort(c) ==
    /\ pc[c] = "dfind"
    /\ \/ Fault(c) /\ UNCHANGED found
       \/ c \notin ports /\ Fail(c) /\ UNCHANGED found
       \/ /\ c \in ports
          /\ found' = [found EXCEPT ![c] = c]
          /\ pc' = [pc EXCEPT ![c] = "delete"]
          /\ UNCHANGED <<op, status, torn>>
    /\ UNCHANGED <<ports, added, dels>>

\* ports.Delete(port.ID) of the port FindPort returned.
ReleaseDeletePort(c) ==
    /\ pc[c] = "delete"
    /\ \/ Fault(c) /\ UNCHANGED ports                \* error, no effect
       \/ /\ ports' = ports \ {found[c]}
          /\ Fault(c) \/ DelSucceeded(c)             \* reply lost, or ok
    /\ UNCHANGED <<added, dels, found>>

\* The plugin process dies mid-command.
Crash(c) ==
    /\ op[c] # "none"
    /\ Fault(c)
    /\ UNCHANGED <<ports, added, dels, found>>

Next == \E c \in Containers :
            \/ CmdAdd(c) \/ CmdDel(c) \/ NewSeparateStore(c)
            \/ ReserveCreatePort(c) \/ ReserveGetSubnet(c)
            \/ ReleaseFindPort(c) \/ ReleaseDeletePort(c) \/ Crash(c)

Spec == Init /\ [][Next]_vars

-----------------------------------------------------------------------------
(* Properties *)

\* A container whose ADD succeeded and that has not been torn down still
\* has its port: another container's DEL (FindPort by name) never deletes it.
SepLiveHasPort ==
    \A c \in Containers : status[c] = "live" => c \in ports

\* Once a DEL has returned success, no port is left under the container's
\* name, even after an ADD whose ports.Create reply was lost.
SepReleasedClean ==
    \A c \in Containers : torn[c] => c \notin ports

\* Release is idempotent (spec 3 and 4.2): with no cloud faults, a container
\* that has no port once a DEL of it has run to completion is torn down,
\* whether it had a port before or never had one (DEL without ADD, or DEL
\* repeated after a successful one).
SepReleaseIdempotent ==
    \A c \in Containers :
        (~CloudFaults /\ dels[c] > 0 /\ op[c] = "none" /\ c \notin ports)
            => torn[c]

=============================================================================
