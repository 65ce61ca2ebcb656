------------------------------ MODULE EniStore ------------------------------
(***************************************************************************)
(* The dedicated-interface store ("eni" mode) of the Neutron IPAM backend  *)
(* (src/pkg/ipam/backend/neutron/eni_store.go), driven by concurrent CNI   *)
(* ADD/DEL invocations, one process per container ID.                      *)
(*                                                                         *)
(* Shared state: the Neutron ports named after container IDs, the set of   *)
(* interfaces attached to the host's Nova instance, and the data-dir file  *)
(* lock.  Each cloud call is one step; a call may fail with no effect or   *)
(* be applied while its reply is lost; the process may die at any step.    *)
(***************************************************************************)
EXTENDS Naturals, FiniteSets

CONSTANTS
    Containers,  \* container IDs, one CNI caller per ID
    HostNIC,     \* the instance's own interface, attached from the start
    MAX_ENIS,    \* backend.MAX_ENIS: attached interfaces per instance
    MaxDels,     \* bound on DEL invocations per container
    NoProc

ASSUME HostNIC \notin Containers /\ MAX_ENIS \in Nat \ {0} /\ MaxDels \in Nat

VARIABLES
    ports,      \* Neutron: containers that have a port named after their ID
    attached,   \* Nova: ports attached to the instance (plus HostNIC)
    lockHolder, \* holder of the data-dir file lock
    op,         \* per container: the CNI command in flight
    pc,         \* per container: the next step of that command
    added,      \* per container: ADD has been invoked
    dels,       \* per container: DEL invocations so far
    status,     \* per container: "none", "live", "dying", as in MixStore
    torn        \* per container: a DEL has returned success

vars == <<ports, attached, lockHolder, op, pc, added, dels, status, torn>>

Steps == {"idle", "new", "lock", "find", "guard", "create", "subnet", "attach",
          "dfind", "delete"}

TypeOK ==
    /\ ports \subseteq Containers
    /\ attached \subseteq Containers \cup {HostNIC}
    /\ lockHolder \in Containers \cup {NoProc}
    /\ op \in [Containers -> {"none", "add", "del"}]
    /\ pc \in [Containers -> Steps]
    /\ added \in [Containers -> BOOLEAN]
    /\ dels \in [Containers -> 0..MaxDels]
    /\ status \in [Containers -> {"none", "live", "dying"}]
    /\ torn \in [Containers -> BOOLEAN]

Init ==
    /\ ports = {}
    /\ attached = {HostNIC}
    /\ lockHolder = NoProc
    /\ op = [c \in Containers |-> "none"]
    /\ pc = [c \in Containers |-> "idle"]
    /\ added = [c \in Containers |-> FALSE]
    /\ dels = [c \in Containers |-> 0]
    /\ status = [c \in Containers |-> "none"]
    /\ torn = [c \in Containers |-> FALSE]

-----------------------------------------------------------------------------
\* Variant: the guard compares with > (one interface too many gets through).
IsOverMaxStrict == Cardinality(attached) > MAX_ENIS

\* IsOverMax: attachinterfaces.List already returns MAX_ENIS interfaces.
IsOverMax == Cardinality(attached) >= MAX_ENIS

\* Variant: the store is not closed on return, so the lock stays held.
ReturnKeepsLock(c) ==
    /\ lockHolder' = lockHolder
    /\ op' = [op EXCEPT ![c] = "none"]
    /\ pc' = [pc EXCEPT ![c] = "idle"]

\* Return from the command: deferred Unlock and Close, the runtime's view.
Return(c) ==
    /\ lockHolder' = IF lockHolder = c THEN NoProc ELSE lockHolder
    /\ op' = [op EXCEPT ![c] = "none"]
    /\ pc' = [pc EXCEPT ![c] = "idle"]

Fail(c) == Return(c) /\ UNCHANGED <<status, torn>>

AddSucceeded(c) ==
    Return(c) /\ status' = [status EXCEPT ![c] = "live"] /\ UNCHANGED torn

DelSucceeded(c) ==
    /\ Return(c)
    /\ status' = [status EXCEPT ![c] = "none"]
    /\ torn' = [torn EXCEPT ![c] = TRUE]

CmdAdd(c) ==
    /\ op[c] = "none" /\ ~added[c] /\ dels[c] = 0
    /\ op' = [op EXCEPT ![c] = "add"]
    /\ pc' = [pc EXCEPT ![c] = "new"]
    /\ added' = [added EXCEPT ![c] = TRUE]
    /\ UNCHANGED <<ports, attached, lockHolder, dels, status, torn>>

CmdDel(c) ==
    /\ op[c] = "none" /\ dels[c] < MaxDels
    /\ op' = [op EXCEPT ![c] = "del"]
    /\ pc' = [pc EXCEPT ![c] = "new"]
    /\ dels' = [dels EXCEPT ![c] = @ + 1]
    /\ status' = [status EXCEPT ![c] = IF @ = "live" THEN "dying" ELSE @]
    /\ UNCHANGED <<ports, attached, lockHolder, added, torn>>

\* NewEniStore: connect, find the Nova instance by the host address, create
\* the data dir and the lock; any error aborts before the lock.
NewEniStore(c) ==
    /\ pc[c] = "new"
    /\ \/ Fail(c)
       \/ pc' = [pc EXCEPT ![c] = "lock"] /\ UNCHANGED <<lockHolder, op, status, torn>>
    /\ UNCHANGED <<ports, attached, added, dels>>

\* store.Lock() in allocator.Get/Release: wait for the data-dir file lock.
Lock(c) ==
    /\ pc[c] = "lock" /\ lockHolder = NoProc
    /\ lockHolder' = c
    /\ pc' = [pc EXCEPT ![c] = IF op[c] = "add" THEN "find" ELSE "dfind"]
    /\ UNCHANGED <<ports, attached, op, added, dels, status, torn>>

-----------------------------------------------------------------------------
(* Reserve *)

\* networks.Get (and its subnets), then FindPort by the container ID: an
\* existing port skips the capacity guard and the create.
ReserveFindPort(c) ==
    /\ pc[c] = "find"
    /\ \/ Fail(c)
       \/ /\ pc' = [pc EXCEPT ![c] = IF c \in ports THEN "subnet" ELSE "guard"]
          /\ UNCHANGED <<lockHolder, op, status, torn>>
    /\ UNCHANGED <<ports, attached, added, dels>>

\* s.IsOverMax(): list the instance's interfaces; at MAX_ENIS refuse.
ReserveGuard(c) ==
    /\ pc[c] = "guard"
    /\ \/ Fail(c)                                    \* List error
       \/ IsOverMax /\ Fail(c)
       \/ /\ ~IsOverMax
          /\ pc' = [pc EXCEPT ![c] = "create"]
          /\ UNCHANGED <<lockHolder, op, status, torn>>
    /\ UNCHANGED <<ports, attached, added, dels>>

\* ports.Create named after the container ID.
ReserveCreatePort(c) ==
    /\ pc[c] = "create"
    /\ \/ Fail(c) /\ UNCHANGED ports                 \* error, no effect
       \/ /\ ports' = ports \cup {c}
          /\ \/ Fail(c)                              \* applied, reply lost
             \/ /\ pc' = [pc EXCEPT ![c] = "subnet"]
                /\ UNCHANGED <<lockHolder, op, status, torn>>
    /\ UNCHANGED <<attached, added, dels>>

\* The port's first fixed IP, subnets.Get and ParseCIDR.
ReserveGetSubnet(c) ==
    /\ pc[c] = "subnet"
    /\ \/ Fail(c)
       \/ pc' = [pc EXCEPT ![c] = "attach"] /\ UNCHANGED <<lockHolder, op, status, torn>>
    /\ UNCHANGED <<ports, attached, added, dels>>

\* Variant: the error of attachinterfaces.Create is not checked.
ReserveAttachIgnoreErr(c) ==
    /\ pc[c] = "attach"
    /\ \/ AddSucceeded(c) /\ UNCHANGED attached
       \/ /\ attached' = attached \cup {c}
          /\ Fail(c) \/ AddSucceeded(c)
    /\ UNCHANGED <<ports, added, dels>>

\* attachinterfaces.Create of the port on the instance.
ReserveAttach(c) ==
    /\ pc[c] = "attach"
    /\ \/ Fail(c) /\ UNCHANGED attached              \* error, no effect
       \/ /\ attached' = attached \cup {c}
          /\ Fail(c) \/ AddSucceeded(c)              \* reply lost, or ok
    /\ UNCHANGED <<ports, added, dels>>

-----------------------------------------------------------------------------
(* ReleaseByID *)

\* Variant: a FindPort error read as "already deleted".
ReleaseFindPortErrAsAbsent(c) ==
    /\ pc[c] = "dfind"
    /\ \/ DelSucceeded(c)
       \/ c \notin ports /\ DelSucceeded(c)
       \/ /\ c \in ports
          /\ pc' = [pc EXCEPT ![c] = "delete"]
          /\ UNCHANGED <<lockHolder, op, status, torn>>
    /\ UNCHANGED <<ports, attached, added, dels>>

\* FindPort by the container ID: an error fails, no port is success.
ReleaseFindPort(c) ==
    /\ pc[c] = "dfind"
    /\ \/ Fail(c)
       \/ c \notin ports /\ DelSucceeded(c)
       \/ /\ c \in ports
          /\ pc' = [pc EXCEPT ![c] = "delete"]
          /\ UNCHANGED <<lockHolder, op, status, torn>>
    /\ UNCHANGED <<ports, attached, added, dels>>

\* ports.Delete: Neutron also detaches the interface from the instance.
ReleaseDeletePort(c) ==
    /\ pc[c] = "delete"
    /\ \/ Fail(c) /\ UNCHANGED <<ports, attached>>   \* error, no effect
       \/ /\ ports' = ports \ {c}
          /\ attached' = attached \ {c}
          /\ Fail(c) \/ DelSucceeded(c)              \* reply lost, or ok
    /\ UNCHANGED <<added, dels>>

-----------------------------------------------------------------------------
\* The plugin process dies mid-command; the kernel drops its flock.
Crash(c) ==
    /\ op[c] # "none"
    /\ Fail(c)
    /\ UNCHANGED <<ports, attached, added, dels>>

Progress(c) ==
    \/ NewEniStore(c) \/ Lock(c)
    \/ ReserveFindPort(c) \/ ReserveGuard(c) \/ ReserveCreatePort(c)
    \/ ReserveGetSubnet(c) \/ ReserveAttach(c)
    \/ ReleaseFindPort(c) \/ ReleaseDeletePort(c)

Next == \E c \in Containers :
            CmdAdd(c) \/ CmdDel(c) \/ Progress(c) \/ Crash(c)

\* As in MixStore: a plugin process runs while it can, flock waiters are
\* woken; invocations and faults are not fair.
Fairness == \A c \in Containers : WF_vars(Progress(c))

Spec == Init /\ [][Next]_vars /\ Fairness

-----------------------------------------------------------------------------
(* Properties *)

\* The capacity guard, run under the file lock before ports.Create, keeps
\* the instance at or below MAX_ENIS attached interfaces across concurrent
\* ADDs, attaches whose reply was lost, and crashes between create and attach.
EniCapacity == Cardinality(attached) <= MAX_ENIS

\* A container whose ADD succeeded and that has not been torn down has its
\* port in Neutron and attached to the instance.
EniLiveAttached ==
    \A c \in Containers : status[c] = "live" => c \in ports /\ c \in attached

\* Once a DEL has returned success the container holds nothing in the cloud:
\* no port under its name and no attached interface, whatever earlier ADD
\* or DEL attempts left behind (ports created or attached with lost replies).
EniReleasedClean ==
    \A c \in Containers : torn[c] => c \notin ports /\ c \notin attached

\* The ENI store implements the store contract of StoreSpec, the resource
\* being the interface attached to the instance (the host's own excepted,
\* so the cap is MAX_ENIS - 1): every step of Reserve and ReleaseByID,
\* faults and crashes included, is a step the contract allows.
Store == INSTANCE StoreSpec WITH held <- attached \ {HostNIC}, Cap <- MAX_ENIS - 1

StoreRefined == Store!Spec

\* Every ADD and DEL returns: the file lock is not held forever.
InvocationsReturn == \A c \in Containers : op[c] # "none" ~> op[c] = "none"

=============================================================================
