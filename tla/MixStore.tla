------------------------------ MODULE MixStore ------------------------------
(***************************************************************************)
(* The shared-port multi-IP store ("mix" mode) of the Neutron IPAM backend *)
(* (src/pkg/ipam/backend/neutron/mix_store.go), driven by concurrent CNI   *)
(* ADD/DEL invocations, one process per container ID.                      *)
(*                                                                         *)
(* Shared state: the host's Neutron port (its set of fixed IPs, owned by   *)
(* the cloud), the on-disk ledger (one file per address whose contents are *)
(* the owning container ID) and the advisory file lock of the data         *)
(* directory.  Each cloud call and each file operation is one step, so a   *)
(* crash (the plugin process killed) can fall between any two of them;    *)
(* the file lock is an flock and is released by the kernel on a crash.     *)
(*                                                                         *)
(* A cloud call may fail with no effect, or be applied by Neutron while    *)
(* its reply is lost (the client sees an error).                           *)
(***************************************************************************)
EXTENDS Naturals, FiniteSets, FiniteSetsExt

CONSTANTS
    Containers,  \* container IDs, one CNI caller per ID
    Addrs,       \* the subnet's allocatable addresses (naturals: the ledger
                 \* directory is walked in lexical order, here numeric order)
    HostIP,      \* the host's own address, the port's first fixed IP
    MAX_IPS,     \* backend.MAX_IPS: per-port fixed-IP maximum
    MaxDels,     \* bound on DEL invocations per container (DEL may repeat)
    ReliableLastDel, \* the last DEL of a container meets no cloud faults
    NoProc, NoIP, NoFile, Empty

ASSUME /\ Addrs \subseteq Nat /\ HostIP \notin Addrs
       /\ MAX_IPS \in Nat \ {0} /\ MaxDels \in Nat
       /\ ReliableLastDel \in BOOLEAN

VARIABLES
    fixedIPs,   \* Neutron: the fixed IPs of the host port
    ledger,     \* data dir: address -> file contents (container, Empty) or NoFile
    lockHolder, \* holder of the data-dir file lock
    op,         \* per container: the CNI command in flight ("none","add","del")
    pc,         \* per container: the next step of that command
    snap,       \* per container: the port fixed-IP list read by the command
    ip,         \* per container: the address allocated / found in the ledger
    added,      \* per container: ADD has been invoked
    dels,       \* per container: DEL invocations so far
    status,     \* per container: "none", "live" (ADD ok, no DEL yet),
                \* "dying" (ADD ok, DEL started, not yet succeeded)
    assigned    \* per container: the address ADD returned to the runtime

vars == <<fixedIPs, ledger, lockHolder, op, pc, snap, ip, added, dels, status,
          assigned>>

Steps == {"idle", "new", "lock", "get", "update", "create", "write",
          "walk", "dget", "dupdate", "remove"}

TypeOK ==
    /\ fixedIPs \subseteq Addrs \cup {HostIP}
    /\ ledger \in [Addrs -> Containers \cup {NoFile, Empty}]
    /\ lockHolder \in Containers \cup {NoProc}
    /\ op \in [Containers -> {"none", "add", "del"}]
    /\ pc \in [Containers -> Steps]
    /\ snap \in [Containers -> SUBSET (Addrs \cup {HostIP})]
    /\ ip \in [Containers -> Addrs \cup {NoIP}]
    /\ added \in [Containers -> BOOLEAN]
    /\ dels \in [Containers -> 0..MaxDels]
    /\ status \in [Containers -> {"none", "live", "dying"}]
    /\ assigned \in [Containers -> Addrs \cup {NoIP}]

Init ==
    /\ fixedIPs = {HostIP}
    /\ ledger = [a \in Addrs |-> NoFile]
    /\ lockHolder = NoProc
    /\ op = [c \in Containers |-> "none"]
    /\ pc = [c \in Containers |-> "idle"]
    /\ snap = [c \in Containers |-> {}]
    /\ ip = [c \in Containers |-> NoIP]
    /\ added = [c \in Containers |-> FALSE]
    /\ dels = [c \in Containers |-> 0]
    /\ status = [c \in Containers |-> "none"]
    /\ assigned = [c \in Containers |-> NoIP]

-----------------------------------------------------------------------------
(* Helpers translated from the store *)

\* Variant: the guard compares with > (lets the port reach MAX_IPS + 1).
IsOverMaxStrict(port) == Cardinality(port) > MAX_IPS

\* IsOverMax: the port already carries MAX_IPS fixed IPs.
IsOverMax(port) == Cardinality(port) >= MAX_IPS

\* difference(old, new): NoIP unless the new list is longer; otherwise the
\* first entry of new absent from old (addresses of one subnet, so matching
\* on address+subnet is matching on the address).
difference(old, new) ==
    IF Cardinality(new) <= Cardinality(old) THEN NoIP
    ELSE Min(new \ old)

\* Variant: the walk takes the first ledger file whatever it holds.
LedgerAnyFile(c) == {a \in Addrs : ledger[a] # NoFile}

\* The ledger files whose trimmed contents equal the container ID.
LedgerOwnedBy(c) == {a \in Addrs : ledger[a] = c}

\* The ReleaseByID walk stops at the first match in lexical order.
WalkFind(c) == IF LedgerOwnedBy(c) = {} THEN NoIP ELSE Min(LedgerOwnedBy(c))

\* Neutron's address allocation: any address of the subnet not on the port.
FreeAddrs == Addrs \ fixedIPs

-----------------------------------------------------------------------------
(* The end of an invocation: the store returns, the allocator's deferred   *)
(* Unlock and the plugin's deferred Close run, the runtime sees the result.*)

\* Variant: the store is not closed on return (no deferred Close/Unlock),
\* so the file lock stays with the finished command.
ReturnKeepsLock(c) ==
    /\ lockHolder' = lockHolder
    /\ op' = [op EXCEPT ![c] = "none"]
    /\ pc' = [pc EXCEPT ![c] = "idle"]
    /\ snap' = [snap EXCEPT ![c] = {}]
    /\ ip' = [ip EXCEPT ![c] = NoIP]

Return(c) ==
    /\ lockHolder' = IF lockHolder = c THEN NoProc ELSE lockHolder
    /\ op' = [op EXCEPT ![c] = "none"]
    /\ pc' = [pc EXCEPT ![c] = "idle"]
    /\ snap' = [snap EXCEPT ![c] = {}]
    /\ ip' = [ip EXCEPT ![c] = NoIP]

\* A failed command: the runtime's view of the container does not change.
Fail(c) == Return(c) /\ UNCHANGED <<status, assigned>>

\* A failure the environment injects (a cloud or file-system error, a lost
\* reply, a crash), as opposed to one the code decides.  With
\* ReliableLastDel the last DEL of a container meets none.
MayFault(c) == ~(ReliableLastDel /\ op[c] = "del" /\ dels[c] = MaxDels)

Fault(c) == MayFault(c) /\ Fail(c)

AddSucceeded(c, a) ==
    /\ Return(c)
    /\ status' = [status EXCEPT ![c] = "live"]
    /\ assigned' = [assigned EXCEPT ![c] = a]

DelSucceeded(c) ==
    /\ Return(c)
    /\ status' = [status EXCEPT ![c] = "none"]
    /\ assigned' = [assigned EXCEPT ![c] = NoIP]

-----------------------------------------------------------------------------
(* The runtime invokes the plugin.  CNI forbids a second ADD for an ID     *)
(* without DEL, and a torn-down ID is not reused; DEL may come at any time *)
(* (also with no ADD) and may be repeated.                                 *)

CmdAdd(c) ==
    /\ op[c] = "none" /\ ~added[c] /\ dels[c] = 0
    /\ op' = [op EXCEPT ![c] = "add"]
    /\ pc' = [pc EXCEPT ![c] = "new"]
    /\ added' = [added EXCEPT ![c] = TRUE]
    /\ UNCHANGED <<fixedIPs, ledger, lockHolder, snap, ip, dels, status, assigned>>

CmdDel(c) ==
    /\ op[c] = "none" /\ dels[c] < MaxDels
    /\ op' = [op EXCEPT ![c] = "del"]
    /\ pc' = [pc EXCEPT ![c] = "new"]
    /\ dels' = [dels EXCEPT ![c] = @ + 1]
    /\ status' = [status EXCEPT ![c] = IF @ = "live" THEN "dying" ELSE @]
    /\ UNCHANGED <<fixedIPs, ledger, lockHolder, snap, ip, added, assigned>>

\* StoreFactory -> NewMixStore: connect, look up the network, the host port
\* and its subnet, create the data dir and the lock.  Any error aborts the
\* command before the lock is taken; only the port ID is kept.
NewMixStore(c) ==
    /\ pc[c] = "new"
    /\ \/ Fault(c)
       \/ /\ pc' = [pc EXCEPT ![c] = "lock"]
          /\ UNCHANGED <<lockHolder, op, snap, ip, status, assigned>>
    /\ UNCHANGED <<fixedIPs, ledger, added, dels>>

\* Variant: a lock that does not exclude other processes (an in-process
\* mutex, as SeparateStore uses, gives each plugin process its own).
LockPerProcess(c) ==
    /\ pc[c] = "lock"
    /\ lockHolder' = c
    /\ pc' = [pc EXCEPT ![c] = IF op[c] = "add" THEN "get" ELSE "walk"]
    /\ UNCHANGED <<fixedIPs, ledger, op, snap, ip, added, dels, status, assigned>>

\* store.Lock(): block on the data-dir file lock.
Lock(c) ==
    /\ pc[c] = "lock" /\ lockHolder = NoProc
    /\ lockHolder' = c
    /\ pc' = [pc EXCEPT ![c] = IF op[c] = "add" THEN "get" ELSE "walk"]
    /\ UNCHANGED <<fixedIPs, ledger, op, snap, ip, added, dels, status, assigned>>

-----------------------------------------------------------------------------
(* Reserve *)

\* ports.Get of the host port, then the capacity guard.
ReserveGetPort(c) ==
    /\ pc[c] = "get"
    /\ \/ Fault(c)                                   \* Get error
       \/ IsOverMax(fixedIPs) /\ Fail(c)             \* over MAX_IPS
       \/ /\ ~IsOverMax(fixedIPs)
          /\ snap' = [snap EXCEPT ![c] = fixedIPs]
          /\ pc' = [pc EXCEPT ![c] = "update"]
          /\ UNCHANGED <<lockHolder, op, ip, status, assigned>>
    /\ UNCHANGED <<fixedIPs, ledger, added, dels>>

\* ports.Update with the read list plus a subnet-only entry; Neutron
\* allocates a free address and echoes the whole list; difference() finds it.
ReserveUpdatePort(c) ==
    /\ pc[c] = "update"
    /\ \/ Fault(c) /\ UNCHANGED fixedIPs             \* error, no effect
       \/ \E a \in FreeAddrs :
            /\ fixedIPs' = snap[c] \cup {a}
            /\ \/ Fault(c)                           \* applied, reply lost
               \/ LET new == difference(snap[c], fixedIPs') IN
                    \/ new = NoIP /\ Fail(c)
                    \/ /\ new # NoIP
                       /\ ip' = [ip EXCEPT ![c] = new]
                       /\ pc' = [pc EXCEPT ![c] = "create"]
                       /\ UNCHANGED <<lockHolder, op, snap, status, assigned>>
    /\ UNCHANGED <<ledger, added, dels>>

\* Variant: O_CREATE|O_TRUNC without O_EXCL overwrites an existing file.
ReserveCreateFileTrunc(c) ==
    /\ pc[c] = "create"
    /\ \/ Fault(c) /\ UNCHANGED ledger
       \/ /\ ledger' = [ledger EXCEPT ![ip[c]] = Empty]
          /\ pc' = [pc EXCEPT ![c] = "write"]
          /\ UNCHANGED <<lockHolder, op, snap, ip, status, assigned>>
    /\ UNCHANGED <<fixedIPs, added, dels>>

\* os.OpenFile(O_RDWR|O_EXCL|O_CREATE): fails if the file exists.
ReserveCreateFile(c) ==
    /\ pc[c] = "create"
    /\ \/ ledger[ip[c]] # NoFile /\ Fail(c) /\ UNCHANGED ledger
       \/ /\ ledger[ip[c]] = NoFile
          /\ \/ Fault(c) /\ UNCHANGED ledger         \* other open error
             \/ /\ ledger' = [ledger EXCEPT ![ip[c]] = Empty]
                /\ pc' = [pc EXCEPT ![c] = "write"]
                /\ UNCHANGED <<lockHolder, op, snap, ip, status, assigned>>
    /\ UNCHANGED <<fixedIPs, added, dels>>

\* f.WriteString(id); f.Close(); on either error os.Remove and fail.
ReserveWriteFile(c) ==
    /\ pc[c] = "write"
    /\ \/ /\ ledger' = [ledger EXCEPT ![ip[c]] = c]
          /\ AddSucceeded(c, ip[c])
       \/ /\ ledger' = [ledger EXCEPT ![ip[c]] = NoFile]
          /\ Fault(c)
    /\ UNCHANGED <<fixedIPs, added, dels>>

-----------------------------------------------------------------------------
(* ReleaseByID *)

\* filepath.Walk of the data dir for a file holding the ID; none: success.
\* A file whose ReadFile fails is skipped, so a read error on the
\* container's own file also ends in "not found" and success.
ReleaseWalk(c) ==
    /\ pc[c] = "walk"
    /\ \/ WalkFind(c) = NoIP /\ DelSucceeded(c)
       \/ WalkFind(c) # NoIP /\ MayFault(c) /\ DelSucceeded(c)
       \/ /\ WalkFind(c) # NoIP
          /\ ip' = [ip EXCEPT ![c] = WalkFind(c)]
          /\ pc' = [pc EXCEPT ![c] = "dget"]
          /\ UNCHANGED <<lockHolder, op, snap, status, assigned>>
    /\ UNCHANGED <<fixedIPs, ledger, added, dels>>

\* Variant: findIndex missing the address is an error, as removePort has it.
ReleaseGetPortMissFails(c) ==
    /\ pc[c] = "dget"
    /\ \/ Fault(c)
       \/ ip[c] \notin fixedIPs /\ Fail(c)
       \/ /\ ip[c] \in fixedIPs
          /\ snap' = [snap EXCEPT ![c] = fixedIPs]
          /\ pc' = [pc EXCEPT ![c] = "dupdate"]
          /\ UNCHANGED <<lockHolder, op, ip, status, assigned>>
    /\ UNCHANGED <<fixedIPs, ledger, added, dels>>

\* ports.Get, then findIndex: an address not on the port skips the update.
ReleaseGetPort(c) ==
    /\ pc[c] = "dget"
    /\ \/ Fault(c)
       \/ /\ snap' = [snap EXCEPT ![c] = fixedIPs]
          /\ pc' = [pc EXCEPT ![c] = IF ip[c] \in fixedIPs THEN "dupdate"
                                                         ELSE "remove"]
          /\ UNCHANGED <<lockHolder, op, ip, status, assigned>>
    /\ UNCHANGED <<fixedIPs, ledger, added, dels>>

\* ports.Update with the read list minus the container's address.
ReleaseUpdatePort(c) ==
    /\ pc[c] = "dupdate"
    /\ \/ Fault(c) /\ UNCHANGED fixedIPs             \* error, no effect
       \/ /\ fixedIPs' = snap[c] \ {ip[c]}
          /\ \/ Fault(c)                             \* applied, reply lost
             \/ /\ pc' = [pc EXCEPT ![c] = "remove"]
                /\ UNCHANGED <<lockHolder, op, snap, ip, status, assigned>>
    /\ UNCHANGED <<ledger, added, dels>>

\* if exists(path) { os.Remove(path) }; a Remove error fails the DEL.
ReleaseRemoveFile(c) ==
    /\ pc[c] = "remove"
    /\ \/ ledger' = [ledger EXCEPT ![ip[c]] = NoFile] /\ DelSucceeded(c)
       \/ Fault(c) /\ UNCHANGED ledger
    /\ UNCHANGED <<fixedIPs, added, dels>>

-----------------------------------------------------------------------------
\* The plugin process dies mid-command; the kernel drops its flock.
Crash(c) ==
    /\ op[c] # "none"
    /\ Fault(c)
    /\ UNCHANGED <<fixedIPs, ledger, added, dels>>

Progress(c) ==
    \/ NewMixStore(c) \/ Lock(c)
    \/ ReserveGetPort(c) \/ ReserveUpdatePort(c)
    \/ ReserveCreateFile(c) \/ ReserveWriteFile(c)
    \/ ReleaseWalk(c) \/ ReleaseGetPort(c)
    \/ ReleaseUpdatePort(c) \/ ReleaseRemoveFile(c)

Next == \E c \in Containers :
            CmdAdd(c) \/ CmdDel(c) \/ Progress(c) \/ Crash(c)

\* Each plugin process keeps running while it can; the kernel wakes an
\* flock waiter when the lock is free.  Invocations and faults are not fair.
Fairness == \A c \in Containers : WF_vars(Progress(c))

Spec == Init /\ [][Next]_vars /\ Fairness

-----------------------------------------------------------------------------
(* Properties *)

Configured(c) == status[c] \in {"live", "dying"}

\* The capacity guard (IsOverMax under the file lock) keeps the host port at
\* or below MAX_IPS fixed IPs across concurrent ADDs and DELs, crashes and
\* lost replies included.
CapacityInv == Cardinality(fixedIPs) <= MAX_IPS

\* A container whose ADD succeeded and that has not been torn down still
\* owns its address on both sides: it is on the host port (Reserve/Release
\* updates of other containers never drop it) and its ledger file names it.
LiveBacked ==
    \A c \in Containers : status[c] = "live" =>
        /\ assigned[c] \in fixedIPs
        /\ ledger[assigned[c]] = c

\* No address is handed to a container while another container whose DEL
\* has not succeeded still holds it (the O_EXCL ledger create is what stops
\* an address released on the port but not in the ledger being reused).
NoSharedAddress ==
    \A c1, c2 \in Containers :
        c1 # c2 /\ Configured(c1) /\ Configured(c2) =>
            assigned[c1] # assigned[c2]

\* Spec section 5: with every invocation returned (crashed ones included),
\* each ledger file naming a container names an address still on the port;
\* a fault may leave a cloud address with no ledger file, never the reverse.
\* ReleaseByID updates the port before it removes the ledger file.
LedgerBackedAtRest ==
    (\A c \in Containers : op[c] = "none") =>
        \A a \in Addrs : ledger[a] \in Containers => a \in fixedIPs

\* An address whose ledger file was created but never written (the plugin
\* died between O_EXCL create and WriteString) stays on the host port: the
\* half-written file is leaked together with its address, and never blocks
\* an address Neutron may hand out again, whose ADD would then fail on
\* O_EXCL.  It takes a crash of one ADD and DELs of other containers.
EmptyFileOnPort == \A a \in Addrs : ledger[a] = Empty => a \in fixedIPs

\* ReleaseByID "eats errors to be tolerant and release as much as possible"
\* (its comment) and spec 3 says teardown may be repeated after a partial
\* failure: a DEL that meets no fault, after any number of earlier DELs
\* that failed part-way, succeeds and leaves no ledger file naming the
\* container.
RetriedReleaseSucceeds ==
    \A c \in Containers :
        (ReliableLastDel /\ dels[c] = MaxDels /\ op[c] = "none") =>
            status[c] = "none" /\ LedgerOwnedBy(c) = {}

\* Every CNI invocation returns: the file lock is never held forever.
InvocationsReturn ==
    \A c \in Containers : (op[c] # "none") ~> (op[c] = "none")

=============================================================================
