------------------------------ MODULE VethRoute ------------------------------
(***************************************************************************)
(* The veth-route CNI plugin (src/cmd/veth-route/veth-route.go) composed   *)
(* with the IPAM backend it delegates to.  cmdAdd runs the IPAM ADD, then  *)
(* wires the container: dummy0 with 169.254.1.1 on the host, a veth pair   *)
(* with the container side configured, and a host route <ip>/32 dev <host  *)
(* veth>.  cmdDel runs the IPAM DEL first, then deletes the container's    *)
(* interface (its peer, and the host routes through the peer, go with it). *)
(*                                                                         *)
(* The IPAM backend is taken as its contract: ADD hands out an address no  *)
(* container holds (NoSharedAddress of MixStore), DEL frees the            *)
(* container's address; either may fail with no effect.  Each netlink step *)
(* may fail; the plugin may die at any step.  One process per container ID.*)
(*                                                                         *)
(* The runtime creates a container's netns before its ADD and removes it   *)
(* once the container is no longer running; the kernel destroys the veth  *)
(* pair, and the host routes through it, with the netns.  A DEL after that *)
(* gets Netns = "" (the CNI contract), or with StaleNetnsPath the old path.*)
(***************************************************************************)
EXTENDS Naturals

CONSTANTS
    Containers,  \* container IDs, one CNI caller per ID
    Addrs,       \* the addresses the IPAM backend hands out
    MaxDels,     \* bound on DEL invocations per container
    ReliableLastDel, \* the last DEL of a container meets no fault
    StaleNetnsPath,  \* a DEL may get the path of a netns already removed
    IPMasq,      \* conf.IPMasq: masquerade the container's traffic
    Free, NoRoute, NoIP

ASSUME MaxDels \in Nat /\ ReliableLastDel \in BOOLEAN /\ StaleNetnsPath \in BOOLEAN
       /\ IPMasq \in BOOLEAN

VARIABLES
    ipam,     \* IPAM backend: address -> holding container, or Free
    dummy,    \* host: dummy0 exists with 169.254.1.1
    links,    \* host: containers whose veth pair exists
    route,    \* host: address -> container whose veth the /32 route uses
    masq,     \* host: containers with an IP masquerade chain in iptables
    op,       \* per container: the CNI command in flight
    pc,       \* per container: the next step of that command
    ip,       \* per container: the address of the IPAM result
    added,    \* per container: ADD has been invoked
    dels,     \* per container: DEL invocations so far
    status,   \* per container: "none", "live", "dying", as in MixStore
    torn,     \* per container: a DEL has returned success
    netns,    \* per container: its network namespace exists
    nsArg     \* per container: the Netns argument of the DEL in flight

vars == <<ipam, dummy, links, route, masq, op, pc, ip, added, dels, status, torn,
          netns, nsArg>>

TypeOK ==
    /\ ipam \in [Addrs -> Containers \cup {Free}]
    /\ dummy \in BOOLEAN
    /\ links \subseteq Containers
    /\ route \in [Addrs -> Containers \cup {NoRoute}]
    /\ masq \subseteq Containers
    /\ op \in [Containers -> {"none", "add", "del"}]
    /\ pc \in [Containers -> {"idle", "ipam", "prep", "dummy", "cveth", "hveth",
                              "masq", "dipam", "dlink", "dmasq"}]
    /\ ip \in [Containers -> Addrs \cup {NoIP}]
    /\ added \in [Containers -> BOOLEAN]
    /\ dels \in [Containers -> 0..MaxDels]
    /\ status \in [Containers -> {"none", "live", "dying"}]
    /\ torn \in [Containers -> BOOLEAN]
    /\ netns \in [Containers -> BOOLEAN]
    /\ nsArg \in [Containers -> {"path", ""}]

Init ==
    /\ ipam = [a \in Addrs |-> Free]
    /\ dummy = FALSE
    /\ links = {}
    /\ route = [a \in Addrs |-> NoRoute]
    /\ masq = {}
    /\ op = [c \in Containers |-> "none"]
    /\ pc = [c \in Containers |-> "idle"]
    /\ ip = [c \in Containers |-> NoIP]
    /\ added = [c \in Containers |-> FALSE]
    /\ dels = [c \in Containers |-> 0]
    /\ status = [c \in Containers |-> "none"]
    /\ torn = [c \in Containers |-> FALSE]
    /\ netns = [c \in Containers |-> TRUE]
    /\ nsArg = [c \in Containers |-> "path"]

host == <<ipam, dummy, links, route, masq, netns>>

-----------------------------------------------------------------------------
Return(c) ==
    /\ op' = [op EXCEPT ![c] = "none"]
    /\ pc' = [pc EXCEPT ![c] = "idle"]
    /\ ip' = [ip EXCEPT ![c] = NoIP]

\* An error return, or the process dying: the runtime's view is unchanged.
Fail(c) == Return(c) /\ UNCHANGED <<status, torn>>

\* A failure the environment injects (a netlink or IPAM error, a crash), as
\* opposed to one the code decides.  With ReliableLastDel the last DEL of a
\* container meets none.
Fault(c) ==
    /\ ~(ReliableLastDel /\ op[c] = "del" /\ dels[c] = MaxDels)
    /\ Fail(c)

Goto(c, step) == pc' = [pc EXCEPT ![c] = step] /\ UNCHANGED <<op, ip, status, torn>>

InvokeAdd(c) ==
    /\ op[c] = "none" /\ ~added[c] /\ dels[c] = 0
    /\ op' = [op EXCEPT ![c] = "add"]
    /\ pc' = [pc EXCEPT ![c] = "ipam"]
    /\ added' = [added EXCEPT ![c] = TRUE]
    /\ UNCHANGED <<host, ip, dels, status, torn, nsArg>>

\* The Netns the runtime passes to DEL: the path while the netns exists,
\* "" once it is gone, or with StaleNetnsPath still the old path.
NetnsArg(c) ==
    \/ netns[c] /\ nsArg' = [nsArg EXCEPT ![c] = "path"]
    \/ ~netns[c] /\ nsArg' = [nsArg EXCEPT ![c] = ""]
    \/ ~netns[c] /\ StaleNetnsPath /\ nsArg' = [nsArg EXCEPT ![c] = "path"]

\* The runtime calls DEL after a failed ADD, on teardown, and again on retry.
InvokeDel(c) ==
    /\ op[c] = "none" /\ dels[c] < MaxDels
    /\ op' = [op EXCEPT ![c] = "del"]
    /\ pc' = [pc EXCEPT ![c] = "dipam"]
    /\ dels' = [dels EXCEPT ![c] = @ + 1]
    /\ status' = [status EXCEPT ![c] = IF @ = "live" THEN "dying" ELSE @]
    /\ NetnsArg(c)
    /\ UNCHANGED <<host, ip, added, torn>>

-----------------------------------------------------------------------------
(* cmdAdd *)

\* ipam.ExecAdd and NewResultFromResult: an address, or an error.
IpamExecAdd(c) ==
    /\ pc[c] = "ipam"
    /\ \/ Fail(c) /\ UNCHANGED ipam
       \/ \E a \in Addrs :
            /\ ipam[a] = Free
            /\ ipam' = [ipam EXCEPT ![a] = c]
            /\ pc' = [pc EXCEPT ![c] = "prep"]
            /\ ip' = [ip EXCEPT ![c] = a]
            /\ UNCHANGED <<op, status, torn>>
    /\ UNCHANGED <<dummy, links, route, masq, added, dels, netns, nsArg>>

\* ip.EnableForward, then ns.GetNS of the container's netns.
Prepare(c) ==
    /\ pc[c] = "prep"
    /\ Fail(c) \/ Goto(c, "dummy")
    /\ UNCHANGED <<host, added, dels, nsArg>>

\* setupDummy: create dummy0 unless it exists (EEXIST is tolerated, so two
\* ADDs creating it at once both go on) and give it 169.254.1.1.
SetupDummy(c) ==
    /\ pc[c] = "dummy"
    /\ \/ Fail(c) /\ UNCHANGED dummy
       \/ dummy' = TRUE /\ Goto(c, "cveth")
    /\ UNCHANGED <<ipam, links, route, masq, added, dels, netns, nsArg>>

\* setupContainerVeth: ip.SetupVeth creates the pair; configuring the
\* container side (address, routes via 169.254.1.1) may fail after that,
\* leaving the pair in place.
SetupContainerVeth(c) ==
    /\ pc[c] = "cveth"
    /\ \/ Fail(c) /\ UNCHANGED links
       \/ /\ links' = links \cup {c}
          /\ Fail(c) \/ Goto(c, "hveth")
    /\ UNCHANGED <<ipam, dummy, route, masq, added, dels, netns, nsArg>>

\* The ADD has wired the container and returns its result.
AddSucceeded(c) ==
    /\ Return(c)
    /\ status' = [status EXCEPT ![c] = "live"]
    /\ UNCHANGED torn

\* setupHostVeth: LinkByName of the host side, then ip.AddRoute(ip/32 dev
\* veth); an error other than EEXIST fails, EEXIST (the address already has
\* a host route) is ignored.  Then, without IPMasq, cmdAdd returns.
SetupHostVeth(c) ==
    /\ pc[c] = "hveth"
    /\ \/ Fail(c) /\ UNCHANGED route
       \/ /\ route' = IF route[ip[c]] = NoRoute
                      THEN [route EXCEPT ![ip[c]] = c] ELSE route
          /\ IF IPMasq THEN Goto(c, "masq") ELSE AddSucceeded(c)
    /\ UNCHANGED <<ipam, dummy, links, masq, added, dels, netns, nsArg>>

\* ip.SetupIPMasq(address, chain, comment): creates the container's chain,
\* then its rules; an error after the chain exists leaves it.
SetupIPMasq(c) ==
    /\ pc[c] = "masq"
    /\ masq' \in {masq, masq \cup {c}}
    /\ Fail(c) \/ (masq' = masq \cup {c} /\ AddSucceeded(c))
    /\ UNCHANGED <<ipam, dummy, links, route, added, dels, netns, nsArg>>

-----------------------------------------------------------------------------
(* cmdDel *)

\* Deleting a link drops the host routes through it.
Unlink(c) ==
    /\ links' = links \ {c}
    /\ route' = [a \in Addrs |-> IF route[a] = c THEN NoRoute ELSE route[a]]

DelSucceeded(c) ==
    /\ Return(c)
    /\ status' = [status EXCEPT ![c] = "none"]
    /\ torn' = [torn EXCEPT ![c] = TRUE]

\* Variant: no early return for an empty Netns.
AfterExecDelNoEmptyCheck(c) == Goto(c, "dlink")

AfterExecDel(c) ==
    IF nsArg[c] = "" THEN DelSucceeded(c) ELSE Goto(c, "dlink")

\* ipam.ExecDel: the backend's ReleaseByID; an error fails the DEL before
\* any cleanup.  Then, with Netns = "", cmdDel returns success at once.
IpamExecDel(c) ==
    /\ pc[c] = "dipam"
    /\ \/ Fault(c) /\ UNCHANGED ipam
       \/ /\ ipam' = [a \in Addrs |-> IF ipam[a] = c THEN Free ELSE ipam[a]]
          /\ AfterExecDel(c)
    /\ UNCHANGED <<dummy, links, route, masq, added, dels, netns, nsArg>>

\* The link was found and deleted, so ipnets is not empty: with IPMasq the
\* chain is torn down next.
LinkDeleted(c) ==
    /\ Unlink(c)
    /\ IF IPMasq THEN Goto(c, "dmasq") ELSE DelSucceeded(c)

\* Variant: every error of DelLinkByNameAddr is taken for ErrLinkNotFound.
DelLinkAnyErrOk(c) ==
    /\ pc[c] = "dlink"
    /\ \/ DelSucceeded(c) /\ UNCHANGED <<links, route>>
       \/ c \in links /\ LinkDeleted(c)
    /\ UNCHANGED <<ipam, dummy, masq, added, dels, netns, nsArg>>

\* WithNetNSPath: opening a netns that is gone fails the DEL; inside it
\* ip.DelLinkByNameAddr(ifName), where ErrLinkNotFound is success with no
\* ipnets (nothing to tear down) and any other error fails the DEL.
DelLinkByNameAddr(c) ==
    /\ pc[c] = "dlink"
    /\ \/ ~netns[c] /\ Fail(c) /\ UNCHANGED <<links, route>>
       \/ /\ netns[c]
          /\ \/ c \notin links /\ DelSucceeded(c) /\ UNCHANGED <<links, route>>
             \/ c \in links /\ Fault(c) /\ UNCHANGED <<links, route>>
             \/ c \in links /\ LinkDeleted(c)
    /\ UNCHANGED <<ipam, dummy, masq, added, dels, netns, nsArg>>

\* ip.TeardownIPMasq(ipn, chain, comment); its error is cmdDel's.
TeardownIPMasq(c) ==
    /\ pc[c] = "dmasq"
    /\ \/ Fault(c) /\ UNCHANGED masq
       \/ masq' = masq \ {c} /\ DelSucceeded(c)
    /\ UNCHANGED <<ipam, dummy, links, route, added, dels, netns, nsArg>>

-----------------------------------------------------------------------------
(* The runtime and the kernel *)

\* The plugin process dies mid-command.
Crash(c) ==
    /\ op[c] # "none"
    /\ Fault(c)
    /\ UNCHANGED <<host, added, dels, nsArg>>

\* The runtime removes the netns of a container that is not running, with
\* no CNI call of it in flight; the kernel destroys the veth pair with it.
NetnsGone(c) ==
    /\ netns[c] /\ added[c] /\ op[c] = "none" /\ status[c] # "live"
    /\ netns' = [netns EXCEPT ![c] = FALSE]
    /\ Unlink(c)
    /\ UNCHANGED <<ipam, dummy, masq, op, pc, ip, added, dels, status, torn, nsArg>>

Next == \E c \in Containers :
            \/ InvokeAdd(c) \/ InvokeDel(c)
            \/ IpamExecAdd(c) \/ Prepare(c) \/ SetupDummy(c)
            \/ SetupContainerVeth(c) \/ SetupHostVeth(c) \/ SetupIPMasq(c)
            \/ IpamExecDel(c) \/ DelLinkByNameAddr(c) \/ TeardownIPMasq(c)
            \/ Crash(c) \/ NetnsGone(c)

Spec == Init /\ [][Next]_vars

-----------------------------------------------------------------------------
(* Properties *)

\* Once a DEL has returned success the container holds nothing: no address
\* in the IPAM backend and no veth pair (hence no host route) on the host,
\* whatever earlier ADD and DEL attempts left behind.
VethReleasedClean ==
    \A c \in Containers :
        torn[c] => c \notin links /\ \A a \in Addrs : ipam[a] # c

\* A live container holds its address in the IPAM backend, and the host
\* route to that address goes through its own veth: packets for it reach it.
LiveRouted ==
    \A c \in Containers :
        status[c] = "live" =>
            \E a \in Addrs : ipam[a] = c /\ route[a] = c

\* A DEL that returned success has also removed the container's IP
\* masquerade chain, whichever earlier DEL deleted its link.
MasqReleasedClean ==
    \A c \in Containers : torn[c] => c \notin masq

\* Spec 7 (idempotent release): a DEL that meets no fault succeeds after
\* any earlier DELs that failed part-way, also once the runtime has removed
\* the container's netns and passes Netns = "".
RetriedDelTearsDown ==
    \A c \in Containers :
        (ReliableLastDel /\ dels[c] = MaxDels /\ op[c] = "none") => torn[c]

=============================================================================
