------------------------------ MODULE RouteSync ------------------------------
(***************************************************************************)
(* Route synchronisation for the mix-route mode: each replica of the      *)
(* veth-route-controller (src/cmd/veth-route-controller/main.go), when it  *)
(* leads (or at once without --leader-elect), builds a NeutronRouter       *)
(* (src/pkg/openstack/neutron/router/router.go) and runs the pod          *)
(* controller with two workers over a shared informer that resyncs every  *)
(* 30 s.  Each sync hands the informer's pod list to UpdateRoutes, which   *)
(* under the router's mutex turns it into static routes (PodIP/32 via      *)
(* HostIP) and replaces the router's whole route list.                     *)
(*                                                                         *)
(* The controller package is not in the repository; its workers are       *)
(* modelled as the usual workqueue loop: take a key, list the pods, call   *)
(* UpdateRoutes, requeue the key on error.  A replica has its own         *)
(* informer, workqueue and nr.lock; a replica that loses its lease exits,  *)
(* and a routers.Update it had sent may still reach Neutron.              *)
(***************************************************************************)
EXTENDS Naturals, FiniteSets

CONSTANTS
    Pods,       \* pod names
    Hosts,      \* node addresses (a pod's HostIP)
    IPs,        \* pod addresses
    Subnet,     \* the addresses of the router's subnet (nr.subnet.CIDR)
    Controllers,  \* controller replicas
    LeaderElect,  \* the --leader-elect flag
    Workers,    \* controller workers: controller.Run(n, ...) of each replica
    Owner,      \* worker -> the replica it runs in
    MaxEvents,  \* bound on pod lifecycle events
    MaxFaults,  \* bound on failed cloud calls (construction, routers.Update)
    Self,       \* the controller's own pod, present throughout
    NoIP, NoProc

ASSUME IPs \ Subnet # {}
ASSUME Owner \in [Workers -> Controllers] /\ LeaderElect \in BOOLEAN
ASSUME Subnet \subseteq IPs /\ Self \in Pods /\ MaxEvents \in Nat /\ MaxFaults \in Nat

\* What the informer holds of a pod.
PodView == [phase : {"absent", "pending", "running", "succeeded"},
            deleting : BOOLEAN, ip : IPs \cup {NoIP}, host : Hosts]

Route == [dest : IPs, nexthop : Hosts]

VARIABLES
    pods,       \* the API server's pods, as the informer sees them
    events,     \* pod lifecycle events so far
    faults,     \* failed cloud calls and lost leases so far
    leader,     \* the replica holding the leader-election lease
    ready,      \* per replica: NewNeutronRouter has returned, workers run
    queue,      \* per replica: the workqueue, pod keys waiting for a worker
    wpc,        \* per worker: "idle", "lock", "update"
    wkey,       \* per worker: the key it is processing
    wsnap,      \* per worker: the pod list it passed to UpdateRoutes
    wroutes,    \* per worker: the routes parsePodsRoutes built from it
    lockHolder, \* per replica: nr.lock
    inflight,   \* route lists sent by replicas that have exited since
    routes      \* the router's static routes in Neutron

vars == <<pods, events, faults, leader, ready, queue, wpc, wkey, wsnap,
          wroutes, lockHolder, inflight, routes>>

Absent == [phase |-> "absent", deleting |-> FALSE, ip |-> NoIP,
           host |-> CHOOSE h \in Hosts : TRUE]

\* A worker's pod list and routes when it holds none (out of scope).
NoList == [p \in Pods |-> Absent]

TypeOK ==
    /\ pods \in [Pods -> PodView]
    /\ events \in 0..MaxEvents
    /\ faults \in 0..MaxFaults
    /\ leader \in Controllers \cup {NoProc}
    /\ ready \in [Controllers -> BOOLEAN]
    /\ queue \in [Controllers -> SUBSET Pods]
    /\ wpc \in [Workers -> {"idle", "lock", "update"}]
    /\ wkey \in [Workers -> Pods]
    /\ wsnap \in [Workers -> [Pods -> PodView]]
    /\ wroutes \in [Workers -> SUBSET Route]
    /\ lockHolder \in [Controllers -> Workers \cup {NoProc}]
    /\ inflight \subseteq SUBSET Route
    /\ routes \subseteq Route

\* The controller's pod runs from the start; its address (hostNetwork, or
\* any address outside the router's subnet) is not routed.
SelfView == [phase |-> "running", deleting |-> FALSE,
             ip |-> CHOOSE a \in IPs : a \notin Subnet,
             host |-> CHOOSE h \in Hosts : TRUE]

Init ==
    /\ pods = [p \in Pods |-> IF p = Self THEN SelfView ELSE Absent]
    /\ events = 0
    /\ faults = 0
    /\ leader = NoProc
    /\ ready = [k \in Controllers |-> FALSE]
    /\ queue = [k \in Controllers |-> {}]
    /\ wpc = [w \in Workers |-> "idle"]
    /\ wkey = [w \in Workers |-> CHOOSE p \in Pods : TRUE]
    /\ wsnap = [w \in Workers |-> NoList]
    /\ wroutes = [w \in Workers |-> {}]
    /\ lockHolder = [k \in Controllers |-> NoProc]
    /\ inflight = {}
    /\ routes = {}

Present == {p \in Pods : pods[p].phase # "absent"}

-----------------------------------------------------------------------------
(* Pods change: each change is an informer event that enqueues the pod.   *)

\* An address the CNI may hand out: none a pending or running pod holds.
\* A succeeded pod keeps its PodIP in its status after the CNI freed it.
InUse == {pods[p].ip : p \in {q \in Pods : pods[q].phase \in {"pending", "running"}}}

\* Every running replica's informer delivers the change.
Enqueue(p) == [k \in Controllers |-> IF ready[k] THEN queue[k] \cup {p} ELSE queue[k]]

PodEvent(p, view) ==
    /\ p # Self /\ events < MaxEvents
    /\ pods' = [pods EXCEPT ![p] = view]
    /\ events' = events + 1
    /\ queue' = Enqueue(p)
    /\ UNCHANGED <<faults, leader, ready, wpc, wkey, wsnap, wroutes, lockHolder,
                   inflight, routes>>

\* Scheduled to a node, then started with an address from the CNI.
Schedule(p) ==
    \E h \in Hosts :
        /\ pods[p].phase = "absent"
        /\ PodEvent(p, [Absent EXCEPT !.phase = "pending", !.host = h])

Start(p) ==
    \E a \in IPs \ InUse :
        /\ pods[p].phase = "pending" /\ ~pods[p].deleting
        /\ PodEvent(p, [pods[p] EXCEPT !.phase = "running", !.ip = a])

\* The pod's containers exit (restartPolicy Never): phase Succeeded.
Complete(p) ==
    /\ pods[p].phase = "running"
    /\ PodEvent(p, [pods[p] EXCEPT !.phase = "succeeded"])

\* DeletionTimestamp is set; later the pod object is removed.
MarkDeleting(p) ==
    /\ pods[p].phase # "absent" /\ ~pods[p].deleting
    /\ PodEvent(p, [pods[p] EXCEPT !.deleting = TRUE])

Remove(p) ==
    /\ pods[p].deleting
    /\ PodEvent(p, Absent)

-----------------------------------------------------------------------------
(* The controller replicas *)

\* main(): without --leader-elect run() starts at once; with it, run() is
\* OnStartedLeading, so only the lease holder runs it.
MayRun(k) == ~LeaderElect \/ leader = k

\* leaderelection.RunOrDie: a replica takes the free lease (the previous
\* holder's lease has expired or was never taken) and starts leading.
Acquire(k) ==
    /\ LeaderElect /\ leader = NoProc /\ ~ready[k]
    /\ leader' = k
    /\ UNCHANGED <<pods, events, faults, ready, queue, wpc, wkey, wsnap,
                   wroutes, lockHolder, inflight, routes>>

\* The replica's process ends: its informer, queue, lock and workers go.
\* A worker that had sent its routers.Update leaves the request in flight.
Exit(k) ==
    LET mine == {w \in Workers : Owner[w] = k}
    IN  /\ ready' = [ready EXCEPT ![k] = FALSE]
        /\ queue' = [queue EXCEPT ![k] = {}]
        /\ lockHolder' = [lockHolder EXCEPT ![k] = NoProc]
        /\ inflight' = inflight \cup {wroutes[w] : w \in {v \in mine : wpc[v] = "update"}}
        /\ wpc' = [w \in Workers |-> IF w \in mine THEN "idle" ELSE wpc[w]]
        /\ wsnap' = [w \in Workers |-> IF w \in mine THEN NoList ELSE wsnap[w]]
        /\ wroutes' = [w \in Workers |-> IF w \in mine THEN {} ELSE wroutes[w]]

\* run(): NewNeutronRouter (config, ConnectStore, host address, network,
\* host port, subnet, FindRouter by the gateway IP); an error panics, the
\* process ends (its lease expires) and the pod is restarted.  Then the
\* informer's initial list enqueues every pod and the workers start.
NewNeutronRouter(k) ==
    /\ ~ready[k] /\ MayRun(k)
    /\ \/ /\ faults < MaxFaults /\ faults' = faults + 1
          /\ leader' = IF leader = k THEN NoProc ELSE leader
          /\ UNCHANGED <<ready, queue>>
       \/ /\ ready' = [ready EXCEPT ![k] = TRUE]
          /\ queue' = [queue EXCEPT ![k] = Present]
          /\ UNCHANGED <<faults, leader>>
    /\ UNCHANGED <<pods, events, wpc, wkey, wsnap, wroutes, lockHolder,
                   inflight, routes>>

\* Variant: OnStoppedLeading only logs, as NewLeader does; the replica
\* keeps its informer and workers.
LoseLeaseNoExit(k) ==
    /\ LeaderElect /\ leader = k /\ ready[k]
    /\ faults < MaxFaults /\ faults' = faults + 1
    /\ leader' = NoProc
    /\ UNCHANGED <<pods, events, ready, queue, wpc, wkey, wsnap, wroutes,
                   lockHolder, inflight, routes>>

\* The leader fails to renew its lease within the renew deadline:
\* OnStoppedLeading calls os.Exit(0).  Another replica may then lead while
\* a routers.Update of this one is still on its way.
LoseLease(k) ==
    /\ LeaderElect /\ leader = k /\ ready[k]
    /\ faults < MaxFaults /\ faults' = faults + 1
    /\ leader' = NoProc
    /\ Exit(k)
    /\ UNCHANGED <<pods, events, wkey, routes>>

\* A request of an exited replica reaches Neutron and is applied.
Deliver ==
    \E r \in inflight :
        /\ routes' = r
        /\ inflight' = inflight \ {r}
        /\ UNCHANGED <<pods, events, faults, leader, ready, queue, wpc, wkey,
                       wsnap, wroutes, lockHolder>>

\* Variant: the informer factory built with resync period 0: the informer
\* idles, delivering nothing again.
ResyncOff(k) ==
    /\ ready[k]
    /\ UNCHANGED vars

\* NewSharedInformerFactory(kubeClient, 30 s): every pod is delivered again.
Resync(k) ==
    /\ ready[k]
    /\ queue' = [queue EXCEPT ![k] = queue[k] \cup Present]
    /\ UNCHANGED <<pods, events, faults, leader, ready, wpc, wkey, wsnap,
                   wroutes, lockHolder, inflight, routes>>

\* A worker takes a key and lists the pods it passes to UpdateRoutes.
TakeKey(w) ==
    \E p \in queue[Owner[w]] :
        /\ ready[Owner[w]] /\ wpc[w] = "idle"
        /\ queue' = [queue EXCEPT ![Owner[w]] = @ \ {p}]
        /\ wkey' = [wkey EXCEPT ![w] = p]
        /\ wsnap' = [wsnap EXCEPT ![w] = pods]
        /\ wpc' = [wpc EXCEPT ![w] = "lock"]
        /\ UNCHANGED <<pods, events, faults, leader, ready, wroutes, lockHolder,
                       inflight, routes>>

\* checkPodIP: net.ParseCIDR(subnet).Contains(net.ParseIP(PodIP)); an
\* empty PodIP parses to nil, which no subnet contains.
CheckPodIP(a) == a \in Subnet

\* parsePodsRoutes: skip pods with a DeletionTimestamp and pods whose IP is
\* outside the subnet; PodIP/32 via HostIP for the rest, one list entry per
\* pod.
RoutedPods(view) ==
    {p \in Pods : view[p].phase # "absent" /\ ~view[p].deleting
                  /\ CheckPodIP(view[p].ip)}

ParsePodsRoutes(view) ==
    {[dest |-> view[p].ip, nexthop |-> view[p].host] : p \in RoutedPods(view)}

\* The list has an entry twice: two pods with the same PodIP and HostIP, a
\* Succeeded pod that keeps the address a newer pod on its node was given.
DuplicateRoutes(view) ==
    \E p, q \in RoutedPods(view) :
        p # q /\ view[p].ip = view[q].ip /\ view[p].host = view[q].host

\* UpdateRoutes: nr.lock.Lock() of the worker's replica, then
\* parsePodsRoutes.
LockAndParse(w) ==
    /\ wpc[w] = "lock" /\ lockHolder[Owner[w]] = NoProc
    /\ lockHolder' = [lockHolder EXCEPT ![Owner[w]] = w]
    /\ wroutes' = [wroutes EXCEPT ![w] = ParsePodsRoutes(wsnap[w])]
    /\ wpc' = [wpc EXCEPT ![w] = "update"]
    /\ UNCHANGED <<pods, events, faults, leader, ready, queue, wkey, wsnap,
                   inflight, routes>>

\* routers.Update with the whole route list, then the deferred Unlock.  An
\* error (the update refused, or applied with the reply lost) makes the
\* worker requeue the key.  Neutron's validation of the routes attribute
\* refuses a list with a duplicate entry, every time it is sent.
UpdateRoutes(w) ==
    /\ wpc[w] = "update"
    /\ LET requeue == [queue EXCEPT ![Owner[w]] = @ \cup {wkey[w]}] IN
       \/ /\ DuplicateRoutes(wsnap[w])
          /\ queue' = requeue
          /\ UNCHANGED <<faults, routes>>
       \/ /\ ~DuplicateRoutes(wsnap[w])
          /\ faults < MaxFaults /\ faults' = faults + 1
          /\ \/ UNCHANGED routes
             \/ routes' = wroutes[w]
          /\ queue' = requeue
       \/ /\ ~DuplicateRoutes(wsnap[w])
          /\ routes' = wroutes[w] /\ UNCHANGED <<faults, queue>>
    /\ lockHolder' = [lockHolder EXCEPT ![Owner[w]] = NoProc]
    /\ wpc' = [wpc EXCEPT ![w] = "idle"]
    /\ wsnap' = [wsnap EXCEPT ![w] = NoList]
    /\ wroutes' = [wroutes EXCEPT ![w] = {}]
    /\ UNCHANGED <<pods, events, leader, ready, wkey, inflight>>

Worker(w) == TakeKey(w) \/ LockAndParse(w) \/ UpdateRoutes(w)

PodChange == \E p \in Pods :
                 Schedule(p) \/ Start(p) \/ Complete(p) \/ MarkDeleting(p) \/ Remove(p)

Next ==
    \/ PodChange
    \/ \E k \in Controllers :
          Acquire(k) \/ NewNeutronRouter(k) \/ LoseLease(k) \/ Resync(k)
    \/ Deliver
    \/ \E w \in Workers : Worker(w)

\* The kubelet restarts a replica that exits, a free lease is taken by one
\* of the replicas retrying every RetryPeriod, the informers resync on
\* their period, and the workers run while they have work.  Pod changes,
\* lost leases and the delivery of a dead replica's request are not fair.
Fairness ==
    /\ WF_vars(\E k \in Controllers : Acquire(k))
    /\ \A k \in Controllers : WF_vars(NewNeutronRouter(k)) /\ WF_vars(Resync(k))
    /\ \A w \in Workers : WF_vars(Worker(w))

Spec == Init /\ [][Next]_vars /\ Fairness

-----------------------------------------------------------------------------
(* Properties *)

\* Once the pods stop changing, the router's routes end up, and stay, those
\* of the pods as they now are: a worker that passed an older pod list to
\* UpdateRoutes and wrote after a newer one does not leave stale routes.
RoutesConverge == <>[](routes = ParsePodsRoutes(pods))

\* With --leader-elect, at most one replica runs its informer and workers:
\* the lease holder; one that lost the lease has exited (StoppedLeading's
\* os.Exit) before another can take the lease and run().
OneReplicaRuns ==
    LeaderElect => \A k \in Controllers : ready[k] => leader = k

\* The router's static routes mirror container placement (spec 3): no pod
\* address is routed to two nodes.
RouteDestUnique ==
    \A r1, r2 \in routes : r1.dest = r2.dest => r1 = r2

=============================================================================
