# TLA+ models of meliodas

This directory holds TLA+ models of meliodas, with the TLC configurations
that check them:

- the Neutron IP allocation backend in `src/pkg/ipam/backend/neutron/`,
  driven by the CNI IPAM plugin `src/cmd/tcnp-ipam/ipam.go`;
- the veth-route CNI plugin `src/cmd/veth-route/veth-route.go`, which
  delegates to that backend;
- the router route sync `src/pkg/openstack/neutron/router/router.go` and
  the controller that drives it, `src/cmd/veth-route-controller/main.go`;
- the scheduler plugin `src/pkg/scheduling/`.
`PROJECT.json` lists the components, the runs, the mutants and the findings.
It maps every modelled definition to the source lines it translates, and it
lists the hazards that the properties target.

## 1. Inventory

### Components and their state

| Component | Source | State | Operations |
|---|---|---|---|
| CNI IPAM plugin | `cmd/tcnp-ipam/ipam.go` | none of its own: one OS process per ADD or DEL | `cmdAdd`: factory, `allocator.Get`, deferred `store.Close`. `cmdDel`: factory, `allocator.Release`, `Close` |
| Store factory | `neutron/factory.go` | none | picks a store by mode string; `""` means separate, an unknown mode is an error |
| File lock and allocator (not under `src/`) | used by the stores through `*FileLock` | an flock on the data directory | `Lock`/`Unlock` around `Reserve`/`ReleaseByID`. `Close` closes the fd, and the kernel drops the lock when the process dies |
| Mix store | `neutron/mix_store.go` | cloud: the host port's fixed-IP list. Disk: the ledger, one file per address holding the container ID. Store: the host port ID and the subnet | `NewMixStore`, `Reserve`, `ReleaseByID`, plus the helpers `IsOverMax`, `difference`, `findIndex` |
| Mix-route store | `neutron/mix_route_store.go` | as the mix store, but the store also keeps a **whole copy of the host port** read at construction, and a router | `NewMixRouteStore`, `Reserve` (`allocatePort`, `writeIP`), `ReleaseByID` (`removePort`) |
| ENI store | `neutron/eni_store.go` | cloud: one port per container, named after the container ID, and the instance's attached interfaces | `NewEniStore` (finds the instance by address), `Reserve` (find or create the port, a capacity guard on attachments, attach), `ReleaseByID` (delete the port) |
| Separate store | `neutron/separate_store.go` | cloud: one port per container; an in-process `sync.RWMutex` | `Reserve` (create a port), `ReleaseByID` (find the port and delete it) |
| Neutron helpers | `neutron/utils.go` | none | connect with AES-decrypted credentials, `FindServer` (substring match on addresses), `CountServerIntsAndEnis`, `FindPort` (by name, limit 1), `FindRouter` |
| Scheduler plugin | `pkg/scheduling/*.go` | per-cycle `CycleState` | `Filter`, `PreScore`/`ParallelCollection` (N workers draining a channel), `Score`, `NormalizeScore`, `Less` |
| Route sync | `pkg/openstack/neutron/router/router.go`, `cmd/veth-route-controller/main.go` | the router's static routes; the informer's pod cache; the workqueue | `NewNeutronRouter` (a failure panics the controller). `UpdateRoutes(pods)` replaces all routes under an in-process lock. `run()` starts two workers over an informer that resyncs every 30 s. The controller package itself is not under `src/` |
| veth-route plugin | `cmd/veth-route/veth-route.go` | on the host: `dummy0`, the veth pairs, the `/32` host routes | `cmdAdd`: IPAM ADD, `setupDummy`, `setupContainerVeth`, `setupHostVeth`. `cmdDel`: IPAM DEL, then `DelLinkByNameAddr` |

### How they interact

The container runtime starts one plugin process per ADD and per DEL.
`cmdAdd`/`cmdDel` build a store (`StoreFactory`). The allocator takes the
store's file lock, calls `Reserve` or `ReleaseByID` and unlocks, and `Close`
runs on return.

The shared resources are the following:

- In the mix modes, the host's Neutron port. Every `Reserve` and every
  release submits the whole fixed-IP list.
- In ENI mode, the instance's attached interfaces.
- The ledger directory.

Processes for different containers run at the same time. They serialise only
through the file lock. The store constructors run before that lock is taken.

In mix-route mode the veth-route plugin is the main CNI plugin: it calls the
IPAM plugin first (ADD and DEL alike), then wires the host. Host routes are
keyed by address, so a freed address that is handed out again meets any
route the old container left. The route controller runs elsewhere: it
turns the pod list into the Neutron router's static routes
(`PodIP/32 via HostIP`). `FindServer` resolves the host to its Nova
instance by address for the ENI store and the scheduler.

### What is hard

The following sources of trouble make this code hard to get right:

- Read-modify-write of a cloud list under a lock, where a constructor reads
  the list outside the lock (mix-route).
- Capacity guards that read, decide and then mutate in a separate call.
- Two stores that must agree: the cloud port and the ledger. A crash, a
  failed call or a lost reply can fall between the two updates.
- DEL may be repeated, or called with no ADD, and must then succeed.
- The ledger create is exclusive (`O_EXCL`), and that is what protects an
  address whose ledger file outlived its removal from the port.
- `cmdDel` of the veth-route plugin frees the address before it removes the
  link, so another ADD can receive the address in between.
- Two route workers each take a pod list, then queue for the router lock:
  the older list can be written last.

### Properties that make each component correct

| Component | Properties |
|---|---|
| Mix store and mix-route store | The port never holds more than `MAX_IPS` fixed IPs. A container whose ADD succeeded keeps its address on the port and in the ledger until its DEL. No address is given to two containers at once. Every invocation returns, so the lock is never held forever. At rest, every ledger entry names an address on the port (spec §3 and §5). A repeated DEL succeeds. |
| ENI store | Attached interfaces never exceed `MAX_ENIS`. A live container's port exists and is attached. Release is idempotent. |
| Separate store | Release is idempotent. Each live container owns exactly one port. |
| Scheduler | Every node is collected and `wg.Wait` returns. Scores lie in `0..MaxNodeScore`, with no division by zero. |
| All stores | Each refines one abstract store (`StoreSpec`): a resource is taken only under the cap; success of Reserve means one is held; only a container that is not live gives one up; release success means none is held. |
| veth-route | A successful DEL leaves no address and no link. A live container's address is routed to its own veth. |
| Route sync | Once pods stop changing, the router ends up with, and keeps, the routes of the current pods. No address is routed to two nodes. |
| Instance lookup | The host resolves to the instance that holds its address. |

## 2. Plan

The modules are listed in order of importance. The contended shared port
comes first.

1. **`MixStore`** (done). It is the core: the mix store under the file lock,
   with crashes, failed calls and lost replies.
2. **`MixRouteStore`** (done). It EXTENDS `MixStore` and replaces the
   release path with `removePort` over the copy taken at construction.
3. **`EniStore`** (done). Per-container ports and attachments, and the
   `MAX_ENIS` guard that `Reserve` runs only before creating a port.
4. **`SeparateStore`** (done). Idempotent release, and `FindPort` returning
   nil.
5. **`DiffEngine`** (done). `difference` over lists of `{subnet, address}`
   records, checked against a reference definition: "the one entry of the
   reply that was not sent", over all bounded lists.
6. **`Scheduling`** (done). One cycle: Filter, the `ParallelCollection`
   worker pool, Score, and the arithmetic of `NormalizeScore`.
7. **`StoreSpec`** (done). The abstract per-container store; `EniStore`
   and `SeparateStore` are shown to refine it with `INSTANCE ... WITH`.
8. **Retried release** (done). `ReliableLastDel` makes a container's last
   DEL free of cloud faults; `RetriedReleaseSucceeds` judges it in both mix
   modes.
9. **`RouteSync`** (done). `NewNeutronRouter`, `UpdateRoutes` and the
   controller's workers and resync, with the workqueue loop modelled from its
   Kubernetes contract.
10. **`HostLookup`** (done). `FindServer` and `CountServerIntsAndEnis` as pure
    operators over strings as character sequences.
11. **`VethRoute`** (done). The veth-route plugin composed with the IPAM
    backend's contract.
12. **`QueueSort`** (done). `Less` over pod records, with Go's string
    order modelled byte by byte, checked to be a strict weak order.
13. **Veth-route faults** (done). The `IPMasq` chain, `Netns == ""` on DEL,
    a netns removed before DEL, and a retried last DEL.
14. **Duplicate routes** (done). `parsePodsRoutes` keeps one entry per pod,
    and Neutron refuses a list with a repeated entry.
15. **Controller replicas** (done). `main()`'s two paths: without
    `--leader-elect` every replica runs `run()`; with it only the lease holder
    does, and `StoppedLeading` exits, possibly with a `routers.Update` in
    flight.
16. **Next:** a refinement of `MixStore` into `StoreSpec` (the held resource
    is an address, so the mapping needs the ledger and the port together);
    the ENI store's use of `FindServer`'s result.

## 3. Modules

### `MixStore.tla` (mix mode)

Variables:

- `fixedIPs` is the host port on Neutron.
- `ledger` maps each address to its file: the contents (a container or
  `Empty`) or `NoFile`.
- `lockHolder` is the data-dir lock.
- Each container has `op`, `pc`, `snap` (the list its command read), `ip`,
  `added` and `dels`. It also has the runtime's view: `status` (`none`,
  `live` or `dying`) and `assigned`.

Each container ID is one sequential CNI caller. ADD runs at most once and
only before any DEL. DEL runs up to `MaxDels` times, with or without an ADD.
These are the CNI rules.

Each cloud call and each file operation is one action, so the other
containers and crashes can interleave between them:

| Action | Code |
|---|---|
| `CmdAdd`, `CmdDel` | `cmdAdd`/`cmdDel` are invoked |
| `NewMixStore` | the constructor, which may fail before any mutation |
| `Lock` | the allocator takes the file lock |
| `ReserveGetPort` | `ports.Get` and `IsOverMax` |
| `ReserveUpdatePort` | `ports.Update` with a subnet-only entry. Neutron picks a free address, and `difference` finds it |
| `ReserveCreateFile` | `os.OpenFile(O_EXCL)` |
| `ReserveWriteFile` | `WriteString` and `Close`. On error, `os.Remove` |
| `ReleaseWalk` | `filepath.Walk` to the first file whose contents are the ID; a file whose `ReadFile` fails is skipped, so a read error on the container's own file (a fault) ends in "not found" and success |
| `ReleaseGetPort` | `ports.Get` and `findIndex` |
| `ReleaseUpdatePort` | `ports.Update` without the address |
| `ReleaseRemoveFile` | `exists` and `os.Remove` |
| `Crash` | the process dies at any step, and the kernel releases the flock |

Every cloud call can also fail with no effect. Every update can be applied
while its reply is lost.

### `MixRouteStore.tla` (mix-route mode)

This module EXTENDS `MixStore`. The Reserve code of
`mix_route_store.go:145-171,243-309` is the same as mix mode's, so it reuses
the `Reserve*` actions. The new parts are these:

- `NewMixRouteStore` records `hostPort`, the fixed-IP list the constructor
  reads before the lock is taken.
- `RemovePort` is `removePort` over that copy. A miss is an error. A hit
  submits the copy without the address.
- `DropStore` discards the copy when the process ends.

### `EniStore.tla` (eni mode)

Variables:

- `ports` is the set of containers that have a Neutron port named after
  their ID.
- `attached` is the set of interfaces of the Nova instance. `HostNIC` is
  in it from the start.
- The per-container variables are those of `MixStore`. `torn` records
  that a DEL returned success.

| Action | Code |
|---|---|
| `ReserveFindPort` | `networks.Get` and `FindPort` |
| `ReserveGuard` | `IsOverMax`, reached only when no port exists |
| `ReserveCreatePort` | `ports.Create` |
| `ReserveGetSubnet` | the fixed-IP check, `subnets.Get` and `ParseCIDR` |
| `ReserveAttach` | `attachinterfaces.Create` |
| `ReleaseFindPort` | `FindPort` on release; no port is success |
| `ReleaseDeletePort` | `ports.Delete`, which also detaches the interface |

Every cloud call can also fail with no effect, or be applied while its reply
is lost. The process can crash at any step.

CNI gives one ADD per container ID, so `ReserveFindPort`'s branch that
skips the guard for an existing port is not reached in the model.

### `SeparateStore.tla` (separate mode, the default)

- `ports` is the set of containers that have a port named after their ID.
- There is no lock variable. `Lock` takes a `sync.RWMutex` that
  `NewSeparateStore` creates, so each plugin process has its own, and it
  excludes nothing.
- The constant `CloudFaults` switches failed calls, lost replies and crashes
  on (the passing run) or off (the idempotence run).
- `ReleaseFindPort` models the nil dereference: when no port has the
  container's name, the DEL fails.

### `DiffEngine.tla`

`difference` is translated over sequences of `[subnet, addr]` records:

- `Matched` is the inner loop.
- `FirstUnmatched`, a RECURSIVE operator, is the outer loop.
- `difference` adds the length guard.

The module has no variables. Its two checks quantify over every
duplicate-free list of up to 2 (sent) and 3 (reply) entries, drawn from 2
subnets and 2 addresses, so the same address appears under both subnets.
They are constant formulas, which TLC computes once. `MCMixStore`
instantiates the module and states them as invariants at the step that
calls `difference` (some container at `ReserveUpdatePort`). This justifies
the set abstraction `MixStore` uses there: `difference` returns the new
address of the reply.

### `Scheduling.tla`

One scheduling cycle for one pod.

| Action | Code |
|---|---|
| `Filter(n)` | the `Filter` plugin on node n |
| `FilterDone` | the framework moves on to PreScore |
| `StartPreScore` | `ParallelCollection` fills and closes the channel, computes `workers = min(workers, pieces)`, calls `wg.Add` and starts the goroutines |
| `WorkerRecv(w)` | one iteration of a worker's range loop: `CollectNodeIntsAndIps`, and either a CycleState write or an append to `msg` |
| `WorkerDone(w)` | the loop ends and the worker calls `wg.Done` |
| `WaitReturns` | `wg.Wait` returns, and a non-empty `msg` is an error |
| `ScoreNode` | `Score`/`score` for every feasible node |
| `NormalizeScore` | the normalisation, with Go's truncating division (`Quo`); a zero `highest` panics |

The environment's action, `CloudChange`, changes a node's interface and
network counts, within what an instance holds. That is at most `MAX_ENIS`
interfaces (what `EniCapacity` shows the ENI store keeps) and no more
networks than interfaces.

PreScore calls `ParallelCollection(nil, ...)` (`scheduling.go:142`), so
`stop` is a nil channel and the `select`'s stop case never fires; the model
follows the code as it is called and has no cancellation.

### `QueueSort.tla`

`Less` (`scheduling.go:89-113`) as an operator over `PodInfos`, records of
priority, initial attempt time, namespace and name. Strings are sequences
of byte values, and Go's `<` on strings is `StrLess`: the first differing
byte decides, and a proper prefix is less. `PodKey` is
`fmt.Sprintf("%v/%v", ...)`. `Less` keeps the code's second key, built from
the first pod's name. The module has no variables, and its check
(`LessStrictWeakOrder`) is a constant formula TLC computes once.
`MCScheduling` EXTENDS it and states it as an invariant at
the start of a cycle (`phase = "filter"`), where the framework pops the
cycle's pod from the queue.

### Fault model of the stores

A code-decided error (`IsOverMax`, a missing address, `EEXIST`) is `Fail`.
An environment fault (a failed or lost cloud call, a failed file write, a
crash) is `Fault`, which is `Fail` unless the constant `ReliableLastDel`
holds and the step belongs to the container's last DEL (`dels = MaxDels`).
That switch lets a run ask whether a DEL that meets no fault completes the
release, whatever earlier attempts left behind (spec §4.5, §8).

### `StoreSpec.tla` and the refinements

`StoreSpec` is what a store that gives each container one cloud resource
promises, with each command folded into the moments the runtime sees:
`Acquire` (under the cap `Cap`), `Drop` (only by a container that is not
live), `Reserved`, `Released`, `Teardown`, and `Return` (a command returns
without changing what is held). Failed calls, lost replies and crashes are
stuttering steps of it.

`EniStore` instantiates it with `held <- attached \ {HostNIC}` and
`Cap <- MAX_ENIS - 1`, and checks `StoreRefined == Store!Spec` as a
PROPERTY in its run. The isolated-port store has no cap, and what the
refinement would say of it (a port comes only from the container's ADD and
goes only with its DEL) is what `SepLiveHasPort` and `SepReleasedClean`
check.

### `HostLookup.tla`

`FindServer` and `CountServerIntsAndEnis` (`utils.go:154-188`) as pure
operators. Strings are sequences of one-character strings: an address is
two decimal octets joined by `.`, `fmt.Sprintf("%v", v)` of a network's
address list is `Format` (brackets, entries joined by spaces, each entry
with the text `%v` prints around the address reduced to its bordering
characters), and `strings.Contains` is `StrContains` (membership in
`SubSeqs`). `ServerLists` are the lists Nova can return: distinct servers
with disjoint addresses, networks as ordered lists. `ExactServer` is the
reference: the server that holds the address.

### `RouterLookup.tla`

`FindRouter` (`utils.go:207-241`) as a pure operator, in the style of
`HostLookup`: the variables `routers` (what `routers.List` and, per router,
`ports.List(DeviceID)` return, in Neutron's order) and `subnet` (the host's
subnet) are chosen in `Init` and never change. A router is its ID and the
fixed IPs of its ports; addresses are unique within a subnet, not across
subnets. `HasAddress` is the two inner loops, `FirstRouterWith` the outer
one. The reference, `SubnetRouter`, is the router with an interface on the
host's subnet at its gateway address.

### `VethRoute.tla`

The veth-route plugin composed with the IPAM backend's contract (ADD gives
an address no container holds, DEL frees the container's addresses; either
may fail). Host state: `ipam`, `dummy`, `links` (containers whose veth pair
exists) and `route` (address to the container whose veth its `/32` route
uses), `masq` (containers with an iptables masquerade chain) and `netns`
(whether the container's network namespace still exists). Per container,
the CNI bookkeeping of `MixStore`, and `nsArg`, the `Netns` path the
runtime passes to DEL.

| Action | Code |
|---|---|
| `InvokeAdd`, `InvokeDel` | `cmdAdd` / `cmdDel` are invoked |
| `IpamExecAdd` | `ipam.ExecAdd` and `NewResultFromResult` |
| `Prepare` | `ip.EnableForward`, `ns.GetNS` |
| `SetupDummy` | `setupDummy`, `ensureDummy`, `ensureAddr` |
| `SetupContainerVeth` | `setupContainerVeth`: the pair is created, then configuring the container side may fail |
| `SetupHostVeth` | `setupHostVeth`: `AddRoute(ip/32 dev veth)`, `EEXIST` ignored |
| `SetupIPMasq` | `ip.SetupIPMasq` when `IPMasq` is set: the chain may be created and a later rule fail |
| `IpamExecDel` | `ipam.ExecDel`, then the `Netns == ""` early return (`AfterExecDel`) |
| `DelLinkByNameAddr` | `WithNetNSPath` + `DelLinkByNameAddr`; a missing netns fails, "not found" is success; the link's routes go with it (`Unlink`) |
| `TeardownIPMasq` | `ip.TeardownIPMasq` when `IPMasq` is set |
| `Crash` | the plugin process dies |
| `NetnsGone` | the runtime removes the netns of a container that is not live; its veth pair goes with it |

`NetnsArg` is what the runtime passes as `Netns` on DEL: the path while the
namespace exists, `""` once it is gone, or, with `StaleNetnsPath`, the old
path. Environment faults go through `Fault`, which spares the last DEL when
`ReliableLastDel` holds (as in the stores).

### `RouteSync.tla`

Variables: `pods` (the informer's view of each pod: phase, deletion mark,
PodIP, HostIP), `queue` (the workqueue), per worker `wpc`, `wkey`, `wsnap`
(the pod list passed to `UpdateRoutes`) and `wroutes`, `lockHolder`
(`nr.lock`), `routes` (the router in Neutron), `ready` (the controller has
built its router), and the counters `events` and `faults`. `queue`, `ready`
and `lockHolder` are per replica (`Controllers`): each replica is its own
process with its own informer, workqueue and `NeutronRouter`. `Owner` maps a
worker to its replica. `leader` is the replica holding the lease, and
`inflight` holds route lists sent by replicas that have exited since.

| Action | Code |
|---|---|
| `MayRun(k)` | `main()`: without `--leader-elect` `run()` starts at once; with it, only from `OnStartedLeading` |
| `Acquire(k)` | `leaderelection.RunOrDie`: a replica takes the free lease |
| `LoseLease(k)`, `Exit(k)` | the leader misses its renew deadline; `StoppedLeading` calls `os.Exit(0)`, and the replica's informer, queue, lock and workers go, while a `routers.Update` it had sent stays in flight |
| `Deliver` | such an in-flight request reaches Neutron and is applied |
| `NewNeutronRouter` | `run()`: `NewNeutronRouter` fails (panic, restart) or succeeds; the informer's initial list enqueues every pod |
| `Resync` | the 30 s resync of `NewSharedInformerFactory` |
| `TakeKey(w)` | a worker takes a key and lists the pods (workqueue loop, modelled from its contract) |
| `LockAndParse(w)` | `UpdateRoutes`: `nr.lock.Lock()`, `parsePodsRoutes`, `checkPodIP` |
| `UpdateRoutes(w)` | `routers.Update` with the whole list, which may fail or be applied with the reply lost (the key is requeued), then `Unlock`; a list with a repeated entry (`DuplicateRoutes`) is refused every time |

`RoutedPods` are the pods `parsePodsRoutes` turns into routes. The model
keeps routes as a set, and `DuplicateRoutes` says when the code's list has
the same entry twice: two routed pods with the same PodIP and HostIP.
Neutron's validation of a router's `routes` rejects such a list.
| `Schedule`, `Start`, `Complete`, `MarkDeleting`, `Remove` | the pod lifecycle; `Start` takes an address no pending or running pod holds, and a `Succeeded` pod keeps its PodIP |

The controller's own pod (`Self`) is present throughout, with an address
outside the router's subnet, so the resync always has a pod to deliver.

## 4. Runs

Each module keeps a type invariant (`TypeOK`, `MRTypeOK`) that states the
shape of its state; the counterexample cfgs check it alongside their
property. Only `Scheduling`'s is a run property, because it carries a real
bound (the WaitGroup counter never exceeds the workers started), which
`wg.Add(pieces)` breaks. The others bound nothing the code could break.

| Run | Config | Expect | What it shows |
|---|---|---|---|
| `mix_store` | `MCMixStore.cfg` | pass | `CapacityInv`, `LiveBacked`, `NoSharedAddress`, `InvocationsReturn`, `EmptyFileOnPort`, `RetriedReleaseSucceeds`. Three containers contend for a port with room for two, under crashes, failed calls and lost replies. The guard, the lock and `O_EXCL` keep the cap. Live addresses stay on the port and in the ledger. No address is shared, and every command returns. A ledger file left empty by a failed write names an address still on the port, so `O_EXCL` keeps protecting it. A last DEL that meets no fault leaves no ledger file and succeeds, whatever earlier attempts did; a DEL whose walk skipped an unreadable ledger file leaks that address without harming any other container. `DiffMatchesReference`: whenever a container is at `ReserveUpdatePort`, `difference` over the real `{subnet, address}` lists returns exactly the added entry for every reply order. |
| `mix_route_store` | `MCMixRouteStore.cfg` | pass | `CapacityInv` and `NoSharedAddress` also hold in mix-route mode. `Reserve` re-reads the port, and `O_EXCL` refuses an address whose ledger file survives. |
| `mix_route_stale_release` | `MCMixRouteStore_stale.cfg` | violation | `LiveBacked` fails. c1's DEL builds its store, reading the port as {host, a1}. c2's ADD then gets a2. c1's DEL takes the lock and submits {host}, so c2 is live with an address the port no longer has. **Code bug** (`mix_route_store.go:265`). |
| `mix_route_retry_release` | `MCMixRouteStore_retry.cfg` | violation | `RetriedReleaseSucceeds` fails in mix-route mode. c1's first DEL has its port update applied and the reply lost, and `ReleaseByID` returns the error before removing the ledger file (`mix_route_store.go:200`). Every later DEL, even one that meets no fault, finds the address missing from the host port, and `removePort` reports that divergence, as spec §4.4/§4.5 require (`:277`). The ledger file is never removed. **Diverges from** the function's comment (`:173-174`, it eats errors to release as much as possible) and spec §7 (ledger-file removal proceeds even when the cloud-side removal partly failed). Mix mode skips a missing address and recovers on the retry. |
| `eni_store` | `MCEniStore.cfg` | pass | `EniCapacity`, `EniLiveAttached`, `EniReleasedClean`, `InvocationsReturn`, `StoreRefined`. Attachments never exceed `MAX_ENIS`. A live container's port exists and is attached. A successful DEL leaves neither port nor interface. Every command returns. The store implements `StoreSpec`. |
| `separate_release_idem` | `MCSeparateStore_idem.cfg` | violation | `SepReleaseIdempotent` fails with a fault-free cloud. A container's DEL comes without an ADD: `FindPort` returns `(nil, nil)` and `ReleaseByID` passes `port.ID` of the nil port to `ports.Delete`, so the plugin panics. Every retry does the same. **Code bug** (`separate_store.go:113`), against spec §3/§4.2 (release is idempotent) and the function's comment. |
| `separate_store` | `MCSeparateStore.cfg` | pass | `SepLiveHasPort`, `SepReleasedClean`: a live container keeps its port, since a DEL finds its port by the container's name, and a successful DEL leaves none, even after lost `ports.Create` replies. |
| `scheduling` | `MCScheduling.cfg` | pass | `TypeOK`: the WaitGroup counter stays within the workers started. `LessIsStrictWeakOrder`: the queue's `Less` is irreflexive, asymmetric and transitive, and ties are transitive, over every pod record of the bounds, despite the second key taking the first pod's name. `PreScoreComplete`: when PreScore succeeds, every feasible node has CycleState data, however 2 workers split 3 nodes. `NormalizedInRange`: `NormalizeScore` never divides by zero and keeps scores in 0..MaxNodeScore, with a cloud change between Filter and PreScore. `PreScoreReturns`: `wg.Wait` returns. |
| `host_lookup_exact` | `MCHostLookup_exact.cfg` | violation | `FindServerExact` fails: server 1 holds `1.12`, the host is `1.1` on server 2, and `FindServer` returns server 1 because `"1.1"` is a substring of its printed list. **Code bug** (`utils.go:165`), against spec §4.3. |
| `veth_route` | `MCVethRoute.cfg` | pass | `VethReleasedClean`: a DEL that returns success leaves the container no IPAM address and no veth pair, across failed steps, crashes, partly wired ADDs, masquerade setup and retried DELs. `RetriedDelTearsDown`: a last DEL that meets no environment fault succeeds, also after the netns is gone and the runtime passes `Netns = ""`. |
| `veth_route_reuse` | `MCVethRoute_reuse.cfg` | violation | `LiveRouted` fails. c1's DEL has freed a1 in IPAM but not yet deleted its link. c2's ADD gets a1; `AddRoute` meets c1's route, `EEXIST` is ignored, and c2 is live with its address routed to c1's veth; when c1's link goes, a1 has no route at all. **Code bug** (`veth-route.go:246`, `:171`). |
| `route_sync` | `MCRouteSync.cfg` | pass | `OneReplicaRuns`: with `--leader-elect`, only the lease holder runs its workers; a replica that lost the lease has exited before another starts. `RoutesConverge`: two replicas (two workers in one, one in the other) write pod lists taken at different times, router updates fail or lose their reply, the controller may panic at start, and a leader may lose its lease with an update in flight that lands during the next leader's term; once the pods stop changing, the routes become and stay those of the current pods. A worker that writes an older list last is repaired by the 30 s resync. |

Each property of a passing run has a mutant in `PROJECT.json`. The mutant
is a plausible bug in the mapped code, and TLC finds the property violated:

| Run | Property | Mutant |
|---|---|---|
| mix | `CapacityInv` | `IsOverMax` compares with `>` |
| mix | `LiveBacked` | the walk takes any ledger file |
| mix | `NoSharedAddress` | the ledger create lacks `O_EXCL` |
| mix | `InvocationsReturn` | `Close`/`Unlock` is not deferred |
| mix | `EmptyFileOnPort` | the walk takes any ledger file, an empty one included |
| mix | `RetriedReleaseSucceeds` | `ReleaseByID` fails when the address is not on the port (what mix-route does) |
| ENI | `EniCapacity` | `IsOverMax` compares with `>` |
| ENI | `EniLiveAttached` | the attach error is ignored |
| ENI | `EniReleasedClean` | a `FindPort` error is read as "already deleted" |
| ENI | `StoreRefined` | `IsOverMax` compares with `>` |
| separate | `SepLiveHasPort` | `FindPort` lists without the `Name` filter and returns the first port |
| separate | `SepReleasedClean` | the release eats the `FindPort` error |
| mix (diff) | `DiffMatchesReference` | entries match on the address only |
| scheduler | `PreScoreComplete` | the worker receives one node instead of ranging |
| scheduler | `NormalizedInRange` | `highest` is the first score |
| scheduler | `PreScoreReturns` and `TypeOK` | `wg.Add(pieces)` |
| veth-route | `VethReleasedClean` | every `DelLinkByNameAddr` error is taken for "not found" |
| veth-route | `RetriedDelTearsDown` | no `Netns == ""` early return after IPAM DEL |
| scheduler | `LessIsStrictWeakOrder` | the keys compared with `<=` |
| route sync | `RoutesConverge` | the informer factory built with resync period 0 |
| route sync | `OneReplicaRuns` | `StoppedLeading` only logs, like `NewLeader`, and does not exit |

`LockPerProcess` (an in-process mutex, like `SeparateStore`'s, gives no
exclusion between plugin processes) is kept as a further variant. It also
breaks `LiveBacked`.

### Further counterexamples

These configurations are not in the run list; each reproduces a disagreement
between the code and the spec with `tlc -config <cfg> <MC module>`:

| Config | Property | What TLC finds |
|---|---|---|
| `MCMixStore_order.cfg` (`MCMixStore`) | `LedgerBackedAtRest` | The release's port update is applied, then the plugin dies or the reply is lost before the ledger file is removed: a ledger entry for an address no longer on the port, against spec §5 (`mix_store.go:227`). Mix mode recovers on a retried DEL. |
| `MCHostLookup_count.cfg` (`MCHostLookup`) | `CountedIpsAreAddresses` | `CountServerIntsAndEnis` counts the networks of the server, not its addresses (`utils.go:187`): two addresses on one network count as one. |
| `MCScheduling_less.cfg` (`MCScheduling`) | `LessOrdersDistinctKeys` | Two pods with equal priority and time, `a/x` and `a/y`, are tied: the second key is built from the first pod's name (`scheduling.go:110`), so ties are broken by namespace alone, against `Less`'s comment. Ties stay transitive (`LessIsStrictWeakOrder` holds), so the heap is sound; the order among such pods is the heap's accident. |
| `MCVethRoute_stale.cfg` (`MCVethRoute`) | `RetriedDelTearsDown` | With `StaleNetnsPath`, the runtime passes the path of a removed netns: `WithNetNSPath` fails on every DEL (`veth-route.go:258`), so no DEL ever succeeds. |
| `MCVethRoute_masq.cfg` (`MCVethRoute`) | `MasqReleasedClean` | ADD creates the masquerade chain and then fails; the netns goes, DEL is called with `Netns = ""` and returns success right after IPAM DEL (`veth-route.go:250`), so `TeardownIPMasq` never runs and the chain leaks. |
| `MCRouteSync_dup.cfg` (`MCRouteSync`) | `RoutesConverge` | p1 runs on h1 with i1 and Succeeds, keeping its PodIP; p2 starts on h1 and is given i1. `parsePodsRoutes` emits `i1/32 via h1` twice (`router.go:173-178`), Neutron refuses every `routers.Update`, and the routes never converge while p1 exists. The `route_sync` run cannot reach this with its three pod events; this configuration has one replica without `--leader-elect` and one worker. |
| `MCRouterLookup_exact.cfg` (`MCRouterLookup`) | `FindRouterExact` | Router r1 has an interface at address 1 on subnet sa; the host's subnet sb has the same gateway address 1 and no router. `FindRouter` compares the address only (`utils.go:234`) and returns r1, so `NewNeutronRouter` succeeds and the controller replaces the static routes of a router on another network instead of failing with "can't find neutron vrouter". |
| `MCRouteSync_dest.cfg` (`MCRouteSync`) | `RouteDestUnique` | `parsePodsRoutes` keeps a `Succeeded` pod, whose PodIP the CNI has freed; a new pod on another node gets that address and the router is given two routes for one `/32` (`router.go:164`), against spec §3 (routes mirror placement). |

### Bounds

- Three containers, so that two can hold addresses while a third ADD and a
  DEL interleave with them.
- `Addrs = {1,2,3}` with `HostIP = 0`, so Neutron can always hand out an
  address that was just freed. That is what makes a surviving ledger file
  matter.
- `MAX_IPS = 3`: the host plus two containers fill the port, so the third
  ADD meets the guard.
- `MaxDels = 2`, so a DEL can be repeated after a failed one.

The stale-release trace needs only two containers and one DEL. The
ordering trace needs one container. The bounds give each property several
more steps of room.

The other modules use these bounds:

- The ENI and separate runs use the same three containers with one ADD and
  two DELs each. `MAX_ENIS = 3` fills the instance with the host interface
  and two containers.
- The scheduler uses 3 nodes and 2 workers, so one worker must take two
  nodes and `min(workers, pieces)` is exercised. `MAX_ENIS = 2` and
  `MAX_IPS = 3` scale down the backend constants (16 and 20) and keep
  `MAX_IPS > MAX_ENIS`, on which the score's sign depends. The Args keep
  `New()`'s defaults, and one cloud change may fall anywhere in the cycle.
- `mix_store` sets `ReliableLastDel = TRUE`: with `MaxDels = 2` the first
  DEL still meets every fault, and the second is the retry the spec's
  idempotence is about. `mix_route_retry_release` uses the same constants.
- `HostLookup` uses the octets `1`, `2` and `12`, so one address (`1.12`)
  contains another (`1.1`) as a substring, up to 2 servers, one network
  each and 2 addresses per network.
- `VethRoute` uses three containers and two addresses, so an address freed
  by one DEL is wanted by another ADD while a third container holds the
  other address; `MaxDels = 2`.
- `RouteSync` uses two replicas under `--leader-elect`, two workers in one
  (what `run()` starts) and one in the other, so an exited leader's update
  can overlap the next leader's workers. It has two pods besides the
  controller's own, two nodes, two subnet addresses and one outside, up to
  3 pod events (the stale-write race needs two), and one fault (a failed
  cloud call or a lost lease). Four events take eleven minutes, and the
  `--leader-elect=false` configuration with two replicas, where both run at
  once, does not finish within the run bound. The duplicate-route counterexample
  needs five (a pod is scheduled, runs and completes, and a second one is
  scheduled and started on its address); with two workers and five events
  the liveness check takes over six minutes, so `MCRouteSync_dup.cfg` uses
  one worker and no cloud faults.
- `QueueSort` uses priorities {0,1}, times {1,2}, namespaces `""`, `a`,
  `a-` and names `x`, `y`: `a-` and `a` differ by a byte (`-`, 45) below
  `/` (47), which is where a key order could break. The stale-write race needs two events between two workers' lists.

Container IDs are model values. `mix_route_store` is a safety-only run, so
it declares them a symmetry set. `mix_store` checks liveness and uses no
symmetry.

### Fairness

`WF` holds for each container's store steps (`Progress`). The code gives
the following justification:

- A plugin process keeps running until it returns.
- The kernel wakes an flock waiter when the lock is released.
- Every ADD and DEL is bounded, so weak fairness suffices and the lock needs
  no strong fairness.

Invocations, crashes and failures are not fair.

In `Scheduling`, each worker goroutine, each Filter call and each framework
step is weakly fair. The Go runtime schedules every runnable goroutine, and
the framework runs the plugin's steps in turn. Cloud changes are not
fair.

In `RouteSync`, each worker is weakly fair (`controller.Run(2)` keeps two
goroutines looping while the queue has keys), `NewNeutronRouter` is weakly
fair (a panicking or exited controller pod is restarted), `Resync` is weakly
fair (the informer factory's 30 s period), and taking a free lease is weakly
fair (every replica retries every `RetryPeriod`). Pod changes, lost leases
and the arrival of a dead replica's request are not fair, and cloud
faults are bounded, so `RoutesConverge` asks what happens after they stop.
The route-sync run checks deadlock: the resync keeps the controller running
forever. `VethRoute` has no fairness and checks no liveness. `CHECK_DEADLOCK FALSE` is
set because the harness bounds the invocations: the host really does stop
once all the ADDs and DELs are used.

## 5. Not modelled, and why

- The file lock and the allocator are not under `src/`. They are modelled
  from the spec as an exclusive lock. `Lock` and `Crash` are marked
  `spec_modelled` in the map.
- Neutron's address allocation is abstracted to "any subnet address not on
  the port" (`FreeAddrs`).
- In `MixStore`, subnets are abstracted to one subnet, so `difference`'s
  address+subnet match is a match on the address. The full record-level
  algorithm is checked by `DiffEngine`.
- `ReserveWriteFile` ignores an `os.Remove` that fails after a failed write,
  since that takes two faults. The resulting empty-file state is already
  reachable through a crash between create and write.
- The `difference` nil branch is kept in `ReserveUpdatePort`, but Neutron
  never returns a successful update without the new entry, so it is
  unreachable.
- The scheduler's `New` decodes plugin arguments and is not modelled.
  `ParallelCollection`'s stop case is not modelled: PreScore passes a nil
  channel, so it can never fire.
- `CountServerIntsAndEnis` returns interfaces and then networks.
  `CollectNodeIntsAndIps` stores `MAX_IPS - interfaces` as `NodeIntsValue`
  and `MAX_ENIS - networks` as `NodeIpsValue`, which looks swapped. The
  score adds them with equal weights, so the sum is unaffected, and the
  model keeps the fields as the code writes them.
- Credential decryption and client construction are I/O with no shared
  state.
- `parseResolvConf` is text parsing.
- The pod controller (`pkg/controller`) is not in the repository. Its
  workqueue loop (take a key, list the pods, call `UpdateRoutes`, requeue on
  error) and the pod lifecycle are modelled from their Kubernetes contract
  and marked `spec_modelled`. Lease timing (`LeaseDuration`,
  `RenewDeadline`) is abstracted to a lease that is free or held; a
  replica whose construction panics frees it at once rather than after
  expiry. `loadIpamConfig` is file parsing.
- In `VethRoute`, netlink objects and iptables rules are reduced to which containers have a link and which veth each `/32` route
  uses. The IPAM backend is its contract, not `MixStore` itself, to keep the
  composed state space small; `MixStore` checks that contract
  (`NoSharedAddress`, `RetriedReleaseSucceeds`).
- `FindPort` and `FindRouter` are single cloud list calls; they are the
  lookup steps of `EniStore` and `NewNeutronRouter`.
- `CountServerIntsAndEnis` panics (nil `server.ID`) when `FindServer` finds
  nothing; `HostLookup` returns `"panic"`, and what the scheduler and the
  ENI store do then is not modelled.
- A `MixStore` refinement of `StoreSpec` is not checked: its held resource
  is an address that lives in both the port and the ledger.
