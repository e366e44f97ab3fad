# A TLA+ model of mkube

mkube is a Virtual Kubelet provider for MikroTik RouterOS, in Go. One process keeps the
state of a small cluster in maps, changes it from HTTP handlers and from background loops,
and writes the changes to a NATS key-value store. Around it run an image registry, an
updater of containers and an agent on bare-metal hosts. This directory models the parts
whose correctness depends on the order of those changes, checks them with TLC and proves
the central properties with TLAPS.

Everything below is read from the Go source. Line numbers in comments and in
`PROJECT.json` refer to the commit this directory is kept beside.

1. [Inventory](#inventory)
2. [Modules](#modules)
3. [Runs](#runs), with bounds and fairness
4. [What the runs refute](#what-the-runs-refute) and [other observations](#observations-without-a-run)
5. [Proofs](#proofs)
6. [Not modelled](#not-modelled)
7. [Plan](#plan)

## Inventory

| Component | State it keeps | Operations | Interacts with | Modules |
|---|---|---|---|---|
| Job scheduler (`pkg/provider/job_scheduler.go`) | none of its own; the provider's maps | a tick every 10 s under the provider mutex: schedule, three timeouts, idle power-off, scheduled power-on | jobs, reservations, runners, hosts, store | `JobScheduling`, `HostLease` |
| Jobs API (`job_crd.go`, `job_logs.go`) | `jobs`: phase, bmhRef, runnerRef, times; log rings | create, update, patch, delete, cancel; agent work, heartbeat, logs, complete | agents, scheduler, store | `JobScheduling`, `JobStore` |
| Host reservations (`hostreservation_crd.go`) | `hostReservations`: bmhRef, pool, activeJob | create, update, patch, delete | scheduler, hosts, store | `JobScheduling`, `JobStore` |
| Job runners (`jobrunner_crd.go`) | `jobRunners`: pool, limits, schedule, phase | create, update, patch, delete, work hours | scheduler, boot configs | `JobScheduling` |
| Bare-metal hosts (`baremetalhost.go`) | `bareMetalHosts`: spec.online, IP, MAC, boot config | create, update, patch, delete, refresh | scheduler, networks, DNS, boot configs | `JobScheduling`, `HostRecords` |
| Job agent (`cmd/mkube-agent`) | one script per boot | poll, run, heartbeat every 30 s, one report | Jobs API, by source address | `JobScheduling` |
| Pod provider (`provider.go`) | `pods`, redeploying, restart bookkeeping, stale images | create, update (staged), delete, redeploy, reconcile every 10 s | network, storage, lifecycle, runtime, DNS, store | `PodLifecycle`, `ImageRollout` |
| Deployments (`deployment.go`) | `deployments` | CRUD, scaling, rolling update | pods | `Deployments` |
| Claims and volumes (`pvc.go`, `pkg/storage`) | `pvcs`; provisioned volumes, image cache | CRUD, resolve, provision, collect | pods, files of the device | `VolumeStore`, `ImageRollout` |
| Networks (`network_crd.go`, `network_provision.go`) | `networks` | CRUD, provisioning of bridges and relays, managed DNS pod | IPAM, device, pods, DNS servers | `ManagedNetworks`, `NetworkManager` |
| DNS servers (`dns_seed.go`, `infra_health.go`, `dns_proxy.go`, `pkg/dns`) | the entries of each MicroDNS; batch mode and its cache | seed, health check, repair, proxy CRUD, register, withdraw | networks, pods, checker | `DnsService`, `DnsProxy`, `DnsRecords` |
| DHCP watcher (`dhcp_watcher.go`) | index of host names, leases told | poll, subscribe, tell the BMH operator | DNS servers, NATS | `LeaseRelay` |
| Zone operator (`pkg/dzo`) | zones, dedicated servers, their addresses, a state file | create, delete, ensure, restart | DNS servers, runtime | `DnsZones` |
| IPAM (`pkg/network/ipam`) | pools: allocations by key, next address | add pool, allocate, allocate static, record, release | network manager | `NetworkManager` |
| Network manager and drivers (`pkg/network`) | interfaces, allocations | allocate, release, resynchronise | IPAM, RouterOS | `NetworkManager` |
| Lifecycle manager (`pkg/lifecycle`) | a unit per container: probes, failures, restarts | register, watchdog, probes, callback | runtime, provider | `LifecycleWatchdog` |
| Consistency checker (`consistency.go`) | counters of failed checks | compare memory, store, device and DNS; repair | all | `NetworkManager`, `PodLifecycle`, `DnsRecords`, `DnsService`, `DnsProxy`, `ClusterSync` |
| Registry objects (`registry_crd.go`, `configmap.go`) | `registries`, `configMaps`, their files | CRUD, deploy, tear down, sync to disk | pods, store | `RegistryObjects` |
| Boot configs and ISO images (`bootconfig_crd.go`, `iscsi_cdrom_crd.go`, `iso9660.go`) | `bootConfigs`, `iscsiCdroms`, images on disk | CRUD, upload, export, subscribe, scan, patch a copy | hosts, RouterOS disks | `HostRecords`, `IsoExport`, `IsoPatches` |
| Store and boot (`pkg/store`, `pkg/nats`, `cmd/mkube`, `watch.go`) | buckets of JSON records | get, put, delete, watch, load, import, export | everything | `JobStore`, `StoreBoot`, `WatchStreams` |
| Cluster sync (`pkg/cluster`) | peers and what they reported | push, full resync, monitor | store, pods | `ClusterSync` |
| Image registry (`pkg/registry`, `cmd/registry`) | uploads, blobs, manifests, watched tags | push, pull, watch upstream, sync to upstream | storage, updater | `ImageRegistry` |
| Updater (`cmd/mkube-update`, `pkg/provider` update API) | digest seen of each image | poll, stage, replace containers, bootstrap mkube | registry, RouterOS | `ImageUpdater`, `SelfUpdate` |
| Back ends (`pkg/runtime`, `routeros`, `proxmox`, `stormbase`) | VMIDs in use | create, start, stop, remove | RouterOS, Proxmox | `ProxmoxVms` |
| Namespaces, configuration, discovery, installers, generated code | a map; none | CRUD; parse | - | none, see [Not modelled](#not-modelled) |

What is hard in this program:

* **Locks that not everyone takes.** The HTTP handlers are serialised by one mutex (`api.go`
  `WrapHandler`), and so is the scheduler tick. `reconcile`, the consistency checker, the
  goroutines of redeploys and the callbacks of the watchdog take none of it and change the
  same maps and the same containers.
* **Crashes between writes.** One handler writes several records one after the other,
  without transactions; at start the maps are whatever the buckets hold.
* **Lost calls.** Agents report once, pushes to a peer are sent once, leases are announced
  once, and events of the registry may be dropped. What is lost has to be ended by a deadline
  or found by a poll.
* **Inventories of things elsewhere.** Addresses, VMIDs, DNS records, volumes and exported
  images exist on a device and in a table; either changes when the other cannot be reached.
* **Listings acted on later.** The checkers compare a snapshot with a later listing and act
  on the result one entry at a time.
* **Limits.** `maxConcurrent`, address pools and VMIDs at their limit.

The hazards list of `PROJECT.json` names each of these at its line, with the properties that
cover it, or says why there is none.

Correctness of each component, in a sentence: the job subsystem never books a host twice,
never leaks one and ends every job; IPAM never gives one address to two ports; a pod that is
stored comes to run, from its own image, and a deleted one does not come back; a hung
container is replaced; a deployment reaches its count; the data of a claim outlives its pod;
networks, DNS servers and names come back after failures and leave nothing behind when they
are deleted; the stores of two nodes agree and each runs its own pods; pushed images reach
what runs them; of mkube and its updater one always stays.

## Modules

Every module names its variables after the fields of the code where they are fields, and its
actions after the functions. `map` in `PROJECT.json` gives the lines of each definition.
Comments that begin "Mutant of" stand before operators that no specification uses: variants
of an action with a plausible error, each of which breaks a property (listed under `mutants`).

### Jobs: JobScheduling, HostLease, JobLease, JobStore

State: the status fields of the four maps that the scheduler reads (`phase`, `bmhRef`,
`runnerRef`; `hrHost`, `hrPool`, `activeJob`; `runner`; `hosts`, `online`), which agents poll
or execute, and the step the tick is in. An empty reference is `NoJob`, `NoHost` or
`NoRunner`. Specs that no modelled handler changes (pool, priority, timeout, limits, policy)
are constants.

Every HTTP handler is one action, because `WrapHandler` holds the mutex for all of it. The
tick holds the mutex too; it is split into one action per loop iteration, with every handler
disabled (`Unlocked`) until the last step, so that its loops visit jobs and runners in any
order, as Go's maps do. Only the reads of agents and the clock can happen in between.
`GET agent/work` changes a job under the read lock; two such calls from one host change the
same fields to the same values, so one action stands for each.

Time is the set `late[j]` of deadlines that have passed: ten minutes since creation, the
job's own timeout since its start, ninety seconds since its last heartbeat. The code compares
with the clock in the tick only, and so does the model; work hours and idle times are left to
chance, since nothing ties them to job deadlines. `Finish` is the common tail of the six ways
a job ends, including `releaseJobHost`. It leaves `bmhRef` as it is, like the code.

Agents follow `cmd/mkube-agent`: one polls after each boot, runs the first script it is given,
sends heartbeats and logs while it runs, and reports once. Any answer or report may be lost.
Hosts boot when `spec.online` is set; a reboot kills what ran. What powers them is the
external BMH operator.

`HostLease` is the abstract specification, with two variables, the phase of a job and the
holder of a host: a job holds a host alone from its grant until it ends, and ends once.
`JobLease` maps a host to the busy job that refers to it. The implementation holds when no
runner may overflow.

`JobStore` adds `disk`, the stored statuses. A handler or iteration changes memory, then the
changed records are written in the code's order: reservation, host, job. `Crash` may fall
between any two writes and loads `disk`. Records that are created or deleted alone are stored
in the same step. A crash also ends a tick half way.

### Addresses: NetworkManager

State: the registered `networks`; per network the pool's entries (`pool`) and its cursor
(`nextIP`); the network the manager believes an interface to be in (`allocs`); the `ports`
really on the device; the one `call` of `AllocateInterface` in progress; and the `walk` of the
resync or cleanup under way. A pool entry, an entry of `allocs` and a port are three records
of one fact, kept in step by code that can fail at each device call.

`AllocateInterface` is `Reserve` followed by `FinishAllocate` or `AbandonAllocate`: the entry
is visible to readers without the mutex while the device works. `ReleaseInterface` is one
action (`Release`): what a reader sees half way, a port gone and its entry still there, is
also the state after `PortLost`. A release that fails changes nothing and is a stutter. The
retry in `CreatePod` (release and allocate again) is these two in a row. The walkers are one
action for each list, snapshot and loop iteration: `ListForResync`, `RecordPort`,
`SnapshotEntries`, `ListForClean`, `CleanEntry`. Deletion of pods, self-healing and the
cleanup of unwanted ports all call `ReleaseInterface`; they are `Release` of any key.

`Restart` rebuilds the static networks from the device in one step, which is what
`NewManager` does before anything else runs. The networks of `Dynamic` are those known from
Network objects only; they are registered afterwards. A `Faults` set names the device calls
that may fail, with the state each leaves on the device. `Overlap` says whether a walker may
run while the rest of the provider does; in the code it may.

### Pods: PodLifecycle, ImageRollout, Deployments, RegistryObjects, VolumeStore, LifecycleWatchdog

`PodLifecycle` has the containers, ports and images on the device, the stored pods and the
provider's maps, and four threads: the handler that holds the mutex, the reconcile loop, the
goroutine of a redeploy and the callback of the lifecycle manager. `CreatePod`, `DeletePod`
and `UpdatePod` are tasks, sequences of one action for each call to the device (`Clean`,
`Net`, `Make`, `StartBox`, `Track`; `Remove`, `Release`, `Untrack`, `Unstore`; `Stage`,
`Verify`, `Cut`, `Swap`, `Fallback`), so that the four meet between any two of them. A
reconcile cycle is its phases in order, each with the listing it works from. The orphan
cleaners of the checker (`CleanContainer`, `CleanStaging`, `CleanPort`) run beside it. A root
directory whose removal fails is used as it is, because the failure is only logged; `kept`
remembers which ones those are.

`ImageRollout` numbers the contents of one image as they are pushed and has the storage
manager's cache entry (digest and tarball), the push event, the check of a cycle, whose
first pod consumes what a refresh reports, pulls that fail, and the redeploy request. The
request clears the entry by the name the pods have for the image, entries are kept by the
name `rewriteLocalhost` makes of it: where the two differ (`rewritten`) it clears nothing.

`Deployments` has a deployment's object, the copy a cycle works on, and the replicas in the
store and tracked. Handlers change all of it between the steps of a cycle, which creates,
removes and rolls replicas and ends by recreating every stored pod that is not tracked.

`RegistryObjects` follows one registry's configuration from the object to the ConfigMap in
memory, its row, the file the pod mounts and the pod that read it, in requests that mkube's
death may cut short and in the cycle.

`VolumeStore` has one pod with a claim and an ephemeral volume: what `resolvePVC` finds or
creates, what the container mounts, and what the collector takes away.

`LifecycleWatchdog` is one container and its unit. `checkAll` is one action (it holds the
manager's lock), written as a composition of the checks in the code's order; the callback
`OnFailed` (delete the pod and create it again) and the provider's own port check run
beside it.

### Networks and names: ManagedNetworks, DnsService, DnsRecords, DnsProxy, DnsZones, LeaseRelay

`ManagedNetworks` is the life of one Network object: the record in memory and in the store,
its bridge, address and relay, its registration with the IPAM, and the DNS pod with its
ConfigMap. A request is its steps; the reconciler deploys a missing DNS pod without the lock.

`DnsService` is the server of such a network: whether each of its two interfaces answers,
what its database holds, the goroutine that seeds it entry by entry, and the two workers that
repair it, each by deleting and recreating the pod by its own counter.

`DnsRecords` has the A records of one pod's name. Cycle, handlers and checker share a client
whose batch mode caches listings; each registers or deletes by the address it knew when it
began. `DnsProxy` has the entries that users create, change (from what they read), delete or
restore through the API, and the cycle and the checker that put back and clear away.

`DnsZones` has zones, the dedicated containers with the address they ask for, the operator's
records, and its state file; a zone finds its server by the endpoint.

`LeaseRelay` has the leases of the servers, the networks polled, the index of names, and what
the operator was told; announcements are lost when nobody listens.

### Hosts, images and back ends: HostRecords, IsoExport, IsoPatches, ProxmoxVms

`HostRecords` has the copies, in memory, in the store and at the DNS server, of what a
bare-metal host's handlers keep in step. Hosts are kept by namespace and name (`nameOf`), while
the list of a boot config has bare names and the A records are added and removed by them, so
that two hosts may share both. A handler is one action and loses any set of its writes; a crash
in the middle of one is a request that lost writes followed by `RestartHosts`. Three history
variables say where nothing is promised: hosts that lack a write since their last change
(`torn`), hosts that ever lost one (`scars`), and names that two hosts have had at once
(`shared`).

`IsoExport` has an ISO file, its object, the RouterOS disks and the scanner that holds on to
the object it found across device calls. `IsoPatches` has the cells of a directory in sectors
and the extents of the files. Readers and the scan of `AddFile` step by whatever length they
read, also where that leads them inside a record that was laid over a deleted one; the constant
`Inside` says what they take the bytes there for, any record of any length. The history
variables `layout` and `ragged` know where records were laid, and whether one was laid in the
place of a deleted one of another length.

`ProxmoxVms` has the node's containers, the allocator's two tables, the calls in progress, side
by side, and the tasks whose wait timed out. A container's hostname is the name of its pod,
which a pod's containers share, and after a restart `SyncVMIDs` makes the table from hostnames.
A removal finds the VMID first, by the container's name or in a listing of the node, and
removes later what has that VMID by then; at its end `Release` frees whatever VMID the name
holds.

### Delivery: ImageRegistry, ImageUpdater, SelfUpdate

`ImageRegistry` has one repository and tag: a docker client's upload in chunks, the
pull-through of a manifest and its blobs, the watcher that mirrors the upstream and the
syncer that mirrors local pushes to it, each holding what it read earlier. A copy from the
upstream may break off half way (`PutBlobFails`, `cut`), and the syncer drops an event whose
call fails or for which its channel is full (`dropped`).

`ImageUpdater` is one watch: digests, the targets still to replace, and the steps of a
replacement from staging to start. When the registry does not answer, GHCR's image is staged,
which may be older, and the digest is kept (`fellBack`); an answer with "not found" in it makes
a replacing watch pass over the target (`skipped`). `SelfUpdate` is the two containers of mkube and
mkube-update, each replaced by the other: the updater's steps, the server's
`replaceContainer` under the context of the request that asked for it, and RouterOS, which
stops a container some time after it was told to.

### The store: StoreBoot, WatchStreams, ClusterSync

`StoreBoot` has buckets, memory, and the boot sequence, with the HTTP server up before the
store when the store is late. A load lists the keys of a bucket, then reads each row and puts it
into its map (`keys`, `held`), with requests between any two of these, since it takes no lock.
The load of networks ends by deploying the DNS pod of a managed network where it is missing,
with its rows, and writes the network's own row again; the reconcile cycle does the same later
(`deploying`). Objects are of four kinds, which stand for the ways kinds are loaded, imported
and exported, and of three origins: given by manifest or config.yaml, made by users, or made
for a network's DNS. `heldOver` has the deleted objects that a load or a deployment brought
back because it held them.

`WatchStreams` is a client that lists and then watches. The handler takes no lock, and requests
change memory and bucket in two steps, in either order: most write the bucket first and stop
when that fails, claims of pods and objects that loops change are in memory first. Objects made
while no store was attached are in memory without a row (`objUnsaved`).

`ClusterSync` is two nodes and one pod: the pushes in flight, the steps of a full resync, and
what each node runs. `repairNetworkHealth` of the checker runs beside the reconcile loop.

### Composition

Modules that share state are composed by extension (`JobStore` over `JobScheduling`) or are
one module (`PodLifecycle` has reconciler, handlers, watchdog callback and checker in one
state). Components that share no state within the model are checked side by side:
`MCInventories`, `MCDelivery` and `MCServices` extend several modules, and a variable `part`
says which of them moves; the others rest in their initial state, so that state spaces add
up and do not multiply. Fairness is that of each module's own specification, for its part.
`TypeOK` of these modules is the conjunction of the components' types; it may be added to any
of their configurations, as may `TypeOK` of `JobScheduling`, `NetworkManager` and
`PodLifecycle` to theirs.

## Runs

| Run | Specification | Shows |
|---|---|---|
| `JobsExclusive` | `Spec`, 2 jobs, 2 hosts, 2 reservations, 1 runner | no double booking, reports credited to the right job, priority, `HostLease` implemented |
| `JobsLiveness` | `MCSpec`, 2 pools with a runner each, no overflow, 1 host, 3 jobs of which 2 at a time | leases end, the first in the queue is served, leases are backed, power-off spares the jobs of every pool |
| `JobsStored` | `StoreSpec`, 2 runners with limits 2 and 1, overflow | the pool limit survives crashes; a stored end is final |
| `NetworkSafety` | `Spec`, 3 ports, 2 networks, four kinds of failure, no overlap | no address twice on a static network; a release frees its address |
| `NetworkOrphans` | `FairSpec`, 2 ports, all failures, overlap | entries of ports that are gone are released |
| `PodsSafety` | `MCSpec`, 1 pod, 2 specifications, 2 threads at a time, 1 failure | a pod runs its own image; stored pods come to run |
| `InventoriesSafety` | seven components side by side | hosts, of which two share a name, and their records, patched images, VMIDs, zones, claims, redeploys, exported sizes |
| `DeliveryEnds` | eight components side by side | blobs, registries and files in step; hung containers replaced; pushes, replica counts and watches arrive; what is stored is known, what is deleted stays away; of mkube and its updater one stays |
| `ServicesReturn` | six components side by side | stores agree; nothing is left of a deleted network; DNS servers, names and entries come back; users' records stay; leases are told |
| `CrashDoubleBooks` | `StoreSpec` | **violated**: a crash leaves a busy job on a free host, which is booked again |
| `ImageNotRolledOut` | `RolloutSpec`, nothing lost | **violated**: a push whose event arrives is never rolled out |
| `PodRunsTwice` | `ClusterSpec` | **violated**: a node starts its peer's pod again and again |

The properties, and what could break them:

| Property | Module | Says |
|---|---|---|
| `HostExclusive` | `JobScheduling` | no two busy jobs have one host |
| `ReportsOwnJob` | `JobScheduling` | what an agent reports concerns the job it was given, although jobs time out and hosts change hands under it |
| `NoOvertaking`, `TopPriorityServed` | `JobScheduling` | a job does not take a host that a higher one of its pool waits for; the highest is served |
| `LeaseBacked`, `LeaseEnds` | `JobScheduling` | a reservation names its host's busy job, and not for ever |
| `PowerOffSafe` | `JobScheduling` | the idle power-off takes no host of a running job, to whatever pools its reservations move; without overflow |
| `PoolLimit` | `JobScheduling` | runners of one pool stay below their limits, through crashes |
| `EndedStaysEnded` | `JobStore` | what the store says has ended never runs again |
| `ImplementsLease` | `JobLease` | refinement of `HostLease` |
| `NoAddressTwice`, `ReleaseFreesAddress`, `OrphanReleased` | `NetworkManager` | ports, entries and believed allocations stay in step |
| `RunsItsImage`, `PodsConverge` | `PodLifecycle` | root directories alternate correctly: a container runs its own image, or over a directory that could not be removed; whatever order the threads met in, a stored pod runs in the end |
| `RedeployIsFresh` | `ImageRollout` | a redeploy never installs what was current before it was asked for, where the pods name the image as the cache does |
| `ScaleHolds` | `Deployments` | the replicas come to be those of the stored count |
| `FileIsRunning` | `RegistryObjects` | a registry's pod has read the file that is there |
| `ClaimKeepsData` | `VolumeStore` | what a pod wrote to its claim stays until a deletion with purge |
| `HungIsReplaced` | `LifecycleWatchdog` | a container that hangs is restarted or handed to the provider |
| `NothingIsLeft` | `ManagedNetworks` | a deletion removes everything that creation and updates made |
| `DnsServiceReturns` | `DnsService` | a server that died or lost its database serves everything again |
| `NameResolves` | `DnsRecords` | a name comes to lead to the pod's address and no other |
| `UsersRecordStays`, `AskedIsServedAgain` | `DnsProxy` | automation neither deletes users' records nor lets users' edits displace what the network asks for |
| `DedicatedIsServed` | `DnsZones` | removing one zone's server spares the others' |
| `LeasesAreTold` | `LeaseRelay` | a lost announcement is made up for by a poll |
| `HostsInStep` | `HostRecords` | reservations, A records and boot config lists agree with the hosts, except of hosts that lost a write and, for the last two, of names that hosts have shared |
| `SizeFollows` | `IsoExport` | the exported size comes to be that of the file |
| `PatchedImageHolds` | `IsoPatches` | files do not overlap, and each is found that no deleted record hides; until a record is laid in the place of a deleted one of another length |
| `EveryVmIsKnown` | `ProxmoxVms` | every container holds its VMID in the table, where no two share a hostname and no creation overtakes a removal |
| `BlobsAreWhole`, `RegistriesMeetAgain` | `ImageRegistry` | half a blob is seen only while it is written or after a copy broke off; local and upstream tags agree in the end, unless the last push was dropped by the syncer |
| `PushReachesTargets` | `ImageUpdater` | targets come to run the last push, except those staged from GHCR or skipped as not found |
| `OneStays`, `MkubeReturns` | `SelfUpdate` | never both down; a stopped mkube comes back |
| `StoredIsKnown`, `DeletedStaysAway` | `StoreBoot` | memory has what the store has; deletions are not undone by a boot, except of what a load or a deployment held (`heldOver`) |
| `ViewCatchesUp` | `WatchStreams` | a watching client sees in the end what the bucket holds, except of keys that only memory ever had |
| `PeersAgree` | `ClusterSync` | stores agree after a resync |

### Bounds

*Jobs.* Two jobs and two hosts are enough for every conflict the code can have: each rule
compares one job with one other, or one reservation with one host. Two reservations allow a
host to change hands and pools; with one runner per pool the map order among runners does not
matter, and `JobsStored` has two runners in one pool for that. `JobsLiveness` has two pools that
share the only host, a runner in each and a third job in the second pool, so that a
reservation changes pool under a job and the idle power-off of either pool may meet it; jobs
come and go, two at a time (`MaxJobs`). There is no other bound: every variable is finite.
Symmetry is over hosts and reservations, and over jobs where they have one priority; no run
with liveness uses symmetry.

*Addresses.* The pool of `NetworkSafety` has two addresses in its range and one outside it,
for three ports, so that it runs full, wraps, and static and dynamic addresses meet.
`NetworkOrphans` has one address to each network: what it asks is per port, and the other port
is there to hold the mutex, take the address and fail. `NetworkSafety` leaves out, by its
constants, what the code does not survive: walkers that overlap, and the failures `"update"`,
`"lost"`, `"rollback"` and `"sync"`, after which an address in use is free in its pool. With
any one of them `NoAddressTwice` fails.

*Pods.* Pods meet only through names and addresses, which `NetworkManager` has; what is hard
is several threads on one pod. Two specifications tell an old image from a new one.
`MaxThreads = 2` is the bound that matters: three threads at once on one pod are not
explored. `MaxEdits` and `MaxFaults` end requests and failures, after which the liveness
property asks for convergence.

*Side by side.* Every module names its bounds: numbers of failures, requests, pushes,
restarts. They are chosen so that a failure can meet each step of each operation, and so that
two failures, or a failure and a restart, can meet one operation. Two nodes, networks, hosts,
VMIDs, zones or objects where the code compares two of a kind, three zones where two share a
server and a third does not, three contents where old, new and newer differ. Thresholds of the
code (three failed checks, a number of restarts) are small numbers of at least two, so that
counting up, reaching the threshold and starting again all happen.

Of the hosts, the first has had two MACs and moves between the networks, the second stays on
one and may have the first's name or another; one request loses writes or one client sends a
list (`MaxTears`), after which any number of requests and restarts follow. In `StoreBoot` one
object is created, the process dies twice and one call fails, which is enough for a row to be
deleted between any two steps of each of three loads. The directory of `IsoPatches` has two
sectors of one long and one short or two short records; the bytes inside of a short record read
as a record of another file, those inside of a long one as a length that cannot be and as zero
(`Readings`). The theorem has any readings and any directory.

### Fairness

*Jobs.* `TickNext` is weakly fair: `RunJobScheduler` is started once and loops on a ticker
until the process ends. Handlers and agents are not fair. `Expire` of the creation and run
deadlines is weakly fair: clocks advance. The heartbeat deadline is not, since heartbeats may
always come in time.

*Addresses.* A device call ends (it has a timeout); checks keep being started (by every
container operation and by the reconciler); and the device does not for ever refuse to list
its ports or to remove one port. The last two are strong fairness: both steps are disabled in
between, by the mutex and by the phases of a walk. Nothing is asked of allocations, releases,
resyncs or restarts.

*Images.* The loop of the reconciler checks images for ever, and its `select` does not pass
over a waiting push event for ever: strong fairness of `ClearImageDigestByRepo`, which the
checks disable in between. So what refutes `PushReachesPods` is not an event that is never read.

*Pods and the rest.* Every thread that has begun a call ends it, and every loop of the process
(reconcile, checker, watchdog, watcher, syncer, polls) goes on: weak fairness of its next step,
whichever that is. Failures are bounded by the constants instead of being excluded by fairness,
so a property of the form `<>[]` says what holds once failures end. Requests, crashes and
failures have no fairness.

## What the runs refute

* `CrashDoubleBooks`: ending a job stores the released reservation before the job's phase
  (`job_crd.go:402-417`). After a crash in between the loaded job is busy on a free host.
* `ImageNotRolledOut`: nothing is lost in this run, and mkube has the image in its cache. TLC's
  trace is a push that is told; the event, which removes the cache entry (`provider.go:1424`);
  the check of the same loop, whose refresh pulls the image and reports a change only if there
  was an entry (`manager.go:225`), so none; and then checks for ever, none of which finds
  anything new, as the cache has the new digest by then. The pods stay on the old content. A
  push whose event is lost leaves the entry, so that the refresh does report a change and the
  pods are found, except for the first one that is visited (`provider.go:1806` assigns to a
  `changed` of its own).
* `PodRunsTwice`: `repairNetworkHealth` (`consistency.go:1380`) takes the pods of all nodes.
  The reconcile loop takes the local ones (`provider.go:1546`) and its cleaner removes what
  the repair has made.

Each contradicts a line of documentation or a comment, which the findings in `PROJECT.json`
quote. Where the same defect touches another property, that property excludes it and says so:
`RunsAtHome` is checked only where it fails, and `PushReachesPods` likewise.

## Observations without a run

Met while modelling. Models include this behaviour unless it says otherwise; each is also a
hazard or the note of one.

* Steps 3 and 3b of a reconcile cycle use one listing (`provider.go:1760`): a pod that step 3
  has just created looks orphaned to step 3b and is created again, once.
* The provisioning timeout of a job counts from its creation, not from its start
  (`job_scheduler.go:192`): a job that waited ten minutes in the queue has no time to boot.
* With overflow a busy host without a reservation is offered to the next job
  (`job_scheduler.go:176`). The exclusion properties are about runners without overflow.
* The idle power-off looks at the jobs of its pool, not at those on the host
  (`job_scheduler.go:266`). Without overflow a busy job's reservation can change its pool and
  the job's host is spared all the same, which `PowerOffSafe` checks. With overflow it is not: a
  host that a job took by overflow, and that was then reserved for another pool, is powered off
  under the job when that pool is idle.
* A crash between the two writes of a start leaves a reservation claimed by a job that does
  not run, and nothing clears it. `LeaseBacked` is checked without crashes.
* A root directory that `RemoveDirectory` could not remove is only logged (`provider.go:384`,
  `743`, `841`). The container is then created over its old content and runs another image than
  its pod's. `RunsItsImage` excepts these directories (`kept`).
* A redeploy clears the cache by the name the pod has for its image (`api.go:1026`,
  `manager.go:463-474`), and the entries are kept by what `rewriteLocalhost` makes of it. For a
  pod that names the registry as localhost, or by another of its addresses, nothing is cleared
  and the old tarball is used again. `RedeployIsFresh` is about the other pods.
* After a restart a network known only from the store has an empty pool until a later resync,
  and gives out addresses in use. A cleanup that overlaps an allocation removes the new port.
* The replacement of mkube-update by mkube runs under the request's context
  (`provider.go:2347`), which ends when the stopped updater's connection closes. If that is
  noticed in time, the updater stays stopped until the device restarts.
* A target of mkube-update whose replacement failed after its removal is "not found" from then
  on. A replacing watch skips a target for any error that contains these words and keeps the
  digest (`cmd/mkube-update/main.go:274`), so that it is not tried again; another watch puts the
  digest back, and as long as one target is gone it replaces the others at every poll.
* When the registry does not answer, mkube-update stages the image of GHCR, which may be older
  than what was pushed, and keeps the digest (`cmd/mkube-update/main.go:348-366`): the push does
  not reach the container, and it may go back to an older image. `PushReachesTargets` and
  `NeverOlder` except both.
* The DHCP watcher decides at start whether it is needed, skips as already polled a network
  that config.yaml names without DHCP (`dhcp_watcher.go:381`), and `upsertNetworkReservation`
  does not rebuild its index of names.
* `PutBlob` writes a copy from upstream in place (`pkg/registry/store.go:95`). A connection that
  is cut, the client's timeout of thirty seconds, a request that is cancelled or the death of
  the registry leaves half a blob, which counts as present from then on: `HasBlob` keeps it from
  being fetched again, and clients are given it, until someone pushes the blob whole.
  `BlobsAreWhole` excepts such blobs (`cut`), and nothing else.
* The syncer drops the event of a push when its call fails or its channel is full
  (`pkg/registry/syncer.go:83-105`). The upstream then stays as it is and the watcher, whose last
  digest is still upstream's, sees no reason to act: the two differ until the next push.
* Boot configs list their hosts by bare name and A records are removed by it
  (`bootconfig_crd.go:713-764`), while hosts are kept by namespace and name. Where two hosts have
  one name, the deletion of either takes the entry of both, and the boot config may be deleted
  under the other; a write of either takes away the A record of the other.
* After a deletion `AddFile` puts a record where the deleted one was, and asks only whether the
  rest of the sector has room (`iso9660.go:446-460`). A longer record covers the begin of the
  next file's; behind a shorter one, readers go on inside the remains of the old one, whose
  bytes they take for a record. A deleted record also hides what follows it in its sector.
* Proxmox: a `CreateContainer` for a name whose removal has not returned gets the same VMID,
  which the removal then releases. A hostname is the name of the pod, so that of two containers
  of one pod one is lost from the table at a restart, and what is asked for by a container's
  name is not found. `EveryVmIsKnown` excepts both (`vmOvertaken`, `vmShared`).
* A claim that a pod names whose row could not be written (`pvc.go:53-60`), and objects made
  while no store was attached, are listed to a watching client and no event ever follows:
  `ViewCatchesUp` excepts them (`objUnsaved`).
* A row that is deleted while a load holds it comes back in memory, where it stays until it is
  deleted again or the process restarts, and cannot be created meanwhile (`pvc.go:93-107`). A
  network that is deleted while its DNS pod is being deployed gets its row written again
  (`network_crd.go:1051-1057`) and is back at the next start. `DeletedStaysAway` excepts both
  (`heldOver`).
* Between peers, two pushes of one key may arrive in the wrong order and the older one stays
  until a resync, which takes over only what is missing.
* Deleting the last pod and restarting imports the boot manifest again, as the bucket is
  empty. Export leaves out hosts and boot configs, although `README.md:143` speaks of all
  resources.
* `infraReadTimeout` (`infra_health.go:25`) is used nowhere: a registry that hangs without
  dropping the connection of its watcher is not restarted. The watcher is not modelled.
* Every dedicated DNS container of a network asks for one address, so zones that share a
  network share an endpoint (`dzo/operator.go:454`).

## Proofs

`JobSchedulingProofs` proves `TypeOK`, `LeaseBacked` and `BusyHasRunner` for every number of
jobs, hosts, reservations, runners and pools, with or without overflow. The invariant that is
inductive is `CoreInv`: besides the three it says that a host has one reservation at most
(what the create handler refuses), that a busy job has a host, that a polling agent runs
nothing, and that what the tick has still to visit is still pending. The last is what makes
`Schedule` safe: without it a job could be scheduled that a handler has ended meanwhile.

`JobExclusionProofs` assumes `Overflow = {}` and proves `HostExclusive`, `BusyIsLeased`,
`ReportsOwnJob` and that `Spec` implements `HostLease`. `HostExclusive` is not inductive: it
holds because every busy job's host is reserved in its name (`BusyIsLeased`), a host has one
reservation, and a reservation names one job. `ExclusiveInv` is `CoreInv` with `BusyIsLeased`
and `ReportsOwnJob`. For the refinement each action is shown to be a step of the lease or a
stutter, by what it does to the set of busy jobs (`HoldersBothWays`).

`NetworkManagerProofs` proves `TypeOK` of `NetworkManager` for every set of faults, and under
`Serial` (no overlap, none of the four failures) `NoAddressTwice`, `PortsRecorded` and
`ReleaseFreesAddress`, for every number of networks, ports and addresses. `NoAddressTwice`
alone is not inductive: the next allocation looks at pools, not at ports. `Ledger` adds that
pools have no address twice, that the address of a call in progress is held, that every port
but the one of the call in progress is recorded, that `allocs` names the right network, and
that what a resync has found and not yet recorded is still so. `RemovalKeeps` is the one lemma
behind release, cleanup and rollback: taking a port and entries of that port away keeps it all.

`PodProofs` proves `TypeOK` of `PodLifecycle` and `RunsItsImage`, for every number of pods,
specifications, requests, failures and threads. The invariant says, of the pods on which no
two threads have met, that at most one thread works on each (`OneWorks`); that the root
directory of its container holds the container's image, stopped or not, unless its removal had
failed (`BoxHolds`; `kept` is what tells the two apart, and `Make`, `Stage` and `Cut` each keep
it right where the call fails); and that
from the trial of a new image to the swap the other root directory holds that image
(`TrialHolds`). `TrialHolds` is what makes `Swap` safe, which extracts nothing into a directory
that is not empty. `OwnPod` is the core: one case for each call of a thread, on its own pod.
`ThreadHolds` carries it to all pods, because another thread's calls concern another pod, and
`StartFacts` says that a thread which takes a task meets nobody, or the pod is no longer
`alone`. The bound of the run on threads at a time plays no part in the proof. Two more
theorems hold on all pods, whether threads meet there or not. `MarkedIsWorked`: a pod is in
`redeploying` only while a redeploy has still to come to it or a thread works on its update,
so the mark that keeps the cycle, the rollouts and the callback away is never left behind; the
invariant `MarkInv` adds that every update falls back to a deletion and a creation, which
removes the mark. `PodStays`: see below.

`NoOvertakingTheorem` (`JobSchedulingProofs`) rests on `QueueInv`: within the scheduling
phase, a pending job that the loop has passed over still finds its one runner at its limit or
without a host (`PassedOver`), since nothing in that phase ends a job or frees a host. `PowerOffTheorem`
(`JobExclusionProofs`) has the hypothesis that no runner overflows, or that there is one pool;
the property is false without it (see the observations). `JobsLiveness` checks the first case,
with two pools.

`JobStoreProofs` covers crashes. `PoolLimit` is not inductive: when the job that vouches for a
pool ends, another one must, with the limit of its own runner. `Vouched` says that every set of
busy jobs of one pool has a member whose runner would allow as many; `LimitInv` says it of
memory and of the disk, which a crash makes memory. `DiskEnded` (what the disk says has ended,
memory does too) gives `EndedStaysEnded`. `HostExclusive` and `LeaseBacked` fail through
crashes (`CrashDoubleBooks`, and the observations); what crashes leave true is proved:
`BusyHasRunner`, by way of the same of the disk (`DiskHasRunner`), and `LeaseNotPassedOn`, that a
reservation goes from one job to another only by way of no job. For the latter `DiskLease` says
that memory and disk may differ by a job taken or given back, and never by one job for another.

`DeliveryProofs`, `InventoryProofs` and `ServiceProofs` prove the safety properties of the
components that the three side-by-side runs check, each from its own specification:

| Property | What the inductive invariant adds |
|---|---|
| `OneStays` (`SelfUpdate`) | `WorkIsAsked`: mkube works on the updater's container only for a request that is open, whose sender waits; `OneIsThere`: the two are never removed together |
| `StoredIsKnown`, `DeletedStaysAway` (`StoreBoot`) | `LoadedInOrder`: from the step that lists a kind on, each of its stored objects is in memory or among the keys that the load has still to read (`NotYet`, `Found`); `LoadsInTurn`: a load is over when it has read them; `AttachedByNow`; `NoPodInMemory`: kinds without a map are never in memory; `DeletedAreMade`: what is promised to stay away is users' own |
| `FileIsRunning` (`RegistryObjects`) | `BoxRunsFile`: the container runs the file unless it was just written; `WrittenIsTracked`: a pod whose file was written is tracked, so that the update finds it |
| `BlobsAreWhole` (`ImageRegistry`) | its types: the lock for each digest and `cut` are enough |
| `DedicatedIsServed` (`DnsZones`) | `SavedIsServed`: the same of the state file, which a restart loads |
| `ClaimKeepsData` (`VolumeStore`) | `ClaimIsMounted`: the mount point leads to the directory of the claim |
| `EveryVmIsKnown` (`ProxmoxVms`) | `TableAgrees`: the two maps of the table are inverse to each other, but for hostnames listed more than once; `RemovedIsGone`: a removal that has not returned left its VMID empty, unless a creation overtook it |
| `RedeployIsFresh` (`ImageRollout`) | `CacheIsFresh`: during a redeploy the tarball of the cache is not older than its request, for names that are not rewritten; `AskedWasThere`; `OneInCache`: the mutex of the cache |
| `HostsInStep` (`HostRecords`) | of a host that is not torn, each copy apart: `IsStored`, `IsReserved`, `IsRecorded`, `IsListed`; of those that never lost a write, `NoStrayRecord` and `NoStrayEntry`; `SameConfigs`: both copies know the same boot configs; `OneOfAName`: hosts of a name that is not shared are not there together, in either copy, which a restart makes memory |
| `PeersAgree` (`ClusterSync`) | `SettledAgree`, `AloneSettles`: what a resync in each of its steps will make of the two stores, if nobody writes meanwhile |
| `NothingIsLeft` (`ManagedNetworks`) | `NetClean`: the two records and the registration agree, and at each stage of a deletion what the earlier ones were to remove is gone |
| `UsersRecordStays` (`DnsProxy`) | `IdsAreNames`: an id stands for one name, over the records of the server and those of an old listing together |
| `PatchedImageHolds` (`IsoPatches`) | `Packed`, of the `layout`: records follow each other without a gap from the start of each sector, and nothing was laid behind them; `Follows`: where a record begins a reader finds it or its deleted remains, where none ever was a zero; `AllApart`, `AllTold`: of all records, those that no walk comes to among them |
| `ViewIsCurrent` (`WatchStreams`) | `WatchDrains`: the last entry queued for a key, or the view if there is none, is what the bucket holds; `ListedUnknown`, `UnknownIsNowhere`: a key that neither bucket nor memory ever had (`Unheard`) was in no listing; of one that only memory had nothing is said |
| `NeverOlder` (`ImageUpdater`) | `StagedIsNewer`: what is staged for a container is no older than what it was created from, unless it is GHCR's (`fellBack`); `ImagesArePushed` |

`PatchedImageHolds` speaks of what walks over the directory find: the scan for the first zero,
the reader, the search by name. They are recursive functions, and no step keeps the property by
itself. What has to be shown is that no walk ever lands inside a record, whatever the bytes
there are (`Inside` is any function). The lemmas say what each walk finds in a packed directory
of any size. The library's
induction theorems, which take a predicate, cannot be used; `DownwardInduction` does it with a
set of positions in the place of the predicate, and rests on `MinIsLeast`.

What fairness brings about is outside the prover, but that it then lasts is not. For five of
the liveness properties of the form `<>[]P` a theorem gives the stability half: a state in which
`P` holds, and in which nobody is about to act on something older, is left by a request or a
fault only. The second condition is part of the definition named, and is what the theorem shows
to be enough.

| Theorem | Settled state | What may end it |
|---|---|---|
| `PodStays` (of `PodsConverge`) | `PodSettled`: stored, tracked, running, no thread at work on it or to come to it, and seen running by a cycle that still uses its listing | a request, a fault |
| `ScaleStays` (of `ScaleHolds`) | `InScale`: the replicas are those wanted, and so are those the cycle has still to make | a request, a fault |
| `RegistriesStay` (of `RegistriesMeet`) | `Meeting`: one image on both sides, and on its way nothing else | a push; neither broken copies, dropped events nor restarts do |
| `ServiceStays` (of `ServiceReturns`) | `Served`: the server answers, is tracked and has its entries, no repair is under way | a fault |
| `NameStays` (of `NameResolves`) | `NameLeads`: the name leads to the address and to no other, and registrations and checks under way are for that address | the deletion of the pod; neither faults nor restarts do |

`FreshIdFacts` says, by counting, that a DNS server always has an id to give out; `MinIsLeast`
that the least free VMID exists. The lemmas on finite sets and sequences come from the library.

The proofs assume what the modules' `ASSUME`s say of the constants and nothing else, apart
from the hypotheses named above; each assumption is evaluated by the runs. `ClusterAssumption`
says that there are two peers: the code resyncs with the peers it finds one by one, and the
model is about one pair. `PodsAssumption` says that pods are finitely many. Each invariant was
model-checked on small instances before it was proved, and so were the properties that hold by
proof and are not in a run: `BusyHasRunner`, `BusyIsLeased`, `LeaseNotPassedOn`,
`PortsRecorded`, `MarkedIsWorked`, `ViewIsCurrent`, `NeverOlder` and the five stability halves.

Only model-checked:

* every liveness property as it stands (`TopPriorityServed`, `LeaseEnds`, `OrphanReleased`,
  `PodsConverge`, `ScaleHolds`, `HungIsReplaced`, `SizeFollows`, `RegistriesMeetAgain`,
  `PushReachesTargets`, `ViewCatchesUp`, `MkubeReturns`, `DnsServiceReturns`, `NameResolves`,
  `AskedIsServedAgain`, `LeasesAreTold`): fairness and `ENABLED` are outside the prover. Their
  safety parts that are proved are `NoOvertaking`, `ViewIsCurrent`, `NeverOlder` and the five
  stability halves.

## Not modelled

* PUT and PATCH of jobs and reservations write the status the client read, without a version
  check. A stale PUT breaks every invariant of the job subsystem; modelled together they would
  leave none to check. The properties say what holds while handlers alone write status.
* Failed writes of the job subsystem to the store, which are only logged: memory and store
  differ until the next write of the record. `StoreBoot`, `RegistryObjects` and `VolumeStore`
  do have such writes.
* Pods of several containers, static addresses of pods and their repair, re-discovery and the
  boot manifest in `PodLifecycle`; the spreading of a deployment's replicas over nodes.
* The management network's reservations and power control of hosts; power is the external
  operator's.
* Migration of a pod between nodes: no node learns the architecture of its peer, so the
  handler always refuses.
* Namespaces: a map behind a mutex, written to a file and a bucket. `saveState` deletes no row
  of the bucket, so a deleted namespace returns with the next restart; that takes no order of
  events to show, and a model would say no more.
* Wire formats, archives, tables, byte layouts, the REST and gRPC clients and their generated
  code, configuration parsing, discovery at start, installers and test tools: no behaviour over
  time.
* `pkg/network/reconciler.go` and the state file of the network manager: `Reconcile` is called
  by nothing and `StatePath` is never set.
* The watcher of `infra_health.go` for the registry's container restarts it when its
  connection drops and keeps nothing but a cooldown. Validation and smoke tests of networks are reports.
* The boot order of containers is a pure sort; work hours are a comparison of times, in which
  a window that crosses midnight is never active.

## Plan

Every component that was to be modelled is, and every invariant and every action property that
a passing run checks has a theorem. What a next step could be:

1. Of jobs: what crashes leave true of the host a busy job runs on, beyond `BusyHasRunner` and
   `LeaseNotPassedOn`. `LeaseBacked` and `ReportsOwnJob` do not survive them.
2. Stability halves for `AskedIsServed` and `OrphanReleased`, and safety parts of
   `HungIsReplaced`, `SizeFollows` and `LeasesAreTold`, whose modules have no theorem yet.
3. Liveness, should the prover come to support it.

Modules that have theorems use no recursive operators; the walks of `IsoPatches` are recursive
functions.
