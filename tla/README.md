# Verification of the accelerator fabric scheduler

TLA+ specifications of the concurrent core and of the placement algorithms of this
repository, the TLC runs that check them on small instances, and TLAPS proofs of their main properties for all
instances. Paths are relative to the repository; `pkg/...` is `src/pkg/...`.

## 1. The system

    hardware --> discovery agent --> AcceleratorTopology --> scheduler cache --> TopologyFit --> ledger
                                     (spec)   ^ (status)  \                        ^
                                              |            \--> DRA publisher --> ResourceSlices
                                     topology controller                            kubelet <--> DRA driver
                                     policy controller: PlacementPolicy --> ResourceClaimTemplate

| part | code | state | operations | talks to |
|---|---|---|---|---|
| reservation ledger | `pkg/plugin/topologyfit/ledger.go` | `byPod`, `deviceOwner` under one mutex | Reserve, Release, Get, ReservedDeviceIDs, Len | TopologyFit |
| TopologyFit | `pkg/plugin/topologyfit/plugin.go`, `state.go` | the Pod's cycle data; the ledger | PreFilter, Filter, (Pre)Score, Reserve, Unreserve, PreBind, PostBind | cache, policy lister, framework, Coscheduling |
| selection, score | `evaluate.go`, `selection.go` | none (pure) | evaluate, selectDeviceIDs, five topology modes | TopologyFit |
| snapshot | `pkg/topology/snapshot.go` | immutable graph | Build, queries | cache, controller, DRA |
| scheduler cache | `pkg/topology/cache` | a map behind an atomic pointer | Upsert, Delete, Get | informer, TopologyFit |
| topology controller | `pkg/controller/topology` | work queue | sync: validate, write condition and heartbeat | API server |
| discovery agent | `pkg/discovery/agent.go` | none between rounds | Reconcile: discover, get, create/update, retry on conflict | provider, API server |
| NVIDIA provider | `pkg/discovery/nvidia.go` | none | parse, complete NVLink groups | agent |
| DRA driver | `pkg/dra/driver.go` | `prepared`, `owners`, state file, CDI files | Prepare, Unprepare, load | kubelet, file system |
| DRA publisher | `pkg/dra/publisher.go`, `resources.go` | none; ResourceSlices | add, update, delete, resync handlers | informer, kubelet plugin helper |
| policy controller | `pkg/controller/policy` | work queue | sync: get, then create, update or delete the template | API server |
| device plugin | `pkg/deviceplugin` | health map, one-slot update channel | ListAndWatch, Allocate, SetHealth, register | kubelet |
| demo, workloads, metrics, generated code | `cmd`, `frontend`, `pkg/observability`, `pkg/generated` | no protocol state | | |

What is hard here: binding goroutines interleave with the scheduling cycle, and
each reads the cache at its own time; Filter, Reserve and the DRA allocator judge
one topology by different code; three writers share one object under
optimistic concurrency while informers lag, skip versions and restart; the DRA
driver keeps one fact in two maps and two kinds of files, and every file
operation can fail or be the last thing the process does; the device plugin passes
health changes through a channel with one slot. `PROJECT.json` lists
each hazard at its line.

## 2. Modules

| module | models | properties |
|---|---|---|
| `ExclusiveOwnership` | abstract: a unit has one holder; taken and returned whole | the specification the ledger and the state file implement |
| `ReservationLedger` | the ledger; each method is one action, its selector an arbitrary result | `LedgerConsistent`, `NoOverlap`, `ReservationFixed`, refinement |
| `TopologyFit` (extends the ledger) | the plugin in the scheduling framework | `NoLeakedReservation`, `FailClosedKeepsReservation`, `FilterStillHolds`, `LedgerIsExclusive`, `ReservationsEnd` |
| `DRADriver` | Prepare, Unprepare and load, one step per file operation | `OwnersMatchPrepared`, `GrantSurvives`, `ReleaseIsDurable`, `NoSharedDevice`, `StateFileLoads`, `FileIsExclusive`, `Recovers` |
| `TopologyObject` | one object in the API server, its informers, operators (external) | |
| `DiscoveryAgent`, `TopologyController`, `TopologyStore`, `DRAPublisher` | the four processes that write or follow the object | |
| `TopologyPipeline` | their composition, with time | `ReadyIsValidated`, `NothingRefused`, `NoTakeover`, `GenerationsAdvance`, `ConsumersConverge`, `ConsumersExpire` |
| `PolicyController` | the policy controller, one policy and its template | `ForeignTemplatesKept`, `TemplateSettles` |
| `DevicePlugin` | the synthetic device plugin's goroutines beside a kubelet | `NoLostUpdate`, `GrantedIsUsable`, `HealthReachesKubelet`, `GracefulStopEnds` |
| `Lists` | sorting and filtering of lists, as the modules below use them | |
| `Snapshot` | Build: validation, order and index of links | `LinkedAsDeclared`, `FabricModesUseFabricLinks` (violated) |
| `Evaluation`, `Score`, `Selection` | eligible devices, score, the five topology modes, evaluate, validatePolicy | `SelectionDecides`, `SmallestGroupUsed`, `ScoreReflectsSelection` |
| `Combinations` | reference: the sets of devices that a mode allows (`Satisfies`, `CombinationsOf`) | |
| `DRATranslation` | DRA attributes of a topology; selectors and constraint of a policy | `DRAMatchesTopologyFit`, `OrderDecidesNoClaim` |
| `NVIDIAProvider` | links and NVLink groups from the topology matrix | `DiscoveredGroupsAreCliques` |
| `PreferredAllocation` | preferredDevices | `PreferredAllocationExact` |
| `Fixtures` | the fixture topologies, as inputs | |
| `PlacementAlgorithms` | inputs of the algorithms, and the properties that the rows above name | |
| `MC*` | constants of the instances | |
| `*_proofs` | theorems and proofs | |

Definitions called "a mutant of X" state a plausible bug of X. They occur in no
specification; substituting one for X makes TLC report the property that
`PROJECT.json` pairs it with.

### How the models correspond to the code

*TopologyFit.* `phase[p]` is where the framework has got to with a Pod;
`cycleData[p]` is what PreFilter put into the CycleState. Scheduling cycles are
serial (`SchedulerIdle`), binding cycles are not. Filter's verdict is remembered
with the topology it saw, which only `FilterStillHolds` uses. Reserve takes any
feasible node because scores only rank. A Ready topology is the set of device
combinations that satisfy policy and mode; all Pods share one policy. Filter may
also reject for headroom or on behalf of another plugin. The framework and
Coscheduling's Permit, PostFilter and Unreserve are external, modelled from the
extension points the plugin implements and the profile that enables it.

*DRADriver.* The mutex makes calls serial, so `op` is the one call under way.
The entries in memory change together with the outcome of `persist`, which
nobody can observe separately. A refused Prepare changes nothing and is no step.
`granted` and `released` record what kubelet was told. `repeated` marks an
allocation that names a device twice.

*Pipeline.* A version of the object has the fields the code compares. A
conflict is "the stored version is not the one that was read"; versions stand
for their resourceVersion. The agent's renewal of the discovered-at annotation
is not recorded, and a conflict it causes for the controller is one of
`SyncFails`. Heartbeats have ages rather than times. `uid` is the number of
outside changes at creation, which a deletion increases. Build is its verdict
(`Invalid`). Informers deliver in order, may list again and skip versions
(`MayRelist`), hand their version to the handlers again (resync), and list anew
when their process restarts. `watchers` are the processes with an informer on the
object; a behaviour begins with one of the sets in `Deployments` and keeps it.

*PolicyController.* One policy, its template of the same name, and the policy
informer. A sync reads the lister, gets the template, and writes: three steps
between which others act. An update carries the version that was read, a
deletion only the name. The API server refuses an update that changes the spec
of a template (`Admitted`), since that spec is immutable; sync then fails and is
retried. The translation is the label, owner, spec and other metadata (`extra`) of
the template it returns, or a rejection (`Unsupported`). The garbage collector, which
ADR-0006 relies on, is external.

*DevicePlugin.* `process` is where Run is, `stream` where ListAndWatch is. SetHealth
is two steps, since it sends to the channel after it releases the mutex;
ListAndWatch is three (take the token, read the list, send it); Allocate looks at
one device per step. kubelet is external: it dials a plugin that has registered,
may leave at any time, and does not come back to one that has not registered
again. `call.sick` is a history variable: the devices asked for that have been
Unhealthy since the call began. No code but a test (`plugin_test.go:39`) calls
SetHealth today: the goroutines that set health are those the exported method is
made for.

*Placement algorithms.* Pure code is an operator of the same name. The state of
`PlacementAlgorithms` is an input, and steps build inputs up. IDs, NUMA nodes and
groups are numbers in the order of the code's strings, bandwidth counts halves of
a GB/s so that both roundings of the DRA translation act, and fields that are
only checked on their own are one Boolean (`wellFormed`). A policy's vendor and
products are one Boolean of the device (`matches`). The reference definitions
(`Satisfies`, `CombinationsOf`) say what a mode means without saying how to search.
`SelectionDecides` is what entitles `TopologyFit` to see a Ready topology as a set of
combinations (`Selectable`). Text is split into fields outside the model: CEL is
what it selects, and `nvidia-smi`'s matrix is a function. (A CEL expression that
names an attribute which a device lacks is an error to the allocator, which then
allocates nothing; `Selected` lets it select nothing, and the clique mode, the only
one concerned, claims nothing of sets that are not allocated.) A loop of the code is a
recursive function of the number of rounds, and a sort is `inOrder`, which puts an
element after as many others as precede it: both can be reasoned about for any
length. `"~unknown"`, the key of devices without NUMA node or PCIe root, is
`Unknown` and sorts after all others (`keyLess`).

## 3. Runs

Deadlock is checked in every run but the two of `PlacementAlgorithms`, whose inputs
are complete at some point.

| run | instance | question |
|---|---|---|
| `ReservationLedger` | 3 Pods, 2 nodes, 3 devices; every selection, malformed ones included | do the two maps always agree, are reservations disjoint and fixed, does the ledger implement exclusive ownership? |
| `TopologyFit` | 1 node, 2 devices, a gang of two single-device Pods and a Pod that wants both | does any interleaving, timeout, restart or change leak, overlap, lose or keep a reservation for ever? |
| `TopologyFitBestEffort` | 1 node, 2 Pods | **violated**: `BestEffortIsNeutral` |
| `DRADriver` | 2 claims, 3 devices, overlapping and repeating allocations | what survives failures of every file operation and a crash at every point? |
| `TopologyPipelineSafety` | controller and scheduler, 2 contents, lag 2, 2 outside changes, relists | do conditions, generations and the cache stay sound under every race? |
| `TopologyPipelineConverges` | controller with scheduler or with publisher, 3 contents, lag 1, 1 outside change, failing publications, no relist | do the cache and DRA reach the hardware, and drop a graph that nobody vouches for any more? |
| `TopologyPipelineRecreated` | lag 2, 2 outside changes, relists | **violated**: `RefusedIsOlder` |
| `PolicyController` | 3 specs, one unsupported, 4 outside changes | does sync write only over its own template, and do policy and template end up in agreement, or apart in one way only? |
| `PolicyControllerDelete` | the same | **violated**: `DeletesOnlyOwn` |
| `DevicePlugin` | 2 devices and an unknown ID, 2 goroutines that set health | is a health change lost, an unusable device granted, or the stop stuck? |
| `PlacementAlgorithms` | see below | do the algorithms compute what they should, and where do TopologyFit and DRA agree? |
| `PlacementAlgorithmsLinks` | the same | **violated**: `FabricModesUseFabricLinks` |

### Bounds

`TopologyFit` needs a device two Pods want, a Pod that needs all devices, and a
gang that waits: three Pods and two devices have all of these. Two claims and
three devices give disjoint, overlapping and equal allocations. In the pipeline
`MaxChanges` bounds what operators and hardware do and `MaxLag` the events on
their way to an informer; two of each allow a deletion and recreation between
two lists, and an edit during a sync. Convergence needs two valid contents (one
alone is always "the hardware"), and one outside change and one consumer at a
time, which does not write to the object and so cannot disturb the other, keep the
liveness graph within reach (384 thousand states, two minutes). With lag 1 there is
nothing for a relist to skip, so `MayRelist` is FALSE there. The agent, the controller and failures are not bounded, and
`TTL = HeartbeatInterval = 1` gives each of fresh, due and expired.
Four changes let a policy be applied and stripped of DRA while its template is
deleted and replaced. `TopologyFit` has one node; Pods that come back on
another node are covered by its proofs, which hold for any nodes.

`DevicePlugin`: with two goroutines one can find the slot full while the other's
token is being used; two devices make Allocate take several steps.

`PlacementAlgorithms` takes as topologies: four devices with every combination of
four kinds of locality (NUMA node and PCIe root, known and unknown), the last device
on NUMA node 0; two devices with up to three links and three devices with up to two,
of six kinds (types, healths, bandwidths, hops) in any order and, but for the last
link, at any pair in either direction, invalid ones included; every graph on four
devices, in one fabric group and in two, with links of a second kind to device 4 and
inside the two groups; and the fixture topologies with one failed link. Each is
judged under all modes, with unknown topology allowed or not, with no device or any
one device reserved, for every number of devices. Four devices are the least on
which a greedy clique search fails. The matrices have one, three and four GPUs:
every matrix of NVLink and PCIe codes, and below four GPUs asymmetric and
unsupported codes too. Requests have up to four available and two required devices.
Where an instance leaves inputs out, the proofs of section 5 cover them.

### Fairness

- `TopologyFit`: weak fairness of each Pod's binding steps. Its goroutine runs,
  and the Permit timer fires. Nothing is assumed of restarts or topologies.
- `DRADriver`: weak fairness of call steps and of recovery (kubelet restarts an
  exited container). `Recovers` assumes that failures and crashes end.
- Pipeline: informers deliver, and a resync that would change the publication
  happens (its period is 30 s). `WritersRun` and `TimePasses` are premises of the
  properties that need them. `WritersRun` is strong fairness because `MaxLag`,
  a bound of the model and not of the code, disables writes now and then.
  `Prompt` lets time stand still at the end: everything happens within the TTL.
  `ConsumersExpire` assumes nothing of the agent and the controller: they may stop.
- `DevicePlugin`: weak fairness of each goroutine's steps and of kubelet dialing a
  plugin it has accepted. Nothing is assumed of signals, kills, health changes or
  kubelet's restarts; `HealthReachesKubelet` and `GracefulStopEnds` name what they
  need as premises.
- `PolicyController`: the worker, the informer with its 30 s resync and the
  garbage collector go on; `TemplateSettles` assumes that changes, errors and
  restarts end.

## 4. What the violations show

- `BestEffortIsNeutral` (ADR-0003:18, SLO:21). Reserve lets a BestEffort Pod pass
  without a reservation while the topology is not Ready. The topology becomes
  Ready while the Pod waits; PreBind then wants a reservation and fails the Pod
  with an internal error (`plugin.go:301`). The Pod is retried.
- `RefusedIsOlder` (`store.go:17`). An object deleted and recreated between two
  lists arrives as one update with generation 1 and is refused against the entry
  of its predecessor (`store.go:85`). This is why the convergence run does not
  relist: with relists and two changes the cache need not converge.
- `DeletesOnlyOwn` (ADR-0006:18). sync checks label and owner on the template it
  got and then deletes by name (`controller.go:102`). A template that was
  relabelled or replaced in between is deleted although it is not the
  controller's.
- `FabricModesUseFabricLinks` (ADR-0003:17). Links of different type between two
  devices are different links to validation, but the adjacency index has one place
  for the pair, and the link whose type sorts last stays there (`snapshot.go:88`).
  A PCIe link thus hides a healthy NVLink or HCCS link, and the fabric modes find
  the two devices not linked. `LinkedAsDeclared` is what does hold.

Known limits that the models contain and no run reports: a crash inside Prepare
can leave a CDI file for a claim the driver does not know, and Unprepare of it
succeeds without removing the file; a claim that names a device twice is
prepared and then makes load refuse the whole state file (the exception in
`StateFileLoads` and `Recovers`); an object deleted while the DRA driver is down,
or whose withdrawal fails to publish, leaves devices published (the exception in
`ConsumersExpire`); the topology controller renews heartbeats although the agent
is dead. A policy edited from one set of DRA parameters to another, or to an
unsupported spec, keeps the template of its earlier spec: the update is refused, or
not even tried, and sync retries for ever (`LeftBehind`, the exception in
`TemplateSettles`). The controller's test of an update (`controller_test.go:39-46`)
runs against a fake client, which does not know that the spec is immutable, and
ADR-0006:8 wants no "drift".
An update that Build rejects is dropped before the cache entry is touched
(`store.go:60`), so the version before it stays usable until its heartbeat expires,
although ADR-0002:15 speaks of "the current Kubernetes generation";
`ConsumersExpire` shows that it is used no longer than that.

- The device plugin registers once (`deviceplugin/plugin.go:102`): after a restart
  of kubelet it goes on serving unregistered. `HealthReachesKubelet` assumes that
  kubelet does not leave.
- GracefulStop waits for ListAndWatch, which only kubelet ends
  (`deviceplugin/plugin.go:109`): with a connected kubelet the process is killed at
  the end of its grace period. `GracefulStopEnds` speaks of a kubelet that is gone.
- An unhealthy link inside a fabric group does not show in the DRA attributes of
  its ends (`resources.go:40`), nor does a missing one, so DRA can allocate both under
  a clique policy that TopologyFit would not satisfy with them. `DRAMatchesTopologyFit`
  says exactly when: of the sets that DRA may allocate, TopologyFit accepts those
  whose pairs all have a healthy fabric link (`HealthyFabric`). Of other sets it says nothing: the
  attributes are conservative, so DRA may refuse a clique.
- The published `fabricType` is the type of the last link in the order of the spec
  (`resources.go:56`): on a device whose links have several types it depends on that
  order, although ADR-0006:14 calls it conservative. `OrderDecidesNoClaim` says that
  nothing else does, and that no claim is given other devices for it.
- DRA templates do not select on the resource name: a node with devices of several
  names is excepted from `DRAMatchesTopologyFit`.

## 5. Proofs

TLAPS proves these for every value of the constants that the modules' named
ASSUMEs allow. The ASSUMEs say that "none" values differ from real ones and give
the constants their types; TLC evaluates them in the runs.

- `TopologyFit_proofs`, the ledger. `LedgerType /\ LedgerConsistent` is inductive:
  disjointness alone is not, since Release clears what `byPod` names and Reserve
  consults `deviceOwner`. `LedgerNoOverlap`, `LedgerReservationFixed` and
  `LedgerImplementsOwnership` follow from it.
- `TopologyFit_proofs`, the plugin. `TopologyFitInv` adds `CycleInv` to types and
  consistency: what each phase implies for the reservation, the node and the
  verdicts, and that one Pod at most is in its scheduling cycle. That last part
  is what makes `ReserveConfirmsFilter` hold: others can only release meanwhile,
  which only enlarges the choice (`OffersMonotone`). Also `NoLeak`,
  `FailClosedHolds`, `PluginLedgerCorrect`, `PluginImplementsOwnership`.
- `DRADriver_proofs`. `DriverInv` relates memory, the state file, the CDI files,
  the call under way and what kubelet was told. The state file is exclusive in
  itself, memory equals it while serving and is the loaded part of it while
  loading; this is what carries the grants over a crash. Results:
  `GrantsSurvive`, `ReleasesAreDurable`, `NoDeviceShared`, `FilesLoad`,
  `DriverImplementsOwnership`.
- `TopologyPipeline_proofs`. `PipelineInv`: every copy of the object, wherever
  it is, is a version whose condition observes no later generation than its own
  and, when it observes that one, is validated. A status prepared from an old
  version needs it for copies under way. Results: `PipelineTyped`,
  `ReadyValidated`, `AgentNeverTakesOver`,
  `GenerationsNeverGoBack`.
  `NothingEverRefused` needs the order of versions under way, `OrderInv`: along the
  path from the object over the watch to the informer's view and the cache nothing
  runs ahead of the object (`NotAhead`), and of one incarnation later versions have
  no smaller generation (`InOrder`). Relists, restarts and resyncs keep it because
  they take the stored object or the view itself.
- `Services_proofs`, the policy controller. `SyncKnows` says what a sync about to write has read:
  nothing, or a template that is its own; with the version check of the API
  server this gives `ForeignTemplatesSafe`.
- `Services_proofs`, the device plugin, for any devices and goroutines. `UpdatesNotLost` needs what
  holds in the other states of the stream: what it read, or kubelet has, is the
  current health unless a token is in the channel or a goroutine is about to put
  one there. `GrantsUsable` needs that the devices already checked are not sick.
- `Snapshot_proofs`, `Selection_proofs`, `Translation_proofs`,
  `PlacementAlgorithms_proofs`: the placement algorithms, for any number of devices,
  links, GPUs and requests (below).

### The placement algorithms

The eight invariants of the run `PlacementAlgorithms` hold for every input of the
declared types, not only for those of the run. The inductive invariant is the type
of the input, `InputType` (`InputTyped`); it needs that the constants are
inventories, policies and requests of the types the API declares
(`InputAssumption`). Each theorem then shows that a well-typed input implies the
property. No induction over data is needed of the prover: that a loop or a recursion
has a run, and only one, is proved once for arbitrary step functions, given as sets
of pairs (`LoopExists`, `LoopUnique`, `RecursionExists`), and what the loop computes
is an invariant of its rounds (`RoundInduction`, from the least round that breaks it).

- `Snapshot_proofs`. `inOrder` sorts any finite set along any total order
  (`InOrderSorts`). The index holds after n links the last of the first n that joins
  a pair (`Indexed`); with the links sorted, that is the one with the greatest type
  (`LinkBetweenGoverns`). Also the arithmetic of the score: `ScoreNeverClamped` (for
  every valid choice of weights the weighted mean stays in 0..100, so the clamp never
  acts) and `PerfectScore`.
- `Selection_proofs`. `SearchRight` says what the depth-first search for a clique
  returns for the last k candidates: a clique that extends the chosen devices, or
  nothing when no k of them complete one, so that the pruning by number cuts nothing
  off. `Searching`, `Hanging` and `Seen` are invariants of the rounds of the
  breadth-first search: what is selected hangs together, and what is seen and not yet
  selected is queued, so that an empty queue means a whole component.
  `SelectsCombination` combines the modes for any snapshot of a well-typed spec.
- `Translation_proofs`. `PreferredExact`, for any request whose available devices do
  not repeat. The fold over links that makes the attributes of a device computes a
  maximum and a minimum (`SumsUp`). Propagation of groups over the NVLink graph: as
  many passes as there are GPUs reach the whole component (`ComponentReached`), and a
  component is numbered exactly when all its members are linked (`CompleteComponent`).
- `PlacementAlgorithms_proofs` draws the eight invariants from these.
  `LinkedIsAsDeclared` follows from `LinkBetweenGoverns`: the link that governs a pair
  is one of those declared between the two.
  `SelectionIsExact`, `SmallestGroupAlwaysUsed` and `ScoreAlwaysReflectsSelection` rest
  on `SelectsCombination`; the last needs that rounding keeps percentages in order
  and that m devices have m(m - 1)/2 pairs. `OrderNeverDecides`: two specs whose links
  are the same up to order and direction (`Rearranged`) give the same snapshot, the
  same attributes but for `fabricType`, which each time is the type of a link that
  counts (`RearrangedAttributes`), and so the same claims (`RearrangedClaims`).
  `ClaimsMatchTopologyFit`: what the selectors and the constraint admit against what
  the mode asks, with both roundings of the bandwidth, for any valid spec; in the clique
  mode the minimum over a device's links bounds the link of each pair (`GroupLinked`),
  so that only a pair without a healthy link can make the difference.
  `DiscoveredGroupsAlwaysCliques` and `PreferredAllocationIsExact` complete the list.

Type correctness of each component is proved too; the runs of the ledger, the
plugin, the driver and the device plugin leave the check of types to the proofs.
Every safety invariant and action property of the passing runs is proved. Only
model-checked: everything under fairness (`ReservationsEnd`, `Recovers`, `ConsumersConverge`,
`ConsumersExpire`, `TemplateSettles`,
`HealthReachesKubelet`, `GracefulStopEnds`), which is beyond the prover.

## 6. Not modelled

- `nvidia-smi` text below the fields of its matrix, and the query of memory and
  product; CEL text; flags, HTTP and metrics: input and output without protocol
  state. The gauge of active reservations, set outside the mutex, is one of these.
- PreScore and Score: they hand evaluate's score to the framework and keep it for
  the cycle. Scores only rank nodes; `TopologyFit` lets Reserve take any feasible
  one, which covers every ranking. SignPod is a digest of the Pod.
- The snapshot's indexes by NUMA node, PCIe root and fabric group, which only tests
  read. Vendor and product, which selectors compare with constants of the
  policy, are one Boolean of a device (`matches`).
- The file system below rename (no fsync).
- Two objects with one `nodeName`: the agent names an object after its node.
- Generated clients, the demo and the workloads: no state of the system.
