# A TLA+ model of the GCP Filestore CSI driver

The driver turns CSI requests of the Kubernetes sidecars (provisioner, attacher,
resizer, snapshotter) into long-running operations of the Filestore service. What is
hard about it is not any single request. Every request is a chain of cloud calls that
other requests interleave with, that can be cut anywhere (a timeout, a cancelled
context, a driver restart), that leaves operations running behind it, and that is
repeated until it is answered. This directory models that control: every step between
two cloud calls is an action, and sizes, addresses and labels are kept only as far as
the properties tell them apart.

Paths below are relative to the repository root. Module `X` is the file `X.tla`.

## 1. Inventory

| Component | State it keeps | Operations | Interacts with |
|---|---|---|---|
| **Multishare ops manager** `pkg/csi_driver/multishare_ops_manager.go` | one mutex; nothing else, every decision is made from `ListOps` and fresh reads | pick or create an instance for a share; verify that nothing conflicting runs; start instance and share operations; delete or shrink an instance | called by the multishare controller; `file.Service` |
| **Multishare controller** `multishare_controller.go` | volume locks | `CreateVolume`, `DeleteVolume`, `ControllerExpandVolume`, `CreateSnapshot` | ops manager, `file.Service`, IP allocator |
| **Single-share controller** `controller.go` | volume locks | `CreateVolume`, `DeleteVolume`, `ControllerExpandVolume`, `ControllerModifyVolume`, `CreateSnapshot`, `DeleteSnapshot` | `file.Service`, IP allocator, resource tags |
| **IP allocator** `pkg/util/ip_reservation.go` | `pendingIPRanges` | `GetUnreservedIPRange`, `ReleaseIPRange` | shared by the requests of both controllers |
| **Volume locks** `pkg/util/volume_lock.go` | set of held keys | `TryAcquire`, `Release` | both controllers, node server |
| **Filestore cloud provider** `pkg/cloud_provider/file/file.go` | none | instance, share, backup requests; polling of operations; listings | the Filestore service (external) |
| **Stateful multishare controller** `multishare_stateful_controller.go` | `ShareInfo` objects in the API server, read through an informer | records create, expand and delete intents | reconciler, through the objects |
| **Reconciler** `reconciler.go` | `ShareInfo` and `InstanceInfo` objects, both ways linked | one loop: assign shares to instances, start and finish operations, delete unused instances | API server, `file.Service`, IP allocator |
| **Node server** `node.go` | mounts, volume locks, lock info in a ConfigMap | stage, publish, unpublish, unstage | kernel, ConfigMap of the node |
| **Lock release controller** `pkg/releaselock/` | ConfigMaps `fscsi-<node>` with resource versions | on node events and periodically: release the NFS locks of nodes that are gone, remove keys | API server, Filestore's lock-release RPC |
| **Set-up, identity, volume ids, tags, webhook, metrics, API types** | none after start | - | - |

What is hard, and what makes each component correct:

* *Multishare*: handlers race for the instances. `ListOps` is a snapshot that ages while a
  decision is made from it; the mutex is given up while an operation is polled, and
  what was decided before is not re-verified in full after. Correct means: conflicting
  operations never run together; an instance is never deleted or shrunk under a share;
  a volume exists once, as it was told, until its deletion; nothing is left over.
* *Single-share*: the locks vanish with a timed-out handler while its operation goes
  on. Correct means: what was answered stays true; late operations and retries are told
  apart; IP ranges do not overlap.
* *IP allocator*: correct means that an answer is free, aligned and inside the network,
  and that a request is refused only when nothing is free.
* *Reconciler and stateful controller*: two writers on the same objects, caches that lag,
  pairs of objects that are updated one after the other. Correct means that the links
  agree after every crash and that no share is lost.
* *Node server and lock release*: optimistic concurrency on one ConfigMap, with mounts
  that have happened when the update fails. Correct means that every lock of a node that
  is gone is released, and no lock of a node that lives.

`PROJECT.json` lists these hazards one by one, each at its line.

## 2. Modules

    OpsDiscipline ----------------- what the ops manager promises: the cloud alone
        | EXTENDS
    Filestore --------------------- instances, shares, operations (the service)
        | EXTENDS (with Sizes)
        |-- MultishareOpsManager ------ mutex, snapshot, decisions
        |       | EXTENDS
        |   MultishareController ------ requests, retries, faults: Init, Next, Spec
        |       | EXTENDS
        |   MultishareSafety ---------- properties, fairness      -- MCMultishare
        |       |-- MultishareProofs
        |           with SizesTheorems
        |
        |-- InfoObjects --------------- ShareInfo and InstanceInfo, informer caches
                | EXTENDS
            StatefulController -------- requests that write and read ShareInfos
                | EXTENDS
            Reconciler ---------------- one round after the other: Init, Next, Spec
                | EXTENDS
            ReconcilerSafety ---------- properties, fairness      -- MCReconciler
                |-- ReconcilerProofs -- ReconcilerLifeProofs
                    with SizesTheorems

    IPAllocator ------------------- the search and the pending ranges
        |-- IPReservation                           the allocator in any order of use
        |       |-- MCIPReservation
        |       |-- IPReservationProofs             with IPAllocatorTheorems
        |-- SingleShareFilestore -- SingleShareController -- SingleShareSafety
                                                         |-- MCSingleShare
                                                         |-- SingleShareProofs
                                                             with IPAllocatorTheorems

    NodeServer -- LockRelease -- LockReleaseSafety -- MCLockRelease
                                                   |-- LockReleaseProofs

    VolumeLifecycle --------------- what every controller promises of a volume:
        INSTANCEd WITH a refinement mapping in MultishareSafety, SingleShareSafety
        and ReconcilerSafety

### Filestore (external service, requests from `file.go`)

`instance`, `share` and `ops` are the service's resources and its running operations.
`StartOp` is the acceptance of one of the driver's `Start...Op` requests. What the
service does afterwards is not in the repository, so the model is as permissive as the
driver's error paths allow: an accepted operation ends at any later time, with or without
an error (`OpSucceeds`, `OpFails`); an instance may go into repair and come back; and the
service itself does *not* exclude conflicting operations. Exclusion is the driver's task and is what
the properties examine. The service refuses a request on a resource in the wrong state
(the 404 and 409 paths). Instance names contain a fresh uuid, so a name is used once:
`UNUSED` before, `GONE` after.

### OpsDiscipline (abstract specification)

What the ops manager promises, as a specification of the cloud's state alone: an operation is started
only if nothing it conflicts with runs, an instance is deleted only when it has no share,
and anything else that happens to the cloud is the service's doing. It does not say how the driver
knows. The implementation relation is `Spec => DisciplineSpec`. The refinement mapping is the identity on
`instance, share, ops`, so the modules share these variables instead of instantiating with a
substitution; the state the discipline leaves open (mutex, snapshot, handlers, locks) is what
`MultishareController` adds.

### VolumeLifecycle (abstract specification)

What CSI promises of one volume, whatever backs it: wanted, bound, released, deleted. It is bound, and
grown, only to a size its backing resource has; while it is bound the resource stays usable and at least
that large; it is deleted only when the resource is gone, and nothing comes back after that. A
step may be about several volumes, since an operation on an instance is. The three controllers implement it, each
with its own mapping of cloud state to `none`, `partial` and `usable`:

| Controller | Backing resource | Usable |
|---|---|---|
| multishare | the share on the instance the volume id names | share READY on a READY or REPAIRING instance |
| single-share | the instance named after the volume | READY, with the performance that was granted |
| stateful and reconciler | any share of the volume on any instance | share READY, instance READY or REPAIRING |

A late answer to an expansion may still change what is told of a released volume (`Reclaim`): handlers do not
know that the claim has gone.

### MultishareOpsManager and MultishareController

One action per step between two points where another goroutine or the cloud can act. A
handler is at `work[w].pc`; the table gives the function each stage stands for.

| Stages | Code |
|---|---|
| `create.lock`, `create.setup` | `setupEligibleInstanceAndStartWorkflow`: lock, `ListOps`, running share create, existing share, eligible instances, start |
| `create.wait` | `waitOnWorkflow` in `CreateVolume` |
| `create.relock`, `create.share`, `create.shareWait` | `startShareCreateWorkflowSafe` and its poll |
| `create.get` | `getShareAndGenerateCSICreateVolumeResponse` |
| `delete.get` | `GetShare` in `DeleteVolume` |
| `delete.lock`, `delete.share`, `delete.wait` | `checkAndStartShareDeleteWorkflow` and its poll |
| `delete.relock`, `delete.instance`, `delete.instanceWait` | `checkAndStartInstanceDeleteOrShrinkWorkflow` and its poll |
| `expand.get` | `GetShare` in `ControllerExpandVolume` |
| `expand.lock`, `expand.check`, `expand.wait` | `checkAndStartInstanceOrShareExpandWorkflow` and its poll |
| `expand.relock`, `expand.share`, `expand.shareWait` | `startShareExpandWorkflowSafe` and its poll |
| `expand.verify` | `getShareAndGenerateCSIControllerExpandVolumeResponse` |

`mutex` is `MultishareOpsManager.Mutex` and `snap` the `ListOps` answer its holder got. Taking
the mutex and listing operations is one step (nobody else can start one in between); deciding
and starting is a second step. Between the two, operations finish and fail and
instances go into repair, which is the gap that matters: the reads of instances and shares inside a
decision are taken at one moment, while the list of operations may be older. Nothing but the
service acts between those reads while the mutex is held.

`pv` is what the orchestrator (external: sidecars and their objects) wants and has been
told. It repeats a request until it succeeds, may have two requests for different volumes, or a
request and its repetition after a timeout, in flight, and may lose an answer. `HandlerFails` is an
error of a cloud call, a poll that times out, or a cancelled context: the handler returns and
releases its lock, its operation goes on. `DriverRestarts` loses every handler, lock and the mutex.

### IPAllocator and IPReservation

Addresses are numbers below `AddrSpace`, a range is a base and a size. The code's search
(mask the parameter's address, step by the block size while inside the network, stop at the end of
the address space, take the first candidate that overlaps nothing reserved or pending) is
the set `Candidates` and its lowest free member. `IPReservation` uses the allocator alone, in any order, and keeps
each answer for one step in `request`, to be compared with the addresses it stands for: the
reference definitions in `AnswerIsUnreserved` and `RefusedOnlyWhenFull` speak of sets of addresses
and never of the overlap test or the search.

### SingleShareFilestore and SingleShareController

The same style for `controller.go`: instances named after their volume, backups after their
snapshot. The reservation is a pair of actions because the code has a gap there:
`CreateList` reads the ranges in the cloud, `CreateReserve` takes the allocator's mutex and
searches with what was read. `Return` stands for the deferred `ReleaseIPRange` and lock
release. `DeleteSnapshot` takes no lock, so two of them may overlap; the one that is refused
dereferences a nil operation and takes the process with it (`DeleteBackupPanics`), like a restart.
Unlike in the multishare controller, volume locks are all that keeps requests for one volume
apart, and `HandlerFails` removes them while operations run.

### InfoObjects, StatefulController, Reconciler

The objects in the API server are `shareInfo` and `instanceInfo`; an update is accepted only if the copy
it was made from equals the object (resource versions), a deletion takes any version and only marks an object with a
finalizer. Three variables are informer caches. One action of the reconciler covers the code from a read of Filestore, or
from one object to the next:

| `recon.phase` | Action | Code |
|---|---|---|
| `idle` | `ListShares` | first listing of `managedInstanceAndShare` |
| `listed` | `UpdateInfos` | the instances' listing, `createAndUpdateShareInfos`, `createAndUpdateInstanceInfos` with the finalizers |
| `pointers` | `FixTwoWayPointers` | one share listed on an instance it does not point to |
| `assign` | `AssignShare` | one share of `assignSharesToEligibleOrNewInstances`, with `generateInstanceInfo` |
| `resize` | `DeleteOrResizeInstances` | `deleteOrResizeInstances`, then `listMultishareResourceOps` |
| `instances` | `SendInstanceRequest` | one instance of `sendInstanceRequests` |
| `shares` | `SendShareRequest` | one share of `sendShareRequests`, with `maybeMarkShareInfoStatusDeleted` |

The order inside a phase is that of a Go map: any. `failing` is the write of a step that fails for another
reason than a conflict; what the code does after it, at each place, is part of the action. `RoundEnds` is a
failed listing, a crash, or a lost lease at any moment of the round. The stateful
controller's handlers read and write in one step because the cache they read may be behind by any time already. The
reconciler's own caches are up to date except while it reads from them (`CacheLags = FALSE`, see section 6).

### NodeServer, LockRelease

`machine[n]` is the machine that has, or had last, the name `n`: the how-manieth, and whether it is up. `node[n]` is the Node object
of that name, which is another matter: it may be absent, have no annotations (an error for the controller), lack the
`instance_id` annotation (a match with nothing: `controller.go:327`, `550`), or still name the machine before. A Node normally
names the machine that is up (`Naming`); the constant `Lapses` says what else it may be, each time at the cost of a fault, and the
history variable `doubted` collects the machines it has not named at some moment while they were up. A key of the ConfigMap is a
volume and a machine. `NodeServer` cuts stage and unstage in two where they have read the ConfigMap and not yet written it; `LockRelease` adds the controller: `ListConfigMaps` and
`ListNodes` of the loop of version 1, `Watch`, `Relist` and `Handles` of the informer and the queue of version 2 (the watch delivers
every change of a Node in order, a broken one only the last), and for both `SeesTo` (verify, release) and `Removes` (delete the key with retry). `LeaderChanges` puts either version in charge,
with nothing but what the API server has. Filestore forgets a lock with the pod that holds it, never with a machine
that vanishes.

## 3. Runs

Sizes are counted in small units. Violations are of properties stated by a comment or a
test of the repository; section 6 says what each shows.

| Run | Instance | What it shows |
|---|---|---|
| `multishare_safety` | 2 volumes, 2 instances, 2 workers, **unbounded** faults, one volume expanded | type and inductive invariant (`VolumeInv`); operations stay exclusive; no share on a dying instance; a shrink leaves room; implements `DisciplineSpec` and `VolumeLifecycle` |
| `multishare_live` | 2 volumes, 3 instances of up to two shares, 2 workers, 1 fault | every wanted volume is created, unless a lost request left a share in its way; every released one deleted; a volume has at most one share more than there were faults; no instance that a volume is known by is left, but one whose creation failed or that keeps a second share; inductive invariant (`LeakInv`) |
| `ip_reservation` | 8 addresses, ranges of 2 and 4, every cidr, up to two cloud ranges, every order | answers are disjoint, free and aligned; refused only when full |
| `single_safety` | 2 volumes, 1 snapshot, 2 workers, 2 faults, 2 expansion sizes, 1 performance change | implements `VolumeLifecycle`; snapshots are as told; reserved ranges stay held; inductive invariant (`VolumesInv`) |
| `single_live` | 2 volumes, 1 snapshot, 1 fault, no expansion | wanted volumes are created, released volumes and snapshots deleted |
| `reconciler_safety` | 2 volumes, one of them older than the reconciler, 2 instances, 2 faults, one cache of the stateful controller that lags, the reconciler's in step at the start of a round | a share is where its ShareInfo points, and stays there; no instance is deleted under a share, or shrunk under one the informer knows; implements `VolumeLifecycle`; inductive invariants (`PlacesInv`, which includes the types, and `LifeInv`) |
| `reconciler_live` | the same without expansion and lag, 1 fault, which may be the user's deletion of an instance | wanted volumes are created, released ones deleted, unused instances reclaimed; types and inductive invariant (`LinksInv`), with a user who deletes instances |
| `lock_release` | 1 node name, 2 machines, a Node that may lapse in every way, 2 volumes on one server, both versions, 1 fault | but for machines their Node did not name: every lock has its key, and no lock is taken from a live machine; inductive invariant (`LockInv`); locks of replaced machines are released |
| `multishare_duplicate` | 2 volumes, 1 fault | violation: two shares of one name |
| `single_range` | 2 volumes, no faults | violation: overlapping ranges |
| `reconciler_lost` | as `reconciler_live` | violation: a lost creation is never noticed |
| `node_publish` | 1 volume, 2 target paths, 1 fault | violation: a staged volume without its mount |

Why the bounds are enough for the cases that matter:

* *Volumes and workers.* Every hazard here is between two requests: two workers on two volumes,
  or two on one volume after a timeout. The theorems hold for any number of each.
* *Instances.* Every creation of an instance uses a name up. When none is left, `CreateSetup`
  returns an error (`Placements(v) = {}`). With unbounded faults this cuts off behaviours that create a third
  instance; the safety properties relate the shares and operations of one
  instance at a time, and two instances already have every combination of states. The theorems
  have no such bound. The liveness run has three instances because the fault may cost one of them.
* *Faults.* `FaultsBounded` and `MaxFaults` bound failed operations, failed calls,
  timeouts, lost answers, repairs and restarts together. The multishare safety run does not
  bound them at all. Two are enough in the single-share and reconciler runs for the longest scenarios of
  the hazards: a handler that times out while its operation runs, and a lost answer or a
  restart after it; a write that fails between two that belong together, and a crash before the next round. One remains in the liveness runs, where the graph must stay small.
* *Sizes.* `StepSize = MinCap = 2`, `MaxCap = 4`, shares of 1 expanded to 3: an
  instance needs to grow for the expansion, can shrink when its neighbour goes, and reaches the maximum.
  Alignment matters, as the mutant that rounds down shows. In the reconciler's safety run the shares have
  1 and 2, the latter is expanded to 3, and `MaxCap = 6`: the instance is resized up for the new volume and for its
  expansion, and down when the older one goes.
* *Shares per instance.* `MaxShares = 2`, so that two volumes meet on one instance, and a volume with its second share fills one.
* *Older volumes.* `Migrated` says which shares exist before the reconciler has run for the first time, so that
  the objects that describe them are made from the cloud, without an instance pool.
* *Kept volumes* are never given up (`Kept = {v2}` in `reconciler_safety`): one volume goes through its end and one through its
  growth. `ControllerLags = {v1}`: the stateful controller's view of the volume that is deleted is arbitrarily old, and that of the other
  fresh. The liveness run has neither restriction, but no lag.
* *Machines.* Two under one name: a machine, and one that replaces it, with a Node that may still name the first, be absent or name
  none while either is up (`MCLapses`). The fault is the lapse, or a failed call, a conflict, a change of leader, a broken watch.
  `Places` lets the second volume be used on the second machine only. That a later machine has the address of an earlier one
  is not exercised by the run; the theorems cover it, and any number of machines, names, lapses and faults.
* *Addresses.* Eight addresses have every alignment of blocks of two and four, and a
  network at the end of the address space. In the single-share runs the network has two ranges for two
  volumes: enough for both, if none is lost.
* *Symmetry* is used on workers, and on instances in multishare runs, only where no liveness
  property is checked (the refinements are step properties); no definition compares or orders either, and the one `CHOOSE` over
  operations picks from a set of at most one (operations on one share are exclusive).
* The single-share runs set `SizesOnlyGrow`: Kubernetes does not let a claim's size go
  down once accepted. CSI does not promise it, and a failed expansion may be asked for with a smaller
  size (`RecoverVolumeExpansionFailure`): section 6 says what happens then.
* *Deadlock* is checked in every run but the two of `LockRelease`, where all machines may be gone and the new version of the
  controller has nothing left to wait for.

### Fairness

Safety needs none. The liveness runs assume: a goroutine that can take a step takes it
(strong fairness per worker in the multishare controller, because the mutex is free only now and then and
`sync.Mutex` does not starve a waiter; weak fairness is enough for the single-share handlers, which
are never blocked once started); running operations end (the service's promise that polling relies
on); a repair ends; and the sidecars repeat a refused request (strong fairness, because the
volume lock refuses it now and then). No fairness is given to anything that fails,
restarts, releases a volume or expands one. Faults are bounded in these runs: under faults for ever nothing need
happen.

`reconciler_live` and `reconciler_lost` assume that rounds go on (the worker is started every minute by `wait.Until`; stated as
"the round's state changes again and again", since every phase has a step that is always possible), that informers
catch up, operations and repairs end, and requests are repeated. `lock_release` assumes that the loop of version 1 runs every
`SyncPeriod`, that events are delivered, and that each of the workers works; nothing of the kubelet, of pods or of
machines.

`WantedGetsBound` of the single-share run has an exception in its conclusion: a creation that failed and left
an instance in state ERROR blocks the repetitions of `CreateVolume` (`controller.go:309`) until somebody removes
the instance. This is what the code does by design; the property says that nothing *else* blocks a volume.
The one of the reconciler has two: an instance whose creation failed or that the user has deleted keeps its shares
(`OnBrokenInstance`), and a creation that was lost after it was listed (`CreationLost`, finding 3).
The one of `multishare_live` has one: a lost creation left its share on an instance that still has room, so that a repetition may choose
the same instance again and is refused there, because the name is taken (`RefusedForItsOwn`, finding 1).
`ReplacedNodesLocksReleased` excepts the keys that an update event says nothing about, because neither its old nor its new Node names their
machine and `handleUpdateEvent` asks for a match with the old one (`releaselock/controller.go:525`): a relist showed the successor as
the update of another machine, or the old Node named none. It also asks for a Node that names the new machine as it should. It says nothing
of a node name that is never used again: version 2 has no handler for deletions, and its locks stay until version 1 leads.

### Mutants

Every property of a passing run has a mutant in `PROJECT.json`: a variant of one definition of the code
(an unlocked listing, a dropped check, an alignment that rounds down, a forgotten release) under
which TLC finds the property violated. The variants are the operators with a comment that starts with
"Variant:", each right before the definition it replaces; no specification uses them.

## 4. Proofs

`tlapm` checks every step; the proofs take about half an hour. They hold for any finite set of
volumes, any sets of instances, workers, snapshots and nodes, any sizes and limits that satisfy the
assumptions below, and any number of faults.

| Module | Theorem | Statement |
|---|---|---|
| `MultishareProofs` | `DisciplineSafe` | `DisciplineSpec => [](ExclusiveOps /\ NoShareOnDyingInstance)` |
| | `TypeCorrect` | `Spec => []TypeOK` |
| | `KeepsDiscipline` | `Spec => DisciplineSpec`: the controller implements the abstract specification |
| | `OpsExclusive`, `DyingInstanceEmpty` | `Spec => []ExclusiveOps`, `Spec => []NoShareOnDyingInstance` |
| | `VolumeInvariance` | `Spec => []VolumeInv`: what handlers have learnt and volumes were told is right |
| | `ControllerImplementsLifecycle` | `Spec => ImplementsLifecycle`: the contract of every volume |
| | `ShrinkSafe` | `Spec => ShrinkKeepsShares` |
| | `DuplicatesCounted` | `Spec => []DuplicatesCostFaults`, if `FaultsBounded`: a second share only after a fault, and one for each at most |
| | `LeakInvariance` | `Spec => []LeakInv`, if `FaultsBounded`: every instance has a volume or a handler that looks after it, and every share is accounted for |
| | `NoInstanceLeaked` | `Spec => []NoLeakedInstance`, if `FaultsBounded` |
| `IPReservationProofs` | `PendingRangesDisjoint` | `ReservationSpec => []PendingDisjoint` |
| | `AnswersUnreserved`, `RefusedWhenFull` | the same of `AnswerIsUnreserved` and `RefusedOnlyWhenFull`: the search against the set of addresses |
| `SingleShareProofs` | `SingleShareTypeCorrect` | `Spec => []TypeOK` |
| | `RangesStayHeld`, `SnapshotsAsTold` | `Spec => []RangesHeld`, `Spec => []SnapshotAsTold` |
| | `SingleVolumesInvariance` | `Spec => []VolumesInv` |
| | `SingleShareImplementsLifecycle` | `Spec => ImplementsLifecycle`, if `SizesOnlyGrow` |
| `LockReleaseProofs` | `LockReleaseTypeCorrect`, `LockInvariance` | `Spec => []TypeOK`, `Spec => []LockInv` |
| | `LocksStayRecorded` | `Spec => []LocksRecorded`, which excepts doubted machines |
| | `LiveLocksStay` | `Spec => LiveLocksKept`, which excepts doubted machines and a vanished machine's address |
| `ReconcilerProofs` | `ReconcilerTypeCorrect`, `PlacesInvariance` | `Spec => []TypeOK`, `Spec => []PlacesInv` |
| | `SharesAtTheirHandles` | `Spec => []ShareAtItsHandle` |
| | `SharesStayPut` | `Spec => ShareStaysPut` |
| | `LinksInvariance` | `Spec => []LinksInv`, if `~CacheLags`: InstanceInfos list what is on, runs on or points to their instances |
| | `InstancesDeletedWhenEmpty` | `Spec => []DeletedWhenEmpty`, if `~CacheLags` |
| `ReconcilerLifeProofs` | `LifeInvariance` | `Spec => []LifeInv`, if `~CacheLags` and `~ManualDeletes`: no copy of a ShareInfo asks for what is gone, or for less than was promised |
| | `ReconcilerImplementsLifecycle` | `Spec => ImplementsLifecycle`, if `~CacheLags` and `~ManualDeletes` |
| | `ShrinksDecidedWithKnownRoom` | `Spec => ShrinkDecidedWithKnownRoom`, if `~CacheLags` and `~ManualDeletes` |
| `SizesTheorems` | `SumType` | the sum over a finite function into the naturals is a natural number |
| | `SumMonotone` (lemma) | the sum of a function that is nowhere larger is not larger |

All assumptions are on constants, and TLC evaluates each of them on the runs of the modules that declare it:

* `FilestoreAssumption`, `SingleShareFilestoreAssumption`: the "none" values are not instances, volumes or snapshots; there are
  finitely many volumes. `OpsManagerAssumption`, `ControllerAssumption`, `SingleShareAssumption`, `NodeAssumption`,
  `InfoAssumption`, `ReconcilerAssumption`: the types of limits, sizes and bounds, and at least one share per instance. The last two
  also say `MinCap <= MaxCap`, and that an instance made before the reconciler is no larger than the maximum, which was its limit too.
* `SizesAssumption`: `MinCap <= MaxCap`, and `MaxCap` is a multiple of the step
  (`multishare_defs.go:27`: 1 TiB to 10 TiB in steps of 256 GiB). `ShrinkSafe` needs it: an instance is resized to an aligned sum of its
  shares, which must not exceed the maximum the sum was compared with.
* `ReservationAssumption`: a network that is not smaller than a block is a multiple of it. Both are powers of
  two in the code. `RefusedWhenFull` needs it for the last block of the network.
* `IPAllocatorAssumption`: a range is not one of the names used for "none" and "reserved by name".

Some theorems have a hypothesis that a constant selects, and without it the statement is false of the code:

* `DuplicatesCounted`, `LeakInvariance` and `NoInstanceLeaked` need `FaultsBounded`, because only then are faults counted: a volume has no more
  shares than one and the faults, and what is excepted from the promise that no instance is left is excepted after a fault only.
  `MaxFaults` is any number, so they are about every history with finitely many faults, and a safety property is
  violated after finitely many steps;
* `SingleShareImplementsLifecycle` needs `SizesOnlyGrow` (section 6: with sizes that go down an expansion may shrink);
* the theorems about links and life cycle of the reconciler need `~CacheLags`: the reconciler's informers have caught up when a round lists the
  shares; while it reads objects they stay behind as long as they like. The code does not guarantee it: it waits for the informers
  once, when it starts (`reconciler.go:97`), and then starts a round a minute (`:104`), so this is an assumption on the API server. With caches
  that lag by a round an instance is deleted under a share (section 6, `reconciler.go:718`). The stateful controller's
  cache lags in all of them;
* the life cycle also needs `~ManualDeletes`: a user who deletes an instance, which the code considers (`reconciler.go:337`, `653`), deletes the
  shares that were handed out with it.
  `ShrinksDecidedWithKnownRoom` rests on the life cycle's invariant, and has its hypotheses.

The other theorems have none.

### Multishare: discipline

1. *The discipline is safe.* `ExclusiveOps` is not inductive alone: an operation is refused by the state of its resource, so the
   invariant also says that each running operation shows on its resource (`OpsShow`), and that shares live only on usable
   instances (`SharesOnUsableInstances`). An instance deletion needs the instance READY and without shares, and puts it in
   DELETING; from then on no share creation is accepted there. `DisciplineInv` is the conjunction; `InvInit`, `InvStep`
   and `InvIsSafe` are the three facts.
2. *The controller keeps the discipline.* `ControllerInv` is `DisciplineInv /\ DriverInv`. The heart is
   `SnapOK`: while the mutex is held, every running operation is in the holder's snapshot. Operations are
   only started by the holder, so after the listing they only become fewer. `MutexOK` makes every
   worker in a critical step the holder. With both, the verification on the old list (`NoConflict`) implies that nothing
   conflicting runs *now*, which is what `StartInTurn` asks for. `RequestOK` and `PVOK` carry what
   a handler knows at each stage (its volume, its instance, that an expansion grows), which typing the operations
   needs: `ExpandSize - shareCap` is a natural only because the stage is reached after the comparison.
   `CloudTypeOK` needs that a sum of share sizes is a natural, which is `SumType`: the sum of the
   community modules is a fold over a recursive function, and `SizesTheorems` shows first that this function exists.

One step lemma per action: the "Sound" lemmas state that an action preserves `ControllerInv` and is a step or a
stutter of the discipline, and `ControllerStep` combines them.

### Multishare: life cycle

`VolumeInv` is `ControllerInv` and three groups of conjuncts. `VolumesInv` relates a volume's requests in flight to its operations:

* `LocksOK`: every request in flight holds its volume's lock, and no two have the same key;
* `WorkOK`: what a handler asks for fits what the orchestrator knows (a creation is of a volume that is wanted, a deletion of one that was
  released, on the instance its id names), and a deletion that has got past the share leaves none behind;
* `VolumeOK`: a bound volume's share is READY and at least as large as was told, a deleted one's is gone, and no
  share is smaller than its volume was asked for;
* `ExpansionOK`: an expansion that runs makes the share at least as large as anybody was told. It survives the handler that
  started it, and it is this conjunct that makes a late one harmless.

`CapsOK` keeps instances and resizes within `MaxCap`, and is inductive together with `ShrinkKeepsShares`: an instance shrinks only to the
aligned sum of its shares, and by the discipline no operation on a share runs or starts until the resize is over. `NamesOK` says that a share is on
an instance of its storage class, and that a creation that has passed its check for a running one is alone with its volume: until
it has started an operation on the share itself, nobody runs one, and then only on its instance. It is what is left of
the uniqueness of names when the share of an earlier creation is not recognised (finding 1).

Each action of the driver is a step of `VolumeLifecycle` for the volume it serves and a stutter for all others; a step of the service
may be about all shares of an instance, which is why a `VolumeLifecycle` step is about a set of volumes.

### Multishare: no leaked instance

`NoLeakedInstance` speaks of the moment when all is over; `LeakInv` says of every earlier one who looks after each instance (`LookedAfter`):

* a volume keeps it (`Keeps`): one that is to be created and has its share there, a bound one, or a released one, whose deletion gives the
  instance up, unless that deletion has just found other shares there and waits for the instance to shrink; or, after a fault, a volume
  that the orchestrator knows by its share on another instance, and of which this one has a second that nobody will delete (`Stray`);
* or the orchestrator does not know it: no volume was ever told of it. Until something fails a creation has it in its hands (`Creates`); after a
  fault it may be the one that the property excepts;
* or it is dead: never made, deleted, or its creation failed.

`NoLeakedInstance` follows, as deleted volumes keep nothing and idle handlers create nothing (`LookedAfterIsEnough`). `PlaceOK` and `PollOK` relate
the volumes, shares and handlers to the instance they are about. `FaultlessOK` is what holds until the first fault: an operation on an instance that nobody
knows has a handler that waits for it, so a second creation that is refused its share there because of that operation leaves the instance to the first
(`RefusedShare`). Each lemma of this part is about a kind of step: a handler goes on or gives up (`MoveLooksAfter`, `ErrorLooksAfter`), starts an operation
(`StartLooksAfter`), an operation ends (`OpEndLooksAfter`), a fault counts (`FaultLooksAfter`), a volume is told (`AnswerLooksAfter`). The steps that
hand an instance on are the hard ones. A deletion that finds the instance idle and with a share leaves it to the volume of that share, which is READY (`OtherKeeps`,
`ReadyShareKeeps`); one that finds the instance busy returns an error, and the volume, still released, keeps the instance for the deletion that
is repeated. A creation whose share is READY leaves the instance to its volume. When the volume is told of its instance, its shares on others become
strays (`AnswerLooksAfter`).

That there are strays only after a fault is `CountInv`: the shares of a volume are no more than the faults and one, and no more than the
faults while none is the one that the volume is known by or that a creation in flight has made (`Accounted`). A creation that starts a
second share so needs a fault that took the first one out of a handler's hands. `CountInv` is a conjunct of `LeakInv`, and
`DuplicatesCounted` follows from it.

### IP allocator

The candidates of the search are the multiples of the block size inside the network, so two of them are equal or
disjoint (`IPAllocatorTheorems`), and an overlap test of two ranges is a statement about their sets of addresses. `AnswersUnreserved` and
`RefusedWhenFull` are the two directions: what is returned is free, and every free block is a candidate.

### Single-share

The properties hold although operations outlive the locks, so the invariant is about operations first:

* step shapes (`Returns`, `Moves`, `Starts`, `Begins`, `Ends`, `ProcessEnds`): what the steps of all
  handlers have in common. Each conjunct is proved for a shape, and each action is shown to have one;
* `SingleInv`: `LocksOK` (a lock per volume and worker), `RequestOK` (a handler's data at each stage, with the range it holds),
  `OpShows` (each running operation shows in the state of its instance or backup, so two creations of one cannot run),
  `HandlerKnows` (what has been seen and is still true: only the holder of the lock starts operations on a volume, the rest of
  the world only finishes them) and `VolumeAsTold`;
* `SizesInv`, if `SizesOnlyGrow`: at most one resize per volume runs, it makes the instance larger, and the handler that
  expands it asks for the largest size of all. `VolumesInv` is the conjunction of the two.

`RangesHeld` is about the allocator: the range in a creation's hands is pending until `Return`. `SnapshotAsTold` is about two deletions that
may overlap, where the second may end the process.

### Lock release

`LockInv` relates machines, Node objects, mounts, ConfigMaps and what the controller works on. `KeysOfMachines`: every lock and key stands for
a machine that has started. `NodesOK`: a Node names no machine that is yet to come, and the one that is up unless that is doubted.
`MountsOK`: what is staged is in use on a machine that is up and is recorded (or the machine is doubted), also while a call still
relies on a copy in which it read so; only what is bound is locked. An accepted write was made from the current ConfigMap,
so what was decided from the copy holds of the object. `LeaderOK`: whatever Node the informer, a queued update event or a listing has that is not
the current one has been superseded, so a machine it names has vanished or is doubted (`Superseded`); keys to be released are of such machines (create
events are checked first), and nobody locks what has been released of a vanished one.

Two exceptions are the code's, and every statement that depends on them names them. A machine whose Node did not name it at some moment while it was up
is `doubted` from then on: its key matches nothing, and its locks are released and its keys removed while it uses them. And a release takes the locks
of an address, which is why `LiveLocksKept` excepts the machine that has a vanished one's address.

### Reconciler

A volume never has two shares, and no ShareInfo moves, although every decision of a round is made from copies that may be
old. `Places(v)` collects everything that names an instance for a volume: the ShareInfo, both caches of it, the round's
copy, the shares that are there, the shares the round has listed, the operations that run, and the instance of the volume
id that was answered. `PlaceOK(v)` says that

* all of them name the same instance, and
* while the volume may still be assigned to any instance (`Unplaced`: the API server's ShareInfo names none, or there is
  none and no answer was given), there is no such name at all.

The second part makes the first inductive. The step that matters is an assignment: it starts from a copy without an instance, and is accepted
only if the copy is the API server's current object, so at that moment the volume is `Unplaced` and nothing else can name
another instance. A conflict loses the write, and the copy is not used further. The other way for an instance to be named is a listing, and what
was listed is in `Places` since. `WorkFits` ties the copies to the phase: what is assigned has no instance in its copy, what is
requested has one.

A step either leaves a volume where it is (`StaysPut`: every name afterwards was a name before) or assigns it (`Assigned`); `PlaceStays`
and `PlaceFound` show that both preserve `PlaceOK`, and each action of the round, of the requests, of the service and of the user is shown to be
one of the two for every volume (`RoundGoesOn` for the steps of a round that point nothing anywhere). The phases are walked through
by operators that skip the empty ones; `Follows` is what such a walk keeps of the round's copies.

`SharesStayPut` follows with one lemma per action (`NotMoved`): the new pointer is the old one, a name that was there already, or that of
a volume that was `Unplaced`. None of this needs the caches to keep up or the user to keep off: `PlacesInvariance` and what follows from it
hold for both values of `CacheLags` and `ManualDeletes`. The `InstanceInfo`s are not part of the argument; they may list a share on
several instances until `FixTwoWayPointers` has come round.

### Reconciler: links

`DeletedWhenEmpty` is about the other half of the objects. The deletion of an InstanceInfo is decided because a copy of it lists no
share, so the invariant says what a copy lists, on top of `PlacesInv` (which gives the instance that pointers agree on):

* `CachesInStep`: between the rounds, and up to the first write of one, the informers have the objects as they are;
* `LinkFor`: the InstanceInfo that a copy of a ShareInfo points to lists the share and is not being deleted. A ShareInfo that was made for
  a share found in the cloud may point to an instance that has no InstanceInfo yet, and that is the only case;
* `InstanceLinks`: an InstanceInfo lists the shares that are on its instance, and an instance is DELETING only with its InstanceInfo;
* `ListingLinks`, `RoundLinks`: the same for what a round has listed and for its copies, phase by phase. In the phases that read objects, a copy
  of an InstanceInfo is the object; while requests are sent it only has to be there, and not to be given up before the object is. A share that
  the round has not listed is one it has asked for itself (`ToBeSent`);
* `DeletionMarks`: no copy of a ShareInfo says that it is being deleted before it is, so a share is taken off an InstanceInfo for a
  reason that lasts;
* `OpLinks`: every operation shows in the state of its resource, and one that was running when the round listed them is in the
  round's `targets`. A creation of a share that outlives the round that asked for it is found by the next one, and the instance
  is not given up under it.

The steps are shown by shape, like those of `PlacesInv`: what a step does to an instance's objects, and to the copies. The two that need
an argument of their own are the deletion of an InstanceInfo (its copy is the object, so no copy points to the instance and nothing is on
it) and the start of a share's creation (its copy points to the instance, so the InstanceInfo lists it, and is not being deleted).

### Reconciler: life cycle

`LifeInv` speaks of one volume at a time (`LifeOK`), which is why a step that does not touch a volume, its shares or its operations
keeps it (`CloudRests`, `Like`).

* `CopyOK`: every copy of a ShareInfo that a round may act on asks for at least what the share has and what the operations that run will make of it,
  and for at most what the object asks for. An old copy so can only ask for what was promised before, and a share is never shrunk;
* `CapsOK`, `ListingOK`: the sizes this rests on, in the cloud and in the listing of a round;
* `GoneOK` (`NotAskedFor`): a share that is known to be gone is not asked for again by any round that is on its way. It is the conjunct
  against resurrection: a round that has listed no share must not have a copy that still wants one;
* `ServedOK`: what was handed out is there, READY, and as large as was told, until its deletion is asked for, and the deletion of a
  ShareInfo is only answered when the controller's cache has seen it go.

`BackedOK` is what the refinement mapping makes of it: a handed-out volume is `usable`, a deleted one `none`. `LifecycleStep` shows that every step is
one of `VolumeLifecycle` for the volumes it changes (`PVMoves` for requests, the steps of the cloud for partial and usable) and a stutter
for the others. `Home(v)` is a `CHOOSE` over the instances that have a share of the volume, of which `PlacesInv` leaves at most one.

`ShrinksDecidedWithKnownRoom` compares two sums. The new size of an instance is computed from what the informer's ShareInfos ask for, over the
shares that the round's copy of the InstanceInfo lists; the room it must leave is the sum of the shares that are there when the write lands. The shares
that are there are listed (`InstanceLinks`), and none is larger than its copy in the informer asks for (`CopyOK`, `CapsOK`), so the second sum is not larger
than the first (`SumMonotone`). What remains is the cap at the maximum, which cuts the first sum off: `SizesInv` says that no size is beyond the maximum, in any
object, copy, instance or operation, so a size that was cut off is not lower than the one before, and the step is no shrink (`NewCapacityHasRoom`).

### Model-checked first, and only model-checked

Every invariant was checked by TLC before it was proved, and the ones at the heart of the proofs still are: `VolumeInv`,
`VolumesInv`, `LockInv`, `PlacesInv` and `LifeInv` are properties of the safety runs, `LinksInv` of `reconciler_live` and `LeakInv` of `multishare_live`.

Only liveness is model-checked and not proved (`WantedGetsBound`, `ReleasedGetsDeleted`, `InstancesReclaimed`, `ReplacedNodesLocksReleased`): it depends on
ENABLED and on fairness, out of reach of these provers.

## 5. What is not modelled, and why

* Multishare `CreateSnapshot`: the same steps as the single-share one on shares of an instance.
* Restore from a snapshot, resource tags, capability queries, listing: requests without further state;
  a failure of theirs is one of the failures `HandlerFails` allows at any stage.
* Parsing and validation of parameters, topology, labels, volume ids, export options; regions and zones.
  All volumes of a run have one storage class; `Protocol` stands for what `isMatchedInstance` compares.
* The reservation of an IP range for a new multishare instance: the same allocator and the same code
  path as in `controller.go`. The ranges of such instances are `MultishareRanges`.
* A request that reaches the service after the handler that sent it has given up. An operation is started in
  the same step in which its handler decides, or not at all.
* What the multishare answers contain beyond volume, instance and size.
* In the reconciler: IP ranges of new instances, regions, labels and the matching of storage classes, `Status.Error`, leader election
  (a lost lease is `RoundEnds`), and two reconcilers at once.
* Node server: mount options, ownership, volume statistics, NFSv4.1 and volumes without lock release (they record
  nothing), the Windows mounter. Filestore's lock RPC is one step that takes every lock of an address.
* Everything without state (set-up, identity, webhook, metrics, generated code).

## 6. Findings

Each is the counterexample of one violation run.

1. `multishare_duplicate` - `multishare_ops_manager.go:97` compares the protocol of a listed share's
   parent with the instance's, but `ListShares` (`file.go:1241`) fills in only the parent's name. The existing
   share is never recognised, and a repeated `CreateVolume` makes a second one, on another instance. The first is then known to nobody and
   keeps its instance after every volume is deleted (`Stray`). If the first one's instance still has room, the repetition may choose it again and
   Filestore refuses the share, whose name is taken, each time it does: `WantedGetsBound` excepts this (`RefusedForItsOwn`). The fake service
   keeps complete parents, so unit tests see neither.
2. `single_range` - the instances are listed before the allocator's mutex is taken; a range used and released
   in between is handed out again.
3. `reconciler_lost` - a share that a round has listed as CREATING has its full size in the ShareInfo's status. If its creation then
   fails, the sizes agree, and the reconciler never asks for the share again (`reconciler.go:238`).
4. `node_publish` - after a failed bind mount, `NodePublishVolume` cleans up the staging path instead of the
   target path (`node.go:175`).

Read from the code while modelling, and shown by no run:

* `multishare_ops_manager.go:210`: the number of shares is checked when an instance is picked, not after the wait for its creation or
  expansion; three volumes on instances of two exceed the limit.
* `multishare_controller.go:353`: the answer to a creation that also made its instance is built from the object of the
  request, which has no IP address.
* `cloud_provider/file/file.go:656`: a refused `DeleteBackup` formats a field of a nil operation, which ends the driver with every
  request in flight (`DeleteBackupPanics`); the properties hold in spite of it.
* `controller.go:930`: the size compared in `ControllerExpandVolume` is older than the check for running updates, so with
  `SizesOnlyGrow = FALSE` an expansion may shrink.
* `multishare_ops_manager.go:402`: a creation that is given up after its instance was made, and repeated when another instance has room, leaves
  an empty instance that only a later creation can use. `NoLeakedInstance` excepts it.
* `reconciler.go:983`: `instanceInfoNewCapacity` passes over the ShareInfos its informer does not have. The round that makes the ShareInfos
  of older shares also computes the sizes of their instances, and so lowers the size of one to the minimum although its shares are larger.
  This is why `ShrinkDecidedWithKnownRoom` speaks of the shares the informer knows; with an older share of 3 on an instance of 4, and
  without that restriction, TLC finds it violated in the first round.
* `reconciler.go:654`: the loop warns that it skips an instance that is gone, and goes on to assign the share to it.
* `reconciler.go:718`: the deletion of an empty InstanceInfo names no resource version. With `CacheLags = TRUE`, a round that starts from a
  cache older than the last assignment deletes the InstanceInfo that was just given a share (`DeletedWhenEmpty` fails).
* `releaselock/controller.go:327` and `:550`: a Node without the `instance_id` annotation matches no key, and neither does one that is missing from
  version 1's list (`:321`), so the locks of a live machine are released and its keys removed. A test expects the first (`controller_test.go:80`,
  "node missing instance id annotation"); a Node without any annotations is an error instead, and keeps them (`controller_test.go:65`).
  `LiveLocksKept` and `LocksRecorded` except the machines concerned (`Doubted`).
* `util/ip_reservation.go:100`: one instance of the network whose reserved range is a name and not a CIDR makes every reservation there fail;
  `RefusedOnlyWhenFull` excepts it.
* `releaselock/controller.go:111`: `ReleaseLock` knows machines by their address; one that has the address of a vanished machine loses its
  locks with it. `LiveLocksKept` excepts it.

## 7. Plan

Done: the multishare controller with its discipline, the IP allocator, the single-share controller, the
stateful controller with its reconciler, the node server with the lock release controller, and the life cycle of a volume with
three refinements, each of them proved. Proved: every safety property of the passing runs; section 4 names the hypotheses.

What could follow:

1. **Restore and snapshots of shares**, as variants of the creation that already exists.
2. **IP ranges of multishare instances**: `IPAllocator` composed with the reconciler, for the release at the end of a round (`reconciler.go:371`).
