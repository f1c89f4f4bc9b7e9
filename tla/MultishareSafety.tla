-------------------------- MODULE MultishareSafety --------------------------
(***************************************************************************)
(* What the multishare controller promises: safety, action and liveness    *)
(* properties of MultishareController, and the fairness they assume.       *)
(***************************************************************************)
EXTENDS MultishareController, OpsDiscipline

-----------------------------------------------------------------------------
(* The inductive strengthening of TypeOK: what a handler has learnt by the   *)
(* time it reaches a step, and what the mutex guards.                        *)

\* A request names its volume, and its instance from the step at which the
\* handler knows it; only a volume whose instance is known is deleted or
\* expanded; an expansion that gets to the mutex grows the share.
RequestOK ==
  \A w \in Workers : LET r == work[w] IN
    /\ r.pc # "idle" => r.vol \in Vols
    /\ r.pc \notin {"idle", "create.lock", "create.setup"} => r.inst \in Insts
    /\ r.pc \notin {"idle"} \cup CreatePcs => pv[r.vol].inst \in Insts
    /\ r.pc \in {"expand.lock", "expand.check"} => r.shareCap < ExpandSize[r.vol]

\* The orchestrator knows the instance of a volume it was told about.
PVOK == \A v \in Vols : pv[v].phase # "wanted" => pv[v].inst \in Insts

\* A worker in a critical step holds the mutex, and while it is held the list of
\* operations taken under it misses none that runs: they only become fewer.
MutexOK == \A w \in Workers : work[w].pc \in Critical => mutex = w
SnapOK == mutex # NoWorker => ops \subseteq snap

DriverInv == DriverTypeOK /\ RequestOK /\ PVOK /\ MutexOK /\ SnapOK
ControllerInv == DisciplineInv /\ DriverInv

-----------------------------------------------------------------------------
\* An instance resize that makes the instance smaller leaves room for every
\* share on it, for as long as the resize runs.
ShrinkKeepsShares ==
  \A o \in ops : o.type = "InstanceUpdate" /\ o.cap < instance[o.inst].cap
                 => o.cap >= SumShareBytes(o.inst)

\* The contract of every volume, by the share on the instance its id names.
ShareOf(v) == share[pv[v].inst][v]
ShareUsable(v) ==
  ShareOf(v).state = "READY" /\ instance[pv[v].inst].state \in {"READY", "REPAIRING"}

Lifecycle == INSTANCE VolumeLifecycle WITH
  phase <- [v \in Vols |-> pv[v].phase],
  told <- [v \in Vols |-> pv[v].cap],
  state <- [v \in Vols |-> CASE pv[v].inst = NoInst -> "none"
                             [] pv[v].inst # NoInst /\ ShareOf(v).state = "ABSENT" -> "none"
                             [] pv[v].inst # NoInst /\ ShareUsable(v) -> "usable"
                             [] OTHER -> "partial"],
  capacity <- [v \in Vols |-> IF pv[v].inst = NoInst THEN 0 ELSE ShareOf(v).cap]

\* A volume the orchestrator was told about exists, ready and as large as it was
\* told, until the orchestrator asks for its deletion, and once DeleteVolume has
\* answered its share is gone and stays gone: no retry, late operation, restart or
\* request for another volume changes that.
ImplementsLifecycle == Lifecycle!Spec

\* Share names are unique (multishare_ops_manager.go:639): CreateVolume, retried
\* after a timeout, a lost answer or a restart, never makes a second share.
UniqueShareName ==
  \A v \in Vols, i, j \in Insts : v \in SharesOf(i) /\ v \in SharesOf(j) => i = j

\* What holds in its place, since a retried CreateVolume does not recognise a share in
\* the list: a volume has a second share only after a fault, and no fault (a lost
\* answer, a time-out, a failed call or operation, a restart) costs it more than one.
\* In particular no two requests, and no request between its checks and its start of
\* an operation, make two shares of a volume on their own.
SharesNamed(v) == {i \in Insts : v \in SharesOf(i)}
DuplicatesCostFaults ==
  FaultsBounded => \A v \in Vols : Cardinality(SharesNamed(v)) <= faults + 1

\* A second share of a volume, on an instance that is not the one its id names: nobody
\* will ever delete it.
Stray(v, i) == pv[v].phase # "wanted" /\ pv[v].inst # i /\ share[i][v].state = "READY"

\* Once every volume is deleted and every request answered, no instance is left to be
\* paid for, but for one whose creation failed: whatever timed out, failed or
\* restarted, a repeated DeleteVolume looks after the instance of its volume
\* (multishare_controller.go:409).  After a fault there may be one that no volume is
\* known by, its creation having been given up, and one with a stray share.
NoLeakedInstance ==
  (\A v \in Vols : pv[v].phase = "deleted") /\ work = [w \in Workers |-> Idle] /\ ops = {}
    => \A i \in Insts :
         \/ instance[i].state \in {"UNUSED", "GONE", "ERROR"}
         \/ faults > 0 /\ ((\A v \in Vols : pv[v].inst # i) \/ \E v \in Vols : Stray(v, i))

-----------------------------------------------------------------------------
(* The inductive strengthening of these properties. *)

\* A request holds its volume lock, and no two have the same.
LocksOK ==
  /\ \A w \in Workers : work[w].pc # "idle" => LockKey(work[w]) \in volumeLocks
  /\ \A w, u \in Workers : w # u /\ work[w].pc # "idle" /\ work[u].pc # "idle"
                           => LockKey(work[w]) # LockKey(work[u])

\* What is asked for fits what the orchestrator knows; a deletion that has got past
\* the share leaves none behind.
ShareDeletes(r) == {o \in Op : o.type = "ShareDelete" /\ o.inst = r.inst /\ o.vol = r.vol}
GetsPastShare(r) ==
  \/ r.pc \in {"delete.relock", "delete.instance", "delete.instanceWait"}
  \/ r.pc \in {"delete.share", "delete.wait"} /\ r.result = "ok"
WorkOK(r) ==
  /\ r.pc \in CreatePcs => pv[r.vol].phase = "wanted"
  /\ r.pc \in DeletePcs => pv[r.vol].phase = "released" /\ pv[r.vol].inst = r.inst
  /\ r.pc \in ExpandPcs => /\ pv[r.vol].phase \in {"bound", "released"} /\ pv[r.vol].inst = r.inst
                           /\ pv[r.vol].cap <= ExpandSize[r.vol]
  /\ r.pc = "delete.share" => r.op \in ShareDeletes(r) \cup {NoOp}
  /\ r.pc = "delete.wait" => r.op \in ShareDeletes(r)
  /\ GetsPastShare(r) => share[r.inst][r.vol].state = "ABSENT"

\* What the orchestrator knows fits the share: its size, and that it is there or gone.
VolumeOK(v) ==
  /\ pv[v].phase # "wanted" => pv[v].cap >= ShareSize[v]
  /\ pv[v].phase = "bound" => ShareOf(v).state = "READY" /\ ShareOf(v).cap >= pv[v].cap
  /\ pv[v].phase = "deleted" => ShareOf(v).state = "ABSENT"
  /\ \A i \in Insts : share[i][v].state # "ABSENT" => share[i][v].cap >= ShareSize[v]

\* An expansion that runs makes the share at least as large as anybody was told; only
\* the share a volume is known by is expanded or deleted.
ChangeOK(o) ==
  /\ o.type = "ShareUpdate" => o.cap = ExpandSize[o.vol] /\ o.cap >= pv[o.vol].cap
  /\ o.type \in {"ShareUpdate", "ShareDelete"} =>
       pv[o.vol].phase # "wanted" /\ pv[o.vol].inst = o.inst

VolumesInv == /\ LocksOK
              /\ \A w \in Workers : WorkOK(work[w])
              /\ \A v \in Vols : VolumeOK(v)
              /\ \A o \in ops : ChangeOK(o)

\* Instances keep within the largest size.
CapsOK == /\ \A i \in Insts : instance[i].cap <= MaxCap
          /\ \A o \in ops : o.type = "InstanceUpdate" => o.cap <= MaxCap

\* The share of a volume is on an instance of its storage class.  A creation that is past
\* its check for a running one is the only one to run an operation on a share of its
\* volume, and until it has started that, nobody does.
CreatesPcs == {"create.wait", "create.relock", "create.share", "create.shareWait"}
PastCheck(r) == r.pc \in CreatesPcs \cup {"create.get"}
SetsUp(r) == \/ r.pc = "create.wait" /\ r.op.type # "ShareCreate"
             \/ r.pc \in {"create.relock", "create.share"}
SuitsOrGone(i, v) ==
  \/ instance[i].state = "GONE"
  \/ instance[i].state # "UNUSED" /\ instance[i].protocol = Protocol[v]
NamesOK ==
  /\ \A v \in Vols, i \in Insts : v \in SharesOf(i) => instance[i].protocol = Protocol[v]
  /\ \A w \in Workers : LET r == work[w] IN
       /\ SetsUp(r) => SuitsOrGone(r.inst, r.vol) /\ \A o \in ops : o.vol # r.vol
       /\ PastCheck(r) => \A o \in ops : o.vol = r.vol => o.inst = r.inst

VolumeInv == ControllerInv /\ VolumesInv /\ CapsOK /\ NamesOK

-----------------------------------------------------------------------------
(* The inductive strengthening of NoLeakedInstance: who looks after which       *)
(* instance.                                                                    *)

\* A volume lives on the instance, or will: a deletion of it gives the instance up, and
\* has not just found that another volume is there.
Shrinks(r) == r.pc = "delete.instanceWait" /\ r.op.type = "InstanceUpdate"
Keeps(v, i) ==
  \/ pv[v].phase = "wanted" /\ share[i][v].state = "READY"
  \/ pv[v].phase = "bound" /\ pv[v].inst = i
  \/ /\ pv[v].phase = "released" /\ pv[v].inst = i
     /\ \A w \in Workers : Shrinks(work[w]) => work[w].vol # v
  \/ faults # 0 /\ Stray(v, i)

\* A creation has an operation on the instance under way, or is to create its share there.
Prepares(r, i) == /\ r.inst = i
                  /\ r.pc = "create.relock" \/ (r.pc = "create.wait" /\ r.op.type \in InstanceOps)
Creates(r, i) == r.inst = i /\ r.pc \in CreatesPcs

\* The orchestrator knows the instance.
Named(i) == \E v \in Vols : pv[v].inst = i
Dead(i) == instance[i].state \in {"UNUSED", "GONE", "ERROR"}
LookedAfter(i) ==
  Dead(i) \/ (\E v \in Vols : Keeps(v, i))
          \/ (~Named(i) /\ (faults = 0 => \E w \in Workers : Creates(work[w], i)))

\* Instances that are known are there, and only they are given up; a share that changes
\* has an operation, and one that does not stray is on the instance its volume is known by.
PlaceOK(i) ==
  /\ \A v \in Vols : pv[v].phase = "wanted" => pv[v].inst # i
  /\ Named(i) => instance[i].state # "UNUSED"
  /\ instance[i].state = "DELETING" => Named(i)
  /\ \A v \in SharesOf(i) :
       /\ pv[v].phase # "wanted" => pv[v].inst = i \/ (faults # 0 /\ Stray(v, i))
       /\ share[i][v].state # "READY" => \E o \in ops : o.inst = i /\ o.vol = v

\* What a handler polls, and what is so when it was done; a creation goes on with an
\* instance that was created.
SeesInstance(r) ==
  \/ r.pc \in {"create.relock", "create.share"}
  \/ /\ r.pc = "create.wait"
     /\ r.op.type = "InstanceUpdate" \/ (r.op.type = "InstanceCreate" /\ r.result = "ok")
PollOK(r) ==
  /\ r.pc = "create.wait" =>
       \/ r.op.type \in {"InstanceCreate", "InstanceUpdate"} /\ r.op.inst = r.inst
       \/ r.op = OpOnShare("ShareCreate", r.inst, r.vol, ShareSize[r.vol])
  /\ r.pc = "create.shareWait" => r.op = OpOnShare("ShareCreate", r.inst, r.vol, ShareSize[r.vol])
  /\ r.pc = "delete.instanceWait" =>
       r.op.type \in {"InstanceDelete", "InstanceUpdate"} /\ r.op.inst = r.inst
  /\ r.pc \in {"create.wait", "create.shareWait"} /\ r.op.type = "ShareCreate" /\ r.result = "ok"
       => share[r.inst][r.vol].state = "READY"
  /\ r.pc = "create.get" => share[r.inst][r.vol].state = "READY"
  /\ SeesInstance(r) => instance[r.inst].state \notin {"UNUSED", "CREATING"}
  /\ r.pc = "delete.instanceWait" /\ r.op.type = "InstanceDelete" /\ r.result = "ok"
       => instance[r.inst].state = "GONE"

\* The handler waits for an operation that it started for a creation.
Polls(r, o) == r.pc = "create.wait" /\ r.op = o /\ r.result = "none"

\* Before the first fault nothing is refused or repaired, and whoever started an
\* operation on an instance that nobody knows yet waits for it, at least until the
\* mutex is free again.
FaultlessOK ==
  /\ \A i \in Insts : instance[i].state # "REPAIRING"
  /\ \A w \in Workers : work[w].result # "error"
  /\ \A o \in ops : o.vol = NoVol /\ ~Named(o.inst) =>
       \E w \in Workers : Polls(work[w], o)
  /\ \A w \in Workers : work[w].pc = "create.share" =>
       \A o \in snap : o.vol = NoVol /\ ~Named(o.inst) =>
         \E u \in Workers \ {w} : Prepares(work[u], o.inst)

\* A creation has made its share, as far as it knows.  The shares of a volume, less the
\* one that it is known by or that is being created, have each cost a fault.
HasShare(r) == \/ r.pc \in {"create.shareWait", "create.get"} /\ r.result # "error"
               \/ r.pc = "create.wait" /\ r.op.type = "ShareCreate" /\ r.result # "error"
Accounted(v) == \/ pv[v].phase # "wanted"
                \/ \E w \in Workers : HasShare(work[w]) /\ work[w].vol = v
CountOK(v) == /\ IsFiniteSet(SharesNamed(v)) /\ Cardinality(SharesNamed(v)) <= faults + 1
              /\ ~Accounted(v) => Cardinality(SharesNamed(v)) <= faults
CountInv == \A v \in Vols : CountOK(v)

\* A creation is not kept from creating its share by an operation on that share.
FreeToCreate(r) == r.pc = "create.share" => \A o \in snap : o.vol # r.vol

\* Every instance is dead, kept by a volume on it, or unknown to the orchestrator and, as
\* long as nothing has failed, in the hands of a creation: through every deletion that
\* finds the instance busy, in use or gone, and every creation that is refused its share
\* there (checkAndStartInstanceDeleteOrShrinkWorkflow, startShareCreateWorkflowSafe).
InstancesInv ==
  /\ \A i \in Insts : PlaceOK(i) /\ LookedAfter(i)
  /\ \A w \in Workers : PollOK(work[w]) /\ FreeToCreate(work[w])
  /\ faults = 0 => FaultlessOK

LeakInv == InstancesInv /\ CountInv

-----------------------------------------------------------------------------
\* Fairness: a goroutine that can go on does (strongly, for the mutex: sync.Mutex
\* does not starve a waiter), operations finish, a repair ends, and the sidecars
\* repeat a request for as long as it is refused.
Requested(v) == \E w \in Workers : \/ CreateVolume(w, v)
                                  \/ DeleteVolume(w, v)
                                  \/ ControllerExpandVolume(w, v)
Fairness ==
  /\ \A w \in Workers : SF_vars(HandlerStep(w))
  /\ \A v \in Vols \cup {NoVol} : WF_vars(\E o \in ops : o.vol = v /\ OpDone(o))
  /\ WF_vars(\E i \in Insts : InstanceRepaired(i))
  /\ \A v \in Vols : SF_vars(Requested(v))
FairSpec == Spec /\ Fairness

\* A creation made its share on an instance that still has room, and was lost: a
\* repeated CreateVolume may choose the instance again, where its share exists already.
RefusedForItsOwn(v) ==
  /\ pv[v].phase = "wanted" /\ ~Accounted(v)
  /\ \E i \in Insts : share[i][v].state = "READY" /\ Cardinality(SharesOf(i)) < MaxShares

\* Every volume that is wanted is created in the end, however often it is refused or a
\* request of it is lost, unless a lost request has left a share in its way.
WantedGetsBound ==
  \A v \in Vols : pv[v].phase = "wanted" ~> pv[v].phase = "bound" \/ RefusedForItsOwn(v)

\* Every volume that is released is deleted in the end.
ReleasedGetsDeleted == \A v \in Vols : pv[v].phase = "released" ~> pv[v].phase = "deleted"
=============================================================================
