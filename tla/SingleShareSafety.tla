------------------------- MODULE SingleShareSafety -------------------------
(***************************************************************************)
(* What the single-share controller promises: safety and liveness          *)
(* properties of SingleShareController, and the fairness they assume.      *)
(***************************************************************************)
EXTENDS SingleShareController

\* The handlers that have reserved a range and not returned.
Reserving == {w \in Workers : work[w].range # NoRange}

\* From its reservation until its handler returns, a range is held: no other
\* creation in flight is given an address of it (controller.go:328-331).
RangesHeld ==
  /\ \A w \in Reserving : work[w].range \in pendingIPRanges
  /\ \A u, w \in Reserving :
       u = w \/ AddressesOf(work[u].range) \cap AddressesOf(work[w].range) = {}

\* The contract of every volume, by the instance of its name; one whose performance
\* was changed is usable only with that performance.
Lifecycle == INSTANCE VolumeLifecycle WITH
  phase <- [v \in Vols |-> pv[v].phase],
  told <- [v \in Vols |-> pv[v].cap],
  state <- [v \in Vols |-> CASE filer[v].state = "ABSENT" -> "none"
                             [] filer[v].state = "READY" /\ (pv[v].tuned => filer[v].tuned) -> "usable"
                             [] OTHER -> "partial"],
  capacity <- [v \in Vols |-> filer[v].cap]

\* A volume the orchestrator was told about exists, ready, as large and as fast as it
\* was told, until the orchestrator asks for its deletion, and once DeleteVolume has
\* answered its instance is gone and stays gone: no retry, late operation, restart or
\* other request changes that.
ImplementsLifecycle == Lifecycle!Spec

\* A snapshot said to be ready to use is, even when its volume is deleted, until
\* its deletion is asked for; one said to be deleted is gone.
SnapshotAsTold ==
  \A s \in Snaps : /\ content[s] = "bound" => backup[s] = "READY"
                   /\ content[s] = "deleted" => backup[s] = "ABSENT"

\* "GetUnreservedIPRange returns an unreserved IP block" (ip_reservation.go:68):
\* no instance is asked for on a range of another one.
NoSharedRange ==
  \A u, v \in Vols :
    u # v /\ filer[u].range # NoRange /\ filer[v].range # NoRange
    => AddressesOf(filer[u].range) \cap AddressesOf(filer[v].range) = {}

-----------------------------------------------------------------------------
(* What makes these properties inductive. *)

\* A volume lock is held by one handler.
LocksOK ==
  /\ \A w \in Workers : Locking(work[w].pc) => work[w].vol \in volumeLocks
  /\ \A u, w \in Workers :
       u # w /\ Locking(work[u].pc) /\ Locking(work[w].pc) => work[u].vol # work[w].vol

\* What a handler is about, and the operation it waits for.
RequestOK(r) ==
  /\ r.pc # "idle" => r.vol \in Vols
  /\ r.pc \in SnapshotPcs \cup UnsnapshotPcs => r.snap \in Snaps /\ r.vol = SourceOf[r.snap]
  /\ r.pc = "create.wait" => r.op = InstanceOp("create", r.vol, 0)
  /\ r.pc = "modify.wait" => r.op = InstanceOp("tune", r.vol, 0)
  /\ r.pc = "unsnapshot.wait" => r.op = BackupOp("deleteBackup", r.vol, r.snap)

\* An operation that runs shows on its resource, and is one the orchestrator still wants:
\* a handler that is gone leaves nothing behind that a later request would not ask for.
OpShows(o) ==
  /\ o.type = "create" => filer[o.vol].state = "CREATING" /\ pv[o.vol].phase = "wanted"
  /\ o.type = "delete" => filer[o.vol].state = "DELETING" /\ pv[o.vol].phase = "released"
  /\ o.type \in {"create", "delete"} => o.cap = 0
  /\ o.type \in UpdateOps => pv[o.vol].phase # "wanted"
  /\ o.type \in BackupOps => o.vol = SourceOf[o.snap]
  /\ o.type = "createBackup" => backup[o.snap] = "CREATING" /\ content[o.snap] = "wanted"
  /\ o.type = "deleteBackup" => backup[o.snap] = "DELETING" /\ content[o.snap] = "released"

\* What a handler knows of its volume or snapshot at each stage.
HandlerKnows(r) ==
  /\ r.pc \in CreatePcs => pv[r.vol].phase = "wanted"
  /\ r.pc = "create.read" \/ (r.pc = "create.wait" /\ r.result = "ok")
       => filer[r.vol].state = "READY"
  /\ r.pc \in DeletePcs => pv[r.vol].phase = "released"
  /\ r.pc \in ExpandPcs \cup ModifyPcs
       => pv[r.vol].phase \in {"bound", "released"} /\ filer[r.vol].state = "READY"
  /\ r.pc = "modify.wait" /\ r.result = "ok" => filer[r.vol].tuned
  /\ r.pc \in SnapshotPcs => content[r.snap] = "wanted"
  /\ r.pc \in UnsnapshotPcs => content[r.snap] \in {"released", "deleted"}
  /\ r.pc = "unsnapshot.wait" /\ r.result = "ok" => backup[r.snap] = "ABSENT"

\* A volume is what the orchestrator was told, but for its size.
VolumeAsTold(v) ==
  /\ pv[v].phase = "wanted" => ~pv[v].tuned
  /\ pv[v].phase = "bound" => filer[v].state = "READY" /\ (pv[v].tuned => filer[v].tuned)
  /\ pv[v].phase = "deleted" => filer[v].state = "ABSENT"

SingleInv ==
  /\ TypeOK /\ LocksOK /\ RangesHeld /\ SnapshotAsTold
  /\ \A w \in Workers : RequestOK(work[w]) /\ HandlerKnows(work[w])
  /\ \A o \in ops : OpShows(o)
  /\ \A v \in Vols : VolumeAsTold(v)

\* When sizes asked for only grow, a volume has at most one resize running, which makes it
\* larger, and the handler that expands it asks for the largest size of all.
ResizeOK(o) ==
  /\ filer[o.vol].cap <= o.cap /\ o.cap <= pv[o.vol].asked
  /\ \A p \in ops : p.type = "resize" /\ p.vol = o.vol => p = o

ExpansionOK(r) ==
  /\ r.pc \in ExpandPcs => r.size = pv[r.vol].asked
  /\ r.pc \in {"expand.ops", "expand.start"} => filer[r.vol].cap <= r.size
  /\ r.pc = "expand.start" => ~HasUpdateOps(r.vol)

SizesInv ==
  /\ \A v \in Vols : pv[v].phase = "bound" => pv[v].cap <= filer[v].cap
  /\ \A o \in ops : o.type = "resize" => ResizeOK(o)
  /\ \A w \in Workers : ExpansionOK(work[w])

VolumesInv == SingleInv /\ (SizesOnlyGrow => SizesInv)

-----------------------------------------------------------------------------
\* Fairness: goroutines go on, operations finish, and the sidecars repeat a
\* request for as long as it is refused.
Fairness ==
  /\ \A w \in Workers : WF_vars(HandlerStep(w))
  /\ \A v \in Vols : WF_vars(\E o \in ops : o.vol = v /\ OpDone(o))
  /\ \A v \in Vols : SF_vars(\E w \in Workers : CreateVolume(w, v) \/ DeleteVolume(w, v))
  /\ \A s \in Snaps : SF_vars(\E w \in Workers : CreateSnapshot(w, s) \/ DeleteSnapshot(w, s))
FairSpec == Spec /\ Fairness

\* A volume that is wanted is created in the end, unless its creation failed and
\* left an instance in state ERROR, which CreateVolume never repairs.
WantedGetsBound ==
  \A v \in Vols : pv[v].phase = "wanted" ~> pv[v].phase = "bound" \/ filer[v].state = "ERROR"

\* A volume, and a snapshot, that is released is deleted in the end.
ReleasedGetsDeleted ==
  /\ \A v \in Vols : pv[v].phase = "released" ~> pv[v].phase = "deleted"
  /\ \A s \in Snaps : content[s] = "released" ~> content[s] = "deleted"
=============================================================================
