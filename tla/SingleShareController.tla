----------------------- MODULE SingleShareController -----------------------
(***************************************************************************)
(* The single-share part of controllerServer (controller.go): CreateVolume *)
(* with its reservation of an IP range, DeleteVolume,                      *)
(* ControllerExpandVolume, ControllerModifyVolume, CreateSnapshot and      *)
(* DeleteSnapshot, served by concurrent goroutines ("workers") that share  *)
(* the volume locks and the IP allocator, wait for Filestore operations,   *)
(* and are all lost when the driver restarts or panics.                    *)
(*                                                                         *)
(* The container orchestrator is external: it repeats a request until it   *)
(* is answered with success.                                               *)
(***************************************************************************)
EXTENDS SingleShareFilestore

CONSTANTS Workers,         \* goroutines of the driver serving CSI requests
          Cidr,            \* the reserved-ipv4-cidr parameter: [ip, size]
          BlockSize,       \* the range size of the volumes' tier
          MultishareRanges,\* ranges of multishare instances in the network
          SourceOf,        \* [Snaps -> Vols]: the volume a snapshot is taken of
          BaseSize,        \* the size volumes are created with
          ExpandSizes,     \* [Vols -> the sizes the volume may be expanded to]
          Tunable,         \* the volumes whose tier has a performance to configure
          SizesOnlyGrow,   \* does the orchestrator never ask for less than before?
          MaxFaults        \* number of faults (a bound of the runs)

ASSUME SingleShareAssumption ==
  /\ BlockSize \in BlockSizes
  /\ MultishareRanges \subseteq Range \cup {NamedRange}
  /\ SourceOf \in [Snaps -> Vols]
  /\ BaseSize \in Nat /\ ExpandSizes \in [Vols -> SUBSET Nat] /\ Tunable \subseteq Vols
  /\ SizesOnlyGrow \in BOOLEAN /\ MaxFaults \in Nat

VARIABLES volumeLocks, \* util.VolumeLocks: the ids of volumes being worked on
          work,        \* [Workers -> the request a worker serves, and where it is]
          pv,          \* [Vols -> what the orchestrator wants and knows]
          content,     \* [Snaps -> the same for snapshots]
          faults

vars == <<cloudVars, pendingIPRanges, volumeLocks, work, pv, content, faults>>

-----------------------------------------------------------------------------
(* The state of a request. *)

NoOp == [type |-> "none", vol |-> NoVol, snap |-> NoSnap, cap |-> 0]

CreatePcs == {"create.get", "create.list", "create.reserve", "create.start",
              "create.wait", "create.read"}
DeletePcs == {"delete.get", "delete.start", "delete.wait", "delete.verify"}
ExpandPcs == {"expand.get", "expand.ops", "expand.start", "expand.wait", "expand.read"}
ModifyPcs == {"modify.get", "modify.start", "modify.wait"}
SnapshotPcs == {"snapshot.get", "snapshot.start", "snapshot.wait", "snapshot.read"}
UnsnapshotPcs == {"unsnapshot.get", "unsnapshot.start", "unsnapshot.wait"}
Pcs == {"idle"} \cup CreatePcs \cup DeletePcs \cup ExpandPcs \cup ModifyPcs
         \cup SnapshotPcs \cup UnsnapshotPcs

\* op is the operation waited for and result its outcome; seen are the ranges of
\* the cloud's instances when they were listed, range the one reserved; size is
\* the size asked for.
Request == [pc: Pcs, vol: Vols \cup {NoVol}, snap: Snaps \cup {NoSnap}, op: Op \cup {NoOp},
            result: {"none", "ok", "error"}, seen: SUBSET (Range \cup {NamedRange}),
            range: Range \cup {NoRange}, size: Nat]
Idle == [pc |-> "idle", vol |-> NoVol, snap |-> NoSnap, op |-> NoOp, result |-> "none",
         seen |-> {}, range |-> NoRange, size |-> 0]

Phases == {"wanted", "bound", "released", "deleted"}
\* asked is the size last asked for.
PVRec == [phase: Phases, cap: Nat, asked: Nat, tuned: BOOLEAN]

\* DeleteSnapshot takes no lock.
Locking(pc) == pc \notin {"idle"} \cup UnsnapshotPcs

Init ==
  /\ CloudInit
  /\ IPAllocatorInit
  /\ volumeLocks = {}
  /\ work = [w \in Workers |-> Idle]
  /\ pv = [v \in Vols |-> [phase |-> "wanted", cap |-> 0, asked |-> 0, tuned |-> FALSE]]
  /\ content = [s \in Snaps |-> "wanted"]
  /\ faults = 0

TypeOK ==
  /\ CloudTypeOK
  /\ IPAllocatorTypeOK
  /\ volumeLocks \in SUBSET Vols
  /\ work \in [Workers -> Request]
  /\ pv \in [Vols -> PVRec]
  /\ content \in [Snaps -> Phases]
  /\ faults \in Nat

-----------------------------------------------------------------------------
(* Steps shared by the handlers. *)

Fault == faults < MaxFaults /\ faults' = faults + 1

\* Variant: the deferred Release of the volume lock is forgotten.
ReturnKeepingLock(w) ==
  /\ work' = [work EXCEPT ![w] = Idle]
  /\ ReleaseIPRange(work[w].range)
  /\ UNCHANGED volumeLocks

\* The handler returns: deferred ReleaseIPRange and Release of the volume lock.
Return(w) ==
  /\ work' = [work EXCEPT ![w] = Idle]
  /\ ReleaseIPRange(work[w].range)
  /\ volumeLocks' = IF Locking(work[w].pc) THEN volumeLocks \ {work[w].vol} ELSE volumeLocks

ReturnError(w) == Return(w) /\ UNCHANGED <<cloudVars, pv, content, faults>>

\* A successful return; the answer may be lost on its way.
ReturnSuccess(w, newPV) ==
  /\ Return(w)
  /\ \/ pv' = [pv EXCEPT ![work[w].vol] = newPV] /\ UNCHANGED faults
     \/ Fault /\ UNCHANGED pv
  /\ UNCHANGED <<cloudVars, content>>

ReturnSnapshotSuccess(w, phase) ==
  /\ Return(w)
  /\ \/ content' = [content EXCEPT ![work[w].snap] = phase] /\ UNCHANGED faults
     \/ Fault /\ UNCHANGED content
  /\ UNCHANGED <<cloudVars, pv>>

GoOn(w, r) ==
  /\ work' = [work EXCEPT ![w] = r]
  /\ UNCHANGED <<cloudVars, pendingIPRanges, volumeLocks, pv, content, faults>>
Goto(w, pc) == GoOn(w, [work[w] EXCEPT !.pc = pc])

\* TryAcquire succeeds, where the handler locks, and the handler starts.
Accept(w, r) ==
  /\ work[w] = Idle
  /\ Locking(r.pc) => r.vol \notin volumeLocks
  /\ volumeLocks' = IF Locking(r.pc) THEN volumeLocks \cup {r.vol} ELSE volumeLocks
  /\ work' = [work EXCEPT ![w] = r]
  /\ UNCHANGED <<cloudVars, pendingIPRanges, content, faults>>

\* The service takes the request, and the handler waits for the operation.
Start(w, o, new, to) ==
  /\ StartOp(o, new)
  /\ work' = [work EXCEPT ![w].pc = to, ![w].op = o, ![w].result = "none"]
  /\ UNCHANGED <<pendingIPRanges, volumeLocks, pv, content, faults>>
StartOrError(w, o, new, to) == Start(w, o, new, to) \/ (~Accepts(o) /\ ReturnError(w))

\* waitForOp returns without an error, or with the operation's.
Waiting == {"create.wait", "delete.wait", "expand.wait", "modify.wait",
            "snapshot.wait", "unsnapshot.wait"}
WaitDone(w, from) == work[w].pc = from /\ work[w].result = "ok"
WaitError(w) == work[w].pc \in Waiting /\ work[w].result = "error" /\ ReturnError(w)

-----------------------------------------------------------------------------
(* CreateVolume *)

CreateVolume(w, v) ==
  /\ pv[v].phase = "wanted"
  /\ Accept(w, [Idle EXCEPT !.pc = "create.get", !.vol = v]) /\ UNCHANGED pv

CreateSucceeds(w) ==
  ReturnSuccess(w, [pv[work[w].vol] EXCEPT !.phase = "bound", !.cap = filer[work[w].vol].cap])

\* GetInstance; an instance that exists must match the request and be READY.
CreateGet(w) ==
  LET f == filer[work[w].vol]
  IN /\ work[w].pc = "create.get"
     /\ \/ f.state = "ABSENT" /\ Goto(w, "create.list")
        \/ f.state = "READY" /\ f.cap = BaseSize /\ CreateSucceeds(w)
        \/ f.state # "ABSENT" /\ ~(f.state = "READY" /\ f.cap = BaseSize) /\ ReturnError(w)

\* getCloudInstancesReservedIPRanges, outside the allocator's mutex
CreateList(w) ==
  /\ work[w].pc = "create.list"
  /\ GoOn(w, [work[w] EXCEPT !.pc = "create.reserve", !.seen = ListedRanges \cup MultishareRanges])

\* reserveIPRange: the allocator's answer for the ranges listed before.
ReservedRange(w) == Answer(Cidr, BlockSize, work[w].seen)

\* Variant: the range is released before the instance is created.
CreateReserveNotHeld(w) ==
  LET range == ReservedRange(w)
  IN /\ work[w].pc = "create.reserve"
     /\ IF range = NoRange THEN ReturnError(w)
        ELSE GoOn(w, [work[w] EXCEPT !.pc = "create.start", !.range = range, !.seen = {}])

\* GetUnreservedIPRange with the ranges listed before
CreateReserve(w) ==
  LET range == ReservedRange(w)
  IN /\ work[w].pc = "create.reserve"
     /\ IF range = NoRange THEN ReturnError(w)
        ELSE /\ GetUnreservedIPRange(Cidr, BlockSize, work[w].seen)
             /\ work' = [work EXCEPT ![w].pc = "create.start", ![w].range = range, ![w].seen = {}]
             /\ UNCHANGED <<cloudVars, volumeLocks, pv, content, faults>>

CreateStart(w) ==
  /\ work[w].pc = "create.start"
  /\ StartOrError(w, InstanceOp("create", work[w].vol, 0),
                  [state |-> "CREATING", cap |-> BaseSize, tuned |-> FALSE, range |-> work[w].range],
                  "create.wait")

CreateWait(w) == WaitDone(w, "create.wait") /\ Goto(w, "create.read")

\* GetInstance after the creation: its state is not looked at.
CreateRead(w) ==
  /\ work[w].pc = "create.read"
  /\ IF filer[work[w].vol].state = "ABSENT" THEN ReturnError(w) ELSE CreateSucceeds(w)

CreateStep(w) == \/ CreateGet(w) \/ CreateList(w) \/ CreateReserve(w)
                 \/ CreateStart(w) \/ CreateWait(w) \/ CreateRead(w)

-----------------------------------------------------------------------------
(* DeleteVolume *)

DeleteVolume(w, v) ==
  /\ pv[v].phase = "released"
  /\ Accept(w, [Idle EXCEPT !.pc = "delete.get", !.vol = v]) /\ UNCHANGED pv

DeleteSucceeds(w) == ReturnSuccess(w, [pv[work[w].vol] EXCEPT !.phase = "deleted"])

\* Variant: an instance that is not found is an error.
DeleteGetMustExist(w) ==
  LET state == filer[work[w].vol].state
  IN /\ work[w].pc = "delete.get"
     /\ \/ state \in {"ABSENT", "DELETING"} /\ ReturnError(w)
        \/ state \notin {"ABSENT", "DELETING"} /\ Goto(w, "delete.start")

\* GetInstance: an instance not found is deleted already.
DeleteGet(w) ==
  LET state == filer[work[w].vol].state
  IN /\ work[w].pc = "delete.get"
     /\ \/ state = "ABSENT" /\ DeleteSucceeds(w)
        \/ state = "DELETING" /\ ReturnError(w)
        \/ state \notin {"ABSENT", "DELETING"} /\ Goto(w, "delete.start")

DeleteStart(w) ==
  /\ work[w].pc = "delete.start"
  /\ StartOrError(w, InstanceOp("delete", work[w].vol, 0), Absent, "delete.wait")

DeleteWait(w) == WaitDone(w, "delete.wait") /\ Goto(w, "delete.verify")

\* The instance must be gone after its deletion.
DeleteVerify(w) ==
  /\ work[w].pc = "delete.verify"
  /\ IF filer[work[w].vol].state = "ABSENT" THEN DeleteSucceeds(w) ELSE ReturnError(w)

DeleteStep(w) == DeleteGet(w) \/ DeleteStart(w) \/ DeleteWait(w) \/ DeleteVerify(w)

-----------------------------------------------------------------------------
(* ControllerExpandVolume *)

ControllerExpandVolume(w, v, size) ==
  /\ pv[v].phase = "bound" /\ pv[v].cap < size
  /\ SizesOnlyGrow => pv[v].asked <= size
  /\ Accept(w, [Idle EXCEPT !.pc = "expand.get", !.vol = v, !.size = size])
  /\ pv' = [pv EXCEPT ![v].asked = size]

\* The answer has the size the instance has.
ExpandSucceeds(w) ==
  LET v == work[w].vol IN ReturnSuccess(w, [pv[v] EXCEPT !.cap = filer[v].cap])

ExpandGet(w) ==
  LET f == filer[work[w].vol]
  IN /\ work[w].pc = "expand.get"
     /\ \/ f.state # "READY" /\ ReturnError(w)
        \/ f.state = "READY" /\ work[w].size <= f.cap /\ ExpandSucceeds(w)
        \/ f.state = "READY" /\ work[w].size > f.cap /\ Goto(w, "expand.ops")

\* Variant: operations still running are not looked for.
ExpandOpsUnchecked(w) == work[w].pc = "expand.ops" /\ Goto(w, "expand.start")

\* HasOperations: an update that is still running must end first.
ExpandOps(w) ==
  /\ work[w].pc = "expand.ops"
  /\ IF HasUpdateOps(work[w].vol) THEN ReturnError(w) ELSE Goto(w, "expand.start")

\* ResizeInstance
ExpandStart(w) ==
  /\ work[w].pc = "expand.start"
  /\ StartOrError(w, InstanceOp("resize", work[w].vol, work[w].size), Absent, "expand.wait")

ExpandWait(w) == WaitDone(w, "expand.wait") /\ Goto(w, "expand.read")

ExpandRead(w) ==
  /\ work[w].pc = "expand.read"
  /\ IF filer[work[w].vol].state = "ABSENT" THEN ReturnError(w) ELSE ExpandSucceeds(w)

ExpandStep(w) == ExpandGet(w) \/ ExpandOps(w) \/ ExpandStart(w) \/ ExpandWait(w) \/ ExpandRead(w)

-----------------------------------------------------------------------------
(* ControllerModifyVolume *)

ControllerModifyVolume(w, v) ==
  /\ pv[v].phase = "bound" /\ ~pv[v].tuned
  /\ Accept(w, [Idle EXCEPT !.pc = "modify.get", !.vol = v]) /\ UNCHANGED pv

ModifyGet(w) ==
  /\ work[w].pc = "modify.get"
  /\ IF filer[work[w].vol].state = "ABSENT" THEN ReturnError(w) ELSE Goto(w, "modify.start")

\* UpdateInstancePerformance; running operations are not looked for.
ModifyStart(w) ==
  /\ work[w].pc = "modify.start"
  /\ StartOrError(w, InstanceOp("tune", work[w].vol, 0), Absent, "modify.wait")

ModifyWait(w) ==
  /\ WaitDone(w, "modify.wait")
  /\ ReturnSuccess(w, [pv[work[w].vol] EXCEPT !.tuned = TRUE])

ModifyStep(w) == ModifyGet(w) \/ ModifyStart(w) \/ ModifyWait(w)

-----------------------------------------------------------------------------
(* CreateSnapshot and DeleteSnapshot *)

CreateSnapshot(w, s) ==
  /\ content[s] = "wanted" /\ pv[SourceOf[s]].phase = "bound"
  /\ Accept(w, [Idle EXCEPT !.pc = "snapshot.get", !.vol = SourceOf[s], !.snap = s])
  /\ UNCHANGED pv

\* Variant: an existing backup is taken whatever its state.
ExistingBackupAnyState(w) ==
  backup[work[w].snap] # "ABSENT" /\ ReturnSnapshotSuccess(w, "bound")

\* ProcessExistingBackup
ExistingBackup(w) ==
  LET state == backup[work[w].snap]
  IN \/ state = "READY" /\ ReturnSnapshotSuccess(w, "bound")
     \/ state \notin {"ABSENT", "READY"} /\ ReturnError(w)

\* GetBackup
SnapshotGet(w) ==
  /\ work[w].pc = "snapshot.get"
  /\ \/ backup[work[w].snap] = "ABSENT" /\ Goto(w, "snapshot.start")
     \/ ExistingBackup(w)

\* CreateBackup
SnapshotStart(w) ==
  /\ work[w].pc = "snapshot.start"
  /\ StartOrError(w, BackupOp("createBackup", work[w].vol, work[w].snap), Absent, "snapshot.wait")

SnapshotWait(w) == WaitDone(w, "snapshot.wait") /\ Goto(w, "snapshot.read")

SnapshotRead(w) ==
  /\ work[w].pc = "snapshot.read"
  /\ IF backup[work[w].snap] = "READY" THEN ReturnSnapshotSuccess(w, "bound") ELSE ReturnError(w)

DeleteSnapshot(w, s) ==
  /\ content[s] = "released"
  /\ Accept(w, [Idle EXCEPT !.pc = "unsnapshot.get", !.vol = SourceOf[s], !.snap = s])
  /\ UNCHANGED pv

UnsnapshotGet(w) ==
  LET state == backup[work[w].snap]
  IN /\ work[w].pc = "unsnapshot.get"
     /\ \/ state = "ABSENT" /\ ReturnSnapshotSuccess(w, "deleted")
        \/ state = "DELETING" /\ ReturnError(w)
        \/ state \notin {"ABSENT", "DELETING"} /\ Goto(w, "unsnapshot.start")

DeleteBackupOp(w) == BackupOp("deleteBackup", work[w].vol, work[w].snap)

\* DeleteBackup, when the service takes the request
UnsnapshotStart(w) ==
  /\ work[w].pc = "unsnapshot.start"
  /\ Start(w, DeleteBackupOp(w), Absent, "unsnapshot.wait")

UnsnapshotWait(w) == WaitDone(w, "unsnapshot.wait") /\ ReturnSnapshotSuccess(w, "deleted")

SnapshotStep(w) == \/ SnapshotGet(w) \/ SnapshotStart(w) \/ SnapshotWait(w) \/ SnapshotRead(w)
                   \/ UnsnapshotGet(w) \/ UnsnapshotStart(w) \/ UnsnapshotWait(w)

-----------------------------------------------------------------------------
(* Faults and the environment. *)

\* The driver's process ends: its requests, locks and pending ranges are gone.
ProcessEnds ==
  /\ work' = [w \in Workers |-> Idle]
  /\ volumeLocks' = {}
  /\ pendingIPRanges' = {}
  /\ UNCHANGED <<cloudVars, pv, content>>

DriverRestarts ==
  /\ \E w \in Workers : work[w].pc # "idle"
  /\ Fault /\ ProcessEnds

\* DeleteBackup, when the service refuses the request or the call fails: the
\* error text is built from the operation that was not returned, a nil pointer.
DeleteBackupPanics(w) ==
  /\ work[w].pc = "unsnapshot.start"
  /\ (~Accepts(DeleteBackupOp(w)) /\ UNCHANGED faults) \/ Fault
  /\ ProcessEnds

\* A cloud call fails, or the wait times out or sees the request's context
\* cancelled: the handler returns an error, its operation keeps running.
HandlerFails(w) ==
  /\ work[w].pc \notin {"idle", "unsnapshot.start"}
  /\ Fault /\ Return(w) /\ UNCHANGED <<cloudVars, pv, content>>

NotifyWaiters(o, result) ==
  work' = [w \in Workers |-> IF work[w].op = o /\ work[w].result = "none"
                             THEN [work[w] EXCEPT !.result = result] ELSE work[w]]

OpDone(o) ==
  /\ o \in ops
  /\ OpSucceeds(o) /\ NotifyWaiters(o, "ok")
  /\ UNCHANGED <<pendingIPRanges, volumeLocks, pv, content, faults>>

OpError(o) ==
  /\ o \in ops
  /\ Fault /\ OpFails(o) /\ NotifyWaiters(o, "error")
  /\ UNCHANGED <<pendingIPRanges, volumeLocks, pv, content>>

\* The orchestrator gives a volume or a snapshot up.
ReleasePV(v) ==
  /\ pv[v].phase = "bound"
  /\ pv' = [pv EXCEPT ![v].phase = "released"]
  /\ UNCHANGED <<cloudVars, pendingIPRanges, volumeLocks, work, content, faults>>

ReleaseContent(s) ==
  /\ content[s] = "bound"
  /\ content' = [content EXCEPT ![s] = "released"]
  /\ UNCHANGED <<cloudVars, pendingIPRanges, volumeLocks, work, pv, faults>>

\* Nothing is left to do.
Finished ==
  /\ \A v \in Vols : pv[v].phase = "deleted"
  /\ \A s \in Snaps : content[s] \in {"wanted", "deleted"}
  /\ work = [w \in Workers |-> Idle] /\ ops = {}
  /\ UNCHANGED vars

HandlerStep(w) == \/ CreateStep(w) \/ DeleteStep(w) \/ ExpandStep(w) \/ ModifyStep(w)
                  \/ SnapshotStep(w) \/ WaitError(w) \/ DeleteBackupPanics(w)

VolumeRequest(w, v) ==
  \/ CreateVolume(w, v) \/ DeleteVolume(w, v) \/ (v \in Tunable /\ ControllerModifyVolume(w, v))
  \/ \E size \in ExpandSizes[v] : ControllerExpandVolume(w, v, size)

Next ==
  \/ \E w \in Workers : HandlerStep(w) \/ HandlerFails(w)
  \/ \E w \in Workers, v \in Vols : VolumeRequest(w, v)
  \/ \E w \in Workers, s \in Snaps : CreateSnapshot(w, s) \/ DeleteSnapshot(w, s)
  \/ \E o \in ops : OpDone(o) \/ OpError(o)
  \/ \E v \in Vols : ReleasePV(v)
  \/ \E s \in Snaps : ReleaseContent(s)
  \/ DriverRestarts
  \/ Finished

Spec == Init /\ [][Next]_vars
=============================================================================
