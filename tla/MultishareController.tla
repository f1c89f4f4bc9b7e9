------------------------ MODULE MultishareController ------------------------
(***************************************************************************)
(* MultishareController (multishare_controller.go): the CSI controller     *)
(* requests CreateVolume, DeleteVolume and ControllerExpandVolume for      *)
(* multishare volumes, served by concurrent goroutines ("workers") that    *)
(* share the volume locks and the ops manager, poll Filestore operations   *)
(* outside the mutex, and are all lost when the driver restarts.           *)
(*                                                                         *)
(* The container orchestrator (CSI sidecars and the PV they keep) is       *)
(* external: it repeats a request until it is answered with success.       *)
(***************************************************************************)
EXTENDS MultishareOpsManager

CONSTANTS ExpandSize,     \* [Vols -> Nat]: the size a volume is expanded to
          FaultsBounded,  \* is the number of faults bounded...
          MaxFaults       \* ... by this (a bound of the runs, not of the code)

ASSUME ControllerAssumption ==
  ExpandSize \in [Vols -> Nat] /\ FaultsBounded \in BOOLEAN /\ MaxFaults \in Nat

VARIABLES volumeLocks,  \* util.VolumeLocks: the keys of requests being served
          work,         \* [Workers -> the request a worker serves, and where it is]
          pv,           \* [Vols -> what the orchestrator wants and knows]
          faults        \* faults so far, when bounded

vars == <<cloudVars, opsManagerVars, volumeLocks, work, pv, faults>>

-----------------------------------------------------------------------------
(* The state of a request. *)

NoOp == [type |-> "None", inst |-> NoInst, vol |-> NoVol, cap |-> 0]

CreatePcs == {"create.lock", "create.setup", "create.wait", "create.relock",
              "create.share", "create.shareWait", "create.get"}
DeletePcs == {"delete.get", "delete.lock", "delete.share", "delete.wait",
              "delete.relock", "delete.instance", "delete.instanceWait"}
ExpandPcs == {"expand.get", "expand.lock", "expand.check", "expand.wait",
              "expand.relock", "expand.share", "expand.shareWait", "expand.verify"}
Pcs == {"idle"} \cup CreatePcs \cup DeletePcs \cup ExpandPcs

\* op is the operation polled (Workflow.opName) and result its outcome; shareCap
\* and parentCap are the share and parent sizes ControllerExpandVolume read before
\* it took the mutex.
Request == [pc: Pcs, vol: Vols \cup {NoVol}, inst: Insts \cup {NoInst},
            op: Op \cup {NoOp}, result: {"none", "ok", "error"},
            shareCap: Nat, parentCap: Nat]
Idle == [pc |-> "idle", vol |-> NoVol, inst |-> NoInst, op |-> NoOp,
         result |-> "none", shareCap |-> 0, parentCap |-> 0]

Phases == {"wanted", "bound", "released", "deleted"}
PVRec == [phase: Phases, inst: Insts \cup {NoInst}, cap: Nat]

\* CreateVolume locks the volume's name, the others lock its volume id.
NameKey(v) == <<"name", v>>
IdKey(v, i) == <<"id", v, i>>
LockKey(r) == IF r.pc \in CreatePcs THEN NameKey(r.vol) ELSE IdKey(r.vol, r.inst)
LockKeys == {NameKey(v) : v \in Vols} \cup {IdKey(v, i) : v \in Vols, i \in Insts}

\* A step in which the worker holds the ops manager's mutex.
Critical == {"create.setup", "create.share", "delete.share", "delete.instance",
             "expand.check", "expand.share"}
Waiting == {"create.wait", "create.shareWait", "delete.wait", "delete.instanceWait",
            "expand.wait", "expand.shareWait"}

Init ==
  /\ CloudInit
  /\ OpsManagerInit
  /\ volumeLocks = {}
  /\ work = [w \in Workers |-> Idle]
  /\ pv = [v \in Vols |-> [phase |-> "wanted", inst |-> NoInst, cap |-> 0]]
  /\ faults = 0

DriverTypeOK ==
  /\ OpsManagerTypeOK
  /\ volumeLocks \in SUBSET LockKeys
  /\ work \in [Workers -> Request]
  /\ pv \in [Vols -> PVRec]
  /\ faults \in Nat

TypeOK == CloudTypeOK /\ DriverTypeOK

-----------------------------------------------------------------------------
(* Steps shared by the handlers. *)

\* A fault happens; the runs may bound how often.
Fault == IF FaultsBounded THEN faults < MaxFaults /\ faults' = faults + 1
                          ELSE UNCHANGED faults

\* Variant: the deferred Release of the volume lock is forgotten.
ReturnKeepingLock(w) ==
  /\ work' = [work EXCEPT ![w] = Idle]
  /\ UNCHANGED volumeLocks
  /\ IF mutex = w THEN mutex' = NoWorker /\ snap' = {} ELSE UNCHANGED opsManagerVars

\* The handler returns: deferred Release of the volume lock and of the mutex.
Return(w) ==
  /\ work' = [work EXCEPT ![w] = Idle]
  /\ volumeLocks' = volumeLocks \ {LockKey(work[w])}
  /\ IF mutex = w THEN mutex' = NoWorker /\ snap' = {} ELSE UNCHANGED opsManagerVars

\* An error return: the orchestrator learns nothing and will retry.
ReturnError(w) == Return(w) /\ UNCHANGED <<cloudVars, pv, faults>>

\* A successful return; the answer may be lost on its way.
ReturnSuccess(w, newPV) ==
  /\ Return(w)
  /\ \/ pv' = [pv EXCEPT ![work[w].vol] = newPV] /\ UNCHANGED faults
     \/ Fault /\ UNCHANGED pv
  /\ UNCHANGED cloudVars

Goto(w, pc) ==
  /\ work' = [work EXCEPT ![w].pc = pc]
  /\ UNCHANGED <<cloudVars, opsManagerVars, volumeLocks, pv, faults>>

\* Variant: requests for the same volume are not kept apart.
AcceptUnlocked(w, r) ==
  /\ work[w] = Idle
  /\ volumeLocks' = volumeLocks \cup {LockKey(r)}
  /\ work' = [work EXCEPT ![w] = r]
  /\ UNCHANGED <<cloudVars, opsManagerVars, pv, faults>>

\* TryAcquire succeeds and the handler starts.
Accept(w, r) ==
  /\ work[w] = Idle
  /\ LockKey(r) \notin volumeLocks
  /\ volumeLocks' = volumeLocks \cup {LockKey(r)}
  /\ work' = [work EXCEPT ![w] = r]
  /\ UNCHANGED <<cloudVars, opsManagerVars, pv, faults>>

\* Variant: the operations are listed without waiting for the mutex.
ListOpsUnlocked(w, from, to, joinable) ==
  /\ work[w].pc = from
  /\ mutex' = w
  /\ snap' = ops
  /\ work' = [work EXCEPT ![w].pc = to, ![w].result = "none",
                          ![w].op = IF joinable = {} THEN NoOp ELSE CHOOSE o \in joinable : TRUE]
  /\ UNCHANGED <<cloudVars, volumeLocks, pv, faults>>

\* m.Lock() and listMultishareResourceRunningOps; joinable are the running
\* operations this handler would rather poll than start a new one.
LockAndListOps(w, from, to, joinable) ==
  /\ work[w].pc = from
  /\ mutex = NoWorker
  /\ mutex' = w
  /\ snap' = ops
  /\ work' = [work EXCEPT ![w].pc = to, ![w].result = "none",
                          ![w].op = IF joinable = {} THEN NoOp ELSE CHOOSE o \in joinable : TRUE]
  /\ UNCHANGED <<cloudVars, volumeLocks, pv, faults>>

\* The mutex is released and the handler goes on to poll its operation.
UnlockAndWait(w, to) ==
  /\ work' = [work EXCEPT ![w].pc = to]
  /\ mutex' = NoWorker /\ snap' = {}
  /\ UNCHANGED <<cloudVars, volumeLocks, pv, faults>>

\* startInstanceWorkflow or startShareWorkflow: verify, start, then poll.
StartWorkflow(w, o, to) ==
  /\ NoConflict(o)
  /\ StartOp(o, IF o.type = "InstanceCreate" THEN Protocol[work[w].vol] ELSE "")
  /\ work' = [work EXCEPT ![w].pc = to, ![w].op = o, ![w].result = "none",
                          ![w].inst = o.inst]
  /\ mutex' = NoWorker /\ snap' = {}
  /\ UNCHANGED <<volumeLocks, pv, faults>>

\* The verification or the service refuses o.
Refused(w, o) == ~(NoConflict(o) /\ Accepts(o)) /\ ReturnError(w)

StartOrRefuse(w, o, to) == StartWorkflow(w, o, to) \/ Refused(w, o)

\* waitOnWorkflow returns without an error, or with the operation's error.
PollDone(w, from, to) == work[w].pc = from /\ work[w].result = "ok" /\ Goto(w, to)
PollError(w) == work[w].pc \in Waiting /\ work[w].result = "error" /\ ReturnError(w)

-----------------------------------------------------------------------------
(* CreateVolume *)

CreateVolume(w, v) ==
  /\ pv[v].phase = "wanted"
  /\ Accept(w, [Idle EXCEPT !.pc = "create.lock", !.vol = v])

CreateLock(w) == LockAndListOps(w, "create.lock", "create.setup", {})

\* setupEligibleInstanceAndStartWorkflow, from the check for a running share
\* create to the start of an operation.
CreateSetup(w) ==
  LET v == work[w].vol
  IN /\ work[w].pc = "create.setup"
     /\ \/ /\ \/ ShareCreateRunning(v)
              \/ ExistingShare(v) = {} /\ (AllEligibleBusy(v) \/ Placements(v) = {})
           /\ ReturnError(w)
        \/ /\ ~ShareCreateRunning(v)
           /\ \E i \in ExistingShare(v) :
                /\ work' = [work EXCEPT ![w].pc = "create.get", ![w].inst = i]
                /\ mutex' = NoWorker /\ snap' = {}
                /\ UNCHANGED <<cloudVars, volumeLocks, pv, faults>>
        \/ /\ ~ShareCreateRunning(v) /\ ExistingShare(v) = {} /\ ~AllEligibleBusy(v)
           /\ \E o \in Placements(v) :
                StartOrRefuse(w, o, "create.wait")

\* After a share operation the volume is complete; after an instance operation
\* the share is still to be created on that instance.
CreateWait(w) ==
  PollDone(w, "create.wait",
           IF work[w].op.type = "ShareCreate" THEN "create.get" ELSE "create.relock")

CreateRelock(w) == LockAndListOps(w, "create.relock", "create.share", {})

\* startShareCreateWorkflowSafe: neither room nor share count are looked at again.
CreateShare(w) ==
  LET r == work[w]
  IN /\ r.pc = "create.share"
     /\ StartOrRefuse(w, OpOnShare("ShareCreate", r.inst, r.vol, ShareSize[r.vol]),
                      "create.shareWait")

CreateShareWait(w) == PollDone(w, "create.shareWait", "create.get")

\* getShareAndGenerateCSICreateVolumeResponse
CreateGetShare(w) ==
  LET r == work[w]
  IN /\ r.pc = "create.get"
     /\ IF share[r.inst][r.vol].state = "READY"
        THEN ReturnSuccess(w, [phase |-> "bound", inst |-> r.inst, cap |-> ShareSize[r.vol]])
        ELSE ReturnError(w)

CreateStep(w) == \/ CreateLock(w) \/ CreateSetup(w) \/ CreateWait(w) \/ CreateRelock(w)
                 \/ CreateShare(w) \/ CreateShareWait(w) \/ CreateGetShare(w)

-----------------------------------------------------------------------------
(* DeleteVolume *)

DeleteVolume(w, v) ==
  /\ pv[v].phase = "released"
  /\ Accept(w, [Idle EXCEPT !.pc = "delete.get", !.vol = v, !.inst = pv[v].inst])

\* Variant: a share that is not found is an error.
DeleteGetShareMustExist(w) ==
  LET r == work[w]
  IN /\ r.pc = "delete.get"
     /\ IF share[r.inst][r.vol].state = "ABSENT" THEN ReturnError(w) ELSE Goto(w, "delete.lock")

\* Variant: a share that is not found needs no further work.
DeleteGetShareIsAll(w) ==
  LET r == work[w]
  IN /\ r.pc = "delete.get"
     /\ IF share[r.inst][r.vol].state = "ABSENT"
        THEN ReturnSuccess(w, [pv[r.vol] EXCEPT !.phase = "deleted"])
        ELSE Goto(w, "delete.lock")

\* GetShare: a share that is not found leaves only the instance to look after.
DeleteGetShare(w) ==
  LET r == work[w]
  IN /\ r.pc = "delete.get"
     /\ Goto(w, IF share[r.inst][r.vol].state = "ABSENT" THEN "delete.relock" ELSE "delete.lock")

DeleteLock(w) == LockAndListOps(w, "delete.lock", "delete.share",
                                OpsOnShare("ShareDelete", work[w].inst, work[w].vol))

\* checkAndStartShareDeleteWorkflow
DeleteShare(w) ==
  LET r == work[w]
  IN /\ r.pc = "delete.share"
     /\ IF r.op # NoOp THEN UnlockAndWait(w, "delete.wait")
        ELSE StartOrRefuse(w, OpOnShare("ShareDelete", r.inst, r.vol, 0), "delete.wait")

\* Variant: the outcome of the operation is not looked at.
DeleteWaitAny(w) ==
  /\ work[w].pc = "delete.wait" /\ work[w].result # "none"
  /\ Goto(w, "delete.relock")

DeleteWait(w) == PollDone(w, "delete.wait", "delete.relock")

DeleteRelock(w) == LockAndListOps(w, "delete.relock", "delete.instance", {})

DeleteSucceeds(w) == ReturnSuccess(w, [pv[work[w].vol] EXCEPT !.phase = "deleted"])

\* checkAndStartInstanceDeleteOrShrinkWorkflow
DeleteOrShrinkInstance(w) ==
  LET i == work[w].inst
  IN /\ work[w].pc = "delete.instance"
     /\ \/ InstanceBusy(i) /\ ReturnError(w)
        \/ /\ ~InstanceBusy(i)
           /\ \/ ~Listed(i) \/ (~Empty(i) /\ ~CanShrink(i))
           /\ DeleteSucceeds(w)
        \/ /\ ~InstanceBusy(i) /\ Listed(i) /\ Empty(i)
           /\ StartOrRefuse(w, OpOnInstance("InstanceDelete", i, 0), "delete.instanceWait")
        \/ /\ ~InstanceBusy(i) /\ Listed(i) /\ ~Empty(i) /\ CanShrink(i)
           /\ StartOrRefuse(w, OpOnInstance("InstanceUpdate", i, ShrinkTarget(i)),
                            "delete.instanceWait")

DeleteInstanceWait(w) ==
  /\ work[w].pc = "delete.instanceWait" /\ work[w].result = "ok"
  /\ DeleteSucceeds(w)

DeleteStep(w) == \/ DeleteGetShare(w) \/ DeleteLock(w) \/ DeleteShare(w) \/ DeleteWait(w)
                 \/ DeleteRelock(w) \/ DeleteOrShrinkInstance(w) \/ DeleteInstanceWait(w)

-----------------------------------------------------------------------------
(* ControllerExpandVolume *)

ControllerExpandVolume(w, v) ==
  /\ pv[v].phase = "bound" /\ pv[v].cap < ExpandSize[v]
  /\ Accept(w, [Idle EXCEPT !.pc = "expand.get", !.vol = v, !.inst = pv[v].inst])

ExpandSucceeds(w) ==
  LET v == work[w].vol
  IN ReturnSuccess(w, [pv[v] EXCEPT !.cap = Larger(@, ExpandSize[v])])

\* GetShare reads the share and its parent: the sizes used under the mutex later.
ExpandGetShare(w) ==
  LET r == work[w]
      s == share[r.inst][r.vol]
  IN /\ r.pc = "expand.get"
     /\ \/ s.state = "ABSENT" /\ ReturnError(w)
        \/ s.state # "ABSENT" /\ s.cap >= ExpandSize[r.vol] /\ ExpandSucceeds(w)
        \/ /\ s.state # "ABSENT" /\ s.cap < ExpandSize[r.vol]
           /\ work' = [work EXCEPT ![w].pc = "expand.lock", ![w].shareCap = s.cap,
                                   ![w].parentCap = instance[r.inst].cap]
           /\ UNCHANGED <<cloudVars, opsManagerVars, volumeLocks, pv, faults>>

ExpandLock(w) == LockAndListOps(w, "expand.lock", "expand.check",
                                OpsOnShare("ShareUpdate", work[w].inst, work[w].vol))

ExpandOp(r) == OpOnShare("ShareUpdate", r.inst, r.vol, ExpandSize[r.vol])

\* checkAndStartInstanceOrShareExpandWorkflow
ExpandCheck(w) ==
  LET r == work[w]
      needed == ExpandSize[r.vol] - r.shareCap
  IN /\ r.pc = "expand.check"
     /\ \/ r.op # NoOp /\ UnlockAndWait(w, "expand.wait")
        \/ r.op = NoOp /\ (InstanceBusy(r.inst) \/ ~Listed(r.inst)) /\ ReturnError(w)
        \/ /\ r.op = NoOp /\ ~InstanceBusy(r.inst) /\ Listed(r.inst)
           /\ StartOrRefuse(w, IF InstanceNeedsExpand(r.inst, r.parentCap, needed)
                               THEN OpOnInstance("InstanceUpdate", r.inst, ExpandTarget(r.inst, needed))
                               ELSE ExpandOp(r),
                            "expand.wait")

ExpandWait(w) ==
  PollDone(w, "expand.wait",
           IF work[w].op.type = "InstanceUpdate" THEN "expand.relock" ELSE "expand.verify")

ExpandRelock(w) == LockAndListOps(w, "expand.relock", "expand.share", {})

\* startShareExpandWorkflowSafe
ExpandShare(w) ==
  /\ work[w].pc = "expand.share"
  /\ StartOrRefuse(w, ExpandOp(work[w]), "expand.shareWait")

ExpandShareWait(w) == PollDone(w, "expand.shareWait", "expand.verify")

\* getShareAndGenerateCSIControllerExpandVolumeResponse
ExpandVerify(w) ==
  LET r == work[w]
  IN /\ r.pc = "expand.verify"
     /\ IF /\ share[r.inst][r.vol].state # "ABSENT"
           /\ share[r.inst][r.vol].cap >= ExpandSize[r.vol]
        THEN ExpandSucceeds(w)
        ELSE ReturnError(w)

ExpandStep(w) == \/ ExpandGetShare(w) \/ ExpandLock(w) \/ ExpandCheck(w) \/ ExpandWait(w)
                 \/ ExpandRelock(w) \/ ExpandShare(w) \/ ExpandShareWait(w) \/ ExpandVerify(w)

-----------------------------------------------------------------------------
(* Faults and the environment. *)

\* A cloud call fails, or the poll times out or sees the request's context
\* cancelled: the handler returns an error, its operation keeps running.
HandlerFails(w) ==
  /\ work[w].pc # "idle"
  /\ Fault /\ Return(w) /\ UNCHANGED <<cloudVars, pv>>

\* The driver restarts: requests, locks and the mutex are gone.
DriverRestarts ==
  /\ \E w \in Workers : work[w].pc # "idle"
  /\ Fault
  /\ work' = [w \in Workers |-> Idle]
  /\ volumeLocks' = {}
  /\ mutex' = NoWorker /\ snap' = {}
  /\ UNCHANGED <<cloudVars, pv>>

\* Pollers of operation o see its outcome.
NotifyPollers(o, result) ==
  work' = [w \in Workers |-> IF work[w].op = o /\ work[w].result = "none"
                             THEN [work[w] EXCEPT !.result = result] ELSE work[w]]

OpDone(o) ==
  /\ o \in ops
  /\ OpSucceeds(o) /\ NotifyPollers(o, "ok")
  /\ UNCHANGED <<opsManagerVars, volumeLocks, pv, faults>>

OpError(o) ==
  /\ o \in ops
  /\ Fault /\ OpFails(o) /\ NotifyPollers(o, "error")
  /\ UNCHANGED <<opsManagerVars, volumeLocks, pv>>

InstanceRepair(i) == /\ RepairStarts(i) /\ Fault
                     /\ UNCHANGED <<opsManagerVars, volumeLocks, work, pv>>
InstanceRepaired(i) == /\ RepairEnds(i)
                       /\ UNCHANGED <<opsManagerVars, volumeLocks, work, pv, faults>>

\* The orchestrator gives a bound volume up: its PV is to be deleted.
ReleasePV(v) ==
  /\ pv[v].phase = "bound"
  /\ pv' = [pv EXCEPT ![v].phase = "released"]
  /\ UNCHANGED <<cloudVars, opsManagerVars, volumeLocks, work, faults>>

\* Every volume is deleted and every request answered: nothing is left to do.
Finished ==
  /\ \A v \in Vols : pv[v].phase = "deleted"
  /\ work = [w \in Workers |-> Idle] /\ ops = {}
  /\ UNCHANGED vars

HandlerStep(w) == CreateStep(w) \/ DeleteStep(w) \/ ExpandStep(w) \/ PollError(w)

Next ==
  \/ \E w \in Workers : HandlerStep(w) \/ HandlerFails(w)
  \/ \E w \in Workers, v \in Vols :
       CreateVolume(w, v) \/ DeleteVolume(w, v) \/ ControllerExpandVolume(w, v)
  \/ \E o \in ops : OpDone(o) \/ OpError(o)
  \/ \E i \in Insts : InstanceRepair(i) \/ InstanceRepaired(i)
  \/ \E v \in Vols : ReleasePV(v)
  \/ DriverRestarts
  \/ Finished

Spec == Init /\ [][Next]_vars
=============================================================================
