-------------------------- MODULE MultishareProofs --------------------------
(***************************************************************************)
(* MultishareController is type correct and implements OpsDiscipline, for  *)
(* every set of workers, volumes and instances, any capacities and any     *)
(* faults; so its operations are exclusive and no instance is deleted      *)
(* under a share.                                                          *)
(*                                                                         *)
(* It keeps the contract of every volume: it implements VolumeLifecycle    *)
(* and shrinks no instance below its shares.  The invariant of that part   *)
(* is VolumeInv (MultishareSafety): a step preserves VolumesInv and moves  *)
(* what the orchestrator knows of a volume only as the contract allows;    *)
(* the sizes and the names come after it.                                  *)
(*                                                                         *)
(* Last, it leaves no instance behind, and makes a second share of a       *)
(* volume only for a fault.  The invariant is LeakInv (MultishareSafety):  *)
(* every instance is kept by a volume on it, or nobody was told of it and, *)
(* until something fails, it is to get its first share from a creation     *)
(* under way, or it is dead; and the shares of a volume are counted        *)
(* against the faults.  A lemma for each kind of step shows that whoever   *)
(* looks after an instance goes on to do so or hands it on.                *)
(***************************************************************************)
EXTENDS MultishareSafety, SizesTheorems

-----------------------------------------------------------------------------
(* The discipline keeps operations exclusive and shares off dying instances. *)

\* An operation is on an instance, or on one of its shares.
LEMMA OpShape ==
  ASSUME NEW o \in Op
  PROVE  /\ o.inst \in Insts /\ o.cap \in Nat
         /\ \/ o.type \in InstanceOps /\ o.vol = NoVol
            \/ o.type \in ShareOps /\ o.vol \in Vols
         /\ NoVol \notin Vols
BY FilestoreAssumption DEF Op, InstanceOp, ShareOp

\* A step on behalf of o changes nothing but the resource o is on.
TouchesOnly(o) ==
  /\ \A i \in Insts : i # o.inst \/ o.vol # NoVol => instance'[i].state = instance[i].state
  /\ \A i \in Insts, v \in Vols :
       i # o.inst \/ v # o.vol => share'[i][v].state = share[i][v].state

\* Operations that do not conflict with o still show after such a step.
LEMMA OthersStillShow ==
  ASSUME NEW o \in Op, NEW p \in Op, ~Conflict(o, p), TouchesOnly(o), Shows(p)
  PROVE  Shows(p)'
<1>1. p.type \in InstanceOps => instance'[p.inst].state = instance[p.inst].state
  BY OpShape DEF Conflict, TouchesOnly, InstanceOps, ShareOps
<1>2. p.type \in ShareOps => share'[p.inst][p.vol].state = share[p.inst][p.vol].state
  BY OpShape DEF Conflict, TouchesOnly, InstanceOps, ShareOps
<1> QED
  BY <1>1, <1>2 DEF Shows, InstanceOps, ShareOps

-----------------------------------------------------------------------------
\* The cloud starts empty, with no operation running.
LEMMA InvInit == CloudInit => DisciplineInv
<1> SUFFICES ASSUME CloudInit PROVE DisciplineInv
  OBVIOUS
<1>1. CloudTypeOK
  BY DEF CloudInit, CloudTypeOK, AbsentInstance, AbsentShare, InstanceRec, ShareRec,
         InstanceStates, ShareStates
<1>2. ExclusiveOps /\ OpsShow /\ SharesOnUsableInstances
  BY DEF CloudInit, ExclusiveOps, OpsShow, SharesOnUsableInstances, AbsentShare
<1> QED
  BY <1>1, <1>2 DEF DisciplineInv

\* Starting an operation in turn preserves the invariant.
LEMMA InvStart ==
  ASSUME DisciplineInv, NEW o, NEW protocol \in Protocols \cup {""}, StartInTurn(o, protocol)
  PROVE  DisciplineInv'
<1>0. /\ CloudTypeOK /\ ExclusiveOps /\ OpsShow /\ SharesOnUsableInstances
      /\ o \in Op /\ ops \subseteq Op /\ ops' = ops \cup {o}
  BY DEF DisciplineInv, StartInTurn, StartOp, CloudTypeOK
<1>1. /\ o.inst \in Insts /\ o.cap \in Nat /\ NoVol \notin Vols
      /\ \/ o.type \in InstanceOps /\ o.vol = NoVol
         \/ o.type \in ShareOps /\ o.vol \in Vols
  BY <1>0, OpShape
<1>2. CloudTypeOK'
  <2>1. instance' \in [Insts -> InstanceRec]
    BY <1>0, <1>1 DEF StartInTurn, StartOp, CloudTypeOK, InstanceRec, InstanceStates
  <2>2. share' \in [Insts -> [Vols -> ShareRec]]
    <3>1. CASE o.vol = NoVol
      BY <1>0, <3>1 DEF StartInTurn, StartOp, CloudTypeOK
    <3>2. CASE o.vol # NoVol
      <4>1. share[o.inst] \in [Vols -> ShareRec] /\ share[o.inst][o.vol] \in ShareRec
        BY <1>0, <1>1, <3>2 DEF CloudTypeOK
      <4>2. [share[o.inst][o.vol] EXCEPT !.state = "DELETING"] \in ShareRec
        BY <4>1 DEF ShareRec, ShareStates
      <4>3. [state |-> "CREATING", cap |-> o.cap] \in ShareRec
        BY <1>1 DEF ShareRec, ShareStates
      <4> QED
        BY <1>0, <1>1, <3>2, <4>1, <4>2, <4>3 DEF StartInTurn, StartOp, CloudTypeOK
    <3> QED
      BY <3>1, <3>2
  <2> QED
    BY <1>0, <2>1, <2>2 DEF CloudTypeOK
<1>3. ExclusiveOps'
  BY <1>0 DEF StartInTurn, ExclusiveOps, Conflict
<1>4. TouchesOnly(o)
  BY <1>0, <1>1 DEF StartInTurn, StartOp, CloudTypeOK, TouchesOnly, InstanceOps, ShareOps, InstanceRec
<1>5. Shows(o)'
  <2>1. CASE o.type \in InstanceOps
    <3>1. instance'[o.inst].state =
            CASE o.type = "InstanceCreate" -> "CREATING"
              [] o.type = "InstanceDelete" -> "DELETING"
              [] OTHER -> instance[o.inst].state
      BY <1>0, <1>1, <2>1 DEF StartInTurn, StartOp, CloudTypeOK, InstanceOps, InstanceRec
    <3>2. o.type = "InstanceUpdate" => instance[o.inst].state = "READY"
      BY DEF StartInTurn, StartOp, Accepts
    <3> QED
      BY <2>1, <3>1, <3>2 DEF Shows, InstanceOps
  <2>2. CASE o.type \in ShareOps
    <3>1. /\ o.type = "ShareCreate" => share'[o.inst][o.vol].state = "CREATING"
          /\ o.type = "ShareDelete" => share'[o.inst][o.vol].state = "DELETING"
          /\ o.type = "ShareUpdate" => share'[o.inst][o.vol].state = share[o.inst][o.vol].state
      <4>1. o.vol # NoVol /\ share \in [Insts -> [Vols -> ShareRec]]
        BY <1>0, <1>1, <2>2 DEF CloudTypeOK, ShareOps, InstanceOps
      <4>2. share[o.inst][o.vol] \in ShareRec /\ share[o.inst] \in [Vols -> ShareRec]
        BY <1>1, <4>1
      <4>3. CASE o.type = "ShareCreate"
        <5>1. share'[o.inst][o.vol].state = "CREATING"
          BY <1>1, <4>1, <4>2, <4>3 DEF StartInTurn, StartOp
        <5> QED
          BY <4>3, <5>1
      <4>4. CASE o.type = "ShareDelete"
        <5>1. share'[o.inst][o.vol] = [share[o.inst][o.vol] EXCEPT !.state = "DELETING"]
          BY <1>1, <4>1, <4>2, <4>4 DEF StartInTurn, StartOp
        <5> QED
          BY <4>2, <4>4, <5>1 DEF ShareRec
      <4>5. CASE o.type = "ShareUpdate"
        <5>1. share'[o.inst][o.vol] = share[o.inst][o.vol]
          BY <1>1, <4>1, <4>2, <4>5 DEF StartInTurn, StartOp
        <5> QED
          BY <4>5, <5>1
      <4> QED
        BY <4>3, <4>4, <4>5
    <3>2. o.type = "ShareUpdate" => share[o.inst][o.vol].state = "READY"
      BY DEF StartInTurn, StartOp, Accepts
    <3> QED
      BY <2>2, <3>1, <3>2 DEF Shows, ShareOps
  <2> QED
    BY <1>1, <2>1, <2>2
<1>6. OpsShow'
  BY <1>0, <1>4, <1>5, OthersStillShow DEF StartInTurn, OpsShow
<1>7. SharesOnUsableInstances'
  <2> SUFFICES ASSUME NEW i \in Insts, NEW v \in Vols, share'[i][v].state # "ABSENT"
               PROVE  instance'[i].state \in {"READY", "REPAIRING"}
    BY DEF SharesOnUsableInstances
  <2>1. CASE i # o.inst
    BY <1>0, <1>4, <2>1 DEF TouchesOnly, SharesOnUsableInstances
  <2>2. CASE i = o.inst /\ o.type \in InstanceOps
    <3>1. share' = share
      BY <1>1, <2>2 DEF StartInTurn, StartOp, InstanceOps, ShareOps
    <3>2. instance[i].state \in {"READY", "REPAIRING"} /\ v \in SharesOf(i)
      BY <1>0, <3>1 DEF SharesOnUsableInstances, SharesOf
    <3>3. o.type = "InstanceUpdate"
      BY <2>2, <3>2 DEF StartInTurn, StartOp, Accepts, InstanceOps
    <3> QED
      BY <1>0, <1>1, <2>2, <3>2, <3>3 DEF StartInTurn, StartOp, CloudTypeOK, InstanceRec
  <2>3. CASE i = o.inst /\ o.type \in ShareOps
    <3>1. instance'[i].state = instance[i].state
      BY <1>1, <1>4, <2>3 DEF TouchesOnly, InstanceOps, ShareOps
    <3>2. CASE v # o.vol
      BY <1>0, <1>4, <3>1, <3>2 DEF TouchesOnly, SharesOnUsableInstances
    <3>3. CASE v = o.vol /\ o.type = "ShareCreate"
      BY <2>3, <3>1, <3>3 DEF StartInTurn, StartOp, Accepts
    <3>4. CASE v = o.vol /\ o.type # "ShareCreate"
      BY <1>0, <2>3, <3>1, <3>4 DEF StartInTurn, StartOp, Accepts, ShareOps, SharesOnUsableInstances
    <3> QED
      BY <3>2, <3>3, <3>4
  <2> QED
    BY <1>1, <2>1, <2>2, <2>3
<1> QED
  BY <1>2, <1>3, <1>6, <1>7 DEF DisciplineInv

\* So does the success of a running operation.
LEMMA InvSucceeds ==
  ASSUME DisciplineInv, NEW o \in ops, OpSucceeds(o)
  PROVE  DisciplineInv'
<1>0. /\ CloudTypeOK /\ ExclusiveOps /\ OpsShow /\ SharesOnUsableInstances
      /\ o \in Op /\ ops \subseteq Op /\ ops' = ops \ {o} /\ Shows(o)
  BY DEF DisciplineInv, OpSucceeds, CloudTypeOK, OpsShow
<1>1. /\ o.inst \in Insts /\ o.cap \in Nat /\ NoVol \notin Vols
      /\ \/ o.type \in InstanceOps /\ o.vol = NoVol
         \/ o.type \in ShareOps /\ o.vol \in Vols
  BY <1>0, OpShape
<1>2. CloudTypeOK'
  <2>1. instance' \in [Insts -> InstanceRec]
    BY <1>0, <1>1 DEF OpSucceeds, CloudTypeOK, InstanceRec, InstanceStates, AbsentInstance
  <2>2. share' \in [Insts -> [Vols -> ShareRec]]
    <3>1. CASE o.vol = NoVol
      BY <1>0, <3>1 DEF OpSucceeds, CloudTypeOK
    <3>2. CASE o.vol # NoVol
      <4>1. share[o.inst] \in [Vols -> ShareRec] /\ share[o.inst][o.vol] \in ShareRec
        BY <1>0, <1>1, <3>2 DEF CloudTypeOK
      <4>2. /\ [share[o.inst][o.vol] EXCEPT !.state = "READY"] \in ShareRec
            /\ [share[o.inst][o.vol] EXCEPT !.cap = o.cap] \in ShareRec
            /\ AbsentShare \in ShareRec
        BY <1>1, <4>1 DEF ShareRec, ShareStates, AbsentShare
      <4> QED
        BY <1>0, <1>1, <3>2, <4>1, <4>2 DEF OpSucceeds, CloudTypeOK
    <3> QED
      BY <3>1, <3>2
  <2> QED
    BY <1>0, <2>1, <2>2 DEF CloudTypeOK
<1>3. ExclusiveOps'
  BY <1>0 DEF ExclusiveOps, Conflict
<1>4. TouchesOnly(o)
  BY <1>0, <1>1 DEF OpSucceeds, CloudTypeOK, TouchesOnly, InstanceOps, ShareOps, InstanceRec
<1>6. OpsShow'
  BY <1>0, <1>4, OthersStillShow DEF ExclusiveOps, OpsShow
<1>7. SharesOnUsableInstances'
  <2> SUFFICES ASSUME NEW i \in Insts, NEW v \in Vols, share'[i][v].state # "ABSENT"
               PROVE  instance'[i].state \in {"READY", "REPAIRING"}
    BY DEF SharesOnUsableInstances
  <2>1. CASE i # o.inst
    BY <1>0, <1>4, <2>1 DEF TouchesOnly, SharesOnUsableInstances
  <2>2. CASE i = o.inst /\ o.type \in InstanceOps
    <3>1. share' = share
      BY <1>1, <2>2 DEF OpSucceeds, InstanceOps, ShareOps
    <3>2. instance[i].state \in {"READY", "REPAIRING"}
      BY <1>0, <3>1 DEF SharesOnUsableInstances
    <3>3. o.type = "InstanceUpdate"
      BY <1>0, <2>2, <3>2 DEF Shows, InstanceOps
    <3> QED
      BY <1>0, <1>1, <2>2, <3>2, <3>3 DEF OpSucceeds, CloudTypeOK, InstanceRec
  <2>3. CASE i = o.inst /\ o.type \in ShareOps
    <3>1. instance'[i].state = instance[i].state
      BY <1>1, <1>4, <2>3 DEF TouchesOnly, InstanceOps, ShareOps
    <3>2. CASE v # o.vol
      BY <1>0, <1>4, <3>1, <3>2 DEF TouchesOnly, SharesOnUsableInstances
    <3>3. CASE v = o.vol
      BY <1>0, <2>3, <3>1, <3>3 DEF Shows, ShareOps, SharesOnUsableInstances
    <3> QED
      BY <3>2, <3>3
  <2> QED
    BY <1>1, <2>1, <2>2, <2>3
<1> QED
  BY <1>2, <1>3, <1>6, <1>7 DEF DisciplineInv

\* And its failure.
LEMMA InvFails ==
  ASSUME DisciplineInv, NEW o \in ops, OpFails(o)
  PROVE  DisciplineInv'
<1>0. /\ CloudTypeOK /\ ExclusiveOps /\ OpsShow /\ SharesOnUsableInstances
      /\ o \in Op /\ ops \subseteq Op /\ ops' = ops \ {o} /\ Shows(o)
  BY DEF DisciplineInv, OpFails, CloudTypeOK, OpsShow
<1>1. /\ o.inst \in Insts /\ o.cap \in Nat /\ NoVol \notin Vols
      /\ \/ o.type \in InstanceOps /\ o.vol = NoVol
         \/ o.type \in ShareOps /\ o.vol \in Vols
  BY <1>0, OpShape
<1>2. CloudTypeOK'
  <2>1. instance' \in [Insts -> InstanceRec]
    BY <1>0, <1>1 DEF OpFails, CloudTypeOK, InstanceRec, InstanceStates
  <2>2. share' \in [Insts -> [Vols -> ShareRec]]
    <3>1. CASE o.vol = NoVol
      BY <1>0, <3>1 DEF OpFails, CloudTypeOK
    <3>2. CASE o.vol # NoVol
      <4>1. share[o.inst] \in [Vols -> ShareRec] /\ share[o.inst][o.vol] \in ShareRec
        BY <1>0, <1>1, <3>2 DEF CloudTypeOK
      <4>2. /\ [share[o.inst][o.vol] EXCEPT !.state = "READY"] \in ShareRec
            /\ AbsentShare \in ShareRec
        BY <4>1 DEF ShareRec, ShareStates, AbsentShare
      <4> QED
        BY <1>0, <1>1, <3>2, <4>1, <4>2 DEF OpFails, CloudTypeOK
    <3> QED
      BY <3>1, <3>2
  <2> QED
    BY <1>0, <2>1, <2>2 DEF CloudTypeOK
<1>3. ExclusiveOps'
  BY <1>0 DEF ExclusiveOps, Conflict
<1>4. TouchesOnly(o)
  BY <1>0, <1>1 DEF OpFails, CloudTypeOK, TouchesOnly, InstanceOps, ShareOps, InstanceRec
<1>6. OpsShow'
  BY <1>0, <1>4, OthersStillShow DEF ExclusiveOps, OpsShow
<1>7. SharesOnUsableInstances'
  <2> SUFFICES ASSUME NEW i \in Insts, NEW v \in Vols, share'[i][v].state # "ABSENT"
               PROVE  instance'[i].state \in {"READY", "REPAIRING"}
    BY DEF SharesOnUsableInstances
  <2>1. CASE i # o.inst
    BY <1>0, <1>4, <2>1 DEF TouchesOnly, SharesOnUsableInstances
  <2>2. CASE i = o.inst /\ o.type \in InstanceOps
    <3>1. share' = share
      BY <1>1, <2>2 DEF OpFails, InstanceOps, ShareOps
    <3>2. instance[i].state \in {"READY", "REPAIRING"}
      BY <1>0, <3>1 DEF SharesOnUsableInstances
    <3>3. o.type = "InstanceUpdate"
      BY <1>0, <2>2, <3>2 DEF Shows, InstanceOps
    <3> QED
      BY <1>0, <1>1, <2>2, <3>2, <3>3 DEF OpFails, CloudTypeOK, InstanceRec
  <2>3. CASE i = o.inst /\ o.type \in ShareOps
    <3>1. instance'[i].state = instance[i].state
      BY <1>1, <1>4, <2>3 DEF TouchesOnly, InstanceOps, ShareOps
    <3>2. CASE v # o.vol
      BY <1>0, <1>4, <3>1, <3>2 DEF TouchesOnly, SharesOnUsableInstances
    <3>3. CASE v = o.vol
      BY <1>0, <2>3, <3>1, <3>3 DEF Shows, ShareOps, SharesOnUsableInstances
    <3> QED
      BY <3>2, <3>3
  <2> QED
    BY <1>1, <2>1, <2>2, <2>3
<1> QED
  BY <1>2, <1>3, <1>6, <1>7 DEF DisciplineInv

\* Repair only moves an instance between the two usable states.
LEMMA InvRepair ==
  ASSUME DisciplineInv, NEW i \in Insts, RepairStarts(i) \/ RepairEnds(i)
  PROVE  DisciplineInv'
<1>0. /\ CloudTypeOK /\ ExclusiveOps /\ OpsShow /\ SharesOnUsableInstances
      /\ share' = share /\ ops' = ops /\ ops \subseteq Op
  BY DEF DisciplineInv, CloudTypeOK, RepairStarts, RepairEnds
<1>1. /\ instance' \in [Insts -> InstanceRec]
      /\ {instance[i].state, instance'[i].state} = {"READY", "REPAIRING"}
      /\ \A j \in Insts : j # i => instance'[j].state = instance[j].state
  BY <1>0 DEF RepairStarts, RepairEnds, CloudTypeOK, InstanceRec, InstanceStates
<1>2. CloudTypeOK' /\ ExclusiveOps'
  BY <1>0, <1>1 DEF CloudTypeOK, ExclusiveOps, Conflict
<1>3. OpsShow'
  <2> SUFFICES ASSUME NEW o \in ops PROVE Shows(o)'
    BY <1>0 DEF OpsShow
  <2>1. Shows(o) /\ o.inst \in Insts
    BY <1>0, OpShape DEF OpsShow
  <2> QED
    BY <1>0, <1>1, <2>1 DEF Shows
<1>4. SharesOnUsableInstances'
  BY <1>0, <1>1 DEF SharesOnUsableInstances
<1> QED
  BY <1>2, <1>3, <1>4 DEF DisciplineInv

-----------------------------------------------------------------------------
\* Every step of the discipline preserves the invariant.
LEMMA InvStep == DisciplineInv /\ [DisciplineNext]_cloudVars => DisciplineInv'
<1> SUFFICES ASSUME DisciplineInv, [DisciplineNext]_cloudVars PROVE DisciplineInv'
  OBVIOUS
<1>1. CASE \E o \in ops' \ ops, protocol \in Protocols \cup {""} : StartInTurn(o, protocol)
  BY <1>1, InvStart
<1>2. CASE \E o \in ops : OpSucceeds(o) \/ OpFails(o)
  BY <1>2, InvSucceeds, InvFails
<1>3. CASE \E i \in Insts : RepairStarts(i) \/ RepairEnds(i)
  BY <1>3, InvRepair
<1>4. CASE UNCHANGED cloudVars
  BY <1>4 DEF cloudVars, DisciplineInv, CloudTypeOK, ExclusiveOps, Conflict, OpsShow, Shows,
              SharesOnUsableInstances
<1> QED
  BY <1>1, <1>2, <1>3, <1>4 DEF DisciplineNext

\* The invariant gives what the discipline promises.
LEMMA InvIsSafe == DisciplineInv => ExclusiveOps /\ NoShareOnDyingInstance
BY DEF DisciplineInv, SharesOnUsableInstances, NoShareOnDyingInstance, SharesOf

\* Operations of a client that keeps to the discipline are exclusive, and an
\* instance being deleted has no share and gets none.
THEOREM DisciplineSafe == DisciplineSpec => [](ExclusiveOps /\ NoShareOnDyingInstance)
<1> QED
  BY InvInit, InvStep, InvIsSafe, PTL DEF DisciplineSpec

-----------------------------------------------------------------------------
(* Capacities are naturals. *)

\* The sum over ListShares is a natural, and so are the sizes computed from it.
LEMMA SizesType ==
  ASSUME CloudTypeOK, NEW i \in Insts, NEW needed \in Nat
  PROVE  /\ SumShareBytes(i) \in Nat
         /\ ExpandTarget(i, needed) \in Nat
         /\ ShrinkTarget(i) \in Nat
<1>1. [v \in Vols |-> share[i][v].cap] \in [Vols -> Nat]
  BY DEF CloudTypeOK, ShareRec
<1>2. SumShareBytes(i) \in Nat
  BY <1>1, SumType, FilestoreAssumption DEF SumShareBytes
<1>3. /\ AlignBytes(SumShareBytes(i), StepSize) \in Nat
      /\ AlignBytes(needed + SumShareBytes(i), StepSize) \in Nat
  <2>1. needed + SumShareBytes(i) \in Nat /\ StepSize \in Nat
    BY <1>2, OpsManagerAssumption
  <2> QED
    BY <1>2, <2>1, AlignType
<1> QED
  BY <1>2, <1>3, OpsManagerAssumption DEF ExpandTarget, ShrinkTarget, Smaller, Larger

\* Operations built from typed parts are operations.
LEMMA OpOnInstanceType ==
  ASSUME NEW type \in InstanceOps, NEW i \in Insts, NEW cap \in Nat
  PROVE  OpOnInstance(type, i, cap) \in Op
BY DEF OpOnInstance, Op, InstanceOp

LEMMA OpOnShareType ==
  ASSUME NEW type \in ShareOps, NEW i \in Insts, NEW v \in Vols, NEW cap \in Nat
  PROVE  OpOnShare(type, i, v, cap) \in Op
BY DEF OpOnShare, Op, ShareOp

-----------------------------------------------------------------------------
(* The steps the handlers share.  Each keeps to the discipline, or leaves    *)
(* the cloud alone, and preserves the driver's part of the invariant.        *)

Sound == [DisciplineNext]_cloudVars /\ DriverInv'

\* Steps that leave the cloud alone keep to the discipline.
LEMMA CloudAlone == UNCHANGED cloudVars => [DisciplineNext]_cloudVars
OBVIOUS

\* Idle is a request, of no volume.
LEMMA IdleType == Idle \in Request /\ Idle.pc = "idle"
BY DEF Idle, Request, Pcs

\* The holder of the mutex and the list it took: what a return does to them.
LEMMA ReturnMutex ==
  ASSUME DriverInv, NEW w \in Workers, Return(w), ops' = ops,
         \A v \in Vols : pv[v].inst \in Insts => pv'[v].inst \in Insts
  PROVE  /\ OpsManagerTypeOK' /\ SnapOK' /\ MutexOK' /\ RequestOK'
         /\ work' \in [Workers -> Request] /\ volumeLocks' \in SUBSET LockKeys
<1>1. /\ work \in [Workers -> Request] /\ mutex \in Workers \cup {NoWorker}
      /\ snap \in SUBSET Op /\ volumeLocks \in SUBSET LockKeys
      /\ NoWorker \notin Workers
  BY OpsManagerAssumption DEF DriverInv, DriverTypeOK, OpsManagerTypeOK
<1>2. /\ work' = [work EXCEPT ![w] = Idle]
      /\ volumeLocks' \subseteq volumeLocks
      /\ IF mutex = w THEN mutex' = NoWorker /\ snap' = {} ELSE mutex' = mutex /\ snap' = snap
  BY DEF Return, opsManagerVars
<1>3. /\ work' \in [Workers -> Request] /\ work'[w] = Idle
      /\ \A u \in Workers : u # w => work'[u] = work[u]
  BY <1>1, <1>2, IdleType
<1>4. OpsManagerTypeOK' /\ SnapOK'
  BY <1>1, <1>2 DEF DriverInv, OpsManagerTypeOK, SnapOK
<1>5. MutexOK'
  BY <1>1, <1>2, <1>3, IdleType DEF DriverInv, MutexOK, Critical
<1>6. RequestOK'
  BY <1>3, IdleType DEF DriverInv, RequestOK
<1> QED
  BY <1>1, <1>2, <1>3, <1>4, <1>5, <1>6

\* An error return.
LEMMA ReturnErrorSound ==
  ASSUME DriverInv, NEW w \in Workers, ReturnError(w)
  PROVE  Sound
<1>1. Return(w) /\ UNCHANGED cloudVars /\ ops' = ops /\ pv' = pv /\ faults' = faults
  BY DEF ReturnError, cloudVars
<1>2. PVOK' /\ pv' \in [Vols -> PVRec] /\ faults' \in Nat
  BY <1>1 DEF DriverInv, DriverTypeOK, PVOK
<1> QED
  BY <1>1, <1>2, ReturnMutex DEF Sound, DriverInv, DriverTypeOK

\* A fault is counted, or not.
LEMMA FaultType == ASSUME faults \in Nat, Fault PROVE faults' \in Nat
BY DEF Fault

\* A successful return with a typed answer.
LEMMA ReturnSuccessSound ==
  ASSUME DriverInv, NEW w \in Workers, NEW newPV \in PVRec, newPV.inst \in Insts,
         ReturnSuccess(w, newPV)
  PROVE  Sound
<1>1. Return(w) /\ UNCHANGED cloudVars /\ ops' = ops
  BY DEF ReturnSuccess, cloudVars
<1>2. pv \in [Vols -> PVRec] /\ faults \in Nat /\ PVOK
  BY DEF DriverInv, DriverTypeOK
<1>3. /\ PVOK' /\ pv' \in [Vols -> PVRec] /\ faults' \in Nat
      /\ \A v \in Vols : pv[v].inst \in Insts => pv'[v].inst \in Insts
  <2>1. CASE pv' = [pv EXCEPT ![work[w].vol] = newPV] /\ faults' = faults
    BY <1>2, <2>1 DEF PVOK
  <2>2. CASE Fault /\ pv' = pv
    BY <1>2, <2>2, FaultType DEF PVOK
  <2> QED
    BY <2>1, <2>2 DEF ReturnSuccess
<1> QED
  BY <1>1, <1>3, ReturnMutex DEF Sound, DriverInv, DriverTypeOK

\* A step of one worker to a place outside the mutex, with the locks untouched.
LEMMA GotoSound ==
  ASSUME DriverInv, NEW w \in Workers, NEW pc \in Pcs \ Critical,
         pc \notin {"expand.lock"},
         work[w].pc \notin {"idle", "create.lock", "create.setup"},
         pc \in CreatePcs <=> work[w].pc \in CreatePcs,
         Goto(w, pc)
  PROVE  Sound
<1>1. /\ work \in [Workers -> Request] /\ work' = [work EXCEPT ![w].pc = pc]
      /\ UNCHANGED <<mutex, snap, volumeLocks, pv, faults, ops>> /\ UNCHANGED cloudVars
  BY DEF DriverInv, DriverTypeOK, Goto, opsManagerVars, cloudVars
<1>2. /\ work' \in [Workers -> Request] /\ work'[w].pc = pc
      /\ work'[w].vol = work[w].vol /\ work'[w].inst = work[w].inst
      /\ \A u \in Workers : u # w => work'[u] = work[u]
  BY <1>1 DEF Request
<1>3. RequestOK'
  BY <1>1, <1>2 DEF DriverInv, RequestOK, Critical, CreatePcs
<1>4. MutexOK' /\ SnapOK' /\ PVOK'
  BY <1>1, <1>2 DEF DriverInv, MutexOK, SnapOK, PVOK
<1> QED
  BY <1>1, <1>2, <1>3, <1>4 DEF Sound, DriverInv, DriverTypeOK, OpsManagerTypeOK

\* A request is accepted.
LEMMA AcceptSound ==
  ASSUME DriverInv, NEW w \in Workers, NEW r \in Request,
         r.pc \in {"create.lock", "delete.get", "expand.get"}, r.vol \in Vols,
         r.pc # "create.lock" => r.inst \in Insts /\ pv[r.vol].inst \in Insts,
         Accept(w, r)
  PROVE  Sound
<1>1. /\ work \in [Workers -> Request] /\ work' = [work EXCEPT ![w] = r]
      /\ volumeLocks' = volumeLocks \cup {LockKey(r)}
      /\ UNCHANGED <<mutex, snap, pv, faults, ops>> /\ UNCHANGED cloudVars
  BY DEF DriverInv, DriverTypeOK, Accept, opsManagerVars, cloudVars
<1>2. /\ work' \in [Workers -> Request] /\ work'[w] = r
      /\ \A u \in Workers : u # w => work'[u] = work[u]
  BY <1>1
<1>3. LockKey(r) \in LockKeys
  BY DEF LockKey, LockKeys, CreatePcs
<1>4. RequestOK'
  BY <1>1, <1>2 DEF DriverInv, RequestOK, CreatePcs
<1>5. MutexOK' /\ SnapOK' /\ PVOK'
  BY <1>1, <1>2 DEF DriverInv, MutexOK, SnapOK, PVOK, Critical
<1> QED
  BY <1>1, <1>2, <1>3, <1>4, <1>5 DEF Sound, DriverInv, DriverTypeOK, OpsManagerTypeOK

\* The mutex is locked and the running operations are listed.
LEMMA LockSound ==
  ASSUME ControllerInv, NEW w \in Workers, NEW from, NEW to \in Critical,
         NEW joinable \in SUBSET ops,
         from # "idle", to \in CreatePcs <=> from \in CreatePcs,
         to # "create.setup" => from \notin {"create.lock", "create.setup"},
         to = "expand.check" => from = "expand.lock",
         LockAndListOps(w, from, to, joinable)
  PROVE  Sound
<1> DEFINE op == IF joinable = {} THEN NoOp ELSE CHOOSE o \in joinable : TRUE
<1>1. /\ work \in [Workers -> Request] /\ work[w].pc = from /\ ops \subseteq Op
      /\ mutex = NoWorker /\ mutex' = w /\ snap' = ops
      /\ work' = [work EXCEPT ![w].pc = to, ![w].result = "none", ![w].op = op]
      /\ UNCHANGED <<volumeLocks, pv, faults, ops>> /\ UNCHANGED cloudVars
  BY DEF ControllerInv, DisciplineInv, CloudTypeOK, DriverInv, DriverTypeOK, LockAndListOps,
         cloudVars
<1>2. op \in Op \cup {NoOp}
  BY <1>1
<1> HIDE DEF op
<1>3. to \in Pcs
  BY DEF Pcs, Critical, CreatePcs, DeletePcs, ExpandPcs
<1>4. /\ work' \in [Workers -> Request] /\ work'[w].pc = to
      /\ work'[w].vol = work[w].vol /\ work'[w].inst = work[w].inst
      /\ work'[w].shareCap = work[w].shareCap
      /\ \A u \in Workers : u # w => work'[u] = work[u]
  <2> DEFINE r == [work[w] EXCEPT !.pc = to, !.result = "none", !.op = op]
  <2>1. /\ r \in Request /\ r.pc = to /\ r.vol = work[w].vol
        /\ r.inst = work[w].inst /\ r.shareCap = work[w].shareCap
    BY <1>1, <1>2, <1>3 DEF Request
  <2>2. work' = [work EXCEPT ![w] = r]
    BY <1>1
  <2> QED
    BY <1>1, <2>1, <2>2
<1>5. RequestOK'
  BY <1>1, <1>4 DEF ControllerInv, DriverInv, RequestOK, Critical
<1>6. MutexOK'
  BY <1>1, <1>4, OpsManagerAssumption DEF ControllerInv, DriverInv, MutexOK
<1>7. SnapOK' /\ PVOK' /\ OpsManagerTypeOK'
  BY <1>1 DEF ControllerInv, DriverInv, SnapOK, PVOK, OpsManagerTypeOK
<1> QED
  BY <1>1, <1>4, <1>5, <1>6, <1>7 DEF Sound, ControllerInv, DriverInv, DriverTypeOK

\* The mutex is released to poll an operation, or because a share was found:
\* work[w] becomes r, outside the mutex.
LEMMA UnlockSound ==
  ASSUME DriverInv, NEW w \in Workers, NEW r \in Request, work[w].pc \in Critical,
         r.pc \in Waiting \cup {"create.get"}, r.pc \in CreatePcs <=> work[w].pc \in CreatePcs,
         r.vol = work[w].vol, r.inst \in Insts,
         work' = [work EXCEPT ![w] = r],
         mutex' = NoWorker, snap' = {},
         UNCHANGED <<volumeLocks, pv, faults>>
  PROVE  DriverInv'
<1>1. mutex = w /\ work \in [Workers -> Request]
  BY DEF DriverInv, MutexOK, DriverTypeOK
<1>2. /\ work' \in [Workers -> Request] /\ work'[w] = r
      /\ \A u \in Workers : u # w => work'[u] = work[u]
  BY <1>1
<1>3. RequestOK' /\ MutexOK' /\ SnapOK' /\ PVOK' /\ OpsManagerTypeOK'
  BY <1>1, <1>2 DEF DriverInv, RequestOK, MutexOK, SnapOK, PVOK, OpsManagerTypeOK, Critical, Waiting
<1> QED
  BY <1>2, <1>3 DEF DriverInv, DriverTypeOK

\* A handler in a critical step knows its volume, and from create.share on its
\* instance; no operation runs that its list misses.
LEMMA CriticalKnows ==
  ASSUME DriverInv, NEW w \in Workers, work[w].pc \in Critical
  PROVE  /\ work[w] \in Request /\ work[w].vol \in Vols
         /\ work[w].pc # "create.setup" => work[w].inst \in Insts
         /\ ops \subseteq snap
BY OpsManagerAssumption
   DEF DriverInv, DriverTypeOK, RequestOK, MutexOK, SnapOK, Critical

\* An operation verified against the list taken under the mutex conflicts with
\* no operation that runs, and is started in turn.
LEMMA StartSound ==
  ASSUME ControllerInv, NEW w \in Workers, work[w].pc \in Critical,
         NEW o \in Op, NEW to \in Waiting,
         to \in CreatePcs <=> work[w].pc \in CreatePcs,
         o.type = "InstanceDelete" => Empty(o.inst),
         StartWorkflow(w, o, to)
  PROVE  Sound
<1> DEFINE protocol == IF o.type = "InstanceCreate" THEN Protocol[work[w].vol] ELSE ""
<1>1. DriverInv /\ ops \subseteq snap /\ work[w] \in Request /\ work[w].vol \in Vols
  BY CriticalKnows DEF ControllerInv
<1>2. protocol \in Protocols \cup {""}
  BY <1>1, OpsManagerAssumption
<1>3. \A p \in ops : ~Conflict(o, p)
  BY <1>1 DEF StartWorkflow, NoConflict, InstanceBusy, ShareBusy, Conflict
<1>4. StartInTurn(o, protocol)
  BY <1>3 DEF StartWorkflow, StartInTurn, Empty
<1>5. o \in ops' \ ops
  BY <1>3 DEF StartWorkflow, StartOp, Conflict
<1>6. DisciplineNext
  BY <1>2, <1>4, <1>5 DEF DisciplineNext
<1> DEFINE r == [work[w] EXCEPT !.pc = to, !.op = o, !.result = "none", !.inst = o.inst]
<1>7. o.inst \in Insts /\ to \in Pcs
  BY OpShape DEF Waiting, Pcs, CreatePcs, DeletePcs, ExpandPcs
<1>8. r \in Request /\ r.pc = to /\ r.vol = work[w].vol /\ r.inst = o.inst
  BY <1>1, <1>7 DEF Request
<1>9. work' = [work EXCEPT ![w] = r] /\ mutex' = NoWorker /\ snap' = {}
      /\ UNCHANGED <<volumeLocks, pv, faults>>
  BY DEF StartWorkflow
<1> HIDE DEF r
<1>10. DriverInv'
  BY <1>1, <1>7, <1>8, <1>9, UnlockSound
<1> QED
  BY <1>6, <1>10 DEF Sound

\* Start it, or return the error of the verification or of the service.
LEMMA StartOrRefuseSound ==
  ASSUME ControllerInv, NEW w \in Workers, work[w].pc \in Critical,
         NEW o \in Op, NEW to \in Waiting,
         to \in CreatePcs <=> work[w].pc \in CreatePcs,
         o.type = "InstanceDelete" => Empty(o.inst),
         StartOrRefuse(w, o, to)
  PROVE  Sound
BY StartSound, ReturnErrorSound DEF StartOrRefuse, Refused, ControllerInv

\* Polling ends.
LEMMA PollDoneSound ==
  ASSUME DriverInv, NEW w \in Workers, NEW from \in Waiting, NEW to \in Pcs \ Critical,
         to # "expand.lock", to \in CreatePcs <=> from \in CreatePcs,
         PollDone(w, from, to)
  PROVE  Sound
BY GotoSound DEF PollDone, Waiting

-----------------------------------------------------------------------------
(* CreateVolume, DeleteVolume and ControllerExpandVolume. *)

\* The requests that start a handler.
LEMMA RequestsSound ==
  ASSUME DriverInv, NEW w \in Workers, NEW v \in Vols,
         CreateVolume(w, v) \/ DeleteVolume(w, v) \/ ControllerExpandVolume(w, v)
  PROVE  Sound
<1> USE DEF Pcs, CreatePcs, DeletePcs, ExpandPcs
<1>1. \A pc \in Pcs : [Idle EXCEPT !.pc = pc, !.vol = v] \in Request
  BY DEF Request, Idle
<1>2. \A pc \in Pcs, i \in Insts : [Idle EXCEPT !.pc = pc, !.vol = v, !.inst = i] \in Request
  BY DEF Request, Idle
<1>3. CASE CreateVolume(w, v)
  <2> DEFINE r == [Idle EXCEPT !.pc = "create.lock", !.vol = v]
  <2>1. r \in Request /\ r.pc = "create.lock" /\ r.vol = v
    BY <1>1 DEF Idle
  <2>2. Accept(w, r)
    BY <1>3 DEF CreateVolume
  <2> HIDE DEF r
  <2> QED
    BY <2>1, <2>2, AcceptSound
<1>4. CASE DeleteVolume(w, v)
  <2> DEFINE r == [Idle EXCEPT !.pc = "delete.get", !.vol = v, !.inst = pv[v].inst]
  <2>1. pv[v].inst \in Insts
    BY <1>4 DEF DeleteVolume, DriverInv, PVOK
  <2>2. r \in Request /\ r.pc = "delete.get" /\ r.vol = v /\ r.inst = pv[v].inst
    BY <1>2, <2>1 DEF Idle
  <2>3. Accept(w, r)
    BY <1>4 DEF DeleteVolume
  <2> HIDE DEF r
  <2> QED
    BY <2>1, <2>2, <2>3, AcceptSound
<1>5. CASE ControllerExpandVolume(w, v)
  <2> DEFINE r == [Idle EXCEPT !.pc = "expand.get", !.vol = v, !.inst = pv[v].inst]
  <2>1. pv[v].inst \in Insts
    BY <1>5 DEF ControllerExpandVolume, DriverInv, PVOK
  <2>2. r \in Request /\ r.pc = "expand.get" /\ r.vol = v /\ r.inst = pv[v].inst
    BY <1>2, <2>1 DEF Idle
  <2>3. Accept(w, r)
    BY <1>5 DEF ControllerExpandVolume
  <2> HIDE DEF r
  <2> QED
    BY <2>1, <2>2, <2>3, AcceptSound
<1> QED
  BY <1>3, <1>4, <1>5

\* What a placement of a volume may start.
LEMMA PlacementsType ==
  ASSUME CloudTypeOK, NEW v \in Vols, NEW o \in Placements(v)
  PROVE  o \in Op /\ o.type # "InstanceDelete"
<1>1. ShareSize[v] \in Nat /\ MinCap \in Nat
  BY OpsManagerAssumption
<1>2. CASE ReadyEligible(v) # {}
  <2>1. PICK i \in Insts : o = PlacementOn(i, v)
    BY <1>2 DEF Placements, ReadyEligible, Matched
  <2>2. ExpandTarget(i, ShareSize[v]) \in Nat
    BY <1>1, SizesType
  <2>3. /\ OpOnInstance("InstanceUpdate", i, ExpandTarget(i, ShareSize[v])) \in Op
        /\ OpOnShare("ShareCreate", i, v, ShareSize[v]) \in Op
    BY <1>1, <2>2, OpOnInstanceType, OpOnShareType DEF InstanceOps, ShareOps
  <2> QED
    BY <2>1, <2>3 DEF PlacementOn, OpOnInstance, OpOnShare
<1>3. CASE ReadyEligible(v) = {}
  <2>1. PICK i \in Insts : o = OpOnInstance("InstanceCreate", i, MinCap)
    BY <1>3 DEF Placements
  <2> QED
    BY <1>1, <2>1, OpOnInstanceType DEF InstanceOps, OpOnInstance
<1> QED
  BY <1>2, <1>3

\* setupEligibleInstanceAndStartWorkflow.
LEMMA CreateSetupSound ==
  ASSUME ControllerInv, NEW w \in Workers, CreateSetup(w)
  PROVE  Sound
<1> DEFINE v == work[w].vol
<1>1. DriverInv /\ CloudTypeOK
  BY DEF ControllerInv, DisciplineInv
<1>2. work[w].pc = "create.setup" /\ work[w].pc \in Critical /\ work[w].pc \in CreatePcs
  BY DEF CreateSetup, Critical, CreatePcs
<1>3. v \in Vols /\ work[w] \in Request
  BY <1>1, <1>2, CriticalKnows
<1>4. CASE ReturnError(w)
  BY <1>1, <1>4, ReturnErrorSound
<1>5. ASSUME NEW i \in ExistingShare(v),
             work' = [work EXCEPT ![w].pc = "create.get", ![w].inst = i],
             mutex' = NoWorker, snap' = {}, UNCHANGED <<cloudVars, volumeLocks, pv, faults>>
      PROVE  Sound
  <2> DEFINE r == [work[w] EXCEPT !.pc = "create.get", !.inst = i]
  <2>1. i \in Insts
    BY <1>5 DEF ExistingShare
  <2>2. r \in Request /\ r.pc = "create.get" /\ r.vol = v /\ r.inst = i
    BY <1>3, <2>1 DEF Request, Pcs, CreatePcs
  <2>3. work' = [work EXCEPT ![w] = r]
    BY <1>5
  <2> HIDE DEF r
  <2>4. DriverInv'
    BY <1>1, <1>2, <1>5, <2>1, <2>2, <2>3, UnlockSound DEF CreatePcs
  <2> QED
    BY <1>5, <2>4, CloudAlone DEF Sound
<1>6. ASSUME NEW o \in Placements(v), StartOrRefuse(w, o, "create.wait")
      PROVE  Sound
  BY <1>1, <1>2, <1>3, <1>6, PlacementsType, StartOrRefuseSound DEF Waiting, CreatePcs
<1> QED
  BY <1>4, <1>5, <1>6 DEF CreateSetup

\* The steps of CreateVolume.
LEMMA CreateSound ==
  ASSUME ControllerInv, NEW w \in Workers, CreateStep(w)
  PROVE  Sound
<1> USE DEF CreatePcs, Waiting, Critical, Pcs
<1>1. DriverInv
  BY DEF ControllerInv
<1>2. CASE CreateLock(w)
  <2>1. LockAndListOps(w, "create.lock", "create.setup", {})
    BY <1>2 DEF CreateLock
  <2>2. "create.setup" \in Critical /\ {} \in SUBSET ops
    OBVIOUS
  <2> HIDE DEF Waiting, Critical, Pcs
  <2> QED
    BY <2>1, <2>2, LockSound
<1>3. CASE CreateSetup(w)
  BY <1>3, CreateSetupSound
<1>4. CASE CreateWait(w)
  BY <1>1, <1>4, PollDoneSound DEF CreateWait
<1>5. CASE CreateRelock(w)
  <2>1. LockAndListOps(w, "create.relock", "create.share", {})
    BY <1>5 DEF CreateRelock
  <2>2. "create.share" \in Critical /\ {} \in SUBSET ops
    OBVIOUS
  <2> HIDE DEF Waiting, Critical, Pcs
  <2> QED
    BY <2>1, <2>2, LockSound
<1>6. CASE CreateShare(w)
  <2> DEFINE r == work[w]
             o == OpOnShare("ShareCreate", r.inst, r.vol, ShareSize[r.vol])
  <2>1. r.pc = "create.share" /\ r \in Request /\ r.vol \in Vols /\ r.inst \in Insts
    BY <1>1, <1>6, CriticalKnows DEF CreateShare
  <2>2. o \in Op /\ o.type # "InstanceDelete"
    BY <2>1, OpOnShareType, OpsManagerAssumption DEF ShareOps, OpOnShare
  <2>3. StartOrRefuse(w, o, "create.shareWait")
    BY <1>6 DEF CreateShare
  <2> HIDE DEF o
  <2> QED
    BY <2>1, <2>2, <2>3, StartOrRefuseSound
<1>7. CASE CreateShareWait(w)
  BY <1>1, <1>7, PollDoneSound DEF CreateShareWait
<1>8. CASE CreateGetShare(w)
  <2> DEFINE r == work[w]
             newPV == [phase |-> "bound", inst |-> r.inst, cap |-> ShareSize[r.vol]]
  <2>1. r \in Request /\ r.vol \in Vols /\ r.inst \in Insts
    BY <1>1, <1>8 DEF CreateGetShare, DriverInv, DriverTypeOK, RequestOK
  <2>2. newPV \in PVRec /\ newPV.inst \in Insts
    BY <2>1, OpsManagerAssumption DEF PVRec, Phases, Request
  <2>3. ReturnSuccess(w, newPV) \/ ReturnError(w)
    BY <1>8 DEF CreateGetShare
  <2> HIDE DEF newPV
  <2> QED
    BY <1>1, <2>2, <2>3, ReturnSuccessSound, ReturnErrorSound
<1> QED
  BY <1>2, <1>3, <1>4, <1>5, <1>6, <1>7, <1>8 DEF CreateStep

\* The steps of DeleteVolume.
LEMMA DeleteSucceedsSound ==
  ASSUME DriverInv, NEW w \in Workers, work[w].pc \in DeletePcs, DeleteSucceeds(w)
  PROVE  Sound
<1> DEFINE v == work[w].vol
           newPV == [pv[v] EXCEPT !.phase = "deleted"]
<1>1. v \in Vols /\ pv[v].inst \in Insts /\ pv[v] \in PVRec
  BY DEF DriverInv, DriverTypeOK, RequestOK, DeletePcs, CreatePcs
<1>2. newPV \in PVRec /\ newPV.inst \in Insts
  BY <1>1 DEF PVRec, Phases
<1>3. ReturnSuccess(w, newPV)
  BY DEF DeleteSucceeds
<1> HIDE DEF newPV
<1> QED
  BY <1>2, <1>3, ReturnSuccessSound

LEMMA DeleteSound ==
  ASSUME ControllerInv, NEW w \in Workers, DeleteStep(w)
  PROVE  Sound
<1> USE DEF CreatePcs, DeletePcs, Waiting, Critical, Pcs
<1>1. DriverInv /\ CloudTypeOK
  BY DEF ControllerInv, DisciplineInv
<1>2. CASE DeleteGetShare(w)
  BY <1>1, <1>2, GotoSound DEF DeleteGetShare
<1>3. CASE DeleteLock(w)
  <2>1. OpsOnShare("ShareDelete", work[w].inst, work[w].vol) \in SUBSET ops
    BY DEF OpsOnShare
  <2>2. /\ "delete.share" \in Critical
        /\ LockAndListOps(w, "delete.lock", "delete.share",
                          OpsOnShare("ShareDelete", work[w].inst, work[w].vol))
    BY <1>3 DEF DeleteLock
  <2> HIDE DEF Waiting, Critical, Pcs
  <2> QED
    BY <2>1, <2>2, LockSound
<1>4. CASE DeleteShare(w)
  <2> DEFINE r == work[w]
             o == OpOnShare("ShareDelete", r.inst, r.vol, 0)
  <2>1. r.pc = "delete.share" /\ r \in Request /\ r.vol \in Vols /\ r.inst \in Insts
    BY <1>1, <1>4, CriticalKnows DEF DeleteShare
  <2>2. CASE UnlockAndWait(w, "delete.wait")
    <3> DEFINE q == [r EXCEPT !.pc = "delete.wait"]
    <3>1. q \in Request /\ q.pc = "delete.wait" /\ q.vol = r.vol /\ q.inst = r.inst
      BY <2>1 DEF Request
    <3>2. /\ work' = [work EXCEPT ![w] = q] /\ mutex' = NoWorker /\ snap' = {}
          /\ UNCHANGED <<volumeLocks, pv, faults>> /\ UNCHANGED cloudVars
      BY <2>2 DEF UnlockAndWait
    <3> HIDE DEF q
    <3>3. DriverInv'
      BY <1>1, <2>1, <3>1, <3>2, UnlockSound
    <3> QED
      BY <3>2, <3>3, CloudAlone DEF Sound
  <2>3. CASE StartOrRefuse(w, o, "delete.wait")
    <3>1. o \in Op /\ o.type # "InstanceDelete"
      BY <2>1, OpOnShareType DEF ShareOps, OpOnShare
    <3> HIDE DEF o
    <3> QED
      BY <2>1, <2>3, <3>1, StartOrRefuseSound
  <2> QED
    BY <1>4, <2>2, <2>3 DEF DeleteShare
<1>5. CASE DeleteWait(w)
  BY <1>1, <1>5, PollDoneSound DEF DeleteWait
<1>6. CASE DeleteRelock(w)
  <2>1. LockAndListOps(w, "delete.relock", "delete.instance", {})
    BY <1>6 DEF DeleteRelock
  <2>2. "delete.instance" \in Critical /\ {} \in SUBSET ops
    OBVIOUS
  <2> HIDE DEF Waiting, Critical, Pcs
  <2> QED
    BY <2>1, <2>2, LockSound
<1>7. CASE DeleteOrShrinkInstance(w)
  <2> DEFINE i == work[w].inst
  <2>1. work[w].pc = "delete.instance" /\ i \in Insts
    BY <1>1, <1>7, CriticalKnows DEF DeleteOrShrinkInstance
  <2>2. ShrinkTarget(i) \in Nat
    BY <1>1, <2>1, SizesType
  <2>3. CASE ReturnError(w)
    BY <1>1, <2>3, ReturnErrorSound
  <2>4. CASE DeleteSucceeds(w)
    BY <1>1, <2>1, <2>4, DeleteSucceedsSound
  <2>5. ASSUME Empty(i),
               StartOrRefuse(w, OpOnInstance("InstanceDelete", i, 0), "delete.instanceWait")
        PROVE  Sound
    <3> DEFINE o == OpOnInstance("InstanceDelete", i, 0)
    <3>1. o \in Op /\ o.inst = i
      BY <2>1, OpOnInstanceType DEF InstanceOps, OpOnInstance
    <3>2. StartOrRefuse(w, o, "delete.instanceWait")
      BY <2>5
    <3> HIDE DEF o
    <3> QED
      BY <2>1, <2>5, <3>1, <3>2, StartOrRefuseSound
  <2>6. ASSUME StartOrRefuse(w, OpOnInstance("InstanceUpdate", i, ShrinkTarget(i)),
                             "delete.instanceWait")
        PROVE  Sound
    <3> DEFINE o == OpOnInstance("InstanceUpdate", i, ShrinkTarget(i))
    <3>1. o \in Op /\ o.type # "InstanceDelete"
      BY <2>1, <2>2, OpOnInstanceType DEF InstanceOps, OpOnInstance
    <3>2. StartOrRefuse(w, o, "delete.instanceWait")
      BY <2>6
    <3> HIDE DEF o
    <3> QED
      BY <2>1, <3>1, <3>2, StartOrRefuseSound
  <2> QED
    BY <1>7, <2>3, <2>4, <2>5, <2>6 DEF DeleteOrShrinkInstance
<1>8. CASE DeleteInstanceWait(w)
  BY <1>1, <1>8, DeleteSucceedsSound DEF DeleteInstanceWait
<1> QED
  BY <1>2, <1>3, <1>4, <1>5, <1>6, <1>7, <1>8 DEF DeleteStep

\* The steps of ControllerExpandVolume.
LEMMA ExpandSucceedsSound ==
  ASSUME DriverInv, NEW w \in Workers, work[w].pc \in ExpandPcs, ExpandSucceeds(w)
  PROVE  Sound
<1> DEFINE v == work[w].vol
           newPV == [pv[v] EXCEPT !.cap = Larger(@, ExpandSize[v])]
<1>1. v \in Vols /\ pv[v].inst \in Insts /\ pv[v] \in PVRec
  BY DEF DriverInv, DriverTypeOK, RequestOK, ExpandPcs, CreatePcs
<1>2. ExpandSize[v] \in Nat /\ pv[v].cap \in Nat
  BY <1>1, ControllerAssumption DEF PVRec
<1>3. newPV \in PVRec /\ newPV.inst \in Insts
  BY <1>1, <1>2 DEF PVRec, Larger
<1>4. ReturnSuccess(w, newPV)
  BY DEF ExpandSucceeds
<1> HIDE DEF newPV
<1> QED
  BY <1>3, <1>4, ReturnSuccessSound

\* The growth ExpandCheck asks for is a natural, and so what it starts is an
\* operation.
LEMMA ExpandSound ==
  ASSUME ControllerInv, NEW w \in Workers, ExpandStep(w)
  PROVE  Sound
<1> USE DEF CreatePcs, ExpandPcs, Waiting, Critical, Pcs
<1>1. DriverInv /\ CloudTypeOK
  BY DEF ControllerInv, DisciplineInv
<1> DEFINE r == work[w]
<1>2. r.pc \in ExpandPcs =>
        /\ r \in Request /\ r.vol \in Vols /\ r.inst \in Insts /\ pv[r.vol].inst \in Insts
        /\ ExpandSize[r.vol] \in Nat
  BY <1>1, ControllerAssumption DEF DriverInv, DriverTypeOK, RequestOK
<1>3. r.pc \in ExpandPcs => ExpandOp(r) \in Op /\ ExpandOp(r).type # "InstanceDelete"
  BY <1>2, OpOnShareType DEF ExpandOp, ShareOps, OpOnShare
<1>4. CASE ExpandGetShare(w)
  <2> DEFINE s == share[r.inst][r.vol]
             q == [r EXCEPT !.pc = "expand.lock", !.shareCap = s.cap,
                            !.parentCap = instance[r.inst].cap]
  <2>1. r.pc = "expand.get"
    BY <1>4 DEF ExpandGetShare
  <2>2. CASE ReturnError(w)
    BY <1>1, <2>2, ReturnErrorSound
  <2>3. CASE ExpandSucceeds(w)
    BY <1>1, <2>1, <2>3, ExpandSucceedsSound
  <2>4. ASSUME s.cap < ExpandSize[r.vol],
               work' = [work EXCEPT ![w].pc = "expand.lock", ![w].shareCap = s.cap,
                                    ![w].parentCap = instance[r.inst].cap],
               UNCHANGED <<cloudVars, opsManagerVars, volumeLocks, pv, faults>>
        PROVE  Sound
    <3>1. s.cap \in Nat /\ instance[r.inst].cap \in Nat
      BY <1>1, <1>2, <2>1 DEF CloudTypeOK, ShareRec, InstanceRec
    <3>2. /\ q \in Request /\ q.pc = "expand.lock" /\ q.vol = r.vol /\ q.inst = r.inst
          /\ q.shareCap = s.cap
      BY <1>2, <2>1, <3>1 DEF Request
    <3>3. /\ work' = [work EXCEPT ![w] = q] /\ work \in [Workers -> Request]
          /\ UNCHANGED <<mutex, snap, volumeLocks, pv, faults, ops>> /\ UNCHANGED cloudVars
      BY <1>1, <2>4 DEF cloudVars, opsManagerVars, DriverInv, DriverTypeOK
    <3> HIDE DEF q
    <3>4. /\ work' \in [Workers -> Request] /\ work'[w] = q
          /\ \A u \in Workers : u # w => work'[u] = work[u]
      BY <3>2, <3>3
    <3>5. RequestOK'
      BY <1>1, <1>2, <2>1, <2>4, <3>2, <3>3, <3>4 DEF DriverInv, RequestOK
    <3>6. MutexOK' /\ SnapOK' /\ PVOK' /\ OpsManagerTypeOK'
      BY <1>1, <3>2, <3>3, <3>4 DEF DriverInv, DriverTypeOK, MutexOK, SnapOK, PVOK, OpsManagerTypeOK
    <3> QED
      BY <1>1, <3>3, <3>4, <3>5, <3>6, CloudAlone DEF Sound, DriverInv, DriverTypeOK
  <2> QED
    BY <1>4, <2>2, <2>3, <2>4 DEF ExpandGetShare
<1>5. CASE ExpandLock(w)
  <2>1. OpsOnShare("ShareUpdate", work[w].inst, work[w].vol) \in SUBSET ops
    BY DEF OpsOnShare
  <2>2. /\ "expand.check" \in Critical
        /\ LockAndListOps(w, "expand.lock", "expand.check",
                          OpsOnShare("ShareUpdate", work[w].inst, work[w].vol))
    BY <1>5 DEF ExpandLock
  <2> HIDE DEF Waiting, Critical, Pcs
  <2> QED
    BY <2>1, <2>2, LockSound
<1>6. CASE ExpandCheck(w)
  <2> DEFINE needed == ExpandSize[r.vol] - r.shareCap
             o == IF InstanceNeedsExpand(r.inst, r.parentCap, needed)
                  THEN OpOnInstance("InstanceUpdate", r.inst, ExpandTarget(r.inst, needed))
                  ELSE ExpandOp(r)
  <2>1. r.pc = "expand.check"
    BY <1>6 DEF ExpandCheck
  <2>2. needed \in Nat
    BY <1>1, <1>2, <2>1 DEF DriverInv, RequestOK, Request
  <2>3. CASE ReturnError(w)
    BY <1>1, <2>3, ReturnErrorSound
  <2>4. CASE UnlockAndWait(w, "expand.wait")
    <3> DEFINE q == [r EXCEPT !.pc = "expand.wait"]
    <3>1. q \in Request /\ q.pc = "expand.wait" /\ q.vol = r.vol /\ q.inst = r.inst
      BY <1>2, <2>1 DEF Request
    <3>2. /\ work' = [work EXCEPT ![w] = q] /\ mutex' = NoWorker /\ snap' = {}
          /\ UNCHANGED <<volumeLocks, pv, faults>> /\ UNCHANGED cloudVars
      BY <2>4 DEF UnlockAndWait
    <3> HIDE DEF q
    <3>3. DriverInv'
      BY <1>1, <1>2, <2>1, <3>1, <3>2, UnlockSound
    <3> QED
      BY <3>2, <3>3, CloudAlone DEF Sound
  <2>5. CASE StartOrRefuse(w, o, "expand.wait")
    <3>1. ExpandTarget(r.inst, needed) \in Nat
      BY <1>1, <1>2, <2>1, <2>2, SizesType
    <3>2. LET p == OpOnInstance("InstanceUpdate", r.inst, ExpandTarget(r.inst, needed))
          IN  p \in Op /\ p.type # "InstanceDelete"
      BY <1>2, <2>1, <3>1, OpOnInstanceType DEF InstanceOps, OpOnInstance
    <3>3. o \in Op /\ o.type # "InstanceDelete"
      BY <1>3, <2>1, <3>2
    <3> HIDE DEF o
    <3> QED
      BY <2>1, <2>5, <3>3, StartOrRefuseSound
  <2> QED
    BY <1>6, <2>3, <2>4, <2>5 DEF ExpandCheck
<1>7. CASE ExpandWait(w)
  BY <1>1, <1>7, PollDoneSound DEF ExpandWait
<1>8. CASE ExpandRelock(w)
  <2>1. LockAndListOps(w, "expand.relock", "expand.share", {})
    BY <1>8 DEF ExpandRelock
  <2>2. "expand.share" \in Critical /\ {} \in SUBSET ops
    OBVIOUS
  <2> HIDE DEF Waiting, Critical, Pcs
  <2> QED
    BY <2>1, <2>2, LockSound
<1>9. CASE ExpandShare(w)
  BY <1>3, <1>9, StartOrRefuseSound DEF ExpandShare
<1>10. CASE ExpandShareWait(w)
  BY <1>1, <1>10, PollDoneSound DEF ExpandShareWait
<1>11. CASE ExpandVerify(w)
  BY <1>1, <1>11, ExpandSucceedsSound, ReturnErrorSound DEF ExpandVerify
<1> QED
  BY <1>4, <1>5, <1>6, <1>7, <1>8, <1>9, <1>10, <1>11 DEF ExpandStep

-----------------------------------------------------------------------------
(* Failing handlers, restarts, and what happens around the driver. *)

\* An operation's error, or a failed call, ends a handler.
LEMMA HandlerEndsSound ==
  ASSUME ControllerInv, NEW w \in Workers, PollError(w) \/ HandlerFails(w)
  PROVE  Sound
<1>1. DriverInv
  BY DEF ControllerInv
<1>2. CASE PollError(w)
  BY <1>1, <1>2, ReturnErrorSound DEF PollError
<1>3. CASE HandlerFails(w)
  <2>1. Return(w) /\ UNCHANGED cloudVars /\ ops' = ops /\ pv' = pv /\ Fault
    BY <1>3 DEF HandlerFails, cloudVars
  <2>2. PVOK' /\ pv' \in [Vols -> PVRec] /\ faults' \in Nat
    BY <1>1, <2>1, FaultType DEF DriverInv, DriverTypeOK, PVOK
  <2> QED
    BY <1>1, <2>1, <2>2, ReturnMutex DEF Sound, DriverInv, DriverTypeOK
<1> QED
  BY <1>2, <1>3

\* A restart forgets the requests, the locks and the mutex.
LEMMA RestartSound ==
  ASSUME ControllerInv, DriverRestarts
  PROVE  Sound
<1>1. /\ work' = [w \in Workers |-> Idle] /\ volumeLocks' = {}
      /\ mutex' = NoWorker /\ snap' = {} /\ pv' = pv /\ UNCHANGED cloudVars
  BY DEF DriverRestarts
<1>2. faults' \in Nat
  BY FaultType DEF DriverRestarts, ControllerInv, DriverInv, DriverTypeOK
<1>3. DriverTypeOK'
  BY <1>1, <1>2, IdleType DEF ControllerInv, DriverInv, DriverTypeOK, OpsManagerTypeOK
<1>4. RequestOK' /\ MutexOK' /\ SnapOK' /\ PVOK'
  BY <1>1, IdleType DEF ControllerInv, DriverInv, RequestOK, MutexOK, SnapOK, PVOK, Critical
<1> QED
  BY <1>1, <1>3, <1>4, CloudAlone DEF Sound, DriverInv

\* An operation ends, and the goroutines polling it learn how.
LEMMA OpEndsSound ==
  ASSUME ControllerInv, NEW o \in ops, OpDone(o) \/ OpError(o)
  PROVE  Sound
<1>1. DriverInv /\ work \in [Workers -> Request]
  BY DEF ControllerInv, DriverInv, DriverTypeOK
<1>2. OpSucceeds(o) \/ OpFails(o)
  BY DEF OpDone, OpError
<1>3. ops' \subseteq ops
  BY <1>2 DEF OpSucceeds, OpFails
<1>4. PICK result \in {"ok", "error"} : NotifyPollers(o, result)
  BY DEF OpDone, OpError
<1>5. /\ UNCHANGED <<mutex, snap, volumeLocks, pv>> /\ faults' \in Nat
  BY <1>1, FaultType DEF OpDone, OpError, opsManagerVars, DriverInv, DriverTypeOK
<1>6. ASSUME NEW w \in Workers
      PROVE  /\ work'[w] \in Request /\ work'[w].pc = work[w].pc /\ work'[w].vol = work[w].vol
             /\ work'[w].inst = work[w].inst /\ work'[w].shareCap = work[w].shareCap
  <2>1. work[w] \in Request
    BY <1>1
  <2>2. work'[w] = work[w] \/ work'[w] = [work[w] EXCEPT !.result = result]
    BY <1>4 DEF NotifyPollers
  <2> QED
    BY <2>1, <2>2 DEF Request
<1>7. work' \in [Workers -> Request]
  BY <1>4, <1>6 DEF NotifyPollers
<1>8. RequestOK'
  BY <1>1, <1>5, <1>6 DEF DriverInv, RequestOK
<1>9. MutexOK' /\ SnapOK' /\ PVOK' /\ OpsManagerTypeOK'
  BY <1>1, <1>3, <1>5, <1>6 DEF DriverInv, DriverTypeOK, MutexOK, SnapOK, PVOK, OpsManagerTypeOK
<1>10. DriverInv'
  BY <1>1, <1>5, <1>7, <1>8, <1>9 DEF DriverInv, DriverTypeOK
<1> QED
  BY <1>2, <1>10 DEF Sound, DisciplineNext

\* Instances are repaired, and volumes given up.
LEMMA EnvironmentSound ==
  ASSUME ControllerInv,
         \/ \E i \in Insts : InstanceRepair(i) \/ InstanceRepaired(i)
         \/ \E v \in Vols : ReleasePV(v)
         \/ UNCHANGED vars
  PROVE  Sound
<1>1. DriverInv
  BY DEF ControllerInv
<1>2. CASE \E i \in Insts : InstanceRepair(i) \/ InstanceRepaired(i)
  <2>1. PICK i \in Insts : InstanceRepair(i) \/ InstanceRepaired(i)
    BY <1>2
  <2>2. /\ RepairStarts(i) \/ RepairEnds(i)
        /\ UNCHANGED <<mutex, snap, volumeLocks, work, pv, ops>> /\ faults' \in Nat
    BY <1>1, <2>1, FaultType DEF InstanceRepair, InstanceRepaired, RepairStarts, RepairEnds,
                                 opsManagerVars, DriverInv, DriverTypeOK
  <2>3. DriverInv'
    BY <1>1, <2>2 DEF DriverInv, DriverTypeOK, OpsManagerTypeOK, RequestOK, PVOK, MutexOK, SnapOK
  <2> QED
    BY <2>2, <2>3 DEF Sound, DisciplineNext
<1>3. CASE \E v \in Vols : ReleasePV(v)
  <2>1. PICK v \in Vols : ReleasePV(v)
    BY <1>3
  <2>2. /\ pv' = [pv EXCEPT ![v].phase = "released"] /\ pv[v].phase = "bound"
        /\ UNCHANGED <<mutex, snap, volumeLocks, work, ops, faults>> /\ UNCHANGED cloudVars
    BY <2>1 DEF ReleasePV, opsManagerVars, cloudVars
  <2>3. pv \in [Vols -> PVRec]
    BY <1>1 DEF DriverInv, DriverTypeOK
  <2>4. pv' \in [Vols -> PVRec] /\ \A u \in Vols : pv'[u].inst = pv[u].inst
    BY <2>2, <2>3 DEF PVRec, Phases
  <2>5. PVOK'
    BY <1>1, <2>2, <2>3, <2>4 DEF DriverInv, PVOK
  <2>6. RequestOK'
    BY <1>1, <2>2, <2>4 DEF DriverInv, RequestOK, CreatePcs
  <2>7. DriverInv'
    BY <1>1, <2>2, <2>4, <2>5, <2>6 DEF DriverInv, DriverTypeOK, OpsManagerTypeOK, MutexOK, SnapOK
  <2> QED
    BY <2>2, <2>7 DEF Sound
<1>4. CASE UNCHANGED vars
  <2>1. DriverInv'
    BY <1>1, <1>4 DEF vars, cloudVars, opsManagerVars, DriverInv, DriverTypeOK, OpsManagerTypeOK,
                      RequestOK, PVOK, MutexOK, SnapOK
  <2> QED
    BY <1>4, <2>1 DEF vars, Sound
<1> QED
  BY <1>2, <1>3, <1>4

-----------------------------------------------------------------------------
(* The theorems. *)

\* The driver starts with the invariant.
LEMMA ControllerInit == Init => CloudInit /\ ControllerInv
<1> SUFFICES ASSUME Init PROVE CloudInit /\ ControllerInv
  OBVIOUS
<1>1. CloudInit /\ DisciplineInv
  BY InvInit DEF Init
<1>2. DriverTypeOK
  BY IdleType DEF Init, DriverTypeOK, OpsManagerInit, OpsManagerTypeOK, PVRec, Phases
<1>3. RequestOK /\ PVOK /\ MutexOK /\ SnapOK
  BY IdleType DEF Init, OpsManagerInit, RequestOK, PVOK, MutexOK, SnapOK, Critical
<1> QED
  BY <1>1, <1>2, <1>3 DEF ControllerInv, DriverInv

\* Every step of the driver and its environment keeps to the discipline and
\* preserves the invariant.
LEMMA ControllerStep ==
  ControllerInv /\ [Next]_vars => [DisciplineNext]_cloudVars /\ ControllerInv'
<1> SUFFICES ASSUME ControllerInv, [Next]_vars
             PROVE  [DisciplineNext]_cloudVars /\ ControllerInv'
  OBVIOUS
<1>1. Sound
  <2>1. CASE \E w \in Workers : HandlerStep(w) \/ HandlerFails(w)
    BY <2>1, CreateSound, DeleteSound, ExpandSound, HandlerEndsSound DEF HandlerStep
  <2>2. CASE \E w \in Workers, v \in Vols :
               CreateVolume(w, v) \/ DeleteVolume(w, v) \/ ControllerExpandVolume(w, v)
    BY <2>2, RequestsSound DEF ControllerInv
  <2>3. CASE \E o \in ops : OpDone(o) \/ OpError(o)
    BY <2>3, OpEndsSound
  <2>4. CASE DriverRestarts
    BY <2>4, RestartSound
  <2>5. CASE \/ \E i \in Insts : InstanceRepair(i) \/ InstanceRepaired(i)
             \/ \E v \in Vols : ReleasePV(v)
             \/ UNCHANGED vars
    BY <2>5, EnvironmentSound
  <2> QED
    BY <2>1, <2>2, <2>3, <2>4, <2>5 DEF Next, Finished
<1>2. DisciplineInv'
  BY <1>1, InvStep DEF Sound, ControllerInv
<1> QED
  BY <1>1, <1>2 DEF Sound, ControllerInv

\* The controller is type correct: in particular every capacity it computes from
\* ListShares, and every size it asks Filestore for, is a natural.
THEOREM TypeCorrect == Spec => []TypeOK
<1>1. ControllerInv => TypeOK
  BY DEF ControllerInv, DisciplineInv, DriverInv, TypeOK
<1> QED
  BY <1>1, ControllerInit, ControllerStep, PTL DEF Spec

\* The controller implements the discipline: from whatever interleaving of
\* handlers, retries, restarts and failing operations, each operation is started
\* in turn.
THEOREM KeepsDiscipline == Spec => DisciplineSpec
BY ControllerInit, ControllerStep, PTL DEF Spec, DisciplineSpec

\* No two conflicting operations run at a time.
THEOREM OpsExclusive == Spec => []ExclusiveOps
BY KeepsDiscipline, DisciplineSafe, PTL

\* No instance is deleted under a share, and none gets a share while deleted.
THEOREM DyingInstanceEmpty == Spec => []NoShareOnDyingInstance
BY KeepsDiscipline, DisciplineSafe, PTL

-----------------------------------------------------------------------------
(* What the driver knows of its goroutines and of the cloud. *)

\* The mutex, the list taken under it and the state of every request are as the
\* handlers' decisions assume, in every reachable state.
THEOREM ControllerInvariance == Spec => []ControllerInv
BY ControllerInit, ControllerStep, PTL DEF Spec

-----------------------------------------------------------------------------
(* The shapes of the handlers' steps. *)

\* What may become of a volume in a step, as far as the orchestrator knows.
PVMove(v) ==
  \/ pv'[v] = pv[v]
  \/ pv[v].phase = "wanted" /\ pv'[v].phase = "bound"
  \/ pv[v].phase = "bound" /\ pv'[v].phase = "bound" /\ pv'[v].cap >= pv[v].cap
  \/ pv[v].phase = "bound" /\ pv'[v].phase = "released" /\ pv'[v].cap = pv[v].cap
  \/ pv[v].phase = "released" /\ pv'[v].phase = "released"
  \/ pv[v].phase = "released" /\ pv'[v].phase = "deleted" /\ pv'[v].cap = pv[v].cap

Kept == VolumesInv' /\ \A v \in Vols : PVMove(v)

\* The volume and the instance of a request, and what is known of the volume.
LEMMA RequestKnows ==
  ASSUME ControllerInv, NEW w \in Workers
  PROVE  /\ work \in [Workers -> Request] /\ work[w] \in Request
         /\ work[w].pc # "idle" => work[w].vol \in Vols
         /\ work[w].pc \notin {"idle", "create.lock", "create.setup"} => work[w].inst \in Insts
BY DEF ControllerInv, DriverInv, DriverTypeOK, RequestOK

\* Requests being served are about different volumes: those that name an instance
\* name the one the orchestrator knows.
LEMMA AloneOnVolume ==
  ASSUME VolumesInv, NEW w \in Workers, NEW u \in Workers, w # u,
         work[w].pc # "idle", work[u].pc # "idle",
         work[w].pc \in Pcs, work[u].pc \in Pcs
  PROVE  work[w].vol # work[u].vol
<1> SUFFICES ASSUME work[w].vol = work[u].vol PROVE FALSE
  OBVIOUS
<1>1. WorkOK(work[w]) /\ WorkOK(work[u]) /\ LockKey(work[w]) # LockKey(work[u])
  BY DEF VolumesInv, LocksOK
<1>2. work[w].pc \notin CreatePcs <=> work[w].pc \in DeletePcs \cup ExpandPcs
  BY DEF Pcs, CreatePcs, DeletePcs, ExpandPcs
<1>3. work[u].pc \notin CreatePcs <=> work[u].pc \in DeletePcs \cup ExpandPcs
  BY DEF Pcs, CreatePcs, DeletePcs, ExpandPcs
<1>4. CASE work[w].pc \in CreatePcs
  BY <1>1, <1>3, <1>4 DEF WorkOK, LockKey
<1>5. CASE work[u].pc \in CreatePcs
  BY <1>1, <1>2, <1>5 DEF WorkOK, LockKey
<1>6. CASE work[w].pc \notin CreatePcs /\ work[u].pc \notin CreatePcs
  <2>1. work[w].inst = pv[work[w].vol].inst /\ work[u].inst = pv[work[u].vol].inst
    BY <1>1, <1>2, <1>3, <1>6 DEF WorkOK
  <2> QED
    BY <1>1, <1>6, <2>1 DEF LockKey
<1> QED
  BY <1>4, <1>5, <1>6

\* A handler goes on, learning what r says; nothing else changes.
LEMMA WorkerMoves ==
  ASSUME ControllerInv, VolumesInv, NEW w \in Workers, NEW r,
         work[w].pc # "idle", r.pc # "idle", LockKey(r) = LockKey(work[w]), WorkOK(r),
         work' = [work EXCEPT ![w] = r],
         UNCHANGED <<cloudVars, volumeLocks, pv>>
  PROVE  Kept
<1>1. /\ work'[w] = r /\ \A u \in Workers : u # w => work'[u] = work[u]
      /\ UNCHANGED <<share, ops, volumeLocks, pv>>
  BY RequestKnows DEF cloudVars
<1>2. LocksOK'
  <2>1. \A u \in Workers : /\ work'[u].pc # "idle" <=> work[u].pc # "idle"
                           /\ LockKey(work'[u]) = LockKey(work[u])
    BY <1>1
  <2>2. \A u \in Workers : LockKey(work[u])' = LockKey(work[u])
    BY <2>1 DEF LockKey
  <2> QED
    BY <1>1, <2>1, <2>2 DEF VolumesInv, LocksOK
<1>3. \A u \in Workers : WorkOK(work[u])'
  <2>1. \A u \in Workers : WorkOK(work'[u])
    BY <1>1 DEF VolumesInv
  <2> QED
    BY <1>1, <2>1 DEF WorkOK, GetsPastShare, ShareDeletes
<1>4. (\A v \in Vols : VolumeOK(v)') /\ (\A o \in ops' : ChangeOK(o)')
  BY <1>1 DEF VolumesInv, VolumeOK, ChangeOK, ShareOf
<1>5. \A v \in Vols : PVMove(v)
  BY <1>1 DEF PVMove
<1> QED
  BY <1>2, <1>3, <1>4, <1>5 DEF Kept, VolumesInv

\* A handler returns without an answer, or its answer is lost.
LEMMA ReturnKeeps ==
  ASSUME ControllerInv, VolumesInv, NEW w \in Workers, work[w].pc # "idle",
         Return(w), UNCHANGED <<cloudVars, pv>>
  PROVE  Kept
<1>1. /\ work'[w].pc = "idle" /\ \A u \in Workers : u # w => work'[u] = work[u]
      /\ volumeLocks' = volumeLocks \ {LockKey(work[w])}
      /\ UNCHANGED <<share, ops, pv>>
  BY RequestKnows, IdleType DEF cloudVars, Return
<1>2. LocksOK'
  BY <1>1 DEF VolumesInv, LocksOK, LockKey
<1>3. \A u \in Workers : WorkOK(work[u])'
  BY <1>1 DEF VolumesInv, WorkOK, GetsPastShare, ShareDeletes, CreatePcs, DeletePcs, ExpandPcs
<1>4. (\A v \in Vols : VolumeOK(v)') /\ (\A o \in ops' : ChangeOK(o)')
  BY <1>1 DEF VolumesInv, VolumeOK, ChangeOK, ShareOf
<1>5. \A v \in Vols : PVMove(v)
  BY <1>1 DEF PVMove
<1> QED
  BY <1>2, <1>3, <1>4, <1>5 DEF Kept, VolumesInv

\* An answer arrives: what the orchestrator then knows of the volume is right, and
\* nobody else was at work on it.
LEMMA AnswerKeeps ==
  ASSUME ControllerInv, VolumesInv, NEW w \in Workers, NEW newPV \in PVRec,
         work[w].pc # "idle", newPV.phase # "wanted", newPV.inst \in Insts,
         newPV.cap >= ShareSize[work[w].vol],
         LET s == share[newPV.inst][work[w].vol] IN
           /\ newPV.phase = "bound" => s.state = "READY" /\ s.cap >= newPV.cap
           /\ newPV.phase = "deleted" => s.state = "ABSENT",
         \A o \in ops : o.vol = work[w].vol =>
           /\ o.type = "ShareUpdate" => o.cap >= newPV.cap
           /\ o.type \in {"ShareUpdate", "ShareDelete"} => newPV.inst = pv[o.vol].inst,
         Return(w), UNCHANGED cloudVars, pv' = [pv EXCEPT ![work[w].vol] = newPV],
         \A v \in Vols : PVMove(v)
  PROVE  Kept
<1> DEFINE vol == work[w].vol
<1>1. /\ work'[w].pc = "idle" /\ \A u \in Workers : u # w => work'[u] = work[u]
      /\ volumeLocks' = volumeLocks \ {LockKey(work[w])}
      /\ UNCHANGED <<share, ops>>
  BY RequestKnows, IdleType DEF cloudVars, Return
<1>2. vol \in Vols /\ pv \in [Vols -> PVRec]
  BY RequestKnows DEF ControllerInv, DriverInv, DriverTypeOK
<1>3. pv'[vol] = newPV /\ \A v \in Vols : v # vol => pv'[v] = pv[v]
  BY <1>2
<1>4. LocksOK'
  BY <1>1 DEF VolumesInv, LocksOK, LockKey
<1>5. ASSUME NEW u \in Workers
      PROVE  WorkOK(work[u])'
  <2>1. CASE work'[u].pc = "idle"
    BY <2>1 DEF WorkOK, GetsPastShare, CreatePcs, DeletePcs, ExpandPcs
  <2>2. CASE work'[u].pc # "idle"
    <3>1. u # w /\ work'[u] = work[u] /\ WorkOK(work[u])
      BY <1>1, <2>2 DEF VolumesInv
    <3>2. work[u].vol \in Vols /\ work[u].vol # vol
      BY <2>2, <3>1, AloneOnVolume, RequestKnows DEF Request
    <3>3. pv'[work[u].vol] = pv[work[u].vol]
      BY <1>3, <3>2
    <3> QED
      BY <1>1, <3>1, <3>3 DEF WorkOK, GetsPastShare, ShareDeletes
  <2> QED
    BY <2>1, <2>2
<1>6. ASSUME NEW v \in Vols
      PROVE  VolumeOK(v)'
  <2>0. VolumeOK(v)
    BY DEF VolumesInv
  <2>1. CASE v # vol
    BY <1>1, <1>3, <2>0, <2>1 DEF VolumeOK, ShareOf
  <2>2. CASE v = vol
    BY <1>1, <1>3, <2>0, <2>2 DEF VolumeOK, ShareOf
  <2> QED
    BY <2>1, <2>2
<1>7. ASSUME NEW o \in ops'
      PROVE  ChangeOK(o)'
  <2>1. o \in ops /\ ChangeOK(o) /\ o \in Op
    BY <1>1 DEF VolumesInv, ControllerInv, DisciplineInv, CloudTypeOK
  <2>2. o.type \in {"ShareUpdate", "ShareDelete"} => o.vol \in Vols
    BY <2>1, OpShape DEF InstanceOps
  <2> QED
    BY <1>3, <2>1, <2>2 DEF ChangeOK
<1> QED
  BY <1>4, <1>5, <1>6, <1>7 DEF Kept, VolumesInv

\* A request is accepted: nobody else is at work on its volume.
LEMMA AcceptKeeps ==
  ASSUME ControllerInv, VolumesInv, NEW w \in Workers, NEW r, r.pc # "idle", WorkOK(r),
         Accept(w, r)
  PROVE  Kept
<1>1. /\ work'[w] = r /\ \A u \in Workers : u # w => work'[u] = work[u]
      /\ LockKey(r) \notin volumeLocks /\ volumeLocks' = volumeLocks \cup {LockKey(r)}
      /\ UNCHANGED <<share, ops, pv>>
  BY RequestKnows DEF cloudVars, Accept
<1>2. LocksOK'
  <2>1. \A u \in Workers : LockKey(work[u])' = LockKey(work'[u])
    BY DEF LockKey
  <2> QED
    BY <1>1, <2>1 DEF VolumesInv, LocksOK
<1>3. \A u \in Workers : WorkOK(work[u])'
  <2>1. \A u \in Workers : WorkOK(work'[u])
    BY <1>1 DEF VolumesInv
  <2> QED
    BY <1>1, <2>1 DEF WorkOK, GetsPastShare, ShareDeletes
<1>4. (\A v \in Vols : VolumeOK(v)') /\ (\A o \in ops' : ChangeOK(o)')
  BY <1>1 DEF VolumesInv, VolumeOK, ChangeOK, ShareOf
<1>5. \A v \in Vols : PVMove(v)
  BY <1>1 DEF PVMove
<1> QED
  BY <1>2, <1>3, <1>4, <1>5 DEF Kept, VolumesInv

-----------------------------------------------------------------------------
(* Operations that start and end. *)

\* What a handler may start on a share: the share of its own volume, created only
\* for a volume that is wanted, deleted only for one that is released.
ShareOpFits(r, o) ==
  /\ o.type = "ShareCreate" => r.pc \in CreatePcs /\ o.vol = r.vol /\ o.cap = ShareSize[r.vol]
  /\ o.type = "ShareDelete" => r.pc = "delete.share" /\ o.vol = r.vol /\ o.inst = r.inst
  /\ o.type = "ShareUpdate" => r.pc \in ExpandPcs /\ o = ExpandOp(r)

\* Where it polls the operation, and the instance it names from then on.
PollsAt(r, o, to) ==
  /\ \/ r.pc \in CreatePcs /\ to \in CreatePcs
     \/ r.pc \in ExpandPcs /\ to \in ExpandPcs
     \/ r.pc = "delete.share" /\ to = "delete.wait" /\ o \in ShareDeletes(r)
     \/ r.pc = "delete.instance" /\ to = "delete.instanceWait"
  /\ r.pc \notin CreatePcs => o.inst = r.inst

\* A start changes the share it is about, and no other.
LEMMA StartsOnShare ==
  ASSUME CloudTypeOK, NEW o \in Op, NEW protocol, StartOp(o, protocol)
  PROVE  /\ ops' = ops \cup {o}
         /\ \A i \in Insts, v \in Vols :
              o.type \notin {"ShareCreate", "ShareDelete"} \/ o.inst # i \/ o.vol # v
                => share'[i][v] = share[i][v]
         /\ o.type = "ShareCreate" => /\ share[o.inst][o.vol].state = "ABSENT"
                                      /\ share'[o.inst][o.vol].cap = o.cap
         /\ o.type = "ShareDelete" => /\ share[o.inst][o.vol].state = "READY"
                                      /\ share'[o.inst][o.vol].cap = share[o.inst][o.vol].cap
<1>1. /\ share \in [Insts -> [Vols -> ShareRec]] /\ ops' = ops \cup {o} /\ Accepts(o)
      /\ share' = IF o.vol = NoVol THEN share ELSE [share EXCEPT ![o.inst][o.vol] =
           CASE o.type = "ShareCreate" -> [state |-> "CREATING", cap |-> o.cap]
             [] o.type = "ShareDelete" -> [@ EXCEPT !.state = "DELETING"]
             [] OTHER -> @]
  BY DEF CloudTypeOK, StartOp
<1>2. /\ o.inst \in Insts /\ NoVol \notin Vols
      /\ \/ o.type \in InstanceOps /\ o.vol = NoVol
         \/ o.type \in ShareOps /\ o.vol \in Vols
  BY OpShape
<1>3. \A i \in Insts, v \in Vols : share[i][v] \in ShareRec
  BY <1>1
<1>4. CASE o.vol = NoVol
  BY <1>1, <1>2, <1>4 DEF InstanceOps, ShareOps
<1>5. CASE o.vol \in Vols
  <2>1. \A i \in Insts, v \in Vols : o.inst # i \/ o.vol # v => share'[i][v] = share[i][v]
    BY <1>1, <1>2, <1>5
  <2>2. share'[o.inst][o.vol] =
          CASE o.type = "ShareCreate" -> [state |-> "CREATING", cap |-> o.cap]
            [] o.type = "ShareDelete" -> [share[o.inst][o.vol] EXCEPT !.state = "DELETING"]
            [] OTHER -> share[o.inst][o.vol]
    BY <1>1, <1>2, <1>5
  <2>3. o.type \in {"ShareCreate", "ShareUpdate", "ShareDelete"}
    BY <1>2, <1>5 DEF ShareOps
  <2>4. CASE o.type = "ShareCreate"
    BY <1>1, <2>1, <2>2, <2>4 DEF Accepts
  <2>5. CASE o.type = "ShareDelete"
    BY <1>1, <1>2, <1>3, <1>5, <2>1, <2>2, <2>5 DEF Accepts, ShareRec
  <2>6. CASE o.type = "ShareUpdate"
    BY <1>1, <2>1, <2>2, <2>6
  <2> QED
    BY <2>3, <2>4, <2>5, <2>6
<1> QED
  BY <1>2, <1>4, <1>5

\* An operation is started.
LEMMA StartKeeps ==
  ASSUME ControllerInv, VolumesInv, NEW w \in Workers, NEW o \in Op, NEW to,
         work[w].pc # "idle", ShareOpFits(work[w], o), PollsAt(work[w], o, to),
         StartWorkflow(w, o, to)
  PROVE  Kept
<1> DEFINE old == work[w]
           r == [old EXCEPT !.pc = to, !.op = o, !.result = "none", !.inst = o.inst]
           protocol == IF o.type = "InstanceCreate" THEN Protocol[old.vol] ELSE ""
<1>1. CloudTypeOK /\ old \in Request /\ old.vol \in Vols
  BY RequestKnows DEF ControllerInv, DisciplineInv
<1>2. StartOp(o, protocol) /\ work' = [work EXCEPT ![w] = r] /\ UNCHANGED <<volumeLocks, pv>>
  BY DEF StartWorkflow
<1>3. /\ r.pc = to /\ r.op = o /\ r.result = "none" /\ r.inst = o.inst /\ r.vol = old.vol
  BY <1>1 DEF Request
<1> HIDE DEF r, protocol
<1>4. /\ ops' = ops \cup {o}
      /\ \A i \in Insts, v \in Vols :
           o.type \notin {"ShareCreate", "ShareDelete"} \/ o.inst # i \/ o.vol # v
             => share'[i][v] = share[i][v]
      /\ o.type = "ShareCreate" => /\ share[o.inst][o.vol].state = "ABSENT"
                                   /\ share'[o.inst][o.vol].cap = o.cap
      /\ o.type = "ShareDelete" => /\ share[o.inst][o.vol].state = "READY"
                                   /\ share'[o.inst][o.vol].cap = share[o.inst][o.vol].cap
  BY <1>1, <1>2, StartsOnShare
<1>5. work'[w] = r /\ \A u \in Workers : u # w => work'[u] = work[u]
  BY <1>2, RequestKnows
<1>6. \A u \in Workers : WorkOK(work[u])
  BY DEF VolumesInv
<1>7. /\ to # "idle" /\ LockKey(r) = LockKey(old)
      /\ to \in CreatePcs <=> old.pc \in CreatePcs
  BY <1>3 DEF PollsAt, LockKey, CreatePcs, DeletePcs, ExpandPcs
<1>8. LocksOK'
  <2>1. \A u \in Workers : /\ work'[u].pc # "idle" <=> work[u].pc # "idle"
                           /\ LockKey(work'[u]) = LockKey(work[u])
    BY <1>3, <1>5, <1>7
  <2>2. \A u \in Workers : LockKey(work[u])' = LockKey(work[u])
    BY <2>1 DEF LockKey
  <2> QED
    BY <1>2, <2>1, <2>2 DEF VolumesInv, LocksOK
<1>9. ASSUME NEW u \in Workers, u # w
      PROVE  WorkOK(work[u])'
  <2>1. work'[u] = work[u] /\ WorkOK(work[u])
    BY <1>5, <1>6, <1>9
  <2>2. ASSUME GetsPastShare(work[u])
        PROVE  share'[work[u].inst][work[u].vol].state = "ABSENT"
    <3>1. /\ work[u].pc \in DeletePcs /\ work[u].pc \notin CreatePcs
          /\ share[work[u].inst][work[u].vol].state = "ABSENT"
          /\ pv[work[u].vol].phase = "released"
          /\ work[u].vol \in Vols /\ work[u].inst \in Insts
      BY <2>1, <2>2, RequestKnows DEF WorkOK, GetsPastShare, DeletePcs, CreatePcs
    <3>2. o.type = "ShareCreate" => o.vol # work[u].vol
      BY <1>6, <3>1 DEF ShareOpFits, WorkOK
    <3> QED
      BY <1>4, <3>1, <3>2
  <2> QED
    BY <1>2, <2>1, <2>2 DEF WorkOK, GetsPastShare, ShareDeletes
<1>10. WorkOK(work[w])'
  <2>1. WorkOK(old) /\ pv' = pv
    BY <1>2, <1>6
  <2>2. CASE old.pc \in CreatePcs /\ to \in CreatePcs
    BY <1>3, <1>5, <2>1, <2>2
       DEF WorkOK, GetsPastShare, CreatePcs, DeletePcs, ExpandPcs
  <2>3. CASE old.pc \in ExpandPcs /\ to \in ExpandPcs
    <3>1. o.inst = old.inst
      BY <2>3 DEF PollsAt, CreatePcs, ExpandPcs
    <3> QED
      BY <1>3, <1>5, <2>1, <2>3, <3>1 DEF WorkOK, GetsPastShare, CreatePcs, DeletePcs, ExpandPcs
  <2>4. CASE old.pc = "delete.share" /\ to = "delete.wait" /\ o \in ShareDeletes(old)
    <3>1. o.inst = old.inst
      BY <2>4 DEF ShareDeletes
    <3> QED
      BY <1>3, <1>5, <2>1, <2>4, <3>1
         DEF WorkOK, GetsPastShare, ShareDeletes, CreatePcs, DeletePcs, ExpandPcs
  <2>5. CASE old.pc = "delete.instance" /\ to = "delete.instanceWait"
    <3>1. /\ o.inst = old.inst /\ old.inst \in Insts
          /\ o.type \notin {"ShareCreate", "ShareDelete"}
      BY <1>1, <2>5, RequestKnows DEF PollsAt, ShareOpFits, CreatePcs, ExpandPcs
    <3>2. share[old.inst][old.vol].state = "ABSENT"
      BY <2>1, <2>5 DEF WorkOK, GetsPastShare
    <3>3. share'[old.inst][old.vol].state = "ABSENT"
      BY <1>1, <1>4, <3>1, <3>2
    <3> QED
      BY <1>3, <1>5, <2>1, <2>5, <3>1, <3>3
         DEF WorkOK, GetsPastShare, ShareDeletes, CreatePcs, DeletePcs, ExpandPcs
  <2> QED
    BY <2>2, <2>3, <2>4, <2>5 DEF PollsAt
<1>11. ASSUME NEW v \in Vols
       PROVE  VolumeOK(v)'
  <2>1. VolumeOK(v) /\ pv'[v] = pv[v] /\ WorkOK(old)
    BY <1>2, <1>6 DEF VolumesInv
  <2>2. pv[v].phase # "wanted" => pv[v].inst \in Insts
    BY DEF ControllerInv, DriverInv, PVOK
  <2>3. o.type = "ShareCreate" /\ o.vol = v => pv[v].phase = "wanted" /\ o.cap = ShareSize[v]
    BY <2>1 DEF ShareOpFits, WorkOK
  <2>4. o.type = "ShareDelete" /\ o.vol = v => pv[v].phase = "released"
    BY <2>1 DEF ShareOpFits, WorkOK, DeletePcs
  <2>5. pv[v].phase \in {"bound", "deleted"} => ShareOf(v)' = ShareOf(v)
    BY <1>4, <2>1, <2>2, <2>3, <2>4 DEF ShareOf
  <2>6. ASSUME NEW i \in Insts, share'[i][v].state # "ABSENT"
        PROVE  share'[i][v].cap >= ShareSize[v]
    <3>1. CASE share'[i][v] = share[i][v]
      BY <2>1, <2>6, <3>1 DEF VolumeOK
    <3>2. CASE o.type = "ShareCreate" /\ o.inst = i /\ o.vol = v
      BY <1>4, <2>3, <3>2, OpsManagerAssumption
    <3>3. CASE o.type = "ShareDelete" /\ o.inst = i /\ o.vol = v
      BY <1>4, <2>1, <3>3 DEF VolumeOK
    <3> QED
      BY <1>4, <3>1, <3>2, <3>3
  <2> QED
    BY <2>1, <2>5, <2>6 DEF VolumeOK
<1>12. ASSUME NEW p \in ops'
       PROVE  ChangeOK(p)'
  <2>1. pv' = pv /\ WorkOK(old)
    BY <1>2, <1>6
  <2>2. CASE p \in ops
    BY <2>1, <2>2 DEF VolumesInv, ChangeOK
  <2>3. CASE p = o
    <3>1. CASE o.type = "ShareUpdate"
      <4>1. old.pc \in ExpandPcs /\ o = ExpandOp(old)
        BY <3>1 DEF ShareOpFits
      <4>2. o.inst = old.inst /\ o.vol = old.vol /\ o.cap = ExpandSize[old.vol]
        BY <4>1 DEF ExpandOp, OpOnShare
      <4>3. pv[old.vol].cap \in Nat /\ ExpandSize[old.vol] \in Nat
        BY <1>1, ControllerAssumption DEF ControllerInv, DriverInv, DriverTypeOK, PVRec
      <4> QED
        BY <2>1, <2>3, <3>1, <4>1, <4>2, <4>3 DEF WorkOK, ChangeOK
    <3>2. CASE o.type = "ShareDelete"
      <4>1. old.pc \in DeletePcs /\ o.inst = old.inst /\ o.vol = old.vol
        BY <3>2 DEF ShareOpFits, DeletePcs
      <4> QED
        BY <2>1, <2>3, <3>2, <4>1 DEF WorkOK, ChangeOK
    <3> QED
      BY <2>3, <3>1, <3>2 DEF ChangeOK
  <2> QED
    BY <1>4, <2>2, <2>3
<1>13. \A v \in Vols : PVMove(v)
  BY <1>2 DEF PVMove
<1> QED
  BY <1>8, <1>9, <1>10, <1>11, <1>12, <1>13 DEF Kept, VolumesInv

\* The end of an operation changes the share it is about, and no other.
LEMMA EndsOnShare ==
  ASSUME CloudTypeOK, NEW o \in ops, Shows(o), OpSucceeds(o) \/ OpFails(o)
  PROVE  /\ ops' = ops \ {o}
         /\ \A i \in Insts, v \in Vols :
              o.type \in InstanceOps \/ o.inst # i \/ o.vol # v => share'[i][v] = share[i][v]
         /\ o.type = "ShareCreate" =>
              /\ share[o.inst][o.vol].state = "CREATING"
              /\ \/ share'[o.inst][o.vol].state = "ABSENT"
                 \/ share'[o.inst][o.vol].cap = share[o.inst][o.vol].cap
         /\ o.type = "ShareUpdate" =>
              /\ share[o.inst][o.vol].state = "READY" /\ share'[o.inst][o.vol].state = "READY"
              /\ share'[o.inst][o.vol].cap \in {o.cap, share[o.inst][o.vol].cap}
         /\ o.type = "ShareDelete" =>
              /\ share[o.inst][o.vol].state = "DELETING"
              /\ \/ share'[o.inst][o.vol].state = "ABSENT"
                 \/ share'[o.inst][o.vol].cap = share[o.inst][o.vol].cap
              /\ OpSucceeds(o) => share'[o.inst][o.vol].state = "ABSENT"
<1>1. /\ share \in [Insts -> [Vols -> ShareRec]] /\ ops' = ops \ {o} /\ o \in Op
  BY DEF CloudTypeOK, OpSucceeds, OpFails
<1>2. /\ o.inst \in Insts /\ NoVol \notin Vols
      /\ \/ o.type \in InstanceOps /\ o.vol = NoVol
         \/ o.type \in ShareOps /\ o.vol \in Vols
  BY <1>1, OpShape
<1>3. CASE o.vol = NoVol
  <2>1. share' = share
    BY <1>3 DEF OpSucceeds, OpFails
  <2> QED
    BY <1>1, <1>2, <1>3, <2>1 DEF InstanceOps, ShareOps
<1>4. CASE o.vol \in Vols
  <2> DEFINE s == share[o.inst][o.vol]
             t == share'[o.inst][o.vol]
  <2>1. s \in ShareRec /\ o.type \in ShareOps
    BY <1>1, <1>2, <1>4
  <2>2. CASE OpSucceeds(o)
    <3>1. share' = [share EXCEPT ![o.inst][o.vol] =
            CASE o.type = "ShareCreate" -> [@ EXCEPT !.state = "READY"]
              [] o.type = "ShareUpdate" -> [@ EXCEPT !.cap = o.cap]
              [] OTHER -> AbsentShare]
      BY <1>2, <1>4, <2>2 DEF OpSucceeds
    <3>2. \A i \in Insts, v \in Vols : o.inst # i \/ o.vol # v => share'[i][v] = share[i][v]
      BY <1>1, <1>2, <1>4, <3>1
    <3>3. t = CASE o.type = "ShareCreate" -> [s EXCEPT !.state = "READY"]
                [] o.type = "ShareUpdate" -> [s EXCEPT !.cap = o.cap]
                [] OTHER -> AbsentShare
      BY <1>1, <1>2, <1>4, <3>1
    <3>4. CASE o.type = "ShareCreate"
      BY <1>1, <2>1, <3>2, <3>3, <3>4 DEF Shows, ShareRec, InstanceOps
    <3>5. CASE o.type = "ShareUpdate"
      BY <1>1, <2>1, <3>2, <3>3, <3>5 DEF Shows, ShareRec, InstanceOps
    <3>6. CASE o.type = "ShareDelete"
      BY <1>1, <2>1, <3>2, <3>3, <3>6 DEF Shows, AbsentShare, InstanceOps
    <3> QED
      BY <2>1, <3>4, <3>5, <3>6 DEF ShareOps
  <2>3. CASE OpFails(o)
    <3>1. share' = [share EXCEPT ![o.inst][o.vol] =
            CASE o.type = "ShareCreate" -> AbsentShare
              [] o.type = "ShareDelete" -> [@ EXCEPT !.state = "READY"]
              [] OTHER -> @]
      BY <1>2, <1>4, <2>3 DEF OpFails
    <3>2. \A i \in Insts, v \in Vols : o.inst # i \/ o.vol # v => share'[i][v] = share[i][v]
      BY <1>1, <1>2, <1>4, <3>1
    <3>3. t = CASE o.type = "ShareCreate" -> AbsentShare
                [] o.type = "ShareDelete" -> [s EXCEPT !.state = "READY"]
                [] OTHER -> s
      BY <1>1, <1>2, <1>4, <3>1
    <3>4. CASE o.type = "ShareCreate"
      BY <1>1, <2>1, <3>2, <3>3, <3>4 DEF Shows, AbsentShare, InstanceOps
    <3>5. CASE o.type = "ShareUpdate"
      BY <1>1, <2>1, <3>2, <3>3, <3>5 DEF Shows, ShareRec, InstanceOps
    <3>6. CASE o.type = "ShareDelete"
      <4>1. ~OpSucceeds(o)
        <5>1. t.state = "READY"
          BY <2>1, <3>3, <3>6 DEF ShareRec
        <5>2. OpSucceeds(o) => t = AbsentShare
          BY <1>1, <1>2, <1>4, <3>6 DEF OpSucceeds
        <5> QED
          BY <5>1, <5>2 DEF AbsentShare
      <4> QED
        BY <1>1, <2>1, <3>2, <3>3, <3>6, <4>1 DEF Shows, ShareRec, InstanceOps
    <3> QED
      BY <2>1, <3>4, <3>5, <3>6 DEF ShareOps
  <2> QED
    BY <2>2, <2>3
<1> QED
  BY <1>2, <1>3, <1>4

\* An operation ends: a deletion only says "ok" to a goroutine when its share is gone,
\* and nothing but an expansion runs on a share that is handed out.
LEMMA OpEndsKeeps ==
  ASSUME ControllerInv, VolumesInv, NEW o \in ops, OpDone(o) \/ OpError(o)
  PROVE  Kept
<1>1. /\ \/ OpSucceeds(o) /\ NotifyPollers(o, "ok")
         \/ OpFails(o) /\ NotifyPollers(o, "error")
      /\ volumeLocks' = volumeLocks /\ pv' = pv
  <2>1. CASE OpDone(o)
    BY <2>1 DEF OpDone, opsManagerVars
  <2>2. CASE OpError(o)
    BY <2>2 DEF OpError, opsManagerVars
  <2> QED
    BY <2>1, <2>2
<1>2. CloudTypeOK /\ Shows(o) /\ o \in Op
  BY DEF ControllerInv, DisciplineInv, OpsShow, CloudTypeOK
<1>3. /\ o.inst \in Insts
      /\ \/ o.type \in InstanceOps
         \/ o.type \in ShareOps /\ o.vol \in Vols
  BY <1>2, OpShape
<1>4. /\ ops' = ops \ {o}
      /\ \A i \in Insts, v \in Vols :
           o.type \in InstanceOps \/ o.inst # i \/ o.vol # v => share'[i][v] = share[i][v]
      /\ o.type = "ShareCreate" =>
           /\ share[o.inst][o.vol].state = "CREATING"
           /\ \/ share'[o.inst][o.vol].state = "ABSENT"
              \/ share'[o.inst][o.vol].cap = share[o.inst][o.vol].cap
      /\ o.type = "ShareUpdate" =>
           /\ share[o.inst][o.vol].state = "READY" /\ share'[o.inst][o.vol].state = "READY"
           /\ share'[o.inst][o.vol].cap \in {o.cap, share[o.inst][o.vol].cap}
      /\ o.type = "ShareDelete" =>
           /\ share[o.inst][o.vol].state = "DELETING"
           /\ \/ share'[o.inst][o.vol].state = "ABSENT"
              \/ share'[o.inst][o.vol].cap = share[o.inst][o.vol].cap
           /\ OpSucceeds(o) => share'[o.inst][o.vol].state = "ABSENT"
  BY <1>1, <1>2, EndsOnShare
<1>5. \A i \in Insts, v \in Vols : share[i][v].state = "ABSENT" => share'[i][v] = share[i][v]
  BY <1>3, <1>4 DEF ShareOps
<1>6. ASSUME NEW w \in Workers
      PROVE  /\ work'[w].pc = work[w].pc /\ work'[w].vol = work[w].vol
             /\ work'[w].inst = work[w].inst /\ work'[w].op = work[w].op
             /\ work'[w].result = "ok" /\ work[w].result # "ok"
                  => work[w].op = o /\ OpSucceeds(o)
  <2>1. work[w] \in Request
    BY RequestKnows
  <2>2. CASE OpSucceeds(o) /\ NotifyPollers(o, "ok")
    BY <2>1, <2>2 DEF NotifyPollers, Request
  <2>3. CASE OpFails(o) /\ NotifyPollers(o, "error")
    BY <2>1, <2>3 DEF NotifyPollers, Request
  <2> QED
    BY <1>1, <2>2, <2>3
<1>7. LocksOK'
  <2>1. \A u \in Workers : /\ LockKey(work'[u]) = LockKey(work[u])
                           /\ LockKey(work[u])' = LockKey(work[u])
    BY <1>6 DEF LockKey
  <2> QED
    BY <1>1, <1>6, <2>1 DEF VolumesInv, LocksOK
<1>8. ASSUME NEW w \in Workers
      PROVE  WorkOK(work[w])'
  <2>1. WorkOK(work[w]) /\ work[w].pc # "idle" => work[w].vol \in Vols
    BY RequestKnows DEF VolumesInv
  <2>2. ASSUME GetsPastShare(work'[w])
        PROVE  share'[work[w].inst][work[w].vol].state = "ABSENT"
    <3>1. /\ work[w].inst \in Insts /\ work[w].vol \in Vols
      BY <1>6, <2>2, RequestKnows DEF GetsPastShare
    <3>2. CASE GetsPastShare(work[w])
      BY <1>5, <2>1, <3>1, <3>2 DEF VolumesInv, WorkOK
    <3>3. CASE ~GetsPastShare(work[w])
      <4>1. /\ work[w].op = o /\ OpSucceeds(o) /\ work[w].pc \in {"delete.share", "delete.wait"}
        BY <1>6, <2>2, <3>3 DEF GetsPastShare
      <4>2. o # NoOp
        BY <1>3 DEF NoOp, InstanceOps, ShareOps
      <4>3. o \in ShareDeletes(work[w])
        BY <4>1, <4>2 DEF VolumesInv, WorkOK
      <4>4. o.type = "ShareDelete" /\ o.inst = work[w].inst /\ o.vol = work[w].vol
        BY <4>3 DEF ShareDeletes
      <4> QED
        BY <1>4, <4>1, <4>4
    <3> QED
      BY <3>2, <3>3
  <2>3. WorkOK(work[w])
    BY DEF VolumesInv
  <2>4. ShareDeletes(work[w])' = ShareDeletes(work[w])
    BY <1>6 DEF ShareDeletes
  <2> QED
    BY <1>1, <1>6, <2>2, <2>3, <2>4 DEF WorkOK
<1>9. ASSUME NEW v \in Vols
      PROVE  VolumeOK(v)'
  <2>1. VolumeOK(v) /\ pv'[v] = pv[v]
    BY <1>1 DEF VolumesInv
  <2>2. /\ pv[v].phase # "wanted" => pv[v].inst \in Insts
        /\ pv[v].cap \in Nat /\ ShareSize[v] \in Nat /\ ExpandSize[v] \in Nat
    BY OpsManagerAssumption, ControllerAssumption
       DEF ControllerInv, DriverInv, PVOK, DriverTypeOK, PVRec
  <2>3. o.type = "ShareUpdate" /\ o.vol = v =>
          o.cap >= pv[v].cap /\ pv[v].phase # "wanted" /\ o.cap \in Nat
    BY <1>2, OpShape DEF VolumesInv, ChangeOK
  <2>4. pv[v].phase = "bound" => ShareOf(v)'.state = "READY" /\ ShareOf(v)'.cap >= pv[v].cap
    <3>1. SUFFICES ASSUME pv[v].phase = "bound"
                   PROVE  LET s == share'[pv[v].inst][v]
                          IN s.state = "READY" /\ s.cap >= pv[v].cap
      BY <2>1 DEF ShareOf
    <3>2. /\ share[pv[v].inst][v].state = "READY" /\ share[pv[v].inst][v].cap >= pv[v].cap
          /\ pv[v].inst \in Insts
      BY <2>1, <2>2, <3>1 DEF VolumeOK, ShareOf
    <3>3. CASE share'[pv[v].inst][v] = share[pv[v].inst][v]
      BY <3>2, <3>3
    <3>4. CASE share'[pv[v].inst][v] # share[pv[v].inst][v]
      <4>1. o.type \in ShareOps /\ o.inst = pv[v].inst /\ o.vol = v
        BY <1>3, <1>4, <3>2, <3>4
      <4>2. o.type = "ShareUpdate"
        BY <1>4, <3>2, <4>1 DEF ShareOps
      <4> QED
        BY <1>4, <2>3, <3>2, <4>1, <4>2
    <3> QED
      BY <3>3, <3>4
  <2>5. pv[v].phase = "deleted" => ShareOf(v)'.state = "ABSENT"
    BY <1>5, <2>1, <2>2 DEF VolumeOK, ShareOf
  <2>6. ASSUME NEW i \in Insts, share'[i][v].state # "ABSENT"
        PROVE  share'[i][v].cap >= ShareSize[v]
    <3>1. CASE share'[i][v] = share[i][v]
      BY <2>1, <2>6, <3>1 DEF VolumeOK
    <3>2. CASE share'[i][v] # share[i][v]
      <4>1. o.type \in ShareOps /\ o.inst = i /\ o.vol = v
        BY <1>3, <1>4, <3>2
      <4>2. share[i][v].state # "ABSENT" /\ share[i][v].cap >= ShareSize[v]
        BY <1>5, <2>1, <3>2 DEF VolumeOK
      <4>3. CASE o.type = "ShareUpdate"
        <5>1. o.cap >= pv[v].cap /\ pv[v].cap >= ShareSize[v] /\ o.cap \in Nat
          BY <2>1, <2>3, <4>1, <4>3 DEF VolumeOK
        <5>2. o.cap >= ShareSize[v]
          BY <2>2, <5>1
        <5> QED
          BY <1>4, <4>1, <4>2, <4>3, <5>2
      <4>4. CASE o.type \in {"ShareCreate", "ShareDelete"}
        BY <1>4, <2>6, <4>1, <4>2, <4>4
      <4> QED
        BY <4>1, <4>3, <4>4 DEF ShareOps
    <3> QED
      BY <3>1, <3>2
  <2> QED
    BY <2>1, <2>4, <2>5, <2>6 DEF VolumeOK
<1>10. \A p \in ops' : ChangeOK(p)'
  BY <1>1, <1>4 DEF VolumesInv, ChangeOK
<1>11. \A v \in Vols : PVMove(v)
  BY <1>1 DEF PVMove
<1> QED
  BY <1>7, <1>8, <1>9, <1>10, <1>11 DEF Kept, VolumesInv

-----------------------------------------------------------------------------
(* The steps the handlers share. *)

\* The handlers of one request stay in its part of the driver.
SameRequest(from, to) == \/ from \in CreatePcs /\ to \in CreatePcs
                         \/ from \in DeletePcs /\ to \in DeletePcs
                         \/ from \in ExpandPcs /\ to \in ExpandPcs

\* A step to a place where nothing is polled; a deletion gets past the share only
\* when it is gone.
LEMMA GotoKeeps ==
  ASSUME ControllerInv, VolumesInv, NEW w \in Workers, NEW pc, SameRequest(work[w].pc, pc),
         pc \notin {"delete.share", "delete.wait", "delete.instance", "delete.instanceWait"},
         pc = "delete.relock" => share[work[w].inst][work[w].vol].state = "ABSENT",
         Goto(w, pc)
  PROVE  Kept
<1> DEFINE old == work[w]
           r == [old EXCEPT !.pc = pc]
<1>1. old \in Request /\ WorkOK(old)
  BY RequestKnows DEF VolumesInv
<1>2. r.pc = pc /\ r.vol = old.vol /\ r.inst = old.inst
  BY <1>1 DEF Request
<1>3. work' = [work EXCEPT ![w] = r] /\ UNCHANGED <<cloudVars, volumeLocks, pv>>
  BY DEF Goto
<1> HIDE DEF r
<1>4. old.pc # "idle" /\ r.pc # "idle" /\ LockKey(r) = LockKey(old)
  BY <1>2 DEF SameRequest, LockKey, CreatePcs, DeletePcs, ExpandPcs
<1>5. WorkOK(r)
  BY <1>1, <1>2 DEF WorkOK, SameRequest, GetsPastShare, CreatePcs, DeletePcs, ExpandPcs
<1> QED
  BY <1>3, <1>4, <1>5, WorkerMoves

\* The end of a successful operation.
LEMMA PollDoneKeeps ==
  ASSUME ControllerInv, VolumesInv, NEW w \in Workers, NEW from, NEW to,
         SameRequest(from, to), to = "delete.relock" => from = "delete.wait",
         to \notin {"delete.share", "delete.wait", "delete.instance", "delete.instanceWait"},
         PollDone(w, from, to)
  PROVE  Kept
<1>1. work[w].pc = from /\ work[w].result = "ok" /\ Goto(w, to) /\ WorkOK(work[w])
  BY DEF PollDone, VolumesInv
<1>2. to = "delete.relock" => share[work[w].inst][work[w].vol].state = "ABSENT"
  BY <1>1 DEF WorkOK, GetsPastShare
<1> QED
  BY <1>1, <1>2, GotoKeeps

\* The mutex is locked; a deletion joins only a deletion of its share.
LEMMA LockKeeps ==
  ASSUME ControllerInv, VolumesInv, NEW w \in Workers, NEW from, NEW to \in Critical,
         NEW joinable \in SUBSET ops, SameRequest(from, to),
         to = "delete.share" => joinable = OpsOnShare("ShareDelete", work[w].inst, work[w].vol),
         to = "delete.instance" => from = "delete.relock",
         LockAndListOps(w, from, to, joinable)
  PROVE  Kept
<1> DEFINE old == work[w]
           op == IF joinable = {} THEN NoOp ELSE CHOOSE o \in joinable : TRUE
           r == [old EXCEPT !.pc = to, !.result = "none", !.op = op]
<1>1. old \in Request /\ WorkOK(old) /\ ops \subseteq Op
  BY RequestKnows DEF VolumesInv, ControllerInv, DisciplineInv, CloudTypeOK
<1>2. old.pc = from /\ work' = [work EXCEPT ![w] = r] /\ UNCHANGED <<cloudVars, volumeLocks, pv>>
  BY DEF LockAndListOps
<1>3. op = NoOp \/ op \in joinable
  OBVIOUS
<1> HIDE DEF op
<1>4. /\ r.pc = to /\ r.result = "none" /\ r.op = op /\ r.vol = old.vol /\ r.inst = old.inst
  BY <1>1 DEF Request
<1> HIDE DEF r
<1>5. old.pc # "idle" /\ r.pc # "idle" /\ LockKey(r) = LockKey(old)
  BY <1>2, <1>4 DEF SameRequest, LockKey, CreatePcs, DeletePcs, ExpandPcs
<1>6. to = "delete.share" => r.op \in ShareDeletes(r) \cup {NoOp}
  BY <1>1, <1>3, <1>4 DEF OpsOnShare, ShareDeletes
<1>7. to # "delete.wait"
  BY DEF Critical
<1>8. WorkOK(r)
  <2>1. CASE from \in CreatePcs /\ to \in CreatePcs
    BY <1>1, <1>2, <1>4, <2>1 DEF WorkOK, GetsPastShare, CreatePcs, DeletePcs, ExpandPcs
  <2>2. CASE from \in ExpandPcs /\ to \in ExpandPcs
    BY <1>1, <1>2, <1>4, <2>2 DEF WorkOK, GetsPastShare, CreatePcs, DeletePcs, ExpandPcs
  <2>3. CASE from \in DeletePcs /\ to \in {"delete.share", "delete.instance"}
    <3>1. GetsPastShare(r) => GetsPastShare(old)
      BY <1>2, <1>4, <2>3 DEF GetsPastShare
    <3> QED
      BY <1>1, <1>2, <1>4, <1>6, <2>3, <3>1 DEF WorkOK, CreatePcs, DeletePcs, ExpandPcs
  <2> QED
    BY <2>1, <2>2, <2>3 DEF SameRequest, Critical, DeletePcs
<1> QED
  BY <1>2, <1>5, <1>8, WorkerMoves

\* An error is returned.
LEMMA ReturnErrorKeeps ==
  ASSUME ControllerInv, VolumesInv, NEW w \in Workers, work[w].pc # "idle", ReturnError(w)
  PROVE  Kept
BY ReturnKeeps DEF ReturnError

\* An operation is started, or refused.
LEMMA StartOrRefuseKeeps ==
  ASSUME ControllerInv, VolumesInv, NEW w \in Workers, NEW o \in Op, NEW to,
         work[w].pc # "idle", ShareOpFits(work[w], o), PollsAt(work[w], o, to),
         StartOrRefuse(w, o, to)
  PROVE  Kept
BY StartKeeps, ReturnErrorKeeps DEF StartOrRefuse, Refused

\* A request is answered with success, and the answer arrives or is lost.
LEMMA ReturnSuccessKeeps ==
  ASSUME ControllerInv, VolumesInv, NEW w \in Workers, NEW newPV \in PVRec,
         work[w].pc # "idle", newPV.phase # "wanted", newPV.inst \in Insts,
         newPV.cap >= ShareSize[work[w].vol],
         LET s == share[newPV.inst][work[w].vol] IN
           /\ newPV.phase = "bound" => s.state = "READY" /\ s.cap >= newPV.cap
           /\ newPV.phase = "deleted" => s.state = "ABSENT",
         \A o \in ops : o.vol = work[w].vol =>
           /\ o.type = "ShareUpdate" => o.cap >= newPV.cap
           /\ o.type \in {"ShareUpdate", "ShareDelete"} => newPV.inst = pv[o.vol].inst,
         LET old == pv[work[w].vol] IN
           \/ old.phase = "wanted" /\ newPV.phase = "bound"
           \/ old.phase = "bound" /\ newPV.phase = "bound" /\ newPV.cap >= old.cap
           \/ old.phase = "released" /\ newPV.phase = "released"
           \/ old.phase = "released" /\ newPV.phase = "deleted" /\ newPV.cap = old.cap,
         ReturnSuccess(w, newPV)
  PROVE  Kept
<1>1. Return(w) /\ UNCHANGED cloudVars
  BY DEF ReturnSuccess
<1>2. CASE pv' = [pv EXCEPT ![work[w].vol] = newPV]
  <2>1. pv \in [Vols -> PVRec] /\ work[w].vol \in Vols
    BY RequestKnows DEF ControllerInv, DriverInv, DriverTypeOK
  <2>2. \A v \in Vols : PVMove(v)
    BY <1>2, <2>1 DEF PVMove
  <2> QED
    BY <1>1, <1>2, <2>2, AnswerKeeps
<1>3. CASE UNCHANGED pv
  BY <1>1, <1>3, ReturnKeeps
<1> QED
  BY <1>2, <1>3 DEF ReturnSuccess

-----------------------------------------------------------------------------
(* CreateVolume, DeleteVolume and ControllerExpandVolume. *)

\* The requests that start a handler.
LEMMA RequestsKeep ==
  ASSUME ControllerInv, VolumesInv, NEW w \in Workers, NEW v \in Vols,
         CreateVolume(w, v) \/ DeleteVolume(w, v) \/ ControllerExpandVolume(w, v)
  PROVE  Kept
<1> USE DEF CreatePcs, DeletePcs, ExpandPcs, Idle
<1>1. CASE CreateVolume(w, v)
  <2> DEFINE r == [Idle EXCEPT !.pc = "create.lock", !.vol = v]
  <2>1. r.pc = "create.lock" /\ r.vol = v /\ Accept(w, r) /\ pv[v].phase = "wanted"
    BY <1>1 DEF CreateVolume
  <2> HIDE DEF r
  <2>2. WorkOK(r)
    BY <2>1 DEF WorkOK, GetsPastShare
  <2> QED
    BY <2>1, <2>2, AcceptKeeps
<1>2. CASE DeleteVolume(w, v)
  <2> DEFINE r == [Idle EXCEPT !.pc = "delete.get", !.vol = v, !.inst = pv[v].inst]
  <2>1. /\ r.pc = "delete.get" /\ r.vol = v /\ r.inst = pv[v].inst /\ Accept(w, r)
        /\ pv[v].phase = "released"
    BY <1>2 DEF DeleteVolume
  <2> HIDE DEF r
  <2>2. WorkOK(r)
    BY <2>1 DEF WorkOK, GetsPastShare
  <2> QED
    BY <2>1, <2>2, AcceptKeeps
<1>3. CASE ControllerExpandVolume(w, v)
  <2> DEFINE r == [Idle EXCEPT !.pc = "expand.get", !.vol = v, !.inst = pv[v].inst]
  <2>1. /\ r.pc = "expand.get" /\ r.vol = v /\ r.inst = pv[v].inst /\ Accept(w, r)
        /\ pv[v].phase = "bound" /\ pv[v].cap < ExpandSize[v]
    BY <1>3 DEF ControllerExpandVolume
  <2>2. pv[v].cap \in Nat /\ ExpandSize[v] \in Nat
    BY ControllerAssumption DEF ControllerInv, DriverInv, DriverTypeOK, PVRec
  <2> HIDE DEF r
  <2>3. WorkOK(r)
    BY <2>1, <2>2 DEF WorkOK, GetsPastShare
  <2> QED
    BY <2>1, <2>3, AcceptKeeps
<1> QED
  BY <1>1, <1>2, <1>3

\* What a placement may start on a share is the creation of the volume's own.
LEMMA PlacementsFit ==
  ASSUME NEW v \in Vols, NEW o \in Placements(v)
  PROVE  \/ o.type \in {"InstanceUpdate", "InstanceCreate"}
         \/ o.type = "ShareCreate" /\ o.vol = v /\ o.cap = ShareSize[v]
BY DEF Placements, PlacementOn, OpOnInstance, OpOnShare

\* The steps of CreateVolume.
LEMMA CreateKeeps ==
  ASSUME ControllerInv, VolumesInv, NEW w \in Workers, CreateStep(w)
  PROVE  Kept
<1> DEFINE r == work[w]
<1> USE DEF CreatePcs, SameRequest
<1>1. r \in Request /\ CloudTypeOK /\ WorkOK(r)
  BY RequestKnows DEF ControllerInv, DisciplineInv, VolumesInv
<1>2. r.pc \in CreatePcs => r.pc # "idle" /\ r.vol \in Vols
  BY RequestKnows
<1>3. CASE CreateLock(w)
  BY <1>3, LockKeeps DEF CreateLock, Critical
<1>4. CASE CreateSetup(w)
  <2>1. r.pc = "create.setup"
    BY <1>4 DEF CreateSetup
  <2>2. CASE ReturnError(w)
    BY <2>1, <2>2, ReturnErrorKeeps
  <2>3. ASSUME NEW i \in Insts,
               work' = [work EXCEPT ![w].pc = "create.get", ![w].inst = i],
               UNCHANGED <<cloudVars, volumeLocks, pv>>
        PROVE  Kept
    <3> DEFINE q == [r EXCEPT !.pc = "create.get", !.inst = i]
    <3>1. work' = [work EXCEPT ![w] = q]
      BY <2>3
    <3>2. q.pc = "create.get" /\ q.vol = r.vol /\ q.inst = i
      BY <1>1 DEF Request
    <3> HIDE DEF q
    <3>3. LockKey(q) = LockKey(r)
      BY <2>1, <3>2 DEF LockKey
    <3>4. WorkOK(q)
      BY <1>1, <2>1, <3>2 DEF WorkOK, GetsPastShare, DeletePcs, ExpandPcs
    <3> QED
      BY <2>1, <2>3, <3>1, <3>2, <3>3, <3>4, WorkerMoves
  <2>4. ASSUME NEW o \in Placements(r.vol), StartOrRefuse(w, o, "create.wait")
        PROVE  Kept
    <3>1. o \in Op
      BY <1>1, <1>2, <2>1, PlacementsType
    <3>2. ShareOpFits(r, o) /\ PollsAt(r, o, "create.wait")
      <4>1. ShareOpFits(r, o)
        BY <1>2, <2>1, PlacementsFit DEF ShareOpFits
      <4>2. PollsAt(r, o, "create.wait")
        BY <2>1 DEF PollsAt
      <4> QED
        BY <4>1, <4>2
    <3> QED
      BY <2>1, <2>4, <3>1, <3>2, StartOrRefuseKeeps
  <2> QED
    BY <1>4, <2>2, <2>3, <2>4 DEF CreateSetup, ExistingShare
<1>5. CASE CreateWait(w)
  BY <1>5, PollDoneKeeps DEF CreateWait
<1>6. CASE CreateRelock(w)
  BY <1>6, LockKeeps DEF CreateRelock, Critical
<1>7. CASE CreateShare(w)
  <2> DEFINE o == OpOnShare("ShareCreate", r.inst, r.vol, ShareSize[r.vol])
  <2>1. r.pc = "create.share" /\ StartOrRefuse(w, o, "create.shareWait")
    BY <1>7 DEF CreateShare
  <2>2. r.inst \in Insts /\ r.vol \in Vols /\ ShareSize[r.vol] \in Nat
    BY <2>1, RequestKnows, OpsManagerAssumption
  <2>3. o \in Op /\ o.type = "ShareCreate" /\ o.vol = r.vol /\ o.cap = ShareSize[r.vol]
    BY <2>2, OpOnShareType DEF OpOnShare, ShareOps
  <2> HIDE DEF o
  <2>4. ShareOpFits(r, o) /\ PollsAt(r, o, "create.shareWait")
    <3>1. ShareOpFits(r, o)
      BY <2>1, <2>3 DEF ShareOpFits
    <3>2. PollsAt(r, o, "create.shareWait")
      BY <2>1 DEF PollsAt
    <3> QED
      BY <3>1, <3>2
  <2> QED
    BY <2>1, <2>3, <2>4, StartOrRefuseKeeps
<1>8. CASE CreateShareWait(w)
  BY <1>8, PollDoneKeeps DEF CreateShareWait
<1>9. CASE CreateGetShare(w)
  <2> DEFINE s == share[r.inst][r.vol]
             newPV == [phase |-> "bound", inst |-> r.inst, cap |-> ShareSize[r.vol]]
  <2>1. /\ r.pc = "create.get" /\ r.inst \in Insts /\ r.vol \in Vols
        /\ ShareSize[r.vol] \in Nat /\ pv[r.vol].phase = "wanted"
    BY <1>1, <1>9, RequestKnows, OpsManagerAssumption DEF CreateGetShare, WorkOK
  <2>2. CASE ReturnError(w)
    BY <2>1, <2>2, ReturnErrorKeeps
  <2>3. CASE s.state = "READY" /\ ReturnSuccess(w, newPV)
    <3>1. /\ newPV.phase = "bound" /\ newPV.inst = r.inst /\ newPV.cap = ShareSize[r.vol]
          /\ newPV \in PVRec
      BY <2>1 DEF PVRec, Phases
    <3> HIDE DEF newPV
    <3>2. s.cap >= ShareSize[r.vol]
      BY <2>1, <2>3 DEF VolumesInv, VolumeOK
    <3>3. \A o \in ops : ~(o.type \in {"ShareUpdate", "ShareDelete"} /\ o.vol = r.vol)
      BY <2>1 DEF VolumesInv, ChangeOK
    <3>4. ReturnSuccess(w, newPV) /\ newPV.cap >= ShareSize[r.vol]
      BY <2>1, <2>3, <3>1
    <3> QED
      BY <2>1, <2>3, <3>1, <3>2, <3>3, <3>4, ReturnSuccessKeeps
  <2> QED
    BY <1>9, <2>2, <2>3 DEF CreateGetShare
<1> QED
  BY <1>3, <1>4, <1>5, <1>6, <1>7, <1>8, <1>9 DEF CreateStep

\* DeleteVolume answers when it has got past the share.
LEMMA DeleteSucceedsKeeps ==
  ASSUME ControllerInv, VolumesInv, NEW w \in Workers,
         work[w].pc \in {"delete.instance", "delete.instanceWait"}, DeleteSucceeds(w)
  PROVE  Kept
<1> DEFINE v == work[w].vol
           newPV == [pv[v] EXCEPT !.phase = "deleted"]
<1>1. v \in Vols /\ work[w].inst \in Insts /\ WorkOK(work[w])
  BY RequestKnows DEF VolumesInv
<1>2. /\ pv[v].phase = "released" /\ pv[v].inst = work[w].inst
      /\ share[work[w].inst][v].state = "ABSENT"
  BY <1>1 DEF WorkOK, DeletePcs, GetsPastShare
<1>3. pv[v] \in PVRec /\ pv[v].cap >= ShareSize[v]
  BY <1>1, <1>2 DEF ControllerInv, DriverInv, DriverTypeOK, VolumesInv, VolumeOK
<1>4. /\ newPV \in PVRec /\ newPV.phase = "deleted" /\ newPV.inst = work[w].inst
      /\ newPV.cap = pv[v].cap
  BY <1>2, <1>3 DEF PVRec, Phases
<1>5. ReturnSuccess(w, newPV)
  BY DEF DeleteSucceeds
<1> HIDE DEF newPV
<1>6. \A o \in ops : o.vol = v =>
        /\ o.type = "ShareUpdate" => o.cap >= newPV.cap
        /\ o.type \in {"ShareUpdate", "ShareDelete"} => newPV.inst = pv[o.vol].inst
  BY <1>2, <1>4 DEF VolumesInv, ChangeOK
<1> QED
  BY <1>1, <1>2, <1>3, <1>4, <1>5, <1>6, ReturnSuccessKeeps

\* The steps of DeleteVolume.
LEMMA DeleteKeeps ==
  ASSUME ControllerInv, VolumesInv, NEW w \in Workers, DeleteStep(w)
  PROVE  Kept
<1> DEFINE r == work[w]
<1> USE DEF SameRequest, DeletePcs
<1>1. r \in Request /\ CloudTypeOK /\ WorkOK(r)
  BY RequestKnows DEF ControllerInv, DisciplineInv, VolumesInv
<1>2. r.pc \in DeletePcs => r.vol \in Vols /\ r.inst \in Insts
  BY RequestKnows
<1>3. CASE DeleteGetShare(w)
  BY <1>3, GotoKeeps DEF DeleteGetShare
<1>4. CASE DeleteLock(w)
  <2>1. OpsOnShare("ShareDelete", r.inst, r.vol) \in SUBSET ops
    BY DEF OpsOnShare
  <2> QED
    BY <1>4, <2>1, LockKeeps DEF DeleteLock, Critical
<1>5. CASE DeleteShare(w)
  <2> DEFINE o == OpOnShare("ShareDelete", r.inst, r.vol, 0)
             q == [r EXCEPT !.pc = "delete.wait"]
  <2>1. r.pc = "delete.share" /\ r.inst \in Insts /\ r.vol \in Vols
    BY <1>2, <1>5 DEF DeleteShare
  <2>2. CASE r.op # NoOp /\ UnlockAndWait(w, "delete.wait")
    <3>1. /\ q.pc = "delete.wait" /\ q.vol = r.vol /\ q.inst = r.inst /\ q.op = r.op
          /\ q.result = r.result
      BY <1>1 DEF Request
    <3>2. work' = [work EXCEPT ![w] = q] /\ UNCHANGED <<cloudVars, volumeLocks, pv>>
      BY <2>2 DEF UnlockAndWait
    <3> HIDE DEF q
    <3>3. LockKey(q) = LockKey(r)
      BY <2>1, <3>1 DEF LockKey, CreatePcs
    <3>4. q.op \in ShareDeletes(q) /\ (GetsPastShare(q) => GetsPastShare(r))
      BY <1>1, <2>1, <2>2, <3>1 DEF WorkOK, ShareDeletes, GetsPastShare
    <3>5. WorkOK(q)
      BY <1>1, <2>1, <3>1, <3>4 DEF WorkOK, CreatePcs, ExpandPcs
    <3> QED
      BY <2>1, <3>1, <3>2, <3>3, <3>5, WorkerMoves
  <2>3. CASE StartOrRefuse(w, o, "delete.wait")
    <3>1. o \in Op /\ o.type = "ShareDelete" /\ o.vol = r.vol /\ o.inst = r.inst
      BY <2>1, OpOnShareType DEF OpOnShare, ShareOps
    <3> HIDE DEF o
    <3>2. ShareOpFits(r, o) /\ PollsAt(r, o, "delete.wait")
      <4>1. ShareOpFits(r, o)
        BY <2>1, <3>1 DEF ShareOpFits
      <4>2. PollsAt(r, o, "delete.wait")
        BY <2>1, <3>1 DEF PollsAt, ShareDeletes
      <4> QED
        BY <4>1, <4>2
    <3> QED
      BY <2>1, <2>3, <3>1, <3>2, StartOrRefuseKeeps
  <2> QED
    BY <1>5, <2>2, <2>3 DEF DeleteShare
<1>6. CASE DeleteWait(w)
  BY <1>6, PollDoneKeeps DEF DeleteWait
<1>7. CASE DeleteRelock(w)
  BY <1>7, LockKeeps DEF DeleteRelock, Critical
<1>8. CASE DeleteOrShrinkInstance(w)
  <2>1. r.pc = "delete.instance" /\ r.inst \in Insts
    BY <1>2, <1>8 DEF DeleteOrShrinkInstance
  <2>2. CASE ReturnError(w)
    BY <2>1, <2>2, ReturnErrorKeeps
  <2>3. CASE DeleteSucceeds(w)
    BY <2>1, <2>3, DeleteSucceedsKeeps
  <2>4. ASSUME NEW type \in {"InstanceDelete", "InstanceUpdate"}, NEW cap \in Nat,
               StartOrRefuse(w, OpOnInstance(type, r.inst, cap), "delete.instanceWait")
        PROVE  Kept
    <3> DEFINE o == OpOnInstance(type, r.inst, cap)
    <3>1. o \in Op /\ o.type = type /\ o.inst = r.inst
      BY <2>1, OpOnInstanceType DEF OpOnInstance, InstanceOps
    <3>2. StartOrRefuse(w, o, "delete.instanceWait")
      BY <2>4
    <3> HIDE DEF o
    <3>3. ShareOpFits(r, o) /\ PollsAt(r, o, "delete.instanceWait")
      BY <2>1, <3>1 DEF ShareOpFits, PollsAt
    <3> QED
      BY <2>1, <3>1, <3>2, <3>3, StartOrRefuseKeeps
  <2>5. ShrinkTarget(r.inst) \in Nat
    BY <1>1, <2>1, SizesType
  <2> QED
    BY <1>8, <2>2, <2>3, <2>4, <2>5 DEF DeleteOrShrinkInstance
<1>9. CASE DeleteInstanceWait(w)
  BY <1>9, DeleteSucceedsKeeps DEF DeleteInstanceWait
<1> QED
  BY <1>3, <1>4, <1>5, <1>6, <1>7, <1>8, <1>9 DEF DeleteStep

\* ControllerExpandVolume answers when it has seen the share at its new size.
LEMMA ExpandSucceedsKeeps ==
  ASSUME ControllerInv, VolumesInv, NEW w \in Workers, work[w].pc \in ExpandPcs,
         share[work[w].inst][work[w].vol].cap >= ExpandSize[work[w].vol], ExpandSucceeds(w)
  PROVE  Kept
<1> DEFINE v == work[w].vol
           s == share[work[w].inst][v]
           newPV == [pv[v] EXCEPT !.cap = Larger(@, ExpandSize[v])]
<1>1. /\ work[w].pc # "idle" /\ v \in Vols /\ work[w].inst \in Insts /\ WorkOK(work[w])
      /\ pv \in [Vols -> PVRec] /\ share \in [Insts -> [Vols -> ShareRec]]
  BY RequestKnows
     DEF VolumesInv, ExpandPcs, ControllerInv, DriverInv, DriverTypeOK, DisciplineInv, CloudTypeOK
<1>2. /\ pv[v] \in PVRec /\ pv[v].cap \in Nat /\ ExpandSize[v] \in Nat /\ s.cap \in Nat
      /\ ShareSize[v] \in Nat
  BY <1>1, ControllerAssumption, OpsManagerAssumption DEF PVRec, ShareRec
<1>3. /\ pv[v].phase \in {"bound", "released"} /\ pv[v].inst = work[w].inst
      /\ pv[v].cap <= ExpandSize[v] /\ pv[v].cap >= ShareSize[v]
  BY <1>1 DEF WorkOK, VolumesInv, VolumeOK
<1>4. Larger(pv[v].cap, ExpandSize[v]) = ExpandSize[v]
  BY <1>2, <1>3 DEF Larger
<1>5. /\ newPV \in PVRec /\ newPV.phase = pv[v].phase /\ newPV.inst = work[w].inst
      /\ newPV.cap = ExpandSize[v]
  BY <1>2, <1>3, <1>4 DEF PVRec
<1>6. ReturnSuccess(w, newPV)
  BY DEF ExpandSucceeds
<1> HIDE DEF newPV
<1>7. pv[v].phase = "bound" => s.state = "READY"
  BY <1>1, <1>3 DEF VolumesInv, VolumeOK, ShareOf
<1>8. newPV.cap >= ShareSize[v] /\ newPV.cap >= pv[v].cap
  BY <1>2, <1>3, <1>5
<1>9. \A o \in ops : o.vol = v =>
        /\ o.type = "ShareUpdate" => o.cap >= newPV.cap
        /\ o.type \in {"ShareUpdate", "ShareDelete"} => newPV.inst = pv[o.vol].inst
  BY <1>2, <1>3, <1>5 DEF VolumesInv, ChangeOK
<1>10. s.cap >= newPV.cap
  BY <1>5
<1> QED
  BY <1>1, <1>3, <1>5, <1>6, <1>7, <1>8, <1>9, <1>10, ReturnSuccessKeeps

\* The steps of ControllerExpandVolume.
LEMMA ExpandKeeps ==
  ASSUME ControllerInv, VolumesInv, NEW w \in Workers, ExpandStep(w)
  PROVE  Kept
<1> DEFINE r == work[w]
<1> USE DEF SameRequest, ExpandPcs
<1>1. r \in Request /\ CloudTypeOK /\ WorkOK(r)
  BY RequestKnows DEF ControllerInv, DisciplineInv, VolumesInv
<1>2. r.pc \in ExpandPcs => r.vol \in Vols /\ r.inst \in Insts /\ ExpandSize[r.vol] \in Nat
  BY RequestKnows, ControllerAssumption
<1>3. ASSUME NEW o \in Op, NEW to \in ExpandPcs, r.pc \in ExpandPcs, o.inst = r.inst,
             o.type = "InstanceUpdate" \/ o = ExpandOp(r), StartOrRefuse(w, o, to)
      PROVE  Kept
  <2>1. ShareOpFits(r, o)
    BY <1>3 DEF ShareOpFits, ExpandOp, OpOnShare
  <2>2. PollsAt(r, o, to)
    BY <1>3 DEF PollsAt
  <2> QED
    BY <1>3, <2>1, <2>2, StartOrRefuseKeeps
<1>4. r.pc \in ExpandPcs => ExpandOp(r) \in Op /\ ExpandOp(r).inst = r.inst
  BY <1>2, OpOnShareType DEF ExpandOp, OpOnShare, ShareOps
<1>5. CASE ExpandGetShare(w)
  <2> DEFINE s == share[r.inst][r.vol]
             q == [r EXCEPT !.pc = "expand.lock", !.shareCap = s.cap,
                            !.parentCap = instance[r.inst].cap]
  <2>1. r.pc = "expand.get"
    BY <1>5 DEF ExpandGetShare
  <2>2. CASE ReturnError(w)
    BY <2>1, <2>2, ReturnErrorKeeps
  <2>3. CASE s.cap >= ExpandSize[r.vol] /\ ExpandSucceeds(w)
    BY <2>1, <2>3, ExpandSucceedsKeeps
  <2>4. ASSUME work' = [work EXCEPT ![w].pc = "expand.lock", ![w].shareCap = s.cap,
                                    ![w].parentCap = instance[r.inst].cap],
               UNCHANGED <<cloudVars, opsManagerVars, volumeLocks, pv, faults>>
        PROVE  Kept
    <3>1. work' = [work EXCEPT ![w] = q] /\ UNCHANGED <<cloudVars, volumeLocks, pv>>
      BY <2>4
    <3>2. q.pc = "expand.lock" /\ q.vol = r.vol /\ q.inst = r.inst
      BY <1>1 DEF Request
    <3> HIDE DEF q
    <3>3. LockKey(q) = LockKey(r)
      BY <2>1, <3>2 DEF LockKey, CreatePcs
    <3>4. WorkOK(q)
      BY <1>1, <2>1, <3>2 DEF WorkOK, GetsPastShare, CreatePcs, DeletePcs
    <3> QED
      BY <2>1, <3>1, <3>2, <3>3, <3>4, WorkerMoves
  <2> QED
    BY <1>5, <2>2, <2>3, <2>4 DEF ExpandGetShare
<1>6. CASE ExpandLock(w)
  <2>1. OpsOnShare("ShareUpdate", r.inst, r.vol) \in SUBSET ops
    BY DEF OpsOnShare
  <2> QED
    BY <1>6, <2>1, LockKeeps DEF ExpandLock, Critical
<1>7. CASE ExpandCheck(w)
  <2> DEFINE needed == ExpandSize[r.vol] - r.shareCap
             p == OpOnInstance("InstanceUpdate", r.inst, ExpandTarget(r.inst, needed))
             q == [r EXCEPT !.pc = "expand.wait"]
  <2>1. r.pc = "expand.check"
    BY <1>7 DEF ExpandCheck
  <2>2. CASE ReturnError(w)
    BY <2>1, <2>2, ReturnErrorKeeps
  <2>3. CASE UnlockAndWait(w, "expand.wait")
    <3>1. q.pc = "expand.wait" /\ q.vol = r.vol /\ q.inst = r.inst
      BY <1>1 DEF Request
    <3>2. work' = [work EXCEPT ![w] = q] /\ UNCHANGED <<cloudVars, volumeLocks, pv>>
      BY <2>3 DEF UnlockAndWait
    <3> HIDE DEF q
    <3>3. LockKey(q) = LockKey(r)
      BY <2>1, <3>1 DEF LockKey, CreatePcs
    <3>4. WorkOK(q)
      BY <1>1, <2>1, <3>1 DEF WorkOK, GetsPastShare, CreatePcs, DeletePcs
    <3> QED
      BY <2>1, <3>1, <3>2, <3>3, <3>4, WorkerMoves
  <2>4. CASE StartOrRefuse(w, p, "expand.wait")
    <3>1. needed \in Nat
      BY <1>1, <1>2, <2>1 DEF ControllerInv, DriverInv, RequestOK, Request
    <3>2. ExpandTarget(r.inst, needed) \in Nat
      BY <1>1, <1>2, <2>1, <3>1, SizesType
    <3>3. p \in Op /\ p.type = "InstanceUpdate" /\ p.inst = r.inst
      BY <1>2, <2>1, <3>2, OpOnInstanceType DEF OpOnInstance, InstanceOps
    <3> HIDE DEF p
    <3> QED
      BY <1>3, <2>1, <2>4, <3>3
  <2>5. CASE StartOrRefuse(w, ExpandOp(r), "expand.wait")
    BY <1>3, <1>4, <2>1, <2>5
  <2> QED
    BY <1>7, <2>2, <2>3, <2>4, <2>5 DEF ExpandCheck
<1>8. CASE ExpandWait(w)
  BY <1>8, PollDoneKeeps DEF ExpandWait
<1>9. CASE ExpandRelock(w)
  BY <1>9, LockKeeps DEF ExpandRelock, Critical
<1>10. CASE ExpandShare(w)
  BY <1>3, <1>4, <1>10 DEF ExpandShare
<1>11. CASE ExpandShareWait(w)
  BY <1>11, PollDoneKeeps DEF ExpandShareWait
<1>12. CASE ExpandVerify(w)
  BY <1>12, ExpandSucceedsKeeps, ReturnErrorKeeps DEF ExpandVerify
<1> QED
  BY <1>5, <1>6, <1>7, <1>8, <1>9, <1>10, <1>11, <1>12 DEF ExpandStep

\* A restart, a repair, a volume given up.
LEMMA EnvironmentKeeps ==
  ASSUME ControllerInv, VolumesInv,
         \/ DriverRestarts
         \/ \E i \in Insts : InstanceRepair(i) \/ InstanceRepaired(i)
         \/ \E v \in Vols : ReleasePV(v)
         \/ UNCHANGED vars
  PROVE  Kept
<1>1. CASE DriverRestarts
  <2>1. /\ \A w \in Workers : work'[w].pc = "idle"
        /\ UNCHANGED <<share, ops, pv>>
    BY <1>1, IdleType DEF DriverRestarts, cloudVars
  <2>2. LocksOK' /\ \A w \in Workers : WorkOK(work[w])'
    BY <2>1 DEF LocksOK, WorkOK, GetsPastShare, CreatePcs, DeletePcs, ExpandPcs
  <2>3. (\A v \in Vols : VolumeOK(v)') /\ (\A o \in ops' : ChangeOK(o)')
    BY <2>1 DEF VolumesInv, VolumeOK, ChangeOK, ShareOf
  <2> QED
    BY <2>1, <2>2, <2>3 DEF Kept, PVMove, VolumesInv
<1>2. CASE \/ \E i \in Insts : InstanceRepair(i) \/ InstanceRepaired(i)
           \/ UNCHANGED vars
  <2>1. UNCHANGED <<share, ops, pv, work, volumeLocks>>
    BY <1>2 DEF InstanceRepair, InstanceRepaired, RepairStarts, RepairEnds, opsManagerVars,
                vars, cloudVars
  <2>2. LocksOK' /\ \A w \in Workers : WorkOK(work[w])'
    BY <2>1 DEF VolumesInv, LocksOK, LockKey, WorkOK, GetsPastShare, ShareDeletes
  <2>3. (\A v \in Vols : VolumeOK(v)') /\ (\A o \in ops' : ChangeOK(o)')
    BY <2>1 DEF VolumesInv, VolumeOK, ChangeOK, ShareOf
  <2> QED
    BY <2>1, <2>2, <2>3 DEF Kept, PVMove, VolumesInv
<1>3. ASSUME NEW v \in Vols, ReleasePV(v)
      PROVE  Kept
  <2>1. /\ pv[v].phase = "bound" /\ pv' = [pv EXCEPT ![v].phase = "released"]
        /\ UNCHANGED <<share, ops, work, volumeLocks>>
    BY <1>3 DEF ReleasePV, cloudVars, opsManagerVars
  <2>2. pv \in [Vols -> PVRec]
    BY DEF ControllerInv, DriverInv, DriverTypeOK
  <2>3. /\ \A u \in Vols : u # v => pv'[u] = pv[u]
        /\ pv'[v].phase = "released" /\ pv'[v].inst = pv[v].inst /\ pv'[v].cap = pv[v].cap
    BY <2>1, <2>2 DEF PVRec
  <2>4. LocksOK'
    BY <2>1 DEF VolumesInv, LocksOK, LockKey
  <2>5. ASSUME NEW w \in Workers
        PROVE  WorkOK(work[w])'
    <3>1. WorkOK(work[w]) /\ work'[w] = work[w]
      BY <2>1 DEF VolumesInv
    <3>2. work[w].pc \in CreatePcs \cup DeletePcs \cup ExpandPcs => work[w].vol \in Vols
      BY RequestKnows DEF CreatePcs, DeletePcs, ExpandPcs
    <3>3. CASE work[w].vol = v
      BY <2>1, <2>3, <3>1, <3>3 DEF WorkOK, GetsPastShare, ShareDeletes
    <3>4. CASE work[w].vol # v
      BY <2>1, <2>3, <3>1, <3>2, <3>4 DEF WorkOK, GetsPastShare, ShareDeletes
    <3> QED
      BY <3>3, <3>4
  <2>6. \A u \in Vols : VolumeOK(u)'
    BY <2>1, <2>3 DEF VolumesInv, VolumeOK, ShareOf
  <2>7. ASSUME NEW o \in ops'
        PROVE  ChangeOK(o)'
    <3>1. o \in ops /\ o \in Op /\ ChangeOK(o)
      BY <2>1 DEF VolumesInv, ControllerInv, DisciplineInv, CloudTypeOK
    <3>2. o.type \in {"ShareUpdate", "ShareDelete"} => o.vol \in Vols
      BY <3>1, OpShape DEF InstanceOps
    <3> QED
      BY <2>1, <2>3, <3>1, <3>2 DEF ChangeOK
  <2>8. \A u \in Vols : PVMove(u)
    BY <2>1, <2>3 DEF PVMove
  <2> QED
    BY <2>4, <2>5, <2>6, <2>7, <2>8 DEF Kept, VolumesInv
<1> QED
  BY <1>1, <1>2, <1>3

\* Every step keeps what is known of every volume right.
LEMMA VolumesStep == ASSUME ControllerInv, VolumesInv, [Next]_vars PROVE Kept
<1>1. CASE \E w \in Workers : HandlerStep(w) \/ HandlerFails(w)
  <2>1. PICK w \in Workers : HandlerStep(w) \/ HandlerFails(w)
    BY <1>1
  <2>2. CASE PollError(w)
    BY <2>2, ReturnErrorKeeps DEF PollError, Waiting
  <2>3. CASE HandlerFails(w)
    BY <2>3, ReturnKeeps DEF HandlerFails
  <2> QED
    BY <2>1, <2>2, <2>3, CreateKeeps, DeleteKeeps, ExpandKeeps DEF HandlerStep
<1>2. CASE \E w \in Workers, v \in Vols :
             CreateVolume(w, v) \/ DeleteVolume(w, v) \/ ControllerExpandVolume(w, v)
  BY <1>2, RequestsKeep
<1>3. CASE \E o \in ops : OpDone(o) \/ OpError(o)
  BY <1>3, OpEndsKeeps
<1>4. CASE \/ DriverRestarts
           \/ \E i \in Insts : InstanceRepair(i) \/ InstanceRepaired(i)
           \/ \E v \in Vols : ReleasePV(v)
           \/ UNCHANGED vars
  BY <1>4, EnvironmentKeeps
<1> QED
  BY <1>1, <1>2, <1>3, <1>4 DEF Next, Finished

-----------------------------------------------------------------------------
(* The refinement. *)

\* No volume exists at first, and none is expected to.
LEMMA LifecycleInit == Init => Lifecycle!Init
BY DEF Init, Lifecycle!Init

\* A volume that is handed out is backed, and of a deleted one nothing is left; so a
\* step moves every volume as the contract allows.
LEMMA LifecycleStep ==
  ASSUME ControllerInv, ControllerInv', VolumesInv', \A v \in Vols : PVMove(v)
  PROVE  Lifecycle!Next
<1> SUFFICES ASSUME NEW v \in Vols
             PROVE  \/ Lifecycle!Bind(v) \/ Lifecycle!Grow(v) \/ Lifecycle!Delete(v)
                    \/ Lifecycle!Provision(v) \/ Lifecycle!Change(v) \/ Lifecycle!Release(v)
                    \/ Lifecycle!Reclaim(v) \/ Lifecycle!RemainDeleted(v)
  BY DEF Lifecycle!Next
<1>1. VolumeOK(v)' /\ (pv'[v].phase # "wanted" => pv'[v].inst \in Insts) /\ NoInst \notin Insts
  BY FilestoreAssumption DEF VolumesInv, ControllerInv, DriverInv, PVOK
<1>2. pv'[v].phase = "bound" => Lifecycle!Backed(v)'
  <2> SUFFICES ASSUME pv'[v].phase = "bound" PROVE Lifecycle!Backed(v)'
    OBVIOUS
  <2>1. pv'[v].inst \in Insts /\ pv'[v].inst # NoInst
    BY <1>1
  <2>2. ShareOf(v)'.state = "READY" /\ ShareOf(v)'.cap >= pv'[v].cap
    BY <1>1 DEF VolumeOK
  <2>3. instance'[pv'[v].inst].state \in {"READY", "REPAIRING"}
    BY <2>1, <2>2 DEF ControllerInv, DisciplineInv, SharesOnUsableInstances, ShareOf
  <2>4. ShareUsable(v)'
    BY <2>2, <2>3 DEF ShareUsable
  <2> QED
    BY <2>1, <2>2, <2>4 DEF Lifecycle!Backed
<1> DEFINE StateOf == CASE pv[v].inst = NoInst -> "none"
                        [] pv[v].inst # NoInst /\ ShareOf(v).state = "ABSENT" -> "none"
                        [] pv[v].inst # NoInst /\ ShareUsable(v) -> "usable"
                        [] OTHER -> "partial"
<1>3. pv'[v].phase = "deleted" => StateOf' = "none"
  <2>1. pv'[v].phase = "deleted" => pv'[v].inst # NoInst /\ ShareOf(v)'.state = "ABSENT"
    BY <1>1 DEF VolumeOK
  <2> QED
    BY <2>1 DEF ShareUsable, ShareOf
<1>4. pv[v].phase \in Phases /\ pv[v].cap \in Nat /\ pv'[v].cap \in Nat
  BY DEF ControllerInv, DriverInv, DriverTypeOK, PVRec
<1>5. CASE pv'[v].phase = "bound" /\ pv[v].phase = "wanted"
  BY <1>2, <1>5 DEF Lifecycle!Bind, Lifecycle!Becomes
<1>6. CASE pv'[v].phase = "bound" /\ pv[v].phase = "bound" /\ pv'[v].cap >= pv[v].cap
  <2>1. pv'[v].cap > pv[v].cap \/ pv'[v].cap = pv[v].cap
    BY <1>4, <1>6
  <2> QED
    BY <1>2, <1>6, <2>1
       DEF Lifecycle!Grow, Lifecycle!Change, Lifecycle!Becomes, Lifecycle!SameTold
<1>7. CASE pv'[v].phase = "wanted" /\ pv'[v] = pv[v]
  BY <1>7 DEF Lifecycle!Provision, Lifecycle!Becomes, Lifecycle!SameTold
<1>8. CASE pv[v].phase = "released" /\ pv'[v].phase = "released"
  BY <1>8 DEF Lifecycle!Reclaim, Lifecycle!Becomes
<1>9. CASE pv[v].phase = "bound" /\ pv'[v].phase = "released" /\ pv'[v].cap = pv[v].cap
  BY <1>9 DEF Lifecycle!Release, Lifecycle!Becomes, Lifecycle!SameTold
<1>10. CASE pv[v].phase = "released" /\ pv'[v].phase = "deleted" /\ pv'[v].cap = pv[v].cap
  BY <1>3, <1>10 DEF Lifecycle!Delete, Lifecycle!Becomes, Lifecycle!SameTold, ShareOf
<1>11. CASE pv'[v].phase = "deleted" /\ pv'[v] = pv[v]
  BY <1>3, <1>11 DEF Lifecycle!RemainDeleted, Lifecycle!Becomes, Lifecycle!SameTold, ShareOf
<1> QED
  <2>1. pv'[v] = pv[v] => pv'[v].cap >= pv[v].cap
    BY <1>4
  <2> QED
    BY <1>4, <1>5, <1>6, <1>7, <1>8, <1>9, <1>10, <1>11, <2>1 DEF PVMove, Phases

\* The invariant at first.
LEMMA VolumesInit == Init => VolumesInv
BY IdleType, OpsManagerAssumption
   DEF Init, CloudInit, VolumesInv, LocksOK, WorkOK, VolumeOK, ShareOf, AbsentShare,
       GetsPastShare, CreatePcs, DeletePcs, ExpandPcs

\* What every handler has learnt, and what the orchestrator was told, is right in every
\* reachable state: two requests never work on one volume, a deletion that has got past
\* the share leaves none behind, and a volume handed out has its share, large enough.
THEOREM VolumesInvariance == Spec => []VolumesInv
<1>1. ControllerInv /\ VolumesInv /\ [Next]_vars => VolumesInv'
  BY VolumesStep DEF Kept
<1> QED
  BY <1>1, VolumesInit, ControllerInvariance, PTL DEF Spec

\* The controller keeps the contract of every volume, whatever is retried, lost, late,
\* failing or restarted.
THEOREM ControllerImplementsLifecycle == Spec => ImplementsLifecycle
<1>1. ControllerInv /\ VolumesInv /\ [Next]_vars => [Lifecycle!Next]_(Lifecycle!vars)
  BY VolumesStep, ControllerStep, LifecycleStep DEF Kept
<1> QED
  BY <1>1, LifecycleInit, ControllerInvariance, VolumesInvariance, PTL
     DEF Spec, ImplementsLifecycle, Lifecycle!Spec

-----------------------------------------------------------------------------
(* What a step starts. *)

\* An operation is started, from the place in the handlers that decides on it.
Started(w, o, to) ==
  LET r == work[w] IN
  /\ StartWorkflow(w, o, to)
  /\ \/ /\ r.pc = "create.setup" /\ to = "create.wait"
        /\ ~ShareCreateRunning(r.vol) /\ o \in Placements(r.vol)
     \/ /\ r.pc = "create.share" /\ to = "create.shareWait"
        /\ o = OpOnShare("ShareCreate", r.inst, r.vol, ShareSize[r.vol])
     \/ /\ r.pc = "delete.share" /\ to = "delete.wait"
        /\ o = OpOnShare("ShareDelete", r.inst, r.vol, 0)
     \/ /\ r.pc = "delete.instance" /\ to = "delete.instanceWait"
        /\ \/ o = OpOnInstance("InstanceDelete", r.inst, 0)
           \/ /\ CanShrink(r.inst) /\ ~Empty(r.inst)
              /\ o = OpOnInstance("InstanceUpdate", r.inst, ShrinkTarget(r.inst))
     \/ /\ r.pc \in {"expand.check", "expand.share"} /\ to \in {"expand.wait", "expand.shareWait"}
        /\ \/ o = ExpandOp(r)
           \/ \E needed \in Nat :
                o = OpOnInstance("InstanceUpdate", r.inst, ExpandTarget(r.inst, needed))

\* Nothing is started, and no creation gets past its check for an existing share.
NothingStarted ==
  /\ ops' \subseteq ops
  /\ \A u \in Workers :
       /\ SetsUp(work'[u]) => SetsUp(work[u])
       /\ PastCheck(work'[u]) => /\ PastCheck(work[u]) /\ work'[u].vol = work[u].vol
                                 /\ work'[u].inst = work[u].inst

\* One worker's step that starts nothing.
LEMMA OthersSetUp ==
  ASSUME ControllerInv, NEW w \in Workers, NEW r, work' = [work EXCEPT ![w] = r], ops' = ops,
         SetsUp(r) => SetsUp(work[w]),
         PastCheck(r) => PastCheck(work[w]) /\ r.vol = work[w].vol /\ r.inst = work[w].inst
  PROVE  NothingStarted
BY RequestKnows DEF NothingStarted

\* Returns, moves and locks start nothing.
LEMMA ReturnStartsNothing ==
  ASSUME ControllerInv, NEW w \in Workers, Return(w), UNCHANGED cloudVars
  PROVE  NothingStarted
BY OthersSetUp DEF Return, cloudVars, SetsUp, PastCheck, CreatesPcs, Idle

LEMMA GotoStartsNothing ==
  ASSUME ControllerInv, NEW w \in Workers, NEW pc, Goto(w, pc),
         pc \notin {"create.wait", "create.share"},
         pc = "create.relock" => SetsUp(work[w]),
         pc \in {"create.relock", "create.shareWait", "create.get"} => PastCheck(work[w])
  PROVE  NothingStarted
<1> DEFINE r == [work[w] EXCEPT !.pc = pc]
<1>1. work[w] \in Request /\ work' = [work EXCEPT ![w] = r] /\ ops' = ops
  BY RequestKnows DEF Goto, cloudVars
<1>2. r.pc = pc /\ r.vol = work[w].vol /\ r.inst = work[w].inst
  BY <1>1 DEF Request
<1> HIDE DEF r
<1> QED
  BY <1>1, <1>2, OthersSetUp DEF SetsUp, PastCheck, CreatesPcs

LEMMA LockStartsNothing ==
  ASSUME ControllerInv, NEW w \in Workers, NEW from, NEW to, NEW joinable,
         LockAndListOps(w, from, to, joinable),
         to \in Critical, to = "create.share" => from = "create.relock"
  PROVE  NothingStarted
<1> DEFINE op == IF joinable = {} THEN NoOp ELSE CHOOSE o \in joinable : TRUE
           r == [work[w] EXCEPT !.pc = to, !.result = "none", !.op = op]
<1>1. /\ work[w] \in Request /\ work[w].pc = from /\ work' = [work EXCEPT ![w] = r] /\ ops' = ops
  BY RequestKnows DEF LockAndListOps, cloudVars
<1> HIDE DEF op
<1>2. r.pc = to /\ r.vol = work[w].vol /\ r.inst = work[w].inst
  BY <1>1 DEF Request
<1> HIDE DEF r
<1> QED
  BY <1>1, <1>2, OthersSetUp DEF SetsUp, PastCheck, CreatesPcs, Critical

LEMMA UnlockStartsNothing ==
  ASSUME ControllerInv, NEW w \in Workers, NEW to, UnlockAndWait(w, to),
         to \in {"delete.wait", "expand.wait"}
  PROVE  NothingStarted
<1> DEFINE r == [work[w] EXCEPT !.pc = to]
<1>1. work[w] \in Request /\ work' = [work EXCEPT ![w] = r] /\ ops' = ops
  BY RequestKnows DEF UnlockAndWait, cloudVars
<1>2. r.pc = to
  BY <1>1 DEF Request
<1> HIDE DEF r
<1> QED
  BY <1>1, <1>2, OthersSetUp DEF SetsUp, PastCheck, CreatesPcs

LEMMA ErrorStartsNothing ==
  ASSUME ControllerInv, NEW w \in Workers, ReturnError(w)
  PROVE  NothingStarted
BY ReturnStartsNothing DEF ReturnError

LEMMA SuccessStartsNothing ==
  ASSUME ControllerInv, NEW w \in Workers, NEW newPV, ReturnSuccess(w, newPV)
  PROVE  NothingStarted
BY ReturnStartsNothing DEF ReturnSuccess

\* The steps of the handlers.
StartsWell(w) == NothingStarted \/ \E o \in Op, to \in Waiting : Started(w, o, to)

\* The check for an existing share never finds one.
LEMMA NoShareRecognised == ASSUME NEW v \in Vols PROVE ExistingShare(v) = {}
<1>1. Protocol[v] # ""
  BY OpsManagerAssumption DEF Protocols
<1> QED
  BY <1>1 DEF ExistingShare, ListedProtocol

LEMMA CreateStarts ==
  ASSUME ControllerInv, NEW w \in Workers, CreateStep(w)
  PROVE  StartsWell(w)
<1> DEFINE r == work[w]
<1>1. CloudTypeOK /\ r \in Request /\ (r.pc \in CreatePcs => r.vol \in Vols)
  BY RequestKnows DEF ControllerInv, DisciplineInv, CreatePcs
<1>2. CASE CreateLock(w) \/ CreateRelock(w)
  BY <1>2, LockStartsNothing DEF CreateLock, CreateRelock, StartsWell, Critical
<1>3. CASE CreateSetup(w)
  <2>1. r.pc = "create.setup" /\ r.vol \in Vols
    BY <1>1, <1>3 DEF CreateSetup, CreatePcs
  <2>2. CASE ReturnError(w)
    BY <2>2, ErrorStartsNothing DEF StartsWell
  <2>3. ExistingShare(r.vol) = {}
    BY <2>1, NoShareRecognised
  <2>4. ASSUME ~ShareCreateRunning(r.vol), NEW o \in Placements(r.vol),
               StartOrRefuse(w, o, "create.wait")
        PROVE  StartsWell(w)
    <3>1. o \in Op
      BY <1>1, <2>1, PlacementsType
    <3>2. CASE StartWorkflow(w, o, "create.wait")
      BY <2>1, <2>4, <3>1, <3>2 DEF Started, StartsWell, Waiting
    <3>3. CASE Refused(w, o)
      BY <3>3, ErrorStartsNothing DEF Refused, StartsWell
    <3> QED
      BY <2>4, <3>2, <3>3 DEF StartOrRefuse
  <2> QED
    BY <1>3, <2>2, <2>3, <2>4 DEF CreateSetup
<1>4. CASE CreateWait(w)
  BY <1>4, GotoStartsNothing DEF CreateWait, PollDone, SetsUp, PastCheck, CreatesPcs, StartsWell
<1>5. CASE CreateShareWait(w)
  BY <1>5, GotoStartsNothing DEF CreateShareWait, PollDone, PastCheck, CreatesPcs, StartsWell
<1>6. CASE CreateShare(w)
  <2> DEFINE o == OpOnShare("ShareCreate", r.inst, r.vol, ShareSize[r.vol])
  <2>1. /\ r.pc = "create.share" /\ r.inst \in Insts /\ r.vol \in Vols
        /\ ShareSize[r.vol] \in Nat /\ StartOrRefuse(w, o, "create.shareWait")
    BY <1>6, RequestKnows, OpsManagerAssumption DEF CreateShare
  <2>2. o \in Op
    BY <2>1, OpOnShareType DEF ShareOps
  <2>3. CASE StartWorkflow(w, o, "create.shareWait")
    <3>1. Started(w, o, "create.shareWait")
      BY <2>1, <2>3 DEF Started
    <3> QED
      BY <2>2, <3>1 DEF StartsWell, Waiting
  <2>4. CASE Refused(w, o)
    BY <2>4, ErrorStartsNothing DEF Refused, StartsWell
  <2> QED
    BY <2>1, <2>3, <2>4 DEF StartOrRefuse
<1>7. CASE CreateGetShare(w)
  BY <1>7, ErrorStartsNothing, SuccessStartsNothing DEF CreateGetShare, StartsWell
<1> QED
  BY <1>2, <1>3, <1>4, <1>5, <1>6, <1>7 DEF CreateStep

LEMMA DeleteStarts ==
  ASSUME ControllerInv, NEW w \in Workers, DeleteStep(w)
  PROVE  StartsWell(w)
<1> DEFINE r == work[w]
<1>1. CloudTypeOK /\ r \in Request /\ (r.pc \in DeletePcs => r.vol \in Vols /\ r.inst \in Insts)
  BY RequestKnows DEF ControllerInv, DisciplineInv, DeletePcs
<1>2. ASSUME NEW o \in Op, NEW to \in Waiting, StartWorkflow(w, o, to) => Started(w, o, to),
             StartOrRefuse(w, o, to)
      PROVE  StartsWell(w)
  BY <1>2, ErrorStartsNothing DEF StartOrRefuse, Refused, StartsWell
<1>3. CASE DeleteGetShare(w)
  BY <1>3, GotoStartsNothing DEF DeleteGetShare, StartsWell
<1>4. CASE DeleteLock(w) \/ DeleteRelock(w)
  BY <1>4, LockStartsNothing DEF DeleteLock, DeleteRelock, StartsWell, Critical
<1>5. CASE DeleteShare(w)
  <2> DEFINE o == OpOnShare("ShareDelete", r.inst, r.vol, 0)
  <2>1. r.pc = "delete.share" /\ o \in Op
    BY <1>1, <1>5, OpOnShareType DEF DeleteShare, DeletePcs, ShareOps
  <2>2. CASE UnlockAndWait(w, "delete.wait")
    BY <2>2, UnlockStartsNothing DEF StartsWell
  <2>3. CASE StartOrRefuse(w, o, "delete.wait")
    <3>1. StartWorkflow(w, o, "delete.wait") => Started(w, o, "delete.wait")
      BY <2>1 DEF Started
    <3> QED
      BY <1>2, <2>1, <2>3, <3>1 DEF Waiting
  <2> QED
    BY <1>5, <2>2, <2>3 DEF DeleteShare
<1>6. CASE DeleteWait(w)
  BY <1>6, GotoStartsNothing DEF DeleteWait, PollDone, StartsWell
<1>7. CASE DeleteOrShrinkInstance(w)
  <2> DEFINE o == OpOnInstance("InstanceDelete", r.inst, 0)
             p == OpOnInstance("InstanceUpdate", r.inst, ShrinkTarget(r.inst))
  <2>1. r.pc = "delete.instance" /\ r.inst \in Insts
    BY <1>1, <1>7 DEF DeleteOrShrinkInstance, DeletePcs
  <2>2. o \in Op /\ p \in Op
    BY <1>1, <2>1, SizesType, OpOnInstanceType DEF InstanceOps
  <2>3. CASE ReturnError(w) \/ DeleteSucceeds(w)
    BY <2>3, ErrorStartsNothing, SuccessStartsNothing DEF DeleteSucceeds, StartsWell
  <2>4. CASE StartOrRefuse(w, o, "delete.instanceWait")
    <3>1. StartWorkflow(w, o, "delete.instanceWait") => Started(w, o, "delete.instanceWait")
      BY <2>1 DEF Started
    <3> QED
      BY <1>2, <2>2, <2>4, <3>1 DEF Waiting
  <2>5. CASE CanShrink(r.inst) /\ ~Empty(r.inst) /\ StartOrRefuse(w, p, "delete.instanceWait")
    <3>1. StartWorkflow(w, p, "delete.instanceWait") => Started(w, p, "delete.instanceWait")
      BY <2>1, <2>5 DEF Started
    <3> QED
      BY <1>2, <2>2, <2>5, <3>1 DEF Waiting
  <2> QED
    BY <1>7, <2>3, <2>4, <2>5 DEF DeleteOrShrinkInstance
<1>8. CASE DeleteInstanceWait(w)
  BY <1>8, SuccessStartsNothing DEF DeleteInstanceWait, DeleteSucceeds, StartsWell
<1> QED
  BY <1>3, <1>4, <1>5, <1>6, <1>7, <1>8 DEF DeleteStep

LEMMA ExpandStarts ==
  ASSUME ControllerInv, NEW w \in Workers, ExpandStep(w)
  PROVE  StartsWell(w)
<1> DEFINE r == work[w]
<1>1. /\ CloudTypeOK /\ r \in Request
      /\ r.pc \in ExpandPcs => /\ r.vol \in Vols /\ r.inst \in Insts /\ ExpandSize[r.vol] \in Nat
                               /\ ExpandOp(r) \in Op
  <2>1. CloudTypeOK /\ r \in Request /\ (r.pc \in ExpandPcs => r.vol \in Vols /\ r.inst \in Insts)
    BY RequestKnows DEF ControllerInv, DisciplineInv, ExpandPcs
  <2> QED
    BY <2>1, ControllerAssumption, OpOnShareType DEF ExpandOp, ShareOps
<1>2. ASSUME NEW o \in Op, NEW to \in Waiting, StartWorkflow(w, o, to) => Started(w, o, to),
             StartOrRefuse(w, o, to)
      PROVE  StartsWell(w)
  BY <1>2, ErrorStartsNothing DEF StartOrRefuse, Refused, StartsWell
<1>3. CASE ExpandGetShare(w)
  <2> DEFINE s == share[r.inst][r.vol]
             q == [r EXCEPT !.pc = "expand.lock", !.shareCap = s.cap,
                            !.parentCap = instance[r.inst].cap]
  <2>1. CASE ReturnError(w) \/ ExpandSucceeds(w)
    BY <2>1, ErrorStartsNothing, SuccessStartsNothing DEF ExpandSucceeds, StartsWell
  <2>2. ASSUME work' = [work EXCEPT ![w].pc = "expand.lock", ![w].shareCap = s.cap,
                                    ![w].parentCap = instance[r.inst].cap],
               UNCHANGED <<cloudVars, opsManagerVars, volumeLocks, pv, faults>>
        PROVE  StartsWell(w)
    <3>1. work' = [work EXCEPT ![w] = q] /\ ops' = ops
      BY <2>2 DEF cloudVars
    <3>2. q.pc = "expand.lock"
      BY <1>1 DEF Request
    <3> HIDE DEF q
    <3> QED
      BY <3>1, <3>2, OthersSetUp DEF SetsUp, PastCheck, CreatesPcs, StartsWell
  <2> QED
    BY <1>3, <2>1, <2>2 DEF ExpandGetShare
<1>4. CASE ExpandLock(w) \/ ExpandRelock(w)
  BY <1>4, LockStartsNothing DEF ExpandLock, ExpandRelock, StartsWell, Critical
<1>5. CASE ExpandCheck(w)
  <2> DEFINE needed == ExpandSize[r.vol] - r.shareCap
             p == OpOnInstance("InstanceUpdate", r.inst, ExpandTarget(r.inst, needed))
  <2>1. r.pc = "expand.check" /\ r.vol \in Vols /\ r.inst \in Insts /\ ExpandOp(r) \in Op
    BY <1>1, <1>5 DEF ExpandCheck, ExpandPcs
  <2>2. CASE ReturnError(w)
    BY <2>2, ErrorStartsNothing DEF StartsWell
  <2>3. CASE UnlockAndWait(w, "expand.wait")
    BY <2>3, UnlockStartsNothing DEF StartsWell
  <2>4. CASE StartOrRefuse(w, p, "expand.wait")
    <3>1. needed \in Nat
      BY <1>1, <2>1 DEF ControllerInv, DriverInv, RequestOK, Request, ExpandPcs
    <3>2. p \in Op
      <4>1. ExpandTarget(r.inst, needed) \in Nat
        BY <1>1, <2>1, <3>1, SizesType
      <4> QED
        BY <2>1, <4>1, OpOnInstanceType DEF InstanceOps
    <3>3. StartWorkflow(w, p, "expand.wait") => Started(w, p, "expand.wait")
      BY <2>1, <3>1 DEF Started
    <3> QED
      BY <1>2, <2>4, <3>2, <3>3 DEF Waiting
  <2>5. CASE StartOrRefuse(w, ExpandOp(r), "expand.wait")
    <3>1. StartWorkflow(w, ExpandOp(r), "expand.wait") => Started(w, ExpandOp(r), "expand.wait")
      BY <2>1 DEF Started
    <3> QED
      BY <1>2, <2>1, <2>5, <3>1 DEF Waiting
  <2> QED
    BY <1>5, <2>2, <2>3, <2>4, <2>5 DEF ExpandCheck
<1>6. CASE ExpandWait(w)
  BY <1>6, GotoStartsNothing DEF ExpandWait, PollDone, StartsWell
<1>7. CASE ExpandShare(w)
  <2>1. /\ r.pc = "expand.share" /\ ExpandOp(r) \in Op
        /\ StartOrRefuse(w, ExpandOp(r), "expand.shareWait")
    BY <1>1, <1>7 DEF ExpandShare, ExpandPcs
  <2>2. StartWorkflow(w, ExpandOp(r), "expand.shareWait")
          => Started(w, ExpandOp(r), "expand.shareWait")
    BY <2>1 DEF Started
  <2> QED
    BY <1>2, <2>1, <2>2 DEF Waiting
<1>8. CASE ExpandShareWait(w)
  BY <1>8, GotoStartsNothing DEF ExpandShareWait, PollDone, StartsWell
<1>9. CASE ExpandVerify(w)
  BY <1>9, ErrorStartsNothing, SuccessStartsNothing DEF ExpandVerify, ExpandSucceeds, StartsWell
<1> QED
  BY <1>3, <1>4, <1>5, <1>6, <1>7, <1>8, <1>9 DEF ExpandStep

\* Every step starts nothing, or an operation some handler decided on.
LEMMA StepStarts ==
  ASSUME ControllerInv, [Next]_vars
  PROVE  NothingStarted \/ \E w \in Workers, o \in Op, to \in Waiting : Started(w, o, to)
<1>1. CASE \E w \in Workers : HandlerStep(w) \/ HandlerFails(w)
  <2>1. PICK w \in Workers : HandlerStep(w) \/ HandlerFails(w)
    BY <1>1
  <2>2. CASE PollError(w) \/ HandlerFails(w)
    BY <2>2, ErrorStartsNothing, ReturnStartsNothing DEF PollError, HandlerFails
  <2>3. CASE CreateStep(w) \/ DeleteStep(w) \/ ExpandStep(w)
    BY <2>3, CreateStarts, DeleteStarts, ExpandStarts DEF StartsWell
  <2> QED
    BY <2>1, <2>2, <2>3 DEF HandlerStep
<1>2. CASE \E w \in Workers, v \in Vols :
             CreateVolume(w, v) \/ DeleteVolume(w, v) \/ ControllerExpandVolume(w, v)
  <2>1. PICK w \in Workers, v \in Vols :
               CreateVolume(w, v) \/ DeleteVolume(w, v) \/ ControllerExpandVolume(w, v)
    BY <1>2
  <2>2. \E r : Accept(w, r) /\ r.pc \in {"create.lock", "delete.get", "expand.get"}
    <3> DEFINE c == [Idle EXCEPT !.pc = "create.lock", !.vol = v]
               d == [Idle EXCEPT !.pc = "delete.get", !.vol = v, !.inst = pv[v].inst]
               e == [Idle EXCEPT !.pc = "expand.get", !.vol = v, !.inst = pv[v].inst]
    <3>1. c.pc = "create.lock" /\ d.pc = "delete.get" /\ e.pc = "expand.get"
      BY DEF Idle
    <3>2. Accept(w, c) \/ Accept(w, d) \/ Accept(w, e)
      BY <2>1 DEF CreateVolume, DeleteVolume, ControllerExpandVolume
    <3> HIDE DEF c, d, e
    <3> QED
      BY <3>1, <3>2
  <2>3. PICK r : Accept(w, r) /\ r.pc \in {"create.lock", "delete.get", "expand.get"}
    BY <2>2
  <2> QED
    BY <2>3, OthersSetUp DEF Accept, cloudVars, SetsUp, PastCheck, CreatesPcs
<1>3. CASE \E o \in ops : OpDone(o) \/ OpError(o)
  <2>1. PICK o \in ops, result \in {"ok", "error"} :
          NotifyPollers(o, result) /\ (OpSucceeds(o) \/ OpFails(o))
    BY <1>3 DEF OpDone, OpError
  <2>2. ASSUME NEW u \in Workers
        PROVE  /\ work'[u].pc = work[u].pc /\ work'[u].op = work[u].op
               /\ work'[u].vol = work[u].vol /\ work'[u].inst = work[u].inst
    BY <2>1, RequestKnows DEF NotifyPollers, Request
  <2>3. ops' \subseteq ops
    BY <2>1 DEF OpSucceeds, OpFails
  <2> QED
    BY <2>2, <2>3 DEF NothingStarted, SetsUp, PastCheck
<1>4. CASE DriverRestarts
  BY <1>4, IdleType DEF DriverRestarts, cloudVars, NothingStarted, SetsUp, PastCheck, CreatesPcs
<1>5. CASE \/ \E i \in Insts : InstanceRepair(i) \/ InstanceRepaired(i)
           \/ \E v \in Vols : ReleasePV(v)
           \/ UNCHANGED vars
  <2>1. work' = work /\ ops' = ops
    BY <1>5 DEF InstanceRepair, InstanceRepaired, RepairStarts, RepairEnds, ReleasePV,
                vars, cloudVars, opsManagerVars
  <2> QED
    BY <2>1 DEF NothingStarted
<1> QED
  BY <1>1, <1>2, <1>3, <1>4, <1>5 DEF Next, Finished

-----------------------------------------------------------------------------
(* Sizes. *)

\* Rounding up to a multiple of the step is monotone.
LEMMA AlignMonotone ==
  ASSUME NEW a \in Nat, NEW b \in Nat, NEW s \in Nat, a <= b
  PROVE  AlignBytes(a, s) <= AlignBytes(b, s)
<1>1. CASE s = 0
  BY <1>1 DEF AlignBytes
<1>2. CASE s # 0
  <2> DEFINE p == (a + s - 1) \div s
             q == (b + s - 1) \div s
  <2>1. /\ p \in Nat /\ q \in Nat
        /\ p * s <= a + s - 1 /\ b + s - 1 < (q + 1) * s
    BY <1>2
  <2>2. AlignBytes(a, s) = p * s /\ AlignBytes(b, s) = q * s
    BY <1>2 DEF AlignBytes
  <2> HIDE DEF p, q
  <2>3. p * s < (q + 1) * s
    BY <2>1
  <2>4. p < q + 1
    BY <1>2, <2>1, <2>3
  <2>5. p * s <= q * s
    BY <2>1, <2>4
  <2> QED
    BY <2>2, <2>5
<1> QED
  BY <1>1, <1>2

\* What may be asked for an instance: at most the largest size, and room for its shares
\* unless it does not become smaller.
WellSized(o) ==
  /\ o.type \in {"InstanceCreate", "InstanceUpdate"} => o.cap <= MaxCap
  /\ o.type = "InstanceUpdate" => \/ o.cap >= SumShareBytes(o.inst)
                                  \/ o.cap >= instance[o.inst].cap

\* An expansion makes room, or makes the instance as large as can be.
LEMMA ExpandWellSized ==
  ASSUME CloudTypeOK, CapsOK, NEW i \in Insts, NEW needed \in Nat,
         NEW o, o = OpOnInstance("InstanceUpdate", i, ExpandTarget(i, needed))
  PROVE  WellSized(o)
<1> DEFINE sum == SumShareBytes(i)
           cap == AlignBytes(needed + sum, StepSize)
<1>1. sum \in Nat /\ MaxCap \in Nat /\ StepSize \in Nat
  BY SizesType, OpsManagerAssumption
<1>2. cap \in Nat /\ cap >= needed + sum
  <2>1. needed + sum \in Nat
    BY <1>1
  <2> QED
    BY <1>1, <2>1, AlignType
<1>3. ExpandTarget(i, needed) = Smaller(cap, MaxCap)
  BY DEF ExpandTarget
<1> HIDE DEF cap, sum
<1>4. instance[i].cap \in Nat /\ instance[i].cap <= MaxCap
  BY DEF CloudTypeOK, InstanceRec, CapsOK
<1>5. /\ Smaller(cap, MaxCap) <= MaxCap
      /\ Smaller(cap, MaxCap) >= sum \/ Smaller(cap, MaxCap) >= instance[i].cap
  BY <1>1, <1>2, <1>4 DEF Smaller
<1> QED
  BY <1>3, <1>5 DEF WellSized, OpOnInstance, sum

\* A shrink leaves room, and stays below the largest size because the instance does.
LEMMA ShrinkWellSized ==
  ASSUME CloudTypeOK, CapsOK, NEW i \in Insts, CanShrink(i),
         NEW o, o = OpOnInstance("InstanceUpdate", i, ShrinkTarget(i))
  PROVE  WellSized(o)
<1> DEFINE sum == SumShareBytes(i)
           cap == AlignBytes(sum, StepSize)
<1>1. /\ sum \in Nat /\ MaxCap \in Nat /\ StepSize \in Nat /\ MinCap \in Nat
      /\ instance[i].cap \in Nat /\ instance[i].cap <= MaxCap /\ sum < instance[i].cap
  BY SizesType, OpsManagerAssumption DEF CloudTypeOK, InstanceRec, CapsOK, CanShrink
<1>2. cap \in Nat /\ cap >= sum
  BY <1>1, AlignType
<1>3. cap <= MaxCap
  <2>1. sum <= MaxCap
    BY <1>1
  <2>2. cap <= AlignBytes(MaxCap, StepSize)
    BY <1>1, <2>1, AlignMonotone
  <2> QED
    BY <2>2, SizesAssumption
<1>4. ShrinkTarget(i) = Larger(cap, MinCap)
  BY DEF ShrinkTarget
<1> HIDE DEF cap, sum
<1>5. Larger(cap, MinCap) <= MaxCap /\ Larger(cap, MinCap) >= sum
  BY <1>1, <1>2, <1>3, SizesAssumption DEF Larger
<1> QED
  BY <1>4, <1>5 DEF WellSized, OpOnInstance, sum

\* What the handlers start is well sized.
LEMMA StartedWellSized ==
  ASSUME ControllerInv, CapsOK, NEW w \in Workers, NEW o \in Op, NEW to, Started(w, o, to)
  PROVE  WellSized(o)
<1> DEFINE r == work[w]
<1>1. /\ CloudTypeOK /\ r.pc # "idle" /\ r.vol \in Vols
      /\ r.pc # "create.setup" => r.inst \in Insts
  <2>1. r.pc \in {"create.setup", "create.share", "delete.share", "delete.instance",
                  "expand.check", "expand.share"}
    BY DEF Started
  <2> QED
    BY <2>1, RequestKnows DEF ControllerInv, DisciplineInv
<1>2. CASE o.type \notin {"InstanceCreate", "InstanceUpdate"}
  BY <1>2 DEF WellSized
<1>3. CASE r.pc = "create.setup" /\ o \in Placements(r.vol)
  <2>1. CASE \E i \in Insts : o = PlacementOn(i, r.vol)
    <3>1. PICK i \in Insts : o = PlacementOn(i, r.vol)
      BY <2>1
    <3>2. CASE o = OpOnInstance("InstanceUpdate", i, ExpandTarget(i, ShareSize[r.vol]))
      BY <1>1, <3>2, ExpandWellSized, OpsManagerAssumption
    <3>3. CASE o = OpOnShare("ShareCreate", i, r.vol, ShareSize[r.vol])
      BY <3>3 DEF WellSized, OpOnShare
    <3> QED
      BY <3>1, <3>2, <3>3 DEF PlacementOn
  <2>2. CASE \E i \in Insts : o = OpOnInstance("InstanceCreate", i, MinCap)
    BY <2>2, SizesAssumption DEF WellSized, OpOnInstance
  <2> QED
    BY <1>3, <2>1, <2>2 DEF Placements, ReadyEligible, Matched
<1>4. CASE CanShrink(r.inst) /\ o = OpOnInstance("InstanceUpdate", r.inst, ShrinkTarget(r.inst))
           /\ r.pc = "delete.instance"
  BY <1>1, <1>4, ShrinkWellSized
<1>5. CASE \E needed \in Nat : o = OpOnInstance("InstanceUpdate", r.inst,
                                                ExpandTarget(r.inst, needed))
                               /\ r.pc \in {"expand.check", "expand.share"}
  BY <1>1, <1>5, ExpandWellSized
<1> QED
  BY <1>2, <1>3, <1>4, <1>5 DEF Started, ExpandOp, OpOnShare, OpOnInstance

SizesInv == CapsOK /\ ShrinkKeepsShares

\* While an instance is resized nothing else happens to it: what runs on other
\* instances changes neither its size nor its shares.
LEMMA OthersSized ==
  ASSUME CloudTypeOK, SizesInv, NEW o \in Op, NEW p \in ops, p.type = "InstanceUpdate",
         p.inst # o.inst,
         \A i \in Insts : i # o.inst => share'[i] = share[i] /\ instance'[i] = instance[i]
  PROVE  p.cap <= MaxCap /\ (p.cap < instance'[p.inst].cap => p.cap >= SumShareBytes(p.inst)')
<1>1. p \in Op
  BY DEF CloudTypeOK
<1>2. p.inst \in Insts
  BY <1>1, OpShape
<1>3. share'[p.inst] = share[p.inst] /\ instance'[p.inst] = instance[p.inst]
  BY <1>2
<1>4. SumShareBytes(p.inst)' = SumShareBytes(p.inst)
  BY <1>3 DEF SumShareBytes
<1> QED
  BY <1>3, <1>4 DEF SizesInv, CapsOK, ShrinkKeepsShares

\* A step on behalf of o leaves every other instance alone.
LEMMA OtherInstancesAlone ==
  ASSUME CloudTypeOK, NEW o \in Op,
         (\E protocol : StartOp(o, protocol)) \/ OpSucceeds(o) \/ OpFails(o)
  PROVE  /\ \A i \in Insts : i # o.inst => share'[i] = share[i] /\ instance'[i] = instance[i]
         /\ o.vol = NoVol => share' = share
<1>1. o.inst \in Insts /\ share \in [Insts -> [Vols -> ShareRec]] /\ instance \in [Insts -> InstanceRec]
  BY OpShape DEF CloudTypeOK
<1>2. CASE \E protocol : StartOp(o, protocol)
  BY <1>1, <1>2 DEF StartOp
<1>3. CASE OpSucceeds(o)
  BY <1>1, <1>3 DEF OpSucceeds
<1>4. CASE OpFails(o)
  BY <1>1, <1>4 DEF OpFails
<1> QED
  BY <1>2, <1>3, <1>4

\* A well sized operation is started.
LEMMA StartKeepsSizes ==
  ASSUME DisciplineInv, SizesInv, NEW o \in Op, NEW protocol, StartInTurn(o, protocol),
         WellSized(o)
  PROVE  SizesInv'
<1>1. /\ CloudTypeOK /\ o.inst \in Insts /\ o.cap \in Nat /\ MaxCap \in Nat
      /\ ops' = ops \cup {o} /\ StartOp(o, protocol) /\ \A p \in ops : ~Conflict(o, p)
      /\ instance \in [Insts -> InstanceRec] /\ instance[o.inst] \in InstanceRec
  BY OpShape, OpsManagerAssumption DEF DisciplineInv, StartInTurn, StartOp, CloudTypeOK
<1>2. /\ \A i \in Insts : i # o.inst => share'[i] = share[i] /\ instance'[i] = instance[i]
      /\ o.vol = NoVol => share' = share
  BY <1>1, OtherInstancesAlone
<1>3. /\ o.type = "InstanceCreate" => instance'[o.inst].cap = o.cap
      /\ o.type # "InstanceCreate" => instance'[o.inst].cap = instance[o.inst].cap
  <2>1. instance'[o.inst] =
          CASE o.type = "InstanceCreate" -> [state |-> "CREATING", cap |-> o.cap, protocol |-> protocol]
            [] o.type = "InstanceDelete" -> [instance[o.inst] EXCEPT !.state = "DELETING"]
            [] OTHER -> instance[o.inst]
    BY <1>1 DEF StartOp
  <2>2. CASE o.type = "InstanceCreate"
    BY <2>1, <2>2
  <2>3. CASE o.type = "InstanceDelete"
    BY <1>1, <2>1, <2>3 DEF InstanceRec
  <2>4. CASE o.type \notin {"InstanceCreate", "InstanceDelete"}
    BY <2>1, <2>4
  <2> QED
    BY <2>2, <2>3, <2>4
<1>4. ASSUME NEW i \in Insts
      PROVE  instance'[i].cap <= MaxCap
  BY <1>1, <1>2, <1>3 DEF SizesInv, CapsOK, WellSized
<1>5. ASSUME NEW p \in ops', p.type = "InstanceUpdate"
      PROVE  p.cap <= MaxCap /\ (p.cap < instance'[p.inst].cap => p.cap >= SumShareBytes(p.inst)')
  <2>1. CASE p = o
    <3>1. o.vol = NoVol
      BY <1>5, <2>1, OpShape DEF ShareOps
    <3>2. SumShareBytes(o.inst)' = SumShareBytes(o.inst)
      BY <1>2, <3>1 DEF SumShareBytes
    <3>3. instance[o.inst].cap \in Nat /\ SumShareBytes(o.inst) \in Nat
      BY <1>1, SizesType DEF InstanceRec
    <3> QED
      BY <1>1, <1>3, <1>5, <2>1, <3>2, <3>3 DEF WellSized
  <2>2. CASE p \in ops
    <3>1. p \in Op /\ p.vol = NoVol
      BY <1>1, <1>5, <2>2, OpShape DEF CloudTypeOK, ShareOps
    <3>2. p.inst # o.inst
      BY <1>1, <2>2, <3>1 DEF Conflict
    <3> QED
      BY <1>1, <1>2, <1>5, <2>2, <3>2, OthersSized
  <2> QED
    BY <1>1, <2>1, <2>2
<1> QED
  BY <1>4, <1>5 DEF SizesInv, CapsOK, ShrinkKeepsShares

\* An operation ends.
LEMMA EndKeepsSizes ==
  ASSUME DisciplineInv, SizesInv, NEW o \in ops, OpSucceeds(o) \/ OpFails(o)
  PROVE  SizesInv'
<1>1. /\ CloudTypeOK /\ o \in Op /\ ops' = ops \ {o} /\ ops \subseteq Op
      /\ instance \in [Insts -> InstanceRec]
  BY DEF DisciplineInv, CloudTypeOK, OpSucceeds, OpFails
<1>2. o.inst \in Insts /\ o.cap \in Nat /\ MaxCap \in Nat /\ instance[o.inst] \in InstanceRec
  BY <1>1, OpShape, OpsManagerAssumption
<1>3. \A i \in Insts : i # o.inst => share'[i] = share[i] /\ instance'[i] = instance[i]
  BY <1>1, OtherInstancesAlone
<1>4. \/ instance'[o.inst].cap \in {0, instance[o.inst].cap}
      \/ o.type = "InstanceUpdate" /\ instance'[o.inst].cap = o.cap
  <2>1. CASE OpSucceeds(o)
    <3>1. instance'[o.inst] =
            CASE o.type = "InstanceCreate" -> [instance[o.inst] EXCEPT !.state = "READY"]
              [] o.type = "InstanceUpdate" -> [instance[o.inst] EXCEPT !.cap = o.cap]
              [] o.type = "InstanceDelete" -> AbsentInstance("GONE")
              [] OTHER -> instance[o.inst]
      BY <1>1, <1>2, <2>1 DEF OpSucceeds
    <3>2. CASE o.type \in {"InstanceCreate", "InstanceUpdate"}
      BY <1>2, <3>1, <3>2 DEF InstanceRec
    <3>3. CASE o.type = "InstanceDelete"
      <4>1. instance'[o.inst] = AbsentInstance("GONE")
        BY <3>1, <3>3
      <4>2. AbsentInstance("GONE").cap = 0
        BY DEF AbsentInstance
      <4> QED
        BY <4>1, <4>2
    <3>4. CASE o.type \notin {"InstanceCreate", "InstanceUpdate", "InstanceDelete"}
      BY <3>1, <3>4
    <3> QED
      BY <3>2, <3>3, <3>4
  <2>2. CASE OpFails(o)
    <3>1. instance'[o.inst] =
            CASE o.type = "InstanceCreate" -> [instance[o.inst] EXCEPT !.state = "ERROR"]
              [] o.type = "InstanceDelete" -> [instance[o.inst] EXCEPT !.state = "READY"]
              [] OTHER -> instance[o.inst]
      BY <1>1, <1>2, <2>2 DEF OpFails
    <3> QED
      BY <1>2, <3>1 DEF InstanceRec
  <2> QED
    BY <2>1, <2>2
<1>5. \A i \in Insts : instance'[i].cap <= MaxCap
  BY <1>2, <1>3, <1>4 DEF SizesInv, CapsOK
<1>6. ASSUME NEW p \in ops', p.type = "InstanceUpdate"
      PROVE  p.cap <= MaxCap /\ (p.cap < instance'[p.inst].cap => p.cap >= SumShareBytes(p.inst)')
  <2>1. p \in ops /\ p # o /\ p \in Op /\ p.vol = NoVol
    BY <1>1, <1>6, OpShape DEF ShareOps
  <2>2. p.inst # o.inst
    BY <2>1 DEF DisciplineInv, ExclusiveOps, Conflict
  <2> QED
    BY <1>1, <1>3, <1>6, <2>1, <2>2, OthersSized
<1> QED
  BY <1>5, <1>6 DEF SizesInv, CapsOK, ShrinkKeepsShares

\* Every step keeps the sizes.
LEMMA SizesStep == ASSUME ControllerInv, SizesInv, [Next]_vars PROVE SizesInv'
<1>1. DisciplineInv /\ [DisciplineNext]_cloudVars
  BY ControllerStep DEF ControllerInv
<1>2. ASSUME NEW o \in ops' \ ops, NEW protocol, StartInTurn(o, protocol)
      PROVE  SizesInv'
  <2>1. PICK w \in Workers, p \in Op, to \in Waiting : Started(w, p, to)
    BY <1>2, StepStarts DEF NothingStarted
  <2>2. ops' = ops \cup {p} /\ o \in Op
    BY <1>2, <2>1 DEF Started, StartWorkflow, StartOp, StartInTurn
  <2>3. WellSized(o)
    BY <2>1, <2>2, StartedWellSized DEF SizesInv
  <2> QED
    BY <1>1, <1>2, <2>2, <2>3, StartKeepsSizes
<1>3. CASE \E o \in ops : OpSucceeds(o) \/ OpFails(o)
  BY <1>1, <1>3, EndKeepsSizes
<1>4. ASSUME NEW i \in Insts, RepairStarts(i) \/ RepairEnds(i)
      PROVE  SizesInv'
  <2>1. /\ instance \in [Insts -> InstanceRec] /\ share' = share /\ ops' = ops
        /\ ops \subseteq Op
        /\ \/ instance' = [instance EXCEPT ![i].state = "REPAIRING"]
           \/ instance' = [instance EXCEPT ![i].state = "READY"]
    BY <1>1, <1>4 DEF DisciplineInv, CloudTypeOK, RepairStarts, RepairEnds
  <2>2. \A j \in Insts : instance'[j].cap = instance[j].cap
    <3> SUFFICES ASSUME NEW j \in Insts PROVE instance'[j].cap = instance[j].cap
      OBVIOUS
    <3>1. instance[j] \in InstanceRec
      BY <2>1
    <3>2. \/ instance'[j] = instance[j]
          \/ instance'[j] = [instance[j] EXCEPT !.state = "REPAIRING"]
          \/ instance'[j] = [instance[j] EXCEPT !.state = "READY"]
      BY <2>1
    <3> QED
      BY <3>1, <3>2 DEF InstanceRec
  <2>3. \A o \in ops : o.inst \in Insts /\ SumShareBytes(o.inst)' = SumShareBytes(o.inst)
    BY <2>1, OpShape DEF SumShareBytes
  <2> QED
    BY <2>1, <2>2, <2>3 DEF SizesInv, CapsOK, ShrinkKeepsShares
<1>5. CASE UNCHANGED cloudVars
  BY <1>5 DEF cloudVars, SizesInv, CapsOK, ShrinkKeepsShares, SumShareBytes
<1> QED
  BY <1>1, <1>2, <1>3, <1>4, <1>5 DEF DisciplineNext

\* No instance is made smaller than its shares, and none larger than can be.
THEOREM ShrinkSafe == Spec => [](CapsOK /\ ShrinkKeepsShares)
<1>1. Init => SizesInv
  <2> SUFFICES ASSUME Init PROVE SizesInv
    OBVIOUS
  <2>1. ops = {} /\ \A i \in Insts : instance[i].cap = 0
    BY DEF Init, CloudInit, AbsentInstance
  <2> QED
    BY <2>1, OpsManagerAssumption DEF SizesInv, CapsOK, ShrinkKeepsShares
<1>2. ControllerInv /\ SizesInv /\ [Next]_vars => SizesInv'
  BY SizesStep
<1>3. SizesInv <=> CapsOK /\ ShrinkKeepsShares
  BY DEF SizesInv
<1> QED
  BY <1>1, <1>2, <1>3, ControllerInvariance, PTL DEF Spec

-----------------------------------------------------------------------------
(* The storage classes, and creations that are alone with their volume. *)

\* An instance that is used keeps its storage class until it is gone, and what is gone
\* stays so.
LEMMA InstanceStays ==
  ASSUME DisciplineInv, [DisciplineNext]_cloudVars, NEW i \in Insts,
         instance[i].state # "UNUSED"
  PROVE  /\ instance[i].state = "GONE" => instance'[i].state = "GONE"
         /\ \/ instance'[i].state = "GONE"
            \/ instance'[i].state # "UNUSED" /\ instance'[i].protocol = instance[i].protocol
<1>1. /\ instance \in [Insts -> InstanceRec] /\ instance[i] \in InstanceRec /\ ops \subseteq Op
      /\ CloudTypeOK
  BY DEF DisciplineInv, CloudTypeOK
<1>2. CASE instance'[i] = instance[i]
  BY <1>2
<1>3. ASSUME NEW o \in Op, o.inst = i,
             \/ instance'[i] = [instance[i] EXCEPT !.state = "READY"]
             \/ instance'[i] = [instance[i] EXCEPT !.state = "REPAIRING"]
             \/ instance'[i] = [instance[i] EXCEPT !.state = "DELETING"]
             \/ instance'[i] = [instance[i] EXCEPT !.state = "ERROR"]
             \/ instance'[i] = [instance[i] EXCEPT !.cap = o.cap]
             \/ instance'[i] = AbsentInstance("GONE"),
             instance[i].state # "GONE"
      PROVE  \/ instance'[i].state = "GONE"
             \/ instance'[i].state # "UNUSED" /\ instance'[i].protocol = instance[i].protocol
  <2>1. CASE instance'[i] = AbsentInstance("GONE")
    <3>1. AbsentInstance("GONE").state = "GONE"
      BY DEF AbsentInstance
    <3> QED
      BY <2>1, <3>1
  <2>2. CASE instance'[i] = [instance[i] EXCEPT !.cap = o.cap]
    <3>1. instance'[i].state = instance[i].state /\ instance'[i].protocol = instance[i].protocol
      BY <1>1, <2>2 DEF InstanceRec
    <3> QED
      BY <3>1
  <2>3. ASSUME NEW s \in {"READY", "REPAIRING", "DELETING", "ERROR"},
               instance'[i] = [instance[i] EXCEPT !.state = s]
        PROVE  instance'[i].state # "UNUSED" /\ instance'[i].protocol = instance[i].protocol
    BY <1>1, <2>3 DEF InstanceRec
  <2> QED
    BY <1>3, <2>1, <2>2, <2>3
<1>4. ASSUME NEW o \in ops' \ ops, NEW protocol, StartInTurn(o, protocol), o.inst = i
      PROVE  \/ instance'[i] = instance[i]
             \/ /\ instance'[i] = [instance[i] EXCEPT !.state = "DELETING"]
                /\ instance[i].state # "GONE"
  <2>1. instance'[i] =
          CASE o.type = "InstanceCreate" -> [state |-> "CREATING", cap |-> o.cap, protocol |-> protocol]
            [] o.type = "InstanceDelete" -> [instance[i] EXCEPT !.state = "DELETING"]
            [] OTHER -> instance[i]
    BY <1>1, <1>4 DEF StartInTurn, StartOp
  <2>2. o.type # "InstanceCreate" /\ (o.type = "InstanceDelete" => instance[i].state = "READY")
    BY <1>4 DEF StartInTurn, StartOp, Accepts
  <2> QED
    BY <2>1, <2>2
<1>5. ASSUME NEW o \in ops, OpSucceeds(o) \/ OpFails(o), o.inst = i
      PROVE  \/ instance'[i] = instance[i]
             \/ /\ \/ instance'[i] = [instance[i] EXCEPT !.state = "READY"]
                   \/ instance'[i] = [instance[i] EXCEPT !.state = "ERROR"]
                   \/ instance'[i] = [instance[i] EXCEPT !.cap = o.cap]
                   \/ instance'[i] = AbsentInstance("GONE")
                /\ instance[i].state # "GONE"
  <2>1. /\ o.type \in InstanceOps => instance[i].state # "GONE"
        /\ o.type \in InstanceOps \cup ShareOps
    BY <1>1, <1>5, OpShape DEF DisciplineInv, OpsShow, Shows, InstanceOps
  <2>2. CASE OpSucceeds(o)
    <3>1. instance'[i] =
            CASE o.type = "InstanceCreate" -> [instance[i] EXCEPT !.state = "READY"]
              [] o.type = "InstanceUpdate" -> [instance[i] EXCEPT !.cap = o.cap]
              [] o.type = "InstanceDelete" -> AbsentInstance("GONE")
              [] OTHER -> instance[i]
      BY <1>1, <1>5, <2>2 DEF OpSucceeds
    <3> QED
      BY <2>1, <3>1 DEF InstanceOps
  <2>3. CASE OpFails(o)
    <3>1. instance'[i] =
            CASE o.type = "InstanceCreate" -> [instance[i] EXCEPT !.state = "ERROR"]
              [] o.type = "InstanceDelete" -> [instance[i] EXCEPT !.state = "READY"]
              [] OTHER -> instance[i]
      BY <1>1, <1>5, <2>3 DEF OpFails
    <3> QED
      BY <2>1, <3>1 DEF InstanceOps
  <2> QED
    BY <1>5, <2>2, <2>3
<1>6. ASSUME NEW j \in Insts, RepairStarts(j) \/ RepairEnds(j), j = i
      PROVE  /\ instance[i].state # "GONE" /\ instance'[i].state \in {"READY", "REPAIRING"}
             /\ instance'[i].protocol = instance[i].protocol
  <2>1. /\ instance[i].state # "GONE"
        /\ \/ instance'[i] = [instance[i] EXCEPT !.state = "READY"]
           \/ instance'[i] = [instance[i] EXCEPT !.state = "REPAIRING"]
    BY <1>1, <1>6 DEF RepairStarts, RepairEnds
  <2> QED
    BY <1>1, <2>1 DEF InstanceRec
<1>7. CASE \E o \in ops' \ ops, protocol \in Protocols \cup {""} : StartInTurn(o, protocol)
  <2>1. PICK o \in ops' \ ops, protocol \in Protocols \cup {""} : StartInTurn(o, protocol)
    BY <1>7
  <2>2. o \in Op /\ StartOp(o, protocol)
    BY <2>1 DEF StartInTurn
  <2>3. o.inst # i => instance'[i] = instance[i]
    BY <1>1, <2>2, OtherInstancesAlone
  <2> QED
    BY <1>2, <1>3, <1>4, <2>1, <2>2, <2>3
<1>8. CASE \E o \in ops : OpSucceeds(o) \/ OpFails(o)
  <2>1. PICK o \in ops : OpSucceeds(o) \/ OpFails(o)
    BY <1>8
  <2>2. o.inst # i => instance'[i] = instance[i]
    BY <1>1, <2>1, OtherInstancesAlone
  <2> QED
    BY <1>1, <1>2, <1>3, <1>5, <2>1, <2>2
<1>9. CASE \E j \in Insts : RepairStarts(j) \/ RepairEnds(j)
  <2>1. PICK j \in Insts : RepairStarts(j) \/ RepairEnds(j)
    BY <1>9
  <2>2. j # i => instance'[i] = instance[i]
    BY <1>1, <2>1 DEF RepairStarts, RepairEnds
  <2> QED
    BY <1>2, <1>6, <2>1, <2>2
<1>10. CASE UNCHANGED cloudVars
  BY <1>10 DEF cloudVars
<1> QED
  BY <1>7, <1>8, <1>9, <1>10 DEF DisciplineNext

\* No share appears where nothing is started.
LEMMA SharesOnlyFewer ==
  ASSUME DisciplineInv, [DisciplineNext]_cloudVars, ops' \subseteq ops,
         NEW i \in Insts, NEW v \in Vols, v \in SharesOf(i)'
  PROVE  v \in SharesOf(i)
<1>1. CASE \E o \in ops : OpSucceeds(o) \/ OpFails(o)
  <2>1. PICK o \in ops : OpSucceeds(o) \/ OpFails(o)
    BY <1>1
  <2>2. CloudTypeOK /\ Shows(o) /\ o \in Op
    BY DEF DisciplineInv, OpsShow, CloudTypeOK
  <2>3. o.type \in InstanceOps \cup ShareOps
    BY <2>2, OpShape
  <2>4. /\ o.type \in InstanceOps \/ o.inst # i \/ o.vol # v => share'[i][v] = share[i][v]
        /\ o.type \in ShareOps => share[o.inst][o.vol].state # "ABSENT"
    BY <2>1, <2>2, EndsOnShare DEF ShareOps
  <2> QED
    BY <2>3, <2>4 DEF SharesOf
<1>2. CASE \/ \E j \in Insts : RepairStarts(j) \/ RepairEnds(j)
           \/ UNCHANGED cloudVars
  <2>1. share' = share
    BY <1>2 DEF RepairStarts, RepairEnds, cloudVars
  <2> QED
    BY <2>1 DEF SharesOf
<1> QED
  BY <1>1, <1>2 DEF DisciplineNext

\* A storage class that suits goes on to suit.
LEMMA SuitsStays ==
  ASSUME DisciplineInv, [DisciplineNext]_cloudVars, NEW i \in Insts, NEW v \in Vols,
         SuitsOrGone(i, v)
  PROVE  SuitsOrGone(i, v)'
<1>1. instance[i].state # "UNUSED"
  BY DEF SuitsOrGone
<1> QED
  BY <1>1, InstanceStays DEF SuitsOrGone

\* A creation that is past its check knows its volume and its instance.
LEMMA PastCheckKnows ==
  ASSUME ControllerInv, VolumesInv, NEW w \in Workers, PastCheck(work[w])
  PROVE  /\ work[w].pc # "idle" /\ work[w].vol \in Vols /\ work[w].inst \in Insts
         /\ work[w].pc \in CreatePcs /\ pv[work[w].vol].phase = "wanted"
<1>1. /\ work[w].pc \notin {"idle", "create.lock", "create.setup"}
      /\ work[w].pc \in CreatePcs /\ WorkOK(work[w])
  BY DEF PastCheck, CreatesPcs, CreatePcs, VolumesInv
<1> QED
  BY <1>1, RequestKnows DEF WorkOK

\* A step that starts nothing keeps the names.
LEMMA NothingKeepsNames ==
  ASSUME ControllerInv, ControllerInv', VolumesInv, [DisciplineNext]_cloudVars, NamesOK,
         NothingStarted
  PROVE  NamesOK'
<1>1. /\ DisciplineInv /\ DisciplineInv' /\ ops' \subseteq ops
      /\ \A i \in Insts, v \in Vols : v \in SharesOf(i)' => v \in SharesOf(i)
  BY SharesOnlyFewer DEF ControllerInv, NothingStarted
<1>2. ASSUME NEW v \in Vols, NEW i \in Insts, v \in SharesOf(i)'
      PROVE  instance'[i].protocol = Protocol[v]
  <2>1. v \in SharesOf(i) /\ instance[i].protocol = Protocol[v]
    BY <1>1, <1>2 DEF NamesOK
  <2>2. instance[i].state # "UNUSED" /\ instance'[i].state # "GONE"
    BY <1>1, <1>2, <2>1 DEF DisciplineInv, SharesOnUsableInstances, SharesOf
  <2> QED
    BY <1>1, <2>1, <2>2, InstanceStays
<1>3. ASSUME NEW u \in Workers, PastCheck(work'[u])
      PROVE  /\ SetsUp(work'[u]) => /\ SuitsOrGone(work[u].inst, work[u].vol)'
                                    /\ \A o \in ops' : o.vol # work'[u].vol
             /\ \A o \in ops' : o.vol = work'[u].vol => o.inst = work'[u].inst
  <2>1. /\ PastCheck(work[u]) /\ work'[u].vol = work[u].vol /\ work'[u].inst = work[u].inst
        /\ SetsUp(work'[u]) => SetsUp(work[u])
    BY <1>3 DEF NothingStarted
  <2>2. work[u].vol \in Vols /\ work[u].inst \in Insts
    BY <2>1, PastCheckKnows
  <2>3. /\ SetsUp(work[u]) => /\ SuitsOrGone(work[u].inst, work[u].vol)
                              /\ \A o \in ops : o.vol # work[u].vol
        /\ \A o \in ops : o.vol = work[u].vol => o.inst = work[u].inst
    BY <2>1 DEF NamesOK
  <2>4. SetsUp(work[u]) => SuitsOrGone(work[u].inst, work[u].vol)'
    BY <1>1, <2>1, <2>2, <2>3, InstanceStays DEF SuitsOrGone
  <2> QED
    BY <1>1, <2>1, <2>3, <2>4 DEF SuitsOrGone
<1> QED
  BY <1>2, <1>3 DEF NamesOK, SetsUp, PastCheck, CreatesPcs, SuitsOrGone

\* A creation is started while no operation on a share of its volume runs, on an
\* instance of the volume's storage class; so are the creation of an instance and its
\* expansion that make room for such a share.
LEMMA StartedFits ==
  ASSUME ControllerInv, VolumesInv, NamesOK, NEW w \in Workers, NEW o \in Op, NEW to,
         Started(w, o, to)
  PROVE  /\ o.type \in ShareOps => o.vol = work[w].vol
         /\ o.type = "ShareCreate" =>
              /\ instance[o.inst].state = "READY" /\ instance[o.inst].protocol = Protocol[o.vol]
              /\ work[w].pc \in CreatePcs
         /\ to \in {"create.wait", "create.shareWait"} =>
              \A p \in ops : p.vol # work[w].vol
         /\ to = "create.wait" =>
              \/ o.type = "ShareCreate"
              \/ /\ o.type = "InstanceUpdate" /\ Listed(o.inst)
                 /\ instance[o.inst].protocol = Protocol[work[w].vol]
              \/ o.type = "InstanceCreate"
<1> DEFINE r == work[w]
<1>1. /\ Accepts(o) /\ StartWorkflow(w, o, to) /\ WorkOK(r) /\ ops \subseteq Op
      /\ SnapOK /\ MutexOK /\ NoWorker \notin Workers
  BY OpsManagerAssumption
     DEF Started, StartWorkflow, StartOp, VolumesInv, ControllerInv, DriverInv, DisciplineInv, CloudTypeOK
<1>2. CASE r.pc = "create.setup" /\ ~ShareCreateRunning(r.vol) /\ o \in Placements(r.vol)
  <2>1. r.vol \in Vols /\ r.pc \in CreatePcs /\ pv[r.vol].phase = "wanted"
    BY <1>1, <1>2, RequestKnows DEF WorkOK, CreatePcs
  <2>2. ASSUME NEW p \in ops, p.vol = r.vol
        PROVE  FALSE
    <3>1. p \in Op /\ p \in snap
      BY <1>1, <1>2, <2>2 DEF MutexOK, SnapOK, Critical
    <3>2. p.type # "ShareCreate"
      BY <1>2, <2>2, <3>1 DEF ShareCreateRunning
    <3>3. p.type \in {"ShareUpdate", "ShareDelete"}
      BY <2>1, <2>2, <3>1, <3>2, OpShape DEF ShareOps
    <3> QED
      BY <2>1, <2>2, <3>3 DEF VolumesInv, ChangeOK
  <2>3. CASE \E i \in Matched(r.vol) : o = PlacementOn(i, r.vol)
    <3>1. PICK i \in Matched(r.vol) : o = PlacementOn(i, r.vol)
      BY <2>3
    <3>2. Listed(i) /\ instance[i].protocol = Protocol[r.vol]
      BY <3>1 DEF Matched
    <3>3. /\ o.inst = i
          /\ \/ o.type = "InstanceUpdate"
             \/ (o.type = "ShareCreate" /\ o.vol = r.vol)
      <4>1. \/ o = OpOnInstance("InstanceUpdate", i, ExpandTarget(i, ShareSize[r.vol]))
            \/ o = OpOnShare("ShareCreate", i, r.vol, ShareSize[r.vol])
        BY <3>1 DEF PlacementOn
      <4>2. CASE o = OpOnInstance("InstanceUpdate", i, ExpandTarget(i, ShareSize[r.vol]))
        BY <4>2 DEF OpOnInstance
      <4>3. CASE o = OpOnShare("ShareCreate", i, r.vol, ShareSize[r.vol])
        BY <4>3 DEF OpOnShare
      <4> QED
        BY <4>1, <4>2, <4>3
    <3> QED
      BY <1>1, <2>1, <2>2, <3>2, <3>3 DEF Accepts, ShareOps
  <2>4. CASE \E i \in Insts : o = OpOnInstance("InstanceCreate", i, MinCap)
    BY <2>2, <2>4 DEF OpOnInstance, ShareOps
  <2> QED
    BY <1>2, <2>3, <2>4 DEF Placements, ReadyEligible
<1>3. CASE /\ r.pc = "create.share" /\ to = "create.shareWait"
           /\ o = OpOnShare("ShareCreate", r.inst, r.vol, ShareSize[r.vol])
  <2>1. o.type = "ShareCreate" /\ o.inst = r.inst /\ o.vol = r.vol
    BY <1>3 DEF OpOnShare
  <2>2. SuitsOrGone(r.inst, r.vol) /\ \A p \in ops : p.vol # r.vol
    BY <1>3 DEF NamesOK, SetsUp
  <2>3. instance[o.inst].state = "READY" /\ r.pc \in CreatePcs
    BY <1>1, <1>3, <2>1 DEF Accepts, CreatePcs
  <2> QED
    BY <1>3, <2>1, <2>2, <2>3 DEF SuitsOrGone
<1>4. CASE /\ to \notin {"create.wait", "create.shareWait"} /\ o.type # "ShareCreate"
           /\ o.type \in ShareOps => o.vol = r.vol
  BY <1>4
<1>5. \/ r.pc = "create.setup" \/ r.pc = "create.share"
      \/ /\ to \notin {"create.wait", "create.shareWait"} /\ o.type # "ShareCreate"
         /\ o.type \in ShareOps => o.vol = r.vol
  BY DEF Started, OpOnShare, OpOnInstance, ExpandOp, ShareOps
<1> QED
  BY <1>2, <1>3, <1>4, <1>5 DEF Started

\* A step that starts an operation keeps the names.
LEMMA StartKeepsNames ==
  ASSUME ControllerInv, ControllerInv', [DisciplineNext]_cloudVars, VolumesInv, NamesOK,
         NEW w \in Workers, NEW o \in Op, NEW to, Started(w, o, to)
  PROVE  NamesOK'
<1> DEFINE r == work[w]
           q == [r EXCEPT !.pc = to, !.op = o, !.result = "none", !.inst = o.inst]
           protocol == IF o.type = "InstanceCreate" THEN Protocol[r.vol] ELSE ""
<1>1. /\ DisciplineInv /\ DisciplineInv' /\ CloudTypeOK /\ r \in Request
      /\ work' = [work EXCEPT ![w] = q] /\ StartOp(o, protocol) /\ ops' = ops \cup {o}
  BY RequestKnows DEF ControllerInv, DisciplineInv, Started, StartWorkflow, StartOp
<1>2. q.pc = to /\ q.op = o /\ q.inst = o.inst /\ q.vol = r.vol
  BY <1>1 DEF Request
<1> HIDE DEF q
<1>3. /\ r.pc # "idle" /\ r.vol \in Vols /\ o.inst \in Insts /\ NoVol \notin Vols
      /\ \/ o.type \in InstanceOps /\ o.vol = NoVol
         \/ o.type \in ShareOps /\ o.vol \in Vols
  BY RequestKnows, OpShape DEF Started
<1>4. /\ o.type \in ShareOps => o.vol = r.vol
      /\ o.type = "ShareCreate" =>
           /\ instance[o.inst].state = "READY" /\ instance[o.inst].protocol = Protocol[o.vol]
      /\ to \in {"create.wait", "create.shareWait"} => \A p \in ops : p.vol # r.vol
      /\ to = "create.wait" =>
           \/ o.type = "ShareCreate"
           \/ /\ o.type = "InstanceUpdate" /\ Listed(o.inst)
              /\ instance[o.inst].protocol = Protocol[r.vol]
           \/ o.type = "InstanceCreate"
  BY StartedFits
<1>5. ASSUME NEW i \in Insts, NEW v \in Vols, v \in SharesOf(i)'
      PROVE  \/ v \in SharesOf(i)
             \/ (o.type = "ShareCreate" /\ i = o.inst /\ v = o.vol)
  <2>1. /\ (o.type \notin {"ShareCreate", "ShareDelete"} \/ o.inst # i \/ o.vol # v)
             => share'[i][v] = share[i][v]
        /\ o.type = "ShareDelete" => share[o.inst][o.vol].state = "READY"
    BY <1>1, StartsOnShare
  <2>2. CASE share'[i][v] = share[i][v]
    BY <1>5, <2>2 DEF SharesOf
  <2>3. CASE o.type = "ShareDelete" /\ o.inst = i /\ o.vol = v
    BY <2>1, <2>3 DEF SharesOf
  <2>4. CASE o.type = "ShareCreate" /\ o.inst = i /\ o.vol = v
    BY <2>4
  <2> QED
    BY <2>1, <2>2, <2>3, <2>4
<1>6. ASSUME NEW v \in Vols, NEW i \in Insts, v \in SharesOf(i)'
      PROVE  instance'[i].protocol = Protocol[v]
  <2>1. instance'[i].state \in {"READY", "REPAIRING"}
    BY <1>1, <1>6 DEF DisciplineInv, SharesOnUsableInstances, SharesOf
  <2>2. instance[i].protocol = Protocol[v] /\ instance[i].state # "UNUSED"
    <3>1. CASE v \in SharesOf(i)
      BY <1>1, <3>1 DEF NamesOK, DisciplineInv, SharesOnUsableInstances, SharesOf
    <3>2. CASE o.type = "ShareCreate" /\ i = o.inst /\ v = o.vol
      BY <1>4, <3>2
    <3> QED
      BY <1>5, <1>6, <3>1, <3>2
  <2> QED
    BY <1>1, <2>1, <2>2, InstanceStays
<1>7. ASSUME NEW u \in Workers, PastCheck(work'[u])
      PROVE  /\ SetsUp(work'[u]) => /\ SuitsOrGone(work[u].inst, work[u].vol)'
                                    /\ \A p \in ops' : p.vol # work'[u].vol
             /\ \A p \in ops' : p.vol = work'[u].vol => p.inst = work'[u].inst
  <2>1. CASE u # w
    <3>1. work'[u] = work[u] /\ PastCheck(work[u])
      BY <1>1, <1>7, <2>1, RequestKnows
    <3>2. /\ work[u].vol \in Vols /\ work[u].inst \in Insts /\ work[u].vol # r.vol
      BY <1>3, <2>1, <3>1, RequestKnows, PastCheckKnows, AloneOnVolume DEF Request
    <3>3. o.vol # work[u].vol
      BY <1>3, <1>4, <3>2
    <3>4. /\ SetsUp(work[u]) => /\ SuitsOrGone(work[u].inst, work[u].vol)
                                /\ \A p \in ops : p.vol # work[u].vol
          /\ \A p \in ops : p.vol = work[u].vol => p.inst = work[u].inst
      BY <3>1 DEF NamesOK
    <3>5. SetsUp(work[u]) => SuitsOrGone(work[u].inst, work[u].vol)'
      BY <1>1, <3>1, <3>2, <3>4, InstanceStays DEF SuitsOrGone
    <3> QED
      BY <1>1, <3>1, <3>3, <3>4, <3>5
  <2>2. CASE u = w
    <3>1. work'[u] = q
      BY <1>1, <2>2, RequestKnows
    <3>2. to \in {"create.wait", "create.shareWait"}
      BY <1>2, <1>7, <3>1 DEF PastCheck, CreatesPcs, Started
    <3>3. \A p \in ops : p.vol # r.vol
      BY <1>4, <3>2
    <3>4. ASSUME SetsUp(q)
          PROVE  SuitsOrGone(work[u].inst, work[u].vol)' /\ o.vol # r.vol
      <4>1. to = "create.wait" /\ o.type # "ShareCreate"
        BY <1>2, <3>2, <3>4 DEF SetsUp
      <4>2. CASE o.type = "InstanceUpdate"
        <5>1. instance'[o.inst] = instance[o.inst]
          BY <1>1, <1>3, <4>2 DEF StartOp, CloudTypeOK
        <5> QED
          BY <1>2, <1>3, <1>4, <3>1, <4>1, <4>2, <5>1 DEF SuitsOrGone, Listed, ShareOps
      <4>3. CASE o.type = "InstanceCreate"
        <5>1. instance'[o.inst] =
                [state |-> "CREATING", cap |-> o.cap, protocol |-> Protocol[r.vol]]
          BY <1>1, <1>3, <4>3 DEF StartOp, CloudTypeOK
        <5> QED
          BY <1>2, <1>3, <3>1, <4>3, <5>1 DEF SuitsOrGone, ShareOps
      <4> QED
        BY <1>4, <4>1, <4>2, <4>3
    <3> QED
      BY <1>1, <1>2, <3>1, <3>3, <3>4
  <2> QED
    BY <2>1, <2>2
<1> QED
  BY <1>6, <1>7 DEF NamesOK, SetsUp, PastCheck, CreatesPcs, SuitsOrGone

\* No share is on an instance of another storage class, and a creation between its check
\* for a running one and its own is alone with its volume.
THEOREM NamesKept == Spec => []NamesOK
<1>1. Init => NamesOK
  BY IdleType DEF Init, CloudInit, NamesOK, SharesOf, AbsentShare, SetsUp, PastCheck, CreatesPcs
<1>2. ControllerInv /\ VolumesInv /\ NamesOK /\ [Next]_vars => NamesOK'
  <2> SUFFICES ASSUME ControllerInv, VolumesInv, NamesOK, [Next]_vars
               PROVE  NamesOK'
    OBVIOUS
  <2>1. ControllerInv' /\ [DisciplineNext]_cloudVars
    BY ControllerStep
  <2>2. CASE NothingStarted
    BY <2>1, <2>2, NothingKeepsNames
  <2>3. CASE \E w \in Workers, o \in Op, to \in Waiting : Started(w, o, to)
    BY <2>1, <2>3, StartKeepsNames
  <2> QED
    BY <2>2, <2>3, StepStarts
<1> QED
  BY <1>1, <1>2, ControllerInvariance, VolumesInvariance, PTL DEF Spec

\* All that was found out about the handlers and the volumes holds in every reachable state.
THEOREM VolumeInvariance == Spec => []VolumeInv
<1>1. ControllerInv /\ VolumesInv /\ (CapsOK /\ ShrinkKeepsShares) /\ NamesOK => VolumeInv
  BY DEF VolumeInv
<1> QED
  BY <1>1, ControllerInvariance, VolumesInvariance, ShrinkSafe, NamesKept, PTL

-----------------------------------------------------------------------------
(* No instance is leaked: who looks after which instance. *)

\* What the earlier theorems say of the handlers, the volumes and the names.
Known == ControllerInv /\ VolumesInv /\ NamesOK

\* An instance goes on to be looked after if whoever does so goes on, or passes it on.
LEMMA LookedAfterStays ==
  ASSUME NEW i \in Insts, LookedAfter(i), Dead(i) => Dead(i)',
         \A v \in Vols : Keeps(v, i) => Dead(i)' \/ \E x \in Vols : Keeps(x, i)',
         Named(i)' => Named(i) \/ \E x \in Vols : Keeps(x, i)',
         faults' = 0 => /\ faults = 0
                        /\ \A w \in Workers : Creates(work[w], i) =>
                             \/ Dead(i) \/ Named(i) \/ \E x \in Vols : Keeps(x, i)
                             \/ \E u \in Workers : Creates(work[u], i)'
  PROVE  LookedAfter(i)'
BY DEF LookedAfter

\* What the four parts of the invariant need of a step that leaves Filestore and the
\* volumes alone.
LEMMA QuietParts ==
  ASSUME LeakInv, UNCHANGED <<cloudVars, pv>>, faults # 0 => faults' # 0
  PROVE  /\ \A i \in Insts : PlaceOK(i)' /\ (Dead(i)' <=> Dead(i)) /\ (Named(i)' <=> Named(i))
         /\ \A r : PollOK(r)' <=> PollOK(r)
         /\ \A i \in Insts, v \in Vols :
              (\A w \in Workers : Shrinks(work'[w]) => Shrinks(work[w]) /\ work'[w].vol = work[w].vol)
              /\ Keeps(v, i) => Keeps(v, i)'
<1>1. instance' = instance /\ share' = share /\ ops' = ops /\ pv' = pv
  BY DEF cloudVars
<1>2. \A i \in Insts : PlaceOK(i)' /\ (Dead(i)' <=> Dead(i)) /\ (Named(i)' <=> Named(i))
  BY <1>1 DEF LeakInv, InstancesInv, PlaceOK, Dead, Named, SharesOf, Stray
<1>3. \A r : PollOK(r)' <=> PollOK(r)
  BY <1>1 DEF PollOK, SeesInstance
<1>4. ASSUME NEW i \in Insts, NEW v \in Vols, Keeps(v, i),
             \A w \in Workers : Shrinks(work'[w]) => Shrinks(work[w]) /\ work'[w].vol = work[w].vol
      PROVE  Keeps(v, i)'
  BY <1>1, <1>4 DEF Keeps, Shrinks, Stray
<1> QED
  BY <1>2, <1>3, <1>4

\* A handler goes on, or returns for another reason than a fault, and starts nothing.
LEMMA MoveLooksAfter ==
  ASSUME Known, LeakInv, NEW w \in Workers, NEW r,
         work' = [work EXCEPT ![w] = r], UNCHANGED <<cloudVars, pv, faults>>,
         UNCHANGED opsManagerVars \/ mutex \in {w, NoWorker},
         r.pc \notin {"delete.instanceWait", "create.wait"}, r.result \in {work[w].result, "none"},
         PollOK(r),
         r.pc = "create.share" =>
           /\ \A o \in snap' : o.vol # r.vol
           /\ faults = 0 => \A o \in snap' : o.vol = NoVol /\ ~Named(o.inst) =>
                              \E u \in Workers \ {w} : Prepares(work[u], o.inst),
         work[w].pc = "create.wait" => work[w].result # "none",
         \A i : Prepares(work[w], i) => Prepares(r, i) \/ mutex = NoWorker \/ faults # 0,
         \A i \in Insts : Creates(work[w], i) =>
           \/ Creates(r, i) \/ faults # 0 \/ Dead(i) \/ Named(i)
           \/ \E v \in Vols : Keeps(v, i)
           \/ \E u \in Workers \ {w} : Creates(work[u], i)
  PROVE  InstancesInv'
<1>1. /\ work'[w] = r /\ \A u \in Workers : u # w => work'[u] = work[u]
      /\ faults' = faults /\ ops' = ops /\ pv' = pv /\ instance' = instance
  BY RequestKnows DEF Known, cloudVars
<1>2. /\ \A i \in Insts : PlaceOK(i)' /\ (Dead(i)' <=> Dead(i)) /\ (Named(i)' <=> Named(i))
      /\ \A q : PollOK(q)' <=> PollOK(q)
  BY QuietParts
<1>3. \A i \in Insts, v \in Vols : Keeps(v, i) => Keeps(v, i)'
  BY <1>1, QuietParts DEF Shrinks
<1>4. \A u \in Workers : u # w /\ work[u].pc = "create.share" =>
        mutex = u /\ mutex # NoWorker /\ snap' = snap
  BY OpsManagerAssumption DEF Known, ControllerInv, DriverInv, MutexOK, Critical, opsManagerVars
<1>5. ASSUME NEW i \in Insts PROVE LookedAfter(i)'
  <2>1. ASSUME NEW u \in Workers, Creates(work[u], i), faults = 0
        PROVE  \/ Dead(i) \/ Named(i) \/ \E v \in Vols : Keeps(v, i)
               \/ \E x \in Workers : Creates(work[x], i)'
    <3>1. CASE \E x \in Workers : x # w /\ Creates(work[x], i)
      BY <1>1, <3>1 DEF Creates, CreatesPcs
    <3>2. CASE u = w /\ Creates(r, i)
      BY <1>1, <3>2 DEF Creates, CreatesPcs
    <3> QED
      BY <2>1, <3>1, <3>2
  <2> QED
    BY <1>1, <1>2, <1>3, <2>1, LookedAfterStays DEF LeakInv, InstancesInv
<1>6. ASSUME NEW u \in Workers PROVE PollOK(work[u])' /\ FreeToCreate(work[u])'
  <2>1. PollOK(work'[u]) /\ FreeToCreate(work[u])
    BY <1>1 DEF LeakInv, InstancesInv
  <2>2. PollOK(work[u])'
    BY <1>1, <2>1 DEF PollOK, SeesInstance, cloudVars
  <2> QED
    BY <1>1, <1>4, <2>1, <2>2 DEF FreeToCreate
<1>7. ASSUME faults = 0 PROVE FaultlessOK'
  <2>0. FaultlessOK
    BY <1>7 DEF LeakInv, InstancesInv
  <2>1. /\ \A i \in Insts : instance'[i].state # "REPAIRING"
        /\ \A u \in Workers : work'[u].result # "error"
    BY <1>1, <2>0 DEF FaultlessOK, Polls
  <2>2. ASSUME NEW o \in ops', o.vol = NoVol, ~Named(o.inst)'
        PROVE  \E u \in Workers : Polls(work'[u], o)
    <3>1. PICK u \in Workers : Polls(work[u], o)
      BY <1>1, <2>0, <2>2 DEF FaultlessOK, Polls, Named
    <3> QED
      BY <1>1, <3>1 DEF Polls
  <2>3. ASSUME NEW u \in Workers, work'[u].pc = "create.share", NEW o \in snap', o.vol = NoVol,
               ~Named(o.inst)'
        PROVE  \E x \in Workers \ {u} : Prepares(work'[x], o.inst)
    <3>1. ~Named(o.inst)
      BY <1>1, <2>3 DEF Named
    <3>2. CASE u = w
      <4>1. PICK x \in Workers \ {w} : Prepares(work[x], o.inst)
        BY <1>1, <1>7, <2>3, <3>1, <3>2
      <4> QED
        BY <1>1, <3>2, <4>1
    <3>3. CASE u # w
      <4>1. work[u].pc = "create.share" /\ snap' = snap /\ mutex # NoWorker
        BY <1>1, <1>4, <2>3, <3>3
      <4>2. PICK x \in Workers \ {u} : Prepares(work[x], o.inst)
        BY <2>0, <2>3, <3>1, <4>1 DEF FaultlessOK, Polls
      <4> QED
        BY <1>1, <1>7, <4>1, <4>2
    <3> QED
      BY <3>2, <3>3
  <2> QED
    BY <2>1, <2>2, <2>3 DEF FaultlessOK, Polls, Prepares
<1> QED
  BY <1>1, <1>2, <1>5, <1>6, <1>7 DEF LeakInv, InstancesInv

\* The handler returns with an error that is no fault.
LEMMA ErrorLooksAfter ==
  ASSUME Known, LeakInv, NEW w \in Workers, ReturnError(w),
         work[w].pc = "create.wait" => work[w].result = "error",
         work[w].pc # "create.relock",
         \A i \in Insts : Creates(work[w], i) =>
           \/ faults # 0 \/ Dead(i) \/ Named(i)
           \/ \E u \in Workers \ {w} : Creates(work[u], i)
  PROVE  InstancesInv'
<1>1. /\ work' = [work EXCEPT ![w] = Idle] /\ UNCHANGED <<cloudVars, pv, faults>>
      /\ UNCHANGED opsManagerVars \/ mutex \in {w, NoWorker}
  BY DEF ReturnError, Return
<1>2. Idle.pc = "idle" /\ Idle.result = "none"
  BY DEF Idle
<1>3. PollOK(Idle)
  BY <1>2 DEF PollOK, SeesInstance
<1>4. \A i : Prepares(work[w], i) => faults # 0
  BY DEF Prepares, LeakInv, InstancesInv, FaultlessOK, Polls
<1> HIDE DEF Idle
<1> QED
  BY <1>1, <1>2, <1>3, <1>4, MoveLooksAfter

\* The handler goes on outside the mutex.
LEMMA GotoLooksAfter ==
  ASSUME Known, LeakInv, NEW w \in Workers, NEW pc, Goto(w, pc),
         pc \notin {"create.wait", "create.share", "create.shareWait", "delete.instanceWait"},
         pc = "create.relock" => /\ work[w].pc = "create.wait" /\ work[w].result # "none"
                                 /\ work[w].op.type # "ShareCreate"
                                 /\ instance[work[w].inst].state \notin {"UNUSED", "CREATING"},
         pc = "create.get" => share[work[w].inst][work[w].vol].state = "READY",
         pc # "create.relock" => \A i \in Insts : ~Prepares(work[w], i),
         work[w].pc = "create.wait" => work[w].result # "none",
         pc # "create.relock" => \A i \in Insts : Creates(work[w], i) => \E v \in Vols : Keeps(v, i)
  PROVE  InstancesInv'
<1> DEFINE r == [work[w] EXCEPT !.pc = pc]
<1>1. work[w] \in Request /\ work' = [work EXCEPT ![w] = r] /\ UNCHANGED <<cloudVars, pv, faults>>
      /\ UNCHANGED opsManagerVars
  BY RequestKnows DEF Known, Goto
<1>2. /\ r.pc = pc /\ r.result = work[w].result /\ r.op = work[w].op
      /\ r.inst = work[w].inst /\ r.vol = work[w].vol
  BY <1>1 DEF Request
<1> HIDE DEF r
<1>3. PollOK(r)
  BY <1>2 DEF PollOK, SeesInstance
<1>4. \A i : Prepares(work[w], i) => i \in Insts
  BY RequestKnows DEF Known, Prepares
<1>5. /\ \A i : Prepares(work[w], i) => Prepares(r, i)
      /\ \A i \in Insts : Creates(work[w], i) => Creates(r, i) \/ \E v \in Vols : Keeps(v, i)
  BY <1>2, <1>4 DEF Prepares, Creates, CreatesPcs
<1> QED
  BY <1>1, <1>2, <1>3, <1>5, MoveLooksAfter

\* The handler takes the mutex and lists the operations.
LEMMA LockLooksAfter ==
  ASSUME Known, LeakInv, NEW w \in Workers, NEW from, NEW to \in Critical, NEW joinable,
         LockAndListOps(w, from, to, joinable),
         from \notin {"create.wait", "create.share", "create.shareWait"},
         to = "create.share" <=> from = "create.relock"
  PROVE  InstancesInv'
<1> DEFINE op == IF joinable = {} THEN NoOp ELSE CHOOSE o \in joinable : TRUE
           r == [work[w] EXCEPT !.pc = to, !.result = "none", !.op = op]
<1>1. work[w] \in Request /\ work' = [work EXCEPT ![w] = r] /\ UNCHANGED <<cloudVars, pv, faults>>
      /\ mutex = NoWorker /\ snap' = ops /\ work[w].pc = from
  BY RequestKnows DEF Known, LockAndListOps
<1> HIDE DEF op
<1>2. r.pc = to /\ r.result = "none" /\ r.inst = work[w].inst /\ r.vol = work[w].vol
  BY <1>1 DEF Request
<1> HIDE DEF r
<1>3. PollOK(work[w])
  BY DEF LeakInv, InstancesInv
<1>4. PollOK(r)
  BY <1>1, <1>2, <1>3 DEF PollOK, SeesInstance, Critical
<1>5. ASSUME to = "create.share", NEW o \in ops PROVE o.vol # r.vol
  BY <1>1, <1>2, <1>5 DEF Known, NamesOK, SetsUp
<1>6. ASSUME to = "create.share", faults = 0, NEW o \in ops, o.vol = NoVol, ~Named(o.inst)
      PROVE  \E u \in Workers \ {w} : Prepares(work[u], o.inst)
  <2>1. PICK u \in Workers : work[u].pc = "create.wait" /\ work[u].op = o
    BY <1>6 DEF LeakInv, InstancesInv, FaultlessOK, Polls
  <2>2. u # w
    BY <1>1, <1>6, <2>1
  <2>3. PollOK(work[u]) /\ work[u].vol \in Vols
    BY <2>1, RequestKnows DEF Known, LeakInv, InstancesInv
  <2>4. o.type \in {"InstanceCreate", "InstanceUpdate"} /\ o.inst = work[u].inst
    BY <1>6, <2>1, <2>3, FilestoreAssumption DEF PollOK, SeesInstance, OpOnShare
  <2> QED
    BY <2>1, <2>2, <2>4 DEF Prepares, InstanceOps
<1>7. \A i \in Insts : Creates(work[w], i) => Creates(r, i)
  BY <1>1, <1>2 DEF Creates, CreatesPcs
<1>8. r.pc \notin {"delete.instanceWait", "create.wait"}
  BY <1>2 DEF Critical
<1> QED
  BY <1>1, <1>2, <1>4, <1>5, <1>6, <1>7, <1>8, MoveLooksAfter

\* The handler lets the mutex go and polls an operation that runs already.
LEMMA UnlockLooksAfter ==
  ASSUME Known, LeakInv, NEW w \in Workers, NEW r, work' = [work EXCEPT ![w] = r],
         work[w].pc \in {"delete.share", "expand.check"},
         r.pc \in {"delete.wait", "expand.wait"}, r.result = work[w].result,
         mutex' = NoWorker, UNCHANGED <<cloudVars, pv, faults>>
  PROVE  InstancesInv'
<1>1. mutex = w
  BY DEF Known, ControllerInv, DriverInv, MutexOK, Critical
<1>2. PollOK(r) /\ \A i : ~Prepares(work[w], i) /\ ~Creates(work[w], i)
  BY DEF PollOK, SeesInstance, Prepares, Creates, CreatesPcs
<1> QED
  BY <1>1, <1>2, MoveLooksAfter

\* A request is accepted.
LEMMA AcceptLooksAfter ==
  ASSUME Known, LeakInv, NEW w \in Workers, NEW r, Accept(w, r),
         r.pc \in {"create.lock", "delete.get", "expand.get"}, r.result = "none"
  PROVE  InstancesInv'
<1>1. work[w].pc = "idle"
  BY DEF Accept, Idle
<1>2. PollOK(r) /\ \A i : ~Prepares(work[w], i) /\ ~Creates(work[w], i)
  BY <1>1 DEF PollOK, SeesInstance, Prepares, Creates, CreatesPcs
<1> QED
  BY <1>1, <1>2, MoveLooksAfter DEF Accept

\* A fault ends requests and leaves everything else as it is.
LEMMA FaultCounts ==
  ASSUME Known, FaultsBounded, Fault
  PROVE  faults' # 0
BY DEF Fault, Known, ControllerInv, DriverInv, DriverTypeOK

LEMMA FaultLooksAfter ==
  ASSUME Known, LeakInv, faults' # 0, \A u \in Workers : work'[u] \in {work[u], Idle},
         \A u \in Workers : work'[u].pc = "create.share" => snap' = snap,
         UNCHANGED <<cloudVars, pv>>
  PROVE  InstancesInv'
<1>1. Idle.pc = "idle" /\ PollOK(Idle)
  BY DEF Idle, PollOK, SeesInstance
<1> HIDE DEF Idle
<1>2. /\ \A i \in Insts : PlaceOK(i)' /\ (Dead(i)' <=> Dead(i)) /\ (Named(i)' <=> Named(i))
      /\ \A q : PollOK(q)' <=> PollOK(q)
  BY QuietParts
<1>3. \A i \in Insts, v \in Vols : Keeps(v, i) => Keeps(v, i)'
  BY <1>1, QuietParts DEF Shrinks
<1>4. \A i \in Insts : LookedAfter(i)'
  BY <1>2, <1>3, LookedAfterStays DEF LeakInv, InstancesInv
<1>5. ASSUME NEW u \in Workers PROVE PollOK(work[u])' /\ FreeToCreate(work[u])'
  <2>1. PollOK(work'[u])
    BY <1>1 DEF LeakInv, InstancesInv
  <2>2. PollOK(work[u])'
    BY <2>1 DEF PollOK, SeesInstance, cloudVars
  <2>3. FreeToCreate(work[u])'
    BY <1>1 DEF LeakInv, InstancesInv, FreeToCreate
  <2> QED
    BY <2>2, <2>3
<1> QED
  BY <1>2, <1>4, <1>5 DEF LeakInv, InstancesInv

\* A volume without a fault has one share.
LEMMA OneShareWithoutFault ==
  ASSUME ControllerInv, CountInv, faults = 0, NEW v \in Vols,
         NEW i \in SharesNamed(v), NEW j \in SharesNamed(v)
  PROVE  i = j
<1>1. /\ IsFiniteSet(SharesNamed(v)) /\ Cardinality(SharesNamed(v)) \in Nat
      /\ Cardinality(SharesNamed(v)) <= 1
  BY FS_CardinalityType DEF CountInv, CountOK
<1> QED
  BY <1>1, FS_EmptySet, FS_Singleton

\* Where a creation finds its share done, every other share of the volume strays.
LEMMA OthersStray ==
  ASSUME Known, LeakInv, NEW w \in Workers, work[w].pc = "create.get", NEW i \in Insts,
         i # work[w].inst, work[w].vol \in SharesOf(i)
  PROVE  faults # 0 /\ share[i][work[w].vol].state = "READY"
<1> DEFINE v == work[w].vol
<1>1. v \in Vols /\ work[w].inst \in Insts /\ PastCheck(work[w])
  BY RequestKnows DEF Known, PastCheck
<1>2. share[work[w].inst][v].state = "READY" /\ PlaceOK(i)
  BY DEF LeakInv, InstancesInv, PollOK
<1>3. faults # 0
  BY <1>1, <1>2, OneShareWithoutFault DEF SharesNamed, SharesOf, Known, LeakInv
<1>4. \A o \in ops : o.vol = v => o.inst = work[w].inst
  BY <1>1 DEF Known, NamesOK
<1> QED
  BY <1>2, <1>3, <1>4 DEF PlaceOK

\* A request is answered with success, and the orchestrator hears it: a volume is told its
\* instance, a deletion leaves the instance to another volume or to nobody.
LEMMA AnswerLooksAfter ==
  ASSUME Known, LeakInv, NEW w \in Workers, NEW v, NEW newPV, v = work[w].vol,
         Return(w), UNCHANGED <<cloudVars, faults>>,
         work[w].pc \notin {"idle"} \cup CreatesPcs,
         pv' = [pv EXCEPT ![v] = newPV],
         \/ newPV.phase = pv[v].phase /\ newPV.inst = pv[v].inst
         \/ /\ pv[v].phase = "wanted" /\ newPV.phase = "bound"
            /\ work[w].pc = "create.get" /\ newPV.inst = work[w].inst
         \/ /\ pv[v].phase = "released" /\ newPV.phase = "deleted" /\ newPV.inst = pv[v].inst
            /\ Shrinks(work[w]) \/ Dead(newPV.inst) \/ \E x \in Vols \ {v} : Keeps(x, newPV.inst)
  PROVE  InstancesInv'
<1>1. /\ work' = [work EXCEPT ![w] = Idle] /\ work \in [Workers -> Request] /\ v \in Vols
      /\ pv \in [Vols -> PVRec]
      /\ UNCHANGED opsManagerVars \/ mutex = w
      /\ work[w].pc = "create.get" =>
           work[w].inst \in Insts /\ share[work[w].inst][v].state = "READY"
  BY RequestKnows
     DEF Known, ControllerInv, DriverInv, DriverTypeOK, Return, LeakInv, InstancesInv, PollOK
<1>2. /\ work'[w].pc = "idle" /\ work'[w].result = "none"
      /\ \A u \in Workers : u # w => work'[u] = work[u]
      /\ pv'[v] = newPV /\ \A x \in Vols : x # v => pv'[x] = pv[x]
      /\ instance' = instance /\ share' = share /\ ops' = ops /\ faults' = faults
  BY <1>1 DEF Idle, cloudVars
<1>3. \A i \in Insts : Dead(i)' <=> Dead(i)
  BY <1>2 DEF Dead
<1>4. ASSUME NEW i \in Insts, Named(i) PROVE Named(i)'
  <2>1. PICK x \in Vols : pv[x].inst = i
    BY <1>4 DEF Named
  <2>2. pv[x].phase # "wanted"
    BY <2>1 DEF LeakInv, InstancesInv, PlaceOK
  <2>3. pv'[x].inst = i
    BY <1>1, <1>2, <2>1, <2>2
  <2> QED
    BY <2>3 DEF Named
<1>5. ASSUME NEW i \in Insts, NEW x \in Vols, Keeps(x, i), x # v \/ newPV.phase # "deleted"
      PROVE  Keeps(x, i)'
  <2>1. \A u \in Workers : Shrinks(work'[u]) => work'[u] = work[u]
    BY <1>2 DEF Shrinks
  <2>2. CASE x # v
    BY <1>2, <1>5, <2>1, <2>2 DEF Keeps, Stray
  <2>3. CASE x = v /\ newPV.phase = pv[v].phase /\ newPV.inst = pv[v].inst
    BY <1>2, <1>5, <2>1, <2>3 DEF Keeps, Stray
  <2>4. CASE /\ x = v /\ pv[v].phase = "wanted" /\ newPV.phase = "bound"
             /\ work[w].pc = "create.get" /\ newPV.inst = work[w].inst
    <3>1. share[i][v].state = "READY"
      BY <1>5, <2>4 DEF Keeps, Stray
    <3>2. i = newPV.inst \/ faults # 0
      BY <1>1, <2>4, <3>1, OthersStray DEF SharesOf
    <3> QED
      BY <1>1, <1>2, <2>4, <3>1, <3>2 DEF Keeps, Stray
  <2> QED
    BY <1>5, <2>2, <2>3, <2>4
<1>6. ASSUME NEW i \in Insts, NEW x \in Vols, Keeps(x, i) PROVE Dead(i)' \/ \E y \in Vols : Keeps(y, i)'
  <2>1. CASE x # v \/ newPV.phase # "deleted"
    BY <1>5, <1>6, <2>1
  <2>2. CASE x = v /\ newPV.phase = "deleted" /\ pv[v].phase = "deleted"
    BY <1>1, <1>2, <1>6, <2>2 DEF Keeps, Stray
  <2>3. CASE x = v /\ newPV.phase = "deleted" /\ pv[v].phase = "released"
    <3>1. CASE newPV.inst = i /\ ~Shrinks(work[w])
      <4>1. Dead(i) \/ \E y \in Vols \ {v} : Keeps(y, i)
        BY <2>3, <3>1
      <4> QED
        BY <1>3, <1>5, <4>1
    <3>2. CASE faults # 0 /\ Stray(v, i)
      BY <1>1, <1>2, <2>3, <3>2 DEF Keeps, Stray
    <3> QED
      BY <1>1, <1>6, <2>3, <3>1, <3>2 DEF Keeps
  <2> QED
    BY <2>1, <2>2, <2>3
<1>7. ASSUME NEW i \in Insts, Named(i)' PROVE Named(i) \/ Keeps(v, i)'
  <2>1. PICK x \in Vols : pv'[x].inst = i
    BY <1>7 DEF Named
  <2>2. CASE pv'[x].inst = pv[x].inst
    BY <2>1, <2>2 DEF Named
  <2>3. CASE x = v /\ newPV.phase = "bound"
    BY <1>2, <2>1, <2>3 DEF Keeps
  <2> QED
    BY <1>2, <2>2, <2>3
<1>8. ASSUME NEW i \in Insts PROVE LookedAfter(i)'
  <2>1. \A u \in Workers : Creates(work[u], i) => Creates(work'[u], i)
    BY <1>2 DEF Creates, CreatesPcs
  <2>2. \A u \in Workers : Creates(work[u], i) => Creates(work[u], i)'
    BY <2>1 DEF Creates, CreatesPcs
  <2>3. \A x \in Vols : Keeps(x, i) => Dead(i)' \/ \E y \in Vols : Keeps(y, i)'
    BY <1>6
  <2>4. Named(i)' => Named(i) \/ \E x \in Vols : Keeps(x, i)'
    BY <1>1, <1>7
  <2>5. LookedAfter(i) /\ (Dead(i) => Dead(i)') /\ faults' = faults
    BY <1>2, <1>3 DEF LeakInv, InstancesInv
  <2> QED
    BY <2>2, <2>3, <2>4, <2>5, LookedAfterStays
<1>9. ASSUME NEW i \in Insts PROVE PlaceOK(i)'
  <2>1. PlaceOK(i)
    BY DEF LeakInv, InstancesInv
  <2>2. \A x \in Vols : pv'[x].phase = "wanted" => pv'[x].inst # i
    BY <1>1, <1>2, <2>1 DEF PlaceOK
  <2>3. Named(i)' => instance[i].state # "UNUSED"
    <3>1. CASE Named(i)
      BY <2>1, <3>1 DEF PlaceOK
    <3>2. CASE i = newPV.inst /\ work[w].pc = "create.get" /\ newPV.inst = work[w].inst
      BY <1>1, <3>2 DEF Known, ControllerInv, DisciplineInv, SharesOnUsableInstances
    <3> QED
      BY <1>1, <1>2, <3>1, <3>2 DEF Named
  <2>4. ASSUME NEW x \in SharesOf(i), pv'[x].phase # "wanted"
        PROVE  pv'[x].inst = i \/ (faults # 0 /\ Stray(x, i)')
    <3>1. CASE x # v \/ (newPV.phase = pv[v].phase /\ newPV.inst = pv[v].inst)
      BY <1>1, <1>2, <2>1, <2>4, <3>1 DEF PlaceOK, SharesOf, Stray
    <3>2. CASE x = v /\ work[w].pc = "create.get" /\ newPV.inst = work[w].inst
      BY <1>1, <1>2, <2>4, <3>2, OthersStray DEF Stray
    <3>3. CASE x = v /\ pv[v].phase = "released" /\ newPV.inst = pv[v].inst
      BY <1>1, <1>2, <2>1, <2>4, <3>3 DEF PlaceOK, SharesOf, Stray
    <3> QED
      BY <3>1, <3>2, <3>3
  <2> QED
    BY <1>2, <1>4, <2>1, <2>2, <2>3, <2>4 DEF PlaceOK, SharesOf
<1>10. ASSUME NEW u \in Workers PROVE PollOK(work[u])' /\ FreeToCreate(work[u])'
  <2>1. CASE u = w
    BY <1>2, <2>1 DEF PollOK, SeesInstance, FreeToCreate
  <2>2. CASE u # w
    <3>1. PollOK(work[u]) /\ FreeToCreate(work[u])
      BY DEF LeakInv, InstancesInv
    <3>2. work[u].pc = "create.share" => snap' = snap
      BY <1>1, <2>2 DEF Known, ControllerInv, DriverInv, MutexOK, Critical, opsManagerVars
    <3> QED
      BY <1>2, <2>2, <3>1, <3>2 DEF PollOK, SeesInstance, FreeToCreate
  <2> QED
    BY <2>1, <2>2
<1>11. ASSUME faults = 0 PROVE FaultlessOK'
  <2>0. FaultlessOK
    BY <1>11 DEF LeakInv, InstancesInv
  <2>1. \A u \in Workers : work'[u] = work[u] \/ (work'[u].pc = "idle" /\ work'[u].result = "none")
    BY <1>2
  <2>2. /\ \A i \in Insts : instance'[i].state # "REPAIRING"
        /\ \A u \in Workers : work'[u].result # "error"
    BY <1>2, <2>0, <2>1 DEF FaultlessOK, Polls
  <2>3. ASSUME NEW o \in ops', o.vol = NoVol, ~Named(o.inst)'
        PROVE  \E u \in Workers : Polls(work'[u], o)
    <3>1. o \in ops /\ o.inst \in Insts
      BY <1>2, OpShape DEF Known, ControllerInv, DisciplineInv, CloudTypeOK
    <3>2. ~Named(o.inst)
      BY <1>4, <2>3, <3>1
    <3>3. PICK u \in Workers : Polls(work[u], o)
      BY <2>0, <2>3, <3>1, <3>2 DEF FaultlessOK, Polls
    <3> QED
      BY <1>2, <3>3 DEF Polls, CreatesPcs
  <2>4. ASSUME NEW u \in Workers, work'[u].pc = "create.share", NEW o \in snap', o.vol = NoVol,
               ~Named(o.inst)'
        PROVE  \E x \in Workers \ {u} : Prepares(work'[x], o.inst)
    <3>1. u # w /\ work[u].pc = "create.share"
      BY <1>2, <2>4
    <3>2. snap' = snap
      BY <1>1, <3>1 DEF Known, ControllerInv, DriverInv, MutexOK, Critical, opsManagerVars
    <3>3. o.inst \in Insts
      BY <2>4, <3>2, OpShape DEF Known, ControllerInv, DriverInv, DriverTypeOK, OpsManagerTypeOK
    <3>4. PICK x \in Workers \ {u} : Prepares(work[x], o.inst)
      BY <1>4, <2>0, <2>4, <3>1, <3>2, <3>3 DEF FaultlessOK, Polls
    <3> QED
      BY <1>2, <3>4 DEF Prepares, CreatesPcs
  <2> QED
    BY <2>2, <2>3, <2>4 DEF FaultlessOK, Polls, Prepares
<1> QED
  BY <1>2, <1>8, <1>9, <1>10, <1>11 DEF LeakInv, InstancesInv

\* A volume whose share is ready keeps its instance: nobody gives it up before the share.
LEMMA ReadyShareKeeps ==
  ASSUME Known, LeakInv, NEW i \in Insts, NEW x \in Vols, share[i][x].state = "READY"
  PROVE  Keeps(x, i)
<1>1. x \in SharesOf(i) /\ PlaceOK(i)
  BY DEF LeakInv, InstancesInv, SharesOf
<1>2. pv[x] \in PVRec
  BY DEF Known, ControllerInv, DriverInv, DriverTypeOK
<1>3. CASE pv[x].phase = "wanted"
  BY <1>3 DEF Keeps
<1>4. CASE pv[x].phase # "wanted"
  <2> SUFFICES ASSUME pv[x].inst = i PROVE Keeps(x, i)
    BY <1>1, <1>4 DEF PlaceOK, Keeps
  <2>1. pv[x].inst = i
    OBVIOUS
  <2>2. pv[x].phase # "deleted"
    BY <2>1 DEF Known, VolumesInv, VolumeOK, ShareOf
  <2>3. ASSUME NEW u \in Workers, Shrinks(work[u]), work[u].vol = x PROVE FALSE
    <3>1. WorkOK(work[u]) /\ work[u].pc = "delete.instanceWait"
      BY <2>3 DEF Known, VolumesInv, Shrinks
    <3>2. work[u].inst = i /\ share[work[u].inst][x].state = "ABSENT"
      BY <2>1, <2>3, <3>1 DEF WorkOK, GetsPastShare, DeletePcs
    <3> QED
      BY <3>2
  <2> QED
    BY <1>2, <1>4, <2>1, <2>2, <2>3 DEF Keeps, PVRec, Phases
<1> QED
  BY <1>3, <1>4

\* An instance that a deletion finds idle and with shares is another volume's.
LEMMA OtherKeeps ==
  ASSUME Known, LeakInv, NEW w \in Workers, work[w].pc = "delete.instance",
         ~InstanceBusy(work[w].inst), ~Empty(work[w].inst)
  PROVE  \E x \in Vols \ {work[w].vol} : Keeps(x, work[w].inst)
<1> DEFINE i == work[w].inst
<1>1. i \in Insts /\ work[w].vol \in Vols /\ ops \subseteq snap
  BY CriticalKnows DEF Known, ControllerInv, Critical
<1>2. PICK x \in Vols : x \in SharesOf(i)
  BY DEF Empty, SharesOf
<1>3. share[i][work[w].vol].state = "ABSENT"
  BY DEF Known, VolumesInv, WorkOK, GetsPastShare
<1>4. share[i][x].state = "READY"
  BY <1>1, <1>2 DEF LeakInv, InstancesInv, PlaceOK, InstanceBusy
<1> QED
  BY <1>1, <1>2, <1>3, <1>4, ReadyShareKeeps DEF SharesOf

\* What starting an operation does to the states of instances and shares.
LEMMA StartsOnInstance ==
  ASSUME CloudTypeOK, NEW o \in Op, NEW protocol, StartOp(o, protocol)
  PROVE  /\ \A i \in Insts : i # o.inst \/ o.type \notin {"InstanceCreate", "InstanceDelete"}
                               => instance'[i].state = instance[i].state
         /\ o.type = "InstanceCreate" => /\ instance[o.inst].state = "UNUSED"
                                         /\ instance'[o.inst].state = "CREATING"
         /\ o.type = "InstanceDelete" => /\ instance[o.inst].state = "READY"
                                         /\ instance'[o.inst].state = "DELETING"
         /\ o.type = "InstanceUpdate" => instance[o.inst].state = "READY"
<1>1. /\ instance \in [Insts -> InstanceRec] /\ o.inst \in Insts /\ instance[o.inst] \in InstanceRec
      /\ Accepts(o)
  BY OpShape DEF CloudTypeOK, StartOp
<1>2. /\ \A i \in Insts : i # o.inst => instance'[i] = instance[i]
      /\ o.type \notin {"InstanceCreate", "InstanceDelete"} => instance'[o.inst] = instance[o.inst]
      /\ o.type = "InstanceDelete" => instance'[o.inst] = [instance[o.inst] EXCEPT !.state = "DELETING"]
      /\ o.type = "InstanceCreate" =>
           instance'[o.inst] = [state |-> "CREATING", cap |-> o.cap, protocol |-> protocol]
  BY <1>1 DEF StartOp
<1>3. o.type = "InstanceDelete" => instance'[o.inst].state = "DELETING"
  BY <1>1, <1>2 DEF InstanceRec
<1> QED
  BY <1>1, <1>2, <1>3 DEF Accepts

\* A handler starts an operation.
LEMMA StartLooksAfter ==
  ASSUME Known, LeakInv, [DisciplineNext]_cloudVars, NEW w \in Workers, NEW o \in Op,
         NEW to \in Waiting, Started(w, o, to)
  PROVE  InstancesInv'
<1> DEFINE r == work[w]
           q == [r EXCEPT !.pc = to, !.op = o, !.result = "none", !.inst = o.inst]
           protocol == IF o.type = "InstanceCreate" THEN Protocol[r.vol] ELSE ""
<1>1. /\ DisciplineInv /\ CloudTypeOK /\ r \in Request /\ work \in [Workers -> Request]
      /\ work' = [work EXCEPT ![w] = q] /\ StartOp(o, protocol) /\ NoConflict(o)
      /\ pv' = pv /\ faults' = faults /\ snap' = {}
  BY RequestKnows DEF Known, ControllerInv, DisciplineInv, Started, StartWorkflow
<1>2. q.pc = to /\ q.op = o /\ q.inst = o.inst /\ q.vol = r.vol /\ q.result = "none"
  BY <1>1 DEF Request
<1> HIDE DEF q
<1>3. work'[w] = q /\ \A u \in Workers : u # w => work'[u] = work[u]
  BY <1>1
<1>4. /\ r.pc \in Critical /\ mutex = w /\ r.vol \in Vols /\ o.inst \in Insts
  BY RequestKnows, OpShape DEF Started, Critical, Known, ControllerInv, DriverInv, MutexOK
<1>5. /\ r.pc \in {"create.setup", "create.share"} => pv[r.vol].phase = "wanted"
      /\ r.pc \notin {"create.setup", "create.share"} => pv[r.vol].inst = r.inst /\ o.inst = r.inst
      /\ r.pc \in {"delete.share", "delete.instance"} => pv[r.vol].phase = "released"
      /\ r.pc = "create.share" => o.inst = r.inst
  <2>1. WorkOK(r)
    BY DEF Known, VolumesInv
  <2>2. r.pc \notin {"create.setup", "create.share"} => o.inst = r.inst
    BY DEF Started, OpOnShare, OpOnInstance, ExpandOp
  <2>3. r.pc = "create.share" => o.inst = r.inst
    BY DEF Started, OpOnShare
  <2> QED
    BY <1>4, <2>1, <2>2, <2>3 DEF WorkOK, CreatePcs, DeletePcs, ExpandPcs, Critical
<1>6. /\ ops' = ops \cup {o}
      /\ \A i \in Insts, x \in Vols :
           o.type \notin {"ShareCreate", "ShareDelete"} \/ o.inst # i \/ o.vol # x
             => share'[i][x] = share[i][x]
      /\ o.type = "ShareCreate" => share[o.inst][o.vol].state = "ABSENT"
      /\ o.type = "ShareDelete" => share[o.inst][o.vol].state = "READY"
  BY <1>1, StartsOnShare
<1>7. /\ o.type = "ShareCreate" => r.pc \in {"create.setup", "create.share"} /\ o.vol = r.vol
      /\ o.type = "ShareDelete" => r.pc = "delete.share" /\ o.vol = r.vol
      /\ o.type = "InstanceCreate" => r.pc = "create.setup" /\ to = "create.wait"
      /\ o.type = "InstanceDelete" => r.pc = "delete.instance"
  BY <1>4, PlacementsFit DEF Started, OpOnShare, OpOnInstance, ExpandOp
<1>8. /\ \A i \in Insts : i # o.inst \/ o.type \notin {"InstanceCreate", "InstanceDelete"}
                            => instance'[i].state = instance[i].state
      /\ o.type = "InstanceCreate" => /\ instance[o.inst].state = "UNUSED"
                                      /\ instance'[o.inst].state = "CREATING"
      /\ o.type = "InstanceDelete" => /\ instance[o.inst].state = "READY"
                                      /\ instance'[o.inst].state = "DELETING"
      /\ o.type = "InstanceUpdate" => instance[o.inst].state = "READY"
  BY <1>1, StartsOnInstance
<1>9. \A i \in Insts : Named(i)' <=> Named(i)
  BY <1>1 DEF Named
<1>10. ASSUME NEW i \in Insts, NEW x \in Vols, Keeps(x, i), x # r.vol \/ ~Shrinks(q)
       PROVE  Keeps(x, i)'
  <2>1. \A u \in Workers : Shrinks(work'[u]) =>
          work'[u].vol # x \/ (u # w /\ Shrinks(work[u]) /\ work'[u] = work[u])
    BY <1>2, <1>3, <1>10
  <2>2. /\ pv[x].phase = "wanted" /\ share[i][x].state = "READY" => share'[i][x] = share[i][x]
        /\ Stray(x, i) => share'[i][x] = share[i][x]
    BY <1>5, <1>6, <1>7 DEF Stray
  <2> QED
    BY <1>1, <1>10, <2>1, <2>2 DEF Keeps, Stray
<1>11. ASSUME NEW i \in Insts, NEW x \in Vols, Keeps(x, i) PROVE \E y \in Vols : Keeps(y, i)'
  <2>1. CASE x # r.vol \/ ~Shrinks(q)
    BY <1>10, <1>11, <2>1
  <2>2. CASE x = r.vol /\ Shrinks(q)
    <3>1. r.pc = "delete.instance" /\ o.type = "InstanceUpdate" /\ ~Empty(r.inst)
      BY <1>2, <1>4, <2>2 DEF Shrinks, Started, OpOnInstance
    <3>2. ~InstanceBusy(r.inst)
      BY <1>1, <1>5, <3>1, OpShape DEF NoConflict, InstanceOps, ShareOps
    <3>3. CASE i = r.inst
      <4>1. PICK y \in Vols \ {r.vol} : Keeps(y, i)
        BY <3>1, <3>2, <3>3, OtherKeeps
      <4> QED
        BY <1>10, <4>1
    <3>4. CASE faults # 0 /\ Stray(x, i)
      BY <1>1, <1>5, <1>6, <1>7, <3>4 DEF Keeps, Stray
    <3> QED
      BY <1>5, <1>11, <2>2, <3>1, <3>3, <3>4 DEF Keeps
  <2> QED
    BY <2>1, <2>2
<1>12. ASSUME NEW i \in Insts PROVE LookedAfter(i)'
  <2>1. CASE o.type = "InstanceCreate" /\ i = o.inst
    <3>1. ~Named(i)
      BY <1>8, <2>1 DEF LeakInv, InstancesInv, PlaceOK
    <3>2. Creates(q, i)
      BY <1>2, <1>7, <2>1 DEF Creates, CreatesPcs
    <3>3. \E u \in Workers : Creates(work[u], i)'
      BY <1>3, <3>2 DEF Creates, CreatesPcs
    <3> QED
      BY <1>9, <3>1, <3>3 DEF LookedAfter
  <2>2. CASE o.type # "InstanceCreate" \/ i # o.inst
    <3>1. Dead(i) => Dead(i)'
      BY <1>8, <2>2 DEF Dead
    <3>2. \A u \in Workers : Creates(work[u], i) => Creates(work[u], i)'
      <4>1. Creates(r, i) => Creates(q, i)
        BY <1>2, <1>4, <1>5 DEF Creates, CreatesPcs, Started
      <4> QED
        BY <1>3, <4>1 DEF Creates, CreatesPcs
    <3>3. \A x \in Vols : Keeps(x, i) => Dead(i)' \/ \E y \in Vols : Keeps(y, i)'
      BY <1>11
    <3>4. LookedAfter(i) /\ (Named(i)' => Named(i)) /\ faults' = faults
      BY <1>1, <1>9 DEF LeakInv, InstancesInv
    <3> QED
      BY <3>1, <3>2, <3>3, <3>4, LookedAfterStays
  <2> QED
    BY <2>1, <2>2
<1>13. ASSUME NEW i \in Insts PROVE PlaceOK(i)'
  <2>1. PlaceOK(i)
    BY DEF LeakInv, InstancesInv
  <2>2. Named(i) => instance'[i].state # "UNUSED"
    BY <1>8, <2>1 DEF PlaceOK
  <2>3. instance'[i].state = "DELETING" => Named(i)
    BY <1>4, <1>5, <1>7, <1>8, <2>1 DEF PlaceOK, Named
  <2>4. ASSUME NEW x \in SharesOf(i)'
        PROVE  /\ pv[x].phase # "wanted" => pv[x].inst = i \/ (faults # 0 /\ Stray(x, i)')
               /\ share'[i][x].state # "READY" => \E p \in ops' : p.inst = i /\ p.vol = x
    <3>1. CASE share'[i][x] = share[i][x]
      BY <1>1, <1>6, <2>1, <2>4, <3>1 DEF PlaceOK, SharesOf, Stray
    <3>2. CASE o.type = "ShareCreate" /\ o.inst = i /\ o.vol = x
      BY <1>5, <1>6, <1>7, <3>2
    <3>3. CASE o.type = "ShareDelete" /\ o.inst = i /\ o.vol = x
      BY <1>5, <1>6, <1>7, <3>3
    <3> QED
      BY <1>6, <2>4, <3>1, <3>2, <3>3 DEF SharesOf
  <2> QED
    BY <1>1, <1>9, <2>1, <2>2, <2>3, <2>4 DEF PlaceOK, SharesOf
<1>14. ASSUME NEW u \in Workers PROVE PollOK(work[u])' /\ FreeToCreate(work[u])'
  <2>1. CASE u = w
    <3>1. to = "create.wait" =>
            \/ o.type \in {"InstanceCreate", "InstanceUpdate"}
            \/ o = OpOnShare("ShareCreate", o.inst, r.vol, ShareSize[r.vol])
      BY <1>4, <1>7 DEF Started, Placements, PlacementOn, OpOnInstance, OpOnShare
    <3>2. to = "create.shareWait" => o = OpOnShare("ShareCreate", o.inst, r.vol, ShareSize[r.vol])
      BY <1>4, <1>5 DEF Started
    <3>3. to = "delete.instanceWait" => o.type \in {"InstanceDelete", "InstanceUpdate"}
      BY <1>4 DEF Started, OpOnInstance
    <3>4. o.type = "InstanceUpdate" => instance'[o.inst].state \notin {"UNUSED", "CREATING"}
      BY <1>4, <1>8
    <3>5. to \notin {"create.relock", "create.share", "create.get"}
      BY DEF Waiting
    <3>6. PollOK(work[w])'
      BY <1>2, <1>3, <3>1, <3>2, <3>3, <3>4, <3>5 DEF PollOK, SeesInstance
    <3>7. FreeToCreate(work[w])'
      BY <1>2, <1>3, <3>5 DEF FreeToCreate
    <3> QED
      BY <2>1, <3>6, <3>7
  <2>2. CASE u # w
    <3>1. PollOK(work[u]) /\ work'[u] = work[u] /\ work[u] \in Request
      BY <1>1, <1>3, <2>2 DEF LeakInv, InstancesInv
    <3>2. work[u].pc # "create.share"
      BY <1>4, <2>2 DEF Known, ControllerInv, DriverInv, MutexOK, Critical
    <3>3. ASSUME work[u].pc \in {"create.wait", "create.shareWait", "create.get"}
          PROVE  /\ work[u].inst \in Insts /\ work[u].vol \in Vols
                 /\ pv[work[u].vol].phase = "wanted"
      BY <3>3, RequestKnows DEF Known, VolumesInv, WorkOK, CreatePcs
    <3>4. /\ work[u].pc \in {"create.wait", "create.shareWait", "create.get"}
          /\ share[work[u].inst][work[u].vol].state = "READY"
          => share'[work[u].inst][work[u].vol].state = "READY"
      BY <1>5, <1>6, <1>7, <3>3
    <3>5. \A i \in Insts : instance[i].state \notin {"UNUSED", "CREATING"} =>
            instance'[i].state \notin {"UNUSED", "CREATING"}
      BY <1>8
    <3>6. \A i \in Insts : instance[i].state = "GONE" => instance'[i].state = "GONE"
      BY <1>8
    <3>7. work[u].pc \in {"create.wait", "create.relock", "delete.instanceWait"} =>
            work[u].inst \in Insts
      BY RequestKnows DEF Known
    <3>8. PollOK(work[u])'
      BY <3>1, <3>2, <3>4, <3>5, <3>6, <3>7 DEF PollOK, SeesInstance
    <3> QED
      BY <3>1, <3>2, <3>8 DEF FreeToCreate
  <2> QED
    BY <2>1, <2>2
<1>15. ASSUME faults = 0 PROVE FaultlessOK'
  <2>0. FaultlessOK
    BY <1>15 DEF LeakInv, InstancesInv
  <2>1. \A i \in Insts : instance'[i].state # "REPAIRING"
    BY <1>8, <2>0 DEF FaultlessOK, Polls
  <2>2. \A u \in Workers : work'[u].result # "error"
    BY <1>2, <1>3, <2>0 DEF FaultlessOK, Polls
  <2>3. ASSUME NEW p \in ops', p.vol = NoVol, ~Named(p.inst)
        PROVE  \E u \in Workers : Polls(work'[u], p)
    <3>1. CASE p \in ops
      <4>1. PICK u \in Workers : Polls(work[u], p)
        BY <2>0, <2>3, <3>1 DEF FaultlessOK, Polls
      <4> QED
        BY <1>3, <1>4, <4>1 DEF Polls, Critical
    <3>2. CASE p = o
      <4>1. r.pc \in {"create.setup", "create.share"}
        BY <1>4, <1>5, <2>3, <3>2 DEF Named
      <4>2. to = "create.wait"
        BY <2>3, <3>2, <4>1, FilestoreAssumption, RequestKnows DEF Started, OpOnShare, Known
      <4> QED
        BY <1>2, <1>3, <3>2, <4>2 DEF Polls
    <3> QED
      BY <1>6, <2>3, <3>1, <3>2
  <2>4. \A u \in Workers : work'[u].pc = "create.share" => snap' = {}
    BY <1>1
  <2>5. \A p \in ops' : Named(p.inst)' <=> Named(p.inst)
    BY <1>1 DEF Named
  <2> QED
    BY <2>1, <2>2, <2>3, <2>4, <2>5 DEF FaultlessOK, Polls
<1> QED
  BY <1>1, <1>12, <1>13, <1>14, <1>15 DEF LeakInv, InstancesInv

\* What the end of an operation does to the states of instances and shares.
LEMMA EndsOnStates ==
  ASSUME CloudTypeOK, NEW o \in ops, Shows(o), OpSucceeds(o) \/ OpFails(o)
  PROVE  /\ \A i \in Insts : i # o.inst \/ o.type \notin {"InstanceCreate", "InstanceDelete"}
                               => instance'[i].state = instance[i].state
         /\ o.type = "InstanceCreate" => /\ instance[o.inst].state = "CREATING"
                                         /\ instance'[o.inst].state \in {"READY", "ERROR"}
                                         /\ OpSucceeds(o) => instance'[o.inst].state = "READY"
         /\ o.type = "InstanceDelete" => /\ instance[o.inst].state = "DELETING"
                                         /\ instance'[o.inst].state \in {"READY", "GONE"}
                                         /\ OpSucceeds(o) => instance'[o.inst].state = "GONE"
         /\ \A i \in Insts, v \in Vols : i # o.inst \/ v # o.vol => share'[i][v] = share[i][v]
         /\ o.vol # NoVol => /\ share'[o.inst][o.vol].state \in {"READY", "ABSENT"}
                             /\ share[o.inst][o.vol].state # "ABSENT"
                             /\ \/ share[o.inst][o.vol].state = "READY"
                                \/ o.type = "ShareCreate" /\ OpSucceeds(o)
                                => share'[o.inst][o.vol].state = "READY"
<1>1. /\ instance \in [Insts -> InstanceRec] /\ o \in Op /\ o.inst \in Insts
      /\ instance[o.inst] \in InstanceRec /\ o.cap \in Nat
      /\ share \in [Insts -> [Vols -> ShareRec]]
      /\ \/ o.type \in InstanceOps /\ o.vol = NoVol
         \/ o.type \in ShareOps /\ o.vol \in Vols /\ o.vol # NoVol
  BY OpShape DEF CloudTypeOK
<1>2. \A i \in Insts : i # o.inst => instance'[i] = instance[i]
  BY <1>1 DEF OpSucceeds, OpFails
<1>3. /\ o.type \in ShareOps => instance'[o.inst] = instance[o.inst]
      /\ o.type = "InstanceUpdate" => \/ instance'[o.inst] = [instance[o.inst] EXCEPT !.cap = o.cap]
                                      \/ instance'[o.inst] = instance[o.inst]
  BY <1>1 DEF OpSucceeds, OpFails, ShareOps
<1>4. o.type = "InstanceCreate" => \/ instance'[o.inst] = [instance[o.inst] EXCEPT !.state = "READY"]
                                   \/ /\ instance'[o.inst] = [instance[o.inst] EXCEPT !.state = "ERROR"]
                                      /\ ~OpSucceeds(o)
  <2>1. CASE OpSucceeds(o)
    BY <1>1, <2>1 DEF OpSucceeds
  <2>2. CASE OpFails(o) /\ ~OpSucceeds(o)
    BY <1>1, <2>2 DEF OpFails
  <2> QED
    BY <2>1, <2>2
<1>5. o.type = "InstanceDelete" => \/ instance'[o.inst] = AbsentInstance("GONE")
                                   \/ /\ instance'[o.inst] = [instance[o.inst] EXCEPT !.state = "READY"]
                                      /\ ~OpSucceeds(o)
  <2>1. CASE OpSucceeds(o)
    BY <1>1, <2>1 DEF OpSucceeds
  <2>2. CASE OpFails(o) /\ ~OpSucceeds(o)
    BY <1>1, <2>2 DEF OpFails
  <2> QED
    BY <2>1, <2>2
<1>6. /\ o.type \in ShareOps \cup {"InstanceUpdate"} => instance'[o.inst].state = instance[o.inst].state
      /\ o.type = "InstanceCreate" => /\ instance'[o.inst].state \in {"READY", "ERROR"}
                                      /\ OpSucceeds(o) => instance'[o.inst].state = "READY"
      /\ o.type = "InstanceDelete" => /\ instance'[o.inst].state \in {"READY", "GONE"}
                                      /\ OpSucceeds(o) => instance'[o.inst].state = "GONE"
  <2> DEFINE k == instance[o.inst]
  <2>1. /\ \A s : [k EXCEPT !.state = s].state = s
        /\ [k EXCEPT !.cap = o.cap].state = k.state
        /\ AbsentInstance("GONE").state = "GONE"
    BY <1>1 DEF InstanceRec, AbsentInstance
  <2>2. o.type \in ShareOps \cup {"InstanceUpdate"} => instance'[o.inst].state = k.state
    BY <1>3, <2>1
  <2>3. o.type = "InstanceCreate" => \/ instance'[o.inst].state = "READY"
                                     \/ instance'[o.inst].state = "ERROR" /\ ~OpSucceeds(o)
    BY <1>4, <2>1
  <2>4. o.type = "InstanceDelete" => \/ instance'[o.inst].state = "GONE"
                                     \/ instance'[o.inst].state = "READY" /\ ~OpSucceeds(o)
    BY <1>5, <2>1
  <2> QED
    BY <2>2, <2>3, <2>4
<1>7. \A i \in Insts, v \in Vols : i # o.inst \/ v # o.vol => share'[i][v] = share[i][v]
  <2>1. CASE o.vol = NoVol
    BY <2>1 DEF OpSucceeds, OpFails
  <2>2. CASE o.vol # NoVol /\ OpSucceeds(o)
    BY <1>1, <2>2 DEF OpSucceeds
  <2>3. CASE o.vol # NoVol /\ OpFails(o)
    BY <1>1, <2>3 DEF OpFails
  <2> QED
    BY <2>1, <2>2, <2>3
<1>8. ASSUME o.vol # NoVol
      PROVE  /\ share'[o.inst][o.vol].state \in {"READY", "ABSENT"}
             /\ share[o.inst][o.vol].state = "READY" => share'[o.inst][o.vol].state = "READY"
             /\ o.type = "ShareCreate" /\ OpSucceeds(o) => share'[o.inst][o.vol].state = "READY"
  <2> DEFINE s == share[o.inst][o.vol]
             t == share'[o.inst][o.vol]
  <2>1. o.type \in ShareOps /\ o.vol \in Vols /\ s \in ShareRec
    BY <1>1, <1>8
  <2>2. /\ OpSucceeds(o) => t = CASE o.type = "ShareCreate" -> [s EXCEPT !.state = "READY"]
                                  [] o.type = "ShareUpdate" -> [s EXCEPT !.cap = o.cap]
                                  [] OTHER -> AbsentShare
        /\ OpFails(o) => t = CASE o.type = "ShareCreate" -> AbsentShare
                               [] o.type = "ShareDelete" -> [s EXCEPT !.state = "READY"]
                               [] OTHER -> s
    BY <1>1, <1>8, <2>1 DEF OpSucceeds, OpFails
  <2> HIDE DEF t
  <2>3. /\ o.type = "ShareCreate" => s.state = "CREATING"
        /\ o.type = "ShareUpdate" => s.state = "READY"
        /\ o.type = "ShareDelete" => s.state = "DELETING"
    BY DEF Shows
  <2> HIDE DEF s
  <2>4. o.type = "ShareCreate" => /\ t \in {[s EXCEPT !.state = "READY"], AbsentShare}
                                  /\ OpSucceeds(o) => t = [s EXCEPT !.state = "READY"]
    BY <2>2
  <2>5. o.type = "ShareUpdate" => t \in {[s EXCEPT !.cap = o.cap], s}
    BY <2>2
  <2>6. o.type = "ShareDelete" => t \in {[s EXCEPT !.state = "READY"], AbsentShare}
    BY <2>2
  <2>7. /\ [s EXCEPT !.state = "READY"].state = "READY" /\ AbsentShare.state = "ABSENT"
        /\ [s EXCEPT !.cap = o.cap].state = s.state
    BY <2>1 DEF ShareRec, AbsentShare
  <2>8. t.state \in {"READY", "ABSENT"} /\ (s.state = "READY" => t.state = "READY")
    BY <2>1, <2>3, <2>4, <2>5, <2>6, <2>7 DEF ShareOps
  <2>9. o.type = "ShareCreate" /\ OpSucceeds(o) => t.state = "READY"
    BY <2>4, <2>7
  <2> QED
    BY <2>8, <2>9 DEF s, t
<1>9. /\ o.type = "InstanceCreate" => instance[o.inst].state = "CREATING"
      /\ o.type = "InstanceDelete" => instance[o.inst].state = "DELETING"
      /\ o.vol # NoVol => share[o.inst][o.vol].state # "ABSENT"
  BY <1>1 DEF Shows, ShareOps
<1> QED
  BY <1>1, <1>2, <1>6, <1>7, <1>8, <1>9 DEF InstanceOps

\* An operation ends, and those who poll it hear how.
LEMMA PollersHear ==
  ASSUME Known, NEW o \in ops, NEW result, NotifyPollers(o, result), NEW u \in Workers
  PROVE  /\ work'[u].pc = work[u].pc /\ work'[u].vol = work[u].vol
         /\ work'[u].inst = work[u].inst /\ work'[u].op = work[u].op
         /\ \/ work'[u].result = work[u].result /\ (work[u].op # o \/ work[u].result # "none")
            \/ work'[u].result = result /\ work[u].op = o /\ work[u].result = "none"
<1>1. /\ work[u] \in Request
      /\ work'[u] = IF work[u].op = o /\ work[u].result = "none"
                    THEN [work[u] EXCEPT !.result = result] ELSE work[u]
  BY RequestKnows DEF Known, NotifyPollers
<1>2. CASE work[u].op = o /\ work[u].result = "none"
  BY <1>1, <1>2 DEF Request
<1>3. CASE work[u].op # o \/ work[u].result # "none"
  BY <1>1, <1>3
<1> QED
  BY <1>2, <1>3

LEMMA OpEndLooksAfter ==
  ASSUME Known, LeakInv, FaultsBounded, NEW o \in ops, OpDone(o) \/ OpError(o)
  PROVE  InstancesInv'
<1>1. /\ OpSucceeds(o) \/ OpFails(o)
      /\ pv' = pv /\ snap' = snap /\ ops' = ops \ {o}
  BY DEF OpDone, OpError, opsManagerVars, OpSucceeds, OpFails
<1>2. (faults' = faults /\ OpSucceeds(o)) \/ faults' # 0
  BY FaultCounts DEF OpDone, OpError
<1>3. /\ CloudTypeOK /\ o \in Op /\ o.inst \in Insts /\ Shows(o)
      /\ \/ o.type \in InstanceOps /\ o.vol = NoVol
         \/ o.type \in ShareOps /\ o.vol \in Vols /\ o.vol # NoVol
  BY OpShape DEF Known, ControllerInv, DisciplineInv, OpsShow, CloudTypeOK
<1>4. /\ \A i \in Insts : i # o.inst \/ o.type \notin {"InstanceCreate", "InstanceDelete"}
                            => instance'[i].state = instance[i].state
      /\ o.type = "InstanceCreate" => /\ instance[o.inst].state = "CREATING"
                                      /\ instance'[o.inst].state \in {"READY", "ERROR"}
                                      /\ OpSucceeds(o) => instance'[o.inst].state = "READY"
      /\ o.type = "InstanceDelete" => /\ instance[o.inst].state = "DELETING"
                                      /\ instance'[o.inst].state \in {"READY", "GONE"}
                                      /\ OpSucceeds(o) => instance'[o.inst].state = "GONE"
      /\ \A i \in Insts, v \in Vols : i # o.inst \/ v # o.vol => share'[i][v] = share[i][v]
      /\ o.vol # NoVol => /\ share'[o.inst][o.vol].state \in {"READY", "ABSENT"}
                          /\ share[o.inst][o.vol].state # "ABSENT"
                          /\ \/ share[o.inst][o.vol].state = "READY"
                             \/ o.type = "ShareCreate" /\ OpSucceeds(o)
                             => share'[o.inst][o.vol].state = "READY"
  BY <1>1, <1>3, EndsOnStates
<1>5. ASSUME NEW u \in Workers
      PROVE  /\ work'[u].pc = work[u].pc /\ work'[u].vol = work[u].vol
             /\ work'[u].inst = work[u].inst /\ work'[u].op = work[u].op
             /\ \/ work'[u].result = work[u].result
                \/ work'[u].result = "ok" /\ work[u].op = o /\ OpSucceeds(o)
                \/ work'[u].result = "error" /\ faults' # 0
             /\ work'[u].result = work[u].result \/ work[u].op = o
  BY <1>2, PollersHear, FaultCounts DEF OpDone, OpError
<1>6. \A i \in Insts : Named(i)' <=> Named(i)
  BY <1>1 DEF Named
<1>7. ASSUME NEW i \in Insts, NEW v \in Vols
      PROVE  /\ share[i][v].state = "READY" => share'[i][v].state = "READY"
             /\ v \in SharesOf(i)' => v \in SharesOf(i)
             /\ share'[i][v].state \notin {"READY", "ABSENT"} =>
                  share'[i][v].state = share[i][v].state /\ (i # o.inst \/ v # o.vol)
  BY <1>3, <1>4, FilestoreAssumption DEF SharesOf
<1>8. ASSUME NEW i \in Insts, NEW v \in Vols, Keeps(v, i) PROVE Keeps(v, i)'
  BY <1>1, <1>2, <1>5, <1>7, <1>8 DEF Keeps, Shrinks, Stray
<1>9. ASSUME NEW i \in Insts PROVE LookedAfter(i)'
  <2>1. Dead(i) => Dead(i)'
    BY <1>4 DEF Dead
  <2>2. \A u \in Workers : Creates(work[u], i) => Creates(work[u], i)'
    BY <1>5 DEF Creates, CreatesPcs
  <2>3. \A v \in Vols : Keeps(v, i) => \E x \in Vols : Keeps(x, i)'
    BY <1>8
  <2>4. LookedAfter(i) /\ (Named(i)' => Named(i))
    BY <1>6 DEF LeakInv, InstancesInv
  <2> QED
    BY <1>2, <2>1, <2>2, <2>3, <2>4, LookedAfterStays
<1>10. ASSUME NEW i \in Insts PROVE PlaceOK(i)'
  <2>1. PlaceOK(i)
    BY DEF LeakInv, InstancesInv
  <2>2. /\ instance'[i].state = "UNUSED" => instance[i].state = "UNUSED"
        /\ instance'[i].state = "DELETING" => instance[i].state = "DELETING"
    BY <1>4
  <2>3. ASSUME NEW v \in SharesOf(i)'
        PROVE  /\ pv[v].phase # "wanted" => pv[v].inst = i \/ (faults' # 0 /\ Stray(v, i)')
               /\ share'[i][v].state # "READY" => \E p \in ops' : p.inst = i /\ p.vol = v
    <3>1. v \in Vols /\ v \in SharesOf(i) /\ share'[i][v].state # "ABSENT"
      BY <1>7, <2>3 DEF SharesOf
    <3>2. share'[i][v].state # "READY" => share[i][v].state # "READY" /\ (i # o.inst \/ v # o.vol)
      BY <1>7, <3>1
    <3> QED
      BY <1>1, <1>2, <1>7, <2>1, <3>1, <3>2 DEF PlaceOK, Stray
  <2> QED
    BY <1>1, <1>6, <2>1, <2>2, <2>3 DEF PlaceOK
<1>11. ASSUME NEW u \in Workers PROVE PollOK(work[u])' /\ FreeToCreate(work[u])'
  <2>1. PollOK(work[u]) /\ FreeToCreate(work[u])
    BY DEF LeakInv, InstancesInv
  <2>2. FreeToCreate(work[u])'
    BY <1>1, <1>5, <2>1 DEF FreeToCreate
  <2>3. ASSUME work[u].pc \in CreatesPcs \cup {"create.get", "delete.instanceWait"}
        PROVE  work[u].inst \in Insts /\ work[u].vol \in Vols
    BY <2>3, RequestKnows DEF Known, CreatesPcs
  <2>4. ASSUME work[u].pc \in {"create.wait", "create.shareWait"}, work[u].op.type = "ShareCreate",
               work'[u].result = "ok"
        PROVE  share'[work[u].inst][work[u].vol].state = "READY"
    <3>1. CASE work[u].result = "ok"
      BY <1>7, <2>1, <2>3, <2>4, <3>1 DEF PollOK, SeesInstance, CreatesPcs
    <3>2. CASE work[u].op = o /\ OpSucceeds(o)
      <4>1. o.inst = work[u].inst /\ o.vol = work[u].vol
        BY <2>1, <2>4, <3>2 DEF PollOK, SeesInstance, OpOnShare
      <4> QED
        BY <1>3, <1>4, <2>4, <3>2, <4>1 DEF InstanceOps
    <3> QED
      BY <1>5, <2>4, <3>1, <3>2
  <2>5. ASSUME \/ work[u].pc \in {"create.relock", "create.share"}
               \/ /\ work[u].pc = "create.wait"
                  /\ \/ work[u].op.type = "InstanceUpdate"
                     \/ work[u].op.type = "InstanceCreate" /\ work'[u].result = "ok"
        PROVE  instance'[work[u].inst].state \notin {"UNUSED", "CREATING"}
    <3>1. CASE \/ work[u].pc \in {"create.relock", "create.share"}
               \/ /\ work[u].pc = "create.wait"
                  /\ \/ work[u].op.type = "InstanceUpdate"
                     \/ work[u].op.type = "InstanceCreate" /\ work[u].result = "ok"
      <4>1. instance[work[u].inst].state \notin {"UNUSED", "CREATING"}
        BY <2>1, <3>1 DEF PollOK, SeesInstance
      <4>2. work[u].inst \in Insts
        BY <2>3, <3>1 DEF CreatesPcs
      <4> QED
        BY <1>4, <4>1, <4>2
    <3>2. CASE /\ work[u].pc = "create.wait" /\ work[u].op.type = "InstanceCreate"
               /\ work[u].op = o /\ OpSucceeds(o)
      BY <1>3, <1>4, <2>1, <3>2 DEF PollOK, SeesInstance, OpOnShare
    <3> QED
      BY <1>5, <2>5, <3>1, <3>2
  <2>6. ASSUME work[u].pc = "delete.instanceWait", work[u].op.type = "InstanceDelete",
               work'[u].result = "ok"
        PROVE  instance'[work[u].inst].state = "GONE"
    <3>1. CASE work[u].result = "ok"
      BY <1>4, <2>1, <2>3, <2>6, <3>1 DEF PollOK, SeesInstance
    <3>2. CASE work[u].op = o /\ OpSucceeds(o)
      BY <1>3, <1>4, <2>1, <2>6, <3>2 DEF PollOK, SeesInstance
    <3> QED
      BY <1>5, <2>6, <3>1, <3>2
  <2>7. work[u].pc = "create.get" => share'[work[u].inst][work[u].vol].state = "READY"
    BY <1>7, <2>1, <2>3 DEF PollOK
  <2>8. PollOK(work[u])'
    BY <1>5, <2>1, <2>4, <2>5, <2>6, <2>7 DEF PollOK, SeesInstance
  <2> QED
    BY <2>2, <2>8
<1>12. ASSUME faults' = 0 PROVE FaultlessOK'
  <2>0. FaultlessOK
    BY <1>2, <1>12 DEF LeakInv, InstancesInv
  <2>1. \A i \in Insts : instance'[i].state # "REPAIRING"
    BY <1>4, <2>0 DEF FaultlessOK, Polls
  <2>2. \A u \in Workers : work'[u].result # "error"
    BY <1>5, <1>12, <2>0 DEF FaultlessOK, Polls
  <2>3. ASSUME NEW p \in ops', p.vol = NoVol, ~Named(p.inst)'
        PROVE  \E u \in Workers : Polls(work'[u], p)
    <3>1. p \in ops /\ p # o /\ ~Named(p.inst)
      BY <1>1, <2>3 DEF Named
    <3>2. PICK u \in Workers : Polls(work[u], p)
      BY <2>0, <2>3, <3>1 DEF FaultlessOK, Polls
    <3> QED
      BY <1>5, <3>1, <3>2 DEF Polls
  <2>4. ASSUME NEW u \in Workers, work'[u].pc = "create.share", NEW p \in snap', p.vol = NoVol,
               ~Named(p.inst)'
        PROVE  \E x \in Workers \ {u} : Prepares(work[x], p.inst)'
    <3>1. work[u].pc = "create.share" /\ p \in snap /\ ~Named(p.inst)
      BY <1>1, <1>5, <2>4 DEF Named
    <3>2. PICK x \in Workers \ {u} : Prepares(work[x], p.inst)
      BY <2>0, <2>4, <3>1 DEF FaultlessOK, Polls
    <3>3. Prepares(work[x], p.inst)'
      BY <1>5, <3>2 DEF Prepares
    <3> QED
      BY <3>3
  <2> QED
    BY <2>1, <2>2, <2>3, <2>4 DEF FaultlessOK, Polls
<1> QED
  BY <1>9, <1>10, <1>11, <1>12 DEF LeakInv, InstancesInv

\* Filestore repairs an instance, or the orchestrator gives a volume up.
LEMMA RepairLooksAfter ==
  ASSUME Known, LeakInv, FaultsBounded, NEW j \in Insts, InstanceRepair(j) \/ InstanceRepaired(j)
  PROVE  InstancesInv'
<1>1. share' = share /\ ops' = ops /\ pv' = pv /\ work' = work /\ snap' = snap
  BY DEF InstanceRepair, InstanceRepaired, RepairStarts, RepairEnds, opsManagerVars
<1>2. /\ \A i \in Insts : i # j => instance'[i].state = instance[i].state
      /\ instance[j].state \in {"READY", "REPAIRING"} /\ instance'[j].state \in {"READY", "REPAIRING"}
      /\ InstanceRepaired(j) => instance'[j].state = "READY"
  <2>1. instance \in [Insts -> InstanceRec]
    BY DEF Known, ControllerInv, DisciplineInv, CloudTypeOK
  <2>2. CASE InstanceRepair(j)
    BY <2>1, <2>2 DEF InstanceRepair, RepairStarts, InstanceRepaired, RepairEnds, InstanceRec
  <2>3. CASE InstanceRepaired(j)
    BY <2>1, <2>3 DEF InstanceRepaired, RepairEnds, InstanceRec
  <2> QED
    BY <2>2, <2>3
<1>3. (faults' = faults /\ InstanceRepaired(j)) \/ faults' # 0
  BY FaultCounts DEF InstanceRepair, InstanceRepaired
<1>4. \A i \in Insts : (Named(i)' <=> Named(i)) /\ (Dead(i)' <=> Dead(i))
  BY <1>1, <1>2 DEF Named, Dead
<1>5. \A i \in Insts, v \in Vols : Keeps(v, i) => Keeps(v, i)'
  BY <1>1, <1>3 DEF Keeps, Stray
<1>6. ASSUME NEW i \in Insts PROVE LookedAfter(i)'
  <2>1. \A u \in Workers : Creates(work[u], i) => Creates(work[u], i)'
    BY <1>1 DEF Creates, CreatesPcs
  <2> QED
    BY <1>3, <1>4, <1>5, <2>1, LookedAfterStays DEF LeakInv, InstancesInv
<1>7. ASSUME NEW i \in Insts PROVE PlaceOK(i)'
  BY <1>1, <1>2, <1>3, <1>4 DEF LeakInv, InstancesInv, PlaceOK, SharesOf, Stray
<1>8. ASSUME NEW u \in Workers PROVE PollOK(work[u])' /\ FreeToCreate(work[u])'
  <2>1. PollOK(work[u]) /\ FreeToCreate(work[u])
    BY DEF LeakInv, InstancesInv
  <2>2. work[u].pc \notin {"idle", "create.lock", "create.setup"} => work[u].inst \in Insts
    BY RequestKnows DEF Known
  <2>3. /\ SeesInstance(work[u]) => instance'[work[u].inst].state \notin {"UNUSED", "CREATING"}
        /\ work[u].pc = "delete.instanceWait" /\ instance[work[u].inst].state = "GONE"
             => instance'[work[u].inst].state = "GONE"
    BY <1>2, <2>1, <2>2 DEF PollOK, SeesInstance
  <2> QED
    BY <1>1, <2>1, <2>3 DEF PollOK, SeesInstance, FreeToCreate
<1>9. ASSUME faults' = 0 PROVE FaultlessOK'
  <2>1. FaultlessOK
    BY <1>3, <1>9 DEF LeakInv, InstancesInv
  <2>2. \A i \in Insts : instance'[i].state # "REPAIRING"
    BY <1>2, <1>3, <1>9, <2>1 DEF FaultlessOK, Polls
  <2>3. \A i : Named(i)' <=> Named(i)
    BY <1>1 DEF Named
  <2> QED
    BY <1>1, <2>1, <2>2, <2>3 DEF FaultlessOK, Polls, Prepares
<1> QED
  BY <1>6, <1>7, <1>8, <1>9 DEF LeakInv, InstancesInv

LEMMA ReleaseLooksAfter ==
  ASSUME Known, LeakInv, NEW v \in Vols, ReleasePV(v)
  PROVE  InstancesInv'
<1>1. /\ instance' = instance /\ share' = share /\ ops' = ops /\ work' = work /\ snap' = snap
      /\ faults' = faults /\ pv \in [Vols -> PVRec] /\ pv' = [pv EXCEPT ![v].phase = "released"]
      /\ pv[v].phase = "bound"
  BY DEF ReleasePV, cloudVars, opsManagerVars, Known, ControllerInv, DriverInv, DriverTypeOK
<1>2. /\ \A x \in Vols : /\ pv'[x].inst = pv[x].inst
                          /\ pv'[x].phase = "wanted" <=> pv[x].phase = "wanted"
      /\ \A x \in Vols : x # v => pv'[x].phase = pv[x].phase
      /\ pv'[v].phase = "released"
  BY <1>1 DEF PVRec
<1>3. \A i : (Named(i)' <=> Named(i)) /\ (Dead(i)' <=> Dead(i))
  BY <1>1, <1>2 DEF Named, Dead
<1>4. ASSUME NEW u \in Workers, Shrinks(work[u]) PROVE work[u].vol # v
  BY <1>1, <1>4 DEF Shrinks, Known, VolumesInv, WorkOK, DeletePcs
<1>5. ASSUME NEW i \in Insts, NEW x \in Vols, Keeps(x, i) PROVE Keeps(x, i)'
  <2>1. CASE x = v
    BY <1>1, <1>2, <1>4, <1>5, <2>1 DEF Keeps, Shrinks, Stray
  <2>2. CASE x # v
    BY <1>1, <1>2, <1>5, <2>2 DEF Keeps, Shrinks, Stray
  <2> QED
    BY <2>1, <2>2
<1>6. ASSUME NEW i \in Insts PROVE LookedAfter(i)' /\ PlaceOK(i)'
  <2>1. \A u \in Workers : Creates(work[u], i) => Creates(work[u], i)'
    BY <1>1 DEF Creates, CreatesPcs
  <2>2. LookedAfter(i)'
    BY <1>1, <1>3, <1>5, <2>1, LookedAfterStays DEF LeakInv, InstancesInv
  <2> QED
    BY <1>1, <1>2, <1>3, <2>2 DEF LeakInv, InstancesInv, PlaceOK, SharesOf, Stray
<1>7. \A u \in Workers : PollOK(work[u])' /\ FreeToCreate(work[u])'
  BY <1>1 DEF LeakInv, InstancesInv, PollOK, SeesInstance, FreeToCreate
<1>8. faults = 0 => FaultlessOK'
  BY <1>1, <1>3 DEF LeakInv, InstancesInv, FaultlessOK, Polls, Prepares
<1> QED
  BY <1>1, <1>6, <1>7, <1>8 DEF LeakInv, InstancesInv

LEMMA StutterLooksAfter ==
  ASSUME LeakInv, UNCHANGED vars
  PROVE  InstancesInv'
<1>1. /\ instance' = instance /\ share' = share /\ ops' = ops /\ work' = work /\ snap' = snap
      /\ faults' = faults /\ pv' = pv
  BY DEF vars, cloudVars, opsManagerVars
<1>2. \A i : (PlaceOK(i)' <=> PlaceOK(i)) /\ (LookedAfter(i)' <=> LookedAfter(i))
  BY <1>1 DEF PlaceOK, LookedAfter, Dead, Keeps, Named, Creates, CreatesPcs, SharesOf,
              Shrinks, Stray
<1>3. \A r : (PollOK(r)' <=> PollOK(r)) /\ (FreeToCreate(r)' <=> FreeToCreate(r))
  BY <1>1 DEF PollOK, SeesInstance, FreeToCreate
<1>4. FaultlessOK' <=> FaultlessOK
  BY <1>1 DEF FaultlessOK, Polls, Named, Prepares
<1> QED
  BY <1>1, <1>2, <1>3, <1>4 DEF LeakInv, InstancesInv

\* A handler fails, or the driver restarts.
LEMMA FailureLooksAfter ==
  ASSUME Known, LeakInv, FaultsBounded,
         \/ DriverRestarts
         \/ \E w \in Workers : HandlerFails(w)
  PROVE  InstancesInv'
<1>1. CASE DriverRestarts
  <2>1. /\ faults' # 0 /\ UNCHANGED <<cloudVars, pv>> /\ \A u \in Workers : work'[u] = Idle
        /\ Idle.pc = "idle"
    BY <1>1, FaultCounts DEF DriverRestarts, Idle
  <2> QED
    BY <2>1, FaultLooksAfter
<1>2. ASSUME NEW w \in Workers, HandlerFails(w) PROVE InstancesInv'
  <2>1. /\ faults' # 0 /\ UNCHANGED <<cloudVars, pv>> /\ work' = [work EXCEPT ![w] = Idle]
        /\ UNCHANGED opsManagerVars \/ mutex = w
    BY <1>2, FaultCounts DEF HandlerFails, Return
  <2>2. work'[w] = Idle /\ Idle.pc = "idle" /\ \A u \in Workers : u # w => work'[u] = work[u]
    BY <2>1, RequestKnows DEF Known, Idle
  <2>3. \A u \in Workers : u # w /\ work[u].pc = "create.share" => snap' = snap
    BY <2>1 DEF Known, ControllerInv, DriverInv, MutexOK, Critical, opsManagerVars
  <2> QED
    BY <2>1, <2>2, <2>3, FaultLooksAfter
<1> QED
  BY <1>1, <1>2

\* A request is answered with success, and the answer may be lost.
LEMMA SuccessLooksAfter ==
  ASSUME Known, LeakInv, FaultsBounded, NEW w \in Workers, NEW v, NEW newPV, v = work[w].vol,
         ReturnSuccess(w, newPV),
         work[w].pc \notin {"idle"} \cup CreatesPcs,
         \/ newPV.phase = pv[v].phase /\ newPV.inst = pv[v].inst
         \/ /\ pv[v].phase = "wanted" /\ newPV.phase = "bound"
            /\ work[w].pc = "create.get" /\ newPV.inst = work[w].inst
         \/ /\ pv[v].phase = "released" /\ newPV.phase = "deleted" /\ newPV.inst = pv[v].inst
            /\ Shrinks(work[w]) \/ Dead(newPV.inst) \/ \E x \in Vols \ {v} : Keeps(x, newPV.inst)
  PROVE  InstancesInv'
<1>1. /\ Return(w) /\ UNCHANGED cloudVars
      /\ (pv' = [pv EXCEPT ![v] = newPV] /\ UNCHANGED faults) \/ (Fault /\ UNCHANGED pv)
  BY DEF ReturnSuccess
<1>2. CASE pv' = [pv EXCEPT ![v] = newPV] /\ UNCHANGED faults
  BY <1>1, <1>2, AnswerLooksAfter
<1>3. CASE Fault /\ UNCHANGED pv
  <2>1. /\ faults' # 0 /\ work' = [work EXCEPT ![w] = Idle]
        /\ UNCHANGED opsManagerVars \/ mutex = w
    BY <1>1, <1>3, FaultCounts DEF Return
  <2>2. work'[w] = Idle /\ Idle.pc = "idle" /\ \A u \in Workers : u # w => work'[u] = work[u]
    BY <2>1, RequestKnows DEF Known, Idle
  <2>3. \A u \in Workers : u # w /\ work[u].pc = "create.share" => snap' = snap
    BY <2>1 DEF Known, ControllerInv, DriverInv, MutexOK, Critical, opsManagerVars
  <2> QED
    BY <1>1, <1>3, <2>1, <2>2, <2>3, FaultLooksAfter
<1> QED
  BY <1>1, <1>2, <1>3

\* If nothing new runs, what was to be started was refused.
LEMMA RefusedOnly ==
  ASSUME Known, NEW w \in Workers, work[w].pc \in Critical, NEW o \in Op, NEW to,
         StartOrRefuse(w, o, to), ops' \subseteq ops
  PROVE  ReturnError(w) /\ ~(NoConflict(o) /\ Accepts(o))
<1>1. ops \subseteq snap
  BY CriticalKnows DEF Known, ControllerInv
<1>2. ASSUME StartWorkflow(w, o, to) PROVE FALSE
  <2>1. NoConflict(o) /\ o \in ops
    BY <1>2 DEF StartWorkflow, StartOp
  <2> QED
    BY <1>1, <2>1, OpShape DEF NoConflict, InstanceBusy, ShareBusy
<1> QED
  BY <1>2 DEF StartOrRefuse, Refused

\* Without a fault, a volume that has yet to get its share has none.
LEMMA NoShareYet ==
  ASSUME Known, LeakInv, NEW w \in Workers, work[w].pc = "create.share", faults = 0
  PROVE  SharesNamed(work[w].vol) = {}
<1> DEFINE v == work[w].vol
<1>1. v \in Vols /\ pv[v].phase = "wanted"
  BY RequestKnows DEF Known, VolumesInv, WorkOK, CreatePcs
<1>2. ASSUME NEW u \in Workers, HasShare(work[u]) PROVE work[u].vol # v
  <2>1. u # w /\ work[u].pc # "idle"
    BY <1>2 DEF HasShare
  <2>2. work[u].pc \in Pcs /\ work[w].pc \in Pcs
    BY RequestKnows DEF Known, Request
  <2> QED
    BY <2>1, <2>2, AloneOnVolume DEF Known
<1>3. ~Accounted(v)
  BY <1>1, <1>2 DEF Accounted
<1>4. IsFiniteSet(SharesNamed(v)) /\ Cardinality(SharesNamed(v)) <= 0
  BY <1>1, <1>3 DEF LeakInv, CountInv, CountOK
<1> QED
  BY <1>4, FS_EmptySet, FS_CardinalityType

\* A creation is refused its share only where it leaves no instance behind.
LEMMA RefusedShare ==
  ASSUME Known, LeakInv, NEW w \in Workers, work[w].pc = "create.share", faults = 0,
         LET o == OpOnShare("ShareCreate", work[w].inst, work[w].vol, ShareSize[work[w].vol])
         IN  ~(NoConflict(o) /\ Accepts(o))
  PROVE  LET i == work[w].inst
         IN  Dead(i) \/ Named(i) \/ \E u \in Workers \ {w} : Creates(work[u], i)
<1> DEFINE i == work[w].inst
           v == work[w].vol
           o == OpOnShare("ShareCreate", i, v, ShareSize[v])
<1>1. i \in Insts /\ v \in Vols /\ work[w] \in Request
  BY RequestKnows DEF Known
<1>2. /\ o.type = "ShareCreate" /\ o.inst = i /\ o.vol = v
      /\ v # NoVol
  BY <1>1, FilestoreAssumption DEF OpOnShare
<1>3. FaultlessOK /\ PollOK(work[w]) /\ FreeToCreate(work[w]) /\ PlaceOK(i)
  BY <1>1 DEF LeakInv, InstancesInv
<1>4. CASE ~NoConflict(o)
  <2>1. PICK p \in snap : p.inst = i /\ p.vol \in {NoVol, v}
    BY <1>2, <1>4 DEF NoConflict, ShareBusy
  <2>2. p.vol = NoVol
    BY <1>3, <2>1 DEF FreeToCreate
  <2>3. Named(i) \/ \E u \in Workers \ {w} : Prepares(work[u], i)
    BY <1>3, <2>1, <2>2 DEF FaultlessOK, Polls
  <2> QED
    BY <2>3 DEF Prepares, Creates, CreatesPcs
<1>5. CASE ~Accepts(o)
  <2>1. share[i][v].state = "ABSENT"
    BY <1>1, NoShareYet DEF SharesNamed, SharesOf
  <2>2. instance[i].state # "READY"
    BY <1>2, <1>5, <2>1 DEF Accepts
  <2>3. instance[i].state \in InstanceStates
    BY <1>1 DEF Known, ControllerInv, DisciplineInv, CloudTypeOK, InstanceRec
  <2>4. instance[i].state \notin {"UNUSED", "CREATING", "REPAIRING"}
    BY <1>1, <1>3 DEF PollOK, SeesInstance, FaultlessOK, Polls
  <2> QED
    BY <1>3, <2>2, <2>3, <2>4 DEF InstanceStates, PlaceOK, Dead
<1> QED
  BY <1>4, <1>5

LEMMA CreateLooksAfter ==
  ASSUME Known, LeakInv, FaultsBounded, ops' \subseteq ops, NEW w \in Workers, CreateStep(w)
  PROVE  InstancesInv'
<1> DEFINE r == work[w]
<1>1. /\ CloudTypeOK /\ r \in Request /\ PollOK(r)
      /\ r.pc \in CreatePcs => r.vol \in Vols /\ pv[r.vol].phase = "wanted"
      /\ r.pc \in CreatePcs \ {"create.lock", "create.setup"} => r.inst \in Insts
  BY RequestKnows DEF Known, ControllerInv, DisciplineInv, LeakInv, InstancesInv, VolumesInv, WorkOK,
                      CreatePcs
<1>2. ASSUME r.pc = "create.setup", ReturnError(w) PROVE InstancesInv'
  BY <1>2, ErrorLooksAfter DEF Creates, CreatesPcs
<1>3. ASSUME r.pc \in {"create.wait", "create.shareWait"}, r.result = "ok", r.op.type = "ShareCreate",
             NEW i \in Insts, Creates(r, i)
      PROVE  \E v \in Vols : Keeps(v, i)
  <2>1. i = r.inst /\ r.vol \in Vols /\ share[r.inst][r.vol].state = "READY"
    BY <1>1, <1>3 DEF Creates, CreatesPcs, PollOK, CreatePcs
  <2> QED
    BY <2>1, ReadyShareKeeps
<1>4. CASE CreateLock(w)
  BY <1>4, LockLooksAfter DEF CreateLock, Critical
<1>5. CASE CreateSetup(w)
  <2>1. r.pc = "create.setup" /\ r.pc \in Critical /\ r.vol \in Vols
    BY <1>1, <1>5 DEF CreateSetup, Critical, CreatePcs
  <2>2. CASE ReturnError(w)
    BY <1>2, <2>1, <2>2
  <2>3. ExistingShare(r.vol) = {}
    BY <2>1, NoShareRecognised
  <2>4. ASSUME NEW o \in Placements(r.vol), StartOrRefuse(w, o, "create.wait") PROVE InstancesInv'
    <3>1. o \in Op
      BY <1>1, <2>1, <2>4, PlacementsType
    <3> QED
      BY <1>2, <2>1, <2>4, <3>1, RefusedOnly
  <2> QED
    BY <1>5, <2>2, <2>3, <2>4 DEF CreateSetup
<1>6. CASE CreateWait(w)
  <2>1. /\ r.pc = "create.wait" /\ r.result = "ok" /\ r.inst \in Insts
        /\ r.op.type = "ShareCreate" => share[r.inst][r.vol].state = "READY"
    BY <1>1, <1>6 DEF CreateWait, PollDone, CreatePcs, PollOK
  <2>2. CASE r.op.type = "ShareCreate" /\ Goto(w, "create.get")
    BY <1>3, <2>1, <2>2, GotoLooksAfter DEF Prepares, InstanceOps
  <2>3. CASE r.op.type # "ShareCreate" /\ Goto(w, "create.relock")
    <3>1. SeesInstance(r)
      BY <1>1, <2>1, <2>3 DEF PollOK, SeesInstance, OpOnShare
    <3>2. instance[r.inst].state \notin {"UNUSED", "CREATING"}
      BY <1>1, <3>1 DEF PollOK
    <3> QED
      BY <2>1, <2>3, <3>2, GotoLooksAfter
  <2> QED
    BY <1>6, <2>2, <2>3 DEF CreateWait, PollDone
<1>7. CASE CreateRelock(w)
  BY <1>7, LockLooksAfter DEF CreateRelock, Critical
<1>8. CASE CreateShare(w)
  <2> DEFINE o == OpOnShare("ShareCreate", r.inst, r.vol, ShareSize[r.vol])
  <2>1. r.pc = "create.share" /\ r.pc \in Critical /\ r.vol \in Vols /\ r.inst \in Insts
    BY <1>1, <1>8 DEF CreateShare, Critical, CreatePcs
  <2>2. o \in Op
    BY <2>1, OpOnShareType, OpsManagerAssumption DEF ShareOps
  <2> HIDE DEF o
  <2>3. ReturnError(w) /\ ~(NoConflict(o) /\ Accepts(o))
    BY <1>8, <2>1, <2>2, RefusedOnly DEF CreateShare, o
  <2>4. faults = 0 => \/ Dead(r.inst) \/ Named(r.inst)
                      \/ \E u \in Workers \ {w} : Creates(work[u], r.inst)
    BY <2>1, <2>3, RefusedShare DEF o
  <2>5. \A i \in Insts : Creates(r, i) => i = r.inst
    BY DEF Creates, CreatesPcs
  <2> QED
    BY <2>1, <2>3, <2>4, <2>5, ErrorLooksAfter
<1>9. CASE CreateShareWait(w)
  <2>1. /\ r.pc = "create.shareWait" /\ r.result = "ok" /\ r.op.type = "ShareCreate"
        /\ Goto(w, "create.get") /\ share[r.inst][r.vol].state = "READY"
    BY <1>1, <1>9 DEF CreateShareWait, PollDone, PollOK, OpOnShare
  <2> QED
    BY <1>3, <2>1, GotoLooksAfter DEF Prepares
<1>10. CASE CreateGetShare(w)
  <2> DEFINE newPV == [phase |-> "bound", inst |-> r.inst, cap |-> ShareSize[r.vol]]
  <2>1. r.pc = "create.get" /\ r.inst \in Insts /\ pv[r.vol].phase = "wanted"
    BY <1>1, <1>10 DEF CreateGetShare, CreatePcs
  <2>2. CASE ReturnError(w)
    BY <2>1, <2>2, ErrorLooksAfter DEF Creates, CreatesPcs
  <2>3. CASE ReturnSuccess(w, newPV)
    BY <2>1, <2>3, SuccessLooksAfter DEF CreatesPcs
  <2> QED
    BY <1>10, <2>2, <2>3 DEF CreateGetShare
<1> QED
  BY <1>4, <1>5, <1>6, <1>7, <1>8, <1>9, <1>10 DEF CreateStep

\* A deletion is answered once its instance is another volume's or given up.
LEMMA DeletedLooksAfter ==
  ASSUME Known, LeakInv, FaultsBounded, NEW w \in Workers, DeleteSucceeds(w),
         work[w].pc \in {"delete.instance", "delete.instanceWait"},
         \/ Shrinks(work[w]) \/ Dead(work[w].inst)
         \/ \E x \in Vols \ {work[w].vol} : Keeps(x, work[w].inst)
  PROVE  InstancesInv'
<1> DEFINE r == work[w]
           newPV == [pv[r.vol] EXCEPT !.phase = "deleted"]
<1>1. /\ pv[r.vol] \in PVRec /\ pv[r.vol].phase = "released" /\ pv[r.vol].inst = r.inst
      /\ ReturnSuccess(w, newPV)
  BY RequestKnows DEF Known, VolumesInv, WorkOK, DeletePcs, ControllerInv, DriverInv, DriverTypeOK,
                      DeleteSucceeds
<1>2. newPV.phase = "deleted" /\ newPV.inst = pv[r.vol].inst
  BY <1>1 DEF PVRec
<1> HIDE DEF newPV
<1> QED
  BY <1>1, <1>2, SuccessLooksAfter DEF CreatesPcs

LEMMA DeleteLooksAfter ==
  ASSUME Known, LeakInv, FaultsBounded, ops' \subseteq ops, NEW w \in Workers, DeleteStep(w)
  PROVE  InstancesInv'
<1> DEFINE r == work[w]
<1>1. /\ CloudTypeOK /\ r \in Request /\ PollOK(r)
      /\ r.pc \in DeletePcs => r.vol \in Vols /\ r.inst \in Insts
  BY RequestKnows DEF Known, ControllerInv, DisciplineInv, LeakInv, InstancesInv, DeletePcs
<1>2. ASSUME r.pc \in DeletePcs, ReturnError(w) PROVE InstancesInv'
  BY <1>2, ErrorLooksAfter DEF Creates, CreatesPcs, DeletePcs
<1>3. ASSUME NEW pc, Goto(w, pc), r.pc \in DeletePcs, pc \in {"delete.lock", "delete.relock"}
      PROVE  InstancesInv'
  <2>1. /\ r.pc # "create.wait" /\ pc # "create.get" /\ pc # "create.relock"
        /\ pc \notin {"create.wait", "create.share", "create.shareWait", "delete.instanceWait"}
    BY <1>3 DEF DeletePcs
  <2>2. \A i \in Insts : ~Prepares(r, i) /\ ~Creates(r, i)
    BY <1>3 DEF Creates, CreatesPcs, Prepares, DeletePcs
  <2> QED
    BY <1>3, <2>1, <2>2, GotoLooksAfter
<1>4. CASE DeleteGetShare(w)
  BY <1>3, <1>4 DEF DeleteGetShare, DeletePcs
<1>5. CASE DeleteLock(w) \/ DeleteRelock(w)
  <2>1. CASE DeleteLock(w)
    <3>1. /\ LockAndListOps(w, "delete.lock", "delete.share", OpsOnShare("ShareDelete", r.inst, r.vol))
          /\ "delete.share" \in Critical
      BY <2>1 DEF DeleteLock, Critical
    <3> QED
      BY <3>1, LockLooksAfter
  <2>2. CASE DeleteRelock(w)
    BY <2>2, LockLooksAfter DEF DeleteRelock, Critical
  <2> QED
    BY <1>5, <2>1, <2>2
<1>6. CASE DeleteShare(w)
  <2> DEFINE o == OpOnShare("ShareDelete", r.inst, r.vol, 0)
  <2>1. r.pc = "delete.share" /\ r.pc \in Critical /\ o \in Op
    BY <1>1, <1>6, OpOnShareType DEF DeleteShare, DeletePcs, Critical, ShareOps
  <2>2. CASE UnlockAndWait(w, "delete.wait")
    <3> DEFINE q == [r EXCEPT !.pc = "delete.wait"]
    <3>1. work' = [work EXCEPT ![w] = q] /\ q.pc = "delete.wait" /\ q.result = r.result
      BY <1>1, <2>2 DEF UnlockAndWait, Request
    <3> HIDE DEF q
    <3> QED
      BY <2>1, <2>2, <3>1, UnlockLooksAfter DEF UnlockAndWait
  <2>3. CASE StartOrRefuse(w, o, "delete.wait")
    BY <1>2, <2>1, <2>3, RefusedOnly DEF DeletePcs
  <2> QED
    BY <1>6, <2>2, <2>3 DEF DeleteShare
<1>7. CASE DeleteWait(w)
  BY <1>3, <1>7 DEF DeleteWait, PollDone, DeletePcs
<1>8. CASE DeleteOrShrinkInstance(w)
  <2> DEFINE o == OpOnInstance("InstanceDelete", r.inst, 0)
             p == OpOnInstance("InstanceUpdate", r.inst, ShrinkTarget(r.inst))
  <2>1. r.pc = "delete.instance" /\ r.pc \in Critical /\ r.pc \in DeletePcs /\ r.inst \in Insts
    BY <1>1, <1>8 DEF DeleteOrShrinkInstance, DeletePcs, Critical
  <2>2. o \in Op /\ p \in Op
    BY <1>1, <2>1, SizesType, OpOnInstanceType DEF InstanceOps
  <2>3. CASE ReturnError(w)
    BY <1>2, <2>1, <2>3
  <2>4. CASE ~Listed(r.inst) /\ DeleteSucceeds(w)
    <3>1. Dead(r.inst)
      BY <2>4 DEF Listed, Dead
    <3> QED
      BY <2>1, <2>4, <3>1, DeletedLooksAfter
  <2>5. CASE ~InstanceBusy(r.inst) /\ ~Empty(r.inst) /\ DeleteSucceeds(w)
    BY <2>1, <2>5, OtherKeeps, DeletedLooksAfter
  <2>6. CASE StartOrRefuse(w, o, "delete.instanceWait") \/ StartOrRefuse(w, p, "delete.instanceWait")
    BY <1>2, <2>1, <2>2, <2>6, RefusedOnly
  <2> QED
    BY <1>8, <2>3, <2>4, <2>5, <2>6 DEF DeleteOrShrinkInstance
<1>9. CASE DeleteInstanceWait(w)
  <2>1. r.pc = "delete.instanceWait" /\ r.result = "ok" /\ DeleteSucceeds(w)
    BY <1>9 DEF DeleteInstanceWait
  <2>2. Shrinks(r) \/ Dead(r.inst)
    BY <1>1, <2>1 DEF PollOK, Shrinks, Dead
  <2> QED
    BY <2>1, <2>2, DeletedLooksAfter
<1> QED
  BY <1>4, <1>5, <1>6, <1>7, <1>8, <1>9 DEF DeleteStep

LEMMA ExpandLooksAfter ==
  ASSUME Known, LeakInv, FaultsBounded, ops' \subseteq ops, NEW w \in Workers, ExpandStep(w)
  PROVE  InstancesInv'
<1> DEFINE r == work[w]
<1>1. /\ CloudTypeOK /\ r \in Request
      /\ r.pc \in ExpandPcs => r.vol \in Vols /\ r.inst \in Insts /\ ExpandSize[r.vol] \in Nat
      /\ r.pc \in {"expand.lock", "expand.check"} => r.shareCap < ExpandSize[r.vol]
  BY RequestKnows, ControllerAssumption
     DEF Known, ControllerInv, DisciplineInv, ExpandPcs, DriverInv, RequestOK
<1>2. ASSUME r.pc \in ExpandPcs, ReturnError(w) PROVE InstancesInv'
  BY <1>2, ErrorLooksAfter DEF Creates, CreatesPcs, ExpandPcs
<1>3. ASSUME NEW pc, Goto(w, pc), r.pc \in ExpandPcs, pc \in {"expand.relock", "expand.verify"}
      PROVE  InstancesInv'
  BY <1>3, GotoLooksAfter DEF Creates, CreatesPcs, Prepares, ExpandPcs
<1>4. ASSUME r.pc \in {"expand.get", "expand.verify"}, ExpandSucceeds(w) PROVE InstancesInv'
  <2> DEFINE newPV == [pv[r.vol] EXCEPT !.cap = Larger(@, ExpandSize[r.vol])]
  <2>1. pv[r.vol] \in PVRec /\ ReturnSuccess(w, newPV)
    BY <1>1, <1>4 DEF Known, ControllerInv, DriverInv, DriverTypeOK, ExpandSucceeds, ExpandPcs
  <2>2. newPV.phase = pv[r.vol].phase /\ newPV.inst = pv[r.vol].inst
    BY <2>1 DEF PVRec
  <2> HIDE DEF newPV
  <2> QED
    BY <1>4, <2>1, <2>2, SuccessLooksAfter DEF CreatesPcs
<1>5. ASSUME NEW o \in Op, NEW to, StartOrRefuse(w, o, to), r.pc \in {"expand.check", "expand.share"}
      PROVE  InstancesInv'
  BY <1>2, <1>5, RefusedOnly DEF ExpandPcs, Critical
<1>6. CASE ExpandGetShare(w)
  <2> DEFINE q == [r EXCEPT !.pc = "expand.lock", !.shareCap = share[r.inst][r.vol].cap,
                            !.parentCap = instance[r.inst].cap]
  <2>1. r.pc = "expand.get"
    BY <1>6 DEF ExpandGetShare
  <2>2. CASE ReturnError(w) \/ ExpandSucceeds(w)
    BY <1>2, <1>4, <2>1, <2>2 DEF ExpandPcs
  <2>3. CASE work' = [work EXCEPT ![w] = q] /\ UNCHANGED <<cloudVars, opsManagerVars, pv, faults>>
    <3>1. q.pc = "expand.lock" /\ q.result = r.result
      BY <1>1 DEF Request
    <3> HIDE DEF q
    <3>2. PollOK(q) /\ \A i : ~Prepares(r, i) /\ ~Creates(r, i)
      BY <2>1, <3>1 DEF PollOK, SeesInstance, Prepares, Creates, CreatesPcs
    <3> QED
      BY <2>1, <2>3, <3>1, <3>2, MoveLooksAfter
  <2>4. \/ ReturnError(w) \/ ExpandSucceeds(w)
        \/ work' = [work EXCEPT ![w] = q] /\ UNCHANGED <<cloudVars, opsManagerVars, pv, faults>>
    BY <1>1, <1>6, RequestKnows DEF Known, ExpandGetShare
  <2> QED
    BY <2>2, <2>3, <2>4
<1>7. CASE ExpandLock(w) \/ ExpandRelock(w)
  <2>1. CASE ExpandLock(w)
    <3>1. /\ LockAndListOps(w, "expand.lock", "expand.check", OpsOnShare("ShareUpdate", r.inst, r.vol))
          /\ "expand.check" \in Critical
      BY <2>1 DEF ExpandLock, Critical
    <3> QED
      BY <3>1, LockLooksAfter
  <2>2. CASE ExpandRelock(w)
    BY <2>2, LockLooksAfter DEF ExpandRelock, Critical
  <2> QED
    BY <1>7, <2>1, <2>2
<1>8. CASE ExpandCheck(w)
  <2> DEFINE needed == ExpandSize[r.vol] - r.shareCap
             o == IF InstanceNeedsExpand(r.inst, r.parentCap, needed)
                  THEN OpOnInstance("InstanceUpdate", r.inst, ExpandTarget(r.inst, needed))
                  ELSE ExpandOp(r)
  <2>1. r.pc = "expand.check" /\ r.inst \in Insts /\ r.vol \in Vols /\ needed \in Nat
    BY <1>1, <1>8 DEF ExpandCheck, ExpandPcs, Request
  <2>2. o \in Op
    BY <1>1, <2>1, SizesType, OpOnInstanceType, OpOnShareType, ControllerAssumption
       DEF ExpandOp, InstanceOps, ShareOps
  <2>3. \/ UnlockAndWait(w, "expand.wait")
        \/ ReturnError(w)
        \/ StartOrRefuse(w, o, "expand.wait")
    BY <1>8 DEF ExpandCheck
  <2> HIDE DEF o
  <2>4. CASE UnlockAndWait(w, "expand.wait")
    <3> DEFINE q == [r EXCEPT !.pc = "expand.wait"]
    <3>1. work' = [work EXCEPT ![w] = q] /\ q.pc = "expand.wait" /\ q.result = r.result
      BY <1>1, <2>4 DEF UnlockAndWait, Request
    <3> HIDE DEF q
    <3> QED
      BY <2>1, <2>4, <3>1, UnlockLooksAfter DEF UnlockAndWait
  <2> QED
    BY <1>2, <1>5, <2>1, <2>2, <2>3, <2>4 DEF ExpandPcs
<1>9. CASE ExpandWait(w) \/ ExpandShareWait(w)
  BY <1>3, <1>9 DEF ExpandWait, ExpandShareWait, PollDone, ExpandPcs
<1>10. CASE ExpandShare(w)
  <2>1. r.pc = "expand.share" /\ ExpandOp(r) \in Op
    BY <1>1, <1>10, OpOnShareType DEF ExpandShare, ExpandPcs, ExpandOp, ShareOps
  <2> QED
    BY <1>5, <1>10, <2>1 DEF ExpandShare
<1>11. CASE ExpandVerify(w)
  BY <1>2, <1>4, <1>11 DEF ExpandVerify, ExpandPcs
<1> QED
  BY <1>6, <1>7, <1>8, <1>9, <1>10, <1>11 DEF ExpandStep

LEMMA NoMore ==
  ASSUME NEW S, NEW T, IsFiniteSet(S), T \subseteq S
  PROVE  IsFiniteSet(T) /\ Cardinality(T) \in Nat /\ Cardinality(T) <= Cardinality(S)
BY FS_Subset, FS_CardinalityType

LEMMA OneMore ==
  ASSUME NEW S, NEW T, NEW x, IsFiniteSet(S), T \subseteq S \cup {x}
  PROVE  IsFiniteSet(T) /\ Cardinality(T) \in Nat /\ Cardinality(T) <= Cardinality(S) + 1
<1>1. Cardinality(S) \in Nat
  BY FS_CardinalityType
<1>2. IsFiniteSet(S \cup {x}) /\ Cardinality(S \cup {x}) \in {Cardinality(S), Cardinality(S) + 1}
  BY FS_AddElement
<1>3. /\ IsFiniteSet(T) /\ Cardinality(T) \in Nat /\ Cardinality(T) <= Cardinality(S \cup {x})
  BY <1>2, NoMore
<1> QED
  BY <1>1, <1>2, <1>3

\* An operation that is started makes a second share only of a volume whose shares have
\* all been counted.
LEMMA StartCounts ==
  ASSUME Known, LeakInv, NEW w \in Workers, NEW o \in Op, NEW to \in Waiting, Started(w, o, to)
  PROVE  CountInv'
<1> DEFINE r == work[w]
           q == [r EXCEPT !.pc = to, !.op = o, !.result = "none", !.inst = o.inst]
           protocol == IF o.type = "InstanceCreate" THEN Protocol[r.vol] ELSE ""
<1>1. /\ CloudTypeOK /\ r \in Request /\ work \in [Workers -> Request]
      /\ work' = [work EXCEPT ![w] = q] /\ StartOp(o, protocol) /\ pv' = pv /\ faults' = faults
      /\ r.pc \in Critical /\ r.vol \in Vols /\ o.inst \in Insts /\ faults \in Nat
  BY RequestKnows, OpShape DEF Known, ControllerInv, DisciplineInv, DriverInv, DriverTypeOK,
                               Started, StartWorkflow, Critical
<1>2. q.pc = to /\ q.op = o /\ q.vol = r.vol /\ q.result = "none"
  BY <1>1 DEF Request
<1> HIDE DEF q
<1>3. work'[w] = q /\ \A u \in Workers : u # w => work'[u] = work[u]
  BY <1>1
<1>4. /\ \A i \in Insts, x \in Vols :
           o.type \notin {"ShareCreate", "ShareDelete"} \/ o.inst # i \/ o.vol # x
             => share'[i][x] = share[i][x]
      /\ o.type = "ShareDelete" => share[o.inst][o.vol].state = "READY"
  BY <1>1, StartsOnShare
<1>5. o.type = "ShareCreate" => /\ o.vol = r.vol /\ r.pc \in {"create.setup", "create.share"}
                                /\ to \in {"create.wait", "create.shareWait"}
  <2>1. CASE r.pc = "create.setup"
    BY <1>1, <2>1, PlacementsFit DEF Started
  <2>2. CASE r.pc # "create.setup"
    BY <2>2 DEF Started, OpOnShare, OpOnInstance, ExpandOp
  <2> QED
    BY <2>1, <2>2
<1>6. ~HasShare(r)
  BY <1>1 DEF HasShare, Critical
<1>7. ASSUME NEW v \in Vols
      PROVE  /\ IsFiniteSet(SharesNamed(v)') /\ Cardinality(SharesNamed(v)') <= faults' + 1
             /\ ~Accounted(v)' => Cardinality(SharesNamed(v)') <= faults'
  <2>1. /\ IsFiniteSet(SharesNamed(v)) /\ Cardinality(SharesNamed(v)) \in Nat
        /\ Cardinality(SharesNamed(v)) <= faults + 1
        /\ ~Accounted(v) => Cardinality(SharesNamed(v)) <= faults
        /\ faults' = faults /\ faults \in Nat
    BY <1>1, FS_CardinalityType DEF LeakInv, CountInv, CountOK
  <2>2. CASE o.type # "ShareCreate" \/ v # o.vol
    <3>1. SharesNamed(v)' \subseteq SharesNamed(v)
      BY <1>4, <2>2 DEF SharesNamed, SharesOf
    <3>2. Accounted(v) => Accounted(v)'
      <4>1. ASSUME NEW u \in Workers, HasShare(work[u])
            PROVE  HasShare(work[u])' /\ work'[u] = work[u]
        BY <1>3, <1>6, <4>1 DEF HasShare
      <4> QED
        BY <1>1, <4>1 DEF Accounted
    <3>3. /\ IsFiniteSet(SharesNamed(v)') /\ Cardinality(SharesNamed(v)') \in Nat
          /\ Cardinality(SharesNamed(v)') <= Cardinality(SharesNamed(v))
      BY <2>1, <3>1, NoMore
    <3> QED
      BY <2>1, <3>2, <3>3
  <2>3. CASE o.type = "ShareCreate" /\ v = o.vol
    <3>1. SharesNamed(v)' \subseteq SharesNamed(v) \cup {o.inst}
      BY <1>4, <2>3 DEF SharesNamed, SharesOf
    <3>2. pv[v].phase = "wanted" /\ r.vol = v
      BY <1>5, <2>3 DEF Known, VolumesInv, WorkOK, CreatePcs
    <3>3. ASSUME NEW u \in Workers, HasShare(work[u]) PROVE work[u].vol # v
      <4>1. u # w /\ work[u].pc # "idle" /\ work[w].pc # "idle"
        BY <1>1, <1>6, <3>3 DEF HasShare, Critical
      <4>2. work[u].pc \in Pcs /\ work[w].pc \in Pcs
        BY RequestKnows DEF Known, Request
      <4> QED
        BY <3>2, <4>1, <4>2, AloneOnVolume DEF Known
    <3>4. ~Accounted(v)
      BY <3>2, <3>3 DEF Accounted
    <3>5. HasShare(work[w])' /\ work'[w].vol = v
      BY <1>2, <1>3, <1>5, <2>3, <3>2 DEF HasShare
    <3>6. Accounted(v)'
      BY <3>5 DEF Accounted
    <3>7. /\ IsFiniteSet(SharesNamed(v)') /\ Cardinality(SharesNamed(v)') \in Nat
          /\ Cardinality(SharesNamed(v)') <= Cardinality(SharesNamed(v)) + 1
      BY <2>1, <3>1, OneMore
    <3> QED
      BY <2>1, <3>4, <3>6, <3>7
  <2> QED
    BY <2>2, <2>3
<1> QED
  BY <1>7 DEF CountInv, CountOK

\* A handler's step is its own.
LEMMA OthersStand ==
  ASSUME NEW w \in Workers, NEW u \in Workers, w # u, work \in [Workers -> Request],
         HandlerStep(w)
  PROVE  work'[u] = work[u]
<1>1. ASSUME Return(w) PROVE work'[u] = work[u]
  BY <1>1 DEF Return
<1>2. ASSUME NEW pc, Goto(w, pc) PROVE work'[u] = work[u]
  BY <1>2 DEF Goto
<1>3. ASSUME NEW from, NEW to, NEW joinable, LockAndListOps(w, from, to, joinable)
      PROVE  work'[u] = work[u]
  BY <1>3 DEF LockAndListOps
<1>4. ASSUME NEW to, UnlockAndWait(w, to) PROVE work'[u] = work[u]
  BY <1>4 DEF UnlockAndWait
<1>5. ASSUME NEW o, NEW to, StartOrRefuse(w, o, to) PROVE work'[u] = work[u]
  BY <1>1, <1>5 DEF StartOrRefuse, StartWorkflow, Refused, ReturnError
<1>6. ASSUME NEW newPV, ReturnError(w) \/ ReturnSuccess(w, newPV) PROVE work'[u] = work[u]
  BY <1>1, <1>6 DEF ReturnError, ReturnSuccess
<1>7. CASE CreateStep(w)
  BY <1>2, <1>3, <1>5, <1>6, <1>7
     DEF CreateStep, CreateLock, CreateSetup, CreateWait, CreateRelock, CreateShare,
         CreateShareWait, CreateGetShare, PollDone
<1>8. CASE DeleteStep(w)
  BY <1>2, <1>3, <1>4, <1>5, <1>6, <1>8
     DEF DeleteStep, DeleteGetShare, DeleteLock, DeleteShare, DeleteWait, DeleteRelock,
         DeleteOrShrinkInstance, DeleteInstanceWait, DeleteSucceeds, PollDone
<1>9. CASE ExpandStep(w)
  BY <1>2, <1>3, <1>4, <1>5, <1>6, <1>9
     DEF ExpandStep, ExpandGetShare, ExpandLock, ExpandCheck, ExpandWait, ExpandRelock, ExpandShare,
         ExpandShareWait, ExpandVerify, ExpandSucceeds, PollDone
<1>10. CASE PollError(w)
  BY <1>6, <1>10 DEF PollError
<1> QED
  BY <1>7, <1>8, <1>9, <1>10 DEF HandlerStep

\* A handler counts no fault but the loss of its answer.
LEMMA HandlerFaults ==
  ASSUME NEW w \in Workers, HandlerStep(w)
  PROVE  UNCHANGED faults \/ Fault
<1>1. ASSUME NEW pc, Goto(w, pc) PROVE UNCHANGED faults
  BY <1>1 DEF Goto
<1>2. ASSUME NEW from, NEW to, NEW joinable, LockAndListOps(w, from, to, joinable)
      PROVE  UNCHANGED faults
  BY <1>2 DEF LockAndListOps
<1>3. ASSUME NEW to, UnlockAndWait(w, to) PROVE UNCHANGED faults
  BY <1>3 DEF UnlockAndWait
<1>4. ASSUME NEW o, NEW to, StartOrRefuse(w, o, to) PROVE UNCHANGED faults
  BY <1>4 DEF StartOrRefuse, StartWorkflow, Refused, ReturnError
<1>5. ASSUME NEW newPV, ReturnError(w) \/ ReturnSuccess(w, newPV) PROVE UNCHANGED faults \/ Fault
  BY <1>5 DEF ReturnError, ReturnSuccess
<1>6. CASE CreateStep(w)
  BY <1>1, <1>2, <1>4, <1>5, <1>6
     DEF CreateStep, CreateLock, CreateSetup, CreateWait, CreateRelock, CreateShare,
         CreateShareWait, CreateGetShare, PollDone
<1>7. CASE DeleteStep(w)
  BY <1>1, <1>2, <1>3, <1>4, <1>5, <1>7
     DEF DeleteStep, DeleteGetShare, DeleteLock, DeleteShare, DeleteWait, DeleteRelock,
         DeleteOrShrinkInstance, DeleteInstanceWait, DeleteSucceeds, PollDone
<1>8. CASE ExpandStep(w)
  BY <1>1, <1>2, <1>3, <1>4, <1>5, <1>8
     DEF ExpandStep, ExpandGetShare, ExpandLock, ExpandCheck, ExpandWait, ExpandRelock, ExpandShare,
         ExpandShareWait, ExpandVerify, ExpandSucceeds, PollDone
<1>9. CASE PollError(w)
  BY <1>5, <1>9 DEF PollError
<1> QED
  BY <1>6, <1>7, <1>8, <1>9 DEF HandlerStep

\* A creation that has made its share goes on to say so, or is lost to a fault.
LEMMA HolderStays ==
  ASSUME Known, LeakInv, FaultsBounded, [Next]_vars, NEW u \in Workers, HasShare(work[u])
  PROVE  \/ faults' = faults + 1
         \/ HasShare(work'[u]) /\ work'[u].vol = work[u].vol /\ faults' = faults
         \/ pv'[work[u].vol].phase # "wanted" /\ faults' = faults
<1> DEFINE r == work[u]
           Stays == HasShare(work'[u]) /\ work'[u].vol = r.vol /\ faults' = faults
<1>1. /\ r \in Request /\ work \in [Workers -> Request] /\ PollOK(r) /\ r.result # "error"
      /\ r.pc \in {"create.wait", "create.shareWait", "create.get"}
      /\ r.pc = "create.wait" => r.op.type = "ShareCreate"
  BY RequestKnows DEF Known, LeakInv, InstancesInv, HasShare
<1>2. Fault => faults' = faults + 1
  BY DEF Fault
<1>3. ASSUME NEW w \in Workers, HandlerStep(w), w = u
      PROVE  \/ faults' = faults + 1
             \/ Stays
             \/ pv'[r.vol].phase # "wanted" /\ faults' = faults
  <2>1. ASSUME Goto(u, "create.get"), r.result = "ok" PROVE Stays
    BY <1>1, <2>1 DEF Goto, HasShare, Request
  <2>2. CASE CreateWait(w) \/ CreateShareWait(w)
    BY <1>1, <1>3, <2>1, <2>2 DEF CreateWait, CreateShareWait, PollDone
  <2>3. CASE CreateGetShare(w)
    <3>1. /\ r.pc = "create.get" /\ share[r.inst][r.vol].state = "READY" /\ r.vol \in Vols
          /\ pv \in [Vols -> PVRec]
      BY <1>1, <1>3, <2>3, RequestKnows
         DEF CreateGetShare, PollOK, Known, ControllerInv, DriverInv, DriverTypeOK
    <3> QED
      BY <1>2, <1>3, <2>3, <3>1 DEF CreateGetShare, ReturnSuccess
  <2>4. CreateWait(w) \/ CreateShareWait(w) \/ CreateGetShare(w)
    BY <1>1, <1>3
       DEF HandlerStep, CreateStep, CreateLock, CreateSetup, CreateRelock, CreateShare,
           LockAndListOps, DeleteStep, DeleteGetShare, DeleteLock, DeleteShare, DeleteWait,
           DeleteRelock, DeleteOrShrinkInstance, DeleteInstanceWait, ExpandStep, ExpandGetShare,
           ExpandLock, ExpandCheck, ExpandWait, ExpandRelock, ExpandShare, ExpandShareWait,
           ExpandVerify, PollDone, PollError
  <2> QED
    BY <2>2, <2>3, <2>4
<1>4. ASSUME NEW w \in Workers, HandlerStep(w), w # u PROVE Stays \/ faults' = faults + 1
  <2>1. work'[u] = r
    BY <1>1, <1>4, OthersStand
  <2>2. faults' = faults \/ Fault
    BY <1>4, HandlerFaults
  <2> QED
    BY <1>2, <2>1, <2>2
<1>5. ASSUME NEW w \in Workers, NEW q, Accept(w, q) PROVE Stays
  <2>1. w # u
    BY <1>1, <1>5 DEF Accept, Idle
  <2> QED
    BY <1>1, <1>5, <2>1 DEF Accept
<1>6. ASSUME NEW w \in Workers, HandlerFails(w) PROVE faults' = faults + 1
  BY <1>2, <1>6 DEF HandlerFails
<1>7. ASSUME NEW o \in ops, OpDone(o) \/ OpError(o) PROVE Stays \/ faults' = faults + 1
  <2>1. CASE OpError(o)
    BY <1>2, <2>1 DEF OpError
  <2>2. CASE OpDone(o)
    BY <1>1, <2>2, PollersHear DEF OpDone, HasShare
  <2> QED
    BY <1>7, <2>1, <2>2
<1>8. CASE \/ DriverRestarts \/ \E i \in Insts : InstanceRepair(i)
  BY <1>2, <1>8 DEF DriverRestarts, InstanceRepair
<1>9. CASE \/ \E i \in Insts : InstanceRepaired(i)
           \/ \E v \in Vols : ReleasePV(v)
           \/ UNCHANGED vars
  BY <1>9 DEF InstanceRepaired, ReleasePV, vars, opsManagerVars
<1> QED
  BY <1>3, <1>4, <1>5, <1>6, <1>7, <1>8, <1>9
     DEF Next, Finished, CreateVolume, DeleteVolume, ControllerExpandVolume

\* Every step keeps every instance looked after.
LEMMA InstancesStep ==
  ASSUME Known, LeakInv, FaultsBounded, [Next]_vars
  PROVE  InstancesInv'
<1>1. [DisciplineNext]_cloudVars /\ ControllerInv
  BY ControllerStep DEF Known
<1>2. NothingStarted \/ \E w \in Workers, o \in Op, to \in Waiting : Started(w, o, to)
  BY <1>1, StepStarts
<1>3. CASE \E w \in Workers, o \in Op, to \in Waiting : Started(w, o, to)
  BY <1>1, <1>3, StartLooksAfter
<1>4. CASE ops' \subseteq ops
  <2>1. ASSUME NEW w \in Workers, HandlerStep(w) PROVE InstancesInv'
    <3>1. CASE PollError(w)
      <4>1. work[w].pc \in Waiting /\ work[w].result = "error" /\ ReturnError(w)
        BY <3>1 DEF PollError
      <4>2. faults # 0
        BY <4>1 DEF LeakInv, InstancesInv, FaultlessOK, Polls
      <4> QED
        BY <4>1, <4>2, ErrorLooksAfter DEF Waiting
    <3> QED
      BY <1>4, <2>1, <3>1, CreateLooksAfter, DeleteLooksAfter, ExpandLooksAfter DEF HandlerStep
  <2>2. ASSUME NEW w \in Workers, NEW v \in Vols,
               CreateVolume(w, v) \/ DeleteVolume(w, v) \/ ControllerExpandVolume(w, v)
        PROVE  InstancesInv'
    <3>1. CASE CreateVolume(w, v)
      BY <3>1, AcceptLooksAfter DEF CreateVolume, Idle
    <3>2. CASE DeleteVolume(w, v)
      BY <3>2, AcceptLooksAfter DEF DeleteVolume, Idle
    <3>3. CASE ControllerExpandVolume(w, v)
      BY <3>3, AcceptLooksAfter DEF ControllerExpandVolume, Idle
    <3> QED
      BY <2>2, <3>1, <3>2, <3>3
  <2>3. CASE DriverRestarts \/ \E w \in Workers : HandlerFails(w)
    BY <2>3, FailureLooksAfter
  <2>4. ASSUME NEW o \in ops, OpDone(o) \/ OpError(o) PROVE InstancesInv'
    BY <2>4, OpEndLooksAfter
  <2>5. ASSUME NEW i \in Insts, InstanceRepair(i) \/ InstanceRepaired(i) PROVE InstancesInv'
    BY <2>5, RepairLooksAfter
  <2>6. ASSUME NEW v \in Vols, ReleasePV(v) PROVE InstancesInv'
    BY <2>6, ReleaseLooksAfter
  <2>7. CASE UNCHANGED vars
    BY <2>7, StutterLooksAfter
  <2>8. CASE Finished
    BY <2>7, <2>8 DEF Finished
  <2> QED
    BY <2>1, <2>2, <2>3, <2>4, <2>5, <2>6, <2>7, <2>8 DEF Next
<1> QED
  BY <1>2, <1>3, <1>4 DEF NothingStarted

\* Faults are counted one at a time.
LEMMA FaultsGrow ==
  ASSUME FaultsBounded, [Next]_vars
  PROVE  faults' = faults \/ faults' = faults + 1
<1>1. Fault => faults' = faults + 1
  BY DEF Fault
<1>2. ASSUME NEW w \in Workers, HandlerStep(w) PROVE faults' = faults \/ faults' = faults + 1
  BY <1>1, <1>2, HandlerFaults
<1> QED
  BY <1>1, <1>2
     DEF Next, HandlerFails, CreateVolume, DeleteVolume, ControllerExpandVolume, Accept, OpDone,
         OpError, InstanceRepair, InstanceRepaired, ReleasePV, DriverRestarts, Finished, vars

\* Every step keeps count of the shares of a volume: one is known, or is about to be, and
\* every other has cost a fault.
LEMMA CountStep ==
  ASSUME Known, LeakInv, FaultsBounded, [Next]_vars
  PROVE  CountInv'
<1>1. [DisciplineNext]_cloudVars /\ ControllerInv /\ VolumesInv /\ DisciplineInv /\ faults \in Nat
  BY ControllerStep DEF Known, ControllerInv, DriverInv, DriverTypeOK
<1>2. NothingStarted \/ \E w \in Workers, o \in Op, to \in Waiting : Started(w, o, to)
  BY <1>1, StepStarts
<1>3. CASE \E w \in Workers, o \in Op, to \in Waiting : Started(w, o, to)
  BY <1>3, StartCounts
<1>4. CASE ops' \subseteq ops
  <2>1. ASSUME NEW v \in Vols
        PROVE  /\ IsFiniteSet(SharesNamed(v)') /\ Cardinality(SharesNamed(v)') <= faults' + 1
               /\ ~Accounted(v)' => Cardinality(SharesNamed(v)') <= faults'
    <3>1. /\ IsFiniteSet(SharesNamed(v)) /\ Cardinality(SharesNamed(v)) \in Nat
          /\ Cardinality(SharesNamed(v)) <= faults + 1
          /\ ~Accounted(v) => Cardinality(SharesNamed(v)) <= faults
      BY FS_CardinalityType DEF LeakInv, CountInv, CountOK
    <3>2. SharesNamed(v)' \subseteq SharesNamed(v)
      <4> SUFFICES ASSUME NEW i \in SharesNamed(v)' PROVE i \in SharesNamed(v)
        OBVIOUS
      <4>1. i \in Insts /\ v \in SharesOf(i)'
        BY DEF SharesNamed
      <4>2. v \in SharesOf(i)
        BY <1>1, <1>4, <4>1, SharesOnlyFewer
      <4> QED
        BY <4>1, <4>2 DEF SharesNamed
    <3>3. /\ IsFiniteSet(SharesNamed(v)') /\ Cardinality(SharesNamed(v)') \in Nat
          /\ Cardinality(SharesNamed(v)') <= Cardinality(SharesNamed(v))
      BY <3>1, <3>2, NoMore
    <3>4. faults' = faults \/ faults' = faults + 1
      BY FaultsGrow
    <3>5. Accounted(v) => Accounted(v)' \/ faults' = faults + 1
      <4>1. CASE pv[v].phase # "wanted"
        BY <1>1, <4>1, VolumesStep DEF Kept, PVMove, Accounted
      <4>2. ASSUME NEW u \in Workers, HasShare(work[u]), work[u].vol = v
            PROVE  Accounted(v)' \/ faults' = faults + 1
        BY <4>2, HolderStays DEF Accounted, HasShare
      <4> QED
        BY <4>1, <4>2 DEF Accounted
    <3> QED
      BY <1>1, <3>1, <3>3, <3>4, <3>5
  <2> QED
    BY <2>1 DEF CountInv, CountOK
<1> QED
  BY <1>2, <1>3, <1>4 DEF NothingStarted

LEMMA LeakStep ==
  ASSUME Known, LeakInv, FaultsBounded, [Next]_vars
  PROVE  LeakInv'
BY InstancesStep, CountStep DEF LeakInv

LEMMA LeakInit == Init => LeakInv
<1> SUFFICES ASSUME Init PROVE LeakInv
  OBVIOUS
<1>1. /\ \A i \in Insts : instance[i].state = "UNUSED"
      /\ \A i \in Insts, v \in Vols : share[i][v].state = "ABSENT"
      /\ \A v \in Vols : pv[v].inst = NoInst
      /\ \A w \in Workers : work[w].pc = "idle" /\ work[w].result = "none"
      /\ ops = {}
  BY DEF Init, CloudInit, AbsentInstance, AbsentShare, Idle
<1>2. \A i \in Insts : PlaceOK(i) /\ LookedAfter(i)
  BY <1>1, FilestoreAssumption DEF PlaceOK, LookedAfter, Dead, Named, SharesOf
<1>3. \A w \in Workers : PollOK(work[w]) /\ FreeToCreate(work[w])
  BY <1>1 DEF PollOK, SeesInstance, FreeToCreate
<1>4. FaultlessOK
  BY <1>1 DEF FaultlessOK, Polls
<1>5. ASSUME NEW v \in Vols PROVE CountOK(v)
  <2>1. SharesNamed(v) = {}
    BY <1>1 DEF SharesNamed, SharesOf
  <2> QED
    BY <2>1, FS_EmptySet DEF Init, CountOK
<1> QED
  BY <1>2, <1>3, <1>4, <1>5 DEF LeakInv, InstancesInv, CountInv

\* Every instance is dead, kept by a volume or, as long as nothing failed, in the hands of
\* a creation (LeakInv): whichever way requests for the volumes of an instance interleave,
\* time out or are refused (checkAndStartInstanceDeleteOrShrinkWorkflow,
\* startShareCreateWorkflowSafe).  And every share of a volume beyond its first has cost a
\* fault.
THEOREM LeakInvariance ==
  ASSUME FaultsBounded
  PROVE  Spec => []LeakInv
<1>1. Init => LeakInv
  BY LeakInit
<1>2. ControllerInv /\ VolumesInv /\ NamesOK /\ LeakInv /\ [Next]_vars => LeakInv'
  BY LeakStep DEF Known
<1> QED
  BY <1>1, <1>2, ControllerInvariance, VolumesInvariance, NamesKept, PTL DEF Spec

\* CreateVolume, which does not recognise the share it made before, makes a second one of a
\* volume only after a fault, and one for every fault at most: no interleaving of requests
\* that are all answered, however they repeat, duplicates a share.
THEOREM DuplicatesCounted ==
  ASSUME FaultsBounded
  PROVE  Spec => []DuplicatesCostFaults
<1>1. LeakInv => DuplicatesCostFaults
  BY DEF LeakInv, CountInv, CountOK, DuplicatesCostFaults
<1> QED
  BY <1>1, LeakInvariance, PTL

\* Where all volumes are deleted and nothing is under way, only the dead instances, those
\* nobody was ever told of and those with a stray share are left.
LEMMA LookedAfterIsEnough ==
  ASSUME ControllerInv, LeakInv
  PROVE  NoLeakedInstance
<1> SUFFICES ASSUME \A v \in Vols : pv[v].phase = "deleted", work = [w \in Workers |-> Idle],
                    NEW i \in Insts
             PROVE  \/ instance[i].state \in {"UNUSED", "GONE", "ERROR"}
                    \/ faults > 0 /\ ((\A v \in Vols : pv[v].inst # i) \/ \E v \in Vols : Stray(v, i))
  BY DEF NoLeakedInstance
<1>1. LookedAfter(i) /\ faults \in Nat
  BY DEF LeakInv, InstancesInv, ControllerInv, DriverInv, DriverTypeOK
<1>2. /\ \A v \in Vols : Keeps(v, i) => faults # 0 /\ Stray(v, i)
      /\ \A w \in Workers : ~Creates(work[w], i)
  BY DEF Keeps, Creates, CreatesPcs, Idle
<1> QED
  BY <1>1, <1>2 DEF LookedAfter, Dead, Named

\* Once all volumes are deleted and no request or operation is under way, no instance is
\* left, but for failed creations and, after a fault, one that no volume is known by or
\* that holds a second share of one (NoLeakedInstance): deletions of the last volumes of
\* an instance, which race with each other and with creations that are about to use it,
\* leave it to each other only when one of them is sure to come back to it.
THEOREM NoInstanceLeaked ==
  ASSUME FaultsBounded
  PROVE  Spec => []NoLeakedInstance
<1>1. ControllerInv /\ LeakInv => NoLeakedInstance
  BY LookedAfterIsEnough
<1>2. Spec => []LeakInv
  BY LeakInvariance
<1> QED
  BY <1>1, <1>2, ControllerInvariance, PTL
=============================================================================
