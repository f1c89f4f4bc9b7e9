------------------------ MODULE MultishareOpsManager ------------------------
(***************************************************************************)
(* MultishareOpsManager (multishare_ops_manager.go): the mutex under which *)
(* every multishare operation is started, the snapshot of running          *)
(* operations taken right after locking it, and the decisions made from    *)
(* that snapshot and from fresh reads of instances and shares.             *)
(*                                                                         *)
(* The snapshot is a variable of its own because operations finish between *)
(* ListOps and the reads that follow it; only the holder of the mutex has  *)
(* one.                                                                    *)
(***************************************************************************)
EXTENDS Filestore, Sizes

CONSTANTS Workers,          \* goroutines serving CSI controller requests
          NoWorker,         \* "the mutex is free"
          MaxShares,        \* util.MaxSharesPerInstance
          MinCap, MaxCap,   \* util.Min/MaxMultishareInstanceSizeBytes
          StepSize,         \* CapacityStepSizeGb of every instance
          ShareSize,        \* [Vols -> Nat]: capacity a CreateVolume asks for
          Protocol          \* [Vols -> Protocols]: everything isMatchedInstance compares

ASSUME OpsManagerAssumption ==
  /\ NoWorker \notin Workers
  /\ MaxShares \in Nat \ {0} /\ StepSize \in Nat
  /\ MinCap \in Nat /\ MaxCap \in Nat
  /\ ShareSize \in [Vols -> Nat]
  /\ Protocol \in [Vols -> Protocols]

\* An instance has from 1 TiB to 10 TiB, and the largest size is one of its steps (1 TiB
\* by default; multishare_defs.go:27).
ASSUME SizesAssumption == MinCap <= MaxCap /\ AlignBytes(MaxCap, StepSize) = MaxCap

VARIABLES mutex,  \* the worker holding MultishareOpsManager.Mutex, or NoWorker
          snap    \* the holder's ListOps result: operations running at that time

opsManagerVars == <<mutex, snap>>

OpsManagerInit == mutex = NoWorker /\ snap = {}
OpsManagerTypeOK == mutex \in Workers \cup {NoWorker} /\ snap \in SUBSET Op

-----------------------------------------------------------------------------
(* Capacity arithmetic. *)

\* instanceNeedsExpand: parentCap is the capacity in the caller's copy of the
\* instance, which the expand path read before it took the mutex.
InstanceNeedsExpand(i, parentCap, needed) == parentCap - SumShareBytes(i) < needed

\* Variant: the shares already there are subtracted.
ExpandTargetMinus(i, needed) == Smaller(AlignBytes(needed - SumShareBytes(i), StepSize), MaxCap)

ExpandTarget(i, needed) == Smaller(AlignBytes(needed + SumShareBytes(i), StepSize), MaxCap)

\* Variant: alignment rounds down.
ShrinkTargetDown(i) ==
  IF StepSize = 0 THEN SumShareBytes(i)
  ELSE Larger((SumShareBytes(i) \div StepSize) * StepSize, MinCap)

\* The size checkAndStartInstanceDeleteOrShrinkWorkflow shrinks to.
ShrinkTarget(i) == Larger(AlignBytes(SumShareBytes(i), StepSize), MinCap)
CanShrink(i) == /\ SumShareBytes(i) < instance[i].cap
                /\ instance[i].cap > MinCap
                /\ instance[i].cap # ShrinkTarget(i)

\* Variant: one share more or less.
EmptyButOne(i) == Cardinality(SharesOf(i)) <= 1

\* "Check for delete": ListShares on the instance returned nothing.
Empty(i) == SharesOf(i) = {}

-----------------------------------------------------------------------------
(* Decisions on the snapshot. *)

\* verifyNoRunningInstanceOrShareOpsForInstance
InstanceBusy(i) == \E p \in snap : p.inst = i

\* verifyNoRunningInstanceOps and verifyNoRunningShareOps together
ShareBusy(i, v) == \E p \in snap : p.inst = i /\ p.vol \in {NoVol, v}

\* Variant: a share operation does not look for operations on the instance.
NoConflictShareOnly(o) ==
  \A p \in snap : o.inst = p.inst => o.vol # NoVol /\ p.vol # o.vol

\* What startInstanceWorkflow and startShareWorkflow verify before they start o.
NoConflict(o) == IF o.vol = NoVol THEN ~InstanceBusy(o.inst) ELSE ~ShareBusy(o.inst, o.vol)

\* containsOpWithShareName
ShareCreateRunning(v) == \E p \in snap : p.type = "ShareCreate" /\ p.vol = v

\* containsOpWithShareTarget, evaluated on the ListOps result
OpsOnShare(type, i, v) == {p \in ops : p.type = type /\ p.inst = i /\ p.vol = v}

\* The existing share setupEligibleInstanceAndStartWorkflow looks for.  ListShares
\* fills in the name, project and location of a listed share's parent and leaves its
\* protocol empty, whatever the instance serves.
ListedProtocol(i) == ""
ExistingShare(v) == {i \in Insts : v \in SharesOf(i) /\ ListedProtocol(i) = Protocol[v]}

\* listMatchedInstances
Matched(v) == {i \in Insts : Listed(i) /\ instance[i].protocol = Protocol[v]}

\* runEligibleInstanceCheck
ReadyEligible(v) ==
  {i \in Matched(v) : /\ instance[i].state = "READY"
                      /\ ~InstanceBusy(i)
                      /\ Cardinality(SharesOf(i)) < MaxShares}
NonReady(v) ==
  {i \in Matched(v) : \/ instance[i].state \in {"CREATING", "REPAIRING"}
                      \/ instance[i].state = "READY" /\ InstanceBusy(i)}
AllEligibleBusy(v) == ReadyEligible(v) = {} /\ NonReady(v) # {}

\* The operations setupEligibleInstanceAndStartWorkflow may start for volume v:
\* one on a randomly picked eligible instance, or the creation of an instance
\* under a fresh name.
PlacementOn(i, v) ==
  IF InstanceNeedsExpand(i, instance[i].cap, ShareSize[v])
  THEN OpOnInstance("InstanceUpdate", i, ExpandTarget(i, ShareSize[v]))
  ELSE OpOnShare("ShareCreate", i, v, ShareSize[v])
Placements(v) ==
  IF ReadyEligible(v) # {}
  THEN {PlacementOn(i, v) : i \in ReadyEligible(v)}
  ELSE {OpOnInstance("InstanceCreate", i, MinCap) : i \in {j \in Insts : instance[j].state = "UNUSED"}}
=============================================================================
