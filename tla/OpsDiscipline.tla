--------------------------- MODULE OpsDiscipline ---------------------------
(***************************************************************************)
(* What MultishareOpsManager promises to Filestore, as a specification of  *)
(* the cloud's state alone: an operation is started only when nothing that *)
(* could conflict with it runs, and an instance is given up only when it   *)
(* is empty.  How the driver knows (mutex, snapshot of ListOps, repeated   *)
(* reads) is left open; MultishareController implements this.              *)
(***************************************************************************)
EXTENDS Filestore

\* Operations on the same share, or one on an instance and one on anything of it.
Conflict(o, p) == o.inst = p.inst /\ (o.vol = NoVol \/ p.vol = NoVol \/ o.vol = p.vol)

\* The driver starts o ("verifyNoRunning...", "Check for delete").
StartInTurn(o, protocol) ==
  /\ o \in Op
  /\ \A p \in ops : ~Conflict(o, p)
  /\ o.type = "InstanceDelete" => SharesOf(o.inst) = {}
  /\ StartOp(o, protocol)

DisciplineNext ==
  \/ \E o \in ops' \ ops, protocol \in Protocols \cup {""} : StartInTurn(o, protocol)
  \/ \E o \in ops : OpSucceeds(o) \/ OpFails(o)
  \/ \E i \in Insts : RepairStarts(i) \/ RepairEnds(i)

DisciplineSpec == CloudInit /\ [][DisciplineNext]_cloudVars

-----------------------------------------------------------------------------
\* No two operations run at the same time on one share, or on an instance and
\* anything on it: startInstanceWorkflow and startShareWorkflow decide from a
\* list of running operations that ages while they decide.
ExclusiveOps == \A o, p \in ops : o # p => ~Conflict(o, p)

\* An instance being deleted has no share, and none appears on it later: what
\* keeps checkAndStartInstanceDeleteOrShrinkWorkflow from destroying the volume
\* another CreateVolume is about to place there.
NoShareOnDyingInstance ==
  \A i \in Insts : instance[i].state \in {"DELETING", "GONE"} => SharesOf(i) = {}

-----------------------------------------------------------------------------
\* The strengthening that makes the two inductive: a running operation shows on
\* its resource, and shares live on instances that can be used.
Shows(o) ==
  /\ o.type = "InstanceCreate" => instance[o.inst].state = "CREATING"
  /\ o.type = "InstanceUpdate" => instance[o.inst].state \in {"READY", "REPAIRING"}
  /\ o.type = "InstanceDelete" => instance[o.inst].state = "DELETING"
  /\ o.type = "ShareCreate" => share[o.inst][o.vol].state = "CREATING"
  /\ o.type = "ShareUpdate" => share[o.inst][o.vol].state = "READY"
  /\ o.type = "ShareDelete" => share[o.inst][o.vol].state = "DELETING"
OpsShow == \A o \in ops : Shows(o)

SharesOnUsableInstances ==
  \A i \in Insts, v \in Vols :
    share[i][v].state # "ABSENT" => instance[i].state \in {"READY", "REPAIRING"}

DisciplineInv == CloudTypeOK /\ ExclusiveOps /\ OpsShow /\ SharesOnUsableInstances
=============================================================================
