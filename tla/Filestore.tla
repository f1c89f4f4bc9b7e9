----------------------------- MODULE Filestore -----------------------------
(***************************************************************************)
(* The Filestore service as the driver sees it through file.Service        *)
(* (pkg/cloud_provider/file/file.go): multishare instances, the shares on  *)
(* them, and the long-running operations (LROs) that change them.  The     *)
(* requests are translated from the Start...Op methods of the driver; what *)
(* the service itself does with an operation is external to src/ and is    *)
(* taken as permissively as the driver's error paths allow: an accepted    *)
(* operation takes effect at any later time, or fails.                     *)
(*                                                                         *)
(* An instance is identified by the uuid-based name the driver gives it    *)
(* (never reused, hence GONE differs from UNUSED), a share by its instance *)
(* and the volume it was created for (share name = volume name).           *)
(***************************************************************************)
EXTENDS Integers, FiniteSets, Functions

CONSTANTS Insts,        \* names for multishare instances
          Vols,         \* CSI volume names, i.e. share names
          NoInst, NoVol \* "no instance", "no share": the op targets an instance

ASSUME FilestoreAssumption ==
  NoInst \notin Insts /\ NoVol \notin Vols /\ IsFiniteSet(Vols)

VARIABLES instance,  \* [Insts -> InstanceRec]
          share,     \* [Insts -> [Vols -> ShareRec]]
          ops        \* the operations that are running (not Done)

cloudVars == <<instance, share, ops>>

InstanceStates == {"UNUSED", "CREATING", "READY", "REPAIRING", "DELETING", "ERROR", "GONE"}
ShareStates == {"ABSENT", "CREATING", "READY", "DELETING"}
Protocols == {"NFS_V3", "NFS_V4_1"}

InstanceRec == [state: InstanceStates, cap: Nat, protocol: Protocols \cup {""}]
ShareRec == [state: ShareStates, cap: Nat]

InstanceOps == {"InstanceCreate", "InstanceUpdate", "InstanceDelete"}
ShareOps == {"ShareCreate", "ShareUpdate", "ShareDelete"}

\* An operation: verb and target resource; cap is the capacity it asks for.
InstanceOp == [type: InstanceOps, inst: Insts, vol: {NoVol}, cap: Nat]
ShareOp == [type: ShareOps, inst: Insts, vol: Vols, cap: Nat]
Op == InstanceOp \cup ShareOp

OpOnInstance(type, i, cap) == [type |-> type, inst |-> i, vol |-> NoVol, cap |-> cap]
OpOnShare(type, i, v, cap) == [type |-> type, inst |-> i, vol |-> v, cap |-> cap]

AbsentInstance(state) == [state |-> state, cap |-> 0, protocol |-> ""]
AbsentShare == [state |-> "ABSENT", cap |-> 0]

CloudInit ==
  /\ instance = [i \in Insts |-> AbsentInstance("UNUSED")]
  /\ share = [i \in Insts |-> [v \in Vols |-> AbsentShare]]
  /\ ops = {}

CloudTypeOK ==
  /\ instance \in [Insts -> InstanceRec]
  /\ share \in [Insts -> [Vols -> ShareRec]]
  /\ ops \in SUBSET Op

-----------------------------------------------------------------------------
(* What the driver reads. *)

\* ListMultishareInstances and GetMultishareInstance find the instance.
Listed(i) == instance[i].state \notin {"UNUSED", "GONE"}

\* ListShares on one instance: every share that is not yet gone, in any state.
SharesOf(i) == {v \in Vols : share[i][v].state # "ABSENT"}

\* The sum instanceNeedsExpand and the shrink check compute over ListShares.
SumShareBytes(i) == SumFunction([v \in Vols |-> share[i][v].cap])

-----------------------------------------------------------------------------
(* Starting, finishing and failing an operation. *)

\* The resource is in a state in which the service takes the request (404 and
\* 409 answers otherwise).  Exclusion between operations is left to the driver.
Accepts(o) ==
  CASE o.type = "InstanceCreate" -> instance[o.inst].state = "UNUSED"
    [] o.type \in {"InstanceUpdate", "InstanceDelete"} -> instance[o.inst].state = "READY"
    [] o.type = "ShareCreate" -> /\ instance[o.inst].state = "READY"
                                 /\ share[o.inst][o.vol].state = "ABSENT"
    [] OTHER -> share[o.inst][o.vol].state = "READY"

\* A request is accepted: its operation runs and the resource shows it.
\* protocol only matters to InstanceCreate.
StartOp(o, protocol) ==
  /\ Accepts(o)
  /\ ops' = ops \cup {o}
  /\ instance' = [instance EXCEPT ![o.inst] =
       CASE o.type = "InstanceCreate" -> [state |-> "CREATING", cap |-> o.cap, protocol |-> protocol]
         [] o.type = "InstanceDelete" -> [@ EXCEPT !.state = "DELETING"]
         [] OTHER -> @]
  /\ share' = IF o.vol = NoVol THEN share ELSE [share EXCEPT ![o.inst][o.vol] =
       CASE o.type = "ShareCreate" -> [state |-> "CREATING", cap |-> o.cap]
         [] o.type = "ShareDelete" -> [@ EXCEPT !.state = "DELETING"]
         [] OTHER -> @]

\* The operation is Done without an error.
OpSucceeds(o) ==
  /\ ops' = ops \ {o}
  /\ instance' = [instance EXCEPT ![o.inst] =
       CASE o.type = "InstanceCreate" -> [@ EXCEPT !.state = "READY"]
         [] o.type = "InstanceUpdate" -> [@ EXCEPT !.cap = o.cap]
         [] o.type = "InstanceDelete" -> AbsentInstance("GONE")
         [] OTHER -> @]
  /\ share' = IF o.vol = NoVol THEN share ELSE [share EXCEPT ![o.inst][o.vol] =
       CASE o.type = "ShareCreate" -> [@ EXCEPT !.state = "READY"]
         [] o.type = "ShareUpdate" -> [@ EXCEPT !.cap = o.cap]
         [] OTHER -> AbsentShare]

\* The operation is Done with an error and leaves the resource as it was; an
\* instance whose creation failed stays behind in a state the driver skips.
OpFails(o) ==
  /\ ops' = ops \ {o}
  /\ instance' = [instance EXCEPT ![o.inst] =
       CASE o.type = "InstanceCreate" -> [@ EXCEPT !.state = "ERROR"]
         [] o.type = "InstanceDelete" -> [@ EXCEPT !.state = "READY"]
         [] OTHER -> @]
  /\ share' = IF o.vol = NoVol THEN share ELSE [share EXCEPT ![o.inst][o.vol] =
       CASE o.type = "ShareCreate" -> AbsentShare
         [] o.type = "ShareDelete" -> [@ EXCEPT !.state = "READY"]
         [] OTHER -> @]

\* Filestore takes a ready instance into repair, and out of it.
RepairStarts(i) ==
  /\ instance[i].state = "READY"
  /\ instance' = [instance EXCEPT ![i].state = "REPAIRING"]
  /\ UNCHANGED <<share, ops>>

RepairEnds(i) ==
  /\ instance[i].state = "REPAIRING"
  /\ instance' = [instance EXCEPT ![i].state = "READY"]
  /\ UNCHANGED <<share, ops>>
=============================================================================
