------------------------ MODULE SingleShareFilestore ------------------------
(***************************************************************************)
(* The Filestore service as the single-share controller sees it through    *)
(* file.Service (pkg/cloud_provider/file/file.go): one instance per        *)
(* volume, backups, and the operations that change them.  As in Filestore, *)
(* what the service does with a request is external to src/ and taken as   *)
(* permissively as the driver's error paths allow.                         *)
(***************************************************************************)
EXTENDS IPAllocator, FiniteSets

CONSTANTS Vols,         \* CSI volume names: the names of instances
          Snaps,        \* CSI snapshot names: the names of backups
          NoVol, NoSnap \* the operation targets no instance, no backup

ASSUME SingleShareFilestoreAssumption == NoVol \notin Vols /\ NoSnap \notin Snaps

VARIABLES filer,  \* [Vols -> InstanceRec]
          backup, \* [Snaps -> the state of the backup]
          ops     \* the operations that are running (not Done)

cloudVars == <<filer, backup, ops>>

InstanceStates == {"ABSENT", "CREATING", "READY", "DELETING", "ERROR"}
BackupStates == {"ABSENT", "CREATING", "READY", "DELETING"}

\* tuned: has the instance the performance ControllerModifyVolume asks for?
InstanceRec == [state: InstanceStates, cap: Nat, tuned: BOOLEAN, range: Range \cup {NoRange}]
Absent == [state |-> "ABSENT", cap |-> 0, tuned |-> FALSE, range |-> NoRange]

UpdateOps == {"resize", "tune"}
InstanceOps == {"create", "delete"} \cup UpdateOps
BackupOps == {"createBackup", "deleteBackup"}

\* cap is the size a resize asks for.
Op == [type: InstanceOps, vol: Vols, snap: {NoSnap}, cap: Nat]
        \cup [type: BackupOps, vol: Vols, snap: Snaps, cap: {0}]
InstanceOp(type, v, cap) == [type |-> type, vol |-> v, snap |-> NoSnap, cap |-> cap]
BackupOp(type, v, s) == [type |-> type, vol |-> v, snap |-> s, cap |-> 0]

CloudInit ==
  /\ filer = [v \in Vols |-> Absent]
  /\ backup = [s \in Snaps |-> "ABSENT"]
  /\ ops = {}

CloudTypeOK ==
  /\ filer \in [Vols -> InstanceRec]
  /\ backup \in [Snaps -> BackupStates]
  /\ ops \in SUBSET Op

-----------------------------------------------------------------------------
\* HasOperations(filer, "update", not done): a resize or a performance update runs.
HasUpdateOps(v) == \E o \in ops : o.vol = v /\ o.type \in UpdateOps

\* Variant: instances that are gone are listed too.
ListedRangesOfAll == {filer[v].range : v \in Vols}

\* The ranges in the answer of ListInstances, for instances of one network.
ListedRanges == {filer[v].range : v \in {u \in Vols : filer[u].state # "ABSENT"}} \ {NoRange}

\* The resource is in a state in which the service takes the request.
Accepts(o) ==
  CASE o.type = "create" -> filer[o.vol].state = "ABSENT"
    [] o.type = "delete" -> filer[o.vol].state \in {"READY", "ERROR"}
    [] o.type = "createBackup" -> backup[o.snap] = "ABSENT" /\ filer[o.vol].state = "READY"
    [] o.type = "deleteBackup" -> backup[o.snap] = "READY"
    [] OTHER -> filer[o.vol].state = "READY"

\* CreateInstance, DeleteInstance, ResizeInstance, UpdateInstancePerformance,
\* CreateBackup, DeleteBackup, up to the operation's name; new is the instance
\* CreateInstance asks for.
StartOp(o, new) ==
  /\ Accepts(o)
  /\ ops' = ops \cup {o}
  /\ filer' = [filer EXCEPT ![o.vol] =
       CASE o.type = "create" -> new
         [] o.type = "delete" -> [@ EXCEPT !.state = "DELETING"]
         [] OTHER -> @]
  /\ backup' = IF o.snap = NoSnap THEN backup ELSE [backup EXCEPT ![o.snap] =
       IF o.type = "createBackup" THEN "CREATING" ELSE "DELETING"]

\* The operation is Done without an error.  An update whose instance was deleted
\* meanwhile changes nothing.
OpSucceeds(o) ==
  /\ ops' = ops \ {o}
  /\ filer' = [filer EXCEPT ![o.vol] =
       CASE o.type = "create" -> [@ EXCEPT !.state = "READY"]
         [] o.type = "delete" -> Absent
         [] o.type = "resize" /\ @.state # "ABSENT" -> [@ EXCEPT !.cap = o.cap]
         [] o.type = "tune" /\ @.state # "ABSENT" -> [@ EXCEPT !.tuned = TRUE]
         [] OTHER -> @]
  /\ backup' = IF o.snap = NoSnap THEN backup ELSE [backup EXCEPT ![o.snap] =
       IF o.type = "createBackup" THEN "READY" ELSE "ABSENT"]

\* The operation is Done with an error.  A failed creation leaves nothing, or an
\* instance in state ERROR.
OpFails(o) ==
  /\ ops' = ops \ {o}
  /\ \E left \in {Absent, [filer[o.vol] EXCEPT !.state = "ERROR"]} :
       filer' = [filer EXCEPT ![o.vol] =
         CASE o.type = "create" -> left
           [] o.type = "delete" -> [@ EXCEPT !.state = "READY"]
           [] OTHER -> @]
  /\ backup' = IF o.snap = NoSnap THEN backup ELSE [backup EXCEPT ![o.snap] =
       IF o.type = "createBackup" THEN "ABSENT" ELSE "READY"]
=============================================================================
