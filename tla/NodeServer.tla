----------------------------- MODULE NodeServer -----------------------------
(***************************************************************************)
(* The node server (pkg/csi_driver/node.go) of every node: it mounts NFSv3 *)
(* volumes at a staging path and binds them to the target paths of pods,   *)
(* and records in a ConfigMap of the node which volumes its machine may    *)
(* hold advisory locks of (pkg/releaselock/configmap_util.go).             *)
(*                                                                         *)
(* External: machines that come and go under the name of a node, and the   *)
(* Node object of that name, which may say of which machine it is; the     *)
(* kubelet that calls the node server; and Filestore's advisory locks,     *)
(* which it keeps when the machine that holds them vanishes.  An update of *)
(* a ConfigMap fails if it has changed since it was read; a copy equal to  *)
(* it stands for an up-to-date one.                                        *)
(***************************************************************************)
EXTENDS Naturals, FiniteSets

CONSTANTS Nodes,      \* names of nodes
          Vols,       \* NFSv3 volumes that support lock release
          Targets,    \* target paths
          Machines,   \* [Nodes -> Nat]: machines that are given a name, one after the other
          Address,    \* [Nodes -> [Nat -> address]]: internal IP of the k-th of them
          Lapses,     \* [Nodes -> [Nat -> set of NodeObject]]: what its Node may be, besides
                      \* naming it, while it is up
          Places,     \* [Vols -> SUBSET (Nodes \X Nat)]: machines whose pods use the volume
          Server,     \* [Vols -> address]: IP of the Filestore instance
          MaxFaults   \* bound of the runs on faults

VARIABLES machine,    \* [Nodes -> MachineRec]: the machine that has, or had last, the name
          node,       \* [Nodes -> NodeObject]
          doubted,    \* [Nodes -> SUBSET Nat]: machines that were up while the Node did not name
                      \* them; a history variable, which no action reads
          configMap,  \* [Nodes -> ConfigMapRec]
          vol,        \* [Nodes -> [Vols -> VolRec]], on the machine that is up
          locks,      \* set of keys: who holds locks of what
          faults

machineVars == <<machine, node, doubted>>
nodeVars == <<machineVars, configMap, vol, locks, faults>>

MachineRec == [number : Nat, up : BOOLEAN]
Up(n) == machine[n].up
Current(n) == machine[n].number

\* Of a Node object: whether there is one, has annotations, and which machine it names
\* by its instance_id annotation and internal IP: 0 if none.
Absent == [exists |-> FALSE, annotated |-> FALSE, names |-> 0]
Bare == [exists |-> TRUE, annotated |-> FALSE, names |-> 0]
Naming(k) == [exists |-> TRUE, annotated |-> TRUE, names |-> k]
Unnamed == Naming(0)
NodeObject == {Absent, Bare} \cup UNION {{Naming(k) : k \in 0..Machines[n]} : n \in Nodes}

ASSUME NodeAssumption ==
  /\ Machines \in [Nodes -> Nat] /\ MaxFaults \in Nat
  /\ \A n \in Nodes : \A k \in 1..Machines[n] : Lapses[n][k] \subseteq {Absent, Bare, Unnamed}

\* What names a lock in a ConfigMap: the volume, the GCE instance and its IP.
Keys == {key \in UNION {[node : {n}, machine : 1..Machines[n], vol : Vols] : n \in Nodes} :
           <<key.node, key.machine>> \in Places[key.vol]}
Key(n, v) == [node |-> n, machine |-> Current(n), vol |-> v]
AddressOf(key) == Address[key.node][key.machine]

ConfigMapRec == [exists : BOOLEAN, keys : SUBSET Keys]
NoConfigMap == [exists |-> FALSE, keys |-> {}]

\* phase: what the kubelet knows; call: the handler that has the volume lock, with
\* the ConfigMap it has read; mounted, bound: mounts at the staging and target paths.
VolRec == [phase : {"unstaged", "staging", "staged", "unstaging"}, mounted : BOOLEAN,
           bound : SUBSET Targets, call : {"", "stage", "unstage"}, copy : ConfigMapRec]
NotStaged == [phase |-> "unstaged", mounted |-> FALSE, bound |-> {}, call |-> "", copy |-> NoConfigMap]

NodeTypeOK ==
  /\ machine \in [Nodes -> MachineRec]
  /\ \A n \in Nodes : Current(n) <= Machines[n] /\ (Up(n) => Current(n) > 0)
  /\ node \in [Nodes -> NodeObject] /\ doubted \in [Nodes -> SUBSET Nat]
  /\ configMap \in [Nodes -> ConfigMapRec] /\ vol \in [Nodes -> [Vols -> VolRec]]
  /\ locks \subseteq Keys /\ faults \in 0..MaxFaults

NodeInit ==
  /\ machine = [n \in Nodes |-> [number |-> 0, up |-> FALSE]]
  /\ node = [n \in Nodes |-> Absent]
  /\ doubted = [n \in Nodes |-> {}]
  /\ configMap = [n \in Nodes |-> NoConfigMap]
  /\ vol = [n \in Nodes |-> [v \in Vols |-> NotStaged]]
  /\ locks = {} /\ faults = 0

Fault == faults < MaxFaults /\ faults' = faults + 1

-----------------------------------------------------------------------------
(* Machines and their Node objects *)

\* The Node of machine k becomes the given object while k is up.
Registers(n, k, object) ==
  /\ node' = [node EXCEPT ![n] = object]
  /\ IF object = Naming(k) THEN UNCHANGED <<doubted, faults>>
     ELSE Fault /\ doubted' = [doubted EXCEPT ![n] = @ \cup {k}]

\* A machine is given the name; its Node is created or, if there is one of an earlier
\* machine, updated, unless that lapses.  No two machines that are up have the same address.
Starts(n) ==
  LET k == Current(n) + 1
  IN /\ ~Up(n) /\ k <= Machines[n]
     /\ \A m \in Nodes : Up(m) => Address[m][Current(m)] # Address[n][k]
     /\ machine' = [machine EXCEPT ![n] = [number |-> k, up |-> TRUE]]
     /\ \E object \in {Naming(k), node[n]} \cup Lapses[n][k] : Registers(n, k, object)
     /\ UNCHANGED <<configMap, vol, locks>>

\* The Node of a machine that is up is deleted or loses its annotation, or is as it
\* should be again.
NodeChanges(n) ==
  /\ Up(n)
  /\ \E object \in ({Naming(Current(n))} \cup Lapses[n][Current(n)]) \ {node[n]} :
       Registers(n, Current(n), object)
  /\ UNCHANGED <<machine, configMap, vol, locks>>

\* The Node is deleted after its machine, unless another one has the name by then.
Vanishes(n) ==
  /\ Up(n)
  /\ machine' = [machine EXCEPT ![n].up = FALSE]
  /\ vol' = [vol EXCEPT ![n] = [v \in Vols |-> NotStaged]]
  /\ UNCHANGED <<node, doubted, configMap, locks, faults>>

NodeDeleted(n) ==
  /\ ~Up(n) /\ node[n] # Absent
  /\ node' = [node EXCEPT ![n] = Absent]
  /\ UNCHANGED <<machine, doubted, configMap, vol, locks, faults>>

-----------------------------------------------------------------------------
(* NodeStageVolume and NodeUnstageVolume *)

Sets(n, v, r) == vol' = [vol EXCEPT ![n][v] = r]
Returns(n, v, phase) == Sets(n, v, [vol[n][v] EXCEPT !.phase = phase, !.call = "", !.copy = NoConfigMap])

\* Mount, unless it is there from an earlier call, then get the ConfigMap.  A mount
\* that fails is cleaned up: nothing has changed.
StageMounts(n, v) ==
  /\ Up(n) /\ <<n, Current(n)>> \in Places[v]
  /\ vol[n][v].call = "" /\ vol[n][v].phase \in {"unstaged", "staging"}
  /\ Sets(n, v, [vol[n][v] EXCEPT !.phase = "staging", !.mounted = TRUE,
                                  !.call = "stage", !.copy = configMap[n]])
  /\ UNCHANGED <<machineVars, configMap, locks, faults>>

\* Variant: an update is accepted whatever has happened since the ConfigMap was read.
StoreWithoutVersion(n, v) ==
  LET read == vol[n][v].copy
  IN IF Key(n, v) \in read.keys
     THEN Returns(n, v, "staged") /\ UNCHANGED configMap
     ELSE /\ configMap' = [configMap EXCEPT ![n] = [exists |-> TRUE, keys |-> read.keys \cup {Key(n, v)}]]
          /\ Returns(n, v, "staged")

\* nodeStageVolumeUpdateLockInfo: create the ConfigMap, or add the key to it; on a
\* conflict the call fails and is repeated.
StoreLockInfo(n, v) ==
  LET read == vol[n][v].copy
  IN IF Key(n, v) \in read.keys
     THEN Returns(n, v, "staged") /\ UNCHANGED configMap
     ELSE IF configMap[n] = read
     THEN /\ configMap' = [configMap EXCEPT ![n] = [exists |-> TRUE, keys |-> @.keys \cup {Key(n, v)}]]
          /\ Returns(n, v, "staged")
     ELSE Returns(n, v, "staging") /\ UNCHANGED configMap

StageStores(n, v) ==
  /\ vol[n][v].call = "stage"
  /\ StoreLockInfo(n, v)
  /\ UNCHANGED <<machineVars, locks, faults>>

\* The kubelet unstages once no pod uses the volume, also after a stage that failed.
UnstageUnmounts(n, v) ==
  /\ Up(n) /\ vol[n][v].call = "" /\ vol[n][v].phase # "unstaged" /\ vol[n][v].bound = {}
  /\ Sets(n, v, [vol[n][v] EXCEPT !.phase = "unstaging", !.mounted = FALSE,
                                  !.call = "unstage", !.copy = configMap[n]])
  /\ UNCHANGED <<machineVars, configMap, locks, faults>>

\* nodeUnstageVolumeUpdateLockInfo.
UnstageRemoves(n, v) ==
  LET read == vol[n][v].copy
  IN /\ vol[n][v].call = "unstage"
     /\ IF Key(n, v) \notin read.keys
        THEN Returns(n, v, "unstaged") /\ UNCHANGED configMap
        ELSE IF configMap[n] = read
        THEN /\ configMap' = [configMap EXCEPT ![n].keys = @ \ {Key(n, v)}]
             /\ Returns(n, v, "unstaged")
        ELSE Returns(n, v, "unstaging") /\ UNCHANGED configMap
     /\ UNCHANGED <<machineVars, locks, faults>>

\* A request to the API server fails, or the driver restarts: the mounts remain.
CallFails(n, v) ==
  /\ vol[n][v].call # "" /\ Fault
  /\ Returns(n, v, vol[n][v].phase)
  /\ UNCHANGED <<machineVars, configMap, locks>>

-----------------------------------------------------------------------------
(* NodePublishVolume and NodeUnpublishVolume *)

PublishBinds(n, v, t) ==
  /\ Up(n) /\ vol[n][v].phase = "staged" /\ vol[n][v].call = "" /\ t \notin vol[n][v].bound
  /\ vol[n][v].mounted
  /\ Sets(n, v, [vol[n][v] EXCEPT !.bound = @ \cup {t}])
  /\ UNCHANGED <<machineVars, configMap, locks, faults>>

\* The bind mount fails: the staging path is cleaned up, unmounted and removed, and
\* not the target path.
PublishFails(n, v, t) ==
  /\ Up(n) /\ vol[n][v].phase = "staged" /\ vol[n][v].call = "" /\ t \notin vol[n][v].bound
  /\ Fault
  /\ Sets(n, v, [vol[n][v] EXCEPT !.mounted = FALSE])
  /\ UNCHANGED <<machineVars, configMap, locks>>

\* The locks of a volume are gone with the last pod that uses it.
Unpublish(n, v, t) ==
  /\ t \in vol[n][v].bound
  /\ Sets(n, v, [vol[n][v] EXCEPT !.bound = @ \ {t}])
  /\ locks' = IF vol[n][v].bound = {t} THEN locks \ {Key(n, v)} ELSE locks
  /\ UNCHANGED <<machineVars, configMap, faults>>

\* A pod locks a file of the volume.
TakesLock(n, v) ==
  /\ vol[n][v].bound # {} /\ Key(n, v) \notin locks
  /\ locks' = locks \cup {Key(n, v)}
  /\ UNCHANGED <<machineVars, configMap, vol, faults>>

NodeNext ==
  \E n \in Nodes :
    \/ Starts(n) \/ NodeChanges(n) \/ Vanishes(n) \/ NodeDeleted(n)
    \/ \E v \in Vols :
         \/ StageMounts(n, v) \/ StageStores(n, v) \/ UnstageUnmounts(n, v) \/ UnstageRemoves(n, v)
         \/ CallFails(n, v) \/ TakesLock(n, v)
         \/ \E t \in Targets : PublishBinds(n, v, t) \/ PublishFails(n, v, t) \/ Unpublish(n, v, t)
=============================================================================
