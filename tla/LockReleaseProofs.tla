------------------------- MODULE LockReleaseProofs -------------------------
(***************************************************************************)
(* For all nodes, volumes, machines and pods: every lock can be released   *)
(* by what is recorded of it, and the lock release controller takes locks  *)
(* only from the addresses of machines that have vanished, but for those   *)
(* of machines that their Node did not name at some time.                  *)
(***************************************************************************)
EXTENDS LockReleaseSafety, FiniteSetTheorems, TLAPS

(* Machines and their Node objects. *)

LEMMA MachineType ==
  ASSUME NodeTypeOK, NEW n \in Nodes
  PROVE  /\ Current(n) \in Nat /\ Machines[n] \in Nat /\ Current(n) <= Machines[n]
         /\ Up(n) => Current(n) \in 1..Machines[n]
<1>1. machine[n] \in MachineRec /\ Machines[n] \in Nat
  BY NodeAssumption DEF NodeTypeOK
<1>2. Current(n) \in Nat /\ Current(n) <= Machines[n] /\ (Up(n) => Current(n) > 0)
  BY <1>1 DEF NodeTypeOK, MachineRec, Current
<1> QED
  BY <1>1, <1>2

\* What there is to know of a key of today's machines.
LEMMA KeyType ==
  ASSUME NEW key \in Keys
  PROVE  /\ key.node \in Nodes /\ key.vol \in Vols /\ key.machine \in Nat \ {0}
         /\ key.machine <= Machines[key.node] /\ Machines[key.node] \in Nat
         /\ <<key.node, key.machine>> \in Places[key.vol]
         /\ key = [node |-> key.node, machine |-> key.machine, vol |-> key.vol]
BY NodeAssumption DEF Keys

\* A Node object names a machine, or none.
LEMMA NodeObjectType ==
  ASSUME NEW object \in NodeObject
  PROVE  /\ object.names \in Nat
         /\ object.names # 0 => object = Naming(object.names)
<1>1. ASSUME object = Absent \/ object = Bare
      PROVE  object.names = 0
  BY <1>1 DEF Absent, Bare
<1>2. object = Absent \/ object = Bare \/ \E n \in Nodes : \E k \in 0..Machines[n] : object = Naming(k)
  BY DEF NodeObject
<1>3. ASSUME NEW n \in Nodes, NEW k \in 0..Machines[n], object = Naming(k)
      PROVE  /\ object.names \in Nat
             /\ object.names # 0 => object = Naming(object.names)
  BY <1>3, NodeAssumption DEF Naming
<1> QED
  BY <1>1, <1>2, <1>3

LEMMA SomeNodeObjects ==
  /\ Absent \in NodeObject /\ Bare \in NodeObject /\ Absent.names = 0 /\ Bare.names = 0
  /\ \A n \in Nodes : \A k \in 0..Machines[n] : Naming(k) \in NodeObject
BY DEF NodeObject, Absent, Bare

\* The machine that is up has a key for each volume that its pods use.
LEMMA CurrentKey ==
  ASSUME NodeTypeOK, NEW n \in Nodes, Up(n), NEW v \in Vols, <<n, Current(n)>> \in Places[v]
  PROVE  Key(n, v) \in Keys
BY MachineType DEF Key, Keys

\* A key of the machine that is up names one that has started, and has not vanished.
LEMMA CurrentIsNotVanished ==
  ASSUME NodeTypeOK, NEW n \in Nodes, Up(n), NEW v \in Vols
  PROVE  Started(Key(n, v)) /\ ~Vanished(Key(n, v))
<1>1. Current(n) \in Nat /\ Key(n, v).node = n /\ Key(n, v).machine = Current(n)
  BY MachineType DEF Key
<1> QED
  BY <1>1 DEF Started, Vanished, Gone

\* A key that the Node of today does not match is of a machine that has vanished, or
\* is doubted.
LEMMA UnmatchedIsUnsure ==
  ASSUME NodeTypeOK, NodesOK, NEW key \in Keys, Started(key), ~Matches(node[key.node], key)
  PROVE  Unsure(key)
<1>1. key.node \in Nodes /\ key.machine \in Nat /\ Current(key.node) \in Nat
  BY KeyType, MachineType
<1>2. key.machine <= Current(key.node) /\ node[key.node].names # key.machine
  BY DEF Started, Matches
<1>3. Up(key.node) => node[key.node].names = Current(key.node) \/ Current(key.node) \in doubted[key.node]
  BY <1>1 DEF NodesOK
<1> QED
  BY <1>1, <1>2, <1>3 DEF Unsure, UnsureMachine, Gone

-----------------------------------------------------------------------------
(* A call of a node server, or a pod that locks: a step about one volume. *)

\* It concerns the volume's mounts, its key in the node's ConfigMap and its lock.
VolumeStep(n, v) ==
  /\ Up(n) /\ <<n, Current(n)>> \in Places[v]
  /\ UNCHANGED <<machineVars, leader>> /\ faults' \in 0..MaxFaults
  /\ \E r \in VolRec : vol' = [vol EXCEPT ![n][v] = r]
  /\ \E c \in ConfigMapRec : /\ configMap' = [configMap EXCEPT ![n] = c]
                             /\ \A key : key # Key(n, v) => (key \in c.keys <=> key \in configMap[n].keys)
                             /\ Key(n, v) \in c.keys => Key(n, v) \in Keys
  /\ \A key : key # Key(n, v) => (key \in locks' <=> key \in locks)

LEMMA VolumeStepKeepsInv ==
  ASSUME LockInv, NEW n \in Nodes, NEW v \in Vols, VolumeStep(n, v),
         MountOK(n, v)', Recorded(n, v)'
  PROVE  LockInv'
<1> DEFINE K == Key(n, v)
<1>1. /\ TypeOK /\ NodeTypeOK /\ KeysOfMachines /\ NodesOK /\ MountsOK /\ LocksRecorded /\ LeaderOK
  BY DEF LockInv, TypeOK
<1>2. Up(n) /\ UNCHANGED <<machine, node, doubted, leader>> /\ <<n, Current(n)>> \in Places[v]
  BY DEF VolumeStep, machineVars
<1>3. K \in Keys /\ Started(K) /\ ~Vanished(K) /\ K.node = n /\ K.vol = v
  BY <1>1, <1>2, CurrentKey, CurrentIsNotVanished DEF Key
<1>4. PICK r \in VolRec : vol' = [vol EXCEPT ![n][v] = r]
  BY DEF VolumeStep
<1>5. PICK c \in ConfigMapRec :
        /\ configMap' = [configMap EXCEPT ![n] = c]
        /\ \A key : key # K => (key \in c.keys <=> key \in configMap[n].keys)
  BY DEF VolumeStep
<1>6. \A key : key # K => (key \in locks' <=> key \in locks)
  BY DEF VolumeStep
<1>7. /\ vol \in [Nodes -> [Vols -> VolRec]] /\ configMap \in [Nodes -> ConfigMapRec]
      /\ locks \subseteq Keys
  BY <1>1 DEF NodeTypeOK
<1>8. /\ vol' \in [Nodes -> [Vols -> VolRec]] /\ vol'[n][v] = r
      /\ \A m \in Nodes, u \in Vols : m # n \/ u # v => vol'[m][u] = vol[m][u]
  BY <1>4, <1>7
<1>9. /\ configMap' \in [Nodes -> ConfigMapRec] /\ configMap'[n] = c
      /\ \A m \in Nodes : m # n => configMap'[m] = configMap[m]
  BY <1>5, <1>7
<1>10. TypeOK'
  <2>1. locks' \subseteq Keys
    BY <1>3, <1>6, <1>7
  <2>2. NodeTypeOK'
    BY <1>1, <1>2, <1>8, <1>9, <2>1 DEF NodeTypeOK, VolumeStep, Up, Current
  <2> QED
    BY <1>1, <1>2, <2>2 DEF TypeOK
<1>11. KeysOfMachines'
  <2>1. \A l \in locks' : Started(l)'
    BY <1>1, <1>2, <1>3, <1>6 DEF KeysOfMachines, Started, Current
  <2>2. ASSUME NEW m \in Nodes, NEW key \in configMap'[m].keys
        PROVE  key.node = m /\ Started(key)'
    BY <1>1, <1>2, <1>3, <1>5, <1>9, <2>2 DEF KeysOfMachines, Started, Current
  <2>3. \A key \in leader'.listed : Started(key)'
    BY <1>1, <1>2 DEF KeysOfMachines, Started, Current
  <2> QED
    BY <2>1, <2>2, <2>3 DEF KeysOfMachines
<1>12. MountsOK'
  <2> SUFFICES ASSUME NEW m \in Nodes, NEW u \in Vols, m # n \/ u # v
               PROVE  MountOK(m, u)' /\ Recorded(m, u)'
    BY DEF MountsOK
  <2>1. MountOK(m, u) /\ Recorded(m, u) /\ vol'[m][u] = vol[m][u] /\ Key(m, u) # K
    BY <1>1, <1>8 DEF MountsOK, Key
  <2>2. MountOK(m, u)'
    BY <1>2, <1>6, <2>1 DEF MountOK, Key, Up, Current
  <2>3. Recorded(m, u)'
    BY <1>2, <1>5, <1>9, <2>1 DEF Recorded, Key, Current, Doubted
  <2> QED
    BY <2>2, <2>3
<1>13. LocksRecorded'
  <2>1. ASSUME NEW l \in locks', l # K PROVE l \in configMap'[l.node].keys \/ Doubted(l)'
    <3>1. l \in locks /\ (l \in configMap[l.node].keys \/ Doubted(l)) /\ l.node \in Nodes
      BY <1>1, <1>6, <1>7, <2>1, KeyType DEF LocksRecorded
    <3> QED
      BY <1>2, <1>5, <1>9, <2>1, <3>1 DEF Doubted
  <2>2. ASSUME NEW l \in locks', l = K PROVE l \in configMap'[l.node].keys \/ Doubted(l)'
    <3>1. Up(n)' /\ Key(n, v)' = K
      BY <1>2 DEF Up, Key, Current
    <3>2. vol'[n][v].bound # {}
      BY <2>2, <3>1 DEF MountOK
    <3>3. vol'[n][v].phase = "staged"
      BY <3>2 DEF MountOK
    <3>4. K \in configMap'[n].keys \/ K.machine \in doubted'[K.node]
      BY <3>1, <3>3 DEF Recorded, Doubted
    <3> QED
      BY <1>3, <2>2, <3>4 DEF Doubted
  <2> QED
    BY <2>1, <2>2 DEF LocksRecorded, Doubted
<1>14. LeaderOK'
  <2>1. ASSUME NEW w \in Workers, NEW key \in leader.worker[w].released
        PROVE  Doubted(key) \/ (Vanished(key) /\ key \notin locks')
    BY <1>1, <1>3, <1>6 DEF LeaderOK, WorkerOK
  <2>2. ASSUME NEW w \in Workers PROVE WorkerOK(w, leader.worker[w])'
    BY <1>1, <1>2, <2>1 DEF LeaderOK, WorkerOK, EventOK, Superseded, Started, Unsure, UnsureMachine,
                            Vanished, Gone, Doubted, Up, Current
  <2>3. \A m \in Nodes : InformerOK(m)'
    BY <1>1, <1>2 DEF LeaderOK, InformerOK, Superseded, UnsureMachine, Gone, Up, Current
  <2>4. \A e \in leader.queue : EventOK(e)'
    BY <1>1, <1>2 DEF LeaderOK, EventOK, Superseded, UnsureMachine, Gone, Up, Current
  <2> QED
    BY <1>1, <1>2, <2>2, <2>3, <2>4 DEF LeaderOK, Idling
<1>15. NodesOK'
  BY <1>1, <1>2 DEF NodesOK, Up, Current
<1> QED
  BY <1>10, <1>11, <1>12, <1>13, <1>14, <1>15 DEF LockInv

\* What a handler and a pod may find when they start on a volume.
LEMMA VolumeFacts ==
  ASSUME LockInv, NEW n \in Nodes, NEW v \in Vols, vol[n][v].phase # "unstaged"
  PROVE  Up(n) /\ <<n, Current(n)>> \in Places[v] /\ Key(n, v) \in Keys
<1>1. MountOK(n, v) /\ NodeTypeOK
  BY DEF LockInv, MountsOK, TypeOK
<1>2. Up(n) /\ <<n, Current(n)>> \in Places[v]
  <2>1. NotStaged.phase = "unstaged"
    BY DEF NotStaged
  <2>2. Up(n)
    BY <1>1, <2>1 DEF MountOK
  <2> QED
    BY <1>1, <2>2 DEF MountOK
<1> QED
  BY <1>1, <1>2, CurrentKey

\* Calls that have not changed the ConfigMap or a lock.
LEMMA MountCallsKeepInv ==
  ASSUME LockInv, NEW n \in Nodes, NEW v \in Vols, UNCHANGED leader,
         \/ StageMounts(n, v) \/ UnstageUnmounts(n, v) \/ CallFails(n, v)
         \/ \E t \in Targets : PublishBinds(n, v, t) \/ PublishFails(n, v, t)
  PROVE  LockInv'
<1> DEFINE r == vol[n][v]
           K == Key(n, v)
<1>1. /\ r \in VolRec /\ configMap \in [Nodes -> ConfigMapRec] /\ configMap[n] \in ConfigMapRec
      /\ MountOK(n, v) /\ Recorded(n, v) /\ vol \in [Nodes -> [Vols -> VolRec]]
      /\ faults \in 0..MaxFaults /\ MaxFaults \in Nat /\ NodeTypeOK
  BY NodeAssumption DEF LockInv, TypeOK, NodeTypeOK, MountsOK
<1>2. UNCHANGED <<machine, node, doubted, configMap, locks, leader>>
  BY DEF machineVars, StageMounts, UnstageUnmounts, CallFails, PublishBinds, PublishFails
<1>3. Up(n) /\ <<n, Current(n)>> \in Places[v]
  <2>1. CASE StageMounts(n, v)
    BY <2>1 DEF StageMounts
  <2>2. CASE r.phase # "unstaged"
    BY <2>2, VolumeFacts
  <2>3. CASE r.call # ""
    BY <1>1, <2>3, VolumeFacts DEF MountOK, VolRec
  <2> QED
    BY <2>1, <2>2, <2>3 DEF UnstageUnmounts, CallFails, PublishBinds, PublishFails
<1>4. faults' \in 0..MaxFaults
  <2>1. faults' = faults \/ Fault
    BY DEF StageMounts, UnstageUnmounts, CallFails, PublishBinds, PublishFails
  <2> QED
    BY <1>1, <2>1 DEF Fault
<1>5. ASSUME NEW q \in VolRec, vol' = [vol EXCEPT ![n][v] = q],
             q.phase # "unstaged" => r.phase # "unstaged" \/ <<n, Current(n)>> \in Places[v],
             q.call = "stage" => q.phase = "staging" /\ q.copy = configMap[n],
             q.call = "unstage" => q.phase = "unstaging",
             q.phase = "staged" => r.phase = "staged",
             q.bound # {} => q.phase = "staged" /\ q.call = "",
             q.bound = {} => r.bound = {}
      PROVE  LockInv'
  <2>1. vol'[n][v] = q
    BY <1>1, <1>5
  <2>2. MountOK(n, v)'
    BY <1>1, <1>2, <1>3, <1>5, <2>1 DEF MountOK, Up, Current, Key
  <2>3. Recorded(n, v)'
    BY <1>1, <1>2, <1>5, <2>1 DEF Recorded, Key, Current, Doubted
  <2>4. VolumeStep(n, v)
    <3>1. configMap' = [configMap EXCEPT ![n] = configMap[n]]
      BY <1>1, <1>2
    <3>2. K \in Keys
      BY <1>1, <1>3, CurrentKey
    <3> QED
      BY <1>1, <1>2, <1>3, <1>4, <1>5, <3>1, <3>2 DEF VolumeStep, machineVars
  <2> QED
    BY <2>2, <2>3, <2>4, VolumeStepKeepsInv
<1>6. CASE StageMounts(n, v)
  <2> DEFINE q == [r EXCEPT !.phase = "staging", !.mounted = TRUE,
                            !.call = "stage", !.copy = configMap[n]]
  <2>1. q \in VolRec /\ q.phase = "staging" /\ q.call = "stage" /\ q.copy = configMap[n] /\ q.bound = r.bound
    BY <1>1 DEF VolRec
  <2>2. vol' = [vol EXCEPT ![n][v] = q] /\ r.phase \in {"unstaged", "staging"}
    BY <1>6 DEF StageMounts, Sets
  <2> HIDE DEF q
  <2> QED
    BY <1>1, <1>3, <1>5, <2>1, <2>2 DEF MountOK
<1>7. CASE UnstageUnmounts(n, v)
  <2> DEFINE q == [r EXCEPT !.phase = "unstaging", !.mounted = FALSE,
                            !.call = "unstage", !.copy = configMap[n]]
  <2>1. q \in VolRec /\ q.phase = "unstaging" /\ q.call = "unstage" /\ q.bound = r.bound
    BY <1>1 DEF VolRec
  <2>2. vol' = [vol EXCEPT ![n][v] = q] /\ r.bound = {}
    BY <1>7 DEF UnstageUnmounts, Sets
  <2> HIDE DEF q
  <2> QED
    BY <1>1, <1>3, <1>5, <2>1, <2>2
<1>8. CASE CallFails(n, v)
  <2> DEFINE q == [r EXCEPT !.phase = r.phase, !.call = "", !.copy = NoConfigMap]
  <2>1. q \in VolRec /\ q.phase = r.phase /\ q.call = "" /\ q.bound = r.bound
    BY <1>1 DEF VolRec, NoConfigMap, ConfigMapRec
  <2>2. vol' = [vol EXCEPT ![n][v] = q]
    BY <1>8 DEF CallFails, Returns, Sets
  <2> HIDE DEF q
  <2> QED
    BY <1>1, <1>3, <1>5, <2>1, <2>2 DEF MountOK
<1>9. ASSUME NEW t \in Targets, PublishBinds(n, v, t) PROVE LockInv'
  <2> DEFINE q == [r EXCEPT !.bound = @ \cup {t}]
  <2>1. q \in VolRec /\ q.phase = r.phase /\ q.call = r.call /\ q.bound = r.bound \cup {t}
    BY <1>1 DEF VolRec
  <2>2. vol' = [vol EXCEPT ![n][v] = q] /\ r.phase = "staged" /\ r.call = ""
    BY <1>9 DEF PublishBinds, Sets
  <2> HIDE DEF q
  <2> QED
    BY <1>1, <1>3, <1>5, <2>1, <2>2
<1>10. ASSUME NEW t \in Targets, PublishFails(n, v, t) PROVE LockInv'
  <2> DEFINE q == [r EXCEPT !.mounted = FALSE]
  <2>1. q \in VolRec /\ q.phase = r.phase /\ q.call = r.call /\ q.bound = r.bound
    BY <1>1 DEF VolRec
  <2>2. vol' = [vol EXCEPT ![n][v] = q] /\ r.phase = "staged" /\ r.call = ""
    BY <1>10 DEF PublishFails, Sets
  <2> HIDE DEF q
  <2> QED
    BY <1>1, <1>3, <1>5, <2>1, <2>2
<1> QED
  BY <1>6, <1>7, <1>8, <1>9, <1>10

\* Calls that store what they have read and changed, if nobody else has changed it.
LEMMA StoresKeepInv ==
  ASSUME LockInv, NEW n \in Nodes, NEW v \in Vols, UNCHANGED leader,
         StageStores(n, v) \/ UnstageRemoves(n, v)
  PROVE  LockInv'
<1> DEFINE r == vol[n][v]
           K == Key(n, v)
           Left(phase) == [r EXCEPT !.phase = phase, !.call = "", !.copy = NoConfigMap]
<1>1. /\ r \in VolRec /\ configMap \in [Nodes -> ConfigMapRec] /\ configMap[n] \in ConfigMapRec
      /\ MountOK(n, v) /\ Recorded(n, v) /\ vol \in [Nodes -> [Vols -> VolRec]]
      /\ faults \in 0..MaxFaults /\ NodeTypeOK
  BY DEF LockInv, TypeOK, NodeTypeOK, MountsOK
<1>2. UNCHANGED <<machine, node, doubted, locks, faults, leader>>
  BY DEF machineVars, StageStores, UnstageRemoves
<1>3. /\ r.call \in {"stage", "unstage"} /\ r.phase # "unstaged" /\ r.bound = {}
      /\ r.call = "stage" => r.phase = "staging"
  BY <1>1 DEF MountOK, StageStores, UnstageRemoves
<1>4. Up(n) /\ <<n, Current(n)>> \in Places[v] /\ K \in Keys
  BY <1>3, VolumeFacts
<1>5. ASSUME NEW phase \in {"unstaged", "staging", "staged", "unstaging"}, Returns(n, v, phase),
             NEW c \in ConfigMapRec, configMap' = [configMap EXCEPT ![n] = c],
             \A key : key # K => (key \in c.keys <=> key \in configMap[n].keys),
             phase = "staged" => K \in c.keys \/ Doubted(K)
      PROVE  LockInv'
  <2>1. Left(phase) \in VolRec /\ Left(phase).phase = phase /\ Left(phase).call = "" /\ Left(phase).bound = {}
    BY <1>1, <1>3 DEF VolRec, NoConfigMap, ConfigMapRec
  <2> HIDE DEF Left
  <2>2. vol' = [vol EXCEPT ![n][v] = Left(phase)] /\ vol'[n][v] = Left(phase)
    BY <1>1, <1>5 DEF Returns, Sets, Left
  <2>3. MountOK(n, v)'
    BY <1>1, <1>2, <1>3, <1>4, <2>1, <2>2 DEF MountOK, Up, Current, Key
  <2>4. Recorded(n, v)'
    <3>1. configMap'[n] = c
      BY <1>1, <1>5
    <3> QED
      BY <1>2, <1>5, <2>1, <2>2, <3>1 DEF Recorded, Key, Current, Doubted
  <2>5. VolumeStep(n, v)
    BY <1>1, <1>2, <1>4, <1>5, <2>1, <2>2 DEF VolumeStep, machineVars
  <2> QED
    BY <2>3, <2>4, <2>5, VolumeStepKeepsInv
<1> HIDE DEF Left
<1>6. ASSUME NEW phase \in {"unstaged", "staging", "staged", "unstaging"}, Returns(n, v, phase),
             UNCHANGED configMap, phase = "staged" => K \in configMap[n].keys \/ Doubted(K)
      PROVE  LockInv'
  <2>1. configMap' = [configMap EXCEPT ![n] = configMap[n]]
    BY <1>1, <1>6
  <2> QED
    BY <1>1, <1>5, <1>6, <2>1
<1>7. CASE StageStores(n, v)
  <2>1. r.call = "stage" /\ StoreLockInfo(n, v)
    BY <1>7 DEF StageStores
  <2>2. CASE K \in r.copy.keys
    <3>1. Returns(n, v, "staged") /\ UNCHANGED configMap
      BY <2>1, <2>2 DEF StoreLockInfo
    <3>2. K \in configMap[n].keys \/ Doubted(K)
      BY <1>1, <2>1, <2>2 DEF Recorded
    <3> QED
      BY <1>6, <3>1, <3>2
  <2>3. CASE K \notin r.copy.keys /\ configMap[n] = r.copy
    <3> DEFINE c == [exists |-> TRUE, keys |-> configMap[n].keys \cup {K}]
    <3>1. c \in ConfigMapRec /\ c.keys = configMap[n].keys \cup {K}
      BY <1>1, <1>4 DEF ConfigMapRec
    <3>2. Returns(n, v, "staged") /\ configMap' = [configMap EXCEPT ![n] = c]
      BY <2>1, <2>3 DEF StoreLockInfo
    <3> HIDE DEF c
    <3> QED
      BY <1>5, <3>1, <3>2
  <2>4. CASE K \notin r.copy.keys /\ configMap[n] # r.copy
    <3>1. Returns(n, v, "staging") /\ UNCHANGED configMap
      BY <2>1, <2>4 DEF StoreLockInfo
    <3> QED
      BY <1>6, <3>1
  <2> QED
    BY <2>2, <2>3, <2>4
<1>8. CASE UnstageRemoves(n, v)
  <2>1. CASE K \notin r.copy.keys
    <3>1. Returns(n, v, "unstaged") /\ UNCHANGED configMap
      BY <1>8, <2>1 DEF UnstageRemoves
    <3> QED
      BY <1>6, <3>1
  <2>2. CASE K \in r.copy.keys /\ configMap[n] = r.copy
    <3> DEFINE c == [configMap[n] EXCEPT !.keys = @ \ {K}]
    <3>1. c \in ConfigMapRec /\ c.keys = configMap[n].keys \ {K}
      BY <1>1 DEF ConfigMapRec
    <3>2. Returns(n, v, "unstaged") /\ configMap' = [configMap EXCEPT ![n] = c]
      BY <1>8, <2>2 DEF UnstageRemoves
    <3> HIDE DEF c
    <3> QED
      BY <1>5, <3>1, <3>2
  <2>3. CASE K \in r.copy.keys /\ configMap[n] # r.copy
    <3>1. Returns(n, v, "unstaging") /\ UNCHANGED configMap
      BY <1>8, <2>3 DEF UnstageRemoves
    <3> QED
      BY <1>6, <3>1
  <2> QED
    BY <2>1, <2>2, <2>3
<1> QED
  BY <1>7, <1>8

\* Pods lock what is bound, and the last that goes takes the locks with it.
LEMMA PodsKeepInv ==
  ASSUME LockInv, NEW n \in Nodes, NEW v \in Vols, UNCHANGED leader,
         TakesLock(n, v) \/ \E t \in Targets : Unpublish(n, v, t)
  PROVE  LockInv'
<1> DEFINE r == vol[n][v]
           K == Key(n, v)
<1>1. /\ r \in VolRec /\ configMap \in [Nodes -> ConfigMapRec] /\ configMap[n] \in ConfigMapRec
      /\ MountOK(n, v) /\ Recorded(n, v) /\ vol \in [Nodes -> [Vols -> VolRec]]
      /\ faults \in 0..MaxFaults /\ NodeTypeOK
  BY DEF LockInv, TypeOK, NodeTypeOK, MountsOK
<1>2. UNCHANGED <<machine, node, doubted, configMap, faults, leader>>
  BY DEF machineVars, TakesLock, Unpublish
<1>3. r.bound # {} /\ r.phase = "staged" /\ r.call = ""
  BY <1>1 DEF MountOK, TakesLock, Unpublish
<1>4. Up(n) /\ <<n, Current(n)>> \in Places[v] /\ K \in Keys
  BY <1>3, VolumeFacts
<1>5. ASSUME NEW q \in VolRec, vol' = [vol EXCEPT ![n][v] = q],
             q.phase = "staged", q.call = "",
             q.bound = {} => K \notin locks',
             \A key : key # K => (key \in locks' <=> key \in locks)
      PROVE  LockInv'
  <2>1. vol'[n][v] = q
    BY <1>1, <1>5
  <2>2. MountOK(n, v)'
    BY <1>2, <1>4, <1>5, <2>1 DEF MountOK, Up, Current, Key
  <2>3. Recorded(n, v)'
    BY <1>1, <1>2, <1>3, <1>5, <2>1 DEF Recorded, Key, Current, Doubted
  <2>4. VolumeStep(n, v)
    <3>1. configMap' = [configMap EXCEPT ![n] = configMap[n]]
      BY <1>1, <1>2
    <3> QED
      BY <1>1, <1>2, <1>4, <1>5, <3>1 DEF VolumeStep, machineVars
  <2> QED
    BY <2>2, <2>3, <2>4, VolumeStepKeepsInv
<1>6. CASE TakesLock(n, v)
  <2>1. vol' = [vol EXCEPT ![n][v] = r]
    BY <1>1, <1>6 DEF TakesLock
  <2> QED
    BY <1>1, <1>3, <1>5, <1>6, <2>1 DEF TakesLock
<1>7. ASSUME NEW t \in Targets, Unpublish(n, v, t) PROVE LockInv'
  <2> DEFINE q == [r EXCEPT !.bound = @ \ {t}]
  <2>1. q \in VolRec /\ q.phase = r.phase /\ q.call = r.call /\ q.bound = r.bound \ {t}
    BY <1>1 DEF VolRec
  <2>2. vol' = [vol EXCEPT ![n][v] = q] /\ t \in r.bound
    BY <1>7 DEF Unpublish, Sets
  <2>3. /\ r.bound = {t} => locks' = locks \ {K}
        /\ r.bound # {t} => locks' = locks
    BY <1>7 DEF Unpublish
  <2> HIDE DEF q
  <2> QED
    BY <1>3, <1>5, <2>1, <2>2, <2>3
<1> QED
  BY <1>6, <1>7
-----------------------------------------------------------------------------
(* Machines come and go, and their Node objects with them. *)

\* An object of this state is superseded in the next one.
SupersededNext(n, object) ==
  object.names # 0 => \/ object.names < machine'[n].number
                      \/ object.names = machine'[n].number /\ ~machine'[n].up
                      \/ object.names \in doubted'[n]

\* What has vanished or is doubted stays so, and a Node does not cease to name a machine
\* before.
MachinesGo ==
  /\ \A m \in Nodes : /\ Current(m) \in Nat /\ Current(m)' \in Nat /\ Current(m) <= Current(m)'
                      /\ \A k \in Nat : Gone(m, k) => Gone(m, k)'
                      /\ doubted[m] \subseteq doubted'[m]
  /\ node \in [Nodes -> NodeObject] /\ node' \in [Nodes -> NodeObject]
  /\ \A m \in Nodes : \A object \in NodeObject :
       object = node[m] /\ node'[m] # node[m] => SupersededNext(m, object)

\* The keys of machines that have vanished, or are doubted, and superseded Node objects
\* stay so.
LEMMA UnsureStays ==
  ASSUME MachinesGo
  PROVE  /\ \A m \in Nodes : \A k \in Nat : UnsureMachine(m, k) => UnsureMachine(m, k)'
         /\ \A m \in Nodes : \A object \in NodeObject : Superseded(m, object) => SupersededNext(m, object)
         /\ \A key \in Keys : /\ Started(key) => Started(key)'
                              /\ Vanished(key) => Vanished(key)'
                              /\ Unsure(key) => Unsure(key)'
                              /\ Doubted(key) => Doubted(key)'
<1>1. ASSUME NEW m \in Nodes, NEW k \in Nat, UnsureMachine(m, k) PROVE UnsureMachine(m, k)'
  <2>1. (Gone(m, k) => Gone(m, k)') /\ doubted[m] \subseteq doubted'[m]
    BY DEF MachinesGo
  <2> QED
    BY <1>1, <2>1 DEF UnsureMachine
<1>2. ASSUME NEW m \in Nodes, NEW object \in NodeObject, Superseded(m, object)
      PROVE  SupersededNext(m, object)
  <2>1. object.names \in Nat
    BY NodeObjectType
  <2>2. UnsureMachine(m, object.names) => UnsureMachine(m, object.names)'
    BY <1>1, <2>1
  <2> QED
    BY <1>2, <2>2 DEF Superseded, SupersededNext, UnsureMachine, Gone, Up, Current
<1>3. ASSUME NEW key \in Keys
      PROVE  /\ Started(key) => Started(key)'
             /\ Vanished(key) => Vanished(key)'
             /\ Unsure(key) => Unsure(key)'
             /\ Doubted(key) => Doubted(key)'
  <2>1. key.node \in Nodes /\ key.machine \in Nat
    BY KeyType
  <2>2. /\ Gone(key.node, key.machine) => Gone(key.node, key.machine)'
        /\ doubted[key.node] \subseteq doubted'[key.node]
        /\ Current(key.node) \in Nat /\ Current(key.node)' \in Nat
        /\ Current(key.node) <= Current(key.node)'
    BY <2>1 DEF MachinesGo
  <2>3. UnsureMachine(key.node, key.machine) => UnsureMachine(key.node, key.machine)'
    BY <1>1, <2>1
  <2> QED
    BY <2>1, <2>2, <2>3 DEF Started, Vanished, Unsure, Doubted
<1> QED
  BY <1>1, <1>2, <1>3

\* What follows a Node object that the informer knows, or is to learn, supersedes it.
LEMMA WatchedKeepsLeader ==
  ASSUME LockInv, MachinesGo, Watched, UNCHANGED locks
  PROVE  /\ leader' \in LeaderRec /\ LeaderOK'
         /\ leader'.worker = leader.worker /\ leader'.listed = leader.listed
<1> DEFINE extended == [n \in Nodes |-> IF node'[n] = node[n] THEN leader.pending[n]
                                        ELSE Append(leader.pending[n], node'[n])]
           pending == IF leader.version = "new" THEN extended ELSE leader.pending
<1>1. /\ leader \in LeaderRec /\ LeaderOK /\ leader.pending \in [Nodes -> Seq(NodeObject)]
      /\ leader.seen \in [Nodes -> NodeObject] /\ leader.queue \subseteq Events
      /\ \A w \in Workers : leader.worker[w] \in WorkerRec
  BY DEF LockInv, TypeOK, LeaderRec
<1>2. node' \in [Nodes -> NodeObject]
  BY DEF MachinesGo
<1>3. pending \in [Nodes -> Seq(NodeObject)]
  BY <1>1, <1>2
<1>4. \A m \in Nodes : pending[m] = IF leader.version = "new" /\ node'[m] # node[m]
                                    THEN Append(leader.pending[m], node'[m]) ELSE leader.pending[m]
  BY <1>1
<1>5. leader' = [leader EXCEPT !.pending = pending]
  BY <1>1 DEF Watched, LeaderRec
<1> HIDE DEF extended, pending
<1>6. /\ leader' \in LeaderRec /\ leader'.worker = leader.worker /\ leader'.listed = leader.listed
      /\ leader'.seen = leader.seen /\ leader'.queue = leader.queue /\ leader'.pending = pending
      /\ leader'.version = leader.version /\ leader'.looping = leader.looping
  BY <1>1, <1>3, <1>5 DEF LeaderRec
<1>7. ASSUME NEW m \in Nodes PROVE InformerOK(m)'
  <2> DEFINE later == leader.pending[m]
             seen == leader.seen[m]
  <2>1. later \in Seq(NodeObject) /\ seen \in NodeObject /\ node[m] \in NodeObject /\ node'[m] \in NodeObject
    BY <1>1, <1>2 DEF MachinesGo
  <2>2. /\ leader.version # "new" => later = <<>>
        /\ later # <<>> => /\ Superseded(m, seen)
                           /\ \A i \in 1..Len(later) - 1 : Superseded(m, later[i])
                           /\ later[Len(later)] = node[m]
        /\ leader.version = "new" /\ later = <<>> => seen = node[m]
    BY <1>1 DEF LeaderOK, InformerOK
  <2>3. \A object \in NodeObject : Superseded(m, object) => SupersededNext(m, object)
    BY UnsureStays
  <2>4. node'[m] # node[m] => SupersededNext(m, node[m])
    BY <2>1 DEF MachinesGo
  <2> DEFINE then == pending[m]
  <2>5. /\ leader.version # "new" => then = <<>>
        /\ then # <<>> => /\ SupersededNext(m, seen)
                          /\ \A i \in 1..Len(then) - 1 : SupersededNext(m, then[i])
                          /\ then[Len(then)] = node'[m]
        /\ leader.version = "new" /\ then = <<>> => seen = node'[m]
    <3>1. \A i \in 1..Len(later) : later[i] \in NodeObject
      BY <2>1
    <3>2. CASE then = later /\ (leader.version # "new" \/ node'[m] = node[m])
      <4>1. ASSUME later # <<>>, NEW i \in 1..Len(later) - 1 PROVE SupersededNext(m, later[i])
        <5>1. i \in 1..Len(later)
          BY <2>1, <4>1
        <5> QED
          BY <2>2, <2>3, <3>1, <4>1, <5>1
      <4> QED
        BY <2>1, <2>2, <2>3, <3>2, <4>1
    <3>3. CASE then = Append(later, node'[m]) /\ leader.version = "new" /\ node'[m] # node[m]
      <4>1. /\ Len(then) = Len(later) + 1 /\ Len(later) \in Nat /\ then # <<>> /\ then[Len(then)] = node'[m]
            /\ \A i \in 1..Len(later) : then[i] = later[i]
        <5> HIDE DEF then, later
        <5>1. Len(then) = Len(later) + 1 /\ Len(later) \in Nat
          BY <2>1, <3>3
        <5>2. then # <<>>
          BY <2>1, <3>3
        <5>3. then[Len(then)] = node'[m]
          BY <2>1, <3>3, <5>1
        <5>4. \A i \in 1..Len(later) : then[i] = later[i]
          BY <2>1, <3>3
        <5> QED
          BY <5>1, <5>2, <5>3, <5>4
      <4>2. SupersededNext(m, seen)
        BY <2>1, <2>2, <2>3, <2>4, <3>3
      <4>3. ASSUME NEW i \in 1..Len(later) PROVE SupersededNext(m, later[i])
        <5>1. CASE i = Len(later)
          BY <2>1, <2>2, <2>4, <3>3, <4>3, <5>1
        <5>2. CASE i \in 1..Len(later) - 1
          BY <2>1, <2>2, <2>3, <3>1, <4>3, <5>2
        <5> QED
          BY <4>1, <5>1, <5>2
      <4> QED
        BY <3>3, <4>1, <4>2, <4>3
    <3> QED
      BY <1>4, <3>2, <3>3
  <2> HIDE DEF then
  <2>6. leader'.pending[m] = then /\ leader'.seen[m] = seen /\ leader'.version = leader.version
    BY <1>6 DEF then
  <2> QED
    BY <2>5, <2>6 DEF InformerOK, Superseded, SupersededNext, UnsureMachine, Gone, Up, Current
<1>8. \A e \in leader'.queue : EventOK(e)'
  <2> SUFFICES ASSUME NEW e \in leader.queue PROVE EventOK(e)'
    BY <1>6
  <2>1. e.node \in Nodes /\ e.old \in NodeObject /\ EventOK(e)
    BY <1>1 DEF Events, LeaderOK
  <2>2. Superseded(e.node, e.old) => SupersededNext(e.node, e.old)
    BY <2>1, UnsureStays
  <2> QED
    BY <2>1, <2>2 DEF EventOK, Superseded, SupersededNext, UnsureMachine, Gone, Up, Current
<1>9. ASSUME NEW w \in Workers PROVE WorkerOK(w, leader.worker[w])'
  <2> DEFINE r == leader.worker[w]
  <2>1. r \in WorkerRec /\ WorkerOK(w, r) /\ r.events \subseteq Events /\ r.todo \subseteq Keys /\ r.released \subseteq Keys
    BY <1>1 DEF LeaderOK, WorkerRec
  <2>2. leader'.worker[w] = r
    BY <1>6
  <2>3. ASSUME NEW e \in r.events PROVE EventOK(e)'
    <3>1. e.node \in Nodes /\ e.old \in NodeObject /\ EventOK(e)
      BY <2>1 DEF Events, WorkerOK
    <3>2. Superseded(e.node, e.old) => SupersededNext(e.node, e.old)
      BY <3>1, UnsureStays
    <3> QED
      BY <3>1, <3>2 DEF EventOK, Superseded, SupersededNext, UnsureMachine, Gone, Up, Current
  <2>4. ASSUME NEW key \in r.todo PROVE Started(key)' /\ (w # "create" => Unsure(key)')
    BY <2>1, UnsureStays DEF WorkerOK
  <2>5. ASSUME NEW key \in r.released PROVE Doubted(key)' \/ (Vanished(key)' /\ key \notin locks')
    BY <2>1, UnsureStays DEF WorkerOK
  <2> QED
    BY <2>2, <2>3, <2>4, <2>5 DEF WorkerOK
<1>10. LeaderOK'
  BY <1>1, <1>6, <1>7, <1>8, <1>9 DEF LeaderOK, Idling
<1> QED
  BY <1>6, <1>10

\* It suffices that the machines go on, and that mounts and Node objects stay right.
LEMMA MachinesKeepInv ==
  ASSUME LockInv, MachinesGo, Watched, UNCHANGED <<configMap, locks>>, NodeTypeOK', NodesOK', MountsOK'
  PROVE  LockInv'
<1>1. /\ TypeOK /\ KeysOfMachines /\ LocksRecorded /\ locks \subseteq Keys
      /\ configMap \in [Nodes -> ConfigMapRec] /\ leader.listed \subseteq Keys
  BY DEF LockInv, TypeOK, NodeTypeOK, LeaderRec
<1>2. /\ leader' \in LeaderRec /\ LeaderOK'
      /\ leader'.worker = leader.worker /\ leader'.listed = leader.listed
  BY WatchedKeepsLeader
<1>3. TypeOK'
  BY <1>1, <1>2 DEF TypeOK
<1>4. KeysOfMachines'
  BY <1>1, <1>2, UnsureStays DEF KeysOfMachines, ConfigMapRec
<1>5. LocksRecorded'
  <2> SUFFICES ASSUME NEW l \in locks PROVE l \in configMap[l.node].keys \/ Doubted(l)'
    BY DEF LocksRecorded
  <2>1. l \in Keys /\ (l \in configMap[l.node].keys \/ Doubted(l))
    BY <1>1 DEF LocksRecorded
  <2> QED
    BY <2>1, UnsureStays
<1> QED
  BY <1>2, <1>3, <1>4, <1>5 DEF LockInv

LEMMA FaultsStayTyped ==
  ASSUME LockInv, UNCHANGED faults \/ Fault
  PROVE  faults' \in 0..MaxFaults
<1>1. faults \in 0..MaxFaults /\ MaxFaults \in Nat
  BY NodeAssumption DEF LockInv, TypeOK, NodeTypeOK
<1> QED
  BY <1>1 DEF Fault

\* A machine that its Node does not name is doubted.
LEMMA RegistersIsRight ==
  ASSUME LockInv, NEW n \in Nodes, NEW k \in 1..Machines[n],
         NEW object \in {Naming(k), node[n]} \cup Lapses[n][k], Registers(n, k, object)
  PROVE  /\ node' = [node EXCEPT ![n] = object] /\ node' \in [Nodes -> NodeObject]
         /\ object \in NodeObject /\ (object = Naming(k) \/ object.names = 0 \/ object = node[n])
         /\ object.names = k \/ k \in doubted'[n]
         /\ doubted' \in [Nodes -> SUBSET Nat] /\ doubted[n] \subseteq doubted'[n]
         /\ \A m \in Nodes : m # n => doubted'[m] = doubted[m]
         /\ faults' \in 0..MaxFaults
<1>1. /\ node \in [Nodes -> NodeObject] /\ doubted \in [Nodes -> SUBSET Nat]
      /\ Machines[n] \in Nat /\ Lapses[n][k] \subseteq {Absent, Bare, Unnamed}
  BY NodeAssumption DEF LockInv, TypeOK, NodeTypeOK
<1>2. object \in NodeObject /\ (object = Naming(k) \/ object.names = 0 \/ object = node[n])
  <2>1. CASE object \in {Absent, Bare, Unnamed}
    <3>1. 0 \in 0..Machines[n] /\ Naming(0).names = 0
      BY <1>1 DEF Naming
    <3> QED
      BY <2>1, <3>1, SomeNodeObjects DEF Unnamed
  <2>2. CASE object = Naming(k)
    BY <1>1, <2>2, SomeNodeObjects
  <2>3. CASE object = node[n]
    BY <1>1, <2>3
  <2> QED
    BY <1>1, <2>1, <2>2, <2>3
<1>3. node' = [node EXCEPT ![n] = object] /\ node' \in [Nodes -> NodeObject]
  BY <1>1, <1>2 DEF Registers
<1>4. CASE object = Naming(k)
  <2>1. UNCHANGED <<doubted, faults>>
    BY <1>4 DEF Registers
  <2>2. object.names = k
    BY <1>4 DEF Naming
  <2> QED
    BY <1>1, <1>2, <1>3, <2>1, <2>2, FaultsStayTyped
<1>5. CASE object # Naming(k)
  <2>1. Fault /\ doubted' = [doubted EXCEPT ![n] = @ \cup {k}]
    BY <1>5 DEF Registers
  <2>2. k \in Nat
    BY <1>1
  <2>3. /\ doubted' \in [Nodes -> SUBSET Nat] /\ doubted'[n] = doubted[n] \cup {k}
        /\ \A m \in Nodes : m # n => doubted'[m] = doubted[m]
    BY <1>1, <2>1, <2>2
  <2> QED
    BY <1>2, <1>3, <2>1, <2>3, FaultsStayTyped
<1> QED
  BY <1>4, <1>5

\* Mounts of nodes whose machine stays as it is.
LEMMA OtherMountsStay ==
  ASSUME NEW m \in Nodes, NEW v \in Vols, MountOK(m, v), Recorded(m, v),
         machine'[m] = machine[m], vol'[m] = vol[m], doubted[m] \subseteq doubted'[m],
         UNCHANGED <<configMap, locks>>
  PROVE  MountOK(m, v)' /\ Recorded(m, v)'
<1>1. (Up(m)' <=> Up(m)) /\ Current(m)' = Current(m) /\ Key(m, v)' = Key(m, v)
  BY DEF Up, Current, Key
<1>2. MountOK(m, v)'
  BY <1>1 DEF MountOK
<1>3. Key(m, v).node = m
  BY DEF Key
<1>4. Recorded(m, v)'
  BY <1>1, <1>3 DEF Recorded, Doubted
<1> QED
  BY <1>2, <1>4

LEMMA NotStagedMounts == /\ NotStaged \in VolRec /\ NotStaged.phase = "unstaged"
                         /\ NotStaged.call = "" /\ NotStaged.bound = {}
BY DEF NotStaged, VolRec, NoConfigMap, ConfigMapRec

LEMMA StartsKeepsInv ==
  ASSUME LockInv, NEW n \in Nodes, Starts(n), Watched
  PROVE  LockInv'
<1> DEFINE k == Current(n) + 1
<1>1. /\ TypeOK /\ NodeTypeOK /\ KeysOfMachines /\ NodesOK /\ MountsOK
      /\ machine \in [Nodes -> MachineRec] /\ node \in [Nodes -> NodeObject]
      /\ locks \subseteq Keys /\ vol \in [Nodes -> [Vols -> VolRec]]
  BY DEF LockInv, TypeOK, NodeTypeOK
<1>2. /\ ~Up(n) /\ k \in 1..Machines[n] /\ Current(n) \in Nat /\ k \in Nat
      /\ \A m \in Nodes : Up(m) => Address[m][Current(m)] # Address[n][k]
      /\ machine' = [machine EXCEPT ![n] = [number |-> k, up |-> TRUE]]
      /\ UNCHANGED <<configMap, vol, locks>>
  BY <1>1, MachineType DEF Starts
<1>3. PICK object \in {Naming(k), node[n]} \cup Lapses[n][k] : Registers(n, k, object)
  BY DEF Starts
<1>4. /\ machine' \in [Nodes -> MachineRec] /\ machine'[n].number = k /\ machine'[n].up
      /\ \A m \in Nodes : m # n => machine'[m] = machine[m]
  BY <1>1, <1>2 DEF MachineRec
<1> HIDE DEF k
<1>5. /\ node' = [node EXCEPT ![n] = object] /\ node' \in [Nodes -> NodeObject]
      /\ object \in NodeObject /\ (object = Naming(k) \/ object.names = 0 \/ object = node[n])
      /\ object.names = k \/ k \in doubted'[n]
      /\ doubted' \in [Nodes -> SUBSET Nat] /\ doubted[n] \subseteq doubted'[n]
      /\ \A m \in Nodes : m # n => doubted'[m] = doubted[m]
      /\ faults' \in 0..MaxFaults
  BY <1>2, <1>3, RegistersIsRight
<1>6. \A m \in Nodes : /\ Current(m) \in Nat /\ node[m].names \in Nat /\ node[m].names <= Current(m)
                       /\ Machines[m] \in Nat /\ Current(m) <= Machines[m]
  BY <1>1, MachineType, NodeObjectType DEF NodesOK
<1>7. Current(n)' = k /\ Up(n)' /\ k = Current(n) + 1
  BY <1>4 DEF Current, Up, k
<1>8. \A m \in Nodes : m # n => Current(m)' = Current(m) /\ (Up(m)' <=> Up(m)) /\ node'[m] = node[m]
  BY <1>1, <1>4, <1>5 DEF Current, Up
<1>9. MachinesGo
  <2>1. ASSUME NEW m \in Nodes
        PROVE  /\ Current(m) \in Nat /\ Current(m)' \in Nat /\ Current(m) <= Current(m)'
               /\ \A j \in Nat : Gone(m, j) => Gone(m, j)'
               /\ doubted[m] \subseteq doubted'[m]
    <3>1. CASE m = n
      <4>1. Current(m) \in Nat /\ Current(m)' = Current(m) + 1
        BY <1>6, <1>7, <3>1
      <4>2. \A j \in Nat : Gone(m, j) => Gone(m, j)'
        BY <4>1 DEF Gone
      <4> QED
        BY <1>5, <3>1, <4>1, <4>2
    <3>2. CASE m # n
      <4>1. \A j \in Nat : Gone(m, j) => Gone(m, j)'
        BY <1>8, <3>2 DEF Gone
      <4> QED
        BY <1>5, <1>6, <1>8, <3>2, <4>1
    <3> QED
      BY <3>1, <3>2
  <2>2. ASSUME NEW m \in Nodes, node'[m] # node[m] PROVE SupersededNext(m, node[m])
    <3>1. m = n /\ machine'[n].number = Current(n) + 1 /\ node[n].names <= Current(n)
      BY <1>4, <1>6, <1>7, <1>8, <2>2
    <3> QED
      BY <1>6, <3>1 DEF SupersededNext
  <2> QED
    BY <1>1, <1>5, <2>1, <2>2 DEF MachinesGo
<1>10. NodeTypeOK'
  <2>1. \A m \in Nodes : Current(m)' <= Machines[m] /\ (Up(m)' => Current(m)' > 0)
    <3>1. \A m \in Nodes : m # n => Current(m) <= Machines[m] /\ (Up(m) => Current(m) > 0)
      BY <1>1 DEF NodeTypeOK
    <3> QED
      BY <1>2, <1>6, <1>7, <1>8, <3>1
  <2> QED
    BY <1>1, <1>2, <1>4, <1>5, <2>1 DEF NodeTypeOK
<1>11. NodesOK'
  <2>1. ASSUME NEW i \in Nodes, NEW m \in Nodes, i # m, Up(i)', Up(m)'
        PROVE  Address[i][Current(i)'] # Address[m][Current(m)']
    BY <1>1, <1>2, <1>7, <1>8, <2>1 DEF NodesOK
  <2>2. ASSUME NEW m \in Nodes
        PROVE  /\ node'[m].names <= Current(m)'
               /\ Up(m)' => node'[m].names = Current(m)' \/ Current(m)' \in doubted'[m]
    <3>1. CASE m = n
      <4>1. node'[m] = object /\ Naming(k).names = k
        BY <1>1, <1>5, <3>1 DEF Naming
      <4>2. object.names <= k
        BY <1>2, <1>5, <1>6, <1>7, <4>1
      <4> QED
        BY <1>5, <1>7, <3>1, <4>1, <4>2
    <3>2. CASE m # n
      BY <1>1, <1>5, <1>8, <3>2 DEF NodesOK
    <3> QED
      BY <3>1, <3>2
  <2> QED
    BY <2>1, <2>2 DEF NodesOK
<1>12. MountsOK'
  <2> SUFFICES ASSUME NEW m \in Nodes, NEW u \in Vols PROVE MountOK(m, u)' /\ Recorded(m, u)'
    BY DEF MountsOK
  <2>1. MountOK(m, u) /\ Recorded(m, u)
    BY <1>1 DEF MountsOK
  <2>2. CASE m # n
    BY <1>2, <1>4, <1>5, <2>1, <2>2, OtherMountsStay
  <2>3. CASE m = n
    <3>1. vol'[n][u] = NotStaged
      BY <1>2, <2>1, <2>3 DEF MountOK
    <3>2. Key(n, u)' \notin locks
      <4>1. Key(n, u)'.node = n /\ Key(n, u)'.machine = k
        BY <1>7 DEF Key
      <4>2. ~(k <= Current(n))
        BY <1>6, <1>7
      <4>3. \A l \in locks : l.machine <= Current(l.node)
        BY <1>1 DEF KeysOfMachines, Started
      <4> QED
        BY <4>1, <4>2, <4>3
    <3> QED
      BY <1>2, <1>7, <2>3, <3>1, <3>2, NotStagedMounts DEF MountOK, Recorded
  <2> QED
    BY <2>2, <2>3
<1> QED
  BY <1>2, <1>9, <1>10, <1>11, <1>12, MachinesKeepInv

LEMMA NodeChangesKeepsInv ==
  ASSUME LockInv, NEW n \in Nodes, NodeChanges(n), Watched
  PROVE  LockInv'
<1> DEFINE k == Current(n)
<1>1. /\ TypeOK /\ NodeTypeOK /\ NodesOK /\ MountsOK
      /\ machine \in [Nodes -> MachineRec] /\ node \in [Nodes -> NodeObject]
  BY DEF LockInv, TypeOK, NodeTypeOK
<1>2. /\ Up(n) /\ k \in 1..Machines[n] /\ k \in Nat
      /\ UNCHANGED <<machine, configMap, vol, locks>>
  BY <1>1, MachineType DEF NodeChanges
<1>3. PICK object \in ({Naming(k)} \cup Lapses[n][k]) \ {node[n]} : Registers(n, k, object)
  BY DEF NodeChanges
<1> HIDE DEF k
<1>4. /\ node' = [node EXCEPT ![n] = object] /\ node' \in [Nodes -> NodeObject]
      /\ object \in NodeObject /\ (object = Naming(k) \/ object.names = 0)
      /\ object.names = k \/ k \in doubted'[n]
      /\ doubted' \in [Nodes -> SUBSET Nat] /\ doubted[n] \subseteq doubted'[n]
      /\ \A m \in Nodes : m # n => doubted'[m] = doubted[m]
      /\ faults' \in 0..MaxFaults
  BY <1>2, <1>3, RegistersIsRight
<1>5. \A m \in Nodes : /\ Current(m) \in Nat /\ node[m].names \in Nat /\ node[m].names <= Current(m)
  BY <1>1, MachineType, NodeObjectType DEF NodesOK
<1>6. /\ \A m \in Nodes : /\ Current(m)' = Current(m) /\ (Up(m)' <=> Up(m)) /\ machine'[m] = machine[m]
                          /\ doubted[m] \subseteq doubted'[m]
      /\ \A m \in Nodes : m # n => node'[m] = node[m]
      /\ node'[n] = object /\ k = Current(n)
  BY <1>1, <1>2, <1>4 DEF Current, Up, k
<1>7. object.names # k => k \in doubted'[n]
  BY <1>4
<1>8. MachinesGo
  <2>1. ASSUME NEW m \in Nodes, NEW j \in Nat, Gone(m, j) PROVE Gone(m, j)'
    BY <1>6, <2>1 DEF Gone
  <2>2. ASSUME NEW m \in Nodes, node'[m] # node[m] PROVE SupersededNext(m, node[m])
    <3> DEFINE j == node[n].names
    <3>1. m = n
      BY <1>6, <2>2
    <3>2. CASE j # 0 /\ j = k
      <4>1. node[n] = Naming(k) /\ object # node[n]
        BY <1>1, <1>3, <3>2, NodeObjectType
      <4>2. object.names = 0
        BY <1>4, <4>1
      <4>3. k \in doubted'[n]
        BY <1>7, <3>2, <4>2
      <4> QED
        BY <3>1, <3>2, <4>3 DEF SupersededNext
    <3>3. CASE j < k
      BY <1>2, <1>6, <3>1, <3>3 DEF SupersededNext, Current
    <3>4. CASE j = 0
      BY <3>1, <3>4 DEF SupersededNext
    <3>5. j \in Nat /\ j <= k /\ k \in Nat
      BY <1>2, <1>5, <1>6
    <3> QED
      BY <3>2, <3>3, <3>4, <3>5
  <2> QED
    BY <1>1, <1>4, <1>5, <1>6, <2>1, <2>2 DEF MachinesGo
<1>9. NodeTypeOK'
  BY <1>1, <1>2, <1>4, <1>6 DEF NodeTypeOK
<1>10. NodesOK'
  <2>1. ASSUME NEW i \in Nodes, NEW m \in Nodes, i # m, Up(i)', Up(m)'
        PROVE  Address[i][Current(i)'] # Address[m][Current(m)']
    BY <1>1, <1>6, <2>1 DEF NodesOK
  <2>2. ASSUME NEW m \in Nodes
        PROVE  /\ node'[m].names <= Current(m)'
               /\ Up(m)' => node'[m].names = Current(m)' \/ Current(m)' \in doubted'[m]
    <3>1. CASE m = n
      <4>1. object.names = k \/ object.names = 0
        BY <1>4 DEF Naming
      <4>2. object.names <= k
        BY <1>2, <4>1
      <4> QED
        BY <1>4, <1>6, <3>1, <4>2
    <3>2. CASE m # n
      BY <1>1, <1>4, <1>6, <3>2 DEF NodesOK
    <3> QED
      BY <3>1, <3>2
  <2> QED
    BY <2>1, <2>2 DEF NodesOK
<1>11. MountsOK'
  <2> SUFFICES ASSUME NEW m \in Nodes, NEW u \in Vols PROVE MountOK(m, u)' /\ Recorded(m, u)'
    BY DEF MountsOK
  <2>1. MountOK(m, u) /\ Recorded(m, u)
    BY <1>1 DEF MountsOK
  <2> QED
    BY <1>2, <1>6, <2>1, OtherMountsStay
<1> QED
  BY <1>2, <1>8, <1>9, <1>10, <1>11, MachinesKeepInv

LEMMA VanishesKeepsInv ==
  ASSUME LockInv, NEW n \in Nodes, Vanishes(n), Watched
  PROVE  LockInv'
<1>1. /\ TypeOK /\ NodeTypeOK /\ NodesOK /\ MountsOK
      /\ machine \in [Nodes -> MachineRec] /\ node \in [Nodes -> NodeObject]
      /\ vol \in [Nodes -> [Vols -> VolRec]]
  BY DEF LockInv, TypeOK, NodeTypeOK
<1>2. /\ Up(n) /\ machine' = [machine EXCEPT ![n].up = FALSE]
      /\ vol' = [vol EXCEPT ![n] = [v \in Vols |-> NotStaged]]
      /\ UNCHANGED <<node, doubted, configMap, locks, faults>>
  BY DEF Vanishes
<1>3. /\ machine' \in [Nodes -> MachineRec]
      /\ machine'[n].number = machine[n].number /\ machine'[n].up = FALSE
      /\ \A m \in Nodes : m # n => machine'[m] = machine[m]
  BY <1>1, <1>2 DEF MachineRec
<1>4. /\ \A m \in Nodes : Current(m)' = Current(m) /\ (Up(m)' => Up(m)) /\ (m # n => (Up(m)' <=> Up(m)))
      /\ ~Up(n)'
  BY <1>3 DEF Current, Up
<1>5. \A m \in Nodes : Current(m) \in Nat
  BY <1>1, MachineType
<1>6. MachinesGo
  <2>1. ASSUME NEW m \in Nodes, NEW j \in Nat, Gone(m, j) PROVE Gone(m, j)'
    BY <1>4, <2>1 DEF Gone
  <2> QED
    BY <1>1, <1>2, <1>4, <1>5, <2>1 DEF MachinesGo
<1>7. NodeTypeOK'
  <2>1. vol' \in [Nodes -> [Vols -> VolRec]]
    BY <1>1, <1>2, NotStagedMounts
  <2> QED
    BY <1>1, <1>2, <1>3, <1>4, <2>1 DEF NodeTypeOK
<1>8. NodesOK'
  BY <1>1, <1>2, <1>4 DEF NodesOK
<1>9. MountsOK'
  <2> SUFFICES ASSUME NEW m \in Nodes, NEW u \in Vols PROVE MountOK(m, u)' /\ Recorded(m, u)'
    BY DEF MountsOK
  <2>1. MountOK(m, u) /\ Recorded(m, u)
    BY <1>1 DEF MountsOK
  <2>2. CASE m # n
    <3>1. vol'[m] = vol[m] /\ machine'[m] = machine[m]
      BY <1>1, <1>2, <1>3, <2>2
    <3> QED
      BY <1>2, <2>1, <3>1, OtherMountsStay
  <2>3. CASE m = n
    <3>1. vol'[n][u] = NotStaged
      BY <1>1, <1>2
    <3> QED
      BY <1>4, <2>3, <3>1, NotStagedMounts DEF MountOK, Recorded
  <2> QED
    BY <2>2, <2>3
<1> QED
  BY <1>2, <1>6, <1>7, <1>8, <1>9, MachinesKeepInv

LEMMA NodeDeletedKeepsInv ==
  ASSUME LockInv, NEW n \in Nodes, NodeDeleted(n), Watched
  PROVE  LockInv'
<1>1. /\ TypeOK /\ NodeTypeOK /\ NodesOK /\ MountsOK
      /\ machine \in [Nodes -> MachineRec] /\ node \in [Nodes -> NodeObject]
  BY DEF LockInv, TypeOK, NodeTypeOK
<1>2. /\ ~Up(n) /\ node' = [node EXCEPT ![n] = Absent]
      /\ UNCHANGED <<machine, doubted, configMap, vol, locks, faults>>
  BY DEF NodeDeleted
<1>3. /\ node' \in [Nodes -> NodeObject] /\ node'[n].names = 0
      /\ \A m \in Nodes : m # n => node'[m] = node[m]
  BY <1>1, <1>2, SomeNodeObjects
<1>4. \A m \in Nodes : Current(m)' = Current(m) /\ (Up(m)' <=> Up(m))
  BY <1>2 DEF Current, Up
<1>5. \A m \in Nodes : Current(m) \in Nat /\ node[m].names \in Nat /\ node[m].names <= Current(m)
  BY <1>1, MachineType, NodeObjectType DEF NodesOK
<1>6. MachinesGo
  <2>1. ASSUME NEW m \in Nodes, NEW j \in Nat, Gone(m, j) PROVE Gone(m, j)'
    BY <1>4, <2>1 DEF Gone
  <2>2. ASSUME NEW m \in Nodes, node'[m] # node[m] PROVE SupersededNext(m, node[m])
    <3>1. m = n /\ ~machine'[n].up /\ machine'[n].number = Current(n)
      BY <1>2, <1>3, <2>2 DEF Up, Current
    <3> QED
      BY <1>5, <3>1 DEF SupersededNext
  <2> QED
    BY <1>1, <1>2, <1>3, <1>4, <1>5, <2>1, <2>2 DEF MachinesGo
<1>7. NodeTypeOK'
  BY <1>1, <1>2, <1>3, <1>4 DEF NodeTypeOK
<1>8. NodesOK'
  <2>1. \A m \in Nodes : node'[m].names <= Current(m)
    BY <1>3, <1>5
  <2> QED
    BY <1>1, <1>2, <1>3, <1>4, <2>1 DEF NodesOK
<1>9. MountsOK'
  <2> SUFFICES ASSUME NEW m \in Nodes, NEW u \in Vols PROVE MountOK(m, u)' /\ Recorded(m, u)'
    BY DEF MountsOK
  <2>1. MountOK(m, u) /\ Recorded(m, u)
    BY <1>1 DEF MountsOK
  <2> QED
    BY <1>2, <2>1, OtherMountsStay
<1> QED
  BY <1>2, <1>6, <1>7, <1>8, <1>9, MachinesKeepInv

-----------------------------------------------------------------------------
(* The leader. *)

WorkerTyped(r) == r \in WorkerRec /\ r.released \subseteq r.todo /\ Cardinality(r.released) <= 1

\* It takes from the ConfigMaps only what nobody needs any more, or is doubted.
LeaderStep ==
  /\ machine' = machine /\ node' = node /\ doubted' = doubted
  /\ vol' = vol /\ faults' \in 0..MaxFaults
  /\ locks' \subseteq locks
  /\ configMap' \in [Nodes -> ConfigMapRec]
  /\ \A n \in Nodes : /\ configMap'[n].keys \subseteq configMap[n].keys
                      /\ \A key \in configMap[n].keys \ configMap'[n].keys :
                           Doubted(key) \/ (Vanished(key) /\ key \notin locks')

LEMMA LeaderStepKeepsInv ==
  ASSUME LockInv, LeaderStep, leader' \in LeaderRec, LeaderOK',
         \A w \in Workers : WorkerTyped(leader'.worker[w]),
         \A key \in leader'.listed : Started(key)
  PROVE  LockInv'
<1>1. /\ TypeOK /\ NodeTypeOK /\ KeysOfMachines /\ NodesOK /\ MountsOK /\ LocksRecorded
      /\ locks \subseteq Keys /\ configMap \in [Nodes -> ConfigMapRec]
  BY DEF LockInv, TypeOK, NodeTypeOK
<1>2. machine' = machine /\ node' = node /\ doubted' = doubted /\ vol' = vol /\ locks' \subseteq locks
  BY DEF LeaderStep
<1>3. \A n \in Nodes : /\ configMap'[n].keys \subseteq configMap[n].keys
                       /\ \A key \in configMap[n].keys \ configMap'[n].keys :
                            Doubted(key) \/ (Vanished(key) /\ key \notin locks')
  BY DEF LeaderStep
<1>4. TypeOK'
  <2>1. NodeTypeOK'
    BY <1>1, <1>2 DEF NodeTypeOK, LeaderStep, Up, Current
  <2> QED
    BY <2>1 DEF TypeOK, WorkerTyped
<1>5. KeysOfMachines'
  BY <1>1, <1>2, <1>3 DEF KeysOfMachines, Started, Current
<1>6. MountsOK'
  <2> SUFFICES ASSUME NEW m \in Nodes, NEW u \in Vols PROVE MountOK(m, u)' /\ Recorded(m, u)'
    BY DEF MountsOK
  <2>1. /\ MountOK(m, u) /\ Recorded(m, u) /\ vol[m][u] \in VolRec
        /\ (Up(m)' <=> Up(m)) /\ Current(m)' = Current(m) /\ Key(m, u)' = Key(m, u)
    BY <1>1, <1>2 DEF MountsOK, NodeTypeOK, Up, Current, Key
  <2>2. MountOK(m, u)'
    BY <1>2, <2>1 DEF MountOK
  <2>3. Recorded(m, u)'
    <3>1. vol[m][u].phase = "staged" \/ vol[m][u].call = "stage" => ~Vanished(Key(m, u))
      BY <1>1, <2>1, VolumeFacts, CurrentIsNotVanished DEF MountOK
    <3> QED
      BY <1>2, <1>3, <2>1, <3>1 DEF Recorded, Doubted
  <2> QED
    BY <2>2, <2>3
<1>7. LocksRecorded'
  <2>1. ASSUME NEW l \in locks' PROVE l.node \in Nodes /\ (l \in configMap[l.node].keys \/ Doubted(l))
    BY <1>1, <1>2, KeyType DEF LocksRecorded
  <2> QED
    BY <1>2, <1>3, <2>1 DEF LocksRecorded, Doubted
<1>8. NodesOK'
  BY <1>1, <1>2 DEF NodesOK, Up, Current
<1> QED
  BY <1>4, <1>5, <1>6, <1>7, <1>8 DEF LockInv

\* What is said of events and of workers is about the machines.
LEMMA SameMachines ==
  ASSUME machine' = machine, node' = node, doubted' = doubted, locks' \subseteq locks
  PROVE  /\ \A e : EventOK(e) => EventOK(e)'
         /\ \A w \in Workers, r \in WorkerRec : WorkerOK(w, r) => WorkerOK(w, r)'
         /\ \A n, object : Superseded(n, object) => Superseded(n, object)'
         /\ \A key : Started(key) => Started(key)'
<1>1. \A n, object : Superseded(n, object) => Superseded(n, object)'
  BY DEF Superseded, UnsureMachine, Gone, Up, Current
<1>2. \A e : EventOK(e) => EventOK(e)'
  BY DEF EventOK, Superseded, UnsureMachine, Gone, Up, Current
<1>3. \A key : /\ Started(key) => Started(key)'
               /\ Unsure(key) => Unsure(key)'
               /\ Doubted(key) => Doubted(key)'
               /\ Vanished(key) => Vanished(key)'
  BY DEF Started, Unsure, UnsureMachine, Doubted, Vanished, Gone, Up, Current
<1>4. \A w \in Workers, r \in WorkerRec : WorkerOK(w, r) => WorkerOK(w, r)'
  BY <1>2, <1>3 DEF WorkerOK
<1> QED
  BY <1>1, <1>2, <1>3, <1>4

\* The informer learns nothing.
LEMMA SameInformer ==
  ASSUME machine' = machine, node' = node, doubted' = doubted, leader'.version = leader.version,
         leader'.seen = leader.seen, leader'.pending = leader.pending,
         \A n \in Nodes : InformerOK(n)
  PROVE  \A n \in Nodes : InformerOK(n)'
BY DEF InformerOK, Superseded, UnsureMachine, Gone, Up, Current

\* A worker that has seen to a key is left with the others, or with none.
LEMMA ProceedsKeepsLeader ==
  ASSUME LockInv, NEW w \in Workers, NEW r \in WorkerRec, Proceeds(w, r),
         r.events = leader.worker[w].events, r.todo \subseteq leader.worker[w].todo, r.released = {},
         machine' = machine, node' = node, doubted' = doubted, locks' \subseteq locks
  PROVE  /\ leader' \in LeaderRec /\ LeaderOK' /\ \A u \in Workers : WorkerTyped(leader'.worker[u])
         /\ \A key \in leader'.listed : Started(key)
<1>1. /\ leader \in LeaderRec /\ LeaderOK
      /\ \A u \in Workers : WorkerTyped(leader.worker[u]) /\ WorkerOK(u, leader.worker[u])
      /\ \A key \in leader.listed : Started(key)
  BY DEF LockInv, TypeOK, LeaderOK, KeysOfMachines, LeaderRec, WorkerTyped
<1>2. \A u \in Workers, q \in WorkerRec : WorkerOK(u, q) => WorkerOK(u, q)'
  BY SameMachines
<1>3. WorkerTyped(r) /\ WorkerOK(w, r)'
  <2>1. WorkerOK(w, r)
    BY <1>1 DEF WorkerOK
  <2> QED
    BY <1>2, <2>1, FS_EmptySet DEF WorkerTyped
<1>4. WorkerTyped(IdleWorker) /\ WorkerOK(w, IdleWorker)' /\ IdleWorker.todo = {}
  BY FS_EmptySet DEF WorkerTyped, WorkerOK, IdleWorker, WorkerRec
<1> DEFINE q == IF r.todo # {} THEN r ELSE IdleWorker
           queue == IF r.todo = {} /\ r.failed THEN leader.queue \cup r.events ELSE leader.queue
<1>5. /\ q \in WorkerRec /\ WorkerTyped(q) /\ WorkerOK(w, q)' /\ q.todo \subseteq leader.worker[w].todo
      /\ queue \in SUBSET Events /\ \A e \in queue : EventOK(e)
  <2>1. queue \in SUBSET Events /\ \A e \in queue : EventOK(e)
    BY <1>1 DEF LeaderRec, LeaderOK, WorkerOK, WorkerRec
  <2>2. IdleWorker \in WorkerRec
    BY <1>4 DEF WorkerTyped
  <2> HIDE DEF queue
  <2> QED
    BY <1>3, <1>4, <2>1, <2>2
<1>6. /\ leader' \in LeaderRec /\ leader'.looping = leader.looping /\ leader'.listed = leader.listed
      /\ leader'.version = leader.version /\ leader'.seen = leader.seen /\ leader'.pending = leader.pending
      /\ leader'.queue = queue /\ leader'.worker[w] = q
      /\ \A u \in Workers : u # w => leader'.worker[u] = leader.worker[u]
  <2>1. CASE r.todo # {}
    <3>1. leader' = [leader EXCEPT !.worker[w] = r] /\ q = r /\ queue = leader.queue
      BY <2>1 DEF Proceeds
    <3> HIDE DEF q, queue
    <3> QED
      BY <1>1, <3>1 DEF LeaderRec
  <2>2. CASE r.todo = {}
    <3>1. leader' = [leader EXCEPT !.worker[w] = q, !.queue = queue]
      BY <2>2 DEF Proceeds
    <3> HIDE DEF q, queue
    <3> QED
      BY <1>1, <1>5, <3>1 DEF LeaderRec
  <2> QED
    BY <2>1, <2>2
<1> HIDE DEF q, queue
<1>7. LeaderOK'
  <2>1. \A u \in Workers : WorkerOK(u, leader.worker[u])'
    <3>1. \A u \in Workers : leader.worker[u] \in WorkerRec
      BY <1>1 DEF WorkerTyped
    <3> QED
      BY <1>1, <1>2, <1>5, <1>6, <3>1
  <2>2. leader'.looping => leader'.worker["loop"].todo = {}
    BY <1>1, <1>5, <1>6 DEF LeaderOK, Idling, Workers
  <2>3. \A e \in leader'.queue : EventOK(e)'
    BY <1>5, <1>6, SameMachines
  <2>4. \A n \in Nodes : InformerOK(n)'
    BY <1>1, <1>6, SameInformer DEF LeaderOK
  <2> QED
    BY <2>1, <2>2, <2>3, <2>4 DEF LeaderOK, Idling
<1> QED
  BY <1>1, <1>5, <1>6, <1>7

\* Giving a key up, or passing over it, is to proceed with one key less.
LEMMA KeySeenTo ==
  ASSUME LockInv, NEW w \in Workers, NEW key \in leader.worker[w].todo,
         PassesOver(w, key) \/ GivesUp(w, key),
         machine' = machine, node' = node, doubted' = doubted, locks' \subseteq locks
  PROVE  /\ leader' \in LeaderRec /\ LeaderOK' /\ \A u \in Workers : WorkerTyped(leader'.worker[u])
         /\ \A k \in leader'.listed : Started(k)
<1>1. leader.worker[w] \in WorkerRec
  BY DEF LockInv, TypeOK, LeaderRec
<1>2. CASE PassesOver(w, key)
  <2> DEFINE r == [leader.worker[w] EXCEPT !.todo = @ \ {key}, !.released = {}]
  <2>1. /\ r \in WorkerRec /\ r.events = leader.worker[w].events
        /\ r.todo \subseteq leader.worker[w].todo /\ r.released = {}
    BY <1>1 DEF WorkerRec
  <2>2. Proceeds(w, r)
    BY <1>2 DEF PassesOver
  <2> HIDE DEF r
  <2> QED
    BY <2>1, <2>2, ProceedsKeepsLeader
<1>3. CASE GivesUp(w, key)
  <2> DEFINE r == [leader.worker[w] EXCEPT !.todo = @ \ {key}, !.released = {}, !.failed = TRUE]
  <2>1. /\ r \in WorkerRec /\ r.events = leader.worker[w].events
        /\ r.todo \subseteq leader.worker[w].todo /\ r.released = {}
    BY <1>1 DEF WorkerRec
  <2>2. Proceeds(w, r)
    BY <1>3 DEF GivesUp
  <2> HIDE DEF r
  <2> QED
    BY <2>1, <2>2, ProceedsKeepsLeader
<1> QED
  BY <1>2, <1>3

\* What is stale when it is looked at is of a machine that has vanished, or is doubted.
LEMMA StaleIsUnsure ==
  ASSUME LockInv, NEW w \in Workers, NEW key \in leader.worker[w].todo, IsStale(w, key)
  PROVE  key \in Keys /\ Unsure(key)
<1>1. NodeTypeOK /\ NodesOK /\ leader.worker[w] \in WorkerRec /\ WorkerOK(w, leader.worker[w])
  BY DEF LockInv, TypeOK, LeaderRec, LeaderOK
<1>2. key \in Keys /\ Started(key) /\ (w # "create" => Unsure(key))
  BY <1>1 DEF WorkerRec, WorkerOK
<1> QED
  BY <1>1, <1>2, UnmatchedIsUnsure DEF IsStale

LEMMA SeesToKeepsInv ==
  ASSUME LockInv, NEW w \in Workers, NEW key \in leader.worker[w].todo, SeesTo(w, key)
  PROVE  LockInv'
<1>1. /\ leader \in LeaderRec /\ LeaderOK /\ configMap \in [Nodes -> ConfigMapRec]
      /\ \A u \in Workers : WorkerTyped(leader.worker[u]) /\ WorkerOK(u, leader.worker[u])
      /\ \A k \in leader.listed : Started(k)
  BY DEF LockInv, TypeOK, NodeTypeOK, LeaderOK, KeysOfMachines, LeaderRec, WorkerTyped
<1>2. /\ UNCHANGED <<machine, node, doubted, configMap, vol>> /\ locks' \subseteq locks
      /\ UNCHANGED faults \/ Fault
  BY DEF SeesTo, machineVars
<1>3. LeaderStep
  BY <1>1, <1>2, FaultsStayTyped DEF LeaderStep
<1>4. CASE PassesOver(w, key) \/ GivesUp(w, key)
  BY <1>2, <1>3, <1>4, KeySeenTo, LeaderStepKeepsInv
<1>5. CASE /\ IsStale(w, key) /\ locks' = locks \ ReleasedWith(key)
           /\ leader' = [leader EXCEPT !.worker[w].released = {key}]
  <2> DEFINE r == [leader.worker[w] EXCEPT !.released = {key}]
  <2>1. key \in Keys /\ Unsure(key)
    BY <1>5, StaleIsUnsure
  <2>2. key \notin locks'
    BY <1>5 DEF ReleasedWith
  <2>3. Cardinality({key}) = 1
    BY FS_Singleton
  <2>4. /\ r \in WorkerRec /\ r.events = leader.worker[w].events
        /\ r.todo = leader.worker[w].todo /\ r.released = {key}
    BY <1>1, <2>1 DEF WorkerTyped, WorkerRec
  <2>5. leader' = [leader EXCEPT !.worker[w] = r]
    BY <1>1, <1>5 DEF LeaderRec, WorkerRec
  <2> HIDE DEF r
  <2>6. /\ leader' \in LeaderRec /\ leader'.looping = leader.looping /\ leader'.listed = leader.listed
        /\ leader'.version = leader.version /\ leader'.seen = leader.seen /\ leader'.pending = leader.pending
        /\ leader'.queue = leader.queue /\ leader'.worker[w] = r
        /\ \A u \in Workers : u # w => leader'.worker[u] = leader.worker[u]
    BY <1>1, <2>4, <2>5 DEF LeaderRec
  <2>7. \A u \in Workers : WorkerTyped(leader'.worker[u])
    <3>1. Cardinality(r.released) <= 1 /\ r.released \subseteq r.todo
      BY <2>3, <2>4
    <3>2. WorkerTyped(r)
      BY <2>4, <3>1 DEF WorkerTyped
    <3> QED
      BY <1>1, <2>6, <3>2
  <2>8. \A u \in Workers : WorkerOK(u, leader.worker[u])'
    <3>1. ASSUME NEW u \in Workers, u # w PROVE WorkerOK(u, leader.worker[u])'
      <4>1. leader.worker[u] \in WorkerRec
        BY <1>1 DEF WorkerTyped
      <4> QED
        BY <1>1, <1>2, <2>6, <3>1, <4>1, SameMachines
    <3>2. \A e \in r.events : EventOK(e)'
      <4>1. \A e \in r.events : EventOK(e)
        BY <1>1, <2>4 DEF WorkerOK
      <4> QED
        BY <1>2, <4>1, SameMachines
    <3>3. \A k \in r.todo : Started(k)' /\ (w # "create" => Unsure(k)')
      <4>1. \A k \in r.todo : Started(k) /\ (w # "create" => Unsure(k))
        BY <1>1, <2>4 DEF WorkerOK
      <4> QED
        BY <1>2, <4>1 DEF Started, Unsure, UnsureMachine, Gone, Up, Current
    <3>4. \A k \in r.released : Doubted(k)' \/ (Vanished(k)' /\ k \notin locks')
      BY <1>2, <2>1, <2>2, <2>4 DEF Unsure, UnsureMachine, Doubted, Vanished, Gone, Up, Current
    <3>5. WorkerOK(w, leader.worker[w])'
      BY <2>6, <3>2, <3>3, <3>4 DEF WorkerOK
    <3> QED
      BY <3>1, <3>5
  <2>9. LeaderOK'
    <3>1. leader'.looping => leader'.worker["loop"].todo = {}
      BY <1>1, <2>4, <2>6 DEF LeaderOK, Idling, Workers
    <3>2. \A e \in leader'.queue : EventOK(e)'
      BY <1>1, <1>2, <2>6, SameMachines DEF LeaderOK
    <3>3. \A n \in Nodes : InformerOK(n)'
      BY <1>1, <1>2, <2>6, SameInformer DEF LeaderOK
    <3> QED
      BY <2>8, <3>1, <3>2, <3>3 DEF LeaderOK, Idling
  <2> QED
    BY <1>1, <1>3, <2>6, <2>7, <2>9, LeaderStepKeepsInv
<1> QED
  BY <1>4, <1>5 DEF SeesTo

LEMMA RemovesKeepsInv ==
  ASSUME LockInv, NEW w \in Workers, NEW key \in leader.worker[w].todo, Removes(w, key)
  PROVE  LockInv'
<1>1. /\ configMap \in [Nodes -> ConfigMapRec] /\ leader.worker[w] \in WorkerRec
      /\ WorkerOK(w, leader.worker[w])
  BY DEF LockInv, TypeOK, NodeTypeOK, LeaderOK, LeaderRec
<1>2. key \in leader.worker[w].released /\ key \in Keys /\ (Doubted(key) \/ (Vanished(key) /\ key \notin locks))
  BY <1>1 DEF Removes, WorkerOK, WorkerRec
<1>3. /\ UNCHANGED <<machine, node, doubted, vol, locks>> /\ (UNCHANGED faults \/ Fault)
      /\ PassesOver(w, key) \/ GivesUp(w, key)
  BY DEF Removes, machineVars
<1>4. LeaderStep
  <2>1. CASE UNCHANGED configMap
    BY <1>1, <1>3, <2>1, FaultsStayTyped DEF LeaderStep
  <2>2. CASE configMap' = [configMap EXCEPT ![key.node].keys = @ \ {key}]
    <3>1. key.node \in Nodes
      BY <1>2, KeyType
    <3>2. /\ configMap' \in [Nodes -> ConfigMapRec]
          /\ configMap'[key.node].keys = configMap[key.node].keys \ {key}
          /\ \A n \in Nodes : n # key.node => configMap'[n] = configMap[n]
      BY <1>1, <2>2, <3>1 DEF ConfigMapRec
    <3> QED
      BY <1>2, <1>3, <3>1, <3>2, FaultsStayTyped DEF LeaderStep
  <2> QED
    BY <2>1, <2>2 DEF Removes
<1> QED
  BY <1>3, <1>4, KeySeenTo, LeaderStepKeepsInv

\* A leader that starts knows nothing, but that there are the Nodes there are.
LEMMA NewLeaderIsRight ==
  ASSUME NodeTypeOK, NEW version \in Versions
  PROVE  LET l == NewLeader(version) IN
           /\ l \in LeaderRec /\ l.listed = {} /\ ~l.looping
           /\ \A n \in Nodes : l.pending[n] = <<>> /\ (l.version = "new" => l.seen[n] = node[n])
           /\ \A e \in l.queue : EventOK(e)
           /\ \A w \in Workers : l.worker[w] = IdleWorker
           /\ WorkerTyped(IdleWorker) /\ \A w \in Workers : WorkerOK(w, IdleWorker)
<1> DEFINE l == NewLeader(version)
<1>1. WorkerTyped(IdleWorker) /\ \A w \in Workers : WorkerOK(w, IdleWorker)
  BY FS_EmptySet DEF WorkerTyped, WorkerOK, IdleWorker, WorkerRec
<1>2. node \in [Nodes -> NodeObject]
  BY DEF NodeTypeOK
<1>3. \A n \in Nodes : CreateEvent(n, node[n]) \in Events /\ EventOK(CreateEvent(n, node[n]))
  BY <1>2, SomeNodeObjects DEF CreateEvent, Events, EventOK
<1>4. l.queue \subseteq Events /\ \A e \in l.queue : EventOK(e)
  BY <1>3 DEF NewLeader
<1>5. /\ l.worker = [w \in Workers |-> IdleWorker] /\ l.listed = {} /\ l.looping = FALSE
      /\ l.skipped = {} /\ l.version = version /\ l.pending = [n \in Nodes |-> <<>>]
      /\ l.seen = IF version = "new" THEN node ELSE [n \in Nodes |-> Absent]
  BY DEF NewLeader
<1>6. l \in LeaderRec
  <2>1. l = [version |-> l.version, looping |-> l.looping, listed |-> l.listed, seen |-> l.seen,
             pending |-> l.pending, skipped |-> l.skipped, queue |-> l.queue, worker |-> l.worker]
    BY DEF NewLeader
  <2>2. l.worker \in [Workers -> WorkerRec]
    BY <1>1, <1>5 DEF WorkerTyped
  <2>3. l.seen \in [Nodes -> NodeObject]
    BY <1>2, <1>5, SomeNodeObjects
  <2>4. l.pending \in [Nodes -> Seq(NodeObject)]
    BY <1>5
  <2> HIDE DEF l
  <2> QED
    BY <1>4, <1>5, <2>1, <2>2, <2>3, <2>4 DEF LeaderRec
<1>7. \A n \in Nodes : l.pending[n] = <<>> /\ (l.version = "new" => l.seen[n] = node[n])
  BY <1>5
<1> QED
  BY <1>1, <1>4, <1>5, <1>6, <1>7

\* A new leader takes over where nobody is.
LEMMA LeaderChangesKeepsInv ==
  ASSUME LockInv, LeaderChanges
  PROVE  LockInv'
<1>1. NodeTypeOK /\ configMap \in [Nodes -> ConfigMapRec]
  BY DEF LockInv, TypeOK, NodeTypeOK
<1>2. PICK version \in Versions : leader' = NewLeader(version)
  BY DEF LeaderChanges
<1>3. UNCHANGED <<machine, node, doubted, configMap, vol, locks>> /\ Fault
  BY DEF LeaderChanges, machineVars
<1>4. LeaderStep
  BY <1>1, <1>3, FaultsStayTyped DEF LeaderStep
<1>5. /\ leader' \in LeaderRec /\ leader'.listed = {} /\ ~leader'.looping
      /\ \A n \in Nodes : /\ leader'.pending[n] = <<>>
                          /\ leader'.version = "new" => leader'.seen[n] = node[n]
      /\ \A e \in leader'.queue : EventOK(e)
      /\ \A w \in Workers : leader'.worker[w] = IdleWorker
      /\ WorkerTyped(IdleWorker) /\ \A w \in Workers : WorkerOK(w, IdleWorker)
  BY <1>1, <1>2, NewLeaderIsRight
<1>6. LeaderOK'
  <2>1. \A n \in Nodes : InformerOK(n)'
    BY <1>3, <1>5 DEF InformerOK
  <2>2. \A w \in Workers : WorkerOK(w, leader.worker[w])'
    <3>1. IdleWorker \in WorkerRec
      BY <1>5 DEF WorkerTyped
    <3>2. \A w \in Workers : WorkerOK(w, IdleWorker)'
      BY <1>3, <1>5, <3>1, SameMachines
    <3> QED
      BY <1>5, <3>2
  <2>3. \A e \in leader'.queue : EventOK(e)'
    BY <1>3, <1>5, SameMachines
  <2> QED
    BY <1>5, <2>1, <2>2, <2>3 DEF LeaderOK
<1> QED
  BY <1>4, <1>5, <1>6, LeaderStepKeepsInv

\* What the leader learns of ConfigMaps and nodes: only its own record changes.
LEMMA LearnsKeepsInv ==
  ASSUME LockInv, UNCHANGED <<machine, node, doubted, configMap, vol, locks>>, UNCHANGED faults \/ Fault,
         leader' \in LeaderRec, leader'.worker = leader.worker,
         leader'.looping => Idling("loop"),
         \A key \in leader'.listed : Started(key),
         \A n \in Nodes : InformerOK(n)',
         \A e \in leader'.queue : EventOK(e)
  PROVE  LockInv'
<1>1. /\ configMap \in [Nodes -> ConfigMapRec]
      /\ \A u \in Workers : WorkerTyped(leader.worker[u]) /\ WorkerOK(u, leader.worker[u])
  BY DEF LockInv, TypeOK, NodeTypeOK, LeaderOK, LeaderRec, WorkerTyped
<1>2. LeaderStep
  BY <1>1, FaultsStayTyped DEF LeaderStep
<1>3. LeaderOK'
  <2>1. \A e \in leader'.queue : EventOK(e)'
    BY SameMachines
  <2>2. \A u \in Workers : WorkerOK(u, leader.worker[u])'
    <3>1. \A u \in Workers : leader.worker[u] \in WorkerRec
      BY <1>1 DEF WorkerTyped
    <3> QED
      BY <1>1, <3>1, SameMachines
  <2> QED
    BY <2>1, <2>2 DEF LeaderOK, Idling
<1> QED
  BY <1>1, <1>2, <1>3, LeaderStepKeepsInv

LEMMA ListConfigMapsKeepsInv ==
  ASSUME LockInv, ListConfigMaps
  PROVE  LockInv'
<1> DEFINE all == UNION {configMap[n].keys : n \in Nodes}
<1>1. leader \in LeaderRec /\ configMap \in [Nodes -> ConfigMapRec] /\ LeaderOK /\ KeysOfMachines
  BY DEF LockInv, TypeOK, NodeTypeOK
<1>2. all \in SUBSET Keys /\ \A key \in all : Started(key)
  BY <1>1 DEF ConfigMapRec, KeysOfMachines
<1>3. leader' = [leader EXCEPT !.looping = TRUE, !.listed = all] /\ Idling("loop") /\ UNCHANGED nodeVars
  BY DEF ListConfigMaps
<1> HIDE DEF all
<1>4. /\ leader' \in LeaderRec /\ leader'.worker = leader.worker /\ leader'.listed = all
      /\ leader'.version = leader.version /\ leader'.seen = leader.seen /\ leader'.pending = leader.pending
      /\ leader'.queue = leader.queue
  BY <1>1, <1>2, <1>3 DEF LeaderRec
<1>5. UNCHANGED <<machine, node, doubted, configMap, vol, locks>> /\ UNCHANGED faults
  BY <1>3 DEF nodeVars, machineVars
<1>6. \A n \in Nodes : InformerOK(n)'
  BY <1>1, <1>4, <1>5, SameInformer DEF LeaderOK
<1> QED
  BY <1>1, <1>2, <1>3, <1>4, <1>5, <1>6, LearnsKeepsInv DEF LeaderOK

\* The informer goes on to the next state of a Node, which the one it knew supersedes.
LEMMA InformerKeepsInv ==
  ASSUME LockInv, UNCHANGED <<machine, node, doubted, configMap, vol, locks>>, UNCHANGED faults \/ Fault,
         NEW n \in Nodes, leader.pending[n] # <<>>,
         NEW new \in NodeObject, NEW later \in Seq(NodeObject), NEW from \in Nat, Learns(n, new, later, from),
         IF later = <<>> THEN new = node[n]
         ELSE /\ Superseded(n, new)
              /\ \A i \in 1..Len(later) - 1 : Superseded(n, later[i])
              /\ later[Len(later)] = node[n]
  PROVE  LockInv'
<1> DEFINE old == leader.seen[n]
           skipped == IF old.exists /\ new.exists
                      THEN leader.skipped \cup {key \in Keys : /\ key.node = n /\ ~Matches(old, key)
                                                               /\ from <= key.machine /\ key.machine < new.names}
                      ELSE leader.skipped
           events == CASE ~new.exists -> {}
                       [] new.exists /\ ~old.exists -> {CreateEvent(n, new)}
                       [] OTHER -> {UpdateEvent(n, old, new)}
           queue == leader.queue \cup events
<1>1. leader \in LeaderRec /\ LeaderOK /\ KeysOfMachines
  BY DEF LockInv, TypeOK
<1>2. old \in NodeObject /\ Superseded(n, old) /\ leader.version = "new"
  BY <1>1 DEF LeaderRec, LeaderOK, InformerOK
<1>3. leader' = [leader EXCEPT !.seen[n] = new, !.pending[n] = later, !.skipped = skipped, !.queue = queue]
  BY DEF Learns
<1>4. queue \in SUBSET Events /\ \A e \in queue : EventOK(e)
  <2>1. CreateEvent(n, new) \in Events /\ EventOK(CreateEvent(n, new))
    BY SomeNodeObjects DEF CreateEvent, Events, EventOK
  <2>2. UpdateEvent(n, old, new) \in Events /\ EventOK(UpdateEvent(n, old, new))
    BY <1>2 DEF UpdateEvent, Events, EventOK
  <2>3. events \subseteq {CreateEvent(n, new), UpdateEvent(n, old, new)}
    OBVIOUS
  <2>4. leader.queue \subseteq Events /\ \A e \in leader.queue : EventOK(e)
    BY <1>1 DEF LeaderRec, LeaderOK
  <2> HIDE DEF events
  <2> QED
    BY <2>1, <2>2, <2>3, <2>4
<1>5. skipped \in SUBSET Keys
  BY <1>1 DEF LeaderRec
<1> HIDE DEF queue, skipped, events
<1>6. /\ leader' \in LeaderRec /\ leader'.worker = leader.worker /\ leader'.listed = leader.listed
      /\ leader'.version = leader.version /\ leader'.queue = queue /\ leader'.looping = leader.looping
      /\ leader'.seen = [leader.seen EXCEPT ![n] = new]
      /\ leader'.pending = [leader.pending EXCEPT ![n] = later]
  BY <1>1, <1>3, <1>4, <1>5 DEF LeaderRec
<1>7. ASSUME NEW m \in Nodes PROVE InformerOK(m)'
  <2>1. leader.seen \in [Nodes -> NodeObject] /\ leader.pending \in [Nodes -> Seq(NodeObject)] /\ InformerOK(m)
    BY <1>1 DEF LeaderRec, LeaderOK
  <2>2. CASE m # n
    <3>1. leader'.seen[m] = leader.seen[m] /\ leader'.pending[m] = leader.pending[m]
      BY <1>6, <2>1, <2>2
    <3> QED
      BY <1>6, <2>1, <3>1 DEF InformerOK, Superseded, UnsureMachine, Gone, Up, Current
  <2>3. CASE m = n
    <3>1. leader'.seen[m] = new /\ leader'.pending[m] = later
      BY <1>6, <2>1, <2>3
    <3>2. \A object : Superseded(n, object) => Superseded(n, object)'
      BY SameMachines
    <3> QED
      BY <1>2, <1>6, <2>3, <3>1, <3>2 DEF InformerOK, Superseded, UnsureMachine, Gone, Up, Current
  <2> QED
    BY <2>2, <2>3
<1> QED
  BY <1>1, <1>4, <1>6, <1>7, LearnsKeepsInv DEF LeaderOK, KeysOfMachines

LEMMA WatchKeepsInv ==
  ASSUME LockInv, NEW n \in Nodes, Watch(n)
  PROVE  LockInv'
<1> DEFINE all == leader.pending[n]
           new == Head(all)
           later == Tail(all)
           from == leader.seen[n].names
<1>1. /\ all \in Seq(NodeObject) /\ all # <<>> /\ from \in Nat
      /\ Learns(n, new, later, from) /\ UNCHANGED nodeVars
  BY NodeObjectType DEF LockInv, TypeOK, LeaderRec, Watch
<1>2. /\ \A i \in 1..Len(all) - 1 : Superseded(n, all[i])
      /\ all[Len(all)] = node[n]
  BY <1>1 DEF LockInv, LeaderOK, InformerOK
<1>3. /\ new \in NodeObject /\ new = all[1] /\ later \in Seq(NodeObject) /\ Len(later) = Len(all) - 1
      /\ Len(all) \in Nat \ {0} /\ \A i \in 1..Len(later) : later[i] = all[i + 1]
  BY <1>1
<1>4. IF later = <<>> THEN new = node[n]
      ELSE /\ Superseded(n, new)
           /\ \A i \in 1..Len(later) - 1 : Superseded(n, later[i])
           /\ later[Len(later)] = node[n]
  <2> HIDE DEF all, new, later
  <2>1. CASE later = <<>>
    <3>1. Len(all) = 1
      BY <1>3, <2>1
    <3> QED
      BY <1>2, <1>3, <2>1, <3>1
  <2>2. CASE later # <<>>
    <3>1. Len(later) > 0 /\ Len(later) \in Nat
      BY <1>3, <2>2
    <3>2. 1 \in 1..Len(all) - 1
      BY <1>3, <3>1
    <3>3. ASSUME NEW i \in 1..Len(later) - 1 PROVE Superseded(n, later[i])
      <4>1. i \in 1..Len(later) /\ i + 1 \in 1..Len(all) - 1
        BY <1>3, <3>1, <3>3
      <4> QED
        BY <1>2, <1>3, <4>1
    <3>4. later[Len(later)] = all[Len(all)]
      <4>1. Len(later) \in 1..Len(later) /\ Len(later) + 1 = Len(all)
        BY <1>3, <3>1
      <4> QED
        BY <1>3, <4>1
    <3> QED
      BY <1>2, <1>3, <2>2, <3>2, <3>3, <3>4
  <2> QED
    BY <2>1, <2>2
<1>5. UNCHANGED <<machine, node, doubted, configMap, vol, locks>> /\ UNCHANGED faults
  BY <1>1 DEF nodeVars, machineVars
<1> HIDE DEF new, later, from
<1> QED
  BY <1>1, <1>3, <1>4, <1>5, InformerKeepsInv

LEMMA RelistKeepsInv ==
  ASSUME LockInv, NEW n \in Nodes, Relist(n)
  PROVE  LockInv'
<1>1. leader.pending[n] \in Seq(NodeObject) /\ node[n] \in NodeObject
  BY DEF LockInv, TypeOK, NodeTypeOK, LeaderRec
<1>2. /\ leader.pending[n] # <<>> /\ Fault /\ Learns(n, node[n], <<>>, 0)
      /\ UNCHANGED <<machine, node, doubted, configMap, vol, locks>>
  BY <1>1 DEF Relist, machineVars
<1>3. <<>> \in Seq(NodeObject) /\ 0 \in Nat
  OBVIOUS
<1> QED
  BY <1>1, <1>2, <1>3, InformerKeepsInv

\* A worker takes up keys: the loop those it found unmatched, the others those of an event.
LEMMA TakesUpKeepsInv ==
  ASSUME LockInv, UNCHANGED nodeVars, NEW w \in Workers, NEW r \in WorkerRec,
         leader' \in LeaderRec, leader'.worker = [leader.worker EXCEPT ![w] = r],
         leader'.version = leader.version, leader'.seen = leader.seen, leader'.pending = leader.pending,
         leader'.queue \subseteq leader.queue,
         leader'.looping => w # "loop" /\ leader.looping,
         leader'.listed \subseteq leader.listed,
         r.released = {}, WorkerOK(w, r)
  PROVE  LockInv'
<1>1. /\ leader \in LeaderRec /\ LeaderOK /\ KeysOfMachines /\ configMap \in [Nodes -> ConfigMapRec]
      /\ leader.worker \in [Workers -> WorkerRec] /\ faults \in 0..MaxFaults
      /\ \A u \in Workers : WorkerTyped(leader.worker[u]) /\ WorkerOK(u, leader.worker[u])
  BY DEF LockInv, TypeOK, NodeTypeOK, LeaderOK, LeaderRec, WorkerTyped
<1>2. UNCHANGED <<machine, node, doubted, configMap, vol, locks, faults>>
  BY DEF nodeVars, machineVars
<1>3. LeaderStep
  BY <1>1, <1>2 DEF LeaderStep
<1>4. leader'.worker[w] = r /\ \A u \in Workers : u # w => leader'.worker[u] = leader.worker[u]
  BY <1>1
<1>5. \A u \in Workers : WorkerTyped(leader'.worker[u])
  <2>1. WorkerTyped(r)
    BY FS_EmptySet DEF WorkerTyped
  <2> QED
    BY <1>1, <1>4, <2>1
<1>6. LeaderOK'
  <2>1. \A u \in Workers : WorkerOK(u, leader.worker[u])'
    <3>1. WorkerOK(w, r)'
      BY <1>2, SameMachines
    <3>2. ASSUME NEW u \in Workers, u # w PROVE WorkerOK(u, leader.worker[u])'
      BY <1>1, <1>2, <1>4, <3>2, SameMachines
    <3> QED
      BY <1>4, <3>1, <3>2
  <2>2. leader'.looping => leader'.worker["loop"].todo = {}
    BY <1>1, <1>4 DEF LeaderOK, Idling, Workers
  <2>3. \A e \in leader'.queue : EventOK(e)'
    BY <1>1, <1>2, SameMachines DEF LeaderOK
  <2>4. \A n \in Nodes : InformerOK(n)'
    BY <1>1, <1>2, SameInformer DEF LeaderOK
  <2> QED
    BY <2>1, <2>2, <2>3, <2>4 DEF LeaderOK, Idling
<1> QED
  BY <1>1, <1>3, <1>5, <1>6, LeaderStepKeepsInv DEF KeysOfMachines

LEMMA ListNodesKeepsInv ==
  ASSUME LockInv, ListNodes
  PROVE  LockInv'
<1> DEFINE r == [leader.worker["loop"] EXCEPT !.todo = Unmatched(leader.listed)]
<1>1. /\ leader \in LeaderRec /\ LeaderOK /\ KeysOfMachines /\ NodeTypeOK /\ NodesOK /\ "loop" \in Workers
      /\ leader.worker["loop"] \in WorkerRec /\ leader.looping
      /\ WorkerTyped(leader.worker["loop"]) /\ WorkerOK("loop", leader.worker["loop"])
  BY DEF LockInv, TypeOK, LeaderOK, LeaderRec, WorkerTyped, Workers, ListNodes
<1>2. leader.worker["loop"].released = {}
  BY <1>1 DEF LeaderOK, Idling, WorkerTyped
<1>3. leader.listed \subseteq Keys /\ \A key \in Unmatched(leader.listed) : key \in Keys /\ Started(key) /\ Unsure(key)
  BY <1>1, UnmatchedIsUnsure DEF Unmatched, KeysOfMachines, LeaderRec
<1>4. /\ r \in WorkerRec /\ r.released = {} /\ r.todo = Unmatched(leader.listed)
      /\ r.events = leader.worker["loop"].events
  BY <1>1, <1>2, <1>3 DEF WorkerRec
<1>5. WorkerOK("loop", r)
  BY <1>1, <1>3, <1>4 DEF WorkerOK
<1>6. leader' = [leader EXCEPT !.looping = FALSE, !.listed = {}, !.worker["loop"] = r] /\ UNCHANGED nodeVars
  BY <1>1 DEF ListNodes, LeaderRec, WorkerRec
<1> HIDE DEF r
<1>7. /\ leader' \in LeaderRec /\ leader'.worker = [leader.worker EXCEPT !["loop"] = r]
      /\ leader'.version = leader.version /\ leader'.seen = leader.seen /\ leader'.pending = leader.pending
      /\ leader'.queue = leader.queue /\ ~leader'.looping /\ leader'.listed = {}
  BY <1>1, <1>4, <1>6 DEF LeaderRec
<1> QED
  BY <1>1, <1>4, <1>5, <1>6, <1>7, TakesUpKeepsInv

\* A create event concerns keys that are checked; an update event those of a machine
\* that has vanished, or is doubted.
LEMMA HandlesKeepsInv ==
  ASSUME LockInv, NEW w \in Workers, NEW e \in leader.queue, Handles(w, e)
  PROVE  LockInv'
<1> DEFINE r == IF Concerned(e) = {} THEN IdleWorker ELSE [IdleWorker EXCEPT !.events = {e}, !.todo = Concerned(e)]
<1>1. /\ leader \in LeaderRec /\ LeaderOK /\ KeysOfMachines /\ NodeTypeOK
      /\ configMap \in [Nodes -> ConfigMapRec]
  BY DEF LockInv, TypeOK, NodeTypeOK
<1>2. e \in Events /\ EventOK(e) /\ e.type = w
  BY <1>1 DEF LeaderRec, LeaderOK, Handles
<1>3. e.node \in Nodes /\ e.type \in {"create", "update"}
  BY <1>2 DEF Events
<1>4. ASSUME NEW key \in Concerned(e)
      PROVE  key \in Keys /\ Started(key) /\ (w # "create" => Unsure(key))
  <2>1. key \in configMap[e.node].keys /\ LeftBy(e, key)
    BY DEF Concerned
  <2>2. key \in Keys /\ key.node = e.node /\ Started(key) /\ key.machine # 0
    BY <1>1, <1>3, <2>1, KeyType DEF KeysOfMachines, ConfigMapRec
  <2>3. CASE w = "update"
    <3>1. e.old.names = key.machine /\ Superseded(e.node, e.old)
      BY <1>2, <2>1, <2>3 DEF LeftBy, Matches, EventOK
    <3> QED
      BY <2>2, <2>3, <3>1 DEF Superseded, Unsure
  <2> QED
    BY <1>2, <1>3, <2>2, <2>3
<1>5. r \in WorkerRec /\ r.released = {} /\ r.todo \subseteq Concerned(e) /\ r.events \subseteq {e}
  BY <1>2, <1>4 DEF IdleWorker, WorkerRec
<1>6. leader' = [leader EXCEPT !.queue = @ \ {e}, !.worker[w] = r] /\ UNCHANGED nodeVars
  BY DEF Handles
<1> HIDE DEF r
<1>7. WorkerOK(w, r)
  BY <1>2, <1>4, <1>5 DEF WorkerOK
<1>8. /\ leader' \in LeaderRec /\ leader'.worker = [leader.worker EXCEPT ![w] = r]
      /\ leader'.version = leader.version /\ leader'.seen = leader.seen /\ leader'.pending = leader.pending
      /\ leader'.queue = leader.queue \ {e}
      /\ leader'.looping = leader.looping /\ leader'.listed = leader.listed
  BY <1>1, <1>5, <1>6 DEF LeaderRec
<1> QED
  BY <1>2, <1>3, <1>5, <1>6, <1>7, <1>8, TakesUpKeepsInv

-----------------------------------------------------------------------------
\* Nothing is recorded or locked at first, and there are no machines.
LEMMA LockStart == Init => LockInv
<1> SUFFICES ASSUME Init PROVE LockInv
  OBVIOUS
<1>1. PICK version \in Versions : leader = NewLeader(version)
  BY DEF Init
<1>2. NodeInit
  BY DEF Init
<1>3. \A n \in Nodes : Current(n) = 0 /\ ~Up(n) /\ node[n].names = 0
  BY <1>2, SomeNodeObjects DEF NodeInit, Current, Up
<1>4. NodeTypeOK
  <2>1. 0 \in Nat /\ 0 \in 0..MaxFaults /\ \A n \in Nodes : 0 <= Machines[n]
    BY NodeAssumption
  <2>2. NotStaged \in VolRec /\ NoConfigMap \in ConfigMapRec
    BY DEF NotStaged, VolRec, NoConfigMap, ConfigMapRec
  <2>3. machine \in [Nodes -> MachineRec] /\ node \in [Nodes -> NodeObject]
    BY <1>2, <2>1, SomeNodeObjects DEF NodeInit, MachineRec
  <2> QED
    BY <1>2, <1>3, <2>1, <2>2, <2>3 DEF NodeInit, NodeTypeOK
<1>5. /\ leader \in LeaderRec /\ leader.listed = {} /\ ~leader.looping
      /\ \A n \in Nodes : leader.pending[n] = <<>> /\ (leader.version = "new" => leader.seen[n] = node[n])
      /\ \A e \in leader.queue : EventOK(e)
      /\ \A w \in Workers : leader.worker[w] = IdleWorker
      /\ WorkerTyped(IdleWorker) /\ \A w \in Workers : WorkerOK(w, IdleWorker)
  BY <1>1, <1>4, NewLeaderIsRight
<1>6. TypeOK
  BY <1>4, <1>5 DEF TypeOK, WorkerTyped
<1>7. LeaderOK
  BY <1>5 DEF LeaderOK, InformerOK
<1>8. KeysOfMachines /\ LocksRecorded
  BY <1>2, <1>5 DEF KeysOfMachines, LocksRecorded, NodeInit, NoConfigMap
<1>9. NodesOK
  BY <1>3 DEF NodesOK
<1>10. MountsOK
  <2> SUFFICES ASSUME NEW m \in Nodes, NEW u \in Vols PROVE MountOK(m, u) /\ Recorded(m, u)
    BY DEF MountsOK
  <2>1. vol[m][u] = NotStaged /\ locks = {}
    BY <1>2 DEF NodeInit
  <2>2. NotStaged.phase = "unstaged" /\ NotStaged.call = "" /\ NotStaged.bound = {}
    BY DEF NotStaged
  <2> QED
    BY <2>1, <2>2 DEF MountOK, Recorded
<1> QED
  BY <1>6, <1>7, <1>8, <1>9, <1>10 DEF LockInv

\* The leader has nothing to learn of a step that is not about Node objects.
LEMMA NothingToWatch ==
  ASSUME LockInv, Watched, node' = node
  PROVE  leader' = leader
<1>1. leader \in LeaderRec /\ leader.pending \in [Nodes -> Seq(NodeObject)]
  BY DEF LockInv, TypeOK, LeaderRec
<1>2. [n \in Nodes |-> IF node'[n] = node[n] THEN leader.pending[n]
                       ELSE Append(leader.pending[n], node'[n])] = leader.pending
  BY <1>1
<1>3. leader' = IF leader.version = "new" THEN [leader EXCEPT !.pending = leader.pending] ELSE leader
  BY <1>2 DEF Watched
<1> QED
  BY <1>1, <1>3 DEF LeaderRec

LEMMA LockStep == LockInv /\ [Next]_vars => LockInv'
<1> SUFFICES ASSUME LockInv, [Next]_vars PROVE LockInv'
  OBVIOUS
<1>1. CASE NodeNext /\ Watched
  <2>1. PICK n \in Nodes :
          \/ Starts(n) \/ NodeChanges(n) \/ Vanishes(n) \/ NodeDeleted(n)
          \/ \E v \in Vols :
               \/ StageMounts(n, v) \/ StageStores(n, v) \/ UnstageUnmounts(n, v) \/ UnstageRemoves(n, v)
               \/ CallFails(n, v) \/ TakesLock(n, v)
               \/ \E t \in Targets : PublishBinds(n, v, t) \/ PublishFails(n, v, t) \/ Unpublish(n, v, t)
    BY <1>1 DEF NodeNext
  <2>2. CASE Starts(n) \/ NodeChanges(n) \/ Vanishes(n) \/ NodeDeleted(n)
    BY <1>1, <2>2, StartsKeepsInv, NodeChangesKeepsInv, VanishesKeepsInv, NodeDeletedKeepsInv
  <2>3. ASSUME NEW v \in Vols,
               \/ StageMounts(n, v) \/ StageStores(n, v) \/ UnstageUnmounts(n, v) \/ UnstageRemoves(n, v)
               \/ CallFails(n, v) \/ TakesLock(n, v)
               \/ \E t \in Targets : PublishBinds(n, v, t) \/ PublishFails(n, v, t) \/ Unpublish(n, v, t)
        PROVE  LockInv'
    <3>1. UNCHANGED machineVars
      BY <2>3 DEF StageMounts, StageStores, UnstageUnmounts, UnstageRemoves, CallFails, TakesLock,
                  PublishBinds, PublishFails, Unpublish
    <3>2. leader' = leader
      BY <1>1, <3>1, NothingToWatch DEF machineVars
    <3> QED
      BY <2>3, <3>2, MountCallsKeepInv, StoresKeepInv, PodsKeepInv
  <2> QED
    BY <2>1, <2>2, <2>3
<1>2. CASE LeaderChanges
  BY <1>2, LeaderChangesKeepsInv
<1>3. CASE LoopStep
  BY <1>3, ListConfigMapsKeepsInv, ListNodesKeepsInv DEF LoopStep
<1>4. ASSUME NEW w \in Workers, WorkerStep(w) PROVE LockInv'
  BY <1>4, HandlesKeepsInv, SeesToKeepsInv, RemovesKeepsInv DEF WorkerStep
<1>5. ASSUME NEW n \in Nodes, Watch(n) \/ Relist(n) PROVE LockInv'
  BY <1>5, WatchKeepsInv, RelistKeepsInv
<1>6. CASE UNCHANGED vars
  <2>1. UNCHANGED <<machine, node, doubted, configMap, vol, locks>> /\ UNCHANGED faults /\ leader' = leader
    BY <1>6 DEF vars, nodeVars, machineVars
  <2>2. leader \in LeaderRec /\ LeaderOK /\ KeysOfMachines
    BY DEF LockInv, TypeOK
  <2>3. \A n \in Nodes : InformerOK(n)'
    BY <2>1, <2>2, SameInformer DEF LeaderOK
  <2> QED
    BY <2>1, <2>2, <2>3, LearnsKeepsInv DEF LeaderOK, KeysOfMachines
<1> QED
  BY <1>1, <1>2, <1>3, <1>4, <1>5, <1>6 DEF Next

\* Machines, Node objects, mounts, ConfigMaps and what the leader works on relate as
\* LockInv says, however Nodes lapse: only keys of machines that have vanished, or that
\* their Node did not name while they were up, are worked on.
THEOREM LockInvariance == Spec => []LockInv
BY LockStart, LockStep, PTL DEF Spec

\* The values of the state are of their types.
THEOREM LockReleaseTypeCorrect == Spec => []TypeOK
<1>1. LockInv => TypeOK
  BY DEF LockInv
<1> QED
  BY <1>1, LockInvariance, PTL

\* Whatever the node servers, the leader and their faults do in whichever order, a lock,
\* be its machine up or gone, has its key in the ConfigMap of its node (node.go:362),
\* unless the Node did not name the machine at some time while it was up
\* (controller.go:327, 550).
THEOREM LocksStayRecorded == Spec => []LocksRecorded
<1>1. LockInv => LocksRecorded
  BY DEF LockInv
<1> QED
  BY <1>1, LockInvariance, PTL

\* However late the controller learns of nodes, in the old version and in the new one,
\* a lock on what a machine that is up has mounted is taken from it only together with
\* those of a vanished machine that had its address (controller.go:93), or because its
\* Node did not name it at some time (controller.go:327, 550).
THEOREM LiveLocksStay == Spec => LiveLocksKept
<1>1. ASSUME LockInv, [Next]_vars
      PROVE  [\A l \in locks \ locks' : Alive(l) /\ vol'[l.node][l.vol].bound # {}
                => \/ Doubted(l)
                   \/ \E key \in Keys : Vanished(key) /\ AddressOf(key) = AddressOf(l)]_vars
  <2> SUFFICES ASSUME NEW l \in locks \ locks', Alive(l), vol'[l.node][l.vol].bound # {}
               PROVE  \/ Doubted(l)
                      \/ \E key \in Keys : Vanished(key) /\ AddressOf(key) = AddressOf(l)
    OBVIOUS
  <2>1. ASSUME NEW n \in Nodes, NEW v \in Vols, NEW t \in Targets, Unpublish(n, v, t) PROVE FALSE
    <3>1. l = Key(n, v) /\ vol[n][v].bound = {t}
      BY <2>1 DEF Unpublish
    <3>2. vol \in [Nodes -> [Vols -> VolRec]] /\ vol[n][v] \in VolRec
      BY <1>1 DEF LockInv, TypeOK, NodeTypeOK
    <3>3. vol'[n][v] = [vol[n][v] EXCEPT !.bound = @ \ {t}]
      BY <2>1, <3>2 DEF Unpublish, Sets
    <3>4. vol'[n][v].bound = {}
      BY <3>1, <3>2, <3>3 DEF VolRec
    <3> QED
      BY <3>1, <3>4 DEF Key
  <2>2. ASSUME NEW w \in Workers, NEW key \in leader.worker[w].todo, SeesTo(w, key)
        PROVE  \/ Doubted(l)
               \/ \E k \in Keys : Vanished(k) /\ AddressOf(k) = AddressOf(l)
    <3>1. IsStale(w, key) /\ AddressOf(l) = AddressOf(key)
      BY <2>2 DEF SeesTo, ReleasedWith
    <3>2. key \in Keys /\ Unsure(key)
      BY <1>1, <3>1, StaleIsUnsure
    <3>3. CASE Vanished(key)
      BY <3>1, <3>2, <3>3
    <3>4. CASE ~Vanished(key)
      <4>1. /\ NodeTypeOK /\ NodesOK /\ locks \subseteq Keys
            /\ WorkerOK(w, leader.worker[w])
        BY <1>1 DEF LockInv, TypeOK, NodeTypeOK, LeaderOK
      <4>2. key.node \in Nodes /\ key.machine \in Nat /\ Current(key.node) \in Nat /\ l.node \in Nodes
        BY <3>2, <4>1, KeyType, MachineType
      <4>3. key.machine = Current(key.node) /\ Up(key.node)
        <5>1. key.machine <= Current(key.node)
          BY <4>1 DEF WorkerOK, Started
        <5> QED
          BY <3>4, <4>2, <5>1 DEF Vanished, Gone
      <4>4. Address[key.node][Current(key.node)] = Address[l.node][Current(l.node)] /\ Up(l.node)
        BY <3>1, <4>3 DEF AddressOf, Alive
      <4>5. key.node = l.node
        BY <4>1, <4>2, <4>3, <4>4 DEF NodesOK
      <4> QED
        BY <3>2, <3>4, <4>3, <4>5 DEF Unsure, UnsureMachine, Vanished, Doubted, Alive
    <3> QED
      BY <3>3, <3>4
  <2>3. CASE NodeNext
    <3>1. locks' = locks \/ (\E n \in Nodes, v \in Vols : TakesLock(n, v))
          \/ (\E n \in Nodes, v \in Vols, t \in Targets : Unpublish(n, v, t))
      <4> SUFFICES ASSUME NEW n \in Nodes, NEW v \in Vols,
                          \/ StageMounts(n, v) \/ StageStores(n, v) \/ UnstageUnmounts(n, v)
                          \/ UnstageRemoves(n, v) \/ CallFails(n, v)
                          \/ \E t \in Targets : PublishBinds(n, v, t) \/ PublishFails(n, v, t)
                   PROVE  locks' = locks
        BY <2>3 DEF NodeNext, Starts, NodeChanges, Vanishes, NodeDeleted
      <4> QED
        BY DEF StageMounts, StageStores, UnstageUnmounts,
               UnstageRemoves, CallFails, PublishBinds, PublishFails
    <3> QED
      BY <2>1, <3>1 DEF TakesLock
  <2>4. ASSUME NEW w \in Workers, WorkerStep(w)
        PROVE  \/ Doubted(l)
               \/ \E k \in Keys : Vanished(k) /\ AddressOf(k) = AddressOf(l)
    <3>1. locks' = locks \/ \E key \in leader.worker[w].todo : SeesTo(w, key)
      BY <2>4 DEF WorkerStep, Handles, Removes, nodeVars
    <3> QED
      BY <2>2, <3>1
  <2>5. LeaderChanges \/ LoopStep \/ (\E n \in Nodes : Watch(n) \/ Relist(n)) \/ UNCHANGED vars => locks' = locks
    BY DEF LeaderChanges, LoopStep, ListConfigMaps, ListNodes, Watch, Relist, nodeVars, vars
  <2> QED
    BY <1>1, <2>3, <2>4, <2>5 DEF Next
<1> QED
  BY <1>1, LockInvariance, PTL DEF Spec, LiveLocksKept
=============================================================================
