-------------------------- MODULE LockReleaseSafety --------------------------
(***************************************************************************)
(* What the node servers and the lock release controller promise together. *)
(***************************************************************************)
EXTENDS LockRelease

Alive(l) == Up(l.node) /\ l.machine = Current(l.node)
Gone(n, k) == k < Current(n) \/ (k = Current(n) /\ ~Up(n))
Vanished(key) == Gone(key.node, key.machine)
Doubted(key) == key.machine \in doubted[key.node]

\* Whatever locks there are, of a machine that is up or of one that has vanished, the
\* node's ConfigMap has the key to release them by: it is stored before the kubelet is
\* told that the volume is staged (node.go:362), no update by another volume's call or
\* by the controller loses it, and it outlives the machine.  Except for a machine whose
\* Node did not name it while it was up: its keys are removed (controller.go:327, 550).
LocksRecorded == \A l \in locks : l \in configMap[l.node].keys \/ Doubted(l)

\* The controller takes no lock away from a machine that is up ("to prevent incorrect
\* releasing the lock in case of a lagging informer/watch", controller.go:93), however
\* late it learns of nodes, unless its Node has not always named it, or it has the
\* address of a vanished machine.
LiveLocksKept ==
  [][\A l \in locks \ locks' : Alive(l) /\ vol'[l.node][l.vol].bound # {}
        => \/ Doubted(l)
           \/ \E key \in Keys : Vanished(key) /\ AddressOf(key) = AddressOf(l)]_vars

\* What the kubelet believes to be staged is mounted at the staging path ("the source
\* staging path, where the GCFS volume is mounted", node.go:92).
StagedIsMounted == \A n \in Nodes, v \in Vols : vol[n][v].phase = "staged" => vol[n][v].mounted

-----------------------------------------------------------------------------
(* The inductive strengthening of LocksRecorded and LiveLocksKept: how the     *)
(* machines, the mounts, the ConfigMaps and what the leader works on relate.   *)

Started(key) == key.machine <= Current(key.node)

\* A key stands for a machine that has, or had, the name.
KeysOfMachines ==
  /\ \A l \in locks : Started(l)
  /\ \A n \in Nodes : \A key \in configMap[n].keys : key.node = n /\ Started(key)
  /\ \A key \in leader.listed : Started(key)

\* A machine that its Node does not name has vanished, or is doubted.
UnsureMachine(n, k) == Gone(n, k) \/ k \in doubted[n]
Unsure(key) == UnsureMachine(key.node, key.machine)

\* A Node names no later machine, and the one that is up unless it is doubted.  Machines
\* that are up have addresses of their own.
NodesOK ==
  /\ \A n \in Nodes, m \in Nodes :
       n # m /\ Up(n) /\ Up(m) => Address[n][Current(n)] # Address[m][Current(m)]
  /\ \A n \in Nodes : /\ node[n].names <= Current(n)
                      /\ Up(n) => node[n].names = Current(n) \/ Current(n) \in doubted[n]

\* A volume is staged on a machine that is up and whose pods use it; only if it is
\* staged and no call works on it is it bound, and only if it is bound is it locked.
MountOK(n, v) == LET r == vol[n][v] IN
  /\ ~Up(n) => r = NotStaged
  /\ r.phase # "unstaged" => <<n, Current(n)>> \in Places[v]
  /\ r.call = "stage" => r.phase = "staging"
  /\ r.call = "unstage" => r.phase = "unstaging"
  /\ r.bound # {} => r.phase = "staged" /\ r.call = ""
  /\ Up(n) /\ r.bound = {} => Key(n, v) \notin locks

\* What is staged is recorded, and stays recorded while a call relies on having read so.
Recorded(n, v) == LET r == vol[n][v] IN
  r.phase = "staged" \/ (r.call = "stage" /\ Key(n, v) \in r.copy.keys)
    => Key(n, v) \in configMap[n].keys \/ Doubted(Key(n, v))

MountsOK == \A n \in Nodes, v \in Vols : MountOK(n, v) /\ Recorded(n, v)

\* An update event is about a machine the Node has ceased to name.
Superseded(n, object) == object.names # 0 => UnsureMachine(n, object.names)
EventOK(e) == e.type = "update" => Superseded(e.node, e.old)

\* What the informer knows is up to date, or superseded by what it is yet to learn.
InformerOK(n) == LET later == leader.pending[n] IN
  /\ leader.version # "new" => later = <<>>
  /\ later # <<>> => /\ Superseded(n, leader.seen[n])
                     /\ \A i \in 1..Len(later) - 1 : Superseded(n, later[i])
                     /\ later[Len(later)] = node[n]
  /\ leader.version = "new" /\ later = <<>> => leader.seen[n] = node[n]

\* Only keys of machines that have vanished or are doubted are seen to, but for those
\* of create events, which are checked first; nobody locks again what was released of a
\* vanished machine.
WorkerOK(w, r) ==
  /\ \A e \in r.events : EventOK(e)
  /\ \A key \in r.todo : Started(key) /\ (w # "create" => Unsure(key))
  /\ \A key \in r.released : Doubted(key) \/ (Vanished(key) /\ key \notin locks)

LeaderOK ==
  /\ leader.looping => Idling("loop")
  /\ \A n \in Nodes : InformerOK(n)
  /\ \A e \in leader.queue : EventOK(e)
  /\ \A w \in Workers : WorkerOK(w, leader.worker[w])

LockInv == TypeOK /\ KeysOfMachines /\ NodesOK /\ MountsOK /\ LocksRecorded /\ LeaderOK

-----------------------------------------------------------------------------
\* Fairness: the loop runs every SyncPeriod, events are delivered, and workers work.
Fairness ==
  /\ WF_vars(LoopStep)
  /\ \A w \in Workers : WF_vars(WorkerStep(w))
  /\ \A n \in Nodes : WF_vars(Watch(n))
FairSpec == Spec /\ Fairness

\* When a machine has been replaced under its name and the Node names the new one, the
\* locks that the old one left behind are released, as far as they are recorded, unless
\* the machine goes again, or its Node stops naming it, or the informer of version 2 has
\* seen the new one as the update of another machine (controller.go:525 asks for a match
\* with the old Node).
LeftBehind(l) ==
  /\ l \in locks /\ l \in configMap[l.node].keys
  /\ Up(l.node) /\ l.machine < Current(l.node) /\ node[l.node] = Naming(Current(l.node))
ReplacedNodesLocksReleased ==
  \A l \in {key \in Keys : key.machine < Machines[key.node]} :
    LeftBehind(l) ~> ~LeftBehind(l) \/ l \in leader.skipped
=============================================================================
