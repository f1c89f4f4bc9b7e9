---------------------------- MODULE LockRelease ----------------------------
(***************************************************************************)
(* The lock release controller (pkg/releaselock/controller.go,             *)
(* cmd/lockrelease/main.go) together with the node servers: whoever leads  *)
(* releases the advisory locks that machines left behind when they         *)
(* vanished, by the keys their node servers recorded.                      *)
(*                                                                         *)
(* The leader is the old version (a loop that lists ConfigMaps and         *)
(* nodes) or the new one (workers for create and update events of          *)
(* nodes).  Every version runs the same two steps for a key that no Node   *)
(* object of today matches: release its locks, then remove it.             *)
(***************************************************************************)
EXTENDS NodeServer, Sequences

CONSTANT Versions  \* of the controller, during a rolling upgrade

VARIABLE leader    \* the controller that leads

vars == <<nodeVars, leader>>

Workers == {"loop", "create", "update"}

\* A Node was added, or updated from the old to the new object.
Events == [type : {"create", "update"}, node : Nodes, old : NodeObject, new : NodeObject]
CreateEvent(n, new) == [type |-> "create", node |-> n, old |-> Absent, new |-> new]
UpdateEvent(n, old, new) == [type |-> "update", node |-> n, old |-> old, new |-> new]

\* events: what is worked on (none for the loop); todo: its keys still to be seen to;
\* released: the one whose locks are released and which is to be removed; failed: one
\* of them could not be.
WorkerRec == [events : SUBSET Events, todo : SUBSET Keys, released : SUBSET Keys, failed : BOOLEAN]
IdleWorker == [events |-> {}, todo |-> {}, released |-> {}, failed |-> FALSE]

\* listed: keys of the ConfigMaps the loop has listed; looping: it has, and has yet to
\* list the nodes; seen: each Node as the informer knows it; pending: its later states,
\* which the watch has yet to deliver; skipped: keys of earlier machines that an update
\* event says nothing about; queue: of events.
LeaderRec == [version : Versions, looping : BOOLEAN, listed : SUBSET Keys,
              seen : [Nodes -> NodeObject], pending : [Nodes -> Seq(NodeObject)],
              skipped : SUBSET Keys, queue : SUBSET Events, worker : [Workers -> WorkerRec]]

\* A new leader starts from nothing; the first listing of the informer adds
\* every Node there is.
NewLeader(version) ==
  [version |-> version, looping |-> FALSE, listed |-> {}, skipped |-> {},
   seen |-> IF version = "new" THEN node ELSE [n \in Nodes |-> Absent],
   pending |-> [n \in Nodes |-> <<>>],
   queue |-> IF version = "new" THEN {CreateEvent(n, node[n]) : n \in {m \in Nodes : node[m].exists}} ELSE {},
   worker |-> [w \in Workers |-> IdleWorker]]

\* A worker removes at most one key at a time, and one it has yet to see to.
TypeOK ==
  /\ NodeTypeOK /\ leader \in LeaderRec
  /\ \A w \in Workers : /\ leader.worker[w].released \subseteq leader.worker[w].todo
                        /\ Cardinality(leader.worker[w].released) <= 1

Init == NodeInit /\ \E version \in Versions : leader = NewLeader(version)

\* The leader stops, or loses its lease and stops (klog.Fatalf).
LeaderChanges ==
  /\ Fault
  /\ \E version \in Versions : leader' = NewLeader(version)
  /\ UNCHANGED <<machineVars, configMap, vol, locks>>

\* verifyConfigMapEntry, verifyNodeExists: a Node without annotations is an error; one
\* that is absent or lacks the instance_id annotation matches no key.
Fails(object) == object.exists /\ ~object.annotated
Matches(object, key) == object.names = key.machine

-----------------------------------------------------------------------------
(* One key: release, then remove. *)

Idling(w) == leader.worker[w].todo = {}

\* When the last key has been seen to, an event with a failure is queued again.
Proceeds(w, r) ==
  leader' = IF r.todo # {} THEN [leader EXCEPT !.worker[w] = r]
            ELSE [leader EXCEPT !.worker[w] = IdleWorker,
                                !.queue = IF r.failed THEN @ \cup r.events ELSE @]
PassesOver(w, key) == Proceeds(w, [leader.worker[w] EXCEPT !.todo = @ \ {key}, !.released = {}])
\* Variant: the worker still believes that it has released.
GivesUpUnreset(w, key) ==
  Proceeds(w, [leader.worker[w] EXCEPT !.todo = @ \ {key}, !.failed = TRUE])
GivesUp(w, key) ==
  Proceeds(w, [leader.worker[w] EXCEPT !.todo = @ \ {key}, !.released = {}, !.failed = TRUE])

\* ReleaseLock takes all locks of an address away from a Filestore instance.
ReleasedWith(key) ==
  {l \in locks : Server[l.vol] = Server[key.vol] /\ AddressOf(l) = AddressOf(key)}

\* Variant: the Node of the event is believed.
IsStaleByEvent(w, key) == TRUE

\* Only a create event is checked against the Node of today; if there is none, the
\* key is left.
IsStale(w, key) ==
  w = "create" => LET latest == node[key.node]
                  IN latest.exists /\ ~Fails(latest) /\ ~Matches(latest, key)
CannotTell(w, key) == w = "create" /\ Fails(node[key.node])

SeesTo(w, key) ==
  /\ key \in leader.worker[w].todo /\ leader.worker[w].released = {}
  /\ \/ /\ ~IsStale(w, key) /\ ~CannotTell(w, key)
        /\ PassesOver(w, key) /\ UNCHANGED <<locks, faults>>
     \/ /\ CannotTell(w, key)
        /\ GivesUp(w, key) /\ UNCHANGED <<locks, faults>>
     \/ /\ IsStale(w, key)
        /\ locks' = locks \ ReleasedWith(key)
        /\ leader' = [leader EXCEPT !.worker[w].released = {key}]
        /\ UNCHANGED faults
     \/ /\ IsStale(w, key) /\ Fault
        /\ GivesUp(w, key) /\ UNCHANGED locks
  /\ UNCHANGED <<machineVars, configMap, vol>>

\* RemoveKeyFromConfigMapWithRetry: it gets the latest ConfigMap before each attempt.
Removes(w, key) ==
  /\ key \in leader.worker[w].released
  /\ \/ /\ configMap' = [configMap EXCEPT ![key.node].keys = @ \ {key}]
        /\ PassesOver(w, key) /\ UNCHANGED faults
     \/ Fault /\ GivesUp(w, key) /\ UNCHANGED configMap
  /\ UNCHANGED <<machineVars, vol, locks>>

-----------------------------------------------------------------------------
(* Version 1 *)

ListConfigMaps ==
  /\ leader.version = "old" /\ ~leader.looping /\ Idling("loop")
  /\ leader' = [leader EXCEPT !.looping = TRUE, !.listed = UNION {configMap[n].keys : n \in Nodes}]
  /\ UNCHANGED nodeVars

\* Variant: of a key's Node only that there is one is looked at.
UnmatchedByName(keys) == {key \in keys : ~node[key.node].exists}

\* syncLockInfo: the keys whose Node is not there, or names no machine or another one.
Unmatched(keys) == {key \in keys : ~Fails(node[key.node]) /\ ~Matches(node[key.node], key)}

ListNodes ==
  /\ leader.looping
  /\ leader' = [leader EXCEPT !.looping = FALSE, !.listed = {}, !.worker["loop"].todo = Unmatched(leader.listed)]
  /\ UNCHANGED nodeVars

-----------------------------------------------------------------------------
(* Version 2 *)

\* Every change of a Node is to be delivered.
Watched ==
  leader' = IF leader.version = "new"
            THEN [leader EXCEPT !.pending = [n \in Nodes |->
                    IF node'[n] = node[n] THEN @[n] ELSE Append(@[n], node'[n])]]
            ELSE leader

\* The informer learns the next state of a Node: it has been added or updated.  There is
\* no handler for deletions.  An update says nothing of earlier machines that neither
\* object names, of those from the given one on.
Learns(n, new, later, from) ==
  LET old == leader.seen[n]
  IN leader' = [leader EXCEPT
       !.seen[n] = new,
       !.pending[n] = later,
       !.skipped = IF old.exists /\ new.exists
                   THEN @ \cup {key \in Keys : /\ key.node = n /\ ~Matches(old, key)
                                               /\ from <= key.machine /\ key.machine < new.names}
                   ELSE @,
       !.queue = @ \cup (CASE ~new.exists -> {}
                           [] new.exists /\ ~old.exists -> {CreateEvent(n, new)}
                           [] OTHER -> {UpdateEvent(n, old, new)})]

Watch(n) ==
  /\ leader.pending[n] # <<>>
  /\ Learns(n, Head(leader.pending[n]), Tail(leader.pending[n]), leader.seen[n].names)
  /\ UNCHANGED nodeVars

\* The watch breaks and the informer lists the Nodes anew: one that was deleted and
\* created meanwhile looks updated, and what was in between has never been there.
Relist(n) ==
  /\ Len(leader.pending[n]) > 1 /\ Fault
  /\ Learns(n, node[n], <<>>, 0)
  /\ UNCHANGED <<machineVars, configMap, vol, locks>>

\* A key that does not match the Node of the event and, if it is an update, matches
\* the old one.
LeftBy(e, key) ==
  ~Fails(e.new) /\ ~Matches(e.new, key) /\ (e.type = "update" => Matches(e.old, key))

\* A key for which the event ends in an error.
Undecided(e, key) ==
  Fails(e.new) \/ (e.type = "update" /\ ~Matches(e.new, key) /\ Fails(e.old))

\* handleUpdateEvent, like handleCreateEvent, goes through the Node's ConfigMap.
Concerned(e) == {key \in configMap[e.node].keys : LeftBy(e, key)}

\* An event with a key for which it ends in an error is queued again.  It is not about
\* any other: it has changed nothing.
Handles(w, e) ==
  /\ e \in leader.queue /\ e.type = w /\ Idling(w)
  /\ ~\E key \in configMap[e.node].keys : Undecided(e, key)
  /\ leader' = [leader EXCEPT
       !.queue = @ \ {e},
       !.worker[w] = IF Concerned(e) = {} THEN IdleWorker
                     ELSE [IdleWorker EXCEPT !.events = {e}, !.todo = Concerned(e)]]
  /\ UNCHANGED nodeVars

-----------------------------------------------------------------------------
WorkerStep(w) == \/ \E e \in leader.queue : Handles(w, e)
                 \/ \E key \in leader.worker[w].todo : SeesTo(w, key) \/ Removes(w, key)
LoopStep == ListConfigMaps \/ ListNodes

Next == \/ NodeNext /\ Watched
        \/ LeaderChanges \/ LoopStep
        \/ \E w \in Workers : WorkerStep(w)
        \/ \E n \in Nodes : Watch(n) \/ Relist(n)

Spec == Init /\ [][Next]_vars
=============================================================================
