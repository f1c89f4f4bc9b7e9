-------------------------- MODULE ReconcilerProofs --------------------------
(***************************************************************************)
(* The stateful controller and the reconciler keep a volume in one place:  *)
(* objects, caches, the copies of a round, operations, shares and answers  *)
(* name one instance for it, or none.  So no volume has two shares and no  *)
(* ShareInfo is moved, for every set of instances and volumes, caches that *)
(* lag by any time, failing writes and instances the user deletes.         *)
(*                                                                         *)
(* The second half is about instances: what points to one, the shares on   *)
(* it, and the shares its InstanceInfo lists.  So an instance is only      *)
(* deleted when it is empty, if the informers keep up between the rounds.  *)
(***************************************************************************)
EXTENDS ReconcilerSafety, SizesTheorems

-----------------------------------------------------------------------------
(* Types. *)

RoundRec ==
  [phase: RoundPhases, todo: SUBSET (Insts \cup Vols \cup (Insts \X Vols)),
   shares: [Insts -> [Vols -> ShareRec]], onInst: [Insts -> SUBSET Vols],
   si: [Vols -> ShareInfoRec], ii: [Insts -> InstanceInfoRec],
   targets: SUBSET (Insts \X (Vols \cup {NoVol}))]

\* The "none" objects, and new ones, are objects.
LEMMA NoneType ==
  /\ NoShareInfo \in ShareInfoRec /\ NoInstanceInfo \in InstanceInfoRec
  /\ AbsentShare \in ShareRec
  /\ \A size \in Nat : NewInstanceInfo(size) \in InstanceInfoRec /\ NewInstanceInfo(size).exists
  /\ \A size \in Nat, pool \in BOOLEAN :
       NewShareInfo(size, pool) \in ShareInfoRec /\ NewShareInfo(size, pool).handle = NoInst
BY DEF NoShareInfo, NoInstanceInfo, AbsentShare, ShareInfoRec, InstanceInfoRec, ShareRec,
       NewInstanceInfo, NewShareInfo, FilestoreStatus, ShareStates

\* A round that has not begun.
LEMMA IdleRound ==
  /\ Idle \in RoundRec /\ Idle.phase = "idle" /\ Idle.todo = {}
  /\ \A v \in Vols : Idle.si[v] = NoShareInfo /\ Idle.si[v].handle = NoInst
  /\ \A i \in Insts, v \in Vols : Idle.shares[i][v].state = "ABSENT"
BY NoneType DEF Idle, RoundRec, RoundPhases, NoShareInfo, AbsentShare

LEMMA TypeParts ==
  ASSUME TypeOK
  PROVE  /\ instance \in [Insts -> InstanceRec] /\ share \in [Insts -> [Vols -> ShareRec]]
         /\ ops \in SUBSET Op
         /\ shareInfo \in [Vols -> ShareInfoRec] /\ shareLister \in [Vols -> ShareInfoRec]
         /\ controllerLister \in [Vols -> ShareInfoRec]
         /\ instanceInfo \in [Insts -> InstanceInfoRec]
         /\ instanceLister \in [Insts -> InstanceInfoRec]
         /\ faults \in 0..MaxFaults /\ pv \in [Vols -> PVRec] /\ recon \in RoundRec
BY DEF TypeOK, CloudTypeOK, ObjectsTypeOK, ReconTypeOK, RoundRec

-----------------------------------------------------------------------------
(* Walking through the phases. *)

\* What a walk makes of r: the same copies, or the end of the round.
Follows(q, r) ==
  /\ q \in RoundRec /\ WorkFits(q)
  /\ q.si = r.si \/ q.si = Idle.si
  /\ q.shares = r.shares \/ q.shares = Idle.shares

LEMMA SharesFollow == ASSUME NEW r \in RoundRec, WorkFits(r)
                      PROVE  Follows(AfterShares(r), r)
BY IdleRound DEF AfterShares, Follows, WorkFits

LEMMA InstancesFollow == ASSUME NEW r \in RoundRec, r.phase = "instances"
                         PROVE  Follows(AfterInstances(r), r)
<1> DEFINE q == [r EXCEPT !.phase = "shares", !.todo = {v \in Vols : ShareNeedsRequest(r.si[v])}]
<1>1. CASE r.todo = {}
  <2>1. q \in RoundRec /\ q.si = r.si /\ q.shares = r.shares
    BY DEF RoundRec, RoundPhases
  <2>2. WorkFits(q)
    BY DEF WorkFits, ShareNeedsRequest, RoundRec
  <2>3. Follows(AfterShares(q), q)
    BY <2>1, <2>2, SharesFollow
  <2> HIDE DEF q
  <2>4. AfterInstances(r) = AfterShares(q)
    BY <1>1 DEF AfterInstances, q
  <2> QED
    BY <2>1, <2>3, <2>4 DEF Follows
<1>2. CASE r.todo # {}
  BY <1>2 DEF AfterInstances, Follows, WorkFits
<1> QED
  BY <1>1, <1>2

LEMMA RequestsFollow == ASSUME NEW r \in RoundRec PROVE Follows(StartRequests(r), r)
<1> DEFINE q == [r EXCEPT !.phase = "instances", !.todo = {i \in Insts : InstanceNeedsRequest(r.ii[i])}]
<1>1. q \in RoundRec /\ q.phase = "instances" /\ q.si = r.si /\ q.shares = r.shares
  BY DEF RoundRec, RoundPhases
<1> HIDE DEF q
<1>2. Follows(AfterInstances(q), q) /\ StartRequests(r) = AfterInstances(q)
  BY <1>1, InstancesFollow DEF StartRequests, q
<1> QED
  BY <1>1, <1>2 DEF Follows

LEMMA AssignFollows == ASSUME NEW r \in RoundRec, WorkFits(r)
                       PROVE  Follows(AfterAssign(r), r)
BY DEF AfterAssign, Follows, WorkFits, RoundRec, RoundPhases

LEMMA PointersFollow == ASSUME NEW r \in RoundRec, WorkFits(r)
                        PROVE  Follows(AfterPointers(r), r)
<1> DEFINE q == [r EXCEPT !.phase = "assign", !.todo = Unassigned(r)]
<1>1. q \in RoundRec /\ q.si = r.si /\ q.shares = r.shares /\ WorkFits(q)
  BY DEF RoundRec, RoundPhases, Unassigned, WorkFits
<1> HIDE DEF q
<1>2. Follows(AfterAssign(q), q)
  BY <1>1, AssignFollows
<1>3. CASE r.todo = {}
  BY <1>1, <1>2, <1>3 DEF AfterPointers, Follows, q
<1>4. CASE r.todo # {}
  BY <1>4 DEF AfterPointers, Follows
<1> QED
  BY <1>3, <1>4

LEMMA StartFollows == ASSUME NEW r \in RoundRec PROVE Follows(StartPointers(r), r)
<1> DEFINE q == [r EXCEPT !.phase = "pointers", !.todo = WrongPointers(r)]
<1>1. q \in RoundRec /\ q.si = r.si /\ q.shares = r.shares /\ WorkFits(q)
  BY DEF RoundRec, RoundPhases, WrongPointers, WorkFits
<1> HIDE DEF q
<1>2. Follows(AfterPointers(q), q) /\ StartPointers(r) = AfterPointers(q)
  BY <1>1, PointersFollow DEF StartPointers, q
<1> QED
  BY <1>1, <1>2 DEF Follows

\* One piece of the work less.
LEMMA DoneFits ==
  ASSUME NEW r \in RoundRec, WorkFits(r), NEW x
  PROVE  /\ Done(r, x) \in RoundRec /\ WorkFits(Done(r, x))
         /\ Done(r, x).phase = r.phase /\ Done(r, x).si = r.si /\ Done(r, x).shares = r.shares
BY DEF Done, RoundRec, WorkFits

-----------------------------------------------------------------------------
(* What can change the places of a volume. *)

Holds(v, h) == h = NoInst \/ h \in Places(v)

\* A share, a listed share or an operation of the volume on instance i.
OnInstance(i, v) == \/ share[i][v].state # "ABSENT"
                    \/ recon.shares[i][v].state # "ABSENT"
                    \/ \E o \in ops : o.inst = i /\ o.vol = v

\* Places, taken apart.
LEMMA PlacesAre ==
  ASSUME NEW v \in Vols
  PROVE  /\ \A h \in {shareInfo[v].handle, shareLister[v].handle, controllerLister[v].handle,
                      recon.si[v].handle, pv[v].inst} : Holds(v, h)
         /\ \A i \in Insts : OnInstance(i, v) => i \in Places(v)
BY DEF Places, Holds, OnInstance, SharesOf

\* Caches only show objects there are, or were.
LEMMA CachesShow ==
  ASSUME CachesFollow, TypeOK, shareInfo' \in [Vols -> ShareInfoRec],
         instanceInfo' \in [Insts -> InstanceInfoRec]
  PROVE  /\ shareLister' \in [Vols -> ShareInfoRec]
         /\ controllerLister' \in [Vols -> ShareInfoRec]
         /\ instanceLister' \in [Insts -> InstanceInfoRec]
         /\ \A v \in Vols : /\ shareLister'[v] \in {shareLister[v], shareInfo'[v]}
                            /\ controllerLister'[v] \in {controllerLister[v], shareInfo'[v]}
BY TypeParts DEF CachesFollow

\* What a step does about a volume that is not assigned anew.
StaysPut(v) ==
  /\ Holds(v, shareInfo'[v].handle)
  /\ Holds(v, shareLister'[v].handle) \/ shareLister'[v] = shareInfo'[v]
  /\ Holds(v, controllerLister'[v].handle) \/ controllerLister'[v] = shareInfo'[v]
  /\ Holds(v, recon'.si[v].handle) /\ Holds(v, pv'[v].inst)
  /\ \A i \in Insts : OnInstance(i, v)' => i \in Places(v)
  /\ Unplaced(v)' => Unplaced(v)

LEMMA PlaceStays == ASSUME NEW v \in Vols, PlaceOK(v), StaysPut(v) PROVE PlaceOK(v)'
<1>1. \A i \in Places(v)' : i \in Places(v)
  BY DEF StaysPut, Holds, Places, OnInstance, SharesOf
<1>2. (\A i, j \in Places(v) : i = j) /\ (Unplaced(v) => Places(v) = {})
  BY DEF PlaceOK
<1>3. Unplaced(v)' => Unplaced(v)
  BY DEF StaysPut
<1>4. Unplaced(v)' => Places(v)' = {}
  BY <1>1, <1>2, <1>3
<1> QED
  BY <1>1, <1>2, <1>4 DEF PlaceOK

\* A volume without a place gets one: its ShareInfo is pointed to instance i.
Assigned(v, i) ==
  /\ Unplaced(v) /\ shareInfo'[v].exists /\ shareInfo'[v].handle = i
  /\ Holds(v, shareLister'[v].handle) \/ shareLister'[v] = shareInfo'[v]
  /\ Holds(v, controllerLister'[v].handle) \/ controllerLister'[v] = shareInfo'[v]
  /\ Holds(v, recon'.si[v].handle) \/ recon'.si[v].handle = i
  /\ Holds(v, pv'[v].inst)
  /\ \A j \in Insts : OnInstance(j, v)' => j \in Places(v)

LEMMA PlaceFound ==
  ASSUME NEW v \in Vols, NEW i \in Insts, PlaceOK(v), Assigned(v, i) PROVE PlaceOK(v)'
<1>1. Places(v) = {}
  BY DEF PlaceOK, Assigned
<1>2. \A j \in Places(v)' : j = i
  <2>1. \A h : Holds(v, h) => h = NoInst
    BY <1>1 DEF Holds
  <2>2. /\ shareInfo'[v].handle = i /\ pv'[v].inst = NoInst
        /\ {shareLister'[v].handle, controllerLister'[v].handle, recon'.si[v].handle} \subseteq {i, NoInst}
    BY <2>1 DEF Assigned
  <2>3. \A j \in Insts : ~OnInstance(j, v)'
    BY <1>1 DEF Assigned
  <2> QED
    BY <2>2, <2>3 DEF Places, OnInstance, SharesOf
<1>3. ~Unplaced(v)'
  BY FilestoreAssumption DEF Assigned, Unplaced
<1> QED
  BY <1>2, <1>3 DEF PlaceOK

-----------------------------------------------------------------------------
(* Filestore. *)

\* An operation is on an instance, or on one of its shares.
LEMMA OpShape ==
  ASSUME NEW o \in Op
  PROVE  /\ o.inst \in Insts /\ o.cap \in Nat
         /\ \/ o.type \in InstanceOps /\ o.vol = NoVol
            \/ o.type \in ShareOps /\ o.vol \in Vols
         /\ NoVol \notin Vols
BY FilestoreAssumption DEF Op, InstanceOp, ShareOp

\* A request that is accepted brings its resource into a state of its type, and is
\* for the share it names.
LEMMA StartsTyped ==
  ASSUME CloudTypeOK, NEW o \in Op, NEW protocol \in Protocols \cup {""}, StartOp(o, protocol)
  PROVE  /\ CloudTypeOK'
         /\ \A i \in Insts, v \in Vols :
              /\ share'[i][v].state # "ABSENT" =>
                   share[i][v].state # "ABSENT" \/ (o.inst = i /\ o.vol = v)
              /\ \A p \in ops' : p \in ops \/ p = o
<1>1. /\ o.inst \in Insts /\ o.cap \in Nat /\ NoVol \notin Vols
      /\ \/ o.type \in InstanceOps /\ o.vol = NoVol
         \/ o.type \in ShareOps /\ o.vol \in Vols
  BY OpShape
<1>2. /\ instance \in [Insts -> InstanceRec] /\ share \in [Insts -> [Vols -> ShareRec]]
      /\ ops \in SUBSET Op
  BY DEF CloudTypeOK
<1>3. ops' \in SUBSET Op
  BY <1>2 DEF StartOp
<1>4. instance' \in [Insts -> InstanceRec]
  BY <1>1, <1>2 DEF StartOp, InstanceRec, InstanceStates
<1>5. CASE o.type \in InstanceOps /\ o.vol = NoVol
  BY <1>2, <1>3, <1>4, <1>5 DEF StartOp, CloudTypeOK
<1>6. CASE o.type \in ShareOps /\ o.vol \in Vols
  <2> DEFINE s == CASE o.type = "ShareCreate" -> [state |-> "CREATING", cap |-> o.cap]
                    [] o.type = "ShareDelete" -> [share[o.inst][o.vol] EXCEPT !.state = "DELETING"]
                    [] OTHER -> share[o.inst][o.vol]
  <2>1. s \in ShareRec
    <3>1. share[o.inst][o.vol] \in ShareRec
      BY <1>1, <1>2, <1>6
    <3>2. /\ [state |-> "CREATING", cap |-> o.cap] \in ShareRec
          /\ [share[o.inst][o.vol] EXCEPT !.state = "DELETING"] \in ShareRec
      BY <1>1, <3>1 DEF ShareRec, ShareStates
    <3> QED
      BY <3>1, <3>2
  <2>2. share' = [share EXCEPT ![o.inst][o.vol] = s]
    BY <1>1, <1>6 DEF StartOp
  <2> HIDE DEF s
  <2>3. share' \in [Insts -> [Vols -> ShareRec]]
    BY <1>1, <1>2, <1>6, <2>1, <2>2
  <2>4. \A i \in Insts, v \in Vols : share'[i][v] = share[i][v] \/ (o.inst = i /\ o.vol = v)
    BY <1>1, <1>2, <1>6, <2>2
  <2> QED
    BY <1>3, <1>4, <2>3, <2>4 DEF StartOp, CloudTypeOK
<1> QED
  BY <1>1, <1>5, <1>6

\* An operation that is done changes only the instance or the share it was for.
LEMMA DonesTyped ==
  ASSUME CloudTypeOK, NEW o \in ops, OpSucceeds(o) \/ OpFails(o)
  PROVE  /\ CloudTypeOK'
         /\ \A i \in Insts, v \in Vols :
              /\ share'[i][v].state # "ABSENT" =>
                   share[i][v].state # "ABSENT" \/ (o.inst = i /\ o.vol = v)
              /\ \A p \in ops' : p \in ops
<1>1. /\ o.inst \in Insts /\ o.cap \in Nat /\ NoVol \notin Vols
      /\ \/ o.type \in InstanceOps /\ o.vol = NoVol
         \/ o.type \in ShareOps /\ o.vol \in Vols
  BY OpShape DEF CloudTypeOK
<1>2. /\ instance \in [Insts -> InstanceRec] /\ share \in [Insts -> [Vols -> ShareRec]]
      /\ ops \in SUBSET Op
  BY DEF CloudTypeOK
<1>3. ops' \in SUBSET Op /\ ops' \subseteq ops
  BY <1>2 DEF OpSucceeds, OpFails
<1>4. instance' \in [Insts -> InstanceRec]
  <2>1. instance[o.inst] \in InstanceRec
    BY <1>1, <1>2
  <2>2. PICK r \in InstanceRec : instance' = [instance EXCEPT ![o.inst] = r]
    <3>1. /\ AbsentInstance("GONE") \in InstanceRec
          /\ \A state \in InstanceStates : [instance[o.inst] EXCEPT !.state = state] \in InstanceRec
          /\ [instance[o.inst] EXCEPT !.cap = o.cap] \in InstanceRec
      BY <1>1, <2>1 DEF InstanceRec, InstanceStates, AbsentInstance
    <3> QED
      BY <1>1, <2>1, <3>1 DEF OpSucceeds, OpFails, InstanceStates
  <2> QED
    BY <1>1, <1>2, <2>2
<1>5. CASE o.type \in InstanceOps /\ o.vol = NoVol
  BY <1>2, <1>3, <1>4, <1>5 DEF OpSucceeds, OpFails, CloudTypeOK
<1>6. CASE o.type \in ShareOps /\ o.vol \in Vols
  <2>1. share[o.inst][o.vol] \in ShareRec
    BY <1>1, <1>2, <1>6
  <2>2. PICK s \in ShareRec : share' = [share EXCEPT ![o.inst][o.vol] = s]
    <3>1. /\ AbsentShare \in ShareRec
          /\ [share[o.inst][o.vol] EXCEPT !.state = "READY"] \in ShareRec
          /\ [share[o.inst][o.vol] EXCEPT !.cap = o.cap] \in ShareRec
      BY <1>1, <2>1, NoneType DEF ShareRec, ShareStates
    <3> QED
      BY <1>1, <1>6, <2>1, <3>1 DEF OpSucceeds, OpFails
  <2>3. share' \in [Insts -> [Vols -> ShareRec]]
    BY <1>1, <1>2, <1>6, <2>2
  <2>4. \A i \in Insts, v \in Vols : share'[i][v] = share[i][v] \/ (o.inst = i /\ o.vol = v)
    BY <1>1, <1>2, <1>6, <2>2
  <2> QED
    BY <1>3, <1>4, <2>3, <2>4 DEF CloudTypeOK
<1> QED
  BY <1>1, <1>5, <1>6

LEMMA RepairsTyped ==
  ASSUME CloudTypeOK, NEW i \in Insts, RepairStarts(i) \/ RepairEnds(i)
  PROVE  CloudTypeOK' /\ share' = share /\ ops' = ops
BY DEF CloudTypeOK, RepairStarts, RepairEnds, InstanceRec, InstanceStates

-----------------------------------------------------------------------------
(* Steps around the round. *)

\* A step that moves no handle and adds nothing to Filestore keeps every volume
\* where it is.
LEMMA NothingMoves ==
  ASSUME PlacesInv, TypeOK', WorkFits(recon'), CachesFollow,
         \A v \in Vols :
           /\ Holds(v, shareInfo'[v].handle) /\ (Unplaced(v)' => Unplaced(v))
           /\ Holds(v, recon'.si[v].handle) /\ Holds(v, pv'[v].inst)
           /\ \A i \in Insts : OnInstance(i, v)' => i \in Places(v)
  PROVE  PlacesInv'
<1> SUFFICES ASSUME NEW v \in Vols PROVE PlaceOK(v)'
  BY DEF PlacesInv
<1>1. /\ shareLister'[v] \in {shareLister[v], shareInfo'[v]}
      /\ controllerLister'[v] \in {controllerLister[v], shareInfo'[v]}
  BY CachesShow, TypeParts DEF PlacesInv, TypeOK, ObjectsTypeOK
<1>2. Holds(v, shareLister[v].handle) /\ Holds(v, controllerLister[v].handle)
  BY PlacesAre
<1> QED
  BY <1>1, <1>2, PlaceStays DEF PlacesInv, StaysPut

LEMMA DoneKeepsPlaces ==
  ASSUME PlacesInv, NEW o \in ops, OpDone(o) PROVE PlacesInv'
<1>1. /\ CloudTypeOK /\ TypeOK /\ objectVars' = objectVars /\ recon' = recon /\ pv' = pv
      /\ CachesFollow /\ faults' \in 0..MaxFaults
  BY InfoAssumption DEF PlacesInv, OpDone, RoundLeavesAlone, TypeOK, ObjectsTypeOK, Fault
<1>2. /\ CloudTypeOK'
      /\ \A i \in Insts, v \in Vols :
           /\ share'[i][v].state # "ABSENT" =>
                share[i][v].state # "ABSENT" \/ (o.inst = i /\ o.vol = v)
           /\ \A p \in ops' : p \in ops
  BY <1>1, DonesTyped DEF OpDone
<1>3. TypeOK'
  BY <1>1, <1>2, TypeParts, CachesShow DEF TypeOK, ObjectsTypeOK, objectVars, ReconTypeOK
<1>4. \A i \in Insts, v \in Vols : OnInstance(i, v)' => OnInstance(i, v)
  BY <1>1, <1>2 DEF OnInstance
<1> QED
  BY <1>1, <1>3, <1>4, PlacesAre, NothingMoves DEF objectVars, PlacesInv, Unplaced

LEMMA RepairKeepsPlaces ==
  ASSUME PlacesInv, NEW i \in Insts, Repair(i) PROVE PlacesInv'
<1>1. /\ CloudTypeOK /\ TypeOK /\ objectVars' = objectVars /\ recon' = recon /\ pv' = pv
      /\ CachesFollow /\ faults' \in 0..MaxFaults
  BY InfoAssumption DEF PlacesInv, Repair, RoundLeavesAlone, TypeOK, ObjectsTypeOK, Fault
<1>2. CloudTypeOK' /\ share' = share /\ ops' = ops
  BY <1>1, RepairsTyped DEF Repair
<1>3. TypeOK'
  BY <1>1, <1>2, TypeParts, CachesShow DEF TypeOK, ObjectsTypeOK, objectVars, ReconTypeOK
<1>4. \A j \in Insts, v \in Vols : OnInstance(j, v)' => OnInstance(j, v)
  BY <1>1, <1>2 DEF OnInstance
<1> QED
  BY <1>1, <1>3, <1>4, PlacesAre, NothingMoves DEF objectVars, PlacesInv, Unplaced

LEMMA ManualDeleteKeepsPlaces ==
  ASSUME PlacesInv, NEW i \in Insts, ManualDelete(i) PROVE PlacesInv'
<1>1. /\ CloudTypeOK /\ TypeOK /\ objectVars' = objectVars /\ recon' = recon /\ pv' = pv
      /\ CachesFollow /\ faults' \in 0..MaxFaults
  BY InfoAssumption DEF PlacesInv, ManualDelete, RoundLeavesAlone, TypeOK, ObjectsTypeOK, objectVars, Fault
<1>2. CloudTypeOK' /\ ops' = ops
  BY <1>1, NoneType DEF ManualDelete, CloudTypeOK, AbsentInstance, InstanceRec, InstanceStates
<1>3. TypeOK'
  BY <1>1, <1>2, TypeParts, CachesShow DEF TypeOK, ObjectsTypeOK, objectVars, ReconTypeOK
<1>4. \A j \in Insts, v \in Vols : OnInstance(j, v)' => OnInstance(j, v)
  BY <1>1, <1>2 DEF OnInstance, ManualDelete, AbsentShare, CloudTypeOK
<1> QED
  BY <1>1, <1>3, <1>4, PlacesAre, NothingMoves DEF objectVars, PlacesInv, Unplaced

\* The informers catch up.
LEMMA SyncKeepsPlaces == ASSUME PlacesInv, Sync PROVE PlacesInv'
<1>1. /\ TypeOK /\ cloudVars' = cloudVars /\ objectVars' = objectVars
      /\ recon' = recon /\ pv' = pv /\ faults' = faults
      /\ shareLister' \in {shareLister, shareInfo}
      /\ controllerLister' \in {controllerLister, shareInfo}
      /\ instanceLister' \in {instanceLister, instanceInfo}
  BY DEF PlacesInv, Sync, ReconcilerSync, ControllerSync
<1>2. TypeOK'
  BY <1>1, TypeParts DEF TypeOK, CloudTypeOK, ObjectsTypeOK, objectVars, cloudVars, ReconTypeOK
<1>3. ASSUME NEW v \in Vols PROVE PlaceOK(v)'
  <2>1. \A i \in Insts : OnInstance(i, v)' => i \in Places(v)
    BY <1>1, PlacesAre DEF OnInstance, cloudVars
  <2> QED
    BY <1>1, <2>1, PlacesAre, PlaceStays DEF StaysPut, PlacesInv, objectVars, Unplaced
<1> QED
  BY <1>1, <1>2, <1>3 DEF PlacesInv

\* A round that is given up.
LEMMA EndKeepsPlaces == ASSUME PlacesInv, RoundEnds PROVE PlacesInv'
<1>1. /\ TypeOK /\ cloudVars' = cloudVars /\ objectVars' = objectVars
      /\ recon' = Idle /\ pv' = pv /\ CachesFollow /\ faults' \in 0..MaxFaults
  BY InfoAssumption DEF PlacesInv, RoundEnds, RoundLeavesAlone, TypeOK, ObjectsTypeOK, Fault
<1>2. TypeOK'
  BY <1>1, TypeParts, CachesShow, IdleRound
     DEF TypeOK, CloudTypeOK, ObjectsTypeOK, objectVars, cloudVars, ReconTypeOK, RoundRec
<1>3. \A i \in Insts, v \in Vols : OnInstance(i, v)' => OnInstance(i, v)
  BY <1>1, IdleRound DEF OnInstance, cloudVars
<1>4. WorkFits(recon') /\ \A v \in Vols : recon'.si[v].handle = NoInst
  BY <1>1, IdleRound DEF WorkFits
<1> QED
  BY <1>1, <1>2, <1>3, <1>4, PlacesAre, NothingMoves DEF objectVars, PlacesInv, Unplaced, Holds

\* The listing of shares.
LEMMA ListKeepsPlaces == ASSUME PlacesInv, ListShares PROVE PlacesInv'
<1>1. /\ TypeOK /\ cloudVars' = cloudVars /\ objectVars' = objectVars /\ faults' = faults
      /\ pv' = pv /\ CachesFollow
      /\ recon' = [recon EXCEPT !.phase = "listed", !.shares = share]
  BY DEF PlacesInv, ListShares, RoundLeavesAlone
<1>2. recon' \in RoundRec /\ WorkFits(recon') /\ recon'.si = recon.si /\ recon'.shares = share
  BY <1>1, TypeParts DEF RoundRec, RoundPhases, WorkFits
<1>3. TypeOK'
  BY <1>1, <1>2, TypeParts, CachesShow
     DEF TypeOK, CloudTypeOK, ObjectsTypeOK, objectVars, cloudVars, ReconTypeOK, RoundRec
<1>4. \A i \in Insts, v \in Vols : OnInstance(i, v)' => OnInstance(i, v)
  BY <1>1, <1>2 DEF OnInstance, cloudVars
<1> QED
  BY <1>1, <1>2, <1>3, <1>4, PlacesAre, NothingMoves DEF objectVars, PlacesInv, Unplaced, Holds

\* A request answers with the place of the ShareInfo, or changes a ShareInfo without
\* moving it.
RequestMoves(v) ==
  /\ shareInfo' \in [Vols -> ShareInfoRec] /\ pv' \in [Vols -> PVRec]
  /\ \A w \in Vols : w # v => shareInfo'[w] = shareInfo[w] /\ pv'[w] = pv[w]
  /\ Holds(v, shareInfo'[v].handle) /\ Holds(v, pv'[v].inst)
  /\ Unplaced(v)' => Unplaced(v)
  /\ cloudVars' = cloudVars /\ instanceInfo' = instanceInfo /\ faults' \in 0..MaxFaults

LEMMA CreateMoves == ASSUME TypeOK, NEW v \in Vols, CreateVolume(v) PROVE RequestMoves(v)
<1> USE TypeParts, NoneType, PlacesAre, InfoAssumption
    DEF RequestMoves, RequestLeavesAlone
<1>1. CASE CreateShareInfo(v)
  <2>1. shareInfo' = [shareInfo EXCEPT ![v] = NewShareInfo(ShareSize[v], TRUE)] /\ pv' = pv
    BY <1>1 DEF CreateShareInfo
  <2>2. NewShareInfo(ShareSize[v], TRUE) \in ShareInfoRec /\ shareInfo'[v].handle = NoInst
    BY <2>1
  <2>3. Unplaced(v)
    BY <1>1 DEF CreateShareInfo, FoundShareInfo, Unplaced
  <2>4. Holds(v, shareInfo'[v].handle)
    BY <2>2 DEF Holds
  <2>5. shareInfo' \in [Vols -> ShareInfoRec] /\ \A w \in Vols : w # v => shareInfo'[w] = shareInfo[w]
    BY <2>1, <2>2
  <2> QED
    BY <1>1, <2>1, <2>3, <2>4, <2>5 DEF CreateShareInfo
<1>2. CASE CreateAnswers(v)
  <2>1. /\ shareInfo' = shareInfo /\ FoundShareInfo(v) \in {controllerLister[v], shareInfo[v]}
        /\ FoundShareInfo(v) \in ShareInfoRec
        /\ pv' = [pv EXCEPT ![v] = [phase |-> "bound", inst |-> FoundShareInfo(v).handle, cap |-> ShareSize[v]]]
    BY <1>2 DEF CreateAnswers, FoundShareInfo, Told
  <2>2. /\ FoundShareInfo(v).handle \in Insts \cup {NoInst} /\ ShareSize[v] \in Nat
        /\ Holds(v, FoundShareInfo(v).handle)
    BY <2>1 DEF ShareInfoRec
  <2>3. pv' \in [Vols -> PVRec] /\ pv'[v].phase = "bound" /\ pv'[v].inst = FoundShareInfo(v).handle
    BY <2>1, <2>2 DEF PVRec, Phases
  <2>4. Unplaced(v)' => Unplaced(v)
    BY <2>1, <2>3 DEF Unplaced
  <2> QED
    BY <1>2, <2>1, <2>2, <2>3, <2>4 DEF CreateAnswers
<1> QED
  BY <1>1, <1>2 DEF CreateVolume

LEMMA DeleteMoves == ASSUME TypeOK, NEW v \in Vols, DeleteVolume(v) PROVE RequestMoves(v)
<1> USE TypeParts, NoneType, PlacesAre DEF RequestMoves, RequestLeavesAlone
<1>1. ASSUME Deleted(v)
      PROVE  /\ pv' \in [Vols -> PVRec] /\ pv'[v].phase = "deleted" /\ pv'[v].inst = pv[v].inst
             /\ \A w \in Vols : w # v => pv'[w] = pv[w]
  BY <1>1 DEF Deleted, PVRec, Phases
<1>2. CASE DeleteFindsNothing(v)
  BY <1>1, <1>2 DEF DeleteFindsNothing, Unplaced
<1>3. CASE DeleteShareInfo(v)
  <2>1. /\ MarkedForDeletion(shareInfo[v]) \in ShareInfoRec
        /\ MarkedForDeletion(shareInfo[v]).handle = shareInfo[v].handle
        /\ MarkedForDeletion(shareInfo[v]).exists = shareInfo[v].exists
    BY DEF MarkedForDeletion, ShareInfoRec
  <2>2. shareInfo' = [shareInfo EXCEPT ![v] = MarkedForDeletion(shareInfo[v])] /\ pv' = pv
    BY <1>3 DEF DeleteShareInfo
  <2> QED
    BY <1>3, <2>1, <2>2 DEF DeleteShareInfo, Unplaced
<1>4. CASE DeleteAnswers(v)
  <2>1. shareInfo' = [shareInfo EXCEPT ![v] = NoShareInfo] /\ pv[v].phase = "released"
    BY <1>4 DEF DeleteAnswers
  <2>2. shareInfo'[v] = NoShareInfo /\ ~NoShareInfo.exists /\ NoShareInfo.handle = NoInst
    BY <2>1 DEF NoShareInfo
  <2>3. shareInfo' \in [Vols -> ShareInfoRec] /\ \A w \in Vols : w # v => shareInfo'[w] = shareInfo[w]
    BY <2>1
  <2>4. CASE Deleted(v) /\ UNCHANGED faults
    BY <1>1, <1>4, <2>2, <2>3, <2>4 DEF DeleteAnswers, Unplaced, Holds
  <2>5. CASE UNCHANGED pv /\ Fault
    <3>1. faults' \in 0..MaxFaults
      BY <2>5, InfoAssumption DEF Fault
    <3> QED
      BY <1>4, <2>1, <2>2, <2>3, <2>5, <3>1 DEF DeleteAnswers, Unplaced, Holds
  <2> QED
    BY <1>4, <2>4, <2>5 DEF DeleteAnswers
<1> QED
  BY <1>2, <1>3, <1>4 DEF DeleteVolume

LEMMA ExpandMoves ==
  ASSUME TypeOK, NEW v \in Vols, ControllerExpandVolume(v) \/ ReleasePV(v) PROVE RequestMoves(v)
<1> USE TypeParts, PlacesAre DEF RequestMoves, RequestLeavesAlone
<1>0. ExpandSize[v] \in Nat /\ shareInfo[v] \in ShareInfoRec /\ pv[v] \in PVRec
  BY InfoAssumption
<1>1. CASE ExpandShareInfo(v)
  <2> DEFINE s == [shareInfo[v] EXCEPT !.spec = ExpandSize[v]]
  <2>1. s \in ShareInfoRec /\ s.handle = shareInfo[v].handle /\ s.exists = shareInfo[v].exists
    BY <1>0 DEF ShareInfoRec
  <2>2. shareInfo' = [shareInfo EXCEPT ![v] = s] /\ pv' = pv
    BY <1>1 DEF ExpandShareInfo
  <2> HIDE DEF s
  <2>3. shareInfo'[v] = s /\ (Unplaced(v)' => Unplaced(v))
    BY <2>1, <2>2 DEF Unplaced
  <2> QED
    BY <1>1, <2>1, <2>2, <2>3 DEF ExpandShareInfo
<1>2. CASE ExpandAnswers(v) \/ ReleasePV(v)
  <2>1. PICK r \in PVRec : pv' = [pv EXCEPT ![v] = r] /\ r.inst = pv[v].inst /\ r.phase # "wanted"
    <3>1. ASSUME ExpandAnswers(v)
          PROVE  LET r == [pv[v] EXCEPT !.cap = ExpandSize[v]]
                 IN r \in PVRec /\ pv' = [pv EXCEPT ![v] = r] /\ r.inst = pv[v].inst /\ r.phase = "bound"
      BY <1>0, <3>1 DEF ExpandAnswers, PVRec
    <3>2. ASSUME ReleasePV(v)
          PROVE  LET r == [pv[v] EXCEPT !.phase = "released"]
                 IN r \in PVRec /\ pv' = [pv EXCEPT ![v] = r] /\ r.inst = pv[v].inst /\ r.phase = "released"
      BY <1>0, <3>2 DEF ReleasePV, PVRec, Phases
    <3>3. CASE ExpandAnswers(v)
      BY <3>1, <3>3, Zenon
    <3>4. CASE ReleasePV(v)
      BY <3>2, <3>4, Zenon
    <3> QED
      BY <1>2, <3>3, <3>4
  <2>2. shareInfo' = shareInfo
    BY <1>2 DEF ExpandAnswers, ReleasePV
  <2> QED
    BY <1>2, <2>1, <2>2 DEF ExpandAnswers, ReleasePV, Unplaced
<1> QED
  BY <1>1, <1>2 DEF ControllerExpandVolume

LEMMA RequestKeepsPlaces ==
  ASSUME PlacesInv, NEW v \in Vols, UNCHANGED recon, CachesFollow,
         CreateVolume(v) \/ DeleteVolume(v) \/ ControllerExpandVolume(v) \/ ReleasePV(v)
  PROVE  PlacesInv'
<1>1. TypeOK /\ WorkFits(recon) /\ RequestMoves(v)
  BY CreateMoves, DeleteMoves, ExpandMoves DEF PlacesInv
<1>2. TypeOK'
  BY <1>1, TypeParts, CachesShow
     DEF RequestMoves, TypeOK, CloudTypeOK, ObjectsTypeOK, cloudVars, ReconTypeOK
<1>3. \A i \in Insts, w \in Vols : OnInstance(i, w)' => i \in Places(w)
  BY <1>1, PlacesAre DEF OnInstance, RequestMoves, cloudVars
<1>4. \A w \in Vols : /\ Holds(w, shareInfo'[w].handle) /\ Holds(w, pv'[w].inst)
                      /\ Unplaced(w)' => Unplaced(w)
  BY <1>1, PlacesAre DEF RequestMoves, Unplaced
<1> QED
  BY <1>1, <1>2, <1>3, <1>4, PlacesAre, NothingMoves

-----------------------------------------------------------------------------
(* What was listed, and the objects made from it. *)

LEMMA ShareListed ==
  ASSUME TypeOK, NEW i \in Insts, NEW v \in Vols
  PROVE  /\ ShareCopy(i, v) \in ShareInfoRec /\ Holds(v, ShareCopy(i, v).handle)
         /\ ShareAsListed(i, v) \in ShareInfoRec
         /\ ShareAsListed(i, v).exists /\ ShareAsListed(i, v).handle = i
<1>1. /\ shareLister[v] \in ShareInfoRec /\ shareInfo[v] \in ShareInfoRec
      /\ Holds(v, shareLister[v].handle) /\ Holds(v, shareInfo[v].handle)
  BY TypeParts, PlacesAre
<1>2. recon.shares[i][v] \in ShareRec
  BY TypeParts DEF RoundRec
<1>3. /\ CreatedShareInfo(i, v) \in ShareInfoRec /\ CreatedShareInfo(i, v).exists
      /\ CreatedShareInfo(i, v).handle = NoInst
  BY <1>2 DEF CreatedShareInfo, NewShareInfo, NoShareInfo, ShareInfoRec, ShareRec, FilestoreStatus
<1>4. /\ ShareCopy(i, v) \in ShareInfoRec /\ ShareCopy(i, v).exists
      /\ Holds(v, ShareCopy(i, v).handle)
  BY <1>1, <1>3 DEF ShareCopy, Holds
<1>5. CRDStatus(recon.shares[i][v].state) \in FilestoreStatus /\ recon.shares[i][v].cap \in Nat
  BY <1>2 DEF CRDStatus, FilestoreStatus, ShareRec
<1> QED
  BY <1>4, <1>5 DEF ShareAsListed, ShareInfoRec

LEMMA InstanceListed ==
  ASSUME TypeOK, NEW i \in Insts
  PROVE  /\ InstanceCopy(i) \in InstanceInfoRec /\ InstanceAsListed(i) \in InstanceInfoRec
         /\ InstanceShares[i] \subseteq Vols
<1>1. /\ instanceLister[i] \in InstanceInfoRec /\ instanceInfo[i] \in InstanceInfoRec
      /\ instance[i].cap \in Nat
  BY TypeParts DEF InstanceRec
<1>2. InstanceShares[i] \subseteq Vols
  BY DEF InstanceShares
<1>3. InstanceCopy(i) \in InstanceInfoRec
  BY <1>1, NoneType DEF InstanceCopy, ReconstructedInstanceInfo
<1>4. CRDStatus(instance[i].state) \in FilestoreStatus
  BY DEF CRDStatus, FilestoreStatus
<1> QED
  BY <1>1, <1>2, <1>3, <1>4 DEF InstanceAsListed, InstanceInfoRec

\* A share that was listed on an instance has its place there.
LEMMA ListedThere ==
  ASSUME NEW i \in Insts, NEW v \in Vols, v \in InstanceShares[i] PROVE i \in Places(v)
BY PlacesAre DEF InstanceShares, OnInstance

LEMMA UpdateKeepsPlaces == ASSUME PlacesInv, UpdateInfos PROVE PlacesInv'
<1> DEFINE parents(v) == {i \in Insts : v \in InstanceShares[i]}
           parent(v) == CHOOSE i \in parents(v) : TRUE
           newShare(v) == ~shareLister[v].exists /\ ~shareInfo[v].exists
           newInstance(i) == ~instanceLister[i].exists /\ ~instanceInfo[i].exists
           listed(v) == ShareAsListed(parent(v), v)
           copied(v) == ShareCopy(parent(v), v)
<1>0. TypeOK /\ cloudVars' = cloudVars /\ pv' = pv /\ CachesFollow
  BY DEF PlacesInv, UpdateInfos, RoundLeavesAlone
<1>1. \A v \in Vols : parents(v) # {} => parent(v) \in Insts /\ parent(v) \in Places(v)
  BY ListedThere
<1>a. ASSUME NEW failing, NEW X, FailingAmong(failing, X) PROVE faults' = faults \/ Fault
  BY <1>a DEF FailingAmong
<1>2. PICK failing :
        LET shareWritten(v) == /\ parents(v) # {} /\ v \notin failing
                               /\ newShare(v) \/ CurrentShare(v, copied(v))
            instanceWritten(i) == /\ Listed(i) /\ i \notin failing
                                  /\ newInstance(i) \/ CurrentInstance(i, InstanceCopy(i))
            released(i) == FinalizerGoes(i) /\ i \notin failing /\ CurrentInstance(i, instanceLister[i])
        IN /\ faults' = faults \/ Fault
           /\ shareInfo' = [v \in Vols |-> IF shareWritten(v) THEN listed(v) ELSE shareInfo[v]]
           /\ instanceInfo' = [i \in Insts |-> CASE instanceWritten(i) -> InstanceAsListed(i)
                                                 [] released(i) -> NoInstanceInfo
                                                 [] OTHER -> instanceInfo[i]]
           /\ recon' = StartPointers([Idle EXCEPT
                !.onInst = InstanceShares,
                !.si = [v \in Vols |-> CASE shareWritten(v) -> listed(v)
                                         [] ~shareWritten(v) /\ parents(v) # {} /\ ~newShare(v) -> copied(v)
                                         [] OTHER -> shareLister[v]],
                !.ii = [i \in Insts |-> CASE instanceWritten(i) -> InstanceAsListed(i)
                                          [] ~instanceWritten(i) /\ Listed(i) /\ ~newInstance(i) -> InstanceCopy(i)
                                          [] FinalizerGoes(i) -> NoInstanceInfo
                                          [] OTHER -> instanceLister[i]]])
  BY <1>a, Zenon DEF UpdateInfos
<1> DEFINE shareWritten(v) == /\ parents(v) # {} /\ v \notin failing
                              /\ newShare(v) \/ CurrentShare(v, copied(v))
           instanceWritten(i) == /\ Listed(i) /\ i \notin failing
                                 /\ newInstance(i) \/ CurrentInstance(i, InstanceCopy(i))
           si == [v \in Vols |-> CASE shareWritten(v) -> listed(v)
                                   [] ~shareWritten(v) /\ parents(v) # {} /\ ~newShare(v) -> copied(v)
                                   [] OTHER -> shareLister[v]]
           ii == [i \in Insts |-> CASE instanceWritten(i) -> InstanceAsListed(i)
                                    [] ~instanceWritten(i) /\ Listed(i) /\ ~newInstance(i) -> InstanceCopy(i)
                                    [] FinalizerGoes(i) -> NoInstanceInfo
                                    [] OTHER -> instanceLister[i]]
           r == [Idle EXCEPT !.onInst = InstanceShares, !.si = si, !.ii = ii]
<1>3. /\ shareInfo' = [v \in Vols |-> IF shareWritten(v) THEN listed(v) ELSE shareInfo[v]]
      /\ recon' = StartPointers(r)
      /\ \A v \in Vols : shareWritten(v) => parents(v) # {}
      /\ instanceInfo' \in [Insts -> InstanceInfoRec]
      /\ faults' \in 0..MaxFaults
  <2>1. \A i \in Insts : {InstanceAsListed(i), NoInstanceInfo, instanceInfo[i]} \subseteq InstanceInfoRec
    BY <1>0, InstanceListed, NoneType, TypeParts
  <2>2. instanceInfo' \in [Insts -> InstanceInfoRec]
    BY <1>2, <2>1
  <2> QED
    BY <1>0, <1>2, <2>2, TypeParts, InfoAssumption DEF Fault
<1>4. ASSUME NEW v \in Vols
      PROVE  /\ si[v] \in ShareInfoRec /\ Holds(v, si[v].handle)
             /\ shareInfo'[v] \in ShareInfoRec /\ Holds(v, shareInfo'[v].handle)
             /\ Unplaced(v)' => Unplaced(v)
  <2>1. /\ shareLister[v] \in ShareInfoRec /\ Holds(v, shareLister[v].handle)
        /\ shareInfo[v] \in ShareInfoRec /\ Holds(v, shareInfo[v].handle)
    BY <1>0, TypeParts, PlacesAre
  <2>2. parents(v) # {} =>
          /\ listed(v) \in ShareInfoRec /\ Holds(v, listed(v).handle) /\ listed(v).exists
          /\ listed(v).handle \in Insts
          /\ copied(v) \in ShareInfoRec /\ Holds(v, copied(v).handle)
    BY <1>0, <1>1, ShareListed DEF Holds
  <2>3. shareWritten(v) => parents(v) # {}
    BY <1>3
  <2>4. shareInfo'[v] = IF shareWritten(v) THEN listed(v) ELSE shareInfo[v]
    BY <1>3
  <2> HIDE DEF listed, copied, parents, shareWritten, newShare
  <2>5. si[v] \in ShareInfoRec /\ Holds(v, si[v].handle)
    BY <2>1, <2>2, <2>3
  <2>6. shareInfo'[v] \in ShareInfoRec /\ Holds(v, shareInfo'[v].handle)
    BY <2>1, <2>2, <2>3, <2>4
  <2>7. Unplaced(v)' => Unplaced(v)
    <3>1. CASE shareWritten(v)
      BY <2>2, <2>3, <2>4, <3>1, FilestoreAssumption DEF Unplaced
    <3>2. CASE ~shareWritten(v)
      BY <1>0, <2>4, <3>2 DEF Unplaced
    <3> QED
      BY <3>1, <3>2
  <2> QED
    BY <2>5, <2>6, <2>7
<1>5. ii \in [Insts -> InstanceInfoRec]
  <2>1. \A i \in Insts :
          {InstanceAsListed(i), InstanceCopy(i), NoInstanceInfo, instanceLister[i]} \subseteq InstanceInfoRec
    BY <1>0, InstanceListed, NoneType, TypeParts
  <2> HIDE DEF instanceWritten, newInstance
  <2> QED
    BY <2>1
<1>6. si \in [Vols -> ShareInfoRec] /\ \A v \in Vols : Holds(v, si[v].handle)
  BY <1>4
<1>7. shareInfo' \in [Vols -> ShareInfoRec]
  BY <1>3, <1>4
<1> HIDE DEF si, ii
<1>8. r \in RoundRec /\ r.si = si /\ r.shares = Idle.shares
  BY <1>5, <1>6, IdleRound, InstanceListed, <1>0 DEF RoundRec, InstanceShares
<1> HIDE DEF r
<1>9. Follows(recon', r)
  BY <1>3, <1>8, StartFollows
<1>10. recon' \in RoundRec /\ WorkFits(recon') /\ \A v \in Vols : Holds(v, recon'.si[v].handle)
  BY <1>6, <1>8, <1>9, IdleRound DEF Follows, Holds
<1>11. TypeOK'
  BY <1>0, <1>3, <1>7, <1>10, TypeParts, CachesShow
     DEF TypeOK, CloudTypeOK, ObjectsTypeOK, cloudVars, ReconTypeOK, RoundRec
<1>12. \A i \in Insts, v \in Vols : OnInstance(i, v)' => OnInstance(i, v)
  BY <1>0, <1>8, <1>9, IdleRound DEF Follows, OnInstance, cloudVars
<1> QED
  BY <1>0, <1>4, <1>10, <1>11, <1>12, PlacesAre, NothingMoves

-----------------------------------------------------------------------------
(* Pointers and assignments. *)

\* A step of the round that points at most the share v somewhere, and only if it has
\* no place.
LEMMA OneIsPlaced ==
  ASSUME PlacesInv, TypeOK', WorkFits(recon'), CachesFollow, NEW v \in Vols, NEW i \in Insts,
         pv' = pv, cloudVars' = cloudVars,
         recon'.shares = recon.shares \/ recon'.shares = Idle.shares,
         \A w \in Vols : w # v => /\ shareInfo'[w] = shareInfo[w]
                                  /\ recon'.si[w].handle \in {recon.si[w].handle, NoInst},
         \/ /\ Unplaced(v) /\ shareInfo'[v].exists /\ shareInfo'[v].handle = i
            /\ recon'.si[v].handle \in {i, NoInst}
         \/ shareInfo'[v] = shareInfo[v] /\ recon'.si[v].handle \in {recon.si[v].handle, NoInst}
  PROVE  PlacesInv'
<1>1. ASSUME NEW w \in Vols
      PROVE  /\ \A j \in Insts : OnInstance(j, w)' => j \in Places(w)
             /\ Holds(w, pv'[w].inst) /\ Holds(w, recon.si[w].handle) /\ Holds(w, shareInfo[w].handle)
             /\ Holds(w, NoInst)
             /\ shareInfo'[w] = shareInfo[w] => Unplaced(w)' = Unplaced(w)
  <2>1. \A j \in Insts : OnInstance(j, w)' => OnInstance(j, w)
    BY IdleRound DEF OnInstance, cloudVars
  <2>2. Holds(w, NoInst)
    BY DEF Holds
  <2>3. shareInfo'[w] = shareInfo[w] => Unplaced(w)' = Unplaced(w)
    BY DEF Unplaced
  <2> QED
    BY <2>1, <2>2, <2>3, PlacesAre
<1>2. ASSUME NEW w \in Vols
      PROVE  /\ Holds(w, shareLister'[w].handle) \/ shareLister'[w] = shareInfo'[w]
             /\ Holds(w, controllerLister'[w].handle) \/ controllerLister'[w] = shareInfo'[w]
  <2>1. /\ shareLister'[w] \in {shareLister[w], shareInfo'[w]}
        /\ controllerLister'[w] \in {controllerLister[w], shareInfo'[w]}
    BY CachesShow, TypeParts DEF PlacesInv, TypeOK, ObjectsTypeOK
  <2> QED
    BY <2>1, PlacesAre
<1>3. ASSUME NEW w \in Vols, shareInfo'[w] = shareInfo[w],
             recon'.si[w].handle \in {recon.si[w].handle, NoInst}
      PROVE  PlaceOK(w)'
  BY <1>1, <1>2, <1>3, PlaceStays DEF StaysPut, PlacesInv
<1>4. CASE /\ Unplaced(v) /\ shareInfo'[v].exists /\ shareInfo'[v].handle = i
           /\ recon'.si[v].handle \in {i, NoInst}
  <2>1. PlaceOK(v)'
    BY <1>1, <1>2, <1>4, PlaceFound DEF Assigned, PlacesInv
  <2> QED
    BY <1>3, <2>1 DEF PlacesInv
<1> QED
  BY <1>3, <1>4 DEF PlacesInv

\* What CurrentShare knows of a copy that names no instance.
LEMMA CurrentUnplaced ==
  ASSUME TypeOK, NEW v \in Vols, NEW i \in Insts,
         recon.si[v].handle = NoInst, CurrentShare(v, recon.si[v])
  PROVE  /\ Unplaced(v) /\ PointTo(v, i) \in ShareInfoRec
         /\ PointTo(v, i).exists /\ PointTo(v, i).handle = i
BY TypeParts DEF CurrentShare, PointTo, Unplaced, ShareInfoRec

LEMMA PointBackKeepsPlaces ==
  ASSUME PlacesInv, NEW i \in Insts, NEW v \in Vols, NEW failing,
         recon.phase = "pointers", faults' \in 0..MaxFaults, PointBack(i, v, failing),
         UNCHANGED cloudVars, RoundLeavesAlone
  PROVE  PlacesInv'
<1>1. TypeOK /\ CachesFollow /\ pv' = pv /\ instanceInfo' = instanceInfo
  BY DEF PlacesInv, PointBack, RoundLeavesAlone
<1>2. ASSUME NEW r \in RoundRec, r.phase = "pointers", r.shares = recon.shares,
             recon' = AfterPointers(Done(r, <<i, v>>))
      PROVE  /\ recon' \in RoundRec /\ WorkFits(recon')
             /\ recon'.shares = recon.shares \/ recon'.shares = Idle.shares
             /\ \A w \in Vols : recon'.si[w].handle \in {r.si[w].handle, NoInst}
  <2>1. WorkFits(r)
    BY <1>2 DEF WorkFits
  <2>2. Follows(recon', Done(r, <<i, v>>)) /\ Done(r, <<i, v>>).si = r.si /\ Done(r, <<i, v>>).shares = r.shares
    BY <1>2, <2>1, DoneFits, PointersFollow
  <2> QED
    BY <1>2, <2>2, IdleRound DEF Follows
<1>3. CASE v \notin failing /\ CurrentShare(v, recon.si[v])
  <2> DEFINE r == [recon EXCEPT !.si[v] = PointTo(v, i)]
  <2>1. shareInfo' = [shareInfo EXCEPT ![v] = PointTo(v, i)] /\ recon' = AfterPointers(Done(r, <<i, v>>))
    BY <1>3 DEF PointBack
  <2>2. /\ Unplaced(v) /\ PointTo(v, i) \in ShareInfoRec
        /\ PointTo(v, i).exists /\ PointTo(v, i).handle = i
    BY <1>1, <1>3, CurrentUnplaced DEF PointBack
  <2>3. /\ r \in RoundRec /\ r.phase = "pointers" /\ r.shares = recon.shares
        /\ r.si[v] = PointTo(v, i) /\ \A w \in Vols : w # v => r.si[w] = recon.si[w]
    BY <1>1, <2>2, TypeParts DEF RoundRec
  <2> HIDE DEF r
  <2>4. /\ recon' \in RoundRec /\ WorkFits(recon')
        /\ recon'.shares = recon.shares \/ recon'.shares = Idle.shares
        /\ \A w \in Vols : recon'.si[w].handle \in {r.si[w].handle, NoInst}
    BY <1>2, <2>1, <2>3
  <2>5. shareInfo' \in [Vols -> ShareInfoRec]
    BY <1>1, <2>1, <2>2, TypeParts
  <2>6. TypeOK'
    BY <1>1, <2>4, <2>5, TypeParts, CachesShow
       DEF TypeOK, CloudTypeOK, ObjectsTypeOK, cloudVars, ReconTypeOK, RoundRec
  <2>7. shareInfo'[v] = PointTo(v, i) /\ \A w \in Vols : w # v => shareInfo'[w] = shareInfo[w]
    BY <1>1, <2>1, TypeParts
  <2>8. /\ recon'.si[v].handle \in {i, NoInst}
        /\ \A w \in Vols : w # v => recon'.si[w].handle \in {recon.si[w].handle, NoInst}
    BY <2>2, <2>3, <2>4
  <2> QED
    BY <1>1, <2>2, <2>4, <2>6, <2>7, <2>8, OneIsPlaced
<1>4. CASE ~(v \notin failing /\ CurrentShare(v, recon.si[v]))
  <2>1. shareInfo' = shareInfo /\ recon' = AfterPointers(Done(recon, <<i, v>>))
    BY <1>4 DEF PointBack
  <2>2. /\ recon' \in RoundRec /\ WorkFits(recon')
        /\ recon'.shares = recon.shares \/ recon'.shares = Idle.shares
        /\ \A w \in Vols : recon'.si[w].handle \in {recon.si[w].handle, NoInst}
    BY <1>1, <1>2, <2>1, TypeParts
  <2>3. TypeOK'
    BY <1>1, <2>1, <2>2, TypeParts, CachesShow
       DEF TypeOK, CloudTypeOK, ObjectsTypeOK, cloudVars, ReconTypeOK, RoundRec
  <2> QED
    BY <1>1, <2>1, <2>2, <2>3, OneIsPlaced
<1> QED
  BY <1>3, <1>4

\* A step of the round that points no share anywhere, and sends requests for shares
\* only to where they are.
LEMMA RoundGoesOn ==
  ASSUME PlacesInv, CloudTypeOK', CachesFollow, pv' = pv, faults' \in 0..MaxFaults,
         shareInfo' \in [Vols -> ShareInfoRec], instanceInfo' \in [Insts -> InstanceInfoRec],
         \A v \in Vols : /\ shareInfo'[v].handle = shareInfo[v].handle
                         /\ shareInfo'[v].exists = shareInfo[v].exists,
         \A i \in Insts, v \in Vols :
           share'[i][v].state # "ABSENT" \/ (\E o \in ops' : o.inst = i /\ o.vol = v) => i \in Places(v),
         NEW r \in RoundRec, r.si = recon.si, r.shares = recon.shares, Follows(recon', r)
  PROVE  PlacesInv'
<1>1. TypeOK
  BY DEF PlacesInv
<1>2. recon' \in RoundRec /\ WorkFits(recon')
  BY DEF Follows
<1>3. TypeOK'
  BY <1>1, <1>2, TypeParts, CachesShow DEF TypeOK, ObjectsTypeOK, ReconTypeOK, RoundRec
<1>4. ASSUME NEW v \in Vols
      PROVE  /\ Holds(v, shareInfo'[v].handle) /\ (Unplaced(v)' => Unplaced(v))
             /\ Holds(v, recon'.si[v].handle) /\ Holds(v, pv'[v].inst)
             /\ \A i \in Insts : OnInstance(i, v)' => i \in Places(v)
  <2>1. recon'.si[v].handle \in {recon.si[v].handle, NoInst}
    BY IdleRound DEF Follows
  <2>2. Unplaced(v)' => Unplaced(v)
    BY DEF Unplaced
  <2>3. \A i \in Insts : recon'.shares[i][v].state # "ABSENT" => recon.shares[i][v].state # "ABSENT"
    BY IdleRound DEF Follows
  <2>4. \A i \in Insts : OnInstance(i, v)' => i \in Places(v)
    BY <2>3, PlacesAre DEF OnInstance
  <2>5. Holds(v, NoInst)
    BY DEF Holds
  <2> QED
    BY <2>1, <2>2, <2>4, <2>5, PlacesAre
<1> QED
  BY <1>2, <1>3, <1>4, NothingMoves

\* The same of a step that leaves Filestore alone.
LEMMA RoundGoesOnAlone ==
  ASSUME PlacesInv, cloudVars' = cloudVars, RoundLeavesAlone, faults' \in 0..MaxFaults,
         shareInfo' \in [Vols -> ShareInfoRec], instanceInfo' \in [Insts -> InstanceInfoRec],
         \A v \in Vols : /\ shareInfo'[v].handle = shareInfo[v].handle
                         /\ shareInfo'[v].exists = shareInfo[v].exists,
         NEW r \in RoundRec, r.si = recon.si, r.shares = recon.shares, Follows(recon', r)
  PROVE  PlacesInv'
<1>1. CloudTypeOK' /\ CachesFollow /\ pv' = pv
  BY DEF PlacesInv, TypeOK, CloudTypeOK, cloudVars, RoundLeavesAlone
<1>2. \A i \in Insts, v \in Vols :
        share'[i][v].state # "ABSENT" \/ (\E o \in ops' : o.inst = i /\ o.vol = v) => i \in Places(v)
  BY PlacesAre DEF OnInstance, cloudVars
<1> QED
  BY <1>1, <1>2, RoundGoesOn

LEMMA MoveKeepsPlaces ==
  ASSUME PlacesInv, NEW i \in Insts, NEW v \in Vols, NEW failing,
         recon.phase = "pointers", faults' \in 0..MaxFaults, MoveToTarget(i, v, failing),
         UNCHANGED cloudVars, RoundLeavesAlone
  PROVE  PlacesInv'
<1> DEFINE j == recon.si[v].handle
           needed == ~recon.si[v].deleting /\ v \notin recon.ii[j].shares
           found == recon.ii[j].exists
           gains == /\ needed /\ j \notin failing
                    /\ IF found THEN CurrentInstance(j, recon.ii[j])
                                ELSE ~instanceInfo[j].exists /\ recon.si[v].pool
           loses == (needed => gains) /\ i \notin failing /\ CurrentInstance(i, recon.ii[i])
           gained == WithShare(IF found THEN recon.ii[j] ELSE NewInstanceInfo(MinCap), v)
           lost == WithoutShare(recon.ii[i], v)
           written == [x \in Insts |-> CASE x = j /\ gains -> gained
                                         [] x = i /\ loses -> lost
                                         [] OTHER -> NoInstanceInfo]
           Updated(infos) == [x \in Insts |-> IF written[x].exists THEN written[x] ELSE infos[x]]
           r == [recon EXCEPT !.ii = Updated(recon.ii)]
<1>1. /\ j # NoInst /\ instanceInfo' = Updated(instanceInfo) /\ shareInfo' = shareInfo
      /\ recon' = AfterPointers(Done(r, <<i, v>>))
  BY TypeParts, Zenon DEF MoveToTarget
<1>2. TypeOK /\ j \in Insts
  BY <1>1, TypeParts DEF PlacesInv, RoundRec, ShareInfoRec
<1>3. gained \in InstanceInfoRec /\ lost \in InstanceInfoRec /\ NoInstanceInfo \in InstanceInfoRec
  <2>1. recon.ii[j] \in InstanceInfoRec /\ recon.ii[i] \in InstanceInfoRec
    BY <1>2, TypeParts DEF RoundRec
  <2>2. NewInstanceInfo(MinCap) \in InstanceInfoRec
    BY NoneType, InfoAssumption
  <2> QED
    BY <2>1, <2>2, NoneType DEF WithShare, WithoutShare, InstanceInfoRec
<1> HIDE DEF gained, lost, gains, loses
<1>4. written \in [Insts -> InstanceInfoRec]
  BY <1>3
<1> HIDE DEF written
<1>5. Updated(instanceInfo) \in [Insts -> InstanceInfoRec] /\ Updated(recon.ii) \in [Insts -> InstanceInfoRec]
  BY <1>2, <1>4, TypeParts DEF RoundRec
<1> HIDE DEF Updated
<1>6. r \in RoundRec /\ r.si = recon.si /\ r.shares = recon.shares /\ WorkFits(r)
  BY <1>2, <1>5, TypeParts DEF RoundRec, WorkFits
<1> HIDE DEF r
<1>7. Follows(recon', Done(r, <<i, v>>))
  BY <1>1, <1>6, DoneFits, PointersFollow
<1>8. Follows(recon', r)
  BY <1>6, <1>7, DoneFits DEF Follows
<1> QED
  BY <1>1, <1>2, <1>5, <1>6, <1>8, TypeParts, RoundGoesOnAlone

LEMMA PointersKeepPlaces ==
  ASSUME PlacesInv, NEW i \in Insts, NEW v \in Vols, FixTwoWayPointers(i, v) PROVE PlacesInv'
<1>1. PICK failing :
        /\ FailingAmong(failing, {i, v, recon.si[v].handle})
        /\ PointBack(i, v, failing) \/ MoveToTarget(i, v, failing)
  BY DEF FixTwoWayPointers
<1>2. /\ recon.phase = "pointers" /\ UNCHANGED cloudVars /\ RoundLeavesAlone
      /\ faults' \in 0..MaxFaults
  BY <1>1, TypeParts, InfoAssumption DEF FixTwoWayPointers, FailingAmong, Fault, PlacesInv
<1> QED
  BY <1>1, <1>2, PointBackKeepsPlaces, MoveKeepsPlaces

LEMMA AssignToKeepsPlaces ==
  ASSUME PlacesInv, NEW v \in Vols, NEW i \in Insts, NEW ii \in InstanceInfoRec, NEW failing,
         recon.phase = "assign", v \in recon.todo, faults' \in 0..MaxFaults,
         AssignTo(i, v, ii, failing), UNCHANGED cloudVars, RoundLeavesAlone
  PROVE  PlacesInv'
<1>1. TypeOK /\ CachesFollow /\ pv' = pv /\ WorkFits(recon) /\ recon.si[v].handle = NoInst
  BY DEF PlacesInv, RoundLeavesAlone, WorkFits
<1>2. WithShare(ii, v) \in InstanceInfoRec
  BY DEF WithShare, InstanceInfoRec
<1>3. instanceInfo' \in [Insts -> InstanceInfoRec]
  BY <1>1, <1>2, TypeParts DEF AssignTo
<1>4. ASSUME NEW si \in ShareInfoRec,
             recon' = AfterAssign(Done([recon EXCEPT !.ii[i] = WithShare(ii, v), !.si[v] = si], v))
      PROVE  /\ recon' \in RoundRec /\ WorkFits(recon')
             /\ recon'.shares = recon.shares \/ recon'.shares = Idle.shares
             /\ recon'.si[v].handle \in {si.handle, NoInst}
             /\ \A w \in Vols : w # v => recon'.si[w].handle \in {recon.si[w].handle, NoInst}
  <2> DEFINE r == [recon EXCEPT !.ii[i] = WithShare(ii, v), !.si[v] = si]
  <2>1. /\ r \in RoundRec /\ r.phase = "assign" /\ r.shares = recon.shares /\ r.todo = recon.todo
        /\ r.si[v] = si /\ \A w \in Vols : w # v => r.si[w] = recon.si[w]
    BY <1>1, <1>2, TypeParts DEF RoundRec
  <2> HIDE DEF r
  <2>2. /\ Done(r, v) \in RoundRec /\ WorkFits(Done(r, v))
        /\ Done(r, v).si = r.si /\ Done(r, v).shares = r.shares
    BY <1>1, <2>1 DEF Done, RoundRec, WorkFits
  <2>3. Follows(recon', Done(r, v))
    BY <1>4, <2>2, AssignFollows DEF r
  <2> QED
    BY <2>1, <2>2, <2>3, IdleRound DEF Follows
<1>5. CASE v \notin failing /\ CurrentShare(v, recon.si[v])
  <2>1. /\ shareInfo' = [shareInfo EXCEPT ![v] = PointTo(v, i)]
        /\ recon' = AfterAssign(Done([recon EXCEPT !.ii[i] = WithShare(ii, v), !.si[v] = PointTo(v, i)], v))
    BY <1>5 DEF AssignTo
  <2>2. /\ Unplaced(v) /\ PointTo(v, i) \in ShareInfoRec
        /\ PointTo(v, i).exists /\ PointTo(v, i).handle = i
    BY <1>1, <1>5, CurrentUnplaced
  <2>3. /\ recon' \in RoundRec /\ WorkFits(recon')
        /\ recon'.shares = recon.shares \/ recon'.shares = Idle.shares
        /\ recon'.si[v].handle \in {i, NoInst}
        /\ \A w \in Vols : w # v => recon'.si[w].handle \in {recon.si[w].handle, NoInst}
    BY <1>4, <2>1, <2>2
  <2>4. /\ shareInfo' \in [Vols -> ShareInfoRec] /\ shareInfo'[v] = PointTo(v, i)
        /\ \A w \in Vols : w # v => shareInfo'[w] = shareInfo[w]
    BY <1>1, <2>1, <2>2, TypeParts
  <2>5. TypeOK'
    BY <1>1, <1>3, <2>3, <2>4, TypeParts, CachesShow
       DEF TypeOK, CloudTypeOK, ObjectsTypeOK, cloudVars, ReconTypeOK, RoundRec
  <2> QED
    BY <1>1, <2>2, <2>3, <2>4, <2>5, OneIsPlaced
<1>6. CASE ~(v \notin failing /\ CurrentShare(v, recon.si[v]))
  <2>1. /\ shareInfo' = shareInfo
        /\ recon' = AfterAssign(Done([recon EXCEPT !.ii[i] = WithShare(ii, v), !.si[v] = recon.si[v]], v))
    BY <1>6 DEF AssignTo
  <2>2. recon.si[v] \in ShareInfoRec
    BY <1>1, TypeParts DEF RoundRec
  <2>3. /\ recon' \in RoundRec /\ WorkFits(recon')
        /\ recon'.shares = recon.shares \/ recon'.shares = Idle.shares
        /\ \A w \in Vols : recon'.si[w].handle \in {recon.si[w].handle, NoInst}
    BY <1>4, <2>1, <2>2
  <2>4. TypeOK'
    BY <1>1, <1>3, <2>1, <2>3, TypeParts, CachesShow
       DEF TypeOK, CloudTypeOK, ObjectsTypeOK, cloudVars, ReconTypeOK, RoundRec
  <2> QED
    BY <1>1, <2>1, <2>3, <2>4, OneIsPlaced
<1> QED
  BY <1>5, <1>6

\* A share that has to wait.
LEMMA AssignNothing ==
  ASSUME PlacesInv, NEW v \in Vols
  PROVE  Follows(AfterAssign(Done(recon, v)), recon)
<1>1. recon \in RoundRec /\ WorkFits(recon)
  BY TypeParts DEF PlacesInv
<1>2. Follows(AfterAssign(Done(recon, v)), Done(recon, v))
  BY <1>1, DoneFits, AssignFollows
<1> QED
  BY <1>1, <1>2, DoneFits DEF Follows

LEMMA AssignKeepsPlaces == ASSUME PlacesInv, NEW v \in Vols, AssignShare(v) PROVE PlacesInv'
<1>1. /\ recon.phase = "assign" /\ v \in recon.todo /\ cloudVars' = cloudVars /\ RoundLeavesAlone
      /\ AssignToEligible(v) \/ AssignmentFails(v) \/ AssignToNew(v)
      /\ TypeOK /\ recon \in RoundRec /\ faults \in 0..MaxFaults
      /\ shareInfo \in [Vols -> ShareInfoRec] /\ instanceInfo \in [Insts -> InstanceInfoRec]
  BY TypeParts DEF AssignShare, PlacesInv
<1>2. ASSUME NEW failing, NEW X, FailingAmong(failing, X) PROVE faults' \in 0..MaxFaults
  BY <1>1, <1>2, InfoAssumption DEF FailingAmong, Fault
<1>3. Follows(AfterAssign(Done(recon, v)), recon)
  BY AssignNothing
<1>4. NewInstanceInfo(MinCap) \in InstanceInfoRec
  BY NoneType, InfoAssumption
<1>5. CASE AssignToEligible(v)
  <2>1. PICK i \in Insts : \E failing :
          FailingAmong(failing, {v}) /\ AssignTo(i, v, recon.ii[i], failing)
    BY <1>5 DEF AssignToEligible, Fits
  <2>2. recon.ii[i] \in InstanceInfoRec /\ faults' \in 0..MaxFaults
    BY <1>1, <1>2, <2>1 DEF RoundRec
  <2> QED
    BY <1>1, <2>1, <2>2, AssignToKeepsPlaces
<1>6. CASE AssignmentFails(v)
  <2>1. /\ recon' = AfterAssign(Done(recon, v)) /\ objectVars' = objectVars
        /\ faults' \in 0..MaxFaults
    BY <1>2, <1>6 DEF AssignmentFails
  <2> QED
    BY <1>1, <1>3, <2>1, RoundGoesOnAlone DEF objectVars
<1>7. CASE AssignToNew(v)
  <2>1. CASE \E i \in Insts : \E failing :
               FailingAmong(failing, {v}) /\ AssignTo(i, v, NewInstanceInfo(MinCap), failing)
    BY <1>1, <1>2, <1>4, <2>1, AssignToKeepsPlaces
  <2>2. CASE /\ Fault /\ recon' = AfterAssign(Done(recon, v)) /\ shareInfo' = shareInfo
             /\ \/ instanceInfo' = instanceInfo
                \/ \E i \in Insts : instanceInfo' = [instanceInfo EXCEPT ![i] = NewInstanceInfo(MinCap)]
    <3>1. instanceInfo' \in [Insts -> InstanceInfoRec] /\ faults' \in 0..MaxFaults
      BY <1>1, <1>4, <2>2, InfoAssumption DEF Fault
    <3> QED
      BY <1>1, <1>3, <2>2, <3>1, RoundGoesOnAlone
  <2>3. CASE recon' = AfterAssign(Done(recon, v)) /\ UNCHANGED <<objectVars, faults>>
    BY <1>1, <1>3, <2>3, RoundGoesOnAlone DEF objectVars
  <2> QED
    BY <1>7, <2>1, <2>2, <2>3 DEF AssignToNew, objectVars
<1> QED
  BY <1>1, <1>5, <1>6, <1>7

-----------------------------------------------------------------------------
(* Sizes of instances, and requests. *)

LEMMA CapacityType == ASSUME TypeOK, NEW ii PROVE NewCapacity(ii) \in Nat
<1> DEFINE sizes == [v \in Vols |-> IF v \in ii.shares /\ shareLister[v].exists THEN shareLister[v].spec ELSE 0]
<1>1. \A v \in Vols : shareLister[v].spec \in Nat
  BY TypeParts DEF ShareInfoRec
<1>2. sizes \in [Vols -> Nat] /\ IsFiniteSet(Vols)
  BY <1>1, FilestoreAssumption
<1> HIDE DEF sizes
<1>3. SumFunction(sizes) \in Nat
  BY <1>2, SumType
<1>4. AlignBytes(SumFunction(sizes), StepSize) \in Nat
  BY <1>3, AlignType, InfoAssumption
<1>5. NewCapacity(ii) = Smaller(Larger(AlignBytes(SumFunction(sizes), StepSize), MinCap), MaxCap)
  BY DEF NewCapacity, sizes
<1> QED
  BY <1>4, <1>5, InfoAssumption DEF Smaller, Larger

LEMMA ResizeKeepsPlaces == ASSUME PlacesInv, DeleteOrResizeInstances PROVE PlacesInv'
<1> DEFINE Resized(i) == [recon.ii[i] EXCEPT !.spec = NewCapacity(recon.ii[i])]
<1>1. /\ TypeOK /\ cloudVars' = cloudVars /\ shareInfo' = shareInfo /\ RoundLeavesAlone
      /\ recon \in RoundRec
  BY TypeParts DEF PlacesInv, DeleteOrResizeInstances
<1> DEFINE considered == {i \in Insts : recon.ii[i].exists /\ ~recon.ii[i].deleting}
           emptied == {i \in considered : InstanceEmpty(recon.ii[i])}
           resized == {i \in considered : /\ recon.ii[i].shares # {}
                                          /\ NewCapacity(recon.ii[i]) # recon.ii[i].spec}
<1>2. PICK failing :
        LET accepted == {i \in resized \ failing : CurrentInstance(i, recon.ii[i])}
        IN /\ FailingAmong(failing, emptied \cup resized)
           /\ instanceInfo' = [i \in Insts |->
                CASE i \in accepted -> Resized(i)
                  [] i \in emptied \ failing -> MarkedForDeletion(instanceInfo[i])
                  [] OTHER -> instanceInfo[i]]
           /\ recon' = StartRequests([recon EXCEPT
                !.ii = [i \in Insts |-> IF i \in accepted THEN Resized(i) ELSE recon.ii[i]],
                !.targets = OperationTargets])
  BY Zenon DEF DeleteOrResizeInstances
<1> DEFINE accepted == {i \in resized \ failing : CurrentInstance(i, recon.ii[i])}
<1>3. ASSUME NEW i \in Insts
      PROVE  /\ Resized(i) \in InstanceInfoRec
             /\ MarkedForDeletion(instanceInfo[i]) \in InstanceInfoRec
             /\ instanceInfo[i] \in InstanceInfoRec /\ recon.ii[i] \in InstanceInfoRec
  <2>1. instanceInfo[i] \in InstanceInfoRec /\ recon.ii[i] \in InstanceInfoRec
    BY <1>1, TypeParts DEF RoundRec
  <2>2. NewCapacity(recon.ii[i]) \in Nat
    BY <1>1, CapacityType
  <2>3. Resized(i) \in InstanceInfoRec
    BY <2>1, <2>2 DEF InstanceInfoRec
  <2>4. MarkedForDeletion(instanceInfo[i]) \in InstanceInfoRec
    BY <2>1 DEF InstanceInfoRec, MarkedForDeletion
  <2> QED
    BY <2>1, <2>3, <2>4
<1> HIDE DEF Resized
<1>4. instanceInfo' \in [Insts -> InstanceInfoRec]
  BY <1>2, <1>3
<1>5. OperationTargets \subseteq Insts \X (Vols \cup {NoVol})
  BY <1>1, TypeParts, OpShape DEF OperationTargets
<1>6. faults' \in 0..MaxFaults
  BY <1>1, <1>2, TypeParts, InfoAssumption DEF FailingAmong, Fault
<1> DEFINE ii == [i \in Insts |-> IF i \in accepted THEN Resized(i) ELSE recon.ii[i]]
           r == [recon EXCEPT !.ii = ii, !.targets = OperationTargets]
<1>7. ii \in [Insts -> InstanceInfoRec]
  BY <1>3
<1> HIDE DEF ii
<1>8. r \in RoundRec /\ r.si = recon.si /\ r.shares = recon.shares
  BY <1>1, <1>5, <1>7 DEF RoundRec
<1>9. Follows(recon', r)
  BY <1>2, <1>8, RequestsFollow DEF ii
<1> HIDE DEF r
<1> QED
  BY <1>1, <1>4, <1>6, <1>8, <1>9, TypeParts, RoundGoesOnAlone

\* A request of the round is an operation of Filestore's.
LEMMA InstanceRequestType ==
  ASSUME TypeOK, NEW i \in Insts, NEW o \in InstanceRequest(i) PROVE o \in Op /\ o.vol = NoVol
<1>1. recon.ii[i].spec \in Nat
  BY TypeParts DEF RoundRec, InstanceInfoRec
<1>2. \A type \in InstanceOps, cap \in Nat : OpOnInstance(type, i, cap) \in Op /\ OpOnInstance(type, i, cap).vol = NoVol
  BY DEF OpOnInstance, Op, InstanceOp
<1>3. \/ o = OpOnInstance("InstanceDelete", i, 0)
      \/ o = OpOnInstance("InstanceCreate", i, recon.ii[i].spec)
      \/ o = OpOnInstance("InstanceUpdate", i, recon.ii[i].spec)
  BY DEF InstanceRequest
<1> QED
  BY <1>1, <1>2, <1>3 DEF InstanceOps

LEMMA ShareRequestType ==
  ASSUME TypeOK, NEW v \in Vols, recon.si[v].handle \in Insts, NEW o \in ShareRequest(v)
  PROVE  o \in Op /\ o.vol = v /\ o.inst = recon.si[v].handle
<1>1. recon.si[v].spec \in Nat
  BY TypeParts DEF RoundRec, ShareInfoRec
<1> DEFINE h == recon.si[v].handle
<1>2. \A type \in ShareOps, cap \in Nat :
        /\ OpOnShare(type, h, v, cap) \in Op /\ OpOnShare(type, h, v, cap).vol = v
        /\ OpOnShare(type, h, v, cap).inst = h
  BY DEF OpOnShare, Op, ShareOp
<1>3. \/ o = OpOnShare("ShareDelete", h, v, 0)
      \/ o = OpOnShare("ShareCreate", h, v, recon.si[v].spec)
      \/ o = OpOnShare("ShareUpdate", h, v, recon.si[v].spec)
  BY DEF ShareRequest
<1> QED
  BY <1>1, <1>2, <1>3 DEF ShareOps

\* A request accepted for a place of the volume adds no place.
LEMMA StartsInPlace ==
  ASSUME PlacesInv, NEW o \in Op, NEW protocol \in Protocols \cup {""}, StartOp(o, protocol),
         o.vol \in Vols => o.inst \in Places(o.vol)
  PROVE  /\ CloudTypeOK'
         /\ \A i \in Insts, v \in Vols :
              share'[i][v].state # "ABSENT" \/ (\E p \in ops' : p.inst = i /\ p.vol = v) => i \in Places(v)
<1>1. CloudTypeOK
  BY DEF PlacesInv, TypeOK
<1>2. /\ CloudTypeOK'
      /\ \A i \in Insts, v \in Vols :
           /\ share'[i][v].state # "ABSENT" => share[i][v].state # "ABSENT" \/ (o.inst = i /\ o.vol = v)
           /\ \A p \in ops' : p \in ops \/ p = o
  BY <1>1, StartsTyped
<1> QED
  BY <1>2, PlacesAre DEF OnInstance

LEMMA InstanceRequestKeepsPlaces ==
  ASSUME PlacesInv, NEW i \in Insts, SendInstanceRequest(i) PROVE PlacesInv'
<1>1. /\ TypeOK /\ recon \in RoundRec /\ recon.phase = "instances" /\ shareInfo' = shareInfo
      /\ RoundLeavesAlone /\ CachesFollow /\ pv' = pv /\ recon' = AfterInstances(Done(recon, i))
      /\ shareInfo \in [Vols -> ShareInfoRec] /\ instanceInfo \in [Insts -> InstanceInfoRec]
      /\ faults \in 0..MaxFaults
  BY TypeParts DEF PlacesInv, SendInstanceRequest, RoundLeavesAlone
<1>2. Follows(recon', recon)
  <2>1. Done(recon, i) \in RoundRec /\ Done(recon, i).phase = "instances"
        /\ Done(recon, i).si = recon.si /\ Done(recon, i).shares = recon.shares
    BY <1>1, DoneFits DEF PlacesInv
  <2>2. Follows(recon', Done(recon, i))
    BY <1>1, <2>1, InstancesFollow
  <2> QED
    BY <2>1, <2>2 DEF Follows
<1>3. CASE /\ UNCHANGED cloudVars /\ faults' \in 0..MaxFaults
           /\ instanceInfo' = instanceInfo \/ RecordsError(i)
  <2>1. instanceInfo' \in [Insts -> InstanceInfoRec]
    BY <1>1, <1>3 DEF RecordsError, InstanceInfoRec
  <2> QED
    BY <1>1, <1>2, <1>3, <2>1, RoundGoesOnAlone
<1>4. CASE \E o \in InstanceRequest(i) : StartOp(o, "NFS_V3") /\ UNCHANGED <<instanceInfo, faults>>
  <2>1. PICK o \in InstanceRequest(i) : StartOp(o, "NFS_V3") /\ UNCHANGED <<instanceInfo, faults>>
    BY <1>4
  <2>2. o \in Op /\ o.vol \notin Vols /\ "NFS_V3" \in Protocols \cup {""}
    BY <1>1, <2>1, InstanceRequestType, FilestoreAssumption DEF Protocols
  <2>3. /\ CloudTypeOK'
        /\ \A j \in Insts, v \in Vols :
             share'[j][v].state # "ABSENT" \/ (\E p \in ops' : p.inst = j /\ p.vol = v) => j \in Places(v)
    BY <2>1, <2>2, StartsInPlace
  <2> QED
    BY <1>1, <1>2, <2>1, <2>3, RoundGoesOn
<1>5. Fault => faults' \in 0..MaxFaults
  BY <1>1, InfoAssumption DEF Fault
<1> QED
  BY <1>1, <1>3, <1>4, <1>5 DEF SendInstanceRequest

\* What a share request knows.
LEMMA ShareWork ==
  ASSUME PlacesInv, NEW v \in Vols, recon.phase = "shares", v \in recon.todo
  PROVE  /\ TypeOK /\ recon \in RoundRec /\ recon.si[v] \in ShareInfoRec
         /\ recon.si[v].handle \in Insts /\ recon.si[v].handle \in Places(v)
<1>1. TypeOK /\ recon \in RoundRec /\ recon.si[v] \in ShareInfoRec /\ recon.si[v].handle # NoInst
  BY TypeParts DEF PlacesInv, WorkFits, RoundRec
<1> QED
  BY <1>1, PlacesAre DEF Holds, ShareInfoRec

LEMMA SharesGoOn ==
  ASSUME PlacesInv, NEW v \in Vols, recon.phase = "shares", NEW r \in RoundRec,
         r.phase = recon.phase, r.todo = recon.todo, r.si = recon.si, r.shares = recon.shares,
         recon' = AfterShares(Done(r, v))
  PROVE  Follows(recon', r)
<1>1. WorkFits(r)
  BY DEF PlacesInv, WorkFits
<1>2. Follows(recon', Done(r, v))
  BY <1>1, DoneFits, SharesFollow
<1> QED
  BY <1>1, <1>2, DoneFits DEF Follows

LEMMA MarkKeepsPlaces ==
  ASSUME PlacesInv, NEW v \in Vols, recon.phase = "shares", v \in recon.todo,
         MarkShareInfoStatusDeleted(v), RoundLeavesAlone
  PROVE  PlacesInv'
<1> DEFINE i == recon.si[v].handle
           ii == recon.ii[i]
           removed == WithoutShare(ii, v)
           deleted == [recon.si[v] EXCEPT !.status = "deleted"]
<1>1. TypeOK /\ recon \in RoundRec /\ recon.si[v] \in ShareInfoRec /\ i \in Insts
  BY ShareWork
<1>2. PICK failing :
        LET offList == v \notin ii.shares \/ (i \notin failing /\ CurrentInstance(i, ii))
            marked == offList /\ v \notin failing /\ CurrentShare(v, recon.si[v])
        IN /\ FailingAmong(failing, {i, v})
           /\ instanceInfo' = IF offList /\ v \in ii.shares THEN [instanceInfo EXCEPT ![i] = removed]
                                                           ELSE instanceInfo
           /\ shareInfo' = IF marked THEN [shareInfo EXCEPT ![v] = deleted] ELSE shareInfo
           /\ recon' = AfterShares(Done(IF marked THEN [recon EXCEPT !.ii[i] = removed] ELSE recon, v))
  BY Zenon DEF MarkShareInfoStatusDeleted
<1> DEFINE marked == /\ v \notin ii.shares \/ (i \notin failing /\ CurrentInstance(i, ii))
                     /\ v \notin failing /\ CurrentShare(v, recon.si[v])
           r == IF marked THEN [recon EXCEPT !.ii[i] = removed] ELSE recon
<1>3. /\ removed \in InstanceInfoRec
      /\ deleted \in ShareInfoRec /\ deleted.handle = recon.si[v].handle
      /\ deleted.exists = recon.si[v].exists
  <2>1. ii \in InstanceInfoRec
    BY <1>1 DEF RoundRec
  <2>2. removed \in InstanceInfoRec
    BY <2>1 DEF WithoutShare, InstanceInfoRec
  <2>3. deleted \in ShareInfoRec /\ deleted.handle = recon.si[v].handle
        /\ deleted.exists = recon.si[v].exists
    BY <1>1 DEF ShareInfoRec, FilestoreStatus
  <2> QED
    BY <2>2, <2>3
<1>4. instanceInfo' \in [Insts -> InstanceInfoRec] /\ faults' \in 0..MaxFaults
  <2> HIDE DEF removed, deleted
  <2>1. instanceInfo' \in {instanceInfo, [instanceInfo EXCEPT ![i] = removed]}
    BY <1>2
  <2>2. instanceInfo' \in [Insts -> InstanceInfoRec]
    BY <1>1, <1>3, <2>1, TypeParts
  <2>3. FailingAmong(failing, {i, v})
    BY <1>2
  <2>4. faults' \in 0..MaxFaults
    BY <1>1, <2>3, TypeParts, InfoAssumption DEF FailingAmong, Fault
  <2> QED
    BY <2>2, <2>4
<1>5. /\ shareInfo' \in [Vols -> ShareInfoRec]
      /\ \A w \in Vols : /\ shareInfo'[w].handle = shareInfo[w].handle
                         /\ shareInfo'[w].exists = shareInfo[w].exists
  BY <1>1, <1>2, <1>3, TypeParts DEF CurrentShare
<1>6. /\ r \in RoundRec /\ r.phase = recon.phase /\ r.todo = recon.todo
      /\ r.si = recon.si /\ r.shares = recon.shares
  BY <1>1, <1>3 DEF RoundRec
<1>7. recon' = AfterShares(Done(r, v))
  BY <1>2
<1>8. cloudVars' = cloudVars
  BY DEF MarkShareInfoStatusDeleted
<1> HIDE DEF r
<1>9. Follows(recon', r)
  BY <1>6, <1>7, SharesGoOn
<1> QED
  BY <1>4, <1>5, <1>6, <1>8, <1>9, RoundGoesOnAlone

LEMMA ShareRequestKeepsPlaces ==
  ASSUME PlacesInv, NEW v \in Vols, SendShareRequest(v) PROVE PlacesInv'
<1>1. /\ recon.phase = "shares" /\ v \in recon.todo /\ RoundLeavesAlone /\ CachesFollow /\ pv' = pv
  BY DEF SendShareRequest, RoundLeavesAlone
<1>2. /\ TypeOK /\ recon \in RoundRec /\ recon.si[v].handle \in Insts /\ recon.si[v].handle \in Places(v)
      /\ shareInfo \in [Vols -> ShareInfoRec] /\ instanceInfo \in [Insts -> InstanceInfoRec]
      /\ faults \in 0..MaxFaults
  BY <1>1, ShareWork, TypeParts
<1>3. recon' = AfterShares(Done(recon, v)) => Follows(recon', recon)
  BY <1>1, <1>2, SharesGoOn
<1>4. CASE MarkShareInfoStatusDeleted(v)
  BY <1>1, <1>4, MarkKeepsPlaces
<1>5. CASE /\ recon' = AfterShares(Done(recon, v)) /\ UNCHANGED objectVars
           /\ UNCHANGED cloudVars /\ faults' \in 0..MaxFaults
  BY <1>1, <1>2, <1>3, <1>5, RoundGoesOnAlone DEF objectVars
<1>6. CASE /\ recon' = AfterShares(Done(recon, v)) /\ UNCHANGED objectVars
           /\ \E o \in ShareRequest(v) : StartOp(o, "") /\ UNCHANGED faults
  <2>1. PICK o \in ShareRequest(v) : StartOp(o, "") /\ UNCHANGED faults
    BY <1>6
  <2>2. o \in Op /\ o.vol = v /\ o.inst \in Places(v)
    BY <1>2, <2>1, ShareRequestType
  <2>3. /\ CloudTypeOK'
        /\ \A j \in Insts, w \in Vols :
             share'[j][w].state # "ABSENT" \/ (\E p \in ops' : p.inst = j /\ p.vol = w) => j \in Places(w)
    BY <2>1, <2>2, StartsInPlace
  <2> QED
    BY <1>1, <1>2, <1>3, <1>6, <2>1, <2>3, RoundGoesOn DEF objectVars
<1>7. Fault => faults' \in 0..MaxFaults
  BY <1>2, InfoAssumption DEF Fault
<1> QED
  BY <1>1, <1>2, <1>4, <1>5, <1>6, <1>7 DEF SendShareRequest

-----------------------------------------------------------------------------
(* The theorems. *)

LEMMA PlacesStart == Init => PlacesInv
<1> SUFFICES ASSUME Init PROVE PlacesInv
  OBVIOUS
<1>1. Migrated \in [Vols -> Insts \cup {NoInst}] /\ MigratedCap \in Nat /\ ShareSize \in [Vols -> Nat]
  BY ReconcilerAssumption, InfoAssumption
<1>2. CloudTypeOK
  BY <1>1, NoneType DEF Init, CloudTypeOK, AbsentInstance, InstanceRec, InstanceStates, Protocols, ShareRec, ShareStates
<1>3. pv \in [Vols -> PVRec]
  BY <1>1 DEF Init, PVRec, Phases
<1>4. ObjectsTypeOK
  BY NoneType, InfoAssumption DEF Init, ObjectsInit, ObjectsTypeOK
<1>5. TypeOK /\ WorkFits(recon)
  BY <1>2, <1>3, <1>4, IdleRound DEF Init, TypeOK, ReconTypeOK, RoundRec, WorkFits
<1>6. ASSUME NEW v \in Vols PROVE PlaceOK(v)
  <2>1. /\ shareInfo[v] = NoShareInfo /\ shareLister[v] = NoShareInfo /\ controllerLister[v] = NoShareInfo
        /\ recon.si[v] = NoShareInfo /\ NoShareInfo.handle = NoInst /\ ~NoShareInfo.exists
    BY IdleRound DEF Init, ObjectsInit, NoShareInfo
  <2>2. pv[v].inst = Migrated[v] /\ (pv[v].phase = "wanted" => Migrated[v] = NoInst)
    BY <1>1 DEF Init
  <2>3. \A i \in Insts : OnInstance(i, v) => i = Migrated[v]
    BY IdleRound DEF Init, OnInstance, AbsentShare
  <2>4. \A i \in Places(v) : i = Migrated[v] /\ i # NoInst
    BY <2>1, <2>2, <2>3, FilestoreAssumption DEF Places, OnInstance, SharesOf
  <2> QED
    BY <2>1, <2>2, <2>4 DEF PlaceOK, Unplaced
<1> QED
  BY <1>5, <1>6 DEF PlacesInv

LEMMA PlacesStep == PlacesInv /\ [Next]_vars => PlacesInv'
<1> SUFFICES ASSUME PlacesInv, [Next]_vars PROVE PlacesInv'
  OBVIOUS
<1>1. CASE RoundStep
  BY <1>1, ListKeepsPlaces, UpdateKeepsPlaces, PointersKeepPlaces, AssignKeepsPlaces,
     ResizeKeepsPlaces, InstanceRequestKeepsPlaces, ShareRequestKeepsPlaces DEF RoundStep
<1>2. CASE RoundEnds \/ Sync
  BY <1>2, EndKeepsPlaces, SyncKeepsPlaces
<1>3. CASE \E v \in Vols : Creates(v) \/ Deletes(v) \/ Expands(v) \/ Releases(v)
  BY <1>3, RequestKeepsPlaces DEF Creates, Deletes, Expands, Releases, RequestLeavesRound
<1>4. CASE \E o \in ops : OpDone(o)
  BY <1>4, DoneKeepsPlaces
<1>5. CASE \E i \in Insts : Repair(i) \/ ManualDelete(i)
  BY <1>5, RepairKeepsPlaces, ManualDeleteKeepsPlaces
<1>6. CASE UNCHANGED vars
  <2>1. \A v \in Vols : PlaceOK(v)' = PlaceOK(v)
    BY <1>6 DEF vars, cloudVars, objectVars, cacheVars, PlaceOK, Places, Unplaced, SharesOf
  <2> QED
    BY <1>6, <2>1 DEF vars, cloudVars, objectVars, cacheVars, PlacesInv, TypeOK, CloudTypeOK,
                      ObjectsTypeOK, ReconTypeOK, WorkFits
<1> QED
  BY <1>1, <1>2, <1>3, <1>4, <1>5, <1>6 DEF Next

\* Everything that names an instance for a volume names the same one.
THEOREM PlacesInvariance == Spec => []PlacesInv
BY PlacesStart, PlacesStep, PTL DEF Spec

\* The values of the state are of their types.
THEOREM ReconcilerTypeCorrect == Spec => []TypeOK
<1>1. PlacesInv => TypeOK
  BY DEF PlacesInv
<1> QED
  BY <1>1, PlacesInvariance, PTL

\* A volume has a share only where its ShareInfo points to, however late the caches
\* are, whichever writes fail and whatever the user deletes.
THEOREM SharesAtTheirHandles == Spec => []ShareAtItsHandle
<1>1. PlacesInv => ShareAtItsHandle
  <2> SUFFICES ASSUME PlacesInv, NEW v \in Vols, NEW i \in Insts, v \in SharesOf(i),
                      shareInfo[v].handle # NoInst
               PROVE  shareInfo[v].handle = i
    BY DEF ShareAtItsHandle
  <2>1. i \in Places(v) /\ shareInfo[v].handle \in Places(v)
    BY DEF Places
  <2> QED
    BY <2>1 DEF PlacesInv, PlaceOK
<1> QED
  BY <1>1, PlacesInvariance, PTL

-----------------------------------------------------------------------------
(* No ShareInfo is moved. *)

\* What a step makes of the ShareInfo of v.
NotMoved(v) ==
  \/ shareInfo'[v].handle = shareInfo[v].handle
  \/ ~shareInfo'[v].exists
  \/ Unplaced(v)
  \/ shareInfo'[v].handle \in Places(v)

LEMMA NotMovedStays ==
  ASSUME PlacesInv, NEW v \in Vols, NotMoved(v), shareInfo[v].handle # NoInst, shareInfo'[v].exists
  PROVE  shareInfo'[v].handle = shareInfo[v].handle
<1>1. shareInfo[v].handle \in Places(v)
  BY PlacesAre DEF Holds
<1> QED
  BY <1>1 DEF PlacesInv, PlaceOK, NotMoved

LEMMA UpdateNotMoved == ASSUME PlacesInv, UpdateInfos, NEW v \in Vols PROVE NotMoved(v)
<1> DEFINE parents == {i \in Insts : v \in InstanceShares[i]}
           parent == CHOOSE i \in parents : TRUE
<1>1. shareInfo'[v] = shareInfo[v] \/ (parents # {} /\ shareInfo'[v] = ShareAsListed(parent, v))
  BY DEF UpdateInfos
<1>2. ASSUME parents # {} PROVE parent \in Insts /\ parent \in Places(v)
  BY <1>2, ListedThere
<1>3. ASSUME parents # {} PROVE ShareAsListed(parent, v).handle = parent
  BY <1>2, <1>3, ShareListed DEF PlacesInv
<1> QED
  BY <1>1, <1>2, <1>3 DEF NotMoved

LEMMA PointersNotMoved ==
  ASSUME PlacesInv, NEW i \in Insts, NEW w \in Vols, FixTwoWayPointers(i, w), NEW v \in Vols
  PROVE  NotMoved(v)
<1>1. TypeOK /\ shareInfo \in [Vols -> ShareInfoRec]
  BY TypeParts DEF PlacesInv
<1>2. ASSUME NEW failing, PointBack(i, w, failing) PROVE NotMoved(v)
  <2>1. CASE w \notin failing /\ CurrentShare(w, recon.si[w])
    <3>1. Unplaced(w) /\ shareInfo' = [shareInfo EXCEPT ![w] = PointTo(w, i)]
      BY <1>1, <1>2, <2>1, CurrentUnplaced DEF PointBack
    <3> QED
      BY <1>1, <3>1 DEF NotMoved
  <2>2. CASE ~(w \notin failing /\ CurrentShare(w, recon.si[w]))
    BY <1>2, <2>2 DEF PointBack, NotMoved
  <2> QED
    BY <2>1, <2>2
<1>3. ASSUME NEW failing, MoveToTarget(i, w, failing) PROVE NotMoved(v)
  BY <1>3 DEF MoveToTarget, NotMoved
<1> QED
  BY <1>2, <1>3 DEF FixTwoWayPointers

LEMMA AssignNotMoved ==
  ASSUME PlacesInv, NEW w \in Vols, AssignShare(w), NEW v \in Vols PROVE NotMoved(v)
<1>1. TypeOK /\ shareInfo \in [Vols -> ShareInfoRec] /\ recon.si[w].handle = NoInst
  BY TypeParts DEF PlacesInv, AssignShare, WorkFits
<1>2. ASSUME NEW i \in Insts, NEW ii, NEW failing, AssignTo(i, w, ii, failing) PROVE NotMoved(v)
  <2>1. CASE w \notin failing /\ CurrentShare(w, recon.si[w])
    <3>1. Unplaced(w) /\ shareInfo' = [shareInfo EXCEPT ![w] = PointTo(w, i)]
      BY <1>1, <1>2, <2>1, CurrentUnplaced DEF AssignTo
    <3> QED
      BY <1>1, <3>1 DEF NotMoved
  <2>2. CASE ~(w \notin failing /\ CurrentShare(w, recon.si[w]))
    BY <1>2, <2>2 DEF AssignTo, NotMoved
  <2> QED
    BY <2>1, <2>2
<1>3. ASSUME shareInfo' = shareInfo PROVE NotMoved(v)
  BY <1>3 DEF NotMoved
<1>4. CASE AssignToEligible(w)
  BY <1>2, <1>4 DEF AssignToEligible, Fits
<1>5. CASE AssignmentFails(w)
  BY <1>3, <1>5 DEF AssignmentFails, objectVars
<1>6. CASE AssignToNew(w)
  BY <1>2, <1>3, <1>6 DEF AssignToNew, objectVars
<1> QED
  BY <1>4, <1>5, <1>6 DEF AssignShare

LEMMA RequestNotMoved ==
  ASSUME PlacesInv, NEW w \in Vols, NEW v \in Vols,
         CreateVolume(w) \/ DeleteVolume(w) \/ ControllerExpandVolume(w) \/ ReleasePV(w)
  PROVE  NotMoved(v)
<1>1. shareInfo \in [Vols -> ShareInfoRec]
  BY TypeParts DEF PlacesInv
<1>2. CASE CreateShareInfo(w)
  BY <1>1, <1>2 DEF CreateShareInfo, FoundShareInfo, Unplaced, NotMoved
<1>3. CASE DeleteShareInfo(w)
  BY <1>1, <1>3 DEF DeleteShareInfo, MarkedForDeletion, ShareInfoRec, NotMoved
<1>4. CASE DeleteAnswers(w)
  BY <1>1, <1>4 DEF DeleteAnswers, NoShareInfo, NotMoved
<1>5. CASE ExpandShareInfo(w)
  BY <1>1, <1>5 DEF ExpandShareInfo, ShareInfoRec, NotMoved
<1>6. CASE CreateAnswers(w) \/ DeleteFindsNothing(w) \/ ExpandAnswers(w) \/ ReleasePV(w)
  BY <1>6 DEF CreateAnswers, DeleteFindsNothing, ExpandAnswers, ReleasePV, NotMoved
<1> QED
  BY <1>2, <1>3, <1>4, <1>5, <1>6 DEF CreateVolume, DeleteVolume, ControllerExpandVolume

LEMMA ShareRequestNotMoved ==
  ASSUME PlacesInv, NEW w \in Vols, SendShareRequest(w), NEW v \in Vols PROVE NotMoved(v)
<1>1. shareInfo \in [Vols -> ShareInfoRec]
  BY TypeParts DEF PlacesInv
<1>2. CASE MarkShareInfoStatusDeleted(w)
  <2> DEFINE deleted == [recon.si[w] EXCEPT !.status = "deleted"]
  <2>1. shareInfo' = shareInfo \/ (CurrentShare(w, recon.si[w]) /\ shareInfo' = [shareInfo EXCEPT ![w] = deleted])
    BY <1>2 DEF MarkShareInfoStatusDeleted
  <2>2. CurrentShare(w, recon.si[w]) => deleted.handle = shareInfo[w].handle
    BY <1>1 DEF CurrentShare, ShareInfoRec
  <2> QED
    BY <1>1, <2>1, <2>2 DEF NotMoved
<1>3. CASE UNCHANGED objectVars
  BY <1>3 DEF objectVars, NotMoved
<1> QED
  BY <1>2, <1>3 DEF SendShareRequest

LEMMA NextNotMoved == ASSUME PlacesInv, [Next]_vars, NEW v \in Vols PROVE NotMoved(v)
<1>1. ASSUME shareInfo' = shareInfo PROVE NotMoved(v)
  BY <1>1 DEF NotMoved
<1>2. CASE RoundStep
  <2>1. CASE ListShares \/ DeleteOrResizeInstances \/ \E i \in Insts : SendInstanceRequest(i)
    BY <1>1, <2>1 DEF ListShares, DeleteOrResizeInstances, SendInstanceRequest, objectVars
  <2> QED
    BY <1>2, <2>1, UpdateNotMoved, PointersNotMoved, AssignNotMoved, ShareRequestNotMoved DEF RoundStep
<1>3. CASE \E w \in Vols : Creates(w) \/ Deletes(w) \/ Expands(w) \/ Releases(w)
  BY <1>3, RequestNotMoved DEF Creates, Deletes, Expands, Releases
<1>4. CASE RoundEnds \/ Sync \/ (\E o \in ops : OpDone(o)) \/ (\E i \in Insts : Repair(i) \/ ManualDelete(i))
  BY <1>1, <1>4 DEF RoundEnds, Sync, ReconcilerSync, ControllerSync, OpDone, Repair, ManualDelete, objectVars
<1>5. CASE UNCHANGED vars
  BY <1>1, <1>5 DEF vars, objectVars
<1> QED
  BY <1>2, <1>3, <1>4, <1>5 DEF Next

\* A ShareInfo that points to an instance goes on pointing to it: only one without an
\* instance is assigned, whatever the copy shows that the assignment starts from.
THEOREM SharesStayPut == Spec => ShareStaysPut
<1> DEFINE Stay == \A v \in Vols : shareInfo[v].handle # NoInst /\ shareInfo'[v].exists
                                   => shareInfo'[v].handle = shareInfo[v].handle
<1>1. PlacesInv /\ [Next]_vars => [Stay]_vars
  BY NextNotMoved, NotMovedStays
<1> QED
  BY <1>1, PlacesInvariance, PTL DEF Spec, ShareStaysPut

-----------------------------------------------------------------------------
(* Walking through the phases. *)

\* What the walk keeps of r, and where it leads.
Walks(q, r) ==
  \/ q = Idle
  \/ /\ q.si = r.si /\ q.ii = r.ii /\ q.onInst = r.onInst /\ q.targets = r.targets
     /\ \/ q = r
        \/ r.phase \in ReadsObjects /\ q.phase \in ReadsObjects \ {"pointers"}
        \/ /\ r.phase = "instances" /\ q.phase = "shares"
           /\ \A v \in Vols : v \in q.todo => q.si[v].exists

LEMMA WalkIsRound ==
  ASSUME NEW r \in RoundRec
  PROVE  /\ r.phase \in RoundPhases /\ r.si \in [Vols -> ShareInfoRec] /\ r.ii \in [Insts -> InstanceInfoRec]
         /\ r.onInst \in [Insts -> SUBSET Vols] /\ r.shares \in [Insts -> [Vols -> ShareRec]]
BY DEF RoundRec

LEMMA SharesWalk == ASSUME NEW r \in RoundRec PROVE Walks(AfterShares(r), r)
BY DEF AfterShares, Walks

LEMMA InstancesWalk ==
  ASSUME NEW r \in RoundRec, r.phase = "instances" PROVE Walks(AfterInstances(r), r)
<1> DEFINE q == [r EXCEPT !.phase = "shares", !.todo = {v \in Vols : ShareNeedsRequest(r.si[v])}]
<1>1. /\ q.si = r.si /\ q.ii = r.ii /\ q.onInst = r.onInst /\ q.targets = r.targets
      /\ q.phase = "shares" /\ \A v \in Vols : v \in q.todo => q.si[v].exists
  BY DEF RoundRec, ShareNeedsRequest
<1> HIDE DEF q
<1>2. CASE r.todo = {}
  BY <1>1, <1>2 DEF AfterInstances, AfterShares, Walks, q
<1>3. CASE r.todo # {}
  BY <1>3 DEF AfterInstances, Walks
<1> QED
  BY <1>2, <1>3

LEMMA PointersWalk ==
  ASSUME NEW r \in RoundRec, r.phase \in ReadsObjects
  PROVE  Walks(AfterPointers(r), r) /\ Walks(AfterAssign(r), r)
<1> DEFINE a == [r EXCEPT !.phase = "assign", !.todo = Unassigned(r)]
           z == [a EXCEPT !.phase = "resize"]
           y == [r EXCEPT !.phase = "resize"]
<1>1. /\ a.si = r.si /\ a.ii = r.ii /\ a.onInst = r.onInst /\ a.targets = r.targets /\ a.phase = "assign"
      /\ z.si = r.si /\ z.ii = r.ii /\ z.onInst = r.onInst /\ z.targets = r.targets /\ z.phase = "resize"
      /\ y.si = r.si /\ y.ii = r.ii /\ y.onInst = r.onInst /\ y.targets = r.targets /\ y.phase = "resize"
  BY DEF RoundRec
<1>2. AfterPointers(r) \in {r, a, z} /\ AfterAssign(r) \in {r, y}
  BY DEF AfterPointers, AfterAssign
<1> HIDE DEF a, z, y
<1> QED
  BY <1>1, <1>2 DEF Walks, ReadsObjects

\* A step of a round, before the walk: the round's copies agree with the InstanceInfos
\* (infos), the shares (sh) and the operations (os) it is left with.
RoundFits(r, infos, sh, os) ==
  /\ \A i \in Insts :
       /\ r.phase \in ReadsObjects /\ r.ii[i].exists => r.ii[i] = infos[i]
       /\ r.ii[i].exists => infos[i].exists
       /\ r.ii[i].deleting => infos[i].deleting
       /\ r.ii[i].shares # {} \/ (r.phase = "instances" /\ i \in r.todo) => r.ii[i].exists
       /\ \A v \in Vols :
            /\ r.phase \in ReadsObjects \cup SendsRequests /\ sh[i][v].state # "ABSENT" /\ ToBeSent(r, v)
                 => v \in r.onInst[i]
            /\ r.phase = "pointers" /\ <<i, v>> \in r.todo
                 => v \in r.ii[i].shares /\ r.si[v].exists /\ r.si[v].handle # i
  /\ \A v \in Vols : r.phase = "shares" /\ v \in r.todo => r.si[v].exists
  /\ \A o \in os : o.type \in ShareOps /\ r.phase \in SendsRequests /\ ToBeSent(r, o.vol)
                     => <<o.inst, o.vol>> \in r.targets

LEMMA IdleFits == ASSUME NEW infos, NEW sh, NEW os PROVE RoundFits(Idle, infos, sh, os)
<1>1. /\ Idle.phase = "idle"
      /\ \A i \in Insts : ~Idle.ii[i].exists /\ ~Idle.ii[i].deleting /\ Idle.ii[i].shares = {}
  BY DEF Idle, NoInstanceInfo
<1> QED
  BY <1>1 DEF RoundFits, ReadsObjects, SendsRequests

LEMMA WalkFits ==
  ASSUME NEW r \in RoundRec, NEW q, NEW infos, NEW sh, NEW os,
         RoundFits(r, infos, sh, os), Walks(q, r)
  PROVE  RoundFits(q, infos, sh, os)
<1>1. CASE q = Idle \/ q = r
  BY <1>1, IdleFits
<1>2. CASE /\ q.si = r.si /\ q.ii = r.ii /\ q.onInst = r.onInst /\ q.targets = r.targets
           /\ r.phase \in ReadsObjects /\ q.phase \in ReadsObjects \ {"pointers"}
  BY <1>2 DEF RoundFits, ReadsObjects, SendsRequests, ToBeSent
<1>3. CASE /\ q.si = r.si /\ q.ii = r.ii /\ q.onInst = r.onInst /\ q.targets = r.targets
           /\ r.phase = "instances" /\ q.phase = "shares"
           /\ \A v \in Vols : v \in q.todo => q.si[v].exists
  BY <1>3 DEF RoundFits, ReadsObjects, SendsRequests, ToBeSent
<1> QED
  BY <1>1, <1>2, <1>3 DEF Walks

-----------------------------------------------------------------------------
(* The parts of the invariant. *)

\* What is known of a copy that is being deleted, and of an operation.
Marked(s, v) == s.deleting =>
  s.exists /\ pv[v].phase # "wanted" /\ (shareInfo[v].exists => shareInfo[v].deleting)
OpStays(o) ==
  /\ instance[o.inst].state # "UNUSED" /\ Shows(o) /\ RunsAlone(o)
  /\ o.type \in ShareOps /\ Listed(o.inst) => instanceInfo[o.inst].exists

LEMMA LinksAre ==
  LinksInv <=>
    /\ CachesInStep
    /\ \A i \in Insts : InstanceLinks(i) /\ ListingLinks(i)
    /\ RoundFits(recon, instanceInfo, share, ops)
    /\ \A v \in Vols : \A s \in Copies(v) : Marked(s, v) /\ \A i \in Insts : LinkFor(s, i, v)
    /\ \A o \in ops : OpStays(o)
<1>1. (\A i \in Insts : RoundLinks(i)) /\ (\A v \in Vols : DeletionMarks(v)) /\ (\A o \in ops : OpLinks(o))
      <=> /\ RoundFits(recon, instanceInfo, share, ops) /\ \A o \in ops : OpStays(o)
          /\ \A v \in Vols : \A s \in Copies(v) : Marked(s, v)
  BY DEF RoundLinks, DeletionMarks, OpLinks, RoundFits, OpStays, Marked, SharesOf
<1> QED
  BY <1>1 DEF LinksInv

LEMMA LinksKept ==
  ASSUME ~CacheLags, TypeOK, TypeOK', LinksInv, CachesFollow,
         recon'.phase = "listed" => recon.phase \in {"idle", "listed"} /\ instanceInfo' = instanceInfo,
         RoundFits(recon', instanceInfo', share', ops'),
         \A i \in Insts : InstanceLinks(i)' /\ ListingLinks(i)',
         \A v \in Vols : \A s \in {shareLister[v], shareInfo'[v], recon'.si[v]} :
           Marked(s, v)' /\ \A i \in Insts : LinkFor(s, i, v)',
         \A o \in ops' : OpStays(o)'
  PROVE  LinksInv'
<1>1. LinksInv' <=>
        /\ CachesInStep'
        /\ \A i \in Insts : InstanceLinks(i)' /\ ListingLinks(i)'
        /\ RoundFits(recon', instanceInfo', share', ops')
        /\ \A v \in Vols : \A s \in Copies(v)' : Marked(s, v)' /\ \A i \in Insts : LinkFor(s, i, v)'
        /\ \A o \in ops' : OpStays(o)'
  <2>1. (\A i \in Insts : RoundLinks(i)') /\ (\A v \in Vols : DeletionMarks(v)') /\ (\A o \in ops' : OpLinks(o)')
        <=> /\ RoundFits(recon', instanceInfo', share', ops') /\ \A o \in ops' : OpStays(o)'
            /\ \A v \in Vols : \A s \in Copies(v)' : Marked(s, v)'
    BY DEF RoundLinks, DeletionMarks, OpLinks, RoundFits, OpStays, Marked, SharesOf
  <2> QED
    BY <2>1 DEF LinksInv
<1>2. CachesInStep'
  BY DEF CachesInStep, CachesFollow, ReadsCaches, LinksInv
<1>3. \A v \in Vols : Copies(v)' \subseteq {shareLister[v], shareInfo'[v], recon'.si[v]}
  BY CachesShow, TypeParts DEF Copies, TypeOK, ObjectsTypeOK
<1> QED
  BY <1>1, <1>2, <1>3

\* A step that leaves the InstanceInfos alone keeps what is known of the copies, unless a
\* share that is linked by nothing else goes.
LinkHolds(i, v) ==
  /\ instanceInfo'[i] = instanceInfo[i] /\ (Listed(i)' => Listed(i))
  /\ ~instanceInfo[i].exists /\ v \in SharesOf(i) => v \in SharesOf(i)' \/ ~Listed(i)'

LEMMA LinkStays ==
  ASSUME NEW s, NEW i \in Insts, NEW v \in Vols, LinkFor(s, i, v), LinkHolds(i, v)
  PROVE  LinkFor(s, i, v)'
BY DEF LinkFor, LinkHolds, PointsTo

-----------------------------------------------------------------------------
(* Steps that leave Filestore and the InstanceInfos alone. *)

LEMMA QuietStep ==
  ASSUME ~CacheLags, TypeOK, TypeOK', LinksInv, CachesFollow,
         cloudVars' = cloudVars, instanceInfo' = instanceInfo,
         RoundFits(recon', instanceInfo, share, ops),
         recon'.phase = "listed" => \/ recon.phase = "listed" /\ recon'.shares = recon.shares
                                    \/ recon.phase = "idle" /\ recon'.shares = share,
         \A v \in Vols : \A s \in Copies(v) \cup {shareInfo'[v], recon'.si[v]} : Marked(s, v)',
         \A v \in Vols : \A s \in {shareInfo'[v], recon'.si[v]}, i \in Insts : LinkFor(s, i, v)
  PROVE  LinksInv'
<1>1. instance' = instance /\ share' = share /\ ops' = ops
  BY DEF cloudVars
<1>2. \A i \in Insts : InstanceLinks(i)' /\ ListingLinks(i)'
  <2>1. \A i \in Insts : InstanceLinks(i) /\ ListingLinks(i)
    BY DEF LinksInv
  <2>2. \A i \in Insts : InstanceLinks(i)'
    BY <1>1, <2>1 DEF InstanceLinks, SharesOf
  <2>3. ASSUME NEW i \in Insts PROVE ListingLinks(i)'
    BY <1>1, <2>1 DEF InstanceLinks, ListingLinks, SharesOf, ListedOn, Listed
  <2> QED
    BY <2>2, <2>3
<1>3. \A o \in ops' : OpStays(o)'
  BY <1>1, LinksAre DEF OpStays, Shows, RunsAlone, Listed
<1>4. ASSUME NEW v \in Vols, NEW s \in Copies(v) \cup {shareInfo'[v], recon'.si[v]}, NEW i \in Insts
      PROVE  LinkFor(s, i, v)'
  <2>1. LinkFor(s, i, v)
    BY LinksAre
  <2>2. LinkHolds(i, v)
    BY <1>1 DEF LinkHolds, Listed, SharesOf
  <2> QED
    BY <2>1, <2>2, LinkStays
<1> QED
  BY <1>1, <1>2, <1>3, <1>4, LinksKept DEF Copies

\* The requests of the controller: a ShareInfo is made, marked, removed, or resized.
RequestMarks(v) ==
  /\ \A w \in Vols : w # v => shareInfo'[w] = shareInfo[w] /\ pv'[w] = pv[w]
  /\ pv'[v].phase = "wanted" => pv[v].phase = "wanted"
  /\ LET s == shareInfo'[v]
     IN \/ s = shareInfo[v]
        \/ pv[v].phase = "wanted" /\ s.exists /\ ~s.deleting /\ s.handle = NoInst
        \/ shareInfo[v].exists /\ s.exists /\ s.deleting /\ pv'[v].phase # "wanted"
        \/ ~s.exists /\ ~s.deleting
        \/ /\ s.exists = shareInfo[v].exists /\ s.deleting = shareInfo[v].deleting
           /\ s.handle = shareInfo[v].handle /\ s.pool = shareInfo[v].pool

LEMMA RequestsMark ==
  ASSUME TypeOK, NEW v \in Vols,
         CreateVolume(v) \/ DeleteVolume(v) \/ ControllerExpandVolume(v) \/ ReleasePV(v)
  PROVE  RequestMarks(v) /\ RequestMoves(v)
<1> DEFINE s == shareInfo'[v]
<1>0. shareInfo[v] \in ShareInfoRec /\ shareInfo \in [Vols -> ShareInfoRec] /\ pv \in [Vols -> PVRec]
  BY TypeParts
<1>1. RequestMoves(v)
  BY CreateMoves, DeleteMoves, ExpandMoves
<1>2. CASE CreateShareInfo(v)
  <2>1. shareInfo'[v] = NewShareInfo(ShareSize[v], TRUE)
    BY <1>0, <1>2 DEF CreateShareInfo
  <2>2. s.exists /\ ~s.deleting /\ s.handle = NoInst
    BY <2>1 DEF NewShareInfo, NoShareInfo
  <2> QED
    BY <1>1, <1>2, <2>2 DEF CreateShareInfo, RequestMarks, RequestMoves
<1>3. CASE CreateAnswers(v)
  BY <1>0, <1>1, <1>3 DEF CreateAnswers, RequestMarks, RequestMoves
<1>4. ASSUME Deleted(v) PROVE pv'[v].phase # "wanted"
  BY <1>0, <1>4 DEF Deleted, PVRec
<1>5. CASE DeleteFindsNothing(v)
  BY <1>1, <1>4, <1>5 DEF DeleteFindsNothing, RequestMarks, RequestMoves
<1>6. CASE DeleteShareInfo(v)
  <2>1. shareInfo'[v] = MarkedForDeletion(shareInfo[v]) /\ pv' = pv /\ pv[v].phase = "released"
    BY <1>0, <1>6 DEF DeleteShareInfo
  <2>2. s = shareInfo[v] \/ (shareInfo[v].exists /\ s.exists /\ s.deleting)
    BY <1>0, <2>1 DEF MarkedForDeletion, ShareInfoRec
  <2> QED
    BY <1>1, <2>1, <2>2 DEF RequestMarks, RequestMoves
<1>7. CASE DeleteAnswers(v)
  <2>1. shareInfo'[v] = NoShareInfo /\ pv'[v].phase # "wanted"
    BY <1>0, <1>4, <1>7 DEF DeleteAnswers
  <2>2. ~NoShareInfo.exists /\ ~NoShareInfo.deleting
    BY DEF NoShareInfo
  <2> QED
    BY <1>1, <2>1, <2>2 DEF RequestMarks, RequestMoves
<1>8. CASE ExpandShareInfo(v)
  <2>1. shareInfo'[v] = [shareInfo[v] EXCEPT !.spec = ExpandSize[v]] /\ pv' = pv
    BY <1>0, <1>8 DEF ExpandShareInfo
  <2>2. /\ s.exists = shareInfo[v].exists /\ s.deleting = shareInfo[v].deleting
        /\ s.handle = shareInfo[v].handle /\ s.pool = shareInfo[v].pool
    BY <1>0, <2>1 DEF ShareInfoRec
  <2> QED
    BY <1>1, <2>1, <2>2 DEF RequestMarks, RequestMoves
<1>9. CASE ExpandAnswers(v) \/ ReleasePV(v)
  <2>1. shareInfo' = shareInfo
    BY <1>9 DEF ExpandAnswers, ReleasePV
  <2>2. pv[v].phase = "bound" /\ pv[v] \in PVRec
    BY <1>0, <1>9 DEF ExpandAnswers, ReleasePV
  <2>3. pv' = [pv EXCEPT ![v].cap = ExpandSize[v]] \/ pv' = [pv EXCEPT ![v].phase = "released"]
    BY <1>9 DEF ExpandAnswers, ReleasePV
  <2>4. pv'[v].phase # "wanted"
    BY <1>0, <2>2, <2>3 DEF PVRec
  <2> QED
    BY <1>1, <2>1, <2>4 DEF RequestMarks, RequestMoves
<1> QED
  BY <1>2, <1>3, <1>5, <1>6, <1>7, <1>8, <1>9 DEF CreateVolume, DeleteVolume, ControllerExpandVolume

LEMMA RequestKeepsLinks ==
  ASSUME ~CacheLags, PlacesInv, PlacesInv', LinksInv, NEW v \in Vols, UNCHANGED recon, CachesFollow,
         CreateVolume(v) \/ DeleteVolume(v) \/ ControllerExpandVolume(v) \/ ReleasePV(v)
  PROVE  LinksInv'
<1>1. TypeOK /\ TypeOK' /\ RequestMarks(v) /\ RequestMoves(v)
  BY RequestsMark DEF PlacesInv
<1>2. ASSUME NEW w \in Vols, w # v PROVE shareInfo'[w] = shareInfo[w] /\ pv'[w] = pv[w]
  BY <1>1, <1>2 DEF RequestMarks
<1>3. ASSUME NEW w \in Vols PROVE \A s \in Copies(w) : Marked(s, w)
  BY LinksAre
<1>4. shareInfo[v] \in ShareInfoRec
  BY <1>1, TypeParts
<1>5. ASSUME NEW w \in Vols, NEW s \in Copies(w) \cup {shareInfo'[w], recon'.si[w]} PROVE Marked(s, w)'
  <2>1. CASE w # v
    BY <1>2, <1>3, <2>1 DEF Marked, Copies
  <2>2. CASE w = v
    <3>1. CASE s \in Copies(v)
      BY <1>1, <1>3, <1>4, <2>2, <3>1 DEF Marked, RequestMarks
    <3>2. CASE s = shareInfo'[v]
      <4>1. Marked(shareInfo[v], v)
        BY <1>3 DEF Copies
      <4> QED
        BY <1>1, <1>4, <2>2, <3>2, <4>1 DEF Marked, RequestMarks
    <3> QED
      BY <2>2, <3>1, <3>2 DEF Copies
  <2> QED
    BY <2>1, <2>2
<1>6. ASSUME NEW w \in Vols, NEW s \in {shareInfo'[w], recon'.si[w]}, NEW i \in Insts PROVE LinkFor(s, i, w)
  <2>1. LinkFor(shareInfo[w], i, w) /\ LinkFor(recon.si[w], i, w)
    BY LinksAre DEF Copies
  <2>2. CASE w = v /\ s = shareInfo'[w]
    BY <1>1, <1>4, <2>1, <2>2, FilestoreAssumption
       DEF LinkFor, PointsTo, RequestMarks
  <2> QED
    BY <1>2, <2>1, <2>2
<1>7. RoundFits(recon, instanceInfo, share, ops)
  BY LinksAre
<1>8. recon'.phase = "listed" => recon.phase = "listed" /\ recon'.shares = recon.shares
  OBVIOUS
<1>9. instanceInfo' = instanceInfo /\ cloudVars' = cloudVars
  BY <1>1 DEF RequestMoves
<1> QED
  BY <1>1, <1>5, <1>6, <1>7, <1>8, <1>9, QuietStep

\* A round that is given up, and the listing of shares.
LEMMA EndKeepsLinks ==
  ASSUME ~CacheLags, PlacesInv, PlacesInv', LinksInv, RoundEnds \/ ListShares PROVE LinksInv'
<1>1. /\ TypeOK /\ TypeOK' /\ cloudVars' = cloudVars /\ objectVars' = objectVars /\ pv' = pv /\ CachesFollow
      /\ recon' = Idle \/ (recon.phase = "idle" /\ recon' = [recon EXCEPT !.phase = "listed", !.shares = share])
  BY DEF PlacesInv, RoundEnds, ListShares, RoundLeavesAlone
<1>2. /\ Idle.phase = "idle" /\ \A v \in Vols : Idle.si[v] = NoShareInfo
      /\ ~NoShareInfo.exists /\ ~NoShareInfo.deleting
  BY IdleRound DEF NoShareInfo
<1>3. RoundFits(recon, instanceInfo, share, ops)
  BY LinksAre
<1>4. CASE recon' = Idle
  <2>1. RoundFits(recon', instanceInfo, share, ops) /\ recon'.phase # "listed"
    BY <1>2, <1>4, IdleFits
  <2>2. ASSUME NEW v \in Vols
        PROVE  /\ \A s \in Copies(v) \cup {shareInfo'[v], recon'.si[v]} : Marked(s, v)'
               /\ \A s \in {shareInfo'[v], recon'.si[v]}, i \in Insts : LinkFor(s, i, v)
    BY <1>1, <1>2, <1>4, LinksAre DEF Marked, LinkFor, PointsTo, Copies, objectVars
  <2> QED
    BY <1>1, <2>1, <2>2, QuietStep DEF objectVars
<1>5. CASE recon.phase = "idle" /\ recon' = [recon EXCEPT !.phase = "listed", !.shares = share]
  <2>1. recon'.phase = "listed" /\ recon'.si = recon.si /\ recon'.ii = recon.ii /\ recon'.shares = share
    BY <1>1, <1>5, TypeParts DEF RoundRec
  <2>2. RoundFits(recon', instanceInfo, share, ops)
    BY <1>3, <1>5, <2>1 DEF RoundFits, ReadsObjects, SendsRequests
  <2>3. ASSUME NEW v \in Vols
        PROVE  /\ \A s \in Copies(v) \cup {shareInfo'[v], recon'.si[v]} : Marked(s, v)'
               /\ \A s \in {shareInfo'[v], recon'.si[v]}, i \in Insts : LinkFor(s, i, v)
    BY <1>1, <2>1, LinksAre DEF Marked, Copies, objectVars
  <2> QED
    BY <1>1, <1>5, <2>1, <2>2, <2>3, QuietStep DEF objectVars
<1> QED
  BY <1>1, <1>4, <1>5

\* The informers catch up.
LEMMA SyncKeepsLinks == ASSUME ~CacheLags, PlacesInv, PlacesInv', LinksInv, Sync PROVE LinksInv'
<1>1. /\ instance' = instance /\ share' = share /\ ops' = ops /\ pv' = pv /\ recon' = recon
      /\ shareInfo' = shareInfo /\ instanceInfo' = instanceInfo
      /\ shareLister' \in {shareLister, shareInfo}
      /\ instanceLister' \in {instanceLister, instanceInfo}
  BY DEF Sync, ReconcilerSync, ControllerSync, cloudVars, objectVars
<1>2. CachesInStep'
  BY <1>1 DEF LinksInv, CachesInStep
<1>3. \A v \in Vols : Copies(v)' \subseteq Copies(v)
  BY <1>1 DEF Copies
<1>4. \A v \in Vols : DeletionMarks(v)' /\ \A s \in Copies(v)', i \in Insts : LinkFor(s, i, v)'
  BY <1>1, <1>3 DEF LinksInv, DeletionMarks, LinkFor, PointsTo, Listed, SharesOf
<1>5. \A i \in Insts : InstanceLinks(i)' /\ ListingLinks(i)' /\ RoundLinks(i)'
  BY <1>1 DEF LinksInv, InstanceLinks, ListingLinks, RoundLinks, Listed, SharesOf, ListedOn
<1>6. \A o \in ops' : OpLinks(o)'
  BY <1>1 DEF LinksInv, OpLinks, Shows, RunsAlone, Listed
<1> QED
  BY <1>2, <1>4, <1>5, <1>6 DEF LinksInv

-----------------------------------------------------------------------------
(* Filestore goes on: operations end, instances are repaired or deleted by hand. *)

LEMMA CloudStep ==
  ASSUME ~CacheLags, TypeOK, TypeOK', LinksInv, CachesFollow,
         objectVars' = objectVars, recon' = recon, pv' = pv, ops' \subseteq ops,
         \A i \in Insts, v \in Vols : v \in SharesOf(i)' => v \in SharesOf(i),
         \A i \in Insts :
           /\ Listed(i)' => Listed(i)
           /\ instance'[i].state = "DELETING" => instance[i].state = "DELETING"
           /\ SharesOf(i)' # {} => instance'[i].state \in {"READY", "REPAIRING"}
           /\ ~instanceInfo[i].exists /\ Listed(i)' => SharesOf(i) \subseteq SharesOf(i)',
         \A o \in ops' : instance'[o.inst].state # "UNUSED" /\ Shows(o)'
  PROVE  LinksInv'
<1>1. shareInfo' = shareInfo /\ instanceInfo' = instanceInfo
  BY DEF objectVars
<1>2. ASSUME NEW i \in Insts PROVE InstanceLinks(i)' /\ ListingLinks(i)'
  <2>1. InstanceLinks(i) /\ ListingLinks(i)
    BY DEF LinksInv
  <2>2. SharesOf(i)' \subseteq SharesOf(i)
    BY DEF SharesOf
  <2>3. InstanceLinks(i)'
    BY <1>1, <2>1, <2>2 DEF InstanceLinks
  <2>4. ListedOn(i)' = ListedOn(i)
    BY DEF ListedOn
  <2>5. ListingLinks(i)'
    BY <1>1, <2>1, <2>2, <2>4 DEF ListingLinks
  <2> QED
    BY <2>3, <2>5
<1>3. RoundFits(recon', instanceInfo', share', ops')
  <2>1. RoundFits(recon, instanceInfo, share, ops)
    BY LinksAre
  <2>2. \A i \in Insts, v \in Vols : share'[i][v].state # "ABSENT" => share[i][v].state # "ABSENT"
    BY DEF SharesOf
  <2> QED
    BY <1>1, <2>1, <2>2 DEF RoundFits
<1>4. ASSUME NEW v \in Vols, NEW s \in Copies(v) \cup {shareInfo'[v], recon'.si[v]}
      PROVE  Marked(s, v)' /\ \A i \in Insts : LinkFor(s, i, v)'
  <2>1. s \in Copies(v)
    BY <1>1 DEF Copies
  <2>2. Marked(s, v)'
    BY <1>1, <2>1, LinksAre DEF Marked
  <2>3. ASSUME NEW i \in Insts PROVE LinkFor(s, i, v)'
    BY <1>1, <2>1, LinksAre, LinkStays DEF LinkHolds
  <2> QED
    BY <2>2, <2>3
<1>5. ASSUME NEW o \in ops' PROVE OpStays(o)'
  <2>1. o \in ops /\ OpStays(o) /\ o.inst \in Insts
    BY LinksAre, TypeParts, OpShape
  <2>2. RunsAlone(o)'
    BY <2>1 DEF OpStays, RunsAlone
  <2> QED
    BY <1>1, <2>1, <2>2 DEF OpStays
<1>6. recon'.phase = "listed" => recon.phase \in {"idle", "listed"} /\ instanceInfo' = instanceInfo
  BY <1>1
<1> QED
  BY <1>2, <1>3, <1>4, <1>5, <1>6, LinksKept DEF Copies

\* What the end of an operation leaves of instances and shares.
LEMMA DoneLeaves ==
  ASSUME TypeOK, LinksInv, NEW o \in ops, OpSucceeds(o) \/ OpFails(o)
  PROVE  /\ ops' = ops \ {o}
         /\ \A i \in Insts :
              \/ instance'[i].state = instance[i].state
              \/ /\ i = o.inst /\ o.type \in {"InstanceCreate", "InstanceDelete"} /\ o.vol = NoVol
                 /\ instance'[i].state \in {"READY", "ERROR", "GONE"} /\ Listed(i) /\ SharesOf(i) = {}
         /\ \A i \in Insts, v \in Vols :
              \/ share'[i][v] = share[i][v]
              \/ /\ i = o.inst /\ v = o.vol /\ o.type \in ShareOps
                 /\ share[i][v].state # "ABSENT"
<1>1. /\ o.inst \in Insts /\ NoVol \notin Vols
      /\ \/ o.type \in InstanceOps /\ o.vol = NoVol
         \/ o.type \in ShareOps /\ o.vol \in Vols
      /\ instance \in [Insts -> InstanceRec] /\ share \in [Insts -> [Vols -> ShareRec]]
  BY OpShape, TypeParts
<1>2. OpStays(o) /\ InstanceLinks(o.inst)
  BY <1>1, LinksAre
<1>3. ops' = ops \ {o}
  BY DEF OpSucceeds, OpFails
<1>4. ASSUME NEW i \in Insts
      PROVE  \/ instance'[i].state = instance[i].state
             \/ /\ i = o.inst /\ o.type \in {"InstanceCreate", "InstanceDelete"} /\ o.vol = NoVol
                /\ instance'[i].state \in {"READY", "ERROR", "GONE"} /\ Listed(i) /\ SharesOf(i) = {}
  <2>1. CASE i # o.inst
    BY <1>1, <2>1 DEF OpSucceeds, OpFails
  <2>2. CASE i = o.inst /\ o.type \notin {"InstanceCreate", "InstanceDelete"}
    <3>1. /\ instance[i] \in InstanceRec
          /\ instance'[i] \in {instance[i], [instance[i] EXCEPT !.cap = o.cap]}
      BY <1>1, <2>2 DEF OpSucceeds, OpFails
    <3> QED
      BY <2>2, <3>1 DEF InstanceRec
  <2>3. CASE i = o.inst /\ o.type \in {"InstanceCreate", "InstanceDelete"}
    <3>1. instance'[i].state \in {"READY", "ERROR", "GONE"}
      <4>1. /\ instance[i] \in InstanceRec
            /\ \/ instance'[i] = AbsentInstance("GONE")
               \/ instance'[i] = [instance[i] EXCEPT !.state = "READY"]
               \/ instance'[i] = [instance[i] EXCEPT !.state = "ERROR"]
        BY <1>1, <2>3 DEF OpSucceeds, OpFails
      <4>2. AbsentInstance("GONE").state = "GONE"
        BY DEF AbsentInstance
      <4>3. \A state : [instance[i] EXCEPT !.state = state].state = state
        BY <4>1 DEF InstanceRec
      <4> QED
        BY <4>1, <4>2, <4>3
    <3>2. instance[i].state \in {"CREATING", "DELETING"}
      BY <1>2, <2>3 DEF OpStays, Shows
    <3>3. Listed(i) /\ SharesOf(i) = {}
      BY <1>2, <2>3, <3>2 DEF Listed, InstanceLinks
    <3> QED
      BY <1>1, <2>3, <3>1, <3>3 DEF ShareOps
  <2> QED
    BY <2>1, <2>2, <2>3
<1>5. ASSUME NEW i \in Insts, NEW v \in Vols
      PROVE  \/ share'[i][v] = share[i][v]
             \/ i = o.inst /\ v = o.vol /\ o.type \in ShareOps /\ share[i][v].state # "ABSENT"
  <2>1. CASE i # o.inst \/ v # o.vol
    BY <1>1, <2>1 DEF OpSucceeds, OpFails
  <2>2. CASE i = o.inst /\ v = o.vol
    <3>1. o.type \in ShareOps
      BY <1>1, <2>2
    <3>2. share[i][v].state # "ABSENT"
      BY <1>2, <2>2, <3>1 DEF OpStays, Shows, ShareOps
    <3> QED
      BY <2>2, <3>1, <3>2
  <2> QED
    BY <2>1, <2>2
<1> QED
  BY <1>3, <1>4, <1>5

LEMMA DoneKeepsLinks ==
  ASSUME ~CacheLags, PlacesInv, PlacesInv', LinksInv, NEW o \in ops, OpDone(o) PROVE LinksInv'
<1>1. /\ TypeOK /\ TypeOK' /\ objectVars' = objectVars /\ recon' = recon /\ pv' = pv /\ CachesFollow
      /\ OpSucceeds(o) \/ OpFails(o)
  BY DEF PlacesInv, OpDone, RoundLeavesAlone
<1>2. /\ ops' = ops \ {o}
      /\ \A i \in Insts :
           \/ instance'[i].state = instance[i].state
           \/ /\ i = o.inst /\ o.type \in {"InstanceCreate", "InstanceDelete"} /\ o.vol = NoVol
              /\ instance'[i].state \in {"READY", "ERROR", "GONE"} /\ Listed(i) /\ SharesOf(i) = {}
      /\ \A i \in Insts, v \in Vols :
           \/ share'[i][v] = share[i][v]
           \/ i = o.inst /\ v = o.vol /\ o.type \in ShareOps /\ share[i][v].state # "ABSENT"
  BY <1>1, DoneLeaves
<1>3. OpStays(o) /\ o.inst \in Insts
  BY <1>1, LinksAre, TypeParts, OpShape
<1>4. ASSUME NEW i \in Insts, NEW v \in Vols, v \in SharesOf(i)' PROVE v \in SharesOf(i)
  BY <1>2, <1>4 DEF SharesOf
<1>5. ASSUME NEW i \in Insts
      PROVE  /\ Listed(i)' => Listed(i)
             /\ instance'[i].state = "DELETING" => instance[i].state = "DELETING"
             /\ SharesOf(i)' # {} => instance'[i].state \in {"READY", "REPAIRING"}
             /\ ~instanceInfo[i].exists /\ Listed(i)' => SharesOf(i) \subseteq SharesOf(i)'
  <2>1. SharesOf(i)' \subseteq SharesOf(i) /\ InstanceLinks(i)
    BY <1>4 DEF SharesOf, LinksInv
  <2>2. (Listed(i)' => Listed(i)) /\ (instance'[i].state = "DELETING" => instance[i].state = "DELETING")
    BY <1>2 DEF Listed
  <2>3. SharesOf(i)' # {} => instance'[i].state \in {"READY", "REPAIRING"}
    BY <1>2, <2>1 DEF InstanceLinks
  <2>4. ASSUME ~instanceInfo[i].exists, Listed(i)', NEW v \in SharesOf(i) PROVE v \in SharesOf(i)'
    <3>1. share'[i][v] = share[i][v]
      BY <1>2, <1>3, <2>2, <2>4 DEF OpStays, SharesOf
    <3> QED
      BY <3>1 DEF SharesOf
  <2> QED
    BY <2>2, <2>3, <2>4
<1>6. ASSUME NEW p \in ops' PROVE instance'[p.inst].state # "UNUSED" /\ Shows(p)'
  <2>1. /\ p \in ops /\ p # o /\ OpStays(p) /\ p.inst \in Insts
        /\ \/ p.type \in InstanceOps /\ p.vol = NoVol
           \/ p.type \in ShareOps /\ p.vol \in Vols
        /\ NoVol \notin Vols
    BY <1>1, <1>2, LinksAre, TypeParts, OpShape
  <2>2. o.inst = p.inst /\ o.vol = p.vol => "InstanceUpdate" \in {o.type, p.type}
    BY <1>3, <2>1 DEF OpStays, RunsAlone
  <2>3. instance'[p.inst].state # "UNUSED"
    BY <1>2, <2>1 DEF OpStays
  <2>4. p.type \in {"InstanceCreate", "InstanceDelete"} => instance'[p.inst].state = instance[p.inst].state
    BY <1>2, <2>1, <2>2 DEF InstanceOps, ShareOps
  <2>5. p.type \in ShareOps => share'[p.inst][p.vol] = share[p.inst][p.vol]
    BY <1>2, <2>1, <2>2 DEF InstanceOps, ShareOps
  <2>6. Shows(p)'
    BY <2>1, <2>4, <2>5 DEF OpStays, Shows, ShareOps
  <2> QED
    BY <2>3, <2>6
<1>7. ops' \subseteq ops
  BY <1>2
<1> QED
  BY <1>1, <1>4, <1>5, <1>6, <1>7, CloudStep

LEMMA RepairKeepsLinks ==
  ASSUME ~CacheLags, PlacesInv, PlacesInv', LinksInv, NEW i \in Insts, Repair(i) PROVE LinksInv'
<1>1. /\ TypeOK /\ TypeOK' /\ objectVars' = objectVars /\ recon' = recon /\ pv' = pv /\ CachesFollow
      /\ share' = share /\ ops' = ops /\ instance \in [Insts -> InstanceRec]
      /\ \A j \in Insts : \/ instance'[j].state = instance[j].state
                          \/ /\ j = i /\ {instance[j].state, instance'[j].state} \subseteq {"READY", "REPAIRING"}
  BY TypeParts DEF PlacesInv, Repair, RoundLeavesAlone, RepairStarts, RepairEnds, InstanceRec
<1>2. \A j \in Insts : InstanceLinks(j)
  BY DEF LinksInv
<1>3. ASSUME NEW o \in ops' PROVE instance'[o.inst].state # "UNUSED" /\ Shows(o)'
  <2>1. o \in ops /\ OpStays(o) /\ o.inst \in Insts
    BY <1>1, LinksAre, TypeParts, OpShape
  <2> QED
    BY <1>1, <2>1 DEF OpStays, Shows
<1>4. \A j \in Insts : /\ Listed(j)' => Listed(j)
                       /\ instance'[j].state = "DELETING" => instance[j].state = "DELETING"
                       /\ SharesOf(j)' = SharesOf(j)
                       /\ SharesOf(j)' # {} => instance'[j].state \in {"READY", "REPAIRING"}
  BY <1>1, <1>2 DEF InstanceLinks, Listed, SharesOf
<1> QED
  BY <1>1, <1>3, <1>4, CloudStep

LEMMA ManualDeleteKeepsLinks ==
  ASSUME ~CacheLags, PlacesInv, PlacesInv', LinksInv, NEW i \in Insts, ManualDelete(i) PROVE LinksInv'
<1>1. /\ TypeOK /\ TypeOK' /\ objectVars' = objectVars /\ recon' = recon /\ pv' = pv /\ CachesFollow
      /\ ops' = ops /\ \A o \in ops : o.inst # i
      /\ instance'[i] = AbsentInstance("GONE") /\ \A v \in Vols : share'[i][v] = AbsentShare
      /\ \A j \in Insts : j # i => instance'[j] = instance[j] /\ share'[j] = share[j]
  BY TypeParts DEF PlacesInv, ManualDelete, RoundLeavesAlone
<1>2. instance'[i].state = "GONE" /\ SharesOf(i)' = {} /\ ~Listed(i)'
  <2>1. AbsentInstance("GONE").state = "GONE" /\ AbsentShare.state = "ABSENT"
    BY DEF AbsentInstance, AbsentShare
  <2> QED
    BY <1>1, <2>1 DEF SharesOf, Listed
<1>3. \A j \in Insts : InstanceLinks(j)
  BY DEF LinksInv
<1>4. ASSUME NEW o \in ops' PROVE instance'[o.inst].state # "UNUSED" /\ Shows(o)'
  <2>1. o \in ops /\ OpStays(o) /\ o.inst \in Insts /\ o.inst # i
    BY <1>1, LinksAre, TypeParts, OpShape
  <2> QED
    BY <1>1, <2>1 DEF OpStays, Shows
<1>5. \A j \in Insts : j # i => SharesOf(j)' = SharesOf(j) /\ Listed(j)' = Listed(j)
  BY <1>1 DEF SharesOf, Listed
<1>6. ASSUME NEW j \in Insts
      PROVE  /\ Listed(j)' => Listed(j)
             /\ instance'[j].state = "DELETING" => instance[j].state = "DELETING"
             /\ SharesOf(j)' # {} => instance'[j].state \in {"READY", "REPAIRING"}
             /\ ~instanceInfo[j].exists /\ Listed(j)' => SharesOf(j) \subseteq SharesOf(j)'
             /\ SharesOf(j)' \subseteq SharesOf(j)
  BY <1>1, <1>2, <1>3, <1>5 DEF InstanceLinks
<1> QED
  BY <1>1, <1>4, <1>6, CloudStep

-----------------------------------------------------------------------------
(* Steps of a round that has its copies. *)

LEMMA WorkStep ==
  ASSUME ~CacheLags, TypeOK, TypeOK', LinksInv, RoundLeavesAlone,
         NEW r \in RoundRec, r.phase \in ReadsObjects \cup SendsRequests, Walks(recon', r),
         RoundFits(r, instanceInfo', share', ops'),
         \A i \in Insts : InstanceLinks(i)',
         \A v \in Vols : \A s \in Copies(v) \cup {shareInfo'[v], r.si[v]} :
           Marked(s, v)' /\ \A i \in Insts : LinkFor(s, i, v)',
         \A o \in ops' : OpStays(o)'
  PROVE  LinksInv'
<1>1. Idle.phase = "idle" /\ \A v \in Vols : Idle.si[v] = NoShareInfo
  BY IdleRound
<1>2. recon'.phase # "listed"
  BY <1>1 DEF Walks, ReadsObjects, SendsRequests
<1>3. \A i \in Insts : ListingLinks(i)'
  BY <1>2 DEF ListingLinks
<1>4. RoundFits(recon', instanceInfo', share', ops')
  BY WalkFits
<1>5. ASSUME NEW v \in Vols, NEW s \in Copies(v) \cup {shareInfo'[v], recon'.si[v]}
      PROVE  Marked(s, v)' /\ \A i \in Insts : LinkFor(s, i, v)'
  <2>1. s \in Copies(v) \cup {shareInfo'[v], r.si[v]} \/ s = NoShareInfo
    BY <1>1 DEF Walks
  <2>2. ~NoShareInfo.exists /\ ~NoShareInfo.deleting
    BY DEF NoShareInfo
  <2>3. CASE s = NoShareInfo
    BY <2>2, <2>3 DEF Marked, LinkFor, PointsTo
  <2> QED
    BY <2>1, <2>3
<1> QED
  BY <1>2, <1>3, <1>4, <1>5, LinksKept DEF Copies, RoundLeavesAlone

\* What is known of a copy does not depend on where its ShareInfo points to.
LEMMA MarksStay ==
  ASSUME LinksInv, pv' = pv, NEW v \in Vols, NEW s \in Copies(v),
         shareInfo'[v].exists = shareInfo[v].exists, shareInfo'[v].deleting = shareInfo[v].deleting
  PROVE  Marked(s, v)'
BY LinksAre DEF Marked

\* Without a step of Filestore, or of an InstanceInfo.
LEMMA CloudStays ==
  ASSUME LinksInv, cloudVars' = cloudVars, instanceInfo' = instanceInfo
  PROVE  /\ \A i \in Insts : InstanceLinks(i)'
         /\ \A o \in ops' : OpStays(o)'
         /\ \A i \in Insts, v \in Vols : LinkHolds(i, v)
         /\ share' = share /\ ops' = ops
BY LinksAre DEF cloudVars, InstanceLinks, SharesOf, OpStays, Shows, RunsAlone, Listed, LinkHolds

\* A share that an InstanceInfo lists may point to its instance.
LEMMA ListedLinks ==
  ASSUME LinksInv, NEW i \in Insts, NEW v \in Vols, NEW s, v \in instanceInfo[i].shares
  PROVE  LinkFor(s, i, v)
BY DEF LinksInv, InstanceLinks, LinkFor

LEMMA PointBackKeepsLinks ==
  ASSUME ~CacheLags, PlacesInv, TypeOK', LinksInv, NEW i \in Insts, NEW v \in Vols, NEW failing,
         recon.phase = "pointers", <<i, v>> \in recon.todo, PointBack(i, v, failing),
         UNCHANGED cloudVars, RoundLeavesAlone
  PROVE  LinksInv'
<1>1. TypeOK /\ pv' = pv /\ instanceInfo' = instanceInfo /\ recon.phase \in ReadsObjects
      /\ recon \in RoundRec /\ shareInfo \in [Vols -> ShareInfoRec]
      /\ RoundFits(recon, instanceInfo, share, ops)
  BY TypeParts, LinksAre DEF PlacesInv, PointBack, RoundLeavesAlone, ReadsObjects
<1>2. ASSUME NEW q \in RoundRec, q.phase = "pointers", recon' = AfterPointers(Done(q, <<i, v>>))
      PROVE  /\ Done(q, <<i, v>>) \in RoundRec /\ Done(q, <<i, v>>).phase \in ReadsObjects
             /\ Walks(recon', Done(q, <<i, v>>))
  <2>1. WorkFits(q)
    BY <1>2 DEF WorkFits
  <2>2. Done(q, <<i, v>>) \in RoundRec /\ Done(q, <<i, v>>).phase \in ReadsObjects
    BY <1>2, <2>1, DoneFits DEF ReadsObjects
  <2> QED
    BY <1>2, <2>2, PointersWalk
<1>3. CASE v \notin failing /\ CurrentShare(v, recon.si[v])
  <2> DEFINE q == [recon EXCEPT !.si[v] = PointTo(v, i)]
             r == Done(q, <<i, v>>)
  <2>1. shareInfo' = [shareInfo EXCEPT ![v] = PointTo(v, i)] /\ recon' = AfterPointers(r)
    BY <1>3 DEF PointBack
  <2>2. /\ recon.si[v] = shareInfo[v] /\ PointTo(v, i) \in ShareInfoRec
        /\ PointTo(v, i).exists /\ PointTo(v, i).handle = i /\ shareInfo[v].exists
        /\ PointTo(v, i).deleting = shareInfo[v].deleting
    <3>1. PointTo(v, i).deleting = recon.si[v].deleting
      BY <1>1 DEF PointTo, RoundRec, ShareInfoRec
    <3> QED
      BY <1>1, <1>3, <3>1, CurrentUnplaced DEF PointBack, CurrentShare
  <2>3. /\ q \in RoundRec /\ q.phase = "pointers" /\ q.ii = recon.ii /\ q.onInst = recon.onInst
        /\ q.todo = recon.todo /\ q.si = [recon.si EXCEPT ![v] = PointTo(v, i)]
    BY <1>1, <2>2 DEF RoundRec
  <2>4. /\ r.ii = recon.ii /\ r.onInst = recon.onInst /\ r.si = q.si /\ r.phase = "pointers"
        /\ r.todo = recon.todo \ {<<i, v>>}
    BY <2>3 DEF Done, RoundRec
  <2>5. recon.si \in [Vols -> ShareInfoRec]
    BY <1>1 DEF RoundRec
  <2>6. r \in RoundRec /\ r.phase \in ReadsObjects /\ Walks(recon', r)
    BY <1>2, <2>1, <2>3
  <2> HIDE DEF q, r
  <2>7. \A w \in Vols : r.si[w] = IF w = v THEN PointTo(v, i) ELSE recon.si[w]
    BY <2>3, <2>4, <2>5
  <2>8. RoundFits(r, instanceInfo, share, ops)
    <3>1. ASSUME NEW j \in Insts, NEW w \in Vols, <<j, w>> \in r.todo
          PROVE  w \in r.ii[j].shares /\ r.si[w].exists /\ r.si[w].handle # j
      BY <1>1, <2>2, <2>4, <2>7, <3>1 DEF RoundFits
    <3> QED
      BY <1>1, <2>4, <3>1 DEF RoundFits, ReadsObjects, SendsRequests, ToBeSent
  <2>9. v \in instanceInfo[i].shares
    BY <1>1 DEF RoundFits, ReadsObjects
  <2>10. ASSUME NEW w \in Vols
         PROVE  shareInfo'[w].exists = shareInfo[w].exists /\ shareInfo'[w].deleting = shareInfo[w].deleting
    BY <1>1, <2>1, <2>2
  <2>11. ASSUME NEW w \in Vols, NEW s \in Copies(w) \cup {shareInfo'[w], r.si[w]}
         PROVE  Marked(s, w)' /\ \A j \in Insts : LinkFor(s, j, w)'
    <3>1. s \in Copies(w) \/ (w = v /\ s = PointTo(v, i))
      BY <1>1, <2>1, <2>7 DEF Copies
    <3>2. Marked(s, w)'
      <4>1. CASE s \in Copies(w)
        BY <1>1, <2>10, <4>1, MarksStay
      <4>2. CASE w = v /\ s = PointTo(v, i)
        <5>1. ASSUME NEW t, t = shareInfo[v] PROVE Marked(t, v)'
          BY <1>1, <2>10, <5>1, MarksStay DEF Copies
        <5> QED
          BY <2>2, <4>2, <5>1 DEF Marked
      <4> QED
        BY <3>1, <4>1, <4>2
    <3>3. ASSUME NEW j \in Insts PROVE LinkFor(s, j, w)
      <4>1. CASE s \in Copies(w)
        BY <4>1, LinksAre
      <4>2. CASE w = v /\ s = PointTo(v, i)
        BY <2>2, <2>9, <4>2, ListedLinks DEF LinkFor, PointsTo
      <4> QED
        BY <3>1, <4>1, <4>2
    <3> QED
      BY <1>1, <3>2, <3>3, CloudStays, LinkStays
  <2> QED
    BY <1>1, <2>6, <2>8, <2>11, CloudStays, WorkStep
<1>4. CASE ~(v \notin failing /\ CurrentShare(v, recon.si[v]))
  <2> DEFINE r == Done(recon, <<i, v>>)
  <2>1. shareInfo' = shareInfo /\ recon' = AfterPointers(r)
    BY <1>4 DEF PointBack
  <2>2. /\ r.ii = recon.ii /\ r.onInst = recon.onInst /\ r.si = recon.si /\ r.phase = "pointers"
        /\ r.todo = recon.todo \ {<<i, v>>}
    BY <1>1 DEF Done, RoundRec
  <2>3. r \in RoundRec /\ r.phase \in ReadsObjects /\ Walks(recon', r)
    BY <1>1, <1>2, <2>1
  <2> HIDE DEF r
  <2>4. RoundFits(r, instanceInfo, share, ops)
    BY <1>1, <2>2 DEF RoundFits, ReadsObjects, SendsRequests, ToBeSent
  <2>5. ASSUME NEW w \in Vols, NEW s \in Copies(w) \cup {shareInfo'[w], r.si[w]}
         PROVE  Marked(s, w)' /\ \A j \in Insts : LinkFor(s, j, w)'
    <3>1. s \in Copies(w)
      BY <2>1, <2>2 DEF Copies
    <3> QED
      BY <1>1, <2>1, <3>1, CloudStays, LinkStays, LinksAre, MarksStay
  <2> QED
    BY <1>1, <2>3, <2>4, <2>5, CloudStays, WorkStep
<1> QED
  BY <1>3, <1>4

\* The copies of a share that name an instance name the one that has it.
LEMMA OnePlace ==
  ASSUME PlacesInv, NEW v \in Vols, NEW i \in Insts, NEW j \in Insts,
         NEW s \in Copies(v), s.handle = j,
         \/ v \in SharesOf(i) \/ v \in ListedOn(i) \/ (\E t \in Copies(v) : t.handle = i)
  PROVE  i = j
<1>1. \A t \in Copies(v), x \in Insts : t.handle = x => x \in Places(v)
  BY FilestoreAssumption, PlacesAre DEF Copies, Holds
<1>2. v \in SharesOf(i) \/ v \in ListedOn(i) => i \in Places(v)
  BY PlacesAre DEF OnInstance, SharesOf, ListedOn
<1> QED
  BY <1>1, <1>2 DEF PlacesInv, PlaceOK

\* The instance a ShareInfo points to has the share already; only the other one changes.
LEMMA MoveLeaves ==
  ASSUME PlacesInv, LinksInv, NEW i \in Insts, NEW v \in Vols, NEW failing,
         recon.phase = "pointers", <<i, v>> \in recon.todo, MoveToTarget(i, v, failing)
  PROVE  \E loses \in BOOLEAN :
           LET q == IF loses THEN [recon EXCEPT !.ii[i] = WithoutShare(recon.ii[i], v)] ELSE recon
           IN /\ loses => recon.ii[i] = instanceInfo[i]
              /\ instanceInfo' = IF loses THEN [instanceInfo EXCEPT ![i] = WithoutShare(recon.ii[i], v)]
                                          ELSE instanceInfo
              /\ recon' = AfterPointers(Done(q, <<i, v>>))
              /\ shareInfo' = shareInfo
<1> DEFINE j == recon.si[v].handle
           needed == ~recon.si[v].deleting /\ v \notin recon.ii[j].shares
           found == recon.ii[j].exists
           gains == /\ needed /\ j \notin failing
                    /\ IF found THEN CurrentInstance(j, recon.ii[j])
                                ELSE ~instanceInfo[j].exists /\ recon.si[v].pool
           loses == (needed => gains) /\ i \notin failing /\ CurrentInstance(i, recon.ii[i])
           written == [x \in Insts |->
             CASE x = j /\ gains -> WithShare(IF found THEN recon.ii[j] ELSE NewInstanceInfo(MinCap), v)
               [] x = i /\ loses -> WithoutShare(recon.ii[i], v)
               [] OTHER -> NoInstanceInfo]
           Updated(infos) == [x \in Insts |-> IF written[x].exists THEN written[x] ELSE infos[x]]
<1>1. /\ instanceInfo' = Updated(instanceInfo)
      /\ recon' = AfterPointers(Done([recon EXCEPT !.ii = Updated(@)], <<i, v>>))
      /\ shareInfo' = shareInfo /\ j # NoInst
  BY Zenon DEF MoveToTarget
<1>2. /\ recon.si[v] \in ShareInfoRec /\ recon \in RoundRec /\ recon.ii \in [Insts -> InstanceInfoRec]
      /\ instanceInfo \in [Insts -> InstanceInfoRec]
      /\ RoundFits(recon, instanceInfo, share, ops)
  BY TypeParts, LinksAre DEF PlacesInv, RoundRec
<1>3. j \in Insts /\ recon.si[v].exists /\ j # i /\ v \in recon.ii[i].shares
  BY <1>1, <1>2 DEF ShareInfoRec, RoundFits
<1>4. LinkFor(recon.si[v], j, v)
  BY <1>3, LinksAre DEF Copies
<1>5. ~gains
  <2> SUFFICES ASSUME needed PROVE IF found THEN FALSE ELSE ~(~instanceInfo[j].exists /\ recon.si[v].pool)
    OBVIOUS
  <2>1. PointsTo(recon.si[v], j)
    BY <1>3 DEF PointsTo
  <2>2. found => recon.ii[j] = instanceInfo[j]
    BY <1>2, <1>3 DEF RoundFits, ReadsObjects
  <2>3. found => v \in recon.ii[j].shares
    BY <1>4, <2>1, <2>2 DEF LinkFor
  <2>4. ~instanceInfo[j].exists => ~recon.si[v].pool
    BY <1>4, <2>1 DEF LinkFor
  <2> QED
    BY <2>3, <2>4
<1>6. WithoutShare(recon.ii[i], v).exists = recon.ii[i].exists /\ ~NoInstanceInfo.exists
  BY <1>2 DEF WithoutShare, InstanceInfoRec, NoInstanceInfo
<1>7. loses => recon.ii[i] = instanceInfo[i] /\ recon.ii[i].exists
  BY DEF CurrentInstance
<1> HIDE DEF loses, gains
<1>8. written = [x \in Insts |-> IF x = i /\ loses THEN WithoutShare(recon.ii[i], v) ELSE NoInstanceInfo]
  BY <1>5
<1> HIDE DEF written
<1>9. ASSUME NEW infos \in [Insts -> InstanceInfoRec]
      PROVE  Updated(infos) = IF loses THEN [infos EXCEPT ![i] = WithoutShare(recon.ii[i], v)] ELSE infos
  BY <1>6, <1>7, <1>8
<1>10. [recon EXCEPT !.ii = Updated(recon.ii)]
         = IF loses THEN [recon EXCEPT !.ii[i] = WithoutShare(recon.ii[i], v)] ELSE recon
  <2>1. Updated(recon.ii) = IF loses THEN [recon.ii EXCEPT ![i] = WithoutShare(recon.ii[i], v)] ELSE recon.ii
    BY <1>2, <1>9
  <2> HIDE DEF Updated
  <2>2. CASE loses
    BY <2>1, <2>2
  <2>3. CASE ~loses
    BY <1>2, <2>1, <2>3 DEF RoundRec
  <2> QED
    BY <2>2, <2>3
<1>11. instanceInfo' = IF loses THEN [instanceInfo EXCEPT ![i] = WithoutShare(recon.ii[i], v)] ELSE instanceInfo
  BY <1>1, <1>2, <1>9
<1>12. recon' = AfterPointers(Done(IF loses THEN [recon EXCEPT !.ii[i] = WithoutShare(recon.ii[i], v)]
                                            ELSE recon, <<i, v>>))
  <2>1. recon' = AfterPointers(Done([recon EXCEPT !.ii = Updated(recon.ii)], <<i, v>>))
    BY <1>1
  <2> HIDE DEF Updated
  <2> QED
    BY <1>10, <2>1
<1>13. loses \in BOOLEAN
  BY DEF loses
<1> QED
  BY <1>1, <1>7, <1>11, <1>12, <1>13

LEMMA MoveKeepsLinks ==
  ASSUME ~CacheLags, PlacesInv, TypeOK', LinksInv, NEW i \in Insts, NEW v \in Vols, NEW failing,
         recon.phase = "pointers", <<i, v>> \in recon.todo, MoveToTarget(i, v, failing),
         UNCHANGED cloudVars, RoundLeavesAlone
  PROVE  LinksInv'
<1>1. PICK loses \in BOOLEAN :
        LET q == IF loses THEN [recon EXCEPT !.ii[i] = WithoutShare(recon.ii[i], v)] ELSE recon
        IN /\ loses => recon.ii[i] = instanceInfo[i]
           /\ instanceInfo' = IF loses THEN [instanceInfo EXCEPT ![i] = WithoutShare(recon.ii[i], v)]
                                       ELSE instanceInfo
           /\ recon' = AfterPointers(Done(q, <<i, v>>))
           /\ shareInfo' = shareInfo
  BY MoveLeaves, Zenon
<1> DEFINE q == IF loses THEN [recon EXCEPT !.ii[i] = WithoutShare(recon.ii[i], v)] ELSE recon
           r == Done(q, <<i, v>>)
           less == WithoutShare(recon.ii[i], v)
<1>2. /\ TypeOK /\ recon \in RoundRec /\ instanceInfo \in [Insts -> InstanceInfoRec]
      /\ recon.ii \in [Insts -> InstanceInfoRec] /\ recon.si[v] \in ShareInfoRec
      /\ RoundFits(recon, instanceInfo, share, ops) /\ pv' = pv
      /\ share' = share /\ instance' = instance /\ ops' = ops
  BY TypeParts, LinksAre DEF PlacesInv, RoundRec, RoundLeavesAlone, cloudVars
<1>3. /\ less \in InstanceInfoRec /\ less.exists = recon.ii[i].exists /\ less.deleting = recon.ii[i].deleting
      /\ less.shares = recon.ii[i].shares \ {v}
  BY <1>2 DEF WithoutShare, InstanceInfoRec
<1> HIDE DEF less
<1>4. /\ q \in RoundRec /\ q.phase = "pointers" /\ q.onInst = recon.onInst
      /\ q.todo = recon.todo /\ q.si = recon.si /\ WorkFits(q)
      /\ q.ii = IF loses THEN [recon.ii EXCEPT ![i] = less] ELSE recon.ii
  BY <1>2, <1>3 DEF RoundRec, WorkFits, less
<1> HIDE DEF q
<1>5. /\ r \in RoundRec /\ r.phase = "pointers" /\ r.phase \in ReadsObjects
      /\ r.ii = q.ii /\ r.onInst = recon.onInst /\ r.si = recon.si /\ r.todo = recon.todo \ {<<i, v>>}
  BY <1>4, DoneFits DEF Done, RoundRec, ReadsObjects
<1>6. Walks(recon', r)
  BY <1>1, <1>5, PointersWalk DEF q
<1> HIDE DEF r
<1>7. \A x \in Insts : /\ r.ii[x] = IF loses /\ x = i THEN less ELSE recon.ii[x]
                       /\ instanceInfo'[x] = IF loses /\ x = i THEN less ELSE instanceInfo[x]
  BY <1>1, <1>2, <1>4, <1>5 DEF less
<1>8. /\ recon.si[v].handle \in Insts /\ recon.si[v].handle # i
      /\ loses => recon.ii[i] = instanceInfo[i]
  <2>1. recon.si[v].handle # NoInst
    BY DEF MoveToTarget
  <2> QED
    BY <1>1, <1>2, <2>1 DEF ShareInfoRec, RoundFits
<1>9. RoundFits(r, instanceInfo', share', ops')
  <2>1. ASSUME NEW x \in Insts
        PROVE  /\ r.ii[x].exists => r.ii[x] = instanceInfo'[x] /\ instanceInfo'[x].exists
               /\ r.ii[x].deleting => instanceInfo'[x].deleting
               /\ r.ii[x].shares # {} => r.ii[x].exists
               /\ \A w \in Vols : <<x, w>> \in r.todo =>
                    w \in r.ii[x].shares /\ r.si[w].exists /\ r.si[w].handle # x
    <3>1. /\ recon.ii[x].exists => recon.ii[x] = instanceInfo[x] /\ instanceInfo[x].exists
          /\ recon.ii[x].deleting => instanceInfo[x].deleting
          /\ recon.ii[x].shares # {} => recon.ii[x].exists
      BY <1>2 DEF RoundFits, ReadsObjects
    <3>2. \A w \in Vols : <<x, w>> \in r.todo =>
            /\ <<x, w>> \in recon.todo /\ ~(x = i /\ w = v)
            /\ w \in recon.ii[x].shares /\ recon.si[w].exists /\ recon.si[w].handle # x
      BY <1>2, <1>5 DEF RoundFits
    <3> QED
      BY <1>3, <1>5, <1>7, <1>8, <3>1, <3>2
  <2> QED
    BY <1>2, <1>5, <2>1 DEF RoundFits, ReadsObjects, SendsRequests, ToBeSent
<1>10. v \notin SharesOf(i) /\ \A s \in Copies(v) : s.handle # i
  BY <1>8, OnePlace DEF Copies
<1>11. ASSUME NEW x \in Insts PROVE InstanceLinks(x)'
  <2>1. InstanceLinks(x) /\ SharesOf(x)' = SharesOf(x)
    BY <1>2 DEF LinksInv, SharesOf
  <2>2. CASE loses /\ x = i
    BY <1>2, <1>3, <1>7, <1>8, <1>10, <2>1, <2>2 DEF InstanceLinks
  <2>3. CASE ~(loses /\ x = i)
    BY <1>2, <1>7, <2>1, <2>3 DEF InstanceLinks
  <2> QED
    BY <2>2, <2>3
<1>12. ASSUME NEW w \in Vols, NEW s \in Copies(w) \cup {shareInfo'[w], r.si[w]}
       PROVE  Marked(s, w)' /\ \A x \in Insts : LinkFor(s, x, w)'
  <2>1. s \in Copies(w)
    BY <1>1, <1>5 DEF Copies
  <2>2. Marked(s, w)'
    BY <1>1, <1>2, <2>1, MarksStay
  <2>3. ASSUME NEW x \in Insts PROVE LinkFor(s, x, w)'
    <3>1. LinkFor(s, x, w) /\ Listed(x)' = Listed(x) /\ SharesOf(x)' = SharesOf(x)
      BY <1>2, <2>1, LinksAre DEF Listed, SharesOf
    <3>2. CASE loses /\ x = i
      <4>1. PointsTo(s, i) => w # v
        BY <1>10, <2>1 DEF PointsTo
      <4> QED
        BY <1>3, <1>7, <1>8, <3>1, <3>2, <4>1 DEF LinkFor
    <3>3. CASE ~(loses /\ x = i)
      BY <1>7, <3>1, <3>3 DEF LinkFor
    <3> QED
      BY <3>2, <3>3
  <2> QED
    BY <2>2, <2>3
<1>13. ASSUME NEW o \in ops' PROVE OpStays(o)'
  <2>1. OpStays(o) /\ o.inst \in Insts
    BY <1>2, LinksAre, TypeParts, OpShape
  <2>2. instanceInfo[o.inst].exists => instanceInfo'[o.inst].exists
    BY <1>3, <1>7, <1>8, <2>1
  <2> QED
    BY <1>2, <2>1, <2>2 DEF OpStays, Shows, RunsAlone, Listed
<1> QED
  BY <1>2, <1>5, <1>6, <1>9, <1>11, <1>12, <1>13, WorkStep

LEMMA PointersKeepLinks ==
  ASSUME ~CacheLags, PlacesInv, PlacesInv', LinksInv, NEW i \in Insts, NEW v \in Vols,
         FixTwoWayPointers(i, v)
  PROVE  LinksInv'
BY PointBackKeepsLinks, MoveKeepsLinks DEF FixTwoWayPointers, PlacesInv

\* One piece of the work less.
LEMMA DoneRound ==
  ASSUME NEW r \in RoundRec, NEW x
  PROVE  /\ Done(r, x) \in RoundRec /\ Done(r, x).phase = r.phase /\ Done(r, x).si = r.si
         /\ Done(r, x).ii = r.ii /\ Done(r, x).onInst = r.onInst /\ Done(r, x).targets = r.targets
         /\ Done(r, x).shares = r.shares /\ Done(r, x).todo = r.todo \ {x}
BY DEF Done, RoundRec

\* A share is listed on an instance that takes shares, or on a new one (new is what its
\* InstanceInfo becomes, q the round before the walk), and may be made to point to it.
Assigns(v, i, pointed, new, q) ==
  /\ pointed \in BOOLEAN /\ new \in InstanceInfoRec /\ new.exists /\ ~new.deleting
  /\ \/ FreshName(i)
     \/ instanceInfo[i].exists /\ ~instanceInfo[i].deleting /\ instanceInfo[i].shares \subseteq new.shares
  /\ pointed => CurrentShare(v, recon.si[v]) /\ recon.si[v].handle = NoInst /\ v \in new.shares
  /\ instanceInfo' = [instanceInfo EXCEPT ![i] = new]
  /\ shareInfo' = IF pointed THEN [shareInfo EXCEPT ![v] = PointTo(v, i)] ELSE shareInfo
  /\ q \in RoundRec /\ q.phase = "assign" /\ q.onInst = recon.onInst
  /\ q.si = IF pointed THEN [recon.si EXCEPT ![v] = PointTo(v, i)] ELSE recon.si
  /\ q.ii = [recon.ii EXCEPT ![i] = new] \/ (q.ii = recon.ii /\ ~recon.ii[i].exists)
  /\ recon' = AfterAssign(Done(q, v))

LEMMA AssignedLinks ==
  ASSUME ~CacheLags, PlacesInv, TypeOK', LinksInv, recon.phase = "assign",
         NEW v \in Vols, NEW i \in Insts, NEW pointed, NEW new, NEW q, Assigns(v, i, pointed, new, q),
         UNCHANGED cloudVars, RoundLeavesAlone
  PROVE  LinksInv'
<1> USE DEF Assigns
<1> DEFINE r == Done(q, v)
<1>1. /\ TypeOK /\ recon \in RoundRec /\ instanceInfo \in [Insts -> InstanceInfoRec]
      /\ shareInfo \in [Vols -> ShareInfoRec] /\ recon.si \in [Vols -> ShareInfoRec]
      /\ recon.ii \in [Insts -> InstanceInfoRec]
      /\ RoundFits(recon, instanceInfo, share, ops) /\ pv' = pv
      /\ share' = share /\ instance' = instance /\ ops' = ops
  BY TypeParts, LinksAre DEF PlacesInv, RoundRec, RoundLeavesAlone, cloudVars
<1>2. /\ r \in RoundRec /\ r.phase = "assign" /\ r.phase \in ReadsObjects
      /\ r.ii = q.ii /\ r.onInst = recon.onInst /\ r.si = q.si
  BY DoneRound DEF ReadsObjects
<1>3. Walks(recon', r)
  BY <1>2, PointersWalk
<1> HIDE DEF r
<1>4. pointed => /\ recon.si[v] = shareInfo[v] /\ PointTo(v, i).exists /\ PointTo(v, i).handle = i
                 /\ shareInfo[v].exists /\ PointTo(v, i).deleting = shareInfo[v].deleting
  <2>1. PointTo(v, i).deleting = recon.si[v].deleting
    BY <1>1 DEF PointTo, ShareInfoRec
  <2> QED
    BY <1>1, <2>1, CurrentUnplaced DEF CurrentShare
<1>5. \A x \in Insts : /\ instanceInfo'[x] = IF x = i THEN new ELSE instanceInfo[x]
                       /\ x # i => r.ii[x] = recon.ii[x]
                       /\ r.ii[i] = new \/ (r.ii[i] = recon.ii[i] /\ ~recon.ii[i].exists)
  BY <1>1, <1>2
<1>6. \A w \in Vols : r.si[w] = IF pointed /\ w = v THEN PointTo(v, i) ELSE recon.si[w]
  BY <1>1, <1>2
<1>7. RoundFits(r, instanceInfo', share', ops')
  <2>1. ASSUME NEW x \in Insts
        PROVE  /\ r.ii[x].exists => r.ii[x] = instanceInfo'[x] /\ instanceInfo'[x].exists
               /\ r.ii[x].deleting => instanceInfo'[x].deleting
               /\ r.ii[x].shares # {} => r.ii[x].exists
    <3>1. /\ recon.ii[x].exists => recon.ii[x] = instanceInfo[x] /\ instanceInfo[x].exists
          /\ recon.ii[x].deleting => instanceInfo[x].deleting
          /\ recon.ii[x].shares # {} => recon.ii[x].exists
      BY <1>1 DEF RoundFits, ReadsObjects
    <3>2. recon.ii[i].deleting => instanceInfo[i].deleting
      BY <1>1 DEF RoundFits
    <3>3. instanceInfo[i].deleting => instanceInfo[i].exists
      BY DEF LinksInv, InstanceLinks
    <3> QED
      BY <1>5, <3>1, <3>2, <3>3 DEF FreshName
  <2> QED
    BY <1>1, <1>2, <2>1 DEF RoundFits, ReadsObjects, SendsRequests, ToBeSent
<1>8. ASSUME NEW x \in Insts PROVE InstanceLinks(x)'
  <2>1. InstanceLinks(x) /\ SharesOf(x)' = SharesOf(x)
    BY <1>1 DEF LinksInv, SharesOf
  <2>2. CASE x = i
    <3>1. instance[i].state # "DELETING" /\ SharesOf(i) \subseteq new.shares
      BY <2>1, <2>2 DEF InstanceLinks, FreshName
    <3> QED
      BY <1>1, <1>5, <2>1, <2>2, <3>1 DEF InstanceLinks
  <2>3. CASE x # i
    BY <1>1, <1>5, <2>1, <2>3 DEF InstanceLinks
  <2> QED
    BY <2>2, <2>3
<1>9. ASSUME NEW w \in Vols
      PROVE  shareInfo'[w].exists = shareInfo[w].exists /\ shareInfo'[w].deleting = shareInfo[w].deleting
  BY <1>1, <1>4
<1>10. ASSUME NEW w \in Vols, NEW s \in Copies(w) \cup {shareInfo'[w], r.si[w]}
       PROVE  Marked(s, w)' /\ \A x \in Insts : LinkFor(s, x, w)'
  <2>1. s \in Copies(w) \/ (w = v /\ pointed /\ s = PointTo(v, i))
    BY <1>1, <1>6 DEF Copies
  <2>2. CASE s \in Copies(w)
    <3>1. Marked(s, w)'
      BY <1>1, <1>9, <2>2, MarksStay
    <3>2. ASSUME NEW x \in Insts PROVE LinkFor(s, x, w)'
      <4>1. LinkFor(s, x, w) /\ Listed(x)' = Listed(x) /\ SharesOf(x)' = SharesOf(x)
        BY <1>1, <2>2, LinksAre DEF Listed, SharesOf
      <4>2. FreshName(i) => ~PointsTo(s, i)
        BY <2>2 DEF FreshName, Copies, PointsTo
      <4> QED
        BY <1>5, <4>1, <4>2 DEF LinkFor
    <3> QED
      BY <3>1, <3>2
  <2>3. CASE w = v /\ pointed /\ s = PointTo(v, i)
    <3>1. ASSUME NEW t, t = shareInfo[v] PROVE Marked(t, v)'
      BY <1>1, <1>9, <3>1, MarksStay DEF Copies
    <3>2. Marked(s, w)'
      BY <1>4, <2>3, <3>1 DEF Marked
    <3>3. ASSUME NEW x \in Insts PROVE LinkFor(s, x, w)'
      BY <1>4, <1>5, <2>3 DEF LinkFor, PointsTo
    <3> QED
      BY <3>2, <3>3
  <2> QED
    BY <2>1, <2>2, <2>3
<1>11. ASSUME NEW o \in ops' PROVE OpStays(o)'
  <2>1. OpStays(o) /\ o.inst \in Insts
    BY <1>1, LinksAre, TypeParts, OpShape
  <2>2. instanceInfo[o.inst].exists => instanceInfo'[o.inst].exists
    BY <1>5, <2>1
  <2> QED
    BY <1>1, <2>1, <2>2 DEF OpStays, Shows, RunsAlone, Listed
<1> QED
  BY <1>1, <1>2, <1>3, <1>7, <1>8, <1>10, <1>11, WorkStep

\* A step that changes no object and starts nothing.
LEMMA IdleWork ==
  ASSUME ~CacheLags, TypeOK, TypeOK', LinksInv, RoundLeavesAlone,
         UNCHANGED <<cloudVars, objectVars>>,
         NEW r \in RoundRec, r.phase \in ReadsObjects \cup SendsRequests, Walks(recon', r), r.si = recon.si,
         RoundFits(r, instanceInfo, share, ops)
  PROVE  LinksInv'
<1>1. shareInfo' = shareInfo /\ instanceInfo' = instanceInfo /\ cloudVars' = cloudVars /\ pv' = pv
  BY DEF objectVars, RoundLeavesAlone
<1>2. ASSUME NEW w \in Vols, NEW s \in Copies(w) \cup {shareInfo'[w], r.si[w]}
      PROVE  Marked(s, w)' /\ \A j \in Insts : LinkFor(s, j, w)'
  <2>1. s \in Copies(w)
    BY <1>1 DEF Copies
  <2> QED
    BY <1>1, <2>1, CloudStays, LinkStays, LinksAre, MarksStay
<1> QED
  BY <1>1, <1>2, CloudStays, WorkStep

LEMMA AssignToKeepsLinks ==
  ASSUME ~CacheLags, PlacesInv, TypeOK', LinksInv, recon.phase = "assign", NEW v \in Vols, v \in recon.todo,
         NEW i \in Insts, NEW ii \in InstanceInfoRec, ii.exists, ~ii.deleting,
         FreshName(i) \/ ii = instanceInfo[i],
         NEW failing, AssignTo(i, v, ii, failing), UNCHANGED cloudVars, RoundLeavesAlone
  PROVE  LinksInv'
<1> DEFINE pointed == v \notin failing /\ CurrentShare(v, recon.si[v])
           new == WithShare(ii, v)
           q == [recon EXCEPT !.ii[i] = new, !.si[v] = IF pointed THEN PointTo(v, i) ELSE @]
<1>1. /\ instanceInfo' = [instanceInfo EXCEPT ![i] = new]
      /\ shareInfo' = IF pointed THEN [shareInfo EXCEPT ![v] = PointTo(v, i)] ELSE shareInfo
      /\ recon' = AfterAssign(Done(q, v))
  BY DEF AssignTo
<1>2. /\ recon \in RoundRec /\ recon.si[v] \in ShareInfoRec /\ recon.si \in [Vols -> ShareInfoRec]
      /\ recon.si[v].handle = NoInst /\ TypeOK
  BY TypeParts DEF PlacesInv, RoundRec, WorkFits
<1>3. /\ new \in InstanceInfoRec /\ new.exists /\ ~new.deleting /\ v \in new.shares
      /\ ii.shares \subseteq new.shares
  BY DEF WithShare, InstanceInfoRec
<1>4. pointed => PointTo(v, i) \in ShareInfoRec
  BY <1>2, CurrentUnplaced
<1> HIDE DEF new
<1>5. /\ q \in RoundRec /\ q.phase = "assign" /\ q.onInst = recon.onInst
      /\ q.si = IF pointed THEN [recon.si EXCEPT ![v] = PointTo(v, i)] ELSE recon.si
      /\ q.ii = [recon.ii EXCEPT ![i] = new]
  BY <1>2, <1>3, <1>4 DEF RoundRec
<1>6. pointed => CurrentShare(v, recon.si[v])
  OBVIOUS
<1> HIDE DEF q, pointed
<1>7. Assigns(v, i, pointed, new, q)
  <2>1. pointed \in BOOLEAN
    BY DEF pointed
  <2> QED
    BY <1>1, <1>2, <1>3, <1>5, <1>6, <2>1 DEF Assigns
<1> QED
  BY <1>7, AssignedLinks

LEMMA AssignKeepsLinks ==
  ASSUME ~CacheLags, PlacesInv, PlacesInv', LinksInv, NEW v \in Vols, AssignShare(v) PROVE LinksInv'
<1>1. /\ TypeOK /\ TypeOK' /\ recon.phase = "assign" /\ v \in recon.todo /\ recon \in RoundRec
      /\ UNCHANGED cloudVars /\ RoundLeavesAlone /\ recon.ii \in [Insts -> InstanceInfoRec]
      /\ RoundFits(recon, instanceInfo, share, ops) /\ MinCap \in Nat
  BY TypeParts, LinksAre, InfoAssumption DEF AssignShare, PlacesInv, RoundRec
<1>2. NewInstanceInfo(MinCap) \in InstanceInfoRec /\ NewInstanceInfo(MinCap).exists
      /\ ~NewInstanceInfo(MinCap).deleting /\ NewInstanceInfo(MinCap).shares = {}
  BY <1>1, NoneType DEF NewInstanceInfo, NoInstanceInfo
<1>3. ASSUME recon' = AfterAssign(Done(recon, v)), UNCHANGED objectVars PROVE LinksInv'
  <2> DEFINE r == Done(recon, v)
  <2>1. /\ r \in RoundRec /\ r.phase = "assign" /\ r.ii = recon.ii /\ r.onInst = recon.onInst
        /\ r.si = recon.si
    BY <1>1, DoneRound
  <2>2. r.phase \in ReadsObjects
    BY <2>1 DEF ReadsObjects
  <2>3. Walks(recon', r)
    BY <1>3, <2>1, <2>2, PointersWalk
  <2> HIDE DEF r
  <2>4. RoundFits(r, instanceInfo, share, ops)
    BY <1>1, <2>1 DEF RoundFits, ReadsObjects, SendsRequests, ToBeSent
  <2> QED
    BY <1>1, <1>3, <2>1, <2>2, <2>3, <2>4, IdleWork
<1>4. CASE AssignToEligible(v)
  <2>1. PICK i \in Fits : \E failing \in SUBSET {v} : AssignTo(i, v, recon.ii[i], failing)
    BY <1>4 DEF AssignToEligible
  <2>2. PICK failing \in SUBSET {v} : AssignTo(i, v, recon.ii[i], failing)
    BY <2>1
  <2>3. i \in Insts /\ recon.ii[i].exists /\ ~recon.ii[i].deleting
    BY <2>1 DEF Fits, InstanceFitShare
  <2>4. recon.ii[i] \in InstanceInfoRec /\ recon.ii[i] = instanceInfo[i]
    BY <1>1, <2>3 DEF RoundFits, ReadsObjects
  <2> QED
    BY <1>1, <2>2, <2>3, <2>4, AssignToKeepsLinks
<1>5. CASE AssignmentFails(v)
  BY <1>3, <1>5 DEF AssignmentFails
<1>6. CASE AssignToNew(v)
  <2>1. CASE \E i \in Insts : FreshName(i) /\ \E failing \in SUBSET {v} : AssignTo(i, v, NewInstanceInfo(MinCap), failing)
    BY <1>1, <1>2, <2>1, AssignToKeepsLinks
  <2>2. CASE recon' = AfterAssign(Done(recon, v)) /\ UNCHANGED objectVars
    BY <1>3, <2>2
  <2>3. CASE /\ recon' = AfterAssign(Done(recon, v))
             /\ \E i \in Insts : /\ FreshName(i)
                                 /\ instanceInfo' = [instanceInfo EXCEPT ![i] = NewInstanceInfo(MinCap)]
                                 /\ UNCHANGED shareInfo
    <3>1. PICK i \in Insts : /\ FreshName(i)
                             /\ instanceInfo' = [instanceInfo EXCEPT ![i] = NewInstanceInfo(MinCap)]
                             /\ UNCHANGED shareInfo
      BY <2>3
    <3>2. ~recon.ii[i].exists
      BY <3>1 DEF FreshName
    <3>3. Assigns(v, i, FALSE, NewInstanceInfo(MinCap), recon)
      BY <1>1, <1>2, <2>3, <3>1, <3>2 DEF Assigns
    <3> QED
      BY <1>1, <3>3, AssignedLinks
  <2> QED
    BY <1>6, <2>1, <2>2, <2>3 DEF AssignToNew, objectVars
<1> QED
  BY <1>4, <1>5, <1>6 DEF AssignShare

-----------------------------------------------------------------------------
(* Empty instances are marked for deletion, the others resized. *)

\* Before the walk: only the deletion of an empty InstanceInfo is noticed by anyone.
LEMMA ResizeLeaves ==
  ASSUME PlacesInv, LinksInv, DeleteOrResizeInstances
  PROVE  \E r \in RoundRec :
           /\ r.phase = "instances" /\ recon' = AfterInstances(r)
           /\ r.si = recon.si /\ r.onInst = recon.onInst /\ r.targets = OperationTargets
           /\ \A i \in Insts :
                /\ r.ii[i].exists = recon.ii[i].exists /\ r.ii[i].deleting = recon.ii[i].deleting
                /\ r.ii[i].shares = recon.ii[i].shares /\ (i \in r.todo => r.ii[i].exists)
                /\ instanceInfo'[i].exists = instanceInfo[i].exists
                /\ instanceInfo'[i].shares = instanceInfo[i].shares
                /\ \/ instanceInfo'[i].deleting = instanceInfo[i].deleting
                   \/ instanceInfo'[i].deleting /\ instanceInfo[i].exists /\ instanceInfo[i].shares = {}
                /\ r.ii[i].spec = recon.ii[i].spec \/ (recon.ii[i].exists /\ r.ii[i].spec = instanceInfo'[i].spec)
                /\ \/ instanceInfo'[i].spec = instanceInfo[i].spec
                   \/ /\ instanceInfo[i].exists /\ recon.ii[i] = instanceInfo[i]
                      /\ instanceInfo'[i].spec = NewCapacity(instanceInfo[i])
<1> DEFINE considered == {i \in Insts : recon.ii[i].exists /\ ~recon.ii[i].deleting}
           emptied == {i \in considered : InstanceEmpty(recon.ii[i])}
           resized == {i \in considered : /\ recon.ii[i].shares # {}
                                          /\ NewCapacity(recon.ii[i]) # recon.ii[i].spec}
           Resized(i) == [recon.ii[i] EXCEPT !.spec = NewCapacity(recon.ii[i])]
<1>1. /\ TypeOK /\ recon \in RoundRec /\ recon.ii \in [Insts -> InstanceInfoRec]
      /\ instanceInfo \in [Insts -> InstanceInfoRec] /\ recon.phase = "resize"
      /\ RoundFits(recon, instanceInfo, share, ops)
  BY TypeParts, LinksAre DEF PlacesInv, DeleteOrResizeInstances, RoundRec
<1>2. \E failing : LET accepted == {i \in resized \ failing : CurrentInstance(i, recon.ii[i])}
                   IN /\ instanceInfo' = [i \in Insts |->
                           CASE i \in accepted -> Resized(i)
                             [] i \in emptied \ failing -> MarkedForDeletion(instanceInfo[i])
                             [] OTHER -> instanceInfo[i]]
                      /\ recon' = StartRequests([recon EXCEPT
                           !.ii = [i \in Insts |-> IF i \in accepted THEN Resized(i) ELSE @[i]],
                           !.targets = OperationTargets])
  BY Zenon DEF DeleteOrResizeInstances
<1>3. PICK accepted \in SUBSET resized, marked \in SUBSET emptied :
        /\ instanceInfo' = [i \in Insts |-> CASE i \in accepted -> Resized(i)
                                              [] i \in marked -> MarkedForDeletion(instanceInfo[i])
                                              [] OTHER -> instanceInfo[i]]
        /\ recon' = StartRequests([recon EXCEPT
             !.ii = [i \in Insts |-> IF i \in accepted THEN Resized(i) ELSE @[i]],
             !.targets = OperationTargets])
  <2>1. PICK failing : LET accepted == {i \in resized \ failing : CurrentInstance(i, recon.ii[i])}
                       IN /\ instanceInfo' = [i \in Insts |->
                               CASE i \in accepted -> Resized(i)
                                 [] i \in emptied \ failing -> MarkedForDeletion(instanceInfo[i])
                                 [] OTHER -> instanceInfo[i]]
                          /\ recon' = StartRequests([recon EXCEPT
                               !.ii = [i \in Insts |-> IF i \in accepted THEN Resized(i) ELSE @[i]],
                               !.targets = OperationTargets])
    BY <1>2
  <2>2. /\ {i \in resized \ failing : CurrentInstance(i, recon.ii[i])} \in SUBSET resized
        /\ emptied \ failing \in SUBSET emptied
    OBVIOUS
  <2> HIDE DEF resized, emptied, Resized
  <2> QED
    BY <2>1, <2>2, Zenon
<1> DEFINE jj == [i \in Insts |-> IF i \in accepted THEN Resized(i) ELSE recon.ii[i]]
           q == [recon EXCEPT !.ii = jj, !.targets = OperationTargets]
           r == [q EXCEPT !.phase = "instances", !.todo = {i \in Insts : InstanceNeedsRequest(q.ii[i])}]
<1>4. ASSUME NEW i \in Insts
      PROVE  /\ Resized(i) \in InstanceInfoRec /\ Resized(i).exists = recon.ii[i].exists
             /\ Resized(i).deleting = recon.ii[i].deleting /\ Resized(i).shares = recon.ii[i].shares
             /\ Resized(i).spec = NewCapacity(recon.ii[i])
  <2>1. NewCapacity(recon.ii[i]) \in Nat
    BY <1>1, CapacityType
  <2>2. recon.ii[i] \in InstanceInfoRec
    BY <1>1
  <2> QED
    BY <2>1, <2>2 DEF InstanceInfoRec
<1>5. ASSUME NEW i \in Insts
      PROVE  /\ i \in accepted \cup marked => /\ recon.ii[i] = instanceInfo[i] /\ instanceInfo[i].exists
             /\ i \in marked => instanceInfo[i].shares = {}
  <2>1. i \in accepted \cup marked => recon.ii[i].exists
    OBVIOUS
  <2>2. i \in accepted \cup marked => recon.ii[i] = instanceInfo[i]
    BY <1>1, <2>1 DEF RoundFits, ReadsObjects
  <2> QED
    BY <2>1, <2>2 DEF InstanceEmpty
<1> HIDE DEF Resized
<1>6. jj \in [Insts -> InstanceInfoRec]
      /\ \A i \in Insts : jj[i] = IF i \in accepted THEN Resized(i) ELSE recon.ii[i]
  BY <1>1, <1>4
<1> HIDE DEF jj
<1>7. OperationTargets \in SUBSET (Insts \X (Vols \cup {NoVol}))
  BY <1>1, TypeParts, OpShape DEF OperationTargets
<1>8. /\ r \in RoundRec /\ r.phase = "instances" /\ r.si = recon.si /\ r.onInst = recon.onInst
      /\ r.targets = OperationTargets /\ r.ii = jj
      /\ \A i \in Insts : i \in r.todo => r.ii[i].exists
  <2>1. /\ q \in RoundRec /\ q.ii = jj /\ q.si = recon.si /\ q.onInst = recon.onInst
        /\ q.targets = OperationTargets
    BY <1>1, <1>6, <1>7 DEF RoundRec
  <2>2. \A i \in Insts : InstanceNeedsRequest(q.ii[i]) => q.ii[i].exists
    BY DEF InstanceNeedsRequest
  <2> HIDE DEF q
  <2>3. /\ r \in RoundRec /\ r.phase = "instances" /\ r.si = q.si /\ r.onInst = q.onInst
        /\ r.targets = q.targets /\ r.ii = q.ii /\ r.todo = {i \in Insts : InstanceNeedsRequest(q.ii[i])}
    BY <2>1 DEF RoundRec, RoundPhases
  <2> QED
    BY <2>1, <2>2, <2>3
<1>9. recon' = AfterInstances(r)
  BY <1>3 DEF StartRequests, jj
<1> HIDE DEF r
<1>10. ASSUME NEW i \in Insts
       PROVE  /\ r.ii[i].exists = recon.ii[i].exists /\ r.ii[i].deleting = recon.ii[i].deleting
              /\ r.ii[i].shares = recon.ii[i].shares /\ (i \in r.todo => r.ii[i].exists)
              /\ instanceInfo'[i].exists = instanceInfo[i].exists
              /\ instanceInfo'[i].shares = instanceInfo[i].shares
              /\ \/ instanceInfo'[i].deleting = instanceInfo[i].deleting
                 \/ instanceInfo'[i].deleting /\ instanceInfo[i].exists /\ instanceInfo[i].shares = {}
              /\ r.ii[i].spec = recon.ii[i].spec \/ (recon.ii[i].exists /\ r.ii[i].spec = instanceInfo'[i].spec)
              /\ \/ instanceInfo'[i].spec = instanceInfo[i].spec
                 \/ /\ instanceInfo[i].exists /\ recon.ii[i] = instanceInfo[i]
                    /\ instanceInfo'[i].spec = NewCapacity(instanceInfo[i])
  <2>1. /\ r.ii[i].exists = recon.ii[i].exists /\ r.ii[i].deleting = recon.ii[i].deleting
        /\ r.ii[i].shares = recon.ii[i].shares
    BY <1>4, <1>6, <1>8
  <2>2. instanceInfo'[i] = CASE i \in accepted -> Resized(i)
                             [] i \in marked -> MarkedForDeletion(instanceInfo[i])
                             [] OTHER -> instanceInfo[i]
    BY <1>3
  <2>3. instanceInfo[i].exists =>
          /\ MarkedForDeletion(instanceInfo[i]).exists /\ MarkedForDeletion(instanceInfo[i]).deleting
          /\ MarkedForDeletion(instanceInfo[i]).shares = instanceInfo[i].shares
          /\ MarkedForDeletion(instanceInfo[i]).spec = instanceInfo[i].spec
    <3>1. instanceInfo[i] \in InstanceInfoRec
      BY <1>1
    <3> QED
      BY <3>1 DEF MarkedForDeletion, InstanceInfoRec
  <2>4. /\ i \in accepted => r.ii[i].spec = instanceInfo'[i].spec /\ instanceInfo'[i].spec = NewCapacity(recon.ii[i])
        /\ i \notin accepted => r.ii[i].spec = recon.ii[i].spec
    <3>1. i \in accepted => r.ii[i] = Resized(i) /\ instanceInfo'[i] = Resized(i)
      <4>1. i \in accepted => i \notin marked
        BY <1>5
      <4> QED
        BY <1>6, <1>8, <2>2, <4>1
    <3>2. i \notin accepted => r.ii[i] = recon.ii[i]
      BY <1>6, <1>8
    <3>3. Resized(i).spec = NewCapacity(recon.ii[i])
      BY <1>4
    <3> QED
      BY <3>1, <3>2, <3>3
  <2> QED
    <3>1. CASE i \in accepted
      BY <1>4, <1>5, <1>8, <2>1, <2>2, <2>4, <3>1
    <3>2. CASE i \in marked /\ i \notin accepted
      BY <1>5, <1>8, <2>1, <2>2, <2>3, <2>4, <3>2
    <3>3. CASE i \notin marked /\ i \notin accepted
      BY <1>8, <2>1, <2>2, <2>4, <3>3
    <3> QED
      BY <3>1, <3>2, <3>3
<1> QED
  BY <1>8, <1>9, <1>10

LEMMA ResizeKeepsLinks ==
  ASSUME ~CacheLags, PlacesInv, PlacesInv', LinksInv, DeleteOrResizeInstances PROVE LinksInv'
<1>1. /\ TypeOK /\ TypeOK' /\ RoundLeavesAlone /\ pv' = pv /\ shareInfo' = shareInfo
      /\ share' = share /\ instance' = instance /\ ops' = ops /\ ops \in SUBSET Op
      /\ RoundFits(recon, instanceInfo, share, ops) /\ recon.phase = "resize"
  BY TypeParts, LinksAre DEF PlacesInv, DeleteOrResizeInstances, RoundLeavesAlone, cloudVars
<1>2. PICK r \in RoundRec :
        /\ r.phase = "instances" /\ recon' = AfterInstances(r)
        /\ r.si = recon.si /\ r.onInst = recon.onInst /\ r.targets = OperationTargets
        /\ \A i \in Insts :
             /\ r.ii[i].exists = recon.ii[i].exists /\ r.ii[i].deleting = recon.ii[i].deleting
             /\ r.ii[i].shares = recon.ii[i].shares /\ (i \in r.todo => r.ii[i].exists)
             /\ instanceInfo'[i].exists = instanceInfo[i].exists
             /\ instanceInfo'[i].shares = instanceInfo[i].shares
             /\ \/ instanceInfo'[i].deleting = instanceInfo[i].deleting
                \/ instanceInfo'[i].deleting /\ instanceInfo[i].exists /\ instanceInfo[i].shares = {}
  BY ResizeLeaves
<1>3. Walks(recon', r) /\ r.phase \in ReadsObjects \cup SendsRequests
  BY <1>2, InstancesWalk DEF SendsRequests
<1>4. RoundFits(r, instanceInfo', share', ops')
  <2>1. \A o \in ops' : <<o.inst, o.vol>> \in r.targets
    BY <1>1, <1>2 DEF OperationTargets
  <2> QED
    BY <1>1, <1>2, <2>1 DEF RoundFits, ReadsObjects, SendsRequests, ToBeSent
<1>5. ASSUME NEW i \in Insts PROVE InstanceLinks(i)'
  <2>1. InstanceLinks(i) /\ SharesOf(i)' = SharesOf(i)
    BY <1>1 DEF LinksInv, SharesOf
  <2> QED
    BY <1>1, <1>2, <2>1 DEF InstanceLinks
<1>6. ASSUME NEW w \in Vols, NEW s \in Copies(w) \cup {shareInfo'[w], r.si[w]}
      PROVE  Marked(s, w)' /\ \A x \in Insts : LinkFor(s, x, w)'
  <2>1. s \in Copies(w)
    BY <1>1, <1>2 DEF Copies
  <2>2. Marked(s, w)'
    BY <1>1, <2>1, MarksStay
  <2>3. ASSUME NEW x \in Insts PROVE LinkFor(s, x, w)'
    <3>1. LinkFor(s, x, w) /\ Listed(x)' = Listed(x) /\ SharesOf(x)' = SharesOf(x)
      BY <1>1, <2>1, LinksAre DEF Listed, SharesOf
    <3> QED
      BY <1>2, <3>1 DEF LinkFor
  <2> QED
    BY <2>2, <2>3
<1>7. ASSUME NEW o \in ops' PROVE OpStays(o)'
  <2>1. OpStays(o) /\ o.inst \in Insts
    BY <1>1, LinksAre, OpShape
  <2> QED
    BY <1>1, <1>2, <2>1 DEF OpStays, Shows, RunsAlone, Listed
<1> QED
  BY <1>1, <1>3, <1>4, <1>5, <1>6, <1>7, WorkStep

-----------------------------------------------------------------------------
(* Requests to Filestore. *)

\* What an InstanceInfo is asked for: only one that is being deleted is deleted.
LEMMA InstanceRequestIs ==
  ASSUME NEW i \in Insts, NEW o \in InstanceRequest(i)
  PROVE  /\ o.inst = i /\ o.vol = NoVol /\ o.type \in InstanceOps
         /\ o.type = "InstanceDelete" => recon.ii[i].deleting
BY DEF InstanceRequest, OpOnInstance, InstanceOps

LEMMA InstanceRequestKeepsLinks ==
  ASSUME ~CacheLags, PlacesInv, PlacesInv', LinksInv, NEW i \in Insts, SendInstanceRequest(i)
  PROVE  LinksInv'
<1> DEFINE r == Done(recon, i)
<1>1. /\ TypeOK /\ TypeOK' /\ RoundLeavesAlone /\ pv' = pv /\ shareInfo' = shareInfo
      /\ recon \in RoundRec /\ recon.phase = "instances" /\ i \in recon.todo
      /\ RoundFits(recon, instanceInfo, share, ops) /\ recon' = AfterInstances(r)
      /\ instanceInfo \in [Insts -> InstanceInfoRec] /\ ops \in SUBSET Op
      /\ instance \in [Insts -> InstanceRec]
  BY TypeParts, LinksAre DEF PlacesInv, SendInstanceRequest, RoundLeavesAlone
<1>2. /\ r \in RoundRec /\ r.phase = "instances" /\ r.si = recon.si /\ r.ii = recon.ii
      /\ r.onInst = recon.onInst /\ r.targets = recon.targets /\ r.todo = recon.todo \ {i}
  BY <1>1, DoneRound
<1>3. Walks(recon', r) /\ r.phase \in ReadsObjects \cup SendsRequests
  BY <1>1, <1>2, InstancesWalk DEF SendsRequests
<1> HIDE DEF r
<1>4. recon.ii[i].exists /\ instanceInfo[i].exists
  BY <1>1 DEF RoundFits
<1>5. CASE UNCHANGED cloudVars
  <2>1. ASSUME NEW x \in Insts
        PROVE  /\ instanceInfo'[x].exists = instanceInfo[x].exists
               /\ instanceInfo'[x].shares = instanceInfo[x].shares
               /\ instanceInfo'[x].deleting = instanceInfo[x].deleting
    <3>1. instanceInfo' \in {instanceInfo, [instanceInfo EXCEPT ![i].hasStatus = TRUE]}
      BY DEF SendInstanceRequest, RecordsError
    <3> QED
      BY <1>1, <3>1 DEF InstanceInfoRec
  <2>2. instance' = instance /\ share' = share /\ ops' = ops
    BY <1>5 DEF cloudVars
  <2>3. RoundFits(r, instanceInfo', share', ops')
    BY <1>1, <1>2, <2>1, <2>2 DEF RoundFits, ReadsObjects, SendsRequests, ToBeSent
  <2>4. ASSUME NEW x \in Insts PROVE InstanceLinks(x)'
    <3>1. InstanceLinks(x) /\ SharesOf(x)' = SharesOf(x)
      BY <2>2 DEF LinksInv, SharesOf
    <3> QED
      BY <2>1, <2>2, <3>1 DEF InstanceLinks
  <2>5. ASSUME NEW w \in Vols, NEW s \in Copies(w) \cup {shareInfo'[w], r.si[w]}
        PROVE  Marked(s, w)' /\ \A x \in Insts : LinkFor(s, x, w)'
    <3>1. s \in Copies(w)
      BY <1>1, <1>2 DEF Copies
    <3>2. Marked(s, w)'
      BY <1>1, <3>1, MarksStay
    <3>3. ASSUME NEW x \in Insts PROVE LinkFor(s, x, w)'
      <4>1. LinkFor(s, x, w) /\ Listed(x)' = Listed(x) /\ SharesOf(x)' = SharesOf(x)
        BY <2>2, <3>1, LinksAre DEF Listed, SharesOf
      <4> QED
        BY <2>1, <4>1 DEF LinkFor
    <3> QED
      BY <3>2, <3>3
  <2>6. ASSUME NEW o \in ops' PROVE OpStays(o)'
    <3>1. OpStays(o) /\ o.inst \in Insts
      BY <1>1, <2>2, LinksAre, OpShape
    <3> QED
      BY <2>1, <2>2, <3>1 DEF OpStays, Shows, RunsAlone, Listed
  <2> QED
    BY <1>1, <1>2, <1>3, <2>3, <2>4, <2>5, <2>6, WorkStep
<1>6. CASE instanceInfo' = instanceInfo /\ \E o \in InstanceRequest(i) : StartOp(o, "NFS_V3")
  <2>1. PICK o \in InstanceRequest(i) : StartOp(o, "NFS_V3")
    BY <1>6
  <2>2. /\ o.inst = i /\ o.vol = NoVol /\ o.type \in InstanceOps
        /\ o.type = "InstanceDelete" => instanceInfo[i].deleting
    BY <1>1, InstanceRequestIs DEF RoundFits
  <2>3. /\ share' = share /\ ops' = ops \cup {o}
        /\ \A x \in Insts : x # i => instance'[x] = instance[x]
        /\ o.type = "InstanceCreate" => instance[i].state = "UNUSED" /\ instance'[i].state = "CREATING"
        /\ o.type = "InstanceDelete" => instance[i].state = "READY" /\ instance'[i].state = "DELETING"
        /\ o.type = "InstanceUpdate" => instance[i].state = "READY" /\ instance'[i].state = "READY"
    BY <1>1, <2>1, <2>2 DEF StartOp, Accepts, InstanceRec, InstanceOps
  <2>4. RoundFits(r, instanceInfo', share', ops')
    <3>1. o.type \notin ShareOps
      BY <2>2 DEF InstanceOps, ShareOps
    <3> QED
      BY <1>1, <1>2, <1>6, <2>3, <3>1 DEF RoundFits, ReadsObjects, SendsRequests, ToBeSent
  <2>5. ASSUME NEW x \in Insts PROVE InstanceLinks(x)'
    <3>1. InstanceLinks(x) /\ SharesOf(x)' = SharesOf(x)
      BY <2>3 DEF LinksInv, SharesOf
    <3>2. CASE x # i
      BY <1>6, <2>3, <3>1, <3>2 DEF InstanceLinks
    <3>3. CASE x = i
      BY <1>4, <1>6, <2>2, <2>3, <3>1, <3>3 DEF InstanceLinks, InstanceOps
    <3> QED
      BY <3>2, <3>3
  <2>6. ASSUME NEW w \in Vols, NEW s \in Copies(w) \cup {shareInfo'[w], r.si[w]}
        PROVE  Marked(s, w)' /\ \A x \in Insts : LinkFor(s, x, w)'
    <3>1. s \in Copies(w)
      BY <1>1, <1>2 DEF Copies
    <3>2. Marked(s, w)'
      BY <1>1, <3>1, MarksStay
    <3>3. ASSUME NEW x \in Insts PROVE LinkFor(s, x, w)'
      <4>1. LinkFor(s, x, w) /\ (x # i => Listed(x)' = Listed(x)) /\ SharesOf(x)' = SharesOf(x)
        BY <2>3, <3>1, LinksAre DEF Listed, SharesOf
      <4> QED
        BY <1>4, <1>6, <4>1 DEF LinkFor
    <3> QED
      BY <3>2, <3>3
  <2>7. ASSUME NEW p \in ops' PROVE OpStays(p)'
    <3>1. ASSUME NEW y \in ops
          PROVE  /\ OpStays(y) /\ y.inst \in Insts
                 /\ y.inst = i => y.type \notin {"InstanceCreate", "InstanceDelete"}
                 /\ y.inst = i => instance[i].state # "UNUSED"
      <4>1. OpStays(y) /\ y.inst \in Insts
        BY <1>1, LinksAre, OpShape
      <4> QED
        BY <2>2, <2>3, <4>1 DEF OpStays, Shows, InstanceOps
    <3>2. CASE p = o
      <4>1. instance'[p.inst].state # "UNUSED" /\ Shows(p)'
        BY <2>2, <2>3, <3>2 DEF Shows, InstanceOps
      <4>2. RunsAlone(p)'
        <5>1. ASSUME NEW y \in ops, p.inst = y.inst, p.vol = y.vol, "InstanceUpdate" \notin {p.type, y.type}
              PROVE  FALSE
          <6>1. y.type \in InstanceOps
            BY <1>1, <2>2, <3>2, <5>1, OpShape
          <6> QED
            BY <2>2, <3>1, <3>2, <5>1, <6>1 DEF InstanceOps
        <5> QED
          BY <2>3, <3>2, <5>1 DEF RunsAlone
      <4>3. p.type \notin ShareOps
        BY <2>2, <3>2 DEF InstanceOps, ShareOps
      <4> QED
        BY <4>1, <4>2, <4>3 DEF OpStays
    <3>3. CASE p \in ops
      <4>1. OpStays(p) /\ p.inst \in Insts
        BY <3>1, <3>3
      <4>2. instance'[p.inst].state # "UNUSED" /\ Shows(p)' /\ (Listed(p.inst)' => Listed(p.inst))
        <5>1. CASE p.inst # i
          BY <2>3, <4>1, <5>1 DEF OpStays, Shows, Listed
        <5>2. CASE p.inst = i
          BY <2>2, <2>3, <3>1, <3>3, <4>1, <5>2 DEF OpStays, Shows, Listed, InstanceOps
        <5> QED
          BY <5>1, <5>2
      <4>3. RunsAlone(p)'
        <5>1. ASSUME p.inst = o.inst, p.vol = o.vol, "InstanceUpdate" \notin {p.type, o.type} PROVE FALSE
          <6>1. p.type \in InstanceOps
            BY <1>1, <2>2, <3>3, <5>1, OpShape
          <6> QED
            BY <2>2, <3>1, <3>3, <5>1, <6>1 DEF InstanceOps
        <5> QED
          BY <2>3, <4>1, <5>1 DEF RunsAlone, OpStays
      <4> QED
        BY <1>6, <4>1, <4>2, <4>3 DEF OpStays
    <3> QED
      BY <2>3, <3>2, <3>3
  <2> QED
    BY <1>1, <1>2, <1>3, <2>4, <2>5, <2>6, <2>7, WorkStep
<1> QED
  BY <1>5, <1>6 DEF SendInstanceRequest

\* RoundFits of a round that sends requests for shares.
SharesFit(r, infos, sh, os) ==
  /\ \A i \in Insts :
       /\ r.ii[i].exists => infos[i].exists
       /\ r.ii[i].deleting => infos[i].deleting
       /\ r.ii[i].shares # {} => r.ii[i].exists
       /\ \A v \in Vols : sh[i][v].state # "ABSENT" /\ v \in r.todo => v \in r.onInst[i]
  /\ \A v \in Vols : v \in r.todo => r.si[v].exists
  /\ \A o \in os : o.type \in ShareOps /\ o.vol \in r.todo => <<o.inst, o.vol>> \in r.targets

LEMMA SharesFitted ==
  ASSUME NEW r, r.phase = "shares", NEW infos, NEW sh, NEW os
  PROVE  RoundFits(r, infos, sh, os) <=> SharesFit(r, infos, sh, os)
BY DEF RoundFits, SharesFit, ReadsObjects, SendsRequests, ToBeSent

\* What a ShareInfo is asked for, on the instance it points to.
LEMMA ShareRequestIs ==
  ASSUME NEW v \in Vols, NEW o \in ShareRequest(v)
  PROVE  /\ o.inst = recon.si[v].handle /\ o.vol = v /\ o.type \in ShareOps
         /\ o.type = "ShareDelete" <=> recon.si[v].deleting
BY DEF ShareRequest, OpOnShare, ShareOps

\* A request for a share is sent: its instance is ready and its InstanceInfo lists it.
LEMMA ShareStartKeepsLinks ==
  ASSUME ~CacheLags, PlacesInv, PlacesInv', LinksInv, NEW v \in Vols,
         recon.phase = "shares", v \in recon.todo, ShareMayBeSent(v),
         NEW o \in ShareRequest(v), StartOp(o, ""),
         recon' = AfterShares(Done(recon, v)), UNCHANGED objectVars, RoundLeavesAlone
  PROVE  LinksInv'
<1> DEFINE r == Done(recon, v)
           i == recon.si[v].handle
<1>1. /\ TypeOK /\ TypeOK' /\ pv' = pv /\ shareInfo' = shareInfo /\ instanceInfo' = instanceInfo
      /\ recon \in RoundRec /\ i \in Insts /\ ops \in SUBSET Op /\ NoVol \notin Vols
      /\ instance \in [Insts -> InstanceRec] /\ share \in [Insts -> [Vols -> ShareRec]]
      /\ RoundFits(recon, instanceInfo, share, ops)
  BY ShareWork, TypeParts, LinksAre, FilestoreAssumption DEF PlacesInv, RoundLeavesAlone, objectVars
<1>2. /\ r \in RoundRec /\ r.phase = "shares" /\ r.si = recon.si /\ r.ii = recon.ii
      /\ r.onInst = recon.onInst /\ r.targets = recon.targets /\ r.todo = recon.todo \ {v}
  BY <1>1, DoneRound
<1>3. Walks(recon', r) /\ r.phase \in ReadsObjects \cup SendsRequests
  BY <1>1, <1>2, SharesWalk DEF SendsRequests
<1> HIDE DEF r
<1>4. recon.si[v].exists /\ instanceInfo[i].exists /\ <<i, v>> \notin recon.targets
  BY <1>1 DEF RoundFits, ShareMayBeSent, InstanceIsReady
<1>5. /\ o.inst = i /\ o.vol = v /\ o.type \in ShareOps
      /\ o.type = "ShareDelete" <=> recon.si[v].deleting
  BY ShareRequestIs
<1>6. o.type # "ShareDelete" => v \in instanceInfo[i].shares /\ ~instanceInfo[i].deleting
  <2>1. LinkFor(recon.si[v], i, v)
    BY <1>1, LinksAre DEF Copies
  <2> QED
    BY <1>4, <1>5, <2>1 DEF LinkFor, PointsTo
<1>7. \A p \in ops : p.inst = i /\ p.vol = v => FALSE
  BY <1>1, <1>4, OpShape DEF RoundFits, SendsRequests, ToBeSent
<1>8. /\ ops' = ops \cup {o}
      /\ \A x \in Insts : instance'[x].state = instance[x].state
      /\ \A x \in Insts, w \in Vols : x # i \/ w # v => share'[x][w] = share[x][w]
      /\ o.type = "ShareCreate" => instance[i].state = "READY" /\ share'[i][v].state = "CREATING"
      /\ o.type = "ShareDelete" => share[i][v].state = "READY" /\ share'[i][v].state = "DELETING"
      /\ o.type = "ShareUpdate" => share[i][v].state = "READY" /\ share'[i][v].state = "READY"
  <2>1. /\ ops' = ops \cup {o} /\ Accepts(o)
        /\ instance' = [instance EXCEPT ![i] = instance[i]]
        /\ share' = [share EXCEPT ![i][v] =
             CASE o.type = "ShareCreate" -> [state |-> "CREATING", cap |-> o.cap]
               [] o.type = "ShareDelete" -> [share[i][v] EXCEPT !.state = "DELETING"]
               [] OTHER -> share[i][v]]
    BY <1>1, <1>5 DEF StartOp, ShareOps
  <2>2. share[i][v] \in ShareRec
    BY <1>1
  <2>3. /\ o.type = "ShareCreate" => share'[i][v].state = "CREATING"
        /\ o.type = "ShareDelete" => share'[i][v].state = "DELETING"
        /\ o.type = "ShareUpdate" => share'[i][v] = share[i][v]
    BY <1>1, <2>1, <2>2 DEF ShareRec
  <2>4. /\ o.type = "ShareCreate" => instance[i].state = "READY"
        /\ o.type \in {"ShareDelete", "ShareUpdate"} => share[i][v].state = "READY"
    BY <1>5, <2>1 DEF Accepts
  <2>5. \A x \in Insts, w \in Vols : x # i \/ w # v => share'[x][w] = share[x][w]
    BY <1>1, <2>1
  <2> QED
    BY <1>1, <2>1, <2>3, <2>4, <2>5
<1>9. ASSUME NEW x \in Insts
      PROVE  /\ SharesOf(x) \subseteq SharesOf(x)' /\ SharesOf(x)' \subseteq SharesOf(x) \cup {v}
             /\ x # i \/ o.type # "ShareCreate" => SharesOf(x)' = SharesOf(x)
  BY <1>1, <1>5, <1>8 DEF SharesOf, ShareOps
<1>10. RoundFits(r, instanceInfo', share', ops')
  <2>1. SharesFit(recon, instanceInfo, share, ops)
    BY <1>1, SharesFitted
  <2>2. \A x \in Insts, w \in Vols : share'[x][w].state # "ABSENT" /\ w \in r.todo
          => share[x][w].state # "ABSENT" /\ w \in recon.todo
    BY <1>2, <1>8
  <2>3. \A p \in ops' : p.vol \in r.todo => p \in ops /\ p.vol \in recon.todo
    BY <1>2, <1>5, <1>8
  <2>4. SharesFit(r, instanceInfo', share', ops')
    BY <1>1, <1>2, <2>1, <2>2, <2>3 DEF SharesFit
  <2> QED
    BY <1>2, <2>4, SharesFitted
<1>11. ASSUME NEW x \in Insts PROVE InstanceLinks(x)'
  <2>1. InstanceLinks(x)
    BY DEF LinksInv
  <2>2. CASE x = i /\ o.type = "ShareCreate"
    BY <1>1, <1>4, <1>6, <1>8, <1>9, <2>1, <2>2 DEF InstanceLinks
  <2>3. CASE ~(x = i /\ o.type = "ShareCreate")
    BY <1>1, <1>8, <1>9, <2>1, <2>3 DEF InstanceLinks
  <2> QED
    BY <2>2, <2>3
<1>12. ASSUME NEW w \in Vols, NEW s \in Copies(w) \cup {shareInfo'[w], r.si[w]}
       PROVE  Marked(s, w)' /\ \A x \in Insts : LinkFor(s, x, w)'
  <2>1. s \in Copies(w)
    BY <1>1, <1>2 DEF Copies
  <2>2. Marked(s, w)'
    BY <1>1, <2>1, MarksStay
  <2>3. ASSUME NEW x \in Insts PROVE LinkFor(s, x, w)'
    <3>1. LinkFor(s, x, w) /\ Listed(x)' = Listed(x) /\ SharesOf(x) \subseteq SharesOf(x)'
      BY <1>8, <1>9, <2>1, LinksAre DEF Listed
    <3> QED
      BY <1>1, <3>1 DEF LinkFor
  <2> QED
    BY <2>2, <2>3
<1>13. ASSUME NEW p \in ops' PROVE OpStays(p)'
  <2>1. CASE p = o
    <3>1. instance'[p.inst].state # "UNUSED"
      <4>1. SharesOf(i) # {} => instance[i].state # "UNUSED"
        BY <1>1 DEF LinksInv, InstanceLinks
      <4> QED
        <5>1. o.type # "ShareCreate" => v \in SharesOf(i)
          BY <1>5, <1>8 DEF SharesOf, ShareOps
        <5> QED
          BY <1>1, <1>5, <1>8, <2>1, <4>1, <5>1
    <3>2. Shows(p)'
      BY <1>5, <1>8, <2>1 DEF Shows, ShareOps
    <3>3. RunsAlone(p)'
      BY <1>5, <1>7, <1>8, <2>1 DEF RunsAlone
    <3> QED
      BY <1>1, <1>4, <1>5, <2>1, <3>1, <3>2, <3>3 DEF OpStays
  <2>2. CASE p \in ops
    <3>1. OpStays(p) /\ p.inst \in Insts /\ ~(p.inst = i /\ p.vol = v)
          /\ (p.type \in ShareOps => p.vol \in Vols)
      BY <1>1, <1>7, <2>2, LinksAre, OpShape DEF InstanceOps, ShareOps
    <3>2. Shows(p)'
      BY <1>8, <3>1 DEF OpStays, Shows, ShareOps
    <3>3. RunsAlone(p)'
      BY <1>5, <1>8, <3>1 DEF OpStays, RunsAlone
    <3> QED
      BY <1>1, <1>8, <3>1, <3>2, <3>3 DEF OpStays, Listed
  <2> QED
    BY <1>8, <2>1, <2>2
<1> QED
  BY <1>1, <1>2, <1>3, <1>10, <1>11, <1>12, <1>13, WorkStep

\* A share that is gone is taken off its InstanceInfo; nothing points to it any more.
LEMMA MarkKeepsLinks ==
  ASSUME ~CacheLags, PlacesInv, PlacesInv', LinksInv, NEW v \in Vols,
         recon.phase = "shares", v \in recon.todo, MarkShareInfoStatusDeleted(v), RoundLeavesAlone
  PROVE  LinksInv'
<1> DEFINE i == recon.si[v].handle
           ii == recon.ii[i]
           removed == WithoutShare(ii, v)
           deleted == [recon.si[v] EXCEPT !.status = "deleted"]
<1>1. /\ TypeOK /\ TypeOK' /\ pv' = pv /\ recon \in RoundRec /\ recon.si[v] \in ShareInfoRec /\ i \in Insts
      /\ instanceInfo \in [Insts -> InstanceInfoRec] /\ shareInfo \in [Vols -> ShareInfoRec]
      /\ recon.ii \in [Insts -> InstanceInfoRec]
      /\ share' = share /\ instance' = instance /\ ops' = ops /\ ops \in SUBSET Op
      /\ RoundFits(recon, instanceInfo, share, ops)
  BY ShareWork, TypeParts, LinksAre
     DEF PlacesInv, RoundLeavesAlone, MarkShareInfoStatusDeleted, cloudVars, RoundRec
<1>2. PICK failing :
        LET offList == v \notin ii.shares \/ (i \notin failing /\ CurrentInstance(i, ii))
            marked == offList /\ v \notin failing /\ CurrentShare(v, recon.si[v])
        IN /\ FailingAmong(failing, {i, v})
           /\ instanceInfo' = IF offList /\ v \in ii.shares THEN [instanceInfo EXCEPT ![i] = removed]
                                                           ELSE instanceInfo
           /\ shareInfo' = IF marked THEN [shareInfo EXCEPT ![v] = deleted] ELSE shareInfo
           /\ recon' = AfterShares(Done(IF marked THEN [recon EXCEPT !.ii[i] = removed] ELSE recon, v))
  BY Zenon DEF MarkShareInfoStatusDeleted
<1> DEFINE taken == (v \notin ii.shares \/ (i \notin failing /\ CurrentInstance(i, ii))) /\ v \in ii.shares
           marked == /\ v \notin ii.shares \/ (i \notin failing /\ CurrentInstance(i, ii))
                     /\ v \notin failing /\ CurrentShare(v, recon.si[v])
           q == IF marked THEN [recon EXCEPT !.ii[i] = removed] ELSE recon
           r == Done(q, v)
<1>3. /\ removed \in InstanceInfoRec /\ removed.exists = ii.exists /\ removed.deleting = ii.deleting
      /\ removed.shares = ii.shares \ {v}
  BY <1>1 DEF WithoutShare, InstanceInfoRec
<1>4. /\ deleted.exists = recon.si[v].exists /\ deleted.deleting = recon.si[v].deleting
  BY <1>1 DEF ShareInfoRec
<1>5. /\ instanceInfo' = IF taken THEN [instanceInfo EXCEPT ![i] = removed] ELSE instanceInfo
      /\ shareInfo' = IF marked THEN [shareInfo EXCEPT ![v] = deleted] ELSE shareInfo
      /\ recon' = AfterShares(r)
      /\ taken => ii = instanceInfo[i]
      /\ marked => recon.si[v] = shareInfo[v]
  BY <1>2 DEF CurrentInstance, CurrentShare
<1>6. recon.si[v].deleting /\ v \notin recon.onInst[i] /\ ii.exists
  BY DEF MarkShareInfoStatusDeleted, ShareGone
<1> HIDE DEF removed, deleted
<1>7. /\ q \in RoundRec /\ q.phase = "shares" /\ q.onInst = recon.onInst /\ q.targets = recon.targets
      /\ q.todo = recon.todo /\ q.si = recon.si
      /\ q.ii = IF marked THEN [recon.ii EXCEPT ![i] = removed] ELSE recon.ii
  BY <1>1, <1>3 DEF RoundRec
<1> HIDE DEF q, taken, marked
<1>8. /\ r \in RoundRec /\ r.phase = "shares" /\ r.si = recon.si /\ r.ii = q.ii
      /\ r.onInst = recon.onInst /\ r.targets = recon.targets /\ r.todo = recon.todo \ {v}
  BY <1>7, DoneRound
<1>9. Walks(recon', r) /\ r.phase \in ReadsObjects \cup SendsRequests
  BY <1>5, <1>8, SharesWalk DEF SendsRequests
<1> HIDE DEF r
<1>10. \A x \in Insts : /\ r.ii[x] = IF marked /\ x = i THEN removed ELSE recon.ii[x]
                        /\ instanceInfo'[x] = IF taken /\ x = i THEN removed ELSE instanceInfo[x]
  BY <1>1, <1>5, <1>7, <1>8
<1>11. v \notin SharesOf(i)
  BY <1>1, <1>6 DEF RoundFits, SendsRequests, ToBeSent, SharesOf
<1>12. \A s \in Copies(v) : ~(s.exists /\ ~s.deleting)
  <2>1. shareInfo[v].exists => shareInfo[v].deleting
    BY <1>6, LinksAre DEF Copies, Marked
  <2>2. shareLister[v] = shareInfo[v]
    BY DEF LinksInv, CachesInStep, ReadsCaches
  <2> QED
    BY <1>6, <2>1, <2>2 DEF Copies
<1>13. RoundFits(r, instanceInfo', share', ops')
  <2>1. SharesFit(recon, instanceInfo, share, ops)
    BY <1>1, SharesFitted
  <2>2. ASSUME NEW x \in Insts
        PROVE  /\ r.ii[x].exists => instanceInfo'[x].exists
               /\ r.ii[x].deleting => instanceInfo'[x].deleting
               /\ r.ii[x].shares # {} => r.ii[x].exists
    <3>1. /\ recon.ii[x].exists => instanceInfo[x].exists
          /\ recon.ii[x].deleting => instanceInfo[x].deleting
          /\ recon.ii[x].shares # {} => recon.ii[x].exists
      BY <2>1 DEF SharesFit
    <3> QED
      BY <1>3, <1>5, <1>6, <1>10, <3>1
  <2>3. SharesFit(r, instanceInfo', share', ops')
    BY <1>1, <1>8, <2>1, <2>2 DEF SharesFit
  <2> QED
    BY <1>8, <2>3, SharesFitted
<1>14. ASSUME NEW x \in Insts PROVE InstanceLinks(x)'
  <2>1. InstanceLinks(x) /\ SharesOf(x)' = SharesOf(x)
    BY <1>1 DEF LinksInv, SharesOf
  <2>2. CASE taken /\ x = i
    <3>1. /\ instanceInfo'[x].exists = instanceInfo[x].exists
          /\ instanceInfo'[x].deleting = instanceInfo[x].deleting
          /\ instanceInfo'[x].shares = instanceInfo[x].shares \ {v}
      BY <1>3, <1>5, <1>10, <2>2
    <3>2. instance'[x].state = instance[x].state /\ v \notin SharesOf(x)
      BY <1>1, <1>11, <2>2
    <3> QED
      BY <2>1, <3>1, <3>2 DEF InstanceLinks
  <2>3. CASE ~(taken /\ x = i)
    BY <1>1, <1>10, <2>1, <2>3 DEF InstanceLinks
  <2> QED
    BY <2>2, <2>3
<1>15. ASSUME NEW w \in Vols
       PROVE  shareInfo'[w].exists = shareInfo[w].exists /\ shareInfo'[w].deleting = shareInfo[w].deleting
  BY <1>1, <1>4, <1>5
<1>16. ASSUME NEW w \in Vols, NEW s \in Copies(w) \cup {shareInfo'[w], r.si[w]}
       PROVE  Marked(s, w)' /\ \A x \in Insts : LinkFor(s, x, w)'
  <2>1. s \in Copies(w) \/ (w = v /\ marked /\ s = deleted)
    BY <1>1, <1>5, <1>8 DEF Copies
  <2>2. CASE s \in Copies(w)
    <3>1. Marked(s, w)'
      BY <1>1, <1>15, <2>2, MarksStay
    <3>2. ASSUME NEW x \in Insts PROVE LinkFor(s, x, w)'
      <4>1. LinkFor(s, x, w) /\ Listed(x)' = Listed(x) /\ SharesOf(x)' = SharesOf(x)
        BY <1>1, <2>2, LinksAre DEF Listed, SharesOf
      <4>2. w = v => ~PointsTo(s, x)
        BY <1>12, <2>2 DEF PointsTo
      <4> QED
        BY <1>3, <1>5, <1>10, <4>1, <4>2 DEF LinkFor
    <3> QED
      BY <3>1, <3>2
  <2>3. CASE w = v /\ marked /\ s = deleted
    <3>1. ASSUME NEW t, t = recon.si[v] PROVE Marked(t, v)'
      BY <1>1, <1>15, <3>1, MarksStay DEF Copies
    <3>2. Marked(s, w)'
      BY <1>4, <2>3, <3>1 DEF Marked
    <3>3. \A x \in Insts : LinkFor(s, x, w)'
      BY <1>4, <1>6, <2>3 DEF LinkFor, PointsTo
    <3> QED
      BY <3>2, <3>3
  <2> QED
    BY <2>1, <2>2, <2>3
<1>17. ASSUME NEW o \in ops' PROVE OpStays(o)'
  <2>1. OpStays(o) /\ o.inst \in Insts
    BY <1>1, LinksAre, OpShape
  <2>2. instanceInfo'[o.inst].exists = instanceInfo[o.inst].exists
    BY <1>3, <1>5, <1>10, <2>1
  <2> QED
    BY <1>1, <2>1, <2>2 DEF OpStays, Shows, RunsAlone, Listed
<1> QED
  BY <1>1, <1>8, <1>9, <1>13, <1>14, <1>16, <1>17, WorkStep

LEMMA ShareRequestKeepsLinks ==
  ASSUME ~CacheLags, PlacesInv, PlacesInv', LinksInv, NEW v \in Vols, SendShareRequest(v)
  PROVE  LinksInv'
<1>1. /\ recon.phase = "shares" /\ v \in recon.todo /\ RoundLeavesAlone /\ TypeOK /\ TypeOK'
      /\ recon \in RoundRec /\ RoundFits(recon, instanceInfo, share, ops)
  BY TypeParts, LinksAre DEF SendShareRequest, PlacesInv
<1>2. CASE MarkShareInfoStatusDeleted(v)
  BY <1>1, <1>2, MarkKeepsLinks
<1>3. CASE /\ ShareMayBeSent(v) /\ \E o \in ShareRequest(v) : StartOp(o, "")
           /\ recon' = AfterShares(Done(recon, v)) /\ UNCHANGED objectVars
  BY <1>1, <1>3, ShareStartKeepsLinks
<1>4. CASE recon' = AfterShares(Done(recon, v)) /\ UNCHANGED objectVars /\ UNCHANGED cloudVars
  <2> DEFINE r == Done(recon, v)
  <2>1. /\ r \in RoundRec /\ r.phase = "shares" /\ r.si = recon.si /\ r.ii = recon.ii
        /\ r.onInst = recon.onInst /\ r.targets = recon.targets /\ r.todo = recon.todo \ {v}
    BY <1>1, DoneRound
  <2>2. Walks(recon', r) /\ r.phase \in ReadsObjects \cup SendsRequests
    BY <1>4, <2>1, SharesWalk DEF SendsRequests
  <2> HIDE DEF r
  <2>3. RoundFits(r, instanceInfo, share, ops)
    BY <1>1, <2>1 DEF RoundFits, ReadsObjects, SendsRequests, ToBeSent
  <2> QED
    BY <1>1, <1>4, <2>1, <2>2, <2>3, IdleWork
<1> QED
  BY <1>2, <1>3, <1>4 DEF SendShareRequest

-----------------------------------------------------------------------------
(* The objects are brought in line with what was listed. *)

\* What the step writes, and the round it starts.
Writes(r) ==
  /\ r \in RoundRec /\ r.phase = "pointers" /\ r.onInst = InstanceShares
  /\ recon' = AfterPointers(r)
  /\ \A i \in Insts, v \in Vols :
       <<i, v>> \in r.todo => v \in r.ii[i].shares /\ r.si[v].exists /\ r.si[v].handle # i
  /\ \A v \in Vols :
       \/ r.si[v] \in {shareLister[v], shareInfo[v]} /\ shareInfo'[v] = shareInfo[v]
       \/ \E p \in Insts :
            /\ v \in InstanceShares[p] /\ r.si[v] = ShareAsListed(p, v) /\ shareInfo'[v] = r.si[v]
            /\ \/ ~shareLister[v].exists /\ ~shareInfo[v].exists
               \/ ShareCopy(p, v) = shareInfo[v] /\ shareInfo[v].exists
  /\ \A i \in Insts :
       \/ Listed(i) /\ instanceInfo'[i] = InstanceAsListed(i) /\ r.ii[i] = InstanceAsListed(i)
       \/ /\ ~Listed(i) /\ instanceInfo[i].deleting
          /\ instanceInfo'[i] = NoInstanceInfo /\ r.ii[i] = NoInstanceInfo
       \/ instanceInfo'[i] = instanceInfo[i] /\ r.ii[i] \in {instanceInfo[i], NoInstanceInfo}

LEMMA UpdateWrites == ASSUME PlacesInv, LinksInv, UpdateInfos PROVE \E r : Writes(r)
<1> DEFINE parents(v) == {i \in Insts : v \in InstanceShares[i]}
           parent(v) == CHOOSE i \in parents(v) : TRUE
           newShare(v) == ~shareLister[v].exists /\ ~shareInfo[v].exists
           newInstance(i) == ~instanceLister[i].exists /\ ~instanceInfo[i].exists
           listed(v) == ShareAsListed(parent(v), v)
           copied(v) == ShareCopy(parent(v), v)
<1>1. TypeOK /\ recon.phase = "listed" /\ instanceLister = instanceInfo
  BY DEF PlacesInv, UpdateInfos, LinksInv, CachesInStep
<1>2. PICK failing :
        LET shareWritten(v) == /\ parents(v) # {} /\ v \notin failing
                               /\ newShare(v) \/ CurrentShare(v, copied(v))
            instanceWritten(i) == /\ Listed(i) /\ i \notin failing
                                  /\ newInstance(i) \/ CurrentInstance(i, InstanceCopy(i))
            released(i) == FinalizerGoes(i) /\ i \notin failing /\ CurrentInstance(i, instanceLister[i])
        IN /\ shareInfo' = [v \in Vols |-> IF shareWritten(v) THEN listed(v) ELSE shareInfo[v]]
           /\ instanceInfo' = [i \in Insts |-> CASE instanceWritten(i) -> InstanceAsListed(i)
                                                 [] released(i) -> NoInstanceInfo
                                                 [] OTHER -> instanceInfo[i]]
           /\ recon' = StartPointers([Idle EXCEPT
                !.onInst = InstanceShares,
                !.si = [v \in Vols |-> CASE shareWritten(v) -> listed(v)
                                         [] ~shareWritten(v) /\ parents(v) # {} /\ ~newShare(v) -> copied(v)
                                         [] OTHER -> shareLister[v]],
                !.ii = [i \in Insts |-> CASE instanceWritten(i) -> InstanceAsListed(i)
                                          [] ~instanceWritten(i) /\ Listed(i) /\ ~newInstance(i) -> InstanceCopy(i)
                                          [] FinalizerGoes(i) -> NoInstanceInfo
                                          [] OTHER -> instanceLister[i]]])
  BY Zenon DEF UpdateInfos
<1> DEFINE shareWritten(v) == /\ parents(v) # {} /\ v \notin failing
                              /\ newShare(v) \/ CurrentShare(v, copied(v))
           instanceWritten(i) == /\ Listed(i) /\ i \notin failing
                                 /\ newInstance(i) \/ CurrentInstance(i, InstanceCopy(i))
           released(i) == FinalizerGoes(i) /\ i \notin failing /\ CurrentInstance(i, instanceLister[i])
           si == [v \in Vols |-> CASE shareWritten(v) -> listed(v)
                                   [] ~shareWritten(v) /\ parents(v) # {} /\ ~newShare(v) -> copied(v)
                                   [] OTHER -> shareLister[v]]
           ii == [i \in Insts |-> CASE instanceWritten(i) -> InstanceAsListed(i)
                                    [] ~instanceWritten(i) /\ Listed(i) /\ ~newInstance(i) -> InstanceCopy(i)
                                    [] FinalizerGoes(i) -> NoInstanceInfo
                                    [] OTHER -> instanceLister[i]]
           q == [Idle EXCEPT !.onInst = InstanceShares, !.si = si, !.ii = ii]
           r == [q EXCEPT !.phase = "pointers", !.todo = WrongPointers(q)]
<1>3. /\ shareInfo' = [v \in Vols |-> IF shareWritten(v) THEN listed(v) ELSE shareInfo[v]]
      /\ instanceInfo' = [i \in Insts |-> CASE instanceWritten(i) -> InstanceAsListed(i)
                                            [] released(i) -> NoInstanceInfo
                                            [] OTHER -> instanceInfo[i]]
      /\ recon' = AfterPointers(r)
  BY <1>2 DEF StartPointers
<1>4. ASSUME NEW v \in Vols
      PROVE  /\ si[v] \in ShareInfoRec
             /\ \/ si[v] \in {shareLister[v], shareInfo[v]} /\ shareInfo'[v] = shareInfo[v]
                \/ \E p \in Insts :
                     /\ v \in InstanceShares[p] /\ si[v] = ShareAsListed(p, v) /\ shareInfo'[v] = si[v]
                     /\ \/ ~shareLister[v].exists /\ ~shareInfo[v].exists
                        \/ ShareCopy(p, v) = shareInfo[v] /\ shareInfo[v].exists
  <2>1. shareLister[v] \in ShareInfoRec /\ shareInfo[v] \in ShareInfoRec
    BY <1>1, TypeParts
  <2>2. parents(v) # {} => /\ parent(v) \in Insts /\ v \in InstanceShares[parent(v)]
                           /\ listed(v) \in ShareInfoRec /\ copied(v) \in ShareInfoRec
    BY <1>1, ShareListed
  <2>3. ~newShare(v) => copied(v) \in {shareLister[v], shareInfo[v]}
    BY DEF ShareCopy
  <2>4. CurrentShare(v, copied(v)) => copied(v) = shareInfo[v] /\ shareInfo[v].exists
    BY DEF CurrentShare
  <2>5. shareInfo'[v] = IF shareWritten(v) THEN listed(v) ELSE shareInfo[v]
    BY <1>3
  <2>6. CASE shareWritten(v)
    <3>1. si[v] = listed(v) /\ shareInfo'[v] = listed(v) /\ parents(v) # {}
          /\ (newShare(v) \/ CurrentShare(v, copied(v)))
      BY <2>5, <2>6
    <3> QED
      BY <2>2, <2>4, <3>1
  <2>7. CASE ~shareWritten(v)
    <3> HIDE DEF listed, copied, parents, shareWritten, newShare
    <3>1. si[v] \in {shareLister[v], shareInfo[v]} /\ shareInfo'[v] = shareInfo[v]
      BY <2>3, <2>5, <2>7
    <3> QED
      BY <2>1, <3>1
  <2> QED
    BY <2>6, <2>7
<1>5. ASSUME NEW i \in Insts
      PROVE  /\ ii[i] \in InstanceInfoRec
             /\ \/ Listed(i) /\ instanceInfo'[i] = InstanceAsListed(i) /\ ii[i] = InstanceAsListed(i)
                \/ /\ ~Listed(i) /\ instanceInfo[i].deleting
                   /\ instanceInfo'[i] = NoInstanceInfo /\ ii[i] = NoInstanceInfo
                \/ instanceInfo'[i] = instanceInfo[i] /\ ii[i] \in {instanceInfo[i], NoInstanceInfo}
  <2>1. {InstanceAsListed(i), InstanceCopy(i), NoInstanceInfo, instanceInfo[i]} \subseteq InstanceInfoRec
    BY <1>1, InstanceListed, NoneType, TypeParts
  <2>2. instanceInfo'[i] = CASE instanceWritten(i) -> InstanceAsListed(i)
                             [] released(i) -> NoInstanceInfo
                             [] OTHER -> instanceInfo[i]
    BY <1>3
  <2>3. /\ instanceWritten(i) => Listed(i)
        /\ released(i) => FinalizerGoes(i)
        /\ FinalizerGoes(i) => ~Listed(i) /\ instanceInfo[i].deleting
    BY <1>1 DEF FinalizerGoes
  <2>4. ~newInstance(i) => InstanceCopy(i) = instanceInfo[i]
    BY <1>1 DEF InstanceCopy
  <2>5. ii[i] = CASE instanceWritten(i) -> InstanceAsListed(i)
                  [] ~instanceWritten(i) /\ Listed(i) /\ ~newInstance(i) -> InstanceCopy(i)
                  [] FinalizerGoes(i) -> NoInstanceInfo
                  [] OTHER -> instanceInfo[i]
    BY <1>1
  <2> HIDE DEF instanceWritten, released, newInstance, ii
  <2> QED
    BY <2>1, <2>2, <2>3, <2>4, <2>5
<1>6. si \in [Vols -> ShareInfoRec] /\ ii \in [Insts -> InstanceInfoRec]
  BY <1>4, <1>5
<1> HIDE DEF si, ii
<1>7. q \in RoundRec /\ q.si = si /\ q.ii = ii /\ q.onInst = InstanceShares
  BY <1>1, <1>6, IdleRound, InstanceListed DEF RoundRec, InstanceShares
<1> HIDE DEF q
<1>8. /\ r \in RoundRec /\ r.phase = "pointers" /\ r.si = si /\ r.ii = ii /\ r.onInst = InstanceShares
      /\ r.todo = WrongPointers(q)
  BY <1>7 DEF RoundRec, RoundPhases, WrongPointers
<1> HIDE DEF r
<1>9. \A i \in Insts, v \in Vols :
        <<i, v>> \in r.todo => v \in r.ii[i].shares /\ r.si[v].exists /\ r.si[v].handle # i
  BY <1>7, <1>8 DEF WrongPointers
<1>10. Writes(r)
  BY <1>3, <1>4, <1>5, <1>8, <1>9 DEF Writes
<1> QED
  BY <1>10

\* What the InstanceInfos list, and what points to them.
LEMMA WrittenInstances ==
  ASSUME PlacesInv, LinksInv, recon.phase = "listed", UNCHANGED cloudVars,
         NEW r, Writes(r), NEW i \in Insts
  PROVE  /\ InstanceLinks(i)' /\ (Listed(i) => (instanceInfo[i].exists => instanceInfo'[i].exists))
         /\ r.ii[i].exists => r.ii[i] = instanceInfo'[i]
         /\ ~r.ii[i].exists => r.ii[i].shares = {} /\ ~r.ii[i].deleting
         /\ SharesOf(i) \subseteq InstanceShares[i]
         /\ instanceInfo[i].exists => InstanceShares[i] \subseteq instanceInfo[i].shares
         /\ ~instanceInfo[i].exists => InstanceShares[i] \subseteq SharesOf(i)
         /\ Listed(i) \/ instanceInfo'[i].exists => instanceInfo'[i].deleting = instanceInfo[i].deleting
         /\ instanceInfo'[i].exists /\ ~instanceInfo[i].exists =>
              Listed(i) /\ InstanceShares[i] \subseteq instanceInfo'[i].shares
         /\ instanceInfo'[i].exists => instanceInfo[i].shares \subseteq instanceInfo'[i].shares
         /\ ~instanceInfo'[i].exists => ~instanceInfo[i].exists \/ instanceInfo[i].deleting
<1>1. /\ TypeOK /\ instanceLister = instanceInfo /\ InstanceLinks(i) /\ ListingLinks(i)
      /\ instance' = instance /\ share' = share /\ SharesOf(i)' = SharesOf(i)
  BY DEF PlacesInv, LinksInv, CachesInStep, cloudVars, SharesOf
<1>2. instanceInfo[i] \in InstanceInfoRec /\ InstanceCopy(i) \in InstanceInfoRec
  BY <1>1, TypeParts, InstanceListed
<1>3. /\ InstanceAsListed(i).exists = InstanceCopy(i).exists
      /\ InstanceAsListed(i).deleting = InstanceCopy(i).deleting
      /\ InstanceAsListed(i).shares = InstanceCopy(i).shares \cup InstanceShares[i]
  BY <1>2 DEF InstanceAsListed, InstanceInfoRec
<1>4. ~NoInstanceInfo.exists /\ ~NoInstanceInfo.deleting /\ NoInstanceInfo.shares = {}
  BY DEF NoInstanceInfo
<1>5. /\ instanceInfo[i].exists => InstanceCopy(i) = instanceInfo[i]
      /\ ~instanceInfo[i].exists => /\ InstanceCopy(i).exists /\ ~InstanceCopy(i).deleting
                                    /\ InstanceCopy(i).shares = {}
  <2>1. ~instanceInfo[i].exists => InstanceCopy(i) = NewInstanceInfo(instance[i].cap)
    BY <1>1 DEF InstanceCopy, ReconstructedInstanceInfo
  <2>2. ASSUME NEW size PROVE /\ NewInstanceInfo(size).exists /\ ~NewInstanceInfo(size).deleting
                              /\ NewInstanceInfo(size).shares = {}
    BY DEF NewInstanceInfo, NoInstanceInfo
  <2> QED
    BY <1>1, <2>1, <2>2 DEF InstanceCopy
<1>6. InstanceShares[i] = IF Listed(i) THEN ListedOn(i) ELSE {}
  BY DEF InstanceShares, ListedOn
<1>7. SharesOf(i) # {} => Listed(i)
  BY <1>1 DEF InstanceLinks, Listed
<1>8. /\ SharesOf(i) \subseteq InstanceShares[i]
      /\ instanceInfo[i].exists => InstanceShares[i] \subseteq instanceInfo[i].shares
      /\ ~instanceInfo[i].exists => InstanceShares[i] \subseteq SharesOf(i)
  BY <1>1, <1>6, <1>7 DEF ListingLinks
<1>9. CASE Listed(i) /\ instanceInfo'[i] = InstanceAsListed(i) /\ r.ii[i] = InstanceAsListed(i)
  <2>1. InstanceLinks(i)'
    BY <1>1, <1>3, <1>5, <1>8, <1>9 DEF InstanceLinks
  <2> QED
    <3>1. instanceInfo[i].deleting \in BOOLEAN /\ InstanceCopy(i).deleting \in BOOLEAN
      BY <1>2 DEF InstanceInfoRec
    <3>2. instanceInfo'[i].exists /\ instanceInfo'[i].deleting = instanceInfo[i].deleting
      BY <1>1, <1>3, <1>5, <1>9, <3>1 DEF InstanceLinks
    <3> QED
      BY <1>1, <1>3, <1>5, <1>8, <1>9, <2>1, <3>2 DEF InstanceLinks
<1>10. CASE /\ ~Listed(i) /\ instanceInfo[i].deleting
            /\ instanceInfo'[i] = NoInstanceInfo /\ r.ii[i] = NoInstanceInfo
  <2>1. InstanceLinks(i)'
    BY <1>1, <1>4, <1>7, <1>10 DEF InstanceLinks, Listed
  <2> QED
    BY <1>4, <1>8, <1>10, <2>1
<1>11. CASE instanceInfo'[i] = instanceInfo[i] /\ r.ii[i] \in {instanceInfo[i], NoInstanceInfo}
  <2>1. InstanceLinks(i)'
    BY <1>1, <1>11 DEF InstanceLinks
  <2> QED
    BY <1>1, <1>4, <1>8, <1>11, <2>1 DEF InstanceLinks
<1> QED
  BY <1>9, <1>10, <1>11 DEF Writes

\* A ShareInfo made or changed from what was listed points to where the share was found:
\* it was not being deleted there, and is not in a pool if no InstanceInfo lists it.
LEMMA WrittenShares ==
  ASSUME PlacesInv, LinksInv, recon.phase = "listed", UNCHANGED <<cloudVars, pv>>,
         NEW r, Writes(r), NEW v \in Vols, NEW s \in {shareLister[v], shareInfo'[v], r.si[v]}
  PROVE  Marked(s, v)' /\ \A i \in Insts : LinkFor(s, i, v)'
<1>1. /\ TypeOK /\ pv' = pv /\ Marked(shareLister[v], v) /\ Marked(shareInfo[v], v)
      /\ shareLister[v] \in ShareInfoRec /\ shareInfo[v] \in ShareInfoRec
      /\ \A i \in Insts : LinkFor(shareLister[v], i, v) /\ LinkFor(shareInfo[v], i, v)
      /\ \A i \in Insts : SharesOf(i)' = SharesOf(i) /\ Listed(i)' = Listed(i)
  BY LinksAre, TypeParts DEF PlacesInv, Copies, cloudVars, SharesOf, Listed
<1>2. ASSUME NEW t \in {shareLister[v], shareInfo[v]}, NEW i \in Insts PROVE LinkFor(t, i, v)'
  <2> SUFFICES ASSUME PointsTo(t, i) PROVE LinkFor(t, i, v)'
    BY DEF LinkFor
  <2>1. /\ ~instanceInfo[i].deleting
        /\ instanceInfo[i].exists => v \in instanceInfo[i].shares
        /\ ~instanceInfo[i].exists => ~t.pool /\ (Listed(i) => v \in SharesOf(i))
    BY <1>1 DEF LinkFor
  <2>2. ~instanceInfo'[i].deleting
    BY <2>1, WrittenInstances DEF InstanceLinks
  <2>3. instanceInfo'[i].exists => v \in instanceInfo'[i].shares
    BY <2>1, WrittenInstances
  <2>4. ~instanceInfo'[i].exists => ~t.pool /\ (Listed(i) => v \in SharesOf(i))
    BY <2>1, WrittenInstances
  <2> QED
    BY <1>1, <2>2, <2>3, <2>4 DEF LinkFor
<1>3. CASE r.si[v] \in {shareLister[v], shareInfo[v]} /\ shareInfo'[v] = shareInfo[v]
  BY <1>1, <1>2, <1>3 DEF Marked
<1>4. ASSUME NEW p \in Insts, v \in InstanceShares[p], r.si[v] = ShareAsListed(p, v), shareInfo'[v] = r.si[v],
             \/ ~shareLister[v].exists /\ ~shareInfo[v].exists
             \/ ShareCopy(p, v) = shareInfo[v] /\ shareInfo[v].exists
      PROVE  Marked(s, v)' /\ \A i \in Insts : LinkFor(s, i, v)'
  <2>1. /\ r.si[v].exists /\ r.si[v].handle = p /\ r.si[v].deleting = ShareCopy(p, v).deleting
        /\ r.si[v].pool = ShareCopy(p, v).pool
    <3>1. ShareCopy(p, v) \in ShareInfoRec
      BY <1>1, ShareListed
    <3>2. r.si[v].deleting = ShareCopy(p, v).deleting /\ r.si[v].pool = ShareCopy(p, v).pool
      BY <1>4, <3>1 DEF ShareAsListed, ShareInfoRec
    <3> QED
      BY <1>1, <1>4, <3>2, ShareListed
  <2>2. ~shareLister[v].exists /\ ~shareInfo[v].exists => ~ShareCopy(p, v).deleting /\ ~ShareCopy(p, v).pool
    <3>1. ~CreatedShareInfo(p, v).deleting /\ ~CreatedShareInfo(p, v).pool
      BY DEF CreatedShareInfo, NewShareInfo, NoShareInfo
    <3> QED
      BY <3>1 DEF ShareCopy
  <2>3. ASSUME NEW t \in {shareLister[v], shareInfo[v], r.si[v]} PROVE Marked(t, v)'
    BY <1>1, <1>4, <2>1, <2>2 DEF Marked
  <2>4. p \in Places(v) /\ Listed(p)
    BY <1>4, ListedThere DEF InstanceShares
  <2>5. LinkFor(r.si[v], p, v)'
    <3> SUFFICES ASSUME ~r.si[v].deleting PROVE LinkFor(r.si[v], p, v)'
      BY DEF LinkFor, PointsTo
    <3>1. ~instanceInfo[p].deleting
      BY <1>4 , WrittenInstances DEF LinksInv, InstanceLinks
    <3>2. ~instanceInfo'[p].deleting
      BY <2>4, <3>1, WrittenInstances
    <3>3. instanceInfo'[p].exists => v \in instanceInfo'[p].shares
      BY <1>4, WrittenInstances
    <3>4. ~instanceInfo'[p].exists => ~instanceInfo[p].exists /\ v \in SharesOf(p)
      BY <1>4, <3>1, WrittenInstances
    <3>5. ~instanceInfo[p].exists => ~r.si[v].pool
      <4>1. CASE ShareCopy(p, v) = shareInfo[v] /\ shareInfo[v].exists
        <5>1. shareInfo[v].handle # NoInst
          BY <2>4, <4>1 DEF PlacesInv, PlaceOK, Unplaced
        <5>2. shareInfo[v].handle = p
          <6>1. shareInfo[v].handle \in Insts /\ shareInfo[v] \in Copies(v)
            BY <1>1, <5>1 DEF ShareInfoRec, Copies
          <6>2. shareInfo[v].handle \in Places(v)
            BY <1>1, <5>1, PlacesAre DEF Holds
          <6> QED
            BY <2>4, <6>1, <6>2 DEF PlacesInv, PlaceOK
        <5>3. PointsTo(shareInfo[v], p)
          BY <2>1, <4>1, <5>2 DEF PointsTo
        <5> QED
          BY <1>1, <2>1, <4>1, <5>3 DEF LinkFor
      <4> QED
        BY <1>4, <2>1, <2>2, <4>1
    <3> QED
      BY <1>1, <3>2, <3>3, <3>4, <3>5 DEF LinkFor
  <2>6. ASSUME NEW i \in Insts PROVE LinkFor(r.si[v], i, v)'
    <3>1. CASE i = p
      BY <2>5, <3>1
    <3>2. CASE i # p
      BY <2>1, <3>2 DEF LinkFor, PointsTo
    <3> QED
      BY <3>1, <3>2
  <2> QED
    BY <1>2, <1>4, <2>3, <2>6
<1> QED
  BY <1>3, <1>4 DEF Writes

LEMMA UpdateKeepsLinks ==
  ASSUME ~CacheLags, PlacesInv, PlacesInv', LinksInv, UpdateInfos PROVE LinksInv'
<1>1. /\ TypeOK /\ TypeOK' /\ recon.phase = "listed" /\ pv' = pv /\ cloudVars' = cloudVars /\ CachesFollow
      /\ instance' = instance /\ share' = share /\ ops' = ops /\ ops \in SUBSET Op
  BY TypeParts DEF PlacesInv, UpdateInfos, RoundLeavesAlone, cloudVars
<1>2. PICK r : Writes(r)
  BY UpdateWrites
<1>3. r \in RoundRec /\ r.phase = "pointers" /\ r.phase \in ReadsObjects /\ recon' = AfterPointers(r)
  BY <1>2 DEF Writes, ReadsObjects
<1>4. Walks(recon', r)
  BY <1>3, PointersWalk
<1>5. recon'.phase # "listed" /\ (recon'.si = r.si \/ \A v \in Vols : recon'.si[v] = NoShareInfo)
  BY <1>3, <1>4, IdleRound DEF Walks, ReadsObjects
<1>6. ASSUME NEW i \in Insts PROVE InstanceLinks(i)' /\ ListingLinks(i)'
  BY <1>1, <1>2, <1>5, WrittenInstances DEF ListingLinks
<1>7. RoundFits(r, instanceInfo', share', ops')
  <2>1. ASSUME NEW i \in Insts
        PROVE  /\ r.ii[i].exists => r.ii[i] = instanceInfo'[i] /\ instanceInfo'[i].exists
               /\ r.ii[i].deleting => instanceInfo'[i].deleting
               /\ r.ii[i].shares # {} => r.ii[i].exists
               /\ \A v \in Vols : v \in SharesOf(i) => v \in r.onInst[i]
    <3>1. /\ r.ii[i].exists => r.ii[i] = instanceInfo'[i]
          /\ ~r.ii[i].exists => r.ii[i].shares = {} /\ ~r.ii[i].deleting
          /\ SharesOf(i) \subseteq InstanceShares[i]
      BY <1>1, <1>2, WrittenInstances
    <3> QED
      BY <1>2, <3>1 DEF Writes
  <2>2. \A i \in Insts, v \in Vols :
          <<i, v>> \in r.todo => v \in r.ii[i].shares /\ r.si[v].exists /\ r.si[v].handle # i
    BY <1>2 DEF Writes
  <2> QED
    BY <1>1, <1>3, <2>1, <2>2 DEF RoundFits, ReadsObjects, SendsRequests, ToBeSent, SharesOf
<1>8. ASSUME NEW v \in Vols, NEW s \in {shareLister[v], shareInfo'[v], recon'.si[v]}
      PROVE  Marked(s, v)' /\ \A i \in Insts : LinkFor(s, i, v)'
  <2>1. CASE s \in {shareLister[v], shareInfo'[v], r.si[v]}
    BY <1>1, <1>2, <2>1, WrittenShares
  <2>2. CASE s = NoShareInfo
    <3>1. ~NoShareInfo.exists /\ ~NoShareInfo.deleting
      BY DEF NoShareInfo
    <3> QED
      BY <2>2, <3>1 DEF Marked, LinkFor, PointsTo
  <2> QED
    BY <1>5, <2>1, <2>2
<1>9. ASSUME NEW o \in ops' PROVE OpStays(o)'
  <2>1. OpStays(o) /\ o.inst \in Insts
    BY <1>1, LinksAre, OpShape
  <2>2. Listed(o.inst) => (instanceInfo[o.inst].exists => instanceInfo'[o.inst].exists)
    BY <1>1, <1>2, <2>1, WrittenInstances
  <2> QED
    BY <1>1, <2>1, <2>2 DEF OpStays, Shows, RunsAlone, Listed
<1>10. RoundFits(recon', instanceInfo', share', ops')
  BY <1>3, <1>4, <1>7, WalkFits
<1> QED
  BY <1>1, <1>5, <1>6, <1>8, <1>9, <1>10, LinksKept

-----------------------------------------------------------------------------
(* The theorems. *)

LEMMA LinksStart == Init => LinksInv
<1> SUFFICES ASSUME Init PROVE LinksInv
  OBVIOUS
<1>1. /\ recon = Idle /\ ops = {} /\ shareLister = shareInfo /\ instanceLister = instanceInfo
      /\ \A v \in Vols : shareInfo[v] = NoShareInfo
      /\ \A i \in Insts : instanceInfo[i] = NoInstanceInfo
  BY DEF Init, ObjectsInit
<1>2. /\ Idle.phase = "idle" /\ \A v \in Vols : Idle.si[v] = NoShareInfo
      /\ ~NoShareInfo.exists /\ ~NoShareInfo.deleting
      /\ ~NoInstanceInfo.exists /\ ~NoInstanceInfo.deleting /\ NoInstanceInfo.shares = {}
  BY IdleRound DEF NoShareInfo, NoInstanceInfo
<1>3. CachesInStep
  BY <1>1, <1>2 DEF CachesInStep
<1>4. ASSUME NEW i \in Insts PROVE InstanceLinks(i) /\ ListingLinks(i)
  <2>1. SharesOf(i) # {} => i \in Range(Migrated)
    <3>1. ASSUME NEW v \in SharesOf(i) PROVE Migrated[v] = i
      BY DEF Init, SharesOf, AbsentShare
    <3> QED
      BY <3>1, ReconcilerAssumption DEF Range, SharesOf
  <2>2. /\ i \in Range(Migrated) => instance[i].state = "READY"
        /\ i \notin Range(Migrated) => instance[i].state = "UNUSED"
    BY DEF Init, AbsentInstance
  <2> QED
    BY <1>1, <1>2, <2>1, <2>2 DEF InstanceLinks, ListingLinks
<1>5. RoundFits(recon, instanceInfo, share, ops)
  BY <1>1, IdleFits
<1>6. ASSUME NEW v \in Vols, NEW s \in Copies(v) PROVE Marked(s, v) /\ \A i \in Insts : LinkFor(s, i, v)
  BY <1>1, <1>2 DEF Copies, Marked, LinkFor, PointsTo
<1> QED
  BY <1>1, <1>3, <1>4, <1>5, <1>6, LinksAre

LEMMA LinksStep ==
  ASSUME ~CacheLags, PlacesInv, PlacesInv', LinksInv, [Next]_vars PROVE LinksInv'
<1>1. CASE RoundStep
  BY <1>1, EndKeepsLinks, UpdateKeepsLinks, PointersKeepLinks, AssignKeepsLinks,
     ResizeKeepsLinks, InstanceRequestKeepsLinks, ShareRequestKeepsLinks DEF RoundStep
<1>2. CASE RoundEnds \/ Sync
  BY <1>2, EndKeepsLinks, SyncKeepsLinks
<1>3. CASE \E v \in Vols : Creates(v) \/ Deletes(v) \/ Expands(v) \/ Releases(v)
  BY <1>3, RequestKeepsLinks DEF Creates, Deletes, Expands, Releases, RequestLeavesRound
<1>4. CASE \E o \in ops : OpDone(o)
  BY <1>4, DoneKeepsLinks
<1>5. CASE \E i \in Insts : Repair(i) \/ ManualDelete(i)
  BY <1>5, RepairKeepsLinks, ManualDeleteKeepsLinks
<1>6. CASE UNCHANGED vars
  <2>1. /\ instance' = instance /\ share' = share /\ ops' = ops /\ pv' = pv /\ recon' = recon
        /\ shareInfo' = shareInfo /\ instanceInfo' = instanceInfo
        /\ shareLister' = shareLister /\ instanceLister' = instanceLister
    BY <1>6 DEF vars, cloudVars, objectVars, cacheVars
  <2>2. \A v \in Vols : Copies(v)' = Copies(v)
    BY <2>1 DEF Copies
  <2>3. CachesInStep' /\ \A i \in Insts : InstanceLinks(i)' /\ ListingLinks(i)' /\ RoundLinks(i)'
    BY <2>1 DEF LinksInv, CachesInStep, InstanceLinks, ListingLinks, RoundLinks, Listed, SharesOf, ListedOn
  <2>4. \A v \in Vols : DeletionMarks(v)' /\ \A s \in Copies(v)', i \in Insts : LinkFor(s, i, v)'
    BY <2>1, <2>2 DEF LinksInv, DeletionMarks, LinkFor, PointsTo, Listed, SharesOf
  <2>5. \A o \in ops' : OpLinks(o)'
    BY <2>1 DEF LinksInv, OpLinks, Shows, RunsAlone, Listed
  <2> QED
    BY <2>3, <2>4, <2>5 DEF LinksInv
<1> QED
  BY <1>1, <1>2, <1>3, <1>4, <1>5, <1>6 DEF Next

\* While the informers catch up between the rounds, what points to an instance is listed
\* in its InstanceInfo, and what is being deleted is listed nowhere.
THEOREM LinksInvariance == ASSUME ~CacheLags PROVE Spec => []LinksInv
<1>1. PlacesInv /\ PlacesInv' /\ LinksInv /\ [Next]_vars => LinksInv'
  BY LinksStep
<1> QED
  BY <1>1, LinksStart, PlacesInvariance, PTL DEF Spec

\* An instance is only decided to be deleted, and only deleted, with no share on it and no
\* ShareInfo that is still wanted pointing to it, whichever requests and rounds fail on the
\* way and whatever the user deletes.
THEOREM InstancesDeletedWhenEmpty == ASSUME ~CacheLags PROVE Spec => []DeletedWhenEmpty
<1>1. LinksInv => DeletedWhenEmpty
  <2> SUFFICES ASSUME LinksInv, NEW i \in Insts,
                      instanceInfo[i].deleting \/ instance[i].state = "DELETING"
               PROVE  /\ SharesOf(i) = {}
                      /\ \A v \in Vols : shareInfo[v].exists /\ shareInfo[v].handle = i => shareInfo[v].deleting
    BY DEF DeletedWhenEmpty
  <2>1. InstanceLinks(i) /\ \A v \in Vols : LinkFor(shareInfo[v], i, v)
    BY DEF LinksInv, Copies
  <2> QED
    BY <2>1 DEF InstanceLinks, LinkFor, PointsTo
<1> QED
  BY <1>1, LinksInvariance, PTL
=============================================================================
