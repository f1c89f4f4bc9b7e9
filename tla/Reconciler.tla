----------------------------- MODULE Reconciler -----------------------------
(***************************************************************************)
(* MultishareReconciler (pkg/csi_driver/reconciler.go) together with the   *)
(* stateful controller and Filestore: one goroutine that every minute      *)
(* lists shares and instances, brings ShareInfos and InstanceInfos in line *)
(* with them, assigns new shares to instances, sizes the instances, and    *)
(* sends the requests that are missing.                                    *)
(*                                                                         *)
(* A round works on what it read: shares listed at its start, maps of      *)
(* object copies, operations listed half-way.  It is cut into steps where  *)
(* it reads Filestore and at each object it works on; requests, operations *)
(* and informers go on in between.  Writing an error into an object's      *)
(* Status is a fault of the next write to it: it makes copies stale.       *)
(***************************************************************************)
EXTENDS StatefulController

CONSTANTS CacheLags,      \* may a round start before the informers have caught up?
          ManualDeletes,  \* may the user delete an instance behind the driver's back?
          Migrated,       \* [Vols -> Insts \cup {NoInst}]: shares made without the reconciler
          MigratedCap     \* capacity of the instances they are on

ASSUME ReconcilerAssumption ==
  /\ CacheLags \in BOOLEAN /\ ManualDeletes \in BOOLEAN
  /\ Migrated \in [Vols -> Insts \cup {NoInst}] /\ MigratedCap \in 0..MaxCap

VARIABLE recon  \* the round that is running

vars == <<cloudVars, objectVars, cacheVars, faults, pv, recon>>

RoundPhases == {"idle", "listed", "pointers", "assign", "resize", "instances", "shares"}

\* todo: what the phase has still to look at; shares: the answer of ListShares;
\* onInst: instanceShares, the shares of each instance;
\* si, ii: shareInfoMap and instanceInfoMap; targets: resources with an operation.
Idle == [phase |-> "idle", todo |-> {}, shares |-> [i \in Insts |-> [v \in Vols |-> AbsentShare]],
         onInst |-> [i \in Insts |-> {}],
         si |-> [v \in Vols |-> NoShareInfo], ii |-> [i \in Insts |-> NoInstanceInfo],
         targets |-> {}]

ReconTypeOK == recon \in
  [phase: RoundPhases, todo: SUBSET (Insts \cup Vols \cup (Insts \X Vols)),
   shares: [Insts -> [Vols -> ShareRec]], onInst: [Insts -> SUBSET Vols],
   si: [Vols -> ShareInfoRec], ii: [Insts -> InstanceInfoRec],
   targets: SUBSET (Insts \X (Vols \cup {NoVol}))]

TypeOK == CloudTypeOK /\ ObjectsTypeOK /\ pv \in [Vols -> PVRec] /\ ReconTypeOK

Init ==
  /\ ObjectsInit /\ ops = {} /\ recon = Idle
  /\ instance = [i \in Insts |-> IF i \in Range(Migrated)
                   THEN [state |-> "READY", cap |-> MigratedCap, protocol |-> "NFS_V3"]
                   ELSE AbsentInstance("UNUSED")]
  /\ share = [i \in Insts |-> [v \in Vols |-> IF Migrated[v] = i
                   THEN [state |-> "READY", cap |-> ShareSize[v]] ELSE AbsentShare]]
  /\ pv = [v \in Vols |-> IF Migrated[v] = NoInst
             THEN [phase |-> "wanted", inst |-> NoInst, cap |-> 0]
             ELSE [phase |-> "bound", inst |-> Migrated[v], cap |-> ShareSize[v]]]

\* Unless caches may lag without bound, the reconciler's informers are up to date
\* but for the part of a round in which it reads from them: an assumption, since the
\* code waits for them once (reconciler.go:97) and then starts a round a minute (104).
\* The controller's is for the volumes it is not behind on.
ReadsCaches == {"listed", "pointers", "assign", "resize"}
CachesFollow ==
  /\ IF CacheLags \/ recon'.phase \in ReadsCaches
     THEN UNCHANGED <<shareLister, instanceLister>>
     ELSE shareLister' = shareInfo' /\ instanceLister' = instanceInfo'
  /\ controllerLister' = [v \in Vols |-> IF v \in ControllerLags THEN controllerLister[v]
                                                               ELSE shareInfo'[v]]

\* What every step of a round leaves alone, besides Filestore or the objects.
RoundLeavesAlone == UNCHANGED pv /\ CachesFollow

-----------------------------------------------------------------------------
(* Walking through the phases: a phase with nothing to do is passed over.  *)

\* Variant: a share whose creation has not been seen yet is assigned once more.
UnassignedOrUnseen(r) == {v \in Vols : /\ r.si[v].exists /\ r.si[v].status = ""
                                       /\ ~r.si[v].deleting /\ r.si[v].pool}
Unassigned(r) == {v \in Vols : /\ r.si[v].exists /\ r.si[v].handle = NoInst
                               /\ ~r.si[v].deleting /\ r.si[v].pool}

\* An InstanceInfo lists a share that points to no instance, or to another one.
WrongPointers(r) == {p \in Insts \X Vols :
                       LET i == p[1] v == p[2]
                       IN v \in r.ii[i].shares /\ r.si[v].exists /\ r.si[v].handle # i}

AfterAssign(r) == IF r.todo = {} THEN [r EXCEPT !.phase = "resize"] ELSE r
AfterPointers(r) == IF r.todo = {}
  THEN AfterAssign([r EXCEPT !.phase = "assign", !.todo = Unassigned(r)]) ELSE r
StartPointers(r) ==
  AfterPointers([r EXCEPT !.phase = "pointers", !.todo = WrongPointers(r)])

\* sendInstanceRequests passes over a ready instance of the right size, and over
\* one that is UPDATING: it may be broken, or deleted by the user.
InstanceNeedsRequest(ii) ==
  ii.exists /\ ~(/\ ~ii.deleting /\ ii.hasStatus /\ ii.spec = ii.cap
                 /\ ii.status \in {"ready", "updating"})

\* sendShareRequests: to be deleted and not known to be, or not as it should be.
ShareNeedsRequest(si) ==
  /\ si.exists
  /\ IF si.deleting THEN si.status # "deleted" /\ si.handle # NoInst
                    ELSE si.handle # NoInst /\ si.spec # si.cap

AfterShares(r) == IF r.todo = {} THEN Idle ELSE r
AfterInstances(r) == IF r.todo = {}
  THEN AfterShares([r EXCEPT !.phase = "shares", !.todo = {v \in Vols : ShareNeedsRequest(r.si[v])}])
  ELSE r
StartRequests(r) == AfterInstances([r EXCEPT !.phase = "instances",
                                             !.todo = {i \in Insts : InstanceNeedsRequest(r.ii[i])}])

-----------------------------------------------------------------------------
(* ListShares and ListMultishareInstances, and what they say of the objects. *)

ListShares ==
  /\ recon.phase = "idle"
  /\ recon' = [recon EXCEPT !.phase = "listed", !.shares = share]
  /\ UNCHANGED <<cloudVars, objectVars, faults>> /\ RoundLeavesAlone

\* Variant: states the custom resource does not know are passed on.
CRDStatusPassedOn(state) == CASE state = "CREATING" -> "creating" [] state = "READY" -> "ready"
                              [] OTHER -> state

\* ShareStateToCRDStatus, InstanceStateToCRDStatus.
CRDStatus(state) == CASE state = "CREATING" -> "creating"
                      [] state = "READY" -> "ready"
                      [] OTHER -> "updating"

\* managedInstanceAndShare: the shares of the listed instances.
InstanceShares ==
  [i \in Insts |-> IF Listed(i) THEN {v \in Vols : recon.shares[i][v].state # "ABSENT"} ELSE {}]

\* createShareInfo, reconstructInstanceInfo: without an instance pool or parameters.
CreatedShareInfo(i, v) == NewShareInfo(recon.shares[i][v].cap, FALSE)
ReconstructedInstanceInfo(i) == NewInstanceInfo(instance[i].cap)

\* The copy to start from: the informer's, the API server's, or a new object.
ShareCopy(i, v) == CASE shareLister[v].exists -> shareLister[v]
                     [] ~shareLister[v].exists /\ shareInfo[v].exists -> shareInfo[v]
                     [] OTHER -> CreatedShareInfo(i, v)
InstanceCopy(i) == CASE instanceLister[i].exists -> instanceLister[i]
                     [] ~instanceLister[i].exists /\ instanceInfo[i].exists -> instanceInfo[i]
                     [] OTHER -> ReconstructedInstanceInfo(i)

\* Variant: shares that are not listed (yet) are dropped from the InstanceInfo.
InstanceAsListedOnly(i) ==
  [InstanceCopy(i) EXCEPT !.hasStatus = TRUE, !.shares = InstanceShares[i],
                          !.cap = instance[i].cap, !.status = CRDStatus(instance[i].state)]

\* maybeUpdateShareInfoStatus, maybeUpdateInstanceInfoStatus: the copy brought in
\* line with what was listed.  Names of shares are only ever added.
ShareAsListed(i, v) == [ShareCopy(i, v) EXCEPT !.handle = i, !.cap = recon.shares[i][v].cap,
                                               !.status = CRDStatus(recon.shares[i][v].state)]
InstanceAsListed(i) ==
  [InstanceCopy(i) EXCEPT !.hasStatus = TRUE, !.shares = @ \cup InstanceShares[i],
                          !.cap = instance[i].cap, !.status = CRDStatus(instance[i].state)]

\* maybeRemoveInstanceInfoFinalizer: of an instance that is not listed.
FinalizerGoes(i) == ~Listed(i) /\ instanceLister[i].deleting /\ instanceLister[i].hasStatus

\* createAndUpdateShareInfos and createAndUpdateInstanceInfos.  What cannot be
\* written stays in the maps as it was read; an object that cannot be created, or
\* be released, is left out.
UpdateInfos ==
  /\ recon.phase = "listed"
  /\ \E failing \in SUBSET (Vols \cup Insts) :
       LET onInst == InstanceShares
           parents(v) == {i \in Insts : v \in onInst[i]}
           parent(v) == CHOOSE i \in parents(v) : TRUE
           newShare(v) == ~shareLister[v].exists /\ ~shareInfo[v].exists
           newInstance(i) == ~instanceLister[i].exists /\ ~instanceInfo[i].exists
           shareWritten(v) == /\ parents(v) # {} /\ v \notin failing
                              /\ newShare(v) \/ CurrentShare(v, ShareCopy(parent(v), v))
           instanceWritten(i) == /\ Listed(i) /\ i \notin failing
                                 /\ newInstance(i) \/ CurrentInstance(i, InstanceCopy(i))
           released(i) == FinalizerGoes(i) /\ i \notin failing /\ CurrentInstance(i, instanceLister[i])
       IN /\ FailingAmong(failing, {v \in Vols : parents(v) # {} /\ shareInfo[v] # ShareAsListed(parent(v), v)}
              \cup {i \in Insts : FinalizerGoes(i) \/ (Listed(i) /\ instanceInfo[i] # InstanceAsListed(i))})
          /\ shareInfo' = [v \in Vols |-> IF shareWritten(v) THEN ShareAsListed(parent(v), v)
                                                             ELSE shareInfo[v]]
          /\ instanceInfo' = [i \in Insts |-> CASE instanceWritten(i) -> InstanceAsListed(i)
                                                [] released(i) -> NoInstanceInfo
                                                [] OTHER -> instanceInfo[i]]
          /\ recon' = StartPointers([Idle EXCEPT
               !.onInst = onInst,
               !.si = [v \in Vols |-> CASE shareWritten(v) -> ShareAsListed(parent(v), v)
                                        [] ~shareWritten(v) /\ parents(v) # {} /\ ~newShare(v) -> ShareCopy(parent(v), v)
                                        [] OTHER -> shareLister[v]],
               !.ii = [i \in Insts |-> CASE instanceWritten(i) -> InstanceAsListed(i)
                                         [] ~instanceWritten(i) /\ Listed(i) /\ ~newInstance(i) -> InstanceCopy(i)
                                         [] FinalizerGoes(i) -> NoInstanceInfo
                                         [] OTHER -> instanceLister[i]]])
  /\ UNCHANGED cloudVars /\ RoundLeavesAlone

-----------------------------------------------------------------------------
(* assignSharesToInstances *)

Done(r, x) == [r EXCEPT !.todo = @ \ {x}]

\* assignShareToInstanceInfo, removeShareFromInstanceInfo: new ShareNames for a copy.
WithShare(ii, v) == [ii EXCEPT !.hasStatus = TRUE, !.shares = @ \cup {v}]
\* Variant: the name stays.
WithShareKept(ii, v) == [ii EXCEPT !.shares = @]
WithoutShare(ii, v) == [ii EXCEPT !.shares = @ \ {v}]

\* assignInstanceToShareInfo, the second of the two pointers.
PointTo(v, i) == [recon.si[v] EXCEPT !.handle = i]

\* Variant: the InstanceInfo always decides.
PointBackAlways(i, v, failing) ==
  LET ok == v \notin failing /\ CurrentShare(v, recon.si[v])
  IN /\ shareInfo' = IF ok THEN [shareInfo EXCEPT ![v] = PointTo(v, i)] ELSE shareInfo
     /\ recon' = AfterPointers(Done(IF ok THEN [recon EXCEPT !.si[v] = PointTo(v, i)] ELSE recon, <<i, v>>))
     /\ UNCHANGED instanceInfo

\* fixTwoWayPointers, a share v that InstanceInfo i lists although the ShareInfo
\* does not point to i.  If it points nowhere it is made to.
PointBack(i, v, failing) ==
  LET ok == v \notin failing /\ CurrentShare(v, recon.si[v])
  IN /\ recon.si[v].handle = NoInst
     /\ shareInfo' = IF ok THEN [shareInfo EXCEPT ![v] = PointTo(v, i)] ELSE shareInfo
     /\ recon' = AfterPointers(Done(IF ok THEN [recon EXCEPT !.si[v] = PointTo(v, i)] ELSE recon, <<i, v>>))
     /\ UNCHANGED instanceInfo

\* If it points to another instance, that one must list it, unless the share is
\* being deleted; then i need not.
MoveToTarget(i, v, failing) ==
  LET j == recon.si[v].handle
      needed == ~recon.si[v].deleting /\ v \notin recon.ii[j].shares
      found == recon.ii[j].exists
      gains == /\ needed /\ j \notin failing
               /\ IF found THEN CurrentInstance(j, recon.ii[j])
                           ELSE ~instanceInfo[j].exists /\ recon.si[v].pool
      loses == (needed => gains) /\ i \notin failing /\ CurrentInstance(i, recon.ii[i])
      written == [x \in Insts |->
        CASE x = j /\ gains -> WithShare(IF found THEN recon.ii[j] ELSE NewInstanceInfo(MinCap), v)
          [] x = i /\ loses -> WithoutShare(recon.ii[i], v)
          [] OTHER -> NoInstanceInfo]
      \* what was written, and the rest of a map of InstanceInfos
      Updated(infos) == [x \in Insts |-> IF written[x].exists THEN written[x] ELSE infos[x]]
  IN /\ recon.si[v].handle # NoInst
     /\ instanceInfo' = Updated(instanceInfo)
     /\ recon' = AfterPointers(Done([recon EXCEPT !.ii = Updated(@)], <<i, v>>))
     /\ UNCHANGED shareInfo

FixTwoWayPointers(i, v) ==
  /\ recon.phase = "pointers" /\ <<i, v>> \in recon.todo
  /\ \E failing \in SUBSET {i, v, recon.si[v].handle} :
       /\ FailingAmong(failing, {i, v, recon.si[v].handle})
       /\ PointBack(i, v, failing) \/ MoveToTarget(i, v, failing)
  /\ UNCHANGED cloudVars /\ RoundLeavesAlone

\* instanceFitShare: by the number of shares, never by their sizes.
InstanceFitShare(ii) ==
  /\ ii.exists /\ ~ii.deleting
  /\ Cardinality(ii.shares) < MaxShares
  /\ ~(ii.hasStatus /\ ii.status = "updating")

Fits == {i \in Insts : InstanceFitShare(recon.ii[i])}
Accepting(i, v) == v \in recon.ii[i].shares \/ CurrentInstance(i, recon.ii[i])

\* A uuid nobody has used.
FreshName(i) ==
  /\ instance[i].state = "UNUSED" /\ ~instanceInfo[i].exists /\ ~instanceLister[i].exists
  /\ ~recon.ii[i].exists
  /\ \A v \in Vols : i \notin {shareInfo[v].handle, shareLister[v].handle, recon.si[v].handle}

\* The share is listed on instance i, then made to point to it; the second write
\* may fail when the first has been done.
AssignTo(i, v, ii, failing) ==
  LET pointed == v \notin failing /\ CurrentShare(v, recon.si[v])
  IN /\ instanceInfo' = [instanceInfo EXCEPT ![i] = WithShare(ii, v)]
     /\ shareInfo' = IF pointed THEN [shareInfo EXCEPT ![v] = PointTo(v, i)] ELSE shareInfo
     /\ recon' = AfterAssign(Done([recon EXCEPT
          !.ii[i] = WithShare(ii, v), !.si[v] = IF pointed THEN PointTo(v, i) ELSE @], v))

\* Instances are tried in any order until one takes the share.
AssignToEligible(v) ==
  \E i \in Fits : /\ Accepting(i, v)
                  /\ \E failing \in SUBSET {v} : /\ FailingAmong(failing, {v})
                                                /\ AssignTo(i, v, recon.ii[i], failing)

\* No instance that fits could be updated: the share waits for the next round.
AssignmentFails(v) ==
  /\ Fits # {}
  /\ \E failing \in SUBSET Fits :
       /\ FailingAmong(failing, Fits) /\ \A i \in Fits \ failing : ~Accepting(i, v)
  /\ recon' = AfterAssign(Done(recon, v))
  /\ UNCHANGED objectVars

\* generateInstanceInfo.  failing: the object is not created, or it is but
\* without a share (and is not in the map).
AssignToNew(v) ==
  /\ Fits = {}
  /\ \/ \E i \in Insts : /\ FreshName(i)
                         /\ \E failing \in SUBSET {v} :
                              /\ FailingAmong(failing, {v})
                              /\ AssignTo(i, v, NewInstanceInfo(MinCap), failing)
     \/ /\ Fault /\ recon' = AfterAssign(Done(recon, v))
        /\ \/ UNCHANGED objectVars
           \/ \E i \in Insts : /\ FreshName(i)
                               /\ instanceInfo' = [instanceInfo EXCEPT ![i] = NewInstanceInfo(MinCap)]
                               /\ UNCHANGED shareInfo
     \/ /\ \A i \in Insts : ~FreshName(i)  \* a bound of the runs: names are used up
        /\ recon' = AfterAssign(Done(recon, v))
        /\ UNCHANGED <<objectVars, faults>>

AssignShare(v) ==
  /\ recon.phase = "assign" /\ v \in recon.todo
  /\ AssignToEligible(v) \/ AssignmentFails(v) \/ AssignToNew(v)
  /\ UNCHANGED cloudVars /\ RoundLeavesAlone

\* Variant: the sizes the shares have, not the ones they are to have.
NewCapacityByStatus(ii) ==
  LET sizes == [v \in Vols |-> IF v \in ii.shares /\ shareLister[v].exists THEN shareLister[v].cap ELSE 0]
  IN Smaller(Larger(AlignBytes(SumFunction(sizes), StepSize), MinCap), MaxCap)

\* instanceInfoNewCapacity: the aligned sum of the shares the informer knows.
NewCapacity(ii) ==
  LET sizes == [v \in Vols |-> IF v \in ii.shares /\ shareLister[v].exists THEN shareLister[v].spec ELSE 0]
  IN Smaller(Larger(AlignBytes(SumFunction(sizes), StepSize), MinCap), MaxCap)

InstanceEmpty(ii) == ii.hasStatus /\ ii.shares = {}

\* listMultishareResourceOps: what an operation is running on.  One that has failed
\* only puts its error in a Status.
OperationTargets == {<<o.inst, o.vol>> : o \in ops}

\* deleteOrResizeInstances, and the listing of operations after it.  Delete names
\* no resource version: it takes whatever the object has become.
DeleteOrResizeInstances ==
  /\ recon.phase = "resize"
  /\ LET considered == {i \in Insts : recon.ii[i].exists /\ ~recon.ii[i].deleting}
         emptied == {i \in considered : InstanceEmpty(recon.ii[i])}
         resized == {i \in considered : /\ recon.ii[i].shares # {}
                                        /\ NewCapacity(recon.ii[i]) # recon.ii[i].spec}
     IN \E failing \in SUBSET (emptied \cup resized) :
          LET accepted == {i \in resized \ failing : CurrentInstance(i, recon.ii[i])}
              Resized(i) == [recon.ii[i] EXCEPT !.spec = NewCapacity(recon.ii[i])]
          IN /\ FailingAmong(failing, emptied \cup resized)
             /\ instanceInfo' = [i \in Insts |->
                  CASE i \in accepted -> Resized(i)
                    [] i \in emptied \ failing -> MarkedForDeletion(instanceInfo[i])
                    [] OTHER -> instanceInfo[i]]
             /\ recon' = StartRequests([recon EXCEPT
                  !.ii = [i \in Insts |-> IF i \in accepted THEN Resized(i) ELSE @[i]],
                  !.targets = OperationTargets])
  /\ UNCHANGED <<cloudVars, shareInfo>> /\ RoundLeavesAlone

-----------------------------------------------------------------------------
(* sendInstanceRequests *)

\* Variant: an instance is created only while its InstanceInfo has no Status.
InstanceRequestOnce(i) ==
  LET ii == recon.ii[i]
  IN CASE ii.deleting -> {OpOnInstance("InstanceDelete", i, 0)}
       [] ~ii.deleting /\ ~ii.hasStatus -> {OpOnInstance("InstanceCreate", i, ii.spec)}
       [] ~ii.deleting /\ ii.cap # 0 /\ ii.spec # ii.cap -> {OpOnInstance("InstanceUpdate", i, ii.spec)}
       [] OTHER -> {}

InstanceRequest(i) ==
  LET ii == recon.ii[i]
  IN CASE ii.deleting -> {OpOnInstance("InstanceDelete", i, 0)}
       [] ~ii.deleting /\ ii.status \notin {"ready", "updating"} -> {OpOnInstance("InstanceCreate", i, ii.spec)}
       [] ~ii.deleting /\ ii.status \in {"ready", "updating"} /\ ii.cap # 0 /\ ii.spec # ii.cap
            -> {OpOnInstance("InstanceUpdate", i, ii.spec)}
       [] OTHER -> {}

\* updateInstanceInfoErr gives an InstanceInfo without one a Status.
RecordsError(i) ==
  instanceInfo' = IF ~recon.ii[i].hasStatus /\ CurrentInstance(i, recon.ii[i])
                  THEN [instanceInfo EXCEPT ![i].hasStatus = TRUE] ELSE instanceInfo

\* One instance: nothing while an operation is running on it, else one request.
SendInstanceRequest(i) ==
  /\ recon.phase = "instances" /\ i \in recon.todo
  /\ \/ /\ <<i, NoVol>> \in recon.targets \/ InstanceRequest(i) = {}
        /\ UNCHANGED <<cloudVars, instanceInfo, faults>>
     \/ /\ <<i, NoVol>> \notin recon.targets
        /\ \E o \in InstanceRequest(i) :
             \/ StartOp(o, "NFS_V3") /\ UNCHANGED <<instanceInfo, faults>>
             \/ ~Accepts(o) /\ RecordsError(i) /\ UNCHANGED <<cloudVars, faults>>
             \/ Fault /\ RecordsError(i) /\ UNCHANGED cloudVars
  /\ recon' = AfterInstances(Done(recon, i))
  /\ UNCHANGED shareInfo /\ RoundLeavesAlone

-----------------------------------------------------------------------------
(* sendShareRequests *)

\* Variant: a share that is to be deleted is taken for gone.
ShareGoneUnchecked(v) == recon.si[v].deleting
ShareGone(v) == recon.si[v].deleting /\ v \notin recon.onInst[recon.si[v].handle]

\* maybeMarkShareInfoStatusDeleted: the share is first taken off its InstanceInfo;
\* only when both writes are done does the round know it.
MarkShareInfoStatusDeleted(v) ==
  LET i == recon.si[v].handle
      ii == recon.ii[i]
      removed == WithoutShare(ii, v)
      deleted == [recon.si[v] EXCEPT !.status = "deleted"]
  IN /\ ShareGone(v) /\ ii.exists
     /\ \E failing \in SUBSET {i, v} :
          LET offList == v \notin ii.shares \/ (i \notin failing /\ CurrentInstance(i, ii))
              marked == offList /\ v \notin failing /\ CurrentShare(v, recon.si[v])
          IN /\ FailingAmong(failing, {i, v})
             /\ instanceInfo' = IF offList /\ v \in ii.shares THEN [instanceInfo EXCEPT ![i] = removed]
                                                             ELSE instanceInfo
             /\ shareInfo' = IF marked THEN [shareInfo EXCEPT ![v] = deleted] ELSE shareInfo
             /\ recon' = AfterShares(Done(IF marked THEN [recon EXCEPT !.ii[i] = removed] ELSE recon, v))
     /\ UNCHANGED cloudVars

\* Only a ready instance that has its size is asked.
InstanceIsReady(ii) == ii.exists /\ ii.hasStatus /\ ii.status = "ready" /\ ii.cap >= ii.spec

ShareRequest(v) ==
  LET si == recon.si[v]
  IN CASE si.deleting -> {OpOnShare("ShareDelete", si.handle, v, 0)}
       [] ~si.deleting /\ si.status # "ready" -> {OpOnShare("ShareCreate", si.handle, v, si.spec)}
       [] ~si.deleting /\ si.status = "ready" /\ si.cap # 0 -> {OpOnShare("ShareUpdate", si.handle, v, si.spec)}
       [] OTHER -> {}

\* An operation on this very share holds the request back, one on its instance
\* does not.
ShareMayBeSent(v) == /\ ~ShareGone(v) /\ InstanceIsReady(recon.ii[recon.si[v].handle])
                     /\ <<recon.si[v].handle, v>> \notin recon.targets

SendShareRequest(v) ==
  /\ recon.phase = "shares" /\ v \in recon.todo
  /\ \/ MarkShareInfoStatusDeleted(v)
     \/ /\ \/ /\ ShareMayBeSent(v)
              /\ \E o \in ShareRequest(v) : \/ StartOp(o, "") /\ UNCHANGED faults
                                            \/ ~Accepts(o) /\ UNCHANGED <<cloudVars, faults>>
                                            \/ Fault /\ UNCHANGED cloudVars
           \/ /\ IF ShareGone(v) THEN ~recon.ii[recon.si[v].handle].exists
                                 ELSE ~ShareMayBeSent(v) \/ ShareRequest(v) = {}
              /\ UNCHANGED <<cloudVars, faults>>
        /\ recon' = AfterShares(Done(recon, v))
        /\ UNCHANGED objectVars
  /\ RoundLeavesAlone

-----------------------------------------------------------------------------
(* Around the reconciler. *)

\* A failed listing of shares, instances or operations ends the round, a crash or
\* the loss of the lease the process: what was written remains.
RoundEnds ==
  /\ recon.phase # "idle" /\ Fault
  /\ recon' = Idle
  /\ UNCHANGED <<cloudVars, objectVars>> /\ RoundLeavesAlone

OpDone(o) ==
  /\ \/ OpSucceeds(o) /\ UNCHANGED faults
     \/ OpFails(o) /\ Fault
  /\ UNCHANGED <<objectVars, recon>> /\ RoundLeavesAlone

Repair(i) ==
  /\ \/ RepairStarts(i) /\ Fault
     \/ RepairEnds(i) /\ UNCHANGED faults
  /\ UNCHANGED <<objectVars, recon>> /\ RoundLeavesAlone

\* The user deletes an instance with everything on it.
ManualDelete(i) ==
  /\ ManualDeletes /\ instance[i].state = "READY" /\ \A o \in ops : o.inst # i
  /\ Fault
  /\ instance' = [instance EXCEPT ![i] = AbsentInstance("GONE")]
  /\ share' = [share EXCEPT ![i] = [v \in Vols |-> AbsentShare]]
  /\ UNCHANGED <<ops, objectVars, recon>> /\ RoundLeavesAlone

RequestLeavesRound == UNCHANGED recon /\ CachesFollow
Creates(v) == CreateVolume(v) /\ RequestLeavesRound
Deletes(v) == DeleteVolume(v) /\ RequestLeavesRound
Expands(v) == ControllerExpandVolume(v) /\ RequestLeavesRound
Releases(v) == ReleasePV(v) /\ RequestLeavesRound
Sync == (ReconcilerSync \/ ControllerSync) /\ UNCHANGED <<pv, recon>>

RoundStep == \/ ListShares \/ UpdateInfos
             \/ \E i \in Insts, v \in Vols : FixTwoWayPointers(i, v)
             \/ \E v \in Vols : AssignShare(v)
             \/ DeleteOrResizeInstances
             \/ \E i \in Insts : SendInstanceRequest(i)
             \/ \E v \in Vols : SendShareRequest(v)

Next == \/ RoundStep \/ RoundEnds \/ Sync
        \/ \E v \in Vols : Creates(v) \/ Deletes(v) \/ Expands(v) \/ Releases(v)
        \/ \E o \in ops : OpDone(o)
        \/ \E i \in Insts : Repair(i) \/ ManualDelete(i)

Spec == Init /\ [][Next]_vars
=============================================================================
