------------------------- MODULE StatefulController -------------------------
(***************************************************************************)
(* MultishareStatefulController (multishare_stateful_controller.go): CSI   *)
(* requests for multishare volumes that only record what is wanted in a    *)
(* ShareInfo, and answer success once the reconciler has made it so.       *)
(*                                                                         *)
(* A handler reads the informer cache and then writes: as the cache may be *)
(* behind by any time, one step that reads and writes covers every pause   *)
(* between the two.  A handler that changes nothing and answers an error   *)
(* is a stuttering step.  pv is what the orchestrator (external) wants and *)
(* was told; it repeats a request until it succeeds.                       *)
(***************************************************************************)
EXTENDS InfoObjects

VARIABLE pv  \* [Vols -> PVRec]

Phases == {"wanted", "bound", "released", "deleted"}
PVRec == [phase: Phases, inst: Insts \cup {NoInst}, cap: Nat]

\* The caches are left to the reconciler's module.
RequestLeavesAlone == UNCHANGED <<cloudVars, instanceInfo, faults>>

\* The share on the instance its ShareInfo points to.
GetShare(v, s) == share[s.handle][v]

-----------------------------------------------------------------------------
(* CreateVolume *)

\* The cache first, then the API server.
FoundShareInfo(v) == IF controllerLister[v].exists THEN controllerLister[v] ELSE shareInfo[v]

CreateShareInfo(v) ==
  /\ pv[v].phase = "wanted" /\ ~FoundShareInfo(v).exists
  /\ shareInfo' = [shareInfo EXCEPT ![v] = NewShareInfo(ShareSize[v], TRUE)]
  /\ UNCHANGED pv /\ RequestLeavesAlone

\* The volume id names the instance of the ShareInfo.  The capacity is left 0 (the
\* share of the answer is built from names only), which stands for the size asked for.
Told(v, s) == [pv EXCEPT ![v] = [phase |-> "bound", inst |-> s.handle, cap |-> ShareSize[v]]]

\* Variant: the share is taken for granted once it is assigned.
CreateAnswersWhenAssigned(v) ==
  LET s == FoundShareInfo(v)
  IN /\ pv[v].phase = "wanted" /\ s.exists /\ s.handle # NoInst
     /\ pv' = Told(v, s)
     /\ UNCHANGED shareInfo /\ RequestLeavesAlone

\* The share is READY by its ShareInfo, and GetShare agrees.
CreateAnswers(v) ==
  LET s == FoundShareInfo(v)
  IN /\ pv[v].phase = "wanted" /\ s.exists /\ s.handle # NoInst /\ s.status = "ready"
     /\ GetShare(v, s).state = "READY"
     /\ pv' = Told(v, s)
     /\ UNCHANGED shareInfo /\ RequestLeavesAlone

CreateVolume(v) == CreateShareInfo(v) \/ CreateAnswers(v)

-----------------------------------------------------------------------------
(* DeleteVolume *)

Deleted(v) == pv' = [pv EXCEPT ![v].phase = "deleted"]

\* No ShareInfo in the cache and no share in the cloud: it was deleted before.
DeleteFindsNothing(v) ==
  /\ pv[v].phase = "released" /\ ~controllerLister[v].exists
  /\ share[pv[v].inst][v].state = "ABSENT"
  /\ Deleted(v)
  /\ UNCHANGED shareInfo /\ RequestLeavesAlone

DeleteShareInfo(v) ==
  /\ pv[v].phase = "released" /\ controllerLister[v].exists /\ ~controllerLister[v].deleting
  /\ shareInfo' = [shareInfo EXCEPT ![v] = MarkedForDeletion(@)]
  /\ UNCHANGED pv /\ RequestLeavesAlone

\* Variant: the ShareInfo is never released.
DeleteNeverAnswers(v) == FALSE /\ Deleted(v) /\ UNCHANGED shareInfo /\ RequestLeavesAlone

\* The reconciler has seen the share gone: its finalizer is removed, and the
\* ShareInfo with it.  If the answer is lost, the request is repeated.
DeleteAnswers(v) ==
  LET s == controllerLister[v]
  IN /\ pv[v].phase = "released" /\ s.deleting /\ s.status = "deleted"
     /\ CurrentShare(v, s)
     /\ shareInfo' = [shareInfo EXCEPT ![v] = NoShareInfo]
     /\ \/ Deleted(v) /\ UNCHANGED faults
        \/ UNCHANGED pv /\ Fault
     /\ UNCHANGED <<cloudVars, instanceInfo>>

DeleteVolume(v) == DeleteFindsNothing(v) \/ DeleteShareInfo(v) \/ DeleteAnswers(v)

-----------------------------------------------------------------------------
(* ControllerExpandVolume *)

ExpandShareInfo(v) ==
  LET s == controllerLister[v]
  IN /\ pv[v].phase = "bound" /\ pv[v].cap < ExpandSize[v]
     /\ s.spec < ExpandSize[v] /\ CurrentShare(v, s)
     /\ shareInfo' = [shareInfo EXCEPT ![v].spec = ExpandSize[v]]
     /\ UNCHANGED pv /\ RequestLeavesAlone

ExpandAnswers(v) ==
  LET s == controllerLister[v]
  IN /\ pv[v].phase = "bound" /\ pv[v].cap < ExpandSize[v]
     /\ s.exists /\ s.spec >= ExpandSize[v]
     /\ s.handle # NoInst /\ s.cap >= ExpandSize[v] /\ s.status = "ready"
     /\ GetShare(v, s).state # "ABSENT" /\ GetShare(v, s).cap >= ExpandSize[v]
     /\ pv' = [pv EXCEPT ![v].cap = ExpandSize[v]]
     /\ UNCHANGED shareInfo /\ RequestLeavesAlone

ControllerExpandVolume(v) == ExpandShareInfo(v) \/ ExpandAnswers(v)

-----------------------------------------------------------------------------
\* The orchestrator gives a bound volume up, unless it is one it keeps.
ReleasePV(v) ==
  /\ pv[v].phase = "bound" /\ v \notin Kept
  /\ pv' = [pv EXCEPT ![v].phase = "released"]
  /\ UNCHANGED shareInfo /\ RequestLeavesAlone
=============================================================================
