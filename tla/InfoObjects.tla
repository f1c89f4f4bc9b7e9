---------------------------- MODULE InfoObjects ----------------------------
(***************************************************************************)
(* The ShareInfo and InstanceInfo objects (pkg/apis/multishare/v1) through *)
(* which the stateful controller and the reconciler talk to each other:    *)
(* the API server's objects and the informer caches that follow them.      *)
(*                                                                         *)
(* An update names the resource version of the copy it was made from and   *)
(* fails if the object has changed since.  A copy equal to the object      *)
(* stands for an up-to-date one.  Status.Error, labels and parameters are  *)
(* left out: nothing is decided from them but the wording of an answer.    *)
(* Both kinds have a status subresource (stateful/crd/crd.yaml), so status *)
(* and spec are written by different requests.                             *)
(***************************************************************************)
EXTENDS Filestore, Sizes

CONSTANTS MaxShares,       \* parseMaxSharePerInstance
          MinCap, MaxCap,  \* util.Min/MaxMultishareInstanceSizeBytes
          StepSize,        \* CapacityStepSizeGb of every instance, also the default
          ShareSize,       \* [Vols -> Nat]: size a CreateVolume asks for
          ExpandSize,      \* [Vols -> Nat]: size the volume is expanded to
          Kept,            \* volumes that are never given up
          ControllerLags,  \* volumes the controller's cache may be behind on
          MaxFaults        \* bound of the runs on faults

ASSUME InfoAssumption ==
  /\ MaxShares \in Nat \ {0}
  /\ MinCap \in Nat /\ MaxCap \in Nat /\ StepSize \in Nat /\ MinCap <= MaxCap
  /\ ShareSize \in [Vols -> Nat] /\ ExpandSize \in [Vols -> Nat]
  /\ Kept \subseteq Vols /\ ControllerLags \subseteq Vols
  /\ MaxFaults \in Nat

VARIABLES shareInfo,        \* [Vols -> ShareInfoRec], in the API server
          instanceInfo,     \* [Insts -> InstanceInfoRec], in the API server
          shareLister,      \* the reconciler's informer cache of shareInfo
          instanceLister,   \* the reconciler's informer cache of instanceInfo
          controllerLister, \* the stateful controller's informer cache of shareInfo
          faults            \* faults so far

objectVars == <<shareInfo, instanceInfo>>
cacheVars == <<shareLister, instanceLister, controllerLister>>

-----------------------------------------------------------------------------
(* The objects. *)

FilestoreStatus == {"", "creating", "ready", "updating", "deleted"}

\* pool: has an InstancePoolTag (not when reconstructed from a share); handle is
\* Status.InstanceHandle, NoInst while Status is nil; cap and status mirror the share.
ShareInfoRec == [exists: BOOLEAN, deleting: BOOLEAN, pool: BOOLEAN, spec: Nat,
                 handle: Insts \cup {NoInst}, cap: Nat, status: FilestoreStatus]
NoShareInfo == [exists |-> FALSE, deleting |-> FALSE, pool |-> FALSE, spec |-> 0,
                handle |-> NoInst, cap |-> 0, status |-> ""]
NewShareInfo(size, pool) == [NoShareInfo EXCEPT !.exists = TRUE, !.pool = pool, !.spec = size]

\* hasStatus: Status is not nil; shares is Status.ShareNames.
InstanceInfoRec == [exists: BOOLEAN, deleting: BOOLEAN, spec: Nat, hasStatus: BOOLEAN,
                    shares: SUBSET Vols, cap: Nat, status: FilestoreStatus]
NoInstanceInfo == [exists |-> FALSE, deleting |-> FALSE, spec |-> 0, hasStatus |-> FALSE,
                   shares |-> {}, cap |-> 0, status |-> ""]
NewInstanceInfo(size) == [NoInstanceInfo EXCEPT !.exists = TRUE, !.spec = size]

ObjectsInit ==
  /\ shareInfo = [v \in Vols |-> NoShareInfo]
  /\ instanceInfo = [i \in Insts |-> NoInstanceInfo]
  /\ shareLister = shareInfo /\ controllerLister = shareInfo
  /\ instanceLister = instanceInfo
  /\ faults = 0

ObjectsTypeOK ==
  /\ {shareInfo, shareLister, controllerLister} \subseteq [Vols -> ShareInfoRec]
  /\ {instanceInfo, instanceLister} \subseteq [Insts -> InstanceInfoRec]
  /\ faults \in 0..MaxFaults

-----------------------------------------------------------------------------
(* Requests to the API server.  failing is the set of objects whose request    *)
(* fails for another reason than a conflict.                                   *)

Fault == faults < MaxFaults /\ faults' = faults + 1

\* At most one of the requests a step makes for the objects X fails.
FailingAmong(failing, X) == \/ failing = {} /\ UNCHANGED faults
                            \/ Fault /\ \E x \in X : failing = {x}

\* Update and UpdateStatus are accepted for a copy that is up to date.
CurrentShare(v, copy) == copy.exists /\ copy = shareInfo[v]
CurrentInstance(i, copy) == copy.exists /\ copy = instanceInfo[i]

\* Delete on an object with a finalizer sets its deletion timestamp, whatever
\* the caller knows of it.
MarkedForDeletion(object) == IF object.exists THEN [object EXCEPT !.deleting = TRUE] ELSE object

\* An informer catches up with the API server.  Its watch is ordered: a cache is
\* always a past state of all objects of its kind.
ReconcilerSync ==
  /\ <<shareLister, instanceLister>> # objectVars
  /\ shareLister' \in {shareLister, shareInfo} /\ instanceLister' \in {instanceLister, instanceInfo}
  /\ UNCHANGED <<cloudVars, objectVars, controllerLister, faults>>

ControllerSync ==
  /\ controllerLister # shareInfo /\ controllerLister' = shareInfo
  /\ UNCHANGED <<cloudVars, objectVars, shareLister, instanceLister, faults>>
=============================================================================
