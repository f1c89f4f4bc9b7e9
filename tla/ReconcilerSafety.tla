-------------------------- MODULE ReconcilerSafety --------------------------
(***************************************************************************)
(* What the stateful controller and the reconciler promise together:       *)
(* safety, action and liveness properties of Reconciler, and the fairness  *)
(* they assume.                                                            *)
(***************************************************************************)
EXTENDS Reconciler

-----------------------------------------------------------------------------
(* The contract of every volume. *)

\* The instances that have a share of the volume; of several, the one the
\* orchestrator was told about.
Homes(v) == {i \in Insts : share[i][v].state # "ABSENT"}
Home(v) == IF pv[v].inst \in Homes(v) THEN pv[v].inst ELSE CHOOSE i \in Homes(v) : TRUE
UsableOn(i, v) == share[i][v].state = "READY" /\ instance[i].state \in {"READY", "REPAIRING"}

Lifecycle == INSTANCE VolumeLifecycle WITH
  phase <- [v \in Vols |-> pv[v].phase],
  told <- [v \in Vols |-> pv[v].cap],
  state <- [v \in Vols |-> CASE Homes(v) = {} -> "none"
                             [] Homes(v) # {} /\ UsableOn(Home(v), v) -> "usable"
                             [] OTHER -> "partial"],
  capacity <- [v \in Vols |-> IF Homes(v) = {} THEN 0 ELSE share[Home(v)][v].cap]

\* CreateVolume, ControllerExpandVolume and DeleteVolume answer success only for
\* what Filestore has done, and no round, however late its view, undoes it.
ImplementsLifecycle == Lifecycle!Spec

-----------------------------------------------------------------------------
(* Objects and Filestore. *)

\* A ShareInfo that points to an instance goes on pointing to it: shares cannot
\* be moved around (reconciler.go:560).
ShareStaysPut ==
  [][\A v \in Vols : shareInfo[v].handle # NoInst /\ shareInfo'[v].exists
                     => shareInfo'[v].handle = shareInfo[v].handle]_vars

\* A share is only ever created on the instance its ShareInfo points to, so a
\* volume never has two, whichever copies the rounds acted on.
ShareAtItsHandle ==
  \A v \in Vols, i \in Insts :
    v \in SharesOf(i) /\ shareInfo[v].exists /\ shareInfo[v].handle # NoInst => shareInfo[v].handle = i

\* An instance whose deletion was decided has no share, and no ShareInfo that is
\* still wanted points to it (deletion is for instances without shares,
\* reconciler.go:706).
DeletedWhenEmpty ==
  \A i \in Insts : instanceInfo[i].deleting \/ instance[i].state = "DELETING" =>
    /\ SharesOf(i) = {}
    /\ \A v \in Vols : shareInfo[v].exists /\ shareInfo[v].handle = i => shareInfo[v].deleting

\* "minimum viable Spec.CapacityBytes" (reconciler.go:707): the size an instance is to
\* have is lowered only as far as the shares have room that are on it at that moment, as
\* large as they are then, and that the informer knows of (reconciler.go:980); it is
\* computed from an older view, and shares are resized meanwhile.
KnownShareBytes(i) == SumFunction([v \in Vols |-> IF shareLister[v].exists THEN share[i][v].cap ELSE 0])
ShrinkDecidedWithKnownRoom ==
  [][\A i \in Insts : instanceInfo'[i].exists /\ instanceInfo'[i].spec < instanceInfo[i].spec
                      => instanceInfo'[i].spec >= KnownShareBytes(i)]_vars

-----------------------------------------------------------------------------
(* The inductive strengthening of ShareStaysPut and ShareAtItsHandle. *)

\* The instances that Filestore, an object, a cache, the round or the orchestrator
\* names for a volume.
Places(v) ==
  ({shareInfo[v].handle, shareLister[v].handle, controllerLister[v].handle,
    recon.si[v].handle, pv[v].inst} \ {NoInst})
  \cup {i \in Insts : \/ v \in SharesOf(i)
                      \/ recon.shares[i][v].state # "ABSENT"
                      \/ \E o \in ops : o.inst = i /\ o.vol = v}

\* Not assigned yet: the API server has no instance for it and, if it has no ShareInfo
\* either, no answer was given.
Unplaced(v) == IF shareInfo[v].exists THEN shareInfo[v].handle = NoInst ELSE pv[v].phase = "wanted"

\* However old the copies are, all of them agree on one instance, and they name none
\* while the volume may still be assigned to any.
PlaceOK(v) == /\ \A i, j \in Places(v) : i = j
              /\ Unplaced(v) => Places(v) = {}

\* A round only assigns the shares that its copy names no instance for, and only sends
\* requests for those that it names one for.
WorkFits(r) == \A v \in Vols : v \in r.todo =>
  /\ r.phase = "assign" => r.si[v].handle = NoInst
  /\ r.phase = "shares" => r.si[v].handle # NoInst

PlacesInv == TypeOK /\ WorkFits(recon) /\ \A v \in Vols : PlaceOK(v)

-----------------------------------------------------------------------------
(* The inductive strengthening of DeletedWhenEmpty, for informers that keep up *)
(* between the rounds: what points to an instance, what is on it, and what its *)
(* InstanceInfo lists.                                                         *)

\* The copies of a ShareInfo that a round may act on, and what one points to.
Copies(v) == {shareInfo[v], shareLister[v], recon.si[v]}
PointsTo(s, i) == s.exists /\ ~s.deleting /\ s.handle = i
ListedOn(i) == {v \in Vols : recon.shares[i][v].state # "ABSENT"}

\* The phases in which a round has copies of InstanceInfos, and of those the ones in
\* which they are up to date.  Then it only waits for some shares to be asked for.
ReadsObjects == {"pointers", "assign", "resize"}
SendsRequests == {"instances", "shares"}
ToBeSent(r, v) == r.phase = "shares" => v \in r.todo

CachesInStep ==
  /\ recon.phase \notin ReadsCaches => shareLister = shareInfo /\ instanceLister = instanceInfo
  /\ recon.phase = "listed" => instanceLister = instanceInfo

\* The InstanceInfo a copy points to lists the share and is not being deleted; there is
\* none yet only for a share that was found on its instance.
LinkFor(s, i, v) == PointsTo(s, i) =>
  /\ ~instanceInfo[i].deleting
  /\ instanceInfo[i].exists => v \in instanceInfo[i].shares
  /\ ~instanceInfo[i].exists => ~s.pool /\ (Listed(i) => v \in SharesOf(i))

InstanceLinks(i) ==
  /\ instanceInfo[i].deleting => instanceInfo[i].exists /\ instanceInfo[i].shares = {}
  /\ instanceInfo[i].shares # {} => instanceInfo[i].exists
  /\ instanceInfo[i].exists => SharesOf(i) \subseteq instanceInfo[i].shares
  /\ instance[i].state = "DELETING" => instanceInfo[i].deleting
  /\ SharesOf(i) # {} => instance[i].state \in {"READY", "REPAIRING"}

\* Until the round has worked on it, what was listed is what there is.
ListingLinks(i) == recon.phase = "listed" =>
  /\ SharesOf(i) \subseteq ListedOn(i)
  /\ instanceInfo[i].exists => ListedOn(i) \subseteq instanceInfo[i].shares
  /\ ~instanceInfo[i].exists /\ Listed(i) => ListedOn(i) \subseteq SharesOf(i)

\* A round's InstanceInfos are there and only differ from its copies once it has stopped
\* reading; a share that the round does not know of was created by the round itself.
RoundLinks(i) ==
  LET ii == recon.ii[i]
  IN /\ recon.phase \in ReadsObjects /\ ii.exists => ii = instanceInfo[i]
     /\ ii.exists => instanceInfo[i].exists
     /\ ii.deleting => instanceInfo[i].deleting
     /\ ii.shares # {} \/ (recon.phase = "instances" /\ i \in recon.todo) => ii.exists
     /\ \A v \in Vols :
          /\ recon.phase \in ReadsObjects \cup SendsRequests /\ v \in SharesOf(i) /\ ToBeSent(recon, v)
               => v \in recon.onInst[i]
          /\ recon.phase = "pointers" /\ <<i, v>> \in recon.todo
               => v \in ii.shares /\ recon.si[v].exists /\ recon.si[v].handle # i

\* No copy says that a ShareInfo is being deleted before it is.
DeletionMarks(v) ==
  /\ \A s \in Copies(v) : s.deleting =>
       s.exists /\ pv[v].phase # "wanted" /\ (shareInfo[v].exists => shareInfo[v].deleting)
  /\ recon.phase = "shares" /\ v \in recon.todo => recon.si[v].exists

\* What runs shows in the state of its resource and, but for resizing an instance, runs
\* alone on it; the round knows of it, or has asked for it.
Shows(o) ==
  /\ o.type = "InstanceCreate" => instance[o.inst].state = "CREATING"
  /\ o.type = "InstanceDelete" => instance[o.inst].state = "DELETING"
  /\ o.type = "ShareCreate" => share[o.inst][o.vol].state = "CREATING"
  /\ o.type = "ShareDelete" => share[o.inst][o.vol].state = "DELETING"
  /\ o.type = "ShareUpdate" => share[o.inst][o.vol].state = "READY"
RunsAlone(o) == \A p \in ops :
  o.inst = p.inst /\ o.vol = p.vol /\ "InstanceUpdate" \notin {o.type, p.type} => o = p
OpLinks(o) ==
  /\ instance[o.inst].state # "UNUSED" /\ Shows(o) /\ RunsAlone(o)
  /\ o.type \in ShareOps =>
       /\ Listed(o.inst) => instanceInfo[o.inst].exists
       /\ recon.phase \in SendsRequests /\ ToBeSent(recon, o.vol) => <<o.inst, o.vol>> \in recon.targets

LinksInv ==
  /\ CachesInStep
  /\ \A i \in Insts : InstanceLinks(i) /\ ListingLinks(i) /\ RoundLinks(i)
  /\ \A v \in Vols : DeletionMarks(v) /\ \A s \in Copies(v), i \in Insts : LinkFor(s, i, v)
  /\ \A o \in ops : OpLinks(o)

-----------------------------------------------------------------------------
(* The inductive strengthening of ImplementsLifecycle, for informers that keep *)
(* up and a user who leaves the instances alone.                               *)

Absent(v) == \A i \in Insts : v \notin SharesOf(i)

\* The share is known to be gone, or was so when the ShareInfo went.
Gone(v) == \/ shareInfo[v].status = "deleted" \/ pv[v].phase = "deleted"
           \/ pv[v].phase = "released" /\ ~shareInfo[v].exists /\ Absent(v)

\* A copy, however old, asks for what the volume was asked for at least, and for
\* what the share has or is about to get; it is never ahead of the object.
CopyOK(s, v) ==
  /\ s.exists =>
       /\ s.spec >= ShareSize[v]
       /\ \A i \in Insts : share[i][v].cap <= s.spec
       /\ \A o \in ops : o.vol = v => o.cap <= s.spec
       /\ IF shareInfo[v].exists THEN s.spec <= shareInfo[v].spec ELSE Gone(v)
  /\ s.deleting => pv[v].phase \in {"released", "deleted"}
  /\ s.status = "deleted" => s.deleting

\* Shares are as large as their volumes were asked for and never shrink; nothing runs on
\* one that has no ShareInfo.
CapsOK(v) ==
  /\ \A i \in Insts : IF v \in SharesOf(i) THEN share[i][v].cap >= ShareSize[v] ELSE share[i][v].cap = 0
  /\ \A o \in ops : o.vol = v => /\ o.type = "ShareUpdate" => o.cap >= share[o.inst][v].cap
                                 /\ shareInfo[v].exists

\* Until the round has worked on it, what was listed is not ahead of the objects.
ListingOK(v) == recon.phase = "listed" => \A i \in Insts :
  LET listed == recon.shares[i][v]
  IN /\ v \in ListedOn(i) => listed.cap >= ShareSize[v] /\ ~Gone(v)
     /\ v \notin ListedOn(i) => listed.cap = 0
     /\ \A s \in {shareInfo[v], shareLister[v]} : s.exists => listed.cap <= s.spec
     /\ ~shareInfo[v].exists => share[i][v] \in {listed, AbsentShare}

\* What is gone does not come back: no round that is on its way asks for it.
NotAskedFor(r, v) == /\ r.phase = "shares" => v \notin r.todo
                     /\ r.phase \in ReadsObjects \cup {"instances"} => ~ShareNeedsRequest(r.si[v])
Finished(s) == s.exists => s.deleting /\ s.status = "deleted"
GoneOK(v) == Gone(v) => Absent(v) /\ Finished(shareLister[v]) /\ NotAskedFor(recon, v)

\* Until its deletion is asked for, a volume that was handed out has its share, as large
\* as was told; a deletion that is asked for is in the controller's cache.
Served(v) == \/ pv[v].phase = "bound"
             \/ pv[v].phase = "released" /\ IF shareInfo[v].exists THEN ~shareInfo[v].deleting ELSE ~Absent(v)
ServedOK(v) ==
  /\ pv[v].phase # "wanted" => pv[v].inst \in Insts
  /\ pv[v].phase = "deleted" => ~shareInfo[v].exists
  /\ shareInfo[v].deleting => controllerLister[v].exists
  /\ Served(v) => /\ share[pv[v].inst][v].state = "READY"
                  /\ share[pv[v].inst][v].cap >= pv[v].cap

LifeOK(v) == /\ \A s \in Copies(v) : CopyOK(s, v)
             /\ CapsOK(v) /\ ListingOK(v) /\ GoneOK(v) /\ ServedOK(v)
LifeInv == \A v \in Vols : LifeOK(v)

-----------------------------------------------------------------------------
(* The inductive strengthening of ShrinkDecidedWithKnownRoom, besides LifeInv. *)

\* No instance is, is made, or is to be larger than the largest.
SizeOK(ii) == ii.spec <= MaxCap /\ (~ii.exists => ii.spec = 0)
SizesInv ==
  /\ \A i \in Insts : /\ SizeOK(instanceInfo[i]) /\ SizeOK(instanceLister[i]) /\ SizeOK(recon.ii[i])
                     /\ instance[i].cap <= MaxCap
  /\ \A o \in ops : o.type \in InstanceOps => o.cap <= MaxCap

-----------------------------------------------------------------------------
\* Fairness: the worker runs every minute and a round goes on, informers catch
\* up, operations finish, repairs end, and the sidecars repeat their requests.
ListersInSync == shareLister = shareInfo /\ instanceLister = instanceInfo
Fairness ==
  /\ []<><<recon' # recon>>_vars
  /\ WF_vars(Sync)
  /\ \A v \in Vols \cup {NoVol} : WF_vars(\E o \in ops : o.vol = v /\ OpDone(o))
  /\ WF_vars(\E i \in Insts : Repair(i) /\ UNCHANGED faults)
  /\ \A v \in Vols : SF_vars(Creates(v)) /\ SF_vars(Deletes(v)) /\ SF_vars(Expands(v))
FairSpec == Spec /\ Fairness

\* A volume that is wanted is created in the end, whatever fails on the way but its
\* instance (not created, or deleted by the user) or, after a round has listed it,
\* the creation of its share.
OnBrokenInstance(v) ==
  \E i \in Insts : v \in instanceInfo[i].shares /\ instance[i].state \in {"ERROR", "GONE"}
CreationLost(v) == shareInfo[v].status = "creating" /\ Homes(v) = {}
WantedGetsBound ==
  \A v \in Vols : pv[v].phase = "wanted" ~> pv[v].phase = "bound" \/ OnBrokenInstance(v) \/ CreationLost(v)

\* The statuses of ShareInfos are updated "to match with actual state of the world"
\* (reconciler.go:858): one that says CREATING for a share whose creation has failed
\* does not for ever.
LostCreationNoticed == \A v \in Vols : CreationLost(v) ~> ~CreationLost(v)

\* A volume that is released is deleted in the end.
ReleasedGetsDeleted == \A v \in Vols : pv[v].phase = "released" ~> pv[v].phase = "deleted"

\* When every volume is deleted, every instance goes in the end and its InstanceInfo
\* with it, but for instances whose creation failed.
InstancesReclaimed ==
  (\A v \in Vols : pv[v].phase = "deleted")
    ~> \A i \in Insts : \/ instance[i].state = "ERROR"
                        \/ instance[i].state \in {"UNUSED", "GONE"} /\ ~instanceInfo[i].exists
=============================================================================
