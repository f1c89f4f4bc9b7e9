------------------------ MODULE ReconcilerLifeProofs ------------------------
(***************************************************************************)
(* The stateful controller and the reconciler together keep the contract   *)
(* of every volume (VolumeLifecycle): what is handed out has its share,    *)
(* large enough, until its deletion is asked for, and of what is reported  *)
(* deleted nothing is left.  This is for informers that keep up between    *)
(* the rounds and a user who leaves the instances alone, with any faults   *)
(* of requests and operations, and rounds that are given up.               *)
(* Under the same conditions no round lowers the size of an instance       *)
(* below what the shares known to be on it need.                           *)
(***************************************************************************)
EXTENDS ReconcilerProofs

-----------------------------------------------------------------------------
(* What a volume's part of the invariant depends on. *)

\* As far as what is asked of a share is concerned, a copy is like another.
Like(s, t) == /\ s.exists <=> t.exists
              /\ s.deleting <=> t.deleting
              /\ s.spec = t.spec
              /\ s.status = "deleted" <=> t.status = "deleted"

\* Filestore does nothing to the shares of a volume.
CloudRests(v) == /\ \A i \in Insts : share'[i][v] = share[i][v]
                 /\ \A o : o \in ops' /\ o.vol = v <=> o \in ops /\ o.vol = v

\* What the walk leads to keeps what is not asked for that way.
LEMMA WalkAsksNot ==
  ASSUME NEW r \in RoundRec, NEW v \in Vols, NotAskedFor(r, v)
  PROVE  /\ r.phase = "shares" => NotAskedFor(AfterShares(r), v)
         /\ r.phase = "instances" => NotAskedFor(AfterInstances(r), v)
         /\ r.phase \in ReadsObjects => NotAskedFor(AfterPointers(r), v) /\ NotAskedFor(AfterAssign(r), v)
<1>1. NotAskedFor(Idle, v)
  BY IdleRound DEF NotAskedFor, ReadsObjects
<1>2. NotAskedFor(AfterShares(r), v)
  BY <1>1 DEF AfterShares
<1>3. CASE r.phase = "instances"
  <2> DEFINE q == [r EXCEPT !.phase = "shares", !.todo = {w \in Vols : ShareNeedsRequest(r.si[w])}]
  <2>1. q.phase = "shares" /\ q.todo = {w \in Vols : ShareNeedsRequest(r.si[w])}
    BY DEF RoundRec
  <2>2. ~ShareNeedsRequest(r.si[v])
    BY <1>3 DEF NotAskedFor
  <2>3. NotAskedFor(q, v)
    BY <2>1, <2>2 DEF NotAskedFor, ReadsObjects
  <2>4. AfterInstances(r) = IF r.todo = {} THEN AfterShares(q) ELSE r
    BY DEF AfterInstances
  <2> HIDE DEF q
  <2>5. NotAskedFor(AfterShares(q), v)
    BY <1>1, <2>3 DEF AfterShares
  <2> QED
    BY <1>2, <1>3, <2>4, <2>5 DEF ReadsObjects
<1>4. CASE r.phase \in ReadsObjects
  <2>1. /\ Walks(AfterPointers(r), r) /\ Walks(AfterAssign(r), r) /\ ~ShareNeedsRequest(r.si[v])
    BY <1>4, PointersWalk DEF NotAskedFor
  <2>2. ASSUME NEW q, Walks(q, r) PROVE NotAskedFor(q, v)
    BY <1>1, <1>4, <2>1, <2>2 DEF Walks, NotAskedFor, ReadsObjects
  <2> QED
    BY <1>4, <2>1, <2>2 DEF ReadsObjects
<1> QED
  BY <1>2, <1>3, <1>4

LEMMA CopyLike ==
  ASSUME NEW s, NEW t, NEW v \in Vols, Like(s, t), CopyOK(t, v) PROVE CopyOK(s, v)
BY DEF Like, CopyOK

LEMMA AbsentRests == ASSUME NEW v \in Vols, CloudRests(v) PROVE Absent(v)' <=> Absent(v)
BY DEF Absent, SharesOf, CloudRests

LEMMA GoneStays ==
  ASSUME NEW v \in Vols, CloudRests(v), Like(shareInfo'[v], shareInfo[v]), pv'[v] = pv[v]
  PROVE  Gone(v)' <=> Gone(v)
BY AbsentRests DEF Gone, Like

LEMMA CopyStays ==
  ASSUME NEW v \in Vols, NEW s, CloudRests(v), Like(shareInfo'[v], shareInfo[v]), pv'[v] = pv[v],
         CopyOK(s, v)
  PROVE  CopyOK(s, v)'
<1>1. Gone(v)' <=> Gone(v)
  BY GoneStays
<1>2. shareInfo'[v].exists <=> shareInfo[v].exists
  BY DEF Like
<1>3. shareInfo'[v].spec = shareInfo[v].spec
  BY DEF Like
<1>4. \A i \in Insts : share'[i][v].cap = share[i][v].cap
  BY DEF CloudRests
<1>5. \A o \in ops' : o.vol = v => o \in ops
  BY DEF CloudRests
<1> QED
  BY <1>1, <1>2, <1>3, <1>4, <1>5 DEF CopyOK

\* A step that does nothing to what a volume's shares and requests depend on.
Quiet(v) ==
  /\ CloudRests(v) /\ Like(shareInfo'[v], shareInfo[v]) /\ pv'[v] = pv[v]
  /\ shareLister'[v] \in {shareLister[v], shareInfo'[v]}
  /\ controllerLister'[v] \in {controllerLister[v], shareInfo'[v]}
  /\ \/ recon'.phase # "listed"
     \/ recon.phase = "listed" /\ recon'.shares = recon.shares
     \/ recon'.shares = share

LEMMA LifeStays ==
  ASSUME TypeOK, LinksInv, NEW v \in Vols, LifeOK(v), Quiet(v),
         CopyOK(recon'.si[v], v), Gone(v) => NotAskedFor(recon', v)
  PROVE  LifeOK(v)'
<1> USE DEF Quiet
<1>1. /\ Gone(v)' <=> Gone(v)
      /\ Absent(v)' <=> Absent(v)
  BY GoneStays, AbsentRests
<1>2. \A s \in Copies(v) : CopyOK(s, v)
  BY DEF LifeOK
<1>3. CopyOK(shareInfo'[v], v) /\ CopyOK(shareLister[v], v)
  BY <1>2, CopyLike DEF Copies
<1>4. \A s \in Copies(v)' : CopyOK(s, v)'
  <2>1. \A s \in Copies(v)' : CopyOK(s, v)
    BY <1>3 DEF Copies
  <2> QED
    BY <2>1, CopyStays
<1>5. CapsOK(v)'
  <2>1. CapsOK(v)
    BY DEF LifeOK
  <2>2. \A i \in Insts : (v \in SharesOf(i)' <=> v \in SharesOf(i)) /\ share'[i][v].cap = share[i][v].cap
    BY DEF CloudRests, SharesOf
  <2>3. \A o \in ops' : o.vol = v => o \in ops
    BY DEF CloudRests
  <2>4. \A o \in ops' : o.vol = v => share'[o.inst][v].cap = share[o.inst][v].cap
    <3>1. \A o \in ops : o.inst \in Insts
      BY TypeParts, OpShape
    <3> QED
      BY <3>1 DEF CloudRests
  <2>5. shareInfo'[v].exists <=> shareInfo[v].exists
    BY DEF Like
  <2> QED
    BY <2>1, <2>2, <2>3, <2>4, <2>5 DEF CapsOK
<1>6. ListingOK(v)'
  <2> SUFFICES ASSUME recon'.phase = "listed" PROVE ListingOK(v)'
    BY DEF ListingOK
  <2>1. CASE recon.phase = "listed" /\ recon'.shares = recon.shares
    <3>1. ListingOK(v)
      BY DEF LifeOK
    <3>2. \A i \in Insts : share'[i][v] = share[i][v]
      BY DEF CloudRests
    <3> QED
      BY <1>1, <2>1, <3>1, <3>2 DEF ListingOK, ListedOn, Like
  <2>2. CASE recon'.shares = share
    <3>1. CopyOK(shareInfo[v], v) /\ CopyOK(shareLister[v], v) /\ CapsOK(v) /\ (Gone(v) => Absent(v))
      BY <1>2 DEF Copies, LifeOK, GoneOK
    <3>2. ASSUME NEW i \in Insts
          PROVE  /\ v \in SharesOf(i) => share[i][v].cap >= ShareSize[v] /\ ~Gone(v)
                 /\ v \notin SharesOf(i) => share[i][v].cap = 0
                 /\ \A s \in {shareInfo[v], shareLister[v]} : s.exists => share[i][v].cap <= s.spec
      BY <3>1 DEF CapsOK, CopyOK, Absent
    <3>3. \A i \in Insts : v \in ListedOn(i)' <=> v \in SharesOf(i)
      BY <2>2 DEF ListedOn, SharesOf
    <3>4. /\ \A s \in {shareInfo[v], shareLister[v]}', i \in Insts : s.exists => share[i][v].cap <= s.spec
          /\ \A i \in Insts : share'[i][v] = share[i][v]
      BY <3>2 DEF Like, CloudRests
    <3> QED
      BY <1>1, <2>2, <3>2, <3>3, <3>4 DEF ListingOK
  <2> QED
    BY <2>1, <2>2
<1>7. GoneOK(v)'
  <2> SUFFICES ASSUME Gone(v) PROVE Absent(v) /\ Finished(shareLister'[v]) /\ NotAskedFor(recon', v)
    BY <1>1 DEF GoneOK, Finished, NotAskedFor
  <2>1. Absent(v) /\ Finished(shareLister[v])
    BY DEF LifeOK, GoneOK
  <2>2. Finished(shareInfo'[v])
    <3>1. CopyOK(shareInfo[v], v) /\ (pv[v].phase = "deleted" => ~shareInfo[v].exists)
      BY <1>2 DEF Copies, LifeOK, ServedOK
    <3>2. shareInfo[v].exists => shareInfo[v].deleting /\ shareInfo[v].status = "deleted"
      BY <3>1 DEF Gone, CopyOK
    <3> QED
      BY <3>2 DEF Finished, Like
  <2> QED
    BY <2>1, <2>2
<1>8. ServedOK(v)'
  <2>1. ServedOK(v) /\ Marked(shareInfo[v], v)
    BY LinksAre DEF LifeOK, Copies
  <2>2. Served(v)' <=> Served(v)
    BY <1>1 DEF Served, Like
  <2>3. shareInfo'[v].deleting => controllerLister'[v].exists
    BY <2>1 DEF ServedOK, Marked, Like
  <2>4. Served(v) /\ pv[v].inst \in Insts => share'[pv[v].inst][v] = share[pv[v].inst][v]
    BY DEF CloudRests
  <2>5. Served(v) => pv[v].inst \in Insts
    BY <2>1 DEF ServedOK, Served
  <2> QED
    BY <2>1, <2>2, <2>3, <2>4, <2>5 DEF ServedOK, Like
<1> QED
  BY <1>4, <1>5, <1>6, <1>7, <1>8 DEF LifeOK

\* A step that does something to a share that has its ShareInfo and is not gone.
LEMMA LifeMoves ==
  ASSUME TypeOK, LinksInv, NEW v \in Vols, LifeOK(v), ~Gone(v),
         shareInfo[v].exists, shareInfo'[v] = shareInfo[v], pv'[v] = pv[v],
         shareLister'[v] \in {shareLister[v], shareInfo'[v]},
         controllerLister'[v] \in {controllerLister[v], shareInfo'[v]},
         recon'.si[v] \in {recon.si[v], NoShareInfo},
         recon'.phase # "listed" \/ (recon.phase = "listed" /\ recon'.shares = recon.shares),
         CapsOK(v)',
         \A s \in Copies(v) : s.exists => /\ \A i \in Insts : share'[i][v].cap <= s.spec
                                          /\ \A o \in ops' : o.vol = v => o.cap <= s.spec,
         Served(v) => share'[pv[v].inst][v].state = "READY" /\ share'[pv[v].inst][v].cap >= pv[v].cap
  PROVE  LifeOK(v)'
<1>1. ~Gone(v)'
  BY DEF Gone
<1>2. \A s \in Copies(v) : CopyOK(s, v)
  BY DEF LifeOK
<1>3. ASSUME NEW s \in Copies(v) PROVE CopyOK(s, v)'
  BY <1>1, <1>2 DEF CopyOK
<1>4. CopyOK(NoShareInfo, v)'
  <2>1. ~NoShareInfo.exists /\ ~NoShareInfo.deleting /\ NoShareInfo.status = ""
    BY DEF NoShareInfo
  <2> QED
    BY <2>1 DEF CopyOK
<1>5. \A s \in Copies(v)' : CopyOK(s, v)'
  <2>1. Copies(v)' \subseteq Copies(v) \cup {NoShareInfo}
    BY DEF Copies
  <2> QED
    BY <1>3, <1>4, <2>1
<1>6. ListingOK(v)'
  BY <1>1 DEF LifeOK, ListingOK, ListedOn
<1>7. GoneOK(v)'
  BY <1>1 DEF GoneOK
<1>8. ServedOK(v)'
  BY LinksAre DEF LifeOK, ServedOK, Served, Marked, Copies
<1> QED
  BY <1>5, <1>6, <1>7, <1>8 DEF LifeOK

-----------------------------------------------------------------------------
(* Steps of a round that has its copies. *)

\* The step ends in a walk from r.
WalksFrom(r) == \/ r.phase = "shares" /\ recon' = AfterShares(r)
                \/ r.phase = "instances" /\ recon' = AfterInstances(r)
                \/ r.phase \in ReadsObjects /\ recon' \in {AfterPointers(r), AfterAssign(r)}

LEMMA WalkedSi ==
  ASSUME NEW r \in RoundRec, WalksFrom(r)
  PROVE  /\ recon'.phase # "listed"
         /\ \A v \in Vols : recon'.si[v] \in {r.si[v], NoShareInfo}
<1>1. Walks(recon', r) /\ r.phase # "listed"
  BY SharesWalk, InstancesWalk, PointersWalk DEF WalksFrom, ReadsObjects
<1> QED
  BY <1>1, IdleRound DEF Walks, ReadsObjects

LEMMA NoneOK == ASSUME NEW v \in Vols PROVE CopyOK(NoShareInfo, v)
<1>1. ~NoShareInfo.exists /\ ~NoShareInfo.deleting /\ NoShareInfo.status = ""
  BY DEF NoShareInfo
<1> QED
  BY <1>1 DEF CopyOK

LEMMA WorkLife ==
  ASSUME TypeOK, TypeOK', LinksInv, RoundLeavesAlone, NEW v \in Vols, LifeOK(v),
         CloudRests(v), Like(shareInfo'[v], shareInfo[v]),
         NEW r \in RoundRec, WalksFrom(r), CopyOK(r.si[v], v), Gone(v) => NotAskedFor(r, v)
  PROVE  LifeOK(v)'
<1>1. /\ shareInfo' \in [Vols -> ShareInfoRec] /\ instanceInfo' \in [Insts -> InstanceInfoRec]
  BY DEF TypeOK, ObjectsTypeOK
<1>2. /\ shareLister'[v] \in {shareLister[v], shareInfo'[v]}
      /\ controllerLister'[v] \in {controllerLister[v], shareInfo'[v]}
      /\ pv' = pv
  BY <1>1, CachesShow DEF RoundLeavesAlone
<1>3. CopyOK(recon'.si[v], v) /\ recon'.phase # "listed"
  BY WalkedSi, NoneOK
<1>4. Gone(v) => NotAskedFor(recon', v)
  BY WalkAsksNot DEF WalksFrom
<1>5. Quiet(v)
  BY <1>2, <1>3 DEF Quiet
<1> QED
  BY <1>3, <1>4, <1>5, LifeStays

\* A round that goes on with the same copies.
LEMMA GoesOnLife ==
  ASSUME TypeOK, TypeOK', LinksInv, RoundLeavesAlone, NEW v \in Vols, LifeOK(v),
         CloudRests(v), shareInfo'[v] = shareInfo[v],
         NEW r \in RoundRec, WalksFrom(r), r.si = recon.si,
         \/ r.phase = recon.phase /\ r.todo \subseteq recon.todo
         \/ r.phase = "instances" /\ recon.phase \in ReadsObjects
  PROVE  LifeOK(v)'
<1>1. Like(shareInfo'[v], shareInfo[v])
  BY DEF Like
<1>2. CopyOK(r.si[v], v)
  BY DEF LifeOK, Copies
<1>3. Gone(v) => NotAskedFor(recon, v)
  BY DEF LifeOK, GoneOK
<1>4. Gone(v) => NotAskedFor(r, v)
  BY <1>3 DEF NotAskedFor, ReadsObjects
<1> QED
  BY <1>1, <1>2, <1>4, WorkLife

-----------------------------------------------------------------------------
(* Around the rounds. *)

\* A round that is given up, the listing of shares, and a cache that catches up.
LEMMA EndLife ==
  ASSUME TypeOK, TypeOK', LinksInv, RoundEnds \/ ListShares \/ Sync, NEW v \in Vols, LifeOK(v)
  PROVE  LifeOK(v)'
<1>1. /\ shareInfo' = shareInfo /\ cloudVars' = cloudVars /\ pv' = pv /\ share' = share /\ ops' = ops
      /\ shareInfo' \in [Vols -> ShareInfoRec] /\ instanceInfo' \in [Insts -> InstanceInfoRec]
  BY TypeParts DEF RoundEnds, ListShares, Sync, RoundLeavesAlone, ReconcilerSync, ControllerSync,
                   cloudVars, objectVars, TypeOK, ObjectsTypeOK
<1>2. /\ shareLister'[v] \in {shareLister[v], shareInfo'[v]}
      /\ controllerLister'[v] \in {controllerLister[v], shareInfo'[v]}
  <2>1. CASE RoundEnds \/ ListShares
    BY <1>1, <2>1, CachesShow DEF RoundEnds, ListShares, RoundLeavesAlone
  <2>2. CASE Sync
    BY <1>1, <2>2 DEF Sync, ReconcilerSync, ControllerSync
  <2> QED
    BY <2>1, <2>2
<1>3. \/ recon' = Idle \/ recon' = recon
      \/ recon.phase = "idle" /\ recon' = [recon EXCEPT !.phase = "listed", !.shares = share]
  BY DEF RoundEnds, ListShares, Sync
<1>4. recon \in RoundRec
  BY TypeParts
<1>5. /\ recon'.phase # "listed" \/ (recon.phase = "listed" /\ recon'.shares = recon.shares)
                                 \/ recon'.shares = share
      /\ recon'.si[v] \in {recon.si[v], NoShareInfo}
      /\ recon' = recon \/ recon'.phase \in {"idle", "listed"}
  BY <1>3, <1>4, IdleRound DEF RoundRec
<1>6. CloudRests(v) /\ Like(shareInfo'[v], shareInfo[v]) /\ pv'[v] = pv[v]
  BY <1>1 DEF CloudRests, Like
<1>7. Quiet(v)
  BY <1>2, <1>5, <1>6 DEF Quiet
<1>8. CopyOK(recon'.si[v], v)
  BY <1>5, NoneOK DEF LifeOK, Copies
<1>9. Gone(v) => NotAskedFor(recon', v)
  BY <1>5 DEF LifeOK, GoneOK, NotAskedFor, ReadsObjects
<1> QED
  BY <1>7, <1>8, <1>9, LifeStays

LEMMA RepairLife ==
  ASSUME TypeOK, TypeOK', LinksInv, NEW i \in Insts, Repair(i), NEW v \in Vols, LifeOK(v)
  PROVE  LifeOK(v)'
<1>1. /\ shareInfo' = shareInfo /\ pv' = pv /\ share' = share /\ ops' = ops /\ recon' = recon
      /\ shareInfo' \in [Vols -> ShareInfoRec] /\ instanceInfo' \in [Insts -> InstanceInfoRec] /\ CachesFollow
  BY DEF Repair, RepairStarts, RepairEnds, RoundLeavesAlone, objectVars, TypeOK, ObjectsTypeOK
<1>2. /\ shareLister'[v] \in {shareLister[v], shareInfo'[v]}
      /\ controllerLister'[v] \in {controllerLister[v], shareInfo'[v]}
  BY <1>1, CachesShow
<1>3. Quiet(v)
  BY <1>1, <1>2 DEF Quiet, CloudRests, Like
<1>4. CopyOK(recon'.si[v], v) /\ (Gone(v) => NotAskedFor(recon', v))
  BY <1>1 DEF LifeOK, GoneOK, Copies
<1> QED
  BY <1>3, <1>4, LifeStays

\* All copies of a volume, its shares and its operations name the same instance.
LEMMA OneInst ==
  ASSUME PlacesInv, NEW v \in Vols, NEW i \in Insts, NEW j \in Insts,
         pv[v].inst = j \/ recon.si[v].handle = j \/ v \in SharesOf(j)
           \/ (\E o \in ops : o.inst = j /\ o.vol = v),
         \/ v \in SharesOf(i) \/ v \in ListedOn(i) \/ (\E o \in ops : o.inst = i /\ o.vol = v)
         \/ i \in {shareInfo[v].handle, shareLister[v].handle, controllerLister[v].handle, recon.si[v].handle}
  PROVE  i = j
<1>1. i \in Places(v) /\ j \in Places(v)
  BY FilestoreAssumption, PlacesAre DEF Holds, OnInstance, SharesOf, ListedOn
<1> QED
  BY <1>1 DEF PlacesInv, PlaceOK

\* What runs on a volume's shares: one operation, on a share that is there.
LEMMA RunsOnShare ==
  ASSUME PlacesInv, LinksInv, NEW v \in Vols, LifeOK(v), NEW o \in ops, o.vol = v
  PROVE  /\ o \in Op /\ o.inst \in Insts /\ o.type \in ShareOps /\ OpStays(o) /\ o.cap \in Nat
         /\ v \in SharesOf(o.inst) /\ shareInfo[v].exists /\ ~Gone(v)
         /\ \A p \in ops : p.vol = v => p = o
<1>1. o \in Op /\ o.inst \in Insts /\ o.type \in ShareOps /\ OpStays(o) /\ o.cap \in Nat
  BY OpShape, TypeParts, LinksAre DEF PlacesInv
<1>2. v \in SharesOf(o.inst)
  BY <1>1 DEF OpStays, Shows, SharesOf, ShareOps
<1>3. shareInfo[v].exists /\ ~Gone(v)
  BY <1>1, <1>2 DEF LifeOK, CapsOK, GoneOK, Absent
<1>4. ASSUME NEW p \in ops, p.vol = v PROVE p = o
  <2>1. p.inst \in Insts /\ p.type \in ShareOps
    BY <1>4, OpShape, TypeParts DEF PlacesInv
  <2>2. p.inst = o.inst
    BY <1>1, <1>4, <2>1, OneInst
  <2> QED
    BY <1>1, <1>4, <2>1, <2>2 DEF OpStays, RunsAlone, ShareOps
<1> QED
  BY <1>1, <1>2, <1>3, <1>4

\* An operation ends.
LEMMA DoneLife ==
  ASSUME PlacesInv, TypeOK', LinksInv, NEW o \in ops, OpDone(o), NEW v \in Vols, LifeOK(v)
  PROVE  LifeOK(v)'
<1>1. /\ shareInfo' = shareInfo /\ pv' = pv /\ recon' = recon /\ CachesFollow /\ TypeOK
      /\ shareInfo' \in [Vols -> ShareInfoRec] /\ instanceInfo' \in [Insts -> InstanceInfoRec]
      /\ OpSucceeds(o) \/ OpFails(o)
  BY DEF PlacesInv, OpDone, RoundLeavesAlone, objectVars, TypeOK, ObjectsTypeOK
<1>2. /\ shareLister'[v] \in {shareLister[v], shareInfo'[v]}
      /\ controllerLister'[v] \in {controllerLister[v], shareInfo'[v]}
  BY <1>1, CachesShow
<1>3. ops' = ops \ {o} /\ o.inst \in Insts /\ share \in [Insts -> [Vols -> ShareRec]] /\ o.cap \in Nat
  BY <1>1, OpShape, TypeParts DEF OpSucceeds, OpFails
<1>4. CASE o.vol # v
  <2>1. \A i \in Insts : share'[i][v] = share[i][v]
    BY <1>1, <1>3, <1>4 DEF OpSucceeds, OpFails
  <2>2. Quiet(v)
    BY <1>1, <1>2, <1>3, <1>4, <2>1 DEF Quiet, CloudRests, Like
  <2>3. CopyOK(recon'.si[v], v) /\ (Gone(v) => NotAskedFor(recon', v))
    BY <1>1 DEF LifeOK, GoneOK, Copies
  <2> QED
    BY <1>1, <2>2, <2>3, LifeStays
<1>5. CASE o.vol = v
  <2> DEFINE i == o.inst
  <2>1. /\ o.type \in ShareOps /\ OpStays(o) /\ v \in SharesOf(i) /\ shareInfo[v].exists /\ ~Gone(v)
        /\ \A p \in ops' : p.vol # v
    BY <1>3, <1>5, RunsOnShare
  <2>2. \A j \in Insts : j # i => share'[j][v] = share[j][v]
    BY <1>1, <1>3 DEF OpSucceeds, OpFails
  <2>3. \/ share'[i][v] = AbsentShare /\ o.type \in {"ShareCreate", "ShareDelete"}
        \/ share'[i][v].state = "READY" /\ share'[i][v].cap = share[i][v].cap
        \/ share'[i][v].state = "READY" /\ share'[i][v].cap = o.cap /\ o.type = "ShareUpdate"
    <3>1. share[i][v] \in ShareRec /\ v # NoVol
      BY <1>3, FilestoreAssumption
    <3>2. o.type = "ShareUpdate" => share[i][v].state = "READY"
      BY <1>5, <2>1 DEF OpStays, Shows
    <3>3. \/ share'[i][v] = AbsentShare /\ o.type \in {"ShareCreate", "ShareDelete"}
          \/ share'[i][v] = [share[i][v] EXCEPT !.state = "READY"]
          \/ share'[i][v] = [share[i][v] EXCEPT !.cap = o.cap] /\ o.type = "ShareUpdate"
          \/ share'[i][v] = share[i][v] /\ o.type = "ShareUpdate"
      <4>1. i \in Insts /\ v \in Vols /\ o.vol = v /\ o.type \in {"ShareCreate", "ShareUpdate", "ShareDelete"}
        BY <1>3, <1>5, <2>1 DEF ShareOps
      <4>2. CASE OpSucceeds(o)
        <5>1. share'[i][v] = CASE o.type = "ShareCreate" -> [share[i][v] EXCEPT !.state = "READY"]
                               [] o.type = "ShareUpdate" -> [share[i][v] EXCEPT !.cap = o.cap]
                               [] OTHER -> AbsentShare
          BY <1>3, <3>1, <4>1, <4>2 DEF OpSucceeds
        <5> QED
          BY <4>1, <5>1
      <4>3. CASE OpFails(o)
        <5>1. share'[i][v] = CASE o.type = "ShareCreate" -> AbsentShare
                               [] o.type = "ShareDelete" -> [share[i][v] EXCEPT !.state = "READY"]
                               [] OTHER -> share[i][v]
          BY <1>3, <3>1, <4>1, <4>3 DEF OpFails
        <5> QED
          BY <4>1, <5>1
      <4> QED
        BY <1>1, <4>2, <4>3
    <3> QED
      BY <3>1, <3>2, <3>3 DEF ShareRec
  <2>4. AbsentShare.state = "ABSENT" /\ AbsentShare.cap = 0
    BY DEF AbsentShare
  <2>5. CapsOK(v) /\ ShareSize[v] \in Nat /\ share[i][v].cap \in Nat
    BY <1>3, InfoAssumption DEF LifeOK, ShareRec
  <2>6. /\ share[i][v].cap >= ShareSize[v]
        /\ o.type = "ShareUpdate" => o.cap >= share[i][v].cap
    BY <1>3, <1>5, <2>1, <2>5 DEF CapsOK
  <2>7. CapsOK(v)'
    <3>1. ASSUME NEW j \in Insts
          PROVE  IF v \in SharesOf(j)' THEN share'[j][v].cap >= ShareSize[v] ELSE share'[j][v].cap = 0
      <4>1. CASE j # i
        BY <2>2, <2>5, <4>1 DEF CapsOK, SharesOf
      <4>2. CASE j = i
        BY <1>3, <2>3, <2>4, <2>5, <2>6, <4>2 DEF SharesOf
      <4> QED
        BY <4>1, <4>2
    <3> QED
      BY <2>1, <3>1 DEF CapsOK
  <2>8. ASSUME NEW s \in Copies(v), s.exists, NEW j \in Insts PROVE share'[j][v].cap <= s.spec
    <3>1. CopyOK(s, v) /\ s.spec \in Nat
      <4>1. s \in ShareInfoRec
        BY <1>1, TypeParts DEF Copies, RoundRec
      <4> QED
        BY <4>1 DEF LifeOK, ShareInfoRec
    <3>2. share[j][v].cap <= s.spec /\ o.cap <= s.spec
      BY <1>5, <2>8, <3>1 DEF CopyOK
    <3> QED
      BY <2>2, <2>3, <2>4, <3>1, <3>2
  <2>9. Served(v) => share'[pv[v].inst][v].state = "READY" /\ share'[pv[v].inst][v].cap >= pv[v].cap
    <3> SUFFICES ASSUME Served(v)
                 PROVE  share'[pv[v].inst][v].state = "READY" /\ share'[pv[v].inst][v].cap >= pv[v].cap
      OBVIOUS
    <3>1. /\ pv[v].inst \in Insts /\ share[pv[v].inst][v].state = "READY"
          /\ share[pv[v].inst][v].cap >= pv[v].cap
      BY DEF LifeOK, ServedOK, Served
    <3>2. pv[v].inst = i
      BY <1>3, <1>5, <2>1, <3>1, OneInst
    <3>3. o.type = "ShareUpdate"
      BY <1>5, <2>1, <3>1, <3>2 DEF OpStays, Shows, ShareOps
    <3>4. pv[v].cap \in Nat
      BY <1>1, TypeParts DEF PVRec
    <3> QED
      BY <1>3, <2>3, <2>5, <2>6, <3>1, <3>2, <3>3, <3>4
  <2> HIDE DEF i
  <2>10. \A s \in Copies(v) : s.exists => /\ \A j \in Insts : share'[j][v].cap <= s.spec
                                          /\ \A p \in ops' : p.vol = v => p.cap <= s.spec
    BY <2>1, <2>8
  <2>11. recon'.si[v] \in {recon.si[v], NoShareInfo} /\ pv'[v] = pv[v] /\ shareInfo'[v] = shareInfo[v]
         /\ (recon'.phase # "listed" \/ (recon.phase = "listed" /\ recon'.shares = recon.shares))
    BY <1>1
  <2> QED
    BY <1>1, <1>2, <2>1, <2>7, <2>9, <2>10, <2>11, LifeMoves
<1> QED
  BY <1>4, <1>5

-----------------------------------------------------------------------------
(* The work of a round. *)

\* A ShareInfo is made to point to an instance; nothing else about it changes.
LEMMA PointedLife ==
  ASSUME PlacesInv, TypeOK', LinksInv, RoundLeavesAlone, UNCHANGED cloudVars, recon.phase \in ReadsObjects,
         NEW w \in Vols, NEW i \in Insts, CurrentShare(w, recon.si[w]),
         shareInfo' = [shareInfo EXCEPT ![w] = PointTo(w, i)],
         NEW r \in RoundRec, WalksFrom(r), r.phase \in ReadsObjects,
         r.si = [recon.si EXCEPT ![w] = PointTo(w, i)],
         NEW v \in Vols, LifeOK(v)
  PROVE  LifeOK(v)'
<1>1. /\ TypeOK /\ recon \in RoundRec /\ recon.si \in [Vols -> ShareInfoRec]
      /\ shareInfo \in [Vols -> ShareInfoRec] /\ share' = share /\ ops' = ops
  BY TypeParts DEF PlacesInv, cloudVars, RoundRec
<1>2. CloudRests(v)
  BY <1>1 DEF CloudRests
<1>3. Like(PointTo(w, i), shareInfo[w])
  BY <1>1 DEF PointTo, Like, CurrentShare, ShareInfoRec
<1>4. Like(shareInfo'[v], shareInfo[v])
  BY <1>1, <1>3 DEF Like
<1>5. CopyOK(r.si[v], v)
  <2>1. CopyOK(shareInfo[v], v) /\ CopyOK(recon.si[v], v)
    BY DEF LifeOK, Copies
  <2> QED
    BY <1>1, <1>3, <2>1, CopyLike
<1>6. Gone(v) => NotAskedFor(r, v)
  <2> SUFFICES ASSUME Gone(v) PROVE ~ShareNeedsRequest(r.si[v])
    BY DEF NotAskedFor, ReadsObjects
  <2>1. CASE v # w
    BY <1>1, <2>1 DEF LifeOK, GoneOK, NotAskedFor
  <2>2. CASE v = w
    <3>1. shareInfo[v].exists
      BY <2>2 DEF CurrentShare
    <3>2. shareInfo[v].status = "deleted" /\ shareInfo[v].deleting
      BY <3>1 DEF Gone, LifeOK, ServedOK, CopyOK, Copies
    <3> QED
      BY <1>1, <1>3, <2>2, <3>2 DEF Like, ShareNeedsRequest
  <2> QED
    BY <2>1, <2>2
<1> QED
  BY <1>1, <1>2, <1>4, <1>5, <1>6, WorkLife

\* The pointers between ShareInfos and InstanceInfos.
LEMMA PointersLife ==
  ASSUME PlacesInv, TypeOK', LinksInv, NEW i \in Insts, NEW w \in Vols, FixTwoWayPointers(i, w),
         NEW v \in Vols, LifeOK(v)
  PROVE  LifeOK(v)'
<1>1. /\ TypeOK /\ recon \in RoundRec /\ recon.phase = "pointers" /\ <<i, w>> \in recon.todo
      /\ UNCHANGED cloudVars /\ RoundLeavesAlone /\ recon.si \in [Vols -> ShareInfoRec]
  BY TypeParts DEF PlacesInv, FixTwoWayPointers, RoundRec
<1>2. CloudRests(v)
  BY <1>1 DEF CloudRests, cloudVars
<1>3. ASSUME NEW q \in RoundRec, q.phase = "pointers", recon' = AfterPointers(Done(q, <<i, w>>))
      PROVE  /\ Done(q, <<i, w>>) \in RoundRec /\ Done(q, <<i, w>>).phase = "pointers"
             /\ Done(q, <<i, w>>).si = q.si /\ Done(q, <<i, w>>).todo \subseteq q.todo
             /\ WalksFrom(Done(q, <<i, w>>))
  BY <1>3, DoneRound DEF WalksFrom, ReadsObjects
<1>4. ASSUME NEW q \in RoundRec, q.phase = "pointers", q.si = recon.si, q.todo = recon.todo,
             recon' = AfterPointers(Done(q, <<i, w>>)), shareInfo' = shareInfo
      PROVE  LifeOK(v)'
  <2> DEFINE r == Done(q, <<i, w>>)
  <2>1. r \in RoundRec /\ r.phase = "pointers" /\ r.si = recon.si /\ r.todo \subseteq recon.todo /\ WalksFrom(r)
    BY <1>3, <1>4
  <2> HIDE DEF r
  <2> QED
    BY <1>1, <1>2, <1>4, <2>1, GoesOnLife
<1>5. ASSUME NEW failing, PointBack(i, w, failing) PROVE LifeOK(v)'
  <2>1. CASE w \notin failing /\ CurrentShare(w, recon.si[w])
    <3> DEFINE q == [recon EXCEPT !.si[w] = PointTo(w, i)]
               r == Done(q, <<i, w>>)
    <3>1. shareInfo' = [shareInfo EXCEPT ![w] = PointTo(w, i)] /\ recon' = AfterPointers(r)
      BY <1>5, <2>1 DEF PointBack
    <3>2. PointTo(w, i) \in ShareInfoRec
      BY <1>1, <1>5, <2>1, CurrentUnplaced DEF PointBack
    <3>3. q \in RoundRec /\ q.phase = "pointers" /\ q.si = [recon.si EXCEPT ![w] = PointTo(w, i)]
      BY <1>1, <3>2 DEF RoundRec
    <3> HIDE DEF q
    <3>4. r \in RoundRec /\ r.phase = "pointers" /\ r.si = q.si /\ WalksFrom(r)
      BY <1>3, <3>1, <3>3
    <3> HIDE DEF r
    <3>5. recon.phase \in ReadsObjects /\ r.phase \in ReadsObjects
      BY <1>1, <3>4 DEF ReadsObjects
    <3> QED
      BY <1>1, <2>1, <3>1, <3>3, <3>4, <3>5, PointedLife
  <2>2. CASE ~(w \notin failing /\ CurrentShare(w, recon.si[w]))
    BY <1>1, <1>4, <1>5, <2>2 DEF PointBack
  <2> QED
    BY <2>1, <2>2
<1>6. ASSUME NEW failing, MoveToTarget(i, w, failing) PROVE LifeOK(v)'
  <2>1. PICK loses \in BOOLEAN :
          LET q == IF loses THEN [recon EXCEPT !.ii[i] = WithoutShare(recon.ii[i], w)] ELSE recon
          IN recon' = AfterPointers(Done(q, <<i, w>>)) /\ shareInfo' = shareInfo
    BY <1>1, <1>6, MoveLeaves
  <2> DEFINE q == IF loses THEN [recon EXCEPT !.ii[i] = WithoutShare(recon.ii[i], w)] ELSE recon
  <2>2. recon' = AfterPointers(Done(q, <<i, w>>)) /\ shareInfo' = shareInfo
    BY <2>1
  <2>3. WithoutShare(recon.ii[i], w) \in InstanceInfoRec
    BY <1>1 DEF WithoutShare, RoundRec, InstanceInfoRec
  <2>4. q \in RoundRec /\ q.phase = "pointers" /\ q.si = recon.si /\ q.todo = recon.todo
    BY <1>1, <2>3 DEF RoundRec
  <2> HIDE DEF q
  <2> QED
    BY <1>4, <2>2, <2>4
<1> QED
  BY <1>5, <1>6 DEF FixTwoWayPointers

\* The assignment of a share, as far as its ShareInfo goes.
LEMMA AssignToLeaves ==
  ASSUME PlacesInv, recon.phase = "assign", NEW w \in Vols, w \in recon.todo, NEW i \in Insts,
         NEW ii \in InstanceInfoRec, NEW failing, AssignTo(i, w, ii, failing)
  PROVE  \E q \in RoundRec :
           /\ q.phase = "assign" /\ q.todo = recon.todo /\ recon' = AfterAssign(Done(q, w))
           /\ \/ shareInfo' = shareInfo /\ q.si = recon.si
              \/ /\ CurrentShare(w, recon.si[w])
                 /\ shareInfo' = [shareInfo EXCEPT ![w] = PointTo(w, i)]
                 /\ q.si = [recon.si EXCEPT ![w] = PointTo(w, i)]
<1> DEFINE pointed == w \notin failing /\ CurrentShare(w, recon.si[w])
           q == [recon EXCEPT !.ii[i] = WithShare(ii, w), !.si[w] = IF pointed THEN PointTo(w, i) ELSE @]
<1>1. /\ shareInfo' = IF pointed THEN [shareInfo EXCEPT ![w] = PointTo(w, i)] ELSE shareInfo
      /\ recon' = AfterAssign(Done(q, w))
  BY DEF AssignTo
<1>2. /\ recon \in RoundRec /\ recon.si[w] \in ShareInfoRec /\ recon.si \in [Vols -> ShareInfoRec]
      /\ recon.si[w].handle = NoInst /\ TypeOK
  BY TypeParts DEF PlacesInv, RoundRec, WorkFits
<1>3. WithShare(ii, w) \in InstanceInfoRec
  BY DEF WithShare, InstanceInfoRec
<1>4. pointed => PointTo(w, i) \in ShareInfoRec
  BY <1>2, CurrentUnplaced
<1>5. /\ q \in RoundRec /\ q.phase = "assign" /\ q.todo = recon.todo
      /\ q.si = IF pointed THEN [recon.si EXCEPT ![w] = PointTo(w, i)] ELSE recon.si
  BY <1>2, <1>3, <1>4 DEF RoundRec
<1>6. pointed => CurrentShare(w, recon.si[w])
  OBVIOUS
<1> HIDE DEF q, pointed
<1> QED
  BY <1>1, <1>5, <1>6

LEMMA AssignLife ==
  ASSUME PlacesInv, TypeOK', LinksInv, NEW w \in Vols, AssignShare(w), NEW v \in Vols, LifeOK(v)
  PROVE  LifeOK(v)'
<1>1. /\ TypeOK /\ recon \in RoundRec /\ recon.phase = "assign" /\ w \in recon.todo
      /\ UNCHANGED cloudVars /\ RoundLeavesAlone /\ recon.ii \in [Insts -> InstanceInfoRec] /\ MinCap \in Nat
  BY TypeParts, InfoAssumption DEF PlacesInv, AssignShare, RoundRec
<1>2. CloudRests(v)
  BY <1>1 DEF CloudRests, cloudVars
<1>3. ASSUME NEW q \in RoundRec, q.phase = "assign", recon' = AfterAssign(Done(q, w))
      PROVE  /\ Done(q, w) \in RoundRec /\ Done(q, w).phase = "assign" /\ Done(q, w).si = q.si
             /\ Done(q, w).todo \subseteq q.todo /\ WalksFrom(Done(q, w)) /\ "assign" \in ReadsObjects
  BY <1>3, DoneRound DEF WalksFrom, ReadsObjects
<1>4. ASSUME NEW q \in RoundRec, q.phase = "assign", q.si = recon.si, q.todo = recon.todo,
             recon' = AfterAssign(Done(q, w)), shareInfo' = shareInfo
      PROVE  LifeOK(v)'
  <2> DEFINE r == Done(q, w)
  <2>1. r \in RoundRec /\ r.phase = "assign" /\ r.si = recon.si /\ r.todo \subseteq recon.todo /\ WalksFrom(r)
    BY <1>3, <1>4
  <2> HIDE DEF r
  <2> QED
    BY <1>1, <1>2, <1>4, <2>1, GoesOnLife
<1>5. ASSUME NEW i \in Insts, NEW ii \in InstanceInfoRec, NEW failing, AssignTo(i, w, ii, failing)
      PROVE  LifeOK(v)'
  <2>1. PICK q \in RoundRec :
           /\ q.phase = "assign" /\ q.todo = recon.todo /\ recon' = AfterAssign(Done(q, w))
           /\ \/ shareInfo' = shareInfo /\ q.si = recon.si
              \/ /\ CurrentShare(w, recon.si[w])
                 /\ shareInfo' = [shareInfo EXCEPT ![w] = PointTo(w, i)]
                 /\ q.si = [recon.si EXCEPT ![w] = PointTo(w, i)]
    BY <1>1, <1>5, AssignToLeaves
  <2>2. CASE /\ CurrentShare(w, recon.si[w])
             /\ shareInfo' = [shareInfo EXCEPT ![w] = PointTo(w, i)]
             /\ q.si = [recon.si EXCEPT ![w] = PointTo(w, i)]
    <3> DEFINE r == Done(q, w)
    <3>1. /\ r \in RoundRec /\ r.phase \in ReadsObjects /\ recon.phase \in ReadsObjects /\ WalksFrom(r)
          /\ r.si = [recon.si EXCEPT ![w] = PointTo(w, i)]
      BY <1>1, <1>3, <2>1, <2>2
    <3> HIDE DEF r
    <3> QED
      BY <1>1, <2>2, <3>1, PointedLife
  <2> QED
    BY <1>4, <2>1, <2>2
<1>6. recon' = AfterAssign(Done(recon, w)) /\ shareInfo' = shareInfo => LifeOK(v)'
  BY <1>1, <1>4
<1>7. CASE AssignToEligible(w)
  <2>1. PICK i \in Fits : \E failing \in SUBSET {w} : AssignTo(i, w, recon.ii[i], failing)
    BY <1>7 DEF AssignToEligible
  <2>2. i \in Insts /\ recon.ii[i] \in InstanceInfoRec
    BY <1>1, <2>1 DEF Fits
  <2> QED
    BY <1>5, <2>1, <2>2
<1>8. CASE AssignmentFails(w)
  BY <1>6, <1>8 DEF AssignmentFails, objectVars
<1>9. CASE AssignToNew(w)
  <2>1. NewInstanceInfo(MinCap) \in InstanceInfoRec
    BY <1>1, NoneType
  <2> QED
    BY <1>5, <1>6, <1>9, <2>1 DEF AssignToNew, objectVars
<1> QED
  BY <1>7, <1>8, <1>9 DEF AssignShare

LEMMA ResizeLife ==
  ASSUME PlacesInv, TypeOK', LinksInv, DeleteOrResizeInstances, NEW v \in Vols, LifeOK(v)
  PROVE  LifeOK(v)'
<1>1. PICK r \in RoundRec : r.phase = "instances" /\ recon' = AfterInstances(r) /\ r.si = recon.si
  BY ResizeLeaves
<1>2. /\ TypeOK /\ RoundLeavesAlone /\ shareInfo' = shareInfo /\ CloudRests(v)
      /\ recon.phase \in ReadsObjects
  BY DEF PlacesInv, DeleteOrResizeInstances, CloudRests, cloudVars, ReadsObjects
<1> QED
  BY <1>1, <1>2, GoesOnLife DEF WalksFrom

LEMMA InstanceRequestLife ==
  ASSUME PlacesInv, TypeOK', LinksInv, NEW i \in Insts, SendInstanceRequest(i), NEW v \in Vols, LifeOK(v)
  PROVE  LifeOK(v)'
<1> DEFINE r == Done(recon, i)
<1>1. /\ TypeOK /\ RoundLeavesAlone /\ shareInfo' = shareInfo /\ recon.phase = "instances"
      /\ recon \in RoundRec /\ recon' = AfterInstances(r)
  BY TypeParts DEF PlacesInv, SendInstanceRequest
<1>2. CloudRests(v)
  <2>1. CASE UNCHANGED cloudVars
    BY <2>1 DEF cloudVars, CloudRests
  <2>2. ASSUME NEW o \in InstanceRequest(i), StartOp(o, "NFS_V3") PROVE CloudRests(v)
    <3>1. o.vol = NoVol /\ v # NoVol
      BY InstanceRequestIs, FilestoreAssumption
    <3> QED
      BY <2>2, <3>1 DEF StartOp, CloudRests
  <2> QED
    BY <2>1, <2>2 DEF SendInstanceRequest
<1>3. /\ r \in RoundRec /\ r.phase = "instances" /\ r.si = recon.si /\ r.todo \subseteq recon.todo
  BY <1>1, DoneRound
<1> HIDE DEF r
<1> QED
  BY <1>1, <1>2, <1>3, GoesOnLife DEF WalksFrom

\* A share that is marked as deleted is gone for good: the round has listed the shares of
\* the one instance that may have it, after the last request for it.
LEMMA MarkLife ==
  ASSUME ~CacheLags, PlacesInv, TypeOK', LinksInv, NEW w \in Vols, recon.phase = "shares", w \in recon.todo,
         MarkShareInfoStatusDeleted(w), RoundLeavesAlone, NEW v \in Vols, LifeOK(v)
  PROVE  LifeOK(v)'
<1> DEFINE i == recon.si[w].handle
           ii == recon.ii[i]
           removed == WithoutShare(ii, w)
           deleted == [recon.si[w] EXCEPT !.status = "deleted"]
<1>1. /\ TypeOK /\ recon \in RoundRec /\ recon.si[w] \in ShareInfoRec /\ i \in Insts
      /\ shareInfo \in [Vols -> ShareInfoRec] /\ ii \in InstanceInfoRec
      /\ share' = share /\ ops' = ops /\ pv' = pv /\ CloudRests(v)
      /\ recon.si[w].deleting /\ w \notin recon.onInst[i]
  BY ShareWork, TypeParts DEF PlacesInv, RoundLeavesAlone, MarkShareInfoStatusDeleted, ShareGone,
                              cloudVars, RoundRec, CloudRests
<1>2. PICK marked \in BOOLEAN :
        /\ marked => CurrentShare(w, recon.si[w])
        /\ shareInfo' = IF marked THEN [shareInfo EXCEPT ![w] = deleted] ELSE shareInfo
        /\ recon' = AfterShares(Done(IF marked THEN [recon EXCEPT !.ii[i] = removed] ELSE recon, w))
  <2>1. PICK failing :
          LET offList == w \notin ii.shares \/ (i \notin failing /\ CurrentInstance(i, ii))
              marked == offList /\ w \notin failing /\ CurrentShare(w, recon.si[w])
          IN /\ FailingAmong(failing, {i, w})
             /\ instanceInfo' = IF offList /\ w \in ii.shares THEN [instanceInfo EXCEPT ![i] = removed]
                                                             ELSE instanceInfo
             /\ shareInfo' = IF marked THEN [shareInfo EXCEPT ![w] = deleted] ELSE shareInfo
             /\ recon' = AfterShares(Done(IF marked THEN [recon EXCEPT !.ii[i] = removed] ELSE recon, w))
    BY Zenon DEF MarkShareInfoStatusDeleted
  <2> DEFINE m == /\ w \notin ii.shares \/ (i \notin failing /\ CurrentInstance(i, ii))
                  /\ w \notin failing /\ CurrentShare(w, recon.si[w])
  <2>2. /\ m \in BOOLEAN /\ (m => CurrentShare(w, recon.si[w]))
        /\ shareInfo' = IF m THEN [shareInfo EXCEPT ![w] = deleted] ELSE shareInfo
        /\ recon' = AfterShares(Done(IF m THEN [recon EXCEPT !.ii[i] = removed] ELSE recon, w))
    BY <2>1
  <2> HIDE DEF m
  <2> QED
    BY <2>2
<1> DEFINE q == IF marked THEN [recon EXCEPT !.ii[i] = removed] ELSE recon
           r == Done(q, w)
<1>3. q \in RoundRec /\ q.phase = "shares" /\ q.si = recon.si /\ q.todo = recon.todo
  <2>1. removed \in InstanceInfoRec
    BY <1>1 DEF WithoutShare, InstanceInfoRec
  <2> HIDE DEF removed
  <2> QED
    BY <1>1, <2>1 DEF RoundRec
<1> HIDE DEF q
<1>4. /\ r \in RoundRec /\ r.phase = "shares" /\ r.si = recon.si /\ r.todo = recon.todo \ {w}
      /\ recon' = AfterShares(r) /\ WalksFrom(r)
  <2>1. recon' = AfterShares(r)
    BY <1>2 DEF q
  <2> QED
    BY <1>3, <2>1, DoneRound DEF WalksFrom
<1> HIDE DEF r
<1>5. CASE shareInfo'[v] = shareInfo[v]
  BY <1>1, <1>4, <1>5, GoesOnLife
<1>6. CASE v = w /\ marked
  <2>1. /\ shareInfo[v] = recon.si[v] /\ shareInfo'[v] = [shareInfo[v] EXCEPT !.status = "deleted"]
        /\ shareInfo[v].exists /\ shareInfo[v].deleting /\ shareInfo[v] \in ShareInfoRec
        /\ shareInfo[v].handle = i
    BY <1>1, <1>2, <1>6 DEF CurrentShare
  <2>2. /\ shareInfo'[v].exists /\ shareInfo'[v].deleting /\ shareInfo'[v].status = "deleted"
        /\ shareInfo'[v].spec = shareInfo[v].spec
    BY <2>1 DEF ShareInfoRec
  <2>3. Absent(v)
    <3> SUFFICES ASSUME NEW j \in Insts, v \in SharesOf(j) PROVE FALSE
      BY DEF Absent
    <3>1. i = j
      BY <1>1, <2>1, OneInst
    <3>2. v \in recon.onInst[j]
      BY <1>6 DEF LinksInv, RoundLinks, SendsRequests, ToBeSent
    <3> QED
      BY <1>1, <1>6, <3>1, <3>2
  <2>4. /\ Gone(v)' /\ Absent(v)'
    BY <1>1, <2>2, <2>3 DEF Gone, Absent, SharesOf
  <2>5. ASSUME NEW s, CopyOK(s, v) PROVE CopyOK(s, v)'
    BY <1>1, <2>1, <2>2, <2>5 DEF CopyOK
  <2>6. CopyOK(shareInfo'[v], v)
    <3>1. CopyOK(shareInfo[v], v)
      BY DEF LifeOK, Copies
    <3> QED
      BY <2>1, <2>2, <3>1 DEF CopyOK
  <2>7. /\ recon'.si[v] \in {recon.si[v], NoShareInfo} /\ recon'.phase \in {"shares", "idle"}
        /\ NotAskedFor(recon', v)
    <3>1. NotAskedFor(r, v) /\ recon' \in {r, Idle}
      BY <1>4, <1>6 DEF NotAskedFor, ReadsObjects, AfterShares
    <3> QED
      BY <1>4, <3>1, IdleRound, WalkAsksNot
  <2>8. shareLister' = shareInfo' /\ controllerLister'[v] \in {controllerLister[v], shareInfo'[v]}
    <3>1. shareLister' = shareInfo'
      BY <2>7 DEF RoundLeavesAlone, CachesFollow, ReadsCaches
    <3> QED
      BY <3>1 DEF RoundLeavesAlone, CachesFollow
  <2>9. \A s \in Copies(v)' : CopyOK(s, v)'
    <3>1. Copies(v)' \subseteq {shareInfo'[v], recon.si[v], NoShareInfo}
      BY <2>7, <2>8 DEF Copies
    <3>2. CopyOK(recon.si[v], v) /\ CopyOK(NoShareInfo, v)
      BY NoneOK DEF LifeOK, Copies
    <3> QED
      BY <2>5, <2>6, <3>1, <3>2
  <2>10. CapsOK(v)'
    BY <1>1, <2>2 DEF LifeOK, CapsOK, SharesOf
  <2>11. ListingOK(v)' /\ GoneOK(v)'
    BY <2>2, <2>4, <2>7, <2>8 DEF ListingOK, GoneOK, Finished
  <2>12. ServedOK(v)'
    <3>1. pv[v].phase \in {"released", "deleted"}
      BY <2>1 DEF LifeOK, CopyOK, Copies
    <3>2. ~Served(v)'
      BY <1>1, <2>2, <3>1 DEF Served
    <3>3. controllerLister'[v].exists
      BY <2>1, <2>2, <2>8 DEF LifeOK, ServedOK
    <3> QED
      BY <1>1, <2>1, <3>2, <3>3 DEF LifeOK, ServedOK
  <2> QED
    BY <2>9, <2>10, <2>11, <2>12 DEF LifeOK
<1> QED
  BY <1>1, <1>2, <1>5, <1>6

\* A request for a share is made from a copy that is not ahead of the ShareInfo; a share that
\* is in use is neither created again nor deleted.
LEMMA ShareStartLife ==
  ASSUME ~CacheLags, PlacesInv, TypeOK', LinksInv, NEW w \in Vols,
         recon.phase = "shares", w \in recon.todo, NEW o \in ShareRequest(w),
         NEW protocol, StartOp(o, protocol),
         recon' = AfterShares(Done(recon, w)), UNCHANGED objectVars, RoundLeavesAlone,
         NEW v \in Vols, LifeOK(v)
  PROVE  LifeOK(v)'
<1> DEFINE r == Done(recon, w)
           i == recon.si[w].handle
           c == recon.si[w]
<1>1. /\ TypeOK /\ recon \in RoundRec /\ c \in ShareInfoRec /\ i \in Insts /\ pv' = pv
      /\ shareInfo' = shareInfo /\ share \in [Insts -> [Vols -> ShareRec]] /\ w # NoVol
      /\ shareInfo[w] \in ShareInfoRec /\ CachesFollow
      /\ shareInfo' \in [Vols -> ShareInfoRec] /\ instanceInfo' \in [Insts -> InstanceInfoRec]
      /\ shareLister = shareInfo
  <2>1. shareLister = shareInfo
    BY DEF LinksInv, CachesInStep, ReadsCaches
  <2> QED
    BY <2>1, ShareWork, TypeParts, FilestoreAssumption DEF RoundLeavesAlone, objectVars, TypeOK, ObjectsTypeOK
<1>2. /\ r \in RoundRec /\ r.phase = "shares" /\ r.si = recon.si /\ r.todo \subseteq recon.todo
      /\ recon' = AfterShares(r)
  BY <1>1, DoneRound
<1> HIDE DEF r
<1>3. WalksFrom(r)
  BY <1>2 DEF WalksFrom
<1>4. o.inst = i /\ o.vol = w /\ o.type \in ShareOps /\ (o.type = "ShareDelete" <=> c.deleting)
  BY ShareRequestIs
<1>5. CASE v # w
  <2>1. CloudRests(v)
    BY <1>1, <1>4, <1>5 DEF StartOp, CloudRests
  <2> QED
    BY <1>1, <1>2, <1>3, <2>1, GoesOnLife
<1>6. CASE v = w
  <2>1. ~Gone(v) /\ CopyOK(c, v) /\ CopyOK(shareInfo[v], v) /\ CapsOK(v) /\ ServedOK(v)
    BY <1>6 DEF LifeOK, GoneOK, NotAskedFor, Copies
  <2>2. c.exists /\ shareInfo[v].exists
    BY <1>6, <2>1 DEF LinksInv, DeletionMarks, CopyOK
  <2>3. /\ c.spec >= ShareSize[v] /\ c.spec <= shareInfo[v].spec
        /\ \A j \in Insts : share[j][v].cap <= c.spec
        /\ \A j \in Insts : share[j][v].cap <= shareInfo[v].spec
        /\ \A p \in ops : p.vol = v => p.cap <= c.spec /\ p.cap <= shareInfo[v].spec
    BY <1>6, <2>1, <2>2 DEF CopyOK
  <2>4. o.cap \in Nat /\ (o.type = "ShareDelete" => o.cap = 0) /\ (o.type # "ShareDelete" => o.cap = c.spec)
    <3>1. c.spec \in Nat
      BY <1>1 DEF ShareInfoRec
    <3>2. \/ o.type = "ShareDelete" /\ o.cap = 0
          \/ o.type = "ShareCreate" /\ o.cap = c.spec
          \/ o.type = "ShareUpdate" /\ o.cap = c.spec
      BY DEF ShareRequest, OpOnShare
    <3> HIDE DEF c, i
    <3> QED
      BY <3>1, <3>2
  <2>5. /\ ops' = ops \cup {o}
        /\ \A j \in Insts : j # i => share'[j][v] = share[j][v]
        /\ o.type = "ShareCreate" => share[i][v].state = "ABSENT" /\ share'[i][v].state = "CREATING"
                                     /\ share'[i][v].cap = c.spec
        /\ o.type = "ShareDelete" => share'[i][v].state = "DELETING" /\ share'[i][v].cap = share[i][v].cap
                                     /\ share[i][v].state = "READY"
        /\ o.type = "ShareUpdate" => share'[i][v] = share[i][v] /\ share[i][v].state = "READY"
    <3>1. share[i][v] \in ShareRec
      BY <1>1
    <3>2. /\ ops' = ops \cup {o} /\ Accepts(o)
          /\ share' = [share EXCEPT ![i][v] =
               CASE o.type = "ShareCreate" -> [state |-> "CREATING", cap |-> o.cap]
                 [] o.type = "ShareDelete" -> [share[i][v] EXCEPT !.state = "DELETING"]
                 [] OTHER -> share[i][v]]
      BY <1>1, <1>4, <1>6 DEF StartOp
    <3>3. /\ o.type = "ShareCreate" => share[i][v].state = "ABSENT"
          /\ o.type \in {"ShareDelete", "ShareUpdate"} => share[i][v].state = "READY"
      BY <1>4, <1>6, <3>2 DEF Accepts
    <3>4. \A j \in Insts : j # i => share'[j][v] = share[j][v]
      BY <1>1, <3>2
    <3>5. share'[i][v] = CASE o.type = "ShareCreate" -> [state |-> "CREATING", cap |-> o.cap]
                           [] o.type = "ShareDelete" -> [share[i][v] EXCEPT !.state = "DELETING"]
                           [] OTHER -> share[i][v]
      BY <1>1, <3>2
    <3>6. /\ o.type = "ShareCreate" => share'[i][v].state = "CREATING" /\ share'[i][v].cap = o.cap
          /\ o.type = "ShareDelete" => share'[i][v].state = "DELETING" /\ share'[i][v].cap = share[i][v].cap
          /\ o.type = "ShareUpdate" => share'[i][v] = share[i][v]
      <4>1. o.type = "ShareCreate" => share'[i][v] = [state |-> "CREATING", cap |-> o.cap]
        BY <3>5
      <4>2. o.type = "ShareDelete" => share'[i][v] = [share[i][v] EXCEPT !.state = "DELETING"]
        BY <3>5
      <4>3. o.type = "ShareUpdate" => share'[i][v] = share[i][v]
        BY <3>5
      <4> HIDE DEF c, i
      <4>4. o.type = "ShareCreate" => share'[i][v].state = "CREATING" /\ share'[i][v].cap = o.cap
        BY <4>1
      <4>5. o.type = "ShareDelete" => share'[i][v].state = "DELETING" /\ share'[i][v].cap = share[i][v].cap
        BY <3>1, <4>2 DEF ShareRec
      <4> QED
        BY <4>3, <4>4, <4>5
    <3> QED
      BY <2>4, <3>2, <3>3, <3>4, <3>6
  <2>6. /\ c.spec \in Nat /\ shareInfo[v].spec \in Nat /\ share[i][v].cap \in Nat /\ ShareSize[v] \in Nat
    <3>1. c.spec \in Nat /\ shareInfo[v].spec \in Nat
      BY <1>1, <1>6 DEF ShareInfoRec
    <3>2. share[i][v].cap \in Nat
      BY <1>1 DEF ShareRec
    <3> QED
      BY <3>1, <3>2, InfoAssumption
  <2>7. CapsOK(v)'
    <3>1. ASSUME NEW j \in Insts
          PROVE  IF v \in SharesOf(j)' THEN share'[j][v].cap >= ShareSize[v] ELSE share'[j][v].cap = 0
      <4>1. CASE j # i
        BY <2>1, <2>5, <4>1 DEF CapsOK, SharesOf
      <4>2. CASE j = i
        <5>1. o.type # "ShareCreate" => share[i][v].cap >= ShareSize[v]
          BY <1>1, <1>4, <1>6, <2>1, <2>5 DEF CapsOK, SharesOf, ShareOps
        <5> QED
          BY <1>4, <2>3, <2>5, <4>2, <5>1 DEF SharesOf, ShareOps
      <4> QED
        BY <4>1, <4>2
    <3>2. ASSUME NEW p \in ops', p.vol = v, p.type = "ShareUpdate" PROVE p.cap >= share'[p.inst][v].cap
      <4>1. CASE p = o
        BY <1>1, <1>4, <2>3, <2>4, <2>5, <3>2, <4>1
      <4>2. CASE p \in ops
        <5>1. /\ p.cap >= share[p.inst][v].cap /\ p.inst \in Insts /\ OpStays(p) /\ p.cap \in Nat
              /\ v \in SharesOf(p.inst)
          BY <2>1, <3>2, <4>2, RunsOnShare DEF CapsOK
        <5>2. CASE p.inst # i
          BY <2>5, <5>1, <5>2
        <5>3. CASE p.inst = i
          BY <1>4, <2>5, <5>1, <5>3 DEF SharesOf, ShareOps
        <5> QED
          BY <5>2, <5>3
      <4> QED
        BY <2>5, <4>1, <4>2
    <3> QED
      BY <1>1, <2>2, <3>1, <3>2 DEF CapsOK
  <2>8. ASSUME NEW s \in Copies(v), s.exists
        PROVE  /\ \A j \in Insts : share'[j][v].cap <= s.spec
               /\ \A p \in ops' : p.vol = v => p.cap <= s.spec
    <3>1. s \in {c, shareInfo[v]} /\ s.spec \in Nat
      BY <1>1, <1>6, <2>6, <2>8 DEF Copies
    <3> HIDE DEF c, i
    <3>2. c.spec <= s.spec /\ (\A j \in Insts : share[j][v].cap <= s.spec)
          /\ \A p \in ops : p.vol = v => p.cap <= s.spec
      BY <2>3, <2>6, <3>1
    <3>3. ASSUME NEW j \in Insts PROVE share'[j][v].cap <= s.spec
      BY <1>4, <2>5, <3>2 DEF ShareOps
    <3>4. ASSUME NEW p \in ops', p.vol = v PROVE p.cap <= s.spec
      <4>1. o.cap <= s.spec
        BY <2>4, <3>1, <3>2
      <4> QED
        BY <2>5, <3>2, <3>4, <4>1
    <3> QED
      BY <3>3, <3>4
  <2>9. Served(v) => share'[pv[v].inst][v].state = "READY" /\ share'[pv[v].inst][v].cap >= pv[v].cap
    <3> SUFFICES ASSUME Served(v)
                 PROVE  share'[pv[v].inst][v].state = "READY" /\ share'[pv[v].inst][v].cap >= pv[v].cap
      OBVIOUS
    <3>1. /\ pv[v].inst \in Insts /\ share[pv[v].inst][v].state = "READY"
          /\ share[pv[v].inst][v].cap >= pv[v].cap
      BY <2>1 DEF ServedOK, Served
    <3>2. pv[v].inst = i
      <4>1. v \in SharesOf(pv[v].inst)
        BY <3>1 DEF SharesOf
      <4> QED
        BY <1>1, <1>6, <3>1, <4>1, OneInst
    <3>3. ~c.deleting
      BY <1>6, <2>1, <2>2, LinksAre DEF Served, CopyOK, Marked, Copies
    <3> QED
      BY <1>4, <2>5, <3>1, <3>2, <3>3 DEF ShareOps
  <2>10. /\ shareLister'[v] \in {shareLister[v], shareInfo'[v]}
         /\ controllerLister'[v] \in {controllerLister[v], shareInfo'[v]}
    BY <1>1, CachesShow
  <2>11. recon'.si[v] \in {recon.si[v], NoShareInfo} /\ recon'.phase # "listed"
    BY <1>2, <1>3, WalkedSi
  <2> HIDE DEF c, i
  <2> QED
    BY <1>1, <2>1, <2>2, <2>7, <2>8, <2>9, <2>10, <2>11, LifeMoves
<1> QED
  BY <1>5, <1>6

LEMMA ShareRequestLife ==
  ASSUME ~CacheLags, PlacesInv, TypeOK', LinksInv, NEW w \in Vols, SendShareRequest(w),
         NEW v \in Vols, LifeOK(v)
  PROVE  LifeOK(v)'
<1>1. /\ recon.phase = "shares" /\ w \in recon.todo /\ RoundLeavesAlone /\ TypeOK /\ recon \in RoundRec
  BY TypeParts DEF SendShareRequest, PlacesInv
<1>2. CASE MarkShareInfoStatusDeleted(w)
  BY <1>1, <1>2, MarkLife
<1>3. CASE /\ \E o \in ShareRequest(w) : StartOp(o, "")
           /\ recon' = AfterShares(Done(recon, w)) /\ UNCHANGED objectVars
  BY <1>1, <1>3, ShareStartLife
<1>4. CASE recon' = AfterShares(Done(recon, w)) /\ UNCHANGED objectVars /\ UNCHANGED cloudVars
  <2> DEFINE r == Done(recon, w)
  <2>1. r \in RoundRec /\ r.phase = "shares" /\ r.si = recon.si /\ r.todo \subseteq recon.todo
    BY <1>1, DoneRound
  <2>2. WalksFrom(r) /\ CloudRests(v) /\ shareInfo' = shareInfo
    BY <1>4, <2>1 DEF WalksFrom, CloudRests, cloudVars, objectVars
  <2> HIDE DEF r
  <2> QED
    BY <1>1, <2>1, <2>2, GoesOnLife
<1> QED
  BY <1>2, <1>3, <1>4 DEF SendShareRequest

-----------------------------------------------------------------------------
(* The requests of the controller. *)

\* What a request leaves of another volume, and of one whose ShareInfo it only marks or reads.
LEMMA RequestLeaves ==
  ASSUME PlacesInv, TypeOK', LinksInv, UNCHANGED recon, CachesFollow, cloudVars' = cloudVars, NEW v \in Vols
  PROVE  /\ TypeOK /\ CloudRests(v) /\ share' = share /\ ops' = ops /\ recon' = recon
         /\ shareLister'[v] \in {shareLister[v], shareInfo'[v]}
         /\ controllerLister'[v] \in {controllerLister[v], shareInfo'[v]}
         /\ (Absent(v)' <=> Absent(v))
         /\ Copies(v)' \subseteq {shareInfo'[v], shareLister[v], recon.si[v]}
<1>1. /\ TypeOK /\ share' = share /\ ops' = ops
      /\ shareInfo' \in [Vols -> ShareInfoRec] /\ instanceInfo' \in [Insts -> InstanceInfoRec]
  BY DEF PlacesInv, TypeOK, ObjectsTypeOK, cloudVars
<1>2. /\ shareLister'[v] \in {shareLister[v], shareInfo'[v]}
      /\ controllerLister'[v] \in {controllerLister[v], shareInfo'[v]}
  BY <1>1, CachesShow
<1> QED
  BY <1>1, <1>2 DEF CloudRests, Absent, SharesOf, Copies

LEMMA OtherLife ==
  ASSUME PlacesInv, TypeOK', LinksInv, UNCHANGED recon, CachesFollow, cloudVars' = cloudVars,
         NEW v \in Vols, LifeOK(v), Like(shareInfo'[v], shareInfo[v]), pv'[v] = pv[v]
  PROVE  LifeOK(v)'
<1>1. TypeOK /\ Quiet(v)
  BY RequestLeaves DEF Quiet
<1>2. CopyOK(recon'.si[v], v) /\ (Gone(v) => NotAskedFor(recon', v))
  BY DEF LifeOK, GoneOK, Copies
<1> QED
  BY <1>1, <1>2, LifeStays

\* A step that leaves the ShareInfo of a volume that is not gone.
LEMMA AnswerLife ==
  ASSUME PlacesInv, TypeOK', LinksInv, UNCHANGED recon, CachesFollow, cloudVars' = cloudVars,
         NEW v \in Vols, LifeOK(v), ~Gone(v), ~Gone(v)', shareInfo'[v] = shareInfo[v],
         pv'[v].inst \in Insts, pv'[v].phase # "deleted",
         pv[v].phase \in {"released", "deleted"} => pv'[v].phase = "released",
         Served(v)' => /\ share[pv'[v].inst][v].state = "READY"
                       /\ share[pv'[v].inst][v].cap >= pv'[v].cap
  PROVE  LifeOK(v)'
<1>1. /\ share' = share /\ ops' = ops /\ recon' = recon
      /\ shareLister'[v] \in {shareLister[v], shareInfo'[v]}
      /\ controllerLister'[v] \in {controllerLister[v], shareInfo'[v]}
      /\ Copies(v)' \subseteq {shareInfo'[v], shareLister[v], recon.si[v]}
  BY RequestLeaves
<1>2. \A s \in Copies(v)' : CopyOK(s, v)'
  <2>1. ASSUME NEW s, CopyOK(s, v) PROVE CopyOK(s, v)'
    BY <1>1, <2>1 DEF CopyOK
  <2>2. \A s \in Copies(v)' : CopyOK(s, v)
    BY <1>1 DEF LifeOK, Copies
  <2> QED
    BY <2>1, <2>2
<1>3. CapsOK(v)' /\ ListingOK(v)' /\ GoneOK(v)'
  <2>1. CapsOK(v)'
    BY <1>1 DEF LifeOK, CapsOK, SharesOf
  <2>2. ListingOK(v)'
    BY <1>1 DEF LifeOK, ListingOK, ListedOn
  <2>3. GoneOK(v)'
    BY DEF GoneOK
  <2> QED
    BY <2>1, <2>2, <2>3
<1>4. ServedOK(v)'
  <2>1. shareInfo'[v].deleting => controllerLister'[v].exists
    BY <1>1, LinksAre DEF LifeOK, ServedOK, Marked, Copies
  <2> QED
    BY <1>1, <2>1 DEF ServedOK
<1> QED
  BY <1>2, <1>3, <1>4 DEF LifeOK

\* Nobody knows of a share that is wanted and has no ShareInfo.
LEMMA CreateShareInfoLife ==
  ASSUME PlacesInv, TypeOK', LinksInv, UNCHANGED recon, CachesFollow, cloudVars' = cloudVars,
         NEW v \in Vols, LifeOK(v), CreateShareInfo(v)
  PROVE  LifeOK(v)'
<1> DEFINE s0 == shareInfo'[v]
<1>1. /\ TypeOK /\ share' = share /\ ops' = ops /\ recon' = recon /\ pv' = pv
      /\ shareLister'[v] \in {shareLister[v], shareInfo'[v]}
      /\ controllerLister'[v] \in {controllerLister[v], shareInfo'[v]}
      /\ (Absent(v)' <=> Absent(v))
      /\ Copies(v)' \subseteq {shareInfo'[v], shareLister[v], recon.si[v]}
      /\ pv[v].phase = "wanted" /\ ~shareInfo[v].exists
      /\ s0 = NewShareInfo(ShareSize[v], TRUE)
  BY RequestLeaves, TypeParts DEF CreateShareInfo, FoundShareInfo
<1>2. s0.exists /\ ~s0.deleting /\ s0.status # "deleted" /\ s0.spec = ShareSize[v] /\ ShareSize[v] \in Nat
  BY <1>1, InfoAssumption DEF NewShareInfo, NoShareInfo
<1> HIDE DEF s0
<1>3. /\ \A s \in Copies(v) : CopyOK(s, v)
      /\ CapsOK(v) /\ GoneOK(v) /\ ListingOK(v)
  BY DEF LifeOK
<1>4. ~Gone(v) /\ ~Gone(v)'
  BY <1>1, <1>2, <1>3 DEF Gone, CopyOK, Copies, s0
<1>5. \A s \in Copies(v) : ~s.exists /\ ~s.deleting /\ s.status # "deleted"
  BY <1>1, <1>3, <1>4 DEF CopyOK
<1>6. Places(v) = {}
  BY <1>1 DEF PlacesInv, PlaceOK, Unplaced
<1>7. /\ \A i \in Insts : v \notin SharesOf(i) /\ v \notin ListedOn(i)
      /\ \A o \in ops : o.vol # v
  BY <1>1, <1>6, PlacesAre, TypeParts, OpShape DEF OnInstance, SharesOf, ListedOn
<1>8. CapsOK(v)' /\ \A i \in Insts : share[i][v].cap = 0
  BY <1>1, <1>3, <1>7 DEF CapsOK, SharesOf
<1>9. \A s \in Copies(v)' : CopyOK(s, v)'
  <2>1. ASSUME NEW s, s = s0 PROVE CopyOK(s, v)'
    <3>1. s.exists /\ ~s.deleting /\ s.status # "deleted" /\ s.spec = ShareSize[v] /\ s = shareInfo'[v]
      BY <1>2, <2>1 DEF s0
    <3>2. /\ \A i \in Insts : share'[i][v].cap = 0
          /\ \A o \in ops' : o.vol # v
          /\ ShareSize[v] \in Nat
      BY <1>1, <1>2, <1>7, <1>8
    <3> QED
      BY <3>1, <3>2 DEF CopyOK
  <2>2. ASSUME NEW s, ~s.exists, ~s.deleting, s.status # "deleted" PROVE CopyOK(s, v)'
    BY <2>2 DEF CopyOK
  <2>3. ASSUME NEW s \in Copies(v)' PROVE s = s0 \/ (~s.exists /\ ~s.deleting /\ s.status # "deleted")
    BY <1>1, <1>5, <2>3 DEF Copies, s0
  <2> QED
    BY <2>1, <2>2, <2>3
<1>10. ListingOK(v)'
  <2>1. \A i \in Insts : v \notin ListedOn(i)'
    BY <1>1, <1>7 DEF ListedOn
  <2>2. \A i \in Insts : recon.phase = "listed" => recon.shares[i][v].cap = 0
    BY <1>3, <1>7 DEF ListingOK
  <2>3. \A s \in {shareInfo'[v], shareLister'[v]} : s.exists => s.spec >= 0
    <3>1. ~shareLister[v].exists
      BY <1>5 DEF Copies
    <3>2. shareInfo'[v].spec >= 0
      BY <1>2 DEF s0
    <3> QED
      BY <1>1, <3>1, <3>2
  <2> QED
    BY <1>1, <1>2, <2>1, <2>2, <2>3 DEF ListingOK, s0
<1>11. GoneOK(v)'
  BY <1>4 DEF GoneOK
<1>12. ServedOK(v)'
  BY <1>1, <1>2 DEF ServedOK, Served, s0
<1> QED
  BY <1>8, <1>9, <1>10, <1>11, <1>12 DEF LifeOK

\* A volume that is answered for is not gone, and its share is where the answer says.
LEMMA CreateAnswersLife ==
  ASSUME PlacesInv, TypeOK', LinksInv, UNCHANGED recon, CachesFollow, cloudVars' = cloudVars,
         NEW v \in Vols, LifeOK(v), CreateAnswers(v)
  PROVE  LifeOK(v)'
<1> DEFINE s == FoundShareInfo(v)
<1>1. /\ TypeOK /\ share' = share /\ pv[v].phase = "wanted" /\ shareInfo' = shareInfo
      /\ pv'[v] = [phase |-> "bound", inst |-> s.handle, cap |-> ShareSize[v]]
      /\ s.handle \in Insts /\ share[s.handle][v].state = "READY"
  <2>1. TypeOK /\ share' = share
    BY RequestLeaves
  <2>2. s \in ShareInfoRec
    BY <2>1, TypeParts DEF FoundShareInfo
  <2> QED
    BY <2>1, <2>2, TypeParts DEF CreateAnswers, Told, GetShare, ShareInfoRec
<1> HIDE DEF s
<1>2. pv'[v].phase = "bound" /\ pv'[v].inst = s.handle /\ pv'[v].cap = ShareSize[v]
  BY <1>1
<1>3. CopyOK(shareInfo[v], v) /\ CapsOK(v)
  BY DEF LifeOK, Copies
<1>4. ~Gone(v) /\ ~Gone(v)'
  BY <1>1, <1>2, <1>3 DEF Gone, CopyOK
<1>5. share[s.handle][v].cap >= ShareSize[v]
  BY <1>1, <1>3 DEF CapsOK, SharesOf
<1> QED
  BY <1>1, <1>2, <1>4, <1>5, AnswerLife

\* What is deleted without a ShareInfo in the cache has none, and no share anywhere.
LEMMA DeleteFindsLife ==
  ASSUME PlacesInv, TypeOK', LinksInv, UNCHANGED recon, CachesFollow, cloudVars' = cloudVars,
         NEW v \in Vols, LifeOK(v), DeleteFindsNothing(v)
  PROVE  LifeOK(v)'
<1>1. /\ TypeOK /\ share' = share /\ ops' = ops /\ recon' = recon /\ shareInfo' = shareInfo
      /\ shareLister'[v] \in {shareLister[v], shareInfo'[v]}
      /\ controllerLister'[v] \in {controllerLister[v], shareInfo'[v]}
      /\ (Absent(v)' <=> Absent(v))
      /\ Copies(v)' \subseteq {shareInfo'[v], shareLister[v], recon.si[v]}
      /\ pv[v].phase = "released" /\ ~controllerLister[v].exists
      /\ share[pv[v].inst][v].state = "ABSENT"
  BY RequestLeaves DEF DeleteFindsNothing
<1>2. pv'[v].phase = "deleted" /\ pv'[v].inst = pv[v].inst /\ pv'[v].cap = pv[v].cap
  BY <1>1, TypeParts DEF DeleteFindsNothing, Deleted, PVRec
<1>3. ~Served(v)
  BY <1>1 DEF LifeOK, ServedOK
<1>4. ~shareInfo[v].exists /\ ~shareInfo[v].deleting /\ Absent(v)
  BY <1>1, <1>3, LinksAre DEF LifeOK, ServedOK, Served, Marked, Copies
<1>5. Gone(v) /\ Gone(v)'
  BY <1>1, <1>2, <1>4 DEF Gone
<1>6. \A s \in Copies(v)' : CopyOK(s, v)'
  <2>1. ASSUME NEW s, CopyOK(s, v) PROVE CopyOK(s, v)'
    BY <1>1, <1>2, <1>5, <2>1 DEF CopyOK
  <2>2. \A s \in Copies(v)' : CopyOK(s, v)
    BY <1>1 DEF LifeOK, Copies
  <2> QED
    BY <2>1, <2>2
<1>7. CapsOK(v)'
  BY <1>1 DEF LifeOK, CapsOK, SharesOf
<1>8. ListingOK(v)'
  BY <1>1, <1>5 DEF LifeOK, ListingOK, ListedOn
<1>9. GoneOK(v)'
  BY <1>1, <1>4, <1>5 DEF LifeOK, GoneOK, Finished
<1>10. ServedOK(v)'
  BY <1>1, <1>2, <1>4 DEF LifeOK, ServedOK, Served
<1> QED
  BY <1>6, <1>7, <1>8, <1>9, <1>10 DEF LifeOK

\* A deletion is asked for.
LEMMA DeleteShareInfoLife ==
  ASSUME PlacesInv, TypeOK', LinksInv, UNCHANGED recon, CachesFollow, cloudVars' = cloudVars,
         NEW v \in Vols, LifeOK(v), DeleteShareInfo(v)
  PROVE  LifeOK(v)'
<1> DEFINE s0 == shareInfo[v]
           s1 == shareInfo'[v]
<1>1. /\ TypeOK /\ share' = share /\ ops' = ops /\ recon' = recon /\ pv' = pv
      /\ shareLister'[v] \in {shareLister[v], s1}
      /\ controllerLister'[v] \in {controllerLister[v], s1}
      /\ (Absent(v)' <=> Absent(v))
      /\ Copies(v)' \subseteq {s1, shareLister[v], recon.si[v]}
      /\ pv[v].phase = "released" /\ controllerLister[v].exists
      /\ s1 = MarkedForDeletion(s0) /\ s0 \in ShareInfoRec
  BY RequestLeaves, TypeParts DEF DeleteShareInfo
<1>2. CASE ~s0.exists
  <2>1. Like(s1, s0)
    BY <1>1, <1>2 DEF MarkedForDeletion, Like
  <2> QED
    BY <1>1, <2>1, OtherLife
<1>3. CASE s0.exists
  <2>1. s1.exists /\ s1.deleting /\ s1.spec = s0.spec /\ (s1.status = "deleted" <=> s0.status = "deleted")
    BY <1>1, <1>3 DEF MarkedForDeletion, ShareInfoRec
  <2> HIDE DEF s0, s1
  <2>2. s1 = shareInfo'[v] /\ s0 = shareInfo[v]
    BY DEF s0, s1
  <2>3. Gone(v)' <=> Gone(v)
    BY <1>1, <1>3, <2>1, <2>2 DEF Gone
  <2>4. /\ \A s \in Copies(v) : CopyOK(s, v)
        /\ CapsOK(v) /\ GoneOK(v) /\ ListingOK(v)
    BY DEF LifeOK
  <2>5. \A s \in Copies(v)' : CopyOK(s, v)'
    <3>1. ASSUME NEW s, CopyOK(s, v) PROVE CopyOK(s, v)'
      BY <1>1, <1>3, <2>1, <2>2, <2>3, <3>1 DEF CopyOK
    <3>2. CopyOK(s1, v)
      <4>1. CopyOK(s0, v)
        BY <2>2, <2>4 DEF Copies
      <4> QED
        BY <1>1, <1>3, <2>1, <4>1 DEF CopyOK
    <3>3. \A s \in Copies(v)' : CopyOK(s, v)
      BY <1>1, <2>2, <2>4, <3>2 DEF Copies
    <3> QED
      BY <3>1, <3>3
  <2>6. CapsOK(v)'
    BY <1>1, <1>3, <2>1, <2>2, <2>4 DEF CapsOK, SharesOf
  <2>7. ListingOK(v)'
    <3>1. ASSUME NEW i \in Insts, recon.phase = "listed", NEW s \in {shareInfo'[v], shareLister'[v]}, s.exists
          PROVE  recon.shares[i][v].cap <= s.spec
      <4>1. \A t \in {shareInfo[v], shareLister[v]} : t.exists => recon.shares[i][v].cap <= t.spec
        BY <2>4, <3>1 DEF ListingOK
      <4> QED
        BY <1>1, <1>3, <2>1, <2>2, <3>1, <4>1
    <3> QED
      BY <1>1, <1>3, <2>1, <2>2, <2>3, <2>4, <3>1 DEF ListingOK, ListedOn
  <2>8. GoneOK(v)'
    <3> SUFFICES ASSUME Gone(v) PROVE Absent(v) /\ Finished(shareLister'[v]) /\ NotAskedFor(recon, v)
      BY <1>1, <2>3 DEF GoneOK, Finished, NotAskedFor
    <3>1. Absent(v) /\ Finished(shareLister[v]) /\ NotAskedFor(recon, v)
      BY <2>4 DEF GoneOK
    <3>2. s1.status = "deleted"
      BY <1>1, <1>3, <2>1, <2>2 DEF Gone
    <3> QED
      BY <1>1, <2>1, <3>1, <3>2 DEF Finished
  <2>9. ServedOK(v)'
    BY <1>1, <1>3, <2>1, <2>2 DEF LifeOK, ServedOK, Served
  <2> QED
    BY <2>5, <2>6, <2>7, <2>8, <2>9 DEF LifeOK
<1> QED
  BY <1>2, <1>3

\* The share is known to be gone: the ShareInfo is released.
LEMMA DeleteAnswersLife ==
  ASSUME PlacesInv, TypeOK', LinksInv, UNCHANGED recon, CachesFollow, cloudVars' = cloudVars,
         NEW v \in Vols, LifeOK(v), DeleteAnswers(v)
  PROVE  LifeOK(v)'
<1>1. /\ TypeOK /\ share' = share /\ ops' = ops /\ recon' = recon
      /\ shareLister'[v] \in {shareLister[v], shareInfo'[v]}
      /\ controllerLister'[v] \in {controllerLister[v], shareInfo'[v]}
      /\ (Absent(v)' <=> Absent(v))
      /\ Copies(v)' \subseteq {shareInfo'[v], shareLister[v], recon.si[v]}
      /\ pv[v].phase = "released"
      /\ shareInfo[v].status = "deleted" /\ shareInfo[v].exists
      /\ shareInfo'[v] = NoShareInfo
  BY RequestLeaves, TypeParts DEF DeleteAnswers, CurrentShare
<1>2. /\ pv'[v].phase \in {"released", "deleted"} /\ pv'[v].inst = pv[v].inst /\ pv'[v].cap = pv[v].cap
  BY <1>1, TypeParts DEF DeleteAnswers, Deleted, PVRec
<1>3. ~shareInfo'[v].exists /\ ~shareInfo'[v].deleting /\ shareInfo'[v].status # "deleted"
  <2>1. ~NoShareInfo.exists /\ ~NoShareInfo.deleting /\ NoShareInfo.status # "deleted"
    BY DEF NoShareInfo
  <2> QED
    BY <1>1, <2>1
<1>4. /\ \A s \in Copies(v) : CopyOK(s, v)
      /\ CapsOK(v) /\ GoneOK(v) /\ ListingOK(v)
  BY DEF LifeOK
<1>5. Gone(v) /\ Absent(v) /\ Finished(shareLister[v]) /\ NotAskedFor(recon, v)
  BY <1>1, <1>4 DEF Gone, GoneOK
<1>6. Gone(v)' /\ ~Served(v)'
  BY <1>1, <1>2, <1>3, <1>5 DEF Gone, Served
<1>7. \A o \in ops : o.vol # v
  BY <1>5, RunsOnShare
<1>8. \A s \in Copies(v)' : CopyOK(s, v)'
  <2>1. ASSUME NEW s, CopyOK(s, v) PROVE CopyOK(s, v)'
    BY <1>1, <1>2, <1>3, <1>6, <2>1 DEF CopyOK
  <2>2. \A s \in Copies(v)' : CopyOK(s, v)
    BY <1>1, <1>4, NoneOK DEF Copies
  <2> QED
    BY <2>1, <2>2
<1>9. CapsOK(v)'
  BY <1>1, <1>4, <1>7 DEF CapsOK, SharesOf
<1>10. ListingOK(v)'
  <2>1. ASSUME NEW i \in Insts PROVE share[i][v] = AbsentShare
    <3>1. share[i][v] \in ShareRec /\ share[i][v].state = "ABSENT" /\ share[i][v].cap = 0
      BY <1>1, <1>4, <1>5, TypeParts DEF Absent, SharesOf, CapsOK
    <3> QED
      BY <3>1 DEF AbsentShare, ShareRec
  <2>2. ASSUME recon.phase = "listed" PROVE \A i \in Insts : v \notin ListedOn(i) /\ recon.shares[i][v].cap = 0
    BY <1>4, <1>5, <2>2 DEF ListingOK
  <2>3. ASSUME recon.phase = "listed", NEW i \in Insts, shareLister[v].exists
        PROVE  recon.shares[i][v].cap <= shareLister[v].spec
    BY <1>4, <2>3 DEF ListingOK
  <2> QED
    BY <1>1, <1>3, <2>1, <2>2, <2>3 DEF ListingOK, ListedOn
<1>11. GoneOK(v)'
  BY <1>1, <1>3, <1>5 DEF GoneOK, Finished, NotAskedFor
<1>12. ServedOK(v)'
  BY <1>1, <1>2, <1>3, <1>6 DEF LifeOK, ServedOK
<1> QED
  BY <1>8, <1>9, <1>10, <1>11, <1>12 DEF LifeOK

\* A larger share is asked for.
LEMMA ExpandShareInfoLife ==
  ASSUME PlacesInv, TypeOK', LinksInv, UNCHANGED recon, CachesFollow, cloudVars' = cloudVars,
         NEW v \in Vols, LifeOK(v), ExpandShareInfo(v)
  PROVE  LifeOK(v)'
<1> DEFINE s0 == shareInfo[v]
           s1 == shareInfo'[v]
<1>1. /\ TypeOK /\ share' = share /\ ops' = ops /\ recon' = recon /\ pv' = pv
      /\ shareLister'[v] \in {shareLister[v], s1}
      /\ controllerLister'[v] \in {controllerLister[v], s1}
      /\ (Absent(v)' <=> Absent(v))
      /\ Copies(v)' \subseteq {s1, shareLister[v], recon.si[v]}
      /\ pv[v].phase = "bound" /\ s0.exists /\ s0.spec < ExpandSize[v]
      /\ s1 = [s0 EXCEPT !.spec = ExpandSize[v]] /\ s0 \in ShareInfoRec
      /\ ExpandSize[v] \in Nat /\ ShareSize[v] \in Nat
  BY RequestLeaves, TypeParts, InfoAssumption DEF ExpandShareInfo, CurrentShare
<1>2. /\ s1.exists /\ (s1.deleting <=> s0.deleting) /\ s1.spec = ExpandSize[v] /\ s1.spec > s0.spec
      /\ (s1.status = "deleted" <=> s0.status = "deleted") /\ s0.spec \in Nat
  BY <1>1 DEF ShareInfoRec
<1> HIDE DEF s0, s1
<1>3. s1 = shareInfo'[v] /\ s0 = shareInfo[v]
  BY DEF s0, s1
<1>4. /\ \A s \in Copies(v) : CopyOK(s, v)
      /\ CapsOK(v) /\ ListingOK(v)
  BY DEF LifeOK
<1>5. ~Gone(v) /\ ~Gone(v)'
  BY <1>1, <1>2, <1>3, <1>4 DEF Gone, CopyOK, Copies
<1>6. /\ \A i \in Insts : share[i][v].cap \in Nat /\ recon.shares[i][v].cap \in Nat
      /\ \A o \in ops : o.cap \in Nat
      /\ \A s \in Copies(v) : s.spec \in Nat
  <2>1. /\ share \in [Insts -> [Vols -> ShareRec]] /\ recon.shares \in [Insts -> [Vols -> ShareRec]]
        /\ shareLister[v] \in ShareInfoRec /\ recon.si[v] \in ShareInfoRec /\ s0 \in ShareInfoRec
        /\ \A o \in ops : o.cap \in Nat
    BY <1>1, TypeParts, OpShape, WalkIsRound
  <2> QED
    BY <1>3, <2>1 DEF ShareRec, ShareInfoRec, Copies
<1>7. \A s \in Copies(v)' : CopyOK(s, v)'
  <2>1. ASSUME NEW s \in Copies(v) PROVE CopyOK(s, v)'
    <3>1. CopyOK(s, v) /\ s.spec \in Nat
      BY <1>4, <1>6
    <3>2. s.exists => s.spec <= s0.spec /\ s.spec <= s1.spec
      BY <1>1, <1>2, <1>3, <3>1 DEF CopyOK
    <3>3. share' = share /\ ops' = ops /\ pv' = pv /\ shareInfo'[v].exists /\ s1 = shareInfo'[v]
      BY <1>1, <1>2, <1>3
    <3> QED
      BY <3>1, <3>2, <3>3 DEF CopyOK
  <2>2. ASSUME NEW s, s = s1 PROVE CopyOK(s, v)'
    <3>1. CopyOK(s0, v)
      BY <1>3, <1>4 DEF Copies
    <3>2. s.exists /\ s.spec > s0.spec /\ (s.deleting <=> s0.deleting) /\ (s.status = "deleted" <=> s0.status = "deleted")
          /\ s = shareInfo'[v] /\ s.spec \in Nat
      BY <1>1, <1>2, <1>3, <2>2
    <3>3. /\ s.spec >= ShareSize[v]
          /\ \A i \in Insts : share[i][v].cap <= s.spec
          /\ \A o \in ops : o.vol = v => o.cap <= s.spec
      BY <1>1, <1>2, <1>6, <3>1, <3>2 DEF CopyOK
    <3>4. (s.deleting => pv[v].phase \in {"released", "deleted"}) /\ (s.status = "deleted" => s.deleting)
      BY <3>1, <3>2 DEF CopyOK
    <3> QED
      BY <1>1, <3>2, <3>3, <3>4 DEF CopyOK
  <2> QED
    BY <1>1, <1>3, <2>1, <2>2 DEF Copies
<1>8. CapsOK(v)'
  BY <1>1, <1>2, <1>3, <1>4 DEF CapsOK, SharesOf
<1>9. ListingOK(v)'
  <2> SUFFICES ASSUME recon.phase = "listed" PROVE ListingOK(v)'
    BY <1>1 DEF ListingOK
  <2>1. ASSUME NEW i \in Insts, NEW s \in {shareInfo'[v], shareLister'[v]}, s.exists
        PROVE  recon.shares[i][v].cap <= s.spec
    <3>1. /\ s0.exists => recon.shares[i][v].cap <= s0.spec
          /\ shareLister[v].exists => recon.shares[i][v].cap <= shareLister[v].spec
      BY <1>3, <1>4 DEF ListingOK
    <3>2. recon.shares[i][v].cap <= s1.spec
      BY <1>1, <1>2, <1>6, <3>1
    <3> QED
      BY <1>1, <1>3, <2>1, <3>1, <3>2
  <2> QED
    BY <1>1, <1>2, <1>3, <1>4, <1>5, <2>1 DEF ListingOK, ListedOn
<1>10. GoneOK(v)'
  BY <1>5 DEF GoneOK
<1>11. ServedOK(v)'
  <2>1. ~s1.deleting
    BY <1>1, <1>2, <1>3, <1>4 DEF CopyOK, Copies
  <2> QED
    BY <1>1, <1>3, <2>1 DEF LifeOK, ServedOK, Served
<1> QED
  BY <1>7, <1>8, <1>9, <1>10, <1>11 DEF LifeOK

\* The share is as large as was asked for: the request is answered.
LEMMA ExpandAnswersLife ==
  ASSUME PlacesInv, TypeOK', LinksInv, UNCHANGED recon, CachesFollow, cloudVars' = cloudVars,
         NEW v \in Vols, LifeOK(v), ExpandAnswers(v)
  PROVE  LifeOK(v)'
<1> DEFINE i == controllerLister[v].handle
<1>1. /\ TypeOK /\ shareInfo' = shareInfo /\ pv[v].phase = "bound" /\ share' = share
      /\ pv'[v] = [pv[v] EXCEPT !.cap = ExpandSize[v]] /\ pv[v] \in PVRec
      /\ i \in Insts /\ share[i][v].cap >= ExpandSize[v]
  <2>1. TypeOK /\ share' = share
    BY RequestLeaves
  <2>2. controllerLister[v] \in ShareInfoRec
    BY <2>1, TypeParts
  <2> QED
    BY <2>1, <2>2, TypeParts DEF ExpandAnswers, GetShare, ShareInfoRec
<1>2. pv'[v].phase = "bound" /\ pv'[v].inst = pv[v].inst /\ pv'[v].cap = ExpandSize[v]
  BY <1>1 DEF PVRec
<1>3. /\ pv[v].inst \in Insts /\ share[pv[v].inst][v].state = "READY"
      /\ CopyOK(shareInfo[v], v)
  BY <1>1 DEF LifeOK, ServedOK, Served, Copies
<1>4. ~Gone(v) /\ ~Gone(v)'
  BY <1>1, <1>2, <1>3 DEF Gone, CopyOK
<1>5. i = pv[v].inst
  BY <1>1, <1>3, OneInst
<1>6. /\ share[pv'[v].inst][v].state = "READY"
      /\ share[pv'[v].inst][v].cap >= pv'[v].cap
  BY <1>1, <1>2, <1>3, <1>5
<1> HIDE DEF i
<1> QED
  BY <1>1, <1>2, <1>3, <1>4, <1>6, AnswerLife

\* A bound volume is given up.
LEMMA ReleaseLife ==
  ASSUME PlacesInv, TypeOK', LinksInv, UNCHANGED recon, CachesFollow, cloudVars' = cloudVars,
         NEW v \in Vols, LifeOK(v), ReleasePV(v)
  PROVE  LifeOK(v)'
<1>1. /\ TypeOK /\ shareInfo' = shareInfo /\ pv[v].phase = "bound" /\ share' = share
      /\ pv'[v] = [pv[v] EXCEPT !.phase = "released"] /\ pv[v] \in PVRec
  BY RequestLeaves, TypeParts DEF ReleasePV
<1>2. pv'[v].phase = "released" /\ pv'[v].inst = pv[v].inst /\ pv'[v].cap = pv[v].cap
  BY <1>1 DEF PVRec
<1>3. /\ pv[v].inst \in Insts /\ share[pv[v].inst][v].state = "READY"
      /\ share[pv[v].inst][v].cap >= pv[v].cap
      /\ CopyOK(shareInfo[v], v)
  BY <1>1 DEF LifeOK, ServedOK, Served, Copies
<1>4. ~Absent(v) /\ ~Absent(v)'
  BY <1>1, <1>3 DEF Absent, SharesOf
<1>5. ~Gone(v) /\ ~Gone(v)'
  BY <1>1, <1>2, <1>3, <1>4 DEF Gone, CopyOK
<1> QED
  BY <1>1, <1>2, <1>3, <1>5, AnswerLife

LEMMA RequestLife ==
  ASSUME PlacesInv, TypeOK', LinksInv, UNCHANGED recon, CachesFollow, NEW w \in Vols,
         CreateVolume(w) \/ DeleteVolume(w) \/ ControllerExpandVolume(w) \/ ReleasePV(w),
         NEW v \in Vols, LifeOK(v)
  PROVE  LifeOK(v)'
<1>1. TypeOK /\ RequestMarks(w) /\ cloudVars' = cloudVars
  BY RequestsMark DEF PlacesInv, RequestMoves
<1>2. CASE w # v
  <2>1. shareInfo'[v] = shareInfo[v] /\ pv'[v] = pv[v]
    BY <1>1, <1>2 DEF RequestMarks
  <2> QED
    BY <1>1, <2>1, OtherLife DEF Like
<1>3. CASE w = v
  BY <1>1, <1>3, CreateShareInfoLife, CreateAnswersLife, DeleteFindsLife, DeleteShareInfoLife,
     DeleteAnswersLife, ExpandShareInfoLife, ExpandAnswersLife, ReleaseLife
     DEF CreateVolume, DeleteVolume, ControllerExpandVolume
<1> QED
  BY <1>2, <1>3

-----------------------------------------------------------------------------
(* The objects are brought in line with what was listed. *)

\* What is written of a share that had a ShareInfo asks for what that asked for.
LEMMA ListedLike ==
  ASSUME PlacesInv, NEW v \in Vols, NEW p \in Insts, ShareCopy(p, v) = shareInfo[v], shareInfo[v].exists,
         shareInfo[v].status # "deleted"
  PROVE  Like(ShareAsListed(p, v), shareInfo[v]) /\ ShareAsListed(p, v).status # "deleted"
<1>1. shareInfo[v] \in ShareInfoRec
  BY TypeParts DEF PlacesInv
<1>2. CRDStatus(recon.shares[p][v].state) # "deleted"
  BY DEF CRDStatus
<1>3. ShareAsListed(p, v) = [shareInfo[v] EXCEPT !.handle = p, !.cap = recon.shares[p][v].cap,
                                                 !.status = CRDStatus(recon.shares[p][v].state)]
  BY DEF ShareAsListed
<1> QED
  BY <1>1, <1>2, <1>3 DEF Like, ShareInfoRec

\* What is written of a share that had none is as large as the share that was listed.
LEMMA ListedNew ==
  ASSUME PlacesInv, NEW v \in Vols, NEW p \in Insts, ~shareLister[v].exists, ~shareInfo[v].exists
  PROVE  LET s == ShareAsListed(p, v)
         IN s.exists /\ ~s.deleting /\ s.spec = recon.shares[p][v].cap /\ s.status # "deleted"
<1>1. CRDStatus(recon.shares[p][v].state) # "deleted"
  BY DEF CRDStatus
<1>2. ShareCopy(p, v) = [NoShareInfo EXCEPT !.exists = TRUE, !.pool = FALSE, !.spec = recon.shares[p][v].cap]
  BY DEF ShareCopy, CreatedShareInfo, NewShareInfo
<1>3. NoShareInfo \in ShareInfoRec /\ ~NoShareInfo.deleting
  BY NoneType DEF NoShareInfo
<1>4. ShareAsListed(p, v) = [ShareCopy(p, v) EXCEPT !.handle = p, !.cap = recon.shares[p][v].cap,
                                                    !.status = CRDStatus(recon.shares[p][v].state)]
  BY DEF ShareAsListed
<1> QED
  BY <1>1, <1>2, <1>3, <1>4 DEF ShareInfoRec

\* A ShareInfo is made for a share that was found.
LEMMA FoundLife ==
  ASSUME PlacesInv, TypeOK', LinksInv, RoundLeavesAlone, UNCHANGED cloudVars, recon.phase = "listed",
         NEW v \in Vols, LifeOK(v), NEW r \in RoundRec, WalksFrom(r),
         NEW p \in Insts, v \in InstanceShares[p], ~shareLister[v].exists, ~shareInfo[v].exists,
         r.si[v] = ShareAsListed(p, v), shareInfo'[v] = r.si[v]
  PROVE  LifeOK(v)'
<1> DEFINE s1 == ShareAsListed(p, v)
<1>1. /\ TypeOK /\ share' = share /\ ops' = ops /\ pv' = pv
      /\ shareInfo' \in [Vols -> ShareInfoRec] /\ instanceInfo' \in [Insts -> InstanceInfoRec] /\ CachesFollow
  BY DEF PlacesInv, RoundLeavesAlone, cloudVars, TypeOK, ObjectsTypeOK
<1>2. /\ shareLister'[v] \in {shareLister[v], shareInfo'[v]}
      /\ controllerLister'[v] \in {controllerLister[v], shareInfo'[v]}
  BY <1>1, CachesShow
<1>3. shareInfo'[v] = s1 /\ recon'.phase # "listed" /\ recon'.si[v] \in {s1, NoShareInfo}
  BY WalkedSi
<1>4. s1.exists /\ ~s1.deleting /\ s1.spec = recon.shares[p][v].cap /\ s1.status # "deleted"
  BY ListedNew
<1> HIDE DEF s1
<1>5. v \in ListedOn(p)
  BY DEF InstanceShares, ListedOn
<1>6. /\ \A s \in Copies(v) : CopyOK(s, v)
      /\ CapsOK(v) /\ ListingOK(v)
  BY DEF LifeOK
<1>7. /\ s1.spec >= ShareSize[v] /\ ~Gone(v) /\ s1.spec \in Nat
      /\ share[p][v].cap = s1.spec \/ share[p][v].cap = 0
  <2>1. recon.shares[p][v].cap >= ShareSize[v] /\ ~Gone(v) /\ share[p][v] \in {recon.shares[p][v], AbsentShare}
    BY <1>5, <1>6 DEF ListingOK
  <2>2. AbsentShare.cap = 0
    BY DEF AbsentShare
  <2>3. recon.shares[p][v] \in ShareRec
    BY <1>1, TypeParts, WalkIsRound
  <2>4. recon.shares[p][v].cap \in Nat
    BY <2>3 DEF ShareRec
  <2> QED
    BY <1>4, <2>1, <2>2, <2>4
<1>8. \A i \in Insts : share[i][v].cap <= s1.spec
  <2>1. ASSUME NEW i \in Insts, i # p PROVE v \notin SharesOf(i)
    BY <1>5, <2>1, OneInst
  <2> QED
    BY <1>6, <1>7, <2>1 DEF CapsOK
<1>9. \A o \in ops : o.vol # v
  BY <1>6 DEF CapsOK
<1>10. ~Gone(v)'
  BY <1>1, <1>3, <1>4, <1>7 DEF Gone
<1>11. \A s \in Copies(v)' : CopyOK(s, v)'
  <2>1. ASSUME NEW s, s = s1 PROVE CopyOK(s, v)'
    BY <1>1, <1>3, <1>4, <1>7, <1>8, <1>9, <2>1 DEF CopyOK
  <2>2. ASSUME NEW s, ~s.exists, CopyOK(s, v) PROVE CopyOK(s, v)'
    BY <1>1, <2>2 DEF CopyOK
  <2>3. ~NoShareInfo.exists /\ CopyOK(NoShareInfo, v) /\ CopyOK(shareLister[v], v)
    BY <1>6, NoneOK DEF Copies, NoShareInfo
  <2> QED
    BY <1>2, <1>3, <2>1, <2>2, <2>3 DEF Copies
<1>12. CapsOK(v)'
  BY <1>1, <1>6, <1>9 DEF CapsOK, SharesOf
<1>13. ListingOK(v)' /\ GoneOK(v)'
  BY <1>3, <1>10 DEF ListingOK, GoneOK
<1>14. ServedOK(v)'
  <2>1. Served(v)' => Served(v)
    BY <1>1, <1>7 DEF Served, Gone
  <2> QED
    BY <1>1, <1>3, <1>4, <1>7, <2>1 DEF LifeOK, ServedOK, Gone
<1> QED
  BY <1>11, <1>12, <1>13, <1>14 DEF LifeOK

LEMMA UpdateLife ==
  ASSUME PlacesInv, TypeOK', LinksInv, UpdateInfos, NEW v \in Vols, LifeOK(v)
  PROVE  LifeOK(v)'
<1>1. /\ TypeOK /\ recon.phase = "listed" /\ RoundLeavesAlone /\ UNCHANGED cloudVars /\ CloudRests(v)
  BY DEF PlacesInv, UpdateInfos, RoundLeavesAlone, CloudRests, cloudVars
<1>2. PICK r : Writes(r)
  BY UpdateWrites
<1>3. r \in RoundRec /\ WalksFrom(r) /\ r.phase = "pointers"
  BY <1>2 DEF Writes, WalksFrom, ReadsObjects
<1>4. (\A s \in Copies(v) : CopyOK(s, v)) /\ GoneOK(v) /\ ListingOK(v) /\ ServedOK(v)
  BY DEF LifeOK
<1>5. CASE r.si[v] \in {shareLister[v], shareInfo[v]} /\ shareInfo'[v] = shareInfo[v]
  <2>1. Like(shareInfo'[v], shareInfo[v]) /\ CopyOK(r.si[v], v)
    BY <1>4, <1>5 DEF Like, Copies
  <2>2. Gone(v) => Finished(r.si[v])
    <3>1. CopyOK(shareInfo[v], v) /\ (Gone(v) => Finished(shareLister[v]))
      BY <1>4 DEF Copies, GoneOK
    <3>2. Gone(v) => Finished(shareInfo[v])
      BY <1>4, <3>1 DEF Gone, ServedOK, CopyOK, Finished
    <3> QED
      BY <1>5, <3>1, <3>2
  <2>3. Gone(v) => NotAskedFor(r, v)
    BY <1>3, <2>2 DEF NotAskedFor, Finished, ShareNeedsRequest
  <2> QED
    BY <1>1, <1>3, <2>1, <2>3, WorkLife
<1>6. ASSUME NEW p \in Insts, v \in InstanceShares[p], r.si[v] = ShareAsListed(p, v), shareInfo'[v] = r.si[v],
             ShareCopy(p, v) = shareInfo[v], shareInfo[v].exists
      PROVE  LifeOK(v)'
  <2>1. v \in ListedOn(p)
    BY <1>6 DEF InstanceShares, ListedOn
  <2>2. ~Gone(v)
    BY <1>1, <1>4, <2>1 DEF ListingOK
  <2>3. Like(shareInfo'[v], shareInfo[v])
    BY <1>6, <2>2, ListedLike DEF Gone
  <2>4. CopyOK(shareInfo'[v], v)
    BY <1>4, <2>3, CopyLike DEF Copies
  <2> QED
    BY <1>1, <1>3, <1>6, <2>2, <2>3, <2>4, WorkLife
<1>7. ASSUME NEW p \in Insts, v \in InstanceShares[p], r.si[v] = ShareAsListed(p, v), shareInfo'[v] = r.si[v],
             ~shareLister[v].exists, ~shareInfo[v].exists
      PROVE  LifeOK(v)'
  BY <1>1, <1>3, <1>7, FoundLife
<1> QED
  BY <1>2, <1>5, <1>6, <1>7 DEF Writes

-----------------------------------------------------------------------------
(* The theorems. *)

LEMMA LifeStart == Init => LifeInv
<1> SUFFICES ASSUME Init, NEW v \in Vols PROVE LifeOK(v)
  BY DEF LifeInv
<1>1. /\ recon = Idle /\ ops = {} /\ shareLister = shareInfo /\ shareInfo[v] = NoShareInfo
      /\ controllerLister = shareInfo /\ recon.si[v] = NoShareInfo
      /\ Idle.phase = "idle" /\ Idle.si[v] = NoShareInfo
      /\ ~NoShareInfo.exists /\ ~NoShareInfo.deleting /\ NoShareInfo.status # "deleted"
  BY IdleRound DEF Init, ObjectsInit, NoShareInfo
<1>2. ASSUME NEW i \in Insts
      PROVE  /\ Migrated[v] = i => share[i][v].state = "READY" /\ share[i][v].cap = ShareSize[v]
             /\ Migrated[v] # i => share[i][v].state = "ABSENT" /\ share[i][v].cap = 0
  BY DEF Init, AbsentShare
<1>3. /\ Migrated[v] = NoInst => pv[v].phase = "wanted"
      /\ Migrated[v] # NoInst => pv[v].phase = "bound" /\ pv[v].inst = Migrated[v] /\ pv[v].cap = ShareSize[v]
      /\ Migrated[v] \in Insts \cup {NoInst} /\ ShareSize[v] \in Nat /\ NoInst \notin Insts
  BY ReconcilerAssumption, InfoAssumption, FilestoreAssumption DEF Init
<1>4. \A s \in Copies(v) : CopyOK(s, v)
  BY <1>1, NoneOK DEF Copies
<1>5. CapsOK(v)
  BY <1>1, <1>2, <1>3 DEF CapsOK, SharesOf
<1>6. ListingOK(v) /\ ~Gone(v) /\ GoneOK(v)
  BY <1>1, <1>3 DEF ListingOK, Gone, GoneOK
<1>7. ServedOK(v)
  BY <1>1, <1>2, <1>3 DEF ServedOK, Served
<1> QED
  BY <1>4, <1>5, <1>6, <1>7 DEF LifeOK

LEMMA LifeStep ==
  ASSUME ~CacheLags, ~ManualDeletes, PlacesInv, PlacesInv', LinksInv, LifeInv, [Next]_vars
  PROVE  LifeInv'
<1> SUFFICES ASSUME NEW v \in Vols, LifeOK(v) PROVE LifeOK(v)'
  BY DEF LifeInv
<1>1. TypeOK /\ TypeOK'
  BY DEF PlacesInv
<1>2. CASE RoundStep
  <2>1. CASE ListShares \/ UpdateInfos
    BY <1>1, <2>1, EndLife, UpdateLife
  <2>2. CASE \E i \in Insts, w \in Vols : FixTwoWayPointers(i, w)
    BY <1>1, <2>2, PointersLife
  <2>3. CASE \E w \in Vols : AssignShare(w)
    BY <1>1, <2>3, AssignLife
  <2>4. CASE DeleteOrResizeInstances
    BY <1>1, <2>4, ResizeLife
  <2>5. CASE \E i \in Insts : SendInstanceRequest(i)
    BY <1>1, <2>5, InstanceRequestLife
  <2>6. CASE \E w \in Vols : SendShareRequest(w)
    BY <1>1, <2>6, ShareRequestLife
  <2> QED
    BY <1>2, <2>1, <2>2, <2>3, <2>4, <2>5, <2>6 DEF RoundStep
<1>3. CASE RoundEnds \/ Sync
  BY <1>1, <1>3, EndLife
<1>4. CASE \E w \in Vols : Creates(w) \/ Deletes(w) \/ Expands(w) \/ Releases(w)
  BY <1>1, <1>4, RequestLife DEF Creates, Deletes, Expands, Releases, RequestLeavesRound
<1>5. CASE \E o \in ops : OpDone(o)
  BY <1>1, <1>5, DoneLife
<1>6. CASE \E i \in Insts : Repair(i) \/ ManualDelete(i)
  BY <1>1, <1>6, RepairLife DEF ManualDelete
<1>7. CASE UNCHANGED vars
  <2>1. /\ share' = share /\ ops' = ops /\ pv' = pv /\ recon' = recon /\ shareInfo' = shareInfo
        /\ shareLister' = shareLister /\ controllerLister' = controllerLister
    BY <1>7 DEF vars, cloudVars, objectVars, cacheVars
  <2>2. Quiet(v)
    BY <2>1 DEF Quiet, CloudRests, Like
  <2>3. CopyOK(recon'.si[v], v) /\ (Gone(v) => NotAskedFor(recon', v))
    BY <2>1 DEF LifeOK, GoneOK, Copies
  <2> QED
    BY <1>1, <2>2, <2>3, LifeStays
<1> QED
  BY <1>2, <1>3, <1>4, <1>5, <1>6, <1>7 DEF Next

\* While the informers catch up between the rounds and the user leaves the instances
\* alone, every copy of a ShareInfo asks for as much as the volume was asked for, what is
\* gone is asked for by no round, and a volume that was handed out has its share.
THEOREM LifeInvariance == ASSUME ~CacheLags, ~ManualDeletes PROVE Spec => []LifeInv
<1>1. PlacesInv /\ PlacesInv' /\ LinksInv /\ LifeInv /\ [Next]_vars => LifeInv'
  BY LifeStep
<1> QED
  BY <1>1, LifeStart, PlacesInvariance, LinksInvariance, PTL DEF Spec

-----------------------------------------------------------------------------
(* The refinement. *)

\* What a step does to what the orchestrator knows of a volume.
PVMoves(v) ==
  \/ pv'[v] = pv[v]
  \/ pv[v].phase = "wanted" /\ pv'[v].phase = "bound"
  \/ pv[v].phase = "bound" /\ pv'[v].phase = "bound" /\ pv'[v].cap > pv[v].cap
  \/ /\ <<pv[v].phase, pv'[v].phase>> \in {<<"bound", "released">>, <<"released", "deleted">>}
     /\ pv'[v].cap = pv[v].cap

LEMMA PVStep == ASSUME PlacesInv, [Next]_vars, NEW v \in Vols PROVE PVMoves(v)
<1>1. TypeOK /\ pv \in [Vols -> PVRec] /\ ExpandSize[v] \in Nat
  BY TypeParts, InfoAssumption DEF PlacesInv
<1>2. ASSUME NEW w \in Vols, CreateVolume(w) PROVE PVMoves(v)
  <2>1. pv' = pv \/ (pv[w].phase = "wanted" /\ \E s : pv' = Told(w, s))
    BY <1>2 DEF CreateVolume, CreateShareInfo, CreateAnswers
  <2>2. ASSUME NEW s, pv' = Told(w, s), pv[w].phase = "wanted" PROVE PVMoves(v)
    BY <1>1, <2>2 DEF Told, PVMoves
  <2> QED
    BY <2>1, <2>2 DEF PVMoves
<1>3. ASSUME NEW w \in Vols, DeleteVolume(w) PROVE PVMoves(v)
  <2>1. pv' = pv \/ (pv[w].phase = "released" /\ Deleted(w))
    BY <1>3 DEF DeleteVolume, DeleteFindsNothing, DeleteShareInfo, DeleteAnswers
  <2>2. CASE pv[w].phase = "released" /\ Deleted(w)
    BY <1>1, <2>2 DEF Deleted, PVMoves, PVRec
  <2> QED
    BY <2>1, <2>2 DEF PVMoves
<1>4. ASSUME NEW w \in Vols, ControllerExpandVolume(w) PROVE PVMoves(v)
  <2>1. pv' = pv \/ (/\ pv[w].phase = "bound" /\ pv[w].cap < ExpandSize[w]
                     /\ pv' = [pv EXCEPT ![w].cap = ExpandSize[w]])
    BY <1>4 DEF ControllerExpandVolume, ExpandShareInfo, ExpandAnswers
  <2>2. ASSUME pv[w].phase = "bound", pv[w].cap < ExpandSize[w], pv' = [pv EXCEPT ![w].cap = ExpandSize[w]]
        PROVE  PVMoves(v)
    BY <1>1, <2>2, InfoAssumption DEF PVMoves, PVRec
  <2> QED
    BY <2>1, <2>2 DEF PVMoves
<1>5. ASSUME NEW w \in Vols, ReleasePV(w) PROVE PVMoves(v)
  BY <1>1, <1>5 DEF ReleasePV, PVMoves, PVRec
<1>6. CASE \E w \in Vols : Creates(w) \/ Deletes(w) \/ Expands(w) \/ Releases(w)
  BY <1>2, <1>3, <1>4, <1>5, <1>6 DEF Creates, Deletes, Expands, Releases
<1>7. CASE RoundStep
  BY <1>7 DEF RoundStep, ListShares, UpdateInfos, FixTwoWayPointers, AssignShare, DeleteOrResizeInstances,
              SendInstanceRequest, SendShareRequest, RoundLeavesAlone, PVMoves
<1>8. CASE RoundEnds \/ Sync \/ UNCHANGED vars
  BY <1>8 DEF RoundEnds, Sync, RoundLeavesAlone, vars, PVMoves
<1>9. CASE (\E o \in ops : OpDone(o)) \/ (\E i \in Insts : Repair(i) \/ ManualDelete(i))
  BY <1>9 DEF OpDone, Repair, ManualDelete, RoundLeavesAlone, PVMoves
<1> QED
  BY <1>6, <1>7, <1>8, <1>9 DEF Next

\* What the invariant says of a volume, in the terms of the contract.
BackedOK(v) == /\ pv[v].phase = "bound" => Lifecycle!Backed(v)
               /\ pv[v].phase = "deleted" => Homes(v) = {}

LEMMA ServedIsBacked == ASSUME LinksInv, NEW v \in Vols, LifeOK(v) PROVE BackedOK(v)
<1>1. CASE pv[v].phase = "bound"
  <2> DEFINE i == pv[v].inst
  <2>1. i \in Insts /\ share[i][v].state = "READY" /\ share[i][v].cap >= pv[v].cap
    BY <1>1 DEF LifeOK, ServedOK, Served
  <2>2. instance[i].state \in {"READY", "REPAIRING"}
    <3>1. SharesOf(i) # {}
      BY <2>1 DEF SharesOf
    <3> QED
      BY <2>1, <3>1 DEF LinksInv, InstanceLinks
  <2>3. i \in Homes(v) /\ Home(v) = i
    BY <2>1 DEF Homes, Home
  <2>4. Homes(v) # {} /\ UsableOn(Home(v), v) /\ share[Home(v)][v].cap >= pv[v].cap
    BY <2>1, <2>2, <2>3 DEF UsableOn
  <2> HIDE DEF i
  <2> QED
    BY <1>1, <2>4 DEF BackedOK, Lifecycle!Backed
<1>2. CASE pv[v].phase = "deleted"
  <2>1. Absent(v)
    BY <1>2 DEF LifeOK, GoneOK, Gone
  <2> QED
    BY <1>2, <2>1 DEF BackedOK, Absent, SharesOf, Homes
<1>3. pv[v].phase \notin {"bound", "deleted"} => BackedOK(v)
  BY DEF BackedOK
<1> QED
  BY <1>1, <1>2, <1>3

LEMMA LifecycleInit == Init => Lifecycle!Init
<1> SUFFICES ASSUME Init, NEW v \in Vols
             PROVE  \/ pv[v].phase = "wanted" /\ Homes(v) = {}
                    \/ pv[v].phase = "bound" /\ Lifecycle!Backed(v)
  BY DEF Lifecycle!Init
<1>1. CASE Migrated[v] = NoInst
  <2>1. pv[v].phase = "wanted"
    BY <1>1 DEF Init
  <2>2. Homes(v) = {}
    BY <1>1, FilestoreAssumption DEF Init, Homes, AbsentShare
  <2> QED
    BY <2>1, <2>2
<1>2. CASE Migrated[v] # NoInst
  <2>1. pv[v].phase = "bound"
    BY <1>2 DEF Init
  <2>2. LinksInv /\ LifeOK(v)
    BY LinksStart, LifeStart DEF LifeInv
  <2> QED
    BY <2>1, <2>2, ServedIsBacked DEF BackedOK
<1> QED
  BY <1>1, <1>2

\* A volume that is handed out is backed, and of a deleted one nothing is left; so a step
\* moves every volume as the contract allows.
LEMMA LifecycleStep ==
  ASSUME TypeOK, \A v \in Vols : PVMoves(v) /\ BackedOK(v)'
  PROVE  Lifecycle!Next
<1> SUFFICES ASSUME NEW v \in Vols
             PROVE  \/ Lifecycle!Bind(v) \/ Lifecycle!Grow(v) \/ Lifecycle!Delete(v)
                    \/ Lifecycle!Provision(v) \/ Lifecycle!Change(v) \/ Lifecycle!Release(v)
                    \/ Lifecycle!Reclaim(v) \/ Lifecycle!RemainDeleted(v)
  BY DEF Lifecycle!Next
<1>1. PVMoves(v) /\ pv[v] \in PVRec
  BY TypeParts
<1>2. /\ pv'[v].phase = "bound" => Lifecycle!Backed(v)'
      /\ pv'[v].phase = "deleted" => Homes(v)' = {}
  BY DEF BackedOK
<1>3. CASE pv'[v].phase = "bound" /\ pv[v].phase = "wanted"
  BY <1>2, <1>3 DEF Lifecycle!Bind, Lifecycle!Becomes
<1>4. CASE pv'[v].phase = "bound" /\ pv[v].phase = "bound" /\ pv'[v].cap > pv[v].cap
  BY <1>2, <1>4 DEF Lifecycle!Grow, Lifecycle!Becomes
<1>5. CASE pv'[v].phase = "bound" /\ pv'[v] = pv[v]
  BY <1>2, <1>5 DEF Lifecycle!Change, Lifecycle!Becomes, Lifecycle!SameTold
<1>6. CASE pv'[v].phase = "wanted" /\ pv'[v] = pv[v]
  BY <1>6 DEF Lifecycle!Provision, Lifecycle!Becomes, Lifecycle!SameTold
<1>7. CASE pv'[v].phase = "released" /\ pv'[v] = pv[v]
  BY <1>7 DEF Lifecycle!Reclaim, Lifecycle!Becomes
<1>8. CASE pv[v].phase = "bound" /\ pv'[v].phase = "released" /\ pv'[v].cap = pv[v].cap
  BY <1>8 DEF Lifecycle!Release, Lifecycle!Becomes, Lifecycle!SameTold
<1>9. CASE pv[v].phase = "released" /\ pv'[v].phase = "deleted" /\ pv'[v].cap = pv[v].cap
  BY <1>2, <1>9 DEF Lifecycle!Delete, Lifecycle!Becomes, Lifecycle!SameTold
<1>10. CASE pv'[v].phase = "deleted" /\ pv'[v] = pv[v]
  BY <1>2, <1>10 DEF Lifecycle!RemainDeleted, Lifecycle!Becomes, Lifecycle!SameTold
<1>11. pv[v].phase \in {"wanted", "bound", "released", "deleted"}
  BY <1>1 DEF PVRec, Phases
<1> QED
  BY <1>1, <1>3, <1>4, <1>5, <1>6, <1>7, <1>8, <1>9, <1>10, <1>11 DEF PVMoves

\* While the informers catch up between the rounds (reconciler.go:97 waits for them only
\* once) and the user leaves the instances alone (337, 653), the stateful controller and
\* the reconciler together keep the contract of every volume, whatever is retried, fails
\* on the way or is read late within a round.
THEOREM ReconcilerImplementsLifecycle ==
  ASSUME ~CacheLags, ~ManualDeletes PROVE Spec => ImplementsLifecycle
<1>1. LinksInv /\ LifeInv => \A v \in Vols : BackedOK(v)
  BY ServedIsBacked DEF LifeInv
<1>2. PlacesInv /\ (\A v \in Vols : BackedOK(v))' /\ [Next]_vars => [Lifecycle!Next]_(Lifecycle!vars)
  BY PVStep, LifecycleStep DEF PlacesInv
<1> QED
  BY <1>1, <1>2, LifecycleInit, PlacesInvariance, LinksInvariance, LifeInvariance, PTL
     DEF Spec, ImplementsLifecycle, Lifecycle!Spec

-----------------------------------------------------------------------------
(* The size an instance is to have. *)

\* A size is only lowered as far as the shares that the informer knows have room.
Roomy == \A i \in Insts : instanceInfo'[i].exists /\ instanceInfo'[i].spec < instanceInfo[i].spec
                          => instanceInfo'[i].spec >= KnownShareBytes(i)

\* A step that lowers no size, or only one of an InstanceInfo that goes.
LEMMA SizesGrow ==
  ASSUME TypeOK, TypeOK', SizesInv, CachesFollow,
         \A i \in Insts :
           /\ SizeOK(instanceInfo'[i]) /\ SizeOK(recon'.ii[i]) /\ instance'[i].cap <= MaxCap
           /\ instanceInfo'[i].exists => instanceInfo'[i].spec >= instanceInfo[i].spec,
         \A o \in ops' : o.type \in InstanceOps => o.cap <= MaxCap
  PROVE  SizesInv' /\ Roomy
<1>1. ASSUME NEW i \in Insts PROVE SizeOK(instanceLister'[i])
  BY DEF CachesFollow, SizesInv
<1>2. \A i \in Insts : instanceInfo[i].spec \in Nat /\ instanceInfo'[i].spec \in Nat
  BY DEF TypeOK, ObjectsTypeOK, InstanceInfoRec
<1>3. SizesInv'
  BY <1>1 DEF SizesInv, SizeOK
<1>4. Roomy
  BY <1>2 DEF Roomy
<1> QED
  BY <1>3, <1>4

\* Sizes stay, and Filestore rests.
LEMMA SizesStay ==
  ASSUME TypeOK, TypeOK', SizesInv, CachesFollow, instanceInfo' = instanceInfo,
         \A i \in Insts : SizeOK(recon'.ii[i]) /\ instance'[i].cap <= MaxCap,
         \A o \in ops' : o.type \in InstanceOps => o.cap <= MaxCap
  PROVE  SizesInv' /\ Roomy
<1>1. \A i \in Insts : instanceInfo[i].spec \in Nat
  BY DEF TypeOK, ObjectsTypeOK, InstanceInfoRec
<1> QED
  BY <1>1, SizesGrow DEF SizesInv

\* A walk does not change sizes.
LEMMA WalkSizes ==
  ASSUME NEW r \in RoundRec, NEW q, Walks(q, r), \A i \in Insts : SizeOK(r.ii[i])
  PROVE  \A i \in Insts : SizeOK(q.ii[i])
<1>1. \A i \in Insts : Idle.ii[i].spec = 0
  BY DEF Idle, NoInstanceInfo
<1>2. \A i \in Insts : SizeOK(Idle.ii[i])
  BY <1>1, InfoAssumption DEF SizeOK
<1> QED
  BY <1>2 DEF Walks

\* What is new, and what only lists other shares.
LEMMA NewSizes ==
  /\ SizeOK(NoInstanceInfo) /\ SizeOK(NewInstanceInfo(MinCap)) /\ NewInstanceInfo(MinCap).exists
  /\ \A ii \in InstanceInfoRec, v \in Vols :
       \A x \in {WithShare(ii, v), WithoutShare(ii, v)} : x.exists = ii.exists /\ x.spec = ii.spec
<1>1. /\ ~NoInstanceInfo.exists /\ NoInstanceInfo.spec = 0
      /\ NewInstanceInfo(MinCap).exists /\ NewInstanceInfo(MinCap).spec = MinCap
  BY DEF NewInstanceInfo, NoInstanceInfo
<1>2. \A ii \in InstanceInfoRec, v \in Vols :
        \A x \in {WithShare(ii, v), WithoutShare(ii, v)} : x.exists = ii.exists /\ x.spec = ii.spec
  BY DEF WithShare, WithoutShare, InstanceInfoRec
<1>3. SizeOK(NoInstanceInfo) /\ SizeOK(NewInstanceInfo(MinCap))
  BY <1>1, InfoAssumption DEF SizeOK
<1> QED
  BY <1>1, <1>2, <1>3

LEMMA UpdateSizes ==
  ASSUME PlacesInv, PlacesInv', LinksInv, SizesInv, UpdateInfos PROVE SizesInv' /\ Roomy
<1>1. /\ TypeOK /\ TypeOK' /\ recon.phase = "listed" /\ CachesFollow /\ UNCHANGED cloudVars
      /\ instanceInfo \in [Insts -> InstanceInfoRec] /\ instance \in [Insts -> InstanceRec]
  BY TypeParts DEF PlacesInv, UpdateInfos, RoundLeavesAlone
<1>2. PICK r : Writes(r)
  BY UpdateWrites
<1>3. ASSUME NEW i \in Insts
      PROVE  /\ SizeOK(InstanceAsListed(i)) /\ InstanceAsListed(i).spec >= instanceInfo[i].spec
  <2>1. InstanceCopy(i) = IF instanceInfo[i].exists THEN instanceInfo[i] ELSE ReconstructedInstanceInfo(i)
    BY <1>1 DEF LinksInv, CachesInStep, InstanceCopy
  <2>2. /\ ReconstructedInstanceInfo(i).spec = instance[i].cap /\ ReconstructedInstanceInfo(i).exists
        /\ instance[i].cap \in Nat /\ instance[i].cap <= MaxCap
    BY <1>1 DEF ReconstructedInstanceInfo, NewInstanceInfo, NoInstanceInfo, InstanceRec, SizesInv
  <2>3. /\ InstanceCopy(i).exists /\ InstanceCopy(i).spec <= MaxCap
        /\ InstanceCopy(i).spec >= instanceInfo[i].spec
    <3>1. instanceInfo[i].spec \in Nat /\ SizeOK(instanceInfo[i])
      BY <1>1 DEF InstanceInfoRec, SizesInv
    <3> QED
      BY <2>1, <2>2, <3>1 DEF SizeOK
  <2>4. InstanceAsListed(i).spec = InstanceCopy(i).spec /\ InstanceAsListed(i).exists = InstanceCopy(i).exists
    BY <1>1, InstanceListed DEF InstanceAsListed, InstanceInfoRec
  <2> QED
    BY <2>3, <2>4 DEF SizeOK
<1>4. ASSUME NEW i \in Insts
      PROVE  /\ SizeOK(instanceInfo'[i]) /\ SizeOK(r.ii[i])
             /\ instanceInfo'[i].exists => instanceInfo'[i].spec >= instanceInfo[i].spec
  <2>1. SizeOK(instanceInfo[i]) /\ SizeOK(NoInstanceInfo) /\ ~NoInstanceInfo.exists
    BY NewSizes DEF SizesInv, NoInstanceInfo
  <2>2. instanceInfo[i].spec \in Nat
    BY <1>1 DEF InstanceInfoRec
  <2> QED
    BY <1>2, <1>3, <2>1, <2>2 DEF Writes
<1>5. Walks(recon', r) /\ r \in RoundRec
  BY <1>2, PointersWalk DEF Writes, ReadsObjects
<1>6. \A i \in Insts : SizeOK(recon'.ii[i])
  BY <1>4, <1>5, WalkSizes
<1> QED
  BY <1>1, <1>4, <1>6, SizesGrow DEF cloudVars, SizesInv

LEMMA PointersSizes ==
  ASSUME PlacesInv, PlacesInv', LinksInv, SizesInv, NEW i \in Insts, NEW v \in Vols, FixTwoWayPointers(i, v)
  PROVE  SizesInv' /\ Roomy
<1>1. /\ TypeOK /\ TypeOK' /\ recon.phase = "pointers" /\ CachesFollow /\ UNCHANGED cloudVars
      /\ instanceInfo \in [Insts -> InstanceInfoRec] /\ recon \in RoundRec /\ <<i, v>> \in recon.todo
      /\ recon.ii \in [Insts -> InstanceInfoRec]
  BY TypeParts DEF PlacesInv, FixTwoWayPointers, RoundLeavesAlone, RoundRec
<1>2. ASSUME NEW q \in RoundRec, q.phase = "pointers", recon' = AfterPointers(Done(q, <<i, v>>)),
             \A x \in Insts : SizeOK(q.ii[x])
      PROVE  \A x \in Insts : SizeOK(recon'.ii[x])
  <2> DEFINE r == Done(q, <<i, v>>)
  <2>1. r \in RoundRec /\ r.phase \in ReadsObjects /\ r.ii = q.ii
    BY <1>2, DoneRound DEF ReadsObjects
  <2>2. Walks(recon', r)
    BY <1>2, <2>1, PointersWalk
  <2> HIDE DEF r
  <2> QED
    BY <1>2, <2>1, <2>2, WalkSizes
<1>3. ASSUME NEW failing, PointBack(i, v, failing) PROVE SizesInv' /\ Roomy
  <2>1. PICK q : /\ q \in {recon, [recon EXCEPT !.si[v] = PointTo(v, i)]}
                 /\ recon' = AfterPointers(Done(q, <<i, v>>))
                 /\ q # recon => recon.si[v].handle = NoInst /\ CurrentShare(v, recon.si[v])
    BY <1>3 DEF PointBack
  <2>2. q \in RoundRec /\ q.phase = "pointers" /\ q.ii = recon.ii
    <3>1. q # recon => PointTo(v, i) \in ShareInfoRec
      BY <1>1, <2>1, CurrentUnplaced
    <3>2. recon.si \in [Vols -> ShareInfoRec]
      BY <1>1 DEF RoundRec
    <3>3. CASE q = [recon EXCEPT !.si[v] = PointTo(v, i)] /\ q # recon
      <4>1. PointTo(v, i) \in ShareInfoRec
        BY <3>1, <3>3
      <4> QED
        BY <1>1, <3>2, <3>3, <4>1 DEF RoundRec
    <3> QED
      BY <1>1, <2>1, <3>3
  <2>3. \A x \in Insts : SizeOK(recon'.ii[x])
    BY <1>2, <2>1, <2>2 DEF SizesInv
  <2>4. instanceInfo' = instanceInfo
    BY <1>3 DEF PointBack
  <2> QED
    BY <1>1, <2>3, <2>4, SizesStay DEF SizesInv, cloudVars
<1>4. ASSUME NEW failing, MoveToTarget(i, v, failing) PROVE SizesInv' /\ Roomy
  <2> DEFINE q(loses) == IF loses THEN [recon EXCEPT !.ii[i] = WithoutShare(recon.ii[i], v)] ELSE recon
  <2>1. PICK loses \in BOOLEAN :
          /\ loses => recon.ii[i] = instanceInfo[i]
          /\ instanceInfo' = IF loses THEN [instanceInfo EXCEPT ![i] = WithoutShare(recon.ii[i], v)]
                                      ELSE instanceInfo
          /\ recon' = AfterPointers(Done(q(loses), <<i, v>>))
    BY <1>1, <1>4, MoveLeaves
  <2>2. WithoutShare(recon.ii[i], v) \in InstanceInfoRec
    BY <1>1 DEF WithoutShare, InstanceInfoRec
  <2>3. /\ q(loses) \in RoundRec /\ q(loses).phase = "pointers"
        /\ \A x \in Insts : q(loses).ii[x] = IF loses /\ x = i THEN WithoutShare(recon.ii[i], v) ELSE recon.ii[x]
    BY <1>1, <2>2 DEF RoundRec
  <2> HIDE DEF q
  <2>4. \A x \in Insts : SizeOK(q(loses).ii[x])
    BY <1>1, <2>3, NewSizes DEF SizesInv, SizeOK
  <2>5. \A x \in Insts : SizeOK(recon'.ii[x])
    BY <1>2, <2>1, <2>3, <2>4
  <2>6. \A x \in Insts : instanceInfo'[x].spec = instanceInfo[x].spec
                         /\ instanceInfo'[x].exists = instanceInfo[x].exists
    BY <1>1, <2>1, NewSizes
  <2>7. \A x \in Insts : instanceInfo[x].spec \in Nat
    BY <1>1 DEF InstanceInfoRec
  <2> QED
    BY <1>1, <2>5, <2>6, <2>7, SizesGrow DEF SizesInv, SizeOK, cloudVars
<1> QED
  BY <1>3, <1>4 DEF FixTwoWayPointers

LEMMA AssignSizes ==
  ASSUME PlacesInv, PlacesInv', LinksInv, SizesInv, NEW v \in Vols, AssignShare(v) PROVE SizesInv' /\ Roomy
<1>1. /\ TypeOK /\ TypeOK' /\ recon.phase = "assign" /\ v \in recon.todo /\ CachesFollow /\ UNCHANGED cloudVars
      /\ instanceInfo \in [Insts -> InstanceInfoRec] /\ recon \in RoundRec
      /\ recon.ii \in [Insts -> InstanceInfoRec] /\ RoundFits(recon, instanceInfo, share, ops)
  BY TypeParts, LinksAre DEF PlacesInv, AssignShare, RoundLeavesAlone, RoundRec
<1>2. ASSUME NEW q \in RoundRec, q.phase = "assign", recon' = AfterAssign(Done(q, v)),
             \A x \in Insts : SizeOK(q.ii[x])
      PROVE  \A x \in Insts : SizeOK(recon'.ii[x])
  <2> DEFINE r == Done(q, v)
  <2>1. r \in RoundRec /\ r.phase \in ReadsObjects /\ r.ii = q.ii
    BY <1>2, DoneRound DEF ReadsObjects
  <2>2. Walks(recon', r)
    BY <1>2, <2>1, PointersWalk
  <2> HIDE DEF r
  <2> QED
    BY <1>2, <2>1, <2>2, WalkSizes
<1>3. ASSUME NEW i \in Insts, NEW new \in InstanceInfoRec, new.exists, new.spec <= MaxCap,
             new.spec >= instanceInfo[i].spec, instanceInfo' = [instanceInfo EXCEPT ![i] = new],
             \A x \in Insts : SizeOK(recon'.ii[x])
      PROVE  SizesInv' /\ Roomy
  <2>1. \A x \in Insts : /\ SizeOK(instanceInfo'[x])
                         /\ instanceInfo'[x].exists => instanceInfo'[x].spec >= instanceInfo[x].spec
    BY <1>1, <1>3 DEF SizesInv, SizeOK, InstanceInfoRec
  <2> QED
    BY <1>1, <1>3, <2>1, SizesGrow DEF SizesInv, cloudVars
<1>4. ASSUME recon' = AfterAssign(Done(recon, v)), UNCHANGED objectVars PROVE SizesInv' /\ Roomy
  <2>1. \A x \in Insts : SizeOK(recon'.ii[x])
    BY <1>1, <1>2, <1>4 DEF SizesInv
  <2> QED
    BY <1>1, <1>4, <2>1, SizesStay DEF SizesInv, cloudVars, objectVars
<1>5. ASSUME NEW i \in Insts, NEW ii \in InstanceInfoRec, ii.exists, ii.spec <= MaxCap,
             ii.spec >= instanceInfo[i].spec, NEW failing, AssignTo(i, v, ii, failing)
      PROVE  SizesInv' /\ Roomy
  <2> DEFINE new == WithShare(ii, v)
             s == IF v \notin failing /\ CurrentShare(v, recon.si[v]) THEN PointTo(v, i) ELSE recon.si[v]
             q == [recon EXCEPT !.ii[i] = new, !.si[v] = s]
  <2>1. /\ new \in InstanceInfoRec /\ new.exists /\ new.spec <= MaxCap /\ new.spec >= instanceInfo[i].spec
        /\ SizeOK(new)
    BY <1>5 DEF WithShare, InstanceInfoRec, SizeOK
  <2>2. instanceInfo' = [instanceInfo EXCEPT ![i] = new] /\ recon' = AfterAssign(Done(q, v))
    BY <1>5 DEF AssignTo
  <2>3. s \in ShareInfoRec
    <3>1. recon.si[v] \in ShareInfoRec /\ recon.si[v].handle = NoInst
      BY <1>1 DEF RoundRec, PlacesInv, WorkFits
    <3> QED
      BY <1>1, <3>1, CurrentUnplaced
  <2> HIDE DEF new, s
  <2>4. q \in RoundRec /\ q.phase = "assign" /\ q.ii = [recon.ii EXCEPT ![i] = new]
    BY <1>1, <2>1, <2>3 DEF RoundRec
  <2> HIDE DEF q
  <2>5. \A x \in Insts : SizeOK(q.ii[x])
    BY <1>1, <2>1, <2>4 DEF SizesInv
  <2> QED
    BY <1>2, <1>3, <2>1, <2>2, <2>4, <2>5
<1>6. CASE AssignToEligible(v)
  <2>1. PICK i \in Fits : \E failing \in SUBSET {v} : AssignTo(i, v, recon.ii[i], failing)
    BY <1>6 DEF AssignToEligible
  <2>2. i \in Insts /\ recon.ii[i].exists
    BY <2>1 DEF Fits, InstanceFitShare
  <2>3. recon.ii[i] = instanceInfo[i] /\ recon.ii[i] \in InstanceInfoRec
    BY <1>1, <2>2 DEF RoundFits, ReadsObjects
  <2>4. recon.ii[i].spec <= MaxCap /\ recon.ii[i].spec >= instanceInfo[i].spec
    BY <2>2, <2>3 DEF SizesInv, SizeOK, InstanceInfoRec
  <2> QED
    BY <1>5, <2>1, <2>2, <2>3, <2>4
<1>7. CASE AssignmentFails(v)
  BY <1>4, <1>7 DEF AssignmentFails
<1>8. CASE AssignToNew(v)
  <2> DEFINE new == NewInstanceInfo(MinCap)
  <2>1. new \in InstanceInfoRec /\ new.exists /\ new.spec = MinCap /\ MinCap \in Nat /\ MinCap <= MaxCap
    BY InfoAssumption, NoneType DEF NewInstanceInfo, NoInstanceInfo
  <2>2. ASSUME NEW i \in Insts, FreshName(i) PROVE new.spec >= instanceInfo[i].spec
    BY <2>1, <2>2 DEF FreshName, SizesInv, SizeOK
  <2>3. CASE \E i \in Insts : FreshName(i) /\ \E failing \in SUBSET {v} : AssignTo(i, v, new, failing)
    <3> HIDE DEF new
    <3> QED
      BY <1>5, <2>1, <2>2, <2>3
  <2>4. CASE recon' = AfterAssign(Done(recon, v)) /\ UNCHANGED objectVars
    BY <1>4, <2>4
  <2>5. CASE /\ recon' = AfterAssign(Done(recon, v))
             /\ \E i \in Insts : FreshName(i) /\ instanceInfo' = [instanceInfo EXCEPT ![i] = new]
    <3>1. \A x \in Insts : SizeOK(recon'.ii[x])
      BY <1>1, <1>2, <2>5 DEF SizesInv
    <3> HIDE DEF new
    <3> QED
      BY <1>3, <2>1, <2>2, <2>5, <3>1
  <2> QED
    BY <1>8, <2>3, <2>4, <2>5 DEF AssignToNew, objectVars
<1> QED
  BY <1>6, <1>7, <1>8 DEF AssignShare

\* The size that is computed has room for the shares: the sizes the informer knows are
\* those of the shares at least, and all that are there are on the list.
LEMMA NewCapacityHasRoom ==
  ASSUME TypeOK, LinksInv, LifeInv, NEW i \in Insts, instanceInfo[i].exists
  PROVE  /\ NewCapacity(instanceInfo[i]) <= MaxCap
         /\ \/ NewCapacity(instanceInfo[i]) = MaxCap
            \/ NewCapacity(instanceInfo[i]) >= KnownShareBytes(i)
<1> DEFINE known == [v \in Vols |-> IF shareLister[v].exists THEN share[i][v].cap ELSE 0]
           sizes == [v \in Vols |-> IF v \in instanceInfo[i].shares /\ shareLister[v].exists
                                    THEN shareLister[v].spec ELSE 0]
<1>1. \A v \in Vols : shareLister[v].spec \in Nat /\ share[i][v].cap \in Nat
  BY TypeParts DEF ShareInfoRec, ShareRec
<1>2. known \in [Vols -> Nat] /\ sizes \in [Vols -> Nat] /\ IsFiniteSet(Vols)
  BY <1>1, FilestoreAssumption
<1>3. ASSUME NEW v \in Vols PROVE known[v] <= sizes[v]
  <2>1. CASE ~shareLister[v].exists
    BY <2>1
  <2>2. CASE shareLister[v].exists /\ v \in instanceInfo[i].shares
    BY <1>1, <2>2 DEF LifeInv, LifeOK, Copies, CopyOK
  <2>3. CASE v \notin instanceInfo[i].shares
    <3>1. v \notin SharesOf(i)
      BY <2>3 DEF LinksInv, InstanceLinks
    <3>2. share[i][v].cap = 0
      BY <3>1 DEF LifeInv, LifeOK, CapsOK
    <3> QED
      BY <2>3, <3>2
  <2> QED
    BY <2>1, <2>2, <2>3
<1>4. KnownShareBytes(i) = SumFunction(known)
      /\ NewCapacity(instanceInfo[i]) = Smaller(Larger(AlignBytes(SumFunction(sizes), StepSize), MinCap), MaxCap)
  BY DEF KnownShareBytes, NewCapacity
<1> HIDE DEF known, sizes
<1>5. SumFunction(known) <= SumFunction(sizes)
  BY <1>2, <1>3, SumMonotone
<1>6. SumFunction(known) \in Nat /\ SumFunction(sizes) \in Nat
  BY <1>2, SumType
<1>7. AlignBytes(SumFunction(sizes), StepSize) \in Nat
      /\ AlignBytes(SumFunction(sizes), StepSize) >= SumFunction(sizes)
  BY <1>6, AlignType, InfoAssumption
<1> QED
  BY <1>4, <1>5, <1>6, <1>7, InfoAssumption DEF Smaller, Larger

LEMMA ResizeSizes ==
  ASSUME PlacesInv, PlacesInv', LinksInv, LifeInv, SizesInv, DeleteOrResizeInstances
  PROVE  SizesInv' /\ Roomy
<1>1. /\ TypeOK /\ TypeOK' /\ CachesFollow /\ UNCHANGED cloudVars
      /\ instanceInfo \in [Insts -> InstanceInfoRec]
  BY TypeParts DEF PlacesInv, DeleteOrResizeInstances, RoundLeavesAlone
<1>2. PICK r \in RoundRec :
        /\ r.phase = "instances" /\ recon' = AfterInstances(r)
        /\ \A i \in Insts :
             /\ r.ii[i].exists = recon.ii[i].exists
             /\ instanceInfo'[i].exists = instanceInfo[i].exists
             /\ r.ii[i].spec = recon.ii[i].spec \/ (recon.ii[i].exists /\ r.ii[i].spec = instanceInfo'[i].spec)
             /\ \/ instanceInfo'[i].spec = instanceInfo[i].spec
                \/ /\ instanceInfo[i].exists /\ recon.ii[i] = instanceInfo[i]
                   /\ instanceInfo'[i].spec = NewCapacity(instanceInfo[i])
  BY ResizeLeaves
<1>3. ASSUME NEW i \in Insts
      PROVE  /\ SizeOK(instanceInfo'[i]) /\ SizeOK(r.ii[i])
             /\ instanceInfo'[i].spec < instanceInfo[i].spec => instanceInfo'[i].spec >= KnownShareBytes(i)
  <2>1. /\ SizeOK(instanceInfo[i]) /\ SizeOK(recon.ii[i]) /\ instanceInfo[i].spec \in Nat
    BY <1>1 DEF SizesInv, InstanceInfoRec
  <2>2. CASE instanceInfo'[i].spec = instanceInfo[i].spec
    <3>1. SizeOK(instanceInfo'[i])
      BY <1>2, <2>1, <2>2 DEF SizeOK
    <3>2. r.ii[i].spec <= MaxCap
      BY <1>2, <2>1, <3>1 DEF SizeOK
    <3>3. ~r.ii[i].exists => r.ii[i].spec = 0
      BY <1>2, <2>1, <2>2 DEF SizeOK
    <3> QED
      BY <2>1, <2>2, <3>1, <3>2, <3>3 DEF SizeOK
  <2>3. CASE /\ instanceInfo[i].exists /\ recon.ii[i] = instanceInfo[i]
             /\ instanceInfo'[i].spec = NewCapacity(instanceInfo[i])
    <3>1. /\ NewCapacity(instanceInfo[i]) <= MaxCap
          /\ \/ NewCapacity(instanceInfo[i]) = MaxCap
             \/ NewCapacity(instanceInfo[i]) >= KnownShareBytes(i)
      BY <1>1, <2>3, NewCapacityHasRoom
    <3>2. SizeOK(instanceInfo'[i]) /\ SizeOK(r.ii[i])
      BY <1>2, <2>1, <2>3, <3>1 DEF SizeOK
    <3>3. ~(MaxCap < instanceInfo[i].spec)
      BY <2>1, InfoAssumption DEF SizeOK
    <3> QED
      BY <2>3, <3>1, <3>2, <3>3
  <2> QED
    BY <1>2, <2>2, <2>3
<1>4. \A i \in Insts : SizeOK(recon'.ii[i])
  BY <1>2, <1>3, InstancesWalk, WalkSizes
<1>5. SizesInv'
  <2>1. \A i \in Insts : SizeOK(instanceLister'[i])
    BY <1>1, <1>3 DEF CachesFollow, SizesInv
  <2> QED
    BY <1>1, <1>3, <1>4, <2>1 DEF SizesInv, SizeOK, cloudVars
<1>6. Roomy
  BY <1>3 DEF Roomy
<1> QED
  BY <1>5, <1>6

LEMMA InstanceRequestSizes ==
  ASSUME PlacesInv, PlacesInv', LinksInv, SizesInv, NEW i \in Insts, SendInstanceRequest(i)
  PROVE  SizesInv' /\ Roomy
<1> DEFINE r == Done(recon, i)
<1>1. /\ TypeOK /\ TypeOK' /\ recon.phase = "instances" /\ CachesFollow /\ recon' = AfterInstances(r)
      /\ instanceInfo \in [Insts -> InstanceInfoRec] /\ recon \in RoundRec
      /\ instance \in [Insts -> InstanceRec] /\ MaxCap \in Nat
  BY TypeParts, InfoAssumption DEF PlacesInv, SendInstanceRequest, RoundLeavesAlone
<1>2. r \in RoundRec /\ r.phase = "instances" /\ r.ii = recon.ii
  BY <1>1, DoneRound
<1>3. \A x \in Insts : SizeOK(recon'.ii[x])
  <2> HIDE DEF r
  <2> QED
    BY <1>1, <1>2, InstancesWalk, WalkSizes DEF SizesInv
<1>4. \A x \in Insts : instanceInfo'[x].spec = instanceInfo[x].spec /\ instanceInfo'[x].exists = instanceInfo[x].exists
  <2>1. instanceInfo' \in {instanceInfo, [instanceInfo EXCEPT ![i].hasStatus = TRUE]}
    BY DEF SendInstanceRequest, RecordsError
  <2>2. CASE instanceInfo' = [instanceInfo EXCEPT ![i].hasStatus = TRUE]
    BY <1>1, <2>2 DEF InstanceInfoRec
  <2> QED
    BY <2>1, <2>2
<1>5. ASSUME NEW o \in InstanceRequest(i) PROVE o.cap <= MaxCap /\ o.inst = i /\ o.vol = NoVol
  BY <1>1, InstanceRequestIs DEF InstanceRequest, OpOnInstance, SizesInv, SizeOK
<1>6. /\ \A x \in Insts : instance'[x].cap <= MaxCap
      /\ \A o \in ops' : o.type \in InstanceOps => o.cap <= MaxCap
  <2>1. CASE UNCHANGED cloudVars
    BY <2>1 DEF SizesInv, cloudVars
  <2>2. ASSUME NEW o \in InstanceRequest(i), StartOp(o, "NFS_V3")
        PROVE  /\ \A x \in Insts : instance'[x].cap <= MaxCap
               /\ \A p \in ops' : p.type \in InstanceOps => p.cap <= MaxCap
    <3>1. ASSUME NEW x \in Insts PROVE instance'[x].cap <= MaxCap
      <4>1. instance[x].cap <= MaxCap /\ instance[x] \in InstanceRec
        BY <1>1 DEF SizesInv
      <4>2. instance'[x].cap \in {instance[x].cap, o.cap}
        BY <1>1, <1>5, <2>2, <4>1 DEF StartOp, InstanceRec
      <4> QED
        BY <1>5, <4>1, <4>2
    <3>2. ops' = ops \cup {o}
      BY <2>2 DEF StartOp
    <3> QED
      BY <1>5, <3>1, <3>2 DEF SizesInv
  <2> QED
    BY <2>1, <2>2 DEF SendInstanceRequest
<1>7. \A x \in Insts : instanceInfo[x].spec \in Nat
  BY <1>1 DEF InstanceInfoRec
<1> QED
  BY <1>1, <1>3, <1>4, <1>6, <1>7, SizesGrow DEF SizesInv, SizeOK

LEMMA ShareRequestSizes ==
  ASSUME PlacesInv, PlacesInv', LinksInv, SizesInv, NEW v \in Vols, SendShareRequest(v)
  PROVE  SizesInv' /\ Roomy
<1>1. /\ TypeOK /\ TypeOK' /\ recon.phase = "shares" /\ v \in recon.todo /\ CachesFollow
      /\ instanceInfo \in [Insts -> InstanceInfoRec] /\ recon \in RoundRec
      /\ recon.ii \in [Insts -> InstanceInfoRec] /\ recon.si[v] \in ShareInfoRec
      /\ instance \in [Insts -> InstanceRec] /\ recon.si[v].handle \in Insts
  BY TypeParts, ShareWork DEF PlacesInv, SendShareRequest, RoundLeavesAlone, RoundRec
<1>2. ASSUME NEW q \in RoundRec, recon' = AfterShares(Done(q, v)), \A x \in Insts : SizeOK(q.ii[x])
      PROVE  \A x \in Insts : SizeOK(recon'.ii[x])
  <2> DEFINE r == Done(q, v)
  <2>1. r \in RoundRec /\ r.ii = q.ii
    BY DoneRound
  <2>2. recon' = AfterShares(r)
    BY <1>2
  <2> HIDE DEF r
  <2> QED
    BY <1>2, <2>1, <2>2, SharesWalk, WalkSizes
<1>3. CASE MarkShareInfoStatusDeleted(v)
  <2> DEFINE i == recon.si[v].handle
             removed == WithoutShare(recon.ii[i], v)
  <2>1. PICK q : /\ q \in {recon, [recon EXCEPT !.ii[i] = removed]}
                 /\ recon' = AfterShares(Done(q, v))
    BY <1>3 DEF MarkShareInfoStatusDeleted
  <2>2. /\ removed \in InstanceInfoRec /\ removed.spec = recon.ii[i].spec /\ removed.exists = recon.ii[i].exists
    BY <1>1 DEF WithoutShare, InstanceInfoRec
  <2>3. instanceInfo' = instanceInfo \/ (instanceInfo' = [instanceInfo EXCEPT ![i] = removed] /\ recon.ii[i] = instanceInfo[i])
    <3>1. PICK failing : LET offList == v \notin recon.ii[i].shares
                                        \/ (i \notin failing /\ CurrentInstance(i, recon.ii[i]))
                         IN instanceInfo' = IF offList /\ v \in recon.ii[i].shares
                                            THEN [instanceInfo EXCEPT ![i] = removed] ELSE instanceInfo
      BY <1>3 DEF MarkShareInfoStatusDeleted
    <3> QED
      BY <3>1 DEF CurrentInstance
  <2> HIDE DEF removed
  <2>4. q \in RoundRec /\ \A x \in Insts : SizeOK(q.ii[x])
    <3>1. CASE q = [recon EXCEPT !.ii[i] = removed]
      <4>1. q \in RoundRec /\ q.ii = [recon.ii EXCEPT ![i] = removed]
        BY <1>1, <2>2, <3>1 DEF RoundRec
      <4> QED
        BY <1>1, <2>2, <4>1 DEF SizesInv, SizeOK
    <3> QED
      BY <1>1, <2>1, <3>1 DEF SizesInv
  <2>5. \A x \in Insts : instanceInfo'[x].spec = instanceInfo[x].spec /\ instanceInfo'[x].exists = instanceInfo[x].exists
    BY <1>1, <2>2, <2>3
  <2>6. \A x \in Insts : instanceInfo[x].spec \in Nat /\ SizeOK(recon'.ii[x])
    BY <1>1, <1>2, <2>1, <2>4 DEF InstanceInfoRec
  <2>7. UNCHANGED cloudVars
    BY <1>3 DEF MarkShareInfoStatusDeleted
  <2> QED
    BY <1>1, <2>5, <2>6, <2>7, SizesGrow DEF SizesInv, SizeOK, cloudVars
<1>4. CASE ~MarkShareInfoStatusDeleted(v)
  <2>1. /\ recon' = AfterShares(Done(recon, v)) /\ UNCHANGED objectVars
        /\ UNCHANGED cloudVars \/ \E o \in ShareRequest(v) : StartOp(o, "")
    BY <1>4 DEF SendShareRequest
  <2>2. \A x \in Insts : SizeOK(recon'.ii[x])
    BY <1>1, <1>2, <2>1 DEF SizesInv
  <2>3. /\ \A x \in Insts : instance'[x].cap <= MaxCap
        /\ \A o \in ops' : o.type \in InstanceOps => o.cap <= MaxCap
    <3>1. ASSUME NEW o \in ShareRequest(v), StartOp(o, "")
          PROVE  /\ \A x \in Insts : instance'[x].cap <= MaxCap
                 /\ \A p \in ops' : p.type \in InstanceOps => p.cap <= MaxCap
      <4>1. o.type \in ShareOps /\ o.type \notin InstanceOps
        BY ShareRequestIs DEF ShareOps, InstanceOps
      <4>2. ops' = ops \cup {o} /\ instance' = instance
        BY <1>1, <3>1, <4>1 DEF StartOp, ShareOps
      <4> QED
        BY <4>1, <4>2 DEF SizesInv
    <3> QED
      BY <2>1, <3>1 DEF SizesInv, cloudVars
  <2> QED
    BY <1>1, <2>1, <2>2, <2>3, SizesStay DEF objectVars
<1> QED
  BY <1>3, <1>4

LEMMA DoneSizes ==
  ASSUME PlacesInv, PlacesInv', SizesInv, NEW o \in ops, OpDone(o) PROVE SizesInv' /\ Roomy
<1>1. /\ TypeOK /\ TypeOK' /\ CachesFollow /\ UNCHANGED <<objectVars, recon>>
      /\ instance \in [Insts -> InstanceRec] /\ o \in Op
  BY TypeParts DEF PlacesInv, OpDone, RoundLeavesAlone
<1>2. ops' = ops \ {o}
  BY DEF OpDone, OpSucceeds, OpFails
<1>3. ASSUME NEW i \in Insts PROVE instance'[i].cap <= MaxCap
  <2>1. instance[i] \in InstanceRec /\ instance[i].cap <= MaxCap /\ o.inst \in Insts
    BY <1>1, OpShape DEF SizesInv
  <2>2. \/ instance'[i].cap \in {instance[i].cap, 0}
        \/ o.type = "InstanceUpdate" /\ instance'[i].cap = o.cap
    <3>1. CASE OpSucceeds(o)
      BY <1>1, <2>1, <3>1 DEF OpSucceeds, AbsentInstance, InstanceRec
    <3>2. CASE OpFails(o)
      BY <1>1, <2>1, <3>2 DEF OpFails, InstanceRec
    <3> QED
      BY <3>1, <3>2 DEF OpDone
  <2> QED
    BY <2>1, <2>2, InfoAssumption DEF SizesInv, InstanceOps
<1> QED
  BY <1>1, <1>2, <1>3, SizesStay DEF SizesInv, objectVars

LEMMA RestSizes ==
  ASSUME PlacesInv, PlacesInv', SizesInv,
         \/ ListShares \/ RoundEnds \/ Sync \/ UNCHANGED vars
         \/ \E v \in Vols : Creates(v) \/ Deletes(v) \/ Expands(v) \/ Releases(v)
         \/ \E i \in Insts : Repair(i) \/ ManualDelete(i)
  PROVE  SizesInv' /\ Roomy
<1>1. TypeOK /\ TypeOK' /\ instance \in [Insts -> InstanceRec] /\ recon \in RoundRec
  BY TypeParts DEF PlacesInv
<1>2. CASE ListShares \/ RoundEnds
  <2>1. recon'.ii = recon.ii \/ recon' = Idle
    BY <1>1, <1>2 DEF ListShares, RoundEnds, RoundRec
  <2>2. \A i \in Insts : SizeOK(recon'.ii[i])
    <3>1. \A i \in Insts : Idle.ii[i] = NoInstanceInfo
      BY DEF Idle
    <3> QED
      BY <2>1, <3>1, NewSizes DEF SizesInv
  <2> QED
    BY <1>1, <1>2, <2>2, SizesStay DEF ListShares, RoundEnds, RoundLeavesAlone, SizesInv, cloudVars, objectVars
<1>3. CASE Sync \/ UNCHANGED vars
  <2>1. /\ instanceInfo' = instanceInfo /\ recon' = recon /\ UNCHANGED cloudVars
        /\ instanceLister' \in {instanceLister, instanceInfo}
    BY <1>3 DEF Sync, ReconcilerSync, ControllerSync, vars, objectVars, cacheVars
  <2>2. SizesInv'
    BY <2>1 DEF SizesInv, cloudVars
  <2>3. \A i \in Insts : instanceInfo[i].spec \in Nat
    BY <1>1 DEF TypeOK, ObjectsTypeOK, InstanceInfoRec
  <2> QED
    BY <2>1, <2>2, <2>3 DEF Roomy
<1>4. CASE \E v \in Vols : Creates(v) \/ Deletes(v) \/ Expands(v) \/ Releases(v)
  <2>1. PICK v \in Vols : CreateVolume(v) \/ DeleteVolume(v) \/ ControllerExpandVolume(v) \/ ReleasePV(v)
    BY <1>4 DEF Creates, Deletes, Expands, Releases
  <2>2. instanceInfo' = instanceInfo /\ UNCHANGED cloudVars
    BY <2>1 DEF CreateVolume, CreateShareInfo, CreateAnswers, DeleteVolume, DeleteFindsNothing, DeleteShareInfo,
                DeleteAnswers, ControllerExpandVolume, ExpandShareInfo, ExpandAnswers, ReleasePV, RequestLeavesAlone
  <2>3. recon' = recon /\ CachesFollow
    BY <1>4 DEF Creates, Deletes, Expands, Releases, RequestLeavesRound
  <2> QED
    BY <1>1, <2>2, <2>3, SizesStay DEF SizesInv, cloudVars
<1>5. ASSUME NEW i \in Insts, Repair(i) \/ ManualDelete(i) PROVE SizesInv' /\ Roomy
  <2>1. /\ ops' = ops /\ UNCHANGED <<objectVars, recon>> /\ CachesFollow
    BY <1>5 DEF Repair, ManualDelete, RepairStarts, RepairEnds, RoundLeavesAlone
  <2>2. ASSUME NEW x \in Insts PROVE instance'[x].cap \in {instance[x].cap, 0}
    <3>0. instance[x] \in InstanceRec /\ instance[i] \in InstanceRec
      BY <1>1, <1>5
    <3>1. CASE Repair(i)
      <4>1. \/ instance' = [instance EXCEPT ![i].state = "REPAIRING"]
            \/ instance' = [instance EXCEPT ![i].state = "READY"]
        BY <3>1 DEF Repair, RepairStarts, RepairEnds
      <4>2. ASSUME NEW st, instance' = [instance EXCEPT ![i].state = st]
            PROVE  instance'[x].cap = instance[x].cap
        BY <1>1, <1>5, <3>0, <4>2 DEF InstanceRec
      <4> QED
        BY <4>1, <4>2
    <3>2. CASE ManualDelete(i)
      BY <1>1, <1>5, <3>0, <3>2 DEF ManualDelete, AbsentInstance
    <3> QED
      BY <1>5, <3>1, <3>2
  <2>3. \A x \in Insts : instance'[x].cap <= MaxCap
    BY <2>2, InfoAssumption DEF SizesInv
  <2> QED
    BY <1>1, <2>1, <2>3, SizesStay DEF SizesInv, objectVars
<1> QED
  BY <1>2, <1>3, <1>4, <1>5

LEMMA SizesStart == Init => SizesInv
<1> SUFFICES ASSUME Init PROVE SizesInv
  OBVIOUS
<1>1. /\ ops = {} /\ recon = Idle /\ \A i \in Insts : instanceInfo[i] = NoInstanceInfo /\ instanceLister[i] = NoInstanceInfo
  BY DEF Init, ObjectsInit
<1>2. \A i \in Insts : Idle.ii[i] = NoInstanceInfo
  BY DEF Idle
<1>3. \A i \in Insts : instance[i].cap \in {0, MigratedCap}
  BY DEF Init, AbsentInstance
<1> QED
  BY <1>1, <1>2, <1>3, NewSizes, InfoAssumption, ReconcilerAssumption DEF SizesInv

LEMMA SizesStep ==
  ASSUME PlacesInv, PlacesInv', LinksInv, LifeInv, SizesInv, [Next]_vars PROVE SizesInv' /\ Roomy
BY UpdateSizes, PointersSizes, AssignSizes, ResizeSizes, InstanceRequestSizes, ShareRequestSizes,
   DoneSizes, RestSizes DEF Next, RoundStep

\* Under the same hypotheses, a round lowers the size of an instance only as far as the
\* shares have room that are on it and that the informer knows, as large as they have
\* become since the round began.
THEOREM ShrinksDecidedWithKnownRoom ==
  ASSUME ~CacheLags, ~ManualDeletes PROVE Spec => ShrinkDecidedWithKnownRoom
<1>1. PlacesInv /\ PlacesInv' /\ LinksInv /\ LifeInv /\ SizesInv /\ [Next]_vars => SizesInv' /\ [Roomy]_vars
  BY SizesStep
<1> QED
  BY <1>1, SizesStart, PlacesInvariance, LinksInvariance, LifeInvariance, PTL
     DEF Spec, ShrinkDecidedWithKnownRoom, Roomy
=============================================================================
