-------------------------- MODULE SingleShareProofs --------------------------
(***************************************************************************)
(* The single-share controller is safe for any number of volumes,          *)
(* snapshots, handlers and faults: ranges stay held, snapshots are as they *)
(* were told, and every volume keeps the contract of VolumeLifecycle when  *)
(* the sizes asked for only grow.                                          *)
(*                                                                         *)
(* The invariant is VolumesInv (SingleShareSafety).  A step has one of six *)
(* shapes; a lemma for each shape says that it preserves SingleInv.        *)
(***************************************************************************)
EXTENDS SingleShareSafety, IPAllocatorTheorems

-----------------------------------------------------------------------------
(* The shapes of the handlers' steps. *)

\* What a successful answer about a volume tells the orchestrator.
VolumeAnswer(r, p) ==
  \/ /\ r.pc \in CreatePcs /\ filer[r.vol].state = "READY"
     /\ p = [pv[r.vol] EXCEPT !.phase = "bound", !.cap = filer[r.vol].cap]
  \/ /\ r.pc \in DeletePcs /\ filer[r.vol].state = "ABSENT"
     /\ p = [pv[r.vol] EXCEPT !.phase = "deleted"]
  \/ /\ r.pc \in ExpandPcs
     /\ p = [pv[r.vol] EXCEPT !.cap = filer[r.vol].cap]
  \/ /\ r.pc \in ModifyPcs /\ filer[r.vol].tuned
     /\ p = [pv[r.vol] EXCEPT !.tuned = TRUE]

\* The same about a snapshot.
SnapshotAnswer(r, phase) ==
  \/ r.pc \in SnapshotPcs /\ phase = "bound" /\ backup[r.snap] = "READY"
  \/ r.pc \in UnsnapshotPcs /\ phase = "deleted" /\ backup[r.snap] = "ABSENT"

\* A handler returns: with an error, its answer is lost, or it arrives.
Returns(w) ==
  /\ work[w].pc # "idle"
  /\ Return(w) /\ UNCHANGED cloudVars
  /\ \/ UNCHANGED <<pv, content>>
     \/ /\ \E p : VolumeAnswer(work[w], p) /\ pv' = [pv EXCEPT ![work[w].vol] = p]
        /\ UNCHANGED content
     \/ /\ \E phase : /\ SnapshotAnswer(work[w], phase)
                      /\ content' = [content EXCEPT ![work[w].snap] = phase]
        /\ UNCHANGED pv

\* The stages of one request.
SameHandler(from, to) ==
  \/ from \in CreatePcs /\ to \in CreatePcs
  \/ from \in DeletePcs /\ to \in DeletePcs
  \/ from \in ExpandPcs /\ to \in ExpandPcs
  \/ from \in ModifyPcs /\ to \in ModifyPcs
  \/ from \in SnapshotPcs /\ to \in SnapshotPcs
  \/ from \in UnsnapshotPcs /\ to \in UnsnapshotPcs

\* A handler goes on from r to s, after a read that matters to the stage it goes to.
GoesOn(r, s) ==
  /\ SameHandler(r.pc, s.pc) /\ s.pc \notin Waiting
  /\ s.vol = r.vol /\ s.snap = r.snap /\ s.op = r.op /\ s.result = r.result /\ s.size = r.size
  /\ s.pc = "create.read" => r.pc = "create.wait" /\ r.result = "ok"
  /\ s.pc = "expand.ops" => filer[r.vol].cap <= r.size
  /\ s.pc = "expand.start" => r.pc = "expand.ops" /\ ~HasUpdateOps(r.vol)

\* It keeps its range, or reserves one that overlaps no pending one.
Holds(r, s) ==
  \/ s.range = r.range /\ UNCHANGED pendingIPRanges
  \/ /\ s.range \in Range /\ \A range \in pendingIPRanges : ~IsOverlap(s.range, range)
     /\ pendingIPRanges' = pendingIPRanges \cup {s.range}

Moves(w) ==
  /\ \E s \in Request : /\ GoesOn(work[w], s) /\ Holds(work[w], s)
                        /\ work' = [work EXCEPT ![w] = s]
  /\ UNCHANGED <<cloudVars, volumeLocks, pv, content>>

\* The operation a handler starts, the instance it asks for, and where it waits.
Requests(r, o, new, to) ==
  \/ /\ r.pc = "create.start" /\ to = "create.wait" /\ o = InstanceOp("create", r.vol, 0)
     /\ new = [state |-> "CREATING", cap |-> BaseSize, tuned |-> FALSE, range |-> r.range]
  \/ r.pc = "delete.start" /\ to = "delete.wait" /\ o = InstanceOp("delete", r.vol, 0)
  \/ r.pc = "expand.start" /\ to = "expand.wait" /\ o = InstanceOp("resize", r.vol, r.size)
  \/ r.pc = "modify.start" /\ to = "modify.wait" /\ o = InstanceOp("tune", r.vol, 0)
  \/ r.pc = "snapshot.start" /\ to = "snapshot.wait" /\ o = BackupOp("createBackup", r.vol, r.snap)
  \/ r.pc = "unsnapshot.start" /\ to = "unsnapshot.wait" /\ o = BackupOp("deleteBackup", r.vol, r.snap)

Starts(w) == \E o, new, to : Requests(work[w], o, new, to) /\ Start(w, o, new, to)

\* A request, for the orchestrator wants or knows what it is about.
Asks(r) ==
  /\ r \in Request /\ r.range = NoRange /\ r.result = "none" /\ r.op = NoOp /\ r.vol \in Vols
  /\ \/ r.pc = "create.get" /\ pv[r.vol].phase = "wanted" /\ UNCHANGED pv
     \/ r.pc = "delete.get" /\ pv[r.vol].phase = "released" /\ UNCHANGED pv
     \/ /\ r.pc = "expand.get" /\ pv[r.vol].phase = "bound" /\ (SizesOnlyGrow => pv[r.vol].asked <= r.size)
        /\ pv' = [pv EXCEPT ![r.vol].asked = r.size]
     \/ r.pc = "modify.get" /\ pv[r.vol].phase = "bound" /\ UNCHANGED pv
     \/ /\ r.pc = "snapshot.get" /\ r.snap \in Snaps /\ r.vol = SourceOf[r.snap]
        /\ content[r.snap] = "wanted" /\ UNCHANGED pv
     \/ /\ r.pc = "unsnapshot.get" /\ r.snap \in Snaps /\ r.vol = SourceOf[r.snap]
        /\ content[r.snap] = "released" /\ UNCHANGED pv

Begins(w) == \E r : Asks(r) /\ Accept(w, r)

\* An operation ends, and the handler that waits for it learns how.
Ends(o) ==
  /\ o \in ops
  /\ \/ OpSucceeds(o) /\ NotifyWaiters(o, "ok")
     \/ OpFails(o) /\ NotifyWaiters(o, "error")
  /\ UNCHANGED <<pendingIPRanges, volumeLocks, pv, content>>

\* What SingleInv says of one request.
LEMMA RequestKnows ==
  ASSUME SingleInv, NEW w \in Workers
  PROVE  /\ work[w] \in Request /\ RequestOK(work[w]) /\ HandlerKnows(work[w])
         /\ work \in [Workers -> Request] /\ pv \in [Vols -> PVRec]
         /\ filer \in [Vols -> InstanceRec] /\ backup \in [Snaps -> BackupStates]
         /\ ops \in SUBSET Op /\ pendingIPRanges \subseteq Range
         /\ content \in [Snaps -> Phases] /\ faults \in Nat /\ volumeLocks \in SUBSET Vols
         /\ work[w].pc # "idle" => work[w].vol \in Vols
BY DEF SingleInv, TypeOK, CloudTypeOK, IPAllocatorTypeOK, RequestOK

\* A move to a stage that changes nothing else.
LEMMA GotoMoves ==
  ASSUME SingleInv, NEW w \in Workers, NEW to \in Pcs, Goto(w, to), to \notin Waiting,
         SameHandler(work[w].pc, to),
         to = "create.read" => work[w].pc = "create.wait" /\ work[w].result = "ok",
         to = "expand.ops" => filer[work[w].vol].cap <= work[w].size,
         to = "expand.start" => work[w].pc = "expand.ops" /\ ~HasUpdateOps(work[w].vol)
  PROVE  Moves(w) /\ UNCHANGED faults
<1> DEFINE s == [work[w] EXCEPT !.pc = to]
<1>1. work[w] \in Request
  BY RequestKnows
<1>2. /\ s \in Request /\ s.pc = to /\ s.vol = work[w].vol /\ s.snap = work[w].snap
      /\ s.op = work[w].op /\ s.result = work[w].result /\ s.size = work[w].size
      /\ s.range = work[w].range
  BY <1>1 DEF Request
<1>3. work' = [work EXCEPT ![w] = s] /\ UNCHANGED <<cloudVars, pendingIPRanges, volumeLocks, pv, content, faults>>
  BY DEF Goto, GoOn
<1> HIDE DEF s
<1>4. GoesOn(work[w], s)
  BY <1>2 DEF GoesOn
<1>5. Holds(work[w], s)
  BY <1>2, <1>3 DEF Holds
<1> QED
  BY <1>2, <1>3, <1>4, <1>5 DEF Moves

\* The answers of handlers, and their errors, are returns.
LEMMA ErrorReturns ==
  ASSUME NEW w \in Workers, work[w].pc # "idle", ReturnError(w)
  PROVE  Returns(w) /\ UNCHANGED faults
BY DEF ReturnError, Returns

LEMMA SuccessReturns ==
  ASSUME NEW w \in Workers, work[w].pc # "idle", NEW p, VolumeAnswer(work[w], p), ReturnSuccess(w, p)
  PROVE  Returns(w) /\ (UNCHANGED faults \/ Fault)
BY DEF ReturnSuccess, Returns

LEMMA SnapshotSuccessReturns ==
  ASSUME NEW w \in Workers, work[w].pc # "idle", NEW phase,
         SnapshotAnswer(work[w], phase), ReturnSnapshotSuccess(w, phase)
  PROVE  Returns(w) /\ (UNCHANGED faults \/ Fault)
BY DEF ReturnSnapshotSuccess, Returns

\* An operation is started, or the request is refused.
LEMMA StartOrErrorShape ==
  ASSUME NEW w \in Workers, work[w].pc # "idle", NEW o, NEW new, NEW to,
         Requests(work[w], o, new, to), StartOrError(w, o, new, to)
  PROVE  (Returns(w) \/ Starts(w)) /\ UNCHANGED faults
<1>1. CASE Start(w, o, new, to)
  BY <1>1 DEF Starts, Start
<1>2. CASE ReturnError(w)
  BY <1>2, ErrorReturns
<1> QED
  BY <1>1, <1>2 DEF StartOrError

Shaped(w) == (Returns(w) \/ Moves(w) \/ Starts(w)) /\ (UNCHANGED faults \/ Fault)

LEMMA ReserveShape ==
  ASSUME SingleInv, NEW w \in Workers, CreateReserve(w)
  PROVE  Shaped(w)
<1> DEFINE range == ReservedRange(w)
           s == [work[w] EXCEPT !.pc = "create.start", !.range = range, !.seen = {}]
<1>1. work[w] \in Request /\ work \in [Workers -> Request] /\ work[w].pc = "create.reserve"
  BY RequestKnows DEF CreateReserve
<1>2. CASE range = NoRange
  <2>1. ReturnError(w)
    BY <1>2 DEF CreateReserve
  <2> QED
    BY <1>1, <2>1, ErrorReturns DEF Shaped
<1>3. CASE range # NoRange
  <2>1. /\ GetUnreservedIPRange(Cidr, BlockSize, work[w].seen)
        /\ work' = [work EXCEPT ![w].pc = "create.start", ![w].range = range, ![w].seen = {}]
        /\ UNCHANGED <<cloudVars, volumeLocks, pv, content, faults>>
    BY <1>3 DEF CreateReserve
  <2>2. range = Answer(Cidr, BlockSize, work[w].seen) /\ BlockSize \in BlockSizes
    BY SingleShareAssumption DEF ReservedRange
  <2> HIDE DEF range
  <2>3. range \in Range /\ \A held \in pendingIPRanges : ~IsOverlap(range, held)
    BY <1>3, <2>2, AnswerIsFree
  <2>4. pendingIPRanges' = pendingIPRanges \cup {range}
    BY <1>3, <2>1, <2>2 DEF GetUnreservedIPRange
  <2>5. /\ s \in Request /\ s.pc = "create.start" /\ s.vol = work[w].vol /\ s.snap = work[w].snap
        /\ s.op = work[w].op /\ s.result = work[w].result /\ s.size = work[w].size
        /\ s.range = range
    BY <1>1, <2>3 DEF Request, Pcs, CreatePcs
  <2>6. work' = [work EXCEPT ![w] = s]
    BY <1>1, <2>1
  <2> HIDE DEF s
  <2>7. GoesOn(work[w], s)
    BY <1>1, <2>5 DEF GoesOn, SameHandler, CreatePcs, Waiting
  <2>8. Holds(work[w], s)
    BY <2>3, <2>4, <2>5 DEF Holds
  <2> QED
    BY <2>1, <2>5, <2>6, <2>7, <2>8 DEF Moves, Shaped
<1> QED
  BY <1>2, <1>3

LEMMA CreateShape ==
  ASSUME SingleInv, NEW w \in Workers, CreateStep(w)
  PROVE  Shaped(w)
<1> DEFINE r == work[w]
<1>1. /\ r \in Request /\ HandlerKnows(r) /\ filer \in [Vols -> InstanceRec]
      /\ r.pc # "idle" => r.vol \in Vols
  BY RequestKnows
<1>2. CASE CreateGet(w)
  <2>1. r.pc = "create.get"
    BY <1>2 DEF CreateGet
  <2>2. CASE Goto(w, "create.list")
    BY <2>1, <2>2, GotoMoves DEF Shaped, Pcs, CreatePcs, Waiting, SameHandler
  <2>3. CASE filer[r.vol].state = "READY" /\ CreateSucceeds(w)
    BY <2>1, <2>3, SuccessReturns DEF CreateSucceeds, VolumeAnswer, CreatePcs, Shaped
  <2>4. CASE ReturnError(w)
    BY <2>1, <2>4, ErrorReturns DEF Shaped
  <2> QED
    BY <1>2, <2>2, <2>3, <2>4 DEF CreateGet
<1>3. CASE CreateList(w)
  <2> DEFINE s == [r EXCEPT !.pc = "create.reserve", !.seen = ListedRanges \cup MultishareRanges]
  <2>1. /\ r.pc = "create.list" /\ work' = [work EXCEPT ![w] = s]
        /\ UNCHANGED <<cloudVars, pendingIPRanges, volumeLocks, pv, content, faults>>
    BY <1>3 DEF CreateList, GoOn
  <2>2. ListedRanges \cup MultishareRanges \subseteq Range \cup {NamedRange}
    <3>1. \A v \in Vols : filer[v].range \in Range \cup {NoRange}
      BY <1>1 DEF InstanceRec
    <3> QED
      BY <3>1, SingleShareAssumption DEF ListedRanges
  <2>3. /\ s \in Request /\ s.pc = "create.reserve" /\ s.vol = r.vol /\ s.snap = r.snap
        /\ s.op = r.op /\ s.result = r.result /\ s.size = r.size /\ s.range = r.range
    BY <1>1, <2>2 DEF Request, Pcs, CreatePcs
  <2> HIDE DEF s
  <2>4. GoesOn(r, s)
    BY <2>1, <2>3 DEF GoesOn, SameHandler, CreatePcs, Waiting
  <2>5. Holds(r, s)
    BY <2>1, <2>3 DEF Holds
  <2> QED
    BY <2>1, <2>3, <2>4, <2>5 DEF Moves, Shaped
<1>4. CASE CreateReserve(w)
  BY <1>4, ReserveShape
<1>5. CASE CreateStart(w)
  <2> DEFINE o == InstanceOp("create", r.vol, 0)
             new == [state |-> "CREATING", cap |-> BaseSize, tuned |-> FALSE, range |-> r.range]
  <2>1. r.pc = "create.start" /\ StartOrError(w, o, new, "create.wait")
    BY <1>5 DEF CreateStart
  <2>2. Requests(r, o, new, "create.wait")
    BY <2>1 DEF Requests
  <2> HIDE DEF o, new
  <2> QED
    BY <2>1, <2>2, StartOrErrorShape DEF Shaped
<1>6. CASE CreateWait(w)
  <2>1. r.pc = "create.wait" /\ r.result = "ok" /\ Goto(w, "create.read")
    BY <1>6 DEF CreateWait, WaitDone
  <2> QED
    BY <2>1, GotoMoves DEF Shaped, Pcs, CreatePcs, Waiting, SameHandler
<1>7. CASE CreateRead(w)
  <2>1. r.pc = "create.read" /\ filer[r.vol].state = "READY"
    BY <1>1, <1>7 DEF CreateRead, HandlerKnows
  <2>2. CASE CreateSucceeds(w)
    BY <2>1, <2>2, SuccessReturns DEF CreateSucceeds, VolumeAnswer, CreatePcs, Shaped
  <2> QED
    BY <1>7, <2>1, <2>2 DEF CreateRead
<1> QED
  BY <1>2, <1>3, <1>4, <1>5, <1>6, <1>7 DEF CreateStep

LEMMA DeleteShape ==
  ASSUME SingleInv, NEW w \in Workers, DeleteStep(w)
  PROVE  Shaped(w)
<1> DEFINE r == work[w]
<1>1. CASE DeleteGet(w)
  <2>1. r.pc = "delete.get"
    BY <1>1 DEF DeleteGet
  <2>2. CASE filer[r.vol].state = "ABSENT" /\ DeleteSucceeds(w)
    BY <2>1, <2>2, SuccessReturns DEF DeleteSucceeds, VolumeAnswer, DeletePcs, Shaped
  <2>3. CASE ReturnError(w)
    BY <2>1, <2>3, ErrorReturns DEF Shaped
  <2>4. CASE Goto(w, "delete.start")
    BY <2>1, <2>4, GotoMoves DEF Shaped, Pcs, DeletePcs, Waiting, SameHandler
  <2> QED
    BY <1>1, <2>2, <2>3, <2>4 DEF DeleteGet
<1>2. CASE DeleteStart(w)
  <2> DEFINE o == InstanceOp("delete", r.vol, 0)
  <2>1. r.pc = "delete.start" /\ StartOrError(w, o, Absent, "delete.wait")
    BY <1>2 DEF DeleteStart
  <2>2. Requests(r, o, Absent, "delete.wait")
    BY <2>1 DEF Requests
  <2> HIDE DEF o
  <2> QED
    BY <2>1, <2>2, StartOrErrorShape DEF Shaped
<1>3. CASE DeleteWait(w)
  BY <1>3, GotoMoves DEF DeleteWait, WaitDone, Shaped, Pcs, DeletePcs, Waiting, SameHandler
<1>4. CASE DeleteVerify(w)
  <2>1. r.pc = "delete.verify"
    BY <1>4 DEF DeleteVerify
  <2>2. CASE filer[r.vol].state = "ABSENT" /\ DeleteSucceeds(w)
    BY <2>1, <2>2, SuccessReturns DEF DeleteSucceeds, VolumeAnswer, DeletePcs, Shaped
  <2>3. CASE ReturnError(w)
    BY <2>1, <2>3, ErrorReturns DEF Shaped
  <2> QED
    BY <1>4, <2>2, <2>3 DEF DeleteVerify
<1> QED
  BY <1>1, <1>2, <1>3, <1>4 DEF DeleteStep

LEMMA ExpandShape ==
  ASSUME SingleInv, NEW w \in Workers, ExpandStep(w)
  PROVE  Shaped(w)
<1> DEFINE r == work[w]
<1>1. /\ r \in Request /\ filer \in [Vols -> InstanceRec]
      /\ r.pc # "idle" => r.vol \in Vols
  BY RequestKnows
<1>2. ASSUME r.pc \in {"expand.get", "expand.read"}, ExpandSucceeds(w) PROVE Shaped(w)
  BY <1>2, SuccessReturns DEF ExpandSucceeds, VolumeAnswer, ExpandPcs, Shaped
<1>3. CASE ExpandGet(w)
  <2>1. r.pc = "expand.get"
    BY <1>3 DEF ExpandGet
  <2>2. CASE ReturnError(w)
    BY <2>1, <2>2, ErrorReturns DEF Shaped
  <2>3. CASE ExpandSucceeds(w)
    BY <1>2, <2>1, <2>3
  <2>4. CASE r.size > filer[r.vol].cap /\ Goto(w, "expand.ops")
    <3>1. r.size \in Nat /\ filer[r.vol].cap \in Nat
      BY <1>1, <2>1 DEF Request, InstanceRec
    <3>2. filer[r.vol].cap <= r.size
      BY <2>4, <3>1
    <3> QED
      BY <2>1, <2>4, <3>2, GotoMoves DEF Shaped, Pcs, ExpandPcs, Waiting, SameHandler
  <2> QED
    BY <1>3, <2>2, <2>3, <2>4 DEF ExpandGet
<1>4. CASE ExpandOps(w)
  <2>1. r.pc = "expand.ops"
    BY <1>4 DEF ExpandOps
  <2>2. CASE ReturnError(w)
    BY <2>1, <2>2, ErrorReturns DEF Shaped
  <2>3. CASE ~HasUpdateOps(r.vol) /\ Goto(w, "expand.start")
    BY <2>1, <2>3, GotoMoves DEF Shaped, Pcs, ExpandPcs, Waiting, SameHandler
  <2> QED
    BY <1>4, <2>2, <2>3 DEF ExpandOps
<1>5. CASE ExpandStart(w)
  <2> DEFINE o == InstanceOp("resize", r.vol, r.size)
  <2>1. r.pc = "expand.start" /\ StartOrError(w, o, Absent, "expand.wait")
    BY <1>5 DEF ExpandStart
  <2>2. Requests(r, o, Absent, "expand.wait")
    BY <2>1 DEF Requests
  <2> HIDE DEF o
  <2> QED
    BY <2>1, <2>2, StartOrErrorShape DEF Shaped
<1>6. CASE ExpandWait(w)
  BY <1>6, GotoMoves DEF ExpandWait, WaitDone, Shaped, Pcs, ExpandPcs, Waiting, SameHandler
<1>7. CASE ExpandRead(w)
  <2>1. r.pc = "expand.read"
    BY <1>7 DEF ExpandRead
  <2>2. CASE ReturnError(w)
    BY <2>1, <2>2, ErrorReturns DEF Shaped
  <2> QED
    BY <1>2, <1>7, <2>1, <2>2 DEF ExpandRead
<1> QED
  BY <1>3, <1>4, <1>5, <1>6, <1>7 DEF ExpandStep

LEMMA ModifyShape ==
  ASSUME SingleInv, NEW w \in Workers, ModifyStep(w)
  PROVE  Shaped(w)
<1> DEFINE r == work[w]
<1>1. CASE ModifyGet(w)
  <2>1. r.pc = "modify.get"
    BY <1>1 DEF ModifyGet
  <2>2. CASE ReturnError(w)
    BY <2>1, <2>2, ErrorReturns DEF Shaped
  <2>3. CASE Goto(w, "modify.start")
    BY <2>1, <2>3, GotoMoves DEF Shaped, Pcs, ModifyPcs, Waiting, SameHandler
  <2> QED
    BY <1>1, <2>2, <2>3 DEF ModifyGet
<1>2. CASE ModifyStart(w)
  <2> DEFINE o == InstanceOp("tune", r.vol, 0)
  <2>1. r.pc = "modify.start" /\ StartOrError(w, o, Absent, "modify.wait")
    BY <1>2 DEF ModifyStart
  <2>2. Requests(r, o, Absent, "modify.wait")
    BY <2>1 DEF Requests
  <2> HIDE DEF o
  <2> QED
    BY <2>1, <2>2, StartOrErrorShape DEF Shaped
<1>3. CASE ModifyWait(w)
  <2>1. r.pc = "modify.wait" /\ r.result = "ok" /\ ReturnSuccess(w, [pv[r.vol] EXCEPT !.tuned = TRUE])
    BY <1>3 DEF ModifyWait, WaitDone
  <2>2. filer[r.vol].tuned
    BY <2>1, RequestKnows DEF HandlerKnows
  <2>3. VolumeAnswer(r, [pv[r.vol] EXCEPT !.tuned = TRUE])
    BY <2>1, <2>2 DEF VolumeAnswer, ModifyPcs
  <2> QED
    BY <2>1, <2>3, SuccessReturns DEF Shaped
<1> QED
  BY <1>1, <1>2, <1>3 DEF ModifyStep

LEMMA SnapshotShape ==
  ASSUME SingleInv, NEW w \in Workers, SnapshotStep(w)
  PROVE  Shaped(w)
<1> DEFINE r == work[w]
           state == backup[r.snap]
<1>1. CASE SnapshotGet(w)
  <2>1. r.pc = "snapshot.get"
    BY <1>1 DEF SnapshotGet
  <2>2. CASE Goto(w, "snapshot.start")
    BY <2>1, <2>2, GotoMoves DEF Shaped, Pcs, SnapshotPcs, Waiting, SameHandler
  <2>3. CASE state = "READY" /\ ReturnSnapshotSuccess(w, "bound")
    BY <2>1, <2>3, SnapshotSuccessReturns DEF SnapshotAnswer, SnapshotPcs, Shaped
  <2>4. CASE ReturnError(w)
    BY <2>1, <2>4, ErrorReturns DEF Shaped
  <2> QED
    BY <1>1, <2>2, <2>3, <2>4 DEF SnapshotGet, ExistingBackup
<1>2. CASE SnapshotStart(w)
  <2> DEFINE o == BackupOp("createBackup", r.vol, r.snap)
  <2>1. r.pc = "snapshot.start" /\ StartOrError(w, o, Absent, "snapshot.wait")
    BY <1>2 DEF SnapshotStart
  <2>2. Requests(r, o, Absent, "snapshot.wait")
    BY <2>1 DEF Requests
  <2> HIDE DEF o
  <2> QED
    BY <2>1, <2>2, StartOrErrorShape DEF Shaped
<1>3. CASE SnapshotWait(w)
  BY <1>3, GotoMoves DEF SnapshotWait, WaitDone, Shaped, Pcs, SnapshotPcs, Waiting, SameHandler
<1>4. CASE SnapshotRead(w)
  <2>1. r.pc = "snapshot.read"
    BY <1>4 DEF SnapshotRead
  <2>2. CASE state = "READY" /\ ReturnSnapshotSuccess(w, "bound")
    BY <2>1, <2>2, SnapshotSuccessReturns DEF SnapshotAnswer, SnapshotPcs, Shaped
  <2>3. CASE ReturnError(w)
    BY <2>1, <2>3, ErrorReturns DEF Shaped
  <2> QED
    BY <1>4, <2>2, <2>3 DEF SnapshotRead
<1>5. CASE UnsnapshotGet(w)
  <2>1. r.pc = "unsnapshot.get"
    BY <1>5 DEF UnsnapshotGet
  <2>2. CASE state = "ABSENT" /\ ReturnSnapshotSuccess(w, "deleted")
    BY <2>1, <2>2, SnapshotSuccessReturns DEF SnapshotAnswer, UnsnapshotPcs, Shaped
  <2>3. CASE ReturnError(w)
    BY <2>1, <2>3, ErrorReturns DEF Shaped
  <2>4. CASE Goto(w, "unsnapshot.start")
    BY <2>1, <2>4, GotoMoves DEF Shaped, Pcs, UnsnapshotPcs, Waiting, SameHandler
  <2> QED
    BY <1>5, <2>2, <2>3, <2>4 DEF UnsnapshotGet
<1>6. CASE UnsnapshotStart(w)
  <2>1. r.pc = "unsnapshot.start" /\ Start(w, DeleteBackupOp(w), Absent, "unsnapshot.wait")
    BY <1>6 DEF UnsnapshotStart
  <2>2. Requests(r, DeleteBackupOp(w), Absent, "unsnapshot.wait")
    BY <2>1 DEF Requests, DeleteBackupOp
  <2> QED
    BY <2>1, <2>2 DEF Shaped, Starts, Start
<1>7. CASE UnsnapshotWait(w)
  <2>1. r.pc = "unsnapshot.wait" /\ r.result = "ok" /\ ReturnSnapshotSuccess(w, "deleted")
    BY <1>7 DEF UnsnapshotWait, WaitDone
  <2>2. state = "ABSENT"
    BY <2>1, RequestKnows DEF HandlerKnows
  <2> QED
    BY <2>1, <2>2, SnapshotSuccessReturns DEF SnapshotAnswer, UnsnapshotPcs, Shaped
<1> QED
  BY <1>1, <1>2, <1>3, <1>4, <1>5, <1>6, <1>7 DEF SnapshotStep

\* Every step of a handler has one of the shapes, or ends the process.
LEMMA HandlerShape ==
  ASSUME SingleInv, NEW w \in Workers, HandlerStep(w) \/ HandlerFails(w)
  PROVE  Shaped(w) \/ (ProcessEnds /\ (UNCHANGED faults \/ Fault))
<1>1. CASE WaitError(w)
  <2>1. work[w].pc # "idle" /\ ReturnError(w)
    BY <1>1 DEF WaitError, Waiting
  <2> QED
    BY <2>1, ErrorReturns DEF Shaped
<1>2. CASE DeleteBackupPanics(w)
  BY <1>2 DEF DeleteBackupPanics
<1>3. CASE HandlerFails(w)
  BY <1>3 DEF HandlerFails, Returns, Shaped
<1> QED
  BY <1>1, <1>2, <1>3, CreateShape, DeleteShape, ExpandShape, ModifyShape, SnapshotShape DEF HandlerStep

LEMMA IdleType == Idle \in Request
<1>1. /\ Idle.pc = "idle" /\ Idle.vol = NoVol /\ Idle.snap = NoSnap /\ Idle.op = NoOp
      /\ Idle.result = "none" /\ Idle.seen = {} /\ Idle.range = NoRange /\ Idle.size = 0
  BY DEF Idle
<1>2. "idle" \in Pcs
  BY DEF Pcs
<1> QED
  BY <1>2 DEF Idle, Request

\* A request that is accepted begins a handler.
LEMMA RequestShape ==
  ASSUME SingleInv, NEW w \in Workers,
         \/ \E v \in Vols : VolumeRequest(w, v)
         \/ \E s \in Snaps : CreateSnapshot(w, s) \/ DeleteSnapshot(w, s)
  PROVE  Begins(w) /\ UNCHANGED faults
<1>2. ASSUME NEW r, Accept(w, r), Asks(r) PROVE Begins(w) /\ UNCHANGED faults
  BY <1>2 DEF Begins, Accept
<1>3. ASSUME NEW v \in Vols, VolumeRequest(w, v) PROVE Begins(w) /\ UNCHANGED faults
  <2> DEFINE R(pc, size) == [Idle EXCEPT !.pc = pc, !.vol = v, !.size = size]
  <2>1. \A pc \in Pcs, size \in Nat :
          /\ R(pc, size) \in Request /\ R(pc, size).pc = pc /\ R(pc, size).vol = v
          /\ R(pc, size).range = NoRange /\ R(pc, size).result = "none" /\ R(pc, size).op = NoOp
          /\ R(pc, size).size = size
    <3> TAKE pc \in Pcs, size \in Nat
    <3>1. R(pc, size) \in Request
      BY IdleType DEF Request
    <3> QED
      BY <3>1 DEF Idle
  <2>2. \A pc \in Pcs : [Idle EXCEPT !.pc = pc, !.vol = v] = R(pc, 0)
    <3> TAKE pc \in Pcs
    <3>1. [Idle EXCEPT !.pc = pc, !.vol = v] \in Request /\ R(pc, 0) \in Request
      BY IdleType DEF Request
    <3>2. Idle.size = 0
      BY DEF Idle
    <3> QED
      BY <3>1, <3>2, IdleType DEF Request
  <2>8. \A size : [Idle EXCEPT !.pc = "expand.get", !.vol = v, !.size = size] = R("expand.get", size)
    OBVIOUS
  <2>3. {"create.get", "delete.get", "expand.get", "modify.get"} \subseteq Pcs
    BY DEF Pcs, CreatePcs, DeletePcs, ExpandPcs, ModifyPcs
  <2> HIDE DEF R
  <2>4. CASE CreateVolume(w, v)
    <3>1. Accept(w, R("create.get", 0)) /\ pv[v].phase = "wanted" /\ UNCHANGED pv
      BY <2>2, <2>3, <2>4 DEF CreateVolume
    <3>2. Asks(R("create.get", 0))
      BY <2>1, <2>3, <3>1 DEF Asks
    <3> QED
      BY <1>2, <3>1, <3>2
  <2>5. CASE DeleteVolume(w, v)
    <3>1. Accept(w, R("delete.get", 0)) /\ pv[v].phase = "released" /\ UNCHANGED pv
      BY <2>2, <2>3, <2>5 DEF DeleteVolume
    <3>2. Asks(R("delete.get", 0))
      BY <2>1, <2>3, <3>1 DEF Asks
    <3> QED
      BY <1>2, <3>1, <3>2
  <2>6. CASE ControllerModifyVolume(w, v)
    <3>1. Accept(w, R("modify.get", 0)) /\ pv[v].phase = "bound" /\ UNCHANGED pv
      BY <2>2, <2>3, <2>6 DEF ControllerModifyVolume
    <3>2. Asks(R("modify.get", 0))
      BY <2>1, <2>3, <3>1 DEF Asks
    <3> QED
      BY <1>2, <3>1, <3>2
  <2>7. ASSUME NEW size \in ExpandSizes[v], ControllerExpandVolume(w, v, size)
        PROVE  Begins(w) /\ UNCHANGED faults
    <3>1. size \in Nat
      BY SingleShareAssumption
    <3>2. /\ Accept(w, R("expand.get", size)) /\ pv[v].phase = "bound"
          /\ SizesOnlyGrow => pv[v].asked <= size
          /\ pv' = [pv EXCEPT ![v].asked = size]
      BY <2>7, <2>8 DEF ControllerExpandVolume
    <3> DEFINE r == R("expand.get", size)
    <3>4. /\ r \in Request /\ r.pc = "expand.get" /\ r.vol = v /\ r.size = size
          /\ r.range = NoRange /\ r.result = "none" /\ r.op = NoOp
      BY <2>1, <2>3, <3>1
    <3> HIDE DEF r
    <3>5. pv' = [pv EXCEPT ![r.vol].asked = r.size]
      BY <3>2, <3>4
    <3>6. pv[r.vol].phase = "bound" /\ (SizesOnlyGrow => pv[r.vol].asked <= r.size) /\ r.vol \in Vols
      BY <3>2, <3>4
    <3>7. Asks(r)
      BY <3>4, <3>5, <3>6 DEF Asks
    <3>3. Asks(R("expand.get", size))
      BY <3>7 DEF r
    <3> QED
      BY <1>2, <3>2, <3>3
  <2> QED
    BY <1>3, <2>4, <2>5, <2>6, <2>7 DEF VolumeRequest
<1>4. ASSUME NEW s \in Snaps, CreateSnapshot(w, s) \/ DeleteSnapshot(w, s)
      PROVE  Begins(w) /\ UNCHANGED faults
  <2> DEFINE R(pc) == [Idle EXCEPT !.pc = pc, !.vol = SourceOf[s], !.snap = s]
  <2>1. \A pc \in Pcs :
          /\ R(pc) \in Request /\ R(pc).pc = pc /\ R(pc).vol = SourceOf[s] /\ R(pc).snap = s
          /\ R(pc).range = NoRange /\ R(pc).result = "none" /\ R(pc).op = NoOp
          /\ SourceOf[s] \in Vols
    <3> TAKE pc \in Pcs
    <3>1. SourceOf[s] \in Vols
      BY SingleShareAssumption
    <3>2. R(pc) \in Request
      BY <3>1, IdleType DEF Request
    <3> QED
      BY <3>1, <3>2 DEF Idle
  <2>2. "snapshot.get" \in Pcs /\ "unsnapshot.get" \in Pcs
    BY DEF Pcs, SnapshotPcs, UnsnapshotPcs
  <2>6. \A pc : [Idle EXCEPT !.pc = pc, !.vol = SourceOf[s], !.snap = s] = R(pc)
    OBVIOUS
  <2> HIDE DEF R
  <2>3. \/ Accept(w, R("snapshot.get")) /\ content[s] = "wanted" /\ UNCHANGED pv
        \/ Accept(w, R("unsnapshot.get")) /\ content[s] = "released" /\ UNCHANGED pv
    <3>1. CASE CreateSnapshot(w, s)
      BY <2>6, <3>1 DEF CreateSnapshot
    <3>2. CASE DeleteSnapshot(w, s)
      BY <2>6, <3>2 DEF DeleteSnapshot
    <3> QED
      BY <1>4, <3>1, <3>2
  <2>4. CASE Accept(w, R("snapshot.get")) /\ content[s] = "wanted" /\ UNCHANGED pv
    <3> DEFINE r == R("snapshot.get")
    <3>1. /\ r \in Request /\ r.pc = "snapshot.get" /\ r.vol = SourceOf[s] /\ r.snap = s
          /\ r.range = NoRange /\ r.result = "none" /\ r.op = NoOp /\ r.vol \in Vols
      BY <2>1, <2>2
    <3>2. Accept(w, r)
      BY <2>4
    <3> HIDE DEF r
    <3>3. Asks(r)
      BY <2>4, <3>1 DEF Asks
    <3> QED
      BY <1>2, <3>2, <3>3
  <2>5. CASE Accept(w, R("unsnapshot.get")) /\ content[s] = "released" /\ UNCHANGED pv
    <3> DEFINE r == R("unsnapshot.get")
    <3>1. /\ r \in Request /\ r.pc = "unsnapshot.get" /\ r.vol = SourceOf[s] /\ r.snap = s
          /\ r.range = NoRange /\ r.result = "none" /\ r.op = NoOp /\ r.vol \in Vols
      BY <2>1, <2>2
    <3>2. Accept(w, r)
      BY <2>5
    <3> HIDE DEF r
    <3>3. Asks(r)
      BY <2>5, <3>1 DEF Asks
    <3> QED
      BY <1>2, <3>2, <3>3
  <2> QED
    BY <2>3, <2>4, <2>5
<1> QED
  BY <1>3, <1>4

-----------------------------------------------------------------------------
(* A handler returns. *)

\* What the orchestrator learns of a volume in a step.
VolumeTold(r, v) ==
  /\ v = r.vol /\ pv'[v].asked = pv[v].asked
  /\ \/ /\ r.pc \in CreatePcs /\ filer[v].state = "READY"
        /\ pv[v].phase = "wanted" /\ pv'[v].phase = "bound"
        /\ pv'[v].cap = filer[v].cap /\ pv'[v].tuned = pv[v].tuned
     \/ /\ r.pc \in DeletePcs /\ filer[v].state = "ABSENT"
        /\ pv[v].phase = "released" /\ pv'[v].phase = "deleted"
        /\ pv'[v].cap = pv[v].cap /\ pv'[v].tuned = pv[v].tuned
     \/ /\ r.pc \in ExpandPcs
        /\ pv[v].phase \in {"bound", "released"} /\ pv'[v].phase = pv[v].phase
        /\ pv'[v].cap = filer[v].cap /\ pv'[v].tuned = pv[v].tuned
     \/ /\ r.pc \in ModifyPcs /\ filer[v].tuned
        /\ pv[v].phase \in {"bound", "released"} /\ pv'[v].phase = pv[v].phase
        /\ pv'[v].cap = pv[v].cap /\ pv'[v].tuned

SnapshotTold(r, s) ==
  /\ s = r.snap
  /\ \/ /\ r.pc \in SnapshotPcs /\ backup[s] = "READY"
        /\ content[s] = "wanted" /\ content'[s] = "bound"
     \/ /\ r.pc \in UnsnapshotPcs /\ backup[s] = "ABSENT"
        /\ content[s] \in {"released", "deleted"} /\ content'[s] = "deleted"

LEMMA AnswerEffect ==
  ASSUME SingleInv, NEW w \in Workers, Returns(w)
  PROVE  /\ pv' \in [Vols -> PVRec] /\ content' \in [Snaps -> Phases]
         /\ \A v \in Vols : pv'[v] = pv[v] \/ VolumeTold(work[w], v)
         /\ \A s \in Snaps : content'[s] = content[s] \/ SnapshotTold(work[w], s)
<1> DEFINE r == work[w]
<1>1. /\ pv \in [Vols -> PVRec] /\ content \in [Snaps -> Phases] /\ filer \in [Vols -> InstanceRec]
      /\ r.vol \in Vols /\ RequestOK(r) /\ HandlerKnows(r)
  BY RequestKnows DEF Returns
<1> HIDE DEF r
<1>2. CASE UNCHANGED <<pv, content>>
  BY <1>1, <1>2
<1>3. ASSUME NEW p, VolumeAnswer(r, p), pv' = [pv EXCEPT ![r.vol] = p], UNCHANGED content
      PROVE  pv' \in [Vols -> PVRec] /\ (\A v \in Vols : pv'[v] = pv[v] \/ VolumeTold(r, v))
  <2>1. pv[r.vol] \in PVRec /\ filer[r.vol].cap \in Nat /\ pv'[r.vol] = p
    BY <1>1, <1>3 DEF InstanceRec
  <2>2. \A v \in Vols : v # r.vol => pv'[v] = pv[v]
    BY <1>1, <1>3
  <2>3. CASE /\ r.pc \in CreatePcs /\ filer[r.vol].state = "READY"
             /\ p = [pv[r.vol] EXCEPT !.phase = "bound", !.cap = filer[r.vol].cap]
    <3>1. /\ p \in PVRec /\ p.phase = "bound" /\ p.cap = filer[r.vol].cap
          /\ p.tuned = pv[r.vol].tuned /\ p.asked = pv[r.vol].asked
      BY <2>1, <2>3 DEF PVRec, Phases
    <3>2. pv[r.vol].phase = "wanted"
      BY <1>1, <2>3 DEF HandlerKnows
    <3>3. VolumeTold(r, r.vol)
      BY <2>1, <2>3, <3>1, <3>2 DEF VolumeTold
    <3> QED
      BY <1>1, <1>3, <2>2, <3>1, <3>3
  <2>4. CASE /\ r.pc \in DeletePcs /\ filer[r.vol].state = "ABSENT"
             /\ p = [pv[r.vol] EXCEPT !.phase = "deleted"]
    <3>1. /\ p \in PVRec /\ p.phase = "deleted" /\ p.cap = pv[r.vol].cap
          /\ p.tuned = pv[r.vol].tuned /\ p.asked = pv[r.vol].asked
      BY <2>1, <2>4 DEF PVRec, Phases
    <3>2. pv[r.vol].phase = "released"
      BY <1>1, <2>4 DEF HandlerKnows
    <3>3. VolumeTold(r, r.vol)
      BY <2>1, <2>4, <3>1, <3>2 DEF VolumeTold
    <3> QED
      BY <1>1, <1>3, <2>2, <3>1, <3>3
  <2>5. CASE r.pc \in ExpandPcs /\ p = [pv[r.vol] EXCEPT !.cap = filer[r.vol].cap]
    <3>1. /\ p \in PVRec /\ p.phase = pv[r.vol].phase /\ p.cap = filer[r.vol].cap
          /\ p.tuned = pv[r.vol].tuned /\ p.asked = pv[r.vol].asked
      BY <2>1, <2>5 DEF PVRec
    <3>2. pv[r.vol].phase \in {"bound", "released"}
      BY <1>1, <2>5 DEF HandlerKnows
    <3>3. VolumeTold(r, r.vol)
      BY <2>1, <2>5, <3>1, <3>2 DEF VolumeTold
    <3> QED
      BY <1>1, <1>3, <2>2, <3>1, <3>3
  <2>6. CASE /\ r.pc \in ModifyPcs /\ filer[r.vol].tuned
             /\ p = [pv[r.vol] EXCEPT !.tuned = TRUE]
    <3>1. /\ p \in PVRec /\ p.phase = pv[r.vol].phase /\ p.cap = pv[r.vol].cap
          /\ p.tuned /\ p.asked = pv[r.vol].asked
      BY <2>1, <2>6 DEF PVRec
    <3>2. pv[r.vol].phase \in {"bound", "released"}
      BY <1>1, <2>6 DEF HandlerKnows
    <3>3. VolumeTold(r, r.vol)
      BY <2>1, <2>6, <3>1, <3>2 DEF VolumeTold
    <3> QED
      BY <1>1, <1>3, <2>2, <3>1, <3>3
  <2> QED
    BY <1>3, <2>3, <2>4, <2>5, <2>6 DEF VolumeAnswer
<1>4. ASSUME NEW phase, SnapshotAnswer(r, phase), content' = [content EXCEPT ![r.snap] = phase]
      PROVE  /\ content' \in [Snaps -> Phases]
             /\ \A s \in Snaps : content'[s] = content[s] \/ SnapshotTold(r, s)
  <2>1. r.snap \in Snaps /\ phase \in Phases
    BY <1>1, <1>4 DEF SnapshotAnswer, RequestOK, Phases
  <2>2. \A s \in Snaps : s # r.snap => content'[s] = content[s]
    BY <1>1, <1>4
  <2>3. content'[r.snap] = phase
    BY <1>1, <1>4, <2>1
  <2>4. SnapshotTold(r, r.snap)
    BY <1>1, <1>4, <2>3 DEF SnapshotAnswer, SnapshotTold, HandlerKnows
  <2> QED
    BY <1>1, <1>4, <2>1, <2>2, <2>4
<1> QED
  BY <1>1, <1>2, <1>3, <1>4 DEF Returns, r

\* The idle state of a worker, which owns nothing and knows nothing.
LEMMA IdleOK ==
  /\ Idle \in Request /\ Idle.pc = "idle" /\ Idle.range = NoRange /\ ~Locking(Idle.pc)
  /\ RequestOK(Idle)
BY IdleType DEF Idle, Locking, RequestOK, SnapshotPcs, UnsnapshotPcs

\* Handlers that have reserved a range have different ones.
LEMMA RangesDiffer ==
  ASSUME SingleInv, NEW u \in Reserving, NEW w \in Reserving, u # w
  PROVE  work[u].range # work[w].range
<1>1. work[u].range \in Range
  BY RequestKnows DEF Reserving, Request
<1>2. work[u].range.base \in AddressesOf(work[u].range)
  BY <1>1, IPAllocatorAssumption DEF AddressesOf, Contains, Range, Address
<1> QED
  BY <1>2 DEF SingleInv, RangesHeld

LEMMA ReturnHolds ==
  ASSUME SingleInv, NEW w \in Workers, Returns(w)
  PROVE  /\ \A u \in Workers : u # w => work'[u] = work[u]
         /\ work'[w] = Idle /\ work' \in [Workers -> Request]
         /\ LocksOK' /\ RangesHeld' /\ IPAllocatorTypeOK' /\ volumeLocks' \in SUBSET Vols
<1>1. /\ work' = [work EXCEPT ![w] = Idle] /\ pendingIPRanges' = pendingIPRanges \ {work[w].range}
      /\ volumeLocks' = IF Locking(work[w].pc) THEN volumeLocks \ {work[w].vol} ELSE volumeLocks
  BY DEF Returns, Return, ReleaseIPRange
<1>2. /\ work \in [Workers -> Request] /\ pendingIPRanges \subseteq Range /\ volumeLocks \in SUBSET Vols
  BY RequestKnows
<1>3. /\ \A u \in Workers : u # w => work'[u] = work[u]
      /\ work'[w] = Idle /\ work' \in [Workers -> Request]
  BY <1>1, <1>2, IdleOK
<1>4. IPAllocatorTypeOK' /\ volumeLocks' \in SUBSET Vols
  BY <1>1, <1>2 DEF IPAllocatorTypeOK
<1>5. LocksOK'
  <2>1. LocksOK
    BY DEF SingleInv
  <2>2. ASSUME NEW u \in Workers, Locking(work'[u].pc) PROVE work'[u].vol \in volumeLocks'
    <3>1. u # w
      BY <1>3, <2>2, IdleOK
    <3> QED
      BY <1>1, <1>3, <2>1, <2>2, <3>1 DEF LocksOK
  <2>3. ASSUME NEW u \in Workers, NEW x \in Workers, u # x, Locking(work'[u].pc), Locking(work'[x].pc)
        PROVE  work'[u].vol # work'[x].vol
    <3>1. u # w /\ x # w
      BY <1>3, <2>3, IdleOK
    <3> QED
      BY <1>3, <2>1, <2>3, <3>1 DEF LocksOK
  <2> QED
    BY <2>2, <2>3 DEF LocksOK, Locking
<1>6. RangesHeld'
  <2>1. RangesHeld
    BY DEF SingleInv
  <2>2. \A u \in Reserving' : u \in Reserving /\ u # w /\ work'[u] = work[u]
    BY <1>3, IdleOK DEF Reserving
  <2>3. ASSUME NEW u \in Reserving' PROVE work'[u].range \in pendingIPRanges'
    <3>1. work[u].range \in pendingIPRanges
      BY <2>1, <2>2 DEF RangesHeld
    <3>2. CASE w \in Reserving
      BY <1>1, <2>2, <3>1, <3>2, RangesDiffer
    <3>3. CASE w \notin Reserving
      BY <1>1, <2>2, <3>1, <3>3 DEF Reserving
    <3> QED
      BY <3>2, <3>3
  <2>4. ASSUME NEW u \in Reserving', NEW x \in Reserving', u # x
        PROVE  AddressesOf(work'[u].range) \cap AddressesOf(work'[x].range) = {}
    BY <2>1, <2>2, <2>4 DEF RangesHeld
  <2> QED
    BY <2>3, <2>4 DEF RangesHeld, AddressesOf
<1> QED
  BY <1>3, <1>4, <1>5, <1>6

\* The stages of different requests are different; all but those of DeleteSnapshot are
\* under the lock.
LEMMA PcsApart ==
  ASSUME NEW pc
  PROVE  /\ pc \in CreatePcs \cup DeletePcs \cup ExpandPcs \cup ModifyPcs \cup SnapshotPcs
              => Locking(pc) /\ pc # "idle" /\ pc \notin UnsnapshotPcs
         /\ pc \in UnsnapshotPcs => ~Locking(pc) /\ pc # "idle"
         /\ pc \in CreatePcs => pc \notin DeletePcs \cup ExpandPcs \cup ModifyPcs \cup SnapshotPcs
         /\ pc \in DeletePcs => pc \notin ExpandPcs \cup ModifyPcs \cup SnapshotPcs
         /\ pc \in ExpandPcs => pc \notin ModifyPcs \cup SnapshotPcs
         /\ pc \in ModifyPcs => pc \notin SnapshotPcs
         /\ pc \in {"create.wait", "create.read"} => pc \in CreatePcs
         /\ pc = "modify.wait" => pc \in ModifyPcs
         /\ pc = "unsnapshot.wait" => pc \in UnsnapshotPcs
BY DEF CreatePcs, DeletePcs, ExpandPcs, ModifyPcs, SnapshotPcs, UnsnapshotPcs, Locking

LEMMA ReturnKeepsKnowledge ==
  ASSUME SingleInv, NEW w \in Workers, Returns(w), NEW u \in Workers
  PROVE  RequestOK(work[u])' /\ HandlerKnows(work[u])'
<1> DEFINE q == work[u]
           r == work[w]
<1>1. CASE u = w
  <2>1. work'[u].pc = "idle"
    BY <1>1, ReturnHolds, IdleOK
  <2> QED
    BY <2>1, PcsApart DEF RequestOK, HandlerKnows
<1>2. CASE u # w
  <2>1. work'[u] = q /\ UNCHANGED <<filer, backup>>
    BY <1>2, ReturnHolds DEF Returns, cloudVars
  <2>2. /\ RequestOK(q) /\ HandlerKnows(q) /\ (q.pc # "idle" => q.vol \in Vols)
        /\ RequestOK(r) /\ HandlerKnows(r) /\ r.vol \in Vols
    BY RequestKnows DEF Returns
  <2>3. Locking(q.pc) /\ Locking(r.pc) => q.vol # r.vol
    BY <1>2 DEF SingleInv, LocksOK
  <2> HIDE DEF q, r
  <2>4. ASSUME q.pc \in CreatePcs \cup DeletePcs \cup ExpandPcs \cup ModifyPcs
        PROVE  pv'[q.vol] = pv[q.vol]
    <3>1. Locking(q.pc) /\ q.vol \in Vols
      BY <2>2, <2>4, PcsApart
    <3>2. ~VolumeTold(r, q.vol)
      BY <2>3, <3>1, PcsApart DEF VolumeTold
    <3> QED
      BY <3>1, <3>2, AnswerEffect DEF r
  <2>5. ASSUME q.pc \in SnapshotPcs PROVE content'[q.snap] = "wanted"
    <3>1. /\ Locking(q.pc) /\ q.snap \in Snaps /\ q.vol = SourceOf[q.snap]
          /\ content[q.snap] = "wanted"
      BY <2>2, <2>5, PcsApart DEF RequestOK, HandlerKnows
    <3>2. ~SnapshotTold(r, q.snap)
      BY <2>2, <2>3, <3>1, PcsApart DEF SnapshotTold, RequestOK
    <3> QED
      BY <3>1, <3>2, AnswerEffect DEF r
  <2>6. ASSUME q.pc \in UnsnapshotPcs PROVE content'[q.snap] \in {"released", "deleted"}
    <3>1. q.snap \in Snaps /\ content[q.snap] \in {"released", "deleted"}
      BY <2>2, <2>6 DEF RequestOK, HandlerKnows
    <3>2. content'[q.snap] = content[q.snap] \/ content'[q.snap] = "deleted"
      BY <3>1, AnswerEffect DEF r, SnapshotTold
    <3> QED
      BY <3>1, <3>2
  <2>7. RequestOK(work[u])'
    BY <2>1, <2>2 DEF RequestOK
  <2>8. HandlerKnows(work[u])'
    BY <2>1, <2>2, <2>4, <2>5, <2>6 DEF HandlerKnows
  <2> QED
    BY <2>7, <2>8
<1> QED
  BY <1>1, <1>2

LEMMA ReturnKeeps ==
  ASSUME SingleInv, NEW w \in Workers, Returns(w), faults' \in Nat
  PROVE  SingleInv'
<1> DEFINE r == work[w]
<1>1. /\ UNCHANGED <<filer, backup, ops>> /\ ops \in SUBSET Op
      /\ CloudTypeOK /\ RequestOK(r) /\ HandlerKnows(r)
  BY RequestKnows DEF Returns, cloudVars, SingleInv, TypeOK
<1> HIDE DEF r
<1>2. \A v \in Vols : pv'[v] = pv[v] \/ VolumeTold(r, v)
  BY AnswerEffect DEF r
<1>3. \A s \in Snaps : content'[s] = content[s] \/ SnapshotTold(r, s)
  BY AnswerEffect DEF r
<1>4. CloudTypeOK'
  BY <1>1 DEF CloudTypeOK
<1>5. TypeOK'
  BY <1>4, AnswerEffect, ReturnHolds DEF TypeOK
<1>6. SnapshotAsTold'
  BY <1>1, <1>3 DEF SnapshotAsTold, SingleInv, SnapshotTold
<1>7. ASSUME NEW o \in ops' PROVE OpShows(o)'
  <2>1. o \in ops /\ o \in Op /\ OpShows(o)
    BY <1>1, <1>7 DEF SingleInv
  <2>2. o.vol \in Vols /\ (o.type \in BackupOps => o.snap \in Snaps)
    BY <2>1 DEF Op, InstanceOps, BackupOps, UpdateOps
  <2>3. ASSUME o.type = "create" PROVE pv'[o.vol].phase = "wanted"
    BY <1>2, <2>1, <2>2, <2>3 DEF OpShows, VolumeTold
  <2>4. ASSUME o.type = "delete" PROVE pv'[o.vol].phase = "released"
    BY <1>2, <2>1, <2>2, <2>4 DEF OpShows, VolumeTold
  <2>5. ASSUME o.type \in UpdateOps PROVE pv'[o.vol].phase # "wanted"
    BY <1>2, <2>1, <2>2, <2>5 DEF OpShows, VolumeTold
  <2>6. ASSUME o.type \in BackupOps PROVE content'[o.snap] = content[o.snap]
    BY <1>3, <2>1, <2>2, <2>6 DEF OpShows, SnapshotTold, BackupOps
  <2>7. "createBackup" \in BackupOps /\ "deleteBackup" \in BackupOps
    BY DEF BackupOps
  <2> QED
    BY <1>1, <2>1, <2>3, <2>4, <2>5, <2>6, <2>7 DEF OpShows
<1>8. ASSUME NEW v \in Vols PROVE VolumeAsTold(v)'
  <2>1. VolumeAsTold(v)
    BY DEF SingleInv
  <2>2. r.pc \in ExpandPcs \cup ModifyPcs => filer[r.vol].state = "READY"
    BY <1>1 DEF HandlerKnows
  <2> QED
    BY <1>1, <1>2, <2>1, <2>2 DEF VolumeAsTold, VolumeTold
<1> QED
  BY <1>5, <1>6, <1>7, <1>8, ReturnHolds, ReturnKeepsKnowledge DEF SingleInv

-----------------------------------------------------------------------------
(* A handler goes on. *)

LEMMA MoveHolds ==
  ASSUME SingleInv, NEW w \in Workers, NEW s \in Request, GoesOn(work[w], s), Holds(work[w], s),
         work' = [work EXCEPT ![w] = s], UNCHANGED volumeLocks
  PROVE  /\ \A u \in Workers : u # w => work'[u] = work[u]
         /\ work'[w] = s /\ work' \in [Workers -> Request]
         /\ LocksOK' /\ RangesHeld' /\ IPAllocatorTypeOK'
<1>1. work \in [Workers -> Request] /\ pendingIPRanges \subseteq Range
  BY RequestKnows
<1>2. /\ \A u \in Workers : u # w => work'[u] = work[u]
      /\ work'[w] = s /\ work' \in [Workers -> Request]
  BY <1>1
<1>3. IPAllocatorTypeOK'
  BY <1>1 DEF Holds, IPAllocatorTypeOK
<1>4. LocksOK'
  <2>1. LocksOK
    BY DEF SingleInv
  <2>2. \A u \in Workers : /\ work'[u].vol = work[u].vol
                           /\ Locking(work'[u].pc) <=> Locking(work[u].pc)
    BY <1>2, PcsApart DEF GoesOn, SameHandler
  <2> QED
    BY <2>1, <2>2 DEF LocksOK, Locking
<1>5. RangesHeld'
  <2>1. RangesHeld
    BY DEF SingleInv
  <2>2. CASE s.range = work[w].range /\ UNCHANGED pendingIPRanges
    <3>1. \A u \in Workers : work'[u].range = work[u].range
      BY <1>2, <2>2
    <3> QED
      BY <2>1, <2>2, <3>1 DEF RangesHeld, Reserving, AddressesOf
  <2>3. CASE /\ s.range \in Range /\ \A range \in pendingIPRanges : ~IsOverlap(s.range, range)
             /\ pendingIPRanges' = pendingIPRanges \cup {s.range}
    <3>1. ASSUME NEW u \in Reserving', u # w
          PROVE  /\ u \in Reserving /\ work'[u].range = work[u].range
                 /\ work[u].range \in pendingIPRanges
                 /\ AddressesOf(work'[u].range) \cap AddressesOf(s.range) = {}
      <4>1. u \in Reserving /\ work'[u].range = work[u].range /\ work[u].range \in pendingIPRanges
        BY <1>2, <2>1, <3>1 DEF Reserving, RangesHeld
      <4>2. AddressesOf(s.range) \cap AddressesOf(work[u].range) = {}
        BY <1>1, <2>3, <4>1, OverlapIsSharing
      <4> QED
        BY <4>1, <4>2
    <3>2. \A u \in Reserving' : work'[u].range \in pendingIPRanges'
      BY <1>2, <2>3, <3>1
    <3>3. ASSUME NEW u \in Reserving', NEW x \in Reserving', u # x
          PROVE  AddressesOf(work'[u].range) \cap AddressesOf(work'[x].range) = {}
      <4>1. CASE u = w
        BY <1>2, <3>1, <3>3, <4>1
      <4>2. CASE x = w
        BY <1>2, <3>1, <3>3, <4>2
      <4>3. CASE u # w /\ x # w
        BY <2>1, <3>1, <3>3, <4>3 DEF RangesHeld
      <4> QED
        BY <4>1, <4>2, <4>3
    <3> QED
      BY <3>2, <3>3 DEF RangesHeld, AddressesOf
  <2> QED
    BY <2>2, <2>3 DEF Holds
<1> QED
  BY <1>2, <1>3, <1>4, <1>5

LEMMA MoveKeeps ==
  ASSUME SingleInv, NEW w \in Workers, Moves(w), faults' \in Nat
  PROVE  SingleInv'
<1>1. PICK s \in Request : /\ GoesOn(work[w], s) /\ Holds(work[w], s)
                           /\ work' = [work EXCEPT ![w] = s]
  BY DEF Moves
<1>2. UNCHANGED <<filer, backup, ops, volumeLocks, pv, content>>
  BY DEF Moves, cloudVars
<1>3. /\ \A u \in Workers : u # w => work'[u] = work[u]
      /\ work'[w] = s /\ work' \in [Workers -> Request]
      /\ LocksOK' /\ RangesHeld' /\ IPAllocatorTypeOK'
  BY <1>1, <1>2, MoveHolds
<1>4. TypeOK'
  BY <1>2, <1>3 DEF SingleInv, TypeOK, CloudTypeOK
<1>5. ASSUME NEW u \in Workers PROVE RequestOK(work[u])' /\ HandlerKnows(work[u])'
  <2>1. RequestOK(work[u]) /\ HandlerKnows(work[u])
    BY RequestKnows
  <2>2. CASE u # w
    <3>1. work'[u] = work[u]
      BY <1>3, <2>2
    <3> QED
      BY <1>2, <2>1, <3>1 DEF RequestOK, HandlerKnows
  <2>3. CASE u = w
    <3> DEFINE r == work[w]
    <3>1. RequestOK(r) /\ HandlerKnows(r) /\ GoesOn(r, s) /\ work'[u] = s
      BY <1>1, <1>3, <2>1, <2>3
    <3> HIDE DEF r
    <3>2. s.pc \notin {"create.wait", "modify.wait", "unsnapshot.wait"}
      BY <3>1 DEF GoesOn, Waiting
    <3>3. /\ r.vol = s.vol /\ r.snap = s.snap /\ r.pc # "idle"
          /\ s.pc \in CreatePcs => r.pc \in CreatePcs
          /\ s.pc \in DeletePcs => r.pc \in DeletePcs
          /\ s.pc \in ExpandPcs \cup ModifyPcs => r.pc \in ExpandPcs \cup ModifyPcs
          /\ s.pc \in SnapshotPcs => r.pc \in SnapshotPcs
          /\ s.pc \in UnsnapshotPcs => r.pc \in UnsnapshotPcs
      BY <3>1, PcsApart DEF GoesOn, SameHandler
    <3>4. RequestOK(work[u])'
      BY <3>1, <3>2, <3>3 DEF RequestOK
    <3>5. s.pc = "create.read" => filer[s.vol].state = "READY"
      BY <3>1, <3>3 DEF GoesOn, HandlerKnows
    <3>6. HandlerKnows(work[u])'
      BY <1>2, <3>1, <3>2, <3>3, <3>5 DEF HandlerKnows
    <3> QED
      BY <3>4, <3>6
  <2> QED
    BY <2>2, <2>3
<1>6. /\ SnapshotAsTold' /\ (\A v \in Vols : VolumeAsTold(v)')
      /\ \A o \in ops' : OpShows(o)'
  BY <1>2 DEF SingleInv, SnapshotAsTold, VolumeAsTold, OpShows
<1> QED
  BY <1>3, <1>4, <1>5, <1>6 DEF SingleInv

-----------------------------------------------------------------------------
(* A handler begins. *)

LEMMA AskEffect ==
  ASSUME SingleInv, NEW r, Asks(r)
  PROVE  /\ pv' \in [Vols -> PVRec]
         /\ \A v \in Vols : /\ pv'[v].phase = pv[v].phase /\ pv'[v].cap = pv[v].cap
                            /\ pv'[v].tuned = pv[v].tuned
                            /\ \/ pv'[v].asked = pv[v].asked
                               \/ v = r.vol /\ r.pc = "expand.get" /\ pv'[v].asked = r.size
<1>1. pv \in [Vols -> PVRec]
  BY DEF SingleInv, TypeOK
<1>2. r \in Request /\ r.vol \in Vols
  BY DEF Asks
<1>3. CASE UNCHANGED pv
  BY <1>1, <1>3
<1>4. CASE r.pc = "expand.get" /\ pv' = [pv EXCEPT ![r.vol].asked = r.size]
  <2>1. r.size \in Nat /\ pv[r.vol] \in PVRec
    BY <1>1, <1>2 DEF Request
  <2>2. pv'[r.vol] = [pv[r.vol] EXCEPT !.asked = r.size] /\ \A v \in Vols : v # r.vol => pv'[v] = pv[v]
    BY <1>1, <1>2, <1>4
  <2>3. /\ pv'[r.vol] \in PVRec /\ pv'[r.vol].phase = pv[r.vol].phase
        /\ pv'[r.vol].cap = pv[r.vol].cap /\ pv'[r.vol].tuned = pv[r.vol].tuned
        /\ pv'[r.vol].asked = r.size
    BY <2>1, <2>2 DEF PVRec
  <2> QED
    BY <1>1, <1>2, <1>4, <2>2, <2>3
<1> QED
  BY <1>3, <1>4 DEF Asks

LEMMA BeginKeeps ==
  ASSUME SingleInv, NEW w \in Workers, Begins(w), faults' \in Nat
  PROVE  SingleInv'
<1>1. PICK r : Asks(r) /\ Accept(w, r)
  BY DEF Begins
<1>2. /\ work[w] = Idle /\ UNCHANGED <<filer, backup, ops, pendingIPRanges, content>>
      /\ Locking(r.pc) => r.vol \notin volumeLocks
      /\ volumeLocks' = IF Locking(r.pc) THEN volumeLocks \cup {r.vol} ELSE volumeLocks
      /\ work' = [work EXCEPT ![w] = r]
  BY <1>1 DEF Accept, cloudVars
<1>3. /\ r \in Request /\ r.range = NoRange /\ r.vol \in Vols
  BY <1>1 DEF Asks
<1>4. /\ work \in [Workers -> Request] /\ volumeLocks \in SUBSET Vols
      /\ ~Locking(work[w].pc) /\ work[w].range = NoRange
  BY <1>2, RequestKnows, IdleOK
<1>5. /\ \A u \in Workers : u # w => work'[u] = work[u]
      /\ work'[w] = r /\ work' \in [Workers -> Request]
  BY <1>2, <1>3, <1>4
<1>6. TypeOK'
  BY <1>2, <1>3, <1>4, <1>5, <1>1, AskEffect DEF SingleInv, TypeOK, CloudTypeOK, IPAllocatorTypeOK
<1>7. LocksOK'
  <2>1. LocksOK
    BY DEF SingleInv
  <2>2. ASSUME NEW u \in Workers, Locking(work'[u].pc) PROVE work'[u].vol \in volumeLocks'
    BY <1>2, <1>5, <2>1, <2>2 DEF LocksOK
  <2>3. ASSUME NEW u \in Workers, NEW x \in Workers, u # x, Locking(work'[u].pc), Locking(work'[x].pc)
        PROVE  work'[u].vol # work'[x].vol
    BY <1>2, <1>5, <2>1, <2>3 DEF LocksOK
  <2> QED
    BY <2>2, <2>3 DEF LocksOK, Locking
<1>8. RangesHeld'
  <2>1. \A u \in Workers : work'[u].range = work[u].range
    BY <1>3, <1>4, <1>5
  <2> QED
    BY <1>2, <2>1 DEF SingleInv, RangesHeld, Reserving, AddressesOf
<1>9. \A v \in Vols : /\ pv'[v].phase = pv[v].phase /\ pv'[v].cap = pv[v].cap
                      /\ pv'[v].tuned = pv[v].tuned
  BY <1>1, AskEffect
<1>10. ASSUME NEW u \in Workers PROVE RequestOK(work[u])' /\ HandlerKnows(work[u])'
  <2>1. CASE u # w
    <3>1. work'[u] = work[u] /\ RequestOK(work[u]) /\ HandlerKnows(work[u])
      BY <1>5, <2>1, RequestKnows
    <3>2. work[u].pc # "idle" => work[u].vol \in Vols
      BY RequestKnows
    <3> QED
      BY <1>2, <1>9, <3>1, <3>2, PcsApart DEF RequestOK, HandlerKnows
  <2>2. CASE u = w
    <3>1. work'[u] = r
      BY <1>5, <2>2
    <3>2. /\ r.pc = "create.get" => pv[r.vol].phase = "wanted"
          /\ r.pc = "delete.get" => pv[r.vol].phase = "released"
          /\ r.pc \in {"expand.get", "modify.get"} => pv[r.vol].phase = "bound" /\ filer[r.vol].state = "READY"
          /\ r.pc = "snapshot.get" => content[r.snap] = "wanted"
          /\ r.pc = "unsnapshot.get" => content[r.snap] = "released"
          /\ r.pc \in {"snapshot.get", "unsnapshot.get"} => r.snap \in Snaps /\ r.vol = SourceOf[r.snap]
          /\ r.pc \in {"create.get", "delete.get", "expand.get", "modify.get", "snapshot.get", "unsnapshot.get"}
      BY <1>1, <1>3 DEF Asks, SingleInv, VolumeAsTold
    <3>3. RequestOK(work[u])'
      BY <1>3, <3>1, <3>2 DEF RequestOK, SnapshotPcs, UnsnapshotPcs
    <3>4. /\ r.pc \in CreatePcs => r.pc = "create.get"
          /\ r.pc \in DeletePcs => r.pc = "delete.get"
          /\ r.pc \in ExpandPcs \cup ModifyPcs => r.pc \in {"expand.get", "modify.get"}
          /\ r.pc \in SnapshotPcs => r.pc = "snapshot.get"
          /\ r.pc \in UnsnapshotPcs => r.pc = "unsnapshot.get"
      BY <3>2 DEF CreatePcs, DeletePcs, ExpandPcs, ModifyPcs, SnapshotPcs, UnsnapshotPcs
    <3>5. HandlerKnows(work[u])'
      BY <1>2, <1>3, <1>9, <3>1, <3>2, <3>4 DEF HandlerKnows
    <3> QED
      BY <3>3, <3>5
  <2> QED
    BY <2>1, <2>2
<1>11. /\ SnapshotAsTold' /\ (\A v \in Vols : VolumeAsTold(v)')
  BY <1>2, <1>9 DEF SingleInv, SnapshotAsTold, VolumeAsTold
<1>12. ASSUME NEW o \in ops' PROVE OpShows(o)'
  <2>1. o \in Op /\ OpShows(o)
    BY <1>2, <1>12, RequestKnows DEF SingleInv
  <2>2. o.vol \in Vols
    BY <2>1 DEF Op
  <2> QED
    BY <1>2, <1>9, <2>1, <2>2 DEF OpShows
<1> QED
  BY <1>6, <1>7, <1>8, <1>10, <1>11, <1>12 DEF SingleInv

-----------------------------------------------------------------------------
(* The process ends, and the orchestrator gives something up. *)

LEMMA ProcessEndKeeps ==
  ASSUME SingleInv, ProcessEnds, faults' \in Nat
  PROVE  SingleInv'
<1>1. /\ work' = [w \in Workers |-> Idle] /\ volumeLocks' = {} /\ pendingIPRanges' = {}
      /\ UNCHANGED <<filer, backup, ops, pv, content>>
  BY DEF ProcessEnds, cloudVars
<1>2. \A w \in Workers : work'[w].pc = "idle" /\ work'[w].range = NoRange
  BY <1>1, IdleOK
<1>3. TypeOK'
  BY <1>1, IdleOK DEF SingleInv, TypeOK, CloudTypeOK, IPAllocatorTypeOK
<1>4. LocksOK' /\ RangesHeld'
  <2>1. \A w \in Workers : ~Locking(work'[w].pc)
    BY <1>2 DEF Locking
  <2> QED
    BY <1>2, <2>1 DEF LocksOK, RangesHeld, Reserving, Locking
<1>5. ASSUME NEW w \in Workers PROVE RequestOK(work[w])' /\ HandlerKnows(work[w])'
  BY <1>2, PcsApart DEF RequestOK, HandlerKnows
<1>6. /\ SnapshotAsTold' /\ (\A v \in Vols : VolumeAsTold(v)')
      /\ \A o \in ops' : OpShows(o)'
  BY <1>1 DEF SingleInv, SnapshotAsTold, VolumeAsTold, OpShows
<1> QED
  BY <1>3, <1>4, <1>5, <1>6 DEF SingleInv

LEMMA ReleasePVKeeps ==
  ASSUME SingleInv, NEW v \in Vols, ReleasePV(v)
  PROVE  /\ SingleInv' /\ pv[v].phase = "bound" /\ pv'[v].phase = "released"
         /\ pv'[v].cap = pv[v].cap /\ pv'[v].asked = pv[v].asked
         /\ \A u \in Vols : u # v => pv'[u] = pv[u]
<1>1. /\ pv[v].phase = "bound" /\ pv' = [pv EXCEPT ![v].phase = "released"]
      /\ UNCHANGED <<filer, backup, ops, pendingIPRanges, volumeLocks, work, content, faults>>
  BY DEF ReleasePV, cloudVars
<1>2. pv \in [Vols -> PVRec] /\ pv[v] \in PVRec
  BY DEF SingleInv, TypeOK
<1>3. /\ pv'[v] = [pv[v] EXCEPT !.phase = "released"]
      /\ \A u \in Vols : u # v => pv'[u] = pv[u]
  BY <1>1, <1>2
<1>4. /\ pv' \in [Vols -> PVRec] /\ pv'[v].phase = "released" /\ pv'[v].cap = pv[v].cap
      /\ pv'[v].tuned = pv[v].tuned /\ pv'[v].asked = pv[v].asked
  BY <1>1, <1>2, <1>3 DEF PVRec, Phases
<1>5. TypeOK' /\ LocksOK' /\ RangesHeld' /\ SnapshotAsTold'
  BY <1>1, <1>4 DEF SingleInv, TypeOK, CloudTypeOK, IPAllocatorTypeOK, LocksOK, RangesHeld, Reserving,
                    AddressesOf, SnapshotAsTold, Locking
<1>6. ASSUME NEW w \in Workers PROVE RequestOK(work[w])' /\ HandlerKnows(work[w])'
  <2>1. RequestOK(work[w]) /\ HandlerKnows(work[w]) /\ (work[w].pc # "idle" => work[w].vol \in Vols)
    BY RequestKnows
  <2> QED
    BY <1>1, <1>3, <1>4, <2>1, PcsApart DEF RequestOK, HandlerKnows
<1>7. ASSUME NEW o \in ops' PROVE OpShows(o)'
  <2>1. o \in Op /\ OpShows(o)
    BY <1>1, <1>7 DEF SingleInv, TypeOK, CloudTypeOK
  <2>2. o.vol \in Vols
    BY <2>1 DEF Op
  <2>4. o.type = "delete" => o.vol # v
    BY <1>1, <2>1 DEF OpShows
  <2>3. o.type = "create" => o.vol # v
    BY <1>1, <2>1 DEF OpShows
  <2> QED
    BY <1>1, <1>3, <1>4, <2>1, <2>2, <2>3, <2>4 DEF OpShows
<1>8. \A u \in Vols : VolumeAsTold(u)'
  BY <1>1, <1>3, <1>4 DEF SingleInv, VolumeAsTold
<1> QED
  BY <1>1, <1>3, <1>4, <1>5, <1>6, <1>7, <1>8 DEF SingleInv

LEMMA ReleaseContentKeeps ==
  ASSUME SingleInv, NEW s \in Snaps, ReleaseContent(s)
  PROVE  SingleInv'
<1>1. /\ content[s] = "bound" /\ content' = [content EXCEPT ![s] = "released"]
      /\ UNCHANGED <<filer, backup, ops, pendingIPRanges, volumeLocks, work, pv, faults>>
  BY DEF ReleaseContent, cloudVars
<1>2. content \in [Snaps -> Phases]
  BY DEF SingleInv, TypeOK
<1>3. /\ content' \in [Snaps -> Phases] /\ content'[s] = "released"
      /\ \A t \in Snaps : t # s => content'[t] = content[t]
  BY <1>1, <1>2 DEF Phases
<1>4. TypeOK' /\ LocksOK' /\ RangesHeld'
  BY <1>1, <1>3 DEF SingleInv, TypeOK, CloudTypeOK, IPAllocatorTypeOK, LocksOK, RangesHeld, Reserving,
                    AddressesOf, Locking
<1>5. ASSUME NEW w \in Workers PROVE RequestOK(work[w])' /\ HandlerKnows(work[w])'
  <2>1. RequestOK(work[w]) /\ HandlerKnows(work[w])
    BY RequestKnows
  <2> QED
    BY <1>1, <1>3, <2>1, PcsApart DEF RequestOK, HandlerKnows
<1>6. ASSUME NEW o \in ops' PROVE OpShows(o)'
  <2>1. o \in Op /\ OpShows(o)
    BY <1>1, <1>6 DEF SingleInv, TypeOK, CloudTypeOK
  <2>2. o.type \in BackupOps => o.snap \in Snaps
    BY <2>1 DEF Op, InstanceOps, BackupOps, UpdateOps
  <2>3. o.type \in BackupOps => o.snap # s
    BY <1>1, <2>1 DEF OpShows, BackupOps
  <2> QED
    BY <1>1, <1>3, <2>1, <2>2, <2>3 DEF OpShows, BackupOps
<1>7. SnapshotAsTold' /\ (\A v \in Vols : VolumeAsTold(v)')
  BY <1>1, <1>3 DEF SingleInv, SnapshotAsTold, VolumeAsTold
<1> QED
  BY <1>4, <1>5, <1>6, <1>7 DEF SingleInv

-----------------------------------------------------------------------------
(* An operation starts. *)

\* What Filestore makes of a request it takes.
LEMMA StartEffect ==
  ASSUME CloudTypeOK, NEW o \in Op, NEW new, o.type = "create" => new \in InstanceRec, StartOp(o, new)
  PROVE  /\ CloudTypeOK' /\ Accepts(o) /\ ops' = ops \cup {o}
         /\ \A v \in Vols : v # o.vol \/ o.type \notin {"create", "delete"} => filer'[v] = filer[v]
         /\ o.type = "create" => filer[o.vol].state = "ABSENT" /\ filer'[o.vol] = new
         /\ o.type = "delete" =>
              /\ filer[o.vol].state \in {"READY", "ERROR"} /\ filer'[o.vol].state = "DELETING"
              /\ filer'[o.vol].cap = filer[o.vol].cap /\ filer'[o.vol].tuned = filer[o.vol].tuned
         /\ o.type \in UpdateOps => filer[o.vol].state = "READY"
         /\ \A s \in Snaps : s # o.snap \/ o.type \notin BackupOps => backup'[s] = backup[s]
         /\ o.type = "createBackup" => backup[o.snap] = "ABSENT" /\ backup'[o.snap] = "CREATING"
         /\ o.type = "deleteBackup" => backup[o.snap] = "READY" /\ backup'[o.snap] = "DELETING"
<1>1. /\ filer \in [Vols -> InstanceRec] /\ backup \in [Snaps -> BackupStates] /\ ops \in SUBSET Op
      /\ Accepts(o) /\ ops' = ops \cup {o}
  BY DEF CloudTypeOK, StartOp
<1>2. /\ o.vol \in Vols /\ filer[o.vol] \in InstanceRec
      /\ \/ o.type \in InstanceOps /\ o.snap = NoSnap
         \/ o.type \in BackupOps /\ o.snap \in Snaps
  BY <1>1 DEF Op
<1>3. /\ o.type \in BackupOps => o.type \notin {"create", "delete"} \cup UpdateOps
      /\ o.type \in BackupOps <=> o.snap # NoSnap
  BY <1>2, SingleShareFilestoreAssumption DEF InstanceOps, BackupOps, UpdateOps
<1>4. filer' = [filer EXCEPT ![o.vol] =
        CASE o.type = "create" -> new
          [] o.type = "delete" -> [filer[o.vol] EXCEPT !.state = "DELETING"]
          [] OTHER -> filer[o.vol]]
  BY <1>1, <1>2 DEF StartOp
<1>5. /\ \A v \in Vols : v # o.vol => filer'[v] = filer[v]
      /\ filer' = [filer EXCEPT ![o.vol] = filer'[o.vol]]
      /\ o.type \notin {"create", "delete"} => filer'[o.vol] = filer[o.vol]
      /\ o.type = "create" => filer'[o.vol] = new
      /\ o.type = "delete" => filer'[o.vol] = [filer[o.vol] EXCEPT !.state = "DELETING"]
  BY <1>1, <1>2, <1>4
<1>6. ASSUME o.type = "delete"
      PROVE  /\ filer'[o.vol].state = "DELETING" /\ filer'[o.vol].cap = filer[o.vol].cap
             /\ filer'[o.vol].tuned = filer[o.vol].tuned /\ filer'[o.vol] \in InstanceRec
  BY <1>2, <1>5, <1>6 DEF InstanceRec, InstanceStates
<1>7. filer' \in [Vols -> InstanceRec]
  <2>1. filer'[o.vol] \in InstanceRec
    BY <1>2, <1>5, <1>6
  <2> QED
    BY <1>1, <1>2, <1>5, <2>1
<1>8. /\ o.type \notin BackupOps => backup' = backup
      /\ o.type \in BackupOps => backup' = [backup EXCEPT ![o.snap] =
           IF o.type = "createBackup" THEN "CREATING" ELSE "DELETING"]
  BY <1>3 DEF StartOp
<1>9. /\ backup' \in [Snaps -> BackupStates]
      /\ \A s \in Snaps : s # o.snap \/ o.type \notin BackupOps => backup'[s] = backup[s]
      /\ o.type = "createBackup" => backup'[o.snap] = "CREATING"
      /\ o.type = "deleteBackup" => backup'[o.snap] = "DELETING"
  <2>1. "createBackup" \in BackupOps /\ "deleteBackup" \in BackupOps
    BY DEF BackupOps
  <2>2. CASE o.type \notin BackupOps
    BY <1>1, <1>8, <2>1, <2>2
  <2>3. CASE o.type \in BackupOps
    <3>1. o.snap \in Snaps
      BY <1>2, <1>3, <2>3, SingleShareFilestoreAssumption
    <3> QED
      BY <1>1, <1>8, <2>3, <3>1 DEF BackupStates
  <2> QED
    BY <2>2, <2>3
<1>10. /\ o.type = "create" => filer[o.vol].state = "ABSENT"
       /\ o.type = "delete" => filer[o.vol].state \in {"READY", "ERROR"}
       /\ o.type \in UpdateOps => filer[o.vol].state = "READY"
       /\ o.type = "createBackup" => backup[o.snap] = "ABSENT"
       /\ o.type = "deleteBackup" => backup[o.snap] = "READY"
  BY <1>1 DEF Accepts, UpdateOps
<1>11. CloudTypeOK'
  BY <1>1, <1>7, <1>9 DEF CloudTypeOK
<1> QED
  BY <1>1, <1>5, <1>6, <1>9, <1>10, <1>11

\* The request of each handler, as a request to Filestore.
LEMMA RequestedOp ==
  ASSUME SingleInv, NEW w \in Workers, NEW o, NEW new, NEW to, Requests(work[w], o, new, to)
  PROVE  LET r == work[w] IN
           /\ o \in Op /\ o.vol = r.vol /\ to \in Waiting /\ SameHandler(r.pc, to)
           /\ r.vol \in Vols /\ r.pc \notin Waiting
           /\ o.type = "create" => /\ r.pc = "create.start" /\ to = "create.wait" /\ o = InstanceOp("create", r.vol, 0)
                                   /\ new \in InstanceRec /\ new.state = "CREATING" /\ new.cap = BaseSize
           /\ to = "create.wait" => o = InstanceOp("create", r.vol, 0)
           /\ o.type = "delete" <=> r.pc = "delete.start"
           /\ to = "delete.wait" <=> r.pc = "delete.start"
           /\ o.type = "resize" => r.pc = "expand.start" /\ o.cap = r.size
           /\ o.type = "tune" => r.pc = "modify.start"
           /\ to = "modify.wait" => o = InstanceOp("tune", r.vol, 0)
           /\ o.type \in BackupOps => o.snap = r.snap /\ r.snap \in Snaps /\ r.vol = SourceOf[r.snap]
           /\ o.type = "createBackup" => r.pc = "snapshot.start"
           /\ o.type = "deleteBackup" => r.pc = "unsnapshot.start"
           /\ to = "unsnapshot.wait" => o = BackupOp("deleteBackup", r.vol, r.snap)
<1> DEFINE r == work[w]
<1>1. r \in Request /\ RequestOK(r)
  BY RequestKnows
<1>2. r.pc # "idle" /\ r.vol \in Vols
  BY <1>1 DEF Requests, RequestOK
<1>3. r.size \in Nat /\ r.range \in Range \cup {NoRange}
  BY <1>1 DEF Request
<1>4. r.pc \in {"snapshot.start", "unsnapshot.start"} => r.snap \in Snaps /\ r.vol = SourceOf[r.snap]
  BY <1>1 DEF RequestOK, SnapshotPcs, UnsnapshotPcs
<1> HIDE DEF r
<1>5. CASE /\ r.pc = "create.start" /\ to = "create.wait" /\ o = InstanceOp("create", r.vol, 0)
           /\ new = [state |-> "CREATING", cap |-> BaseSize, tuned |-> FALSE, range |-> r.range]
  <2>1. /\ o \in Op /\ o.type = "create" /\ o.vol = r.vol /\ o.snap = NoSnap
    BY <1>2, <1>5 DEF InstanceOp, Op, InstanceOps
  <2>2. new \in InstanceRec /\ new.state = "CREATING" /\ new.cap = BaseSize
    BY <1>3, <1>5, SingleShareAssumption DEF InstanceRec, InstanceStates
  <2> QED
    BY <1>2, <1>5, <2>1, <2>2 DEF Waiting, SameHandler, CreatePcs, BackupOps, r
<1>6. CASE r.pc = "delete.start" /\ to = "delete.wait" /\ o = InstanceOp("delete", r.vol, 0)
  <2>1. o \in Op /\ o.type = "delete" /\ o.vol = r.vol
    BY <1>2, <1>6 DEF InstanceOp, Op, InstanceOps
  <2> QED
    BY <1>2, <1>6, <2>1 DEF Waiting, SameHandler, DeletePcs, BackupOps, r
<1>7. CASE r.pc = "expand.start" /\ to = "expand.wait" /\ o = InstanceOp("resize", r.vol, r.size)
  <2>1. o \in Op /\ o.type = "resize" /\ o.vol = r.vol /\ o.cap = r.size
    BY <1>2, <1>3, <1>7 DEF InstanceOp, Op, InstanceOps, UpdateOps
  <2> QED
    BY <1>2, <1>7, <2>1 DEF Waiting, SameHandler, ExpandPcs, BackupOps, r
<1>8. CASE r.pc = "modify.start" /\ to = "modify.wait" /\ o = InstanceOp("tune", r.vol, 0)
  <2>1. o \in Op /\ o.type = "tune" /\ o.vol = r.vol
    BY <1>2, <1>8 DEF InstanceOp, Op, InstanceOps, UpdateOps
  <2> QED
    BY <1>2, <1>8, <2>1 DEF Waiting, SameHandler, ModifyPcs, BackupOps, r
<1>9. CASE r.pc = "snapshot.start" /\ to = "snapshot.wait" /\ o = BackupOp("createBackup", r.vol, r.snap)
  <2>1. o \in Op /\ o.type = "createBackup" /\ o.vol = r.vol /\ o.snap = r.snap
    BY <1>2, <1>4, <1>9 DEF BackupOp, Op, BackupOps
  <2> QED
    BY <1>2, <1>4, <1>9, <2>1 DEF Waiting, SameHandler, SnapshotPcs, BackupOps, r
<1>10. CASE r.pc = "unsnapshot.start" /\ to = "unsnapshot.wait" /\ o = BackupOp("deleteBackup", r.vol, r.snap)
  <2>1. o \in Op /\ o.type = "deleteBackup" /\ o.vol = r.vol /\ o.snap = r.snap
    BY <1>2, <1>4, <1>10 DEF BackupOp, Op, BackupOps
  <2> QED
    BY <1>2, <1>4, <1>10, <2>1 DEF Waiting, SameHandler, UnsnapshotPcs, BackupOps, r
<1> QED
  BY <1>5, <1>6, <1>7, <1>8, <1>9, <1>10 DEF Requests, r

\* What starting an operation for the request of w does.
LEMMA StartFacts ==
  ASSUME SingleInv, NEW w \in Workers, Starts(w)
  PROVE  \E o, new, to :
           /\ o \in Op /\ Requests(work[w], o, new, to) /\ Start(w, o, new, to) /\ to \in Pcs
           /\ \A u \in Workers : u # w => work'[u] = work[u]
           /\ work' \in [Workers -> Request]
           /\ LET r == work[w]
                  s == work'[w]
              IN /\ s.pc = to /\ s.op = o /\ s.result = "none" /\ s.vol = r.vol /\ s.snap = r.snap
                 /\ s.size = r.size /\ s.range = r.range
<1>1. PICK o, new, to : Requests(work[w], o, new, to) /\ Start(w, o, new, to)
  BY DEF Starts
<1>2. o \in Op /\ to \in Waiting
  BY <1>1, RequestedOp
<1>3. to \in Pcs
  BY <1>2 DEF Waiting, Pcs, CreatePcs, DeletePcs, ExpandPcs, ModifyPcs, SnapshotPcs, UnsnapshotPcs
<1> DEFINE s == [work[w] EXCEPT !.pc = to, !.op = o, !.result = "none"]
<1>4. work \in [Workers -> Request] /\ work[w] \in Request
  BY RequestKnows
<1>5. work' = [work EXCEPT ![w] = s]
  BY <1>1, <1>4 DEF Start
<1>6. /\ s \in Request /\ s.pc = to /\ s.op = o /\ s.result = "none" /\ s.vol = work[w].vol
      /\ s.snap = work[w].snap /\ s.size = work[w].size /\ s.range = work[w].range
  BY <1>2, <1>3, <1>4 DEF Request
<1> HIDE DEF s
<1>7. (\A u \in Workers : u # w => work'[u] = work[u]) /\ work' \in [Workers -> Request] /\ work'[w] = s
  BY <1>4, <1>5, <1>6
<1> QED
  BY <1>1, <1>2, <1>3, <1>6, <1>7

LEMMA StartKeeps ==
  ASSUME SingleInv, NEW w \in Workers, Starts(w), faults' \in Nat
  PROVE  SingleInv'
<1> DEFINE r == work[w]
           s == work'[w]
<1>1. PICK o, new, to :
        /\ o \in Op /\ Requests(r, o, new, to) /\ Start(w, o, new, to) /\ to \in Pcs
        /\ \A u \in Workers : u # w => work'[u] = work[u]
        /\ work' \in [Workers -> Request]
        /\ s.pc = to /\ s.op = o /\ s.result = "none" /\ s.vol = r.vol /\ s.snap = r.snap
        /\ s.size = r.size /\ s.range = r.range
  BY StartFacts
<1>2. /\ StartOp(o, new) /\ UNCHANGED <<pendingIPRanges, volumeLocks, pv, content>>
  BY <1>1 DEF Start
<1>3. /\ o \in Op /\ o.vol = r.vol /\ r.vol \in Vols /\ to \in Waiting /\ SameHandler(r.pc, to)
      /\ o.type = "create" => r.pc = "create.start" /\ new \in InstanceRec /\ new.state = "CREATING"
      /\ o.type \in {"create", "delete"} => o.cap = 0
      /\ to = "create.wait" => o = InstanceOp("create", r.vol, 0)
      /\ o.type = "delete" => r.pc = "delete.start"
      /\ o.type = "resize" => r.pc = "expand.start"
      /\ o.type = "tune" => r.pc = "modify.start"
      /\ to = "modify.wait" => o = InstanceOp("tune", r.vol, 0)
      /\ o.type \in BackupOps => o.snap = r.snap /\ r.snap \in Snaps /\ r.vol = SourceOf[r.snap]
      /\ o.type = "createBackup" => r.pc = "snapshot.start"
      /\ o.type = "deleteBackup" => r.pc = "unsnapshot.start"
      /\ to = "unsnapshot.wait" => o = BackupOp("deleteBackup", r.vol, r.snap)
  <2>1. Requests(work[w], o, new, to)
    BY <1>1
  <2>5. o \in Op /\ o.vol = r.vol /\ r.vol \in Vols /\ to \in Waiting /\ SameHandler(r.pc, to)
    BY <2>1, RequestedOp
  <2>2. o.type = "create" => r.pc = "create.start" /\ new \in InstanceRec /\ new.state = "CREATING"
    BY <2>1, RequestedOp
  <2>6. o.type \in {"create", "delete"} => o.cap = 0
    BY <2>1 DEF Requests, InstanceOp, BackupOp
  <2>7. to = "create.wait" => o = InstanceOp("create", r.vol, 0)
    BY <2>1 DEF Requests
  <2>3. /\ o.type = "delete" => r.pc = "delete.start"
        /\ o.type = "resize" => r.pc = "expand.start"
        /\ o.type = "tune" => r.pc = "modify.start"
        /\ to = "modify.wait" => o = InstanceOp("tune", r.vol, 0)
    BY <2>1, RequestedOp
  <2>4. /\ o.type \in BackupOps => o.snap = r.snap /\ r.snap \in Snaps /\ r.vol = SourceOf[r.snap]
        /\ o.type = "createBackup" => r.pc = "snapshot.start"
        /\ o.type = "deleteBackup" => r.pc = "unsnapshot.start"
        /\ to = "unsnapshot.wait" => o = BackupOp("deleteBackup", r.vol, r.snap)
    BY <2>1, RequestedOp
  <2> HIDE DEF r, s
  <2> QED
    BY <2>2, <2>3, <2>4, <2>5, <2>6, <2>7
<1>4. CloudTypeOK /\ RequestOK(r) /\ HandlerKnows(r)
  BY RequestKnows DEF SingleInv, TypeOK
<1>5. /\ CloudTypeOK' /\ ops' = ops \cup {o}
      /\ \A v \in Vols : v # o.vol \/ o.type \notin {"create", "delete"} => filer'[v] = filer[v]
      /\ o.type = "create" => filer[o.vol].state = "ABSENT" /\ filer'[o.vol] = new
      /\ o.type = "delete" => filer[o.vol].state \in {"READY", "ERROR"} /\ filer'[o.vol].state = "DELETING"
      /\ \A t \in Snaps : t # o.snap \/ o.type \notin BackupOps => backup'[t] = backup[t]
      /\ o.type = "createBackup" => backup[o.snap] = "ABSENT" /\ backup'[o.snap] = "CREATING"
      /\ o.type = "deleteBackup" => backup[o.snap] = "READY" /\ backup'[o.snap] = "DELETING"
  BY <1>2, <1>3, <1>4, StartEffect
<1>6. Locking(s.pc) <=> Locking(r.pc)
  BY <1>1, <1>3, PcsApart DEF SameHandler
<1>7. \A u \in Workers : u # w /\ Locking(work[u].pc) /\ Locking(r.pc) => work[u].vol # r.vol
  BY DEF SingleInv, LocksOK
<1>8. TypeOK'
  BY <1>1, <1>2, <1>5 DEF SingleInv, TypeOK, IPAllocatorTypeOK
<1>9. LocksOK'
  <2>1. \A u \in Workers : /\ work'[u].vol = work[u].vol
                           /\ Locking(work'[u].pc) <=> Locking(work[u].pc)
    BY <1>1, <1>6
  <2> QED
    BY <1>2, <2>1 DEF SingleInv, LocksOK, Locking
<1>10. RangesHeld'
  <2>1. \A u \in Workers : work'[u].range = work[u].range
    BY <1>1
  <2> QED
    BY <1>2, <2>1 DEF SingleInv, RangesHeld, Reserving, AddressesOf
<1>11. /\ o.type = "create" => pv[o.vol].phase = "wanted"
       /\ o.type = "delete" => pv[o.vol].phase = "released"
       /\ o.type \in UpdateOps => pv[o.vol].phase # "wanted"
       /\ o.type = "createBackup" => content[o.snap] = "wanted"
       /\ o.type = "deleteBackup" => content[o.snap] = "released"
  <2>1. /\ o.type = "create" => r.pc \in CreatePcs
        /\ o.type = "delete" => r.pc \in DeletePcs
        /\ o.type \in UpdateOps => r.pc \in ExpandPcs \cup ModifyPcs
        /\ o.type = "createBackup" => r.pc \in SnapshotPcs
        /\ o.type = "deleteBackup" => r.pc \in UnsnapshotPcs
    BY <1>3 DEF CreatePcs, DeletePcs, ExpandPcs, ModifyPcs, SnapshotPcs, UnsnapshotPcs, UpdateOps
  <2>2. o.type = "deleteBackup" => o.snap = r.snap /\ r.snap \in Snaps
    BY <1>3 DEF BackupOps
  <2>3. o.type = "createBackup" => o.snap = r.snap
    BY <1>3 DEF BackupOps
  <2>4. o.type = "deleteBackup" => content[r.snap] # "deleted"
    BY <1>5, <2>2 DEF SingleInv, SnapshotAsTold
  <2> QED
    BY <1>3, <1>4, <2>1, <2>2, <2>3, <2>4 DEF HandlerKnows
<1>12. "createBackup" \in BackupOps /\ "deleteBackup" \in BackupOps
  BY DEF BackupOps
<1>13. o.type \in BackupOps => o.type = "createBackup" \/ o.type = "deleteBackup"
  BY DEF BackupOps
<1> HIDE DEF r, s
<1>14. ASSUME NEW p \in ops' PROVE OpShows(p)'
  <2>1. CASE p = o
    BY <1>2, <1>3, <1>5, <1>11, <2>1 DEF OpShows
  <2>2. CASE p \in ops
    <3>1. p \in Op /\ OpShows(p)
      BY <2>2 DEF SingleInv, TypeOK, CloudTypeOK
    <3>2. p.vol \in Vols /\ (p.type \in BackupOps => p.snap \in Snaps)
      BY <3>1 DEF Op, InstanceOps, BackupOps, UpdateOps
    <3>3. p.type \in {"create", "delete"} => filer'[p.vol] = filer[p.vol]
      BY <1>5, <3>1, <3>2 DEF OpShows
    <3>4. p.type \in BackupOps => backup'[p.snap] = backup[p.snap]
      BY <1>5, <1>13, <3>1, <3>2 DEF OpShows, BackupOps
    <3> QED
      BY <1>2, <1>12, <3>1, <3>3, <3>4 DEF OpShows
  <2> QED
    BY <1>5, <1>14, <2>1, <2>2
<1>15. ASSUME NEW v \in Vols PROVE VolumeAsTold(v)'
  <2>1. VolumeAsTold(v)
    BY DEF SingleInv
  <2> QED
    BY <1>2, <1>5, <1>11, <2>1 DEF VolumeAsTold
<1>16. SnapshotAsTold'
  BY <1>2, <1>5, <1>11, <1>13 DEF SnapshotAsTold, SingleInv
<1>17. ASSUME NEW u \in Workers PROVE RequestOK(work[u])' /\ HandlerKnows(work[u])'
  <2>1. CASE u = w
    <3>1. /\ s.pc \in CreatePcs => r.pc \in CreatePcs
          /\ s.pc \in DeletePcs => r.pc \in DeletePcs
          /\ s.pc \in ExpandPcs => r.pc \in ExpandPcs
          /\ s.pc \in ModifyPcs => r.pc \in ModifyPcs
          /\ s.pc \in SnapshotPcs => r.pc \in SnapshotPcs
          /\ s.pc \in UnsnapshotPcs => r.pc \in UnsnapshotPcs
      BY <1>1, <1>3, PcsApart DEF SameHandler
    <3>2. RequestOK(s) /\ work'[u] = s
      BY <1>1, <1>3, <1>4, <2>1, <3>1 DEF RequestOK, s
    <3>3. RequestOK(work[u])'
      BY <3>2 DEF RequestOK
    <3>4. s.pc \in ExpandPcs \cup ModifyPcs => filer'[s.vol].state = "READY"
      <4>1. s.pc \in ExpandPcs \cup ModifyPcs => o.type \notin {"create", "delete"}
        BY <1>3, <3>1 DEF ExpandPcs, ModifyPcs
      <4> QED
        BY <1>1, <1>3, <1>4, <1>5, <3>1, <4>1 DEF HandlerKnows
    <3>5. s.pc # "create.read"
      BY <1>1, <1>3 DEF Waiting
    <3>6. HandlerKnows(work[u])'
      BY <1>1, <1>2, <1>4, <3>1, <3>2, <3>4, <3>5 DEF HandlerKnows
    <3> QED
      BY <3>3, <3>6
  <2>2. CASE u # w
    <3> DEFINE q == work[u]
    <3>1. /\ work'[u] = q /\ RequestOK(q) /\ HandlerKnows(q) /\ (q.pc # "idle" => q.vol \in Vols)
      BY <1>1, <2>2, RequestKnows
    <3>2. Locking(q.pc) /\ Locking(r.pc) => q.vol # r.vol
      BY <1>7, <2>2 DEF r
    <3> HIDE DEF q
    <3>3. ASSUME q.pc \in CreatePcs \cup ExpandPcs \cup ModifyPcs PROVE filer'[q.vol] = filer[q.vol]
      <4>1. q.vol \in Vols /\ Locking(q.pc)
        BY <3>1, <3>3, PcsApart
      <4>2. o.type \in {"create", "delete"} => Locking(r.pc)
        BY <1>3 DEF Locking, UnsnapshotPcs
      <4> QED
        BY <1>3, <1>5, <3>2, <4>1, <4>2
    <3>4. ASSUME q.pc = "unsnapshot.wait", q.result = "ok" PROVE backup'[q.snap] = "ABSENT"
      <4>1. q.snap \in Snaps /\ backup[q.snap] = "ABSENT" /\ content[q.snap] # "wanted"
        BY <3>1, <3>4, PcsApart DEF RequestOK, HandlerKnows
      <4> QED
        BY <1>5, <1>11, <1>13, <4>1
    <3>5. RequestOK(work[u])'
      BY <3>1 DEF RequestOK
    <3>6. HandlerKnows(work[u])'
      BY <1>2, <3>1, <3>3, <3>4, PcsApart DEF HandlerKnows
    <3> QED
      BY <3>5, <3>6
  <2> QED
    BY <2>1, <2>2
<1> QED
  BY <1>8, <1>9, <1>10, <1>14, <1>15, <1>16, <1>17 DEF SingleInv

-----------------------------------------------------------------------------
(* An operation ends. *)

\* What becomes of the resource of an operation that ends with a result.
LEMMA EndEffect ==
  ASSUME CloudTypeOK, NEW o \in ops,
         NEW result, \/ result = "ok" /\ OpSucceeds(o)
                     \/ result = "error" /\ OpFails(o)
  PROVE  /\ CloudTypeOK' /\ ops' = ops \ {o}
         /\ \A v \in Vols : v # o.vol \/ o.type \in BackupOps => filer'[v] = filer[v]
         /\ o.type = "create" /\ result = "ok" => filer'[o.vol].state = "READY"
         /\ o.type \in {"create", "delete"} => filer'[o.vol].cap \in {0, filer[o.vol].cap}
         /\ o.type \in UpdateOps =>
              /\ filer'[o.vol].state = filer[o.vol].state
              /\ filer[o.vol].tuned => filer'[o.vol].tuned
              /\ filer'[o.vol].cap = filer[o.vol].cap
                   \/ (o.type = "resize" /\ filer'[o.vol].cap = o.cap)
         /\ o.type = "tune" /\ result = "ok" /\ filer[o.vol].state # "ABSENT" => filer'[o.vol].tuned
         /\ \A s \in Snaps : s # o.snap \/ o.type \notin BackupOps => backup'[s] = backup[s]
         /\ o.type = "deleteBackup" /\ result = "ok" => backup'[o.snap] = "ABSENT"
<1>1. /\ filer \in [Vols -> InstanceRec] /\ backup \in [Snaps -> BackupStates] /\ ops \in SUBSET Op
      /\ ops' = ops \ {o} /\ o \in Op
  BY DEF CloudTypeOK, OpSucceeds, OpFails
<1>2. /\ o.vol \in Vols /\ filer[o.vol] \in InstanceRec /\ o.cap \in Nat
      /\ \/ o.type \in InstanceOps /\ o.snap = NoSnap
         \/ o.type \in BackupOps /\ o.snap \in Snaps
  BY <1>1 DEF Op
<1>3. /\ o.type \in BackupOps => o.type \notin InstanceOps
      /\ o.type \in BackupOps <=> o.snap # NoSnap
  BY <1>2, SingleShareFilestoreAssumption DEF InstanceOps, BackupOps, UpdateOps
<1> DEFINE f == filer[o.vol]
           g == filer'[o.vol]
<1>4. PICK new :
        /\ filer' = [filer EXCEPT ![o.vol] = new]
        /\ o.type = "create" => new \in {Absent, [f EXCEPT !.state = "READY"], [f EXCEPT !.state = "ERROR"]}
        /\ o.type = "create" /\ result = "ok" => new = [f EXCEPT !.state = "READY"]
        /\ o.type = "delete" => new \in {Absent, [f EXCEPT !.state = "READY"]}
        /\ o.type = "resize" => new \in {f, [f EXCEPT !.cap = o.cap]}
        /\ o.type = "tune" => new \in {f, [f EXCEPT !.tuned = TRUE]}
        /\ o.type = "tune" /\ result = "ok" /\ f.state # "ABSENT" => new = [f EXCEPT !.tuned = TRUE]
        /\ o.type \in BackupOps => new = f
  <2>1. CASE result = "ok" /\ OpSucceeds(o)
    <3> DEFINE new == CASE o.type = "create" -> [f EXCEPT !.state = "READY"]
                        [] o.type = "delete" -> Absent
                        [] o.type = "resize" /\ f.state # "ABSENT" -> [f EXCEPT !.cap = o.cap]
                        [] o.type = "tune" /\ f.state # "ABSENT" -> [f EXCEPT !.tuned = TRUE]
                        [] OTHER -> f
    <3>1. filer' = [filer EXCEPT ![o.vol] = new]
      BY <1>1, <1>2, <2>1 DEF OpSucceeds
    <3>2. /\ o.type = "create" => new = [f EXCEPT !.state = "READY"]
          /\ o.type = "delete" => new = Absent
          /\ o.type = "resize" => new \in {f, [f EXCEPT !.cap = o.cap]}
          /\ o.type = "tune" => new \in {f, [f EXCEPT !.tuned = TRUE]}
          /\ o.type = "tune" /\ f.state # "ABSENT" => new = [f EXCEPT !.tuned = TRUE]
          /\ o.type \in BackupOps => new = f
      BY DEF BackupOps
    <3> HIDE DEF new
    <3> QED
      BY <2>1, <3>1, <3>2
  <2>2. CASE result = "error" /\ OpFails(o)
    <3>1. PICK left \in {Absent, [f EXCEPT !.state = "ERROR"]} :
            filer' = [filer EXCEPT ![o.vol] =
              CASE o.type = "create" -> left
                [] o.type = "delete" -> [f EXCEPT !.state = "READY"]
                [] OTHER -> f]
      BY <1>1, <1>2, <2>2 DEF OpFails
    <3> DEFINE new == CASE o.type = "create" -> left
                        [] o.type = "delete" -> [f EXCEPT !.state = "READY"]
                        [] OTHER -> f
    <3>2. /\ o.type = "create" => new = left
          /\ o.type = "delete" => new = [f EXCEPT !.state = "READY"]
          /\ o.type \in {"resize", "tune"} \cup BackupOps => new = f
      BY DEF BackupOps
    <3>3. filer' = [filer EXCEPT ![o.vol] = new]
      BY <3>1
    <3> HIDE DEF new
    <3> QED
      BY <2>2, <3>1, <3>2, <3>3
  <2> QED
    BY <2>1, <2>2
<1>5. g = new /\ \A v \in Vols : v # o.vol => filer'[v] = filer[v]
  BY <1>1, <1>2, <1>4
<1>6. /\ f \in InstanceRec /\ Absent \in InstanceRec /\ Absent.cap = 0
      /\ f.cap \in Nat
  BY <1>2 DEF InstanceRec, InstanceStates, Absent
<1> HIDE DEF f
<1>7. /\ \A state \in InstanceStates :
           LET h == [f EXCEPT !.state = state]
           IN h \in InstanceRec /\ h.state = state /\ h.cap = f.cap /\ h.tuned = f.tuned
      /\ LET h == [f EXCEPT !.cap = o.cap]
         IN h \in InstanceRec /\ h.state = f.state /\ h.cap = o.cap /\ h.tuned = f.tuned
      /\ LET h == [f EXCEPT !.tuned = TRUE]
         IN h \in InstanceRec /\ h.state = f.state /\ h.cap = f.cap /\ h.tuned
  BY <1>2, <1>6 DEF InstanceRec
<1>8. "READY" \in InstanceStates /\ "ERROR" \in InstanceStates
  BY DEF InstanceStates
<1>9. o.type \in {"create", "delete", "resize", "tune"} \/ o.type \in BackupOps
  BY <1>2 DEF InstanceOps, UpdateOps
<1>10. /\ new \in InstanceRec
       /\ o.type = "create" /\ result = "ok" => new.state = "READY"
       /\ o.type \in {"create", "delete"} => new.cap \in {0, f.cap}
       /\ o.type \in {"resize", "tune"} =>
            /\ new.state = f.state
            /\ f.tuned => new.tuned
            /\ new.cap = f.cap \/ (o.type = "resize" /\ new.cap = o.cap)
       /\ o.type = "tune" /\ result = "ok" /\ f.state # "ABSENT" => new.tuned
       /\ o.type \in BackupOps => new = f
  <2>1. CASE o.type = "create"
    BY <1>4, <1>6, <1>7, <1>8, <2>1 DEF BackupOps
  <2>2. CASE o.type = "delete"
    BY <1>4, <1>6, <1>7, <1>8, <2>2 DEF BackupOps
  <2>3. CASE o.type = "resize"
    BY <1>4, <1>6, <1>7, <2>3 DEF BackupOps
  <2>4. CASE o.type = "tune"
    BY <1>4, <1>6, <1>7, <2>4 DEF BackupOps
  <2>5. CASE o.type \in BackupOps
    BY <1>4, <1>6, <2>5 DEF BackupOps
  <2> QED
    BY <1>9, <2>1, <2>2, <2>3, <2>4, <2>5
<1>11. filer' \in [Vols -> InstanceRec]
  BY <1>1, <1>2, <1>4, <1>10
<1>12. /\ o.type \notin BackupOps => backup' = backup
       /\ o.type \in BackupOps => \E state \in {"READY", "ABSENT"} :
            backup' = [backup EXCEPT ![o.snap] = state]
       /\ o.type = "deleteBackup" /\ result = "ok" => backup' = [backup EXCEPT ![o.snap] = "ABSENT"]
  BY <1>3 DEF OpSucceeds, OpFails, BackupOps
<1>13. /\ backup' \in [Snaps -> BackupStates]
       /\ \A s \in Snaps : s # o.snap \/ o.type \notin BackupOps => backup'[s] = backup[s]
       /\ o.type = "deleteBackup" /\ result = "ok" => backup'[o.snap] = "ABSENT"
  <2>1. "deleteBackup" \in BackupOps
    BY DEF BackupOps
  <2>2. CASE o.type \notin BackupOps
    BY <1>1, <1>12, <2>1, <2>2
  <2>3. CASE o.type \in BackupOps
    <3>1. o.snap \in Snaps
      BY <1>2, <1>3, <2>3
    <3> QED
      BY <1>1, <1>12, <2>3, <3>1 DEF BackupStates
  <2> QED
    BY <2>2, <2>3
<1>14. CloudTypeOK'
  BY <1>1, <1>11, <1>13 DEF CloudTypeOK
<1> QED
  BY <1>1, <1>5, <1>10, <1>13, <1>14 DEF f, UpdateOps

\* An operation on the same resource is the same operation.
LEMMA SameOperation ==
  ASSUME SingleInv, NEW o \in ops, NEW p \in ops, o.type = p.type,
         \/ o.type \in {"create", "delete"} /\ o.vol = p.vol
         \/ o.type \in BackupOps /\ o.snap = p.snap
  PROVE  o = p
<1>1. o \in Op /\ p \in Op /\ OpShows(o) /\ OpShows(p)
  BY DEF SingleInv, TypeOK, CloudTypeOK
<1>2. CASE o.type \in {"create", "delete"}
  <2>1. o.type \notin BackupOps /\ p.type \notin BackupOps
    BY <1>2 DEF BackupOps
  <2>2. o.cap = 0 /\ p.cap = 0
    BY <1>1, <1>2 DEF OpShows
  <2>3. o \in [type: InstanceOps, vol: Vols, snap: {NoSnap}, cap: Nat]
    BY <1>1, <2>1 DEF Op
  <2>4. p \in [type: InstanceOps, vol: Vols, snap: {NoSnap}, cap: Nat]
    BY <1>1, <2>1 DEF Op
  <2>5. o.vol = p.vol
    BY <1>2 DEF BackupOps
  <2> QED
    BY <2>2, <2>3, <2>4, <2>5
<1>3. CASE o.type \in BackupOps
  <2>1. o.type \notin InstanceOps /\ p.type \notin InstanceOps
    BY <1>3 DEF BackupOps, InstanceOps, UpdateOps
  <2>2. o.snap = p.snap
    BY <1>3 DEF BackupOps
  <2>3. o.vol = p.vol
    BY <1>1, <1>3, <2>2 DEF OpShows
  <2>4. o \in [type: BackupOps, vol: Vols, snap: Snaps, cap: {0}]
    BY <1>1, <2>1 DEF Op
  <2>5. p \in [type: BackupOps, vol: Vols, snap: Snaps, cap: {0}]
    BY <1>1, <2>1 DEF Op
  <2> QED
    BY <2>2, <2>3, <2>4, <2>5
<1> QED
  BY <1>2, <1>3

\* Only the handlers that wait for an operation learn of its end.
LEMMA NotifyEffect ==
  ASSUME SingleInv, NEW o, NEW result \in {"ok", "error"}, NotifyWaiters(o, result)
  PROVE  /\ work' \in [Workers -> Request]
         /\ \A w \in Workers :
              /\ work'[w].pc = work[w].pc /\ work'[w].vol = work[w].vol /\ work'[w].snap = work[w].snap
              /\ work'[w].op = work[w].op /\ work'[w].range = work[w].range /\ work'[w].size = work[w].size
              /\ \/ work'[w].result = work[w].result
                 \/ work[w].op = o /\ work'[w].result = result
<1>1. ASSUME NEW w \in Workers
      PROVE  LET r == work[w]
                 s == work'[w]
             IN /\ s \in Request
                /\ s.pc = r.pc /\ s.vol = r.vol /\ s.snap = r.snap
                /\ s.op = r.op /\ s.range = r.range /\ s.size = r.size
                /\ s.result = r.result \/ (r.op = o /\ s.result = result)
  <2>1. work[w] \in Request
    BY RequestKnows
  <2>2. CASE work[w].op = o /\ work[w].result = "none"
    <3>1. work'[w] = [work[w] EXCEPT !.result = result]
      BY <2>2 DEF NotifyWaiters
    <3> QED
      BY <2>1, <2>2, <3>1 DEF Request
  <2>3. CASE ~(work[w].op = o /\ work[w].result = "none")
    <3>1. work'[w] = work[w]
      BY <2>3 DEF NotifyWaiters
    <3> QED
      BY <2>1, <3>1
  <2> QED
    BY <2>2, <2>3
<1>2. work' \in [Workers -> Request]
  BY <1>1 DEF NotifyWaiters
<1> QED
  BY <1>1, <1>2

LEMMA EndKeeps ==
  ASSUME SingleInv, NEW o \in ops, Ends(o), faults' \in Nat
  PROVE  SingleInv'
<1>1. UNCHANGED <<pendingIPRanges, volumeLocks, pv, content>>
  BY DEF Ends
<1>2. PICK result \in {"ok", "error"} :
        /\ NotifyWaiters(o, result)
        /\ \/ result = "ok" /\ OpSucceeds(o)
           \/ result = "error" /\ OpFails(o)
  BY DEF Ends
<1>3. /\ CloudTypeOK /\ o \in Op /\ OpShows(o)
  BY DEF SingleInv, TypeOK, CloudTypeOK
<1>4. /\ o.vol \in Vols /\ o.type \in InstanceOps \cup BackupOps
      /\ o.type \in BackupOps => o.type \notin {"create", "delete"} \cup UpdateOps
      /\ o.type \in {"create", "delete"} \cup UpdateOps \/ o.type \in {"createBackup", "deleteBackup"}
      /\ BackupOps = {"createBackup", "deleteBackup"}
  BY <1>3 DEF Op, InstanceOps, BackupOps, UpdateOps
<1>5. /\ CloudTypeOK' /\ ops' = ops \ {o}
      /\ \A v \in Vols : v # o.vol \/ o.type \in BackupOps => filer'[v] = filer[v]
      /\ o.type = "create" /\ result = "ok" => filer'[o.vol].state = "READY"
      /\ o.type \in UpdateOps =>
           /\ filer'[o.vol].state = filer[o.vol].state
           /\ filer[o.vol].tuned => filer'[o.vol].tuned
      /\ o.type = "tune" /\ result = "ok" /\ filer[o.vol].state # "ABSENT" => filer'[o.vol].tuned
      /\ \A s \in Snaps : s # o.snap \/ o.type \notin BackupOps => backup'[s] = backup[s]
      /\ o.type = "deleteBackup" /\ result = "ok" => backup'[o.snap] = "ABSENT"
  BY <1>2, <1>3, EndEffect
<1>6. /\ work' \in [Workers -> Request]
      /\ \A w \in Workers :
           /\ work'[w].pc = work[w].pc /\ work'[w].vol = work[w].vol /\ work'[w].snap = work[w].snap
           /\ work'[w].op = work[w].op /\ work'[w].range = work[w].range
           /\ \/ work'[w].result = work[w].result
              \/ work[w].op = o /\ work'[w].result = result
  BY <1>2, NotifyEffect
<1>7. TypeOK' /\ LocksOK' /\ RangesHeld'
  BY <1>1, <1>5, <1>6 DEF SingleInv, TypeOK, IPAllocatorTypeOK, LocksOK, Locking, RangesHeld, Reserving, AddressesOf
<1>8. /\ \A v \in Vols : filer[v].state = "READY" =>
           filer'[v].state = "READY" /\ (filer[v].tuned => filer'[v].tuned)
      /\ \A v \in Vols : pv[v].phase = "deleted" => filer'[v].state = filer[v].state
      /\ \A s \in Snaps : backup[s] \in {"READY", "ABSENT"} => backup'[s] = backup[s]
  <2>1. ASSUME NEW v \in Vols, filer[v].state = "READY"
        PROVE  filer'[v].state = "READY" /\ (filer[v].tuned => filer'[v].tuned)
    BY <1>3, <1>4, <1>5, <2>1 DEF OpShows
  <2>2. ASSUME NEW v \in Vols, pv[v].phase = "deleted" PROVE filer'[v].state = filer[v].state
    BY <1>3, <1>4, <1>5, <2>2 DEF OpShows
  <2>3. ASSUME NEW s \in Snaps, backup[s] \in {"READY", "ABSENT"} PROVE backup'[s] = backup[s]
    BY <1>3, <1>4, <1>5, <2>3 DEF OpShows
  <2> QED
    BY <2>1, <2>2, <2>3
<1>9. (\A v \in Vols : VolumeAsTold(v)') /\ SnapshotAsTold'
  BY <1>1, <1>8 DEF SingleInv, VolumeAsTold, SnapshotAsTold
<1>10. ASSUME NEW p \in ops' PROVE OpShows(p)'
  <2>1. p \in ops /\ p # o /\ OpShows(p) /\ p \in Op
    BY <1>5, <1>10 DEF SingleInv, TypeOK, CloudTypeOK
  <2>2. p.vol \in Vols /\ (p.type \in BackupOps => p.snap \in Snaps)
    BY <2>1 DEF Op, InstanceOps, BackupOps, UpdateOps
  <2>3. ASSUME p.type \in {"create", "delete"} PROVE filer'[p.vol].state = filer[p.vol].state
    <3>1. o.type # p.type \/ o.vol # p.vol
      BY <2>1, <2>3, SameOperation
    <3> QED
      BY <1>3, <1>4, <1>5, <2>1, <2>2, <2>3, <3>1 DEF OpShows
  <2>4. ASSUME p.type \in BackupOps PROVE backup'[p.snap] = backup[p.snap]
    <3>1. o.type # p.type \/ o.snap # p.snap
      BY <2>1, <2>4, SameOperation
    <3> QED
      BY <1>3, <1>4, <1>5, <2>1, <2>2, <2>4, <3>1 DEF OpShows
  <2> QED
    BY <1>1, <1>4, <2>1, <2>3, <2>4 DEF OpShows
<1>11. ASSUME NEW w \in Workers PROVE RequestOK(work[w])' /\ HandlerKnows(work[w])'
  <2> DEFINE r == work[w]
             s == work'[w]
  <2>1. /\ RequestOK(r) /\ HandlerKnows(r) /\ (r.pc # "idle" => r.vol \in Vols)
        /\ s.pc = r.pc /\ s.vol = r.vol /\ s.snap = r.snap /\ s.op = r.op
        /\ s.result = r.result \/ (r.op = o /\ s.result = result)
    BY <1>6, RequestKnows
  <2>2. RequestOK(work[w])'
    BY <2>1 DEF RequestOK
  <2> HIDE DEF r, s
  <2>3. ASSUME s.pc = "create.read" \/ (s.pc = "create.wait" /\ s.result = "ok")
        PROVE  filer'[s.vol].state = "READY"
    <3>1. CASE s.pc = "create.read" \/ r.result = "ok"
      BY <1>8, <2>1, <2>3, <3>1 DEF HandlerKnows
    <3>2. CASE s.pc = "create.wait" /\ r.op = o /\ result = "ok"
      <4>1. o.type = "create" /\ o.vol = s.vol
        BY <2>1, <3>2 DEF RequestOK, InstanceOp
      <4> QED
        BY <1>5, <3>2, <4>1
    <3> QED
      BY <2>1, <2>3, <3>1, <3>2
  <2>4. ASSUME s.pc = "modify.wait", s.result = "ok" PROVE filer'[s.vol].tuned
    <3>1. filer[s.vol].state = "READY" /\ s.vol \in Vols
      BY <2>1, <2>4, PcsApart DEF HandlerKnows
    <3>2. CASE r.result = "ok"
      BY <1>8, <2>1, <2>4, <3>1, <3>2 DEF HandlerKnows
    <3>3. CASE r.op = o /\ result = "ok"
      <4>1. o.type = "tune" /\ o.vol = s.vol
        BY <2>1, <2>4, <3>3 DEF RequestOK, InstanceOp
      <4> QED
        BY <1>5, <3>1, <3>3, <4>1
    <3> QED
      BY <2>1, <2>4, <3>2, <3>3
  <2>5. ASSUME s.pc = "unsnapshot.wait", s.result = "ok" PROVE backup'[s.snap] = "ABSENT"
    <3>1. s.snap \in Snaps
      BY <2>1, <2>5, PcsApart DEF RequestOK
    <3>2. CASE r.result = "ok"
      BY <1>8, <2>1, <2>5, <3>1, <3>2 DEF HandlerKnows
    <3>3. CASE r.op = o /\ result = "ok"
      <4>1. o.type = "deleteBackup" /\ o.snap = s.snap
        BY <2>1, <2>5, <3>3 DEF RequestOK, BackupOp
      <4> QED
        BY <1>5, <3>3, <4>1
    <3> QED
      BY <2>1, <2>5, <3>2, <3>3
  <2>6. s.pc \in ExpandPcs \cup ModifyPcs => filer'[s.vol].state = "READY"
    BY <1>8, <2>1, PcsApart DEF HandlerKnows
  <2>7. HandlerKnows(work[w])'
    BY <1>1, <2>1, <2>3, <2>4, <2>5, <2>6 DEF HandlerKnows, s
  <2> QED
    BY <2>2, <2>7
<1> QED
  BY <1>7, <1>9, <1>10, <1>11 DEF SingleInv

-----------------------------------------------------------------------------
(* The invariant, and what it says. *)

LEMMA SingleStart == ASSUME Init PROVE SingleInv
<1>1. /\ filer = [v \in Vols |-> Absent] /\ backup = [s \in Snaps |-> "ABSENT"] /\ ops = {}
      /\ pendingIPRanges = {} /\ volumeLocks = {} /\ work = [w \in Workers |-> Idle]
      /\ pv = [v \in Vols |-> [phase |-> "wanted", cap |-> 0, asked |-> 0, tuned |-> FALSE]]
      /\ content = [s \in Snaps |-> "wanted"] /\ faults = 0
  BY DEF Init, CloudInit, IPAllocatorInit
<1>2. Absent \in InstanceRec
  BY DEF Absent, InstanceRec, InstanceStates
<1>3. [phase |-> "wanted", cap |-> 0, asked |-> 0, tuned |-> FALSE] \in PVRec
  BY DEF PVRec, Phases
<1>4. CloudTypeOK
  BY <1>1, <1>2 DEF CloudTypeOK, BackupStates
<1>5. TypeOK
  BY <1>1, <1>3, <1>4, IdleOK DEF TypeOK, IPAllocatorTypeOK, Phases
<1>6. \A w \in Workers : work[w].pc = "idle" /\ work[w].range = NoRange /\ ~Locking(work[w].pc)
  BY <1>1, IdleOK
<1>7. LocksOK /\ RangesHeld
  BY <1>6 DEF LocksOK, RangesHeld, Reserving
<1>8. \A w \in Workers : RequestOK(work[w]) /\ HandlerKnows(work[w])
  <2> TAKE w \in Workers
  <2>1. work[w].pc = "idle"
    BY <1>6
  <2> QED
    BY <2>1, PcsApart DEF RequestOK, HandlerKnows
<1>9. SnapshotAsTold /\ (\A v \in Vols : VolumeAsTold(v)) /\ (\A o \in ops : OpShows(o))
  BY <1>1 DEF SnapshotAsTold, VolumeAsTold
<1> QED
  BY <1>5, <1>7, <1>8, <1>9 DEF SingleInv

\* Every step is a handler's, of one of the four shapes, an operation's, the
\* orchestrator's, or the end of the process.
StepShape ==
  \/ \E w \in Workers : Returns(w) \/ Moves(w) \/ Starts(w) \/ Begins(w)
  \/ \E o \in ops : Ends(o)
  \/ \E v \in Vols : ReleasePV(v)
  \/ \E s \in Snaps : ReleaseContent(s)
  \/ ProcessEnds
  \/ UNCHANGED <<cloudVars, pendingIPRanges, volumeLocks, work, pv, content>>

LEMMA NextShape ==
  ASSUME SingleInv, [Next]_vars
  PROVE  StepShape /\ faults' \in Nat
<1>1. faults \in Nat
  BY DEF SingleInv, TypeOK
<1>2. UNCHANGED faults \/ Fault => faults' \in Nat
  BY <1>1 DEF Fault
<1>3. CASE \E w \in Workers : HandlerStep(w) \/ HandlerFails(w)
  BY <1>2, <1>3, HandlerShape DEF Shaped, StepShape
<1>4. CASE \/ \E w \in Workers, v \in Vols : VolumeRequest(w, v)
           \/ \E w \in Workers, s \in Snaps : CreateSnapshot(w, s) \/ DeleteSnapshot(w, s)
  BY <1>2, <1>4, RequestShape DEF StepShape
<1>5. CASE \E o \in ops : OpDone(o) \/ OpError(o)
  BY <1>2, <1>5 DEF OpDone, OpError, Ends, StepShape
<1>6. CASE \E v \in Vols : ReleasePV(v)
  BY <1>2, <1>6 DEF ReleasePV, StepShape
<1>7. CASE \E s \in Snaps : ReleaseContent(s)
  BY <1>2, <1>7 DEF ReleaseContent, StepShape
<1>8. CASE DriverRestarts
  BY <1>2, <1>8 DEF DriverRestarts, StepShape
<1>9. CASE Finished \/ UNCHANGED vars
  BY <1>2, <1>9 DEF Finished, vars, StepShape
<1> QED
  BY <1>3, <1>4, <1>5, <1>6, <1>7, <1>8, <1>9 DEF Next

LEMMA SingleStep ==
  ASSUME SingleInv, [Next]_vars
  PROVE  SingleInv'
<1>1. StepShape /\ faults' \in Nat
  BY NextShape
<1>2. CASE UNCHANGED <<cloudVars, pendingIPRanges, volumeLocks, work, pv, content>>
  <2>1. UNCHANGED <<filer, backup, ops, pendingIPRanges, volumeLocks, work, pv, content>>
    BY <1>2 DEF cloudVars
  <2>2. TypeOK' /\ SnapshotAsTold'
    BY <1>1, <2>1 DEF SingleInv, TypeOK, CloudTypeOK, IPAllocatorTypeOK, SnapshotAsTold
  <2>3. LocksOK' /\ RangesHeld'
    BY <2>1 DEF SingleInv, LocksOK, RangesHeld, Reserving, AddressesOf
  <2>4. \A w \in Workers : RequestOK(work[w])' /\ HandlerKnows(work[w])'
    BY <2>1, RequestKnows DEF RequestOK, HandlerKnows
  <2>5. (\A o \in ops : OpShows(o)') /\ (\A v \in Vols : VolumeAsTold(v)')
    BY <2>1 DEF SingleInv, OpShows, VolumeAsTold
  <2> QED
    BY <2>1, <2>2, <2>3, <2>4, <2>5 DEF SingleInv
<1> QED
  BY <1>1, <1>2, ReturnKeeps, MoveKeeps, StartKeeps, BeginKeeps, EndKeeps, ReleasePVKeeps,
     ReleaseContentKeeps, ProcessEndKeeps DEF StepShape

\* In every reachable state, whatever fails and whenever the driver restarts.
THEOREM SingleShareInvariance == Spec => []SingleInv
BY SingleStart, SingleStep, PTL DEF Spec

\* The values of the state are of their types.
THEOREM SingleShareTypeCorrect == Spec => []TypeOK
<1>1. SingleInv => TypeOK
  BY DEF SingleInv
<1> QED
  BY <1>1, SingleShareInvariance, PTL

\* From its reservation until its handler returns a range is held, and no other handler has
\* an address of it.
THEOREM RangesStayHeld == Spec => []RangesHeld
<1>1. SingleInv => RangesHeld
  BY DEF SingleInv
<1> QED
  BY <1>1, SingleShareInvariance, PTL

\* A snapshot said to be ready is ready, and one said to be deleted is gone, however many
\* requests, restarts and lost answers there were.
THEOREM SnapshotsAsTold == Spec => []SnapshotAsTold
<1>1. SingleInv => SnapshotAsTold
  BY DEF SingleInv
<1> QED
  BY <1>1, SingleShareInvariance, PTL

-----------------------------------------------------------------------------
(* The sizes, when those asked for only grow. *)

\* What SizesInv says of a handler and of an operation.
LEMMA SizesKnow ==
  ASSUME SingleInv, SizesInv
  PROVE  /\ \A v \in Vols : /\ pv[v].cap \in Nat /\ pv[v].asked \in Nat /\ filer[v].cap \in Nat
                            /\ pv[v].phase = "bound" => pv[v].cap <= filer[v].cap
         /\ \A w \in Workers : ExpansionOK(work[w])
         /\ \A o \in ops : o.type = "resize" => ResizeOK(o)
         /\ \A o \in ops : o \in Op /\ OpShows(o) /\ o.cap \in Nat /\ o.vol \in Vols
BY DEF SizesInv, SingleInv, TypeOK, CloudTypeOK, PVRec, InstanceRec, Op

LEMMA ReturnSizes ==
  ASSUME SingleInv, SizesInv, NEW w \in Workers, Returns(w)
  PROVE  SizesInv'
<1>1. UNCHANGED <<filer, ops>>
  BY DEF Returns, cloudVars
<1>2. \A v \in Vols : pv'[v] = pv[v] \/ VolumeTold(work[w], v)
  BY AnswerEffect
<1>3. \A v \in Vols : /\ pv'[v].asked = pv[v].asked
                      /\ pv'[v].phase = "bound" =>
                           \/ pv[v].phase = "bound" /\ pv'[v].cap = pv[v].cap
                           \/ pv'[v].cap = filer[v].cap
  BY <1>2 DEF VolumeTold
<1>4. \A v \in Vols : pv'[v].phase = "bound" => pv'[v].cap <= filer'[v].cap
  BY <1>1, <1>3, SizesKnow
<1>5. ASSUME NEW o \in ops', o.type = "resize" PROVE ResizeOK(o)'
  BY <1>1, <1>3, <1>5, SizesKnow DEF ResizeOK
<1>6. ASSUME NEW u \in Workers PROVE ExpansionOK(work[u])'
  <2>1. CASE u = w
    <3>1. work'[u].pc = "idle"
      BY <2>1, ReturnHolds, IdleOK
    <3> QED
      BY <3>1, PcsApart DEF ExpansionOK
  <2>2. CASE u # w
    <3>1. work'[u] = work[u] /\ ExpansionOK(work[u])
      BY <2>2, ReturnHolds, SizesKnow
    <3>2. work[u].pc \in ExpandPcs => work[u].vol \in Vols
      BY RequestKnows, PcsApart
    <3> QED
      BY <1>1, <1>3, <3>1, <3>2 DEF ExpansionOK, HasUpdateOps
  <2> QED
    BY <2>1, <2>2
<1> QED
  BY <1>4, <1>5, <1>6 DEF SizesInv

LEMMA MoveSizes ==
  ASSUME SingleInv, SizesInv, NEW w \in Workers, Moves(w)
  PROVE  SizesInv'
<1>1. PICK s \in Request : GoesOn(work[w], s) /\ work' = [work EXCEPT ![w] = s]
  BY DEF Moves
<1>2. UNCHANGED <<filer, ops, pv>>
  BY DEF Moves, cloudVars
<1>3. ASSUME NEW u \in Workers PROVE ExpansionOK(work[u])'
  <2>1. ExpansionOK(work[u]) /\ ExpansionOK(work[w]) /\ work \in [Workers -> Request]
    BY RequestKnows, SizesKnow
  <2>2. CASE u # w
    <3>1. work'[u] = work[u]
      BY <1>1, <2>1, <2>2
    <3> QED
      BY <1>2, <2>1, <3>1 DEF ExpansionOK, HasUpdateOps
  <2>3. CASE u = w
    <3>1. work'[u] = s
      BY <1>1, <2>1, <2>3
    <3>2. s.pc \in ExpandPcs => work[w].pc \in ExpandPcs
      BY <1>1, PcsApart DEF GoesOn, SameHandler
    <3>3. ExpansionOK(s)
      BY <1>1, <2>1, <3>2 DEF GoesOn, ExpansionOK
    <3> QED
      BY <1>2, <3>1, <3>3 DEF ExpansionOK, HasUpdateOps
  <2> QED
    BY <2>2, <2>3
<1> QED
  BY <1>2, <1>3 DEF SizesInv, ResizeOK

LEMMA BeginSizes ==
  ASSUME SingleInv, SizesInv, SizesOnlyGrow, NEW w \in Workers, Begins(w)
  PROVE  SizesInv'
<1>1. PICK r : Asks(r) /\ Accept(w, r)
  BY DEF Begins
<1>2. /\ UNCHANGED <<filer, ops>> /\ work' = [work EXCEPT ![w] = r]
      /\ Locking(r.pc) => r.vol \notin volumeLocks
  BY <1>1 DEF Accept, cloudVars
<1>3. /\ r \in Request /\ r.vol \in Vols /\ r.size \in Nat /\ r.pc \notin {"expand.ops", "expand.start"}
      /\ r.pc \in ExpandPcs => r.pc = "expand.get"
      /\ r.pc = "expand.get" => pv[r.vol].asked <= r.size /\ pv'[r.vol].asked = r.size
  <2>1. pv[r.vol] \in PVRec /\ pv \in [Vols -> PVRec]
    BY <1>1 DEF Asks, SingleInv, TypeOK
  <2>2. r.pc = "expand.get" => pv[r.vol].asked <= r.size /\ pv' = [pv EXCEPT ![r.vol].asked = r.size]
    BY <1>1 DEF Asks
  <2>3. r.pc = "expand.get" => pv'[r.vol].asked = r.size
    BY <1>1, <2>1, <2>2 DEF Asks, PVRec
  <2> QED
    BY <1>1, <2>2, <2>3 DEF Asks, Request, ExpandPcs
<1>4. \A v \in Vols : /\ pv'[v].phase = pv[v].phase /\ pv'[v].cap = pv[v].cap
                      /\ \/ pv'[v].asked = pv[v].asked
                         \/ v = r.vol /\ r.pc = "expand.get" /\ pv'[v].asked = r.size
  BY <1>1, AskEffect
<1>5. \A v \in Vols : pv[v].asked <= pv'[v].asked
  BY <1>3, <1>4, SizesKnow
<1>6. \A v \in Vols : pv'[v].phase = "bound" => pv'[v].cap <= filer'[v].cap
  BY <1>2, <1>4, SizesKnow
<1>7. ASSUME NEW o \in ops', o.type = "resize" PROVE ResizeOK(o)'
  <2>1. ResizeOK(o) /\ o.cap \in Nat /\ o.vol \in Vols /\ pv[o.vol].asked <= pv'[o.vol].asked
    BY <1>2, <1>5, <1>7, SizesKnow
  <2>2. pv[o.vol].asked \in Nat /\ pv'[o.vol].asked \in Nat
    BY <1>3, <1>4, <2>1, SizesKnow
  <2> QED
    BY <1>2, <2>1, <2>2 DEF ResizeOK
<1>8. ASSUME NEW u \in Workers PROVE ExpansionOK(work[u])'
  <2>1. CASE u # w
    <3>1. work'[u] = work[u] /\ ExpansionOK(work[u])
      BY <1>2, <2>1, RequestKnows, SizesKnow
    <3>2. work[u].pc \in ExpandPcs => /\ work[u].vol \in Vols
                                      /\ pv'[work[u].vol].asked = pv[work[u].vol].asked
      <4>1. work[u].pc \in ExpandPcs => Locking(work[u].pc) /\ work[u].vol \in Vols
        BY RequestKnows, PcsApart
      <4>2. r.pc = "expand.get" => Locking(r.pc)
        BY PcsApart DEF ExpandPcs
      <4> QED
        BY <1>2, <1>4, <4>1, <4>2 DEF SingleInv, LocksOK
    <3> QED
      BY <1>2, <3>1, <3>2 DEF ExpansionOK, HasUpdateOps
  <2>2. CASE u = w
    <3>1. work'[u] = r
      BY <1>2, <2>2, RequestKnows
    <3> QED
      BY <1>3, <3>1 DEF ExpansionOK
  <2> QED
    BY <2>1, <2>2
<1> QED
  BY <1>6, <1>7, <1>8 DEF SizesInv

LEMMA ProcessEndSizes == ASSUME SizesInv, ProcessEnds PROVE SizesInv'
<1>1. UNCHANGED <<filer, ops, pv>> /\ \A w \in Workers : work'[w].pc = "idle"
  BY IdleOK DEF ProcessEnds, cloudVars
<1> QED
  BY <1>1, PcsApart DEF SizesInv, ResizeOK, ExpansionOK

LEMMA ReleasePVSizes ==
  ASSUME SingleInv, SizesInv, NEW v \in Vols, ReleasePV(v)
  PROVE  SizesInv'
<1>1. UNCHANGED <<filer, ops, work>>
  BY DEF ReleasePV, cloudVars
<1>2. \A u \in Vols : /\ pv'[u].asked = pv[u].asked
                      /\ pv'[u].phase = "bound" => pv'[u] = pv[u]
  BY ReleasePVKeeps
<1>3. ASSUME NEW o \in ops', o.type = "resize" PROVE ResizeOK(o)'
  BY <1>1, <1>2, <1>3, SizesKnow DEF ResizeOK
<1>4. ASSUME NEW u \in Workers PROVE ExpansionOK(work[u])'
  <2>1. work[u].pc \in ExpandPcs => work[u].vol \in Vols
    BY RequestKnows, PcsApart
  <2> QED
    BY <1>1, <1>2, <2>1, SizesKnow DEF ExpansionOK, HasUpdateOps
<1> QED
  BY <1>1, <1>2, <1>3, <1>4 DEF SizesInv

LEMMA StartSizes ==
  ASSUME SingleInv, SizesInv, NEW w \in Workers, Starts(w)
  PROVE  SizesInv'
<1> DEFINE r == work[w]
           s == work'[w]
<1>1. PICK o, new, to :
        /\ o \in Op /\ Requests(r, o, new, to) /\ Start(w, o, new, to) /\ to \in Pcs
        /\ \A u \in Workers : u # w => work'[u] = work[u]
        /\ work' \in [Workers -> Request]
        /\ s.pc = to /\ s.op = o /\ s.result = "none" /\ s.vol = r.vol /\ s.snap = r.snap
        /\ s.size = r.size /\ s.range = r.range
  BY StartFacts
<1>2. StartOp(o, new) /\ UNCHANGED pv
  BY <1>1 DEF Start
<1>3. /\ o \in Op /\ o.vol = r.vol /\ r.vol \in Vols /\ to \in Waiting /\ SameHandler(r.pc, to)
      /\ o.type = "create" => r.pc = "create.start" /\ new \in InstanceRec
      /\ o.type = "resize" => r.pc = "expand.start" /\ o.cap = r.size
      /\ o.type = "tune" => r.pc = "modify.start"
  BY <1>1, RequestedOp
<1>4. /\ HandlerKnows(r) /\ ExpansionOK(r) /\ CloudTypeOK
  BY RequestKnows, SizesKnow DEF SingleInv, TypeOK
<1> HIDE DEF r, s
<1>5. /\ ops' = ops \cup {o} /\ filer' \in [Vols -> InstanceRec]
      /\ \A v \in Vols : v # o.vol \/ o.type \notin {"create", "delete"} => filer'[v] = filer[v]
      /\ o.type = "delete" => filer'[o.vol].cap = filer[o.vol].cap
  BY <1>2, <1>3, <1>4, StartEffect DEF CloudTypeOK
\* Only a creation sets a size, and that of a volume still wanted.
<1>6. ASSUME NEW v \in Vols, pv[v].phase # "wanted" PROVE filer'[v].cap = filer[v].cap
  <2>1. CASE o.type = "create" /\ v = o.vol
    BY <1>3, <1>4, <1>6, <2>1 DEF HandlerKnows, CreatePcs
  <2> QED
    BY <1>5, <2>1
<1>7. \A v \in Vols : pv'[v].phase = "bound" => pv'[v].cap <= filer'[v].cap
  BY <1>2, <1>6, SizesKnow
<1>8. ASSUME NEW p \in ops', p.type = "resize" PROVE ResizeOK(p)'
  <2>1. CASE p \in ops
    <3>1. ResizeOK(p) /\ OpShows(p) /\ p.vol \in Vols
      BY <1>8, <2>1, SizesKnow
    <3>2. filer'[p.vol].cap = filer[p.vol].cap
      BY <1>6, <1>8, <3>1 DEF OpShows, UpdateOps
    <3>3. o.type = "resize" /\ o.vol = p.vol => FALSE
      BY <1>3, <1>4, <1>8, <2>1 DEF ExpansionOK, HasUpdateOps, UpdateOps
    <3> QED
      BY <1>2, <1>5, <3>1, <3>2, <3>3 DEF ResizeOK
  <2>2. CASE p = o
    <3>1. r.pc = "expand.start" /\ p.cap = r.size /\ p.vol = r.vol /\ r.pc \in ExpandPcs
      BY <1>3, <1>8, <2>2 DEF ExpandPcs
    <3>2. /\ filer[p.vol].cap <= p.cap /\ p.cap = pv[p.vol].asked /\ filer'[p.vol] = filer[p.vol]
          /\ p.cap \in Nat
      BY <1>3, <1>4, <1>5, <1>8, <2>2, <3>1, SizesKnow DEF ExpansionOK
    <3>3. \A q \in ops : q.type = "resize" /\ q.vol = p.vol => FALSE
      BY <1>4, <3>1 DEF ExpansionOK, HasUpdateOps, UpdateOps
    <3> QED
      BY <1>2, <1>5, <2>2, <3>2, <3>3 DEF ResizeOK
  <2> QED
    BY <1>5, <1>8, <2>1, <2>2
<1>9. ASSUME NEW u \in Workers PROVE ExpansionOK(work[u])'
  <2>1. CASE u # w
    <3> DEFINE q == work[u]
    <3>1. work'[u] = q /\ ExpansionOK(q) /\ HandlerKnows(q) /\ (q.pc \in ExpandPcs => q.vol \in Vols)
      BY <1>1, <2>1, RequestKnows, SizesKnow, PcsApart
    <3>2. q.pc \in ExpandPcs /\ r.pc \in {"expand.start", "modify.start"} => q.vol # r.vol
      <4>1. Locking(q.pc) /\ Locking(r.pc) => q.vol # r.vol
        BY <2>1 DEF SingleInv, LocksOK, r
      <4>2. r.pc \in {"expand.start", "modify.start"} => Locking(r.pc)
        BY PcsApart DEF ExpandPcs, ModifyPcs
      <4> QED
        BY <4>1, <4>2, PcsApart
    <3> HIDE DEF q
    <3>3. q.pc \in ExpandPcs => filer'[q.vol].cap = filer[q.vol].cap
      BY <1>6, <3>1 DEF HandlerKnows
    <3>4. q.pc = "expand.start" => ~\E p \in ops' : p.vol = q.vol /\ p.type \in UpdateOps
      BY <1>3, <1>5, <3>1, <3>2 DEF ExpansionOK, HasUpdateOps, UpdateOps, ExpandPcs
    <3>5. q.pc \in {"expand.ops", "expand.start"} => q.pc \in ExpandPcs
      BY DEF ExpandPcs
    <3> QED
      BY <1>2, <3>1, <3>3, <3>4, <3>5 DEF ExpansionOK, HasUpdateOps
  <2>2. CASE u = w
    <3>1. to \notin {"expand.ops", "expand.start"} /\ (to \in ExpandPcs => r.pc \in ExpandPcs)
      BY <1>3, PcsApart DEF Waiting, SameHandler
    <3> QED
      BY <1>1, <1>2, <1>4, <2>2, <3>1 DEF ExpansionOK, s
  <2> QED
    BY <2>1, <2>2
<1> QED
  BY <1>7, <1>8, <1>9 DEF SizesInv

LEMMA EndSizes ==
  ASSUME SingleInv, SizesInv, NEW o \in ops, Ends(o)
  PROVE  SizesInv'
<1>1. UNCHANGED pv
  BY DEF Ends
<1>2. PICK result \in {"ok", "error"} :
        /\ NotifyWaiters(o, result)
        /\ \/ result = "ok" /\ OpSucceeds(o)
           \/ result = "error" /\ OpFails(o)
  BY DEF Ends
<1>3. /\ CloudTypeOK /\ o \in Op /\ OpShows(o) /\ o.vol \in Vols /\ o.cap \in Nat
      /\ o.type = "resize" => ResizeOK(o)
  BY SizesKnow DEF SingleInv, TypeOK
<1>4. /\ ops' = ops \ {o} /\ filer' \in [Vols -> InstanceRec]
      /\ \A v \in Vols : v # o.vol \/ o.type \in BackupOps => filer'[v] = filer[v]
      /\ o.type \in {"create", "delete"} => filer'[o.vol].cap \in {0, filer[o.vol].cap}
      /\ o.type \in UpdateOps => \/ filer'[o.vol].cap = filer[o.vol].cap
                                 \/ (o.type = "resize" /\ filer'[o.vol].cap = o.cap)
  BY <1>2, <1>3, EndEffect DEF CloudTypeOK
<1>5. o.type \in BackupOps \cup UpdateOps \cup {"create", "delete"}
  BY <1>3 DEF Op, InstanceOps
<1>6. \A w \in Workers : /\ work'[w].pc = work[w].pc /\ work'[w].vol = work[w].vol
                         /\ work'[w].size = work[w].size
  BY <1>2, NotifyEffect
\* The size changes only when a resize ends, to the size it asks for, or when a
\* creation or a deletion leaves nothing.
<1>7. ASSUME NEW v \in Vols
      PROVE  \/ filer'[v].cap = filer[v].cap
             \/ o.vol = v /\ o.type = "create" /\ pv[v].phase = "wanted"
             \/ o.vol = v /\ o.type = "delete" /\ pv[v].phase = "released" /\ filer'[v].cap = 0
             \/ o.vol = v /\ o.type = "resize" /\ filer'[v].cap = o.cap
  BY <1>3, <1>4, <1>5 DEF OpShows
<1>8. ASSUME NEW v \in Vols, pv'[v].phase = "bound" PROVE pv'[v].cap <= filer'[v].cap
  <2>1. pv[v].phase = "bound" /\ pv'[v].cap = pv[v].cap /\ pv[v].cap <= filer[v].cap
    BY <1>1, <1>8, SizesKnow
  <2>2. o.vol = v /\ o.type = "resize" => filer[v].cap <= o.cap
    BY <1>3 DEF ResizeOK
  <2>3. pv[v].cap \in Nat /\ filer[v].cap \in Nat /\ o.cap \in Nat
    BY <1>3, SizesKnow
  <2> QED
    BY <1>7, <2>1, <2>2, <2>3
<1>9. ASSUME NEW p \in ops', p.type = "resize" PROVE ResizeOK(p)'
  <2>1. p \in ops /\ p # o /\ ResizeOK(p) /\ OpShows(p) /\ p.vol \in Vols /\ p.cap \in Nat
    BY <1>4, <1>9, SizesKnow
  <2>2. ~(o.type = "resize" /\ o.vol = p.vol)
    BY <2>1 DEF ResizeOK
  <2>3. pv[p.vol].phase # "wanted"
    BY <1>9, <2>1 DEF OpShows, UpdateOps
  <2>4. filer'[p.vol].cap = filer[p.vol].cap \/ filer'[p.vol].cap = 0
    BY <1>7, <2>1, <2>2, <2>3
  <2> QED
    BY <1>1, <1>4, <2>1, <2>4 DEF ResizeOK
<1>10. ASSUME NEW u \in Workers PROVE ExpansionOK(work[u])'
  <2> DEFINE q == work[u]
  <2>1. /\ ExpansionOK(q) /\ HandlerKnows(q) /\ (q.pc \in ExpandPcs => q.vol \in Vols)
        /\ q.size \in Nat
    BY RequestKnows, SizesKnow, PcsApart DEF Request
  <2>2. work'[u].pc = q.pc /\ work'[u].vol = q.vol /\ work'[u].size = q.size
    BY <1>6
  <2> HIDE DEF q
  <2>3. ASSUME q.pc \in {"expand.ops", "expand.start"} PROVE filer'[q.vol].cap <= q.size
    <3>1. q.vol \in Vols /\ q.pc \in ExpandPcs /\ filer[q.vol].cap <= q.size
      BY <2>1, <2>3 DEF ExpansionOK, ExpandPcs
    <3>2. pv[q.vol].phase # "wanted"
      BY <2>1, <3>1 DEF HandlerKnows
    <3>3. o.type = "resize" /\ o.vol = q.vol => o.cap <= q.size
      BY <1>3, <2>1, <3>1 DEF ResizeOK, ExpansionOK
    <3> QED
      BY <1>7, <2>1, <3>1, <3>2, <3>3
  <2>4. q.pc = "expand.start" => ~\E p \in ops' : p.vol = q.vol /\ p.type \in UpdateOps
    BY <1>4, <2>1 DEF ExpansionOK, HasUpdateOps
  <2> QED
    BY <1>1, <2>1, <2>2, <2>3, <2>4 DEF ExpansionOK, HasUpdateOps
<1> QED
  BY <1>8, <1>9, <1>10 DEF SizesInv

LEMMA SizesStep ==
  ASSUME SingleInv, SizesInv, SizesOnlyGrow, [Next]_vars
  PROVE  SizesInv'
<1>1. StepShape
  BY NextShape
<1>2. CASE \/ UNCHANGED <<cloudVars, pendingIPRanges, volumeLocks, work, pv, content>>
           \/ \E s \in Snaps : ReleaseContent(s)
  <2>1. UNCHANGED <<filer, ops, work, pv>>
    BY <1>2 DEF cloudVars, ReleaseContent
  <2> QED
    BY <2>1 DEF SizesInv, ResizeOK, ExpansionOK, HasUpdateOps
<1> QED
  BY <1>1, <1>2, ReturnSizes, MoveSizes, StartSizes, BeginSizes, EndSizes, ReleasePVSizes,
     ProcessEndSizes DEF StepShape

\* What the volumes, their operations and their handlers know of sizes is right, too.
THEOREM SingleVolumesInvariance == Spec => []VolumesInv
<1>1. Init => SizesInv
  BY PcsApart, IdleOK DEF Init, CloudInit, SizesInv, ExpansionOK
<1>2. Init => VolumesInv
  BY <1>1, SingleStart DEF VolumesInv
<1>3. VolumesInv /\ [Next]_vars => VolumesInv'
  BY SingleStep, SizesStep DEF VolumesInv
<1> QED
  BY <1>2, <1>3, PTL DEF Spec

-----------------------------------------------------------------------------
(* The contract of every volume. *)

\* How a step may change what the orchestrator knows of a volume.
PVMove(v) ==
  \/ pv'[v].phase = pv[v].phase /\ pv'[v].cap = pv[v].cap
  \/ pv[v].phase = "wanted" /\ pv'[v].phase = "bound"
  \/ pv[v].phase = "bound" /\ pv'[v].phase = "bound" /\ pv'[v].cap >= pv[v].cap
  \/ pv[v].phase = "bound" /\ pv'[v].phase = "released" /\ pv'[v].cap = pv[v].cap
  \/ pv[v].phase = "released" /\ pv'[v].phase = "released"
  \/ pv[v].phase = "released" /\ pv'[v].phase = "deleted" /\ pv'[v].cap = pv[v].cap

\* A late answer is never smaller than an earlier one.
LEMMA PVMoves ==
  ASSUME SingleInv, SizesInv, StepShape, NEW v \in Vols
  PROVE  PVMove(v)
<1>1. CASE UNCHANGED pv
  BY <1>1 DEF PVMove
<1>2. ASSUME NEW w \in Workers, Returns(w) PROVE PVMove(v)
  <2>1. pv'[v] = pv[v] \/ VolumeTold(work[w], v)
    BY <1>2, AnswerEffect
  <2>2. /\ pv[v].cap \in Nat /\ filer[v].cap \in Nat
        /\ pv[v].phase = "bound" => filer[v].cap >= pv[v].cap
    BY SizesKnow
  <2> QED
    BY <2>1, <2>2 DEF VolumeTold, PVMove
<1>3. ASSUME NEW w \in Workers, Begins(w) PROVE PVMove(v)
  BY <1>3, AskEffect DEF Begins, PVMove
<1>4. ASSUME NEW u \in Vols, ReleasePV(u) PROVE PVMove(v)
  BY <1>4, ReleasePVKeeps DEF PVMove
<1> QED
  BY <1>1, <1>2, <1>3, <1>4
     DEF StepShape, Moves, Starts, Start, Ends, ReleaseContent, ProcessEnds

LEMMA LifecycleInit == Init => Lifecycle!Init
<1> SUFFICES ASSUME Init, NEW v \in Vols
             PROVE  pv[v].phase = "wanted" /\ filer[v].state = "ABSENT"
  BY DEF Lifecycle!Init
<1> QED
  BY DEF Init, CloudInit, Absent

LEMMA LifecycleStep ==
  ASSUME SingleInv, SingleInv', SizesInv, SizesInv', [Next]_vars
  PROVE  [Lifecycle!Next]_(Lifecycle!vars)
<1> SUFFICES ASSUME NEW v \in Vols
             PROVE  \/ Lifecycle!Bind(v) \/ Lifecycle!Grow(v) \/ Lifecycle!Delete(v)
                    \/ Lifecycle!Provision(v) \/ Lifecycle!Change(v) \/ Lifecycle!Release(v)
                    \/ Lifecycle!Reclaim(v) \/ Lifecycle!RemainDeleted(v)
  BY DEF Lifecycle!Next
<1>1. VolumeAsTold(v)' /\ PVMove(v)
  BY NextShape, PVMoves DEF SingleInv
<1>2. pv'[v].phase = "bound" => Lifecycle!Backed(v)'
  <2> SUFFICES ASSUME pv'[v].phase = "bound" PROVE Lifecycle!Backed(v)'
    OBVIOUS
  <2>1. filer'[v].state = "READY" /\ (pv'[v].tuned => filer'[v].tuned)
    BY <1>1 DEF VolumeAsTold
  <2>2. filer'[v].cap >= pv'[v].cap
    <3>1. pv'[v].cap \in Nat /\ filer'[v].cap \in Nat
      BY DEF SingleInv, TypeOK, CloudTypeOK, PVRec, InstanceRec
    <3> QED
      BY <3>1 DEF SizesInv
  <2> QED
    BY <2>1, <2>2 DEF Lifecycle!Backed
<1> DEFINE StateOf == CASE filer[v].state = "ABSENT" -> "none"
                        [] filer[v].state = "READY" /\ (pv[v].tuned => filer[v].tuned) -> "usable"
                        [] OTHER -> "partial"
<1>3. pv'[v].phase = "deleted" => StateOf' = "none"
  BY <1>1 DEF VolumeAsTold
<1>4. pv[v].phase \in Phases /\ pv[v].cap \in Nat /\ pv'[v].cap \in Nat
  BY DEF SingleInv, TypeOK, PVRec
<1>5. CASE pv[v].phase = "wanted" /\ pv'[v].phase = "bound"
  BY <1>2, <1>5 DEF Lifecycle!Bind, Lifecycle!Becomes
<1>6. CASE pv[v].phase = "bound" /\ pv'[v].phase = "bound" /\ pv'[v].cap >= pv[v].cap
  <2>1. pv'[v].cap > pv[v].cap \/ pv'[v].cap = pv[v].cap
    BY <1>4, <1>6
  <2> QED
    BY <1>2, <1>6, <2>1
       DEF Lifecycle!Grow, Lifecycle!Change, Lifecycle!Becomes, Lifecycle!SameTold
<1>7. CASE pv[v].phase = "wanted" /\ pv'[v].phase = "wanted" /\ pv'[v].cap = pv[v].cap
  BY <1>7 DEF Lifecycle!Provision, Lifecycle!Becomes, Lifecycle!SameTold
<1>8. CASE pv[v].phase = "released" /\ pv'[v].phase = "released"
  BY <1>8 DEF Lifecycle!Reclaim, Lifecycle!Becomes
<1>9. CASE pv[v].phase = "bound" /\ pv'[v].phase = "released" /\ pv'[v].cap = pv[v].cap
  BY <1>9 DEF Lifecycle!Release, Lifecycle!Becomes, Lifecycle!SameTold
<1>10. CASE pv[v].phase = "released" /\ pv'[v].phase = "deleted" /\ pv'[v].cap = pv[v].cap
  BY <1>3, <1>10 DEF Lifecycle!Delete, Lifecycle!Becomes, Lifecycle!SameTold
<1>11. CASE pv[v].phase = "deleted" /\ pv'[v].phase = "deleted" /\ pv'[v].cap = pv[v].cap
  BY <1>3, <1>11 DEF Lifecycle!RemainDeleted, Lifecycle!Becomes, Lifecycle!SameTold
<1> QED
  <2>1. pv'[v].cap = pv[v].cap => pv'[v].cap >= pv[v].cap
    BY <1>4
  <2> QED
    BY <1>1, <1>4, <1>5, <1>6, <1>7, <1>8, <1>9, <1>10, <1>11, <2>1 DEF PVMove, Phases

\* If the sizes asked for only grow, the controller keeps the contract of every volume,
\* whatever is retried, lost, late, failing or restarted.
THEOREM SingleShareImplementsLifecycle == ASSUME SizesOnlyGrow PROVE Spec => ImplementsLifecycle
<1>1. VolumesInv => SingleInv /\ SizesInv
  BY DEF VolumesInv
<1>2. VolumesInv /\ [Next]_vars => [Lifecycle!Next]_(Lifecycle!vars)
  <2> SUFFICES ASSUME VolumesInv, [Next]_vars PROVE [Lifecycle!Next]_(Lifecycle!vars)
    OBVIOUS
  <2>1. SingleInv /\ SizesInv
    BY <1>1
  <2> QED
    BY <2>1, SingleStep, SizesStep, LifecycleStep
<1> QED
  BY <1>2, LifecycleInit, SingleVolumesInvariance, PTL
     DEF Spec, ImplementsLifecycle, Lifecycle!Spec
=============================================================================
