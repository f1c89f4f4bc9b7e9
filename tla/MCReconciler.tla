---------------------------- MODULE MCReconciler ----------------------------
(* Small instances of the reconciler for TLC. *)
EXTENDS ReconcilerSafety

CONSTANTS v1, v2, i1

\* v1 exists before the reconciler does; v2 may be expanded to three units.  With both
\* the instance has to grow, and it shrinks when v1 goes.
MCShareSize == [v \in Vols |-> 1]
MCNewerIsLarger == [v \in Vols |-> IF v = v1 THEN 1 ELSE 2]
MCExpandSize == [v \in Vols |-> IF v = v2 THEN 3 ELSE 1]
MCNoExpandSize == [v \in Vols |-> 1]
MCMigrated == [v \in Vols |-> IF v = v1 THEN i1 ELSE NoInst]
=============================================================================
