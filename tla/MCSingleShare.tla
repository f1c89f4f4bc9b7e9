--------------------------- MODULE MCSingleShare ---------------------------
(* Small instances of the single-share controller for TLC. *)
EXTENDS SingleShareSafety, TLC

CONSTANTS v1, v2

\* A reserved-ipv4-cidr with room for two instances.
MCTwoRanges == [ip |-> 0, size |-> 4]

\* The snapshot is of v2; only v1 is expanded, in one step or two.
MCSourceOf == [s \in Snaps |-> v2]
MCTwoSizes == [v \in Vols |-> IF v = v1 THEN {2, 3} ELSE {}]
MCNoSizes == [v \in Vols |-> {}]

MCSymmetry == Permutations(Workers)
=============================================================================
