---------------------------- MODULE MCMultishare ----------------------------
(* Small instances of the multishare controller for TLC. *)
EXTENDS MultishareSafety, TLC

CONSTANTS v1, v2

\* The volumes have the same storage class and start at one unit; v1 is
\* expanded to three; v1 has room for expansion only if the instance grows.
MCShareSize == [v \in Vols |-> 1]
MCExpandSize == [v \in Vols |-> IF v = v1 THEN 3 ELSE 1]
MCNoExpandSize == [v \in Vols |-> 1]
MCProtocol == [v \in Vols |-> "NFS_V3"]

MCSymmetry == Permutations(Workers) \cup Permutations(Insts)
=============================================================================
