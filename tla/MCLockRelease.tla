---------------------------- MODULE MCLockRelease ----------------------------
(* Small instances of the node servers and the lock release controller for TLC. *)
EXTENDS LockReleaseSafety

CONSTANTS n1, v1, v2, a1, a2, s1

\* Two machines are given the name n1, whose Node may fail to name the one that is up;
\* it may still name the first when the second is up.
MCMachines == [n \in Nodes |-> 2]
MCAddress == [n \in Nodes |-> <<a1, a2>>]
MCLapses == [n \in Nodes |-> <<{Absent, Bare, Unnamed}, {Bare}>>]

\* Two volumes are used by the second machine, one by both.
MCPlaces == [v \in Vols |-> IF v = v1 THEN Nodes \X (1..2) ELSE Nodes \X {2}]
MCServer == [v \in Vols |-> s1]
=============================================================================
