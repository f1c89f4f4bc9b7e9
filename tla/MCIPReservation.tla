-------------------------- MODULE MCIPReservation --------------------------
(* A small address space for the IP allocator. *)
EXTENDS IPReservation

\* Every way to write a network of 2, 4 or 8 of the 8 addresses, and every range of
\* 2 to 8 addresses on its boundary.
MCBlockSizes == {2, 4}
MCCidrs == [ip: Address, size: {2, 4, 8}]
MCCloudRanges == {NamedRange} \cup {Block(b, n) : b \in {0, 2, 4, 6}, n \in {2}}
                              \cup {Block(b, 4) : b \in {0, 4}} \cup {Block(0, 8)}
=============================================================================
