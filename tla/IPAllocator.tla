---------------------------- MODULE IPAllocator ----------------------------
(***************************************************************************)
(* IPAllocator (util/ip_reservation.go): hands out IP ranges of a          *)
(* reserved-ipv4-cidr, and remembers those handed out whose instance the   *)
(* cloud may not list yet.                                                 *)
(*                                                                         *)
(* An IPv4 address is a number below AddrSpace (2^32 in the code); a range *)
(* is its network address and its number of addresses, where the code has  *)
(* a prefix length.  The cidr parameter keeps the address as it was        *)
(* written, which need not be that of its network.                         *)
(***************************************************************************)
EXTENDS Integers

CONSTANTS AddrSpace,  \* number of IP addresses
          BlockSizes, \* sizes of the ranges asked for, one per tier
          NamedRange, \* a ReservedIpRange that is a name, not a CIDR
          NoRange     \* the error answer

VARIABLE pendingIPRanges  \* ranges handed out and not yet released

Address == 0 .. AddrSpace - 1
Range == [base: Address, size: Nat \ {0}]

ASSUME IPAllocatorAssumption ==
  /\ AddrSpace \in Nat
  /\ BlockSizes \subseteq Nat \ {0}
  /\ NamedRange \notin Range /\ NoRange \notin Range

IPAllocatorInit == pendingIPRanges = {}
IPAllocatorTypeOK == pendingIPRanges \subseteq Range

-----------------------------------------------------------------------------
Block(base, size) == [base |-> base, size |-> size]

\* net.IPNet.Contains
Contains(range, address) == range.base <= address /\ address < range.base + range.size
AddressesOf(range) == {a \in Address : Contains(range, a)}

\* Variant: only one of the two ranges is searched.
IsOverlapOneSided(r1, r2) == Contains(r1, r2.base)

IsOverlap(r1, r2) == Contains(r1, r2.base) \/ Contains(r2, r1.base)

\* The network of the cidr parameter [ip, size].
Network(cidr) == Block(cidr.ip - (cidr.ip % cidr.size), cidr.size)

\* parseCIDR accepts the parameter for ranges of this size.
ParseOK(cidr, size) == size <= cidr.size /\ cidr.ip % size = 0

\* Variant: the search starts at the address of the parameter.
CandidatesFromIP(cidr, size) ==
  {b \in Address : Contains(Network(cidr), b) /\ b >= cidr.ip /\ (b - cidr.ip) % size = 0}

\* The addresses the search visits: from the masked address in steps of size,
\* while inside the network; incrementIP ends it at the end of the address space.
Candidates(cidr, size) ==
  {b \in Address : Contains(Network(cidr), b) /\ (b - Network(cidr).base) % size = 0}

\* Variant: ranges handed out and not yet in the cloud are forgotten.
UnreservedSeen(cidr, size, seen) ==
  {b \in Candidates(cidr, size) : \A r \in seen : ~IsOverlap(Block(b, size), r)}

\* Those that overlap no range of the cloud's instances and no pending one.
Unreserved(cidr, size, seen) ==
  {b \in Candidates(cidr, size) : \A r \in seen \cup pendingIPRanges : ~IsOverlap(Block(b, size), r)}

Lowest(addresses) == CHOOSE a \in addresses : \A b \in addresses : a <= b

\* Is there an answer?  A reserved range that is not a CIDR fails every search.
Answers(cidr, size, seen) ==
  ParseOK(cidr, size) /\ NamedRange \notin seen /\ Unreserved(cidr, size, seen) # {}

\* The answer: the first range found (it is held from then on), or an error.
Answer(cidr, size, seen) ==
  IF Answers(cidr, size, seen) THEN Block(Lowest(Unreserved(cidr, size, seen)), size) ELSE NoRange

GetUnreservedIPRange(cidr, size, seen) ==
  LET range == Answer(cidr, size, seen)
  IN pendingIPRanges' = IF range = NoRange THEN pendingIPRanges ELSE pendingIPRanges \cup {range}

ReleaseIPRange(range) == pendingIPRanges' = pendingIPRanges \ {range}
=============================================================================
