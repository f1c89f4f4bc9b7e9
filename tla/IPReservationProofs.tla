------------------------ MODULE IPReservationProofs ------------------------
(***************************************************************************)
(* What the IP allocator hands out is free, for every size of the address  *)
(* space, every set of tiers, parameters and cloud ranges, and any order   *)
(* of reservations and releases.                                           *)
(***************************************************************************)
EXTENDS IPReservation, IPAllocatorTheorems

-----------------------------------------------------------------------------
(* Multiples. *)

\* Having no remainder is being a multiple.
LEMMA Multiple ==
  ASSUME NEW x \in Int, NEW n \in Nat \ {0}
  PROVE  x % n = 0 <=> \E k \in Int : x = k * n
<1>1. ASSUME x % n = 0 PROVE \E k \in Int : x = k * n
  <2>1. x \div n \in Int /\ x = ((x \div n) * n) + (x % n)
    OBVIOUS
  <2> QED
    BY <1>1, <2>1
<1>2. ASSUME NEW k \in Int, x = k * n PROVE x % n = 0
  BY <1>2
<1> QED
  BY <1>1, <1>2

\* What is left of a number without its remainder is a multiple.
LEMMA WithoutRemainder ==
  ASSUME NEW x \in Nat, NEW n \in Nat \ {0}
  PROVE  x - (x % n) \in Nat /\ \E k \in Int : x - (x % n) = k * n
<1>1. x \div n \in Int /\ x = ((x \div n) * n) + (x % n) /\ x % n \in 0 .. n - 1 /\ x % n <= x
  OBVIOUS
<1>2. x - (x % n) = (x \div n) * n
  BY <1>1
<1> QED
  BY <1>1, <1>2

\* Of two multiples, the smaller is smaller by at least one unit.
LEMMA UnitApart ==
  ASSUME NEW k \in Int, NEW j \in Int, NEW n \in Nat \ {0}, k * n < j * n
  PROVE  k * n + n <= j * n
<1>1. k < j
  OBVIOUS
<1>2. (j - k - 1) * n >= 0
  BY <1>1
<1> QED
  BY <1>2

-----------------------------------------------------------------------------
(* The allocator. *)

\* The network of a well-formed parameter starts and ends on a boundary of its blocks.
LEMMA NetworkIsAligned ==
  ASSUME NEW cidr \in Cidrs, NEW size \in BlockSizes, ParseOK(cidr, size)
  PROVE  LET network == Network(cidr) IN
           /\ size \in Nat \ {0} /\ cidr.size \in Nat \ {0}
           /\ network.base \in Nat /\ network.size = cidr.size
           /\ \E k \in Int : network.base = k * size
           /\ \E j \in Int : cidr.size = j * size
<1>1. size \in Nat \ {0} /\ cidr.size \in Nat \ {0} /\ cidr.ip \in Nat
  BY ReservationAssumption, IPAllocatorAssumption DEF Address
<1>2. PICK j \in Int : cidr.size = j * size
  <2>1. cidr.size % size = 0 /\ cidr.size \in Int
    BY <1>1, ReservationAssumption DEF ParseOK
  <2> QED
    BY <1>1, <2>1, Multiple
<1>3. PICK i \in Int : cidr.ip - (cidr.ip % cidr.size) = i * cidr.size
  BY <1>1, WithoutRemainder
<1>4. cidr.ip - (cidr.ip % cidr.size) \in Nat
  BY <1>1, WithoutRemainder
<1>5. i * (j * size) = (i * j) * size /\ i * j \in Int
  BY <1>1
<1>6. Network(cidr).base = (i * j) * size /\ Network(cidr).base \in Nat /\ Network(cidr).size = cidr.size
  BY <1>2, <1>3, <1>4, <1>5 DEF Network, Block
<1> QED
  BY <1>1, <1>2, <1>5, <1>6

\* The search visits the blocks of the network, and no others.
LEMMA CandidatesAreBlocks ==
  ASSUME NEW cidr \in Cidrs, NEW size \in BlockSizes, ParseOK(cidr, size), NEW b \in Address
  PROVE  /\ b \in Candidates(cidr, size) =>
              b % size = 0 /\ AddressesOf(Block(b, size)) \subseteq AddressesOf(Network(cidr))
         /\ b % size = 0 /\ AddressesOf(Block(b, size)) \subseteq AddressesOf(Network(cidr)) =>
              b \in Candidates(cidr, size)
<1> DEFINE base == Network(cidr).base
           end == base + cidr.size
<1>1. /\ size \in Nat \ {0} /\ cidr.size \in Nat \ {0} /\ base \in Nat
      /\ Network(cidr).size = cidr.size
      /\ Address \subseteq Nat /\ b \in Nat
  BY NetworkIsAligned, IPAllocatorAssumption DEF Address
<1>2. PICK k \in Int : base = k * size
  BY NetworkIsAligned
<1>3. PICK j \in Int : cidr.size = j * size
  BY NetworkIsAligned
<1>4. end = (k + j) * size
  BY <1>1, <1>2, <1>3
<1>5. \A a \in Nat : Contains(Network(cidr), a) <=> base <= a /\ a < end
  BY <1>1 DEF Contains
<1> HIDE DEF base, end
<1>6. ASSUME b \in Candidates(cidr, size)
      PROVE  b % size = 0 /\ AddressesOf(Block(b, size)) \subseteq AddressesOf(Network(cidr))
  <2>1. base <= b /\ b < end /\ (b - base) % size = 0 /\ b - base \in Int /\ b \in Int
    BY <1>1, <1>5, <1>6 DEF Candidates, base
  <2>2. PICK i \in Int : b - base = i * size
    BY <1>1, <2>1, Multiple
  <2>3. b = (k + i) * size /\ k + i \in Int
    BY <1>1, <1>2, <2>2
  <2>4. b % size = 0
    BY <1>1, <2>3, Multiple
  <2>5. b + size <= end
    BY <1>1, <1>4, <2>1, <2>3, UnitApart
  <2>6. \A a \in Nat : Contains(Block(b, size), a) => base <= a /\ a < end
    <3>1. end \in Int
      BY <1>1 DEF end
    <3> QED
      BY <1>1, <2>1, <2>5, <3>1 DEF Contains, Block
  <2> QED
    BY <1>1, <1>5, <2>4, <2>6 DEF AddressesOf
<1>7. ASSUME b % size = 0, AddressesOf(Block(b, size)) \subseteq AddressesOf(Network(cidr))
      PROVE  b \in Candidates(cidr, size)
  <2>1. b \in AddressesOf(Block(b, size))
    BY <1>1 DEF AddressesOf, Contains, Block
  <2>2. Contains(Network(cidr), b) /\ base <= b /\ b \in Int
    BY <1>1, <1>5, <1>7, <2>1 DEF AddressesOf
  <2>3. PICK i \in Int : b = i * size
    BY <1>1, <1>7, <2>2, Multiple
  <2>4. b - base = (i - k) * size /\ i - k \in Int /\ b - base \in Int
    BY <1>1, <1>2, <2>3
  <2>5. (b - base) % size = 0
    BY <1>1, <2>4, Multiple
  <2> QED
    BY <2>2, <2>5 DEF Candidates, base
<1> QED
  BY <1>6, <1>7

-----------------------------------------------------------------------------
(* The steps. *)

ReservationInv == IPAllocatorTypeOK /\ PendingDisjoint /\ AnswerIsUnreserved /\ RefusedOnlyWhenFull

\* A range that shares no address with those handed out joins them.
LEMMA JoinsPending ==
  ASSUME IPAllocatorTypeOK, PendingDisjoint, NEW r \in Range,
         \A s \in pendingIPRanges : ~IsOverlap(r, s),
         pendingIPRanges' = pendingIPRanges \cup {r}
  PROVE  IPAllocatorTypeOK' /\ PendingDisjoint'
<1>1. pendingIPRanges \subseteq Range
  BY DEF IPAllocatorTypeOK
<1>2. \A s \in pendingIPRanges : AddressesOf(r) \cap AddressesOf(s) = {}
  BY <1>1, OverlapIsSharing
<1> QED
  BY <1>1, <1>2 DEF IPAllocatorTypeOK, PendingDisjoint

\* What is taken, of the ranges a request was answered for.
LEMMA TakenByRanges ==
  ASSUME NEW seen \in SUBSET CloudRanges, IPAllocatorTypeOK,
         request'.held = pendingIPRanges, request'.seen = seen, NamedRange \notin seen,
         NEW r \in Range
  PROVE  AddressesOf(r) \cap Taken' = {} <=> \A s \in seen \cup pendingIPRanges : ~IsOverlap(r, s)
<1>1. seen \cup pendingIPRanges \subseteq Range
  BY ReservationAssumption DEF IPAllocatorTypeOK
<1>2. Taken' = UNION {AddressesOf(s) : s \in seen \cup pendingIPRanges}
  BY DEF Taken
<1>3. AddressesOf(r) \cap Taken' = {}
        <=> \A s \in seen \cup pendingIPRanges : AddressesOf(r) \cap AddressesOf(s) = {}
  BY <1>2
<1> QED
  BY <1>1, <1>3, OverlapIsSharing

\* A request is answered.
LEMMA ReserveKeepsInv ==
  ASSUME ReservationInv, NEW cidr \in Cidrs, NEW size \in BlockSizes,
         NEW seen \in SUBSET CloudRanges, Reserve(cidr, size, seen)
  PROVE  ReservationInv'
<1> DEFINE r == Answer(cidr, size, seen)
<1>1. /\ request' = [cidr |-> cidr, size |-> size, seen |-> seen, held |-> pendingIPRanges, range |-> r]
      /\ pendingIPRanges' = IF r = NoRange THEN pendingIPRanges ELSE pendingIPRanges \cup {r}
      /\ IPAllocatorTypeOK /\ PendingDisjoint
  BY DEF Reserve, GetUnreservedIPRange, ReservationInv
<1>2. /\ request'.cidr = cidr /\ request'.size = size /\ request'.seen = seen
      /\ request'.held = pendingIPRanges /\ request'.range = r
  BY <1>1
<1>3. CASE r # NoRange
  <2>1. /\ r \in Range /\ r.size = size /\ r.base \in Candidates(cidr, size)
        /\ ParseOK(cidr, size) /\ NamedRange \notin seen
        /\ \A s \in seen \cup pendingIPRanges : ~IsOverlap(r, s)
    BY <1>3, AnswerIsFree
  <2> HIDE DEF r
  <2>2. IPAllocatorTypeOK' /\ PendingDisjoint'
    BY <1>1, <1>3, <2>1, JoinsPending
  <2>3. r = Block(r.base, size) /\ r.base \in Address
    BY <2>1 DEF Range, Block
  <2>4. r.base % r.size = 0 /\ AddressesOf(r) \subseteq AddressesOf(Network(cidr))
    BY <2>1, <2>3, CandidatesAreBlocks
  <2>5. AddressesOf(r) \cap Taken' = {}
    BY <1>1, <1>2, <2>1, TakenByRanges
  <2>6. AnswerIsUnreserved'
    BY <1>2, <2>1, <2>4, <2>5 DEF AnswerIsUnreserved
  <2>7. RefusedOnlyWhenFull'
    BY <1>2, <1>3 DEF RefusedOnlyWhenFull
  <2> QED
    BY <2>2, <2>6, <2>7 DEF ReservationInv
<1>4. CASE r = NoRange
  <2>1. IPAllocatorTypeOK' /\ PendingDisjoint'
    BY <1>1, <1>4 DEF IPAllocatorTypeOK, PendingDisjoint
  <2>2. AnswerIsUnreserved'
    BY <1>2, <1>4 DEF AnswerIsUnreserved
  <2>3. ASSUME ParseOK(cidr, size), NamedRange \notin seen, NEW b \in Address, b % size = 0,
               AddressesOf(Block(b, size)) \subseteq AddressesOf(Network(cidr))
        PROVE  AddressesOf(Block(b, size)) \cap Taken' # {}
    <3>1. Block(b, size) \in Range
      BY IPAllocatorAssumption DEF Block, Range
    <3>2. b \in Candidates(cidr, size)
      BY <2>3, CandidatesAreBlocks
    <3>3. b \notin Unreserved(cidr, size, seen)
      <4>1. Block(Lowest(Unreserved(cidr, size, seen)), size) # NoRange
              \/ Unreserved(cidr, size, seen) = {}
        <5>1. Unreserved(cidr, size, seen) \in SUBSET Address /\ Address \subseteq Nat
          BY IPAllocatorAssumption DEF Unreserved, Candidates, Address
        <5>2. Unreserved(cidr, size, seen) # {} => Lowest(Unreserved(cidr, size, seen)) \in Address
          BY <5>1, LowestIsIn
        <5> QED
          BY <5>2, IPAllocatorAssumption DEF Block, Range
      <4> QED
        BY <1>4, <2>3, <4>1 DEF Answer, Answers
    <3>4. \E s \in seen \cup pendingIPRanges : IsOverlap(Block(b, size), s)
      BY <3>2, <3>3 DEF Unreserved
    <3> QED
      BY <1>1, <1>2, <2>3, <3>1, <3>4, TakenByRanges
  <2>4. RefusedOnlyWhenFull'
    BY <1>2, <2>3 DEF RefusedOnlyWhenFull
  <2> QED
    BY <2>1, <2>2, <2>4 DEF ReservationInv
<1> QED
  BY <1>3, <1>4

\* Reserving, answering and releasing preserve the invariant.
LEMMA ReservationStep ==
  ReservationInv /\ [ReservationNext]_reservationVars => ReservationInv'
<1> SUFFICES ASSUME ReservationInv, [ReservationNext]_reservationVars PROVE ReservationInv'
  OBVIOUS
<1>1. CASE \E cidr \in Cidrs, size \in BlockSizes, seen \in SUBSET CloudRanges :
             Cardinality(seen) <= MaxSeen /\ Reserve(cidr, size, seen)
  BY <1>1, ReserveKeepsInv
<1>2. CASE Answered
  <2>1. request' = NoRequest /\ pendingIPRanges' = pendingIPRanges
    BY <1>2 DEF Answered
  <2>2. AnswerIsUnreserved' /\ RefusedOnlyWhenFull'
    BY <2>1 DEF AnswerIsUnreserved, RefusedOnlyWhenFull, NoRequest
  <2> QED
    BY <2>1, <2>2 DEF ReservationInv, IPAllocatorTypeOK, PendingDisjoint
<1>3. CASE \E range \in pendingIPRanges : Release(range)
  <2>1. pendingIPRanges' \subseteq pendingIPRanges /\ request' = request
    BY <1>3 DEF Release, ReleaseIPRange
  <2>2. IPAllocatorTypeOK' /\ PendingDisjoint'
    BY <2>1 DEF ReservationInv, IPAllocatorTypeOK, PendingDisjoint
  <2> QED
    BY <2>1, <2>2 DEF ReservationInv, AnswerIsUnreserved, RefusedOnlyWhenFull, Taken
<1>4. CASE UNCHANGED reservationVars
  BY <1>4 DEF reservationVars, ReservationInv, IPAllocatorTypeOK, PendingDisjoint,
              AnswerIsUnreserved, RefusedOnlyWhenFull, Taken
<1> QED
  BY <1>1, <1>2, <1>3, <1>4 DEF ReservationNext

\* Nothing is handed out and nothing asked for at first.
LEMMA ReservationStart == ReservationInit => ReservationInv
BY DEF ReservationInit, IPAllocatorInit, ReservationInv, IPAllocatorTypeOK, PendingDisjoint,
       AnswerIsUnreserved, RefusedOnlyWhenFull, NoRequest

-----------------------------------------------------------------------------
(* The theorems. *)

\* Ranges handed out and not released share no address, whatever their sizes and in
\* whatever order they are reserved and released (ip_reservation.go:70).
THEOREM PendingRangesDisjoint == ReservationSpec => []PendingDisjoint
<1>1. ReservationInv => PendingDisjoint
  BY DEF ReservationInv
<1> QED
  BY <1>1, ReservationStart, ReservationStep, PTL DEF ReservationSpec

\* What is handed out is a block of the network, on its boundary, with no address that is
\* used in the cloud or held by another request (ip_reservation.go:68).
THEOREM AnswersUnreserved == ReservationSpec => []AnswerIsUnreserved
<1>1. ReservationInv => AnswerIsUnreserved
  BY DEF ReservationInv
<1> QED
  BY <1>1, ReservationStart, ReservationStep, PTL DEF ReservationSpec

\* A request is refused only when no such block is left (ip_reservation.go:75).
THEOREM RefusedWhenFull == ReservationSpec => []RefusedOnlyWhenFull
<1>1. ReservationInv => RefusedOnlyWhenFull
  BY DEF ReservationInv
<1> QED
  BY <1>1, ReservationStart, ReservationStep, PTL DEF ReservationSpec
=============================================================================
