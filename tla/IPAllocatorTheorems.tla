------------------------ MODULE IPAllocatorTheorems ------------------------
(***************************************************************************)
(* What the search of the IP allocator returns: lemmas for every module    *)
(* that reserves ranges.                                                   *)
(***************************************************************************)
EXTENDS IPAllocator, NaturalsInduction, WellFoundedInduction, TLAPS

\* Every nonempty set of naturals has a least element, so there is a lowest address.
LEMMA LowestIsIn == ASSUME NEW S \in SUBSET Nat, S # {}
                    PROVE  Lowest(S) \in S
<1>1. PICK n \in S : \A m \in S : ~(<<m, n>> \in OpToRel(<, Nat))
  BY NatLessThanWellFounded, WFMin
<1>2. \A m \in S : ~(m < n)
  BY <1>1 DEF OpToRel
<1>3. \A m \in S : n <= m
  BY <1>2
<1> QED
  BY <1>3 DEF Lowest

\* IsOverlap is what it is meant to be: for ranges, sharing an address.
LEMMA OverlapIsSharing ==
  ASSUME NEW r \in Range, NEW s \in Range
  PROVE  IsOverlap(r, s) <=> AddressesOf(r) \cap AddressesOf(s) # {}
<1>1. /\ r.base \in Address /\ s.base \in Address /\ Address \subseteq Nat
      /\ r.base \in Nat /\ s.base \in Nat
      /\ r.size \in Nat \ {0} /\ s.size \in Nat \ {0}
  BY IPAllocatorAssumption DEF Range, Address
<1>2. r.base \in AddressesOf(r) /\ s.base \in AddressesOf(s)
  BY <1>1 DEF AddressesOf, Contains
<1>3. ASSUME IsOverlap(r, s) PROVE AddressesOf(r) \cap AddressesOf(s) # {}
  BY <1>1, <1>2, <1>3 DEF IsOverlap, AddressesOf
<1>4. ASSUME NEW a \in AddressesOf(r) \cap AddressesOf(s) PROVE IsOverlap(r, s)
  BY <1>1 DEF IsOverlap, AddressesOf, Contains
<1> QED
  BY <1>3, <1>4

\* The answer to a request is the error, or a block of the search that overlaps
\* neither a range listed nor one handed out before.
LEMMA AnswerIsFree ==
  ASSUME NEW cidr, NEW size \in BlockSizes, NEW seen,
         Answer(cidr, size, seen) # NoRange
  PROVE  LET r == Answer(cidr, size, seen) IN
           /\ r \in Range /\ r.size = size /\ r.base \in Candidates(cidr, size)
           /\ ParseOK(cidr, size) /\ NamedRange \notin seen
           /\ \A s \in seen \cup pendingIPRanges : ~IsOverlap(r, s)
<1> DEFINE b == Lowest(Unreserved(cidr, size, seen))
<1>1. Answers(cidr, size, seen) /\ Answer(cidr, size, seen) = Block(b, size)
  BY DEF Answer
<1>2. Unreserved(cidr, size, seen) \in SUBSET Nat /\ Unreserved(cidr, size, seen) # {}
  BY <1>1, IPAllocatorAssumption DEF Answers, Unreserved, Candidates, Address
<1>3. b \in Unreserved(cidr, size, seen)
  BY <1>2, LowestIsIn
<1>4. b \in Candidates(cidr, size) /\ \A s \in seen \cup pendingIPRanges : ~IsOverlap(Block(b, size), s)
  BY <1>3 DEF Unreserved
<1>5. Block(b, size) \in Range
  BY <1>4, IPAllocatorAssumption DEF Block, Range, Candidates
<1> HIDE DEF b
<1> QED
  BY <1>1, <1>4, <1>5 DEF Answers, Block
=============================================================================
