--------------------------- MODULE IPReservation ---------------------------
(***************************************************************************)
(* The IP allocator on its own, used in any order: every cidr parameter,   *)
(* every set of ranges of cloud instances, and any release.  The request   *)
(* under the allocator's mutex and its answer are kept until the mutex is  *)
(* released, to be compared with the addresses they stand for.             *)
(***************************************************************************)
EXTENDS IPAllocator, FiniteSets

CONSTANTS Cidrs,       \* reserved-ipv4-cidr parameters: [ip, size]
          CloudRanges, \* ranges instances of the cloud may have
          MaxSeen      \* how many of them at a time (a bound of the run)

\* A parameter is written with any address of its network.  Networks and blocks have
\* powers of two as sizes, so the smaller divides the larger.
ASSUME ReservationAssumption ==
  /\ Cidrs \subseteq [ip: Address, size: Nat \ {0}]
  /\ CloudRanges \subseteq Range \cup {NamedRange}
  /\ \A cidr \in Cidrs, size \in BlockSizes : size <= cidr.size => cidr.size % size = 0

VARIABLE request  \* the request being answered: [cidr, size, seen, held, range]

reservationVars == <<pendingIPRanges, request>>

NoRequest == [cidr |-> NoRange, size |-> 0, seen |-> {}, held |-> {}, range |-> NoRange]

ReservationInit == IPAllocatorInit /\ request = NoRequest

Reserve(cidr, size, seen) ==
  /\ request = NoRequest
  /\ GetUnreservedIPRange(cidr, size, seen)
  /\ request' = [cidr |-> cidr, size |-> size, seen |-> seen, held |-> pendingIPRanges,
                 range |-> Answer(cidr, size, seen)]

Answered == request # NoRequest /\ request' = NoRequest /\ UNCHANGED pendingIPRanges

Release(range) == request = NoRequest /\ ReleaseIPRange(range) /\ UNCHANGED request

ReservationNext ==
  \/ \E cidr \in Cidrs, size \in BlockSizes, seen \in SUBSET CloudRanges :
       Cardinality(seen) <= MaxSeen /\ Reserve(cidr, size, seen)
  \/ Answered
  \/ \E range \in pendingIPRanges : Release(range)

ReservationSpec == ReservationInit /\ [][ReservationNext]_reservationVars

-----------------------------------------------------------------------------
Taken == UNION {AddressesOf(r) : r \in request.held \cup (request.seen \ {NamedRange})}

\* Ranges handed out and not released share no address, whatever their sizes:
\* two creations in flight are never given overlapping ranges.
PendingDisjoint ==
  \A r, s \in pendingIPRanges : r = s \/ AddressesOf(r) \cap AddressesOf(s) = {}

\* "GetUnreservedIPRange returns an unreserved IP block" (ip_reservation.go:68):
\* of the size asked for, on its boundary, in the cidr's network, and free.
AnswerIsUnreserved ==
  LET r == request.range
  IN r # NoRange =>
       /\ r.size = request.size /\ r.base % r.size = 0
       /\ AddressesOf(r) \subseteq AddressesOf(Network(request.cidr))
       /\ AddressesOf(r) \cap Taken = {}

\* "No IP range in the CIDR is unreserved" (ip_reservation.go:75): a well-formed
\* request is refused only when every block of the network is taken.
RefusedOnlyWhenFull ==
  LET c == request.cidr
      n == request.size
  IN request # NoRequest /\ request.range = NoRange /\ ParseOK(c, n) /\ NamedRange \notin request.seen
     => \A b \in Address :
          b % n = 0 /\ AddressesOf(Block(b, n)) \subseteq AddressesOf(Network(c))
          => AddressesOf(Block(b, n)) \cap Taken # {}
=============================================================================
