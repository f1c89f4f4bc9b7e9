SPECIFICATION ReservationSpec
CONSTANTS
  AddrSpace = 8
  BlockSizes <- MCBlockSizes
  NamedRange = NamedRange
  NoRange = NoRange
  Cidrs <- MCCidrs
  CloudRanges <- MCCloudRanges
  MaxSeen = 2
INVARIANTS
  PendingDisjoint
  AnswerIsUnreserved
  RefusedOnlyWhenFull
CHECK_DEADLOCK TRUE
