SPECIFICATION Spec
CONSTANTS
  v1 = v1
  v2 = v2
  Vols = {v1, v2}
  Snaps = {s1}
  NoVol = NoVol
  NoSnap = NoSnap
  Workers = {w1, w2}
  AddrSpace = 8
  BlockSizes = {2}
  BlockSize = 2
  NamedRange = NamedRange
  NoRange = NoRange
  Cidr <- MCTwoRanges
  MultishareRanges = {}
  SourceOf <- MCSourceOf
  BaseSize = 1
  ExpandSizes <- MCTwoSizes
  Tunable = {v1}
  SizesOnlyGrow = TRUE
  MaxFaults = 2
SYMMETRY MCSymmetry
INVARIANTS
  TypeOK
  RangesHeld
  SnapshotAsTold
  VolumesInv
PROPERTIES
  ImplementsLifecycle
CHECK_DEADLOCK TRUE
