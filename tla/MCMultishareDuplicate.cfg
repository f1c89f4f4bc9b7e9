SPECIFICATION Spec
CONSTANTS
  v1 = v1
  v2 = v2
  Vols = {v1, v2}
  Insts = {i1, i2}
  Workers = {w1, w2}
  NoInst = NoInst
  NoVol = NoVol
  NoWorker = NoWorker
  MaxShares = 2
  MinCap = 2
  MaxCap = 4
  StepSize = 2
  ShareSize <- MCShareSize
  ExpandSize <- MCExpandSize
  Protocol <- MCProtocol
  FaultsBounded = TRUE
  MaxFaults = 1
SYMMETRY MCSymmetry
INVARIANTS
  UniqueShareName
CHECK_DEADLOCK TRUE
