SPECIFICATION FairSpec
CONSTANTS
  v1 = v1
  v2 = v2
  i1 = i1
  Vols = {v1, v2}
  Insts = {i1, i2}
  NoInst = NoInst
  NoVol = NoVol
  MaxShares = 2
  MinCap = 2
  MaxCap = 6
  StepSize = 2
  ShareSize <- MCShareSize
  ExpandSize <- MCNoExpandSize
  Kept = {}
  ControllerLags = {}
  MaxFaults = 1
  CacheLags = FALSE
  ManualDeletes = TRUE
  Migrated <- MCMigrated
  MigratedCap = 2
INVARIANTS
  TypeOK
  LinksInv
PROPERTIES
  WantedGetsBound
  ReleasedGetsDeleted
  InstancesReclaimed
CHECK_DEADLOCK TRUE
