SPECIFICATION Spec
CONSTANTS
  v1 = v1
  v2 = v2
  i1 = i1
  Vols = {v1, v2}
  Insts = {i1, i2}
  NoInst = NoInst
  NoVol = NoVol
  MaxShares = 2
  MinCap = 2
  MaxCap = 6
  StepSize = 2
  ShareSize <- MCNewerIsLarger
  ExpandSize <- MCExpandSize
  Kept = {v2}
  ControllerLags = {v1}
  MaxFaults = 2
  CacheLags = FALSE
  ManualDeletes = FALSE
  Migrated <- MCMigrated
  MigratedCap = 2
INVARIANTS
  PlacesInv
  ShareAtItsHandle
  DeletedWhenEmpty
  LifeInv
PROPERTIES
  ImplementsLifecycle
  ShareStaysPut
  ShrinkDecidedWithKnownRoom
CHECK_DEADLOCK TRUE
