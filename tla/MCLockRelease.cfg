SPECIFICATION FairSpec
CONSTANTS
  n1 = n1
  a1 = a1
  a2 = a2
  s1 = s1
  v1 = v1
  v2 = v2
  Nodes = {n1}
  Vols = {v1, v2}
  Targets = {t1}
  Machines <- MCMachines
  Address <- MCAddress
  Lapses <- MCLapses
  Places <- MCPlaces
  Server <- MCServer
  Versions = {"old", "new"}
  MaxFaults = 1
INVARIANTS
  TypeOK
  LocksRecorded
  LockInv
PROPERTIES
  LiveLocksKept
  ReplacedNodesLocksReleased
CHECK_DEADLOCK FALSE
