SPECIFICATION ElectionSpec
CONSTANTS
  Nodes = {1, 2}
  Macs = {}
  AddressBits = 3
  PoolSize = 3
  ConfigPool <- MCConfigPool
  LeaseTime = 1
  MaxTime = 0
  MaxQueue = 0
  Roaming = FALSE
  MayCrash = {1, 2}
  MayBreak <- FirstConnection
  MaxFaults = 4
INVARIANTS
  TypeOK
  CoordinatorKnowsItself
  WaitingHasTimer
  ElectsHighest
  PoolsPartition
CHECK_DEADLOCK FALSE
