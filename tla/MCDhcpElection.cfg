SPECIFICATION ElectionSpec
CONSTANTS
  Nodes = {1, 2, 3}
  Macs = {}
  AddressBits = 3
  PoolSize = 0
  ConfigPool <- MCConfigPool
  LeaseTime = 1
  MaxTime = 0
  MaxQueue = 0
  Roaming = FALSE
  MayCrash = {}
  MayBreak <- NoConnection
  MaxFaults = 0
INVARIANTS
  ElectsHighest
  AgreeOnCoordinator
PROPERTIES
  EventuallyHighestLeads
CHECK_DEADLOCK FALSE
