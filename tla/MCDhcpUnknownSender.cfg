SPECIFICATION Spec
CONSTANTS
  Nodes = {1, 2, 3}
  Macs = {}
  AddressBits = 3
  PoolSize = 0
  ConfigPool <- MCConfigPool
  LeaseTime = 1
  MaxTime = 0
  MaxQueue = 0
  Roaming = FALSE
  MayCrash = {}
  MayBreak <- NoConnection
  MaxFaults = 0
INVARIANT
  ElectionSenderKnown
CHECK_DEADLOCK FALSE
