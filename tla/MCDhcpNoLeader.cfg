SPECIFICATION Spec
CONSTANTS
  Nodes = {1, 2, 3}
  Macs = {}
  AddressBits = 3
  PoolSize = 0
  ConfigPool <- MCConfigPool
  LeaseTime = 1
  MaxTime = 0
  MaxQueue = 0
  Roaming = FALSE
  MayCrash = {3}
  MayBreak <- NoConnection
  MaxFaults = 1
INVARIANT
  SomeLeader
CHECK_DEADLOCK FALSE
