SPECIFICATION LeasesSpec
CONSTANTS
  Nodes = {1, 2}
  Macs = {m1, m2}
  AddressBits = 3
  PoolSize = 2
  ConfigPool <- MCConfigPool
  LeaseTime = 1
  MaxTime = 2
  MaxQueue = 2
  Roaming = TRUE
  MayCrash = {}
  MayBreak <- NoConnection
  MaxFaults = 0
INVARIANTS
  NoDoubleGrant
CHECK_DEADLOCK FALSE
