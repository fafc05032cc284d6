SPECIFICATION LeasesSpec
CONSTANTS
  Nodes = {1, 2}
  Macs = {m1, m2}
  AddressBits = 3
  PoolSize = 3
  ConfigPool <- MCConfigPool
  LeaseTime = 2
  MaxTime = 3
  MaxQueue = 2
  Roaming = FALSE
  MayCrash = {}
  MayBreak <- NoConnection
  MaxFaults = 0
INVARIANTS
  NoDoubleGrant
  AckIsRecorded
  TablesAgree
PROPERTIES
  ClusterKeepsAddressBook
SYMMETRY Symmetry
CHECK_DEADLOCK FALSE
