SPECIFICATION Spec
CONSTANTS
  Macs = {m1, m2}
  MaxConns = 3
  Workers = 2
  MayGiveUp = {m1}
  AddressBits = 3
  PoolSize = 2
  Pool <- MCPool
  LeaseTime = 1
  MaxTime = 1
  MaxFlips = 1
INVARIANTS
  TypeOK
  HeldIsLeased
  OffersStand
  OneLeaseEach
PROPERTIES
  WorkersReturn
  QueriesEnd
CHECK_DEADLOCK FALSE
