SPECIFICATION Spec
CONSTANTS
  Macs = {m1, m2}
  AddressBits = 3
  LeaseTime = 2
  MaxTime = 3
  MaxAge = 0
  PoolSize = 2
  Pools <- MCPools
INVARIANTS
  TypeOK
  ExclusiveHolder
  CursorInPool
  RefusedOnlyWhenFull
SYMMETRY Symmetry
PROPERTIES
  OffersFromPool
  KeepsAddressBook
