SPECIFICATION Spec
CONSTANTS
  MaxConns = 3
  MaxFaults = 2
INVARIANTS
  TypeOK
  NoStrayThreads
  PanicsOnlyIfProvoked
  TablesMatch
PROPERTIES
  MainReturns
  ReconnectsInTheEnd
CHECK_DEADLOCK FALSE
