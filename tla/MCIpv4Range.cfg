SPECIFICATION Spec
CONSTANTS
  AddressBits = 3
  MaxParts = 4
INVARIANTS
  TypeOK
  DivideIsPartition
  ScanFindsFreeAddress
  CidrPool
