SPECIFICATION Spec
CONSTANTS
  Callers = {c1, c2}
  Sizes = {1, 2, 3}
  MaxQueue = 4
INVARIANTS
  TypeOK
  NoExcessWorkers
PROPERTIES
  JobRuns
  JobRunsInUse
  DropEnds
CHECK_DEADLOCK FALSE
