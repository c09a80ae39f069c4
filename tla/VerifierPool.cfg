SPECIFICATION Spec
CONSTANTS
  Job = {j1, j2, j3}
  Good = {j1, j2}
  NoJob = NoJob
  WorkerId = {1, 2, 3}
  InitialSize = 2
  Sizes = {1, 2}
  MaxAttempts = 3
  MaxTerminates = 1
INVARIANTS TypeOK PoolSound
PROPERTY KeepsPromises
CHECK_DEADLOCK FALSE
