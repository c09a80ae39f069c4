SPECIFICATION Spec
CONSTANTS
  W = 2
  Lanes = 1
  Space = 8
  NoEnd = NoEnd
  NoJob = NoJob
  JobId <- MCJobId
  Work <- MCWork
  Base = 0
  MaxPoolJobs = 2
  MaxReg = 2
  MaxNative = 3
INVARIANTS PoolTypeOK InStep WorkCounted
PROPERTY KeepsWorking
CHECK_DEADLOCK FALSE
