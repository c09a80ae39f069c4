SPECIFICATION Spec
CONSTANTS
  W = 2
  Lanes = 2
  Space = 12
  NoEnd = NoEnd
  NoJob = NoJob
  JobId = {"slot", "narrow", "solo", "whole", "found"}
  Work <- MCWork
  MaxStarts = 2
  MaxCommands = 3
INVARIANTS NativeTypeOK Covered
PROPERTY Served
CHECK_DEADLOCK FALSE
