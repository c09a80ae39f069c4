SPECIFICATION Spec
CONSTANTS
  Others = {"a1", "a2", "x"}
  Genesis = "g"
  NoBlock = NoBlock
  Block <- MCBlock
  Parent <- MCParent
  Height <- MCHeight
  Work <- MCWork
  Ancestors <- MCAncestors
  Client = {"solo", "net"}
  Invalid = {"x"}
  MaxOrphans = 1
  MaxFaults = 2
  Mine = {"m1"}
  Early = {"a2"}
  Lookback = 0
  PullMax = 2
INVARIANT SoloSound
PROPERTY KeepsUp
