SPECIFICATION Spec
CONSTANTS
  Block <- MCBlock
  Genesis = "g"
  NoBlock = NoBlock
  Parent <- MCParent
  Height <- MCHeight
  Work <- MCWork
  Ancestors <- MCAncestors
  Server = {s1}
  StartTips = {"a3"}
  Invalid = {}
  Overlap = 1
  PullBatch = 2
  PushBatch = 2
  MaxAttempts = 2
  MinBacklog = 2
  Depth = 2
  MaxTail = 3
  MaxLost = 1
  MaxFaults = 1
INVARIANT TypeOK
PROPERTY Converges
