SPECIFICATION Spec
CONSTANTS
  Block <- MCBlock
  Genesis = "g"
  NoBlock = "none"
  Parent <- MCParent
  Height <- MCHeight
  Work <- MCWork
  Ancestors <- MCAncestors
  Node = {"p", "q", "r"}
  Tx = {"x"}
  Confirms <- MCConfirms
  Maker <- MCMaker
  Pulled = {"a2", "b2"}
  MaxOrphans = 2
  RangeMax = 1
  OverFetch = 1
  Budgets <- MCBudgets
INVARIANT GossipSound
PROPERTY Spreads
CHECK_DEADLOCK FALSE
