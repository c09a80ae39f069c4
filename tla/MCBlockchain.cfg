SPECIFICATION Spec
CONSTANTS
  Block <- MCBlock
  Genesis = "g"
  NoBlock = NoBlock
  Parent <- MCParent
  Height <- MCHeight
  Work <- MCWork
  Ancestors <- MCAncestors
  BadHeader = {}
  BadPow = {"badPow"}
  BadBody = {"badBody"}
  SlowPow = {"a1", "a2", "b2", "b3", "badPow", "badBody"}
  Caller = {c1, c2, c3}
  Retention = 1
  Anchors = {"a3"}
  MinBacklog = 1
  MaxResets = 1
INVARIANTS TypeOK HeaviestChain StateAtHand IndexInLockstep RegisterSound
CHECK_DEADLOCK FALSE
