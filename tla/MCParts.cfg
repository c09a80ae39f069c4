SPECIFICATION MCSpec
CONSTANTS
  MaxStack = 8
  MaxOps = 14
  MaxWitness = 6
  MaxKeys = 3
  NumLimit = 50
  WideLimit = 1000
  Threshold = 100
  Pace = 2
  HalfLife = 8
  Mult = 6
  Floor = 48
  Fork = 3
  ResetTarget = 24
  Estimate = 4
  Anchor2 = 8
  Need = 48
  Rates = {0, 8, 24, 40}
  MaxChanges = 3
  Interval = 2
  Dense = 3
  Weekly = 7
  Week = 4
  Month = 6
  MaxTime = 14
  ArchiveServers = {"s"}
  Confirmations = 1
  ChunkSize = 2
  PerRequest = 1
  MaxHeight = 5
  MaxRuns = 1
  LinkNodes = {"a", "b"}
  MinPeers = 1
  MaxPeers = 2
  LinkLimits = {1, 2}
  Passes = {1}
  MaxEpoch = 1
  LinkTroubles = 1
  MaxWorkers = 2
  MinerBudgets <- MCBudgets
  BeatNodes = {"a"}
  BeatServers = {"s", "t"}
  Period = 3
  StaleAfter = 6
  MiningTtl = 9
  Amnesia = 6
  Travel = 1
  BeatTroubles = 2
INVARIANTS   LinksSound  MinerSound
PROPERTIES RetargetSound HelpersSettle TunerHolds KeepsGrinding TxsDelivered
\* A script ends, the clocks are bounded, and a network may be left without timers.
CHECK_DEADLOCK FALSE
