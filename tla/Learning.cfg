SPECIFICATION LearningSpec
CONSTANTS
  Sides = {"LONG", "SHORT"}
  Pnls <- MCPnls
  MaxPositions = 3
  MaxEvolves = 2
  MaxOpen = 1
  MinBlock = 2
  MinForward = 1
  MinTrades = 2
  MinWinners = 1
  Split = 7
  NoRec = NoRec
  Candles = 5
  Horizon = 3
  Shapes <- MCShapes
  Target = 20
  Trail = 8
  Cost = 1
  MinBt = 2
  MinBtHold = 1
  SplitTenths = 7
  Idle = Idle
  Flanks = {"LONG"}
  AuditTtl = 1
  BlockTtl = 2
  LastMoment = 3
  Nothing = Nothing
  Ahead = 1
  LastScan = 7
  MaxGaps = 0
  MaxFits = 2
  TrainLimit = 6
  SampleCap = 6
  MinSamples = 6
  MinFresh = 1
  MinSplit = 4
  Floor = 1
  BestScore = 2
  NoModel = NoModel
  MarketRows <- MCRows
  LastRow = 5
  Params <- MCParams
  SeedParams <- MCSeeds
  MaxMade = 2
  PoolLimit = 2
  WindowCount = 3
  MinAlphaTrades = 3
  CostR = 1
  Pairs = {p, q}
  TradePnls <- MCGuardPnls
  MaxCloses = 3
  LastHour = 1
  GuardMaxOpen = 2
  BlockTrades = 2
  RecoveryRows = 2
  RecentRows = 2
  ReleaseRows = 2
  StreakLimit = 2
  CoolHours = 0
  NoCandidate = NoCandidate
  MaxAge = 1
  Slow = 1
  LastTick = 4
  Flaws = {wick}
  Gains <- MCPnls
  MaxBook = 4
  MinMatched = 2
  MinRule = 3
  Slack = 0
INVARIANTS CountedOnce  ReportIsHonest   GateHasEvidence StageIsHonest BlocksAreEarned
PROPERTIES  BlockedSideStops  VerdictsStand
SYMMETRY PairSymmetry
CHECK_DEADLOCK FALSE
