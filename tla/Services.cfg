SPECIFICATION ServicesSpec
CONSTANTS
  Coins = {1, 2, 3}
  MaxCoins = 2
  MaxScore = 2
  IdleTicks = 0
  CoolTicks = 1
  BaseLimit = 1
  StreamSymbols = {x, y}
  NoConn = NoConn
  Feeds = {a}
  Ttl = 2
  WsStale = 1
  QuoteStale = 1
  MissingLimit = 1
  Old = 2
  NoPrice = NoPrice
  Tasks = {t1, t2}
  MaxItems = 1
  NoTask = NoTask
  Calls = {c1, c2}
  Settings <- MCSettings
  NoCall = NoCall
  BtSymbols = {b1, b2}
  Permits = 2
  MaxAttempts = 2
  Delay = 2
  Backoff = 1
  PagesWanted = 2
  NoSym = NoSym
INVARIANTS PoolSound StreamShowsSubscribed OpenIsEarned 
PROPERTIES CleanMeansRecent OutcomeIsFinal RequestsSpaced 
CHECK_DEADLOCK FALSE
