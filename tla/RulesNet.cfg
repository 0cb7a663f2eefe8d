SPECIFICATION AttributionSpec
CONSTANTS
  Flaws = {wick}
  Gains <- MCGains
  MaxBook = 5
  MinMatched = 2
  MinRule = 3
  Slack = 0
INVARIANT RulesLoseOnNet
CHECK_DEADLOCK FALSE
