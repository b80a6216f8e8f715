SPECIFICATION MCSpec
CONSTANTS
  n1 = n1
  NDCs = {n1}
  OldStrategy = OldStrategy
  NewStrategy = NewStrategy
  OETH = OETH
  WETH = WETH
  Strategies = {OldStrategy, NewStrategy}
  Assets = {OETH, WETH}
  Underlying <- MCUnderlying
  NoStrategy = NoStrategy
  NoStaker = NoStaker
  DEAD_ADDRESS = DEAD_ADDRESS
  DUST_AMOUNT = 1
  s1 = s1
  Stakers = {s1}
  RateUnit = 1
  Rates = {1}
  ScalingFactors = {1}
  MaxWithdrawals = 2
  Limits = {9}
  TokenSupply <- MCTokenSupply
  Amounts = {1, 2}
  MaxOETH = 3
  MaxWETH = 0
INVARIANTS NDCTypeOK PendingMatchesQueue InternalClaimsSucceed RequestsBacked
PROPERTIES RequesterFixed QueueingKeepsValue StrategyChangeKeepsValue
CHECK_DEADLOCK FALSE
