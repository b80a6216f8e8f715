SPECIFICATION FairTasks
CONSTANTS
  n1 = n1
  e1 = e1
  NDCs = {n1}
  NativeNDCs = {e1}
  NODE_DELEGATOR = n1
  NODE_DELEGATOR_NATIVE_STAKING = e1
  OETH = OETH
  LST = LST
  WETH = WETH
  Assets = {OETH, LST, WETH}
  OETHStrategy = OETHStrategy
  LSTStrategy = LSTStrategy
  Strategies = {OETHStrategy, LSTStrategy}
  Underlying <- MCUnderlying
  NoStrategy = NoStrategy
  RateUnit = 1
  Rates = {1}
  ScalingFactors = {1}
  MaxWithdrawals = 0
  Limits = {9}
  DUST_AMOUNT = 1
  s1 = s1
  Stakers = {s1}
  NoStaker = NoStaker
  DEAD_ADDRESS = DEAD_ADDRESS
  Amounts = {2}
  TokenSupply <- MCTokenSupply
  OneEther = 1
  Prices = {1}
  PriceMoves <- NoRise
  WITHDRAW_ASSET = OETH
  Managers = {}
  OethWallet = 4
  LstWallet = 2
  EthWallet = 2
  Wallets <- MCWallets
  FULL_STAKE = 2
  MIN_SLASHED_AMOUNT = 1
  MaxNativeEther = 0
  InitialQueue <- Deployment
  NdcLimits = {2}
  NdcLists = {}
  LSTs <- MCLSTs
  MinDeposit <- MCMinDeposit
  t1 = t1
  Terminals = {t1}
  DepositELArgs <- MatchingArgs
  WithdrawNodeArgs <- WethArgs
  MaxDeaths = 1
INVARIANTS RunTypeOK TransferredCanBeDeposited
PROPERTIES PoolIsEmptied IdleTokensAreDeposited
CHECK_DEADLOCK FALSE
