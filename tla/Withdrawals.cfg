SPECIFICATION DeployedSpec
CONSTANTS
  n1 = n1
  e1 = e1
  NDCs = {n1}
  NativeNDCs = {e1}
  NODE_DELEGATOR = n1
  NODE_DELEGATOR_NATIVE_STAKING = e1
  OETH = OETH
  LST = LST
  WETH = WETH
  Assets = {OETH, LST, WETH}
  OETHStrategy = OETHStrategy
  LSTStrategy = LSTStrategy
  Strategies = {OETHStrategy, LSTStrategy}
  Underlying <- MCUnderlying
  NoStrategy = NoStrategy
  RateUnit = 1
  Rates = {1}
  ScalingFactors = {1}
  MaxWithdrawals = 2
  Limits = {99}
  DUST_AMOUNT = 1
  s1 = s1
  Stakers = {s1}
  NoStaker = NoStaker
  DEAD_ADDRESS = DEAD_ADDRESS
  Amounts = {10}
  TokenSupply <- MCTokenSupply
  OneEther = 1
  Prices = {1}
  PriceMoves <- NoRise
  WITHDRAW_ASSET = OETH
  Managers = {}
  OethWallet = 10
  LstWallet = 10
  EthWallet = 0
  Wallets <- MCWallets
  FULL_STAKE = 2
  MIN_SLASHED_AMOUNT = 1
  MaxNativeEther = 0
  InitialQueue <- Deployment
  NdcLimits = {2}
  NdcLists = {}
  LSTs <- MCLSTs
  MinDeposit <- MCMinDeposit
  t1 = t1
  t2 = t2
  Terminals = {t1, t2}
  DepositELArgs <- NoArgs
  WithdrawNodeArgs <- NoArgs
  MaxDeaths = 0
  SharesArgs <- MCSharesArgs
  AllShares = AllShares
INVARIANTS EveryWithdrawalIsReachable
PROPERTIES ClaimedWhenDone ClaimsStopForAReason
SYMMETRY TerminalSymmetry
CHECK_DEADLOCK FALSE
