SPECIFICATION QueueSpec
CONSTANTS
  n1 = n1
  n2 = n2
  n3 = n3
  NDCs = {n1, n2}
  OETH = OETH
  LST = LST
  WETH = WETH
  Assets = {OETH, WETH}
  OETHStrategy = OETHStrategy
  Strategies = {OETHStrategy}
  Underlying <- MCUnderlying
  NoStrategy = NoStrategy
  RateUnit = 1
  Rates = {1}
  ScalingFactors = {1}
  MaxWithdrawals = 0
  Limits = {9}
  DUST_AMOUNT = 1
  s1 = s1
  Stakers = {s1}
  NoStaker = NoStaker
  DEAD_ADDRESS = DEAD_ADDRESS
  Amounts = {2, 4}
  TokenSupply <- MCTokenSupply
  OneEther = 2
  Prices = {2}
  PriceMoves <- RisingPrices
  WITHDRAW_ASSET = OETH
  Managers = {}
  OethWallet = 2
  LstWallet = 1
  Wallets <- MCWallets
  NativeNDCs = {n3}
  FULL_STAKE = 2
  MIN_SLASHED_AMOUNT = 1
  MaxNativeEther = 4
  InitialQueue <- OneNDC
  NdcLimits = {1, 2, 3}
  NdcLists <- MCNdcLists
INVARIANTS QueueMatchesFlags
PROPERTIES MovingAssetsKeepsTotals
CHECK_DEADLOCK FALSE
