SPECIFICATION QueueSpec
CONSTANTS
  n1 = n1
  NDCs = {n1}
  OETH = OETH
  LST = LST
  WETH = WETH
  Assets = {OETH, LST, WETH}
  OETHStrategy = OETHStrategy
  Strategies = {OETHStrategy}
  Underlying <- MCUnderlying
  NoStrategy = NoStrategy
  RateUnit = 1
  Rates = {1}
  ScalingFactors = {1}
  MaxWithdrawals = 2
  Limits = {9}
  DUST_AMOUNT = 1
  s1 = s1
  Stakers = {s1}
  NoStaker = NoStaker
  DEAD_ADDRESS = DEAD_ADDRESS
  Amounts = {1, 2}
  TokenSupply <- MCTokenSupply
  OneEther = 2
  Prices = {2, 3}
  PriceMoves <- RisingPrices
  WITHDRAW_ASSET = OETH
  Managers = {s1}
  OethWallet = 2
  LstWallet = 1
  Wallets <- MCWallets
  NativeNDCs = {}
  FULL_STAKE = 2
  MIN_SLASHED_AMOUNT = 1
  MaxNativeEther = 3
  InitialQueue <- OneNDC
  NdcLimits = {1}
  NdcLists <- MCNdcLists
INVARIANT StoredPriceIsBacked
PROPERTIES RoundingFavoursThePool MovingAssetsKeepsTotals
CHECK_DEADLOCK FALSE
