SPECIFICATION AnyOperatorPoolSpec
CONSTANTS
  n1 = n1
  n2 = n2
  NDCs = {n1, n2}
  OETH = OETH
  LST = LST
  WETH = WETH
  Assets = {OETH, WETH}
  OETHStrategy = OETHStrategy
  Strategies = {OETHStrategy}
  Underlying <- MCUnderlying
  NoStrategy = NoStrategy
  RateUnit = 2
  Rates = {3}
  ScalingFactors = {2}
  MaxWithdrawals = 2
  Limits = {9}
  DUST_AMOUNT = 0
  s1 = s1
  s2 = s2
  Stakers = {s1, s2}
  NoStaker = NoStaker
  DEAD_ADDRESS = DEAD_ADDRESS
  Amounts = {1, 2}
  TokenSupply <- MCTokenSupply
  OneEther = 2
  Prices = {2}
  PriceMoves <- RisingPrices
  WITHDRAW_ASSET = OETH
  Managers = {}
  OethWallet = 2
  LstWallet = 1
  Wallets <- MCWallets
  NativeNDCs = {}
  FULL_STAKE = 2
  MIN_SLASHED_AMOUNT = 1
  MaxNativeEther = 3
  InitialQueue <- OneNDC
  NdcLimits = {1}
  NdcLists <- MCNdcLists
INVARIANTS TypeOK RequestsBacked
PROPERTIES RequesterFixed ClaimPaysTheRequester ClaimCostsThePoolNothing
SYMMETRY Symmetry
CHECK_DEADLOCK FALSE
