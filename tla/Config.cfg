SPECIFICATION ConfigSpec
CONSTANTS
  n1 = n1
  NDCs = {n1}
  OETH = OETH
  LST = LST
  WETH = WETH
  Assets = {OETH, WETH}
  OETHStrategy = OETHStrategy
  NewStrategy = NewStrategy
  Strategies = {OETHStrategy, NewStrategy}
  Underlying <- MCUnderlying
  NoStrategy = NoStrategy
  RateUnit = 1
  Rates = {1}
  ScalingFactors = {1}
  MaxWithdrawals = 1
  Limits = {1, 3}
  DUST_AMOUNT = 0
  s1 = s1
  s2 = s2
  Stakers = {s1, s2}
  NoStaker = NoStaker
  DEAD_ADDRESS = DEAD_ADDRESS
  Amounts = {2}
  TokenSupply <- MCTokenSupply
  OneEther = 2
  Prices = {2}
  PriceMoves <- RisingPrices
  WITHDRAW_ASSET = OETH
  Managers = {}
  OethWallet = 2
  LstWallet = 1
  Wallets <- MCWallets
  NativeNDCs = {}
  FULL_STAKE = 2
  MIN_SLASHED_AMOUNT = 1
  MaxNativeEther = 3
  InitialQueue <- OneNDC
  NdcLimits = {2}
  NdcLists = {}
PROPERTIES DepositsRespectTheLimit PauseFreezesStakers ImplementsRedemption
SYMMETRY Symmetry
CHECK_DEADLOCK FALSE
