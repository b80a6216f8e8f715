SPECIFICATION NDCEthSpec
CONSTANTS
  v1 = v1
  v2 = v2
  Validators = {v1, v2}
  FULL_STAKE = 16
  MIN_SLASHED_AMOUNT = 13
  ExitBalances = {13, 15, 16}
  Rewards = {12}
  MaxPodRewards = 12
  MaxSlashedPerSweep = 1
  MaxDelayed = 2
  WETH = WETH
  LST = LST
  Assets = {WETH, LST}
  Funds = {16}
  MaxEther = 44
  MaxLST = 8
  MaxFunds <- MCMaxFunds
  ValidatorLists <- MCLists
INVARIANTS NDCEthTypeOK DepositedOnce StakedMatchesValidators
PROPERTIES ValueFollowsTheEther ImplementsNativeNode
SYMMETRY Symmetry
CHECK_DEADLOCK FALSE
