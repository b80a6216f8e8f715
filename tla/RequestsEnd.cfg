SPECIFICATION FairScript
CONSTANTS
  v1 = v1
  v2 = v2
  Validators = {v1, v2}
  FULL_STAKE = 1
  MIN_SLASHED_AMOUNT = 1
  ExitBalances = {}
  Rewards = {}
  MaxPodRewards = 0
  MaxSlashedPerSweep = 0
  MaxDelayed = 0
  WETH = WETH
  Assets = {WETH}
  Funds = {1}
  MaxEther = 2
  MaxFunds <- MCMaxFunds
  ValidatorLists = {}
  SsvTasks = {}
  NoRequest = NoRequest
  ERROR_THRESHOLD = 2
  Configs <- RunConfigs
  MaxTxs = 7
  MaxCrashes = 1
  MaxErrors = 1
INVARIANTS OpTypeOK
PROPERTIES RequestsEnd StakedOrGivenUp EachTxOnce
CHECK_DEADLOCK FALSE
