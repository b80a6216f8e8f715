SPECIFICATION OpSpec
CONSTANTS
  v1 = v1
  Validators = {v1}
  FULL_STAKE = 1
  MIN_SLASHED_AMOUNT = 1
  ExitBalances = {}
  Rewards = {}
  MaxPodRewards = 0
  MaxSlashedPerSweep = 0
  MaxDelayed = 0
  WETH = WETH
  Assets = {WETH}
  Funds = {1}
  MaxEther = 2
  MaxFunds <- MCMaxFunds
  ValidatorLists = {}
  SsvTasks = {}
  NoRequest = NoRequest
  ERROR_THRESHOLD = 2
  Configs <- ResumeConfigs
  MaxTxs = 5
  MaxCrashes = 1
  MaxErrors = 1
INVARIANT ConfirmedMeansDone
CHECK_DEADLOCK FALSE
