SPECIFICATION KeySharesSpec
CONSTANTS
  v1 = v1
  tv = tv
  Validators = {v1, tv}
  FULL_STAKE = 1
  MIN_SLASHED_AMOUNT = 1
  ExitBalances = {1}
  Rewards = {}
  MaxPodRewards = 0
  MaxSlashedPerSweep = 0
  MaxDelayed = 1
  WETH = WETH
  Assets = {WETH}
  Funds = {1}
  MaxEther = 2
  MaxFunds <- MCMaxFunds
  ValidatorLists = {}
  SsvTasks <- MCSsvTasks
  t1 = t1
  Terminals = {t1}
  TestValidator = tv
  NoRequest = NoRequest
  ERROR_THRESHOLD = 2
  Configs <- ResumeConfigs
  MaxTxs = 3
  MaxCrashes = 1
  MaxErrors = 1
  NODE_DELEGATOR = NODE_DELEGATOR
  NODE_DELEGATOR_NATIVE_STAKING = NODE_DELEGATOR_NATIVE_STAKING
  NoArgument = NoArgument
  OwnerArgs <- OwnerGiven
  NoFile = NoFile
  MaxNonce = 3
INVARIANTS ActiveAreRun RegisteredAreOperated
CHECK_DEADLOCK FALSE
