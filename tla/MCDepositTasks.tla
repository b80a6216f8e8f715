--------------------------- MODULE MCDepositTasks ---------------------------
(* The deposit tasks on a small instance: one NodeDelegator of each kind.    *)
EXTENDS DepositTasks

CONSTANTS
  OETH, LST, OETHStrategy, LSTStrategy,
  OethWallet, LstWallet, EthWallet   \* tokens of each asset a staker starts with

MCUnderlying == [s \in Strategies |-> IF s = OETHStrategy THEN OETH ELSE LST]
MCWallets ==
  [s \in Stakers |-> [a \in Assets |->
     CASE a = OETH -> OethWallet [] a = LST -> LstWallet [] a = WETH -> EthWallet]]
MCTokenSupply == [a \in Assets |-> 0]
MCLSTs == SetToSeq(Assets \ {WETH})
Deployment == <<NODE_DELEGATOR, NODE_DELEGATOR_NATIVE_STAKING>>
NoRise == {}

\* Smaller than the code's 32 of depositEL and transferWETH and 0.1 of depositAllEL:
\* depositEL's differs from the actions', so that a balance may be enough for one only.
MCMinDeposit == [task \in DefenderActions \cup {"depositEL"} |-> IF task = "depositEL" THEN 3 ELSE 2]

\* The commands that name a NodeDelegator for the asset.
MatchingArgs == {[symbol |-> OETH, index |-> 0], [symbol |-> "ALL", index |-> 0]}
WethArgs     == {[symbol |-> WETH, index |-> 1]}

MCTasksInit ==
  /\ Init /\ TasksInit
  /\ assetStrategy = [a \in Assets |-> CASE a = OETH -> OETHStrategy
                                         [] a = LST -> LSTStrategy
                                         [] OTHER -> NoStrategy]
  /\ supportedAssets = Assets

FairTasks == MCTasksInit /\ [][TasksNext]_depositTaskVars /\ TasksFairness
=============================================================================
