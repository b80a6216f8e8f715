-------------------------- MODULE NodeDelegatorETH --------------------------
(***************************************************************************)
(* contracts/NodeDelegatorETH.sol: the contract that stakes the pool's     *)
(* WETH, and any ETH it earns, to SSV validators whose withdrawal address  *)
(* is an EigenPod, and claims what the validators send to the pod.         *)
(*                                                                         *)
(* One operator is one transaction; a call that reverts is not a step.     *)
(***************************************************************************)
EXTENDS EthStaking

CONSTANTS
  MIN_SLASHED_AMOUNT,  \* 26 ether
  Assets, WETH,        \* supported tokens
  Funds,               \* amounts of ether or tokens sent at once
  MaxFunds,            \* bound: [Assets -> tokens and ether the NDC may hold]
  ValidatorLists       \* lists of validators the operator stakes, exits, removes

ASSUME NodeDelegatorETHAssumption ==
  /\ MIN_SLASHED_AMOUNT \in 1 .. FULL_STAKE
  /\ WETH \in Assets
  /\ Funds \subseteq Nat
  /\ ValidatorLists \subseteq Seq(Validators)

VARIABLES
  ethBalance,               \* address(this).balance
  tokenBalance,             \* [asset -> tokens it holds]
  eigenPod,                 \* is the pod's address recorded?
  stakedButNotVerifiedEth,
  validatorsStaked,         \* the validators whose flag is true
  ethPaused

ndcEthVars == <<ethBalance, tokenBalance, eigenPod, stakedButNotVerifiedEth,
                validatorsStaked, ethPaused>>
ethVars == <<stakingVars, ndcEthVars>>

NDCEthInit ==
  /\ StakingInit
  /\ ethBalance = 0
  /\ tokenBalance = [a \in Assets |-> 0]
  /\ eigenPod = FALSE
  /\ stakedButNotVerifiedEth = 0
  /\ validatorsStaked = {}
  /\ ethPaused = FALSE

\* getAssetBalance, the two parts added up as getAssetBalances does.
EthAssetBalance(asset) ==
  tokenBalance[asset]
    + IF asset = WETH THEN ethBalance + stakedButNotVerifiedEth ELSE 0

-----------------------------------------------------------------------------
(* Operator *)

\* Variant: flags are set only after the whole list was looked at.
NoneStakedBefore(validators) == ToSet(validators) \cap validatorsStaked = {}

\* A list with a validator that is already staked, or that it names twice, is
\* refused whole.
NoneStakedYet(validators) ==
  IsInjective(validators) /\ ToSet(validators) \cap validatorsStaked = {}

\* Ether the contract already has is used first, WETH for the rest.
StakeEth(validators) ==
  LET requiredETH == Len(validators) * FULL_STAKE
      unwrapped   == IF ethBalance < requiredETH THEN requiredETH - ethBalance ELSE 0
  IN
  /\ ~ethPaused
  /\ unwrapped <= tokenBalance[WETH]
  /\ NoneStakedYet(validators)
  /\ tokenBalance' = [tokenBalance EXCEPT ![WETH] = @ - unwrapped]
  /\ ethBalance' = ethBalance + unwrapped - requiredETH
  /\ validatorsStaked' = validatorsStaked \cup ToSet(validators)
  /\ stakedButNotVerifiedEth' = stakedButNotVerifiedEth + requiredETH
  /\ Stake(validators)
  /\ UNCHANGED <<eigenPod, ethPaused>>

RegisterSsvValidator(v) ==
  /\ ~ethPaused
  /\ RegisterValidator(v)
  /\ UNCHANGED ndcEthVars

ExitSsvValidators(vs) ==
  /\ ~ethPaused
  /\ BulkExitValidator(vs)
  /\ UNCHANGED ndcEthVars

RemoveSsvValidators(vs) ==
  /\ ~ethPaused
  /\ BulkRemoveValidator(vs)
  /\ UNCHANGED ndcEthVars

\* Neither the request nor the claim is stopped by a pause.
RequestEthWithdrawal ==
  /\ eigenPod
  /\ WithdrawBeforeRestaking
  /\ UNCHANGED ndcEthVars

\* Variant: slashed validators are not looked for.
WholeStakes(claimed) == claimed \div FULL_STAKE

\* Variant: off by one at MIN_SLASHED_AMOUNT.
ExitedAbove(claimed) ==
  claimed \div FULL_STAKE + IF claimed % FULL_STAKE > MIN_SLASHED_AMOUNT THEN 1 ELSE 0

\* How many validators claimEthWithdrawal takes the claimed ether to be from: the
\* whole stakes in it, and a slashed one when most of a stake remains.
ExitedValidators(claimed) ==
  LET fullyWithdrawn == claimed \div FULL_STAKE
      remaining      == claimed - fullyWithdrawn * FULL_STAKE
  IN fullyWithdrawn + IF remaining >= MIN_SLASHED_AMOUNT THEN 1 ELSE 0

\* With nothing to claim the call succeeds and changes nothing.
ClaimEthWithdrawal ==
  LET claimed == Head(delayedWithdrawals).eth
      exited  == ExitedValidators(claimed) * FULL_STAKE
  IN
  /\ ClaimDelayedWithdrawal
  /\ exited <= stakedButNotVerifiedEth
  /\ ethBalance' = ethBalance + claimed
  /\ stakedButNotVerifiedEth' = stakedButNotVerifiedEth - exited
  /\ UNCHANGED <<tokenBalance, eigenPod, validatorsStaked, ethPaused>>

-----------------------------------------------------------------------------
(* Manager, admin, and tokens coming in *)

CreateEigenPod ==
  /\ CreatePod
  /\ eigenPod' = TRUE
  /\ UNCHANGED <<ethBalance, tokenBalance, stakedButNotVerifiedEth, validatorsStaked, ethPaused>>

\* Variant: sends back what the contract is worth, not what it holds.
EthTransferBackWorth(asset, amount) ==
  LET wrapped == IF asset = WETH THEN ethBalance ELSE 0 IN
  /\ ~ethPaused
  /\ amount <= EthAssetBalance(asset)
  /\ tokenBalance' = [tokenBalance EXCEPT ![asset] = @ + wrapped - amount]
  /\ ethBalance' = ethBalance - wrapped
  /\ UNCHANGED <<stakingVars, eigenPod, stakedButNotVerifiedEth, validatorsStaked, ethPaused>>

\* All ether is wrapped before WETH is transferred.
EthTransferBack(asset, amount) ==
  LET wrapped == IF asset = WETH THEN ethBalance ELSE 0 IN
  /\ ~ethPaused
  /\ amount <= tokenBalance[asset] + wrapped
  /\ tokenBalance' = [tokenBalance EXCEPT ![asset] = @ + wrapped - amount]
  /\ ethBalance' = ethBalance - wrapped
  /\ UNCHANGED <<stakingVars, eigenPod, stakedButNotVerifiedEth, validatorsStaked, ethPaused>>

EthPause ==
  /\ ~ethPaused
  /\ ethPaused' = TRUE
  /\ UNCHANGED <<stakingVars, ethBalance, tokenBalance, eigenPod, stakedButNotVerifiedEth,
                 validatorsStaked>>

EthUnpause ==
  /\ ethPaused
  /\ ethPaused' = FALSE
  /\ UNCHANGED <<stakingVars, ethBalance, tokenBalance, eigenPod, stakedButNotVerifiedEth,
                 validatorsStaked>>

\* Execution rewards.
ReceiveEther(amount) ==
  /\ ethBalance' = ethBalance + amount
  /\ UNCHANGED <<stakingVars, tokenBalance, eigenPod, stakedButNotVerifiedEth,
                 validatorsStaked, ethPaused>>

\* The deposit pool transfers tokens.
EthReceiveTokens(asset, amount) ==
  /\ tokenBalance' = [tokenBalance EXCEPT ![asset] = @ + amount]
  /\ UNCHANGED <<stakingVars, ethBalance, eigenPod, stakedButNotVerifiedEth,
                 validatorsStaked, ethPaused>>

-----------------------------------------------------------------------------

\* Within the bound on what the contract holds of the asset.
Within(asset, amount) == EthAssetBalance(asset) + amount <= MaxFunds[asset]

\* Steps of the beacon chain and of time.
StakingStep ==
  /\ \/ \E v \in Validators, balance \in ExitBalances : ValidatorExits(v, balance)
     \/ \E amount \in Rewards : Within(WETH, pod.rewards + amount) /\ RewardsSwept(amount)
     \/ DelayPasses
  /\ UNCHANGED ndcEthVars

\* Ether on its way through the validators and back.
EtherNext ==
  \/ StakingStep
  \/ \E vs \in ValidatorLists : StakeEth(vs)
  \/ RequestEthWithdrawal
  \/ ClaimEthWithdrawal
  \/ \E amount \in Funds :
       \/ Within(WETH, amount) /\ ReceiveEther(amount)
       \/ \E a \in Assets : Within(a, amount) /\ EthReceiveTokens(a, amount)
       \/ \E a \in Assets : EthTransferBack(a, amount)

\* Calls that move none.
SetupNext ==
  \/ \E v \in Validators : RegisterSsvValidator(v)
  \/ \E vs \in ValidatorLists : \/ ExitSsvValidators(ToSet(vs))
                                \/ RemoveSsvValidators(ToSet(vs))
  \/ CreateEigenPod
  \/ EthPause
  \/ EthUnpause

NDCEthNext == EtherNext \/ SetupNext

NDCEthSpec == NDCEthInit /\ [][NDCEthNext]_ethVars

-----------------------------------------------------------------------------
(* What the deposit pool sees of it *)

Liquid == [a \in Assets |-> tokenBalance[a] + IF a = WETH THEN ethBalance ELSE 0]

Node == INSTANCE NativeNode WITH
  NativeNDCs   <- {"this"},
  nativeLiquid <- [n \in {"this"} |-> Liquid],
  nativeStaked <- [n \in {"this"} |-> stakedButNotVerifiedEth]

\* Rewards, exits, slashings and sweeps look to the pool like one balance that is
\* partly staked: stakes move it, and a claim changes it by less than one
\* validator can lose, however the ether of several was mixed in the pod.
ImplementsNativeNode == Node!NativeSpec

-----------------------------------------------------------------------------
(* Properties *)

NDCEthTypeOK ==
  /\ StakingTypeOK
  /\ ethBalance \in Nat
  /\ tokenBalance \in [Assets -> Nat]
  /\ eigenPod \in BOOLEAN
  /\ stakedButNotVerifiedEth \in Nat
  /\ validatorsStaked \in SUBSET Validators
  /\ ethPaused \in BOOLEAN

\* The validators whose stake has not come back to the contract.
StillStaked == {v \in Validators : stage[v] \in {"active", "exited"}}

\* stakedButNotVerifiedEth, which the price of primeETH counts, is one full stake
\* for every validator staked and not yet claimed: claimEthWithdrawal finds from
\* the amount of a withdrawal alone how many validators exited into it, whatever
\* rewards and exits were swept together.
StakedMatchesValidators ==
  stakedButNotVerifiedEth = FULL_STAKE * Cardinality(StillStaked)

\* No validator's deposit is ever made twice, nor after it has exited: its flag
\* outlives its stake, and a list cannot name it twice.
DepositedOnce ==
  \A v \in Validators :
    /\ beaconEth[v] = IF v \in validatorsStaked THEN FULL_STAKE ELSE 0
    /\ stage[v] = "none" <=> v \notin validatorsStaked

\* Staking changes where the ether is and not how much the contract is worth; a
\* claim changes it by the rewards in the withdrawal less what its validators
\* lost to slashing.
ValueFollowsTheEther ==
  [][ /\ stakedButNotVerifiedEth' > stakedButNotVerifiedEth
           => EthAssetBalance(WETH)' = EthAssetBalance(WETH)
      /\ Len(delayedWithdrawals') < Len(delayedWithdrawals)
           => LET swept == Head(delayedWithdrawals)
              IN EthAssetBalance(WETH)' =
                   EthAssetBalance(WETH) + swept.eth - FULL_STAKE * Cardinality(swept.exits)
    ]_ethVars
=============================================================================
