----------------------------- MODULE EthStaking -----------------------------
(***************************************************************************)
(* What native ETH goes through outside the Prime contracts: the SSV       *)
(* network (contracts/interfaces/ISSVNetwork.sol), the beacon chain and    *)
(* EigenLayer's EigenPodManager, EigenPod and DelayedWithdrawalRouter      *)
(* (contracts/eigen/interfaces).  External: modelled from the interfaces   *)
(* and from how NodeDelegatorETH uses them.                                *)
(*                                                                         *)
(* The ether of validator exits and of rewards is mixed in the pod.  A     *)
(* sweep keeps, beside its amount, which validators are in it: that is     *)
(* what NodeDelegatorETH has to work out from the amount alone.            *)
(***************************************************************************)
EXTENDS Integers, FiniteSets, SequencesExt

CONSTANTS
  Validators,          \* public keys
  FULL_STAKE,          \* 32 ether
  ExitBalances,        \* balances a validator may exit with
  Rewards,             \* consensus rewards swept at once
  MaxPodRewards,       \* rewards that gather in the pod between two requests
  MaxSlashedPerSweep,  \* slashed exits that gather in it between two requests
  MaxDelayed           \* bound: withdrawals waiting in the router

ASSUME EthStakingAssumption ==
  /\ FULL_STAKE \in Nat \ {0}
  /\ ExitBalances \subseteq 1 .. FULL_STAKE
  /\ Rewards \subseteq Nat \ {0}
  /\ MaxPodRewards \in Nat
  /\ MaxSlashedPerSweep \in Nat
  /\ MaxDelayed \in Nat

VARIABLES
  podDeployed,         \* does the EigenPodManager have a pod for the NDC?
  ssvValidators,       \* validators registered with the SSV network
  exitRequested,       \* validators whose SSV operators were told to exit
  beaconEth,           \* [validator -> ether deposited for it]
  stage,               \* [validator -> where its stake is]
  pod,                 \* the ether in the EigenPod, a sweep
  delayedWithdrawals,  \* the router's withdrawals of the NDC, oldest first
  claimable            \* how many of them have waited long enough

stakingVars == <<podDeployed, ssvValidators, exitRequested, beaconEth, stage,
                 pod, delayedWithdrawals, claimable>>
routerVars  == <<delayedWithdrawals, claimable>>
ssvVars     == <<ssvValidators, exitRequested>>

Stages == {"none", "active", "exited", "claimed"}

Sweeps == [eth : Nat, rewards : Nat, slashed : Nat, exits : SUBSET Validators]

NoEther == [eth |-> 0, rewards |-> 0, slashed |-> 0, exits |-> {}]

StakingInit ==
  /\ podDeployed = FALSE
  /\ ssvValidators = {}
  /\ exitRequested = {}
  /\ beaconEth = [v \in Validators |-> 0]
  /\ stage = [v \in Validators |-> "none"]
  /\ pod = NoEther
  /\ delayedWithdrawals = <<>>
  /\ claimable = 0

StakingTypeOK ==
  /\ podDeployed \in BOOLEAN
  /\ ssvValidators \in SUBSET Validators
  /\ exitRequested \in SUBSET Validators
  /\ beaconEth \in [Validators -> Nat]
  /\ stage \in [Validators -> Stages]
  /\ pod \in Sweeps
  /\ delayedWithdrawals \in Seq(Sweeps)
  /\ claimable \in 0 .. Len(delayedWithdrawals)

-----------------------------------------------------------------------------
(* Calls *)

CreatePod ==
  /\ ~podDeployed
  /\ podDeployed' = TRUE
  /\ UNCHANGED <<ssvVars, beaconEth, stage, pod, routerVars>>

\* EigenPodManager.stake once for each validator of the list.  It "also creates
\* an EigenPod for the sender if they don't have one already".
Stake(validators) ==
  LET times(v) == Cardinality({i \in DOMAIN validators : validators[i] = v}) IN
  /\ podDeployed' = (podDeployed \/ validators # <<>>)
  /\ beaconEth' = [v \in Validators |-> beaconEth[v] + FULL_STAKE * times(v)]
  /\ stage' = [v \in Validators |-> IF times(v) > 0 THEN "active" ELSE stage[v]]
  /\ UNCHANGED <<ssvVars, pod, routerVars>>

\* A validator that is registered may not be registered again.
RegisterValidator(v) ==
  /\ v \notin ssvValidators
  /\ ssvValidators' = ssvValidators \cup {v}
  /\ UNCHANGED <<podDeployed, exitRequested, beaconEth, stage, pod, routerVars>>

BulkExitValidator(vs) ==
  /\ vs \subseteq ssvValidators
  /\ exitRequested' = exitRequested \cup vs
  /\ UNCHANGED <<podDeployed, ssvValidators, beaconEth, stage, pod, routerVars>>

BulkRemoveValidator(vs) ==
  /\ vs \subseteq ssvValidators
  /\ ssvValidators' = ssvValidators \ vs
  /\ UNCHANGED <<podDeployed, exitRequested, beaconEth, stage, pod, routerVars>>

\* All the pod's ether becomes one delayed withdrawal; an empty pod makes none.
WithdrawBeforeRestaking ==
  /\ podDeployed
  /\ pod.eth > 0
  /\ Len(delayedWithdrawals) < MaxDelayed
  /\ delayedWithdrawals' = Append(delayedWithdrawals, pod)
  /\ pod' = NoEther
  /\ UNCHANGED <<podDeployed, ssvVars, beaconEth, stage, claimable>>

\* claimDelayedWithdrawals(1): the oldest withdrawal, if it may be claimed.
ClaimDelayedWithdrawal ==
  /\ claimable > 0
  /\ claimable' = claimable - 1
  /\ delayedWithdrawals' = Tail(delayedWithdrawals)
  /\ stage' = [v \in Validators |->
                 IF v \in Head(delayedWithdrawals).exits THEN "claimed" ELSE stage[v]]
  /\ UNCHANGED <<podDeployed, ssvVars, beaconEth, pod>>

-----------------------------------------------------------------------------
(* The beacon chain and time *)

\* v leaves with the given balance, which is swept to the pod: a full one after
\* a voluntary exit, less when it was slashed.
ValidatorExits(v, balance) ==
  LET slashed == IF balance < FULL_STAKE THEN 1 ELSE 0 IN
  /\ stage[v] = "active"
  /\ balance = FULL_STAKE => v \in exitRequested
  /\ pod.slashed + slashed <= MaxSlashedPerSweep
  /\ stage' = [stage EXCEPT ![v] = "exited"]
  /\ pod' = [pod EXCEPT !.eth = @ + balance,
                        !.slashed = @ + slashed,
                        !.exits = @ \cup {v}]
  /\ UNCHANGED <<podDeployed, ssvVars, beaconEth, routerVars>>

RewardsSwept(amount) ==
  /\ \E v \in Validators : stage[v] = "active"
  /\ pod.rewards + amount <= MaxPodRewards
  /\ pod' = [pod EXCEPT !.eth = @ + amount, !.rewards = @ + amount]
  /\ UNCHANGED <<podDeployed, ssvVars, beaconEth, stage, routerVars>>

\* withdrawalDelayBlocks pass for the oldest withdrawal that still waits.
DelayPasses ==
  /\ claimable < Len(delayedWithdrawals)
  /\ claimable' = claimable + 1
  /\ UNCHANGED <<podDeployed, ssvVars, beaconEth, stage, pod, delayedWithdrawals>>
=============================================================================
