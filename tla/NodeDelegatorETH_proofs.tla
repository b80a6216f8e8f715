----------------------- MODULE NodeDelegatorETH_proofs -----------------------
(***************************************************************************)
(* Proofs about NodeDelegatorETH, for any validators, stakes, rewards and  *)
(* exits: no validator is deposited twice.  The inductive invariant adds   *)
(* that ether on its way back only comes from validators whose flag is     *)
(* set, so that no claim gives an unstaked validator a stage.  In the      *)
(* second part, the amount the contract counts as staked.                  *)
(***************************************************************************)
EXTENDS NodeDelegatorETH, FiniteSetTheorems, SequenceTheorems, TLAPS

\* Whoever's stake is in the pod or in the router was staked by the contract.
ExitsWereStaked ==
  /\ pod.exits \subseteq validatorsStaked
  /\ \A i \in DOMAIN delayedWithdrawals : delayedWithdrawals[i].exits \subseteq validatorsStaked

EthIInv == NDCEthTypeOK /\ DepositedOnce /\ ExitsWereStaked

USE EthStakingAssumption, NodeDelegatorETHAssumption
    DEF EthStakingAssumption, NodeDelegatorETHAssumption

-----------------------------------------------------------------------------
(* Lemmas about the operators *)

\* A list that names no validator twice makes one deposit for each it names.
LEMMA OneDepositEach ==
  ASSUME NEW validators \in Seq(Validators), IsInjective(validators), NEW v \in Validators
  PROVE  Cardinality({i \in DOMAIN validators : validators[i] = v})
           = IF v \in ToSet(validators) THEN 1 ELSE 0
<1>. DEFINE places == {i \in DOMAIN validators : validators[i] = v}
<1>1. CASE v \in ToSet(validators)
  <2>1. PICK i \in DOMAIN validators : validators[i] = v
    BY <1>1 DEF ToSet
  <2>2. places = {i}
    BY <2>1 DEF IsInjective
  <2>. QED
    BY <1>1, <2>2, FS_Singleton
<1>2. CASE v \notin ToSet(validators)
  <2>1. places = {}
    BY <1>2 DEF ToSet
  <2>. QED
    BY <1>2, <2>1, FS_EmptySet
<1>. QED
  BY <1>1, <1>2

LEMMA ExitedType ==
  ASSUME NEW claimed \in Nat
  PROVE  ExitedValidators(claimed) \in Nat
<1>1. claimed \div FULL_STAKE \in Nat
  OBVIOUS
<1>. QED
  BY <1>1 DEF ExitedValidators

LEMMA ListType ==
  ASSUME NEW validators \in Seq(Validators)
  PROVE  ToSet(validators) \subseteq Validators
BY ElementOfSeq DEF ToSet

\* The withdrawal that is claimed, and those that wait after it.
LEMMA ClaimedSweep ==
  ASSUME StakingTypeOK, claimable > 0
  PROVE  /\ Head(delayedWithdrawals) \in Sweeps
         /\ Head(delayedWithdrawals) = delayedWithdrawals[1]
         /\ 1 \in DOMAIN delayedWithdrawals
         /\ Tail(delayedWithdrawals) \in Seq(Sweeps)
         /\ Len(Tail(delayedWithdrawals)) = Len(delayedWithdrawals) - 1
         /\ \A i \in DOMAIN Tail(delayedWithdrawals) :
              /\ i + 1 \in DOMAIN delayedWithdrawals
              /\ Tail(delayedWithdrawals)[i] = delayedWithdrawals[i + 1]
<1>1. /\ delayedWithdrawals \in Seq(Sweeps)
      /\ claimable \in 0 .. Len(delayedWithdrawals)
      /\ Len(delayedWithdrawals) \in Nat
  BY DEF StakingTypeOK
<1>2. delayedWithdrawals # <<>>
  BY <1>1
<1>. QED
  BY <1>1, <1>2, HeadTailProperties

\* Rewards that go into the pod.
LEMMA RewardSwept ==
  ASSUME NEW sweep \in Sweeps, NEW eth \in Nat, NEW rewards \in Nat
  PROVE  LET reward == [sweep EXCEPT !.eth = eth, !.rewards = rewards]
         IN reward \in Sweeps /\ reward.exits = sweep.exits
BY DEF Sweeps

\* The parts of a sweep.
LEMMA SweepType ==
  ASSUME NEW sweep \in Sweeps
  PROVE  /\ sweep.eth \in Nat /\ sweep.rewards \in Nat /\ sweep.slashed \in Nat
         /\ sweep.exits \in SUBSET Validators
BY DEF Sweeps

-----------------------------------------------------------------------------
(* One lemma per operation that moves ether or validators *)

LEMMA StakeIInv ==
  ASSUME EthIInv, NEW validators \in Seq(Validators), StakeEth(validators)
  PROVE  EthIInv'
<1>. DEFINE requiredETH == Len(validators) * FULL_STAKE
            unwrapped   == IF ethBalance < requiredETH THEN requiredETH - ethBalance ELSE 0
            times(v)    == Cardinality({i \in DOMAIN validators : validators[i] = v})
<1>1. NDCEthTypeOK /\ StakingTypeOK
  BY DEF EthIInv, NDCEthTypeOK
<1>2. /\ validators \in Seq(Validators) /\ ToSet(validators) \subseteq Validators
      /\ IsInjective(validators) /\ ToSet(validators) \cap validatorsStaked = {}
  BY ListType DEF StakeEth, NoneStakedYet
<1>3. \A v \in Validators : times(v) = IF v \in ToSet(validators) THEN 1 ELSE 0
  BY <1>2, OneDepositEach
<1>4. /\ validatorsStaked' = validatorsStaked \cup ToSet(validators)
      /\ beaconEth' = [v \in Validators |-> beaconEth[v] + FULL_STAKE * times(v)]
      /\ stage' = [v \in Validators |-> IF times(v) > 0 THEN "active" ELSE stage[v]]
      /\ UNCHANGED <<ssvVars, pod, routerVars>>
      /\ podDeployed' = (podDeployed \/ validators # <<>>)
  BY DEF StakeEth, Stake
<1>. HIDE DEF times
<1>5. /\ \A v \in ToSet(validators) : beaconEth'[v] = beaconEth[v] + FULL_STAKE
                                        /\ stage'[v] = "active"
      /\ \A v \in Validators \ ToSet(validators) : beaconEth'[v] = beaconEth[v]
                                                   /\ stage'[v] = stage[v]
  <2>1. \A v \in Validators : beaconEth[v] \in Nat
    BY <1>1 DEF StakingTypeOK
  <2>. QED
    BY <1>2, <1>3, <1>4, <2>1
<1>6. StakingTypeOK'
  <2>1. beaconEth' \in [Validators -> Nat]
    <3>1. \A v \in Validators : beaconEth'[v] \in Nat
      BY <1>1, <1>2, <1>5 DEF StakingTypeOK
    <3>. QED
      BY <1>4, <3>1
  <2>2. stage' \in [Validators -> Stages]
    <3>1. \A v \in Validators : stage'[v] \in Stages
      BY <1>1, <1>2, <1>5 DEF StakingTypeOK, Stages
    <3>. QED
      BY <1>4, <3>1
  <2>3. podDeployed' \in BOOLEAN
    BY <1>4
  <2>. QED
    BY <1>1, <1>4, <2>1, <2>2, <2>3 DEF StakingTypeOK, ssvVars, routerVars
<1>7. NDCEthTypeOK'
  <2>1. Len(validators) \in Nat /\ requiredETH \in Nat
    BY <1>2
  <2>2. /\ ethBalance \in Nat /\ stakedButNotVerifiedEth \in Nat
        /\ tokenBalance \in [Assets -> Nat] /\ tokenBalance[WETH] \in Nat
    BY <1>1 DEF NDCEthTypeOK
  <2>. HIDE DEF requiredETH
  <2>3. unwrapped \in Nat /\ ethBalance + unwrapped - requiredETH \in Nat
    BY <2>1, <2>2
  <2>4. /\ unwrapped <= tokenBalance[WETH]
        /\ tokenBalance' = [tokenBalance EXCEPT ![WETH] = @ - unwrapped]
        /\ ethBalance' = ethBalance + unwrapped - requiredETH
        /\ stakedButNotVerifiedEth' = stakedButNotVerifiedEth + requiredETH
        /\ UNCHANGED <<eigenPod, ethPaused>>
    BY DEF StakeEth, requiredETH
  <2>. HIDE DEF unwrapped
  <2>5. tokenBalance' \in [Assets -> Nat]
    BY <2>2, <2>3, <2>4
  <2>. QED
    BY <1>1, <1>2, <1>4, <1>6, <2>1, <2>2, <2>3, <2>4, <2>5 DEF NDCEthTypeOK
<1>8. DepositedOnce'
  <2>. SUFFICES ASSUME NEW v \in Validators
                PROVE  /\ beaconEth'[v] = IF v \in validatorsStaked' THEN FULL_STAKE ELSE 0
                       /\ stage'[v] = "none" <=> v \notin validatorsStaked'
    BY DEF DepositedOnce
  <2>1. /\ beaconEth[v] = IF v \in validatorsStaked THEN FULL_STAKE ELSE 0
        /\ stage[v] = "none" <=> v \notin validatorsStaked
    BY DEF EthIInv, DepositedOnce
  <2>2. CASE v \in ToSet(validators)
    <3>1. v \notin validatorsStaked /\ v \in validatorsStaked'
      BY <1>2, <1>4, <2>2
    <3>2. beaconEth'[v] = 0 + FULL_STAKE /\ stage'[v] = "active"
      BY <1>5, <2>1, <2>2, <3>1
    <3>. QED
      BY <3>1, <3>2
  <2>3. CASE v \notin ToSet(validators)
    BY <1>4, <1>5, <2>1, <2>3
  <2>. QED
    BY <2>2, <2>3
<1>9. ExitsWereStaked'
  <2>1. ExitsWereStaked /\ UNCHANGED <<pod, delayedWithdrawals>>
    BY <1>4 DEF EthIInv, routerVars
  <2>. QED
    BY <1>4, <2>1 DEF ExitsWereStaked
<1>. QED
  BY <1>7, <1>8, <1>9 DEF EthIInv

LEMMA RequestIInv ==
  ASSUME EthIInv, RequestEthWithdrawal
  PROVE  EthIInv'
<1>1. NDCEthTypeOK /\ StakingTypeOK /\ DepositedOnce /\ ExitsWereStaked
  BY DEF EthIInv, NDCEthTypeOK
<1>2. /\ delayedWithdrawals' = Append(delayedWithdrawals, pod)
      /\ pod' = NoEther
      /\ UNCHANGED <<podDeployed, ssvVars, beaconEth, stage, claimable, ndcEthVars>>
  BY DEF RequestEthWithdrawal, WithdrawBeforeRestaking
<1>3. delayedWithdrawals \in Seq(Sweeps) /\ pod \in Sweeps
  BY <1>1 DEF StakingTypeOK
<1>4. /\ delayedWithdrawals' \in Seq(Sweeps)
      /\ Len(delayedWithdrawals') = Len(delayedWithdrawals) + 1
      /\ DOMAIN delayedWithdrawals' = 1 .. Len(delayedWithdrawals) + 1
      /\ \A i \in 1 .. Len(delayedWithdrawals) : delayedWithdrawals'[i] = delayedWithdrawals[i]
      /\ delayedWithdrawals'[Len(delayedWithdrawals) + 1] = pod
  BY <1>2, <1>3, AppendProperties
<1>5. NoEther \in Sweeps
  BY DEF NoEther, Sweeps
<1>6. claimable' \in 0 .. Len(delayedWithdrawals')
  <2>1. claimable \in 0 .. Len(delayedWithdrawals) /\ Len(delayedWithdrawals) \in Nat
    BY <1>1, <1>3 DEF StakingTypeOK
  <2>. QED
    BY <1>2, <1>4, <2>1
<1>7. StakingTypeOK'
  BY <1>1, <1>2, <1>4, <1>5, <1>6 DEF StakingTypeOK, ssvVars
<1>8. NDCEthTypeOK'
  BY <1>1, <1>2, <1>7 DEF NDCEthTypeOK, ndcEthVars
<1>9. DepositedOnce'
  BY <1>1, <1>2 DEF DepositedOnce, ndcEthVars
<1>10. ExitsWereStaked'
  <2>1. pod'.exits = {} /\ validatorsStaked' = validatorsStaked
    BY <1>2 DEF NoEther, ndcEthVars
  <2>2. ASSUME NEW i \in DOMAIN delayedWithdrawals'
        PROVE  delayedWithdrawals'[i].exits \subseteq validatorsStaked
    <3>1. Len(delayedWithdrawals) \in Nat /\ DOMAIN delayedWithdrawals = 1 .. Len(delayedWithdrawals)
      BY <1>3
    <3>2. CASE i = Len(delayedWithdrawals) + 1
      BY <1>1, <1>4, <3>2 DEF ExitsWereStaked
    <3>3. CASE i \in DOMAIN delayedWithdrawals
      BY <1>1, <1>4, <3>1, <3>3 DEF ExitsWereStaked
    <3>. QED
      BY <1>4, <3>1, <3>2, <3>3
  <2>. QED
    BY <2>1, <2>2 DEF ExitsWereStaked
<1>. QED
  BY <1>8, <1>9, <1>10 DEF EthIInv

LEMMA ClaimIInv ==
  ASSUME EthIInv, ClaimEthWithdrawal
  PROVE  EthIInv'
<1>. DEFINE swept == Head(delayedWithdrawals)
            exited == ExitedValidators(swept.eth) * FULL_STAKE
<1>1. NDCEthTypeOK /\ StakingTypeOK /\ DepositedOnce /\ ExitsWereStaked
  BY DEF EthIInv, NDCEthTypeOK
<1>2. /\ claimable > 0
      /\ claimable' = claimable - 1
      /\ delayedWithdrawals' = Tail(delayedWithdrawals)
      /\ stage' = [v \in Validators |-> IF v \in swept.exits THEN "claimed" ELSE stage[v]]
      /\ UNCHANGED <<podDeployed, ssvVars, beaconEth, pod>>
  BY DEF ClaimEthWithdrawal, ClaimDelayedWithdrawal
<1>3. /\ exited <= stakedButNotVerifiedEth
      /\ ethBalance' = ethBalance + swept.eth
      /\ stakedButNotVerifiedEth' = stakedButNotVerifiedEth - exited
      /\ UNCHANGED <<tokenBalance, eigenPod, validatorsStaked, ethPaused>>
  BY DEF ClaimEthWithdrawal
<1>4. swept \in Sweeps /\ swept.exits \subseteq validatorsStaked
  BY <1>1, <1>2, ClaimedSweep DEF ExitsWereStaked
<1>5. swept.eth \in Nat /\ exited \in Nat
  <2>1. swept.eth \in Nat
    BY <1>4 DEF Sweeps
  <2>2. ExitedValidators(swept.eth) \in Nat
    BY <2>1, ExitedType
  <2>. QED
    BY <2>1, <2>2
<1>6. /\ delayedWithdrawals' \in Seq(Sweeps)
      /\ claimable' \in 0 .. Len(delayedWithdrawals')
  <2>1. claimable \in 0 .. Len(delayedWithdrawals) /\ Len(delayedWithdrawals) \in Nat
    BY <1>1 DEF StakingTypeOK
  <2>2. /\ Tail(delayedWithdrawals) \in Seq(Sweeps)
        /\ Len(Tail(delayedWithdrawals)) = Len(delayedWithdrawals) - 1
    BY <1>1, <1>2, ClaimedSweep
  <2>. QED
    BY <1>2, <2>1, <2>2
<1>. HIDE DEF swept, exited
<1>7. StakingTypeOK'
  <2>1. stage' \in [Validators -> Stages]
    BY <1>1, <1>2 DEF StakingTypeOK, Stages
  <2>. QED
    BY <1>1, <1>2, <1>6, <2>1 DEF StakingTypeOK, ssvVars
<1>8. NDCEthTypeOK'
  <2>1. ethBalance' \in Nat /\ stakedButNotVerifiedEth' \in Nat
    BY <1>1, <1>3, <1>5 DEF NDCEthTypeOK
  <2>. QED
    BY <1>1, <1>3, <1>7, <2>1 DEF NDCEthTypeOK
<1>9. DepositedOnce'
  <2>. SUFFICES ASSUME NEW v \in Validators
                PROVE  /\ beaconEth'[v] = IF v \in validatorsStaked' THEN FULL_STAKE ELSE 0
                       /\ stage'[v] = "none" <=> v \notin validatorsStaked'
    BY DEF DepositedOnce
  <2>1. /\ beaconEth[v] = IF v \in validatorsStaked THEN FULL_STAKE ELSE 0
        /\ stage[v] = "none" <=> v \notin validatorsStaked
    BY <1>1 DEF DepositedOnce
  <2>. QED
    BY <1>2, <1>3, <1>4, <2>1
<1>10. ExitsWereStaked'
  <2>. SUFFICES ASSUME NEW i \in DOMAIN delayedWithdrawals'
                PROVE  delayedWithdrawals'[i].exits \subseteq validatorsStaked
    BY <1>1, <1>2, <1>3 DEF ExitsWereStaked
  <2>1. i + 1 \in DOMAIN delayedWithdrawals /\ delayedWithdrawals'[i] = delayedWithdrawals[i + 1]
    BY <1>1, <1>2, ClaimedSweep
  <2>. QED
    BY <1>1, <2>1 DEF ExitsWereStaked
<1>. QED
  BY <1>8, <1>9, <1>10 DEF EthIInv

\* Exits, rewards and time.
LEMMA StakingStepIInv ==
  ASSUME EthIInv, StakingStep
  PROVE  EthIInv'
<1>1. /\ NDCEthTypeOK /\ StakingTypeOK /\ DepositedOnce /\ ExitsWereStaked
      /\ UNCHANGED ndcEthVars
      /\ pod \in Sweeps /\ delayedWithdrawals \in Seq(Sweeps)
  BY DEF EthIInv, NDCEthTypeOK, StakingTypeOK, StakingStep
<1>2. ASSUME StakingTypeOK', DepositedOnce', ExitsWereStaked'
      PROVE  EthIInv'
  BY <1>1, <1>2 DEF EthIInv, NDCEthTypeOK, ndcEthVars
<1>3. ASSUME NEW v \in Validators, NEW balance \in ExitBalances, ValidatorExits(v, balance)
      PROVE  EthIInv'
  <2>. DEFINE slashed == IF balance < FULL_STAKE THEN 1 ELSE 0
  <2>1. /\ stage[v] = "active"
        /\ stage' = [stage EXCEPT ![v] = "exited"]
        /\ pod' = [pod EXCEPT !.eth = @ + balance, !.slashed = @ + slashed,
                              !.exits = @ \cup {v}]
        /\ UNCHANGED <<podDeployed, ssvVars, beaconEth, routerVars>>
    BY <1>3 DEF ValidatorExits
  <2>2. balance \in Nat /\ slashed \in Nat
    OBVIOUS
  <2>. HIDE DEF slashed
  <2>3. pod' \in Sweeps /\ pod'.exits = pod.exits \cup {v}
    <3>1. /\ pod.eth + balance \in Nat /\ pod.slashed + slashed \in Nat
          /\ pod.exits \cup {v} \in SUBSET Validators
      BY <1>1, <2>2, SweepType
    <3>2. PICK eth \in Nat, gone \in Nat, exits \in SUBSET Validators :
               eth = pod.eth + balance /\ gone = pod.slashed + slashed /\ exits = pod.exits \cup {v}
      BY <3>1
    <3>3. pod' = [pod EXCEPT !.eth = eth, !.slashed = gone, !.exits = exits]
      BY <2>1, <3>2
    <3>. QED
      BY <1>1, <3>2, <3>3 DEF Sweeps
  <2>4. StakingTypeOK'
    BY <1>1, <2>1, <2>3 DEF StakingTypeOK, Stages, ssvVars, routerVars
  <2>5. v \in validatorsStaked
    BY <1>1, <2>1 DEF DepositedOnce
  <2>6. DepositedOnce'
    BY <1>1, <2>1, <2>5 DEF DepositedOnce, ndcEthVars, StakingTypeOK
  <2>7. ExitsWereStaked'
    BY <1>1, <2>1, <2>3, <2>5 DEF ExitsWereStaked, ndcEthVars, routerVars
  <2>. QED
    BY <1>2, <2>4, <2>6, <2>7
<1>4. ASSUME NEW amount \in Rewards, RewardsSwept(amount)
      PROVE  EthIInv'
  <2>1. pod' \in Sweeps /\ pod'.exits = pod.exits
    <3>1. /\ pod' = [pod EXCEPT !.eth = @ + amount, !.rewards = @ + amount]
          /\ amount \in Nat
      BY <1>4 DEF RewardsSwept
    <3>2. pod.eth + amount \in Nat /\ pod.rewards + amount \in Nat
      BY <1>1, <3>1, SweepType
    <3>. QED
      BY <1>1, <3>1, <3>2, RewardSwept
  <2>2. UNCHANGED <<podDeployed, ssvVars, beaconEth, stage, routerVars>>
    BY <1>4 DEF RewardsSwept
  <2>. QED
    BY <1>1, <1>2, <2>1, <2>2 DEF StakingTypeOK, DepositedOnce, ExitsWereStaked, ndcEthVars,
       ssvVars, routerVars
<1>5. ASSUME DelayPasses
      PROVE  EthIInv'
  <2>1. claimable' \in 0 .. Len(delayedWithdrawals)
    BY <1>1, <1>5 DEF DelayPasses, StakingTypeOK
  <2>2. UNCHANGED <<podDeployed, ssvVars, beaconEth, stage, pod, delayedWithdrawals>>
    BY <1>5 DEF DelayPasses
  <2>. QED
    BY <1>1, <1>2, <2>1, <2>2 DEF StakingTypeOK, DepositedOnce, ExitsWereStaked, ndcEthVars, ssvVars
<1>. QED
  BY <1>3, <1>4, <1>5 DEF StakingStep

\* Calls that leave validators and their ether where they are.
LEMMA OtherIInv ==
  ASSUME EthIInv, NDCEthTypeOK',
         UNCHANGED <<beaconEth, stage, pod, delayedWithdrawals, validatorsStaked>>
  PROVE  EthIInv'
BY DEF EthIInv, DepositedOnce, ExitsWereStaked

LEMMA TransfersIInv ==
  ASSUME EthIInv, NEW asset \in Assets, NEW amount \in Funds,
         \/ ReceiveEther(amount)
         \/ EthReceiveTokens(asset, amount)
         \/ EthTransferBack(asset, amount)
  PROVE  EthIInv'
<1>. DEFINE wrapped == IF asset = WETH THEN ethBalance ELSE 0
<1>1. /\ NDCEthTypeOK /\ UNCHANGED stakingVars
      /\ UNCHANGED <<eigenPod, stakedButNotVerifiedEth, validatorsStaked, ethPaused>>
  BY DEF EthIInv, ReceiveEther, EthReceiveTokens, EthTransferBack
<1>2. /\ ethBalance \in Nat /\ tokenBalance \in [Assets -> Nat] /\ tokenBalance[asset] \in Nat
      /\ amount \in Nat
  BY <1>1 DEF NDCEthTypeOK
<1>3. ethBalance' \in Nat /\ tokenBalance' \in [Assets -> Nat]
  <2>1. CASE ReceiveEther(amount)
    BY <1>2, <2>1 DEF ReceiveEther
  <2>2. CASE EthReceiveTokens(asset, amount)
    BY <1>2, <2>2 DEF EthReceiveTokens
  <2>3. CASE EthTransferBack(asset, amount)
    <3>1. /\ amount <= tokenBalance[asset] + wrapped
          /\ tokenBalance' = [tokenBalance EXCEPT ![asset] = @ + wrapped - amount]
          /\ ethBalance' = ethBalance - wrapped
      BY <2>3 DEF EthTransferBack
    <3>2. wrapped \in Nat /\ ethBalance - wrapped \in Nat
      BY <1>2
    <3>. HIDE DEF wrapped
    <3>. QED
      BY <1>2, <3>1, <3>2
  <2>. QED
    BY <2>1, <2>2, <2>3
<1>4. NDCEthTypeOK'
  BY <1>1, <1>3 DEF NDCEthTypeOK, StakingTypeOK, stakingVars
<1>. QED
  BY <1>1, <1>4, OtherIInv DEF stakingVars

LEMMA SetupIInv ==
  ASSUME EthIInv, SetupNext
  PROVE  EthIInv'
<1>1. NDCEthTypeOK /\ StakingTypeOK
  BY DEF EthIInv, NDCEthTypeOK
<1>2. ASSUME NEW v \in Validators, RegisterSsvValidator(v)
      PROVE  EthIInv'
  BY <1>1, <1>2, OtherIInv DEF RegisterSsvValidator, RegisterValidator, NDCEthTypeOK, StakingTypeOK,
     ndcEthVars, routerVars
<1>3. ASSUME NEW vs \in ValidatorLists, ExitSsvValidators(ToSet(vs))
      PROVE  EthIInv'
  BY <1>1, <1>3, ListType, OtherIInv DEF ExitSsvValidators, BulkExitValidator, NDCEthTypeOK,
     StakingTypeOK, ndcEthVars, routerVars
<1>4. ASSUME NEW vs \in ValidatorLists, RemoveSsvValidators(ToSet(vs))
      PROVE  EthIInv'
  BY <1>1, <1>4, OtherIInv DEF RemoveSsvValidators, BulkRemoveValidator, NDCEthTypeOK,
     StakingTypeOK, ndcEthVars, routerVars
<1>5. CASE CreateEigenPod
  BY <1>1, <1>5, OtherIInv DEF CreateEigenPod, CreatePod, NDCEthTypeOK, StakingTypeOK, ssvVars, routerVars
<1>6. CASE EthPause \/ EthUnpause
  BY <1>1, <1>6, OtherIInv DEF EthPause, EthUnpause, NDCEthTypeOK, StakingTypeOK, stakingVars
<1>. QED
  BY <1>2, <1>3, <1>4, <1>5, <1>6 DEF SetupNext

-----------------------------------------------------------------------------
(* The theorems *)

LEMMA InitEthIInv == NDCEthInit => EthIInv
<1>. SUFFICES ASSUME NDCEthInit PROVE EthIInv
  OBVIOUS
<1>1. NoEther \in Sweeps /\ NoEther.exits = {}
  BY DEF NoEther, Sweeps
<1>2. delayedWithdrawals \in Seq(Sweeps) /\ DOMAIN delayedWithdrawals = {}
      /\ Len(delayedWithdrawals) = 0
  BY DEF NDCEthInit, StakingInit
<1>3. NDCEthTypeOK
  <2>1. claimable \in 0 .. Len(delayedWithdrawals)
    BY <1>2 DEF NDCEthInit, StakingInit
  <2>2. StakingTypeOK
    BY <1>1, <1>2, <2>1 DEF NDCEthInit, StakingInit, StakingTypeOK, Stages
  <2>. QED
    BY <2>2 DEF NDCEthInit, NDCEthTypeOK
<1>4. DepositedOnce
  BY DEF NDCEthInit, StakingInit, DepositedOnce
<1>5. ExitsWereStaked
  BY <1>1, <1>2 DEF NDCEthInit, StakingInit, ExitsWereStaked
<1>. QED
  BY <1>3, <1>4, <1>5 DEF EthIInv

LEMMA NextEthIInv == EthIInv /\ [NDCEthNext]_ethVars => EthIInv'
<1>. SUFFICES ASSUME EthIInv, [NDCEthNext]_ethVars PROVE EthIInv'
  OBVIOUS
<1>1. CASE EtherNext
  BY <1>1, StakingStepIInv, StakeIInv, RequestIInv, ClaimIInv, TransfersIInv DEF EtherNext
<1>2. CASE SetupNext
  BY <1>2, SetupIInv
<1>3. CASE UNCHANGED ethVars
  BY <1>3, OtherIInv DEF ethVars, stakingVars, ndcEthVars, EthIInv, NDCEthTypeOK, StakingTypeOK
<1>. QED
  BY <1>1, <1>2, <1>3 DEF NDCEthNext

\* Every call of NodeDelegatorETH, and every step of its validators, keeps the
\* inductive invariant.
THEOREM EthInductiveInvariant == NDCEthSpec => []EthIInv
<1>. QED
  BY InitEthIInv, NextEthIInv, PTL DEF NDCEthSpec

\* Ether, WETH and the staked amount never go below zero: a call that would take
\* more than there is reverts.
THEOREM EthTypeCorrect == NDCEthSpec => []NDCEthTypeOK
<1>1. EthIInv => NDCEthTypeOK
  BY DEF EthIInv
<1>. QED
  BY <1>1, EthInductiveInvariant, PTL

\* stakeEth deposits at most once for a public key: not again in the same list,
\* nor in a later one, nor after the validator has exited.
THEOREM NeverDepositedTwice == NDCEthSpec => []DepositedOnce
<1>1. EthIInv => DepositedOnce
  BY DEF EthIInv
<1>. QED
  BY <1>1, EthInductiveInvariant, PTL

-----------------------------------------------------------------------------
(* The refinement: NodeDelegatorETH implements NativeNode.                 *)

\* A step of the node as the mapping sees it: what it gains of each asset, and by
\* how much its stakes grow.
Gained(a) == Liquid'[a] - Liquid[a]
Grown == stakedButNotVerifiedEth' - stakedButNotVerifiedEth

\* Whatever else the step does.
LEMMA SameNode ==
  ASSUME UNCHANGED <<ethBalance, tokenBalance, stakedButNotVerifiedEth>>
  PROVE  UNCHANGED Node!nodeVars
BY DEF Node!nodeVars, Liquid

\* The four kinds of steps of NativeNode, in terms of the contract.
LEMMA ReceiveMapped ==
  ASSUME \A a \in Assets : Gained(a) \in Nat /\ Liquid[a] \in Nat /\ Liquid'[a] \in Nat,
         UNCHANGED stakedButNotVerifiedEth
  PROVE  Node!NativeNext
<1>1. Liquid' = [a \in Assets |-> Liquid[a] + Gained(a)]
  <2>1. \A a \in Assets : Liquid'[a] = Liquid[a] + Gained(a)
    BY DEF Gained
  <2>2. Liquid' = [a \in Assets |-> Liquid'[a]]
    BY DEF Liquid
  <2>. QED
    BY <2>1, <2>2
<1>2. Node!NativeReceives("this", [a \in Assets |-> Gained(a)])
  BY <1>1 DEF Node!NativeReceives
<1>3. \A a \in Assets : Gained(a) >= 0
  OBVIOUS
<1>. QED
  BY <1>2, <1>3 DEF Node!NativeNext, Gained

LEMMA SendBackMapped ==
  ASSUME NEW asset \in Assets, NEW amount \in Nat, amount <= Liquid[asset],
         Liquid[asset] \in Nat,
         Liquid' = [Liquid EXCEPT ![asset] = @ - amount],
         UNCHANGED stakedButNotVerifiedEth
  PROVE  Node!NativeNext
<1>1. Liquid'[asset] = Liquid[asset] - amount
  BY DEF Liquid
<1>2. Gained(asset) <= 0 /\ -Gained(asset) = amount
  BY <1>1 DEF Gained
<1>3. Node!NativeSendsBack("this", asset, -Gained(asset))
  BY <1>2 DEF Node!NativeSendsBack
<1>. QED
  BY <1>2, <1>3 DEF Node!NativeNext, Gained

LEMMA StakeMapped ==
  ASSUME NEW amount \in Nat, amount <= Liquid[WETH],
         Liquid' = [Liquid EXCEPT ![WETH] = @ - amount],
         stakedButNotVerifiedEth \in Nat,
         stakedButNotVerifiedEth' = stakedButNotVerifiedEth + amount
  PROVE  Node!NativeNext
<1>1. Grown = amount /\ Grown >= 0
  BY DEF Grown
<1>2. Node!NativeStakes("this", Grown)
  BY <1>1 DEF Node!NativeStakes
<1>. QED
  BY <1>1, <1>2 DEF Node!NativeNext, Grown

LEMMA ClaimMapped ==
  ASSUME NEW claimed \in Nat, NEW exited \in Nat, exited <= stakedButNotVerifiedEth,
         claimed - exited \in (MIN_SLASHED_AMOUNT - FULL_STAKE) .. (MIN_SLASHED_AMOUNT - 1),
         Liquid[WETH] \in Nat,
         Liquid' = [Liquid EXCEPT ![WETH] = @ + claimed],
         stakedButNotVerifiedEth \in Nat,
         stakedButNotVerifiedEth' = stakedButNotVerifiedEth - exited
  PROVE  Node!NativeNext
<1>1. Liquid'[WETH] = Liquid[WETH] + claimed
  BY DEF Liquid
<1>2. /\ Gained(WETH) = claimed /\ Gained(WETH) >= 0
      /\ -Grown = exited /\ Grown <= 0
  BY <1>1 DEF Gained, Grown
<1>3. Node!NativeClaims("this", Gained(WETH), -Grown)
  BY <1>2 DEF Node!NativeClaims
<1>. QED
  BY <1>2, <1>3 DEF Node!NativeNext, Gained, Grown

\* The amount alone bounds the error: whole stakes leave less than one stake, and
\* a remainder of MIN_SLASHED_AMOUNT or more is taken for one more validator.
LEMMA ExitedWithin ==
  ASSUME NEW claimed \in Nat
  PROVE  claimed - ExitedValidators(claimed) * FULL_STAKE
           \in (MIN_SLASHED_AMOUNT - FULL_STAKE) .. (MIN_SLASHED_AMOUNT - 1)
<1>. DEFINE whole     == claimed \div FULL_STAKE
            remaining == claimed - whole * FULL_STAKE
<1>1. whole \in Nat /\ FULL_STAKE \in Nat /\ whole * FULL_STAKE \in Nat
  OBVIOUS
<1>2. remaining \in 0 .. FULL_STAKE - 1
  OBVIOUS
<1>3. CASE remaining >= MIN_SLASHED_AMOUNT
  <2>1. ExitedValidators(claimed) = whole + 1
    BY <1>3 DEF ExitedValidators
  <2>2. (whole + 1) * FULL_STAKE = whole * FULL_STAKE + FULL_STAKE
    BY <1>1
  <2>3. claimed - ExitedValidators(claimed) * FULL_STAKE = remaining - FULL_STAKE
    BY <1>1, <2>1, <2>2
  <2>. QED
    BY <1>2, <1>3, <2>3
<1>4. CASE remaining < MIN_SLASHED_AMOUNT
  <2>1. ExitedValidators(claimed) = whole
    BY <1>1, <1>2, <1>4 DEF ExitedValidators
  <2>. QED
    BY <1>1, <1>2, <1>4, <2>1
<1>. QED
  BY <1>2, <1>3, <1>4

\* The types the steps need.
LEMMA LiquidType ==
  ASSUME NDCEthTypeOK
  PROVE  /\ \A a \in Assets : Liquid[a] \in Nat /\ tokenBalance[a] \in Nat
         /\ ethBalance \in Nat /\ stakedButNotVerifiedEth \in Nat
         /\ Liquid[WETH] = tokenBalance[WETH] + ethBalance
         /\ \A a \in Assets : a # WETH => Liquid[a] = tokenBalance[a]
BY DEF NDCEthTypeOK, Liquid

\* Staking uses the ether first and WETH for the rest: together they fall by what
\* is staked.
LEMMA StakeRefines ==
  ASSUME NDCEthTypeOK, NEW validators \in ValidatorLists, StakeEth(validators)
  PROVE  Node!NativeNext
<1>. DEFINE required  == Len(validators) * FULL_STAKE
            unwrapped == IF ethBalance < required THEN required - ethBalance ELSE 0
<1>1. required \in Nat
  BY ListType
<1>2. /\ unwrapped \in Nat /\ unwrapped <= tokenBalance[WETH]
      /\ tokenBalance' = [tokenBalance EXCEPT ![WETH] = @ - unwrapped]
      /\ ethBalance' = ethBalance + unwrapped - required
      /\ stakedButNotVerifiedEth' = stakedButNotVerifiedEth + required
  BY <1>1, LiquidType DEF StakeEth
<1>. HIDE DEF required, unwrapped
<1>3. required <= ethBalance + unwrapped
  BY <1>1, LiquidType DEF unwrapped
<1>4. required <= Liquid[WETH]
  BY <1>1, <1>2, <1>3, LiquidType
<1>5. Liquid' = [Liquid EXCEPT ![WETH] = @ - required]
  <2>1. Liquid' = [a \in Assets |-> IF a = WETH THEN Liquid[a] - required ELSE Liquid[a]]
    BY <1>1, <1>2, LiquidType DEF Liquid, NDCEthTypeOK
  <2>. QED
    BY <2>1 DEF Liquid
<1>. QED
  BY <1>1, <1>2, <1>4, <1>5, LiquidType, StakeMapped

LEMMA ClaimRefines ==
  ASSUME NDCEthTypeOK, ClaimEthWithdrawal
  PROVE  Node!NativeNext
<1>. DEFINE claimed == Head(delayedWithdrawals).eth
            exited  == ExitedValidators(claimed) * FULL_STAKE
<1>1. claimed \in Nat
  BY ClaimedSweep, SweepType DEF ClaimEthWithdrawal, ClaimDelayedWithdrawal, NDCEthTypeOK
<1>2. exited \in Nat
  BY <1>1, ExitedType
<1>3. claimed - exited \in (MIN_SLASHED_AMOUNT - FULL_STAKE) .. (MIN_SLASHED_AMOUNT - 1)
  BY <1>1, ExitedWithin
<1>4. /\ exited <= stakedButNotVerifiedEth /\ ethBalance' = ethBalance + claimed
      /\ stakedButNotVerifiedEth' = stakedButNotVerifiedEth - exited
      /\ UNCHANGED tokenBalance
  BY DEF ClaimEthWithdrawal
<1>. HIDE DEF claimed, exited
<1>5. Liquid' = [Liquid EXCEPT ![WETH] = @ + claimed]
  <2>1. Liquid' = [a \in Assets |-> IF a = WETH THEN Liquid[a] + claimed ELSE Liquid[a]]
    BY <1>1, <1>4, LiquidType DEF Liquid
  <2>. QED
    BY <2>1 DEF Liquid
<1>. QED
  BY <1>1, <1>2, <1>3, <1>4, <1>5, LiquidType, ClaimMapped

\* All ether is wrapped before WETH is sent back: what the two make is the same.
LEMMA SendBackRefines ==
  ASSUME NDCEthTypeOK, NEW asset \in Assets, NEW amount \in Funds, EthTransferBack(asset, amount)
  PROVE  Node!NativeNext
<1>. DEFINE wrapped == IF asset = WETH THEN ethBalance ELSE 0
<1>1. wrapped \in Nat /\ amount \in Nat
  BY LiquidType
<1>2. /\ amount <= tokenBalance[asset] + wrapped
      /\ tokenBalance' = [tokenBalance EXCEPT ![asset] = @ + wrapped - amount]
      /\ ethBalance' = ethBalance - wrapped
      /\ UNCHANGED stakedButNotVerifiedEth
  BY DEF EthTransferBack
<1>3. Liquid[asset] = tokenBalance[asset] + wrapped
  BY LiquidType
<1>4. Liquid' = [Liquid EXCEPT ![asset] = @ - amount]
  <2>1. Liquid' = [a \in Assets |-> IF a = asset THEN Liquid[a] - amount ELSE Liquid[a]]
    BY <1>1, <1>2, LiquidType DEF Liquid, NDCEthTypeOK
  <2>. QED
    BY <2>1 DEF Liquid
<1>. QED
  BY <1>1, <1>2, <1>3, <1>4, LiquidType, SendBackMapped

LEMMA ReceiveRefines ==
  ASSUME NDCEthTypeOK, NEW amount \in Funds,
         ReceiveEther(amount) \/ \E a \in Assets : EthReceiveTokens(a, amount)
  PROVE  Node!NativeNext
<1>1. amount \in Nat /\ UNCHANGED stakedButNotVerifiedEth
  BY DEF ReceiveEther, EthReceiveTokens
<1>2. \E asset \in Assets : Liquid' = [a \in Assets |-> IF a = asset THEN Liquid[a] + amount
                                                                     ELSE Liquid[a]]
  <2>1. CASE ReceiveEther(amount)
    <3>1. Liquid' = [a \in Assets |-> IF a = WETH THEN Liquid[a] + amount ELSE Liquid[a]]
      BY <1>1, <2>1, LiquidType DEF ReceiveEther, Liquid
    <3>. QED
      BY <3>1
  <2>2. ASSUME NEW asset \in Assets, EthReceiveTokens(asset, amount)
        PROVE  Liquid' = [a \in Assets |-> IF a = asset THEN Liquid[a] + amount ELSE Liquid[a]]
    BY <1>1, <2>2, LiquidType DEF EthReceiveTokens, Liquid, NDCEthTypeOK
  <2>. QED
    BY <2>1, <2>2
<1>3. \A a \in Assets : Gained(a) \in Nat /\ Liquid[a] \in Nat /\ Liquid'[a] \in Nat
  BY <1>1, <1>2, LiquidType DEF Gained
<1>. QED
  BY <1>1, <1>3, ReceiveMapped

\* Everything else moves no ether the pool can see.
LEMMA QuietRefines ==
  ASSUME StakingStep \/ RequestEthWithdrawal \/ SetupNext \/ UNCHANGED ethVars
  PROVE  UNCHANGED Node!nodeVars
<1>1. UNCHANGED <<ethBalance, tokenBalance, stakedButNotVerifiedEth>>
  BY DEF StakingStep, RequestEthWithdrawal, SetupNext, RegisterSsvValidator, ExitSsvValidators,
         RemoveSsvValidators, CreateEigenPod, EthPause, EthUnpause, ethVars, ndcEthVars
<1>. QED
  BY <1>1, SameNode

\* NodeDelegatorETH implements NativeNode, whatever validators are staked, exit
\* or are slashed, and however their ether is swept: what the deposit pool reads
\* from it follows the abstract node.
THEOREM NativeNodeImplemented == NDCEthSpec => ImplementsNativeNode
<1>1. NDCEthInit => Node!NativeInit
  <2>. SUFFICES ASSUME NDCEthInit PROVE Node!NativeInit
    OBVIOUS
  <2>1. Liquid = [a \in Assets |-> 0] /\ stakedButNotVerifiedEth = 0
    BY DEF NDCEthInit, Liquid
  <2>. QED
    BY <2>1 DEF Node!NativeInit
<1>2. NDCEthTypeOK /\ [NDCEthNext]_ethVars => [Node!NativeNext]_(Node!nodeVars)
  <2>. SUFFICES ASSUME NDCEthTypeOK, [NDCEthNext]_ethVars
                PROVE  Node!NativeNext \/ UNCHANGED Node!nodeVars
    OBVIOUS
  <2>1. CASE EtherNext
    BY <2>1, StakeRefines, ClaimRefines, SendBackRefines, ReceiveRefines, QuietRefines
       DEF EtherNext
  <2>. QED
    BY <2>1, QuietRefines DEF NDCEthNext
<1>. QED
  BY <1>1, <1>2, EthTypeCorrect, PTL DEF NDCEthSpec, ImplementsNativeNode, Node!NativeSpec

-----------------------------------------------------------------------------
(***************************************************************************)
(* The staked amount.  claimEthWithdrawal works out from an amount alone   *)
(* how many validators exited into it.  As long as a sweep has at most one *)
(* slashed exit, the exit leaves MIN_SLASHED_AMOUNT, and rewards stay      *)
(* below it, it finds the right number, and so stakedButNotVerifiedEth is  *)
(* the stake of the validators that are still out.                         *)
(***************************************************************************)

SweepsAreClear ==
  /\ ExitBalances \subseteq MIN_SLASHED_AMOUNT .. FULL_STAKE
  /\ MaxPodRewards < MIN_SLASHED_AMOUNT
  /\ MaxSlashedPerSweep \in 0 .. 1

\* The ether of a sweep is a full stake for each of its validators, and rewards,
\* less what the slashed one lost.
SweepOK(sweep) ==
  LET rest == sweep.eth - FULL_STAKE * Cardinality(sweep.exits) - sweep.rewards IN
  /\ IsFiniteSet(sweep.exits)
  /\ sweep.rewards \in 0 .. MIN_SLASHED_AMOUNT - 1
  /\ \/ sweep.slashed = 0 /\ rest = 0
     \/ sweep.slashed = 1 /\ rest \in MIN_SLASHED_AMOUNT - FULL_STAKE .. -1

SweepsOK ==
  /\ SweepOK(pod)
  /\ \A i \in DOMAIN delayedWithdrawals : SweepOK(delayedWithdrawals[i])

\* A sweep's validators have exited and wait for its claim.
Waiting(exits) == \A v \in exits : stage[v] = "exited"

\* Each waits in one sweep only.
ExitsWaitOnce ==
  /\ Waiting(pod.exits)
  /\ \A i \in DOMAIN delayedWithdrawals :
       /\ Waiting(delayedWithdrawals[i].exits)
       /\ delayedWithdrawals[i].exits \cap pod.exits = {}
       /\ \A j \in DOMAIN delayedWithdrawals :
            i # j => delayedWithdrawals[i].exits \cap delayedWithdrawals[j].exits = {}

StakedIInv ==
  /\ EthIInv
  /\ IsFiniteSet(StillStaked)
  /\ StakedMatchesValidators
  /\ SweepsOK
  /\ ExitsWaitOnce

-----------------------------------------------------------------------------
(* What an amount tells. *)

\* Two numbers of validators that leave the amount within less than a stake of
\* each other are the same.
LEMMA OneMultiple ==
  ASSUME NEW j \in Nat, NEW k \in Nat, NEW x \in Int, NEW low \in Int,
         x - FULL_STAKE * j \in low .. low + FULL_STAKE - 1,
         x - FULL_STAKE * k \in low .. low + FULL_STAKE - 1
  PROVE  j = k
<1>1. FULL_STAKE \in Nat \ {0}
  OBVIOUS
<1>2. ASSUME NEW a \in Nat, NEW b \in Nat, a < b,
             x - FULL_STAKE * a \in low .. low + FULL_STAKE - 1,
             x - FULL_STAKE * b \in low .. low + FULL_STAKE - 1
      PROVE  FALSE
  <2>1. FULL_STAKE * b >= FULL_STAKE * (a + 1)
    BY <1>1, <1>2
  <2>2. FULL_STAKE * (a + 1) = FULL_STAKE * a + FULL_STAKE
    BY <1>1
  <2>3. FULL_STAKE * a \in Int /\ FULL_STAKE * b \in Int
    BY <1>1
  <2>. QED
    BY <1>1, <1>2, <2>1, <2>2, <2>3
<1>. QED
  BY <1>2

\* The number claimEthWithdrawal finds is the number of validators in the sweep.
LEMMA ExitedAreFound ==
  ASSUME NEW sweep \in Sweeps, SweepOK(sweep)
  PROVE  ExitedValidators(sweep.eth) = Cardinality(sweep.exits)
<1>. DEFINE eth   == sweep.eth
            count == Cardinality(sweep.exits)
            found == ExitedValidators(eth)
            low   == MIN_SLASHED_AMOUNT - FULL_STAKE
<1>1. eth \in Nat /\ count \in Nat /\ low \in Int /\ sweep.rewards \in Int
  BY FS_CardinalityType, SweepType DEF SweepOK
<1>2. found \in Nat /\ FULL_STAKE * count \in Int /\ FULL_STAKE * found \in Int
  <2>1. found \in Nat
    BY <1>1, ExitedType
  <2>. HIDE DEF found, count
  <2>. QED
    BY <1>1, <2>1
<1>3. eth - FULL_STAKE * found \in low .. low + FULL_STAKE - 1
  <2>1. eth - found * FULL_STAKE \in low .. MIN_SLASHED_AMOUNT - 1
    BY <1>1, ExitedWithin
  <2>. HIDE DEF eth, found
  <2>. QED
    BY <1>1, <1>2, <2>1
<1>4. eth - FULL_STAKE * count \in low .. low + FULL_STAKE - 1
  <2>. DEFINE rest == eth - FULL_STAKE * count - sweep.rewards
  <2>1. sweep.rewards \in 0 .. MIN_SLASHED_AMOUNT - 1 /\ rest \in low .. 0
    BY <1>1, <1>2 DEF SweepOK
  <2>. QED
    BY <1>1, <1>2, <2>1
<1>. HIDE DEF eth, count, found, low
<1>5. found = count
  BY <1>1, <1>2, <1>3, <1>4, OneMultiple
<1>. QED
  BY <1>5 DEF eth, count, found

-----------------------------------------------------------------------------
(* The operations. *)

LEMMA InjectiveLength ==
  ASSUME NEW validators \in Seq(Validators), IsInjective(validators)
  PROVE  IsFiniteSet(ToSet(validators)) /\ Cardinality(ToSet(validators)) = Len(validators)
<1>. DEFINE places == 1 .. Len(validators)
            named  == ToSet(validators)
<1>1. Len(validators) \in Nat /\ DOMAIN validators = places
  OBVIOUS
<1>2. IsFiniteSet(places) /\ Cardinality(places) = Len(validators)
  <2>1. /\ IsFiniteSet(places)
        /\ Cardinality(places) = IF 1 > Len(validators) THEN 0 ELSE Len(validators) - 1 + 1
    BY <1>1, FS_Interval, 1 \in Int, Len(validators) \in Int
  <2>. QED
    BY <1>1, <2>1
<1>3. validators \in [places -> named] /\ \A v \in named : \E i \in places : validators[i] = v
  BY <1>1 DEF ToSet
<1>4. validators \in Surjection(places, named) /\ validators \in Injection(places, named)
  BY <1>1, <1>3 DEF Surjection, Injection, IsInjective
<1>. QED
  BY <1>2, <1>4, FS_Surjection

\* Calls that leave validators and sweeps where they are.
LEMMA SameStaked ==
  ASSUME StakedIInv, EthIInv',
         UNCHANGED <<stage, pod, delayedWithdrawals, stakedButNotVerifiedEth>>
  PROVE  StakedIInv'
BY DEF StakedIInv, StillStaked, StakedMatchesValidators, SweepsOK, SweepOK, ExitsWaitOnce, Waiting

LEMMA StakeStaked ==
  ASSUME StakedIInv, NEW validators \in ValidatorLists, StakeEth(validators)
  PROVE  StakedIInv'
<1>. DEFINE named    == ToSet(validators)
            times(v) == Cardinality({i \in DOMAIN validators : validators[i] = v})
<1>1. EthIInv /\ EthIInv' /\ NDCEthTypeOK /\ StakingTypeOK /\ DepositedOnce
  BY StakeIInv DEF StakedIInv, EthIInv, NDCEthTypeOK
<1>2. /\ validators \in Seq(Validators) /\ named \subseteq Validators
      /\ IsInjective(validators) /\ named \cap validatorsStaked = {}
  BY ListType DEF StakeEth, NoneStakedYet
<1>3. \A v \in Validators : times(v) = IF v \in named THEN 1 ELSE 0
  BY <1>2, OneDepositEach
<1>4. /\ stage' = [v \in Validators |-> IF times(v) > 0 THEN "active" ELSE stage[v]]
      /\ stakedButNotVerifiedEth' = stakedButNotVerifiedEth + Len(validators) * FULL_STAKE
      /\ UNCHANGED <<pod, delayedWithdrawals>>
  BY DEF StakeEth, Stake, routerVars
<1>. HIDE DEF times
<1>5. stage' = [v \in Validators |-> IF v \in named THEN "active" ELSE stage[v]]
  BY <1>3, <1>4
<1>6. \A v \in named : stage[v] = "none"
  BY <1>1, <1>2 DEF DepositedOnce
<1>. HIDE DEF named
<1>7. StillStaked' = StillStaked \cup named /\ StillStaked \cap named = {}
  BY <1>2, <1>5, <1>6 DEF StillStaked
<1>8. IsFiniteSet(named) /\ Cardinality(named) = Len(validators)
  BY <1>2, InjectiveLength DEF named
<1>9. IsFiniteSet(StillStaked') /\ StakedMatchesValidators'
  <2>1. /\ IsFiniteSet(StillStaked')
        /\ Cardinality(StillStaked') = Cardinality(StillStaked) + Cardinality(named)
    <3>1. Cardinality(StillStaked \cap named) = 0
      BY <1>7, FS_EmptySet
    <3>2. Cardinality(StillStaked) \in Nat /\ Cardinality(named) \in Nat
      BY <1>8, FS_CardinalityType DEF StakedIInv
    <3>3. /\ IsFiniteSet(StillStaked \cup named)
          /\ Cardinality(StillStaked \cup named)
               = Cardinality(StillStaked) + Cardinality(named) - Cardinality(StillStaked \cap named)
      BY <1>8, FS_Union DEF StakedIInv
    <3>. QED
      BY <1>7, <3>1, <3>2, <3>3
  <2>2. Cardinality(StillStaked) \in Nat /\ Cardinality(named) \in Nat
    BY <1>8, FS_CardinalityType DEF StakedIInv
  <2>3. stakedButNotVerifiedEth = FULL_STAKE * Cardinality(StillStaked)
    BY DEF StakedIInv, StakedMatchesValidators
  <2>4. FULL_STAKE * (Cardinality(StillStaked) + Cardinality(named))
          = FULL_STAKE * Cardinality(StillStaked) + Cardinality(named) * FULL_STAKE
    BY <2>2
  <2>. QED
    BY <1>4, <1>8, <2>1, <2>3, <2>4 DEF StakedMatchesValidators
<1>10. SweepsOK'
  BY <1>4 DEF StakedIInv, SweepsOK, SweepOK
<1>11. ExitsWaitOnce'
  <2>1. \A exits \in SUBSET Validators : Waiting(exits) => Waiting(exits)'
    BY <1>5, <1>6 DEF Waiting
  <2>2. /\ pod.exits \in SUBSET Validators
        /\ \A i \in DOMAIN delayedWithdrawals : delayedWithdrawals[i].exits \in SUBSET Validators
    <3>1. pod \in Sweeps /\ \A i \in DOMAIN delayedWithdrawals : delayedWithdrawals[i] \in Sweeps
      BY <1>1, ElementOfSeq DEF StakingTypeOK
    <3>. QED
      BY <3>1, SweepType
  <2>. QED
    BY <1>4, <2>1, <2>2 DEF StakedIInv, ExitsWaitOnce
<1>. QED
  BY <1>1, <1>9, <1>10, <1>11 DEF StakedIInv

\* Every sweep, in the pod or in the router, is one.
LEMMA SweepsTyped ==
  ASSUME EthIInv
  PROVE  /\ pod \in Sweeps /\ delayedWithdrawals \in Seq(Sweeps)
         /\ \A i \in DOMAIN delayedWithdrawals : delayedWithdrawals[i] \in Sweeps
BY ElementOfSeq DEF EthIInv, NDCEthTypeOK, StakingTypeOK

LEMMA NothingSwept == SweepOK(NoEther) /\ NoEther.exits = {}
<1>1. NoEther.exits = {} /\ NoEther.eth = 0 /\ NoEther.rewards = 0 /\ NoEther.slashed = 0
  BY DEF NoEther
<1>2. IsFiniteSet({}) /\ Cardinality({}) = 0
  BY FS_EmptySet
<1>. QED
  BY <1>1, <1>2 DEF SweepOK

LEMMA RequestStaked ==
  ASSUME StakedIInv, RequestEthWithdrawal
  PROVE  StakedIInv'
<1>. DEFINE n == Len(delayedWithdrawals)
<1>1. EthIInv /\ EthIInv'
  BY RequestIInv DEF StakedIInv
<1>2. /\ delayedWithdrawals' = Append(delayedWithdrawals, pod)
      /\ pod' = NoEther
      /\ UNCHANGED <<stage, stakedButNotVerifiedEth>>
  BY DEF RequestEthWithdrawal, WithdrawBeforeRestaking, ndcEthVars
<1>3. /\ n \in Nat /\ DOMAIN delayedWithdrawals = 1 .. n
      /\ DOMAIN delayedWithdrawals' = 1 .. n + 1
      /\ \A i \in 1 .. n : delayedWithdrawals'[i] = delayedWithdrawals[i]
      /\ delayedWithdrawals'[n + 1] = pod
  BY <1>1, <1>2, SweepsTyped, AppendProperties
<1>. HIDE DEF n
<1>4. \A i \in DOMAIN delayedWithdrawals' :
        \/ i \in DOMAIN delayedWithdrawals /\ delayedWithdrawals'[i] = delayedWithdrawals[i]
        \/ i = n + 1 /\ delayedWithdrawals'[i] = pod
  BY <1>3
<1>5. IsFiniteSet(StillStaked)' /\ StakedMatchesValidators'
  BY <1>2 DEF StakedIInv, StillStaked, StakedMatchesValidators
<1>6. SweepsOK'
  <2>1. \A sweep : SweepOK(sweep)' <=> SweepOK(sweep)
    BY DEF SweepOK
  <2>. QED
    BY <1>2, <1>4, <2>1, NothingSwept DEF StakedIInv, SweepsOK, SweepOK
<1>7. ExitsWaitOnce'
  <2>1. ExitsWaitOnce
    BY DEF StakedIInv
  <2>2. \A exits : Waiting(exits)' <=> Waiting(exits)
    BY <1>2 DEF Waiting
  <2>3. Waiting(pod.exits)' /\ pod'.exits = {}
    BY <1>2, NothingSwept DEF Waiting
  <2>4. ASSUME NEW i \in DOMAIN delayedWithdrawals'
        PROVE  Waiting(delayedWithdrawals[i].exits)'
    BY <1>2, <1>4, <2>1, <2>4 DEF ExitsWaitOnce, Waiting
  <2>5. ASSUME NEW i \in DOMAIN delayedWithdrawals', NEW j \in DOMAIN delayedWithdrawals', i # j
        PROVE  delayedWithdrawals'[i].exits \cap delayedWithdrawals'[j].exits = {}
    BY <1>4, <2>1, <2>5 DEF ExitsWaitOnce
  <2>. QED
    BY <2>3, <2>4, <2>5 DEF ExitsWaitOnce
<1>. QED
  BY <1>1, <1>5, <1>6, <1>7 DEF StakedIInv

LEMMA ClaimStaked ==
  ASSUME StakedIInv, ClaimEthWithdrawal
  PROVE  StakedIInv'
<1>. DEFINE swept == Head(delayedWithdrawals)
            gone  == swept.exits
<1>1. EthIInv /\ EthIInv' /\ StakingTypeOK /\ ExitsWaitOnce /\ SweepsOK
  BY ClaimIInv DEF StakedIInv, EthIInv, NDCEthTypeOK
<1>2. /\ claimable > 0
      /\ delayedWithdrawals' = Tail(delayedWithdrawals)
      /\ stage' = [v \in Validators |-> IF v \in gone THEN "claimed" ELSE stage[v]]
      /\ stakedButNotVerifiedEth'
           = stakedButNotVerifiedEth - ExitedValidators(swept.eth) * FULL_STAKE
      /\ UNCHANGED pod
  BY DEF ClaimEthWithdrawal, ClaimDelayedWithdrawal
<1>3. /\ swept \in Sweeps /\ swept = delayedWithdrawals[1] /\ 1 \in DOMAIN delayedWithdrawals
      /\ \A i \in DOMAIN delayedWithdrawals' :
           /\ i \in Int /\ i + 1 # 1 /\ i + 1 \in DOMAIN delayedWithdrawals
           /\ delayedWithdrawals'[i] = delayedWithdrawals[i + 1]
  <2>1. \A i \in DOMAIN delayedWithdrawals' : i \in Nat /\ i # 0
    <3>1. delayedWithdrawals' \in Seq(Sweeps)
      BY <1>1 DEF EthIInv, NDCEthTypeOK, StakingTypeOK
    <3>. QED
      BY <3>1
  <2>. QED
    BY <1>1, <1>2, <2>1, ClaimedSweep
<1>4. SweepOK(swept) /\ gone \subseteq Validators /\ \A v \in gone : stage[v] = "exited"
  BY <1>1, <1>3, SweepType DEF SweepsOK, ExitsWaitOnce, Waiting
<1>5. ExitedValidators(swept.eth) = Cardinality(gone) /\ IsFiniteSet(gone)
  BY <1>3, <1>4, ExitedAreFound DEF SweepOK
<1>. HIDE DEF swept
<1>6. StillStaked' = StillStaked \ gone /\ gone \subseteq StillStaked
  BY <1>2, <1>4 DEF StillStaked
<1>7. IsFiniteSet(StillStaked)' /\ StakedMatchesValidators'
  <2>1. /\ IsFiniteSet(StillStaked \ gone)
        /\ Cardinality(StillStaked \ gone)
             = Cardinality(StillStaked) - Cardinality(StillStaked \cap gone)
    BY FS_Difference DEF StakedIInv
  <2>2. StillStaked \cap gone = gone
    BY <1>6
  <2>3. Cardinality(StillStaked) \in Nat /\ Cardinality(gone) \in Nat
    BY <1>5, FS_CardinalityType DEF StakedIInv
  <2>4. stakedButNotVerifiedEth = FULL_STAKE * Cardinality(StillStaked)
    BY DEF StakedIInv, StakedMatchesValidators
  <2>5. FULL_STAKE * (Cardinality(StillStaked) - Cardinality(gone))
          = FULL_STAKE * Cardinality(StillStaked) - Cardinality(gone) * FULL_STAKE
    BY <2>3
  <2>6. Cardinality(StillStaked') = Cardinality(StillStaked) - Cardinality(gone)
    BY <1>6, <2>1, <2>2
  <2>7. stakedButNotVerifiedEth' = FULL_STAKE * Cardinality(StillStaked')
    BY <1>2, <1>5, <2>4, <2>5, <2>6
  <2>. QED
    BY <1>6, <2>1, <2>7 DEF StakedMatchesValidators
<1>8. SweepsOK'
  BY <1>1, <1>2, <1>3 DEF SweepsOK, SweepOK
<1>9. ExitsWaitOnce'
  <2>1. gone = delayedWithdrawals[1].exits /\ gone \cap pod.exits = {}
    BY <1>1, <1>3 DEF ExitsWaitOnce
  <2>2. \A exits \in SUBSET Validators : Waiting(exits) /\ exits \cap gone = {} => Waiting(exits)'
    BY <1>2 DEF Waiting
  <2>3. pod.exits \in SUBSET Validators
    BY <1>1, SweepsTyped, SweepType
  <2>4. Waiting(pod.exits)'
    BY <1>1, <1>2, <2>1, <2>2, <2>3 DEF ExitsWaitOnce
  <2>5. ASSUME NEW i \in DOMAIN delayedWithdrawals'
        PROVE  /\ Waiting(delayedWithdrawals[i].exits)'
               /\ delayedWithdrawals'[i].exits \cap pod'.exits = {}
    <3>1. delayedWithdrawals[i + 1].exits \in SUBSET Validators
      BY <1>1, <1>3, <2>5, SweepsTyped, SweepType
    <3>2. /\ Waiting(delayedWithdrawals[i + 1].exits)
          /\ delayedWithdrawals[i + 1].exits \cap gone = {}
          /\ delayedWithdrawals[i + 1].exits \cap pod.exits = {}
      BY <1>1, <1>3, <2>1, <2>5 DEF ExitsWaitOnce
    <3>. QED
      BY <1>2, <1>3, <2>2, <2>5, <3>1, <3>2 DEF Waiting
  <2>6. ASSUME NEW i \in DOMAIN delayedWithdrawals', NEW j \in DOMAIN delayedWithdrawals', i # j
        PROVE  delayedWithdrawals'[i].exits \cap delayedWithdrawals'[j].exits = {}
    <3>1. i + 1 # j + 1
      BY <1>3, <2>6
    <3>. QED
      BY <1>1, <1>3, <2>6, <3>1 DEF ExitsWaitOnce
  <2>. QED
    BY <2>4, <2>5, <2>6 DEF ExitsWaitOnce
<1>. QED
  BY <1>1, <1>7, <1>8, <1>9 DEF StakedIInv

\* A validator joins the sweep in the pod: with its whole stake, or, if it is the
\* first slashed one there, with less.
LEMMA SweepGrows ==
  ASSUME SweepsAreClear, NEW sweep \in Sweeps, SweepOK(sweep), NEW v \in Validators \ sweep.exits,
         NEW balance \in ExitBalances, NEW grown \in Sweeps,
         LET slashed == IF balance < FULL_STAKE THEN 1 ELSE 0 IN
           /\ sweep.slashed + slashed <= MaxSlashedPerSweep
           /\ grown.slashed = sweep.slashed + slashed,
         grown.eth = sweep.eth + balance,
         grown.rewards = sweep.rewards,
         grown.exits = sweep.exits \cup {v}
  PROVE  SweepOK(grown)
<1>. DEFINE count == Cardinality(sweep.exits)
            rest  == sweep.eth - FULL_STAKE * count - sweep.rewards
            after == grown.eth - FULL_STAKE * Cardinality(grown.exits) - grown.rewards
<1>1. IsFiniteSet(grown.exits) /\ Cardinality(grown.exits) = count + 1
  BY FS_AddElement DEF SweepOK
<1>2. count \in Nat /\ FULL_STAKE * (count + 1) = FULL_STAKE * count + FULL_STAKE
  BY FS_CardinalityType DEF SweepOK
<1>3. /\ sweep.eth \in Nat /\ sweep.rewards \in Nat /\ sweep.slashed \in Nat
      /\ balance \in MIN_SLASHED_AMOUNT .. FULL_STAKE
  BY SweepType DEF SweepsAreClear
<1>4. FULL_STAKE * count \in Int
  BY <1>2
<1>5. after = rest + balance - FULL_STAKE
  <2>. HIDE DEF count
  <2>1. FULL_STAKE * Cardinality(grown.exits) = FULL_STAKE * count + FULL_STAKE
    BY <1>1, <1>2
  <2>2. PICK p \in Int : p = FULL_STAKE * count
    BY <1>4
  <2>. QED
    BY <1>3, <2>1, <2>2
<1>6. rest \in Int
  BY <1>3, <1>4
<1>. HIDE DEF count, rest, after
<1>7. CASE balance = FULL_STAKE
  <2>1. grown.slashed = sweep.slashed /\ after = rest
    BY <1>3, <1>5, <1>6, <1>7
  <2>. QED
    BY <1>1, <2>1 DEF SweepOK, rest, after, count
<1>8. CASE balance < FULL_STAKE
  <2>1. sweep.slashed = 0 /\ grown.slashed = 1
    BY <1>3, <1>8 DEF SweepsAreClear
  <2>2. rest = 0
    BY <2>1 DEF SweepOK, rest, count
  <2>3. after \in MIN_SLASHED_AMOUNT - FULL_STAKE .. -1
    BY <1>3, <1>5, <1>8, <2>2
  <2>. QED
    BY <1>1, <2>1, <2>3 DEF SweepOK, after
<1>. QED
  BY <1>3, <1>7, <1>8

LEMMA ExitStaked ==
  ASSUME SweepsAreClear, StakedIInv, EthIInv', NEW v \in Validators, NEW balance \in ExitBalances,
         ValidatorExits(v, balance), UNCHANGED ndcEthVars
  PROVE  StakedIInv'
<1>. DEFINE slashed == IF balance < FULL_STAKE THEN 1 ELSE 0
<1>1. /\ stage[v] = "active" /\ stage' = [stage EXCEPT ![v] = "exited"]
      /\ pod.slashed + slashed <= MaxSlashedPerSweep
      /\ pod' = [pod EXCEPT !.eth = @ + balance, !.slashed = @ + slashed, !.exits = @ \cup {v}]
      /\ UNCHANGED <<delayedWithdrawals, stakedButNotVerifiedEth>>
  BY DEF ValidatorExits, routerVars, ndcEthVars
<1>2. /\ pod \in Sweeps /\ SweepsOK /\ ExitsWaitOnce
      /\ stage \in [Validators -> Stages]
  BY SweepsTyped DEF StakedIInv, EthIInv, NDCEthTypeOK, StakingTypeOK
<1>3. pod' \in Sweeps
  BY DEF EthIInv, NDCEthTypeOK, StakingTypeOK
<1>4. /\ pod'.eth = pod.eth + balance /\ pod'.slashed = pod.slashed + slashed
      /\ pod'.rewards = pod.rewards /\ pod'.exits = pod.exits \cup {v}
  BY <1>1, <1>2 DEF Sweeps
<1>5. StillStaked' = StillStaked
  BY <1>1, <1>2 DEF StillStaked
<1>6. v \notin pod.exits /\ \A i \in DOMAIN delayedWithdrawals : v \notin delayedWithdrawals[i].exits
  BY <1>1, <1>2 DEF ExitsWaitOnce, Waiting
<1>7. SweepsOK'
  <2>1. SweepOK(pod')
    BY <1>1, <1>2, <1>3, <1>4, <1>6, SweepGrows DEF SweepsOK
  <2>. QED
    BY <1>1, <1>2, <2>1 DEF SweepsOK, SweepOK
<1>8. ExitsWaitOnce'
  <2>1. \A w \in Validators : stage[w] = "exited" \/ w = v => stage'[w] = "exited"
    BY <1>1, <1>2
  <2>2. /\ pod.exits \in SUBSET Validators
        /\ \A i \in DOMAIN delayedWithdrawals : delayedWithdrawals[i].exits \in SUBSET Validators
    BY SweepsTyped, SweepType DEF StakedIInv
  <2>. QED
    BY <1>1, <1>2, <1>4, <1>6, <2>1, <2>2 DEF ExitsWaitOnce, Waiting
<1>. QED
  BY <1>1, <1>5, <1>7, <1>8 DEF StakedIInv, StakedMatchesValidators

LEMMA RewardStaked ==
  ASSUME SweepsAreClear, StakedIInv, EthIInv', NEW amount \in Rewards, RewardsSwept(amount),
         UNCHANGED ndcEthVars
  PROVE  StakedIInv'
<1>1. /\ pod.rewards + amount <= MaxPodRewards
      /\ pod' = [pod EXCEPT !.eth = @ + amount, !.rewards = @ + amount]
      /\ UNCHANGED <<stage, delayedWithdrawals, stakedButNotVerifiedEth>>
  BY DEF RewardsSwept, routerVars, ndcEthVars
<1>2. pod \in Sweeps /\ SweepsOK /\ ExitsWaitOnce
  BY SweepsTyped DEF StakedIInv
<1>3. /\ pod'.eth = pod.eth + amount /\ pod'.rewards = pod.rewards + amount
      /\ pod'.slashed = pod.slashed /\ pod'.exits = pod.exits
  BY <1>1, <1>2 DEF Sweeps
<1>4. SweepOK(pod')
  <2>. DEFINE count == Cardinality(pod.exits)
  <2>1. SweepOK(pod)
    BY <1>2 DEF SweepsOK
  <2>2. /\ pod.eth \in Nat /\ pod.rewards \in Nat /\ amount \in Nat /\ FULL_STAKE * count \in Int
        /\ MaxPodRewards \in Nat /\ MaxPodRewards < MIN_SLASHED_AMOUNT
    <3>1. count \in Nat
      BY <2>1, FS_CardinalityType DEF SweepOK
    <3>. QED
      BY <1>2, <3>1, SweepType DEF SweepsAreClear
  <2>3. pod'.eth - FULL_STAKE * count - pod'.rewards = pod.eth - FULL_STAKE * count - pod.rewards
    <3>. HIDE DEF count
    <3>. QED
      BY <1>3, <2>2
  <2>4. pod'.rewards \in 0 .. MIN_SLASHED_AMOUNT - 1
    BY <1>1, <1>3, <2>2
  <2>. QED
    BY <1>3, <2>1, <2>3, <2>4 DEF SweepOK
<1>5. SweepsOK'
  BY <1>1, <1>2, <1>4 DEF SweepsOK, SweepOK
<1>6. ExitsWaitOnce'
  BY <1>1, <1>2, <1>3 DEF ExitsWaitOnce, Waiting
<1>. QED
  BY <1>1, <1>5, <1>6 DEF StakedIInv, StillStaked, StakedMatchesValidators

-----------------------------------------------------------------------------
(* The theorems. *)

LEMMA InitStaked == NDCEthInit => StakedIInv
<1>. SUFFICES ASSUME NDCEthInit PROVE StakedIInv
  OBVIOUS
<1>1. EthIInv
  BY InitEthIInv
<1>2. /\ pod = NoEther /\ DOMAIN delayedWithdrawals = {} /\ stakedButNotVerifiedEth = 0
      /\ StillStaked = {}
  BY DEF NDCEthInit, StakingInit, StillStaked
<1>3. IsFiniteSet(StillStaked) /\ StakedMatchesValidators
  BY <1>2, FS_EmptySet DEF StakedMatchesValidators
<1>4. SweepsOK /\ ExitsWaitOnce
  BY <1>2, NothingSwept DEF SweepsOK, ExitsWaitOnce, Waiting
<1>. QED
  BY <1>1, <1>3, <1>4 DEF StakedIInv

LEMMA NextStaked ==
  ASSUME SweepsAreClear, StakedIInv, [NDCEthNext]_ethVars
  PROVE  StakedIInv'
<1>1. EthIInv'
  BY NextEthIInv DEF StakedIInv
<1>2. CASE StakingStep
  <2>1. CASE DelayPasses
    BY <1>1, <1>2, <2>1, SameStaked DEF StakingStep, DelayPasses, ndcEthVars
  <2>. QED
    BY <1>1, <1>2, <2>1, ExitStaked, RewardStaked DEF StakingStep
<1>3. ASSUME NEW amount \in Funds,
             \/ ReceiveEther(amount)
             \/ \E a \in Assets : EthReceiveTokens(a, amount) \/ EthTransferBack(a, amount)
      PROVE  StakedIInv'
  BY <1>1, <1>3, SameStaked DEF ReceiveEther, EthReceiveTokens, EthTransferBack, stakingVars
<1>4. CASE EtherNext
  BY <1>2, <1>3, <1>4, StakeStaked, RequestStaked, ClaimStaked DEF EtherNext
<1>5. CASE SetupNext
  <2>1. UNCHANGED <<stage, pod, delayedWithdrawals, stakedButNotVerifiedEth>>
    BY <1>5 DEF SetupNext, RegisterSsvValidator, RegisterValidator, ExitSsvValidators,
       BulkExitValidator, RemoveSsvValidators, BulkRemoveValidator, CreateEigenPod, CreatePod,
       EthPause, EthUnpause, ndcEthVars, stakingVars, routerVars
  <2>. QED
    BY <1>1, <2>1, SameStaked
<1>6. CASE UNCHANGED ethVars
  BY <1>1, <1>6, SameStaked DEF ethVars, stakingVars, ndcEthVars
<1>. QED
  BY <1>4, <1>5, <1>6 DEF NDCEthNext

\* stakedButNotVerifiedEth never drifts from the validators it stands for: with
\* any number of stakes, exits, slashings, sweeps and claims, the amount of each
\* claimed withdrawal gives away how many validators it came from.
THEOREM StakedIsCounted ==
  ASSUME SweepsAreClear
  PROVE  NDCEthSpec => []StakedMatchesValidators
<1>1. NDCEthInit => StakedIInv
  BY InitStaked
<1>2. StakedIInv /\ [NDCEthNext]_ethVars => StakedIInv'
  BY NextStaked
<1>3. StakedIInv => StakedMatchesValidators
  BY DEF StakedIInv
<1>. QED
  BY <1>1, <1>2, <1>3, PTL DEF NDCEthSpec

Worth == tokenBalance[WETH] + ethBalance + stakedButNotVerifiedEth

LEMMA WorthIsBalance ==
  ASSUME NDCEthTypeOK
  PROVE  EthAssetBalance(WETH) = Worth /\ Worth \in Nat
BY DEF NDCEthTypeOK, EthAssetBalance, Worth

\* Only stakeEth raises the staked amount, and it takes from ether and WETH what
\* it adds.
LEMMA StakeMovesWorth ==
  ASSUME EthIInv, [NDCEthNext]_ethVars, stakedButNotVerifiedEth' > stakedButNotVerifiedEth
  PROVE  Worth' = Worth
<1>1. NDCEthTypeOK
  BY DEF EthIInv
<1>2. ASSUME NEW validators \in ValidatorLists, StakeEth(validators)
      PROVE  Worth' = Worth
  <2>. DEFINE required  == Len(validators) * FULL_STAKE
              unwrapped == IF ethBalance < required THEN required - ethBalance ELSE 0
  <2>1. required \in Nat
    BY ListType
  <2>2. /\ ethBalance \in Nat /\ stakedButNotVerifiedEth \in Nat
        /\ tokenBalance \in [Assets -> Nat] /\ tokenBalance[WETH] \in Nat
    BY <1>1 DEF NDCEthTypeOK
  <2>3. /\ tokenBalance' = [tokenBalance EXCEPT ![WETH] = @ - unwrapped]
        /\ ethBalance' = ethBalance + unwrapped - required
        /\ stakedButNotVerifiedEth' = stakedButNotVerifiedEth + required
    BY <1>2 DEF StakeEth
  <2>4. unwrapped \in Nat
    BY <2>1, <2>2
  <2>. HIDE DEF required, unwrapped
  <2>. QED
    BY <2>1, <2>2, <2>3, <2>4 DEF Worth
<1>3. CASE ClaimEthWithdrawal
  <2>1. Head(delayedWithdrawals).eth \in Nat
    BY <1>1, <1>3, ClaimedSweep, SweepType
       DEF ClaimEthWithdrawal, ClaimDelayedWithdrawal, NDCEthTypeOK
  <2>2. ExitedValidators(Head(delayedWithdrawals).eth) * FULL_STAKE \in Nat
    BY <2>1, ExitedType
  <2>3. stakedButNotVerifiedEth \in Nat
    BY <1>1 DEF NDCEthTypeOK
  <2>. QED
    BY <1>3, <2>2, <2>3 DEF ClaimEthWithdrawal
<1>4. CASE UNCHANGED stakedButNotVerifiedEth
  BY <1>1, <1>4 DEF NDCEthTypeOK
<1>5. StakingStep \/ RequestEthWithdrawal \/ SetupNext \/ UNCHANGED ethVars
        => UNCHANGED stakedButNotVerifiedEth
  BY DEF StakingStep, RequestEthWithdrawal, SetupNext, RegisterSsvValidator, ExitSsvValidators,
     RemoveSsvValidators, CreateEigenPod, EthPause, EthUnpause, ethVars, ndcEthVars
<1>6. ASSUME NEW amount \in Funds,
             \/ ReceiveEther(amount)
             \/ \E a \in Assets : EthReceiveTokens(a, amount) \/ EthTransferBack(a, amount)
      PROVE  UNCHANGED stakedButNotVerifiedEth
  BY <1>6 DEF ReceiveEther, EthReceiveTokens, EthTransferBack
<1>. QED
  BY <1>2, <1>3, <1>4, <1>5, <1>6 DEF NDCEthNext, EtherNext

\* Only a claim takes a withdrawal out of the router, and it finds its validators.
LEMMA ClaimMovesWorth ==
  ASSUME StakedIInv, [NDCEthNext]_ethVars, Len(delayedWithdrawals') < Len(delayedWithdrawals)
  PROVE  Worth' = Worth + Head(delayedWithdrawals).eth
                    - FULL_STAKE * Cardinality(Head(delayedWithdrawals).exits)
<1>1. NDCEthTypeOK /\ delayedWithdrawals \in Seq(Sweeps) /\ pod \in Sweeps
  BY SweepsTyped DEF StakedIInv, EthIInv
<1>2. CASE ClaimEthWithdrawal
  <2>. DEFINE swept == Head(delayedWithdrawals)
              count == Cardinality(swept.exits)
  <2>1. swept \in Sweeps /\ SweepOK(swept)
    BY <1>1, <1>2, ClaimedSweep DEF ClaimEthWithdrawal, ClaimDelayedWithdrawal, StakedIInv,
       SweepsOK, NDCEthTypeOK
  <2>2. swept.eth \in Nat /\ count \in Nat /\ ExitedValidators(swept.eth) = count
    BY <2>1, SweepType, ExitedAreFound, FS_CardinalityType DEF SweepOK
  <2>3. /\ ethBalance' = ethBalance + swept.eth
        /\ stakedButNotVerifiedEth' = stakedButNotVerifiedEth - count * FULL_STAKE
        /\ UNCHANGED tokenBalance
    BY <1>2, <2>2 DEF ClaimEthWithdrawal
  <2>4. /\ ethBalance \in Nat /\ stakedButNotVerifiedEth \in Nat /\ tokenBalance[WETH] \in Nat
        /\ FULL_STAKE * count = count * FULL_STAKE /\ count * FULL_STAKE \in Nat
    BY <1>1, <2>2 DEF NDCEthTypeOK
  <2>. HIDE DEF swept, count
  <2>5. Worth' = Worth + swept.eth - FULL_STAKE * count
    <3>1. PICK taken \in Nat : taken = count * FULL_STAKE /\ taken = FULL_STAKE * count
      BY <2>4
    <3>2. PICK tokens \in Nat, ether \in Nat, staked \in Nat, came \in Nat :
            /\ tokens = tokenBalance[WETH] /\ ether = ethBalance
            /\ staked = stakedButNotVerifiedEth /\ came = swept.eth
      BY <2>2, <2>4
    <3>3. /\ tokenBalance'[WETH] = tokens /\ ethBalance' = ether + came
          /\ stakedButNotVerifiedEth' = staked - taken
      BY <2>3, <3>1, <3>2
    <3>4. Worth = tokens + ether + staked
      BY <3>2 DEF Worth
    <3>5. Worth' = tokens + (ether + came) + (staked - taken)
      BY <3>3 DEF Worth
    <3>6. Worth' = Worth + came - taken
      <4>1. tokens + (ether + came) + (staked - taken) = tokens + ether + staked + came - taken
        OBVIOUS
      <4>. QED
        BY <3>4, <3>5, <4>1
    <3>. QED
      BY <3>1, <3>2, <3>6
  <2>. QED
    BY <2>5 DEF swept, count
<1>3. CASE UNCHANGED delayedWithdrawals
  BY <1>1, <1>3
<1>4. CASE RequestEthWithdrawal
  <2>1. delayedWithdrawals' = Append(delayedWithdrawals, pod)
    BY <1>4 DEF RequestEthWithdrawal, WithdrawBeforeRestaking
  <2>. QED
    BY <1>1, <2>1, AppendProperties
<1>5. StakingStep \/ SetupNext \/ UNCHANGED ethVars => UNCHANGED delayedWithdrawals
  BY DEF StakingStep, ValidatorExits, RewardsSwept, DelayPasses, SetupNext, RegisterSsvValidator,
     RegisterValidator, ExitSsvValidators, BulkExitValidator, RemoveSsvValidators,
     BulkRemoveValidator, CreateEigenPod, CreatePod, EthPause, EthUnpause, ethVars, stakingVars,
     routerVars
<1>6. ASSUME NEW amount \in Funds,
             \/ ReceiveEther(amount)
             \/ \E a \in Assets : EthReceiveTokens(a, amount) \/ EthTransferBack(a, amount)
      PROVE  UNCHANGED delayedWithdrawals
  BY <1>6 DEF ReceiveEther, EthReceiveTokens, EthTransferBack, stakingVars
<1>7. ASSUME NEW validators \in ValidatorLists, StakeEth(validators)
      PROVE  UNCHANGED delayedWithdrawals
  BY <1>7 DEF StakeEth, Stake, routerVars
<1>. QED
  BY <1>2, <1>3, <1>4, <1>5, <1>6, <1>7 DEF NDCEthNext, EtherNext

\* What the contract is worth is what its ether is worth: stakes do not change it,
\* and a claim changes it by rewards and slashing only.
THEOREM WorthFollowsTheEther ==
  ASSUME SweepsAreClear
  PROVE  NDCEthSpec => ValueFollowsTheEther
<1>. DEFINE Follows ==
       /\ stakedButNotVerifiedEth' > stakedButNotVerifiedEth
            => EthAssetBalance(WETH)' = EthAssetBalance(WETH)
       /\ Len(delayedWithdrawals') < Len(delayedWithdrawals)
            => LET swept == Head(delayedWithdrawals)
               IN EthAssetBalance(WETH)' =
                    EthAssetBalance(WETH) + swept.eth - FULL_STAKE * Cardinality(swept.exits)
<1>1. NDCEthInit => StakedIInv
  BY InitStaked
<1>2. StakedIInv /\ [NDCEthNext]_ethVars => StakedIInv'
  BY NextStaked
<1>3. StakedIInv /\ StakedIInv' /\ [NDCEthNext]_ethVars => Follows
  <2>. SUFFICES ASSUME StakedIInv, StakedIInv', [NDCEthNext]_ethVars PROVE Follows
    OBVIOUS
  <2>1. EthAssetBalance(WETH) = Worth
    BY WorthIsBalance DEF StakedIInv, EthIInv
  <2>2. EthAssetBalance(WETH)' = Worth'
    <3>1. NDCEthTypeOK'
      BY DEF StakedIInv, EthIInv
    <3>. QED
      BY <3>1 DEF NDCEthTypeOK, EthAssetBalance, Worth
  <2>. QED
    BY <2>1, <2>2, StakeMovesWorth, ClaimMovesWorth DEF StakedIInv
<1>. QED
  BY <1>1, <1>2, <1>3, PTL DEF NDCEthSpec, ValueFollowsTheEther
=============================================================================
