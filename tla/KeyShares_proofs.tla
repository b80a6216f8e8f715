--------------------------- MODULE KeyShares_proofs ---------------------------
(***************************************************************************)
(* Proofs about the operateValidators script beside the tasks an operator  *)
(* runs by hand: a validator they register, stake, exit and remove is      *)
(* never active without its SSV operators, and every validator that is     *)
(* registered has operators that can use the shares of its key.            *)
(*                                                                         *)
(* The invariant of the script, OpIInv, goes on to hold: a task that       *)
(* changes the cluster finds no register transaction waiting, and one that *)
(* removes validators only names some that have left the beacon chain.     *)
(***************************************************************************)
EXTENDS KeyShares, OperateValidators_proofs

\* The validators that have left.
Left == {v \in Validators : stage[v] \in {"exited", "claimed"}}

\* A task that has read the cluster names validators that have left.
TasksSound ==
  /\ DOMAIN task = Terminals
  /\ \A t \in Terminals : task[t].validators \subseteq Left

TasksIInv == OpIInv /\ EthIInv /\ TasksSound

USE OperateAssumption, SsvTasksAssumption, NodeDelegatorETHAssumption
    DEF OperateAssumption, SsvTasksAssumption, NodeDelegatorETHAssumption

-----------------------------------------------------------------------------
(* The script *)

\* Between transactions a run does not call the contract.
LEMMA RunsCallNothing ==
  ASSUME RunStep \/ ServiceFails \/ Crash \/ (\E c \in Configs : StartRun(c))
           \/ (\E v \in Validators : P2PStep(v))
  PROVE  UNCHANGED ethVars
BY DEF RunStep, IssueRequest, RecordRequest, ConfirmCreated, GiveUpOnCreation, BroadcastRegister,
   BroadcastDeposit, Send, RecordRegisterTx, RecordDepositTx, RecordTx, WaitForRegister,
   WaitForDeposit, WaitFor, GetDepositData, Finish, StopAfterRegistering, CallFails, Throws,
   ServiceFails, Crash, StartRun, P2PStep

\* What a step of the script calls.
LEMMA ScriptCalls ==
  ASSUME OpIInv, ScriptNext
  PROVE  \/ UNCHANGED ethVars
         \/ \E v \in Validators : RegisterSsvValidator(v) \/ StakeEth(<<v>>)
         \/ \E amount \in Funds : EthReceiveTokens(WETH, amount)
<1>1. ASSUME NEW i \in DOMAIN txs, Mine(i)
      PROVE  \/ UNCHANGED ethVars
             \/ \E v \in Validators : RegisterSsvValidator(v) \/ StakeEth(<<v>>)
  <2>1. txs[i].validator \in Validators
    BY <1>1, TxMined DEF OpIInv, ScriptTypeOK
  <2>. QED
    BY <1>1, <2>1 DEF Mine
<1>. QED
  BY <1>1, RunsCallNothing DEF ScriptNext, Funded

\* The contract's own invariant, and the validators that have left, after a call.
LEMMA CallsIInv ==
  ASSUME EthIInv,
         \/ UNCHANGED ethVars
         \/ \E v \in Validators : RegisterSsvValidator(v) \/ StakeEth(<<v>>)
         \/ \E amount \in Funds : EthReceiveTokens(WETH, amount)
  PROVE  EthIInv' /\ Left \subseteq Left'
<1>1. CASE UNCHANGED ethVars
  BY <1>1, NextEthIInv DEF ethVars, stakingVars, Left
<1>2. ASSUME NEW v \in Validators, RegisterSsvValidator(v)
      PROVE  EthIInv' /\ Left \subseteq Left'
  BY <1>2, SetupIInv DEF SetupNext, RegisterSsvValidator, RegisterValidator, Left
<1>3. ASSUME NEW v \in Validators, StakeEth(<<v>>)
      PROVE  EthIInv' /\ Left \subseteq Left'
  <2>1. <<v>> \in Seq(Validators)
    OBVIOUS
  <2>2. \A w \in Left : w # v /\ stage'[w] = stage[w]
    BY <1>3, OneStaked DEF EthIInv, DepositedOnce, Left
  <2>. QED
    BY <1>3, <2>1, <2>2, StakeIInv DEF Left
<1>4. ASSUME NEW amount \in Funds, EthReceiveTokens(WETH, amount)
      PROVE  EthIInv' /\ Left \subseteq Left'
  BY <1>4, TransfersIInv DEF EthReceiveTokens, stakingVars, Left
<1>. QED
  BY <1>1, <1>2, <1>3, <1>4

LEMMA ScriptTasksIInv ==
  ASSUME TasksIInv, SettledNext, UNCHANGED task
  PROVE  TasksIInv'
<1>1. OpIInv'
  BY SettledStepIInv DEF TasksIInv
<1>2. EthIInv' /\ Left \subseteq Left'
  BY ScriptCalls, CallsIInv DEF TasksIInv, SettledNext
<1>. QED
  BY <1>1, <1>2 DEF TasksIInv, TasksSound

-----------------------------------------------------------------------------
(* The tasks *)

\* A task leaves the script's invariant as it is when the validators it unregisters
\* have left, and no register transaction waits where it changes the cluster.
LEMMA TaskOpIInv ==
  ASSUME OpIInv, UNCHANGED <<pc, store, txs, ethPaused>>, ActiveAreRun',
         fresh \subseteq fresh' \/ NonePending,
         validatorsStaked \subseteq validatorsStaked',
         ssvValidators \ ssvValidators' \subseteq validatorsStaked
  PROVE  OpIInv'
<1>1. \A v : HasRegistered(v) => HasRegistered(v)'
  BY DEF HasRegistered
<1>2. TxsFollowRegistration'
  BY <1>1 DEF OpIInv, TxsFollowRegistration, HasRegistered
<1>3. RequestSound'
  BY <1>1 DEF OpIInv, RequestSound, Registers, HasRegistered
<1>4. PendingSound'
  BY DEF OpIInv, PendingSound, PendingRegister, NonePending
<1>. QED
  BY <1>2, <1>3, <1>4 DEF OpIInv, ScriptTypeOK, RunSound, Registers

\* When a task may change the cluster, one at a time, no register transaction waits.
LEMMA NoneWaits ==
  ASSUME OpIInv, CoordinatedNext, UNCHANGED txs
  PROVE  fresh' = {} => NonePending
BY DEF CoordinatedNext, Registering, OpIInv, PendingSound, PendingRegister, NonePending

\* A task that has read the cluster, or has sent its transaction.
LEMMA ReadsCluster ==
  ASSUME TasksSound, NEW t \in Terminals, NEW name, NEW vs \in SUBSET Left,
         GetClusterInfo(t, name, vs)
  PROVE  TasksSound' /\ fresh \subseteq fresh'
<1>1. UNCHANGED stage
  BY DEF GetClusterInfo, ethVars, stakingVars
<1>. QED
  BY <1>1 DEF GetClusterInfo, TasksSound, Left

LEMMA TaskEnds ==
  ASSUME TasksSound, NEW t \in Terminals, UNCHANGED stage, task' = [task EXCEPT ![t] = NoTask]
  PROVE  TasksSound'
BY DEF TasksSound, NoTask, Left

\* Nothing the contract has changes: the cluster at most.
LEMMA OnlyClusterIInv ==
  ASSUME TasksIInv, UNCHANGED <<ethVars, otherThanCluster>>,
         fresh \subseteq fresh' \/ NonePending
  PROVE  OpIInv' /\ EthIInv'
<1>1. UNCHANGED <<pc, store, txs, ethPaused, stage, ssvValidators, validatorsStaked>>
  BY DEF otherThanCluster, ethVars, stakingVars, ssvVars, ndcEthVars
<1>2. OpIInv'
  BY <1>1, TaskOpIInv DEF TasksIInv, OpIInv, ActiveAreRun
<1>. QED
  BY <1>2, NextEthIInv DEF TasksIInv

LEMMA DepositIInv ==
  ASSUME TasksIInv, CoordinatedNext, DepositSSVTask
  PROVE  TasksIInv'
<1>. PICK t \in Terminals : DepositSSV(t)
  BY DEF DepositSSVTask
<1>1. UNCHANGED <<ethVars, otherThanCluster>>
  BY DEF DepositSSV, GetClusterInfo, SendsWithCluster
<1>2. TasksSound' /\ (fresh \subseteq fresh' \/ fresh' = {})
  <2>1. CASE GetClusterInfo(t, "depositSSV", {})
    BY <2>1, ReadsCluster DEF TasksIInv
  <2>2. CASE SendsWithCluster(t, "depositSSV", UNCHANGED ethVars)
    <3>1. UNCHANGED stage
      BY <1>1 DEF ethVars, stakingVars
    <3>. QED
      BY <2>2, <3>1, TaskEnds DEF SendsWithCluster, ClusterChanges, TasksIInv
  <2>. QED
    BY <2>1, <2>2 DEF DepositSSV
<1>3. fresh \subseteq fresh' \/ NonePending
  BY <1>1, <1>2, NoneWaits DEF otherThanCluster, TasksIInv
<1>. QED
  BY <1>1, <1>2, <1>3, OnlyClusterIInv DEF TasksIInv

\* Only validators that have left are removed, and they were staked once.
LEMMA RemovalIInv ==
  ASSUME TasksIInv, CoordinatedNext, RemoveValidatorsTask
  PROVE  TasksIInv'
<1>. PICK t \in Terminals, v \in Validators : RemoveSsvValidatorsOf(t, {v})
  BY DEF RemoveValidatorsTask
<1>. DEFINE gone == task[t].validators
<1>0. gone \subseteq Left /\ gone \subseteq Validators /\ TasksSound /\ OpIInv /\ EthIInv
  BY DEF TasksIInv, TasksSound, Left
<1>1. CASE GetClusterInfo(t, "removeSsvValidators", {v})
  <2>1. task'[t].name = "removeSsvValidators" /\ task'[t].validators = {v} /\ task[t] = NoTask
    BY <1>0, <1>1 DEF GetClusterInfo, TasksSound
  <2>2. v \in Left
    BY <2>1 DEF CoordinatedNext, RemovesExited, NoTask, Left
  <2>. QED
    BY <1>0, <1>1, <2>2, ReadsCluster, OnlyClusterIInv DEF TasksIInv, GetClusterInfo
<1>2. CASE SendsWithCluster(t, "removeSsvValidators",
             IF Removable(gone) THEN RemoveSsvValidators(gone) ELSE UNCHANGED ethVars)
  <2>1. /\ UNCHANGED otherThanCluster /\ task' = [task EXCEPT ![t] = NoTask]
        /\ fresh \subseteq fresh' \/ NonePending
    BY <1>0, <1>2, NoneWaits DEF SendsWithCluster, ClusterChanges, otherThanCluster
  <2>2. CASE UNCHANGED ethVars
    <3>1. TasksSound'
      BY <1>0, <2>1, <2>2, TaskEnds DEF ethVars, stakingVars
    <3>. QED
      BY <2>1, <2>2, <3>1, OnlyClusterIInv DEF TasksIInv
  <2>3. CASE RemoveSsvValidators(gone)
    <3>1. /\ ssvValidators' = ssvValidators \ gone
          /\ UNCHANGED <<podDeployed, exitRequested, beaconEth, stage, pod, routerVars, ndcEthVars>>
      BY <2>3 DEF RemoveSsvValidators, BulkRemoveValidator
    <3>2. \A w \in gone : stage[w] # "active" /\ w \in validatorsStaked
      BY <1>0 DEF EthIInv, DepositedOnce, Left
    <3>3. ActiveAreRun'
      BY <1>0, <3>1, <3>2 DEF OpIInv, ActiveAreRun
    <3>4. OpIInv'
      BY <1>0, <2>1, <3>1, <3>2, <3>3, TaskOpIInv DEF otherThanCluster, ndcEthVars
    <3>5. EthIInv'
      BY <1>0, <3>1, OtherIInv DEF EthIInv, NDCEthTypeOK, StakingTypeOK, ndcEthVars, routerVars
    <3>6. TasksSound'
      BY <1>0, <2>1, <3>1, TaskEnds
    <3>. QED
      BY <3>4, <3>5, <3>6 DEF TasksIInv
  <2>. QED
    BY <1>2, <2>2, <2>3 DEF SendsWithCluster
<1>. QED
  BY <1>1, <1>2 DEF RemoveSsvValidatorsOf

LEMMA PasteIInv ==
  ASSUME TasksIInv, PasteCluster
  PROVE  TasksIInv'
<1>1. OpIInv' /\ EthIInv'
  BY OnlyClusterIInv DEF PasteCluster
<1>2. UNCHANGED <<stage, task>>
  BY DEF PasteCluster, ethVars, stakingVars
<1>. QED
  BY <1>1, <1>2 DEF TasksIInv, TasksSound, Left

LEMMA RegisterValIInv ==
  ASSUME TasksIInv, CoordinatedNext, RegisterValTask
  PROVE  TasksIInv'
<1>1. /\ RegisterSsvValidator(TestValidator) /\ fresh' = {}
      /\ UNCHANGED <<otherThanCluster, task>>
  BY DEF RegisterValTask, RegisterVal, ClusterChanges
<1>2. /\ ssvValidators \subseteq ssvValidators'
      /\ UNCHANGED <<stage, validatorsStaked, ethPaused>>
  BY <1>1 DEF RegisterSsvValidator, RegisterValidator, ndcEthVars
<1>3. NonePending
  BY <1>1, NoneWaits DEF otherThanCluster, TasksIInv
<1>4. OpIInv'
  BY <1>1, <1>2, <1>3, TaskOpIInv DEF TasksIInv, OpIInv, ActiveAreRun, otherThanCluster
<1>. QED
  BY <1>1, <1>2, <1>4, CallsIInv DEF TasksIInv, TasksSound, Left

\* The stake of a validator that is registered.
LEMMA StakeTaskIInv ==
  ASSUME TasksIInv, CoordinatedNext, StakeEthTask
  PROVE  TasksIInv'
<1>1. StakeEth(<<TestValidator>>) /\ UNCHANGED <<scriptVars, task>>
  BY DEF StakeEthTask, OneTransaction, StakeEthOf
<1>2. /\ \A w \in Validators : w # TestValidator => stage'[w] = stage[w]
      /\ UNCHANGED <<ssvValidators, ethPaused>>
      /\ validatorsStaked \subseteq validatorsStaked'
  BY <1>1, OneStaked
<1>3. TestValidator \in validatorsStaked' \ validatorsStaked
  <2>1. <<TestValidator>>[1] = TestValidator /\ 1 \in DOMAIN <<TestValidator>>
    OBVIOUS
  <2>2. TestValidator \in ToSet(<<TestValidator>>)
    BY <2>1 DEF ToSet
  <2>. QED
    BY <1>1, <2>2, OneStaked DEF StakeEth
<1>4. TestValidator \in ssvValidators
  BY <1>3 DEF CoordinatedNext, StakesRegistered
<1>5. ActiveAreRun'
  BY <1>1, <1>2, <1>4 DEF TasksIInv, OpIInv, ActiveAreRun
<1>6. OpIInv'
  BY <1>1, <1>2, <1>5, TaskOpIInv DEF TasksIInv, scriptVars
<1>. QED
  BY <1>1, <1>6, CallsIInv DEF TasksIInv, TasksSound

\* Exits, requests, claims and what happens on the beacon chain make no validator
\* active, and one that has left stays so.
LEMMA LeavingIInv ==
  ASSUME TasksIInv, UNCHANGED <<scriptVars, task>>,
         \/ \E v \in Validators : ExitSsvValidators({v})
         \/ RequestEthWithdrawal
         \/ ClaimEthWithdrawal
         \/ StakingStep
         \/ CreateEigenPod
  PROVE  TasksIInv'
<1>0. EthIInv /\ NDCEthTypeOK /\ StakingTypeOK
  BY DEF TasksIInv, EthIInv, NDCEthTypeOK
<1>1. EthIInv'
  <2>1. ASSUME NEW v \in Validators, ExitSsvValidators({v})
        PROVE  EthIInv'
    BY <1>0, <2>1, OtherIInv DEF ExitSsvValidators, BulkExitValidator, NDCEthTypeOK,
       StakingTypeOK, ndcEthVars, routerVars
  <2>. QED
    BY <1>0, <2>1, RequestIInv, ClaimIInv, StakingStepIInv, SetupIInv DEF SetupNext
<1>2. UNCHANGED <<ssvValidators, validatorsStaked, ethPaused>>
  BY DEF ExitSsvValidators, BulkExitValidator, RequestEthWithdrawal, WithdrawBeforeRestaking,
     ClaimEthWithdrawal, ClaimDelayedWithdrawal, StakingStep, ValidatorExits, RewardsSwept,
     DelayPasses, CreateEigenPod, CreatePod, ndcEthVars, ssvVars
<1>3. \A w \in Validators : stage'[w] = stage[w] \/ stage'[w] \in {"exited", "claimed"}
  BY <1>0 DEF ExitSsvValidators, BulkExitValidator, RequestEthWithdrawal, WithdrawBeforeRestaking,
     ClaimEthWithdrawal, ClaimDelayedWithdrawal, StakingStep, ValidatorExits, RewardsSwept,
     DelayPasses, CreateEigenPod, CreatePod, StakingTypeOK
<1>4. OpIInv'
  BY <1>2, <1>3, TaskOpIInv DEF TasksIInv, OpIInv, ActiveAreRun, scriptVars
<1>. QED
  BY <1>1, <1>3, <1>4 DEF TasksIInv, TasksSound, Left

-----------------------------------------------------------------------------
(* The first theorem *)

LEMMA TasksStepIInv ==
  ASSUME TasksIInv, [CoordinatedNext]_ssvTaskVars
  PROVE  TasksIInv'
<1>1. CASE UNCHANGED ssvTaskVars
  <2>1. UNCHANGED <<ethVars, otherThanCluster, fresh, stage, task>>
    BY <1>1 DEF ssvTaskVars, opVars, scriptVars, otherThanCluster, ethVars, stakingVars
  <2>2. OpIInv' /\ EthIInv'
    BY <2>1, OnlyClusterIInv
  <2>. QED
    BY <2>1, <2>2 DEF TasksIInv, TasksSound, Left
<1>2. CASE CoordinatedNext /\ ScriptNext /\ UNCHANGED task
  BY <1>2, ScriptTasksIInv DEF CoordinatedNext, SettledNext
<1>3. CASE CoordinatedNext /\ ~(ScriptNext /\ UNCHANGED task)
  <2>1. SsvTasksStep
    BY <1>3 DEF CoordinatedNext, SsvTasksNext
  <2>. QED
    BY <1>3, <2>1, DepositIInv, RemovalIInv, PasteIInv, RegisterValIInv, StakeTaskIInv, LeavingIInv
       DEF SsvTasksStep, OneTransaction, ExitValidatorsTask, ExitValidators,
           RequestEthWithdrawalTask, RequestEthWithdrawalOf, ClaimEthWithdrawalTask,
           ClaimEthWithdrawalOf
<1>. QED
  BY <1>1, <1>2, <1>3

LEMMA TasksStartIInv ==
  ASSUME SsvTasksInit
  PROVE  TasksIInv
<1>1. OpIInv /\ EthIInv
  BY OpStartIInv, InitEthIInv DEF SsvTasksInit, OpStart
<1>. QED
  BY <1>1 DEF TasksIInv, TasksSound, SsvTasksInit, NoTask

\* Beside the splits of keys, the script and the tasks step as they do alone.
LEMMA SplitsAside ==
  ASSUME [KeySharesNext]_<<ssvTaskVars, keyShareVars>>
  PROVE  [CoordinatedNext]_ssvTaskVars
BY DEF KeySharesNext, SplitValidatorKeyTask, SplitValidatorKey, GivesUp, keyShareVars

LEMMA TasksInvariant == KeySharesSpec => []TasksIInv
<1>1. KeySharesInit => TasksIInv
  BY TasksStartIInv DEF KeySharesInit
<1>2. TasksIInv /\ [KeySharesNext]_<<ssvTaskVars, keyShareVars>> => TasksIInv'
  BY SplitsAside, TasksStepIInv
<1>. QED
  BY <1>1, <1>2, PTL DEF KeySharesSpec

\* Whatever an operator does by hand with the SSV cluster and the validators, one
\* thing at a time, no validator is active without being registered: the tasks of
\* ssv.js, withdrawals.js and p2p.js neither stake one that is not registered nor
\* remove one that has not left, and make no transaction of the script fail.
THEOREM ActiveAreRunBesideTasks == KeySharesSpec => []ActiveAreRun
<1>1. TasksIInv => ActiveAreRun
  BY DEF TasksIInv, OpIInv
<1>. QED
  BY <1>1, TasksInvariant, PTL

\* However validators are exited and removed meanwhile, none is deposited twice.
THEOREM DepositedOnceBesideTasks == KeySharesSpec => []DepositedOnce
<1>1. TasksIInv => DepositedOnce
  BY DEF TasksIInv, EthIInv
<1>. QED
  BY <1>1, TasksInvariant, PTL

-----------------------------------------------------------------------------
(* The second theorem *)

\* The shares that wait for a registration are for the next one.
SharesIInv ==
  /\ TasksIInv
  /\ nonce \in [Owners -> Nat]
  /\ splitting => keyShares = [owner |-> NODE_DELEGATOR_NATIVE_STAKING,
                               nonce |-> nonce[NODE_DELEGATOR_NATIVE_STAKING]]
  /\ RegisteredAreOperated

USE KeySharesAssumption DEF KeySharesAssumption

\* A transaction registers one validator at a time.
LEMMA OneRegistered ==
  ASSUME TasksIInv, CoordinatedNext
  PROVE  NewlyRegistered = {} \/ \E v \in Validators : NewlyRegistered = {v}
<1>1. ASSUME ssvValidators' \subseteq ssvValidators
      PROVE  NewlyRegistered = {}
  BY <1>1 DEF NewlyRegistered
<1>2. ASSUME NEW v \in Validators, RegisterSsvValidator(v)
      PROVE  NewlyRegistered = {v}
  BY <1>2 DEF NewlyRegistered, RegisterSsvValidator, RegisterValidator
<1>3. CASE ScriptNext
  <2>1. ASSUME NEW v \in Validators, StakeEth(<<v>>)
        PROVE  UNCHANGED ssvValidators
    BY <2>1, OneStaked
  <2>2. ASSUME NEW amount \in Funds, EthReceiveTokens(WETH, amount)
        PROVE  UNCHANGED ssvValidators
    BY <2>2 DEF EthReceiveTokens, stakingVars
  <2>3. UNCHANGED ethVars => UNCHANGED ssvValidators
    BY DEF ethVars, stakingVars
  <2>4. OpIInv
    BY DEF TasksIInv
  <2>. QED
    BY <1>1, <1>2, <1>3, <2>1, <2>2, <2>3, <2>4, ScriptCalls
<1>4. CASE RegisterValTask
  BY <1>2, <1>4 DEF RegisterValTask, RegisterVal
<1>5. CASE ~ScriptNext /\ ~RegisterValTask
  <2>1. ASSUME NEW t \in Terminals, DepositSSV(t) \/ \E v \in Validators : RemoveSsvValidatorsOf(t, {v})
        PROVE  ssvValidators' \subseteq ssvValidators
    BY <2>1 DEF DepositSSV, RemoveSsvValidatorsOf, GetClusterInfo, SendsWithCluster,
       RemoveSsvValidators, BulkRemoveValidator, ethVars, stakingVars
  <2>2. DepositSSVTask \/ RemoveValidatorsTask => ssvValidators' \subseteq ssvValidators
    BY <2>1 DEF DepositSSVTask, RemoveValidatorsTask
  <2>3. StakeEthTask => UNCHANGED ssvValidators
    BY OneStaked DEF StakeEthTask, OneTransaction, StakeEthOf
  <2>4. PasteCluster \/ ExitValidatorsTask \/ RequestEthWithdrawalTask \/ ClaimEthWithdrawalTask
          \/ OneTransaction(StakingStep \/ CreateEigenPod) => UNCHANGED ssvValidators
    BY DEF PasteCluster, ExitValidatorsTask, ExitValidators, ExitSsvValidators, BulkExitValidator,
       RequestEthWithdrawalTask, RequestEthWithdrawalOf, RequestEthWithdrawal,
       WithdrawBeforeRestaking, ClaimEthWithdrawalTask, ClaimEthWithdrawalOf, ClaimEthWithdrawal,
       ClaimDelayedWithdrawal, OneTransaction, StakingStep, ValidatorExits, RewardsSwept,
       DelayPasses, CreateEigenPod, CreatePod, ssvVars, ethVars, stakingVars
  <2>. QED
    BY <1>1, <1>5, <2>2, <2>3, <2>4 DEF CoordinatedNext, SsvTasksNext, SsvTasksStep
<1>. QED
  BY <1>3, <1>4, <1>5

\* A registration uses the shares that wait for it up.
LEMMA RegistrationKeepsShares ==
  ASSUME SharesIInv, CoordinatedNext, Registrations, OneSplitOneRegistration
  PROVE  /\ nonce' \in [Owners -> Nat]
         /\ splitting' => UNCHANGED <<nonce, keyShares, splitting>>
         /\ RegisteredAreOperated'
<1>. DEFINE owner == NODE_DELEGATOR_NATIVE_STAKING
<1>1. /\ nonce' = [nonce EXCEPT ![owner] = @ + Cardinality(NewlyRegistered)]
      /\ operated' = (operated \cup {v \in NewlyRegistered : Usable(v)}) \cap ssvValidators'
      /\ splitting' = (splitting /\ NewlyRegistered = {})
      /\ UNCHANGED keyShares
      /\ nonce \in [Owners -> Nat] /\ owner \in Owners
  BY DEF Registrations, SharesIInv, Owners
<1>2. ssvValidators \subseteq operated
  BY DEF SharesIInv, RegisteredAreOperated
<1>3. CASE NewlyRegistered = {}
  <2>1. Cardinality(NewlyRegistered) = 0
    BY <1>3, FS_EmptySet
  <2>2. nonce' = nonce
    BY <1>1, <2>1
  <2>3. ssvValidators' \subseteq ssvValidators
    BY <1>3 DEF NewlyRegistered
  <2>. QED
    BY <1>1, <1>2, <1>3, <2>2, <2>3 DEF RegisteredAreOperated
<1>4. ASSUME NEW v \in Validators, NewlyRegistered = {v}
      PROVE  /\ nonce' \in [Owners -> Nat]
             /\ splitting' => UNCHANGED <<nonce, keyShares, splitting>>
             /\ RegisteredAreOperated'
  <2>1. Cardinality(NewlyRegistered) = 1
    BY <1>4, FS_Singleton
  <2>2. nonce' \in [Owners -> Nat]
    BY <1>1, <2>1
  <2>3. Usable(v)
    BY <1>4 DEF OneSplitOneRegistration, Usable, SharesIInv
  <2>4. ssvValidators' \subseteq ssvValidators \cup {v}
    BY <1>4 DEF NewlyRegistered
  <2>. QED
    BY <1>1, <1>2, <1>4, <2>2, <2>3, <2>4 DEF RegisteredAreOperated
<1>. QED
  BY <1>3, <1>4, OneRegistered DEF SharesIInv

LEMMA NextShares ==
  ASSUME OwnerArgs \subseteq {NODE_DELEGATOR_NATIVE_STAKING},
         SharesIInv, [KeySharesNext]_<<ssvTaskVars, keyShareVars>>
  PROVE  SharesIInv'
<1>1. TasksIInv'
  BY SplitsAside, TasksStepIInv DEF SharesIInv
<1>2. CASE SplitValidatorKeyTask
  <2>1. SplitValidatorKey(NODE_DELEGATOR_NATIVE_STAKING)
    BY <1>2 DEF SplitValidatorKeyTask, Owners
  <2>. QED
    BY <1>1, <2>1 DEF SplitValidatorKey, GetClusterNonce, SharesIInv, RegisteredAreOperated,
       ssvTaskVars, opVars, ethVars, stakingVars
<1>3. CASE GivesUp \/ UNCHANGED <<ssvTaskVars, keyShareVars>>
  BY <1>1, <1>3 DEF GivesUp, SharesIInv, RegisteredAreOperated,
     ssvTaskVars, opVars, ethVars, stakingVars, keyShareVars
<1>4. CASE CoordinatedNext /\ Registrations /\ OneSplitOneRegistration
  BY <1>1, <1>4, RegistrationKeepsShares DEF SharesIInv
<1>. QED
  BY <1>2, <1>3, <1>4 DEF KeySharesNext

LEMMA InitShares == KeySharesInit => SharesIInv
<1>. SUFFICES ASSUME KeySharesInit
              PROVE  SharesIInv
  OBVIOUS
<1>1. ssvValidators = {}
  BY DEF KeySharesInit, SsvTasksInit, OpStart, NDCEthInit, StakingInit
<1>. QED
  BY <1>1, TasksStartIInv DEF KeySharesInit, SharesIInv, RegisteredAreOperated

\* When the operator names the NodeDelegator that registers, which is not the
\* default of splitValidatorKey, and splits a key for each registration made by
\* hand, every registered validator has operators that can use its shares, however
\* many the script and the tasks have registered and removed.
THEOREM RegisteredHaveOperators ==
  ASSUME OwnerArgs \subseteq {NODE_DELEGATOR_NATIVE_STAKING}
  PROVE  KeySharesSpec => []RegisteredAreOperated
<1>1. SharesIInv /\ [KeySharesNext]_<<ssvTaskVars, keyShareVars>> => SharesIInv'
  BY NextShares
<1>2. SharesIInv => RegisteredAreOperated
  BY DEF SharesIInv
<1>. QED
  BY <1>1, <1>2, InitShares, PTL DEF KeySharesSpec
=============================================================================
