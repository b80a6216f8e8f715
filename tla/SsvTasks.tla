------------------------------ MODULE SsvTasks ------------------------------
(***************************************************************************)
(* The tasks an operator runs by hand on the SSV cluster and the           *)
(* validators (script/hardhat-tasks/ssv.js, withdrawals.js and the test    *)
(* tasks of p2p.js, with their subtasks in tasks.js), beside the           *)
(* operateValidators script.  A task that changes the cluster reads it     *)
(* first and names it in its transaction; the SSV network refuses one that *)
(* is not the cluster as it is then.                                       *)
(*                                                                         *)
(* All of them take the index of the NodeDelegator of native ether, whose  *)
(* contract is the only one with these functions.                          *)
(***************************************************************************)
EXTENDS OperateValidators

CONSTANTS
  Terminals,       \* where the tasks are run
  TestValidator    \* the validator registerVal and stakeEth are hard-coded for

ASSUME SsvTasksAssumption ==
  /\ SsvTasks = Terminals \cup {"registerVal"}
  /\ TestValidator \in Validators

VARIABLE task   \* [terminal -> the task that has read the cluster]

ssvTaskVars == <<opVars, task>>

NoTask == [name |-> "none", validators |-> {}]

SsvTasksInit == OpStart /\ task = [t \in Terminals |-> NoTask]

otherThanCluster == <<pc, config, store, p2p, txs, crashes, errors>>

-----------------------------------------------------------------------------
(* Tasks that name the cluster *)

\* getClusterInfo
GetClusterInfo(t, name, validators) ==
  /\ task[t] = NoTask
  /\ task' = [task EXCEPT ![t] = [name |-> name, validators |-> validators]]
  /\ fresh' = fresh \cup {t}
  /\ UNCHANGED <<ethVars, otherThanCluster>>

\* The transaction of a task: refused, it changes nothing and the task ends too.
SendsWithCluster(t, name, tx) ==
  /\ task[t].name = name
  /\ task' = [task EXCEPT ![t] = NoTask]
  /\ \/ t \in fresh /\ tx /\ ClusterChanges
     \/ t \notin fresh /\ UNCHANGED <<ethVars, fresh>>
  /\ UNCHANGED otherThanCluster

\* SSV tokens for the operators: nothing that is modelled but the cluster changes.
DepositSSV(t) ==
  \/ GetClusterInfo(t, "depositSSV", {})
  \/ SendsWithCluster(t, "depositSSV", UNCHANGED ethVars)

\* The transaction would succeed.
Removable(vs) == ~ethPaused /\ vs \subseteq ssvValidators

RemoveSsvValidatorsOf(t, vs) ==
  \/ GetClusterInfo(t, "removeSsvValidators", vs)
  \/ SendsWithCluster(t, "removeSsvValidators",
       IF Removable(task[t].validators) THEN RemoveSsvValidators(task[t].validators)
       ELSE UNCHANGED ethVars)

\* The subtasks.
DepositSSVTask == \E t \in Terminals : DepositSSV(t)

RemoveValidatorsTask == \E t \in Terminals, v \in Validators : RemoveSsvValidatorsOf(t, {v})

\* The cluster hard-coded in registerVal was once the network's.
PasteCluster ==
  /\ fresh' = fresh \cup {"registerVal"}
  /\ UNCHANGED <<ethVars, otherThanCluster, task>>

\* registerVal: a hard-coded validator, in a hard-coded cluster.
RegisterVal ==
  /\ "registerVal" \in fresh
  /\ RegisterSsvValidator(TestValidator)
  /\ ClusterChanges

\* The subtask registerVal.
RegisterValTask == RegisterVal /\ UNCHANGED <<otherThanCluster, task>>

-----------------------------------------------------------------------------
(* Tasks of one transaction that name no cluster *)

OneTransaction(tx) == tx /\ UNCHANGED <<scriptVars, task>>

\* stakeEth: the hard-coded validator.
StakeEthOf(v) == StakeEth(<<v>>)

\* The subtask stakeEth.
StakeEthTask == OneTransaction(StakeEthOf(TestValidator))

ExitValidators(vs) == ExitSsvValidators(vs)

\* The subtask exitValidators.
ExitValidatorsTask == \E v \in Validators : OneTransaction(ExitValidators({v}))

\* requestEthWithdrawal and claimEthWithdrawal.
RequestEthWithdrawalOf == RequestEthWithdrawal
ClaimEthWithdrawalOf   == ClaimEthWithdrawal

\* Their subtasks.
RequestEthWithdrawalTask == OneTransaction(RequestEthWithdrawalOf)
ClaimEthWithdrawalTask   == OneTransaction(ClaimEthWithdrawalOf)

-----------------------------------------------------------------------------

\* What the operateValidators script and the tasks do, and the chain.
SsvTasksStep ==
  \/ ScriptNext /\ UNCHANGED task
  \/ DepositSSVTask
  \/ RemoveValidatorsTask
  \/ PasteCluster
  \/ RegisterValTask
  \/ StakeEthTask
  \/ ExitValidatorsTask
  \/ RequestEthWithdrawalTask
  \/ ClaimEthWithdrawalTask
  \/ OneTransaction(StakingStep \/ CreateEigenPod)

\* P2P makes its own validators.
SsvTasksNext == SsvTasksStep /\ p2p'[TestValidator] = "none"

\* A register transaction of the script names a cluster and is not mined yet.
Registering ==
  \/ store # NoRequest /\ store.state = "validator_creation_confirmed"
  \/ \E i \in DOMAIN txs : txs[i].method = "registerSsvValidator" /\ txs[i].status = "pending"

\* "Make sure exitSsvValidators is called before and all the validators have
\* exited the Beacon chain" (NodeDelegatorETH.sol:303): whoever starts to remove
\* validators has seen that they left.
RemovesExited ==
  \A t \in Terminals :
    task'[t] # task[t] => \A v \in task'[t].validators : stage[v] \in {"exited", "claimed"}

\* The test validator is staked to after it was registered.
StakesRegistered == TestValidator \in validatorsStaked' \ validatorsStaked => TestValidator \in ssvValidators

\* What the operators keep to.  One at a time: while the script registers nobody
\* changes the cluster, and it starts a registration after the transactions of the
\* last are mined.
CoordinatedNext ==
  /\ SsvTasksNext
  /\ RemovesExited
  /\ StakesRegistered
  /\ Registering /\ fresh # {} /\ fresh' = {} => txs' # txs
  /\ pc = "idle" /\ pc' # "idle" => \A i \in DOMAIN txs : txs[i].status # "pending"
=============================================================================
