-------------------------- MODULE OperateValidators --------------------------
(***************************************************************************)
(* operateValidators (script/hardhat-tasks/p2p.js), the Defender action    *)
(* that spawns validators, on top of the contract it drives: it asks the   *)
(* P2P service for a validator, registers it with the SSV network and      *)
(* stakes 32 ether to it, and keeps where it is in a key-value store, so   *)
(* that a later run goes on where an earlier one stopped.                  *)
(*                                                                         *)
(* The script is one process that is started again and again and may die   *)
(* at any await.  An action is what it does between two awaits that        *)
(* matter.  A request stands for its uuid, and as it is for one validator  *)
(* that P2P creates for it, for the validator too.                         *)
(***************************************************************************)
EXTENDS NodeDelegatorETH

CONSTANTS
  SsvTasks,         \* runs of the SSV tasks beside this script
  NoRequest,        \* the store holds nothing
  ERROR_THRESHOLD,
  Configs,          \* what a run may be started with: does it forget the request
                    \* it finds (clear), does it stake after registering (stake)?
  MaxTxs,           \* bound: transactions sent
  MaxCrashes,       \* bound: runs that die
  MaxErrors         \* bound: failures of calls nothing in the model causes

VARIABLES
  pc,        \* where the current run is, "idle" when there is none
  config,    \* what it was started with
  store,     \* "currentRequest" in the key-value store
  p2p,       \* [validator -> what the P2P service has done about it]
  fresh,     \* who holds the SSV cluster as the network has it now
  txs,       \* the transactions sent, in order
  crashes,   \* how many runs have died
  errors     \* [validator -> errors its request has met]

scriptVars == <<pc, config, store, p2p, fresh, txs, crashes, errors>>
opVars     == <<ethVars, scriptVars>>

States == {"validator_creation_issued", "validator_creation_confirmed",
           "register_transaction_broadcast", "validator_registered",
           "deposit_data_got", "deposit_transaction_broadcast", "deposit_confirmed"}

\* tx is the position in txs of the transaction the metadata names.
Requests == [uuid : Validators, state : States, errorCount : Nat, tx : Nat]

Txs == [method : {"registerSsvValidator", "stakeEth"}, validator : Validators,
        status : {"pending", "mined", "reverted"}]

\* A request is created, its validator is ready, its deposit data is ready.
P2PStates == {"none", "issued", "ready", "validator-ready"}

\* Where a run is, unless it waits to store a request: then pc is its validator.
Places == {"idle", "loop", "register_sent", "deposit_sent"}

ASSUME OperateAssumption ==
  /\ NoRequest \notin Requests
  /\ Validators \cap Places = {}
  /\ ERROR_THRESHOLD \in Nat
  /\ Configs \subseteq [clear : BOOLEAN, stake : BOOLEAN]
  /\ MaxTxs \in Nat /\ MaxCrashes \in Nat /\ MaxErrors \in Nat

OpInit ==
  /\ pc = "idle"
  /\ config \in Configs
  /\ store = NoRequest
  /\ p2p = [v \in Validators |-> "none"]
  /\ fresh = {}
  /\ txs = <<>>
  /\ crashes = 0
  /\ errors = [v \in Validators |-> 0]

-----------------------------------------------------------------------------
(* Pieces of the script *)

In(state) == pc = "loop" /\ store # NoRequest /\ store.state = state

\* updateState writes uuid, state and metadata only: the error count is gone.
UpdateState(state, tx) ==
  store' = [uuid |-> store.uuid, state |-> state, errorCount |-> 0, tx |-> tx]

ClearState == store' = NoRequest

\* Variant: an exception is not counted.
ThrowsUncounted ==
  /\ pc' = "idle"
  /\ UNCHANGED <<ethVars, config, store, p2p, fresh, txs, crashes, errors>>

\* An exception ends the run; increaseErrorCount counts it, if there is a request.
Throws ==
  /\ pc' = "idle"
  /\ IF store = NoRequest THEN UNCHANGED <<store, errors>>
     ELSE /\ store' = [store EXCEPT !.errorCount = @ + 1]
          /\ errors' = [errors EXCEPT ![store.uuid] = @ + 1]
  /\ UNCHANGED <<ethVars, config, p2p, fresh, txs, crashes>>

\* A call that changes the cluster: every other copy of it is out of date.
ClusterChanges == fresh' = {}

\* Variant: the SSV network takes any cluster.
CanRegisterInAnyCluster(v) == ~ethPaused /\ v \notin ssvValidators

\* The call would succeed if it were mined now: gas can be estimated.  The SSV
\* network refuses a cluster that is out of date (IncorrectClusterState).
CanRegister(v) == ~ethPaused /\ v \notin ssvValidators /\ v \in fresh
NodeDelegatorHas32Eth == tokenBalance[WETH] + ethBalance >= FULL_STAKE
CanStake(v) == ~ethPaused /\ NodeDelegatorHas32Eth /\ v \notin validatorsStaked

Broadcast(method, v) ==
  /\ Len(txs) < MaxTxs
  /\ txs' = Append(txs, [method |-> method, validator |-> v, status |-> "pending"])

-----------------------------------------------------------------------------
(* A run *)

\* Variant: the run goes on with the request it finds, however it is configured.
FoundAnyway(c) == store

Found(c) == IF c.clear THEN NoRequest ELSE store

\* Variant: stuck one error early.
StuckEarly(request) == request # NoRequest /\ request.errorCount >= ERROR_THRESHOLD - 1

Stuck(request) == request # NoRequest /\ request.errorCount >= ERROR_THRESHOLD

\* Clears the store if so configured, then needs 32 ether, then looks at the
\* errors counted so far.
StartRun(c) ==
  LET found == Found(c) IN
  /\ pc = "idle"
  /\ config' = c
  /\ IF ~NodeDelegatorHas32Eth THEN pc' = "idle" /\ store' = found
     ELSE IF Stuck(found) THEN pc' = "idle" /\ ClearState
     ELSE pc' = "loop" /\ store' = found
  /\ UNCHANGED <<ethVars, p2p, fresh, txs, crashes, errors>>

\* createValidatorRequest: P2P has the request before the store has it.
IssueRequest(v) ==
  /\ pc = "loop" /\ store = NoRequest
  /\ p2p[v] = "none"
  /\ p2p' = [p2p EXCEPT ![v] = "issued"]
  /\ pc' = v
  /\ UNCHANGED <<ethVars, config, store, fresh, txs, crashes, errors>>

RecordRequest(v) ==
  /\ pc = v
  /\ store' = [uuid |-> v, state |-> "validator_creation_issued", errorCount |-> 0, tx |-> 0]
  /\ pc' = "loop"
  /\ UNCHANGED <<ethVars, config, p2p, fresh, txs, crashes, errors>>

\* confirmValidatorCreatedRequest polls; after 20 attempts it clears the store,
\* and reading the state of a request that is gone ends the run.  P2P's answer has
\* the register transaction in it, with the cluster as it is now.
ConfirmCreated ==
  /\ In("validator_creation_issued")
  /\ p2p[store.uuid] # "issued"
  /\ UpdateState("validator_creation_confirmed", store.tx)
  /\ fresh' = fresh \cup {store.uuid}
  /\ UNCHANGED <<ethVars, config, pc, p2p, txs, crashes, errors>>

GiveUpOnCreation ==
  /\ In("validator_creation_issued")
  /\ p2p[store.uuid] = "issued"
  /\ ClearState
  /\ pc' = "idle"
  /\ UNCHANGED <<ethVars, config, p2p, fresh, txs, crashes, errors>>

\* broadcastRegisterValidator and depositEth: the transaction is sent first, its
\* hash is stored after that.
Send(state, method, succeeds, next) ==
  /\ In(state)
  /\ succeeds
  /\ Broadcast(method, store.uuid)
  /\ pc' = next
  /\ UNCHANGED <<ethVars, config, store, p2p, fresh, crashes, errors>>

\* Variant: counts the transactions from one further.
RecordNextTx(sent, state) ==
  /\ pc = sent
  /\ UpdateState(state, Len(txs) + 1)
  /\ pc' = "loop"
  /\ UNCHANGED <<ethVars, config, p2p, fresh, txs, crashes, errors>>

RecordTx(sent, state) ==
  /\ pc = sent
  /\ UpdateState(state, Len(txs))
  /\ pc' = "loop"
  /\ UNCHANGED <<ethVars, config, p2p, fresh, txs, crashes, errors>>

BroadcastRegister ==
  Send("validator_creation_confirmed", "registerSsvValidator", CanRegister(store.uuid), "register_sent")
RecordRegisterTx == RecordTx("register_sent", "register_transaction_broadcast")

BroadcastDeposit ==
  /\ config.stake
  /\ Send("deposit_data_got", "stakeEth", CanStake(store.uuid), "deposit_sent")
RecordDepositTx == RecordTx("deposit_sent", "deposit_transaction_broadcast")

\* Variant: goes on when the transaction is sent.
DoNotWait(state, next) ==
  /\ In(state)
  /\ UpdateState(next, store.tx)
  /\ UNCHANGED <<ethVars, config, pc, p2p, fresh, txs, crashes, errors>>

\* waitForTransactionAndUpdateStateOnSuccess: a receipt is enough, its status is
\* not looked at.
WaitFor(state, next) ==
  /\ In(state)
  /\ txs[store.tx].status # "pending"
  /\ UpdateState(next, store.tx)
  /\ UNCHANGED <<ethVars, config, pc, p2p, fresh, txs, crashes, errors>>

WaitForRegister == WaitFor("register_transaction_broadcast", "validator_registered")
WaitForDeposit  == config.stake /\ WaitFor("deposit_transaction_broadcast", "deposit_confirmed")

GetDepositData ==
  /\ config.stake
  /\ In("validator_registered")
  /\ p2p[store.uuid] = "validator-ready"
  /\ UpdateState("deposit_data_got", store.tx)
  /\ UNCHANGED <<ethVars, config, pc, p2p, fresh, txs, crashes, errors>>

\* Done: the loop ends.
Finish ==
  /\ config.stake
  /\ In("deposit_confirmed")
  /\ ClearState
  /\ pc' = "idle"
  /\ UNCHANGED <<ethVars, config, p2p, fresh, txs, crashes, errors>>

StopAfterRegistering ==
  /\ ~config.stake
  /\ pc = "loop" /\ store # NoRequest
  /\ store.state \in {"validator_registered", "deposit_data_got",
                      "deposit_transaction_broadcast", "deposit_confirmed"}
  /\ pc' = "idle"
  /\ UNCHANGED <<ethVars, config, store, p2p, fresh, txs, crashes, errors>>

\* A transaction whose gas cannot be estimated, deposit data that is not ready
\* after 20 attempts.
CallFails ==
  /\ \/ In("validator_creation_confirmed") /\ ~CanRegister(store.uuid)
     \/ config.stake /\ In("deposit_data_got") /\ ~CanStake(store.uuid)
     \/ config.stake /\ In("validator_registered") /\ p2p[store.uuid] # "validator-ready"
  /\ Throws

\* The P2P service, the provider or the store fails a call, that of the store after
\* a request or a transaction was sent too: no reason in this model.
ServiceFails ==
  /\ pc # "idle"
  /\ store # NoRequest => errors[store.uuid] < MaxErrors
  /\ Throws

\* The run dies, or the Defender action reaches its time limit.
Crash ==
  /\ pc # "idle"
  /\ crashes < MaxCrashes
  /\ crashes' = crashes + 1
  /\ pc' = "idle"
  /\ UNCHANGED <<ethVars, config, store, p2p, fresh, txs, errors>>

\* What a run is started with: by the Defender action's handler, which forgets the
\* request of the run before, and by the task operateValidators, as its caller
\* likes.
HandlerConfig == [clear |-> TRUE, stake |-> TRUE]
TaskConfigs   == [clear : BOOLEAN, stake : BOOLEAN]

RunStep ==
  \/ \E v \in Validators : IssueRequest(v) \/ RecordRequest(v)
  \/ ConfirmCreated
  \/ GiveUpOnCreation
  \/ BroadcastRegister
  \/ RecordRegisterTx
  \/ WaitForRegister
  \/ GetDepositData
  \/ BroadcastDeposit
  \/ RecordDepositTx
  \/ WaitForDeposit
  \/ Finish
  \/ StopAfterRegistering
  \/ CallFails

-----------------------------------------------------------------------------
(* Around the script *)

P2PStep(v) ==
  /\ \/ p2p[v] = "issued" /\ p2p' = [p2p EXCEPT ![v] = "ready"]
     \/ p2p[v] = "ready" /\ p2p' = [p2p EXCEPT ![v] = "validator-ready"]
  /\ UNCHANGED <<ethVars, pc, config, store, fresh, txs, crashes, errors>>

\* A transaction runs in the state it finds, which may not be the one its gas was
\* estimated in.  Runs may send from different accounts, so any may come first.
Mine(i) ==
  LET v == txs[i].validator IN
  /\ txs[i].status = "pending"
  /\ \/ /\ txs[i].method = "registerSsvValidator" /\ CanRegister(v)
        /\ RegisterSsvValidator(v)
        /\ ClusterChanges
        /\ txs' = [txs EXCEPT ![i].status = "mined"]
     \/ /\ txs[i].method = "stakeEth" /\ CanStake(v)
        /\ StakeEth(<<v>>)
        /\ UNCHANGED fresh
        /\ txs' = [txs EXCEPT ![i].status = "mined"]
     \/ /\ IF txs[i].method = "stakeEth" THEN ~CanStake(v) ELSE ~CanRegister(v)
        /\ txs' = [txs EXCEPT ![i].status = "reverted"]
        /\ UNCHANGED <<ethVars, fresh>>
  /\ UNCHANGED <<pc, config, store, p2p, crashes, errors>>

\* The pool sends WETH; the manager takes some back.
Funded(amount) ==
  /\ EthAssetBalance(WETH) + amount <= MaxFunds[WETH]
  /\ EthReceiveTokens(WETH, amount)
  /\ UNCHANGED scriptVars

TakenBack(amount) == EthTransferBack(WETH, amount) /\ UNCHANGED scriptVars

Paused == (EthPause \/ EthUnpause) /\ UNCHANGED scriptVars

\* Anyone may deposit SSV tokens into the cluster.
ClusterFunded ==
  /\ ClusterChanges
  /\ UNCHANGED <<ethVars, pc, config, store, p2p, txs, crashes, errors>>

\* The script with P2P, the chain and the pool; nobody interferes.
ScriptNext ==
  \/ \E c \in Configs : StartRun(c)
  \/ RunStep
  \/ ServiceFails
  \/ Crash
  \/ \E v \in Validators : P2PStep(v)
  \/ \E i \in DOMAIN txs : Mine(i)
  \/ \E amount \in Funds : Funded(amount)

\* Runs far enough apart: none begins before the transactions of the one before
\* are mined.
SettledNext ==
  /\ ScriptNext
  /\ pc = "idle" /\ pc' # "idle" => \A i \in DOMAIN txs : txs[i].status # "pending"

\* The LRT manager may take WETH back and pause the contract meanwhile, and the
\* cluster may get more SSV tokens.
OpNext ==
  \/ ScriptNext
  \/ ClusterFunded
  \/ \E amount \in Funds : TakenBack(amount)
  \/ Paused

OpStart == NDCEthInit /\ OpInit

OpSpec == OpStart /\ [][OpNext]_opVars

\* Defender starts a run whenever none runs, and a run goes on; the P2P service
\* and the miners do their work.  Nothing makes the pool send WETH.
Fairness ==
  /\ WF_opVars(\E c \in Configs : StartRun(c))
  /\ WF_opVars(RunStep)
  /\ \A v \in Validators : WF_opVars(P2PStep(v))
  /\ \A i \in 1 .. MaxTxs : WF_opVars(i \in DOMAIN txs /\ Mine(i))

SettledScript == OpStart /\ [][SettledNext]_opVars

FairScript == OpStart /\ [][ScriptNext]_opVars /\ Fairness

-----------------------------------------------------------------------------
(* Properties *)

OpTypeOK ==
  /\ NDCEthTypeOK
  /\ config \in Configs
  /\ pc \in Places \cup Validators
  /\ store \in Requests \cup {NoRequest}
  /\ p2p \in [Validators -> P2PStates]
  /\ fresh \in SUBSET (Validators \cup SsvTasks)
  /\ txs \in Seq(Txs)
  /\ crashes \in Nat
  /\ errors \in [Validators -> Nat]
  /\ store # NoRequest => store.tx \in 0 .. Len(txs)

\* Every validator that is active has SSV operators that attest for it: it is
\* registered with the SSV network before its stake and removed only after it
\* left, by transactions decided on before others, sent twice or by a run that
\* died, were mined, as long as nothing makes a register transaction revert after
\* it was sent: no pause, and no other change of the cluster it names.  "If removed
\* before the validator has exited the beacon chain will result in the validator
\* being penalized" (NodeDelegatorETH.sol:304).
ActiveAreRun == \A v \in Validators : stage[v] = "active" => v \in ssvValidators

\* A run that forgets what it finds never sends again what a run before it sent,
\* stored or not: the registration fee and the stake of a validator are paid once.
EachTxOnce ==
  [][config.clear /\ Len(txs') > Len(txs) =>
       LET sent == Last(txs')
       IN \A i \in DOMAIN txs : ~(txs[i].method = sent.method /\ txs[i].validator = sent.validator)
    ]_opVars

\* The request of v is in the store.
Tracked(v) == store # NoRequest /\ store.uuid = v

\* The stake transaction of v was mined and failed.
StakeReverted(v) ==
  \E i \in DOMAIN txs :
    txs[i] = [method |-> "stakeEth", validator |-> v, status |-> "reverted"]

\* A registered validator is only forgotten unstaked by a run that is told to
\* forget, after ERROR_THRESHOLD errors, or once a stake transaction of its own
\* failed: StartRun and Finish clear the store, and no crash in between makes a
\* run drop a validator it should stake to.
StakedOrGivenUp ==
  [][\A v \in ssvValidators :
       Tracked(v) /\ ~Tracked(v)'
         => \/ v \in validatorsStaked
            \/ pc = "idle" /\ config'.clear
            \/ store.errorCount >= ERROR_THRESHOLD
            \/ StakeReverted(v)]_opVars

\* "validator_registered" is "the register transaction has been confirmed" and
\* "deposit_confirmed" is "transaction to stake 32 ETH has been confirmed"
\* (p2p.js:179-182): the SSV network has the validator, and it has its ether.
ConfirmedMeansDone ==
  store # NoRequest =>
    /\ store.state = "validator_registered" => store.uuid \in ssvValidators
    /\ store.state = "deposit_confirmed" => store.uuid \in validatorsStaked

\* A request ends: its validator is staked, or it is discarded.  It needs the NDC
\* to have 32 ether again and again, as a run without them does nothing.
RequestsEnd ==
  []<>NodeDelegatorHas32Eth => \A v \in Validators : Tracked(v) ~> ~Tracked(v)

=============================================================================
