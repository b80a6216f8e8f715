----------------------- MODULE OperateValidators_proofs -----------------------
(***************************************************************************)
(* Proofs about OperateValidators: whatever runs die, repeat or start      *)
(* over, no validator is staked before it is registered, as long as runs   *)
(* are far enough apart.  In the second part runs may overlap, and others  *)
(* pause the contract, take its WETH back and change the cluster: still    *)
(* nothing is sent or deposited twice, and no registered validator is      *)
(* forgotten unless it is given up.                                        *)
(***************************************************************************)
EXTENDS OperateValidators, NodeDelegatorETH_proofs

\* The states a request is in once its register transaction has been waited for.
AfterRegistering == {"validator_registered", "deposit_data_got",
                     "deposit_transaction_broadcast", "deposit_confirmed"}

\* Transaction i registers v.
Registers(i, v) ==
  /\ i \in DOMAIN txs
  /\ txs[i].method = "registerSsvValidator" /\ txs[i].validator = v

\* It is registered, or it was when it was staked: only a validator that has left
\* is removed from the SSV network.
HasRegistered(v) == v \in ssvValidators \/ v \in validatorsStaked

ScriptTypeOK ==
  /\ pc \in Places \cup Validators
  /\ store \in Requests \cup {NoRequest}
  /\ txs \in Seq(Txs)

\* A stake is only sent for a registered validator, and a register transaction
\* that has run, whatever its status, has left its validator registered.
TxsFollowRegistration ==
  \A i \in DOMAIN txs :
    txs[i].method = "stakeEth" \/ txs[i].status # "pending"
      => HasRegistered(txs[i].validator)

\* The request names its own register transaction while it waits for it, and a
\* registered validator after that.
RequestSound ==
  store # NoRequest =>
    /\ store.state \in AfterRegistering => HasRegistered(store.uuid)
    /\ store.state = "register_transaction_broadcast" => Registers(store.tx, store.uuid)

\* A run that has just sent a transaction still has the request it is for.
RunSound ==
  /\ pc = "register_sent" => store # NoRequest /\ Registers(Len(txs), store.uuid)
  /\ pc = "deposit_sent" => store # NoRequest /\ store.state = "deposit_data_got"

\* Transaction i registers a validator and is not mined yet.
PendingRegister(i) == txs[i].method = "registerSsvValidator" /\ txs[i].status = "pending"

NonePending == \A i \in DOMAIN txs : ~PendingRegister(i)

\* There is at most one such transaction, the cluster it names is not out of date,
\* and a run that goes on is waiting for it.
PendingSound ==
  \A i \in DOMAIN txs : PendingRegister(i) =>
    /\ txs[i].validator \in fresh
    /\ \A j \in DOMAIN txs : PendingRegister(j) => j = i
    /\ pc \in {"idle", "register_sent", "loop"}
    /\ pc = "register_sent" => i = Len(txs)
    /\ pc = "loop" => /\ store # NoRequest
                      /\ store.state = "register_transaction_broadcast"
                      /\ store.tx = i

OpIInv ==
  /\ ~ethPaused
  /\ ScriptTypeOK
  /\ ActiveAreRun
  /\ TxsFollowRegistration
  /\ RequestSound
  /\ RunSound
  /\ PendingSound

USE OperateAssumption DEF OperateAssumption

-----------------------------------------------------------------------------
(* Lemmas *)

LEMMA RequestType ==
  ASSUME NEW r \in Requests
  PROVE  /\ r # NoRequest
         /\ r.uuid \in Validators /\ r.state \in States
         /\ r.errorCount \in Nat /\ r.tx \in Nat
BY DEF Requests

\* What UpdateState stores.
LEMMA Updated ==
  ASSUME ScriptTypeOK, store # NoRequest,
         NEW state \in States, NEW tx \in Nat, UpdateState(state, tx)
  PROVE  /\ store' \in Requests /\ store' # NoRequest
         /\ store'.uuid = store.uuid /\ store'.state = state /\ store'.tx = tx
<1>1. store \in Requests /\ store.uuid \in Validators
  BY RequestType DEF ScriptTypeOK
<1>2. store' = [uuid |-> store.uuid, state |-> state, errorCount |-> 0, tx |-> tx]
  BY DEF UpdateState
<1>3. store' \in Requests
  BY <1>1, <1>2 DEF Requests
<1>. QED
  BY <1>2, <1>3, RequestType

\* What an exception stores: the same request, with one more error.
LEMMA Counted ==
  ASSUME ScriptTypeOK, store # NoRequest,
         store' = [store EXCEPT !.errorCount = @ + 1]
  PROVE  /\ store' \in Requests /\ store' # NoRequest
         /\ store'.uuid = store.uuid /\ store'.state = store.state /\ store'.tx = store.tx
<1>1. store \in Requests
  BY DEF ScriptTypeOK
<1>2. store' \in Requests
  BY <1>1 DEF Requests
<1>3. store'.uuid = store.uuid /\ store'.state = store.state /\ store'.tx = store.tx
  BY <1>1 DEF Requests
<1>. QED
  BY <1>2, <1>3, RequestType

\* A pending registration is waited for: there is none in any other place.
LEMMA OnlyWhereWaitedFor ==
  ASSUME PendingSound,
         \/ pc \notin {"idle", "register_sent", "loop"}
         \/ pc = "loop" /\ store = NoRequest
         \/ pc = "loop" /\ store.state # "register_transaction_broadcast"
         \/ pc = "loop" /\ txs[store.tx].status # "pending"
  PROVE  NonePending
BY DEF PendingSound, NonePending, PendingRegister

\* Without one, or with no run, a step that sends nothing disturbs none.
LEMMA PendingKept ==
  ASSUME PendingSound, UNCHANGED txs, fresh \subseteq fresh', NonePending \/ pc' = "idle"
  PROVE  PendingSound'
<1>1. ASSUME NonePending
      PROVE  PendingSound'
  BY <1>1 DEF PendingSound, NonePending, PendingRegister
<1>2. ASSUME pc' = "idle"
      PROVE  PendingSound'
  BY <1>2 DEF PendingSound, PendingRegister
<1>. QED
  BY <1>1, <1>2

\* A step of a run between transactions touches the request and nothing else; it
\* is sound if the new request is.
LEMMA RunStepIInv ==
  ASSUME OpIInv, UNCHANGED <<ethVars, txs>>,
         pc' \in {"idle", "loop"} \cup Validators,
         store' \in Requests \cup {NoRequest},
         RequestSound', PendingSound'
  PROVE  OpIInv'
<1>1. UNCHANGED <<ethPaused, stage, ssvValidators, validatorsStaked, txs>>
  BY DEF ethVars, stakingVars, ndcEthVars, ssvVars
<1>2. ScriptTypeOK'
  BY DEF OpIInv, ScriptTypeOK, Places
<1>3. RunSound'
  <2>1. pc' # "register_sent" /\ pc' # "deposit_sent"
    BY DEF Places
  <2>. QED
    BY <2>1 DEF RunSound
<1>. QED
  BY <1>1, <1>2, <1>3 DEF OpIInv, ActiveAreRun, TxsFollowRegistration, HasRegistered

\* The request that is in the store stays: only pc, or what P2P did, changes.
LEMMA SameRequestIInv ==
  ASSUME OpIInv, UNCHANGED <<ethVars, store, txs>>,
         pc' \in {"idle", "loop"} \cup Validators, PendingSound'
  PROVE  OpIInv'
<1>1. UNCHANGED <<ssvValidators, validatorsStaked, store, txs>>
  BY DEF ethVars, stakingVars, ssvVars, ndcEthVars
<1>2. RequestSound'
  BY <1>1 DEF OpIInv, RequestSound, Registers, HasRegistered
<1>. QED
  BY <1>1, <1>2, RunStepIInv DEF OpIInv, ScriptTypeOK

\* A store without a request.
LEMMA NoRequestIInv ==
  ASSUME OpIInv, UNCHANGED <<ethVars, txs>>, pc' = "idle" \/ pc' = "loop", store' = NoRequest,
         PendingSound'
  PROVE  OpIInv'
BY RunStepIInv DEF RequestSound

LEMMA ThrowsIInv ==
  ASSUME OpIInv, Throws
  PROVE  OpIInv'
<1>1. UNCHANGED <<ethVars, txs>> /\ pc' = "idle"
  BY DEF Throws
<1>0. PendingSound'
  BY PendingKept DEF Throws, OpIInv
<1>2. CASE store = NoRequest
  BY <1>0, <1>1, <1>2, SameRequestIInv DEF Throws
<1>3. CASE store # NoRequest
  <2>1. /\ store' \in Requests /\ store' # NoRequest
        /\ store'.uuid = store.uuid /\ store'.state = store.state /\ store'.tx = store.tx
    BY <1>3, Counted DEF Throws, OpIInv
  <2>2. UNCHANGED <<ssvValidators, validatorsStaked, txs>>
    BY <1>1 DEF ethVars, stakingVars, ssvVars, ndcEthVars
  <2>3. RequestSound'
    BY <1>3, <2>1, <2>2 DEF OpIInv, RequestSound, Registers, HasRegistered
  <2>. QED
    BY <1>0, <1>1, <2>1, <2>3, RunStepIInv
<1>. QED
  BY <1>2, <1>3

\* A run that goes on to another state of its request, and sends nothing.
LEMMA AdvanceIInv ==
  ASSUME OpIInv, store # NoRequest, UNCHANGED <<ethVars, txs>>, pc' = "loop",
         NEW state \in States, NEW tx \in Nat, UpdateState(state, tx),
         state \in AfterRegistering => HasRegistered(store.uuid),
         state = "register_transaction_broadcast" => Registers(tx, store.uuid),
         PendingSound'
  PROVE  OpIInv'
<1>1. /\ store' \in Requests /\ store' # NoRequest
      /\ store'.uuid = store.uuid /\ store'.state = state /\ store'.tx = tx
  BY Updated DEF OpIInv
<1>2. UNCHANGED <<ssvValidators, validatorsStaked, txs>>
  BY DEF ethVars, stakingVars, ssvVars, ndcEthVars
<1>3. RequestSound'
  BY <1>1, <1>2 DEF RequestSound, Registers, HasRegistered
<1>. QED
  BY <1>1, <1>3, RunStepIInv

\* A transaction that is sent is the last one, and the earlier ones keep their
\* places.
LEMMA Broadcasted ==
  ASSUME ScriptTypeOK, NEW v \in Validators,
         NEW method \in {"registerSsvValidator", "stakeEth"}, Broadcast(method, v)
  PROVE  /\ txs' \in Seq(Txs) /\ Len(txs') = Len(txs) + 1
         /\ DOMAIN txs' = DOMAIN txs \cup {Len(txs')} /\ Len(txs') \notin DOMAIN txs
         /\ txs'[Len(txs')] = [method |-> method, validator |-> v, status |-> "pending"]
         /\ \A i \in DOMAIN txs : txs'[i] = txs[i]
<1>. DEFINE tx == [method |-> method, validator |-> v, status |-> "pending"]
<1>1. tx \in Txs
  BY DEF Txs
<1>2. txs \in Seq(Txs) /\ txs' = Append(txs, tx)
  BY DEF ScriptTypeOK, Broadcast
<1>. HIDE DEF tx
<1>3. /\ txs' \in Seq(Txs) /\ Len(txs') = Len(txs) + 1
      /\ txs'[Len(txs')] = tx
      /\ \A i \in 1 .. Len(txs) : txs'[i] = txs[i]
  BY <1>1, <1>2, AppendProperties
<1>4. /\ DOMAIN txs = 1 .. Len(txs) /\ Len(txs) \in Nat
      /\ DOMAIN txs' = 1 .. Len(txs) + 1
  BY <1>2, <1>3
<1>. QED
  BY <1>3, <1>4 DEF tx

\* Sending is sound: a registration always, a stake when the request is in a
\* state that follows registration.
LEMMA SendIInv ==
  ASSUME OpIInv, NEW state \in States, NEW succeeds \in BOOLEAN,
         NEW method \in {"registerSsvValidator", "stakeEth"},
         NEW next \in {"register_sent", "deposit_sent"},
         Send(state, method, succeeds, next),
         \/ /\ method = "registerSsvValidator" /\ next = "register_sent"
            /\ state = "validator_creation_confirmed" /\ succeeds = CanRegister(store.uuid)
         \/ method = "stakeEth" /\ next = "deposit_sent" /\ state = "deposit_data_got"
  PROVE  OpIInv'
<1>1. /\ pc = "loop" /\ store # NoRequest /\ store.state = state
      /\ Broadcast(method, store.uuid) /\ pc' = next
      /\ succeeds /\ UNCHANGED <<ethVars, store, fresh>>
  BY DEF Send, In
<1>2. UNCHANGED <<ethPaused, stage, ssvValidators, validatorsStaked, store>>
  BY <1>1 DEF ethVars, stakingVars, ndcEthVars, ssvVars
<1>3. store.uuid \in Validators
  BY <1>1, RequestType DEF OpIInv, ScriptTypeOK
<1>4. /\ txs' \in Seq(Txs) /\ Len(txs') = Len(txs) + 1
      /\ DOMAIN txs' = DOMAIN txs \cup {Len(txs')} /\ Len(txs') \notin DOMAIN txs
      /\ txs'[Len(txs')] = [method |-> method, validator |-> store.uuid, status |-> "pending"]
      /\ \A i \in DOMAIN txs : txs'[i] = txs[i]
  BY <1>1, <1>3, Broadcasted DEF OpIInv
<1>5. ScriptTypeOK'
  BY <1>1, <1>4 DEF OpIInv, ScriptTypeOK, Places
<1>6. TxsFollowRegistration'
  <2>. SUFFICES ASSUME NEW i \in DOMAIN txs',
                       txs'[i].method = "stakeEth" \/ txs'[i].status # "pending"
                PROVE  HasRegistered(txs'[i].validator)
    BY <1>2 DEF TxsFollowRegistration, HasRegistered
  <2>1. CASE i \in DOMAIN txs
    BY <1>4, <2>1 DEF OpIInv, TxsFollowRegistration
  <2>2. CASE i = Len(txs')
    <3>1. method = "stakeEth" /\ txs'[i].validator = store.uuid
      BY <1>4, <2>2
    <3>. QED
      BY <1>1, <3>1 DEF OpIInv, RequestSound, AfterRegistering
  <2>. QED
    BY <1>4, <2>1, <2>2
<1>7. RequestSound'
  BY <1>2, <1>4 DEF OpIInv, RequestSound, Registers, HasRegistered
<1>8. RunSound'
  <2>1. \/ method = "registerSsvValidator" /\ next = "register_sent"
        \/ next = "deposit_sent" /\ state = "deposit_data_got"
    OBVIOUS
  <2>2. CASE method = "registerSsvValidator" /\ next = "register_sent"
    BY <1>1, <1>4, <2>2 DEF RunSound, Registers
  <2>3. CASE next = "deposit_sent" /\ state = "deposit_data_got"
    BY <1>1, <2>3 DEF RunSound
  <2>. QED
    BY <2>1, <2>2, <2>3
<1>9. PendingSound'
  <2>1. NonePending
    BY <1>1, OnlyWhereWaitedFor DEF OpIInv
  <2>2. \A i \in DOMAIN txs' : PendingRegister(i)' => i = Len(txs') /\ method = "registerSsvValidator"
    BY <1>4, <2>1 DEF NonePending, PendingRegister
  <2>3. method = "registerSsvValidator" => store.uuid \in fresh /\ pc' = "register_sent"
    BY <1>1 DEF CanRegister
  <2>. QED
    BY <1>1, <1>4, <2>2, <2>3 DEF PendingSound
<1>. QED
  BY <1>2, <1>5, <1>6, <1>7, <1>8, <1>9 DEF OpIInv, ActiveAreRun

\* A request that waits for a receipt goes on; a register transaction that has
\* one has left its validator registered.
LEMMA WaitForIInv ==
  ASSUME OpIInv, NEW state \in States, NEW next \in AfterRegistering, WaitFor(state, next),
         state \in {"register_transaction_broadcast"} \cup AfterRegistering
  PROVE  OpIInv'
<1>1. /\ store # NoRequest /\ store.state = state
      /\ UNCHANGED <<ethVars, txs>> /\ pc' = "loop"
      /\ txs[store.tx].status # "pending" /\ UpdateState(next, store.tx)
  BY DEF WaitFor, In
<1>2. store.tx \in Nat
  BY <1>1, RequestType DEF OpIInv, ScriptTypeOK
<1>3. HasRegistered(store.uuid)
  <2>1. CASE state = "register_transaction_broadcast"
    BY <1>1, <2>1 DEF OpIInv, RequestSound, Registers, TxsFollowRegistration
  <2>2. CASE state \in AfterRegistering
    BY <1>1, <2>2 DEF OpIInv, RequestSound
  <2>. QED
    BY <2>1, <2>2
<1>4. next \in States /\ next # "register_transaction_broadcast"
  BY DEF AfterRegistering, States
<1>5. PendingSound'
  <2>1. NonePending
    BY <1>1, OnlyWhereWaitedFor DEF OpIInv, WaitFor, In
  <2>. QED
    BY <2>1, PendingKept DEF OpIInv, WaitFor
<1>. QED
  BY <1>1, <1>2, <1>3, <1>4, <1>5, AdvanceIInv

\* A run stores the hash of what it has just sent.
LEMMA RecordTxIInv ==
  ASSUME OpIInv,
         \/ RecordRegisterTx
         \/ RecordDepositTx
  PROVE  OpIInv'
<1>1. Len(txs) \in Nat
  BY DEF OpIInv, ScriptTypeOK
<1>2. CASE RecordRegisterTx
  <2>1. /\ pc = "register_sent" /\ pc' = "loop" /\ UNCHANGED <<ethVars, txs>>
        /\ UpdateState("register_transaction_broadcast", Len(txs))
    BY <1>2 DEF RecordRegisterTx, RecordTx
  <2>2. store # NoRequest /\ Registers(Len(txs), store.uuid)
    BY <2>1 DEF OpIInv, RunSound
  <2>3. "register_transaction_broadcast" \in States \ AfterRegistering
    BY DEF States, AfterRegistering
  <2>4. /\ store' # NoRequest /\ store'.tx = Len(txs)
        /\ store'.state = "register_transaction_broadcast"
    BY <1>1, <2>1, <2>2, <2>3, Updated DEF OpIInv
  <2>5. PendingSound'
    BY <1>2, <2>1, <2>4 DEF OpIInv, PendingSound, PendingRegister, RecordRegisterTx, RecordTx
  <2>. QED
    BY <1>1, <2>1, <2>2, <2>3, <2>5, AdvanceIInv
<1>3. CASE RecordDepositTx
  <2>1. /\ pc = "deposit_sent" /\ pc' = "loop" /\ UNCHANGED <<ethVars, txs>>
        /\ UpdateState("deposit_transaction_broadcast", Len(txs))
    BY <1>3 DEF RecordDepositTx, RecordTx
  <2>2. store # NoRequest /\ store.state = "deposit_data_got"
    BY <2>1 DEF OpIInv, RunSound
  <2>3. HasRegistered(store.uuid)
    BY <2>2 DEF OpIInv, RequestSound, AfterRegistering
  <2>4. "deposit_transaction_broadcast" \in States
    BY DEF States
  <2>5. PendingSound'
    <3>1. NonePending
      BY <2>1, OnlyWhereWaitedFor DEF OpIInv
    <3>. QED
      BY <1>3, <2>1, <3>1, PendingKept DEF OpIInv, RecordDepositTx, RecordTx
  <2>. QED
    BY <1>1, <2>1, <2>2, <2>3, <2>4, <2>5, AdvanceIInv
<1>. QED
  BY <1>2, <1>3

\* A transaction that has run keeps what it is and its place; the others stay.
LEMMA TxMined ==
  ASSUME txs \in Seq(Txs), NEW i \in DOMAIN txs, Mine(i)
  PROVE  /\ txs[i] \in Txs /\ txs[i].validator \in Validators
         /\ txs[i].method \in {"registerSsvValidator", "stakeEth"}
         /\ txs' \in Seq(Txs) /\ DOMAIN txs' = DOMAIN txs /\ Len(txs') = Len(txs)
         /\ txs'[i].status \in {"mined", "reverted"}
         /\ \A j \in DOMAIN txs : /\ txs'[j].method = txs[j].method
                                  /\ txs'[j].validator = txs[j].validator
                                  /\ j # i => txs'[j].status = txs[j].status
<1>1. txs[i] \in Txs
  OBVIOUS
<1>2. txs[i].validator \in Validators /\ txs[i].method \in {"registerSsvValidator", "stakeEth"}
  BY <1>1 DEF Txs
<1>3. PICK status \in {"mined", "reverted"} : txs' = [txs EXCEPT ![i].status = status]
  BY DEF Mine
<1>4. [txs[i] EXCEPT !.status = status] \in Txs
  BY <1>1, <1>3 DEF Txs
<1>5. txs' = [txs EXCEPT ![i] = [txs[i] EXCEPT !.status = status]]
  BY <1>1, <1>3
<1>6. txs' \in Seq(Txs) /\ Len(txs') = Len(txs) /\ DOMAIN txs' = DOMAIN txs
  BY <1>1, <1>4, <1>5, ExceptSeq
<1>7. \A j \in DOMAIN txs : txs'[j] = IF j = i THEN [txs[i] EXCEPT !.status = status]
                                                ELSE txs[j]
  BY <1>1, <1>5
<1>8. /\ [txs[i] EXCEPT !.status = status].method = txs[i].method
      /\ [txs[i] EXCEPT !.status = status].validator = txs[i].validator
      /\ [txs[i] EXCEPT !.status = status].status = status
  BY <1>1 DEF Txs
<1>. QED
  BY <1>1, <1>2, <1>6, <1>7, <1>8

\* A stake to one validator, which was not staked before.
LEMMA OneStaked ==
  ASSUME NEW v \in Validators, StakeEth(<<v>>)
  PROVE  /\ v \notin validatorsStaked
         /\ stage' = [w \in Validators |-> IF w = v THEN "active" ELSE stage[w]]
         /\ UNCHANGED <<ssvValidators, ethPaused>>
         /\ validatorsStaked \subseteq validatorsStaked'
<1>. DEFINE times(w) == Cardinality({j \in DOMAIN <<v>> : <<v>>[j] = w})
<1>1. /\ stage' = [w \in Validators |-> IF times(w) > 0 THEN "active" ELSE stage[w]]
      /\ UNCHANGED <<ssvValidators, ethPaused>>
      /\ validatorsStaked \subseteq validatorsStaked'
      /\ ToSet(<<v>>) \cap validatorsStaked = {}
  BY DEF StakeEth, Stake, ssvVars, NoneStakedYet
<1>2. v \in ToSet(<<v>>)
  BY DEF ToSet
<1>3. times(v) = 1
  <2>1. {j \in DOMAIN <<v>> : <<v>>[j] = v} = {1}
    OBVIOUS
  <2>. QED
    BY <2>1, FS_Singleton
<1>4. ASSUME NEW w \in Validators, w # v
      PROVE  times(w) = 0
  <2>1. {j \in DOMAIN <<v>> : <<v>>[j] = w} = {}
    BY <1>4
  <2>. QED
    BY <2>1, FS_EmptySet
<1>. HIDE DEF times
<1>. QED
  BY <1>1, <1>2, <1>3, <1>4

\* A transaction that has run.  Registering and staking keep what is registered;
\* one that fails had nothing left to register, as nobody pauses the contract and
\* the cluster it names has not changed.
LEMMA MineIInv ==
  ASSUME OpIInv, NEW i \in DOMAIN txs, Mine(i)
  PROVE  OpIInv'
<1>. DEFINE v == txs[i].validator
<1>1. /\ txs \in Seq(Txs) /\ txs[i] \in Txs /\ v \in Validators
      /\ txs[i].method \in {"registerSsvValidator", "stakeEth"}
      /\ txs[i].status = "pending" /\ UNCHANGED <<pc, store>>
  BY TxMined DEF OpIInv, ScriptTypeOK, Mine
<1>2. txs'[i].status \in {"mined", "reverted"}
  BY <1>1, TxMined
<1>3. /\ txs' \in Seq(Txs) /\ DOMAIN txs' = DOMAIN txs /\ Len(txs') = Len(txs)
      /\ \A j \in DOMAIN txs : /\ txs'[j].method = txs[j].method
                               /\ txs'[j].validator = txs[j].validator
                               /\ j # i => txs'[j].status = txs[j].status
  BY <1>1, TxMined
<1>4. /\ ~ethPaused' /\ ActiveAreRun'
      /\ ssvValidators \subseteq ssvValidators' /\ validatorsStaked \subseteq validatorsStaked'
      /\ v \in ssvValidators' \cup validatorsStaked'
  <2>1. /\ ~ethPaused /\ ActiveAreRun
        /\ txs[i].method = "stakeEth" => HasRegistered(v)
        /\ txs[i].method # "stakeEth" => v \in fresh
    BY <1>1 DEF OpIInv, TxsFollowRegistration, PendingSound, PendingRegister
  <2>2. CASE CanRegister(v) /\ RegisterSsvValidator(v)
    BY <2>1, <2>2 DEF RegisterSsvValidator, RegisterValidator, ndcEthVars, ActiveAreRun,
                      HasRegistered
  <2>3. CASE txs[i].method = "stakeEth" /\ CanStake(v) /\ StakeEth(<<v>>)
    <3>1. v \in ssvValidators
      BY <2>1, <2>3 DEF CanStake, HasRegistered
    <3>2. /\ \A w \in Validators : w # v => stage'[w] = stage[w]
          /\ UNCHANGED <<ssvValidators, ethPaused>>
          /\ validatorsStaked \subseteq validatorsStaked'
      BY <1>1, <2>3, OneStaked
    <3>. QED
      BY <2>1, <3>1, <3>2 DEF ActiveAreRun
  <2>4. CASE /\ IF txs[i].method = "stakeEth" THEN ~CanStake(v) ELSE ~CanRegister(v)
             /\ UNCHANGED ethVars
    BY <2>1, <2>4 DEF CanRegister, ethVars, stakingVars, ssvVars, ndcEthVars,
                      ActiveAreRun, HasRegistered
  <2>. QED
    BY <2>2, <2>3, <2>4 DEF Mine
<1>5. ScriptTypeOK'
  BY <1>1, <1>3 DEF OpIInv, ScriptTypeOK
<1>6. TxsFollowRegistration'
  BY <1>3, <1>4 DEF OpIInv, TxsFollowRegistration, HasRegistered
<1>7. RequestSound'
  BY <1>1, <1>3, <1>4 DEF OpIInv, RequestSound, Registers, HasRegistered
<1>8. RunSound'
  BY <1>1, <1>3 DEF OpIInv, RunSound, Registers
<1>9. PendingSound'
  <2>1. \A j \in DOMAIN txs : PendingRegister(j)' => PendingRegister(j) /\ j # i
    BY <1>1, <1>2, <1>3 DEF PendingRegister
  <2>2. \/ UNCHANGED fresh
        \/ PendingRegister(i)
    BY <1>1 DEF Mine, PendingRegister
  <2>. QED
    BY <1>1, <1>3, <2>1, <2>2 DEF OpIInv, PendingSound
<1>. QED
  BY <1>4, <1>5, <1>6, <1>7, <1>8, <1>9 DEF OpIInv

-----------------------------------------------------------------------------
(* The theorem *)

LEMMA OpStartIInv ==
  ASSUME OpStart
  PROVE  OpIInv
<1>1. /\ ~ethPaused /\ stage = [v \in Validators |-> "none"] /\ pc = "idle" /\ store = NoRequest /\ txs = <<>>
  BY DEF OpStart, NDCEthInit, StakingInit, OpInit
<1>2. DOMAIN txs = {} /\ txs \in Seq(Txs)
  BY <1>1
<1>. QED
  BY <1>1, <1>2 DEF OpIInv, ScriptTypeOK, Places, ActiveAreRun,
                    TxsFollowRegistration, RequestSound, RunSound, PendingSound

LEMMA RunStepKeepsIInv ==
  ASSUME OpIInv, RunStep
  PROVE  OpIInv'
<1>1. ASSUME NEW v \in Validators, IssueRequest(v)
      PROVE  OpIInv'
  <2>1. PendingSound'
    BY <1>1, OnlyWhereWaitedFor, PendingKept DEF IssueRequest, OpIInv
  <2>. QED
    BY <1>1, <2>1, SameRequestIInv DEF IssueRequest
<1>2. ASSUME NEW v \in Validators, RecordRequest(v)
      PROVE  OpIInv'
  <2>1. /\ store' = [uuid |-> v, state |-> "validator_creation_issued", errorCount |-> 0, tx |-> 0]
        /\ pc' = "loop" /\ UNCHANGED <<ethVars, txs>>
    BY <1>2 DEF RecordRequest
  <2>2. store' \in Requests /\ store'.state = "validator_creation_issued"
    BY <2>1 DEF Requests, States
  <2>3. RequestSound'
    BY <2>2 DEF RequestSound, AfterRegistering
  <2>4. PendingSound'
    <3>1. pc \notin {"idle", "register_sent", "loop"}
      BY <1>2 DEF RecordRequest, Places
    <3>. QED
      BY <1>2, <3>1, OnlyWhereWaitedFor, PendingKept DEF RecordRequest, OpIInv
  <2>. QED
    BY <2>1, <2>2, <2>3, <2>4, RunStepIInv
<1>3. CASE ConfirmCreated
  <2>1. store # NoRequest /\ store.tx \in Nat
    BY <1>3, RequestType DEF ConfirmCreated, In, OpIInv, ScriptTypeOK
  <2>2. "validator_creation_confirmed" \in States \ AfterRegistering
    BY DEF States, AfterRegistering
  <2>3. PendingSound'
    BY <1>3, OnlyWhereWaitedFor, PendingKept DEF ConfirmCreated, In, OpIInv
  <2>. QED
    BY <1>3, <2>1, <2>2, <2>3, AdvanceIInv DEF ConfirmCreated, In
<1>4. CASE GiveUpOnCreation
  <2>1. PendingSound'
    BY <1>4, PendingKept DEF GiveUpOnCreation, OpIInv
  <2>. QED
    BY <1>4, <2>1, NoRequestIInv DEF GiveUpOnCreation, ClearState
<1>5. CASE BroadcastRegister
  <2>1. "validator_creation_confirmed" \in States /\ CanRegister(store.uuid) \in BOOLEAN
    BY DEF States, CanRegister
  <2>. QED
    BY <1>5, <2>1, SendIInv DEF BroadcastRegister
<1>6. CASE RecordRegisterTx
  BY <1>6, RecordTxIInv
<1>7. CASE WaitForRegister
  <2>1. "register_transaction_broadcast" \in States /\ "validator_registered" \in AfterRegistering
    BY DEF States, AfterRegistering
  <2>. QED
    BY <1>7, <2>1, WaitForIInv DEF WaitForRegister
<1>8. CASE GetDepositData
  <2>1. /\ store # NoRequest /\ store.state = "validator_registered"
        /\ UNCHANGED <<ethVars, txs>> /\ pc' = "loop"
        /\ UpdateState("deposit_data_got", store.tx)
    BY <1>8 DEF GetDepositData, In
  <2>2. store.tx \in Nat /\ HasRegistered(store.uuid)
    BY <2>1, RequestType DEF OpIInv, ScriptTypeOK, RequestSound, AfterRegistering
  <2>3. "deposit_data_got" \in States
    BY DEF States
  <2>4. PendingSound'
    BY <1>8, OnlyWhereWaitedFor, PendingKept DEF GetDepositData, In, OpIInv
  <2>. QED
    BY <2>1, <2>2, <2>3, <2>4, AdvanceIInv
<1>9. CASE BroadcastDeposit
  <2>1. "deposit_data_got" \in States /\ CanStake(store.uuid) \in BOOLEAN
    BY DEF States, CanStake
  <2>. QED
    BY <1>9, <2>1, SendIInv DEF BroadcastDeposit
<1>10. CASE RecordDepositTx
  BY <1>10, RecordTxIInv
<1>11. CASE WaitForDeposit
  <2>1. /\ "deposit_transaction_broadcast" \in States \cap AfterRegistering
        /\ "deposit_confirmed" \in AfterRegistering
    BY DEF States, AfterRegistering
  <2>. QED
    BY <1>11, <2>1, WaitForIInv DEF WaitForDeposit
<1>12. CASE Finish
  <2>1. PendingSound'
    BY <1>12, PendingKept DEF Finish, OpIInv
  <2>. QED
    BY <1>12, <2>1, NoRequestIInv DEF Finish, ClearState
<1>13. CASE StopAfterRegistering
  <2>1. PendingSound'
    BY <1>13, PendingKept DEF StopAfterRegistering, OpIInv
  <2>. QED
    BY <1>13, <2>1, SameRequestIInv DEF StopAfterRegistering
<1>14. CASE CallFails
  BY <1>14, ThrowsIInv DEF CallFails
<1>. QED
  BY <1>1, <1>2, <1>3, <1>4, <1>5, <1>6, <1>7, <1>8, <1>9, <1>10, <1>11, <1>12, <1>13, <1>14
     DEF RunStep

LEMMA SettledStepIInv ==
  ASSUME OpIInv, [SettledNext]_opVars
  PROVE  OpIInv'
<1>1. ASSUME NEW c \in Configs, StartRun(c), SettledNext
      PROVE  OpIInv'
  <2>1. /\ UNCHANGED <<ethVars, txs>> /\ pc' \in {"idle", "loop"}
        /\ store' = store \/ store' = NoRequest
    BY <1>1 DEF StartRun, Found, ClearState
  <2>2. PendingSound'
    <3>1. NonePending \/ pc' = "idle"
      BY <1>1 DEF StartRun, SettledNext, NonePending, PendingRegister
    <3>. QED
      BY <1>1, <3>1, PendingKept DEF StartRun, OpIInv
  <2>. QED
    BY <2>1, <2>2, SameRequestIInv, NoRequestIInv
<1>2. CASE RunStep
  BY <1>2, RunStepKeepsIInv
<1>3. CASE ServiceFails
  BY <1>3, ThrowsIInv DEF ServiceFails
<1>4. CASE Crash
  <2>1. PendingSound'
    BY <1>4, PendingKept DEF Crash, OpIInv
  <2>. QED
    BY <1>4, <2>1, SameRequestIInv DEF Crash
<1>5. ASSUME UNCHANGED <<pc, store, fresh, txs, ethPaused, stage, ssvValidators,
                         validatorsStaked>>
      PROVE  OpIInv'
  BY <1>5 DEF OpIInv, ScriptTypeOK, ActiveAreRun, TxsFollowRegistration,
              RequestSound, RunSound, Registers, PendingSound, PendingRegister, HasRegistered
<1>6. ASSUME NEW v \in Validators, P2PStep(v)
      PROVE  OpIInv'
  BY <1>5, <1>6 DEF P2PStep, ethVars, stakingVars, ssvVars, ndcEthVars
<1>7. ASSUME NEW i \in DOMAIN txs, Mine(i)
      PROVE  OpIInv'
  BY <1>7, MineIInv
<1>8. ASSUME NEW amount \in Funds, Funded(amount)
      PROVE  OpIInv'
  BY <1>5, <1>8 DEF Funded, EthReceiveTokens, scriptVars, stakingVars, ssvVars
<1>9. CASE UNCHANGED opVars
  BY <1>5, <1>9 DEF opVars, scriptVars, ethVars, stakingVars, ssvVars, ndcEthVars
<1>. QED
  BY <1>1, <1>2, <1>3, <1>4, <1>6, <1>7, <1>8, <1>9 DEF SettledNext, ScriptNext

\* A run of the script, whatever it is started with, and however often runs die
\* or fail, stakes to no validator that operateValidators (p2p.js) has not
\* registered, as long as no run begins before the transactions of the last one
\* are mined.
THEOREM NeverStakedUnregistered == SettledScript => []ActiveAreRun
<1>1. OpStart => OpIInv
  BY OpStartIInv
<1>2. OpIInv /\ [SettledNext]_opVars => OpIInv'
  BY SettledStepIInv
<1>3. OpIInv => ActiveAreRun
  BY DEF OpIInv
<1>. QED
  BY <1>1, <1>2, <1>3, PTL DEF SettledScript

-----------------------------------------------------------------------------
(* Runs whenever they like, a manager who pauses and takes WETH back, a    *)
(* cluster that changes: OpSpec.  What holds then is in terms of what P2P  *)
(* has done: nothing is sent for a validator it has not created, and a     *)
(* request that is new to P2P is new to the chain.                         *)

Ready == {"ready", "validator-ready"}

\* The states before the register transaction is stored, and the stake's.
BeforeRegistering == {"validator_creation_issued", "validator_creation_confirmed"}
BeforeStaking == BeforeRegistering \cup
  {"register_transaction_broadcast", "validator_registered", "deposit_data_got"}

NeverSent(method, v) ==
  \A i \in DOMAIN txs : ~(txs[i].method = method /\ txs[i].validator = v)

\* Transaction i stakes to v.
Stakes(i, v) == i \in DOMAIN txs /\ txs[i].method = "stakeEth" /\ txs[i].validator = v

\* What OpTypeOK says of the script's own variables.
OpScriptTypeOK ==
  /\ config \in Configs
  /\ pc \in Places \cup Validators
  /\ store \in Requests \cup {NoRequest}
  /\ p2p \in [Validators -> P2PStates]
  /\ fresh \in SUBSET (Validators \cup SsvTasks)
  /\ txs \in Seq(Txs)
  /\ crashes \in Nat
  /\ errors \in [Validators -> Nat]
  /\ store # NoRequest => store.tx \in 0 .. Len(txs)

\* Transactions are for validators P2P has created, and a run that waits to store
\* a request has stored none.
CreatedFirst ==
  /\ \A i \in DOMAIN txs : p2p[txs[i].validator] \in Ready
  /\ \A v \in ssvValidators : p2p[v] \in Ready
  /\ pc \in Validators => p2p[pc] # "none" /\ store = NoRequest

\* A request was issued; past its first state its validator is created, and past
\* its deposit it names its stake transaction.
RequestOK(r) ==
  /\ p2p[r.uuid] # "none"
  /\ r.state # "validator_creation_issued" => p2p[r.uuid] \in Ready
  /\ r.state \notin BeforeStaking => Stakes(r.tx, r.uuid)
  /\ r.state = "deposit_confirmed" => txs[r.tx].status # "pending"

StoreOK == store # NoRequest => RequestOK(store)

\* What a run has just sent is what its request says comes next; a stake that was
\* mined is flagged.
SentSound ==
  /\ pc \in {"register_sent", "deposit_sent"} => store # NoRequest
  /\ pc = "register_sent" => store.state = "validator_creation_confirmed"
  /\ pc = "deposit_sent" => store.state = "deposit_data_got" /\ Stakes(Len(txs), store.uuid)

MinedStakesFlagged ==
  \A i \in DOMAIN txs :
    txs[i].method = "stakeEth" /\ txs[i].status = "mined" => txs[i].validator \in validatorsStaked

\* Nothing was sent of what a request in this state still has to send.
NothingSentYet(r) ==
  /\ r.state \in BeforeRegistering /\ pc # "register_sent" =>
       NeverSent("registerSsvValidator", r.uuid)
  /\ r.state \in BeforeStaking /\ pc # "deposit_sent" => NeverSent("stakeEth", r.uuid)

\* So it is while a run goes on that forgot what it found.
OnceSound ==
  config.clear /\ pc # "idle" =>
    /\ pc \in Validators => NeverSent("registerSsvValidator", pc) /\ NeverSent("stakeEth", pc)
    /\ store # NoRequest => NothingSentYet(store)

RunsIInv ==
  /\ EthIInv
  /\ OpScriptTypeOK
  /\ CreatedFirst
  /\ StoreOK
  /\ SentSound
  /\ MinedStakesFlagged
  /\ OnceSound

LEMMA ConfigType ==
  ASSUME NEW c \in Configs
  PROVE  c.clear \in BOOLEAN /\ c.stake \in BOOLEAN
OBVIOUS

\* A step of a run that neither sends nor asks for a validator: it is sound if the
\* request it leaves is.
LEMMA QuietIInv ==
  ASSUME RunsIInv, UNCHANGED <<ethVars, config, p2p, txs>>, OpScriptTypeOK',
         pc' \in {"idle", "loop"},
         store' # NoRequest =>
           /\ RequestOK(store')
           /\ config.clear /\ pc' # "idle" =>
                /\ store'.state \in BeforeRegistering => NeverSent("registerSsvValidator", store'.uuid)
                /\ store'.state \in BeforeStaking => NeverSent("stakeEth", store'.uuid)
  PROVE  RunsIInv'
<1>1. EthIInv'
  BY NextEthIInv DEF RunsIInv
<1>2. UNCHANGED <<ssvValidators, validatorsStaked>>
  BY DEF ethVars, stakingVars, ssvVars, ndcEthVars
<1>3. pc' \notin Validators /\ pc' \notin {"register_sent", "deposit_sent"}
  BY DEF Places
<1>4. CreatedFirst' /\ MinedStakesFlagged'
  BY <1>2, <1>3 DEF RunsIInv, CreatedFirst, MinedStakesFlagged
<1>5. StoreOK'
  BY DEF StoreOK, RequestOK, Stakes
<1>6. SentSound' /\ OnceSound'
  BY <1>3 DEF SentSound, OnceSound, NothingSentYet, NeverSent
<1>. QED
  BY <1>1, <1>4, <1>5, <1>6 DEF RunsIInv

\* A step that ends the run and keeps the request, or forgets it.
LEMMA StopIInv ==
  ASSUME RunsIInv, UNCHANGED <<ethVars, config, p2p, txs>>, OpScriptTypeOK',
         pc' = "idle",
         \/ store' = NoRequest
         \/ /\ store # NoRequest
            /\ store'.uuid = store.uuid /\ store'.state = store.state /\ store'.tx = store.tx
         \/ store' = store
  PROVE  RunsIInv'
<1>1. store' # NoRequest => RequestOK(store')
  BY DEF RunsIInv, StoreOK, RequestOK
<1>. QED
  BY <1>1, QuietIInv

LEMMA ThrowsRuns ==
  ASSUME RunsIInv, Throws
  PROVE  RunsIInv'
<1>1. UNCHANGED <<ethVars, config, p2p, fresh, txs, crashes>> /\ pc' = "idle"
  BY DEF Throws
<1>2. CASE store = NoRequest
  <2>1. OpScriptTypeOK'
    BY <1>1, <1>2 DEF Throws, RunsIInv, OpScriptTypeOK, Places
  <2>. QED
    BY <1>1, <1>2, <2>1, StopIInv DEF Throws
<1>3. CASE store # NoRequest
  <2>1. ScriptTypeOK /\ store.uuid \in Validators
    BY <1>3, RequestType DEF RunsIInv, OpScriptTypeOK, ScriptTypeOK
  <2>2. /\ store' = [store EXCEPT !.errorCount = @ + 1]
        /\ errors' = [errors EXCEPT ![store.uuid] = @ + 1]
    BY <1>3 DEF Throws
  <2>3. /\ store' \in Requests /\ store' # NoRequest
        /\ store'.uuid = store.uuid /\ store'.state = store.state /\ store'.tx = store.tx
    BY <1>3, <2>1, <2>2, Counted
  <2>4. errors' \in [Validators -> Nat]
    BY <2>1, <2>2 DEF RunsIInv, OpScriptTypeOK
  <2>5. OpScriptTypeOK'
    BY <1>1, <1>3, <2>3, <2>4 DEF RunsIInv, OpScriptTypeOK, Places
  <2>. QED
    BY <1>1, <1>3, <2>3, <2>5, StopIInv
<1>. QED
  BY <1>2, <1>3

\* A run that goes on to another state of its request.
LEMMA AdvanceRuns ==
  ASSUME RunsIInv, store # NoRequest, UNCHANGED <<ethVars, config, p2p, txs, crashes, errors>>,
         pc # "idle", pc' = "loop", fresh' \in SUBSET (Validators \cup SsvTasks),
         NEW state \in States, NEW tx \in 0 .. Len(txs), UpdateState(state, tx),
         state # "validator_creation_issued",
         p2p[store.uuid] \in Ready,
         state \notin BeforeStaking => Stakes(tx, store.uuid),
         state = "deposit_confirmed" => txs[tx].status # "pending",
         state \in BeforeRegistering =>
           store.state \in BeforeRegistering /\ pc # "register_sent",
         state \in BeforeStaking => store.state \in BeforeStaking /\ pc # "deposit_sent"
  PROVE  RunsIInv'
<1>0. tx \in Nat /\ ScriptTypeOK
  BY DEF RunsIInv, OpScriptTypeOK, ScriptTypeOK
<1>1. /\ store' \in Requests /\ store' # NoRequest
      /\ store'.uuid = store.uuid /\ store'.state = state /\ store'.tx = tx
  BY <1>0, Updated
<1>2. OpScriptTypeOK'
  BY <1>1 DEF RunsIInv, OpScriptTypeOK, Places
<1>3. RequestOK(store')
  BY <1>1 DEF RequestOK, Ready
<1>4. config.clear =>
        /\ state \in BeforeRegistering => NeverSent("registerSsvValidator", store.uuid)
        /\ state \in BeforeStaking => NeverSent("stakeEth", store.uuid)
  BY DEF RunsIInv, OnceSound, NothingSentYet
<1>. QED
  BY <1>1, <1>2, <1>3, <1>4, QuietIInv

\* A run starts with an empty store, or goes on with what it finds, or not at all.
LEMMA StartRuns ==
  ASSUME RunsIInv, NEW c \in Configs, StartRun(c)
  PROVE  RunsIInv'
<1>1. /\ UNCHANGED <<ethVars, p2p, fresh, txs, crashes, errors>>
      /\ pc = "idle" /\ pc' \in {"idle", "loop"} /\ config' = c
      /\ store' \in {store, NoRequest}
      /\ c.clear => store' = NoRequest
  BY DEF StartRun, Found, ClearState
<1>2. UNCHANGED <<ssvValidators, validatorsStaked>>
  BY <1>1 DEF ethVars, stakingVars, ssvVars, ndcEthVars
<1>3. EthIInv'
  BY <1>1, NextEthIInv DEF RunsIInv
<1>4. OpScriptTypeOK'
  BY <1>1 DEF RunsIInv, OpScriptTypeOK, Places
<1>5. CreatedFirst' /\ MinedStakesFlagged'
  BY <1>1, <1>2 DEF RunsIInv, CreatedFirst, MinedStakesFlagged, Places
<1>6. StoreOK'
  BY <1>1 DEF RunsIInv, StoreOK, RequestOK, Stakes
<1>7. SentSound'
  BY <1>1 DEF SentSound
<1>8. OnceSound'
  <2>1. pc' \notin Validators
    BY <1>1 DEF Places
  <2>. QED
    BY <1>1, <2>1 DEF OnceSound
<1>. QED
  BY <1>3, <1>4, <1>5, <1>6, <1>7, <1>8 DEF RunsIInv

\* P2P takes a request that is new to it, so nothing was ever sent for it.
LEMMA IssueRuns ==
  ASSUME RunsIInv, NEW v \in Validators, IssueRequest(v)
  PROVE  RunsIInv'
<1>1. /\ UNCHANGED <<ethVars, config, store, fresh, txs, crashes, errors>>
      /\ store = NoRequest /\ p2p[v] = "none" /\ pc' = v
      /\ p2p' = [p2p EXCEPT ![v] = "issued"]
      /\ p2p \in [Validators -> P2PStates]
  BY DEF IssueRequest, RunsIInv, OpScriptTypeOK
<1>2. UNCHANGED <<ssvValidators, validatorsStaked>>
  BY <1>1 DEF ethVars, stakingVars, ssvVars, ndcEthVars
<1>3. EthIInv'
  BY <1>1, NextEthIInv DEF RunsIInv
<1>4. OpScriptTypeOK'
  BY <1>1 DEF RunsIInv, OpScriptTypeOK, P2PStates
<1>5. \A w \in Validators : p2p[w] \in Ready => p2p'[w] \in Ready
  BY <1>1 DEF Ready
<1>6. CreatedFirst'
  <2>1. \A i \in DOMAIN txs : txs[i].validator \in Validators
    <3>1. \A i \in DOMAIN txs : txs[i] \in Txs
      BY DEF RunsIInv, OpScriptTypeOK
    <3>. QED
      BY <3>1 DEF Txs
  <2>2. ssvValidators \subseteq Validators
    BY DEF RunsIInv, EthIInv, NDCEthTypeOK, StakingTypeOK
  <2>. QED
    BY <1>1, <1>2, <1>5, <2>1, <2>2 DEF RunsIInv, CreatedFirst
<1>7. StoreOK' /\ MinedStakesFlagged'
  BY <1>1, <1>2 DEF RunsIInv, StoreOK, MinedStakesFlagged
<1>8. SentSound'
  BY <1>1 DEF SentSound, Places
<1>9. OnceSound'
  <2>1. \A method \in {"registerSsvValidator", "stakeEth"} : NeverSent(method, v)
    BY <1>1 DEF RunsIInv, CreatedFirst, NeverSent, Ready
  <2>. QED
    BY <1>1, <2>1 DEF OnceSound, NeverSent
<1>. QED
  BY <1>3, <1>4, <1>6, <1>7, <1>8, <1>9 DEF RunsIInv

LEMMA RecordRuns ==
  ASSUME RunsIInv, NEW v \in Validators, RecordRequest(v)
  PROVE  RunsIInv'
<1>1. /\ UNCHANGED <<ethVars, config, p2p, fresh, txs, crashes, errors>>
      /\ pc = v /\ pc' = "loop"
      /\ store' = [uuid |-> v, state |-> "validator_creation_issued", errorCount |-> 0, tx |-> 0]
  BY DEF RecordRequest
<1>2. store' \in Requests /\ 0 \in 0 .. Len(txs)
  BY <1>1 DEF Requests, States, RunsIInv, OpScriptTypeOK
<1>3. OpScriptTypeOK'
  BY <1>1, <1>2 DEF RunsIInv, OpScriptTypeOK, Places
<1>4. RequestOK(store')
  BY <1>1 DEF RunsIInv, CreatedFirst, RequestOK, BeforeStaking, BeforeRegistering
<1>5. config.clear =>
        NeverSent("registerSsvValidator", store'.uuid) /\ NeverSent("stakeEth", store'.uuid)
  <2>1. pc # "idle" /\ pc \in Validators /\ store'.uuid = pc
    BY <1>1 DEF Places
  <2>. QED
    BY <2>1 DEF RunsIInv, OnceSound
<1>. QED
  BY <1>1, <1>3, <1>4, <1>5, QuietIInv

\* Sending: what is sent was not sent before if the run forgot what it found.
LEMMA SendRuns ==
  ASSUME RunsIInv, NEW state \in States, NEW succeeds,
         NEW method \in {"registerSsvValidator", "stakeEth"},
         NEW next \in {"register_sent", "deposit_sent"},
         Send(state, method, succeeds, next),
         \/ /\ method = "registerSsvValidator" /\ next = "register_sent"
            /\ state = "validator_creation_confirmed"
         \/ method = "stakeEth" /\ next = "deposit_sent" /\ state = "deposit_data_got"
  PROVE  RunsIInv'
<1>1. /\ pc = "loop" /\ store # NoRequest /\ store.state = state
      /\ Broadcast(method, store.uuid) /\ pc' = next
      /\ UNCHANGED <<ethVars, config, store, p2p, fresh, crashes, errors>>
  BY DEF Send, In
<1>2. UNCHANGED <<ssvValidators, validatorsStaked>>
  BY <1>1 DEF ethVars, stakingVars, ndcEthVars, ssvVars
<1>3. store.uuid \in Validators /\ ScriptTypeOK
  BY <1>1, RequestType DEF RunsIInv, OpScriptTypeOK, ScriptTypeOK
<1>4. /\ txs' \in Seq(Txs) /\ Len(txs') = Len(txs) + 1
      /\ DOMAIN txs' = DOMAIN txs \cup {Len(txs')} /\ Len(txs') \notin DOMAIN txs
      /\ txs'[Len(txs')] = [method |-> method, validator |-> store.uuid, status |-> "pending"]
      /\ \A i \in DOMAIN txs : txs'[i] = txs[i]
  BY <1>1, <1>3, Broadcasted
<1>5. EthIInv'
  BY <1>1, NextEthIInv DEF RunsIInv
<1>6. OpScriptTypeOK'
  <2>1. store.tx \in 0 .. Len(txs')
    BY <1>1, <1>4 DEF RunsIInv, OpScriptTypeOK
  <2>. QED
    BY <1>1, <1>4, <2>1 DEF RunsIInv, OpScriptTypeOK, Places
<1>7. CreatedFirst'
  <2>1. p2p[store.uuid] \in Ready
    BY <1>1 DEF RunsIInv, StoreOK, RequestOK
  <2>2. pc' \notin Validators
    BY <1>1 DEF Places
  <2>. QED
    BY <1>1, <1>2, <1>4, <2>1, <2>2 DEF RunsIInv, CreatedFirst
<1>8. StoreOK'
  <2>1. store.state \in BeforeStaking /\ store.state # "deposit_confirmed"
    BY <1>1 DEF BeforeStaking, BeforeRegistering
  <2>. QED
    BY <1>1, <2>1 DEF RunsIInv, StoreOK, RequestOK
<1>9. SentSound'
  BY <1>1, <1>4 DEF SentSound, Stakes
<1>10. MinedStakesFlagged'
  BY <1>2, <1>4 DEF RunsIInv, MinedStakesFlagged
<1>11. OnceSound'
  <2>. SUFFICES ASSUME config.clear
                PROVE  NothingSentYet(store)'
    <3>1. pc' \notin Validators
      BY <1>1 DEF Places
    <3>. QED
      BY <1>1, <3>1 DEF OnceSound
  <2>1. NothingSentYet(store)
    BY <1>1 DEF RunsIInv, OnceSound
  <2>2. CASE method = "registerSsvValidator"
    <3>1. pc' = "register_sent"
      BY <1>1, <2>2
    <3>2. store.state \in BeforeStaking => NeverSent("stakeEth", store.uuid)
      BY <1>1, <2>1 DEF NothingSentYet
    <3>3. NeverSent("stakeEth", store.uuid) => NeverSent("stakeEth", store.uuid)'
      BY <1>1, <1>4, <2>2 DEF NeverSent
    <3>. QED
      BY <1>1, <3>1, <3>2, <3>3 DEF NothingSentYet
  <2>3. CASE method = "stakeEth"
    <3>1. pc' = "deposit_sent" /\ store.state \notin BeforeRegistering
      BY <1>1, <2>3 DEF BeforeRegistering
    <3>. QED
      BY <1>1, <3>1 DEF NothingSentYet
  <2>. QED
    BY <2>2, <2>3
<1>. QED
  BY <1>5, <1>6, <1>7, <1>8, <1>9, <1>10, <1>11 DEF RunsIInv

\* A request that waits for a receipt goes on.
LEMMA WaitRuns ==
  ASSUME RunsIInv,
         \/ WaitForRegister
         \/ WaitForDeposit
  PROVE  RunsIInv'
<1>1. store # NoRequest => store.tx \in 0 .. Len(txs) /\ StoreOK
  BY DEF RunsIInv, OpScriptTypeOK
<1>2. CASE WaitForRegister
  <2>1. /\ pc = "loop" /\ pc' = "loop" /\ store # NoRequest
        /\ store.state = "register_transaction_broadcast"
        /\ UNCHANGED <<ethVars, config, p2p, fresh, txs, crashes, errors>>
        /\ UpdateState("validator_registered", store.tx)
    BY <1>2 DEF WaitForRegister, WaitFor, In
  <2>2. "validator_registered" \in States \cap BeforeStaking /\ store.state \in BeforeStaking
    BY <2>1 DEF States, BeforeStaking
  <2>3. p2p[store.uuid] \in Ready
    BY <1>1, <2>1 DEF StoreOK, RequestOK
  <2>. QED
    BY <1>1, <2>1, <2>2, <2>3, AdvanceRuns DEF RunsIInv, OpScriptTypeOK, BeforeRegistering
<1>3. CASE WaitForDeposit
  <2>1. /\ pc = "loop" /\ pc' = "loop" /\ store # NoRequest
        /\ store.state = "deposit_transaction_broadcast"
        /\ txs[store.tx].status # "pending"
        /\ UNCHANGED <<ethVars, config, p2p, fresh, txs, crashes, errors>>
        /\ UpdateState("deposit_confirmed", store.tx)
    BY <1>3 DEF WaitForDeposit, WaitFor, In
  <2>2. /\ "deposit_confirmed" \in States \ BeforeStaking
        /\ "deposit_transaction_broadcast" \notin BeforeStaking
    BY DEF States, BeforeStaking, BeforeRegistering
  <2>3. p2p[store.uuid] \in Ready /\ Stakes(store.tx, store.uuid)
    BY <1>1, <2>1, <2>2 DEF StoreOK, RequestOK
  <2>. QED
    BY <1>1, <2>1, <2>2, <2>3, AdvanceRuns DEF RunsIInv, OpScriptTypeOK, BeforeStaking
<1>. QED
  BY <1>2, <1>3

\* A run stores the hash of what it has just sent.
LEMMA RecordTxRuns ==
  ASSUME RunsIInv,
         \/ RecordRegisterTx
         \/ RecordDepositTx
  PROVE  RunsIInv'
<1>1. Len(txs) \in 0 .. Len(txs)
  BY DEF RunsIInv, OpScriptTypeOK
<1>2. CASE RecordRegisterTx
  <2>1. /\ pc = "register_sent" /\ pc' = "loop"
        /\ UNCHANGED <<ethVars, config, p2p, fresh, txs, crashes, errors>>
        /\ UpdateState("register_transaction_broadcast", Len(txs))
    BY <1>2 DEF RecordRegisterTx, RecordTx
  <2>2. store # NoRequest /\ store.state = "validator_creation_confirmed"
    BY <2>1 DEF RunsIInv, SentSound
  <2>3. /\ "register_transaction_broadcast" \in States \cap BeforeStaking
        /\ store.state \in BeforeStaking
    BY <2>2 DEF States, BeforeStaking, BeforeRegistering
  <2>4. p2p[store.uuid] \in Ready
    BY <2>2 DEF RunsIInv, StoreOK, RequestOK
  <2>. QED
    BY <1>1, <2>1, <2>2, <2>3, <2>4, AdvanceRuns DEF RunsIInv, OpScriptTypeOK, BeforeRegistering
<1>3. CASE RecordDepositTx
  <2>1. /\ pc = "deposit_sent" /\ pc' = "loop"
        /\ UNCHANGED <<ethVars, config, p2p, fresh, txs, crashes, errors>>
        /\ UpdateState("deposit_transaction_broadcast", Len(txs))
    BY <1>3 DEF RecordDepositTx, RecordTx
  <2>2. store # NoRequest /\ store.state = "deposit_data_got" /\ Stakes(Len(txs), store.uuid)
    BY <2>1 DEF RunsIInv, SentSound
  <2>3. "deposit_transaction_broadcast" \in States \ BeforeStaking
    BY DEF States, BeforeStaking, BeforeRegistering
  <2>4. p2p[store.uuid] \in Ready
    BY <2>2 DEF RunsIInv, StoreOK, RequestOK
  <2>. QED
    BY <1>1, <2>1, <2>2, <2>3, <2>4, AdvanceRuns DEF RunsIInv, OpScriptTypeOK, BeforeStaking
<1>. QED
  BY <1>2, <1>3

LEMMA RunStepRuns ==
  ASSUME RunsIInv, RunStep
  PROVE  RunsIInv'
<1>1. ASSUME NEW v \in Validators, IssueRequest(v) \/ RecordRequest(v)
      PROVE  RunsIInv'
  BY <1>1, IssueRuns, RecordRuns
<1>2. CASE ConfirmCreated
  <2>1. /\ pc = "loop" /\ pc' = "loop" /\ store # NoRequest
        /\ store.state = "validator_creation_issued" /\ p2p[store.uuid] # "issued"
        /\ UNCHANGED <<ethVars, config, p2p, txs, crashes, errors>>
        /\ UpdateState("validator_creation_confirmed", store.tx)
        /\ fresh' = fresh \cup {store.uuid}
    BY <1>2 DEF ConfirmCreated, In
  <2>2. store.uuid \in Validators /\ store.tx \in 0 .. Len(txs)
    BY <2>1, RequestType DEF RunsIInv, OpScriptTypeOK
  <2>3. p2p[store.uuid] \in Ready
    BY <2>1, <2>2 DEF RunsIInv, OpScriptTypeOK, StoreOK, RequestOK, P2PStates, Ready
  <2>4. fresh' \in SUBSET (Validators \cup SsvTasks)
    BY <2>1, <2>2 DEF RunsIInv, OpScriptTypeOK
  <2>5. /\ "validator_creation_confirmed" \in States \cap BeforeStaking
        /\ store.state \in BeforeRegistering \cap BeforeStaking
    BY <2>1 DEF States, BeforeStaking, BeforeRegistering
  <2>. QED
    BY <2>1, <2>2, <2>3, <2>4, <2>5, AdvanceRuns
<1>3. CASE GiveUpOnCreation \/ Finish
  <2>1. /\ UNCHANGED <<ethVars, config, p2p, fresh, txs, crashes, errors>>
        /\ pc' = "idle" /\ store' = NoRequest
    BY <1>3 DEF GiveUpOnCreation, Finish, ClearState
  <2>2. OpScriptTypeOK'
    BY <2>1 DEF RunsIInv, OpScriptTypeOK, Places
  <2>. QED
    BY <2>1, <2>2, StopIInv
<1>4. CASE BroadcastRegister
  <2>1. "validator_creation_confirmed" \in States
    BY DEF States
  <2>. QED
    BY <1>4, <2>1, SendRuns DEF BroadcastRegister
<1>5. CASE BroadcastDeposit
  <2>1. "deposit_data_got" \in States
    BY DEF States
  <2>. QED
    BY <1>5, <2>1, SendRuns DEF BroadcastDeposit
<1>6. CASE RecordRegisterTx \/ RecordDepositTx
  BY <1>6, RecordTxRuns
<1>7. CASE WaitForRegister \/ WaitForDeposit
  BY <1>7, WaitRuns
<1>8. CASE GetDepositData
  <2>1. /\ pc = "loop" /\ pc' = "loop" /\ store # NoRequest
        /\ store.state = "validator_registered" /\ p2p[store.uuid] = "validator-ready"
        /\ UNCHANGED <<ethVars, config, p2p, fresh, txs, crashes, errors>>
        /\ UpdateState("deposit_data_got", store.tx)
    BY <1>8 DEF GetDepositData, In
  <2>2. store.tx \in 0 .. Len(txs) /\ fresh \in SUBSET (Validators \cup SsvTasks)
    BY <2>1 DEF RunsIInv, OpScriptTypeOK
  <2>3. /\ "deposit_data_got" \in States \cap BeforeStaking /\ store.state \in BeforeStaking
        /\ "deposit_data_got" \notin BeforeRegistering
    BY <2>1 DEF States, BeforeStaking, BeforeRegistering
  <2>. QED
    BY <2>1, <2>2, <2>3, AdvanceRuns DEF Ready
<1>9. CASE StopAfterRegistering
  <2>1. UNCHANGED <<ethVars, config, store, p2p, fresh, txs, crashes, errors>> /\ pc' = "idle"
    BY <1>9 DEF StopAfterRegistering
  <2>2. OpScriptTypeOK'
    BY <2>1 DEF RunsIInv, OpScriptTypeOK, Places
  <2>. QED
    BY <2>1, <2>2, StopIInv
<1>10. CASE CallFails
  BY <1>10, ThrowsRuns DEF CallFails
<1>. QED
  BY <1>1, <1>2, <1>3, <1>4, <1>5, <1>6, <1>7, <1>8, <1>9, <1>10 DEF RunStep

\* A transaction runs: what it does to the contract is one of the contract's own
\* operations, and no request is told.
LEMMA MineRuns ==
  ASSUME RunsIInv, NEW i \in DOMAIN txs, Mine(i)
  PROVE  RunsIInv'
<1>. DEFINE v == txs[i].validator
<1>0. txs \in Seq(Txs) /\ UNCHANGED <<pc, config, store, p2p, crashes, errors>>
  BY DEF RunsIInv, OpScriptTypeOK, Mine
<1>1. /\ v \in Validators /\ txs[i].method \in {"registerSsvValidator", "stakeEth"}
      /\ txs' \in Seq(Txs) /\ DOMAIN txs' = DOMAIN txs /\ Len(txs') = Len(txs)
      /\ txs'[i].status \in {"mined", "reverted"}
      /\ \A j \in DOMAIN txs : /\ txs'[j].method = txs[j].method
                               /\ txs'[j].validator = txs[j].validator
                               /\ j # i => txs'[j].status = txs[j].status
  BY <1>0, TxMined
<1>2. \/ RegisterSsvValidator(v) /\ txs[i].method = "registerSsvValidator"
      \/ StakeEth(<<v>>) /\ txs[i].method = "stakeEth"
      \/ UNCHANGED ethVars /\ txs'[i].status = "reverted"
  <2>1. CASE txs' = [txs EXCEPT ![i].status = "reverted"] /\ UNCHANGED <<ethVars, fresh>>
    <3>1. txs[i] \in Txs
      BY <1>0
    <3>2. txs'[i] = [txs[i] EXCEPT !.status = "reverted"]
      BY <1>0, <2>1
    <3>. QED
      BY <2>1, <3>1, <3>2 DEF Txs
  <2>. QED
    BY <2>1 DEF Mine
<1>3. EthIInv'
  <2>1. CASE RegisterSsvValidator(v)
    BY <1>1, <2>1, SetupIInv DEF RunsIInv, SetupNext
  <2>2. CASE StakeEth(<<v>>)
    <3>1. <<v>> \in Seq(Validators)
      BY <1>1
    <3>. QED
      BY <2>2, <3>1, StakeIInv DEF RunsIInv
  <2>3. CASE UNCHANGED ethVars
    BY <2>3, NextEthIInv DEF RunsIInv
  <2>. QED
    BY <1>2, <2>1, <2>2, <2>3
<1>4. /\ ssvValidators' \subseteq ssvValidators \cup {v}
      /\ validatorsStaked \subseteq validatorsStaked'
      /\ txs[i].method = "stakeEth" /\ txs'[i].status = "mined" => v \in validatorsStaked'
  <2>1. CASE RegisterSsvValidator(v) /\ txs[i].method = "registerSsvValidator"
    BY <2>1 DEF RegisterSsvValidator, RegisterValidator, ndcEthVars
  <2>2. CASE StakeEth(<<v>>) /\ txs[i].method = "stakeEth"
    <3>1. v \in ToSet(<<v>>)
      BY DEF ToSet
    <3>. QED
      BY <2>2, <3>1 DEF StakeEth, Stake, ssvVars
  <2>3. CASE UNCHANGED ethVars /\ txs'[i].status = "reverted"
    BY <2>3 DEF ethVars, stakingVars, ssvVars, ndcEthVars
  <2>. QED
    BY <1>2, <2>1, <2>2, <2>3
<1>5. OpScriptTypeOK'
  <2>1. fresh' \in SUBSET (Validators \cup SsvTasks)
    BY DEF Mine, ClusterChanges, RunsIInv, OpScriptTypeOK
  <2>. QED
    BY <1>0, <1>1, <2>1 DEF RunsIInv, OpScriptTypeOK
<1>6. CreatedFirst'
  <2>1. p2p[v] \in Ready
    BY DEF RunsIInv, CreatedFirst
  <2>. QED
    BY <1>0, <1>1, <1>4, <2>1 DEF RunsIInv, CreatedFirst
<1>7. StoreOK'
  <2>. SUFFICES ASSUME store # NoRequest
                PROVE  RequestOK(store)'
    BY <1>0 DEF StoreOK
  <2>1. RequestOK(store)
    BY DEF RunsIInv, StoreOK
  <2>2. store.state = "deposit_confirmed" => store.tx \in DOMAIN txs /\ store.tx # i
    BY <2>1 DEF RequestOK, Stakes, BeforeStaking, BeforeRegistering, Mine
  <2>. QED
    BY <1>0, <1>1, <2>1, <2>2 DEF RequestOK, Stakes
<1>8. SentSound'
  BY <1>0, <1>1 DEF RunsIInv, SentSound, Stakes
<1>9. MinedStakesFlagged'
  BY <1>1, <1>4 DEF RunsIInv, MinedStakesFlagged
<1>10. OnceSound'
  <2>1. \A method, w : NeverSent(method, w)' <=> NeverSent(method, w)
    BY <1>1 DEF NeverSent
  <2>. QED
    BY <1>0, <2>1 DEF RunsIInv, OnceSound, NothingSentYet
<1>. QED
  BY <1>3, <1>5, <1>6, <1>7, <1>8, <1>9, <1>10 DEF RunsIInv

\* The contract is called by others: only its ether and the pause change.
LEMMA ContractRuns ==
  ASSUME RunsIInv, EthIInv', UNCHANGED <<scriptVars, ssvValidators, validatorsStaked>>
  PROVE  RunsIInv'
<1>1. UNCHANGED <<pc, config, store, p2p, fresh, txs, crashes, errors>>
  BY DEF scriptVars
<1>2. OpScriptTypeOK' /\ CreatedFirst' /\ MinedStakesFlagged'
  BY <1>1 DEF RunsIInv, OpScriptTypeOK, CreatedFirst, MinedStakesFlagged
<1>3. StoreOK' /\ SentSound' /\ OnceSound'
  BY <1>1 DEF RunsIInv, StoreOK, RequestOK, SentSound, OnceSound, NothingSentYet, NeverSent, Stakes
<1>. QED
  BY <1>2, <1>3 DEF RunsIInv

LEMMA NextRuns == RunsIInv /\ [OpNext]_opVars => RunsIInv'
<1>. SUFFICES ASSUME RunsIInv, [OpNext]_opVars
              PROVE  RunsIInv'
  OBVIOUS
<1>1. ASSUME NEW c \in Configs, StartRun(c)
      PROVE  RunsIInv'
  BY <1>1, StartRuns
<1>2. CASE RunStep
  BY <1>2, RunStepRuns
<1>3. CASE ServiceFails
  BY <1>3, ThrowsRuns DEF ServiceFails
<1>4. CASE Crash
  <2>1. UNCHANGED <<ethVars, config, store, p2p, fresh, txs, errors>> /\ pc' = "idle"
        /\ crashes' = crashes + 1
    BY <1>4 DEF Crash
  <2>2. OpScriptTypeOK'
    BY <2>1 DEF RunsIInv, OpScriptTypeOK, Places
  <2>. QED
    BY <2>1, <2>2, StopIInv
<1>5. ASSUME NEW v \in Validators, P2PStep(v)
      PROVE  RunsIInv'
  <2>1. /\ UNCHANGED <<ethVars, pc, config, store, fresh, txs, crashes, errors>>
        /\ p2p \in [Validators -> P2PStates]
        /\ \/ p2p[v] = "issued" /\ p2p' = [p2p EXCEPT ![v] = "ready"]
           \/ p2p[v] = "ready" /\ p2p' = [p2p EXCEPT ![v] = "validator-ready"]
    BY <1>5 DEF P2PStep, RunsIInv, OpScriptTypeOK
  <2>2. UNCHANGED <<ssvValidators, validatorsStaked>>
    BY <2>1 DEF ethVars, stakingVars, ssvVars, ndcEthVars
  <2>3. EthIInv'
    BY <2>1, NextEthIInv DEF RunsIInv
  <2>4. /\ p2p' \in [Validators -> P2PStates]
        /\ \A w \in Validators : /\ p2p[w] \in Ready => p2p'[w] \in Ready
                                 /\ p2p[w] # "none" => p2p'[w] # "none"
    BY <2>1 DEF P2PStates, Ready
  <2>5. OpScriptTypeOK'
    BY <2>1, <2>4 DEF RunsIInv, OpScriptTypeOK
  <2>6. CreatedFirst'
    <3>1. \A i \in DOMAIN txs : txs[i] \in Txs
      BY DEF RunsIInv, OpScriptTypeOK
    <3>2. \A i \in DOMAIN txs : txs[i].validator \in Validators
      BY <3>1 DEF Txs
    <3>3. ssvValidators \subseteq Validators
      BY DEF RunsIInv, EthIInv, NDCEthTypeOK, StakingTypeOK
    <3>. QED
      BY <2>1, <2>2, <2>4, <3>2, <3>3 DEF RunsIInv, CreatedFirst
  <2>7. StoreOK'
    <3>1. store # NoRequest => store.uuid \in Validators
      BY RequestType DEF RunsIInv, OpScriptTypeOK
    <3>. QED
      BY <2>1, <2>4, <3>1 DEF RunsIInv, StoreOK, RequestOK, Stakes
  <2>8. SentSound' /\ MinedStakesFlagged' /\ OnceSound'
    BY <2>1, <2>2 DEF RunsIInv, SentSound, Stakes, MinedStakesFlagged, OnceSound, NothingSentYet,
       NeverSent
  <2>. QED
    BY <2>3, <2>5, <2>6, <2>7, <2>8 DEF RunsIInv
<1>6. ASSUME NEW i \in DOMAIN txs, Mine(i)
      PROVE  RunsIInv'
  BY <1>6, MineRuns
<1>7. ASSUME NEW amount \in Funds, Funded(amount) \/ TakenBack(amount)
      PROVE  RunsIInv'
  <2>1. /\ UNCHANGED scriptVars
        /\ EthReceiveTokens(WETH, amount) \/ EthTransferBack(WETH, amount)
    BY <1>7 DEF Funded, TakenBack
  <2>2. EthIInv'
    <3>1. WETH \in Assets
      BY NodeDelegatorETHAssumption DEF NodeDelegatorETHAssumption
    <3>. QED
      BY <2>1, <3>1, TransfersIInv DEF RunsIInv
  <2>3. UNCHANGED <<ssvValidators, validatorsStaked>>
    BY <2>1 DEF EthReceiveTokens, EthTransferBack, stakingVars, ssvVars
  <2>. QED
    BY <2>1, <2>2, <2>3, ContractRuns
<1>8. CASE Paused
  <2>1. EthIInv'
    BY <1>8, SetupIInv DEF RunsIInv, Paused, SetupNext
  <2>2. UNCHANGED <<ssvValidators, validatorsStaked>>
    BY <1>8 DEF Paused, EthPause, EthUnpause, stakingVars, ssvVars
  <2>. QED
    BY <1>8, <2>1, <2>2, ContractRuns DEF Paused
<1>9. CASE ClusterFunded
  <2>1. /\ UNCHANGED <<ethVars, pc, config, store, p2p, txs, crashes, errors>> /\ fresh' = {}
    BY <1>9 DEF ClusterFunded, ClusterChanges
  <2>2. EthIInv' /\ UNCHANGED <<ssvValidators, validatorsStaked>>
    BY <2>1, NextEthIInv DEF RunsIInv, ethVars, stakingVars, ssvVars, ndcEthVars
  <2>3. OpScriptTypeOK' /\ CreatedFirst' /\ MinedStakesFlagged'
    BY <2>1, <2>2 DEF RunsIInv, OpScriptTypeOK, CreatedFirst, MinedStakesFlagged
  <2>4. StoreOK' /\ SentSound' /\ OnceSound'
    BY <2>1 DEF RunsIInv, StoreOK, RequestOK, SentSound, OnceSound, NothingSentYet, NeverSent, Stakes
  <2>. QED
    BY <2>2, <2>3, <2>4 DEF RunsIInv
<1>10. CASE UNCHANGED opVars
  <2>1. UNCHANGED scriptVars /\ UNCHANGED ethVars
    BY <1>10 DEF opVars
  <2>2. EthIInv' /\ UNCHANGED <<ssvValidators, validatorsStaked>>
    BY <2>1, NextEthIInv DEF RunsIInv, ethVars, stakingVars, ssvVars, ndcEthVars
  <2>. QED
    BY <2>1, <2>2, ContractRuns
<1>. QED
  BY <1>1, <1>2, <1>3, <1>4, <1>5, <1>6, <1>7, <1>8, <1>9, <1>10 DEF OpNext, ScriptNext

LEMMA StartRunsIInv == OpStart => RunsIInv
<1>. SUFFICES ASSUME OpStart
              PROVE  RunsIInv
  OBVIOUS
<1>1. EthIInv
  BY InitEthIInv DEF OpStart
<1>2. /\ pc = "idle" /\ config \in Configs /\ store = NoRequest /\ fresh = {} /\ txs = <<>>
      /\ p2p = [v \in Validators |-> "none"] /\ crashes = 0
      /\ errors = [v \in Validators |-> 0] /\ ssvValidators = {}
  BY DEF OpStart, OpInit, NDCEthInit, StakingInit
<1>3. DOMAIN txs = {} /\ txs \in Seq(Txs)
  BY <1>2
<1>4. OpScriptTypeOK
  BY <1>2, <1>3 DEF OpScriptTypeOK, Places, P2PStates
<1>. QED
  BY <1>1, <1>2, <1>3, <1>4 DEF RunsIInv, CreatedFirst, StoreOK, SentSound, MinedStakesFlagged,
     OnceSound, Places

-----------------------------------------------------------------------------

\* What holds of the script and the contract through all runs, failures, pauses
\* and transfers.
THEOREM RunsInductiveInvariant == OpSpec => []RunsIInv
<1>. QED
  BY StartRunsIInv, NextRuns, PTL DEF OpSpec

\* Also while the script drives it, the contract never owes what it does not have,
\* and the store only names a transaction that was sent.
THEOREM ScriptTypeCorrect == OpSpec => []OpTypeOK
<1>1. RunsIInv => OpTypeOK
  BY DEF RunsIInv, EthIInv, OpScriptTypeOK, OpTypeOK
<1>. QED
  BY <1>1, RunsInductiveInvariant, PTL

\* However many runs stake the same validator's request, one deposit is made.
THEOREM RunsDepositOnce == OpSpec => []DepositedOnce
<1>1. RunsIInv => DepositedOnce
  BY DEF RunsIInv, EthIInv
<1>. QED
  BY <1>1, RunsInductiveInvariant, PTL

\* The last transaction after a step that sends one.
LEMMA LastSent ==
  ASSUME RunsIInv, NEW state, NEW succeeds, NEW next,
         NEW method \in {"registerSsvValidator", "stakeEth"}, Send(state, method, succeeds, next)
  PROVE  Last(txs').method = method /\ Last(txs').validator = store.uuid
<1>1. store # NoRequest /\ Broadcast(method, store.uuid)
  BY DEF Send, In
<1>2. store.uuid \in Validators /\ ScriptTypeOK
  BY <1>1, RequestType DEF RunsIInv, OpScriptTypeOK, ScriptTypeOK
<1>3. txs'[Len(txs')] = [method |-> method, validator |-> store.uuid, status |-> "pending"]
  BY <1>1, <1>2, Broadcasted
<1>. QED
  BY <1>3 DEF Last

\* Only the two broadcasts send.
LEMMA OnlyBroadcastsSend ==
  ASSUME RunsIInv, [OpNext]_opVars, ~BroadcastRegister, ~BroadcastDeposit
  PROVE  Len(txs') = Len(txs)
<1>1. ASSUME NEW i \in DOMAIN txs, Mine(i)
      PROVE  Len(txs') = Len(txs)
  BY <1>1, TxMined DEF RunsIInv, OpScriptTypeOK
<1>2. RunStep => UNCHANGED txs
  BY DEF RunStep, IssueRequest, RecordRequest, ConfirmCreated, GiveUpOnCreation, RecordRegisterTx,
     RecordDepositTx, RecordTx, WaitForRegister, WaitForDeposit, WaitFor, GetDepositData, Finish,
     StopAfterRegistering, CallFails, Throws
<1>3. /\ \A c \in Configs : StartRun(c) => UNCHANGED txs
      /\ \A v \in Validators : P2PStep(v) => UNCHANGED txs
      /\ \A amount \in Funds : Funded(amount) \/ TakenBack(amount) => UNCHANGED txs
      /\ ServiceFails \/ Crash \/ Paused \/ ClusterFunded \/ UNCHANGED opVars => UNCHANGED txs
  BY DEF StartRun, P2PStep, Funded, TakenBack, ServiceFails, Throws, Crash, Paused, ClusterFunded,
     opVars, scriptVars
<1>. QED
  BY <1>1, <1>2, <1>3 DEF OpNext, ScriptNext

\* A run that forgets what it finds asks P2P for a new validator, so what it sends
\* was sent by no run before it, dead, stuck or still waiting for its receipt.
THEOREM NothingIsSentTwice == OpSpec => EachTxOnce
<1>. DEFINE Once ==
       config.clear /\ Len(txs') > Len(txs) =>
         \A i \in DOMAIN txs :
           ~(txs[i].method = Last(txs').method /\ txs[i].validator = Last(txs').validator)
<1>1. RunsIInv /\ [OpNext]_opVars => Once
  <2>. SUFFICES ASSUME RunsIInv, [OpNext]_opVars, config.clear, Len(txs') > Len(txs)
                PROVE  NeverSent(Last(txs').method, Last(txs').validator)
    BY DEF NeverSent
  <2>0. Len(txs) \in Nat
    BY DEF RunsIInv, OpScriptTypeOK
  <2>1. CASE BroadcastRegister
    <3>1. /\ pc = "loop" /\ store # NoRequest /\ store.state = "validator_creation_confirmed"
          /\ Last(txs').method = "registerSsvValidator" /\ Last(txs').validator = store.uuid
      BY <2>1, LastSent DEF BroadcastRegister, Send, In
    <3>. QED
      BY <3>1 DEF RunsIInv, OnceSound, NothingSentYet, BeforeRegistering
  <2>2. CASE BroadcastDeposit
    <3>1. /\ pc = "loop" /\ store # NoRequest /\ store.state = "deposit_data_got"
          /\ Last(txs').method = "stakeEth" /\ Last(txs').validator = store.uuid
      BY <2>2, LastSent DEF BroadcastDeposit, Send, In
    <3>. QED
      BY <3>1 DEF RunsIInv, OnceSound, NothingSentYet, BeforeStaking
  <2>3. CASE ~BroadcastRegister /\ ~BroadcastDeposit
    BY <2>0, <2>3, OnlyBroadcastsSend
  <2>. QED
    BY <2>1, <2>2, <2>3
<1>. QED
  BY <1>1, RunsInductiveInvariant, PTL DEF OpSpec, EachTxOnce

\* The request a run works on is only forgotten where the code clears the store.
LEMMA Forgotten ==
  ASSUME RunsIInv, [OpNext]_opVars, NEW v \in Validators, Tracked(v), ~Tracked(v)'
  PROVE  \/ GiveUpOnCreation
         \/ Finish
         \/ \E c \in Configs : StartRun(c) /\ store' = NoRequest
<1>1. store \in Requests /\ store # NoRequest /\ ScriptTypeOK /\ store' # store
  BY DEF Tracked, RunsIInv, OpScriptTypeOK, ScriptTypeOK
<1>2. ~Throws
  <2>. SUFFICES ASSUME Throws
                PROVE  FALSE
    OBVIOUS
  <2>1. store' # NoRequest /\ store'.uuid = store.uuid
    BY <1>1, Counted DEF Throws
  <2>. QED
    BY <2>1 DEF Tracked
<1>3. ASSUME NEW state \in States, NEW tx \in Nat, UpdateState(state, tx)
      PROVE  FALSE
  <2>1. store' # NoRequest /\ store'.uuid = store.uuid
    BY <1>1, <1>3, Updated
  <2>. QED
    BY <2>1 DEF Tracked
<1>4. store.tx \in Nat /\ Len(txs) \in Nat
  BY <1>1, RequestType DEF RunsIInv, OpScriptTypeOK
<1>5. /\ ~ConfirmCreated /\ ~WaitForRegister /\ ~WaitForDeposit /\ ~GetDepositData
      /\ ~RecordRegisterTx /\ ~RecordDepositTx
  BY <1>3, <1>4 DEF ConfirmCreated, WaitForRegister, WaitForDeposit, WaitFor, GetDepositData,
     RecordRegisterTx, RecordDepositTx, RecordTx, States
<1>6. \A w \in Validators : ~IssueRequest(w) /\ ~RecordRequest(w)
  BY <1>1 DEF IssueRequest, RecordRequest, RunsIInv, CreatedFirst
<1>7. ~BroadcastRegister /\ ~BroadcastDeposit /\ ~StopAfterRegistering /\ ~CallFails
  BY <1>1, <1>2 DEF BroadcastRegister, BroadcastDeposit, Send, StopAfterRegistering, CallFails
<1>8. RunStep => GiveUpOnCreation \/ Finish
  BY <1>5, <1>6, <1>7 DEF RunStep
<1>9. /\ \A w \in Validators : ~P2PStep(w)
      /\ \A i \in DOMAIN txs : ~Mine(i)
      /\ \A amount \in Funds : ~Funded(amount) /\ ~TakenBack(amount)
      /\ ~ServiceFails /\ ~Crash /\ ~Paused /\ ~ClusterFunded /\ ~UNCHANGED opVars
  BY <1>1, <1>2 DEF P2PStep, Mine, Funded, TakenBack, ServiceFails, Crash, Paused, ClusterFunded,
     opVars, scriptVars
<1>10. \A c \in Configs : StartRun(c) => store' = NoRequest
  BY <1>1 DEF StartRun, Found, ClearState
<1>. QED
  BY <1>8, <1>9, <1>10 DEF OpNext, ScriptNext

\* A validator that is registered, and whose request a run works on, is staked
\* unless an error, a failed stake or the operator's choice ends its request: no
\* crash and no interleaving of runs and receipts drops it.
THEOREM RegisteredAreStakedOrGivenUp == OpSpec => StakedOrGivenUp
<1>. DEFINE Kept ==
       \A v \in ssvValidators :
         Tracked(v) /\ ~Tracked(v)'
           => \/ v \in validatorsStaked
              \/ pc = "idle" /\ config'.clear
              \/ store.errorCount >= ERROR_THRESHOLD
              \/ StakeReverted(v)
<1>1. RunsIInv /\ [OpNext]_opVars => Kept
  <2>. SUFFICES ASSUME RunsIInv, [OpNext]_opVars, NEW v \in ssvValidators,
                       Tracked(v), ~Tracked(v)',
                       v \notin validatorsStaked, ~(pc = "idle" /\ config'.clear),
                       ~StakeReverted(v)
                PROVE  store.errorCount >= ERROR_THRESHOLD
    OBVIOUS
  <2>1. v \in Validators /\ store # NoRequest /\ store.uuid = v /\ StoreOK
    BY DEF RunsIInv, EthIInv, NDCEthTypeOK, StakingTypeOK, Tracked
  <2>2. ~GiveUpOnCreation
    BY <2>1 DEF GiveUpOnCreation, RunsIInv, CreatedFirst, Ready
  <2>3. ~Finish
    <3>. SUFFICES ASSUME Finish
                  PROVE  FALSE
      OBVIOUS
    <3>1. RequestOK(store) /\ store.state = "deposit_confirmed"
      BY <2>1 DEF Finish, In, StoreOK
    <3>2. Stakes(store.tx, v) /\ txs[store.tx].status # "pending"
      BY <2>1, <3>1 DEF RequestOK, BeforeStaking, BeforeRegistering
    <3>3. txs[store.tx] \in Txs
      BY <3>2 DEF RunsIInv, OpScriptTypeOK, Stakes
    <3>4. txs[store.tx].status # "mined"
      BY <3>2 DEF RunsIInv, MinedStakesFlagged, Stakes
    <3>5. txs[store.tx] = [method |-> "stakeEth", validator |-> v, status |-> "reverted"]
      BY <3>2, <3>3, <3>4 DEF Txs, Stakes
    <3>. QED
      BY <3>2, <3>5 DEF StakeReverted, Stakes
  <2>4. PICK c \in Configs : StartRun(c) /\ store' = NoRequest
    BY <2>1, <2>2, <2>3, Forgotten
  <2>5. pc = "idle" /\ config' = c /\ ~c.clear
    BY <2>4 DEF StartRun
  <2>. QED
    BY <2>1, <2>4, <2>5 DEF StartRun, Found, Stuck
<1>. QED
  BY <1>1, RunsInductiveInvariant, PTL DEF OpSpec, StakedOrGivenUp

\* A fair script, whose runs nobody interferes with, is one of these.
THEOREM FairScriptIsOne == FairScript => OpSpec
<1>1. [ScriptNext]_opVars => [OpNext]_opVars
  BY DEF OpNext
<1>. QED
  BY <1>1, PTL DEF FairScript, OpSpec
=============================================================================
