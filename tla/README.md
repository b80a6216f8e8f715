# PrimeStaked ETH in TLA+

TLA+ models of the PrimeStaked ETH contracts, of the script that operates their
validators and of the tasks people and OpenZeppelin Defender run on them, checked with TLC
on small instances, and theorems about all of them proved with TLAPS. Source paths below are relative to the repository
(`contracts/`, `script/`).

## 1. The system

Stakers deposit liquid staking tokens (LSTs) or WETH into a pool and get
primeETH. NodeDelegators put the pool's assets to work: one kind deposits LSTs
into EigenLayer strategies, the other stakes ether to SSV validators whose
withdrawal address is an EigenPod. An oracle divides what all assets are worth
by the supply of primeETH; the pool mints and burns at the price it last stored.
A node script, run by OpenZeppelin Defender, creates validators at the P2P
service and stakes to them; two more Defender actions move the pool's assets on. Everything
else is a hardhat task, run in somebody's terminal.

| Component | State it keeps | Operations | What makes it correct |
|---|---|---|---|
| `LRTDepositPool` | its tokens, the NodeDelegator queue with a flag per NodeDelegator and a limit, minimum deposit, pause | deposit; request and claim a withdrawal (as OETH or as ynLSDe); transfer to NodeDelegators; swap; add and remove NodeDelegators; setters | deposits keep the limit; roundings never dilute holders; queue, flags and limit agree; a removal overlooks nothing; a pause stops stakers |
| `NodeDelegatorLST` | its tokens, who each withdrawal root is for, shares pending internal withdrawal, pause | deposit into EigenLayer; stakers' and internal withdrawals, requested and claimed; delegate, undelegate; transfer back | each queued withdrawal is claimed once, by the right party; pending shares match EigenLayer's queue; moving shares keeps the value |
| `NodeDelegatorETH` | ether, WETH, the pod's address, ether staked and not verified, the validators staked, pause | create the pod, stake, register/exit/remove SSV validators, request and claim ether, transfer back | no validator is staked twice; the staked amount is one stake per validator still out there |
| `LRTConfig` | supported assets, limits, strategies | add, update | a strategy is only replaced when it holds nothing |
| `LRTOracle` | the stored primeETH price; feeds | update the price | the stored price stays backed while it is old |
| `PrimeStakedETH` | balances, supply, pause | mint, burn, transfer | only the pool mints and burns |
| `operateValidators` (`script/hardhat-tasks/p2p.js`) | one request in a key-value store, with its state, last transaction and error count | a run: create a validator, register it, stake to it, record each step | a validator is registered before it is staked; nothing is paid twice; every request ends |
| Deposit tasks (`deposits.js`, Defender actions `depositAllEL`, `transferWETH`) | nothing that outlives a run: what it has read, and which of its two transactions is next | read balances, transfer to a NodeDelegator, deposit into EigenLayer; take back; pause | what was read may have moved; whatever the pool has enough of moves on, and does not lie idle |
| Withdrawal and delegation tasks (`withdrawals.js`, `delegation.js`, `withdrawalParser.js`) | nothing but EigenLayer's events, in the receipts of earlier transactions | request, claim one, claim all of a receipt, delegate, undelegate | every withdrawal that waits can be claimed; a loop that ends well has claimed all |
| SSV and validator tasks (`ssv.js`, the test tasks of `p2p.js`, two of `withdrawals.js`) | the cluster a task has read and its transaction names; the file with a key's shares | deposit SSV, exit, remove, register and stake by hand, split a key, move ether | every active validator is run by its operators |
| `ChainlinkPriceOracle` | feed per asset | price, set a feed | a price is the feed's answer |
| EigenLayer, EigenPods, SSV, beacon chain, P2P (external) | shares, withdrawal queue, rates; pod, delayed withdrawals, validators, clusters, nonces | only what the code uses of them | — |
| Other oracle adapters, `PrimeZapper`, roles, deployment and administration | none, or fixed by the deployment | one-off transactions and views | see section 8 |

How they interact. The pool calls the *first* NodeDelegator of its queue for
stakers' requests and claims, and reads the balance of every NodeDelegator of the
queue for totals, limits and the price. A NodeDelegator reads the strategy of an
asset in `LRTConfig` and calls EigenLayer. The price of primeETH is *stored*: it
is read by mint and burn, and old until somebody updates it. The script reads
the contract, sends a transaction, stores its hash, and waits for it.

What is hard. One EigenLayer queue serves stakers and the operator, and two
contracts keep records of it; EigenLayer's operator may undelegate without the
contracts' help and may be slashed; every rounding is at somebody's expense;
claims are sent to whoever is first in the queue a week after the request;
`claimEthWithdrawal` works out from one amount how many validators are in it;
the script may die between any two lines while its transactions are pending; a task
reads, then sends, and is not alone; an SSV transaction names the cluster as it was read,
and a key's shares the nonce as it was when the key was split.
The complete list, with lines, is under `hazards` in `PROJECT.json`.

## 2. The modules

| Module | Models | Extends |
|---|---|---|
| `EigenLayer` | shares, the withdrawal queue with nonces as roots, delegation, rates, the delay (external) | — |
| `LRTConfig` | `contracts/LRTConfig.sol` | `EigenLayer` |
| `Addresses` | `DEAD_ADDRESS`, stakers, amounts | — |
| `NodeDelegatorLST` | `contracts/NodeDelegatorLST.sol` | `LRTConfig`, `Addresses` |
| `PrimeStakedETH`, `LRTOracle` | the token and the price | |
| `NativeNode` | what the pool may rely on of a NodeDelegator of native ether: liquid and staked amounts, and how far a claim may change their sum. Abstract: `NodeDelegatorETH` implements it | — |
| `Redemption` | what a holder of primeETH is promised: a request costs primeETH in the very step that opens a ticket, the ticket is its holder's and paid once, and a freeze stops all that. Abstract: `LRTDepositPool` implements it | — |
| `LRTDepositPool` | `contracts/LRTDepositPool.sol`, composed with all of the above: NodeDelegators of both kinds in one queue | `NodeDelegatorLST`, `PrimeStakedETH`, `LRTOracle`, `NativeNode`; `Redemption` as an instance |
| `EthStaking` | SSV, beacon chain, pod, router (external) | — |
| `NodeDelegatorETH` | `contracts/NodeDelegatorETH.sol` | `EthStaking`; `NativeNode` as an instance |
| `OperateValidators` | `operateValidators` over the contract above, with what the Defender action and the task start it with | `NodeDelegatorETH` |
| `DepositTasks` | `script/hardhat-tasks/deposits.js`, its subtasks and Defender actions, as processes over the pool | `LRTDepositPool` |
| `WithdrawalTasks` | `withdrawals.js`, `delegation.js` and `utils/withdrawalParser.js`, with the receipts | `DepositTasks` |
| `SsvTasks` | the tasks of `ssv.js` and `p2p.js` that act on cluster and validators, beside the script | `OperateValidators` |
| `KeyShares` | `splitValidatorKey` and `getClusterNonce`, beside all of that | `SsvTasks` |
| `ChainlinkPriceOracle` | `contracts/oracles/ChainlinkPriceOracle.sol` with the width of its words | — |
| `NodeDelegatorLST_proofs`, `NodeDelegatorETH_proofs`, `OperateValidators_proofs`, `ChainlinkPriceOracle_proofs` | theorems; the first begins with the laws of sums and of loops over lists | the module they are about, `TLAPS` |
| `LRTDepositPool_proofs` | theorems about all contracts of the pool's side, and the refinement of `Redemption` | `LRTDepositPool`, `NodeDelegatorLST_proofs` |
| `Backing_proofs` | theorems about what all assets are worth | `LRTDepositPool_proofs` |
| `WithdrawalTasks_proofs` | theorems about `DepositTasks` and `WithdrawalTasks` | `WithdrawalTasks`, `LRTDepositPool_proofs` |
| `KeyShares_proofs` | theorems about `SsvTasks` and `KeyShares` | `KeyShares`, `OperateValidators_proofs` |
| `MC*` | instances for TLC | |

In the modules of contracts one action is one transaction, with all the calls it makes; a call that reverts
changes nothing and is not a step. So `require`s, modifiers and the checked
subtractions of Solidity 0.8 are conjuncts. Callers are quantified: any account
that may make a call may make it at any time. Roles are fixed and therefore not
part of the state. Slippage arguments only make a call revert and are at their
laxest. Pausing the pool, the NodeDelegators and primeETH are separate steps.

Correspondence worth knowing:

- A withdrawal *root* is the record `[ndc, strategy, nonce]`, as the hash of a
  withdrawal that includes its nonce is unique. `withdrawals[root]` is EigenLayer's side
  (queued, ready after the delay, completed; shares and scaled shares),
  `withdrawalRequests[ndc][root]` the contract's: `NoStaker` is the zero
  address, `DEAD_ADDRESS` marks a claimed one.
- `rate[strategy]` over `RateUnit` is what a share is worth. `ScalingFactors`
  are what a queued withdrawal's shares are multiplied by: `{1}` while no
  operator was slashed.
- A validator's `stage` and the `exits` of a sweep are *ghosts*: the contract
  sees ether only. `beaconEth` is what was deposited for a public key.
- The script's `pc` is where a run is: idle, in the loop, between creating a
  request at P2P and storing it, or between sending a transaction and storing its
  hash. Several runs' transactions may be pending, and they may be mined in any
  order, as runs may use different accounts.
- The index that `requestWithdrawal` uses for the LST NodeDelegator, 0, is
  `nodeDelegatorQueue[1]`.

- `run[process]` is where a run of a task is: what it read and which transaction is next. A
  task sends one and waits (`logTxDetails`); one that would revert (`~ENABLED`) ends the
  run, as the exception does. Runs of one Defender action follow each other, a terminal runs
  one task at a time, and all of them run beside each other.
- `fresh` has the script's validators and the tasks whose copy of the SSV cluster is the
  network's. Any change of the cluster (`ClusterChanges`) empties it, and a transaction
  of somebody who is not in it reverts. The cluster's content is not modelled.
- `config` is what the current run of the script was started with (`clear`, `stake`).
- `splitting` and `operated` of `KeyShares` are ghosts: a split was made for the next
  registration, and the validators whose operators can use their shares.

An operator marked *Variant* in a module is a plausible wrong version of the
definition below it; no specification uses it. Each property is known to fail
when one of them takes the place of the definition.

## 3. Runs that pass

| Run | What it shows | Instance |
|---|---|---|
| `NodeDelegatorLST` | `PendingMatchesQueue`, `InternalClaimsSucceed`: the sum the contract keeps is the sum of EigenLayer's queue, through every mixture of requests, claims, undelegations and strategy changes. `RequestsBacked`, `RequesterFixed`: a staker's withdrawal stays theirs and payable. `QueueingKeepsValue`, `StrategyChangeKeepsValue`: queueing moves no value, nor does a new strategy while nothing waits internally | one NodeDelegator, two strategies of one asset, one staker, two withdrawals, 3 OETH |
| `Claims` | the same two promises with a slashed operator who undelegates at will, now with the pool, while the head of the queue changes: `ClaimPaysTheRequester` and `ClaimCostsThePoolNothing`. A request recorded by the NodeDelegator that was first then is paid by that one, or by none until it is first again | two stakers with 2 OETH each, a rate that moves from 2/2 to 3/2, scaling factor 2; a second NodeDelegator, which holds nothing, and a queue of one at most |
| `Backing` | `StoredPriceIsBacked`: nothing that callers can do makes primeETH redeem for more than there is, although the price is old. `RoundingFavoursThePool`: each mint and burn rounds against the caller. `MovingAssetsKeepsTotals`: transfers, EigenLayer deposits, undelegations and internal claims change no total, nor does the removal of the NodeDelegator | three assets, prices 2 and 3 (in halves of an ether) that rise, swaps, two withdrawals, NodeDelegator added and removed |
| `Queue` | `QueueMatchesFlags`, and `MovingAssetsKeepsTotals` when NodeDelegators of both kinds come and go while ether is received, staked and claimed: neither a removal nor a claim that brings back the stakes of several validators changes a total | two NodeDelegators of LSTs and one of native ether, lists of one or two, duplicates included, limits 1, 2 and 3, no withdrawals, 4 ether with stakes of 2 |
| `Config` | `DepositsRespectTheLimit`, `PauseFreezesStakers`, and the refinement `ImplementsRedemption`, with the complete next-state relation `Next` | two stakers, two strategies, deposits of 2 with limits 1 and 3 for OETH and 1 for WETH |
| `NodeDelegatorETH` | `DepositedOnce`; `StakedMatchesValidators`: the amount alone tells how many validators left; `ValueFollowsTheEther`; the refinement `ImplementsNativeNode` | two validators, stakes of 16 for 32 ether and 13 for 26, exits with 13, 15 or 16, rewards of 12, two withdrawals waiting |
| `RequestsEnd` | `StakedOrGivenUp`: a registered validator is only forgotten unstaked for a reason. `EachTxOnce`: a run told to clear the store, as the Defender action's always are, sends nothing a second time. The liveness property `RequestsEnd` | two validators, threshold 2, seven transactions, one crash, one error per request's life of a service or the store, at any point of a run; three of the task's four configurations, the action's among them |
| `Deposits` | `TransferredCanBeDeposited`: of runs that moved each other's assets each can still deposit. The liveness properties `PoolIsEmptied` (deaths and pauses included) and `IdleTokensAreDeposited` (without) | one NodeDelegator of each kind, three assets, two Defender actions and a terminal, minimums 2 and 3 around balances of 4 OETH, 2 LST and 2 WETH, one death |
| `Withdrawals` | `EveryWithdrawalIsReachable`, `ClaimsStopForAReason`, `ClaimedWhenDone`: loops and single claims of two terminals, beside stakers' claims, never stop at a withdrawal they could claim, and leave nothing behind | two strategies with 10 each, two withdrawals in one receipt or in two, requests for 10 or for all, nobody dies |
| `SsvTasks` | `ActiveAreRun`: an active validator is registered. `RegisteredAreOperated`: with shares for the right owner and nonce | a validator of P2P's and the test validator, a terminal, three transactions of the script, one crash, three registrations |
| `ChainlinkPriceOracle` | `PriceIsTheAnswer` | words of 8 bits, a price scale of 8, feeds with units 2, 8 and 64, answers at the boundaries of the word, of its quarter and around zero |

Each run also checks the type invariant of its module where listed.

Why the bounds are enough. Two withdrawals are the least for a staker's and an
internal one, or two stakers', to be in the queue together, and for a receipt to have a second one; two strategies for an
asset are what one `updateAssetStrategy` needs; two amounts let a deposit and a
request have different roundings; three NodeDelegators let the swap-and-pop of a
two-element list move an element that is itself removed. The ether scale 16:13 keeps the
ratio 32:26 exactly. The most rewards that gather in a sweep
(`MaxPodRewards`, 12) stay below the slashing boundary 13, and `MaxSlashedPerSweep` is 1:
these two are what the contract's inference rests on (section 5). One crash and
a threshold of 2 let a run die at each line and the error path end a request. Seven
transactions let both validators be registered and staked, and three be sent again. More errors than one are those
of transactions that cannot succeed, which `CallFails` counts without a bound.
Two processes that can move the same asset, and one more, are what a stale balance needs; balances
of one and two deposits lie on both sides of the minimum and on it. Three registrations are a
removal's worth more than there are validators, so that a nonce and a number of validators differ.
Bounds on counters (`MaxWithdrawals`, `MaxTxs`, `MaxCrashes`, `MaxErrors`, `MaxDeaths`,
`MaxDelayed`, `MaxEther`, `MaxOETH`, `MaxNativeEther`, `MaxNonce`) are guards of the environment's steps only, or of the
steps that would append, and are named in the modules. `MaxNativeEther` also bounds what claims bring in, in the composition with the pool only. The runs end with no
successor where these are used up, so none of them looks for deadlocks.

Assumptions of particular runs. Section 5 tells what happens without each.

- `StoredPriceIsBacked`: no feed falls (`RisingPrices`) and rates are exact. With a falling
  feed an old price is of course not backed until it is updated.
- `PendingMatchesQueue`, `InternalClaimsSucceed`, `QueueingKeepsValue`: the EigenLayer operator neither undelegates
  (`NDCNext`, not `AnyOperatorNext`) nor is slashed (`ScalingFactors = {1}`).
- `StakedOrGivenUp`, `EachTxOnce`, `RequestsEnd`: nobody pauses the contract, takes WETH back or changes the SSV cluster
  while a transaction is pending (`ScriptNext`, not `OpNext`).
- `IdleTokensAreDeposited`: no run dies and nobody pauses, which is the premise of the property.
- `EveryWithdrawalIsReachable`, `ClaimsStopForAReason`: no run dies (`MaxDeaths = 0`), the operator gives `claimInternalWithdrawal` a transaction
  that queued one withdrawal only (`SingleClaims`; the task takes any), and all of a receipt may be completed from the same block on, as the
  delay is one number (`DelayElapsesFor`).
- `ActiveAreRun`, `RegisteredAreOperated`: operations are coordinated. While the script registers a
  validator nobody changes the cluster, and its runs are far enough apart that none begins before
  the transactions of the last are mined (`CoordinatedNext`); whoever starts to
  remove validators has seen that they left the beacon chain, as `NodeDelegatorETH.sol:303` asks for (`RemovesExited`); the test
  validator is staked to after it is registered (`StakesRegistered`). The tasks themselves check none of this. Between a split and its registration nothing else is registered
  (`OneSplitOneRegistration`); the operator gives `splitValidatorKey` the owner (`OwnerGiven`).

Fairness. `RequestsEnd`: Defender starts a run whenever none runs (it is a
scheduled action, `README.md:304`), a run that is not killed goes on (`WF` of `RunStep`), P2P goes on with
each validator and every transaction is mined (`WF` of `P2PStep` and `Mine`).
Crashes and errors of services are finite in number and not fair. No fairness is
assumed of the WETH that the pool sends: the property has it as its premise that
the NodeDelegator has 32 ether again and again, as the first thing a run does is
to return without them. `PoolIsEmptied` and `IdleTokensAreDeposited`: the two Defender actions are started again
and again and go on (`WF` of `DefenderStep`), a terminal's run goes on once started. Nobody has to deposit,
to unpause, or to run a task by hand.

## 4. The run that shows a disagreement

`ConfirmedMeansDone`: a transaction that reverts has a receipt, and a receipt is all
`waitForTransactionAndUpdateStateOnSuccess` (`p2p.js:306-313`) needs. With a pause between sending and
mining, or an SSV deposit that changes the cluster the transaction names, a
validator is recorded as registered that is not (`p2p.js:179` says "the register transaction has been confirmed"), and the next step stakes to it.

## 5. Limits of the code that the models make visible

Met while modelling; each is an assumption of a run above. The change in
brackets makes TLC show it.

- *Forced undelegation.* When the EigenLayer operator undelegates the NodeDelegator, EigenLayer queues
  its shares and nobody adds them to `pendingInternalShareWithdrawals`: `claimInternalWithdrawal` reverts on the
  subtraction and the price has lost the shares. [`SPECIFICATION MCAnyOperator` in `NodeDelegatorLST.cfg`: `InternalClaimsSucceed`]
- *Strategy change.* `updateAssetStrategy` asks EigenLayer for deposited shares; with an internal withdrawal pending it lets the
  strategy be replaced, and `getAssetBalance` looks for the pending shares under the new one.
  [`StrategyChangeKeepsValue` without `PendsNothing`]
- *Head of the queue.* A NodeDelegator with nothing but stakers' pending withdrawals holds no asset and may be removed from
  the queue; the pool then sends the claims to another one, which has no such request, and they revert
  until it is first again; the run `Claims` has that happen. [an invariant that each `withdrawalRequests[n]` with a staker has `n = LstNdc`, in `Claims.cfg`]
- *Scaled shares.* Requests add deposit shares to the pending total, claims
  subtract `scaledShares`. With a factor other than 1 the two differ.
  [`ScalingFactors = {1, 2}` in `NodeDelegatorLST.cfg`: `PendingMatchesQueue`]
- *Two slashed exits in one sweep.* 26 + 26 ether are taken for one full exit and
  20 ether of rewards. [`MaxSlashedPerSweep = 2` in `NodeDelegatorETH.cfg`]
- *createEigenPod* has to precede the first `stakeEth`: EigenLayer creates the
  pod otherwise, and the contract never learns its address.
- *Less than 32 ether.* A run returns before it looks at the error count, so a
  request is kept as long as the ether is missing; the comment at
  `p2p.js:24-26` has it marked as failed. [`RequestsEnd` without its premise, with `OpSpec /\ Fairness`]
- *Error count.* `updateState` rewrites the record without it: only consecutive
  errors are counted, and `p2p.js:10-11` speaks of all errors of a request.
- *The Defender action clears the store.* It passes `clear: true` (`operateValidators.js:58`), so each run discards
  the request of the one before: a run that dies after it sent the registration leaves a validator that is paid
  for and that no run stakes to. [`StakedOrGivenUp` without the disjunct about `clear`]
- *Overlapping runs.* A run that clears the store while the last one's registration is pending does not know of it;
  that is why `SettledNext` keeps runs apart, in the theorem too.
- *Stale cluster.* The cluster is fixed when P2P answers: any SSV deposit or removal mined before the registration makes it
  revert, its receipt is taken for a confirmation, and the validator is staked without operators.
  [`CoordinatedNext` without its conjunct on `Registering`: `ActiveAreRun`]
- *Between transfer and deposit.* A run that dies there, or finds the NodeDelegator paused, leaves LSTs in the NodeDelegator. The next runs look at the
  pool's balance only (`deposits.js:59`) and do not deposit them, unless new ones arrive. [`IdleTokensAreDeposited` without its premise]
- *Default index.* `depositEL` takes index 1, the native NodeDelegator, unless told otherwise (`tasks.js:198`), whatever the symbol: an LST
  is sent there and cannot be deposited. [`DepositELArgs` with `[symbol |-> LST, index |-> 1]`: `TransferredCanBeDeposited`]
- *Claim loop.* `claimInternalWithdrawals` starts with the first withdrawal each time and stops at the first that is refused: after a run that died half way
  the tasks reach none of the rest. [`MaxDeaths = 1` in `Withdrawals.cfg`] So they do after `claimInternalWithdrawal` has claimed the first
  withdrawal of a receipt of several. [`DeployedSpec` without `SingleClaims`]
- *Default owner.* `splitValidatorKey` without an owner makes the shares for the NodeDelegator of LSTs (`tasks.js:301`),
  which registers nothing. [`OwnerArgs = {NoArgument}` in `SsvTasks.cfg`: `RegisteredAreOperated`]

## 6. What is proved

Each theorem below names the property that a run of section 3 checks on a small instance; it holds for
every value of the constants that satisfies the modules' assumptions, which TLC evaluates in every run.
Where a theorem has a hypothesis of its own, it is given with the reason why it is needed.

**Sums and loops** (the beginning of `NodeDelegatorLST_proofs`). Totals are `SumFunctionOnSet`, and the loops over lists of
NodeDelegators are `FoldLeft`: both are recursive, and the library's induction theorems cannot be
instantiated by the provers. The proofs get induction without them: of a property of finite sets one takes
*the set of sets that have it*, and the order of the natural numbers is well-founded
(`LeastNat`, `NatSetInduction`, `SetInduction`). From that follow the laws of sums: one element taken out,
one changed, two functions added, elements renamed, a larger set (`SumRemove`, `SumChange`, `SumPlus`, `SumOfNamed`,
`SumOfMore`), and that `FoldLeft` is its last step after the ones before (`FoldsExist`).

**`NodeDelegatorLST_proofs`**, for any finite or infinite sets of NodeDelegators, strategies, stakers and assets
(`DEAD_ADDRESS` and the zero address are no stakers):

- `InductiveInvariant`: `AnyOperatorSpec => []IInv`;
- `TypeCorrect`: `AnyOperatorSpec => []NDCTypeOK`, so no balance, share or pending count goes below zero;
- `RequestsAlwaysBacked`: `AnyOperatorSpec => []RequestsBacked`;
- `RequestersNeverChange`: `AnyOperatorSpec => RequesterFixed`;
- `QueueingMovesNoValue`: `NDCSpec => QueueingKeepsValue`;
- `PendingSharesAreTheQueue`: `NDCSpec => []PendingMatchesQueue`, with `Unslashed` and `RatesRise`;
- `NoInternalClaimIsStuck`: `NDCSpec => []InternalClaimsSucceed`, with `Unslashed` and `RatesRise`;
- `NewStrategiesMoveNoValue`: `NDCSpec => StrategyChangeKeepsValue`, with `RatesRise`.

`RequestsBacked` is not inductive: a call that queues a withdrawal writes the record of a *new* root, and nothing
in `RequestsBacked` says that this record, or EigenLayer's, was empty. `IInv` is

    NDCTypeOK /\ RequestsBacked /\ FreshRoots /\ RecordsAreLocal

where `FreshRoots` says that no root whose nonce is the NodeDelegator's next nonce or higher was ever queued, or
recorded anywhere, and `RecordsAreLocal` that a NodeDelegator only has records of its own roots. The steps are sorted
by what they do to the records: those that change none (`SameRecords`, `DelayRecords`), those that queue (a fresh root,
so no old record is disturbed), and those that complete (the root is `Pending` before and not after; for a staker's
claim the record becomes `DEAD_ADDRESS` in the same step, and an internal claim needs the record to be empty).
`RequesterFixed` follows from the same case split. `QueueingKeepsValue` is the lemma that in every such step the sum of
deposited and pending shares of the asset's strategy, `Counted`, is unchanged.

That the pending counter is the sum of the internal queue is a lemma for each thing that can happen to
a queue (`QueueStays`, `QueueGrows`, and an element that is claimed), with one difficulty: an undelegation queues the shares of *all*
strategies but adds to the counter those of the strategies assets are deposited into now. So the invariant needs `DepositsInUse`: no
other strategy has shares. This is where `RatesRise` (`\A r \in Rates : r >= RateUnit`) comes from:
`updateAssetStrategy` asks that the old strategy be *worth* nothing, not that it hold no share. At a rate below one
a single share is worth nothing after the division, stays behind, and is queued uncounted by a later `undelegate`: TLC finds that with
`RateUnit = 2` and `Rates = {1, 2}`. `Unslashed` (`ScalingFactors = {1}`) and `NDCSpec`, where EigenLayer's operator does not
undelegate on its own, are the two limits of section 5.

**`NodeDelegatorETH_proofs`**, for any sets of validators, lists of them, balances they exit with and rewards:

- `EthInductiveInvariant`: `NDCEthSpec => []EthIInv`;
- `EthTypeCorrect`: `NDCEthSpec => []NDCEthTypeOK`;
- `NeverDepositedTwice`: `NDCEthSpec => []DepositedOnce`;
- `NativeNodeImplemented`: `NDCEthSpec => ImplementsNativeNode`;
- `StakedIsCounted`: `NDCEthSpec => []StakedMatchesValidators`, with `SweepsAreClear`;
- `WorthFollowsTheEther`: `NDCEthSpec => ValueFollowsTheEther`, with `SweepsAreClear`.

`DepositedOnce` relates the validators' flags with the beacon chain's deposits *and* with the stage of their stake. A
claim sets the stage of every validator swept into it, and nothing in `DepositedOnce` says that those were staked; so
`EthIInv` adds `ExitsWereStaked`, for the pod and for each withdrawal that waits in the router. The step that matters is
`StakeEth`: a list of distinct validators deposits once for each (`OneDepositEach`), and their flags were not set.

`NativeNodeImplemented` maps what the contract holds, ether counting as WETH, to `nativeLiquid` and
`stakedButNotVerifiedEth` to `nativeStaked`: the initial states agree, deposits and transfers back are the abstract
ones, a stake moves 32 ether for each validator of the list, and what a claim takes off the staked amount differs from
what it brings by less than `claimEthWithdrawal`'s two branches can leave (the remainder of a division by 32 ether,
below or from 26 ether on). Everything else is a stutter. So what is shown of the pool with `NativeNode` holds of
it with the contract.

`SweepsAreClear` is what the inference of `claimEthWithdrawal` rests on: a validator exits with 26 to 32 ether, rewards
in a sweep stay below 26, and at most one exit of a sweep was slashed. Then a sweep with `k` exits holds more than
`32k - 6` and less than `32k + 26` ether. `ExitedWithin` says that the claim's own count is a multiple of 32 in the same
window, which is 32 wide, and a window that wide has room for one multiple only (`OneMultiple`), so the two counts agree.
The invariant `StakedIInv` adds that every sweep that waits is of that kind (`SweepsOK`) and that no validator is in two
of them (`ExitsWaitOnce`), without which the cardinalities would not add up.

**`LRTDepositPool_proofs`**, for the pool with all it is composed with, any NodeDelegators of both kinds, finite sets of
assets and stakers, with `Spec`, in which everybody may do everything, the EigenLayer operator included:

- `PoolInductiveInvariant`, `QueueInductiveInvariant`, `SystemInductiveInvariant`: `Spec => []PoolIInv`, `[]QueueIInv`, `[]SystemIInv`;
- `SystemTypeCorrect`: `Spec => []TypeOK`;
- `QueueAlwaysMatches`: `Spec => []QueueMatchesFlags`;
- `PoolRequestsBacked`, `PoolRequestersNeverChange`: `Spec => []RequestsBacked`, `Spec => RequesterFixed`;
- `ClaimsPayTheRequester`, `ClaimsCostNothing`: `Spec => ClaimPaysTheRequester`, `Spec => ClaimCostsThePoolNothing`;
- `PauseStopsStakers`: `Spec => PauseFreezesStakers`;
- `DepositsStayWithinLimits`: `Spec => DepositsRespectTheLimit`;
- `RedemptionImplemented`: `Spec => ImplementsRedemption`;
- `RoundingIsThePools`, `SharesNeverGain`: the three truncations of a deposit and a request, for all prices, rates and amounts.

`PoolIInv` is `IInv` of the NodeDelegators and the types of what pool and stakers hold. The lemmas on the
NodeDelegator's calls are used again: the pool makes them with amounts it has converted, for the first NodeDelegator of
the queue, and the assets may be reconfigured in between (`ConfigIInv`). The other properties follow from one fact,
`OnlyStakerCalls`: whatever changes the supply, a record or a payment is a staker's deposit, request or claim, which a
paused pool refuses. `ClaimedByClaim` sharpens it: a record that turns `DEAD_ADDRESS` does so in a claim of its own
staker and root. That a claim changes no total needs no law of sums: it changes nothing that the sums are made of.

`QueueMatchesFlags` is about two loops over a list an admin gives: adding pushes what has no flag yet, removing
finds each in the queue, moves the last one into its place and pops. One turn of each loop keeps the agreement of queue, flags and limit;
that all of them do, for lists of any length and with duplicates, is the fold law (`FoldsExist`).
`SystemIInv` adds the supply, which is the sum of all balances (without it, `totalSupply` could be below what is burnt),
the native NodeDelegators' types and the price, which is a natural number because the sum of natural numbers over the assets is.

`RedemptionImplemented`: the pool's primeETH balances and its pause are the abstract ones, and the ticket of a root is the record its own
NodeDelegator has of it: `RequestsBacked` says that a claim, sent to whoever is first in the queue, can only find it
there. That a request opens an unused ticket is the check of `withdrawalRequests` for the next root; that it costs
something is the `+ 1` of `BurnAmount`, which is positive if the stored price is a natural number: that is a part of `SystemIInv`.

**`Backing_proofs`**, about what everything together is worth:

- `RoundingAlwaysFavoursThePool`: `Spec => RoundingFavoursThePool`;
- `SteadyInductiveInvariant`: `SteadySpec => []SteadyIInv`, with `Unslashed` and `RatesStandStill`;
- `MovingNeverChangesTotals`: `SteadySpec => MovingAssetsKeepsTotals`, with the same;
- `StoredPriceStaysBacked`: `SteadySpec /\ [][~EtherLost]_vars => []StoredPriceIsBacked`, with `PricesRise` besides.

The first has no hypothesis. A deposit changes the total of one asset by its amount, and one asset's change moves
the value of all by that times its price (`OneAssetChanges`). A request is the hard one: the total loses the difference of two
truncated conversions, which may be one more than what the shares that leave convert to, but never more than the
amount asked for; and the `+ 1` of `requestWithdrawal` makes the primeETH burnt worth more than that. It needs `OwnStrategies`: an asset's strategy is one of that asset, which `updateAssetStrategy` keeps.

The others need to know *where assets are*. `getTotalAssetDeposits` looks at NodeDelegators of the queue, at supported
assets and at the strategies these are deposited into; `HoldingsOK` says that nothing is anywhere else, so that a transfer
does not carry anything out of sight, and a NodeDelegator that is removed had nothing (`RemovableWorth`). With it each step is
looked at for what it does to holdings and totals (`MovesOnly`); only deposits, requests and swaps trade (`Trades`). The
totals are turned from sums over the queue into sums over the set of flagged NodeDelegators (`TotalsAreOverNodes`), which is where
`QueueMatchesFlags` is needed: a NodeDelegator twice in the queue would be counted twice.

`MovingAssetsKeepsTotals` leaves out the steps by which assets enter or leave the protocol: deposits, requests, swaps, donations, and of
the claims of ether those that bring something else than whole stakes (`EtherArrives`): rewards, or what is left of a
slashed stake, do change the total. A claim of whole stakes is not left out: what it brings and what it takes off the staked amount differ
by less than a stake (the promise of `NativeNode`), and both are multiples of a stake, so they are equal (`CloseMultiples`, `WholeStakesAreExits`).

Hypotheses of `SteadySpec`, all of them of the `Backing` run too, where they are narrower (`QueueSpec`: nobody reconfigures assets):
rates stand still at one share for one token (`RatesStandStill`), as with any other rate a deposit into EigenLayer
is worth a truncation less than the tokens; nobody is slashed; EigenLayer's operator does not undelegate on its own; a
strategy is only replaced while no shares wait for an internal withdrawal (section 5); and WETH is supported
at first, as deployed. `PricesRise` and `~EtherLost` (no validator loses its stake) are what the stored price itself needs: a price that falls, or ether that burns,
leaves an old price too high until somebody updates it.

The stored price is then backed by induction over the four ways the two sides can move: a deposit or request (the first
theorem), a swap (it returns no more than it receives is worth), a step that only moves assets at prices that do not fall
(`ValueGrows`), and `updatePrimeETHPrice`, whose quotient times the supply is at most what was divided (`UpdatedIsBacked`).

**`OperateValidators_proofs`**, for any validators, configurations, thresholds and numbers of transactions:

- `NeverStakedUnregistered`: `SettledScript => []ActiveAreRun`;
- `RunsInductiveInvariant`: `OpSpec => []RunsIInv`;
- `ScriptTypeCorrect`, `RunsDepositOnce`: `OpSpec => []OpTypeOK`, `OpSpec => []DepositedOnce`;
- `NothingIsSentTwice`: `OpSpec => EachTxOnce`;
- `RegisteredAreStakedOrGivenUp`: `OpSpec => StakedOrGivenUp`;
- `FairScriptIsOne`: `FairScript => OpSpec`, so all of these hold of the specification the run checks.

The script decides by what it has stored, not by what the SSV network says, and by receipts, not by their status. For
the first theorem the invariant `OpIInv` follows the registration through the four places it leaves a trace: a stake
transaction is only sent for a registered validator, and a register transaction that was mined *or reverted* left its
validator registered (`TxsFollowRegistration`); a request that waits names its own register transaction, and is for a
registered validator once it has waited (`RequestSound`); between sending and storing, the last transaction is the
request's (`RunSound`); and at most one registration is pending, which names a cluster that is not out of date, and
which a run that goes on is waiting for (`PendingSound`). That a reverted registration leaves the validator registered
is where `~ethPaused`, and the distance between runs, are needed. With a pause or a change of the cluster in between the
script takes the receipt of a failed registration for a confirmation; `ConfirmedMeansDone` shows that.

The others hold in `OpSpec`, where runs may overlap, the contract may be paused, its WETH taken back and the cluster changed.
`RunsIInv` follows the transactions instead: they are only ever sent for validators P2P has created (`CreatedFirst`),
and a run asks P2P for one that it never created before, so a run that forgot what it found has sent nothing of its request that the request's state
does not tell (`OnceSound`); a request past its deposit names its stake transaction (`StoreOK`), and a stake that was mined is
flagged in the contract (`MinedStakesFlagged`).

**`WithdrawalTasks_proofs`**, for any number of people in terminals and runs beside each other, any lists of tokens, and
receipts of any length. The runs' specifications fix how the contracts are deployed, and add fairness: they imply these.

- `RunsInductiveInvariant`: `TasksSpec => []RunsIInv`;
- `RunTypeCorrect`: `TasksSpec => []RunTypeOK`;
- `TasksRefinePool`: `TasksSpec => Spec`, with `Amounts = Nat`;
- `TransfersPassTheChecks`: `TasksSpec /\ AllSupported => []TransfersPass`, with `MatchingArguments`;
- `WithdrawalsInductiveInvariant`: `WithdrawalTasksSpec => []WithdrawalsIInv`;
- `RequestsBackedBesideTasks`: `WithdrawalTasksSpec => []RequestsBacked`;
- `ClaimsAllOfTheReceipt`: `WithdrawalTasksSpec => ClaimedWhenDone`;
- `WithdrawalsStayReachable`: `WithdrawalTasksSpec /\ [][SingleClaims]_withdrawalTaskVars /\ ClaimsStopForAReason => []EveryWithdrawalIsReachable`;
- `ClaimsAreCounted`: `WithdrawalTasksSpec => [](PendingMatchesQueue /\ InternalClaimsSucceed)`, with `Unslashed`;
- `RunsStopForAReason`: `WithdrawalTasksSpec /\ [][StopsWhenRefused]_vars => ClaimsStopForAReason`, with `Unslashed`.

A run sends amounts it read before, which may be any by then; so the first step is that the contracts' `SystemIInv`
survives transfers of *any* amount (`AssetTransferred`, `SentBack`). With that, `RunsIInv` adds only what a run is at each of its steps
(`DepositRuns`: one that moves an asset knows which). The refinement says that the tasks send transactions of `LRTDepositPool` and nothing
else, so that all that is proved of `Spec` holds beside the tasks. Its hypothesis is no restriction of theirs: `Amounts` bounds
what callers of the pool try, and a balance that was read may be any number.

`TransferredCanBeDeposited` is stated with `ENABLED`. What `NodeDeposits` checks is spelled out in `PassesTheChecks`, and
`NothingElseIsChecked` shows that, but for the pause, only assignments are left of it. `MatchingRuns` is what a run needs for that: at its
second transaction it is one for the LST NodeDelegator, and moves no WETH. `MatchingArguments` and `AllSupported` are the
assumptions of the run `Deposits` as well: commands name the NodeDelegator of the asset (*default index*, section 5), and the assets are
supported and have their strategies. In this composition nobody reconfigures assets and no rate moves.

`ClaimedWhenDone` needs to know of a claiming run what it has done: `ClaimedSoFar` says that what it has left is the end of its
receipt, and that all before that is completed. Others claim beside it, which completes more (`ClaimedStay`); so when the
last claim is mined, everything is. `ReceiptsOK` has the receipts' side of it: their withdrawals have been queued, none is in two receipts,
and the delay of one receipt's withdrawals ends together. Each step is sorted by what it does to the withdrawals
(`Moves`: a set of fresh roots is queued, one is completed, or a delay passes) and to the runs (`RunsMove`).

`EveryWithdrawalIsReachable` is not inductive at all: nothing in it says where in the receipt the runs are, or that what is claimed out of order was
not an operator's to claim. `ReachIInv` says of each receipt that its withdrawals are distinct (`Distinct`), that they are a staker's one or the operator's all
(`Alike`), and of each that waits that all from the receipt's beginning, *or from the next claim of a run that is under way*, up to it is pending (`InReach`).
`Owned` tells whose withdrawals a step touches, which is why a staker's claim opens no gap in an operator's receipt, and a single
claim none at all, as by `SingleClaims` it is for a receipt of one. Two runs of one receipt are the case that matters: the one behind is
refused where the other has been, and it is the other that goes on. That needs the hypothesis `ClaimsStopForAReason`: a run that dies half way, or is
refused a withdrawal it could have claimed, does leave a gap.

When a claim is refused is `ENABLED` again. `ClaimPasses` spells out what `claimInternalWithdrawal` and EigenLayer check, and
`ClaimChecksNothingElse` shows that only assignments are left. `StopsWhenRefused` is the hypothesis in those words: a claiming run
that ends half way has failed a check, so it did not die. `RunsStopForAReason` concludes that the failed check is the delay, another's claim, or
a staker's withdrawal, and none of the others: what waits is of the NodeDelegator that the tasks name (`WaitingOurs`), and the sum the contract has counted covers it. The latter is
`PendingMatchesQueue`, which `NodeDelegatorLST_proofs` has for the contract alone; beside the tasks it needs `DepositsInUse` with it,
as there, and that a delay leaves the queue's shares (`DelayCounts`): `CountsIInv` is their conjunction with `WithdrawalsIInv`. The run
`Withdrawals` checks `ClaimsStopForAReason` with `ENABLED` itself, and fails when `undelegate` does not count what it queues.

**`KeyShares_proofs`**, for the script beside any number of terminals, with any validators, transactions and key splits:

- `ActiveAreRunBesideTasks`, `DepositedOnceBesideTasks`: `KeySharesSpec => []ActiveAreRun`, `KeySharesSpec => []DepositedOnce`;
- `RegisteredHaveOperators`: `KeySharesSpec => []RegisteredAreOperated`, with `OwnerArgs \subseteq {NODE_DELEGATOR_NATIVE_STAKING}`.

`KeySharesSpec` is the specification of the run `SsvTasks`: operations are coordinated as section 3 says. The invariant is that of the script and of the
contract, which the tasks must not disturb: a task that changes the cluster finds no register transaction waiting (`NoneWaits`), so none reverts by it, and a
task that removes validators, which it has chosen some steps before, names only such as had left then, by the operators' rule `RemovesExited`, and cannot come back (`TasksSound`, `Left`). The second invariant,
`SharesIInv`, adds that the shares which wait are for the nonce that the NodeDelegator has now. The nonce grows with each
registration and not with the number of validators, so a removal does not disturb it; a transaction registers at most one
validator (`OneRegistered`), so it uses the shares up exactly. The hypothesis is the *default owner* of section 5.

**`ChainlinkPriceOracle_proofs`**:

- `PricesAreAnswers`: `ChainlinkSpec => []PriceIsTheAnswer`, for words and scales of any size. A negative answer,
  cast, is at least half a word, and half a word times a scale of 2 or more does not fit (`NegativeOverflows`);
  truncated division is less than one below the quotient (`Truncated`).

**Only model-checked.** The liveness properties (`RequestsEnd`, `PoolIsEmptied`, `IdleTokensAreDeposited`), and what is stated with
`ENABLED`, are beyond the provers: `TransferredCanBeDeposited`, of which the checks are proved to pass (`TransfersPassTheChecks`); and of
`ClaimsStopForAReason`, which is proved, that a run stops only at a failed check (`StopsWhenRefused`). `ConfirmedMeansDone` is violated. All other properties the runs
check are stated by a theorem; where that has a hypothesis, the run is an instance that satisfies it.

## 7. Plan

Done: contracts of both sides and their composition, the validator script, the tasks that change
state, the Chainlink adapter, two abstract specifications with their refinements, and the proofs above. Left, in this order:

1. The tasks over both sides at once: `transferWETH` feeding `operateValidators`.
2. `Redemption` with what a ticket is worth: the shares, and how a rate or a slashing changes them.

## 8. Not modelled

- Amounts are small integers; 256-bit overflow is not reachable with real supplies and reverts. The
  exception is `ChainlinkPriceOracle`, where a cast depends on it.
- Allowances, `optIn`, `maxApprove*`, and the movements of SSV tokens (`approveSSV`, `claimSSV`, `withdrawSSV`): nothing else reads them.
- Proofs of withdrawal credentials and the later life of an activated pod: the contract uses neither.
- The other oracle adapters: each returns a constant, or a number of another contract unchanged. The age
  of a Chainlink answer: no document says how old one may be.
- `PrimeZapper`: it wraps ether and deposits it, in one transaction and keeping nothing. To the pool it is one more staker.
- `getClusterInfo` as a command (it prints), `weth.js`, views for display, the scripts for deployment, upgrades, roles and
  administration, and who signs: an action is a call by an account that may make it.
- The delay router's second claim function that takes a recipient: who may call it is decided by code that
  is not in the repository.

## 9. Running

    tlc -config NodeDelegatorLST.cfg MCNodeDelegatorLST.tla
    tlc -config Claims.cfg MCLRTDepositPool.tla           # Backing, Queue, Config
    tlc -config NodeDelegatorETH.cfg MCNodeDelegatorETH.tla
    tlc -config RequestsEnd.cfg MCOperateValidators.tla   # ConfirmedMeansDone
    tlc -config Deposits.cfg MCDepositTasks.tla
    tlc -config Withdrawals.cfg MCWithdrawalTasks.tla
    tlc -config SsvTasks.cfg MCSsvTasks.tla
    tlc -config ChainlinkPriceOracle.cfg MCChainlinkPriceOracle.tla
    tlapm NodeDelegatorLST_proofs.tla   # and the other *_proofs modules

Each passing run takes between a second and three minutes.
