-------------------------- MODULE NodeDelegatorLST --------------------------
(***************************************************************************)
(* contracts/NodeDelegatorLST.sol: the contracts that hold the pool's      *)
(* liquid staking tokens, deposit them into EigenLayer and withdraw them,  *)
(* either for a staker who redeems primeETH (external withdrawals) or to   *)
(* move assets back to the deposit pool (internal withdrawals).            *)
(*                                                                         *)
(* An operator below is one external function, for the NodeDelegator n it  *)
(* is called on, and stands for the whole transaction: the calls it makes  *)
(* into EigenLayer are conjuncts of it.  A call that reverts changes no    *)
(* state, so only successful calls are steps.                              *)
(***************************************************************************)
EXTENDS LRTConfig, Addresses, FiniteSetsExt

CONSTANT DUST_AMOUNT

ASSUME NDCAssumption == DUST_AMOUNT \in Nat

VARIABLES
  ndcBalance,                       \* [ndc -> [asset -> tokens it holds]]
  withdrawalRequests,               \* [ndc -> [root -> staker]]
  pendingInternalShareWithdrawals,  \* [ndc -> [strategy -> shares]]
  ndcPaused                         \* the paused NDCs

ndcVars ==
  <<ndcBalance, withdrawalRequests, pendingInternalShareWithdrawals, ndcPaused>>

NDCInit ==
  /\ ELInit
  /\ supportedAssets \in SUBSET Assets
  /\ depositLimitByAsset \in [Assets -> Limits]
  /\ assetStrategy \in [Assets -> Strategies \cup {NoStrategy}]
  /\ assetStrategy[WETH] = NoStrategy
  /\ \A a \in Assets : assetStrategy[a] # NoStrategy => Underlying[assetStrategy[a]] = a
  /\ ndcBalance = [n \in NDCs |-> [a \in Assets |-> 0]]
  /\ withdrawalRequests = [n \in NDCs |-> [r \in Roots |-> NoStaker]]
  /\ pendingInternalShareWithdrawals = [n \in NDCs |-> [s \in Strategies |-> 0]]
  /\ ndcPaused = {}

-----------------------------------------------------------------------------
(* Views *)

NDCAssets(n, asset) == ndcBalance[n][asset]

\* Variant: the shares waiting in the queue are not counted.
DepositedEigenAssets(n, asset) ==
  IF asset = WETH \/ assetStrategy[asset] = NoStrategy THEN 0
  ELSE SharesToUnderlying(assetStrategy[asset], depositShares[n][assetStrategy[asset]])

\* What n's shares of the asset's strategy are worth, those pending internal
\* withdrawal included.
EigenAssets(n, asset) ==
  IF asset = WETH \/ assetStrategy[asset] = NoStrategy THEN 0
  ELSE LET s == assetStrategy[asset]
       IN SharesToUnderlying(s, depositShares[n][s] + pendingInternalShareWithdrawals[n][s])

GetAssetBalance(n, asset) == NDCAssets(n, asset) + EigenAssets(n, asset)

-----------------------------------------------------------------------------
(* Tokens moving in and out of n *)

\* Tokens reach n: the deposit pool (or anyone) transfers them.
ReceiveTokens(n, amounts) ==
  /\ ndcBalance' = [ndcBalance EXCEPT ![n] = [a \in Assets |-> @[a] + amounts[a]]]
  /\ UNCHANGED <<configVars, elVars, withdrawalRequests, pendingInternalShareWithdrawals, ndcPaused>>

\* depositAssetsIntoStrategy, and depositAssetIntoStrategy for one asset: all
\* of n's balance of each asset, unless it is dust.
DepositAssetsIntoStrategy(n, assets) ==
  LET deposited == {a \in assets : ndcBalance[n][a] > DUST_AMOUNT} IN
  /\ n \notin ndcPaused
  /\ assets \subseteq supportedAssets \ {WETH}
  /\ \A a \in assets : assetStrategy[a] # NoStrategy
  /\ \A a \in deposited : Underlying[assetStrategy[a]] = a
  /\ DepositIntoStrategy(n, [s \in Strategies |->
       LET a == Underlying[s]
       IN IF a \in deposited /\ assetStrategy[a] = s THEN ndcBalance[n][a] ELSE 0])
  /\ ndcBalance' = [ndcBalance EXCEPT ![n] =
       [a \in Assets |-> IF a \in deposited THEN 0 ELSE @[a]]]
  /\ UNCHANGED <<configVars, withdrawalRequests, pendingInternalShareWithdrawals, ndcPaused>>

\* Variant: sends back what n is worth, not what it holds.
TransferBackWorth(n, asset, amount) ==
  /\ n \notin ndcPaused
  /\ asset \in supportedAssets
  /\ amount <= GetAssetBalance(n, asset)
  /\ ndcBalance' = [ndcBalance EXCEPT ![n][asset] = @ - amount]
  /\ UNCHANGED <<configVars, elVars, withdrawalRequests, pendingInternalShareWithdrawals, ndcPaused>>

TransferBackToLRTDepositPool(n, asset, amount) ==
  /\ n \notin ndcPaused
  /\ asset \in supportedAssets
  /\ amount <= ndcBalance[n][asset]
  /\ ndcBalance' = [ndcBalance EXCEPT ![n][asset] = @ - amount]
  /\ UNCHANGED <<configVars, elVars, withdrawalRequests, pendingInternalShareWithdrawals, ndcPaused>>

-----------------------------------------------------------------------------
(* Delegation *)

NDCDelegateTo(n) == DelegateTo(n) /\ UNCHANGED <<configVars, ndcVars>>

\* The strategies undelegate adds to the pending shares: those the supported
\* assets are deposited into at the moment.
UndelegatedStrategies == {assetStrategy[a] : a \in supportedAssets \ {WETH}}

\* Variant: the shares EigenLayer queues are not added to the pending ones.
UndelegateUncounted(n) == UndelegateStaker(n) /\ UNCHANGED <<configVars, ndcVars>>

Undelegate(n) ==
  /\ pendingInternalShareWithdrawals' = [pendingInternalShareWithdrawals EXCEPT ![n] =
       [s \in Strategies |->
          IF s \in UndelegatedStrategies THEN @[s] + depositShares[n][s] ELSE @[s]]]
  /\ UndelegateStaker(n)
  /\ UNCHANGED <<configVars, ndcBalance, withdrawalRequests, ndcPaused>>

\* IDelegationManager.undelegate may also be called by the operator n is
\* delegated to: n is not told.
OperatorUndelegates(n) ==
  /\ UndelegateStaker(n)
  /\ UNCHANGED <<configVars, ndcVars>>

NDCPause(n) ==
  /\ n \notin ndcPaused
  /\ ndcPaused' = ndcPaused \cup {n}
  /\ UNCHANGED <<configVars, elVars, ndcBalance, withdrawalRequests, pendingInternalShareWithdrawals>>

NDCUnpause(n) ==
  /\ n \in ndcPaused
  /\ ndcPaused' = ndcPaused \ {n}
  /\ UNCHANGED <<configVars, elVars, ndcBalance, withdrawalRequests, pendingInternalShareWithdrawals>>

-----------------------------------------------------------------------------
(* Withdrawals *)

\* onlyDepositPool: a staker withdraws through LRTDepositPool.requestWithdrawal.
NDCRequestWithdrawal(n, s, shares, staker) ==
  /\ n \notin ndcPaused
  /\ QueueWithdrawals(n, s, shares)
  /\ withdrawalRequests[n][NextRoot(n, s)] = NoStaker
  /\ withdrawalRequests' = [withdrawalRequests EXCEPT ![n][NextRoot(n, s)] = staker]
  /\ UNCHANGED <<configVars, ndcBalance, pendingInternalShareWithdrawals, ndcPaused>>

\* Variant: the requested shares are not added to the pending ones.
RequestInternalUncounted(n, s, shares) ==
  QueueWithdrawals(n, s, shares) /\ UNCHANGED <<configVars, ndcVars>>

\* Only the operator; not stopped by a pause.
RequestInternalWithdrawal(n, s, shares) ==
  /\ QueueWithdrawals(n, s, shares)
  /\ pendingInternalShareWithdrawals' =
       [pendingInternalShareWithdrawals EXCEPT ![n][s] = @ + shares]
  /\ UNCHANGED <<configVars, ndcBalance, withdrawalRequests, ndcPaused>>

\* Variant: the claimed root keeps its staker.
ClaimUnmarked(n, r, staker) ==
  /\ n \notin ndcPaused
  /\ withdrawalRequests[n][r] = staker
  /\ CompleteQueuedWithdrawal(n, r)
  /\ UNCHANGED <<configVars, ndcVars>>

\* Variant: any root not yet claimed will do, whoever requested it.
ClaimAnyones(n, r, staker) ==
  /\ n \notin ndcPaused
  /\ withdrawalRequests[n][r] # DEAD_ADDRESS
  /\ withdrawalRequests' = [withdrawalRequests EXCEPT ![n][r] = DEAD_ADDRESS]
  /\ CompleteQueuedWithdrawal(n, r)
  /\ UNCHANGED <<configVars, ndcBalance, pendingInternalShareWithdrawals, ndcPaused>>

\* onlyDepositPool: completes the withdrawal and passes on CompletedUnderlying(r)
\* tokens to the receiver the pool names.
NDCClaimWithdrawal(n, r, staker) ==
  /\ n \notin ndcPaused
  /\ withdrawalRequests[n][r] = staker
  /\ withdrawalRequests' = [withdrawalRequests EXCEPT ![n][r] = DEAD_ADDRESS]
  /\ CompleteQueuedWithdrawal(n, r)
  /\ UNCHANGED <<configVars, ndcBalance, pendingInternalShareWithdrawals, ndcPaused>>

\* Variant: does not look whether a staker requested the withdrawal.
ClaimInternalAny(n, r) ==
  /\ CompleteQueuedWithdrawal(n, r)
  /\ withdrawals[r].scaledShares <= pendingInternalShareWithdrawals[n][r.strategy]
  /\ pendingInternalShareWithdrawals' = [pendingInternalShareWithdrawals EXCEPT
       ![n][r.strategy] = @ - withdrawals[r].scaledShares]
  /\ UNCHANGED <<configVars, ndcBalance, withdrawalRequests, ndcPaused>>

\* Passes on CompletedUnderlying(r) tokens to the deposit pool.
ClaimInternalWithdrawal(n, r) ==
  /\ withdrawalRequests[n][r] = NoStaker
  /\ CompleteQueuedWithdrawal(n, r)
  /\ withdrawals[r].scaledShares <= pendingInternalShareWithdrawals[n][r.strategy]
  /\ pendingInternalShareWithdrawals' = [pendingInternalShareWithdrawals EXCEPT
       ![n][r.strategy] = @ - withdrawals[r].scaledShares]
  /\ UNCHANGED <<configVars, ndcBalance, withdrawalRequests, ndcPaused>>

-----------------------------------------------------------------------------
(* The NodeDelegators with the deposit pool and EigenLayer around them.    *)

CONSTANTS
  Amounts,     \* amounts of tokens or of shares a caller may ask for
  TokenSupply  \* bound: [Assets -> tokens of the asset a NodeDelegator may get]

ASSUME AmountsAssumption == Amounts \subseteq Nat

ndVars == <<elVars, configVars, ndcVars>>

\* Tokens of asset n holds, in all strategies and in the queue too.
TokensHeld(n, asset) ==
  ndcBalance[n][asset]
    + SumFunctionOnSet([s \in Strategies |-> depositShares[n][s] + pendingInternalShareWithdrawals[n][s]],
                       {s \in Strategies : Underlying[s] = asset})

\* Anyone may send tokens to n; the deposit pool does.
Fund(n) ==
  \E amounts \in [Assets -> Amounts \cup {0}] :
    /\ \A a \in Assets : TokensHeld(n, a) + amounts[a] <= TokenSupply[a]
    /\ ReceiveTokens(n, amounts)

\* EigenLayer's own steps.
EigenLayerStep ==
  /\ \/ \E r \in Roots : DelayElapses(r)
     \/ \E s \in Strategies : Rebase(s)
  /\ UNCHANGED <<configVars, ndcVars>>

\* The pool's two calls: only for a staker's withdrawals.
StakerCall(n) ==
  \/ \E s \in Strategies, shares \in Amounts, staker \in Stakers :
       NDCRequestWithdrawal(n, s, shares, staker)
  \/ \E r \in Roots, staker \in Stakers : NDCClaimWithdrawal(n, r, staker)

\* Calls of the Prime operator, manager and admin.
OperatorCall(n) ==
  \/ \E assets \in SUBSET Assets : DepositAssetsIntoStrategy(n, assets)
  \/ \E s \in Strategies, shares \in Amounts : RequestInternalWithdrawal(n, s, shares)
  \/ \E r \in Roots : ClaimInternalWithdrawal(n, r)

ManagerCall(n) ==
  \/ \E a \in Assets, amount \in Amounts : TransferBackToLRTDepositPool(n, a, amount)
  \/ NDCDelegateTo(n)
  \/ Undelegate(n)
  \/ NDCPause(n)
  \/ NDCUnpause(n)

\* An admin names a strategy whose underlying token is the asset.
StrategyUpdate ==
  \E s \in Strategies :
    UpdateAssetStrategy(Underlying[s], s, NDCs) /\ UNCHANGED <<elVars, ndcVars>>

\* Everything but what the EigenLayer operator does on its own.
NDCNext ==
  \/ EigenLayerStep
  \/ StrategyUpdate
  \/ \E n \in NDCs : \/ Fund(n)
                     \/ StakerCall(n)
                     \/ OperatorCall(n)
                     \/ ManagerCall(n)

NDCSpec == NDCInit /\ [][NDCNext]_ndVars

\* With an operator who may undelegate any NodeDelegator at any time.
AnyOperatorNext == NDCNext \/ \E n \in NDCs : OperatorUndelegates(n)

AnyOperatorSpec == NDCInit /\ [][AnyOperatorNext]_ndVars

-----------------------------------------------------------------------------
(* Properties *)

NDCTypeOK ==
  /\ ELTypeOK
  /\ ConfigTypeOK
  /\ ndcBalance \in [NDCs -> [Assets -> Nat]]
  /\ withdrawalRequests \in [NDCs -> [Roots -> Stakers \cup {NoStaker, DEAD_ADDRESS}]]
  /\ pendingInternalShareWithdrawals \in [NDCs -> [Strategies -> Nat]]
  /\ ndcPaused \in SUBSET NDCs

\* The withdrawals of n from s that no staker asked for and that are unclaimed.
InternalQueue(n, s) ==
  {r \in Roots : /\ r.ndc = n
                 /\ r.strategy = s
                 /\ Pending(r)
                 /\ withdrawalRequests[n][r] = NoStaker}

ScaledShares == [r \in Roots |-> withdrawals[r].scaledShares]

\* pendingInternalShareWithdrawals is "the total amount of shares pending from
\* internal withdrawals" (NodeDelegatorLST.sol:44-46): requestInternalWithdrawal,
\* undelegate and claimInternalWithdrawal keep it equal to the sum of the queue
\* they share with the stakers' withdrawals.
PendingMatchesQueue ==
  \A n \in NDCs, s \in Strategies :
    pendingInternalShareWithdrawals[n][s] = SumFunctionOnSet(ScaledShares, InternalQueue(n, s))

\* What claimInternalWithdrawal needs so as not to revert on its checked
\* subtraction: no internal withdrawal is ever stuck in EigenLayer's queue.
InternalClaimsSucceed ==
  \A r \in Roots :
    Pending(r) /\ withdrawalRequests[r.ndc][r] = NoStaker
      => withdrawals[r].scaledShares <= pendingInternalShareWithdrawals[r.ndc][r.strategy]

\* A staker recorded for a root can still be paid by it: the withdrawal is this
\* NodeDelegator's and unclaimed.  Once claimed it is marked DEAD_ADDRESS, so
\* neither the staker nor the operator's internal claim can take it again.
RequestsBacked ==
  \A n \in NDCs, r \in Roots :
    /\ withdrawalRequests[n][r] \in Stakers => r.ndc = n /\ Pending(r)
    /\ withdrawalRequests[n][r] = DEAD_ADDRESS => ~Pending(r)

RequestersStay ==
  \A n \in NDCs, r \in Roots :
    Pending(r) /\ withdrawalRequests'[n][r] # withdrawalRequests[n][r]
      => /\ withdrawalRequests[n][r] \in Stakers
         /\ withdrawalRequests'[n][r] = DEAD_ADDRESS
         /\ withdrawals'[r].status = "completed"

\* Who a withdrawal is for is decided when it is queued: from then on the record
\* of its root only moves from a staker to DEAD_ADDRESS, as the withdrawal is paid.
RequesterFixed == [][RequestersStay]_ndVars

\* A step that only queues shares: no staker's request, no claim, no transfer.
OnlyQueues ==
  /\ UNCHANGED <<rate, assetStrategy, ndcBalance, withdrawalRequests>>
  /\ \A r \in Roots : Pending(r) => Pending(r)'

ValueIsKept ==
  \A n \in NDCs, a \in supportedAssets :
    OnlyQueues => GetAssetBalance(n, a)' = GetAssetBalance(n, a)

\* undelegate and requestInternalWithdrawal move shares from n's deposits to the
\* queue without moving what getAssetBalance says n is worth, which the price of
\* primeETH is computed from.
QueueingKeepsValue == [][ValueIsKept]_ndVars

PendsNothing(n) == \A s \in Strategies : pendingInternalShareWithdrawals[n][s] = 0

\* updateAssetStrategy refuses to replace a strategy that holds funds
\* (LRTConfig.sol:109), so wherever an asset's deposits went before, a new strategy,
\* or an old one used again, changes what no NodeDelegator is worth.  The check does not
\* see shares that wait in the queue: it is enough while none wait internally.
StrategyChangeKeepsValue ==
  [][assetStrategy' # assetStrategy =>
       \A n \in NDCs, a \in supportedAssets :
         PendsNothing(n) => GetAssetBalance(n, a)' = GetAssetBalance(n, a)]_ndVars
=============================================================================
