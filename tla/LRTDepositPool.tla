--------------------------- MODULE LRTDepositPool ---------------------------
(***************************************************************************)
(* contracts/LRTDepositPool.sol composed with the contracts it calls: the  *)
(* NodeDelegators of liquid staking tokens and EigenLayer behind them,     *)
(* those of native ether, the primeETH token, the oracle and the config.   *)
(* An action is one transaction.                                           *)
(*                                                                         *)
(* Of a NodeDelegator of native ether the pool sees what NativeNode says,  *)
(* which NodeDelegatorETH implements.                                      *)
(***************************************************************************)
EXTENDS NodeDelegatorLST, PrimeStakedETH, LRTOracle, SequencesExt

CONSTANTS
  WITHDRAW_ASSET,   \* OETH, the only asset a staker can withdraw
  Managers,         \* token accounts of the LRT manager, for its swaps
  Wallets,          \* bound: [staker -> [asset -> tokens it starts with]]
  NativeNDCs,       \* NodeDelegators of native ether
  FULL_STAKE, MIN_SLASHED_AMOUNT,
  InitialQueue,     \* the NodeDelegators of the deployment
  NdcLimits         \* values maxNodeDelegatorLimit may take

ASSUME PoolAssumption ==
  /\ IsFiniteSet(Assets) /\ IsFiniteSet(Stakers)
  /\ WITHDRAW_ASSET \in Assets \ {WETH}
  /\ Managers \subseteq Stakers
  /\ Wallets \in [Stakers -> [Assets -> Nat]]
  /\ NativeNDCs \cap NDCs = {}
  /\ FULL_STAKE \in Nat /\ MIN_SLASHED_AMOUNT \in 1 .. FULL_STAKE
  /\ InitialQueue \in Seq(NDCs \cup NativeNDCs) /\ IsInjective(InitialQueue)
  /\ NdcLimits \subseteq {l \in Nat : l >= Len(InitialQueue)}

VARIABLES
  poolBalance,            \* [asset -> tokens the pool holds]
  wallet,                 \* [staker -> [asset -> tokens it holds]]
  ynLSDe,                 \* [staker -> OETH deposited into Yield Nest for it]
  nodeDelegatorQueue,
  isNodeDelegator,        \* the NDCs whose flag is 1
  maxNodeDelegatorLimit,
  minAmountToDeposit,
  poolPaused,
  nativeLiquid, nativeStaked   \* of NativeNode

INSTANCE NativeNode

nativeVars == <<nativeLiquid, nativeStaked>>

queueVars == <<nodeDelegatorQueue, isNodeDelegator, maxNodeDelegatorLimit>>
fundVars  == <<poolBalance, wallet, ynLSDe>>
adminVars == <<queueVars, minAmountToDeposit, poolPaused>>
poolVars  == <<fundVars, adminVars, nativeVars>>

\* The NodeDelegators of both kinds.
Nodes == NDCs \cup NativeNDCs

\* LST_NDC_INDEX, counted from 1.  A call of a withdrawal on a NodeDelegator of
\* native ether reverts: it has no such function.
LstNdc == nodeDelegatorQueue[1]

PoolInit ==
  /\ poolBalance = [a \in Assets |-> 0]
  /\ wallet = Wallets
  /\ ynLSDe = [s \in Stakers |-> 0]
  /\ nodeDelegatorQueue = InitialQueue
  /\ isNodeDelegator = ToSet(InitialQueue)
  /\ maxNodeDelegatorLimit \in NdcLimits
  /\ minAmountToDeposit = 0
  /\ poolPaused = FALSE
  /\ NativeInit

-----------------------------------------------------------------------------
(* Views *)

\* What a NodeDelegator answers, whichever kind it is.
NodeAssetBalance(n, asset) ==
  IF n \in NativeNDCs THEN NativeAssetBalance(n, asset) ELSE GetAssetBalance(n, asset)

\* The pool's balance and that of every NodeDelegator in the queue.
GetTotalAssetDeposits(asset) ==
  poolBalance[asset]
    + SumFunction([i \in DOMAIN nodeDelegatorQueue |->
                     NodeAssetBalance(nodeDelegatorQueue[i], asset)])

TotalAssetDeposits == [a \in Assets |-> GetTotalAssetDeposits(a)]

\* Variant: only what the pool itself holds counts against the limit.
PoolCurrentLimit(asset) ==
  IF poolBalance[asset] > depositLimitByAsset[asset] THEN 0
  ELSE depositLimitByAsset[asset] - poolBalance[asset]

GetAssetCurrentLimit(asset) ==
  IF GetTotalAssetDeposits(asset) > depositLimitByAsset[asset] THEN 0
  ELSE depositLimitByAsset[asset] - GetTotalAssetDeposits(asset)

\* Variant: rounds up.
MintAmountRoundedUp(asset, amount) ==
  (amount * assetPrice[asset] + primeETHPrice - 1) \div primeETHPrice

\* Divides by the stored price: before the first update nothing can be minted.
GetMintAmount(asset, amount) == (amount * assetPrice[asset]) \div primeETHPrice

GetSwapAssetReturnAmount(from, to, amount) ==
  (assetPrice[from] * amount) \div assetPrice[to]

\* ERC20 transfers between the pool and a token account.
TakeFrom(staker, asset, amount) ==
  /\ amount <= wallet[staker][asset]
  /\ wallet' = [wallet EXCEPT ![staker][asset] = @ - amount]
  /\ poolBalance' = [poolBalance EXCEPT ![asset] = @ + amount]
  /\ UNCHANGED ynLSDe

\* Variant: what a claim brings stays in the pool.
LeaveInPool(staker, asset, amount) ==
  /\ poolBalance' = [poolBalance EXCEPT ![asset] = @ + amount]
  /\ UNCHANGED <<wallet, ynLSDe>>

PayTo(staker, asset, amount) ==
  /\ wallet' = [wallet EXCEPT ![staker][asset] = @ + amount]
  /\ UNCHANGED <<poolBalance, ynLSDe>>

-----------------------------------------------------------------------------
(* Stakers *)

DepositAsset(staker, asset, amount, minPrimeETH) ==
  /\ ~poolPaused
  /\ asset \in supportedAssets
  /\ amount # 0 /\ amount >= minAmountToDeposit
  /\ amount <= GetAssetCurrentLimit(asset)
  /\ primeETHPrice # 0
  /\ GetMintAmount(asset, amount) >= minPrimeETH
  /\ TakeFrom(staker, asset, amount)
  /\ Mint(staker, GetMintAmount(asset, amount))
  /\ UNCHANGED <<elVars, configVars, ndcVars, oracleVars,
                 adminVars, nativeVars>>

\* Variant: burns no more than the truncated amount.
TruncatedAmount(assetAmount) == GetMintAmount(WITHDRAW_ASSET, assetAmount)

\* One more than the truncated amount.
BurnAmount(assetAmount) == GetMintAmount(WITHDRAW_ASSET, assetAmount) + 1

\* Burns the primeETH, then has the first NodeDelegator queue the shares.
RequestWithdrawal(staker, assetAmount, maxPrimeETH) ==
  LET strategy == assetStrategy[WITHDRAW_ASSET]
      burnt == BurnAmount(assetAmount)
  IN
  /\ ~poolPaused
  /\ assetAmount # 0
  /\ WITHDRAW_ASSET \in supportedAssets
  /\ primeETHPrice # 0
  /\ burnt <= maxPrimeETH
  /\ BurnFrom(staker, burnt)
  /\ nodeDelegatorQueue # <<>> /\ LstNdc \in NDCs
  /\ strategy # NoStrategy
  /\ NDCRequestWithdrawal(LstNdc, strategy, UnderlyingToShares(strategy, assetAmount), staker)
  /\ UNCHANGED <<poolVars, oracleVars>>

\* Variant: not stopped by a pause.
ClaimWhilePaused(staker, r) ==
  /\ nodeDelegatorQueue # <<>> /\ LstNdc \in NDCs
  /\ NDCClaimWithdrawal(LstNdc, r, staker)
  /\ PayTo(staker, Underlying[r.strategy], CompletedUnderlying(r))
  /\ UNCHANGED <<primeVars, oracleVars, adminVars, nativeVars>>

ClaimWithdrawal(staker, r) ==
  /\ ~poolPaused
  /\ nodeDelegatorQueue # <<>> /\ LstNdc \in NDCs
  /\ NDCClaimWithdrawal(LstNdc, r, staker)
  /\ PayTo(staker, Underlying[r.strategy], CompletedUnderlying(r))
  /\ UNCHANGED <<primeVars, oracleVars, adminVars, nativeVars>>

\* The OETH passes through the pool into wrapped OETH and on into Yield Nest,
\* whose ynLSDe tokens go to the staker.
ClaimWithdrawalYn(staker, r) ==
  /\ ~poolPaused
  /\ nodeDelegatorQueue # <<>> /\ LstNdc \in NDCs
  /\ NDCClaimWithdrawal(LstNdc, r, staker)
  /\ ynLSDe' = [ynLSDe EXCEPT ![staker] = @ + CompletedUnderlying(r)]
  /\ UNCHANGED <<poolBalance, wallet, primeVars, oracleVars,
                 adminVars, nativeVars>>

-----------------------------------------------------------------------------
(* Moving assets: the operator and the manager *)

\* A NodeDelegator of either kind gets tokens from the pool.
NodeReceives(n, amounts) ==
  \/ n \in NDCs /\ ReceiveTokens(n, amounts) /\ UNCHANGED nativeVars
  \/ n \in NativeNDCs /\ NativeReceives(n, amounts) /\ UNCHANGED ndVars

\* Variant: the pool sends what it is asked for.
TransferUnchecked(i, asset, amount) ==
  /\ i \in DOMAIN nodeDelegatorQueue
  /\ asset \in supportedAssets
  /\ poolBalance' = [poolBalance EXCEPT ![asset] = @ - amount]
  /\ NodeReceives(nodeDelegatorQueue[i], [a \in Assets |-> IF a = asset THEN amount ELSE 0])
  /\ UNCHANGED <<wallet, ynLSDe, adminVars, primeVars, oracleVars>>

\* transferAssetToNodeDelegator; neither function looks at the pause.
TransferAssetToNodeDelegator(i, asset, amount) ==
  /\ i \in DOMAIN nodeDelegatorQueue
  /\ asset \in supportedAssets
  /\ amount <= poolBalance[asset]
  /\ poolBalance' = [poolBalance EXCEPT ![asset] = @ - amount]
  /\ NodeReceives(nodeDelegatorQueue[i], [a \in Assets |-> IF a = asset THEN amount ELSE 0])
  /\ UNCHANGED <<wallet, ynLSDe, adminVars, primeVars, oracleVars>>

\* All the pool holds of each asset.
TransferAssetsToNodeDelegator(i, assets) ==
  /\ i \in DOMAIN nodeDelegatorQueue
  /\ assets \subseteq supportedAssets
  /\ poolBalance' = [a \in Assets |-> IF a \in assets THEN 0 ELSE poolBalance[a]]
  /\ NodeReceives(nodeDelegatorQueue[i],
                  [a \in Assets |-> IF a \in assets THEN poolBalance[a] ELSE 0])
  /\ UNCHANGED <<wallet, ynLSDe, adminVars, primeVars, oracleVars>>

SwapAssetWithinDepositPool(manager, from, to, amount, minTo) ==
  LET returned == GetSwapAssetReturnAmount(from, to, amount)
      received == [poolBalance EXCEPT ![from] = @ + amount]
      left     == [wallet[manager] EXCEPT ![from] = @ - amount]
  IN
  /\ {from, to} \subseteq supportedAssets
  /\ returned >= minTo
  /\ returned <= poolBalance[to]
  /\ amount <= wallet[manager][from]
  /\ poolBalance' = [received EXCEPT ![to] = @ - returned]
  /\ wallet' = [wallet EXCEPT ![manager] = [left EXCEPT ![to] = @ + returned]]
  /\ UNCHANGED <<elVars, configVars, ndcVars, primeVars, oracleVars, ynLSDe,
                 adminVars, nativeVars>>

\* What a NodeDelegator sends back arrives in the pool.
ReceiveBack(asset, amount) ==
  /\ poolBalance' = [poolBalance EXCEPT ![asset] = @ + amount]
  /\ UNCHANGED <<wallet, ynLSDe, adminVars, primeVars, oracleVars>>

TransferBack(n, asset, amount) ==
  \/ /\ n \in NDCs
     /\ TransferBackToLRTDepositPool(n, asset, amount) /\ ReceiveBack(asset, amount)
     /\ UNCHANGED nativeVars
  \/ /\ n \in NativeNDCs /\ asset \in supportedAssets
     /\ NativeSendsBack(n, asset, amount) /\ ReceiveBack(asset, amount)
     /\ UNCHANGED ndVars

ClaimInternal(n, r) ==
  /\ ClaimInternalWithdrawal(n, r) /\ ReceiveBack(Underlying[r.strategy], CompletedUnderlying(r))
  /\ UNCHANGED nativeVars

\* A token account gives tokens to the pool.
DonateToPool(staker, asset, amount) ==
  /\ TakeFrom(staker, asset, amount)
  /\ UNCHANGED <<elVars, configVars, ndcVars, primeVars, oracleVars,
                 adminVars, nativeVars>>

-----------------------------------------------------------------------------
(* Administration *)

PoolPause ==
  /\ ~poolPaused
  /\ poolPaused' = TRUE
  /\ UNCHANGED <<elVars, configVars, ndcVars, primeVars, oracleVars,
                 fundVars, nativeVars, queueVars, minAmountToDeposit>>

PoolUnpause ==
  /\ poolPaused
  /\ poolPaused' = FALSE
  /\ UNCHANGED <<elVars, configVars, ndcVars, primeVars, oracleVars,
                 fundVars, nativeVars, queueVars, minAmountToDeposit>>

SetMinAmountToDeposit(amount) ==
  /\ minAmountToDeposit' = amount
  /\ UNCHANGED <<elVars, configVars, ndcVars, primeVars, oracleVars,
                 fundVars, nativeVars, queueVars, poolPaused>>

otherThanQueue == <<elVars, configVars, ndcVars, primeVars, oracleVars,
                    fundVars, nativeVars, minAmountToDeposit, poolPaused>>

\* Variant: does not look at the flag.
PushAnyway(added, n) ==
  [queue |-> Append(added.queue, n), flags |-> added.flags \cup {n}]

\* An NDC already flagged is not pushed again, but counts against the limit.
Push(added, n) ==
  IF n \in added.flags THEN added
  ELSE [queue |-> Append(added.queue, n), flags |-> added.flags \cup {n}]

AddNodeDelegatorContractToQueue(ndcs) ==
  LET added == FoldLeft(Push, [queue |-> nodeDelegatorQueue, flags |-> isNodeDelegator], ndcs)
  IN
  /\ Len(nodeDelegatorQueue) + Len(ndcs) <= maxNodeDelegatorLimit
  /\ nodeDelegatorQueue' = added.queue
  /\ isNodeDelegator' = added.flags
  /\ UNCHANGED <<maxNodeDelegatorLimit, otherThanQueue>>

\* The last NDC takes the place of n.
SwapAndPop(queue, n) ==
  Front([queue EXCEPT ![SelectInSeq(queue, LAMBDA m : m = n)] = Last(queue)])

\* Variant: looks at the tokens of n and not at its shares in EigenLayer.
HoldsNoTokens(n) ==
  \A a \in supportedAssets : n \in NDCs => NDCAssets(n, a) = 0

\* checkNodeDelegatorBalance finds no asset.
HoldsNothing(n) == \A a \in supportedAssets : NodeAssetBalance(n, a) = 0

\* removeManyNodeDelegatorContractsFromQueue, and for one NDC the function it
\* calls.  An NDC that is not there, or is listed twice, is not found.
RemoveNodeDelegatorContractsFromQueue(ndcs) ==
  /\ ToSet(ndcs) \subseteq ToSet(nodeDelegatorQueue)
  /\ IsInjective(ndcs)
  /\ \A n \in ToSet(ndcs) : HoldsNothing(n)
  /\ nodeDelegatorQueue' = FoldLeft(SwapAndPop, nodeDelegatorQueue, ndcs)
  /\ isNodeDelegator' = isNodeDelegator \ ToSet(ndcs)
  /\ UNCHANGED <<maxNodeDelegatorLimit, otherThanQueue>>

UpdateMaxNodeDelegatorLimit(limit) ==
  /\ limit >= Len(nodeDelegatorQueue)
  /\ maxNodeDelegatorLimit' = limit
  /\ UNCHANGED <<nodeDelegatorQueue, isNodeDelegator, otherThanQueue>>

-----------------------------------------------------------------------------
(* The system: any caller, any order.                                      *)

CONSTANTS
  NdcLists,         \* lists of NodeDelegators an admin adds or removes at once
  MaxNativeEther    \* bound: the WETH and ether there may be, by rewards

ASSUME ListsAssumption == NdcLists \subseteq Seq(Nodes)

vars == <<ndVars, primeVars, oracleVars, poolVars>>

Init == NDCInit /\ PrimeInit /\ OracleInit /\ PoolInit

\* Slippage limits (minPrimeETH, maxPrimeETH, minToAssetAmount) only make a
\* transaction revert; every transaction is possible with the laxest ones.
StakerNext ==
  \E s \in Stakers :
    \/ \E a \in Assets, amount \in Amounts :
         \/ DepositAsset(s, a, amount, 0)
         \/ DonateToPool(s, a, amount)
    \/ \E amount \in Amounts : RequestWithdrawal(s, amount, primeETH[s])
    \/ \E r \in Roots : ClaimWithdrawal(s, r) \/ ClaimWithdrawalYn(s, r)

\* The calls of the operator and the manager that move assets.
KeeperNext ==
  \/ \E i \in DOMAIN nodeDelegatorQueue :
       \/ \E a \in Assets, amount \in Amounts : TransferAssetToNodeDelegator(i, a, amount)
       \/ \E assets \in SUBSET Assets : TransferAssetsToNodeDelegator(i, assets)
  \/ \E m \in Managers, a, b \in Assets, amount \in Amounts :
       SwapAssetWithinDepositPool(m, a, b, amount, 0)
  \/ \E n \in Nodes, a \in Assets, amount \in Amounts : TransferBack(n, a, amount)
  \/ \E n \in NDCs, r \in Roots : ClaimInternal(n, r)

\* The calls on a NodeDelegator, and EigenLayer's steps, that touch nothing else.
OnlyBackend == UNCHANGED <<primeVars, oracleVars, poolVars>>

BackendNext ==
  \/ EigenLayerStep /\ OnlyBackend
  \/ \E n \in NDCs :
       \/ \E assets \in SUBSET Assets : DepositAssetsIntoStrategy(n, assets) /\ OnlyBackend
       \/ \E s \in Strategies, shares \in Amounts :
            RequestInternalWithdrawal(n, s, shares) /\ OnlyBackend
       \/ NDCDelegateTo(n) /\ OnlyBackend
       \/ Undelegate(n) /\ OnlyBackend
       \/ NDCPause(n) /\ OnlyBackend
       \/ NDCUnpause(n) /\ OnlyBackend

\* The WETH and ether the protocol holds.
Ether == poolBalance[WETH] + MapThenSumSet(LAMBDA n : NodeAssetBalance(n, WETH), Nodes)

\* A NodeDelegator of native ether stakes, earns and claims.
NativeNodeNext ==
  /\ \E n \in NativeNDCs :
       \/ \E amount \in Amounts :
            /\ Ether + amount <= MaxNativeEther
            /\ NativeReceives(n, [a \in Assets |-> IF a = WETH THEN amount ELSE 0])
       \/ NativeStakes(n, FULL_STAKE)
       \/ \E claimed \in Amounts, exits \in 0 .. nativeStaked[n] :
            /\ Ether + claimed - exits * FULL_STAKE <= MaxNativeEther
            /\ NativeClaims(n, claimed, exits * FULL_STAKE)
  /\ UNCHANGED <<ndVars, primeVars, oracleVars, fundVars, adminVars>>

\* What the EigenLayer operator may do on its own.
EigenOperatorNext == \E n \in NDCs : OperatorUndelegates(n) /\ OnlyBackend

OnlyOracle == UNCHANGED <<ndVars, primeVars, poolVars>>

OracleNext ==
  \/ UpdatePrimeETHPrice(TotalAssetDeposits, totalSupply) /\ OnlyOracle
  \/ \E a \in Assets : FeedMoves(a) /\ OnlyOracle

OnlyToken == UNCHANGED <<ndVars, oracleVars, poolVars>>

TokenNext ==
  \/ \E s, t \in Stakers, amount \in Amounts : PrimeTransfer(s, t, amount) /\ OnlyToken
  \/ PrimePause /\ OnlyToken
  \/ PrimeUnpause /\ OnlyToken

OnlyConfig == UNCHANGED <<elVars, ndcVars, primeVars, oracleVars, poolVars>>

ConfigNext ==
  \/ \E a \in Assets, limit \in Limits :
       \/ AddNewSupportedAsset(a, limit) /\ OnlyConfig
       \/ UpdateAssetDepositLimit(a, limit) /\ OnlyConfig
  \/ \E s \in Strategies :
       UpdateAssetStrategy(Underlying[s], s, ToSet(nodeDelegatorQueue) \cap NDCs) /\ OnlyConfig

QueueNext ==
  \/ \E ndcs \in NdcLists :
       \/ AddNodeDelegatorContractToQueue(ndcs)
       \/ RemoveNodeDelegatorContractsFromQueue(ndcs)
  \/ \E limit \in NdcLimits : UpdateMaxNodeDelegatorLimit(limit)

PoolAdminNext ==
  \/ PoolPause
  \/ PoolUnpause
  \/ \E amount \in Amounts : SetMinAmountToDeposit(amount)

Next ==
  \/ StakerNext
  \/ KeeperNext
  \/ BackendNext
  \/ NativeNodeNext
  \/ EigenOperatorNext
  \/ OracleNext
  \/ TokenNext
  \/ ConfigNext
  \/ QueueNext
  \/ PoolAdminNext

Spec == Init /\ [][Next]_vars

-----------------------------------------------------------------------------
(* Properties *)

TypeOK ==
  /\ NDCTypeOK
  /\ PrimeTypeOK
  /\ OracleTypeOK
  /\ poolBalance \in [Assets -> Nat]
  /\ wallet \in [Stakers -> [Assets -> Nat]]
  /\ ynLSDe \in [Stakers -> Nat]
  /\ NativeTypeOK
  /\ nodeDelegatorQueue \in Seq(Nodes)
  /\ isNodeDelegator \in SUBSET Nodes
  /\ maxNodeDelegatorLimit \in Nat
  /\ minAmountToDeposit \in Nat
  /\ poolPaused \in BOOLEAN

\* The ETH value, at the feeds' prices, of all assets the protocol holds.
TotalETH == ValueOf(TotalAssetDeposits)

\* What the assets are worth beyond what all primeETH is worth at its price.
Surplus == TotalETH - primeETHPrice * totalSupply

\* A deposit or a withdrawal request never makes the primeETH that stays worth
\* less than it was at the stored price: getMintAmount truncates what a deposit
\* mints, and requestWithdrawal burns one more than the truncated amount, so each
\* rounding is at the expense of the account that asks for it.
RoundingFavoursThePool ==
  [][totalSupply' # totalSupply => Surplus' >= Surplus]_vars

\* As long as no price falls and no conversion to shares rounds, all primeETH
\* could be redeemed at the stored price, however old that price is: no order of
\* deposits, requests, claims, swaps, transfers and updates breaks it.
StoredPriceIsBacked == primeETHPrice * totalSupply <= TotalETH

\* A staker's claim of r.
Claimed(s, r) ==
  \E n \in NDCs : /\ withdrawalRequests[n][r] = s
                  /\ withdrawalRequests'[n][r] = DEAD_ADDRESS

\* A claim pays the account whose primeETH was burnt, what its shares are worth
\* now, as OETH or as ynLSDe, and no other account.
ClaimPaysTheRequester ==
  [][\A s \in Stakers, r \in Roots : Claimed(s, r) =>
       /\ wallet'[s][Underlying[r.strategy]] + ynLSDe'[s]
            = wallet[s][Underlying[r.strategy]] + ynLSDe[s] + CompletedUnderlying(r)
       /\ \A t \in Stakers \ {s} : wallet'[t] = wallet[t] /\ ynLSDe'[t] = ynLSDe[t]]_vars

\* The primeETH for a withdrawal is burnt at the request, and from then on the
\* shares are not the pool's: a claim changes no total and no price.
ClaimCostsThePoolNothing ==
  [][\A s \in Stakers, r \in Roots : Claimed(s, r) =>
       TotalAssetDeposits' = TotalAssetDeposits]_vars

\* A claim brings back the stakes of validators that exited, and nothing else.
ClaimsWholeStakes(n) ==
  /\ nativeStaked'[n] < nativeStaked[n]
  /\ \E exits \in 1 .. nativeStaked[n] :
       nativeLiquid'[n][WETH] = nativeLiquid[n][WETH] + exits * FULL_STAKE

\* Ether comes into the protocol, or is found to be lost: a NodeDelegator of native
\* ether is sent some, or claims rewards, or what is left of a slashed stake.
EtherArrives ==
  /\ UNCHANGED poolBalance
  /\ \E n \in NativeNDCs :
       nativeLiquid'[n][WETH] > nativeLiquid[n][WETH] /\ ~ClaimsWholeStakes(n)

\* A NodeDelegator outside the queue was sent ether, or claims rewards late: the
\* pool does not count it.
StrayEther == \E n \in NativeNDCs \ isNodeDelegator : NativeAssetBalance(n, WETH) > 0

\* Where an asset is does not change how much of it there is: when no account
\* pays or is paid and no config changes, transfers, deposits into EigenLayer,
\* stakes and the claims that bring them back, undelegation, internal withdrawals
\* and their claims keep every total.
MovingAssetsKeepsTotals ==
  [][UNCHANGED <<totalSupply, wallet, ynLSDe, rate, configVars>> /\ ~EtherArrives /\ ~StrayEther =>
       TotalAssetDeposits' = TotalAssetDeposits]_vars

\* Deposits stop at the asset's limit, wherever its tokens are by then: in the
\* pool, in a NodeDelegator, in a strategy or pending internal withdrawal.
DepositsRespectTheLimit ==
  [][\A a \in Assets :
       totalSupply' > totalSupply /\ poolBalance'[a] > poolBalance[a]
         => GetTotalAssetDeposits(a)' <= depositLimitByAsset[a]]_vars

\* A paused pool leaves stakers no way around it: nothing is minted or burnt and
\* no request is made or claimed, by whichever contract keeps the record.
PauseFreezesStakers ==
  [][poolPaused => UNCHANGED <<totalSupply, withdrawalRequests, ynLSDe>>]_vars

Redeems == INSTANCE Redemption WITH
  Tickets <- Roots,
  PAID    <- DEAD_ADDRESS,
  balance <- primeETH,
  ticket  <- [r \in Roots |-> withdrawalRequests[r.ndc][r]],
  frozen  <- poolPaused

\* To the holders of primeETH this is the abstract Redemption: burning and queueing
\* are one step, which costs something even when the amount converts to nothing,
\* a root is never opened twice, claims go to whoever opened it, and of the three
\* contracts' pauses the pool's alone freezes all that.
ImplementsRedemption == Redeems!RedemptionSpec

\* The queue holds every flagged NodeDelegator once and respects its limit, in
\* spite of duplicates in the lists and of the swap with the last entry.
QueueMatchesFlags ==
  /\ ToSet(nodeDelegatorQueue) = isNodeDelegator
  /\ IsInjective(nodeDelegatorQueue)
  /\ Len(nodeDelegatorQueue) <= maxNodeDelegatorLimit
=============================================================================
