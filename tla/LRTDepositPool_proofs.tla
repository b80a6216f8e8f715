------------------------ MODULE LRTDepositPool_proofs ------------------------
(***************************************************************************)
(* Proofs about LRTDepositPool composed with its NodeDelegators, EigenLayer, *)
(* the token, the oracle and the config, for any sets of them.  What the   *)
(* proofs of NodeDelegatorLST say of the NodeDelegators alone is carried   *)
(* over to the pool's transactions, which call them with amounts of their  *)
(* own and reconfigure the assets.  Then the two loops over lists of       *)
(* NodeDelegators, the token's supply, the types of all that the system    *)
(* keeps, and the limits of deposits.                                      *)
(***************************************************************************)
EXTENDS LRTDepositPool, NodeDelegatorLST_proofs, SequenceTheorems

\* What the pool and the stakers hold, and the prices it is swapped at.
FundsTypeOK ==
  /\ poolBalance \in [Assets -> Nat]
  /\ wallet \in [Stakers -> [Assets -> Nat]]
  /\ ynLSDe \in [Stakers -> Nat]
  /\ assetPrice \in [Assets -> Nat \ {0}]

PoolIInv == IInv /\ FundsTypeOK

USE EigenLayerAssumption, ConfigAssumption, NDCAssumption, AddressAssumption,
    AmountsAssumption, OracleAssumption
    DEF EigenLayerAssumption, ConfigAssumption, NDCAssumption, AddressAssumption,
        AmountsAssumption, OracleAssumption

-----------------------------------------------------------------------------
(* What the operator and the manager never touch. *)

LEMMA ReceivesLeave ==
  ASSUME NEW n, NEW amounts, NodeReceives(n, amounts)
  PROVE  UNCHANGED <<configVars, elVars>>
BY DEF NodeReceives, ReceiveTokens, ndVars

LEMMA KeepersLeave ==
  ASSUME KeeperNext
  PROVE  /\ UNCHANGED <<primeVars, oracleVars, adminVars, configVars>>
         /\ \/ UNCHANGED elVars
            \/ \E n \in NDCs, r \in Roots : CompleteQueuedWithdrawal(n, r)
<1>. DEFINE Left == UNCHANGED <<primeVars, oracleVars, adminVars, configVars>>
<1>1. ASSUME NEW i \in DOMAIN nodeDelegatorQueue, NEW a \in Assets, NEW amount \in Amounts,
             TransferAssetToNodeDelegator(i, a, amount)
      PROVE  Left /\ UNCHANGED elVars
  BY <1>1, ReceivesLeave DEF TransferAssetToNodeDelegator
<1>2. ASSUME NEW i \in DOMAIN nodeDelegatorQueue, NEW assets \in SUBSET Assets,
             TransferAssetsToNodeDelegator(i, assets)
      PROVE  Left /\ UNCHANGED elVars
  BY <1>2, ReceivesLeave DEF TransferAssetsToNodeDelegator
<1>3. ASSUME NEW m \in Managers, NEW a \in Assets, NEW b \in Assets, NEW amount \in Amounts,
             SwapAssetWithinDepositPool(m, a, b, amount, 0)
      PROVE  Left /\ UNCHANGED elVars
  BY <1>3 DEF SwapAssetWithinDepositPool
<1>4. ASSUME NEW n \in Nodes, NEW a \in Assets, NEW amount \in Amounts, TransferBack(n, a, amount)
      PROVE  Left /\ UNCHANGED elVars
  BY <1>4 DEF TransferBack, ReceiveBack, TransferBackToLRTDepositPool, ndVars
<1>5. ASSUME NEW n \in NDCs, NEW r \in Roots, ClaimInternal(n, r)
      PROVE  Left /\ CompleteQueuedWithdrawal(n, r)
  BY <1>5 DEF ClaimInternal, ReceiveBack, ClaimInternalWithdrawal
<1>. HIDE DEF Left
<1>. DEFINE Done == UNCHANGED elVars \/ \E n \in NDCs, r \in Roots : CompleteQueuedWithdrawal(n, r)
<1>6. /\ \A i \in DOMAIN nodeDelegatorQueue, a \in Assets, amount \in Amounts :
           TransferAssetToNodeDelegator(i, a, amount) => Left /\ Done
      /\ \A i \in DOMAIN nodeDelegatorQueue, assets \in SUBSET Assets :
           TransferAssetsToNodeDelegator(i, assets) => Left /\ Done
      /\ \A m \in Managers, a, b \in Assets, amount \in Amounts :
           SwapAssetWithinDepositPool(m, a, b, amount, 0) => Left /\ Done
      /\ \A n \in Nodes, a \in Assets, amount \in Amounts : TransferBack(n, a, amount) => Left /\ Done
      /\ \A n \in NDCs, r \in Roots : ClaimInternal(n, r) => Left /\ Done
  BY <1>1, <1>2, <1>3, <1>4, <1>5
<1>. HIDE DEF Done
<1>7. Left /\ Done
  BY <1>6 DEF KeeperNext
<1>. QED
  BY <1>7 DEF Left, Done

-----------------------------------------------------------------------------
(* The NodeDelegators, called by the pool. *)

LEMMA UnchangedIInv ==
  ASSUME IInv, UNCHANGED ndVars
  PROVE  IInv'
BY NextIInv

LEMMA ReceiveIInv ==
  ASSUME IInv, NEW n \in NDCs, NEW amounts \in [Assets -> Nat], ReceiveTokens(n, amounts)
  PROVE  IInv'
<1>1. NDCTypeOK'
  BY FundType DEF IInv
<1>2. Records'
  BY SameRecords DEF IInv, Records, ReceiveTokens, elVars
<1>. QED
  BY <1>1, <1>2 DEF IInv, Records

\* The shares of a request are what its amount converts to.
LEMMA RequestIInv ==
  ASSUME IInv, NEW n \in NDCs, NEW s \in Strategies, NEW amount \in Nat, NEW staker \in Stakers,
         NDCRequestWithdrawal(n, s, UnderlyingToShares(s, amount), staker)
  PROVE  IInv'
<1>1. NDCTypeOK /\ Records /\ ELTypeOK
  BY DEF IInv, Records, NDCTypeOK
<1>2. UnderlyingToShares(s, amount) \in Nat
  BY <1>1, SharesType
<1>3. NDCTypeOK'
  BY <1>1, <1>2, RequestType
<1>4. Records'
  BY <1>1, <1>2, QueueRecords DEF NDCRequestWithdrawal
<1>. QED
  BY <1>3, <1>4 DEF IInv, Records

LEMMA ClaimIInv ==
  ASSUME IInv, NEW n \in NDCs, NEW r \in Roots, NEW staker \in Stakers,
         NDCClaimWithdrawal(n, r, staker)
  PROVE  IInv'
BY StakerCallIInv DEF StakerCall

LEMMA ConfigIInv ==
  ASSUME IInv, ConfigNext
  PROVE  IInv'
<1>0. UNCHANGED <<elVars, ndcVars>>
  BY DEF ConfigNext, OnlyConfig
<1>1. ConfigTypeOK'
  <2>1. ConfigTypeOK
    BY DEF IInv, NDCTypeOK
  <2>2. ASSUME NEW a \in Assets, NEW limit \in Limits,
               AddNewSupportedAsset(a, limit) \/ UpdateAssetDepositLimit(a, limit)
        PROVE  ConfigTypeOK'
    BY <2>1, <2>2 DEF AddNewSupportedAsset, UpdateAssetDepositLimit, ConfigTypeOK
  <2>3. ASSUME NEW s \in Strategies,
               UpdateAssetStrategy(Underlying[s], s, ToSet(nodeDelegatorQueue) \cap NDCs)
        PROVE  ConfigTypeOK'
    BY <2>1, <2>3 DEF UpdateAssetStrategy, ConfigTypeOK
  <2>. QED
    BY <2>2, <2>3 DEF ConfigNext
<1>2. NDCTypeOK'
  BY <1>0, <1>1 DEF elVars, ndcVars, IInv, NDCTypeOK, ELTypeOK
<1>3. Records'
  BY <1>0, SameRecords DEF elVars, ndcVars, IInv, Records
<1>. QED
  BY <1>2, <1>3 DEF IInv, Records

\* What a claim pays.
LEMMA PaidType ==
  ASSUME IInv, NEW r \in Roots
  PROVE  CompletedUnderlying(r) \in Nat /\ Underlying[r.strategy] \in Assets
<1>1. r.strategy \in Strategies
  BY DEF Roots
<1>2. withdrawals[r].shares \in Nat
  BY DEF IInv, NDCTypeOK, ELTypeOK, Withdrawals
<1>. QED
  BY <1>1, <1>2, SharesType DEF CompletedUnderlying, IInv, NDCTypeOK

-----------------------------------------------------------------------------
(* What the transactions leave of the NodeDelegators. *)

LEMMA StakersIInv ==
  ASSUME PoolIInv, StakerNext
  PROVE  IInv'
<1>1. IInv
  BY DEF PoolIInv
<1>2. PICK s \in Stakers :
        \/ \E a \in Assets, amount \in Amounts :
             DepositAsset(s, a, amount, 0) \/ DonateToPool(s, a, amount)
        \/ \E amount \in Amounts : RequestWithdrawal(s, amount, primeETH[s])
        \/ \E r \in Roots : ClaimWithdrawal(s, r) \/ ClaimWithdrawalYn(s, r)
  BY DEF StakerNext
<1>3. ASSUME NEW a \in Assets, NEW amount \in Amounts,
             DepositAsset(s, a, amount, 0) \/ DonateToPool(s, a, amount)
      PROVE  IInv'
  BY <1>1, <1>3, UnchangedIInv DEF DepositAsset, DonateToPool, ndVars
<1>4. ASSUME NEW amount \in Amounts, RequestWithdrawal(s, amount, primeETH[s])
      PROVE  IInv'
  <2>. DEFINE strategy == assetStrategy[WITHDRAW_ASSET]
  <2>1. strategy \in Strategies
    BY <1>1, <1>4, PoolAssumption
       DEF PoolAssumption, RequestWithdrawal, IInv, NDCTypeOK, ConfigTypeOK
  <2>2. /\ LstNdc \in NDCs
        /\ NDCRequestWithdrawal(LstNdc, strategy, UnderlyingToShares(strategy, amount), s)
    BY <1>4 DEF RequestWithdrawal
  <2>. QED
    BY <1>1, <2>1, <2>2, RequestIInv
<1>5. ASSUME NEW r \in Roots, ClaimWithdrawal(s, r) \/ ClaimWithdrawalYn(s, r)
      PROVE  IInv'
  BY <1>1, <1>5, ClaimIInv DEF ClaimWithdrawal, ClaimWithdrawalYn
<1>. QED
  BY <1>2, <1>3, <1>4, <1>5

LEMMA ReceivesIInv ==
  ASSUME IInv, NEW n, NEW amounts \in [Assets -> Nat], NodeReceives(n, amounts)
  PROVE  IInv'
BY ReceiveIInv, UnchangedIInv DEF NodeReceives

LEMMA KeepersIInv ==
  ASSUME PoolIInv, KeeperNext
  PROVE  IInv'
<1>1. IInv /\ poolBalance \in [Assets -> Nat]
  BY DEF PoolIInv, FundsTypeOK
<1>2. ASSUME NEW i \in DOMAIN nodeDelegatorQueue, NEW a \in Assets, NEW amount \in Amounts,
             TransferAssetToNodeDelegator(i, a, amount)
      PROVE  IInv'
  <2>. DEFINE amounts == [b \in Assets |-> IF b = a THEN amount ELSE 0]
  <2>1. amounts \in [Assets -> Nat]
    OBVIOUS
  <2>2. NodeReceives(nodeDelegatorQueue[i], amounts)
    BY <1>2 DEF TransferAssetToNodeDelegator
  <2>. QED
    BY <1>1, <2>1, <2>2, ReceivesIInv
<1>3. ASSUME NEW i \in DOMAIN nodeDelegatorQueue, NEW assets \in SUBSET Assets,
             TransferAssetsToNodeDelegator(i, assets)
      PROVE  IInv'
  <2>. DEFINE amounts == [b \in Assets |-> IF b \in assets THEN poolBalance[b] ELSE 0]
  <2>1. amounts \in [Assets -> Nat]
    BY <1>1
  <2>2. NodeReceives(nodeDelegatorQueue[i], amounts)
    BY <1>3 DEF TransferAssetsToNodeDelegator
  <2>. QED
    BY <1>1, <2>1, <2>2, ReceivesIInv
<1>4. ASSUME NEW m \in Managers, NEW a \in Assets, NEW b \in Assets, NEW amount \in Amounts,
             SwapAssetWithinDepositPool(m, a, b, amount, 0)
      PROVE  IInv'
  BY <1>1, <1>4, UnchangedIInv DEF SwapAssetWithinDepositPool, ndVars
<1>5. ASSUME NEW n \in Nodes, NEW a \in Assets, NEW amount \in Amounts, TransferBack(n, a, amount)
      PROVE  IInv'
  <2>1. CASE n \in NDCs /\ TransferBackToLRTDepositPool(n, a, amount)
    BY <1>1, <2>1, ManagerCallIInv DEF ManagerCall
  <2>2. CASE UNCHANGED ndVars
    BY <1>1, <2>2, UnchangedIInv
  <2>. QED
    BY <1>5, <2>1, <2>2 DEF TransferBack
<1>6. ASSUME NEW n \in NDCs, NEW r \in Roots, ClaimInternal(n, r)
      PROVE  IInv'
  BY <1>1, <1>6, OperatorCallIInv DEF ClaimInternal, OperatorCall
<1>. QED
  BY <1>2, <1>3, <1>4, <1>5, <1>6 DEF KeeperNext

LEMMA BackendIInv ==
  ASSUME IInv, BackendNext \/ EigenOperatorNext
  PROVE  IInv'
<1>1. CASE EigenLayerStep
  BY <1>1, NextIInv DEF AnyOperatorNext, NDCNext
<1>2. ASSUME NEW n \in NDCs, OperatorCall(n) \/ ManagerCall(n) \/ OperatorUndelegates(n)
      PROVE  IInv'
  BY <1>2, OperatorCallIInv, ManagerCallIInv
<1>. QED
  BY <1>1, <1>2 DEF BackendNext, EigenOperatorNext, OperatorCall, ManagerCall

LEMMA OthersKeepNodes ==
  ASSUME NativeNodeNext \/ OracleNext \/ TokenNext \/ QueueNext \/ PoolAdminNext
  PROVE  UNCHANGED ndVars
<1>1. NativeNodeNext \/ OracleNext \/ TokenNext => UNCHANGED ndVars
  BY DEF NativeNodeNext, OracleNext, OnlyOracle, TokenNext, OnlyToken
<1>2. QueueNext => UNCHANGED ndVars
  BY DEF QueueNext, AddNodeDelegatorContractToQueue, RemoveNodeDelegatorContractsFromQueue,
     UpdateMaxNodeDelegatorLimit, otherThanQueue, ndVars
<1>3. PoolAdminNext => UNCHANGED ndVars
  BY DEF PoolAdminNext, PoolPause, PoolUnpause, SetMinAmountToDeposit, ndVars
<1>. QED
  BY <1>1, <1>2, <1>3

LEMMA NodesKeepIInv == PoolIInv /\ [Next]_vars => IInv'
<1>. SUFFICES ASSUME PoolIInv, [Next]_vars PROVE IInv'
  OBVIOUS
<1>1. IInv
  BY DEF PoolIInv
<1>2. CASE UNCHANGED vars
  BY <1>1, <1>2, UnchangedIInv DEF vars
<1>. QED
  BY <1>1, <1>2, StakersIInv, KeepersIInv, BackendIInv, ConfigIInv, OthersKeepNodes,
     UnchangedIInv DEF Next

-----------------------------------------------------------------------------
(* What the pool and the stakers hold. *)

Funds == <<fundVars, assetPrice>>

LEMMA SameFunds ==
  ASSUME FundsTypeOK, UNCHANGED Funds
  PROVE  FundsTypeOK'
BY DEF FundsTypeOK, Funds, fundVars

LEMMA TakeFunds ==
  ASSUME FundsTypeOK, NEW s \in Stakers, NEW a \in Assets, NEW amount \in Nat,
         TakeFrom(s, a, amount), UNCHANGED assetPrice
  PROVE  FundsTypeOK'
<1>1. wallet[s][a] \in Nat /\ wallet[s][a] - amount \in Nat
  BY DEF FundsTypeOK, TakeFrom
<1>2. wallet' \in [Stakers -> [Assets -> Nat]]
  BY <1>1 DEF FundsTypeOK, TakeFrom
<1>3. poolBalance' \in [Assets -> Nat]
  BY DEF FundsTypeOK, TakeFrom
<1>. QED
  BY <1>2, <1>3 DEF FundsTypeOK, TakeFrom

LEMMA PayFunds ==
  ASSUME FundsTypeOK, NEW s \in Stakers, NEW a \in Assets, NEW amount \in Nat,
         PayTo(s, a, amount), UNCHANGED assetPrice
  PROVE  FundsTypeOK'
BY DEF FundsTypeOK, PayTo

LEMMA ReceiveBackFunds ==
  ASSUME FundsTypeOK, NEW a \in Assets, NEW amount \in Nat, ReceiveBack(a, amount)
  PROVE  FundsTypeOK'
BY DEF FundsTypeOK, ReceiveBack, oracleVars

LEMMA StakersFunds ==
  ASSUME PoolIInv, StakerNext
  PROVE  FundsTypeOK'
<1>1. IInv /\ FundsTypeOK
  BY DEF PoolIInv
<1>2. PICK s \in Stakers :
        \/ \E a \in Assets, amount \in Amounts :
             DepositAsset(s, a, amount, 0) \/ DonateToPool(s, a, amount)
        \/ \E amount \in Amounts : RequestWithdrawal(s, amount, primeETH[s])
        \/ \E r \in Roots : ClaimWithdrawal(s, r) \/ ClaimWithdrawalYn(s, r)
  BY DEF StakerNext
<1>3. ASSUME NEW a \in Assets, NEW amount \in Amounts,
             DepositAsset(s, a, amount, 0) \/ DonateToPool(s, a, amount)
      PROVE  FundsTypeOK'
  BY <1>1, <1>3, TakeFunds DEF DepositAsset, DonateToPool, oracleVars
<1>4. ASSUME NEW amount \in Amounts, RequestWithdrawal(s, amount, primeETH[s])
      PROVE  FundsTypeOK'
  BY <1>1, <1>4, SameFunds DEF RequestWithdrawal, poolVars, oracleVars, Funds
<1>5. ASSUME NEW r \in Roots, ClaimWithdrawal(s, r)
      PROVE  FundsTypeOK'
  BY <1>1, <1>5, PayFunds, PaidType DEF ClaimWithdrawal, oracleVars
<1>6. ASSUME NEW r \in Roots, ClaimWithdrawalYn(s, r)
      PROVE  FundsTypeOK'
  <2>1. CompletedUnderlying(r) \in Nat
    BY <1>1, PaidType
  <2>. QED
    BY <1>1, <1>6, <2>1 DEF ClaimWithdrawalYn, oracleVars, FundsTypeOK
<1>. QED
  BY <1>2, <1>3, <1>4, <1>5, <1>6

\* A swap takes one asset and gives another, or the same one back.
LEMMA SwapFunds ==
  ASSUME FundsTypeOK, NEW m \in Managers, NEW from \in Assets, NEW to \in Assets,
         NEW amount \in Nat, SwapAssetWithinDepositPool(m, from, to, amount, 0)
  PROVE  FundsTypeOK'
<1>. DEFINE returned == GetSwapAssetReturnAmount(from, to, amount)
            received == [poolBalance EXCEPT ![from] = @ + amount]
            left     == [wallet[m] EXCEPT ![from] = @ - amount]
<1>1. m \in Stakers
  BY PoolAssumption DEF PoolAssumption
<1>2. returned \in Nat
  <2>1. assetPrice[from] * amount \in Nat /\ assetPrice[to] \in Nat \ {0}
    BY DEF FundsTypeOK
  <2>. QED
    BY <2>1, DivNat DEF GetSwapAssetReturnAmount
<1>3. /\ returned <= poolBalance[to] /\ amount <= wallet[m][from]
      /\ poolBalance' = [received EXCEPT ![to] = @ - returned]
      /\ wallet' = [wallet EXCEPT ![m] = [left EXCEPT ![to] = @ + returned]]
      /\ UNCHANGED <<ynLSDe, assetPrice>>
  BY DEF SwapAssetWithinDepositPool, oracleVars
<1>. HIDE DEF returned
<1>4. received \in [Assets -> Nat] /\ returned <= received[to]
  <2>1. poolBalance \in [Assets -> Nat] /\ poolBalance[from] \in Nat /\ poolBalance[to] \in Nat
    BY DEF FundsTypeOK
  <2>2. received \in [Assets -> Nat]
    BY <2>1
  <2>3. CASE from = to
    BY <1>2, <1>3, <2>1, <2>3
  <2>4. CASE from # to
    BY <1>3, <2>1, <2>4
  <2>. QED
    BY <2>2, <2>3, <2>4
<1>5. poolBalance' \in [Assets -> Nat]
  BY <1>2, <1>3, <1>4
<1>6. left \in [Assets -> Nat]
  BY <1>1, <1>3 DEF FundsTypeOK
<1>7. wallet' \in [Stakers -> [Assets -> Nat]]
  BY <1>1, <1>2, <1>3, <1>6 DEF FundsTypeOK
<1>. QED
  BY <1>3, <1>5, <1>7 DEF FundsTypeOK

LEMMA KeepersFunds ==
  ASSUME PoolIInv, KeeperNext
  PROVE  FundsTypeOK'
<1>1. IInv /\ FundsTypeOK
  BY DEF PoolIInv
<1>2. ASSUME NEW i \in DOMAIN nodeDelegatorQueue, NEW a \in Assets, NEW amount \in Amounts,
             TransferAssetToNodeDelegator(i, a, amount)
      PROVE  FundsTypeOK'
  BY <1>1, <1>2 DEF TransferAssetToNodeDelegator, oracleVars, FundsTypeOK
<1>3. ASSUME NEW i \in DOMAIN nodeDelegatorQueue, NEW assets \in SUBSET Assets,
             TransferAssetsToNodeDelegator(i, assets)
      PROVE  FundsTypeOK'
  BY <1>1, <1>3 DEF TransferAssetsToNodeDelegator, oracleVars, FundsTypeOK
<1>4. ASSUME NEW m \in Managers, NEW a \in Assets, NEW b \in Assets, NEW amount \in Amounts,
             SwapAssetWithinDepositPool(m, a, b, amount, 0)
      PROVE  FundsTypeOK'
  BY <1>1, <1>4, SwapFunds
<1>5. ASSUME NEW n \in Nodes, NEW a \in Assets, NEW amount \in Amounts, TransferBack(n, a, amount)
      PROVE  FundsTypeOK'
  BY <1>1, <1>5, ReceiveBackFunds DEF TransferBack
<1>6. ASSUME NEW n \in NDCs, NEW r \in Roots, ClaimInternal(n, r)
      PROVE  FundsTypeOK'
  BY <1>1, <1>6, ReceiveBackFunds, PaidType DEF ClaimInternal
<1>. QED
  BY <1>2, <1>3, <1>4, <1>5, <1>6 DEF KeeperNext

LEMMA OracleFunds ==
  ASSUME FundsTypeOK, OracleNext
  PROVE  FundsTypeOK'
<1>1. UNCHANGED fundVars
  BY DEF OracleNext, OnlyOracle, poolVars
<1>2. assetPrice' \in [Assets -> Nat \ {0}]
  BY DEF OracleNext, UpdatePrimeETHPrice, FeedMoves, FundsTypeOK
<1>. QED
  BY <1>1, <1>2 DEF fundVars, FundsTypeOK

LEMMA OthersKeepFunds ==
  ASSUME \/ BackendNext \/ EigenOperatorNext \/ NativeNodeNext \/ TokenNext
         \/ ConfigNext \/ QueueNext \/ PoolAdminNext \/ UNCHANGED vars
  PROVE  UNCHANGED Funds
<1>1. BackendNext \/ EigenOperatorNext => UNCHANGED Funds
  BY DEF BackendNext, EigenOperatorNext, OnlyBackend, oracleVars, poolVars, Funds
<1>2. NativeNodeNext => UNCHANGED Funds
  BY DEF NativeNodeNext, oracleVars, Funds
<1>3. TokenNext => UNCHANGED Funds
  BY DEF TokenNext, OnlyToken, oracleVars, poolVars, Funds
<1>4. ConfigNext => UNCHANGED Funds
  BY DEF ConfigNext, OnlyConfig, oracleVars, poolVars, Funds
<1>5. QueueNext => UNCHANGED Funds
  BY DEF QueueNext, AddNodeDelegatorContractToQueue, RemoveNodeDelegatorContractsFromQueue,
     UpdateMaxNodeDelegatorLimit, otherThanQueue, oracleVars, Funds
<1>6. PoolAdminNext => UNCHANGED Funds
  BY DEF PoolAdminNext, PoolPause, PoolUnpause, SetMinAmountToDeposit, oracleVars, Funds
<1>7. UNCHANGED vars => UNCHANGED Funds
  BY DEF vars, oracleVars, poolVars, Funds
<1>. QED
  BY <1>1, <1>2, <1>3, <1>4, <1>5, <1>6, <1>7

-----------------------------------------------------------------------------
(* The inductive invariant. *)

LEMMA InitPoolIInv == Init => PoolIInv
<1>. SUFFICES ASSUME Init PROVE PoolIInv
  OBVIOUS
<1>1. IInv
  BY InitIInv DEF Init
<1>2. FundsTypeOK
  BY PoolAssumption DEF PoolAssumption, Init, PoolInit, OracleInit, FundsTypeOK
<1>. QED
  BY <1>1, <1>2 DEF PoolIInv

LEMMA NextPoolIInv == PoolIInv /\ [Next]_vars => PoolIInv'
<1>. SUFFICES ASSUME PoolIInv, [Next]_vars PROVE PoolIInv'
  OBVIOUS
<1>1. IInv'
  BY NodesKeepIInv
<1>2. FundsTypeOK'
  <2>1. FundsTypeOK
    BY DEF PoolIInv
  <2>. QED
    BY <2>1, StakersFunds, KeepersFunds, OracleFunds, OthersKeepFunds, SameFunds DEF Next
<1>. QED
  BY <1>1, <1>2 DEF PoolIInv

\* Every run of the whole system keeps what the NodeDelegators keep on their
\* own, and the pool's and the stakers' tokens stay natural numbers.
THEOREM PoolInductiveInvariant == Spec => []PoolIInv
BY InitPoolIInv, NextPoolIInv, PTL DEF Spec

\* requestWithdrawal, claimWithdrawal and claimWithdrawalYn, with whatever the
\* queue's head, the config and the rates are by then, never leave a staker
\* recorded for a withdrawal that cannot be paid.
THEOREM PoolRequestsBacked == Spec => []RequestsBacked
<1>1. PoolIInv => RequestsBacked
  BY DEF PoolIInv, IInv
<1>. QED
  BY <1>1, PoolInductiveInvariant, PTL

-----------------------------------------------------------------------------
(* Who may change the records, and what a pause stops. *)

\* The stakers' transactions are the only ones that mint, burn, record or pay.
Frozen == <<totalSupply, withdrawalRequests, ynLSDe>>

StakerCalls ==
  \E s \in Stakers :
    \/ \E a \in Assets, amount \in Amounts : DepositAsset(s, a, amount, 0)
    \/ \E amount \in Amounts : RequestWithdrawal(s, amount, primeETH[s])
    \/ \E r \in Roots : ClaimWithdrawal(s, r) \/ ClaimWithdrawalYn(s, r)

LEMMA KeepersFreeze ==
  ASSUME KeeperNext
  PROVE  UNCHANGED Frozen
<1>1. ASSUME NEW n, NEW amounts, NodeReceives(n, amounts)
      PROVE  UNCHANGED withdrawalRequests
  BY <1>1 DEF NodeReceives, ReceiveTokens, ndVars, ndcVars
<1>2. ASSUME NEW i \in DOMAIN nodeDelegatorQueue, NEW a \in Assets, NEW amount \in Amounts,
             TransferAssetToNodeDelegator(i, a, amount)
      PROVE  UNCHANGED Frozen
  BY <1>1, <1>2 DEF TransferAssetToNodeDelegator, primeVars, Frozen
<1>3. ASSUME NEW i \in DOMAIN nodeDelegatorQueue, NEW assets \in SUBSET Assets,
             TransferAssetsToNodeDelegator(i, assets)
      PROVE  UNCHANGED Frozen
  BY <1>1, <1>3 DEF TransferAssetsToNodeDelegator, primeVars, Frozen
<1>4. ASSUME NEW m \in Managers, NEW a \in Assets, NEW b \in Assets, NEW amount \in Amounts,
             SwapAssetWithinDepositPool(m, a, b, amount, 0)
      PROVE  UNCHANGED Frozen
  BY <1>4 DEF SwapAssetWithinDepositPool, ndcVars, primeVars, Frozen
<1>5. ASSUME NEW n \in Nodes, NEW a \in Assets, NEW amount \in Amounts, TransferBack(n, a, amount)
      PROVE  UNCHANGED Frozen
  BY <1>5 DEF TransferBack, TransferBackToLRTDepositPool, ReceiveBack, ndVars, ndcVars,
     primeVars, Frozen
<1>6. ASSUME NEW n \in NDCs, NEW r \in Roots, ClaimInternal(n, r)
      PROVE  UNCHANGED Frozen
  BY <1>6 DEF ClaimInternal, ClaimInternalWithdrawal, ReceiveBack, primeVars, Frozen
<1>. QED
  BY <1>2, <1>3, <1>4, <1>5, <1>6 DEF KeeperNext

LEMMA BackendFreezes ==
  ASSUME BackendNext \/ EigenOperatorNext
  PROVE  UNCHANGED Frozen
<1>1. UNCHANGED <<totalSupply, ynLSDe>>
  BY DEF BackendNext, EigenOperatorNext, OnlyBackend, primeVars, poolVars, fundVars
<1>2. UNCHANGED withdrawalRequests
  BY DEF BackendNext, EigenOperatorNext, EigenLayerStep, DepositAssetsIntoStrategy,
     RequestInternalWithdrawal, NDCDelegateTo, Undelegate, NDCPause, NDCUnpause,
     OperatorUndelegates, ndcVars
<1>. QED
  BY <1>1, <1>2 DEF Frozen

LEMMA OthersFreeze ==
  ASSUME \/ NativeNodeNext \/ OracleNext \/ TokenNext \/ ConfigNext \/ QueueNext
         \/ PoolAdminNext \/ UNCHANGED vars
  PROVE  UNCHANGED Frozen
<1>1. NativeNodeNext => UNCHANGED Frozen
  BY DEF NativeNodeNext, ndVars, ndcVars, primeVars, fundVars, Frozen
<1>2. OracleNext => UNCHANGED Frozen
  BY DEF OracleNext, OnlyOracle, ndVars, ndcVars, primeVars, poolVars, fundVars, Frozen
<1>3. TokenNext => UNCHANGED Frozen
  BY DEF TokenNext, PrimeTransfer, PrimePause, PrimeUnpause, OnlyToken, ndVars, ndcVars,
     poolVars, fundVars, Frozen
<1>4. ConfigNext => UNCHANGED Frozen
  BY DEF ConfigNext, OnlyConfig, ndcVars, primeVars, poolVars, fundVars, Frozen
<1>5. QueueNext => UNCHANGED Frozen
  BY DEF QueueNext, AddNodeDelegatorContractToQueue, RemoveNodeDelegatorContractsFromQueue,
     UpdateMaxNodeDelegatorLimit, otherThanQueue, ndcVars, primeVars, fundVars, Frozen
<1>6. PoolAdminNext => UNCHANGED Frozen
  BY DEF PoolAdminNext, PoolPause, PoolUnpause, SetMinAmountToDeposit, ndcVars, primeVars,
     fundVars, Frozen
<1>7. UNCHANGED vars => UNCHANGED Frozen
  BY DEF vars, ndVars, ndcVars, primeVars, poolVars, fundVars, Frozen
<1>. QED
  BY <1>1, <1>2, <1>3, <1>4, <1>5, <1>6, <1>7

LEMMA OnlyStakerCalls == [Next]_vars => UNCHANGED Frozen \/ StakerCalls
<1>1. ASSUME NEW s \in Stakers, NEW a \in Assets, NEW amount \in Amounts, DonateToPool(s, a, amount)
      PROVE  UNCHANGED Frozen
  BY <1>1 DEF DonateToPool, TakeFrom, ndcVars, primeVars, Frozen
<1>2. StakerNext => UNCHANGED Frozen \/ StakerCalls
  BY <1>1 DEF StakerNext, StakerCalls
<1>. QED
  BY <1>2, KeepersFreeze, BackendFreezes, OthersFreeze DEF Next

\* While the pool is paused nothing is minted, burnt, requested or claimed, by
\* any order of the calls of operators, managers, admins and EigenLayer.
THEOREM PauseStopsStakers == Spec => PauseFreezesStakers
<1>1. StakerCalls => ~poolPaused
  BY DEF StakerCalls, DepositAsset, RequestWithdrawal, ClaimWithdrawal, ClaimWithdrawalYn
<1>2. [Next]_vars => (poolPaused => UNCHANGED <<totalSupply, withdrawalRequests, ynLSDe>>)
  BY <1>1, OnlyStakerCalls DEF Frozen
<1>. QED
  BY <1>2, PTL DEF Spec, PauseFreezesStakers

-----------------------------------------------------------------------------
(* Whom a claim pays. *)

ClaimStep(s, r) == ClaimWithdrawal(s, r) \/ ClaimWithdrawalYn(s, r)

LEMMA RequestersStayInPool == PoolIInv /\ [Next]_vars => RequestersStay
<1>. SUFFICES ASSUME PoolIInv, [Next]_vars PROVE RequestersStay
  OBVIOUS
<1>1. IInv
  BY DEF PoolIInv
<1>2. CASE UNCHANGED withdrawalRequests
  BY <1>2 DEF RequestersStay
<1>3. ASSUME NEW s \in Stakers, NEW a \in Assets, NEW amount \in Amounts, DepositAsset(s, a, amount, 0)
      PROVE  RequestersStay
  BY <1>2, <1>3 DEF DepositAsset, ndcVars
<1>4. ASSUME NEW s \in Stakers, NEW amount \in Amounts, RequestWithdrawal(s, amount, primeETH[s])
      PROVE  RequestersStay
  <2>1. assetStrategy[WITHDRAW_ASSET] \in Strategies
    BY <1>1, <1>4, PoolAssumption
       DEF PoolAssumption, RequestWithdrawal, IInv, NDCTypeOK, ConfigTypeOK
  <2>. QED
    BY <1>1, <1>4, <2>1, QueueKeepsRequesters DEF RequestWithdrawal, NDCRequestWithdrawal
<1>5. ASSUME NEW s \in Stakers, NEW r \in Roots, ClaimStep(s, r)
      PROVE  RequestersStay
  BY <1>1, <1>5, ClaimKeepsRequesters DEF ClaimStep, ClaimWithdrawal, ClaimWithdrawalYn
<1>. QED
  BY <1>2, <1>3, <1>4, <1>5, OnlyStakerCalls DEF Frozen, StakerCalls, ClaimStep

\* Through the pool, too, a withdrawal's requester is fixed until it is paid.
THEOREM PoolRequestersNeverChange == Spec => RequesterFixed
<1>1. UNCHANGED vars => UNCHANGED ndVars
  BY DEF vars
<1>2. PoolIInv /\ [Next]_vars => RequestersStay
  BY RequestersStayInPool
<1>. QED
  BY <1>1, <1>2, PoolInductiveInvariant, PTL DEF Spec, RequesterFixed

\* A record turns DEAD_ADDRESS in a claim of its staker and of its root only.
LEMMA ClaimedByClaim ==
  ASSUME PoolIInv, [Next]_vars, NEW s \in Stakers, NEW r \in Roots, Claimed(s, r)
  PROVE  ClaimStep(s, r)
<1>1. PICK n \in NDCs : /\ withdrawalRequests[n][r] = s
                        /\ withdrawalRequests'[n][r] = DEAD_ADDRESS
  BY DEF Claimed
<1>2. withdrawalRequests' # withdrawalRequests
  BY <1>1
<1>3. withdrawalRequests \in [NDCs -> [Roots -> Stakers \cup {NoStaker, DEAD_ADDRESS}]]
  BY DEF PoolIInv, IInv, NDCTypeOK
<1>4. ASSUME NEW t \in Stakers, NEW amount \in Amounts, RequestWithdrawal(t, amount, primeETH[t])
      PROVE  FALSE
  <2>1. PICK root : withdrawalRequests' = [withdrawalRequests EXCEPT ![LstNdc][root] = t]
    BY <1>4 DEF RequestWithdrawal, NDCRequestWithdrawal
  <2>. QED
    BY <1>1, <1>3, <2>1
<1>5. ASSUME NEW t \in Stakers, NEW q \in Roots, ClaimStep(t, q)
      PROVE  t = s /\ q = r
  <2>1. /\ LstNdc \in NDCs
        /\ withdrawalRequests[LstNdc][q] = t
        /\ withdrawalRequests' = [withdrawalRequests EXCEPT ![LstNdc][q] = DEAD_ADDRESS]
    BY <1>5 DEF ClaimStep, ClaimWithdrawal, ClaimWithdrawalYn, NDCClaimWithdrawal
  <2>. QED
    BY <1>1, <1>3, <2>1
<1>6. ASSUME NEW t \in Stakers, NEW a \in Assets, NEW amount \in Amounts, DepositAsset(t, a, amount, 0)
      PROVE  FALSE
  BY <1>2, <1>6 DEF DepositAsset, ndcVars
<1>7. StakerCalls
  BY <1>2, OnlyStakerCalls DEF Frozen
<1>. QED
  BY <1>4, <1>5, <1>6, <1>7 DEF StakerCalls, ClaimStep

\* The tokens a claim pays.
Paid(s, r) ==
  /\ wallet'[s][Underlying[r.strategy]] + ynLSDe'[s]
       = wallet[s][Underlying[r.strategy]] + ynLSDe[s] + CompletedUnderlying(r)
  /\ \A t \in Stakers \ {s} : wallet'[t] = wallet[t] /\ ynLSDe'[t] = ynLSDe[t]

LEMMA ClaimStepPays ==
  ASSUME PoolIInv, NEW s \in Stakers, NEW r \in Roots, ClaimStep(s, r)
  PROVE  Paid(s, r)
<1>. DEFINE asset == Underlying[r.strategy]
            paid  == CompletedUnderlying(r)
<1>1. paid \in Nat /\ asset \in Assets
  BY PaidType DEF PoolIInv
<1>2. /\ wallet \in [Stakers -> [Assets -> Nat]] /\ ynLSDe \in [Stakers -> Nat]
      /\ wallet[s][asset] \in Nat /\ ynLSDe[s] \in Nat
  BY <1>1 DEF PoolIInv, FundsTypeOK
<1>3. CASE ClaimWithdrawal(s, r)
  <2>1. wallet' = [wallet EXCEPT ![s][asset] = @ + paid] /\ ynLSDe' = ynLSDe
    BY <1>3 DEF ClaimWithdrawal, PayTo
  <2>. HIDE DEF paid, asset
  <2>2. wallet'[s][asset] = wallet[s][asset] + paid
    BY <1>1, <1>2, <2>1
  <2>3. wallet'[s][asset] + ynLSDe'[s] = wallet[s][asset] + ynLSDe[s] + paid
    BY <1>1, <1>2, <2>1, <2>2
  <2>4. \A t \in Stakers \ {s} : wallet'[t] = wallet[t] /\ ynLSDe'[t] = ynLSDe[t]
    BY <1>2, <2>1
  <2>. QED
    BY <2>3, <2>4 DEF Paid, paid, asset
<1>4. CASE ClaimWithdrawalYn(s, r)
  <2>1. ynLSDe' = [ynLSDe EXCEPT ![s] = @ + paid] /\ wallet' = wallet
    BY <1>4 DEF ClaimWithdrawalYn
  <2>. HIDE DEF paid, asset
  <2>2. wallet'[s][asset] + ynLSDe'[s] = wallet[s][asset] + ynLSDe[s] + paid
    BY <1>1, <1>2, <2>1
  <2>3. \A t \in Stakers \ {s} : wallet'[t] = wallet[t] /\ ynLSDe'[t] = ynLSDe[t]
    BY <1>2, <2>1
  <2>. QED
    BY <2>2, <2>3 DEF Paid, paid, asset
<1>. QED
  BY <1>3, <1>4 DEF ClaimStep

\* Whichever claim function is called, with any rate and whatever was slashed,
\* the account whose primeETH was burnt gets what the shares are worth and no
\* other account gets anything.
THEOREM ClaimsPayTheRequester == Spec => ClaimPaysTheRequester
<1>1. PoolIInv /\ [Next]_vars => \A s \in Stakers, r \in Roots : Claimed(s, r) => Paid(s, r)
  BY ClaimedByClaim, ClaimStepPays
<1>. QED
  BY <1>1, PoolInductiveInvariant, PTL DEF Spec, ClaimPaysTheRequester, Paid


-----------------------------------------------------------------------------
(* What a claim costs the pool. *)

\* A total is a function of what the pool and the NodeDelegators of the queue
\* hold, their shares, and the rates.
LEMMA SameTotals ==
  ASSUME UNCHANGED <<poolBalance, nodeDelegatorQueue, ndcBalance, depositShares,
                     pendingInternalShareWithdrawals, assetStrategy, rate, nativeVars>>
  PROVE  TotalAssetDeposits' = TotalAssetDeposits
<1>. DEFINE Worths(a) == [i \in DOMAIN nodeDelegatorQueue |->
                            NodeAssetBalance(nodeDelegatorQueue[i], a)]
<1>1. ASSUME NEW n, NEW a \in Assets
      PROVE  NodeAssetBalance(n, a)' = NodeAssetBalance(n, a)
  BY DEF nativeVars, NodeAssetBalance, NativeAssetBalance, GetAssetBalance, NDCAssets,
     EigenAssets, SharesToUnderlying
<1>2. ASSUME NEW a \in Assets
      PROVE  GetTotalAssetDeposits(a)' = GetTotalAssetDeposits(a)
  <2>1. Worths(a)' = Worths(a)
    BY <1>1
  <2>2. SumFunction(Worths(a))' = SumFunction(Worths(a))
    BY <2>1
  <2>3. /\ GetTotalAssetDeposits(a) = poolBalance[a] + SumFunction(Worths(a))
        /\ GetTotalAssetDeposits(a)' = poolBalance'[a] + SumFunction(Worths(a))'
    BY Zenon DEF GetTotalAssetDeposits
  <2>. QED
    BY <2>2, <2>3
<1>. QED
  BY <1>2 DEF TotalAssetDeposits

\* The shares of a withdrawal stopped counting when it was requested: a claim
\* changes no total of any asset, so no price either.
THEOREM ClaimsCostNothing == Spec => ClaimCostsThePoolNothing
<1>1. ASSUME NEW s \in Stakers, NEW r \in Roots, ClaimStep(s, r)
      PROVE  TotalAssetDeposits' = TotalAssetDeposits
  <2>1. UNCHANGED <<poolBalance, nodeDelegatorQueue, nativeVars>>
    BY <1>1 DEF ClaimStep, ClaimWithdrawal, ClaimWithdrawalYn, PayTo, adminVars, queueVars
  <2>2. UNCHANGED <<ndcBalance, depositShares, pendingInternalShareWithdrawals, assetStrategy, rate>>
    BY <1>1 DEF ClaimStep, ClaimWithdrawal, ClaimWithdrawalYn, NDCClaimWithdrawal,
       CompleteQueuedWithdrawal, configVars
  <2>. QED
    BY <2>1, <2>2, SameTotals
<1>2. PoolIInv /\ [Next]_vars =>
        \A s \in Stakers, r \in Roots : Claimed(s, r) => TotalAssetDeposits' = TotalAssetDeposits
  BY <1>1, ClaimedByClaim
<1>. QED
  BY <1>2, PoolInductiveInvariant, PTL DEF Spec, ClaimCostsThePoolNothing

-----------------------------------------------------------------------------
(* Rounding, for all amounts and prices. *)

\* Truncated division, in terms of multiplication.
LEMMA DivBounds ==
  ASSUME NEW n \in Nat, NEW d \in Nat \ {0}
  PROVE  /\ n \div d \in Nat
         /\ d * (n \div d) <= n
         /\ n < d * (n \div d + 1)
OBVIOUS

\* At any stored price, getMintAmount mints a deposit no more than its worth, and
\* what requestWithdrawal burns is worth more than what it gives, dust amounts
\* that convert to nothing included.
THEOREM RoundingIsThePools ==
  ASSUME primeETHPrice \in Nat \ {0}, assetPrice \in [Assets -> Nat \ {0}],
         NEW asset \in Assets, NEW amount \in Nat
  PROVE  /\ primeETHPrice * GetMintAmount(asset, amount) <= amount * assetPrice[asset]
         /\ amount * assetPrice[WITHDRAW_ASSET] < primeETHPrice * BurnAmount(amount)
<1>1. amount * assetPrice[asset] \in Nat
  OBVIOUS
<1>2. WITHDRAW_ASSET \in Assets
  BY PoolAssumption DEF PoolAssumption
<1>3. amount * assetPrice[WITHDRAW_ASSET] \in Nat
  BY <1>2
<1>4. primeETHPrice * GetMintAmount(asset, amount) <= amount * assetPrice[asset]
  BY <1>1, DivBounds DEF GetMintAmount
<1>5. amount * assetPrice[WITHDRAW_ASSET] < primeETHPrice * BurnAmount(amount)
  BY <1>3, DivBounds DEF GetMintAmount, BurnAmount
<1>. QED
  BY <1>4, <1>5

\* The second hop of a withdrawal: the shares asked of EigenLayer for an amount
\* are never worth more than the amount at the strategy's rate.
THEOREM SharesNeverGain ==
  ASSUME ELTypeOK, NEW s \in Strategies, NEW amount \in Nat
  PROVE  SharesToUnderlying(s, UnderlyingToShares(s, amount)) <= amount
<1>. DEFINE shares == UnderlyingToShares(s, amount)
<1>1. rate[s] \in Nat \ {0} /\ amount * RateUnit \in Nat
  BY DEF ELTypeOK
<1>2. shares \in Nat /\ rate[s] * shares <= amount * RateUnit
  BY <1>1, DivBounds DEF UnderlyingToShares
<1>. HIDE DEF shares
<1>3. shares * rate[s] \in Nat /\ shares * rate[s] <= amount * RateUnit
  BY <1>1, <1>2
<1>. DEFINE worth == (shares * rate[s]) \div RateUnit
<1>4. worth \in Nat /\ RateUnit * worth <= shares * rate[s]
  BY <1>3, DivBounds
<1>. HIDE DEF worth
<1>5. RateUnit * worth <= RateUnit * amount
  BY <1>3, <1>4, <1>1
<1>6. worth <= amount
  BY <1>4, <1>5
<1>. QED
  BY <1>6 DEF worth, shares, SharesToUnderlying

-----------------------------------------------------------------------------
(* The queue of NodeDelegators: what the loops over lists of them compute. *)

\* What the loop of addNodeDelegatorContractToQueue carries along.
Added == [queue : Seq(Nodes), flags : SUBSET Nodes]

LEMMA PushType ==
  ASSUME NEW added \in Added, NEW n \in Nodes
  PROVE  Push(added, n) \in Added
<1>1. added.queue \in Seq(Nodes) /\ added.flags \in SUBSET Nodes
  BY DEF Added
<1>2. Append(added.queue, n) \in Seq(Nodes) /\ added.flags \cup {n} \in SUBSET Nodes
  BY <1>1
<1>. QED
  BY <1>2 DEF Push, Added

\* The loop pushes one NodeDelegator at a time.
LEMMA PushesOneByOne ==
  ASSUME NEW base \in Added, NEW ndcs \in Seq(Nodes)
  PROVE  \E upTo : /\ upTo[0] = base
                   /\ \A k \in 1 .. Len(ndcs) : upTo[k] = Push(upTo[k - 1], ndcs[k])
                   /\ upTo[Len(ndcs)] = FoldLeft(Push, base, ndcs)
<1>. DEFINE D == DOMAIN ndcs
            Loop(g) == g = [T \in SUBSET D |-> IF T = {} THEN base
                                               ELSE Push(g[T \ {Max(T)}], ndcs[Max(T)])]
            iter == CHOOSE g : Loop(g)
            step == [p \in Added \X Nodes |-> Push(p[1], p[2])]
<1>1. D = 1 .. Len(ndcs) /\ Len(ndcs) \in Nat /\ \A i \in D : ndcs[i] \in Nodes
  OBVIOUS
<1>2. \E g : Loop(g)
  <2>1. step \in [Added \X Nodes -> Added]
    BY PushType
  <2>2. PICK g \in [SUBSET D -> Added] : Folds(step, base, ndcs, g)
    BY <2>1, FoldsExist
  <2>3. ASSUME NEW T \in SUBSET D, T # {}
        PROVE  step[g[T \ {Max(T)}], ndcs[Max(T)]] = Push(g[T \ {Max(T)}], ndcs[Max(T)])
    <3>1. Max(T) \in D
      BY <1>1, <2>3, MaxOfIndices
    <3>2. g[T \ {Max(T)}] \in Added /\ ndcs[Max(T)] \in Nodes
      BY <1>1, <3>1
    <3>. QED
      BY <3>2
  <2>4. Loop(g)
    <3>. HIDE DEF step
    <3>. QED
      BY <2>2, <2>3 DEF Folds
  <2>. QED
    BY <2>4
<1>3. Loop(iter) /\ FoldLeft(Push, base, ndcs) = iter[D]
  <2>1. Loop(iter)
    BY <1>2
  <2>2. FoldLeft(Push, base, ndcs) = iter[D]
    BY DEF FoldLeft, MapThenFoldSet
  <2>. QED
    BY <2>1, <2>2
<1>. HIDE DEF iter
<1>4. iter[{}] = base
  BY <1>3
<1>5. ASSUME NEW k \in 1 .. Len(ndcs)
      PROVE  iter[1 .. k] = Push(iter[1 .. (k - 1)], ndcs[k])
  <2>1. 1 .. k \in SUBSET D /\ 1 .. k # {} /\ Max(1 .. k) = k /\ (1 .. k) \ {k} = 1 .. (k - 1)
    BY <1>1, MaxOfPrefix
  <2>. QED
    BY <1>3, <2>1
<1>. DEFINE upTo == [k \in 0 .. Len(ndcs) |-> iter[1 .. k]]
<1>6. upTo[0] = base
  BY <1>1, <1>4
<1>7. ASSUME NEW k \in 1 .. Len(ndcs)
      PROVE  upTo[k] = Push(upTo[k - 1], ndcs[k])
  <2>1. upTo[k] = iter[1 .. k] /\ upTo[k - 1] = iter[1 .. (k - 1)]
    BY <1>1
  <2>. HIDE DEF upTo
  <2>. QED
    BY <1>5, <2>1
<1>8. upTo[Len(ndcs)] = FoldLeft(Push, base, ndcs)
  BY <1>1, <1>3
<1>. HIDE DEF upTo
<1>. QED
  BY <1>6, <1>7, <1>8

\* The queue holds every flagged NodeDelegator, and once.
Matches(queue, flags) == ToSet(queue) = flags /\ IsInjective(queue)

LEMMA PushMatches ==
  ASSUME NEW added \in Added, Matches(added.queue, added.flags), NEW n \in Nodes
  PROVE  /\ Matches(Push(added, n).queue, Push(added, n).flags)
         /\ Len(Push(added, n).queue) <= Len(added.queue) + 1
         /\ added.flags \subseteq Push(added, n).flags
<1>. DEFINE q == added.queue
            longer == Append(q, n)
<1>1. q \in Seq(Nodes) /\ Len(q) \in Nat
  BY DEF Added
<1>2. CASE n \in added.flags
  BY <1>1, <1>2 DEF Push
<1>3. CASE n \notin added.flags
  <2>1. Push(added, n).queue = longer /\ Push(added, n).flags = added.flags \cup {n}
    BY <1>3 DEF Push
  <2>2. /\ longer \in Seq(Nodes) /\ Len(longer) = Len(q) + 1
        /\ DOMAIN longer = 1 .. (Len(q) + 1) /\ DOMAIN q = 1 .. Len(q)
        /\ longer[Len(q) + 1] = n
        /\ \A i \in 1 .. Len(q) : longer[i] = q[i]
    BY <1>1
  <2>. HIDE DEF q, longer
  <2>3. ToSet(longer) = ToSet(q) \cup {n}
    BY <1>1, <2>2 DEF ToSet
  <2>4. \A i \in 1 .. Len(q) : q[i] # n
    BY <1>3, <2>2 DEF Matches, ToSet, q
  <2>5. IsInjective(longer)
    <3>. SUFFICES ASSUME NEW i \in DOMAIN longer, NEW j \in DOMAIN longer, longer[i] = longer[j]
                  PROVE  i = j
      BY DEF IsInjective
    <3>1. \A k \in DOMAIN longer : k \in DOMAIN q \/ k = Len(q) + 1
      BY <1>1, <2>2
    <3>2. \A k, l \in DOMAIN q : q[k] = q[l] => k = l
      BY DEF Matches, IsInjective, q
    <3>. QED
      BY <2>2, <2>4, <3>1, <3>2
  <2>. QED
    BY <1>1, <2>1, <2>2, <2>3, <2>5 DEF Matches, q
<1>. QED
  BY <1>2, <1>3

\* addNodeDelegatorContractToQueue, for any list, duplicates included.
LEMMA AddedMatch ==
  ASSUME NEW base \in Added, Matches(base.queue, base.flags), NEW ndcs \in Seq(Nodes),
         NEW added, added = FoldLeft(Push, base, ndcs)
  PROVE  /\ added \in Added
         /\ Matches(added.queue, added.flags)
         /\ Len(added.queue) <= Len(base.queue) + Len(ndcs)
         /\ base.flags \subseteq added.flags
<1>1. PICK upTo : /\ upTo[0] = base
                  /\ \A k \in 1 .. Len(ndcs) : upTo[k] = Push(upTo[k - 1], ndcs[k])
                  /\ upTo[Len(ndcs)] = added
  BY PushesOneByOne
<1>2. Len(ndcs) \in Nat /\ \A k \in 1 .. Len(ndcs) : ndcs[k] \in Nodes
  OBVIOUS
<1>. DEFINE Fine(k) == /\ upTo[k] \in Added
                       /\ Matches(upTo[k].queue, upTo[k].flags)
                       /\ Len(upTo[k].queue) <= Len(base.queue) + k
                       /\ base.flags \subseteq upTo[k].flags
            Good == {k \in Nat : k <= Len(ndcs) => Fine(k)}
<1>3. \A a \in Added : Len(a.queue) \in Nat
  BY DEF Added
<1>4. 0 \in Good
  BY <1>1, <1>3
<1>5. ASSUME NEW k \in Good
      PROVE  k + 1 \in Good
  <2>. SUFFICES ASSUME k + 1 <= Len(ndcs)
                PROVE  Fine(k + 1)
    <3>. HIDE DEF Fine
    <3>. QED
      OBVIOUS
  <2>1. k \in Nat /\ k + 1 \in 1 .. Len(ndcs) /\ Fine(k)
    BY <1>2
  <2>2. upTo[k + 1] = Push(upTo[k], ndcs[k + 1]) /\ ndcs[k + 1] \in Nodes
    <3>1. (k + 1) - 1 = k
      BY <2>1
    <3>. HIDE DEF Fine
    <3>. QED
      BY <1>1, <1>2, <2>1, <3>1
  <2>3. upTo[k + 1] \in Added
    BY <2>1, <2>2, PushType
  <2>4. /\ Matches(upTo[k + 1].queue, upTo[k + 1].flags)
        /\ Len(upTo[k + 1].queue) <= Len(upTo[k].queue) + 1
        /\ base.flags \subseteq upTo[k + 1].flags
    BY <2>1, <2>2, PushMatches
  <2>5. Len(upTo[k + 1].queue) <= Len(base.queue) + (k + 1)
    <3>. DEFINE longer  == Len(upTo[k + 1].queue)
                before  == Len(upTo[k].queue)
                initial == Len(base.queue)
    <3>1. longer \in Nat /\ before \in Nat /\ initial \in Nat /\ k \in Nat
      BY <1>3, <2>1, <2>3
    <3>2. before <= initial + k /\ longer <= before + 1
      BY <2>1, <2>4
    <3>. HIDE DEF longer, before, initial
    <3>3. longer <= initial + (k + 1)
      BY <3>1, <3>2
    <3>. QED
      BY <3>3 DEF longer, initial
  <2>. QED
    BY <2>3, <2>4, <2>5
<1>. HIDE DEF Fine, Good
<1>6. Good = Nat
  BY <1>4, <1>5, NatSetInduction DEF Good
<1>7. Fine(Len(ndcs))
  BY <1>2, <1>6 DEF Good
<1>. QED
  BY <1>1, <1>7 DEF Fine

-----------------------------------------------------------------------------
(* Removal: the last entry takes the place of the one removed. *)

PlaceOf(q, n) == SelectInSeq(q, LAMBDA m : m = n)

LEMMA SwapAndPopIs ==
  ASSUME NEW q \in Seq(Nodes), NEW n
  PROVE  SwapAndPop(q, n) = [i \in 1 .. (Len(q) - 1) |->
                               IF i = PlaceOf(q, n) THEN q[Len(q)] ELSE q[i]]
<1>. DEFINE place == PlaceOf(q, n)
            swapped == [q EXCEPT ![place] = Last(q)]
            popped == [i \in 1 .. (Len(q) - 1) |-> IF i = place THEN q[Len(q)] ELSE q[i]]
<1>1. Len(q) \in Nat /\ \A i \in 1 .. Len(q) : q[i] \in Nodes
  OBVIOUS
<1>. HIDE DEF place
<1>2. DOMAIN swapped = 1 .. Len(q)
  OBVIOUS
<1>3. \A i \in 1 .. Len(q) : swapped[i] = IF i = place THEN q[Len(q)] ELSE q[i]
  BY DEF Last
<1>4. swapped = [i \in 1 .. Len(q) |-> swapped[i]]
  BY <1>2
<1>5. SwapAndPop(q, n) = Front(swapped)
  BY DEF SwapAndPop, place, PlaceOf
<1>. HIDE DEF swapped
<1>6. \A i \in 1 .. Len(q) : swapped[i] \in Nodes
  BY <1>1, <1>3
<1>7. swapped \in Seq(Nodes) /\ Len(swapped) = Len(q)
  BY <1>1, <1>4, <1>6
<1>8. SwapAndPop(q, n) = [i \in 1 .. (Len(q) - 1) |-> swapped[i]]
  <2>1. SwapAndPop(q, n) = SubSeq(swapped, 1, Len(q) - 1)
    BY <1>5, <1>7 DEF Front
  <2>. QED
    BY <1>1, <1>7, <2>1
<1>9. SwapAndPop(q, n) = popped
  <2>1. \A i \in 1 .. (Len(q) - 1) : i \in 1 .. Len(q)
    BY <1>1
  <2>. QED
    BY <1>3, <1>8, <2>1
<1>. QED
  BY <1>9 DEF popped, place

LEMMA SwapAndPopType ==
  ASSUME NEW q \in Seq(Nodes), NEW n
  PROVE  SwapAndPop(q, n) \in Seq(Nodes)
<1>. DEFINE place == PlaceOf(q, n)
<1>. HIDE DEF place
<1>1. SwapAndPop(q, n) = [i \in 1 .. (Len(q) - 1) |-> IF i = place THEN q[Len(q)] ELSE q[i]]
  BY SwapAndPopIs DEF place
<1>2. \A i \in 1 .. (Len(q) - 1) : (IF i = place THEN q[Len(q)] ELSE q[i]) \in Nodes
  OBVIOUS
<1>3. CASE Len(q) = 0
  <2>1. 1 .. (Len(q) - 1) = {}
    BY <1>3
  <2>2. SwapAndPop(q, n) \in [1 .. 0 -> Nodes]
    BY <1>1, <2>1
  <2>. QED
    BY <2>2, SeqDef
<1>4. CASE Len(q) # 0
  <2>1. Len(q) - 1 \in Nat
    BY <1>4
  <2>. QED
    BY <1>1, <1>2, <2>1
<1>. QED
  BY <1>3, <1>4

\* The one NodeDelegator goes and the others stay, once each.
LEMMA SwapAndPopRemoves ==
  ASSUME NEW q \in Seq(Nodes), IsInjective(q), NEW n \in ToSet(q)
  PROVE  Matches(SwapAndPop(q, n), ToSet(q) \ {n}) /\ Len(SwapAndPop(q, n)) <= Len(q)
<1>. DEFINE last == Len(q)
            popped == SwapAndPop(q, n)
<1>1. last \in Nat /\ DOMAIN q = 1 .. last
  OBVIOUS
<1>2. PICK j \in 1 .. last : q[j] = n
  BY <1>1 DEF ToSet
<1>3. \A i, k \in 1 .. last : q[i] = q[k] => i = k
  BY <1>1 DEF IsInjective
<1>4. PlaceOf(q, n) = j
  <2>1. {i \in 1 .. Len(q) : q[i] = n} = {j}
    BY <1>2, <1>3
  <2>2. Min({j}) = j
    BY <1>2 DEF Min
  <2>. QED
    BY <2>1, <2>2 DEF SelectInSeq, PlaceOf
<1>5. popped = [i \in 1 .. (last - 1) |-> IF i = j THEN q[last] ELSE q[i]]
  BY <1>4, SwapAndPopIs
<1>. HIDE DEF popped, last
<1>6. DOMAIN popped = 1 .. (last - 1) /\ \A i \in 1 .. (last - 1) : i \in 1 .. last /\ i # last
  BY <1>1, <1>5
<1>7. \A i \in 1 .. (last - 1) : popped[i] = IF i = j THEN q[last] ELSE q[i]
  BY <1>5
<1>8. ToSet(popped) = ToSet(q) \ {n}
  <2>1. ASSUME NEW i \in 1 .. (last - 1)
        PROVE  popped[i] \in ToSet(q) \ {n}
    BY <1>1, <1>2, <1>3, <1>6, <1>7 DEF ToSet
  <2>2. ASSUME NEW m \in ToSet(q) \ {n}
        PROVE  m \in ToSet(popped)
    <3>1. PICK i \in 1 .. last : q[i] = m
      BY <1>1 DEF ToSet
    <3>2. CASE i = last
      <4>1. j \in 1 .. (last - 1) /\ popped[j] = m
        BY <1>1, <1>2, <1>7, <3>1, <3>2
      <4>. QED
        BY <1>6, <4>1 DEF ToSet
    <3>3. CASE i # last
      <4>1. i \in 1 .. (last - 1) /\ popped[i] = m
        BY <1>1, <1>2, <1>7, <3>1, <3>3
      <4>. QED
        BY <1>6, <4>1 DEF ToSet
    <3>. QED
      BY <3>2, <3>3
  <2>. QED
    BY <1>6, <2>1, <2>2 DEF ToSet
<1>9. IsInjective(popped)
  <2>. SUFFICES ASSUME NEW i \in DOMAIN popped, NEW k \in DOMAIN popped, popped[i] = popped[k]
                PROVE  i = k
    BY DEF IsInjective
  <2>. QED
    BY <1>1, <1>3, <1>6, <1>7
<1>10. Len(popped) <= last
  <2>1. popped \in Seq(Nodes)
    BY SwapAndPopType DEF popped
  <2>2. Len(popped) \in Nat /\ 1 .. Len(popped) = 1 .. (last - 1)
    BY <1>6, <2>1
  <2>. QED
    BY <1>1, <2>2
<1>. QED
  BY <1>8, <1>9, <1>10 DEF Matches, popped, last

LEMMA PopsOneByOne ==
  ASSUME NEW base \in Seq(Nodes), NEW ndcs \in Seq(Nodes)
  PROVE  \E upTo : /\ upTo[0] = base
                   /\ \A k \in 1 .. Len(ndcs) : upTo[k] = SwapAndPop(upTo[k - 1], ndcs[k])
                   /\ upTo[Len(ndcs)] = FoldLeft(SwapAndPop, base, ndcs)
<1>. DEFINE D == DOMAIN ndcs
            Loop(g) == g = [T \in SUBSET D |-> IF T = {} THEN base
                                               ELSE SwapAndPop(g[T \ {Max(T)}], ndcs[Max(T)])]
            iter == CHOOSE g : Loop(g)
            step == [p \in Seq(Nodes) \X Nodes |-> SwapAndPop(p[1], p[2])]
<1>1. D = 1 .. Len(ndcs) /\ Len(ndcs) \in Nat /\ \A i \in D : ndcs[i] \in Nodes
  OBVIOUS
<1>2. \E g : Loop(g)
  <2>1. step \in [Seq(Nodes) \X Nodes -> Seq(Nodes)]
    BY SwapAndPopType
  <2>2. PICK g \in [SUBSET D -> Seq(Nodes)] : Folds(step, base, ndcs, g)
    BY <2>1, FoldsExist
  <2>3. ASSUME NEW T \in SUBSET D, T # {}
        PROVE  step[g[T \ {Max(T)}], ndcs[Max(T)]] = SwapAndPop(g[T \ {Max(T)}], ndcs[Max(T)])
    <3>1. Max(T) \in D
      BY <1>1, <2>3, MaxOfIndices
    <3>2. g[T \ {Max(T)}] \in Seq(Nodes) /\ ndcs[Max(T)] \in Nodes
      BY <1>1, <3>1
    <3>. QED
      BY <3>2
  <2>4. Loop(g)
    <3>. HIDE DEF step
    <3>. QED
      BY <2>2, <2>3 DEF Folds
  <2>. QED
    BY <2>4
<1>3. Loop(iter) /\ FoldLeft(SwapAndPop, base, ndcs) = iter[D]
  <2>1. Loop(iter)
    BY <1>2
  <2>2. FoldLeft(SwapAndPop, base, ndcs) = iter[D]
    BY DEF FoldLeft, MapThenFoldSet
  <2>. QED
    BY <2>1, <2>2
<1>. HIDE DEF iter
<1>4. iter[{}] = base
  BY <1>3
<1>5. ASSUME NEW k \in 1 .. Len(ndcs)
      PROVE  iter[1 .. k] = SwapAndPop(iter[1 .. (k - 1)], ndcs[k])
  <2>1. 1 .. k \in SUBSET D /\ 1 .. k # {} /\ Max(1 .. k) = k /\ (1 .. k) \ {k} = 1 .. (k - 1)
    BY <1>1, MaxOfPrefix
  <2>. QED
    BY <1>3, <2>1
<1>. DEFINE upTo == [k \in 0 .. Len(ndcs) |-> iter[1 .. k]]
<1>6. upTo[0] = base
  BY <1>1, <1>4
<1>7. ASSUME NEW k \in 1 .. Len(ndcs)
      PROVE  upTo[k] = SwapAndPop(upTo[k - 1], ndcs[k])
  <2>1. upTo[k] = iter[1 .. k] /\ upTo[k - 1] = iter[1 .. (k - 1)]
    BY <1>1
  <2>. HIDE DEF upTo
  <2>. QED
    BY <1>5, <2>1
<1>8. upTo[Len(ndcs)] = FoldLeft(SwapAndPop, base, ndcs)
  BY <1>1, <1>3
<1>. HIDE DEF upTo
<1>. QED
  BY <1>6, <1>7, <1>8

\* removeManyNodeDelegatorContractsFromQueue, for any list of queued
\* NodeDelegators without duplicates, in any order.
LEMMA RemovedMatch ==
  ASSUME NEW q \in Seq(Nodes), IsInjective(q), NEW ndcs \in Seq(Nodes), IsInjective(ndcs),
         ToSet(ndcs) \subseteq ToSet(q), NEW left, left = FoldLeft(SwapAndPop, q, ndcs)
  PROVE  left \in Seq(Nodes) /\ Matches(left, ToSet(q) \ ToSet(ndcs)) /\ Len(left) <= Len(q)
<1>1. PICK upTo : /\ upTo[0] = q
                  /\ \A k \in 1 .. Len(ndcs) : upTo[k] = SwapAndPop(upTo[k - 1], ndcs[k])
                  /\ upTo[Len(ndcs)] = left
  BY PopsOneByOne
<1>2. /\ Len(ndcs) \in Nat /\ DOMAIN ndcs = 1 .. Len(ndcs)
      /\ \A k \in 1 .. Len(ndcs) : ndcs[k] \in Nodes
  OBVIOUS
<1>. DEFINE Gone(k) == {ndcs[i] : i \in 1 .. k}
            Fine(k) == /\ upTo[k] \in Seq(Nodes)
                       /\ Matches(upTo[k], ToSet(q) \ Gone(k))
                       /\ Len(upTo[k]) <= Len(q)
            Good == {k \in Nat : k <= Len(ndcs) => Fine(k)}
<1>3. 0 \in Good
  <2>1. Gone(0) = {} /\ Len(q) \in Nat
    OBVIOUS
  <2>2. Fine(0)
    BY <1>1, <2>1 DEF Matches
  <2>. HIDE DEF Fine
  <2>. QED
    BY <2>2
<1>4. ASSUME NEW k \in Good
      PROVE  k + 1 \in Good
  <2>. SUFFICES ASSUME k + 1 <= Len(ndcs)
                PROVE  Fine(k + 1)
    <3>. HIDE DEF Fine
    <3>. QED
      OBVIOUS
  <2>1. k \in Nat /\ k + 1 \in 1 .. Len(ndcs) /\ Fine(k)
    <3>. HIDE DEF Fine
    <3>. QED
      BY <1>2
  <2>2. upTo[k + 1] = SwapAndPop(upTo[k], ndcs[k + 1])
    <3>1. (k + 1) - 1 = k
      BY <2>1
    <3>. HIDE DEF Fine
    <3>. QED
      BY <1>1, <2>1, <3>1
  <2>3. Gone(k + 1) = Gone(k) \cup {ndcs[k + 1]} /\ ndcs[k + 1] \notin Gone(k)
    <3>1. 1 .. (k + 1) = (1 .. k) \cup {k + 1} /\ k + 1 \notin 1 .. k
      BY <2>1
    <3>. HIDE DEF Fine, Good
    <3>2. \A i \in 1 .. k : i \in 1 .. Len(ndcs) /\ ndcs[i] # ndcs[k + 1]
      <4>1. \A i \in 1 .. k : i \in 1 .. Len(ndcs) /\ i # k + 1
        BY <2>1
      <4>2. \A i, j \in 1 .. Len(ndcs) : ndcs[i] = ndcs[j] => i = j
        BY <1>2 DEF IsInjective
      <4>. QED
        BY <2>1, <4>1, <4>2
    <3>3. Gone(k + 1) = Gone(k) \cup {ndcs[k + 1]}
      BY <3>1
    <3>4. ndcs[k + 1] \notin Gone(k)
      BY <3>2
    <3>. QED
      BY <3>3, <3>4
  <2>4. ndcs[k + 1] \in ToSet(upTo[k])
    <3>1. ndcs[k + 1] \in ToSet(ndcs)
      BY <1>2, <2>1 DEF ToSet
    <3>. QED
      BY <2>1, <2>3, <3>1 DEF Matches
  <2>5. upTo[k] \in Seq(Nodes) /\ IsInjective(upTo[k]) /\ ToSet(upTo[k]) = ToSet(q) \ Gone(k)
    BY <2>1 DEF Matches
  <2>. HIDE DEF Gone, Good
  <2>6. upTo[k + 1] \in Seq(Nodes)
    BY <2>2, <2>5, SwapAndPopType
  <2>7. /\ Matches(upTo[k + 1], ToSet(upTo[k]) \ {ndcs[k + 1]})
        /\ Len(upTo[k + 1]) <= Len(upTo[k])
    BY <2>2, <2>4, <2>5, SwapAndPopRemoves
  <2>8. ToSet(upTo[k]) \ {ndcs[k + 1]} = ToSet(q) \ Gone(k + 1)
    BY <2>3, <2>5
  <2>9. Len(upTo[k + 1]) <= Len(q)
    <3>1. Len(upTo[k + 1]) \in Nat /\ Len(upTo[k]) \in Nat /\ Len(q) \in Nat
      BY <2>5, <2>6
    <3>. QED
      BY <2>1, <2>7, <3>1
  <2>. QED
    BY <2>6, <2>7, <2>8, <2>9
<1>. HIDE DEF Fine, Good
<1>5. Good = Nat
  BY <1>3, <1>4, NatSetInduction DEF Good
<1>6. Fine(Len(ndcs))
  BY <1>2, <1>5 DEF Good
<1>7. Gone(Len(ndcs)) = ToSet(ndcs)
  BY <1>2 DEF ToSet
<1>. QED
  BY <1>1, <1>6, <1>7 DEF Fine

-----------------------------------------------------------------------------
(* The queue, as the system runs. *)

QueueIInv ==
  /\ QueueMatchesFlags
  /\ nodeDelegatorQueue \in Seq(Nodes)
  /\ isNodeDelegator \in SUBSET Nodes
  /\ maxNodeDelegatorLimit \in Nat

LEMMA OthersKeepQueue ==
  ASSUME [Next]_vars, ~QueueNext
  PROVE  UNCHANGED queueVars
<1>1. StakerNext => UNCHANGED queueVars
  BY DEF StakerNext, DepositAsset, DonateToPool, RequestWithdrawal, ClaimWithdrawal,
     ClaimWithdrawalYn, poolVars, adminVars
<1>2. KeeperNext => UNCHANGED queueVars
  BY KeepersLeave DEF adminVars
<1>3. BackendNext \/ EigenOperatorNext => UNCHANGED queueVars
  BY DEF BackendNext, EigenOperatorNext, OnlyBackend, poolVars, adminVars
<1>4. NativeNodeNext \/ OracleNext \/ TokenNext \/ ConfigNext => UNCHANGED queueVars
  BY DEF NativeNodeNext, OracleNext, OnlyOracle, TokenNext, OnlyToken, ConfigNext, OnlyConfig,
     poolVars, adminVars
<1>5. PoolAdminNext => UNCHANGED queueVars
  BY DEF PoolAdminNext, PoolPause, PoolUnpause, SetMinAmountToDeposit
<1>6. UNCHANGED vars => UNCHANGED queueVars
  BY DEF vars, poolVars, adminVars
<1>. QED
  BY <1>1, <1>2, <1>3, <1>4, <1>5, <1>6 DEF Next

LEMMA InitQueue == Init => QueueIInv
<1>. SUFFICES ASSUME Init PROVE QueueIInv
  OBVIOUS
<1>1. /\ nodeDelegatorQueue = InitialQueue /\ isNodeDelegator = ToSet(InitialQueue)
      /\ maxNodeDelegatorLimit \in NdcLimits
  BY DEF Init, PoolInit
<1>2. InitialQueue \in Seq(Nodes) /\ IsInjective(InitialQueue)
  BY PoolAssumption DEF PoolAssumption, Nodes
<1>3. ToSet(InitialQueue) \in SUBSET Nodes
  BY <1>2 DEF ToSet
<1>4. maxNodeDelegatorLimit \in Nat /\ Len(InitialQueue) <= maxNodeDelegatorLimit
  BY <1>1, <1>2, PoolAssumption DEF PoolAssumption
<1>. QED
  BY <1>1, <1>2, <1>3, <1>4 DEF QueueIInv, QueueMatchesFlags

LEMMA NextQueue == QueueIInv /\ [Next]_vars => QueueIInv'
<1>. SUFFICES ASSUME QueueIInv, [Next]_vars PROVE QueueIInv'
  OBVIOUS
<1>1. /\ nodeDelegatorQueue \in Seq(Nodes) /\ IsInjective(nodeDelegatorQueue)
      /\ ToSet(nodeDelegatorQueue) = isNodeDelegator /\ isNodeDelegator \in SUBSET Nodes
      /\ Len(nodeDelegatorQueue) <= maxNodeDelegatorLimit
      /\ maxNodeDelegatorLimit \in Nat /\ Len(nodeDelegatorQueue) \in Nat
  BY DEF QueueIInv, QueueMatchesFlags
<1>2. ASSUME NEW ndcs \in NdcLists, AddNodeDelegatorContractToQueue(ndcs)
      PROVE  QueueIInv'
  <2>. DEFINE base == [queue |-> nodeDelegatorQueue, flags |-> isNodeDelegator]
              added == FoldLeft(Push, base, ndcs)
  <2>1. ndcs \in Seq(Nodes) /\ Len(ndcs) \in Nat
    BY ListsAssumption DEF ListsAssumption
  <2>2. base \in Added /\ Matches(base.queue, base.flags) /\ base.queue = nodeDelegatorQueue
    BY <1>1 DEF Added, Matches
  <2>3. /\ Len(nodeDelegatorQueue) + Len(ndcs) <= maxNodeDelegatorLimit
        /\ nodeDelegatorQueue' = added.queue /\ isNodeDelegator' = added.flags
        /\ UNCHANGED maxNodeDelegatorLimit
    BY <1>2 DEF AddNodeDelegatorContractToQueue
  <2>. HIDE DEF base
  <2>4. /\ added \in Added /\ Matches(added.queue, added.flags)
        /\ Len(added.queue) <= Len(base.queue) + Len(ndcs)
    BY <2>1, <2>2, AddedMatch
  <2>. HIDE DEF added
  <2>5. added.queue \in Seq(Nodes) /\ added.flags \in SUBSET Nodes /\ Len(added.queue) \in Nat
    BY <2>4 DEF Added
  <2>6. Len(nodeDelegatorQueue') <= maxNodeDelegatorLimit'
    BY <1>1, <2>1, <2>2, <2>3, <2>4, <2>5
  <2>. QED
    BY <1>1, <2>3, <2>4, <2>5, <2>6 DEF QueueIInv, QueueMatchesFlags, Matches
<1>3. ASSUME NEW ndcs \in NdcLists, RemoveNodeDelegatorContractsFromQueue(ndcs)
      PROVE  QueueIInv'
  <2>. DEFINE left == FoldLeft(SwapAndPop, nodeDelegatorQueue, ndcs)
  <2>1. ndcs \in Seq(Nodes)
    BY ListsAssumption DEF ListsAssumption
  <2>2. /\ ToSet(ndcs) \subseteq ToSet(nodeDelegatorQueue) /\ IsInjective(ndcs)
        /\ nodeDelegatorQueue' = left /\ isNodeDelegator' = isNodeDelegator \ ToSet(ndcs)
        /\ UNCHANGED maxNodeDelegatorLimit
    BY <1>3 DEF RemoveNodeDelegatorContractsFromQueue
  <2>3. /\ left \in Seq(Nodes) /\ Matches(left, ToSet(nodeDelegatorQueue) \ ToSet(ndcs))
        /\ Len(left) <= Len(nodeDelegatorQueue)
    BY <1>1, <2>1, <2>2, RemovedMatch
  <2>. HIDE DEF left
  <2>4. Len(nodeDelegatorQueue') <= maxNodeDelegatorLimit'
    <3>1. Len(left) \in Nat
      BY <2>3
    <3>. QED
      BY <1>1, <2>2, <2>3, <3>1
  <2>. QED
    BY <1>1, <2>2, <2>3, <2>4 DEF QueueIInv, QueueMatchesFlags, Matches
<1>4. ASSUME NEW limit \in NdcLimits, UpdateMaxNodeDelegatorLimit(limit)
      PROVE  QueueIInv'
  <2>1. limit \in Nat
    BY PoolAssumption DEF PoolAssumption
  <2>. QED
    BY <1>1, <1>4, <2>1 DEF UpdateMaxNodeDelegatorLimit, QueueIInv, QueueMatchesFlags
<1>5. CASE UNCHANGED queueVars
  BY <1>5 DEF queueVars, QueueIInv, QueueMatchesFlags
<1>. QED
  BY <1>2, <1>3, <1>4, <1>5, OthersKeepQueue DEF QueueNext

THEOREM QueueInductiveInvariant == Spec => []QueueIInv
BY InitQueue, NextQueue, PTL DEF Spec

\* Whatever lists of NodeDelegators an admin adds and removes, with duplicates or
\* in any order, the queue holds each flagged one once, no other, and no more
\* than the limit.
THEOREM QueueAlwaysMatches == Spec => []QueueMatchesFlags
<1>1. QueueIInv => QueueMatchesFlags
  BY DEF QueueIInv
<1>. QED
  BY <1>1, QueueInductiveInvariant, PTL

-----------------------------------------------------------------------------
(* Totals *)

LEMMA NodeBalanceType ==
  ASSUME NDCTypeOK, NativeTypeOK, NEW n \in Nodes, NEW a \in Assets
  PROVE  NodeAssetBalance(n, a) \in Nat
<1>1. CASE n \in NativeNDCs
  BY <1>1 DEF NodeAssetBalance, NativeAssetBalance, NativeTypeOK
<1>2. CASE n \notin NativeNDCs
  <2>1. n \in NDCs /\ ndcBalance[n][a] \in Nat
    BY <1>2 DEF Nodes, NDCTypeOK
  <2>2. EigenAssets(n, a) \in Nat
    <3>1. CASE a = WETH \/ assetStrategy[a] = NoStrategy
      BY <3>1 DEF EigenAssets
    <3>2. CASE ~(a = WETH \/ assetStrategy[a] = NoStrategy)
      <4>1. assetStrategy[a] \in Strategies
        BY <3>2 DEF NDCTypeOK, ConfigTypeOK
      <4>2. /\ depositShares[n][assetStrategy[a]] \in Nat
            /\ pendingInternalShareWithdrawals[n][assetStrategy[a]] \in Nat
        BY <2>1, <4>1 DEF NDCTypeOK, ELTypeOK
      <4>3. depositShares[n][assetStrategy[a]]
              + pendingInternalShareWithdrawals[n][assetStrategy[a]] \in Nat
        BY <4>2
      <4>. QED
        BY <3>2, <4>1, <4>3, SharesType DEF EigenAssets, NDCTypeOK
    <3>. QED
      BY <3>1, <3>2
  <2>. QED
    BY <1>2, <2>1, <2>2 DEF NodeAssetBalance, GetAssetBalance, NDCAssets
<1>. QED
  BY <1>1, <1>2

\* What the NodeDelegators of the queue hold of an asset.
QueueWorths(a) ==
  [i \in DOMAIN nodeDelegatorQueue |-> NodeAssetBalance(nodeDelegatorQueue[i], a)]

LEMMA TotalIs ==
  ASSUME NEW a \in Assets
  PROVE  GetTotalAssetDeposits(a)
           = poolBalance[a] + SumFunctionOnSet(QueueWorths(a), DOMAIN nodeDelegatorQueue)
BY DEF GetTotalAssetDeposits, SumFunction, QueueWorths

LEMMA QueueWorthsType ==
  ASSUME NDCTypeOK, NativeTypeOK, QueueIInv, NEW a \in Assets
  PROVE  /\ IsFiniteSet(DOMAIN nodeDelegatorQueue)
         /\ \A i \in DOMAIN nodeDelegatorQueue : nodeDelegatorQueue[i] \in Nodes
         /\ \A i \in DOMAIN nodeDelegatorQueue : QueueWorths(a)[i] \in Nat
<1>1. DOMAIN nodeDelegatorQueue = 1 .. Len(nodeDelegatorQueue) /\ Len(nodeDelegatorQueue) \in Nat
  BY DEF QueueIInv
<1>2. IsFiniteSet(DOMAIN nodeDelegatorQueue)
  BY <1>1, FS_Interval
<1>3. \A i \in DOMAIN nodeDelegatorQueue : nodeDelegatorQueue[i] \in Nodes
  BY DEF QueueIInv
<1>4. \A i \in DOMAIN nodeDelegatorQueue : QueueWorths(a)[i] \in Nat
  BY <1>3, NodeBalanceType DEF QueueWorths
<1>. QED
  BY <1>2, <1>3, <1>4

LEMMA TotalType ==
  ASSUME NDCTypeOK, NativeTypeOK, QueueIInv, poolBalance \in [Assets -> Nat], NEW a \in Assets
  PROVE  GetTotalAssetDeposits(a) \in Nat
<1>1. SumFunctionOnSet(QueueWorths(a), DOMAIN nodeDelegatorQueue) \in Nat
  BY QueueWorthsType, SumNat
<1>2. poolBalance[a] \in Nat
  OBVIOUS
<1>. QED
  BY <1>1, <1>2, TotalIs

LEMMA ValueType ==
  ASSUME supportedAssets \in SUBSET Assets, assetPrice \in [Assets -> Nat \ {0}],
         NEW total \in [Assets -> Nat]
  PROVE  ValueOf(total) \in Nat
<1>. DEFINE worths == [a \in supportedAssets |-> total[a] * assetPrice[a]]
<1>1. IsFiniteSet(supportedAssets)
  BY PoolAssumption, FS_Subset DEF PoolAssumption
<1>2. \A a \in supportedAssets : worths[a] \in Nat
  OBVIOUS
<1>3. ValueOf(total) = SumFunctionOnSet(worths, supportedAssets)
  BY DEF ValueOf, SumFunction
<1>. HIDE DEF worths
<1>. QED
  BY <1>1, <1>2, <1>3, SumNat

LEMMA MintAmountType ==
  ASSUME primeETHPrice \in Nat \ {0}, assetPrice \in [Assets -> Nat \ {0}],
         NEW a \in Assets, NEW amount \in Nat
  PROVE  GetMintAmount(a, amount) \in Nat
<1>1. amount * assetPrice[a] \in Nat
  OBVIOUS
<1>. QED
  BY <1>1, DivNat DEF GetMintAmount

-----------------------------------------------------------------------------
(* The token: its supply is what the accounts hold. *)

PrimeIInv == PrimeTypeOK /\ totalSupply = SumFunctionOnSet(primeETH, Stakers)

LEMMA StakersFinite == IsFiniteSet(Stakers)
BY PoolAssumption DEF PoolAssumption

LEMMA InitPrime == PrimeInit => PrimeIInv
<1>. SUFFICES ASSUME PrimeInit PROVE PrimeIInv
  OBVIOUS
<1>1. PrimeTypeOK
  BY DEF PrimeInit, PrimeTypeOK
<1>2. SumFunctionOnSet(primeETH, Stakers) = 0
  <2>. DEFINE Good == {T \in SUBSET Stakers : SumFunctionOnSet(primeETH, T) = 0}
  <2>1. {} \in Good
    BY SumEmpty
  <2>2. ASSUME NEW T \in SUBSET Stakers, T # {}, \A s \in T : T \ {s} \in Good
        PROVE  T \in Good
    <3>1. PICK s \in T : TRUE
      BY <2>2
    <3>2. IsFiniteSet(T) /\ \A t \in T : primeETH[t] \in Int
      BY StakersFinite, FS_Subset DEF PrimeInit
    <3>3. SumFunctionOnSet(primeETH, T) = primeETH[s] + SumFunctionOnSet(primeETH, T \ {s})
      BY <3>2, SumRemove
    <3>4. primeETH[s] = 0 /\ SumFunctionOnSet(primeETH, T \ {s}) = 0
      BY <2>2 DEF PrimeInit
    <3>. QED
      BY <3>3, <3>4
  <2>. HIDE DEF Good
  <2>3. Good = SUBSET Stakers
    <3>1. Good \in SUBSET SUBSET Stakers
      BY DEF Good
    <3>. QED
      BY <2>1, <2>2, <3>1, StakersFinite, SetInduction
  <2>. QED
    BY <2>3 DEF Good
<1>. QED
  BY <1>1, <1>2 DEF PrimeIInv, PrimeInit

LEMMA MintPrime ==
  ASSUME PrimeIInv, NEW s \in Stakers, NEW amount \in Nat, Mint(s, amount)
  PROVE  PrimeIInv'
<1>1. PrimeTypeOK'
  BY DEF PrimeIInv, PrimeTypeOK, Mint
<1>2. /\ primeETH' = [primeETH EXCEPT ![s] = @ + amount] /\ totalSupply' = totalSupply + amount
      /\ primeETH \in [Stakers -> Nat] /\ totalSupply = SumFunctionOnSet(primeETH, Stakers)
      /\ primeETH[s] \in Nat /\ totalSupply \in Nat
  BY DEF Mint, PrimeIInv, PrimeTypeOK
<1>3. SumFunctionOnSet(primeETH', Stakers)
        = SumFunctionOnSet(primeETH, Stakers) + (primeETH'[s] - primeETH[s])
  <2>1. \A t \in Stakers : primeETH[t] \in Int /\ primeETH'[t] \in Int
    BY <1>1, <1>2 DEF PrimeTypeOK
  <2>2. \A t \in Stakers \ {s} : primeETH'[t] = primeETH[t]
    BY <1>2
  <2>. QED
    BY <2>1, <2>2, StakersFinite, SumChange
<1>4. primeETH'[s] - primeETH[s] = amount
  BY <1>2
<1>. QED
  BY <1>1, <1>2, <1>3, <1>4 DEF PrimeIInv

LEMMA BurnPrime ==
  ASSUME PrimeIInv, NEW s \in Stakers, NEW amount \in Nat, BurnFrom(s, amount)
  PROVE  PrimeIInv'
<1>1. /\ primeETH' = [primeETH EXCEPT ![s] = @ - amount] /\ totalSupply' = totalSupply - amount
      /\ primeETH \in [Stakers -> Nat] /\ totalSupply = SumFunctionOnSet(primeETH, Stakers)
      /\ primeETH[s] \in Nat /\ totalSupply \in Nat /\ amount <= primeETH[s]
      /\ UNCHANGED primePaused /\ primePaused \in BOOLEAN
  BY DEF BurnFrom, PrimeIInv, PrimeTypeOK
<1>2. primeETH[s] - amount \in Nat /\ primeETH' \in [Stakers -> Nat]
  BY <1>1
<1>3. SumFunctionOnSet(primeETH', Stakers)
        = SumFunctionOnSet(primeETH, Stakers) + (primeETH'[s] - primeETH[s])
  <2>1. \A t \in Stakers : primeETH[t] \in Int /\ primeETH'[t] \in Int
    BY <1>1, <1>2
  <2>2. \A t \in Stakers \ {s} : primeETH'[t] = primeETH[t]
    BY <1>1
  <2>. QED
    BY <2>1, <2>2, StakersFinite, SumChange
<1>4. primeETH'[s] - primeETH[s] = -amount
  BY <1>1
<1>5. totalSupply' = SumFunctionOnSet(primeETH', Stakers)
  BY <1>1, <1>3, <1>4
<1>6. totalSupply' \in Nat
  BY <1>2, <1>5, StakersFinite, SumNat
<1>. QED
  BY <1>1, <1>2, <1>5, <1>6 DEF PrimeIInv, PrimeTypeOK

\* A transfer, to oneself too, moves an amount within the sum.
LEMMA TransferPrime ==
  ASSUME PrimeIInv, NEW s \in Stakers, NEW t \in Stakers, NEW amount \in Nat,
         PrimeTransfer(s, t, amount)
  PROVE  PrimeIInv'
<1>. DEFINE taken == [primeETH EXCEPT ![s] = @ - amount]
            given == [taken EXCEPT ![t] = @ + amount]
<1>1. /\ primeETH \in [Stakers -> Nat] /\ totalSupply = SumFunctionOnSet(primeETH, Stakers)
      /\ totalSupply \in Nat /\ amount <= primeETH[s]
      /\ UNCHANGED <<totalSupply, primePaused>> /\ primePaused \in BOOLEAN
  BY DEF PrimeTransfer, PrimeIInv, PrimeTypeOK
<1>2. primeETH' = given
  BY DEF PrimeTransfer
<1>3. taken \in [Stakers -> Nat] /\ taken[s] = primeETH[s] - amount
      /\ \A y \in Stakers \ {s} : taken[y] = primeETH[y]
  BY <1>1
<1>. HIDE DEF taken
<1>4. given \in [Stakers -> Nat] /\ given[t] = taken[t] + amount
      /\ \A y \in Stakers \ {t} : given[y] = taken[y]
  BY <1>3
<1>. HIDE DEF given
<1>5. SumFunctionOnSet(taken, Stakers)
        = SumFunctionOnSet(primeETH, Stakers) + (taken[s] - primeETH[s])
  <2>1. \A y \in Stakers : primeETH[y] \in Int /\ taken[y] \in Int
    BY <1>1, <1>3
  <2>. QED
    BY <1>3, <2>1, StakersFinite, SumChange
<1>6. SumFunctionOnSet(given, Stakers)
        = SumFunctionOnSet(taken, Stakers) + (given[t] - taken[t])
  BY <1>3, <1>4, StakersFinite, SumChange
<1>7. taken[s] - primeETH[s] = -amount /\ given[t] - taken[t] = amount
  BY <1>1, <1>3, <1>4
<1>8. SumFunctionOnSet(given, Stakers) = totalSupply
  BY <1>1, <1>5, <1>6, <1>7
<1>. QED
  BY <1>1, <1>2, <1>4, <1>8 DEF PrimeIInv, PrimeTypeOK

-----------------------------------------------------------------------------
(* Type correctness of the whole system *)

SystemIInv ==
  /\ PoolIInv
  /\ QueueIInv
  /\ PrimeIInv
  /\ NativeTypeOK
  /\ primeETHPrice \in Nat
  /\ minAmountToDeposit \in Nat
  /\ poolPaused \in BOOLEAN

LEMMA StakersPrime ==
  ASSUME SystemIInv, StakerNext
  PROVE  PrimeIInv'
<1>1. PrimeIInv /\ primeETHPrice \in Nat /\ assetPrice \in [Assets -> Nat \ {0}]
  BY DEF SystemIInv, PoolIInv, FundsTypeOK
<1>2. ASSUME UNCHANGED primeVars
      PROVE  PrimeIInv'
  BY <1>1, <1>2 DEF primeVars, PrimeIInv, PrimeTypeOK
<1>3. ASSUME NEW s \in Stakers, NEW a \in Assets, NEW amount \in Amounts, DepositAsset(s, a, amount, 0)
      PROVE  PrimeIInv'
  <2>1. primeETHPrice # 0 /\ Mint(s, GetMintAmount(a, amount))
    BY <1>3 DEF DepositAsset
  <2>2. GetMintAmount(a, amount) \in Nat
    BY <1>1, <2>1, MintAmountType
  <2>. QED
    BY <1>1, <2>1, <2>2, MintPrime
<1>4. ASSUME NEW s \in Stakers, NEW amount \in Amounts, RequestWithdrawal(s, amount, primeETH[s])
      PROVE  PrimeIInv'
  <2>1. primeETHPrice # 0 /\ BurnFrom(s, BurnAmount(amount))
    BY <1>4 DEF RequestWithdrawal
  <2>2. WITHDRAW_ASSET \in Assets
    BY PoolAssumption DEF PoolAssumption
  <2>3. GetMintAmount(WITHDRAW_ASSET, amount) \in Nat
    BY <1>1, <2>1, <2>2, MintAmountType
  <2>4. BurnAmount(amount) \in Nat
    BY <2>3 DEF BurnAmount
  <2>. QED
    BY <1>1, <2>1, <2>4, BurnPrime
<1>5. ASSUME NEW s \in Stakers, NEW r \in Roots, ClaimWithdrawal(s, r) \/ ClaimWithdrawalYn(s, r)
      PROVE  UNCHANGED primeVars
  BY <1>5 DEF ClaimWithdrawal, ClaimWithdrawalYn
<1>6. ASSUME NEW s \in Stakers, NEW a \in Assets, NEW amount \in Amounts, DonateToPool(s, a, amount)
      PROVE  UNCHANGED primeVars
  BY <1>6 DEF DonateToPool
<1>. QED
  BY <1>2, <1>3, <1>4, <1>5, <1>6 DEF StakerNext

LEMMA TokenPrime ==
  ASSUME PrimeIInv, TokenNext
  PROVE  PrimeIInv'
<1>1. ASSUME PrimePause \/ PrimeUnpause
      PROVE  PrimeIInv'
  BY <1>1, Zenon DEF PrimePause, PrimeUnpause, PrimeIInv, PrimeTypeOK
<1>2. ASSUME NEW s \in Stakers, NEW t \in Stakers, NEW amount \in Amounts, PrimeTransfer(s, t, amount)
      PROVE  PrimeIInv'
  BY <1>2, TransferPrime
<1>. QED
  BY <1>1, <1>2 DEF TokenNext

LEMMA OthersKeepPrime ==
  ASSUME \/ KeeperNext \/ BackendNext \/ EigenOperatorNext \/ NativeNodeNext \/ OracleNext
         \/ ConfigNext \/ QueueNext \/ PoolAdminNext \/ UNCHANGED vars
  PROVE  UNCHANGED primeVars
<1>1. KeeperNext => UNCHANGED primeVars
  BY KeepersLeave
<1>2. BackendNext \/ EigenOperatorNext => UNCHANGED primeVars
  BY DEF BackendNext, EigenOperatorNext, OnlyBackend
<1>3. NativeNodeNext \/ OracleNext \/ ConfigNext => UNCHANGED primeVars
  BY DEF NativeNodeNext, OracleNext, OnlyOracle, ConfigNext, OnlyConfig
<1>4. QueueNext => UNCHANGED primeVars
  BY DEF QueueNext, AddNodeDelegatorContractToQueue, RemoveNodeDelegatorContractsFromQueue,
     UpdateMaxNodeDelegatorLimit, otherThanQueue
<1>5. PoolAdminNext => UNCHANGED primeVars
  BY DEF PoolAdminNext, PoolPause, PoolUnpause, SetMinAmountToDeposit
<1>6. UNCHANGED vars => UNCHANGED primeVars
  BY DEF vars
<1>. QED
  BY <1>1, <1>2, <1>3, <1>4, <1>5, <1>6

LEMMA NextPrime == SystemIInv /\ [Next]_vars => PrimeIInv'
<1>. SUFFICES ASSUME SystemIInv, [Next]_vars PROVE PrimeIInv'
  OBVIOUS
<1>1. PrimeIInv
  BY DEF SystemIInv
<1>2. ASSUME UNCHANGED primeVars
      PROVE  PrimeIInv'
  BY <1>1, <1>2 DEF primeVars, PrimeIInv, PrimeTypeOK
<1>. QED
  BY <1>1, <1>2, StakersPrime, TokenPrime, OthersKeepPrime DEF Next

\* The NodeDelegators of native ether: no stake, claim or transfer back is more
\* than there is.
LEMMA ReceiveNative ==
  ASSUME NativeTypeOK, NEW n, NEW amounts \in [Assets -> Nat], NodeReceives(n, amounts)
  PROVE  NativeTypeOK'
BY DEF NodeReceives, NativeReceives, NativeTypeOK, nativeVars

LEMMA KeepersNative ==
  ASSUME PoolIInv, NativeTypeOK, KeeperNext
  PROVE  NativeTypeOK'
<1>1. poolBalance \in [Assets -> Nat]
  BY DEF PoolIInv, FundsTypeOK
<1>2. ASSUME UNCHANGED nativeVars
      PROVE  NativeTypeOK'
  BY <1>2 DEF nativeVars, NativeTypeOK
<1>3. ASSUME NEW i \in DOMAIN nodeDelegatorQueue, NEW a \in Assets, NEW amount \in Amounts,
             TransferAssetToNodeDelegator(i, a, amount)
      PROVE  NativeTypeOK'
  <2>. DEFINE amounts == [b \in Assets |-> IF b = a THEN amount ELSE 0]
  <2>1. amounts \in [Assets -> Nat]
    OBVIOUS
  <2>2. NodeReceives(nodeDelegatorQueue[i], amounts)
    BY <1>3 DEF TransferAssetToNodeDelegator
  <2>. QED
    BY <2>1, <2>2, ReceiveNative
<1>4. ASSUME NEW i \in DOMAIN nodeDelegatorQueue, NEW assets \in SUBSET Assets,
             TransferAssetsToNodeDelegator(i, assets)
      PROVE  NativeTypeOK'
  <2>. DEFINE amounts == [b \in Assets |-> IF b \in assets THEN poolBalance[b] ELSE 0]
  <2>1. amounts \in [Assets -> Nat]
    BY <1>1
  <2>2. NodeReceives(nodeDelegatorQueue[i], amounts)
    BY <1>4 DEF TransferAssetsToNodeDelegator
  <2>. QED
    BY <2>1, <2>2, ReceiveNative
<1>5. ASSUME NEW m \in Managers, NEW a \in Assets, NEW b \in Assets, NEW amount \in Amounts,
             SwapAssetWithinDepositPool(m, a, b, amount, 0)
      PROVE  UNCHANGED nativeVars
  BY <1>5 DEF SwapAssetWithinDepositPool
<1>6. ASSUME NEW n \in Nodes, NEW a \in Assets, NEW amount \in Amounts, TransferBack(n, a, amount)
      PROVE  NativeTypeOK'
  <2>1. CASE UNCHANGED nativeVars
    BY <1>2, <2>1
  <2>2. CASE n \in NativeNDCs /\ NativeSendsBack(n, a, amount)
    <3>1. nativeLiquid[n][a] \in Nat /\ nativeLiquid[n][a] - amount \in Nat
      BY <2>2 DEF NativeTypeOK, NativeSendsBack
    <3>. QED
      BY <2>2, <3>1 DEF NativeTypeOK, NativeSendsBack
  <2>. QED
    BY <1>6, <2>1, <2>2 DEF TransferBack
<1>7. ASSUME NEW n \in NDCs, NEW r \in Roots, ClaimInternal(n, r)
      PROVE  UNCHANGED nativeVars
  BY <1>7 DEF ClaimInternal
<1>. QED
  BY <1>2, <1>3, <1>4, <1>5, <1>6, <1>7 DEF KeeperNext

LEMMA NativeNative ==
  ASSUME NativeTypeOK, NativeNodeNext
  PROVE  NativeTypeOK'
<1>1. FULL_STAKE \in Nat /\ WETH \in Assets
  BY PoolAssumption DEF PoolAssumption
<1>2. PICK n \in NativeNDCs :
        \/ \E amount \in Amounts :
             NativeReceives(n, [a \in Assets |-> IF a = WETH THEN amount ELSE 0])
        \/ NativeStakes(n, FULL_STAKE)
        \/ \E claimed \in Amounts, exits \in 0 .. nativeStaked[n] :
             NativeClaims(n, claimed, exits * FULL_STAKE)
  BY DEF NativeNodeNext
<1>3. nativeLiquid[n][WETH] \in Nat /\ nativeStaked[n] \in Nat
  BY <1>1 DEF NativeTypeOK
<1>4. ASSUME NEW amount \in Amounts,
             NativeReceives(n, [a \in Assets |-> IF a = WETH THEN amount ELSE 0])
      PROVE  NativeTypeOK'
  BY <1>4 DEF NativeReceives, NativeTypeOK
<1>5. ASSUME NativeStakes(n, FULL_STAKE)
      PROVE  NativeTypeOK'
  <2>1. nativeLiquid[n][WETH] - FULL_STAKE \in Nat
    BY <1>1, <1>3, <1>5 DEF NativeStakes
  <2>. QED
    BY <1>1, <1>3, <1>5, <2>1 DEF NativeStakes, NativeTypeOK
<1>6. ASSUME NEW claimed \in Amounts, NEW exits \in 0 .. nativeStaked[n],
             NativeClaims(n, claimed, exits * FULL_STAKE)
      PROVE  NativeTypeOK'
  <2>. DEFINE exited == exits * FULL_STAKE
  <2>1. exited \in Nat
    BY <1>1, <1>3
  <2>2. /\ exited <= nativeStaked[n]
        /\ nativeLiquid' = [nativeLiquid EXCEPT ![n][WETH] = @ + claimed]
        /\ nativeStaked' = [nativeStaked EXCEPT ![n] = @ - exited]
    BY <1>6 DEF NativeClaims
  <2>. HIDE DEF exited
  <2>3. nativeStaked[n] - exited \in Nat /\ nativeLiquid[n][WETH] + claimed \in Nat
    BY <1>3, <2>1, <2>2
  <2>. QED
    BY <2>2, <2>3 DEF NativeTypeOK
<1>. QED
  BY <1>2, <1>4, <1>5, <1>6

LEMMA OthersKeepNative ==
  ASSUME \/ StakerNext \/ BackendNext \/ EigenOperatorNext \/ OracleNext \/ TokenNext
         \/ ConfigNext \/ QueueNext \/ PoolAdminNext \/ UNCHANGED vars
  PROVE  UNCHANGED nativeVars
<1>1. StakerNext => UNCHANGED nativeVars
  BY DEF StakerNext, DepositAsset, DonateToPool, RequestWithdrawal, ClaimWithdrawal,
     ClaimWithdrawalYn, poolVars
<1>2. BackendNext \/ EigenOperatorNext => UNCHANGED nativeVars
  BY DEF BackendNext, EigenOperatorNext, OnlyBackend, poolVars
<1>3. OracleNext \/ TokenNext \/ ConfigNext => UNCHANGED nativeVars
  BY DEF OracleNext, OnlyOracle, TokenNext, OnlyToken, ConfigNext, OnlyConfig, poolVars
<1>4. QueueNext => UNCHANGED nativeVars
  BY DEF QueueNext, AddNodeDelegatorContractToQueue, RemoveNodeDelegatorContractsFromQueue,
     UpdateMaxNodeDelegatorLimit, otherThanQueue
<1>5. PoolAdminNext => UNCHANGED nativeVars
  BY DEF PoolAdminNext, PoolPause, PoolUnpause, SetMinAmountToDeposit
<1>6. UNCHANGED vars => UNCHANGED nativeVars
  BY DEF vars, poolVars
<1>. QED
  BY <1>1, <1>2, <1>3, <1>4, <1>5, <1>6

LEMMA NextNative == PoolIInv /\ NativeTypeOK /\ [Next]_vars => NativeTypeOK'
<1>. SUFFICES ASSUME PoolIInv, NativeTypeOK, [Next]_vars PROVE NativeTypeOK'
  OBVIOUS
<1>1. ASSUME UNCHANGED nativeVars
      PROVE  NativeTypeOK'
  BY <1>1 DEF nativeVars, NativeTypeOK
<1>. QED
  BY <1>1, KeepersNative, NativeNative, OthersKeepNative DEF Next
\* Totals, values and their quotient by the supply are natural numbers, and every
\* other step leaves the stored price alone.
LEMMA NextPrice ==
  ASSUME SystemIInv, [Next]_vars
  PROVE  primeETHPrice' \in Nat
<1>1. primeETHPrice \in Nat
  BY DEF SystemIInv
<1>2. ASSUME NEW supply, supply = totalSupply, UpdatePrimeETHPrice(TotalAssetDeposits, supply)
      PROVE  primeETHPrice' \in Nat
  <2>1. supply \in Nat
    BY <1>2 DEF SystemIInv, PrimeIInv, PrimeTypeOK
  <2>2. TotalAssetDeposits \in [Assets -> Nat]
    BY TotalType DEF SystemIInv, PoolIInv, IInv, FundsTypeOK, TotalAssetDeposits
  <2>3. ValueOf(TotalAssetDeposits) \in Nat
    BY <2>2, ValueType DEF SystemIInv, PoolIInv, IInv, FundsTypeOK, NDCTypeOK, ConfigTypeOK
  <2>4. CASE supply = 0
    BY <1>2, <2>4 DEF UpdatePrimeETHPrice
  <2>5. CASE supply # 0
    <3>1. supply \in Nat \ {0}
      BY <2>1, <2>5
    <3>2. ValueOf(TotalAssetDeposits) \div supply \in Nat
      BY <2>3, <3>1, DivNat
    <3>. QED
      BY <1>2, <2>5, <3>2 DEF UpdatePrimeETHPrice
  <2>. QED
    BY <2>4, <2>5
<1>3. OracleNext => primeETHPrice' \in Nat
  BY <1>1, <1>2 DEF OracleNext, FeedMoves
<1>4. StakerNext => UNCHANGED primeETHPrice
  BY DEF StakerNext, DepositAsset, DonateToPool, RequestWithdrawal, ClaimWithdrawal,
     ClaimWithdrawalYn, oracleVars
<1>5. KeeperNext => UNCHANGED primeETHPrice
  BY KeepersLeave DEF oracleVars
<1>6. BackendNext \/ EigenOperatorNext => UNCHANGED primeETHPrice
  BY DEF BackendNext, EigenOperatorNext, OnlyBackend, oracleVars
<1>7. NativeNodeNext \/ TokenNext \/ ConfigNext => UNCHANGED primeETHPrice
  BY DEF NativeNodeNext, TokenNext, OnlyToken, ConfigNext, OnlyConfig, oracleVars
<1>8. QueueNext => UNCHANGED primeETHPrice
  BY DEF QueueNext, AddNodeDelegatorContractToQueue, RemoveNodeDelegatorContractsFromQueue,
     UpdateMaxNodeDelegatorLimit, otherThanQueue, oracleVars
<1>9. PoolAdminNext => UNCHANGED primeETHPrice
  BY DEF PoolAdminNext, PoolPause, PoolUnpause, SetMinAmountToDeposit, oracleVars
<1>10. UNCHANGED vars => UNCHANGED primeETHPrice
  BY DEF vars, oracleVars
<1>. QED
  BY <1>1, <1>3, <1>4, <1>5, <1>6, <1>7, <1>8, <1>9, <1>10 DEF Next

\* Only its administration touches the pool's minimum and its pause.
Settings == <<minAmountToDeposit, poolPaused>>

LEMMA OthersKeepSettings ==
  ASSUME \/ StakerNext \/ KeeperNext \/ BackendNext \/ NativeNodeNext \/ EigenOperatorNext
         \/ OracleNext \/ TokenNext \/ ConfigNext \/ QueueNext \/ UNCHANGED vars
  PROVE  UNCHANGED Settings
<1>1. StakerNext => UNCHANGED Settings
  BY DEF StakerNext, DepositAsset, DonateToPool, RequestWithdrawal, ClaimWithdrawal,
     ClaimWithdrawalYn, poolVars, adminVars, Settings
<1>2. KeeperNext => UNCHANGED Settings
  BY KeepersLeave DEF adminVars, Settings
<1>3. BackendNext \/ EigenOperatorNext => UNCHANGED Settings
  BY DEF BackendNext, EigenOperatorNext, OnlyBackend, poolVars, adminVars, Settings
<1>4. NativeNodeNext \/ OracleNext \/ TokenNext \/ ConfigNext => UNCHANGED Settings
  BY DEF NativeNodeNext, OracleNext, OnlyOracle, TokenNext, OnlyToken, ConfigNext, OnlyConfig,
     poolVars, adminVars, Settings
<1>5. QueueNext => UNCHANGED Settings
  BY DEF QueueNext, AddNodeDelegatorContractToQueue, RemoveNodeDelegatorContractsFromQueue,
     UpdateMaxNodeDelegatorLimit, otherThanQueue, Settings
<1>6. UNCHANGED vars => UNCHANGED Settings
  BY DEF vars, poolVars, adminVars, Settings
<1>. QED
  BY <1>1, <1>2, <1>3, <1>4, <1>5, <1>6

LEMMA NextSettings ==
  ASSUME minAmountToDeposit \in Nat, poolPaused \in BOOLEAN, [Next]_vars
  PROVE  minAmountToDeposit' \in Nat /\ poolPaused' \in BOOLEAN
<1>1. ASSUME PoolPause \/ PoolUnpause
      PROVE  minAmountToDeposit' \in Nat /\ poolPaused' \in BOOLEAN
  <2>1. poolPaused' \in BOOLEAN
    BY <1>1, Zenon DEF PoolPause, PoolUnpause
  <2>2. UNCHANGED minAmountToDeposit
    BY <1>1 DEF PoolPause, PoolUnpause
  <2>. QED
    BY <2>1, <2>2, Zenon
<1>2. ASSUME NEW amount \in Amounts, SetMinAmountToDeposit(amount)
      PROVE  minAmountToDeposit' \in Nat /\ poolPaused' \in BOOLEAN
  <2>1. amount \in Nat /\ minAmountToDeposit' = amount /\ UNCHANGED poolPaused
    BY <1>2 DEF SetMinAmountToDeposit
  <2>. QED
    BY <2>1, Zenon
<1>3. ASSUME UNCHANGED Settings
      PROVE  minAmountToDeposit' \in Nat /\ poolPaused' \in BOOLEAN
  <2>1. UNCHANGED minAmountToDeposit /\ UNCHANGED poolPaused
    BY <1>3 DEF Settings
  <2>. QED
    BY <2>1, Zenon
<1>4. PoolAdminNext \/ UNCHANGED Settings
  BY OthersKeepSettings DEF Next
<1>. QED
  BY <1>1, <1>2, <1>3, <1>4, Zenon DEF PoolAdminNext

LEMMA InitSystem == Init => SystemIInv
<1>. SUFFICES ASSUME Init PROVE SystemIInv
  OBVIOUS
<1>1. PrimeIInv
  BY InitPrime DEF Init
<1>2. NativeTypeOK
  BY DEF Init, PoolInit, NativeInit, NativeTypeOK
<1>3. primeETHPrice \in Nat /\ minAmountToDeposit \in Nat
  BY DEF Init, OracleInit, PoolInit
<1>4. poolPaused \in BOOLEAN
  BY DEF Init, PoolInit
<1>. QED
  BY <1>1, <1>2, <1>3, <1>4, InitPoolIInv, InitQueue DEF SystemIInv

LEMMA NextSystem == SystemIInv /\ [Next]_vars => SystemIInv'
<1>. SUFFICES ASSUME SystemIInv, [Next]_vars PROVE SystemIInv'
  OBVIOUS
<1>1. /\ PoolIInv /\ QueueIInv /\ NativeTypeOK
      /\ minAmountToDeposit \in Nat /\ poolPaused \in BOOLEAN
  BY DEF SystemIInv
<1>2. PoolIInv' /\ QueueIInv'
  BY <1>1, NextPoolIInv, NextQueue
<1>3. PrimeIInv' /\ NativeTypeOK' /\ primeETHPrice' \in Nat
  BY <1>1, NextPrime, NextNative, NextPrice
<1>4. minAmountToDeposit' \in Nat /\ poolPaused' \in BOOLEAN
  BY <1>1, NextSettings
<1>. QED
  BY <1>2, <1>3, <1>4 DEF SystemIInv

\* Whatever the contracts do, all of the above holds together, the token's supply
\* being the sum of its balances.
THEOREM SystemInductiveInvariant == Spec => []SystemIInv
BY InitSystem, NextSystem, PTL DEF Spec

\* No transaction of any contract takes a balance, a price or a supply below zero,
\* or puts into the queue what is not a NodeDelegator: the checks the code makes
\* are enough for every subtraction it does.
THEOREM SystemTypeCorrect == Spec => []TypeOK
<1>1. SystemIInv => TypeOK
  BY DEF SystemIInv, PoolIInv, IInv, FundsTypeOK, QueueIInv, PrimeIInv, TypeOK, OracleTypeOK
<1>. QED
  BY <1>1, SystemInductiveInvariant, PTL

-----------------------------------------------------------------------------
(* What limits a deposit. *)

\* Only a deposit raises the supply.
LEMMA SupplyRises ==
  ASSUME SystemIInv, [Next]_vars, totalSupply' > totalSupply
  PROVE  \E s \in Stakers, a \in Assets, amount \in Amounts : DepositAsset(s, a, amount, 0)
<1>1. totalSupply \in Nat /\ totalSupply' \in Nat
  BY NextPrime DEF SystemIInv, PrimeIInv, PrimeTypeOK
<1>2. UNCHANGED Frozen => FALSE
  BY <1>1 DEF Frozen
<1>3. ASSUME NEW s \in Stakers, NEW amount \in Amounts, RequestWithdrawal(s, amount, primeETH[s])
      PROVE  FALSE
  <2>1. primeETHPrice # 0 /\ BurnFrom(s, BurnAmount(amount))
    BY <1>3 DEF RequestWithdrawal
  <2>2. WITHDRAW_ASSET \in Assets
    BY PoolAssumption DEF PoolAssumption
  <2>3. GetMintAmount(WITHDRAW_ASSET, amount) \in Nat
    BY <2>1, <2>2, MintAmountType DEF SystemIInv, PoolIInv, FundsTypeOK
  <2>4. BurnAmount(amount) \in Nat
    BY <2>3 DEF BurnAmount
  <2>5. totalSupply' = totalSupply - BurnAmount(amount)
    BY <2>1 DEF BurnFrom
  <2>. QED
    BY <1>1, <2>4, <2>5
<1>4. ASSUME NEW s \in Stakers, NEW r \in Roots, ClaimWithdrawal(s, r) \/ ClaimWithdrawalYn(s, r)
      PROVE  FALSE
  <2>1. UNCHANGED totalSupply
    BY <1>4 DEF ClaimWithdrawal, ClaimWithdrawalYn, primeVars
  <2>. QED
    BY <1>1, <2>1
<1>. QED
  BY <1>2, <1>3, <1>4, OnlyStakerCalls DEF StakerCalls

\* A deposit adds its amount to the asset's total: it touches nothing else the
\* total is made of.
LEMMA DepositAddsToTotal ==
  ASSUME SystemIInv, NEW s \in Stakers, NEW a \in Assets, NEW amount \in Amounts,
         DepositAsset(s, a, amount, 0)
  PROVE  GetTotalAssetDeposits(a)' = GetTotalAssetDeposits(a) + amount
<1>. DEFINE held == SumFunction([i \in DOMAIN nodeDelegatorQueue |->
                                   NodeAssetBalance(nodeDelegatorQueue[i], a)])
<1>1. UNCHANGED <<nodeDelegatorQueue, ndcBalance, depositShares, nativeVars,
                  pendingInternalShareWithdrawals, assetStrategy, rate>>
  BY DEF DepositAsset, adminVars, queueVars, elVars, configVars, ndcVars
<1>2. \A n : NodeAssetBalance(n, a)' = NodeAssetBalance(n, a)
  BY <1>1 DEF nativeVars, NodeAssetBalance, NativeAssetBalance, GetAssetBalance, NDCAssets,
     EigenAssets, SharesToUnderlying
<1>3. held' = held
  BY <1>1, <1>2
<1>4. /\ GetTotalAssetDeposits(a) = poolBalance[a] + held
      /\ GetTotalAssetDeposits(a)' = poolBalance'[a] + held'
  BY Zenon DEF GetTotalAssetDeposits
<1>5. GetTotalAssetDeposits(a) \in Nat
  BY TotalType DEF SystemIInv, PoolIInv, IInv, FundsTypeOK
<1>6. poolBalance[a] \in Nat /\ amount \in Nat /\ held \in Int
  <2>1. held = SumFunctionOnSet(QueueWorths(a), DOMAIN nodeDelegatorQueue)
    BY DEF SumFunction, QueueWorths
  <2>2. SumFunctionOnSet(QueueWorths(a), DOMAIN nodeDelegatorQueue) \in Nat
    BY QueueWorthsType, SumNat DEF SystemIInv, PoolIInv, IInv
  <2>. QED
    BY <2>1, <2>2 DEF SystemIInv, PoolIInv, FundsTypeOK
<1>7. poolBalance'[a] = poolBalance[a] + amount
  BY DEF DepositAsset, TakeFrom, SystemIInv, PoolIInv, FundsTypeOK
<1>. HIDE DEF held
<1>. QED
  BY <1>3, <1>4, <1>5, <1>6, <1>7

\* A deposit never takes an asset past its limit, wherever the asset's tokens have
\* gone, whatever they are worth there by now, and whatever limit is set below
\* what is already there.
THEOREM DepositsStayWithinLimits == Spec => DepositsRespectTheLimit
<1>1. ASSUME SystemIInv, [Next]_vars, NEW b \in Assets,
             totalSupply' > totalSupply, poolBalance'[b] > poolBalance[b]
      PROVE  GetTotalAssetDeposits(b)' <= depositLimitByAsset[b]
  <2>1. PICK s \in Stakers, a \in Assets, amount \in Amounts : DepositAsset(s, a, amount, 0)
    BY <1>1, SupplyRises
  <2>2. a = b
    <3>1. CASE a # b
      <4>1. poolBalance'[b] = poolBalance[b] /\ poolBalance[b] \in Nat
        BY <1>1, <2>1, <3>1 DEF DepositAsset, TakeFrom, SystemIInv, PoolIInv, FundsTypeOK
      <4>. QED
        BY <1>1, <4>1
    <3>. QED
      BY <3>1
  <2>3. GetTotalAssetDeposits(b)' = GetTotalAssetDeposits(b) + amount
    BY <1>1, <2>1, <2>2, DepositAddsToTotal
  <2>4. /\ GetTotalAssetDeposits(b) \in Nat /\ depositLimitByAsset[b] \in Nat
        /\ amount \in Nat /\ amount # 0
    <3>1. GetTotalAssetDeposits(b) \in Nat
      BY <1>1, TotalType DEF SystemIInv, PoolIInv, IInv, FundsTypeOK
    <3>. QED
      BY <1>1, <2>1, <3>1
         DEF DepositAsset, SystemIInv, PoolIInv, IInv, NDCTypeOK, ConfigTypeOK
  <2>5. amount <= GetAssetCurrentLimit(b)
    BY <2>1, <2>2 DEF DepositAsset
  <2>. QED
    BY <2>3, <2>4, <2>5 DEF GetAssetCurrentLimit
<1>. DEFINE Within == \A a \in Assets :
              totalSupply' > totalSupply /\ poolBalance'[a] > poolBalance[a]
                => GetTotalAssetDeposits(a)' <= depositLimitByAsset[a]
<1>2. SystemIInv /\ [Next]_vars => [Within]_vars
  BY <1>1
<1>. HIDE DEF Within
<1>3. Spec => [][Within]_vars
  BY <1>2, SystemInductiveInvariant, PTL DEF Spec
<1>. QED
  BY <1>3 DEF Within, DepositsRespectTheLimit

-----------------------------------------------------------------------------
(* The pool implements the abstract Redemption: every transaction is one of  *)
(* its steps or a stutter.                                                   *)

HoldersTypeOK == primeETH \in [Stakers -> Nat] /\ poolPaused \in BOOLEAN

HoldersIInv == PoolIInv /\ HoldersTypeOK

\* The stored price, by which requests are charged: of SystemIInv.
PriceOK == primeETHPrice \in Nat

-----------------------------------------------------------------------------
(* Who may change balances and the pool's pause. *)

Held == <<primeETH, poolPaused>>

HolderTransfers ==
  /\ \E s, t \in Stakers, amount \in Amounts : PrimeTransfer(s, t, amount)
  /\ UNCHANGED <<withdrawalRequests, poolPaused>>

PoolPauses == (PoolPause \/ PoolUnpause) /\ UNCHANGED <<withdrawalRequests, primeETH>>

LEMMA KeepersHold ==
  ASSUME KeeperNext
  PROVE  UNCHANGED Held
BY KeepersLeave DEF adminVars, primeVars, Held

LEMMA OthersHold ==
  ASSUME \/ BackendNext \/ EigenOperatorNext \/ NativeNodeNext \/ OracleNext
         \/ ConfigNext \/ QueueNext \/ UNCHANGED vars
  PROVE  UNCHANGED Held
<1>1. BackendNext \/ EigenOperatorNext => UNCHANGED Held
  BY DEF BackendNext, EigenOperatorNext, OnlyBackend, primeVars, poolVars, adminVars, Held
<1>2. NativeNodeNext => UNCHANGED Held
  BY DEF NativeNodeNext, primeVars, adminVars, Held
<1>3. OracleNext => UNCHANGED Held
  BY DEF OracleNext, OnlyOracle, primeVars, poolVars, adminVars, Held
<1>4. ConfigNext => UNCHANGED Held
  BY DEF ConfigNext, OnlyConfig, primeVars, poolVars, adminVars, Held
<1>5. QueueNext => UNCHANGED Held
  BY DEF QueueNext, AddNodeDelegatorContractToQueue, RemoveNodeDelegatorContractsFromQueue,
     UpdateMaxNodeDelegatorLimit, otherThanQueue, primeVars, Held
<1>6. UNCHANGED vars => UNCHANGED Held
  BY DEF vars, primeVars, poolVars, adminVars, Held
<1>. QED
  BY <1>1, <1>2, <1>3, <1>4, <1>5, <1>6

LEMMA TokenMoves ==
  ASSUME TokenNext
  PROVE  HolderTransfers \/ UNCHANGED <<primeETH, poolPaused, withdrawalRequests>>
<1>1. UNCHANGED <<poolPaused, withdrawalRequests>>
  BY DEF TokenNext, OnlyToken, ndVars, ndcVars, poolVars, adminVars
<1>. QED
  BY <1>1 DEF TokenNext, PrimePause, PrimeUnpause, HolderTransfers

LEMMA AdminMoves ==
  ASSUME PoolAdminNext
  PROVE  PoolPauses \/ UNCHANGED <<primeETH, poolPaused, withdrawalRequests>>
BY DEF PoolAdminNext, PoolPause, PoolUnpause, SetMinAmountToDeposit, ndcVars, primeVars, PoolPauses

\* What a step may be to the holders of primeETH.
LEMMA HolderSteps ==
  [Next]_vars =>
    \/ StakerCalls
    \/ HolderTransfers
    \/ PoolPauses
    \/ UNCHANGED <<primeETH, poolPaused, withdrawalRequests>>
<1>. SUFFICES ASSUME [Next]_vars, ~StakerCalls
              PROVE  HolderTransfers \/ PoolPauses \/ UNCHANGED <<primeETH, poolPaused, withdrawalRequests>>
  OBVIOUS
<1>1. UNCHANGED withdrawalRequests
  BY OnlyStakerCalls DEF Frozen
<1>2. StakerNext => UNCHANGED Held
  BY DEF StakerNext, StakerCalls, DonateToPool, primeVars, adminVars, Held
<1>3. TokenNext \/ PoolAdminNext \/ UNCHANGED Held
  BY <1>2, KeepersHold, OthersHold DEF Next
<1>. QED
  BY <1>1, <1>3, TokenMoves, AdminMoves DEF Held

-----------------------------------------------------------------------------
(* The steps of a holder. *)

Ticket == [r \in Roots |-> withdrawalRequests[r.ndc][r]]

LEMMA DepositRedeems ==
  ASSUME HoldersIInv, PriceOK, NEW s \in Stakers, NEW asset \in Assets, NEW amount \in Amounts,
         DepositAsset(s, asset, amount, 0)
  PROVE  Redeems!RedemptionNext /\ HoldersTypeOK'
<1>. DEFINE minted == GetMintAmount(asset, amount)
<1>1. minted \in Nat
  BY MintAmountType DEF DepositAsset, PriceOK, HoldersIInv, PoolIInv, FundsTypeOK
<1>2. /\ ~poolPaused /\ UNCHANGED <<poolPaused, withdrawalRequests>>
      /\ primeETH' = [primeETH EXCEPT ![s] = @ + minted]
  BY DEF DepositAsset, Mint, adminVars, ndcVars
<1>. HIDE DEF minted
<1>3. -(primeETH[s] - primeETH'[s]) = minted /\ primeETH' \in [Stakers -> Nat]
  BY <1>1, <1>2 DEF HoldersIInv, HoldersTypeOK
<1>4. Redeems!Issue(s, -(primeETH[s] - primeETH'[s]))
  BY <1>1, <1>2, <1>3 DEF Redeems!Issue
<1>. QED
  BY <1>2, <1>3, <1>4 DEF Redeems!RedemptionNext, HoldersIInv, HoldersTypeOK

LEMMA RequestRedeems ==
  ASSUME HoldersIInv, PriceOK, NEW s \in Stakers, NEW amount \in Amounts,
         RequestWithdrawal(s, amount, primeETH[s])
  PROVE  Redeems!RedemptionNext /\ HoldersTypeOK'
<1>. DEFINE strategy == assetStrategy[WITHDRAW_ASSET]
            burnt    == BurnAmount(amount)
            root     == NextRoot(LstNdc, strategy)
<1>1. IInv /\ ELTypeOK /\ PoolIInv
  BY DEF HoldersIInv, PoolIInv, IInv, NDCTypeOK
<1>2. burnt \in Nat \ {0}
  <2>1. WITHDRAW_ASSET \in Assets
    BY PoolAssumption DEF PoolAssumption
  <2>2. GetMintAmount(WITHDRAW_ASSET, amount) \in Nat
    BY <1>1, <2>1, MintAmountType DEF RequestWithdrawal, PriceOK, PoolIInv, FundsTypeOK
  <2>. QED
    BY <2>2 DEF BurnAmount
<1>3. strategy \in Strategies /\ LstNdc \in NDCs
  BY <1>1, PoolAssumption DEF PoolAssumption, RequestWithdrawal, IInv, NDCTypeOK, ConfigTypeOK
<1>4. /\ nonce[LstNdc][strategy] < MaxWithdrawals
      /\ withdrawalRequests[LstNdc][root] = NoStaker
      /\ withdrawalRequests' = [withdrawalRequests EXCEPT ![LstNdc][root] = s]
  BY DEF RequestWithdrawal, NDCRequestWithdrawal, QueueWithdrawals
<1>5. PICK r \in Roots : r = root /\ r.ndc = LstNdc
  BY <1>1, <1>3, <1>4, NextRootType
<1>6. /\ ~poolPaused /\ UNCHANGED poolPaused
      /\ burnt <= primeETH[s]
      /\ primeETH' = [primeETH EXCEPT ![s] = @ - burnt]
  BY DEF RequestWithdrawal, BurnFrom, poolVars, adminVars
<1>. HIDE DEF burnt, root, strategy
<1>7. /\ primeETH[s] - primeETH'[s] = burnt
      /\ burnt \in 1 .. primeETH[s]
      /\ primeETH' \in [Stakers -> Nat]
  BY <1>2, <1>6 DEF HoldersIInv, HoldersTypeOK
<1>8. Ticket[r] = NoStaker /\ Ticket' = [Ticket EXCEPT ![r] = s]
  <2>1. withdrawalRequests \in [NDCs -> [Roots -> Stakers \cup {NoStaker, DEAD_ADDRESS}]]
    BY <1>1 DEF IInv, NDCTypeOK
  <2>2. \A q \in Roots : q.ndc \in NDCs
    BY DEF Roots
  <2>. QED
    BY <1>3, <1>4, <1>5, <2>1, <2>2 DEF Ticket
<1>9. Redeems!Redeem(s, primeETH[s] - primeETH'[s], r)
  BY <1>6, <1>7, <1>8 DEF Redeems!Redeem, Ticket
<1>. QED
  BY <1>6, <1>7, <1>9 DEF Redeems!RedemptionNext, HoldersIInv, HoldersTypeOK

\* The claim goes to the first NodeDelegator of the queue, which has a record of
\* its own withdrawals only.
LEMMA ClaimRedeems ==
  ASSUME HoldersIInv, NEW s \in Stakers, NEW r \in Roots, ClaimStep(s, r)
  PROVE  Redeems!RedemptionNext /\ HoldersTypeOK'
<1>1. /\ ~poolPaused /\ UNCHANGED <<poolPaused, primeETH>>
      /\ LstNdc \in NDCs
      /\ withdrawalRequests[LstNdc][r] = s
      /\ withdrawalRequests' = [withdrawalRequests EXCEPT ![LstNdc][r] = DEAD_ADDRESS]
  BY DEF ClaimStep, ClaimWithdrawal, ClaimWithdrawalYn, NDCClaimWithdrawal, adminVars, primeVars
<1>2. r.ndc = LstNdc
  BY <1>1 DEF HoldersIInv, PoolIInv, IInv, RequestsBacked
<1>3. Ticket[r] = s /\ Ticket' = [Ticket EXCEPT ![r] = DEAD_ADDRESS]
  <2>1. withdrawalRequests \in [NDCs -> [Roots -> Stakers \cup {NoStaker, DEAD_ADDRESS}]]
    BY DEF HoldersIInv, PoolIInv, IInv, NDCTypeOK
  <2>2. \A q \in Roots : q.ndc \in NDCs
    BY DEF Roots
  <2>. QED
    BY <1>1, <1>2, <2>1, <2>2 DEF Ticket
<1>4. Redeems!Pay(s, r)
  BY <1>1, <1>3 DEF Redeems!Pay, Ticket
<1>. QED
  BY <1>1, <1>4 DEF Redeems!RedemptionNext, HoldersIInv, HoldersTypeOK

-----------------------------------------------------------------------------
(* The other steps. *)

LEMMA TransferRedeems ==
  ASSUME HoldersIInv, HolderTransfers
  PROVE  [Redeems!RedemptionNext]_(Redeems!redemptionVars) /\ HoldersTypeOK'
<1>1. PICK s \in Stakers, t \in Stakers, amount \in Amounts : PrimeTransfer(s, t, amount)
  BY DEF HolderTransfers
<1>. DEFINE taken == [primeETH EXCEPT ![s] = @ - amount]
<1>2. /\ primeETH \in [Stakers -> Nat] /\ amount \in 0 .. primeETH[s]
      /\ primeETH' = [taken EXCEPT ![t] = @ + amount]
  BY <1>1 DEF PrimeTransfer, HoldersIInv, HoldersTypeOK
<1>3. UNCHANGED <<Ticket, poolPaused>>
  BY DEF HolderTransfers, Ticket
<1>4. primeETH' \in [Stakers -> Nat]
  BY <1>2
<1>5. CASE s = t
  <2>1. primeETH' = primeETH
    BY <1>2, <1>5
  <2>. QED
    BY <1>3, <1>4, <2>1 DEF Redeems!redemptionVars, Ticket, HoldersIInv, HoldersTypeOK
<1>6. CASE s # t
  <2>1. primeETH[s] - primeETH'[s] = amount
    BY <1>2, <1>6
  <2>2. Redeems!Transfer(s, t, primeETH[s] - primeETH'[s])
    BY <1>2, <1>3, <2>1 DEF Redeems!Transfer, Ticket
  <2>. QED
    BY <1>3, <1>4, <2>2 DEF Redeems!RedemptionNext, HoldersIInv, HoldersTypeOK
<1>. QED
  BY <1>5, <1>6

LEMMA PauseRedeems ==
  ASSUME HoldersIInv, PoolPauses
  PROVE  Redeems!RedemptionNext /\ HoldersTypeOK'
<1>1. poolPaused \in BOOLEAN
  BY DEF HoldersIInv, HoldersTypeOK
<1>2. poolPaused' = ~poolPaused
  BY <1>1, Zenon DEF PoolPauses, PoolPause, PoolUnpause
<1>3. UNCHANGED <<Ticket, primeETH>>
  BY DEF PoolPauses, Ticket
<1>4. Redeems!Freeze
  BY <1>2, <1>3, Zenon DEF Redeems!Freeze, Ticket
<1>5. poolPaused' \in BOOLEAN
  BY <1>1, <1>2, Zenon
<1>. QED
  BY <1>3, <1>4, <1>5 DEF Redeems!RedemptionNext, HoldersIInv, HoldersTypeOK

LEMMA NextRedeems ==
  HoldersIInv /\ PriceOK /\ [Next]_vars =>
    [Redeems!RedemptionNext]_(Redeems!redemptionVars) /\ HoldersIInv'
<1>. SUFFICES ASSUME HoldersIInv, PriceOK, [Next]_vars
              PROVE  [Redeems!RedemptionNext]_(Redeems!redemptionVars) /\ HoldersTypeOK'
  BY NextPoolIInv DEF HoldersIInv
<1>1. CASE StakerCalls
  BY <1>1, DepositRedeems, RequestRedeems, ClaimRedeems DEF StakerCalls, ClaimStep
<1>2. CASE UNCHANGED <<primeETH, poolPaused, withdrawalRequests>>
  BY <1>2 DEF Redeems!redemptionVars, HoldersIInv, HoldersTypeOK
<1>. QED
  BY <1>1, <1>2, HolderSteps, TransferRedeems, PauseRedeems

\* Whatever NodeDelegators, operators, admins and EigenLayer do, and at whatever
\* price, the protocol is to a holder of primeETH the abstract Redemption: each
\* request costs something, opens one unused ticket, and is paid once, to its holder.
THEOREM RedemptionImplemented == Spec => ImplementsRedemption
<1>1. Init => HoldersIInv /\ Redeems!RedemptionInit
  <2>. SUFFICES ASSUME Init PROVE HoldersIInv /\ Redeems!RedemptionInit
    OBVIOUS
  <2>1. PoolIInv
    BY InitPoolIInv
  <2>2. primeETH = [s \in Stakers |-> 0] /\ poolPaused = FALSE
    BY DEF Init, PrimeInit, PoolInit
  <2>3. Ticket = [r \in Roots |-> NoStaker]
    <3>1. \A r \in Roots : r.ndc \in NDCs
      BY DEF Roots
    <3>. QED
      BY <3>1 DEF Init, NDCInit, Ticket
  <2>. QED
    BY <2>1, <2>2, <2>3 DEF HoldersIInv, HoldersTypeOK, Redeems!RedemptionInit, Ticket
<1>2. HoldersIInv /\ PriceOK /\ [Next]_vars =>
        [Redeems!RedemptionNext]_(Redeems!redemptionVars) /\ HoldersIInv'
  BY NextRedeems
<1>3. SystemIInv => PriceOK
  BY DEF SystemIInv, PriceOK
<1>. QED
  BY <1>1, <1>2, <1>3, SystemInductiveInvariant, PTL
     DEF Spec, ImplementsRedemption, Redeems!RedemptionSpec
=============================================================================
