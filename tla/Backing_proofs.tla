--------------------------- MODULE Backing_proofs ---------------------------
(***************************************************************************)
(* Proofs about what the assets of the pool and all its NodeDelegators are *)
(* worth, in total and beyond what the primeETH is worth at its stored     *)
(* price: minting and burning rounds for the pool, moving assets changes   *)
(* no total, and the stored price stays backed however old it is.          *)
(***************************************************************************)
EXTENDS LRTDepositPool_proofs

USE EigenLayerAssumption, ConfigAssumption, NDCAssumption, AddressAssumption,
    AmountsAssumption, OracleAssumption
    DEF EigenLayerAssumption, ConfigAssumption, NDCAssumption, AddressAssumption,
        AmountsAssumption, OracleAssumption

-----------------------------------------------------------------------------
(* Arithmetic *)

LEMMA LessOfProducts ==
  ASSUME NEW d \in Nat \ {0}, NEW x \in Int, NEW y \in Int, d * x < d * y
  PROVE  x < y
<1>. SUFFICES ASSUME y <= x PROVE FALSE
  OBVIOUS
<1>1. PICK k \in Nat : x = y + k
  <2>1. x - y \in Nat /\ x = y + (x - y)
    OBVIOUS
  <2>. QED
    BY <2>1
<1>2. d * x = d * y + d * k /\ d * k >= 0
  BY <1>1
<1>. QED
  BY <1>2

\* Taking shares that are worth no more than amount takes no more than amount off
\* what is left, although both conversions truncate.
LEMMA TakenWorth ==
  ASSUME NEW r \in Nat \ {0}, NEW u \in Nat \ {0}, NEW held \in Nat, NEW taken \in Nat,
         taken <= held, NEW amount \in Nat, taken * r <= amount * u
  PROVE  (held * r) \div u <= ((held - taken) * r) \div u + amount
<1>1. PICK left \in Nat : held = left + taken
  <2>1. held - taken \in Nat /\ held = (held - taken) + taken
    OBVIOUS
  <2>. QED
    BY <2>1
<1>2. held - taken = left
  BY <1>1
<1>. DEFINE before == held * r
            after  == left * r
<1>3. before \in Nat /\ after \in Nat /\ before = after + taken * r
  BY <1>1
<1>4. before <= after + amount * u
  BY <1>3
<1>. HIDE DEF before, after
<1>. DEFINE b == before \div u
            a == after \div u
<1>5. b \in Nat /\ u * b <= before
  BY <1>3, DivBounds
<1>6. a \in Nat /\ after < u * (a + 1)
  BY <1>3, DivBounds
<1>. HIDE DEF a, b
<1>7. u * b < u * (a + 1) + amount * u
  <2>1. u * b \in Int /\ u * (a + 1) \in Int /\ amount * u \in Int
    BY <1>5, <1>6
  <2>. QED
    BY <1>3, <1>4, <1>5, <1>6, <2>1
<1>8. u * (a + 1) + amount * u = u * (a + 1 + amount)
  BY <1>6
<1>9. b < a + 1 + amount
  <2>1. b \in Int /\ a + 1 + amount \in Int /\ u * b < u * (a + 1 + amount)
    BY <1>5, <1>6, <1>7, <1>8
  <2>. QED
    BY <2>1, LessOfProducts
<1>10. b <= a + amount
  BY <1>5, <1>6, <1>9
<1>. QED
  BY <1>2, <1>10 DEF a, b, before, after

-----------------------------------------------------------------------------
(* Totals, when one NodeDelegator's worth changes. *)

WorthsOK == \A n \in Nodes, a \in Assets : NodeAssetBalance(n, a) \in Nat

LEMMA WorthType == SystemIInv => WorthsOK
BY NodeBalanceType DEF WorthsOK, SystemIInv, PoolIInv, IInv

\* When only n's worth changes, and the pool's own tokens, a total changes by what
\* these do, provided n is in the queue: where, and after whom, does not matter.
LEMMA TotalChange ==
  ASSUME SystemIInv, SystemIInv', UNCHANGED nodeDelegatorQueue, NEW a \in Assets, NEW n \in Nodes,
         \A m \in Nodes \ {n} : NodeAssetBalance(m, a)' = NodeAssetBalance(m, a)
  PROVE  GetTotalAssetDeposits(a)' =
           GetTotalAssetDeposits(a) + (poolBalance'[a] - poolBalance[a])
             + IF n \in ToSet(nodeDelegatorQueue)
               THEN NodeAssetBalance(n, a)' - NodeAssetBalance(n, a) ELSE 0
<1>. DEFINE D == DOMAIN nodeDelegatorQueue
            f == QueueWorths(a)
            g == [i \in D |-> NodeAssetBalance(nodeDelegatorQueue[i], a)']
<1>1. /\ IsFiniteSet(D) /\ \A i \in D : nodeDelegatorQueue[i] \in Nodes
      /\ \A i \in D : f[i] \in Nat
  BY QueueWorthsType DEF SystemIInv, PoolIInv, IInv
<1>2. QueueWorths(a)' = g
  BY DEF QueueWorths
<1>3. \A i \in D : g[i] \in Nat
  <2>1. WorthsOK'
    BY WorthType, PTL
  <2>. QED
    BY <1>1, <2>1 DEF WorthsOK
<1>4. /\ GetTotalAssetDeposits(a) = poolBalance[a] + SumFunctionOnSet(f, D)
      /\ GetTotalAssetDeposits(a)' = poolBalance'[a] + SumFunctionOnSet(g, D)
  <2>1. GetTotalAssetDeposits(a) = poolBalance[a] + SumFunctionOnSet(f, D)
    BY TotalIs
  <2>2. GetTotalAssetDeposits(a)' = poolBalance'[a] + SumFunction(QueueWorths(a))'
    BY DEF GetTotalAssetDeposits, QueueWorths
  <2>3. SumFunction(QueueWorths(a))' = SumFunctionOnSet(g, D)
    BY <1>2 DEF SumFunction
  <2>. QED
    BY <2>1, <2>2, <2>3
<1>5. poolBalance[a] \in Nat /\ poolBalance'[a] \in Nat
  BY DEF SystemIInv, PoolIInv, FundsTypeOK
<1>6. /\ SumFunctionOnSet(f, D) \in Nat /\ SumFunctionOnSet(g, D) \in Nat
  <2>. HIDE DEF f, g
  <2>. QED
    BY <1>1, <1>3, SumNat
<1>7. \A i \in D : nodeDelegatorQueue[i] # n => g[i] = f[i]
  BY <1>1 DEF QueueWorths
<1>8. CASE n \notin ToSet(nodeDelegatorQueue)
  <2>1. \A i \in D : g[i] = f[i]
    BY <1>7, <1>8 DEF ToSet
  <2>2. SumFunctionOnSet(g, D) = SumFunctionOnSet(f, D)
    <3>. HIDE DEF f, g
    <3>. QED
      BY <1>1, <2>1, SumSame
  <2>. HIDE DEF f, g
  <2>. QED
    BY <1>4, <1>5, <1>6, <1>8, <2>2
<1>9. CASE n \in ToSet(nodeDelegatorQueue)
  <2>1. PICK i \in D : nodeDelegatorQueue[i] = n
    BY <1>9 DEF ToSet
  <2>2. \A j \in D \ {i} : nodeDelegatorQueue[j] # n
    BY <2>1 DEF SystemIInv, QueueIInv, QueueMatchesFlags, IsInjective
  <2>3. f[i] = NodeAssetBalance(n, a) /\ g[i] = NodeAssetBalance(n, a)'
    BY <2>1 DEF QueueWorths
  <2>4. SumFunctionOnSet(g, D) = SumFunctionOnSet(f, D) + (g[i] - f[i])
    <3>1. \A j \in D \ {i} : g[j] = f[j]
      BY <1>7, <2>2
    <3>2. \A j \in D : f[j] \in Int /\ g[j] \in Int
      BY <1>1, <1>3
    <3>. HIDE DEF f, g
    <3>. QED
      BY <1>1, <3>1, <3>2, SumChange
  <2>5. f[i] \in Nat /\ g[i] \in Nat
    BY <1>1, <1>3
  <2>. HIDE DEF f, g
  <2>. DEFINE before == NodeAssetBalance(n, a)
              after  == NodeAssetBalance(n, a)'
  <2>6. f[i] = before /\ g[i] = after
    BY <2>3
  <2>. HIDE DEF before, after
  <2>7. GetTotalAssetDeposits(a)' =
          GetTotalAssetDeposits(a) + (poolBalance'[a] - poolBalance[a]) + (after - before)
    BY <1>4, <1>5, <1>6, <2>4, <2>5, <2>6
  <2>. QED
    BY <1>9, <2>7 DEF before, after
<1>. QED
  BY <1>8, <1>9

\* What all totals are worth, when one asset's total changes.
LEMMA ValueChange ==
  ASSUME SystemIInv, NEW old \in [Assets -> Nat], NEW new \in [Assets -> Nat],
         NEW a \in Assets, \A b \in Assets \ {a} : new[b] = old[b]
  PROVE  ValueOf(new) =
           ValueOf(old) + IF a \in supportedAssets THEN (new[a] - old[a]) * assetPrice[a] ELSE 0
<1>. DEFINE f == [b \in supportedAssets |-> old[b] * assetPrice[b]]
            g == [b \in supportedAssets |-> new[b] * assetPrice[b]]
<1>1. supportedAssets \in SUBSET Assets /\ assetPrice \in [Assets -> Nat \ {0}]
  BY DEF SystemIInv, PoolIInv, IInv, FundsTypeOK, NDCTypeOK, ConfigTypeOK
<1>2. IsFiniteSet(supportedAssets)
  BY <1>1, PoolAssumption, FS_Subset DEF PoolAssumption
<1>3. /\ ValueOf(old) = SumFunctionOnSet(f, supportedAssets)
      /\ ValueOf(new) = SumFunctionOnSet(g, supportedAssets)
  BY DEF ValueOf, SumFunction
<1>4. \A b \in supportedAssets : f[b] \in Nat /\ g[b] \in Nat
  BY <1>1
<1>5. \A b \in supportedAssets \ {a} : g[b] = f[b]
  BY <1>1
<1>6. CASE a \notin supportedAssets
  <2>1. \A b \in supportedAssets : g[b] = f[b]
    BY <1>5, <1>6
  <2>. HIDE DEF f, g
  <2>2. SumFunctionOnSet(g, supportedAssets) = SumFunctionOnSet(f, supportedAssets)
    BY <1>2, <2>1, SumSame
  <2>3. SumFunctionOnSet(f, supportedAssets) \in Nat
    BY <1>2, <1>4, SumNat
  <2>. QED
    BY <1>3, <1>6, <2>2, <2>3
<1>7. CASE a \in supportedAssets
  <2>1. SumFunctionOnSet(g, supportedAssets)
          = SumFunctionOnSet(f, supportedAssets) + (g[a] - f[a])
    <3>1. \A b \in supportedAssets : f[b] \in Int /\ g[b] \in Int
      BY <1>4
    <3>. HIDE DEF f, g
    <3>. QED
      BY <1>2, <1>5, <1>7, <3>1, SumChange
  <2>2. g[a] - f[a] = (new[a] - old[a]) * assetPrice[a]
    BY <1>1, <1>7
  <2>. HIDE DEF f, g
  <2>. QED
    BY <1>3, <1>7, <2>1, <2>2
<1>. QED
  BY <1>6, <1>7
-----------------------------------------------------------------------------
(* Which strategy holds which asset *)

\* An asset's strategy takes that asset: no two assets share one.
OwnStrategies ==
  \A a \in Assets : assetStrategy[a] # NoStrategy =>
    assetStrategy[a] \in Strategies /\ Underlying[assetStrategy[a]] = a

\* A new strategy for one of the assets it takes.
StrategyChange ==
  \E s \in Strategies :
    /\ UpdateAssetStrategy(Underlying[s], s, ToSet(nodeDelegatorQueue) \cap NDCs)
    /\ OnlyConfig

LEMMA OthersKeepStrategies ==
  ASSUME [Next]_vars, ~StrategyChange
  PROVE  UNCHANGED assetStrategy
<1>1. StakerNext => UNCHANGED assetStrategy
  BY DEF StakerNext, DepositAsset, DonateToPool, RequestWithdrawal, NDCRequestWithdrawal,
     ClaimWithdrawal, ClaimWithdrawalYn, NDCClaimWithdrawal, configVars
<1>2. KeeperNext => UNCHANGED assetStrategy
  BY KeepersLeave DEF configVars
<1>3. BackendNext \/ EigenOperatorNext => UNCHANGED assetStrategy
  BY DEF BackendNext, EigenLayerStep, DepositAssetsIntoStrategy, RequestInternalWithdrawal,
     NDCDelegateTo, Undelegate, NDCPause, NDCUnpause, EigenOperatorNext, OperatorUndelegates,
     configVars
<1>4. NativeNodeNext \/ OracleNext \/ TokenNext => UNCHANGED assetStrategy
  BY DEF NativeNodeNext, OracleNext, OnlyOracle, TokenNext, OnlyToken, ndVars, configVars
<1>5. ConfigNext => UNCHANGED assetStrategy
  BY DEF ConfigNext, StrategyChange, AddNewSupportedAsset, UpdateAssetDepositLimit
<1>6. QueueNext => UNCHANGED assetStrategy
  BY DEF QueueNext, AddNodeDelegatorContractToQueue, RemoveNodeDelegatorContractsFromQueue,
     UpdateMaxNodeDelegatorLimit, otherThanQueue, configVars
<1>7. PoolAdminNext => UNCHANGED assetStrategy
  BY DEF PoolAdminNext, PoolPause, PoolUnpause, SetMinAmountToDeposit, configVars
<1>8. UNCHANGED vars => UNCHANGED assetStrategy
  BY DEF vars, ndVars, configVars
<1>. QED
  BY <1>1, <1>2, <1>3, <1>4, <1>5, <1>6, <1>7, <1>8 DEF Next

LEMMA StrategiesAreOwn == Spec => []OwnStrategies
<1>1. Init => OwnStrategies
  BY DEF Init, NDCInit, OwnStrategies
<1>2. OwnStrategies /\ [Next]_vars => OwnStrategies'
  <2>. SUFFICES ASSUME OwnStrategies, [Next]_vars PROVE OwnStrategies'
    OBVIOUS
  <2>1. CASE UNCHANGED assetStrategy
    BY <2>1 DEF OwnStrategies
  <2>2. CASE StrategyChange
    BY <2>2 DEF StrategyChange, UpdateAssetStrategy, OwnStrategies
  <2>. QED
    BY <2>1, <2>2, OthersKeepStrategies
<1>. QED
  BY <1>1, <1>2, PTL DEF Spec

-----------------------------------------------------------------------------
(* Mints and burns *)

TotalsOK == TotalAssetDeposits \in [Assets -> Nat]

LEMMA TotalsType == SystemIInv => TotalsOK
BY TotalType DEF TotalsOK, SystemIInv, PoolIInv, IInv, FundsTypeOK, TotalAssetDeposits

\* What one asset's change does to the value of all, at the same prices.
LEMMA OneAssetChanges ==
  ASSUME SystemIInv, SystemIInv', UNCHANGED <<supportedAssets, assetPrice>>, NEW a \in Assets,
         \A b \in Assets \ {a} : GetTotalAssetDeposits(b)' = GetTotalAssetDeposits(b)
  PROVE  /\ TotalETH \in Nat /\ TotalETH' \in Nat
         /\ TotalETH' = TotalETH + IF a \in supportedAssets
                                   THEN (GetTotalAssetDeposits(a)' - GetTotalAssetDeposits(a))
                                          * assetPrice[a]
                                   ELSE 0
<1>1. TotalAssetDeposits \in [Assets -> Nat]
  BY TotalsType DEF TotalsOK
<1>2. TotalAssetDeposits' \in [Assets -> Nat]
  <2>1. TotalsOK'
    BY TotalsType, PTL
  <2>. QED
    BY <2>1 DEF TotalsOK
<1>3. PICK new \in [Assets -> Nat] : new = TotalAssetDeposits'
  BY <1>2
<1>4. PICK old \in [Assets -> Nat] : old = TotalAssetDeposits
  BY <1>1
<1>5. \A b \in Assets : old[b] = GetTotalAssetDeposits(b) /\ new[b] = GetTotalAssetDeposits(b)'
  BY <1>3, <1>4 DEF TotalAssetDeposits
<1>6. \A b \in Assets \ {a} : new[b] = old[b]
  BY <1>5
<1>7. ValueOf(new) =
        ValueOf(old) + IF a \in supportedAssets THEN (new[a] - old[a]) * assetPrice[a] ELSE 0
  BY <1>6, ValueChange
<1>8. TotalETH = ValueOf(old) /\ TotalETH' = ValueOf(new)
  BY <1>3, <1>4 DEF TotalETH, ValueOf
<1>9. ValueOf(old) \in Nat /\ ValueOf(new) \in Nat
  <2>1. supportedAssets \in SUBSET Assets /\ assetPrice \in [Assets -> Nat \ {0}]
    BY DEF SystemIInv, PoolIInv, IInv, FundsTypeOK, NDCTypeOK, ConfigTypeOK
  <2>. QED
    BY <2>1, ValueType
<1>. QED
  BY <1>5, <1>7, <1>8, <1>9

LEMMA DepositFavours ==
  ASSUME SystemIInv, SystemIInv', NEW s \in Stakers, NEW a \in Assets, NEW amount \in Amounts,
         DepositAsset(s, a, amount, 0)
  PROVE  Surplus' >= Surplus
<1>. DEFINE minted == GetMintAmount(a, amount)
<1>1. /\ UNCHANGED <<supportedAssets, assetPrice, primeETHPrice, nodeDelegatorQueue>>
      /\ totalSupply' = totalSupply + minted
      /\ a \in supportedAssets /\ primeETHPrice # 0
      /\ poolBalance' = [poolBalance EXCEPT ![a] = @ + amount]
  BY DEF DepositAsset, Mint, TakeFrom, configVars, oracleVars, adminVars, queueVars
<1>2. UNCHANGED <<ndcBalance, depositShares, nativeVars, pendingInternalShareWithdrawals,
                  assetStrategy, rate>>
  BY DEF DepositAsset, elVars, configVars, ndcVars
<1>3. \A n, b : NodeAssetBalance(n, b)' = NodeAssetBalance(n, b)
  BY <1>2 DEF nativeVars, NodeAssetBalance, NativeAssetBalance, GetAssetBalance, NDCAssets,
     EigenAssets, SharesToUnderlying
<1>4. GetTotalAssetDeposits(a)' = GetTotalAssetDeposits(a) + amount
  BY DepositAddsToTotal
<1>5. ASSUME NEW b \in Assets \ {a}
      PROVE  GetTotalAssetDeposits(b)' = GetTotalAssetDeposits(b)
  <2>. DEFINE held == SumFunction([i \in DOMAIN nodeDelegatorQueue |->
                                     NodeAssetBalance(nodeDelegatorQueue[i], b)])
  <2>1. held' = held
    BY <1>1, <1>3
  <2>2. poolBalance'[b] = poolBalance[b]
    BY <1>1 DEF SystemIInv, PoolIInv, FundsTypeOK
  <2>3. /\ GetTotalAssetDeposits(b) = poolBalance[b] + held
        /\ GetTotalAssetDeposits(b)' = poolBalance'[b] + held'
    BY Zenon DEF GetTotalAssetDeposits
  <2>. HIDE DEF held
  <2>. QED
    BY <2>1, <2>2, <2>3
<1>6. GetTotalAssetDeposits(a) \in Nat
  BY TotalType DEF SystemIInv, PoolIInv, IInv, FundsTypeOK
<1>7. /\ TotalETH \in Nat /\ TotalETH' \in Nat
      /\ TotalETH' = TotalETH + (GetTotalAssetDeposits(a)' - GetTotalAssetDeposits(a)) * assetPrice[a]
  BY <1>1, <1>5, OneAssetChanges
<1>8. /\ primeETHPrice \in Nat \ {0} /\ assetPrice \in [Assets -> Nat \ {0}]
      /\ totalSupply \in Nat
  BY <1>1 DEF SystemIInv, PoolIInv, FundsTypeOK, PrimeIInv, PrimeTypeOK
<1>9. minted \in Nat /\ primeETHPrice * minted <= amount * assetPrice[a]
  BY <1>8, RoundingIsThePools, MintAmountType
<1>10. TotalETH' = TotalETH + amount * assetPrice[a]
  BY <1>4, <1>6, <1>7
<1>. HIDE DEF minted
<1>11. primeETHPrice * (totalSupply + minted) = primeETHPrice * totalSupply + primeETHPrice * minted
  BY <1>8, <1>9
<1>. QED
  BY <1>1, <1>7, <1>8, <1>9, <1>10, <1>11 DEF Surplus
\* The request takes shares of one strategy off the first NodeDelegator, which are
\* worth no more than was asked for, and nothing else.
LEMMA RequestTakes ==
  ASSUME SystemIInv, SystemIInv', OwnStrategies, NEW s \in Stakers, NEW amount \in Amounts,
         RequestWithdrawal(s, amount, primeETH[s])
  PROVE  /\ GetTotalAssetDeposits(WITHDRAW_ASSET) - amount <= GetTotalAssetDeposits(WITHDRAW_ASSET)'
         /\ \A b \in Assets \ {WITHDRAW_ASSET} :
              GetTotalAssetDeposits(b)' = GetTotalAssetDeposits(b)
<1>. DEFINE strategy == assetStrategy[WITHDRAW_ASSET]
            shares   == UnderlyingToShares(strategy, amount)
<1>1. PICK n \in NDCs : n = LstNdc
  BY DEF RequestWithdrawal
<1>2. /\ strategy \in Strategies
      /\ n \in Nodes /\ n \notin NativeNDCs
      /\ WITHDRAW_ASSET \in Assets /\ WITHDRAW_ASSET # WETH
  BY PoolAssumption DEF PoolAssumption, RequestWithdrawal, OwnStrategies, Nodes
<1>3. /\ shares <= depositShares[n][strategy]
      /\ depositShares' = [depositShares EXCEPT ![n][strategy] = @ - shares]
      /\ UNCHANGED <<rate, assetStrategy, ndcBalance, pendingInternalShareWithdrawals>>
      /\ UNCHANGED <<poolBalance, nodeDelegatorQueue, nativeLiquid, nativeStaked>>
  BY <1>1 DEF RequestWithdrawal, NDCRequestWithdrawal, QueueWithdrawals, configVars, poolVars,
     fundVars, adminVars, queueVars, nativeVars
<1>4. /\ depositShares \in [NDCs -> [Strategies -> Nat]]
      /\ pendingInternalShareWithdrawals \in [NDCs -> [Strategies -> Nat]]
      /\ rate[strategy] \in Nat \ {0} /\ ndcBalance[n][WITHDRAW_ASSET] \in Nat
      /\ poolBalance \in [Assets -> Nat]
  BY <1>2 DEF SystemIInv, PoolIInv, IInv, NDCTypeOK, ELTypeOK, FundsTypeOK
<1>5. amount \in Nat /\ RateUnit \in Nat \ {0} /\ amount * RateUnit \in Nat
  OBVIOUS
<1>6. shares \in Nat /\ rate[strategy] * shares <= amount * RateUnit
  BY <1>4, <1>5, DivBounds DEF UnderlyingToShares
<1>. HIDE DEF shares
<1>7. \A m \in Nodes \ {n}, b \in Assets : NodeAssetBalance(m, b)' = NodeAssetBalance(m, b)
  <2>. SUFFICES ASSUME NEW m \in Nodes \ {n}, NEW b \in Assets
                PROVE  NodeAssetBalance(m, b)' = NodeAssetBalance(m, b)
    OBVIOUS
  <2>1. CASE m \in NativeNDCs
    BY <1>3, <2>1 DEF NodeAssetBalance, NativeAssetBalance
  <2>2. CASE m \notin NativeNDCs
    <3>1. m \in NDCs /\ depositShares'[m] = depositShares[m]
      BY <1>3, <1>4, <2>2 DEF Nodes
    <3>. QED
      BY <1>3, <2>2, <3>1 DEF NodeAssetBalance, GetAssetBalance, NDCAssets, EigenAssets,
         SharesToUnderlying
  <2>. QED
    BY <2>1, <2>2
<1>8. ASSUME NEW b \in Assets \ {WITHDRAW_ASSET}
      PROVE  NodeAssetBalance(n, b)' = NodeAssetBalance(n, b)
  <2>1. CASE b = WETH \/ assetStrategy[b] = NoStrategy
    BY <1>2, <1>3, <2>1 DEF NodeAssetBalance, GetAssetBalance, NDCAssets, EigenAssets
  <2>2. CASE ~(b = WETH \/ assetStrategy[b] = NoStrategy)
    <3>. DEFINE t == assetStrategy[b]
    <3>1. t \in Strategies /\ t # strategy
      BY <1>2, <2>2 DEF OwnStrategies
    <3>2. depositShares'[n][t] = depositShares[n][t]
      BY <1>3, <1>4, <3>1
    <3>. QED
      BY <1>2, <1>3, <2>2, <3>2 DEF NodeAssetBalance, GetAssetBalance, NDCAssets, EigenAssets,
         SharesToUnderlying
  <2>. QED
    BY <2>1, <2>2
<1>. DEFINE held  == depositShares[n][strategy] + pendingInternalShareWithdrawals[n][strategy]
            r     == rate[strategy]
            liquid == ndcBalance[n][WITHDRAW_ASSET]
<1>9. /\ NodeAssetBalance(n, WITHDRAW_ASSET) = liquid + (held * r) \div RateUnit
      /\ NodeAssetBalance(n, WITHDRAW_ASSET)' = liquid + ((held - shares) * r) \div RateUnit
  <2>1. strategy # NoStrategy
    BY <1>2
  <2>2. depositShares'[n][strategy] + pendingInternalShareWithdrawals[n][strategy] = held - shares
    BY <1>2, <1>3, <1>4, <1>6
  <2>. QED
    BY <1>2, <1>3, <2>1, <2>2 DEF NodeAssetBalance, GetAssetBalance, NDCAssets, EigenAssets,
       SharesToUnderlying
<1>10. held \in Nat /\ shares <= held /\ r \in Nat \ {0} /\ liquid \in Nat /\ shares * r <= amount * RateUnit
  <2>1. depositShares[n][strategy] \in Nat /\ pendingInternalShareWithdrawals[n][strategy] \in Nat
    BY <1>2, <1>4
  <2>. QED
    BY <1>3, <1>4, <1>6, <2>1
<1>. DEFINE before == NodeAssetBalance(n, WITHDRAW_ASSET)
            after  == NodeAssetBalance(n, WITHDRAW_ASSET)'
<1>11. before - amount <= after /\ before \in Nat /\ after \in Nat
  <2>. HIDE DEF held, r, liquid
  <2>1. (held * r) \div RateUnit <= ((held - shares) * r) \div RateUnit + amount
    BY <1>5, <1>6, <1>10, TakenWorth
  <2>2. (held * r) \div RateUnit \in Nat /\ ((held - shares) * r) \div RateUnit \in Nat
    <3>1. held * r \in Nat /\ (held - shares) * r \in Nat
      <4>1. held - shares \in Nat
        BY <1>6, <1>10
      <4>. QED
        BY <1>10, <4>1
    <3>. QED
      BY <3>1, <1>5, DivNat
  <2>. DEFINE x == (held * r) \div RateUnit
              y == ((held - shares) * r) \div RateUnit
  <2>3. before = liquid + x /\ after = liquid + y /\ x \in Nat /\ y \in Nat /\ x <= y + amount
    BY <1>9, <2>1, <2>2
  <2>. HIDE DEF x, y, before, after
  <2>. QED
    BY <1>5, <1>10, <2>3
<1>12. \A b \in Assets : GetTotalAssetDeposits(b) \in Nat
  BY TotalType DEF SystemIInv, PoolIInv, IInv, FundsTypeOK
<1>13. \A b \in Assets : poolBalance'[b] - poolBalance[b] = 0
  BY <1>3, <1>4
<1>14. ASSUME NEW b \in Assets \ {WITHDRAW_ASSET}
       PROVE  GetTotalAssetDeposits(b)' = GetTotalAssetDeposits(b)
  <2>1. NodeAssetBalance(n, b)' - NodeAssetBalance(n, b) = 0
    <3>1. NodeAssetBalance(n, b) \in Nat
      BY <1>2, WorthType DEF WorthsOK
    <3>. QED
      BY <1>8, <3>1
  <2>2. GetTotalAssetDeposits(b)' = GetTotalAssetDeposits(b) + 0 + 0
    BY <1>2, <1>3, <1>7, <1>13, <2>1, TotalChange
  <2>. QED
    BY <1>12, <2>2
<1>15. GetTotalAssetDeposits(WITHDRAW_ASSET) - amount <= GetTotalAssetDeposits(WITHDRAW_ASSET)'
  <2>. DEFINE T == GetTotalAssetDeposits(WITHDRAW_ASSET)
              diff == IF n \in ToSet(nodeDelegatorQueue) THEN after - before ELSE 0
  <2>1. GetTotalAssetDeposits(WITHDRAW_ASSET)' = T + (poolBalance'[WITHDRAW_ASSET] - poolBalance[WITHDRAW_ASSET]) + diff
    BY <1>2, <1>3, <1>7, TotalChange
  <2>2. T \in Nat
    BY <1>2, <1>12
  <2>. HIDE DEF before, after
  <2>3. diff \in Int /\ 0 - amount <= diff
    BY <1>5, <1>11
  <2>4. GetTotalAssetDeposits(WITHDRAW_ASSET)' = T + 0 + diff
    BY <1>2, <1>13, <2>1
  <2>. HIDE DEF T, diff
  <2>5. T - amount <= T + 0 + diff
    BY <1>5, <2>2, <2>3
  <2>. QED
    BY <2>4, <2>5 DEF T
<1>. QED
  BY <1>14, <1>15

LEMMA RequestFavours ==
  ASSUME SystemIInv, SystemIInv', OwnStrategies, NEW s \in Stakers, NEW amount \in Amounts,
         RequestWithdrawal(s, amount, primeETH[s])
  PROVE  Surplus' >= Surplus
<1>. DEFINE W     == WITHDRAW_ASSET
            burnt == BurnAmount(amount)
            p     == assetPrice[W]
            lost  == GetTotalAssetDeposits(W)' - GetTotalAssetDeposits(W)
<1>1. /\ UNCHANGED <<supportedAssets, assetPrice, primeETHPrice>>
      /\ totalSupply' = totalSupply - burnt
      /\ W \in supportedAssets /\ primeETHPrice # 0
  BY DEF RequestWithdrawal, NDCRequestWithdrawal, BurnFrom, configVars, oracleVars
<1>2. /\ primeETHPrice \in Nat \ {0} /\ assetPrice \in [Assets -> Nat \ {0}]
      /\ totalSupply \in Nat /\ totalSupply' \in Nat /\ W \in Assets /\ p \in Nat
  BY <1>1, PoolAssumption DEF PoolAssumption, SystemIInv, PoolIInv, FundsTypeOK, PrimeIInv, PrimeTypeOK
<1>3. burnt \in Nat /\ amount * p < primeETHPrice * burnt
  <2>1. GetMintAmount(W, amount) \in Nat
    BY <1>2, MintAmountType
  <2>. QED
    BY <1>2, <2>1, RoundingIsThePools DEF BurnAmount
<1>4. lost \in Int /\ lost + amount >= 0
  <2>1. GetTotalAssetDeposits(W) - amount <= GetTotalAssetDeposits(W)'
    BY RequestTakes
  <2>2. GetTotalAssetDeposits(W) \in Nat
    BY <1>2, TotalType DEF SystemIInv, PoolIInv, IInv, FundsTypeOK
  <2>3. GetTotalAssetDeposits(W)' \in Nat
    <3>1. TotalsOK'
      BY TotalsType, PTL
    <3>. QED
      BY <1>2, <3>1 DEF TotalsOK, TotalAssetDeposits
  <2>. QED
    BY <2>1, <2>2, <2>3
<1>5. /\ TotalETH \in Nat /\ TotalETH' \in Nat
      /\ TotalETH' = TotalETH + lost * p
  BY <1>1, <1>2, RequestTakes, OneAssetChanges
<1>. HIDE DEF burnt, lost, p
<1>6. lost * p >= -(amount * p)
  <2>1. PICK k \in Nat : k = lost + amount
    BY <1>4
  <2>2. lost = k - amount /\ k * p >= 0 /\ k * p \in Int /\ amount * p \in Int
    BY <1>2, <1>4, <2>1
  <2>3. (k - amount) * p = k * p - amount * p
    BY <1>2, <2>1
  <2>. QED
    BY <2>2, <2>3
<1>7. primeETHPrice * (totalSupply - burnt) = primeETHPrice * totalSupply - primeETHPrice * burnt
  BY <1>2, <1>3
<1>8. /\ lost * p \in Int /\ amount * p \in Int
      /\ primeETHPrice * burnt \in Int /\ primeETHPrice * totalSupply \in Int
  BY <1>2, <1>3, <1>4
<1>9. TotalETH' - primeETHPrice * (totalSupply - burnt) >= TotalETH - primeETHPrice * totalSupply
  BY <1>3, <1>5, <1>6, <1>7, <1>8
<1>. QED
  BY <1>1, <1>9 DEF Surplus

LEMMA SupplyMoves ==
  ASSUME [Next]_vars, totalSupply' # totalSupply
  PROVE  \/ \E s \in Stakers, a \in Assets, amount \in Amounts : DepositAsset(s, a, amount, 0)
         \/ \E s \in Stakers, amount \in Amounts : RequestWithdrawal(s, amount, primeETH[s])
<1>1. \A s \in Stakers, r \in Roots :
        ClaimWithdrawal(s, r) \/ ClaimWithdrawalYn(s, r) => totalSupply' = totalSupply
  BY DEF ClaimWithdrawal, ClaimWithdrawalYn, primeVars
<1>. QED
  BY <1>1, OnlyStakerCalls DEF Frozen, StakerCalls

\* Whatever the price, the rates and the amounts, and whoever is first in the
\* queue, no deposit or request leaves the other holders with less than they had:
\* of all the divisions a request goes through, the two in the contracts and that
\* of EigenLayer's rate, none costs more than the primeETH burnt is worth.
THEOREM RoundingAlwaysFavoursThePool == Spec => RoundingFavoursThePool
<1>. DEFINE Favours == totalSupply' # totalSupply => Surplus' >= Surplus
<1>1. SystemIInv /\ OwnStrategies /\ [Next]_vars => [Favours]_vars
  <2>. SUFFICES ASSUME SystemIInv, OwnStrategies, [Next]_vars, totalSupply' # totalSupply
                PROVE  Surplus' >= Surplus
    OBVIOUS
  <2>1. SystemIInv'
    BY NextSystem
  <2>. QED
    BY <2>1, SupplyMoves, DepositFavours, RequestFavours
<1>. HIDE DEF Favours
<1>2. Spec => [][Favours]_vars
  BY <1>1, SystemInductiveInvariant, StrategiesAreOwn, PTL DEF Spec
<1>. QED
  BY <1>2 DEF Favours, RoundingFavoursThePool
-----------------------------------------------------------------------------
(* Totals as sums over the set of NodeDelegators that are in the queue. *)

Worths(a) == [n \in Nodes |-> NodeAssetBalance(n, a)]

TotalsOverNodes ==
  /\ IsFiniteSet(isNodeDelegator) /\ isNodeDelegator \subseteq Nodes
  /\ \A a \in Assets :
       GetTotalAssetDeposits(a) = poolBalance[a] + SumFunctionOnSet(Worths(a), isNodeDelegator)

LEMMA TotalsAreOverNodes == SystemIInv => TotalsOverNodes
<1>. SUFFICES ASSUME SystemIInv PROVE TotalsOverNodes
  OBVIOUS
<1>. DEFINE D == DOMAIN nodeDelegatorQueue
<1>1. /\ IsFiniteSet(D)
      /\ \A i \in D : nodeDelegatorQueue[i] \in Nodes
  BY QueueWorthsType DEF SystemIInv, PoolIInv, IInv
<1>2. isNodeDelegator = {nodeDelegatorQueue[i] : i \in D}
  BY DEF SystemIInv, QueueIInv, QueueMatchesFlags, ToSet
<1>3. \A i, j \in D : nodeDelegatorQueue[i] = nodeDelegatorQueue[j] => i = j
  BY DEF SystemIInv, QueueIInv, QueueMatchesFlags, IsInjective
<1>4. isNodeDelegator \subseteq Nodes
  BY <1>1, <1>2
<1>5. ASSUME NEW a \in Assets
      PROVE  /\ IsFiniteSet(isNodeDelegator)
             /\ GetTotalAssetDeposits(a)
                  = poolBalance[a] + SumFunctionOnSet(Worths(a), isNodeDelegator)
  <2>1. \A i \in D : /\ Worths(a)[nodeDelegatorQueue[i]] \in Int
                     /\ QueueWorths(a)[i] = Worths(a)[nodeDelegatorQueue[i]]
    BY <1>1, WorthType DEF Worths, QueueWorths, WorthsOK
  <2>2. PICK f : f = Worths(a)
    OBVIOUS
  <2>3. PICK g : g = QueueWorths(a)
    OBVIOUS
  <2>4. PICK q : q = nodeDelegatorQueue
    OBVIOUS
  <2>5. PICK N : N = isNodeDelegator
    OBVIOUS
  <2>6. PICK S : S = D /\ IsFiniteSet(S)
    BY <1>1
  <2>7. N = {q[i] : i \in S}
    BY <1>2, <2>4, <2>5, <2>6
  <2>8. \A i \in S : f[q[i]] \in Int
    BY <2>1, <2>2, <2>4, <2>6
  <2>9. \A i \in S : g[i] = f[q[i]]
    BY <2>1, <2>2, <2>3, <2>4, <2>6
  <2>10. \A i \in S : \A j \in S : q[i] = q[j] => i = j
    BY <1>3, <2>4, <2>6
  <2>11. IsFiniteSet(N) /\ SumFunctionOnSet(g, S) = SumFunctionOnSet(f, N)
    BY <2>6, <2>7, <2>8, <2>9, <2>10, SumOfNamed
  <2>. QED
    BY <2>2, <2>3, <2>5, <2>6, <2>11, TotalIs
<1>6. IsFiniteSet(isNodeDelegator)
  BY <1>5
<1>. QED
  BY <1>4, <1>5, <1>6 DEF TotalsOverNodes
-----------------------------------------------------------------------------
(* Where assets are.  From here on EigenLayer's rates stand still and nobody *)
(* is slashed, so that no conversion rounds, EigenLayer's operator leaves    *)
(* delegation alone, and a strategy is only replaced while no shares wait    *)
(* for an internal withdrawal.                                               *)

RatesStandStill == \A r \in Rates : r = RateUnit

SettledStrategies == assetStrategy' # assetStrategy => \A n \in NDCs : PendsNothing(n)

SteadyNext ==
  /\ \/ StakerNext \/ KeeperNext \/ BackendNext \/ NativeNodeNext \/ OracleNext \/ TokenNext
     \/ ConfigNext \/ QueueNext \/ PoolAdminNext
  /\ SettledStrategies

\* WETH is supported, so that the ether of a NodeDelegator keeps it in the queue.
SteadySpec == Init /\ WETH \in supportedAssets /\ [][SteadyNext]_vars

RateIs == \A s \in Strategies : rate[s] = RateUnit

ScaledAsQueued == \A r \in Roots : withdrawals[r].scaledShares = withdrawals[r].shares

InUse(s) == Underlying[s] \in supportedAssets /\ assetStrategy[Underlying[s]] = s

\* Only NodeDelegators of the queue hold anything, and only supported assets, in the
\* strategies these are deposited into; ether may reach the others too.
LstOK(n) ==
  /\ \A a \in Assets : ndcBalance[n][a] # 0 => a \in supportedAssets /\ n \in isNodeDelegator
  /\ \A s \in Strategies : Counted(n, s) # 0 => InUse(s) /\ n \in isNodeDelegator

NativeOK(n) ==
  \A a \in Assets \ {WETH} :
    nativeLiquid[n][a] # 0 => a \in supportedAssets /\ n \in isNodeDelegator

HoldingsOK ==
  /\ WETH \in supportedAssets
  /\ \A n \in NDCs : LstOK(n)
  /\ \A n \in NativeNDCs : NativeOK(n)

SteadyIInv == SystemIInv /\ OwnStrategies /\ RateIs /\ ScaledAsQueued /\ HoldingsOK

LEMMA SteadyIsNext == SteadyNext => Next
BY DEF SteadyNext, Next

\* At these rates a share is a token.
LEMMA AtPar ==
  ASSUME RateIs, NEW s \in Strategies, NEW x \in Nat
  PROVE  SharesToUnderlying(s, x) = x /\ UnderlyingToShares(s, x) = x
<1>1. rate[s] = RateUnit
  BY DEF RateIs
<1>2. (x * RateUnit) \div RateUnit = x
  <2>. DEFINE u == RateUnit
              p == x * u
              q == p \div u
  <2>1. u \in Nat \ {0} /\ p \in Nat
    OBVIOUS
  <2>2. q \in Nat /\ u * q <= p /\ p < u * (q + 1)
    <3>. HIDE DEF u, p
    <3>. QED
      BY <2>1, DivBounds
  <2>. HIDE DEF q, u
  <2>3. u * q < u * (x + 1) /\ u * x < u * (q + 1)
    BY <2>1, <2>2
  <2>4. q < x + 1 /\ x < q + 1
    BY <2>1, <2>2, <2>3, LessOfProducts
  <2>5. q = x
    BY <2>2, <2>4
  <2>. QED
    BY <2>5 DEF q, u
<1>. QED
  BY <1>1, <1>2 DEF SharesToUnderlying, UnderlyingToShares

LEMMA CountedType ==
  ASSUME NDCTypeOK, NEW n \in NDCs, NEW s \in Strategies
  PROVE  /\ Counted(n, s) \in Nat
         /\ depositShares[n][s] \in Nat /\ pendingInternalShareWithdrawals[n][s] \in Nat
BY DEF Counted, NDCTypeOK, ELTypeOK

\* The shares a NodeDelegator has of an asset.
SharesOf(n, a) ==
  IF a = WETH \/ assetStrategy[a] = NoStrategy THEN 0 ELSE Counted(n, assetStrategy[a])

\* What a NodeDelegator of LSTs is worth: its tokens, and a token for each share.
WorthsAtPar ==
  \A n \in NDCs, a \in Assets :
    /\ ndcBalance[n][a] \in Nat /\ SharesOf(n, a) \in Nat
    /\ NodeAssetBalance(n, a) = ndcBalance[n][a] + SharesOf(n, a)

LEMMA LstWorth == SystemIInv /\ RateIs => WorthsAtPar
<1>. SUFFICES ASSUME SystemIInv, RateIs, NEW n \in NDCs, NEW a \in Assets
              PROVE  /\ ndcBalance[n][a] \in Nat /\ SharesOf(n, a) \in Nat
                     /\ NodeAssetBalance(n, a) = ndcBalance[n][a] + SharesOf(n, a)
  BY DEF WorthsAtPar
<1>1. n \notin NativeNDCs /\ NDCTypeOK
  BY PoolAssumption DEF PoolAssumption, SystemIInv, PoolIInv, IInv
<1>2. ndcBalance[n][a] \in Nat
  BY <1>1 DEF NDCTypeOK
<1>3. CASE a = WETH \/ assetStrategy[a] = NoStrategy
  BY <1>1, <1>2, <1>3 DEF NodeAssetBalance, GetAssetBalance, NDCAssets, EigenAssets, SharesOf
<1>4. CASE ~(a = WETH \/ assetStrategy[a] = NoStrategy)
  <2>. DEFINE s == assetStrategy[a]
  <2>1. s \in Strategies
    BY <1>1, <1>4 DEF NDCTypeOK, ConfigTypeOK
  <2>2. Counted(n, s) \in Nat /\ SharesToUnderlying(s, Counted(n, s)) = Counted(n, s)
    BY <1>1, <2>1, CountedType, AtPar
  <2>. QED
    BY <1>1, <1>2, <1>4, <2>2
       DEF NodeAssetBalance, GetAssetBalance, NDCAssets, EigenAssets, Counted, SharesOf
<1>. QED
  BY <1>3, <1>4

LEMMA RateStands ==
  ASSUME RatesStandStill, ELTypeOK, RateIs, [Next]_vars
  PROVE  RateIs'
<1>1. CASE UNCHANGED rate
  BY <1>1 DEF RateIs
<1>2. ASSUME NEW s \in Strategies, Rebase(s)
      PROVE  RateIs'
  BY <1>2 DEF Rebase, RateIs, RatesStandStill, ELTypeOK
<1>3. StakerNext => UNCHANGED rate
  <2>1. \A s \in Stakers, r \in Roots : ClaimWithdrawal(s, r) \/ ClaimWithdrawalYn(s, r) => UNCHANGED rate
    BY DEF ClaimWithdrawal, ClaimWithdrawalYn, NDCClaimWithdrawal, CompleteQueuedWithdrawal
  <2>2. \A s \in Stakers, amount \in Amounts :
          RequestWithdrawal(s, amount, primeETH[s]) => UNCHANGED rate
    BY DEF RequestWithdrawal, NDCRequestWithdrawal, QueueWithdrawals
  <2>. QED
    BY <2>1, <2>2 DEF StakerNext, DepositAsset, DonateToPool, elVars
<1>4. KeeperNext => UNCHANGED rate
  <2>1. \A n \in NDCs, r \in Roots : CompleteQueuedWithdrawal(n, r) => UNCHANGED rate
    BY DEF CompleteQueuedWithdrawal
  <2>. QED
    BY <2>1, KeepersLeave DEF elVars
<1>5. ASSUME NEW r \in Roots, DelayElapses(r)
      PROVE  UNCHANGED rate
  BY <1>5 DEF DelayElapses
<1>6. BackendNext \/ EigenOperatorNext => UNCHANGED rate \/ \E s \in Strategies : Rebase(s)
  <2>1. ASSUME NEW n \in NDCs,
               \/ \E assets \in SUBSET Assets : DepositAssetsIntoStrategy(n, assets)
               \/ \E s \in Strategies, shares \in Amounts : RequestInternalWithdrawal(n, s, shares)
        PROVE  UNCHANGED rate
    BY <2>1 DEF DepositAssetsIntoStrategy, DepositIntoStrategy, RequestInternalWithdrawal,
       QueueWithdrawals
  <2>2. ASSUME NEW n \in NDCs,
               \/ NDCDelegateTo(n) \/ Undelegate(n) \/ OperatorUndelegates(n)
               \/ NDCPause(n) \/ NDCUnpause(n)
        PROVE  UNCHANGED rate
    BY <2>2 DEF NDCDelegateTo, DelegateTo, Undelegate, UndelegateStaker, NDCPause, NDCUnpause,
       OperatorUndelegates, elVars
  <2>. QED
    BY <1>5, <2>1, <2>2 DEF BackendNext, EigenLayerStep, EigenOperatorNext
<1>7. NativeNodeNext \/ OracleNext \/ TokenNext \/ ConfigNext => UNCHANGED rate
  BY DEF NativeNodeNext, OracleNext, OnlyOracle, TokenNext, OnlyToken, ConfigNext, OnlyConfig,
     ndVars, elVars
<1>8. QueueNext \/ PoolAdminNext => UNCHANGED rate
  BY DEF QueueNext, AddNodeDelegatorContractToQueue, RemoveNodeDelegatorContractsFromQueue,
     UpdateMaxNodeDelegatorLimit, otherThanQueue, PoolAdminNext, PoolPause, PoolUnpause,
     SetMinAmountToDeposit, elVars
<1>9. UNCHANGED vars => UNCHANGED rate
  BY DEF vars, ndVars, elVars
<1>. QED
  BY <1>1, <1>2, <1>3, <1>4, <1>6, <1>7, <1>8, <1>9 DEF Next

\* EigenLayer pays for what was queued.
LEMMA QueuedIsPaid ==
  ASSUME Unslashed, ELTypeOK, ConfigTypeOK, ScaledAsQueued, [Next]_vars
  PROVE  ScaledAsQueued'
<1>1. CASE UNCHANGED withdrawals
  BY <1>1 DEF ScaledAsQueued
<1>2. withdrawals \in [Roots -> Withdrawals] /\ depositShares \in [NDCs -> [Strategies -> Nat]]
  BY DEF ELTypeOK
<1>3. ASSUME NEW n \in NDCs, NEW s \in Strategies, NEW shares \in Nat, QueueWithdrawals(n, s, shares)
      PROVE  ScaledAsQueued'
  <2>1. /\ shares * 1 = shares
        /\ withdrawals' = [withdrawals EXCEPT ![NextRoot(n, s)] =
             [status |-> "queued", shares |-> shares, scaledShares |-> shares * 1]]
    BY <1>3 DEF QueueWithdrawals, Unslashed
  <2>. QED
    BY <1>2, <2>1 DEF ScaledAsQueued
<1>4. ASSUME NEW n \in NDCs, UndelegateStaker(n)
      PROVE  ScaledAsQueued'
  <2>1. \A r \in Roots :
          \/ withdrawals'[r] = withdrawals[r]
          \/ /\ withdrawals'[r].shares = depositShares[n][r.strategy]
             /\ withdrawals'[r].scaledShares = depositShares[n][r.strategy] * 1
    BY <1>4 DEF UndelegateStaker, Unslashed
  <2>2. \A r \in Roots : depositShares[n][r.strategy] * 1 = depositShares[n][r.strategy]
    BY <1>2 DEF Roots
  <2>. QED
    BY <2>1, <2>2 DEF ScaledAsQueued
<1>5. ASSUME NEW n \in NDCs, NEW r \in Roots, CompleteQueuedWithdrawal(n, r)
      PROVE  ScaledAsQueued'
  BY <1>2, <1>5 DEF CompleteQueuedWithdrawal, Completed, ScaledAsQueued
<1>6. ASSUME NEW r \in Roots, DelayElapses(r)
      PROVE  ScaledAsQueued'
  BY <1>2, <1>6 DEF DelayElapses, ScaledAsQueued, Withdrawals
<1>7. ASSUME StakerNext
      PROVE  ScaledAsQueued'
  <2>1. ASSUME NEW s \in Stakers, NEW a \in Assets, NEW amount \in Amounts,
               DepositAsset(s, a, amount, 0) \/ DonateToPool(s, a, amount)
        PROVE  UNCHANGED withdrawals
    BY <2>1 DEF DepositAsset, DonateToPool, elVars
  <2>2. ASSUME NEW s \in Stakers, NEW amount \in Amounts,
               RequestWithdrawal(s, amount, primeETH[s])
        PROVE  ScaledAsQueued'
    <3>. DEFINE strategy == assetStrategy[WITHDRAW_ASSET]
    <3>1. strategy \in Strategies
      BY <2>2, PoolAssumption DEF PoolAssumption, RequestWithdrawal, ConfigTypeOK
    <3>2. UnderlyingToShares(strategy, amount) \in Nat
      BY <3>1, SharesType
    <3>3. LstNdc \in NDCs /\ QueueWithdrawals(LstNdc, strategy, UnderlyingToShares(strategy, amount))
      BY <2>2 DEF RequestWithdrawal, NDCRequestWithdrawal
    <3>. QED
      BY <1>3, <3>1, <3>2, <3>3
  <2>3. ASSUME NEW s \in Stakers, NEW r \in Roots, ClaimWithdrawal(s, r) \/ ClaimWithdrawalYn(s, r)
        PROVE  ScaledAsQueued'
    BY <1>5, <2>3 DEF ClaimWithdrawal, ClaimWithdrawalYn, NDCClaimWithdrawal
  <2>. QED
    BY <1>1, <1>7, <2>1, <2>2, <2>3 DEF StakerNext
<1>8. ASSUME KeeperNext
      PROVE  ScaledAsQueued'
  <2>1. \/ UNCHANGED withdrawals
        \/ \E n \in NDCs, r \in Roots : CompleteQueuedWithdrawal(n, r)
    BY <1>8, KeepersLeave DEF elVars
  <2>. QED
    BY <1>1, <1>5, <2>1
<1>9. ASSUME BackendNext \/ EigenOperatorNext
      PROVE  ScaledAsQueued'
  <2>1. ASSUME NEW s \in Strategies, Rebase(s)
        PROVE  UNCHANGED withdrawals
    BY <2>1 DEF Rebase
  <2>2. ASSUME NEW n \in NDCs, NEW assets \in SUBSET Assets, DepositAssetsIntoStrategy(n, assets)
        PROVE  UNCHANGED withdrawals
    BY <2>2 DEF DepositAssetsIntoStrategy, DepositIntoStrategy
  <2>3. ASSUME NEW n \in NDCs, NEW s \in Strategies, NEW shares \in Amounts,
               RequestInternalWithdrawal(n, s, shares)
        PROVE  ScaledAsQueued'
    BY <1>3, <2>3 DEF RequestInternalWithdrawal
  <2>4. ASSUME NEW n \in NDCs, NDCDelegateTo(n) \/ NDCPause(n) \/ NDCUnpause(n)
        PROVE  UNCHANGED withdrawals
    BY <2>4 DEF NDCDelegateTo, DelegateTo, NDCPause, NDCUnpause, elVars
  <2>5. ASSUME NEW n \in NDCs, Undelegate(n) \/ OperatorUndelegates(n)
        PROVE  ScaledAsQueued'
    BY <1>4, <2>5 DEF Undelegate, OperatorUndelegates
  <2>. QED
    BY <1>1, <1>6, <1>9, <2>1, <2>2, <2>3, <2>4, <2>5
       DEF BackendNext, EigenOperatorNext, EigenLayerStep
<1>10. NativeNodeNext \/ OracleNext \/ TokenNext \/ ConfigNext => UNCHANGED withdrawals
  BY DEF NativeNodeNext, OracleNext, OnlyOracle, TokenNext, OnlyToken, ConfigNext, OnlyConfig,
     ndVars, elVars
<1>11. QueueNext \/ PoolAdminNext => UNCHANGED withdrawals
  BY DEF QueueNext, AddNodeDelegatorContractToQueue, RemoveNodeDelegatorContractsFromQueue,
     UpdateMaxNodeDelegatorLimit, otherThanQueue, PoolAdminNext, PoolPause, PoolUnpause,
     SetMinAmountToDeposit, elVars
<1>12. UNCHANGED vars => UNCHANGED withdrawals
  BY DEF vars, ndVars, elVars
<1>. QED
  BY <1>1, <1>7, <1>8, <1>9, <1>10, <1>11, <1>12 DEF Next
-----------------------------------------------------------------------------
(* What a step does to holdings and totals *)

LEMMA WorthsNow == SystemIInv /\ RateIs => WorthsAtPar /\ WorthsOK /\ TotalsOverNodes
BY LstWorth, WorthType, TotalsAreOverNodes

LEMMA WorthsNext ==
  ASSUME SystemIInv', RateIs'
  PROVE  WorthsAtPar' /\ WorthsOK' /\ TotalsOverNodes'
BY WorthsNow, PTL

\* Nothing a NodeDelegator does not hold is worth anything.
LEMMA HeldInQueue ==
  ASSUME SteadyIInv, NEW n \in NDCs, NEW a \in Assets, n \notin isNodeDelegator
  PROVE  ndcBalance[n][a] = 0 /\ SharesOf(n, a) = 0
<1>1. ndcBalance[n][a] = 0
  BY DEF SteadyIInv, HoldingsOK, LstOK
<1>2. SharesOf(n, a) = 0
  <2>1. assetStrategy[a] \in Strategies \cup {NoStrategy}
    BY DEF SteadyIInv, SystemIInv, PoolIInv, IInv, NDCTypeOK, ConfigTypeOK
  <2>. QED
    BY <2>1 DEF SteadyIInv, HoldingsOK, LstOK, SharesOf
<1>. QED
  BY <1>1, <1>2

\* A step of one NodeDelegator of LSTs, inside the queue or with what it already
\* holds: the totals change by what it and the pool gain.
LEMMA LstMoves ==
  ASSUME SteadyIInv, SystemIInv', RateIs', NEW n \in NDCs,
         UNCHANGED <<assetStrategy, supportedAssets, nodeDelegatorQueue, isNodeDelegator>>,
         UNCHANGED <<nativeLiquid, nativeStaked>>,
         \A m \in NDCs \ {n} : /\ ndcBalance'[m] = ndcBalance[m]
                               /\ \A s \in Strategies : Counted(m, s)' = Counted(m, s),
         \A a \in Assets : ndcBalance'[n][a] # 0 =>
           ndcBalance[n][a] # 0 \/ (a \in supportedAssets /\ n \in isNodeDelegator),
         \A s \in Strategies : Counted(n, s)' # 0 =>
           Counted(n, s) # 0 \/ (InUse(s) /\ n \in isNodeDelegator)
  PROVE  /\ HoldingsOK'
         /\ \A a \in Assets :
              GetTotalAssetDeposits(a)' =
                GetTotalAssetDeposits(a) + (poolBalance'[a] - poolBalance[a])
                  + ((ndcBalance'[n][a] + SharesOf(n, a)') - (ndcBalance[n][a] + SharesOf(n, a)))
<1>1. /\ SystemIInv /\ RateIs /\ HoldingsOK
      /\ assetStrategy \in [Assets -> Strategies \cup {NoStrategy}]
  BY DEF SteadyIInv, SystemIInv, PoolIInv, IInv, NDCTypeOK, ConfigTypeOK
<1>2. \A s \in Strategies : InUse(s)' <=> InUse(s)
  BY DEF InUse
<1>3. HoldingsOK'
  <2>1. ASSUME NEW m \in NDCs
        PROVE  LstOK(m)'
    <3>1. LstOK(m)
      BY <1>1 DEF HoldingsOK
    <3>2. \A a \in Assets : ndcBalance'[m][a] # 0 => a \in supportedAssets' /\ m \in isNodeDelegator'
      BY <3>1 DEF LstOK
    <3>3. \A s \in Strategies : Counted(m, s)' # 0 => InUse(s)' /\ m \in isNodeDelegator'
      BY <1>2, <3>1 DEF LstOK
    <3>. QED
      BY <3>2, <3>3 DEF LstOK
  <2>2. \A m \in NativeNDCs : NativeOK(m)'
    BY <1>1 DEF HoldingsOK, NativeOK
  <2>3. WETH \in supportedAssets'
    BY <1>1 DEF HoldingsOK
  <2>. QED
    BY <2>1, <2>2, <2>3 DEF HoldingsOK
<1>4. ASSUME NEW a \in Assets
      PROVE  GetTotalAssetDeposits(a)' =
                GetTotalAssetDeposits(a) + (poolBalance'[a] - poolBalance[a])
                  + ((ndcBalance'[n][a] + SharesOf(n, a)') - (ndcBalance[n][a] + SharesOf(n, a)))
  <2>1. WorthsAtPar /\ WorthsAtPar'
    BY <1>1, LstWorth, WorthsNext
  <2>2. n \in Nodes
    BY DEF Nodes
  <2>3. \A m \in Nodes \ {n} : NodeAssetBalance(m, a)' = NodeAssetBalance(m, a)
    <3>. SUFFICES ASSUME NEW m \in Nodes \ {n}
                  PROVE  NodeAssetBalance(m, a)' = NodeAssetBalance(m, a)
      OBVIOUS
    <3>1. CASE m \in NativeNDCs
      BY <3>1 DEF NodeAssetBalance, NativeAssetBalance
    <3>2. CASE m \notin NativeNDCs
      <4>1. m \in NDCs \ {n}
        BY <3>2 DEF Nodes
      <4>2. SharesOf(m, a)' = SharesOf(m, a)
        BY <1>1, <4>1 DEF SharesOf
      <4>. QED
        BY <2>1, <4>1, <4>2 DEF WorthsAtPar
    <3>. QED
      BY <3>1, <3>2
  <2>4. GetTotalAssetDeposits(a)' =
           GetTotalAssetDeposits(a) + (poolBalance'[a] - poolBalance[a])
             + IF n \in ToSet(nodeDelegatorQueue)
               THEN NodeAssetBalance(n, a)' - NodeAssetBalance(n, a) ELSE 0
    BY <1>1, <2>2, <2>3, TotalChange
  <2>5. /\ NodeAssetBalance(n, a) = ndcBalance[n][a] + SharesOf(n, a)
        /\ NodeAssetBalance(n, a)' = ndcBalance'[n][a] + SharesOf(n, a)'
    BY <2>1 DEF WorthsAtPar
  <2>6. ToSet(nodeDelegatorQueue) = isNodeDelegator
    BY <1>1 DEF SystemIInv, QueueIInv, QueueMatchesFlags
  <2>7. CASE n \in isNodeDelegator
    BY <2>4, <2>5, <2>6, <2>7
  <2>8. CASE n \notin isNodeDelegator
    <3>1. ndcBalance[n][a] = 0 /\ SharesOf(n, a) = 0
      BY <2>8, HeldInQueue
    <3>2. ndcBalance'[n][a] = 0
      BY <2>8, <3>1
    <3>3. SharesOf(n, a)' = 0
      BY <1>1, <1>3, <2>8 DEF SharesOf, HoldingsOK, LstOK
    <3>. QED
      BY <2>4, <2>6, <2>8, <3>1, <3>2, <3>3
  <2>. QED
    BY <2>7, <2>8
<1>. QED
  BY <1>3, <1>4

LEMMA SteadyTypes ==
  ASSUME SteadyIInv
  PROVE  /\ SystemIInv /\ PoolIInv /\ IInv /\ NDCTypeOK /\ ELTypeOK /\ ConfigTypeOK
         /\ FundsTypeOK /\ NativeTypeOK
         /\ RateIs /\ OwnStrategies /\ ScaledAsQueued /\ HoldingsOK
         /\ \A a \in Assets : GetTotalAssetDeposits(a) \in Nat
<1>1. SystemIInv /\ PoolIInv /\ IInv /\ NDCTypeOK /\ ELTypeOK /\ ConfigTypeOK /\ FundsTypeOK /\ NativeTypeOK
  BY DEF SteadyIInv, SystemIInv, PoolIInv, IInv, NDCTypeOK
<1>2. TotalsOK
  BY <1>1, TotalsType
<1>. QED
  BY <1>1, <1>2 DEF SteadyIInv, TotalsOK, TotalAssetDeposits

\* Every total is what it was, or at least that.
Kept  == \A a \in Assets : GetTotalAssetDeposits(a)' = GetTotalAssetDeposits(a)
Grown == \A a \in Assets : GetTotalAssetDeposits(a)' >= GetTotalAssetDeposits(a)

LEMMA KeptIsGrown ==
  ASSUME SteadyIInv, Kept
  PROVE  Grown
BY SteadyTypes DEF Kept, Grown

holdings == <<ndcBalance, depositShares, pendingInternalShareWithdrawals, nativeVars>>

LEMMA SameHoldings ==
  ASSUME SteadyIInv, UNCHANGED holdings,
         UNCHANGED <<supportedAssets, assetStrategy, isNodeDelegator>>
  PROVE  HoldingsOK'
<1>1. HoldingsOK
  BY SteadyTypes
<1>. QED
  BY <1>1 DEF holdings, nativeVars, HoldingsOK, LstOK, NativeOK, Counted, InUse

\* Only the pool's own tokens change.
LEMMA PoolMoves ==
  ASSUME SteadyIInv, SystemIInv', UNCHANGED holdings,
         UNCHANGED <<nodeDelegatorQueue, assetStrategy, rate>>
  PROVE  \A a \in Assets : GetTotalAssetDeposits(a)'
                             = GetTotalAssetDeposits(a) + (poolBalance'[a] - poolBalance[a])
<1>. SUFFICES ASSUME NEW a \in Assets
              PROVE  GetTotalAssetDeposits(a)'
                       = GetTotalAssetDeposits(a) + (poolBalance'[a] - poolBalance[a])
  OBVIOUS
<1>. DEFINE held == SumFunctionOnSet(QueueWorths(a), DOMAIN nodeDelegatorQueue)
<1>1. \A n : NodeAssetBalance(n, a)' = NodeAssetBalance(n, a)
  BY DEF holdings, nativeVars, NodeAssetBalance, NativeAssetBalance, GetAssetBalance, NDCAssets,
     EigenAssets, SharesToUnderlying
<1>2. GetTotalAssetDeposits(a) = poolBalance[a] + held
  BY TotalIs
<1>3. GetTotalAssetDeposits(a)' = poolBalance'[a] + held
  <2>1. QueueWorths(a)' = QueueWorths(a)
    BY <1>1 DEF QueueWorths
  <2>2. GetTotalAssetDeposits(a)' = poolBalance'[a] + SumFunction(QueueWorths(a)')
    BY DEF GetTotalAssetDeposits, QueueWorths
  <2>3. SumFunction(QueueWorths(a)) = held
    BY DEF SumFunction, QueueWorths
  <2>. QED
    BY <2>1, <2>2, <2>3
<1>4. held \in Nat
  <2>1. /\ IsFiniteSet(DOMAIN nodeDelegatorQueue)
        /\ \A i \in DOMAIN nodeDelegatorQueue : QueueWorths(a)[i] \in Nat
    BY SteadyTypes, QueueWorthsType DEF SystemIInv
  <2>. QED
    BY <2>1, SumNat
<1>5. poolBalance[a] \in Nat /\ poolBalance'[a] \in Nat
  BY SteadyTypes DEF SystemIInv, PoolIInv, FundsTypeOK
<1>. HIDE DEF held
<1>. QED
  BY <1>2, <1>3, <1>4, <1>5

\* Nothing that a total counts changes.
LEMMA NothingMoves ==
  ASSUME SteadyIInv, SystemIInv', UNCHANGED holdings,
         UNCHANGED <<supportedAssets, nodeDelegatorQueue, isNodeDelegator, assetStrategy, rate>>
  PROVE  HoldingsOK' /\ (UNCHANGED poolBalance => Kept)
<1>1. HoldingsOK'
  BY SameHoldings
<1>2. ASSUME UNCHANGED poolBalance
      PROVE  Kept
  <2>1. \A a \in Assets : GetTotalAssetDeposits(a) \in Nat /\ poolBalance[a] \in Nat
    BY SteadyTypes DEF FundsTypeOK
  <2>. QED
    BY <1>2, <2>1, PoolMoves DEF Kept
<1>. QED
  BY <1>1, <1>2

\* A step of one NodeDelegator of native ether.
LEMMA NativeMoves ==
  ASSUME SteadyIInv, SystemIInv', NEW n \in NativeNDCs,
         UNCHANGED <<assetStrategy, supportedAssets, nodeDelegatorQueue, isNodeDelegator, rate>>,
         UNCHANGED <<ndcBalance, depositShares, pendingInternalShareWithdrawals>>,
         \A m \in NativeNDCs \ {n} : /\ nativeLiquid'[m] = nativeLiquid[m]
                                     /\ nativeStaked'[m] = nativeStaked[m],
         \A a \in Assets \ {WETH} : nativeLiquid'[n][a] # 0 =>
           nativeLiquid[n][a] # 0 \/ (a \in supportedAssets /\ n \in isNodeDelegator)
  PROVE  /\ HoldingsOK'
         /\ \A a \in Assets :
              GetTotalAssetDeposits(a)' =
                GetTotalAssetDeposits(a) + (poolBalance'[a] - poolBalance[a])
                  + IF n \in isNodeDelegator
                    THEN NativeAssetBalance(n, a)' - NativeAssetBalance(n, a) ELSE 0
<1>1. SystemIInv /\ HoldingsOK
  BY SteadyTypes
<1>2. HoldingsOK'
  <2>1. \A m \in NativeNDCs : NativeOK(m)'
    BY <1>1 DEF HoldingsOK, NativeOK
  <2>2. WETH \in supportedAssets' /\ \A m \in NDCs : LstOK(m)'
    BY <1>1 DEF HoldingsOK, LstOK, Counted, InUse
  <2>. QED
    BY <2>1, <2>2 DEF HoldingsOK
<1>3. ASSUME NEW a \in Assets
      PROVE  GetTotalAssetDeposits(a)' =
                GetTotalAssetDeposits(a) + (poolBalance'[a] - poolBalance[a])
                  + IF n \in isNodeDelegator
                    THEN NativeAssetBalance(n, a)' - NativeAssetBalance(n, a) ELSE 0
  <2>1. n \in Nodes
    BY DEF Nodes
  <2>2. \A m \in Nodes \ {n} : NodeAssetBalance(m, a)' = NodeAssetBalance(m, a)
    BY DEF NodeAssetBalance, NativeAssetBalance, GetAssetBalance, NDCAssets, EigenAssets,
       SharesToUnderlying
  <2>3. ToSet(nodeDelegatorQueue) = isNodeDelegator
    BY <1>1 DEF SystemIInv, QueueIInv, QueueMatchesFlags
  <2>4. NodeAssetBalance(n, a) = NativeAssetBalance(n, a) /\ NodeAssetBalance(n, a)' = NativeAssetBalance(n, a)'
    BY DEF NodeAssetBalance
  <2>. QED
    BY <1>1, <2>1, <2>2, <2>3, <2>4, TotalChange
<1>. QED
  BY <1>2, <1>3

\* No NodeDelegator's worth changes.
LEMMA SameWorths ==
  ASSUME SteadyIInv, SystemIInv', UNCHANGED <<nodeDelegatorQueue, poolBalance>>,
         \A n \in Nodes, a \in Assets : NodeAssetBalance(n, a)' = NodeAssetBalance(n, a)
  PROVE  Kept
<1>. SUFFICES ASSUME NEW a \in Assets
              PROVE  GetTotalAssetDeposits(a)' = GetTotalAssetDeposits(a)
  BY DEF Kept
<1>1. \A i \in DOMAIN nodeDelegatorQueue : nodeDelegatorQueue[i] \in Nodes
  BY SteadyTypes, QueueWorthsType DEF SystemIInv
<1>2. QueueWorths(a)' = QueueWorths(a)
  BY <1>1 DEF QueueWorths
<1>3. /\ GetTotalAssetDeposits(a)' = poolBalance'[a] + SumFunction(QueueWorths(a)')
      /\ GetTotalAssetDeposits(a) = poolBalance[a] + SumFunction(QueueWorths(a))
  BY DEF GetTotalAssetDeposits, QueueWorths
<1>. QED
  BY <1>2, <1>3
-----------------------------------------------------------------------------
(* The ETH value of the totals *)

\* More of every asset, at prices no lower, of assets no fewer, is worth no less.
LEMMA ValueGrows ==
  ASSUME SystemIInv, SystemIInv', supportedAssets \subseteq supportedAssets',
         \A a \in Assets : assetPrice'[a] >= assetPrice[a],
         Grown
  PROVE  TotalETH \in Nat /\ TotalETH' \in Nat /\ TotalETH' >= TotalETH
<1>1. /\ supportedAssets \in SUBSET Assets /\ supportedAssets' \in SUBSET Assets
      /\ assetPrice \in [Assets -> Nat \ {0}] /\ assetPrice' \in [Assets -> Nat \ {0}]
  BY DEF SystemIInv, PoolIInv, IInv, FundsTypeOK, NDCTypeOK, ConfigTypeOK
<1>2. IsFiniteSet(supportedAssets')
  BY <1>1, PoolAssumption, FS_Subset DEF PoolAssumption
<1>3. \A a \in Assets : GetTotalAssetDeposits(a) \in Nat /\ GetTotalAssetDeposits(a)' \in Nat
  <2>1. TotalsOK /\ TotalsOK'
    BY TotalsType, PTL
  <2>. QED
    BY <2>1 DEF TotalsOK, TotalAssetDeposits
<1>. DEFINE R == supportedAssets
            S == supportedAssets'
            f == [a \in R |-> GetTotalAssetDeposits(a) * assetPrice[a]]
            g == [a \in S |-> GetTotalAssetDeposits(a)' * assetPrice'[a]]
            h == [a \in S |-> GetTotalAssetDeposits(a) * assetPrice[a]]
            d == [a \in S |-> g[a] - h[a]]
<1>4. TotalETH = SumFunctionOnSet(f, R) /\ TotalETH' = SumFunctionOnSet(g, S)
  <2>1. TotalETH = SumFunction([a \in R |-> TotalAssetDeposits[a] * assetPrice[a]])
    BY DEF TotalETH, ValueOf
  <2>2. TotalETH' = SumFunction([a \in S |-> TotalAssetDeposits'[a] * assetPrice'[a]])
    BY DEF TotalETH, ValueOf
  <2>3. [a \in R |-> TotalAssetDeposits[a] * assetPrice[a]] = f
    BY <1>1 DEF TotalAssetDeposits
  <2>4. [a \in S |-> TotalAssetDeposits'[a] * assetPrice'[a]] = g
    BY <1>1 DEF TotalAssetDeposits
  <2>. QED
    BY <2>1, <2>2, <2>3, <2>4 DEF SumFunction
<1>5. \A a \in S : f[a] = h[a] \/ a \notin R
  OBVIOUS
<1>6. \A a \in S : h[a] \in Nat /\ g[a] \in Nat
  BY <1>1, <1>3
<1>7. \A a \in S : d[a] \in Nat
  <2>. SUFFICES ASSUME NEW a \in S PROVE g[a] - h[a] \in Nat
    OBVIOUS
  <2>1. PICK more \in Nat : GetTotalAssetDeposits(a)' = GetTotalAssetDeposits(a) + more
    <3>1. GetTotalAssetDeposits(a)' - GetTotalAssetDeposits(a) \in Nat
      BY <1>1, <1>3 DEF Grown
    <3>. QED
      BY <1>1, <1>3, <3>1
  <2>2. PICK higher \in Nat : assetPrice'[a] = assetPrice[a] + higher
    <3>1. assetPrice'[a] - assetPrice[a] \in Nat
      BY <1>1
    <3>. QED
      BY <1>1, <3>1
  <2>3. PICK t \in Nat, p \in Nat : t = GetTotalAssetDeposits(a) /\ p = assetPrice[a]
    BY <1>1, <1>3
  <2>4. g[a] = (t + more) * (p + higher) /\ h[a] = t * p
    BY <2>1, <2>2, <2>3
  <2>5. (t + more) * (p + higher) = t * p + (t * higher + more * p + more * higher)
    OBVIOUS
  <2>6. t * higher \in Nat /\ more * p \in Nat /\ more * higher \in Nat /\ t * p \in Nat
    OBVIOUS
  <2>. QED
    BY <2>4, <2>5, <2>6
<1>8. SumFunctionOnSet(g, S) = SumFunctionOnSet(h, S) + SumFunctionOnSet(d, S)
  <2>1. \A a \in S : h[a] \in Int /\ d[a] \in Int /\ g[a] = h[a] + d[a]
    BY <1>6, <1>7
  <2>2. IsFiniteSet(S)
    BY <1>2
  <2>. HIDE DEF g, h, d, S
  <2>. QED
    BY <2>1, <2>2, SumPlus
<1>9. SumFunctionOnSet(h, R) <= SumFunctionOnSet(h, S)
  <2>1. R \in SUBSET S
    OBVIOUS
  <2>2. IsFiniteSet(S) /\ \A a \in S : h[a] \in Nat
    BY <1>2, <1>6
  <2>. HIDE DEF h, S, R
  <2>. QED
    BY <2>1, <2>2, SumOfMore
<1>10. SumFunctionOnSet(h, R) = SumFunctionOnSet(f, R)
  <2>1. \A a \in R : h[a] = f[a]
    OBVIOUS
  <2>2. IsFiniteSet(R)
    BY <1>2, FS_Subset
  <2>. HIDE DEF f, h, R
  <2>. QED
    BY <2>1, <2>2, SumSame
<1>11. /\ SumFunctionOnSet(f, R) \in Nat /\ SumFunctionOnSet(d, S) \in Nat
       /\ SumFunctionOnSet(h, S) \in Nat
  <2>1. IsFiniteSet(R) /\ \A a \in R : f[a] \in Nat
    BY <1>1, <1>2, <1>3, FS_Subset
  <2>2. /\ IsFiniteSet(S)
        /\ \A a \in S : h[a] \in Nat
        /\ \A a \in S : d[a] \in Nat
    BY <1>2, <1>6, <1>7
  <2>. HIDE DEF f, h, d, S, R
  <2>. QED
    BY <2>1, <2>2, SumNat
<1>. HIDE DEF f, g, h, d, R, S
<1>. QED
  BY <1>4, <1>8, <1>9, <1>10, <1>11

-----------------------------------------------------------------------------
(* What each step does *)

\* No account pays or is paid, and no config and no ether from outside comes in.
Quiet ==
  UNCHANGED <<totalSupply, wallet, ynLSDe, rate, configVars>> /\ ~EtherArrives /\ ~StrayEther

\* A slashed validator's stake leaves the protocol.
EtherLost ==
  UNCHANGED poolBalance /\ \E n \in NativeNDCs : NodeAssetBalance(n, WETH)' < NodeAssetBalance(n, WETH)

\* A step that trades with nobody.
MovesOnly ==
  /\ HoldingsOK'
  /\ Quiet => Kept
  /\ ~EtherLost => Grown

LEMMA KeptMovesOnly ==
  ASSUME SteadyIInv, HoldingsOK', Kept
  PROVE  MovesOnly
BY KeptIsGrown DEF MovesOnly

LEMMA DepositMoves ==
  ASSUME SteadyIInv, NEW s \in Stakers, NEW a \in Assets, NEW amount \in Amounts,
         DepositAsset(s, a, amount, 0)
  PROVE  HoldingsOK' /\ ~Quiet
<1>1. UNCHANGED holdings /\ UNCHANGED <<supportedAssets, assetStrategy, isNodeDelegator>>
  BY DEF DepositAsset, elVars, configVars, ndcVars, adminVars, queueVars, holdings
<1>2. wallet' # wallet
  <2>1. wallet' = [wallet EXCEPT ![s][a] = @ - amount] /\ amount # 0
    BY DEF DepositAsset, TakeFrom
  <2>2. wallet \in [Stakers -> [Assets -> Nat]]
    BY SteadyTypes DEF FundsTypeOK
  <2>3. wallet'[s][a] # wallet[s][a]
    BY <2>1, <2>2
  <2>. QED
    BY <2>3
<1>. QED
  BY <1>1, <1>2, SameHoldings DEF Quiet

LEMMA RequestMoves ==
  ASSUME SteadyIInv, SystemIInv', NEW s \in Stakers, NEW amount \in Amounts,
         RequestWithdrawal(s, amount, primeETH[s])
  PROVE  HoldingsOK' /\ ~Quiet
<1>. DEFINE strategy == assetStrategy[WITHDRAW_ASSET]
            shares   == UnderlyingToShares(strategy, amount)
<1>1. /\ WITHDRAW_ASSET \in Assets /\ strategy \in Strategies
      /\ LstNdc \in NDCs
  BY PoolAssumption, SteadyTypes DEF PoolAssumption, RequestWithdrawal, ConfigTypeOK
<1>2. /\ depositShares' = [depositShares EXCEPT ![LstNdc][strategy] = @ - shares]
      /\ UNCHANGED <<supportedAssets, assetStrategy, isNodeDelegator, ndcBalance, nativeVars,
                     pendingInternalShareWithdrawals>>
      /\ totalSupply' = totalSupply - BurnAmount(amount) /\ primeETHPrice # 0
  BY DEF RequestWithdrawal, NDCRequestWithdrawal, QueueWithdrawals, configVars, poolVars,
     adminVars, queueVars, nativeVars, BurnFrom
<1>3. shares \in Nat
  BY <1>1, SteadyTypes, SharesType
<1>. HIDE DEF shares, strategy
<1>4. ASSUME NEW n \in NDCs, NEW t \in Strategies, Counted(n, t)' # 0
      PROVE  Counted(n, t) # 0
  <2>1. depositShares'[n][t] <= depositShares[n][t]
    BY <1>1, <1>2, <1>3, SteadyTypes DEF ELTypeOK
  <2>2. /\ depositShares[n][t] \in Nat /\ depositShares'[n][t] \in Nat
        /\ pendingInternalShareWithdrawals[n][t] \in Nat
        /\ pendingInternalShareWithdrawals'[n][t] = pendingInternalShareWithdrawals[n][t]
    BY <1>2, SteadyTypes DEF ELTypeOK, NDCTypeOK, SystemIInv, PoolIInv, IInv
  <2>3. depositShares'[n][t] + pendingInternalShareWithdrawals'[n][t] # 0
    BY <1>4 DEF Counted
  <2>4. PICK before \in Nat, after \in Nat, pending \in Nat :
          /\ before = depositShares[n][t] /\ after = depositShares'[n][t]
          /\ pending = pendingInternalShareWithdrawals[n][t]
    BY <2>2
  <2>5. after <= before /\ after + pending # 0
    BY <2>1, <2>2, <2>3, <2>4
  <2>6. before + pending # 0
    BY <2>5
  <2>. QED
    BY <2>4, <2>6 DEF Counted
<1>5. HoldingsOK'
  <2>1. HoldingsOK
    BY SteadyTypes
  <2>2. \A n \in NDCs : LstOK(n)'
    BY <1>2, <1>4, <2>1 DEF HoldingsOK, LstOK, InUse
  <2>3. WETH \in supportedAssets' /\ \A n \in NativeNDCs : NativeOK(n)'
    BY <1>2, <2>1 DEF HoldingsOK, NativeOK, nativeVars
  <2>. QED
    BY <2>2, <2>3 DEF HoldingsOK
<1>6. totalSupply' # totalSupply
  <2>1. GetMintAmount(WITHDRAW_ASSET, amount) \in Nat /\ totalSupply \in Nat
    BY <1>1, <1>2, SteadyTypes, MintAmountType DEF SystemIInv, PrimeIInv, PrimeTypeOK, FundsTypeOK
  <2>. QED
    BY <1>2, <2>1 DEF BurnAmount
<1>. QED
  BY <1>5, <1>6 DEF Quiet

LEMMA DonateMoves ==
  ASSUME SteadyIInv, SystemIInv', NEW s \in Stakers, NEW a \in Assets, NEW amount \in Amounts,
         DonateToPool(s, a, amount)
  PROVE  MovesOnly
<1>1. /\ UNCHANGED holdings
      /\ UNCHANGED <<supportedAssets, nodeDelegatorQueue, isNodeDelegator, assetStrategy, rate>>
  BY DEF DonateToPool, elVars, configVars, ndcVars, adminVars, queueVars, holdings
<1>2. /\ poolBalance' = [poolBalance EXCEPT ![a] = @ + amount]
      /\ wallet' = [wallet EXCEPT ![s][a] = @ - amount]
  BY DEF DonateToPool, TakeFrom
<1>3. poolBalance \in [Assets -> Nat] /\ wallet \in [Stakers -> [Assets -> Nat]]
  BY SteadyTypes DEF FundsTypeOK
<1>4. \A b \in Assets : GetTotalAssetDeposits(b)'
                          = GetTotalAssetDeposits(b) + (poolBalance'[b] - poolBalance[b])
  BY <1>1, PoolMoves
<1>5. \A b \in Assets : GetTotalAssetDeposits(b) \in Nat
  BY SteadyTypes
<1>6. Grown
  <2>1. \A b \in Assets : poolBalance'[b] - poolBalance[b] \in Nat
    BY <1>2, <1>3
  <2>. QED
    BY <1>4, <1>5, <2>1 DEF Grown
<1>7. ASSUME Quiet
      PROVE  Kept
  <2>1. wallet'[s][a] = wallet[s][a]
    BY <1>7 DEF Quiet
  <2>2. amount = 0
    BY <1>2, <1>3, <2>1
  <2>3. \A b \in Assets : poolBalance'[b] - poolBalance[b] = 0
    BY <1>2, <1>3, <2>2
  <2>. QED
    BY <1>4, <1>5, <2>3 DEF Kept
<1>. QED
  BY <1>1, <1>6, <1>7, SameHoldings DEF MovesOnly

LEMMA ClaimMoves ==
  ASSUME SteadyIInv, SystemIInv', NEW s \in Stakers, NEW r \in Roots, ClaimStep(s, r)
  PROVE  MovesOnly
<1>1. /\ UNCHANGED holdings
      /\ UNCHANGED <<supportedAssets, nodeDelegatorQueue, isNodeDelegator, assetStrategy, rate>>
      /\ UNCHANGED poolBalance
  BY DEF ClaimStep, ClaimWithdrawal, ClaimWithdrawalYn, NDCClaimWithdrawal, PayTo,
     CompleteQueuedWithdrawal, configVars, adminVars, queueVars, nativeVars, holdings
<1>. QED
  BY <1>1, NothingMoves, KeptMovesOnly
-----------------------------------------------------------------------------
(* Moving assets: the operator and the manager *)

LEMMA SendMoves ==
  ASSUME SteadyIInv, SystemIInv', RateIs', NEW n \in isNodeDelegator,
         NEW amounts \in [Assets -> Nat], NodeReceives(n, amounts),
         \A a \in Assets : amounts[a] # 0 => a \in supportedAssets,
         \A a \in Assets : poolBalance'[a] = poolBalance[a] - amounts[a],
         UNCHANGED adminVars
  PROVE  HoldingsOK' /\ Kept
<1>1. UNCHANGED <<nodeDelegatorQueue, isNodeDelegator>>
  BY DEF adminVars, queueVars
<1>2. \A a \in Assets : /\ GetTotalAssetDeposits(a) \in Nat
                        /\ poolBalance[a] \in Nat /\ poolBalance'[a] \in Nat
  BY SteadyTypes DEF FundsTypeOK, SystemIInv, PoolIInv
<1>3. CASE n \in NDCs /\ ReceiveTokens(n, amounts) /\ UNCHANGED nativeVars
  <2>1. /\ UNCHANGED <<assetStrategy, supportedAssets, depositShares,
                       pendingInternalShareWithdrawals, nativeLiquid, nativeStaked>>
        /\ ndcBalance' = [ndcBalance EXCEPT ![n] = [a \in Assets |-> @[a] + amounts[a]]]
    BY <1>3 DEF ReceiveTokens, configVars, elVars, nativeVars
  <2>2. ndcBalance \in [NDCs -> [Assets -> Nat]]
    BY SteadyTypes DEF NDCTypeOK
  <2>3. \A m \in NDCs \ {n} : ndcBalance'[m] = ndcBalance[m]
    BY <2>1, <2>2
  <2>4. \A a \in Assets : /\ ndcBalance'[n][a] = ndcBalance[n][a] + amounts[a]
                          /\ ndcBalance[n][a] \in Nat
    BY <1>3, <2>1, <2>2
  <2>5. \A m \in NDCs, s \in Strategies : Counted(m, s)' = Counted(m, s)
    BY <2>1 DEF Counted
  <2>6. \A a \in Assets : SharesOf(n, a)' = SharesOf(n, a)
    BY <2>1 DEF SharesOf, Counted
  <2>7. \A a \in Assets : ndcBalance'[n][a] # 0 =>
          ndcBalance[n][a] # 0 \/ (a \in supportedAssets /\ n \in isNodeDelegator)
    BY <2>4
  <2>8. /\ HoldingsOK'
        /\ \A a \in Assets :
             GetTotalAssetDeposits(a)' =
               GetTotalAssetDeposits(a) + (poolBalance'[a] - poolBalance[a])
                 + ((ndcBalance'[n][a] + SharesOf(n, a)') - (ndcBalance[n][a] + SharesOf(n, a)))
    BY <1>1, <1>3, <2>1, <2>3, <2>5, <2>7, LstMoves
  <2>9. \A a \in Assets : SharesOf(n, a) \in Nat
    BY <1>3, SteadyTypes, LstWorth DEF WorthsAtPar
  <2>. QED
    BY <1>2, <2>4, <2>6, <2>8, <2>9 DEF Kept
<1>4. CASE n \in NativeNDCs /\ NativeReceives(n, amounts) /\ UNCHANGED ndVars
  <2>1. /\ UNCHANGED <<assetStrategy, supportedAssets, rate, ndcBalance, depositShares,
                       pendingInternalShareWithdrawals, nativeStaked>>
        /\ nativeLiquid' = [nativeLiquid EXCEPT ![n] = [a \in Assets |-> @[a] + amounts[a]]]
    BY <1>4 DEF NativeReceives, ndVars, configVars, elVars, ndcVars
  <2>2. nativeLiquid \in [NativeNDCs -> [Assets -> Nat]] /\ nativeStaked \in [NativeNDCs -> Nat]
    BY SteadyTypes DEF NativeTypeOK
  <2>3. \A m \in NativeNDCs \ {n} : nativeLiquid'[m] = nativeLiquid[m] /\ nativeStaked'[m] = nativeStaked[m]
    BY <2>1, <2>2
  <2>4. \A a \in Assets : /\ nativeLiquid'[n][a] = nativeLiquid[n][a] + amounts[a]
                          /\ nativeLiquid[n][a] \in Nat
    BY <1>4, <2>1, <2>2
  <2>5. \A a \in Assets : NativeAssetBalance(n, a)' - NativeAssetBalance(n, a) = amounts[a]
    <3>. SUFFICES ASSUME NEW a \in Assets
                  PROVE  NativeAssetBalance(n, a)' - NativeAssetBalance(n, a) = amounts[a]
      OBVIOUS
    <3>1. nativeStaked[n] \in Nat /\ nativeStaked'[n] = nativeStaked[n]
      BY <1>4, <2>1, <2>2
    <3>2. CASE a = WETH
      BY <2>4, <3>1, <3>2 DEF NativeAssetBalance
    <3>3. CASE a # WETH
      BY <2>4, <3>3 DEF NativeAssetBalance
    <3>. QED
      BY <3>2, <3>3
  <2>6. \A a \in Assets \ {WETH} : nativeLiquid'[n][a] # 0 =>
          nativeLiquid[n][a] # 0 \/ (a \in supportedAssets /\ n \in isNodeDelegator)
    BY <2>4
  <2>7. /\ HoldingsOK'
        /\ \A a \in Assets :
              GetTotalAssetDeposits(a)' =
                GetTotalAssetDeposits(a) + (poolBalance'[a] - poolBalance[a])
                  + IF n \in isNodeDelegator
                    THEN NativeAssetBalance(n, a)' - NativeAssetBalance(n, a) ELSE 0
    BY <1>1, <1>4, <2>1, <2>3, <2>6, NativeMoves
  <2>8. \A a \in Assets : GetTotalAssetDeposits(a)' =
                GetTotalAssetDeposits(a) + (poolBalance'[a] - poolBalance[a]) + amounts[a]
    BY <2>5, <2>7
  <2>. QED
    BY <1>2, <2>7, <2>8 DEF Kept
<1>. QED
  BY <1>3, <1>4 DEF NodeReceives

LEMMA QueuedNode ==
  ASSUME SystemIInv, NEW i \in DOMAIN nodeDelegatorQueue
  PROVE  nodeDelegatorQueue[i] \in isNodeDelegator
BY DEF SystemIInv, QueueIInv, QueueMatchesFlags, ToSet

LEMMA TransferMoves ==
  ASSUME SteadyIInv, SystemIInv', RateIs', NEW i \in DOMAIN nodeDelegatorQueue,
         NEW a \in Assets, NEW amount \in Amounts, TransferAssetToNodeDelegator(i, a, amount)
  PROVE  MovesOnly
<1>. DEFINE amounts == [b \in Assets |-> IF b = a THEN amount ELSE 0]
<1>1. /\ a \in supportedAssets
      /\ poolBalance' = [poolBalance EXCEPT ![a] = @ - amount]
      /\ NodeReceives(nodeDelegatorQueue[i], amounts)
      /\ UNCHANGED adminVars
  BY DEF TransferAssetToNodeDelegator
<1>2. amounts \in [Assets -> Nat]
  OBVIOUS
<1>3. \A b \in Assets : poolBalance'[b] = poolBalance[b] - amounts[b]
  BY <1>1, SteadyTypes DEF FundsTypeOK
<1>4. \A b \in Assets : amounts[b] # 0 => b \in supportedAssets
  BY <1>1
<1>5. nodeDelegatorQueue[i] \in isNodeDelegator
  BY SteadyTypes, QueuedNode
<1>. HIDE DEF amounts
<1>. QED
  BY <1>1, <1>2, <1>3, <1>4, <1>5, SendMoves, KeptMovesOnly

LEMMA TransferAllMoves ==
  ASSUME SteadyIInv, SystemIInv', RateIs', NEW i \in DOMAIN nodeDelegatorQueue,
         NEW assets \in SUBSET Assets, TransferAssetsToNodeDelegator(i, assets)
  PROVE  MovesOnly
<1>. DEFINE amounts == [b \in Assets |-> IF b \in assets THEN poolBalance[b] ELSE 0]
<1>1. /\ assets \subseteq supportedAssets
      /\ poolBalance' = [b \in Assets |-> IF b \in assets THEN 0 ELSE poolBalance[b]]
      /\ NodeReceives(nodeDelegatorQueue[i], amounts)
      /\ UNCHANGED adminVars
  BY DEF TransferAssetsToNodeDelegator
<1>2. amounts \in [Assets -> Nat]
  BY SteadyTypes DEF FundsTypeOK
<1>3. \A b \in Assets : poolBalance'[b] = poolBalance[b] - amounts[b]
  BY <1>1, SteadyTypes DEF FundsTypeOK
<1>4. \A b \in Assets : amounts[b] # 0 => b \in supportedAssets
  BY <1>1
<1>5. nodeDelegatorQueue[i] \in isNodeDelegator
  BY SteadyTypes, QueuedNode
<1>. HIDE DEF amounts
<1>. QED
  BY <1>1, <1>2, <1>3, <1>4, <1>5, SendMoves, KeptMovesOnly

LEMMA LstSendsBack ==
  ASSUME SteadyIInv, SystemIInv', RateIs', NEW n \in NDCs, NEW a \in Assets, NEW amount \in Amounts,
         TransferBackToLRTDepositPool(n, a, amount), ReceiveBack(a, amount), UNCHANGED nativeVars
  PROVE  MovesOnly
<1>1. /\ amount <= ndcBalance[n][a]
      /\ ndcBalance' = [ndcBalance EXCEPT ![n][a] = @ - amount]
      /\ poolBalance' = [poolBalance EXCEPT ![a] = @ + amount]
      /\ UNCHANGED <<assetStrategy, supportedAssets, depositShares, pendingInternalShareWithdrawals,
                     nodeDelegatorQueue, isNodeDelegator, nativeLiquid, nativeStaked>>
  BY DEF TransferBackToLRTDepositPool, ReceiveBack, configVars, elVars, adminVars, queueVars, nativeVars
<1>2. ndcBalance \in [NDCs -> [Assets -> Nat]] /\ poolBalance \in [Assets -> Nat]
  BY SteadyTypes DEF NDCTypeOK, FundsTypeOK
<1>3. \A m \in NDCs \ {n} : ndcBalance'[m] = ndcBalance[m]
  BY <1>1, <1>2
<1>4. \A m \in NDCs, s \in Strategies : Counted(m, s)' = Counted(m, s)
  BY <1>1 DEF Counted
<1>5. \A b \in Assets : SharesOf(n, b)' = SharesOf(n, b)
  BY <1>1 DEF SharesOf, Counted
<1>6. \A b \in Assets : /\ ndcBalance'[n][b] = ndcBalance[n][b] - (IF b = a THEN amount ELSE 0)
                        /\ poolBalance'[b] = poolBalance[b] + (IF b = a THEN amount ELSE 0)
                        /\ ndcBalance[n][b] \in Nat /\ poolBalance[b] \in Nat
  BY <1>1, <1>2
<1>7. \A b \in Assets : ndcBalance'[n][b] # 0 => ndcBalance[n][b] # 0
  BY <1>1, <1>6
<1>8. /\ HoldingsOK'
      /\ \A b \in Assets :
           GetTotalAssetDeposits(b)' =
             GetTotalAssetDeposits(b) + (poolBalance'[b] - poolBalance[b])
               + ((ndcBalance'[n][b] + SharesOf(n, b)') - (ndcBalance[n][b] + SharesOf(n, b)))
  BY <1>1, <1>3, <1>4, <1>7, LstMoves
<1>9. \A b \in Assets : SharesOf(n, b) \in Nat /\ GetTotalAssetDeposits(b) \in Nat
  BY SteadyTypes, LstWorth DEF WorthsAtPar
<1>10. Kept
  <2>. SUFFICES ASSUME NEW b \in Assets
                PROVE  GetTotalAssetDeposits(b)' = GetTotalAssetDeposits(b)
    BY DEF Kept
  <2>. DEFINE x == IF b = a THEN amount ELSE 0
  <2>1. x \in Nat
    OBVIOUS
  <2>. HIDE DEF x
  <2>2. /\ ndcBalance'[n][b] = ndcBalance[n][b] - x
        /\ poolBalance'[b] = poolBalance[b] + x
        /\ ndcBalance[n][b] \in Nat /\ poolBalance[b] \in Nat
    BY <1>6 DEF x
  <2>. QED
    BY <1>5, <1>8, <1>9, <2>1, <2>2
<1>. QED
  BY <1>8, <1>10, KeptMovesOnly

LEMMA NativeSendsBackMoves ==
  ASSUME SteadyIInv, SystemIInv', NEW n \in NativeNDCs, NEW a \in Assets, NEW amount \in Amounts,
         NativeSendsBack(n, a, amount), ReceiveBack(a, amount), UNCHANGED ndVars
  PROVE  MovesOnly
<1>1. /\ amount <= nativeLiquid[n][a]
      /\ nativeLiquid' = [nativeLiquid EXCEPT ![n][a] = @ - amount]
      /\ poolBalance' = [poolBalance EXCEPT ![a] = @ + amount]
      /\ UNCHANGED <<assetStrategy, supportedAssets, depositShares, pendingInternalShareWithdrawals,
                     ndcBalance, rate, nodeDelegatorQueue, isNodeDelegator, nativeStaked>>
  BY DEF NativeSendsBack, ReceiveBack, ndVars, configVars, elVars, ndcVars, adminVars, queueVars
<1>2. /\ nativeLiquid \in [NativeNDCs -> [Assets -> Nat]] /\ nativeStaked \in [NativeNDCs -> Nat]
      /\ poolBalance \in [Assets -> Nat]
  BY SteadyTypes DEF NativeTypeOK, FundsTypeOK
<1>3. \A m \in NativeNDCs \ {n} : nativeLiquid'[m] = nativeLiquid[m] /\ nativeStaked'[m] = nativeStaked[m]
  BY <1>1, <1>2
<1>. DEFINE sent(b) == IF b = a THEN amount ELSE 0
<1>4. \A b \in Assets : /\ sent(b) \in Nat
                        /\ nativeLiquid'[n][b] = nativeLiquid[n][b] - sent(b)
                        /\ poolBalance'[b] = poolBalance[b] + sent(b)
                        /\ nativeLiquid[n][b] \in Nat /\ poolBalance[b] \in Nat
                        /\ sent(b) <= nativeLiquid[n][b]
  BY <1>1, <1>2
<1>5. \A b \in Assets \ {WETH} : nativeLiquid'[n][b] # 0 => nativeLiquid[n][b] # 0
  <2>. HIDE DEF sent
  <2>. QED
    BY <1>4
<1>6. /\ HoldingsOK'
      /\ \A b \in Assets :
           GetTotalAssetDeposits(b)' =
             GetTotalAssetDeposits(b) + (poolBalance'[b] - poolBalance[b])
               + IF n \in isNodeDelegator
                 THEN NativeAssetBalance(n, b)' - NativeAssetBalance(n, b) ELSE 0
  BY <1>1, <1>3, <1>5, NativeMoves
<1>. HIDE DEF sent
<1>7. \A b \in Assets : NativeAssetBalance(n, b)' - NativeAssetBalance(n, b) = 0 - sent(b)
  <2>. SUFFICES ASSUME NEW b \in Assets
                PROVE  NativeAssetBalance(n, b)' - NativeAssetBalance(n, b) = 0 - sent(b)
    OBVIOUS
  <2>1. nativeStaked[n] \in Nat /\ nativeStaked'[n] = nativeStaked[n]
    BY <1>1, <1>2
  <2>2. CASE b = WETH
    BY <1>4, <2>1, <2>2 DEF NativeAssetBalance
  <2>3. CASE b # WETH
    BY <1>4, <2>3 DEF NativeAssetBalance
  <2>. QED
    BY <2>2, <2>3
<1>8. \A b \in Assets : GetTotalAssetDeposits(b) \in Nat
  BY SteadyTypes
<1>9. CASE n \in isNodeDelegator
  <2>1. \A b \in Assets : GetTotalAssetDeposits(b)' =
             GetTotalAssetDeposits(b) + (poolBalance'[b] - poolBalance[b]) + (0 - sent(b))
    BY <1>6, <1>7, <1>9
  <2>2. Kept
    BY <1>4, <1>8, <2>1 DEF Kept
  <2>. QED
    BY <1>6, <2>2, KeptMovesOnly
<1>10. CASE n \notin isNodeDelegator
  <2>1. \A b \in Assets : GetTotalAssetDeposits(b)' = GetTotalAssetDeposits(b) + sent(b)
    <3>1. \A b \in Assets : GetTotalAssetDeposits(b)' =
             GetTotalAssetDeposits(b) + (poolBalance'[b] - poolBalance[b]) + 0
      BY <1>6, <1>10
    <3>. QED
      BY <1>4, <1>8, <3>1
  <2>2. Grown
    BY <1>4, <1>8, <2>1 DEF Grown
  <2>3. \A b \in Assets \ {WETH} : sent(b) = 0
    <3>1. \A b \in Assets \ {WETH} : nativeLiquid[n][b] = 0
      BY <1>10, SteadyTypes DEF HoldingsOK, NativeOK
    <3>. QED
      BY <1>4, <3>1
  <2>4. ASSUME Quiet
        PROVE  sent(WETH) = 0
    <3>1. ~(NativeAssetBalance(n, WETH) > 0)
      BY <1>10, <2>4 DEF Quiet, StrayEther
    <3>2. nativeStaked[n] \in Nat
      BY <1>2
    <3>. QED
      BY <1>4, <3>1, <3>2 DEF NativeAssetBalance
  <2>5. Quiet => Kept
    BY <1>8, <2>1, <2>3, <2>4 DEF Kept
  <2>. QED
    BY <1>6, <2>2, <2>5 DEF MovesOnly
<1>. QED
  BY <1>9, <1>10

LEMMA SwapMoves ==
  ASSUME SteadyIInv, SystemIInv', NEW m \in Managers, NEW a \in Assets, NEW b \in Assets,
         NEW amount \in Amounts, SwapAssetWithinDepositPool(m, a, b, amount, 0)
  PROVE  /\ HoldingsOK'
         /\ Quiet => Kept
         /\ TotalETH \in Nat /\ TotalETH' \in Nat /\ TotalETH' >= TotalETH
         /\ UNCHANGED <<primeETHPrice, totalSupply>>
<1>. DEFINE returned == GetSwapAssetReturnAmount(a, b, amount)
            received == [poolBalance EXCEPT ![a] = @ + amount]
            left     == [wallet[m] EXCEPT ![a] = @ - amount]
<1>1. /\ poolBalance' = [received EXCEPT ![b] = @ - returned]
      /\ wallet' = [wallet EXCEPT ![m] = [left EXCEPT ![b] = @ + returned]]
      /\ returned <= poolBalance[b] /\ amount <= wallet[m][a]
      /\ {a, b} \subseteq supportedAssets
  BY DEF SwapAssetWithinDepositPool
<1>2. /\ UNCHANGED holdings
      /\ UNCHANGED <<supportedAssets, nodeDelegatorQueue, isNodeDelegator, assetStrategy, rate>>
      /\ UNCHANGED <<primeETHPrice, assetPrice, totalSupply>>
  BY DEF SwapAssetWithinDepositPool, elVars, configVars, ndcVars, adminVars, queueVars, holdings,
     oracleVars, primeVars
<1>3. /\ m \in Stakers
      /\ poolBalance \in [Assets -> Nat] /\ wallet \in [Stakers -> [Assets -> Nat]]
      /\ assetPrice \in [Assets -> Nat \ {0}]
  BY SteadyTypes, PoolAssumption DEF FundsTypeOK, PoolAssumption
<1>4. \A c \in Assets : GetTotalAssetDeposits(c)'
                          = GetTotalAssetDeposits(c) + (poolBalance'[c] - poolBalance[c])
  BY <1>2, PoolMoves
<1>5. \A c \in Assets : GetTotalAssetDeposits(c) \in Nat
  BY SteadyTypes
<1>6. returned \in Nat /\ assetPrice[b] * returned <= assetPrice[a] * amount
  <2>1. assetPrice[a] * amount \in Nat /\ assetPrice[b] \in Nat \ {0}
    BY <1>3
  <2>. QED
    BY <2>1, DivBounds DEF GetSwapAssetReturnAmount
<1>. HIDE DEF returned
<1>. DEFINE in(c)  == IF c = a THEN amount ELSE 0
            out(c) == IF c = b THEN returned ELSE 0
<1>7. \A c \in Assets : /\ in(c) \in Nat /\ out(c) \in Nat
                        /\ poolBalance'[c] = poolBalance[c] + in(c) - out(c)
                        /\ wallet'[m][c] = wallet[m][c] - in(c) + out(c)
                        /\ poolBalance[c] \in Nat /\ wallet[m][c] \in Nat
  <2>. SUFFICES ASSUME NEW c \in Assets
                PROVE  /\ in(c) \in Nat /\ out(c) \in Nat
                       /\ poolBalance'[c] = poolBalance[c] + in(c) - out(c)
                       /\ wallet'[m][c] = wallet[m][c] - in(c) + out(c)
                       /\ poolBalance[c] \in Nat /\ wallet[m][c] \in Nat
    OBVIOUS
  <2>1. in(c) \in Nat /\ out(c) \in Nat /\ poolBalance[c] \in Nat /\ wallet[m][c] \in Nat
    BY <1>3, <1>6
  <2>2. /\ poolBalance'[c] = IF c = b THEN received[c] - returned ELSE received[c]
        /\ wallet'[m][c] = IF c = b THEN left[c] + returned ELSE left[c]
    BY <1>1, <1>3
  <2>3. /\ received[c] = IF c = a THEN poolBalance[c] + amount ELSE poolBalance[c]
        /\ left[c] = IF c = a THEN wallet[m][c] - amount ELSE wallet[m][c]
    BY <1>3
  <2>. QED
    BY <1>6, <2>1, <2>2, <2>3
<1>. HIDE DEF in, out
<1>8. HoldingsOK'
  BY <1>2, SameHoldings
<1>9. Quiet => Kept
  <2>. SUFFICES ASSUME UNCHANGED wallet, NEW c \in Assets
                PROVE  GetTotalAssetDeposits(c)' = GetTotalAssetDeposits(c)
    BY DEF Quiet, Kept
  <2>1. wallet[m][c] = wallet[m][c] - in(c) + out(c)
    BY <1>7
  <2>2. in(c) = out(c)
    BY <1>7, <2>1
  <2>. QED
    BY <1>4, <1>5, <1>7, <2>2
<1>10. TotalETH \in Nat /\ TotalETH' \in Nat /\ TotalETH' >= TotalETH
  <2>. DEFINE old == TotalAssetDeposits
              mid == [c \in Assets |-> GetTotalAssetDeposits(c) + in(c)]
              new == [c \in Assets |-> GetTotalAssetDeposits(c)']
  <2>1. old \in [Assets -> Nat] /\ mid \in [Assets -> Nat]
    BY <1>5, <1>7 DEF TotalAssetDeposits
  <2>2. new \in [Assets -> Nat]
    <3>1. TotalsOK'
      BY TotalsType, PTL
    <3>. QED
      BY <3>1 DEF TotalsOK, TotalAssetDeposits
  <2>3. \A c \in Assets : new[c] = mid[c] - out(c)
    BY <1>4, <1>5, <1>7
  <2>4. \A c \in Assets \ {a} : mid[c] = old[c]
    BY <1>5 DEF in, TotalAssetDeposits
  <2>5. \A c \in Assets \ {b} : new[c] = mid[c]
    BY <2>1, <2>3 DEF out
  <2>6. mid[a] - old[a] = amount
    BY <1>5 DEF in, TotalAssetDeposits
  <2>7. new[b] - mid[b] = 0 - returned
    BY <1>6, <2>1, <2>3 DEF out
  <2>8. TotalETH = ValueOf(old) /\ TotalETH' = ValueOf(new)
    <3>1. TotalAssetDeposits' = new
      BY DEF TotalAssetDeposits
    <3>. QED
      BY <1>2, <3>1 DEF TotalETH, ValueOf
  <2>9. ValueOf(old) \in Nat /\ ValueOf(mid) \in Nat /\ ValueOf(new) \in Nat
    <3>1. supportedAssets \in SUBSET Assets
      BY SteadyTypes DEF ConfigTypeOK
    <3>. HIDE DEF old, mid, new
    <3>. QED
      BY <1>3, <2>1, <2>2, <3>1, ValueType
  <2>. HIDE DEF old, mid, new
  <2>10. ValueOf(mid) = ValueOf(old) + amount * assetPrice[a]
    <3>1. ValueOf(mid) = ValueOf(old) + (IF a \in supportedAssets THEN (mid[a] - old[a]) * assetPrice[a] ELSE 0)
      BY <2>1, <2>4, SteadyTypes, ValueChange
    <3>. QED
      BY <1>1, <2>6, <3>1
  <2>11. ValueOf(new) = ValueOf(mid) + (0 - returned) * assetPrice[b]
    <3>1. ValueOf(new) = ValueOf(mid) + (IF b \in supportedAssets THEN (new[b] - mid[b]) * assetPrice[b] ELSE 0)
      BY <2>1, <2>2, <2>5, SteadyTypes, ValueChange
    <3>. QED
      BY <1>1, <2>7, <3>1
  <2>12. PICK p \in Nat, q \in Nat : p = assetPrice[a] /\ q = assetPrice[b]
    BY <1>3
  <2>13. (0 - returned) * q = 0 - q * returned /\ amount * p = p * amount
    BY <1>6, <2>12
  <2>14. q * returned \in Nat /\ p * amount \in Nat /\ q * returned <= p * amount
    BY <1>6, <2>12
  <2>. QED
    BY <2>8, <2>9, <2>10, <2>11, <2>12, <2>13, <2>14
<1>. QED
  BY <1>2, <1>8, <1>9, <1>10

LEMMA ClaimInternalMoves ==
  ASSUME SteadyIInv, SystemIInv', RateIs', NEW n \in NDCs, NEW r \in Roots, ClaimInternal(n, r)
  PROVE  MovesOnly
<1>. DEFINE t == r.strategy
            u == Underlying[t]
            x == withdrawals[r].shares
<1>1. /\ r.ndc = n /\ t \in Strategies /\ u \in Assets /\ u # WETH
      /\ x \in Nat /\ withdrawals[r].scaledShares = x /\ CompletedUnderlying(r) = x
  <2>1. r.ndc = n
    BY DEF ClaimInternal, ClaimInternalWithdrawal, CompleteQueuedWithdrawal
  <2>2. t \in Strategies /\ x \in Nat
    BY SteadyTypes DEF Roots, ELTypeOK, Withdrawals
  <2>3. u \in Assets /\ u # WETH
    BY <2>2
  <2>4. withdrawals[r].scaledShares = x
    BY SteadyTypes DEF ScaledAsQueued
  <2>5. CompletedUnderlying(r) = x
    BY <2>2, AtPar, SteadyTypes DEF CompletedUnderlying
  <2>. QED
    BY <2>1, <2>2, <2>3, <2>4, <2>5
<1>2. /\ x <= pendingInternalShareWithdrawals[n][t]
      /\ pendingInternalShareWithdrawals' = [pendingInternalShareWithdrawals EXCEPT ![n][t] = @ - x]
      /\ poolBalance' = [poolBalance EXCEPT ![u] = @ + x]
      /\ UNCHANGED <<assetStrategy, supportedAssets, depositShares, ndcBalance,
                     nodeDelegatorQueue, isNodeDelegator, nativeLiquid, nativeStaked>>
  BY <1>1 DEF ClaimInternal, ClaimInternalWithdrawal, CompleteQueuedWithdrawal, ReceiveBack,
     configVars, adminVars, queueVars, nativeVars
<1>3. /\ pendingInternalShareWithdrawals \in [NDCs -> [Strategies -> Nat]]
      /\ depositShares \in [NDCs -> [Strategies -> Nat]]
      /\ ndcBalance \in [NDCs -> [Assets -> Nat]] /\ poolBalance \in [Assets -> Nat]
  BY SteadyTypes DEF NDCTypeOK, ELTypeOK, FundsTypeOK
<1>. HIDE DEF t, x
<1>4. ASSUME NEW m \in NDCs, NEW s \in Strategies
      PROVE  Counted(m, s)' = Counted(m, s) - (IF m = n /\ s = t THEN x ELSE 0)
  <2>1. /\ depositShares[m][s] \in Nat /\ pendingInternalShareWithdrawals[m][s] \in Nat
        /\ pendingInternalShareWithdrawals'[m][s] =
             pendingInternalShareWithdrawals[m][s] - (IF m = n /\ s = t THEN x ELSE 0)
    BY <1>1, <1>2, <1>3
  <2>. QED
    BY <1>1, <1>2, <2>1 DEF Counted
<1>5. x # 0 => InUse(t) /\ n \in isNodeDelegator
  <2>1. x # 0 => Counted(n, t) # 0
    BY <1>1, <1>2, <1>3 DEF Counted
  <2>. QED
    BY <1>1, <2>1, SteadyTypes DEF HoldingsOK, LstOK
<1>6. \A m \in NDCs, s \in Strategies : Counted(m, s) \in Nat
  BY CountedType, SteadyTypes
<1>7. \A s \in Strategies : Counted(n, s)' # 0 => Counted(n, s) # 0
  <2>. SUFFICES ASSUME NEW s \in Strategies, Counted(n, s) = 0
                PROVE  Counted(n, s)' = 0
    OBVIOUS
  <2>1. s = t => x = 0
    BY <1>1, <1>2, <1>3 DEF Counted
  <2>. QED
    BY <1>4, <2>1
<1>8. \A m \in NDCs \ {n} : /\ ndcBalance'[m] = ndcBalance[m]
                            /\ \A s \in Strategies : Counted(m, s)' = Counted(m, s)
  BY <1>2, <1>4, <1>6
<1>9. /\ HoldingsOK'
      /\ \A a \in Assets :
           GetTotalAssetDeposits(a)' =
             GetTotalAssetDeposits(a) + (poolBalance'[a] - poolBalance[a])
               + ((ndcBalance'[n][a] + SharesOf(n, a)') - (ndcBalance[n][a] + SharesOf(n, a)))
  BY <1>2, <1>7, <1>8, LstMoves
<1>10. \A a \in Assets : SharesOf(n, a)' = SharesOf(n, a) - (IF a = u THEN x ELSE 0)
  <2>. SUFFICES ASSUME NEW a \in Assets
                PROVE  SharesOf(n, a)' = SharesOf(n, a) - (IF a = u THEN x ELSE 0)
    OBVIOUS
  <2>1. CASE a = WETH \/ assetStrategy[a] = NoStrategy
    <3>1. a = u => x = 0
      BY <1>1, <1>5, <2>1 DEF InUse
    <3>. QED
      BY <1>1, <1>2, <2>1, <3>1 DEF SharesOf
  <2>2. CASE ~(a = WETH \/ assetStrategy[a] = NoStrategy)
    <3>1. PICK s \in Strategies : s = assetStrategy[a] /\ Underlying[s] = a
      BY <2>2, SteadyTypes DEF OwnStrategies
    <3>2. SharesOf(n, a) = Counted(n, s) /\ SharesOf(n, a)' = Counted(n, s)'
      BY <1>2, <2>2, <3>1 DEF SharesOf, Counted
    <3>3. Counted(n, s)' = Counted(n, s) - (IF s = t THEN x ELSE 0)
      BY <1>4
    <3>4. CASE s = t
      BY <3>1, <3>2, <3>3, <3>4
    <3>5. CASE s # t
      <4>1. a = u => x = 0
        BY <1>5, <3>1, <3>5 DEF InUse
      <4>. QED
        BY <3>2, <3>3, <3>5, <4>1
    <3>. QED
      BY <3>4, <3>5
  <2>. QED
    BY <2>1, <2>2
<1>11. Kept
  <2>. SUFFICES ASSUME NEW a \in Assets
                PROVE  GetTotalAssetDeposits(a)' = GetTotalAssetDeposits(a)
    BY DEF Kept
  <2>. DEFINE y == IF a = u THEN x ELSE 0
  <2>1. y \in Nat /\ SharesOf(n, a)' = SharesOf(n, a) - y
    BY <1>1, <1>10
  <2>2. poolBalance'[a] = poolBalance[a] + y /\ poolBalance[a] \in Nat
    BY <1>1, <1>2, <1>3
  <2>3. ndcBalance'[n][a] = ndcBalance[n][a] /\ ndcBalance[n][a] \in Nat /\ SharesOf(n, a) \in Nat
    BY <1>2, LstWorth, SteadyTypes DEF WorthsAtPar
  <2>4. GetTotalAssetDeposits(a) \in Nat
    BY SteadyTypes
  <2>. HIDE DEF y
  <2>. QED
    BY <1>9, <2>1, <2>2, <2>3, <2>4
<1>. QED
  BY <1>9, <1>11, KeptMovesOnly
-----------------------------------------------------------------------------
(* NodeDelegators, EigenLayer and validators *)

\* A step inside one NodeDelegator of LSTs: what it is worth is only moved about.
LEMMA KeepsEachWorth ==
  ASSUME SteadyIInv, SystemIInv', RateIs', NEW n \in NDCs, OnlyBackend,
         UNCHANGED <<supportedAssets, assetStrategy>>,
         \A m \in NDCs \ {n} : /\ ndcBalance'[m] = ndcBalance[m]
                               /\ \A s \in Strategies : Counted(m, s)' = Counted(m, s),
         \A a \in Assets : ndcBalance'[n][a] # 0 => ndcBalance[n][a] # 0,
         \A s \in Strategies : Counted(n, s)' # 0 =>
           Counted(n, s) # 0 \/ (InUse(s) /\ n \in isNodeDelegator),
         \A a \in Assets : ndcBalance'[n][a] + SharesOf(n, a)' = ndcBalance[n][a] + SharesOf(n, a)
  PROVE  MovesOnly
<1>1. UNCHANGED <<poolBalance, nodeDelegatorQueue, isNodeDelegator, nativeLiquid, nativeStaked>>
  BY DEF OnlyBackend, poolVars, fundVars, adminVars, queueVars, nativeVars
<1>2. /\ HoldingsOK'
      /\ \A a \in Assets :
           GetTotalAssetDeposits(a)' =
             GetTotalAssetDeposits(a) + (poolBalance'[a] - poolBalance[a])
               + ((ndcBalance'[n][a] + SharesOf(n, a)') - (ndcBalance[n][a] + SharesOf(n, a)))
  BY <1>1, LstMoves
<1>3. Kept
  <2>1. \A a \in Assets : /\ GetTotalAssetDeposits(a) \in Nat /\ poolBalance[a] \in Nat
                          /\ ndcBalance[n][a] \in Nat /\ SharesOf(n, a) \in Nat
    BY SteadyTypes, LstWorth DEF WorthsAtPar, FundsTypeOK
  <2>. QED
    BY <1>1, <1>2, <2>1 DEF Kept
<1>. QED
  BY <1>2, <1>3, KeptMovesOnly

LEMMA DepositsMove ==
  ASSUME SteadyIInv, SystemIInv', RateIs', NEW n \in NDCs, NEW assets \in SUBSET Assets,
         DepositAssetsIntoStrategy(n, assets), OnlyBackend
  PROVE  MovesOnly
<1>. DEFINE deposited == {a \in assets : ndcBalance[n][a] > DUST_AMOUNT}
            amounts == [s \in Strategies |->
                          IF Underlying[s] \in deposited /\ assetStrategy[Underlying[s]] = s
                          THEN ndcBalance[n][Underlying[s]] ELSE 0]
<1>1. /\ assets \subseteq supportedAssets \ {WETH}
      /\ \A a \in assets : assetStrategy[a] # NoStrategy
      /\ depositShares' = [depositShares EXCEPT ![n] =
           [s \in Strategies |-> @[s] + UnderlyingToShares(s, amounts[s])]]
      /\ ndcBalance' = [ndcBalance EXCEPT ![n] =
           [a \in Assets |-> IF a \in deposited THEN 0 ELSE @[a]]]
      /\ UNCHANGED <<supportedAssets, assetStrategy, pendingInternalShareWithdrawals>>
  BY DEF DepositAssetsIntoStrategy, DepositIntoStrategy, configVars
<1>2. /\ ndcBalance \in [NDCs -> [Assets -> Nat]]
      /\ depositShares \in [NDCs -> [Strategies -> Nat]]
      /\ pendingInternalShareWithdrawals \in [NDCs -> [Strategies -> Nat]]
  BY SteadyTypes DEF NDCTypeOK, ELTypeOK
<1>3. \A s \in Strategies : amounts[s] \in Nat
  BY <1>2
<1>4. \A s \in Strategies : UnderlyingToShares(s, amounts[s]) = amounts[s]
  <2>. HIDE DEF amounts
  <2>. QED
    BY <1>3, AtPar, SteadyTypes
<1>5. \A m \in NDCs \ {n} : /\ ndcBalance'[m] = ndcBalance[m]
                            /\ \A s \in Strategies : Counted(m, s)' = Counted(m, s)
  <2>. HIDE DEF amounts, deposited
  <2>1. \A m \in NDCs \ {n} : ndcBalance'[m] = ndcBalance[m] /\ depositShares'[m] = depositShares[m]
    BY <1>1, <1>2
  <2>. QED
    BY <1>1, <2>1 DEF Counted
<1>6. \A s \in Strategies : Counted(n, s)' = Counted(n, s) + amounts[s]
  <2>. SUFFICES ASSUME NEW s \in Strategies
                PROVE  Counted(n, s)' = Counted(n, s) + amounts[s]
    OBVIOUS
  <2>. HIDE DEF amounts, deposited
  <2>1. depositShares'[n][s] = depositShares[n][s] + amounts[s]
    BY <1>1, <1>2, <1>4
  <2>2. depositShares[n][s] \in Nat /\ pendingInternalShareWithdrawals[n][s] \in Nat /\ amounts[s] \in Nat
    BY <1>2, <1>3
  <2>. QED
    BY <1>1, <2>1, <2>2 DEF Counted
<1>7. \A a \in Assets : /\ ndcBalance[n][a] \in Nat
                        /\ ndcBalance'[n][a] = IF a \in deposited THEN 0 ELSE ndcBalance[n][a]
  <2>. HIDE DEF deposited
  <2>. QED
    BY <1>1, <1>2
<1>8. \A s \in Strategies : amounts[s] # 0 => InUse(s) /\ n \in isNodeDelegator
  <2>. SUFFICES ASSUME NEW s \in Strategies, amounts[s] # 0
                PROVE  InUse(s) /\ n \in isNodeDelegator
    OBVIOUS
  <2>1. Underlying[s] \in assets /\ assetStrategy[Underlying[s]] = s /\ ndcBalance[n][Underlying[s]] # 0
    BY <2>1
  <2>2. InUse(s)
    BY <1>1, <2>1 DEF InUse
  <2>3. n \in isNodeDelegator
    BY <2>1, SteadyTypes DEF HoldingsOK, LstOK
  <2>. QED
    BY <2>2, <2>3
<1>9. ASSUME NEW a \in Assets
      PROVE  ndcBalance'[n][a] + SharesOf(n, a)' = ndcBalance[n][a] + SharesOf(n, a)
  <2>1. CASE a = WETH \/ assetStrategy[a] = NoStrategy
    <3>1. a \notin deposited
      BY <1>1, <2>1
    <3>. QED
      BY <1>1, <1>7, <2>1, <3>1 DEF SharesOf
  <2>2. CASE ~(a = WETH \/ assetStrategy[a] = NoStrategy)
    <3>1. PICK s \in Strategies : s = assetStrategy[a] /\ Underlying[s] = a
      BY <2>2, SteadyTypes DEF OwnStrategies
    <3>2. SharesOf(n, a) = Counted(n, s) /\ SharesOf(n, a)' = Counted(n, s)'
      BY <1>1, <2>2, <3>1 DEF SharesOf, Counted
    <3>3. amounts[s] = IF a \in deposited THEN ndcBalance[n][a] ELSE 0
      BY <3>1
    <3>4. Counted(n, s) \in Nat
      BY CountedType, SteadyTypes
    <3>. HIDE DEF amounts, deposited
    <3>. QED
      BY <1>6, <1>7, <3>2, <3>3, <3>4
  <2>. QED
    BY <2>1, <2>2
<1>10. \A s \in Strategies : Counted(n, s)' # 0 =>
         Counted(n, s) # 0 \/ (InUse(s) /\ n \in isNodeDelegator)
  <2>. HIDE DEF amounts, deposited
  <2>. QED
    BY <1>6, <1>8, CountedType, SteadyTypes
<1>11. \A a \in Assets : ndcBalance'[n][a] # 0 => ndcBalance[n][a] # 0
  <2>. HIDE DEF amounts, deposited
  <2>. QED
    BY <1>7
<1>. HIDE DEF amounts, deposited
<1>. QED
  BY <1>1, <1>5, <1>9, <1>10, <1>11, KeepsEachWorth

\* Shares that only move from the deposits to the queue.
LEMMA KeepsEachCount ==
  ASSUME SteadyIInv, SystemIInv', RateIs', NEW n \in NDCs, OnlyBackend,
         UNCHANGED <<supportedAssets, assetStrategy, ndcBalance>>,
         \A m \in NDCs, s \in Strategies : Counted(m, s)' = Counted(m, s)
  PROVE  MovesOnly
<1>1. \A a \in Assets : SharesOf(n, a)' = SharesOf(n, a)
  <2>. SUFFICES ASSUME NEW a \in Assets PROVE SharesOf(n, a)' = SharesOf(n, a)
    OBVIOUS
  <2>1. assetStrategy[a] \in Strategies \cup {NoStrategy}
    BY SteadyTypes DEF ConfigTypeOK
  <2>2. PICK s : s = assetStrategy[a]
    OBVIOUS
  <2>3. CASE s = NoStrategy
    BY <2>2, <2>3 DEF SharesOf
  <2>4. CASE s \in Strategies
    <3>1. Counted(n, s)' = Counted(n, s)
      BY <2>4
    <3>. QED
      BY <2>2, <3>1 DEF SharesOf, Counted
  <2>. QED
    BY <2>1, <2>2, <2>3, <2>4
<1>. QED
  BY <1>1, KeepsEachWorth

LEMMA BackendMoves ==
  ASSUME SteadyIInv, SystemIInv', RateIs', BackendNext
  PROVE  MovesOnly
<1>1. ASSUME OnlyBackend, UNCHANGED <<supportedAssets, assetStrategy, rate, ndcBalance, depositShares,
                                      pendingInternalShareWithdrawals>>
      PROVE  MovesOnly
  <2>1. /\ UNCHANGED holdings
        /\ UNCHANGED <<supportedAssets, nodeDelegatorQueue, isNodeDelegator, assetStrategy, rate>>
        /\ UNCHANGED poolBalance
    BY <1>1 DEF OnlyBackend, poolVars, fundVars, adminVars, queueVars, holdings
  <2>. QED
    BY <2>1, NothingMoves, KeptMovesOnly
<1>2. CASE EigenLayerStep /\ OnlyBackend
  <2>1. UNCHANGED rate
    <3>1. rate \in [Strategies -> Nat \ {0}] /\ rate' \in [Strategies -> Nat \ {0}]
      BY SteadyTypes DEF ELTypeOK, SystemIInv, PoolIInv, IInv, NDCTypeOK
    <3>2. \A s \in Strategies : rate'[s] = rate[s]
      BY SteadyTypes DEF RateIs
    <3>. QED
      BY <3>1, <3>2
  <2>2. UNCHANGED <<supportedAssets, assetStrategy, ndcBalance, depositShares,
                    pendingInternalShareWithdrawals>>
    BY <1>2 DEF EigenLayerStep, DelayElapses, Rebase, configVars, ndcVars
  <2>. QED
    BY <1>1, <1>2, <2>1, <2>2
<1>3. ASSUME NEW n \in NDCs, NDCDelegateTo(n) \/ NDCPause(n) \/ NDCUnpause(n), OnlyBackend
      PROVE  MovesOnly
  <2>1. UNCHANGED <<supportedAssets, assetStrategy, rate, ndcBalance, depositShares,
                    pendingInternalShareWithdrawals>>
    BY <1>3 DEF NDCDelegateTo, DelegateTo, NDCPause, NDCUnpause, configVars, elVars, ndcVars
  <2>. QED
    BY <1>1, <1>3, <2>1
<1>4. ASSUME NEW n \in NDCs, NEW s \in Strategies, NEW shares \in Amounts,
             RequestInternalWithdrawal(n, s, shares), OnlyBackend
      PROVE  MovesOnly
  <2>1. UNCHANGED <<supportedAssets, assetStrategy, ndcBalance>>
    BY <1>4 DEF RequestInternalWithdrawal, configVars
  <2>2. \A m \in NDCs, t \in Strategies : Counted(m, t)' = Counted(m, t)
    BY <1>4, SteadyTypes, RequestInternalKeepsShares
  <2>. QED
    BY <1>4, <2>1, <2>2, KeepsEachCount
<1>5. ASSUME NEW n \in NDCs, Undelegate(n), OnlyBackend
      PROVE  MovesOnly
  <2>1. /\ UNCHANGED <<supportedAssets, assetStrategy, ndcBalance>>
        /\ depositShares' = [depositShares EXCEPT ![n] = [s \in Strategies |-> 0]]
        /\ pendingInternalShareWithdrawals' = [pendingInternalShareWithdrawals EXCEPT ![n] =
             [s \in Strategies |-> IF s \in UndelegatedStrategies THEN @[s] + depositShares[n][s] ELSE @[s]]]
    BY <1>5 DEF Undelegate, UndelegateStaker, configVars
  <2>2. /\ depositShares \in [NDCs -> [Strategies -> Nat]]
        /\ pendingInternalShareWithdrawals \in [NDCs -> [Strategies -> Nat]]
    BY SteadyTypes DEF ELTypeOK, NDCTypeOK
  <2>3. ASSUME NEW m \in NDCs, NEW s \in Strategies
        PROVE  Counted(m, s)' = Counted(m, s)
    <3>1. CASE s \in UndelegatedStrategies
      BY <1>5, <3>1, SteadyTypes, UndelegateKeepsShares
    <3>2. CASE s \notin UndelegatedStrategies /\ m = n
      <4>1. ~InUse(s)
        BY <3>2 DEF InUse, UndelegatedStrategies
      <4>2. Counted(n, s) = 0
        BY <4>1, SteadyTypes DEF HoldingsOK, LstOK
      <4>3. depositShares[n][s] = 0 /\ pendingInternalShareWithdrawals[n][s] = 0
        <5>1. depositShares[n][s] \in Nat /\ pendingInternalShareWithdrawals[n][s] \in Nat
          BY <2>2
        <5>. QED
          BY <4>2, <5>1 DEF Counted
      <4>4. depositShares'[n][s] = 0 /\ pendingInternalShareWithdrawals'[n][s] = 0
        BY <2>1, <2>2, <3>2, <4>3
      <4>. QED
        BY <3>2, <4>3, <4>4 DEF Counted
    <3>3. CASE m # n
      <4>1. /\ depositShares'[m][s] = depositShares[m][s]
            /\ pendingInternalShareWithdrawals'[m][s] = pendingInternalShareWithdrawals[m][s]
        BY <2>1, <2>2, <3>3
      <4>. QED
        BY <4>1 DEF Counted
    <3>. QED
      BY <3>1, <3>2, <3>3
  <2>. QED
    BY <1>5, <2>1, <2>3, KeepsEachCount
<1>. QED
  BY <1>2, <1>3, <1>4, <1>5, DepositsMove DEF BackendNext

\* Two multiples that are less than one apart are the same.
LEMMA CloseMultiples ==
  ASSUME NEW unit \in Nat, NEW i \in Nat, NEW j \in Nat,
         i * unit - j * unit < unit, j * unit - i * unit < unit
  PROVE  i * unit = j * unit
<1>1. ASSUME NEW k \in Nat, NEW m \in Nat, k > m
      PROVE  k * unit >= m * unit + unit
  <2>1. PICK d \in Nat : k = m + 1 + d
    BY <1>1, k - m - 1 \in Nat
  <2>2. k * unit = m * unit + unit + d * unit /\ d * unit >= 0
    BY <2>1
  <2>. QED
    BY <2>2
<1>2. i * unit \in Nat /\ j * unit \in Nat
  OBVIOUS
<1>. QED
  BY <1>1, <1>2

\* What a claim of whole stakes brings is what is no longer counted as staked.
LEMMA WholeStakesAreExits ==
  ASSUME SteadyIInv, NEW n \in NativeNDCs, NEW claimed \in Amounts,
         NEW exits \in 0 .. nativeStaked[n], NativeClaims(n, claimed, exits * FULL_STAKE)
  PROVE  /\ claimed = 0 => exits * FULL_STAKE = 0
         /\ ClaimsWholeStakes(n) => claimed = exits * FULL_STAKE
<1>1. /\ nativeLiquid \in [NativeNDCs -> [Assets -> Nat]] /\ nativeStaked \in [NativeNDCs -> Nat]
      /\ WETH \in Assets
  BY SteadyTypes, PoolAssumption DEF NativeTypeOK, PoolAssumption
<1>2. nativeLiquid[n][WETH] \in Nat /\ nativeStaked[n] \in Nat
  BY <1>1
<1>3. exits \in Nat /\ claimed \in Nat
  BY <1>2
<1>4. FULL_STAKE \in Nat /\ MIN_SLASHED_AMOUNT \in 1 .. FULL_STAKE
  BY PoolAssumption DEF PoolAssumption
<1>5. /\ nativeLiquid'[n][WETH] = nativeLiquid[n][WETH] + claimed
      /\ claimed - exits * FULL_STAKE < FULL_STAKE
      /\ exits * FULL_STAKE - claimed < FULL_STAKE
  BY <1>1, <1>3, <1>4 DEF NativeClaims
<1>6. ASSUME NEW whole \in Nat, claimed = whole * FULL_STAKE
      PROVE  claimed = exits * FULL_STAKE
  BY <1>3, <1>4, <1>5, <1>6, CloseMultiples
<1>7. claimed = 0 => exits * FULL_STAKE = 0
  <2>1. 0 * FULL_STAKE = 0
    BY <1>4
  <2>. QED
    BY <1>6, <2>1
<1>8. ASSUME ClaimsWholeStakes(n)
      PROVE  claimed = exits * FULL_STAKE
  <2>1. PICK whole \in 1 .. nativeStaked[n] :
          nativeLiquid'[n][WETH] = nativeLiquid[n][WETH] + whole * FULL_STAKE
    BY <1>8 DEF ClaimsWholeStakes
  <2>2. whole \in Nat
    BY <1>2
  <2>3. whole * FULL_STAKE \in Nat
    BY <1>4, <2>2
  <2>4. claimed = whole * FULL_STAKE
    BY <1>2, <1>3, <1>5, <2>1, <2>3
  <2>. QED
    BY <1>6, <2>2, <2>4
<1>. QED
  BY <1>7, <1>8

LEMMA NativeNodesMove ==
  ASSUME SteadyIInv, SystemIInv', NativeNodeNext
  PROVE  MovesOnly
<1>1. PICK n \in NativeNDCs :
        \/ \E amount \in Amounts :
             NativeReceives(n, [a \in Assets |-> IF a = WETH THEN amount ELSE 0])
        \/ NativeStakes(n, FULL_STAKE)
        \/ \E claimed \in Amounts, exits \in 0 .. nativeStaked[n] :
             NativeClaims(n, claimed, exits * FULL_STAKE)
  BY DEF NativeNodeNext
<1>2. /\ UNCHANGED <<assetStrategy, supportedAssets, nodeDelegatorQueue, isNodeDelegator, rate>>
      /\ UNCHANGED <<ndcBalance, depositShares, pendingInternalShareWithdrawals, poolBalance>>
  BY DEF NativeNodeNext, ndVars, configVars, elVars, ndcVars, fundVars, adminVars, queueVars
<1>3. nativeLiquid \in [NativeNDCs -> [Assets -> Nat]] /\ nativeStaked \in [NativeNDCs -> Nat]
  BY SteadyTypes DEF NativeTypeOK
<1>4. FULL_STAKE \in Nat /\ MIN_SLASHED_AMOUNT \in 1 .. FULL_STAKE
  BY PoolAssumption DEF PoolAssumption
\* The ether n gains, staked or not.
<1>5. PICK gain \in Int :
        /\ \A a \in Assets \ {WETH} : nativeLiquid'[n][a] = nativeLiquid[n][a]
        /\ NativeAssetBalance(n, WETH)' = NativeAssetBalance(n, WETH) + gain
        /\ \A m \in NativeNDCs \ {n} : nativeLiquid'[m] = nativeLiquid[m] /\ nativeStaked'[m] = nativeStaked[m]
        /\ gain # 0 => nativeLiquid'[n][WETH] > nativeLiquid[n][WETH] /\ ~ClaimsWholeStakes(n)
  <2>1. nativeLiquid[n][WETH] \in Nat /\ nativeStaked[n] \in Nat
    BY <1>3
  <2>2. ASSUME NEW amount \in Amounts,
               NativeReceives(n, [a \in Assets |-> IF a = WETH THEN amount ELSE 0])
        PROVE  /\ \A a \in Assets \ {WETH} : nativeLiquid'[n][a] = nativeLiquid[n][a]
               /\ NativeAssetBalance(n, WETH)' = NativeAssetBalance(n, WETH) + amount
               /\ \A m \in NativeNDCs \ {n} : nativeLiquid'[m] = nativeLiquid[m] /\ nativeStaked'[m] = nativeStaked[m]
               /\ amount # 0 => nativeLiquid'[n][WETH] > nativeLiquid[n][WETH] /\ ~ClaimsWholeStakes(n)
    <3>1. /\ nativeLiquid' = [nativeLiquid EXCEPT ![n] =
               [a \in Assets |-> @[a] + (IF a = WETH THEN amount ELSE 0)]]
          /\ nativeStaked' = nativeStaked
      BY <2>2 DEF NativeReceives
    <3>2. \A a \in Assets : nativeLiquid'[n][a] = nativeLiquid[n][a] + (IF a = WETH THEN amount ELSE 0)
      BY <1>3, <3>1
    <3>3. nativeLiquid'[n][WETH] = nativeLiquid[n][WETH] + amount
      BY <3>2
    <3>4. \A a \in Assets \ {WETH} : nativeLiquid'[n][a] = nativeLiquid[n][a]
      BY <1>3, <3>2
    <3>5. \A m \in NativeNDCs \ {n} : nativeLiquid'[m] = nativeLiquid[m] /\ nativeStaked'[m] = nativeStaked[m]
      BY <1>3, <3>1
    <3>6. NativeAssetBalance(n, WETH)' = NativeAssetBalance(n, WETH) + amount
      <4>1. /\ NativeAssetBalance(n, WETH)' = nativeLiquid'[n][WETH] + nativeStaked[n]
            /\ NativeAssetBalance(n, WETH) = nativeLiquid[n][WETH] + nativeStaked[n]
        BY <3>1 DEF NativeAssetBalance
      <4>. QED
        BY <2>1, <3>3, <4>1
    <3>7. amount # 0 => nativeLiquid'[n][WETH] > nativeLiquid[n][WETH] /\ ~ClaimsWholeStakes(n)
      BY <2>1, <3>1, <3>3 DEF ClaimsWholeStakes
    <3>. QED
      BY <3>4, <3>5, <3>6, <3>7
  <2>3. ASSUME NativeStakes(n, FULL_STAKE)
        PROVE  /\ \A a \in Assets \ {WETH} : nativeLiquid'[n][a] = nativeLiquid[n][a]
               /\ NativeAssetBalance(n, WETH)' = NativeAssetBalance(n, WETH) + 0
               /\ \A m \in NativeNDCs \ {n} : nativeLiquid'[m] = nativeLiquid[m] /\ nativeStaked'[m] = nativeStaked[m]
    <3>1. /\ nativeLiquid' = [nativeLiquid EXCEPT ![n][WETH] = @ - FULL_STAKE]
          /\ nativeStaked' = [nativeStaked EXCEPT ![n] = @ + FULL_STAKE]
      BY <2>3 DEF NativeStakes
    <3>2. /\ nativeLiquid'[n][WETH] = nativeLiquid[n][WETH] - FULL_STAKE
          /\ nativeStaked'[n] = nativeStaked[n] + FULL_STAKE
          /\ \A a \in Assets \ {WETH} : nativeLiquid'[n][a] = nativeLiquid[n][a]
          /\ \A m \in NativeNDCs \ {n} : nativeLiquid'[m] = nativeLiquid[m] /\ nativeStaked'[m] = nativeStaked[m]
      BY <1>3, <3>1
    <3>. QED
      BY <1>4, <2>1, <3>2 DEF NativeAssetBalance
  <2>4. ASSUME NEW claimed \in Amounts, NEW exits \in 0 .. nativeStaked[n],
               NativeClaims(n, claimed, exits * FULL_STAKE)
        PROVE  /\ \A a \in Assets \ {WETH} : nativeLiquid'[n][a] = nativeLiquid[n][a]
               /\ NativeAssetBalance(n, WETH)' = NativeAssetBalance(n, WETH) + (claimed - exits * FULL_STAKE)
               /\ claimed - exits * FULL_STAKE \in Int
               /\ \A m \in NativeNDCs \ {n} : nativeLiquid'[m] = nativeLiquid[m] /\ nativeStaked'[m] = nativeStaked[m]
               /\ claimed - exits * FULL_STAKE # 0
                    => nativeLiquid'[n][WETH] > nativeLiquid[n][WETH] /\ ~ClaimsWholeStakes(n)
    <3>0. PICK exited \in Nat : exited = exits * FULL_STAKE
      BY <1>4, <2>1
    <3>1. /\ nativeLiquid' = [nativeLiquid EXCEPT ![n][WETH] = @ + claimed]
          /\ nativeStaked' = [nativeStaked EXCEPT ![n] = @ - exited]
      BY <2>4, <3>0 DEF NativeClaims
    <3>2. /\ nativeLiquid'[n][WETH] = nativeLiquid[n][WETH] + claimed
          /\ nativeStaked'[n] = nativeStaked[n] - exited
          /\ \A a \in Assets \ {WETH} : nativeLiquid'[n][a] = nativeLiquid[n][a]
          /\ \A m \in NativeNDCs \ {n} : nativeLiquid'[m] = nativeLiquid[m] /\ nativeStaked'[m] = nativeStaked[m]
      BY <1>3, <3>1
    <3>3. /\ claimed = 0 => exited = 0
          /\ ClaimsWholeStakes(n) => claimed = exited
      BY <2>4, <3>0, WholeStakesAreExits
    <3>4. claimed \in Nat
      OBVIOUS
    <3>5. claimed - exited # 0 => nativeLiquid'[n][WETH] > nativeLiquid[n][WETH] /\ ~ClaimsWholeStakes(n)
      BY <2>1, <3>2, <3>3, <3>4
    <3>. QED
      BY <2>1, <3>0, <3>2, <3>4, <3>5 DEF NativeAssetBalance
  <2>5. CASE \E amount \in Amounts : NativeReceives(n, [a \in Assets |-> IF a = WETH THEN amount ELSE 0])
    <3>1. PICK amount \in Amounts : NativeReceives(n, [a \in Assets |-> IF a = WETH THEN amount ELSE 0])
      BY <2>5
    <3>2. amount \in Int /\ amount \in Nat
      OBVIOUS
    <3>. QED
      BY <2>2, <3>1, <3>2
  <2>6. CASE NativeStakes(n, FULL_STAKE)
    <3>1. 0 \in Int /\ ~(0 # 0)
      OBVIOUS
    <3>. QED
      BY <2>3, <2>6, <3>1
  <2>7. CASE \E claimed \in Amounts, exits \in 0 .. nativeStaked[n] :
               NativeClaims(n, claimed, exits * FULL_STAKE)
    <3>1. PICK claimed \in Amounts, exits \in 0 .. nativeStaked[n] :
            NativeClaims(n, claimed, exits * FULL_STAKE)
      BY <2>7
    <3>2. PICK gain \in Int : gain = claimed - exits * FULL_STAKE
      BY <2>4, <3>1
    <3>. QED
      BY <2>4, <3>1, <3>2
  <2>. QED
    BY <1>1, <2>5, <2>6, <2>7
<1>6. /\ HoldingsOK'
      /\ \A b \in Assets :
           GetTotalAssetDeposits(b)' =
             GetTotalAssetDeposits(b) + (poolBalance'[b] - poolBalance[b])
               + IF n \in isNodeDelegator
                 THEN NativeAssetBalance(n, b)' - NativeAssetBalance(n, b) ELSE 0
  BY <1>2, <1>5, NativeMoves
<1>7. ASSUME NEW b \in Assets
      PROVE  /\ NativeAssetBalance(n, b) \in Nat
             /\ NativeAssetBalance(n, b)' - NativeAssetBalance(n, b) = IF b = WETH THEN gain ELSE 0
  <2>1. nativeLiquid[n][b] \in Nat /\ nativeStaked[n] \in Nat
    BY <1>3
  <2>2. CASE b = WETH
    <3>1. NativeAssetBalance(n, WETH) \in Nat
      BY <2>1, <2>2 DEF NativeAssetBalance
    <3>. QED
      BY <1>5, <2>2, <3>1
  <2>3. CASE b # WETH
    BY <1>5, <2>1, <2>3 DEF NativeAssetBalance
  <2>. QED
    BY <2>2, <2>3
<1>8. \A b \in Assets : /\ GetTotalAssetDeposits(b) \in Nat
                        /\ poolBalance'[b] - poolBalance[b] = 0
  BY <1>2, SteadyTypes DEF FundsTypeOK
<1>9. Quiet => Kept
  <2>. SUFFICES ASSUME Quiet, NEW b \in Assets
                PROVE  GetTotalAssetDeposits(b)' = GetTotalAssetDeposits(b)
    BY DEF Kept
  <2>1. gain = 0
    BY <1>2, <1>5 DEF Quiet, EtherArrives
  <2>2. NativeAssetBalance(n, b)' - NativeAssetBalance(n, b) = 0
    BY <1>7, <2>1
  <2>. QED
    BY <1>6, <1>8, <2>2
<1>10. ~EtherLost => Grown
  <2>. SUFFICES ASSUME ~EtherLost, NEW b \in Assets
                PROVE  GetTotalAssetDeposits(b)' >= GetTotalAssetDeposits(b)
    BY DEF Grown
  <2>1. gain >= 0
    <3>1. NodeAssetBalance(n, WETH) = NativeAssetBalance(n, WETH)
          /\ NodeAssetBalance(n, WETH)' = NativeAssetBalance(n, WETH)'
      BY DEF NodeAssetBalance
    <3>2. ~(NativeAssetBalance(n, WETH)' < NativeAssetBalance(n, WETH))
      BY <1>2, <3>1 DEF EtherLost
    <3>3. NativeAssetBalance(n, WETH) \in Nat
      BY <1>7
    <3>. QED
      BY <1>5, <3>2, <3>3
  <2>2. PICK d \in Nat : d = NativeAssetBalance(n, b)' - NativeAssetBalance(n, b)
    BY <1>7, <2>1
  <2>. QED
    BY <1>6, <1>8, <2>2
<1>. QED
  BY <1>6, <1>9, <1>10 DEF MovesOnly
-----------------------------------------------------------------------------
(* Administration *)

LEMMA ConfigMoves ==
  ASSUME SteadyIInv, SystemIInv', RateIs', ConfigNext, SettledStrategies
  PROVE  MovesOnly /\ supportedAssets \subseteq supportedAssets'
<1>1. /\ UNCHANGED holdings
      /\ UNCHANGED <<poolBalance, nodeDelegatorQueue, isNodeDelegator, rate>>
  BY DEF ConfigNext, OnlyConfig, elVars, ndcVars, poolVars, fundVars, adminVars, queueVars, holdings
<1>2. ASSUME NEW a \in Assets, NEW limit \in Limits,
             AddNewSupportedAsset(a, limit) \/ UpdateAssetDepositLimit(a, limit)
      PROVE  MovesOnly /\ supportedAssets \subseteq supportedAssets'
  <2>1. UNCHANGED assetStrategy /\ supportedAssets \subseteq supportedAssets'
    BY <1>2 DEF AddNewSupportedAsset, UpdateAssetDepositLimit
  <2>2. HoldingsOK'
    <3>1. \A s \in Strategies : InUse(s) => InUse(s)'
      BY <2>1 DEF InUse
    <3>2. HoldingsOK
      BY SteadyTypes
    <3>3. \A n \in NDCs : LstOK(n)'
      BY <1>1, <2>1, <3>1, <3>2 DEF HoldingsOK, LstOK, Counted, holdings
    <3>4. \A n \in NativeNDCs : NativeOK(n)'
      BY <1>1, <2>1, <3>2 DEF HoldingsOK, NativeOK, holdings, nativeVars
    <3>. QED
      BY <2>1, <3>2, <3>3, <3>4 DEF HoldingsOK
  <2>3. Kept
    <3>1. \A b \in Assets : GetTotalAssetDeposits(b) \in Nat /\ poolBalance[b] \in Nat
      BY SteadyTypes DEF FundsTypeOK
    <3>. QED
      BY <1>1, <2>1, <3>1, PoolMoves DEF Kept
  <2>. QED
    BY <2>1, <2>2, <2>3, KeptMovesOnly
<1>3. ASSUME NEW t \in Strategies,
             UpdateAssetStrategy(Underlying[t], t, ToSet(nodeDelegatorQueue) \cap NDCs)
      PROVE  MovesOnly /\ supportedAssets \subseteq supportedAssets'
  <2>. DEFINE a   == Underlying[t]
              old == assetStrategy[a]
  <2>1. /\ a \in supportedAssets /\ old # t
        /\ old # NoStrategy =>
             \A n \in ToSet(nodeDelegatorQueue) \cap NDCs : UserUnderlyingView(old, n) = 0
        /\ assetStrategy' = [assetStrategy EXCEPT ![a] = t]
        /\ UNCHANGED supportedAssets
    BY <1>3 DEF UpdateAssetStrategy
  <2>2. a \in Assets /\ assetStrategy \in [Assets -> Strategies \cup {NoStrategy}]
    BY <2>1, SteadyTypes DEF ConfigTypeOK
  <2>. HIDE DEF a
  <2>3. /\ assetStrategy'[a] = t
        /\ \A b \in Assets \ {a} : assetStrategy'[b] = assetStrategy[b]
    BY <2>1, <2>2
  <2>4. \A n \in NDCs, s \in Strategies : pendingInternalShareWithdrawals[n][s] = 0
    <3>1. assetStrategy' # assetStrategy
      BY <2>1, <2>3
    <3>. QED
      BY <3>1 DEF SettledStrategies, PendsNothing
  <2>5. ASSUME NEW n \in NDCs, old # NoStrategy
        PROVE  Counted(n, old) = 0
    <3>1. old \in Strategies
      BY <2>2, <2>5
    <3>2. /\ depositShares[n][old] \in Nat /\ pendingInternalShareWithdrawals[n][old] = 0
      BY <2>4, <3>1, CountedType, SteadyTypes
    <3>3. CASE n \in isNodeDelegator
      <4>1. n \in ToSet(nodeDelegatorQueue)
        BY <3>3, SteadyTypes DEF SystemIInv, QueueIInv, QueueMatchesFlags
      <4>2. SharesToUnderlying(old, depositShares[n][old]) = 0
        BY <2>1, <2>5, <4>1 DEF UserUnderlyingView
      <4>3. depositShares[n][old] = 0
        BY <3>1, <3>2, <4>2, AtPar, SteadyTypes
      <4>. QED
        BY <3>2, <4>3 DEF Counted
    <3>4. CASE n \notin isNodeDelegator
      BY <3>1, <3>4, SteadyTypes DEF HoldingsOK, LstOK
    <3>. QED
      BY <3>3, <3>4
  <2>6. ASSUME NEW n \in NDCs
        PROVE  Counted(n, t) = 0
    <3>1. ~InUse(t)
      BY <2>1 DEF InUse, a
    <3>. QED
      BY <3>1, SteadyTypes DEF HoldingsOK, LstOK
  <2>7. ASSUME NEW n \in NDCs, NEW s \in Strategies
        PROVE  /\ Counted(n, s)' = Counted(n, s)
               /\ Counted(n, s) # 0 => InUse(s)'
    <3>1. Counted(n, s)' = Counted(n, s)
      BY <1>1 DEF Counted, holdings
    <3>2. ASSUME Counted(n, s) # 0
          PROVE  InUse(s)'
      <4>1. InUse(s)
        BY <3>2, SteadyTypes DEF HoldingsOK, LstOK
      <4>2. Underlying[s] # a
        BY <2>5, <3>2, <4>1 DEF InUse
      <4>3. Underlying[s] \in Assets
        OBVIOUS
      <4>. QED
        BY <2>1, <2>3, <4>1, <4>2, <4>3 DEF InUse
    <3>. QED
      BY <3>1, <3>2
  <2>8. HoldingsOK'
    <3>1. HoldingsOK
      BY SteadyTypes
    <3>2. \A n \in NDCs : LstOK(n)'
      BY <1>1, <2>1, <2>7, <3>1 DEF HoldingsOK, LstOK, holdings
    <3>3. WETH \in supportedAssets' /\ \A n \in NativeNDCs : NativeOK(n)'
      BY <1>1, <2>1, <3>1 DEF HoldingsOK, NativeOK, holdings, nativeVars
    <3>. QED
      BY <3>2, <3>3 DEF HoldingsOK
  <2>9. ASSUME NEW n \in NDCs, NEW b \in Assets
        PROVE  SharesOf(n, b)' = SharesOf(n, b)
    <3>1. CASE b # a
      <4>1. PICK s : s = assetStrategy[b] /\ s = assetStrategy'[b] /\ s \in Strategies \cup {NoStrategy}
        BY <2>2, <2>3, <3>1
      <4>. QED
        BY <2>7, <4>1 DEF SharesOf, Counted
    <3>2. CASE b = a
      <4>1. SharesOf(n, b) = 0
        BY <2>5, <3>2 DEF SharesOf
      <4>2. SharesOf(n, b)' = 0
        <5>1. t # NoStrategy /\ Counted(n, t)' = 0
          BY <2>6, <2>7
        <5>. QED
          BY <2>3, <3>2, <5>1 DEF SharesOf, Counted
      <4>. QED
        BY <4>1, <4>2
    <3>. QED
      BY <3>1, <3>2
  <2>10. \A n \in Nodes, b \in Assets : NodeAssetBalance(n, b)' = NodeAssetBalance(n, b)
    <3>. SUFFICES ASSUME NEW n \in Nodes, NEW b \in Assets
                  PROVE  NodeAssetBalance(n, b)' = NodeAssetBalance(n, b)
      OBVIOUS
    <3>1. CASE n \in NativeNDCs
      BY <1>1, <3>1 DEF NodeAssetBalance, NativeAssetBalance, holdings, nativeVars
    <3>2. CASE n \notin NativeNDCs
      <4>1. n \in NDCs
        BY <3>2 DEF Nodes
      <4>2. /\ NodeAssetBalance(n, b) = ndcBalance[n][b] + SharesOf(n, b)
            /\ NodeAssetBalance(n, b)' = ndcBalance'[n][b] + SharesOf(n, b)'
        BY <4>1, SteadyTypes, LstWorth, WorthsNext DEF WorthsAtPar
      <4>. QED
        BY <1>1, <2>9, <4>1, <4>2 DEF holdings
    <3>. QED
      BY <3>1, <3>2
  <2>11. Kept
    BY <1>1, <2>10, SameWorths
  <2>. QED
    BY <2>1, <2>8, <2>11, KeptMovesOnly
<1>. QED
  BY <1>2, <1>3 DEF ConfigNext

\* NodeDelegators outside the queue are worth nothing, but for stray ether.
LEMMA OutsideWorth ==
  ASSUME SteadyIInv, NEW n \in Nodes \ isNodeDelegator, NEW a \in Assets
  PROVE  /\ NodeAssetBalance(n, a) \in Nat
         /\ NodeAssetBalance(n, a) # 0 => a = WETH /\ StrayEther
<1>1. NodeAssetBalance(n, a) \in Nat
  BY WorthType, SteadyTypes DEF WorthsOK
<1>2. CASE n \in NativeNDCs
  <2>1. NodeAssetBalance(n, a) = NativeAssetBalance(n, a)
    BY <1>2 DEF NodeAssetBalance
  <2>2. CASE a = WETH
    BY <1>1, <1>2, <2>1, <2>2 DEF StrayEther
  <2>3. CASE a # WETH
    <3>1. nativeLiquid[n][a] = 0
      BY <1>2, <2>3, SteadyTypes DEF HoldingsOK, NativeOK
    <3>. QED
      BY <1>1, <2>1, <2>3, <3>1 DEF NativeAssetBalance
  <2>. QED
    BY <2>2, <2>3
<1>3. CASE n \notin NativeNDCs
  <2>1. n \in NDCs
    BY <1>3 DEF Nodes
  <2>2. ndcBalance[n][a] = 0 /\ SharesOf(n, a) = 0
    BY <2>1, HeldInQueue
  <2>3. NodeAssetBalance(n, a) = ndcBalance[n][a] + SharesOf(n, a)
    BY <2>1, SteadyTypes, LstWorth DEF WorthsAtPar
  <2>. QED
    BY <1>1, <2>2, <2>3
<1>. QED
  BY <1>1, <1>2, <1>3

\* Those that may be removed are worth nothing at all.
LEMMA RemovableWorth ==
  ASSUME SteadyIInv, NEW n \in Nodes, HoldsNothing(n)
  PROVE  /\ \A a \in Assets : NodeAssetBalance(n, a) = 0
         /\ n \in NDCs => /\ \A a \in Assets : ndcBalance[n][a] = 0
                          /\ \A s \in Strategies : Counted(n, s) = 0
         /\ n \in NativeNDCs => \A a \in Assets : nativeLiquid[n][a] = 0
<1>1. \A a \in supportedAssets : NodeAssetBalance(n, a) = 0
  BY DEF HoldsNothing
<1>2. CASE n \in NativeNDCs
  <2>1. ASSUME NEW a \in Assets
        PROVE  NodeAssetBalance(n, a) = 0 /\ nativeLiquid[n][a] = 0
    <3>1. nativeLiquid[n][a] \in Nat /\ nativeStaked[n] \in Nat
      BY <1>2, SteadyTypes DEF NativeTypeOK
    <3>2. NodeAssetBalance(n, a) = nativeLiquid[n][a] + (IF a = WETH THEN nativeStaked[n] ELSE 0)
      BY <1>2 DEF NodeAssetBalance, NativeAssetBalance
    <3>3. CASE a \in supportedAssets
      <4>1. NodeAssetBalance(n, a) = 0
        BY <1>1, <3>3
      <4>. QED
        BY <3>1, <3>2, <4>1
    <3>4. CASE a \notin supportedAssets
      <4>1. a # WETH /\ nativeLiquid[n][a] = 0
        BY <1>2, <3>4, SteadyTypes DEF HoldingsOK, NativeOK
      <4>. QED
        BY <3>2, <4>1
    <3>. QED
      BY <3>3, <3>4
  <2>2. n \notin NDCs
    BY <1>2, PoolAssumption DEF PoolAssumption
  <2>. QED
    BY <2>1, <2>2
<1>3. CASE n \notin NativeNDCs
  <2>1. n \in NDCs
    BY <1>3 DEF Nodes
  <2>2. ASSUME NEW a \in Assets
        PROVE  /\ NodeAssetBalance(n, a) = ndcBalance[n][a] + SharesOf(n, a)
               /\ ndcBalance[n][a] = 0 /\ SharesOf(n, a) = 0
    <3>1. /\ NodeAssetBalance(n, a) = ndcBalance[n][a] + SharesOf(n, a)
          /\ ndcBalance[n][a] \in Nat /\ SharesOf(n, a) \in Nat
      BY <2>1, SteadyTypes, LstWorth DEF WorthsAtPar
    <3>2. CASE a \in supportedAssets
      <4>1. NodeAssetBalance(n, a) = 0
        BY <1>1, <3>2
      <4>. QED
        BY <3>1, <4>1
    <3>3. CASE a \notin supportedAssets
      <4>1. ndcBalance[n][a] = 0
        BY <2>1, <3>3, SteadyTypes DEF HoldingsOK, LstOK
      <4>2. SharesOf(n, a) = 0
        <5>1. CASE a = WETH \/ assetStrategy[a] = NoStrategy
          BY <5>1 DEF SharesOf
        <5>2. CASE ~(a = WETH \/ assetStrategy[a] = NoStrategy)
          <6>1. PICK s \in Strategies : s = assetStrategy[a] /\ Underlying[s] = a
            BY <5>2, SteadyTypes DEF OwnStrategies
          <6>2. Counted(n, s) = 0
            BY <2>1, <3>3, <6>1, SteadyTypes DEF HoldingsOK, LstOK, InUse
          <6>. QED
            BY <6>1, <6>2 DEF SharesOf
        <5>. QED
          BY <5>1, <5>2
      <4>. QED
        BY <3>1, <4>1, <4>2
    <3>. QED
      BY <3>2, <3>3
  <2>3. ASSUME NEW s \in Strategies, Counted(n, s) # 0
        PROVE  FALSE
    <3>1. InUse(s)
      BY <2>1, <2>3, SteadyTypes DEF HoldingsOK, LstOK
    <3>2. SharesOf(n, Underlying[s]) = Counted(n, s) /\ Underlying[s] \in Assets
      <4>1. Underlying[s] # WETH /\ s # NoStrategy /\ Underlying[s] \in Assets
        OBVIOUS
      <4>. QED
        BY <3>1, <4>1 DEF SharesOf, InUse
    <3>. QED
      BY <2>2, <2>3, <3>2
  <2>. QED
    BY <1>3, <2>1, <2>2, <2>3
<1>. QED
  BY <1>2, <1>3
\* A change of the queue that takes in or lets go only what is worth nothing.
LEMMA QueueWorth ==
  ASSUME SteadyIInv, SystemIInv', RateIs', UNCHANGED otherThanQueue, NEW a \in Assets,
         \/ /\ isNodeDelegator' \subseteq isNodeDelegator
            /\ \A n \in isNodeDelegator \ isNodeDelegator' : NodeAssetBalance(n, a) = 0
         \/ isNodeDelegator \subseteq isNodeDelegator'
  PROVE  /\ GetTotalAssetDeposits(a)' >= GetTotalAssetDeposits(a)
         /\ (\A n \in isNodeDelegator' \ isNodeDelegator : NodeAssetBalance(n, a) = 0)
              => GetTotalAssetDeposits(a)' = GetTotalAssetDeposits(a)
<1>. DEFINE f   == Worths(a)
            old == isNodeDelegator
            new == isNodeDelegator'
<1>1. UNCHANGED holdings /\ UNCHANGED <<poolBalance, assetStrategy, rate>>
  BY DEF otherThanQueue, elVars, configVars, ndcVars, fundVars, holdings
<1>2. TotalsOverNodes /\ TotalsOverNodes'
  BY SteadyTypes, WorthsNow, WorthsNext
<1>3. f' = f
  BY <1>1 DEF Worths, holdings, nativeVars, NodeAssetBalance, NativeAssetBalance, GetAssetBalance,
     NDCAssets, EigenAssets, SharesToUnderlying
<1>4. /\ IsFiniteSet(old) /\ IsFiniteSet(new) /\ old \subseteq Nodes /\ new \subseteq Nodes
      /\ GetTotalAssetDeposits(a) = poolBalance[a] + SumFunctionOnSet(f, old)
      /\ GetTotalAssetDeposits(a)' = poolBalance'[a] + SumFunctionOnSet(f, new)
  BY <1>2, <1>3 DEF TotalsOverNodes
<1>5. \A n \in Nodes : f[n] = NodeAssetBalance(n, a) /\ f[n] \in Nat
  BY WorthType, SteadyTypes DEF WorthsOK, Worths
<1>6. poolBalance[a] \in Nat /\ poolBalance'[a] = poolBalance[a]
  BY <1>1, SteadyTypes DEF FundsTypeOK
<1>7. /\ \A n \in old : f[n] \in Nat
      /\ \A n \in new : f[n] \in Nat
  BY <1>4, <1>5
<1>8. CASE new \subseteq old /\ \A n \in old \ new : NodeAssetBalance(n, a) = 0
  <2>1. \A n \in old \ new : f[n] = 0
    BY <1>4, <1>5, <1>8
  <2>2. new \in SUBSET old
    BY <1>8
  <2>. HIDE DEF f, old, new
  <2>3. SumFunctionOnSet(f, new) = SumFunctionOnSet(f, old) /\ SumFunctionOnSet(f, old) \in Nat
    BY <1>4, <1>7, <2>1, <2>2, SumOfMore, SumNat
  <2>. QED
    BY <1>4, <1>6, <2>3
<1>9. CASE old \subseteq new
  <2>1. (\A n \in new \ old : NodeAssetBalance(n, a) = 0) => \A n \in new \ old : f[n] = 0
    BY <1>4, <1>5
  <2>2. old \in SUBSET new
    BY <1>9
  <2>3. /\ SumFunctionOnSet(f, old) <= SumFunctionOnSet(f, new)
        /\ (\A n \in new \ old : f[n] = 0) => SumFunctionOnSet(f, old) = SumFunctionOnSet(f, new)
        /\ SumFunctionOnSet(f, old) \in Nat /\ SumFunctionOnSet(f, new) \in Nat
    <3>. HIDE DEF f, old, new
    <3>. QED
      BY <1>4, <1>7, <2>2, SumOfMore, SumNat
  <2>. DEFINE x == SumFunctionOnSet(f, old)
              y == SumFunctionOnSet(f, new)
  <2>4. /\ x <= y /\ x \in Nat /\ y \in Nat
        /\ (\A n \in new \ old : NodeAssetBalance(n, a) = 0) => x = y
    BY <2>1, <2>3
  <2>5. GetTotalAssetDeposits(a) = poolBalance[a] + x /\ GetTotalAssetDeposits(a)' = poolBalance[a] + y
    BY <1>4, <1>6
  <2>. HIDE DEF x, y
  <2>. QED
    BY <1>6, <2>4, <2>5
<1>. QED
  BY <1>8, <1>9

LEMMA QueueMoves ==
  ASSUME SteadyIInv, SystemIInv', RateIs', QueueNext
  PROVE  MovesOnly
<1>1. /\ UNCHANGED otherThanQueue
      /\ UNCHANGED holdings /\ UNCHANGED <<supportedAssets, assetStrategy>>
  BY DEF QueueNext, AddNodeDelegatorContractToQueue, RemoveNodeDelegatorContractsFromQueue,
     UpdateMaxNodeDelegatorLimit, otherThanQueue, elVars, configVars, ndcVars, holdings
<1>2. HoldingsOK
  BY SteadyTypes
<1>3. isNodeDelegator \subseteq Nodes /\ isNodeDelegator' \subseteq Nodes
  BY SteadyTypes DEF SystemIInv, QueueIInv
<1>4. ASSUME isNodeDelegator \subseteq isNodeDelegator'
      PROVE  MovesOnly
  <2>1. HoldingsOK'
    BY <1>1, <1>2, <1>4 DEF holdings, nativeVars, HoldingsOK, LstOK, NativeOK, Counted, InUse
  <2>2. Grown
    BY <1>1, <1>4, QueueWorth DEF Grown
  <2>3. ASSUME ~StrayEther
        PROVE  Kept
    <3>1. \A n \in isNodeDelegator' \ isNodeDelegator, a \in Assets : NodeAssetBalance(n, a) = 0
      BY <1>3, <2>3, OutsideWorth
    <3>. QED
      BY <1>1, <1>4, <3>1, QueueWorth DEF Kept
  <2>. QED
    BY <2>1, <2>2, <2>3 DEF MovesOnly, Quiet
<1>5. ASSUME NEW ndcs \in NdcLists, AddNodeDelegatorContractToQueue(ndcs)
      PROVE  MovesOnly
  <2>. DEFINE base == [queue |-> nodeDelegatorQueue, flags |-> isNodeDelegator]
              added == FoldLeft(Push, base, ndcs)
  <2>1. ndcs \in Seq(Nodes)
    BY ListsAssumption DEF ListsAssumption
  <2>2. base \in Added /\ Matches(base.queue, base.flags) /\ base.flags = isNodeDelegator
    BY SteadyTypes DEF Added, Matches, SystemIInv, QueueIInv, QueueMatchesFlags
  <2>3. isNodeDelegator' = added.flags
    BY <1>5 DEF AddNodeDelegatorContractToQueue
  <2>. HIDE DEF base
  <2>4. base.flags \subseteq added.flags
    BY <2>1, <2>2, AddedMatch
  <2>. QED
    BY <1>4, <2>2, <2>3, <2>4
<1>6. ASSUME NEW ndcs \in NdcLists, RemoveNodeDelegatorContractsFromQueue(ndcs)
      PROVE  MovesOnly
  <2>1. /\ isNodeDelegator' = isNodeDelegator \ ToSet(ndcs)
        /\ \A n \in ToSet(ndcs) : HoldsNothing(n)
    BY <1>6 DEF RemoveNodeDelegatorContractsFromQueue
  <2>2. \A n \in isNodeDelegator \ isNodeDelegator' :
          /\ \A a \in Assets : NodeAssetBalance(n, a) = 0
          /\ n \in NDCs => /\ \A a \in Assets : ndcBalance[n][a] = 0
                           /\ \A s \in Strategies : Counted(n, s) = 0
          /\ n \in NativeNDCs => \A a \in Assets : nativeLiquid[n][a] = 0
    BY <1>3, <2>1, RemovableWorth
  <2>3. HoldingsOK'
    <3>1. \A n \in NDCs : LstOK(n)'
      <4>. SUFFICES ASSUME NEW n \in NDCs PROVE LstOK(n)'
        OBVIOUS
      <4>1. LstOK(n)
        BY <1>2 DEF HoldingsOK
      <4>2. ASSUME NEW a \in Assets, ndcBalance'[n][a] # 0
            PROVE  a \in supportedAssets' /\ n \in isNodeDelegator'
        BY <1>1, <2>2, <4>1, <4>2 DEF LstOK, holdings
      <4>3. ASSUME NEW s \in Strategies, Counted(n, s)' # 0
            PROVE  InUse(s)' /\ n \in isNodeDelegator'
        <5>1. Counted(n, s)' = Counted(n, s) /\ (InUse(s)' <=> InUse(s))
          BY <1>1 DEF Counted, InUse, holdings
        <5>. QED
          BY <2>2, <4>1, <4>3, <5>1 DEF LstOK
      <4>. QED
        BY <4>2, <4>3 DEF LstOK
    <3>2. \A n \in NativeNDCs : NativeOK(n)'
      BY <1>1, <1>2, <2>2 DEF HoldingsOK, NativeOK, holdings, nativeVars
    <3>. QED
      BY <1>1, <1>2, <3>1, <3>2 DEF HoldingsOK
  <2>4. Kept
    <3>1. isNodeDelegator' \subseteq isNodeDelegator
      BY <2>1
    <3>. QED
      BY <1>1, <2>2, <3>1, QueueWorth DEF Kept
  <2>. QED
    BY <2>3, <2>4, KeptMovesOnly
<1>7. ASSUME NEW limit \in NdcLimits, UpdateMaxNodeDelegatorLimit(limit)
      PROVE  MovesOnly
  BY <1>4, <1>7 DEF UpdateMaxNodeDelegatorLimit
<1>. QED
  BY <1>5, <1>6, <1>7 DEF QueueNext

\* Prices, the token and the pool's settings are apart from all that.
LEMMA OthersMove ==
  ASSUME SteadyIInv, SystemIInv', OracleNext \/ TokenNext \/ PoolAdminNext \/ UNCHANGED vars
  PROVE  MovesOnly /\ Kept
<1>1. /\ UNCHANGED holdings
      /\ UNCHANGED <<supportedAssets, nodeDelegatorQueue, isNodeDelegator, assetStrategy, rate, poolBalance>>
  BY DEF OracleNext, OnlyOracle, TokenNext, OnlyToken, PoolAdminNext, PoolPause, PoolUnpause,
     SetMinAmountToDeposit, vars, ndVars, elVars, configVars, ndcVars, poolVars, fundVars, adminVars,
     queueVars, holdings
<1>. QED
  BY <1>1, NothingMoves, KeptMovesOnly

-----------------------------------------------------------------------------
(* All steps *)

\* The steps that trade assets for primeETH, or one asset for another.
Trades ==
  \/ \E s \in Stakers, a \in Assets, amount \in Amounts : DepositAsset(s, a, amount, 0)
  \/ \E s \in Stakers, amount \in Amounts : RequestWithdrawal(s, amount, primeETH[s])
  \/ \E m \in Managers, a, b \in Assets, amount \in Amounts :
       SwapAssetWithinDepositPool(m, a, b, amount, 0)

LEMMA TradesMove ==
  ASSUME SteadyIInv, SystemIInv', Trades
  PROVE  HoldingsOK' /\ (Quiet => Kept)
BY DepositMoves, RequestMoves, SwapMoves DEF Trades

LEMMA KeepersMove ==
  ASSUME SteadyIInv, SystemIInv', RateIs', KeeperNext
  PROVE  MovesOnly \/ Trades
<1>1. ASSUME NEW n \in Nodes, NEW a \in Assets, NEW amount \in Amounts, TransferBack(n, a, amount)
      PROVE  MovesOnly
  BY <1>1, LstSendsBack, NativeSendsBackMoves DEF TransferBack
<1>. QED
  BY <1>1, TransferMoves, TransferAllMoves, ClaimInternalMoves DEF KeeperNext, Trades

LEMMA StakersMove ==
  ASSUME SteadyIInv, SystemIInv', StakerNext
  PROVE  MovesOnly \/ Trades
BY DonateMoves, ClaimMoves DEF StakerNext, ClaimStep, Trades

LEMMA StepMoves ==
  ASSUME SteadyIInv, SystemIInv', RateIs', [SteadyNext]_vars
  PROVE  MovesOnly \/ Trades
BY KeepersMove, StakersMove, BackendMoves, NativeNodesMove, ConfigMoves, QueueMoves, OthersMove
   DEF SteadyNext

LEMMA SteadyInit == Init /\ WETH \in supportedAssets => SteadyIInv
<1>. SUFFICES ASSUME Init, WETH \in supportedAssets PROVE SteadyIInv
  OBVIOUS
<1>1. SystemIInv
  BY InitSystem
<1>2. OwnStrategies /\ RateIs
  BY DEF Init, NDCInit, ELInit, OwnStrategies, RateIs
<1>3. ScaledAsQueued
  BY DEF Init, NDCInit, ELInit, ScaledAsQueued, NoWithdrawal
<1>4. HoldingsOK
  <2>1. ASSUME NEW n \in NDCs
        PROVE  LstOK(n)
    <3>1. /\ \A a \in Assets : ndcBalance[n][a] = 0
          /\ \A s \in Strategies : depositShares[n][s] = 0 /\ pendingInternalShareWithdrawals[n][s] = 0
      BY DEF Init, NDCInit, ELInit
    <3>2. \A s \in Strategies : Counted(n, s) = 0
      BY <3>1 DEF Counted
    <3>. QED
      BY <3>1, <3>2 DEF LstOK
  <2>2. \A n \in NativeNDCs : NativeOK(n)
    BY DEF Init, PoolInit, NativeInit, NativeOK
  <2>. QED
    BY <2>1, <2>2 DEF HoldingsOK
<1>. QED
  BY <1>1, <1>2, <1>3, <1>4 DEF SteadyIInv

LEMMA OwnStrategiesStay ==
  ASSUME OwnStrategies, [Next]_vars
  PROVE  OwnStrategies'
<1>1. CASE UNCHANGED assetStrategy
  BY <1>1 DEF OwnStrategies
<1>2. CASE StrategyChange
  BY <1>2 DEF StrategyChange, UpdateAssetStrategy, OwnStrategies
<1>. QED
  BY <1>1, <1>2, OthersKeepStrategies

LEMMA SteadyStep ==
  ASSUME Unslashed, RatesStandStill
  PROVE  SteadyIInv /\ [SteadyNext]_vars => SteadyIInv' /\ (Quiet => Kept)
<1>. SUFFICES ASSUME SteadyIInv, [SteadyNext]_vars PROVE SteadyIInv' /\ (Quiet => Kept)
  OBVIOUS
<1>1. [Next]_vars
  BY SteadyIsNext
<1>2. SystemIInv' /\ RateIs' /\ ScaledAsQueued' /\ OwnStrategies'
  BY <1>1, SteadyTypes, NextSystem, RateStands, QueuedIsPaid, OwnStrategiesStay
<1>3. HoldingsOK' /\ (Quiet => Kept)
  BY <1>2, StepMoves, TradesMove DEF MovesOnly
<1>. QED
  BY <1>2, <1>3 DEF SteadyIInv

\* With no slashing and rates that stand still, each NodeDelegator of the queue
\* has in its books what EigenLayer and the pod have, no asset is anywhere the
\* total does not look, and what a withdrawal queued is what it pays.
THEOREM SteadyInductiveInvariant ==
  ASSUME Unslashed, RatesStandStill
  PROVE  SteadySpec => []SteadyIInv
<1>1. SteadyIInv /\ [SteadyNext]_vars => SteadyIInv'
  BY SteadyStep
<1>. QED
  BY <1>1, SteadyInit, PTL DEF SteadySpec

\* The total of no asset is changed by what the operator and the manager do:
\* transfers there and back, deposits into EigenLayer, undelegation and internal
\* claims, ether staked, the stakes of validators that exited claimed back, any
\* number at once, NodeDelegators added and removed.  A claim that brings more or
\* less than the stakes it counts as exited changes the total, and is left out.
THEOREM MovingNeverChangesTotals ==
  ASSUME Unslashed, RatesStandStill
  PROVE  SteadySpec => MovingAssetsKeepsTotals
<1>. DEFINE Moving ==
       UNCHANGED <<totalSupply, wallet, ynLSDe, rate, configVars>> /\ ~EtherArrives /\ ~StrayEther =>
         TotalAssetDeposits' = TotalAssetDeposits
<1>1. SteadyIInv /\ [SteadyNext]_vars => [Moving]_vars
  <2>1. Kept => TotalAssetDeposits' = TotalAssetDeposits
    BY DEF Kept, TotalAssetDeposits
  <2>. QED
    BY <2>1, SteadyStep DEF Quiet
<1>. HIDE DEF Moving
<1>2. SteadySpec => [][Moving]_vars
  BY <1>1, SteadyInductiveInvariant, PTL DEF SteadySpec
<1>. QED
  BY <1>2 DEF Moving, MovingAssetsKeepsTotals
-----------------------------------------------------------------------------
(* The stored price *)

\* Feeds do not fall.
PricesRise == \A m \in PriceMoves : m[1] <= m[2]

\* An asset stays supported.
LEMMA SupportedGrows ==
  ASSUME [Next]_vars
  PROVE  supportedAssets \subseteq supportedAssets'
<1>1. StakerNext => UNCHANGED supportedAssets
  BY DEF StakerNext, DepositAsset, DonateToPool, RequestWithdrawal, NDCRequestWithdrawal,
     ClaimWithdrawal, ClaimWithdrawalYn, NDCClaimWithdrawal, configVars
<1>2. KeeperNext => UNCHANGED supportedAssets
  BY KeepersLeave DEF configVars
<1>3. BackendNext \/ EigenOperatorNext => UNCHANGED supportedAssets
  BY DEF BackendNext, EigenLayerStep, DepositAssetsIntoStrategy, RequestInternalWithdrawal,
     NDCDelegateTo, Undelegate, NDCPause, NDCUnpause, EigenOperatorNext, OperatorUndelegates,
     configVars
<1>4. NativeNodeNext \/ OracleNext \/ TokenNext \/ UNCHANGED vars => UNCHANGED supportedAssets
  BY DEF NativeNodeNext, OracleNext, OnlyOracle, TokenNext, OnlyToken, vars, ndVars, configVars
<1>5. ConfigNext => supportedAssets \subseteq supportedAssets'
  BY DEF ConfigNext, AddNewSupportedAsset, UpdateAssetDepositLimit, UpdateAssetStrategy
<1>6. QueueNext \/ PoolAdminNext => UNCHANGED supportedAssets
  BY DEF QueueNext, AddNodeDelegatorContractToQueue, RemoveNodeDelegatorContractsFromQueue,
     UpdateMaxNodeDelegatorLimit, otherThanQueue, PoolAdminNext, PoolPause, PoolUnpause,
     SetMinAmountToDeposit, configVars
<1>. QED
  BY <1>1, <1>2, <1>3, <1>4, <1>5, <1>6 DEF Next

\* Who touches prices.
LEMMA PricesMove ==
  ASSUME [Next]_vars
  PROVE  \/ UNCHANGED oracleVars
         \/ UpdatePrimeETHPrice(TotalAssetDeposits, totalSupply) /\ OnlyOracle
         \/ \E a \in Assets : FeedMoves(a)
<1>1. StakerNext => UNCHANGED oracleVars
  BY DEF StakerNext, DepositAsset, DonateToPool, RequestWithdrawal, ClaimWithdrawal,
     ClaimWithdrawalYn
<1>2. KeeperNext => UNCHANGED oracleVars
  BY KeepersLeave
<1>3. BackendNext \/ EigenOperatorNext => UNCHANGED oracleVars
  BY DEF BackendNext, EigenOperatorNext, OnlyBackend
<1>4. NativeNodeNext \/ TokenNext \/ ConfigNext \/ UNCHANGED vars => UNCHANGED oracleVars
  BY DEF NativeNodeNext, TokenNext, OnlyToken, ConfigNext, OnlyConfig, vars
<1>5. QueueNext \/ PoolAdminNext => UNCHANGED oracleVars
  BY DEF QueueNext, AddNodeDelegatorContractToQueue, RemoveNodeDelegatorContractsFromQueue,
     UpdateMaxNodeDelegatorLimit, otherThanQueue, PoolAdminNext, PoolPause, PoolUnpause,
     SetMinAmountToDeposit
<1>. QED
  BY <1>1, <1>2, <1>3, <1>4, <1>5 DEF Next, OracleNext

\* Named, so that it can be primed.
ETHOK == TotalETH \in Nat

LEMMA ETHTypeNow == SystemIInv => ETHOK
<1>. SUFFICES ASSUME SystemIInv PROVE TotalETH \in Nat
  BY DEF ETHOK
<1>1. TotalAssetDeposits \in [Assets -> Nat]
  BY TotalsType DEF TotalsOK
<1>2. supportedAssets \in SUBSET Assets /\ assetPrice \in [Assets -> Nat \ {0}]
  BY DEF SystemIInv, PoolIInv, IInv, FundsTypeOK, NDCTypeOK, ConfigTypeOK
<1>. QED
  BY <1>1, <1>2, ValueType DEF TotalETH

LEMMA PriceTypes ==
  ASSUME SystemIInv
  PROVE  primeETHPrice \in Nat /\ totalSupply \in Nat
BY DEF SystemIInv, PoolIInv, FundsTypeOK, PrimeIInv, PrimeTypeOK

LEMMA BackedBySurplus ==
  ASSUME SystemIInv, SystemIInv', StoredPriceIsBacked, Surplus' >= Surplus
  PROVE  StoredPriceIsBacked'
<1>1. TotalETH \in Nat /\ TotalETH' \in Nat
  <2>1. ETHOK /\ ETHOK'
    BY ETHTypeNow, PTL
  <2>. QED
    BY <2>1 DEF ETHOK
<1>2. /\ primeETHPrice \in Nat /\ primeETHPrice' \in Nat
      /\ totalSupply \in Nat /\ totalSupply' \in Nat
  BY DEF SystemIInv, PoolIInv, FundsTypeOK, PrimeIInv, PrimeTypeOK
<1>3. PICK was \in Nat, is \in Nat, all \in Nat, all2 \in Nat :
        /\ was = primeETHPrice * totalSupply /\ is = primeETHPrice' * totalSupply'
        /\ all = TotalETH /\ all2 = TotalETH'
  <2>1. primeETHPrice * totalSupply \in Nat /\ primeETHPrice' * totalSupply' \in Nat
    <3>1. \A m, k \in Nat : m * k \in Nat
      OBVIOUS
    <3>. QED
      BY <1>2, <3>1
  <2>. QED
    BY <1>1, <2>1
<1>4. all2 - is >= all - was
  BY <1>3 DEF Surplus
<1>5. was <= all
  BY <1>3 DEF StoredPriceIsBacked
<1>6. is <= all2
  BY <1>4, <1>5
<1>. QED
  BY <1>3, <1>6 DEF StoredPriceIsBacked

\* What moves assets at prices that do not fall keeps the stored price backed.
LEMMA BackedByMore ==
  ASSUME SystemIInv, SystemIInv', StoredPriceIsBacked, TotalETH' >= TotalETH,
         UNCHANGED <<primeETHPrice, totalSupply>>
  PROVE  StoredPriceIsBacked'
<1>1. TotalETH \in Nat /\ TotalETH' \in Nat
  <2>1. ETHOK /\ ETHOK'
    BY ETHTypeNow, PTL
  <2>. QED
    BY <2>1 DEF ETHOK
<1>2. PICK was \in Nat, all \in Nat, all2 \in Nat :
        was = primeETHPrice * totalSupply /\ all = TotalETH /\ all2 = TotalETH'
  BY <1>1, PriceTypes
<1>3. primeETHPrice' * totalSupply' = was
  BY <1>2
<1>4. was <= all2
  BY <1>2 DEF StoredPriceIsBacked
<1>. QED
  BY <1>2, <1>3, <1>4 DEF StoredPriceIsBacked

\* updatePrimeETHPrice stores a price that is backed, whatever was stored before.
LEMMA UpdatedIsBacked ==
  ASSUME SteadyIInv, SystemIInv', UpdatePrimeETHPrice(TotalAssetDeposits, totalSupply), OnlyOracle
  PROVE  StoredPriceIsBacked'
<1>1. TotalETH' = TotalETH /\ totalSupply' = totalSupply
  <2>1. Kept
    BY OthersMove DEF OracleNext
  <2>2. TotalAssetDeposits' = TotalAssetDeposits
    BY <2>1 DEF Kept, TotalAssetDeposits
  <2>3. UNCHANGED <<supportedAssets, assetPrice, totalSupply>>
    BY DEF OnlyOracle, UpdatePrimeETHPrice, configVars, ndVars, primeVars
  <2>. QED
    BY <2>2, <2>3 DEF TotalETH, ValueOf
<1>2. TotalETH \in Nat /\ totalSupply \in Nat
  BY SteadyTypes, ETHTypeNow, PriceTypes DEF ETHOK
<1>3. CASE totalSupply = 0
  <2>1. primeETHPrice' = OneEther
    BY <1>3 DEF UpdatePrimeETHPrice
  <2>2. primeETHPrice' * totalSupply' = 0
    BY <1>1, <1>3, <2>1
  <2>. QED
    BY <1>1, <1>2, <2>2 DEF StoredPriceIsBacked
<1>4. CASE totalSupply # 0
  <2>1. PICK supply \in Nat \ {0}, all \in Nat : supply = totalSupply /\ all = TotalETH
    BY <1>2, <1>4
  <2>2. primeETHPrice' = all \div supply
    BY <1>4, <2>1 DEF UpdatePrimeETHPrice, TotalETH
  <2>3. all \div supply \in Nat /\ supply * (all \div supply) <= all
    BY DivBounds
  <2>4. PICK price \in Nat : price = all \div supply
    BY <2>3
  <2>5. price * supply <= all
    BY <2>3, <2>4
  <2>. QED
    BY <1>1, <2>1, <2>2, <2>4, <2>5 DEF StoredPriceIsBacked
<1>. QED
  BY <1>3, <1>4

LEMMA BackedStep ==
  ASSUME Unslashed, RatesStandStill, PricesRise,
         SteadyIInv, StoredPriceIsBacked, [SteadyNext]_vars, [~EtherLost]_vars
  PROVE  StoredPriceIsBacked'
<1>1. SystemIInv /\ SystemIInv' /\ RateIs'
  BY SteadyStep, SteadyTypes DEF SteadyIInv
<1>2. [Next]_vars
  BY SteadyIsNext
<1>3. ASSUME NEW s \in Stakers, NEW a \in Assets, NEW amount \in Amounts,
             DepositAsset(s, a, amount, 0)
      PROVE  StoredPriceIsBacked'
  BY <1>1, <1>3, DepositFavours, BackedBySurplus
<1>4. ASSUME NEW s \in Stakers, NEW amount \in Amounts,
             RequestWithdrawal(s, amount, primeETH[s])
      PROVE  StoredPriceIsBacked'
  BY <1>1, <1>4, RequestFavours, BackedBySurplus, SteadyTypes
<1>5. ASSUME NEW m \in Managers, NEW a \in Assets, NEW b \in Assets, NEW amount \in Amounts,
             SwapAssetWithinDepositPool(m, a, b, amount, 0)
      PROVE  StoredPriceIsBacked'
  BY <1>1, <1>5, SwapMoves, BackedByMore
<1>6. CASE MovesOnly /\ UNCHANGED totalSupply
  <2>1. Grown
    <3>1. CASE UNCHANGED vars
      BY <1>1, <3>1, OthersMove, KeptIsGrown
    <3>2. CASE ~EtherLost
      BY <1>6, <3>2 DEF MovesOnly
    <3>. QED
      BY <3>1, <3>2
  <2>2. supportedAssets \subseteq supportedAssets'
    BY <1>2, SupportedGrows
  <2>3. assetPrice \in [Assets -> Nat \ {0}]
    BY <1>1 DEF SystemIInv, PoolIInv, FundsTypeOK
  <2>4. CASE UNCHANGED oracleVars
    <3>1. UNCHANGED <<primeETHPrice, assetPrice>>
      BY <2>4 DEF oracleVars
    <3>2. \A a \in Assets : assetPrice'[a] >= assetPrice[a]
      BY <2>3, <3>1
    <3>. QED
      BY <1>1, <1>6, <2>1, <2>2, <3>1, <3>2, ValueGrows, BackedByMore
  <2>5. CASE UpdatePrimeETHPrice(TotalAssetDeposits, totalSupply) /\ OnlyOracle
    BY <1>1, <2>5, UpdatedIsBacked
  <2>6. ASSUME NEW a \in Assets, FeedMoves(a)
        PROVE  StoredPriceIsBacked'
    <3>1. UNCHANGED primeETHPrice
      BY <2>6 DEF FeedMoves
    <3>2. PICK p \in Prices : /\ <<assetPrice[a], p>> \in PriceMoves
                              /\ assetPrice' = [assetPrice EXCEPT ![a] = p]
      BY <2>6 DEF FeedMoves
    <3>3. assetPrice[a] <= p
      BY <3>2 DEF PricesRise
    <3>4. \A b \in Assets : assetPrice'[b] >= assetPrice[b]
      BY <2>3, <3>2, <3>3
    <3>. QED
      BY <1>1, <1>6, <2>1, <2>2, <3>1, <3>4, ValueGrows, BackedByMore
  <2>. QED
    BY <1>2, <2>4, <2>5, <2>6, PricesMove
<1>7. CASE totalSupply' # totalSupply
  BY <1>2, <1>3, <1>4, <1>7, SupplyMoves
<1>8. MovesOnly \/ Trades
  BY <1>1, StepMoves
<1>. QED
  BY <1>3, <1>4, <1>5, <1>6, <1>7, <1>8 DEF Trades

\* While nothing is slashed and no rate or price falls, no order of deposits,
\* requests, claims, swaps, transfers and price updates makes the assets worth
\* less than all primeETH at the stored price, however old that price is.
THEOREM StoredPriceStaysBacked ==
  ASSUME Unslashed, RatesStandStill, PricesRise
  PROVE  SteadySpec /\ [][~EtherLost]_vars => []StoredPriceIsBacked
<1>1. Init => StoredPriceIsBacked
  <2>. SUFFICES ASSUME Init PROVE StoredPriceIsBacked
    OBVIOUS
  <2>1. TotalETH \in Nat /\ totalSupply \in Nat
    BY InitSystem, ETHTypeNow, PriceTypes DEF ETHOK
  <2>2. primeETHPrice = 0
    BY DEF Init, PoolInit, OracleInit
  <2>3. primeETHPrice * totalSupply = 0
    BY <2>1, <2>2
  <2>. QED
    BY <2>1, <2>3 DEF StoredPriceIsBacked
<1>2. SteadyIInv /\ StoredPriceIsBacked /\ [SteadyNext]_vars /\ [~EtherLost]_vars
        => StoredPriceIsBacked'
  BY BackedStep
<1>. QED
  BY <1>1, <1>2, SteadyInductiveInvariant, PTL DEF SteadySpec
=============================================================================
