------------------------ MODULE WithdrawalTasks_proofs ------------------------
(***************************************************************************)
(* Proofs about DepositTasks and WithdrawalTasks, for any number of people *)
(* in terminals and any runs beside each other.  A run names amounts it    *)
(* read before, which may be any: first that the contracts' invariant      *)
(* SystemIInv survives such calls too, then what a run is at each of its   *)
(* steps, and from both that the tasks' transactions are those of          *)
(* LRTDepositPool.  Last, the runs of claimInternalWithdrawals.            *)
(*                                                                         *)
(* A refused transaction is described by ENABLED, which the proofs do not  *)
(* look into: they show what holds whether it is refused or not.           *)
(***************************************************************************)
EXTENDS WithdrawalTasks, LRTDepositPool_proofs

USE EigenLayerAssumption, ConfigAssumption, NDCAssumption, AddressAssumption,
    AmountsAssumption, OracleAssumption, DepositTasksAssumption
    DEF EigenLayerAssumption, ConfigAssumption, NDCAssumption, AddressAssumption,
        AmountsAssumption, OracleAssumption, DepositTasksAssumption

-----------------------------------------------------------------------------
(* The contracts, called with any amounts. *)

\* A call that touches neither the oracle nor the administration.
LEMMA RestKept ==
  ASSUME SystemIInv, PoolIInv', PrimeIInv', NativeTypeOK', UNCHANGED <<oracleVars, adminVars>>
  PROVE  SystemIInv'
<1>1. QueueIInv'
  BY DEF SystemIInv, QueueIInv, QueueMatchesFlags, adminVars, queueVars
<1>2. primeETHPrice' \in Nat /\ minAmountToDeposit' \in Nat
  BY DEF SystemIInv, oracleVars, adminVars
<1>3. poolPaused' \in BOOLEAN
  BY Zenon DEF SystemIInv, adminVars
<1>. QED
  BY <1>1, <1>2, <1>3 DEF SystemIInv

LEMMA TokenKept ==
  ASSUME SystemIInv, UNCHANGED primeVars
  PROVE  PrimeIInv'
BY DEF SystemIInv, PrimeIInv, PrimeTypeOK, primeVars

LEMMA NativeKept ==
  ASSUME SystemIInv, UNCHANGED nativeVars
  PROVE  NativeTypeOK'
BY DEF SystemIInv, nativeVars, NativeTypeOK

\* The oracle answers for supported assets only.
LEMMA SupportedAreAssets == SystemIInv => supportedAssets \subseteq Assets
BY DEF SystemIInv, PoolIInv, IInv, NDCTypeOK, ConfigTypeOK

LEMMA AssetTransferred ==
  ASSUME SystemIInv, NEW i, NEW a, NEW amount \in Nat, TransferAssetToNodeDelegator(i, a, amount)
  PROVE  /\ SystemIInv' /\ UNCHANGED elVars
         /\ i \in DOMAIN nodeDelegatorQueue /\ a \in Assets
<1>. DEFINE amounts == [b \in Assets |-> IF b = a THEN amount ELSE 0]
<1>1. /\ i \in DOMAIN nodeDelegatorQueue /\ a \in Assets
      /\ NodeReceives(nodeDelegatorQueue[i], amounts)
      /\ UNCHANGED <<wallet, ynLSDe, adminVars, primeVars, oracleVars>>
  BY SupportedAreAssets DEF TransferAssetToNodeDelegator
<1>2. amounts \in [Assets -> Nat]
  OBVIOUS
<1>3. IInv /\ FundsTypeOK /\ NativeTypeOK
  BY DEF SystemIInv, PoolIInv
<1>. HIDE DEF amounts
<1>4. IInv' /\ NativeTypeOK' /\ UNCHANGED elVars
  BY <1>1, <1>2, <1>3, ReceivesIInv, ReceiveNative, ReceivesLeave
<1>5. FundsTypeOK'
  BY <1>1, <1>3 DEF TransferAssetToNodeDelegator, oracleVars, FundsTypeOK
<1>. QED
  BY <1>1, <1>4, <1>5, RestKept, TokenKept DEF PoolIInv

LEMMA SentBack ==
  ASSUME SystemIInv, NEW n, NEW a, NEW amount \in Nat, TransferBack(n, a, amount)
  PROVE  SystemIInv' /\ UNCHANGED elVars /\ n \in Nodes /\ a \in Assets
<1>1. n \in Nodes /\ a \in Assets /\ ReceiveBack(a, amount)
  BY SupportedAreAssets DEF TransferBack, TransferBackToLRTDepositPool, Nodes
<1>2. IInv /\ FundsTypeOK /\ NativeTypeOK
  BY DEF SystemIInv, PoolIInv
<1>3. FundsTypeOK' /\ UNCHANGED <<primeVars, oracleVars, adminVars>>
  BY <1>1, <1>2, ReceiveBackFunds DEF ReceiveBack
<1>4. CASE n \in NDCs /\ TransferBackToLRTDepositPool(n, a, amount) /\ UNCHANGED nativeVars
  <2>1. UNCHANGED elVars
    BY <1>4 DEF TransferBackToLRTDepositPool
  <2>2. NDCTypeOK' /\ Records'
    BY <1>1, <1>2, <1>4, <2>1, TransferBackType, SameRecords
       DEF IInv, Records, TransferBackToLRTDepositPool, elVars
  <2>3. IInv'
    BY <2>2 DEF IInv, Records
  <2>4. NativeTypeOK'
    BY <1>2, <1>4 DEF nativeVars, NativeTypeOK
  <2>. QED
    BY <1>1, <1>3, <2>1, <2>3, <2>4, RestKept, TokenKept DEF PoolIInv
<1>5. CASE n \in NativeNDCs /\ NativeSendsBack(n, a, amount) /\ UNCHANGED ndVars
  <2>1. IInv' /\ UNCHANGED elVars
    BY <1>2, <1>5, UnchangedIInv DEF ndVars
  <2>2. nativeLiquid[n][a] \in Nat /\ nativeLiquid[n][a] - amount \in Nat
    BY <1>1, <1>2, <1>5 DEF NativeTypeOK, NativeSendsBack
  <2>3. NativeTypeOK'
    BY <1>2, <1>5, <2>2 DEF NativeTypeOK, NativeSendsBack
  <2>. QED
    BY <1>1, <1>3, <2>1, <2>3, RestKept, TokenKept DEF PoolIInv
<1>. QED
  BY <1>4, <1>5 DEF TransferBack

-----------------------------------------------------------------------------
(* Runs of the deposit tasks. *)

RunRecords ==
  [task : {"none", "depositAssetEL", "depositAllEL", "transferToDepositPool"},
   pc : {"idle", "read", "transfer", "deposit"}, index : 0 .. 1, min : Nat,
   left : Seq(Assets), assets : SUBSET Assets, amount : Nat]

\* A run that moves one asset has it in left until it has moved it.
DepositRuns ==
  {r \in RunRecords :
     r.task \in {"depositAssetEL", "transferToDepositPool"} /\ r.pc \in {"read", "transfer"}
       => r.left # <<>>}

\* The two calls that name an amount a run has read.
CallsWithRead ==
  \/ \E i \in DOMAIN nodeDelegatorQueue, a \in Assets, amount \in Nat :
       TransferAssetToNodeDelegator(i, a, amount)
  \/ \E n \in Nodes, a \in Assets, amount \in Nat : TransferBack(n, a, amount)

LEMMA CallsKept ==
  ASSUME SystemIInv, [Next]_vars \/ CallsWithRead
  PROVE  SystemIInv'
BY NextSystem, AssetTransferred, SentBack DEF CallsWithRead

LEMMA NoRunIsDepositRun == NoRun \in DepositRuns
BY DEF NoRun, DepositRuns, RunRecords

\* What a step of p's run is: one call, or none, and only p's run goes on.
OnlyRun(p) ==
  /\ [Next]_vars \/ CallsWithRead
  /\ UNCHANGED deaths
  /\ \E r \in DepositRuns : run' = [run EXCEPT ![p] = r]

LEMMA RunEnds ==
  ASSUME NEW p \in Processes, [Next]_vars \/ CallsWithRead, UNCHANGED deaths, Ends(p)
  PROVE  OnlyRun(p)
BY NoRunIsDepositRun DEF OnlyRun, Ends

LEMMA RunGoesTo ==
  ASSUME NEW p \in Processes, run[p] \in DepositRuns, [Next]_vars \/ CallsWithRead,
         UNCHANGED deaths, GoesTo(p, "deposit")
  PROVE  OnlyRun(p)
<1>1. [run[p] EXCEPT !.pc = "deposit"] \in DepositRuns
  BY DEF DepositRuns, RunRecords
<1>2. run' = [run EXCEPT ![p] = [run[p] EXCEPT !.pc = "deposit"]]
  BY DEF GoesTo
<1>. QED
  BY <1>1, <1>2 DEF OnlyRun

LEMMA AddressesAreNodes ==
  ASSUME NEW index \in 0 .. 1
  PROVE  AddressOf(index) \in Nodes
BY DEF AddressOf, Nodes

LEMMA HeadOfRun ==
  ASSUME NEW r \in DepositRuns, r.left # <<>>
  PROVE  Head(r.left) \in Assets /\ Tail(r.left) \in Seq(Assets)
BY DEF DepositRuns, RunRecords

LEMMA DepositsIntoStep ==
  ASSUME NEW p \in Processes, run[p] \in DepositRuns, NEW task, DepositsInto(p, task)
  PROVE  OnlyRun(p)
<1>1. /\ UNCHANGED deaths /\ Ends(p)
      /\ \/ NodeDeposits(AddressOf(run[p].index), run[p].assets)
         \/ UNCHANGED vars
  BY DEF DepositsInto, Transacts
<1>2. run[p].assets \in SUBSET Assets
  BY DEF DepositRuns, RunRecords
<1>3. [Next]_vars
  BY <1>1, <1>2 DEF NodeDeposits, BackendNext, Next
<1>. QED
  BY <1>1, <1>3, RunEnds

LEMMA DepositAssetELStep ==
  ASSUME SystemIInv, NEW p \in Processes, run[p] \in DepositRuns, DepositAssetEL(p)
  PROVE  OnlyRun(p)
<1>1. CASE ReadsBalance(p)
  <2>. DEFINE asset == Head(run[p].left)
              next  == [run[p] EXCEPT !.pc = "transfer", !.amount = poolBalance[asset],
                                      !.assets = {asset}]
  <2>1. run[p].left # <<>>
    BY <1>1 DEF ReadsBalance, At, DepositRuns
  <2>2. asset \in Assets /\ poolBalance[asset] \in Nat
    BY <2>1, HeadOfRun DEF SystemIInv, PoolIInv, FundsTypeOK
  <2>3. next \in DepositRuns
    BY <2>1, <2>2 DEF DepositRuns, RunRecords
  <2>4. run' = [run EXCEPT ![p] = next] \/ Ends(p)
    BY <1>1 DEF ReadsBalance
  <2>5. UNCHANGED vars /\ UNCHANGED deaths
    BY <1>1 DEF ReadsBalance
  <2>. QED
    BY <2>3, <2>4, <2>5, RunEnds DEF OnlyRun
<1>2. CASE TransfersAsset(p)
  <2>. DEFINE call == TransferAssetToNodeDelegator(run[p].index + 1, Head(run[p].left), run[p].amount)
  <2>1. /\ UNCHANGED deaths
        /\ \/ call /\ (Ends(p) \/ GoesTo(p, "deposit"))
           \/ UNCHANGED vars /\ Ends(p)
    BY <1>2 DEF TransfersAsset, Transacts
  <2>2. run[p].amount \in Nat
    BY DEF DepositRuns, RunRecords
  <2>3. call => CallsWithRead
    BY <2>2, AssetTransferred DEF CallsWithRead
  <2>. QED
    BY <2>1, <2>3, RunEnds, RunGoesTo
<1>3. CASE DepositsInto(p, "depositAssetEL")
  BY <1>3, DepositsIntoStep
<1>. QED
  BY <1>1, <1>2, <1>3 DEF DepositAssetEL

LEMMA DepositAllELStep ==
  ASSUME SystemIInv, NEW p \in Processes, run[p] \in DepositRuns, DepositAllEL(p)
  PROVE  OnlyRun(p)
<1>1. CASE ReadsNextBalance(p)
  <2>. DEFINE asset  == Head(run[p].left)
              assets == IF poolBalance[asset] >= run[p].min THEN run[p].assets \cup {asset}
                        ELSE run[p].assets
              next   == [run[p] EXCEPT !.left = Tail(run[p].left), !.assets = assets]
  <2>1. /\ run[p].task = "depositAllEL" /\ run[p].left # <<>>
        /\ UNCHANGED vars /\ UNCHANGED deaths
    BY <1>1 DEF ReadsNextBalance, At
  <2>2. run' = [run EXCEPT ![p] = next]
    BY <1>1 DEF ReadsNextBalance
  <2>3. asset \in Assets /\ Tail(run[p].left) \in Seq(Assets)
    BY <2>1, HeadOfRun
  <2>4. assets \in SUBSET Assets
    BY <2>3 DEF DepositRuns, RunRecords
  <2>. HIDE DEF assets
  <2>5. next \in DepositRuns
    BY <2>1, <2>3, <2>4 DEF DepositRuns, RunRecords
  <2>. QED
    BY <2>1, <2>2, <2>5 DEF OnlyRun
<1>2. CASE TransfersAssets(p)
  <2>1. /\ UNCHANGED deaths
        /\ \/ UNCHANGED vars /\ Ends(p)
           \/ TransferAssetsToNodeDelegator(run[p].index + 1, run[p].assets) /\ GoesTo(p, "deposit")
    BY <1>2 DEF TransfersAssets, Transacts
  <2>2. run[p].assets \in SUBSET Assets
    BY DEF DepositRuns, RunRecords
  <2>3. TransferAssetsToNodeDelegator(run[p].index + 1, run[p].assets) => Next
    BY <2>2 DEF TransferAssetsToNodeDelegator, KeeperNext, Next
  <2>. QED
    BY <2>1, <2>3, RunEnds, RunGoesTo
<1>3. CASE DepositsInto(p, "depositAllEL")
  BY <1>3, DepositsIntoStep
<1>. QED
  BY <1>1, <1>2, <1>3 DEF DepositAllEL

LEMMA TransferToDepositPoolStep ==
  ASSUME SystemIInv, NEW p \in Processes, run[p] \in DepositRuns, TransferToDepositPool(p)
  PROVE  OnlyRun(p)
<1>1. CASE ReadsNode(p)
  <2>. DEFINE n     == AddressOf(run[p].index)
              asset == Head(run[p].left)
              held  == IF n \in NativeNDCs THEN nativeLiquid[n][asset] ELSE ndcBalance[n][asset]
              next  == [run[p] EXCEPT !.pc = "transfer", !.amount = held]
  <2>1. run[p].left # <<>> /\ run[p].index \in 0 .. 1
    BY <1>1 DEF ReadsNode, At, DepositRuns, RunRecords
  <2>2. asset \in Assets /\ n \in Nodes
    BY <2>1, HeadOfRun, AddressesAreNodes
  <2>3. held \in Nat
    BY <2>2 DEF Nodes, SystemIInv, PoolIInv, IInv, NDCTypeOK, NativeTypeOK
  <2>4. run' = [run EXCEPT ![p] = next]
    BY <1>1 DEF ReadsNode
  <2>5. UNCHANGED vars /\ UNCHANGED deaths
    BY <1>1 DEF ReadsNode
  <2>. HIDE DEF held
  <2>6. next \in DepositRuns
    BY <2>1, <2>3 DEF DepositRuns, RunRecords
  <2>. QED
    BY <2>4, <2>5, <2>6 DEF OnlyRun
<1>2. ASSUME Transacts(p, TransferBack(AddressOf(run[p].index), Head(run[p].left), run[p].amount), Ends(p))
      PROVE  OnlyRun(p)
  <2>. DEFINE call == TransferBack(AddressOf(run[p].index), Head(run[p].left), run[p].amount)
  <2>1. UNCHANGED deaths /\ Ends(p) /\ (call \/ UNCHANGED vars)
    BY <1>2 DEF Transacts
  <2>2. run[p].amount \in Nat
    BY DEF DepositRuns, RunRecords
  <2>3. call => CallsWithRead
    BY <2>2, SentBack DEF CallsWithRead
  <2>. QED
    BY <2>1, <2>3, RunEnds
<1>. QED
  BY <1>1, <1>2 DEF TransferToDepositPool

LEMMA RunStepIs ==
  ASSUME SystemIInv, NEW p \in Processes, run[p] \in DepositRuns, RunStep(p)
  PROVE  OnlyRun(p)
BY DepositAssetELStep, DepositAllELStep, TransferToDepositPoolStep DEF RunStep

LEMMA BeginsIs ==
  ASSUME NEW p \in Processes, NEW task \in {"depositAssetEL", "depositAllEL", "transferToDepositPool"},
         NEW index \in 0 .. 1, NEW min \in Nat, NEW assets \in Seq(Assets),
         task # "depositAllEL" => assets # <<>>, Begins(p, task, index, min, assets)
  PROVE  OnlyRun(p)
<1>. DEFINE begun == [NoRun EXCEPT !.task = task, !.pc = "read", !.index = index,
                                   !.min = min, !.left = assets]
<1>1. begun \in DepositRuns
  BY DEF NoRun, DepositRuns, RunRecords
<1>. QED
  BY <1>1 DEF Begins, OnlyRun

LEMMA DefenderStepIs ==
  ASSUME SystemIInv, NEW p \in DefenderActions, run[p] \in DepositRuns, DefenderStep(p)
  PROVE  OnlyRun(p)
<1>1. p \in Processes
  BY DEF Processes
<1>2. CASE RunStep(p)
  BY <1>1, <1>2, RunStepIs
<1>3. CASE p = "depositAllEL" /\ DepositAllELHandler
  <2>1. /\ LSTs \in Seq(Assets) /\ MinDeposit["depositAllEL"] \in Nat
    BY DEF DefenderActions
  <2>2. Begins(p, "depositAllEL", 0, MinDeposit["depositAllEL"], LSTs)
    BY <1>3 DEF DepositAllELHandler
  <2>. QED
    BY <1>1, <2>1, <2>2, BeginsIs
<1>4. CASE p = "transferWETH" /\ TransferWETHHandler
  <2>1. <<WETH>> \in Seq(Assets) /\ <<WETH>> # <<>> /\ MinDeposit["transferWETH"] \in Nat
    BY DEF DefenderActions
  <2>2. Begins(p, "depositAssetEL", 1, MinDeposit["transferWETH"], <<WETH>>)
    BY <1>4 DEF TransferWETHHandler
  <2>. DEFINE assets == <<WETH>>
              min    == MinDeposit["transferWETH"]
  <2>3. assets \in Seq(Assets) /\ assets # <<>> /\ min \in Nat /\ 1 \in 0 .. 1
    BY <2>1
  <2>4. Begins(p, "depositAssetEL", 1, min, assets)
    BY <2>2
  <2>. HIDE DEF assets, min
  <2>. QED
    BY <1>1, <2>3, <2>4, BeginsIs
<1>. QED
  BY <1>2, <1>3, <1>4 DEF DefenderStep

LEMMA TerminalStepIs ==
  ASSUME SystemIInv, NEW t \in Terminals, run[t] \in DepositRuns, TerminalStep(t)
  PROVE  OnlyRun(t)
<1>1. t \in Processes
  BY DEF Processes
<1>2. CASE RunStep(t)
  BY <1>1, <1>2, RunStepIs
<1>3. ASSUME NEW args \in DepositELArgs, DepositEL(t, args.symbol, args.index)
      PROVE  OnlyRun(t)
  <2>1. /\ args.index \in 0 .. 1 /\ args.symbol \in Assets \cup {"ALL"}
        /\ MinDeposit["depositEL"] \in Nat /\ LSTs \in Seq(Assets)
    OBVIOUS
  <2>2. CASE args.symbol = "ALL"
    BY <1>1, <1>3, <2>1, <2>2, BeginsIs DEF DepositEL
  <2>3. CASE args.symbol # "ALL"
    <3>1. <<args.symbol>> \in Seq(Assets) /\ <<args.symbol>> # <<>>
      BY <2>1, <2>3
    <3>. QED
      BY <1>1, <1>3, <2>1, <2>3, <3>1, BeginsIs DEF DepositEL
  <2>. QED
    BY <2>2, <2>3
<1>4. ASSUME NEW args \in WithdrawNodeArgs, WithdrawNode(t, args.symbol, args.index)
      PROVE  OnlyRun(t)
  <2>1. /\ args.index \in 0 .. 1 /\ <<args.symbol>> \in Seq(Assets) /\ <<args.symbol>> # <<>>
    OBVIOUS
  <2>. QED
    BY <1>1, <1>4, <2>1, BeginsIs DEF WithdrawNode
<1>. QED
  BY <1>2, <1>3, <1>4 DEF TerminalStep

\* What others do beside the runs.
LEMMA TokensArriveIs ==
  ASSUME TokensArrive
  PROVE  Next /\ UNCHANGED taskVars
BY DEF TokensArrive, DepositPrimeTask, DepositPrime, StakerNext, OracleNext, Next

LEMMA PausesIs ==
  ASSUME Pauses
  PROVE  Next /\ UNCHANGED taskVars
BY DEF Pauses, PauseDelegatorTask, UnpauseDelegatorTask, PauseDelegator, UnpauseDelegator,
   BackendNext, Next

-----------------------------------------------------------------------------
(* The deposit tasks. *)

RunsIInv ==
  /\ SystemIInv
  /\ run \in [Processes -> DepositRuns]
  /\ deaths \in 0 .. MaxDeaths

LEMMA InitRuns == Init /\ TasksInit => RunsIInv
<1>. SUFFICES ASSUME Init, TasksInit PROVE RunsIInv
  OBVIOUS
<1>1. run \in [Processes -> DepositRuns] /\ deaths \in 0 .. MaxDeaths
  BY NoRunIsDepositRun DEF TasksInit
<1>. QED
  BY <1>1, InitSystem DEF RunsIInv

LEMMA TasksNextIs ==
  ASSUME RunsIInv, TasksNext
  PROVE  /\ [Next]_vars \/ CallsWithRead
         /\ run' \in [Processes -> DepositRuns]
         /\ deaths' \in 0 .. MaxDeaths
<1>1. /\ SystemIInv /\ run \in [Processes -> DepositRuns]
      /\ deaths \in 0 .. MaxDeaths /\ MaxDeaths \in Nat
  BY DEF RunsIInv
<1>2. ASSUME NEW p \in Processes, OnlyRun(p)
      PROVE  /\ [Next]_vars \/ CallsWithRead
             /\ run' \in [Processes -> DepositRuns]
             /\ deaths' \in 0 .. MaxDeaths
  <2>1. PICK r \in DepositRuns : run' = [run EXCEPT ![p] = r]
    BY <1>2 DEF OnlyRun
  <2>2. run' \in [Processes -> DepositRuns]
    BY <1>1, <2>1
  <2>. QED
    BY <1>1, <1>2, <2>2 DEF OnlyRun
<1>3. ASSUME NEW p \in DefenderActions, DefenderStep(p)
      PROVE  OnlyRun(p) /\ p \in Processes
  BY <1>1, <1>3, DefenderStepIs DEF Processes
<1>4. ASSUME NEW t \in Terminals, TerminalStep(t)
      PROVE  OnlyRun(t) /\ t \in Processes
  BY <1>1, <1>4, TerminalStepIs DEF Processes
<1>5. ASSUME NEW p \in Processes, Dies(p)
      PROVE  /\ UNCHANGED vars
             /\ run' \in [Processes -> DepositRuns]
             /\ deaths' \in 0 .. MaxDeaths
  <2>1. run' \in [Processes -> DepositRuns]
    BY <1>1, <1>5, NoRunIsDepositRun DEF Dies, Ends
  <2>. QED
    BY <1>1, <1>5, <2>1 DEF Dies
<1>6. CASE TokensArrive \/ Pauses
  <2>1. Next /\ UNCHANGED <<run, deaths>>
    BY <1>6, TokensArriveIs, PausesIs DEF taskVars
  <2>. QED
    BY <1>1, <2>1
<1>. QED
  BY <1>2, <1>3, <1>4, <1>5, <1>6 DEF TasksNext

LEMMA NextRuns == RunsIInv /\ [TasksNext]_depositTaskVars => RunsIInv'
<1>. SUFFICES ASSUME RunsIInv, [TasksNext]_depositTaskVars PROVE RunsIInv'
  OBVIOUS
<1>1. CASE TasksNext
  <2>1. SystemIInv'
    BY <1>1, TasksNextIs, CallsKept DEF RunsIInv
  <2>. QED
    BY <1>1, <2>1, TasksNextIs DEF RunsIInv
<1>2. CASE UNCHANGED depositTaskVars
  <2>1. UNCHANGED vars /\ UNCHANGED run /\ UNCHANGED deaths
    BY <1>2 DEF depositTaskVars, taskVars
  <2>2. SystemIInv'
    BY <2>1, NextSystem DEF RunsIInv
  <2>. QED
    BY <2>1, <2>2 DEF RunsIInv
<1>. QED
  BY <1>1, <1>2

THEOREM RunsInductiveInvariant == TasksSpec => []RunsIInv
BY InitRuns, NextRuns, PTL DEF TasksSpec

\* Runs whose reads are as old as one likes, begun, refused and dying in any order
\* beside each other, never make a contract send more than it has, and a run that
\* is to transfer an asset always knows which and how much.
THEOREM RunTypeCorrect == TasksSpec => []RunTypeOK
<1>1. RunsIInv => RunTypeOK
  <2>1. SystemIInv => TypeOK
    BY DEF SystemIInv, PoolIInv, IInv, FundsTypeOK, QueueIInv, PrimeIInv, TypeOK, OracleTypeOK
  <2>2. DepositRuns \subseteq RunRecords
    BY DEF DepositRuns
  <2>. QED
    BY <2>1, <2>2 DEF RunsIInv, RunTypeOK, RunRecords
<1>. QED
  BY <1>1, RunsInductiveInvariant, PTL

\* The tasks send transactions of LRTDepositPool and nothing else: what holds of
\* its steps, whoever calls, holds of the tasks.  Amounts read from a balance may
\* be any, so this is said of the contracts that are called with any.
THEOREM TasksRefinePool ==
  ASSUME Amounts = Nat
  PROVE  TasksSpec => Spec
<1>1. CallsWithRead => Next
  BY DEF CallsWithRead, KeeperNext, Next
<1>2. RunsIInv /\ [TasksNext]_depositTaskVars => [Next]_vars
  <2>1. UNCHANGED depositTaskVars => UNCHANGED vars
    BY DEF depositTaskVars
  <2>. QED
    BY <1>1, <2>1, TasksNextIs
<1>. QED
  BY <1>2, RunsInductiveInvariant, PTL DEF TasksSpec, Spec

-----------------------------------------------------------------------------
(* Transfers can be deposited. *)

\* The commands name the NodeDelegator of the asset (section 5 of the README tells
\* what happens otherwise).  "ALL" is no asset.
MatchingArguments ==
  /\ "ALL" \notin Assets
  /\ \A args \in DepositELArgs : args.index = 0 \/ args.symbol = WETH

AllSupported ==
  /\ supportedAssets = Assets
  /\ \A a \in Assets \ {WETH} : assetStrategy[a] # NoStrategy

\* What depositAssetsIntoStrategy and EigenLayer check, but for the pause.
PassesTheChecks(n, assets) ==
  /\ n \in NDCs
  /\ assets \subseteq supportedAssets \ {WETH}
  /\ \A a \in assets : assetStrategy[a] # NoStrategy /\ Underlying[assetStrategy[a]] = a
  /\ \A s \in Strategies, amount \in Nat \ {0} : UnderlyingToShares(s, amount) # 0

TransfersPass ==
  \A p \in Processes :
    run[p].pc = "deposit" => PassesTheChecks(AddressOf(run[p].index), run[p].assets)

\* The shares and the balances a deposit leaves.
SharesAfter(n, assets) ==
  LET deposited == {a \in assets : ndcBalance[n][a] > DUST_AMOUNT}
      amounts   == [s \in Strategies |->
        LET a == Underlying[s]
        IN IF a \in deposited /\ assetStrategy[a] = s THEN ndcBalance[n][a] ELSE 0]
  IN [depositShares EXCEPT ![n] =
        [s \in Strategies |-> @[s] + UnderlyingToShares(s, amounts[s])]]

BalancesAfter(n, assets) ==
  [ndcBalance EXCEPT ![n] =
     [a \in Assets |-> IF a \in {b \in assets : ndcBalance[n][b] > DUST_AMOUNT} THEN 0 ELSE @[a]]]

\* There are no other checks: what is left of the transaction are assignments.
LEMMA NothingElseIsChecked ==
  ASSUME SystemIInv, NEW n, NEW assets \in SUBSET Assets,
         PassesTheChecks(n, assets), n \notin ndcPaused,
         depositShares' = SharesAfter(n, assets), ndcBalance' = BalancesAfter(n, assets),
         UNCHANGED <<delegated, nonce, withdrawals, rate, configVars, withdrawalRequests,
                     pendingInternalShareWithdrawals, ndcPaused, primeVars, oracleVars, poolVars>>
  PROVE  NodeDeposits(n, assets)
<1>. DEFINE deposited == {a \in assets : ndcBalance[n][a] > DUST_AMOUNT}
            amounts   == [s \in Strategies |->
              LET a == Underlying[s]
              IN IF a \in deposited /\ assetStrategy[a] = s THEN ndcBalance[n][a] ELSE 0]
<1>1. \A a \in Assets : ndcBalance[n][a] \in Nat
  BY DEF PassesTheChecks, SystemIInv, PoolIInv, IInv, NDCTypeOK
<1>2. \A s \in Strategies : amounts[s] \in Nat
  BY <1>1
<1>3. \A s \in Strategies : amounts[s] > 0 => UnderlyingToShares(s, amounts[s]) # 0
  <2>. SUFFICES ASSUME NEW s \in Strategies, amounts[s] > 0
                PROVE  UnderlyingToShares(s, amounts[s]) # 0
    OBVIOUS
  <2>1. amounts[s] \in Nat \ {0}
    BY <1>2
  <2>. HIDE DEF amounts
  <2>. QED
    BY <2>1 DEF PassesTheChecks
<1>4. DepositIntoStrategy(n, amounts)
  <2>1. depositShares' = [depositShares EXCEPT ![n] =
          [s \in Strategies |-> @[s] + UnderlyingToShares(s, amounts[s])]]
    BY DEF SharesAfter
  <2>. QED
    BY <1>3, <2>1 DEF DepositIntoStrategy
<1>5. ndcBalance' = [ndcBalance EXCEPT ![n] = [a \in Assets |-> IF a \in deposited THEN 0 ELSE @[a]]]
  BY DEF BalancesAfter
<1>. QED
  BY <1>4, <1>5 DEF NodeDeposits, DepositAssetsIntoStrategy, OnlyBackend, PassesTheChecks

\* A run for the native NodeDelegator moves WETH and ends with the transfer.
MatchingRuns ==
  {r \in DepositRuns :
     /\ r.pc = "deposit" => r.index = 0 /\ r.assets \subseteq Assets \ {WETH}
     /\ r.task = "depositAllEL" =>
          r.index = 0 /\ r.left \in Seq(Assets \ {WETH}) /\ r.assets \subseteq Assets \ {WETH}
     /\ r.task = "depositAssetEL" /\ r.pc \in {"read", "transfer"}
          => r.index = 0 \/ Head(r.left) = WETH
     /\ r.task = "depositAssetEL" /\ r.pc = "transfer" => r.assets = {Head(r.left)}}

MatchingStep(p) == \E r \in MatchingRuns : run' = [run EXCEPT ![p] = r]

LEMMA NoRunMatches == NoRun \in MatchingRuns
BY NoRunIsDepositRun DEF NoRun, MatchingRuns

LEMMA MatchingRunEnds ==
  ASSUME NEW p, Ends(p)
  PROVE  MatchingStep(p)
BY NoRunMatches DEF MatchingStep, Ends

LEMMA MatchingRunGoesTo ==
  ASSUME NEW p, run[p] \in MatchingRuns, GoesTo(p, "deposit"),
         run[p].index = 0, run[p].assets \subseteq Assets \ {WETH},
         run[p].task \in {"depositAssetEL", "depositAllEL"}
  PROVE  MatchingStep(p)
<1>1. [run[p] EXCEPT !.pc = "deposit"] \in MatchingRuns
  BY DEF MatchingRuns, DepositRuns, RunRecords
<1>2. run' = [run EXCEPT ![p] = [run[p] EXCEPT !.pc = "deposit"]]
  BY DEF GoesTo
<1>. QED
  BY <1>1, <1>2 DEF MatchingStep

LEMMA MatchingAssetEL ==
  ASSUME SystemIInv, NEW p \in Processes, run[p] \in MatchingRuns, DepositAssetEL(p)
  PROVE  MatchingStep(p)
<1>1. CASE ReadsBalance(p)
  <2>. DEFINE asset == Head(run[p].left)
              next  == [run[p] EXCEPT !.pc = "transfer", !.amount = poolBalance[asset],
                                      !.assets = {asset}]
  <2>1. run[p].left # <<>> /\ run[p] \in DepositRuns /\ run[p].task = "depositAssetEL"
        /\ run[p].pc = "read"
    BY <1>1 DEF ReadsBalance, At, MatchingRuns, DepositRuns
  <2>2. asset \in Assets /\ poolBalance[asset] \in Nat
    BY <2>1, HeadOfRun DEF SystemIInv, PoolIInv, FundsTypeOK
  <2>3. next \in DepositRuns
    BY <2>1, <2>2 DEF DepositRuns, RunRecords
  <2>4. next \in MatchingRuns
    BY <2>1, <2>3 DEF MatchingRuns, DepositRuns, RunRecords
  <2>5. run' = [run EXCEPT ![p] = next] \/ Ends(p)
    BY <1>1 DEF ReadsBalance
  <2>. QED
    BY <2>4, <2>5, MatchingRunEnds DEF MatchingStep
<1>2. CASE TransfersAsset(p)
  <2>1. Ends(p) \/ (Head(run[p].left) # WETH /\ GoesTo(p, "deposit"))
    BY <1>2 DEF TransfersAsset, Transacts
  <2>2. run[p].task = "depositAssetEL" /\ run[p].pc = "transfer" /\ run[p].left # <<>>
        /\ run[p] \in DepositRuns
    BY <1>2 DEF TransfersAsset, At, MatchingRuns, DepositRuns
  <2>3. Head(run[p].left) \in Assets
    BY <2>2, HeadOfRun
  <2>4. Head(run[p].left) # WETH
          => run[p].index = 0 /\ run[p].assets \subseteq Assets \ {WETH}
    BY <2>2, <2>3 DEF MatchingRuns
  <2>. QED
    BY <2>1, <2>2, <2>4, MatchingRunEnds, MatchingRunGoesTo
<1>3. CASE DepositsInto(p, "depositAssetEL")
  BY <1>3, MatchingRunEnds DEF DepositsInto, Transacts
<1>. QED
  BY <1>1, <1>2, <1>3 DEF DepositAssetEL

LEMMA MatchingAllEL ==
  ASSUME NEW p \in Processes, run[p] \in MatchingRuns, DepositAllEL(p)
  PROVE  MatchingStep(p)
<1>1. CASE ReadsNextBalance(p)
  <2>. DEFINE asset  == Head(run[p].left)
              assets == IF poolBalance[asset] >= run[p].min THEN run[p].assets \cup {asset}
                        ELSE run[p].assets
              next   == [run[p] EXCEPT !.left = Tail(run[p].left), !.assets = assets]
  <2>1. /\ run[p].task = "depositAllEL" /\ run[p].left # <<>> /\ run[p].pc = "read"
        /\ run' = [run EXCEPT ![p] = next]
    BY <1>1 DEF ReadsNextBalance, At
  <2>2. /\ run[p].index = 0 /\ run[p].left \in Seq(Assets \ {WETH})
        /\ run[p].assets \subseteq Assets \ {WETH}
    BY <2>1 DEF MatchingRuns
  <2>3. asset \in Assets \ {WETH} /\ Tail(run[p].left) \in Seq(Assets \ {WETH})
    BY <2>1, <2>2
  <2>4. Tail(run[p].left) \in Seq(Assets)
    BY <2>1, HeadOfRun DEF MatchingRuns
  <2>5. assets \in SUBSET (Assets \ {WETH})
    BY <2>2, <2>3
  <2>. HIDE DEF assets
  <2>6. next \in DepositRuns
    BY <2>1, <2>4, <2>5 DEF MatchingRuns, DepositRuns, RunRecords
  <2>7. next \in MatchingRuns
    BY <2>1, <2>2, <2>3, <2>5, <2>6 DEF MatchingRuns, DepositRuns, RunRecords
  <2>. QED
    BY <2>1, <2>7 DEF MatchingStep
<1>2. CASE TransfersAssets(p)
  <2>1. run[p].task = "depositAllEL" /\ (Ends(p) \/ GoesTo(p, "deposit"))
    BY <1>2 DEF TransfersAssets, Transacts, At
  <2>2. run[p].index = 0 /\ run[p].assets \subseteq Assets \ {WETH}
    BY <2>1 DEF MatchingRuns
  <2>. QED
    BY <2>1, <2>2, MatchingRunEnds, MatchingRunGoesTo
<1>3. CASE DepositsInto(p, "depositAllEL")
  BY <1>3, MatchingRunEnds DEF DepositsInto, Transacts
<1>. QED
  BY <1>1, <1>2, <1>3 DEF DepositAllEL

LEMMA MatchingToDepositPool ==
  ASSUME SystemIInv, NEW p \in Processes, run[p] \in MatchingRuns, TransferToDepositPool(p)
  PROVE  MatchingStep(p)
<1>0. run[p] \in DepositRuns
  BY DEF MatchingRuns
<1>1. PICK r \in DepositRuns : run' = [run EXCEPT ![p] = r]
  BY <1>0, TransferToDepositPoolStep DEF OnlyRun
<1>2. CASE ReadsNode(p)
  <2>1. run[p].task = "transferToDepositPool" /\ run[p].pc = "read"
    BY <1>2 DEF ReadsNode, At
  <2>. DEFINE n     == AddressOf(run[p].index)
              asset == Head(run[p].left)
              held  == IF n \in NativeNDCs THEN nativeLiquid[n][asset] ELSE ndcBalance[n][asset]
              next  == [run[p] EXCEPT !.pc = "transfer", !.amount = held]
  <2>2. run[p].left # <<>> /\ run[p].index \in 0 .. 1
    BY <1>0, <2>1 DEF DepositRuns, RunRecords
  <2>3. asset \in Assets /\ n \in Nodes
    BY <1>0, <2>2, HeadOfRun, AddressesAreNodes
  <2>4. held \in Nat
    BY <2>3 DEF Nodes, SystemIInv, PoolIInv, IInv, NDCTypeOK, NativeTypeOK
  <2>5. run' = [run EXCEPT ![p] = next]
    BY <1>2 DEF ReadsNode
  <2>. HIDE DEF held
  <2>6. next \in MatchingRuns
    BY <1>0, <2>1, <2>2, <2>4 DEF MatchingRuns, DepositRuns, RunRecords
  <2>. QED
    BY <2>5, <2>6 DEF MatchingStep
<1>3. CASE Transacts(p, TransferBack(AddressOf(run[p].index), Head(run[p].left), run[p].amount), Ends(p))
  BY <1>3, MatchingRunEnds DEF Transacts
<1>. QED
  BY <1>2, <1>3 DEF TransferToDepositPool

LEMMA MatchingBegins ==
  ASSUME NEW p, NEW task \in {"depositAssetEL", "depositAllEL", "transferToDepositPool"},
         NEW index \in 0 .. 1, NEW min \in Nat, NEW assets \in Seq(Assets),
         task # "depositAllEL" => assets # <<>>,
         task = "depositAllEL" => index = 0 /\ assets \in Seq(Assets \ {WETH}),
         task = "depositAssetEL" => index = 0 \/ Head(assets) = WETH,
         Begins(p, task, index, min, assets)
  PROVE  MatchingStep(p)
<1>. DEFINE begun == [NoRun EXCEPT !.task = task, !.pc = "read", !.index = index,
                                   !.min = min, !.left = assets]
<1>1. begun \in DepositRuns
  BY DEF NoRun, DepositRuns, RunRecords
<1>2. begun \in MatchingRuns
  BY <1>1 DEF NoRun, MatchingRuns
<1>. QED
  BY <1>2 DEF Begins, MatchingStep

LEMMA MatchingRunStep ==
  ASSUME SystemIInv, NEW p \in Processes, run[p] \in MatchingRuns, RunStep(p)
  PROVE  MatchingStep(p)
BY MatchingAssetEL, MatchingAllEL, MatchingToDepositPool DEF RunStep

LEMMA MatchingDefender ==
  ASSUME SystemIInv, NEW p \in DefenderActions, run[p] \in MatchingRuns, DefenderStep(p)
  PROVE  MatchingStep(p)
<1>1. p \in Processes
  BY DEF Processes
<1>2. CASE RunStep(p)
  BY <1>1, <1>2, MatchingRunStep
<1>3. CASE p = "depositAllEL" /\ DepositAllELHandler
  <2>1. /\ LSTs \in Seq(Assets) /\ LSTs \in Seq(Assets \ {WETH})
        /\ MinDeposit["depositAllEL"] \in Nat
    BY DEF DefenderActions
  <2>2. Begins(p, "depositAllEL", 0, MinDeposit["depositAllEL"], LSTs)
    BY <1>3 DEF DepositAllELHandler
  <2>. QED
    BY <2>1, <2>2, MatchingBegins
<1>4. CASE p = "transferWETH" /\ TransferWETHHandler
  <2>. DEFINE assets == <<WETH>>
              min    == MinDeposit["transferWETH"]
  <2>1. /\ assets \in Seq(Assets) /\ assets # <<>> /\ Head(assets) = WETH
        /\ min \in Nat /\ 1 \in 0 .. 1
    BY DEF DefenderActions
  <2>2. Begins(p, "depositAssetEL", 1, min, assets)
    BY <1>4 DEF TransferWETHHandler
  <2>. HIDE DEF assets, min
  <2>. QED
    BY <2>1, <2>2, MatchingBegins
<1>. QED
  BY <1>2, <1>3, <1>4 DEF DefenderStep

LEMMA MatchingTerminal ==
  ASSUME SystemIInv, MatchingArguments, NEW t \in Terminals, run[t] \in MatchingRuns,
         TerminalStep(t)
  PROVE  MatchingStep(t)
<1>1. t \in Processes
  BY DEF Processes
<1>2. CASE RunStep(t)
  BY <1>1, <1>2, MatchingRunStep
<1>3. ASSUME NEW args \in DepositELArgs, DepositEL(t, args.symbol, args.index)
      PROVE  MatchingStep(t)
  <2>1. /\ args.index \in 0 .. 1 /\ args.symbol \in Assets \cup {"ALL"}
        /\ MinDeposit["depositEL"] \in Nat
        /\ LSTs \in Seq(Assets) /\ LSTs \in Seq(Assets \ {WETH})
        /\ args.index = 0 \/ args.symbol = WETH
    BY DEF MatchingArguments
  <2>2. CASE args.symbol = "ALL"
    <3>1. args.index = 0
      BY <2>1, <2>2 DEF MatchingArguments
    <3>. QED
      BY <1>3, <2>1, <2>2, <3>1, MatchingBegins DEF DepositEL
  <2>3. CASE args.symbol # "ALL"
    <3>. DEFINE assets == <<args.symbol>>
    <3>1. assets \in Seq(Assets) /\ assets # <<>> /\ Head(assets) = args.symbol
      BY <2>1, <2>3
    <3>2. Begins(t, "depositAssetEL", args.index, MinDeposit["depositEL"], assets)
      BY <1>3, <2>3 DEF DepositEL
    <3>. HIDE DEF assets
    <3>. QED
      BY <2>1, <3>1, <3>2, MatchingBegins
  <2>. QED
    BY <2>2, <2>3
<1>4. ASSUME NEW args \in WithdrawNodeArgs, WithdrawNode(t, args.symbol, args.index)
      PROVE  MatchingStep(t)
  <2>1. /\ args.index \in 0 .. 1 /\ <<args.symbol>> \in Seq(Assets) /\ <<args.symbol>> # <<>>
    OBVIOUS
  <2>. QED
    BY <1>4, <2>1, MatchingBegins DEF WithdrawNode
<1>. QED
  BY <1>2, <1>3, <1>4 DEF TerminalStep

LEMMA TasksKeepRates ==
  ASSUME TasksNext
  PROVE  UNCHANGED <<supportedAssets, assetStrategy, rate>>
<1>1. ASSUME NEW n, NEW assets, NodeDeposits(n, assets)
      PROVE  UNCHANGED <<supportedAssets, assetStrategy, rate>>
  BY <1>1 DEF NodeDeposits, DepositAssetsIntoStrategy, DepositIntoStrategy, configVars
<1>2. ASSUME NEW i, NEW assets, TransferAssetsToNodeDelegator(i, assets)
      PROVE  UNCHANGED <<supportedAssets, assetStrategy, rate>>
  BY <1>2 DEF TransferAssetsToNodeDelegator, NodeReceives, ReceiveTokens, configVars, elVars, ndVars
<1>3. ASSUME NEW i, NEW a, NEW amount, TransferAssetToNodeDelegator(i, a, amount)
      PROVE  UNCHANGED <<supportedAssets, assetStrategy, rate>>
  BY <1>3 DEF TransferAssetToNodeDelegator, NodeReceives, ReceiveTokens, configVars, elVars, ndVars
<1>4. ASSUME NEW n, NEW a, NEW amount, TransferBack(n, a, amount)
      PROVE  UNCHANGED <<supportedAssets, assetStrategy, rate>>
  BY <1>4 DEF TransferBack, TransferBackToLRTDepositPool, configVars, elVars, ndVars
<1>5. ASSUME UNCHANGED vars
      PROVE  UNCHANGED <<supportedAssets, assetStrategy, rate>>
  BY <1>5 DEF vars, ndVars, configVars, elVars
<1>6. ASSUME NEW p, RunStep(p)
      PROVE  UNCHANGED <<supportedAssets, assetStrategy, rate>>
  BY <1>6, <1>1, <1>2, <1>3, <1>4, <1>5
     DEF RunStep, DepositAssetEL, DepositAllEL, TransferToDepositPool, ReadsBalance,
         TransfersAsset, DepositsInto, ReadsNextBalance, TransfersAssets, ReadsNode, Transacts
<1>7. CASE TokensArrive
  BY <1>7 DEF TokensArrive, DepositPrimeTask, DepositPrime, DepositAsset, OnlyOracle,
     configVars, elVars, ndVars
<1>8. CASE Pauses
  BY <1>8 DEF Pauses, PauseDelegatorTask, UnpauseDelegatorTask, PauseDelegator,
     UnpauseDelegator, NDCPause, NDCUnpause, configVars, elVars
<1>9. ASSUME NEW t \in Terminals, TerminalStep(t)
      PROVE  UNCHANGED <<supportedAssets, assetStrategy, rate>>
  BY <1>9, <1>5, <1>6 DEF TerminalStep, DepositEL, WithdrawNode, Begins
<1>10. ASSUME NEW p, DefenderStep(p)
       PROVE  UNCHANGED <<supportedAssets, assetStrategy, rate>>
  BY <1>10, <1>5, <1>6 DEF DefenderStep, DepositAllELHandler, TransferWETHHandler, Begins
<1>11. ASSUME NEW p, Dies(p)
       PROVE  UNCHANGED <<supportedAssets, assetStrategy, rate>>
  BY <1>11, <1>5 DEF Dies
<1>. QED
  BY <1>7, <1>8, <1>9, <1>10, <1>11 DEF TasksNext

MatchingIInv ==
  /\ RunsIInv
  /\ run \in [Processes -> MatchingRuns]
  /\ AllSupported
  /\ \A a \in Assets : assetStrategy[a] # NoStrategy => Underlying[assetStrategy[a]] = a
  /\ \A s \in Strategies : rate[s] = RateUnit

LEMMA MatchingPass == MatchingIInv => TransfersPass
<1>. SUFFICES ASSUME MatchingIInv, NEW p \in Processes, run[p].pc = "deposit"
              PROVE  PassesTheChecks(AddressOf(run[p].index), run[p].assets)
  BY DEF TransfersPass
<1>1. run[p].index = 0 /\ run[p].assets \subseteq Assets \ {WETH}
  BY DEF MatchingIInv, MatchingRuns
<1>2. AddressOf(run[p].index) \in NDCs
  BY <1>1 DEF AddressOf
<1>3. ASSUME NEW s \in Strategies, NEW amount \in Nat \ {0}
      PROVE  UnderlyingToShares(s, amount) # 0
  <2>1. rate[s] = RateUnit /\ RateUnit \in Nat \ {0}
    BY DEF MatchingIInv
  <2>2. (amount * RateUnit) \div RateUnit # 0
    <3>. DEFINE n == amount * RateUnit
    <3>1. n \in Nat /\ n >= RateUnit
      BY <2>1
    <3>. HIDE DEF n
    <3>2. n < RateUnit * (n \div RateUnit + 1) /\ n \div RateUnit \in Nat
      BY <2>1, <3>1, DivBounds
    <3>3. n \div RateUnit # 0
      BY <2>1, <3>1, <3>2
    <3>. QED
      BY <3>3 DEF n
  <2>. QED
    BY <2>1, <2>2 DEF UnderlyingToShares
<1>. QED
  BY <1>1, <1>2, <1>3 DEF PassesTheChecks, MatchingIInv, AllSupported

LEMMA InitMatching == Init /\ TasksInit /\ AllSupported => MatchingIInv
<1>. SUFFICES ASSUME Init, TasksInit, AllSupported PROVE MatchingIInv
  OBVIOUS
<1>1. run \in [Processes -> MatchingRuns]
  BY NoRunMatches DEF TasksInit
<1>. QED
  BY <1>1, InitRuns DEF MatchingIInv, Init, NDCInit, ELInit

LEMMA NextMatching ==
  MatchingArguments /\ MatchingIInv /\ [TasksNext]_depositTaskVars => MatchingIInv'
<1>. SUFFICES ASSUME MatchingArguments, MatchingIInv, [TasksNext]_depositTaskVars
              PROVE  MatchingIInv'
  OBVIOUS
<1>1. RunsIInv'
  BY NextRuns DEF MatchingIInv
<1>2. UNCHANGED <<supportedAssets, assetStrategy, rate>>
  BY TasksKeepRates DEF depositTaskVars, vars, ndVars, configVars, elVars
<1>3. SystemIInv /\ run \in [Processes -> MatchingRuns]
  BY DEF MatchingIInv, RunsIInv
<1>4. ASSUME NEW p \in Processes, MatchingStep(p)
      PROVE  run' \in [Processes -> MatchingRuns]
  BY <1>3, <1>4 DEF MatchingStep
<1>5. run' \in [Processes -> MatchingRuns]
  <2>1. ASSUME NEW p \in DefenderActions, DefenderStep(p)
        PROVE  run' \in [Processes -> MatchingRuns]
    BY <1>3, <1>4, <2>1, MatchingDefender DEF Processes
  <2>2. ASSUME NEW t \in Terminals, TerminalStep(t)
        PROVE  run' \in [Processes -> MatchingRuns]
    BY <1>3, <1>4, <2>2, MatchingTerminal DEF Processes
  <2>3. ASSUME NEW p \in Processes, Dies(p)
        PROVE  run' \in [Processes -> MatchingRuns]
    BY <1>4, <2>3, MatchingRunEnds DEF Dies
  <2>4. CASE TokensArrive \/ Pauses \/ UNCHANGED depositTaskVars
    BY <1>3, <2>4 DEF TokensArrive, Pauses, taskVars, depositTaskVars
  <2>. QED
    BY <2>1, <2>2, <2>3, <2>4 DEF TasksNext
<1>. QED
  BY <1>1, <1>2, <1>5 DEF MatchingIInv, AllSupported

\* Whatever other runs move in between, die or leave half done, a run that has
\* transferred assets meets all that its second transaction checks, but perhaps a
\* pause: TransferredCanBeDeposited, without ENABLED.
THEOREM TransfersPassTheChecks ==
  ASSUME MatchingArguments
  PROVE  TasksSpec /\ AllSupported => []TransfersPass
BY InitMatching, NextMatching, MatchingPass, PTL DEF TasksSpec

-----------------------------------------------------------------------------
(* The withdrawal tasks: the calls that are not of LRTDepositPool's Next. *)

USE WithdrawalTasksAssumption DEF WithdrawalTasksAssumption

\* With any limit on what may be burnt.
LEMMA Requested ==
  ASSUME SystemIInv, NEW s \in Stakers, NEW amount \in Nat, NEW limit,
         RequestWithdrawal(s, amount, limit)
  PROVE  /\ SystemIInv'
         /\ \E n \in NDCs, strategy \in Strategies, shares \in Nat :
              QueueWithdrawals(n, strategy, shares)
<1>. DEFINE strategy == assetStrategy[WITHDRAW_ASSET]
            shares   == UnderlyingToShares(strategy, amount)
<1>1. IInv /\ FundsTypeOK /\ PrimeIInv /\ ELTypeOK
  BY DEF SystemIInv, PoolIInv, IInv, NDCTypeOK
<1>2. strategy \in Strategies /\ WITHDRAW_ASSET \in Assets
  BY <1>1, PoolAssumption
     DEF PoolAssumption, RequestWithdrawal, IInv, NDCTypeOK, ConfigTypeOK
<1>3. LstNdc \in NDCs /\ NDCRequestWithdrawal(LstNdc, strategy, shares, s)
  BY DEF RequestWithdrawal
<1>4. shares \in Nat
  BY <1>1, <1>2, SharesType
<1>5. IInv'
  BY <1>1, <1>2, <1>3, RequestIInv
<1>6. /\ FundsTypeOK' /\ NativeTypeOK' /\ UNCHANGED <<oracleVars, adminVars>>
  BY <1>1, SameFunds, NativeKept DEF RequestWithdrawal, poolVars, oracleVars, Funds
<1>7. PrimeIInv'
  <2>1. primeETHPrice # 0 /\ BurnFrom(s, BurnAmount(amount))
    BY DEF RequestWithdrawal
  <2>2. GetMintAmount(WITHDRAW_ASSET, amount) \in Nat
    BY <1>2, <2>1, MintAmountType DEF SystemIInv, PoolIInv, FundsTypeOK
  <2>3. BurnAmount(amount) \in Nat
    BY <2>2 DEF BurnAmount
  <2>. QED
    BY <1>1, <2>1, <2>3, BurnPrime
<1>8. QueueWithdrawals(LstNdc, strategy, shares)
  BY <1>3 DEF NDCRequestWithdrawal
<1>. HIDE DEF strategy, shares
<1>. QED
  BY <1>2, <1>3, <1>4, <1>5, <1>6, <1>7, <1>8, RestKept DEF PoolIInv

\* A call, or a step of EigenLayer, that touches the NodeDelegators only.
LEMMA BackendKept ==
  ASSUME SystemIInv, IInv', OnlyBackend
  PROVE  SystemIInv'
<1>1. FundsTypeOK'
  BY SameFunds DEF SystemIInv, PoolIInv, OnlyBackend, poolVars, oracleVars, Funds
<1>2. NativeTypeOK' /\ PrimeIInv' /\ UNCHANGED <<oracleVars, adminVars>>
  BY NativeKept, TokenKept DEF OnlyBackend, poolVars
<1>. QED
  BY <1>1, <1>2, RestKept DEF PoolIInv

LEMMA RequestedInternally ==
  ASSUME SystemIInv, NEW s \in Strategies, NEW shares \in Nat, RequestsInternally(s, shares)
  PROVE  SystemIInv' /\ QueueWithdrawals(NODE_DELEGATOR, s, shares)
<1>1. NDCTypeOK /\ Records /\ NODE_DELEGATOR \in NDCs
  BY DEF SystemIInv, PoolIInv, IInv, Records
<1>2. RequestInternalWithdrawal(NODE_DELEGATOR, s, shares) /\ OnlyBackend
  BY DEF RequestsInternally
<1>3. NDCTypeOK'
  BY <1>1, <1>2, RequestInternalType
<1>4. QueueWithdrawals(NODE_DELEGATOR, s, shares) /\ UNCHANGED withdrawalRequests
  BY <1>2 DEF RequestInternalWithdrawal
<1>5. Records'
  BY <1>1, <1>4, QueueRecords
<1>. QED
  BY <1>2, <1>3, <1>4, <1>5, BackendKept DEF IInv, Records

-----------------------------------------------------------------------------
(* What happens to the withdrawals. *)

Status(r) == withdrawals[r].status

\* New withdrawals are of roots that were never used.
Queues(Q) ==
  \A r \in Roots : /\ r \in Q => Status(r) = "none" /\ Status(r)' = "queued"
                   /\ r \notin Q => Status(r)' = Status(r)

Completes(q) ==
  \A r \in Roots : /\ r = q => Status(r) = "completable" /\ Status(r)' = "completed"
                   /\ r # q => Status(r)' = Status(r)

\* A transaction's withdrawals become completable together.
Delays(receipt) ==
  \A r \in Roots :
    /\ r \in ToSet(receipt) => Status(r) = "queued" /\ Status(r)' = "completable"
    /\ r \notin ToSet(receipt) => Status(r)' = Status(r)

Moves ==
  \/ \E Q \in SUBSET Roots : Queues(Q)
  \/ \E q \in Roots : Completes(q)
  \/ \E receipt \in receipts : Delays(receipt)

LEMMA NothingMoves == UNCHANGED withdrawals => Moves
<1>. SUFFICES ASSUME UNCHANGED withdrawals PROVE Queues({})
  BY DEF Moves
<1>. QED
  BY DEF Queues, Status

LEMMA QueueMoves ==
  ASSUME IInv, NEW n \in NDCs, NEW s \in Strategies, NEW shares \in Nat,
         QueueWithdrawals(n, s, shares)
  PROVE  Moves /\ NextRoot(n, s) \in Roots /\ Queues({NextRoot(n, s)})
<1>1. ELTypeOK /\ nonce[n][s] < MaxWithdrawals
  BY DEF IInv, NDCTypeOK, QueueWithdrawals
<1>2. PICK root \in Roots : /\ root = NextRoot(n, s)
                            /\ root.ndc = n /\ root.strategy = s /\ root.nonce = nonce[n][s]
  BY <1>1, NextRootType
<1>3. nonce[n][s] >= nonce[n][s]
  BY <1>1 DEF ELTypeOK
<1>4. Status(root) = "none"
  BY <1>2, <1>3 DEF IInv, FreshRoots, NoWithdrawal, Status
<1>5. Status(root)' = "queued" /\ \A r \in Roots : r # root => Status(r)' = Status(r)
  BY <1>1, <1>2 DEF QueueWithdrawals, ELTypeOK, Status
<1>6. Queues({root})
  BY <1>4, <1>5 DEF Queues
<1>. QED
  BY <1>2, <1>6 DEF Moves

LEMMA UndelegateMoves ==
  ASSUME IInv, NEW n \in NDCs, UndelegateStaker(n)
  PROVE  /\ Moves
         /\ \E Q \in SUBSET Roots : Queues(Q) /\ \A r \in Q : r.nonce >= nonce[r.ndc][r.strategy]
<1>. DEFINE held   == {s \in Strategies : depositShares[n][s] > 0}
            queued == {r \in Roots : r.ndc = n /\ r.strategy \in held
                                     /\ r.nonce = nonce[n][r.strategy]}
<1>1. \A r \in queued : Status(r) = "none"
  <2>1. SUFFICES ASSUME NEW r \in queued PROVE Status(r) = "none"
    OBVIOUS
  <2>2. r \in Roots /\ r.nonce >= nonce[r.ndc][r.strategy]
    BY DEF IInv, NDCTypeOK, ELTypeOK
  <2>. QED
    BY <2>2 DEF IInv, FreshRoots, NoWithdrawal, Status
<1>2. \A r \in Roots : /\ r \in queued => Status(r)' = "queued"
                       /\ r \notin queued => Status(r)' = Status(r)
  BY DEF UndelegateStaker, Status
<1>3. /\ queued \in SUBSET Roots
      /\ \A r \in queued : r.nonce >= nonce[r.ndc][r.strategy]
  BY DEF IInv, NDCTypeOK, ELTypeOK
<1>. HIDE DEF queued
<1>4. Queues(queued)
  BY <1>1, <1>2 DEF Queues
<1>. QED
  BY <1>3, <1>4 DEF Moves

LEMMA CompleteMoves ==
  ASSUME IInv, NEW n, NEW r \in Roots, CompleteQueuedWithdrawal(n, r)
  PROVE  Moves /\ Completes(r)
<1>1. Completes(r)
  BY DEF CompleteQueuedWithdrawal, Completed, Completes, Status, IInv, NDCTypeOK, ELTypeOK
<1>. QED
  BY <1>1 DEF Moves

-----------------------------------------------------------------------------
(* The receipts. *)

\* The roots a receipt names were queued by its transaction and by no other.
ReceiptsOK ==
  /\ receipts \subseteq Seq(Roots) \ {<<>>}
  /\ \A c \in receipts : \A i \in DOMAIN c : Status(c[i]) # "none"
  /\ \A c, d \in receipts : \A i \in DOMAIN c, j \in DOMAIN d : c[i] = d[j] => c = d
  /\ \A c \in receipts : \A i, j \in DOMAIN c :
       Status(c[i]) = "queued" => Status(c[j]) = "queued"

\* minWithdrawalDelayBlocks pass for a whole receipt.
LEMMA DelayMoves ==
  ASSUME SystemIInv, ReceiptsOK, NEW c \in receipts, DelayElapsesFor(c)
  PROVE  SystemIInv' /\ Delays(c)
<1>1. /\ NDCTypeOK /\ Records /\ ELTypeOK /\ c \in Seq(Roots)
      /\ UNCHANGED <<depositShares, delegated, nonce, rate, configVars, ndcVars>>
      /\ OnlyBackend
  BY DEF SystemIInv, PoolIInv, IInv, NDCTypeOK, Records, DelayElapsesFor, ReceiptsOK
<1>2. \A r \in ToSet(c) : r \in Roots /\ withdrawals[r].status = "queued"
  <2>1. PICK i \in DOMAIN c : withdrawals[c[i]].status = "queued"
    BY DEF DelayElapsesFor
  <2>2. \A j \in DOMAIN c : Status(c[j]) = "queued"
    BY <2>1 DEF ReceiptsOK, Status
  <2>. QED
    BY <1>1, <2>2 DEF ToSet, Status
<1>3. \A r \in Roots :
        /\ r \in ToSet(c) => withdrawals'[r] = [withdrawals[r] EXCEPT !.status = "completable"]
        /\ r \notin ToSet(c) => withdrawals'[r] = withdrawals[r]
  BY DEF DelayElapsesFor
<1>4. \A r \in Roots : withdrawals[r] \in Withdrawals
  BY <1>1 DEF ELTypeOK
<1>5. \A r \in Roots : /\ withdrawals'[r] \in Withdrawals
                       /\ r \in ToSet(c) => withdrawals'[r].status = "completable"
  <2>1. \A w \in Withdrawals : /\ [w EXCEPT !.status = "completable"] \in Withdrawals
                               /\ [w EXCEPT !.status = "completable"].status = "completable"
    BY DEF Withdrawals
  <2>2. SUFFICES ASSUME NEW r \in Roots
                 PROVE  /\ withdrawals'[r] \in Withdrawals
                        /\ r \in ToSet(c) => withdrawals'[r].status = "completable"
    OBVIOUS
  <2>3. CASE r \in ToSet(c)
    <3>1. withdrawals'[r] = [withdrawals[r] EXCEPT !.status = "completable"]
      BY <1>3, <2>3
    <3>. QED
      BY <1>4, <2>1, <3>1
  <2>4. CASE r \notin ToSet(c)
    BY <1>3, <1>4, <2>4
  <2>. QED
    BY <2>3, <2>4
<1>6. Delays(c)
  BY <1>2, <1>3, <1>5 DEF Delays, Status
<1>7. NDCTypeOK'
  <2>1. withdrawals' = [r \in Roots |-> withdrawals'[r]]
    BY DEF DelayElapsesFor
  <2>2. withdrawals' \in [Roots -> Withdrawals]
    BY <1>5, <2>1
  <2>. QED
    BY <1>1, <2>2 DEF NDCTypeOK, ELTypeOK, ConfigTypeOK, configVars, ndcVars
<1>8. Records'
  <2>1. \A r \in Roots : Pending(r)' <=> Pending(r)
    BY <1>2, <1>3, <1>5 DEF Pending
  <2>2. UNCHANGED <<nonce, withdrawalRequests>>
    BY <1>1 DEF ndcVars
  <2>3. \A r \in Roots : withdrawals[r] = NoWithdrawal => withdrawals'[r] = NoWithdrawal
    <3>1. NoWithdrawal.status # "queued"
      BY DEF NoWithdrawal
    <3>. QED
      BY <1>2, <1>3, <3>1
  <2>4. RequestsBacked'
    BY <1>1, <2>1, <2>2 DEF Records, RequestsBacked
  <2>5. FreshRoots'
    BY <1>1, <2>2, <2>3 DEF Records, FreshRoots
  <2>. QED
    BY <1>1, <2>2, <2>4, <2>5 DEF Records, RecordsAreLocal
<1>. QED
  BY <1>1, <1>6, <1>7, <1>8, BackendKept DEF IInv, Records

LEMMA RootsFinite == IsFiniteSet(Roots)
<1>. DEFINE nonces == 0 .. MaxWithdrawals - 1
            names  == (NDCs \X Strategies) \X nonces
            root   == [x \in names |-> [ndc |-> x[1][1], strategy |-> x[1][2], nonce |-> x[2]]]
<1>1. IsFiniteSet(nonces)
  BY FS_Interval
<1>2. IsFiniteSet(names)
  <2>1. IsFiniteSet(NDCs) /\ IsFiniteSet(Strategies)
    OBVIOUS
  <2>2. IsFiniteSet(NDCs \X Strategies)
    BY <2>1, FS_Product
  <2>. QED
    BY <1>1, <2>2, FS_Product
<1>3. root \in Surjection(names, Roots)
  <2>1. root \in [names -> Roots]
    BY DEF Roots
  <2>2. \A r \in Roots : \E x \in names : root[x] = r
    <3>1. SUFFICES ASSUME NEW r \in Roots PROVE \E x \in names : root[x] = r
      OBVIOUS
    <3>2. <<<<r.ndc, r.strategy>>, r.nonce>> \in names
      BY DEF Roots
    <3>3. root[<<<<r.ndc, r.strategy>>, r.nonce>>] = r
      BY <3>2 DEF Roots
    <3>. QED
      BY <3>2, <3>3
  <2>. QED
    BY <2>1, <2>2 DEF Surjection
<1>. QED
  BY <1>2, <1>3, FS_Surjection

\* The events of a transaction, in any order.
LEMMA EventsAre ==
  ASSUME NEW Q \in SUBSET Roots, Q # {}, NEW events \in SetToSeqs(Q)
  PROVE  /\ events \in Seq(Roots) /\ events # <<>>
         /\ \A i \in DOMAIN events : events[i] \in Q
<1>1. IsFiniteSet(Q)
  BY RootsFinite, FS_Subset
<1>2. Cardinality(Q) \in Nat /\ Cardinality(Q) # 0
  BY <1>1, FS_CardinalityType, FS_EmptySet
<1>3. events \in [1 .. Cardinality(Q) -> Q]
  BY DEF SetToSeqs
<1>. HIDE DEF SetToSeqs
<1>4. events \in Seq(Q) /\ Len(events) = Cardinality(Q)
  BY <1>2, <1>3
<1>. QED
  BY <1>2, <1>3, <1>4

LEMMA ReceiptsKept ==
  ASSUME ReceiptsOK, Moves, Logs
  PROVE  ReceiptsOK'
<1>. DEFINE queued == {r \in Roots : ~Pending(r) /\ Pending(r)'}
<1>1. \A c \in receipts : c \in Seq(Roots) /\ c # <<>> /\ \A i \in DOMAIN c : c[i] \in Roots
  BY DEF ReceiptsOK
<1>2. CASE \E Q \in SUBSET Roots : Queues(Q)
  <2>1. PICK Q \in SUBSET Roots : Queues(Q)
    BY <1>2
  <2>2. queued = Q
    BY <2>1 DEF Queues, Pending, Status
  <2>3. \A c \in receipts : \A i \in DOMAIN c : c[i] \notin Q /\ Status(c[i])' = Status(c[i])
    BY <1>1, <2>1 DEF ReceiptsOK, Queues
  <2>4. CASE UNCHANGED receipts
    BY <2>3, <2>4 DEF ReceiptsOK
  <2>5. CASE receipts' # receipts
    <3>1. Q # {} /\ \E events \in SetToSeqs(Q) : receipts' = receipts \cup {events}
      BY <2>2, <2>5 DEF Logs
    <3>2. PICK events \in SetToSeqs(Q) : receipts' = receipts \cup {events}
      BY <3>1
    <3>3. /\ events \in Seq(Roots) /\ events # <<>>
          /\ \A i \in DOMAIN events : events[i] \in Q /\ Status(events[i])' = "queued"
      BY <2>1, <3>1, <3>2, EventsAre DEF Queues
    <3>. QED
      BY <1>1, <2>3, <3>2, <3>3 DEF ReceiptsOK
  <2>. QED
    BY <2>4, <2>5
<1>3. ASSUME NEW q \in Roots, Completes(q)
      PROVE  ReceiptsOK'
  <2>1. queued = {}
    BY <1>3 DEF Completes, Pending, Status
  <2>2. UNCHANGED receipts
    BY <2>1 DEF Logs
  <2>. QED
    BY <1>1, <1>3, <2>2 DEF ReceiptsOK, Completes
<1>4. ASSUME NEW c \in receipts, Delays(c)
      PROVE  ReceiptsOK'
  <2>1. queued = {}
    BY <1>4 DEF Delays, Pending, Status
  <2>2. UNCHANGED receipts
    BY <2>1 DEF Logs
  <2>3. \A d \in receipts : \A i \in DOMAIN d : d[i] \in ToSet(c) <=> c = d
    BY <1>1 DEF ReceiptsOK, ToSet
  <2>4. \A d \in receipts : \A i \in DOMAIN d :
          /\ d = c => Status(d[i])' = "completable"
          /\ d # c => Status(d[i])' = Status(d[i])
    BY <1>1, <1>4, <2>3 DEF Delays
  <2>. QED
    BY <2>2, <2>4 DEF ReceiptsOK
<1>. QED
  BY <1>2, <1>3, <1>4 DEF Moves

-----------------------------------------------------------------------------
(* The runs beside each other, and those of claimInternalWithdrawals.        *)

RequestRuns ==
  [task : {"requestInternalWithdrawal"}, pc : {"request"}, strategy : Strategies, shares : Nat]

ClaimRuns ==
  [task : {"claimInternalWithdrawals"}, pc : {"claim"}, receipt : Seq(Roots), left : Seq(Roots)]

Runs == DepositRuns \cup RequestRuns \cup ClaimRuns

\* What is left of the receipt is its end, and what comes before has been claimed.
ClaimedSoFar(receipt, left) ==
  /\ left # <<>> /\ Len(left) <= Len(receipt)
  /\ \A i \in 1 .. Len(left) : left[i] = receipt[Len(receipt) - Len(left) + i]
  /\ \A i \in 1 .. Len(receipt) - Len(left) : Status(receipt[i]) = "completed"

Claims(p) == run[p] \in ClaimRuns

ClaimsOK == \A p \in Processes : Claims(p) => ClaimedSoFar(run[p].receipt, run[p].left)

WithdrawalsIInv ==
  SystemIInv /\ ReceiptsOK /\ run \in [Processes -> Runs] /\ ClaimsOK

\* What a step does to the runs: nothing, or one of them goes on, one that claims
\* only by dying or being refused; or one begins to claim or claims the next.
RunsMove ==
  \/ UNCHANGED run
  \/ \E p \in Processes, r \in DepositRuns \cup RequestRuns :
       /\ run' = [run EXCEPT ![p] = r]
       /\ Claims(p) => r = NoRun /\ UNCHANGED withdrawals
  \/ \E t \in Terminals, receipt \in receipts : BeginsClaims(t, receipt)
  \/ \E t \in Terminals : ClaimsNext(t)

\* Which run the tasks of each kind have.
LEMMA TasksOfRuns ==
  /\ \A r \in DepositRuns : r.task \in {"none", "depositAssetEL", "depositAllEL", "transferToDepositPool"}
  /\ \A r \in RequestRuns : r.task = "requestInternalWithdrawal"
  /\ \A r \in ClaimRuns : r.task = "claimInternalWithdrawals"
BY DEF DepositRuns, RunRecords, RequestRuns, ClaimRuns

LEMMA NoRunClaimsNothing == NoRun \notin ClaimRuns
BY TasksOfRuns, NoRunIsDepositRun

\* A run of the deposit tasks leaves the withdrawals alone.
LEMMA DepositsLeaveWithdrawals ==
  ASSUME SystemIInv, NEW p, RunStep(p)
  PROVE  UNCHANGED withdrawals
<1>1. \A i, assets : TransferAssetsToNodeDelegator(i, assets) => UNCHANGED withdrawals
  BY ReceivesLeave DEF TransferAssetsToNodeDelegator, elVars
<1>2. \A i, a, amount : TransferAssetToNodeDelegator(i, a, amount) => UNCHANGED withdrawals
  BY ReceivesLeave DEF TransferAssetToNodeDelegator, elVars
<1>3. \A n, a, amount : TransferBack(n, a, amount) => UNCHANGED withdrawals
  BY DEF TransferBack, TransferBackToLRTDepositPool, elVars, ndVars
<1>4. \A n, assets : NodeDeposits(n, assets) => UNCHANGED withdrawals
  BY DEF NodeDeposits, DepositAssetsIntoStrategy, DepositIntoStrategy
<1>5. UNCHANGED vars => UNCHANGED withdrawals
  BY DEF vars, ndVars, elVars
<1>6. DepositAssetEL(p) => UNCHANGED withdrawals
  BY <1>2, <1>4, <1>5
     DEF DepositAssetEL, ReadsBalance, TransfersAsset, DepositsInto, Transacts
<1>7. DepositAllEL(p) => UNCHANGED withdrawals
  BY <1>1, <1>4, <1>5
     DEF DepositAllEL, ReadsNextBalance, TransfersAssets, DepositsInto, Transacts
<1>8. TransferToDepositPool(p) => UNCHANGED withdrawals
  BY <1>3, <1>5 DEF TransferToDepositPool, ReadsNode, Transacts
<1>. QED
  BY <1>6, <1>7, <1>8 DEF RunStep

\* The Defender action among them.
LEMMA DefenderKept ==
  ASSUME WithdrawalsIInv, DefenderStep("depositAllEL")
  PROVE  SystemIInv' /\ Moves /\ RunsMove
<1>. DEFINE p == "depositAllEL"
<1>1. p \in DefenderActions /\ p \in Processes
  BY DEF DefenderActions, Processes
<1>2. SystemIInv /\ run[p] \in Runs
  BY <1>1 DEF WithdrawalsIInv
<1>3. run[p].task \in {"none", "depositAssetEL", "depositAllEL", "transferToDepositPool"}
  <2>1. RunStep(p) => run[p].task \in {"depositAssetEL", "depositAllEL", "transferToDepositPool"}
    BY DEF RunStep, DepositAssetEL, DepositAllEL, TransferToDepositPool, ReadsBalance,
       TransfersAsset, ReadsNextBalance, TransfersAssets, ReadsNode, DepositsInto, At
  <2>2. DefenderStep(p) => RunStep(p) \/ run[p] = NoRun
    BY DEF DefenderStep, DepositAllELHandler, TransferWETHHandler, Begins
  <2>. QED
    BY <2>1, <2>2, NoRunIsDepositRun, TasksOfRuns
<1>4. run[p] \in DepositRuns
  BY <1>2, <1>3, TasksOfRuns DEF Runs
<1>5. OnlyRun(p)
  BY <1>1, <1>2, <1>4, DefenderStepIs
<1>6. SystemIInv'
  BY <1>2, <1>5, CallsKept DEF OnlyRun
<1>7. UNCHANGED withdrawals
  <2>1. RunStep(p) => UNCHANGED withdrawals
    BY <1>2, DepositsLeaveWithdrawals
  <2>2. DefenderStep(p) => RunStep(p) \/ UNCHANGED vars
    BY DEF DefenderStep, DepositAllELHandler, TransferWETHHandler, Begins
  <2>3. UNCHANGED vars => UNCHANGED withdrawals
    BY DEF vars, ndVars, elVars
  <2>. QED
    BY <2>1, <2>2, <2>3
<1>8. RunsMove
  <2>1. ~Claims(p)
    BY <1>4, TasksOfRuns DEF Claims
  <2>. QED
    BY <1>1, <1>5, <2>1 DEF OnlyRun, RunsMove
<1>. QED
  BY <1>6, <1>7, <1>8, NothingMoves

LEMMA HeadOfReceipt ==
  ASSUME ReceiptsOK, NEW receipt \in receipts
  PROVE  /\ receipt \in Seq(Roots) /\ receipt # <<>>
         /\ GetWithdrawal(receipt) \in Roots
BY DEF ReceiptsOK, GetWithdrawal

LEMMA StakersTasksKept ==
  ASSUME WithdrawalsIInv, RequestWithdrawalTask \/ ClaimWithdrawalTask
  PROVE  SystemIInv' /\ Moves /\ RunsMove
<1>1. SystemIInv /\ IInv /\ ReceiptsOK
  BY DEF WithdrawalsIInv, SystemIInv, PoolIInv
<1>2. CASE RequestWithdrawalTask
  <2>1. PICK s \in Stakers, amount \in Amounts : Sends(RequestWithdrawalOf(s, amount))
    BY <1>2 DEF RequestWithdrawalTask
  <2>2. RequestWithdrawal(s, amount, (amount * 11) \div 10) /\ RunsMove
    BY <2>1 DEF Sends, taskVars, RunsMove, RequestWithdrawalOf
  <2>3. amount \in Nat
    OBVIOUS
  <2>. QED
    BY <1>1, <2>2, <2>3, Requested, QueueMoves
<1>3. CASE ClaimWithdrawalTask
  <2>1. PICK s \in Stakers, receipt \in receipts : Sends(ClaimWithdrawalOf(s, receipt))
    BY <1>3 DEF ClaimWithdrawalTask
  <2>2. PICK r \in Roots : r = GetWithdrawal(receipt)
    BY <1>1, HeadOfReceipt
  <2>3. (ClaimWithdrawal(s, r) \/ ClaimWithdrawalYn(s, r)) /\ RunsMove
    BY <2>1, <2>2 DEF Sends, taskVars, RunsMove, ClaimWithdrawalOf
  <2>4. CompleteQueuedWithdrawal(LstNdc, r)
    BY <2>3 DEF ClaimWithdrawal, ClaimWithdrawalYn, NDCClaimWithdrawal
  <2>5. Next
    BY <2>3 DEF StakerNext, Next
  <2>. QED
    BY <1>1, <2>3, <2>4, <2>5, NextSystem, CompleteMoves
<1>. QED
  BY <1>2, <1>3

LEMMA ClaimKept ==
  ASSUME SystemIInv, NEW r \in Roots, ClaimInternal(NODE_DELEGATOR, r)
  PROVE  SystemIInv' /\ Moves /\ Completes(r)
<1>1. Next /\ IInv
  BY DEF KeeperNext, Next, SystemIInv, PoolIInv
<1>2. CompleteQueuedWithdrawal(NODE_DELEGATOR, r)
  BY DEF ClaimInternal, ClaimInternalWithdrawal
<1>. QED
  BY <1>1, <1>2, NextSystem, CompleteMoves

LEMMA NodeTasksKept ==
  ASSUME WithdrawalsIInv, ClaimInternalWithdrawalTask \/ DelegateTask \/ UndelegateTask
  PROVE  SystemIInv' /\ Moves /\ RunsMove
<1>1. SystemIInv /\ IInv /\ ReceiptsOK
  BY DEF WithdrawalsIInv, SystemIInv, PoolIInv
<1>2. CASE ClaimInternalWithdrawalTask
  <2>1. PICK receipt \in receipts : Sends(ClaimInternalWithdrawalOf(receipt))
    BY <1>2 DEF ClaimInternalWithdrawalTask
  <2>2. PICK r \in Roots : r = GetWithdrawal(receipt)
    BY <1>1, HeadOfReceipt
  <2>3. ClaimInternal(NODE_DELEGATOR, r) /\ RunsMove
    BY <2>1, <2>2 DEF Sends, taskVars, RunsMove, ClaimInternalWithdrawalOf
  <2>. QED
    BY <1>1, <2>3, ClaimKept
<1>3. CASE DelegateTask
  <2>1. \E n \in NDCs : NDCDelegateTo(n) /\ OnlyBackend
    BY <1>3 DEF DelegateTask, DelegateNode, Sends
  <2>2. UNCHANGED run
    BY <1>3 DEF DelegateTask, Sends, taskVars
  <2>3. Next /\ UNCHANGED withdrawals
    BY <2>1 DEF NDCDelegateTo, DelegateTo, BackendNext, Next
  <2>. QED
    BY <1>1, <2>2, <2>3, NextSystem, NothingMoves DEF RunsMove
<1>4. CASE UndelegateTask
  <2>1. PICK n \in NDCs : Undelegate(n) /\ OnlyBackend
    BY <1>4 DEF UndelegateTask, UndelegateNode, Sends
  <2>2. UNCHANGED run
    BY <1>4 DEF UndelegateTask, Sends, taskVars
  <2>3. Next /\ UndelegateStaker(n)
    BY <2>1 DEF Undelegate, BackendNext, Next
  <2>. QED
    BY <1>1, <2>2, <2>3, NextSystem, UndelegateMoves DEF RunsMove
<1>. QED
  BY <1>2, <1>3, <1>4

\* requestInternalWithdrawal, with an amount or for the shares it read.
LEMMA RequestInternalTaskKept ==
  ASSUME WithdrawalsIInv, NEW t \in Terminals, RequestInternalWithdrawalTask(t)
  PROVE  SystemIInv' /\ Moves /\ RunsMove
<1>1. /\ SystemIInv /\ IInv /\ t \in Processes /\ NODE_DELEGATOR \in NDCs
      /\ run \in [Processes -> Runs]
  BY DEF WithdrawalsIInv, SystemIInv, PoolIInv, Processes
<1>2. UNCHANGED vars => SystemIInv' /\ Moves
  BY <1>1, NextSystem, NothingMoves DEF vars, ndVars, elVars
<1>3. ASSUME NEW s \in Strategies, ReadsShares(t, s)
      PROVE  SystemIInv' /\ Moves /\ RunsMove
  <2>. DEFINE begun == [task |-> "requestInternalWithdrawal", pc |-> "request",
                        strategy |-> s, shares |-> depositShares[NODE_DELEGATOR][s]]
  <2>1. /\ run[t] = NoRun /\ run' = [run EXCEPT ![t] = begun]
        /\ UNCHANGED vars
    BY <1>3 DEF ReadsShares
  <2>2. depositShares[NODE_DELEGATOR][s] \in Nat
    BY <1>1 DEF IInv, NDCTypeOK, ELTypeOK
  <2>3. begun \in RequestRuns
    BY <2>2 DEF RequestRuns
  <2>4. ~Claims(t)
    BY <2>1, NoRunClaimsNothing DEF Claims
  <2>. HIDE DEF begun
  <2>. QED
    BY <1>1, <1>2, <2>1, <2>3, <2>4 DEF RunsMove
<1>4. CASE RequestsShares(t)
  <2>1. /\ Ends(t) /\ run[t].task = "requestInternalWithdrawal"
        /\ \/ RequestsInternally(run[t].strategy, run[t].shares)
           \/ UNCHANGED vars
    BY <1>4 DEF RequestsShares, Transacts, At
  <2>2. run[t] \in RequestRuns
    BY <1>1, <2>1, TasksOfRuns DEF Runs
  <2>3. run[t].strategy \in Strategies /\ run[t].shares \in Nat
    BY <2>2 DEF RequestRuns
  <2>4. SystemIInv' /\ Moves
    BY <1>1, <1>2, <2>1, <2>3, RequestedInternally, QueueMoves
  <2>5. run' = [run EXCEPT ![t] = NoRun] /\ ~Claims(t)
    BY <2>1, TasksOfRuns DEF Ends, Claims
  <2>. QED
    BY <1>1, <2>4, <2>5, NoRunIsDepositRun DEF RunsMove
<1>5. ASSUME NEW s \in Strategies, NEW shares \in SharesArgs, shares # AllShares,
             Sends(RequestsInternally(s, shares))
      PROVE  SystemIInv' /\ Moves /\ RunsMove
  <2>1. RequestsInternally(s, shares) /\ RunsMove
    BY <1>5 DEF Sends, taskVars, RunsMove
  <2>2. shares \in Nat
    BY <1>5
  <2>. QED
    BY <1>1, <2>1, <2>2, RequestedInternally, QueueMoves
<1>. QED
  BY <1>3, <1>4, <1>5 DEF RequestInternalWithdrawalTask, RequestInternalWithdrawalOf

LEMMA ClaimsNextIs ==
  ASSUME WithdrawalsIInv, NEW t \in Terminals, ClaimsNext(t)
  PROVE  /\ Claims(t) /\ run[t].left \in Seq(Roots) /\ run[t].left # <<>>
         /\ \/ UNCHANGED vars /\ Ends(t)
            \/ /\ ClaimInternal(NODE_DELEGATOR, Head(run[t].left))
               /\ \/ Len(run[t].left) = 1 /\ Ends(t)
                  \/ Len(run[t].left) # 1 /\ run' = [run EXCEPT ![t].left = Tail(@)]
<1>1. run[t].task = "claimInternalWithdrawals" /\ run[t] \in Runs /\ t \in Processes
  BY DEF ClaimsNext, At, WithdrawalsIInv, Processes
<1>2. Claims(t)
  BY <1>1, TasksOfRuns DEF Runs, Claims
<1>3. run[t].left \in Seq(Roots) /\ run[t].left # <<>>
  BY <1>1, <1>2 DEF Claims, ClaimRuns, WithdrawalsIInv, ClaimsOK, ClaimedSoFar
<1>. QED
  BY <1>2, <1>3 DEF ClaimsNext, Transacts

LEMMA ClaimTaskKept ==
  ASSUME WithdrawalsIInv, NEW t \in Terminals, ClaimInternalWithdrawalsTask(t)
  PROVE  SystemIInv' /\ Moves /\ RunsMove
<1>1. SystemIInv
  BY DEF WithdrawalsIInv
<1>2. UNCHANGED vars => SystemIInv' /\ Moves
  BY <1>1, NextSystem, NothingMoves DEF vars, ndVars, elVars
<1>3. ASSUME NEW receipt \in receipts, BeginsClaims(t, receipt)
      PROVE  SystemIInv' /\ Moves /\ RunsMove
  BY <1>2, <1>3 DEF BeginsClaims, RunsMove
<1>4. CASE ClaimsNext(t)
  <2>1. run[t].left \in Seq(Roots) /\ run[t].left # <<>>
        /\ (UNCHANGED vars \/ ClaimInternal(NODE_DELEGATOR, Head(run[t].left)))
    BY <1>4, ClaimsNextIs
  <2>2. Head(run[t].left) \in Roots
    BY <2>1
  <2>. QED
    BY <1>1, <1>2, <1>4, <2>1, <2>2, ClaimKept DEF RunsMove
<1>. QED
  BY <1>3, <1>4 DEF ClaimInternalWithdrawalsTask, ClaimInternalWithdrawalsOf

\* All that may happen.
LEMMA WithdrawalStepKept ==
  ASSUME WithdrawalsIInv, WithdrawalTasksNext
  PROVE  SystemIInv' /\ Moves /\ RunsMove /\ Logs
<1>1. SystemIInv /\ ReceiptsOK
  BY DEF WithdrawalsIInv
<1>2. CASE TokensArrive
  <2>1. Next /\ UNCHANGED run
    BY <1>2, TokensArriveIs DEF taskVars
  <2>2. UNCHANGED withdrawals
    BY <1>2 DEF TokensArrive, DepositPrimeTask, DepositPrime, DepositAsset, OnlyOracle, ndVars, elVars
  <2>. QED
    BY <1>1, <2>1, <2>2, NextSystem, NothingMoves DEF RunsMove, WithdrawalTasksNext
<1>3. ASSUME NEW receipt \in receipts, DelayElapsesFor(receipt)
      PROVE  SystemIInv' /\ Moves /\ RunsMove
  BY <1>1, <1>3, DelayMoves DEF DelayElapsesFor, taskVars, Moves, RunsMove
<1>4. ASSUME NEW t \in Terminals, Dies(t)
      PROVE  SystemIInv' /\ Moves /\ RunsMove
  <2>1. /\ UNCHANGED vars /\ UNCHANGED withdrawals
        /\ run' = [run EXCEPT ![t] = NoRun] /\ t \in Processes
    BY <1>4 DEF Dies, Ends, Processes, vars, ndVars, elVars
  <2>. QED
    BY <1>1, <2>1, NextSystem, NothingMoves, NoRunIsDepositRun DEF RunsMove
<1>. QED
  BY <1>2, <1>3, <1>4, DefenderKept, StakersTasksKept, NodeTasksKept, RequestInternalTaskKept,
     ClaimTaskKept DEF WithdrawalTasksNext

-----------------------------------------------------------------------------
(* Claims go on where they were. *)

\* What has been claimed stays claimed.
LEMMA CompletedStay ==
  ASSUME Moves, NEW r \in Roots, Status(r) = "completed"
  PROVE  Status(r)' = "completed"
BY DEF Moves, Queues, Completes, Delays

LEMMA ClaimedStay ==
  ASSUME Moves, NEW receipt \in Seq(Roots), NEW left \in Seq(Roots), ClaimedSoFar(receipt, left)
  PROVE  ClaimedSoFar(receipt, left)'
<1>1. \A i \in 1 .. Len(receipt) - Len(left) : receipt[i] \in Roots
  BY DEF ClaimedSoFar
<1>2. \A i \in 1 .. Len(receipt) - Len(left) : Status(receipt[i])' = "completed"
  BY <1>1, CompletedStay DEF ClaimedSoFar
<1>. QED
  BY <1>2 DEF ClaimedSoFar

\* One more is claimed.
LEMMA ClaimedOneMore ==
  ASSUME NEW receipt \in Seq(Roots), NEW left \in Seq(Roots), ClaimedSoFar(receipt, left)',
         Status(Head(left))' = "completed"
  PROVE  /\ Len(left) # 1 => ClaimedSoFar(receipt, Tail(left))'
         /\ Len(left) = 1 => \A r \in ToSet(receipt) : Status(r)' = "completed"
<1>. DEFINE n == Len(receipt)
            k == Len(left)
<1>1. /\ n \in Nat /\ k \in Nat /\ k >= 1 /\ k <= n /\ left # <<>>
      /\ \A i \in 1 .. k : left[i] = receipt[n - k + i]
      /\ \A i \in 1 .. n - k : Status(receipt[i])' = "completed"
  BY DEF ClaimedSoFar
<1>2. receipt[n - k + 1] = Head(left)
  BY <1>1
<1>3. \A i \in 1 .. n - k + 1 : Status(receipt[i])' = "completed"
  BY <1>1, <1>2
<1>4. ASSUME k # 1
      PROVE  ClaimedSoFar(receipt, Tail(left))'
  <2>1. /\ Tail(left) \in Seq(Roots) /\ Len(Tail(left)) = k - 1 /\ Tail(left) # <<>>
        /\ \A i \in 1 .. k - 1 : Tail(left)[i] = left[i + 1]
    <3>1. left # <<>> /\ left \in Seq(Roots)
      BY <1>1
    <3>2. Tail(left) \in Seq(Roots) /\ Len(Tail(left)) = Len(left) - 1
      BY <3>1
    <3>3. Tail(left) # <<>>
      <4>1. PICK rest \in Seq(Roots) : rest = Tail(left) /\ Len(rest) = k - 1
        BY <3>2
      <4>2. Len(rest) # 0
        BY <1>1, <1>4, <4>1
      <4>3. rest # <<>>
        BY <4>2
      <4>. QED
        BY <4>1, <4>3
    <3>4. \A i \in 1 .. k - 1 : Tail(left)[i] = left[i + 1]
      BY <3>1
    <3>. QED
      BY <3>2, <3>3, <3>4
  <2>2. \A i \in 1 .. k - 1 : Tail(left)[i] = receipt[n - (k - 1) + i]
    <3>1. SUFFICES ASSUME NEW i \in 1 .. k - 1 PROVE Tail(left)[i] = receipt[n - (k - 1) + i]
      OBVIOUS
    <3>2. i + 1 \in 1 .. k /\ n - k + (i + 1) = n - (k - 1) + i
      BY <1>1
    <3>. QED
      BY <1>1, <2>1, <3>2
  <2>3. n - (k - 1) = n - k + 1 /\ k - 1 <= n
    BY <1>1
  <2>. QED
    BY <1>3, <2>1, <2>2, <2>3 DEF ClaimedSoFar
<1>5. ASSUME k = 1
      PROVE  \A r \in ToSet(receipt) : Status(r)' = "completed"
  <2>1. n - k + 1 = n
    BY <1>1, <1>5
  <2>2. \A i \in DOMAIN receipt : i \in 1 .. n - k + 1
    BY <2>1
  <2>3. \A i \in DOMAIN receipt : Status(receipt[i])' = "completed"
    BY <1>3, <2>2
  <2>. HIDE DEF n, k
  <2>. QED
    BY <2>3 DEF ToSet
<1>. QED
  BY <1>4, <1>5

LEMMA InitWithdrawals == Init /\ WithdrawalTasksInit => WithdrawalsIInv
<1>. SUFFICES ASSUME Init, WithdrawalTasksInit PROVE WithdrawalsIInv
  OBVIOUS
<1>1. run = [p \in Processes |-> NoRun] /\ receipts = {}
  BY DEF WithdrawalTasksInit, TasksInit
<1>2. run \in [Processes -> Runs]
  BY <1>1, NoRunIsDepositRun DEF Runs
<1>3. ClaimsOK
  BY <1>1, NoRunClaimsNothing DEF ClaimsOK, Claims
<1>4. ReceiptsOK
  BY <1>1 DEF ReceiptsOK
<1>. QED
  BY <1>2, <1>3, <1>4, InitSystem DEF WithdrawalsIInv

\* One run's record is replaced, and no other process's.
LEMMA RunsKept ==
  ASSUME WithdrawalsIInv, Moves, NEW p \in Processes, NEW r \in Runs, run' = [run EXCEPT ![p] = r],
         r \in ClaimRuns => ClaimedSoFar(r.receipt, r.left)'
  PROVE  run' \in [Processes -> Runs] /\ ClaimsOK'
<1>1. run \in [Processes -> Runs] /\ ClaimsOK
  BY DEF WithdrawalsIInv
<1>2. run' \in [Processes -> Runs]
  BY <1>1
<1>3. ASSUME NEW q \in Processes, Claims(q)'
      PROVE  ClaimedSoFar(run[q].receipt, run[q].left)'
  <2>1. CASE q = p
    <3>1. run'[q] = r /\ r \in ClaimRuns
      BY <1>1, <1>3, <2>1 DEF Claims
    <3>2. ClaimedSoFar(r.receipt, r.left)'
      BY <3>1
    <3>. QED
      BY <3>1, <3>2 DEF ClaimedSoFar
  <2>2. CASE q # p
    <3>1. run'[q] = run[q] /\ run[q] \in ClaimRuns
      BY <1>1, <1>3, <2>2 DEF Claims
    <3>2. /\ run[q].receipt \in Seq(Roots) /\ run[q].left \in Seq(Roots)
          /\ ClaimedSoFar(run[q].receipt, run[q].left)
      BY <1>1, <3>1 DEF ClaimRuns, ClaimsOK, Claims
    <3>3. PICK receipt \in Seq(Roots), left \in Seq(Roots) :
            receipt = run[q].receipt /\ left = run[q].left /\ ClaimedSoFar(receipt, left)
      BY <3>2
    <3>4. ClaimedSoFar(receipt, left)'
      BY <3>3, ClaimedStay
    <3>. QED
      BY <3>1, <3>3, <3>4 DEF ClaimedSoFar
  <2>. QED
    BY <2>1, <2>2
<1>. QED
  BY <1>2, <1>3 DEF ClaimsOK

\* What a claim of a run that goes on leaves it.
LEMMA ClaimsNextKept ==
  ASSUME WithdrawalsIInv, Moves, NEW t \in Terminals, ClaimsNext(t)
  PROVE  /\ run' \in [Processes -> Runs] /\ ClaimsOK'
         /\ run'[t] = NoRun /\ withdrawals' # withdrawals
              => \A r \in ToSet(run[t].receipt) : Status(r)' = "completed"
<1>1. t \in Processes /\ run \in [Processes -> Runs] /\ SystemIInv
  BY DEF Processes, WithdrawalsIInv
<1>2. /\ run[t] \in ClaimRuns
      /\ \/ UNCHANGED vars /\ Ends(t)
         \/ /\ ClaimInternal(NODE_DELEGATOR, Head(run[t].left))
            /\ \/ Len(run[t].left) = 1 /\ Ends(t)
               \/ Len(run[t].left) # 1 /\ run' = [run EXCEPT ![t].left = Tail(@)]
  BY ClaimsNextIs DEF Claims
<1>3. PICK receipt \in Seq(Roots), left \in Seq(Roots) :
        /\ receipt = run[t].receipt /\ left = run[t].left
        /\ left # <<>> /\ ClaimedSoFar(receipt, left)
  <2>1. run[t].receipt \in Seq(Roots) /\ run[t].left \in Seq(Roots)
    BY <1>2 DEF ClaimRuns
  <2>2. ClaimedSoFar(run[t].receipt, run[t].left)
    BY <1>1, <1>2 DEF WithdrawalsIInv, ClaimsOK, Claims
  <2>3. run[t].left # <<>>
    BY <2>2 DEF ClaimedSoFar
  <2>. QED
    BY <2>1, <2>2, <2>3
<1>4. ClaimedSoFar(receipt, left)'
  BY <1>3, ClaimedStay
<1>5. Ends(t) => run' \in [Processes -> Runs] /\ ClaimsOK'
  <2>1. NoRun \in Runs /\ NoRun \notin ClaimRuns
    BY NoRunIsDepositRun, NoRunClaimsNothing DEF Runs
  <2>. QED
    BY <1>1, <2>1, RunsKept DEF Ends
<1>6. CASE UNCHANGED vars /\ Ends(t)
  <2>1. UNCHANGED withdrawals
    BY <1>6 DEF vars, ndVars, elVars
  <2>. QED
    BY <1>5, <1>6, <2>1
<1>7. ASSUME ClaimInternal(NODE_DELEGATOR, Head(run[t].left))
      PROVE  Status(Head(left))' = "completed"
  <2>1. PICK r \in Roots : r = Head(left)
    BY <1>3
  <2>2. Completes(r)
    BY <1>1, <1>3, <1>7, <2>1, ClaimKept
  <2>3. Status(r)' = "completed"
    BY <2>2 DEF Completes
  <2>. QED
    BY <2>1, <2>3
<1>8. CASE ClaimInternal(NODE_DELEGATOR, Head(run[t].left)) /\ Len(run[t].left) = 1 /\ Ends(t)
  <2>1. \A r \in ToSet(receipt) : Status(r)' = "completed"
    BY <1>3, <1>4, <1>7, <1>8, ClaimedOneMore
  <2>. QED
    BY <1>3, <1>5, <1>8, <2>1
<1>9. CASE /\ ClaimInternal(NODE_DELEGATOR, Head(run[t].left))
           /\ Len(run[t].left) # 1 /\ run' = [run EXCEPT ![t].left = Tail(@)]
  <2>. DEFINE next == [run[t] EXCEPT !.left = Tail(left)]
  <2>1. ClaimedSoFar(receipt, Tail(left))'
    BY <1>3, <1>4, <1>7, <1>9, ClaimedOneMore
  <2>2. Tail(left) \in Seq(Roots)
    BY <1>3
  <2>3. next \in ClaimRuns /\ next.receipt = receipt /\ next.left = Tail(left)
    BY <1>2, <1>3, <2>2 DEF ClaimRuns
  <2>4. run' = [run EXCEPT ![t] = next]
    BY <1>3, <1>9
  <2>5. PICK r \in ClaimRuns : r = next
    BY <2>3
  <2>6. ClaimedSoFar(r.receipt, r.left)'
    BY <2>1, <2>3, <2>5
  <2>. HIDE DEF next
  <2>7. run' \in [Processes -> Runs] /\ ClaimsOK'
    BY <1>1, <2>4, <2>5, <2>6, RunsKept DEF Runs
  <2>8. run'[t] # NoRun
    BY <1>1, <2>4, <2>5, NoRunClaimsNothing
  <2>. QED
    BY <2>7, <2>8
<1>. QED
  BY <1>2, <1>6, <1>8, <1>9

\* The steps of the runs, one kind after the other.
LEMMA BeginsKept ==
  ASSUME WithdrawalsIInv, Moves, NEW t \in Terminals, NEW receipt \in receipts,
         BeginsClaims(t, receipt)
  PROVE  run' \in [Processes -> Runs] /\ ClaimsOK'
<1>. DEFINE begun == [task |-> "claimInternalWithdrawals", pc |-> "claim",
                      receipt |-> receipt, left |-> receipt]
<1>1. t \in Processes /\ receipt \in Seq(Roots) /\ receipt # <<>>
  BY HeadOfReceipt DEF Processes, WithdrawalsIInv
<1>2. run' = [run EXCEPT ![t] = begun]
  BY DEF BeginsClaims, GetWithdrawals
<1>3. begun \in ClaimRuns /\ begun.receipt = receipt /\ begun.left = receipt
  BY <1>1 DEF ClaimRuns
<1>4. Len(receipt) \in Nat /\ Len(receipt) - Len(receipt) = 0
  BY <1>1
<1>5. ClaimedSoFar(receipt, receipt)'
  BY <1>1, <1>4 DEF ClaimedSoFar
<1>6. PICK r \in ClaimRuns : r = begun
  BY <1>3
<1>7. ClaimedSoFar(r.receipt, r.left)'
  BY <1>3, <1>5, <1>6
<1>. HIDE DEF begun
<1>. QED
  BY <1>1, <1>2, <1>6, <1>7, RunsKept DEF Runs

LEMMA NextWithdrawals ==
  ASSUME WithdrawalsIInv, [WithdrawalTasksNext]_withdrawalTaskVars
  PROVE  WithdrawalsIInv' /\ Moves /\ RunsMove
<1>1. /\ SystemIInv /\ ReceiptsOK /\ ClaimsOK
      /\ run \in [Processes -> Runs]
  BY DEF WithdrawalsIInv
<1>2. ASSUME Moves, UNCHANGED run
      PROVE  run' \in [Processes -> Runs] /\ ClaimsOK'
  <2>1. SUFFICES ASSUME NEW p \in Processes, Claims(p)
                 PROVE  ClaimedSoFar(run[p].receipt, run[p].left)'
    BY <1>1, <1>2 DEF ClaimsOK, Claims
  <2>2. PICK receipt \in Seq(Roots), left \in Seq(Roots) :
          receipt = run[p].receipt /\ left = run[p].left /\ ClaimedSoFar(receipt, left)
    BY <1>1, <2>1 DEF ClaimsOK, Claims, ClaimRuns
  <2>3. ClaimedSoFar(receipt, left)'
    BY <1>2, <2>2, ClaimedStay
  <2>. QED
    BY <1>2, <2>2, <2>3 DEF ClaimedSoFar
<1>3. CASE WithdrawalTasksNext
  <2>1. SystemIInv' /\ Moves /\ RunsMove /\ ReceiptsOK'
    BY <1>1, <1>3, WithdrawalStepKept, ReceiptsKept
  <2>2. ASSUME NEW p \in Processes, NEW r \in DepositRuns \cup RequestRuns,
               run' = [run EXCEPT ![p] = r]
        PROVE  run' \in [Processes -> Runs] /\ ClaimsOK'
    <3>1. r \in Runs /\ r \notin ClaimRuns
      BY TasksOfRuns DEF Runs
    <3>. QED
      BY <2>1, <2>2, <3>1, RunsKept
  <2>3. run' \in [Processes -> Runs] /\ ClaimsOK'
    BY <1>2, <2>1, <2>2, BeginsKept, ClaimsNextKept DEF RunsMove, WithdrawalsIInv
  <2>. QED
    BY <2>1, <2>3 DEF WithdrawalsIInv
<1>4. CASE UNCHANGED withdrawalTaskVars
  <2>1. UNCHANGED vars /\ UNCHANGED <<run, receipts, withdrawals>>
    BY <1>4 DEF withdrawalTaskVars, depositTaskVars, taskVars, vars, ndVars, elVars
  <2>2. SystemIInv' /\ Moves
    BY <1>1, <2>1, NextSystem, NothingMoves
  <2>3. \A r \in Roots : Status(r)' = Status(r)
    BY <2>1 DEF Status
  <2>4. ReceiptsOK'
    <3>1. \A c \in receipts : \A i \in DOMAIN c : Status(c[i])' = Status(c[i])
      BY <1>1, <2>3 DEF ReceiptsOK
    <3>. QED
      BY <1>1, <2>1, <3>1 DEF ReceiptsOK
  <2>. QED
    BY <1>2, <2>1, <2>2, <2>4 DEF WithdrawalsIInv, RunsMove
<1>. QED
  BY <1>3, <1>4

-----------------------------------------------------------------------------
(* Theorems about the withdrawal tasks. *)

\* What every reachable state of the withdrawal tasks satisfies.
THEOREM WithdrawalsInductiveInvariant == WithdrawalTasksSpec => []WithdrawalsIInv
BY InitWithdrawals, NextWithdrawals, PTL DEF WithdrawalTasksSpec

\* Whatever the tasks send, with whatever receipts, and while claims run beside
\* each other, the contracts' ledgers stay one: every withdrawal a NodeDelegator
\* asked for is known to EigenLayer and claimed once.
THEOREM RequestsBackedBesideTasks == WithdrawalTasksSpec => []RequestsBacked
<1>1. WithdrawalsIInv => RequestsBacked
  BY DEF WithdrawalsIInv, SystemIInv, PoolIInv, IInv
<1>. QED
  BY <1>1, WithdrawalsInductiveInvariant, PTL

\* A step that ends a claiming run with a claim is that run's last claim.
LEMMA LastClaim ==
  ASSUME WithdrawalsIInv, RunsMove, NEW t \in Terminals,
         Claims(t), run'[t] = NoRun, withdrawals' # withdrawals
  PROVE  ClaimsNext(t)
<1>1. t \in Processes /\ run \in [Processes -> Runs] /\ Terminals \subseteq Processes
  BY DEF WithdrawalsIInv, Processes
<1>2. run[t] # NoRun
  BY NoRunClaimsNothing DEF Claims
<1>3. ASSUME NEW p \in Processes, NEW r, run' = [run EXCEPT ![p] = r], p # t
      PROVE  FALSE
  BY <1>1, <1>2, <1>3
<1>4. ASSUME NEW u \in Terminals, NEW receipt \in receipts, BeginsClaims(u, receipt)
      PROVE  FALSE
  BY <1>1, <1>2, <1>3, <1>4 DEF BeginsClaims
<1>5. ASSUME NEW u \in Terminals, ClaimsNext(u), u # t
      PROVE  FALSE
  <2>1. Ends(u) \/ run' = [run EXCEPT ![u].left = Tail(@)]
    BY <1>5, ClaimsNextIs
  <2>. QED
    BY <1>1, <1>2, <1>5, <2>1 DEF Ends
<1>. QED
  BY <1>1, <1>2, <1>3, <1>4, <1>5 DEF RunsMove

\* claimInternalWithdrawals gets through the receipt it was given: when the claim
\* of its last withdrawal is mined, all of them have been completed, by this run,
\* by another one beside it or by claimInternalWithdrawal, of receipts of any length.
THEOREM ClaimsAllOfTheReceipt == WithdrawalTasksSpec => ClaimedWhenDone
<1>1. ASSUME WithdrawalsIInv, [WithdrawalTasksNext]_withdrawalTaskVars, NEW t \in Terminals,
             At(t, "claimInternalWithdrawals", "claim"), run'[t] = NoRun,
             withdrawals' # withdrawals
      PROVE  \A r \in ToSet(run[t].receipt) : ~Pending(r)'
  <2>1. Moves /\ RunsMove
    BY <1>1, NextWithdrawals
  <2>2. Claims(t)
    BY <1>1, TasksOfRuns DEF At, WithdrawalsIInv, Runs, Claims, Processes
  <2>3. ClaimsNext(t)
    BY <1>1, <2>1, <2>2, LastClaim
  <2>4. \A r \in ToSet(run[t].receipt) : Status(r)' = "completed"
    BY <1>1, <2>1, <2>3, ClaimsNextKept
  <2>. QED
    BY <2>4 DEF Pending, Status
<1>. DEFINE Done == \A t \in Terminals :
              At(t, "claimInternalWithdrawals", "claim") /\ run'[t] = NoRun
              /\ withdrawals' # withdrawals
                => \A r \in ToSet(run[t].receipt) : ~Pending(r)'
<1>2. WithdrawalsIInv /\ [WithdrawalTasksNext]_withdrawalTaskVars => [Done]_withdrawalTaskVars
  BY <1>1
<1>. HIDE DEF Done
<1>3. WithdrawalTasksSpec => [][Done]_withdrawalTaskVars
  BY <1>2, WithdrawalsInductiveInvariant, PTL DEF WithdrawalTasksSpec
<1>. QED
  BY <1>3 DEF Done, ClaimedWhenDone

-----------------------------------------------------------------------------
(* Whose the withdrawals are, in each step. *)

Internal(r) == withdrawalRequests[r.ndc][r] = NoStaker

SameBut(Q) == \A r \in Roots : r \notin Q => (Internal(r)' <=> Internal(r))

\* One transaction's withdrawals are the operator's all, or one staker's one; and
\* who completes a withdrawal.
Owned ==
  \/ \E Q \in SUBSET Roots :
       Queues(Q) /\ SameBut(Q) /\ \A q, r \in Q : Internal(q)' <=> Internal(r)'
  \/ \E q \in Roots :
       /\ Completes(q) /\ SameBut({q})
       /\ \/ ~Internal(q)
          \/ <<q>> \in receipts
          \/ \E t \in Terminals : ClaimsNext(t) /\ q = Head(run[t].left)
  \/ \E c \in receipts : Delays(c) /\ SameBut({})

LEMMA NothingOwned ==
  ASSUME UNCHANGED <<withdrawals, withdrawalRequests>>
  PROVE  Owned
<1>1. Queues({})
  BY DEF Queues, Status
<1>2. SameBut({})
  BY DEF SameBut, Internal
<1>. QED
  BY <1>1, <1>2 DEF Owned

\* The runs of the deposit tasks leave the records alone, too.
LEMMA DepositsLeaveRecords ==
  ASSUME SystemIInv, NEW p, RunStep(p)
  PROVE  UNCHANGED withdrawalRequests
<1>1. \A n, amounts : NodeReceives(n, amounts) => UNCHANGED withdrawalRequests
  BY DEF NodeReceives, ReceiveTokens, ndVars, ndcVars
<1>2. \A i, assets : TransferAssetsToNodeDelegator(i, assets) => UNCHANGED withdrawalRequests
  BY <1>1 DEF TransferAssetsToNodeDelegator
<1>3. \A i, a, amount : TransferAssetToNodeDelegator(i, a, amount) => UNCHANGED withdrawalRequests
  BY <1>1 DEF TransferAssetToNodeDelegator
<1>4. \A n, a, amount : TransferBack(n, a, amount) => UNCHANGED withdrawalRequests
  BY DEF TransferBack, TransferBackToLRTDepositPool, ndVars, ndcVars
<1>5. \A n, assets : NodeDeposits(n, assets) => UNCHANGED withdrawalRequests
  BY DEF NodeDeposits, DepositAssetsIntoStrategy
<1>6. UNCHANGED vars => UNCHANGED withdrawalRequests
  BY DEF vars, ndVars, ndcVars
<1>7. DepositAssetEL(p) => UNCHANGED withdrawalRequests
  BY <1>3, <1>5, <1>6
     DEF DepositAssetEL, ReadsBalance, TransfersAsset, DepositsInto, Transacts
<1>8. DepositAllEL(p) => UNCHANGED withdrawalRequests
  BY <1>2, <1>5, <1>6
     DEF DepositAllEL, ReadsNextBalance, TransfersAssets, DepositsInto, Transacts
<1>9. TransferToDepositPool(p) => UNCHANGED withdrawalRequests
  BY <1>4, <1>6 DEF TransferToDepositPool, ReadsNode, Transacts
<1>. QED
  BY <1>7, <1>8, <1>9 DEF RunStep

LEMMA StakersOwn ==
  ASSUME WithdrawalsIInv, RequestWithdrawalTask \/ ClaimWithdrawalTask
  PROVE  Owned
<1>1. /\ SystemIInv /\ IInv /\ ReceiptsOK /\ ELTypeOK
      /\ withdrawalRequests \in [NDCs -> [Roots -> Stakers \cup {NoStaker, DEAD_ADDRESS}]]
  BY DEF WithdrawalsIInv, SystemIInv, PoolIInv, IInv, NDCTypeOK
<1>2. CASE RequestWithdrawalTask
  <2>1. PICK s \in Stakers, amount \in Amounts :
          RequestWithdrawal(s, amount, (amount * 11) \div 10)
    BY <1>2 DEF RequestWithdrawalTask, Sends, RequestWithdrawalOf
  <2>2. PICK n \in NDCs, strategy \in Strategies, shares \in Nat :
          QueueWithdrawals(n, strategy, shares)
          /\ withdrawalRequests' = [withdrawalRequests EXCEPT ![n][NextRoot(n, strategy)] = s]
    <3>. DEFINE strategy == assetStrategy[WITHDRAW_ASSET]
                shares   == UnderlyingToShares(strategy, amount)
    <3>1. strategy \in Strategies
      BY <1>1, <2>1, PoolAssumption
         DEF PoolAssumption, RequestWithdrawal, IInv, NDCTypeOK, ConfigTypeOK
    <3>2. shares \in Nat
      BY <1>1, <3>1, SharesType
    <3>3. LstNdc \in NDCs /\ NDCRequestWithdrawal(LstNdc, strategy, shares, s)
      BY <2>1 DEF RequestWithdrawal
    <3>. HIDE DEF strategy, shares
    <3>. QED
      BY <3>1, <3>2, <3>3 DEF NDCRequestWithdrawal
  <2>3. NextRoot(n, strategy) \in Roots /\ Queues({NextRoot(n, strategy)})
    BY <1>1, <2>2, QueueMoves
  <2>4. SameBut({NextRoot(n, strategy)})
    BY <1>1, <2>2, <2>3 DEF SameBut, Internal, Roots
  <2>. QED
    BY <2>3, <2>4 DEF Owned
<1>3. CASE ClaimWithdrawalTask
  <2>1. PICK s \in Stakers, receipt \in receipts : Sends(ClaimWithdrawalOf(s, receipt))
    BY <1>3 DEF ClaimWithdrawalTask
  <2>2. PICK r \in Roots : r = GetWithdrawal(receipt)
    BY <1>1, HeadOfReceipt
  <2>3. /\ CompleteQueuedWithdrawal(LstNdc, r) /\ LstNdc \in NDCs
        /\ withdrawalRequests[LstNdc][r] = s
        /\ withdrawalRequests' = [withdrawalRequests EXCEPT ![LstNdc][r] = DEAD_ADDRESS]
    BY <2>1, <2>2
       DEF Sends, ClaimWithdrawalOf, ClaimWithdrawal, ClaimWithdrawalYn, NDCClaimWithdrawal
  <2>4. Completes(r)
    BY <1>1, <2>3, CompleteMoves
  <2>5. r.ndc = LstNdc /\ ~Internal(r)
    BY <2>3 DEF CompleteQueuedWithdrawal, Internal
  <2>6. SameBut({r})
    BY <1>1, <2>3 DEF SameBut, Internal, Roots
  <2>. QED
    BY <2>4, <2>5, <2>6 DEF Owned
<1>. QED
  BY <1>2, <1>3

LEMMA ClaimOwned ==
  ASSUME SystemIInv, NEW r \in Roots, ClaimInternal(NODE_DELEGATOR, r)
  PROVE  Completes(r) /\ SameBut({r})
BY ClaimKept DEF ClaimInternal, ClaimInternalWithdrawal, SameBut, Internal

LEMMA NodesOwn ==
  ASSUME WithdrawalsIInv, SingleClaims, ClaimInternalWithdrawalTask \/ DelegateTask \/ UndelegateTask
  PROVE  Owned
<1>1. SystemIInv /\ IInv /\ ReceiptsOK
  BY DEF WithdrawalsIInv, SystemIInv, PoolIInv
<1>2. CASE ClaimInternalWithdrawalTask
  <2>1. PICK receipt \in receipts : Sends(ClaimInternalWithdrawalOf(receipt))
    BY <1>2 DEF ClaimInternalWithdrawalTask
  <2>2. receipt \in Seq(Roots) /\ receipt # <<>>
    BY <1>1, HeadOfReceipt
  <2>3. PICK r \in Roots : r = GetWithdrawal(receipt)
    BY <1>1, HeadOfReceipt
  <2>4. ClaimInternal(NODE_DELEGATOR, r) /\ UNCHANGED run
    BY <2>1, <2>3 DEF Sends, ClaimInternalWithdrawalOf, taskVars
  <2>5. Completes(r) /\ SameBut({r})
    BY <1>1, <2>4, ClaimOwned
  <2>6. ASSUME Internal(r)
        PROVE  <<r>> \in receipts
    <3>1. Waits(r) /\ ~Pending(r)'
      BY <2>5, <2>6 DEF Waits, Internal, Completes, Pending, Status
    <3>2. r \in ToSet(receipt)
      BY <2>2, <2>3 DEF GetWithdrawal, ToSet
    <3>3. Len(receipt) = 1
      BY <2>4, <3>1, <3>2 DEF SingleClaims
    <3>4. receipt = <<r>>
      BY <2>2, <2>3, <3>3 DEF GetWithdrawal
    <3>. QED
      BY <3>4
  <2>. QED
    BY <2>5, <2>6 DEF Owned
<1>3. CASE DelegateTask
  <2>1. \E n \in NDCs : NDCDelegateTo(n)
    BY <1>3 DEF DelegateTask, DelegateNode, Sends
  <2>2. UNCHANGED <<withdrawals, withdrawalRequests>>
    BY <2>1 DEF NDCDelegateTo, DelegateTo, ndcVars
  <2>. QED
    BY <2>2, NothingOwned
<1>4. CASE UndelegateTask
  <2>1. PICK n \in NDCs : Undelegate(n)
    BY <1>4 DEF UndelegateTask, UndelegateNode, Sends
  <2>2. UndelegateStaker(n) /\ UNCHANGED withdrawalRequests
    BY <2>1 DEF Undelegate
  <2>3. PICK Q \in SUBSET Roots : Queues(Q) /\ \A r \in Q : r.nonce >= nonce[r.ndc][r.strategy]
    BY <1>1, <2>2, UndelegateMoves
  <2>4. \A r \in Q : Internal(r)'
    BY <1>1, <2>2, <2>3 DEF IInv, FreshRoots, Internal, Roots
  <2>5. SameBut(Q)
    BY <2>2 DEF SameBut, Internal
  <2>. QED
    BY <2>3, <2>4, <2>5 DEF Owned
<1>. QED
  BY <1>2, <1>3, <1>4

LEMMA TerminalsOwn ==
  ASSUME WithdrawalsIInv, NEW t \in Terminals,
         RequestInternalWithdrawalTask(t) \/ ClaimInternalWithdrawalsTask(t)
  PROVE  Owned
<1>1. /\ SystemIInv /\ IInv /\ t \in Processes /\ NODE_DELEGATOR \in NDCs
      /\ run \in [Processes -> Runs]
  BY DEF WithdrawalsIInv, SystemIInv, PoolIInv, Processes
<1>2. UNCHANGED vars => Owned
  BY NothingOwned DEF vars, ndVars, elVars, ndcVars
<1>3. ASSUME NEW s \in Strategies, NEW shares \in Nat, RequestsInternally(s, shares)
      PROVE  Owned
  <2>1. QueueWithdrawals(NODE_DELEGATOR, s, shares) /\ UNCHANGED withdrawalRequests
    BY <1>3 DEF RequestsInternally, RequestInternalWithdrawal
  <2>2. NextRoot(NODE_DELEGATOR, s) \in Roots /\ Queues({NextRoot(NODE_DELEGATOR, s)})
    BY <1>1, <2>1, QueueMoves
  <2>3. SameBut({NextRoot(NODE_DELEGATOR, s)})
    BY <2>1 DEF SameBut, Internal
  <2>. QED
    BY <2>2, <2>3 DEF Owned
<1>4. CASE RequestInternalWithdrawalTask(t)
  <2>1. CASE RequestsShares(t)
    <3>1. /\ run[t].task = "requestInternalWithdrawal"
          /\ \/ RequestsInternally(run[t].strategy, run[t].shares)
             \/ UNCHANGED vars
      BY <2>1 DEF RequestsShares, Transacts, At
    <3>2. run[t] \in RequestRuns
      BY <1>1, <3>1, TasksOfRuns DEF Runs
    <3>3. run[t].strategy \in Strategies /\ run[t].shares \in Nat
      BY <3>2 DEF RequestRuns
    <3>. QED
      BY <1>2, <1>3, <3>1, <3>3
  <2>2. ASSUME NEW s \in Strategies, NEW shares \in SharesArgs, shares # AllShares,
               Sends(RequestsInternally(s, shares))
        PROVE  Owned
    BY <1>3, <2>2 DEF Sends
  <2>3. ASSUME NEW s \in Strategies, ReadsShares(t, s)
        PROVE  Owned
    BY <1>2, <2>3 DEF ReadsShares
  <2>. QED
    BY <1>4, <2>1, <2>2, <2>3 DEF RequestInternalWithdrawalTask, RequestInternalWithdrawalOf
<1>5. CASE ClaimInternalWithdrawalsTask(t)
  <2>1. CASE ClaimsNext(t)
    <3>1. run[t].left \in Seq(Roots) /\ run[t].left # <<>>
          /\ (UNCHANGED vars \/ ClaimInternal(NODE_DELEGATOR, Head(run[t].left)))
      BY <2>1, ClaimsNextIs
    <3>2. PICK r \in Roots : r = Head(run[t].left)
      BY <3>1
    <3>3. ClaimInternal(NODE_DELEGATOR, r) => Completes(r) /\ SameBut({r})
      BY <1>1, ClaimOwned
    <3>. QED
      BY <1>2, <2>1, <3>1, <3>2, <3>3 DEF Owned
  <2>2. ASSUME NEW receipt \in receipts, BeginsClaims(t, receipt)
        PROVE  Owned
    BY <1>2, <2>2 DEF BeginsClaims
  <2>. QED
    BY <1>5, <2>1, <2>2 DEF ClaimInternalWithdrawalsTask, ClaimInternalWithdrawalsOf
<1>. QED
  BY <1>4, <1>5

LEMMA StepOwned ==
  ASSUME WithdrawalsIInv, SingleClaims, [WithdrawalTasksNext]_withdrawalTaskVars
  PROVE  Owned
<1>1. SystemIInv /\ ReceiptsOK
  BY DEF WithdrawalsIInv
<1>2. UNCHANGED vars => Owned
  BY NothingOwned DEF vars, ndVars, elVars, ndcVars
<1>3. CASE TokensArrive
  <2>1. UNCHANGED <<withdrawals, withdrawalRequests>>
    BY <1>3 DEF TokensArrive, DepositPrimeTask, DepositPrime, DepositAsset, OnlyOracle, ndVars,
       elVars, ndcVars
  <2>. QED
    BY <2>1, NothingOwned
<1>4. CASE DefenderStep("depositAllEL")
  <2>1. RunStep("depositAllEL") => UNCHANGED <<withdrawals, withdrawalRequests>>
    BY <1>1, DepositsLeaveWithdrawals, DepositsLeaveRecords
  <2>2. RunStep("depositAllEL") \/ UNCHANGED vars
    BY <1>4 DEF DefenderStep, DepositAllELHandler, TransferWETHHandler, Begins
  <2>. QED
    BY <1>2, <2>1, <2>2, NothingOwned
<1>5. ASSUME NEW receipt \in receipts, DelayElapsesFor(receipt)
      PROVE  Owned
  <2>1. Delays(receipt) /\ UNCHANGED withdrawalRequests
    BY <1>1, <1>5, DelayMoves DEF DelayElapsesFor, ndcVars
  <2>2. SameBut({})
    BY <2>1 DEF SameBut, Internal
  <2>. QED
    BY <2>1, <2>2 DEF Owned
<1>6. ASSUME NEW t \in Terminals, Dies(t)
      PROVE  Owned
  BY <1>2, <1>6 DEF Dies
<1>7. CASE UNCHANGED withdrawalTaskVars
  BY <1>2, <1>7 DEF withdrawalTaskVars, depositTaskVars
<1>. QED
  BY <1>3, <1>4, <1>5, <1>6, <1>7, StakersOwn, NodesOwn, TerminalsOwn DEF WithdrawalTasksNext

-----------------------------------------------------------------------------
(* What can still be claimed.  No withdrawal that waits is behind one that has *)
(* been claimed, unless a run is on its way to it.                             *)

Distinct(c) == \A i, j \in DOMAIN c : c[i] = c[j] => i = j

Alike(c) == \A i, j \in DOMAIN c : Waits(c[i]) /\ Pending(c[j]) => Waits(c[j])

\* The place in its receipt of the withdrawal a run claims next.
NextClaim(t) == Len(run[t].receipt) - Len(run[t].left) + 1

AllPending(c, first, last) == first <= last /\ \A j \in first .. last : Pending(c[j])

ClaimsUpTo(t, c, i) == Claims(t) /\ run[t].receipt = c /\ AllPending(c, NextClaim(t), i)

InReach(c, i) == AllPending(c, 1, i) \/ \E t \in Terminals : ClaimsUpTo(t, c, i)

ReachIInv ==
  /\ WithdrawalsIInv
  /\ \A c \in receipts : Distinct(c) /\ Alike(c)
  /\ \A t \in Terminals : Claims(t) => run[t].receipt \in receipts
  /\ \A c \in receipts : \A i \in DOMAIN c : Waits(c[i]) => InReach(c, i)

\* Why a run stops.
Reasons ==
  \A t \in Terminals :
    At(t, "claimInternalWithdrawals", "claim") /\ run'[t] = NoRun /\ UNCHANGED withdrawals
      => LET next == Head(run[t].left) IN
         ~Waits(next) \/ withdrawals[next].status = "queued"

LEMMA ClaimsAre ==
  ASSUME WithdrawalsIInv, NEW t \in Terminals, Claims(t)
  PROVE  /\ run[t].receipt \in Seq(Roots) /\ run[t].left \in Seq(Roots)
         /\ ClaimedSoFar(run[t].receipt, run[t].left)
         /\ At(t, "claimInternalWithdrawals", "claim") /\ t \in Processes
BY DEF WithdrawalsIInv, ClaimsOK, Claims, ClaimRuns, At, Processes

LEMMA NextClaimIs ==
  ASSUME WithdrawalsIInv, NEW t \in Terminals, Claims(t)
  PROVE  /\ NextClaim(t) \in DOMAIN run[t].receipt
         /\ Head(run[t].left) = run[t].receipt[NextClaim(t)]
         /\ \A i \in DOMAIN run[t].receipt : NextClaim(t) <= i
              => i - NextClaim(t) + 1 \in DOMAIN run[t].left
                 /\ run[t].left[i - NextClaim(t) + 1] = run[t].receipt[i]
<1>1. PICK c \in Seq(Roots), left \in Seq(Roots) :
        c = run[t].receipt /\ left = run[t].left /\ ClaimedSoFar(c, left)
  BY ClaimsAre
<1>2. /\ Len(c) \in Nat /\ Len(left) \in Nat /\ Len(left) >= 1 /\ Len(left) <= Len(c)
      /\ \A i \in 1 .. Len(left) : left[i] = c[Len(c) - Len(left) + i]
  <2>1. /\ left # <<>> /\ Len(left) <= Len(c)
        /\ \A i \in 1 .. Len(left) : left[i] = c[Len(c) - Len(left) + i]
    BY <1>1 DEF ClaimedSoFar
  <2>2. Len(left) # 0
    BY <2>1
  <2>. QED
    BY <2>1, <2>2
<1>. DEFINE n == Len(c)
            k == Len(left)
<1>3. NextClaim(t) = n - k + 1
  BY <1>1 DEF NextClaim
<1>4. n - k + 1 \in DOMAIN c /\ Head(left) = left[1] /\ left[1] = c[n - k + 1]
  BY <1>2
<1>5. /\ n \in Nat /\ k \in Nat /\ DOMAIN c = 1 .. n /\ DOMAIN left = 1 .. k
      /\ \A i \in 1 .. k : left[i] = c[n - k + i]
  <2>1. n \in Nat /\ k \in Nat /\ DOMAIN c = 1 .. n /\ DOMAIN left = 1 .. k
    BY <1>1
  <2>. QED
    BY <1>2, <2>1
<1>. HIDE DEF n, k
<1>6. ASSUME NEW i \in DOMAIN c, n - k + 1 <= i
      PROVE  /\ i - (n - k + 1) + 1 \in DOMAIN left
             /\ left[i - (n - k + 1) + 1] = c[i]
  <2>1. i \in 1 .. n
    BY <1>5
  <2>2. i - (n - k + 1) + 1 \in 1 .. k
    BY <1>5, <1>6, <2>1
  <2>3. n - k + (i - (n - k + 1) + 1) = i
    BY <1>5, <2>1
  <2>. QED
    BY <1>5, <2>2, <2>3
<1>. QED
  BY <1>1, <1>3, <1>4, <1>6

\* The run that is on its way has it among what is left.
LEMMA InReachIsReachable == ReachIInv => EveryWithdrawalIsReachable
<1>1. SUFFICES ASSUME ReachIInv, NEW c \in receipts, NEW r \in ToSet(c), Waits(r)
               PROVE  Reachable(r, c)
  BY DEF EveryWithdrawalIsReachable
<1>. DEFINE i == CHOOSE i \in DOMAIN c : c[i] = r
<1>2. i \in DOMAIN c /\ c[i] = r
  BY DEF ToSet
<1>. HIDE DEF i
<1>3. InReach(c, i)
  BY <1>1, <1>2 DEF ReachIInv
<1>4. CASE AllPending(c, 1, i)
  BY <1>4 DEF AllPending, Reachable, i
<1>5. ASSUME NEW t \in Terminals, ClaimsUpTo(t, c, i)
      PROVE  Reachable(r, c)
  <2>1. Claims(t) /\ run[t].receipt = c /\ NextClaim(t) <= i /\ WithdrawalsIInv
    BY <1>1, <1>5 DEF ClaimsUpTo, AllPending, ReachIInv
  <2>2. \E k \in DOMAIN run[t].left : run[t].left[k] = r
    BY <1>2, <2>1, NextClaimIs
  <2>3. r \in ToSet(run[t].left)
    BY <2>2 DEF ToSet
  <2>4. At(t, "claimInternalWithdrawals", "claim")
    BY <2>1, ClaimsAre
  <2>. QED
    BY <2>3, <2>4 DEF Reachable
<1>. QED
  BY <1>3, <1>4, <1>5 DEF InReach

LEMMA NewReceipts ==
  ASSUME Logs, NEW c \in receipts', c \notin receipts
  PROVE  /\ c \in Seq(Roots) /\ Distinct(c)
         /\ \A i \in DOMAIN c : c[i] \in Roots /\ ~Pending(c[i]) /\ Pending(c[i])'
<1>. DEFINE queued == {r \in Roots : ~Pending(r) /\ Pending(r)'}
<1>1. queued # {} /\ c \in SetToSeqs(queued)
  BY DEF Logs
<1>2. queued \in SUBSET Roots
  OBVIOUS
<1>3. c \in Seq(Roots) /\ \A i \in DOMAIN c : c[i] \in queued
  BY <1>1, <1>2, EventsAre
<1>4. c \in [1 .. Cardinality(queued) -> queued]
      /\ \A i, j \in 1 .. Cardinality(queued) : i # j => c[i] # c[j]
  BY <1>1 DEF SetToSeqs
<1>. QED
  BY <1>3, <1>4 DEF Distinct

LEMMA OldReceipts ==
  ASSUME Logs
  PROVE  receipts \subseteq receipts'
BY DEF Logs

\* A step does to a withdrawal that was queued before.
LEMMA OldRoots ==
  ASSUME Owned, NEW r \in Roots, Status(r) # "none"
  PROVE  /\ Pending(r)' => Pending(r) /\ (Waits(r)' <=> Waits(r))
         /\ Waits(r)' => Pending(r)'
<1>1. Pending(r) <=> Status(r) \in {"queued", "completable"}
  BY DEF Pending, Status
<1>2. Pending(r)' <=> Status(r)' \in {"queued", "completable"}
  BY DEF Pending, Status
<1>3. (Waits(r) <=> Pending(r) /\ Internal(r)) /\ (Waits(r)' <=> Pending(r)' /\ Internal(r)')
  BY DEF Waits, Internal
<1>. QED
  BY <1>1, <1>2, <1>3 DEF Owned, Queues, Completes, Delays, SameBut

\* What is new was queued, and belongs to whom the rest of the transaction does.
LEMMA NewAlike ==
  ASSUME Owned, NEW q \in Roots, NEW r \in Roots,
         ~Pending(q), Pending(q)', ~Pending(r), Pending(r)', Waits(q)'
  PROVE  Waits(r)'
<1>1. \A p \in Roots : /\ Pending(p) <=> Status(p) \in {"queued", "completable"}
                       /\ Pending(p)' <=> Status(p)' \in {"queued", "completable"}
                       /\ Waits(p)' <=> Pending(p)' /\ Internal(p)'
  BY DEF Pending, Status, Waits, Internal
<1>. QED
  BY <1>1 DEF Owned, Queues, Completes, Delays

\* What becomes of a run that claims.
LEMMA ClaimingRunMoves ==
  ASSUME WithdrawalsIInv, RunsMove, NEW t \in Terminals, Claims(t)
  PROVE  \/ run'[t] = run[t]
         \/ run'[t] = NoRun /\ UNCHANGED withdrawals
         \/ ClaimsNext(t) /\ ClaimInternal(NODE_DELEGATOR, Head(run[t].left))
<1>1. t \in Processes /\ run \in [Processes -> Runs] /\ Terminals \subseteq Processes
  BY DEF WithdrawalsIInv, Processes
<1>2. run[t] # NoRun
  BY NoRunClaimsNothing DEF Claims
<1>3. ASSUME NEW p \in Processes, NEW r \in Runs, run' = [run EXCEPT ![p] = r]
      PROVE  (p = t => run'[t] = r) /\ (p # t => run'[t] = run[t])
  BY <1>1, <1>3
<1>4. ASSUME NEW u \in Terminals, NEW receipt \in receipts, BeginsClaims(u, receipt)
      PROVE  run'[t] = run[t]
  BY <1>1, <1>2, <1>4 DEF BeginsClaims
<1>5. ASSUME NEW u \in Terminals, ClaimsNext(u)
      PROVE  \/ run'[t] = run[t]
             \/ run'[t] = NoRun /\ UNCHANGED withdrawals
             \/ ClaimsNext(t) /\ ClaimInternal(NODE_DELEGATOR, Head(run[t].left))
  <2>1. CASE u = t
    <3>1. UNCHANGED vars => UNCHANGED withdrawals
      BY DEF vars, ndVars, elVars
    <3>. QED
      BY <1>1, <1>5, <2>1, <3>1, ClaimsNextIs DEF Ends
  <2>2. CASE u # t
    BY <1>1, <1>5, <2>2, ClaimsNextIs DEF Ends
  <2>. QED
    BY <2>1, <2>2
<1>6. ASSUME NEW p \in Processes, NEW r \in DepositRuns \cup RequestRuns,
             run' = [run EXCEPT ![p] = r], Claims(p) => r = NoRun /\ UNCHANGED withdrawals
      PROVE  run'[t] = run[t] \/ (run'[t] = NoRun /\ UNCHANGED withdrawals)
  <2>1. r \in Runs
    BY DEF Runs
  <2>2. p # t => run'[t] = run[t]
    BY <1>3, <1>6, <2>1
  <2>3. p = t => run'[t] = r
    BY <1>3, <1>6, <2>1
  <2>. QED
    BY <1>6, <2>2, <2>3
<1>. QED
  BY <1>4, <1>5, <1>6 DEF RunsMove

\* A withdrawal of the stretch before i is claimed: by a run, which goes on to i.
LEMMA ReachPastClaim ==
  ASSUME ReachIInv, Moves, Owned, NEW c \in receipts, NEW i \in DOMAIN c, Waits(c[i])',
         NEW m \in DOMAIN c, m <= i, NEW first \in Nat, first <= m, AllPending(c, first, i),
         ~Pending(c[m])'
  PROVE  InReach(c, i)'
<1>1. /\ WithdrawalsIInv /\ ReceiptsOK /\ Distinct(c) /\ Alike(c)
      /\ run \in [Processes -> Runs]
      /\ c \in Seq(Roots) /\ c[m] \in Roots /\ c[i] \in Roots
      /\ \A j \in DOMAIN c : Status(c[j]) # "none"
  BY DEF ReachIInv, WithdrawalsIInv, ReceiptsOK
<1>2. Pending(c[m])
  BY <1>1 DEF AllPending
<1>3. Pending(c[i])' /\ m # i
  BY DEF Waits
<1>4. Waits(c[m])
  BY <1>1, <1>2, <1>3, OldRoots DEF Alike
<1>5. Internal(c[m])
  BY <1>4 DEF Waits, Internal
<1>6. Completes(c[m]) /\ (<<c[m]>> \in receipts \/ \E t \in Terminals : ClaimsNext(t) /\ c[m] = Head(run[t].left))
  <2>1. Status(c[m]) \in {"queued", "completable"} /\ Status(c[m])' \notin {"queued", "completable"}
    BY <1>2 DEF Pending, Status
  <2>. QED
    BY <1>1, <1>5, <2>1 DEF Owned, Queues, Completes, Delays
<1>7. <<c[m]>> \notin receipts
  <2>1. SUFFICES ASSUME <<c[m]>> \in receipts PROVE FALSE
    OBVIOUS
  <2>2. PICK d \in receipts : d = <<c[m]>>
    BY <2>1
  <2>3. 1 \in DOMAIN d /\ d[1] = c[m] /\ Len(d) = 1
    BY <2>2
  <2>4. c = d
    BY <1>1, <2>3 DEF ReceiptsOK
  <2>5. i = 1 /\ m = 1
    BY <1>1, <2>3, <2>4
  <2>. QED
    BY <1>3, <2>5
<1>8. PICK t \in Terminals : ClaimsNext(t) /\ c[m] = Head(run[t].left)
  BY <1>6, <1>7
<1>9. Claims(t) /\ t \in Processes /\ run[t].receipt \in receipts
  BY <1>1, <1>8, ClaimsNextIs, ClaimsAre DEF ReachIInv
<1>10. run[t].receipt = c /\ m = NextClaim(t)
  <2>1. NextClaim(t) \in DOMAIN run[t].receipt /\ c[m] = run[t].receipt[NextClaim(t)]
    BY <1>1, <1>8, <1>9, NextClaimIs
  <2>2. run[t].receipt = c
    BY <1>1, <1>9, <2>1 DEF ReceiptsOK
  <2>. QED
    BY <1>1, <2>1, <2>2 DEF Distinct
<1>11. run' = [run EXCEPT ![t].left = Tail(@)] /\ run[t].left \in Seq(Roots) /\ run[t].left # <<>>
  <2>1. ~UNCHANGED vars
    <3>1. Status(c[m])' # Status(c[m])
      BY <1>1, <1>6 DEF Completes
    <3>2. UNCHANGED vars => Status(c[m])' = Status(c[m])
      BY DEF Status, vars, ndVars, elVars
    <3>. QED
      BY <3>1, <3>2
  <2>2. PICK left \in Seq(Roots) : left = run[t].left
    BY <1>1, <1>9, ClaimsAre
  <2>3. m = Len(c) - Len(left) + 1 /\ Len(c) \in Nat /\ Len(left) \in Nat
    BY <1>1, <1>10, <2>2 DEF NextClaim
  <2>4. m \in Nat /\ i \in Nat /\ i <= Len(c) /\ m < i
    BY <1>1, <1>3
  <2>5. Len(run[t].left) # 1
    <3>1. PICK n \in Nat, k \in Nat : n = Len(c) /\ k = Len(left)
      BY <2>3
    <3>2. m \in Nat /\ i \in Nat /\ m = n - k + 1 /\ i <= n /\ m < i
      BY <2>3, <2>4, <3>1
    <3>3. k # 1
      BY <3>2
    <3>. QED
      BY <2>2, <3>1, <3>3
  <2>. QED
    BY <1>1, <1>8, <2>1, <2>5, ClaimsNextIs
<1>12. Claims(t)' /\ run'[t].receipt = c /\ NextClaim(t)' = m + 1
  <2>1. PICK left \in Seq(Roots) : left = run[t].left /\ left # <<>>
    BY <1>11
  <2>2. run'[t] = [run[t] EXCEPT !.left = Tail(left)]
    BY <1>1, <1>9, <1>11, <2>1
  <2>3. Tail(left) \in Seq(Roots) /\ Len(Tail(left)) = Len(left) - 1
    BY <2>1
  <2>4. Claims(t)' /\ run'[t].receipt = c /\ run'[t].left = Tail(left)
    BY <1>9, <1>10, <2>2, <2>3 DEF Claims, ClaimRuns
  <2>5. m = Len(c) - Len(left) + 1 /\ Len(c) \in Nat /\ Len(left) \in Nat
    BY <1>1, <1>10, <2>1 DEF NextClaim
  <2>6. NextClaim(t)' = Len(c) - (Len(left) - 1) + 1
    BY <2>3, <2>4 DEF NextClaim
  <2>. QED
    BY <2>4, <2>5, <2>6
<1>13. AllPending(c, m + 1, i)'
  <2>1. m \in Nat /\ i \in Nat /\ m + 1 <= i /\ DOMAIN c = 1 .. Len(c) /\ Len(c) \in Nat
    BY <1>1, <1>3
  <2>2. \A j \in m + 1 .. i : j \in DOMAIN c /\ j \in first .. i /\ j # m
    BY <2>1
  <2>3. \A j \in m + 1 .. i : Pending(c[j]) /\ c[j] \in Roots /\ c[j] # c[m]
    BY <1>1, <2>2 DEF AllPending, Distinct
  <2>4. \A j \in m + 1 .. i : Pending(c[j])'
    BY <1>6, <2>3 DEF Completes, Pending, Status
  <2>. QED
    BY <2>1, <2>4 DEF AllPending
<1>. QED
  BY <1>12, <1>13 DEF InReach, ClaimsUpTo

\* The run on its way to i stops or goes on, and all it has before it stays pending.
LEMMA ReachFollowsRun ==
  ASSUME ReachIInv, RunsMove, Reasons, NEW c \in receipts, NEW i \in DOMAIN c,
         NEW t \in Terminals, ClaimsUpTo(t, c, i), Waits(c[i]),
         \A j \in NextClaim(t) .. i : Pending(c[j])'
  PROVE  InReach(c, i)'
<1>1. /\ WithdrawalsIInv /\ SystemIInv /\ ReceiptsOK /\ Alike(c) /\ Claims(t) /\ run[t].receipt = c
      /\ c \in Seq(Roots)
  BY DEF ReachIInv, WithdrawalsIInv, ClaimsUpTo, ReceiptsOK
<1>2. PICK first \in DOMAIN c : first = NextClaim(t) /\ Head(run[t].left) = c[first]
  BY <1>1, NextClaimIs
<1>3. first <= i /\ Pending(c[first]) /\ \A j \in first .. i : Pending(c[j])'
  BY <1>1, <1>2 DEF ClaimsUpTo, AllPending
<1>4. Waits(c[first])
  BY <1>1, <1>3 DEF Alike
<1>5. CASE run'[t] = run[t]
  <2>1. Claims(t)' /\ run'[t].receipt = c /\ NextClaim(t)' = first
    BY <1>1, <1>2, <1>5 DEF Claims, NextClaim
  <2>. QED
    BY <1>3, <2>1 DEF InReach, ClaimsUpTo, AllPending
<1>6. CASE run'[t] = NoRun /\ UNCHANGED withdrawals
  <2>1. At(t, "claimInternalWithdrawals", "claim")
    BY <1>1, ClaimsAre
  <2>2. Status(c[first]) = "queued"
    BY <1>2, <1>4, <1>6, <2>1 DEF Reasons, Status
  <2>3. \A j \in DOMAIN c : Pending(c[j])'
    BY <1>1, <1>6, <2>2 DEF ReceiptsOK, Pending, Status
  <2>4. 1 <= i /\ \A j \in 1 .. i : j \in DOMAIN c
    BY <1>1
  <2>. QED
    BY <2>3, <2>4 DEF InReach, AllPending
<1>7. CASE ClaimInternal(NODE_DELEGATOR, Head(run[t].left))
  <2>1. Completes(c[first])
    BY <1>1, <1>2, <1>7, ClaimKept
  <2>2. ~Pending(c[first])'
    BY <1>1, <1>2, <2>1 DEF Completes, Pending, Status
  <2>3. Pending(c[first])'
    BY <1>1, <1>2, <1>3
  <2>. QED
    BY <2>2, <2>3
<1>. QED
  BY <1>1, <1>5, <1>6, <1>7, ClaimingRunMoves

LEMMA ReachKept ==
  ASSUME ReachIInv, Moves, RunsMove, Owned, Reasons, NEW c \in receipts, NEW i \in DOMAIN c, Waits(c[i])'
  PROVE  InReach(c, i)'
<1>1. /\ c \in Seq(Roots) /\ c[i] \in Roots /\ Status(c[i]) # "none"
      /\ i \in Nat /\ 1 <= i
  BY DEF ReachIInv, WithdrawalsIInv, ReceiptsOK
<1>2. Waits(c[i])
  BY <1>1, OldRoots
<1>3. InReach(c, i) /\ WithdrawalsIInv
  BY <1>2 DEF ReachIInv
<1>4. \A first, j : first \in 1 .. i /\ j \in first .. i => j \in DOMAIN c /\ first <= j /\ j <= i
  BY <1>1
<1>5. ASSUME NEW first \in 1 .. i, AllPending(c, first, i), NEW j \in first .. i, ~Pending(c[j])'
      PROVE  InReach(c, i)'
  <2>1. j \in DOMAIN c /\ first <= j /\ j <= i /\ first \in Nat /\ 1 <= first
    BY <1>4, <1>5
  <2>. QED
    BY <1>5, <2>1, ReachPastClaim
<1>6. CASE AllPending(c, 1, i)
  <2>1. 1 \in 1 .. i
    BY <1>1
  <2>2. CASE \A j \in 1 .. i : Pending(c[j])'
    BY <1>1, <2>2 DEF InReach, AllPending
  <2>. QED
    BY <1>5, <1>6, <2>1, <2>2
<1>7. ASSUME NEW t \in Terminals, ClaimsUpTo(t, c, i)
      PROVE  InReach(c, i)'
  <2>1. PICK first \in 1 .. i : first = NextClaim(t) /\ AllPending(c, first, i)
    BY <1>1, <1>3, <1>7, NextClaimIs DEF ClaimsUpTo, AllPending
  <2>2. CASE \A j \in first .. i : Pending(c[j])'
    BY <1>2, <1>7, <2>1, <2>2, ReachFollowsRun
  <2>. QED
    BY <1>5, <2>1, <2>2
<1>. QED
  BY <1>3, <1>6, <1>7 DEF InReach

LEMMA InitReach == Init /\ WithdrawalTasksInit => ReachIInv
<1>. SUFFICES ASSUME Init, WithdrawalTasksInit PROVE ReachIInv
  OBVIOUS
<1>1. run = [p \in Processes |-> NoRun] /\ receipts = {} /\ Terminals \subseteq Processes
  BY DEF WithdrawalTasksInit, TasksInit, Processes
<1>. QED
  BY <1>1, InitWithdrawals, NoRunClaimsNothing DEF ReachIInv, Claims

LEMMA NextReach ==
  ASSUME ReachIInv, WithdrawalTasksNext, SingleClaims, Reasons
  PROVE  ReachIInv'
<1>1. WithdrawalsIInv /\ ReceiptsOK /\ run \in [Processes -> Runs] /\ Terminals \subseteq Processes
  BY DEF ReachIInv, WithdrawalsIInv, Processes
<1>2. WithdrawalsIInv' /\ Moves /\ RunsMove /\ Owned /\ Logs
  BY <1>1, NextWithdrawals, StepOwned DEF WithdrawalTasksNext
<1>3. ASSUME NEW c \in receipts', c \notin receipts
      PROVE  /\ Distinct(c) /\ Alike(c)'
             /\ \A i \in DOMAIN c : Waits(c[i])' => InReach(c, i)'
  <2>1. /\ c \in Seq(Roots) /\ Distinct(c)
        /\ \A i \in DOMAIN c : c[i] \in Roots /\ ~Pending(c[i]) /\ Pending(c[i])'
    BY <1>2, <1>3, NewReceipts
  <2>2. Alike(c)'
    BY <1>2, <2>1, NewAlike DEF Alike
  <2>3. \A i \in DOMAIN c : 1 <= i /\ \A j \in 1 .. i : j \in DOMAIN c
    BY <2>1
  <2>4. \A i \in DOMAIN c : InReach(c, i)'
    BY <2>1, <2>3 DEF InReach, AllPending
  <2>. QED
    BY <2>1, <2>2, <2>4
<1>4. ASSUME NEW c \in receipts
      PROVE  /\ Distinct(c) /\ Alike(c)'
             /\ \A i \in DOMAIN c : Waits(c[i])' => InReach(c, i)'
  <2>1. Distinct(c) /\ Alike(c) /\ \A i \in DOMAIN c : c[i] \in Roots /\ Status(c[i]) # "none"
    BY <1>1 DEF ReachIInv, ReceiptsOK
  <2>2. Alike(c)'
    BY <1>2, <2>1, OldRoots DEF Alike
  <2>. QED
    BY <1>2, <2>1, <2>2, ReachKept
<1>5. \A c \in receipts' : Distinct(c)' /\ Alike(c)'
  BY <1>3, <1>4 DEF Distinct
<1>6. \A c \in receipts' : \A i \in DOMAIN c : Waits(c[i])' => InReach(c, i)'
  BY <1>3, <1>4
<1>7. ASSUME NEW t \in Terminals, Claims(t)'
      PROVE  run'[t].receipt \in receipts'
  <2>1. receipts \subseteq receipts'
    BY <1>2, OldReceipts
  <2>2. CASE run'[t] = run[t]
    BY <1>7, <2>1, <2>2 DEF Claims, ReachIInv
  <2>3. ASSUME NEW p \in Processes, NEW r \in DepositRuns \cup RequestRuns, run' = [run EXCEPT ![p] = r]
        PROVE  run'[t] = run[t]
    <3>1. r \notin ClaimRuns
      BY TasksOfRuns
    <3>. QED
      BY <1>1, <1>7, <2>3, <3>1 DEF Claims
  <2>4. ASSUME NEW u \in Terminals, NEW receipt \in receipts, BeginsClaims(u, receipt)
        PROVE  run'[t] = run[t] \/ run'[t].receipt \in receipts
    BY <1>1, <2>4 DEF BeginsClaims
  <2>5. ASSUME NEW u \in Terminals, ClaimsNext(u)
        PROVE  run'[t] = run[t] \/ run'[t].receipt \in receipts
    <3>1. Claims(u) /\ (Ends(u) \/ run' = [run EXCEPT ![u].left = Tail(@)])
      BY <1>1, <2>5, ClaimsNextIs
    <3>2. CASE u # t
      BY <1>1, <3>1, <3>2 DEF Ends
    <3>3. CASE u = t /\ Ends(u)
      BY <1>1, <1>7, <3>3, NoRunClaimsNothing DEF Ends, Claims
    <3>4. CASE u = t /\ run' = [run EXCEPT ![u].left = Tail(@)]
      <4>1. run[t].receipt \in receipts /\ run[t] \in ClaimRuns
        BY <3>1, <3>4 DEF ReachIInv, Claims
      <4>2. run'[t] = [run[t] EXCEPT !.left = Tail(run[t].left)]
        BY <1>1, <3>4
      <4>3. run'[t].receipt = run[t].receipt
        BY <4>1, <4>2 DEF ClaimRuns
      <4>. QED
        BY <4>1, <4>3
    <3>. QED
      BY <3>1, <3>2, <3>3, <3>4
  <2>. QED
    BY <1>2, <2>1, <2>2, <2>3, <2>4, <2>5 DEF RunsMove
<1>. QED
  BY <1>2, <1>5, <1>6, <1>7 DEF ReachIInv

LEMMA StutterReach ==
  ASSUME ReachIInv, UNCHANGED withdrawalTaskVars
  PROVE  ReachIInv'
<1>1. WithdrawalsIInv /\ WithdrawalsIInv'
  BY NextWithdrawals DEF ReachIInv
<1>2. UNCHANGED <<run, receipts, withdrawals, withdrawalRequests>>
  BY DEF withdrawalTaskVars, depositTaskVars, taskVars, vars, ndVars, elVars, ndcVars
<1>3. \A r : (Pending(r)' <=> Pending(r)) /\ (Waits(r)' <=> Waits(r))
  BY <1>2 DEF Pending, Waits
<1>4. \A t : (Claims(t)' <=> Claims(t)) /\ NextClaim(t)' = NextClaim(t)
  BY <1>2 DEF Claims, NextClaim
<1>5. \A c, i : InReach(c, i) => InReach(c, i)'
  BY <1>2, <1>3, <1>4 DEF InReach, ClaimsUpTo, AllPending
<1>. QED
  BY <1>1, <1>2, <1>3, <1>4, <1>5 DEF ReachIInv, Distinct, Alike

\* Of receipts of any length, and for any number of runs that claim from them,
\* requests, undelegations and stakers' claims beside each other: as long as no
\* run of claimInternalWithdrawals dies or stops at a withdrawal it could claim, and
\* claimInternalWithdrawal is not used for one of several, the tasks can claim every
\* internal withdrawal that waits.
THEOREM WithdrawalsStayReachable ==
  WithdrawalTasksSpec /\ [][SingleClaims]_withdrawalTaskVars /\ ClaimsStopForAReason
    => []EveryWithdrawalIsReachable
<1>1. ReachIInv /\ [WithdrawalTasksNext]_withdrawalTaskVars /\ [SingleClaims]_withdrawalTaskVars
        /\ [Reasons]_withdrawalTaskVars => ReachIInv'
  BY NextReach, StutterReach
<1>2. ClaimsStopForAReason => [][Reasons]_withdrawalTaskVars
  BY DEF ClaimsStopForAReason, Reasons
<1>. QED
  BY <1>1, <1>2, InitReach, InReachIsReachable, PTL DEF WithdrawalTasksSpec
-----------------------------------------------------------------------------
(* Why a run stops: what waits is counted, and is the NodeDelegator's the tasks *)
(* claim from.                                                                 *)

WaitingOurs == \A r \in Roots : Waits(r) => r.ndc = NODE_DELEGATOR

Counts == DepositsInUse /\ PendingMatchesQueue /\ WaitingOurs

CountsIInv == WithdrawalsIInv /\ Counts

CountedVars == <<depositShares, configVars, withdrawals, withdrawalRequests,
                 pendingInternalShareWithdrawals>>

LEMMA NothingCounts ==
  ASSUME Counts, UNCHANGED CountedVars
  PROVE  Counts'
<1>1. UNCHANGED <<depositShares, supportedAssets, assetStrategy, withdrawals, withdrawalRequests,
                  pendingInternalShareWithdrawals>>
  BY DEF CountedVars, configVars
<1>2. DepositsInUse' /\ WaitingOurs'
  BY <1>1 DEF Counts, DepositsInUse, WaitingOurs, Waits, Pending
<1>. QED
  BY <1>1, <1>2, UntouchedPends DEF Counts

LEMMA CallsCountNothing == UNCHANGED vars => UNCHANGED CountedVars
BY DEF CountedVars, vars, ndVars, elVars, ndcVars, configVars

\* Who waits after a withdrawal is queued, and after one is completed.
LEMMA QueuedAreOurs ==
  ASSUME WaitingOurs, ELTypeOK, NEW n \in NDCs, NEW s \in Strategies, NEW shares,
         nonce[n][s] < MaxWithdrawals, QueueWithdrawals(n, s, shares),
         \A r \in Roots : r # NextRoot(n, s) => withdrawalRequests'[r.ndc][r] = withdrawalRequests[r.ndc][r],
         n = NODE_DELEGATOR \/ withdrawalRequests'[n][NextRoot(n, s)] # NoStaker
  PROVE  WaitingOurs'
<1>1. PICK root \in Roots : root = NextRoot(n, s) /\ root.ndc = n
  BY NextRootType
<1>2. \A r \in Roots : r # root => withdrawals'[r] = withdrawals[r]
  BY <1>1 DEF QueueWithdrawals, ELTypeOK
<1>. QED
  BY <1>1, <1>2 DEF WaitingOurs, Waits, Pending

LEMMA CompletedLeavesOurs ==
  ASSUME WaitingOurs, ELTypeOK, NEW n, NEW root \in Roots, CompleteQueuedWithdrawal(n, root),
         \A r \in Roots : r # root => withdrawalRequests'[r.ndc][r] = withdrawalRequests[r.ndc][r]
  PROVE  WaitingOurs'
<1>1. /\ \A r \in Roots : r # root => withdrawals'[r] = withdrawals[r]
      /\ withdrawals'[root] = Completed
  BY DEF CompleteQueuedWithdrawal, ELTypeOK
<1>. QED
  BY <1>1 DEF WaitingOurs, Waits, Pending, Completed

\* The deposit tasks put shares into the strategies in use and queue none.
LEMMA DepositsCount ==
  ASSUME NDCTypeOK, Counts, NEW p, run[p] \in DepositRuns, RunStep(p)
  PROVE  Counts'
<1>. DEFINE Kept == UNCHANGED CountedVars
<1>1. \A n, amounts : NodeReceives(n, amounts) => Kept
  BY DEF NodeReceives, ReceiveTokens, CountedVars, ndVars, elVars, ndcVars, configVars
<1>2. \A i, assets : TransferAssetsToNodeDelegator(i, assets) => Kept
  BY <1>1 DEF TransferAssetsToNodeDelegator
<1>3. \A i, a, amount : TransferAssetToNodeDelegator(i, a, amount) => Kept
  BY <1>1 DEF TransferAssetToNodeDelegator
<1>4. \A n, a, amount : TransferBack(n, a, amount) => Kept
  BY DEF TransferBack, TransferBackToLRTDepositPool, CountedVars, ndVars, elVars, ndcVars, configVars
<1>5. ASSUME NEW n, NodeDeposits(n, run[p].assets)
      PROVE  Counts'
  <2>1. n \in NDCs /\ run[p].assets \in SUBSET Assets /\ DepositAssetsIntoStrategy(n, run[p].assets)
    BY <1>5 DEF NodeDeposits, DepositRuns, RunRecords
  <2>2. UNCHANGED <<withdrawals, withdrawalRequests, pendingInternalShareWithdrawals>>
    BY <2>1 DEF DepositAssetsIntoStrategy, DepositIntoStrategy
  <2>3. DepositsInUse'
    BY <2>1, DepositInUse DEF Counts
  <2>4. WaitingOurs'
    BY <2>2 DEF Counts, WaitingOurs, Waits, Pending
  <2>. QED
    BY <2>2, <2>3, <2>4, UntouchedPends DEF Counts
<1>6. Kept => Counts'
  BY NothingCounts
<1>7. UNCHANGED vars => Kept
  BY CallsCountNothing
<1>. HIDE DEF Kept
<1>8. DepositAssetEL(p) => Counts'
  BY <1>3, <1>5, <1>6, <1>7
     DEF DepositAssetEL, ReadsBalance, TransfersAsset, DepositsInto, Transacts
<1>9. DepositAllEL(p) => Counts'
  BY <1>2, <1>5, <1>6, <1>7
     DEF DepositAllEL, ReadsNextBalance, TransfersAssets, DepositsInto, Transacts
<1>10. TransferToDepositPool(p) => Counts'
  BY <1>4, <1>6, <1>7 DEF TransferToDepositPool, ReadsNode, Transacts
<1>. QED
  BY <1>8, <1>9, <1>10 DEF RunStep

LEMMA DefenderCounts ==
  ASSUME CountsIInv, DefenderStep("depositAllEL")
  PROVE  Counts'
<1>. DEFINE p == "depositAllEL"
<1>1. NDCTypeOK /\ Counts /\ run[p] \in Runs
  BY DEF CountsIInv, WithdrawalsIInv, SystemIInv, PoolIInv, IInv, Processes, DefenderActions
<1>2. CASE RunStep(p)
  <2>1. run[p].task \in {"depositAssetEL", "depositAllEL", "transferToDepositPool"}
    BY <1>2 DEF RunStep, DepositAssetEL, DepositAllEL, TransferToDepositPool, ReadsBalance,
       TransfersAsset, ReadsNextBalance, TransfersAssets, ReadsNode, DepositsInto, At
  <2>2. run[p] \in DepositRuns
    BY <1>1, <2>1, TasksOfRuns DEF Runs
  <2>. QED
    BY <1>1, <1>2, <2>2, DepositsCount
<1>3. CASE ~RunStep(p)
  <2>1. UNCHANGED vars
    BY <1>3 DEF DefenderStep, DepositAllELHandler, TransferWETHHandler, Begins
  <2>. QED
    BY <1>1, <2>1, CallsCountNothing, NothingCounts
<1>. QED
  BY <1>2, <1>3

LEMMA StakersCount ==
  ASSUME CountsIInv, WithdrawalsIInv', RequestWithdrawalTask \/ ClaimWithdrawalTask
  PROVE  Counts'
<1>1. /\ IInv /\ IInv' /\ NDCTypeOK /\ ELTypeOK /\ ELTypeOK' /\ ReceiptsOK /\ Counts
      /\ withdrawalRequests \in [NDCs -> [Roots -> Stakers \cup {NoStaker, DEAD_ADDRESS}]]
  BY DEF CountsIInv, WithdrawalsIInv, SystemIInv, PoolIInv, IInv, NDCTypeOK
<1>2. CASE RequestWithdrawalTask
  <2>1. PICK staker \in Stakers, amount \in Amounts :
          RequestWithdrawal(staker, amount, (amount * 11) \div 10)
    BY <1>2 DEF RequestWithdrawalTask, Sends, RequestWithdrawalOf
  <2>2. PICK s \in Strategies, shares \in Nat :
          LstNdc \in NDCs /\ NDCRequestWithdrawal(LstNdc, s, shares, staker)
    <3>. DEFINE strategy == assetStrategy[WITHDRAW_ASSET]
                shares   == UnderlyingToShares(strategy, amount)
    <3>1. strategy \in Strategies
      BY <1>1, <2>1, PoolAssumption
         DEF PoolAssumption, RequestWithdrawal, IInv, NDCTypeOK, ConfigTypeOK
    <3>2. shares \in Nat
      BY <1>1, <3>1, SharesType
    <3>3. LstNdc \in NDCs /\ NDCRequestWithdrawal(LstNdc, strategy, shares, staker)
      BY <2>1 DEF RequestWithdrawal
    <3>. HIDE DEF strategy, shares
    <3>. QED
      BY <3>1, <3>2, <3>3
  <2>. DEFINE n == LstNdc
              root == NextRoot(n, s)
  <2>3. QueueWithdrawals(n, s, shares) /\ UNCHANGED configVars /\ n \in NDCs
    BY <2>2 DEF NDCRequestWithdrawal
  <2>4. PendingMatchesQueue'
    BY <1>1, <2>2, RequestPends DEF Counts
  <2>5. DepositsInUse'
    BY <1>1, <2>3, QueueingTakesShares, OthersInUse DEF Counts
  <2>6. root \in Roots /\ root.ndc = n
    BY <1>1, <2>3, NextRootType DEF QueueWithdrawals
  <2>7. /\ withdrawalRequests' = [withdrawalRequests EXCEPT ![n][root] = staker]
        /\ nonce[n][s] < MaxWithdrawals
    BY <2>2 DEF NDCRequestWithdrawal, QueueWithdrawals
  <2>. HIDE DEF n, root
  <2>8. /\ \A r \in Roots : r # root => withdrawalRequests'[r.ndc][r] = withdrawalRequests[r.ndc][r]
        /\ withdrawalRequests'[n][root] # NoStaker
    BY <1>1, <2>3, <2>6, <2>7 DEF Roots
  <2>9. WaitingOurs'
    BY <1>1, <2>3, <2>7, <2>8, QueuedAreOurs DEF Counts, root
  <2>. QED
    BY <2>4, <2>5, <2>9 DEF Counts
<1>3. CASE ClaimWithdrawalTask
  <2>1. PICK staker \in Stakers, receipt \in receipts : Sends(ClaimWithdrawalOf(staker, receipt))
    BY <1>3 DEF ClaimWithdrawalTask
  <2>2. PICK r \in Roots : r = GetWithdrawal(receipt)
    BY <1>1, HeadOfReceipt
  <2>3. LstNdc \in NDCs /\ NDCClaimWithdrawal(LstNdc, r, staker)
    BY <2>1, <2>2 DEF Sends, ClaimWithdrawalOf, ClaimWithdrawal, ClaimWithdrawalYn
  <2>4. PendingMatchesQueue'
    BY <1>1, <2>3, ClaimPends DEF Counts
  <2>5. UNCHANGED <<depositShares, configVars>>
    BY <2>3 DEF NDCClaimWithdrawal, CompleteQueuedWithdrawal
  <2>6. DepositsInUse'
    BY <1>1, <2>5 DEF Counts, DepositsInUse, configVars
  <2>7. \A q \in Roots : q # r => withdrawalRequests'[q.ndc][q] = withdrawalRequests[q.ndc][q]
    BY <1>1, <2>3 DEF NDCClaimWithdrawal, Roots
  <2>8. WaitingOurs'
    BY <1>1, <2>3, <2>7, CompletedLeavesOurs DEF NDCClaimWithdrawal, Counts
  <2>. QED
    BY <2>4, <2>6, <2>8 DEF Counts
<1>. QED
  BY <1>2, <1>3

LEMMA InternalClaimCounts ==
  ASSUME IInv, Counts, NEW r \in Roots, ClaimInternal(NODE_DELEGATOR, r)
  PROVE  Counts'
<1>1. ClaimInternalWithdrawal(NODE_DELEGATOR, r) /\ NODE_DELEGATOR \in NDCs /\ ELTypeOK
  BY DEF ClaimInternal, IInv, NDCTypeOK
<1>2. PendingMatchesQueue'
  BY <1>1, ClaimInternalPends DEF Counts
<1>3. UNCHANGED <<depositShares, configVars, withdrawalRequests>>
  BY <1>1 DEF ClaimInternalWithdrawal, CompleteQueuedWithdrawal
<1>4. DepositsInUse'
  BY <1>3 DEF Counts, DepositsInUse, configVars
<1>5. WaitingOurs'
  BY <1>1, <1>3, CompletedLeavesOurs DEF ClaimInternalWithdrawal, Counts
<1>. QED
  BY <1>2, <1>4, <1>5 DEF Counts

LEMMA InternalRequestCounts ==
  ASSUME Unslashed, IInv, IInv', Counts, NEW s \in Strategies, NEW shares \in Nat,
         RequestsInternally(s, shares)
  PROVE  Counts'
<1>1. /\ RequestInternalWithdrawal(NODE_DELEGATOR, s, shares) /\ NODE_DELEGATOR \in NDCs
      /\ QueueWithdrawals(NODE_DELEGATOR, s, shares)
      /\ UNCHANGED <<configVars, withdrawalRequests>>
      /\ ELTypeOK /\ ELTypeOK'
  BY DEF RequestsInternally, RequestInternalWithdrawal, IInv, NDCTypeOK
<1>2. PendingMatchesQueue'
  BY <1>1, RequestInternalPends DEF Counts
<1>3. DepositsInUse'
  BY <1>1, QueueingTakesShares, OthersInUse DEF Counts
<1>4. nonce[NODE_DELEGATOR][s] < MaxWithdrawals
  BY <1>1 DEF QueueWithdrawals
<1>5. WaitingOurs'
  BY <1>1, <1>4, QueuedAreOurs DEF Counts
<1>. QED
  BY <1>2, <1>3, <1>5 DEF Counts

LEMMA NodesCount ==
  ASSUME Unslashed, CountsIInv, WithdrawalsIInv',
         ClaimInternalWithdrawalTask \/ DelegateTask \/ UndelegateTask
  PROVE  Counts'
<1>1. IInv /\ IInv' /\ ELTypeOK /\ ELTypeOK' /\ ReceiptsOK /\ Counts
  BY DEF CountsIInv, WithdrawalsIInv, SystemIInv, PoolIInv, IInv, NDCTypeOK
<1>2. CASE ClaimInternalWithdrawalTask
  <2>1. PICK receipt \in receipts : ClaimInternal(NODE_DELEGATOR, GetWithdrawal(receipt))
    BY <1>2 DEF ClaimInternalWithdrawalTask, Sends, ClaimInternalWithdrawalOf
  <2>2. GetWithdrawal(receipt) \in Roots
    BY <1>1, HeadOfReceipt
  <2>. QED
    BY <1>1, <2>1, <2>2, InternalClaimCounts
<1>3. CASE DelegateTask
  <2>1. \E n \in NDCs : NDCDelegateTo(n)
    BY <1>3 DEF DelegateTask, DelegateNode, Sends
  <2>2. UNCHANGED CountedVars
    BY <2>1 DEF NDCDelegateTo, DelegateTo, ndcVars, CountedVars, configVars
  <2>. QED
    BY <1>1, <2>2, NothingCounts
<1>4. CASE UndelegateTask
  <2>. DEFINE n == NODE_DELEGATOR
  <2>1. n \in NDCs /\ Undelegate(n)
    BY <1>4 DEF UndelegateTask, UndelegateNode, Sends, AddressOf
  <2>2. UndelegateStaker(n) /\ UNCHANGED <<configVars, withdrawalRequests>>
    BY <2>1 DEF Undelegate
  <2>3. PendingMatchesQueue'
    BY <1>1, <2>1, UndelegatePends DEF Counts
  <2>4. DepositsInUse'
    BY <1>1, <2>1, <2>2, QueueingTakesShares, OthersInUse DEF Counts
  <2>5. \A r \in Roots : r.ndc # n => withdrawals'[r] = withdrawals[r]
    BY <2>2 DEF UndelegateStaker
  <2>6. WaitingOurs'
    BY <1>1, <2>2, <2>5 DEF Counts, WaitingOurs, Waits, Pending
  <2>. QED
    BY <2>3, <2>4, <2>6 DEF Counts
<1>. QED
  BY <1>2, <1>3, <1>4

LEMMA TerminalsCount ==
  ASSUME Unslashed, CountsIInv, WithdrawalsIInv', NEW t \in Terminals,
         RequestInternalWithdrawalTask(t) \/ ClaimInternalWithdrawalsTask(t)
  PROVE  Counts'
<1>1. /\ IInv /\ IInv' /\ Counts /\ WithdrawalsIInv
      /\ t \in Processes /\ run \in [Processes -> Runs]
  BY DEF CountsIInv, WithdrawalsIInv, SystemIInv, PoolIInv, Processes
<1>2. UNCHANGED vars => Counts'
  BY <1>1, CallsCountNothing, NothingCounts
<1>3. ASSUME NEW s \in Strategies, NEW shares \in Nat, RequestsInternally(s, shares)
      PROVE  Counts'
  BY <1>1, <1>3, InternalRequestCounts
<1>4. CASE RequestInternalWithdrawalTask(t)
  <2>1. CASE RequestsShares(t)
    <3>1. /\ run[t].task = "requestInternalWithdrawal"
          /\ \/ RequestsInternally(run[t].strategy, run[t].shares)
             \/ UNCHANGED vars
      BY <2>1 DEF RequestsShares, Transacts, At
    <3>2. run[t] \in RequestRuns
      BY <1>1, <3>1, TasksOfRuns DEF Runs
    <3>3. run[t].strategy \in Strategies /\ run[t].shares \in Nat
      BY <3>2 DEF RequestRuns
    <3>. QED
      BY <1>2, <1>3, <3>1, <3>3
  <2>2. ASSUME NEW s \in Strategies, NEW shares \in SharesArgs, shares # AllShares,
               Sends(RequestsInternally(s, shares))
        PROVE  Counts'
    BY <1>3, <2>2 DEF Sends
  <2>3. ASSUME NEW s \in Strategies, ReadsShares(t, s)
        PROVE  Counts'
    BY <1>2, <2>3 DEF ReadsShares
  <2>. QED
    BY <1>4, <2>1, <2>2, <2>3 DEF RequestInternalWithdrawalTask, RequestInternalWithdrawalOf
<1>5. CASE ClaimInternalWithdrawalsTask(t)
  <2>1. CASE ClaimsNext(t)
    <3>1. run[t].left \in Seq(Roots) /\ run[t].left # <<>>
          /\ (UNCHANGED vars \/ ClaimInternal(NODE_DELEGATOR, Head(run[t].left)))
      BY <1>1, <2>1, ClaimsNextIs
    <3>2. PICK r \in Roots : r = Head(run[t].left)
      BY <3>1
    <3>. QED
      BY <1>1, <1>2, <3>1, <3>2, InternalClaimCounts
  <2>2. ASSUME NEW receipt \in receipts, BeginsClaims(t, receipt)
        PROVE  Counts'
    BY <1>2, <2>2 DEF BeginsClaims
  <2>. QED
    BY <1>5, <2>1, <2>2 DEF ClaimInternalWithdrawalsTask, ClaimInternalWithdrawalsOf
<1>. QED
  BY <1>4, <1>5

\* A delay passes for a receipt: the same withdrawals wait, with the same shares.
LEMMA DelayCounts ==
  ASSUME CountsIInv, NEW c \in receipts, DelayElapsesFor(c)
  PROVE  Counts'
<1>1. /\ ELTypeOK /\ SystemIInv /\ ReceiptsOK /\ Counts /\ c \in Seq(Roots)
      /\ UNCHANGED <<depositShares, configVars, withdrawalRequests, pendingInternalShareWithdrawals>>
  BY DEF CountsIInv, WithdrawalsIInv, SystemIInv, PoolIInv, IInv, NDCTypeOK, ReceiptsOK,
     DelayElapsesFor, ndcVars
<1>2. Delays(c)
  BY <1>1, DelayMoves
<1>3. \A r \in Roots : Pending(r)' <=> Pending(r)
  BY <1>2 DEF Delays, Pending, Status
<1>4. \A r \in Roots : withdrawals'[r].scaledShares = withdrawals[r].scaledShares
  <2>1. \A r \in Roots : withdrawals[r] \in Withdrawals
    BY <1>1 DEF ELTypeOK
  <2>2. \A w \in Withdrawals : [w EXCEPT !.status = "completable"].scaledShares = w.scaledShares
    BY DEF Withdrawals
  <2>3. \A r \in Roots : withdrawals'[r] \in {withdrawals[r], [withdrawals[r] EXCEPT !.status = "completable"]}
    BY DEF DelayElapsesFor
  <2>. QED
    BY <2>1, <2>2, <2>3
<1>5. PendingMatchesQueue'
  <2>. SUFFICES ASSUME NEW n \in NDCs, NEW s \in Strategies
                PROVE  Pends(n, s)'
    BY DEF PendingMatchesQueue, Pends
  <2>1. InternalQueue(n, s)' = InternalQueue(n, s) /\ Pends(n, s)
    BY <1>1, <1>3 DEF InternalQueue, Counts, PendingMatchesQueue, Pends
  <2>2. \A r \in InternalQueue(n, s) : ScaledShares'[r] = ScaledShares[r]
    BY <1>4 DEF InternalQueue, ScaledShares
  <2>. QED
    BY <1>1, <2>1, <2>2, QueueStays
<1>6. DepositsInUse' /\ WaitingOurs'
  BY <1>1, <1>3 DEF Counts, DepositsInUse, WaitingOurs, Waits, configVars
<1>. QED
  BY <1>5, <1>6 DEF Counts

LEMMA NextCounts ==
  ASSUME Unslashed, CountsIInv, [WithdrawalTasksNext]_withdrawalTaskVars
  PROVE  CountsIInv'
<1>1. WithdrawalsIInv /\ WithdrawalsIInv' /\ Counts
  BY NextWithdrawals DEF CountsIInv
<1>2. UNCHANGED vars => Counts'
  BY <1>1, CallsCountNothing, NothingCounts
<1>3. CASE TokensArrive
  <2>1. UNCHANGED CountedVars
    BY <1>3 DEF TokensArrive, DepositPrimeTask, DepositPrime, DepositAsset, OnlyOracle, ndVars,
       elVars, ndcVars, configVars, CountedVars
  <2>. QED
    BY <1>1, <2>1, NothingCounts DEF CountsIInv
<1>4. ASSUME NEW t \in Terminals, Dies(t)
      PROVE  Counts'
  BY <1>2, <1>4 DEF Dies
<1>5. CASE UNCHANGED withdrawalTaskVars
  BY <1>1, <1>2, <1>5 DEF withdrawalTaskVars, depositTaskVars, CountsIInv
<1>. QED
  BY <1>1, <1>3, <1>4, <1>5, DefenderCounts, StakersCount, NodesCount, TerminalsCount, DelayCounts
     DEF WithdrawalTasksNext, CountsIInv

LEMMA InitCounts == Init /\ WithdrawalTasksInit => CountsIInv
<1>. SUFFICES ASSUME Init, WithdrawalTasksInit PROVE CountsIInv
  OBVIOUS
<1>1. DepositsInUse /\ PendingMatchesQueue
  BY InitCounted, InitPends DEF Init
<1>2. WaitingOurs
  BY DEF Init, NDCInit, ELInit, WaitingOurs, Waits, Pending, NoWithdrawal
<1>. QED
  BY <1>1, <1>2, InitWithdrawals DEF CountsIInv, Counts

\* Whoever claims what first, what the operator's tasks have requested and
\* undelegated is what the contract has counted, so no claim of theirs reverts on
\* the subtraction.
THEOREM ClaimsAreCounted ==
  ASSUME Unslashed
  PROVE  WithdrawalTasksSpec => [](PendingMatchesQueue /\ InternalClaimsSucceed)
<1>1. CountsIInv => PendingMatchesQueue /\ InternalClaimsSucceed
  BY QueueCoversClaims DEF CountsIInv, Counts, WithdrawalsIInv, SystemIInv, PoolIInv, IInv
<1>. QED
  BY <1>1, InitCounts, NextCounts, PTL DEF WithdrawalTasksSpec

\* All that claimInternalWithdrawal and EigenLayer check.
ClaimPasses(r) ==
  /\ withdrawalRequests[NODE_DELEGATOR][r] = NoStaker
  /\ r.ndc = NODE_DELEGATOR
  /\ withdrawals[r].status = "completable"
  /\ withdrawals[r].scaledShares <= pendingInternalShareWithdrawals[NODE_DELEGATOR][r.strategy]

LEMMA ClaimChecksNothingElse ==
  ASSUME NEW r, ClaimPasses(r),
         withdrawals' = [withdrawals EXCEPT ![r] = Completed],
         pendingInternalShareWithdrawals' = [pendingInternalShareWithdrawals EXCEPT
           ![NODE_DELEGATOR][r.strategy] = @ - withdrawals[r].scaledShares],
         poolBalance' = [poolBalance EXCEPT ![Underlying[r.strategy]] = @ + CompletedUnderlying(r)],
         UNCHANGED <<depositShares, delegated, nonce, rate, configVars, ndcBalance,
                     withdrawalRequests, ndcPaused, wallet, ynLSDe, adminVars, primeVars,
                     oracleVars, nativeVars>>
  PROVE  ClaimInternal(NODE_DELEGATOR, r)
BY DEF ClaimPasses, ClaimInternal, ClaimInternalWithdrawal, CompleteQueuedWithdrawal, ReceiveBack

\* A claiming run ends half way only when its next transaction fails a check: none
\* dies, and none is refused that passes them all.
StopsWhenRefused ==
  \A t \in Terminals :
    At(t, "claimInternalWithdrawals", "claim") /\ run'[t] = NoRun /\ UNCHANGED withdrawals
      => ~ClaimPasses(Head(run[t].left))

\* Then the reasons are the delay, another's claim, and that it is a staker's:
\* neither undelegations nor requests and claims beside it leave a withdrawal that
\* the contract has not counted, or is not the one to claim.
THEOREM RunsStopForAReason ==
  ASSUME Unslashed
  PROVE  WithdrawalTasksSpec /\ [][StopsWhenRefused]_withdrawalTaskVars => ClaimsStopForAReason
<1>1. ASSUME CountsIInv, StopsWhenRefused
      PROVE  Reasons
  <2>. SUFFICES ASSUME NEW t \in Terminals, At(t, "claimInternalWithdrawals", "claim"),
                       run'[t] = NoRun, UNCHANGED withdrawals,
                       Waits(Head(run[t].left)), withdrawals[Head(run[t].left)].status # "queued"
                PROVE  FALSE
    BY DEF Reasons
  <2>1. WithdrawalsIInv /\ Counts /\ NDCTypeOK
    BY <1>1 DEF CountsIInv, WithdrawalsIInv, SystemIInv, PoolIInv, IInv
  <2>2. Claims(t)
    BY <2>1, TasksOfRuns DEF At, WithdrawalsIInv, Processes, Runs, Claims
  <2>3. PICK r \in Roots : r = Head(run[t].left)
    <3>1. run[t].left \in Seq(Roots) /\ run[t].left # <<>>
      BY <2>1, <2>2, ClaimsAre DEF ClaimedSoFar
    <3>. QED
      BY <3>1
  <2>4. r.ndc = NODE_DELEGATOR
    BY <2>1, <2>3 DEF Counts, WaitingOurs
  <2>5. withdrawals[r].scaledShares <= pendingInternalShareWithdrawals[NODE_DELEGATOR][r.strategy]
    BY <2>1, <2>3, <2>4, QueueCoversClaims DEF Counts, InternalClaimsSucceed, Waits
  <2>6. ClaimPasses(r)
    BY <2>3, <2>4, <2>5 DEF ClaimPasses, Waits, Pending
  <2>. QED
    BY <1>1, <2>3, <2>6 DEF StopsWhenRefused
<1>2. UNCHANGED withdrawalTaskVars /\ CountsIInv => Reasons
  <2>. SUFFICES ASSUME UNCHANGED withdrawalTaskVars, CountsIInv, NEW t \in Terminals,
                       At(t, "claimInternalWithdrawals", "claim")
                PROVE  run'[t] # NoRun
    BY DEF Reasons
  <2>1. run'[t] = run[t]
    BY DEF withdrawalTaskVars, depositTaskVars, taskVars
  <2>. QED
    BY <2>1 DEF At, NoRun
<1>3. CountsIInv /\ [StopsWhenRefused]_withdrawalTaskVars => Reasons
  BY <1>1, <1>2
<1>4. [][Reasons]_withdrawalTaskVars => ClaimsStopForAReason
  BY DEF ClaimsStopForAReason, Reasons
<1>. QED
  BY <1>3, <1>4, InitCounts, NextCounts, PTL DEF WithdrawalTasksSpec
=============================================================================
