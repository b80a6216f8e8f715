---------------------------- MODULE DepositTasks ----------------------------
(***************************************************************************)
(* The tasks that move the pool's assets on (script/hardhat-tasks/         *)
(* deposits.js and its subtasks in tasks.js), run by hand in a terminal or *)
(* by a Defender action (script/defender-actions), over the contracts of   *)
(* LRTDepositPool.                                                         *)
(*                                                                         *)
(* A run is a process: it reads balances with calls of their own and then  *)
(* sends up to two transactions, each of which it waits for, while others  *)
(* do what they like.  It keeps nothing: a run that stops is not resumed.  *)
(***************************************************************************)
EXTENDS LRTDepositPool

CONSTANTS
  NODE_DELEGATOR, NODE_DELEGATOR_NATIVE_STAKING,   \* the scripts' address book
  LSTs,            \* the tokens depositAllEL is given, in order
  MinDeposit,      \* [task -> what a balance must reach to be moved]
  Terminals,       \* people who run tasks by hand
  DepositELArgs,   \* the arguments, [symbol, index], they give depositEL
  WithdrawNodeArgs,\* and withdrawNode
  MaxDeaths        \* bound: runs that die

DefenderActions == {"depositAllEL", "transferWETH"}
Processes == DefenderActions \cup Terminals

ASSUME DepositTasksAssumption ==
  /\ NODE_DELEGATOR \in NDCs
  /\ NODE_DELEGATOR_NATIVE_STAKING \in NativeNDCs
  /\ LSTs \in Seq(Assets \ {WETH})
  /\ MinDeposit \in [DefenderActions \cup {"depositEL"} -> Nat]
  /\ DepositELArgs \subseteq [symbol : Assets \cup {"ALL"}, index : 0 .. 1]
  /\ WithdrawNodeArgs \subseteq [symbol : Assets, index : 0 .. 1]
  /\ MaxDeaths \in Nat

VARIABLES
  run,      \* [process -> where its run is]
  deaths    \* runs that died

taskVars == <<run, deaths>>
depositTaskVars == <<vars, taskVars>>

\* left are the assets to read, assets the ones to move, amount what was read.
NoRun == [task |-> "none", pc |-> "idle", index |-> 0, min |-> 0,
          left |-> <<>>, assets |-> {}, amount |-> 0]

TasksInit ==
  /\ run = [p \in Processes |-> NoRun]
  /\ deaths = 0

\* Variant: the addresses the other way round.
OtherAddress(index) ==
  IF index = 1 THEN NODE_DELEGATOR ELSE NODE_DELEGATOR_NATIVE_STAKING

\* The NodeDelegator a task takes the one with this index to be.
AddressOf(index) ==
  IF index = 1 THEN NODE_DELEGATOR_NATIVE_STAKING ELSE NODE_DELEGATOR

-----------------------------------------------------------------------------
(* Runs *)

At(p, task, pc) == run[p].task = task /\ run[p].pc = pc

Begins(p, task, index, min, assets) ==
  /\ run[p] = NoRun
  /\ run' = [run EXCEPT ![p] = [NoRun EXCEPT !.task = task, !.pc = "read", !.index = index,
                                             !.min = min, !.left = assets]]
  /\ UNCHANGED <<vars, deaths>>

GoesTo(p, pc) == run' = [run EXCEPT ![p].pc = pc]
Ends(p) == run' = [run EXCEPT ![p] = NoRun]

\* logTxDetails waits until the transaction is mined.  One that would revert is
\* refused, one that does revert is found out: an exception ends the run.
Transacts(p, tx, next) ==
  /\ \/ tx /\ next
     \/ ~ENABLED tx /\ UNCHANGED vars /\ Ends(p)
  /\ UNCHANGED deaths

\* The process dies, loses its connection, or reaches Defender's time limit.
Dies(p) ==
  /\ run[p] # NoRun
  /\ deaths < MaxDeaths
  /\ deaths' = deaths + 1
  /\ Ends(p)
  /\ UNCHANGED vars

\* Only a NodeDelegator of liquid staking tokens has depositAsset(s)IntoStrategy.
NodeDeposits(n, assets) ==
  n \in NDCs /\ DepositAssetsIntoStrategy(n, assets) /\ OnlyBackend

-----------------------------------------------------------------------------
(* depositAssetEL: one asset, the amount it read *)

ReadsBalance(p) ==
  LET asset   == Head(run[p].left)
      balance == poolBalance[asset]
  IN
  /\ At(p, "depositAssetEL", "read")
  /\ IF balance >= run[p].min
     THEN run' = [run EXCEPT ![p].pc = "transfer", ![p].amount = balance, ![p].assets = {asset}]
     ELSE Ends(p)
  /\ UNCHANGED <<vars, deaths>>

\* WETH goes no further: the validators' tasks stake it.
TransfersAsset(p) ==
  LET asset == Head(run[p].left) IN
  /\ At(p, "depositAssetEL", "transfer")
  /\ Transacts(p, TransferAssetToNodeDelegator(run[p].index + 1, asset, run[p].amount),
               IF asset = WETH THEN Ends(p) ELSE GoesTo(p, "deposit"))

DepositsInto(p, task) ==
  /\ At(p, task, "deposit")
  /\ Transacts(p, NodeDeposits(AddressOf(run[p].index), run[p].assets), Ends(p))

DepositAssetEL(p) ==
  ReadsBalance(p) \/ TransfersAsset(p) \/ DepositsInto(p, "depositAssetEL")

-----------------------------------------------------------------------------
(* depositAllEL: the assets whose balance, read one after the other, is worth  *)
(* it, all the pool has of each when the transaction is mined                  *)

\* Variant: a balance has to be above the minimum.
ReadsNextAbove(p) ==
  LET asset == Head(run[p].left) IN
  /\ At(p, "depositAllEL", "read") /\ run[p].left # <<>>
  /\ run' = [run EXCEPT ![p].left = Tail(@),
                        ![p].assets = IF poolBalance[asset] > run[p].min THEN @ \cup {asset} ELSE @]
  /\ UNCHANGED <<vars, deaths>>

ReadsNextBalance(p) ==
  LET asset == Head(run[p].left) IN
  /\ At(p, "depositAllEL", "read") /\ run[p].left # <<>>
  /\ run' = [run EXCEPT ![p].left = Tail(@),
                        ![p].assets = IF poolBalance[asset] >= run[p].min THEN @ \cup {asset} ELSE @]
  /\ UNCHANGED <<vars, deaths>>

\* Variant: the second transaction is forgotten.
TransfersOnly(p) ==
  /\ At(p, "depositAllEL", "read") /\ run[p].left = <<>>
  /\ IF run[p].assets = {}
     THEN Ends(p) /\ UNCHANGED <<vars, deaths>>
     ELSE Transacts(p, TransferAssetsToNodeDelegator(run[p].index + 1, run[p].assets), Ends(p))

TransfersAssets(p) ==
  /\ At(p, "depositAllEL", "read") /\ run[p].left = <<>>
  /\ IF run[p].assets = {}
     THEN Ends(p) /\ UNCHANGED <<vars, deaths>>
     ELSE Transacts(p, TransferAssetsToNodeDelegator(run[p].index + 1, run[p].assets),
                    GoesTo(p, "deposit"))

DepositAllEL(p) ==
  ReadsNextBalance(p) \/ TransfersAssets(p) \/ DepositsInto(p, "depositAllEL")

-----------------------------------------------------------------------------
(* transferToDepositPool: all a NodeDelegator holds, ether counting as WETH    *)
(* (read by two calls, which count as one)                                    *)

ReadsNode(p) ==
  LET n == AddressOf(run[p].index)
      asset == Head(run[p].left)
  IN
  /\ At(p, "transferToDepositPool", "read")
  /\ run' = [run EXCEPT ![p].pc = "transfer",
                        ![p].amount = IF n \in NativeNDCs THEN nativeLiquid[n][asset]
                                      ELSE ndcBalance[n][asset]]
  /\ UNCHANGED <<vars, deaths>>

TransferToDepositPool(p) ==
  \/ ReadsNode(p)
  \/ /\ At(p, "transferToDepositPool", "transfer")
     /\ Transacts(p, TransferBack(AddressOf(run[p].index), Head(run[p].left), run[p].amount),
                  Ends(p))

-----------------------------------------------------------------------------
(* Who starts them *)

\* The subtask depositEL.
DepositEL(t, symbol, index) ==
  IF symbol = "ALL" THEN Begins(t, "depositAllEL", index, MinDeposit["depositEL"], LSTs)
  ELSE Begins(t, "depositAssetEL", index, MinDeposit["depositEL"], <<symbol>>)

\* The subtask withdrawNode.
WithdrawNode(t, symbol, index) == Begins(t, "transferToDepositPool", index, 0, <<symbol>>)

\* defender-actions/depositAllEL.js
DepositAllELHandler == Begins("depositAllEL", "depositAllEL", 0, MinDeposit["depositAllEL"], LSTs)

\* defender-actions/transferWETH.js
TransferWETHHandler == Begins("transferWETH", "depositAssetEL", 1, MinDeposit["transferWETH"], <<WETH>>)

\* A staker's deposit, without a slippage limit.
DepositPrime(staker, symbol, amount) == DepositAsset(staker, symbol, amount, 0)

\* The subtask depositPrime, run by any staker.
DepositPrimeTask ==
  \E s \in Stakers, a \in Assets, amount \in Amounts : DepositPrime(s, a, amount)

PauseDelegator(n)   == n \in NDCs /\ NDCPause(n) /\ OnlyBackend
UnpauseDelegator(n) == n \in NDCs /\ NDCUnpause(n) /\ OnlyBackend

\* The subtasks, which take an index.
PauseDelegatorTask(index)   == PauseDelegator(AddressOf(index))
UnpauseDelegatorTask(index) == UnpauseDelegator(AddressOf(index))

-----------------------------------------------------------------------------

RunStep(p) == DepositAssetEL(p) \/ DepositAllEL(p) \/ TransferToDepositPool(p)

DefenderStep(p) ==
  \/ RunStep(p)
  \/ p = "depositAllEL" /\ DepositAllELHandler
  \/ p = "transferWETH" /\ TransferWETHHandler

TerminalStep(t) ==
  \/ RunStep(t)
  \/ \E args \in DepositELArgs : DepositEL(t, args.symbol, args.index)
  \/ \E args \in WithdrawNodeArgs : WithdrawNode(t, args.symbol, args.index)

\* Stakers deposit once the price has been set.
TokensArrive ==
  /\ \/ DepositPrimeTask
     \/ UpdatePrimeETHPrice(TotalAssetDeposits, totalSupply) /\ OnlyOracle
  /\ UNCHANGED taskVars

Pauses == (PauseDelegatorTask(0) \/ UnpauseDelegatorTask(0)) /\ UNCHANGED taskVars

TasksNext ==
  \/ \E p \in DefenderActions : DefenderStep(p)
  \/ \E t \in Terminals : TerminalStep(t)
  \/ \E p \in Processes : Dies(p)
  \/ TokensArrive
  \/ Pauses

TasksSpec == Init /\ TasksInit /\ [][TasksNext]_depositTaskVars

\* Defender starts its actions over and over, and a run goes on until it ends or
\* dies.  Nobody has to deposit, to pause or unpause, or to run a task by hand.
TasksFairness ==
  /\ \A p \in DefenderActions : WF_depositTaskVars(DefenderStep(p))
  /\ \A t \in Terminals : WF_depositTaskVars(RunStep(t))

-----------------------------------------------------------------------------
(* Properties *)

RunTypeOK ==
  /\ TypeOK
  /\ run \in [Processes ->
       [task : {"none", "depositAssetEL", "depositAllEL", "transferToDepositPool"},
        pc : {"idle", "read", "transfer", "deposit"}, index : 0 .. 1, min : Nat,
        left : Seq(Assets), assets : SUBSET Assets, amount : Nat]]
  /\ deaths \in 0 .. MaxDeaths

\* "Deposit an asset to EigenLayer" (tasks.js:196): once a run has transferred
\* assets to a NodeDelegator, its second transaction deposits them, whatever
\* other runs moved in between, unless the NodeDelegator was paused meanwhile.
TransferredCanBeDeposited ==
  \A p \in Processes :
    run[p].pc = "deposit" /\ AddressOf(run[p].index) \notin ndcPaused
      => ENABLED NodeDeposits(AddressOf(run[p].index), run[p].assets)

\* What the pool holds moves on, whatever else moves it or dies: the LSTs it has
\* at least the minimum of are transferred by depositAllEL, the WETH by
\* transferWETH.
PoolIsEmptied ==
  /\ \A a \in ToSet(LSTs) :
       poolBalance[a] >= MinDeposit["depositAllEL"] ~> poolBalance[a] < MinDeposit["depositAllEL"]
  /\ poolBalance[WETH] >= MinDeposit["transferWETH"] ~> poolBalance[WETH] < MinDeposit["transferWETH"]

\* "Deposit an asset to EigenLayer" (tasks.js:196): as long as no run dies and
\* nobody pauses the NodeDelegator, an LST does not stay there, where it earns
\* nothing, whichever of the runs beside each other transferred it.  (A run that
\* dies between its two transactions, or finds the NodeDelegator paused, leaves it
\* there, and the next run looks at the pool only.)
IdleTokensAreDeposited ==
  [](deaths = 0 /\ NODE_DELEGATOR \notin ndcPaused) =>
    \A a \in ToSet(LSTs) :
      ndcBalance[NODE_DELEGATOR][a] > DUST_AMOUNT ~> ndcBalance[NODE_DELEGATOR][a] <= DUST_AMOUNT
=============================================================================
