----------------------------- MODULE EigenLayer -----------------------------
(***************************************************************************)
(* The part of EigenLayer the Prime contracts talk to: StrategyManager     *)
(* (deposits), DelegationManager (delegation and the withdrawal queue) and *)
(* StrategyBase (shares <-> underlying).  Only its interfaces are in the   *)
(* repository (contracts/eigen/interfaces), so it is modelled from them    *)
(* and from how NodeDelegatorLST and LRTDepositPool use it.                *)
(*                                                                         *)
(* Every operator below is one external call, to be conjoined with the     *)
(* rest of the transaction that makes it.  A call that reverts is a        *)
(* transaction that does not happen, so guards are plain conjuncts.        *)
(***************************************************************************)
EXTENDS Integers

CONSTANTS
  NDCs,            \* NodeDelegatorLST contracts: the EigenLayer "stakers"
  Strategies,      \* EigenLayer strategies
  RateUnit,        \* denominator of the exchange rates
  Rates,           \* values a strategy's rate may take
  ScalingFactors,  \* deposit scaling factors; {1} while no operator was slashed
  MaxWithdrawals   \* bound: withdrawals per NDC and strategy

ASSUME EigenLayerAssumption ==
  /\ RateUnit \in Nat \ {0}
  /\ Rates \subseteq Nat \ {0}
  /\ ScalingFactors \subseteq Nat \ {0}
  /\ MaxWithdrawals \in Nat

VARIABLES
  depositShares,   \* [ndc -> [strategy -> shares]]
  delegated,       \* the NDCs delegated to an EigenLayer operator
  nonce,           \* [ndc -> [strategy -> withdrawals queued so far]]
  withdrawals,     \* [root -> withdrawal]
  rate             \* [strategy -> underlying per RateUnit shares]

elVars == <<depositShares, delegated, nonce, withdrawals, rate>>

\* A withdrawal root is the hash of the whole Withdrawal struct.  The nonce in
\* the struct makes it unique; counting per strategy does the same.
Roots == [ndc : NDCs, strategy : Strategies, nonce : 0 .. MaxWithdrawals - 1]

\* "queued" becomes "completable" after the withdrawal delay (50,400 blocks).
Withdrawals == [status : {"none", "queued", "completable", "completed"},
                shares : Nat, scaledShares : Nat]

NoWithdrawal == [status |-> "none", shares |-> 0, scaledShares |-> 0]
Completed    == [status |-> "completed", shares |-> 0, scaledShares |-> 0]

Pending(r) == withdrawals[r].status \in {"queued", "completable"}

ELInit ==
  /\ depositShares = [n \in NDCs |-> [s \in Strategies |-> 0]]
  /\ delegated = {}
  /\ nonce = [n \in NDCs |-> [s \in Strategies |-> 0]]
  /\ withdrawals = [r \in Roots |-> NoWithdrawal]
  /\ rate = [s \in Strategies |-> RateUnit]

ELTypeOK ==
  /\ depositShares \in [NDCs -> [Strategies -> Nat]]
  /\ delegated \in SUBSET NDCs
  /\ nonce \in [NDCs -> [Strategies -> 0 .. MaxWithdrawals]]
  /\ withdrawals \in [Roots -> Withdrawals]
  /\ rate \in [Strategies -> Nat \ {0}]

-----------------------------------------------------------------------------
(* StrategyBase: both conversions round down. *)

SharesToUnderlying(s, shares) == (shares * rate[s]) \div RateUnit
UnderlyingToShares(s, amount) == (amount * RateUnit) \div rate[s]

\* Interest or a rebase of the underlying token: no call of the Prime system.
Rebase(s) ==
  /\ \E r \in Rates : rate' = [rate EXCEPT ![s] = r]
  /\ UNCHANGED <<depositShares, delegated, nonce, withdrawals>>

-----------------------------------------------------------------------------
(* StrategyManager and DelegationManager *)

\* amounts[s] tokens go into each strategy s; a strategy given none is not called.
DepositIntoStrategy(n, amounts) ==
  /\ \A s \in Strategies :             \* "newShares cannot be zero"
       amounts[s] > 0 => UnderlyingToShares(s, amounts[s]) # 0
  /\ depositShares' = [depositShares EXCEPT ![n] =
       [s \in Strategies |-> @[s] + UnderlyingToShares(s, amounts[s])]]
  /\ UNCHANGED <<delegated, nonce, withdrawals, rate>>

\* The root the next withdrawal of n from s gets.
NextRoot(n, s) == [ndc |-> n, strategy |-> s, nonce |-> nonce[n][s]]

QueueWithdrawals(n, s, shares) ==
  /\ shares # 0
  /\ shares <= depositShares[n][s]
  /\ nonce[n][s] < MaxWithdrawals
  /\ depositShares' = [depositShares EXCEPT ![n][s] = @ - shares]
  /\ nonce' = [nonce EXCEPT ![n][s] = @ + 1]
  /\ \E f \in ScalingFactors :
       withdrawals' = [withdrawals EXCEPT ![NextRoot(n, s)] =
         [status |-> "queued", shares |-> shares, scaledShares |-> shares * f]]
  /\ UNCHANGED <<delegated, rate>>

DelegateTo(n) ==
  /\ n \notin delegated
  /\ delegated' = delegated \cup {n}
  /\ UNCHANGED <<depositShares, nonce, withdrawals, rate>>

\* Queues one withdrawal for each strategy the staker has shares in.
UndelegateStaker(n) ==
  LET held == {s \in Strategies : depositShares[n][s] > 0} IN
  /\ n \in delegated
  /\ \A s \in held : nonce[n][s] < MaxWithdrawals
  /\ delegated' = delegated \ {n}
  /\ depositShares' = [depositShares EXCEPT ![n] = [s \in Strategies |-> 0]]
  /\ nonce' = [nonce EXCEPT ![n] =
                 [s \in Strategies |-> IF s \in held THEN @[s] + 1 ELSE @[s]]]
  /\ \E f \in ScalingFactors :
       withdrawals' = [r \in Roots |->
         IF r.ndc = n /\ r.strategy \in held /\ r.nonce = nonce[n][r.strategy]
         THEN [status |-> "queued", shares |-> depositShares[n][r.strategy],
               scaledShares |-> depositShares[n][r.strategy] * f]
         ELSE withdrawals[r]]
  /\ UNCHANGED rate

\* Only the staker itself may complete, once the delay has passed and once only.
CompleteQueuedWithdrawal(caller, r) ==
  /\ r.ndc = caller
  /\ withdrawals[r].status = "completable"
  /\ withdrawals' = [withdrawals EXCEPT ![r] = Completed]
  /\ UNCHANGED <<depositShares, delegated, nonce, rate>>

\* What completing r pays the caller.
CompletedUnderlying(r) == SharesToUnderlying(r.strategy, withdrawals[r].shares)

\* minWithdrawalDelayBlocks pass.
DelayElapses(r) ==
  /\ withdrawals[r].status = "queued"
  /\ withdrawals' = [withdrawals EXCEPT ![r].status = "completable"]
  /\ UNCHANGED <<depositShares, delegated, nonce, rate>>
=============================================================================
