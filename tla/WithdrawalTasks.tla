--------------------------- MODULE WithdrawalTasks ---------------------------
(***************************************************************************)
(* The tasks that withdraw from EigenLayer (script/hardhat-tasks/          *)
(* withdrawals.js and delegation.js, with their subtasks in tasks.js).  A  *)
(* withdrawal is claimed with the struct EigenLayer logged when it was     *)
(* queued, which the tasks read from the receipt of the transaction that   *)
(* queued it (script/utils/withdrawalParser.js).                           *)
(***************************************************************************)
EXTENDS DepositTasks

CONSTANTS
  SharesArgs,   \* the amounts the operator gives requestInternalWithdrawal
  AllShares     \* no amount

\* A transaction logs finitely many events.
ASSUME WithdrawalTasksAssumption ==
  /\ SharesArgs \subseteq Nat \cup {AllShares} /\ AllShares \notin Nat
  /\ IsFiniteSet(NDCs) /\ IsFiniteSet(Strategies)

VARIABLE receipts   \* of each transaction that queued withdrawals, the roots
                    \* its WithdrawalQueued events name, in order

withdrawalTaskVars == <<depositTaskVars, receipts>>

\* A transaction's events.  undelegate logs a withdrawal for each strategy, in an
\* order that is EigenLayer's.
Logs ==
  LET queued == {r \in Roots : ~Pending(r) /\ Pending(r)'} IN
  IF queued = {} THEN UNCHANGED receipts
  ELSE \E events \in SetToSeqs(queued) : receipts' = receipts \cup {events}

\* The first event of the transaction.
GetWithdrawal(receipt) == Head(receipt)

\* Variant: the first event only.
GetFirstWithdrawal(receipt) == <<Head(receipt)>>

\* All events of the transaction.
GetWithdrawals(receipt) == receipt

\* A task of one transaction: when it is refused nothing happens.
Sends(tx) == tx /\ UNCHANGED taskVars

-----------------------------------------------------------------------------
(* Stakers *)

\* At most a tenth more primeETH than the asset's amount.
RequestWithdrawalOf(staker, amount) == RequestWithdrawal(staker, amount, (amount * 11) \div 10)

\* The subtask requestWithdrawal.
RequestWithdrawalTask == \E s \in Stakers, amount \in Amounts : Sends(RequestWithdrawalOf(s, amount))

\* As OETH or as ynLSDe.
ClaimWithdrawalOf(staker, receipt) ==
  \/ ClaimWithdrawal(staker, GetWithdrawal(receipt))
  \/ ClaimWithdrawalYn(staker, GetWithdrawal(receipt))

\* The subtask claimWithdrawal.
ClaimWithdrawalTask == \E s \in Stakers, receipt \in receipts : Sends(ClaimWithdrawalOf(s, receipt))

-----------------------------------------------------------------------------
(* The operator *)

RequestsInternally(s, shares) ==
  RequestInternalWithdrawal(NODE_DELEGATOR, s, shares) /\ OnlyBackend

\* requestInternalWithdrawal without an amount: reads the shares, then asks for
\* as many.
ReadsShares(t, s) ==
  /\ run[t] = NoRun
  /\ run' = [run EXCEPT ![t] = [task |-> "requestInternalWithdrawal", pc |-> "request",
                                strategy |-> s, shares |-> depositShares[NODE_DELEGATOR][s]]]
  /\ UNCHANGED <<vars, deaths>>

RequestsShares(t) ==
  /\ At(t, "requestInternalWithdrawal", "request")
  /\ Transacts(t, RequestsInternally(run[t].strategy, run[t].shares), Ends(t))

\* With an amount it is one transaction.
RequestInternalWithdrawalOf(t, s, shares) ==
  \/ shares = AllShares /\ (ReadsShares(t, s) \/ RequestsShares(t))
  \/ shares # AllShares /\ Sends(RequestsInternally(s, shares))

\* The subtask requestInternalWithdrawal, for any symbol.
RequestInternalWithdrawalTask(t) ==
  \E s \in Strategies, shares \in SharesArgs : RequestInternalWithdrawalOf(t, s, shares)

\* claimInternalWithdrawal
ClaimInternalWithdrawalOf(receipt) == ClaimInternal(NODE_DELEGATOR, GetWithdrawal(receipt))

\* The subtask claimInternalWithdrawal.
ClaimInternalWithdrawalTask == \E receipt \in receipts : Sends(ClaimInternalWithdrawalOf(receipt))

\* claimInternalWithdrawals: one transaction after the other, until all are
\* claimed or one is refused.
BeginsClaims(t, receipt) ==
  /\ run[t] = NoRun
  /\ run' = [run EXCEPT ![t] = [task |-> "claimInternalWithdrawals", pc |-> "claim",
                                receipt |-> receipt, left |-> GetWithdrawals(receipt)]]
  /\ UNCHANGED <<vars, deaths>>

\* Variant: returns from the loop.
ClaimsOne(t) ==
  /\ At(t, "claimInternalWithdrawals", "claim")
  /\ Transacts(t, ClaimInternal(NODE_DELEGATOR, Head(run[t].left)), Ends(t))

ClaimsNext(t) ==
  /\ At(t, "claimInternalWithdrawals", "claim")
  /\ Transacts(t, ClaimInternal(NODE_DELEGATOR, Head(run[t].left)),
               IF Len(run[t].left) = 1 THEN Ends(t)
               ELSE run' = [run EXCEPT ![t].left = Tail(@)])

ClaimInternalWithdrawalsOf(t, receipt) == BeginsClaims(t, receipt) \/ ClaimsNext(t)

\* The subtask claimInternalWithdrawals.
ClaimInternalWithdrawalsTask(t) == \E receipt \in receipts : ClaimInternalWithdrawalsOf(t, receipt)

-----------------------------------------------------------------------------
(* The manager: delegation.js *)

DelegateNode(n)   == n \in NDCs /\ NDCDelegateTo(n) /\ OnlyBackend
UndelegateNode(n) == n \in NDCs /\ Undelegate(n) /\ OnlyBackend

\* The subtasks, given the index of the NodeDelegator of liquid staking tokens.
DelegateTask   == Sends(DelegateNode(AddressOf(0)))
UndelegateTask == Sends(UndelegateNode(AddressOf(0)))

-----------------------------------------------------------------------------

\* minWithdrawalDelayBlocks pass: it is one delay for all strategies, so what one
\* transaction queued may be completed from the same block on.
DelayElapsesFor(receipt) ==
  /\ \E i \in DOMAIN receipt : withdrawals[receipt[i]].status = "queued"
  /\ withdrawals' = [r \in Roots |->
       IF r \in ToSet(receipt) THEN [withdrawals[r] EXCEPT !.status = "completable"]
       ELSE withdrawals[r]]
  /\ UNCHANGED <<depositShares, delegated, nonce, rate, configVars, ndcVars, taskVars>>
  /\ OnlyBackend

WithdrawalTasksInit == TasksInit /\ receipts = {}

WithdrawalTasksNext ==
  /\ \/ TokensArrive
     \/ DefenderStep("depositAllEL")
     \/ RequestWithdrawalTask
     \/ ClaimWithdrawalTask
     \/ ClaimInternalWithdrawalTask
     \/ DelegateTask
     \/ UndelegateTask
     \/ \E t \in Terminals : \/ RequestInternalWithdrawalTask(t)
                             \/ ClaimInternalWithdrawalsTask(t)
     \/ \E receipt \in receipts : DelayElapsesFor(receipt)
     \/ \E t \in Terminals : Dies(t)
  /\ Logs

WithdrawalTasksSpec ==
  Init /\ WithdrawalTasksInit /\ [][WithdrawalTasksNext]_withdrawalTaskVars

-----------------------------------------------------------------------------
(* Properties *)

\* A withdrawal that waits to be claimed internally.
Waits(r) == Pending(r) /\ withdrawalRequests[r.ndc][r] = NoStaker

\* What the operator keeps to: claimInternalWithdrawal, which claims the first
\* withdrawal of its transaction, is for one that queued no other.
SingleClaims ==
  UNCHANGED run =>
    \A receipt \in receipts : \A r \in ToSet(receipt) :
      Waits(r) /\ ~Pending(r)' => Len(receipt) = 1

\* claimInternalWithdrawals gets to r if nothing before it in the receipt has been
\* claimed: a claim that is refused ends the loop.
Reachable(r, receipt) ==
  LET i == CHOOSE i \in DOMAIN receipt : receipt[i] = r IN
  \/ \A j \in 1 .. i : Pending(receipt[j])
  \/ \E t \in Terminals : At(t, "claimInternalWithdrawals", "claim") /\ r \in ToSet(run[t].left)

\* "Prime Operator claims multiple LST withdrawals from the EigenLayer strategy"
\* (tasks.js:122): whatever is run beside it, some run of the tasks can still claim
\* every internal withdrawal that waits, when claimInternalWithdrawal is not used for
\* one of several.
EveryWithdrawalIsReachable ==
  \A receipt \in receipts : \A r \in ToSet(receipt) : Waits(r) => Reachable(r, receipt)

\* A run of claimInternalWithdrawals ends half way only where it has to: the next
\* withdrawal is still in its delay, was claimed meanwhile, or is a staker's.
\* Requests, undelegations and claims beside it never make its claim revert.
ClaimsStopForAReason ==
  [][\A t \in Terminals :
       At(t, "claimInternalWithdrawals", "claim") /\ run'[t] = NoRun /\ UNCHANGED withdrawals
         => LET next == Head(run[t].left) IN
            ~Waits(next) \/ withdrawals[next].status = "queued"]_withdrawalTaskVars

\* A run of claimInternalWithdrawals whose last claim was mined has claimed all
\* that its transaction queued, whoever claimed some of it meanwhile.
ClaimedWhenDone ==
  [][\A t \in Terminals :
       At(t, "claimInternalWithdrawals", "claim") /\ run'[t] = NoRun /\ withdrawals' # withdrawals
         => \A r \in ToSet(run[t].receipt) : ~Pending(r)']_withdrawalTaskVars
=============================================================================
