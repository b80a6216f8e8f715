------------------------- MODULE MCWithdrawalTasks -------------------------
(* The withdrawal tasks on the instance of the deposit tasks, with two        *)
(* strategies for an undelegation to withdraw from.                           *)
EXTENDS MCDepositTasks, WithdrawalTasks

TerminalSymmetry == Permutations(Terminals)

DeployedSpec ==
  MCTasksInit /\ WithdrawalTasksInit /\ [][WithdrawalTasksNext /\ SingleClaims]_withdrawalTaskVars

\* Nobody runs the deposit tasks by hand.
NoArgs       == {}
MCSharesArgs == {10, AllShares}
=============================================================================
