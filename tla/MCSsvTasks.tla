----------------------------- MODULE MCSsvTasks -----------------------------
(* The SSV tasks on a small instance: a stake is one unit of ether, and a     *)
(* validator only leaves with all of it.                                      *)
EXTENDS KeyShares

CONSTANT MaxEther

MCMaxFunds == [a \in Assets |-> MaxEther]

ResumeConfigs == {c \in TaskConfigs : ~c.clear /\ c.stake}
MCSsvTasks    == Terminals \cup {"registerVal"}

\* The operator names the NodeDelegator that registers.
OwnerGiven == {NODE_DELEGATOR_NATIVE_STAKING}
=============================================================================
