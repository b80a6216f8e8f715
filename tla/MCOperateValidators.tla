------------------------ MODULE MCOperateValidators ------------------------
(* OperateValidators on a small instance: a stake is one unit of ether and    *)
(* no validator earns or exits.                                              *)
EXTENDS OperateValidators, TLC

CONSTANT MaxEther

MCMaxFunds == [a \in Assets |-> MaxEther]

\* What every action and task may be started with, but a task that goes on with
\* the request it finds and does not stake.
RunConfigs    == {HandlerConfig} \cup {c \in TaskConfigs : c.clear \/ c.stake}
ResumeConfigs == {c \in TaskConfigs : ~c.clear /\ c.stake}

Symmetry == Permutations(Validators)
============================================================================
