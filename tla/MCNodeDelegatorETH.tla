------------------------ MODULE MCNodeDelegatorETH ------------------------
(* NodeDelegatorETH on a small instance, 32 and 26 ether scaled to 16 and 13. *)
EXTENDS NodeDelegatorETH, TLC

CONSTANTS LST, MaxEther, MaxLST

MCMaxFunds == [a \in Assets |-> IF a = WETH THEN MaxEther ELSE MaxLST]

\* One validator, two, or one twice.
MCLists == UNION {[1 .. k -> Validators] : k \in 1 .. 2}

Symmetry == Permutations(Validators)
===========================================================================
