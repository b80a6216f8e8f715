------------------------- MODULE MCNodeDelegatorLST -------------------------
(* NodeDelegatorLST on a small instance: one asset with two strategies, the  *)
(* one in use and one an admin may change to.                                *)
EXTENDS NodeDelegatorLST

CONSTANTS OldStrategy, NewStrategy, OETH, MaxOETH, MaxWETH

MCUnderlying == [s \in Strategies |-> OETH]

MCTokenSupply == [a \in Assets |-> IF a = WETH THEN MaxWETH ELSE MaxOETH]

\* OETH is deposited into the old strategy from the start.
MCInit ==
  NDCInit /\ supportedAssets = Assets /\ assetStrategy[OETH] = OldStrategy

MCSpec == MCInit /\ [][NDCNext]_ndVars

MCAnyOperator == MCInit /\ [][AnyOperatorNext]_ndVars
=============================================================================
