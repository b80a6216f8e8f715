--------------------------- MODULE PrimeStakedETH ---------------------------
(***************************************************************************)
(* contracts/PrimeStakedETH.sol: the primeETH token.  Only LRTDepositPool  *)
(* holds the minter and burner roles, so mint and burnFrom are operators   *)
(* the pool's transactions conjoin.                                        *)
(***************************************************************************)
EXTENDS Integers, Addresses

VARIABLES
  primeETH,      \* [staker -> balance]
  totalSupply,
  primePaused

primeVars == <<primeETH, totalSupply, primePaused>>

PrimeInit ==
  /\ primeETH = [s \in Stakers |-> 0]
  /\ totalSupply = 0
  /\ primePaused = FALSE

PrimeTypeOK ==
  /\ primeETH \in [Stakers -> Nat]
  /\ totalSupply \in Nat
  /\ primePaused \in BOOLEAN

Mint(to, amount) ==
  /\ ~primePaused
  /\ primeETH' = [primeETH EXCEPT ![to] = @ + amount]
  /\ totalSupply' = totalSupply + amount
  /\ UNCHANGED primePaused

BurnFrom(account, amount) ==
  /\ ~primePaused
  /\ amount <= primeETH[account]
  /\ primeETH' = [primeETH EXCEPT ![account] = @ - amount]
  /\ totalSupply' = totalSupply - amount
  /\ UNCHANGED primePaused

\* OpenZeppelin's ERC20 transfer, which a pause does not stop.
PrimeTransfer(from, to, amount) ==
  LET taken == [primeETH EXCEPT ![from] = @ - amount] IN
  /\ amount <= primeETH[from]
  /\ primeETH' = [taken EXCEPT ![to] = @ + amount]
  /\ UNCHANGED <<totalSupply, primePaused>>

PrimePause ==
  /\ ~primePaused
  /\ primePaused' = TRUE
  /\ UNCHANGED <<primeETH, totalSupply>>

PrimeUnpause ==
  /\ primePaused
  /\ primePaused' = FALSE
  /\ UNCHANGED <<primeETH, totalSupply>>
=============================================================================
