----------------------------- MODULE Addresses -----------------------------
(* The accounts the contracts tell apart. *)

CONSTANTS
  Stakers,       \* accounts that hold primeETH
  NoStaker,      \* the zero address, the default of a mapping to addresses
  DEAD_ADDRESS   \* NodeDelegatorLST.DEAD_ADDRESS

ASSUME AddressAssumption ==
  /\ NoStaker \notin Stakers
  /\ DEAD_ADDRESS \notin Stakers
  /\ NoStaker # DEAD_ADDRESS
============================================================================
