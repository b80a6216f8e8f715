----------------------------- MODULE Redemption -----------------------------
(***************************************************************************)
(* What the protocol promises a holder of primeETH who redeems: primeETH   *)
(* is given up in the very step that opens a ticket, the ticket is its     *)
(* holder's, whoever gets the primeETH later, and it is paid once; while   *)
(* the protocol is frozen nothing is issued, redeemed or paid.             *)
(*                                                                         *)
(* Which contract keeps the tickets, in what shares, and how long EigenLayer *)
(* takes to give them back, is left to LRTDepositPool, which implements    *)
(* this module.                                                            *)
(***************************************************************************)
EXTENDS Integers

CONSTANTS
  Stakers,
  Tickets,
  NoStaker,   \* of a ticket that nobody has opened
  PAID        \* of a ticket that is used up

VARIABLES
  balance,   \* [staker -> primeETH]
  ticket,    \* [ticket -> whose it is]
  frozen

redemptionVars == <<balance, ticket, frozen>>

RedemptionInit ==
  /\ balance = [s \in Stakers |-> 0]
  /\ ticket = [t \in Tickets |-> NoStaker]
  /\ frozen = FALSE

Issue(s, amount) ==
  /\ ~frozen
  /\ amount \in Nat
  /\ balance' = [balance EXCEPT ![s] = @ + amount]
  /\ UNCHANGED <<ticket, frozen>>

Transfer(from, to, amount) ==
  LET taken == [balance EXCEPT ![from] = @ - amount] IN
  /\ amount \in 0 .. balance[from]
  /\ balance' = [taken EXCEPT ![to] = @ + amount]
  /\ UNCHANGED <<ticket, frozen>>

\* No ticket is free of charge.
Redeem(s, amount, t) ==
  /\ ~frozen
  /\ amount \in 1 .. balance[s]
  /\ ticket[t] = NoStaker
  /\ balance' = [balance EXCEPT ![s] = @ - amount]
  /\ ticket' = [ticket EXCEPT ![t] = s]
  /\ UNCHANGED frozen

Pay(s, t) ==
  /\ ~frozen
  /\ ticket[t] = s
  /\ ticket' = [ticket EXCEPT ![t] = PAID]
  /\ UNCHANGED <<balance, frozen>>

Freeze == frozen' = ~frozen /\ UNCHANGED <<balance, ticket>>

\* The amount of a step is what it changed.
RedemptionNext ==
  \/ Freeze
  \/ \E s \in Stakers :
       LET lost == balance[s] - balance'[s] IN
       \/ Issue(s, -lost)
       \/ \E to \in Stakers : Transfer(s, to, lost)
       \/ \E t \in Tickets : Redeem(s, lost, t) \/ Pay(s, t)

RedemptionSpec == RedemptionInit /\ [][RedemptionNext]_redemptionVars
=============================================================================
