------------------------------ MODULE KeyShares ------------------------------
(***************************************************************************)
(* Splitting the key of a validator that is registered by hand:            *)
(* splitValidatorKey and getClusterNonce (script/hardhat-tasks/ssv.js),    *)
(* with the subtask of the first (tasks.js), beside the SSV tasks and the  *)
(* operateValidators script, whose validators' keys P2P splits.            *)
(*                                                                         *)
(* The shares of a key are made for an owner and its nonce, the number of  *)
(* validators it has ever registered with the SSV network.  The network    *)
(* registers a validator whatever its shares; the SSV operators only run   *)
(* it when its shares were made for the account that registers it, at the  *)
(* nonce it has then.                                                      *)
(***************************************************************************)
EXTENDS SsvTasks

CONSTANTS
  NODE_DELEGATOR, NODE_DELEGATOR_NATIVE_STAKING,  \* the two NodeDelegators
  NoArgument,     \* an optional parameter that is not given
  OwnerArgs,      \* what splitValidatorKey is given as owner
  NoFile,
  MaxNonce        \* bound: registrations

Owners == {NODE_DELEGATOR, NODE_DELEGATOR_NATIVE_STAKING}

ASSUME KeySharesAssumption ==
  /\ OwnerArgs \subseteq Owners \cup {NoArgument}
  /\ NoArgument \notin Owners
  /\ MaxNonce \in Nat

VARIABLES
  nonce,      \* [owner -> validators it has registered so far]
  keyShares,  \* the file with TestValidator's shares: for which owner and nonce
  splitting,  \* was it made for the registration that comes next?
  operated    \* the validators whose SSV operators can use their shares

keyShareVars == <<nonce, keyShares, splitting, operated>>

KeySharesInit ==
  /\ SsvTasksInit
  /\ nonce = [o \in Owners |-> 0]
  /\ keyShares = NoFile
  /\ splitting = FALSE
  /\ operated = {}

\* Variant: the validators the owner has now.
CountsRegistered(owner) ==
  IF owner = NODE_DELEGATOR_NATIVE_STAKING THEN Cardinality(ssvValidators) ELSE 0

GetClusterNonce(owner) == nonce[owner]

\* The file is named after the public key: it replaces an older one.
SplitValidatorKey(owner) ==
  /\ splitting' = TRUE
  /\ keyShares' = [owner |-> owner, nonce |-> GetClusterNonce(owner)]
  /\ UNCHANGED <<ssvTaskVars, nonce, operated>>

\* The subtask.  It reads an index, which is not one of its parameters.
SplitValidatorKeyTask ==
  \E arg \in OwnerArgs : SplitValidatorKey(IF arg = NoArgument THEN NODE_DELEGATOR ELSE arg)

\* The operator does not register it after all.
GivesUp ==
  /\ splitting
  /\ splitting' = FALSE
  /\ UNCHANGED <<ssvTaskVars, nonce, keyShares, operated>>

NewlyRegistered == ssvValidators' \ ssvValidators

\* NodeDelegatorETH is the owner of what it registers.
Usable(v) ==
  v = TestValidator => keyShares = [owner |-> NODE_DELEGATOR_NATIVE_STAKING,
                                    nonce |-> nonce[NODE_DELEGATOR_NATIVE_STAKING]]

\* The SSV network counts a registration; the operators try its shares.
Registrations ==
  /\ nonce' = [nonce EXCEPT ![NODE_DELEGATOR_NATIVE_STAKING] = @ + Cardinality(NewlyRegistered)]
  /\ nonce'[NODE_DELEGATOR_NATIVE_STAKING] <= MaxNonce
  /\ operated' = (operated \cup {v \in NewlyRegistered : Usable(v)}) \cap ssvValidators'
  /\ splitting' = (splitting /\ NewlyRegistered = {})
  /\ UNCHANGED keyShares

\* One at a time: between the split of a key and the registration it is for
\* nothing else is registered, and each registration has a split of its own.
OneSplitOneRegistration ==
  NewlyRegistered # {} => (NewlyRegistered = {TestValidator} <=> splitting)

KeySharesNext ==
  \/ SplitValidatorKeyTask
  \/ GivesUp
  \/ CoordinatedNext /\ Registrations /\ OneSplitOneRegistration

KeySharesSpec == KeySharesInit /\ [][KeySharesNext]_<<ssvTaskVars, keyShareVars>>

-----------------------------------------------------------------------------
(* Properties *)

\* Every validator that is registered has operators that can attest for it: its
\* shares were split for the owner and the nonce that registered it, whatever the
\* script and the tasks registered and removed before.
RegisteredAreOperated == ssvValidators \subseteq operated
=============================================================================
