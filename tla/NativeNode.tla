----------------------------- MODULE NativeNode -----------------------------
(***************************************************************************)
(* What a NodeDelegator of native ether promises the deposit pool: it      *)
(* holds tokens and ether, has some of it staked, and is worth both        *)
(* (getAssetBalance).  How validators are registered, staked, slashed and  *)
(* swept is left to contracts/NodeDelegatorETH.sol: module NodeDelegatorETH *)
(* implements this one.                                                    *)
(***************************************************************************)
EXTENDS Integers

CONSTANTS
  NativeNDCs,          \* NodeDelegatorETH contracts
  Assets, WETH,
  FULL_STAKE,          \* 32 ether
  MIN_SLASHED_AMOUNT   \* 26 ether

VARIABLES
  nativeLiquid,   \* [ndc -> [asset -> tokens it holds, ether counting as WETH]]
  nativeStaked    \* [ndc -> ether it counts as staked]

nodeVars == <<nativeLiquid, nativeStaked>>

NativeInit ==
  /\ nativeLiquid = [n \in NativeNDCs |-> [a \in Assets |-> 0]]
  /\ nativeStaked = [n \in NativeNDCs |-> 0]

NativeTypeOK ==
  /\ nativeLiquid \in [NativeNDCs -> [Assets -> Nat]]
  /\ nativeStaked \in [NativeNDCs -> Nat]

NativeAssetBalance(n, asset) ==
  nativeLiquid[n][asset] + IF asset = WETH THEN nativeStaked[n] ELSE 0

\* Tokens from the pool, or ether from anywhere.
NativeReceives(n, amounts) ==
  /\ nativeLiquid' = [nativeLiquid EXCEPT ![n] = [a \in Assets |-> @[a] + amounts[a]]]
  /\ UNCHANGED nativeStaked

NativeSendsBack(n, asset, amount) ==
  /\ amount <= nativeLiquid[n][asset]
  /\ nativeLiquid' = [nativeLiquid EXCEPT ![n][asset] = @ - amount]
  /\ UNCHANGED nativeStaked

NativeStakes(n, amount) ==
  /\ amount <= nativeLiquid[n][WETH]
  /\ nativeLiquid' = [nativeLiquid EXCEPT ![n][WETH] = @ - amount]
  /\ nativeStaked' = [nativeStaked EXCEPT ![n] = @ + amount]

\* Ether comes back from the pod.  What is no longer counted as staked differs
\* from it by what the last, slashed, validator lost or by rewards too small to
\* be taken for one.
NativeClaims(n, claimed, exited) ==
  /\ exited <= nativeStaked[n]
  /\ claimed - exited \in (MIN_SLASHED_AMOUNT - FULL_STAKE) .. (MIN_SLASHED_AMOUNT - 1)
  /\ nativeLiquid' = [nativeLiquid EXCEPT ![n][WETH] = @ + claimed]
  /\ nativeStaked' = [nativeStaked EXCEPT ![n] = @ - exited]

\* The amounts of a step are what it changed.
NativeNext ==
  \E n \in NativeNDCs :
    LET gained(a) == nativeLiquid'[n][a] - nativeLiquid[n][a]
        staked    == nativeStaked'[n] - nativeStaked[n]
    IN
    \/ /\ \A a \in Assets : gained(a) >= 0
       /\ NativeReceives(n, [a \in Assets |-> gained(a)])
    \/ \E a \in Assets : gained(a) <= 0 /\ NativeSendsBack(n, a, -gained(a))
    \/ staked >= 0 /\ NativeStakes(n, staked)
    \/ gained(WETH) >= 0 /\ staked <= 0 /\ NativeClaims(n, gained(WETH), -staked)

NativeSpec == NativeInit /\ [][NativeNext]_nodeVars
=============================================================================
