------------------------------ MODULE LRTConfig ------------------------------
(***************************************************************************)
(* contracts/LRTConfig.sol: which assets are supported, each one's deposit *)
(* limit and the EigenLayer strategy it is deposited into.  Addresses of   *)
(* contracts, token keys and roles are fixed by the deployment: an action  *)
(* is taken by an account that holds the role its modifier asks for.       *)
(***************************************************************************)
EXTENDS EigenLayer

CONSTANTS
  Assets,      \* token contracts; WETH is one of them
  WETH,
  Underlying,  \* [Strategies -> Assets], StrategyBase.underlyingToken
  NoStrategy,  \* the zero address in assetStrategy
  Limits       \* deposit limits a manager may set

ASSUME ConfigAssumption ==
  /\ WETH \in Assets
  /\ Underlying \in [Strategies -> Assets \ {WETH}]
  /\ NoStrategy \notin Strategies
  /\ Limits \subseteq Nat

VARIABLES
  supportedAssets,
  depositLimitByAsset,
  assetStrategy

configVars == <<supportedAssets, depositLimitByAsset, assetStrategy>>

ConfigTypeOK ==
  /\ supportedAssets \in SUBSET Assets
  /\ depositLimitByAsset \in [Assets -> Nat]
  /\ assetStrategy \in [Assets -> Strategies \cup {NoStrategy}]

AddNewSupportedAsset(asset, limit) ==
  /\ asset \notin supportedAssets
  /\ supportedAssets' = supportedAssets \cup {asset}
  /\ depositLimitByAsset' = [depositLimitByAsset EXCEPT ![asset] = limit]
  /\ UNCHANGED assetStrategy

UpdateAssetDepositLimit(asset, limit) ==
  /\ asset \in supportedAssets
  /\ depositLimitByAsset' = [depositLimitByAsset EXCEPT ![asset] = limit]
  /\ UNCHANGED <<supportedAssets, assetStrategy>>

\* StrategyBase.userUnderlyingView: the deposited shares of n, none of the
\* shares n has queued for withdrawal.
UserUnderlyingView(s, n) == SharesToUnderlying(s, depositShares[n][s])

\* Variant: nobody asks whether the strategy is in use.
UpdateStrategyInUse(asset, strategy, ndcs) ==
  /\ asset \in supportedAssets
  /\ assetStrategy[asset] # strategy
  /\ assetStrategy' = [assetStrategy EXCEPT ![asset] = strategy]
  /\ UNCHANGED <<supportedAssets, depositLimitByAsset>>

\* ndcs is the node delegator queue of the deposit pool.
UpdateAssetStrategy(asset, strategy, ndcs) ==
  /\ asset \in supportedAssets
  /\ assetStrategy[asset] # strategy
  /\ assetStrategy[asset] # NoStrategy =>
       \A n \in ndcs : UserUnderlyingView(assetStrategy[asset], n) = 0
  /\ assetStrategy' = [assetStrategy EXCEPT ![asset] = strategy]
  /\ UNCHANGED <<supportedAssets, depositLimitByAsset>>
=============================================================================
