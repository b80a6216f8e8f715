-------------------------- MODULE MCLRTDepositPool --------------------------
(* LRTDepositPool on small instances: OETH, and one more LST without a       *)
(* strategy, beside WETH.  Each specification below starts from a deployed   *)
(* system and lets one part of the callers act.                              *)
EXTENDS LRTDepositPool

CONSTANTS
  OETH, LST, OETHStrategy,
  OethWallet, LstWallet    \* tokens of each LST a staker starts with

MCUnderlying == [s \in Strategies |-> OETH]
MCWallets ==
  [s \in Stakers |-> [a \in Assets |->
     CASE a = OETH -> OethWallet [] a = LST -> LstWallet [] OTHER -> 0]]
MCTokenSupply == [a \in Assets |-> 0]

\* A list of one NodeDelegator, two in either order, or one twice.
MCNdcLists == UNION {[1 .. k -> Nodes] : k \in 1 .. 2}

\* Feeds that never fall.
RisingPrices == {m \in Prices \X Prices : m[1] < m[2]}

OneNDC == <<CHOOSE n \in NDCs : TRUE>>

Symmetry == Permutations(Stakers)

MCInit ==
  /\ Init
  /\ assetStrategy = [a \in Assets |-> IF a = OETH THEN OETHStrategy ELSE NoStrategy]
  /\ OETH \in supportedAssets

\* Every asset supported.
Deployed == MCInit /\ supportedAssets = Assets

\* Users, keepers and the oracle, but nobody reconfigures anything.
AccountingNext == StakerNext \/ KeeperNext \/ BackendNext \/ NativeNodeNext \/ OracleNext
AccountingSpec == Deployed /\ [][AccountingNext]_vars

\* A NodeDelegator that has just been made, and holds nothing yet.
Newcomers == NDCs \ ToSet(OneNDC)

\* The EigenLayer operator undelegates when it likes, and a newcomer may take the
\* place of the first NodeDelegator in the queue, and give it back.
AnyOperatorPoolNext ==
  /\ AccountingNext \/ EigenOperatorNext \/ QueueNext
  /\ \A n \in Newcomers : UNCHANGED <<ndcBalance[n], n \in ndcPaused, n \in delegated>>
AnyOperatorPoolSpec == Deployed /\ [][AnyOperatorPoolNext]_vars

\* NodeDelegators come and go.
QueueSpec == Deployed /\ [][AccountingNext \/ QueueNext]_vars

\* Not every asset is supported at first; primeETH changes hands; limits, pauses
\* and strategies change.  Of the limits it is that of OETH which counts: WETH's stays.
ConfigSpec ==
  /\ MCInit /\ depositLimitByAsset[WETH] = 1
  /\ [][Next /\ UNCHANGED depositLimitByAsset[WETH]]_vars
=============================================================================
