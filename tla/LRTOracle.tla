------------------------------ MODULE LRTOracle ------------------------------
(***************************************************************************)
(* contracts/LRTOracle.sol: the asset/ETH prices, read from price feeds    *)
(* at every use, and the primeETH/ETH price, stored by updatePrimeETHPrice *)
(* and used until somebody calls it again.                                 *)
(***************************************************************************)
EXTENDS LRTConfig, FiniteSetsExt

CONSTANTS
  OneEther,     \* 1e18, the scale of all prices
  Prices,       \* prices a feed may report
  PriceMoves    \* pairs <<old, new>>: how a feed may move

ASSUME OracleAssumption ==
  /\ OneEther \in Nat \ {0}
  /\ Prices \subseteq Nat \ {0}
  /\ PriceMoves \subseteq Prices \X Prices

VARIABLES
  primeETHPrice,   \* the stored price; 0 until the first update
  assetPrice       \* [asset -> price], what the feeds report now

oracleVars == <<primeETHPrice, assetPrice>>

OracleInit ==
  /\ primeETHPrice = 0
  /\ assetPrice \in [Assets -> Prices]

OracleTypeOK ==
  /\ primeETHPrice \in Nat
  /\ assetPrice \in [Assets -> Nat \ {0}]

\* ETH value, times 1e18, of total[a] tokens of each supported asset a.
ValueOf(total) == SumFunction([a \in supportedAssets |-> total[a] * assetPrice[a]])

\* Callable by anyone.
UpdatePrimeETHPrice(total, supply) ==
  /\ primeETHPrice' = IF supply = 0 THEN OneEther ELSE ValueOf(total) \div supply
  /\ UNCHANGED assetPrice

\* A feed reports another price, or updatePriceOracleFor replaces the feed.
FeedMoves(asset) ==
  /\ \E p \in Prices : <<assetPrice[asset], p>> \in PriceMoves
                       /\ assetPrice' = [assetPrice EXCEPT ![asset] = p]
  /\ UNCHANGED primeETHPrice
==============================================================================
