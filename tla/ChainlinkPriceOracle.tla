------------------------ MODULE ChainlinkPriceOracle ------------------------
(***************************************************************************)
(* contracts/oracles/ChainlinkPriceOracle.sol: the price of an asset, in   *)
(* 18 decimals, from the answer of a Chainlink feed, a signed word that    *)
(* may have other decimals.  The answer is cast to an unsigned word and    *)
(* multiplied with overflow checked; neither its sign nor its age is       *)
(* looked at.                                                              *)
(***************************************************************************)
EXTENDS Integers

CONSTANTS
  SupportedAssets,
  Feeds, NoFeed,   \* price feed contracts, and the zero address
  Unit,            \* [feed -> 10 ** decimals()]
  OneEther,        \* 1e18
  Word,            \* 2 ** 256
  Answers          \* answers the feeds may give

ASSUME ChainlinkAssumption ==
  /\ NoFeed \notin Feeds
  /\ OneEther \in Nat /\ OneEther > 1
  /\ Word \in Nat
  /\ Unit \in [Feeds -> Nat \ {0}]
  /\ Answers \subseteq {x \in Int : -Word <= 2 * x /\ 2 * x < Word}

VARIABLES
  assetPriceFeed,   \* [asset -> feed]
  answer            \* [feed -> answer of its latest round]

chainlinkVars == <<assetPriceFeed, answer>>

ChainlinkInit ==
  /\ assetPriceFeed = [a \in SupportedAssets |-> NoFeed]
  /\ answer \in [Feeds -> Answers]

\* A conversion from int256 to uint256 keeps the bits.
Uint256(x) == IF x < 0 THEN x + Word ELSE x

\* Variant: the multiplication wraps.
UncheckedProduct(x) == (Uint256(x) * OneEther) % Word

\* Checked arithmetic: the product, unless the call reverts.
Product(x) == Uint256(x) * OneEther

\* getAssetPrice returns.  A call of the zero address reverts.
HasPrice(asset) ==
  /\ assetPriceFeed[asset] # NoFeed
  /\ Product(answer[assetPriceFeed[asset]]) < Word

GetAssetPrice(asset) ==
  LET feed == assetPriceFeed[asset] IN Product(answer[feed]) \div Unit[feed]

UpdatePriceFeedFor(asset, feed) ==
  /\ assetPriceFeed' = [assetPriceFeed EXCEPT ![asset] = feed]
  /\ UNCHANGED answer

\* A new round of the feed.
Answer(feed) ==
  /\ \E x \in Answers : answer' = [answer EXCEPT ![feed] = x]
  /\ UNCHANGED assetPriceFeed

ChainlinkNext ==
  \E feed \in Feeds : \/ Answer(feed)
                      \/ \E asset \in SupportedAssets : UpdatePriceFeedFor(asset, feed)

ChainlinkSpec == ChainlinkInit /\ [][ChainlinkNext]_chainlinkVars

-----------------------------------------------------------------------------
(* Properties *)

\* price is x / unit with 18 decimals, rounded down.
IsAnswer(price, x, unit) ==
  /\ x >= 0
  /\ price * unit <= x * OneEther
  /\ x * OneEther < (price + 1) * unit

\* A price getAssetPrice returns is the feed's answer, less than one wei too low,
\* for any decimals of the feed: a negative answer, which the cast makes a huge
\* one, always overflows the multiplication and never becomes a price.
PriceIsTheAnswer ==
  \A asset \in SupportedAssets :
    HasPrice(asset) =>
      LET feed == assetPriceFeed[asset]
      IN IsAnswer(GetAssetPrice(asset), answer[feed], Unit[feed])
=============================================================================
