--------------------- MODULE ChainlinkPriceOracle_proofs ---------------------
(***************************************************************************)
(* Proofs about ChainlinkPriceOracle, for words and scales of any size.    *)
(***************************************************************************)
EXTENDS ChainlinkPriceOracle, TLAPS

ChainlinkTypeOK ==
  /\ assetPriceFeed \in [SupportedAssets -> Feeds \cup {NoFeed}]
  /\ answer \in [Feeds -> Answers]

\* A negative answer, cast, is at least half a word: times anything above one it
\* does not fit.
LEMMA NegativeOverflows ==
  ASSUME NEW x \in Answers, x < 0
  PROVE  Product(x) >= Word
<1>1. x \in Int /\ -Word <= 2 * x /\ Word \in Nat /\ OneEther \in Nat /\ OneEther > 1
  BY ChainlinkAssumption DEF ChainlinkAssumption
<1>. DEFINE u == x + Word
<1>2. u \in Nat /\ 2 * u >= Word
  BY <1>1
<1>3. u * OneEther >= u * 2
  <2>1. OneEther - 2 \in Nat
    BY <1>1
  <2>2. u * (OneEther - 2) >= 0
    BY <1>2, <2>1
  <2>. QED
    BY <1>1, <1>2, <2>2
<1>. QED
  BY <1>1, <1>2, <1>3 DEF Product, Uint256

\* Truncated division, in terms of multiplication.
LEMMA Truncated ==
  ASSUME NEW n \in Nat, NEW unit \in Nat \ {0}
  PROVE  /\ n \div unit \in Nat
         /\ (n \div unit) * unit <= n
         /\ n < (n \div unit + 1) * unit
  OBVIOUS

LEMMA PriceOfAnswer ==
  ASSUME ChainlinkTypeOK
  PROVE  PriceIsTheAnswer
<1>. SUFFICES ASSUME NEW asset \in SupportedAssets, HasPrice(asset)
              PROVE  IsAnswer(GetAssetPrice(asset), answer[assetPriceFeed[asset]],
                              Unit[assetPriceFeed[asset]])
  BY DEF PriceIsTheAnswer
<1>. DEFINE feed == assetPriceFeed[asset]
            x    == answer[feed]
<1>1. feed \in Feeds /\ x \in Answers /\ x \in Int /\ Product(x) < Word
  BY ChainlinkAssumption DEF ChainlinkTypeOK, HasPrice, ChainlinkAssumption
<1>2. Unit[feed] \in Nat \ {0} /\ OneEther \in Nat /\ Word \in Nat
  BY <1>1, ChainlinkAssumption DEF ChainlinkAssumption
<1>3. x >= 0
  <2>1. SUFFICES ASSUME x < 0 PROVE FALSE
    BY <1>1
  <2>2. Product(x) >= Word
    BY <2>1, <1>1, NegativeOverflows
  <2>3. Product(x) \in Int
    BY <1>1, <1>2 DEF Product, Uint256
  <2>. QED
    BY <2>2, <2>3, <1>1, <1>2
<1>4. Product(x) = x * OneEther /\ Product(x) \in Nat
  BY <1>1, <1>2, <1>3 DEF Product, Uint256
<1>5. GetAssetPrice(asset) = Product(x) \div Unit[feed]
  BY DEF GetAssetPrice
<1>. HIDE DEF feed, x
<1>. QED
  BY <1>2, <1>3, <1>4, <1>5, Truncated DEF IsAnswer, feed, x

-----------------------------------------------------------------------------

\* Whatever the feeds answer and however they are replaced, a price is the answer
\* of its feed rounded down, and no negative answer is one: for any word, any
\* price scale above one and any decimals of the feeds.
THEOREM PricesAreAnswers == ChainlinkSpec => []PriceIsTheAnswer
<1>1. ChainlinkInit => ChainlinkTypeOK
  BY DEF ChainlinkInit, ChainlinkTypeOK
<1>2. ChainlinkTypeOK /\ [ChainlinkNext]_chainlinkVars => ChainlinkTypeOK'
  BY DEF ChainlinkTypeOK, ChainlinkNext, Answer, UpdatePriceFeedFor, chainlinkVars
<1>3. ChainlinkTypeOK => PriceIsTheAnswer
  BY PriceOfAnswer
<1>. QED
  BY <1>1, <1>2, <1>3, PTL DEF ChainlinkSpec
=============================================================================
