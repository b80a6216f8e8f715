SPECIFICATION ChainlinkSpec
CONSTANTS
  stETH = stETH
  ETHx = ETHx
  SupportedAssets = {stETH, ETHx}
  coarse = coarse
  same = same
  fine = fine
  Feeds = {coarse, same, fine}
  NoFeed = NoFeed
  Unit <- MCUnit
  OneEther = 8
  Word = 256
  Answers <- MCAnswers
INVARIANTS PriceIsTheAnswer
