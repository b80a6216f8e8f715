----------------------- MODULE MCChainlinkPriceOracle -----------------------
(* Words of 8 bits, a price scale of 8: feeds with fewer decimals than the    *)
(* price has, as many and more.                                               *)
EXTENDS ChainlinkPriceOracle

CONSTANTS coarse, same, fine

MCUnit    == [f \in Feeds |-> IF f = coarse THEN 2 ELSE IF f = same THEN 8 ELSE 64]
MCAnswers == {-128, -127, -33, -32, -1, 0, 1, 7, 8, 31, 32, 127}
=============================================================================
