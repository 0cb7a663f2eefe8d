------------------------- MODULE MCTradeAttribution -------------------------
EXTENDS TradeAttribution

MCGains == {-1, 2}
=============================================================================
