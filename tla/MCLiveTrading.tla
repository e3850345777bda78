--------------------------- MODULE MCLiveTrading ---------------------------
EXTENDS LiveTrading

MCMarkets == {"BTC"}
MCTwoMarkets == {"BTC", "ETH"}

=============================================================================
