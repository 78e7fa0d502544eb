---------------------------- MODULE MCPriceSources ----------------------------
(* PriceSources on small instances.                                        *)
EXTENDS PriceSources, TLC

MCListed == [t \in Ticker |-> IF t = "BTC" THEN "TIER1" ELSE "TIER4"]

\* Two spellings of one asset, and a currency.
MCBase == [q \in Pair |-> IF q = "XBTUSD" THEN "XBT" ELSE IF q = "BTCEUR" THEN "BTC" ELSE "EUR"]

MCNames == [b \in {"XBT"} |-> "BTC"]

Symmetry == Permutations(Proc)
=============================================================================
