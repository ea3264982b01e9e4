----------------------------- MODULE MCExchange -----------------------------
(***************************************************************************)
(* Small instances of Exchange for TLC, with one cent as the price unit.   *)
(***************************************************************************)
EXTENDS Exchange

\* 5% of 20 cents is a cent: limit orders at 19 meet market orders.
DearOpen  == [s \in Symbols |-> 20]

\* The matching engine goes in the order of STOCKS, a snapshot in map order.
OneStock    == <<"AAPL">>
StocksOrder == <<"GOOG", "AMZN">>
SortedOrder == <<"AMZN", "GOOG">>

FivePercentLess == {-500}
NoLimits == {}

TraderSymmetry == Permutations(Traders)

=============================================================================
