----------------------------- MODULE MCDashboard ----------------------------
(***************************************************************************)
(* Small instances of Dashboard for TLC.                                   *)
(***************************************************************************)
EXTENDS Dashboard, MCExchange

CONSTANT Buyer

\* Of the orders a trader may draw, the buyer draws buys and the others sells.
OneBuys ==
  \A t \in Traders : stage[t] \in {"price", "insert"} => (order[t].side = "BUY" <=> t = Buyer)

\* Every order takes the price of the market and no factor moves it: the market
\* maker's updates change nothing.
NoTicks == makerView = <<>>

\* Shutdown by main alone.
NoSigint == shutdown => mainAt # "join"

=============================================================================
