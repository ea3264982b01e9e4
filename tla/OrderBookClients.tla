--------------------------- MODULE OrderBookClients ---------------------------
(***************************************************************************)
(* The order book used as Backend/test_cases.cpp uses it: any thread       *)
(* submits orders, matches a symbol or updates a price, at any time and    *)
(* concurrently with every other thread.  In particular several threads    *)
(* may be inside matchOrders, which main.cpp never does.                   *)
(***************************************************************************)
EXTENDS OrderBook

CONSTANTS LimitPrices, \* the prices of limit orders
          NewPrices,   \* the prices passed to updatePrice
          Quantities,  \* the quantities of orders
          MaxOrders    \* bound: the number of orders constructed in a behaviour

ASSUME InputAssumption ==
  /\ LimitPrices \subseteq Nat \ {0}
  /\ NewPrices \subseteq Nat \ {0}
  /\ Quantities \subseteq Nat \ {0}
  /\ MaxOrders \in Nat

CallSubmit(t) ==
  /\ orderIdCounter < MaxOrders
  /\ \E s \in Symbols, side \in OrderSides, qty \in Quantities :
       \/ BeginSubmit(t, s, "MARKET", side, qty, 0)
       \/ \E price \in LimitPrices : BeginSubmit(t, s, "LIMIT", side, qty, price)

CallMatch(t) == \E s \in Symbols : BeginMatch(t, s)

CallUpdatePrice(t) ==
  /\ stage[t] = "idle"
  /\ \E s \in Symbols, price \in NewPrices : UpdatePrice(s, price)

Next ==
  \E t \in Threads :
    \/ CallSubmit(t) \/ SubmitStep(t)
    \/ CallMatch(t) \/ MatchStep(t)
    \/ CallUpdatePrice(t)

Spec == OrderBookInit /\ [][Next]_orderBookVars

=============================================================================
