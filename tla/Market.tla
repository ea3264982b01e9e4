------------------------------- MODULE Market -------------------------------
(***************************************************************************)
(* What the order book promises to those who trade on it: a market without *)
(* threads, locks, queues or wakeups.  Orders are open or they are not; a  *)
(* trade is between the open buy and the open sell order of a symbol that  *)
(* no other has price-time priority over, and happens at one instant.      *)
(***************************************************************************)
EXTENDS Orders

CONSTANTS Threads, Symbols

VARIABLES open,      \* the orders that have shares left to trade
          placed,    \* every order placed, oldest first
          executed   \* every trade made, oldest first

market == <<open, placed, executed>>

Init == open = {} /\ placed = <<>> /\ executed = <<>>

Place(o) ==
  /\ o \in Order(Threads, Symbols)
  /\ o.filledQty = 0
  /\ o.arrival = Len(placed) + 1
  /\ \A i \in DOMAIN placed : placed[i].orderId # o.orderId
  /\ open' = open \cup {o}
  /\ placed' = Append(placed, o)
  /\ UNCHANGED executed

IsBest(o) == \A p \in open : p.symbol = o.symbol /\ p.side = o.side => ~HasPriority(p, o)

MakeTrade(buy, sell) ==
  LET qty   == FillQty(buy, sell)
      price == ExecPrice(buy.price, sell.price)
  IN  /\ buy.symbol = sell.symbol /\ buy.side = "BUY" /\ sell.side = "SELL"
      /\ IsBest(buy) /\ IsBest(sell)
      /\ buy.price >= sell.price
      /\ open' = (open \ {buy, sell}) \cup
                   {o \in {Fill(buy, qty, price), Fill(sell, qty, price)} : ~IsComplete(o)}
      /\ executed' = Append(executed, Trade(buy.symbol, buy, sell, qty, price))
      /\ UNCHANGED placed

\* An order that has just been placed is open.
Next == \/ \E o \in open' : Place(o)
        \/ \E buy, sell \in open : MakeTrade(buy, sell)

Spec == Init /\ [][Next]_market

-----------------------------------------------------------------------------
\* No share is duplicated or lost: an open order has traded exactly its filled
\* quantity, one that is not open exactly the quantity it was placed with.
Conserved ==
  \A i \in DOMAIN placed :
    LET id   == placed[i].orderId
        rest == {o \in open : o.orderId = id}
    IN  /\ rest = {} => SharesTraded(id, executed) = placed[i].quantity
        /\ \A o \in rest : SharesTraded(id, executed) = o.filledQty /\ rest = {o}

=============================================================================
