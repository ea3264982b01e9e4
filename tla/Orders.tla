------------------------------- MODULE Orders -------------------------------
(***************************************************************************)
(* The data of the exchange and the operations the matching loop performs  *)
(* on it: Order (Backend/Order.h), TradeRecord and the two sorted          *)
(* multimaps of a StockOrderBook (Backend/OrderBook.h), the price fields   *)
(* of a Stock (Backend/Stock.h).                                           *)
(*                                                                         *)
(* Prices are natural numbers, a number of the smallest unit the price     *)
(* arithmetic distinguishes; the code has doubles.  The code only compares *)
(* prices and takes midpoints, and what it relies on is that the midpoint  *)
(* of an interval lies in the interval, for doubles as for \div.           *)
(* The order status is left out: the code never assigns it after the       *)
(* constructor (PENDING).  Timestamps are never read by the backend.       *)
(***************************************************************************)
EXTENDS Integers, Sequences, SequencesExt

OrderSides == {"BUY", "SELL"}
OrderTypes == {"MARKET", "LIMIT"}

(***************************************************************************)
(* Orders and trades.  The field arrival is a history field: the position  *)
(* of the order among all orders inserted into the books, 0 before that.   *)
(***************************************************************************)
Order(Trader, Symbol) ==
  [orderId : Nat, traderId : Trader, symbol : Symbol,
   type : OrderTypes, side : OrderSides, price : Nat, quantity : Nat \ {0},
   filledQty : Nat, avgFillPrice : Nat, arrival : Nat]

NewOrder(id, trader, symbol, type, side, qty, price) ==
  [orderId |-> id, traderId |-> trader, symbol |-> symbol,
   type |-> type, side |-> side, price |-> price, quantity |-> qty,
   filledQty |-> 0, avgFillPrice |-> 0, arrival |-> 0]

TradeRecord(Trader, Symbol) ==
  [buyOrderId : Nat, sellOrderId : Nat,
   buyerTraderId : Trader, sellerTraderId : Trader,
   symbol : Symbol, quantity : Nat, price : Nat]

Trade(symbol, buy, sell, qty, price) ==
  [buyOrderId |-> buy.orderId, sellOrderId |-> sell.orderId,
   buyerTraderId |-> buy.traderId, sellerTraderId |-> sell.traderId,
   symbol |-> symbol, quantity |-> qty, price |-> price]

Swapped_Remaining(o) == o.filledQty - o.quantity

Remaining(o) == o.quantity - o.filledQty

IsComplete(o) == o.filledQty >= o.quantity

Lesser(a, b) == IF a <= b THEN a ELSE b

-----------------------------------------------------------------------------
(***************************************************************************)
(* The multimaps: a queue is a sequence sorted by price, highest first for *)
(* buys (std::greater) and lowest first for sells.  Ahead(side, p, q) says *)
(* that key p sorts strictly before key q.                                 *)
(***************************************************************************)
Ahead(side, p, q) == IF side = "BUY" THEN p > q ELSE p < q

LowerBound_InsertPoint(queue, o, n) ==
  /\ \A i \in 1 .. n : Ahead(o.side, queue[i].price, o.price)
  /\ \A i \in n + 1 .. Len(queue) : ~Ahead(o.side, queue[i].price, o.price)

\* multimap::emplace puts a key behind every entry with an equal key: n
\* entries stay in front of o.
InsertPoint(queue, o, n) ==
  /\ \A i \in 1 .. n : ~Ahead(o.side, o.price, queue[i].price)
  /\ \A i \in n + 1 .. Len(queue) : Ahead(o.side, o.price, queue[i].price)

Emplace(queue, o, n) == InsertAt(queue, n + 1, o)

\* Price-time priority of one order over another on the same side.
HasPriority(o, p) ==
  \/ Ahead(o.side, o.price, p.price)
  \/ o.price = p.price /\ o.arrival < p.arrival

-----------------------------------------------------------------------------
(***************************************************************************)
(* One iteration of the matching loop: what the heads of the two queues    *)
(* trade, at which price, and what becomes of them.                        *)
(***************************************************************************)
FillQty(buy, sell) == Lesser(Remaining(buy), Remaining(sell))

ExecPrice(bidPrice, askPrice) == (bidPrice + askPrice) \div 2

Fill(o, qty, price) ==
  [o EXCEPT !.filledQty = @ + qty, !.avgFillPrice = price]

FillHead(queue, qty, price) == [queue EXCEPT ![1] = Fill(@, qty, price)]

Partial_EraseComplete(queue) == Tail(queue)

EraseComplete(queue) == IF IsComplete(Head(queue)) THEN Tail(queue) ELSE queue

-----------------------------------------------------------------------------
(***************************************************************************)
(* The price fields of a Stock, and the number of shares in a batch.       *)
(***************************************************************************)
Stock == [currentPrice : Nat, highPrice : Nat, lowPrice : Nat]

NewStock(price) ==
  [currentPrice |-> price, highPrice |-> price, lowPrice |-> price]

LowOnly_SetPrice(stock, price) ==
  [stock EXCEPT !.currentPrice = price, !.lowPrice = Lesser(@, price)]

SetPrice(stock, price) ==
  [currentPrice |-> price,
   highPrice    |-> IF price > stock.highPrice THEN price ELSE stock.highPrice,
   lowPrice     |-> IF price < stock.lowPrice THEN price ELSE stock.lowPrice]

Total(numbers) ==
  LET total[n \in 0 .. Len(numbers)] ==
        IF n = 0 THEN 0 ELSE total[n - 1] + numbers[n]
  IN  total[Len(numbers)]

SharesOf(batch) == Total([i \in DOMAIN batch |-> batch[i].quantity])

BothSides_AddVolume(vol, batch) == vol + 2 * SharesOf(batch)

LastOnly_AddVolume(vol, batch) == vol + Last(batch).quantity

AddVolume(vol, batch) == vol + SharesOf(batch)

\* The shares that the trades of a history give to one order.
SharesTraded(id, history) ==
  Total([k \in DOMAIN history |->
           IF id \in {history[k].buyOrderId, history[k].sellOrderId}
           THEN history[k].quantity ELSE 0])

\* The shares that a history traded of one symbol.
SharesOn(s, history) ==
  Total([k \in DOMAIN history |->
           IF history[k].symbol = s THEN history[k].quantity ELSE 0])

\* The values of a function, added up over its domain.
SumOf(f) == FoldFunction(+, 0, f)

=============================================================================
