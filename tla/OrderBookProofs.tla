--------------------------- MODULE OrderBookProofs ---------------------------
(***************************************************************************)
(* Proofs about the order book with arbitrary callers, OrderBookSpec: they *)
(* hold of every composition that implements it.                           *)
(***************************************************************************)
EXTENDS OrderBook, OrdersProofs

-----------------------------------------------------------------------------
(***************************************************************************)
(* Types.                                                                  *)
(***************************************************************************)
\* Constructing an order and filling one make orders.
LEMMA NewOrderType ==
  ASSUME NEW t \in Threads, NEW s \in Symbols, NEW id \in Nat,
         NEW type \in OrderTypes, NEW side \in OrderSides,
         NEW qty \in Nat \ {0}, NEW price \in Nat
  PROVE  NewOrder(id, t, s, type, side, qty, price) \in AnOrder
BY DEF NewOrder, AnOrder, Order

LEMMA NoOrderType ==
  ASSUME NEW t \in Threads
  PROVE  NoOrder(t) \in AnOrder
<1>1. (CHOOSE s \in Symbols : TRUE) \in Symbols
  BY SymbolAssumption
<1> QED BY <1>1, NewOrderType DEF NoOrder, OrderTypes, OrderSides

LEMMA FillType ==
  ASSUME NEW o \in AnOrder, NEW qty \in Nat, NEW price \in Nat
  PROVE  Fill(o, qty, price) \in AnOrder
<1>1. o.filledQty + qty \in Nat
  BY DEF AnOrder, Order
<1>2. [o EXCEPT !.filledQty = o.filledQty + qty] \in AnOrder
  BY <1>1 DEF AnOrder, Order
<1> QED BY <1>2 DEF AnOrder, Order, Fill

\* A fill keeps a queue a queue, and changes its head only.
LEMMA FilledQueue ==
  ASSUME NEW queue \in Seq(AnOrder), queue # <<>>, NEW qty \in Nat, NEW price \in Nat
  PROVE  /\ FillHead(queue, qty, price) \in Seq(AnOrder)
         /\ Len(FillHead(queue, qty, price)) = Len(queue)
         /\ FillHead(queue, qty, price)[1] = Fill(queue[1], qty, price)
         /\ \A i \in 2 .. Len(queue) : FillHead(queue, qty, price)[i] = queue[i]
<1>1. Len(queue) \in Nat \ {0} /\ queue[1] \in AnOrder
  BY EmptySeq, ElementOfSeq
<1>2. Fill(queue[1], qty, price) \in AnOrder
  BY <1>1, FillType
<1> QED BY <1>1, <1>2, ExceptSeq DEF FillHead

\* The initial state is type correct.
LEMMA InitTypeOK == OrderBookInit => TypeOK
<1> SUFFICES ASSUME OrderBookInit PROVE TypeOK
  OBVIOUS
<1>1. \A t \in Threads : NoOrder(t) \in AnOrder
  BY NoOrderType
<1>2. \A S : <<>> \in Seq(S)
  BY EmptySeq
<1>3. book \in [Symbols -> [OrderSides -> Seq(AnOrder)]]
  BY <1>2 DEF OrderBookInit
<1>4. stocks \in [Symbols -> Stock]
  BY PriceAssumption DEF OrderBookInit, NewStock, Stock
<1>5. trades \in [Threads -> Seq(ATrade)] /\ order \in [Threads -> AnOrder]
  BY <1>1, <1>2 DEF OrderBookInit
<1> QED BY <1>2, <1>3, <1>4, <1>5 DEF OrderBookInit, TypeOK, Stages

\* submitOrder preserves type correctness.
LEMMA SubmitTypeOK ==
  ASSUME TypeOK, NEW t \in Threads,
         SubmitStep(t) \/ (\E s \in Symbols, type \in OrderTypes, side \in OrderSides,
                               qty \in Nat \ {0}, price \in Nat :
                             BeginSubmit(t, s, type, side, qty, price))
  PROVE  TypeOK'
<1> USE DEF orderBookVars, bookVars, marketVars, totalVars, wakeVars, matchVars
<1>1. ASSUME NEW s \in Symbols, NEW type \in OrderTypes, NEW side \in OrderSides,
             NEW qty \in Nat \ {0}, NEW price \in Nat,
             BeginSubmit(t, s, type, side, qty, price)
      PROVE  TypeOK'
  <2>1. NewOrder(orderIdCounter + 1, t, s, type, side, qty, price) \in AnOrder
    BY NewOrderType DEF TypeOK
  <2>2. order' \in [Threads -> AnOrder]
    BY <1>1, <2>1 DEF BeginSubmit, TypeOK
  <2> QED BY <1>1, <2>2 DEF BeginSubmit, TypeOK, Stages
<1>2. ASSUME TakeMarketPrice(t) PROVE TypeOK'
  <2>1. order[t] \in AnOrder /\ stocks[order[t].symbol].currentPrice \in Nat
    BY DEF TypeOK, AnOrder, Order, Stock
  <2>2. [order[t] EXCEPT !.price = stocks[order[t].symbol].currentPrice] \in AnOrder
    BY <2>1 DEF AnOrder, Order
  <2>3. order' \in [Threads -> AnOrder]
    BY <1>2, <2>2 DEF TakeMarketPrice, TypeOK
  <2> QED BY <1>2, <2>3 DEF TakeMarketPrice, TypeOK, Stages
<1>3. ASSUME InsertOrder(t) PROVE TypeOK'
  <2> DEFINE s     == order[t].symbol
             side  == order[t].side
             entry == [order[t] EXCEPT !.arrival = Len(placed) + 1]
  <2>1. s \in Symbols /\ side \in OrderSides /\ order[t] \in AnOrder
    BY DEF TypeOK, AnOrder, Order
  <2>2. entry \in AnOrder
    <3>1. Len(placed) + 1 \in Nat
      BY LenProperties DEF TypeOK
    <3> QED BY <2>1, <3>1 DEF AnOrder, Order
  <2>3. book[s][side] \in Seq(AnOrder)
    BY <2>1 DEF TypeOK
  <2> HIDE DEF s, side, entry
  <2>4. PICK n \in 0 .. Len(book[s][side]) :
          book' = [book EXCEPT ![s][side] = Emplace(@, entry, n)]
    BY <1>3 DEF InsertOrder, s, side, entry
  <2>5. Emplace(book[s][side], entry, n) \in Seq(AnOrder)
    BY <2>2, <2>3, EmplaceProperties
  <2>6. book' \in [Symbols -> [OrderSides -> Seq(AnOrder)]]
    BY <2>1, <2>4, <2>5 DEF TypeOK
  <2>7. placed' \in Seq(AnOrder)
    BY <1>3, <2>2 DEF InsertOrder, TypeOK, s, side, entry
  <2> QED BY <1>3, <2>6, <2>7 DEF InsertOrder, TypeOK, Stages
<1>4. ASSUME SignalNewOrder(t) PROVE TypeOK'
  <2>1. waiting' \in SUBSET Threads /\ hasNewOrders' \in BOOLEAN
    BY <1>4 DEF SignalNewOrder, RaiseAndSignal, TypeOK
  <2>2. order' \in [Threads -> AnOrder]
    BY <1>4, NoOrderType DEF SignalNewOrder, TypeOK
  <2> QED BY <1>4, <2>1, <2>2 DEF SignalNewOrder, TypeOK, Stages
<1> QED BY <1>1, <1>2, <1>3, <1>4 DEF SubmitStep

\* A thread in the matching loop holds the mutex of a listed symbol.
LEMMA MatchingTarget ==
  ASSUME LocksHeld, NEW t \in Threads,
         stage[t] \in {"match", "account", "history", "publish"}
  PROVE  target[t] \in Symbols
BY DEF LocksHeld

\* What the heads of two crossing queues are, and what they trade.
LEMMA CrossingHeads ==
  ASSUME TypeOK, QueuesSorted, NEW s \in Symbols, Crossed(s)
  PROVE  LET buy   == Head(Bids(s))
             sell  == Head(Asks(s))
             qty   == FillQty(buy, sell)
             price == ExecPrice(buy.price, sell.price)
         IN  /\ buy \in AnOrder /\ sell \in AnOrder
             /\ Bids(s) \in Seq(AnOrder) /\ Asks(s) \in Seq(AnOrder)
             /\ Bids(s) # <<>> /\ Asks(s) # <<>>
             /\ buy = Bids(s)[1] /\ sell = Asks(s)[1]
             /\ 1 \in DOMAIN Bids(s) /\ 1 \in DOMAIN Asks(s)
             /\ RestsProperly(buy, s, "BUY", placed) /\ RestsProperly(sell, s, "SELL", placed)
             /\ qty \in Nat
             /\ qty <= buy.quantity - buy.filledQty
             /\ qty <= sell.quantity - sell.filledQty
             /\ price \in Nat /\ sell.price <= price /\ price <= buy.price
             /\ Trade(s, buy, sell, qty, price) \in ATrade
<1> DEFINE buy   == Head(Bids(s))
           sell  == Head(Asks(s))
           qty   == FillQty(buy, sell)
           price == ExecPrice(buy.price, sell.price)
<1>1. /\ Bids(s) \in Seq(AnOrder) /\ Asks(s) \in Seq(AnOrder)
      /\ Bids(s) # <<>> /\ Asks(s) # <<>>
  BY DEF TypeOK, Bids, Asks, Crossed, OrderSides
<1>2. /\ buy \in AnOrder /\ sell \in AnOrder
      /\ buy = Bids(s)[1] /\ sell = Asks(s)[1]
      /\ 1 \in DOMAIN Bids(s) /\ 1 \in DOMAIN Asks(s)
  BY <1>1, HeadTailProperties, EmptySeq, LenProperties
<1>3. RestsProperly(buy, s, "BUY", placed) /\ RestsProperly(sell, s, "SELL", placed)
  BY <1>2 DEF QueuesSorted, Sorted, Bids, Asks, OrderSides
<1>4. /\ buy.quantity \in Nat /\ buy.filledQty \in 0 .. buy.quantity
      /\ sell.quantity \in Nat /\ sell.filledQty \in 0 .. sell.quantity
      /\ buy.price \in Nat /\ sell.price \in Nat /\ sell.price <= buy.price
  BY <1>2, <1>3 DEF Crossed, RestsProperly, AnOrder, Order
<1>5. /\ qty \in Nat
      /\ qty <= buy.quantity - buy.filledQty
      /\ qty <= sell.quantity - sell.filledQty
  BY <1>4, FillQtyBounds
<1>6. price \in Nat /\ sell.price <= price /\ price <= buy.price
  BY <1>1, <1>4, ExecPriceBounds
<1> HIDE DEF buy, sell, qty, price
<1>7. Trade(s, buy, sell, qty, price) \in ATrade
  BY <1>2, <1>5, <1>6 DEF Trade, ATrade, TradeRecord, AnOrder, Order
<1> QED BY <1>1, <1>2, <1>3, <1>5, <1>6, <1>7 DEF buy, sell, qty, price

\* A batch of trades has a natural number of shares.
LEMMA BatchShares ==
  ASSUME NEW batch \in Seq(ATrade)
  PROVE  SharesOf(batch) \in Nat
<1>1. /\ Len(batch) \in Nat
      /\ \A i \in 1 .. Len(batch) : batch[i] \in ATrade
  BY LenProperties, ElementOfSeq
<1>2. \A i \in 1 .. Len(batch) : batch[i].quantity \in Nat
  BY <1>1 DEF ATrade, TradeRecord
<1> QED BY <1>1, <1>2, SharesOfNat

\* matchOrders preserves type correctness.
LEMMA MatchTypeOK ==
  ASSUME TypeOK, LocksHeld, BatchesCarried, QueuesSorted, NEW t \in Threads,
         MatchStep(t) \/ \E s \in Symbols : BeginMatch(t, s)
  PROVE  TypeOK'
<1> USE DEF orderBookVars, bookVars, marketVars, totalVars, wakeVars, matchVars
<1> DEFINE s == target[t]
<1>1. ASSUME NEW u \in Symbols, BeginMatch(t, u) PROVE TypeOK'
  BY <1>1 DEF BeginMatch, TypeOK, Stages
<1>2. ASSUME ExecuteTrade(t) PROVE TypeOK'
  <2>1. s \in Symbols /\ Crossed(s)
    BY <1>2, MatchingTarget DEF ExecuteTrade
  <2> DEFINE buy   == Head(Bids(s))
             sell  == Head(Asks(s))
             qty   == FillQty(buy, sell)
             price == ExecPrice(buy.price, sell.price)
             trade == Trade(s, buy, sell, qty, price)
  <2>2. /\ buy \in AnOrder /\ sell \in AnOrder /\ qty \in Nat /\ price \in Nat
        /\ Bids(s) \in Seq(AnOrder) /\ Asks(s) \in Seq(AnOrder)
        /\ Bids(s) # <<>> /\ Asks(s) # <<>> /\ trade \in ATrade
    BY <2>1, CrossingHeads
  <2>3. /\ trades' = [trades EXCEPT ![t] = Append(@, trade)]
        /\ executed' = Append(executed, trade)
        /\ book' = [book EXCEPT ![s] = [side \in OrderSides |->
                                          FillHead(@[side], qty, price)]]
    BY <1>2 DEF ExecuteTrade
  <2> HIDE DEF s, buy, sell, qty, price, trade
  <2>4. \A side \in OrderSides : FillHead(book[s][side], qty, price) \in Seq(AnOrder)
    BY <2>2, FilledQueue DEF OrderSides, Bids, Asks
  <2>5. book' \in [Symbols -> [OrderSides -> Seq(AnOrder)]]
    BY <2>1, <2>3, <2>4 DEF TypeOK
  <2>6. trades' \in [Threads -> Seq(ATrade)] /\ executed' \in Seq(ATrade)
    BY <2>2, <2>3 DEF TypeOK
  <2> QED BY <1>2, <2>5, <2>6 DEF ExecuteTrade, TypeOK, Stages
<1>3. ASSUME AccountTrade(t) PROVE TypeOK'
  <2>1. s \in Symbols /\ trades[t] # <<>> /\ trades[t] \in Seq(ATrade)
    BY <1>3, MatchingTarget DEF AccountTrade, BatchesCarried, TypeOK
  <2>2. Last(trades[t]) \in ATrade
    BY <2>1, EmptySeq, ElementOfSeq DEF Last
  <2>3. totalVolume' \in Nat
    BY <1>3, <2>2 DEF AccountTrade, TypeOK, ATrade, TradeRecord
  <2>4. \A side \in OrderSides : EraseComplete(book[s][side]) \in Seq(AnOrder)
    <3> SUFFICES ASSUME NEW side \in OrderSides
                 PROVE  EraseComplete(book[s][side]) \in Seq(AnOrder)
      OBVIOUS
    <3>1. book[s][side] # <<>> /\ book[s][side] \in Seq(AnOrder)
      BY <1>3, <2>1 DEF AccountTrade, BatchesCarried, TypeOK
    <3> QED BY <3>1, HeadTailProperties DEF EraseComplete
  <2>5. book' \in [Symbols -> [OrderSides -> Seq(AnOrder)]]
    BY <1>3, <2>1, <2>4 DEF AccountTrade, TypeOK
  <2> QED BY <1>3, <2>3, <2>5 DEF AccountTrade, TypeOK, Stages
<1>4. ASSUME EndMatch(t) PROVE TypeOK'
  BY <1>4, MatchingTarget DEF EndMatch, TypeOK, Stages
<1>5. ASSUME PublishHistory(t) PROVE TypeOK'
  <2>1. \A h \in Seq(ATrade) : KeepRecent(h) \in Seq(ATrade)
    BY LenProperties, ElementOfSeq, SubSeqProperties, HistoryAssumption DEF KeepRecent
  <2>2. tradeHistory' \in Seq(ATrade)
    BY <1>5, <2>1, ConcatProperties DEF PublishHistory, TypeOK
  <2> QED BY <1>5, <2>2 DEF PublishHistory, TypeOK, Stages
<1>6. ASSUME PublishStock(t) PROVE TypeOK'
  <2>1. s \in Symbols /\ trades[t] # <<>> /\ trades[t] \in Seq(ATrade)
    BY <1>6, MatchingTarget DEF PublishStock, BatchesCarried, TypeOK
  <2>2. Last(trades[t]) \in ATrade
    BY <2>1, EmptySeq, ElementOfSeq DEF Last
  <2>3. SetPrice(stocks[s], Last(trades[t]).price) \in Stock
    BY <2>1, <2>2 DEF SetPrice, Stock, ATrade, TradeRecord, TypeOK
  <2>4. stocks' \in [Symbols -> Stock]
    BY <1>6, <2>3 DEF PublishStock, TypeOK
  <2>5. volume' \in [Symbols -> Nat]
    BY <1>6, <2>1, BatchShares DEF PublishStock, TypeOK, AddVolume
  <2>6. trades' \in [Threads -> Seq(ATrade)]
    BY <1>6, EmptySeq DEF PublishStock, TypeOK
  <2> QED BY <1>6, <2>4, <2>5, <2>6 DEF PublishStock, TypeOK, Stages
<1> QED BY <1>1, <1>2, <1>3, <1>4, <1>5, <1>6 DEF MatchStep

\* updatePrice preserves type correctness.
LEMMA PriceTypeOK ==
  ASSUME TypeOK, NEW s \in Symbols, NEW price \in Nat, UpdatePrice(s, price)
  PROVE  TypeOK'
<1> USE DEF orderBookVars, bookVars, marketVars, totalVars, wakeVars, matchVars
<1>1. SetPrice(stocks[s], price) \in Stock
  BY DEF SetPrice, Stock, TypeOK
<1>2. stocks' \in [Symbols -> Stock]
  BY <1>1 DEF UpdatePrice, TypeOK
<1> QED BY <1>2 DEF UpdatePrice, TypeOK

-----------------------------------------------------------------------------
(***************************************************************************)
(* The mutexes of the books and the batches carried by matching threads.   *)
(***************************************************************************)
\* Every step keeps each book's mutex with the thread that matches the book.
LEMMA LocksHeldStep ==
  ASSUME TypeOK, LocksHeld, OrderBookNext
  PROVE  LocksHeld'
<1> USE ThreadAssumption, SymbolAssumption DEF bookVars, marketVars, totalVars,
        wakeVars, matchVars
<1>0. /\ stage \in [Threads -> Stages]
      /\ target \in [Threads -> Symbols \cup {NoSymbol}]
      /\ bookMutex \in [Symbols -> Threads \cup {Unlocked}]
  BY DEF TypeOK
<1>1. ASSUME NEW t \in Threads, NEW s \in Symbols, BeginMatch(t, s)
      PROVE  LocksHeld'
  BY <1>0, <1>1 DEF BeginMatch, LocksHeld
<1>2. ASSUME NEW t \in Threads, NEW s \in Symbols, NEW type \in OrderTypes,
             NEW side, NEW qty, NEW price, BeginSubmit(t, s, type, side, qty, price)
      PROVE  LocksHeld'
  BY <1>0, <1>2 DEF BeginSubmit, LocksHeld
<1>3. ASSUME NEW t \in Threads, SubmitStep(t) PROVE LocksHeld'
  <2>1. /\ UNCHANGED <<target, bookMutex>>
        /\ \E st \in {"insert", "signal", "idle"} : stage' = [stage EXCEPT ![t] = st]
        /\ stage[t] \in {"price", "insert", "signal"}
    BY <1>3 DEF SubmitStep, TakeMarketPrice, InsertOrder, SignalNewOrder
  <2> QED BY <1>0, <2>1 DEF LocksHeld
<1>4. ASSUME NEW t \in Threads, ExecuteTrade(t) \/ AccountTrade(t) PROVE LocksHeld'
  BY <1>0, <1>4 DEF ExecuteTrade, AccountTrade, LocksHeld
<1>5. ASSUME NEW t \in Threads, EndMatch(t) PROVE LocksHeld'
  BY <1>0, <1>5 DEF EndMatch, LocksHeld
<1>6. ASSUME NEW t \in Threads, PublishHistory(t) \/ PublishStock(t) PROVE LocksHeld'
  BY <1>0, <1>6 DEF PublishHistory, PublishStock, LocksHeld
<1>7. ASSUME WakeStep \/ \E s \in Symbols, price \in Nat : UpdatePrice(s, price)
      PROVE  LocksHeld'
  BY <1>0, <1>7 DEF WakeStep, UpdatePrice, LocksHeld
<1> QED BY <1>1, <1>2, <1>3, <1>4, <1>5, <1>6, <1>7
        DEF OrderBookNext, BeginCall, MatchStep

\* Every step keeps a batch with the threads that have traded, and the two
\* orders that traded at the head of their queues.
LEMMA BatchesCarriedStep ==
  ASSUME OrderBookInv, OrderBookNext
  PROVE  BatchesCarried'
<1> USE DEF bookVars, marketVars, totalVars, wakeVars, matchVars, OrderBookInv
<1>1. ASSUME NEW t \in Threads, NEW s \in Symbols, BeginMatch(t, s)
      PROVE  BatchesCarried'
  BY <1>1 DEF BeginMatch, BatchesCarried, TypeOK
<1>2. ASSUME NEW t \in Threads, NEW s \in Symbols, NEW type \in OrderTypes,
             NEW side, NEW qty, NEW price, BeginSubmit(t, s, type, side, qty, price)
      PROVE  BatchesCarried'
  BY <1>2 DEF BeginSubmit, BatchesCarried, TypeOK
<1>3. ASSUME NEW t \in Threads, InsertOrder(t) PROVE BatchesCarried'
  <2> SUFFICES ASSUME NEW u \in Threads, stage'[u] = "account"
               PROVE  \A side \in OrderSides : book'[target'[u]][side] # <<>>
    BY <1>3 DEF InsertOrder, BatchesCarried, TypeOK
  <2>1. stage[u] = "account" /\ target'[u] = target[u] /\ target[u] \in Symbols
    BY <1>3, MatchingTarget DEF InsertOrder, TypeOK
  <2>2. bookMutex[target[u]] = u /\ bookMutex[order[t].symbol] = Unlocked
    BY <1>3, <2>1 DEF InsertOrder, LocksHeld
  <2>3. book'[target[u]] = book[target[u]]
    BY <1>3, <2>1, <2>2, ThreadAssumption DEF InsertOrder, TypeOK
  <2> QED BY <2>1, <2>3 DEF BatchesCarried
<1>4. ASSUME NEW t \in Threads, TakeMarketPrice(t) \/ SignalNewOrder(t)
      PROVE  BatchesCarried'
  BY <1>4 DEF TakeMarketPrice, SignalNewOrder, BatchesCarried, TypeOK
<1>5. ASSUME NEW t \in Threads, ExecuteTrade(t) PROVE BatchesCarried'
  <2> DEFINE s == target[t]
  <2>1. s \in Symbols /\ Crossed(s)
    BY <1>5, MatchingTarget DEF ExecuteTrade
  <2>2. \A u \in Threads : stage'[u] = "account" => u = t \/ target[u] # s
    BY <1>5, <2>1 DEF ExecuteTrade, LocksHeld, TypeOK
  <2>3. \A u \in Threads :
          stage'[u] = "account" => u = t \/ (stage[u] = "account" /\ target[u] \in Symbols)
    BY <1>5, MatchingTarget DEF ExecuteTrade, TypeOK
  <2>4. \A side \in OrderSides : book'[s][side] # <<>>
    <3> SUFFICES ASSUME NEW side \in OrderSides PROVE book'[s][side] # <<>>
      OBVIOUS
    <3> DEFINE qty   == FillQty(Head(Bids(s)), Head(Asks(s)))
               price == ExecPrice(Head(Bids(s)).price, Head(Asks(s)).price)
    <3>1. book'[s][side] = FillHead(book[s][side], qty, price)
      BY <1>5, <2>1 DEF ExecuteTrade, TypeOK
    <3>2. qty \in Nat /\ price \in Nat
      BY <2>1, CrossingHeads
    <3> HIDE DEF qty, price
    <3>3. book[s][side] \in Seq(AnOrder) /\ book[s][side] # <<>>
      BY <2>1 DEF Crossed, Bids, Asks, OrderSides, TypeOK
    <3>4. /\ FillHead(book[s][side], qty, price) \in Seq(AnOrder)
          /\ Len(FillHead(book[s][side], qty, price)) = Len(book[s][side])
      BY <3>2, <3>3, FilledQueue
    <3> QED BY <3>1, <3>3, <3>4, EmptySeq
  <2>5. trades'[t] # <<>>
    <3> DEFINE batch == trades[t]
    <3>1. batch \in Seq(ATrade)
      BY DEF TypeOK
    <3>2. \E x : trades'[t] = Append(batch, x)
      BY <1>5 DEF ExecuteTrade, TypeOK
    <3> HIDE DEF batch
    <3> QED BY <3>1, <3>2
  <2>6. /\ \A u \in Threads : u # t => trades'[u] = trades[u] /\ stage'[u] = stage[u]
        /\ target' = target
        /\ \A u \in Symbols : u # s => book'[u] = book[u]
    BY <1>5 DEF ExecuteTrade, TypeOK
  <2>7. stage'[t] = "account"
    BY <1>5 DEF ExecuteTrade, TypeOK
  <2> HIDE DEF s
  <2> QED BY <2>2, <2>3, <2>4, <2>5, <2>6, <2>7 DEF BatchesCarried, s
<1>6. ASSUME NEW t \in Threads, AccountTrade(t) PROVE BatchesCarried'
  <2>1. \A u \in Threads :
          stage'[u] = "account" =>
            u # t /\ stage[u] = "account" /\ target[u] # target[t] /\ target[u] \in Symbols
    BY <1>6 DEF AccountTrade, LocksHeld, TypeOK
  <2> QED BY <1>6, <2>1 DEF AccountTrade, BatchesCarried, TypeOK
<1>7. ASSUME NEW t \in Threads, EndMatch(t) \/ PublishHistory(t) \/ PublishStock(t)
      PROVE  BatchesCarried'
  BY <1>7 DEF EndMatch, PublishHistory, PublishStock, BatchesCarried, TypeOK
<1>8. ASSUME WakeStep \/ \E s \in Symbols, price \in Nat : UpdatePrice(s, price)
      PROVE  BatchesCarried'
  BY <1>8 DEF WakeStep, UpdatePrice, BatchesCarried
<1> QED BY <1>1, <1>2, <1>3, <1>4, <1>5, <1>6, <1>7, <1>8
        DEF OrderBookNext, BeginCall, SubmitStep, MatchStep

-----------------------------------------------------------------------------
(***************************************************************************)
(* The queues stay sorted.                                                 *)
(***************************************************************************)
\* An order that grows no older keeps its place while orders are added.
LEMMA RestsMonotone ==
  ASSUME NEW o \in AnOrder, NEW s, NEW side, NEW all \in Seq(AnOrder), NEW e \in AnOrder,
         RestsProperly(o, s, side, all)
  PROVE  RestsProperly(o, s, side, Append(all, e))
<1>1. /\ Len(Append(all, e)) = Len(all) + 1 /\ Len(all) \in Nat
      /\ \A i \in 1 .. Len(all) : Append(all, e)[i] = all[i]
      /\ DOMAIN all = 1 .. Len(all) /\ DOMAIN Append(all, e) = 1 .. Len(all) + 1
  OBVIOUS
<1> QED BY <1>1 DEF RestsProperly

\* Where emplace puts a new order, it and the queue around it are sorted.
LEMMA SortedInsert ==
  ASSUME NEW s, NEW side \in OrderSides, NEW all \in Seq(AnOrder), NEW o \in AnOrder,
         NEW queue \in Seq(AnOrder), NEW n \in 0 .. Len(queue),
         Sorted(queue, s, side, all), InsertPoint(queue, o, n),
         o.symbol = s, o.side = side, o.arrival = Len(all) + 1, o.filledQty <= o.quantity
  PROVE  Sorted(Emplace(queue, o, n), s, side, Append(all, o))
<1> DEFINE new == Emplace(queue, o, n)
           after == Append(all, o)
<1>1. /\ new \in Seq(AnOrder) /\ Len(new) = Len(queue) + 1 /\ Len(queue) \in Nat
      /\ DOMAIN new = 1 .. Len(queue) + 1 /\ DOMAIN queue = 1 .. Len(queue)
      /\ \A i \in 1 .. Len(queue) + 1 :
           new[i] = IF i <= n THEN queue[i] ELSE IF i = n + 1 THEN o ELSE queue[i - 1]
      /\ \A i \in 1 .. Len(queue) : queue[i] \in AnOrder
  <2>1. /\ new \in Seq(AnOrder) /\ Len(new) = Len(queue) + 1
        /\ \A i \in 1 .. Len(queue) + 1 :
             new[i] = IF i <= n THEN queue[i] ELSE IF i = n + 1 THEN o ELSE queue[i - 1]
    BY EmplaceProperties
  <2> HIDE DEF new
  <2>2. DOMAIN new = 1 .. Len(new)
    BY <2>1, LenProperties
  <2>3. /\ Len(queue) \in Nat /\ DOMAIN queue = 1 .. Len(queue)
        /\ \A i \in 1 .. Len(queue) : queue[i] \in AnOrder
    BY LenProperties, ElementOfSeq
  <2> QED BY <2>1, <2>2, <2>3
<1> HIDE DEF new, after
<1>2. RestsProperly(o, s, side, after)
  <2>1. /\ Len(after) = Len(all) + 1 /\ Len(all) + 1 \in DOMAIN after
        /\ after[Len(all) + 1] = o /\ Len(all) \in Nat
    BY DEF after
  <2> QED BY <2>1 DEF RestsProperly, SameOrder
<1>3. \A i \in 1 .. Len(queue) : RestsProperly(queue[i], s, side, after)
  BY <1>1, RestsMonotone DEF Sorted, after
<1>4. \A i \in DOMAIN new : RestsProperly(new[i], s, side, after)
  <2> TAKE i \in DOMAIN new
  <2>1. i <= n \/ i = n + 1 \/ i - 1 \in 1 .. Len(queue)
    BY <1>1
  <2> QED BY <1>1, <1>2, <1>3, <2>1
<1>5. \A i \in 1 .. Len(queue) :
        /\ queue[i].side = side /\ queue[i].arrival <= Len(all)
        /\ queue[i].price \in Nat /\ queue[i].arrival \in Nat
  <2> TAKE i \in 1 .. Len(queue)
  <2>1. queue[i] \in AnOrder /\ RestsProperly(queue[i], s, side, all)
    BY <1>1 DEF Sorted
  <2>2. DOMAIN all = 1 .. Len(all) /\ Len(all) \in Nat
    BY LenProperties
  <2>3. queue[i].side = side /\ queue[i].arrival \in DOMAIN all
    BY <2>1 DEF RestsProperly
  <2>4. queue[i].price \in Nat /\ queue[i].arrival \in Nat
    BY <2>1 DEF AnOrder, Order
  <2>5. queue[i].arrival <= Len(all)
    BY <2>2, <2>3
  <2> QED BY <2>3, <2>4, <2>5
<1>6. o.price \in Nat /\ Len(all) \in Nat
  BY LenProperties DEF AnOrder, Order
<1>7. \A i \in 1 .. n : MayFollow(o, queue[i])
  BY <1>1, <1>5, <1>6 DEF InsertPoint, MayFollow, HasPriority, Ahead
<1>8. \A i \in n + 1 .. Len(queue) : MayFollow(queue[i], o)
  BY <1>1, <1>5, <1>6 DEF InsertPoint, MayFollow, HasPriority, Ahead
<1>9. \A i, j \in 1 .. Len(queue) : i < j => MayFollow(queue[j], queue[i])
  BY <1>1 DEF Sorted
<1>10. ASSUME NEW i \in DOMAIN new, NEW j \in DOMAIN new, i < j
       PROVE  MayFollow(new[j], new[i])
  <2>1. CASE j <= n
    BY <1>1, <1>9, <1>10, <2>1
  <2>2. CASE j = n + 1
    <3>1. new[j] = o /\ i \in 1 .. n /\ new[i] = queue[i]
      BY <1>1, <1>10, <2>2
    <3> QED BY <1>7, <3>1
  <2>3. CASE j > n + 1
    <3>1. new[j] = queue[j - 1] /\ j - 1 \in n + 1 .. Len(queue)
      <4>1. j \in 1 .. Len(queue) + 1 /\ ~(j <= n) /\ j # n + 1
        BY <1>1, <2>3
      <4>2. new[j] = queue[j - 1]
        BY <1>1, <4>1
      <4> QED BY <1>1, <2>3, <4>1, <4>2
    <3>2. CASE i <= n
      <4>1. new[i] = queue[i] /\ i \in 1 .. Len(queue) /\ i < j - 1
        BY <1>1, <2>3, <3>2
      <4> QED BY <1>9, <3>1, <4>1
    <3>3. CASE i = n + 1
      <4>1. new[i] = o
        BY <1>1, <3>3
      <4>2. MayFollow(queue[j - 1], o)
        BY <1>8, <3>1
      <4> QED BY <3>1, <4>1, <4>2
    <3>4. CASE i > n + 1
      <4>1. new[i] = queue[i - 1] /\ i - 1 \in 1 .. Len(queue) /\ i - 1 < j - 1
        BY <1>1, <1>10, <3>4
      <4> QED BY <1>9, <3>1, <4>1
    <3> QED BY <1>1, <3>2, <3>3, <3>4
  <2> QED BY <1>1, <2>1, <2>2, <2>3
<1> QED BY <1>4, <1>10 DEF Sorted, new, after

\* A fill of the head that leaves it within its quantity keeps a queue sorted.
LEMMA SortedFill ==
  ASSUME NEW s, NEW side, NEW all, NEW queue \in Seq(AnOrder), queue # <<>>,
         NEW qty \in Nat, NEW price \in Nat,
         qty <= queue[1].quantity - queue[1].filledQty, Sorted(queue, s, side, all)
  PROVE  Sorted(FillHead(queue, qty, price), s, side, all)
<1> DEFINE new == FillHead(queue, qty, price)
<1>1. /\ new \in Seq(AnOrder) /\ Len(new) = Len(queue)
      /\ new[1] = Fill(queue[1], qty, price)
      /\ \A i \in 2 .. Len(queue) : new[i] = queue[i]
  BY FilledQueue
<1> HIDE DEF new
<1>2. /\ DOMAIN new = DOMAIN queue /\ DOMAIN queue = 1 .. Len(queue)
      /\ Len(queue) \in Nat \ {0} /\ queue[1] \in AnOrder
  BY <1>1, LenProperties, EmptySeq, ElementOfSeq
<1>3. /\ new[1].orderId = queue[1].orderId /\ new[1].symbol = queue[1].symbol
      /\ new[1].side = queue[1].side /\ new[1].price = queue[1].price
      /\ new[1].arrival = queue[1].arrival /\ new[1].quantity = queue[1].quantity
      /\ new[1].filledQty = queue[1].filledQty + qty
  <2> DEFINE head == queue[1]
  <2>1. head \in AnOrder /\ new[1] = Fill(head, qty, price)
    BY <1>1, <1>2
  <2> HIDE DEF head
  <2>2. /\ new[1].orderId = head.orderId /\ new[1].symbol = head.symbol
        /\ new[1].side = head.side /\ new[1].price = head.price
        /\ new[1].arrival = head.arrival /\ new[1].quantity = head.quantity
        /\ new[1].filledQty = head.filledQty + qty
    BY <2>1 DEF Fill, AnOrder, Order
  <2> QED BY <2>2 DEF head
<1>4. new[1].filledQty <= new[1].quantity
  <2>1. queue[1].filledQty \in Nat /\ queue[1].quantity \in Nat
    BY <1>2 DEF AnOrder, Order
  <2> QED BY <1>3, <2>1
<1>5. RestsProperly(new[1], s, side, all)
  BY <1>2, <1>3, <1>4 DEF Sorted, RestsProperly, SameOrder
<1>6. \A i \in DOMAIN new : /\ new[i].side = queue[i].side
                            /\ new[i].price = queue[i].price
                            /\ new[i].arrival = queue[i].arrival
  BY <1>1, <1>2, <1>3
<1>7. \A i \in DOMAIN new : RestsProperly(new[i], s, side, all)
  BY <1>1, <1>2, <1>5 DEF Sorted
<1> QED BY <1>2, <1>6, <1>7 DEF Sorted, MayFollow, HasPriority, new

\* Erasing the head keeps a queue sorted.
LEMMA SortedErase ==
  ASSUME NEW s, NEW side, NEW all, NEW queue \in Seq(AnOrder), queue # <<>>,
         Sorted(queue, s, side, all)
  PROVE  Sorted(EraseComplete(queue), s, side, all)
<1>1. /\ Len(queue) \in Nat \ {0} /\ DOMAIN queue = 1 .. Len(queue)
      /\ Tail(queue) \in Seq(AnOrder) /\ Len(Tail(queue)) = Len(queue) - 1
      /\ \A i \in 1 .. Len(queue) - 1 : Tail(queue)[i] = queue[i + 1]
  BY EmptySeq, LenProperties, HeadTailProperties
<1>2. DOMAIN Tail(queue) = 1 .. Len(queue) - 1
  BY <1>1, LenProperties
<1>3. Sorted(Tail(queue), s, side, all)
  BY <1>1, <1>2 DEF Sorted
<1> QED BY <1>3 DEF EraseComplete

\* Every step keeps the queues sorted.
LEMMA QueuesSortedStep ==
  ASSUME OrderBookInv, OrderBookNext
  PROVE  QueuesSorted'
<1> USE DEF bookVars, marketVars, totalVars, wakeVars, matchVars, OrderBookInv
<1>1. ASSUME NEW t \in Threads, InsertOrder(t) PROVE QueuesSorted'
  <2> DEFINE s     == order[t].symbol
             side  == order[t].side
             entry == [order[t] EXCEPT !.arrival = Len(placed) + 1]
  <2>1. s \in Symbols /\ side \in OrderSides /\ order[t] \in AnOrder
    BY DEF TypeOK, AnOrder, Order
  <2>2. /\ entry \in AnOrder
        /\ entry.symbol = s /\ entry.side = side /\ entry.arrival = Len(placed) + 1
        /\ entry.filledQty = order[t].filledQty /\ entry.quantity = order[t].quantity
    <3>1. Len(placed) + 1 \in Nat
      BY LenProperties DEF TypeOK
    <3> QED BY <2>1, <3>1 DEF AnOrder, Order
  <2>3. book[s][side] \in Seq(AnOrder) /\ placed \in Seq(AnOrder)
    BY <2>1 DEF TypeOK
  <2>4. entry.filledQty <= entry.quantity
    BY <2>1, <2>2 DEF OrdersUnfilled, AnOrder, Order
  <2>5. PICK n \in 0 .. Len(book[s][side]) :
          /\ InsertPoint(book[s][side], entry, n)
          /\ book' = [book EXCEPT ![s][side] = Emplace(@, entry, n)]
    BY <1>1 DEF InsertOrder
  <2>6. placed' = Append(placed, entry)
    BY <1>1 DEF InsertOrder
  <2> HIDE DEF s, side, entry
  <2>7. Sorted(book[s][side], s, side, placed)
    BY <2>1 DEF QueuesSorted
  <2>8. Sorted(Emplace(book[s][side], entry, n), s, side, Append(placed, entry))
    BY <2>1, <2>2, <2>3, <2>4, <2>5, <2>7, SortedInsert
  <2>9. ASSUME NEW u \in Symbols, NEW other \in OrderSides
        PROVE  Sorted(book[u][other], u, other, Append(placed, entry))
    <3>1. book[u][other] \in Seq(AnOrder) /\ Sorted(book[u][other], u, other, placed)
      BY DEF TypeOK, QueuesSorted
    <3>2. \A i \in DOMAIN book[u][other] : book[u][other][i] \in AnOrder
      BY <3>1, LenProperties, ElementOfSeq
    <3>3. \A i \in DOMAIN book[u][other] :
            RestsProperly(book[u][other][i], u, other, Append(placed, entry))
      BY <2>2, <2>3, <3>1, <3>2, RestsMonotone DEF Sorted
    <3> QED BY <3>1, <3>3 DEF Sorted
  <2>10. ASSUME NEW u \in Symbols, NEW other \in OrderSides
         PROVE  book'[u][other] = IF u = s /\ other = side
                                  THEN Emplace(book[s][side], entry, n)
                                  ELSE book[u][other]
    BY <2>1, <2>5 DEF TypeOK
  <2> QED BY <2>6, <2>8, <2>9, <2>10 DEF QueuesSorted
<1>2. ASSUME NEW t \in Threads, ExecuteTrade(t) PROVE QueuesSorted'
  <2> DEFINE s     == target[t]
             qty   == FillQty(Head(Bids(s)), Head(Asks(s)))
             price == ExecPrice(Head(Bids(s)).price, Head(Asks(s)).price)
  <2>1. s \in Symbols /\ Crossed(s)
    BY <1>2, MatchingTarget DEF ExecuteTrade
  <2>2. \A side \in OrderSides :
          /\ book[s][side] \in Seq(AnOrder) /\ book[s][side] # <<>>
          /\ qty \in Nat /\ price \in Nat
          /\ qty <= book[s][side][1].quantity - book[s][side][1].filledQty
    BY <2>1, CrossingHeads DEF OrderSides, Bids, Asks
  <2>3. /\ placed' = placed
        /\ book' = [book EXCEPT ![s] = [side \in OrderSides |->
                                          FillHead(@[side], qty, price)]]
    BY <1>2 DEF ExecuteTrade
  <2> HIDE DEF s, qty, price
  <2>4. \A side \in OrderSides : Sorted(FillHead(book[s][side], qty, price), s, side, placed)
    BY <2>1, <2>2, SortedFill DEF QueuesSorted
  <2>5. ASSUME NEW u \in Symbols, NEW side \in OrderSides
        PROVE  book'[u][side] = IF u = s THEN FillHead(book[s][side], qty, price)
                                ELSE book[u][side]
    BY <2>1, <2>3 DEF TypeOK
  <2> QED BY <2>3, <2>4, <2>5 DEF QueuesSorted
<1>3. ASSUME NEW t \in Threads, AccountTrade(t) PROVE QueuesSorted'
  <2> DEFINE s == target[t]
  <2>1. s \in Symbols
    BY <1>3, MatchingTarget DEF AccountTrade
  <2>2. /\ placed' = placed
        /\ book' = [book EXCEPT ![s] = [side \in OrderSides |-> EraseComplete(@[side])]]
    BY <1>3 DEF AccountTrade
  <2>3. \A side \in OrderSides : book[s][side] \in Seq(AnOrder) /\ book[s][side] # <<>>
    BY <1>3, <2>1 DEF AccountTrade, BatchesCarried, TypeOK
  <2> HIDE DEF s
  <2>4. \A side \in OrderSides : Sorted(EraseComplete(book[s][side]), s, side, placed)
    BY <2>1, <2>3, SortedErase DEF QueuesSorted
  <2>5. ASSUME NEW u \in Symbols, NEW side \in OrderSides
        PROVE  book'[u][side] = IF u = s THEN EraseComplete(book[s][side])
                                ELSE book[u][side]
    BY <2>1, <2>2 DEF TypeOK
  <2> QED BY <2>2, <2>4, <2>5 DEF QueuesSorted
<1>4. ASSUME UNCHANGED <<book, placed>> PROVE QueuesSorted'
  BY <1>4 DEF QueuesSorted
<1>5. ASSUME NEW t \in Threads, BeginCall(t) PROVE QueuesSorted'
  BY <1>4, <1>5 DEF BeginCall, BeginMatch, BeginSubmit
<1>6. ASSUME NEW t \in Threads, \/ TakeMarketPrice(t) \/ SignalNewOrder(t) \/ EndMatch(t)
                                \/ PublishHistory(t) \/ PublishStock(t)
      PROVE  QueuesSorted'
  BY <1>4, <1>6 DEF TakeMarketPrice, SignalNewOrder, EndMatch, PublishHistory, PublishStock
<1>7. ASSUME WakeStep \/ \E s \in Symbols, price \in Nat : UpdatePrice(s, price)
      PROVE  QueuesSorted'
  BY <1>4, <1>7 DEF WakeStep, UpdatePrice
<1> QED BY <1>1, <1>2, <1>3, <1>5, <1>6, <1>7 DEF OrderBookNext, SubmitStep, MatchStep

\* Every step leaves the orders being submitted unfilled.
LEMMA OrdersUnfilledStep ==
  ASSUME OrderBookInv, OrderBookNext
  PROVE  OrdersUnfilled'
<1> USE DEF marketVars, matchVars, OrderBookInv
<1>1. ASSUME NEW t \in Threads, NEW o \in AnOrder, o.filledQty = 0,
             order' = [order EXCEPT ![t] = o]
      PROVE  OrdersUnfilled'
  BY <1>1 DEF OrdersUnfilled, TypeOK
<1>2. ASSUME NEW t \in Threads, NEW s \in Symbols, NEW type \in OrderTypes,
             NEW side \in OrderSides, NEW qty \in Nat \ {0}, NEW price \in Nat,
             BeginSubmit(t, s, type, side, qty, price)
      PROVE  OrdersUnfilled'
  <2> DEFINE o == NewOrder(orderIdCounter + 1, t, s, type, side, qty, price)
  <2>1. o \in AnOrder /\ o.filledQty = 0
    BY NewOrderType DEF TypeOK, NewOrder
  <2>2. order' = [order EXCEPT ![t] = o]
    BY <1>2 DEF BeginSubmit
  <2> HIDE DEF o
  <2> QED BY <1>1, <2>1, <2>2
<1>3. ASSUME NEW t \in Threads, TakeMarketPrice(t) PROVE OrdersUnfilled'
  <2> DEFINE price == stocks[order[t].symbol].currentPrice
  <2>1. order' = [order EXCEPT ![t] = [order[t] EXCEPT !.price = price]]
    BY <1>3 DEF TakeMarketPrice, TypeOK
  <2> HIDE DEF price
  <2>2. order[t] \in AnOrder
    BY DEF TypeOK
  <2>3. [order[t] EXCEPT !.price = price].filledQty = order[t].filledQty
    BY <2>2 DEF AnOrder, Order
  <2> QED BY <2>1, <2>3 DEF OrdersUnfilled, TypeOK
<1>4. ASSUME NEW t \in Threads, SignalNewOrder(t) PROVE OrdersUnfilled'
  <2>1. NoOrder(t) \in AnOrder /\ NoOrder(t).filledQty = 0
    BY NoOrderType DEF NoOrder, NewOrder
  <2> QED BY <1>1, <1>4, <2>1 DEF SignalNewOrder
<1>5. ASSUME UNCHANGED order PROVE OrdersUnfilled'
  BY <1>5 DEF OrdersUnfilled
<1>6. ASSUME NEW t \in Threads,
             InsertOrder(t) \/ MatchStep(t) \/ \E s \in Symbols : BeginMatch(t, s)
      PROVE  OrdersUnfilled'
  BY <1>5, <1>6 DEF InsertOrder, BeginMatch, MatchStep, ExecuteTrade, AccountTrade,
                    EndMatch, PublishHistory, PublishStock
<1>7. ASSUME WakeStep \/ \E s \in Symbols, price \in Nat : UpdatePrice(s, price)
      PROVE  OrdersUnfilled'
  BY <1>5, <1>7 DEF WakeStep, UpdatePrice
<1> QED BY <1>2, <1>3, <1>4, <1>6, <1>7 DEF OrderBookNext, BeginCall, SubmitStep

\* Only one thread is in the matching loop of a book.
LEMMA MutexHolder ==
  ASSUME LocksHeld, NEW t \in Threads, stage[t] = "match", target[t] \in Symbols,
         NEW u \in Threads, target[u] = target[t]
  PROVE  stage[u] # "account"
BY DEF LocksHeld

\* When only the head can be complete, nothing is after complete heads went.
LEMMA NothingComplete ==
  ASSUME NEW queue \in Seq(AnOrder), queue # <<>>,
         \A i \in DOMAIN queue : IsComplete(queue[i]) => i = 1
  PROVE  /\ EraseComplete(queue) \in Seq(AnOrder)
         /\ \A i \in DOMAIN EraseComplete(queue) : ~IsComplete(EraseComplete(queue)[i])
         /\ ToSet(EraseComplete(queue)) = {o \in ToSet(queue) : ~IsComplete(o)}
<1>1. /\ Len(queue) \in Nat \ {0} /\ DOMAIN queue = 1 .. Len(queue) /\ Head(queue) = queue[1]
      /\ Tail(queue) \in Seq(AnOrder) /\ Len(Tail(queue)) = Len(queue) - 1
      /\ \A i \in 1 .. Len(queue) - 1 : Tail(queue)[i] = queue[i + 1]
  BY EmptySeq, LenProperties, HeadTailProperties
<1>2. DOMAIN Tail(queue) = 1 .. Len(queue) - 1
  BY <1>1, LenProperties
<1>3. CASE IsComplete(Head(queue))
  <2>1. EraseComplete(queue) = Tail(queue)
    BY <1>3 DEF EraseComplete
  <2>2. \A i \in DOMAIN Tail(queue) : i + 1 \in DOMAIN queue /\ i + 1 # 1
    BY <1>1, <1>2
  <2>3. \A i \in DOMAIN queue : i # 1 => /\ i - 1 \in DOMAIN Tail(queue)
                                       /\ queue[i] = Tail(queue)[i - 1]
    BY <1>1, <1>2
  <2> DEFINE rest == Tail(queue)
  <2>4. \A i \in DOMAIN rest : rest[i] = queue[i + 1] /\ ~IsComplete(rest[i])
    BY <1>1, <1>2, <2>2
  <2>5. \A i \in DOMAIN queue : ~IsComplete(queue[i]) =>
          \E k \in DOMAIN rest : rest[k] = queue[i]
    BY <1>1, <1>3, <2>3
  <2>6. rest \in Seq(AnOrder)
    BY <1>1
  <2> HIDE DEF rest
  <2>7. \A o \in ToSet(rest) : o \in ToSet(queue) /\ ~IsComplete(o)
    BY <2>2, <2>4 DEF ToSet, rest
  <2>8. \A o \in ToSet(queue) : ~IsComplete(o) => o \in ToSet(rest)
    BY <2>5 DEF ToSet
  <2>9. EraseComplete(queue) = rest
    BY <2>1 DEF rest
  <2> QED BY <2>4, <2>6, <2>7, <2>8, <2>9
<1>4. CASE ~IsComplete(Head(queue))
  <2>1. EraseComplete(queue) = queue
    BY <1>4 DEF EraseComplete
  <2> QED BY <1>1, <1>4, <2>1 DEF ToSet
<1> QED BY <1>3, <1>4

\* The orders placed are orders.
LEMMA PlacedTyped ==
  ASSUME TypeOK
  PROVE  \A i \in DOMAIN placed : placed[i] \in AnOrder
BY LenProperties, ElementOfSeq DEF TypeOK

\* Every step leaves complete orders at rest only where their trade has been
\* made and they are about to be erased.
LEMMA OnlyHeadsCompleteStep ==
  ASSUME OrderBookInv, OrderBookNext
  PROVE  OnlyHeadsComplete'
<1> USE DEF bookVars, marketVars, totalVars, wakeVars, matchVars, OrderBookInv
<1>1. ASSUME NEW t \in Threads, InsertOrder(t) PROVE OnlyHeadsComplete'
  <2> DEFINE s     == order[t].symbol
             side  == order[t].side
             entry == [order[t] EXCEPT !.arrival = Len(placed) + 1]
  <2>1. s \in Symbols /\ side \in OrderSides /\ order[t] \in AnOrder
    BY DEF TypeOK, AnOrder, Order
  <2>2. entry \in AnOrder /\ ~IsComplete(entry)
    <3>1. Len(placed) + 1 \in Nat
      BY LenProperties DEF TypeOK
    <3> QED BY <2>1, <3>1 DEF AnOrder, Order, OrdersUnfilled, IsComplete
  <2>3. book[s][side] \in Seq(AnOrder)
    BY <2>1 DEF TypeOK
  <2>4. PICK n \in 0 .. Len(book[s][side]) :
          book' = [book EXCEPT ![s][side] = Emplace(@, entry, n)]
    BY <1>1 DEF InsertOrder
  <2>5. bookMutex[s] = Unlocked /\ target' = target
    BY <1>1 DEF InsertOrder
  <2>6. \A u \in Threads : (stage'[u] = "account") <=> (stage[u] = "account")
    BY <1>1 DEF InsertOrder, TypeOK
  <2> HIDE DEF s, side, entry
  <2>7. \A u \in Threads : ~(target[u] = s /\ stage[u] = "account")
    BY <2>1, <2>5, ThreadAssumption DEF LocksHeld
  <2>8. \A i \in DOMAIN book[s][side] : ~IsComplete(book[s][side][i])
    BY <2>1, <2>7 DEF OnlyHeadsComplete
  <2>9. \A i \in DOMAIN Emplace(book[s][side], entry, n) :
          ~IsComplete(Emplace(book[s][side], entry, n)[i])
    <3>1. \A o \in ToSet(Emplace(book[s][side], entry, n)) :
            o \in ToSet(book[s][side]) \cup {entry}
      BY <2>2, <2>3, <2>4, EmplaceElements
    <3> QED BY <2>2, <2>8, <3>1 DEF ToSet
  <2>10. ASSUME NEW u \in Symbols, NEW other \in OrderSides
         PROVE  book'[u][other] = IF u = s /\ other = side
                                  THEN Emplace(book[s][side], entry, n)
                                  ELSE book[u][other]
    BY <2>1, <2>4 DEF TypeOK
  <2> SUFFICES ASSUME NEW u \in Symbols, NEW other \in OrderSides,
                      NEW i \in DOMAIN book'[u][other], IsComplete(book'[u][other][i])
               PROVE  i = 1 /\ \E v \in Threads : target[v] = u /\ stage[v] = "account"
    BY <2>5, <2>6 DEF OnlyHeadsComplete
  <2>11. ~(u = s /\ other = side)
    BY <2>9, <2>10
  <2> QED BY <2>10, <2>11 DEF OnlyHeadsComplete
<1>2. ASSUME NEW t \in Threads, ExecuteTrade(t) PROVE OnlyHeadsComplete'
  <2> DEFINE s     == target[t]
             qty   == FillQty(Head(Bids(s)), Head(Asks(s)))
             price == ExecPrice(Head(Bids(s)).price, Head(Asks(s)).price)
  <2>1. s \in Symbols /\ Crossed(s) /\ stage[t] = "match" /\ target' = target
    BY <1>2, MatchingTarget DEF ExecuteTrade
  <2>2. \A side \in OrderSides :
          /\ book[s][side] \in Seq(AnOrder) /\ book[s][side] # <<>>
          /\ qty \in Nat /\ price \in Nat
    BY <2>1, CrossingHeads DEF OrderSides, Bids, Asks
  <2>3. /\ book' = [book EXCEPT ![s] = [side \in OrderSides |->
                                          FillHead(@[side], qty, price)]]
        /\ stage' = [stage EXCEPT ![t] = "account"]
    BY <1>2 DEF ExecuteTrade
  <2> HIDE DEF qty, price
  <2>4. ASSUME NEW u \in Symbols, NEW side \in OrderSides
        PROVE  book'[u][side] = IF u = s THEN FillHead(book[s][side], qty, price)
                                ELSE book[u][side]
    BY <2>1, <2>3 DEF TypeOK
  <2>5. target[t] = s /\ stage'[t] = "account"
    BY <2>3 DEF TypeOK
  <2>6. \A v \in Threads : stage[v] = "account" => stage'[v] = "account"
    BY <2>3 DEF TypeOK
  <2>7. \A v \in Threads : ~(target[v] = s /\ stage[v] = "account")
    BY <2>1, MutexHolder DEF LocksHeld
  <2> HIDE DEF s
  <2> SUFFICES ASSUME NEW u \in Symbols, NEW side \in OrderSides,
                      NEW i \in DOMAIN book'[u][side], IsComplete(book'[u][side][i])
               PROVE  i = 1 /\ \E v \in Threads : target[v] = u /\ stage'[v] = "account"
    BY <2>1 DEF OnlyHeadsComplete
  <2>8. CASE u = s
    <3>1. i \in 1 .. Len(book[s][side]) /\ DOMAIN book[s][side] = 1 .. Len(book[s][side])
      BY <2>2, <2>4, <2>8, FilledQueue, LenProperties
    <3>2. i = 1
      <4> SUFFICES ASSUME i # 1 PROVE FALSE
        OBVIOUS
      <4>1. i \in 2 .. Len(book[s][side])
        BY <2>2, <3>1, LenProperties
      <4>2. book'[u][side][i] = book[s][side][i]
        BY <2>2, <2>4, <2>8, <4>1, FilledQueue
      <4> QED BY <2>1, <2>7, <3>1, <4>2 DEF OnlyHeadsComplete
    <3> QED BY <2>5, <2>8, <3>2
  <2>9. CASE u # s
    BY <2>4, <2>6, <2>9 DEF OnlyHeadsComplete
  <2> QED BY <2>8, <2>9
<1>3. ASSUME NEW t \in Threads, AccountTrade(t) PROVE OnlyHeadsComplete'
  <2> DEFINE s == target[t]
  <2>1. s \in Symbols /\ stage[t] = "account" /\ target' = target
    BY <1>3, MatchingTarget DEF AccountTrade
  <2>2. /\ book' = [book EXCEPT ![s] = [side \in OrderSides |-> EraseComplete(@[side])]]
        /\ stage' = [stage EXCEPT ![t] = "match"]
    BY <1>3 DEF AccountTrade
  <2>3. \A side \in OrderSides : book[s][side] \in Seq(AnOrder) /\ book[s][side] # <<>>
    BY <2>1 DEF BatchesCarried, TypeOK
  <2>4. \A v \in Threads : target[v] # s /\ stage[v] = "account" => stage'[v] = "account"
    BY <2>2 DEF TypeOK
  <2> HIDE DEF s
  <2>5. ASSUME NEW u \in Symbols, NEW side \in OrderSides
        PROVE  book'[u][side] = IF u = s THEN EraseComplete(book[s][side])
                                ELSE book[u][side]
    BY <2>1, <2>2 DEF TypeOK
  <2>6. \A side \in OrderSides : \A i \in DOMAIN EraseComplete(book[s][side]) :
          ~IsComplete(EraseComplete(book[s][side])[i])
    BY <2>1, <2>3, NothingComplete DEF OnlyHeadsComplete
  <2> SUFFICES ASSUME NEW u \in Symbols, NEW side \in OrderSides,
                      NEW i \in DOMAIN book'[u][side], IsComplete(book'[u][side][i])
               PROVE  i = 1 /\ \E v \in Threads : target[v] = u /\ stage'[v] = "account"
    BY <2>1 DEF OnlyHeadsComplete
  <2>7. u # s
    BY <2>5, <2>6
  <2> QED BY <2>4, <2>5, <2>7 DEF OnlyHeadsComplete
<1>4. ASSUME UNCHANGED book,
             \A v \in Threads, u \in Symbols : target[v] = u /\ stage[v] = "account" =>
                                                 target'[v] = u /\ stage'[v] = "account"
      PROVE  OnlyHeadsComplete'
  BY <1>4 DEF OnlyHeadsComplete
<1>5. ASSUME NEW t \in Threads, NEW new, NEW aim, UNCHANGED book, stage[t] # "account",
             stage' = [stage EXCEPT ![t] = new],
             target' = target \/ target' = [target EXCEPT ![t] = aim]
      PROVE  OnlyHeadsComplete'
  <2>1. \A v \in Threads : v # t => stage'[v] = stage[v] /\ target'[v] = target[v]
    BY <1>5 DEF TypeOK
  <2> QED BY <1>4, <1>5, <2>1
<1>6. ASSUME NEW t \in Threads, BeginCall(t) PROVE OnlyHeadsComplete'
  <2>1. ASSUME NEW s \in Symbols, BeginMatch(t, s) PROVE OnlyHeadsComplete'
    BY <1>5, <2>1 DEF BeginMatch
  <2>2. ASSUME NEW s \in Symbols, NEW type, NEW side, NEW qty, NEW price,
               BeginSubmit(t, s, type, side, qty, price)
        PROVE  OnlyHeadsComplete'
    BY <1>5, <2>2 DEF BeginSubmit
  <2> QED BY <1>6, <2>1, <2>2 DEF BeginCall
<1>7. ASSUME NEW t \in Threads, \/ TakeMarketPrice(t) \/ SignalNewOrder(t) \/ EndMatch(t)
                                \/ PublishHistory(t) \/ PublishStock(t)
      PROVE  OnlyHeadsComplete'
  <2>1. UNCHANGED book /\ stage[t] # "account"
    BY <1>7 DEF TakeMarketPrice, SignalNewOrder, EndMatch, PublishHistory, PublishStock
  <2>2. \E new, aim : /\ stage' = [stage EXCEPT ![t] = new]
                      /\ target' = target \/ target' = [target EXCEPT ![t] = aim]
    BY <1>7 DEF TakeMarketPrice, SignalNewOrder, EndMatch, PublishHistory, PublishStock
  <2> QED BY <1>5, <2>1, <2>2
<1>8. ASSUME WakeStep \/ \E s \in Symbols, price \in Nat : UpdatePrice(s, price)
      PROVE  OnlyHeadsComplete'
  BY <1>4, <1>8 DEF WakeStep, UpdatePrice
<1> QED BY <1>1, <1>2, <1>3, <1>6, <1>7, <1>8 DEF OrderBookNext, SubmitStep, MatchStep

\* Every step keeps the ids of the orders unique.
LEMMA OrderIdsUniqueStep ==
  ASSUME OrderBookInv, OrderBookNext
  PROVE  OrderIdsUnique'
<1> USE DEF bookVars, marketVars, totalVars, wakeVars, matchVars, OrderBookInv
<1>1. ASSUME NEW t \in Threads, NEW s \in Symbols, NEW type, NEW side, NEW qty, NEW price,
             BeginSubmit(t, s, type, side, qty, price)
      PROVE  OrderIdsUnique'
  <2> DEFINE o == NewOrder(orderIdCounter + 1, t, s, type, side, qty, price)
  <2>1. o.orderId = orderIdCounter + 1 /\ orderIdCounter \in Nat
    BY DEF TypeOK, NewOrder
  <2>2. /\ order' = [order EXCEPT ![t] = o] /\ placed' = placed
        /\ orderIdCounter' = orderIdCounter + 1
        /\ stage' = [stage EXCEPT ![t] = IF type = "MARKET" THEN "price" ELSE "insert"]
    BY <1>1 DEF BeginSubmit
  <2> HIDE DEF o
  <2>3. \A u \in Threads : u # t => order'[u] = order[u] /\ stage'[u] = stage[u]
    BY <2>2 DEF TypeOK
  <2>4. order'[t].orderId = orderIdCounter + 1
    BY <2>1, <2>2 DEF TypeOK
  <2>5. Submitting' \subseteq Submitting \cup {t}
    BY <2>3 DEF Submitting
  <2>6. /\ \A i \in DOMAIN placed : placed[i].orderId \in Nat
        /\ \A u \in Threads : order[u].orderId \in Nat
    BY PlacedTyped DEF TypeOK, AnOrder, Order
  <2>7. /\ \A i \in DOMAIN placed : placed[i].orderId <= orderIdCounter
        /\ \A u \in Submitting : order[u].orderId <= orderIdCounter
    BY DEF OrderIdsUnique
  <2>8. \A u \in Submitting' : /\ order'[u].orderId <= orderIdCounter'
                               /\ \A i \in DOMAIN placed' : placed'[i].orderId # order'[u].orderId
    <3> TAKE u \in Submitting'
    <3>1. CASE u = t
      BY <2>1, <2>2, <2>4, <2>6, <2>7, <3>1
    <3>2. CASE u # t
      <4>1. u \in Submitting /\ order'[u] = order[u] /\ u \in Threads
        BY <2>3, <2>5, <3>2 DEF Submitting
      <4> QED BY <2>1, <2>2, <2>6, <2>7, <4>1 DEF OrderIdsUnique
    <3> QED BY <3>1, <3>2
  <2>9. \A u, v \in Submitting' : order'[u].orderId = order'[v].orderId => u = v
    <3> SUFFICES ASSUME NEW u \in Submitting', NEW v \in Submitting', u # v
                 PROVE  order'[u].orderId # order'[v].orderId
      OBVIOUS
    <3>1. \A w \in Submitting' : w # t => /\ w \in Submitting /\ w \in Threads
                                          /\ order'[w] = order[w]
      BY <2>3, <2>5 DEF Submitting
    <3>2. CASE u = t \/ v = t
      BY <2>1, <2>4, <2>6, <2>7, <3>1, <3>2
    <3>3. CASE u # t /\ v # t
      BY <3>1, <3>3 DEF OrderIdsUnique
    <3> QED BY <3>2, <3>3
  <2>10. \A i \in DOMAIN placed' :
           /\ placed'[i].orderId <= orderIdCounter'
           /\ \A j \in DOMAIN placed' : placed'[i].orderId = placed'[j].orderId => i = j
    BY <2>1, <2>2, <2>6, <2>7 DEF OrderIdsUnique
  <2> QED BY <2>8, <2>9, <2>10 DEF OrderIdsUnique
<1>2. ASSUME NEW t \in Threads, InsertOrder(t) PROVE OrderIdsUnique'
  <2> DEFINE entry == [order[t] EXCEPT !.arrival = Len(placed) + 1]
  <2>1. /\ placed' = Append(placed, entry) /\ order' = order
        /\ orderIdCounter' = orderIdCounter /\ stage[t] = "insert"
        /\ stage' = [stage EXCEPT ![t] = "signal"]
    BY <1>2 DEF InsertOrder
  <2>2. entry.orderId = order[t].orderId /\ t \in Submitting
    BY <2>1 DEF TypeOK, AnOrder, Order, Submitting
  <2> HIDE DEF entry
  <2>3. Submitting' = Submitting \ {t}
    BY <2>1 DEF Submitting, TypeOK
  <2>4. /\ DOMAIN placed' = 1 .. Len(placed) + 1 /\ DOMAIN placed = 1 .. Len(placed)
        /\ Len(placed) \in Nat /\ placed'[Len(placed) + 1] = entry
        /\ \A i \in 1 .. Len(placed) : placed'[i] = placed[i]
    BY <2>1 DEF TypeOK
  <2>5. \A i \in DOMAIN placed' : IF i = Len(placed) + 1
                                  THEN placed'[i].orderId = order[t].orderId
                                  ELSE i \in DOMAIN placed /\ placed'[i] = placed[i]
    BY <2>2, <2>4
  <2>6. \A i \in DOMAIN placed' :
           /\ placed'[i].orderId <= orderIdCounter'
           /\ \A j \in DOMAIN placed' : placed'[i].orderId = placed'[j].orderId => i = j
    BY <2>1, <2>2, <2>5 DEF OrderIdsUnique
  <2>7. \A u \in Submitting' :
          /\ order'[u].orderId <= orderIdCounter'
          /\ \A v \in Submitting' : order'[u].orderId = order'[v].orderId => u = v
          /\ \A i \in DOMAIN placed' : placed'[i].orderId # order'[u].orderId
    BY <2>1, <2>2, <2>3, <2>5 DEF OrderIdsUnique
  <2> QED BY <2>6, <2>7 DEF OrderIdsUnique
<1>3. ASSUME NEW t \in Threads, TakeMarketPrice(t) PROVE OrderIdsUnique'
  <2>1. /\ \A u \in Threads : order'[u].orderId = order[u].orderId
        /\ Submitting' = Submitting /\ Submitting \subseteq Threads
        /\ UNCHANGED <<placed, orderIdCounter>>
    <3>1. /\ stage \in [Threads -> Stages]
          /\ order \in [Threads -> AnOrder]
      BY DEF TypeOK
    <3>2. /\ stage[t] = "price" /\ stage' = [stage EXCEPT ![t] = "insert"]
          /\ UNCHANGED <<placed, orderIdCounter>>
          /\ order' = [order EXCEPT ![t].price = stocks[order[t].symbol].currentPrice]
      BY <1>3 DEF TakeMarketPrice
    <3>3. \A u \in Threads : order'[u].orderId = order[u].orderId
      BY <3>1, <3>2 DEF AnOrder, Order
    <3>4. Submitting' = Submitting /\ Submitting \subseteq Threads
      BY <3>1, <3>2 DEF Submitting
    <3> QED BY <3>2, <3>3, <3>4
  <2> QED BY <2>1 DEF OrderIdsUnique
<1>4. ASSUME NEW t \in Threads, NEW new, UNCHANGED <<placed, orderIdCounter>>,
             new \notin {"price", "insert"}, stage' = [stage EXCEPT ![t] = new],
             \A u \in Threads : u # t => order'[u] = order[u]
      PROVE  OrderIdsUnique'
  <2>1. Submitting' = Submitting \ {t}
    BY <1>4 DEF Submitting, TypeOK
  <2>2. \A u \in Submitting' : u \in Submitting /\ order'[u] = order[u]
    BY <1>4, <2>1 DEF Submitting
  <2> QED BY <1>4, <2>2 DEF OrderIdsUnique
<1>5. ASSUME NEW t \in Threads, SignalNewOrder(t) PROVE OrderIdsUnique'
  <2>1. \A u \in Threads : u # t => order'[u] = order[u]
    BY <1>5 DEF SignalNewOrder, TypeOK
  <2> QED BY <1>4, <1>5, <2>1 DEF SignalNewOrder
<1>6. ASSUME NEW t \in Threads, MatchStep(t) \/ \E s \in Symbols : BeginMatch(t, s)
      PROVE  OrderIdsUnique'
  <2>1. UNCHANGED <<placed, orderIdCounter, order>>
    BY <1>6 DEF BeginMatch, MatchStep, ExecuteTrade, AccountTrade, EndMatch,
                PublishHistory, PublishStock
  <2>2. \E new : new \notin {"price", "insert"} /\ stage' = [stage EXCEPT ![t] = new]
    BY <1>6 DEF BeginMatch, MatchStep, ExecuteTrade, AccountTrade, EndMatch,
                PublishHistory, PublishStock
  <2> QED BY <1>4, <2>1, <2>2
<1>7. ASSUME WakeStep \/ \E s \in Symbols, price \in Nat : UpdatePrice(s, price)
      PROVE  OrderIdsUnique'
  BY <1>7 DEF WakeStep, UpdatePrice, OrderIdsUnique, Submitting
<1> QED BY <1>1, <1>2, <1>3, <1>5, <1>6, <1>7 DEF OrderBookNext, BeginCall, SubmitStep

-----------------------------------------------------------------------------
(***************************************************************************)
(* The invariant and what follows from it.                                 *)
(***************************************************************************)
LEMMA InitInv == OrderBookInit => OrderBookInv
<1> SUFFICES ASSUME OrderBookInit PROVE OrderBookInv
  OBVIOUS
<1>1. TypeOK
  BY InitTypeOK
<1>2. LocksHeld /\ BatchesCarried
  BY ThreadAssumption, SymbolAssumption DEF OrderBookInit, LocksHeld, BatchesCarried
<1>3. OrdersUnfilled
  BY DEF OrderBookInit, OrdersUnfilled, NoOrder, NewOrder
<1>4. QueuesSorted
  <2>1. \A s \in Symbols, side \in OrderSides : book[s][side] = <<>>
    BY DEF OrderBookInit
  <2> QED BY <2>1 DEF QueuesSorted, Sorted
<1>5. OnlyHeadsComplete /\ OrderIdsUnique
  BY DEF OrderBookInit, OnlyHeadsComplete, OrderIdsUnique, Submitting
<1> QED BY <1>1, <1>2, <1>3, <1>4, <1>5 DEF OrderBookInv

LEMMA StepInv == OrderBookInv /\ [OrderBookNext]_orderBookVars => OrderBookInv'
<1> SUFFICES ASSUME OrderBookInv, [OrderBookNext]_orderBookVars PROVE OrderBookInv'
  OBVIOUS
<1>1. CASE OrderBookNext
  <2>1. TypeOK'
    <3>1. ASSUME WakeStep PROVE TypeOK'
      BY <3>1 DEF WakeStep, bookVars, marketVars, totalVars, matchVars,
                  OrderBookInv, TypeOK
    <3> QED BY <1>1, <3>1, SubmitTypeOK, MatchTypeOK, PriceTypeOK
            DEF OrderBookInv, OrderBookNext, BeginCall
  <2>2. LocksHeld'
    BY <1>1, LocksHeldStep DEF OrderBookInv
  <2> QED BY <1>1, <2>1, <2>2, BatchesCarriedStep, OrdersUnfilledStep, QueuesSortedStep,
             OnlyHeadsCompleteStep, OrderIdsUniqueStep DEF OrderBookInv
<1>2. CASE UNCHANGED orderBookVars
  BY <1>2 DEF orderBookVars, bookVars, marketVars, totalVars, wakeVars, matchVars,
              OrderBookInv, TypeOK, LocksHeld, BatchesCarried, OnlyHeadsComplete,
              QueuesSorted, OrdersUnfilled, OrderIdsUnique, Submitting
<1> QED BY <1>1, <1>2

\* Whatever its callers do, the order book's mutexes are held by the threads
\* that match, and its queues are sorted by price and arrival.
THEOREM OrderBookInvariant == OrderBookSpec => []OrderBookInv
BY InitInv, StepInv, PTL DEF OrderBookSpec

\* Type correctness of the order book.
THEOREM OrderBookTypes == OrderBookSpec => []TypeOK
<1>1. OrderBookInv => TypeOK
  BY DEF OrderBookInv
<1> QED BY <1>1, OrderBookInvariant, PTL

\* No trade passes over an order with priority, under any concurrent callers.
THEOREM PriorityKept == OrderBookSpec => PriceTimePriority
<1> DEFINE A == executed' # executed =>
                  LET trade == Last(executed')
                  IN  \A side \in OrderSides :
                        LET resting == ToSet(book[trade.symbol][side])
                        IN  \E p \in resting :
                              /\ p.orderId = OrderIdOn(side, trade)
                              /\ \A o \in resting : ~HasPriority(o, p)
<1>1. OrderBookInv /\ [OrderBookNext]_orderBookVars => [A]_orderBookVars
  <2> SUFFICES ASSUME OrderBookInv, OrderBookNext, executed' # executed
               PROVE  A
    BY Zenon DEF orderBookVars
  <2> USE DEF bookVars, marketVars, totalVars, wakeVars, matchVars
  <2>1. PICK t \in Threads : ExecuteTrade(t)
    <3>1. PICK t \in Threads : BeginCall(t) \/ SubmitStep(t) \/ MatchStep(t)
      BY DEF OrderBookNext, UpdatePrice, WakeStep
    <3>2. ~BeginCall(t)
      BY DEF BeginCall, BeginMatch, BeginSubmit
    <3>3. ~SubmitStep(t)
      BY DEF SubmitStep, TakeMarketPrice, InsertOrder, SignalNewOrder
    <3>4. MatchStep(t) => ExecuteTrade(t)
      BY DEF MatchStep, AccountTrade, EndMatch, PublishHistory, PublishStock
    <3> QED BY <3>1, <3>2, <3>3, <3>4
  <2> DEFINE s     == target[t]
             buy   == Head(Bids(s))
             sell  == Head(Asks(s))
             qty   == FillQty(buy, sell)
             price == ExecPrice(buy.price, sell.price)
             trade == Trade(s, buy, sell, qty, price)
  <2>2. s \in Symbols /\ Crossed(s)
    BY <2>1, MatchingTarget DEF ExecuteTrade, OrderBookInv
  <2>3. /\ trade \in ATrade
        /\ buy = Bids(s)[1] /\ sell = Asks(s)[1]
        /\ 1 \in DOMAIN Bids(s) /\ 1 \in DOMAIN Asks(s)
        /\ buy \in AnOrder /\ sell \in AnOrder
    BY <2>2, CrossingHeads DEF OrderBookInv
  <2>4. Last(executed') = trade
    <3>1. executed' = Append(executed, trade)
      BY <2>1 DEF ExecuteTrade
    <3>2. executed \in Seq(ATrade)
      BY DEF OrderBookInv, TypeOK
    <3> HIDE DEF trade
    <3> QED BY <2>3, <3>1, <3>2 DEF Last
  <2>5. /\ trade.symbol = s
        /\ trade.buyOrderId = buy.orderId /\ trade.sellOrderId = sell.orderId
    BY DEF Trade
  <2> HIDE DEF s, buy, sell, trade
  <2>6. \A side \in OrderSides :
          /\ 1 \in DOMAIN book[s][side]
          /\ book[s][side][1].orderId = OrderIdOn(side, trade)
    BY <2>3, <2>5 DEF OrderSides, OrderIdOn, Bids, Asks
  <2>7. ASSUME NEW side \in OrderSides, NEW i \in DOMAIN book[s][side]
        PROVE  ~HasPriority(book[s][side][i], book[s][side][1])
    <3>1. book[s][side] \in Seq(AnOrder) /\ Sorted(book[s][side], s, side, placed)
      BY <2>2 DEF OrderBookInv, TypeOK, QueuesSorted
    <3>2. i \in 1 .. Len(book[s][side]) /\ book[s][side][i] \in AnOrder
      BY <3>1, LenProperties, ElementOfSeq
    <3>3. CASE i = 1
      <4> DEFINE head == book[s][side][1]
      <4>1. head.price \in Nat /\ head.arrival \in Nat
        BY <3>2, <3>3 DEF AnOrder, Order
      <4> HIDE DEF head
      <4>2. ~HasPriority(head, head)
        BY <4>1 DEF HasPriority, Ahead
      <4> QED BY <3>3, <4>2 DEF head
    <3>4. CASE i # 1
      BY <2>6, <3>1, <3>2, <3>4 DEF Sorted, MayFollow
    <3> QED BY <3>3, <3>4
  <2> QED BY <2>4, <2>5, <2>6, <2>7 DEF ToSet
<1>2. OrderBookSpec => [][A]_orderBookVars
  BY <1>1, OrderBookInvariant, PTL DEF OrderBookSpec
<1> QED BY <1>2 DEF PriceTimePriority

\* Every trade is within the limits of the two orders it names.
LEMMA LimitsStep ==
  ASSUME OrderBookInv, LimitsRespected, OrderBookNext
  PROVE  LimitsRespected'
<1> USE DEF bookVars, marketVars, totalVars, wakeVars, matchVars, OrderBookInv
<1> DEFINE Party(all, trade, side) ==
             {o \in ToSet(all) : /\ o.orderId = OrderIdOn(side, trade)
                                /\ o.side = side
                                /\ o.symbol = trade.symbol}
           Within(all, trade) ==
             \E buy \in Party(all, trade, "BUY"), sell \in Party(all, trade, "SELL") :
               sell.price <= trade.price /\ trade.price <= buy.price
<1>1. \A k \in DOMAIN executed : Within(placed, executed[k])
  BY DEF LimitsRespected
<1>2. placed \in Seq(AnOrder) /\ executed \in Seq(ATrade)
  BY DEF TypeOK
<1>3. ASSUME NEW t \in Threads, InsertOrder(t) PROVE LimitsRespected'
  <2>1. PICK entry : placed' = Append(placed, entry)
    BY <1>3 DEF InsertOrder
  <2>2. ToSet(placed) \subseteq ToSet(placed')
    BY <1>2, <2>1 DEF ToSet
  <2>3. \A k \in DOMAIN executed : Within(placed', executed[k])
    BY <1>1, <2>2
  <2>4. executed' = executed
    BY <1>3 DEF InsertOrder
  <2> QED BY <2>3, <2>4 DEF LimitsRespected
<1>4. ASSUME NEW t \in Threads, ExecuteTrade(t) PROVE LimitsRespected'
  <2> DEFINE s     == target[t]
             buy   == Head(Bids(s))
             sell  == Head(Asks(s))
             qty   == FillQty(buy, sell)
             price == ExecPrice(buy.price, sell.price)
             trade == Trade(s, buy, sell, qty, price)
  <2>1. s \in Symbols /\ Crossed(s)
    BY <1>4, MatchingTarget DEF ExecuteTrade
  <2>2. /\ RestsProperly(buy, s, "BUY", placed) /\ RestsProperly(sell, s, "SELL", placed)
        /\ sell.price <= price /\ price <= buy.price /\ trade \in ATrade
    BY <2>1, CrossingHeads
  <2>3. /\ trade.symbol = s /\ trade.price = price
        /\ trade.buyOrderId = buy.orderId /\ trade.sellOrderId = sell.orderId
    BY DEF Trade
  <2>4. executed' = Append(executed, trade) /\ placed' = placed
    BY <1>4 DEF ExecuteTrade
  <2> HIDE DEF s, buy, sell, qty, price, trade
  <2>5. Within(placed, trade)
    <3>1. PICK b \in ToSet(placed) : SameOrder(b, buy)
      BY <2>2 DEF RestsProperly, ToSet
    <3>2. PICK a \in ToSet(placed) : SameOrder(a, sell)
      BY <2>2 DEF RestsProperly, ToSet
    <3>3. b \in Party(placed, trade, "BUY") /\ a \in Party(placed, trade, "SELL")
      BY <2>2, <2>3, <3>1, <3>2 DEF SameOrder, RestsProperly, OrderIdOn
    <3>4. a.price <= trade.price /\ trade.price <= b.price
      BY <2>2, <2>3, <3>1, <3>2 DEF SameOrder
    <3> QED BY <3>3, <3>4
  <2> HIDE DEF Within
  <2>6. \A k \in DOMAIN executed' : Within(placed, executed'[k])
    <3>1. /\ DOMAIN executed' = 1 .. Len(executed) + 1
          /\ DOMAIN executed = 1 .. Len(executed) /\ Len(executed) \in Nat
          /\ \A k \in 1 .. Len(executed) : executed'[k] = executed[k]
          /\ executed'[Len(executed) + 1] = trade
      BY <1>2, <2>2, <2>4
    <3> QED BY <1>1, <2>5, <3>1
  <2> QED BY <2>4, <2>6 DEF LimitsRespected, Within
<1>5. ASSUME UNCHANGED <<placed, executed>> PROVE LimitsRespected'
  BY <1>5 DEF LimitsRespected
<1>6. ASSUME NEW t \in Threads,
             \/ BeginCall(t) \/ TakeMarketPrice(t) \/ SignalNewOrder(t) \/ AccountTrade(t)
             \/ EndMatch(t) \/ PublishHistory(t) \/ PublishStock(t)
      PROVE  LimitsRespected'
  BY <1>5, <1>6 DEF BeginCall, BeginMatch, BeginSubmit, TakeMarketPrice, SignalNewOrder,
                    AccountTrade, EndMatch, PublishHistory, PublishStock
<1>7. ASSUME WakeStep \/ \E s \in Symbols, price \in Nat : UpdatePrice(s, price)
      PROVE  LimitsRespected'
  BY <1>5, <1>7 DEF WakeStep, UpdatePrice
<1> QED BY <1>3, <1>4, <1>6, <1>7 DEF OrderBookNext, SubmitStep, MatchStep

THEOREM LimitsKept == OrderBookSpec => []LimitsRespected
<1>1. OrderBookInit => LimitsRespected
  BY DEF OrderBookInit, LimitsRespected
<1>2. OrderBookInv /\ LimitsRespected /\ [OrderBookNext]_orderBookVars => LimitsRespected'
  <2>1. LimitsRespected /\ UNCHANGED orderBookVars => LimitsRespected'
    BY DEF LimitsRespected, orderBookVars, bookVars, totalVars
  <2> QED BY <2>1, LimitsStep
<1> QED BY <1>1, <1>2, OrderBookInvariant, PTL DEF OrderBookSpec

\* A stock's range brackets its opening and its current price.
THEOREM RangeKept == OrderBookSpec => []StockRange
<1> USE DEF bookVars, marketVars, totalVars, wakeVars, matchVars
<1>1. OrderBookInit => StockRange
  BY PriceAssumption DEF OrderBookInit, NewStock, StockRange, Lesser
<1>2. OrderBookInv /\ StockRange /\ [OrderBookNext]_orderBookVars => StockRange'
  <2> SUFFICES ASSUME OrderBookInv, StockRange, [OrderBookNext]_orderBookVars
               PROVE  StockRange'
    OBVIOUS
  <2>1. stocks \in [Symbols -> Stock]
    BY DEF OrderBookInv, TypeOK
  <2>2. ASSUME NEW s \in Symbols, NEW price \in Nat,
               stocks' = [stocks EXCEPT ![s] = SetPrice(@, price)]
        PROVE  StockRange'
    <3> SUFFICES ASSUME NEW u \in Symbols
                 PROVE  /\ stocks'[u].lowPrice <= Lesser(stocks'[u].currentPrice, OpenPrice[u])
                        /\ stocks'[u].currentPrice <= stocks'[u].highPrice
                        /\ OpenPrice[u] <= stocks'[u].highPrice
      BY DEF StockRange
    <3> DEFINE old == stocks[u]
    <3>1. /\ old.currentPrice \in Nat /\ old.highPrice \in Nat /\ old.lowPrice \in Nat
          /\ OpenPrice[u] \in Nat
      BY <2>1, PriceAssumption DEF Stock
    <3>2. /\ old.lowPrice <= Lesser(old.currentPrice, OpenPrice[u])
          /\ old.currentPrice <= old.highPrice /\ OpenPrice[u] <= old.highPrice
      BY DEF StockRange
    <3>3. stocks'[u] = IF u = s THEN SetPrice(old, price) ELSE old
      BY <2>1, <2>2
    <3> HIDE DEF old
    <3>4. CASE u = s
      <4>1. /\ stocks'[u].currentPrice = price
            /\ stocks'[u].highPrice = IF price > old.highPrice THEN price ELSE old.highPrice
            /\ stocks'[u].lowPrice = IF price < old.lowPrice THEN price ELSE old.lowPrice
        BY <3>3, <3>4 DEF SetPrice
      <4> QED BY <3>1, <3>2, <4>1 DEF Lesser
    <3>5. CASE u # s
      BY <3>2, <3>3, <3>5
    <3> QED BY <3>4, <3>5
  <2>3. ASSUME NEW t \in Threads, PublishStock(t) PROVE StockRange'
    <3> DEFINE s     == target[t]
               price == Last(trades[t]).price
    <3>1. s \in Symbols /\ trades[t] # <<>> /\ trades[t] \in Seq(ATrade)
      BY <2>3, MatchingTarget DEF PublishStock, OrderBookInv, BatchesCarried, TypeOK
    <3>2. price \in Nat
      <4>1. Last(trades[t]) \in ATrade
        BY <3>1, EmptySeq, ElementOfSeq DEF Last
      <4> QED BY <4>1 DEF ATrade, TradeRecord
    <3>3. stocks' = [stocks EXCEPT ![s] = SetPrice(stocks[s], price)]
      BY <2>3 DEF PublishStock
    <3> HIDE DEF s, price
    <3> QED BY <2>2, <3>1, <3>2, <3>3
  <2>4. ASSUME UNCHANGED stocks PROVE StockRange'
    <3> SUFFICES ASSUME NEW u \in Symbols
                 PROVE  /\ stocks[u].lowPrice <= Lesser(stocks[u].currentPrice, OpenPrice[u])
                        /\ stocks[u].currentPrice <= stocks[u].highPrice
                        /\ OpenPrice[u] <= stocks[u].highPrice
      BY <2>4 DEF StockRange
    <3> QED BY DEF StockRange
  <2>5. ASSUME NEW t \in Threads,
               \/ BeginCall(t) \/ SubmitStep(t) \/ ExecuteTrade(t) \/ AccountTrade(t)
               \/ EndMatch(t) \/ PublishHistory(t)
        PROVE  StockRange'
    BY <2>4, <2>5 DEF BeginCall, BeginMatch, BeginSubmit, SubmitStep, TakeMarketPrice,
                      InsertOrder, SignalNewOrder, ExecuteTrade, AccountTrade, EndMatch,
                      PublishHistory
  <2>6. CASE OrderBookNext
    BY <2>2, <2>3, <2>4, <2>5, <2>6 DEF OrderBookNext, MatchStep, UpdatePrice, WakeStep
  <2> QED BY <2>4, <2>6 DEF orderBookVars
<1> QED BY <1>1, <1>2, OrderBookInvariant, PTL DEF OrderBookSpec

-----------------------------------------------------------------------------
(***************************************************************************)
(* The ledger.  A thread carries trades of the symbol it matches and of no *)
(* other, and a step changes what one thread has left to do by as much as  *)
(* it adds to the totals, the volumes or the history.                      *)
(***************************************************************************)
BatchesOfTarget ==
  \A t \in Threads : \A k \in DOMAIN trades[t] : trades[t][k].symbol = target[t]

LedgerInv == BatchesOfTarget /\ LedgerBalances

AllUnaccounted == SumOf([t \in Threads |-> Unaccounted(t)])
AllCarried(s)  == SumOf([t \in Threads |-> Carried(t, s)])
AllUnrecorded  == SumOf([t \in Threads |-> Unrecorded(t)])

\* Trades have natural quantities, and so have batches and histories.
LEMMA TradeQuantities ==
  /\ \A trade \in ATrade : trade.quantity \in Nat
  /\ \A batch \in Seq(ATrade) : SharesOf(batch) \in Nat /\ Len(batch) \in Nat
  /\ \A batch \in Seq(ATrade) : batch # <<>> => Last(batch) \in ATrade
<1>1. \A trade \in ATrade : trade.quantity \in Nat
  BY DEF ATrade, TradeRecord
<1>2. ASSUME NEW batch \in Seq(ATrade) PROVE SharesOf(batch) \in Nat /\ Len(batch) \in Nat
  BY BatchShares, LenProperties
<1>3. ASSUME NEW batch \in Seq(ATrade), batch # <<>> PROVE Last(batch) \in ATrade
  BY <1>3, EmptySeq, ElementOfSeq DEF Last
<1> QED BY <1>1, <1>2, <1>3

\* What a thread has left to do are numbers of shares or trades.
LEMMA LeftTyped ==
  ASSUME OrderBookInv, NEW t \in Threads
  PROVE  /\ Unaccounted(t) \in Nat /\ Unrecorded(t) \in Nat
         /\ \A s \in Symbols : Carried(t, s) \in Nat
<1>1. trades[t] \in Seq(ATrade) /\ (stage[t] = "account" => trades[t] # <<>>)
  BY DEF OrderBookInv, TypeOK, BatchesCarried
<1>2. SharesOf(trades[t]) \in Nat /\ Len(trades[t]) \in Nat
  BY <1>1, TradeQuantities
<1>3. stage[t] = "account" => Last(trades[t]).quantity \in Nat
  BY <1>1, TradeQuantities
<1> QED BY <1>2, <1>3 DEF Unaccounted, Unrecorded, Carried

\* A step that leaves the calls of all threads but one alone changes the sums
\* by what it changes for that thread.
LEMMA LeftChanged ==
  ASSUME OrderBookInv, NEW t \in Threads,
         \A u \in Threads : u # t => /\ stage'[u] = stage[u] /\ target'[u] = target[u]
                                     /\ trades'[u] = trades[u],
         Unaccounted(t)' \in Nat, Unrecorded(t)' \in Nat,
         \A s \in Symbols : Carried(t, s)' \in Nat
  PROVE  /\ AllUnaccounted \in Nat /\ AllUnaccounted' \in Nat
         /\ AllUnaccounted' = AllUnaccounted - Unaccounted(t) + Unaccounted(t)'
         /\ AllUnrecorded \in Nat /\ AllUnrecorded' \in Nat
         /\ AllUnrecorded' = AllUnrecorded - Unrecorded(t) + Unrecorded(t)'
         /\ \A s \in Symbols :
              /\ AllCarried(s) \in Nat /\ AllCarried(s)' \in Nat
              /\ AllCarried(s)' = AllCarried(s) - Carried(t, s) + Carried(t, s)'
<1> USE ThreadAssumption
<1>1. \A u \in Threads : /\ Unaccounted(u) \in Nat /\ Unrecorded(u) \in Nat
                         /\ \A s \in Symbols : Carried(u, s) \in Nat
  BY LeftTyped
<1>2. \A u \in Threads : u # t => /\ Unaccounted(u)' = Unaccounted(u)
                                  /\ Unrecorded(u)' = Unrecorded(u)
                                  /\ \A s \in Symbols : Carried(u, s)' = Carried(u, s)
  BY DEF Unaccounted, Unrecorded, Carried
<1>3. ASSUME NEW f \in [Threads -> Nat], NEW g \in [Threads -> Nat],
             \A u \in Threads : u # t => g[u] = f[u]
      PROVE  SumOf(f) \in Nat /\ SumOf(g) \in Nat /\ SumOf(g) = SumOf(f) - f[t] + g[t]
  BY <1>3, SumMoved
<1>4. /\ AllUnaccounted \in Nat /\ AllUnaccounted' \in Nat
      /\ AllUnaccounted' = AllUnaccounted - Unaccounted(t) + Unaccounted(t)'
  <2> DEFINE f == [u \in Threads |-> Unaccounted(u)]
             g == [u \in Threads |-> Unaccounted(u)']
  <2>1. /\ f \in [Threads -> Nat] /\ g \in [Threads -> Nat]
        /\ \A u \in Threads : u # t => g[u] = f[u]
        /\ f[t] = Unaccounted(t) /\ g[t] = Unaccounted(t)'
    BY <1>1, <1>2
  <2>2. AllUnaccounted = SumOf(f) /\ AllUnaccounted' = SumOf(g)
    BY DEF AllUnaccounted
  <2> HIDE DEF f, g
  <2> QED BY <1>3, <2>1, <2>2
<1>5. /\ AllUnrecorded \in Nat /\ AllUnrecorded' \in Nat
      /\ AllUnrecorded' = AllUnrecorded - Unrecorded(t) + Unrecorded(t)'
  <2> DEFINE f == [u \in Threads |-> Unrecorded(u)]
             g == [u \in Threads |-> Unrecorded(u)']
  <2>1. /\ f \in [Threads -> Nat] /\ g \in [Threads -> Nat]
        /\ \A u \in Threads : u # t => g[u] = f[u]
        /\ f[t] = Unrecorded(t) /\ g[t] = Unrecorded(t)'
    BY <1>1, <1>2
  <2>2. AllUnrecorded = SumOf(f) /\ AllUnrecorded' = SumOf(g)
    BY DEF AllUnrecorded
  <2> HIDE DEF f, g
  <2> QED BY <1>3, <2>1, <2>2
<1>6. ASSUME NEW s \in Symbols
      PROVE  /\ AllCarried(s) \in Nat /\ AllCarried(s)' \in Nat
             /\ AllCarried(s)' = AllCarried(s) - Carried(t, s) + Carried(t, s)'
  <2> DEFINE f == [u \in Threads |-> Carried(u, s)]
             g == [u \in Threads |-> Carried(u, s)']
  <2>1. /\ f \in [Threads -> Nat] /\ g \in [Threads -> Nat]
        /\ \A u \in Threads : u # t => g[u] = f[u]
        /\ f[t] = Carried(t, s) /\ g[t] = Carried(t, s)'
    BY <1>1, <1>2
  <2>2. AllCarried(s) = SumOf(f) /\ AllCarried(s)' = SumOf(g)
    BY DEF AllCarried
  <2> HIDE DEF f, g
  <2> QED BY <1>3, <2>1, <2>2
<1> QED BY <1>4, <1>5, <1>6

\* A step that leaves the ledger alone and moves no thread into or out of the
\* stages in which it owes an entry.
LEMMA LedgerQuiet ==
  ASSUME LedgerInv, UNCHANGED <<trades, volume, tradeHistory, totalVars>>,
         \A t \in Threads : /\ stage'[t] = "account" <=> stage[t] = "account"
                            /\ stage'[t] = "publish" <=> stage[t] = "publish"
                            /\ target'[t] = target[t] \/ trades[t] = <<>>
  PROVE  LedgerInv'
<1>1. BatchesOfTarget'
  BY DEF LedgerInv, BatchesOfTarget
<1>2. \A t \in Threads : /\ Unaccounted(t)' = Unaccounted(t)
                         /\ Unrecorded(t)' = Unrecorded(t)
  BY DEF Unaccounted, Unrecorded
<1>3. \A t \in Threads : \A s \in Symbols : Carried(t, s)' = Carried(t, s)
  BY SharesOfNothing DEF Carried
<1>4. /\ [t \in Threads |-> Unaccounted(t)]' = [t \in Threads |-> Unaccounted(t)]
      /\ [t \in Threads |-> Unrecorded(t)]' = [t \in Threads |-> Unrecorded(t)]
  BY <1>2
<1>5. \A s \in Symbols :
        [t \in Threads |-> Carried(t, s)]' = [t \in Threads |-> Carried(t, s)]
  BY <1>3
<1>6. LedgerBalances'
  BY <1>4, <1>5 DEF LedgerInv, LedgerBalances, totalVars
<1> QED BY <1>1, <1>6 DEF LedgerInv

\* A trade that executes is one to account, to record and to publish.
LEMMA LedgerExecute ==
  ASSUME OrderBookInv, LedgerInv, NEW t \in Threads, ExecuteTrade(t)
  PROVE  LedgerInv'
<1> DEFINE s     == target[t]
           buy   == Head(Bids(s))
           sell  == Head(Asks(s))
           trade == Trade(s, buy, sell, FillQty(buy, sell), ExecPrice(buy.price, sell.price))
<1>1. s \in Symbols /\ Crossed(s) /\ stage[t] = "match"
  BY MatchingTarget DEF ExecuteTrade, OrderBookInv
<1>2. trade \in ATrade /\ trade.symbol = s
  <2>1. trade \in ATrade
    BY <1>1, CrossingHeads DEF OrderBookInv
  <2> QED BY <2>1 DEF Trade
<1>3. /\ trades' = [trades EXCEPT ![t] = Append(trades[t], trade)]
      /\ executed' = Append(executed, trade) /\ totalTrades' = totalTrades + 1
      /\ stage' = [stage EXCEPT ![t] = "account"]
      /\ UNCHANGED <<volume, tradeHistory, totalVolume, target>>
  BY DEF ExecuteTrade, marketVars
<1> HIDE DEF s, buy, sell, trade
<1>4. /\ executed \in Seq(ATrade) /\ trades \in [Threads -> Seq(ATrade)]
      /\ stage \in [Threads -> Stages]
  BY DEF OrderBookInv, TypeOK
<1>5. trades[t] \in Seq(ATrade) /\ trades'[t] = Append(trades[t], trade) /\ stage'[t] = "account"
  BY <1>3, <1>4
<1>6. /\ trade.quantity \in Nat /\ SharesOf(trades[t]) \in Nat /\ Len(trades[t]) \in Nat
      /\ SharesOf(executed) \in Nat /\ Len(executed) \in Nat
  BY <1>2, <1>4, <1>5, TradeQuantities
<1>7. /\ SharesOf(trades'[t]) = SharesOf(trades[t]) + trade.quantity
      /\ SharesOf(executed') = SharesOf(executed) + trade.quantity
  BY <1>2, <1>3, <1>4, <1>5, TradeQuantities, SharesOfAppend
<1>8. /\ Last(trades'[t]) = trade /\ Len(trades'[t]) = Len(trades[t]) + 1
      /\ Len(executed') = Len(executed) + 1
  BY <1>2, <1>3, <1>4, <1>5, AppendProperties DEF Last
<1>9. /\ Unaccounted(t) = 0 /\ Unaccounted(t)' = trade.quantity
      /\ Unrecorded(t) = Len(trades[t]) /\ Unrecorded(t)' = Len(trades[t]) + 1
  BY <1>1, <1>5, <1>8 DEF Unaccounted, Unrecorded
<1>10. \A u \in Symbols :
         /\ Carried(t, u) = IF u = s THEN SharesOf(trades[t]) ELSE 0
         /\ Carried(t, u)' = IF u = s THEN SharesOf(trades[t]) + trade.quantity ELSE 0
  BY <1>3, <1>7 DEF Carried, s
<1>11. \A u \in Threads : u # t => /\ stage'[u] = stage[u] /\ target'[u] = target[u]
                                   /\ trades'[u] = trades[u]
  BY <1>3, <1>4
<1>12. /\ AllUnaccounted \in Nat /\ AllUnaccounted' = AllUnaccounted + trade.quantity
       /\ AllUnrecorded \in Nat /\ AllUnrecorded' = AllUnrecorded + 1
       /\ \A u \in Symbols :
            /\ AllCarried(u) \in Nat
            /\ AllCarried(u)' = AllCarried(u) + IF u = s THEN trade.quantity ELSE 0
  <2>1. \A u \in Symbols : Carried(t, u)' \in Nat
    BY <1>6, <1>10
  <2>2. Unaccounted(t)' \in Nat /\ Unrecorded(t)' \in Nat
    BY <1>6, <1>9
  <2>3. /\ AllUnaccounted \in Nat /\ AllUnaccounted' \in Nat
        /\ AllUnaccounted' = AllUnaccounted - Unaccounted(t) + Unaccounted(t)'
        /\ AllUnrecorded \in Nat /\ AllUnrecorded' \in Nat
        /\ AllUnrecorded' = AllUnrecorded - Unrecorded(t) + Unrecorded(t)'
        /\ \A u \in Symbols :
             /\ AllCarried(u) \in Nat /\ AllCarried(u)' \in Nat
             /\ AllCarried(u)' = AllCarried(u) - Carried(t, u) + Carried(t, u)'
    BY <1>11, <2>1, <2>2, LeftChanged
  <2>4. ASSUME NEW u \in Symbols
        PROVE  AllCarried(u)' = AllCarried(u) + IF u = s THEN trade.quantity ELSE 0
    <3>1. /\ AllCarried(u) \in Nat /\ AllCarried(u)' \in Nat
          /\ AllCarried(u)' = AllCarried(u) - Carried(t, u) + Carried(t, u)'
      BY <2>3
    <3>2. CASE u = s
      <4>1. /\ Carried(t, u) = SharesOf(trades[t])
            /\ Carried(t, u)' = SharesOf(trades[t]) + trade.quantity
        BY <1>10, <3>2
      <4> QED BY <1>6, <3>1, <3>2, <4>1
    <3>3. CASE u # s
      <4>1. Carried(t, u) = 0 /\ Carried(t, u)' = 0
        BY <1>10, <3>3
      <4> QED BY <3>1, <3>3, <4>1
    <3> QED BY <3>2, <3>3
  <2>5. AllUnaccounted' = AllUnaccounted + trade.quantity
    BY <1>6, <1>9, <2>3
  <2>6. AllUnrecorded' = AllUnrecorded + 1
    <3> DEFINE now  == AllUnrecorded
               then == AllUnrecorded'
               size == Len(trades[t])
    <3>1. now \in Nat /\ size \in Nat /\ then = now - size + (size + 1)
      BY <1>6, <1>9, <2>3
    <3> HIDE DEF now, then, size
    <3>2. then = now + 1
      BY <3>1
    <3> QED BY <3>2 DEF now, then
  <2> QED BY <2>3, <2>4, <2>5, <2>6
<1>13. BatchesOfTarget'
  <2>1. \A k \in DOMAIN trades'[t] : trades'[t][k].symbol = s
    <3>1. \A k \in DOMAIN trades[t] : trades[t][k].symbol = s
      BY DEF LedgerInv, BatchesOfTarget, s
    <3>2. /\ DOMAIN trades'[t] = 1 .. Len(trades[t]) + 1
          /\ DOMAIN trades[t] = 1 .. Len(trades[t])
          /\ \A k \in 1 .. Len(trades[t]) : trades'[t][k] = trades[t][k]
          /\ trades'[t][Len(trades[t]) + 1] = trade
      <4> DEFINE batch == trades[t]
                 more  == trades'[t]
      <4>1. batch \in Seq(ATrade) /\ more = Append(batch, trade) /\ Len(batch) \in Nat
        BY <1>5, <1>6
      <4> HIDE DEF batch, more
      <4>2. /\ DOMAIN more = 1 .. Len(batch) + 1 /\ DOMAIN batch = 1 .. Len(batch)
            /\ \A k \in 1 .. Len(batch) : more[k] = batch[k]
            /\ more[Len(batch) + 1] = trade
        BY <1>2, <4>1
      <4> QED BY <4>2 DEF batch, more
    <3>3. trade.symbol = s /\ Len(trades[t]) \in Nat
      BY <1>2, <1>6
    <3> DEFINE n == Len(trades[t])
    <3>4. ASSUME NEW k \in 1 .. n + 1 PROVE trades'[t][k].symbol = s
      <4>1. CASE k = n + 1
        BY <3>2, <3>3, <4>1
      <4>2. CASE k # n + 1
        <5>1. k \in 1 .. n
          BY <3>3, <4>2
        <5> QED BY <3>1, <3>2, <5>1
      <4> QED BY <4>1, <4>2
    <3> QED BY <3>2, <3>4
  <2>2. s = target'[t]
    BY <1>3 DEF s
  <2> QED BY <1>11, <2>1, <2>2 DEF LedgerInv, BatchesOfTarget
<1>14. LedgerBalances'
  <2>1. /\ totalTrades = Len(executed) /\ totalVolume + AllUnaccounted = SharesOf(executed)
        /\ \A u \in Symbols : volume[u] + AllCarried(u) = SharesOn(u, executed)
        /\ Len(tradeHistory) = Lesser(MAX_HISTORY, Len(executed) - AllUnrecorded)
    BY DEF LedgerInv, LedgerBalances, AllUnaccounted, AllCarried, AllUnrecorded
  <2>2. totalVolume \in Nat /\ volume \in [Symbols -> Nat]
    BY DEF OrderBookInv, TypeOK
  <2>3. \A u \in Symbols : SharesOn(u, executed') =
          SharesOn(u, executed) + IF u = s THEN trade.quantity ELSE 0
    BY <1>2, <1>3, <1>4, TradeQuantities, SharesOnProperties
  <2>4. ASSUME NEW u \in Symbols
        PROVE  volume'[u] + AllCarried(u)' = SharesOn(u, executed')
    <3>1. volume[u] \in Nat /\ volume' = volume
      BY <1>3, <2>2
    <3>2. /\ volume[u] + AllCarried(u) = SharesOn(u, executed)
          /\ AllCarried(u) \in Nat
          /\ AllCarried(u)' = AllCarried(u) + IF u = s THEN trade.quantity ELSE 0
      BY <1>12, <2>1
    <3>3. SharesOn(u, executed') = SharesOn(u, executed) + IF u = s THEN trade.quantity ELSE 0
      BY <2>3
    <3> QED BY <1>6, <3>1, <3>2, <3>3
  <2>5. totalVolume' + AllUnaccounted' = SharesOf(executed')
    BY <1>3, <1>6, <1>7, <1>12, <2>1, <2>2
  <2>6. Len(executed') - AllUnrecorded' = Len(executed) - AllUnrecorded
    BY <1>6, <1>8, <1>12
  <2>7. totalTrades' = Len(executed') /\ tradeHistory' = tradeHistory
    BY <1>3, <1>8, <2>1
  <2>8. Len(tradeHistory') = Lesser(MAX_HISTORY, Len(executed') - AllUnrecorded')
    BY <2>1, <2>6, <2>7
  <2> QED BY <2>4, <2>5, <2>7, <2>8
          DEF LedgerBalances, AllUnaccounted, AllCarried, AllUnrecorded
<1> QED BY <1>13, <1>14 DEF LedgerInv

\* Accounting the trade pays what it owes to totalVolume.
LEMMA LedgerAccount ==
  ASSUME OrderBookInv, LedgerInv, NEW t \in Threads, AccountTrade(t)
  PROVE  LedgerInv'
<1> DEFINE qty == Last(trades[t]).quantity
<1>1. /\ stage[t] = "account" /\ stage' = [stage EXCEPT ![t] = "match"]
      /\ totalVolume' = totalVolume + qty
      /\ UNCHANGED <<trades, target, volume, tradeHistory, totalTrades, executed>>
  BY DEF AccountTrade, marketVars, matchVars
<1>2. /\ stage \in [Threads -> Stages] /\ trades[t] \in Seq(ATrade) /\ trades[t] # <<>>
      /\ totalVolume \in Nat /\ executed \in Seq(ATrade)
  BY <1>1 DEF OrderBookInv, TypeOK, BatchesCarried
<1>3. /\ qty \in Nat /\ SharesOf(trades[t]) \in Nat /\ Len(trades[t]) \in Nat
      /\ SharesOf(executed) \in Nat
  BY <1>2, TradeQuantities
<1>4. \A u \in Threads : u # t => /\ stage'[u] = stage[u] /\ target'[u] = target[u]
                                  /\ trades'[u] = trades[u]
  BY <1>1, <1>2
<1>5. /\ Unaccounted(t) = qty /\ Unaccounted(t)' = 0
      /\ Unrecorded(t) = Len(trades[t]) /\ Unrecorded(t)' = Len(trades[t])
      /\ \A u \in Symbols : Carried(t, u)' = Carried(t, u) /\ Carried(t, u) \in Nat
  <2>1. stage'[t] = "match"
    BY <1>1, <1>2
  <2>2. \A u \in Symbols : Carried(t, u)' = Carried(t, u)
    BY <1>1 DEF Carried
  <2> QED BY <1>1, <2>1, <2>2, LeftTyped DEF Unaccounted, Unrecorded
<1> HIDE DEF qty
<1>6. /\ AllUnaccounted \in Nat /\ AllUnaccounted' \in Nat
      /\ AllUnaccounted' = AllUnaccounted - qty
      /\ AllUnrecorded' = AllUnrecorded
      /\ \A u \in Symbols : AllCarried(u)' = AllCarried(u)
  <2>1. /\ AllUnaccounted \in Nat /\ AllUnaccounted' \in Nat
        /\ AllUnaccounted' = AllUnaccounted - Unaccounted(t) + Unaccounted(t)'
        /\ AllUnrecorded \in Nat /\ AllUnrecorded' \in Nat
        /\ AllUnrecorded' = AllUnrecorded - Unrecorded(t) + Unrecorded(t)'
        /\ \A u \in Symbols :
             /\ AllCarried(u) \in Nat /\ AllCarried(u)' \in Nat
             /\ AllCarried(u)' = AllCarried(u) - Carried(t, u) + Carried(t, u)'
    <3>1. Unaccounted(t)' \in Nat /\ Unrecorded(t)' \in Nat
      BY <1>3, <1>5
    <3>2. \A u \in Symbols : Carried(t, u)' \in Nat
      BY <1>5
    <3> QED BY <1>4, <3>1, <3>2, LeftChanged
  <2>2. ASSUME NEW u \in Symbols PROVE AllCarried(u)' = AllCarried(u)
    <3>1. /\ AllCarried(u) \in Nat
          /\ AllCarried(u)' = AllCarried(u) - Carried(t, u) + Carried(t, u)'
      BY <2>1
    <3>2. Carried(t, u)' = Carried(t, u) /\ Carried(t, u) \in Nat
      BY <1>5
    <3> QED BY <3>1, <3>2
  <2>3. /\ AllUnaccounted \in Nat /\ AllUnaccounted' \in Nat
        /\ AllUnaccounted' = AllUnaccounted - Unaccounted(t) + Unaccounted(t)'
        /\ AllUnrecorded \in Nat /\ AllUnrecorded' \in Nat
        /\ AllUnrecorded' = AllUnrecorded - Unrecorded(t) + Unrecorded(t)'
    BY <2>1
  <2>4. /\ Unaccounted(t) = qty /\ Unaccounted(t)' = 0
        /\ Unrecorded(t) = Len(trades[t]) /\ Unrecorded(t)' = Len(trades[t])
    BY <1>5
  <2>5. AllUnaccounted' = AllUnaccounted - qty
    BY <1>3, <2>3, <2>4
  <2>6. AllUnrecorded' = AllUnrecorded
    BY <1>3, <2>3, <2>4
  <2> QED BY <2>2, <2>3, <2>5, <2>6
<1>7. BatchesOfTarget'
  BY <1>1 DEF LedgerInv, BatchesOfTarget
<1>8. LedgerBalances'
  <2>1. /\ totalTrades = Len(executed) /\ totalVolume + AllUnaccounted = SharesOf(executed)
        /\ \A u \in Symbols : volume[u] + AllCarried(u) = SharesOn(u, executed)
        /\ Len(tradeHistory) = Lesser(MAX_HISTORY, Len(executed) - AllUnrecorded)
    BY DEF LedgerInv, LedgerBalances, AllUnaccounted, AllCarried, AllUnrecorded
  <2>2. totalVolume' + AllUnaccounted' = SharesOf(executed')
    <3>1. totalVolume' = totalVolume + qty /\ executed' = executed
      BY <1>1
    <3>2. /\ AllUnaccounted \in Nat /\ AllUnaccounted' \in Nat
          /\ AllUnaccounted' = AllUnaccounted - qty
      BY <1>6
    <3>3. totalVolume + AllUnaccounted = SharesOf(executed)
      BY <2>1
    <3>4. totalVolume' + AllUnaccounted' = totalVolume + AllUnaccounted
      BY <1>2, <1>3, <3>1, <3>2
    <3> QED BY <3>1, <3>3, <3>4
  <2>3. \A u \in Symbols : volume'[u] + AllCarried(u)' = SharesOn(u, executed')
    BY <1>1, <1>6, <2>1
  <2>4. /\ totalTrades' = Len(executed')
        /\ Len(tradeHistory') = Lesser(MAX_HISTORY, Len(executed') - AllUnrecorded')
    BY <1>1, <1>6, <2>1
  <2> QED BY <2>2, <2>3, <2>4 DEF LedgerBalances, AllUnaccounted, AllCarried, AllUnrecorded
<1> QED BY <1>7, <1>8 DEF LedgerInv

\* The length of a history that keeps the most recent trades.
LEMMA RecentLength ==
  ASSUME NEW history \in Seq(ATrade), NEW batch \in Seq(ATrade)
  PROVE  Len(KeepRecent(history \o batch)) = Lesser(MAX_HISTORY, Len(history) + Len(batch))
<1> DEFINE all == history \o batch
<1>1. all \in Seq(ATrade) /\ Len(all) = Len(history) + Len(batch)
      /\ Len(all) \in Nat /\ MAX_HISTORY \in Nat
  BY ConcatProperties, LenProperties, HistoryAssumption
<1> HIDE DEF all
<1>2. CASE Len(all) > MAX_HISTORY
  <2> DEFINE m == Len(all) - MAX_HISTORY + 1
  <2>1. m \in 1 .. Len(all) + 1 /\ Len(all) - m + 1 = MAX_HISTORY
    BY <1>1, <1>2
  <2>2. Len(SubSeq(all, m, Len(all))) = MAX_HISTORY
    <3> HIDE DEF m
    <3> QED BY <1>1, <2>1, SubSeqProperties
  <2> QED BY <1>1, <1>2, <2>2 DEF KeepRecent, Lesser, all
<1>3. CASE ~(Len(all) > MAX_HISTORY)
  BY <1>1, <1>3 DEF KeepRecent, Lesser, all
<1> QED BY <1>2, <1>3

\* Handing the trades to the history pays what is owed to it.
LEMMA LedgerRecord ==
  ASSUME OrderBookInv, LedgerInv, NEW t \in Threads, PublishHistory(t)
  PROVE  LedgerInv'
<1>1. /\ stage[t] = "history" /\ stage' = [stage EXCEPT ![t] = "publish"]
      /\ tradeHistory' = KeepRecent(tradeHistory \o trades[t])
      /\ UNCHANGED <<trades, target, volume, totalVars>>
  BY DEF PublishHistory, marketVars, matchVars
<1>2. /\ stage \in [Threads -> Stages] /\ trades[t] \in Seq(ATrade)
      /\ tradeHistory \in Seq(ATrade) /\ executed \in Seq(ATrade)
  BY DEF OrderBookInv, TypeOK
<1>3. Len(trades[t]) \in Nat /\ Len(tradeHistory) \in Nat /\ Len(executed) \in Nat
  BY <1>2, TradeQuantities
<1>4. \A u \in Threads : u # t => /\ stage'[u] = stage[u] /\ target'[u] = target[u]
                                  /\ trades'[u] = trades[u]
  BY <1>1, <1>2
<1>5. /\ Unaccounted(t) = 0 /\ Unaccounted(t)' = 0
      /\ Unrecorded(t) = Len(trades[t]) /\ Unrecorded(t)' = 0
      /\ \A u \in Symbols : Carried(t, u)' = Carried(t, u) /\ Carried(t, u) \in Nat
  <2>1. stage'[t] = "publish"
    BY <1>1, <1>2
  <2>2. \A u \in Symbols : Carried(t, u)' = Carried(t, u)
    BY <1>1 DEF Carried
  <2> QED BY <1>1, <2>1, <2>2, LeftTyped DEF Unaccounted, Unrecorded
<1>6. /\ AllUnaccounted' = AllUnaccounted
      /\ AllUnrecorded \in Nat /\ AllUnrecorded' \in Nat
      /\ AllUnrecorded' = AllUnrecorded - Len(trades[t])
      /\ \A u \in Symbols : AllCarried(u)' = AllCarried(u)
  <2>1. /\ AllUnaccounted \in Nat /\ AllUnaccounted' \in Nat
        /\ AllUnaccounted' = AllUnaccounted - Unaccounted(t) + Unaccounted(t)'
        /\ AllUnrecorded \in Nat /\ AllUnrecorded' \in Nat
        /\ AllUnrecorded' = AllUnrecorded - Unrecorded(t) + Unrecorded(t)'
        /\ \A u \in Symbols :
             /\ AllCarried(u) \in Nat /\ AllCarried(u)' \in Nat
             /\ AllCarried(u)' = AllCarried(u) - Carried(t, u) + Carried(t, u)'
    BY <1>4, <1>5, LeftChanged
  <2>2. ASSUME NEW u \in Symbols PROVE AllCarried(u)' = AllCarried(u)
    <3>1. /\ AllCarried(u) \in Nat
          /\ AllCarried(u)' = AllCarried(u) - Carried(t, u) + Carried(t, u)'
      BY <2>1
    <3>2. Carried(t, u)' = Carried(t, u) /\ Carried(t, u) \in Nat
      BY <1>5
    <3> QED BY <3>1, <3>2
  <2>3. /\ AllUnaccounted \in Nat /\ AllUnaccounted' \in Nat
        /\ AllUnaccounted' = AllUnaccounted - Unaccounted(t) + Unaccounted(t)'
        /\ AllUnrecorded \in Nat /\ AllUnrecorded' \in Nat
        /\ AllUnrecorded' = AllUnrecorded - Unrecorded(t) + Unrecorded(t)'
    BY <2>1
  <2>4. /\ Unaccounted(t) = 0 /\ Unaccounted(t)' = 0
        /\ Unrecorded(t) = Len(trades[t]) /\ Unrecorded(t)' = 0
    BY <1>5
  <2>5. AllUnaccounted' = AllUnaccounted
    BY <2>3, <2>4
  <2>6. AllUnrecorded' = AllUnrecorded - Len(trades[t])
    BY <1>3, <2>3, <2>4
  <2> QED BY <2>2, <2>3, <2>5, <2>6
<1>7. BatchesOfTarget'
  BY <1>1 DEF LedgerInv, BatchesOfTarget
<1>8. LedgerBalances'
  <2>1. /\ totalTrades = Len(executed) /\ totalVolume + AllUnaccounted = SharesOf(executed)
        /\ \A u \in Symbols : volume[u] + AllCarried(u) = SharesOn(u, executed)
        /\ Len(tradeHistory) = Lesser(MAX_HISTORY, Len(executed) - AllUnrecorded)
    BY DEF LedgerInv, LedgerBalances, AllUnaccounted, AllCarried, AllUnrecorded
  <2>2. Len(tradeHistory') = Lesser(MAX_HISTORY, Len(tradeHistory) + Len(trades[t]))
    BY <1>1, <1>2, RecentLength
  <2>3. Len(tradeHistory') = Lesser(MAX_HISTORY, Len(executed) - AllUnrecorded')
    <3> DEFINE now  == AllUnrecorded
               then == AllUnrecorded'
               size == Len(trades[t])
               kept == Len(tradeHistory)
               more == Len(tradeHistory')
               all  == Len(executed)
    <3>1. /\ size \in Nat /\ kept \in Nat /\ all \in Nat /\ now \in Nat /\ then \in Nat
          /\ then = now - size /\ MAX_HISTORY \in Nat
          /\ kept = Lesser(MAX_HISTORY, all - now) /\ more = Lesser(MAX_HISTORY, kept + size)
      BY <1>3, <1>6, <2>1, <2>2, HistoryAssumption
    <3> HIDE DEF now, then, size, kept, more, all
    <3>2. more = Lesser(MAX_HISTORY, all - then)
      BY <3>1 DEF Lesser
    <3> QED BY <3>2 DEF then, more, all
  <2>4. /\ executed' = executed /\ totalTrades' = totalTrades /\ totalVolume' = totalVolume
        /\ volume' = volume
    BY <1>1 DEF totalVars
  <2> QED BY <1>6, <2>1, <2>3, <2>4 DEF LedgerBalances, AllUnaccounted, AllCarried, AllUnrecorded
<1> QED BY <1>7, <1>8 DEF LedgerInv

\* Publishing the shares pays what is owed to the volume of the symbol.
LEMMA LedgerPublish ==
  ASSUME OrderBookInv, LedgerInv, NEW t \in Threads, PublishStock(t)
  PROVE  LedgerInv'
<1> DEFINE s      == target[t]
           shares == SharesOf(trades[t])
<1>1. /\ stage[t] = "publish" /\ stage' = [stage EXCEPT ![t] = "idle"]
      /\ volume' = [volume EXCEPT ![s] = volume[s] + shares]
      /\ target' = [target EXCEPT ![t] = NoSymbol] /\ trades' = [trades EXCEPT ![t] = <<>>]
      /\ UNCHANGED <<tradeHistory, totalVars>>
  BY DEF PublishStock, AddVolume
<1>2. /\ stage \in [Threads -> Stages] /\ trades \in [Threads -> Seq(ATrade)]
      /\ target \in [Threads -> Symbols \cup {NoSymbol}] /\ volume \in [Symbols -> Nat]
  BY DEF OrderBookInv, TypeOK
<1>3. s \in Symbols /\ shares \in Nat
  <2>1. s \in Symbols
    BY <1>1, MatchingTarget DEF OrderBookInv
  <2>2. trades[t] \in Seq(ATrade)
    BY <1>2
  <2> QED BY <2>1, <2>2, TradeQuantities
<1>4. \A u \in Threads : u # t => /\ stage'[u] = stage[u] /\ target'[u] = target[u]
                                  /\ trades'[u] = trades[u]
  BY <1>1, <1>2
<1>5. /\ Unaccounted(t) = 0 /\ Unaccounted(t)' = 0
      /\ Unrecorded(t) = 0 /\ Unrecorded(t)' = 0
  <2>1. stage'[t] = "idle" /\ trades'[t] = <<>>
    BY <1>1, <1>2
  <2> QED BY <1>1, <2>1 DEF Unaccounted, Unrecorded
<1>6. \A u \in Symbols : /\ Carried(t, u) = IF u = s THEN shares ELSE 0
                         /\ Carried(t, u)' = 0
  <2>1. trades'[t] = <<>>
    BY <1>1, <1>2
  <2> QED BY <2>1, SharesOfNothing DEF Carried
<1> HIDE DEF s, shares
<1>7. /\ AllUnaccounted' = AllUnaccounted /\ AllUnrecorded' = AllUnrecorded
      /\ \A u \in Symbols : /\ AllCarried(u) \in Nat /\ AllCarried(u)' \in Nat
                            /\ AllCarried(u)' = AllCarried(u) - Carried(t, u)
  <2>1. /\ AllUnaccounted \in Nat /\ AllUnaccounted' \in Nat
        /\ AllUnaccounted' = AllUnaccounted - Unaccounted(t) + Unaccounted(t)'
        /\ AllUnrecorded \in Nat /\ AllUnrecorded' \in Nat
        /\ AllUnrecorded' = AllUnrecorded - Unrecorded(t) + Unrecorded(t)'
        /\ \A u \in Symbols :
             /\ AllCarried(u) \in Nat /\ AllCarried(u)' \in Nat
             /\ AllCarried(u)' = AllCarried(u) - Carried(t, u) + Carried(t, u)'
    BY <1>4, <1>5, <1>6, LeftChanged
  <2>2. ASSUME NEW u \in Symbols PROVE AllCarried(u)' = AllCarried(u) - Carried(t, u)
    <3>1. /\ AllCarried(u) \in Nat
          /\ AllCarried(u)' = AllCarried(u) - Carried(t, u) + Carried(t, u)'
      BY <2>1
    <3>2. Carried(t, u) \in Nat /\ Carried(t, u)' = 0
      BY <1>3, <1>6
    <3> QED BY <3>1, <3>2
  <2>3. /\ AllUnaccounted \in Nat /\ AllUnaccounted' \in Nat
        /\ AllUnaccounted' = AllUnaccounted - Unaccounted(t) + Unaccounted(t)'
        /\ AllUnrecorded \in Nat /\ AllUnrecorded' \in Nat
        /\ AllUnrecorded' = AllUnrecorded - Unrecorded(t) + Unrecorded(t)'
    BY <2>1
  <2>4. AllUnaccounted' = AllUnaccounted
    BY <1>5, <2>3
  <2>5. AllUnrecorded' = AllUnrecorded
    BY <1>5, <2>3
  <2> QED BY <2>1, <2>2, <2>4, <2>5
<1>8. BatchesOfTarget'
  <2>1. trades'[t] = <<>>
    BY <1>1, <1>2
  <2> QED BY <1>4, <2>1 DEF LedgerInv, BatchesOfTarget
<1>9. LedgerBalances'
  <2>1. /\ totalTrades = Len(executed) /\ totalVolume + AllUnaccounted = SharesOf(executed)
        /\ \A u \in Symbols : volume[u] + AllCarried(u) = SharesOn(u, executed)
        /\ Len(tradeHistory) = Lesser(MAX_HISTORY, Len(executed) - AllUnrecorded)
    BY DEF LedgerInv, LedgerBalances, AllUnaccounted, AllCarried, AllUnrecorded
  <2>2. /\ executed' = executed /\ totalTrades' = totalTrades /\ totalVolume' = totalVolume
        /\ tradeHistory' = tradeHistory
    BY <1>1 DEF totalVars
  <2>3. ASSUME NEW u \in Symbols PROVE volume'[u] + AllCarried(u)' = SharesOn(u, executed)
    <3>1. /\ volume[u] \in Nat
          /\ volume'[u] = IF u = s THEN volume[u] + shares ELSE volume[u]
      BY <1>1, <1>2
    <3>2. /\ AllCarried(u) \in Nat /\ AllCarried(u)' \in Nat
          /\ AllCarried(u)' = AllCarried(u) - Carried(t, u)
          /\ Carried(t, u) = IF u = s THEN shares ELSE 0
      BY <1>6, <1>7
    <3>3. volume[u] + AllCarried(u) = SharesOn(u, executed)
      BY <2>1
    <3> QED BY <1>3, <3>1, <3>2, <3>3
  <2> QED BY <1>7, <2>1, <2>2, <2>3 DEF LedgerBalances, AllUnaccounted, AllCarried, AllUnrecorded
<1> QED BY <1>8, <1>9 DEF LedgerInv

\* A thread that is not matching carries nothing.
LEMMA IdleCarriesNothing ==
  ASSUME OrderBookInv, LedgerInv, NEW t \in Threads, stage[t] = "idle"
  PROVE  trades[t] = <<>>
<1>1. trades[t] \in Seq(ATrade) /\ target[t] \notin Symbols
  BY DEF OrderBookInv, TypeOK, LocksHeld
<1>2. \A k \in DOMAIN trades[t] : trades[t][k].symbol = target[t]
  BY DEF LedgerInv, BatchesOfTarget
<1>3. SUFFICES ASSUME trades[t] # <<>> PROVE FALSE
  OBVIOUS
<1>4. Head(trades[t]) \in ATrade /\ Head(trades[t]) = trades[t][1] /\ 1 \in DOMAIN trades[t]
  BY <1>1, <1>3, HeadTailProperties, EmptySeq, LenProperties
<1>5. trades[t][1].symbol \in Symbols
  BY <1>4 DEF ATrade, TradeRecord
<1> QED BY <1>1, <1>2, <1>4, <1>5

LEMMA LedgerStep ==
  ASSUME OrderBookInv, LedgerInv, [OrderBookNext]_orderBookVars
  PROVE  LedgerInv'
<1> USE DEF bookVars, marketVars, totalVars, wakeVars, matchVars
<1> stage \in [Threads -> Stages] /\ target \in [Threads -> Symbols \cup {NoSymbol}]
  BY DEF OrderBookInv, TypeOK
<1>1. ASSUME UNCHANGED <<stage, trades, target, volume, tradeHistory, totalVars>>
      PROVE  LedgerInv'
  BY <1>1, LedgerQuiet
<1>2. ASSUME NEW t \in Threads, NEW to \in {"idle", "price", "insert", "signal", "match", "history"},
             stage' = [stage EXCEPT ![t] = to], stage[t] \notin {"account", "publish"},
             \A u \in Threads : target'[u] = target[u] \/ trades[u] = <<>>,
             UNCHANGED <<trades, volume, tradeHistory, totalVars>>
      PROVE  LedgerInv'
  <2>1. \A u \in Threads : /\ stage'[u] = "account" <=> stage[u] = "account"
                           /\ stage'[u] = "publish" <=> stage[u] = "publish"
    BY <1>2
  <2> QED BY <1>2, <2>1, LedgerQuiet
<1>3. ASSUME NEW t \in Threads, NEW s \in Symbols, BeginMatch(t, s) PROVE LedgerInv'
  <2>1. /\ stage[t] = "idle" /\ stage' = [stage EXCEPT ![t] = "match"]
        /\ target' = [target EXCEPT ![t] = s]
        /\ UNCHANGED <<trades, volume, tradeHistory, totalVars>>
    BY <1>3 DEF BeginMatch
  <2>2. \A u \in Threads : target'[u] = target[u] \/ trades[u] = <<>>
    BY <2>1, IdleCarriesNothing
  <2> QED BY <1>2, <2>1, <2>2
<1>4. ASSUME NEW t \in Threads, EndMatch(t) PROVE LedgerInv'
  <2>1. /\ stage[t] = "match" /\ UNCHANGED <<trades, volume, tradeHistory, totalVars>>
        /\ \/ /\ trades[t] = <<>> /\ stage' = [stage EXCEPT ![t] = "idle"]
              /\ target' = [target EXCEPT ![t] = NoSymbol]
           \/ stage' = [stage EXCEPT ![t] = "history"] /\ target' = target
    BY <1>4 DEF EndMatch
  <2>2. \A u \in Threads : target'[u] = target[u] \/ trades[u] = <<>>
    BY <2>1
  <2> QED BY <1>2, <2>1, <2>2
<1>5. ASSUME NEW t \in Threads, SubmitStep(t) PROVE LedgerInv'
  <2>1. /\ stage[t] \in {"price", "insert", "signal"}
        /\ \E to \in {"idle", "insert", "signal"} : stage' = [stage EXCEPT ![t] = to]
        /\ UNCHANGED <<trades, target, volume, tradeHistory, totalVars>>
    BY <1>5 DEF SubmitStep, TakeMarketPrice, InsertOrder, SignalNewOrder
  <2> QED BY <1>2, <2>1
<1>6. ASSUME NEW t \in Threads, NEW s \in Symbols, NEW type, NEW side, NEW qty, NEW price,
             BeginSubmit(t, s, type, side, qty, price)
      PROVE  LedgerInv'
  <2>1. /\ stage[t] = "idle"
        /\ \E to \in {"price", "insert"} : stage' = [stage EXCEPT ![t] = to]
        /\ UNCHANGED <<trades, target, volume, tradeHistory, totalVars>>
    BY <1>6 DEF BeginSubmit
  <2> QED BY <1>2, <2>1
<1>7. ASSUME NEW t \in Threads, MatchStep(t) PROVE LedgerInv'
  BY <1>4, <1>7, LedgerExecute, LedgerAccount, LedgerRecord, LedgerPublish DEF MatchStep
<1>8. CASE OrderBookNext
  <2>1. ASSUME NEW s \in Symbols, NEW price \in Nat, UpdatePrice(s, price) PROVE LedgerInv'
    BY <1>1, <2>1 DEF UpdatePrice
  <2>2. ASSUME WakeStep PROVE LedgerInv'
    BY <1>1, <2>2 DEF WakeStep
  <2>3. ASSUME NEW t \in Threads, BeginCall(t) PROVE LedgerInv'
    BY <1>3, <1>6, <2>3 DEF BeginCall
  <2> QED BY <1>5, <1>7, <1>8, <2>1, <2>2, <2>3 DEF OrderBookNext
<1>9. CASE UNCHANGED orderBookVars
  BY <1>1, <1>9 DEF orderBookVars
<1> QED BY <1>8, <1>9

LEMMA LedgerInit == OrderBookInit => LedgerInv
<1> SUFFICES ASSUME OrderBookInit PROVE LedgerInv
  OBVIOUS
<1>1. /\ totalTrades = 0 /\ totalVolume = 0 /\ executed = <<>> /\ tradeHistory = <<>>
      /\ \A s \in Symbols : volume[s] = 0
      /\ \A t \in Threads : stage[t] = "idle" /\ trades[t] = <<>>
  BY DEF OrderBookInit
<1>2. \A t \in Threads : /\ Unaccounted(t) = 0 /\ Unrecorded(t) = 0
                         /\ \A s \in Symbols : Carried(t, s) = 0
  BY <1>1, SharesOfNothing DEF Unaccounted, Unrecorded, Carried
<1>3. ASSUME NEW f \in [Threads -> Nat], \A t \in Threads : f[t] = 0 PROVE SumOf(f) = 0
  BY <1>3, SumOfZeros, ThreadAssumption
<1>4. AllUnaccounted = 0
  BY <1>2, <1>3 DEF AllUnaccounted
<1>5. AllUnrecorded = 0
  BY <1>2, <1>3 DEF AllUnrecorded
<1>6. \A s \in Symbols : AllCarried(s) = 0
  BY <1>2, <1>3 DEF AllCarried
<1>7. SharesOf(executed) = 0
  BY <1>1, SharesOfNothing
<1>8. \A s \in Symbols : SharesOn(s, executed) = 0
  <2>1. ASSUME NEW s \in Symbols PROVE SharesOn(s, <<>>) = 0
    <3> DEFINE trade == [symbol |-> s, quantity |-> 0]
               S     == {trade}
    <3>1. <<>> \in Seq(S) /\ trade \in S /\ \A t \in S : t.quantity \in Nat
      BY EmptySeq
    <3> HIDE DEF trade, S
    <3> QED BY <3>1, SharesOnProperties
  <2> QED BY <1>1, <2>1
<1>9. LedgerBalances
  BY <1>1, <1>4, <1>5, <1>6, <1>7, <1>8, HistoryAssumption
     DEF LedgerBalances, AllUnaccounted, AllCarried, AllUnrecorded, Lesser
<1>10. BatchesOfTarget
  BY <1>1 DEF BatchesOfTarget
<1> QED BY <1>9, <1>10 DEF LedgerInv

\* Whatever its callers do, the four places in which the order book records a
\* trade differ by the trades its callers are carrying, and by nothing else.
THEOREM LedgerKept == OrderBookSpec => []LedgerBalances
<1>1. OrderBookInv /\ LedgerInv /\ [OrderBookNext]_orderBookVars => LedgerInv'
  BY LedgerStep
<1>2. LedgerInv => LedgerBalances
  BY DEF LedgerInv
<1> QED BY <1>1, <1>2, LedgerInit, OrderBookInvariant, PTL DEF OrderBookSpec

=============================================================================
