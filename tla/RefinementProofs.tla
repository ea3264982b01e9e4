-------------------------- MODULE RefinementProofs --------------------------
(***************************************************************************)
(* Proof that the order book implements the market of module Market, and   *)
(* what the market's conservation of shares says of the order book.        *)
(***************************************************************************)
EXTENDS OrderBookProofs

IdealProofs == INSTANCE MarketProofs WITH open <- OpenOrders

-----------------------------------------------------------------------------
(***************************************************************************)
(* The operators of module Orders are the same in the instances.           *)
(***************************************************************************)
LEMMA SameOperators ==
  /\ Ideal!Order(Threads, Symbols) = AnOrder
  /\ \A o, p : Ideal!HasPriority(o, p) <=> HasPriority(o, p)
  /\ \A o, p : Ideal!FillQty(o, p) = FillQty(o, p)
  /\ \A b, a : Ideal!ExecPrice(b, a) = ExecPrice(b, a)
  /\ \A o, q, c : Ideal!Fill(o, q, c) = Fill(o, q, c)
  /\ \A o : Ideal!IsComplete(o) <=> IsComplete(o)
  /\ \A s, o, p, q, c : Ideal!Trade(s, o, p, q, c) = Trade(s, o, p, q, c)
<1>1. Ideal!Order(Threads, Symbols) = AnOrder
  BY DEF AnOrder, Order, Ideal!Order, OrderTypes, OrderSides, Ideal!OrderTypes, Ideal!OrderSides
<1>2. \A o, p : Ideal!HasPriority(o, p) <=> HasPriority(o, p)
  BY DEF HasPriority, Ideal!HasPriority, Ahead, Ideal!Ahead
<1>3. \A o, p : Ideal!FillQty(o, p) = FillQty(o, p)
  BY DEF FillQty, Ideal!FillQty, Lesser, Ideal!Lesser, Remaining, Ideal!Remaining
<1>4. /\ \A b, a : Ideal!ExecPrice(b, a) = ExecPrice(b, a)
      /\ \A o : Ideal!IsComplete(o) <=> IsComplete(o)
  BY DEF ExecPrice, Ideal!ExecPrice, IsComplete, Ideal!IsComplete
<1>5. \A o, q, c : Ideal!Fill(o, q, c) = Fill(o, q, c)
  BY DEF Fill, Ideal!Fill
<1>6. \A s, o, p, q, c : Ideal!Trade(s, o, p, q, c) = Trade(s, o, p, q, c)
  BY DEF Trade, Ideal!Trade
<1> QED BY <1>1, <1>2, <1>3, <1>4, <1>5, <1>6

\* The two instances are the same market.
LEMMA SameMarket ==
  /\ Ideal!Init <=> IdealProofs!Init
  /\ [Ideal!Next]_(Ideal!market) => [IdealProofs!Next]_(IdealProofs!market)
  /\ Ideal!Conserved <=> IdealProofs!Conserved
<1>1. Ideal!Init <=> IdealProofs!Init
  BY DEF Ideal!Init, IdealProofs!Init
<1>2. UNCHANGED Ideal!market <=> UNCHANGED IdealProofs!market
  BY DEF Ideal!market, IdealProofs!market
<1>3. \A o : Ideal!Place(o) <=> IdealProofs!Place(o)
  BY DEF Ideal!Place, IdealProofs!Place, Ideal!Order, IdealProofs!Order,
         Ideal!OrderTypes, Ideal!OrderSides, IdealProofs!OrderTypes, IdealProofs!OrderSides
<1>4. \A buy, sell : Ideal!MakeTrade(buy, sell) <=> IdealProofs!MakeTrade(buy, sell)
  BY DEF Ideal!MakeTrade, Ideal!IsBest, Ideal!HasPriority, Ideal!Ahead, Ideal!FillQty,
         Ideal!ExecPrice, Ideal!Fill, Ideal!IsComplete, Ideal!Trade, Ideal!Lesser, Ideal!Remaining,
         IdealProofs!MakeTrade, IdealProofs!IsBest, IdealProofs!HasPriority, IdealProofs!Ahead,
         IdealProofs!FillQty, IdealProofs!ExecPrice, IdealProofs!Fill, IdealProofs!IsComplete,
         IdealProofs!Trade, IdealProofs!Lesser, IdealProofs!Remaining
<1>5. Ideal!Next <=> IdealProofs!Next
  BY <1>3, <1>4 DEF Ideal!Next, IdealProofs!Next
<1>6. Ideal!Conserved <=> IdealProofs!Conserved
  BY DEF Ideal!Conserved, Ideal!SharesTraded, Ideal!Total,
         IdealProofs!Conserved, IdealProofs!SharesTraded, IdealProofs!Total
<1> QED BY <1>1, <1>2, <1>5, <1>6

LEMMA SameShares ==
  \A id : Ideal!SharesTraded(id, executed) = SharesTraded(id, executed)
BY DEF SharesTraded, Ideal!SharesTraded, Total, Ideal!Total

-----------------------------------------------------------------------------
(***************************************************************************)
(* The open orders.                                                        *)
(***************************************************************************)
\* An order is open if it rests in some queue and is not complete.
LEMMA OpenMeans ==
  \A o : o \in OpenOrders <=> /\ ~IsComplete(o)
                              /\ \E s \in Symbols, side \in OrderSides : o \in ToSet(book[s][side])
BY DEF OpenOrders

LEMMA OpenMeansNext ==
  \A o : o \in OpenOrders' <=> /\ ~IsComplete(o)
                               /\ \E s \in Symbols, side \in OrderSides : o \in ToSet(book'[s][side])
BY DEF OpenOrders

\* An order rests in the queue of its own symbol and side.
LEMMA RestsInItsQueue ==
  ASSUME TypeOK, QueuesSorted, NEW s \in Symbols, NEW side \in OrderSides,
         NEW o \in ToSet(book[s][side])
  PROVE  /\ o \in AnOrder /\ o.symbol = s /\ o.side = side
         /\ RestsProperly(o, s, side, placed)
<1>1. PICK i \in DOMAIN book[s][side] : o = book[s][side][i]
  BY DEF ToSet
<1>2. book[s][side] \in Seq(AnOrder) /\ Sorted(book[s][side], s, side, placed)
  BY DEF TypeOK, QueuesSorted
<1>3. i \in 1 .. Len(book[s][side])
  BY <1>2, LenProperties
<1>4. o \in AnOrder
  BY <1>1, <1>2, <1>3, ElementOfSeq
<1>5. RestsProperly(o, s, side, placed)
  BY <1>1, <1>2 DEF Sorted
<1> QED BY <1>4, <1>5 DEF RestsProperly

\* Nothing in a sorted queue has priority over its head.
LEMMA HeadIsFirst ==
  ASSUME NEW s, NEW side \in OrderSides, NEW all, NEW queue \in Seq(AnOrder), queue # <<>>,
         Sorted(queue, s, side, all), NEW o \in ToSet(queue)
  PROVE  ~HasPriority(o, queue[1])
<1>1. PICK i \in DOMAIN queue : o = queue[i]
  BY DEF ToSet
<1>2. i \in 1 .. Len(queue) /\ 1 \in DOMAIN queue /\ o \in AnOrder
  BY <1>1, EmptySeq, LenProperties, ElementOfSeq
<1>3. CASE i = 1
  <2>1. o.price \in Nat /\ o.arrival \in Nat /\ o = queue[1]
    BY <1>1, <1>2, <1>3 DEF AnOrder, Order
  <2> QED BY <2>1 DEF HasPriority, Ahead
<1>4. CASE i # 1
  BY <1>1, <1>2, <1>4 DEF Sorted, MayFollow
<1> QED BY <1>3, <1>4

\* A fill of the head of a sorted queue replaces it and nothing else.
LEMMA FilledElements ==
  ASSUME NEW s, NEW side, NEW all, NEW queue \in Seq(AnOrder), queue # <<>>,
         Sorted(queue, s, side, all), NEW qty \in Nat, NEW price \in Nat
  PROVE  ToSet(FillHead(queue, qty, price)) =
           (ToSet(queue) \ {queue[1]}) \cup {Fill(queue[1], qty, price)}
<1> DEFINE new == FillHead(queue, qty, price)
<1>1. /\ new \in Seq(AnOrder) /\ Len(new) = Len(queue)
      /\ new[1] = Fill(queue[1], qty, price)
      /\ \A i \in 2 .. Len(queue) : new[i] = queue[i]
  BY FilledQueue
<1> HIDE DEF new
<1>2. /\ DOMAIN new = 1 .. Len(queue) /\ DOMAIN queue = 1 .. Len(queue)
      /\ Len(queue) \in Nat \ {0}
  BY <1>1, LenProperties, EmptySeq
<1>3. \A i \in 2 .. Len(queue) : queue[i] # queue[1]
  <2>1. \A i \in 2 .. Len(queue) : i \in DOMAIN queue /\ 1 \in DOMAIN queue /\ 1 < i
    BY <1>2
  <2> QED BY <2>1 DEF Sorted, MayFollow
<1>4. ASSUME NEW x \in ToSet(new)
      PROVE  x \in (ToSet(queue) \ {queue[1]}) \cup {Fill(queue[1], qty, price)}
  <2>1. PICK i \in 1 .. Len(queue) : x = new[i]
    BY <1>2 DEF ToSet
  <2>2. CASE i = 1
    BY <1>1, <2>1, <2>2
  <2>3. CASE i # 1
    <3>1. i \in 2 .. Len(queue) /\ i \in DOMAIN queue
      BY <1>2, <2>3
    <3> QED BY <1>1, <1>3, <2>1, <3>1 DEF ToSet
  <2> QED BY <2>2, <2>3
<1>5. ASSUME NEW x \in ToSet(queue), x # queue[1] PROVE x \in ToSet(new)
  <2>1. PICK i \in 1 .. Len(queue) : x = queue[i]
    BY <1>2 DEF ToSet
  <2>2. i \in 2 .. Len(queue) /\ i \in DOMAIN new
    BY <1>2, <1>5, <2>1
  <2> QED BY <1>1, <2>1, <2>2 DEF ToSet
<1>6. 1 \in DOMAIN new
  BY <1>2
<1>7. Fill(queue[1], qty, price) \in ToSet(new)
  BY <1>1, <1>6 DEF ToSet
<1> QED BY <1>4, <1>5, <1>7 DEF new

-----------------------------------------------------------------------------
(***************************************************************************)
(* The steps that the market sees.                                         *)
(***************************************************************************)
\* Inserting an order places it on the market.
LEMMA InsertPlaces ==
  ASSUME OrderBookInv, NEW t \in Threads, InsertOrder(t)
  PROVE  \E o \in OpenOrders' : Ideal!Place(o)
<1> USE DEF OrderBookInv
<1> DEFINE s     == order[t].symbol
           side  == order[t].side
           entry == [order[t] EXCEPT !.arrival = Len(placed) + 1]
<1>1. s \in Symbols /\ side \in OrderSides /\ order[t] \in AnOrder
  BY DEF TypeOK, AnOrder, Order
<1>2. entry \in AnOrder /\ entry.filledQty = 0 /\ ~IsComplete(entry)
      /\ entry.arrival = Len(placed) + 1 /\ entry.orderId = order[t].orderId
  <2>1. Len(placed) + 1 \in Nat
    BY LenProperties DEF TypeOK
  <2> QED BY <1>1, <2>1 DEF AnOrder, Order, OrdersUnfilled, IsComplete
<1>3. book[s][side] \in Seq(AnOrder)
  BY <1>1 DEF TypeOK
<1>4. PICK n \in 0 .. Len(book[s][side]) :
        book' = [book EXCEPT ![s][side] = Emplace(@, entry, n)]
  BY DEF InsertOrder
<1>5. placed' = Append(placed, entry) /\ executed' = executed /\ t \in Submitting
  BY DEF InsertOrder, totalVars, Submitting
<1> HIDE DEF s, side, entry
<1>6. \A u \in Symbols, other \in OrderSides :
        book'[u][other] = IF u = s /\ other = side THEN Emplace(book[s][side], entry, n)
                          ELSE book[u][other]
  BY <1>1, <1>4 DEF TypeOK
<1>7. ToSet(Emplace(book[s][side], entry, n)) = ToSet(book[s][side]) \cup {entry}
  BY <1>2, <1>3, EmplaceElements
<1>8. OpenOrders' = OpenOrders \cup {entry}
  BY <1>1, <1>2, <1>6, <1>7, OpenMeans, OpenMeansNext
<1>9. \A i \in DOMAIN placed : placed[i].orderId # entry.orderId
  BY <1>2, <1>5 DEF OrderIdsUnique
<1>10. Ideal!Place(entry) /\ entry \in OpenOrders'
  BY <1>2, <1>5, <1>8, <1>9, SameOperators DEF Ideal!Place
<1> QED BY <1>10

\* A trade of the two heads of a book is a trade of the market's best orders.
LEMMA ExecuteTrades ==
  ASSUME OrderBookInv, NEW t \in Threads, ExecuteTrade(t)
  PROVE  \E buy, sell \in OpenOrders : Ideal!MakeTrade(buy, sell)
<1> USE DEF OrderBookInv
<1> DEFINE s     == target[t]
           buy   == Head(Bids(s))
           sell  == Head(Asks(s))
           qty   == FillQty(buy, sell)
           price == ExecPrice(buy.price, sell.price)
           Best(side) == book[s][side][1]
<1>1. s \in Symbols /\ Crossed(s) /\ stage[t] = "match"
  BY MatchingTarget DEF ExecuteTrade
<1>2. /\ buy = Best("BUY") /\ sell = Best("SELL")
      /\ buy \in AnOrder /\ sell \in AnOrder
      /\ RestsProperly(buy, s, "BUY", placed) /\ RestsProperly(sell, s, "SELL", placed)
      /\ qty \in Nat /\ price \in Nat
  BY <1>1, CrossingHeads DEF Bids, Asks
<1>3. \A side \in OrderSides :
        /\ book[s][side] \in Seq(AnOrder) /\ book[s][side] # <<>>
        /\ Sorted(book[s][side], s, side, placed)
  BY <1>1, CrossingHeads DEF OrderSides, Bids, Asks, QueuesSorted
<1>4. /\ book' = [book EXCEPT ![s] = [side \in OrderSides |->
                                        FillHead(@[side], qty, price)]]
      /\ executed' = Append(executed, Trade(s, buy, sell, qty, price))
      /\ placed' = placed
  BY DEF ExecuteTrade
<1>5. buy.price >= sell.price
  BY <1>1 DEF Crossed
<1>6. FillQty(buy, sell) = qty /\ ExecPrice(buy.price, sell.price) = price
  OBVIOUS
<1> HIDE DEF s, buy, sell, qty, price
<1>7. buy.symbol = s /\ buy.side = "BUY" /\ sell.symbol = s /\ sell.side = "SELL"
  BY <1>2 DEF RestsProperly
<1>8. ASSUME NEW side \in OrderSides
      PROVE  /\ Best(side) \in ToSet(book[s][side]) /\ Best(side) \in OpenOrders
             /\ \A o \in OpenOrders : o.symbol = s /\ o.side = side => ~HasPriority(o, Best(side))
  <2>1. 1 \in DOMAIN book[s][side]
    BY <1>3, EmptySeq, LenProperties
  <2>2. ~IsComplete(Best(side))
    BY <1>1, <2>1, MutexHolder DEF OnlyHeadsComplete, s
  <2>3. Best(side) \in ToSet(book[s][side])
    BY <2>1 DEF ToSet
  <2>4. ASSUME NEW o \in OpenOrders, o.symbol = s, o.side = side
        PROVE  ~HasPriority(o, Best(side))
    <3>1. o \in ToSet(book[s][side])
      BY <2>4, OpenMeans, RestsInItsQueue
    <3> QED BY <1>3, <3>1, HeadIsFirst
  <2> QED BY <1>1, <2>2, <2>3, <2>4, OpenMeans
<1>9. OpenOrders' = (OpenOrders \ {buy, sell}) \cup
        {o \in {Fill(buy, qty, price), Fill(sell, qty, price)} : ~IsComplete(o)}
  <2>1. ASSUME NEW u \in Symbols, NEW side \in OrderSides
        PROVE  /\ u = s => ToSet(book'[u][side]) =
                      (ToSet(book[s][side]) \ {Best(side)}) \cup {Fill(Best(side), qty, price)}
               /\ u # s => book'[u][side] = book[u][side]
    <3>1. book'[u][side] = IF u = s THEN FillHead(book[s][side], qty, price) ELSE book[u][side]
      BY <1>1, <1>4 DEF TypeOK
    <3> QED BY <1>2, <1>3, <3>1, FilledElements
  <2>2. \A u \in Symbols, side \in OrderSides : \A o \in ToSet(book[u][side]) :
          o.symbol = u /\ o.side = side
    BY RestsInItsQueue
  <2>3. ASSUME NEW o, ~IsComplete(o), NEW u \in Symbols, NEW side \in OrderSides,
               o \in ToSet(book'[u][side])
        PROVE  \/ o \in OpenOrders \ {buy, sell}
               \/ o \in {Fill(buy, qty, price), Fill(sell, qty, price)}
    <3>1. CASE u # s
      <4>1. o \in ToSet(book[u][side]) /\ o.symbol = u
        BY <2>1, <2>2, <2>3, <3>1
      <4> QED BY <1>7, <2>3, <3>1, <4>1, OpenMeans
    <3>2. CASE u = s /\ o # Fill(Best(side), qty, price)
      <4>1. o \in ToSet(book[s][side]) /\ o # Best(side) /\ o.side = side
        BY <2>1, <2>2, <2>3, <3>2
      <4> QED BY <1>1, <1>2, <1>7, <2>3, <4>1, OpenMeans DEF OrderSides
    <3> QED BY <1>2, <3>1, <3>2 DEF OrderSides
  <2>4. ASSUME NEW o \in OpenOrders, o # buy, o # sell PROVE o \in OpenOrders'
    <3>1. PICK u \in Symbols, side \in OrderSides : ~IsComplete(o) /\ o \in ToSet(book[u][side])
      BY OpenMeans
    <3>2. o # Best(side) \/ u # s
      BY <1>2, <2>4 DEF OrderSides
    <3>3. o \in ToSet(book'[u][side])
      BY <2>1, <3>1, <3>2
    <3> QED BY <3>1, <3>3, OpenMeansNext
  <2>5. ASSUME NEW side \in OrderSides, ~IsComplete(Fill(Best(side), qty, price))
        PROVE  Fill(Best(side), qty, price) \in OpenOrders'
    BY <1>1, <2>1, <2>5, OpenMeansNext
  <2>6. \A o \in {Fill(buy, qty, price), Fill(sell, qty, price)} :
          ~IsComplete(o) => o \in OpenOrders'
    BY <1>2, <2>5 DEF OrderSides
  <2>7. \A o \in OpenOrders' :
          o \in (OpenOrders \ {buy, sell}) \cup
            {p \in {Fill(buy, qty, price), Fill(sell, qty, price)} : ~IsComplete(p)}
    BY <2>3, OpenMeansNext
  <2> QED BY <2>4, <2>6, <2>7
<1>10. /\ buy \in OpenOrders /\ sell \in OpenOrders
       /\ Ideal!IsBest(buy) /\ Ideal!IsBest(sell)
  BY <1>2, <1>7, <1>8, SameOperators DEF Ideal!IsBest, OrderSides
<1>11. /\ Ideal!FillQty(buy, sell) = qty /\ Ideal!ExecPrice(buy.price, sell.price) = price
       /\ Ideal!Trade(buy.symbol, buy, sell, qty, price) = Trade(s, buy, sell, qty, price)
       /\ {o \in {Ideal!Fill(buy, qty, price), Ideal!Fill(sell, qty, price)} : ~Ideal!IsComplete(o)}
            = {o \in {Fill(buy, qty, price), Fill(sell, qty, price)} : ~IsComplete(o)}
  BY <1>6, <1>7, SameOperators
<1>12. Ideal!MakeTrade(buy, sell)
  BY <1>4, <1>5, <1>7, <1>9, <1>10, <1>11 DEF Ideal!MakeTrade
<1> QED BY <1>10, <1>12

\* Erasing complete orders leaves the market as it is.
LEMMA AccountStutters ==
  ASSUME OrderBookInv, NEW t \in Threads, AccountTrade(t)
  PROVE  UNCHANGED Ideal!market
<1> USE DEF OrderBookInv
<1> DEFINE s == target[t]
<1>1. s \in Symbols /\ stage[t] = "account"
  BY MatchingTarget DEF AccountTrade
<1>2. /\ book' = [book EXCEPT ![s] = [side \in OrderSides |-> EraseComplete(@[side])]]
      /\ placed' = placed /\ executed' = executed
  BY DEF AccountTrade
<1>3. \A side \in OrderSides : book[s][side] \in Seq(AnOrder) /\ book[s][side] # <<>>
  BY <1>1 DEF BatchesCarried, TypeOK
<1> HIDE DEF s
<1>4. \A side \in OrderSides :
        ToSet(EraseComplete(book[s][side])) = {o \in ToSet(book[s][side]) : ~IsComplete(o)}
  BY <1>1, <1>3, NothingComplete DEF OnlyHeadsComplete
<1>5. \A u \in Symbols, side \in OrderSides :
        book'[u][side] = IF u = s THEN EraseComplete(book[s][side]) ELSE book[u][side]
  BY <1>1, <1>2 DEF TypeOK
<1>6. \A o : o \in OpenOrders' <=> o \in OpenOrders
  BY <1>4, <1>5, OpenMeans, OpenMeansNext
<1>7. OpenOrders' = OpenOrders
  BY <1>6
<1> QED BY <1>2, <1>7 DEF Ideal!market

LEMMA StepImplements ==
  OrderBookInv /\ [OrderBookNext]_orderBookVars => [Ideal!Next]_(Ideal!market)
<1> SUFFICES ASSUME OrderBookInv, [OrderBookNext]_orderBookVars
             PROVE  [Ideal!Next]_(Ideal!market)
  OBVIOUS
<1> USE DEF bookVars, marketVars, totalVars, wakeVars, matchVars
<1>1. ASSUME UNCHANGED <<book, placed, executed>> PROVE UNCHANGED Ideal!market
  BY <1>1 DEF Ideal!market, OpenOrders
<1>2. ASSUME NEW t \in Threads, InsertOrder(t) PROVE Ideal!Next
  BY <1>2, InsertPlaces DEF Ideal!Next
<1>3. ASSUME NEW t \in Threads, ExecuteTrade(t) PROVE Ideal!Next
  BY <1>3, ExecuteTrades DEF Ideal!Next
<1>4. ASSUME NEW t \in Threads,
             \/ BeginCall(t) \/ TakeMarketPrice(t) \/ SignalNewOrder(t)
             \/ EndMatch(t) \/ PublishHistory(t) \/ PublishStock(t)
      PROVE  UNCHANGED Ideal!market
  BY <1>1, <1>4 DEF BeginCall, BeginMatch, BeginSubmit, TakeMarketPrice, SignalNewOrder,
                    EndMatch, PublishHistory, PublishStock
<1>5. ASSUME \/ WakeStep \/ UNCHANGED orderBookVars
             \/ \E s \in Symbols, price \in Nat : UpdatePrice(s, price)
      PROVE  UNCHANGED Ideal!market
  BY <1>1, <1>5 DEF WakeStep, UpdatePrice, orderBookVars
<1> QED BY <1>2, <1>3, <1>4, <1>5, AccountStutters
        DEF OrderBookNext, SubmitStep, MatchStep

\* Whoever calls the order book, and however the calls interleave, it places
\* orders and trades the best of them, each in one indivisible step.
THEOREM Implementation == OrderBookSpec => ImplementsMarket
<1>1. OrderBookInit => Ideal!Init
  <2> SUFFICES ASSUME OrderBookInit PROVE Ideal!Init
    OBVIOUS
  <2>1. \A s \in Symbols, side \in OrderSides : ToSet(book[s][side]) = {}
    BY DEF OrderBookInit, ToSet
  <2> QED BY <2>1, OpenMeans DEF OrderBookInit, Ideal!Init
<1> QED BY <1>1, StepImplements, OrderBookInvariant, PTL
        DEF OrderBookSpec, ImplementsMarket, Ideal!Spec

-----------------------------------------------------------------------------
(***************************************************************************)
(* The market conserves shares, so the order book does.                    *)
(***************************************************************************)
\* Orders of a queue arrived one after the other.
LEMMA ArrivedApart == \A p, o : MayFollow(p, o) => p.arrival # o.arrival
BY DEF MayFollow

\* No share is duplicated or lost, under any concurrent callers.
THEOREM SharesConserved == OrderBookSpec => []Conservation
<1>1. OrderBookInv /\ Ideal!Conserved => Conservation
  <2> SUFFICES ASSUME OrderBookInv, Ideal!Conserved, NEW i \in DOMAIN placed
               PROVE  LET o      == placed[i]
                          queue  == book[o.symbol][o.side]
                          rests  == {k \in DOMAIN queue : queue[k].orderId = o.orderId}
                          traded == SharesTraded(o.orderId, executed)
                      IN  /\ rests = {} => traded = o.quantity
                          /\ \A k \in rests : traded = queue[k].filledQty /\ rests = {k}
    BY DEF Conservation
  <2>0. TypeOK /\ QueuesSorted /\ OrderIdsUnique
    BY DEF OrderBookInv
  <2> DEFINE o      == placed[i]
             queue  == book[o.symbol][o.side]
             rests  == {k \in DOMAIN queue : queue[k].orderId = o.orderId}
             traded == SharesTraded(o.orderId, executed)
             open   == {p \in OpenOrders : p.orderId = o.orderId}
  <2>1. /\ open = {} => traded = o.quantity
        /\ \A p \in open : traded = p.filledQty /\ open = {p}
    BY SameShares DEF Ideal!Conserved
  <2>2. o \in AnOrder /\ o.symbol \in Symbols /\ o.side \in OrderSides
    <3>1. o \in AnOrder
      BY <2>0, PlacedTyped
    <3> QED BY <3>1 DEF AnOrder, Order
  <2>3. \A p \in open : p \in ToSet(queue)
    <3> SUFFICES ASSUME NEW p \in open PROVE p \in ToSet(queue)
      OBVIOUS
    <3>1. PICK s \in Symbols, side \in OrderSides : p \in ToSet(book[s][side])
      BY OpenMeans
    <3>2. p.arrival \in DOMAIN placed /\ SameOrder(placed[p.arrival], p)
          /\ p.symbol = s /\ p.side = side
      BY <2>0, <3>1, RestsInItsQueue DEF RestsProperly
    <3>3. p.arrival = i
      <4>1. placed[p.arrival].orderId = placed[i].orderId
        BY <3>2 DEF SameOrder
      <4> QED BY <2>0, <3>2, <4>1 DEF OrderIdsUnique
    <3> QED BY <3>1, <3>2, <3>3 DEF SameOrder
  <2>4. ASSUME NEW k \in rests
        PROVE  /\ queue[k] \in ToSet(queue) /\ queue[k].arrival = i
               /\ queue[k].quantity = o.quantity /\ queue[k].filledQty \in 0 .. o.quantity
    <3>1. queue[k] \in ToSet(queue)
      BY DEF ToSet
    <3>2. queue[k] \in AnOrder /\ RestsProperly(queue[k], o.symbol, o.side, placed)
      BY <2>0, <2>2, <3>1, RestsInItsQueue
    <3> HIDE DEF queue
    <3>3. queue[k].arrival = i
      <4> DEFINE a == queue[k].arrival
      <4>1. a \in DOMAIN placed /\ placed[a].orderId = queue[k].orderId
        BY <3>2 DEF RestsProperly, SameOrder
      <4>2. placed[a].orderId = placed[i].orderId
        BY <2>4, <4>1
      <4> HIDE DEF a
      <4>3. a = i
        BY <2>0, <4>1, <4>2 DEF OrderIdsUnique
      <4> QED BY <4>3 DEF a
    <3>4. queue[k].quantity = o.quantity
      BY <3>2, <3>3 DEF RestsProperly, SameOrder
    <3> QED BY <3>1, <3>2, <3>3, <3>4 DEF RestsProperly, AnOrder, Order
  <2>5. \A k, l \in rests : k = l
    <3>1. queue \in Seq(AnOrder) /\ Sorted(queue, o.symbol, o.side, placed)
      BY <2>0, <2>2 DEF TypeOK, QueuesSorted
    <3>2. DOMAIN queue \subseteq Nat
      BY <3>1, LenProperties
    <3>3. ASSUME NEW k \in rests, NEW l \in rests, k < l PROVE FALSE
      <4>1. queue[k].arrival = i /\ queue[l].arrival = i
        BY <2>4
      <4>2. k \in DOMAIN queue /\ l \in DOMAIN queue
        OBVIOUS
      <4> HIDE DEF queue, rests
      <4>3. MayFollow(queue[l], queue[k])
        BY <3>1, <3>3, <4>2 DEF Sorted
      <4>4. queue[l].arrival # queue[k].arrival
        BY <4>3, ArrivedApart, Zenon
      <4> QED BY <4>1, <4>4, Zenon
    <3> QED BY <3>2, <3>3
  <2>6. ASSUME NEW k \in rests PROVE traded = queue[k].filledQty
    <3>1. CASE IsComplete(queue[k])
      <4>1. \A p \in open : p = queue[k]
        <5> SUFFICES ASSUME NEW p \in open PROVE p = queue[k]
          OBVIOUS
        <5>1. p \in ToSet(queue) /\ p.orderId = o.orderId
          BY <2>3
        <5> HIDE DEF queue
        <5>2. PICK l \in DOMAIN queue : p = queue[l]
          BY <5>1 DEF ToSet
        <5>3. l \in rests
          BY <5>1, <5>2
        <5> HIDE DEF rests
        <5>4. l = k
          BY <2>5, <2>6, <5>3
        <5> QED BY <5>2, <5>4
      <4>2. open = {}
        <5>1. \A p \in open : p \in OpenOrders
          OBVIOUS
        <5> HIDE DEF open, queue
        <5>2. \A p \in open : ~IsComplete(p)
          BY <5>1, OpenMeans
        <5> QED BY <3>1, <4>1, <5>2
      <4>3. queue[k].filledQty = o.quantity
        <5> DEFINE filled == queue[k].filledQty
                   most   == o.quantity
        <5>1. filled \in 0 .. most /\ filled >= most
          BY <2>4, <2>6, <3>1 DEF IsComplete
        <5>2. most \in Nat
          BY <2>2 DEF AnOrder, Order
        <5> HIDE DEF filled, most
        <5>3. filled = most
          BY <5>1, <5>2
        <5> QED BY <5>3 DEF filled, most
      <4> QED BY <2>1, <4>2, <4>3
    <3>2. CASE ~IsComplete(queue[k])
      <4>1. queue[k] \in open
        <5>1. queue[k] \in ToSet(queue) /\ queue[k].orderId = o.orderId
          BY <2>4, <2>6
        <5>2. queue[k] \in OpenOrders
          BY <2>2, <3>2, <5>1, OpenMeans
        <5> HIDE DEF queue, o
        <5> QED BY <5>1, <5>2
      <4> QED BY <2>1, <4>1
    <3> QED BY <3>1, <3>2
  <2>7. rests = {} => traded = o.quantity
    <3>1. ASSUME NEW p \in open PROVE rests # {}
      BY <2>3 DEF ToSet
    <3> QED BY <2>1, <3>1
  <2> QED BY <2>5, <2>6, <2>7
<1>2. Ideal!Spec => []Ideal!Conserved
  <2>1. Ideal!Spec => IdealProofs!Spec
    BY SameMarket, PTL DEF Ideal!Spec, IdealProofs!Spec
  <2> QED BY <2>1, SameMarket, IdealProofs!MarketConserves, PTL
<1> QED BY <1>1, <1>2, Implementation, OrderBookInvariant, PTL DEF ImplementsMarket

=============================================================================
