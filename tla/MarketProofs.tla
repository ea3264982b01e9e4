---------------------------- MODULE MarketProofs ----------------------------
(***************************************************************************)
(* Proof that the market of module Market conserves shares.                *)
(***************************************************************************)
EXTENDS Market, OrdersProofs

\* Open orders are orders that were placed and have shares left; ids are
\* unique, and an id that was never placed has no trades.
MarketInv ==
  /\ placed \in Seq(Order(Threads, Symbols))
  /\ executed \in Seq(TradeRecord(Threads, Symbols))
  /\ \A i, j \in DOMAIN placed : placed[i].orderId = placed[j].orderId => i = j
  /\ \A o \in open :
       /\ o \in Order(Threads, Symbols) /\ o.filledQty < o.quantity
       /\ \E i \in DOMAIN placed : placed[i].orderId = o.orderId /\ placed[i].quantity = o.quantity
  /\ \A id \in Nat : (\A i \in DOMAIN placed : placed[i].orderId # id) =>
       SharesTraded(id, executed) = 0
  /\ Conserved

\* A trade adds its quantity to the shares of its two orders and of no other.
LEMMA TradeShares ==
  ASSUME executed \in Seq(TradeRecord(Threads, Symbols)),
         NEW trade \in TradeRecord(Threads, Symbols), NEW id,
         executed' = Append(executed, trade)
  PROVE  /\ SharesTraded(id, executed) \in Nat
         /\ SharesTraded(id, executed') = SharesTraded(id, executed) +
              IF id \in {trade.buyOrderId, trade.sellOrderId} THEN trade.quantity ELSE 0
<1> DEFINE S == TradeRecord(Threads, Symbols)
<1>1. \A t \in S : t.quantity \in Nat
  BY DEF TradeRecord
<1> HIDE DEF S
<1> QED BY <1>1, SharesTradedProperties DEF S

\* Placing an order keeps the invariant: its id is new and has no trades.
LEMMA PlaceInv ==
  ASSUME MarketInv, NEW o, Place(o)
  PROVE  MarketInv'
<1> DEFINE n == Len(placed)
<1>1. /\ o \in Order(Threads, Symbols) /\ o.filledQty = 0
      /\ \A i \in DOMAIN placed : placed[i].orderId # o.orderId
      /\ open' = open \cup {o} /\ executed' = executed
  BY DEF Place
<1>2. /\ placed' \in Seq(Order(Threads, Symbols)) /\ n \in Nat
      /\ DOMAIN placed = 1 .. n /\ DOMAIN placed' = 1 .. n + 1
      /\ \A i \in 1 .. n : placed'[i] = placed[i]
      /\ placed'[n + 1] = o
  BY <1>1 DEF Place, MarketInv
<1> HIDE DEF n
<1>3. o.orderId \in Nat /\ o.quantity \in Nat \ {0}
  BY <1>1 DEF Order
<1>4. \A i, j \in DOMAIN placed' : placed'[i].orderId = placed'[j].orderId => i = j
  <2> SUFFICES ASSUME NEW i \in 1 .. n + 1, NEW j \in 1 .. n + 1,
                      placed'[i].orderId = placed'[j].orderId
               PROVE  i = j
    BY <1>2
  <2>1. (i \in 1 .. n \/ i = n + 1) /\ (j \in 1 .. n \/ j = n + 1)
    BY <1>2
  <2>2. \A k \in 1 .. n : placed'[k].orderId = placed[k].orderId /\ placed[k].orderId # o.orderId
    BY <1>1, <1>2
  <2>3. CASE i \in 1 .. n /\ j \in 1 .. n
    <3>1. placed[i].orderId = placed[j].orderId
      BY <2>2, <2>3
    <3>2. i \in DOMAIN placed /\ j \in DOMAIN placed
      BY <1>2, <2>3
    <3> QED BY <3>1, <3>2 DEF MarketInv
  <2>4. CASE i = n + 1 /\ j = n + 1
    BY <2>4
  <2>5. CASE i \in 1 .. n /\ j = n + 1
    BY <1>2, <2>2, <2>5
  <2>6. CASE i = n + 1 /\ j \in 1 .. n
    BY <1>2, <2>2, <2>6
  <2> QED BY <2>1, <2>3, <2>4, <2>5, <2>6
<1>5. \A p \in open' :
        /\ p \in Order(Threads, Symbols) /\ p.filledQty < p.quantity
        /\ \E i \in DOMAIN placed' : placed'[i].orderId = p.orderId /\ placed'[i].quantity = p.quantity
  <2>1. n + 1 \in DOMAIN placed' /\ \A i \in 1 .. n : i \in DOMAIN placed'
    BY <1>2
  <2>2. ASSUME NEW p \in open
        PROVE  \E i \in DOMAIN placed' : placed'[i].orderId = p.orderId /\ placed'[i].quantity = p.quantity
    <3>1. PICK i \in 1 .. n : placed[i].orderId = p.orderId /\ placed[i].quantity = p.quantity
      BY <1>2 DEF MarketInv
    <3> QED BY <1>2, <2>1, <3>1
  <2>3. o.filledQty < o.quantity
    BY <1>1, <1>3
  <2> QED BY <1>1, <1>2, <2>1, <2>2, <2>3 DEF MarketInv
<1>6. \A id \in Nat : (\A i \in DOMAIN placed' : placed'[i].orderId # id) =>
        SharesTraded(id, executed') = 0
  <2>1. \A i \in 1 .. n : i \in DOMAIN placed'
    BY <1>2
  <2> QED BY <1>1, <1>2, <2>1 DEF MarketInv
<1>7. Conserved'
  <2> SUFFICES ASSUME NEW i \in 1 .. n + 1
               PROVE  LET id   == placed'[i].orderId
                          rest == {p \in open' : p.orderId = id}
                      IN  /\ rest = {} => SharesTraded(id, executed) = placed'[i].quantity
                          /\ \A p \in rest : SharesTraded(id, executed) = p.filledQty /\ rest = {p}
    BY <1>1, <1>2 DEF Conserved
  <2>1. CASE i = n + 1
    <3>1. SharesTraded(o.orderId, executed) = 0
      BY <1>1, <1>3 DEF MarketInv
    <3>2. {p \in open' : p.orderId = o.orderId} = {o}
      BY <1>1 DEF MarketInv
    <3> QED BY <1>1, <1>2, <2>1, <3>1, <3>2
  <2>2. CASE i \in 1 .. n
    <3>1. placed'[i] = placed[i] /\ placed[i].orderId # o.orderId
      BY <1>1, <1>2, <2>2
    <3>2. {p \in open' : p.orderId = placed[i].orderId} = {p \in open : p.orderId = placed[i].orderId}
      BY <1>1, <3>1
    <3>3. LET id   == placed[i].orderId
              rest == {p \in open : p.orderId = id}
          IN  /\ rest = {} => SharesTraded(id, executed) = placed[i].quantity
              /\ \A p \in rest : SharesTraded(id, executed) = p.filledQty /\ rest = {p}
      BY <1>2, <2>2 DEF MarketInv, Conserved
    <3> QED BY <3>1, <3>2, <3>3
  <2> QED BY <1>2, <2>1, <2>2
<1> QED BY <1>1, <1>2, <1>4, <1>5, <1>6, <1>7 DEF MarketInv

\* A trade keeps the invariant: both its orders gain its shares.
LEMMA MakeTradeInv ==
  ASSUME MarketInv, NEW buy \in open, NEW sell \in open, MakeTrade(buy, sell)
  PROVE  MarketInv'
<1> DEFINE qty   == FillQty(buy, sell)
           price == ExecPrice(buy.price, sell.price)
           trade == Trade(buy.symbol, buy, sell, qty, price)
           Kept(o) == Fill(o, qty, price)
<1>1. /\ open' = (open \ {buy, sell}) \cup {o \in {Kept(buy), Kept(sell)} : ~IsComplete(o)}
      /\ executed' = Append(executed, trade) /\ placed' = placed
      /\ buy.symbol = sell.symbol /\ buy.side # sell.side /\ sell.price <= buy.price
  BY DEF MakeTrade
<1>2. /\ buy \in Order(Threads, Symbols) /\ sell \in Order(Threads, Symbols)
      /\ buy.quantity \in Nat /\ buy.filledQty \in 0 .. buy.quantity
      /\ sell.quantity \in Nat /\ sell.filledQty \in 0 .. sell.quantity
      /\ buy.price \in Nat /\ sell.price \in Nat
  <2>1. ASSUME NEW o \in open
        PROVE  /\ o \in Order(Threads, Symbols) /\ o.price \in Nat
               /\ o.quantity \in Nat /\ o.filledQty \in 0 .. o.quantity
    <3>1. o \in Order(Threads, Symbols) /\ o.filledQty < o.quantity
      BY DEF MarketInv
    <3>2. o.quantity \in Nat /\ o.filledQty \in Nat /\ o.price \in Nat
      BY <3>1 DEF Order
    <3> QED BY <3>1, <3>2
  <2> QED BY <2>1
<1>3. /\ qty \in Nat /\ price \in Nat
      /\ qty <= buy.quantity - buy.filledQty /\ qty <= sell.quantity - sell.filledQty
  BY <1>1, <1>2, FillQtyBounds, ExecPriceBounds
<1> HIDE DEF qty, price
<1>4. trade \in TradeRecord(Threads, Symbols)
  BY <1>2, <1>3 DEF Trade, TradeRecord, Order
<1>5. ASSUME NEW o \in {buy, sell}
      PROVE  /\ Kept(o) \in Order(Threads, Symbols) /\ Kept(o).filledQty = o.filledQty + qty
             /\ Kept(o).orderId = o.orderId /\ Kept(o).quantity = o.quantity
             /\ Kept(o).side = o.side
             /\ IsComplete(Kept(o)) => o.filledQty + qty = o.quantity
             /\ ~IsComplete(Kept(o)) => Kept(o).filledQty < Kept(o).quantity
  <2>1. o \in Order(Threads, Symbols) /\ o.filledQty + qty \in Nat
    BY <1>2, <1>3
  <2>2. o.quantity \in Nat /\ o.filledQty \in Nat /\ qty <= o.quantity - o.filledQty
    BY <1>2, <1>3
  <2>3. /\ Kept(o).filledQty = o.filledQty + qty /\ Kept(o).quantity = o.quantity
        /\ Kept(o).orderId = o.orderId /\ Kept(o).side = o.side
        /\ Kept(o) \in Order(Threads, Symbols)
    <3>1. [o EXCEPT !.filledQty = o.filledQty + qty] \in Order(Threads, Symbols)
      BY <2>1 DEF Order
    <3> QED BY <1>3, <2>1, <3>1 DEF Fill, Order
  <2> QED BY <1>3, <2>2, <2>3 DEF IsComplete
<1>6. /\ trade.buyOrderId = buy.orderId /\ trade.sellOrderId = sell.orderId
      /\ trade.quantity = qty
  BY DEF Trade
<1> HIDE DEF trade, Kept
<1>7. \A id : /\ SharesTraded(id, executed) \in Nat
              /\ SharesTraded(id, executed') = SharesTraded(id, executed) +
                   IF id \in {buy.orderId, sell.orderId} THEN qty ELSE 0
  BY <1>1, <1>4, <1>6, TradeShares DEF MarketInv
<1>8. /\ placed' \in Seq(Order(Threads, Symbols))
      /\ executed' \in Seq(TradeRecord(Threads, Symbols))
  BY <1>1, <1>4 DEF MarketInv
<1>9. \A o \in open' :
        /\ o \in Order(Threads, Symbols) /\ o.filledQty < o.quantity
        /\ \E i \in DOMAIN placed' : placed'[i].orderId = o.orderId /\ placed'[i].quantity = o.quantity
  BY <1>1, <1>5 DEF MarketInv
<1>10. \A id \in Nat : (\A i \in DOMAIN placed' : placed'[i].orderId # id) =>
         SharesTraded(id, executed') = 0
  <2> SUFFICES ASSUME NEW id \in Nat, \A i \in DOMAIN placed' : placed'[i].orderId # id
               PROVE  SharesTraded(id, executed') = 0
    OBVIOUS
  <2>1. \A i \in DOMAIN placed : placed[i].orderId # id
    BY <1>1
  <2>2. SharesTraded(id, executed) = 0
    BY <2>1 DEF MarketInv
  <2>3. id # buy.orderId /\ id # sell.orderId
    BY <2>1 DEF MarketInv
  <2> QED BY <1>7, <2>2, <2>3
<1>11. ASSUME NEW i \in DOMAIN placed, NEW o \in open, o.orderId = placed[i].orderId
       PROVE  /\ {p \in open : p.orderId = o.orderId} = {o}
              /\ SharesTraded(o.orderId, executed) = o.filledQty
              /\ o.quantity = placed[i].quantity
  <2> DEFINE rest == {p \in open : p.orderId = placed[i].orderId}
  <2>1. o \in rest /\ rest = {p \in open : p.orderId = o.orderId}
    BY <1>11
  <2>2. \A p \in rest : SharesTraded(placed[i].orderId, executed) = p.filledQty /\ rest = {p}
    BY DEF MarketInv, Conserved
  <2>3. o.quantity = placed[i].quantity
    BY <1>11 DEF MarketInv
  <2> HIDE DEF rest
  <2> QED BY <1>11, <2>1, <2>2, <2>3
<1>12. buy.orderId # sell.orderId
  <2>1. PICK i \in DOMAIN placed : placed[i].orderId = buy.orderId
    BY DEF MarketInv
  <2> QED BY <1>1, <1>11, <2>1
<1>13. Conserved'
  <2> SUFFICES ASSUME NEW i \in DOMAIN placed
               PROVE  LET id   == placed[i].orderId
                          rest == {p \in open' : p.orderId = id}
                      IN  /\ rest = {} => SharesTraded(id, executed') = placed[i].quantity
                          /\ \A p \in rest : SharesTraded(id, executed') = p.filledQty /\ rest = {p}
    BY <1>1 DEF Conserved
  <2> DEFINE id   == placed[i].orderId
             rest == {p \in open' : p.orderId = id}
             before == {p \in open : p.orderId = id}
  <2>1. ASSUME NEW o \in {buy, sell}, o.orderId = id
        PROVE  /\ rest = {} => SharesTraded(id, executed') = placed[i].quantity
               /\ \A p \in rest : SharesTraded(id, executed') = p.filledQty /\ rest = {p}
    <3>1. /\ SharesTraded(id, executed') = o.filledQty + qty /\ o.quantity = placed[i].quantity
          /\ before = {o}
      BY <1>7, <1>11, <2>1
    <3>2. rest = {p \in {Kept(o)} : ~IsComplete(p)}
      <4>1. \A p \in open : p.orderId = id => p = o
        BY <2>1, <3>1
      <4> QED BY <1>1, <1>5, <1>12, <2>1, <4>1
    <3> QED BY <1>5, <3>1, <3>2
  <2>2. CASE id \notin {buy.orderId, sell.orderId}
    <3>1. rest = before
      BY <1>1, <1>5, <2>2
    <3>2. SharesTraded(id, executed') = SharesTraded(id, executed)
      BY <1>7, <2>2
    <3> QED BY <3>1, <3>2 DEF MarketInv, Conserved
  <2> QED BY <2>1, <2>2
<1> QED BY <1>1, <1>8, <1>9, <1>10, <1>13 DEF MarketInv

\* The market conserves shares.
THEOREM MarketConserves == Spec => []Conserved
<1>1. Init => MarketInv
  <2> SUFFICES ASSUME Init PROVE MarketInv
    OBVIOUS
  <2>1. \A S : <<>> \in Seq(S)
    BY EmptySeq
  <2>2. \A t \in TradeRecord(Threads, Symbols) : t.quantity \in Nat
    BY DEF TradeRecord
  <2>3. \A id : SharesTraded(id, <<>>) = 0
    <3>1. Total(<<>>) = 0
      BY TotalProperties, EmptySeq
    <3>2. \A id : [k \in DOMAIN <<>> |-> IF id \in {<<>>[k].buyOrderId, <<>>[k].sellOrderId}
                                        THEN <<>>[k].quantity ELSE 0] = <<>>
      OBVIOUS
    <3> QED BY <3>1, <3>2 DEF SharesTraded
  <2> QED BY <2>1, <2>3 DEF Init, MarketInv, Conserved
<1>2. MarketInv /\ [Next]_market => MarketInv'
  <2>1. MarketInv /\ UNCHANGED market => MarketInv'
    BY DEF MarketInv, Conserved, market
  <2> QED BY <2>1, PlaceInv, MakeTradeInv DEF Next
<1>3. MarketInv => Conserved
  BY DEF MarketInv
<1> QED BY <1>1, <1>2, <1>3, PTL DEF Spec

=============================================================================
