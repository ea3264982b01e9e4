------------------------------ MODULE OrderBook ------------------------------
(***************************************************************************)
(* The shared monitor of the exchange, class OrderBook (Backend/           *)
(* OrderBook.h, OrderBook.cpp): per-symbol books each behind its own       *)
(* mutex, stock prices behind m_stockMutex, the trade history behind       *)
(* m_historyMutex, two atomic totals, and the condition variable that      *)
(* wakes the matching engine.                                              *)
(*                                                                         *)
(* A thread inside a call is at a stage, and one action takes it from one  *)
(* stage to the next.  A stage is a critical section: the sections behind  *)
(* m_stockMutex, m_historyMutex and newOrderMutex take no other lock and   *)
(* touch only what that lock guards, so each is one step.  The book mutex  *)
(* is held across the iterations of the matching loop and is a variable.   *)
(* This module has the operations; the modules that extend it say which    *)
(* threads call them: OrderBookClients any thread at any time, as the      *)
(* tests do, Exchange the threads of main.cpp.                             *)
(***************************************************************************)
EXTENDS Orders, FiniteSets

CONSTANTS Threads,      \* every thread that may call the order book
          Symbols,      \* the symbols given to initStocks
          OpenPrice,    \* the starting price of each symbol
          MAX_HISTORY,  \* the number of trades the history keeps
          Unlocked,     \* holder of a book mutex nobody holds
          NoSymbol      \* target of a thread that is matching nothing

ASSUME ThreadAssumption == Unlocked \notin Threads /\ IsFiniteSet(Threads)
ASSUME SymbolAssumption == NoSymbol \notin Symbols /\ Symbols # {}
ASSUME PriceAssumption  == OpenPrice \in [Symbols -> Nat \ {0}]
ASSUME HistoryAssumption == MAX_HISTORY \in Nat \ {0}

VARIABLES book,           \* per symbol and side, the queue of resting orders
          bookMutex,      \* per symbol, the thread holding the book's mutex
          stocks,         \* per symbol, current, high and low price
          volume,         \* per symbol, Stock::volume
          tradeHistory,   \* the last MAX_HISTORY trades published
          totalTrades, totalVolume,
          hasNewOrders,   \* the flag guarded by newOrderMutex
          waiting,        \* threads blocked in pthread_cond_wait(newOrderCond)
          orderIdCounter,
          stage,          \* per thread, where its current call is
          order,          \* per thread, the order it is submitting
          target,         \* per thread, the symbol it is matching
          trades,         \* per thread, the trades of its matchOrders call
          placed,         \* history: every order inserted, oldest first
          executed        \* history: every trade made, oldest first

bookVars   == <<book, bookMutex, placed>>
marketVars == <<stocks, volume>>
totalVars  == <<totalTrades, totalVolume, executed>>
wakeVars   == <<hasNewOrders, waiting>>
matchVars  == <<target, trades>>

orderBookVars == <<bookVars, marketVars, tradeHistory, totalVars, wakeVars,
                   orderIdCounter, stage, order, matchVars>>

Stages == {"idle", "price", "insert", "signal",
           "match", "account", "history", "publish"}

-----------------------------------------------------------------------------
(***************************************************************************)
(* State functions.                                                        *)
(***************************************************************************)
Bids(s) == book[s]["BUY"]
Asks(s) == book[s]["SELL"]

Inverted_Crossed(s) ==
  /\ Bids(s) # <<>>
  /\ Asks(s) # <<>>
  /\ Head(Bids(s)).price <= Head(Asks(s)).price

\* The highest bid meets the lowest ask: the matching loop goes on.
Crossed(s) ==
  /\ Bids(s) # <<>>
  /\ Asks(s) # <<>>
  /\ Head(Bids(s)).price >= Head(Asks(s)).price

\* The order a thread holds when it is not submitting one.
NoOrder(t) == NewOrder(0, t, CHOOSE s \in Symbols : TRUE, "MARKET", "BUY", 1, 0)

OrderBookInit ==
  /\ book = [s \in Symbols |-> [side \in OrderSides |-> <<>>]]
  /\ bookMutex = [s \in Symbols |-> Unlocked]
  /\ stocks = [s \in Symbols |-> NewStock(OpenPrice[s])]
  /\ volume = [s \in Symbols |-> 0]
  /\ tradeHistory = <<>>
  /\ totalTrades = 0
  /\ totalVolume = 0
  /\ hasNewOrders = FALSE
  /\ waiting = {}
  /\ orderIdCounter = 0
  /\ stage = [t \in Threads |-> "idle"]
  /\ order = [t \in Threads |-> NoOrder(t)]
  /\ target = [t \in Threads |-> NoSymbol]
  /\ trades = [t \in Threads |-> <<>>]
  /\ placed = <<>>
  /\ executed = <<>>

-----------------------------------------------------------------------------
(***************************************************************************)
(* submitOrder.  Begin constructs the order, which draws the next id, and  *)
(* enters the call; a market order then takes the current price, the order *)
(* is inserted into its book, and the matching engine is signalled.        *)
(* A call with a symbol that is not listed returns -1 and changes nothing. *)
(***************************************************************************)
BeginSubmit(t, s, type, side, qty, price) ==
  /\ stage[t] = "idle"
  /\ orderIdCounter' = orderIdCounter + 1
  /\ order' = [order EXCEPT ![t] =
                 NewOrder(orderIdCounter + 1, t, s, type, side, qty, price)]
  /\ stage' = [stage EXCEPT ![t] = IF type = "MARKET" THEN "price" ELSE "insert"]
  /\ UNCHANGED <<bookVars, marketVars, tradeHistory, totalVars, wakeVars, matchVars>>

TakeMarketPrice(t) ==
  /\ stage[t] = "price"
  /\ order' = [order EXCEPT ![t].price = stocks[order[t].symbol].currentPrice]
  /\ stage' = [stage EXCEPT ![t] = "insert"]
  /\ UNCHANGED <<bookVars, marketVars, tradeHistory, totalVars, wakeVars,
                 orderIdCounter, matchVars>>

InsertOrder(t) ==
  LET s     == order[t].symbol
      side  == order[t].side
      entry == [order[t] EXCEPT !.arrival = Len(placed) + 1]
  IN  /\ stage[t] = "insert"
      /\ bookMutex[s] = Unlocked
      /\ \E n \in 0 .. Len(book[s][side]) :
           /\ InsertPoint(book[s][side], entry, n)
           /\ book' = [book EXCEPT ![s][side] = Emplace(@, entry, n)]
      /\ placed' = Append(placed, entry)
      /\ stage' = [stage EXCEPT ![t] = "signal"]
      /\ UNCHANGED <<bookMutex, marketVars, tradeHistory, totalVars, wakeVars,
                     orderIdCounter, order, matchVars>>

Flagless_RaiseAndSignal ==
  /\ UNCHANGED hasNewOrders
  /\ \/ waiting = {} /\ UNCHANGED waiting
     \/ \E w \in waiting : waiting' = waiting \ {w}

\* pthread_cond_signal under newOrderMutex, with the flag set: wakes one of
\* the threads that wait, if there is one.
RaiseAndSignal ==
  /\ hasNewOrders' = TRUE
  /\ \/ waiting = {} /\ UNCHANGED waiting
     \/ \E w \in waiting : waiting' = waiting \ {w}

SignalNewOrder(t) ==
  /\ stage[t] = "signal"
  /\ RaiseAndSignal
  /\ order' = [order EXCEPT ![t] = NoOrder(t)]
  /\ stage' = [stage EXCEPT ![t] = "idle"]
  /\ UNCHANGED <<bookVars, marketVars, tradeHistory, totalVars,
                 orderIdCounter, matchVars>>

-----------------------------------------------------------------------------
(***************************************************************************)
(* matchOrders and matchSymbol.  Each iteration of the loop is two steps,  *)
(* because totalTrades and totalVolume are separate atomics that other     *)
(* threads read without the book mutex.                                    *)
(***************************************************************************)
BeginMatch(t, s) ==
  /\ stage[t] = "idle"
  /\ bookMutex[s] = Unlocked
  /\ bookMutex' = [bookMutex EXCEPT ![s] = t]
  /\ target' = [target EXCEPT ![t] = s]
  /\ stage' = [stage EXCEPT ![t] = "match"]
  /\ UNCHANGED <<book, placed, marketVars, tradeHistory, totalVars, wakeVars,
                 orderIdCounter, order, trades>>

ExecuteTrade(t) ==
  LET s     == target[t]
      buy   == Head(Bids(s))
      sell  == Head(Asks(s))
      qty   == FillQty(buy, sell)
      price == ExecPrice(buy.price, sell.price)
      trade == Trade(s, buy, sell, qty, price)
  IN  /\ stage[t] = "match"
      /\ Crossed(s)
      /\ trades' = [trades EXCEPT ![t] = Append(@, trade)]
      /\ book' = [book EXCEPT ![s] = [side \in OrderSides |->
                                        FillHead(@[side], qty, price)]]
      /\ totalTrades' = totalTrades + 1
      /\ executed' = Append(executed, trade)
      /\ stage' = [stage EXCEPT ![t] = "account"]
      /\ UNCHANGED <<bookMutex, placed, marketVars, tradeHistory, totalVolume,
                     wakeVars, orderIdCounter, order, target>>

AccountTrade(t) ==
  LET s == target[t]
  IN  /\ stage[t] = "account"
      /\ totalVolume' = totalVolume + Last(trades[t]).quantity
      /\ book' = [book EXCEPT ![s] = [side \in OrderSides |->
                                        EraseComplete(@[side])]]
      /\ stage' = [stage EXCEPT ![t] = "match"]
      /\ UNCHANGED <<bookMutex, placed, marketVars, tradeHistory, totalTrades,
                     executed, wakeVars, orderIdCounter, order, matchVars>>

\* The loop is over: release the book; a call without a trade returns here.
EndMatch(t) ==
  LET s == target[t]
  IN  /\ stage[t] = "match"
      /\ ~Crossed(s)
      /\ bookMutex' = [bookMutex EXCEPT ![s] = Unlocked]
      /\ IF trades[t] = <<>>
         THEN /\ stage' = [stage EXCEPT ![t] = "idle"]
              /\ target' = [target EXCEPT ![t] = NoSymbol]
         ELSE /\ stage' = [stage EXCEPT ![t] = "history"]
              /\ UNCHANGED target
      /\ UNCHANGED <<book, placed, marketVars, tradeHistory, totalVars, wakeVars,
                     orderIdCounter, order, trades>>

Oldest_KeepRecent(history) ==
  SubSeq(history, 1, Lesser(MAX_HISTORY, Len(history)))

\* push_back each trade, pop_front whenever the deque exceeds MAX_HISTORY.
KeepRecent(history) ==
  IF Len(history) > MAX_HISTORY
  THEN SubSeq(history, Len(history) - MAX_HISTORY + 1, Len(history))
  ELSE history

PublishHistory(t) ==
  /\ stage[t] = "history"
  /\ tradeHistory' = KeepRecent(tradeHistory \o trades[t])
  /\ stage' = [stage EXCEPT ![t] = "publish"]
  /\ UNCHANGED <<bookVars, marketVars, totalVars, wakeVars, orderIdCounter,
                 order, matchVars>>

\* The stock takes the price of the last trade and the shares of them all;
\* matchOrders returns the trades.
PublishStock(t) ==
  LET s == target[t]
  IN  /\ stage[t] = "publish"
      /\ stocks' = [stocks EXCEPT ![s] = SetPrice(@, Last(trades[t]).price)]
      /\ volume' = [volume EXCEPT ![s] = AddVolume(@, trades[t])]
      /\ stage' = [stage EXCEPT ![t] = "idle"]
      /\ target' = [target EXCEPT ![t] = NoSymbol]
      /\ trades' = [trades EXCEPT ![t] = <<>>]
      /\ UNCHANGED <<bookVars, tradeHistory, totalVars, wakeVars,
                     orderIdCounter, order>>

-----------------------------------------------------------------------------
(***************************************************************************)
(* updatePrice, one critical section.  (The caller passes a listed symbol; *)
(* for any other the call changes nothing.)                                *)
(***************************************************************************)
UpdatePrice(s, price) ==
  /\ stocks' = [stocks EXCEPT ![s] = SetPrice(@, price)]
  /\ UNCHANGED <<bookVars, volume, tradeHistory, totalVars, wakeVars,
                 orderIdCounter, stage, order, matchVars>>

-----------------------------------------------------------------------------
(***************************************************************************)
(* The calls in progress, and the order book with callers of which nothing *)
(* is known: they call anything at any time, and the wakeup flag and the   *)
(* waiting threads change in any way.                                      *)
(***************************************************************************)
SubmitStep(t) == TakeMarketPrice(t) \/ InsertOrder(t) \/ SignalNewOrder(t)

MatchStep(t) == \/ ExecuteTrade(t) \/ AccountTrade(t) \/ EndMatch(t)
                \/ PublishHistory(t) \/ PublishStock(t)

BeginCall(t) ==
  \E s \in Symbols :
    \/ BeginMatch(t, s)
    \/ \E type \in OrderTypes, side \in OrderSides, qty \in Nat \ {0}, price \in Nat :
         BeginSubmit(t, s, type, side, qty, price)

WakeStep ==
  /\ hasNewOrders' \in BOOLEAN
  /\ waiting' \in SUBSET Threads
  /\ UNCHANGED <<bookVars, marketVars, tradeHistory, totalVars, orderIdCounter,
                 stage, order, matchVars>>

OrderBookNext ==
  \/ \E t \in Threads : BeginCall(t) \/ SubmitStep(t) \/ MatchStep(t)
  \/ \E s \in Symbols, price \in Nat : UpdatePrice(s, price)
  \/ WakeStep

OrderBookSpec == OrderBookInit /\ [][OrderBookNext]_orderBookVars

-----------------------------------------------------------------------------
(***************************************************************************)
(* Properties.                                                             *)
(***************************************************************************)
AnOrder == Order(Threads, Symbols)
ATrade  == TradeRecord(Threads, Symbols)

\* Type invariant: the shape of every variable of the monitor and of the
\* calls in progress.
TypeOK ==
  /\ book \in [Symbols -> [OrderSides -> Seq(AnOrder)]]
  /\ bookMutex \in [Symbols -> Threads \cup {Unlocked}]
  /\ stocks \in [Symbols -> Stock]
  /\ volume \in [Symbols -> Nat]
  /\ tradeHistory \in Seq(ATrade)
  /\ totalTrades \in Nat
  /\ totalVolume \in Nat
  /\ hasNewOrders \in BOOLEAN
  /\ waiting \in SUBSET Threads
  /\ orderIdCounter \in Nat
  /\ stage \in [Threads -> Stages]
  /\ order \in [Threads -> AnOrder]
  /\ target \in [Threads -> Symbols \cup {NoSymbol}]
  /\ trades \in [Threads -> Seq(ATrade)]
  /\ placed \in Seq(AnOrder)
  /\ executed \in Seq(ATrade)

\* An order keeps these while it rests.
SameOrder(p, o) == /\ p.orderId = o.orderId /\ p.symbol = o.symbol /\ p.side = o.side
                   /\ p.price = o.price /\ p.quantity = o.quantity

\* A queue of a book, of the orders placed so far: every order rests where it
\* belongs, is the one placed at its arrival and not overfilled; no order rests
\* twice and none has priority over one in front of it.
RestsProperly(o, s, side, all) ==
  /\ o.symbol = s /\ o.side = side
  /\ o.arrival \in DOMAIN all /\ SameOrder(all[o.arrival], o)
  /\ o.filledQty <= o.quantity

MayFollow(p, o) == ~HasPriority(p, o) /\ p.arrival # o.arrival

Sorted(queue, s, side, all) ==
  /\ \A i \in DOMAIN queue : RestsProperly(queue[i], s, side, all)
  /\ \A i, j \in DOMAIN queue : i < j => MayFollow(queue[j], queue[i])

\* The inductive invariant.  A thread holds the mutex of the book it matches
\* until its loop ends and carries a batch of trades after the first; between
\* the two steps of an iteration both queues still have the orders that traded,
\* and only then do complete orders rest; an order being submitted is unfilled
\* and has an id of its own; and each queue is sorted by price and arrival.
LocksHeld ==
  /\ \A t \in Threads :
       target[t] \in Symbols <=> stage[t] \in {"match", "account", "history", "publish"}
  /\ \A s \in Symbols, t \in Threads :
       bookMutex[s] = t <=> target[t] = s /\ stage[t] \in {"match", "account"}

BatchesCarried ==
  \A t \in Threads :
    /\ stage[t] \in {"account", "history", "publish"} => trades[t] # <<>>
    /\ stage[t] = "account" => \A side \in OrderSides : book[target[t]][side] # <<>>

OnlyHeadsComplete ==
  \A s \in Symbols, side \in OrderSides : \A i \in DOMAIN book[s][side] :
    IsComplete(book[s][side][i]) =>
      i = 1 /\ \E t \in Threads : target[t] = s /\ stage[t] = "account"

QueuesSorted ==
  \A s \in Symbols, side \in OrderSides : Sorted(book[s][side], s, side, placed)

OrdersUnfilled == \A t \in Threads : order[t].filledQty = 0

Submitting == {t \in Threads : stage[t] \in {"price", "insert"}}

OrderIdsUnique ==
  /\ \A i \in DOMAIN placed :
       /\ placed[i].orderId <= orderIdCounter
       /\ \A j \in DOMAIN placed : placed[i].orderId = placed[j].orderId => i = j
  /\ \A t \in Submitting :
       /\ order[t].orderId <= orderIdCounter
       /\ \A u \in Submitting : order[t].orderId = order[u].orderId => t = u
       /\ \A i \in DOMAIN placed : placed[i].orderId # order[t].orderId

OrderBookInv == /\ TypeOK /\ LocksHeld /\ BatchesCarried /\ OnlyHeadsComplete
                /\ QueuesSorted /\ OrdersUnfilled /\ OrderIdsUnique

OrderIdOn(side, trade) ==
  IF side = "BUY" THEN trade.buyOrderId ELSE trade.sellOrderId

\* Whenever a trade executes, neither of its two orders is passed over: no
\* order resting on the same side has a better price, or the same price and
\* an earlier insertion.  (matchSymbol trades begin() of both multimaps;
\* emplace into them is what has to keep the best order first.)
PriceTimePriority ==
  [][executed' # executed =>
       LET trade == Last(executed')
       IN  \A side \in OrderSides :
             LET resting == ToSet(book[trade.symbol][side])
             IN  \E p \in resting :
                   /\ p.orderId = OrderIdOn(side, trade)
                   /\ \A o \in resting : ~HasPriority(o, p)]_orderBookVars

\* No share is duplicated or lost: an order that still rests has traded
\* exactly its filled quantity, one that no longer rests exactly the quantity
\* it was placed with, and no order rests twice.  (Fills and erasures of
\* matchSymbol, under concurrent submitOrder and matchOrders calls.)
Conservation ==
  \A i \in DOMAIN placed :
    LET o      == placed[i]
        queue  == book[o.symbol][o.side]
        rests  == {k \in DOMAIN queue : queue[k].orderId = o.orderId}
        traded == SharesTraded(o.orderId, executed)
    IN  /\ rests = {} => traded = o.quantity
        /\ \A k \in rests : traded = queue[k].filledQty /\ rests = {k}

\* Every trade is between a buy and a sell order of its own symbol, at a price
\* neither side objects to: not above the price of the buy order and not below
\* that of the sell order.  (LIMIT: "Execute only at specified price or better".)
LimitsRespected ==
  \A k \in DOMAIN executed :
    LET trade == executed[k]
        Party(side) == {o \in ToSet(placed) : /\ o.orderId = OrderIdOn(side, trade)
                                              /\ o.side = side
                                              /\ o.symbol = trade.symbol}
    IN  \E buy \in Party("BUY"), sell \in Party("SELL") :
          sell.price <= trade.price /\ trade.price <= buy.price

\* What a thread still owes the shared figures: the shares of a trade that
\* totalVolume lacks, the shares of a symbol that its published volume lacks,
\* and how many trades it has not handed to the history.
Unaccounted(t) == IF stage[t] = "account" THEN Last(trades[t]).quantity ELSE 0
Carried(t, s) == IF target[t] = s THEN SharesOf(trades[t]) ELSE 0
Unrecorded(t) == IF stage[t] = "publish" THEN 0 ELSE Len(trades[t])

\* The books balance: whatever calls are in progress, the published volume of
\* a symbol lacks exactly the trades its callers still carry, totalVolume lacks
\* exactly the trade being accounted, totalTrades lacks nothing and the history
\* holds the last MAX_HISTORY of the trades handed to it.  (The four places
\* matchOrders records a trade in, each behind a different lock or none.)
LedgerBalances ==
  /\ totalTrades = Len(executed)
  /\ totalVolume + SumOf([t \in Threads |-> Unaccounted(t)]) = SharesOf(executed)
  /\ \A s \in Symbols :
       volume[s] + SumOf([t \in Threads |-> Carried(t, s)]) = SharesOn(s, executed)
  /\ Len(tradeHistory) =
       Lesser(MAX_HISTORY, Len(executed) - SumOf([t \in Threads |-> Unrecorded(t)]))

\* The price range of a stock brackets its opening and its current price,
\* whichever of the market maker and the matching calls wrote the price last.
\* (updatePrice and the end of matchOrders.)
StockRange ==
  \A s \in Symbols :
    /\ stocks[s].lowPrice <= Lesser(stocks[s].currentPrice, OpenPrice[s])
    /\ stocks[s].currentPrice <= stocks[s].highPrice
    /\ OpenPrice[s] <= stocks[s].highPrice

-----------------------------------------------------------------------------
(***************************************************************************)
(* The order book implements the market of module Market: its open orders  *)
(* are the orders in the queues that are not complete (a trade is made     *)
(* when it executes; erasing complete orders comes after, unseen).         *)
(***************************************************************************)
OpenOrders ==
  {o \in UNION {ToSet(book[s][side]) : s \in Symbols, side \in OrderSides} :
     ~IsComplete(o)}

Ideal == INSTANCE Market WITH open <- OpenOrders

\* Threads that insert, match and erase behind per-symbol mutexes, in any
\* interleaving, do nothing but place orders and trade the two best of them,
\* each in one indivisible step.  (submitOrder and matchOrders as a whole.)
ImplementsMarket == Ideal!Spec

-----------------------------------------------------------------------------
(***************************************************************************)
(* What two comments of the code say and the code does not do.             *)
(***************************************************************************)
\* Order.h:10, MARKET: "Execute immediately at best available price".  When a
\* matching pass over a symbol ends, no market order is left resting while the
\* other side of the book has orders it could have executed against.
MarketExecutesAtBest ==
  [][\A t \in Threads : EndMatch(t) =>
       LET s == target[t]
       IN  Bids(s) # <<>> /\ Asks(s) # <<>> =>
             \A side \in OrderSides : \A o \in ToSet(book[s][side]) :
               o.type # "MARKET"]_orderBookVars

TradesOf(id) ==
  SelectSeq(executed, LAMBDA t : id \in {t.buyOrderId, t.sellOrderId})

\* Order.h:36, "Weighted average fill price": the average fill price of a
\* resting order, times the shares it has traded, is what those shares cost.
AverageIsWeighted ==
  \A s \in Symbols, side \in OrderSides :
    \A o \in ToSet(book[s][side]) :
      o.avgFillPrice * o.filledQty =
        FoldLeft(LAMBDA cost, t : cost + t.quantity * t.price, 0,
                 TradesOf(o.orderId))

=============================================================================
