------------------------------ MODULE Exchange ------------------------------
(***************************************************************************)
(* The exchange that Backend/main.cpp runs: trader threads produce orders  *)
(* (Trader.cpp) under a counting semaphore, the trading room (Semaphore.h);*)
(* one matching engine sleeps on the condition variable of the order book  *)
(* and matches every symbol each time it is woken (MatchingEngine.cpp);    *)
(* one market maker moves the prices (MarketMaker.cpp); main joins the     *)
(* traders, shuts the others down and reports; SIGINT may ask for shutdown *)
(* at any time.  Of the dashboard, which only reads, this module has the   *)
(* end, for which main waits.                                              *)
(*                                                                         *)
(* The traders and the matching engine are the threads of OrderBook that   *)
(* have calls in progress; updatePrice is one step, so the market maker    *)
(* has none.                                                               *)
(***************************************************************************)
EXTENDS OrderBook

CONSTANTS Traders, Matcher,
          MAX_ROOM_CAPACITY,  \* the slots of the trading room
          ORDERS_PER_TRADER,
          Quantities,         \* the quantities a trader may draw (1 .. 100)
          StockList,          \* STOCKS, the order the matching engine goes in
          MapOrder,           \* the order of std::map, of a price snapshot
          Cent,               \* the units of price in $0.01
          Pcts,               \* the hundredths of a percent drawn (-500 .. 500)
          Factors             \* the percentages exp(drift + diffusion) may be

ASSUME ExchangeThreads ==
  /\ Matcher \notin Traders
  /\ Threads = Traders \cup {Matcher}
  /\ IsFiniteSet(Traders)
ASSUME ExchangeParameters ==
  /\ MAX_ROOM_CAPACITY \in Nat \ {0}
  /\ ORDERS_PER_TRADER \in Nat
  /\ Quantities \subseteq Nat \ {0}
ASSUME ExchangeSymbols ==
  /\ StockList \in Seq(Symbols) /\ ToSet(StockList) = Symbols
  /\ MapOrder \in Seq(Symbols) /\ ToSet(MapOrder) = Symbols /\ IsInjective(MapOrder)
ASSUME ExchangePrices ==
  /\ Cent \in Nat \ {0}
  /\ \A s \in Symbols : OpenPrice[s] >= Cent
  /\ Pcts \subseteq -500 .. 500
  /\ Factors \subseteq Nat

VARIABLES room,              \* the value of the trading room semaphore
          traderAt,          \* per trader, where its loop is
          quote,             \* per trader, the symbol and price it last read
          ordersPlaced,      \* per trader, TraderStats::ordersPlaced
          matcherAt,         \* where the matching engine's loop is
          toMatch,           \* the symbols left in the engine's round
          matchesPerformed,
          makerView,         \* what is left of the market maker's snapshot
          makerRunning,
          dashRunning,
          mainAt,
          shutdown,          \* g_shutdown
          rounds,            \* history: the rounds the engine has begun
          placedByShutdown   \* history: Len(placed) when shutdown was set

traderVars  == <<room, traderAt, quote, ordersPlaced>>
matcherVars == <<matcherAt, toMatch, matchesPerformed, rounds>>
makerVars   == <<makerView, makerRunning, dashRunning>>
mainVars    == <<mainAt, shutdown, placedByShutdown>>

vars == <<orderBookVars, traderVars, matcherVars, makerVars, mainVars>>

Quote == [symbol : Symbols, price : Nat]
NoQuote == [symbol |-> Head(StockList), price |-> 0]

Init ==
  /\ OrderBookInit
  /\ room = MAX_ROOM_CAPACITY
  /\ traderAt = [t \in Traders |-> "loop"]
  /\ quote = [t \in Traders |-> NoQuote]
  /\ ordersPlaced = [t \in Traders |-> 0]
  /\ matcherAt = "top" /\ toMatch = <<>> /\ matchesPerformed = 0 /\ rounds = 0
  /\ makerView = <<>> /\ makerRunning = TRUE /\ dashRunning = TRUE
  /\ mainAt = "join" /\ shutdown = FALSE /\ placedByShutdown = 0

-----------------------------------------------------------------------------
(***************************************************************************)
(* The semaphore: sem_wait blocks until the value is positive.             *)
(***************************************************************************)
Unguarded_SemWait == room' = room - 1

SemWait == room > 0 /\ room' = room - 1

Leaky_SemSignal == UNCHANGED room

SemSignal == room' = room + 1

-----------------------------------------------------------------------------
(***************************************************************************)
(* A trader.  submitOrder returns a positive id for every listed symbol,   *)
(* so ordersPlaced is also the loop counter.                               *)
(***************************************************************************)
Deaf_GoesOn(t) == ordersPlaced[t] < ORDERS_PER_TRADER

GoesOn(t) == ordersPlaced[t] < ORDERS_PER_TRADER /\ ~shutdown

TraderLoop(t) ==
  /\ traderAt[t] = "loop"
  /\ traderAt' = [traderAt EXCEPT ![t] = IF GoesOn(t) THEN "door" ELSE "done"]
  /\ UNCHANGED <<orderBookVars, room, quote, ordersPlaced, matcherVars,
                 makerVars, mainVars>>

\* Shutdown is not looked at again once sem_wait returns.
EnterRoom(t) ==
  /\ traderAt[t] = "door"
  /\ SemWait
  /\ traderAt' = [traderAt EXCEPT ![t] = "quote"]
  /\ UNCHANGED <<orderBookVars, quote, ordersPlaced, matcherVars, makerVars, mainVars>>

\* generateRandomOrder reads a snapshot of the prices and releases the lock ...
TakeQuote(t) ==
  /\ traderAt[t] = "quote"
  /\ \E s \in Symbols :
       quote' = [quote EXCEPT ![t] = [symbol |-> s, price |-> stocks[s].currentPrice]]
  /\ traderAt' = [traderAt EXCEPT ![t] = "compose"]
  /\ UNCHANGED <<orderBookVars, room, ordersPlaced, matcherVars, makerVars, mainVars>>

\* Within 5% of the market price, rounded to the nearest cent.
LimitPrice(price, pct) ==
  Cent * ((price * (10000 + pct) + 5000 * Cent) \div (10000 * Cent))

\* ... and makes the order from that price, whatever the price is by now.
ComposeOrder(t) ==
  /\ traderAt[t] = "compose"
  /\ \E side \in OrderSides, qty \in Quantities :
       \/ BeginSubmit(t, quote[t].symbol, "MARKET", side, qty, 0)
       \/ \E pct \in Pcts :
            BeginSubmit(t, quote[t].symbol, "LIMIT", side, qty,
                        LimitPrice(quote[t].price, pct))
  /\ quote' = [quote EXCEPT ![t] = NoQuote]
  /\ traderAt' = [traderAt EXCEPT ![t] = "submit"]
  /\ UNCHANGED <<room, ordersPlaced, matcherVars, makerVars, mainVars>>

InSubmitOrder(t) ==
  /\ traderAt[t] = "submit"
  /\ SubmitStep(t)
  /\ UNCHANGED <<traderVars, matcherVars, makerVars, mainVars>>

\* submitOrder has returned: count the order, sem_post, think.
LeaveRoom(t) ==
  /\ traderAt[t] = "submit"
  /\ stage[t] = "idle"
  /\ ordersPlaced' = [ordersPlaced EXCEPT ![t] = @ + 1]
  /\ SemSignal
  /\ traderAt' = [traderAt EXCEPT ![t] = "loop"]
  /\ UNCHANGED <<orderBookVars, quote, matcherVars, makerVars, mainVars>>

TraderStep(t) == \/ TraderLoop(t) \/ EnterRoom(t) \/ TakeQuote(t)
                 \/ ComposeOrder(t) \/ InSubmitOrder(t) \/ LeaveRoom(t)

-----------------------------------------------------------------------------
(***************************************************************************)
(* The matching engine.                                                    *)
(***************************************************************************)
MatcherTop ==
  /\ matcherAt = "top"
  /\ matcherAt' = IF shutdown THEN "exit" ELSE "sleep"
  /\ UNCHANGED <<orderBookVars, toMatch, matchesPerformed, rounds,
                 traderVars, makerVars, mainVars>>

\* The predicate is false: pthread_cond_wait releases newOrderMutex and
\* blocks, atomically.  A thread that is signalled is removed from waiting and
\* evaluates the predicate again once it has the mutex.
MatcherWait ==
  /\ matcherAt = "sleep"
  /\ Matcher \notin waiting
  /\ ~hasNewOrders /\ ~shutdown
  /\ waiting' = waiting \cup {Matcher}
  /\ UNCHANGED <<bookVars, marketVars, tradeHistory, totalVars, hasNewOrders,
                 orderIdCounter, stage, order, matchVars,
                 matcherVars, traderVars, makerVars, mainVars>>

\* A POSIX condition wait may return without a signal.
SpuriousWakeup ==
  /\ Matcher \in waiting
  /\ waiting' = waiting \ {Matcher}
  /\ UNCHANGED <<bookVars, marketVars, tradeHistory, totalVars, hasNewOrders,
                 orderIdCounter, stage, order, matchVars,
                 matcherVars, traderVars, makerVars, mainVars>>

Unconsumed_TakeFlag == UNCHANGED hasNewOrders

TakeFlag == hasNewOrders' = FALSE

\* The predicate is true: consume the flag and release newOrderMutex.
MatcherWake ==
  /\ matcherAt = "sleep"
  /\ Matcher \notin waiting
  /\ hasNewOrders \/ shutdown
  /\ TakeFlag
  /\ matcherAt' = "woken"
  /\ UNCHANGED <<bookVars, marketVars, tradeHistory, totalVars, waiting,
                 orderIdCounter, stage, order, matchVars,
                 toMatch, matchesPerformed, rounds, traderVars, makerVars, mainVars>>

\* A round over every symbol, unless shutdown was requested: then the engine
\* leaves without another pass.
MatcherRound ==
  /\ matcherAt = "woken"
  /\ IF shutdown
     THEN matcherAt' = "exit" /\ UNCHANGED <<toMatch, rounds>>
     ELSE matcherAt' = "round" /\ toMatch' = StockList /\ rounds' = rounds + 1
  /\ UNCHANGED <<orderBookVars, matchesPerformed, traderVars, makerVars, mainVars>>

CallMatchOrders ==
  /\ matcherAt = "round"
  /\ toMatch # <<>>
  /\ BeginMatch(Matcher, Head(toMatch))
  /\ toMatch' = Tail(toMatch)
  /\ UNCHANGED <<matcherAt, matchesPerformed, rounds, traderVars, makerVars, mainVars>>

\* matchOrders returns its trades at PublishStock, or none at EndMatch.
InMatchOrders ==
  /\ \/ /\ \/ ExecuteTrade(Matcher) \/ AccountTrade(Matcher)
           \/ EndMatch(Matcher) \/ PublishHistory(Matcher)
        /\ UNCHANGED matchesPerformed
     \/ /\ PublishStock(Matcher)
        /\ matchesPerformed' = matchesPerformed + Len(trades[Matcher])
  /\ UNCHANGED <<matcherAt, toMatch, rounds, traderVars, makerVars, mainVars>>

Impatient_MatcherRoundOver ==
  /\ matcherAt = "round"
  /\ toMatch = <<>> \/ shutdown
  /\ stage[Matcher] = "idle"
  /\ matcherAt' = "top"
  /\ UNCHANGED <<orderBookVars, toMatch, matchesPerformed, rounds,
                 traderVars, makerVars, mainVars>>

MatcherRoundOver ==
  /\ matcherAt = "round"
  /\ toMatch = <<>>
  /\ stage[Matcher] = "idle"
  /\ matcherAt' = "top"
  /\ UNCHANGED <<orderBookVars, toMatch, matchesPerformed, rounds,
                 traderVars, makerVars, mainVars>>

MatcherStep == \/ MatcherTop \/ MatcherWait \/ MatcherWake \/ MatcherRound
               \/ CallMatchOrders \/ InMatchOrders \/ MatcherRoundOver

-----------------------------------------------------------------------------
(***************************************************************************)
(* The market maker: after each interval, unless shutdown was requested, a *)
(* snapshot of the prices, then one updatePrice per stock from the price   *)
(* in the snapshot.                                                        *)
(***************************************************************************)
GbmStep(price, factor) == (price * factor) \div 100

Unclamped_Clamp(price) == price

\* "price can't go below $0.01"
Clamp(price) == IF price < Cent THEN Cent ELSE price

MakerTick ==
  /\ makerRunning
  /\ makerView = <<>>
  /\ IF shutdown
     THEN makerRunning' = FALSE /\ UNCHANGED makerView
     ELSE /\ makerView' = [i \in DOMAIN MapOrder |->
               [symbol |-> MapOrder[i], price |-> stocks[MapOrder[i]].currentPrice]]
          /\ UNCHANGED makerRunning
  /\ UNCHANGED <<orderBookVars, traderVars, matcherVars, dashRunning, mainVars>>

MakerUpdate ==
  /\ makerView # <<>>
  /\ \E factor \in Factors :
       UpdatePrice(Head(makerView).symbol,
                   Clamp(GbmStep(Head(makerView).price, factor)))
  /\ makerView' = Tail(makerView)
  /\ UNCHANGED <<makerRunning, dashRunning, traderVars, matcherVars, mainVars>>

MakerStep == MakerTick \/ MakerUpdate

\* The dashboard prints what it reads until it finds shutdown requested.
DashboardExit ==
  /\ dashRunning
  /\ shutdown
  /\ dashRunning' = FALSE
  /\ UNCHANGED <<orderBookVars, traderVars, matcherVars, makerView, makerRunning,
                 mainVars>>

-----------------------------------------------------------------------------
(***************************************************************************)
(* main, from the first pthread_join on, and the SIGINT handler.           *)
(***************************************************************************)
RequestShutdown ==
  /\ shutdown' = TRUE
  /\ placedByShutdown' = IF shutdown THEN placedByShutdown ELSE Len(placed)

Sigint ==
  /\ ~shutdown
  /\ RequestShutdown
  /\ UNCHANGED <<orderBookVars, traderVars, matcherVars, makerVars, mainAt>>

JoinTraders ==
  /\ mainAt = "join"
  /\ \A t \in Traders : traderAt[t] = "done"
  /\ RequestShutdown
  /\ mainAt' = "wake"
  /\ UNCHANGED <<orderBookVars, traderVars, matcherVars, makerVars>>

Silent_WakeMatcher ==
  /\ mainAt = "wake"
  /\ mainAt' = "drain"
  /\ UNCHANGED <<orderBookVars, shutdown, placedByShutdown,
                 traderVars, matcherVars, makerVars>>

WakeMatcher ==
  /\ mainAt = "wake"
  /\ RaiseAndSignal
  /\ mainAt' = "drain"
  /\ UNCHANGED <<bookVars, marketVars, tradeHistory, totalVars, orderIdCounter,
                 stage, order, matchVars, shutdown, placedByShutdown,
                 traderVars, matcherVars, makerVars>>

Hasty_Report ==
  /\ mainAt = "drain"
  /\ ~makerRunning
  /\ ~dashRunning
  /\ mainAt' = "report"
  /\ UNCHANGED <<orderBookVars, shutdown, placedByShutdown,
                 traderVars, matcherVars, makerVars>>

\* pthread_join of the engine, the market maker and the dashboard, then the
\* final report.
Report ==
  /\ mainAt = "drain"
  /\ matcherAt = "exit"
  /\ ~makerRunning
  /\ ~dashRunning
  /\ mainAt' = "report"
  /\ UNCHANGED <<orderBookVars, shutdown, placedByShutdown,
                 traderVars, matcherVars, makerVars>>

MainStep == JoinTraders \/ WakeMatcher \/ Report

Terminated == mainAt = "report" /\ UNCHANGED vars

-----------------------------------------------------------------------------
Next == \/ \E t \in Traders : TraderStep(t)
        \/ MatcherStep \/ SpuriousWakeup
        \/ MakerStep \/ DashboardExit
        \/ MainStep \/ Sigint
        \/ Terminated

Spec == Init /\ [][Next]_vars

\* The scheduler runs every thread that can run.  No thread takes a lock or a
\* slot of the trading room infinitely often while another needs it, so weak
\* fairness is enough; a spurious wakeup and SIGINT need not happen.
Fairness == /\ \A t \in Traders : WF_vars(TraderStep(t))
            /\ WF_vars(MatcherStep) /\ WF_vars(MakerStep)
            /\ WF_vars(DashboardExit) /\ WF_vars(MainStep)

FairSpec == Spec /\ Fairness

-----------------------------------------------------------------------------
(***************************************************************************)
(* Properties.                                                             *)
(***************************************************************************)
Inside == {t \in Traders : traderAt[t] \in {"quote", "compose", "submit"}}

\* The types of the variables of the threads of main.cpp.
ThreadTypes ==
  /\ room \in Nat
  /\ traderAt \in [Traders -> {"loop", "door", "quote", "compose", "submit", "done"}]
  /\ quote \in [Traders -> Quote]
  /\ ordersPlaced \in [Traders -> Nat]
  /\ matcherAt \in {"top", "sleep", "woken", "round", "exit"}
  /\ toMatch \in Seq(Symbols)
  /\ matchesPerformed \in Nat
  /\ rounds \in Nat
  /\ makerView \in Seq(Quote)
  /\ makerRunning \in BOOLEAN
  /\ dashRunning \in BOOLEAN
  /\ mainAt \in {"join", "wake", "drain", "report"}
  /\ shutdown \in BOOLEAN
  /\ placedByShutdown \in Nat

\* The trading room never holds more traders than it has slots, and a slot is
\* free exactly when no trader inside holds it.  (sem_wait and sem_post around
\* the body of the trader's loop.)
RoomCapacity ==
  /\ Cardinality(Inside) <= MAX_ROOM_CAPACITY
  /\ room = MAX_ROOM_CAPACITY - Cardinality(Inside)

\* No trader places more orders than it was given, and one that has entered
\* its loop body has an order left to place.
OrdersLeft ==
  \A t \in Traders :
    /\ ordersPlaced[t] <= ORDERS_PER_TRADER
    /\ traderAt[t] \in {"door", "quote", "compose", "submit"} =>
         ordersPlaced[t] < ORDERS_PER_TRADER

\* Type and control invariant: the order book keeps its invariant whoever of
\* main.cpp's threads is in it, slots are balanced, orders are not exceeded,
\* only the engine ever waits for a signal, and main goes on only after
\* shutdown was requested.
ExchangeInv ==
  /\ OrderBookInv
  /\ ThreadTypes
  /\ RoomCapacity
  /\ OrdersLeft
  /\ waiting \subseteq {Matcher}
  /\ mainAt # "join" => shutdown

\* The crossing orders of s, should there be any, will be looked at: the flag
\* is up, or a trader is about to raise it, or the engine has yet to reach s in
\* the round it is in, or the engine has left.
Attended(s) ==
  \/ hasNewOrders
  \/ \E t \in Traders : stage[t] = "signal" /\ order[t].symbol = s
  \/ matcherAt = "woken"
  \/ s \in ToSet(toMatch)
  \/ target[Matcher] = s /\ stage[Matcher] \in {"match", "account"}
  \/ matcherAt = "exit"

\* No wakeup is lost: every symbol whose orders cross is attended to.
\* (submitOrder inserts first and signals later; the engine clears the flag
\* first and matches later.)
NoLostWakeup == \A s \in Symbols : Crossed(s) => Attended(s)

\* The engine never sleeps through work or through shutdown: while it is
\* blocked the flag is down, and main has not yet sent its wakeup.  (SIGINT
\* sets g_shutdown without a signal; main signals once the traders are gone.)
SleepsOnlyWhenIdle ==
  Matcher \in waiting => ~hasNewOrders /\ mainAt \in {"join", "wake"}

\* The traders between the insertion of an order and its announcement.
Announcing == {t \in Traders : stage[t] = "signal"}

\* The engine does not spin: it begins at most one round for each order that
\* has been announced.  (The flag is consumed once per wakeup.)
NoBusyWait == rounds <= Len(placed) - Cardinality(Announcing)

\* After a shutdown request each trader inserts at most one more order, the
\* one it was committed to when it tested the flag; traders blocked at the
\* door of the trading room are committed too.
BoundedDrain == shutdown => Len(placed) - placedByShutdown <= Cardinality(Traders)

\* With one matching engine the history is the true history: what it holds,
\* followed by the trades the engine has yet to publish, is how the sequence
\* of all trades ends.
HistoryInOrder ==
  LET unpublished == IF stage[Matcher] = "publish" THEN <<>> ELSE trades[Matcher]
  IN  IsSuffix(tradeHistory \o unpublished, executed)

\* No stock and no resting order ever has a price below one cent, whatever
\* the market maker's steps, the rounding of limit prices and the midpoints of
\* trades come to.  (Only the market maker clamps.)
PriceFloor ==
  \A s \in Symbols :
    /\ stocks[s].lowPrice >= Cent
    /\ \A side \in OrderSides : \A o \in ToSet(book[s][side]) : o.price >= Cent

\* The final report agrees with the market: however shutdown came about, the
\* engine's own count is the number of trades, the volumes of the stocks add
\* up to the total, and the traders' counts add up to the orders in the books.
FinalReport ==
  mainAt = "report" =>
    /\ matchesPerformed = totalTrades /\ totalTrades = Len(executed)
    /\ SumOf(volume) = totalVolume
    /\ SumOf(ordersPlaced) = Len(placed)

\* The program ends: every thread is joined and main reports, also when SIGINT
\* arrives and whoever is blocked on the semaphore or the condition variable.
Termination == <>(mainAt = "report")

\* A round that was begun reaches every symbol, also when shutdown is requested
\* meanwhile: orders that cross while the engine has yet to reach their symbol
\* are matched until they do not cross.  (g_shutdown is tested between rounds.)
RoundCompletes ==
  \A s \in Symbols : (s \in ToSet(toMatch) /\ Crossed(s)) ~> ~Crossed(s)

=============================================================================
