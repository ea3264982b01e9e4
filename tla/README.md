# SentinelTrade in TLA+

SentinelTrade is a simulated stock exchange: a C++/pthreads backend
(`src/Backend`) in which trader threads place orders, a matching engine pairs
them and a market maker moves the prices, and a Qt window (`src/GUI`) that
shows the log files the backend writes. This directory holds a TLA+ model of
the backend and of the GUI's log monitor, an abstract market the order book is
shown to implement, the TLC configurations that check it on small instances, and
proofs, checked by TLAPS, of what matters most for every number of traders,
symbols, slots and orders.

`PROJECT.json` lists components, runs, mutants, the source lines of every
definition, findings, hazards and theorems.

## 1. The system

### Components

| component | state | operations | modelled |
|---|---|---|---|
| **Orders, trades, stocks** (`Order.h`, `Stock.h`, `OrderBook.h`) | quantity, filled quantity, price, average price; price, high, low, volume | construct, fill, midpoint, insert, erase | `Orders` |
| **OrderBook** (`OrderBook.cpp`), the monitor everybody shares | two sorted multimaps per symbol, each pair behind a mutex; stocks behind `m_stockMutex`; history behind `m_historyMutex`; two atomic totals; `hasNewOrders` with a condition variable | `submitOrder`, `matchOrders`, `updatePrice`, snapshot getters | `OrderBook` |
| **Trader** (`Trader.cpp`), 20 threads | loop counter, the order being made, `TraderStats` | wait for a slot, quote, compose, submit, leave | `Exchange` |
| **Trading room** (`Semaphore.h`) | the value of a POSIX semaphore | `wait`, `signal` | `Exchange` |
| **MatchingEngine** (`MatchingEngine.cpp`), 1 thread | where its loop is, its count of trades | condition wait, a round over the symbols | `Exchange` |
| **MarketMaker** (`MarketMaker.cpp`), 1 thread | the snapshot it works from | tick: snapshot, one `updatePrice` per stock | `Exchange` |
| **Orchestrator** (`main.cpp`) | `g_shutdown` | join traders, request shutdown, wake the engine, join the rest, report; SIGINT | `Exchange` |
| **Dashboard** (`main.cpp`), 1 thread | the printout in progress | reads stocks, depth, totals and traders every two seconds | `Dashboard` |
| **Mutexes and room** (all of the backend) | owners, slots taken | lock, unlock, condition wait, enter, leave | `Locks` |
| **Logger** (`Logger.cpp`) | two file descriptors behind a mutex | `init`, `logTrade`, `logSystem`, `close` | `Logger` |
| **GUI** (`src/GUI`) | trades and messages parsed from the logs, what is on display | watch, reread on change, refresh on a timer | `LogMonitor` |
| **Test suite** (`test_cases.cpp`) | | drives the book from many threads | as callers, `OrderBookClients` and `Locks` |

### How they interact

Traders call `submitOrder`; it takes the market price if the order needs one,
inserts under the book's mutex, then sets `hasNewOrders` and signals. The
engine sleeps on that condition variable, consumes the flag, and calls
`matchOrders` for every symbol. The market maker and `matchOrders` both write
the prices; traders and the market maker work from snapshots of them. `main`
joins the traders first, then requests shutdown, signals the engine and joins
the others. SIGINT sets the shutdown flag only. The dashboard reads the book
piece by piece, each under another lock, and the traders' counts under none.
Everything logs through the
logger; the GUI reads the two files and shares nothing else with the backend.

### What is hard about it

* **Interleavings.** `submitOrder` is three critical sections and `matchOrders`
  up to three after a loop; anything may happen between them. A trade passes
  through four ledgers (totals, history, stock volume, stock price) that no one
  lock covers.
* **Stale data.** Quotes, market prices and the market maker's snapshot are used
  after the lock they were read under is released.
* **The wakeup handshake.** One flag stands for any number of orders; signals
  are lost when nobody waits, wakeups may be spurious, and SIGINT signals nobody.
* **Shutdown.** Who waits for whom, who has tested the flag already, and what
  the final report may rely on.
* **Piecewise reading.** The figures of one printout belong to different moments.
* **Nested locks.** A trade is logged, under the logger's mutex, with its book
  locked; traders wait for mutexes while they hold a slot.
* **Two programs, one file.** The GUI rereads files that grow, are cut in the
  middle of a line, and are truncated when the backend starts again.
* **Limits.** A full trading room, a history at its maximum, prices at the floor.

Every place where this bites is listed under "hazards" in `PROJECT.json` with
the properties that watch it, or with the reason why none does.

### What makes each component correct

* book: it is a market in which the two best orders trade in one step: price-time
  priority, execution within both limits, no share created or
  lost, ledgers that balance, a price range that brackets the price;
* trading room: never overfull, no slot lost, nobody outside for good;
* engine: crossing orders are never forgotten, no sleeping through work or
  shutdown, no spinning;
* market maker and traders: no price below a cent, at most the orders given;
* orchestrator: the program ends, few orders arrive late, the report is right;
* dashboard: it changes nothing, and the figures of one printout are not far apart;
* locks: no threads wait for each other in a circle;
* logger and monitor: no line is mixed with another or lost on the way, no trade
  is counted twice, and what was logged is in the end on display.

## 2. The modules

```
Orders                    data and arithmetic of the matching loop
  Market                  abstract: orders are placed, the two best trade
  OrderBook               the monitor: one action per critical section
                          (refines Market)
    OrderBookClients      any thread calls anything (the test suite)
      MCOrderBook         instances for TLC
    Exchange              main.cpp's threads around the monitor
      MCExchange          instances for TLC
      Dashboard           the exchange with the thread that prints what it reads
        MCDashboard       instances for TLC
OrdersProofs              lemmas about Orders
  MarketProofs            the market conserves shares
  OrderBookProofs         theorems about OrderBookSpec
    RefinementProofs      OrderBookSpec implements the market
    ExchangeProofs        theorems about Exchange, which implements OrderBookSpec
      DashboardProofs     theorems about Dashboard, which implements Exchange

Locks                     every mutex and the room, lock by lock
  MCLocks                 instances for TLC
  LocksProofs             theorems about Locks

Logger                    the two log files and the threads that write them
  LogMonitor              the GUI that reads them
    MCLogMonitor          instances for TLC
    LoggerProofs          theorems about Logger and LogMonitor (with OrdersProofs
                          for sums)
```

### Orders

A multimap is a sequence sorted by its keys; `InsertPoint` says where `emplace`
puts an order (behind every equal key). `FillQty`, `ExecPrice`, `Fill`,
`EraseComplete` are the pieces of one iteration of `matchSymbol`. Prices are
natural numbers, in a unit the instance chooses. The code has doubles, but it
only compares prices and takes midpoints, and relies on a midpoint lying between
its ends; `(a + b) \div 2` has that property as `(a + b) / 2.0` has. `status` and
the timestamps are left out: the first never changes after construction, the
others are never read. `arrival` is a history field, the order's place among all
insertions.

### OrderBook

A thread inside a call is at a *stage*; an action takes it through one critical
section. `BeginSubmit`, `TakeMarketPrice`, `InsertOrder`, `SignalNewOrder` are
`submitOrder`; `BeginMatch`, `ExecuteTrade`, `AccountTrade`, `EndMatch`,
`PublishHistory`, `PublishStock` are `matchOrders` with `matchSymbol`;
`UpdatePrice` is `updatePrice`. Sections behind `m_stockMutex`, `m_historyMutex`
and `newOrderMutex` take no other lock of the book and touch only what their
lock guards, so each is one step. The book mutex is held over the matching loop
and is a variable. An iteration of the loop is two steps because the two totals
are separate atomics others may read in between.

`OrderBookSpec` is the book with callers of which nothing is known: they begin
any call at any time with any argument, and the flag and the waiting threads
change arbitrarily. It exists to be proved about: whatever holds of it holds of
every composition that implements it. `OrderBookClients` and `Exchange` fix the
callers.

`placed` and `executed` are history variables (all insertions, all trades).

### Market

What the book promises its users, without threads, locks, queues or wakeups: a
set of open orders; `Place` opens one, `MakeTrade` trades the buy and the sell
order of a symbol that no open order has priority over, in one step.
`OrderBook` implements it (`ImplementsMarket == Ideal!Spec`) under the mapping
`open <- OpenOrders`: the orders in the queues that are not complete. `Place` is
the insertion under the book's mutex, `MakeTrade` is `ExecuteTrade`; erasing
complete orders, publishing and announcing are stutters. Between the two halves
of an iteration complete orders are still in their queues, which is why they
have to be filtered out.

### Exchange

The threads of `main.cpp` and the SIGINT handler, each with the loop its source
has:

* trader: `TraderLoop` (the `while` test), `EnterRoom` (`sem_wait`), `TakeQuote`
  and `ComposeOrder` (`generateRandomOrder`, which releases the price lock in
  between), `InSubmitOrder`, `LeaveRoom` (count, `sem_post`);
* engine: `MatcherTop`, `MatcherWait` (`pthread_cond_wait`), `MatcherWake`
  (predicate true, flag consumed), `MatcherRound` (or exit), `CallMatchOrders`,
  `InMatchOrders`, `MatcherRoundOver`; `SpuriousWakeup` is the environment's;
* market maker: `MakerTick` (snapshot or exit), `MakerUpdate` (clamped GBM step
  from the snapshot's price);
* main: `JoinTraders`, `WakeMatcher`, `Report`; `Sigint`; `DashboardExit`.

Random choices (symbol, side, type, quantity, the 5% around the price, the GBM
factor) are existential choices from constants. A limit price is rounded to the
nearest cent as in the code. `rounds` and `placedByShutdown` are history
variables. Sleeps and think times are left out: a thread that sleeps is a thread
not scheduled.

### Dashboard

`Exchange` with the loop of `dashboardThreadFunc`, one step per critical section
or load: `WakeUp` (the second test of the loop), `ReadStocks`
(`getStockSnapshot`), `ReadDepth` (`getOrderDepth`, one book at a time),
`ReadTotals` (two atomic loads), `ReadTrader` (one trader's count at a time),
`FinishPrintout`, `LeaveLoop`. Of a printout it keeps five figures: the stocks'
volumes and the depths, each added up, the two totals, the orders placed. The
prices and the number of active traders are printed and compared with nothing, and
left out.

`ordersPlaced` is a plain `long` that its trader writes while the dashboard loads
it, a data race. The load is one step that gives the value of its moment: the
calls between two printouts keep the compiler from caching it, and a `long` is
loaded whole on every platform of the Makefile. That a printed depth is at most a
room ahead of the printed count holds because a trader counts its order before it
gives its slot back, the next order of that slot is inserted after that, and the
depth is read behind the same book mutex.

### Locks

`OrderBook` and `Exchange` make a critical section one step and leave the logger
out; `Locks` does the reverse and leaves the data out. What a thread has still to
do is a script, the sequence of its lock operations: `SubmitOrder`,
`MatchOrders` and the others are the scripts of the calls, `TraderTurn` that of a
trader's loop body. Where the code decides by data how to go on, the script has
an operation that chooses: `NextTrade` (another trade or the end of the loop,
with the book locked), `WaitForOrders` (the predicate holds, or sleep and lock
again), `NextBook` (the next book of the depth). Threads make any call at any
time, as those of `test_cases.cpp` may.

### Logger and LogMonitor

The log is a system of its own: nothing in the backend reads what it logs.
`Logger` has callers of which only the operations are known. A file is the
sequence of the pieces that `write(2)` has added, each with the place in its line
where it begins and the place where it ends. `BeginLog` (lock, format),
`ShortWrite`, `LastWrite`, `FailedWrite` are `logTrade` and `logSystem` with
`writeToFd`: `ShortWrite` moves the thread on in its line, and may be taken again and
again, as the loop may; the unlock is part of the step that ends the loop. `OpenLogs` is `init`, with
either file failing to open; `CloseLogs` and `Crash` end the process.

Where a write stops matters only to the reader, so the places (`Cuts`) are those the
regular expressions of `logmonitor.cpp` tell apart: a trade cut in its timestamp can
be read off the rest, one cut in its last field is read with a wrong seller, one cut
before the newline is read whole. Two writes that stop within one such place make a
piece from it to itself. `TradeIn` and `EntryIn` say what is read off a line by what
it `Holds` of each message, however many pieces that is in, also when a failed write
has glued lines together. Header lines match neither expression and are left out.

`LogMonitor` reads a log in steps, one per line (`ReadLine`), with the backend's
steps in between; a reader at the end of the file takes the fragment there for a
line, and what follows for another. `StartMonitoring` watches the files that exist and parses both;
`LogChanged` and `EndParse` are the slots, `Refresh` the timer. `Noticed` is the
file watcher: changes not yet delivered count once. A parse whose file is truncated
goes on behind its old position, which is counted in pieces.

## 3. What TLC checks

| run | properties | what it shows |
|---|---|---|
| `book_calls` | `OrderBookInv`, `Conservation`, `LimitsRespected`, `LedgerBalances`, `StockRange`, `PriceTimePriority`, `ImplementsMarket` | two threads submit, match and move the price in every interleaving, with two matching threads in one book at once |
| `exchange_rounds` | `ExchangeInv`, `RoomCapacity`, `NoLostWakeup`, `SleepsOnlyWhenIdle`, `NoBusyWait`, `BoundedDrain`, `HistoryInOrder` | the room, the handshake, the drain after shutdown and the order of the history |
| `exchange_prices` | `PriceFloor`, `FinalReport` | the market collapses to the floor; the report agrees with the books |
| `exchange_liveness` | `Termination`, `RoundCompletes` | the program ends; a round that was begun matches every symbol it had left, shutdown or not |
| `dashboard_printouts` | `TotalsTogether`, `StocksWithinTotal`, `DepthWithinOrders` | how far apart the figures of one printout can be: the volume lacks at most the last trade counted, the stocks never show more than the total, the depth is at most a room ahead of the orders placed |
| `dashboard_waits` | `ReadsOnly` | with the dashboard the exchange is still the exchange, fairness included: it changes nothing, and main's join of it ends |
| `locks_nesting` | `NoCircularWait`, `LockOrder` | four threads, lock by lock: no circle of threads waiting for mutexes or slots |
| `monitor_counts` | `MonitorInv`, `LinesKeptTogether`, `TradesCountedOnce` | two threads' lines are cut, lost and glued and the files truncated while the GUI reads them: lines of two threads are never mixed; no trade is counted twice, out of order or with another quantity |
| `monitor_liveness` | `EverythingLogged`, `RowsStay`, `CatchesUp` | if no write fails, a returned call has left its whole line; a trade on display stays until newer ones push it out; what was written to a watched log is in the end on display, exactly |
| `monitor_levels` | `LevelsKnown` (violated) | finding 3 below |
| `book_market` | `MarketExecutesAtBest` (violated) | finding 1 below |
| `book_average` | `AverageIsWeighted` (violated) | finding 2 below |

Every property has a mutant in `PROJECT.json`, a plausible bug at a named
definition that makes TLC find the property violated.

### Bounds, and why they are enough

* **Three orders** (`MaxOrders`) of one or two shares at prices on both sides of
  the market: enough for a partial fill, two resting orders at one price with a
  third that has to choose, and an order filled twice at two prices. Two threads
  give every pair of sections of two calls. Updates raise the price that
  trades lower, so that a range has to follow both.
* **`MAX_HISTORY = 1`**: the limit is reached with the second trade; a batch of
  two exceeds it alone.
* **Two traders with two orders each through one slot** for the handshake: one
  order announced while the engine is in a round for another, and one trader
  blocked at the door while the other is inside, which is what the room is for. In
  `exchange_prices` both are inside.
* **Prices** start at 20 cents, where a limit order 5% below meets a market
  order at the next cent. Factors of 5% and 100% let the price collapse to the floor
  in one tick or stay.
* **One symbol**, except for liveness, where a round over **two** has to reach
  both, and for the locks. Books of different symbols share only the totals,
  the history and the flag.
* Traders and threads are symmetric; symmetry is not used where liveness
  is checked.
* **The dashboard** reads beside the exchange of `exchange_rounds`. Three
  constraints keep the run small: one trader draws buys and the other sells
  (`OneBuys`), since two buys of one trader differ from a buy of each only in who
  counts them; the market maker does not tick (`NoTicks`), since every order takes
  the price of the market and no factor moves it; and shutdown is main's
  (`NoSigint`): a SIGINT during a printout makes threads stop early, which to the
  dashboard is the same as threads that are slow.
  `dashboard_waits` has no constraint, which liveness would not survive, and instead
  a single trader, who may trade with itself, and no symmetry.
* **Locks:** four threads, the longest circle that two books, the logger and the
  room could make; two books, two slots.
* **Two lines over two runs of the backend** for the logs: a line cut off by a failed
  write and glued to the next, a truncation before, between and during parses, a table
  of one row that the second trade pushes over. Two threads, so that the mutex
  matters. `monitor_counts` is about what is parsed and counted, and gives the table
  and the log view no rows.
* **`MaxShort`** bounds the short writes that a file holds at a time, in the guard of
  `ShortWrite`: three in `monitor_counts`, all in one line or in both, and two in
  `monitor_liveness`. A loop that goes on once and then gives up shows with two
  (the mutant of `EverythingLogged`). The theorems hold for every value of it.

The number of orders is finite in the program itself (20 traders, 50 orders), so
the bounds on orders cut nothing off that repeats; those on lines, starts and short
writes do, and the theorems do without them.

### Fairness

Liveness is checked under weak fairness of each thread's step. The threads are
ordinary pthreads: one that can run is run eventually. No lock or slot is taken
over and over while another thread waits for it (orders are finite; the market
maker's ticks hold no lock between steps), so strong fairness is not needed.
The steps of the GUI (`ReadLine`, `EndParse`, `Refresh`, `LogChanged`) are weakly
fair, being what its event loop does; those of the backend need not be: a line
that is never finished is not promised to be shown.
The dashboard is one more thread (`DashboardFairness`); `ReadsOnly` shows that
under it `FairSpec`, which only assumes that the dashboard ends, holds.
`SpuriousWakeup` and `Sigint` have no fairness: neither need happen. Deadlock is
checked in every run; the only stopped state is after the report.
In `OrderBookClients` and `Locks` a thread outside a call may always begin one, so
TLC's test finds nothing there: `NoCircularWait` looks at every set of threads.

## 4. What is proved

All theorems hold for arbitrary finite sets of traders, arbitrary symbols,
prices, quantities, slots and orders. They assume only the named ASSUMEs of the
modules: the constants have their types, there is a symbol, opening prices are
positive (at least a cent in the exchange), threads are finitely many, the engine
is not a trader, and the `std::map` of stocks, whose order the market maker's snapshot
and the printed depths follow, has every symbol once. One theorem, `TableKept`, has a hypothesis of its own: no write fails.

**Sums** (`OrdersProofs`). `SumOf` is a fold with CHOOSE, for which the library has
no theorems. `SumIs` and `SumAnyOrder` show that over a finite set it is what its
recursion says, in whatever order the elements are chosen; `SumWithout` takes any
one of them out, `SumMoved` follows a step that changes one of them, and
`SumMonotone` compares two sums. All the ledgers below are proved with these. The
library's induction theorems cannot be instantiated by the installed provers;
`SetInduction` and `SubsetInduction` replace them, with a set in the place of the
predicate, proved from the least element of a set of naturals (`LeastNat`). `Total`,
which adds up a sequence, is a recursive function, and its facts rest on these too.

**The book** (`OrderBookProofs`). The inductive invariant is `OrderBookInv`:
* `TypeOK`;
* `LocksHeld`: a thread holds the mutex of exactly the book whose loop it is in;
* `BatchesCarried`: after the first trade the batch is not empty, and between the
  two steps of an iteration both queues still have their heads (this needs the
  lock);
* `OnlyHeadsComplete`: a complete order is at the head of a queue whose trade is
  being accounted;
* `OrderIdsUnique`: ids of placed orders and of those on their way differ;
* `OrdersUnfilled`: an order being submitted is not overfilled;
* `QueuesSorted`: each queue is sorted by price and arrival, and every order in
  it is one that was placed, in the right queue, filled no more than its quantity.

Sortedness is preserved because an insertion goes behind equal keys and carries
the latest arrival, a fill changes neither price nor arrival, and an erasure
takes the head. From it: `PriorityKept` (the head has priority over the rest of
its queue), `LimitsKept` (a midpoint of crossing prices is within both, and both
orders were placed), `RangeKept`.

`LedgerKept`: `LedgerBalances` is inductive once a batch is known to hold trades of
the symbol its thread is matching only (`BatchesOfTarget`). Each step then moves the
same amount between a shared figure and what one thread still owes it
(`Unaccounted`, `Carried`, `Unrecorded`), and the sum over the threads changes by
that amount (`LeftChanged`).

**The exchange** (`ExchangeProofs`). `ExchangeUsesOrderBook` shows that `Spec`
implements `OrderBookSpec`: each thread's step is a call step of the book, a
change of flag and waiters, or nothing. So `PriorityKept`, `LimitsKept` and
`RangeKept` hold of the exchange. `ExchangeInv` adds the control of the threads
(slots against traders inside, orders left, only the engine waits, main goes on
after the request). On top of it, each with the strengthening it needs:

| theorem | property | argument |
|---|---|---|
| `RoomKept` | `RoomCapacity` | each enter and leave moves one trader and one slot |
| `EngineNeverSleepsThroughWork` | `SleepsOnlyWhenIdle` | inductive with `ExchangeInv`: it sleeps only with flag and request down, and a signal leaves nobody waiting |
| `WakeupsKept` | `NoLostWakeup` | inductive: insertion precedes the announcement, consumption precedes the round, a loop ends only when uncrossed |
| `RoundsBounded` | `NoBusyWait` | `RoundsInv`: rounds begun and owed (flag up, or consumed and not begun) are at most the announcements |
| `DrainBounded` | `BoundedDrain` | `DrainInv`: late orders and traders still committed are together at most the traders |
| `FloorKept` | `PriceFloor` | `FloorInv`: also the prices on their way (quotes, orders, trades) are at least a cent; 95% of a cent rounds to a cent |

`HistoryKept` (`HistoryInOrder`) follows from `HistoryInv`, which says the same
through an index into `executed`, so that an append and `KeepRecent` can be
followed position by position.

`ReportAgrees` (`FinalReport`) follows from `ReportInv`: who may be in which call and
when main goes on (`CallsInv`); the traders' counts lack the orders of those still
in the room after their insertion (`CountInv`); the volumes lack what the engine
carries (`VolumeInv`, with `LedgerInv`), its own count the trades of the call it is
in (`MatchesInv`). At the report nobody is in a call and nothing is lacking.

**The market** (`MarketProofs`, `RefinementProofs`). `MarketConserves`: ids are
unique, an open order has traded its filled quantity and a closed one its
quantity; an id never placed has no trades. `Implementation`: the book's
invariant makes the head of a sorted queue the order no open order has priority
over, and unique ids make a fill change exactly two of the open orders.
`SharesConserved` carries the market's conservation back to the queues, which
needs `OnlyHeadsComplete` and `OrderIdsUnique`. Both are proved of the book with
arbitrary callers, and so hold of the exchange.

**The dashboard** (`DashboardProofs`). `DashboardUsesExchange`: every step is a
step of `Exchange` or leaves it alone, so the theorems above hold beside a running
dashboard. `PrintedTotalsMatch` needs `TotalsInv` (between the two steps of an
iteration the volume is that of all trades but the last) and `SeenInv`, the same of
the figures read so far. `PrintedStocksWithin` needs `StocksInv`: when the stocks
are read, `totalVolume` has all they have been credited with (`ReportInv`), and it
only grows until it is read itself. `PrintedDepthWithin` needs `DepthInv`: while the
books are read one by one, what was read is among the orders placed on the symbols
read; while the traders are read one by one, it is within the counts read, the counts
to be read and the slots, since `CountInv` leaves at most one order uncounted per
trader in the room.

**The locks** (`LocksProofs`). The inductive invariant `LocksInv` says that every
script left to do is `Disciplined` (what may follow a lock, an unlock, a wait) and
that it determines the mutexes its thread holds (`HeldBy(t) = HeldAt(todo[t])`).
Hence `OrderKept`; and in any set of threads one can go on (`NoDeadlock`): one that
holds the logger's mutex waits for nothing; one that holds another mutex waits at
most for that; and one inside the room waits only for mutexes, never for the room.

**The logger** (`LoggerProofs`). `LoggerInvariant`: whoever writes holds the mutex
and its line is the last begun. `LinesTogether` adds that of the line being written
its file has nothing yet, or ends with the piece it will go on from (`Begun`), and
relates any two pieces of a file (`Together`): the earlier is of an older line or
ends no later than the other begins. `NothingLost` adds which run each line belongs
to. Both hold for any number of short writes and of pieces of a line: `MaxLines`,
`MaxRuns` and `MaxShort` are arbitrary numbers in all the theorems. `MonitorOnlyReads`
carries all three to the composition with the GUI.

**The monitor** (`LoggerProofs`). `MonitorInvariant` is its type correctness.
`CountedOnce` (`TradesCountedOnce`) holds whatever is cut, lost or truncated; beside
what has been counted (`CountedInv`, `ShownInv`) its invariant `OnceInv` says that
every trade parsed is older than all that is still to be read (`BehindFile`) and all
that is still to be written (`BehindWriters`), except for the rest of a line of which
there was enough to read the trade off, and no trade can be read off that rest.
`TableKept` (`RowsStay`) adds `FinishedInv` (between the pieces of two lines there is
the end of one; a file ends with a line, or its writer is about to go on) and
`RowsInv` (a trade of this run on display has a `Source`, the first piece of its line
in the file, where the parse has read it or will). It is false if writes fail: a failed
write may leave the start of a line that the GUI shows as a trade, the next line is
then glued to it, and the GUI reads the last trade of the glued line. TLC finds
this with a table of two rows.

**Only model-checked:** what depends on fairness, `Termination`, `RoundCompletes`,
`CatchesUp` and `ReadsOnly`, which is outside what TLAPS can show (liveness,
ENABLED; the safety part of `ReadsOnly` is `DashboardUsesExchange`). Every invariant
and action property of a passing run is a theorem.

## 5. Findings

1. **A market order is not executed at the best available price.** `Order.h:10`
   says "Execute immediately at best available price". `submitOrder` gives it the
   current price and inserts it like a limit order at that price; if the other
   side is dearer it rests. (`book_market`)
2. **The average fill price is not an average.** `Order.h:36` says "Weighted
   average fill price"; each fill overwrites it. (`book_average`)
3. **Information and warning lines lose their colour.** `levelStr` pads them to
   "INFO " and "WARN ", and the parser keeps the blank, while `logmonitor.h:18`
   has "INFO, WARN, ERROR, TRADE" and the widget compares with these.
   (`monitor_levels`)

Observed while modelling, with no statement in the repository that they
contradict: the order status stays PENDING; the engine leaves on shutdown without
a last round, so orders that cross may stay in the books; highs and lows see only
the last price of a batch; the market maker overwrites the price of trades made
since its snapshot. `Logger::log`, of which `Logger.h:33` says "Logs to both
files", logs to the system log only; nothing calls it. The comment at
`Logger.cpp:34` names O_APPEND, which the call of `open` does not pass.
`QUICKSTART.md:112` and `:183` speak of locks acquired in alphabetical order; two
books are never locked together (`LockOrder`), so there is no order to keep.

## 6. Not modelled, and why

* **The dashboard's other figures** (prices, active traders), and what is printed on
  the console at all, the message of the SIGINT handler included.
* **Widgets**: of the GUI's widgets only what they are given to show. Nothing
  updates the ticker and the ladder. Log files deleted or replaced while the GUI
  runs, and two backends on the same files, are left out.
* **Doubles**: rounding below a cent and NaN are outside the model. A GBM step is
  any of a set of factors.
* **Invalid symbols, `init` failure, thread creation failure**: they return or
  exit without changing the state modelled.
* **`status`, timestamps, log texts**: never read by the backend.

## 7. Plan, as carried out

1. `Orders`, `OrderBook`, `OrderBookClients`, `Exchange`, with their invariants
   proved.
2. `Logger` and `LogMonitor`: the files under short and failing writes and crashes,
   and their reader; `LoggerProofs`.
3. `Market`, and the proof that `OrderBook` implements it.
4. `Dashboard`: what one printout may show while the exchange runs.
5. `Locks`: the nesting of the mutexes, and the proof that nobody waits in a circle.
6. Sums over finite sets, and with them the ledgers, the report and the printouts;
   the GUI's counts and its table.

What is left of the program has no state another part depends on (section 6), and
what is left to prove is liveness, which stays with TLC.
