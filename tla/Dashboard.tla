----------------------------- MODULE Dashboard -----------------------------
(***************************************************************************)
(* The exchange with the live dashboard of Backend/main.cpp: a thread that *)
(* prints, every interval, what it reads of the order book and of the      *)
(* traders.  It reads piece by piece, each piece behind another lock or    *)
(* behind none, while the others go on; the properties say how far apart   *)
(* the figures of one printout can be.                                     *)
(*                                                                         *)
(* Of a printout the model keeps the five figures the properties compare.  *)
(* ordersPlaced is a plain long that its trader writes meanwhile: a load   *)
(* of it is one step and gives the value of that moment, on every platform *)
(* the program builds for.  isActive, the number of active traders and the *)
(* prices are printed and compared with nothing: they are left out.        *)
(***************************************************************************)
EXTENDS Exchange

VARIABLES dashAt,   \* where the dashboard's loop is
          toRead,   \* the books or traders it has yet to read
          shown     \* the figures of the printout in progress:
                    \*   shares   the volumes of the stocks, added up
                    \*   resting  the entries of the order depth, added up
                    \*   trades   "Total Trades Executed"
                    \*   volume   "Total Volume"
                    \*   orders   "Total Orders Placed"

dashVars == <<dashAt, toRead, shown>>
dashboardVars == <<vars, dashVars>>

NoFigures == [shares |-> 0, resting |-> 0, trades |-> 0, volume |-> 0, orders |-> 0]

DashboardInit ==
  /\ Init
  /\ dashAt = "rest" /\ toRead = <<>> /\ shown = NoFigures

-----------------------------------------------------------------------------
Deaf_WakeUp ==
  /\ dashRunning
  /\ dashAt = "rest"
  /\ dashAt' = "stocks"
  /\ UNCHANGED <<vars, toRead, shown>>

\* Shutdown is tested before and after the sleep: the loop ends at either
\* test, a printout begins at the second.
WakeUp ==
  /\ dashRunning
  /\ dashAt = "rest"
  /\ ~shutdown
  /\ dashAt' = "stocks"
  /\ UNCHANGED <<vars, toRead, shown>>

\* getStockSnapshot: one critical section.
ReadStocks ==
  /\ dashAt = "stocks"
  /\ shown' = [shown EXCEPT !.shares = SumOf(volume)]
  /\ toRead' = MapOrder
  /\ dashAt' = "depth"
  /\ UNCHANGED vars

\* getOrderDepth: the mutex of one book after the other.
ReadDepth ==
  LET s == Head(toRead)
  IN  /\ dashAt = "depth"
      /\ bookMutex[s] = Unlocked
      /\ shown' = [shown EXCEPT !.resting = @ + Len(Bids(s)) + Len(Asks(s))]
      /\ toRead' = Tail(toRead)
      /\ dashAt' = IF toRead' = <<>> THEN "trades" ELSE "depth"
      /\ UNCHANGED vars

Swapped_ReadTotals ==
  /\ \/ /\ dashAt = "trades" /\ dashAt' = "volume"
        /\ shown' = [shown EXCEPT !.volume = totalVolume]
     \/ /\ dashAt = "volume" /\ dashAt' = "orders"
        /\ shown' = [shown EXCEPT !.trades = totalTrades]
  /\ IF dashAt = "volume" THEN toRead' \in SetToSeqs(Traders) ELSE UNCHANGED toRead
  /\ UNCHANGED vars

\* Two atomic loads.  Then the traders, one after the other: which of them
\* comes first says nothing, and may be another at each printout.
ReadTotals ==
  /\ \/ /\ dashAt = "trades" /\ dashAt' = "volume"
        /\ shown' = [shown EXCEPT !.trades = totalTrades]
     \/ /\ dashAt = "volume" /\ dashAt' = "orders"
        /\ shown' = [shown EXCEPT !.volume = totalVolume]
  /\ IF dashAt = "volume" THEN toRead' \in SetToSeqs(Traders) ELSE UNCHANGED toRead
  /\ UNCHANGED vars

ReadTrader ==
  /\ dashAt = "orders"
  /\ toRead # <<>>
  /\ shown' = [shown EXCEPT !.orders = @ + ordersPlaced[Head(toRead)]]
  /\ toRead' = Tail(toRead)
  /\ UNCHANGED <<vars, dashAt>>

Printed == dashAt = "orders" /\ toRead = <<>>

FinishPrintout ==
  /\ Printed
  /\ dashAt' = "rest"
  /\ shown' = NoFigures
  /\ UNCHANGED <<vars, toRead>>

LeaveLoop == dashAt = "rest" /\ DashboardExit /\ UNCHANGED dashVars

DashboardStep == \/ WakeUp \/ ReadStocks \/ ReadDepth \/ ReadTotals
                 \/ ReadTrader \/ FinishPrintout \/ LeaveLoop

OthersStep == \/ \E t \in Traders : TraderStep(t)
              \/ MatcherStep \/ SpuriousWakeup
              \/ MakerStep \/ MainStep \/ Sigint
              \/ Terminated

DashboardNext == DashboardStep \/ (OthersStep /\ UNCHANGED dashVars)

DashboardSpec == DashboardInit /\ [][DashboardNext]_dashboardVars

\* As in Exchange; the dashboard's thread runs whenever it can.
DashboardFairness ==
  /\ \A t \in Traders : WF_dashboardVars(TraderStep(t) /\ UNCHANGED dashVars)
  /\ WF_dashboardVars(MatcherStep /\ UNCHANGED dashVars)
  /\ WF_dashboardVars(MakerStep /\ UNCHANGED dashVars)
  /\ WF_dashboardVars(MainStep /\ UNCHANGED dashVars)
  /\ WF_dashboardVars(DashboardStep)

DashboardFairSpec == DashboardSpec /\ DashboardFairness

-----------------------------------------------------------------------------
(***************************************************************************)
(* Properties.                                                             *)
(***************************************************************************)
\* The volume printed has at least the shares of the trades printed next to
\* it, but for the last of them, and none of a trade not yet made.  (The two
\* totals are separate atomics, incremented in the order they are read in.)
TotalsTogether ==
  Printed => /\ shown.volume >= SharesOf(SubSeq(executed, 1, shown.trades - 1))
             /\ shown.volume <= SharesOf(executed)

\* The volumes printed for the stocks never add up to more than the total
\* printed under them.  (matchOrders accounts a trade before it publishes it;
\* the dashboard reads the stocks first and the total later.)
StocksWithinTotal == Printed => shown.shares <= shown.volume

\* The orders printed as resting exceed the orders printed as placed by no more
\* than the trading room has slots.  (An order rests before its trader counts
\* it, and the trader holds a slot in between.)
DepthWithinOrders == Printed => shown.resting <= shown.orders + MAX_ROOM_CAPACITY

\* The dashboard only reads: what the others do, and how long main waits for
\* it, is what module Exchange says, in which it does nothing but leave.
ReadsOnly == FairSpec

=============================================================================
