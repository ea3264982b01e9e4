--------------------------- MODULE DashboardProofs ---------------------------
(***************************************************************************)
(* Proofs about the exchange with its dashboard: the dashboard changes     *)
(* nothing the others see, so every theorem about the exchange holds with  *)
(* it; and the two totals of a printout belong together although the       *)
(* engine trades between the two reads.                                    *)
(***************************************************************************)
EXTENDS Dashboard, ExchangeProofs

\* Beside its own variables the dashboard changes nothing, but when it leaves.
LEMMA DashboardKeepsExchange ==
  ASSUME DashboardStep
  PROVE  UNCHANGED vars \/ DashboardExit
BY DEF DashboardStep, WakeUp, ReadStocks, ReadDepth, ReadTotals, ReadTrader,
       FinishPrintout, LeaveLoop

LEMMA ExchangeStep ==
  ASSUME [DashboardNext]_dashboardVars
  PROVE  [Next]_vars
<1>1. OthersStep => Next
  BY DEF OthersStep, Next
<1>2. DashboardExit => Next
  BY DEF Next
<1> QED BY <1>1, <1>2, DashboardKeepsExchange DEF DashboardNext, dashboardVars

\* With the dashboard reading along, the exchange does nothing it would not do
\* without: every theorem about Spec holds of DashboardSpec.  (The dashboard
\* of main.cpp takes locks, reads and prints.)
THEOREM DashboardUsesExchange == DashboardSpec => Spec
<1>1. DashboardInit => Init
  BY DEF DashboardInit
<1>2. [DashboardNext]_dashboardVars => [Next]_vars
  BY ExchangeStep
<1> QED BY <1>1, <1>2, PTL DEF DashboardSpec, Spec

-----------------------------------------------------------------------------
(***************************************************************************)
(* The totals.  Between the two steps of an iteration totalVolume is the   *)
(* number of shares of all trades but the last.                            *)
(***************************************************************************)
Before(k) == SharesOf(SubSeq(executed, 1, k))

TotalsInv ==
  /\ totalTrades = Len(executed)
  /\ IF stage[Matcher] = "account"
     THEN /\ executed # <<>> /\ Last(trades[Matcher]) = Last(executed)
          /\ totalVolume = Before(Len(executed) - 1)
     ELSE totalVolume = SharesOf(executed)

LEMMA TradesTyped ==
  ASSUME OrderBookInv
  PROVE  /\ executed \in Seq(ATrade) /\ Len(executed) \in Nat
         /\ \A trade \in ATrade : trade.quantity \in Nat
         /\ SharesOf(<<>>) = 0 /\ SharesOf(executed) \in Nat
         /\ \A k \in Int : k < Len(executed) =>
              /\ SubSeq(executed, 1, k) \in Seq(ATrade) /\ Before(k) \in Nat
<1>1. executed \in Seq(ATrade) /\ Len(executed) \in Nat
  BY LenProperties DEF OrderBookInv, TypeOK
<1>2. \A trade \in ATrade : trade.quantity \in Nat
  BY DEF ATrade, TradeRecord
<1>3. ASSUME NEW batch \in Seq(ATrade) PROVE SharesOf(batch) \in Nat
  <2>1. \A i \in 1 .. Len(batch) : batch[i] \in ATrade
    BY ElementOfSeq
  <2> QED BY <1>2, <2>1, LenProperties, SharesOfNat
<1>4. SharesOf(<<>>) = 0
  <2>1. DOMAIN <<>> = {} /\ [i \in {} |-> <<>>[i].quantity] = <<>>
    OBVIOUS
  <2> QED BY <2>1, TotalProperties, EmptySeq DEF SharesOf
<1>5. ASSUME NEW k \in Int, k < Len(executed) PROVE SubSeq(executed, 1, k) \in Seq(ATrade)
  BY <1>1, <1>5, ElementOfSeq, SubSeqProperties, EmptySeq
<1> QED BY <1>1, <1>2, <1>3, <1>4, <1>5 DEF Before

\* The shares before the last trade are at most all shares.
LEMMA BeforeLast ==
  ASSUME OrderBookInv
  PROVE  Before(Len(executed) - 1) <= SharesOf(executed)
<1>1. CASE executed = <<>>
  <2>1. SubSeq(executed, 1, Len(executed) - 1) = <<>>
    BY <1>1
  <2>2. Before(Len(executed) - 1) = 0
    BY <2>1, TradesTyped, Zenon DEF Before
  <2> QED BY <2>2, TradesTyped
<1>2. CASE executed # <<>>
  <2>1. SharesOf(executed) = Before(Len(executed) - 1) + Last(executed).quantity
    BY <1>2, TradesTyped, SharesOfFront DEF Before
  <2>2. Last(executed).quantity \in Nat
    BY <1>2, TradesTyped, ElementOfSeq, EmptySeq DEF Last
  <2> QED BY <2>1, <2>2, TradesTyped
<1> QED BY <1>1, <1>2

LEMMA TotalsExecute ==
  ASSUME ExchangeInv, TotalsInv, ExecuteTrade(Matcher)
  PROVE  /\ TotalsInv' /\ totalVolume' = totalVolume
         /\ \E trade \in ATrade : executed' = Append(executed, trade)
<1> USE MembersOfThreads DEF ExchangeInv
<1> DEFINE s     == target[Matcher]
           buy   == Head(Bids(s))
           sell  == Head(Asks(s))
           qty   == FillQty(buy, sell)
           price == ExecPrice(buy.price, sell.price)
           trade == Trade(s, buy, sell, qty, price)
<1>1. /\ stage[Matcher] = "match" /\ s \in Symbols /\ Crossed(s)
      /\ stage \in [Threads -> Stages] /\ trades \in [Threads -> Seq(ATrade)]
  BY MatchingTarget DEF ExecuteTrade, OrderBookInv, TypeOK
<1>2. trade \in ATrade
  BY <1>1, CrossingHeads DEF OrderBookInv
<1>3. /\ trades' = [trades EXCEPT ![Matcher] = Append(@, trade)]
      /\ executed' = Append(executed, trade)
      /\ stage' = [stage EXCEPT ![Matcher] = "account"]
      /\ totalTrades' = totalTrades + 1 /\ totalVolume' = totalVolume
  BY DEF ExecuteTrade
<1> HIDE DEF s, buy, sell, qty, price, trade
<1>4. executed \in Seq(ATrade) /\ Len(executed) \in Nat
  BY TradesTyped
<1>5. /\ Len(executed') = Len(executed) + 1 /\ executed' # <<>> /\ Last(executed') = trade
      /\ SubSeq(executed', 1, Len(executed)) = executed
  BY <1>2, <1>3, <1>4 DEF Last
<1>6. trades'[Matcher] = Append(trades[Matcher], trade) /\ trades[Matcher] \in Seq(ATrade)
  BY <1>1, <1>3
<1>7. Last(trades'[Matcher]) = trade
  BY <1>2, <1>6 DEF Last
<1>8. stage'[Matcher] = "account" /\ totalVolume' = SharesOf(executed)
  BY <1>1, <1>3 DEF TotalsInv
<1>9. totalVolume' = SharesOf(SubSeq(executed', 1, Len(executed') - 1))
  <2>1. Len(executed') - 1 = Len(executed)
    BY <1>4, <1>5
  <2> QED BY <1>5, <1>8, <2>1, Zenon
<1> QED BY <1>2, <1>3, <1>5, <1>7, <1>8, <1>9 DEF TotalsInv, Before

LEMMA TotalsAccount ==
  ASSUME ExchangeInv, TotalsInv, AccountTrade(Matcher)
  PROVE  TotalsInv' /\ executed' = executed /\ totalVolume' >= totalVolume
<1> USE MembersOfThreads DEF ExchangeInv
<1>1. /\ stage[Matcher] = "account" /\ stage' = [stage EXCEPT ![Matcher] = "match"]
      /\ totalVolume' = totalVolume + Last(trades[Matcher]).quantity
      /\ UNCHANGED <<totalTrades, executed>>
  BY DEF AccountTrade
<1>2. stage'[Matcher] = "match"
  BY <1>1 DEF OrderBookInv, TypeOK
<1>3. /\ executed # <<>> /\ Last(trades[Matcher]) = Last(executed)
      /\ totalVolume = Before(Len(executed) - 1)
  BY <1>1 DEF TotalsInv
<1>4. SharesOf(executed) = Before(Len(executed) - 1) + Last(executed).quantity
  BY <1>3, TradesTyped, SharesOfFront DEF Before
<1>5. totalVolume' = SharesOf(executed)
  BY <1>1, <1>3, <1>4
<1> QED BY <1>1, <1>2, <1>3, <1>5, BeforeLast, TradesTyped DEF TotalsInv

\* Only the engine's steps touch the totals: a trade extends the sequence of
\* trades and totalVolume never decreases.
LEMMA TotalsStep ==
  ASSUME ExchangeInv, TotalsInv, [Next]_vars
  PROVE  /\ TotalsInv' /\ totalVolume' >= totalVolume
         /\ executed' = executed \/ \E trade \in ATrade : executed' = Append(executed, trade)
<1> USE MembersOfThreads DEF ExchangeInv
<1>1. /\ stage \in [Threads -> Stages] /\ trades \in [Threads -> Seq(ATrade)]
      /\ totalVolume \in Nat
  BY DEF OrderBookInv, TypeOK
<1>2. ASSUME UNCHANGED totalVars, UNCHANGED trades \/ stage[Matcher] # "account",
             (stage'[Matcher] = "account") = (stage[Matcher] = "account")
      PROVE  TotalsInv' /\ totalVolume' >= totalVolume /\ executed' = executed
  BY <1>1, <1>2 DEF TotalsInv, Before, totalVars
<1>3. ASSUME NEW t \in Traders, TraderStep(t)
      PROVE  UNCHANGED <<totalVars, trades>> /\ stage'[Matcher] = stage[Matcher]
  BY <1>1, <1>3 DEF TraderStep, TraderLoop, EnterRoom, TakeQuote, ComposeOrder, BeginSubmit,
       InSubmitOrder, SubmitStep, TakeMarketPrice, InsertOrder, SignalNewOrder, LeaveRoom,
       orderBookVars, matchVars
<1>4. ASSUME \/ MatcherTop \/ MatcherWait \/ MatcherWake \/ MatcherRound \/ MatcherRoundOver
             \/ SpuriousWakeup \/ MakerStep \/ DashboardExit \/ MainStep \/ Sigint
             \/ UNCHANGED vars
      PROVE  UNCHANGED <<totalVars, trades, stage>>
  BY <1>4 DEF MatcherTop, MatcherWait, MatcherWake, MatcherRound, MatcherRoundOver,
       SpuriousWakeup, MakerStep, MakerTick, MakerUpdate, UpdatePrice, DashboardExit,
       MainStep, JoinTraders, WakeMatcher, Report, Sigint, vars, orderBookVars, matchVars
<1>5. ASSUME \/ CallMatchOrders
             \/ EndMatch(Matcher) \/ PublishHistory(Matcher) \/ PublishStock(Matcher)
      PROVE  /\ UNCHANGED totalVars
             /\ stage[Matcher] # "account" /\ stage'[Matcher] # "account"
  BY <1>1, <1>5 DEF CallMatchOrders, BeginMatch, EndMatch, PublishHistory, PublishStock
<1>6. CASE InMatchOrders /\ (ExecuteTrade(Matcher) \/ AccountTrade(Matcher))
  BY <1>1, <1>6, TotalsExecute, TotalsAccount
<1> QED BY <1>2, <1>3, <1>4, <1>5, <1>6 DEF Next, MatcherStep, InMatchOrders, Terminated

LEMMA TotalsInvariant == Spec => []TotalsInv
<1>1. Init => TotalsInv
  <2> SUFFICES ASSUME Init PROVE TotalsInv
    OBVIOUS
  <2>1. executed = <<>> /\ totalTrades = 0 /\ totalVolume = 0 /\ stage[Matcher] = "idle"
    BY MembersOfThreads DEF Init, OrderBookInit
  <2>2. SharesOf(executed) = 0
    BY <2>1, TradesTyped, InitExchangeInv DEF ExchangeInv
  <2> QED BY <2>1, <2>2 DEF TotalsInv
<1>2. ExchangeInv /\ TotalsInv /\ [Next]_vars => TotalsInv'
  BY TotalsStep
<1> QED BY <1>1, <1>2, ExchangeInvariant, PTL DEF Spec

-----------------------------------------------------------------------------
(***************************************************************************)
(* The printout in progress.                                               *)
(***************************************************************************)
\* What has been read of the totals is true of the trades there were; from the
\* first read on totalVolume has the shares of all trades but the last read.
SeenInv ==
  /\ {"trades", "volume"} \subseteq DOMAIN shown
  /\ shown.trades \in Nat /\ shown.volume \in Nat
  /\ dashAt \in {"volume", "orders"} => shown.trades <= Len(executed)
  /\ dashAt = "volume" => totalVolume >= Before(shown.trades - 1)
  /\ dashAt = "orders" => /\ shown.volume >= Before(shown.trades - 1)
                          /\ shown.volume <= SharesOf(executed)

\* What is read stays true while the others go on.
LEMMA SeenKept ==
  ASSUME OrderBookInv, SeenInv, UNCHANGED dashVars, totalVolume \in Nat, totalVolume' \in Nat,
         totalVolume' >= totalVolume,
         executed' = executed \/ \E trade \in ATrade : executed' = Append(executed, trade)
  PROVE  SeenInv'
<1>1. /\ executed \in Seq(ATrade) /\ Len(executed) \in Nat /\ shown.trades \in Nat
      /\ shown.volume \in Nat
  BY TradesTyped DEF SeenInv
<1>2. CASE executed' = executed
  BY <1>1, <1>2, TradesTyped DEF SeenInv, dashVars, Before
<1>3. ASSUME NEW trade \in ATrade, executed' = Append(executed, trade) PROVE SeenInv'
  <2>1. Len(executed') = Len(executed) + 1
    BY <1>1, <1>3
  <2>2. SharesOf(executed') >= SharesOf(executed) /\ SharesOf(executed') \in Nat
    BY <1>1, <1>3, TradesTyped, SharesOfAppend
  <2>3. ASSUME NEW k \in Int, k <= Len(executed)
        PROVE  SubSeq(executed', 1, k) = SubSeq(executed, 1, k)
    <3>1. \A i \in 1 .. k : executed'[i] = executed[i] /\ executed[i] \in ATrade
      BY <1>1, <1>3, <2>3, ElementOfSeq
    <3> DEFINE old == SubSeq(executed, 1, k)
               new == SubSeq(executed', 1, k)
    <3>2. old \in Seq(ATrade) /\ Len(old) = (IF 1 <= k THEN k - 1 + 1 ELSE 0)
          /\ \A i \in 1 .. k - 1 + 1 : old[i] = executed[1 + i - 1]
      BY <2>3, <3>1, SubSeqProperties
    <3>3. new \in Seq(ATrade) /\ Len(new) = (IF 1 <= k THEN k - 1 + 1 ELSE 0)
          /\ \A i \in 1 .. k - 1 + 1 : new[i] = executed'[1 + i - 1]
      BY <2>3, <3>1, SubSeqProperties
    <3> HIDE DEF old, new
    <3>4. /\ Len(old) = Len(new) /\ Len(old) \in Nat
          /\ \A i \in 1 .. Len(old) : old[i] = new[i]
      BY <2>3, <3>1, <3>2, <3>3
    <3>5. old = new
      BY <3>2, <3>3, <3>4
    <3> QED BY <3>5 DEF old, new
  <2>4. shown.trades <= Len(executed) =>
          /\ Before(shown.trades - 1)' = Before(shown.trades - 1)
          /\ Before(shown.trades - 1) \in Nat
    <3> SUFFICES ASSUME shown.trades <= Len(executed)
                 PROVE  /\ Before(shown.trades - 1)' = Before(shown.trades - 1)
                        /\ Before(shown.trades - 1) \in Nat
      OBVIOUS
    <3> DEFINE k == shown.trades - 1
    <3>1. k \in Int /\ k < Len(executed) /\ k <= Len(executed)
      BY <1>1
    <3>2. shown'.trades - 1 = k
      BY DEF dashVars
    <3> HIDE DEF k
    <3>3. SubSeq(executed', 1, k) = SubSeq(executed, 1, k) /\ Before(k) \in Nat
      BY <2>3, <3>1, TradesTyped
    <3>4. Before(shown.trades - 1)' = SharesOf(SubSeq(executed', 1, k))
      BY <3>2, Zenon DEF Before
    <3> QED BY <3>3, <3>4, Zenon DEF Before, k
  <2> QED BY <1>1, <2>1, <2>2, <2>4, TradesTyped DEF SeenInv, dashVars
<1> QED BY <1>2, <1>3

LEMMA SeenRead ==
  ASSUME ExchangeInv, TotalsInv, SeenInv, DashboardStep
  PROVE  SeenInv'
<1> USE MembersOfThreads DEF ExchangeInv
<1>1. /\ Len(executed) \in Nat /\ totalVolume \in Nat /\ totalTrades = Len(executed)
      /\ SharesOf(executed) \in Nat /\ Before(Len(executed) - 1) \in Nat
      /\ Before(Len(executed) - 1) <= SharesOf(executed)
  BY TradesTyped, BeforeLast DEF TotalsInv, OrderBookInv, TypeOK
<1>2. totalVolume >= Before(Len(executed) - 1) /\ totalVolume <= SharesOf(executed)
  BY <1>1 DEF TotalsInv
<1>3. UNCHANGED <<executed, totalVolume>>
  BY DashboardKeepsExchange
     DEF vars, orderBookVars, totalVars, DashboardExit
<1>4. CASE WakeUp \/ LeaveLoop
  BY <1>3, <1>4 DEF WakeUp, LeaveLoop, dashVars, SeenInv, Before
<1>5. ASSUME UNCHANGED <<shown, dashAt>> \/ dashAt' \notin {"volume", "orders"},
             DOMAIN shown' = DOMAIN shown,
             shown'.trades = shown.trades, shown'.volume = shown.volume
      PROVE  SeenInv'
  BY <1>3, <1>5 DEF SeenInv, Before
<1>6. CASE ReadStocks
  <2>1. /\ dashAt' = "depth" /\ DOMAIN shown' = DOMAIN shown
        /\ shown'.trades = shown.trades /\ shown'.volume = shown.volume
    BY <1>6 DEF ReadStocks, SeenInv
  <2> QED BY <1>5, <2>1
<1>7. CASE ReadDepth
  <2>1. /\ dashAt' \in {"depth", "trades"} /\ DOMAIN shown' = DOMAIN shown
        /\ shown'.trades = shown.trades /\ shown'.volume = shown.volume
    BY <1>7 DEF ReadDepth, SeenInv
  <2> QED BY <1>5, <2>1
<1>8. CASE ReadTotals
  <2>1. CASE dashAt = "trades"
    <3>1. /\ dashAt' = "volume" /\ DOMAIN shown' = DOMAIN shown
          /\ shown'.trades = Len(executed) /\ shown'.volume = shown.volume
      BY <1>1, <1>8, <2>1 DEF ReadTotals, SeenInv
    <3> QED BY <1>1, <1>2, <1>3, <3>1 DEF SeenInv, Before
  <2>2. CASE dashAt = "volume"
    <3>1. /\ dashAt' = "orders" /\ DOMAIN shown' = DOMAIN shown
          /\ shown'.trades = shown.trades /\ shown'.volume = totalVolume
      BY <1>1, <1>8, <2>2 DEF ReadTotals, SeenInv
    <3> QED BY <1>1, <1>2, <1>3, <2>2, <3>1 DEF SeenInv, Before
  <2> QED BY <1>8, <2>1, <2>2 DEF ReadTotals
<1>9. CASE ReadTrader
  <2>1. /\ UNCHANGED dashAt /\ DOMAIN shown' = DOMAIN shown
        /\ shown'.trades = shown.trades /\ shown'.volume = shown.volume
    BY <1>9 DEF ReadTrader, SeenInv
  <2> QED BY <1>3, <2>1 DEF SeenInv, Before
<1>10. CASE FinishPrintout
  BY <1>3, <1>10 DEF FinishPrintout, NoFigures, SeenInv, Before
<1> QED BY <1>4, <1>6, <1>7, <1>8, <1>9, <1>10 DEF DashboardStep

\* Whatever is traded between the two reads, and however long the dashboard
\* takes, the volume it prints has the shares of the trades printed next to it,
\* but for the last of them, and of no trade not made.
THEOREM PrintedTotalsMatch == DashboardSpec => []TotalsTogether
<1>1. DashboardInit => SeenInv
  BY DEF DashboardInit, NoFigures, SeenInv
<1>2. ASSUME ExchangeInv, ExchangeInv', TotalsInv, SeenInv, [DashboardNext]_dashboardVars
      PROVE  SeenInv'
  <2>1. [Next]_vars
    BY <1>2, ExchangeStep
  <2>2. CASE DashboardStep
    BY <1>2, <2>2, SeenRead
  <2>3. CASE UNCHANGED dashVars
    <3>1. totalVolume \in Nat /\ totalVolume' \in Nat
      BY <1>2 DEF ExchangeInv, OrderBookInv, TypeOK
    <3> QED BY <1>2, <2>1, <2>3, <3>1, TotalsStep, SeenKept DEF ExchangeInv
  <2> QED BY <1>2, <2>2, <2>3 DEF DashboardNext, dashboardVars
<1>3. SeenInv => TotalsTogether
  BY DEF SeenInv, TotalsTogether, Printed, Before
<1> QED BY <1>1, <1>2, <1>3, DashboardUsesExchange, ExchangeInvariant, TotalsInvariant, PTL
        DEF DashboardSpec

-----------------------------------------------------------------------------
(***************************************************************************)
(* The volumes of the stocks.  A trade is accounted before its shares are  *)
(* published, and totalVolume never decreases.                             *)
(***************************************************************************)
\* Whenever they are read, the volumes of the stocks are within the total.
LEMMA VolumesWithin ==
  ASSUME ExchangeInv, ReportInv
  PROVE  SumOf(volume) <= totalVolume /\ SumOf(volume) \in Nat /\ totalVolume \in Nat
<1> USE MembersOfThreads
<1> DEFINE batch == trades[Matcher]
           owed  == Unaccounted(Matcher)
<1>1. /\ batch \in Seq(ATrade) /\ totalVolume \in Nat /\ volume \in [Symbols -> Nat]
      /\ stage[Matcher] = "account" => batch # <<>>
  BY DEF ExchangeInv, OrderBookInv, TypeOK, BatchesCarried
<1>2. SumOf(volume) \in Nat
  BY <1>1, SymbolsFinite, SumWithout
<1>3. SumOf(volume) + SharesOf(batch) = SharesOf(executed)
  BY DEF ReportInv, VolumeInv
<1>4. totalVolume + owed = SharesOf(executed)
  <2>1. totalVolume + AllUnaccounted = SharesOf(executed)
    BY DEF ReportInv, LedgerInv, LedgerBalances, AllUnaccounted
  <2> QED BY <2>1, OneAccount DEF ReportInv
<1>5. owed \in Nat /\ SharesOf(batch) \in Nat /\ owed <= SharesOf(batch)
  <2>1. CASE stage[Matcher] = "account"
    <3>1. owed = Last(batch).quantity
      BY <2>1 DEF Unaccounted
    <3> HIDE DEF batch, owed
    <3> DEFINE front == SubSeq(batch, 1, Len(batch) - 1)
    <3>2. SharesOf(batch) = SharesOf(front) + Last(batch).quantity
      BY <1>1, <2>1, TradeQuantities, SharesOfFront
    <3>3. front \in Seq(ATrade)
      BY <1>1, <2>1, EmptySeq, ElementOfSeq, SubSeqProperties
    <3>4. Last(batch).quantity \in Nat /\ SharesOf(front) \in Nat
      BY <1>1, <2>1, <3>3, TradeQuantities
    <3> QED BY <3>1, <3>2, <3>4
  <2>2. CASE stage[Matcher] # "account"
    <3>1. owed = 0
      BY <2>2 DEF Unaccounted
    <3>2. SharesOf(batch) \in Nat
      BY <1>1, TradeQuantities
    <3> QED BY <3>1, <3>2
  <2> QED BY <2>1, <2>2
<1> HIDE DEF batch, owed
<1> QED BY <1>1, <1>2, <1>3, <1>4, <1>5

\* From the read of the stocks on totalVolume has their shares, and what is
\* printed as total volume has them too.
StocksInv ==
  /\ {"shares", "volume"} \subseteq DOMAIN shown
  /\ shown.shares \in Nat
  /\ dashAt \in {"depth", "trades", "volume"} => shown.shares <= totalVolume
  /\ dashAt = "orders" => shown.shares <= shown.volume

LEMMA StocksRead ==
  ASSUME ExchangeInv, ReportInv, StocksInv, DashboardStep
  PROVE  StocksInv'
<1>1. totalVolume' = totalVolume
  BY DashboardKeepsExchange DEF vars, orderBookVars, totalVars, DashboardExit
<1>2. CASE WakeUp \/ LeaveLoop
  BY <1>1, <1>2 DEF WakeUp, LeaveLoop, dashVars, StocksInv
<1>3. CASE ReadStocks
  <2>1. /\ dashAt' = "depth" /\ DOMAIN shown' = DOMAIN shown /\ shown'.shares = SumOf(volume)
    BY <1>3 DEF ReadStocks, StocksInv
  <2> QED BY <1>1, <2>1, VolumesWithin DEF StocksInv
<1>4. CASE ReadDepth
  <2>1. /\ dashAt = "depth" /\ dashAt' \in {"depth", "trades"}
        /\ DOMAIN shown' = DOMAIN shown /\ shown'.shares = shown.shares
    BY <1>4 DEF ReadDepth, StocksInv
  <2> QED BY <1>1, <2>1 DEF StocksInv
<1>5. CASE ReadTotals
  <2>1. \/ dashAt = "trades" /\ dashAt' = "volume"
        \/ dashAt = "volume" /\ dashAt' = "orders" /\ shown'.volume = totalVolume
    BY <1>5 DEF ReadTotals, StocksInv
  <2>2. DOMAIN shown' = DOMAIN shown /\ shown'.shares = shown.shares
    BY <1>5 DEF ReadTotals, StocksInv
  <2> QED BY <1>1, <2>1, <2>2 DEF StocksInv
<1>6. CASE ReadTrader
  <2>1. /\ dashAt' = dashAt /\ DOMAIN shown' = DOMAIN shown
        /\ shown'.shares = shown.shares /\ shown'.volume = shown.volume
    BY <1>6 DEF ReadTrader, StocksInv
  <2> QED BY <1>1, <2>1 DEF StocksInv
<1>7. CASE FinishPrintout
  BY <1>7 DEF FinishPrintout, NoFigures, StocksInv
<1> QED BY <1>2, <1>3, <1>4, <1>5, <1>6, <1>7 DEF DashboardStep

\* However the engine trades and publishes between the reads of a printout, the
\* volumes of the stocks never add up to more than the total under them.
THEOREM PrintedStocksWithin == DashboardSpec => []StocksWithinTotal
<1>1. DashboardInit => StocksInv
  BY DEF DashboardInit, NoFigures, StocksInv
<1>2. ASSUME ExchangeInv, ExchangeInv', TotalsInv, ReportInv, StocksInv,
             [DashboardNext]_dashboardVars
      PROVE  StocksInv'
  <2>1. [Next]_vars
    BY <1>2, ExchangeStep
  <2>2. CASE DashboardStep
    BY <1>2, <2>2, StocksRead
  <2>3. CASE UNCHANGED dashVars
    <3>1. totalVolume \in Nat /\ totalVolume' \in Nat
      BY <1>2 DEF ExchangeInv, OrderBookInv, TypeOK
    <3>2. totalVolume' >= totalVolume
      BY <1>2, <2>1, TotalsStep
    <3> QED BY <1>2, <2>3, <3>1, <3>2 DEF StocksInv, dashVars
  <2> QED BY <1>2, <2>2, <2>3 DEF DashboardNext, dashboardVars
<1>3. StocksInv => StocksWithinTotal
  BY DEF StocksInv, StocksWithinTotal, Printed
<1> QED BY <1>1, <1>2, <1>3, DashboardUsesExchange, ExchangeInvariant, TotalsInvariant,
           ReportInvariant, PTL
        DEF DashboardSpec

-----------------------------------------------------------------------------
(***************************************************************************)
(* The order depth.  The entries read of a book are among the orders       *)
(* placed on it; no book and no trader is read twice; and of the orders    *)
(* placed only those of traders in the room are not yet in a count.        *)
(***************************************************************************)
PlacedOn(S) == {i \in DOMAIN placed : placed[i].symbol \in S}

\* The orders of a book's side, of the orders placed.
PlacedAt(s, side) == {i \in DOMAIN placed : placed[i].symbol = s /\ placed[i].side = side}

\* The counts of the traders in a sequence, added up.
CountsOf(q) == SumOf([t \in ToSet(q) |-> ordersPlaced[t]])

LEMMA PlacedFinite ==
  ASSUME OrderBookInv
  PROVE  /\ IsFiniteSet(DOMAIN placed) /\ Cardinality(DOMAIN placed) = Len(placed)
         /\ Len(placed) \in Nat
<1>1. placed \in Seq(AnOrder)
  BY DEF OrderBookInv, TypeOK
<1> DEFINE n == Len(placed)
<1>2. n \in Nat /\ DOMAIN placed = 1 .. n
  BY <1>1, LenProperties
<1> HIDE DEF n
<1>3. IsFiniteSet(1 .. n) /\ Cardinality(1 .. n) = n
  BY <1>2, FS_Interval
<1> QED BY <1>2, <1>3 DEF n

\* No two entries of a queue are the same order placed.
LEMMA QueueWithin ==
  ASSUME OrderBookInv, NEW s \in Symbols, NEW side \in OrderSides
  PROVE  /\ Len(book[s][side]) <= Cardinality(PlacedAt(s, side))
         /\ Len(book[s][side]) \in Nat /\ IsFiniteSet(PlacedAt(s, side))
<1> DEFINE queue == book[s][side]
           n     == Len(queue)
           T     == PlacedAt(s, side)
           f     == [i \in 1 .. n |-> queue[i].arrival]
<1>1. queue \in Seq(AnOrder) /\ Sorted(queue, s, side, placed)
  BY DEF OrderBookInv, TypeOK, QueuesSorted
<1> HIDE DEF queue
<1>2. n \in Nat /\ DOMAIN queue = 1 .. n
  BY <1>1, LenProperties
<1>3. IsFiniteSet(T)
  <2>1. T \in SUBSET DOMAIN placed
    BY DEF PlacedAt
  <2> QED BY <2>1, PlacedFinite, FS_Subset
<1>4. \A i \in 1 .. n : queue[i].arrival \in T
  BY <1>1, <1>2 DEF Sorted, RestsProperly, SameOrder, PlacedAt
<1>5. \A i, j \in 1 .. n : queue[i].arrival = queue[j].arrival => i = j
  <2>1. \A i, j \in 1 .. n : i < j => queue[j].arrival # queue[i].arrival
    BY <1>1, <1>2 DEF Sorted, MayFollow
  <2> HIDE DEF n
  <2> QED BY <1>2, <2>1
<1>6. f \in Injection(1 .. n, T)
  BY <1>4, <1>5 DEF Injection, IsInjective
<1> HIDE DEF n, T, f
<1>7. Cardinality(1 .. n) = n
  BY <1>2, FS_Interval
<1> QED BY <1>2, <1>3, <1>6, <1>7, FS_Injection DEF n, T, queue

\* The entries of a book are at most the orders placed on its symbol.
LEMMA BookWithin ==
  ASSUME OrderBookInv, NEW s \in Symbols
  PROVE  /\ Len(Bids(s)) + Len(Asks(s)) <= Cardinality(PlacedOn({s}))
         /\ Len(Bids(s)) \in Nat /\ Len(Asks(s)) \in Nat
<1> DEFINE buys  == PlacedAt(s, "BUY")
           sells == PlacedAt(s, "SELL")
<1>1. /\ Len(Bids(s)) <= Cardinality(buys) /\ Len(Bids(s)) \in Nat /\ IsFiniteSet(buys)
      /\ Len(Asks(s)) <= Cardinality(sells) /\ Len(Asks(s)) \in Nat /\ IsFiniteSet(sells)
  BY QueueWithin DEF Bids, Asks, OrderSides
<1>2. buys \cap sells = {} /\ buys \cup sells \in SUBSET PlacedOn({s})
  BY DEF PlacedAt, PlacedOn
<1>3. IsFiniteSet(PlacedOn({s}))
  <2>1. PlacedOn({s}) \in SUBSET DOMAIN placed
    BY DEF PlacedOn
  <2> QED BY <2>1, PlacedFinite, FS_Subset
<1> HIDE DEF buys, sells
<1>4. Cardinality(buys \cup sells) = Cardinality(buys) + Cardinality(sells) - Cardinality({})
  BY <1>1, <1>2, FS_Union
<1>5. Cardinality(buys \cup sells) <= Cardinality(PlacedOn({s}))
  BY <1>2, <1>3, FS_Subset
<1>6. /\ Cardinality(buys) \in Nat /\ Cardinality(sells) \in Nat
      /\ Cardinality(PlacedOn({s})) \in Nat /\ Cardinality({}) = 0
  BY <1>1, <1>3, FS_CardinalityType, FS_EmptySet
<1>7. Cardinality(buys \cup sells) = Cardinality(buys) + Cardinality(sells)
  BY <1>4, <1>6
<1> QED BY <1>1, <1>5, <1>6, <1>7

\* Taking the head off a sequence without repetitions.
LEMMA HeadOff ==
  ASSUME NEW S, NEW q \in Seq(S), q # <<>>, IsInjective(q)
  PROVE  /\ Tail(q) \in Seq(S) /\ IsInjective(Tail(q))
         /\ ToSet(Tail(q)) = ToSet(q) \ {Head(q)} /\ Head(q) \in ToSet(q) /\ Head(q) \in S
<1> DEFINE n == Len(q)
           r == Tail(q)
<1>1. n \in Nat \ {0} /\ DOMAIN q = 1 .. n /\ Head(q) = q[1] /\ Head(q) \in S
  BY EmptySeq, LenProperties, HeadTailProperties
<1>2. /\ r \in Seq(S) /\ Len(r) = n - 1 /\ \A i \in 1 .. n - 1 : r[i] = q[i + 1]
  BY HeadTailProperties
<1>3. DOMAIN r = 1 .. n - 1
  BY <1>1, <1>2, LenProperties
<1> HIDE DEF r, n
<1>4. IsInjective(r)
  <2>1. ASSUME NEW i \in 1 .. n - 1, NEW j \in 1 .. n - 1, r[i] = r[j] PROVE i = j
    <3>1. i + 1 \in DOMAIN q /\ j + 1 \in DOMAIN q /\ q[i + 1] = q[j + 1]
      BY <1>1, <1>2, <2>1
    <3>2. i + 1 = j + 1
      BY <3>1 DEF IsInjective
    <3> QED BY <1>1, <3>2
  <2> QED BY <1>3, <2>1 DEF IsInjective
<1>5. ToSet(r) = {q[k] : k \in 2 .. n}
  <2>1. ASSUME NEW k \in 2 .. n PROVE q[k] \in ToSet(r)
    <3>1. k - 1 \in 1 .. n - 1 /\ r[k - 1] = q[k]
      BY <1>1, <1>2
    <3> QED BY <1>3, <3>1 DEF ToSet
  <2>2. ASSUME NEW i \in 1 .. n - 1 PROVE r[i] \in {q[k] : k \in 2 .. n}
    <3>1. i + 1 \in 2 .. n /\ r[i] = q[i + 1]
      BY <1>1, <1>2
    <3> QED BY <3>1
  <2> QED BY <1>3, <2>1, <2>2 DEF ToSet
<1>6. \A k \in 1 .. n : q[k] = q[1] => k = 1
  BY <1>1 DEF IsInjective
<1>7. ToSet(q) = {q[k] : k \in 1 .. n}
  BY <1>1 DEF ToSet
<1>8. ToSet(r) = ToSet(q) \ {q[1]} /\ q[1] \in ToSet(q)
  <2>1. \A k \in 1 .. n : k = 1 \/ k \in 2 .. n
    BY <1>1
  <2>2. \A k \in 2 .. n : k \in 1 .. n /\ k # 1
    BY <1>1
  <2>3. 1 \in 1 .. n
    BY <1>1
  <2> QED BY <1>5, <1>6, <1>7, <2>1, <2>2, <2>3
<1> QED BY <1>1, <1>2, <1>4, <1>8 DEF r

\* What is read of the books is among the orders placed on the symbols read,
\* and later among the orders counted and those of the traders in the room.
DepthInv ==
  /\ {"resting", "orders"} \subseteq DOMAIN shown
  /\ shown.resting \in Nat /\ shown.orders \in Nat
  /\ dashAt \in {"rest", "stocks"} => shown.resting = 0
  /\ dashAt # "orders" => shown.orders = 0
  /\ dashAt = "depth" =>
       /\ toRead \in Seq(Symbols) /\ toRead # <<>> /\ IsInjective(toRead)
       /\ shown.resting <= Cardinality(PlacedOn(Symbols \ ToSet(toRead)))
  /\ dashAt \in {"trades", "volume"} => shown.resting <= Len(placed)
  /\ dashAt = "orders" =>
       /\ toRead \in Seq(Traders) /\ IsInjective(toRead)
       /\ shown.resting <= shown.orders + CountsOf(toRead) + MAX_ROOM_CAPACITY

\* Orders placed and orders counted only grow.
LEMMA OnlyGrow ==
  ASSUME ExchangeInv, [Next]_vars
  PROVE  /\ Len(placed) <= Len(placed')
         /\ \A i \in DOMAIN placed : i \in DOMAIN placed' /\ placed'[i] = placed[i]
         /\ \A t \in Traders : ordersPlaced[t] <= ordersPlaced'[t]
<1>1. /\ placed \in Seq(AnOrder) /\ ordersPlaced \in [Traders -> Nat]
      /\ Len(placed) \in Nat /\ DOMAIN placed = 1 .. Len(placed)
      /\ order \in [Threads -> AnOrder]
  BY LenProperties DEF ExchangeInv, OrderBookInv, TypeOK, ThreadTypes
<1>2. placed' = placed \/ \E entry : placed' = Append(placed, entry)
  <2>1. ASSUME NEW t \in Traders, TraderStep(t)
        PROVE  placed' = placed \/ \E entry : placed' = Append(placed, entry)
    <3>1. CASE TraderLoop(t) \/ EnterRoom(t) \/ TakeQuote(t) \/ ComposeOrder(t) \/ LeaveRoom(t)
      BY <3>1 DEF TraderLoop, EnterRoom, TakeQuote, ComposeOrder, BeginSubmit, LeaveRoom,
                  orderBookVars, bookVars
    <3>2. CASE InSubmitOrder(t)
      BY <3>2 DEF InSubmitOrder, SubmitStep, TakeMarketPrice, InsertOrder, SignalNewOrder, bookVars
    <3> QED BY <2>1, <3>1, <3>2 DEF TraderStep
  <2> QED BY <2>1, OnlyTradersPlace DEF Next, Terminated, ExchangeInv
<1>3. \A t \in Traders : ordersPlaced[t] <= ordersPlaced'[t]
  <2>1. ASSUME NEW t \in Traders, TraderStep(t)
        PROVE  ordersPlaced' = ordersPlaced \/ ordersPlaced' = [ordersPlaced EXCEPT ![t] = @ + 1]
    BY <2>1 DEF TraderStep, TraderLoop, EnterRoom, TakeQuote, ComposeOrder, InSubmitOrder,
                LeaveRoom, traderVars
  <2>2. UNCHANGED ordersPlaced
          \/ \E t \in Traders : ordersPlaced' = [ordersPlaced EXCEPT ![t] = @ + 1]
    BY <2>1, OnlyTradersMoveTraders DEF Next, Terminated, traderVars
  <2> QED BY <1>1, <2>2
<1>4. /\ Len(placed) <= Len(placed')
      /\ \A i \in DOMAIN placed : i \in DOMAIN placed' /\ placed'[i] = placed[i]
  <2>1. ASSUME NEW entry, placed' = Append(placed, entry)
        PROVE  /\ Len(placed) <= Len(placed')
               /\ \A i \in DOMAIN placed : i \in DOMAIN placed' /\ placed'[i] = placed[i]
    BY <1>1, <2>1
  <2> QED BY <1>1, <1>2, <2>1
<1> QED BY <1>3, <1>4

LEMMA PlacedOnGrows ==
  ASSUME ExchangeInv, ExchangeInv', [Next]_vars, NEW S
  PROVE  /\ Cardinality(PlacedOn(S)) <= Cardinality(PlacedOn(S)')
         /\ Cardinality(PlacedOn(S)) \in Nat /\ Cardinality(PlacedOn(S)') \in Nat
<1>1. IsFiniteSet(DOMAIN placed')
  <2>1. placed' \in Seq(AnOrder)
    BY DEF ExchangeInv, OrderBookInv, TypeOK
  <2>2. DOMAIN placed' = 1 .. Len(placed') /\ Len(placed') \in Nat
    BY <2>1, LenProperties
  <2> QED BY <2>2, FS_Interval
<1>2. PlacedOn(S)' \in SUBSET DOMAIN placed'
  BY DEF PlacedOn
<1>3. PlacedOn(S) \in SUBSET PlacedOn(S)'
  BY OnlyGrow DEF PlacedOn
<1>4. IsFiniteSet(PlacedOn(S)') /\ Cardinality(PlacedOn(S)') \in Nat
  BY <1>1, <1>2, FS_Subset, FS_CardinalityType
<1> QED BY <1>3, <1>4, FS_Subset, FS_CardinalityType

\* The counts of distinct traders are a number.
LEMMA CountsOfTyped ==
  ASSUME ExchangeInv, NEW q \in Seq(Traders)
  PROVE  /\ IsFiniteSet(ToSet(q)) /\ ToSet(q) \subseteq Traders
         /\ [t \in ToSet(q) |-> ordersPlaced[t]] \in [ToSet(q) -> Nat]
         /\ CountsOf(q) \in Nat
<1>1. ToSet(q) \in SUBSET Traders
  <2>1. DOMAIN q = 1 .. Len(q) /\ Len(q) \in Nat
    BY LenProperties
  <2> QED BY <2>1, ElementOfSeq DEF ToSet
<1>2. IsFiniteSet(ToSet(q))
  BY <1>1, MembersOfThreads, FS_Subset
<1>3. [t \in ToSet(q) |-> ordersPlaced[t]] \in [ToSet(q) -> Nat]
  BY <1>1 DEF ExchangeInv, ThreadTypes
<1>4. CountsOf(q) \in Nat
  <2> DEFINE T == ToSet(q)
             f == [t \in T |-> ordersPlaced[t]]
  <2>1. IsFiniteSet(T) /\ f \in [T -> Nat] /\ CountsOf(q) = SumOf(f)
    BY <1>2, <1>3 DEF CountsOf
  <2> HIDE DEF T, f
  <2> QED BY <2>1, SumWithout
<1> QED BY <1>1, <1>2, <1>3, <1>4

\* What is read stays true while the others go on.
LEMMA DepthKept ==
  ASSUME ExchangeInv, ExchangeInv', DepthInv, [Next]_vars, UNCHANGED dashVars
  PROVE  DepthInv'
<1>1. UNCHANGED <<dashAt, toRead, shown>> /\ MAX_ROOM_CAPACITY \in Nat
  BY ExchangeParameters DEF dashVars
<1>2. ASSUME dashAt = "depth"
      PROVE  shown.resting <= Cardinality(PlacedOn(Symbols \ ToSet(toRead))')
  <2>1. PICK S : S = Symbols \ ToSet(toRead)
    OBVIOUS
  <2>2. shown.resting <= Cardinality(PlacedOn(S)) /\ shown.resting \in Nat
    BY <1>2, <2>1 DEF DepthInv
  <2>3. /\ Cardinality(PlacedOn(S)) <= Cardinality(PlacedOn(S)')
        /\ Cardinality(PlacedOn(S)) \in Nat /\ Cardinality(PlacedOn(S)') \in Nat
    BY PlacedOnGrows
  <2>4. PlacedOn(S)' = PlacedOn(Symbols \ ToSet(toRead))'
    BY <1>1, <2>1 DEF PlacedOn
  <2> QED BY <2>2, <2>3, <2>4
<1>3. ASSUME dashAt \in {"trades", "volume"} PROVE shown.resting <= Len(placed')
  <2>1. shown.resting <= Len(placed) /\ shown.resting \in Nat
    BY <1>3 DEF DepthInv
  <2>2. Len(placed) <= Len(placed') /\ Len(placed) \in Nat /\ Len(placed') \in Nat
    BY OnlyGrow, LenProperties DEF ExchangeInv, OrderBookInv, TypeOK
  <2> QED BY <2>1, <2>2
<1>4. ASSUME dashAt = "orders"
      PROVE  shown.resting <= shown.orders + CountsOf(toRead)' + MAX_ROOM_CAPACITY
  <2> DEFINE T == ToSet(toRead)
             f == [t \in T |-> ordersPlaced[t]]
             g == [t \in T |-> ordersPlaced'[t]]
  <2>1. /\ toRead \in Seq(Traders) /\ shown.resting \in Nat /\ shown.orders \in Nat
        /\ shown.resting <= shown.orders + CountsOf(toRead) + MAX_ROOM_CAPACITY
    BY <1>4 DEF DepthInv
  <2>2. IsFiniteSet(T) /\ T \subseteq Traders /\ f \in [T -> Nat] /\ CountsOf(toRead) = SumOf(f)
    BY <2>1, CountsOfTyped DEF CountsOf
  <2>3. g \in [T -> Nat] /\ \A t \in T : f[t] <= g[t]
    <3>1. ordersPlaced' \in [Traders -> Nat]
      BY DEF ExchangeInv, ThreadTypes
    <3>2. \A t \in T : ordersPlaced[t] <= ordersPlaced'[t]
      BY <2>2, OnlyGrow
    <3> HIDE DEF T
    <3> QED BY <2>2, <3>1, <3>2
  <2>4. CountsOf(toRead)' = SumOf(g)
    BY <1>1 DEF CountsOf
  <2> HIDE DEF T, f, g
  <2>5. SumOf(f) <= SumOf(g) /\ SumOf(f) \in Nat /\ SumOf(g) \in Nat
    BY <2>2, <2>3, SumMonotone, SumWithout
  <2> QED BY <1>1, <2>1, <2>2, <2>4, <2>5
<1> QED BY <1>1, <1>2, <1>3, <1>4 DEF DepthInv

\* Once all traders are in the sequence, their counts and the slots of the room
\* cover the orders placed.
LEMMA AllCounted ==
  ASSUME ExchangeInv, ReportInv, NEW q \in SetToSeqs(Traders)
  PROVE  /\ q \in Seq(Traders) /\ IsInjective(q)
         /\ Len(placed) <= CountsOf(q) + MAX_ROOM_CAPACITY /\ CountsOf(q) \in Nat
<1> DEFINE n == Cardinality(Traders)
<1>1. n \in Nat /\ IsFiniteSet(1 .. n) /\ Cardinality(1 .. n) = n
  <2>1. n \in Nat
    BY MembersOfThreads, FS_CardinalityType
  <2> HIDE DEF n
  <2>2. IsFiniteSet(1 .. n) /\ Cardinality(1 .. n) = n
    BY <2>1, FS_Interval
  <2> QED BY <2>1, <2>2
<1>2. q \in [1 .. n -> Traders] /\ \A i, j \in 1 .. n : i # j => q[i] # q[j]
  BY DEF SetToSeqs
<1>3. Cardinality(1 .. n) = Cardinality(Traders)
  BY <1>1
<1> HIDE DEF n
<1>4. q \in Seq(Traders) /\ IsInjective(q)
  BY <1>1, <1>2 DEF IsInjective
<1>5. q \in Injection(1 .. n, Traders)
  BY <1>2, <1>4 DEF Injection
<1>6. q \in Surjection(1 .. n, Traders)
  BY <1>3, <1>5, MembersOfThreads, FS_Injection
<1>7. ToSet(q) = Traders
  BY <1>2, <1>6 DEF ToSet, Surjection
<1>8. CountsOf(q) = SumOf(ordersPlaced)
  <2>1. [t \in Traders |-> ordersPlaced[t]] = ordersPlaced
    BY DEF ExchangeInv, ThreadTypes
  <2> QED BY <1>7, <2>1 DEF CountsOf
<1>9. Cardinality(Uncounted) <= MAX_ROOM_CAPACITY
  <2>1. Uncounted \in SUBSET Inside /\ Inside \in SUBSET Traders
    BY DEF Uncounted, Inside
  <2>2. IsFiniteSet(Inside) /\ Cardinality(Inside) \in Nat
    BY <2>1, MembersOfThreads, FS_Subset, FS_CardinalityType
  <2>3. Cardinality(Uncounted) <= Cardinality(Inside)
    BY <2>1, <2>2, FS_Subset
  <2>4. Cardinality(Inside) <= MAX_ROOM_CAPACITY /\ MAX_ROOM_CAPACITY \in Nat
    BY ExchangeParameters DEF ExchangeInv, RoomCapacity
  <2> QED BY <2>2, <2>3, <2>4, CountTyped
<1>10. SumOf(ordersPlaced) + Cardinality(Uncounted) = Len(placed)
  BY DEF ReportInv, CountInv
<1> QED BY <1>4, <1>8, <1>9, <1>10, CountTyped, ExchangeParameters

LEMMA DepthReadBook ==
  ASSUME ExchangeInv, DepthInv, ReadDepth
  PROVE  DepthInv'
<1> DEFINE s   == Head(toRead)
           old == Symbols \ ToSet(toRead)
           new == Symbols \ ToSet(Tail(toRead))
<1>1. /\ dashAt = "depth" /\ toRead' = Tail(toRead) /\ UNCHANGED vars
      /\ shown' = [shown EXCEPT !.resting = @ + Len(Bids(s)) + Len(Asks(s))]
      /\ dashAt' = IF toRead' = <<>> THEN "trades" ELSE "depth"
  BY DEF ReadDepth
<1>2. /\ toRead \in Seq(Symbols) /\ toRead # <<>> /\ IsInjective(toRead)
      /\ shown.resting <= Cardinality(PlacedOn(old))
      /\ shown.resting \in Nat /\ shown.orders = 0
      /\ {"resting", "orders"} \subseteq DOMAIN shown
  BY <1>1 DEF DepthInv
<1>3. /\ Tail(toRead) \in Seq(Symbols) /\ IsInjective(Tail(toRead)) /\ s \in Symbols
      /\ ToSet(Tail(toRead)) = ToSet(toRead) \ {s} /\ s \in ToSet(toRead)
  BY <1>2, HeadOff
<1>4. placed' = placed
  BY <1>1 DEF vars, orderBookVars, bookVars
<1> HIDE DEF s
<1>5. /\ Len(Bids(s)) + Len(Asks(s)) <= Cardinality(PlacedOn({s}))
      /\ Len(Bids(s)) \in Nat /\ Len(Asks(s)) \in Nat
  BY <1>3, BookWithin DEF ExchangeInv
<1>6. /\ \A S : IsFiniteSet(PlacedOn(S)) /\ Cardinality(PlacedOn(S)) \in Nat
      /\ \A S : Cardinality(PlacedOn(S)) <= Len(placed)
  <2>1. ASSUME NEW S PROVE /\ IsFiniteSet(PlacedOn(S)) /\ Cardinality(PlacedOn(S)) \in Nat
                           /\ Cardinality(PlacedOn(S)) <= Len(placed)
    <3>1. PlacedOn(S) \in SUBSET DOMAIN placed
      BY DEF PlacedOn
    <3>2. IsFiniteSet(DOMAIN placed) /\ Cardinality(DOMAIN placed) = Len(placed)
      BY PlacedFinite DEF ExchangeInv
    <3> QED BY <3>1, <3>2, FS_Subset, FS_CardinalityType
  <2> QED BY <2>1
<1>7. Cardinality(PlacedOn(new)) = Cardinality(PlacedOn(old)) + Cardinality(PlacedOn({s}))
  <2> DEFINE P == PlacedOn(old)
             Q == PlacedOn({s})
  <2>1. PlacedOn(new) = P \cup Q /\ P \cap Q = {}
    <3>1. new = old \cup {s} /\ s \notin old
      BY <1>3
    <3> HIDE DEF new, old
    <3> QED BY <3>1 DEF PlacedOn
  <2>2. /\ IsFiniteSet(P) /\ IsFiniteSet(Q)
        /\ Cardinality(P) \in Nat /\ Cardinality(Q) \in Nat
    BY <1>6
  <2> HIDE DEF P, Q, old, new
  <2>3. Cardinality(P \cup Q) = Cardinality(P) + Cardinality(Q) - Cardinality(P \cap Q)
    BY <2>2, FS_Union
  <2>4. Cardinality(P \cap Q) = 0
    BY <2>1, FS_EmptySet
  <2>5. Cardinality(P \cup Q) = Cardinality(P) + Cardinality(Q)
    BY <2>2, <2>3, <2>4
  <2> QED BY <2>1, <2>5 DEF P, Q
<1>8. /\ shown'.resting = shown.resting + Len(Bids(s)) + Len(Asks(s))
      /\ shown'.orders = 0 /\ DOMAIN shown' = DOMAIN shown
  BY <1>1, <1>2 DEF s
<1>9. /\ shown'.resting <= Cardinality(PlacedOn(new)) /\ shown'.resting \in Nat
      /\ Cardinality(PlacedOn(new)) <= Len(placed) /\ Cardinality(PlacedOn(new)) \in Nat
      /\ Len(placed) \in Nat
  <2>1. /\ Cardinality(PlacedOn(old)) \in Nat /\ Cardinality(PlacedOn({s})) \in Nat
        /\ Cardinality(PlacedOn(new)) \in Nat /\ Cardinality(PlacedOn(new)) <= Len(placed)
    BY <1>6
  <2>2. Len(placed) \in Nat
    BY PlacedFinite DEF ExchangeInv
  <2> HIDE DEF old, new
  <2> QED BY <1>2, <1>5, <1>7, <1>8, <2>1, <2>2
<1>10. PlacedOn(Symbols \ ToSet(toRead))' = PlacedOn(new)
  BY <1>1, <1>4 DEF PlacedOn
<1> HIDE DEF old, new
<1>11. shown'.resting <= Len(placed')
  BY <1>4, <1>9
<1>12. /\ {"resting", "orders"} \subseteq DOMAIN shown'
       /\ shown'.resting \in Nat /\ shown'.orders = 0 /\ dashAt' \in {"depth", "trades"}
       /\ dashAt' = "depth" => toRead' # <<>>
  BY <1>1, <1>2, <1>8, <1>9
<1> QED BY <1>1, <1>3, <1>9, <1>10, <1>11, <1>12 DEF DepthInv

LEMMA DepthReadTrader ==
  ASSUME ExchangeInv, DepthInv, ReadTrader
  PROVE  DepthInv'
<1> DEFINE t    == Head(toRead)
           all  == ToSet(toRead)
           f    == [w \in all |-> ordersPlaced[w]]
           rest == [w \in all \ {t} |-> f[w]]
<1>1. /\ dashAt = "orders" /\ dashAt' = "orders" /\ toRead # <<>> /\ toRead' = Tail(toRead)
      /\ shown' = [shown EXCEPT !.orders = @ + ordersPlaced[t]] /\ UNCHANGED vars
  BY DEF ReadTrader
<1>2. /\ toRead \in Seq(Traders) /\ IsInjective(toRead)
      /\ shown.resting <= shown.orders + CountsOf(toRead) + MAX_ROOM_CAPACITY
      /\ shown.resting \in Nat /\ shown.orders \in Nat
      /\ {"resting", "orders"} \subseteq DOMAIN shown
  BY <1>1 DEF DepthInv
<1>3. /\ Tail(toRead) \in Seq(Traders) /\ IsInjective(Tail(toRead)) /\ t \in Traders
      /\ ToSet(Tail(toRead)) = all \ {t} /\ t \in all
  BY <1>1, <1>2, HeadOff
<1>4. ordersPlaced' = ordersPlaced /\ ordersPlaced[t] \in Nat
  BY <1>1, <1>3 DEF vars, traderVars, ExchangeInv, ThreadTypes
<1>5. IsFiniteSet(all) /\ f \in [all -> Nat] /\ CountsOf(toRead) = SumOf(f)
  BY <1>2, CountsOfTyped DEF CountsOf
<1>6. CountsOf(Tail(toRead)) = SumOf(rest) /\ f[t] = ordersPlaced[t]
  <2>1. rest = [w \in all \ {t} |-> ordersPlaced[w]]
    OBVIOUS
  <2> HIDE DEF all, rest
  <2>2. CountsOf(Tail(toRead)) = SumOf([w \in all \ {t} |-> ordersPlaced[w]])
    BY <1>3 DEF CountsOf
  <2> QED BY <1>3, <2>1, <2>2 DEF all
<1> HIDE DEF t, all, f
<1>7. SumOf(f) = f[t] + SumOf(rest)
  <2>1. \A x \in all : SumOf(f) = f[x] + SumOf([w \in all \ {x} |-> f[w]])
    BY <1>5, SumWithout
  <2> QED BY <1>3, <2>1
<1>8. CountsOf(Tail(toRead)) \in Nat
  BY <1>3, CountsOfTyped
<1>9. CountsOf(toRead)' = CountsOf(Tail(toRead))
  <2>1. CountsOf(toRead)' = SumOf([w \in ToSet(toRead') |-> ordersPlaced[w]])
    BY <1>4 DEF CountsOf
  <2>2. toRead' = Tail(toRead)
    BY <1>1
  <2> QED BY <2>1, <2>2 DEF CountsOf
<1> HIDE DEF rest
<1>10. /\ shown'.resting = shown.resting /\ shown'.orders = shown.orders + ordersPlaced[t]
       /\ DOMAIN shown' = DOMAIN shown
  BY <1>1, <1>2
<1>11. shown'.resting <= shown'.orders + CountsOf(toRead)' + MAX_ROOM_CAPACITY
  BY <1>2, <1>4, <1>5, <1>6, <1>7, <1>8, <1>9, <1>10, ExchangeParameters
<1>12. shown'.resting \in Nat /\ shown'.orders \in Nat
  BY <1>2, <1>4, <1>10
<1> QED BY <1>1, <1>2, <1>3, <1>10, <1>11, <1>12 DEF DepthInv

LEMMA DepthRead ==
  ASSUME ExchangeInv, ReportInv, DepthInv, DashboardStep
  PROVE  DepthInv'
<1>1. /\ UNCHANGED <<placed, ordersPlaced>>
  BY DashboardKeepsExchange DEF vars, orderBookVars, bookVars, traderVars, DashboardExit
<1>2. /\ PlacedOn(Symbols \ ToSet(toRead))' = {i \in DOMAIN placed : placed[i].symbol \in Symbols \ ToSet(toRead')}
      /\ CountsOf(toRead)' = SumOf([t \in ToSet(toRead') |-> ordersPlaced[t]])
  BY <1>1 DEF PlacedOn, CountsOf
<1>3. CASE WakeUp
  BY <1>3 DEF WakeUp, DepthInv
<1>4. CASE LeaveLoop
  BY <1>4 DEF LeaveLoop, dashVars, DepthInv
<1>5. CASE ReadStocks
  <2>1. /\ dashAt' = "depth" /\ toRead' = MapOrder /\ DOMAIN shown' = DOMAIN shown
        /\ shown'.resting = 0 /\ shown'.orders = 0
    BY <1>5 DEF ReadStocks, DepthInv
  <2>2. /\ MapOrder \in Seq(Symbols) /\ IsInjective(MapOrder) /\ MapOrder # <<>>
    <3>1. ToSet(<<>>) = {}
      BY DEF ToSet
    <3> QED BY <3>1, ExchangeSymbols, SymbolAssumption
  <2>3. Cardinality(PlacedOn(Symbols \ ToSet(toRead))') \in Nat
    <3> DEFINE P == {i \in DOMAIN placed : placed[i].symbol \in Symbols \ ToSet(toRead')}
    <3>1. P \in SUBSET DOMAIN placed
      OBVIOUS
    <3> HIDE DEF P
    <3>2. IsFiniteSet(P)
      BY <3>1, PlacedFinite, FS_Subset DEF ExchangeInv
    <3> QED BY <1>2, <3>2, FS_CardinalityType DEF P
  <2> QED BY <2>1, <2>2, <2>3 DEF DepthInv
<1>6. CASE ReadTotals
  <2>1. DOMAIN shown' = DOMAIN shown /\ shown'.resting = shown.resting /\ shown'.orders = 0
    BY <1>6 DEF ReadTotals, DepthInv
  <2>2. CASE dashAt = "trades"
    <3>1. dashAt' = "volume"
      BY <1>6, <2>2 DEF ReadTotals
    <3> QED BY <1>1, <2>1, <2>2, <3>1 DEF DepthInv
  <2>3. CASE dashAt = "volume"
    <3>1. dashAt' = "orders" /\ toRead' \in SetToSeqs(Traders)
      BY <1>6, <2>3 DEF ReadTotals
    <3>2. shown.resting <= Len(placed) /\ shown.resting \in Nat /\ Len(placed) \in Nat
      BY <2>3, PlacedFinite DEF DepthInv, ExchangeInv
    <3>3. PICK q \in SetToSeqs(Traders) : q = toRead'
      BY <3>1
    <3>4. /\ q \in Seq(Traders) /\ IsInjective(q)
          /\ Len(placed) <= CountsOf(q) + MAX_ROOM_CAPACITY /\ CountsOf(q) \in Nat
      BY AllCounted
    <3>5. CountsOf(toRead)' = CountsOf(q)
      BY <1>2, <3>3 DEF CountsOf
    <3>6. shown'.resting <= shown'.orders + CountsOf(toRead)' + MAX_ROOM_CAPACITY
      BY <2>1, <3>2, <3>4, <3>5, ExchangeParameters
    <3> QED BY <2>1, <3>1, <3>2, <3>3, <3>4, <3>6 DEF DepthInv
  <2> QED BY <1>6, <2>2, <2>3 DEF ReadTotals
<1>7. CASE FinishPrintout
  BY <1>7 DEF FinishPrintout, NoFigures, DepthInv
<1> QED BY <1>3, <1>4, <1>5, <1>6, <1>7, DepthReadBook, DepthReadTrader DEF DashboardStep

\* However many orders are placed, matched and counted between the reads of a
\* printout, the orders it shows as resting exceed those it shows as placed by
\* no more than the trading room has slots.
THEOREM PrintedDepthWithin == DashboardSpec => []DepthWithinOrders
<1>1. DashboardInit => DepthInv
  BY DEF DashboardInit, NoFigures, DepthInv
<1>2. ASSUME ExchangeInv, ExchangeInv', ReportInv, DepthInv, [DashboardNext]_dashboardVars
      PROVE  DepthInv'
  <2>1. [Next]_vars
    BY <1>2, ExchangeStep
  <2>2. CASE DashboardStep
    BY <1>2, <2>2, DepthRead
  <2>3. CASE UNCHANGED dashVars
    BY <1>2, <2>1, <2>3, DepthKept
  <2> QED BY <1>2, <2>2, <2>3 DEF DashboardNext, dashboardVars
<1>3. ExchangeInv /\ DepthInv => DepthWithinOrders
  <2> SUFFICES ASSUME ExchangeInv, DepthInv, dashAt = "orders", toRead = <<>>
               PROVE  shown.resting <= shown.orders + MAX_ROOM_CAPACITY
    BY DEF DepthWithinOrders, Printed
  <2>1. CountsOf(toRead) = 0
    <3> DEFINE f == [t \in ToSet(toRead) |-> ordersPlaced[t]]
    <3>1. DOMAIN f = {} /\ CountsOf(toRead) = SumOf(f)
      BY DEF CountsOf, ToSet
    <3> HIDE DEF f
    <3> QED BY <3>1, SumOfNothing
  <2> QED BY <2>1, ExchangeParameters DEF DepthInv
<1> QED BY <1>1, <1>2, <1>3, DashboardUsesExchange, ExchangeInvariant, ReportInvariant, PTL
        DEF DashboardSpec

=============================================================================
