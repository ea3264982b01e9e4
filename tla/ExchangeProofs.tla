---------------------------- MODULE ExchangeProofs ----------------------------
(***************************************************************************)
(* Proofs about the exchange of main.cpp: it uses the order book only      *)
(* through its calls, so it inherits what is proved of the book with       *)
(* arbitrary callers; its own control keeps ExchangeInv; and from these    *)
(* follow the handshake, drain and price properties.                       *)
(***************************************************************************)
EXTENDS Exchange, OrderBookProofs, FiniteSetTheorems

-----------------------------------------------------------------------------
(***************************************************************************)
(* Prices.                                                                 *)
(***************************************************************************)
\* Dividing by a positive number keeps a natural number natural, and a number
\* at least the divisor at least one.
LEMMA DivBounds ==
  ASSUME NEW a \in Nat, NEW b \in Nat \ {0}
  PROVE  a \div b \in Nat /\ (a >= b => a \div b >= 1)
OBVIOUS

\* A limit price is a natural number, at least a cent if the quote is.
LEMMA LimitPriceBounds ==
  ASSUME NEW price \in Nat, NEW pct \in Pcts
  PROVE  LimitPrice(price, pct) \in Nat /\ (price >= Cent => LimitPrice(price, pct) >= Cent)
<1> DEFINE a == price * (10000 + pct) + 5000 * Cent
           b == 10000 * Cent
<1>1. pct \in Int /\ 9500 <= 10000 + pct /\ Cent \in Nat \ {0}
  BY ExchangePrices
<1>2. price * (10000 + pct) \in Nat /\ price * (10000 + pct) >= price * 9500
  BY <1>1
<1>3. a \in Nat /\ b \in Nat \ {0} /\ (price >= Cent => a >= b)
  BY <1>1, <1>2
<1> HIDE DEF a, b
<1>4. a \div b \in Nat /\ (a >= b => a \div b >= 1)
  BY <1>3, DivBounds
<1> DEFINE q == a \div b
<1> HIDE DEF q
<1>5. q \in Nat /\ (a >= b => q >= 1)
  BY <1>4 DEF q
<1>6. Cent * q \in Nat /\ (q >= 1 => Cent * q >= Cent)
  BY <1>1, <1>5
<1>7. LimitPrice(price, pct) = Cent * q
  BY DEF LimitPrice, a, b, q
<1> QED BY <1>3, <1>5, <1>6, <1>7

\* The market maker's price is a natural number and at least a cent.
LEMMA MakerPriceBounds ==
  ASSUME NEW price \in Nat, NEW factor \in Factors
  PROVE  /\ Clamp(GbmStep(price, factor)) \in Nat
         /\ Clamp(GbmStep(price, factor)) >= Cent
<1>1. price * factor \in Nat /\ Cent \in Nat
  BY ExchangePrices
<1>2. GbmStep(price, factor) \in Nat
  BY <1>1 DEF GbmStep
<1> QED BY <1>1, <1>2 DEF Clamp

-----------------------------------------------------------------------------
(***************************************************************************)
(* Every step of the exchange is a step of the order book or leaves it     *)
(* alone.                                                                  *)
(***************************************************************************)
LEMMA MembersOfThreads ==
  /\ Traders \subseteq Threads /\ Matcher \in Threads /\ Matcher \notin Traders
  /\ IsFiniteSet(Traders)
BY ExchangeThreads

LEMMA BookStep ==
  ASSUME ExchangeInv, [Next]_vars
  PROVE  [OrderBookNext]_orderBookVars
<1> USE MembersOfThreads DEF ExchangeInv, OrderBookInv
<1>1. hasNewOrders \in BOOLEAN /\ waiting \in SUBSET Threads /\ stocks \in [Symbols -> Stock]
  BY DEF TypeOK
<1>2. ASSUME NEW t \in Traders, TraderStep(t) PROVE [OrderBookNext]_orderBookVars
  <2>1. CASE TraderLoop(t) \/ EnterRoom(t) \/ TakeQuote(t) \/ LeaveRoom(t)
    BY <2>1 DEF TraderLoop, EnterRoom, TakeQuote, LeaveRoom
  <2>2. CASE ComposeOrder(t)
    <3>1. quote[t] \in Quote
      BY DEF ThreadTypes
    <3>2. PICK side \in OrderSides, qty \in Quantities :
             \/ BeginSubmit(t, quote[t].symbol, "MARKET", side, qty, 0)
             \/ \E pct \in Pcts :
                  BeginSubmit(t, quote[t].symbol, "LIMIT", side, qty,
                              LimitPrice(quote[t].price, pct))
      BY <2>2 DEF ComposeOrder
    <3>3. \A pct \in Pcts : LimitPrice(quote[t].price, pct) \in Nat
      BY <3>1, LimitPriceBounds DEF Quote
    <3>4. BeginCall(t)
      BY <3>1, <3>2, <3>3, ExchangeParameters DEF BeginCall, Quote, OrderTypes
    <3> QED BY <3>4 DEF OrderBookNext
  <2>3. CASE InSubmitOrder(t)
    BY <2>3 DEF InSubmitOrder, OrderBookNext
  <2> QED BY <1>2, <2>1, <2>2, <2>3 DEF TraderStep
<1>3. ASSUME MatcherStep PROVE [OrderBookNext]_orderBookVars
  <2>1. CASE MatcherTop \/ MatcherRound \/ MatcherRoundOver
    BY <2>1 DEF MatcherTop, MatcherRound, MatcherRoundOver
  <2>2. CASE MatcherWait \/ MatcherWake
    BY <1>1, <2>2 DEF MatcherWait, MatcherWake, TakeFlag, OrderBookNext, WakeStep
  <2>3. CASE CallMatchOrders
    <3>1. Head(toMatch) \in Symbols
      BY <2>3 DEF CallMatchOrders, ThreadTypes
    <3>2. BeginCall(Matcher)
      BY <2>3, <3>1 DEF CallMatchOrders, BeginCall
    <3> QED BY <3>2 DEF OrderBookNext
  <2>4. CASE InMatchOrders
    BY <2>4 DEF InMatchOrders, OrderBookNext, MatchStep
  <2> QED BY <1>3, <2>1, <2>2, <2>3, <2>4 DEF MatcherStep
<1>4. ASSUME SpuriousWakeup \/ WakeMatcher PROVE [OrderBookNext]_orderBookVars
  BY <1>1, <1>4 DEF SpuriousWakeup, WakeMatcher, RaiseAndSignal, OrderBookNext, WakeStep
<1>5. ASSUME MakerStep PROVE [OrderBookNext]_orderBookVars
  <2>1. CASE MakerTick
    BY <2>1 DEF MakerTick
  <2>2. CASE MakerUpdate
    <3>1. Head(makerView) \in Quote
      BY <2>2 DEF MakerUpdate, ThreadTypes
    <3>2. PICK factor \in Factors :
            UpdatePrice(Head(makerView).symbol, Clamp(GbmStep(Head(makerView).price, factor)))
      BY <2>2 DEF MakerUpdate
    <3>3. Clamp(GbmStep(Head(makerView).price, factor)) \in Nat
      BY <3>1, MakerPriceBounds DEF Quote
    <3> QED BY <3>1, <3>2, <3>3 DEF OrderBookNext, Quote
  <2> QED BY <1>5, <2>1, <2>2 DEF MakerStep
<1>6. ASSUME DashboardExit \/ JoinTraders \/ Report \/ Sigint \/ UNCHANGED vars
      PROVE  UNCHANGED orderBookVars
  BY <1>6 DEF DashboardExit, JoinTraders, Report, Sigint, vars
<1> QED BY <1>2, <1>3, <1>4, <1>5, <1>6 DEF Next, MainStep, Terminated

-----------------------------------------------------------------------------
(***************************************************************************)
(* The control invariant, one lemma per part.                              *)
(***************************************************************************)
LEMMA NoQuoteType == NoQuote \in Quote
<1>1. StockList \in Seq(Symbols) /\ ToSet(StockList) # {}
  BY SymbolAssumption, ExchangeSymbols
<1>2. StockList # <<>>
  BY <1>1 DEF ToSet
<1> QED BY <1>1, <1>2 DEF NoQuote, Quote

LEMMA InitExchangeInv == Init => ExchangeInv
<1> SUFFICES ASSUME Init PROVE ExchangeInv
  OBVIOUS
<1>1. OrderBookInv
  BY InitInv DEF Init
<1>2. ThreadTypes
  BY NoQuoteType, EmptySeq, ExchangeParameters DEF Init, ThreadTypes
<1>3. RoomCapacity
  <2>1. Inside = {}
    BY DEF Init, Inside
  <2> QED BY <2>1, FS_EmptySet, ExchangeParameters DEF Init, RoomCapacity
<1>4. OrdersLeft
  BY ExchangeParameters DEF Init, OrdersLeft
<1> QED BY <1>1, <1>2, <1>3, <1>4 DEF Init, OrderBookInit, ExchangeInv

\* An order in the book's history is an order counted.
LEMMA PlacedLength ==
  ASSUME OrderBookInv
  PROVE  Len(placed) \in Nat
BY DEF OrderBookInv, TypeOK

LEMMA ThreadTypesStep ==
  ASSUME ExchangeInv, [Next]_vars
  PROVE  ThreadTypes'
<1> USE MembersOfThreads DEF ExchangeInv, ThreadTypes
<1>1. ASSUME NEW t \in Traders, TraderStep(t) PROVE ThreadTypes'
  <2> USE DEF matcherVars, makerVars, mainVars
  <2>1. CASE TraderLoop(t)
    BY <2>1 DEF TraderLoop
  <2>2. CASE EnterRoom(t)
    BY <2>2 DEF EnterRoom, SemWait
  <2>3. CASE TakeQuote(t)
    <3>1. stocks \in [Symbols -> Stock]
      BY DEF OrderBookInv, TypeOK
    <3>2. \A s \in Symbols : [symbol |-> s, price |-> stocks[s].currentPrice] \in Quote
      BY <3>1 DEF Quote, Stock
    <3> QED BY <2>3, <3>2 DEF TakeQuote
  <2>4. CASE ComposeOrder(t)
    <3>1. NoQuote \in Quote
      BY NoQuoteType
    <3> QED BY <2>4, <3>1 DEF ComposeOrder
  <2>5. CASE InSubmitOrder(t)
    BY <2>5 DEF InSubmitOrder, traderVars
  <2>6. CASE LeaveRoom(t)
    BY <2>6 DEF LeaveRoom, SemSignal
  <2> QED BY <1>1, <2>1, <2>2, <2>3, <2>4, <2>5, <2>6 DEF TraderStep
<1>2. ASSUME MatcherStep PROVE ThreadTypes'
  <2> USE DEF traderVars, makerVars, mainVars
  <2>1. CASE MatcherTop \/ MatcherWake \/ MatcherRoundOver
    BY <2>1 DEF MatcherTop, MatcherWake, MatcherRoundOver
  <2>2. CASE MatcherWait
    BY <2>2 DEF MatcherWait, matcherVars
  <2>3. CASE MatcherRound
    BY <2>3, ExchangeSymbols DEF MatcherRound
  <2>4. CASE CallMatchOrders
    BY <2>4 DEF CallMatchOrders
  <2>5. CASE InMatchOrders
    <3>1. Len(trades[Matcher]) \in Nat
      BY DEF OrderBookInv, TypeOK
    <3> QED BY <2>5, <3>1 DEF InMatchOrders
  <2> QED BY <1>2, <2>1, <2>2, <2>3, <2>4, <2>5 DEF MatcherStep
<1>3. ASSUME MakerStep PROVE ThreadTypes'
  <2> USE DEF traderVars, matcherVars, mainVars
  <2>1. CASE MakerTick
    <3>1. stocks \in [Symbols -> Stock]
      BY DEF OrderBookInv, TypeOK
    <3> DEFINE view == [i \in DOMAIN MapOrder |->
             [symbol |-> MapOrder[i], price |-> stocks[MapOrder[i]].currentPrice]]
    <3>2. DOMAIN MapOrder = 1 .. Len(MapOrder) /\ Len(MapOrder) \in Nat
      BY ExchangeSymbols
    <3>3. \A i \in DOMAIN MapOrder : MapOrder[i] \in Symbols
      BY ExchangeSymbols
    <3>4. view \in [1 .. Len(MapOrder) -> Quote]
      BY <3>1, <3>2, <3>3 DEF Quote, Stock
    <3>5. view \in Seq(Quote)
      BY <3>2, <3>4, SeqDef
    <3> QED BY <2>1, <3>5 DEF MakerTick
  <2>2. CASE MakerUpdate
    BY <2>2 DEF MakerUpdate
  <2> QED BY <1>3, <2>1, <2>2 DEF MakerStep
<1>4. ASSUME RequestShutdown PROVE shutdown' = TRUE /\ placedByShutdown' \in Nat
  BY <1>4, PlacedLength DEF RequestShutdown
<1>5. ASSUME JoinTraders \/ Sigint PROVE ThreadTypes'
  BY <1>4, <1>5 DEF JoinTraders, Sigint, traderVars, matcherVars, makerVars
<1>6. ASSUME SpuriousWakeup \/ DashboardExit \/ WakeMatcher \/ Report \/ UNCHANGED vars
      PROVE  ThreadTypes'
  BY <1>6 DEF SpuriousWakeup, DashboardExit, WakeMatcher, Report, vars,
              traderVars, matcherVars, makerVars, mainVars
<1> QED BY <1>1, <1>2, <1>3, <1>5, <1>6 DEF Next, MainStep, Terminated

\* The traders' variables are moved by the traders only, main's by main and
\* the signal handler only.
LEMMA OnlyTradersMoveTraders ==
  ASSUME \/ MatcherStep \/ SpuriousWakeup \/ MakerStep \/ DashboardExit
         \/ MainStep \/ Sigint \/ UNCHANGED vars
  PROVE  UNCHANGED traderVars
BY DEF MatcherStep, MatcherTop, MatcherWait, MatcherWake, MatcherRound, CallMatchOrders,
       InMatchOrders, MatcherRoundOver, SpuriousWakeup, MakerStep, MakerTick, MakerUpdate,
       DashboardExit, MainStep, JoinTraders, WakeMatcher, Report, Sigint, vars

LEMMA OnlyMainMovesMain ==
  ASSUME \/ \E t \in Traders : TraderStep(t)
         \/ MatcherStep \/ SpuriousWakeup \/ MakerStep \/ DashboardExit \/ UNCHANGED vars
  PROVE  UNCHANGED mainVars
BY DEF TraderStep, TraderLoop, EnterRoom, TakeQuote, ComposeOrder, InSubmitOrder, LeaveRoom,
       MatcherStep, MatcherTop, MatcherWait, MatcherWake, MatcherRound, CallMatchOrders,
       InMatchOrders, MatcherRoundOver, SpuriousWakeup, MakerStep, MakerTick, MakerUpdate,
       DashboardExit, vars

\* Traders enter and leave the room one at a time.
LEMMA RoomStep ==
  ASSUME ExchangeInv, [Next]_vars
  PROVE  RoomCapacity'
<1> USE MembersOfThreads DEF ExchangeInv, ThreadTypes
<1>1. IsFiniteSet(Inside) /\ Cardinality(Inside) \in Nat
  <2>1. Inside \in SUBSET Traders
    BY DEF Inside
  <2> QED BY <2>1, FS_Subset, FS_CardinalityType
<1>2. room = MAX_ROOM_CAPACITY - Cardinality(Inside) /\ MAX_ROOM_CAPACITY \in Nat
  BY ExchangeParameters DEF RoomCapacity
<1>3. ASSUME NEW t \in Traders, TraderStep(t) PROVE RoomCapacity'
  <2>1. CASE EnterRoom(t)
    <3>1. t \notin Inside /\ Inside' = Inside \cup {t}
      BY <2>1 DEF EnterRoom, Inside
    <3>2. Cardinality(Inside') = Cardinality(Inside) + 1
      BY <1>1, <3>1, FS_AddElement
    <3>3. room > 0 /\ room' = room - 1
      BY <2>1 DEF EnterRoom, SemWait
    <3> QED BY <1>1, <1>2, <3>2, <3>3 DEF RoomCapacity
  <2>2. CASE LeaveRoom(t)
    <3>1. t \in Inside /\ Inside' = Inside \ {t}
      BY <2>2 DEF LeaveRoom, Inside
    <3>2. Cardinality(Inside') = Cardinality(Inside) - 1
      BY <1>1, <3>1, FS_RemoveElement
    <3>3. room' = room + 1
      BY <2>2 DEF LeaveRoom, SemSignal
    <3>4. Cardinality(Inside') <= MAX_ROOM_CAPACITY
      BY <1>1, <1>2, <3>2 DEF RoomCapacity
    <3> QED BY <1>1, <1>2, <3>2, <3>3, <3>4 DEF RoomCapacity
  <2>3. CASE TraderLoop(t) \/ TakeQuote(t) \/ ComposeOrder(t) \/ InSubmitOrder(t)
    <3>1. Inside' = Inside /\ room' = room
      BY <2>3 DEF TraderLoop, TakeQuote, ComposeOrder, InSubmitOrder, Inside, traderVars
    <3> QED BY <3>1 DEF RoomCapacity
  <2> QED BY <1>3, <2>1, <2>2, <2>3 DEF TraderStep
<1>4. ASSUME UNCHANGED traderVars PROVE RoomCapacity'
  BY <1>4 DEF traderVars, RoomCapacity, Inside
<1>5. ASSUME \/ MatcherStep \/ SpuriousWakeup \/ MakerStep \/ DashboardExit
             \/ MainStep \/ Sigint \/ UNCHANGED vars
      PROVE  UNCHANGED traderVars
  BY <1>5, OnlyTradersMoveTraders
<1> QED BY <1>3, <1>4, <1>5 DEF Next, Terminated

\* A trader is given an order only while it has orders left.
LEMMA OrdersLeftStep ==
  ASSUME ExchangeInv, [Next]_vars
  PROVE  OrdersLeft'
<1> USE MembersOfThreads, ExchangeParameters DEF ExchangeInv, ThreadTypes
<1>1. ASSUME NEW t \in Traders, TraderStep(t) PROVE OrdersLeft'
  <2>1. CASE TraderLoop(t)
    BY <2>1 DEF TraderLoop, GoesOn, OrdersLeft
  <2>2. CASE EnterRoom(t) \/ TakeQuote(t) \/ ComposeOrder(t)
    BY <2>2 DEF EnterRoom, TakeQuote, ComposeOrder, OrdersLeft
  <2>3. CASE InSubmitOrder(t)
    BY <2>3 DEF InSubmitOrder, traderVars, OrdersLeft
  <2>4. CASE LeaveRoom(t)
    BY <2>4 DEF LeaveRoom, OrdersLeft
  <2> QED BY <1>1, <2>1, <2>2, <2>3, <2>4 DEF TraderStep
<1>2. ASSUME UNCHANGED traderVars PROVE OrdersLeft'
  BY <1>2 DEF traderVars, OrdersLeft
<1>3. ASSUME \/ MatcherStep \/ SpuriousWakeup \/ MakerStep \/ DashboardExit
             \/ MainStep \/ Sigint \/ UNCHANGED vars
      PROVE  UNCHANGED traderVars
  BY <1>3, OnlyTradersMoveTraders
<1> QED BY <1>1, <1>2, <1>3 DEF Next, Terminated

\* Only the engine waits, and main goes on only after shutdown was requested.
LEMMA SleeperStep ==
  ASSUME ExchangeInv, [Next]_vars
  PROVE  (waiting \subseteq {Matcher})' /\ (mainAt # "join" => shutdown)'
<1> USE DEF ExchangeInv
<1>1. waiting' \subseteq waiting \cup {Matcher}
  <2>1. ASSUME RaiseAndSignal PROVE waiting' \subseteq waiting
    BY <2>1 DEF RaiseAndSignal
  <2>2. ASSUME NEW t \in Traders, TraderStep(t) PROVE waiting' \subseteq waiting
    BY <2>1, <2>2 DEF TraderStep, TraderLoop, EnterRoom, TakeQuote, ComposeOrder, BeginSubmit,
         InSubmitOrder, SubmitStep, TakeMarketPrice, InsertOrder, SignalNewOrder, LeaveRoom,
         orderBookVars, wakeVars
  <2>3. ASSUME MatcherStep PROVE waiting' \subseteq waiting \cup {Matcher}
    BY <2>3 DEF MatcherStep, MatcherTop, MatcherWait, MatcherWake, MatcherRound,
         CallMatchOrders, BeginMatch, InMatchOrders, ExecuteTrade, AccountTrade, EndMatch,
         PublishHistory, PublishStock, MatcherRoundOver, orderBookVars, wakeVars
  <2>4. ASSUME \/ SpuriousWakeup \/ MakerStep \/ DashboardExit \/ MainStep \/ Sigint
               \/ UNCHANGED vars
        PROVE  waiting' \subseteq waiting
    BY <2>1, <2>4 DEF SpuriousWakeup, MakerStep, MakerTick, MakerUpdate, UpdatePrice,
         DashboardExit, MainStep, JoinTraders, WakeMatcher, Report, Sigint, vars,
         orderBookVars, wakeVars
  <2> QED BY <2>2, <2>3, <2>4 DEF Next, Terminated
<1>2. (mainAt' = mainAt /\ (shutdown => shutdown')) \/ shutdown'
  <2>1. ASSUME UNCHANGED mainVars PROVE mainAt' = mainAt /\ shutdown' = shutdown
    BY <2>1 DEF mainVars
  <2>2. ASSUME JoinTraders \/ Sigint PROVE shutdown'
    BY <2>2 DEF JoinTraders, Sigint, RequestShutdown
  <2>3. ASSUME WakeMatcher \/ Report PROVE shutdown'
    BY <2>3 DEF WakeMatcher, Report
  <2> QED BY <2>1, <2>2, <2>3, OnlyMainMovesMain DEF Next, MainStep, Terminated
<1> QED BY <1>1, <1>2

LEMMA StepExchangeInv == ExchangeInv /\ [Next]_vars => ExchangeInv'
<1> SUFFICES ASSUME ExchangeInv, [Next]_vars PROVE ExchangeInv'
  OBVIOUS
<1>1. OrderBookInv'
  BY BookStep, StepInv DEF ExchangeInv
<1> QED BY <1>1, ThreadTypesStep, RoomStep, OrdersLeftStep, SleeperStep DEF ExchangeInv

\* The exchange keeps its type and control invariant: the semaphore, the
\* traders' loops, the engine, the market maker and main, for every number of
\* traders and slots.
THEOREM ExchangeInvariant == Spec => []ExchangeInv
BY InitExchangeInv, StepExchangeInv, PTL DEF Spec

\* The exchange implements the order book with arbitrary callers, so every
\* theorem about OrderBookSpec holds of the exchange.
THEOREM ExchangeUsesOrderBook == Spec => OrderBookSpec
<1>1. Init => OrderBookInit
  BY DEF Init
<1>2. ExchangeInv /\ [Next]_vars => [OrderBookNext]_orderBookVars
  BY BookStep
<1> QED BY <1>1, <1>2, ExchangeInvariant, PTL DEF Spec, OrderBookSpec

\* The trading room is never overfull and no slot is lost.
THEOREM RoomKept == Spec => []RoomCapacity
<1>1. ExchangeInv => RoomCapacity
  BY DEF ExchangeInv
<1> QED BY <1>1, ExchangeInvariant, PTL

-----------------------------------------------------------------------------
(***************************************************************************)
(* The handshake between submitOrder and the engine.                       *)
(***************************************************************************)
\* What the traders' and the engine's steps do to the flag and the waiting
\* threads: a signal leaves nobody waiting, the engine goes to sleep only when
\* there is nothing to do, everything else leaves both alone.
LEMMA SleepStep ==
  ASSUME ExchangeInv, SleepsOnlyWhenIdle, [Next]_vars
  PROVE  SleepsOnlyWhenIdle'
<1> USE DEF ExchangeInv
<1>1. ASSUME RaiseAndSignal PROVE Matcher \notin waiting'
  BY <1>1 DEF RaiseAndSignal
<1>2. ASSUME Matcher \notin waiting' PROVE SleepsOnlyWhenIdle'
  BY <1>2 DEF SleepsOnlyWhenIdle
<1>3. ASSUME UNCHANGED wakeVars, mainAt' \in {mainAt, "wake"}, mainAt' = "wake" => mainAt # "report"
      PROVE  SleepsOnlyWhenIdle'
  BY <1>3 DEF SleepsOnlyWhenIdle, wakeVars
<1>4. ASSUME NEW t \in Traders, TraderStep(t) PROVE SleepsOnlyWhenIdle'
  <2>1. mainAt' = mainAt
    BY <1>4, OnlyMainMovesMain DEF mainVars
  <2>2. CASE InSubmitOrder(t)
    <3>1. CASE SignalNewOrder(t)
      BY <1>1, <1>2, <3>1 DEF SignalNewOrder
    <3>2. CASE TakeMarketPrice(t) \/ InsertOrder(t)
      BY <1>3, <2>1, <3>2, Zenon DEF TakeMarketPrice, InsertOrder
    <3> QED BY <2>2, <3>1, <3>2 DEF InSubmitOrder, SubmitStep
  <2>3. CASE TraderLoop(t) \/ EnterRoom(t) \/ TakeQuote(t) \/ ComposeOrder(t) \/ LeaveRoom(t)
    <3>1. UNCHANGED wakeVars
      BY <2>3 DEF TraderLoop, EnterRoom, TakeQuote, ComposeOrder, BeginSubmit, LeaveRoom,
                  orderBookVars
    <3> QED BY <1>3, <2>1, <3>1
  <2> QED BY <1>4, <2>2, <2>3 DEF TraderStep
<1>5. ASSUME MatcherStep PROVE SleepsOnlyWhenIdle'
  <2>1. mainAt' = mainAt
    BY <1>5, OnlyMainMovesMain DEF mainVars
  <2>2. CASE MatcherWait
    BY <2>1, <2>2 DEF MatcherWait, SleepsOnlyWhenIdle
  <2>3. CASE MatcherWake
    BY <2>3, <1>2 DEF MatcherWake
  <2>4. CASE MatcherTop \/ MatcherRound \/ CallMatchOrders \/ InMatchOrders \/ MatcherRoundOver
    <3>1. UNCHANGED wakeVars
      BY <2>4 DEF MatcherTop, MatcherRound, CallMatchOrders, BeginMatch, InMatchOrders,
           ExecuteTrade, AccountTrade, EndMatch, PublishHistory, PublishStock,
           MatcherRoundOver, orderBookVars
    <3> QED BY <1>3, <2>1, <3>1
  <2> QED BY <1>5, <2>2, <2>3, <2>4 DEF MatcherStep
<1>6. CASE SpuriousWakeup
  BY <1>2, <1>6 DEF SpuriousWakeup
<1>7. CASE MakerStep \/ DashboardExit \/ UNCHANGED vars
  <2>1. UNCHANGED wakeVars
    BY <1>7 DEF MakerStep, MakerTick, MakerUpdate, UpdatePrice, DashboardExit, vars, orderBookVars
  <2> QED BY <1>3, <1>7, <2>1, OnlyMainMovesMain DEF mainVars
<1>8. CASE JoinTraders \/ Sigint
  <2>1. UNCHANGED wakeVars
    BY <1>8 DEF JoinTraders, Sigint, orderBookVars
  <2> QED BY <1>3, <1>8, <2>1 DEF JoinTraders, Sigint
<1>9. CASE WakeMatcher
  BY <1>1, <1>2, <1>9 DEF WakeMatcher
<1>10. CASE Report
  <2>1. Matcher \notin waiting'
    BY <1>10 DEF Report, SleepsOnlyWhenIdle, orderBookVars, wakeVars
  <2> QED BY <1>2, <2>1
<1> QED BY <1>4, <1>5, <1>6, <1>7, <1>8, <1>9, <1>10 DEF Next, MainStep, Terminated

\* The engine never sleeps through an announced order, and never after main
\* has sent its wakeup.
THEOREM EngineNeverSleepsThroughWork == Spec => []SleepsOnlyWhenIdle
<1>1. Init => SleepsOnlyWhenIdle
  BY DEF Init, OrderBookInit, SleepsOnlyWhenIdle
<1>2. ExchangeInv /\ SleepsOnlyWhenIdle /\ [Next]_vars => SleepsOnlyWhenIdle'
  BY SleepStep
<1> QED BY <1>1, <1>2, ExchangeInvariant, PTL DEF Spec

\* A step that changes no book keeps crossing orders attended to if it keeps
\* every symbol attended to.
LEMMA AttendedKept ==
  ASSUME NoLostWakeup, UNCHANGED book,
         \A s \in Symbols : Attended(s) => Attended(s)'
  PROVE  NoLostWakeup'
<1> SUFFICES ASSUME NEW s \in Symbols, Crossed(s)' PROVE Attended(s)'
  BY DEF NoLostWakeup
<1>1. Crossed(s)
  BY DEF Crossed, Bids, Asks
<1> QED BY <1>1 DEF NoLostWakeup

LEMMA NoLostWakeupTrader ==
  ASSUME ExchangeInv, NoLostWakeup, NEW t \in Traders, TraderStep(t)
  PROVE  NoLostWakeup'
<1> USE MembersOfThreads DEF ExchangeInv, OrderBookInv
<1>1. /\ stage \in [Threads -> Stages] /\ order \in [Threads -> AnOrder]
      /\ book \in [Symbols -> [OrderSides -> Seq(AnOrder)]]
  BY DEF TypeOK
<1>2. UNCHANGED matcherVars
  BY DEF TraderStep, TraderLoop, EnterRoom, TakeQuote, ComposeOrder, InSubmitOrder, LeaveRoom
<1>3. CASE TraderLoop(t) \/ EnterRoom(t) \/ TakeQuote(t) \/ LeaveRoom(t)
  <2>1. UNCHANGED orderBookVars
    BY <1>3 DEF TraderLoop, EnterRoom, TakeQuote, LeaveRoom
  <2> QED BY <1>2, <2>1, AttendedKept
          DEF Attended, orderBookVars, bookVars, wakeVars, matchVars, matcherVars
\* A call begins, or takes its price: its thread was not announcing an order.
<1>4. CASE ComposeOrder(t) \/ (InSubmitOrder(t) /\ TakeMarketPrice(t))
  <2>1. /\ stage[t] # "signal" /\ \A w \in Threads \ {t} : stage'[w] = stage[w] /\ order'[w] = order[w]
        /\ UNCHANGED <<book, hasNewOrders, target>>
    BY <1>1, <1>4 DEF ComposeOrder, BeginSubmit, TakeMarketPrice, bookVars, wakeVars, matchVars
  <2>2. \A s \in Symbols : Attended(s) => Attended(s)'
    BY <1>2, <2>1 DEF Attended, matcherVars
  <2> QED BY <2>1, <2>2, AttendedKept
\* An insertion may make orders cross, and its thread is about to announce it.
<1>5. CASE InSubmitOrder(t) /\ InsertOrder(t)
  <2> DEFINE u == order[t].symbol
  <2>1. /\ stage[t] = "insert" /\ stage'[t] = "signal"
        /\ \A w \in Threads \ {t} : stage'[w] = stage[w]
        /\ UNCHANGED <<hasNewOrders, target, order>>
    BY <1>1, <1>5 DEF InsertOrder, wakeVars, matchVars
  <2>2. \A s \in Symbols : Attended(s) => Attended(s)'
    BY <1>2, <2>1 DEF Attended, matcherVars
  <2>3. ASSUME NEW s \in Symbols, s = u PROVE Attended(s)'
    BY <2>1, <2>3 DEF Attended
  <2>4. ASSUME NEW s \in Symbols, s # u PROVE book'[s] = book[s]
    BY <1>1, <1>5, <2>4 DEF InsertOrder
  <2>5. ASSUME NEW s \in Symbols, s # u, Crossed(s)' PROVE Crossed(s)
    BY <2>4, <2>5 DEF Crossed, Bids, Asks
  <2> QED BY <2>2, <2>3, <2>5 DEF NoLostWakeup
<1>6. CASE InSubmitOrder(t) /\ SignalNewOrder(t)
  <2>1. hasNewOrders'
    BY <1>6 DEF SignalNewOrder, RaiseAndSignal
  <2> QED BY <2>1 DEF NoLostWakeup, Attended
<1> QED BY <1>3, <1>4, <1>5, <1>6 DEF TraderStep, InSubmitOrder, SubmitStep

LEMMA NoLostWakeupMatcher ==
  ASSUME ExchangeInv, NoLostWakeup, MatcherStep
  PROVE  NoLostWakeup'
<1> USE MembersOfThreads DEF ExchangeInv, OrderBookInv
<1>1. /\ stage \in [Threads -> Stages] /\ target \in [Threads -> Symbols \cup {NoSymbol}]
      /\ book \in [Symbols -> [OrderSides -> Seq(AnOrder)]]
  BY DEF TypeOK
<1>2. CASE MatcherTop \/ MatcherRoundOver
  <2>1. \A s \in Symbols : Attended(s) => Attended(s)'
    BY <1>2 DEF MatcherTop, MatcherRoundOver, Attended, orderBookVars, wakeVars, matchVars
  <2> QED BY <1>2, <2>1, AttendedKept DEF MatcherTop, MatcherRoundOver, orderBookVars, bookVars
<1>3. CASE MatcherWait
  <2>1. \A s \in Symbols : Attended(s) => Attended(s)'
    BY <1>3 DEF MatcherWait, Attended, matchVars, matcherVars
  <2> QED BY <1>3, <2>1, AttendedKept DEF MatcherWait, bookVars
\* Awake: whatever the flag announced, every symbol is still to be matched.
<1>4. CASE MatcherWake
  BY <1>4 DEF MatcherWake, NoLostWakeup, Attended
<1>5. CASE MatcherRound
  <2>1. matcherAt' = "exit" \/ \A s \in Symbols : s \in ToSet(toMatch')
    BY <1>5, ExchangeSymbols DEF MatcherRound
  <2> QED BY <2>1 DEF NoLostWakeup, Attended
\* The symbol taken from the round is the one being matched.
<1>6. CASE CallMatchOrders
  <2>1. /\ toMatch \in Seq(Symbols) /\ toMatch # <<>> /\ toMatch' = Tail(toMatch)
        /\ stage[Matcher] = "idle" /\ stage'[Matcher] = "match"
        /\ target'[Matcher] = Head(toMatch)
        /\ \A w \in Threads \ {Matcher} : stage'[w] = stage[w]
        /\ UNCHANGED <<book, hasNewOrders, order, matcherAt>>
    BY <1>1, <1>6 DEF CallMatchOrders, BeginMatch, ThreadTypes, wakeVars
  <2>2. \A s \in ToSet(toMatch) : s = Head(toMatch) \/ s \in ToSet(toMatch')
    <3> SUFFICES ASSUME NEW i \in DOMAIN toMatch, i # 1
                 PROVE  toMatch[i] \in ToSet(toMatch')
      BY <2>1 DEF ToSet
    <3>1. /\ i \in 2 .. Len(toMatch) /\ Len(toMatch) \in Nat
          /\ Len(toMatch') = Len(toMatch) - 1 /\ toMatch'[i - 1] = toMatch[i]
      <4>1. DOMAIN toMatch = 1 .. Len(toMatch) /\ Len(toMatch) \in Nat
        BY <2>1, LenProperties
      <4> QED BY <2>1, <4>1, HeadTailProperties
    <3>2. i - 1 \in DOMAIN toMatch'
      BY <2>1, <3>1, HeadTailProperties
    <3> QED BY <3>1, <3>2 DEF ToSet
  <2>3. \A s \in Symbols : Attended(s) => Attended(s)'
    BY <2>1, <2>2 DEF Attended
  <2> QED BY <2>1, <2>3, AttendedKept
<1>7. CASE InMatchOrders /\ (ExecuteTrade(Matcher) \/ AccountTrade(Matcher))
  <2>1. /\ stage[Matcher] \in {"match", "account"} /\ stage'[Matcher] \in {"match", "account"}
        /\ \A w \in Threads \ {Matcher} : stage'[w] = stage[w]
        /\ UNCHANGED <<hasNewOrders, order, target, matcherAt, toMatch>>
    BY <1>1, <1>7 DEF InMatchOrders, ExecuteTrade, AccountTrade, wakeVars, matchVars
  <2>2. \A s \in Symbols : Attended(s) => Attended(s)'
    BY <2>1 DEF Attended
  <2>3. ASSUME NEW s \in Symbols, s = target[Matcher] PROVE Attended(s)'
    BY <2>1, <2>3 DEF Attended
  <2>4. ASSUME NEW s \in Symbols, s # target[Matcher] PROVE book'[s] = book[s]
    BY <1>1, <1>7, <2>4 DEF ExecuteTrade, AccountTrade
  <2>5. ASSUME NEW s \in Symbols, s # target[Matcher], Crossed(s)' PROVE Crossed(s)
    BY <2>4, <2>5 DEF Crossed, Bids, Asks
  <2> QED BY <2>2, <2>3, <2>5 DEF NoLostWakeup
\* The loop ends only when the orders of its symbol do not cross.
<1>8. CASE InMatchOrders /\ EndMatch(Matcher)
  <2>1. /\ ~Crossed(target[Matcher]) /\ stage[Matcher] = "match"
        /\ \A w \in Threads \ {Matcher} : stage'[w] = stage[w]
        /\ UNCHANGED <<book, hasNewOrders, order, matcherAt, toMatch>>
    BY <1>1, <1>8 DEF InMatchOrders, EndMatch, wakeVars
  <2>2. ASSUME NEW s \in Symbols, s # target[Matcher], Attended(s) PROVE Attended(s)'
    BY <2>1, <2>2 DEF Attended
  <2>3. ASSUME NEW s \in Symbols, Crossed(s)' PROVE Crossed(s) /\ s # target[Matcher]
    BY <2>1, <2>3 DEF Crossed, Bids, Asks
  <2> QED BY <2>2, <2>3 DEF NoLostWakeup
<1>9. CASE InMatchOrders /\ (PublishHistory(Matcher) \/ PublishStock(Matcher))
  <2>1. /\ stage[Matcher] \in {"history", "publish"}
        /\ \A w \in Threads \ {Matcher} : stage'[w] = stage[w]
        /\ UNCHANGED <<book, hasNewOrders, order, matcherAt, toMatch>>
    BY <1>1, <1>9 DEF InMatchOrders, PublishHistory, PublishStock, wakeVars, bookVars
  <2>2. \A s \in Symbols : Attended(s) => Attended(s)'
    BY <2>1 DEF Attended
  <2> QED BY <2>1, <2>2, AttendedKept
<1> QED BY <1>2, <1>3, <1>4, <1>5, <1>6, <1>7, <1>8, <1>9 DEF MatcherStep, InMatchOrders

\* Orders that cross are never forgotten: the flag is up, somebody is about to
\* raise it, or the engine is on its way to them or has left.
THEOREM WakeupsKept == Spec => []NoLostWakeup
<1>1. Init => NoLostWakeup
  BY DEF Init, OrderBookInit, NoLostWakeup, Crossed, Bids, Asks, OrderSides
<1>2. ASSUME ExchangeInv, NoLostWakeup, [Next]_vars PROVE NoLostWakeup'
  <2>1. CASE \E t \in Traders : TraderStep(t)
    BY <1>2, <2>1, NoLostWakeupTrader
  <2>2. CASE MatcherStep
    BY <1>2, <2>2, NoLostWakeupMatcher
  <2>3. CASE \/ SpuriousWakeup \/ MakerStep \/ DashboardExit \/ MainStep \/ Sigint
             \/ UNCHANGED vars
    <3>1. /\ UNCHANGED <<book, stage, order, target, matcherAt, toMatch>>
          /\ hasNewOrders => hasNewOrders'
      BY <2>3 DEF SpuriousWakeup, MakerStep, MakerTick, MakerUpdate, UpdatePrice, DashboardExit,
           MainStep, JoinTraders, WakeMatcher, RaiseAndSignal, Report, Sigint, vars,
           orderBookVars, bookVars, wakeVars, matchVars, matcherVars
    <3>2. \A s \in Symbols : Attended(s) => Attended(s)'
      BY <3>1 DEF Attended
    <3> QED BY <1>2, <3>1, <3>2, AttendedKept
  <2> QED BY <1>2, <2>1, <2>2, <2>3 DEF Next, Terminated
<1> QED BY <1>1, <1>2, ExchangeInvariant, PTL DEF Spec

-----------------------------------------------------------------------------
(***************************************************************************)
(* Shutdown lets in at most one late order per trader.                     *)
(***************************************************************************)
\* The traders past the test of g_shutdown that have yet to insert their order.
Committed ==
  {t \in Traders : \/ traderAt[t] \in {"door", "quote", "compose"}
                   \/ traderAt[t] = "submit" /\ stage[t] \in {"price", "insert"}}

\* The inductive strengthening of BoundedDrain: the orders inserted since the
\* request and those still coming are at most one per trader.
DrainInv ==
  shutdown => Len(placed) - placedByShutdown + Cardinality(Committed) <= Cardinality(Traders)

LEMMA CommittedFinite ==
  /\ IsFiniteSet(Committed) /\ Cardinality(Committed) \in Nat
  /\ Cardinality(Traders) \in Nat /\ Cardinality(Committed) <= Cardinality(Traders)
<1>1. Committed \in SUBSET Traders
  BY DEF Committed
<1> QED BY <1>1, MembersOfThreads, FS_Subset, FS_CardinalityType

\* Len(placed) and the committed traders change in the traders' steps only.
LEMMA DrainKept ==
  ASSUME ExchangeInv, DrainInv, Len(placed') = Len(placed), Committed' \in SUBSET Committed,
         UNCHANGED <<shutdown, placedByShutdown>>
  PROVE  DrainInv'
<1>1. Len(placed) \in Nat /\ placedByShutdown \in Nat
  BY PlacedLength DEF ExchangeInv, ThreadTypes
<1>2. Cardinality(Committed') \in Nat /\ Cardinality(Committed') <= Cardinality(Committed)
  BY CommittedFinite, FS_Subset, FS_CardinalityType
<1> QED BY <1>1, <1>2, CommittedFinite DEF DrainInv

LEMMA DrainStep ==
  ASSUME ExchangeInv, DrainInv, [Next]_vars
  PROVE  DrainInv'
<1> USE MembersOfThreads DEF ExchangeInv, OrderBookInv
<1>1. /\ stage \in [Threads -> Stages] /\ placed \in Seq(AnOrder) /\ Len(placed) \in Nat
      /\ traderAt \in [Traders -> {"loop", "door", "quote", "compose", "submit", "done"}]
      /\ shutdown \in BOOLEAN /\ placedByShutdown \in Nat
  BY PlacedLength DEF TypeOK, ThreadTypes
<1>2. ASSUME NEW t \in Traders, TraderStep(t) PROVE DrainInv'
  <2>1. UNCHANGED <<shutdown, placedByShutdown>>
    BY <1>2, OnlyMainMovesMain DEF mainVars
\* A trader that finds shutdown requested does not commit itself.
  <2>2. CASE TraderLoop(t)
    <3>1. shutdown => Committed' \in SUBSET Committed
      BY <1>1, <2>2 DEF TraderLoop, GoesOn, Committed, orderBookVars
    <3>2. Len(placed') = Len(placed)
      BY <2>2 DEF TraderLoop, orderBookVars, bookVars
    <3> QED BY <2>1, <3>1, <3>2, DrainKept DEF DrainInv
  <2>3. CASE \/ EnterRoom(t) \/ TakeQuote(t) \/ LeaveRoom(t) \/ ComposeOrder(t)
             \/ InSubmitOrder(t) /\ (TakeMarketPrice(t) \/ SignalNewOrder(t))
    <3>1. Committed' \in SUBSET Committed
      BY <1>1, <2>3 DEF EnterRoom, TakeQuote, LeaveRoom, ComposeOrder, BeginSubmit,
           InSubmitOrder, TakeMarketPrice, SignalNewOrder, Committed, orderBookVars, traderVars
    <3>2. Len(placed') = Len(placed)
      BY <2>3 DEF EnterRoom, TakeQuote, LeaveRoom, ComposeOrder, BeginSubmit, InSubmitOrder,
           TakeMarketPrice, SignalNewOrder, orderBookVars, bookVars
    <3> QED BY <2>1, <3>1, <3>2, DrainKept
\* An insertion takes its trader out of the committed ones.
  <2>4. CASE InSubmitOrder(t) /\ InsertOrder(t)
    <3>1. t \in Committed /\ Committed' = Committed \ {t}
      BY <1>1, <2>4 DEF InSubmitOrder, InsertOrder, Committed, traderVars
    <3>2. Cardinality(Committed') = Cardinality(Committed) - 1
      BY <3>1, CommittedFinite, FS_RemoveElement
    <3>3. Len(placed') = Len(placed) + 1
      <4>1. PICK entry : placed' = Append(placed, entry)
        BY <2>4 DEF InsertOrder
      <4> QED BY <1>1, <4>1
    <3> QED BY <1>1, <2>1, <3>2, <3>3, CommittedFinite DEF DrainInv
  <2> QED BY <1>2, <2>2, <2>3, <2>4 DEF TraderStep, InSubmitOrder, SubmitStep
<1>3. ASSUME MatcherStep \/ SpuriousWakeup \/ MakerStep \/ DashboardExit \/ UNCHANGED vars
      PROVE  DrainInv'
  <2>1. /\ UNCHANGED placed /\ \A t \in Traders : stage'[t] = stage[t]
    <3>1. ASSUME MatcherStep PROVE UNCHANGED placed /\ \A t \in Traders : stage'[t] = stage[t]
      BY <1>1, <3>1 DEF MatcherStep, MatcherTop, MatcherWait, MatcherWake, MatcherRound,
           CallMatchOrders, BeginMatch, InMatchOrders, ExecuteTrade, AccountTrade, EndMatch,
           PublishHistory, PublishStock, MatcherRoundOver, orderBookVars, bookVars
    <3>2. ASSUME SpuriousWakeup \/ MakerStep \/ DashboardExit \/ UNCHANGED vars
          PROVE  UNCHANGED placed /\ \A t \in Traders : stage'[t] = stage[t]
      BY <3>2 DEF SpuriousWakeup, MakerStep, MakerTick, MakerUpdate, UpdatePrice,
           DashboardExit, vars, orderBookVars, bookVars
    <3> QED BY <1>3, <3>1, <3>2
  <2>2. UNCHANGED traderAt /\ UNCHANGED <<shutdown, placedByShutdown>>
    BY <1>3, OnlyTradersMoveTraders, OnlyMainMovesMain DEF traderVars, mainVars
  <2>3. Committed' \in SUBSET Committed
    BY <2>1, <2>2 DEF Committed
  <2> QED BY <2>1, <2>2, <2>3, DrainKept
<1>4. ASSUME MainStep \/ Sigint PROVE DrainInv'
  <2>1. UNCHANGED <<placed, stage, traderAt>>
    BY <1>4 DEF MainStep, JoinTraders, WakeMatcher, Report, Sigint, orderBookVars, bookVars,
                traderVars
  <2>2. Committed' = Committed
    BY <2>1 DEF Committed
  <2>3. \/ UNCHANGED <<shutdown, placedByShutdown>>
        \/ ~shutdown /\ placedByShutdown' = Len(placed)
    BY <1>1, <1>4 DEF MainStep, JoinTraders, WakeMatcher, Report, Sigint, RequestShutdown
  <2>4. CASE UNCHANGED <<shutdown, placedByShutdown>>
    BY <2>1, <2>2, <2>4, DrainKept
  <2>5. CASE ~shutdown /\ placedByShutdown' = Len(placed)
    <3>1. Len(placed') - placedByShutdown' + Cardinality(Committed') = Cardinality(Committed)
      BY <1>1, <2>1, <2>2, <2>5, CommittedFinite
    <3> QED BY <3>1, CommittedFinite DEF DrainInv
  <2> QED BY <2>3, <2>4, <2>5
<1> QED BY <1>2, <1>3, <1>4 DEF Next, Terminated

\* After the shutdown request no trader inserts more than one order.
THEOREM DrainBounded == Spec => []BoundedDrain
<1>1. Init => DrainInv
  BY DEF Init, DrainInv
<1>2. ExchangeInv /\ DrainInv /\ [Next]_vars => DrainInv'
  BY DrainStep
<1>3. ExchangeInv /\ DrainInv => BoundedDrain
  BY PlacedLength, CommittedFinite DEF DrainInv, BoundedDrain, ExchangeInv, ThreadTypes
<1> QED BY <1>1, <1>2, <1>3, ExchangeInvariant, PTL DEF Spec

-----------------------------------------------------------------------------
(***************************************************************************)
(* The engine begins at most one round per announcement.                   *)
(***************************************************************************)
Announced == Len(placed) - Cardinality(Announcing)

\* The rounds already owed: one if the flag is up, one if the engine has
\* consumed it and not begun.  After a shutdown request no round begins.
Owed ==
  IF shutdown THEN 0
  ELSE (IF hasNewOrders THEN 1 ELSE 0) + (IF matcherAt = "woken" THEN 1 ELSE 0)

\* The inductive strengthening of NoBusyWait.
RoundsInv == rounds + Owed <= Announced

LEMMA CountsTyped ==
  ASSUME ExchangeInv
  PROVE  /\ IsFiniteSet(Announcing) /\ Cardinality(Announcing) \in Nat
         /\ Len(placed) \in Nat /\ Announced \in Int /\ Owed \in 0 .. 2 /\ rounds \in Nat
<1>1. Announcing \in SUBSET Traders
  BY DEF Announcing
<1>2. IsFiniteSet(Announcing) /\ Cardinality(Announcing) \in Nat
  BY <1>1, MembersOfThreads, FS_Subset, FS_CardinalityType
<1> QED BY <1>2, PlacedLength DEF Announced, Owed, ExchangeInv, ThreadTypes

LEMMA RoundsStep ==
  ASSUME ExchangeInv, RoundsInv, [Next]_vars
  PROVE  RoundsInv'
<1> USE MembersOfThreads DEF ExchangeInv, OrderBookInv
<1>1. /\ stage \in [Threads -> Stages] /\ placed \in Seq(AnOrder) /\ rounds \in Nat
      /\ shutdown \in BOOLEAN /\ hasNewOrders \in BOOLEAN
  BY DEF TypeOK, ThreadTypes
<1>2. /\ IsFiniteSet(Announcing) /\ Cardinality(Announcing) \in Nat
      /\ Len(placed) \in Nat /\ Owed \in 0 .. 2 /\ rounds \in Nat
  BY CountsTyped
<1>3. ASSUME UNCHANGED <<rounds, placed, stage>>, Owed' <= Owed, Owed' \in Int PROVE RoundsInv'
  <2>1. Announced' = Announced
    BY <1>3 DEF Announced, Announcing
  <2> QED BY <1>2, <1>3, <2>1 DEF RoundsInv, Announced
<1>4. ASSUME UNCHANGED <<shutdown, hasNewOrders, matcherAt>> PROVE Owed' = Owed
  BY <1>4 DEF Owed
<1>5. ASSUME NEW t \in Traders, TraderStep(t) PROVE RoundsInv'
  <2>1. UNCHANGED <<rounds, matcherAt, shutdown>>
    <3>1. UNCHANGED matcherVars
      BY <1>5 DEF TraderStep, TraderLoop, EnterRoom, TakeQuote, ComposeOrder, InSubmitOrder, LeaveRoom
    <3> QED BY <1>5, <3>1, OnlyMainMovesMain DEF mainVars, matcherVars
  <2>2. CASE TraderLoop(t) \/ EnterRoom(t) \/ TakeQuote(t) \/ LeaveRoom(t)
    <3>1. UNCHANGED <<placed, stage, hasNewOrders>>
      BY <2>2 DEF TraderLoop, EnterRoom, TakeQuote, LeaveRoom, orderBookVars, bookVars, wakeVars
    <3> QED BY <1>2, <1>3, <1>4, <2>1, <3>1
  <2>3. CASE ComposeOrder(t) \/ (InSubmitOrder(t) /\ TakeMarketPrice(t))
    <3>1. /\ stage[t] # "signal" /\ stage'[t] # "signal"
          /\ \A w \in Threads \ {t} : stage'[w] = stage[w]
          /\ UNCHANGED <<placed, hasNewOrders>>
      BY <1>1, <2>3 DEF ComposeOrder, BeginSubmit, TakeMarketPrice, bookVars, wakeVars
    <3>2. Announcing' = Announcing
      BY <3>1 DEF Announcing
    <3>3. Announced' = Announced
      BY <3>1, <3>2 DEF Announced
    <3>4. Owed' = Owed
      BY <1>4, <2>1, <3>1
    <3> QED BY <2>1, <3>3, <3>4 DEF RoundsInv
  <2>4. CASE InSubmitOrder(t) /\ InsertOrder(t)
    <3>1. t \notin Announcing /\ Announcing' = Announcing \cup {t}
      BY <1>1, <2>4 DEF InsertOrder, Announcing
    <3>2. Cardinality(Announcing') = Cardinality(Announcing) + 1
      BY <1>2, <3>1, FS_AddElement
    <3>3. Len(placed') = Len(placed) + 1
      <4>1. PICK entry : placed' = Append(placed, entry)
        BY <2>4 DEF InsertOrder
      <4> QED BY <1>1, <4>1
    <3>4. Announced' = Announced
      BY <1>2, <3>2, <3>3 DEF Announced
    <3>5. Owed' = Owed
      BY <1>4, <2>1, <2>4 DEF InsertOrder, wakeVars
    <3> QED BY <2>1, <3>4, <3>5 DEF RoundsInv
\* The announcement owes one more round and is one more to pay it.
  <2>5. CASE InSubmitOrder(t) /\ SignalNewOrder(t)
    <3>1. t \in Announcing /\ Announcing' = Announcing \ {t}
      BY <1>1, <2>5 DEF SignalNewOrder, Announcing
    <3>2. Cardinality(Announcing') = Cardinality(Announcing) - 1
      BY <1>2, <3>1, FS_RemoveElement
    <3>3. placed' = placed
      BY <2>5 DEF SignalNewOrder, bookVars
    <3>4. Announced' = Announced + 1
      BY <1>2, <3>2, <3>3 DEF Announced
    <3>5. Owed' \in Int /\ Owed' <= Owed + 1
      BY <1>1, <2>1 DEF Owed
    <3> QED BY <1>2, <2>1, <3>4, <3>5 DEF RoundsInv, Announced
  <2> QED BY <1>5, <2>2, <2>3, <2>4, <2>5 DEF TraderStep, InSubmitOrder, SubmitStep
<1>6. ASSUME MatcherStep PROVE RoundsInv'
  <2>1. UNCHANGED shutdown
    BY <1>6, OnlyMainMovesMain DEF mainVars
\* The flag consumed is a round begun.
  <2>2. CASE MatcherRound
    <3>1. UNCHANGED <<placed, stage, hasNewOrders>>
      BY <2>2 DEF MatcherRound, orderBookVars, bookVars, wakeVars
    <3>2. rounds' + Owed' <= rounds + Owed
      BY <1>1, <2>1, <2>2, <3>1 DEF MatcherRound, Owed
    <3>3. Announced' = Announced
      BY <3>1 DEF Announced, Announcing
    <3>4. rounds' + Owed' \in Int
      BY <1>1, <2>1, <2>2, <3>1 DEF MatcherRound, Owed
    <3> QED BY <1>2, <3>2, <3>3, <3>4 DEF RoundsInv, Announced
  <2>3. CASE MatcherWake
    <3>1. UNCHANGED <<placed, stage, rounds>>
      BY <2>3 DEF MatcherWake, bookVars
    <3>2. Owed' <= Owed /\ Owed' \in Int
      BY <1>1, <2>1, <2>3 DEF MatcherWake, TakeFlag, Owed
    <3> QED BY <1>3, <3>1, <3>2
  <2>4. CASE MatcherTop \/ MatcherWait \/ MatcherRoundOver
    <3>1. UNCHANGED <<placed, stage, rounds, hasNewOrders>>
      BY <2>4 DEF MatcherTop, MatcherWait, MatcherRoundOver, orderBookVars, bookVars, wakeVars,
                  matcherVars
    <3>2. matcherAt' # "woken" \/ matcherAt' = matcherAt
      BY <2>4 DEF MatcherTop, MatcherWait, MatcherRoundOver, matcherVars
    <3>3. Owed' <= Owed /\ Owed' \in Int
      BY <2>1, <3>1, <3>2 DEF Owed
    <3> QED BY <1>3, <3>1, <3>3
  <2>5. CASE CallMatchOrders \/ InMatchOrders
    <3>1. /\ UNCHANGED <<placed, rounds, hasNewOrders, matcherAt>>
          /\ \A w \in Traders : stage'[w] = stage[w]
      BY <1>1, <2>5 DEF CallMatchOrders, BeginMatch, InMatchOrders, ExecuteTrade, AccountTrade,
           EndMatch, PublishHistory, PublishStock, bookVars, wakeVars
    <3>2. Announcing' = Announcing
      BY <3>1 DEF Announcing
    <3>3. Announced' = Announced
      BY <3>1, <3>2 DEF Announced
    <3>4. Owed' = Owed
      BY <1>4, <2>1, <3>1
    <3> QED BY <3>1, <3>3, <3>4 DEF RoundsInv
  <2> QED BY <1>6, <2>2, <2>3, <2>4, <2>5 DEF MatcherStep
<1>7. ASSUME SpuriousWakeup \/ MakerStep \/ DashboardExit \/ UNCHANGED vars PROVE RoundsInv'
  <2>1. UNCHANGED <<placed, stage, rounds, hasNewOrders, matcherAt, shutdown>>
    BY <1>7 DEF SpuriousWakeup, MakerStep, MakerTick, MakerUpdate, UpdatePrice, DashboardExit,
         vars, orderBookVars, bookVars, wakeVars, matcherVars, mainVars
  <2> QED BY <1>2, <1>3, <1>4, <2>1
\* main's own wakeup comes after the request, and announces nothing.
<1>8. ASSUME MainStep \/ Sigint PROVE RoundsInv'
  <2>1. UNCHANGED <<placed, stage, rounds, matcherAt>>
    BY <1>8 DEF MainStep, JoinTraders, WakeMatcher, Report, Sigint, orderBookVars, bookVars,
                matcherVars
  <2>2. shutdown' \/ UNCHANGED <<shutdown, hasNewOrders>>
    BY <1>8 DEF MainStep, JoinTraders, WakeMatcher, Report, Sigint, RequestShutdown,
                orderBookVars, wakeVars
  <2>3. Owed' <= Owed /\ Owed' \in Int
    BY <1>2, <2>1, <2>2 DEF Owed
  <2> QED BY <1>3, <2>1, <2>3
<1> QED BY <1>5, <1>6, <1>7, <1>8 DEF Next, MainStep, Terminated

\* The engine does not spin: no round without an announced order of its own.
THEOREM RoundsBounded == Spec => []NoBusyWait
<1>1. Init => RoundsInv
  <2> SUFFICES ASSUME Init PROVE RoundsInv
    OBVIOUS
  <2>1. Announcing = {} /\ Len(placed) = 0 /\ Owed = 0 /\ rounds = 0
    BY MembersOfThreads DEF Init, OrderBookInit, Announcing, Owed
  <2> QED BY <2>1, FS_EmptySet DEF RoundsInv, Announced
<1>2. ExchangeInv /\ RoundsInv /\ [Next]_vars => RoundsInv'
  BY RoundsStep
<1>3. ExchangeInv /\ RoundsInv => NoBusyWait
  BY CountsTyped DEF RoundsInv, NoBusyWait, Announced
<1> QED BY <1>1, <1>2, <1>3, ExchangeInvariant, PTL DEF Spec

-----------------------------------------------------------------------------
(***************************************************************************)
(* No price falls below a cent.                                            *)
(***************************************************************************)
\* Where prices are kept, and where they are on their way: resting orders,
\* stocks, carried trades, quotes in use and orders about to be inserted.
BooksAbove ==
  \A s \in Symbols, side \in OrderSides :
    \A i \in DOMAIN book[s][side] : book[s][side][i].price >= Cent

StocksAbove ==
  \A s \in Symbols : stocks[s].currentPrice >= Cent /\ stocks[s].lowPrice >= Cent

TradesAbove ==
  \A t \in Threads : \A i \in DOMAIN trades[t] : trades[t][i].price >= Cent

OrdersAbove ==
  /\ \A t \in Traders : traderAt[t] = "compose" => quote[t].price >= Cent
  /\ \A t \in Threads : stage[t] = "insert" => order[t].price >= Cent

\* The inductive strengthening of PriceFloor.
FloorInv == BooksAbove /\ StocksAbove /\ TradesAbove /\ OrdersAbove

LEMMA CentNat == Cent \in Nat \ {0}
BY ExchangePrices

\* A new price of at least a cent keeps a stock above the floor.
LEMMA StocksAboveSet ==
  ASSUME OrderBookInv, StocksAbove, NEW u \in Symbols, NEW price \in Nat, price >= Cent,
         stocks' = [stocks EXCEPT ![u] = SetPrice(@, price)]
  PROVE  StocksAbove'
<1> SUFFICES ASSUME NEW s \in Symbols
             PROVE  stocks'[s].currentPrice >= Cent /\ stocks'[s].lowPrice >= Cent
  BY CentNat DEF StocksAbove
<1>1. stocks \in [Symbols -> Stock]
  BY DEF OrderBookInv, TypeOK
<1>2. stocks[s].currentPrice >= Cent /\ stocks[s].lowPrice >= Cent
  BY DEF StocksAbove
<1> QED BY <1>1, <1>2 DEF SetPrice

LEMMA BooksStocksKept ==
  ASSUME FloorInv, UNCHANGED <<book, stocks, trades>>
  PROVE  BooksAbove' /\ StocksAbove' /\ TradesAbove'
BY DEF FloorInv, BooksAbove, StocksAbove, TradesAbove

\* A queue whose orders have prices of at least a cent keeps them so.
LEMMA EmplaceAbove ==
  ASSUME NEW queue \in Seq(AnOrder), NEW o \in AnOrder, NEW n \in 0 .. Len(queue),
         \A i \in DOMAIN queue : queue[i].price >= Cent, o.price >= Cent
  PROVE  \A i \in DOMAIN Emplace(queue, o, n) : Emplace(queue, o, n)[i].price >= Cent
<1>1. Len(queue) \in Nat /\ DOMAIN queue = 1 .. Len(queue)
  BY LenProperties
<1>2. /\ Emplace(queue, o, n) \in Seq(AnOrder)
      /\ Len(Emplace(queue, o, n)) = Len(queue) + 1
      /\ \A i \in 1 .. Len(queue) + 1 :
           Emplace(queue, o, n)[i] = IF i <= n THEN queue[i]
                                     ELSE IF i = n + 1 THEN o ELSE queue[i - 1]
  BY EmplaceProperties
<1>3. DOMAIN Emplace(queue, o, n) = 1 .. Len(queue) + 1
  BY <1>2, LenProperties
<1> QED BY <1>1, <1>2, <1>3

LEMMA FillEraseAbove ==
  ASSUME NEW queue \in Seq(AnOrder), queue # <<>>, NEW qty \in Nat, NEW price \in Nat,
         \A i \in DOMAIN queue : queue[i].price >= Cent
  PROVE  /\ \A i \in DOMAIN FillHead(queue, qty, price) :
              FillHead(queue, qty, price)[i].price >= Cent
         /\ \A i \in DOMAIN EraseComplete(queue) : EraseComplete(queue)[i].price >= Cent
<1>1. /\ Len(queue) \in Nat \ {0} /\ DOMAIN queue = 1 .. Len(queue) /\ queue[1] \in AnOrder
      /\ Tail(queue) \in Seq(AnOrder) /\ Len(Tail(queue)) = Len(queue) - 1
      /\ \A i \in 1 .. Len(queue) - 1 : Tail(queue)[i] = queue[i + 1]
  BY EmptySeq, LenProperties, HeadTailProperties, ElementOfSeq
<1>2. \A i \in DOMAIN Tail(queue) : Tail(queue)[i].price >= Cent
  BY <1>1, LenProperties
<1>3. /\ FillHead(queue, qty, price) \in Seq(AnOrder)
      /\ Len(FillHead(queue, qty, price)) = Len(queue)
      /\ FillHead(queue, qty, price)[1] = Fill(queue[1], qty, price)
      /\ \A i \in 2 .. Len(queue) : FillHead(queue, qty, price)[i] = queue[i]
  BY FilledQueue
<1>4. Fill(queue[1], qty, price).price = queue[1].price
  BY <1>1 DEF Fill, AnOrder, Order
<1>5. DOMAIN FillHead(queue, qty, price) = 1 .. Len(queue)
  BY <1>3, LenProperties
<1>6. ASSUME NEW i \in 1 .. Len(queue) PROVE FillHead(queue, qty, price)[i].price >= Cent
  <2>1. CASE i = 1
    BY <1>1, <1>3, <1>4, <2>1
  <2>2. CASE i # 1
    BY <1>1, <1>3, <2>2
  <2> QED BY <2>1, <2>2
<1> QED BY <1>2, <1>5, <1>6 DEF EraseComplete

LEMMA FloorTrader ==
  ASSUME ExchangeInv, FloorInv, NEW t \in Traders, TraderStep(t)
  PROVE  FloorInv'
<1> USE MembersOfThreads, CentNat DEF ExchangeInv, OrderBookInv
<1>1. /\ stage \in [Threads -> Stages] /\ order \in [Threads -> AnOrder]
      /\ book \in [Symbols -> [OrderSides -> Seq(AnOrder)]]
      /\ traderAt \in [Traders -> {"loop", "door", "quote", "compose", "submit", "done"}]
      /\ quote \in [Traders -> Quote]
  BY DEF TypeOK, ThreadTypes
<1>2. CASE TraderLoop(t) \/ EnterRoom(t) \/ LeaveRoom(t)
  <2>1. UNCHANGED <<book, stocks, trades, stage, order, quote>>
    BY <1>2 DEF TraderLoop, EnterRoom, LeaveRoom, orderBookVars, bookVars, marketVars, matchVars
  <2>2. \A w \in Traders : traderAt'[w] = "compose" => traderAt[w] = "compose"
    BY <1>1, <1>2 DEF TraderLoop, EnterRoom, LeaveRoom
  <2> QED BY <2>1, <2>2, BooksStocksKept DEF FloorInv, OrdersAbove
<1>3. CASE TakeQuote(t)
  <2>1. UNCHANGED <<book, stocks, trades, stage, order>>
    BY <1>3 DEF TakeQuote, orderBookVars, bookVars, marketVars, matchVars
  <2>2. \A w \in Traders : traderAt'[w] = "compose" => quote'[w].price >= Cent
    BY <1>1, <1>3 DEF TakeQuote, FloorInv, OrdersAbove, StocksAbove
  <2> QED BY <2>1, <2>2, BooksStocksKept DEF FloorInv, OrdersAbove
<1>4. CASE ComposeOrder(t)
  <2>1. UNCHANGED <<book, stocks, trades>>
    BY <1>4 DEF ComposeOrder, BeginSubmit, bookVars, marketVars, matchVars
  <2>2. quote[t] \in Quote /\ quote[t].price >= Cent
    BY <1>1, <1>4 DEF ComposeOrder, FloorInv, OrdersAbove
  <2>3. \A pct \in Pcts : LimitPrice(quote[t].price, pct) >= Cent
    BY <2>2, LimitPriceBounds DEF Quote
  <2>4. \A w \in Threads \ {t} : stage'[w] = stage[w] /\ order'[w] = order[w]
    BY <1>1, <1>4 DEF ComposeOrder, BeginSubmit
  <2>5. stage'[t] = "insert" => order'[t].price >= Cent
    BY <1>1, <1>4, <2>3 DEF ComposeOrder, BeginSubmit, NewOrder
  <2>6. \A w \in Traders : traderAt'[w] = "compose" => w # t /\ traderAt[w] = "compose" /\ quote'[w] = quote[w]
    BY <1>1, <1>4 DEF ComposeOrder
  <2> QED BY <2>1, <2>4, <2>5, <2>6, BooksStocksKept DEF FloorInv, OrdersAbove
<1>5. CASE InSubmitOrder(t)
  <2>1. UNCHANGED <<traderAt, quote, stocks, trades>>
    BY <1>5 DEF InSubmitOrder, SubmitStep, TakeMarketPrice, InsertOrder, SignalNewOrder,
                traderVars, marketVars, matchVars
  <2>2. \A w \in Threads \ {t} : stage'[w] = stage[w] /\ order'[w] = order[w]
    BY <1>1, <1>5 DEF InSubmitOrder, SubmitStep, TakeMarketPrice, InsertOrder, SignalNewOrder
  <2>3. stage'[t] = "insert" => order'[t].price >= Cent
    <3>1. order[t].symbol \in Symbols
      BY <1>1 DEF AnOrder, Order
    <3>2. CASE TakeMarketPrice(t)
      <4>1. stocks[order[t].symbol].currentPrice >= Cent
        BY <3>1 DEF FloorInv, StocksAbove
      <4>2. order'[t].price = stocks[order[t].symbol].currentPrice
        BY <1>1, <3>2 DEF TakeMarketPrice, AnOrder, Order
      <4> QED BY <4>1, <4>2
    <3>3. CASE InsertOrder(t) \/ SignalNewOrder(t)
      BY <1>1, <3>3 DEF InsertOrder, SignalNewOrder
    <3> QED BY <1>5, <3>2, <3>3 DEF InSubmitOrder, SubmitStep
  <2>4. OrdersAbove'
    BY <2>1, <2>2, <2>3 DEF FloorInv, OrdersAbove
  <2>5. CASE ~InsertOrder(t)
    <3>1. UNCHANGED book
      BY <1>5, <2>5 DEF InSubmitOrder, SubmitStep, TakeMarketPrice, SignalNewOrder, bookVars
    <3> QED BY <2>1, <2>4, <3>1, BooksStocksKept DEF FloorInv
  <2>6. CASE InsertOrder(t)
    <3> DEFINE u     == order[t].symbol
               v     == order[t].side
               entry == [order[t] EXCEPT !.arrival = Len(placed) + 1]
    <3>1. u \in Symbols /\ v \in OrderSides /\ order[t] \in AnOrder
      BY <1>1 DEF AnOrder, Order
    <3>2. entry \in AnOrder /\ entry.price = order[t].price
      <4>1. Len(placed) + 1 \in Nat
        BY PlacedLength
      <4> QED BY <3>1, <4>1 DEF AnOrder, Order
    <3>3. PICK n \in 0 .. Len(book[u][v]) :
            book' = [book EXCEPT ![u][v] = Emplace(@, entry, n)]
      BY <2>6 DEF InsertOrder
    <3> HIDE DEF u, v, entry
    <3>4. entry.price >= Cent
      BY <2>6, <3>2 DEF InsertOrder, FloorInv, OrdersAbove
    <3>5. /\ book[u][v] \in Seq(AnOrder)
          /\ \A i \in DOMAIN book[u][v] : book[u][v][i].price >= Cent
      BY <1>1, <3>1 DEF FloorInv, BooksAbove
    <3>6. \A i \in DOMAIN Emplace(book[u][v], entry, n) :
            Emplace(book[u][v], entry, n)[i].price >= Cent
      BY <3>2, <3>4, <3>5, EmplaceAbove
    <3>7. ASSUME NEW s \in Symbols, NEW side \in OrderSides
          PROVE  book'[s][side] = IF s = u /\ side = v THEN Emplace(book[u][v], entry, n)
                                  ELSE book[s][side]
      BY <1>1, <3>1, <3>3
    <3>8. BooksAbove'
      BY <3>6, <3>7 DEF FloorInv, BooksAbove
    <3> QED BY <2>1, <2>4, <3>8 DEF FloorInv, StocksAbove, TradesAbove
  <2> QED BY <2>5, <2>6
<1> QED BY <1>2, <1>3, <1>4, <1>5 DEF TraderStep

\* A trade is at or above the lower of its orders' prices; matching changes no
\* resting order's price, and publishes the price of its last trade.
LEMMA FloorMatching ==
  ASSUME ExchangeInv, FloorInv, InMatchOrders
  PROVE  BooksAbove' /\ StocksAbove' /\ TradesAbove'
<1> USE MembersOfThreads, CentNat DEF ExchangeInv, OrderBookInv
<1> DEFINE s == target[Matcher]
<1>1. /\ book \in [Symbols -> [OrderSides -> Seq(AnOrder)]]
      /\ trades \in [Threads -> Seq(ATrade)] /\ stocks \in [Symbols -> Stock]
  BY DEF TypeOK
<1>2. CASE ExecuteTrade(Matcher)
  <2> DEFINE buy   == Head(Bids(s))
             sell  == Head(Asks(s))
             qty   == FillQty(buy, sell)
             price == ExecPrice(buy.price, sell.price)
             trade == Trade(s, buy, sell, qty, price)
  <2>1. s \in Symbols /\ Crossed(s)
    BY <1>2, MatchingTarget DEF ExecuteTrade
  <2>2. /\ qty \in Nat /\ price \in Nat /\ sell.price \in Nat /\ sell.price <= price
        /\ sell = Asks(s)[1] /\ 1 \in DOMAIN Asks(s) /\ trade \in ATrade
        /\ Bids(s) \in Seq(AnOrder) /\ Asks(s) \in Seq(AnOrder)
        /\ Bids(s) # <<>> /\ Asks(s) # <<>>
    BY <2>1, CrossingHeads DEF AnOrder, Order
  <2>3. sell.price >= Cent
    BY <2>1, <2>2 DEF FloorInv, BooksAbove, Asks, OrderSides
  <2>4. price >= Cent /\ trade.price = price
    BY <2>2, <2>3 DEF Trade
  <2>5. /\ trades' = [trades EXCEPT ![Matcher] = Append(@, trade)]
        /\ book' = [book EXCEPT ![s] = [side \in OrderSides |->
                                          FillHead(@[side], qty, price)]]
        /\ stocks' = stocks
    BY <1>2 DEF ExecuteTrade, marketVars
  <2> HIDE DEF s, buy, sell, qty, price, trade
  <2>6. \A side \in OrderSides :
          /\ book[s][side] \in Seq(AnOrder) /\ book[s][side] # <<>>
          /\ \A i \in DOMAIN book[s][side] : book[s][side][i].price >= Cent
    BY <2>1, <2>2 DEF FloorInv, BooksAbove, OrderSides, Bids, Asks
  <2>7. \A side \in OrderSides :
          \A i \in DOMAIN FillHead(book[s][side], qty, price) :
            FillHead(book[s][side], qty, price)[i].price >= Cent
    BY <2>2, <2>6, FillEraseAbove
  <2>8. ASSUME NEW u \in Symbols, NEW side \in OrderSides
        PROVE  book'[u][side] = IF u = s THEN FillHead(book[s][side], qty, price)
                                ELSE book[u][side]
    BY <1>1, <2>1, <2>5
  <2>9. BooksAbove'
    BY <2>7, <2>8 DEF FloorInv, BooksAbove
  <2>10. ASSUME NEW t \in Threads, NEW i \in DOMAIN trades'[t]
         PROVE  trades'[t][i].price >= Cent
    <3>1. CASE t = Matcher
      <4>1. /\ trades[t] \in Seq(ATrade) /\ Len(trades[t]) \in Nat
            /\ trades'[t] = Append(trades[t], trade)
        BY <1>1, <2>5, <3>1
      <4>2. /\ i \in 1 .. Len(trades[t]) + 1 /\ DOMAIN trades[t] = 1 .. Len(trades[t])
            /\ \A k \in 1 .. Len(trades[t]) : trades'[t][k] = trades[t][k]
            /\ trades'[t][Len(trades[t]) + 1] = trade
        BY <2>2, <4>1
      <4>3. \A k \in 1 .. Len(trades[t]) : trades[t][k].price >= Cent
        BY <4>2 DEF FloorInv, TradesAbove
      <4> QED BY <2>4, <4>1, <4>2, <4>3
    <3>2. CASE t # Matcher
      BY <1>1, <2>5, <3>2 DEF FloorInv, TradesAbove
    <3> QED BY <3>1, <3>2
  <2>11. TradesAbove'
    BY <2>10 DEF TradesAbove
  <2> QED BY <2>5, <2>9, <2>11 DEF FloorInv, StocksAbove
<1>3. CASE AccountTrade(Matcher)
  <2>1. s \in Symbols
    BY <1>3, MatchingTarget DEF AccountTrade
  <2>2. /\ book' = [book EXCEPT ![s] = [side \in OrderSides |-> EraseComplete(@[side])]]
        /\ stocks' = stocks /\ trades' = trades
    BY <1>3 DEF AccountTrade, marketVars, matchVars
  <2>3. \A side \in OrderSides :
          /\ book[s][side] \in Seq(AnOrder) /\ book[s][side] # <<>>
          /\ \A i \in DOMAIN book[s][side] : book[s][side][i].price >= Cent
    BY <1>1, <1>3, <2>1 DEF AccountTrade, BatchesCarried, FloorInv, BooksAbove
  <2> HIDE DEF s
  <2>4. \A side \in OrderSides :
          \A i \in DOMAIN EraseComplete(book[s][side]) :
            EraseComplete(book[s][side])[i].price >= Cent
    BY <2>3, FillEraseAbove, 0 \in Nat
  <2>5. ASSUME NEW u \in Symbols, NEW side \in OrderSides
        PROVE  book'[u][side] = IF u = s THEN EraseComplete(book[s][side]) ELSE book[u][side]
    BY <1>1, <2>1, <2>2
  <2>6. BooksAbove'
    BY <2>4, <2>5 DEF FloorInv, BooksAbove
  <2> QED BY <2>2, <2>6 DEF FloorInv, StocksAbove, TradesAbove
<1>4. CASE EndMatch(Matcher) \/ PublishHistory(Matcher)
  <2>1. UNCHANGED <<book, stocks, trades>>
    BY <1>4 DEF EndMatch, PublishHistory, bookVars, marketVars, matchVars
  <2> QED BY <2>1, BooksStocksKept
<1>5. CASE PublishStock(Matcher)
  <2> DEFINE price == Last(trades[Matcher]).price
  <2>1. s \in Symbols /\ trades[Matcher] # <<>> /\ trades[Matcher] \in Seq(ATrade)
    BY <1>5, MatchingTarget DEF PublishStock, BatchesCarried, TypeOK
  <2>2. /\ Len(trades[Matcher]) \in DOMAIN trades[Matcher]
        /\ Last(trades[Matcher]) = trades[Matcher][Len(trades[Matcher])]
        /\ Last(trades[Matcher]) \in ATrade
    BY <2>1, EmptySeq, LenProperties, ElementOfSeq DEF Last
  <2>3. price \in Nat /\ price >= Cent
    BY <2>2 DEF FloorInv, TradesAbove, ATrade, TradeRecord
  <2>4. stocks' = [stocks EXCEPT ![s] = SetPrice(@, price)]
    BY <1>5 DEF PublishStock
  <2>5. book' = book /\ trades' = [trades EXCEPT ![Matcher] = <<>>]
    BY <1>5 DEF PublishStock, bookVars
  <2> HIDE DEF s, price
  <2>6. StocksAbove'
    BY <2>1, <2>3, <2>4, StocksAboveSet DEF FloorInv
  <2>7. \A t \in Threads : trades'[t] = IF t = Matcher THEN <<>> ELSE trades[t]
    BY <1>1, <2>5
  <2>8. TradesAbove'
    BY <2>7 DEF FloorInv, TradesAbove
  <2> QED BY <2>5, <2>6, <2>8 DEF FloorInv, BooksAbove
<1> QED BY <1>2, <1>3, <1>4, <1>5 DEF InMatchOrders

LEMMA FloorStep ==
  ASSUME ExchangeInv, FloorInv, [Next]_vars
  PROVE  FloorInv'
<1> USE MembersOfThreads DEF ExchangeInv, OrderBookInv
<1>1. ASSUME UNCHANGED <<traderAt, quote, order>>,
             \A t \in Threads : stage'[t] = "insert" => stage[t] = "insert"
      PROVE  OrdersAbove'
  BY <1>1 DEF FloorInv, OrdersAbove
<1>2. stage \in [Threads -> Stages]
  BY DEF TypeOK
<1>3. ASSUME MatcherStep PROVE FloorInv'
  <2>1. /\ UNCHANGED <<traderAt, quote, order>>
        /\ \A t \in Threads : stage'[t] = "insert" => stage[t] = "insert"
    BY <1>2, <1>3, OnlyTradersMoveTraders
       DEF MatcherStep, MatcherTop, MatcherWait, MatcherWake, MatcherRound, CallMatchOrders,
           BeginMatch, InMatchOrders, ExecuteTrade, AccountTrade, EndMatch, PublishHistory,
           PublishStock, MatcherRoundOver, orderBookVars, traderVars
  <2>2. OrdersAbove'
    BY <1>1, <2>1
  <2>3. CASE InMatchOrders
    BY <2>2, <2>3, FloorMatching DEF FloorInv
  <2>4. CASE \/ MatcherTop \/ MatcherWait \/ MatcherWake \/ MatcherRound
             \/ CallMatchOrders \/ MatcherRoundOver
    <3>1. UNCHANGED <<book, stocks, trades>>
      BY <2>4 DEF MatcherTop, MatcherWait, MatcherWake, MatcherRound, CallMatchOrders, BeginMatch,
           MatcherRoundOver, orderBookVars, bookVars, marketVars, matchVars
    <3> QED BY <2>2, <3>1, BooksStocksKept DEF FloorInv
  <2> QED BY <1>3, <2>3, <2>4 DEF MatcherStep
<1>4. ASSUME MakerUpdate PROVE FloorInv'
  <2>1. Head(makerView) \in Quote
    BY <1>4 DEF MakerUpdate, ThreadTypes
  <2>2. PICK factor \in Factors :
          UpdatePrice(Head(makerView).symbol, Clamp(GbmStep(Head(makerView).price, factor)))
    BY <1>4 DEF MakerUpdate
  <2> DEFINE u     == Head(makerView).symbol
             price == Clamp(GbmStep(Head(makerView).price, factor))
  <2>3. u \in Symbols /\ price \in Nat /\ price >= Cent
    BY <2>1, MakerPriceBounds DEF Quote
  <2>4. /\ stocks' = [stocks EXCEPT ![u] = SetPrice(@, price)]
        /\ UNCHANGED <<book, trades, stage, order>>
    BY <2>2 DEF UpdatePrice, bookVars, matchVars
  <2>5. UNCHANGED <<traderAt, quote>>
    BY <1>4 DEF MakerUpdate, traderVars
  <2> HIDE DEF u, price
  <2>6. StocksAbove'
    BY <2>3, <2>4, StocksAboveSet DEF FloorInv
  <2> QED BY <2>4, <2>5, <2>6 DEF FloorInv, BooksAbove, TradesAbove, OrdersAbove
<1>5. ASSUME MakerTick \/ DashboardExit \/ SpuriousWakeup \/ MainStep \/ Sigint \/ UNCHANGED vars
      PROVE  FloorInv'
  <2>1. UNCHANGED <<book, stocks, trades, stage, order, traderAt, quote>>
    BY <1>5 DEF MakerTick, DashboardExit, SpuriousWakeup, MainStep, JoinTraders, WakeMatcher,
         Report, Sigint, vars, orderBookVars, bookVars, marketVars, matchVars, traderVars
  <2> QED BY <1>1, <2>1, BooksStocksKept DEF FloorInv
<1> QED BY <1>3, <1>4, <1>5, FloorTrader DEF Next, MakerStep, Terminated

\* No resting order and no stock is ever priced below one cent, whatever the
\* rounding of limit prices, the midpoints of trades and the market's moves.
THEOREM FloorKept == Spec => []PriceFloor
<1>1. Init => FloorInv
  <2> SUFFICES ASSUME Init PROVE FloorInv
    OBVIOUS
  <2>1. BooksAbove
    BY DEF Init, OrderBookInit, BooksAbove
  <2>2. StocksAbove
    BY ExchangePrices, PriceAssumption DEF Init, OrderBookInit, StocksAbove, NewStock
  <2>3. TradesAbove
    BY DEF Init, OrderBookInit, TradesAbove
  <2>4. OrdersAbove
    BY DEF Init, OrderBookInit, OrdersAbove
  <2> QED BY <2>1, <2>2, <2>3, <2>4 DEF FloorInv
<1>2. ExchangeInv /\ FloorInv /\ [Next]_vars => FloorInv'
  BY FloorStep
<1>3. FloorInv => PriceFloor
  BY DEF FloorInv, BooksAbove, StocksAbove, PriceFloor, ToSet
<1> QED BY <1>1, <1>2, <1>3, ExchangeInvariant, PTL DEF Spec

-----------------------------------------------------------------------------
(***************************************************************************)
(* The trade history, with one matching engine.                            *)
(***************************************************************************)
\* EndsWith(s, t): t ends with s, position by position.
EndsWith(s, t) ==
  /\ Len(s) <= Len(t)
  /\ \A i \in 1 .. Len(s) : s[i] = t[Len(t) - Len(s) + i]

LEMMA EndsWithIsSuffix ==
  ASSUME NEW S, NEW s \in Seq(S), NEW t \in Seq(S), EndsWith(s, t)
  PROVE  IsSuffix(s, t)
<1> DEFINE m == Len(s)
           n == Len(t)
           r == Reverse(s)
           q == Reverse(t)
<1>1. /\ m \in Nat /\ n \in Nat /\ m <= n
      /\ \A i \in 1 .. m : s[i] \in S /\ s[i] = t[n - m + i]
      /\ \A i \in 1 .. n : t[i] \in S
  BY LenProperties, ElementOfSeq DEF EndsWith
<1>2. r = [i \in 1 .. m |-> s[(m - i) + 1]] /\ q = [i \in 1 .. n |-> t[(n - i) + 1]]
  BY DEF Reverse
<1> HIDE DEF m, n, r, q
<1>3. r \in [1 .. m -> S] /\ q \in [1 .. n -> S]
  BY <1>1, <1>2
<1>4. r \in Seq(S) /\ q \in Seq(S) /\ Len(r) = m /\ Len(q) = n
  BY <1>1, <1>3
<1>5. \A i \in 1 .. m : r[i] = q[i]
  <2> SUFFICES ASSUME NEW i \in 1 .. m PROVE r[i] = q[i]
    OBVIOUS
  <2>1. (m - i) + 1 \in 1 .. m /\ n - m + ((m - i) + 1) = (n - i) + 1 /\ i \in 1 .. n
    BY <1>1
  <2> QED BY <1>1, <1>2, <2>1
<1>6. SubSeq(r, 1, m) = SubSeq(q, 1, m)
  <2>1. /\ SubSeq(r, 1, m) \in Seq(S) /\ Len(SubSeq(r, 1, m)) = m
        /\ \A i \in 1 .. m : SubSeq(r, 1, m)[i] = r[i]
    BY <1>1, <1>3, <1>4
  <2>2. /\ SubSeq(q, 1, m) \in Seq(S) /\ Len(SubSeq(q, 1, m)) = m
        /\ \A i \in 1 .. m : SubSeq(q, 1, m)[i] = q[i]
    BY <1>1, <1>3, <1>4
  <2> QED BY <1>5, <2>1, <2>2, SeqEqual
<1> QED BY <1>1, <1>4, <1>6 DEF IsSuffix, IsPrefix, r, q

\* Both sequences grow by the same element, or the shorter one loses elements
\* at its front.
LEMMA EndsWithAppend ==
  ASSUME NEW S, NEW s \in Seq(S), NEW t \in Seq(S), NEW e \in S, EndsWith(s, t)
  PROVE  EndsWith(Append(s, e), Append(t, e))
<1>1. Len(s) \in Nat /\ Len(t) \in Nat
  BY LenProperties
<1> QED BY <1>1 DEF EndsWith

LEMMA EndsWithRecent ==
  ASSUME NEW s \in Seq(ATrade), NEW t \in Seq(ATrade), EndsWith(s, t)
  PROVE  EndsWith(KeepRecent(s), t)
<1>1. Len(s) \in Nat /\ Len(t) \in Nat /\ MAX_HISTORY \in Nat \ {0}
  BY LenProperties, HistoryAssumption
<1>2. CASE Len(s) > MAX_HISTORY
  <2> DEFINE k == Len(s) - MAX_HISTORY
             r == KeepRecent(s)
  <2>1. k \in Nat /\ r = SubSeq(s, k + 1, Len(s))
    BY <1>1, <1>2 DEF KeepRecent
  <2>2. \A i \in k + 1 .. Len(s) : s[i] \in ATrade
    BY <1>1, <2>1, ElementOfSeq
  <2>3. /\ Len(r) = MAX_HISTORY
        /\ \A i \in 1 .. MAX_HISTORY : r[i] = s[k + i]
    BY <1>1, <1>2, <2>1, <2>2, SubSeqProperties
  <2>4. ASSUME NEW i \in 1 .. MAX_HISTORY PROVE r[i] = t[Len(t) - MAX_HISTORY + i]
    <3>1. k + i \in 1 .. Len(s) /\ Len(t) - Len(s) + (k + i) = Len(t) - MAX_HISTORY + i
      BY <1>1, <1>2
    <3> QED BY <2>3, <3>1 DEF EndsWith
  <2>5. MAX_HISTORY <= Len(t)
    BY <1>1, <1>2 DEF EndsWith
  <2> HIDE DEF r
  <2>6. EndsWith(r, t)
    BY <2>3, <2>4, <2>5 DEF EndsWith
  <2> QED BY <2>6 DEF r
<1>3. CASE ~(Len(s) > MAX_HISTORY)
  BY <1>3 DEF KeepRecent
<1> QED BY <1>2, <1>3

Unpublished == IF stage[Matcher] = "publish" THEN <<>> ELSE trades[Matcher]

HistoryInv == EndsWith(tradeHistory \o Unpublished, executed)

LEMMA HistoryTyped ==
  ASSUME OrderBookInv
  PROVE  /\ tradeHistory \in Seq(ATrade) /\ executed \in Seq(ATrade)
         /\ Unpublished \in Seq(ATrade) /\ trades[Matcher] \in Seq(ATrade)
         /\ tradeHistory \o Unpublished \in Seq(ATrade)
<1>1. /\ tradeHistory \in Seq(ATrade) /\ executed \in Seq(ATrade)
      /\ trades[Matcher] \in Seq(ATrade)
  BY MembersOfThreads DEF OrderBookInv, TypeOK
<1>2. Unpublished \in Seq(ATrade)
  BY <1>1, EmptySeq DEF Unpublished
<1> QED BY <1>1, <1>2, ConcatProperties

LEMMA HistoryExecute ==
  ASSUME ExchangeInv, HistoryInv, ExecuteTrade(Matcher)
  PROVE  HistoryInv'
<1> USE MembersOfThreads DEF ExchangeInv
<1> DEFINE s     == target[Matcher]
           buy   == Head(Bids(s))
           sell  == Head(Asks(s))
           qty   == FillQty(buy, sell)
           price == ExecPrice(buy.price, sell.price)
           trade == Trade(s, buy, sell, qty, price)
<1>1. /\ stage[Matcher] = "match" /\ s \in Symbols /\ Crossed(s)
      /\ stage \in [Threads -> Stages] /\ trades \in [Threads -> Seq(ATrade)]
  BY MatchingTarget DEF ExecuteTrade, OrderBookInv, TypeOK
<1>2. trade \in ATrade
  BY <1>1, CrossingHeads DEF OrderBookInv
<1>3. /\ trades' = [trades EXCEPT ![Matcher] = Append(@, trade)]
      /\ executed' = Append(executed, trade)
      /\ stage' = [stage EXCEPT ![Matcher] = "account"]
      /\ UNCHANGED tradeHistory
  BY DEF ExecuteTrade
<1> HIDE DEF s, buy, sell, qty, price, trade
<1>4. Unpublished = trades[Matcher] /\ Unpublished' = Append(trades[Matcher], trade)
  BY <1>1, <1>3 DEF Unpublished
<1>5. tradeHistory \o Append(trades[Matcher], trade)
        = Append(tradeHistory \o trades[Matcher], trade)
  BY <1>2, HistoryTyped
<1>6. EndsWith(Append(tradeHistory \o trades[Matcher], trade), Append(executed, trade))
  BY <1>2, <1>4, HistoryTyped, EndsWithAppend DEF HistoryInv
<1>7. (tradeHistory \o Unpublished)' = Append(tradeHistory \o trades[Matcher], trade)
  BY <1>3, <1>4, <1>5
<1> QED BY <1>3, <1>6, <1>7 DEF HistoryInv

LEMMA HistoryPublish ==
  ASSUME ExchangeInv, HistoryInv, PublishHistory(Matcher) \/ PublishStock(Matcher)
  PROVE  HistoryInv'
<1> USE MembersOfThreads DEF ExchangeInv
<1>1. stage \in [Threads -> Stages] /\ trades \in [Threads -> Seq(ATrade)]
  BY DEF OrderBookInv, TypeOK
<1>2. CASE PublishHistory(Matcher)
  <2>1. /\ tradeHistory' = KeepRecent(tradeHistory \o Unpublished) /\ Unpublished' = <<>>
        /\ UNCHANGED executed
    BY <1>1, <1>2 DEF PublishHistory, Unpublished, totalVars
  <2>2. KeepRecent(tradeHistory \o Unpublished) \in Seq(ATrade)
    <3> DEFINE h == tradeHistory \o Unpublished
    <3>1. h \in Seq(ATrade)
      BY HistoryTyped
    <3> HIDE DEF h
    <3>2. KeepRecent(h) \in Seq(ATrade)
      BY <3>1, LenProperties, ElementOfSeq, SubSeqProperties, HistoryAssumption DEF KeepRecent
    <3> QED BY <3>2 DEF h
  <2>3. (tradeHistory \o Unpublished)' = KeepRecent(tradeHistory \o Unpublished)
    BY <2>1, <2>2
  <2>4. EndsWith(KeepRecent(tradeHistory \o Unpublished), executed)
    BY HistoryTyped, EndsWithRecent DEF HistoryInv
  <2> QED BY <2>1, <2>3, <2>4 DEF HistoryInv
<1>3. CASE PublishStock(Matcher)
  <2>1. Unpublished = <<>> /\ Unpublished' = <<>> /\ UNCHANGED <<tradeHistory, executed>>
    BY <1>1, <1>3 DEF PublishStock, Unpublished, totalVars
  <2> QED BY <2>1 DEF HistoryInv
<1> QED BY <1>2, <1>3

LEMMA HistoryStep ==
  ASSUME ExchangeInv, HistoryInv, [Next]_vars
  PROVE  HistoryInv'
<1> USE MembersOfThreads DEF ExchangeInv
<1>1. stage \in [Threads -> Stages] /\ trades \in [Threads -> Seq(ATrade)]
  BY DEF OrderBookInv, TypeOK
<1>2. ASSUME UNCHANGED <<tradeHistory, executed, trades>>,
             (stage'[Matcher] = "publish") = (stage[Matcher] = "publish")
      PROVE  HistoryInv'
  BY <1>2 DEF HistoryInv, Unpublished
<1>3. ASSUME NEW t \in Traders, TraderStep(t)
      PROVE  UNCHANGED <<tradeHistory, executed, trades>> /\ stage'[Matcher] = stage[Matcher]
  BY <1>1, <1>3 DEF TraderStep, TraderLoop, EnterRoom, TakeQuote, ComposeOrder, BeginSubmit,
       InSubmitOrder, SubmitStep, TakeMarketPrice, InsertOrder, SignalNewOrder, LeaveRoom,
       orderBookVars, matchVars, totalVars
<1>4. ASSUME \/ MatcherTop \/ MatcherWait \/ MatcherWake \/ MatcherRound \/ MatcherRoundOver
             \/ SpuriousWakeup \/ MakerStep \/ DashboardExit \/ MainStep \/ Sigint
             \/ UNCHANGED vars
      PROVE  UNCHANGED <<tradeHistory, executed, trades, stage>>
  BY <1>4 DEF MatcherTop, MatcherWait, MatcherWake, MatcherRound, MatcherRoundOver,
       SpuriousWakeup, MakerStep, MakerTick, MakerUpdate, UpdatePrice, DashboardExit,
       MainStep, JoinTraders, WakeMatcher, Report, Sigint, vars, orderBookVars, matchVars,
       totalVars
<1>5. ASSUME CallMatchOrders \/ AccountTrade(Matcher) \/ EndMatch(Matcher)
      PROVE  /\ UNCHANGED <<tradeHistory, executed, trades>>
             /\ stage[Matcher] # "publish" /\ stage'[Matcher] # "publish"
  BY <1>1, <1>5 DEF CallMatchOrders, BeginMatch, AccountTrade, EndMatch, matchVars, totalVars
<1>6. CASE InMatchOrders /\ (\/ ExecuteTrade(Matcher)
                            \/ PublishHistory(Matcher) \/ PublishStock(Matcher))
  BY <1>6, HistoryExecute, HistoryPublish
<1> QED BY <1>2, <1>3, <1>4, <1>5, <1>6 DEF Next, MatcherStep, InMatchOrders, Terminated

\* The trade history is the true one: what the deque holds, followed by what
\* the engine has yet to publish, is how the sequence of all trades ends, for
\* any MAX_HISTORY.  (Trades are made behind the books' mutexes and published
\* later behind another; the one engine keeps them in order.)
THEOREM HistoryKept == Spec => []HistoryInOrder
<1>1. Init => HistoryInv
  BY MembersOfThreads DEF Init, OrderBookInit, HistoryInv, EndsWith, Unpublished
<1>2. ExchangeInv /\ HistoryInv /\ [Next]_vars => HistoryInv'
  BY HistoryStep
<1>3. ExchangeInv /\ HistoryInv => HistoryInOrder
  BY HistoryTyped, EndsWithIsSuffix DEF HistoryInv, HistoryInOrder, Unpublished, ExchangeInv
<1> QED BY <1>1, <1>2, <1>3, ExchangeInvariant, PTL DEF Spec

-----------------------------------------------------------------------------
(***************************************************************************)
(* The final report.  Traders only submit and the engine only matches;     *)
(* main goes on when the traders are done, and reports when the engine has *)
(* left.  Up to then the volumes lack what the engine carries, its own     *)
(* count the trades of the call it is in, and the traders' counts the      *)
(* orders of the traders that have yet to leave the room.                  *)
(***************************************************************************)
CallsInv ==
  /\ \A t \in Traders : /\ stage[t] \in {"idle", "price", "insert", "signal"}
                        /\ stage[t] # "idle" => traderAt[t] = "submit"
  /\ stage[Matcher] \in {"idle", "match", "account", "history", "publish"}
  /\ matcherAt # "round" => stage[Matcher] = "idle"
  /\ mainAt # "join" => \A t \in Traders : traderAt[t] = "done"
  /\ mainAt = "report" => matcherAt = "exit"

\* The traders whose order is in its book and not in their count.
Uncounted == {t \in Traders : traderAt[t] = "submit" /\ stage[t] \in {"signal", "idle"}}

CountInv   == SumOf(ordersPlaced) + Cardinality(Uncounted) = Len(placed)
VolumeInv  == SumOf(volume) + SharesOf(trades[Matcher]) = SharesOf(executed)
MatchesInv == matchesPerformed + Len(trades[Matcher]) = Len(executed)

LEMMA CallsStep ==
  ASSUME ExchangeInv, CallsInv, [Next]_vars
  PROVE  CallsInv'
<1> USE MembersOfThreads
<1>1. /\ stage \in [Threads -> Stages]
      /\ traderAt \in [Traders -> {"loop", "door", "quote", "compose", "submit", "done"}]
  BY DEF ExchangeInv, ThreadTypes, OrderBookInv, TypeOK
<1>2. ASSUME NEW t \in Traders, TraderStep(t) PROVE CallsInv'
  <2>1. /\ mainAt' = mainAt /\ matcherAt' = matcherAt
        /\ \A w \in Traders : w # t => traderAt'[w] = traderAt[w]
        /\ \A w \in Threads : w # t => stage'[w] = stage[w]
        /\ traderAt[t] # "done"
    BY <1>1, <1>2 DEF TraderStep, TraderLoop, EnterRoom, TakeQuote, ComposeOrder, BeginSubmit,
         InSubmitOrder, SubmitStep, TakeMarketPrice, InsertOrder, SignalNewOrder, LeaveRoom,
         orderBookVars, matcherVars, mainVars, traderVars
  <2>2. /\ stage'[t] \in {"idle", "price", "insert", "signal"}
        /\ stage'[t] # "idle" => traderAt'[t] = "submit"
    <3>1. CASE TraderLoop(t) \/ EnterRoom(t) \/ TakeQuote(t) \/ LeaveRoom(t)
      BY <1>1, <3>1 DEF TraderLoop, EnterRoom, TakeQuote, LeaveRoom, orderBookVars, CallsInv
    <3>2. CASE ComposeOrder(t)
      BY <1>1, <3>2 DEF ComposeOrder, BeginSubmit
    <3>3. CASE InSubmitOrder(t)
      BY <1>1, <3>3 DEF InSubmitOrder, SubmitStep, TakeMarketPrice, InsertOrder,
                        SignalNewOrder, traderVars
    <3> QED BY <1>2, <3>1, <3>2, <3>3 DEF TraderStep
  <2>3. mainAt = "join"
    BY <2>1, <1>1 DEF CallsInv, ExchangeInv, ThreadTypes
  <2> QED BY <2>1, <2>2, <2>3 DEF CallsInv
<1>3. ASSUME MatcherStep PROVE CallsInv'
  <2>1. UNCHANGED <<traderAt, mainAt>>
    BY <1>3, OnlyTradersMoveTraders, OnlyMainMovesMain DEF traderVars, mainVars
  <2>2. /\ \A t \in Traders : stage'[t] = stage[t]
        /\ stage'[Matcher] \in {"idle", "match", "account", "history", "publish"}
        /\ matcherAt' # "round" => stage'[Matcher] = "idle"
        /\ matcherAt # "exit"
    <3>1. CASE MatcherTop \/ MatcherWait \/ MatcherWake
      BY <1>1, <3>1 DEF MatcherTop, MatcherWait, MatcherWake, orderBookVars, matcherVars, CallsInv
    <3>2. CASE MatcherRound \/ MatcherRoundOver
      BY <1>1, <3>2 DEF MatcherRound, MatcherRoundOver, orderBookVars, matcherVars, CallsInv
    <3>3. CASE CallMatchOrders
      BY <1>1, <3>3 DEF CallMatchOrders, BeginMatch
    <3>4. CASE InMatchOrders
      BY <1>1, <3>4 DEF InMatchOrders, ExecuteTrade, AccountTrade, EndMatch, PublishHistory,
                        PublishStock, CallsInv
    <3> QED BY <1>3, <3>1, <3>2, <3>3, <3>4 DEF MatcherStep
  <2> QED BY <2>1, <2>2 DEF CallsInv
<1>4. ASSUME SpuriousWakeup \/ MakerStep \/ DashboardExit \/ MainStep \/ Sigint
             \/ UNCHANGED vars
      PROVE  CallsInv'
  <2>1. UNCHANGED <<stage, traderAt, matcherAt>>
    BY <1>4 DEF SpuriousWakeup, MakerStep, MakerTick, MakerUpdate, UpdatePrice, DashboardExit,
         MainStep, JoinTraders, WakeMatcher, Report, Sigint, vars, orderBookVars,
         traderVars, matcherVars
  <2>2. \/ mainAt' = mainAt
        \/ mainAt = "join" /\ mainAt' = "wake" /\ \A t \in Traders : traderAt[t] = "done"
        \/ mainAt = "wake" /\ mainAt' = "drain"
        \/ mainAt = "drain" /\ mainAt' = "report" /\ matcherAt = "exit"
    BY <1>4 DEF SpuriousWakeup, MakerStep, MakerTick, MakerUpdate, DashboardExit,
         MainStep, JoinTraders, WakeMatcher, Report, Sigint, vars, mainVars
  <2> QED BY <2>1, <2>2 DEF CallsInv
<1> QED BY <1>2, <1>3, <1>4 DEF Next, Terminated

\* Orders are placed in the traders' steps only.
LEMMA OnlyTradersPlace ==
  ASSUME OrderBookInv,
         \/ MatcherStep \/ SpuriousWakeup \/ MakerStep \/ DashboardExit
         \/ MainStep \/ Sigint \/ UNCHANGED vars
  PROVE  UNCHANGED placed /\ \A t \in Traders : stage'[t] = stage[t]
<1>1. stage \in [Threads -> Stages]
  BY DEF OrderBookInv, TypeOK
<1>2. ASSUME MatcherStep PROVE UNCHANGED placed /\ \A t \in Traders : stage'[t] = stage[t]
  <2>1. CASE \/ MatcherTop \/ MatcherWait \/ MatcherWake \/ MatcherRound \/ MatcherRoundOver
    BY <2>1 DEF MatcherTop, MatcherWait, MatcherWake, MatcherRound, MatcherRoundOver,
                orderBookVars, bookVars
  <2>2. CASE CallMatchOrders \/ InMatchOrders
    BY <1>1, <2>2, MembersOfThreads
       DEF CallMatchOrders, BeginMatch, InMatchOrders, ExecuteTrade, AccountTrade, EndMatch,
           PublishHistory, PublishStock, bookVars
  <2> QED BY <1>2, <2>1, <2>2 DEF MatcherStep
<1>3. ASSUME SpuriousWakeup \/ MakerStep \/ DashboardExit \/ MainStep \/ Sigint \/ UNCHANGED vars
      PROVE  UNCHANGED placed /\ \A t \in Traders : stage'[t] = stage[t]
  BY <1>3 DEF SpuriousWakeup, MakerStep, MakerTick, MakerUpdate, UpdatePrice, DashboardExit,
       MainStep, JoinTraders, WakeMatcher, Report, Sigint, vars, orderBookVars, bookVars
<1> QED BY <1>2, <1>3

LEMMA CountTyped ==
  ASSUME ExchangeInv
  PROVE  /\ IsFiniteSet(Uncounted) /\ Cardinality(Uncounted) \in Nat
         /\ SumOf(ordersPlaced) \in Nat /\ Len(placed) \in Nat
<1>1. Uncounted \in SUBSET Traders
  BY DEF Uncounted
<1>2. IsFiniteSet(Uncounted) /\ Cardinality(Uncounted) \in Nat
  BY <1>1, MembersOfThreads, FS_Subset, FS_CardinalityType
<1>3. ordersPlaced \in [Traders -> Nat] /\ Len(placed) \in Nat
  BY PlacedLength DEF ExchangeInv, ThreadTypes
<1> QED BY <1>2, <1>3, MembersOfThreads, SumWithout

\* An order is counted by its book and later by its trader.
LEMMA CountStep ==
  ASSUME ExchangeInv, CountInv, [Next]_vars
  PROVE  CountInv'
<1> USE MembersOfThreads
<1>1. /\ stage \in [Threads -> Stages] /\ placed \in Seq(AnOrder)
      /\ traderAt \in [Traders -> {"loop", "door", "quote", "compose", "submit", "done"}]
      /\ ordersPlaced \in [Traders -> Nat]
  BY DEF ExchangeInv, ThreadTypes, OrderBookInv, TypeOK
<1>2. /\ IsFiniteSet(Uncounted) /\ Cardinality(Uncounted) \in Nat
      /\ SumOf(ordersPlaced) \in Nat /\ Len(placed) \in Nat
  BY CountTyped
<1>3. ASSUME UNCHANGED <<ordersPlaced, placed>>, Uncounted' = Uncounted PROVE CountInv'
  BY <1>3 DEF CountInv
<1>4. ASSUME NEW t \in Traders, TraderStep(t) PROVE CountInv'
  <2>1. CASE TraderLoop(t) \/ EnterRoom(t) \/ TakeQuote(t)
    <3>1. UNCHANGED <<ordersPlaced, placed, stage>>
      BY <2>1 DEF TraderLoop, EnterRoom, TakeQuote, orderBookVars, bookVars
    <3>2. Uncounted' = Uncounted
      BY <1>1, <2>1, <3>1 DEF TraderLoop, EnterRoom, TakeQuote, Uncounted
    <3> QED BY <1>3, <3>1, <3>2
  <2>2. CASE ComposeOrder(t)
    <3>1. UNCHANGED <<ordersPlaced, placed>>
      BY <2>2 DEF ComposeOrder, BeginSubmit, bookVars
    <3>2. /\ traderAt[t] = "compose" /\ stage'[t] \in {"price", "insert"}
          /\ \A w \in Traders : w # t => stage'[w] = stage[w] /\ traderAt'[w] = traderAt[w]
      BY <1>1, <2>2 DEF ComposeOrder, BeginSubmit
    <3>3. Uncounted' = Uncounted
      BY <3>2 DEF Uncounted
    <3> QED BY <1>3, <3>1, <3>3
  <2>3. CASE InSubmitOrder(t) /\ (TakeMarketPrice(t) \/ SignalNewOrder(t))
    <3>1. UNCHANGED <<ordersPlaced, placed, traderAt>>
      BY <2>3 DEF InSubmitOrder, TakeMarketPrice, SignalNewOrder, bookVars, traderVars
    <3>2. /\ stage[t] \in {"signal", "idle"} <=> stage'[t] \in {"signal", "idle"}
          /\ \A w \in Traders : w # t => stage'[w] = stage[w]
      BY <1>1, <2>3 DEF TakeMarketPrice, SignalNewOrder
    <3>3. Uncounted' = Uncounted
      BY <3>1, <3>2 DEF Uncounted
    <3> QED BY <1>3, <3>1, <3>3
  <2>4. CASE InSubmitOrder(t) /\ InsertOrder(t)
    <3>1. t \notin Uncounted /\ Uncounted' = Uncounted \cup {t} /\ UNCHANGED ordersPlaced
      BY <1>1, <2>4 DEF InSubmitOrder, InsertOrder, Uncounted, traderVars
    <3>2. Cardinality(Uncounted') = Cardinality(Uncounted) + 1
      BY <1>2, <3>1, FS_AddElement
    <3>3. Len(placed') = Len(placed) + 1
      <4>1. PICK entry : placed' = Append(placed, entry)
        BY <2>4 DEF InsertOrder
      <4> QED BY <1>1, <4>1
    <3> QED BY <1>2, <3>1, <3>2, <3>3 DEF CountInv
  <2>5. CASE LeaveRoom(t)
    <3>1. t \in Uncounted /\ Uncounted' = Uncounted \ {t} /\ placed' = placed
      BY <1>1, <2>5 DEF LeaveRoom, Uncounted, orderBookVars, bookVars
    <3>2. Cardinality(Uncounted') = Cardinality(Uncounted) - 1
      BY <1>2, <3>1, FS_RemoveElement
    <3>3. /\ ordersPlaced' \in [Traders -> Nat] /\ ordersPlaced'[t] = ordersPlaced[t] + 1
          /\ \A w \in Traders : w # t => ordersPlaced'[w] = ordersPlaced[w]
          /\ ordersPlaced[t] \in Nat
      BY <1>1, <2>5 DEF LeaveRoom
    <3>4. SumOf(ordersPlaced') = SumOf(ordersPlaced) - ordersPlaced[t] + ordersPlaced'[t]
      <4> DEFINE f == ordersPlaced
                 g == ordersPlaced'
      <4>1. /\ f \in [Traders -> Nat] /\ g \in [Traders -> Nat]
            /\ \A w \in Traders : w # t => g[w] = f[w]
        BY <1>1, <3>3
      <4> HIDE DEF f, g
      <4>2. SumOf(g) = SumOf(f) - f[t] + g[t]
        BY <4>1, SumMoved
      <4> QED BY <4>2 DEF f, g
    <3>5. SumOf(ordersPlaced') = SumOf(ordersPlaced) + 1
      BY <1>2, <3>3, <3>4
    <3> QED BY <1>2, <3>1, <3>2, <3>5 DEF CountInv
  <2> QED BY <1>4, <2>1, <2>2, <2>3, <2>4, <2>5 DEF TraderStep, InSubmitOrder, SubmitStep
<1>5. ASSUME MatcherStep \/ SpuriousWakeup \/ MakerStep \/ DashboardExit \/ MainStep \/ Sigint
             \/ UNCHANGED vars
      PROVE  CountInv'
  <2>1. UNCHANGED <<ordersPlaced, traderAt>>
    BY <1>5, OnlyTradersMoveTraders DEF traderVars
  <2>2. UNCHANGED placed /\ \A t \in Traders : stage'[t] = stage[t]
    BY <1>5, OnlyTradersPlace DEF ExchangeInv
  <2>3. Uncounted' = Uncounted
    BY <2>1, <2>2 DEF Uncounted
  <2> QED BY <1>3, <2>1, <2>2, <2>3
<1> QED BY <1>4, <1>5 DEF Next, Terminated

LEMMA SymbolsFinite == IsFiniteSet(Symbols)
<1> DEFINE n == Len(StockList)
<1>1. /\ StockList \in [1 .. n -> Symbols] /\ n \in Nat
      /\ \A s \in Symbols : \E i \in 1 .. n : StockList[i] = s
  BY ExchangeSymbols, LenProperties, ElementOfSeq DEF ToSet
<1> HIDE DEF n
<1>2. StockList \in Surjection(1 .. n, Symbols)
  BY <1>1 DEF Surjection
<1>3. IsFiniteSet(1 .. n)
  BY <1>1, FS_Interval
<1> QED BY <1>2, <1>3, FS_Surjection

\* The engine's call carries the shares and the trades that the volumes and
\* its own count do not have yet.
LEMMA CarriedStep ==
  ASSUME ExchangeInv, VolumeInv, MatchesInv, [Next]_vars
  PROVE  VolumeInv' /\ MatchesInv'
<1> USE MembersOfThreads
<1>1. /\ stage \in [Threads -> Stages] /\ trades \in [Threads -> Seq(ATrade)]
      /\ volume \in [Symbols -> Nat] /\ executed \in Seq(ATrade) /\ matchesPerformed \in Nat
      /\ target \in [Threads -> Symbols \cup {NoSymbol}]
  BY DEF ExchangeInv, ThreadTypes, OrderBookInv, TypeOK
<1>2. /\ trades[Matcher] \in Seq(ATrade)
      /\ SharesOf(trades[Matcher]) \in Nat /\ Len(trades[Matcher]) \in Nat
      /\ SharesOf(executed) \in Nat /\ Len(executed) \in Nat
  BY <1>1, TradeQuantities
<1>3. SumOf(volume) \in Nat
  BY <1>1, SymbolsFinite, SumWithout
<1>4. ASSUME UNCHANGED <<volume, executed, matchesPerformed>>, trades'[Matcher] = trades[Matcher]
      PROVE  VolumeInv' /\ MatchesInv'
  BY <1>4 DEF VolumeInv, MatchesInv
<1>5. ASSUME NEW t \in Traders, TraderStep(t) PROVE VolumeInv' /\ MatchesInv'
  <2>1. UNCHANGED <<volume, executed, matchesPerformed, trades>>
    BY <1>5 DEF TraderStep, TraderLoop, EnterRoom, TakeQuote, ComposeOrder, BeginSubmit,
         InSubmitOrder, SubmitStep, TakeMarketPrice, InsertOrder, SignalNewOrder, LeaveRoom,
         orderBookVars, marketVars, totalVars, matchVars, matcherVars
  <2> QED BY <1>4, <2>1
<1>6. ASSUME \/ MatcherTop \/ MatcherWait \/ MatcherWake \/ MatcherRound \/ MatcherRoundOver
             \/ CallMatchOrders
             \/ SpuriousWakeup \/ MakerStep \/ DashboardExit \/ MainStep \/ Sigint
             \/ UNCHANGED vars
      PROVE  VolumeInv' /\ MatchesInv'
  <2> USE DEF orderBookVars, marketVars, totalVars, matchVars, matcherVars
  <2>1. UNCHANGED <<volume, executed, matchesPerformed, trades>>
    <3>1. CASE \/ MatcherTop \/ MatcherWait \/ MatcherWake \/ MatcherRound \/ MatcherRoundOver
               \/ CallMatchOrders \/ SpuriousWakeup
      BY <3>1 DEF MatcherTop, MatcherWait, MatcherWake, MatcherRound, MatcherRoundOver,
                  CallMatchOrders, BeginMatch, SpuriousWakeup
    <3>2. CASE MakerStep \/ DashboardExit \/ MainStep \/ Sigint \/ UNCHANGED vars
      BY <3>2 DEF MakerStep, MakerTick, MakerUpdate, UpdatePrice, DashboardExit, MainStep,
                  JoinTraders, WakeMatcher, Report, Sigint, vars
    <3> QED BY <1>6, <3>1, <3>2
  <2> QED BY <1>4, <2>1
<1>7. ASSUME InMatchOrders,
             AccountTrade(Matcher) \/ EndMatch(Matcher) \/ PublishHistory(Matcher)
      PROVE  VolumeInv' /\ MatchesInv'
  <2>1. UNCHANGED <<volume, executed, trades>>
    BY <1>7 DEF AccountTrade, EndMatch, PublishHistory, marketVars, totalVars, matchVars
  <2>2. UNCHANGED matchesPerformed
    BY <1>1, <1>7 DEF InMatchOrders, AccountTrade, EndMatch, PublishHistory, PublishStock
  <2> QED BY <1>4, <2>1, <2>2
<1>8. ASSUME InMatchOrders, ExecuteTrade(Matcher) PROVE VolumeInv' /\ MatchesInv'
  <2> DEFINE s     == target[Matcher]
             buy   == Head(Bids(s))
             sell  == Head(Asks(s))
             trade == Trade(s, buy, sell, FillQty(buy, sell), ExecPrice(buy.price, sell.price))
  <2>1. stage[Matcher] = "match" /\ s \in Symbols /\ Crossed(s)
    BY <1>8, MatchingTarget DEF ExecuteTrade, OrderBookInv, ExchangeInv
  <2>2. trade \in ATrade
    BY <2>1, CrossingHeads DEF OrderBookInv, ExchangeInv
  <2>3. /\ trades' = [trades EXCEPT ![Matcher] = Append(@, trade)]
        /\ executed' = Append(executed, trade) /\ UNCHANGED volume
    BY <1>8 DEF ExecuteTrade, marketVars
  <2>4. UNCHANGED matchesPerformed
    BY <1>8, <2>1 DEF InMatchOrders, PublishStock
  <2> HIDE DEF s, buy, sell, trade
  <2>5. trades'[Matcher] = Append(trades[Matcher], trade) /\ trade.quantity \in Nat
    BY <1>1, <2>2, <2>3, TradeQuantities
  <2>6. /\ SharesOf(trades'[Matcher]) = SharesOf(trades[Matcher]) + trade.quantity
        /\ SharesOf(executed') = SharesOf(executed) + trade.quantity
    BY <1>1, <1>2, <2>2, <2>3, <2>5, TradeQuantities, SharesOfAppend
  <2>7. Len(trades'[Matcher]) = Len(trades[Matcher]) + 1 /\ Len(executed') = Len(executed) + 1
    BY <1>1, <1>2, <2>2, <2>3, <2>5, AppendProperties
  <2>8. VolumeInv'
    BY <1>2, <1>3, <2>3, <2>5, <2>6 DEF VolumeInv
  <2>9. MatchesInv'
    BY <1>1, <1>2, <2>4, <2>7 DEF MatchesInv
  <2> QED BY <2>8, <2>9
<1>9. ASSUME InMatchOrders, PublishStock(Matcher) PROVE VolumeInv' /\ MatchesInv'
  <2> DEFINE s      == target[Matcher]
             shares == SharesOf(trades[Matcher])
  <2>1. /\ stage[Matcher] = "publish"
        /\ volume' = [volume EXCEPT ![s] = volume[s] + shares]
        /\ trades' = [trades EXCEPT ![Matcher] = <<>>] /\ UNCHANGED executed
    BY <1>9 DEF PublishStock, AddVolume, totalVars
  <2>2. s \in Symbols
    BY <2>1, MatchingTarget DEF ExchangeInv, OrderBookInv
  <2>3. trades'[Matcher] = <<>> /\ SharesOf(trades'[Matcher]) = 0 /\ Len(trades'[Matcher]) = 0
    BY <1>1, <2>1, SharesOfNothing
  <2>4. matchesPerformed' = matchesPerformed + Len(trades[Matcher])
    BY <1>9, <2>1 DEF InMatchOrders, ExecuteTrade, AccountTrade, EndMatch, PublishHistory
  <2> HIDE DEF s
  <2>5. SumOf(volume') = SumOf(volume) + shares
    <3> DEFINE f == volume
               g == volume'
    <3>1. /\ f \in [Symbols -> Nat] /\ g \in [Symbols -> Nat] /\ f[s] \in Nat
          /\ g[s] = f[s] + shares /\ \A u \in Symbols : u # s => g[u] = f[u]
      BY <1>1, <1>2, <2>1, <2>2
    <3> HIDE DEF f, g, shares
    <3>2. SumOf(f) \in Nat /\ SumOf(g) = SumOf(f) - f[s] + g[s]
      BY <2>2, <3>1, SymbolsFinite, SumMoved
    <3>3. SumOf(g) = SumOf(f) + shares
      BY <1>2, <3>1, <3>2 DEF shares
    <3> QED BY <3>3 DEF f, g
  <2>6. VolumeInv'
    BY <1>2, <1>3, <2>1, <2>3, <2>5 DEF VolumeInv
  <2>7. MatchesInv'
    BY <1>1, <1>2, <2>1, <2>3, <2>4 DEF MatchesInv
  <2> QED BY <2>6, <2>7
<1> QED BY <1>5, <1>6, <1>7, <1>8, <1>9 DEF Next, MatcherStep, InMatchOrders, Terminated

\* Only the engine has trades to account.
LEMMA OneAccount ==
  ASSUME ExchangeInv, CallsInv
  PROVE  AllUnaccounted = Unaccounted(Matcher)
<1> USE MembersOfThreads
<1> DEFINE f == [t \in Threads |-> Unaccounted(t)]
           r == [t \in Threads \ {Matcher} |-> f[t]]
<1>1. f \in [Threads -> Nat] /\ IsFiniteSet(Threads) /\ IsFiniteSet(Threads \ {Matcher})
  BY LeftTyped, ThreadAssumption, FS_RemoveElement DEF ExchangeInv
<1>2. \A t \in Threads \ {Matcher} : f[t] = 0
  <2>1. \A t \in Threads \ {Matcher} : stage[t] # "account"
    BY ExchangeThreads DEF CallsInv
  <2> QED BY <2>1 DEF Unaccounted
<1>3. f[Matcher] = Unaccounted(Matcher) /\ f[Matcher] \in Nat /\ SumOf(f) = AllUnaccounted
  BY <1>1 DEF AllUnaccounted
<1> HIDE DEF f
<1>4. SumOf(f) = f[Matcher] + SumOf(r)
  BY <1>1, SumWithout
<1>5. SumOf(r) = 0
  <2>1. r \in [Threads \ {Matcher} -> Nat] /\ \A t \in Threads \ {Matcher} : r[t] = 0
    BY <1>1, <1>2
  <2> HIDE DEF r
  <2> QED BY <1>1, <2>1, SumOfZeros
<1> QED BY <1>3, <1>4, <1>5

ReportInv == CallsInv /\ CountInv /\ VolumeInv /\ MatchesInv /\ LedgerInv

LEMMA ReportInit == Init => ReportInv
<1> SUFFICES ASSUME Init PROVE ReportInv
  OBVIOUS
<1> USE MembersOfThreads
<1>1. LedgerInv
  BY LedgerInit DEF Init
<1>2. CallsInv
  BY DEF Init, OrderBookInit, CallsInv
<1>3. CountInv
  <2>1. Uncounted = {} /\ Len(placed) = 0
    BY DEF Init, OrderBookInit, Uncounted
  <2>2. SumOf(ordersPlaced) = 0
    BY SumOfZeros DEF Init
  <2> QED BY <2>1, <2>2, FS_EmptySet DEF CountInv
<1>4. trades[Matcher] = <<>> /\ executed = <<>> /\ matchesPerformed = 0
  BY DEF Init, OrderBookInit
<1>5. VolumeInv
  <2>1. SumOf(volume) = 0
    BY SumOfZeros, SymbolsFinite DEF Init, OrderBookInit
  <2> QED BY <1>4, <2>1, SharesOfNothing DEF VolumeInv
<1>6. MatchesInv
  BY <1>4 DEF MatchesInv
<1> QED BY <1>1, <1>2, <1>3, <1>5, <1>6 DEF ReportInv

LEMMA ReportStep ==
  ASSUME ExchangeInv, ReportInv, [Next]_vars
  PROVE  ReportInv'
<1>1. LedgerInv'
  BY BookStep, LedgerStep DEF ExchangeInv, ReportInv
<1> QED BY <1>1, CallsStep, CountStep, CarriedStep DEF ReportInv

LEMMA ReportInvariant == Spec => []ReportInv
<1>1. ExchangeInv /\ ReportInv /\ [Next]_vars => ReportInv'
  BY ReportStep
<1> QED BY <1>1, ReportInit, ExchangeInvariant, PTL DEF Spec

\* However shutdown came about, the final report agrees with the market, for
\* any number of traders, symbols and orders.
THEOREM ReportAgrees == Spec => []FinalReport
<1>1. ExchangeInv /\ ReportInv => FinalReport
  <2> SUFFICES ASSUME ExchangeInv, ReportInv, mainAt = "report"
               PROVE  /\ matchesPerformed = totalTrades /\ totalTrades = Len(executed)
                      /\ SumOf(volume) = totalVolume
                      /\ SumOf(ordersPlaced) = Len(placed)
    BY DEF FinalReport
  <2> USE MembersOfThreads DEF ReportInv
  <2>1. stage[Matcher] = "idle" /\ \A t \in Traders : traderAt[t] = "done"
    BY DEF CallsInv
  <2>2. trades[Matcher] = <<>>
    BY <2>1, IdleCarriesNothing DEF ExchangeInv
  <2>3. totalTrades = Len(executed) /\ totalVolume + AllUnaccounted = SharesOf(executed)
    BY DEF LedgerInv, LedgerBalances, AllUnaccounted
  <2>4. AllUnaccounted = 0
    BY <2>1, OneAccount DEF Unaccounted
  <2>5. /\ totalVolume \in Nat /\ matchesPerformed \in Nat /\ volume \in [Symbols -> Nat]
    BY DEF ExchangeInv, OrderBookInv, TypeOK, ThreadTypes
  <2>6. SumOf(volume) \in Nat
    BY <2>5, SymbolsFinite, SumWithout
  <2>7. matchesPerformed = Len(executed)
    BY <2>2, <2>5 DEF MatchesInv
  <2>8. SumOf(volume) = totalVolume
    BY <2>2, <2>3, <2>4, <2>5, <2>6, SharesOfNothing DEF VolumeInv
  <2>9. SumOf(ordersPlaced) = Len(placed)
    <3>1. Uncounted = {}
      BY <2>1 DEF Uncounted
    <3> QED BY <3>1, CountTyped, FS_EmptySet DEF CountInv
  <2> QED BY <2>3, <2>7, <2>8, <2>9
<1> QED BY <1>1, ReportInvariant, ExchangeInvariant, PTL

=============================================================================
