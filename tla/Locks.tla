-------------------------------- MODULE Locks --------------------------------
(***************************************************************************)
(* The mutexes of the backend and the trading room, at the level of single *)
(* lock and unlock operations.  Modules OrderBook and Exchange make each   *)
(* critical section one step and leave out the logger, whose mutex         *)
(* matchSymbol takes inside a book's; that threads so written never wait   *)
(* for each other in a circle is what this module is about.                *)
(*                                                                         *)
(* A thread is in one of the calls of OrderBook and Logger, or in the body *)
(* of a trader's loop; what it has still to do is the sequence of the lock *)
(* operations that the code performs.  The threads are those of main.cpp   *)
(* or of test_cases.cpp: any of them may make any call at any time.        *)
(***************************************************************************)
EXTENDS Integers, FiniteSets, Sequences, SequencesExt

CONSTANTS Threads,
          Unlocked,           \* no thread
          Symbols,
          MapOrder,           \* the order of std::map m_books
          MAX_ROOM_CAPACITY

ASSUME LocksConstants ==
  /\ Unlocked \notin Threads /\ IsFiniteSet(Threads)
  /\ MapOrder \in Seq(Symbols)
  /\ MAX_ROOM_CAPACITY \in Nat \ {0}

\* The mutexes that are not a book's; a book's is named for its symbol.
OtherMutexes == {"m_stockMutex", "m_historyMutex", "newOrderMutex", "m_mutex"}

ASSUME SymbolNames == Symbols \cap OtherMutexes = {}

Mutexes == Symbols \cup OtherMutexes

VARIABLES owner,   \* per mutex, the thread that holds it
          inside,  \* the threads that hold a slot of the trading room
          todo     \* per thread, the rest of its call

lockVars == <<owner, inside, todo>>

LocksInit ==
  /\ owner = [m \in Mutexes |-> Unlocked]
  /\ inside = {}
  /\ todo = [t \in Threads |-> <<>>]

-----------------------------------------------------------------------------
(***************************************************************************)
(* The calls.                                                              *)
(***************************************************************************)
Op(name, on) == [op |-> name, on |-> on, book |-> 0]

\* getOrderDepth has come to this book of MapOrder.
Depth(i) == [op |-> "depth", on |-> "books", book |-> i]

Section(mutex) == <<Op("lock", mutex), Op("unlock", mutex)>>

LogSystem == Section("m_mutex")

BothFiles_LogTrade == <<Op("lock", "m_mutex")>> \o LogSystem \o <<Op("unlock", "m_mutex")>>

LogTrade == Section("m_mutex")

SubmitOrder(s, type) ==
  (IF type = "MARKET" THEN Section("m_stockMutex") ELSE <<>>)
    \o Section(s) \o Section("newOrderMutex") \o LogSystem

\* A trade is logged with its book locked; whether another one follows is for
\* "match" to say.  If there was one, the history and the stock are updated.
MatchOrders(s, traded) ==
  IF traded
    THEN <<Op("lock", s)>> \o LogTrade \o <<Op("match", s), Op("unlock", s)>>
           \o Section("m_historyMutex") \o Section("m_stockMutex")
    ELSE Section(s)

UpdatePrice == Section("m_stockMutex")

GetStockSnapshot == Section("m_stockMutex")

GetRecentTrades == Section("m_historyMutex")

GetOrderDepth == <<Depth(1)>>

\* The engine's wait for orders, and main's wakeup.
AwaitOrders ==
  <<Op("lock", "newOrderMutex"), Op("wait", "newOrderMutex"), Op("unlock", "newOrderMutex")>>
WakeUpEngine == Section("newOrderMutex")

\* The body of a trader's loop: generateRandomOrder and submitOrder in the room.
TraderTurn(s, type) ==
  <<Op("enter", "room")>> \o GetStockSnapshot \o SubmitOrder(s, type) \o <<Op("leave", "room")>>

Calls ==
  {LogSystem, UpdatePrice, GetStockSnapshot, GetRecentTrades, GetOrderDepth,
   AwaitOrders, WakeUpEngine}
  \cup {SubmitOrder(s, type) : s \in Symbols, type \in {"MARKET", "LIMIT"}}
  \cup {TraderTurn(s, type) : s \in Symbols, type \in {"MARKET", "LIMIT"}}
  \cup {MatchOrders(s, traded) : s \in Symbols, traded \in BOOLEAN}

-----------------------------------------------------------------------------
(***************************************************************************)
(* The operations.                                                         *)
(***************************************************************************)
BeginCall(t) ==
  /\ todo[t] = <<>>
  /\ \E call \in Calls : todo' = [todo EXCEPT ![t] = call]
  /\ UNCHANGED <<owner, inside>>

\* t is at this operation.
At(t, name) == todo[t] # <<>> /\ Head(todo[t]).op = name

Advance(t) == todo' = [todo EXCEPT ![t] = Tail(@)]

\* The mutexes have the default type: to lock one twice is to wait for oneself.
LockMutex(t) ==
  /\ At(t, "lock")
  /\ owner[Head(todo[t]).on] = Unlocked
  /\ owner' = [owner EXCEPT ![Head(todo[t]).on] = t]
  /\ Advance(t)
  /\ UNCHANGED inside

UnlockMutex(t) ==
  /\ At(t, "unlock")
  /\ owner' = [owner EXCEPT ![Head(todo[t]).on] = Unlocked]
  /\ Advance(t)
  /\ UNCHANGED inside

\* The predicate holds, and the loop ends; or pthread_cond_wait releases the
\* mutex, and takes it again when the thread is woken, by a signal or by nothing.
\* (That the signal comes is a property of Exchange.)
WaitForOrders(t) ==
  /\ At(t, "wait")
  /\ \/ Advance(t) /\ UNCHANGED owner
     \/ /\ owner' = [owner EXCEPT !["newOrderMutex"] = Unlocked]
        /\ todo' = [todo EXCEPT ![t] = <<Op("lock", "newOrderMutex")>> \o @]
  /\ UNCHANGED inside

\* matchSymbol: another trade and its line in the log, or the end of the loop.
NextTrade(t) ==
  /\ At(t, "match")
  /\ \/ todo' = [todo EXCEPT ![t] = LogTrade \o @]
     \/ Advance(t)
  /\ UNCHANGED <<owner, inside>>

Frozen_NextBook(t) ==
  /\ At(t, "depth")
  /\ LET i == Head(todo[t]).book
     IN  IF i > Len(MapOrder) THEN Advance(t)
         ELSE todo' = [todo EXCEPT ![t] =
                <<Op("lock", MapOrder[i]), Depth(i + 1), Op("unlock", MapOrder[i])>>
                  \o Tail(@)]
  /\ UNCHANGED <<owner, inside>>

\* getOrderDepth: one book after the other.
NextBook(t) ==
  /\ At(t, "depth")
  /\ LET i == Head(todo[t]).book
     IN  IF i > Len(MapOrder) THEN Advance(t)
         ELSE todo' = [todo EXCEPT ![t] =
                Section(MapOrder[i]) \o <<Depth(i + 1)>> \o Tail(@)]
  /\ UNCHANGED <<owner, inside>>

EnterRoom(t) ==
  /\ At(t, "enter")
  /\ Cardinality(inside) < MAX_ROOM_CAPACITY
  /\ inside' = inside \cup {t}
  /\ Advance(t)
  /\ UNCHANGED owner

LeaveRoom(t) ==
  /\ At(t, "leave")
  /\ inside' = inside \ {t}
  /\ Advance(t)
  /\ UNCHANGED owner

LocksNext ==
  \E t \in Threads : \/ BeginCall(t) \/ LockMutex(t) \/ UnlockMutex(t)
                     \/ WaitForOrders(t) \/ NextTrade(t) \/ NextBook(t)
                     \/ EnterRoom(t) \/ LeaveRoom(t)

LocksSpec == LocksInit /\ [][LocksNext]_lockVars

-----------------------------------------------------------------------------
(***************************************************************************)
(* Properties.                                                             *)
(***************************************************************************)
\* t can go on only if a thread of S goes on before.
WaitsFor(t, S) ==
  \/ At(t, "lock") /\ owner[Head(todo[t]).on] \in S
  \/ At(t, "enter") /\ Cardinality(inside) = MAX_ROOM_CAPACITY /\ inside \subseteq S

\* No threads wait for each other only, be it one that waits for itself, for
\* mutexes or for a slot of the room whose holders wait for mutexes.  (Locks are
\* nested in one place only: matchSymbol logs a trade with its book locked.)
NoCircularWait ==
  \A S \in (SUBSET Threads) \ {{}} : \E t \in S : ~WaitsFor(t, S)

\* "Lock ordering is always: per-stock-mutex -> (never holds two stock mutexes)"
\* (main.cpp): whoever asks for a mutex while it holds another has one book
\* locked, and asks for the logger's.
LockOrder ==
  \A t \in Threads : At(t, "lock") =>
    LET held == {m \in Mutexes : owner[m] = t}
    IN  held # {} => /\ Cardinality(held) = 1 /\ held \subseteq Symbols
                     /\ Head(todo[t]).on = "m_mutex"

=============================================================================
