---------------------------- MODULE LocksProofs -----------------------------
(***************************************************************************)
(* Proofs about Locks, for any number of threads, symbols, slots and       *)
(* trades: no threads ever wait for each other in a circle.  The inductive *)
(* invariant says that what a thread has left to do determines which       *)
(* mutexes it holds, and that it is nested in the one way the code nests.  *)
(***************************************************************************)
EXTENDS Locks, FiniteSetTheorems, TLAPS

Ops == [op : {"lock", "unlock", "wait", "match", "depth", "enter", "leave"},
        on : Mutexes \cup {"room", "books"}, book : Nat]

\* Behind position j - 1 of a script no mutex is held.
TopLevel(q, j) ==
  \/ j > Len(q)
  \/ /\ q[j].op \in {"lock", "leave", "depth"}
     /\ q[j].op = "lock" /\ q[j].on = "m_mutex" /\ j + 2 <= Len(q) =>
          q[j + 2].op # "match"

\* What may follow the operation at position i of a script.
LockOK(q, i) ==
  /\ q[i].on \in Mutexes /\ i < Len(q)
  /\ \/ q[i + 1] = Op("unlock", q[i].on)
     \/ /\ q[i].on \in Symbols /\ i + 3 <= Len(q)
        /\ q[i + 1] = Op("lock", "m_mutex") /\ q[i + 3] = Op("match", q[i].on)
     \/ q[i].on = "newOrderMutex" /\ q[i + 1].op = "wait"

UnlockOK(q, i) ==
  /\ q[i].on \in Mutexes
  /\ \/ TopLevel(q, i + 1)
     \/ q[i].on = "m_mutex" /\ i < Len(q) /\ q[i + 1].op = "match"

MatchOK(q, i) ==
  q[i].on \in Symbols /\ i < Len(q) /\ q[i + 1] = Op("unlock", q[i].on)

WaitOK(q, i) == i < Len(q) /\ q[i + 1] = Op("unlock", "newOrderMutex")

Leaves(q) == \E i \in 1 .. Len(q) : q[i].op = "leave"
Enters(q) == \E i \in 1 .. Len(q) : q[i].op = "enter"

OpOK(q, i) ==
  /\ q[i].op = "lock"   => LockOK(q, i)
  /\ q[i].op = "unlock" => UnlockOK(q, i)
  /\ q[i].op = "match"  => MatchOK(q, i)
  /\ q[i].op = "wait"   => WaitOK(q, i)
  /\ q[i].op = "depth"  => q[i].book > 0 /\ TopLevel(q, i + 1)
  /\ q[i].op = "enter"  => i = 1 /\ TopLevel(q, i + 1)
  /\ q[i].op = "leave"  => TopLevel(q, i + 1)

Disciplined(q) == \A i \in 1 .. Len(q) : OpOK(q, i)

\* The mutexes a thread holds that has this script left.
HeldAt(q) ==
  IF q = <<>> THEN {}
  ELSE IF q[1].op = "lock" THEN
    IF q[1].on = "m_mutex" /\ 3 <= Len(q) /\ q[3].op = "match" THEN {q[3].on} ELSE {}
  ELSE IF q[1].op = "unlock" THEN
    IF q[1].on = "m_mutex" /\ 2 <= Len(q) /\ q[2].op = "match" THEN {"m_mutex", q[2].on}
    ELSE {q[1].on}
  ELSE IF q[1].op = "match" THEN {q[1].on}
  ELSE IF q[1].op = "wait" THEN {"newOrderMutex"}
  ELSE {}

HeldBy(t) == {m \in Mutexes : owner[m] = t}

LocksTypes ==
  /\ owner \in [Mutexes -> Threads \cup {Unlocked}]
  /\ inside \in SUBSET Threads
  /\ todo \in [Threads -> Seq(Ops)]

LocksInv ==
  /\ LocksTypes
  /\ \A t \in Threads : Disciplined(todo[t])
  /\ \A t \in Threads : HeldBy(t) = HeldAt(todo[t])
  /\ \A t \in Threads : Enters(todo[t]) => Leaves(todo[t])
  /\ \A t \in inside : Leaves(todo[t]) /\ ~Enters(todo[t])

-----------------------------------------------------------------------------
(***************************************************************************)
(* Scripts.                                                                *)
(***************************************************************************)
\* A script behind another is as disciplined as it was, but for entering the
\* room; k is the length of the other, -1 if the script loses its first operation.
LEMMA Shifted ==
  ASSUME NEW q \in Seq(Ops), NEW r \in Seq(Ops), NEW k \in Int, k >= -1,
         Len(r) = Len(q) + k,
         \A i \in 1 .. Len(q) : i + k >= 1 => r[i + k] = q[i],
         NEW i \in 1 .. Len(q), i + k >= 1,
         OpOK(q, i), q[i].op # "enter"
  PROVE  OpOK(r, i + k)
<1>1. Len(q) \in Nat /\ Len(r) \in Nat /\ i + k \in 1 .. Len(r) /\ r[i + k] = q[i]
  OBVIOUS
<1>2. ASSUME NEW j \in 1 .. 3, i + j <= Len(q)
      PROVE  i + j + k \in 1 .. Len(r) /\ r[(i + k) + j] = q[i + j]
  <2>1. i + j \in 1 .. Len(q) /\ (i + j) + k >= 1 /\ (i + j) + k = (i + k) + j
    BY <1>1, <1>2
  <2> DEFINE m == i + j
  <2>2. m \in 1 .. Len(q) /\ m + k >= 1 /\ m + k = (i + k) + j /\ m + k = i + j + k
    BY <2>1
  <2> HIDE DEF m
  <2>3. r[m + k] = q[m]
    BY <2>2
  <2>4. m + k \in 1 .. Len(r)
    BY <1>1, <2>2
  <2> QED
    BY <2>2, <2>3, <2>4 DEF m
<1>3. TopLevel(q, i + 1) => TopLevel(r, (i + k) + 1)
  <2>1. CASE i + 1 > Len(q)
    BY <1>1, <2>1 DEF TopLevel
  <2>2. CASE i + 1 <= Len(q)
    <3>1. r[(i + k) + 1] = q[i + 1]
      BY <1>2, <2>2
    <3>2. i + 3 <= Len(q) => r[(i + k) + 3] = q[i + 3]
      BY <1>2
    <3>3. ((i + k) + 1) + 2 = (i + k) + 3 /\ (i + 1) + 2 = i + 3
      BY <1>1
    <3> QED
      BY <1>1, <2>2, <3>1, <3>2, <3>3 DEF TopLevel
  <2> QED
    BY <1>1, <2>1, <2>2
<1>4. q[i].op = "lock" => LockOK(r, i + k)
  <2> SUFFICES ASSUME q[i].op = "lock" PROVE LockOK(r, i + k)
    OBVIOUS
  <2>1. LockOK(q, i)
    BY DEF OpOK
  <2>2. i + 1 <= Len(q) /\ r[(i + k) + 1] = q[i + 1]
    BY <1>1, <1>2, <2>1 DEF LockOK
  <2>3. i + 3 <= Len(q) => r[(i + k) + 3] = q[i + 3]
    BY <1>2
  <2>4. CASE q[i + 1] = Op("unlock", q[i].on)
    BY <1>1, <2>1, <2>2, <2>4 DEF LockOK
  <2>5. CASE /\ q[i].on \in Symbols /\ i + 3 <= Len(q)
             /\ q[i + 1] = Op("lock", "m_mutex") /\ q[i + 3] = Op("match", q[i].on)
    <3>1. (i + k) + 3 <= Len(r)
      BY <1>1, <2>5
    <3> QED
      BY <1>1, <2>1, <2>2, <2>3, <2>5, <3>1 DEF LockOK
  <2>6. CASE q[i].on = "newOrderMutex" /\ q[i + 1].op = "wait"
    BY <1>1, <2>1, <2>2, <2>6 DEF LockOK
  <2> QED
    BY <2>1, <2>4, <2>5, <2>6 DEF LockOK
<1>5. q[i].op = "unlock" => UnlockOK(r, i + k)
  <2> SUFFICES ASSUME q[i].op = "unlock" PROVE UnlockOK(r, i + k)
    OBVIOUS
  <2>1. UnlockOK(q, i)
    BY DEF OpOK
  <2>2. i + 1 <= Len(q) => r[(i + k) + 1] = q[i + 1]
    BY <1>2
  <2>3. CASE TopLevel(q, i + 1)
    BY <1>1, <1>3, <2>1, <2>3 DEF UnlockOK
  <2>4. CASE q[i].on = "m_mutex" /\ i < Len(q) /\ q[i + 1].op = "match"
    <3>1. i + k < Len(r) /\ r[(i + k) + 1] = q[i + 1]
      BY <1>1, <2>2, <2>4
    <3> QED
      BY <1>1, <2>1, <2>4, <3>1 DEF UnlockOK
  <2> QED
    BY <2>1, <2>3, <2>4 DEF UnlockOK
<1>6. /\ q[i].op = "match" => MatchOK(r, i + k)
      /\ q[i].op = "wait"  => WaitOK(r, i + k)
  <2>1. i + 1 <= Len(q) => r[(i + k) + 1] = q[i + 1]
    BY <1>2
  <2> QED
    BY <1>1, <2>1 DEF OpOK, MatchOK, WaitOK
<1> QED
  BY <1>1, <1>3, <1>4, <1>5, <1>6 DEF OpOK

\* What is left of a disciplined script once its first operation is done is
\* disciplined.
LEMMA TailDisciplined ==
  ASSUME NEW q \in Seq(Ops), q # <<>>, Disciplined(q)
  PROVE  /\ Tail(q) \in Seq(Ops) /\ Disciplined(Tail(q))
         /\ Len(Tail(q)) = Len(q) - 1
         /\ \A i \in 1 .. Len(q) - 1 : Tail(q)[i] = q[i + 1]
<1> DEFINE r == Tail(q)
<1>1. /\ r \in Seq(Ops) /\ Len(r) = Len(q) - 1 /\ Len(q) \in Nat
      /\ \A i \in 1 .. Len(r) : r[i] = q[i + 1]
  OBVIOUS
<1> HIDE DEF r
<1>2. ASSUME NEW i \in 1 .. Len(r)
      PROVE  OpOK(r, i)
  <2>1. i + 1 \in 1 .. Len(q) /\ (i + 1) + (-1) = i
    BY <1>1
  <2>2. OpOK(q, i + 1) /\ q[i + 1].op # "enter"
    BY <1>1, <2>1 DEF Disciplined, OpOK
  <2>3. \A j \in 1 .. Len(q) : j + (-1) >= 1 => r[j + (-1)] = q[j]
    BY <1>1
  <2>4. Len(r) = Len(q) + (-1)
    BY <1>1
  <2>5. OpOK(r, (i + 1) + (-1))
    BY <1>1, <2>1, <2>2, <2>3, <2>4, Shifted
  <2> QED
    BY <2>1, <2>5
<1> QED
  BY <1>1, <1>2 DEF Disciplined, r

\* At top level no mutex is held.
LEMMA HeldAtTopLevel ==
  ASSUME NEW q \in Seq(Ops), TopLevel(q, 1)
  PROVE  HeldAt(q) = {}
<1>1. Len(q) \in Nat /\ (q # <<>> => Len(q) > 0)
  OBVIOUS
<1> QED
  BY <1>1 DEF TopLevel, HeldAt

\* Locking adds the mutex, unlocking takes it away, and the other operations
\* that end change nothing.
LEMMA HeldAfter ==
  ASSUME NEW q \in Seq(Ops), q # <<>>, Disciplined(q)
  PROVE  /\ q[1].op = "lock" => HeldAt(Tail(q)) = HeldAt(q) \cup {q[1].on}
         /\ q[1].op = "unlock" =>
              /\ q[1].on \in HeldAt(q)
              /\ HeldAt(Tail(q)) = HeldAt(q) \ {q[1].on}
         /\ q[1].op \notin {"lock", "unlock"} => HeldAt(Tail(q)) = HeldAt(q)
<1> DEFINE r == Tail(q)
<1>1. /\ r \in Seq(Ops) /\ Len(r) = Len(q) - 1 /\ Len(q) \in Nat \ {0}
      /\ \A i \in 1 .. Len(q) - 1 : r[i] = q[i + 1]
      /\ r = <<>> <=> Len(q) = 1
      /\ q[1] \in Ops
  <2>1. Len(q) \in Nat \ {0} /\ q[1] \in Ops
    OBVIOUS
  <2>2. /\ r \in Seq(Ops) /\ Len(r) = Len(q) - 1
        /\ \A i \in 1 .. Len(q) - 1 : r[i] = q[i + 1]
    BY TailDisciplined
  <2>3. r = <<>> <=> Len(r) = 0
    BY <2>2
  <2> QED
    BY <2>1, <2>2, <2>3
<1> HIDE DEF r
<1>2. TopLevel(q, 2) => HeldAt(r) = {}
  <2>1. TopLevel(q, 2) => TopLevel(r, 1)
    BY <1>1 DEF TopLevel
  <2> QED
    BY <2>1, <1>1, HeldAtTopLevel
<1>3. CASE q[1].op = "lock"
  <2>1. LockOK(q, 1)
    BY <1>1, <1>3 DEF Disciplined, OpOK
  <2>2. CASE q[2] = Op("unlock", q[1].on)
    <3>1. r # <<>> /\ r[1].op = "unlock" /\ r[1].on = q[1].on
      BY <2>1, <2>2, <1>1 DEF LockOK, Op
    <3>2. 2 <= Len(r) => r[2] = q[3]
      BY <1>1
    <3> QED
      BY <1>1, <1>3, <3>1, <3>2 DEF HeldAt
  <2>3. CASE /\ q[1].on \in Symbols /\ 4 <= Len(q)
             /\ q[2] = Op("lock", "m_mutex") /\ q[4] = Op("match", q[1].on)
    <3>1. q[1].on # "m_mutex"
      BY <2>3, SymbolNames DEF OtherMutexes
    <3> QED
      BY <2>3, <3>1, <1>1, <1>3 DEF HeldAt, Op
  <2>4. CASE q[1].on = "newOrderMutex" /\ q[2].op = "wait"
    <3>1. r # <<>> /\ r[1].op = "wait"
      BY <2>1, <2>4, <1>1 DEF LockOK
    <3>2. HeldAt(r) = {"newOrderMutex"}
      BY <3>1 DEF HeldAt
    <3>3. HeldAt(q) = {}
      BY <2>4, <1>3 DEF HeldAt
    <3> QED
      BY <1>3, <2>4, <3>2, <3>3 DEF r
  <2> QED
    BY <2>1, <2>2, <2>3, <2>4, <1>3 DEF LockOK, r
<1>4. CASE q[1].op = "unlock"
  <2>1. UnlockOK(q, 1)
    BY <1>1, <1>4 DEF Disciplined, OpOK
  <2>2. CASE q[1].on = "m_mutex" /\ 2 <= Len(q) /\ q[2].op = "match"
    <3>1. MatchOK(q, 2)
      BY <1>1, <2>2 DEF Disciplined, OpOK
    <3>2. q[2].on # "m_mutex"
      BY <3>1, SymbolNames DEF MatchOK, OtherMutexes
    <3> QED
      BY <2>2, <3>2, <1>1, <1>4 DEF HeldAt, r
  <2>3. CASE ~(q[1].on = "m_mutex" /\ 2 <= Len(q) /\ q[2].op = "match")
    <3>1. TopLevel(q, 2)
      BY <2>1, <2>3, <1>1 DEF UnlockOK
    <3>2. HeldAt(q) = {q[1].on}
      BY <2>3, <1>1, <1>4 DEF HeldAt
    <3> QED
      BY <3>1, <3>2, <1>2, <1>4 DEF r
  <2> QED
    BY <2>2, <2>3
<1>5. CASE q[1].op = "match"
  <2>1. MatchOK(q, 1)
    BY <1>1, <1>5 DEF Disciplined, OpOK
  <2>2. q[1].on # "m_mutex"
    BY <2>1, SymbolNames DEF MatchOK, OtherMutexes
  <2> QED
    BY <2>1, <2>2, <1>1, <1>5 DEF HeldAt, MatchOK, Op, r
<1>6. CASE q[1].op = "wait"
  <2>1. WaitOK(q, 1)
    BY <1>1, <1>6 DEF Disciplined, OpOK
  <2> QED
    BY <2>1, <1>1, <1>6 DEF HeldAt, WaitOK, Op, r
<1>7. CASE q[1].op \in {"depth", "enter", "leave"}
  <2>1. TopLevel(q, 2)
    BY <1>1, <1>7 DEF Disciplined, OpOK
  <2> QED
    BY <2>1, <1>1, <1>2, <1>7 DEF HeldAt, r
<1> QED
  BY <1>1, <1>3, <1>4, <1>5, <1>6, <1>7 DEF Ops

\* Operations put before a disciplined script that does not enter the room.
LEMMA Prepended ==
  ASSUME NEW p \in Seq(Ops), NEW q \in Seq(Ops), Disciplined(q), ~Enters(q),
         \A i \in 1 .. Len(p) : OpOK(p \o q, i) /\ p[i].op # "enter"
  PROVE  /\ p \o q \in Seq(Ops) /\ Disciplined(p \o q) /\ ~Enters(p \o q)
         /\ Leaves(q) => Leaves(p \o q)
<1> DEFINE r == p \o q
<1>1. /\ r \in Seq(Ops) /\ Len(r) = Len(q) + Len(p) /\ Len(p) \in Nat /\ Len(q) \in Nat
      /\ \A i \in 1 .. Len(p) : r[i] = p[i]
      /\ \A i \in 1 .. Len(q) : r[i + Len(p)] = q[i]
  OBVIOUS
<1>2. \A i \in 1 .. Len(p) : OpOK(r, i) /\ p[i].op # "enter"
  OBVIOUS
<1> HIDE DEF r
<1>3. ASSUME NEW i \in 1 .. Len(r), i > Len(p)
      PROVE  OpOK(r, i) /\ r[i].op # "enter"
  <2>1. PICK j \in 1 .. Len(q) : j + Len(p) = i
    <3>1. i - Len(p) \in 1 .. Len(q) /\ (i - Len(p)) + Len(p) = i
      BY <1>1, <1>3
    <3> QED
      BY <3>1
  <2>2. OpOK(q, j) /\ q[j].op # "enter"
    BY DEF Disciplined, Enters
  <2>3. /\ Len(p) \in Int /\ Len(p) >= -1 /\ j + Len(p) >= 1
        /\ Len(r) = Len(q) + Len(p)
        /\ \A h \in 1 .. Len(q) : h + Len(p) >= 1 => r[h + Len(p)] = q[h]
    BY <1>1
  <2>4. OpOK(r, j + Len(p))
    BY <1>1, <2>2, <2>3, Shifted
  <2> QED
    BY <1>1, <2>1, <2>2, <2>4
<1>4. Disciplined(r) /\ ~Enters(r)
  <2>1. ASSUME NEW i \in 1 .. Len(r)
        PROVE  OpOK(r, i) /\ r[i].op # "enter"
    <3>1. CASE i > Len(p)
      BY <1>3, <3>1
    <3>2. CASE i <= Len(p)
      BY <1>1, <1>2, <3>2
    <3> QED
      BY <1>1, <3>1, <3>2
  <2> QED
    BY <2>1 DEF Disciplined, Enters
<1>5. Leaves(q) => Leaves(r)
  <2> SUFFICES ASSUME NEW i \in 1 .. Len(q), q[i].op = "leave"
               PROVE  Leaves(r)
    BY DEF Leaves
  <2>1. i + Len(p) \in 1 .. Len(r) /\ r[i + Len(p)].op = "leave"
    BY <1>1
  <2> QED
    BY <2>1 DEF Leaves
<1> QED
  BY <1>1, <1>4, <1>5 DEF r

\* A call behind another, which may begin with entering the room.
LEMMA Concatenated ==
  ASSUME NEW p \in Seq(Ops), NEW q \in Seq(Ops), Disciplined(p), Disciplined(q),
         TopLevel(q, 1), ~Enters(q)
  PROVE  /\ p \o q \in Seq(Ops) /\ Disciplined(p \o q)
         /\ TopLevel(p, 1) => TopLevel(p \o q, 1)
         /\ ~Enters(p) => ~Enters(p \o q)
<1> DEFINE r == p \o q
<1>1. /\ r \in Seq(Ops) /\ Len(r) = Len(p) + Len(q) /\ Len(p) \in Nat /\ Len(q) \in Nat
      /\ \A i \in 1 .. Len(p) : r[i] = p[i]
      /\ \A i \in 1 .. Len(q) : r[i + Len(p)] = q[i]
  OBVIOUS
<1> HIDE DEF r
<1>2. ASSUME NEW i \in 1 .. Len(q)
      PROVE  OpOK(r, i + Len(p)) /\ r[i + Len(p)].op # "enter"
  <2>1. /\ Len(p) \in Int /\ Len(p) >= -1 /\ i + Len(p) >= 1
        /\ Len(r) = Len(q) + Len(p)
        /\ \A h \in 1 .. Len(q) : h + Len(p) >= 1 => r[h + Len(p)] = q[h]
    BY <1>1
  <2>2. OpOK(q, i) /\ q[i].op # "enter"
    BY DEF Disciplined, Enters
  <2> QED
    BY <1>1, <2>1, <2>2, Shifted
<1>3. TopLevel(r, Len(p) + 1)
  BY <1>1 DEF TopLevel
<1>4. ASSUME NEW j \in 1 .. Len(p) + 1, TopLevel(p, j),
             j <= Len(p) => OpOK(p, j)
      PROVE  TopLevel(r, j)
  <2>1. CASE j = Len(p) + 1
    BY <1>3, <2>1
  <2>2. CASE j <= Len(p) /\ j + 2 <= Len(p)
    <3>1. r[j] = p[j] /\ r[j + 2] = p[j + 2]
      BY <1>1, <2>2
    <3> QED
      BY <1>1, <1>4, <2>2, <3>1 DEF TopLevel
  <2>3. CASE j <= Len(p) /\ j + 2 > Len(p)
    <3>1. r[j] = p[j]
      BY <1>1, <2>3
    <3>2. CASE p[j].op = "lock"
      <4>1. LockOK(p, j)
        BY <1>4, <2>3, <3>2 DEF OpOK
      <4>2. j + 2 = Len(p) + 1
        BY <1>1, <2>3, <4>1 DEF LockOK
      <4>3. j + 2 <= Len(r) => r[j + 2].op # "match"
        BY <1>1, <1>3, <4>2 DEF TopLevel
      <4> QED
        BY <1>4, <2>3, <3>1, <3>2, <4>3 DEF TopLevel
    <3>3. CASE p[j].op # "lock"
      BY <1>1, <1>4, <2>3, <3>1, <3>3 DEF TopLevel
    <3> QED
      BY <3>2, <3>3
  <2> QED
    BY <1>1, <2>1, <2>2, <2>3
<1>5. ASSUME NEW i \in 1 .. Len(p)
      PROVE  OpOK(r, i)
  <2>1. OpOK(p, i) /\ r[i] = p[i]
    BY <1>1 DEF Disciplined
  <2>2. i + 1 \in 1 .. Len(p) + 1 /\ (i + 1 <= Len(p) => OpOK(p, i + 1))
    BY <1>1 DEF Disciplined
  <2>3. TopLevel(p, i + 1) => TopLevel(r, i + 1)
    BY <1>4, <2>2
  <2>4. \A j \in 1 .. 3 : i + j <= Len(p) => i + j <= Len(r) /\ r[i + j] = p[i + j]
    BY <1>1
  <2>5. i <= Len(r)
    BY <1>1
  <2>6. p[i].op = "lock" => LockOK(r, i)
    <3> SUFFICES ASSUME p[i].op = "lock" PROVE LockOK(r, i)
      OBVIOUS
    <3>1. LockOK(p, i)
      BY <2>1 DEF OpOK
    <3>2. i + 1 <= Len(p) /\ i + 1 <= Len(r) /\ r[i + 1] = p[i + 1]
      BY <1>1, <2>4, <3>1 DEF LockOK
    <3>3. i + 3 <= Len(p) => i + 3 <= Len(r) /\ r[i + 3] = p[i + 3]
      BY <2>4
    <3> QED
      BY <1>1, <2>1, <3>1, <3>2, <3>3 DEF LockOK
  <2>7. p[i].op = "unlock" => UnlockOK(r, i)
    <3> SUFFICES ASSUME p[i].op = "unlock" PROVE UnlockOK(r, i)
      OBVIOUS
    <3>1. UnlockOK(p, i)
      BY <2>1 DEF OpOK
    <3>2. i + 1 <= Len(p) => i + 1 <= Len(r) /\ r[i + 1] = p[i + 1]
      BY <2>4
    <3> QED
      BY <1>1, <2>1, <2>3, <3>1, <3>2 DEF UnlockOK
  <2>8. /\ p[i].op = "match" => MatchOK(r, i)
        /\ p[i].op = "wait"  => WaitOK(r, i)
    <3>1. i + 1 <= Len(p) => i + 1 <= Len(r) /\ r[i + 1] = p[i + 1]
      BY <2>4
    <3> QED
      BY <1>1, <2>1, <3>1 DEF OpOK, MatchOK, WaitOK
  <2> QED
    BY <2>1, <2>3, <2>6, <2>7, <2>8 DEF OpOK
<1>6. ASSUME NEW i \in 1 .. Len(r)
      PROVE  OpOK(r, i) /\ (r[i].op = "enter" => i <= Len(p))
  <2>1. CASE i <= Len(p)
    BY <1>1, <1>5, <2>1
  <2>2. CASE i > Len(p)
    <3>1. i - Len(p) \in 1 .. Len(q) /\ (i - Len(p)) + Len(p) = i
      BY <1>1, <2>2
    <3> QED
      BY <1>2, <3>1
  <2> QED
    BY <1>1, <2>1, <2>2
<1>7. Disciplined(r)
  BY <1>6 DEF Disciplined
<1>8. TopLevel(p, 1) => TopLevel(r, 1)
  <2>1. 1 \in 1 .. Len(p) + 1 /\ (1 <= Len(p) => OpOK(p, 1))
    BY <1>1 DEF Disciplined
  <2> QED
    BY <1>4, <2>1
<1>9. ~Enters(p) => ~Enters(r)
  BY <1>1, <1>6 DEF Enters
<1> QED
  BY <1>1, <1>7, <1>8, <1>9 DEF r

LEMMA JoinedOps ==
  ASSUME NEW p \in Seq(Ops), NEW q \in Seq(Ops)
  PROVE  /\ Len(p \o q) = Len(p) + Len(q) /\ Len(p) \in Nat /\ Len(q) \in Nat
         /\ \A i \in 1 .. Len(p) : (p \o q)[i] = p[i]
         /\ \A i \in 1 .. Len(q) : (p \o q)[i + Len(p)] = q[i]
OBVIOUS

\* A call that leaves no mutex locked and does not enter the room.
Whole(q) == q \in Seq(Ops) /\ Disciplined(q) /\ TopLevel(q, 1) /\ ~Enters(q)

LEMMA WholesJoin ==
  ASSUME NEW p, NEW q, Whole(p), Whole(q)
  PROVE  Whole(p \o q)
BY Concatenated DEF Whole

LEMMA SectionWhole ==
  ASSUME NEW m \in Mutexes
  PROVE  Whole(Section(m))
<1> DEFINE q == Section(m)
<1>1. q \in Seq(Ops) /\ Len(q) = 2 /\ q[1] = Op("lock", m) /\ q[2] = Op("unlock", m)
  BY DEF Section, Op, Ops
<1> HIDE DEF q
<1>2. OpOK(q, 1) /\ OpOK(q, 2)
  BY <1>1 DEF OpOK, LockOK, UnlockOK, TopLevel, Op
<1>3. TopLevel(q, 1) /\ ~Enters(q)
  BY <1>1 DEF TopLevel, Enters, Op
<1> QED
  BY <1>1, <1>2, <1>3 DEF Whole, Disciplined, q

LEMMA SubmitOrderWhole ==
  ASSUME NEW s \in Symbols, NEW type
  PROVE  Whole(SubmitOrder(s, type))
<1>1. /\ s \in Mutexes
      /\ {"m_stockMutex", "newOrderMutex", "m_mutex"} \subseteq Mutexes
  BY DEF Mutexes, OtherMutexes
<1>2. Whole(<<>>)
  BY DEF Whole, Disciplined, TopLevel, Enters
<1>3. Whole(IF type = "MARKET" THEN Section("m_stockMutex") ELSE <<>>)
  BY <1>1, <1>2, SectionWhole
<1> QED
  BY <1>1, <1>3, SectionWhole, WholesJoin DEF SubmitOrder, LogSystem

LEMMA MatchOrdersWhole ==
  ASSUME NEW s \in Symbols, NEW traded
  PROVE  Whole(MatchOrders(s, traded))
<1> DEFINE q == <<Op("lock", s)>> \o LogTrade \o <<Op("match", s), Op("unlock", s)>>
<1>1. /\ s \in Mutexes /\ s # "m_mutex"
      /\ {"m_historyMutex", "m_stockMutex", "m_mutex"} \subseteq Mutexes
  BY SymbolNames DEF Mutexes, OtherMutexes
<1>2. /\ q \in Seq(Ops) /\ Len(q) = 5
      /\ q[1] = Op("lock", s) /\ q[2] = Op("lock", "m_mutex")
      /\ q[3] = Op("unlock", "m_mutex") /\ q[4] = Op("match", s) /\ q[5] = Op("unlock", s)
  <2>1. \A m \in Mutexes : Op("lock", m) \in Ops /\ Op("unlock", m) \in Ops /\ Op("match", m) \in Ops
    BY DEF Op, Ops
  <2> QED
    BY <1>1, <2>1 DEF LogTrade, Section
<1> HIDE DEF q
<1>3. OpOK(q, 1) /\ OpOK(q, 2) /\ OpOK(q, 3) /\ OpOK(q, 4) /\ OpOK(q, 5)
  BY <1>1, <1>2 DEF OpOK, LockOK, UnlockOK, MatchOK, TopLevel, Op
<1>4. TopLevel(q, 1) /\ ~Enters(q)
  BY <1>1, <1>2 DEF TopLevel, Enters, Op
<1>5. Whole(q)
  BY <1>2, <1>3, <1>4 DEF Whole, Disciplined
<1>6. MatchOrders(s, traded) =
        IF traded THEN q \o Section("m_historyMutex") \o Section("m_stockMutex")
        ELSE Section(s)
  BY DEF MatchOrders, q
<1> QED
  BY <1>1, <1>5, <1>6, SectionWhole, WholesJoin

LEMMA TraderTurnDisciplined ==
  ASSUME NEW s \in Symbols, NEW type
  PROVE  LET q == TraderTurn(s, type)
         IN  q \in Seq(Ops) /\ Disciplined(q) /\ HeldAt(q) = {} /\ Leaves(q)
<1> DEFINE enter == <<Op("enter", "room")>>
           leave == <<Op("leave", "room")>>
           head  == enter \o GetStockSnapshot
           q     == TraderTurn(s, type)
<1>1. enter \in Seq(Ops) /\ Len(enter) = 1 /\ enter[1].op = "enter" /\ Disciplined(enter)
  BY DEF Op, Ops, Disciplined, OpOK, TopLevel
<1>2. leave \in Seq(Ops) /\ Len(leave) = 1 /\ leave[1].op = "leave" /\ Whole(leave)
  BY DEF Op, Ops, Whole, Disciplined, OpOK, TopLevel, Enters
<1>3. Whole(GetStockSnapshot)
  BY SectionWhole DEF GetStockSnapshot, Mutexes, OtherMutexes
<1>4. q = (head \o SubmitOrder(s, type)) \o leave
  BY DEF TraderTurn
<1> HIDE DEF enter, leave, q
<1>5. head \in Seq(Ops) /\ Disciplined(head)
  BY <1>1, <1>3, Concatenated DEF Whole
<1>6. GetStockSnapshot \in Seq(Ops) /\ SubmitOrder(s, type) \in Seq(Ops)
  BY <1>3, SubmitOrderWhole DEF Whole
<1>7. Len(head) > 0 /\ head[1].op = "enter"
  <2>1. 1 \in 1 .. Len(enter)
    BY <1>1
  <2>2. /\ Len(head) = Len(enter) + Len(GetStockSnapshot)
        /\ Len(GetStockSnapshot) \in Nat /\ head[1] = enter[1]
    BY <1>1, <1>6, <2>1, JoinedOps
  <2> QED
    BY <1>1, <2>2
<1> HIDE DEF head
<1> DEFINE front == head \o SubmitOrder(s, type)
<1>8. front \in Seq(Ops) /\ Disciplined(front) /\ Len(front) > 0 /\ front[1].op = "enter"
  <2>1. Whole(SubmitOrder(s, type))
    BY SubmitOrderWhole
  <2>2. front \in Seq(Ops) /\ Disciplined(front)
    BY <1>5, <2>1, Concatenated DEF Whole
  <2>3. Len(front) > 0 /\ front[1].op = "enter"
    <3>1. 1 \in 1 .. Len(head)
      BY <1>5, <1>7
    <3> QED
      BY <1>5, <1>6, <1>7, <3>1, JoinedOps
  <2> QED
    BY <2>2, <2>3
<1>9. q = front \o leave
  BY <1>4
<1> HIDE DEF front
<1>10. q \in Seq(Ops) /\ Disciplined(q)
  BY <1>2, <1>8, <1>9, Concatenated DEF Whole
<1>11. /\ Len(q) = Len(front) + 1 /\ Len(front) \in Nat
       /\ q[1].op = "enter" /\ q[Len(front) + 1].op = "leave"
  <2>1. 1 \in 1 .. Len(front) /\ 1 \in 1 .. Len(leave)
    BY <1>2, <1>8
  <2>2. /\ Len(q) = Len(front) + 1 /\ Len(front) \in Nat
        /\ q[1] = front[1] /\ q[1 + Len(front)] = leave[1]
    BY <1>2, <1>8, <1>9, <2>1, JoinedOps
  <2> QED
    BY <1>2, <1>8, <2>2
<1>12. HeldAt(q) = {} /\ Leaves(q)
  BY <1>10, <1>11 DEF HeldAt, Leaves
<1> QED
  BY <1>10, <1>12 DEF q

\* Every call is disciplined and begins with no mutex held.
LEMMA CallsDisciplined ==
  ASSUME NEW call \in Calls
  PROVE  /\ call \in Seq(Ops) /\ Disciplined(call) /\ HeldAt(call) = {}
         /\ Enters(call) => Leaves(call)
<1>1. ASSUME Whole(call)
      PROVE  /\ call \in Seq(Ops) /\ Disciplined(call) /\ HeldAt(call) = {}
             /\ ~Enters(call)
  BY <1>1, HeldAtTopLevel DEF Whole
<1>2. CASE call \in {LogSystem, UpdatePrice, GetStockSnapshot, GetRecentTrades, WakeUpEngine}
  <2>1. Whole(call)
    BY <1>2, SectionWhole DEF LogSystem, UpdatePrice, GetStockSnapshot, GetRecentTrades,
                              WakeUpEngine, Mutexes, OtherMutexes
  <2> QED
    BY <1>1, <2>1
<1>3. CASE call = GetOrderDepth
  <2>1. call \in Seq(Ops) /\ Len(call) = 1 /\ call[1].op = "depth" /\ call[1].book = 1
    BY <1>3 DEF GetOrderDepth, Depth, Ops
  <2>2. Whole(call)
    BY <2>1 DEF Whole, Disciplined, OpOK, TopLevel, Enters
  <2> QED
    BY <1>1, <2>2
<1>4. CASE call = AwaitOrders
  <2>1. /\ call \in Seq(Ops) /\ Len(call) = 3
        /\ call[1] = Op("lock", "newOrderMutex") /\ call[2] = Op("wait", "newOrderMutex")
        /\ call[3] = Op("unlock", "newOrderMutex")
    BY <1>4 DEF AwaitOrders, Op, Ops, Mutexes, OtherMutexes
  <2>2. "newOrderMutex" \in Mutexes
    BY DEF Mutexes, OtherMutexes
  <2>3. OpOK(call, 1) /\ OpOK(call, 2) /\ OpOK(call, 3)
    BY <2>1, <2>2 DEF OpOK, LockOK, UnlockOK, WaitOK, TopLevel, Op
  <2>4. TopLevel(call, 1) /\ ~Enters(call)
    BY <2>1 DEF TopLevel, Enters, Op
  <2>5. Whole(call)
    BY <2>1, <2>3, <2>4 DEF Whole, Disciplined
  <2> QED
    BY <1>1, <2>5
<1>5. CASE \E s \in Symbols, type \in {"MARKET", "LIMIT"} : call = SubmitOrder(s, type)
  BY <1>1, <1>5, SubmitOrderWhole
<1>6. CASE \E s \in Symbols, type \in {"MARKET", "LIMIT"} : call = TraderTurn(s, type)
  BY <1>6, TraderTurnDisciplined
<1>7. CASE \E s \in Symbols, traded \in BOOLEAN : call = MatchOrders(s, traded)
  BY <1>1, <1>7, MatchOrdersWhole
<1> QED
  BY <1>2, <1>3, <1>4, <1>5, <1>6, <1>7 DEF Calls

-----------------------------------------------------------------------------
(***************************************************************************)
(* The invariant.                                                          *)
(***************************************************************************)
LEMMA HeadIsFirst ==
  ASSUME LocksTypes, NEW t \in Threads, todo[t] # <<>>
  PROVE  /\ todo[t] \in Seq(Ops) /\ Len(todo[t]) > 0
         /\ Head(todo[t]) = todo[t][1] /\ todo[t][1] \in Ops
         /\ 1 \in 1 .. Len(todo[t])
<1>1. todo[t] \in Seq(Ops)
  BY DEF LocksTypes
<1> QED
  BY <1>1

\* t goes on in its script to q; the mutexes others hold stay theirs.
LEMMA ScriptStep ==
  ASSUME LocksInv, NEW t \in Threads, NEW q \in Seq(Ops), Disciplined(q),
         todo' = [todo EXCEPT ![t] = q],
         owner' \in [Mutexes -> Threads \cup {Unlocked}],
         \A m \in Mutexes : owner'[m] = owner[m] \/ {owner'[m], owner[m]} \subseteq {t, Unlocked},
         {m \in Mutexes : owner'[m] = t} = HeldAt(q),
         inside' \in SUBSET Threads,
         \A u \in inside' : u # t => u \in inside,
         t \in inside' => Leaves(q) /\ ~Enters(q),
         Enters(q) => Leaves(q)
  PROVE  LocksInv'
<1>1. todo' \in [Threads -> Seq(Ops)] /\ todo'[t] = q
      /\ \A u \in Threads : u # t => todo'[u] = todo[u]
  BY DEF LocksInv, LocksTypes
<1>2. \A u \in Threads : u # t => HeldBy(u)' = HeldBy(u)
  BY LocksConstants DEF HeldBy
<1>3. HeldBy(t)' = HeldAt(q)
  BY DEF HeldBy
<1>4. LocksTypes'
  BY <1>1 DEF LocksTypes
<1>5. ASSUME NEW u \in Threads
      PROVE  /\ Disciplined(todo'[u]) /\ HeldBy(u)' = HeldAt(todo'[u])
             /\ Enters(todo'[u]) => Leaves(todo'[u])
             /\ u \in inside' => Leaves(todo'[u]) /\ ~Enters(todo'[u])
  <2>1. CASE u = t
    BY <1>1, <1>3, <2>1
  <2>2. CASE u # t
    BY <1>1, <1>2, <2>2 DEF LocksInv
  <2> QED
    BY <2>1, <2>2
<1>6. inside' \subseteq Threads
  OBVIOUS
<1> QED
  BY <1>4, <1>5, <1>6 DEF LocksInv

\* The first operation is over: whatever left the room before leaves it still,
\* unless it was this one.
LEMMA TailRoom ==
  ASSUME NEW q \in Seq(Ops), q # <<>>, Disciplined(q)
  PROVE  /\ ~Enters(Tail(q))
         /\ Leaves(q) /\ q[1].op # "leave" => Leaves(Tail(q))
<1>1. /\ Len(Tail(q)) = Len(q) - 1 /\ Len(q) \in Nat
      /\ \A i \in 1 .. Len(q) - 1 : Tail(q)[i] = q[i + 1]
  BY TailDisciplined
<1>2. ~Enters(Tail(q))
  <2> SUFFICES ASSUME NEW i \in 1 .. Len(Tail(q)) PROVE Tail(q)[i].op # "enter"
    BY DEF Enters
  <2>1. i + 1 \in 1 .. Len(q) /\ Tail(q)[i] = q[i + 1] /\ i + 1 # 1
    BY <1>1
  <2> QED
    BY <2>1 DEF Disciplined, OpOK
<1>3. ASSUME NEW j \in 1 .. Len(q), q[j].op = "leave", q[1].op # "leave"
      PROVE  Leaves(Tail(q))
  <2>1. j # 1
    BY <1>3
  <2>2. j - 1 \in 1 .. Len(Tail(q)) /\ (j - 1) + 1 = j
    BY <1>1, <2>1
  <2>3. Tail(q)[j - 1].op = "leave"
    BY <1>1, <1>3, <2>2
  <2> QED
    BY <2>2, <2>3 DEF Leaves
<1> QED
  BY <1>2, <1>3 DEF Leaves

\* A step that changes neither a mutex nor the room, to a script that holds as
\* much as the old one did.
LEMMA QuietStep ==
  ASSUME LocksInv, NEW t \in Threads, NEW q \in Seq(Ops), Disciplined(q),
         todo' = [todo EXCEPT ![t] = q], UNCHANGED <<owner, inside>>,
         HeldAt(q) = HeldAt(todo[t]),
         t \in inside => Leaves(q), ~Enters(q)
  PROVE  LocksInv'
<1>1. /\ owner' \in [Mutexes -> Threads \cup {Unlocked}]
      /\ \A m \in Mutexes : owner'[m] = owner[m]
      /\ {m \in Mutexes : owner'[m] = t} = HeldAt(q)
  BY DEF LocksInv, LocksTypes, HeldBy
<1>2. /\ inside' \in SUBSET Threads /\ \A u \in inside' : u # t => u \in inside
      /\ t \in inside' => Leaves(q) /\ ~Enters(q)
  BY DEF LocksInv, LocksTypes
<1> QED
  BY <1>1, <1>2, ScriptStep

LEMMA LocksInvInit == LocksInit => LocksInv
<1> SUFFICES ASSUME LocksInit PROVE LocksInv
  OBVIOUS
<1>1. LocksTypes
  BY DEF LocksInit, LocksTypes
<1>2. ASSUME NEW t \in Threads
      PROVE  /\ Disciplined(todo[t]) /\ HeldBy(t) = HeldAt(todo[t])
             /\ ~Enters(todo[t])
  <2>1. todo[t] = <<>> /\ HeldAt(todo[t]) = {} /\ Len(todo[t]) = 0
    BY DEF LocksInit, HeldAt
  <2>2. HeldBy(t) = {}
    BY LocksConstants DEF LocksInit, HeldBy
  <2> QED
    BY <2>1, <2>2 DEF Disciplined, Enters
<1> QED
  BY <1>1, <1>2 DEF LocksInv, LocksInit

LEMMA LocksInvStep ==
  ASSUME LocksInv, [LocksNext]_lockVars
  PROVE  LocksInv'
<1>1. CASE UNCHANGED lockVars
  BY <1>1 DEF LocksInv, LocksTypes, HeldBy, lockVars
<1>2. ASSUME NEW t \in Threads, BeginCall(t)
      PROVE  LocksInv'
  <2>1. PICK call \in Calls : todo' = [todo EXCEPT ![t] = call]
    BY <1>2 DEF BeginCall
  <2>2. /\ call \in Seq(Ops) /\ Disciplined(call) /\ HeldAt(call) = {}
        /\ Enters(call) => Leaves(call)
    BY CallsDisciplined
  <2>3. todo[t] = <<>> /\ UNCHANGED <<owner, inside>>
    BY <1>2 DEF BeginCall
  <2>4. HeldAt(todo[t]) = {} /\ ~Leaves(todo[t])
    BY <2>3 DEF HeldAt, Leaves
  <2>5. t \notin inside'
    BY <2>3, <2>4 DEF LocksInv
  <2>6. /\ owner' \in [Mutexes -> Threads \cup {Unlocked}]
        /\ \A m \in Mutexes : owner'[m] = owner[m]
        /\ {m \in Mutexes : owner'[m] = t} = HeldAt(call)
        /\ inside' \in SUBSET Threads /\ \A u \in inside' : u # t => u \in inside
    BY <2>2, <2>3, <2>4 DEF LocksInv, LocksTypes, HeldBy
  <2> QED
    BY <2>1, <2>2, <2>5, <2>6, ScriptStep
<1>3. ASSUME NEW t \in Threads, todo[t] # <<>>
      PROVE  LET q == todo[t] IN
             /\ q \in Seq(Ops) /\ Disciplined(q) /\ 1 \in 1 .. Len(q)
             /\ OpOK(q, 1) /\ q[1] \in Ops /\ Head(q) = q[1]
             /\ Tail(q) \in Seq(Ops) /\ Disciplined(Tail(q)) /\ ~Enters(Tail(q))
             /\ t \in inside /\ q[1].op # "leave" => Leaves(Tail(q))
  <2>1. /\ todo[t] \in Seq(Ops) /\ Disciplined(todo[t]) /\ 1 \in 1 .. Len(todo[t])
        /\ todo[t][1] \in Ops /\ Head(todo[t]) = todo[t][1]
    BY <1>3, HeadIsFirst DEF LocksInv
  <2> QED
    BY <1>3, <2>1, TailDisciplined, TailRoom DEF LocksInv, Disciplined
<1>4. ASSUME NEW t \in Threads, LockMutex(t)
      PROVE  LocksInv'
  <2> DEFINE q == todo[t]
             m == q[1].on
  <2>1. /\ q # <<>> /\ q[1].op = "lock" /\ owner[m] = Unlocked
        /\ owner' = [owner EXCEPT ![m] = t]
        /\ todo' = [todo EXCEPT ![t] = Tail(q)] /\ inside' = inside
    BY <1>3, <1>4 DEF LockMutex, At, Advance
  <2>2. m \in Mutexes
    BY <1>3, <2>1 DEF OpOK, LockOK
  <2>3. HeldAt(Tail(q)) = HeldAt(q) \cup {m}
    BY <1>3, <2>1, HeldAfter
  <2>4. {n \in Mutexes : owner'[n] = t} = HeldAt(Tail(q))
    BY <2>1, <2>2, <2>3 DEF LocksInv, LocksTypes, HeldBy
  <2>5. /\ owner' \in [Mutexes -> Threads \cup {Unlocked}]
        /\ \A n \in Mutexes : owner'[n] = owner[n] \/ {owner'[n], owner[n]} \subseteq {t, Unlocked}
        /\ inside' \in SUBSET Threads /\ \A u \in inside' : u # t => u \in inside
    BY <2>1, <2>2 DEF LocksInv, LocksTypes
  <2> QED
    BY <1>3, <2>1, <2>4, <2>5, ScriptStep
<1>5. ASSUME NEW t \in Threads, UnlockMutex(t)
      PROVE  LocksInv'
  <2> DEFINE q == todo[t]
             m == q[1].on
  <2>1. /\ q # <<>> /\ q[1].op = "unlock"
        /\ owner' = [owner EXCEPT ![m] = Unlocked]
        /\ todo' = [todo EXCEPT ![t] = Tail(q)] /\ inside' = inside
    BY <1>3, <1>5 DEF UnlockMutex, At, Advance
  <2>2. /\ m \in HeldAt(q) /\ HeldAt(Tail(q)) = HeldAt(q) \ {m}
    BY <1>3, <2>1, HeldAfter
  <2>3. m \in Mutexes /\ owner[m] = t
    BY <2>2 DEF LocksInv, HeldBy
  <2>4. {n \in Mutexes : owner'[n] = t} = HeldAt(Tail(q))
    BY <2>1, <2>2, <2>3, LocksConstants DEF LocksInv, LocksTypes, HeldBy
  <2>5. /\ owner' \in [Mutexes -> Threads \cup {Unlocked}]
        /\ \A n \in Mutexes : owner'[n] = owner[n] \/ {owner'[n], owner[n]} \subseteq {t, Unlocked}
        /\ inside' \in SUBSET Threads /\ \A u \in inside' : u # t => u \in inside
    BY <2>1, <2>3 DEF LocksInv, LocksTypes
  <2> QED
    BY <1>3, <2>1, <2>4, <2>5, ScriptStep
<1>6. ASSUME NEW t \in Threads, todo[t] # <<>>, todo[t][1].op \in {"wait", "match", "depth"},
             Advance(t), UNCHANGED <<owner, inside>>
      PROVE  LocksInv'
  <2>1. HeldAt(Tail(todo[t])) = HeldAt(todo[t])
    BY <1>3, <1>6, HeldAfter
  <2>2. todo' = [todo EXCEPT ![t] = Tail(todo[t])]
    BY <1>6 DEF Advance
  <2>3. t \in inside => Leaves(Tail(todo[t]))
    BY <1>3, <1>6
  <2> QED
    BY <1>3, <1>6, <2>1, <2>2, <2>3, QuietStep
<1>7. ASSUME NEW t \in Threads, todo[t] # <<>>, todo[t][1].op # "enter"
      PROVE  ~Enters(todo[t])
  BY <1>3, <1>7 DEF Disciplined, OpOK, Enters
<1>8. ASSUME NEW t \in Threads, WaitForOrders(t)
      PROVE  LocksInv'
  <2> DEFINE q == todo[t]
             p == <<Op("lock", "newOrderMutex")>>
             m == "newOrderMutex"
  <2>1. q # <<>> /\ q[1].op = "wait" /\ inside' = inside
    BY <1>3, <1>8 DEF WaitForOrders, At
  <2>2. CASE Advance(t) /\ UNCHANGED owner
    BY <1>6, <2>1, <2>2
  <2>3. CASE /\ owner' = [owner EXCEPT ![m] = Unlocked]
             /\ todo' = [todo EXCEPT ![t] = p \o q]
    <3>1. m \in Mutexes /\ p \in Seq(Ops) /\ Len(p) = 1 /\ p[1] = Op("lock", m)
      BY DEF Mutexes, OtherMutexes, Op, Ops
    <3>2. q \in Seq(Ops) /\ Disciplined(q) /\ 1 \in 1 .. Len(q) /\ ~Enters(q)
      BY <1>3, <1>7, <2>1
    <3> HIDE DEF p, q, m
    <3>3. /\ Len(p \o q) = 1 + Len(q) /\ Len(q) \in Nat
          /\ (p \o q)[1] = Op("lock", m) /\ (p \o q)[2] = q[1]
      <4>1. 1 \in 1 .. Len(p)
        BY <3>1
      <4>2. /\ (p \o q)[1] = p[1] /\ (p \o q)[1 + Len(p)] = q[1]
            /\ Len(p \o q) = Len(p) + Len(q) /\ Len(q) \in Nat
        BY <3>1, <3>2, <4>1, JoinedOps
      <4>3. Len(p) = 1 /\ 1 + 1 = 2 /\ p[1] = Op("lock", m)
        BY <3>1
      <4> QED
        BY <4>2, <4>3
    <3>4. OpOK(p \o q, 1)
      BY <2>1, <3>1, <3>2, <3>3 DEF OpOK, LockOK, Op, m
    <3>5. \A i \in 1 .. Len(p) : OpOK(p \o q, i) /\ p[i].op # "enter"
      BY <3>1, <3>4 DEF Op
    <3>6. /\ p \o q \in Seq(Ops) /\ Disciplined(p \o q) /\ ~Enters(p \o q)
          /\ Leaves(q) => Leaves(p \o q)
      BY <3>1, <3>2, <3>5, Prepended
    <3>7. HeldAt(p \o q) = {} /\ HeldAt(q) = {m}
      <4>1. p \o q # <<>> /\ q # <<>>
        BY <2>1, <3>3, <3>6
      <4> QED
        BY <2>1, <3>3, <4>1 DEF HeldAt, Op, m
    <3>8. owner[m] = t /\ \A n \in Mutexes : owner[n] = t => n = m
      BY <3>1, <3>7 DEF LocksInv, HeldBy, q
    <3>9. {n \in Mutexes : owner'[n] = t} = HeldAt(p \o q)
      BY <2>3, <3>1, <3>7, <3>8, LocksConstants DEF LocksInv, LocksTypes
    <3>10. /\ owner' \in [Mutexes -> Threads \cup {Unlocked}]
           /\ \A n \in Mutexes : owner'[n] = owner[n] \/ {owner'[n], owner[n]} \subseteq {t, Unlocked}
           /\ inside' \in SUBSET Threads /\ \A u \in inside' : u # t => u \in inside
           /\ t \in inside' => Leaves(p \o q)
      BY <2>1, <2>3, <3>1, <3>6, <3>8 DEF LocksInv, LocksTypes, q
    <3> QED
      BY <2>3, <3>6, <3>9, <3>10, ScriptStep
  <2> QED
    BY <1>8, <2>2, <2>3 DEF WaitForOrders
<1>9. ASSUME NEW t \in Threads, NextTrade(t)
      PROVE  LocksInv'
  <2> DEFINE q == todo[t]
             p == LogTrade
  <2>1. q # <<>> /\ q[1].op = "match" /\ UNCHANGED <<owner, inside>>
    BY <1>3, <1>9 DEF NextTrade, At
  <2>2. CASE Advance(t)
    BY <1>6, <2>1, <2>2
  <2>3. CASE todo' = [todo EXCEPT ![t] = p \o q]
    <3>1. /\ "m_mutex" \in Mutexes /\ p \in Seq(Ops) /\ Len(p) = 2
          /\ p[1] = Op("lock", "m_mutex") /\ p[2] = Op("unlock", "m_mutex")
      BY DEF Mutexes, OtherMutexes, Op, Ops, LogTrade, Section
    <3>2. /\ q \in Seq(Ops) /\ Disciplined(q) /\ 1 \in 1 .. Len(q) /\ ~Enters(q)
          /\ t \in inside => Leaves(q)
      BY <1>3, <1>7, <2>1 DEF LocksInv
    <3> HIDE DEF p, q
    <3>3. /\ Len(p \o q) = 2 + Len(q) /\ Len(q) \in Nat
          /\ (p \o q)[1] = p[1] /\ (p \o q)[2] = p[2] /\ (p \o q)[3] = q[1]
      <4>1. 1 \in 1 .. Len(p) /\ 2 \in 1 .. Len(p)
        BY <3>1
      <4>2. /\ (p \o q)[1] = p[1] /\ (p \o q)[2] = p[2] /\ (p \o q)[1 + Len(p)] = q[1]
            /\ Len(p \o q) = Len(p) + Len(q) /\ Len(q) \in Nat
        BY <3>1, <3>2, <4>1, JoinedOps
      <4>3. Len(p) = 2 /\ 1 + 2 = 3
        BY <3>1
      <4> QED
        BY <4>2, <4>3
    <3>4. OpOK(p \o q, 1) /\ OpOK(p \o q, 2)
      BY <2>1, <3>1, <3>2, <3>3 DEF OpOK, LockOK, UnlockOK, Op
    <3>5. \A i \in 1 .. Len(p) : OpOK(p \o q, i) /\ p[i].op # "enter"
      BY <3>1, <3>4 DEF Op
    <3>6. /\ p \o q \in Seq(Ops) /\ Disciplined(p \o q) /\ ~Enters(p \o q)
          /\ Leaves(q) => Leaves(p \o q)
      BY <3>1, <3>2, <3>5, Prepended
    <3>7. HeldAt(p \o q) = HeldAt(q)
      <4>1. p \o q # <<>> /\ q # <<>> /\ 3 <= Len(p \o q)
        BY <2>1, <3>2, <3>3, <3>6
      <4> QED
        BY <2>1, <3>1, <3>3, <4>1 DEF HeldAt, Op
    <3> QED
      BY <2>1, <2>3, <3>2, <3>6, <3>7, QuietStep DEF q
  <2> QED
    BY <1>9, <2>2, <2>3 DEF NextTrade
<1>10. ASSUME NEW t \in Threads, NextBook(t)
       PROVE  LocksInv'
  <2> DEFINE q == todo[t]
             b == q[1].book
             rest == <<Depth(b + 1)>> \o Tail(q)
             p == Section(MapOrder[b])
  <2>1. q # <<>> /\ q[1].op = "depth" /\ UNCHANGED <<owner, inside>> /\ Head(q) = q[1]
    BY <1>3, <1>10 DEF NextBook, At
  <2>2. CASE b > Len(MapOrder)
    BY <1>6, <1>10, <2>1, <2>2 DEF NextBook
  <2>3. CASE ~(b > Len(MapOrder))
    <3>1. b \in 1 .. Len(MapOrder) /\ b \in Nat
      BY <1>3, <2>1, <2>3, LocksConstants DEF OpOK, Ops
    <3>2. MapOrder[b] \in Mutexes
      BY <3>1, LocksConstants DEF Mutexes
    <3>3. todo' = [todo EXCEPT ![t] = p \o <<Depth(b + 1)>> \o Tail(q)]
      BY <1>10, <2>1, <2>3 DEF NextBook
    <3>4. Whole(p)
      BY <3>2, SectionWhole
    <3>5. /\ Tail(q) \in Seq(Ops) /\ Disciplined(Tail(q)) /\ ~Enters(Tail(q))
          /\ TopLevel(Tail(q), 1)
      <4>1. TopLevel(q, 2)
        BY <1>3, <2>1 DEF OpOK
      <4>2. /\ Len(Tail(q)) = Len(q) - 1 /\ Len(q) \in Nat
            /\ \A i \in 1 .. Len(q) - 1 : Tail(q)[i] = q[i + 1]
        BY <1>3, <2>1, TailDisciplined
      <4> QED
        BY <1>3, <2>1, <4>1, <4>2 DEF TopLevel
    <3>6. Whole(<<Depth(b + 1)>>)
      <4> DEFINE d == <<Depth(b + 1)>>
      <4>1. /\ d \in Seq(Ops) /\ Len(d) = 1 /\ d[1].op = "depth"
            /\ d[1].book = b + 1 /\ b + 1 > 0
        BY <3>1 DEF Depth, Ops
      <4> HIDE DEF d
      <4>2. Whole(d)
        BY <4>1 DEF Whole, Disciplined, OpOK, TopLevel, Enters
      <4> QED
        BY <4>2 DEF d
    <3>7. Whole(p \o <<Depth(b + 1)>> \o Tail(q))
      BY <3>4, <3>5, <3>6, WholesJoin DEF Whole
    <3>8. t \in inside => Leaves(p \o <<Depth(b + 1)>> \o Tail(q))
      <4> DEFINE front == p \o <<Depth(b + 1)>>
      <4>1. front \in Seq(Ops) /\ Tail(q) \in Seq(Ops)
        <5>1. Whole(front)
          BY <3>4, <3>6, WholesJoin
        <5> QED
          BY <3>5, <5>1 DEF Whole
      <4> HIDE DEF front
      <4> SUFFICES ASSUME NEW i \in 1 .. Len(Tail(q)), Tail(q)[i].op = "leave"
                   PROVE  Leaves(front \o Tail(q))
        BY <1>3, <2>1, Zenon DEF Leaves, front
      <4>2. /\ (front \o Tail(q))[i + Len(front)].op = "leave"
            /\ i + Len(front) \in 1 .. Len(front \o Tail(q))
        BY <4>1, JoinedOps
      <4> QED
        BY <4>2 DEF Leaves
    <3>9. HeldAt(q) = {} /\ HeldAt(p \o <<Depth(b + 1)>> \o Tail(q)) = {}
      BY <2>1, <3>7, HeldAtTopLevel, Zenon DEF Whole, HeldAt
    <3> QED
      BY <2>1, <3>3, <3>7, <3>8, <3>9, QuietStep DEF Whole
  <2> QED
    BY <2>2, <2>3
<1>11. ASSUME NEW t \in Threads, EnterRoom(t) \/ LeaveRoom(t)
       PROVE  LocksInv'
  <2> DEFINE q == todo[t]
  <2>1. /\ q # <<>> /\ q[1].op \in {"enter", "leave"} /\ owner' = owner
        /\ todo' = [todo EXCEPT ![t] = Tail(q)]
        /\ q[1].op = "enter" => inside' = inside \cup {t}
        /\ q[1].op = "leave" => inside' = inside \ {t}
    BY <1>3, <1>11 DEF EnterRoom, LeaveRoom, At, Advance
  <2>2. HeldAt(Tail(q)) = HeldAt(q)
    BY <1>3, <2>1, HeldAfter
  <2>3. t \in inside' => Leaves(Tail(q))
    <3>1. q[1].op = "enter" => Enters(q)
      BY <1>3, <2>1 DEF Enters
    <3>2. q[1].op = "enter" => Leaves(q)
      BY <3>1 DEF LocksInv
    <3> QED
      BY <1>3, <2>1, <3>2, TailRoom
  <2>4. /\ owner' \in [Mutexes -> Threads \cup {Unlocked}]
        /\ \A m \in Mutexes : owner'[m] = owner[m]
        /\ {m \in Mutexes : owner'[m] = t} = HeldAt(Tail(q))
        /\ inside' \in SUBSET Threads /\ \A u \in inside' : u # t => u \in inside
    BY <2>1, <2>2 DEF LocksInv, LocksTypes, HeldBy
  <2> QED
    BY <1>3, <2>1, <2>3, <2>4, ScriptStep
<1> QED
  BY <1>1, <1>2, <1>4, <1>5, <1>8, <1>9, <1>10, <1>11 DEF LocksNext

-----------------------------------------------------------------------------
(***************************************************************************)
(* The theorems.                                                           *)
(***************************************************************************)
\* The script of a thread determines the mutexes it holds, whatever the threads
\* call: invariant of Locks.
THEOREM LocksInvariant == LocksSpec => []LocksInv
<1>1. LocksInit => LocksInv
  BY LocksInvInit
<1>2. LocksInv /\ [LocksNext]_lockVars => LocksInv'
  BY LocksInvStep
<1> QED
  BY <1>1, <1>2, PTL DEF LocksSpec

\* What a thread holds that asks for a mutex: nothing, or a book, and then it
\* asks for the logger's.
LEMMA HeldWhileLocking ==
  ASSUME LocksInv, NEW t \in Threads, At(t, "lock")
  PROVE  /\ Head(todo[t]).on \in Mutexes
         /\ \/ HeldBy(t) = {}
            \/ /\ Head(todo[t]).on = "m_mutex"
               /\ \E s \in Symbols : HeldBy(t) = {s}
<1> DEFINE q == todo[t]
<1>1. /\ q \in Seq(Ops) /\ q # <<>> /\ Disciplined(q) /\ 1 \in 1 .. Len(q)
      /\ Head(q) = q[1] /\ q[1].op = "lock"
  BY HeadIsFirst DEF LocksInv, At
<1>2. q[1].on \in Mutexes
  BY <1>1 DEF Disciplined, OpOK, LockOK
<1>3. CASE q[1].on = "m_mutex" /\ 3 <= Len(q) /\ q[3].op = "match"
  <2>1. q[3].on \in Symbols
    BY <1>1, <1>3 DEF Disciplined, OpOK, MatchOK
  <2>2. HeldAt(q) = {q[3].on}
    BY <1>1, <1>3 DEF HeldAt
  <2> QED
    BY <1>1, <1>2, <1>3, <2>1, <2>2 DEF LocksInv
<1>4. CASE ~(q[1].on = "m_mutex" /\ 3 <= Len(q) /\ q[3].op = "match")
  <2>1. HeldAt(q) = {}
    BY <1>1, <1>4 DEF HeldAt
  <2> QED
    BY <1>1, <1>2, <2>1 DEF LocksInv
<1> QED
  BY <1>3, <1>4

\* Whoever asks for a mutex while it holds another has one book locked, and asks
\* for the logger's (the lock order main.cpp promises).
THEOREM OrderKept == LocksSpec => []LockOrder
<1>1. ASSUME LocksInv, NEW t \in Threads, At(t, "lock"), HeldBy(t) # {}
      PROVE  /\ Cardinality(HeldBy(t)) = 1 /\ HeldBy(t) \subseteq Symbols
             /\ Head(todo[t]).on = "m_mutex"
  <2>1. PICK s \in Symbols : HeldBy(t) = {s} /\ Head(todo[t]).on = "m_mutex"
    BY <1>1, HeldWhileLocking
  <2>2. Cardinality({s}) = 1
    BY FS_Singleton
  <2> QED
    BY <2>1, <2>2
<1>2. LocksInv => LockOrder
  BY <1>1 DEF LockOrder, HeldBy
<1> QED
  BY <1>2, LocksInvariant, PTL

\* However many threads there are and whatever they call: none wait for each
\* other only, for mutexes or for a slot of the trading room.
THEOREM NoDeadlock == LocksSpec => []NoCircularWait
<1>1. ASSUME LocksInv, NEW S \in (SUBSET Threads) \ {{}},
             \A t \in S : WaitsFor(t, S)
      PROVE  FALSE
  <2>1. S \subseteq Threads /\ S # {}
    BY <1>1
  <2>2. ASSUME NEW u \in inside
        PROVE  ~At(u, "enter")
    <3>1. u \in Threads /\ ~Enters(todo[u])
      BY <1>1 DEF LocksInv, LocksTypes
    <3> QED
      BY <1>1, <3>1, HeadIsFirst DEF At, Enters, LocksInv
  <2>3. \E u \in S : At(u, "lock") /\ owner[Head(todo[u]).on] \in S
    <3>1. PICK t \in S : TRUE
      BY <2>1
    <3>2. CASE At(t, "lock") /\ owner[Head(todo[t]).on] \in S
      BY <3>2
    <3>3. CASE Cardinality(inside) = MAX_ROOM_CAPACITY /\ inside \subseteq S
      <4>1. inside # {}
        BY <3>3, FS_EmptySet, LocksConstants
      <4>2. PICK u \in inside : TRUE
        BY <4>1
      <4>3. u \in S /\ WaitsFor(u, S) /\ ~At(u, "enter")
        BY <1>1, <2>2, <3>3, <4>2
      <4> QED
        BY <4>3 DEF WaitsFor
    <3> QED
      BY <1>1, <3>2, <3>3 DEF WaitsFor
  <2>4. PICK u \in S : At(u, "lock") /\ owner[Head(todo[u]).on] \in S
    BY <2>3
  <2>5. ASSUME NEW v \in S, HeldBy(v) # {}
        PROVE  /\ At(v, "lock") /\ Head(todo[v]).on = "m_mutex"
               /\ owner["m_mutex"] \in S
               /\ \E s \in Symbols : HeldBy(v) = {s}
    <3>1. v \in Threads /\ WaitsFor(v, S)
      BY <1>1, <2>1
    <3>2. ~At(v, "enter")
      <4> SUFFICES ASSUME At(v, "enter") PROVE FALSE
        OBVIOUS
      <4>1. todo[v] # <<>> /\ todo[v][1].op = "enter"
        BY <1>1, <3>1, HeadIsFirst DEF At, LocksInv
      <4>2. HeldAt(todo[v]) = {}
        BY <4>1 DEF HeldAt
      <4> QED
        BY <1>1, <2>5, <3>1, <4>2 DEF LocksInv
    <3> QED
      BY <1>1, <2>5, <3>1, <3>2, HeldWhileLocking DEF WaitsFor
  <2>6. PICK v \in S : HeldBy(v) # {}
    BY <1>1, <2>1, <2>4, HeldWhileLocking DEF HeldBy
  <2>7. owner["m_mutex"] \in S /\ "m_mutex" \in Mutexes
    BY <2>5, <2>6 DEF Mutexes, OtherMutexes
  <2>8. PICK w \in S : "m_mutex" \in HeldBy(w)
    BY <2>7 DEF HeldBy
  <2>9. \E s \in Symbols : HeldBy(w) = {s}
    BY <2>5, <2>8
  <2> QED
    BY <2>8, <2>9, SymbolNames DEF OtherMutexes
<1>2. LocksInv => NoCircularWait
  BY <1>1 DEF NoCircularWait
<1> QED
  BY <1>2, LocksInvariant, PTL

=============================================================================
