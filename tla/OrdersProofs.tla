---------------------------- MODULE OrdersProofs ----------------------------
(***************************************************************************)
(* Facts about the operators of Orders that the proofs about the order     *)
(* book cite: what an insertion, a fill, an erasure and a sum of shares    *)
(* do to the queues and batches they are given.                            *)
(***************************************************************************)
EXTENDS Orders, SequenceTheorems, FiniteSetTheorems, WellFoundedInduction, TLAPS

-----------------------------------------------------------------------------
(***************************************************************************)
(* Induction over the natural numbers, with a set in the place of a        *)
(* predicate.                                                              *)
(***************************************************************************)
\* Every set of natural numbers that is not empty has a least element.
LEMMA LeastNat ==
  ASSUME NEW T \in SUBSET Nat, T # {}
  PROVE  \E m \in T : \A k \in T : m <= k
<1> DEFINE R == OpToRel(<, Nat)
<1>1. IsWellFoundedOn(R, Nat)
  BY NatLessThanWellFounded
<1>2. \A x, y \in Nat : y < x => <<y, x>> \in R
  BY DEF OpToRel
<1> HIDE DEF R
<1>3. \E x \in T : \A y \in T : ~(<<y, x>> \in R)
  BY <1>1, WFMin
<1>4. \E x \in T : \A y \in T : ~(y < x)
  BY <1>2, <1>3, Zenon
<1> QED BY <1>4

\* A set of natural numbers that has 0 and every successor has them all.
LEMMA SetInduction ==
  ASSUME NEW T, 0 \in T, \A n \in Nat : n \in T => n + 1 \in T
  PROVE  Nat \subseteq T
<1> SUFFICES ASSUME Nat \ T # {} PROVE FALSE
  OBVIOUS
<1>1. PICK m \in Nat \ T : \A k \in Nat \ T : m <= k
  BY LeastNat
<1>2. m - 1 \in Nat
  BY <1>1
<1>3. m - 1 \in T
  BY <1>1, <1>2
<1> QED BY <1>1, <1>2, <1>3

-----------------------------------------------------------------------------
(***************************************************************************)
(* Sums over finite sets.                                                  *)
(***************************************************************************)
\* What holds of a subset whenever it holds of all that are smaller holds of
\* every subset of a finite set.
LEMMA SubsetInduction ==
  ASSUME NEW S, IsFiniteSet(S), NEW P,
         \A T \in SUBSET S : (\A U \in SUBSET T : U # T => U \in P) => T \in P
  PROVE  SUBSET S \subseteq P
<1>1. \A T \in SUBSET S : IsFiniteSet(T) /\ Cardinality(T) \in Nat
  BY FS_Subset, FS_CardinalityType
<1> DEFINE left  == {T \in SUBSET S : T \notin P}
           sizes == {n \in Nat : \E T \in left : Cardinality(T) = n}
<1> SUFFICES ASSUME left # {} PROVE FALSE
  OBVIOUS
<1>2. sizes \in SUBSET Nat /\ sizes # {}
  BY <1>1
<1> HIDE DEF sizes
<1>3. PICK m \in sizes : \A k \in sizes : m <= k
  BY <1>2, LeastNat
<1>4. PICK T \in left : Cardinality(T) = m
  BY <1>3 DEF sizes
<1>5. ASSUME NEW U \in SUBSET T, U # T PROVE U \in P
  <2>1. Cardinality(U) <= m /\ Cardinality(U) # m
    BY <1>1, <1>4, <1>5, FS_Subset
  <2>2. Cardinality(U) \in Nat /\ U \in SUBSET S
    BY <1>1
  <2>3. U \in left => Cardinality(U) \in sizes
    BY <2>2 DEF sizes
  <2> HIDE DEF left
  <2>4. U \notin left
    BY <1>2, <1>3, <2>1, <2>2, <2>3
  <2> QED BY <2>2, <2>4 DEF left
<1> QED BY <1>4, <1>5

\* The element a sum takes first.
First(T) == CHOOSE x \in T : TRUE

\* The recursive function in FoldFunction, on a family of sets.
IsSum(f, F, g) ==
  g = [T \in F |-> IF T = {} THEN 0 ELSE f[First(T)] + g[T \ {First(T)}]]

SumsTo(f, S, g) == IsSum(f, SUBSET S, g)

LEMMA FirstMember ==
  ASSUME NEW T, T # {}
  PROVE  First(T) \in T
BY DEF First

LEMMA SumUnfolds ==
  ASSUME NEW f
  PROVE  SumOf(f) = (CHOOSE g : SumsTo(f, DOMAIN f, g))[DOMAIN f]
BY DEF SumOf, FoldFunction, FoldFunctionOnSet, MapThenFoldSet, SumsTo, IsSum, First

LEMMA SumExists ==
  ASSUME NEW f, NEW S, IsFiniteSet(S)
  PROVE  \E g : SumsTo(f, S, g)
<1> DEFINE Small(n) == {T \in SUBSET S : Cardinality(T) <= n}
           N == {n \in Nat : \E g : IsSum(f, Small(n), g)}
<1>1. /\ \A T \in SUBSET S : IsFiniteSet(T) /\ Cardinality(T) \in Nat
      /\ \A T \in SUBSET S : Cardinality(T) = 0 <=> T = {}
      /\ \A T \in SUBSET S : Cardinality(T) <= Cardinality(S)
      /\ \A T \in SUBSET S : T # {} =>
           /\ T \ {First(T)} \in SUBSET S
           /\ Cardinality(T \ {First(T)}) = Cardinality(T) - 1
  <2>1. \A T \in SUBSET S : IsFiniteSet(T) /\ Cardinality(T) \in Nat
    BY FS_Subset, FS_CardinalityType
  <2>2. \A T \in SUBSET S : Cardinality(T) = 0 <=> T = {}
    BY <2>1, FS_EmptySet
  <2>3. \A T \in SUBSET S : Cardinality(T) <= Cardinality(S)
    BY FS_Subset
  <2>4. ASSUME NEW T \in SUBSET S, T # {}
        PROVE  /\ T \ {First(T)} \in SUBSET S
               /\ Cardinality(T \ {First(T)}) = Cardinality(T) - 1
    BY <2>1, <2>4, FirstMember, FS_RemoveElement
  <2> QED BY <2>1, <2>2, <2>3, <2>4
<1>2. 0 \in N
  <2>1. Small(0) = {{}}
    BY <1>1
  <2>2. IsSum(f, {{}}, [T \in {{}} |-> 0])
    BY DEF SumsTo, IsSum
  <2> QED BY <2>1, <2>2
<1>3. ASSUME NEW n \in Nat, n \in N PROVE n + 1 \in N
  <2>1. PICK h : IsSum(f, Small(n), h)
    BY <1>3
  <2> DEFINE g == [T \in Small(n + 1) |->
                     IF T = {} THEN 0 ELSE f[First(T)] + h[T \ {First(T)}]]
  <2>2. ASSUME NEW T \in Small(n) PROVE T \in Small(n + 1) /\ g[T] = h[T]
    <3>1. T \in Small(n + 1)
      BY <1>1
    <3> HIDE DEF Small
    <3>2. h[T] = IF T = {} THEN 0 ELSE f[First(T)] + h[T \ {First(T)}]
      BY <2>1 DEF IsSum
    <3> QED BY <3>1, <3>2
  <2>3. ASSUME NEW T \in Small(n + 1)
        PROVE  g[T] = IF T = {} THEN 0 ELSE f[First(T)] + g[T \ {First(T)}]
    <3>1. T # {} => T \ {First(T)} \in Small(n)
      BY <1>1
    <3> HIDE DEF Small
    <3>2. T # {} => g[T \ {First(T)}] = h[T \ {First(T)}]
      BY <2>2, <3>1
    <3> QED BY <3>2
  <2>4. g = [T \in Small(n + 1) |-> IF T = {} THEN 0 ELSE f[First(T)] + g[T \ {First(T)}]]
    <3> HIDE DEF Small
    <3> QED BY <2>3
  <2> HIDE DEF g
  <2>5. IsSum(f, Small(n + 1), g)
    BY <2>4 DEF IsSum
  <2> QED BY <2>5
<1>4. Cardinality(S) \in N
  <2>1. Nat \subseteq N
    <3> HIDE DEF N
    <3> QED BY <1>2, <1>3, SetInduction
  <2> QED BY <1>1, <2>1
<1>5. Small(Cardinality(S)) = SUBSET S
  BY <1>1
<1> QED BY <1>4, <1>5 DEF SumsTo

\* A sum is the value of that function at its whole domain.
LEMMA SumIs ==
  ASSUME NEW f, IsFiniteSet(DOMAIN f)
  PROVE  \E g : SumsTo(f, DOMAIN f, g) /\ SumOf(f) = g[DOMAIN f]
<1> DEFINE g == CHOOSE g : SumsTo(f, DOMAIN f, g)
<1>1. SumsTo(f, DOMAIN f, g)
  BY SumExists
<1> HIDE DEF g
<1>2. SumOf(f) = g[DOMAIN f]
  BY SumUnfolds DEF g
<1> QED BY <1>1, <1>2

\* What a recursive sum says of a family of subsets: its values are natural,
\* and it does not matter which element is taken first.
LEMMA SumAnyOrder ==
  ASSUME NEW S, IsFiniteSet(S), NEW f \in [S -> Nat], NEW g, SumsTo(f, S, g)
  PROVE  \A T \in SUBSET S :
           g[T] \in Nat /\ \A x \in T : g[T] = f[x] + g[T \ {x}]
<1> DEFINE P == {T \in SUBSET S : g[T] \in Nat /\ \A x \in T : g[T] = f[x] + g[T \ {x}]}
<1>1. ASSUME NEW T \in SUBSET S, \A U \in SUBSET T : U # T => U \in P PROVE T \in P
  <2>1. g[T] = IF T = {} THEN 0 ELSE f[First(T)] + g[T \ {First(T)}]
    BY DEF SumsTo, IsSum
  <2>2. CASE T = {}
    BY <2>1, <2>2
  <2>3. CASE T # {}
    <3> DEFINE p == First(T)
               Rest(x) == T \ {x}
    <3>1. p \in T /\ g[T] = f[p] + g[Rest(p)]
      BY <2>1, <2>3, FirstMember
    <3> HIDE DEF p, P
    <3>2. \A x \in T : Rest(x) \in P /\ f[x] \in Nat
      BY <1>1
    <3>3. \A x \in T : g[Rest(x)] \in Nat
      BY <3>2 DEF P
    <3>4. ASSUME NEW x \in T, x # p PROVE g[T] = f[x] + g[Rest(x)]
      <4> DEFINE both == T \ {x, p}
      <4>1. /\ x \in Rest(p) /\ Rest(p) \ {x} = both
            /\ p \in Rest(x) /\ Rest(x) \ {p} = both
        BY <3>1, <3>4
      <4> HIDE DEF Rest, both
      <4>2. g[Rest(p)] = f[x] + g[both]
        BY <3>1, <3>2, <4>1 DEF P
      <4>3. g[Rest(x)] = f[p] + g[both]
        BY <3>1, <3>2, <4>1 DEF P
      <4>4. g[both] \in Nat
        <5>1. both \in P
          <6>1. both \in SUBSET T /\ x \in T /\ x \notin both
            BY DEF both
          <6> QED BY <1>1, <6>1
        <5> QED BY <5>1 DEF P
      <4> QED BY <3>1, <3>2, <4>2, <4>3, <4>4
    <3>5. g[T] \in Nat
      <4> HIDE DEF Rest
      <4> QED BY <3>1, <3>2, <3>3
    <3>6. \A x \in T : g[T] = f[x] + g[Rest(x)]
      <4> HIDE DEF Rest
      <4> QED BY <3>1, <3>4
    <3> QED BY <3>5, <3>6 DEF P
  <2> QED BY <2>2, <2>3
<1> HIDE DEF P
<1>2. SUBSET S \subseteq P
  BY <1>1, SubsetInduction
<1> QED BY <1>2 DEF P

\* Sums of functions that agree on a set are equal there.
LEMMA SumsAgree ==
  ASSUME NEW S, NEW R, R \subseteq S, IsFiniteSet(R), NEW f, NEW h, \A x \in R : f[x] = h[x],
         NEW g, SumsTo(f, S, g), NEW k, SumsTo(h, R, k)
  PROVE  g[R] = k[R]
<1> DEFINE P == {T \in SUBSET R : g[T] = k[T]}
<1>1. ASSUME NEW T \in SUBSET R, \A U \in SUBSET T : U # T => U \in P PROVE T \in P
  <2>1. /\ g[T] = IF T = {} THEN 0 ELSE f[First(T)] + g[T \ {First(T)}]
        /\ k[T] = IF T = {} THEN 0 ELSE h[First(T)] + k[T \ {First(T)}]
    BY DEF SumsTo, IsSum
  <2>2. CASE T = {}
    BY <2>1, <2>2
  <2>3. CASE T # {}
    <3>1. First(T) \in T
      BY <2>3, FirstMember
    <3>2. T \ {First(T)} \in P
      BY <1>1, <3>1
    <3> QED BY <2>1, <2>3, <3>1, <3>2
  <2> QED BY <2>2, <2>3
<1> HIDE DEF P
<1>2. SUBSET R \subseteq P
  BY <1>1, SubsetInduction
<1> QED BY <1>2 DEF P

\* A sum over nothing is 0.
LEMMA SumOfNothing ==
  ASSUME NEW f, DOMAIN f = {}
  PROVE  SumOf(f) = 0
<1>1. PICK g : SumsTo(f, {}, g) /\ SumOf(f) = g[{}]
  BY SumIs, FS_EmptySet
<1> QED BY <1>1 DEF SumsTo, IsSum

\* A sum of natural numbers is a natural number; any element may be taken out.
LEMMA SumWithout ==
  ASSUME NEW S, IsFiniteSet(S), NEW f \in [S -> Nat]
  PROVE  /\ SumOf(f) \in Nat
         /\ \A x \in S : SumOf(f) = f[x] + SumOf([y \in S \ {x} |-> f[y]])
<1>1. PICK g : SumsTo(f, S, g) /\ SumOf(f) = g[S]
  BY SumIs
<1>3. \A T \in SUBSET S : g[T] \in Nat /\ \A x \in T : g[T] = f[x] + g[T \ {x}]
  BY <1>1, SumAnyOrder
<1>4. ASSUME NEW x \in S PROVE SumOf([y \in S \ {x} |-> f[y]]) = g[S \ {x}]
  <2> DEFINE R == S \ {x}
             h == [y \in R |-> f[y]]
  <2>1. R \subseteq S /\ IsFiniteSet(R)
    BY FS_Subset
  <2>2. DOMAIN h = R /\ \A y \in R : f[y] = h[y]
    OBVIOUS
  <2> HIDE DEF R, h
  <2>3. PICK k : SumsTo(h, R, k) /\ SumOf(h) = k[R]
    BY <2>1, <2>2, SumIs
  <2>4. g[R] = k[R]
    BY <1>1, <2>1, <2>2, <2>3, SumsAgree
  <2> QED BY <2>3, <2>4 DEF R, h
<1>5. SumOf(f) \in Nat
  BY <1>1, <1>3
<1>6. ASSUME NEW x \in S PROVE SumOf(f) = f[x] + SumOf([y \in S \ {x} |-> f[y]])
  BY <1>1, <1>3, <1>4
<1> QED BY <1>5, <1>6

\* A change of one value changes the sum by as much.
LEMMA SumChanged ==
  ASSUME NEW S, IsFiniteSet(S), NEW f \in [S -> Nat], NEW g \in [S -> Nat], NEW x \in S,
         \A y \in S : y # x => g[y] = f[y]
  PROVE  SumOf(g) + f[x] = SumOf(f) + g[x]
<1> DEFINE r == [y \in S \ {x} |-> f[y]]
<1>1. SumOf(f) = f[x] + SumOf(r)
  BY SumWithout
<1>2. [y \in S \ {x} |-> g[y]] = r
  OBVIOUS
<1>3. SumOf(g) = g[x] + SumOf([y \in S \ {x} |-> g[y]])
  BY SumWithout
<1>4. SumOf(r) \in Nat
  <2>1. IsFiniteSet(S \ {x}) /\ r \in [S \ {x} -> Nat]
    BY FS_RemoveElement
  <2> HIDE DEF r
  <2> QED BY <2>1, SumWithout
<1> HIDE DEF r
<1>5. f[x] \in Nat /\ g[x] \in Nat
  OBVIOUS
<1> QED BY <1>1, <1>2, <1>3, <1>4, <1>5

\* So the sum moves by as much as that one does.
LEMMA SumMoved ==
  ASSUME NEW S, IsFiniteSet(S), NEW f \in [S -> Nat], NEW g \in [S -> Nat], NEW x \in S,
         \A y \in S : y # x => g[y] = f[y]
  PROVE  SumOf(f) \in Nat /\ SumOf(g) \in Nat /\ SumOf(g) = SumOf(f) - f[x] + g[x]
<1>1. /\ SumOf(f) \in Nat /\ SumOf(g) \in Nat /\ f[x] \in Nat /\ g[x] \in Nat
      /\ SumOf(g) + f[x] = SumOf(f) + g[x]
  BY SumChanged, SumWithout
<1> QED BY <1>1

\* Of a function that is nowhere greater, on a domain that is no larger, the
\* sum is no greater.
LEMMA SumMonotone ==
  ASSUME NEW S, IsFiniteSet(S), NEW R, R \subseteq S,
         NEW f \in [R -> Nat], NEW g \in [S -> Nat], \A x \in R : f[x] <= g[x]
  PROVE  SumOf(f) <= SumOf(g)
<1> DEFINE Lower(T) == SumOf([x \in T \cap R |-> f[x]])
           Upper(T) == SumOf([x \in T |-> g[x]])
           P == {T \in SUBSET S : Lower(T) <= Upper(T)}
<1>1. ASSUME NEW T \in SUBSET S, \A U \in SUBSET T : U # T => U \in P PROVE T \in P
  <2>1. CASE T = {}
    <3>1. Lower(T) = 0 /\ Upper(T) = 0
      BY <2>1, SumOfNothing
    <3> QED BY <3>1
  <2>2. CASE T # {}
    <3> DEFINE x == First(T)
               T1 == T \ {x}
    <3>1. x \in T /\ T1 \in SUBSET T /\ T1 # T
      BY <2>2, FirstMember
    <3>2. Lower(T1) <= Upper(T1)
      BY <1>1, <3>1
    <3>3. IsFiniteSet(T) /\ IsFiniteSet(T1) /\ IsFiniteSet(T \cap R) /\ IsFiniteSet(T1 \cap R)
      BY <3>1, FS_Subset
    <3> HIDE DEF x
    <3>4. Lower(T1) \in Nat /\ Upper(T1) \in Nat
      <4> DEFINE h == [y \in T1 \cap R |-> f[y]]
                 k == [y \in T1 |-> g[y]]
      <4>1. h \in [T1 \cap R -> Nat] /\ k \in [T1 -> Nat]
        BY <3>1
      <4> HIDE DEF h, k
      <4>2. SumOf(h) \in Nat /\ SumOf(k) \in Nat
        BY <3>3, <4>1, SumWithout
      <4> QED BY <4>2 DEF h, k
    <3>5. Upper(T) = g[x] + Upper(T1)
      <4> DEFINE k == [y \in T |-> g[y]]
      <4>1. k \in [T -> Nat] /\ k[x] = g[x]
        BY <3>1
      <4>2. [y \in T \ {x} |-> k[y]] = [y \in T1 |-> g[y]]
        OBVIOUS
      <4> HIDE DEF k
      <4>3. \A z \in T : SumOf(k) = k[z] + SumOf([y \in T \ {z} |-> k[y]])
        BY <3>3, <4>1, SumWithout
      <4>4. SumOf(k) = k[x] + SumOf([y \in T \ {x} |-> k[y]])
        BY <3>1, <4>3
      <4> QED BY <4>1, <4>2, <4>4 DEF k
    <3>6. x \in R => Lower(T) = f[x] + Lower(T1)
      <4> SUFFICES ASSUME x \in R PROVE Lower(T) = f[x] + Lower(T1)
        OBVIOUS
      <4> DEFINE h == [y \in T \cap R |-> f[y]]
      <4>1. h \in [T \cap R -> Nat] /\ x \in T \cap R
        BY <3>1
      <4>2. [y \in (T \cap R) \ {x} |-> h[y]] = [y \in T1 \cap R |-> f[y]] /\ h[x] = f[x]
        BY <3>1
      <4> HIDE DEF h
      <4>3. SumOf(h) = h[x] + SumOf([y \in (T \cap R) \ {x} |-> h[y]])
        BY <3>3, <4>1, SumWithout
      <4> QED BY <4>2, <4>3 DEF h
    <3>7. x \notin R => Lower(T) = Lower(T1)
      <4>1. x \notin R => T \cap R = T1 \cap R
        OBVIOUS
      <4> QED BY <4>1
    <3>8. g[x] \in Nat /\ (x \in R => f[x] \in Nat /\ f[x] <= g[x])
      BY <3>1
    <3> HIDE DEF Lower, Upper
    <3> QED BY <3>2, <3>4, <3>5, <3>6, <3>7, <3>8
  <2> QED BY <2>1, <2>2
<1>2. SUBSET S \subseteq P
  <2> HIDE DEF P
  <2> QED BY <1>1, SubsetInduction
<1>3. Lower(S) <= Upper(S)
  BY <1>2
<1>4. [x \in S \cap R |-> f[x]] = f /\ [x \in S |-> g[x]] = g
  OBVIOUS
<1> QED BY <1>3, <1>4

\* A sum of zeros is 0.
LEMMA SumOfZeros ==
  ASSUME NEW S, IsFiniteSet(S), NEW f \in [S -> Nat], \A x \in S : f[x] = 0
  PROVE  SumOf(f) = 0
<1> DEFINE P == {T \in SUBSET S : SumOf([x \in T |-> f[x]]) = 0}
<1>1. ASSUME NEW T \in SUBSET S, \A U \in SUBSET T : U # T => U \in P PROVE T \in P
  <2> DEFINE h == [x \in T |-> f[x]]
  <2>1. CASE T = {}
    BY <2>1, SumOfNothing
  <2>2. CASE T # {}
    <3>1. PICK x \in T : TRUE
      BY <2>2
    <3>2. IsFiniteSet(T) /\ h \in [T -> Nat] /\ h[x] = 0
      BY FS_Subset
    <3>3. [y \in T \ {x} |-> h[y]] = [y \in T \ {x} |-> f[y]]
      OBVIOUS
    <3>4. SumOf([y \in T \ {x} |-> f[y]]) = 0
      BY <1>1
    <3> HIDE DEF h
    <3>5. SumOf(h) = h[x] + SumOf([y \in T \ {x} |-> h[y]])
      BY <3>2, SumWithout
    <3>6. SumOf(h) = 0
      BY <3>2, <3>3, <3>4, <3>5
    <3> QED BY <3>6 DEF h
  <2> QED BY <2>1, <2>2
<1> HIDE DEF P
<1>2. SUBSET S \subseteq P
  BY <1>1, SubsetInduction
<1>3. [x \in S |-> f[x]] = f
  OBVIOUS
<1> QED BY <1>2, <1>3 DEF P

-----------------------------------------------------------------------------
(***************************************************************************)
(* Totals, and the numbers of shares in batches and histories of trades.   *)
(***************************************************************************)
IsTotal(numbers, n, f) ==
  f = [m \in 0 .. n |-> IF m = 0 THEN 0 ELSE f[m - 1] + numbers[m]]

\* The recursive function in Total exists.
LEMMA TotalExists ==
  ASSUME NEW numbers, NEW n \in Nat, \A i \in 1 .. n : numbers[i] \in Nat
  PROVE  \E f : IsTotal(numbers, n, f)
<1> DEFINE T == {m \in Nat : m <= n => \E f : IsTotal(numbers, m, f)}
<1>1. 0 \in T
  <2>1. IsTotal(numbers, 0, [m \in 0 .. 0 |-> 0])
    BY DEF IsTotal
  <2> QED BY <2>1
<1>2. ASSUME NEW m \in Nat, m \in T PROVE m + 1 \in T
  <2> SUFFICES ASSUME m + 1 <= n PROVE \E g : IsTotal(numbers, m + 1, g)
    OBVIOUS
  <2>1. PICK f : IsTotal(numbers, m, f)
    BY <1>2
  <2> DEFINE g == [k \in 0 .. m + 1 |->
                     IF k = m + 1 THEN f[m] + numbers[m + 1] ELSE f[k]]
  <2>2. \A k \in 0 .. m + 1 : g[k] = IF k = 0 THEN 0 ELSE g[k - 1] + numbers[k]
    <3> SUFFICES ASSUME NEW k \in 0 .. m + 1
                 PROVE  g[k] = IF k = 0 THEN 0 ELSE g[k - 1] + numbers[k]
      OBVIOUS
    <3>1. CASE k = m + 1
      BY <3>1
    <3>2. CASE k \in 0 .. m
      <4>1. f[k] = IF k = 0 THEN 0 ELSE f[k - 1] + numbers[k]
        BY <2>1, <3>2 DEF IsTotal
      <4> QED BY <3>2, <4>1
    <3> QED BY <3>1, <3>2
  <2>3. IsTotal(numbers, m + 1, g)
    BY <2>2 DEF IsTotal
  <2> QED BY <2>3
<1> HIDE DEF T
<1>3. Nat \subseteq T
  BY <1>1, <1>2, SetInduction
<1> QED BY <1>3 DEF T

\* It has natural values, and those before an entry do not depend on it.
LEMMA TotalStep ==
  ASSUME NEW numbers \in Seq(Nat), NEW f, IsTotal(numbers, Len(numbers), f)
  PROVE  /\ \A m \in 0 .. Len(numbers) : f[m] \in Nat
         /\ Total(numbers) = f[Len(numbers)]
<1> DEFINE n == Len(numbers)
<1>1. n \in Nat /\ \A i \in 1 .. n : numbers[i] \in Nat
  BY LenProperties, ElementOfSeq
<1> HIDE DEF n
<1>2. ASSUME NEW g, IsTotal(numbers, n, g)
      PROVE  \A m \in 0 .. n : f[m] \in Nat /\ g[m] = f[m]
  <2> DEFINE T == {m \in Nat : m <= n => f[m] \in Nat /\ g[m] = f[m]}
  <2>1. 0 \in T
    BY <1>1, <1>2 DEF IsTotal, n
  <2>2. ASSUME NEW m \in Nat, m \in T PROVE m + 1 \in T
    <3> SUFFICES ASSUME m + 1 <= n PROVE f[m + 1] \in Nat /\ g[m + 1] = f[m + 1]
      OBVIOUS
    <3>1. f[m + 1] = f[m] + numbers[m + 1] /\ g[m + 1] = g[m] + numbers[m + 1]
      BY <1>1, <1>2 DEF IsTotal, n
    <3> QED BY <1>1, <2>2, <3>1
  <2> HIDE DEF T
  <2>3. Nat \subseteq T
    BY <2>1, <2>2, SetInduction
  <2> QED BY <1>1, <2>3 DEF T
<1> DEFINE h == CHOOSE h : IsTotal(numbers, n, h)
<1>3. Total(numbers) = h[n]
  BY DEF Total, IsTotal, n
<1>4. IsTotal(numbers, n, h)
  BY DEF n
<1> HIDE DEF h
<1> QED BY <1>1, <1>2, <1>3, <1>4 DEF n

\* A total is a natural number, and an entry more adds to it.
LEMMA TotalProperties ==
  ASSUME NEW numbers \in Seq(Nat), NEW k \in Nat
  PROVE  /\ Total(<<>>) = 0
         /\ Total(numbers) \in Nat
         /\ Total(Append(numbers, k)) = Total(numbers) + k
<1> DEFINE n == Len(numbers)
           more == Append(numbers, k)
<1>1. n \in Nat /\ \A i \in 1 .. n : numbers[i] \in Nat
  BY LenProperties, ElementOfSeq
<1>2. more \in Seq(Nat) /\ Len(more) = n + 1 /\ more[n + 1] = k
      /\ \A i \in 1 .. n : more[i] = numbers[i]
  OBVIOUS
<1> HIDE DEF more
<1>3. PICK g : IsTotal(more, n + 1, g)
  <2>1. n + 1 \in Nat /\ \A i \in 1 .. n + 1 : more[i] \in Nat
    BY <1>1, <1>2
  <2> HIDE DEF n
  <2> QED BY <2>1, TotalExists
<1> DEFINE f == [m \in 0 .. n |-> g[m]]
<1>4. IsTotal(numbers, n, f)
  <2>1. ASSUME NEW m \in 0 .. n
        PROVE  g[m] = IF m = 0 THEN 0 ELSE g[m - 1] + numbers[m]
    <3>1. m \in 0 .. n + 1
      BY <1>1
    <3> HIDE DEF n
    <3>2. g[m] = IF m = 0 THEN 0 ELSE g[m - 1] + more[m]
      BY <1>3, <3>1 DEF IsTotal
    <3>3. m # 0 => more[m] = numbers[m]
      BY <1>1, <1>2
    <3> QED BY <3>2, <3>3
  <2> QED BY <1>1, <2>1 DEF IsTotal
<1>5. Total(numbers) = g[n] /\ g[n] \in Nat
  BY <1>1, <1>4, TotalStep
<1>6. Total(more) = g[n + 1]
  BY <1>2, <1>3, TotalStep
<1>7. g[n + 1] = g[n] + k
  BY <1>1, <1>2, <1>3 DEF IsTotal
<1>8. Total(<<>>) = 0
  <2>1. <<>> \in Seq(Nat) /\ Len(<<>>) = 0
    OBVIOUS
  <2>2. PICK h : IsTotal(<<>>, 0, h)
    BY <2>1, TotalExists
  <2>3. h[0] = 0
    BY <2>2 DEF IsTotal
  <2> QED BY <2>1, <2>2, <2>3, TotalStep
<1> QED BY <1>5, <1>6, <1>7, <1>8 DEF more

\* The number of shares in a batch is a natural number.
LEMMA SharesOfNat ==
  ASSUME NEW batch, Len(batch) \in Nat, DOMAIN batch = 1 .. Len(batch),
         \A i \in 1 .. Len(batch) : batch[i].quantity \in Nat
  PROVE  SharesOf(batch) \in Nat
<1> DEFINE n == Len(batch)
           shares == [i \in 1 .. n |-> batch[i].quantity]
<1>1. n \in Nat /\ shares \in [1 .. n -> Nat]
  OBVIOUS
<1> HIDE DEF n
<1>2. shares \in Seq(Nat)
  BY <1>1
<1> HIDE DEF shares
<1>3. Total(shares) \in Nat
  BY <1>2, TotalProperties
<1> QED BY <1>3 DEF SharesOf, shares, n

\* A batch of one trade more has its shares more.
LEMMA SharesOfAppend ==
  ASSUME NEW S, NEW batch \in Seq(S), NEW trade \in S, \A t \in S : t.quantity \in Nat
  PROVE  /\ SharesOf(<<>>) = 0
         /\ SharesOf(batch) \in Nat
         /\ SharesOf(Append(batch, trade)) = SharesOf(batch) + trade.quantity
<1> DEFINE n      == Len(batch)
           longer == Append(batch, trade)
           before == [i \in 1 .. n |-> batch[i].quantity]
           after  == [i \in 1 .. n + 1 |-> longer[i].quantity]
<1>1. n \in Nat /\ DOMAIN batch = 1 .. n /\ \A i \in 1 .. n : batch[i] \in S
  BY LenProperties, ElementOfSeq
<1>2. /\ DOMAIN longer = 1 .. n + 1 /\ longer[n + 1] = trade
      /\ \A i \in 1 .. n : longer[i] = batch[i]
      /\ \A i \in 1 .. n + 1 : longer[i] \in S
  OBVIOUS
<1>3. SharesOf(<<>>) = Total(<<>>)
  <2>1. [i \in {} |-> <<>>[i].quantity] = <<>> /\ DOMAIN <<>> = {}
    OBVIOUS
  <2> QED BY <2>1 DEF SharesOf
<1> HIDE DEF n, longer
<1>4. SharesOf(batch) = Total(before) /\ SharesOf(longer) = Total(after)
  BY <1>1, <1>2 DEF SharesOf
<1>5. before \in [1 .. n -> Nat] /\ after \in [1 .. n + 1 -> Nat]
  BY <1>1, <1>2
<1>6. before \in Seq(Nat) /\ after \in Seq(Nat) /\ Len(before) = n /\ Len(after) = n + 1
  <2>1. n + 1 \in Nat
    BY <1>1
  <2> HIDE DEF before, after
  <2>2. before \in Seq(Nat) /\ Len(before) = n
    BY <1>1, <1>5
  <2>3. after \in Seq(Nat) /\ Len(after) = n + 1
    BY <2>1, <1>5
  <2> QED BY <2>2, <2>3
<1>7. after = Append(before, trade.quantity)
  <2>1. /\ \A i \in 1 .. n : after[i] = before[i]
        /\ after[n + 1] = trade.quantity
    BY <1>1, <1>2
  <2> HIDE DEF before, after
  <2> QED BY <1>1, <1>6, <2>1
<1> HIDE DEF before, after
<1>8. /\ Total(<<>>) = 0 /\ Total(before) \in Nat
      /\ Total(after) = Total(before) + trade.quantity
  BY <1>6, <1>7, TotalProperties
<1> QED BY <1>3, <1>4, <1>8 DEF longer

\* A batch is its last trade and those before it.
LEMMA SharesOfFront ==
  ASSUME NEW S, NEW batch \in Seq(S), \A t \in S : t.quantity \in Nat, batch # <<>>
  PROVE  SharesOf(batch) = SharesOf(SubSeq(batch, 1, Len(batch) - 1)) + Last(batch).quantity
<1> DEFINE front == SubSeq(batch, 1, Len(batch) - 1)
<1>1. front \in Seq(S) /\ Last(batch) \in S
  BY EmptySeq, ElementOfSeq, SubSeqProperties DEF Last
<1>2. batch = Append(front, Last(batch))
  BY EmptySeq, LenProperties DEF Last
<1> HIDE DEF front
<1> QED BY <1>1, <1>2, SharesOfAppend DEF front

Amounts(amount, history) == Total([k \in DOMAIN history |-> amount[history[k]]])

\* An entry more in a history adds its amount, whatever is added up.
LEMMA TotalAppended ==
  ASSUME NEW S, NEW history \in Seq(S), NEW trade \in S, NEW amount \in [S -> Nat]
  PROVE  /\ Amounts(amount, <<>>) = 0
         /\ Amounts(amount, history) \in Nat
         /\ Amounts(amount, Append(history, trade)) = Amounts(amount, history) + amount[trade]
<1> DEFINE n      == Len(history)
           before == [k \in 1 .. n |-> amount[history[k]]]
           longer == Append(history, trade)
           after  == [k \in 1 .. n + 1 |-> amount[longer[k]]]
<1>1. n \in Nat /\ DOMAIN history = 1 .. n /\ \A k \in 1 .. n : history[k] \in S
  BY LenProperties, ElementOfSeq
<1>2. /\ DOMAIN longer = 1 .. n + 1 /\ longer[n + 1] = trade
      /\ \A k \in 1 .. n : longer[k] = history[k]
  OBVIOUS
<1> HIDE DEF n, longer
<1>3. [k \in DOMAIN <<>> |-> amount[<<>>[k]]] = <<>>
  OBVIOUS
<1>4. before \in [1 .. n -> Nat] /\ after \in [1 .. n + 1 -> Nat]
  BY <1>1, <1>2
<1>5. before \in Seq(Nat) /\ after \in Seq(Nat) /\ Len(before) = n /\ Len(after) = n + 1
  <2>1. ASSUME NEW m \in Nat, NEW f \in [1 .. m -> Nat] PROVE f \in Seq(Nat) /\ Len(f) = m
    OBVIOUS
  <2>2. n + 1 \in Nat
    BY <1>1
  <2> HIDE DEF before, after
  <2> QED BY <1>1, <1>4, <2>1, <2>2
<1>6. after = Append(before, amount[trade])
  <2>1. \A k \in 1 .. n : after[k] = before[k]
    BY <1>1, <1>2
  <2>2. after[n + 1] = amount[trade]
    BY <1>1, <1>2
  <2> HIDE DEF before, after
  <2> QED BY <1>1, <1>5, <2>1, <2>2
<1>7. amount[trade] \in Nat
  OBVIOUS
<1>8. /\ [k \in DOMAIN history |-> amount[history[k]]] = before
      /\ [k \in DOMAIN longer |-> amount[longer[k]]] = after
  BY <1>1, <1>2
<1> HIDE DEF before, after
<1>9. /\ Total(<<>>) = 0 /\ Total(before) \in Nat
      /\ Total(after) = Total(before) + amount[trade]
  BY <1>5, <1>6, <1>7, TotalProperties
<1> QED BY <1>3, <1>8, <1>9 DEF longer, Amounts

\* An empty batch has no shares.
LEMMA SharesOfNothing == SharesOf(<<>>) = 0
<1>1. <<>> \in Seq(Nat)
  BY EmptySeq
<1>2. [i \in DOMAIN <<>> |-> <<>>[i].quantity] = <<>>
  OBVIOUS
<1> QED BY <1>1, <1>2, TotalProperties DEF SharesOf

\* A trade counts for its two orders and for no other.
LEMMA SharesTradedProperties ==
  ASSUME NEW S, NEW history \in Seq(S), NEW trade \in S, NEW id,
         \A t \in S : t.quantity \in Nat
  PROVE  /\ SharesTraded(id, <<>>) = 0
         /\ SharesTraded(id, history) \in Nat
         /\ SharesTraded(id, Append(history, trade)) = SharesTraded(id, history) +
              IF id \in {trade.buyOrderId, trade.sellOrderId} THEN trade.quantity ELSE 0
<1> DEFINE Given(t) == IF id \in {t.buyOrderId, t.sellOrderId} THEN t.quantity ELSE 0
           amount   == [t \in S |-> Given(t)]
           longer   == Append(history, trade)
<1>1. amount \in [S -> Nat] /\ amount[trade] = Given(trade)
  OBVIOUS
<1>2. ASSUME NEW h \in Seq(S)
      PROVE  SharesTraded(id, h) = Amounts(amount, h)
  <2>1. \A k \in DOMAIN h : amount[h[k]] = Given(h[k])
    BY ElementOfSeq, LenProperties
  <2> HIDE DEF amount
  <2> QED BY <2>1 DEF SharesTraded, Amounts
<1>3. <<>> \in Seq(S) /\ longer \in Seq(S)
  OBVIOUS
<1> HIDE DEF amount, longer
<1>4. /\ Amounts(amount, <<>>) = 0
      /\ Amounts(amount, history) \in Nat
      /\ Amounts(amount, longer) = Amounts(amount, history) + amount[trade]
  BY <1>1, TotalAppended DEF longer
<1>5. /\ SharesTraded(id, <<>>) = 0
      /\ SharesTraded(id, history) \in Nat
      /\ SharesTraded(id, longer) = SharesTraded(id, history) + amount[trade]
  BY <1>2, <1>3, <1>4
<1> QED BY <1>1, <1>5 DEF longer

\* A trade counts for its symbol and for no other.
LEMMA SharesOnProperties ==
  ASSUME NEW S, NEW history \in Seq(S), NEW trade \in S, NEW s,
         \A t \in S : t.quantity \in Nat
  PROVE  /\ SharesOn(s, <<>>) = 0
         /\ SharesOn(s, history) \in Nat
         /\ SharesOn(s, Append(history, trade)) =
              SharesOn(s, history) + IF trade.symbol = s THEN trade.quantity ELSE 0
<1> DEFINE Given(t) == IF t.symbol = s THEN t.quantity ELSE 0
           amount   == [t \in S |-> Given(t)]
           longer   == Append(history, trade)
<1>1. amount \in [S -> Nat] /\ amount[trade] = Given(trade)
  OBVIOUS
<1>2. ASSUME NEW h \in Seq(S)
      PROVE  SharesOn(s, h) = Amounts(amount, h)
  <2>1. \A k \in DOMAIN h : amount[h[k]] = Given(h[k])
    BY ElementOfSeq, LenProperties
  <2> HIDE DEF amount
  <2> QED BY <2>1 DEF SharesOn, Amounts
<1>3. <<>> \in Seq(S) /\ longer \in Seq(S)
  OBVIOUS
<1> HIDE DEF amount, longer
<1>4. /\ Amounts(amount, <<>>) = 0
      /\ Amounts(amount, history) \in Nat
      /\ Amounts(amount, longer) = Amounts(amount, history) + amount[trade]
  BY <1>1, TotalAppended DEF longer
<1>5. /\ SharesOn(s, <<>>) = 0
      /\ SharesOn(s, history) \in Nat
      /\ SharesOn(s, longer) = SharesOn(s, history) + amount[trade]
  BY <1>2, <1>3, <1>4
<1> QED BY <1>1, <1>5 DEF longer

-----------------------------------------------------------------------------
(***************************************************************************)
(* The queues.                                                             *)
(***************************************************************************)
\* One queue is the other with an order put in behind the first n entries.
Inserted(new, queue, o, n) ==
  /\ Len(new) = Len(queue) + 1
  /\ \A i \in 1 .. Len(queue) + 1 :
       new[i] = IF i <= n THEN queue[i] ELSE IF i = n + 1 THEN o ELSE queue[i - 1]

\* An insertion keeps the entries in front, puts the order behind them and
\* moves the others up by one.
LEMMA EmplaceInserts ==
  ASSUME NEW S, NEW queue \in Seq(S), NEW o \in S, NEW n \in 0 .. Len(queue)
  PROVE  Emplace(queue, o, n) \in Seq(S) /\ Inserted(Emplace(queue, o, n), queue, o, n)
<1> SUFFICES /\ Emplace(queue, o, n) \in Seq(S)
             /\ Len(Emplace(queue, o, n)) = Len(queue) + 1
             /\ \A i \in 1 .. Len(queue) + 1 :
                  Emplace(queue, o, n)[i] = IF i <= n THEN queue[i]
                                            ELSE IF i = n + 1 THEN o ELSE queue[i - 1]
  BY DEF Inserted
<1> DEFINE front == SubSeq(queue, 1, n)
           back  == SubSeq(queue, n + 1, Len(queue))
<1>1. /\ Len(queue) \in Nat
      /\ \A i \in 1 .. Len(queue) : queue[i] \in S
  BY LenProperties, ElementOfSeq
<1>2. /\ front \in Seq(S)
      /\ Len(front) = n
      /\ \A i \in 1 .. n : front[i] = queue[i]
  BY <1>1, SubSeqProperties
<1>3. /\ back \in Seq(S)
      /\ Len(back) = Len(queue) - n
      /\ \A i \in 1 .. Len(queue) - n : back[i] = queue[n + i]
  BY <1>1, SubSeqProperties
<1> DEFINE left == front \o <<o>>
<1>4. Emplace(queue, o, n) = left \o back
  <2>1. (n + 1) - 1 = n
    OBVIOUS
  <2> QED BY <2>1, Zenon DEF Emplace, InsertAt
<1> HIDE DEF front, back
<1>5. /\ <<o>> \in Seq(S)
      /\ Len(<<o>>) = 1
      /\ <<o>>[1] = o
  OBVIOUS
<1>6. /\ left \in Seq(S)
      /\ Len(left) = n + 1
      /\ \A i \in 1 .. n + 1 : left[i] = IF i <= n THEN queue[i] ELSE o
  BY <1>1, <1>2, <1>5, ConcatProperties
<1> HIDE DEF left
<1>7. /\ left \o back \in Seq(S)
      /\ Len(left \o back) = Len(left) + Len(back)
      /\ \A i \in 1 .. Len(left) + Len(back) :
           (left \o back)[i] = IF i <= Len(left) THEN left[i] ELSE back[i - Len(left)]
  BY <1>3, <1>6, ConcatProperties
<1>8. ASSUME NEW i \in 1 .. Len(queue) + 1, i > n + 1
      PROVE  back[i - (n + 1)] = queue[i - 1]
  <2> DEFINE j == i - (n + 1)
  <2>1. j \in 1 .. Len(queue) - n /\ n + j = i - 1
    BY <1>1, <1>8
  <2> HIDE DEF j
  <2>2. back[j] = queue[n + j]
    BY <1>3, <2>1
  <2> QED BY <2>1, <2>2 DEF j
<1> QED BY <1>1, <1>3, <1>4, <1>6, <1>7, <1>8

LEMMA EmplaceProperties ==
  ASSUME NEW S, NEW queue \in Seq(S), NEW o \in S, NEW n \in 0 .. Len(queue)
  PROVE  /\ Emplace(queue, o, n) \in Seq(S)
         /\ Len(Emplace(queue, o, n)) = Len(queue) + 1
         /\ \A i \in 1 .. Len(queue) + 1 :
              Emplace(queue, o, n)[i] = IF i <= n THEN queue[i]
                                        ELSE IF i = n + 1 THEN o ELSE queue[i - 1]
<1>1. Emplace(queue, o, n) \in Seq(S) /\ Inserted(Emplace(queue, o, n), queue, o, n)
  BY EmplaceInserts
<1> QED BY <1>1 DEF Inserted

\* The orders of the queue after an emplace are those before it and the new one.
LEMMA EmplaceElements ==
  ASSUME NEW S, NEW queue \in Seq(S), NEW o \in S, NEW n \in 0 .. Len(queue)
  PROVE  ToSet(Emplace(queue, o, n)) = ToSet(queue) \cup {o}
<1> DEFINE new == Emplace(queue, o, n)
           len == Len(queue)
<1>0. new \in Seq(S) /\ Inserted(new, queue, o, n)
  BY EmplaceInserts
<1> HIDE DEF new
<1>1. /\ new \in Seq(S) /\ Len(new) = len + 1
      /\ \A i \in 1 .. len + 1 :
           new[i] = IF i <= n THEN queue[i] ELSE IF i = n + 1 THEN o ELSE queue[i - 1]
  BY <1>0 DEF Inserted
<1> HIDE DEF new
<1>2. /\ DOMAIN new = 1 .. len + 1 /\ DOMAIN queue = 1 .. len
      /\ len \in Nat /\ n \in Nat /\ n <= len
  BY <1>1, LenProperties
<1> HIDE DEF len
<1>3. ASSUME NEW i \in 1 .. len + 1
      PROVE  new[i] = o \/ \E k \in 1 .. len : new[i] = queue[k]
  <2>1. i \in 1 .. n \/ i = n + 1 \/ i - 1 \in n + 1 .. len
    BY <1>2
  <2>2. CASE i \in 1 .. n
    BY <1>1, <1>2, <2>2
  <2>3. CASE i - 1 \in n + 1 .. len
    BY <1>1, <1>2, <2>3
  <2> QED BY <1>1, <1>2, <2>1, <2>2, <2>3
<1>4. ASSUME NEW k \in 1 .. len PROVE \E i \in 1 .. len + 1 : new[i] = queue[k]
  <2>1. CASE k <= n
    BY <1>1, <1>2, <2>1
  <2>2. CASE k > n
    <3>1. k + 1 \in 1 .. len + 1 /\ new[k + 1] = queue[k]
      BY <1>1, <1>2, <2>2
    <3> QED BY <3>1
  <2> QED BY <1>2, <2>1, <2>2
<1>5. n + 1 \in 1 .. len + 1 /\ new[n + 1] = o
  BY <1>1, <1>2
<1>6. ToSet(new) = ToSet(queue) \cup {o}
  <2>1. ASSUME NEW x \in ToSet(new) PROVE x \in ToSet(queue) \cup {o}
    BY <1>2, <1>3 DEF ToSet
  <2>2. ASSUME NEW x \in ToSet(queue) PROVE x \in ToSet(new)
    BY <1>2, <1>4 DEF ToSet
  <2>3. o \in ToSet(new)
    BY <1>2, <1>5 DEF ToSet
  <2> QED BY <2>1, <2>2, <2>3
<1> QED BY <1>6 DEF new

\* A fill takes no more than either order has left.
LEMMA FillQtyBounds ==
  ASSUME NEW buy, NEW sell,
         buy.quantity \in Nat, buy.filledQty \in 0 .. buy.quantity,
         sell.quantity \in Nat, sell.filledQty \in 0 .. sell.quantity
  PROVE  /\ FillQty(buy, sell) \in Nat
         /\ FillQty(buy, sell) <= buy.quantity - buy.filledQty
         /\ FillQty(buy, sell) <= sell.quantity - sell.filledQty
BY DEF FillQty, Lesser, Remaining

\* A midpoint lies between the bid and the ask.
LEMMA ExecPriceBounds ==
  ASSUME NEW bid \in Nat, NEW ask \in Nat, ask <= bid
  PROVE  /\ ExecPrice(bid, ask) \in Nat
         /\ ask <= ExecPrice(bid, ask)
         /\ ExecPrice(bid, ask) <= bid
BY DEF ExecPrice

=============================================================================
