------------------------------ MODULE MilpProofs ------------------------------
(***************************************************************************)
(* The mixed-integer root and its tree, for any program with integer columns  *)
(* that has integers for coefficients and a bound on every column.            *)
(* No point of the program is cut off: every row that is propagated, every     *)
(* probe, every ordering row and every cut (Gomory, cover, clique, implied      *)
(* bound, flow cover) holds at each of them, or, for the ordering rows, at one  *)
(* of the best of them.  The inductive invariant is RootInv.  Separation at    *)
(* the nodes stays within its share of the iterations; its invariant is        *)
(* BudgetInv, which needs RootInv.                                           *)
(***************************************************************************)
EXTENDS MilpRoot, FiniteSetTheorems, WellFoundedInduction, TLAPS

-----------------------------------------------------------------------------
(* Induction over finite sets, and folds *)

\* A set of naturals has a least one: the order is well founded.
LEMMA LeastNatural ==
  ASSUME NEW T, T \subseteq Nat, T # {}
  PROVE  \E x \in T : \A y \in T : x <= y
<1>1. PICK x \in T : \A y \in T : <<y, x>> \notin OpToRel(<, Nat)
  BY WFMin, NatLessThanWellFounded, Zenon
<1>2. \A y \in T : ~(y < x)
  BY <1>1, Zenon DEF OpToRel
<1> QED
  BY <1>2

\* So has a set of integers that is bounded from below.
LEMMA LeastInteger ==
  ASSUME NEW T \in SUBSET Int, T # {}, NEW low \in Int, \A v \in T : low <= v
  PROVE  \E x \in T : \A y \in T : x <= y
<1> DEFINE offsets == {v - low : v \in T}
<1>1. \A v \in T : v \in Int /\ v - low \in Nat
  OBVIOUS
<1>2. offsets \subseteq Nat /\ offsets # {}
  BY <1>1
<1>3. PICK x \in offsets : \A y \in offsets : x <= y
  <2> HIDE DEF offsets
  <2> QED
    BY <1>2, LeastNatural
<1>4. PICK v \in T : x = v - low
  OBVIOUS
<1>5. ASSUME NEW w \in T PROVE v <= w
  <2>1. w - low \in offsets
    OBVIOUS
  <2> QED
    BY <1>1, <1>3, <1>4, <2>1
<1> QED
  BY <1>5

\* What holds of 0 and goes from one step to the next holds of all n.
LEMMA StepByStep ==
  ASSUME NEW n \in Nat, NEW G, 0 \in G, \A k \in 1..n : k - 1 \in G => k \in G
  PROVE  \A k \in 0..n : k \in G
<1> DEFINE bad == (0..n) \ G
<1> SUFFICES ASSUME bad # {} PROVE FALSE
  OBVIOUS
<1>1. bad \subseteq Nat
  OBVIOUS
<1>2. PICK m \in bad : \A k \in bad : m <= k
  <2> HIDE DEF bad
  <2> QED
    BY <1>1, LeastNatural
<1>3. m \in 1..n /\ m \notin G
  BY <1>2
<1>4. m - 1 \notin bad
  BY <1>2, <1>3
<1> QED
  BY <1>3, <1>4

\* A set of subsets of a finite set that holds the empty one, and with a subset
\* without some element the subset, holds the whole set.
LEMMA SubsetInduction ==
  ASSUME NEW S, IsFiniteSet(S), NEW G, {} \in G,
         \A s \in SUBSET S : s # {} => \E x \in s : s \ {x} \in G => s \in G
  PROVE  S \in G
<1> DEFINE bad == {Cardinality(s) : s \in (SUBSET S) \ G}
<1>1. \A s \in SUBSET S : IsFiniteSet(s) /\ Cardinality(s) \in Nat
  BY FS_Subset, FS_CardinalityType
<1>2. SUFFICES ASSUME S \notin G PROVE FALSE
  OBVIOUS
<1>3. bad \subseteq Nat /\ bad # {}
  BY <1>1, <1>2
<1>4. PICK n \in bad : \A m \in bad : n <= m
  <2> HIDE DEF bad
  <2> QED
    BY <1>3, LeastNatural
<1>5. PICK s \in (SUBSET S) \ G : n = Cardinality(s)
  BY <1>4
<1>6. s # {}
  BY <1>5
<1>7. PICK x \in s : s \ {x} \in G => s \in G
  BY <1>5, <1>6
<1>8. Cardinality(s \ {x}) = n - 1 /\ n \in Nat
  BY <1>1, <1>5, <1>7, FS_RemoveElement
<1>9. Cardinality(s \ {x}) \in bad
  BY <1>5, <1>7
<1> HIDE DEF bad
<1> QED
  BY <1>4, <1>8, <1>9

\* What a fold over the subsets of S is: an element is picked, and g says what it
\* adds to the fold of the others.
IsFold(it, S, base, pick, g) ==
  \A s \in SUBSET S : it[s] = IF s = {} THEN base ELSE g[<<s, it[s \ {pick[s]}]>>]
PicksFrom(pick, S) == \A s \in SUBSET S : s # {} => pick[s] \in s
StaysIn(g, S, V) == \A s \in SUBSET S : s # {} => \A v \in V : g[<<s, v>>] \in V

\* The function a fold over a finite set is defined by exists, whatever the order
\* in which the elements are picked and whatever is done with them.
LEMMA FoldExists ==
  ASSUME NEW S, IsFiniteSet(S), NEW V, NEW base \in V, NEW pick, NEW g,
         PicksFrom(pick, S), StaysIn(g, S, V)
  PROVE  \E it \in [SUBSET S -> V] : IsFold(it, S, base, pick, g)
<1> USE DEF PicksFrom, StaysIn
<1> DEFINE Upto(k) == {s \in SUBSET S : Cardinality(s) <= k}
           Is(it, k) == \A s \in Upto(k) :
                          it[s] = IF s = {} THEN base ELSE g[<<s, it[s \ {pick[s]}]>>]
           bad == {k \in Nat : ~\E it \in [Upto(k) -> V] : Is(it, k)}
<1>1. \A s \in SUBSET S : IsFiniteSet(s) /\ Cardinality(s) \in Nat
  BY FS_Subset, FS_CardinalityType
<1>2. \A s \in SUBSET S : s # {} =>
        /\ s \ {pick[s]} \in SUBSET S /\ Cardinality(s \ {pick[s]}) = Cardinality(s) - 1
        /\ Cardinality(s) > 0
  <2> SUFFICES ASSUME NEW s \in SUBSET S, s # {}
               PROVE  /\ Cardinality(s \ {pick[s]}) = Cardinality(s) - 1
                      /\ Cardinality(s) > 0
    OBVIOUS
  <2>1. PICK x \in s : x = pick[s]
    OBVIOUS
  <2>2. IsFiniteSet(s) /\ Cardinality(s) \in Nat /\ Cardinality(s \ {x}) \in Nat
    BY <1>1
  <2>3. Cardinality(s \ {x}) = Cardinality(s) - 1
    BY <2>2, FS_RemoveElement
  <2> QED
    BY <2>1, <2>2, <2>3
<1>3. bad = {}
  <2> SUFFICES ASSUME bad # {} PROVE FALSE
    OBVIOUS
  <2>1. bad \subseteq Nat
    OBVIOUS
  <2>2. PICK n \in bad : \A m \in bad : n <= m
    <3> HIDE DEF bad
    <3> QED
      BY <2>1, LeastNatural
  <2>3. CASE n = 0
    <3> DEFINE it == [s \in Upto(0) |-> base]
    <3>1. \A s \in Upto(0) : s = {}
      <4> SUFFICES ASSUME NEW s \in SUBSET S, Cardinality(s) <= 0, s # {} PROVE FALSE
        OBVIOUS
      <4>1. Cardinality(s) \in Nat /\ Cardinality(s) > 0
        BY <1>1, <1>2
      <4> QED
        BY <4>1
    <3>2. it \in [Upto(0) -> V] /\ Is(it, 0)
      BY <3>1
    <3> QED
      BY <2>2, <2>3, <3>2
  <2>4. CASE n # 0
    <3>1. n \in Nat /\ n - 1 \in Nat /\ n - 1 \notin bad
      <4>1. n \in Nat
        BY <2>1, <2>2
      <4> HIDE DEF bad
      <4> QED
        BY <2>2, <2>4, <4>1
    <3>2. PICK old \in [Upto(n - 1) -> V] : Is(old, n - 1)
      BY <3>1
    <3> DEFINE it == [s \in Upto(n) |->
                        IF s = {} THEN base ELSE g[<<s, old[s \ {pick[s]}]>>]]
    <3>3. \A s \in Upto(n) : s # {} => s \ {pick[s]} \in Upto(n - 1)
      BY <1>1, <1>2
    <3>4. \A s \in Upto(n - 1) : s \in Upto(n) /\ it[s] = old[s]
      BY <1>1, <2>2, <3>2, SMTT(30)
    <3>5. it \in [Upto(n) -> V]
      BY <3>2, <3>3
    <3>6. Is(it, n)
      BY <3>3, <3>4
    <3> QED
      BY <2>2, <3>5, <3>6
  <2> QED
    BY <2>3, <2>4
<1>4. Cardinality(S) \in Nat /\ Cardinality(S) \notin bad
  BY <1>1, <1>3
<1>5. PICK it \in [Upto(Cardinality(S)) -> V] : Is(it, Cardinality(S))
  BY <1>4
<1>6. Upto(Cardinality(S)) = SUBSET S
  BY FS_Subset
<1> QED
  BY <1>5, <1>6 DEF IsFold
\* A finite set of integers has a largest element, which is Max.
LEMMA MaxIs ==
  ASSUME NEW S \in SUBSET Int, IsFiniteSet(S), S # {}
  PROVE  Max(S) \in S /\ \A y \in S : y <= Max(S)
<1> DEFINE G == {s \in SUBSET S : s = {} \/ \E x \in s : \A y \in s : y <= x}
<1>1. {} \in G
  OBVIOUS
<1>2. ASSUME NEW s \in SUBSET S, s # {} PROVE \E x \in s : s \ {x} \in G => s \in G
  <2>1. PICK x \in s : TRUE
    BY <1>2
  <2>2. ASSUME s \ {x} \in G PROVE s \in G
    <3>1. CASE s \ {x} = {}
      <4>1. \A y \in s : y <= x
        BY <2>1, <3>1
      <4> QED
        BY <2>1, <4>1
    <3>2. CASE s \ {x} # {}
      <4>1. PICK z \in s \ {x} : \A y \in s \ {x} : y <= z
        BY <2>2, <3>2
      <4>2. x \in Int /\ z \in Int /\ z \in s /\ \A y \in s : y \in Int
        BY <2>1, <4>1
      <4>3. (\A y \in s : y <= z) \/ (\A y \in s : y <= x)
        BY <4>1, <4>2
      <4> QED
        BY <2>1, <4>2, <4>3
    <3> QED
      BY <3>1, <3>2
  <2> QED
    BY <2>1, <2>2
<1>3. S \in G
  <2> HIDE DEF G
  <2> QED
    BY <1>1, <1>2, SubsetInduction
<1>4. \E x \in S : \A y \in S : x >= y
  BY <1>3
<1>5. Max(S) \in S /\ \A y \in S : Max(S) >= y
  BY <1>4, Zenon DEF Max
<1> QED
  BY <1>5

\* The values of a function on a finite set.
LEMMA ImageIsFinite ==
  ASSUME NEW S, IsFiniteSet(S), NEW f
  PROVE  IsFiniteSet({f[x] : x \in S})
<1> DEFINE T == {f[x] : x \in S}
           h == [x \in S |-> f[x]]
<1>1. h \in Surjection(S, T)
  BY DEF Surjection
<1> HIDE DEF T, h
<1>2. IsFiniteSet(T)
  BY <1>1, FS_Surjection
<1> QED
  BY <1>2 DEF T

\* And a smallest one.
LEMMA MinIs ==
  ASSUME NEW S \in SUBSET Int, IsFiniteSet(S), S # {}
  PROVE  Min(S) \in S /\ \A y \in S : Min(S) <= y
<1> DEFINE f == [y \in S |-> -y]
           T == {f[y] : y \in S}
<1>0. \A y \in S : y \in Int /\ f[y] = -y
  OBVIOUS
<1>1. T \in SUBSET Int /\ IsFiniteSet(T) /\ T # {}
  <2>1. IsFiniteSet(T)
    <3> HIDE DEF f
    <3> QED
      BY ImageIsFinite
  <2>2. T \in SUBSET Int
    BY <1>0
  <2>3. T # {}
    OBVIOUS
  <2> QED
    BY <2>1, <2>2, <2>3
<1>2. Max(T) \in T /\ \A y \in T : y <= Max(T)
  <2> HIDE DEF T
  <2> QED
    BY <1>1, MaxIs
<1>3. PICK x \in S : Max(T) = -x
  BY <1>0, <1>2
<1>4. ASSUME NEW y \in S PROVE x <= y
  <2>1. -y \in T /\ x \in Int /\ y \in Int
    BY <1>0
  <2>2. -y <= -x
    BY <1>2, <1>3, <2>1
  <2> QED
    BY <2>1, <2>2
<1>5. Min(S) \in S /\ \A y \in S : Min(S) <= y
  BY <1>4, Zenon DEF Min
<1> QED
  BY <1>5

\* The beginnings of 1..n, and their largest elements.
LEMMA IntervalIs ==
  ASSUME NEW n \in Nat
  PROVE  /\ IsFiniteSet(1..n)
         /\ \A s \in SUBSET (1..n) : s # {} => Max(s) \in s /\ Max(s) \in 1..n
         /\ \A k \in 1..n : /\ 1..k \in SUBSET (1..n) /\ 1..k # {} /\ Max(1..k) = k
                            /\ (1..k) \ {k} = 1..(k - 1)
         /\ 1..0 = {}
<1>1. IsFiniteSet(1..n)
  BY FS_Interval
<1>2. ASSUME NEW s \in SUBSET (1..n), s # {}
      PROVE  Max(s) \in s /\ \A y \in s : y <= Max(s)
  <2>1. IsFiniteSet(s)
    BY <1>1, FS_Subset
  <2>2. s \in SUBSET Int
    OBVIOUS
  <2> QED
    BY <1>2, <2>1, <2>2, MaxIs
<1>3. ASSUME NEW k \in 1..n
      PROVE  /\ 1..k \in SUBSET (1..n) /\ 1..k # {} /\ Max(1..k) = k
             /\ (1..k) \ {k} = 1..(k - 1)
  <2>1. 1..k \in SUBSET (1..n) /\ k \in 1..k
    OBVIOUS
  <2>2. Max(1..k) \in 1..k /\ k <= Max(1..k)
    BY <1>2, <2>1
  <2>3. Max(1..k) = k
    BY <2>2
  <2> QED
    BY <2>1, <2>3
<1>4. \A s \in SUBSET (1..n) : s # {} => Max(s) \in s /\ Max(s) \in 1..n
  BY <1>2
<1> QED
  BY <1>1, <1>3, <1>4

\* A fold from the left: the largest of the indices s comes last.
LeftFolds(it, n, base, g) ==
  \A s \in SUBSET (1..n) : it[s] = IF s = {} THEN base ELSE g[<<it[s \ {Max(s)}], Max(s)>>]

\* There is one, whatever each step does.
LEMMA LeftFold ==
  ASSUME NEW n \in Nat, NEW V, NEW base \in V, NEW g \in [V \X (1..n) -> V]
  PROVE  \E it \in [SUBSET (1..n) -> V] : LeftFolds(it, n, base, g)
<1> DEFINE S == 1..n
           pick == [s \in SUBSET S |-> Max(s)]
           next == [p \in (SUBSET S) \X V |-> g[<<p[2], Max(p[1])>>]]
<1>1. \A s \in SUBSET S : s # {} => Max(s) \in s /\ Max(s) \in 1..n
  BY IntervalIs
<1>2. IsFiniteSet(S)
  BY IntervalIs
<1>3. PicksFrom(pick, S)
  BY <1>1 DEF PicksFrom
<1>4. StaysIn(next, S, V)
  BY <1>1 DEF StaysIn
<1>5. \E it \in [SUBSET S -> V] : IsFold(it, S, base, pick, next)
  <2> HIDE DEF S, pick, next
  <2> QED
    BY <1>2, <1>3, <1>4, FoldExists
<1>6. PICK it \in [SUBSET S -> V] : IsFold(it, S, base, pick, next)
  BY <1>5
<1>7. LeftFolds(it, n, base, g)
  BY <1>1, <1>6 DEF IsFold, LeftFolds
<1> QED
  BY <1>6, <1>7
\* The terms of a sum over columns, of which there are three.
Term(f, j) == IF j \in DOMAIN f THEN f[j] ELSE 0

\* A sum over columns, in whatever order it is taken.
LEMMA SumIs ==
  ASSUME NEW f, DOMAIN f \in SUBSET (1..3), \A j \in DOMAIN f : f[j] \in Int
  PROVE  /\ SumFunction(f) = Term(f, 1) + Term(f, 2) + Term(f, 3)
         /\ SumFunction(f) \in Int
<1> DEFINE S == DOMAIN f
           Fold(it) == it = [s \in SUBSET S |->
                              IF s = {} THEN 0
                              ELSE f[CHOOSE x \in s : TRUE] + it[s \ {CHOOSE x \in s : TRUE}]]
           iter == CHOOSE it : Fold(it)
           pick == [s \in SUBSET S |-> CHOOSE x \in s : TRUE]
           g == [p \in (SUBSET S) \X Int |-> f[pick[p[1]]] + p[2]]
           Within(s, j) == IF j \in s THEN f[j] ELSE 0
           G == {s \in SUBSET S : iter[s] = Within(s, 1) + Within(s, 2) + Within(s, 3)}
<1>1. SumFunction(f) = iter[S]
  BY DEF SumFunction, SumFunctionOnSet, FoldFunctionOnSet, MapThenFoldSet
<1>2. IsFiniteSet(S)
  <2>1. PICK n \in Nat : n = 3
    OBVIOUS
  <2>2. IsFiniteSet(1..n)
    BY IntervalIs
  <2> QED
    BY <2>1, <2>2, FS_Subset
<1>3. PicksFrom(pick, S)
  BY DEF PicksFrom
<1>4. StaysIn(g, S, Int)
  <2> SUFFICES ASSUME NEW s \in SUBSET S, s # {}, NEW v \in Int PROVE g[<<s, v>>] \in Int
    BY DEF StaysIn
  <2>1. pick[s] \in S
    BY <1>3 DEF PicksFrom
  <2>2. f[pick[s]] \in Int
    BY <2>1
  <2>3. g[<<s, v>>] = f[pick[s]] + v
    OBVIOUS
  <2> QED
    BY <2>2, <2>3
<1>5. \E it \in [SUBSET S -> Int] : IsFold(it, S, 0, pick, g)
  <2>1. PICK zero \in Int : zero = 0
    OBVIOUS
  <2> HIDE DEF S, pick, g
  <2>2. \E it \in [SUBSET S -> Int] : IsFold(it, S, zero, pick, g)
    BY <1>2, <1>3, <1>4, FoldExists
  <2> QED
    BY <2>1, <2>2
<1>6. \E it : Fold(it)
  <2>1. PICK it \in [SUBSET S -> Int] : IsFold(it, S, 0, pick, g)
    BY <1>5
  <2>2. ASSUME NEW s \in SUBSET S, s # {}
        PROVE  g[<<s, it[s \ {pick[s]}]>>]
                 = f[CHOOSE x \in s : TRUE] + it[s \ {CHOOSE x \in s : TRUE}]
    <3>1. pick[s] = CHOOSE x \in s : TRUE
      OBVIOUS
    <3> HIDE DEF pick
    <3>2. it[s \ {pick[s]}] \in Int
      BY <2>1
    <3>3. g[<<s, it[s \ {pick[s]}]>>] = f[pick[s]] + it[s \ {pick[s]}]
      BY <3>2
    <3> QED
      BY <3>1, <3>3
  <2> HIDE DEF g, pick
  <2>3. Fold(it)
    BY <2>1, <2>2 DEF IsFold
  <2> QED
    BY <2>3
<1>7. Fold(iter)
  BY <1>6
<1>8. {} \in G
  <2>1. iter[{}] = 0
    BY <1>7
  <2> HIDE DEF iter
  <2>2. Within({}, 1) = 0 /\ Within({}, 2) = 0 /\ Within({}, 3) = 0
    OBVIOUS
  <2> QED
    BY <2>1, <2>2
<1>9. ASSUME NEW s \in SUBSET S, s # {}
      PROVE  \E x \in s : s \ {x} \in G => s \in G
  <2> DEFINE x == CHOOSE x \in s : TRUE
  <2>1. x \in s
    BY <1>9
  <2>2. iter[s] = f[x] + iter[s \ {x}]
    BY <1>7, <1>9
  <2>3. ASSUME s \ {x} \in G PROVE s \in G
    <3> HIDE DEF x, iter
    <3>1. iter[s \ {x}] = Within(s \ {x}, 1) + Within(s \ {x}, 2) + Within(s \ {x}, 3)
      BY <2>3
    <3>2. x \in 1..3 /\ \A j \in s : f[j] \in Int
      BY <2>1
    <3>3. Within(s, 1) \in Int /\ Within(s, 2) \in Int /\ Within(s, 3) \in Int
      BY <3>2
    <3>4. f[x] \in Int
      BY <2>1, <3>2
    <3>5. CASE x = 1
      <4>1. /\ Within(s \ {x}, 1) = 0 /\ Within(s \ {x}, 2) = Within(s, 2)
            /\ Within(s \ {x}, 3) = Within(s, 3) /\ Within(s, 1) = f[x]
        BY <2>1, <3>5
      <4> QED
        BY <2>2, <3>1, <3>3, <3>4, <4>1
    <3>6. CASE x = 2
      <4>1. /\ Within(s \ {x}, 2) = 0 /\ Within(s \ {x}, 1) = Within(s, 1)
            /\ Within(s \ {x}, 3) = Within(s, 3) /\ Within(s, 2) = f[x]
        BY <2>1, <3>6
      <4> QED
        BY <2>2, <3>1, <3>3, <3>4, <4>1
    <3>7. CASE x = 3
      <4>1. /\ Within(s \ {x}, 3) = 0 /\ Within(s \ {x}, 1) = Within(s, 1)
            /\ Within(s \ {x}, 2) = Within(s, 2) /\ Within(s, 3) = f[x]
        BY <2>1, <3>7
      <4> QED
        BY <2>2, <3>1, <3>3, <3>4, <4>1
    <3> QED
      BY <3>2, <3>5, <3>6, <3>7
  <2> QED
    BY <2>1, <2>3
<1>10. S \in G
  <2> HIDE DEF G, S
  <2> QED
    BY <1>2, <1>8, <1>9, SubsetInduction
<1>11. /\ Within(S, 1) = Term(f, 1) /\ Within(S, 2) = Term(f, 2) /\ Within(S, 3) = Term(f, 3)
       /\ Term(f, 1) \in Int /\ Term(f, 2) \in Int /\ Term(f, 3) \in Int
  BY DEF Term
<1> QED
  BY <1>1, <1>10, <1>11

\* A strict order of a finite set.
Orders(R, S) ==
  /\ \A x \in S, y \in S : x # y => <<x, y>> \in R \/ <<y, x>> \in R
  /\ \A x \in S, y \in S, z \in S : <<x, y>> \in R /\ <<y, z>> \in R => <<x, z>> \in R

\* A set in an order is a sequence of its elements.
LEMMA SortedIs ==
  ASSUME NEW S, IsFiniteSet(S), NEW R, Orders(R, S)
  PROVE  Sorted(S, R) \in [1..Cardinality(S) -> S]
<1> DEFINE LastOf(s, x) == \A y \in s : y # x => <<y, x>> \in R
           F == {s \in SUBSET S : s = {} \/ \E x \in s : LastOf(s, x)}
           InOrder(s, f) == \A m, n \in DOMAIN f : m < n => <<f[m], f[n]>> \in R
           G == {s \in SUBSET S : \E f \in [1..Cardinality(s) -> s] : InOrder(s, f)}
<1>1. {} \in F
  OBVIOUS
<1>2. ASSUME NEW s \in SUBSET S, s # {} PROVE \E x \in s : s \ {x} \in F => s \in F
  <2>1. PICK x \in s : TRUE
    BY <1>2
  <2>2. ASSUME s \ {x} \in F PROVE s \in F
    <3>1. CASE s \ {x} = {}
      <4>1. LastOf(s, x)
        BY <2>1, <3>1
      <4> QED
        BY <2>1, <4>1
    <3>2. CASE s \ {x} # {}
      <4>1. PICK z \in s \ {x} : LastOf(s \ {x}, z)
        BY <2>2, <3>2
      <4>2. CASE <<x, z>> \in R
        <5>1. LastOf(s, z)
          BY <4>1, <4>2
        <5> QED
          BY <4>1, <5>1
      <4>3. CASE <<z, x>> \in R
        <5>1. LastOf(s, x)
          BY <2>1, <4>1, <4>3 DEF Orders
        <5> QED
          BY <2>1, <5>1
      <4> QED
        BY <2>1, <4>1, <4>2, <4>3 DEF Orders
    <3> QED
      BY <3>1, <3>2
  <2> QED
    BY <2>1, <2>2
<1>3. \A s \in SUBSET S : s \in F
  <2> SUFFICES ASSUME NEW t \in SUBSET S PROVE t \in F
    OBVIOUS
  <2>1. IsFiniteSet(t) /\ \A s \in SUBSET t : s \in SUBSET S
    BY FS_Subset
  <2>2. \A s \in SUBSET t : s # {} => \E x \in s : s \ {x} \in F => s \in F
    BY <1>2, <2>1
  <2> HIDE DEF F
  <2> QED
    BY <1>1, <2>1, <2>2, SubsetInduction
<1>4. {} \in G
  <2>1. Cardinality({}) = 0
    BY FS_EmptySet
  <2>2. PICK f : f = [k \in 1..0 |-> 0]
    OBVIOUS
  <2>3. f \in [1..0 -> {}] /\ InOrder({}, f)
    BY <2>2
  <2> QED
    BY <2>1, <2>3
<1>5. ASSUME NEW s \in SUBSET S, s # {} PROVE \E x \in s : s \ {x} \in G => s \in G
  <2>1. PICK x \in s : LastOf(s, x)
    BY <1>3, <1>5
  <2>2. ASSUME s \ {x} \in G PROVE s \in G
    <3> DEFINE n == Cardinality(s)
    <3>1. IsFiniteSet(s)
      BY FS_Subset
    <3>2. n \in Nat \ {0} /\ Cardinality(s \ {x}) = n - 1
      <4>1. n \in Nat /\ Cardinality(s \ {x}) = n - 1 /\ Cardinality(s \ {x}) \in Nat
        BY <2>1, <3>1, FS_RemoveElement, FS_CardinalityType
      <4> QED
        BY <4>1
    <3>3. PICK f \in [1..(n - 1) -> s \ {x}] : InOrder(s \ {x}, f)
      BY <2>2, <3>2
    <3> DEFINE h == [k \in 1..n |-> IF k = n THEN x ELSE f[k]]
    <3> HIDE DEF n
    <3>4. \A k \in 1..n : k # n => k \in 1..(n - 1)
      BY <3>2
    <3>5. h \in [1..n -> s]
      BY <2>1, <3>3, <3>4
    <3>6. ASSUME NEW k \in 1..n, NEW m \in 1..n, k < m PROVE <<h[k], h[m]>> \in R
      <4>1. k \in 1..(n - 1)
        BY <3>2, <3>6
      <4>2. CASE m = n
        BY <2>1, <3>3, <4>1, <4>2
      <4>3. CASE m # n
        BY <3>3, <3>4, <3>6, <4>1, <4>3
      <4> QED
        BY <4>2, <4>3
    <3>7. InOrder(s, h)
      BY <3>6
    <3> QED
      BY <3>5, <3>7 DEF n
  <2> QED
    BY <2>1, <2>2
<1>6. S \in G
  <2> HIDE DEF G
  <2> QED
    BY <1>4, <1>5, SubsetInduction
<1>7. \E f \in [1..Cardinality(S) -> S] : \A m, n \in DOMAIN f : m < n => <<f[m], f[n]>> \in R
  BY <1>6
<1> QED
  BY <1>7, Zenon DEF Sorted

-----------------------------------------------------------------------------
(* Mixed-integer programs *)

\* The programs on the way to the tree: those given, with other bounds and rows.
Shaped(q) ==
  /\ q \in [a : Seq([Cols -> Int]), b : Seq(Int), kind : Seq({"Le", "Ge", "Eq"}), rows : SUBSET Nat,
            cols : {Cols}, ints : SUBSET Cols, c : [Cols -> Int], off : {0},
            lo : [Cols -> Int], hi : [Cols -> Int]]
  /\ q.rows = 1..Len(q.a) /\ Len(q.b) = Len(q.a) /\ Len(q.kind) = Len(q.a)

\* A program with other bounds.
Boxed(q, lo, hi) == [q EXCEPT !.lo = lo, !.hi = hi]

\* The three columns.
LEMMA ColsAre == Cols = 1..3 /\ 1 \in Cols /\ 2 \in Cols /\ 3 \in Cols /\ IsFiniteSet(Cols)
                 /\ Cardinality(Cols) = 3
<1>1. PICK n \in Nat : n = 3
  OBVIOUS
<1>2. IsFiniteSet(1..n) /\ Cardinality(1..n) = n
  BY FS_Interval
<1> QED
  BY <1>1, <1>2, CutsAssumption

\* What a shaped program holds.
LEMMA ShapeIs ==
  ASSUME NEW q, Shaped(q)
  PROVE  /\ q.cols = Cols /\ q.ints \subseteq Cols /\ q.c \in [Cols -> Int]
         /\ q.lo \in [Cols -> Int] /\ q.hi \in [Cols -> Int]
         /\ \A i \in q.rows : /\ q.a[i] \in [Cols -> Int] /\ q.b[i] \in Int
                              /\ q.kind[i] \in {"Le", "Ge", "Eq"} /\ i \in 1..Len(q.a)
  BY DEF Shaped

\* With other bounds it is still one, and nothing else is new.
LEMMA BoxedIs ==
  ASSUME NEW q, Shaped(q), NEW lo \in [Cols -> Int], NEW hi \in [Cols -> Int]
  PROVE  /\ Shaped(Boxed(q, lo, hi))
         /\ Boxed(q, lo, hi).lo = lo /\ Boxed(q, lo, hi).hi = hi
         /\ Boxed(q, lo, hi).a = q.a /\ Boxed(q, lo, hi).b = q.b /\ Boxed(q, lo, hi).kind = q.kind
         /\ Boxed(q, lo, hi).rows = q.rows /\ Boxed(q, lo, hi).cols = q.cols
         /\ Boxed(q, lo, hi).ints = q.ints /\ Boxed(q, lo, hi).c = q.c /\ Boxed(q, lo, hi).off = q.off
  BY DEF Shaped, Boxed

\* Twice is once.
LEMMA BoxedTwice ==
  ASSUME NEW q, Shaped(q), NEW l, NEW h, NEW lo, NEW hi
  PROVE  Boxed(Boxed(q, l, h), lo, hi) = Boxed(q, lo, hi)
  BY DEF Shaped, Boxed

\* And with its own it is itself.
LEMMA BoxedItself == ASSUME NEW q, Shaped(q) PROVE Boxed(q, q.lo, q.hi) = q
  BY DEF Shaped, Boxed

\* The bounds with those of v for the columns that v has.
Over(old, v, side) == [j \in Cols |-> IF j \in DOMAIN v THEN v[j][side] ELSE old[j]]

\* The program with all the bounds it may get, and with those of one column.
BoxesOf(q) == {Boxed(q, l, h) : l \in [Cols -> Int], h \in [Cols -> Int]}
SetOne(lq, v, j) == [lq EXCEPT !.lo[j] = v[j].lo, !.hi[j] = v[j].hi]

Placed(l, j, w) == [l EXCEPT ![j] = w]

\* What setting those of one column gives.
LEMMA SetOneIs ==
  ASSUME NEW q, Shaped(q), NEW v, NEW l \in [Cols -> Int], NEW h \in [Cols -> Int],
         NEW j \in Cols, v[j].lo \in Int, v[j].hi \in Int
  PROVE  /\ SetOne(Boxed(q, l, h), v, j) = Boxed(q, Placed(l, j, v[j].lo), Placed(h, j, v[j].hi))
         /\ SetOne(Boxed(q, l, h), v, j) \in BoxesOf(q)
<1>1. SetOne(Boxed(q, l, h), v, j) = Boxed(q, Placed(l, j, v[j].lo), Placed(h, j, v[j].hi))
  BY DEF SetOne, Boxed, Shaped, Placed
<1>2. Placed(l, j, v[j].lo) \in [Cols -> Int] /\ Placed(h, j, v[j].hi) \in [Cols -> Int]
  BY DEF Placed
<1> QED
  BY <1>1, <1>2 DEF BoxesOf

\* Column after column, WithBounds sets the bounds.
LEMMA WithBoundsIs ==
  ASSUME NEW q, Shaped(q), NEW v, DOMAIN v \in SUBSET Cols,
         \A j \in DOMAIN v : v[j].lo \in Int /\ v[j].hi \in Int
  PROVE  /\ WithBounds(q, v) = Boxed(q, Over(q.lo, v, "lo"), Over(q.hi, v, "hi"))
         /\ Over(q.lo, v, "lo") \in [Cols -> Int] /\ Over(q.hi, v, "hi") \in [Cols -> Int]
<1> DEFINE S == DOMAIN v
           V == BoxesOf(q)
           Fold(it) == it = [s \in SUBSET S |->
                              IF s = {} THEN q
                              ELSE SetOne(it[s \ {CHOOSE x \in s : TRUE}], v, CHOOSE x \in s : TRUE)]
           iter == CHOOSE it : Fold(it)
           pick == [s \in SUBSET S |-> CHOOSE x \in s : TRUE]
           g == [p \in (SUBSET S) \X V |-> SetOne(p[2], v, pick[p[1]])]
           Lo(s) == [j \in Cols |-> IF j \in s THEN v[j].lo ELSE q.lo[j]]
           Hi(s) == [j \in Cols |-> IF j \in s THEN v[j].hi ELSE q.hi[j]]
           G == {s \in SUBSET S : iter[s] = Boxed(q, Lo(s), Hi(s))}
<1>1. WithBounds(q, v) = iter[S]
  BY DEF WithBounds, FoldSet, MapThenFoldSet, SetOne
<1>2. IsFiniteSet(S)
  BY ColsAre, FS_Subset
<1>3. PicksFrom(pick, S)
  BY DEF PicksFrom
<1>5. StaysIn(g, S, V)
  <2> SUFFICES ASSUME NEW s \in SUBSET S, s # {}, NEW w \in V PROVE g[<<s, w>>] \in V
    <3> HIDE DEF S, V, g
    <3> QED
      BY DEF StaysIn
  <2>1. pick[s] \in S
    BY <1>3 DEF PicksFrom
  <2>2. g[<<s, w>>] = SetOne(w, v, pick[s])
    <3> HIDE DEF S, V, pick
    <3> QED
      OBVIOUS
  <2>3. PICK l \in [Cols -> Int], h \in [Cols -> Int] : w = Boxed(q, l, h)
    BY DEF BoxesOf
  <2>4. pick[s] \in Cols /\ v[pick[s]].lo \in Int /\ v[pick[s]].hi \in Int
    BY <2>1
  <2>5. SetOne(w, v, pick[s]) \in BoxesOf(q)
    <3> HIDE DEF g, pick, S
    <3> QED
      BY <2>3, <2>4, SetOneIs
  <2> HIDE DEF g, pick, S
  <2> QED
    BY <2>2, <2>5
<1>6. q \in V
  <2>1. q.lo \in [Cols -> Int] /\ q.hi \in [Cols -> Int]
    BY ShapeIs
  <2> QED
    BY <2>1, BoxedItself DEF BoxesOf
<1>7. \E it \in [SUBSET S -> V] : IsFold(it, S, q, pick, g)
  <2> HIDE DEF S, V, pick, g
  <2> QED
    BY <1>2, <1>3, <1>5, <1>6, FoldExists
<1>8. \E it : Fold(it)
  <2>1. PICK it \in [SUBSET S -> V] : IsFold(it, S, q, pick, g)
    BY <1>7
  <2>2. ASSUME NEW s \in SUBSET S, s # {}
        PROVE  g[<<s, it[s \ {pick[s]}]>>]
                 = SetOne(it[s \ {CHOOSE x \in s : TRUE}], v, CHOOSE x \in s : TRUE)
    <3>1. pick[s] = CHOOSE x \in s : TRUE
      OBVIOUS
    <3> HIDE DEF pick, V
    <3>2. it[s \ {pick[s]}] \in V
      BY <2>1
    <3>3. g[<<s, it[s \ {pick[s]}]>>] = SetOne(it[s \ {pick[s]}], v, pick[s])
      BY <3>2
    <3> HIDE DEF g
    <3> QED
      BY <3>1, <3>3
  <2> HIDE DEF S, V, g, pick
  <2>3. Fold(it)
    BY ONLY <2>1, <2>2 DEF IsFold
  <2> HIDE DEF Fold
  <2> QED
    BY <2>3
<1>9. Fold(iter)
  BY <1>8
<1>10. {} \in G
  <2>1. iter[{}] = q
    BY <1>9
  <2>2. Lo({}) = q.lo /\ Hi({}) = q.hi
    BY ShapeIs
  <2> HIDE DEF iter
  <2> QED
    BY <2>1, <2>2, BoxedItself
<1>11. ASSUME NEW s \in SUBSET S, s # {}
       PROVE  \E x \in s : s \ {x} \in G => s \in G
  <2> DEFINE x == CHOOSE x \in s : TRUE
  <2>1. x \in s
    BY <1>11
  <2>2. iter[s] = SetOne(iter[s \ {x}], v, x)
    BY <1>9, <1>11
  <2>3. ASSUME s \ {x} \in G PROVE s \in G
    <3> HIDE DEF x, iter
    <3>1. iter[s \ {x}] = Boxed(q, Lo(s \ {x}), Hi(s \ {x}))
      BY <2>3
    <3>2. Lo(s \ {x}) \in [Cols -> Int] /\ Hi(s \ {x}) \in [Cols -> Int]
      BY ShapeIs
    <3>3. Placed(Lo(s \ {x}), x, v[x].lo) = Lo(s) /\ Placed(Hi(s \ {x}), x, v[x].hi) = Hi(s)
      BY <2>1 DEF Placed
    <3>4. SetOne(Boxed(q, Lo(s \ {x}), Hi(s \ {x})), v, x) = Boxed(q, Lo(s), Hi(s))
      <4>1. x \in S
        BY <1>11, <2>1
      <4>3. x \in Cols /\ v[x].lo \in Int /\ v[x].hi \in Int
        BY <4>1
      <4> HIDE DEF S, x
      <4>4. PICK l \in [Cols -> Int], h \in [Cols -> Int] : l = Lo(s \ {x}) /\ h = Hi(s \ {x})
        BY <3>2
      <4> HIDE DEF Lo, Hi
      <4>5. SetOne(Boxed(q, l, h), v, x) = Boxed(q, Placed(l, x, v[x].lo), Placed(h, x, v[x].hi))
        BY <4>3, SetOneIs
      <4>2. SetOne(Boxed(q, Lo(s \ {x}), Hi(s \ {x})), v, x)
              = Boxed(q, Placed(Lo(s \ {x}), x, v[x].lo), Placed(Hi(s \ {x}), x, v[x].hi))
        BY <4>4, <4>5
      <4> QED
        BY <4>2, <3>3
    <3>5. iter[s] = Boxed(q, Lo(s), Hi(s))
      <4> HIDE DEF Lo, Hi
      <4> QED
        BY <2>2, <3>1, <3>4
    <3> QED
      BY <3>5
  <2> QED
    BY <2>1, <2>3
<1>12. S \in G
  <2> HIDE DEF G, S
  <2> QED
    BY <1>2, <1>10, <1>11, SubsetInduction
<1>13. Lo(S) = Over(q.lo, v, "lo") /\ Hi(S) = Over(q.hi, v, "hi")
  BY DEF Over
<1>14. Lo(S) \in [Cols -> Int] /\ Hi(S) \in [Cols -> Int]
  BY ShapeIs
<1> QED
  BY <1>1, <1>12, <1>13, <1>14

-----------------------------------------------------------------------------
(* Arithmetic *)

\* Products keep an order.
LEMMA Times == ASSUME NEW a \in Int, a >= 0, NEW u \in Int, NEW v \in Int, u <= v PROVE a * u <= a * v /\ u * a <= v * a
  OBVIOUS

\* A multiple of a positive number that is at most v is at most the quotient's.
LEMMA Floor ==
  ASSUME NEW v \in Int, NEW d \in Int, d > 0
  PROVE  /\ v \div d \in Int /\ v % d \in Int /\ 0 <= v % d /\ v % d < d
         /\ v = d * (v \div d) + (v % d)
         /\ \A x \in Int : d * x <= v => x <= v \div d
<1>1. v \div d \in Int /\ v % d \in Int /\ 0 <= v % d /\ v % d < d /\ v = d * (v \div d) + (v % d)
  OBVIOUS
<1>2. ASSUME NEW x \in Int, d * x <= v PROVE x <= v \div d
  <2> DEFINE w == v \div d
  <2>1. d * x < d * w + d
    BY <1>1, <1>2
  <2> HIDE DEF w
  <2>2. w \in Int
    BY <1>1 DEF w
  <2>3. CASE x >= w + 1
    <3>1. d * (w + 1) <= d * x
      BY <2>2, <2>3, Times
    <3>2. d * (w + 1) = d * w + d
      BY <2>2
    <3> QED
      BY <2>1, <2>2, <3>1, <3>2
  <2> QED
    BY <2>2, <2>3 DEF w
<1> QED
  BY <1>1, <1>2

-----------------------------------------------------------------------------
(* What the rows say *)

\* The activity of a row, and the cost, of a point.
LEMMA ActivityIs ==
  ASSUME NEW q, Shaped(q), NEW x \in [Cols -> Int]
  PROVE  /\ \A i \in q.rows : Activity(q, i, x) = Dot(q.a[i], x) /\ Dot(q.a[i], x) \in Int
         /\ Cost(q, x) = Dot(q.c, x) /\ Dot(q.c, x) \in Int
         /\ InBox(q, x) <=> \A j \in Cols : q.lo[j] <= x[j] /\ x[j] <= q.hi[j]
<1>1. ASSUME NEW f \in [Cols -> Int]
      PROVE  SumFunction([j \in q.cols |-> f[j] * x[j]]) = Dot(f, x) /\ Dot(f, x) \in Int
  <2> DEFINE g == [j \in q.cols |-> f[j] * x[j]]
  <2>1. DOMAIN g \in SUBSET (1..3) /\ \A j \in DOMAIN g : g[j] \in Int
    BY ShapeIs, ColsAre
  <2>2. Term(g, 1) = f[1] * x[1] /\ Term(g, 2) = f[2] * x[2] /\ Term(g, 3) = f[3] * x[3]
    BY ShapeIs, ColsAre DEF Term
  <2> HIDE DEF g
  <2>3. SumFunction(g) = Term(g, 1) + Term(g, 2) + Term(g, 3) /\ SumFunction(g) \in Int
    BY <2>1, SumIs
  <2> QED
    BY <2>2, <2>3 DEF Dot, g
<1>2. ASSUME NEW i \in q.rows PROVE Activity(q, i, x) = Dot(q.a[i], x) /\ Dot(q.a[i], x) \in Int
  <2>1. PICK f \in [Cols -> Int] : f = q.a[i]
    BY ShapeIs
  <2> QED
    BY <1>1, <2>1 DEF Activity
<1>3. Cost(q, x) = Dot(q.c, x) /\ Dot(q.c, x) \in Int
  <2>1. PICK f \in [Cols -> Int] : f = q.c
    BY ShapeIs
  <2> QED
    BY <1>1, <2>1 DEF Cost
<1>4. InBox(q, x) <=> \A j \in Cols : q.lo[j] <= x[j] /\ x[j] <= q.hi[j]
  BY ShapeIs DEF InBox
<1> QED
  BY <1>2, <1>3, <1>4

\* A point of a program, by its terms.
LEMMA PointIs ==
  ASSUME NEW q, Shaped(q), NEW x
  PROVE  x \in Points(q) <=>
           /\ x \in [Cols -> -Reach..Reach]
           /\ \A j \in Cols : q.lo[j] <= x[j] /\ x[j] <= q.hi[j]
           /\ \A i \in q.rows : Compare(q.kind[i], Dot(q.a[i], x), q.b[i])
<1>1. Reach \in Nat
  BY LpDataAssumption
<1>2. ASSUME x \in [Cols -> -Reach..Reach] PROVE x \in [Cols -> Int]
  BY <1>1, <1>2
<1> QED
  BY <1>2, ActivityIs DEF Points, IsFeasible

\* What one row says in a comparison.
LEMMA CompareIs ==
  ASSUME NEW kind \in {"Le", "Ge", "Eq"}, NEW v \in Int, NEW w \in Int
  PROVE  /\ Compare(kind, v, w) /\ kind # "Ge" => v <= w
         /\ Compare(kind, v, w) /\ kind # "Le" => v >= w
         /\ (kind # "Ge" => v <= w) /\ (kind # "Le" => v >= w) => Compare(kind, v, w)
<1>1. CASE kind = "Le"
  <2>1. Compare(kind, v, w) <=> v <= w
    BY <1>1, Zenon DEF Compare
  <2> QED
    BY <1>1, <2>1
<1>2. CASE kind = "Ge"
  <2>1. Compare(kind, v, w) <=> v >= w
    BY <1>2, Zenon DEF Compare
  <2> QED
    BY <1>2, <2>1
<1>3. CASE kind = "Eq"
  <2>1. Compare(kind, v, w) <=> v = w
    BY <1>3, Zenon DEF Compare
  <2> QED
    BY <1>3, <2>1
<1> QED
  BY <1>1, <1>2, <1>3

\* What the other columns of a row contribute at least and at most.
LEMMA RestIs ==
  ASSUME NEW q, Shaped(q), NEW i \in q.rows, NEW j \in Cols
  PROVE  LET rest == RowCols(q, i) \ {j}
         IN  /\ MinActivity(q, i, rest) \in Int /\ MaxActivity(q, i, rest) \in Int
             /\ \A x \in Points(q) :
                  /\ MinActivity(q, i, rest) <= Dot(q.a[i], x) - q.a[i][j] * x[j]
                  /\ Dot(q.a[i], x) - q.a[i][j] * x[j] <= MaxActivity(q, i, rest)
<1> DEFINE rest == RowCols(q, i) \ {j}
           f == [k \in rest |-> q.a[i][k] * Least(q, i, k)]
           g == [k \in rest |-> q.a[i][k] * Most(q, i, k)]
<1>1. PICK a \in [Cols -> Int] : a = q.a[i]
  BY ShapeIs
<1>2. rest \in SUBSET Cols /\ rest \in SUBSET (1..3)
  BY ShapeIs, ColsAre DEF RowCols
<1>3. \A k \in Cols : Least(q, i, k) \in Int /\ Most(q, i, k) \in Int
  BY ShapeIs DEF Least, Most
<1>4. DOMAIN f \in SUBSET (1..3) /\ (\A k \in DOMAIN f : f[k] \in Int)
      /\ DOMAIN g \in SUBSET (1..3) /\ (\A k \in DOMAIN g : g[k] \in Int)
  BY <1>1, <1>2, <1>3
<1>5. /\ MinActivity(q, i, rest) = Term(f, 1) + Term(f, 2) + Term(f, 3)
      /\ MaxActivity(q, i, rest) = Term(g, 1) + Term(g, 2) + Term(g, 3)
      /\ MinActivity(q, i, rest) \in Int /\ MaxActivity(q, i, rest) \in Int
  <2>1. MinActivity(q, i, rest) = SumFunction(f) /\ MaxActivity(q, i, rest) = SumFunction(g)
    BY DEF MinActivity, MaxActivity
  <2> HIDE DEF f, g
  <2> QED
    BY <1>4, <2>1, SumIs
<1>6. ASSUME NEW x \in Points(q)
      PROVE  /\ MinActivity(q, i, rest) <= Dot(q.a[i], x) - q.a[i][j] * x[j]
             /\ Dot(q.a[i], x) - q.a[i][j] * x[j] <= MaxActivity(q, i, rest)
  <2> DEFINE P(k) == IF k = j THEN 0 ELSE a[k] * x[k]
  <2>1. x \in [Cols -> Int] /\ \A k \in Cols : q.lo[k] <= x[k] /\ x[k] <= q.hi[k]
    <3>1. Reach \in Nat
      BY LpDataAssumption
    <3> QED
      BY <3>1, PointIs
  <2>2. ASSUME NEW k \in Cols
        PROVE  /\ Term(f, k) \in Int /\ Term(g, k) \in Int /\ P(k) \in Int
               /\ Term(f, k) <= P(k) /\ P(k) <= Term(g, k)
    <3>1. q.lo[k] \in Int /\ q.hi[k] \in Int /\ x[k] \in Int /\ a[k] \in Int
      BY ShapeIs, <1>1, <2>1
    <3>2. CASE k \in rest
      <4>1. Term(f, k) = a[k] * Least(q, i, k) /\ Term(g, k) = a[k] * Most(q, i, k) /\ P(k) = a[k] * x[k]
        BY <3>2, <1>1 DEF Term
      <4>2. CASE a[k] > 0
        <5>1. Least(q, i, k) = q.lo[k] /\ Most(q, i, k) = q.hi[k]
          BY <4>2, <1>1 DEF Least, Most
        <5> HIDE DEF f, g, P
        <5> QED
          BY <2>1, <3>1, <4>1, <4>2, <5>1, Times
      <4>3. CASE ~(a[k] > 0)
        <5>1. Least(q, i, k) = q.hi[k] /\ Most(q, i, k) = q.lo[k]
          BY <4>3, <1>1 DEF Least, Most
        <5>2. (-a[k]) * x[k] <= (-a[k]) * q.hi[k] /\ (-a[k]) * q.lo[k] <= (-a[k]) * x[k]
          BY <2>1, <3>1, <4>3, Times
        <5>3. /\ (-a[k]) * x[k] = -(a[k] * x[k]) /\ (-a[k]) * q.hi[k] = -(a[k] * q.hi[k])
              /\ (-a[k]) * q.lo[k] = -(a[k] * q.lo[k])
              /\ a[k] * x[k] \in Int /\ a[k] * q.hi[k] \in Int /\ a[k] * q.lo[k] \in Int
          BY <3>1
        <5> HIDE DEF f, g, P
        <5> QED
          BY <4>1, <5>1, <5>2, <5>3
      <4> QED
        BY <4>2, <4>3
    <3>3. CASE k \notin rest
      <4>1. k = j \/ a[k] = 0
        BY <3>3, <1>1, ShapeIs DEF RowCols
      <4>2. Term(f, k) = 0 /\ Term(g, k) = 0 /\ P(k) = 0
        BY <3>3, <4>1, <3>1 DEF Term
      <4> HIDE DEF f, g, P
      <4> QED
        BY <4>2
    <3> QED
      BY <3>2, <3>3
  <2>3. P(1) + P(2) + P(3) = Dot(a, x) - a[j] * x[j]
    <3>1. a[1] * x[1] \in Int /\ a[2] * x[2] \in Int /\ a[3] * x[3] \in Int
      BY ColsAre, <2>1
    <3>2. j = 1 \/ j = 2 \/ j = 3
      BY ColsAre
    <3> QED
      BY <3>1, <3>2 DEF Dot
  <2>4. P(1) \in Int /\ P(2) \in Int /\ P(3) \in Int
        /\ Term(f, 1) \in Int /\ Term(f, 2) \in Int /\ Term(f, 3) \in Int
        /\ Term(g, 1) \in Int /\ Term(g, 2) \in Int /\ Term(g, 3) \in Int
        /\ Term(f, 1) <= P(1) /\ Term(f, 2) <= P(2) /\ Term(f, 3) <= P(3)
        /\ P(1) <= Term(g, 1) /\ P(2) <= Term(g, 2) /\ P(3) <= Term(g, 3)
    BY <2>2, ColsAre
  <2> HIDE DEF P, f, g
  <2> QED
    BY <1>1, <1>5, <2>3, <2>4
<1> QED
  BY <1>5, <1>6

\* The largest of a value and at most one other, and the smallest.
LEMMA OneMore ==
  ASSUME NEW u \in Int, NEW T \in SUBSET Int, T = {} \/ \E w \in Int : T = {w}
  PROVE  /\ Max({u} \cup T) \in Int /\ u <= Max({u} \cup T)
         /\ \A x \in Int : u <= x /\ (\A t \in T : t <= x) => Max({u} \cup T) <= x
         /\ Min({u} \cup T) \in Int /\ Min({u} \cup T) <= u
         /\ \A x \in Int : x <= u /\ (\A t \in T : x <= t) => x <= Min({u} \cup T)
<1> DEFINE S == {u} \cup T
<1>1. IsFiniteSet(S)
  <2>1. IsFiniteSet({u}) /\ \A w \in Int : IsFiniteSet({w})
    BY FS_Singleton
  <2>2. IsFiniteSet(T)
    BY <2>1, FS_EmptySet
  <2> QED
    BY <2>1, <2>2, FS_Union
<1>2. S \in SUBSET Int /\ S # {} /\ u \in S
  OBVIOUS
<1>3. Max(S) \in S /\ (\A y \in S : y <= Max(S)) /\ Min(S) \in S /\ \A y \in S : Min(S) <= y
  <2> HIDE DEF S
  <2> QED
    BY <1>1, <1>2, MaxIs, MinIs
<1> QED
  BY <1>2, <1>3

\* What a row implies of a column lies within its bounds, and holds of every point.
LEMMA ImpliedIs ==
  ASSUME NEW q, Shaped(q), NEW i \in q.rows, NEW j \in RowCols(q, i)
  PROVE  LET v == ImpliedInteger(q, i, j)
         IN  /\ v.lo \in Int /\ v.hi \in Int /\ q.lo[j] <= v.lo /\ v.hi <= q.hi[j]
             /\ \A x \in Points(q) : v.lo <= x[j] /\ x[j] <= v.hi
<1> DEFINE d == Magnitude(q.a[i][j])
           rest == RowCols(q, i) \ {j}
           m == MinActivity(q, i, rest)
           M == MaxActivity(q, i, rest)
           r == q.b[i]
           below == IF q.kind[i] # "Ge" /\ MinFinite(q, i, rest) THEN {Room(r - m, d)} ELSE {}
           above == IF q.kind[i] # "Le" /\ MaxFinite(q, i, rest) THEN {Room(M - r, d)} ELSE {}
           positive == q.a[i][j] > 0
           caps == IF positive THEN below ELSE above
           floors == {-w : w \in IF positive THEN above ELSE below}
<1>1. j \in Cols /\ q.a[i][j] \in Int /\ q.a[i][j] # 0 /\ r \in Int /\ q.kind[i] \in {"Le", "Ge", "Eq"}
      /\ q.lo[j] \in Int /\ q.hi[j] \in Int
  BY ShapeIs DEF RowCols
<1>2. d \in Int /\ d > 0
  BY <1>1 DEF Magnitude
<1>3. m \in Int /\ M \in Int
  BY <1>1, RestIs
<1>4. Room(r - m, d) \in Int /\ Room(M - r, d) \in Int
      /\ (\A y \in Int : d * y <= r - m => y <= Room(r - m, d))
      /\ (\A y \in Int : d * y <= M - r => y <= Room(M - r, d))
  <2> HIDE DEF d, m, M, r
  <2>1. r - m \in Int /\ M - r \in Int
    BY <1>1, <1>3
  <2> QED
    BY <1>2, <2>1, Floor DEF Room
<1>5. /\ caps \in SUBSET Int /\ (caps = {} \/ \E w \in Int : caps = {w})
      /\ floors \in SUBSET Int /\ (floors = {} \/ \E w \in Int : floors = {w})
  <2>1. /\ below \in SUBSET Int /\ (below = {} \/ \E w \in Int : below = {w})
        /\ above \in SUBSET Int /\ (above = {} \/ \E w \in Int : above = {w})
    <3> HIDE DEF d, m, M, r, rest
    <3> QED
      BY <1>4
  <2> HIDE DEF below, above
  <2>2. \A S : S = {} \/ (\E w \in Int : S = {w}) =>
             {-u : u \in S} \in SUBSET Int
             /\ ({-u : u \in S} = {} \/ \E w \in Int : {-u : u \in S} = {w})
    <3> TAKE S
    <3>1. CASE S = {}
      BY <3>1
    <3>2. ASSUME NEW w \in Int, S = {w}
          PROVE  {-u : u \in S} = {-w} /\ -w \in Int
      BY <3>2
    <3> QED
      BY <3>1, <3>2
  <2> HIDE DEF positive
  <2>3. CASE positive
    BY <2>1, <2>2, <2>3
  <2>4. CASE ~positive
    BY <2>1, <2>2, <2>4
  <2> QED
    BY <2>3, <2>4
<1>6. ImpliedInteger(q, i, j) = [lo |-> Max({q.lo[j]} \cup floors), hi |-> Min({q.hi[j]} \cup caps)]
  BY DEF ImpliedInteger
<1>7. ASSUME NEW x \in Points(q)
      PROVE  /\ x[j] \in Int /\ q.lo[j] <= x[j] /\ x[j] <= q.hi[j]
             /\ (\A t \in floors : t <= x[j]) /\ (\A t \in caps : x[j] <= t)
  <2> DEFINE D == Dot(q.a[i], x)
  <2>1. x[j] \in Int /\ q.lo[j] <= x[j] /\ x[j] <= q.hi[j]
    <3>1. Reach \in Nat
      BY LpDataAssumption
    <3> QED
      BY <1>1, <3>1, PointIs
  <2>2. D \in Int
    <3>1. Reach \in Nat
      BY LpDataAssumption
    <3>2. x \in [Cols -> Int]
      BY <3>1, PointIs
    <3> QED
      BY <3>2, ActivityIs
  <2>3. m <= D - q.a[i][j] * x[j] /\ D - q.a[i][j] * x[j] <= M
    BY <1>1, RestIs
  <2>4. (q.kind[i] # "Ge" => D <= r) /\ (q.kind[i] # "Le" => D >= r)
    <3>1. Compare(q.kind[i], D, r)
      BY PointIs
    <3> HIDE DEF D, r
    <3> QED
      BY <1>1, <2>2, <3>1, CompareIs
  <2>5. PICK t \in Int : t = q.a[i][j] * x[j]
    BY <1>1, <2>1
  <2>6. (q.kind[i] # "Ge" => t <= r - m) /\ (q.kind[i] # "Le" => -t <= M - r)
    <3> HIDE DEF D, r, m, M
    <3> QED
      BY <1>1, <1>3, <2>2, <2>3, <2>4, <2>5
  <2>7. CASE positive
    <3>1. d * x[j] = t /\ d * (-x[j]) = -t
      BY <2>7, <2>1, <1>1, <2>5 DEF Magnitude
    <3>2. \A w \in below : x[j] <= w
      <4> HIDE DEF d, m, M, r, rest
      <4> QED
        BY <1>4, <2>6, <3>1, <2>1
    <3>3. \A w \in above : -x[j] <= w /\ w \in Int
      <4> HIDE DEF d, m, M, r, rest
      <4> QED
        BY <1>4, <2>6, <3>1, <2>1
    <3> HIDE DEF below, above
    <3> QED
      BY <2>1, <2>7, <3>2, <3>3
  <2>8. CASE ~positive
    <3>1. d * (-x[j]) = t /\ d * x[j] = -t
      <4>1. PICK a \in Int, y \in Int : a = q.a[i][j] /\ y = x[j]
        BY <1>1, <2>1
      <4>2. d = -a
        BY <2>8, <4>1, <1>1 DEF Magnitude
      <4>3. (-a) * (-y) = a * y /\ (-a) * y = -(a * y)
        OBVIOUS
      <4> HIDE DEF d
      <4> QED
        BY <2>5, <4>1, <4>2, <4>3
    <3>2. \A w \in above : x[j] <= w
      <4> HIDE DEF d, m, M, r, rest
      <4> QED
        BY <1>4, <2>6, <3>1, <2>1
    <3>3. \A w \in below : -x[j] <= w /\ w \in Int
      <4> HIDE DEF d, m, M, r, rest
      <4> QED
        BY <1>4, <2>6, <3>1, <2>1
    <3> HIDE DEF below, above
    <3> QED
      BY <2>1, <2>8, <3>2, <3>3
  <2> HIDE DEF floors, caps
  <2> QED
    BY <2>1, <2>7, <2>8
<1> HIDE DEF floors, caps
<1>8. /\ Max({q.lo[j]} \cup floors) \in Int /\ q.lo[j] <= Max({q.lo[j]} \cup floors)
      /\ Min({q.hi[j]} \cup caps) \in Int /\ Min({q.hi[j]} \cup caps) <= q.hi[j]
  BY <1>1, <1>5, OneMore
<1>9. ASSUME NEW x \in Points(q)
      PROVE  Max({q.lo[j]} \cup floors) <= x[j] /\ x[j] <= Min({q.hi[j]} \cup caps)
  BY <1>1, <1>5, <1>7, OneMore
<1> QED
  BY <1>6, <1>8, <1>9

-----------------------------------------------------------------------------
(* Propagation and probing *)

\* A program with bounds at least as tight that keeps every point.
Tightens(q, p) ==
  /\ p \in BoxesOf(q)
  /\ \A j \in Cols : q.lo[j] <= p.lo[j] /\ p.hi[j] <= q.hi[j]
  /\ Points(q) \subseteq Points(p)

\* What is in the boxes of a program.
LEMMA BoxOf ==
  ASSUME NEW q, Shaped(q), NEW p \in BoxesOf(q)
  PROVE  /\ Shaped(p) /\ p.a = q.a /\ p.b = q.b /\ p.kind = q.kind /\ p.rows = q.rows
         /\ p.cols = q.cols /\ p.ints = q.ints /\ p.c = q.c /\ p.off = q.off
         /\ p = Boxed(q, p.lo, p.hi) /\ p.lo \in [Cols -> Int] /\ p.hi \in [Cols -> Int]
         /\ BoxesOf(p) = BoxesOf(q) /\ p \in BoxesOf(p)
<1>1. PICK l \in [Cols -> Int], h \in [Cols -> Int] : p = Boxed(q, l, h)
  BY DEF BoxesOf
<1>2. /\ Shaped(p) /\ p.a = q.a /\ p.b = q.b /\ p.kind = q.kind /\ p.rows = q.rows
      /\ p.cols = q.cols /\ p.ints = q.ints /\ p.c = q.c /\ p.off = q.off
      /\ p.lo = l /\ p.hi = h
  BY <1>1, BoxedIs
<1>3. BoxesOf(p) = BoxesOf(q)
  BY <1>1, BoxedTwice DEF BoxesOf
<1> QED
  BY <1>1, <1>2, <1>3

\* A program is in its own box.
LEMMA OwnBox == ASSUME NEW q, Shaped(q) PROVE q \in BoxesOf(q)
  BY BoxedItself, ShapeIs DEF BoxesOf

\* Points of a program in other bounds.
LEMMA BoxPoints ==
  ASSUME NEW q, Shaped(q), NEW l \in [Cols -> Int], NEW h \in [Cols -> Int], NEW x
  PROVE  x \in Points(Boxed(q, l, h)) <=>
           /\ x \in [Cols -> -Reach..Reach]
           /\ \A j \in Cols : l[j] <= x[j] /\ x[j] <= h[j]
           /\ \A i \in q.rows : Compare(q.kind[i], Dot(q.a[i], x), q.b[i])
<1> DEFINE p == Boxed(q, l, h)
<1>1. Shaped(p) /\ p.lo = l /\ p.hi = h /\ p.a = q.a /\ p.b = q.b /\ p.kind = q.kind /\ p.rows = q.rows
  BY BoxedIs
<1> HIDE DEF p
<1>2. x \in Points(p) <=>
           /\ x \in [Cols -> -Reach..Reach]
           /\ \A j \in Cols : l[j] <= x[j] /\ x[j] <= h[j]
           /\ \A i \in q.rows : Compare(q.kind[i], Dot(q.a[i], x), q.b[i])
  BY <1>1, PointIs
<1> QED
  BY <1>2 DEF p

\* Tighter bounds that every point keeps.
LEMMA Tightened ==
  ASSUME NEW q, Shaped(q), NEW l \in [Cols -> Int], NEW h \in [Cols -> Int],
         \A j \in Cols : q.lo[j] <= l[j] /\ h[j] <= q.hi[j],
         \A x \in Points(q) : \A j \in Cols : l[j] <= x[j] /\ x[j] <= h[j]
  PROVE  Tightens(q, Boxed(q, l, h))
<1>1. Boxed(q, l, h) \in BoxesOf(q)
  BY DEF BoxesOf
<1>2. Boxed(q, l, h).lo = l /\ Boxed(q, l, h).hi = h
  BY BoxedIs
<1>3. ASSUME NEW x \in Points(q) PROVE x \in Points(Boxed(q, l, h))
  BY BoxPoints, PointIs
<1> QED
  BY <1>1, <1>2, <1>3 DEF Tightens

\* Tightening twice is tightening.
LEMMA TightensTwice ==
  ASSUME NEW q, Shaped(q), NEW p, Tightens(q, p), NEW r, Tightens(p, r)
  PROVE  Tightens(q, r)
<1>1. p \in BoxesOf(q) /\ r \in BoxesOf(p)
  BY DEF Tightens
<1>2. Shaped(p) /\ p.lo \in [Cols -> Int] /\ p.hi \in [Cols -> Int] /\ BoxesOf(p) = BoxesOf(q)
  BY <1>1, BoxOf
<1>3. r.lo \in [Cols -> Int] /\ r.hi \in [Cols -> Int]
  BY <1>1, <1>2, BoxOf
<1>4. \A j \in Cols : q.lo[j] \in Int /\ q.hi[j] \in Int /\ p.lo[j] \in Int /\ p.hi[j] \in Int
                      /\ r.lo[j] \in Int /\ r.hi[j] \in Int
  BY <1>2, <1>3, ShapeIs
<1>5. \A j \in Cols : q.lo[j] <= r.lo[j] /\ r.hi[j] <= q.hi[j]
  BY <1>4 DEF Tightens
<1> QED
  BY <1>1, <1>2, <1>5 DEF Tightens

\* And a program tightens itself.
LEMMA TightensItself == ASSUME NEW q, Shaped(q) PROVE Tightens(q, q)
<1>1. q \in BoxesOf(q) /\ q.lo \in [Cols -> Int] /\ q.hi \in [Cols -> Int]
  BY OwnBox, ShapeIs
<1> QED
  BY <1>1 DEF Tightens

\* A row's propagation.
LEMMA RowTightens ==
  ASSUME NEW q, Shaped(q), NEW i \in q.rows
  PROVE  Tightens(q, PropagateRow(q, i))
<1> DEFINE v == [j \in RowCols(q, i) |-> ImpliedInteger(q, i, j)]
           l == Over(q.lo, v, "lo")
           h == Over(q.hi, v, "hi")
<1>1. DOMAIN v \in SUBSET Cols
  BY ShapeIs DEF RowCols
<1>2. ASSUME NEW j \in DOMAIN v
      PROVE  /\ v[j].lo \in Int /\ v[j].hi \in Int /\ q.lo[j] <= v[j].lo /\ v[j].hi <= q.hi[j]
             /\ \A x \in Points(q) : v[j].lo <= x[j] /\ x[j] <= v[j].hi
  BY <1>2, ImpliedIs
<1>3. PropagateRow(q, i) = WithBounds(q, v)
  BY DEF PropagateRow
<1> HIDE DEF v
<1>4. WithBounds(q, v) = Boxed(q, l, h) /\ l \in [Cols -> Int] /\ h \in [Cols -> Int]
  BY <1>1, <1>2, WithBoundsIs
<1>5. ASSUME NEW j \in Cols
      PROVE  /\ q.lo[j] <= l[j] /\ h[j] <= q.hi[j]
             /\ \A x \in Points(q) : l[j] <= x[j] /\ x[j] <= h[j]
  <2>1. CASE j \in DOMAIN v
    <3>1. l[j] = v[j].lo /\ h[j] = v[j].hi
      BY <2>1 DEF Over
    <3> QED
      BY <1>2, <2>1, <3>1
  <2>2. CASE j \notin DOMAIN v
    <3>1. l[j] = q.lo[j] /\ h[j] = q.hi[j]
      BY <2>2 DEF Over
    <3> QED
      BY <3>1, ShapeIs, PointIs
  <2> QED
    BY <2>1, <2>2
<1> HIDE DEF l, h
<1> QED
  BY <1>3, <1>4, <1>5, Tightened

\* A fold from the left whose steps stay in a set does.
LEMMA FoldStays ==
  ASSUME NEW n \in Nat, NEW V, NEW base \in V, NEW iter, iter[{}] = base,
         \A k \in 1..n : iter[1..(k - 1)] \in V => iter[1..k] \in V
  PROVE  iter[1..n] \in V
<1> DEFINE G == {k \in 0..n : iter[1..k] \in V}
<1>1. 0 \in G
  BY IntervalIs
<1>2. \A k \in 1..n : k - 1 \in G => k \in G
  OBVIOUS
<1> HIDE DEF G
<1>3. \A k \in 0..n : k \in G
  BY <1>1, <1>2, StepByStep
<1>4. n \in 0..n
  OBVIOUS
<1> QED
  BY <1>3, <1>4 DEF G

\* The sets of programs a fold over rows goes through.
Tighter(q) == {p \in BoxesOf(q) : Tightens(q, p)}

\* A propagation pass.
LEMMA PassTightens == ASSUME NEW q, Shaped(q) PROVE Tightens(q, PropagationPass(q))
<1> DEFINE n == Len(q.a)
           V == Tighter(q)
           Step(p, i) == IF IsEmptyBox(p) THEN p ELSE PropagateRow(p, i)
           Fold(it) == it = [s \in SUBSET (1..n) |->
                              IF s = {} THEN q
                              ELSE Step(it[s \ {Max(s)}], RowOrder(q)[Max(s)])]
           iter == CHOOSE it : Fold(it)
           g == [p \in V \X (1..n) |-> Step(p[1], p[2])]
<1>1. n \in Nat /\ q.rows = 1..n
  BY DEF Shaped
<1>2. RowOrder(q) = [i \in 1..n |-> i]
  <2>1. Cardinality(1..n) = n
    <3> HIDE DEF n
    <3> QED
      BY <1>1, FS_Interval
  <2> QED
    BY <1>1, <2>1 DEF RowOrder
<1>3. PropagationPass(q) = iter[1..n]
  BY <1>2 DEF PropagationPass, FoldLeft, MapThenFoldSet
<1>4. ASSUME NEW p \in V, NEW i \in 1..n PROVE Step(p, i) \in V
  <2>1. Shaped(p) /\ p.rows = 1..n /\ Tightens(q, p)
    BY <1>1, BoxOf DEF Tighter
  <2>2. Tightens(p, Step(p, i))
    BY <2>1, RowTightens, TightensItself
  <2> HIDE DEF Step
  <2>3. Tightens(q, Step(p, i))
    BY <2>1, <2>2, TightensTwice
  <2> QED
    BY <2>3 DEF Tighter, Tightens
<1>5. q \in V
  BY TightensItself, OwnBox DEF Tighter
<1>6. g \in [V \X (1..n) -> V]
  <2> HIDE DEF V, Step
  <2> QED
    BY <1>4
<1>7. \E it : Fold(it)
  <2>1. PICK it \in [SUBSET (1..n) -> V] : LeftFolds(it, n, q, g)
    <3> HIDE DEF n, V, g
    <3> QED
      BY <1>1, <1>5, <1>6, LeftFold
  <2>2. ASSUME NEW s \in SUBSET (1..n), s # {}
        PROVE  g[<<it[s \ {Max(s)}], Max(s)>>] = Step(it[s \ {Max(s)}], RowOrder(q)[Max(s)])
    <3>1. Max(s) \in 1..n /\ it[s \ {Max(s)}] \in V
      BY <1>1, <2>1, <2>2, IntervalIs
    <3> HIDE DEF V, Step
    <3> QED
      BY <1>2, <3>1
  <2> HIDE DEF V, g, Step
  <2>3. Fold(it)
    BY <2>1, <2>2 DEF LeftFolds
  <2> HIDE DEF Fold
  <2> QED
    BY <2>3
<1>8. Fold(iter)
  BY <1>7
<1>9. ASSUME NEW k \in 1..n PROVE iter[1..k] = Step(iter[1..(k - 1)], k)
  <2>1. 1..k \in SUBSET (1..n) /\ 1..k # {} /\ Max(1..k) = k /\ (1..k) \ {k} = 1..(k - 1)
    BY <1>1, IntervalIs
  <2> HIDE DEF iter, Step
  <2> QED
    BY <1>2, <1>8, <2>1
<1>10. iter[{}] = q
  <2> HIDE DEF iter, Step
  <2> QED
    BY <1>8
<1>11. iter[1..n] \in V
  <2>1. \A k \in 1..n : iter[1..(k - 1)] \in V => iter[1..k] \in V
    <3> HIDE DEF iter, Step, V, n
    <3> QED
      BY <1>4, <1>9
  <2> HIDE DEF iter, Step, V, n
  <2> QED
    BY <1>1, <1>5, <1>10, <2>1, FoldStays
<1> QED
  BY <1>3, <1>11 DEF Tighter

\* Passes in a row.
LEMMA PassesTighten ==
  ASSUME NEW q, Shaped(q), NEW n \in Nat
  PROVE  Tightens(q, Propagated(q, n))
<1> DEFINE V == Tighter(q)
           Fold(it) == it = [s \in SUBSET (1..n) |->
                              IF s = {} THEN q ELSE PropagationPass(it[s \ {Max(s)}])]
           iter == CHOOSE it : Fold(it)
           g == [p \in V \X (1..n) |-> PropagationPass(p[1])]
<1>1. Propagated(q, n) = iter[1..n]
  BY DEF Propagated, FoldLeft, MapThenFoldSet
<1>2. ASSUME NEW p \in V PROVE PropagationPass(p) \in V
  <2>1. Shaped(p) /\ Tightens(q, p)
    BY BoxOf DEF Tighter
  <2>2. Tightens(p, PropagationPass(p))
    BY <2>1, PassTightens
  <2>3. Tightens(q, PropagationPass(p))
    BY <2>1, <2>2, TightensTwice
  <2> QED
    BY <2>3 DEF Tighter, Tightens
<1>3. q \in V
  BY TightensItself, OwnBox DEF Tighter
<1>4. g \in [V \X (1..n) -> V]
  <2> HIDE DEF V
  <2> QED
    BY <1>2
<1>5. \E it : Fold(it)
  <2>1. PICK it \in [SUBSET (1..n) -> V] : LeftFolds(it, n, q, g)
    <3> HIDE DEF V, g
    <3> QED
      BY <1>3, <1>4, LeftFold
  <2>2. ASSUME NEW s \in SUBSET (1..n), s # {}
        PROVE  g[<<it[s \ {Max(s)}], Max(s)>>] = PropagationPass(it[s \ {Max(s)}])
    <3>1. Max(s) \in 1..n /\ it[s \ {Max(s)}] \in V
      BY <2>1, <2>2, IntervalIs
    <3> HIDE DEF V
    <3> QED
      BY <3>1
  <2> HIDE DEF V, g
  <2>3. Fold(it)
    BY <2>1, <2>2 DEF LeftFolds
  <2> HIDE DEF Fold
  <2> QED
    BY <2>3
<1>6. Fold(iter)
  BY <1>5
<1>7. ASSUME NEW k \in 1..n PROVE iter[1..k] = PropagationPass(iter[1..(k - 1)])
  <2>1. 1..k \in SUBSET (1..n) /\ 1..k # {} /\ Max(1..k) = k /\ (1..k) \ {k} = 1..(k - 1)
    BY IntervalIs
  <2> HIDE DEF iter
  <2> QED
    BY <1>6, <2>1
<1>8. iter[{}] = q
  <2> HIDE DEF iter
  <2> QED
    BY <1>6
<1>9. iter[1..n] \in V
  <2>1. \A k \in 1..n : iter[1..(k - 1)] \in V => iter[1..k] \in V
    <3> HIDE DEF iter, V
    <3> QED
      BY <1>2, <1>7
  <2> HIDE DEF iter, V
  <2> QED
    BY <1>3, <1>8, <2>1, FoldStays
<1> QED
  BY <1>1, <1>9 DEF Tighter

\* A column fixed within its bounds.
LEMMA FixedIs ==
  ASSUME NEW q, Shaped(q), NEW j \in Cols, NEW v \in Int
  PROVE  /\ FixedAt(q, j, v) \in BoxesOf(q)
         /\ q.lo[j] <= v /\ v <= q.hi[j] =>
              \A k \in Cols : q.lo[k] <= FixedAt(q, j, v).lo[k] /\ FixedAt(q, j, v).hi[k] <= q.hi[k]
         /\ \A x \in Points(q) : x[j] = v => x \in Points(FixedAt(q, j, v))
<1> DEFINE w == [k \in {j} |-> [lo |-> v, hi |-> v]]
           l == Over(q.lo, w, "lo")
           h == Over(q.hi, w, "hi")
<1>1. DOMAIN w \in SUBSET Cols /\ \A k \in DOMAIN w : w[k].lo \in Int /\ w[k].hi \in Int
  OBVIOUS
<1>2. FixedAt(q, j, v) = WithBounds(q, w)
  BY DEF FixedAt
<1>3. \A k \in Cols : l[k] = (IF k = j THEN v ELSE q.lo[k]) /\ h[k] = (IF k = j THEN v ELSE q.hi[k])
  BY DEF Over
<1> HIDE DEF w
<1>4. WithBounds(q, w) = Boxed(q, l, h) /\ l \in [Cols -> Int] /\ h \in [Cols -> Int]
  BY <1>1, WithBoundsIs
<1> HIDE DEF l, h
<1>5. Boxed(q, l, h) \in BoxesOf(q) /\ Boxed(q, l, h).lo = l /\ Boxed(q, l, h).hi = h
  BY <1>4, BoxedIs DEF BoxesOf
<1>6. \A k \in Cols : q.lo[k] \in Int /\ q.hi[k] \in Int
  BY ShapeIs
<1>7. ASSUME NEW x \in Points(q), x[j] = v PROVE x \in Points(Boxed(q, l, h))
  <2>1. \A k \in Cols : l[k] <= x[k] /\ x[k] <= h[k]
    BY <1>3, <1>7, PointIs
  <2> QED
    BY <1>4, <2>1, BoxPoints, PointIs
<1> QED
  BY <1>2, <1>3, <1>4, <1>5, <1>6, <1>7

\* No point is in a box whose bounds are crossed.
LEMMA NoPointInEmptyBox == ASSUME NEW q, Shaped(q), IsEmptyBox(q) PROVE Points(q) = {}
<1>1. PICK j \in Cols : q.lo[j] > q.hi[j] /\ q.lo[j] \in Int /\ q.hi[j] \in Int
  BY ShapeIs DEF IsEmptyBox
<1>2. \A x \in Points(q) : FALSE
  <2> TAKE x \in Points(q)
  <2>1. Reach \in Nat
    BY LpDataAssumption
  <2>2. q.lo[j] <= x[j] /\ x[j] <= q.hi[j] /\ x[j] \in Int
    BY <2>1, PointIs
  <2> QED
    BY <1>1, <2>2
<1> QED
  BY <1>2

\* A column fixed, and a pass: no point with that value is lost.
LEMMA FixedPass ==
  ASSUME NEW q, Shaped(q), NEW j \in Cols, NEW v \in Int, q.lo[j] <= v, v <= q.hi[j]
  PROVE  LET p == PropagationPass(FixedAt(q, j, v))
         IN  /\ p \in BoxesOf(q)
             /\ \A k \in Cols : q.lo[k] <= p.lo[k] /\ p.hi[k] <= q.hi[k]
             /\ \A x \in Points(q) : x[j] = v => x \in Points(p)
<1> DEFINE f == FixedAt(q, j, v)
           p == PropagationPass(f)
<1>1. /\ f \in BoxesOf(q)
      /\ \A k \in Cols : q.lo[k] <= f.lo[k] /\ f.hi[k] <= q.hi[k]
      /\ \A x \in Points(q) : x[j] = v => x \in Points(f)
  BY FixedIs
<1> HIDE DEF f
<1>2. Shaped(f) /\ BoxesOf(f) = BoxesOf(q)
  BY <1>1, BoxOf
<1>3. Tightens(f, p)
  BY <1>2, PassTightens
<1> HIDE DEF p
<1>4. p \in BoxesOf(q) /\ p \in BoxesOf(f)
  BY <1>2, <1>3 DEF Tightens
<1>5. \A k \in Cols : /\ p.lo[k] \in Int /\ p.hi[k] \in Int /\ f.lo[k] \in Int /\ f.hi[k] \in Int
                      /\ q.lo[k] \in Int /\ q.hi[k] \in Int
  BY <1>1, <1>4, <1>2, BoxOf, ShapeIs
<1>6. \A k \in Cols : f.lo[k] <= p.lo[k] /\ p.hi[k] <= f.hi[k]
  BY <1>3 DEF Tightens
<1>7. \A k \in Cols : q.lo[k] <= p.lo[k] /\ p.hi[k] <= q.hi[k]
  BY <1>1, <1>5, <1>6
<1>8. \A x \in Points(q) : x[j] = v => x \in Points(p)
  BY <1>1, <1>3 DEF Tightens
<1> QED
  BY <1>4, <1>7, <1>8 DEF p, f

\* One probe of a binary.
LEMMA ProbeTightens ==
  ASSUME NEW q, Shaped(q), NEW C \in SUBSET Cols, NEW j \in Cols, q.lo[j] >= 0, q.hi[j] <= 1
  PROVE  LET s == ProbeStep([lp |-> q, changed |-> C], j)
         IN  /\ s = [lp |-> s.lp, changed |-> s.changed] /\ s.changed \in SUBSET Cols
             /\ Tightens(q, s.lp)
<1> DEFINE zero == PropagationPass(FixedAt(q, j, 0))
           one == PropagationPass(FixedAt(q, j, 1))
           w == [k \in q.cols \ {j} |-> Envelope(q, zero, one, k)]
           both == WithBounds(q, w)
           moved == {k \in q.cols : both.lo[k] # q.lo[k] \/ both.hi[k] # q.hi[k]}
           step == IF IsEmptyBox(q) \/ q.lo[j] = q.hi[j] THEN [lp |-> q, changed |-> C]
                   ELSE IF IsEmptyBox(zero) THEN [lp |-> one, changed |-> C \cup {j}]
                   ELSE IF IsEmptyBox(one) THEN [lp |-> zero, changed |-> C \cup {j}]
                   ELSE [lp |-> both, changed |-> C \cup moved]
<1>1. ProbeStep([lp |-> q, changed |-> C], j) = step
  BY DEF ProbeStep
<1>2. q.cols = Cols /\ moved \in SUBSET Cols
  BY ShapeIs
<1>3. CASE IsEmptyBox(q) \/ q.lo[j] = q.hi[j]
  <2>1. step = [lp |-> q, changed |-> C]
    BY <1>3
  <2> HIDE DEF step
  <2> QED
    BY <1>1, <2>1, TightensItself
<1>4. CASE ~(IsEmptyBox(q) \/ q.lo[j] = q.hi[j])
  <2>1. q.lo[j] \in Int /\ q.hi[j] \in Int
    BY ShapeIs
  <2>2. q.lo[j] <= q.hi[j] /\ q.lo[j] # q.hi[j]
    BY <1>2, <1>4, <2>1 DEF IsEmptyBox
  <2>3. q.lo[j] = 0 /\ q.hi[j] = 1
    BY <2>1, <2>2
  <2>4. /\ zero \in BoxesOf(q) /\ one \in BoxesOf(q)
        /\ \A k \in Cols : q.lo[k] <= zero.lo[k] /\ zero.hi[k] <= q.hi[k]
                           /\ q.lo[k] <= one.lo[k] /\ one.hi[k] <= q.hi[k]
        /\ \A x \in Points(q) : /\ x[j] = 0 => x \in Points(zero)
                                /\ x[j] = 1 => x \in Points(one)
    <3>1. PICK u \in Int : u = 0
      OBVIOUS
    <3>2. q.lo[j] <= u /\ u <= q.hi[j] /\ q.lo[j] <= 1 /\ 1 <= q.hi[j]
      BY <2>3, <3>1
    <3>3. zero = PropagationPass(FixedAt(q, j, u))
      BY <3>1
    <3> HIDE DEF zero
    <3>4. /\ zero \in BoxesOf(q)
          /\ \A k \in Cols : q.lo[k] <= zero.lo[k] /\ zero.hi[k] <= q.hi[k]
          /\ \A x \in Points(q) : x[j] = u => x \in Points(zero)
      BY <3>2, <3>3, FixedPass
    <3>5. /\ one \in BoxesOf(q)
          /\ \A k \in Cols : q.lo[k] <= one.lo[k] /\ one.hi[k] <= q.hi[k]
          /\ \A x \in Points(q) : x[j] = 1 => x \in Points(one)
      BY <3>2, FixedPass
    <3> HIDE DEF one
    <3> QED
      BY <3>1, <3>4, <3>5
  <2>5. \A x \in Points(q) : x[j] = 0 \/ x[j] = 1
    <3>1. Reach \in Nat
      BY LpDataAssumption
    <3>2. \A x \in Points(q) : x[j] \in Int /\ 0 <= x[j] /\ x[j] <= 1
      BY <2>3, <3>1, PointIs
    <3> QED
      BY <3>2
  <2>6. Shaped(zero) /\ Shaped(one)
    BY <2>4, BoxOf
  <2>7. IsEmptyBox(zero) => Tightens(q, one)
    <3> HIDE DEF zero, one
    <3>1. IsEmptyBox(zero) => Points(zero) = {}
      BY <2>6, NoPointInEmptyBox
    <3> QED
      BY <2>4, <2>5, <3>1 DEF Tightens
  <2>8. IsEmptyBox(one) => Tightens(q, zero)
    <3> HIDE DEF zero, one
    <3>1. IsEmptyBox(one) => Points(one) = {}
      BY <2>6, NoPointInEmptyBox
    <3> QED
      BY <2>4, <2>5, <3>1 DEF Tightens
  <2>9. Tightens(q, both)
    <3> DEFINE l == Over(q.lo, w, "lo")
               h == Over(q.hi, w, "hi")
    <3>1. \A k \in Cols : /\ q.lo[k] \in Int /\ q.hi[k] \in Int /\ zero.lo[k] \in Int /\ zero.hi[k] \in Int
                          /\ one.lo[k] \in Int /\ one.hi[k] \in Int
      <4> HIDE DEF zero, one
      <4> QED
        BY <2>4, BoxOf, ShapeIs, SMTT(30)
    <3>2. DOMAIN w \in SUBSET Cols
      BY <1>2
    <3>3. ASSUME NEW x \in Points(q), NEW k \in Cols
          PROVE  /\ x[k] \in Int /\ q.lo[k] <= x[k] /\ x[k] <= q.hi[k]
                 /\ \/ zero.lo[k] <= x[k] /\ x[k] <= zero.hi[k]
                    \/ one.lo[k] <= x[k] /\ x[k] <= one.hi[k]
      <4>1. Reach \in Nat
        BY LpDataAssumption
      <4>2. x[k] \in Int /\ q.lo[k] <= x[k] /\ x[k] <= q.hi[k]
        BY <4>1, PointIs
      <4> HIDE DEF zero, one
      <4>3. x \in Points(zero) \/ x \in Points(one)
        BY <2>4, <2>5
      <4> QED
        BY <2>6, <4>2, <4>3, PointIs
    <3>4. ASSUME NEW k \in DOMAIN w
          PROVE  /\ w[k].lo \in Int /\ w[k].hi \in Int /\ q.lo[k] <= w[k].lo /\ w[k].hi <= q.hi[k]
                 /\ \A x \in Points(q) : w[k].lo <= x[k] /\ x[k] <= w[k].hi
      <4>1. k \in Cols /\ w[k] = Envelope(q, zero, one, k)
        BY <3>2
      <4> HIDE DEF zero, one, w
      <4>2. /\ w[k].lo = GreaterOf(q.lo[k], LesserOf(zero.lo[k], one.lo[k]))
            /\ w[k].hi = LesserOf(q.hi[k], GreaterOf(zero.hi[k], one.hi[k]))
        BY <4>1 DEF Envelope
      <4> QED
        BY <3>1, <3>3, <4>1, <4>2 DEF GreaterOf, LesserOf
    <3> HIDE DEF w, zero, one
    <3>5. both = Boxed(q, l, h) /\ l \in [Cols -> Int] /\ h \in [Cols -> Int]
      BY <3>2, <3>4, WithBoundsIs
    <3>6. ASSUME NEW k \in Cols
          PROVE  /\ q.lo[k] <= l[k] /\ h[k] <= q.hi[k]
                 /\ \A x \in Points(q) : l[k] <= x[k] /\ x[k] <= h[k]
      <4>1. CASE k \in DOMAIN w
        <5>1. l[k] = w[k].lo /\ h[k] = w[k].hi
          BY <4>1 DEF Over
        <5> QED
          BY <3>4, <4>1, <5>1
      <4>2. CASE k \notin DOMAIN w
        <5>1. l[k] = q.lo[k] /\ h[k] = q.hi[k]
          BY <4>2 DEF Over
        <5> QED
          BY <3>1, <3>3, <5>1
      <4> QED
        BY <4>1, <4>2
    <3> HIDE DEF l, h, both
    <3> QED
      BY <3>5, <3>6, Tightened
  <2>10. step \in {[lp |-> one, changed |-> C \cup {j}], [lp |-> zero, changed |-> C \cup {j}],
                   [lp |-> both, changed |-> C \cup moved]}
         /\ Tightens(q, step.lp)
    <3> HIDE DEF one, zero, both, moved
    <3> QED
      BY <1>4, <2>7, <2>8, <2>9
  <2>11. C \cup {j} \in SUBSET Cols /\ C \cup moved \in SUBSET Cols
    BY <1>2
  <2> HIDE DEF step, one, zero, both, moved
  <2> QED
    BY <1>1, <2>10, <2>11
<1> QED
  BY <1>3, <1>4

\* Columns in their order.
LEMMA ColumnsInOrder ==
  ASSUME NEW S \in SUBSET Cols
  PROVE  /\ Cardinality(S) \in Nat
         /\ Sorted(S, {p \in S \X S : p[1] < p[2]}) \in [1..Cardinality(S) -> S]
<1> DEFINE R == {p \in S \X S : p[1] < p[2]}
<1>1. IsFiniteSet(S) /\ Cardinality(S) \in Nat
  BY ColsAre, FS_Subset, FS_CardinalityType
<1>2. \A x \in S, y \in S : (<<x, y>> \in R) <=> x < y
  OBVIOUS
<1>3. \A x \in S : x \in Int
  BY ColsAre
<1> HIDE DEF R
<1>4. Orders(R, S)
  BY <1>2, <1>3 DEF Orders
<1>5. Sorted(S, R) \in [1..Cardinality(S) -> S]
  BY <1>1, <1>4, SortedIs
<1> QED
  BY <1>1, <1>5 DEF R

\* A round of probing.
LEMMA ProbingTightens ==
  ASSUME NEW q, Shaped(q), NEW S \in SUBSET Cols, \A j \in S : q.lo[j] >= 0 /\ q.hi[j] <= 1
  PROVE  Tightens(q, Probed(q, S).lp) /\ Probed(q, S).changed \in SUBSET Cols
<1> DEFINE n == Cardinality(S)
           sorted == Sorted(S, {p \in S \X S : p[1] < p[2]})
           V == {[lp |-> p, changed |-> C] : p \in Tighter(q), C \in SUBSET Cols}
           base == [lp |-> q, changed |-> {}]
           Fold(it) == it = [s \in SUBSET (1..n) |->
                              IF s = {} THEN base
                              ELSE ProbeStep(it[s \ {Max(s)}], sorted[Max(s)])]
           iter == CHOOSE it : Fold(it)
           g == [p \in V \X (1..n) |-> ProbeStep(p[1], sorted[p[2]])]
<1>0. n \in Nat /\ sorted \in [1..n -> S]
  BY ColumnsInOrder
<1>1. Probed(q, S) = iter[1..n]
  <2>1. Probed(q, S) = FoldLeft(ProbeStep, base, sorted)
    BY DEF Probed
  <2>2. DOMAIN sorted = 1..n
    BY <1>0
  <2> HIDE DEF sorted, base, n
  <2> QED
    BY <2>1, <2>2 DEF FoldLeft, MapThenFoldSet
<1>2. ASSUME NEW v \in V, NEW k \in 1..n PROVE ProbeStep(v, sorted[k]) \in V
  <2>1. PICK p \in Tighter(q), C \in SUBSET Cols : v = [lp |-> p, changed |-> C]
    OBVIOUS
  <2>2. Shaped(p) /\ Tightens(q, p) /\ p.lo \in [Cols -> Int] /\ p.hi \in [Cols -> Int]
    BY BoxOf DEF Tighter
  <2>3. PICK j \in S : j = sorted[k]
    <3> HIDE DEF sorted, n, V
    <3> QED
      BY <1>0
  <2>4. j \in Cols /\ p.lo[j] >= 0 /\ p.hi[j] <= 1
    <3>1. q.lo[j] \in Int /\ q.hi[j] \in Int /\ p.lo[j] \in Int /\ p.hi[j] \in Int
      BY <2>2, ShapeIs
    <3>2. q.lo[j] <= p.lo[j] /\ p.hi[j] <= q.hi[j]
      BY <2>2 DEF Tightens
    <3> QED
      BY <3>1, <3>2
  <2>5. PICK s : s = ProbeStep([lp |-> p, changed |-> C], j)
    OBVIOUS
  <2>6. s = [lp |-> s.lp, changed |-> s.changed] /\ s.changed \in SUBSET Cols /\ Tightens(p, s.lp)
    BY <2>2, <2>4, <2>5, ProbeTightens
  <2>7. Tightens(q, s.lp)
    BY <2>2, <2>6, TightensTwice
  <2>8. s.lp \in Tighter(q)
    BY <2>7 DEF Tighter, Tightens
  <2>9. s \in V
    BY <2>6, <2>8
  <2> HIDE DEF V, sorted
  <2> QED
    BY <2>1, <2>3, <2>5, <2>9
<1>3. base \in V
  BY TightensItself, OwnBox DEF Tighter
<1>4. g \in [V \X (1..n) -> V]
  <2> HIDE DEF V, sorted, n
  <2> QED
    BY <1>2
<1>5. \E it : Fold(it)
  <2>1. PICK it \in [SUBSET (1..n) -> V] : LeftFolds(it, n, base, g)
    <3> HIDE DEF V, g, base, n
    <3> QED
      BY <1>0, <1>3, <1>4, LeftFold
  <2>2. ASSUME NEW s \in SUBSET (1..n), s # {}
        PROVE  g[<<it[s \ {Max(s)}], Max(s)>>] = ProbeStep(it[s \ {Max(s)}], sorted[Max(s)])
    <3>1. Max(s) \in 1..n /\ it[s \ {Max(s)}] \in V
      <4> HIDE DEF V, n, g, base
      <4>1. Max(s) \in 1..n
        BY <1>0, <2>2, IntervalIs
      <4> QED
        BY <2>1, <4>1
    <3> HIDE DEF V, sorted, n
    <3> QED
      BY <3>1
  <2> HIDE DEF V, g, base, sorted, n
  <2>3. Fold(it)
    BY <2>1, <2>2 DEF LeftFolds
  <2> HIDE DEF Fold
  <2> QED
    BY <2>3
<1>6. Fold(iter)
  BY <1>5
<1>7. ASSUME NEW k \in 1..n PROVE iter[1..k] = ProbeStep(iter[1..(k - 1)], sorted[k])
  <2>1. 1..k \in SUBSET (1..n) /\ 1..k # {} /\ Max(1..k) = k /\ (1..k) \ {k} = 1..(k - 1)
    BY <1>0, IntervalIs
  <2> HIDE DEF iter, sorted, n, base
  <2> QED
    BY <1>6, <2>1
<1>8. iter[{}] = base
  <2> HIDE DEF iter, sorted, n, base
  <2> QED
    BY <1>6
<1>9. iter[1..n] \in V
  <2>1. \A k \in 1..n : iter[1..(k - 1)] \in V => iter[1..k] \in V
    <3> HIDE DEF iter, V, sorted, n
    <3> QED
      BY <1>2, <1>7
  <2> HIDE DEF iter, V, n, base
  <2> QED
    BY <1>0, <1>3, <1>8, <2>1, FoldStays
<1>10. PICK p \in Tighter(q), C \in SUBSET Cols : iter[1..n] = [lp |-> p, changed |-> C]
  <2>1. \A v \in V : \E p \in Tighter(q), C \in SUBSET Cols : v = [lp |-> p, changed |-> C]
    OBVIOUS
  <2> HIDE DEF iter, n, V
  <2> QED
    BY <1>9, <2>1
<1> HIDE DEF iter, n, base, g, sorted
<1> QED
  BY <1>1, <1>10 DEF Tighter

-----------------------------------------------------------------------------
(* Triples *)

\* A triple is a function of the columns.
LEMMA TripleIs ==
  ASSUME NEW u, NEW v, NEW w
  PROVE  /\ <<u, v, w>>[1] = u /\ <<u, v, w>>[2] = v /\ <<u, v, w>>[3] = w
         /\ <<u, v, w>> = [j \in Cols |-> IF j = 1 THEN u ELSE IF j = 2 THEN v ELSE w]
         /\ DOMAIN <<u, v, w>> = Cols
         /\ u \in Int /\ v \in Int /\ w \in Int => <<u, v, w>> \in [Cols -> Int]
<1>1. Cols = 1..3
  BY ColsAre
<1>2. <<u, v, w>>[1] = u /\ <<u, v, w>>[2] = v /\ <<u, v, w>>[3] = w
  OBVIOUS
<1>3. <<u, v, w>> = [j \in 1..3 |-> IF j = 1 THEN u ELSE IF j = 2 THEN v ELSE w]
  OBVIOUS
<1>4. u \in Int /\ v \in Int /\ w \in Int => <<u, v, w>> \in [1..3 -> Int]
  BY <1>3
<1> QED
  BY <1>1, <1>2, <1>3, <1>4

\* And of integers, if its parts are.
LEMMA IntTriple ==
  ASSUME NEW u \in Int, NEW v \in Int, NEW w \in Int PROVE <<u, v, w>> \in [Cols -> Int]
  BY TripleIs

\* Unit vectors, opposites and products.
LEMMA VectorIs ==
  ASSUME NEW p \in [Cols -> Int], NEW q \in [Cols -> Int]
  PROVE  /\ Triple(p) = p /\ Negated(p) \in [Cols -> Int] /\ Cross(p, q) \in [Cols -> Int]
         /\ Dot(p, q) \in Int /\ Dot(Negated(p), q) = -Dot(p, q)
         /\ \A j \in Cols : Negated(p)[j] = -p[j]
<1>1. p[1] \in Int /\ p[2] \in Int /\ p[3] \in Int /\ q[1] \in Int /\ q[2] \in Int /\ q[3] \in Int
  BY ColsAre
<1>2. Triple(p) = p
  BY TripleIs, ColsAre DEF Triple
<1>3. Negated(p) \in [Cols -> Int] /\ Negated(p)[1] = -p[1] /\ Negated(p)[2] = -p[2] /\ Negated(p)[3] = -p[3]
  <2>1. PICK u \in Int, v \in Int, w \in Int : u = -p[1] /\ v = -p[2] /\ w = -p[3]
    BY <1>1
  <2>2. Negated(p) = <<u, v, w>>
    BY <2>1 DEF Negated
  <2>3. <<u, v, w>> \in [Cols -> Int]
    BY IntTriple
  <2> QED
    BY <2>1, <2>2, <2>3
<1>4. Cross(p, q) \in [Cols -> Int]
  <2>1. PICK u \in Int, v \in Int, w \in Int :
               /\ u = p[2] * q[3] - p[3] * q[2] /\ v = p[3] * q[1] - p[1] * q[3]
               /\ w = p[1] * q[2] - p[2] * q[1]
    BY <1>1
  <2>2. Cross(p, q) = <<u, v, w>>
    BY <2>1 DEF Cross
  <2>3. <<u, v, w>> \in [Cols -> Int]
    BY IntTriple
  <2> QED
    BY <2>2, <2>3
<1>5. Dot(p, q) \in Int
  BY <1>1 DEF Dot
<1>6. Dot(Negated(p), q) = -Dot(p, q)
  <2> DEFINE u == -p[1]  v == -p[2]  w == -p[3]
  <2>1. Dot(Negated(p), q) = (-p[1]) * q[1] + (-p[2]) * q[2] + (-p[3]) * q[3]
    BY <1>3 DEF Dot
  <2>2. /\ (-p[1]) * q[1] = -(p[1] * q[1]) /\ (-p[2]) * q[2] = -(p[2] * q[2])
        /\ (-p[3]) * q[3] = -(p[3] * q[3])
        /\ p[1] * q[1] \in Int /\ p[2] * q[2] \in Int /\ p[3] * q[3] \in Int
    BY <1>1
  <2> QED
    BY <2>1, <2>2 DEF Dot
<1>7. \A j \in Cols : Negated(p)[j] = -p[j]
  BY <1>3, ColsAre
<1> QED
  BY <1>2, <1>3, <1>4, <1>5, <1>6, <1>7

\* Cramer's rule.
LEMMA Cramer ==
  ASSUME NEW p \in [Cols -> Int], NEW q \in [Cols -> Int], NEW r \in [Cols -> Int],
         NEW x \in [Cols -> Int], NEW j \in Cols
  PROVE  Dot(p, x) * Cross(q, r)[j] + Dot(q, x) * Cross(r, p)[j] + Dot(r, x) * Cross(p, q)[j]
           = Dot(p, Cross(q, r)) * x[j]
<1>1. PICK a1 \in Int, a2 \in Int, a3 \in Int : a1 = p[1] /\ a2 = p[2] /\ a3 = p[3]
  BY ColsAre
<1>2. PICK b1 \in Int, b2 \in Int, b3 \in Int : b1 = q[1] /\ b2 = q[2] /\ b3 = q[3]
  BY ColsAre
<1>3. PICK c1 \in Int, c2 \in Int, c3 \in Int : c1 = r[1] /\ c2 = r[2] /\ c3 = r[3]
  BY ColsAre
<1>4. PICK x1 \in Int, x2 \in Int, x3 \in Int : x1 = x[1] /\ x2 = x[2] /\ x3 = x[3]
  BY ColsAre
<1> DEFINE P == a1 * x1 + a2 * x2 + a3 * x3
           Q == b1 * x1 + b2 * x2 + b3 * x3
           R == c1 * x1 + c2 * x2 + c3 * x3
           D == a1 * (b2 * c3 - b3 * c2) + a2 * (b3 * c1 - b1 * c3) + a3 * (b1 * c2 - b2 * c1)
<1>5. P * (b2 * c3 - b3 * c2) + Q * (c2 * a3 - c3 * a2) + R * (a2 * b3 - a3 * b2) = D * x1
  OBVIOUS
<1>6. P * (b3 * c1 - b1 * c3) + Q * (c3 * a1 - c1 * a3) + R * (a3 * b1 - a1 * b3) = D * x2
  OBVIOUS
<1>7. P * (b1 * c2 - b2 * c1) + Q * (c1 * a2 - c2 * a1) + R * (a1 * b2 - a2 * b1) = D * x3
  OBVIOUS
<1>8. /\ Cross(q, r)[1] = b2 * c3 - b3 * c2 /\ Cross(q, r)[2] = b3 * c1 - b1 * c3
      /\ Cross(q, r)[3] = b1 * c2 - b2 * c1
      /\ Cross(r, p)[1] = c2 * a3 - c3 * a2 /\ Cross(r, p)[2] = c3 * a1 - c1 * a3
      /\ Cross(r, p)[3] = c1 * a2 - c2 * a1
      /\ Cross(p, q)[1] = a2 * b3 - a3 * b2 /\ Cross(p, q)[2] = a3 * b1 - a1 * b3
      /\ Cross(p, q)[3] = a1 * b2 - a2 * b1
  BY <1>1, <1>2, <1>3 DEF Cross
<1>9. Dot(p, x) = P /\ Dot(q, x) = Q /\ Dot(r, x) = R /\ Dot(p, Cross(q, r)) = D
  BY <1>1, <1>2, <1>3, <1>4, <1>8 DEF Dot
<1>10. j = 1 \/ j = 2 \/ j = 3
  BY ColsAre
<1> HIDE DEF P, Q, R, D
<1>11. CASE j = 1
  BY <1>4, <1>5, <1>8, <1>9, <1>11
<1>12. CASE j = 2
  BY <1>4, <1>6, <1>8, <1>9, <1>12
<1>13. CASE j = 3
  BY <1>4, <1>7, <1>8, <1>9, <1>13
<1> QED
  BY <1>10, <1>11, <1>12, <1>13

-----------------------------------------------------------------------------
(* Bases *)

\* The inequalities that hold at every point of a program.
Sound(q) ==
  {n \in [p : [Cols -> Int], r : Int, integral : BOOLEAN, always : BOOLEAN] :
     \A x \in Points(q) : n.r <= Dot(n.p, x) /\ (n.always => Dot(n.p, x) = n.r)}

\* Points are integer.
LEMMA PointsAreInteger ==
  ASSUME NEW q, NEW x \in Points(q) PROVE x \in [Cols -> Int]
<1>1. Reach \in Nat
  BY LpDataAssumption
<1>2. x \in [Cols -> -Reach..Reach]
  BY DEF Points
<1> QED
  BY <1>1, <1>2

\* Unit vectors.
LEMMA UnitIs ==
  ASSUME NEW j \in Cols
  PROVE  Unit(j) \in [Cols -> Int] /\ \A x \in [Cols -> Int] : Dot(Unit(j), x) = x[j]
<1>1. PICK u \in Int, v \in Int, w \in Int :
        /\ u = (IF j = 1 THEN 1 ELSE 0) /\ v = (IF j = 2 THEN 1 ELSE 0) /\ w = (IF j = 3 THEN 1 ELSE 0)
  OBVIOUS
<1>2. Unit(j) = <<u, v, w>>
  BY <1>1, ColsAre DEF Unit, Triple
<1>3. <<u, v, w>> \in [Cols -> Int]
  BY IntTriple
<1>4. ASSUME NEW x \in [Cols -> Int] PROVE Dot(Unit(j), x) = x[j]
  <2>1. x[1] \in Int /\ x[2] \in Int /\ x[3] \in Int
    BY ColsAre
  <2>2. Dot(Unit(j), x) = u * x[1] + v * x[2] + w * x[3]
    BY <1>2 DEF Dot
  <2>3. j = 1 \/ j = 2 \/ j = 3
    BY ColsAre
  <2> QED
    BY <1>1, <2>1, <2>2, <2>3
<1> QED
  BY <1>2, <1>3, <1>4

\* Rows and bounds are sound.
LEMMA RowIsSound == ASSUME NEW q, Shaped(q), NEW i \in q.rows PROVE OfRow(q, i) \in Sound(q)
<1> DEFINE a == q.a[i]  b == q.b[i]
<1>1. a \in [Cols -> Int] /\ b \in Int /\ q.kind[i] \in {"Le", "Ge", "Eq"}
  BY ShapeIs
<1>2. ASSUME NEW x \in Points(q)
      PROVE  /\ Dot(a, x) \in Int /\ Dot(Negated(a), x) = -Dot(a, x)
             /\ (q.kind[i] # "Ge" => Dot(a, x) <= b) /\ (q.kind[i] # "Le" => Dot(a, x) >= b)
  <2>1. x \in [Cols -> Int]
    BY PointsAreInteger
  <2> HIDE DEF a, b
  <2>2. Dot(a, x) \in Int /\ Dot(Negated(a), x) = -Dot(a, x)
    BY <1>1, <2>1, VectorIs
  <2>3. Compare(q.kind[i], Dot(a, x), b)
    BY PointIs DEF a, b
  <2> QED
    BY <1>1, <2>2, <2>3, CompareIs
<1>3. Negated(a) \in [Cols -> Int]
  BY <1>1, VectorIs
<1> HIDE DEF a, b
<1>4. CASE q.kind[i] = "Le"
  <2>1. OfRow(q, i) = [p |-> Negated(a), r |-> -b, integral |-> FALSE, always |-> FALSE]
    BY <1>4 DEF OfRow, Inequality, a, b
  <2> QED
    BY <1>1, <1>2, <1>3, <1>4, <2>1 DEF Sound
<1>5. CASE q.kind[i] # "Le"
  <2>1. PICK e \in BOOLEAN : e <=> q.kind[i] = "Eq"
    OBVIOUS
  <2>2. OfRow(q, i) = [p |-> a, r |-> b, integral |-> FALSE, always |-> e]
    BY <1>5, <2>1 DEF OfRow, Inequality, a, b
  <2>3. \A x \in Points(q) : b <= Dot(a, x) /\ (e => Dot(a, x) = b)
    BY <1>1, <1>2, <1>5, <2>1
  <2> QED
    BY <1>1, <2>2, <2>3 DEF Sound
<1> QED
  BY <1>4, <1>5

\* What a bound says, as an inequality.
LEMMA BoundIsSound ==
  ASSUME NEW q, Shaped(q), NEW j \in Cols
  PROVE  OfLower(q, j) \in Sound(q) /\ OfUpper(q, j) \in Sound(q)
<1>1. q.lo[j] \in Int /\ q.hi[j] \in Int
  BY ShapeIs
<1>2. Unit(j) \in [Cols -> Int] /\ Negated(Unit(j)) \in [Cols -> Int]
  BY UnitIs, VectorIs
<1>3. ASSUME NEW x \in Points(q)
      PROVE  /\ x[j] \in Int /\ q.lo[j] <= x[j] /\ x[j] <= q.hi[j]
             /\ Dot(Unit(j), x) = x[j] /\ Dot(Negated(Unit(j)), x) = -x[j]
  <2>1. x \in [Cols -> Int]
    BY PointsAreInteger
  <2> QED
    BY <1>2, <2>1, PointIs, UnitIs, VectorIs
<1>4. OfLower(q, j) = [p |-> Unit(j), r |-> q.lo[j], integral |-> j \in q.ints, always |-> FALSE]
  BY DEF OfLower, Inequality
<1>5. OfUpper(q, j) = [p |-> Negated(Unit(j)), r |-> -q.hi[j], integral |-> FALSE, always |-> FALSE]
  BY DEF OfUpper, Inequality
<1>6. OfLower(q, j) \in Sound(q)
  BY <1>1, <1>2, <1>3, <1>4 DEF Sound
<1>7. OfUpper(q, j) \in Sound(q)
  BY <1>1, <1>2, <1>3, <1>5 DEF Sound
<1> QED
  BY <1>6, <1>7

\* All that a basis is made of.
LEMMA InequalitiesAre ==
  ASSUME NEW q, Shaped(q), NEW n \in DOMAIN Inequalities(q)
  PROVE  Inequalities(q)[n] \in Sound(q)
<1> DEFINE rows == [i \in DOMAIN q.a |-> OfRow(q, i)]
           lower == [j \in Cols |-> OfLower(q, j)]
           upper == [j \in Cols |-> OfUpper(q, j)]
           W == Sound(q)
<1>1. rows \in Seq(W)
  <2>1. q.rows = 1..Len(q.a) /\ DOMAIN q.a = 1..Len(q.a) /\ Len(q.a) \in Nat
    BY DEF Shaped
  <2>2. \A i \in 1..Len(q.a) : OfRow(q, i) \in W
    BY <2>1, RowIsSound
  <2> HIDE DEF W
  <2> QED
    BY <2>1, <2>2
<1>2. lower \in Seq(W) /\ upper \in Seq(W)
  <2>1. Cols = 1..3 /\ \A j \in Cols : OfLower(q, j) \in W /\ OfUpper(q, j) \in W
    BY ColsAre, BoundIsSound
  <2>2. PICK n3 \in Nat : n3 = 3
    OBVIOUS
  <2> HIDE DEF W
  <2>3. lower \in [1..n3 -> W] /\ upper \in [1..n3 -> W]
    BY <2>1, <2>2
  <2> HIDE DEF lower, upper
  <2> QED
    BY <2>3
<1> HIDE DEF rows, lower, upper, W
<1>3. (rows \o lower) \o upper \in Seq(W)
  BY <1>1, <1>2
<1>4. Inequalities(q) = (rows \o lower) \o upper
  BY DEF Inequalities, rows, lower, upper
<1> QED
  BY <1>3, <1>4 DEF W

\* What a basis holds: three sound inequalities and the inverse of their matrix.
IsBasis(q, v) ==
  /\ v.det \in Int /\ v.det > 0
  /\ v.tight[1] \in Sound(q) /\ v.tight[2] \in Sound(q) /\ v.tight[3] \in Sound(q)
  /\ v.cross[1] \in [Cols -> Int] /\ v.cross[2] \in [Cols -> Int] /\ v.cross[3] \in [Cols -> Int]
  /\ v.num \in [Cols -> Int]
  /\ \A j \in Cols : v.num[j] = v.tight[1].r * v.cross[1][j] + v.tight[2].r * v.cross[2][j]
                                + v.tight[3].r * v.cross[3][j]
  /\ \A x \in [Cols -> Int] : \A j \in Cols :
       Dot(v.tight[1].p, x) * v.cross[1][j] + Dot(v.tight[2].p, x) * v.cross[2][j]
         + Dot(v.tight[3].p, x) * v.cross[3][j] = v.det * x[j]

\* A vertex of three inequalities that are independent.
LEMMA VertexIs ==
  ASSUME NEW q, NEW s \in Sound(q), NEW t \in Sound(q), NEW u \in Sound(q),
         Vertex(<<s, t, u>>).det # 0
  PROVE  IsBasis(q, Vertex(<<s, t, u>>))
<1> DEFINE raw == <<Cross(t.p, u.p), Cross(u.p, s.p), Cross(s.p, t.p)>>
           d == Dot(s.p, raw[1])
           cross == IF d < 0 THEN <<Negated(raw[1]), Negated(raw[2]), Negated(raw[3])>> ELSE raw
           num == Triple([j \in Cols |-> s.r * cross[1][j] + t.r * cross[2][j] + u.r * cross[3][j]])
           v == Vertex(<<s, t, u>>)
<1>1. v = [tight |-> <<s, t, u>>, cross |-> cross, det |-> Magnitude(d), num |-> num]
  BY DEF Vertex
<1>2. /\ s.p \in [Cols -> Int] /\ t.p \in [Cols -> Int] /\ u.p \in [Cols -> Int]
      /\ s.r \in Int /\ t.r \in Int /\ u.r \in Int
  BY DEF Sound
<1>3. raw[1] \in [Cols -> Int] /\ raw[2] \in [Cols -> Int] /\ raw[3] \in [Cols -> Int]
  BY <1>2, VectorIs
<1>4. d \in Int
  <2>1. raw[1] = Cross(t.p, u.p)
    OBVIOUS
  <2> HIDE DEF raw
  <2> QED
    BY <1>2, <1>3, VectorIs
<1>5. ASSUME NEW x \in [Cols -> Int], NEW j \in Cols
      PROVE  Dot(s.p, x) * raw[1][j] + Dot(t.p, x) * raw[2][j] + Dot(u.p, x) * raw[3][j] = d * x[j]
  <2>1. raw[1] = Cross(t.p, u.p) /\ raw[2] = Cross(u.p, s.p) /\ raw[3] = Cross(s.p, t.p)
    OBVIOUS
  <2> HIDE DEF raw
  <2> QED
    BY <1>2, <2>1, Cramer
<1> HIDE DEF raw
<1>6. /\ cross[1] \in [Cols -> Int] /\ cross[2] \in [Cols -> Int] /\ cross[3] \in [Cols -> Int]
      /\ \A j \in Cols : /\ cross[1][j] = IF d < 0 THEN -raw[1][j] ELSE raw[1][j]
                         /\ cross[2][j] = IF d < 0 THEN -raw[2][j] ELSE raw[2][j]
                         /\ cross[3][j] = IF d < 0 THEN -raw[3][j] ELSE raw[3][j]
  <2>1. /\ Negated(raw[1]) \in [Cols -> Int] /\ Negated(raw[2]) \in [Cols -> Int]
        /\ Negated(raw[3]) \in [Cols -> Int]
        /\ \A j \in Cols : /\ Negated(raw[1])[j] = -raw[1][j] /\ Negated(raw[2])[j] = -raw[2][j]
                           /\ Negated(raw[3])[j] = -raw[3][j]
    BY <1>3, VectorIs
  <2> HIDE DEF d
  <2>2. CASE d < 0
    <3>1. cross[1] = Negated(raw[1]) /\ cross[2] = Negated(raw[2]) /\ cross[3] = Negated(raw[3])
      BY <2>2
    <3> HIDE DEF cross
    <3> QED
      BY <2>1, <2>2, <3>1
  <2>3. CASE ~(d < 0)
    <3>1. cross = raw
      BY <2>3
    <3> HIDE DEF cross
    <3> QED
      BY <1>3, <2>3, <3>1
  <2> QED
    BY <2>2, <2>3
<1> HIDE DEF d, cross
<1>7. num \in [Cols -> Int]
      /\ \A j \in Cols : num[j] = s.r * cross[1][j] + t.r * cross[2][j] + u.r * cross[3][j]
  <2> DEFINE f == [j \in Cols |-> s.r * cross[1][j] + t.r * cross[2][j] + u.r * cross[3][j]]
  <2>1. f \in [Cols -> Int]
    BY <1>2, <1>6
  <2>2. Triple(f) = f
    <3> HIDE DEF f
    <3> QED
      BY <2>1, VectorIs
  <2> QED
    BY <2>1, <2>2
<1>8. Magnitude(d) \in Int /\ Magnitude(d) > 0 /\ Magnitude(d) = IF d < 0 THEN -d ELSE d
  BY <1>1, <1>4 DEF Magnitude
<1>9. ASSUME NEW x \in [Cols -> Int], NEW j \in Cols
      PROVE  Dot(s.p, x) * cross[1][j] + Dot(t.p, x) * cross[2][j] + Dot(u.p, x) * cross[3][j]
               = Magnitude(d) * x[j]
  <2>1. PICK y \in Int : y = x[j]
    OBVIOUS
  <2>2. PICK e1 \in Int, e2 \in Int, e3 \in Int : e1 = Dot(s.p, x) /\ e2 = Dot(t.p, x) /\ e3 = Dot(u.p, x)
    BY <1>2, VectorIs
  <2>3. PICK r1 \in Int, r2 \in Int, r3 \in Int : r1 = raw[1][j] /\ r2 = raw[2][j] /\ r3 = raw[3][j]
    BY <1>3
  <2>4. e1 * r1 + e2 * r2 + e3 * r3 = d * y
    BY <1>5, <2>1, <2>2, <2>3
  <2>5. CASE d < 0
    <3>1. cross[1][j] = -r1 /\ cross[2][j] = -r2 /\ cross[3][j] = -r3 /\ Magnitude(d) = -d
      BY <1>6, <1>8, <2>3, <2>5
    <3>2. e1 * (-r1) + e2 * (-r2) + e3 * (-r3) = -(e1 * r1 + e2 * r2 + e3 * r3) /\ (-d) * y = -(d * y)
      BY <1>4
    <3> QED
      BY <2>1, <2>2, <2>4, <3>1, <3>2
  <2>6. CASE ~(d < 0)
    <3>1. cross[1][j] = r1 /\ cross[2][j] = r2 /\ cross[3][j] = r3 /\ Magnitude(d) = d
      BY <1>6, <1>8, <2>3, <2>6
    <3> QED
      BY <2>1, <2>2, <2>4, <3>1
  <2> QED
    BY <2>5, <2>6
<1>10. /\ v.tight[1] = s /\ v.tight[2] = t /\ v.tight[3] = u /\ v.cross = cross
       /\ v.det = Magnitude(d) /\ v.num = num
  BY <1>1
<1> HIDE DEF num, v
<1>11. IsBasis(q, v)
  BY <1>6, <1>7, <1>8, <1>9, <1>10 DEF IsBasis
<1> QED
  BY <1>11 DEF v

\* What a simplex may end with is a basis.
LEMMA OptimalBasisIs == ASSUME NEW q, Shaped(q), NEW v \in OptimalBases(q) PROVE IsBasis(q, v)
<1> DEFINE all == Inequalities(q)
<1>1. PICK t \in (DOMAIN all) \X (DOMAIN all) \X (DOMAIN all) :
        v = Vertex(<<all[t[1]], all[t[2]], all[t[3]]>>) /\ v.det # 0
  BY DEF OptimalBases
<1>2. all[t[1]] \in Sound(q) /\ all[t[2]] \in Sound(q) /\ all[t[3]] \in Sound(q)
  <2>1. t[1] \in DOMAIN all /\ t[2] \in DOMAIN all /\ t[3] \in DOMAIN all
    OBVIOUS
  <2> QED
    BY <2>1, InequalitiesAre
<1> HIDE DEF all
<1> QED
  BY <1>1, <1>2, VertexIs

-----------------------------------------------------------------------------
(* Gomory cuts *)

\* The coefficient c will do for the entry e.
WillDo(c, e, D, f) ==
  /\ c \in Int
  /\ \E g \in Int, h \in Int : e = g + D * h /\ g * (D - f) <= c /\ -(g * f) <= c

\* A coefficient is that of the entry less a multiple of the determinant, rounded
\* to either side.
LEMMA GmiIs ==
  ASSUME NEW e \in Int, NEW D \in Int, NEW f \in Int, 0 < f, f < D, NEW integral \in BOOLEAN
  PROVE  WillDo(GmiCoefficient(e, f, D, integral), e, D, f)
<1> DEFINE gamma == GmiCoefficient(e, f, D, integral)
           Good(g) == gamma = IF g >= 0 THEN g * (D - f) ELSE -(g * f)
<1>1. ASSUME NEW g \in Int, NEW h \in Int, e = g + D * h, Good(g)
      PROVE  WillDo(gamma, e, D, f)
  <2>1. D - f \in Int /\ D - f > 0 /\ g * (D - f) \in Int /\ g * f \in Int
    OBVIOUS
  <2>2. CASE g >= 0
    <3>1. gamma = g * (D - f)
      BY <1>1, <2>2
    <3>2. 0 * (D - f) <= g * (D - f) /\ 0 * f <= g * f
      BY <2>1, <2>2, Times
    <3>3. gamma \in Int /\ g * (D - f) <= gamma /\ -(g * f) <= gamma
      <4> HIDE DEF gamma
      <4> QED
        BY <2>1, <3>1, <3>2
    <3> HIDE DEF gamma
    <3> QED
      BY <1>1, <3>3 DEF WillDo
  <2>3. CASE g < 0
    <3>1. gamma = -(g * f)
      BY <1>1, <2>3
    <3>2. g * (D - f) <= 0 * (D - f) /\ g * f <= 0 * f
      BY <2>1, <2>3, Times
    <3>3. gamma \in Int /\ g * (D - f) <= gamma /\ -(g * f) <= gamma
      <4> HIDE DEF gamma
      <4> QED
        BY <2>1, <3>1, <3>2
    <3> HIDE DEF gamma
    <3> QED
      BY <1>1, <3>3 DEF WillDo
  <2> QED
    BY <2>2, <2>3
<1>2. ASSUME integral PROVE WillDo(gamma, e, D, f)
  <2>1. PICK r \in Int, h \in Int : r = e % D /\ h = e \div D
    BY Floor
  <2>2. 0 <= r /\ r < D /\ e = D * h + r
    <3>1. D > 0
      OBVIOUS
    <3> QED
      BY <2>1, <3>1, Floor
  <2>3. gamma = IF r <= f THEN r * (D - f) ELSE (D - r) * f
    BY <1>2, <2>1 DEF GmiCoefficient
  <2>4. CASE r <= f
    <3>1. Good(r)
      BY <2>2, <2>3, <2>4
    <3>2. e = r + D * h
      BY <2>2
    <3> HIDE DEF gamma, Good
    <3> QED
      BY <1>1, <3>1, <3>2, <2>1
  <2>5. CASE ~(r <= f)
    <3>1. r - D \in Int /\ h + 1 \in Int /\ r - D < 0
      BY <2>2
    <3>2. e = (r - D) + D * (h + 1)
      BY <2>2
    <3>3. -((r - D) * f) = (D - r) * f
      OBVIOUS
    <3>4. Good(r - D)
      BY <2>3, <2>5, <3>1, <3>3
    <3> HIDE DEF gamma, Good
    <3> QED
      BY <1>1, <3>1, <3>2, <3>4
  <2> QED
    BY <2>4, <2>5
<1>3. ASSUME ~integral PROVE WillDo(gamma, e, D, f)
  <2>1. gamma = IF e > 0 THEN e * (D - f) ELSE -e * f
    BY <1>3 DEF GmiCoefficient
  <2>2. -e * f = -(e * f) /\ (e = 0 => e * (D - f) = 0 /\ e * f = 0)
    OBVIOUS
  <2>3. Good(e)
    BY <2>1, <2>2
  <2>4. PICK h \in Int : e = e + D * h
    <3>1. e = e + D * 0 /\ 0 \in Int
      OBVIOUS
    <3> QED
      BY <3>1
  <2> HIDE DEF gamma, Good
  <2> QED
    BY <1>1, <2>3, <2>4
<1> HIDE DEF gamma
<1>4. WillDo(gamma, e, D, f)
  BY <1>2, <1>3
<1> QED
  BY <1>4 DEF gamma

\* An inner product that is f and a multiple of D.
Adds(a1, a2, a3, b1, b2, b3, D, k, f) == a1 * b1 + a2 * b2 + a3 * b3 = D * k + f

\* What c must be, if the variable is not zero.
Covers(c, g, s, D, f) == c \in Int /\ (s = 0 \/ (g * (D - f) <= c /\ -(g * f) <= c))

\* A row of entries g at the slacks s is a multiple of D and f, and every c is large
\* enough.
AllCover(c1, c2, c3, g1, g2, g3, s1, s2, s3, D, k, f) ==
  /\ Adds(g1, g2, g3, s1, s2, s3, D, k, f)
  /\ Covers(c1, g1, s1, D, f) /\ Covers(c2, g2, s2, D, f) /\ Covers(c3, g3, s3, D, f)

\* The argument for the mixed-integer cut: nonnegative integers s with the row's
\* entries sum to f and a multiple of the determinant.
LEMMA GmiHolds ==
  ASSUME NEW D \in Int, NEW f \in Int, 0 < f, f < D,
         NEW s1 \in Int, NEW s2 \in Int, NEW s3 \in Int, s1 >= 0, s2 >= 0, s3 >= 0,
         NEW g1 \in Int, NEW g2 \in Int, NEW g3 \in Int, NEW k \in Int,
         NEW c1, NEW c2, NEW c3, AllCover(c1, c2, c3, g1, g2, g3, s1, s2, s3, D, k, f)
  PROVE  f * (D - f) <= c1 * s1 + c2 * s2 + c3 * s3
<1>1. ASSUME NEW g \in Int, NEW s \in Int, s >= 0, NEW c \in Int,
             s = 0 \/ (g * (D - f) <= c /\ -(g * f) <= c)
      PROVE  (g * s) * (D - f) <= c * s /\ -((g * s) * f) <= c * s
  <2>1. CASE s = 0
    BY <2>1
  <2>2. CASE s # 0
    <3>1. PICK u \in Int, w \in Int : u = g * (D - f) /\ w = -(g * f)
      OBVIOUS
    <3>2. u <= c /\ w <= c
      BY <1>1, <2>2, <3>1
    <3>3. u * s <= c * s /\ w * s <= c * s
      BY <1>1, <3>2, Times
    <3>4. (g * s) * (D - f) = (g * (D - f)) * s /\ -((g * s) * f) = (-(g * f)) * s
      OBVIOUS
    <3> QED
      BY <3>1, <3>3, <3>4
  <2> QED
    BY <2>1, <2>2
<1>0. /\ c1 \in Int /\ (s1 = 0 \/ (g1 * (D - f) <= c1 /\ -(g1 * f) <= c1))
      /\ c2 \in Int /\ (s2 = 0 \/ (g2 * (D - f) <= c2 /\ -(g2 * f) <= c2))
      /\ c3 \in Int /\ (s3 = 0 \/ (g3 * (D - f) <= c3 /\ -(g3 * f) <= c3))
      /\ g1 * s1 + g2 * s2 + g3 * s3 = D * k + f
  BY DEF AllCover, Covers, Adds
<1> DEFINE G == D * k + f
           C == c1 * s1 + c2 * s2 + c3 * s3
<1>2. G * (D - f) <= C /\ -(G * f) <= C /\ C \in Int /\ G \in Int
  <2>1. PICK t1 \in Int, t2 \in Int, t3 \in Int : t1 = g1 * s1 /\ t2 = g2 * s2 /\ t3 = g3 * s3
    OBVIOUS
  <2>2. PICK d1 \in Int, d2 \in Int, d3 \in Int : d1 = c1 * s1 /\ d2 = c2 * s2 /\ d3 = c3 * s3
    BY <1>0
  <2>3. t1 * (D - f) <= d1 /\ -(t1 * f) <= d1
    BY <1>0, <1>1, <2>1, <2>2
  <2>4. t2 * (D - f) <= d2 /\ -(t2 * f) <= d2
    BY <1>0, <1>1, <2>1, <2>2
  <2>5. t3 * (D - f) <= d3 /\ -(t3 * f) <= d3
    BY <1>0, <1>1, <2>1, <2>2
  <2>6. (t1 + t2 + t3) * (D - f) = t1 * (D - f) + t2 * (D - f) + t3 * (D - f)
        /\ (t1 + t2 + t3) * f = t1 * f + t2 * f + t3 * f
    OBVIOUS
  <2>7. G = t1 + t2 + t3
    BY <1>0, <2>1
  <2>8. C = d1 + d2 + d3
    BY <2>2
  <2>9. PICK a1 \in Int, a2 \in Int, a3 \in Int : a1 = t1 * (D - f) /\ a2 = t2 * (D - f) /\ a3 = t3 * (D - f)
    OBVIOUS
  <2>10. PICK b1 \in Int, b2 \in Int, b3 \in Int : b1 = t1 * f /\ b2 = t2 * f /\ b3 = t3 * f
    OBVIOUS
  <2>11. G * (D - f) = a1 + a2 + a3 /\ G * f = b1 + b2 + b3
    BY <2>6, <2>7, <2>9, <2>10
  <2> HIDE DEF G, C
  <2>12. a1 + a2 + a3 <= d1 + d2 + d3 /\ -(b1 + b2 + b3) <= d1 + d2 + d3
    BY <2>3, <2>4, <2>5, <2>9, <2>10
  <2> QED
    BY <2>7, <2>8, <2>11, <2>12
<1>3. CASE k >= 0
  <2>1. f <= G
    BY <1>3, Times
  <2> HIDE DEF G, C
  <2>2. f * (D - f) <= G * (D - f)
    BY <1>2, <2>1, Times
  <2>3. f * (D - f) \in Int /\ G * (D - f) \in Int
    BY <1>2
  <2> QED
    BY <1>2, <2>2, <2>3 DEF C
<1>4. CASE k < 0
  <2>1. G <= f - D
    <3>1. D * k <= D * (-1)
      <4>1. -1 \in Int /\ k <= -1
        BY <1>4
      <4> QED
        BY <4>1, Times
    <3>2. D * (-1) = -D /\ D * k \in Int
      OBVIOUS
    <3> QED
      BY <3>1, <3>2
  <2> HIDE DEF G, C
  <2>2. G * f <= (f - D) * f
    BY <1>2, <2>1, Times
  <2>3. (f - D) * f = -(f * (D - f)) /\ f * (D - f) \in Int /\ G * f \in Int
    BY <1>2
  <2> QED
    BY <1>2, <2>2, <2>3 DEF C
<1> QED
  BY <1>3, <1>4

\* An entry less a multiple of D.
Parts(e, g, h, D) == -e = g + D * h

\* A slack.
Slack(s, y, r) == s = y - r

\* An equation of three rows with entries e, at values y and at right-hand sides
\* r, and the parts of the entries.
Balances(e1, e2, e3, y1, y2, y3, r1, r2, r3, s1, s2, s3, g1, g2, g3, h1, h2, h3, D, X, m, f) ==
  /\ Slack(s1, y1, r1) /\ Slack(s2, y2, r2) /\ Slack(s3, y3, r3)
  /\ Adds(y1, y2, y3, e1, e2, e3, D, X, 0) /\ Adds(r1, r2, r3, e1, e2, e3, D, m, f)
  /\ Parts(e1, g1, h1, D) /\ Parts(e2, g2, h2, D) /\ Parts(e3, g3, h3, D)

\* What an equation leaves of a row of entries e at the slacks s of y over r.
LEMMA RowSum ==
  ASSUME NEW D \in Int, NEW f \in Int, NEW m \in Int, NEW X \in Int,
         NEW e1 \in Int, NEW e2 \in Int, NEW e3 \in Int,
         NEW y1 \in Int, NEW y2 \in Int, NEW y3 \in Int,
         NEW r1 \in Int, NEW r2 \in Int, NEW r3 \in Int,
         NEW s1, NEW s2, NEW s3,
         NEW g1 \in Int, NEW g2 \in Int, NEW g3 \in Int,
         NEW h1 \in Int, NEW h2 \in Int, NEW h3 \in Int,
         Balances(e1, e2, e3, y1, y2, y3, r1, r2, r3, s1, s2, s3, g1, g2, g3, h1, h2, h3, D, X, m, f)
  PROVE  \E k \in Int : Adds(g1, g2, g3, s1, s2, s3, D, k, f)
<1> DEFINE H == h1 * s1 + h2 * s2 + h3 * s3
           k == m - X - H
<1>0. /\ s1 = y1 - r1 /\ s2 = y2 - r2 /\ s3 = y3 - r3
      /\ s1 \in Int /\ s2 \in Int /\ s3 \in Int
      /\ y1 * e1 + y2 * e2 + y3 * e3 = D * X /\ r1 * e1 + r2 * e2 + r3 * e3 = D * m + f
      /\ -e1 = g1 + D * h1 /\ -e2 = g2 + D * h2 /\ -e3 = g3 + D * h3
  BY DEF Balances, Slack, Adds, Parts
<1>1. D * h1 \in Int /\ D * h2 \in Int /\ D * h3 \in Int
  OBVIOUS
<1>2. g1 = -e1 - D * h1 /\ g2 = -e2 - D * h2 /\ g3 = -e3 - D * h3
  BY <1>0, <1>1
<1>3. g1 * s1 + g2 * s2 + g3 * s3 = (-e1 - D * h1) * s1 + (-e2 - D * h2) * s2 + (-e3 - D * h3) * s3
  BY <1>2
<1>4. (-e1 - D * h1) * s1 + (-e2 - D * h2) * s2 + (-e3 - D * h3) * s3
        = (r1 * e1 + r2 * e2 + r3 * e3) - (y1 * e1 + y2 * e2 + y3 * e3) - D * H
  <2>1. (-e1 - D * h1) * (y1 - r1) + (-e2 - D * h2) * (y2 - r2) + (-e3 - D * h3) * (y3 - r3)
          = (r1 * e1 + r2 * e2 + r3 * e3) - (y1 * e1 + y2 * e2 + y3 * e3)
            - D * (h1 * (y1 - r1) + h2 * (y2 - r2) + h3 * (y3 - r3))
    OBVIOUS
  <2> QED
    BY <1>0, <2>1
<1>5. D * k = D * m - D * X - D * H
  BY <1>0
<1>6. H \in Int /\ k \in Int /\ D * m \in Int /\ D * X \in Int
  BY <1>0
<1>7. D * H \in Int
  BY <1>6
<1> HIDE DEF H
<1>8. g1 * s1 + g2 * s2 + g3 * s3 = (D * m + f) - D * X - D * H
  BY <1>0, <1>3, <1>4
<1>9. g1 * s1 + g2 * s2 + g3 * s3 = D * k + f
  BY <1>5, <1>6, <1>7, <1>8
<1> QED
  BY <1>6, <1>9 DEF Adds

\* The cuts that hold at every point of a program.
ValidCuts(q) == {cut \in [p : [Cols -> Int], r : Int] : \A x \in Points(q) : cut.r <= Dot(cut.p, x)}

\* Divided, a cut holds as it did.
LEMMA CoprimeIs == ASSUME NEW q, NEW cut \in ValidCuts(q) PROVE Coprime(cut) \in ValidCuts(q)
<1> DEFINE sizes == {Magnitude(cut.p[j]) : j \in Cols}
           largest == Max(sizes)
           common == {d \in 1..largest : cut.r % d = 0 /\ \A j \in Cols : cut.p[j] % d = 0}
           g == Max(common)
           p == Triple([j \in Cols |-> cut.p[j] \div g])
           r == cut.r \div g
<1>1. cut.p \in [Cols -> Int] /\ cut.r \in Int
  BY DEF ValidCuts
<1>2. Coprime(cut) = IF largest = 0 THEN cut ELSE [p |-> p, r |-> r]
  BY DEF Coprime
<1>3. largest \in Int /\ largest >= 0
  <2> DEFINE f == [j \in Cols |-> Magnitude(cut.p[j])]
  <2>1. \A j \in Cols : Magnitude(cut.p[j]) \in Int /\ Magnitude(cut.p[j]) >= 0
    BY <1>1 DEF Magnitude
  <2>2. sizes \in SUBSET Int /\ sizes # {} /\ \A y \in sizes : y >= 0
    BY <2>1, ColsAre
  <2>3. sizes = {f[j] : j \in Cols}
    OBVIOUS
  <2>4. IsFiniteSet(sizes)
    <3> HIDE DEF sizes, f
    <3> QED
      BY <2>3, ColsAre, ImageIsFinite
  <2> HIDE DEF sizes, f
  <2> QED
    BY <2>2, <2>4, MaxIs
<1>4. ASSUME largest # 0 PROVE g \in common
  <2>1. 1..largest \in SUBSET Int /\ IsFiniteSet(1..largest)
    <3> HIDE DEF largest
    <3> QED
      BY <1>3, FS_Interval
  <2>2. common \in SUBSET Int /\ IsFiniteSet(common)
    BY <2>1, FS_Subset
  <2>3. 1 \in common
    <3>1. 1 \in 1..largest
      <4> HIDE DEF largest
      <4> QED
        BY <1>3, <1>4
    <3>2. \A v \in Int : v % 1 = 0
      OBVIOUS
    <3> HIDE DEF largest
    <3> QED
      BY <1>1, <3>1, <3>2
  <2> HIDE DEF common
  <2> QED
    BY <2>2, <2>3, MaxIs
<1>5. ASSUME largest # 0 PROVE [p |-> p, r |-> r] \in ValidCuts(q)
  <2>1. g \in Int /\ g > 0 /\ cut.r % g = 0 /\ \A j \in Cols : cut.p[j] % g = 0
    <3> HIDE DEF g, largest
    <3> QED
      BY <1>3, <1>4, <1>5
  <2> HIDE DEF g
  <2>2. \A v \in Int : v % g = 0 => v \div g \in Int /\ v = g * (v \div g)
    <3> TAKE v \in Int
    <3>1. v \div g \in Int /\ v % g \in Int /\ v = g * (v \div g) + (v % g)
      BY <2>1, Floor
    <3>2. g * (v \div g) \in Int
      BY <2>1, <3>1
    <3> QED
      BY <3>1, <3>2
  <2>3. r \in Int /\ cut.r = g * r
    BY <1>1, <2>1, <2>2
  <2>4. p \in [Cols -> Int] /\ \A j \in Cols : cut.p[j] = g * p[j]
    <3> DEFINE f == [j \in Cols |-> cut.p[j] \div g]
    <3>1. f \in [Cols -> Int] /\ \A j \in Cols : cut.p[j] = g * f[j]
      BY <1>1, <2>1, <2>2
    <3>2. Triple(f) = f
      <4> HIDE DEF f
      <4> QED
        BY <3>1, VectorIs
    <3> QED
      BY <3>1, <3>2
  <2> HIDE DEF p, r
  <2>5. ASSUME NEW x \in Points(q) PROVE r <= Dot(p, x)
    <3>1. x \in [Cols -> Int]
      BY PointsAreInteger
    <3>2. PICK x1 \in Int, x2 \in Int, x3 \in Int : x1 = x[1] /\ x2 = x[2] /\ x3 = x[3]
      BY <3>1, ColsAre
    <3>3. PICK p1 \in Int, p2 \in Int, p3 \in Int : p1 = p[1] /\ p2 = p[2] /\ p3 = p[3]
      BY <2>4, ColsAre
    <3>4. Dot(cut.p, x) = (g * p1) * x1 + (g * p2) * x2 + (g * p3) * x3
      BY <2>4, <3>2, <3>3, ColsAre DEF Dot
    <3>5. (g * p1) * x1 + (g * p2) * x2 + (g * p3) * x3 = g * (p1 * x1 + p2 * x2 + p3 * x3)
      BY <2>1
    <3>6. PICK y \in Int : y = p1 * x1 + p2 * x2 + p3 * x3
      OBVIOUS
    <3>7. Dot(p, x) = y
      BY <3>2, <3>3, <3>6 DEF Dot
    <3>8. g * r <= g * y
      BY <2>3, <3>4, <3>5, <3>6 DEF ValidCuts
    <3>9. CASE r >= y + 1
      <4>1. g * (y + 1) <= g * r
        BY <2>1, <2>3, <3>9, Times
      <4>2. g * (y + 1) = g * y + g /\ g * y \in Int /\ g * r \in Int
        BY <2>1, <2>3
      <4> QED
        BY <2>1, <3>8, <4>1, <4>2
    <3> QED
      BY <2>3, <3>7, <3>9
  <2> QED
    BY <2>3, <2>4, <2>5 DEF ValidCuts
<1> HIDE DEF largest, p, r
<1> QED
  BY <1>2, <1>5

\* What GmiHolds asks of one nonbasic variable.
Splits(c, e, s, D, f) ==
  \E g \in Int, h \in Int : e = g + D * h /\ Covers(c, g, s, D, f)

\* The cut of a fractional column holds at every point.
LEMMA GomoryCutIs ==
  ASSUME NEW q, NEW v, IsBasis(q, v), NEW j \in Cols, v.num[j] % v.det # 0
  PROVE  GomoryCut(v, j) \in ValidCuts(q)
<1> DEFINE frac == v.num[j] % v.det
           D == v.det
           Gamma(n) == IF v.tight[n].always THEN 0
                       ELSE GmiCoefficient(-v.cross[n][j], frac, v.det, v.tight[n].integral)
           gamma == Triple([n \in 1..3 |-> Gamma(n)])
           Sum(f) == gamma[1] * f[1] + gamma[2] * f[2] + gamma[3] * f[3]
           p == Triple([k \in Cols |-> Sum([n \in 1..3 |-> v.tight[n].p[k]])])
           r == frac * (v.det - frac) + Sum([n \in 1..3 |-> v.tight[n].r])
<1>1. GomoryCut(v, j) = Coprime([p |-> p, r |-> r])
  BY DEF GomoryCut
<1>2. D \in Int /\ D > 0 /\ frac \in Int /\ 0 < frac /\ frac < D /\ v.num[j] \in Int
      /\ v.num[j] = D * (v.num[j] \div D) + frac /\ v.num[j] \div D \in Int
  <2>1. D \in Int /\ D > 0 /\ v.num[j] \in Int
    BY DEF IsBasis
  <2> HIDE DEF D
  <2>2. frac = v.num[j] % D /\ frac # 0
    BY DEF D
  <2> HIDE DEF frac
  <2> QED
    BY <2>1, <2>2, Floor
<1>3. ASSUME NEW n \in {1, 2, 3}
      PROVE  /\ v.tight[n] \in Sound(q) /\ v.cross[n][j] \in Int
             /\ v.tight[n].p \in [Cols -> Int] /\ v.tight[n].r \in Int
             /\ v.tight[n].integral \in BOOLEAN /\ v.tight[n].always \in BOOLEAN
             /\ Gamma(n) \in Int
             /\ ~v.tight[n].always => WillDo(Gamma(n), -v.cross[n][j], D, frac)
             /\ v.tight[n].always => Gamma(n) = 0
  <2>1. v.tight[n] \in Sound(q) /\ v.cross[n][j] \in Int
    BY DEF IsBasis
  <2>2. /\ v.tight[n].p \in [Cols -> Int] /\ v.tight[n].r \in Int
        /\ v.tight[n].integral \in BOOLEAN /\ v.tight[n].always \in BOOLEAN
    BY <2>1 DEF Sound
  <2>3. PICK e \in Int : e = -v.cross[n][j]
    BY <2>1
  <2>4. WillDo(GmiCoefficient(-v.cross[n][j], frac, v.det, v.tight[n].integral), -v.cross[n][j], D, frac)
    <3> HIDE DEF frac
    <3> QED
      BY <1>2, <2>2, <2>3, GmiIs
  <2>5. CASE v.tight[n].always
    <3>1. Gamma(n) = 0
      BY <2>5
    <3> HIDE DEF Gamma
    <3> QED
      BY <2>1, <2>2, <2>5, <3>1
  <2>6. CASE ~v.tight[n].always
    <3>1. Gamma(n) = GmiCoefficient(-v.cross[n][j], frac, v.det, v.tight[n].integral)
      BY <2>6
    <3>2. Gamma(n) \in Int
      <4> HIDE DEF Gamma, frac
      <4> QED
        BY <2>4, <3>1 DEF WillDo
    <3> HIDE DEF Gamma, frac
    <3> QED
      BY <2>1, <2>2, <2>4, <2>6, <3>1, <3>2
  <2> QED
    BY <2>5, <2>6
<1>4. gamma[1] = Gamma(1) /\ gamma[2] = Gamma(2) /\ gamma[3] = Gamma(3)
  <2>1. \A f : Triple(f)[1] = f[1] /\ Triple(f)[2] = f[2] /\ Triple(f)[3] = f[3]
    BY DEF Triple
  <2> HIDE DEF Gamma
  <2> QED
    BY <2>1
<1> HIDE DEF frac, Gamma, gamma
<1>5. PICK c1 \in Int, c2 \in Int, c3 \in Int : c1 = gamma[1] /\ c2 = gamma[2] /\ c3 = gamma[3]
  BY <1>3, <1>4
<1>6. PICK P1 \in [Cols -> Int], P2 \in [Cols -> Int], P3 \in [Cols -> Int] :
        P1 = v.tight[1].p /\ P2 = v.tight[2].p /\ P3 = v.tight[3].p
  BY <1>3
<1>7. PICK r1 \in Int, r2 \in Int, r3 \in Int :
        r1 = v.tight[1].r /\ r2 = v.tight[2].r /\ r3 = v.tight[3].r
  BY <1>3
<1>8. p \in [Cols -> Int] /\ \A k \in Cols : p[k] = c1 * P1[k] + c2 * P2[k] + c3 * P3[k]
  <2> DEFINE f == [k \in Cols |-> c1 * P1[k] + c2 * P2[k] + c3 * P3[k]]
  <2>1. f \in [Cols -> Int]
    OBVIOUS
  <2>2. p = Triple(f)
    BY <1>5, <1>6
  <2>3. Triple(f) = f
    <3> HIDE DEF f
    <3> QED
      BY <2>1, VectorIs
  <2> HIDE DEF p
  <2> QED
    BY <2>1, <2>2, <2>3
<1>9. r = frac * (D - frac) + (c1 * r1 + c2 * r2 + c3 * r3) /\ r \in Int
  BY <1>2, <1>5, <1>7
<1> HIDE DEF p, r
<1>10. ASSUME NEW x \in Points(q) PROVE r <= Dot(p, x)
  <2>1. x \in [Cols -> Int] /\ x[j] \in Int
    BY PointsAreInteger
  <2>2. PICK y1 \in Int, y2 \in Int, y3 \in Int : y1 = Dot(P1, x) /\ y2 = Dot(P2, x) /\ y3 = Dot(P3, x)
    BY <2>1, VectorIs
  <2>3. PICK e1 \in Int, e2 \in Int, e3 \in Int :
          e1 = v.cross[1][j] /\ e2 = v.cross[2][j] /\ e3 = v.cross[3][j]
    BY <1>3
  <2>4. /\ r1 <= y1 /\ (v.tight[1].always => y1 = r1)
        /\ r2 <= y2 /\ (v.tight[2].always => y2 = r2)
        /\ r3 <= y3 /\ (v.tight[3].always => y3 = r3)
    BY <1>3, <1>6, <1>7, <2>2 DEF Sound
  <2>5. y1 * e1 + y2 * e2 + y3 * e3 = D * x[j] /\ v.num[j] = r1 * e1 + r2 * e2 + r3 * e3
    BY <1>6, <1>7, <2>1, <2>2, <2>3 DEF IsBasis
  <2>6. PICK s1 \in Int, s2 \in Int, s3 \in Int :
          s1 = y1 - r1 /\ s2 = y2 - r2 /\ s3 = y3 - r3 /\ s1 >= 0 /\ s2 >= 0 /\ s3 >= 0
    BY <2>4
  <2>7. ASSUME NEW c \in Int, NEW e \in Int, NEW s \in Int, NEW always \in BOOLEAN,
               always => s = 0, ~always => WillDo(c, -e, D, frac)
        PROVE  Splits(c, -e, s, D, frac)
    <3>1. CASE always
      <4>1. PICK zero \in Int : zero = 0
        OBVIOUS
      <4>2. -e = -e + D * zero /\ -e \in Int
        BY <1>2, <4>1
      <4> QED
        BY <2>7, <3>1, <4>1, <4>2 DEF Splits, Covers
    <3>2. CASE ~always
      BY <2>7, <3>2 DEF WillDo, Splits, Covers
    <3> QED
      BY <3>1, <3>2
  <2>8. Splits(c1, -e1, s1, D, frac)
    <3>1. PICK always \in BOOLEAN : always = v.tight[1].always
      BY <1>3
    <3>2. (always => s1 = 0) /\ (~always => WillDo(c1, -e1, D, frac))
      BY <1>3, <1>4, <1>5, <2>3, <2>4, <2>6, <3>1
    <3> HIDE DEF D
    <3> QED
      BY <2>7, <3>2
  <2>9. Splits(c2, -e2, s2, D, frac)
    <3>1. PICK always \in BOOLEAN : always = v.tight[2].always
      BY <1>3
    <3>2. (always => s2 = 0) /\ (~always => WillDo(c2, -e2, D, frac))
      BY <1>3, <1>4, <1>5, <2>3, <2>4, <2>6, <3>1
    <3> HIDE DEF D
    <3> QED
      BY <2>7, <3>2
  <2>10. Splits(c3, -e3, s3, D, frac)
    <3>1. PICK always \in BOOLEAN : always = v.tight[3].always
      BY <1>3
    <3>2. (always => s3 = 0) /\ (~always => WillDo(c3, -e3, D, frac))
      BY <1>3, <1>4, <1>5, <2>3, <2>4, <2>6, <3>1
    <3> HIDE DEF D
    <3> QED
      BY <2>7, <3>2
  <2>16. PICK g1 \in Int, h1 \in Int : /\ -e1 = g1 + D * h1
                                       /\ Covers(c1, g1, s1, D, frac)
    BY <2>8 DEF Splits
  <2>17. PICK g2 \in Int, h2 \in Int : /\ -e2 = g2 + D * h2
                                       /\ Covers(c2, g2, s2, D, frac)
    BY <2>9 DEF Splits
  <2>18. PICK g3 \in Int, h3 \in Int : /\ -e3 = g3 + D * h3
                                       /\ Covers(c3, g3, s3, D, frac)
    BY <2>10 DEF Splits
  <2>11. PICK k \in Int : Adds(g1, g2, g3, s1, s2, s3, D, k, frac)
    <3>1. PICK m \in Int, X \in Int, d \in Int, f \in Int : m = v.num[j] \div D /\ X = x[j] /\ d = D /\ f = frac
      BY <1>2, <2>1
    <3>2. Adds(r1, r2, r3, e1, e2, e3, d, m, f) /\ Adds(y1, y2, y3, e1, e2, e3, d, X, 0)
      <4>1. r1 * e1 + r2 * e2 + r3 * e3 = d * m + f /\ y1 * e1 + y2 * e2 + y3 * e3 = d * X
        BY <1>2, <2>5, <3>1
      <4> QED
        BY <4>1 DEF Adds
    <3>3. Parts(e1, g1, h1, d) /\ Parts(e2, g2, h2, d) /\ Parts(e3, g3, h3, d)
      BY <2>16, <2>17, <2>18, <3>1 DEF Parts
    <3>4. Slack(s1, y1, r1) /\ Slack(s2, y2, r2) /\ Slack(s3, y3, r3)
      BY <2>6 DEF Slack
    <3>5. Balances(e1, e2, e3, y1, y2, y3, r1, r2, r3, s1, s2, s3, g1, g2, g3, h1, h2, h3, d, X, m, f)
      BY <3>2, <3>3, <3>4 DEF Balances
    <3> HIDE DEF D, frac
    <3>6. PICK k \in Int : Adds(g1, g2, g3, s1, s2, s3, d, k, f)
      BY <3>5, RowSum
    <3> QED
      BY <3>1, <3>6
  <2>12. frac * (D - frac) <= c1 * s1 + c2 * s2 + c3 * s3
    <3>1. AllCover(c1, c2, c3, g1, g2, g3, s1, s2, s3, D, k, frac)
      BY <2>11, <2>16, <2>17, <2>18 DEF AllCover
    <3>2. D \in Int /\ frac \in Int /\ 0 < frac /\ frac < D
      BY <1>2
    <3> HIDE DEF D, frac
    <3> QED
      BY <2>6, <3>1, <3>2, GmiHolds
  <2>13. Dot(p, x) = c1 * y1 + c2 * y2 + c3 * y3
    <3>1. PICK x1 \in Int, x2 \in Int, x3 \in Int : x1 = x[1] /\ x2 = x[2] /\ x3 = x[3]
      BY <2>1, ColsAre
    <3>2. PICK a1 \in Int, a2 \in Int, a3 \in Int : a1 = P1[1] /\ a2 = P1[2] /\ a3 = P1[3]
      BY ColsAre
    <3>3. PICK b1 \in Int, b2 \in Int, b3 \in Int : b1 = P2[1] /\ b2 = P2[2] /\ b3 = P2[3]
      BY ColsAre
    <3>4. PICK d1 \in Int, d2 \in Int, d3 \in Int : d1 = P3[1] /\ d2 = P3[2] /\ d3 = P3[3]
      BY ColsAre
    <3>5. p[1] = c1 * a1 + c2 * b1 + c3 * d1 /\ p[2] = c1 * a2 + c2 * b2 + c3 * d2
          /\ p[3] = c1 * a3 + c2 * b3 + c3 * d3
      BY <1>8, <3>2, <3>3, <3>4, ColsAre
    <3>6. Dot(p, x) = (c1 * a1 + c2 * b1 + c3 * d1) * x1 + (c1 * a2 + c2 * b2 + c3 * d2) * x2
                      + (c1 * a3 + c2 * b3 + c3 * d3) * x3
      BY <3>1, <3>5 DEF Dot
    <3>7. y1 = a1 * x1 + a2 * x2 + a3 * x3 /\ y2 = b1 * x1 + b2 * x2 + b3 * x3
          /\ y3 = d1 * x1 + d2 * x2 + d3 * x3
      BY <2>2, <3>1, <3>2, <3>3, <3>4 DEF Dot
    <3>8. (c1 * a1 + c2 * b1 + c3 * d1) * x1 + (c1 * a2 + c2 * b2 + c3 * d2) * x2
              + (c1 * a3 + c2 * b3 + c3 * d3) * x3
            = c1 * (a1 * x1 + a2 * x2 + a3 * x3) + c2 * (b1 * x1 + b2 * x2 + b3 * x3)
              + c3 * (d1 * x1 + d2 * x2 + d3 * x3)
      OBVIOUS
    <3> QED
      BY <3>6, <3>7, <3>8
  <2>14. c1 * y1 = c1 * s1 + c1 * r1 /\ c2 * y2 = c2 * s2 + c2 * r2 /\ c3 * y3 = c3 * s3 + c3 * r3
    BY <2>6
  <2>15. /\ c1 * s1 \in Int /\ c2 * s2 \in Int /\ c3 * s3 \in Int
         /\ c1 * r1 \in Int /\ c2 * r2 \in Int /\ c3 * r3 \in Int /\ frac * (D - frac) \in Int
    BY <1>2
  <2> QED
    BY <1>9, <2>12, <2>13, <2>14, <2>15
<1>11. [p |-> p, r |-> r] \in ValidCuts(q)
  BY <1>8, <1>9, <1>10 DEF ValidCuts
<1> QED
  BY <1>1, <1>11, CoprimeIs

-----------------------------------------------------------------------------
(* Rounds of cuts *)

\* Columns by falling keys.
LEMMA FallingIs ==
  ASSUME NEW S \in SUBSET Cols, NEW key, \A j \in S : key[j] \in Int
  PROVE  Cardinality(S) \in Nat /\ Falling(S, key) \in [1..Cardinality(S) -> S]
<1> DEFINE R == {p \in S \X S : key[p[1]] > key[p[2]] \/ (key[p[1]] = key[p[2]] /\ p[1] < p[2])}
<1>1. IsFiniteSet(S) /\ Cardinality(S) \in Nat
  BY ColsAre, FS_Subset, FS_CardinalityType
<1>2. \A x \in S, y \in S :
        (<<x, y>> \in R) <=> (key[x] > key[y] \/ (key[x] = key[y] /\ x < y))
  OBVIOUS
<1>3. \A x \in S : x \in Int /\ key[x] \in Int
  BY ColsAre
<1>4. Falling(S, key) = Sorted(S, R)
  BY DEF Falling
<1> HIDE DEF R
<1>5. Orders(R, S)
  <2>1. \A x \in S, y \in S : x # y => <<x, y>> \in R \/ <<y, x>> \in R
    BY <1>2, <1>3
  <2>2. \A x \in S, y \in S, z \in S : <<x, y>> \in R /\ <<y, z>> \in R => <<x, z>> \in R
    BY <1>2, <1>3
  <2> QED
    BY <2>1, <2>2 DEF Orders
<1>6. Sorted(S, R) \in [1..Cardinality(S) -> S]
  BY <1>1, <1>5, SortedIs
<1> QED
  BY <1>1, <1>4, <1>6

\* And by rising keys, equals by falling second ones.
LEMMA RisingIs ==
  ASSUME NEW S \in SUBSET Cols, NEW key, NEW second, \A j \in S : key[j] \in Int /\ second[j] \in Int
  PROVE  Cardinality(S) \in Nat /\ RisingThenFalling(S, key, second) \in [1..Cardinality(S) -> S]
<1> DEFINE Before(x, y) == \/ key[x] < key[y]
                           \/ /\ key[x] = key[y]
                              /\ second[x] > second[y] \/ (second[x] = second[y] /\ x < y)
           R == {p \in S \X S : Before(p[1], p[2])}
<1>1. IsFiniteSet(S) /\ Cardinality(S) \in Nat
  BY ColsAre, FS_Subset, FS_CardinalityType
<1>2. \A x \in S, y \in S : (<<x, y>> \in R) <=> Before(x, y)
  OBVIOUS
<1>3. \A x \in S : x \in Int /\ key[x] \in Int /\ second[x] \in Int
  BY ColsAre
<1>4. RisingThenFalling(S, key, second) = Sorted(S, R)
  BY DEF RisingThenFalling
<1> HIDE DEF R
<1>5. Orders(R, S)
  <2>1. \A x \in S, y \in S : x # y => <<x, y>> \in R \/ <<y, x>> \in R
    BY <1>2, <1>3
  <2>2. \A x \in S, y \in S, z \in S : <<x, y>> \in R /\ <<y, z>> \in R => <<x, z>> \in R
    BY <1>2, <1>3
  <2> QED
    BY <2>1, <2>2 DEF Orders
<1>6. Sorted(S, R) \in [1..Cardinality(S) -> S]
  BY <1>1, <1>5, SortedIs
<1> QED
  BY <1>1, <1>4, <1>6

\* A round of Gomory cuts: at most one for each integer column.
LEMMA GomoryCutsAre ==
  ASSUME NEW q, Shaped(q), NEW v, IsBasis(q, v)
  PROVE  /\ GomoryCuts(q, v) \in Seq(ValidCuts(q))
         /\ Cardinality(q.ints) \in Nat /\ Len(GomoryCuts(q, v)) <= Cardinality(q.ints)
<1> DEFINE fractional == {j \in q.ints : v.num[j] % v.det # 0}
           half == [j \in Cols |-> -Magnitude(2 * (v.num[j] % v.det) - v.det)]
           order == Falling(fractional, half)
           n == Cardinality(fractional)
           W == ValidCuts(q)
           V == Seq(W)
           Step(cuts, j) == IF Finalized(v, GomoryCut(v, j)) THEN Append(cuts, GomoryCut(v, j)) ELSE cuts
           Fold(it) == it = [s \in SUBSET (1..n) |->
                              IF s = {} THEN <<>> ELSE Step(it[s \ {Max(s)}], order[Max(s)])]
           iter == CHOOSE it : Fold(it)
           g == [p \in V \X (1..n) |-> Step(p[1], order[p[2]])]
<1>1. q.ints \subseteq Cols /\ fractional \subseteq q.ints /\ fractional \in SUBSET Cols
  BY ShapeIs
<1>2. \A j \in fractional : half[j] \in Int
  <2>1. \A j \in Cols : v.num[j] \in Int
    BY DEF IsBasis
  <2>2. v.det \in Int /\ v.det > 0
    BY DEF IsBasis
  <2>3. \A j \in Cols : v.num[j] % v.det \in Int
    BY <2>1, <2>2, Floor
  <2>4. \A j \in Cols : 2 * (v.num[j] % v.det) - v.det \in Int
    BY <2>2, <2>3
  <2>5. \A w \in Int : -Magnitude(w) \in Int
    BY DEF Magnitude
  <2>6. \A j \in Cols : half[j] \in Int
    BY <2>4, <2>5
  <2> HIDE DEF half
  <2> QED
    BY <1>1, <2>6
<1>3. n \in Nat /\ order \in [1..n -> fractional] /\ DOMAIN order = 1..n
  <2> HIDE DEF half, fractional
  <2> QED
    BY <1>1, <1>2, FallingIs
<1>4. Cardinality(q.ints) \in Nat /\ n <= Cardinality(q.ints)
  <2>1. IsFiniteSet(q.ints)
    BY <1>1, ColsAre, FS_Subset
  <2> HIDE DEF fractional
  <2> QED
    BY <1>1, <2>1, FS_Subset, FS_CardinalityType
<1>5. GomoryCuts(q, v) = iter[1..n]
  <2>1. GomoryCuts(q, v) = FoldLeft(LAMBDA cuts, j : Step(cuts, j), <<>>, order)
    BY DEF GomoryCuts
  <2> HIDE DEF order, n, Step
  <2> QED
    BY <1>3, <2>1 DEF FoldLeft, MapThenFoldSet
<1>6. ASSUME NEW s \in V, NEW k \in 1..n
      PROVE  Step(s, order[k]) \in V /\ Len(s) \in Nat /\ Len(Step(s, order[k])) <= Len(s) + 1
  <2>1. PICK j \in Cols : j = order[k] /\ v.num[j] % v.det # 0
    <3>1. order[k] \in fractional
      <4> HIDE DEF order, n, fractional, V
      <4> QED
        BY <1>3, SMTT(30)
    <3> HIDE DEF order
    <3> QED
      BY <1>1, <3>1
  <2>2. GomoryCut(v, j) \in W
    BY <2>1, GomoryCutIs, Zenon
  <2> HIDE DEF W, order
  <2> QED
    BY <2>1, <2>2
<1>7. <<>> \in V /\ Len(<<>>) = 0
  OBVIOUS
<1>8. g \in [V \X (1..n) -> V]
  <2> HIDE DEF V, Step, order, n
  <2> QED
    BY <1>6
<1>9. \E it : Fold(it)
  <2>1. PICK it \in [SUBSET (1..n) -> V] : LeftFolds(it, n, <<>>, g)
    <3> HIDE DEF V, g, n
    <3> QED
      BY <1>3, <1>7, <1>8, LeftFold
  <2>2. ASSUME NEW s \in SUBSET (1..n), s # {}
        PROVE  g[<<it[s \ {Max(s)}], Max(s)>>] = Step(it[s \ {Max(s)}], order[Max(s)])
    <3>1. Max(s) \in 1..n /\ it[s \ {Max(s)}] \in V
      <4> HIDE DEF V, n, g
      <4>1. Max(s) \in 1..n
        BY <1>3, <2>2, IntervalIs
      <4> QED
        BY <2>1, <4>1
    <3> HIDE DEF V, Step, order, n
    <3> QED
      BY <3>1
  <2> HIDE DEF V, g, Step, order, n
  <2>3. Fold(it)
    BY <2>1, <2>2, Zenon DEF LeftFolds
  <2> HIDE DEF Fold
  <2> QED
    BY <2>3
<1>10. Fold(iter)
  BY <1>9
<1>11. ASSUME NEW k \in 1..n PROVE iter[1..k] = Step(iter[1..(k - 1)], order[k])
  <2>1. 1..k \in SUBSET (1..n) /\ 1..k # {} /\ Max(1..k) = k /\ (1..k) \ {k} = 1..(k - 1)
    <3> HIDE DEF n
    <3> QED
      BY <1>3, IntervalIs
  <2> HIDE DEF iter, Step, order, n
  <2> QED
    BY <1>10, <2>1
<1>12. iter[1..0] = <<>>
  <2>1. 1..0 = {}
    BY IntervalIs
  <2> HIDE DEF iter, Step, order, n
  <2> QED
    BY <1>10, <2>1
<1> DEFINE G == {k \in 0..n : iter[1..k] \in V /\ Len(iter[1..k]) <= k}
<1>13. iter[1..n] \in V /\ Len(iter[1..n]) <= n
  <2> HIDE DEF iter, Step, order, n, V
  <2>1. 0 \in G
    BY <1>3, <1>7, <1>12
  <2>2. ASSUME NEW k \in 1..n, k - 1 \in G PROVE k \in G
    <3>1. PICK s \in V : s = iter[1..(k - 1)] /\ Len(s) <= k - 1
      BY <2>2
    <3>2. Step(s, order[k]) \in V /\ Len(s) \in Nat /\ Len(Step(s, order[k])) <= Len(s) + 1
      BY <1>6
    <3>3. iter[1..k] = Step(s, order[k])
      BY <1>11, <3>1
    <3>4. Len(Step(s, order[k])) \in Nat
      BY <3>2 DEF V
    <3> QED
      BY <1>3, <3>1, <3>2, <3>3, <3>4
  <2> HIDE DEF G
  <2>3. \A k \in 0..n : k \in G
    BY <1>3, <2>1, <2>2, StepByStep
  <2>4. n \in 0..n
    BY <1>3
  <2> QED
    BY <2>3, <2>4 DEF G
<1> HIDE DEF iter, n
<1>14. Len(iter[1..n]) \in Nat
  BY <1>13
<1> QED
  BY <1>3, <1>4, <1>5, <1>13, <1>14

\* The pool passes some of the cuts on.
LEMMA SeparateIs ==
  ASSUME NEW pool, NEW W, NEW cuts \in Seq(W)
  PROVE  Separate(pool, cuts) \in Seq(W) /\ Len(Separate(pool, cuts)) <= Len(cuts)
<1> DEFINE n == Len(cuts)
           V == Seq(W)
           Step(s, cut) == IF \E q \in pool \cup ToSet(s) : IsParallel(q, cut) THEN s ELSE Append(s, cut)
           Fold(it) == it = [s \in SUBSET (1..n) |->
                              IF s = {} THEN <<>> ELSE Step(it[s \ {Max(s)}], cuts[Max(s)])]
           iter == CHOOSE it : Fold(it)
           g == [p \in V \X (1..n) |-> Step(p[1], cuts[p[2]])]
<1>3. n \in Nat /\ DOMAIN cuts = 1..n /\ \A k \in 1..n : cuts[k] \in W
  OBVIOUS
<1>5. Separate(pool, cuts) = iter[1..n]
  <2>1. Separate(pool, cuts) = FoldLeft(LAMBDA s, cut : Step(s, cut), <<>>, cuts)
    BY DEF Separate
  <2> HIDE DEF n, Step
  <2> QED
    BY <1>3, <2>1 DEF FoldLeft, MapThenFoldSet
<1>6. ASSUME NEW s \in V, NEW k \in 1..n
      PROVE  Step(s, cuts[k]) \in V /\ Len(s) \in Nat /\ Len(Step(s, cuts[k])) <= Len(s) + 1
  <2>1. PICK cut \in W : cut = cuts[k]
    BY <1>3
  <2>2. Append(s, cut) \in Seq(W) /\ Len(Append(s, cut)) = Len(s) + 1 /\ Len(s) \in Nat
    OBVIOUS
  <2>3. Step(s, cut) = s \/ Step(s, cut) = Append(s, cut)
    OBVIOUS
  <2> HIDE DEF Step
  <2> QED
    BY <2>1, <2>2, <2>3
<1>7. <<>> \in V /\ Len(<<>>) = 0
  OBVIOUS
<1>8. g \in [V \X (1..n) -> V]
  <2> HIDE DEF V, Step, n
  <2> QED
    BY <1>6
<1>9. \E it : Fold(it)
  <2>1. PICK it \in [SUBSET (1..n) -> V] : LeftFolds(it, n, <<>>, g)
    <3> HIDE DEF V, g, n
    <3> QED
      BY <1>3, <1>7, <1>8, LeftFold
  <2>2. ASSUME NEW s \in SUBSET (1..n), s # {}
        PROVE  g[<<it[s \ {Max(s)}], Max(s)>>] = Step(it[s \ {Max(s)}], cuts[Max(s)])
    <3>1. Max(s) \in 1..n /\ it[s \ {Max(s)}] \in V
      <4> HIDE DEF V, n, g
      <4>1. Max(s) \in 1..n
        BY <1>3, <2>2, IntervalIs
      <4> QED
        BY <2>1, <4>1
    <3> HIDE DEF V, Step, n
    <3> QED
      BY <3>1
  <2> HIDE DEF V, g, Step, n
  <2>3. Fold(it)
    BY <2>1, <2>2, Zenon DEF LeftFolds
  <2> HIDE DEF Fold
  <2> QED
    BY <2>3
<1>10. Fold(iter)
  BY <1>9
<1>11. ASSUME NEW k \in 1..n PROVE iter[1..k] = Step(iter[1..(k - 1)], cuts[k])
  <2>1. 1..k \in SUBSET (1..n) /\ 1..k # {} /\ Max(1..k) = k /\ (1..k) \ {k} = 1..(k - 1)
    <3> HIDE DEF n
    <3> QED
      BY <1>3, IntervalIs
  <2> HIDE DEF iter, Step, n
  <2> QED
    BY <1>10, <2>1
<1>12. iter[1..0] = <<>>
  <2>1. 1..0 = {}
    BY IntervalIs
  <2> HIDE DEF iter, Step, n
  <2> QED
    BY <1>10, <2>1
<1> DEFINE G == {k \in 0..n : iter[1..k] \in V /\ Len(iter[1..k]) <= k}
<1>13. iter[1..n] \in V /\ Len(iter[1..n]) <= n
  <2> HIDE DEF iter, Step, n, V
  <2>1. 0 \in G
    BY <1>3, <1>7, <1>12
  <2>2. ASSUME NEW k \in 1..n, k - 1 \in G PROVE k \in G
    <3>1. PICK s \in V : s = iter[1..(k - 1)] /\ Len(s) <= k - 1
      BY <2>2
    <3>2. Step(s, cuts[k]) \in V /\ Len(s) \in Nat /\ Len(Step(s, cuts[k])) <= Len(s) + 1
      BY <1>6
    <3>3. iter[1..k] = Step(s, cuts[k])
      BY <1>11, <3>1
    <3>4. Len(Step(s, cuts[k])) \in Nat
      BY <3>2 DEF V
    <3> QED
      BY <1>3, <3>1, <3>2, <3>3, <3>4
  <2> HIDE DEF G
  <2>3. \A k \in 0..n : k \in G
    BY <1>3, <2>1, <2>2, StepByStep
  <2>4. n \in 0..n
    BY <1>3
  <2> QED
    BY <2>3, <2>4 DEF G
<1> QED
  BY <1>5, <1>13

-----------------------------------------------------------------------------
(* Programs with further rows *)

\* Rows that may be added.
NewRows == [a : [Cols -> Int], b : Int, kind : {"Le", "Ge", "Eq"}]

\* One sequence after another.
LEMMA ConcatIs ==
  ASSUME NEW S, NEW s \in Seq(S), NEW t \in Seq(S)
  PROVE  /\ s \o t \in Seq(S) /\ Len(s \o t) = Len(s) + Len(t) /\ Len(s) \in Nat /\ Len(t) \in Nat
         /\ \A i \in 1..Len(s) : (s \o t)[i] = s[i]
         /\ \A n \in 1..Len(t) : (s \o t)[Len(s) + n] = t[n]
  OBVIOUS

\* With further rows a program is one, and its first rows are as they were.
LEMMA WithRowsIs ==
  ASSUME NEW q, Shaped(q), NEW new \in Seq(NewRows)
  PROVE  LET p == WithRows(q, new)
         IN  /\ Shaped(p) /\ p.cols = q.cols /\ p.ints = q.ints /\ p.c = q.c /\ p.off = q.off
             /\ p.lo = q.lo /\ p.hi = q.hi
             /\ Len(p.a) = Len(q.a) + Len(new) /\ p.rows = 1..(Len(q.a) + Len(new))
             /\ \A i \in q.rows : p.a[i] = q.a[i] /\ p.b[i] = q.b[i] /\ p.kind[i] = q.kind[i]
             /\ \A n \in 1..Len(new) :
                  /\ p.a[Len(q.a) + n] = new[n].a /\ p.b[Len(q.a) + n] = new[n].b
                  /\ p.kind[Len(q.a) + n] = new[n].kind
<1> DEFINE a == [n \in DOMAIN new |-> new[n].a]
           b == [n \in DOMAIN new |-> new[n].b]
           kind == [n \in DOMAIN new |-> new[n].kind]
           k == Len(q.a)
           m == Len(new)
           rows == 1..(k + m)
           p == WithRows(q, new)
<1>1. /\ DOMAIN new = 1..m /\ m \in Nat
      /\ \A n \in 1..m : new[n].a \in [Cols -> Int] /\ new[n].b \in Int /\ new[n].kind \in {"Le", "Ge", "Eq"}
  <2>1. DOMAIN new = 1..m /\ m \in Nat /\ \A n \in 1..m : new[n] \in NewRows
    OBVIOUS
  <2> QED
    BY <2>1 DEF NewRows
<1>2. /\ a \in Seq([Cols -> Int]) /\ b \in Seq(Int) /\ kind \in Seq({"Le", "Ge", "Eq"})
      /\ Len(a) = m /\ Len(b) = m /\ Len(kind) = m
  <2> HIDE DEF m
  <2>1. a \in Seq([Cols -> Int]) /\ Len(a) = m
    BY <1>1
  <2>2. b \in Seq(Int) /\ Len(b) = m
    BY <1>1
  <2>3. kind \in Seq({"Le", "Ge", "Eq"}) /\ Len(kind) = m
    BY <1>1
  <2> QED
    BY <2>1, <2>2, <2>3
<1>3. /\ q.a \in Seq([Cols -> Int]) /\ q.b \in Seq(Int) /\ q.kind \in Seq({"Le", "Ge", "Eq"})
      /\ k \in Nat /\ Len(q.b) = k /\ Len(q.kind) = k /\ q.rows = 1..k
  BY DEF Shaped
<1>4. p = [q EXCEPT !.a = q.a \o a, !.b = q.b \o b, !.kind = q.kind \o kind, !.rows = rows]
  BY DEF WithRows
<1> HIDE DEF a, b, kind, k, m
<1>5. /\ q.a \o a \in Seq([Cols -> Int]) /\ Len(q.a \o a) = k + m
      /\ q.b \o b \in Seq(Int) /\ Len(q.b \o b) = k + m
      /\ q.kind \o kind \in Seq({"Le", "Ge", "Eq"}) /\ Len(q.kind \o kind) = k + m
  <2>1. q.a \o a \in Seq([Cols -> Int]) /\ Len(q.a \o a) = Len(q.a) + Len(a)
    BY <1>2, <1>3, ConcatIs
  <2>2. q.b \o b \in Seq(Int) /\ Len(q.b \o b) = Len(q.b) + Len(b)
    BY <1>2, <1>3, ConcatIs
  <2>3. q.kind \o kind \in Seq({"Le", "Ge", "Eq"}) /\ Len(q.kind \o kind) = Len(q.kind) + Len(kind)
    BY <1>2, <1>3, ConcatIs
  <2>4. Len(q.a) = k
    BY DEF k
  <2> QED
    BY <1>2, <1>3, <2>1, <2>2, <2>3, <2>4
<1>6. \A i \in 1..k : (q.a \o a)[i] = q.a[i] /\ (q.b \o b)[i] = q.b[i] /\ (q.kind \o kind)[i] = q.kind[i]
  BY <1>2, <1>3, ConcatIs DEF k
<1>7. \A n \in 1..m : /\ (q.a \o a)[k + n] = a[n] /\ (q.b \o b)[k + n] = b[n]
                      /\ (q.kind \o kind)[k + n] = kind[n]
  <2> TAKE n \in 1..m
  <2>0. n \in 1..Len(a) /\ n \in 1..Len(b) /\ n \in 1..Len(kind)
    BY <1>2
  <2>1. (q.a \o a)[Len(q.a) + n] = a[n]
    BY <1>2, <1>3, <2>0, ConcatIs
  <2>2. (q.b \o b)[Len(q.b) + n] = b[n]
    <3>1. q.b \in Seq(Int) /\ b \in Seq(Int)
      BY <1>2, <1>3
    <3> QED
      BY <2>0, <3>1, ConcatIs
  <2>3. (q.kind \o kind)[Len(q.kind) + n] = kind[n]
    <3>1. q.kind \in Seq({"Le", "Ge", "Eq"}) /\ kind \in Seq({"Le", "Ge", "Eq"})
      BY <1>2, <1>3
    <3> QED
      BY <2>0, <3>1, ConcatIs
  <2> QED
    BY <1>3, <2>1, <2>2, <2>3 DEF k
<1>8. \A n \in 1..m : a[n] = new[n].a /\ b[n] = new[n].b /\ kind[n] = new[n].kind
  BY <1>1 DEF a, b, kind
<1>9. PICK A \in Seq([Cols -> Int]), B \in Seq(Int), K \in Seq({"Le", "Ge", "Eq"}) :
        A = q.a \o a /\ B = q.b \o b /\ K = q.kind \o kind
  BY <1>5
<1>10. /\ p.a = A /\ p.b = B /\ p.kind = K /\ p.rows = rows
       /\ p.cols = q.cols /\ p.ints = q.ints /\ p.c = q.c /\ p.off = q.off /\ p.lo = q.lo /\ p.hi = q.hi
       /\ p = [a |-> A, b |-> B, kind |-> K, rows |-> rows, cols |-> q.cols, ints |-> q.ints, c |-> q.c,
               off |-> q.off, lo |-> q.lo, hi |-> q.hi]
  <2> HIDE DEF p, rows
  <2> QED
    BY <1>4, <1>9 DEF Shaped
<1> HIDE DEF p
<1>11. Shaped(p)
  <2>1. rows \in SUBSET Nat
    BY <1>1, <1>3
  <2>2. Len(A) = k + m /\ Len(B) = k + m /\ Len(K) = k + m
    BY <1>5, <1>9
  <2>3. q.cols = Cols /\ q.ints \in SUBSET Cols /\ q.c \in [Cols -> Int] /\ q.off = 0
        /\ q.lo \in [Cols -> Int] /\ q.hi \in [Cols -> Int]
    BY DEF Shaped
  <2> QED
    BY <1>10, <2>1, <2>2, <2>3 DEF Shaped
<1>12. Len(p.a) = k + m /\ p.rows = 1..(k + m)
  BY <1>5, <1>9, <1>10
<1>13. \A i \in q.rows : p.a[i] = q.a[i] /\ p.b[i] = q.b[i] /\ p.kind[i] = q.kind[i]
  BY <1>3, <1>6, <1>9, <1>10, Zenon
<1>14. \A n \in 1..m : p.a[k + n] = new[n].a /\ p.b[k + n] = new[n].b /\ p.kind[k + n] = new[n].kind
  BY <1>7, <1>8, <1>9, <1>10
<1> QED
  BY <1>10, <1>11, <1>12, <1>13, <1>14 DEF p, k, m

-----------------------------------------------------------------------------
(* Weights, and the order in which a set is taken *)

\* A set as a sequence.
LEMMA SetToSeqIs ==
  ASSUME NEW S, IsFiniteSet(S)
  PROVE  SetToSeq(S) \in Seq(S)
<1>1. Cardinality(S) \in Nat /\ ExistsBijection(1..Cardinality(S), S)
  BY FS_CardinalityType
<1>2. PICK f \in Bijection(1..Cardinality(S), S) : TRUE
  BY <1>1 DEF ExistsBijection
<1>3. f \in [1..Cardinality(S) -> S] /\ IsInjective(f)
  BY <1>2 DEF Bijection, Injection, IsInjective
<1>4. SetToSeq(S) \in [1..Cardinality(S) -> S]
  BY <1>3 DEF SetToSeq
<1> QED
  BY <1>1, <1>4

\* What an element of S weighs.
In(S, w, j) == IF j \in S THEN w[j] ELSE 0

\* A weight is a sum over the columns.
LEMMA WeightIs ==
  ASSUME NEW S \in SUBSET Cols, NEW w, \A j \in S : w[j] \in Int
  PROVE  /\ Weight(S, w) = In(S, w, 1) + In(S, w, 2) + In(S, w, 3)
         /\ Weight(S, w) \in Int /\ In(S, w, 1) \in Int /\ In(S, w, 2) \in Int /\ In(S, w, 3) \in Int
<1> DEFINE f == [j \in S |-> w[j]]
<1>1. DOMAIN f \in SUBSET (1..3) /\ \A j \in DOMAIN f : f[j] \in Int
  BY ColsAre
<1>2. Term(f, 1) = In(S, w, 1) /\ Term(f, 2) = In(S, w, 2) /\ Term(f, 3) = In(S, w, 3)
  BY DEF Term, In
<1>3. SumFunction(f) = Term(f, 1) + Term(f, 2) + Term(f, 3) /\ SumFunction(f) \in Int
  <2> HIDE DEF f
  <2> QED
    BY <1>1, SumIs
<1>4. Weight(S, w) = SumFunction(f)
  BY DEF Weight
<1>5. \A j \in Cols : In(S, w, j) \in Int
  BY DEF In
<1> HIDE DEF f
<1> QED
  BY <1>2, <1>3, <1>4, <1>5, ColsAre

\* How many columns there are in a set.
LEMMA CardinalityIs ==
  ASSUME NEW S \in SUBSET Cols, NEW w, \A j \in S : w[j] = 1
  PROVE  Cardinality(S) = In(S, w, 1) + In(S, w, 2) + In(S, w, 3)
<1>0. Cardinality({}) = 0
  BY FS_EmptySet
<1>1. S = {j \in {1} : j \in S} \cup ({j \in {2} : j \in S} \cup {j \in {3} : j \in S})
  <2>1. \A j \in S : j = 1 \/ j = 2 \/ j = 3
    BY ColsAre
  <2> QED
    BY <2>1, Zenon
<1>2. ASSUME NEW k \in Cols
      PROVE  /\ IsFiniteSet({j \in {k} : j \in S})
             /\ Cardinality({j \in {k} : j \in S}) = In(S, w, k)
  <2>1. {j \in {k} : j \in S} = IF k \in S THEN {k} ELSE {}
    OBVIOUS
  <2> QED
    BY <2>1, FS_Singleton, FS_EmptySet DEF In
<1>3. LET A == {j \in {2} : j \in S}
          B == {j \in {3} : j \in S}
      IN  IsFiniteSet(A \cup B) /\ Cardinality(A \cup B) = In(S, w, 2) + In(S, w, 3)
  <2> DEFINE A == {j \in {2} : j \in S}
             B == {j \in {3} : j \in S}
  <2>1. A \cap B = {}
    OBVIOUS
  <2>2. IsFiniteSet(A) /\ IsFiniteSet(B) /\ Cardinality(A) = In(S, w, 2) /\ Cardinality(B) = In(S, w, 3)
    BY <1>2, ColsAre
  <2>3. In(S, w, 2) \in Int /\ In(S, w, 3) \in Int
    BY DEF In
  <2> HIDE DEF A, B
  <2>4. IsFiniteSet(A \cup B) /\ Cardinality(A \cup B) = Cardinality(A) + Cardinality(B) - Cardinality(A \cap B)
    BY <2>2, FS_Union
  <2>6. Cardinality(A \cap B) = 0
    BY <1>0, <2>1
  <2>7. PICK u \in Int, v \in Int : u = In(S, w, 2) /\ v = In(S, w, 3)
    BY <2>3
  <2>8. Cardinality(A \cup B) = u + v - 0
    BY <2>2, <2>4, <2>6, <2>7
  <2>5. IsFiniteSet(A \cup B) /\ Cardinality(A \cup B) = In(S, w, 2) + In(S, w, 3)
    BY <2>4, <2>7, <2>8
  <2> QED
    BY <2>5 DEF A, B
<1> DEFINE A == {j \in {1} : j \in S}
           B == {j \in {2} : j \in S} \cup {j \in {3} : j \in S}
<1>4. A \cap B = {}
  OBVIOUS
<1>5. /\ IsFiniteSet(A) /\ Cardinality(A) = In(S, w, 1) /\ S = A \cup B
      /\ IsFiniteSet(B) /\ Cardinality(B) = In(S, w, 2) + In(S, w, 3)
  BY <1>1, <1>2, <1>3, ColsAre
<1>6. In(S, w, 1) \in Int /\ In(S, w, 2) \in Int /\ In(S, w, 3) \in Int
  BY DEF In
<1> HIDE DEF A, B
<1>7. Cardinality(A \cup B) = Cardinality(A) + Cardinality(B) - Cardinality(A \cap B)
  BY <1>5, FS_Union
<1> QED
  <2>1. Cardinality(A \cap B) = 0
    BY <1>0, <1>4
  <2>2. PICK t \in Int, u \in Int, v \in Int : t = In(S, w, 1) /\ u = In(S, w, 2) /\ v = In(S, w, 3)
    BY <1>6
  <2>3. Cardinality(A \cup B) = t + (u + v) - 0
    BY <1>5, <1>7, <2>1, <2>2
  <2>4. Cardinality(S) = t + (u + v) - 0
    BY <1>5, <2>3
  <2> QED
    BY <2>2, <2>4

-----------------------------------------------------------------------------
(* Covers *)

\* A greedy cover is chosen from the columns given.
LEMMA GreedyIs ==
  ASSUME NEW S, NEW n \in Nat, NEW order \in [1..n -> S], NEW w, NEW b
  PROVE  GreedyCover(order, w, b) \in SUBSET S
<1> DEFINE V == SUBSET S
           Step(T, j) == IF Weight(T, w) > b THEN T ELSE T \cup {j}
           Fold(it) == it = [s \in SUBSET (1..n) |->
                              IF s = {} THEN {} ELSE Step(it[s \ {Max(s)}], order[Max(s)])]
           iter == CHOOSE it : Fold(it)
           g == [p \in V \X (1..n) |-> Step(p[1], order[p[2]])]
<1>1. GreedyCover(order, w, b) = iter[1..n]
  BY DEF GreedyCover, FoldLeft, MapThenFoldSet
<1>2. ASSUME NEW s \in V, NEW k \in 1..n PROVE Step(s, order[k]) \in V
  BY Zenon
<1>3. {} \in V
  OBVIOUS
<1>4. g \in [V \X (1..n) -> V]
  <2> HIDE DEF V, Step
  <2> QED
    BY <1>2
<1>5. Fold(iter)
  <2>1. PICK it \in [SUBSET (1..n) -> V] : LeftFolds(it, n, {}, g)
    <3> HIDE DEF V, g
    <3> QED
      BY <1>3, <1>4, LeftFold
  <2>2. ASSUME NEW s \in SUBSET (1..n), s # {}
        PROVE  g[<<it[s \ {Max(s)}], Max(s)>>] = Step(it[s \ {Max(s)}], order[Max(s)])
    <3>1. Max(s) \in 1..n
      BY <2>2, IntervalIs
    <3>2. it[s \ {Max(s)}] \in V
      <4> HIDE DEF V, g
      <4> QED
        BY <2>1
    <3> HIDE DEF V, Step
    <3> QED
      BY <3>1, <3>2
  <2> HIDE DEF V, g, Step
  <2>3. Fold(it)
    BY <2>1, <2>2 DEF LeftFolds
  <2> HIDE DEF Fold
  <2> QED
    BY <2>3
<1>6. iter[1..n] \in V
  <2>1. ASSUME NEW k \in 1..n PROVE iter[1..k] = Step(iter[1..(k - 1)], order[k])
    <3>1. 1..k \in SUBSET (1..n) /\ 1..k # {} /\ Max(1..k) = k /\ (1..k) \ {k} = 1..(k - 1)
      BY IntervalIs
    <3> HIDE DEF iter, Step
    <3> QED
      BY <1>5, <3>1
  <2>2. iter[{}] = {}
    <3> HIDE DEF iter, Step
    <3> QED
      BY <1>5
  <2> HIDE DEF iter, Step, V
  <2>3. \A k \in 1..n : iter[1..(k - 1)] \in V => iter[1..k] \in V
    BY <1>2, <2>1
  <2> QED
    BY <1>3, <2>2, <2>3, FoldStays
<1> QED
  BY <1>1, <1>6

\* A cover stays one as columns are dropped.
LEMMA MinimisedIs ==
  ASSUME NEW S, NEW n \in Nat, NEW order \in [1..n -> S], NEW T \in SUBSET S, NEW w, NEW b, Weight(T, w) > b
  PROVE  Minimised(T, order, w, b) \in SUBSET T /\ Weight(Minimised(T, order, w, b), w) > b
<1> DEFINE V == {C \in SUBSET T : Weight(C, w) > b}
           Step(C, j) == IF j \in C /\ Weight(C \ {j}, w) > b THEN C \ {j} ELSE C
           Fold(it) == it = [s \in SUBSET (1..n) |->
                              IF s = {} THEN T ELSE Step(it[s \ {Max(s)}], order[Max(s)])]
           iter == CHOOSE it : Fold(it)
           g == [p \in V \X (1..n) |-> Step(p[1], order[p[2]])]
<1>1. Minimised(T, order, w, b) = iter[1..n]
  BY DEF Minimised, FoldLeft, MapThenFoldSet
<1>2. ASSUME NEW s \in V, NEW k \in 1..n PROVE Step(s, order[k]) \in V
  BY Zenon
<1>3. T \in V
  OBVIOUS
<1>4. g \in [V \X (1..n) -> V]
  <2> HIDE DEF V, Step
  <2> QED
    BY <1>2
<1>5. Fold(iter)
  <2>1. PICK it \in [SUBSET (1..n) -> V] : LeftFolds(it, n, T, g)
    <3> HIDE DEF V, g
    <3> QED
      BY <1>3, <1>4, LeftFold
  <2>2. ASSUME NEW s \in SUBSET (1..n), s # {}
        PROVE  g[<<it[s \ {Max(s)}], Max(s)>>] = Step(it[s \ {Max(s)}], order[Max(s)])
    <3>1. Max(s) \in 1..n
      BY <2>2, IntervalIs
    <3>2. it[s \ {Max(s)}] \in V
      <4> HIDE DEF V, g
      <4> QED
        BY <2>1
    <3> HIDE DEF V, Step
    <3> QED
      BY <3>1, <3>2
  <2> HIDE DEF V, g, Step
  <2>3. Fold(it)
    BY <2>1, <2>2 DEF LeftFolds
  <2> HIDE DEF Fold
  <2> QED
    BY <2>3
<1>6. iter[1..n] \in V
  <2>1. ASSUME NEW k \in 1..n PROVE iter[1..k] = Step(iter[1..(k - 1)], order[k])
    <3>1. 1..k \in SUBSET (1..n) /\ 1..k # {} /\ Max(1..k) = k /\ (1..k) \ {k} = 1..(k - 1)
      BY IntervalIs
    <3> HIDE DEF iter, Step
    <3> QED
      BY <1>5, <3>1
  <2>2. iter[{}] = T
    <3> HIDE DEF iter, Step
    <3> QED
      BY <1>5
  <2> HIDE DEF iter, Step, V
  <2>3. \A k \in 1..n : iter[1..(k - 1)] \in V => iter[1..k] \in V
    BY <1>2, <2>1
  <2> QED
    BY <1>3, <2>2, <2>3, FoldStays
<1> QED
  BY <1>1, <1>6

\* A bound on a combination of columns, as a cut.
LEMMA AtMostIs ==
  ASSUME NEW q, NEW f \in [Cols -> Int], NEW r \in Int, \A x \in Points(q) : Dot(f, x) <= r
  PROVE  AtMost(f, r) \in ValidCuts(q)
<1> DEFINE p == Negated(f)
           cut == [p |-> p, r |-> -r]
<1>1. AtMost(f, r) = cut
  BY DEF AtMost
<1>2. p \in [Cols -> Int] /\ -r \in Int
  BY VectorIs
<1>3. ASSUME NEW x \in Points(q) PROVE -r <= Dot(p, x)
  <2>1. x \in [Cols -> Int]
    BY PointsAreInteger
  <2>2. Dot(p, x) = -Dot(f, x) /\ Dot(f, x) \in Int
    BY <2>1, VectorIs
  <2> HIDE DEF p
  <2> QED
    BY <2>2
<1> HIDE DEF p
<1>4. cut.p = p /\ cut.r = -r /\ cut \in [p : [Cols -> Int], r : Int]
  BY <1>2
<1> HIDE DEF cut
<1> QED
  BY <1>1, <1>3, <1>4 DEF ValidCuts

\* A column taken out of a set.
LEMMA WeightWithout ==
  ASSUME NEW S \in SUBSET Cols, NEW w, \A k \in S : w[k] \in Int, NEW j \in S
  PROVE  Weight(S, w) = w[j] + Weight(S \ {j}, w) /\ w[j] \in Int /\ Weight(S \ {j}, w) \in Int
<1> DEFINE T == S \ {j}
<1>1. T \in SUBSET Cols /\ \A k \in T : w[k] \in Int
  OBVIOUS
<1>2. \A k \in Cols : In(T, w, k) = IF k = j THEN 0 ELSE In(S, w, k)
  BY DEF In
<1>3. In(S, w, j) = w[j] /\ w[j] \in Int /\ j \in Cols
  BY DEF In
<1> HIDE DEF T
<1>4. /\ Weight(T, w) = In(T, w, 1) + In(T, w, 2) + In(T, w, 3) /\ Weight(T, w) \in Int
      /\ In(T, w, 1) \in Int /\ In(T, w, 2) \in Int /\ In(T, w, 3) \in Int
  BY <1>1, WeightIs
<1>5. /\ Weight(S, w) = In(S, w, 1) + In(S, w, 2) + In(S, w, 3)
      /\ In(S, w, 1) \in Int /\ In(S, w, 2) \in Int /\ In(S, w, 3) \in Int
  BY WeightIs
<1>6. Weight(S, w) = w[j] + Weight(T, w)
  BY <1>2, <1>3, <1>4, <1>5, ColsAre
<1> QED
  BY <1>3, <1>4, <1>6 DEF T

\* Selections of a row's columns that its weights allow are worth at most m.
Packs(q, i, m) ==
  {f \in [Cols -> Nat] :
     /\ \A j \in Cols : f[j] > 0 => j \in RowCols(q, i)
     /\ \A R \in SUBSET RowCols(q, i) : Weight(R, q.a[i]) <= q.b[i] => Weight(R, f) <= m}

\* What a knapsack row is.
LEMMA KnapsackIs ==
  ASSUME NEW q, Shaped(q), NEW i \in q.rows, IsKnapsack(q, i)
  PROVE  /\ RowCols(q, i) \in SUBSET Cols /\ q.a[i] \in [Cols -> Int] /\ q.b[i] \in Int /\ q.kind[i] = "Le"
         /\ \A j \in RowCols(q, i) : q.a[i][j] > 0 /\ InUnitBox(q, j)
         /\ \A j \in Cols : j \notin RowCols(q, i) => q.a[i][j] = 0
         /\ \A x \in Points(q) : /\ Dot(q.a[i], x) <= q.b[i] /\ Dot(q.a[i], x) \in Int
                                 /\ \A j \in RowCols(q, i) : x[j] = 0 \/ x[j] = 1
<1>1. /\ q.cols = Cols /\ q.a[i] \in [Cols -> Int] /\ q.b[i] \in Int /\ q.kind[i] = "Le"
      /\ q.lo \in [Cols -> Int] /\ q.hi \in [Cols -> Int]
  BY ShapeIs DEF IsKnapsack
<1>2. \A j \in RowCols(q, i) : q.a[i][j] > 0 /\ InUnitBox(q, j)
  BY DEF IsKnapsack
<1>3. RowCols(q, i) \in SUBSET Cols /\ \A j \in Cols : j \notin RowCols(q, i) => q.a[i][j] = 0
  BY <1>1 DEF RowCols
<1>4. ASSUME NEW x \in Points(q)
      PROVE  /\ Dot(q.a[i], x) <= q.b[i] /\ Dot(q.a[i], x) \in Int
             /\ \A j \in RowCols(q, i) : x[j] = 0 \/ x[j] = 1
  <2>1. x \in [Cols -> Int]
    BY PointsAreInteger
  <2>2. Dot(q.a[i], x) \in Int
    BY <1>1, <2>1, VectorIs
  <2>3. Compare("Le", Dot(q.a[i], x), q.b[i]) /\ \A j \in Cols : q.lo[j] <= x[j] /\ x[j] <= q.hi[j]
    BY <1>1, PointIs
  <2>4. Dot(q.a[i], x) <= q.b[i]
    BY <1>1, <2>2, <2>3, CompareIs
  <2>5. \A j \in RowCols(q, i) : q.lo[j] >= 0 /\ q.hi[j] <= 1
    BY <1>2 DEF InUnitBox
  <2>6. \A j \in RowCols(q, i) : 0 <= x[j] /\ x[j] <= 1 /\ x[j] \in Int
    BY <1>1, <1>3, <2>1, <2>3, <2>5
  <2> QED
    BY <2>2, <2>4, <2>6
<1> QED
  BY <1>1, <1>2, <1>3, <1>4

\* The selection a point makes.
LEMMA SelectionIs ==
  ASSUME NEW w \in [Cols -> Int], NEW x \in [Cols -> Int], NEW S \in SUBSET Cols,
         \A j \in S : x[j] = 0 \/ x[j] = 1, \A j \in Cols : j \notin S => w[j] = 0
  PROVE  Weight({j \in S : x[j] = 1}, w) = Dot(w, x)
<1> DEFINE R == {j \in S : x[j] = 1}
<1>1. R \in SUBSET Cols /\ \A j \in R : w[j] \in Int
  OBVIOUS
<1>2. \A j \in Cols : In(R, w, j) = w[j] * x[j]
  <2> SUFFICES ASSUME NEW j \in Cols PROVE In(R, w, j) = w[j] * x[j]
    OBVIOUS
  <2>1. w[j] \in Int /\ x[j] \in Int
    OBVIOUS
  <2>2. CASE j \notin S
    BY <2>1, <2>2 DEF In
  <2>3. CASE j \in S /\ x[j] = 0
    BY <2>1, <2>3 DEF In
  <2>4. CASE j \in S /\ x[j] = 1
    BY <2>1, <2>4 DEF In
  <2> QED
    BY <2>2, <2>3, <2>4
<1> HIDE DEF R
<1>3. Weight(R, w) = In(R, w, 1) + In(R, w, 2) + In(R, w, 3)
  BY <1>1, WeightIs
<1> QED
  BY <1>2, <1>3, ColsAre DEF R, Dot

\* A bound on the worth of selections is a valid cut.
LEMMA PackingIsValid ==
  ASSUME NEW q, Shaped(q), NEW i \in q.rows, IsKnapsack(q, i), NEW m \in Int, NEW f \in Packs(q, i, m)
  PROVE  AtMost(f, m) \in ValidCuts(q)
<1> DEFINE S == RowCols(q, i)
<1>1. /\ S \in SUBSET Cols /\ q.a[i] \in [Cols -> Int] /\ \A j \in Cols : j \notin S => q.a[i][j] = 0
      /\ \A x \in Points(q) : Dot(q.a[i], x) <= q.b[i] /\ \A j \in S : x[j] = 0 \/ x[j] = 1
  BY KnapsackIs
<1>2. /\ f \in [Cols -> Int] /\ \A j \in Cols : j \notin S => f[j] = 0
      /\ \A R \in SUBSET S : Weight(R, q.a[i]) <= q.b[i] => Weight(R, f) <= m
  <2>1. f \in [Cols -> Nat] /\ \A j \in Cols : f[j] > 0 => j \in S
    BY DEF Packs
  <2>2. \A R \in SUBSET S : Weight(R, q.a[i]) <= q.b[i] => Weight(R, f) <= m
    BY DEF Packs
  <2> HIDE DEF S
  <2> QED
    BY <2>1, <2>2
<1> HIDE DEF S
<1>3. ASSUME NEW x \in Points(q) PROVE Dot(f, x) <= m
  <2> DEFINE R == {j \in S : x[j] = 1}
  <2>1. x \in [Cols -> Int]
    BY PointsAreInteger
  <2>2. Weight(R, q.a[i]) = Dot(q.a[i], x) /\ Weight(R, f) = Dot(f, x)
    BY <1>1, <1>2, <2>1, SelectionIs
  <2>3. R \in SUBSET S
    OBVIOUS
  <2> HIDE DEF R
  <2> QED
    BY <1>1, <1>2, <2>2, <2>3
<1> QED
  BY <1>2, <1>3, AtMostIs

\* At most |C| - 1 columns of a cover.
LEMMA CoverPacks ==
  ASSUME NEW q, Shaped(q), NEW i \in q.rows, IsKnapsack(q, i), NEW C \in SUBSET RowCols(q, i),
         Weight(C, q.a[i]) > q.b[i]
  PROVE  /\ Cardinality(C) \in Nat
         /\ Indicator(C, [j \in Cols |-> 1]) \in Packs(q, i, Cardinality(C) - 1)
<1> DEFINE S == RowCols(q, i)
           w == q.a[i]
           one == [j \in Cols |-> 1]
           f == Indicator(C, one)
<1>1. /\ S \in SUBSET Cols /\ w \in [Cols -> Int] /\ q.b[i] \in Int /\ \A j \in S : w[j] > 0
  BY KnapsackIs
<1>2. f \in [Cols -> Nat] /\ \A j \in Cols : f[j] = (IF j \in C THEN 1 ELSE 0)
  BY DEF Indicator
<1>3. C \in SUBSET Cols /\ \A j \in C : one[j] = 1 /\ one[j] \in Int
  BY <1>1
<1>4. IsFiniteSet(C) /\ Cardinality(C) \in Nat
  BY <1>3, ColsAre, FS_Subset, FS_CardinalityType
<1>5. Cardinality(C) = In(C, one, 1) + In(C, one, 2) + In(C, one, 3)
  BY <1>3, CardinalityIs
<1>6. \A j \in Cols : In(C, one, j) = IF j \in C THEN 1 ELSE 0
  BY <1>3 DEF In
<1> HIDE DEF f, one
<1>7. ASSUME NEW R \in SUBSET S, Weight(R, w) <= q.b[i] PROVE Weight(R, f) <= Cardinality(C) - 1
  <2>1. R \in SUBSET Cols /\ \A j \in R : w[j] \in Int /\ f[j] \in Int
    BY <1>1, <1>2
  <2>2. PICK j \in C : j \notin R
    <3> SUFFICES ASSUME C \subseteq R PROVE FALSE
      OBVIOUS
    <3>1. \A j \in Cols : In(C, w, j) <= In(R, w, j)
      BY <1>1 DEF In
    <3>2. Weight(C, w) = In(C, w, 1) + In(C, w, 2) + In(C, w, 3)
          /\ In(C, w, 1) \in Int /\ In(C, w, 2) \in Int /\ In(C, w, 3) \in Int
      BY <1>1, <1>3, WeightIs
    <3>3. Weight(R, w) = In(R, w, 1) + In(R, w, 2) + In(R, w, 3)
          /\ In(R, w, 1) \in Int /\ In(R, w, 2) \in Int /\ In(R, w, 3) \in Int
      BY <2>1, WeightIs
    <3>4. Weight(C, w) <= Weight(R, w) /\ Weight(C, w) \in Int /\ Weight(R, w) \in Int
      BY <3>1, <3>2, <3>3, ColsAre
    <3> QED
      BY <1>1, <1>7, <3>4
  <2>3. Weight(R, f) = In(R, f, 1) + In(R, f, 2) + In(R, f, 3)
    BY <2>1, WeightIs
  <2>4. \A k \in Cols : In(R, f, k) = IF k \in R /\ k \in C THEN 1 ELSE 0
    BY <1>2 DEF In
  <2>5. j \in Cols
    BY <1>3
  <2> QED
    BY <1>5, <1>6, <2>2, <2>3, <2>4, <2>5, ColsAre
<1>8. \A j \in Cols : f[j] > 0 => j \in S
  BY <1>2
<1> QED
  BY <1>2, <1>4, <1>7, <1>8 DEF Packs, f, one

\* A part weighs no more than the whole.
LEMMA PartWeighs ==
  ASSUME NEW T \in SUBSET Cols, NEW S \in SUBSET T, NEW w, \A j \in T : w[j] \in Nat
  PROVE  0 <= Weight(S, w) /\ Weight(S, w) <= Weight(T, w) /\ Weight(S, w) \in Int /\ Weight(T, w) \in Int
<1>1. /\ S \in SUBSET Cols /\ \A j \in T : w[j] \in Int
      /\ \A j \in Cols : 0 <= In(S, w, j) /\ In(S, w, j) <= In(T, w, j)
  BY DEF In
<1>2. /\ Weight(S, w) = In(S, w, 1) + In(S, w, 2) + In(S, w, 3) /\ Weight(S, w) \in Int
      /\ In(S, w, 1) \in Int /\ In(S, w, 2) \in Int /\ In(S, w, 3) \in Int
  BY <1>1, WeightIs
<1>3. /\ Weight(T, w) = In(T, w, 1) + In(T, w, 2) + In(T, w, 3) /\ Weight(T, w) \in Int
      /\ In(T, w, 1) \in Int /\ In(T, w, 2) \in Int /\ In(T, w, 3) \in Int
  BY <1>1, WeightIs
<1> QED
  BY <1>1, <1>2, <1>3, ColsAre

\* What weighs nothing does not count.
LEMMA SameWeight ==
  ASSUME NEW T \in SUBSET Cols, NEW S \in SUBSET Cols, NEW w, NEW v,
         \A j \in T : w[j] \in Int, \A j \in S : v[j] \in Int, \A j \in Cols : In(T, w, j) = In(S, v, j)
  PROVE  Weight(T, w) = Weight(S, v)
<1>1. Weight(T, w) = In(T, w, 1) + In(T, w, 2) + In(T, w, 3)
  BY WeightIs
<1>2. Weight(S, v) = In(S, v, 1) + In(S, v, 2) + In(S, v, 3)
  BY WeightIs
<1> QED
  BY <1>1, <1>2, ColsAre

\* The knapsack of the lifting.
LEMMA MostWorthIs ==
  ASSUME NEW S \in SUBSET Cols, NEW w \in [Cols -> Int], NEW f \in [Cols -> Int], NEW cap \in Int, cap >= 0
  PROVE  /\ MostWorth(S, w, f, cap) \in Int
         /\ \A T \in SUBSET S : Weight(T, w) <= cap => Weight(T, f) <= MostWorth(S, w, f, cap)
<1> DEFINE X == {R \in SUBSET S : Weight(R, w) <= cap}
           g == [R \in X |-> Weight(R, f)]
           Y == {Weight(R, f) : R \in X}
<1>1. IsFiniteSet(X)
  <2>1. IsFiniteSet(S)
    BY ColsAre, FS_Subset
  <2>2. IsFiniteSet(SUBSET S)
    BY <2>1, FS_SUBSET
  <2>3. X \in SUBSET (SUBSET S)
    OBVIOUS
  <2> HIDE DEF X
  <2> QED
    BY <2>2, <2>3, FS_Subset
<1>2. {} \in X
  <2>1. {} \in SUBSET Cols /\ \A j \in {} : w[j] \in Int
    OBVIOUS
  <2>2. Weight({}, w) = In({}, w, 1) + In({}, w, 2) + In({}, w, 3)
    BY <2>1, WeightIs
  <2>3. \A j \in Cols : In({}, w, j) = 0
    BY DEF In
  <2> QED
    BY <2>2, <2>3, ColsAre
<1>3. \A R \in X : Weight(R, f) \in Int
  <2> SUFFICES ASSUME NEW R \in X PROVE Weight(R, f) \in Int
    OBVIOUS
  <2>1. R \in SUBSET Cols /\ \A j \in R : f[j] \in Int
    OBVIOUS
  <2> QED
    BY <2>1, WeightIs
<1>4. Y = {g[R] : R \in X}
  <2> HIDE DEF X
  <2> QED
    OBVIOUS
<1>5. IsFiniteSet(Y) /\ Y # {} /\ Y \in SUBSET Int
  <2> HIDE DEF X, g
  <2>1. IsFiniteSet({g[R] : R \in X})
    BY <1>1, ImageIsFinite
  <2> QED
    BY <1>2, <1>3, <1>4, <2>1
<1>6. MostWorth(S, w, f, cap) = Max(Y)
  BY DEF MostWorth
<1>7. \A T \in SUBSET S : Weight(T, w) <= cap => Weight(T, f) \in Y
  OBVIOUS
<1> HIDE DEF X, g, Y
<1>8. Max(Y) \in Y /\ \A y \in Y : y <= Max(Y)
  BY <1>5, MaxIs
<1> QED
  BY <1>5, <1>6, <1>7, <1>8

\* Lifting a column.
LEMMA LiftPacks ==
  ASSUME NEW q, Shaped(q), NEW i \in q.rows, IsKnapsack(q, i), NEW C, Cardinality(C) \in Nat,
         NEW f \in Packs(q, i, Cardinality(C) - 1), NEW j \in RowCols(q, i)
  PROVE  Lift(f, C, j, q.a[i], q.b[i]) \in Packs(q, i, Cardinality(C) - 1)
<1> DEFINE w == q.a[i]
           b == q.b[i]
           K == RowCols(q, i)
           S == {k \in Cols : f[k] > 0}
           m == Cardinality(C) - 1
           M == MostWorth(S, w, f, b - w[j])
           alpha == IF b < w[j] THEN 0 ELSE m - M
           u == IF alpha > 0 THEN alpha ELSE 0
           new == [f EXCEPT ![j] = u]
<1>1. Lift(f, C, j, q.a[i], q.b[i]) = new
  BY DEF Lift
<1>2. /\ K \in SUBSET Cols /\ w \in [Cols -> Int] /\ b \in Int /\ \A k \in K : w[k] > 0
  BY KnapsackIs
<1>3. /\ f \in [Cols -> Nat] /\ \A k \in Cols : f[k] > 0 => k \in K
      /\ \A R \in SUBSET K : Weight(R, w) <= b => Weight(R, f) <= m
  BY DEF Packs
<1>4. S \in SUBSET K /\ \A k \in Cols : k \notin S => f[k] = 0
  BY <1>3
<1> HIDE DEF S, K, w, b
<1>5. w[j] <= b => /\ M \in Int
                   /\ \A T \in SUBSET S : Weight(T, w) <= b - w[j] => Weight(T, f) <= M
  <2> SUFFICES ASSUME w[j] <= b
               PROVE  M \in Int /\ \A T \in SUBSET S : Weight(T, w) <= b - w[j] => Weight(T, f) <= M
    OBVIOUS
  <2>1. j \in K
    BY DEF K
  <2>2. b - w[j] \in Int /\ b - w[j] >= 0 /\ S \in SUBSET Cols /\ f \in [Cols -> Int]
    BY <1>2, <1>3, <1>4, <2>1
  <2> QED
    BY <1>2, <2>2, MostWorthIs
<1>6. m \in Int /\ j \in K
  BY DEF K
<1> HIDE DEF m, M
<1>7. alpha \in Int /\ u \in Nat /\ (w[j] <= b /\ u > 0 => u = m - M)
  BY <1>2, <1>5, <1>6
<1> HIDE DEF u
<1>8. new \in [Cols -> Nat] /\ new[j] = u /\ \A k \in Cols : k # j => new[k] = f[k]
  BY <1>2, <1>3, <1>6, <1>7
<1> HIDE DEF new
<1>9. \A k \in Cols : new[k] > 0 => k \in K
  BY <1>3, <1>6, <1>8
<1>10. ASSUME NEW R \in SUBSET K, Weight(R, w) <= b PROVE Weight(R, new) <= m
  <2>1. R \in SUBSET Cols /\ \A k \in R : w[k] \in Nat /\ f[k] \in Nat /\ new[k] \in Nat
    BY <1>2, <1>3, <1>8
  <2>2. Weight(R, f) <= m
    BY <1>3, <1>10
  <2>3. CASE j \notin R
    <3>1. \A k \in Cols : In(R, new, k) = In(R, f, k)
      BY <1>8, <2>3 DEF In
    <3>2. Weight(R, new) = Weight(R, f)
      BY <2>1, <3>1, SameWeight
    <3> QED
      BY <2>2, <3>2
  <2>4. CASE j \in R
    <3> DEFINE T == R \ {j}
               U == T \cap S
    <3>1. /\ Weight(R, w) = w[j] + Weight(T, w) /\ Weight(R, f) = f[j] + Weight(T, f)
          /\ Weight(R, new) = u + Weight(T, new)
          /\ Weight(T, w) \in Int /\ Weight(T, f) \in Int /\ Weight(T, new) \in Int
          /\ f[j] \in Nat /\ w[j] \in Nat
      <4>1. (\A k \in R : w[k] \in Int) /\ (\A k \in R : f[k] \in Int) /\ (\A k \in R : new[k] \in Int)
        BY <2>1
      <4>2. Weight(R, w) = w[j] + Weight(T, w) /\ Weight(T, w) \in Int
        BY <2>1, <2>4, <4>1, WeightWithout
      <4>3. Weight(R, f) = f[j] + Weight(T, f) /\ Weight(T, f) \in Int
        BY <2>1, <2>4, <4>1, WeightWithout
      <4>4. Weight(R, new) = new[j] + Weight(T, new) /\ Weight(T, new) \in Int
        BY <2>1, <2>4, <4>1, WeightWithout
      <4> QED
        BY <1>8, <2>1, <2>4, <4>2, <4>3, <4>4
    <3>2. /\ T \in SUBSET Cols /\ U \in SUBSET T /\ U \in SUBSET S /\ U \in SUBSET Cols
          /\ \A k \in T : w[k] \in Nat /\ f[k] \in Int /\ new[k] \in Int
          /\ \A k \in U : f[k] \in Int
      BY <2>1
    <3>3. \A k \in Cols : In(T, new, k) = In(T, f, k) /\ In(U, f, k) = In(T, f, k)
      BY <1>4, <1>8 DEF In
    <3> HIDE DEF T, U
    <3>4. Weight(T, new) = Weight(T, f) /\ Weight(U, f) = Weight(T, f)
      BY <3>2, <3>3, SameWeight
    <3>5. 0 <= Weight(U, w) /\ Weight(U, w) <= Weight(T, w) /\ Weight(U, w) \in Int
      BY <3>2, PartWeighs
    <3>6. w[j] <= b /\ Weight(U, w) <= b - w[j]
      BY <1>2, <1>10, <3>1, <3>5
    <3>7. M \in Int /\ Weight(U, f) <= M
      BY <1>5, <3>2, <3>6
    <3> QED
      BY <1>6, <1>7, <2>2, <3>1, <3>4, <3>6, <3>7
  <2> QED
    BY <2>3, <2>4
<1> QED
  BY <1>1, <1>8, <1>9, <1>10 DEF Packs, m, K, w, b

\* Lifting columns one after another.
LEMMA LiftedPacks ==
  ASSUME NEW q, Shaped(q), NEW i \in q.rows, IsKnapsack(q, i), NEW C, Cardinality(C) \in Nat,
         NEW f \in Packs(q, i, Cardinality(C) - 1), NEW n \in Nat, NEW order \in [1..n -> RowCols(q, i)]
  PROVE  FoldLeft(LAMBDA h, j : Lift(h, C, j, q.a[i], q.b[i]), f, order) \in Packs(q, i, Cardinality(C) - 1)
<1> DEFINE V == Packs(q, i, Cardinality(C) - 1)
           Step(h, j) == Lift(h, C, j, q.a[i], q.b[i])
           Fold(it) == it = [s \in SUBSET (1..n) |->
                              IF s = {} THEN f ELSE Step(it[s \ {Max(s)}], order[Max(s)])]
           iter == CHOOSE it : Fold(it)
           g == [p \in V \X (1..n) |-> Step(p[1], order[p[2]])]
<1>1. FoldLeft(LAMBDA h, j : Lift(h, C, j, q.a[i], q.b[i]), f, order) = iter[1..n]
  BY DEF FoldLeft, MapThenFoldSet
<1>2. ASSUME NEW s \in V, NEW k \in 1..n PROVE Step(s, order[k]) \in V
  BY LiftPacks
<1>3. f \in V
  OBVIOUS
<1>4. g \in [V \X (1..n) -> V]
  <2> HIDE DEF V, Step
  <2> QED
    BY <1>2
<1>5. Fold(iter)
  <2>1. PICK it \in [SUBSET (1..n) -> V] : LeftFolds(it, n, f, g)
    <3> HIDE DEF V, g
    <3> QED
      BY <1>3, <1>4, LeftFold
  <2>2. ASSUME NEW s \in SUBSET (1..n), s # {}
        PROVE  g[<<it[s \ {Max(s)}], Max(s)>>] = Step(it[s \ {Max(s)}], order[Max(s)])
    <3>1. Max(s) \in 1..n
      BY <2>2, IntervalIs
    <3>2. it[s \ {Max(s)}] \in V
      <4> HIDE DEF V, g
      <4> QED
        BY <2>1
    <3> HIDE DEF V, Step
    <3> QED
      BY <3>1, <3>2
  <2> HIDE DEF V, g, Step
  <2>3. Fold(it)
    BY <2>1, <2>2 DEF LeftFolds
  <2> HIDE DEF Fold
  <2> QED
    BY <2>3
<1>6. iter[1..n] \in V
  <2>1. ASSUME NEW k \in 1..n PROVE iter[1..k] = Step(iter[1..(k - 1)], order[k])
    <3>1. 1..k \in SUBSET (1..n) /\ 1..k # {} /\ Max(1..k) = k /\ (1..k) \ {k} = 1..(k - 1)
      BY IntervalIs
    <3> HIDE DEF iter, Step
    <3> QED
      BY <1>5, <3>1
  <2>2. iter[{}] = f
    <3> HIDE DEF iter, Step
    <3> QED
      BY <1>5
  <2> HIDE DEF iter, Step, V
  <2>3. \A k \in 1..n : iter[1..(k - 1)] \in V => iter[1..k] \in V
    BY <1>2, <2>1
  <2> QED
    BY <1>3, <2>2, <2>3, FoldStays
<1> QED
  BY <1>1, <1>6

\* No cut, or one.
LEMMA OverCoverIs ==
  ASSUME NEW W, NEW S, NEW C, NEW w, NEW b, NEW cut, Weight(S, w) > b /\ Cardinality(C) >= 2 => cut \in W
  PROVE  OverCover(S, C, w, b, cut) \in SUBSET W /\ IsFiniteSet(OverCover(S, C, w, b, cut))
<1>1. OverCover(S, C, w, b, cut) = {} \/ (cut \in W /\ OverCover(S, C, w, b, cut) = {cut})
  BY DEF OverCover
<1> QED
  BY <1>1, FS_EmptySet, FS_Singleton

\* A row's columns taken from the other end.
LEMMA ReverseIs ==
  ASSUME NEW S, NEW n \in Nat, NEW order \in [1..n -> S]
  PROVE  Reverse(order) \in [1..n -> S]
<1>1. Len(order) = n
  OBVIOUS
<1>2. \A k \in 1..n : (n - k) + 1 \in 1..n
  OBVIOUS
<1> QED
  BY <1>1, <1>2 DEF Reverse

\* The cover cut of a row.
LEMMA CoverCutIs ==
  ASSUME NEW q, Shaped(q), NEW i \in q.rows, IsKnapsack(q, i)
  PROVE  CoverCut(q, i) \in SUBSET ValidCuts(q) /\ IsFiniteSet(CoverCut(q, i))
<1> DEFINE w == q.a[i]
           b == q.b[i]
           S == RowCols(q, i)
           n == Cardinality(S)
           order == Falling(S, w)
           G == GreedyCover(order, w, b)
           C == Minimised(G, Reverse(order), w, b)
           cut == AtMost(Indicator(C, [j \in Cols |-> 1]), Cardinality(C) - 1)
<1>1. S \in SUBSET Cols /\ w \in [Cols -> Int] /\ \A j \in S : w[j] \in Int
  BY KnapsackIs
<1>2. CoverCut(q, i) = OverCover(G, C, w, b, cut)
  BY DEF CoverCut
<1> HIDE DEF S, w, b
<1>3. n \in Nat /\ order \in [1..n -> S]
  BY <1>1, FallingIs
<1> HIDE DEF order, n
<1>4. Reverse(order) \in [1..n -> S]
  BY <1>3, ReverseIs
<1>5. G \in SUBSET S
  BY <1>3, GreedyIs
<1> HIDE DEF G
<1>6. Weight(G, w) > b => C \in SUBSET S /\ Weight(C, w) > b
  BY <1>3, <1>4, <1>5, MinimisedIs
<1> HIDE DEF C
<1>7. ASSUME Weight(G, w) > b PROVE cut \in ValidCuts(q)
  <2> DEFINE f == Indicator(C, [j \in Cols |-> 1])
             m == Cardinality(C) - 1
  <2>1. Cardinality(C) \in Nat /\ f \in Packs(q, i, m)
    BY <1>6, <1>7, CoverPacks DEF S, w, b
  <2> HIDE DEF f
  <2>2. m \in Int
    BY <2>1
  <2> HIDE DEF m
  <2>3. AtMost(f, m) \in ValidCuts(q)
    BY <2>1, <2>2, PackingIsValid
  <2> QED
    BY <2>3 DEF f, m
<1> HIDE DEF cut
<1> QED
  BY <1>2, <1>7, OverCoverIs

\* And the lifted one.
LEMMA LiftedCoverCutIs ==
  ASSUME NEW q, Shaped(q), NEW i \in q.rows, IsKnapsack(q, i), NEW v, v.num \in [Cols -> Int]
  PROVE  LiftedCoverCut(q, v, i) \in SUBSET ValidCuts(q) /\ IsFiniteSet(LiftedCoverCut(q, v, i))
<1> DEFINE w == q.a[i]
           b == q.b[i]
           S == RowCols(q, i)
           n == Cardinality(S)
           down == Falling(S, v.num)
           up == Rising(S, w)
           G == GreedyCover(down, w, b)
           C == Minimised(G, up, w, b)
           others == Falling(S \ C, w)
           k == Cardinality(S \ C)
           base == Indicator(C, [j \in Cols |-> 1])
           f == FoldLeft(LAMBDA h, j : Lift(h, C, j, w, b), base, others)
           m == Cardinality(C) - 1
           cut == AtMost(f, m)
<1>1. S \in SUBSET Cols /\ w \in [Cols -> Int] /\ \A j \in S : w[j] \in Int /\ v.num[j] \in Int
  BY KnapsackIs
<1>2. LiftedCoverCut(q, v, i) = OverCover(G, C, w, b, cut)
  BY DEF LiftedCoverCut
<1> HIDE DEF S, w, b
<1>3. n \in Nat /\ down \in [1..n -> S]
  BY <1>1, FallingIs
<1>4. up \in [1..n -> S]
  BY <1>1, RisingIs DEF Rising
<1> HIDE DEF down, up, n
<1>5. G \in SUBSET S
  BY <1>3, GreedyIs
<1> HIDE DEF G
<1>6. Weight(G, w) > b => C \in SUBSET S /\ Weight(C, w) > b
  BY <1>3, <1>4, <1>5, MinimisedIs
<1> HIDE DEF C
<1>7. ASSUME Weight(G, w) > b PROVE cut \in ValidCuts(q)
  <2>1. S \ C \in SUBSET Cols /\ \A j \in S \ C : w[j] \in Int
    BY <1>1
  <2>2. k \in Nat /\ others \in [1..k -> S \ C]
    BY <2>1, FallingIs
  <2>3. others \in [1..k -> S]
    <3> HIDE DEF others, k
    <3> QED
      BY <2>2
  <2>4. Cardinality(C) \in Nat /\ base \in Packs(q, i, m)
    BY <1>6, <1>7, CoverPacks DEF S, w, b
  <2> HIDE DEF base, others, k
  <2>5. f \in Packs(q, i, m)
    BY <2>2, <2>3, <2>4, LiftedPacks DEF S, w, b
  <2> HIDE DEF f
  <2>6. m \in Int
    BY <2>4
  <2> HIDE DEF m
  <2> QED
    BY <2>5, <2>6, PackingIsValid
<1> HIDE DEF cut
<1> QED
  BY <1>2, <1>7, OverCoverIs

\* Finite sets, put together.
LEMMA UnionIs ==
  ASSUME NEW X, IsFiniteSet(X), NEW W, \A x \in X : x \in SUBSET W /\ IsFiniteSet(x)
  PROVE  UNION X \in SUBSET W /\ IsFiniteSet(UNION X)
<1>1. IsFiniteSet(UNION X)
  BY FS_UNION
<1> QED
  BY <1>1

\* A program has finitely many rows.
LEMMA RowsAreFinite == ASSUME NEW q, Shaped(q), NEW T \in SUBSET q.rows PROVE IsFiniteSet(T)
<1>1. q.rows = 1..Len(q.a) /\ Len(q.a) \in Nat
  BY DEF Shaped
<1>2. IsFiniteSet(1..Len(q.a))
  BY <1>1, IntervalIs
<1> QED
  BY <1>1, <1>2, FS_Subset

\* The cuts of the knapsacks.
LEMMA KnapsackCutsAre ==
  ASSUME NEW q, Shaped(q), NEW v, v.num \in [Cols -> Int]
  PROVE  KnapsackCuts(q, v) \in SUBSET ValidCuts(q) /\ IsFiniteSet(KnapsackCuts(q, v))
<1> DEFINE T == {i \in q.rows : IsKnapsack(q, i)}
           F == [i \in T |-> CoverCut(q, i) \cup LiftedCoverCut(q, v, i)]
           W == ValidCuts(q)
<1>1. IsFiniteSet(T)
  BY RowsAreFinite
<1>2. ASSUME NEW i \in T PROVE F[i] \in SUBSET W /\ IsFiniteSet(F[i])
  <2>1. F[i] = CoverCut(q, i) \cup LiftedCoverCut(q, v, i)
    OBVIOUS
  <2>2. CoverCut(q, i) \in SUBSET W /\ IsFiniteSet(CoverCut(q, i))
    BY CoverCutIs
  <2>3. LiftedCoverCut(q, v, i) \in SUBSET W /\ IsFiniteSet(LiftedCoverCut(q, v, i))
    BY LiftedCoverCutIs
  <2> HIDE DEF F, W
  <2> QED
    BY <2>1, <2>2, <2>3, FS_Union
<1> DEFINE X == {F[i] : i \in T}
<1>3. KnapsackCuts(q, v) = UNION X
  BY DEF KnapsackCuts
<1> HIDE DEF T, F, W
<1>4. IsFiniteSet(X) /\ \A x \in X : x \in SUBSET W /\ IsFiniteSet(x)
  BY <1>1, <1>2, ImageIsFinite
<1> HIDE DEF X
<1>5. UNION X \in SUBSET W /\ IsFiniteSet(UNION X)
  BY <1>4, UnionIs
<1> QED
  BY <1>3, <1>5 DEF W

-----------------------------------------------------------------------------
(* Cliques and implied bounds *)

\* Two binaries in conflict.
LEMMA ConflictIs ==
  ASSUME NEW q, Shaped(q), NEW j, NEW k, Conflict(q, j, k)
  PROVE  /\ j \in Cols /\ k \in Cols /\ j # k
         /\ \A x \in Points(q) : /\ x[j] = 0 \/ x[j] = 1
                                 /\ x[k] = 0 \/ x[k] = 1
                                 /\ x[j] + x[k] <= 1
<1>1. j # k
  BY DEF Conflict
<1>2. PICK i \in q.rows : /\ IsKnapsack(q, i) /\ {j, k} \subseteq RowCols(q, i)
                          /\ q.a[i][j] + q.a[i][k] > q.b[i]
  BY DEF Conflict
<1> DEFINE S == RowCols(q, i)
           w == q.a[i]
<1>3. /\ S \in SUBSET Cols /\ w \in [Cols -> Int] /\ q.b[i] \in Int /\ \A l \in S : w[l] > 0
      /\ \A l \in Cols : l \notin S => w[l] = 0
      /\ \A x \in Points(q) : Dot(w, x) <= q.b[i] /\ \A l \in S : x[l] = 0 \/ x[l] = 1
  BY <1>2, KnapsackIs
<1>4. {j, k} \subseteq S /\ w[j] + w[k] > q.b[i]
  BY <1>2
<1> HIDE DEF S, w
<1>5. j \in Cols /\ k \in Cols
  BY <1>3, <1>4
<1>6. ASSUME NEW x \in Points(q), x[j] = 1, x[k] = 1 PROVE FALSE
  <2>1. x \in [Cols -> Int]
    BY PointsAreInteger
  <2> DEFINE R == {l \in S : x[l] = 1}
  <2>2. Weight(R, w) = Dot(w, x)
    BY <1>3, <2>1, SelectionIs
  <2>3. /\ j \in R /\ R \in SUBSET Cols /\ \A l \in R : w[l] \in Nat
    BY <1>3, <1>4, <1>6
  <2>4. k \in R \ {j}
    BY <1>1, <1>4, <1>6
  <2> HIDE DEF R
  <2>5. \A l \in R : w[l] \in Int
    BY <2>3
  <2>6. Weight(R, w) = w[j] + Weight(R \ {j}, w)
    BY <2>3, <2>5, WeightWithout
  <2> DEFINE T == R \ {j}
  <2>7. T \in SUBSET Cols /\ \A l \in T : w[l] \in Int
    BY <2>3, <2>5
  <2>8. k \in T /\ T \ {k} \in SUBSET T /\ \A l \in T : w[l] \in Nat
    BY <2>3, <2>4
  <2>9. Weight(R, w) = w[j] + Weight(T, w)
    BY <2>6
  <2> HIDE DEF T
  <2>10. Weight(T, w) = w[k] + Weight(T \ {k}, w)
    BY <2>7, <2>8, WeightWithout
  <2>11. 0 <= Weight(T \ {k}, w) /\ Weight(T \ {k}, w) \in Int
    BY <2>7, <2>8, PartWeighs
  <2>12. w[j] \in Int /\ w[k] \in Int /\ Dot(w, x) <= q.b[i]
    BY <1>3, <1>5
  <2> QED
    BY <1>3, <1>4, <2>2, <2>9, <2>10, <2>11, <2>12
<1>7. \A x \in Points(q) : (x[j] = 0 \/ x[j] = 1) /\ (x[k] = 0 \/ x[k] = 1)
  BY <1>3, <1>4
<1>8. \A x \in Points(q) : x[j] + x[k] <= 1
  BY <1>6, <1>7
<1> QED
  BY <1>1, <1>5, <1>7, <1>8

\* Binaries of which no point has two.
Cliques(q) ==
  {Q \in SUBSET Cols : \A x \in Points(q) :
     /\ \A j \in Q : x[j] = 0 \/ x[j] = 1
     /\ \A j \in Q, k \in Q : j # k => x[j] + x[k] <= 1}

\* A clique grows.
LEMMA GrownIs ==
  ASSUME NEW q, Shaped(q), NEW seed \in Cols, InUnitBox(q, seed), NEW n \in Nat, NEW order \in [1..n -> Cols]
  PROVE  FoldLeft(LAMBDA Q, k : IF \A j \in Q : Conflict(q, j, k) THEN Q \cup {k} ELSE Q, {seed}, order)
           \in Cliques(q)
<1> DEFINE V == {Q \in Cliques(q) : Q # {}}
           Step(Q, k) == IF \A j \in Q : Conflict(q, j, k) THEN Q \cup {k} ELSE Q
           Fold(it) == it = [s \in SUBSET (1..n) |->
                              IF s = {} THEN {seed} ELSE Step(it[s \ {Max(s)}], order[Max(s)])]
           iter == CHOOSE it : Fold(it)
           g == [p \in V \X (1..n) |-> Step(p[1], order[p[2]])]
<1>1. FoldLeft(LAMBDA Q, k : IF \A j \in Q : Conflict(q, j, k) THEN Q \cup {k} ELSE Q, {seed}, order) = iter[1..n]
  BY DEF FoldLeft, MapThenFoldSet
<1>2. ASSUME NEW s \in V, NEW k \in 1..n PROVE Step(s, order[k]) \in V
  <2> DEFINE k0 == order[k]
  <2>0. s \in Cliques(q) /\ s # {}
    OBVIOUS
  <2>1. CASE ~\A j \in s : Conflict(q, j, k0)
    <3>1. Step(s, k0) = s
      BY <2>1
    <3> QED
      BY <3>1
  <2>2. CASE \A j \in s : Conflict(q, j, k0)
    <3>1. Step(s, k0) = s \cup {k0}
      BY <2>2
    <3>2. \A j \in s : \A x \in Points(q) :
            j # k0 /\ (x[k0] = 0 \/ x[k0] = 1) /\ x[j] + x[k0] <= 1 /\ x[k0] + x[j] <= 1
      <4> SUFFICES ASSUME NEW j \in s, NEW x \in Points(q)
                   PROVE  j # k0 /\ (x[k0] = 0 \/ x[k0] = 1) /\ x[j] + x[k0] <= 1 /\ x[k0] + x[j] <= 1
        OBVIOUS
      <4>1. /\ j # k0 /\ (x[j] = 0 \/ x[j] = 1) /\ (x[k0] = 0 \/ x[k0] = 1) /\ x[j] + x[k0] <= 1
        BY <2>2, ConflictIs
      <4> QED
        BY <4>1
    <3>3. s \in SUBSET Cols /\ \A x \in Points(q) :
             /\ \A j \in s : x[j] = 0 \/ x[j] = 1
             /\ \A j \in s, l \in s : j # l => x[j] + x[l] <= 1
      BY <2>0 DEF Cliques
    <3>4. k0 \in Cols
      OBVIOUS
    <3>5. s # {}
      BY <2>0
    <3> HIDE DEF k0, Step
    <3>6. s \cup {k0} \in Cliques(q)
      BY <3>2, <3>3, <3>4, <3>5 DEF Cliques
    <3> QED
      BY <3>1, <3>6 DEF k0
  <2> QED
    BY <2>1, <2>2
<1>3. {seed} \in V
  <2>1. q.lo[seed] >= 0 /\ q.hi[seed] <= 1
    BY DEF InUnitBox
  <2>2. q.lo \in [Cols -> Int] /\ q.hi \in [Cols -> Int]
    BY ShapeIs
  <2>3. \A x \in Points(q) : x[seed] = 0 \/ x[seed] = 1
    <3> SUFFICES ASSUME NEW x \in Points(q) PROVE x[seed] = 0 \/ x[seed] = 1
      OBVIOUS
    <3>1. x \in [Cols -> Int] /\ q.lo[seed] <= x[seed] /\ x[seed] <= q.hi[seed]
      BY PointsAreInteger, PointIs
    <3> QED
      BY <2>1, <2>2, <3>1
  <2> QED
    BY <2>3 DEF Cliques
<1>4. g \in [V \X (1..n) -> V]
  <2> HIDE DEF V, Step
  <2> QED
    BY <1>2
<1>5. Fold(iter)
  <2>1. PICK it \in [SUBSET (1..n) -> V] : LeftFolds(it, n, {seed}, g)
    <3> HIDE DEF V, g
    <3> QED
      BY <1>3, <1>4, LeftFold
  <2>2. ASSUME NEW s \in SUBSET (1..n), s # {}
        PROVE  g[<<it[s \ {Max(s)}], Max(s)>>] = Step(it[s \ {Max(s)}], order[Max(s)])
    <3>1. Max(s) \in 1..n
      BY <2>2, IntervalIs
    <3>2. it[s \ {Max(s)}] \in V
      <4> HIDE DEF V, g
      <4> QED
        BY <2>1
    <3> HIDE DEF V, Step
    <3> QED
      BY <3>1, <3>2
  <2> HIDE DEF V, g, Step
  <2>3. Fold(it)
    BY <2>1, <2>2 DEF LeftFolds
  <2> HIDE DEF Fold
  <2> QED
    BY <2>3
<1>6. iter[1..n] \in V
  <2>1. ASSUME NEW k \in 1..n PROVE iter[1..k] = Step(iter[1..(k - 1)], order[k])
    <3>1. 1..k \in SUBSET (1..n) /\ 1..k # {} /\ Max(1..k) = k /\ (1..k) \ {k} = 1..(k - 1)
      BY IntervalIs
    <3> HIDE DEF iter, Step
    <3> QED
      BY <1>5, <3>1
  <2>2. iter[{}] = {seed}
    <3> HIDE DEF iter, Step
    <3> QED
      BY <1>5
  <2> HIDE DEF iter, Step, V
  <2>3. \A k \in 1..n : iter[1..(k - 1)] \in V => iter[1..k] \in V
    BY <1>2, <2>1
  <2> QED
    BY <1>3, <2>2, <2>3, FoldStays
<1> QED
  BY <1>1, <1>6

\* No point has two columns of a clique.
LEMMA CliqueIsValid ==
  ASSUME NEW q, Shaped(q), NEW Q \in Cliques(q)
  PROVE  AtMost(Indicator(Q, [j \in Cols |-> 1]), 1) \in ValidCuts(q)
<1> DEFINE f == Indicator(Q, [j \in Cols |-> 1])
<1>1. f \in [Cols -> Int] /\ \A j \in Cols : f[j] = IF j \in Q THEN 1 ELSE 0
  BY DEF Indicator
<1> HIDE DEF f
<1>2. ASSUME NEW x \in Points(q) PROVE Dot(f, x) <= 1
  <2>1. x \in [Cols -> Int]
    BY PointsAreInteger
  <2>2. (\A j \in Q : x[j] = 0 \/ x[j] = 1) /\ (\A j \in Q, k \in Q : j # k => x[j] + x[k] <= 1)
    BY DEF Cliques
  <2>3. PICK y \in [Cols -> {0, 1}] : \A j \in Cols : y[j] = f[j] * x[j]
    <3> DEFINE y == [j \in Cols |-> IF j \in Q THEN x[j] ELSE 0]
    <3>1. y \in [Cols -> {0, 1}]
      BY <2>2
    <3>2. \A j \in Cols : y[j] = f[j] * x[j]
      <4> SUFFICES ASSUME NEW j \in Cols PROVE y[j] = f[j] * x[j]
        OBVIOUS
      <4>1. x[j] \in Int
        BY <2>1
      <4>2. CASE j \in Q
        BY <1>1, <4>1, <4>2
      <4>3. CASE j \notin Q
        BY <1>1, <4>1, <4>3
      <4> QED
        BY <4>2, <4>3
    <3> QED
      BY <3>1, <3>2
  <2>4. \A j \in Cols : y[j] = IF j \in Q THEN x[j] ELSE 0
    <3> SUFFICES ASSUME NEW j \in Cols PROVE y[j] = IF j \in Q THEN x[j] ELSE 0
      OBVIOUS
    <3>1. x[j] \in Int
      BY <2>1
    <3>2. y[j] = f[j] * x[j]
      BY <2>3
    <3>3. CASE j \in Q
      BY <1>1, <3>1, <3>2, <3>3
    <3>4. CASE j \notin Q
      BY <1>1, <3>1, <3>2, <3>4
    <3> QED
      BY <3>3, <3>4
  <2>5. \A j \in Cols, k \in Cols : j # k => y[j] + y[k] <= 1
    BY <2>2, <2>4
  <2>6. y[1] + y[2] <= 1 /\ y[1] + y[3] <= 1 /\ y[2] + y[3] <= 1
    BY <2>5, ColsAre
  <2>7. y[1] \in {0, 1} /\ y[2] \in {0, 1} /\ y[3] \in {0, 1}
    BY ColsAre
  <2>8. Dot(f, x) = y[1] + y[2] + y[3]
    BY <2>3, ColsAre DEF Dot
  <2> QED
    BY <2>6, <2>7, <2>8
<1>3. 1 \in Int
  OBVIOUS
<1>4. AtMost(f, 1) \in ValidCuts(q)
  BY <1>1, <1>2, <1>3, AtMostIs
<1> QED
  BY <1>4 DEF f

\* The clique cuts.
LEMMA CliqueCutsAre ==
  ASSUME NEW q, Shaped(q), NEW v, v.num \in [Cols -> Int]
  PROVE  CliqueCuts(q, v) \in SUBSET ValidCuts(q) /\ IsFiniteSet(CliqueCuts(q, v))
<1> DEFINE Grown(seed) ==
             FoldLeft(LAMBDA Q, k : IF \A j \in Q : Conflict(q, j, k) THEN Q \cup {k} ELSE Q,
                      {seed}, Falling({k \in Cols : Conflict(q, seed, k)}, v.num))
           seeds == {j \in Cols : InUnitBox(q, j) /\ v.num[j] > 0}
           g == [Q \in SUBSET Cols |-> AtMost(Indicator(Q, [j \in Cols |-> 1]), 1)]
           All == {g[Q] : Q \in SUBSET Cols}
<1>1. CliqueCuts(q, v) = {AtMost(Indicator(Q, [j \in Cols |-> 1]), 1) :
                            Q \in {Q \in {Grown(j) : j \in seeds} : Cardinality(Q) >= 3}}
  BY DEF CliqueCuts
<1>2. ASSUME NEW seed \in seeds PROVE Grown(seed) \in Cliques(q)
  <2> DEFINE S == {k \in Cols : Conflict(q, seed, k)}
             n == Cardinality(S)
             order == Falling(S, v.num)
  <2>1. S \in SUBSET Cols /\ \A j \in S : v.num[j] \in Int
    OBVIOUS
  <2> HIDE DEF S
  <2>2. n \in Nat /\ order \in [1..n -> S]
    BY <2>1, FallingIs
  <2> HIDE DEF n, order
  <2>3. order \in [1..n -> Cols]
    BY <2>1, <2>2
  <2>4. seed \in Cols /\ InUnitBox(q, seed)
    OBVIOUS
  <2>5. FoldLeft(LAMBDA Q, k : IF \A j \in Q : Conflict(q, j, k) THEN Q \cup {k} ELSE Q, {seed}, order)
           \in Cliques(q)
    BY <2>2, <2>3, <2>4, GrownIs
  <2> QED
    BY <2>5 DEF order, S
<1> HIDE DEF Grown
<1>3. \A cut \in CliqueCuts(q, v) :
        \E Q \in Cliques(q) : cut = AtMost(Indicator(Q, [j \in Cols |-> 1]), 1)
  BY <1>1, <1>2
<1>4. CliqueCuts(q, v) \in SUBSET ValidCuts(q)
  BY <1>3, CliqueIsValid
<1>5. Cliques(q) \subseteq SUBSET Cols
  BY DEF Cliques
<1>6. CliqueCuts(q, v) \in SUBSET All
  <2> SUFFICES ASSUME NEW cut \in CliqueCuts(q, v) PROVE cut \in All
    OBVIOUS
  <2>1. PICK Q \in Cliques(q) : cut = AtMost(Indicator(Q, [j \in Cols |-> 1]), 1)
    BY <1>3
  <2>2. Q \in SUBSET Cols
    BY <1>5
  <2>3. cut = g[Q]
    BY <2>1, <2>2
  <2> HIDE DEF g
  <2> QED
    BY <2>2, <2>3
<1>7. IsFiniteSet(All)
  <2>1. IsFiniteSet(SUBSET Cols)
    BY ColsAre, FS_SUBSET
  <2> HIDE DEF g
  <2> QED
    BY <2>1, ImageIsFinite
<1> HIDE DEF All
<1> QED
  BY <1>4, <1>6, <1>7, FS_Subset

\* The bounds that rows imply, as cuts.
LEMMA ImpliedBoundCutsAre ==
  ASSUME NEW q, Shaped(q)
  PROVE  ImpliedBoundCuts(q) \in SUBSET ValidCuts(q) /\ IsFiniteSet(ImpliedBoundCuts(q))
<1> DEFINE said == {p \in q.rows \X q.ints : q.a[p[1]][p[2]] > 0}
           caps == {p \in said : q.kind[p[1]] = "Le" /\ ImpliedInteger(q, p[1], p[2]).hi < q.hi[p[2]]}
           floors == {p \in said : q.kind[p[1]] = "Ge" /\ ImpliedInteger(q, p[1], p[2]).lo > q.lo[p[2]]}
           f == [p \in said |-> AtMost(Unit(p[2]), ImpliedInteger(q, p[1], p[2]).hi)]
           g == [p \in said |-> [p |-> Unit(p[2]), r |-> ImpliedInteger(q, p[1], p[2]).lo]]
           A == {f[p] : p \in said}
           B == {g[p] : p \in said}
<1>1. ImpliedBoundCuts(q) = {AtMost(Unit(p[2]), ImpliedInteger(q, p[1], p[2]).hi) : p \in caps}
        \cup {[p |-> Unit(p[2]), r |-> ImpliedInteger(q, p[1], p[2]).lo] : p \in floors}
  BY DEF ImpliedBoundCuts
<1>2. IsFiniteSet(said)
  <2>1. IsFiniteSet(q.rows) /\ IsFiniteSet(q.ints)
    BY RowsAreFinite, ShapeIs, ColsAre, FS_Subset
  <2>2. IsFiniteSet(q.rows \X q.ints) /\ said \in SUBSET (q.rows \X q.ints)
    BY <2>1, FS_Product
  <2> HIDE DEF said
  <2> QED
    BY <2>2, FS_Subset
<1>3. ASSUME NEW p \in said
      PROVE  /\ AtMost(Unit(p[2]), ImpliedInteger(q, p[1], p[2]).hi) \in ValidCuts(q)
             /\ [p |-> Unit(p[2]), r |-> ImpliedInteger(q, p[1], p[2]).lo] \in ValidCuts(q)
  <2>1. PICK i \in q.rows, j \in q.ints : p[1] = i /\ p[2] = j /\ q.a[i][j] > 0
    OBVIOUS
  <2>2. j \in Cols /\ q.cols = Cols
    BY ShapeIs
  <2>3. j \in RowCols(q, i)
    <3>1. q.a[i] \in [Cols -> Int]
      BY ShapeIs
    <3> QED
      BY <2>1, <2>2, <3>1 DEF RowCols
  <2> DEFINE lo == ImpliedInteger(q, i, j).lo
             hi == ImpliedInteger(q, i, j).hi
  <2>4. lo \in Int /\ hi \in Int /\ \A x \in Points(q) : lo <= x[j] /\ x[j] <= hi
    BY <2>3, ImpliedIs
  <2> HIDE DEF lo, hi
  <2>5. Unit(j) \in [Cols -> Int] /\ \A x \in Points(q) : Dot(Unit(j), x) = x[j]
    BY <2>2, UnitIs, PointsAreInteger
  <2>6. \A x \in Points(q) : Dot(Unit(j), x) <= hi
    BY <2>4, <2>5
  <2>7. AtMost(Unit(j), hi) \in ValidCuts(q)
    BY <2>4, <2>5, <2>6, AtMostIs
  <2>8. [p |-> Unit(j), r |-> lo] \in ValidCuts(q)
    BY <2>4, <2>5 DEF ValidCuts
  <2> QED
    BY <2>1, <2>7, <2>8 DEF lo, hi
<1>4. caps \in SUBSET said /\ floors \in SUBSET said
  OBVIOUS
<1>5. ImpliedBoundCuts(q) \in SUBSET ValidCuts(q)
  <2> HIDE DEF said, caps, floors
  <2> QED
    BY <1>1, <1>3, <1>4
<1>6. ImpliedBoundCuts(q) \in SUBSET (A \cup B)
  <2> HIDE DEF said, caps, floors
  <2> QED
    BY <1>1, <1>4
<1>7. IsFiniteSet(A) /\ IsFiniteSet(B)
  <2> HIDE DEF said, f, g
  <2> QED
    BY <1>2, ImageIsFinite
<1> HIDE DEF A, B
<1>8. IsFiniteSet(A \cup B)
  BY <1>7, FS_Union
<1> QED
  BY <1>5, <1>6, <1>8, FS_Subset

-----------------------------------------------------------------------------
(* Flow covers *)

\* Two columns make a row.
LEMMA TwoTerms ==
  ASSUME NEW w \in [Cols -> Int], NEW z \in [Cols -> Int], NEW x \in Cols, NEW y \in Cols, x # y,
         \A l \in Cols : l # x /\ l # y => w[l] = 0
  PROVE  Dot(w, z) = w[x] * z[x] + w[y] * z[y]
<1> DEFINE t == [l \in Cols |-> w[l] * z[l]]
<1>1. t \in [Cols -> Int] /\ \A l \in Cols : l # x /\ l # y => t[l] = 0
  <2> SUFFICES ASSUME NEW l \in Cols PROVE w[l] * z[l] \in Int /\ (l # x /\ l # y => w[l] * z[l] = 0)
    OBVIOUS
  <2>1. w[l] \in Int /\ z[l] \in Int
    OBVIOUS
  <2> QED
    BY <2>1
<1>2. Dot(w, z) = t[1] + t[2] + t[3]
  BY ColsAre DEF Dot
<1>3. t[x] = w[x] * z[x] /\ t[y] = w[y] * z[y]
  OBVIOUS
<1> HIDE DEF t
<1>4. t[1] + t[2] + t[3] = t[x] + t[y]
  BY <1>1, ColsAre
<1> QED
  BY <1>2, <1>3, <1>4

\* A flow column is at most its capacity, and zero when its binary is.
LEMMA UpperBoundIs ==
  ASSUME NEW q, Shaped(q), NEW x \in Cols, NEW u \in UpperBounds(q, x)
  PROVE  /\ u.y \in Cols /\ u.y # x /\ InUnitBox(q, u.y) /\ ~InUnitBox(q, x) /\ u.cap \in Int /\ u.cap > 0
         /\ \A z \in Points(q) : /\ z[u.y] = 0 \/ z[u.y] = 1
                                 /\ 0 <= z[x]
                                 /\ z[u.y] = 0 => z[x] = 0
<1>1. PICK i \in q.rows, y \in Cols : IsUpperBound(q, x, i, y) /\ u = [y |-> y, cap |-> -q.a[i][y]]
  BY DEF UpperBounds
<1>2. u.y = y /\ u.cap = -q.a[i][y]
  BY <1>1
<1> DEFINE w == q.a[i]
<1>3. /\ w \in [Cols -> Int] /\ q.kind[i] = "Le" /\ q.b[i] = 0 /\ RowCols(q, i) = {x, y} /\ x # y
      /\ w[x] > 0 /\ w[y] < 0 /\ InUnitBox(q, y) /\ ~InUnitBox(q, x) /\ q.lo[x] >= 0
      /\ q.cols = Cols /\ q.lo \in [Cols -> Int] /\ q.hi \in [Cols -> Int]
  BY <1>1, ShapeIs DEF IsUpperBound
<1>4. \A l \in Cols : l # x /\ l # y => w[l] = 0
  BY <1>3 DEF RowCols
<1>5. q.lo[y] >= 0 /\ q.hi[y] <= 1
  BY <1>3 DEF InUnitBox
<1> HIDE DEF w
<1>6. ASSUME NEW z \in Points(q) PROVE (z[y] = 0 \/ z[y] = 1) /\ 0 <= z[x] /\ (z[y] = 0 => z[x] = 0)
  <2>1. z \in [Cols -> Int]
    BY PointsAreInteger
  <2>2. /\ q.lo[x] <= z[x] /\ q.lo[y] <= z[y] /\ z[y] <= q.hi[y] /\ Compare("Le", Dot(w, z), 0)
    BY <1>3, PointIs DEF w
  <2>3. Dot(w, z) \in Int
    BY <1>3, <2>1, VectorIs
  <2>4. Dot(w, z) <= 0
    BY <2>2, <2>3, CompareIs
  <2>5. Dot(w, z) = w[x] * z[x] + w[y] * z[y]
    BY <1>3, <1>4, <2>1, TwoTerms
  <2>6. z[x] \in Int /\ z[y] \in Int /\ w[x] \in Int /\ w[y] \in Int /\ q.lo[x] \in Int /\ q.lo[y] \in Int
        /\ q.hi[y] \in Int
    BY <1>3, <2>1
  <2>7. (z[y] = 0 \/ z[y] = 1) /\ 0 <= z[x]
    BY <1>3, <1>5, <2>2, <2>6
  <2>8. ASSUME z[y] = 0 PROVE z[x] = 0
    <3>1. w[x] * z[x] <= 0
      BY <2>4, <2>5, <2>6, <2>8
    <3>2. z[x] >= 1 => w[x] * 1 <= w[x] * z[x]
      BY <1>3, <2>6, Times
    <3> QED
      BY <1>3, <2>6, <2>7, <3>1, <3>2
  <2> QED
    BY <2>7, <2>8
<1>7. -w[y] \in Int /\ -w[y] > 0
  BY <1>3
<1> QED
  BY <1>2, <1>3, <1>6, <1>7 DEF w

\* The least of the capacities.
LEMMA LeastCapacity ==
  ASSUME NEW q, Shaped(q), NEW x \in Cols, UpperBounds(q, x) # {}
  PROVE  \E u \in UpperBounds(q, x) : \A w \in UpperBounds(q, x) : u.cap <= w.cap
<1> DEFINE U == UpperBounds(q, x)
           f == [u \in U |-> u.cap]
           Y == {f[u] : u \in U}
           h == [p \in q.rows \X Cols |-> [y |-> p[2], cap |-> -q.a[p[1]][p[2]]]]
           All == {h[p] : p \in q.rows \X Cols}
<1>1. IsFiniteSet(U)
  <2>1. IsFiniteSet(q.rows) /\ IsFiniteSet(Cols)
    BY RowsAreFinite, ColsAre
  <2>2. IsFiniteSet(q.rows \X Cols)
    BY <2>1, FS_Product
  <2>3. IsFiniteSet(All)
    <3> HIDE DEF h
    <3> QED
      BY <2>2, ImageIsFinite
  <2>4. U \in SUBSET All
    BY DEF UpperBounds
  <2> HIDE DEF U, All
  <2> QED
    BY <2>3, <2>4, FS_Subset
<1>2. \A u \in U : f[u] \in Int /\ f[u] = u.cap
  BY UpperBoundIs
<1>3. U # {}
  OBVIOUS
<1> HIDE DEF U, f
<1>4. IsFiniteSet(Y)
  BY <1>1, ImageIsFinite
<1>5. Y \in SUBSET Int /\ Y # {} /\ \A u \in U : u.cap \in Y
  BY <1>2, <1>3
<1>6. PICK u \in U : \A y \in Y : f[u] <= y
  <2>1. Min(Y) \in Y /\ \A y \in Y : Min(Y) <= y
    <3> HIDE DEF Y
    <3> QED
      BY <1>4, <1>5, MinIs
  <2>2. PICK u \in U : f[u] = Min(Y)
    BY <2>1
  <2> QED
    BY <2>1, <2>2
<1>7. \A w \in U : u.cap <= w.cap
  <2> HIDE DEF Y
  <2> QED
    BY <1>2, <1>5, <1>6
<1> QED
  BY <1>7 DEF U

\* Capacities a cover exceeds by e: what is closed is within the bound.
LEMMA ClosingIs ==
  ASSUME NEW b \in Int, b > 0, NEW e \in Int, e > 0,
         NEW z1 \in Nat, NEW z2 \in Nat, NEW z3 \in Nat, z1 + z2 + z3 = b + e
  PROVE  GreaterOf(z1 - e, 0) + GreaterOf(z2 - e, 0) + GreaterOf(z3 - e, 0) <= b
  BY DEF GreaterOf

\* The coefficients of a flow cover cut.
Closes(p, w, C, y, L) ==
  /\ p \in [Cols -> Int] /\ w \in [Cols -> Int] /\ C \in SUBSET Cols /\ y \in Cols /\ y \notin C /\ L \in Int
  /\ \A k \in Cols : p[k] = (IF k = y THEN L ELSE 0) - (IF k \in C THEN w[k] ELSE 0)

\* And what they make of a point.
LEMMA PartOfRow ==
  ASSUME NEW w, NEW C, NEW p, NEW y, NEW L, Closes(p, w, C, y, L), NEW z \in [Cols -> Int]
  PROVE  \E t \in [Cols -> Int] :
           /\ \A k \in Cols : t[k] = IF k \in C THEN w[k] * z[k] ELSE 0
           /\ Dot(p, z) = L * z[y] - (t[1] + t[2] + t[3])
<1> DEFINE t == [k \in Cols |-> IF k \in C THEN w[k] * z[k] ELSE 0]
           s == [k \in Cols |-> IF k = y THEN L * z[y] ELSE 0]
<1>0. /\ p \in [Cols -> Int] /\ w \in [Cols -> Int] /\ C \in SUBSET Cols /\ y \in Cols /\ y \notin C /\ L \in Int
      /\ \A k \in Cols : p[k] = (IF k = y THEN L ELSE 0) - (IF k \in C THEN w[k] ELSE 0)
  BY DEF Closes
<1>1. t \in [Cols -> Int] /\ s \in [Cols -> Int]
  <2> SUFFICES ASSUME NEW k \in Cols PROVE w[k] * z[k] \in Int /\ L * z[y] \in Int
    OBVIOUS
  <2>1. w[k] \in Int /\ z[k] \in Int /\ z[y] \in Int
    BY <1>0
  <2> QED
    BY <1>0, <2>1
<1>2. \A k \in Cols : p[k] * z[k] = s[k] - t[k]
  <2> SUFFICES ASSUME NEW k \in Cols PROVE p[k] * z[k] = s[k] - t[k]
    OBVIOUS
  <2>1. w[k] \in Int /\ z[k] \in Int
    BY <1>0
  <2>2. CASE k = y
    <3>1. p[k] = L /\ s[k] = L * z[k] /\ t[k] = 0
      BY <1>0, <2>2
    <3>2. L * z[k] \in Int
      BY <1>0, <2>1
    <3> QED
      BY <3>1, <3>2
  <2>3. CASE k # y /\ k \in C
    <3>1. p[k] = -w[k] /\ s[k] = 0 /\ t[k] = w[k] * z[k]
      BY <1>0, <2>1, <2>3
    <3>2. (-w[k]) * z[k] = 0 - w[k] * z[k]
      BY <2>1
    <3> QED
      BY <3>1, <3>2
  <2>4. CASE k # y /\ k \notin C
    <3>1. p[k] = 0 /\ s[k] = 0 /\ t[k] = 0
      BY <1>0, <2>4
    <3> QED
      BY <2>1, <3>1
  <2> QED
    BY <2>2, <2>3, <2>4
<1>3. \A k \in Cols : t[k] = IF k \in C THEN w[k] * z[k] ELSE 0
  OBVIOUS
<1>4. s[1] + s[2] + s[3] = L * z[y]
  <2>1. \A k \in Cols : s[k] = IF k = y THEN L * z[y] ELSE 0
    OBVIOUS
  <2>2. L * z[y] \in Int
    BY <1>0
  <2> HIDE DEF s
  <2> QED
    BY <1>0, <1>1, <2>1, <2>2, ColsAre
<1> HIDE DEF s, t
<1>5. Dot(p, z) = (s[1] - t[1]) + (s[2] - t[2]) + (s[3] - t[3])
  BY <1>1, <1>2, ColsAre DEF Dot
<1>6. Dot(p, z) = L * z[y] - (t[1] + t[2] + t[3])
  BY <1>0, <1>1, <1>4, <1>5, ColsAre
<1> QED
  BY <1>1, <1>3, <1>6

\* Rows of flow columns.
IsFlowRow(q, i) ==
  /\ q.kind[i] = "Le" /\ q.b[i] > 0 /\ Cardinality(RowCols(q, i)) >= 2
  /\ \A x \in RowCols(q, i) : q.a[i][x] > 0 /\ UpperBounds(q, x) # {}

\* The flow columns of such a row share their binary.
LEMMA FlowRowIs ==
  ASSUME NEW q, Shaped(q), NEW i \in q.rows, IsFlowRow(q, i), NEW vub,
         \A x \in RowCols(q, i) : vub[x] \in UpperBounds(q, x)
  PROVE  \E y \in Cols : y \notin RowCols(q, i) /\ \A x \in RowCols(q, i) : vub[x].y = y
<1> DEFINE S == RowCols(q, i)
           one == [j \in Cols |-> 1]
<1>1. S \in SUBSET Cols
  BY ShapeIs DEF RowCols
<1>2. \A x \in S : vub[x].y \in Cols /\ InUnitBox(q, vub[x].y) /\ ~InUnitBox(q, x)
  BY <1>1, UpperBoundIs
<1>3. \A x \in S : vub[x].y \notin S
  BY <1>2
<1>4. Cardinality(S) = In(S, one, 1) + In(S, one, 2) + In(S, one, 3) /\ Cardinality(S) >= 2
  <2>1. \A j \in S : one[j] = 1
    BY <1>1
  <2>2. Cardinality(S) >= 2
    BY DEF IsFlowRow
  <2> HIDE DEF S, one
  <2> QED
    BY <1>1, <2>1, <2>2, CardinalityIs
<1>5. \A j \in Cols : In(S, one, j) = IF j \in S THEN 1 ELSE 0
  BY DEF In
<1> HIDE DEF S, one
<1>6. \A y \in Cols, z \in Cols : y \notin S /\ z \notin S => y = z
  BY <1>4, <1>5, ColsAre
<1>7. PICK x \in S : TRUE
  BY <1>4, <1>5, ColsAre
<1>8. \A z \in S : vub[z].y = vub[x].y
  BY <1>2, <1>3, <1>6
<1> QED
  BY <1>2, <1>3, <1>8 DEF S

\* The flow cover cut of a row.
LEMMA FlowCoverCutIs ==
  ASSUME NEW q, Shaped(q), NEW i \in q.rows, IsFlowRow(q, i), NEW v, v.num \in [Cols -> Int]
  PROVE  FlowCoverCut(q, v, i) \in SUBSET ValidCuts(q) /\ IsFiniteSet(FlowCoverCut(q, v, i))
<1> DEFINE S == RowCols(q, i)
           w == q.a[i]
           b == q.b[i]
           n == Cardinality(S)
           vub == [x \in S |-> CHOOSE u \in UpperBounds(q, x) : \A t \in UpperBounds(q, x) : u.cap <= t.cap]
           cap == [x \in S |-> w[x] * vub[x].cap]
           down == Falling(S, v.num)
           up == RisingThenFalling(S, cap, v.num)
           G == GreedyCover(down, cap, b)
           C == Minimised(G, up, cap, b)
           slack == [x \in C |-> FlowSlack(cap[x], Weight(C, cap) - b)]
           closed(k) == SumFunction([x \in {x \in C : vub[x].y = k} |-> slack[x]])
           L == SumFunction(slack)
           p == Triple([k \in Cols |-> closed(k) - (IF k \in C THEN w[k] ELSE 0)])
           cut == [p |-> p, r |-> L - b]
<1>1. FlowCoverCut(q, v, i) = OverCover(G, C, cap, b, cut)
  BY DEF FlowCoverCut
<1>2. /\ S \in SUBSET Cols /\ w \in [Cols -> Int] /\ b \in Int /\ b > 0 /\ q.kind[i] = "Le"
      /\ \A j \in S : w[j] > 0 /\ UpperBounds(q, j) # {}
      /\ \A j \in Cols : j \notin S => w[j] = 0
  BY ShapeIs DEF RowCols, IsFlowRow
<1> HIDE DEF S, w, b
<1>3. \A x \in S : vub[x] \in UpperBounds(q, x)
  BY <1>2, LeastCapacity
<1> HIDE DEF vub
<1>4. PICK y \in Cols : y \notin S /\ \A x \in S : vub[x].y = y
  BY <1>3, FlowRowIs DEF S
<1>5. \A x \in S : /\ vub[x].cap \in Int /\ vub[x].cap > 0
                   /\ \A z \in Points(q) : z[y] = 0 => z[x] = 0
  BY <1>2, <1>3, <1>4, UpperBoundIs
<1>6. /\ \A x \in S : \A z \in Points(q) : 0 <= z[x]
      /\ S # {} => \A z \in Points(q) : z[y] = 0 \/ z[y] = 1
  BY <1>2, <1>3, <1>4, UpperBoundIs
<1>7. \A x \in S : cap[x] \in Nat
  <2> SUFFICES ASSUME NEW x \in S PROVE cap[x] \in Nat
    OBVIOUS
  <2>1. w[x] \in Int /\ w[x] > 0 /\ vub[x].cap \in Int /\ vub[x].cap > 0 /\ cap[x] = w[x] * vub[x].cap
    BY <1>2, <1>5
  <2>2. PICK c \in Int, d \in Int : c = w[x] /\ d = vub[x].cap
    BY <2>1
  <2>3. c * d \in Int /\ c * 0 <= c * d
    BY <2>1, <2>2, Times
  <2> QED
    BY <2>1, <2>2, <2>3
<1> HIDE DEF cap
<1>8. n \in Nat /\ down \in [1..n -> S] /\ up \in [1..n -> S]
  <2>1. \A j \in S : v.num[j] \in Int /\ cap[j] \in Int
    BY <1>2, <1>7
  <2> QED
    BY <1>2, <2>1, FallingIs, RisingIs
<1> HIDE DEF down, up, n
<1>9. G \in SUBSET S
  BY <1>8, GreedyIs
<1> HIDE DEF G
<1>10. Weight(G, cap) > b => C \in SUBSET S /\ Weight(C, cap) > b
  BY <1>8, <1>9, MinimisedIs
<1> HIDE DEF C
<1>11. ASSUME Weight(G, cap) > b PROVE cut \in ValidCuts(q)
  <2> DEFINE e == Weight(C, cap) - b
  <2>1. C \in SUBSET S /\ C \in SUBSET Cols /\ Weight(C, cap) > b /\ \A j \in C : cap[j] \in Nat /\ cap[j] \in Int
    BY <1>2, <1>7, <1>10, <1>11
  <2>2. /\ Weight(C, cap) = In(C, cap, 1) + In(C, cap, 2) + In(C, cap, 3) /\ Weight(C, cap) \in Int
        /\ \A k \in Cols : In(C, cap, k) \in Nat
    <3>1. \A k \in Cols : In(C, cap, k) \in Nat
      BY <2>1 DEF In
    <3> QED
      BY <2>1, <3>1, WeightIs
  <2>3. e \in Int /\ e > 0 /\ In(C, cap, 1) + In(C, cap, 2) + In(C, cap, 3) = b + e
    BY <1>2, <2>1, <2>2
  <2>4. \A x \in C : slack[x] = GreaterOf(cap[x] - e, 0)
    BY DEF FlowSlack
  <2>5. slack = [x \in C |-> slack[x]]
    OBVIOUS
  <2> HIDE DEF e, slack
  <2>6. \A x \in C : slack[x] \in Int
    BY <2>1, <2>3, <2>4 DEF GreaterOf
  <2>7. L = Weight(C, slack)
    BY <2>5 DEF Weight
  <2> HIDE DEF L
  <2>8. L = In(C, slack, 1) + In(C, slack, 2) + In(C, slack, 3) /\ L \in Int
    BY <2>1, <2>6, <2>7, WeightIs
  <2>9. \A k \in Cols : In(C, slack, k) = GreaterOf(In(C, cap, k) - e, 0)
    BY <2>3, <2>4 DEF In, GreaterOf
  <2>10. L <= b
    <3>1. PICK z1 \in Nat, z2 \in Nat, z3 \in Nat : z1 = In(C, cap, 1) /\ z2 = In(C, cap, 2) /\ z3 = In(C, cap, 3)
      BY <2>2, ColsAre
    <3>2. GreaterOf(z1 - e, 0) + GreaterOf(z2 - e, 0) + GreaterOf(z3 - e, 0) <= b
      BY <1>2, <2>3, <3>1, ClosingIs
    <3> QED
      BY <2>8, <2>9, <3>1, <3>2, ColsAre
  <2>11. \A k \in Cols : closed(k) = IF k = y THEN L ELSE 0
    <3> SUFFICES ASSUME NEW k \in Cols PROVE closed(k) = IF k = y THEN L ELSE 0
      OBVIOUS
    <3> DEFINE T == {x \in C : vub[x].y = k}
    <3>1. closed(k) = Weight(T, slack)
      BY DEF Weight
    <3>2. CASE k = y
      <4>1. T = C
        BY <1>4, <2>1, <3>2
      <4> HIDE DEF T
      <4> QED
        BY <2>7, <3>1, <3>2, <4>1
    <3>3. CASE k # y
      <4>1. T = {}
        BY <1>4, <2>1, <3>3
      <4> HIDE DEF T
      <4>2. T \in SUBSET Cols /\ \A j \in T : slack[j] \in Int
        BY <4>1
      <4>3. Weight(T, slack) = In(T, slack, 1) + In(T, slack, 2) + In(T, slack, 3)
        BY <4>2, WeightIs
      <4>4. \A j \in Cols : In(T, slack, j) = 0
        BY <4>1 DEF In
      <4>5. Weight(T, slack) = 0
        BY <4>3, <4>4, ColsAre
      <4> HIDE DEF closed
      <4> QED
        BY <3>1, <3>3, <4>5
    <3> QED
      BY <3>2, <3>3
  <2> HIDE DEF closed
  <2>12. p \in [Cols -> Int] /\ \A k \in Cols : p[k] = (IF k = y THEN L ELSE 0) - (IF k \in C THEN w[k] ELSE 0)
    <3> DEFINE f == [k \in Cols |-> closed(k) - (IF k \in C THEN w[k] ELSE 0)]
    <3>1. f \in [Cols -> Int]
      <4>1. \A k \in Cols : closed(k) \in Int /\ w[k] \in Int
        BY <1>2, <2>8, <2>11
      <4> QED
        BY <4>1
    <3>2. \A k \in Cols : f[k] = (IF k = y THEN L ELSE 0) - (IF k \in C THEN w[k] ELSE 0)
      BY <2>11
    <3>3. Triple(f) = f
      <4> HIDE DEF f
      <4> QED
        BY <3>1, VectorIs
    <3>4. p = f
      BY <3>3
    <3> HIDE DEF f, p
    <3> QED
      BY <3>1, <3>2, <3>4
  <2> HIDE DEF p
  <2>13. ASSUME NEW z \in Points(q) PROVE L - b <= Dot(p, z)
    <3>1. z \in [Cols -> Int]
      BY PointsAreInteger
    <3>2. y \notin C
      BY <1>4, <2>1
    <3>3. PICK t \in [Cols -> Int] : /\ \A k \in Cols : t[k] = IF k \in C THEN w[k] * z[k] ELSE 0
                                     /\ Dot(p, z) = L * z[y] - (t[1] + t[2] + t[3])
      <4>1. Closes(p, w, C, y, L)
        BY <1>2, <2>1, <2>8, <2>12, <3>2 DEF Closes
      <4> QED
        BY <3>1, <4>1, PartOfRow
    <3>4. t[1] \in Int /\ t[2] \in Int /\ t[3] \in Int /\ L * 0 = 0 /\ L * 1 = L
      BY <2>8, ColsAre
    <3>5. CASE z[y] = 0
      <4>1. \A k \in Cols : t[k] = 0
        <5> SUFFICES ASSUME NEW k \in Cols PROVE t[k] = 0
          OBVIOUS
        <5>1. CASE k \in C
          <6>1. z[k] = 0 /\ w[k] \in Int
            BY <1>2, <1>5, <2>1, <3>5, <5>1
          <6>2. w[k] * 0 = 0
            BY <6>1
          <6> QED
            BY <3>3, <5>1, <6>1, <6>2
        <5>2. CASE k \notin C
          BY <3>3, <5>2
        <5> QED
          BY <5>1, <5>2
      <4> QED
        BY <1>2, <2>8, <2>10, <3>3, <3>4, <3>5, <4>1, ColsAre
    <3>6. CASE z[y] = 1
      <4>1. Compare("Le", Dot(w, z), b) /\ Dot(w, z) \in Int
        <5>1. Compare("Le", Dot(w, z), b)
          BY <1>2, PointIs DEF w, b
        <5> QED
          BY <1>2, <3>1, <5>1, VectorIs
      <4>2. Dot(w, z) <= b
        BY <1>2, <4>1, CompareIs
      <4>3. \A k \in Cols : t[k] <= w[k] * z[k] /\ w[k] * z[k] \in Int
        <5> SUFFICES ASSUME NEW k \in Cols PROVE t[k] <= w[k] * z[k] /\ w[k] * z[k] \in Int
          OBVIOUS
        <5>1. w[k] \in Int /\ z[k] \in Int
          BY <1>2, <3>1
        <5>2. PICK c \in Int, d \in Int : c = w[k] /\ d = z[k]
          BY <5>1
        <5>3. c * d \in Int
          BY <5>2
        <5>4. CASE k \in C
          BY <3>3, <5>2, <5>3, <5>4
        <5>5. CASE k \in S /\ k \notin C
          <6>1. c >= 0 /\ 0 <= d
            BY <1>2, <1>6, <5>2, <5>5
          <6>2. c * 0 <= c * d
            BY <6>1, Times
          <6> QED
            BY <3>3, <5>2, <5>3, <5>5, <6>2
        <5>6. CASE k \notin S
          <6>1. c = 0 /\ t[k] = 0
            BY <1>2, <2>1, <3>3, <5>2, <5>6
          <6>2. 0 * d = 0
            BY <5>2
          <6> QED
            BY <5>2, <6>1, <6>2
        <5> QED
          BY <5>4, <5>5, <5>6, <2>1
      <4>4. PICK m \in [Cols -> Int] : \A k \in Cols : m[k] = w[k] * z[k]
        <5> DEFINE m == [k \in Cols |-> w[k] * z[k]]
        <5>1. m \in [Cols -> Int] /\ \A k \in Cols : m[k] = w[k] * z[k]
          BY <4>3
        <5> QED
          BY <5>1
      <4>5. Dot(w, z) = m[1] + m[2] + m[3]
        BY <4>4, ColsAre DEF Dot
      <4>6. t[1] + t[2] + t[3] <= b
        BY <1>2, <3>4, <4>2, <4>3, <4>4, <4>5, ColsAre
      <4> QED
        BY <1>2, <2>8, <3>3, <3>4, <3>6, <4>6
    <3>7. z[y] = 0 \/ z[y] = 1
      <4>1. S # {}
        <5> SUFFICES ASSUME S = {} PROVE FALSE
          OBVIOUS
        <5>1. \A k \in Cols : In(C, cap, k) = 0
          BY <2>1 DEF In
        <5> QED
          BY <1>2, <2>1, <2>2, <5>1, ColsAre
      <4> QED
        BY <1>6, <4>1
    <3> QED
      BY <3>5, <3>6, <3>7
  <2>14. L - b \in Int
    BY <1>2, <2>8
  <2> HIDE DEF b
  <2>15. cut \in [p : [Cols -> Int], r : Int] /\ cut.p = p /\ cut.r = L - b
    BY <2>12, <2>14
  <2> HIDE DEF cut
  <2> QED
    BY <2>13, <2>15 DEF ValidCuts
<1> HIDE DEF cut
<1> QED
  BY <1>1, <1>11, OverCoverIs

\* The flow cover cuts.
LEMMA FlowCoverCutsAre ==
  ASSUME NEW q, Shaped(q), NEW v, v.num \in [Cols -> Int]
  PROVE  FlowCoverCuts(q, v) \in SUBSET ValidCuts(q) /\ IsFiniteSet(FlowCoverCuts(q, v))
<1> DEFINE T == {i \in q.rows : IsFlowRow(q, i)}
           F == [i \in T |-> FlowCoverCut(q, v, i)]
           W == ValidCuts(q)
           X == {F[i] : i \in T}
<1>1. IsFiniteSet(T)
  BY RowsAreFinite
<1>2. ASSUME NEW i \in T PROVE F[i] \in SUBSET W /\ IsFiniteSet(F[i])
  <2>1. F[i] = FlowCoverCut(q, v, i)
    OBVIOUS
  <2>2. FlowCoverCut(q, v, i) \in SUBSET W /\ IsFiniteSet(FlowCoverCut(q, v, i))
    BY FlowCoverCutIs
  <2> QED
    BY <2>1, <2>2
<1>3. FlowCoverCuts(q, v) = UNION X
  BY DEF FlowCoverCuts, IsFlowRow
<1> HIDE DEF T, F, W
<1>4. IsFiniteSet(X) /\ \A x \in X : x \in SUBSET W /\ IsFiniteSet(x)
  BY <1>1, <1>2, ImageIsFinite
<1> HIDE DEF X
<1>5. UNION X \in SUBSET W /\ IsFiniteSet(UNION X)
  BY <1>4, UnionIs
<1> QED
  BY <1>3, <1>5 DEF W

\* The structural cuts of a program are valid, and finitely many.
LEMMA StructuralCutsAre ==
  ASSUME NEW q, Shaped(q), NEW v, IsBasis(q, v)
  PROVE  SetToSeq(StructuralCuts(q, v)) \in Seq(ValidCuts(q))
<1> DEFINE All == KnapsackCuts(q, v) \cup CliqueCuts(q, v) \cup ImpliedBoundCuts(q) \cup FlowCoverCuts(q, v)
           S == StructuralCuts(q, v)
<1>1. v.num \in [Cols -> Int]
  BY DEF IsBasis
<1>2. KnapsackCuts(q, v) \in SUBSET ValidCuts(q) /\ IsFiniteSet(KnapsackCuts(q, v))
  BY <1>1, KnapsackCutsAre
<1>3. CliqueCuts(q, v) \in SUBSET ValidCuts(q) /\ IsFiniteSet(CliqueCuts(q, v))
  BY <1>1, CliqueCutsAre
<1>4. ImpliedBoundCuts(q) \in SUBSET ValidCuts(q) /\ IsFiniteSet(ImpliedBoundCuts(q))
  BY ImpliedBoundCutsAre
<1>5. FlowCoverCuts(q, v) \in SUBSET ValidCuts(q) /\ IsFiniteSet(FlowCoverCuts(q, v))
  BY <1>1, FlowCoverCutsAre
<1>6. All \in SUBSET ValidCuts(q) /\ IsFiniteSet(All)
  BY <1>2, <1>3, <1>4, <1>5, FS_Union
<1>7. S \in SUBSET All
  BY DEF StructuralCuts
<1> HIDE DEF S, All
<1>8. S \in SUBSET ValidCuts(q) /\ IsFiniteSet(S)
  BY <1>6, <1>7, FS_Subset
<1>9. SetToSeq(S) \in Seq(S)
  BY <1>8, SetToSeqIs
<1>10. SetToSeq(S) \in Seq(ValidCuts(q))
  BY <1>8, <1>9
<1> QED
  BY <1>10 DEF S

-----------------------------------------------------------------------------
(* Programs with cuts *)

\* With valid cuts a program has the points it had.
LEMMA WithCutsIs ==
  ASSUME NEW q, Shaped(q), NEW cuts \in Seq(ValidCuts(q))
  PROVE  LET p == WithCuts(q, cuts)
         IN  /\ Shaped(p) /\ p.ints = q.ints /\ p.c = q.c /\ p.off = q.off /\ p.lo = q.lo /\ p.hi = q.hi
             /\ Len(p.a) = Len(q.a) + Len(cuts)
             /\ \A i \in q.rows : p.a[i] = q.a[i] /\ p.b[i] = q.b[i] /\ p.kind[i] = q.kind[i]
             /\ \A i \in p.rows : i \notin q.rows => p.kind[i] = "Ge"
             /\ Points(p) = Points(q)
<1> DEFINE new == [n \in DOMAIN cuts |-> CutRow(cuts[n])]
           p == WithRows(q, new)
           k == Len(q.a)
           m == Len(cuts)
<1>1. WithCuts(q, cuts) = p
  BY DEF WithCuts
<1>2. m \in Nat /\ DOMAIN cuts = 1..m /\ \A n \in 1..m : cuts[n] \in ValidCuts(q)
  OBVIOUS
<1> HIDE DEF m
<1>3. ASSUME NEW n \in 1..m
      PROVE  /\ new[n] \in NewRows /\ new[n].kind = "Ge"
             /\ new[n].a = cuts[n].p /\ new[n].b = cuts[n].r
             /\ cuts[n].p \in [Cols -> Int] /\ cuts[n].r \in Int
             /\ \A x \in Points(q) : cuts[n].r <= Dot(cuts[n].p, x)
  <2>1. cuts[n] \in ValidCuts(q) /\ new[n] = CutRow(cuts[n])
    BY <1>2
  <2> HIDE DEF new
  <2>2. /\ cuts[n].p \in [Cols -> Int] /\ cuts[n].r \in Int
        /\ \A x \in Points(q) : cuts[n].r <= Dot(cuts[n].p, x)
    BY <2>1 DEF ValidCuts
  <2>3. new[n] = [a |-> cuts[n].p, b |-> cuts[n].r, kind |-> "Ge"]
    BY <2>1 DEF CutRow
  <2> QED
    BY <2>2, <2>3 DEF NewRows
<1>4. new \in Seq(NewRows) /\ Len(new) = m
  <2>1. DOMAIN new = 1..m /\ \A n \in 1..m : new[n] \in NewRows
    BY <1>2, <1>3
  <2>2. new = [n \in 1..m |-> new[n]]
    BY <1>2
  <2> HIDE DEF new
  <2> QED
    BY <1>2, <2>1, <2>2
<1> HIDE DEF new
<1>5. /\ Shaped(p) /\ p.ints = q.ints /\ p.c = q.c /\ p.off = q.off /\ p.lo = q.lo /\ p.hi = q.hi
      /\ Len(p.a) = k + m /\ p.rows = 1..(k + m)
      /\ \A i \in q.rows : p.a[i] = q.a[i] /\ p.b[i] = q.b[i] /\ p.kind[i] = q.kind[i]
      /\ \A n \in 1..m : p.a[k + n] = new[n].a /\ p.b[k + n] = new[n].b /\ p.kind[k + n] = new[n].kind
  <2>1. /\ Shaped(p) /\ p.ints = q.ints /\ p.c = q.c /\ p.off = q.off /\ p.lo = q.lo /\ p.hi = q.hi
        /\ Len(p.a) = k + Len(new) /\ p.rows = 1..(k + Len(new))
        /\ \A i \in q.rows : p.a[i] = q.a[i] /\ p.b[i] = q.b[i] /\ p.kind[i] = q.kind[i]
        /\ \A n \in 1..Len(new) :
             p.a[k + n] = new[n].a /\ p.b[k + n] = new[n].b /\ p.kind[k + n] = new[n].kind
    <3>1. /\ Shaped(p) /\ p.ints = q.ints /\ p.c = q.c /\ p.off = q.off /\ p.lo = q.lo /\ p.hi = q.hi
          /\ Len(p.a) = k + Len(new) /\ p.rows = 1..(k + Len(new))
      BY <1>4, WithRowsIs
    <3>2. \A i \in q.rows : p.a[i] = q.a[i] /\ p.b[i] = q.b[i] /\ p.kind[i] = q.kind[i]
      BY <1>4, WithRowsIs
    <3>3. \A n \in 1..Len(new) :
            p.a[k + n] = new[n].a /\ p.b[k + n] = new[n].b /\ p.kind[k + n] = new[n].kind
      BY <1>4, WithRowsIs
    <3> QED
      BY <3>1, <3>2, <3>3
  <2> HIDE DEF p, k
  <2> QED
    BY <1>4, <2>1
<1> HIDE DEF p
<1>6. q.rows = 1..k /\ k \in Nat
  BY DEF Shaped
<1> HIDE DEF k
<1>7. ASSUME NEW i \in p.rows, i \notin q.rows
      PROVE  \E n \in 1..m : i = k + n
  <2>1. i \in Int /\ k < i /\ i <= k + m
    BY <1>2, <1>5, <1>6, <1>7
  <2>2. i - k \in 1..m /\ i = k + (i - k)
    BY <1>2, <1>6, <2>1
  <2> QED
    BY <2>2
<1>8. \A i \in p.rows : i \notin q.rows => p.kind[i] = "Ge"
  BY <1>3, <1>5, <1>7
<1>9. q.rows \subseteq p.rows
  BY <1>2, <1>5, <1>6
<1>10. ASSUME NEW x PROVE x \in Points(p) <=> x \in Points(q)
  <2>1. x \in Points(q) <=> /\ x \in [Cols -> -Reach..Reach]
                            /\ \A j \in Cols : q.lo[j] <= x[j] /\ x[j] <= q.hi[j]
                            /\ \A i \in q.rows : Compare(q.kind[i], Dot(q.a[i], x), q.b[i])
    BY PointIs
  <2>2. x \in Points(p) <=> /\ x \in [Cols -> -Reach..Reach]
                            /\ \A j \in Cols : q.lo[j] <= x[j] /\ x[j] <= q.hi[j]
                            /\ \A i \in p.rows : Compare(p.kind[i], Dot(p.a[i], x), p.b[i])
    BY <1>5, PointIs
  <2>3. x \in Points(p) => x \in Points(q)
    BY <1>5, <1>9, <2>1, <2>2
  <2>4. ASSUME x \in Points(q), NEW i \in p.rows PROVE Compare(p.kind[i], Dot(p.a[i], x), p.b[i])
    <3>1. CASE i \in q.rows
      BY <1>5, <2>1, <2>4, <3>1
    <3>2. CASE i \notin q.rows
      <4>1. PICK n \in 1..m : i = k + n
        BY <1>7, <3>2
      <4>2. p.kind[i] = "Ge" /\ p.a[i] = cuts[n].p /\ p.b[i] = cuts[n].r
        BY <1>3, <1>5, <4>1
      <4>3. cuts[n].r <= Dot(cuts[n].p, x) /\ cuts[n].r \in Int /\ cuts[n].p \in [Cols -> Int]
        BY <1>3, <2>4
      <4>4. Dot(cuts[n].p, x) \in Int
        BY <2>4, <4>3, VectorIs, PointsAreInteger
      <4>5. Compare("Ge", Dot(cuts[n].p, x), cuts[n].r)
        BY <4>3, <4>4, CompareIs
      <4> QED
        BY <4>2, <4>5
    <3> QED
      BY <3>1, <3>2
  <2> QED
    BY <2>1, <2>2, <2>3, <2>4
<1>11. Points(p) = Points(q)
  <2>1. Points(p) \subseteq Points(q) /\ Points(q) \subseteq Points(p)
    BY <1>10
  <2> QED
    BY <2>1
<1> QED
  BY <1>1, <1>5, <1>8, <1>11 DEF k, m

-----------------------------------------------------------------------------
(* The optimum of a program *)

\* Bounds within reach.
Finite(q) == q.lo \in [Cols -> -Reach..Reach] /\ q.hi \in [Cols -> -Reach..Reach]

\* With such bounds there is no way down without end.
LEMMA NoRay == ASSUME NEW q, Shaped(q), Finite(q) PROVE ~HasDescentRay(q)
<1> SUFFICES ASSUME NEW d \in [Cols -> -1..1], IsDescentRay(q, d) PROVE FALSE
  BY DEF HasDescentRay
<1>1. Reach \in Nat /\ Inf \in Nat /\ Inf > Reach
  BY LpDataAssumption
<1>2. \A j \in Cols : IsFinite(q.lo[j]) /\ IsFinite(q.hi[j]) /\ j \in q.cols
  <2>1. \A j \in Cols : q.lo[j] \in -Reach..Reach /\ q.hi[j] \in -Reach..Reach
    BY DEF Finite
  <2> QED
    BY <1>1, <2>1, ShapeIs DEF IsFinite
<1>3. \A j \in Cols : d[j] = 0
  <2>1. \A j \in Cols : d[j] \in Int /\ d[j] >= 0 /\ d[j] <= 0
    BY <1>2 DEF IsDescentRay
  <2> QED
    BY <2>1
<1>4. d \in [Cols -> Int]
  OBVIOUS
<1>5. Cost(q, d) = Dot(q.c, d) /\ Cost(q, d) < 0
  BY <1>4, ActivityIs DEF IsDescentRay
<1>6. Dot(q.c, d) = 0
  <2>1. q.c[1] \in Int /\ q.c[2] \in Int /\ q.c[3] \in Int /\ d[1] = 0 /\ d[2] = 0 /\ d[3] = 0
    BY <1>3, ShapeIs, ColsAre
  <2> QED
    BY <2>1 DEF Dot
<1> QED
  BY <1>5, <1>6

\* The costs of the points make the optimum.
LEMMA OptimumIs ==
  ASSUME NEW q, Shaped(q), Finite(q), NEW p, Shaped(p), Finite(p), p.c = q.c, p.off = q.off,
         Points(p) \subseteq Points(q),
         \A x \in Points(q) : \E y \in Points(p) : Dot(q.c, y) = Dot(q.c, x)
  PROVE  Optimum(p) = Optimum(q)
<1>1. ~HasDescentRay(p) /\ ~HasDescentRay(q)
  BY NoRay
<1>2. Points(p) = {} <=> Points(q) = {}
  OBVIOUS
<1>3. /\ \A x \in Points(q) : Cost(q, x) = Dot(q.c, x)
      /\ \A x \in Points(p) : Cost(p, x) = Dot(q.c, x)
  BY ActivityIs, PointsAreInteger
<1> DEFINE A == {Cost(p, x) : x \in Points(p)}
           B == {Cost(q, x) : x \in Points(q)}
<1>4. A = B
  <2>1. ASSUME NEW x \in Points(q) PROVE Cost(q, x) \in A
    <3>1. PICK y \in Points(p) : Dot(q.c, y) = Dot(q.c, x)
      OBVIOUS
    <3> QED
      BY <1>3, <3>1
  <2>2. ASSUME NEW x \in Points(p) PROVE Cost(p, x) \in B
    BY <1>3
  <2> QED
    BY <2>1, <2>2
<1> HIDE DEF A, B
<1>5. Min(A) + p.off = Min(B) + q.off
  BY <1>4
<1> QED
  BY <1>1, <1>2, <1>5 DEF Optimum, A, B

\* Two columns exchanged.
LEMMA ExchangeIs ==
  ASSUME NEW w \in [Cols -> Int], NEW y \in [Cols -> Int], NEW j \in Cols, NEW k \in Cols, j # k,
         y[j] = 0, y[k] = 1, NEW z \in [Cols -> Int], z[j] = 1, z[k] = 0,
         \A l \in Cols : l # j /\ l # k => z[l] = y[l]
  PROVE  Dot(w, z) = Dot(w, y) + w[j] - w[k]
<1> DEFINE s == [l \in Cols |-> w[l] * y[l]]
           t == [l \in Cols |-> w[l] * z[l]]
<1>1. \A l \in Cols : w[l] \in Int /\ y[l] \in Int /\ z[l] \in Int
  OBVIOUS
<1>2. s \in [Cols -> Int] /\ t \in [Cols -> Int]
  <2> SUFFICES ASSUME NEW l \in Cols PROVE w[l] * y[l] \in Int /\ w[l] * z[l] \in Int
    OBVIOUS
  <2> QED
    BY <1>1
<1>3. Dot(w, y) = s[1] + s[2] + s[3] /\ Dot(w, z) = t[1] + t[2] + t[3]
  BY ColsAre DEF Dot
<1>4. /\ s[j] = 0 /\ t[j] = w[j] /\ s[k] = w[k] /\ t[k] = 0
      /\ \A l \in Cols : l # j /\ l # k => t[l] = s[l]
  <2>1. w[j] * 0 = 0 /\ w[j] * 1 = w[j] /\ w[k] * 0 = 0 /\ w[k] * 1 = w[k]
    BY <1>1
  <2> QED
    BY <2>1
<1> HIDE DEF s, t
<1> QED
  BY <1>1, <1>2, <1>3, <1>4, ColsAre

\* Binaries of a program, exchangeable and out of order: another point, at the
\* same cost and further up.
LEMMA ExchangePoint ==
  ASSUME NEW q, Shaped(q), NEW j \in Cols, NEW k \in Cols, j < k, IsBinary(q, j), IsBinary(q, k),
         Interchangeable(q, j, k), NEW y \in Points(q), y[j] < y[k]
  PROVE  \E z \in Points(q) : /\ Dot(q.c, z) = Dot(q.c, y)
                              /\ Dot([l \in Cols |-> 4 - l], z) > Dot([l \in Cols |-> 4 - l], y)
<1> DEFINE z == [l \in Cols |-> IF l = j THEN 1 ELSE IF l = k THEN 0 ELSE y[l]]
           w == [l \in Cols |-> 4 - l]
<1>1. /\ y \in [Cols -> -Reach..Reach]
      /\ \A l \in Cols : q.lo[l] <= y[l] /\ y[l] <= q.hi[l]
      /\ \A i \in q.rows : Compare(q.kind[i], Dot(q.a[i], y), q.b[i])
  BY PointIs
<1>2. q.lo[j] = 0 /\ q.hi[j] = 1 /\ q.lo[k] = 0 /\ q.hi[k] = 1 /\ Reach \in Nat
  BY LpDataAssumption DEF IsBinary
<1>3. j # k /\ y[j] = 0 /\ y[k] = 1 /\ y \in [Cols -> Int]
  <2>1. y[j] \in Int /\ y[k] \in Int /\ j \in Int /\ k \in Int
    BY <1>1, ColsAre
  <2> QED
    BY <1>1, <1>2, <2>1
<1>4. z \in [Cols -> -Reach..Reach]
  <2>1. 0 \in -Reach..Reach /\ 1 \in -Reach..Reach
    <3>1. y[k] \in -Reach..Reach
      BY <1>1
    <3> QED
      BY <1>2, <1>3, <3>1
  <2> QED
    BY <1>1, <2>1
<1>5. z \in [Cols -> Int] /\ z[j] = 1 /\ z[k] = 0 /\ \A l \in Cols : l # j /\ l # k => z[l] = y[l]
  BY <1>3
<1> HIDE DEF z, w
<1>6. ASSUME NEW v \in [Cols -> Int] PROVE Dot(v, z) = Dot(v, y) + v[j] - v[k]
  BY <1>3, <1>5, ExchangeIs
<1>7. ASSUME NEW v \in [Cols -> Int], v[j] = v[k] PROVE Dot(v, z) = Dot(v, y)
  <2>1. Dot(v, z) = Dot(v, y) + v[j] - v[k] /\ Dot(v, y) \in Int /\ v[j] \in Int
    BY <1>3, <1>6, VectorIs
  <2> QED
    BY <1>7, <2>1
<1>8. q.c \in [Cols -> Int] /\ q.c[j] = q.c[k] /\ \A i \in q.rows : q.a[i] \in [Cols -> Int] /\ q.a[i][j] = q.a[i][k]
  BY ShapeIs DEF Interchangeable
<1>9. z \in Points(q)
  <2>1. \A l \in Cols : q.lo[l] <= z[l] /\ z[l] <= q.hi[l]
    BY <1>1, <1>2, <1>5
  <2>2. \A i \in q.rows : Compare(q.kind[i], Dot(q.a[i], z), q.b[i])
    BY <1>1, <1>7, <1>8
  <2> QED
    BY <1>4, <2>1, <2>2, PointIs
<1>10. Dot(q.c, z) = Dot(q.c, y)
  BY <1>7, <1>8
<1>11. Dot(w, z) > Dot(w, y)
  <2>1. w \in [Cols -> Int] /\ w[j] = 4 - j /\ w[k] = 4 - k /\ j \in Int /\ k \in Int
    BY ColsAre DEF w
  <2>2. Dot(w, z) = Dot(w, y) + w[j] - w[k] /\ Dot(w, y) \in Int
    BY <1>3, <1>6, <2>1, VectorIs
  <2> QED
    BY <2>1, <2>2
<1> QED
  BY <1>9, <1>10, <1>11 DEF w

\* A pair of columns that a row orders.
LEMMA OrderedPairIs ==
  ASSUME NEW q, Shaped(q), NEW p \in OrderedPairs(q)
  PROVE  \E j \in Cols, k \in Cols : /\ p = <<j, k>> /\ j < k
                                     /\ IsBinary(q, j) /\ IsBinary(q, k) /\ Interchangeable(q, j, k)
<1>1. PICK j \in Cols, k \in Cols : p = <<j, k>>
  BY DEF OrderedPairs
<1>2. IsBinary(q, j) /\ j < k /\ IsBinary(q, k) /\ Interchangeable(q, j, k)
  BY <1>1 DEF OrderedPairs
<1> QED
  BY <1>1, <1>2

\* For every point there is one as cheap whose interchangeable binaries fall.
LEMMA OrderedPoint ==
  ASSUME NEW q, Shaped(q), NEW x \in Points(q)
  PROVE  \E y \in Points(q) : Dot(q.c, y) = Dot(q.c, x) /\ \A p \in OrderedPairs(q) : y[p[1]] >= y[p[2]]
<1> DEFINE T == {y \in Points(q) : Dot(q.c, y) = Dot(q.c, x)}
           w == [l \in Cols |-> 4 - l]
           V == {-Dot(w, y) : y \in T}
           low == -(6 * Reach)
<1>1. ASSUME NEW y \in T PROVE Dot(w, y) \in Int /\ low <= -Dot(w, y)
  <2>1. y \in [Cols -> -Reach..Reach] /\ Reach \in Nat
    BY PointIs, LpDataAssumption
  <2>2. w[1] = 3 /\ w[2] = 2 /\ w[3] = 1
    BY ColsAre
  <2>3. Dot(w, y) = 3 * y[1] + 2 * y[2] + 1 * y[3]
    BY <2>2 DEF Dot
  <2>4. y[1] \in -Reach..Reach /\ y[2] \in -Reach..Reach /\ y[3] \in -Reach..Reach
    BY <2>1, ColsAre
  <2> QED
    BY <2>1, <2>3, <2>4
<1>2. x \in T
  OBVIOUS
<1>3. low \in Int
  BY LpDataAssumption
<1>4. PICK y \in T : \A z \in T : -Dot(w, y) <= -Dot(w, z)
  <2> HIDE DEF T, w, low
  <2>1. V \in SUBSET Int /\ V # {} /\ \A v \in V : low <= v
    BY <1>1, <1>2
  <2>2. PICK v \in V : \A u \in V : v <= u
    BY <1>3, <2>1, LeastInteger
  <2> QED
    BY <2>2
<1>5. ASSUME NEW p \in OrderedPairs(q) PROVE y[p[1]] >= y[p[2]]
  <2>1. PICK j \in Cols, k \in Cols : /\ p = <<j, k>> /\ j < k
                                      /\ IsBinary(q, j) /\ IsBinary(q, k) /\ Interchangeable(q, j, k)
    BY OrderedPairIs
  <2>2. y \in Points(q) /\ y \in [Cols -> Int]
    BY PointsAreInteger
  <2> SUFFICES ASSUME y[j] < y[k] PROVE FALSE
    <3>1. p[1] = j /\ p[2] = k /\ y[j] \in Int /\ y[k] \in Int
      BY <2>1, <2>2
    <3> QED
      BY <3>1
  <2>3. PICK z \in Points(q) : Dot(q.c, z) = Dot(q.c, y) /\ Dot(w, z) > Dot(w, y)
    BY <2>1, <2>2, ExchangePoint
  <2>4. z \in T
    BY <2>3
  <2>5. Dot(w, z) \in Int /\ Dot(w, y) \in Int /\ -Dot(w, y) <= -Dot(w, z)
    BY <1>1, <1>4, <2>4
  <2> HIDE DEF w
  <2> QED
    BY <2>3, <2>5
<1> QED
  BY <1>5

\* What an ordering row says.
LEMMA OrderRowIs ==
  ASSUME NEW j \in Cols, NEW k \in Cols, j < k
  PROVE  /\ OrderRow(<<j, k>>) \in NewRows
         /\ OrderRow(<<j, k>>).kind = "Ge" /\ OrderRow(<<j, k>>).b = 0
         /\ \A y \in [Cols -> Int] : Dot(OrderRow(<<j, k>>).a, y) = y[j] - y[k]
<1> DEFINE a == [l \in Cols |-> IF l = j THEN 1 ELSE IF l = k THEN -1 ELSE 0]
           row == [a |-> a, b |-> 0, kind |-> "Ge"]
<1>1. OrderRow(<<j, k>>) = row
  BY DEF OrderRow
<1>2. a \in [Cols -> Int] /\ j # k
  BY ColsAre
<1>3. ASSUME NEW y \in [Cols -> Int] PROVE Dot(a, y) = y[j] - y[k]
  <2>1. a[j] = 1 /\ a[k] = -1 /\ \A l \in Cols : l # j /\ l # k => a[l] = 0
    BY <1>2
  <2> HIDE DEF a
  <2>2. Dot(a, y) = a[j] * y[j] + a[k] * y[k]
    BY <1>2, <2>1, TwoTerms
  <2>3. y[j] \in Int /\ y[k] \in Int
    OBVIOUS
  <2> QED
    BY <2>1, <2>2, <2>3
<1> HIDE DEF a
<1>4. row \in NewRows /\ row.kind = "Ge" /\ row.b = 0 /\ row.a = a
  BY <1>2 DEF NewRows
<1> HIDE DEF row
<1> QED
  BY <1>1, <1>3, <1>4

\* With the ordering rows a program has points at all the costs it had.
LEMMA OrderRowsIs ==
  ASSUME NEW q, Shaped(q)
  PROVE  LET p == OrderRows(q)
         IN  /\ Shaped(p) /\ p.ints = q.ints /\ p.c = q.c /\ p.off = q.off /\ p.lo = q.lo /\ p.hi = q.hi
             /\ Len(p.a) \in Nat /\ Len(q.a) <= Len(p.a)
             /\ \A i \in q.rows : p.a[i] = q.a[i] /\ p.b[i] = q.b[i] /\ p.kind[i] = q.kind[i]
             /\ \A x \in Points(q) : \E y \in Points(p) : Dot(q.c, y) = Dot(q.c, x)
<1> DEFINE P == OrderedPairs(q)
           f == [p \in P |-> OrderRow(p)]
           R == {f[p] : p \in P}
           new == SetToSeq(R)
           k == Len(q.a)
           m == Len(new)
           p == WithRows(q, new)
<1>1. OrderRows(q) = p
  BY DEF OrderRows
<1>2. IsFiniteSet(R)
  <2>1. IsFiniteSet(Cols \X Cols)
    BY ColsAre, FS_Product
  <2>2. P \in SUBSET (Cols \X Cols)
    BY DEF OrderedPairs
  <2> HIDE DEF P, f
  <2>3. IsFiniteSet(P)
    BY <2>1, <2>2, FS_Subset
  <2> QED
    BY <2>3, ImageIsFinite
<1>3. ASSUME NEW r \in R
      PROVE  /\ r \in NewRows /\ r.kind = "Ge" /\ r.b = 0
             /\ \E s \in P : \A y \in [Cols -> Int] : Dot(r.a, y) = y[s[1]] - y[s[2]]
  <2>1. PICK s \in P : r = OrderRow(s)
    OBVIOUS
  <2>2. PICK j \in Cols, l \in Cols : s = <<j, l>> /\ j < l
    BY OrderedPairIs
  <2>3. /\ r \in NewRows /\ r.kind = "Ge" /\ r.b = 0
        /\ \A y \in [Cols -> Int] : Dot(r.a, y) = y[j] - y[l]
    BY <2>1, <2>2, OrderRowIs
  <2> QED
    BY <2>2, <2>3
<1> HIDE DEF R
<1>4. new \in Seq(R)
  BY <1>2, SetToSeqIs
<1> HIDE DEF new
<1>5. new \in Seq(NewRows) /\ m \in Nat /\ \A n \in 1..m : new[n] \in R
  BY <1>3, <1>4
<1>6. /\ Shaped(p) /\ p.ints = q.ints /\ p.c = q.c /\ p.off = q.off /\ p.lo = q.lo /\ p.hi = q.hi
      /\ Len(p.a) = k + m /\ p.rows = 1..(k + m)
  BY <1>5, WithRowsIs
<1>7. \A i \in q.rows : p.a[i] = q.a[i] /\ p.b[i] = q.b[i] /\ p.kind[i] = q.kind[i]
  BY <1>5, WithRowsIs
<1>8. \A n \in 1..m : p.a[k + n] = new[n].a /\ p.b[k + n] = new[n].b /\ p.kind[k + n] = new[n].kind
  BY <1>5, WithRowsIs
<1> HIDE DEF p, P
<1>9. q.rows = 1..k /\ k \in Nat
  BY DEF Shaped
<1> HIDE DEF k, m
<1>10. ASSUME NEW x \in Points(q) PROVE \E y \in Points(p) : Dot(q.c, y) = Dot(q.c, x)
  <2>1. PICK y \in Points(q) : Dot(q.c, y) = Dot(q.c, x) /\ \A s \in P : y[s[1]] >= y[s[2]]
    BY OrderedPoint DEF P
  <2>2. y \in [Cols -> Int]
    BY PointsAreInteger
  <2>3. /\ y \in [Cols -> -Reach..Reach]
        /\ \A j \in Cols : q.lo[j] <= y[j] /\ y[j] <= q.hi[j]
        /\ \A i \in q.rows : Compare(q.kind[i], Dot(q.a[i], y), q.b[i])
    BY PointIs
  <2>4. ASSUME NEW i \in p.rows PROVE Compare(p.kind[i], Dot(p.a[i], y), p.b[i])
    <3>1. CASE i \in q.rows
      BY <1>7, <2>3, <3>1
    <3>2. CASE i \notin q.rows
      <4>1. PICK n \in 1..m : i = k + n
        <5>1. i \in Int /\ k < i /\ i <= k + m
          BY <1>5, <1>6, <1>9, <3>2
        <5>2. i - k \in 1..m /\ i = k + (i - k)
          BY <1>5, <1>9, <5>1
        <5> QED
          BY <5>2
      <4>2. PICK r \in R : r = new[n]
        BY <1>5
      <4>3. p.a[i] = r.a /\ p.b[i] = 0 /\ p.kind[i] = "Ge" /\ r.a \in [Cols -> Int]
        <5>1. r.a \in [Cols -> Int]
          BY <1>3 DEF NewRows
        <5> QED
          BY <1>3, <1>8, <4>1, <4>2, <5>1
      <4>4. PICK s \in P : Dot(r.a, y) = y[s[1]] - y[s[2]]
        BY <1>3, <2>2
      <4>5. s[1] \in Cols /\ s[2] \in Cols
        BY OrderedPairIs DEF P
      <4>6. Dot(r.a, y) \in Int /\ Dot(r.a, y) >= 0
        BY <2>1, <2>2, <4>4, <4>5
      <4> QED
        BY <4>3, <4>6, CompareIs
    <3> QED
      BY <3>1, <3>2
  <2>5. y \in Points(p)
    BY <1>6, <2>3, <2>4, PointIs
  <2> QED
    BY <2>1, <2>5
<1>11. Len(p.a) \in Nat /\ Len(q.a) <= Len(p.a)
  BY <1>5, <1>6, <1>9 DEF k
<1> QED
  BY <1>1, <1>6, <1>7, <1>10, <1>11

-----------------------------------------------------------------------------
(* Rows that go, and rows that turn *)

\* Programs that differ in their rows only.
Alike(q, p) == p.ints = q.ints /\ p.c = q.c /\ p.off = q.off /\ p.lo = q.lo /\ p.hi = q.hi

\* The points of the bounds and of the first rows.
PlainPoints(q, k) ==
  {x \in [Cols -> -Reach..Reach] :
     /\ \A j \in Cols : q.lo[j] <= x[j] /\ x[j] <= q.hi[j]
     /\ \A i \in 1..k : Compare(q.kind[i], Dot(q.a[i], x), q.b[i])}

SameRows(q, p, k) == \A i \in 1..k : p.a[i] = q.a[i] /\ p.b[i] = q.b[i] /\ p.kind[i] = q.kind[i]

\* Those of all the rows are the points.
LEMMA AllRows == ASSUME NEW q, Shaped(q) PROVE PlainPoints(q, Len(q.a)) = Points(q)
<1>1. q.rows = 1..Len(q.a)
  BY DEF Shaped
<1>2. ASSUME NEW x PROVE x \in PlainPoints(q, Len(q.a)) <=> x \in Points(q)
  BY <1>1, PointIs DEF PlainPoints
<1>3. PlainPoints(q, Len(q.a)) \subseteq Points(q) /\ Points(q) \subseteq PlainPoints(q, Len(q.a))
  BY <1>2
<1> QED
  BY <1>3

\* They depend on nothing else.
LEMMA SamePoints ==
  ASSUME NEW q, NEW p, NEW k, p.lo = q.lo, p.hi = q.hi, SameRows(q, p, k)
  PROVE  PlainPoints(p, k) = PlainPoints(q, k)
  BY DEF PlainPoints, SameRows

\* A sequence cut off.
LEMMA PrefixIs ==
  ASSUME NEW S, NEW s \in Seq(S), NEW n \in 0..Len(s)
  PROVE  SubSeq(s, 1, n) \in Seq(S) /\ Len(SubSeq(s, 1, n)) = n /\ \A i \in 1..n : SubSeq(s, 1, n)[i] = s[i]
  OBVIOUS

\* Without its last rows a program is one.
LEMMA FirstRowsIs ==
  ASSUME NEW q, Shaped(q), NEW n \in 0..Len(q.a)
  PROVE  LET p == FirstRows(q, n)
         IN  Shaped(p) /\ Alike(q, p) /\ Len(p.a) = n /\ SameRows(q, p, n)
<1>1. /\ q.a \in Seq([Cols -> Int]) /\ q.b \in Seq(Int) /\ q.kind \in Seq({"Le", "Ge", "Eq"})
      /\ Len(q.b) = Len(q.a) /\ Len(q.kind) = Len(q.a) /\ n \in Nat
  BY DEF Shaped
<1> DEFINE a == SubSeq(q.a, 1, n)
           b == SubSeq(q.b, 1, n)
           kind == SubSeq(q.kind, 1, n)
           p == FirstRows(q, n)
<1>2. a \in Seq([Cols -> Int]) /\ Len(a) = n /\ \A i \in 1..n : a[i] = q.a[i]
  BY <1>1, PrefixIs
<1>3. b \in Seq(Int) /\ Len(b) = n /\ \A i \in 1..n : b[i] = q.b[i]
  BY <1>1, PrefixIs
<1>4. kind \in Seq({"Le", "Ge", "Eq"}) /\ Len(kind) = n /\ \A i \in 1..n : kind[i] = q.kind[i]
  BY <1>1, PrefixIs
<1>5. p = [q EXCEPT !.a = a, !.b = b, !.kind = kind, !.rows = 1..n]
  BY DEF FirstRows
<1> HIDE DEF a, b, kind, p
<1>6. 1..n \in SUBSET Nat
  BY <1>1
<1>7. Shaped(p) /\ p.a = a /\ p.b = b /\ p.kind = kind /\ Alike(q, p)
  BY <1>1, <1>2, <1>3, <1>4, <1>5, <1>6 DEF Shaped, Alike
<1> QED
  BY <1>2, <1>3, <1>4, <1>7 DEF SameRows, p

\* Cuts turned into "<=" rows say what they said.
LEMMA CutsAsLeIs ==
  ASSUME NEW q, Shaped(q), root.plain \in Nat,
         \A i \in q.rows : i > root.plain => q.kind[i] = "Ge"
  PROVE  LET p == CutsAsLe(q)
         IN  /\ Shaped(p) /\ Alike(q, p) /\ Len(p.a) = Len(q.a)
             /\ root.plain <= Len(q.a) => SameRows(q, p, root.plain)
             /\ Points(p) = Points(q)
<1> DEFINE n == Len(q.a)
           k == root.plain
           a == [i \in DOMAIN q.a |-> IF i > k THEN Negated(q.a[i]) ELSE q.a[i]]
           b == [i \in DOMAIN q.b |-> IF i > k THEN -q.b[i] ELSE q.b[i]]
           kind == [i \in DOMAIN q.kind |-> IF i > k THEN "Le" ELSE q.kind[i]]
           p == CutsAsLe(q)
<1>1. /\ q.a \in Seq([Cols -> Int]) /\ q.b \in Seq(Int) /\ q.kind \in Seq({"Le", "Ge", "Eq"})
      /\ Len(q.b) = n /\ Len(q.kind) = n /\ n \in Nat /\ q.rows = 1..n
      /\ DOMAIN q.a = 1..n /\ DOMAIN q.b = 1..n /\ DOMAIN q.kind = 1..n
  BY DEF Shaped
<1>2. p = [q EXCEPT !.a = a, !.b = b, !.kind = kind]
  BY DEF CutsAsLe
<1> HIDE DEF n, p
<1>3. a \in Seq([Cols -> Int]) /\ Len(a) = n
  <2>1. ASSUME NEW i \in 1..n PROVE q.a[i] \in [Cols -> Int] /\ Negated(q.a[i]) \in [Cols -> Int]
    <3>1. PICK u \in [Cols -> Int] : u = q.a[i]
      BY <1>1, ShapeIs
    <3> QED
      BY <3>1, VectorIs
  <2> QED
    BY <1>1, <2>1
<1>4. b \in Seq(Int) /\ Len(b) = n
  <2>1. \A i \in 1..n : q.b[i] \in Int /\ -q.b[i] \in Int
    BY <1>1
  <2> QED
    BY <1>1, <2>1, SMTT(30)
<1>5. kind \in Seq({"Le", "Ge", "Eq"}) /\ Len(kind) = n
  <2>1. \A i \in 1..n : q.kind[i] \in {"Le", "Ge", "Eq"}
    BY <1>1
  <2> QED
    BY <1>1, <2>1
<1>6. ASSUME NEW i \in 1..n
      PROVE  /\ i <= k => a[i] = q.a[i] /\ b[i] = q.b[i] /\ kind[i] = q.kind[i]
             /\ i > k => a[i] = Negated(q.a[i]) /\ b[i] = -q.b[i] /\ kind[i] = "Le"
  BY <1>1
<1> HIDE DEF a, b, kind, k
<1>7. Shaped(p) /\ p.a = a /\ p.b = b /\ p.kind = kind /\ p.rows = q.rows /\ Alike(q, p)
  BY <1>1, <1>2, <1>3, <1>4, <1>5 DEF Shaped, Alike, n
<1>8. k <= n => SameRows(q, p, k)
  <2> SUFFICES ASSUME k <= n, NEW i \in 1..k PROVE a[i] = q.a[i] /\ b[i] = q.b[i] /\ kind[i] = q.kind[i]
    BY <1>7 DEF SameRows
  <2>1. k \in Nat
    BY DEF k
  <2>2. i \in 1..n /\ i <= k
    BY <1>1, <2>1
  <2> QED
    BY <1>6, <2>2
<1>9. ASSUME NEW x \in [Cols -> Int], NEW i \in q.rows
      PROVE  Compare(p.kind[i], Dot(p.a[i], x), p.b[i]) <=> Compare(q.kind[i], Dot(q.a[i], x), q.b[i])
  <2>1. q.a[i] \in [Cols -> Int] /\ q.b[i] \in Int /\ i \in 1..n
    BY <1>1, ShapeIs
  <2>2. CASE i > k
    <3>1. q.kind[i] = "Ge" /\ p.kind[i] = "Le" /\ p.b[i] = -q.b[i] /\ p.a[i] = Negated(q.a[i])
      BY <1>6, <1>7, <2>1, <2>2 DEF k
    <3>2. Dot(p.a[i], x) = -Dot(q.a[i], x) /\ Dot(q.a[i], x) \in Int
      BY <2>1, <3>1, VectorIs
    <3>3. Compare("Le", -Dot(q.a[i], x), -q.b[i]) <=> -Dot(q.a[i], x) <= -q.b[i]
      BY DEF Compare
    <3>4. Compare("Ge", Dot(q.a[i], x), q.b[i]) <=> Dot(q.a[i], x) >= q.b[i]
      BY DEF Compare
    <3>5. -Dot(q.a[i], x) <= -q.b[i] <=> Dot(q.a[i], x) >= q.b[i]
      BY <2>1, <3>2
    <3> QED
      BY <3>1, <3>2, <3>3, <3>4, <3>5
  <2>3. CASE ~(i > k)
    <3>1. i <= k
      BY <2>1, <2>3 DEF k
    <3> QED
      BY <1>6, <1>7, <2>1, <3>1
  <2> QED
    BY <2>2, <2>3
<1>10. ASSUME NEW x PROVE x \in Points(p) <=> x \in Points(q)
  <2>1. x \in Points(q) <=> /\ x \in [Cols -> -Reach..Reach]
                            /\ \A j \in Cols : q.lo[j] <= x[j] /\ x[j] <= q.hi[j]
                            /\ \A i \in q.rows : Compare(q.kind[i], Dot(q.a[i], x), q.b[i])
    BY PointIs
  <2>2. x \in Points(p) <=> /\ x \in [Cols -> -Reach..Reach]
                            /\ \A j \in Cols : q.lo[j] <= x[j] /\ x[j] <= q.hi[j]
                            /\ \A i \in q.rows : Compare(p.kind[i], Dot(p.a[i], x), p.b[i])
    BY <1>7, PointIs DEF Alike
  <2>3. x \in [Cols -> -Reach..Reach] => x \in [Cols -> Int]
    BY LpDataAssumption
  <2> QED
    BY <1>9, <2>1, <2>2, <2>3
<1>11. Points(p) = Points(q)
  <2>1. Points(p) \subseteq Points(q) /\ Points(q) \subseteq Points(p)
    BY <1>10
  <2> QED
    BY <2>1
<1> QED
  BY <1>3, <1>7, <1>8, <1>11 DEF p, n, k

\* A branch has the program's rows and columns.
LEMMA BranchIs ==
  ASSUME NEW q, Shaped(q), NEW p \in Branches(q)
  PROVE  p \in BoxesOf(q)
<1>1. PICK s \in [col : q.ints, lo : -Reach..Reach, hi : -Reach..Reach] :
        p = WithBounds(q, [k \in {s.col} |-> s])
  BY DEF Branches
<1> DEFINE v == [k \in {s.col} |-> s]
<1>2. s.col \in Cols /\ s.lo \in Int /\ s.hi \in Int
  BY ShapeIs, LpDataAssumption
<1>3. DOMAIN v \in SUBSET Cols /\ \A j \in DOMAIN v : v[j].lo \in Int /\ v[j].hi \in Int
  BY <1>2
<1>4. p = WithBounds(q, v)
  BY <1>1
<1> HIDE DEF v
<1>5. p = Boxed(q, Over(q.lo, v, "lo"), Over(q.hi, v, "hi"))
      /\ Over(q.lo, v, "lo") \in [Cols -> Int] /\ Over(q.hi, v, "hi") \in [Cols -> Int]
  BY <1>3, <1>4, WithBoundsIs
<1> QED
  BY <1>5 DEF BoxesOf

-----------------------------------------------------------------------------
(* What the root makes of the program *)

\* Bounds tightened, no bound crossed.
Sharpened(P, q) == Tightens(P, q) /\ Finite(q)

\* The points of the program given that further rows of q, up to k, admit.
Admitted(P, q, k) ==
  {x \in Points(P) : \A i \in (Len(P.a) + 1)..k : Compare(q.kind[i], Dot(q.a[i], x), q.b[i])}

\* Rows added, the first of them to order columns, and the rest cuts: those
\* after row k.
Kept(P, q, k) ==
  /\ Shaped(q) /\ Finite(q) /\ k \in Nat /\ k <= Len(q.a)
  /\ q.ints = P.ints /\ q.c = P.c /\ q.off = P.off
  /\ Admitted(P, q, k) \subseteq Points(q)
  /\ PlainPoints(q, k) = Points(q)
  /\ Optimum(q) = Optimum(P)

CutsAfter(q, k) == \A i \in q.rows : i > k => q.kind[i] = "Ge"

\* A mixed-integer program given.
LEMMA MixedProgramIs == ASSUME NEW P \in Problems, P.ints # {} PROVE Shaped(P) /\ Finite(P)
<1>1. /\ P \in MixedPrograms /\ P.rows = DOMAIN P.a /\ DOMAIN P.b = P.rows /\ DOMAIN P.kind = P.rows
  BY MixedAssumption
<1>2. /\ P.a \in Seq([Cols -> Int]) /\ P.b \in Seq(Int) /\ P.kind \in Seq({"Le", "Ge", "Eq"})
      /\ P.lo \in [Cols -> -Reach..Reach] /\ P.hi \in [Cols -> -Reach..Reach]
  BY <1>1 DEF MixedPrograms
<1>3. P.rows = 1..Len(P.a) /\ Len(P.b) = Len(P.a) /\ Len(P.kind) = Len(P.a)
  BY <1>1, <1>2
<1>4. P.lo \in [Cols -> Int] /\ P.hi \in [Cols -> Int]
  BY <1>2, LpDataAssumption
<1>5. P \in [a : Seq([Cols -> Int]), b : Seq(Int), kind : Seq({"Le", "Ge", "Eq"}), rows : SUBSET Nat,
             cols : {Cols}, ints : SUBSET Cols, c : [Cols -> Int], off : {0},
             lo : [Cols -> Int], hi : [Cols -> Int]]
  BY <1>1, <1>4 DEF MixedPrograms
<1> QED
  BY <1>2, <1>3, <1>5 DEF Shaped, Finite

\* Tightened bounds that do not cross stay within reach.
LEMMA StaysFinite ==
  ASSUME NEW P, Shaped(P), Finite(P), NEW q, Tightens(P, q), ~IsEmptyBox(q) PROVE Sharpened(P, q)
<1>1. q \in BoxesOf(P)
  BY DEF Tightens
<1>2. q.lo \in [Cols -> Int] /\ q.hi \in [Cols -> Int] /\ Shaped(q)
  BY <1>1, BoxOf
<1>3. \A j \in Cols : q.lo[j] <= q.hi[j]
  BY <1>2, ShapeIs, SMTT(30) DEF IsEmptyBox
<1>4. Reach \in Nat
  BY LpDataAssumption
<1>5. ASSUME NEW j \in Cols PROVE q.lo[j] \in -Reach..Reach /\ q.hi[j] \in -Reach..Reach
  <2>1. P.lo[j] \in -Reach..Reach /\ P.hi[j] \in -Reach..Reach
    BY DEF Finite
  <2>2. P.lo[j] <= q.lo[j] /\ q.hi[j] <= P.hi[j]
    BY DEF Tightens
  <2> QED
    BY <1>2, <1>3, <1>4, <2>1, <2>2
<1> QED
  BY <1>2, <1>5 DEF Sharpened, Finite

\* What tightening the bounds leaves as it is.
LEMMA SharpenedIs ==
  ASSUME NEW P, Shaped(P), Finite(P), NEW q, Sharpened(P, q)
  PROVE  /\ Shaped(q) /\ Finite(q) /\ q.ints = P.ints /\ q.c = P.c /\ q.off = P.off
         /\ q.a = P.a /\ q.b = P.b /\ q.kind = P.kind /\ q.rows = P.rows
         /\ Points(q) = Points(P) /\ Optimum(q) = Optimum(P)
<1>1. q \in BoxesOf(P) /\ Tightens(P, q)
  BY DEF Sharpened, Tightens
<1>2. /\ Shaped(q) /\ q.a = P.a /\ q.b = P.b /\ q.kind = P.kind /\ q.rows = P.rows
      /\ q.ints = P.ints /\ q.c = P.c /\ q.off = P.off
      /\ q.lo \in [Cols -> Int] /\ q.hi \in [Cols -> Int]
  BY <1>1, BoxOf
<1>3. ASSUME NEW x \in Points(q) PROVE x \in Points(P)
  <2>1. /\ x \in [Cols -> -Reach..Reach] /\ \A j \in Cols : q.lo[j] <= x[j] /\ x[j] <= q.hi[j]
        /\ \A i \in q.rows : Compare(q.kind[i], Dot(q.a[i], x), q.b[i])
    BY <1>2, PointIs
  <2>2. \A j \in Cols : P.lo[j] <= q.lo[j] /\ q.hi[j] <= P.hi[j]
    BY <1>1 DEF Tightens
  <2>3. ASSUME NEW j \in Cols PROVE P.lo[j] <= x[j] /\ x[j] <= P.hi[j]
    <3>1. x[j] \in Int /\ P.lo[j] \in Int /\ P.hi[j] \in Int /\ q.lo[j] \in Int /\ q.hi[j] \in Int
      BY <1>2, ShapeIs, PointsAreInteger
    <3> QED
      BY <2>1, <2>2, <3>1
  <2> QED
    BY <1>2, <2>1, <2>3, PointIs
<1>4. Points(P) \subseteq Points(q)
  BY <1>1 DEF Tightens
<1>5. Points(q) = Points(P)
  BY <1>3, <1>4
<1>6. Optimum(q) = Optimum(P)
  <2>1. Finite(q)
    BY DEF Sharpened
  <2>2. \A x \in Points(P) : \E y \in Points(q) : Dot(P.c, y) = Dot(P.c, x)
    BY <1>5
  <2> QED
    BY <1>2, <1>5, <2>1, <2>2, OptimumIs
<1> QED
  BY <1>2, <1>5, <1>6 DEF Sharpened

\* The program that leaves the tightening of bounds, with ordering rows or
\* without.
LEMMA KeptAtFirst ==
  ASSUME NEW P, Shaped(P), Finite(P), NEW q, Sharpened(P, q), NEW p \in {q, OrderRows(q)}
  PROVE  Kept(P, p, Len(p.a)) /\ CutsAfter(p, Len(p.a))
<1>1. /\ Shaped(q) /\ Finite(q) /\ q.ints = P.ints /\ q.c = P.c /\ q.off = P.off
      /\ q.a = P.a /\ q.b = P.b /\ q.kind = P.kind /\ q.rows = P.rows
      /\ Points(q) = Points(P) /\ Optimum(q) = Optimum(P)
  BY SharpenedIs
<1> DEFINE n == Len(p.a)
<1>2. /\ Shaped(p) /\ p.ints = q.ints /\ p.c = q.c /\ p.off = q.off /\ p.lo = q.lo /\ p.hi = q.hi
      /\ n \in Nat /\ Len(q.a) <= n /\ Len(q.a) \in Nat
      /\ \A i \in q.rows : p.a[i] = q.a[i] /\ p.b[i] = q.b[i] /\ p.kind[i] = q.kind[i]
      /\ \A x \in Points(q) : \E y \in Points(p) : Dot(q.c, y) = Dot(q.c, x)
  <2>1. Len(q.a) \in Nat
    BY <1>1 DEF Shaped
  <2>2. CASE p = q
    BY <1>1, <2>1, <2>2
  <2>3. CASE p = OrderRows(q)
    <3>1. LET r == OrderRows(q)
          IN  /\ Shaped(r) /\ r.ints = q.ints /\ r.c = q.c /\ r.off = q.off /\ r.lo = q.lo /\ r.hi = q.hi
              /\ Len(r.a) \in Nat /\ Len(q.a) <= Len(r.a)
              /\ \A i \in q.rows : r.a[i] = q.a[i] /\ r.b[i] = q.b[i] /\ r.kind[i] = q.kind[i]
              /\ \A x \in Points(q) : \E y \in Points(r) : Dot(q.c, y) = Dot(q.c, x)
      BY <1>1, OrderRowsIs
    <3> QED
      BY <2>1, <2>3, <3>1
  <2> QED
    BY <2>2, <2>3
<1>3. q.rows = 1..Len(q.a) /\ p.rows = 1..n /\ q.rows \subseteq p.rows
  <2>1. q.rows = 1..Len(q.a) /\ p.rows = 1..n
    BY <1>1, <1>2 DEF Shaped
  <2> QED
    BY <1>2, <2>1
<1> HIDE DEF n
<1>4. Finite(p)
  BY <1>1, <1>2 DEF Finite
<1>5. ASSUME NEW x PROVE x \in Points(p) <=>
        x \in Points(q) /\ \A i \in p.rows : i \notin q.rows => Compare(p.kind[i], Dot(p.a[i], x), p.b[i])
  <2>1. x \in Points(q) <=> /\ x \in [Cols -> -Reach..Reach]
                            /\ \A j \in Cols : q.lo[j] <= x[j] /\ x[j] <= q.hi[j]
                            /\ \A i \in q.rows : Compare(q.kind[i], Dot(q.a[i], x), q.b[i])
    BY <1>1, PointIs
  <2>2. x \in Points(p) <=> /\ x \in [Cols -> -Reach..Reach]
                            /\ \A j \in Cols : q.lo[j] <= x[j] /\ x[j] <= q.hi[j]
                            /\ \A i \in p.rows : Compare(p.kind[i], Dot(p.a[i], x), p.b[i])
    BY <1>2, PointIs
  <2>3. \A i \in q.rows : Compare(p.kind[i], Dot(p.a[i], x), p.b[i])
                            <=> Compare(q.kind[i], Dot(q.a[i], x), q.b[i])
    BY <1>2
  <2> QED
    BY <1>3, <2>1, <2>2, <2>3
<1>6. Optimum(p) = Optimum(q)
  <2>1. Points(p) \subseteq Points(q)
    BY <1>5
  <2> QED
    BY <1>1, <1>2, <1>4, <2>1, OptimumIs
<1>7. ASSUME NEW x \in Admitted(P, p, n) PROVE x \in Points(p)
  <2>1. /\ x \in Points(q)
        /\ \A i \in (Len(q.a) + 1)..n : Compare(p.kind[i], Dot(p.a[i], x), p.b[i])
    BY <1>1 DEF Admitted
  <2>2. \A i \in p.rows : i \notin q.rows => i \in (Len(q.a) + 1)..n
    BY <1>2, <1>3
  <2> QED
    BY <1>5, <2>1, <2>2
<1>8. PlainPoints(p, n) = Points(p)
  BY <1>2, AllRows DEF n
<1>9. CutsAfter(p, n)
  BY <1>2, <1>3 DEF CutsAfter
<1>10. n <= Len(p.a) /\ Len(p.a) = n
  BY <1>2 DEF n
<1>11. Kept(P, p, n)
  BY <1>1, <1>2, <1>4, <1>6, <1>7, <1>8, <1>10 DEF Kept
<1> QED
  BY <1>9, <1>10, <1>11

\* Other rows after row k keep what the first k say, if they keep the points.
LEMMA StillKept ==
  ASSUME NEW P, Shaped(P), NEW q, NEW k, Kept(P, q, k), NEW p, Shaped(p), Alike(q, p),
         k <= Len(p.a), SameRows(q, p, k), Points(p) = Points(q)
  PROVE  Kept(P, p, k)
<1>1. /\ Shaped(q) /\ Finite(q) /\ k \in Nat /\ q.ints = P.ints /\ q.c = P.c /\ q.off = P.off
      /\ Admitted(P, q, k) \subseteq Points(q) /\ PlainPoints(q, k) = Points(q) /\ Optimum(q) = Optimum(P)
  BY DEF Kept
<1>2. Finite(p) /\ p.ints = q.ints /\ p.c = q.c /\ p.off = q.off /\ p.lo = q.lo /\ p.hi = q.hi
  BY <1>1 DEF Finite, Alike
<1>3. PlainPoints(p, k) = Points(p)
  BY <1>1, <1>2, SamePoints
<1>4. ASSUME NEW x \in Admitted(P, p, k) PROVE x \in Admitted(P, q, k)
  <2>1. Len(P.a) \in Nat
    BY DEF Shaped
  <2>2. \A i \in (Len(P.a) + 1)..k : i \in 1..k
    BY <1>1, <2>1
  <2> QED
    BY <2>2 DEF Admitted, SameRows
<1>5. Optimum(p) = Optimum(q)
  <2>1. \A x \in Points(q) : \E y \in Points(p) : Dot(q.c, y) = Dot(q.c, x)
    OBVIOUS
  <2> QED
    BY <1>1, <1>2, <2>1, OptimumIs
<1> QED
  BY <1>1, <1>2, <1>3, <1>4, <1>5 DEF Kept

\* So do cuts.
LEMMA KeptByCuts ==
  ASSUME NEW P, Shaped(P), NEW q, NEW k, Kept(P, q, k), CutsAfter(q, k), NEW cuts \in Seq(ValidCuts(q))
  PROVE  Kept(P, WithCuts(q, cuts), k) /\ CutsAfter(WithCuts(q, cuts), k)
<1> DEFINE p == WithCuts(q, cuts)
<1>1. Shaped(q) /\ k \in Nat /\ k <= Len(q.a)
  BY DEF Kept
<1>2. /\ Shaped(p) /\ p.ints = q.ints /\ p.c = q.c /\ p.off = q.off /\ p.lo = q.lo /\ p.hi = q.hi
      /\ Len(p.a) = Len(q.a) + Len(cuts) /\ Points(p) = Points(q)
  BY <1>1, WithCutsIs
<1>3. \A i \in q.rows : p.a[i] = q.a[i] /\ p.b[i] = q.b[i] /\ p.kind[i] = q.kind[i]
  BY <1>1, WithCutsIs
<1>4. \A i \in p.rows : i \notin q.rows => p.kind[i] = "Ge"
  BY <1>1, WithCutsIs
<1>5. Len(q.a) \in Nat /\ Len(cuts) \in Nat /\ q.rows = 1..Len(q.a)
  BY <1>1 DEF Shaped
<1> HIDE DEF p
<1>6. SameRows(q, p, k) /\ Alike(q, p) /\ k <= Len(p.a)
  <2>1. \A i \in 1..k : i \in q.rows
    BY <1>1, <1>5
  <2> QED
    BY <1>1, <1>2, <1>3, <1>5, <2>1 DEF SameRows, Alike
<1>7. Kept(P, p, k)
  BY <1>2, <1>6, StillKept
<1>8. CutsAfter(p, k)
  BY <1>3, <1>4 DEF CutsAfter
<1> QED
  BY <1>7, <1>8 DEF p

\* And so does handing over, with the cuts or without.
LEMMA KeptWithout ==
  ASSUME NEW P, Shaped(P), NEW q, NEW k, Kept(P, q, k)
  PROVE  Kept(P, FirstRows(q, k), k)
<1> DEFINE p == FirstRows(q, k)
<1>1. Shaped(q) /\ k \in Nat /\ k <= Len(q.a) /\ PlainPoints(q, k) = Points(q)
  BY DEF Kept
<1>2. k \in 0..Len(q.a)
  BY <1>1 DEF Shaped
<1>3. Shaped(p) /\ Alike(q, p) /\ Len(p.a) = k /\ SameRows(q, p, k)
  BY <1>1, <1>2, FirstRowsIs
<1> HIDE DEF p
<1>4. Points(p) = Points(q)
  <2>1. PlainPoints(p, k) = Points(p)
    BY <1>3, AllRows
  <2>2. PlainPoints(p, k) = PlainPoints(q, k)
    BY <1>3, SamePoints DEF Alike
  <2> QED
    BY <1>1, <2>1, <2>2
<1>5. k <= Len(p.a)
  BY <1>1, <1>3
<1>6. Kept(P, p, k)
  BY <1>3, <1>4, <1>5, StillKept
<1> QED
  BY <1>6 DEF p

\* With them as "<=" rows.
LEMMA KeptAsLe ==
  ASSUME NEW P, Shaped(P), NEW q, Kept(P, q, root.plain), CutsAfter(q, root.plain)
  PROVE  Kept(P, CutsAsLe(q), root.plain)
<1> DEFINE p == CutsAsLe(q)
<1>1. Shaped(q) /\ root.plain \in Nat /\ root.plain <= Len(q.a)
  BY DEF Kept
<1>2. \A i \in q.rows : i > root.plain => q.kind[i] = "Ge"
  BY DEF CutsAfter
<1>3. /\ Shaped(p) /\ Alike(q, p) /\ Len(p.a) = Len(q.a) /\ Points(p) = Points(q)
      /\ SameRows(q, p, root.plain)
  BY <1>1, <1>2, CutsAsLeIs
<1> HIDE DEF p
<1>4. Kept(P, p, root.plain)
  BY <1>1, <1>3, StillKept
<1> QED
  BY <1>4 DEF p

-----------------------------------------------------------------------------
(* The invariant of the root *)

LinearPhases ==
  {"boundary", "sweep", "revert", "built", "infeasible", "unbounded", "lifted", "answered"}
Tightening == {"propagate", "repropagate", "probe", "order"}
Cutting == {"cut", "structural", "handover"}

\* What root and an active node are: records with these fields.
RootFields == {"candidates", "moved", "round", "before", "plain"}
IsRoot(r) == r = [f \in RootFields |-> r[f]]

NodeFields ==
  {"active", "home", "lp", "pool", "round", "max", "iters", "overhead", "over", "base", "reached"}
IsSeparation(n) == n = [f \in NodeFields |-> n[f]] /\ n.active = TRUE

\* A node's program has every point of its box.
Within(n) == IsSeparation(n) /\ Shaped(n.lp) /\ Points(n.home) \subseteq Points(n.lp)

MilpInv ==
  /\ phase \in Tightening \cup Cutting \cup {"tree", "answered"}
  /\ IsRoot(root)
  /\ phase \in Tightening => root.plain = 0 /\ Sharpened(prob, lp)
  /\ phase = "probe" => root.candidates \in SUBSET Binaries(lp)
  /\ phase \in Cutting \cup {"tree"} => Kept(prob, lp, root.plain)
  /\ phase \in Cutting => CutsAfter(lp, root.plain)
  /\ node.active => phase = "tree" /\ Within(node)
  /\ AnswersTrue

RootInv ==
  /\ prob \in Problems /\ goal = Optimum(prob)
  /\ prob.ints = {} => phase \in LinearPhases /\ ~node.active
  /\ prob.ints # {} => MilpInv

\* Updates of root.
LEMMA RootIs ==
  ASSUME IsRoot(root), NEW u, NEW w
  PROVE  /\ IsRoot([root EXCEPT !.candidates = u])
         /\ IsRoot([root EXCEPT !.moved = u, !.round = w]) /\ IsRoot([root EXCEPT !.round = u, !.before = w])
         /\ [root EXCEPT !.candidates = u].plain = root.plain
         /\ [root EXCEPT !.candidates = u].candidates = u
         /\ [root EXCEPT !.moved = u, !.round = w].plain = root.plain
         /\ [root EXCEPT !.round = u, !.before = w].plain = root.plain
  BY DEF IsRoot, RootFields

\* The root at the start, and with a count of rows.
LEMMA NoRootIs ==
  ASSUME NEW u
  PROVE  /\ IsRoot(NoRoot) /\ NoRoot.plain = 0
         /\ IsRoot([NoRoot EXCEPT !.plain = u]) /\ [NoRoot EXCEPT !.plain = u].plain = u
<1>1. IsRoot(NoRoot)
  BY DEF NoRoot, IsRoot, RootFields
<1>2. IsRoot([NoRoot EXCEPT !.plain = u])
  BY <1>1 DEF IsRoot, RootFields
<1>3. NoRoot.plain = 0 /\ [NoRoot EXCEPT !.plain = u].plain = u
  BY DEF NoRoot
<1> QED
  BY <1>1, <1>2, <1>3

\* Bounds that cross leave no point of the program given.
LEMMA NoneLeft ==
  ASSUME NEW P, Shaped(P), NEW q, Tightens(P, q), IsEmptyBox(q)
  PROVE  Optimum(P) = [kind |-> "infeasible", value |-> 0]
<1>1. q \in BoxesOf(P) /\ Points(P) \subseteq Points(q)
  BY DEF Tightens
<1>2. Points(q) = {}
  BY <1>1, BoxOf, NoPointInEmptyBox
<1> QED
  BY <1>1, <1>2 DEF Optimum

\* The program given, and the one tightened so far.
LEMMA InTightening ==
  ASSUME RootInv, prob.ints # {}, phase \in Tightening
  PROVE  /\ Shaped(prob) /\ Finite(prob) /\ Sharpened(prob, lp) /\ Tightens(prob, lp) /\ Shaped(lp) /\ Finite(lp)
         /\ root.plain = 0 /\ IsRoot(root) /\ ~node.active
<1>1. Shaped(prob) /\ Finite(prob)
  BY MixedProgramIs DEF RootInv
<1>2. Sharpened(prob, lp) /\ root.plain = 0 /\ IsRoot(root)
  BY DEF RootInv, MilpInv
<1>3. ~node.active
  BY DEF RootInv, MilpInv, Tightening
<1> QED
  BY <1>1, <1>2, <1>3, SharpenedIs DEF Sharpened

\* The start.
LEMMA ModelStart == ModelInit => RootInv
<1> SUFFICES ASSUME ModelInit PROVE RootInv
  OBVIOUS
<1>1. prob \in Problems /\ goal = Optimum(prob) /\ lp = prob /\ root = NoRoot /\ node = NoNode /\ answer = NoAnswer
  BY DEF ModelInit, Given, MilpInit
<1>2. ~node.active
  BY <1>1 DEF NoNode
<1>3. CASE prob.ints = {}
  <2>1. phase = "boundary"
    BY <1>3 DEF ModelInit
  <2> QED
    BY <1>1, <1>2, <1>3, <2>1 DEF RootInv, LinearPhases
<1>4. CASE prob.ints # {}
  <2>1. phase = "propagate"
    BY <1>4 DEF ModelInit
  <2>2. Shaped(prob) /\ Finite(prob)
    BY <1>1, <1>4, MixedProgramIs
  <2>3. Sharpened(prob, lp)
    BY <1>1, <2>2, TightensItself DEF Sharpened
  <2>4. IsRoot(root) /\ root.plain = 0
    BY <1>1, NoRootIs
  <2>5. AnswersTrue
    BY <1>1 DEF AnswersTrue, NoAnswer
  <2>6. MilpInv
    BY <1>2, <2>1, <2>3, <2>4, <2>5 DEF MilpInv, Tightening, Cutting
  <2> QED
    BY <1>1, <1>4, <2>6 DEF RootInv
<1> QED
  BY <1>3, <1>4

\* An answer of infeasible where bounds cross.
LEMMA InfeasibleKeeps ==
  ASSUME RootInv, prob.ints # {}, phase \in Tightening, NEW q, Tightens(prob, q), IsEmptyBox(q),
         ProvenInfeasible
  PROVE  RootInv'
<1>1. /\ prob' = prob /\ goal' = goal /\ root' = root /\ node' = node /\ phase' = "answered"
      /\ answer' = [status |-> "infeasible", value |-> 0]
  BY DEF ProvenInfeasible, Answer, milpVars
<1>2. Shaped(prob) /\ IsRoot(root) /\ ~node.active
  BY InTightening
<1>3. goal.kind = "infeasible"
  BY <1>2, NoneLeft DEF RootInv
<1>4. AnswersTrue'
  BY <1>1, <1>3 DEF AnswersTrue
<1>5. MilpInv'
  BY <1>1, <1>2, <1>4 DEF MilpInv, Tightening, Cutting
<1> QED
  BY <1>1, <1>5 DEF RootInv

\* Steps that tighten bounds, or leave them.
LEMMA TighteningKeeps ==
  ASSUME RootInv, prob.ints # {}, phase \in Tightening, prob' = prob, goal' = goal, answer' = answer,
         node' = node, phase' \in Tightening, IsRoot(root'), root'.plain = 0, Sharpened(prob, lp'),
         phase' = "probe" => root'.candidates \in SUBSET Binaries(lp')
  PROVE  RootInv'
<1>1. ~node.active
  BY InTightening
<1>2. AnswersTrue'
  BY DEF AnswersTrue, RootInv, MilpInv
<1>3. MilpInv'
  BY <1>1, <1>2 DEF MilpInv, Tightening, Cutting
<1> QED
  BY <1>3 DEF RootInv

-----------------------------------------------------------------------------
(* The steps at the root *)

\* A mixed-integer program is in phases of its own.
LEMMA IsMixed == ASSUME RootInv, phase \notin LinearPhases \/ node.active PROVE prob.ints # {}
  BY DEF RootInv

\* A pass of propagation.
LEMMA PropagateAtRootKeeps == ASSUME RootInv, PropagateAtRoot PROVE RootInv'
<1> DEFINE q == PropagationPass(lp)
<1>1. phase \in {"propagate", "repropagate"} /\ phase \in Tightening
  BY DEF PropagateAtRoot, Tightening
<1>2. prob.ints # {}
  BY <1>1, IsMixed DEF LinearPhases
<1>3. Shaped(prob) /\ Finite(prob) /\ Tightens(prob, lp) /\ Shaped(lp) /\ root.plain = 0 /\ IsRoot(root)
  BY <1>1, <1>2, InTightening
<1>4. Tightens(prob, q)
  BY <1>3, PassTightens, TightensTwice
<1> HIDE DEF q
<1>5. CASE IsEmptyBox(q)
  <2>1. ProvenInfeasible
    BY <1>5 DEF PropagateAtRoot, q
  <2> QED
    BY <1>1, <1>2, <1>4, <1>5, <2>1, InfeasibleKeeps
<1>6. CASE ~IsEmptyBox(q)
  <2>1. lp' = q /\ UNCHANGED <<prob, goal, phase, answer, milpVars>>
    BY <1>6 DEF PropagateAtRoot, q
  <2>2. Sharpened(prob, q)
    BY <1>3, <1>4, <1>6, StaysFinite
  <2>3. prob' = prob /\ goal' = goal /\ answer' = answer /\ node' = node /\ root' = root /\ phase' = phase
    BY <2>1 DEF milpVars
  <2> QED
    BY <1>1, <1>2, <1>3, <2>1, <2>2, <2>3, TighteningKeeps
<1> QED
  BY <1>5, <1>6

\* The end of a fixpoint, or of the probing.
LEMMA EndsKeep ==
  ASSUME RootInv, EndPropagation \/ EndRepropagation \/ EndProbing
  PROVE  RootInv'
<1>1. phase \in {"propagate", "repropagate", "probe"} /\ phase \in Tightening
  BY DEF EndPropagation, EndRepropagation, EndProbing, Tightening
<1>2. prob.ints # {}
  BY <1>1, IsMixed DEF LinearPhases
<1>3. Sharpened(prob, lp) /\ root.plain = 0 /\ IsRoot(root)
  BY <1>1, <1>2, InTightening
<1>4. prob' = prob /\ goal' = goal /\ answer' = answer /\ node' = node /\ lp' = lp
      /\ phase' \in {"order", "probe"} /\ phase' \in Tightening
  BY DEF EndPropagation, EndRepropagation, EndProbing, Enter, milpVars, Tightening
<1>5. IsRoot(root') /\ root'.plain = 0 /\ (phase' = "probe" => root'.candidates \in SUBSET Binaries(lp))
  <2>1. CASE EndPropagation
    <3>1. root' = [root EXCEPT !.candidates = Binaries(lp)]
      BY <2>1, SMTT(30) DEF EndPropagation
    <3> QED
      BY <1>3, <3>1, RootIs
  <2>2. CASE EndRepropagation
    <3>1. root' = [root EXCEPT !.candidates = root.moved \cap Binaries(lp)]
      BY <2>2 DEF EndRepropagation
    <3> QED
      BY <1>3, <3>1, RootIs
  <2>3. CASE EndProbing
    BY <1>3, <2>3 DEF EndProbing, Enter, milpVars
  <2> QED
    BY <2>1, <2>2, <2>3, SMTT(30)
<1> QED
  BY <1>1, <1>2, <1>3, <1>4, <1>5, TighteningKeeps

\* A round of probing.
LEMMA ProbeKeeps == ASSUME RootInv, Probe PROVE RootInv'
<1> DEFINE new == Probed(lp, root.candidates)
           q == new.lp
<1>1. phase = "probe" /\ phase \in Tightening
  BY DEF Probe, Tightening
<1>2. prob.ints # {}
  BY <1>1, IsMixed DEF LinearPhases
<1>3. Shaped(prob) /\ Finite(prob) /\ Tightens(prob, lp) /\ Shaped(lp) /\ root.plain = 0 /\ IsRoot(root)
  BY <1>1, <1>2, InTightening
<1>4. root.candidates \in SUBSET Binaries(lp)
  BY <1>1, <1>2 DEF RootInv, MilpInv
<1>5. root.candidates \in SUBSET Cols /\ \A j \in root.candidates : lp.lo[j] >= 0 /\ lp.hi[j] <= 1
  <2>1. \A j \in root.candidates : j \in lp.ints /\ lp.lo[j] = 0 /\ lp.hi[j] = 1
    BY <1>4 DEF Binaries, IsBinary
  <2>2. lp.ints \subseteq Cols
    BY <1>3, ShapeIs
  <2> QED
    BY <2>1, <2>2
<1>6. Tightens(lp, q)
  BY <1>3, <1>5, ProbingTightens
<1> HIDE DEF q, new
<1>7. Tightens(prob, q)
  BY <1>3, <1>6, TightensTwice
<1>8. CASE IsEmptyBox(q)
  <2>1. ProvenInfeasible
    BY <1>8 DEF Probe, q, new
  <2> QED
    BY <1>1, <1>2, <1>7, <1>8, <2>1, InfeasibleKeeps
<1>9. CASE ~IsEmptyBox(q)
  <2>1. /\ lp' = q /\ UNCHANGED <<prob, goal, answer, node>>
        /\ phase' \in {"order", "repropagate"}
        /\ root' = [root EXCEPT !.moved = new.changed, !.round = root.round + 1]
    BY <1>9 DEF Probe, Enter, q, new
  <2>2. Sharpened(prob, q)
    BY <1>3, <1>7, <1>9, StaysFinite, SMTT(30)
  <2>3. IsRoot(root') /\ root'.plain = 0
    BY <1>3, <2>1, RootIs
  <2>4. phase' \in Tightening /\ phase' # "probe"
    BY <2>1 DEF Tightening
  <2> QED
    BY <1>1, <1>2, <2>1, <2>2, <2>3, <2>4, TighteningKeeps
<1> QED
  BY <1>8, <1>9

\* Steps once the bounds are tightened.
LEMMA CuttingKeeps ==
  ASSUME RootInv, prob.ints # {}, ~node.active, prob' = prob, goal' = goal, answer' = answer,
         node' = node, phase' \in Cutting \cup {"tree"}, IsRoot(root'), Kept(prob, lp', root'.plain),
         phase' \in Cutting => CutsAfter(lp', root'.plain)
  PROVE  RootInv'
<1>1. AnswersTrue'
  BY DEF AnswersTrue, RootInv, MilpInv
<1>2. phase' \notin Tightening
  BY DEF Tightening, Cutting
<1>3. MilpInv'
  BY <1>1, <1>2 DEF MilpInv, Tightening, Cutting
<1> QED
  BY <1>3 DEF RootInv

\* The program and its cuts.
LEMMA InCutting ==
  ASSUME RootInv, prob.ints # {}, phase \in Cutting
  PROVE  /\ Shaped(prob) /\ Kept(prob, lp, root.plain) /\ Shaped(lp) /\ CutsAfter(lp, root.plain)
         /\ IsRoot(root) /\ ~node.active
<1>1. Shaped(prob)
  BY MixedProgramIs DEF RootInv
<1>2. Kept(prob, lp, root.plain) /\ CutsAfter(lp, root.plain) /\ IsRoot(root) /\ ~node.active
  BY DEF RootInv, MilpInv, Cutting
<1> QED
  BY <1>1, <1>2 DEF Kept

\* Ordering rows, or none.
LEMMA OrderColumnsKeeps == ASSUME RootInv, OrderColumns PROVE RootInv'
<1>1. phase = "order" /\ phase \in Tightening
  BY DEF OrderColumns, Tightening
<1>2. prob.ints # {}
  BY <1>1, IsMixed DEF LinearPhases
<1>3. Shaped(prob) /\ Finite(prob) /\ Sharpened(prob, lp) /\ ~node.active
  BY <1>1, <1>2, InTightening
<1>4. PICK q \in {lp, OrderRows(lp)} : lp' = q /\ root' = [NoRoot EXCEPT !.plain = Len(q.a)]
  BY DEF OrderColumns
<1>5. Kept(prob, q, Len(q.a)) /\ CutsAfter(q, Len(q.a))
  BY <1>3, KeptAtFirst
<1>6. IsRoot(root') /\ root'.plain = Len(q.a)
  BY <1>4, NoRootIs
<1>7. UNCHANGED <<prob, goal, answer, node>> /\ phase' \in Cutting \cup {"tree"}
  BY DEF OrderColumns, AtRoot, Cutting
<1> QED
  BY <1>2, <1>3, <1>4, <1>5, <1>6, <1>7, CuttingKeeps

\* A round of Gomory cuts.
LEMMA CutRoundKeeps == ASSUME RootInv, CutRound PROVE RootInv'
<1>1. phase = "cut" /\ phase \in Cutting
  BY DEF CutRound, Cutting
<1>2. prob.ints # {}
  BY <1>1, IsMixed DEF LinearPhases
<1>3. /\ Shaped(prob) /\ Kept(prob, lp, root.plain) /\ Shaped(lp) /\ CutsAfter(lp, root.plain)
      /\ IsRoot(root) /\ ~node.active
  BY <1>1, <1>2, InCutting
<1>4. PICK v \in OptimalBases(lp) :
        /\ lp' = WithCuts(lp, GomoryCuts(lp, v))
        /\ root' = [root EXCEPT !.round = root.round + 1, !.before = ObjectiveOf(lp, v)]
  BY DEF CutRound
<1>5. GomoryCuts(lp, v) \in Seq(ValidCuts(lp))
  BY <1>3, OptimalBasisIs, GomoryCutsAre
<1>6. Kept(prob, lp', root.plain) /\ CutsAfter(lp', root.plain)
  BY <1>3, <1>4, <1>5, KeptByCuts
<1>7. IsRoot(root') /\ root'.plain = root.plain
  BY <1>3, <1>4, RootIs
<1>8. UNCHANGED <<prob, goal, answer, node, phase>>
  BY DEF CutRound, AtRoot
<1> QED
  BY <1>1, <1>2, <1>3, <1>6, <1>7, <1>8, CuttingKeeps

\* The end of the rounds.
LEMMA EndCutRoundsKeeps == ASSUME RootInv, EndCutRounds PROVE RootInv'
<1>1. phase = "cut" /\ phase \in Cutting
  BY DEF EndCutRounds, Cutting
<1>2. prob.ints # {}
  BY <1>1, IsMixed DEF LinearPhases
<1>3. Kept(prob, lp, root.plain) /\ CutsAfter(lp, root.plain) /\ IsRoot(root) /\ ~node.active
  BY <1>1, <1>2, InCutting
<1>4. UNCHANGED <<prob, goal, answer, node, lp, root>> /\ phase' \in Cutting
  BY DEF EndCutRounds, AtRoot, Cutting
<1> QED
  BY <1>2, <1>3, <1>4, CuttingKeeps

\* Structural cuts.
LEMMA StructuralKeeps == ASSUME RootInv, Structural PROVE RootInv'
<1>1. phase = "structural" /\ phase \in Cutting
  BY DEF Structural, Cutting
<1>2. prob.ints # {}
  BY <1>1, IsMixed DEF LinearPhases
<1>3. /\ Shaped(prob) /\ Kept(prob, lp, root.plain) /\ Shaped(lp) /\ CutsAfter(lp, root.plain)
      /\ IsRoot(root) /\ ~node.active
  BY <1>1, <1>2, InCutting
<1>4. Kept(prob, lp', root.plain) /\ CutsAfter(lp', root.plain)
  <2>1. CASE lp' = lp
    BY <1>3, <2>1
  <2>2. CASE lp' # lp
    <3>1. PICK v \in OptimalBases(lp) : lp' = WithCuts(lp, SetToSeq(StructuralCuts(lp, v)))
      BY <2>2 DEF Structural
    <3>2. SetToSeq(StructuralCuts(lp, v)) \in Seq(ValidCuts(lp))
      BY <1>3, OptimalBasisIs, StructuralCutsAre
    <3> QED
      BY <1>3, <3>1, <3>2, KeptByCuts
  <2> QED
    BY <2>1, <2>2
<1>5. UNCHANGED <<prob, goal, answer, node>> /\ phase' \in Cutting
      /\ root' = [NoRoot EXCEPT !.plain = root.plain]
  BY DEF Structural, AtRoot, Cutting
<1>6. IsRoot(root') /\ root'.plain = root.plain
  BY <1>5, NoRootIs
<1> QED
  BY <1>2, <1>3, <1>4, <1>5, <1>6, CuttingKeeps

\* The program handed over.
LEMMA HandOverKeeps == ASSUME RootInv, HandOver PROVE RootInv'
<1>1. phase = "handover" /\ phase \in Cutting
  BY DEF HandOver, Cutting
<1>2. prob.ints # {}
  BY <1>1, IsMixed DEF LinearPhases
<1>3. /\ Shaped(prob) /\ Kept(prob, lp, root.plain) /\ CutsAfter(lp, root.plain)
      /\ IsRoot(root) /\ ~node.active
  BY <1>1, <1>2, InCutting
<1>4. Kept(prob, lp', root.plain)
  <2>1. lp' = FirstRows(lp, root.plain) \/ lp' = CutsAsLe(lp)
    BY DEF HandOver
  <2> QED
    BY <1>3, <2>1, KeptWithout, KeptAsLe
<1>5. UNCHANGED <<prob, goal, answer, node, root>> /\ phase' = "tree"
  BY DEF HandOver, AtRoot
<1>6. phase' \notin Cutting
  BY <1>5 DEF Cutting
<1> QED
  BY <1>2, <1>3, <1>4, <1>5, <1>6, CuttingKeeps

-----------------------------------------------------------------------------
(* The steps in the tree *)

\* Updates of an active node.
LEMMA NodeIs ==
  ASSUME NEW n, IsSeparation(n), NEW u, NEW w
  PROVE  /\ IsSeparation([n EXCEPT !.over = u]) /\ IsSeparation([n EXCEPT !.overhead = u])
         /\ IsSeparation([n EXCEPT !.iters = u, !.overhead = w])
         /\ \A f \in NodeFields :
              /\ f # "over" => [n EXCEPT !.over = u][f] = n[f]
              /\ f # "overhead" => [n EXCEPT !.overhead = u][f] = n[f]
              /\ f \notin {"iters", "overhead"} => [n EXCEPT !.iters = u, !.overhead = w][f] = n[f]
         /\ [n EXCEPT !.over = u].over = u /\ [n EXCEPT !.overhead = u].overhead = u
         /\ [n EXCEPT !.iters = u, !.overhead = w].iters = u
         /\ [n EXCEPT !.iters = u, !.overhead = w].overhead = w
  BY DEF IsSeparation, NodeFields

\* An active node with the cuts of a round; old is the node before the solve.
Grown(n, old, candidate, cuts, f) ==
  [n EXCEPT !.lp = candidate, !.pool = @ \cup ToSet(cuts), !.round = @ + 1, !.reached = f,
            !.over = ~IsBetterBound(f, old.reached)]

\* Its fields.
LEMMA GrownNodeIs ==
  ASSUME NEW n, IsSeparation(n), NEW old, NEW candidate, NEW cuts, NEW f
  PROVE  LET g == Grown(n, old, candidate, cuts, f)
         IN  /\ IsSeparation(g) /\ g.lp = candidate /\ g.round = n.round + 1
             /\ g.home = n.home /\ g.max = n.max /\ g.iters = n.iters /\ g.overhead = n.overhead
<1> DEFINE P == n.pool \cup ToSet(cuts)
           r == n.round + 1
           o == ~IsBetterBound(f, old.reached)
           g == [n EXCEPT !.lp = candidate, !.pool = P, !.round = r, !.reached = f, !.over = o]
<1>1. Grown(n, old, candidate, cuts, f) = g
  BY DEF Grown
<1> HIDE DEF P, r, o
<1>2. /\ IsSeparation(g) /\ g.lp = candidate /\ g.round = r
      /\ g.home = n.home /\ g.max = n.max /\ g.iters = n.iters /\ g.overhead = n.overhead
  BY DEF IsSeparation, NodeFields
<1> QED
  BY <1>1, <1>2 DEF r

\* What a validation does to a node.
Validated(n, m, cuts) ==
  LET candidate == WithCuts(n.lp, cuts)
  IN  \/ /\ m.lp = n.lp /\ m.round = n.round
         /\ m.iters = n.iters /\ m.overhead = n.overhead
      \/ /\ ~(Remaining(n) < Useful(candidate))
         /\ \/ m.lp = n.lp /\ m.round = n.round
            \/ m.lp = candidate /\ m.round = n.round + 1
         /\ m.iters \in {n.iters + 0, n.iters + Remaining(n)}
         /\ m.overhead = n.overhead + Surcharge(candidate, 3)

\* And it does nothing else.
LEMMA ValidateIs ==
  ASSUME NEW n, IsSeparation(n), NEW cuts, Validate(n, cuts)
  PROVE  IsSeparation(node') /\ node'.home = n.home /\ node'.max = n.max /\ Validated(n, node', cuts)
<1> DEFINE candidate == WithCuts(n.lp, cuts)
<1>1. CASE cuts = <<>> \/ Remaining(n) < Useful(candidate)
  <2>1. node' = [n EXCEPT !.over = TRUE]
    BY <1>1 DEF Validate
  <2>2. /\ IsSeparation(node') /\ node'.home = n.home /\ node'.max = n.max
        /\ node'.lp = n.lp /\ node'.round = n.round /\ node'.iters = n.iters /\ node'.overhead = n.overhead
    BY <2>1 DEF IsSeparation, NodeFields
  <2> QED
    BY <2>2 DEF Validated
<1>2. CASE ~(cuts = <<>> \/ Remaining(n) < Useful(candidate))
  <2>1. PICK used \in {0, Remaining(n)} :
          LET spent == [n EXCEPT !.iters = @ + used, !.overhead = @ + Surcharge(candidate, 3)]
          IN  \/ node' = [spent EXCEPT !.over = TRUE]
              \/ \E v \in OptimalBases(candidate) : node' = Grown(spent, n, candidate, cuts, ObjectiveOf(candidate, v))
    BY <1>2 DEF Validate, Grown
  <2>2. PICK i, o : i = n.iters + used /\ o = n.overhead + Surcharge(candidate, 3)
    OBVIOUS
  <2>3. PICK spent : spent = [n EXCEPT !.iters = i, !.overhead = o]
    OBVIOUS
  <2>4. \/ node' = [spent EXCEPT !.over = TRUE]
        \/ \E v \in OptimalBases(candidate) : node' = Grown(spent, n, candidate, cuts, ObjectiveOf(candidate, v))
    BY <2>1, <2>2, <2>3
  <2>5. /\ IsSeparation(spent) /\ spent.home = n.home /\ spent.max = n.max
        /\ spent.lp = n.lp /\ spent.round = n.round /\ spent.iters = i /\ spent.overhead = o
    BY <2>3 DEF IsSeparation, NodeFields
  <2>6. /\ IsSeparation(node') /\ node'.home = n.home /\ node'.max = n.max
        /\ node'.iters = i /\ node'.overhead = o
        /\ \/ node'.lp = n.lp /\ node'.round = n.round
           \/ node'.lp = candidate /\ node'.round = n.round + 1
    <3>1. CASE node' = [spent EXCEPT !.over = TRUE]
      <4>1. /\ IsSeparation(node') /\ node'.home = spent.home /\ node'.max = spent.max
            /\ node'.lp = spent.lp /\ node'.round = spent.round
            /\ node'.iters = spent.iters /\ node'.overhead = spent.overhead
        <5>1. IsSeparation(spent)
          BY <2>5
        <5> QED
          BY <3>1, <5>1 DEF IsSeparation, NodeFields
      <4> HIDE DEF candidate
      <4> QED
        BY <2>5, <4>1
    <3>2. ASSUME NEW v \in OptimalBases(candidate),
                 node' = Grown(spent, n, candidate, cuts, ObjectiveOf(candidate, v))
          PROVE  /\ IsSeparation(node') /\ node'.home = n.home /\ node'.max = n.max
                 /\ node'.iters = i /\ node'.overhead = o
                 /\ node'.lp = candidate /\ node'.round = n.round + 1
      <4> HIDE DEF candidate
      <4>1. PICK f : f = ObjectiveOf(candidate, v)
        OBVIOUS
      <4>2. LET g == Grown(spent, n, candidate, cuts, f)
            IN  /\ IsSeparation(g) /\ g.lp = candidate /\ g.round = spent.round + 1
                /\ g.home = spent.home /\ g.max = spent.max /\ g.iters = spent.iters
                /\ g.overhead = spent.overhead
        BY <2>5, GrownNodeIs
      <4> QED
        BY <2>5, <3>2, <4>1, <4>2
    <3> QED
      BY <2>4, <3>1, <3>2
  <2> QED
    BY <1>2, <2>2, <2>6 DEF Validated
<1> QED
  BY <1>1, <1>2

\* What a round does to a node: a solve, and a validation, if the solve found
\* a vertex.
SolveSurcharge(n) == Surcharge(n.lp, IF n.round = 0 THEN 1 ELSE 2)

Solved(n, m) ==
  /\ m.home = n.home /\ m.max = n.max /\ m.lp = n.lp /\ m.round = n.round
  /\ m.iters \in {n.iters + 0, n.iters + (Remaining(n) - SolveSurcharge(n))}
  /\ m.overhead = n.overhead + SolveSurcharge(n)

\* And it does nothing else.
LEMMA SeparationRoundIs ==
  ASSUME IsSeparation(node), Shaped(node.lp), SeparationRound
  PROVE  /\ IsSeparation(node') /\ node'.home = node.home /\ node'.max = node.max
         /\ \E m : /\ Solved(node, m)
                   /\ \/ /\ node'.lp = m.lp /\ node'.round = m.round
                         /\ node'.iters = m.iters /\ node'.overhead = m.overhead
                      \/ \E n : \E cuts \in Seq(ValidCuts(node.lp)) :
                           /\ n.lp = m.lp /\ n.round = m.round /\ n.max = m.max /\ n.iters = m.iters
                           /\ n.overhead = m.overhead + Surcharge(m.lp, 1)
                           /\ Len(cuts) <= Cardinality(node.lp.ints)
                           /\ Validated(n, node', cuts)
<1> DEFINE start == SolveSurcharge(node)
<1>1. PICK used \in {0, Remaining(node) - start} :
        LET n == [node EXCEPT !.iters = @ + used, !.overhead = @ + start]
        IN  \/ node' = [n EXCEPT !.over = TRUE]
            \/ \E v \in OptimalBases(n.lp) :
                 Validate([n EXCEPT !.overhead = @ + Surcharge(n.lp, 1)],
                          Separate(n.pool, GomoryCuts(n.lp, v)))
  BY DEF SeparationRound, SolveSurcharge
<1>2. PICK i, o : i = node.iters + used /\ o = node.overhead + start
  OBVIOUS
<1>3. PICK m : m = [node EXCEPT !.iters = i, !.overhead = o]
  OBVIOUS
<1>4. \/ node' = [m EXCEPT !.over = TRUE]
      \/ \E v \in OptimalBases(m.lp) :
           Validate([m EXCEPT !.overhead = @ + Surcharge(m.lp, 1)],
                    Separate(m.pool, GomoryCuts(m.lp, v)))
  BY <1>1, <1>2, <1>3
<1>5. /\ IsSeparation(m) /\ m.home = node.home /\ m.max = node.max
      /\ m.lp = node.lp /\ m.round = node.round /\ m.iters = i /\ m.overhead = o
  BY <1>3 DEF IsSeparation, NodeFields
<1>6. Solved(node, m)
  BY <1>2, <1>5 DEF Solved
<1>7. CASE node' = [m EXCEPT !.over = TRUE]
  <2>1. /\ IsSeparation(node') /\ node'.home = m.home /\ node'.max = m.max
        /\ node'.lp = m.lp /\ node'.round = m.round /\ node'.iters = m.iters /\ node'.overhead = m.overhead
    BY <1>5, <1>7 DEF IsSeparation, NodeFields
  <2> QED
    BY <1>5, <1>6, <2>1
<1>8. ASSUME NEW v \in OptimalBases(m.lp),
             Validate([m EXCEPT !.overhead = @ + Surcharge(m.lp, 1)],
                      Separate(m.pool, GomoryCuts(m.lp, v)))
      PROVE  /\ IsSeparation(node') /\ node'.home = node.home /\ node'.max = node.max
             /\ \E n : \E cuts \in Seq(ValidCuts(node.lp)) :
                  /\ n.lp = m.lp /\ n.round = m.round /\ n.max = m.max /\ n.iters = m.iters
                  /\ n.overhead = m.overhead + Surcharge(m.lp, 1)
                  /\ Len(cuts) <= Cardinality(node.lp.ints)
                  /\ Validated(n, node', cuts)
  <2>1. PICK w : w = m.overhead + Surcharge(m.lp, 1)
    OBVIOUS
  <2>2. PICK n : n = [m EXCEPT !.overhead = w]
    OBVIOUS
  <2>3. PICK cuts : cuts = Separate(m.pool, GomoryCuts(m.lp, v))
    OBVIOUS
  <2>4. Validate(n, cuts)
    BY <1>8, <2>1, <2>2, <2>3
  <2>5. /\ IsSeparation(n) /\ n.home = m.home /\ n.max = m.max
        /\ n.lp = m.lp /\ n.round = m.round /\ n.iters = m.iters /\ n.overhead = w
    BY <1>5, <2>2 DEF IsSeparation, NodeFields
  <2>6. IsSeparation(node') /\ node'.home = n.home /\ node'.max = n.max /\ Validated(n, node', cuts)
    BY <2>4, <2>5, ValidateIs
  <2>7. cuts \in Seq(ValidCuts(node.lp)) /\ Len(cuts) <= Cardinality(node.lp.ints)
    <3>1. PICK gomory : gomory = GomoryCuts(node.lp, v)
      OBVIOUS
    <3>2. gomory \in Seq(ValidCuts(node.lp)) /\ Cardinality(node.lp.ints) \in Nat
          /\ Len(gomory) <= Cardinality(node.lp.ints)
      BY <1>5, <1>8, <3>1, OptimalBasisIs, GomoryCutsAre
    <3>3. cuts = Separate(m.pool, gomory)
      BY <1>5, <2>3, <3>1
    <3>4. cuts \in Seq(ValidCuts(node.lp)) /\ Len(cuts) <= Len(gomory)
      BY <3>2, <3>3, SeparateIs
    <3>5. Len(cuts) \in Nat /\ Len(gomory) \in Nat
      BY <3>2, <3>4
    <3> QED
      BY <3>2, <3>4, <3>5
  <2> QED
    BY <1>5, <2>1, <2>5, <2>6, <2>7
<1> QED
  BY <1>4, <1>5, <1>6, <1>7, <1>8

\* The program the tree has, and an active node.
LEMMA InTheTree ==
  ASSUME RootInv, prob.ints # {}, phase = "tree"
  PROVE  /\ Shaped(prob) /\ Kept(prob, lp, root.plain) /\ Shaped(lp) /\ IsRoot(root)
         /\ node.active => Within(node)
<1>1. Shaped(prob)
  BY MixedProgramIs DEF RootInv
<1>2. Kept(prob, lp, root.plain) /\ IsRoot(root) /\ (node.active => Within(node))
  BY DEF RootInv, MilpInv
<1> QED
  BY <1>1, <1>2 DEF Kept

\* Steps of nodes.
LEMMA InTreeKeeps ==
  ASSUME RootInv, prob.ints # {}, phase = "tree", InTree, node'.active => Within(node')
  PROVE  RootInv'
<1>1. UNCHANGED <<prob, goal, lp, phase, answer, root>>
  BY DEF InTree
<1>2. Kept(prob, lp, root.plain) /\ IsRoot(root)
  BY InTheTree
<1>3. AnswersTrue'
  BY <1>1 DEF AnswersTrue, RootInv, MilpInv
<1>4. MilpInv'
  BY <1>1, <1>2, <1>3 DEF MilpInv, Tightening, Cutting
<1> QED
  BY <1>1, <1>4 DEF RootInv

\* The node whose separation starts.
LEMMA StartedNode ==
  ASSUME Shaped(lp), NEW home \in Branches(lp), NEW v, NEW max, NEW n,
         n = SeparationAt(home, Propagated(home, MaxPass), v, max)
  PROVE  /\ Within(n) /\ n.lp.ints = lp.ints /\ n.lp.a = lp.a
         /\ n.round = 0 /\ n.max = max /\ n.iters = 0 /\ n.overhead = 0
<1> DEFINE q == Propagated(home, MaxPass)
<1>1. Shaped(home) /\ home.ints = lp.ints /\ home.a = lp.a
  BY BranchIs, BoxOf
<1>2. Tightens(home, q)
  BY <1>1, LpPresolveAssumption, PassesTighten
<1> HIDE DEF q
<1>3. Shaped(q) /\ q.ints = home.ints /\ q.a = home.a /\ Points(home) \subseteq Points(q)
  <2>1. q \in BoxesOf(home) /\ Points(home) \subseteq Points(q)
    BY <1>2 DEF Tightens
  <2> QED
    BY <1>1, <2>1, BoxOf
<1>4. n = SeparationAt(home, q, v, max)
  BY DEF q
<1>5. PICK f : f = ObjectiveOf(q, v)
  OBVIOUS
<1>6. n = [active |-> TRUE, home |-> home, lp |-> q, pool |-> {}, round |-> 0, max |-> max,
           iters |-> 0, overhead |-> 0, over |-> FALSE, base |-> f, reached |-> f]
  BY <1>4, <1>5 DEF SeparationAt
<1>7. /\ n.lp = q /\ n.home = home /\ n.round = 0 /\ n.max = max /\ n.iters = 0 /\ n.overhead = 0
      /\ IsSeparation(n)
  <2>1. /\ n.lp = q /\ n.home = home /\ n.round = 0 /\ n.max = max /\ n.iters = 0 /\ n.overhead = 0
        /\ n.active = TRUE
    BY <1>6
  <2>2. n = [x \in NodeFields |-> n[x]]
    BY <1>6 DEF NodeFields
  <2> QED
    BY <2>1, <2>2 DEF IsSeparation
<1> QED
  BY <1>1, <1>3, <1>7 DEF Within

\* A node processed.
LEMMA ProcessNodeKeeps == ASSUME RootInv, ProcessNode PROVE RootInv'
<1>1. phase = "tree" /\ InTree /\ ~node.active
  BY DEF ProcessNode
<1>2. prob.ints # {}
  BY <1>1, IsMixed DEF LinearPhases
<1>3. Shaped(lp)
  BY <1>1, <1>2, InTheTree
<1>4. ASSUME node' # node PROVE Within(node')
  <2>1. PICK home \in Branches(lp) :
          \E v, max : node' = SeparationAt(home, Propagated(home, MaxPass), v, max)
    BY <1>4 DEF ProcessNode
  <2>2. PICK v, max : node' = SeparationAt(home, Propagated(home, MaxPass), v, max)
    BY <2>1
  <2> QED
    BY <1>3, <2>1, <2>2, StartedNode
<1>5. node'.active => Within(node')
  BY <1>1, <1>4
<1> QED
  BY <1>1, <1>2, <1>5, InTreeKeeps

\* A round of separation.
LEMMA SeparationRoundKeeps == ASSUME RootInv, SeparationRound PROVE RootInv'
<1>1. node.active /\ InTree
  BY DEF SeparationRound
<1>2. prob.ints # {}
  BY <1>1, IsMixed
<1>3. phase = "tree"
  BY <1>1, <1>2 DEF RootInv, MilpInv
<1>4. Within(node)
  BY <1>1, <1>2, <1>3, InTheTree
<1>5. IsSeparation(node) /\ Shaped(node.lp) /\ Points(node.home) \subseteq Points(node.lp)
  BY <1>4 DEF Within
<1>6. /\ IsSeparation(node') /\ node'.home = node.home
      /\ \/ node'.lp = node.lp
         \/ \E cuts \in Seq(ValidCuts(node.lp)) : node'.lp = WithCuts(node.lp, cuts)
  <2>1. /\ IsSeparation(node') /\ node'.home = node.home /\ node'.max = node.max
        /\ \E m : /\ Solved(node, m)
                  /\ \/ /\ node'.lp = m.lp /\ node'.round = m.round
                        /\ node'.iters = m.iters /\ node'.overhead = m.overhead
                     \/ \E n : \E cuts \in Seq(ValidCuts(node.lp)) :
                          /\ n.lp = m.lp /\ n.round = m.round /\ n.max = m.max /\ n.iters = m.iters
                          /\ n.overhead = m.overhead + Surcharge(m.lp, 1)
                          /\ Len(cuts) <= Cardinality(node.lp.ints)
                          /\ Validated(n, node', cuts)
    BY <1>5, SeparationRoundIs
  <2>2. PICK m : /\ Solved(node, m)
                 /\ \/ node'.lp = m.lp
                    \/ \E n : \E cuts \in Seq(ValidCuts(node.lp)) : n.lp = m.lp /\ Validated(n, node', cuts)
    BY <2>1
  <2>3. m.lp = node.lp
    BY <2>2 DEF Solved
  <2>4. ASSUME NEW n, NEW cuts \in Seq(ValidCuts(node.lp)), n.lp = node.lp, Validated(n, node', cuts)
        PROVE  node'.lp = node.lp \/ node'.lp = WithCuts(node.lp, cuts)
    BY <2>4 DEF Validated
  <2> QED
    BY <2>1, <2>2, <2>3, <2>4
<1>7. Shaped(node'.lp) /\ Points(node'.lp) = Points(node.lp)
  <2>1. ASSUME NEW cuts \in Seq(ValidCuts(node.lp))
        PROVE  Shaped(WithCuts(node.lp, cuts)) /\ Points(WithCuts(node.lp, cuts)) = Points(node.lp)
    BY <1>5, WithCutsIs
  <2> QED
    BY <1>5, <1>6, <2>1
<1>8. Within(node')
  BY <1>5, <1>6, <1>7 DEF Within
<1> QED
  BY <1>1, <1>2, <1>3, <1>8, InTreeKeeps

\* The end of a separation.
LEMMA EndSeparationKeeps == ASSUME RootInv, EndSeparation PROVE RootInv'
<1>1. node.active /\ InTree /\ node' = NoNode
  BY DEF EndSeparation
<1>2. prob.ints # {}
  BY <1>1, IsMixed
<1>3. phase = "tree"
  BY <1>1, <1>2 DEF RootInv, MilpInv
<1>4. ~node'.active
  BY <1>1 DEF NoNode
<1> QED
  BY <1>1, <1>2, <1>3, <1>4, InTreeKeeps

\* The kinds of an optimum.
LEMMA Optima ==
  ASSUME NEW q
  PROVE  /\ Optimum(q).kind \in {"infeasible", "unbounded", "finite"}
         /\ Optimum(q) = [kind |-> Optimum(q).kind, value |-> Optimum(q).value]
<1> DEFINE low == Min({Cost(q, x) : x \in Points(q)}) + q.off
<1>1. \/ Optimum(q) = [kind |-> "infeasible", value |-> 0]
      \/ Optimum(q) = [kind |-> "unbounded", value |-> 0]
      \/ Optimum(q) = [kind |-> "finite", value |-> low]
  BY DEF Optimum
<1> HIDE DEF low
<1> QED
  BY <1>1

\* The tree's answer.
LEMMA AnswerFromTreeKeeps == ASSUME RootInv, AnswerFromTree PROVE RootInv'
<1>1. phase = "tree" /\ ~node.active
  BY DEF AnswerFromTree
<1>2. prob.ints # {}
  BY <1>1, IsMixed DEF LinearPhases
<1>3. Kept(prob, lp, root.plain) /\ IsRoot(root)
  BY <1>1, <1>2, InTheTree
<1>4. goal = Optimum(lp)
  BY <1>3 DEF Kept, RootInv
<1>5. PICK r \in Says(goal) :
        /\ prob' = prob /\ goal' = goal /\ root' = root /\ node' = node /\ phase' = "answered" /\ answer' = r
  BY <1>4 DEF AnswerFromTree, Answer, milpVars
<1>6. AnswersTrue'
  <2>1. goal.kind \in {"infeasible", "unbounded", "finite"} /\ goal = [kind |-> goal.kind, value |-> goal.value]
    BY <1>4, Optima
  <2>2. CASE r = [status |-> StatusOf(goal), value |-> goal.value]
    <3>1. CASE goal.kind = "finite"
      <4>1. r.status = "optimal" /\ r.value = goal.value
        BY <2>2, <3>1 DEF StatusOf
      <4> QED
        BY <1>5, <2>1, <3>1, <4>1 DEF AnswersTrue
    <3>2. CASE goal.kind # "finite"
      <4>1. r.status = goal.kind
        BY <2>2, <3>2 DEF StatusOf
      <4> QED
        BY <1>5, <2>1, <3>2, <4>1 DEF AnswersTrue
    <3> QED
      BY <3>1, <3>2
  <2>3. CASE r.status \in {"timeout", "suboptimal", "error"}
    BY <1>5, <2>3 DEF AnswersTrue
  <2> QED
    BY <2>2, <2>3 DEF Says
<1>7. MilpInv'
  BY <1>1, <1>3, <1>5, <1>6 DEF MilpInv, Tightening, Cutting
<1> QED
  BY <1>2, <1>5, <1>7 DEF RootInv

-----------------------------------------------------------------------------
(* The steps of a linear program, and the theorems *)

\* What answers, ends; what fires, goes on or decides.
LEMMA Fires ==
  ASSUME NEW p, Fire(p)
  PROVE  phase' = phase \/ phase' \in {"infeasible", "unbounded"}
<1> USE DEF Becomes, Verdict
<1>1. ASSUME NEW j, FixedVariable(j) PROVE phase' = phase
  BY <1>1 DEF FixedVariable
<1>2. ASSUME NEW i, SingletonRow(i) PROVE phase' = phase \/ phase' = "infeasible"
  BY <1>2 DEF SingletonRow, SingletonEq, SingletonIneq
<1>3. ASSUME NEW i, ForcingRow(i) PROVE phase' = phase \/ phase' = "infeasible"
  BY <1>3 DEF ForcingRow
<1>4. ASSUME NEW i, EmptyRow(i) PROVE phase' = phase \/ phase' = "infeasible"
  BY <1>4 DEF EmptyRow
<1>5. ASSUME NEW j, EmptyColumn(j) PROVE phase' = phase \/ phase' = "unbounded"
  BY <1>5 DEF EmptyColumn
<1>6. ASSUME NEW i, Redundant(i) PROVE phase' = phase
  BY <1>6 DEF Redundant
<1>7. ASSUME NEW i, Tighten(i) PROVE phase' = phase \/ phase' = "infeasible"
  BY <1>7 DEF Tighten
<1>8. ASSUME NEW i, Doubleton(i) PROVE phase' = phase \/ phase' = "infeasible"
  BY <1>8 DEF Doubleton, Substitute
<1>9. ASSUME NEW j, FreeColumn(j) PROVE phase' = phase
  BY <1>9 DEF FreeColumn, Substitute
<1>10. ASSUME NEW i, NEW k, ParallelRows(i, k) PROVE phase' = phase \/ phase' = "infeasible"
  BY <1>10 DEF ParallelRows
<1>11. ASSUME NEW j, NEW k, DominatedColumn(j, k) PROVE phase' = phase
  BY <1>11 DEF DominatedColumn, Hold
<1>12. ASSUME NEW j, DualFixing(j) PROVE phase' = phase \/ phase' = "unbounded"
  BY <1>12 DEF DualFixing, Hold
<1> QED
  BY <1>1, <1>2, <1>3, <1>4, <1>5, <1>6, <1>7, <1>8, <1>9, <1>10, <1>11, <1>12 DEF Fire

\* A step of a linear program.
LEMMA SolvesOn ==
  ASSUME SolveNext
  PROVE  /\ prob' = prob /\ goal' = goal
         /\ \/ phase \in LinearPhases /\ phase' \in LinearPhases
            \/ UNCHANGED <<lp, phase, answer>>
<1>1. CASE Presolve
  <2>1. PresolveNext /\ UNCHANGED <<lifted, answer>>
    BY <1>1 DEF Presolve
  <2>2. CASE Expire
    BY <2>1, <2>2 DEF Expire
  <2>3. CASE NextPass
    BY <2>3 DEF NextPass, LinearPhases
  <2>4. CASE Reduce
    <3>1. phase = "sweep" /\ prob' = prob /\ goal' = goal
      BY <2>4 DEF Reduce
    <3>2. phase' = phase \/ phase' \in {"infeasible", "unbounded"}
      BY <2>4, Fires DEF Reduce
    <3> QED
      BY <3>1, <3>2 DEF LinearPhases
  <2>5. CASE Interrupt
    BY <2>5 DEF Interrupt, LinearPhases
  <2>6. CASE EndSweep
    BY <2>6 DEF EndSweep, LinearPhases
  <2>7. CASE Build
    BY <2>7 DEF Build, LinearPhases
  <2> QED
    BY <2>1, <2>2, <2>3, <2>4, <2>5, <2>6, <2>7 DEF PresolveNext
<1>2. CASE ReturnVerdict
  BY <1>2 DEF ReturnVerdict, Answer, LinearPhases
<1>3. CASE SolveUnreduced
  BY <1>3 DEF SolveUnreduced, SolveOriginal, Answer, LinearPhases
<1>4. CASE SolveReducedElse
  BY <1>4 DEF SolveReducedElse, SolveOriginal, Answer, LinearPhases
<1>5. CASE SolveReduced
  BY <1>5 DEF SolveReduced, LinearPhases
<1>6. CASE Accept
  BY <1>6 DEF Accept, Answer, LinearPhases
<1>7. CASE Retry
  BY <1>7 DEF Retry, Answer, LinearPhases
<1> QED
  BY <1>1, <1>2, <1>3, <1>4, <1>5, <1>6, <1>7 DEF SolveNext

\* For a mixed-integer program only the deadline passes.
LEMMA OnlyExpires ==
  ASSUME RootInv, prob.ints # {}, SolveNext
  PROVE  UNCHANGED <<prob, goal, lp, phase, answer>>
<1>1. phase \in Tightening \cup Cutting \cup {"tree", "answered"}
  BY DEF RootInv, MilpInv
<1>2. phase \notin {"boundary", "sweep", "revert", "built", "infeasible", "unbounded", "lifted"}
  BY <1>1 DEF Tightening, Cutting
<1>3. CASE Presolve
  <2>1. Expire /\ UNCHANGED <<lifted, answer>>
    BY <1>2, <1>3 DEF Presolve, PresolveNext, NextPass, Reduce, Interrupt, EndSweep, Build
  <2> QED
    BY <2>1 DEF Expire
<1>4. CASE ~Presolve
  BY <1>2, <1>4 DEF SolveNext, ReturnVerdict, SolveUnreduced, SolveReducedElse, SolveReduced, Accept, Retry
<1> QED
  BY <1>3, <1>4

\* Steps of a linear program keep the invariant.
LEMMA SolveNextKeeps == ASSUME RootInv, SolveNext, UNCHANGED milpVars PROVE RootInv'
<1>1. root' = root /\ node' = node
  BY DEF milpVars
<1>2. CASE prob.ints = {}
  <2>1. phase \in LinearPhases /\ ~node.active
    BY <1>2 DEF RootInv
  <2>2. prob' = prob /\ goal' = goal /\ phase' \in LinearPhases
    BY <2>1, SolvesOn
  <2> QED
    BY <1>1, <1>2, <2>1, <2>2 DEF RootInv
<1>3. CASE prob.ints # {}
  <2>1. UNCHANGED <<prob, goal, lp, phase, answer>>
    BY <1>3, OnlyExpires
  <2>2. MilpInv
    BY <1>3 DEF RootInv
  <2>3. AnswersTrue'
    BY <2>1, <2>2 DEF AnswersTrue, MilpInv
  <2>4. MilpInv'
    BY <1>1, <2>1, <2>2, <2>3 DEF MilpInv
  <2> QED
    BY <1>3, <2>1, <2>4 DEF RootInv
<1> QED
  BY <1>2, <1>3

\* Every step does.
LEMMA RootStep == RootInv /\ [ModelNext]_<<vars, milpVars>> => RootInv'
<1> SUFFICES ASSUME RootInv, [ModelNext]_<<vars, milpVars>> PROVE RootInv'
  OBVIOUS
<1>1. CASE SolveNext /\ UNCHANGED milpVars
  BY <1>1, SolveNextKeeps
<1>2. CASE MilpNext
  <2>1. CASE PropagateAtRoot \/ EndPropagation \/ Probe \/ EndRepropagation \/ EndProbing
    BY <2>1, PropagateAtRootKeeps, EndsKeep, ProbeKeeps
  <2>2. CASE OrderColumns \/ CutRound \/ EndCutRounds \/ Structural \/ HandOver
    BY <2>2, OrderColumnsKeeps, CutRoundKeeps, EndCutRoundsKeeps, StructuralKeeps, HandOverKeeps
  <2>3. CASE ProcessNode \/ SeparationRound \/ EndSeparation \/ AnswerFromTree
    BY <2>3, ProcessNodeKeeps, SeparationRoundKeeps, EndSeparationKeeps, AnswerFromTreeKeeps
  <2> QED
    BY <1>2, <2>1, <2>2, <2>3 DEF MilpNext
<1>3. CASE UNCHANGED <<vars, milpVars>>
  <2>1. UNCHANGED <<prob, goal, lp, phase, answer, root, node>>
    BY <1>3 DEF vars, presolveVars, milpVars
  <2>2. AnswersTrue <=> AnswersTrue'
    BY <2>1 DEF AnswersTrue
  <2>3. MilpInv <=> MilpInv'
    BY <2>1, <2>2 DEF MilpInv
  <2> QED
    BY <2>1, <2>3 DEF RootInv
<1> QED
  BY <1>1, <1>2, <1>3 DEF ModelNext

\* The invariant of the root, in every state.
THEOREM RootIsKept == ModelSpec => []RootInv
<1>1. ModelInit => RootInv
  BY ModelStart
<1>2. RootInv /\ [ModelNext]_<<vars, milpVars>> => RootInv'
  BY RootStep
<1> QED
  BY <1>1, <1>2, PTL DEF ModelSpec

\* The points that the ordering rows leave, if there are any.
LEMMA RepresentativesAre ==
  ASSUME Shaped(prob), Shaped(lp), root.plain \in Nat, root.plain <= Len(lp.a)
  PROVE  Representatives = Admitted(prob, lp, root.plain)
<1>1. lp.rows = 1..Len(lp.a) /\ Len(lp.a) \in Nat /\ Len(prob.a) \in Nat
  BY DEF Shaped
<1>2. \A i \in (Len(prob.a) + 1)..root.plain : i \in lp.rows
  BY <1>1
<1>3. ASSUME NEW x \in Points(prob), NEW i \in (Len(prob.a) + 1)..root.plain
      PROVE  Activity(lp, i, x) = Dot(lp.a[i], x)
  <2>1. x \in [Cols -> Int]
    BY PointsAreInteger
  <2> QED
    BY <1>2, <2>1, ActivityIs
<1> QED
  BY <1>3 DEF Representatives, Admitted

\* No bound tightened at the root and no cut removes a point of the program
\* given but those that the ordering rows give up, and these leave an optimal
\* one; what is done at a node removes no point of the node's box.
THEOREM NothingIsCutOff == ModelSpec => []KeepsPoints
<1>1. RootInv => KeepsPoints
  <2> SUFFICES ASSUME RootInv PROVE KeepsPoints
    OBVIOUS
  <2>1. ASSUME phase \in {"propagate", "repropagate", "probe", "order", "cut", "structural", "handover", "tree"}
        PROVE  Representatives \subseteq Points(lp) /\ Optimum(lp) = goal
    <3>1. phase \in Tightening \cup Cutting \cup {"tree"} /\ phase \notin LinearPhases
      BY <2>1 DEF Tightening, Cutting, LinearPhases
    <3>2. prob.ints # {} /\ goal = Optimum(prob)
      BY <3>1, IsMixed DEF RootInv
    <3>3. CASE phase \in Tightening
      <4>1. Shaped(prob) /\ Finite(prob) /\ Sharpened(prob, lp)
        BY <3>2, <3>3, InTightening
      <4>2. Points(lp) = Points(prob) /\ Optimum(lp) = Optimum(prob)
        BY <4>1, SharpenedIs
      <4> QED
        BY <3>2, <4>2 DEF Representatives
    <3>4. CASE phase \in Cutting \cup {"tree"}
      <4>1. Shaped(prob) /\ Kept(prob, lp, root.plain)
        BY <3>2, <3>4, InCutting, InTheTree
      <4>2. /\ Shaped(lp) /\ root.plain \in Nat /\ root.plain <= Len(lp.a)
            /\ Admitted(prob, lp, root.plain) \subseteq Points(lp) /\ Optimum(lp) = Optimum(prob)
        BY <4>1 DEF Kept
      <4> QED
        BY <3>2, <4>1, <4>2, RepresentativesAre
    <3> QED
      BY <3>1, <3>3, <3>4
  <2>2. ASSUME node.active PROVE Points(node.home) \subseteq Points(node.lp)
    BY <2>2, IsMixed DEF RootInv, MilpInv, Within
  <2> QED
    BY <2>1, <2>2 DEF KeepsPoints
<1> QED
  BY <1>1, RootIsKept, PTL

\* What a mixed-integer program is said to be, it is: the status and the
\* objective of its answer are those of the program given.
THEOREM MixedAnswersTrue == ModelSpec => [](prob.ints # {} => AnswersTrue)
<1>1. RootInv => (prob.ints # {} => AnswersTrue)
  BY DEF RootInv, MilpInv
<1> QED
  BY <1>1, RootIsKept, PTL

-----------------------------------------------------------------------------
(* The share of separation *)

\* Quotients keep an order.
LEMMA Quotients ==
  ASSUME NEW u \in Int, NEW v \in Int, u <= v, NEW d \in Int, d > 0
  PROVE  u \div d <= v \div d
<1>1. u \div d \in Int /\ u % d \in Int /\ 0 <= u % d /\ u = d * (u \div d) + (u % d)
  BY Floor
<1>2. d * (u \div d) \in Int
  BY <1>1
<1>3. d * (u \div d) <= v
  BY <1>1, <1>2
<1> QED
  BY <1>1, <1>3, Floor

\* The share of more iterations is no less.
LEMMA ShareIs ==
  ASSUME NEW m \in Nat, NEW n \in Nat, m <= n
  PROVE  Share(m) \in Nat /\ Share(n) \in Nat /\ Share(m) <= Share(n)
<1>1. Share(m) = (35 * m) \div 1000 /\ Share(n) = (35 * n) \div 1000
  BY DEF Share
<1>2. 35 * m \in Int /\ 35 * n \in Int /\ 35 * m <= 35 * n /\ 0 <= 35 * m
  OBVIOUS
<1>3. (35 * m) \div 1000 <= (35 * n) \div 1000
  BY <1>2, Quotients
<1>4. 0 <= (35 * m) \div 1000
  <2>1. 1000 * 0 <= 35 * m
    BY <1>2
  <2> QED
    BY <1>2, <2>1, Floor
<1>5. (35 * m) \div 1000 \in Int /\ (35 * n) \div 1000 \in Int
  BY <1>2, Floor
<1> QED
  BY <1>1, <1>3, <1>4, <1>5

\* What building a program costs.
LEMMA SurchargeIs ==
  ASSUME NEW q, Shaped(q), NEW k \in 1..3
  PROVE  /\ Dim(q) = 3 + Len(q.a) /\ Len(q.a) \in Nat /\ Dim(q) \in Nat
         /\ Surcharge(q, k) \in Nat /\ 4 * Surcharge(q, k) <= k * Dim(q)
         /\ Surcharge(q, k) <= (3 * Dim(q)) \div 4
<1>1. Dim(q) = 3 + Len(q.a) /\ Len(q.a) \in Nat
  BY ColsAre DEF Dim, Shaped
<1>2. PICK d \in Nat : d = Dim(q)
  BY <1>1
<1>3. Surcharge(q, k) = (k * d) \div 4
  BY <1>2 DEF Surcharge
<1>4. k * d \in Int /\ k * d <= 3 * d /\ 0 <= k * d /\ 3 * d \in Int
  OBVIOUS
<1>5. (k * d) \div 4 <= (3 * d) \div 4
  BY <1>4, Quotients
<1>6. /\ (k * d) \div 4 \in Int
      /\ k * d = 4 * ((k * d) \div 4) + ((k * d) % 4) /\ 0 <= (k * d) % 4 /\ (k * d) % 4 \in Int
  BY <1>4, Floor
<1>7. 0 <= (k * d) \div 4
  <2>1. 4 * 0 <= k * d
    BY <1>4
  <2> QED
    BY <1>4, <2>1, Floor
<1>8. 4 * ((k * d) \div 4) <= k * d
  BY <1>4, <1>6
<1>9. PICK s \in Nat : s = Surcharge(q, k) /\ 4 * s <= k * d /\ s <= (3 * d) \div 4
  BY <1>3, <1>5, <1>6, <1>7, <1>8
<1> QED
  BY <1>1, <1>2, <1>9

\* The surcharge of the last solve, at most.
Largest(q) == Dim(q) + TreeRounds * Cardinality(q.ints)
Overshoot(q) == (3 * Largest(q)) \div 4

\* It counts.
LEMMA OvershootIs ==
  ASSUME NEW q, Shaped(q)
  PROVE  /\ Cardinality(q.ints) \in Nat /\ Largest(q) \in Nat /\ Overshoot(q) \in Nat
         /\ \A d \in Nat : d <= Largest(q) => (3 * d) \div 4 <= Overshoot(q)
<1>1. Cardinality(q.ints) \in Nat
  <2>1. IsFiniteSet(q.ints)
    BY ShapeIs, ColsAre, FS_Subset
  <2> QED
    BY <2>1, FS_CardinalityType
<1>2. PICK c \in Nat : c = Cardinality(q.ints)
  BY <1>1
<1>3. PICK d \in Nat : d = Dim(q)
  <2>1. 1 \in 1..3
    OBVIOUS
  <2> QED
    BY <2>1, SurchargeIs
<1>4. PICK l \in Nat : l = Largest(q)
  BY <1>2, <1>3, MilpRootAssumption DEF Largest
<1>5. ASSUME NEW e \in Nat, e <= l PROVE (3 * e) \div 4 <= Overshoot(q)
  <2>1. 3 * e \in Int /\ 3 * l \in Int /\ 3 * e <= 3 * l
    BY <1>5
  <2> QED
    BY <1>4, <2>1, Quotients DEF Overshoot
<1>6. Overshoot(q) \in Nat
  <2>1. Overshoot(q) \in Int /\ 4 * 0 <= 3 * l /\ 3 * l \in Int
    BY <1>4, Floor DEF Overshoot
  <2>2. 0 <= (3 * l) \div 4
    BY <2>1, Floor
  <2> QED
    BY <1>4, <2>1, <2>2 DEF Overshoot
<1> QED
  BY <1>1, <1>4, <1>5, <1>6

\* The greater of a number and zero, if it is at least a positive one.
LEMMA GreaterIs ==
  ASSUME NEW a \in Int, NEW k \in Int, k > 0
  PROVE  /\ GreaterOf(a, 0) \in Nat
         /\ ~(GreaterOf(a, 0) < k) => GreaterOf(a, 0) = a /\ a >= k
         /\ GreaterOf(a, 0) >= k => GreaterOf(a, 0) = a /\ a >= k
         /\ GreaterOf(a, 0) > 0 => GreaterOf(a, 0) = a
  BY DEF GreaterOf

\* An active node within the pace that the search allows.
Paced(n, s, q) ==
  /\ n.round \in 0..TreeRounds
  /\ n.max \in Nat /\ n.iters \in Nat /\ n.overhead \in Nat
  /\ n.max = Share(TotalIters(s)) - s.sep_iters - s.overhead
  /\ Shaped(n.lp) /\ n.lp.ints = q.ints
  /\ Len(n.lp.a) <= Len(q.a) + n.round * Cardinality(q.ints)
  /\ n.iters + n.overhead <= n.max + Overshoot(q)

\* The program of a round is not larger than the slack is for.
LEMMA NotTooLarge ==
  ASSUME NEW q, Shaped(q), NEW p, Shaped(p), NEW r \in 0..TreeRounds,
         Len(p.a) <= Len(q.a) + r * Cardinality(q.ints)
  PROVE  \A k \in 1..3 : Surcharge(p, k) \in Nat /\ Surcharge(p, k) <= Overshoot(q)
<1>1. PICK c \in Nat : c = Cardinality(q.ints)
  BY OvershootIs
<1>2. PICK t \in Nat : t = TreeRounds
  BY MilpRootAssumption
<1>3. 1 \in 1..3
  OBVIOUS
<1>4. PICK m \in Nat, n \in Nat : m = Len(p.a) /\ n = Len(q.a)
  BY <1>3, SurchargeIs
<1>5. Dim(p) = 3 + m /\ Dim(q) = 3 + n
  BY <1>3, <1>4, SurchargeIs
<1>6. r * c \in Int /\ t * c \in Int /\ r * c <= t * c
  <2>1. r \in Int /\ t \in Int /\ c \in Int /\ r <= t /\ c >= 0
    BY <1>2
  <2> QED
    BY <2>1, Times
<1>7. Dim(p) \in Nat /\ Dim(p) <= Largest(q)
  <2>1. PICK e \in Int, f \in Int : e = r * c /\ f = t * c /\ e <= f
    BY <1>6
  <2>2. Largest(q) = 3 + n + f
    BY <1>1, <1>2, <1>5, <2>1 DEF Largest
  <2>3. m <= n + e
    BY <1>1, <1>4, <2>1
  <2> QED
    BY <1>5, <2>1, <2>2, <2>3
<1>8. (3 * Dim(p)) \div 4 <= Overshoot(q) /\ Overshoot(q) \in Nat
  BY <1>7, OvershootIs
<1>9. ASSUME NEW k \in 1..3 PROVE Surcharge(p, k) \in Nat /\ Surcharge(p, k) <= Overshoot(q)
  <2>1. Surcharge(p, k) \in Nat /\ Surcharge(p, k) <= (3 * Dim(p)) \div 4
    BY SurchargeIs
  <2>2. 3 * Dim(p) \in Int
    BY <1>7
  <2>3. (3 * Dim(p)) \div 4 \in Int
    BY <2>2, Floor
  <2> QED
    BY <1>8, <2>1, <2>3
<1> QED
  BY <1>9

\* A program has at least the three columns.
LEMMA DimIs == ASSUME NEW q, Shaped(q) PROVE Dim(q) \in Nat /\ Dim(q) >= 3
<1>1. 1 \in 1..3
  OBVIOUS
<1>2. Dim(q) = 3 + Len(q.a) /\ Len(q.a) \in Nat
  BY <1>1, SurchargeIs
<1> QED
  BY <1>2

\* A solve and a validation keep the pace.
LEMMA SolvedPaces ==
  ASSUME NEW n, NEW s, NEW q, Shaped(q), Paced(n, s, q), NEW m, Solved(n, m), Remaining(n) >= Useful(n.lp)
  PROVE  /\ m.iters \in Nat /\ m.overhead \in Nat /\ m.iters + m.overhead <= m.max
         /\ m.max = n.max /\ m.lp = n.lp /\ m.round = n.round
<1>1. /\ n.max \in Nat /\ n.iters \in Nat /\ n.overhead \in Nat /\ Shaped(n.lp)
  BY DEF Paced
<1>2. PICK D \in Nat : D = Dim(n.lp) /\ D >= 3
  BY <1>1, DimIs
<1>3. PICK start \in Nat : start = SolveSurcharge(n) /\ 4 * start <= 2 * D
  <2>1. PICK k \in 1..2 : k = IF n.round = 0 THEN 1 ELSE 2
    OBVIOUS
  <2>2. k \in 1..3
    OBVIOUS
  <2>3. SolveSurcharge(n) = Surcharge(n.lp, k)
    BY <2>1 DEF SolveSurcharge
  <2>4. Surcharge(n.lp, k) \in Nat /\ 4 * Surcharge(n.lp, k) <= k * D
    BY <1>1, <1>2, <2>2, SurchargeIs
  <2>5. k * D <= 2 * D
    BY <2>1
  <2> QED
    BY <2>3, <2>4, <2>5
<1>4. PICK R \in Nat : R = Remaining(n) /\ R = n.max - n.iters - n.overhead /\ R >= 4 * D
  <2>1. PICK a \in Int : a = n.max - n.iters - n.overhead
    BY <1>1
  <2>2. Remaining(n) = GreaterOf(a, 0)
    BY <2>1 DEF Remaining
  <2>3. 4 * D \in Int /\ 4 * D > 0 /\ Remaining(n) >= 4 * D
    BY <1>2 DEF Useful
  <2> QED
    BY <2>1, <2>2, <2>3, GreaterIs
<1>5. /\ m.iters \in {n.iters + 0, n.iters + (R - start)} /\ m.overhead = n.overhead + start
      /\ m.max = n.max /\ m.lp = n.lp /\ m.round = n.round
  BY <1>3, <1>4 DEF Solved
<1>6. CASE m.iters = n.iters + 0
  BY <1>1, <1>3, <1>4, <1>5, <1>6
<1>7. CASE m.iters = n.iters + (R - start)
  BY <1>1, <1>3, <1>4, <1>5, <1>7
<1> QED
  BY <1>5, <1>6, <1>7

\* A validation spends what remains and a surcharge, or nothing.
LEMMA ValidatedSpends ==
  ASSUME NEW n, NEW p, NEW cuts, Validated(n, p, cuts), Shaped(WithCuts(n.lp, cuts)),
         n.max \in Nat, n.iters \in Nat, n.overhead \in Nat, NEW k \in Nat, n.iters + n.overhead <= n.max + k,
         Surcharge(WithCuts(n.lp, cuts), 3) <= k
  PROVE  p.iters \in Nat /\ p.overhead \in Nat /\ p.iters + p.overhead <= n.max + k
<1> DEFINE candidate == WithCuts(n.lp, cuts)
<1>1. CASE p.iters = n.iters /\ p.overhead = n.overhead
  BY <1>1
<1>2. CASE ~(p.iters = n.iters /\ p.overhead = n.overhead)
  <2>1. /\ ~(Remaining(n) < Useful(candidate))
        /\ p.iters \in {n.iters + 0, n.iters + Remaining(n)}
        /\ p.overhead = n.overhead + Surcharge(candidate, 3)
    BY <1>2 DEF Validated
  <2> HIDE DEF candidate
  <2>2. PICK D \in Nat : D = Dim(candidate) /\ D >= 3
    <3>1. Shaped(candidate)
      BY DEF candidate
    <3> QED
      BY <3>1, DimIs
  <2>3. PICK u \in Nat : u = Surcharge(candidate, 3) /\ u <= k
    <3>1. 3 \in 1..3 /\ Shaped(candidate) /\ Surcharge(candidate, 3) <= k
      BY DEF candidate
    <3> QED
      BY <3>1, SurchargeIs
  <2>4. PICK R \in Nat : R = Remaining(n) /\ R = n.max - n.iters - n.overhead
    <3>1. PICK a \in Int : a = n.max - n.iters - n.overhead
      OBVIOUS
    <3>2. Remaining(n) = GreaterOf(a, 0)
      BY <3>1 DEF Remaining
    <3>3. 4 * D \in Int /\ 4 * D > 0 /\ ~(Remaining(n) < 4 * D)
      BY <2>1, <2>2 DEF Useful
    <3> QED
      BY <3>1, <3>2, <3>3, GreaterIs
  <2>5. CASE p.iters = n.iters + 0
    BY <2>1, <2>3, <2>4, <2>5
  <2>6. CASE p.iters = n.iters + R
    BY <2>1, <2>3, <2>4, <2>6
  <2> QED
    BY <2>1, <2>4, <2>5, <2>6
<1> QED
  BY <1>1, <1>2

\* So does a round.
LEMMA RoundPaces ==
  ASSUME Shaped(lp), IsSeparation(node), Paced(node, stats, lp), SeparationRound
  PROVE  Paced(node', stats, lp)
<1>1. /\ node.round \in 0..TreeRounds /\ node.max \in Nat /\ node.iters \in Nat /\ node.overhead \in Nat
      /\ node.max = Share(TotalIters(stats)) - stats.sep_iters - stats.overhead
      /\ Shaped(node.lp) /\ node.lp.ints = lp.ints
      /\ Len(node.lp.a) <= Len(lp.a) + node.round * Cardinality(lp.ints)
  BY DEF Paced
<1>2. CanSeparate /\ node.round < TreeRounds /\ Remaining(node) >= Useful(node.lp)
  BY DEF SeparationRound, CanSeparate
<1>3. PICK k \in Nat : k = Overshoot(lp)
  BY OvershootIs
<1>4. PICK c \in Nat : c = Cardinality(lp.ints)
  BY OvershootIs
<1>5. /\ IsSeparation(node') /\ node'.home = node.home /\ node'.max = node.max
      /\ \E m : /\ Solved(node, m)
                /\ \/ /\ node'.lp = m.lp /\ node'.round = m.round
                      /\ node'.iters = m.iters /\ node'.overhead = m.overhead
                   \/ \E n : \E cuts \in Seq(ValidCuts(node.lp)) :
                        /\ n.lp = m.lp /\ n.round = m.round /\ n.max = m.max /\ n.iters = m.iters
                        /\ n.overhead = m.overhead + Surcharge(m.lp, 1)
                        /\ Len(cuts) <= Cardinality(node.lp.ints)
                        /\ Validated(n, node', cuts)
  BY <1>1, SeparationRoundIs
<1>6. PICK m : /\ Solved(node, m)
               /\ \/ /\ node'.lp = m.lp /\ node'.round = m.round
                     /\ node'.iters = m.iters /\ node'.overhead = m.overhead
                  \/ \E n : \E cuts \in Seq(ValidCuts(node.lp)) :
                       /\ n.lp = m.lp /\ n.round = m.round /\ n.max = m.max /\ n.iters = m.iters
                       /\ n.overhead = m.overhead + Surcharge(m.lp, 1)
                       /\ Len(cuts) <= Cardinality(node.lp.ints)
                       /\ Validated(n, node', cuts)
  BY <1>5
<1>7. /\ m.iters \in Nat /\ m.overhead \in Nat /\ m.iters + m.overhead <= m.max
      /\ m.max = node.max /\ m.lp = node.lp /\ m.round = node.round
  BY <1>2, <1>6, SolvedPaces
<1>8. CASE /\ node'.lp = m.lp /\ node'.round = m.round
           /\ node'.iters = m.iters /\ node'.overhead = m.overhead
  <2>1. m.iters + m.overhead <= node.max + k
    BY <1>1, <1>7
  <2> QED
    BY <1>1, <1>3, <1>5, <1>7, <1>8, <2>1 DEF Paced
<1>9. ASSUME NEW n, NEW cuts \in Seq(ValidCuts(node.lp)),
             n.lp = m.lp, n.round = m.round, n.max = m.max, n.iters = m.iters,
             n.overhead = m.overhead + Surcharge(m.lp, 1),
             Len(cuts) <= Cardinality(node.lp.ints), Validated(n, node', cuts)
      PROVE  Paced(node', stats, lp)
  <2>1. PICK candidate : candidate = WithCuts(node.lp, cuts)
    OBVIOUS
  <2>2. /\ Shaped(candidate) /\ candidate.ints = lp.ints
        /\ Len(candidate.a) = Len(node.lp.a) + Len(cuts)
    BY <1>1, <2>1, WithCutsIs
  <2>3. PICK r \in Nat, t \in Nat : r = node.round /\ t = TreeRounds /\ r < t
    BY <1>1, <1>2, MilpRootAssumption
  <2>4. Len(candidate.a) <= Len(lp.a) + (r + 1) * Cardinality(lp.ints)
    <3>1. PICK e \in Nat, f \in Nat, g \in Nat : e = Len(node.lp.a) /\ f = Len(lp.a) /\ g = Len(cuts)
      <4>1. Len(node.lp.a) \in Nat /\ Len(lp.a) \in Nat
        BY <1>1 DEF Shaped
      <4> QED
        BY <4>1
    <3>2. e <= f + r * c /\ g <= c
      BY <1>1, <1>4, <1>9, <2>3, <3>1
    <3>3. PICK x \in Int : x = r * c
      OBVIOUS
    <3>4. PICK y \in Int : y = (r + 1) * c
      OBVIOUS
    <3>5. y = x + c
      BY <3>3, <3>4
    <3>6. Len(candidate.a) = e + g /\ e <= f + x
      BY <2>2, <3>1, <3>2, <3>3
    <3>7. e + g <= f + y
      BY <3>2, <3>5, <3>6
    <3> QED
      BY <1>4, <3>1, <3>4, <3>6, <3>7
  <2>5. r + 1 \in 0..TreeRounds
    BY <2>3
  <2>6. Surcharge(candidate, 3) <= k
    <3>1. 3 \in 1..3
      OBVIOUS
    <3> QED
      BY <1>3, <2>2, <2>4, <2>5, <3>1, NotTooLarge
  <2>7. Surcharge(node.lp, 1) \in Nat /\ Surcharge(node.lp, 1) <= k
    <3>1. 1 \in 1..3
      OBVIOUS
    <3> QED
      BY <1>1, <1>3, <3>1, NotTooLarge
  <2>8. /\ n.max \in Nat /\ n.iters \in Nat /\ n.overhead \in Nat /\ n.iters + n.overhead <= n.max + k
        /\ n.max = node.max /\ n.lp = node.lp /\ n.round = r
    <3>1. PICK u \in Nat : u = Surcharge(node.lp, 1) /\ u <= k
      BY <2>7
    <3>2. n.overhead = m.overhead + u
      BY <1>7, <1>9, <3>1
    <3> QED
      BY <1>1, <1>7, <1>9, <2>3, <3>1, <3>2, SMTT(30)
  <2>9. node'.iters \in Nat /\ node'.overhead \in Nat /\ node'.iters + node'.overhead <= n.max + k
    <3>1. Shaped(WithCuts(n.lp, cuts)) /\ Surcharge(WithCuts(n.lp, cuts), 3) <= k
      BY <2>1, <2>2, <2>6, <2>8
    <3> QED
      BY <1>9, <2>8, <3>1, ValidatedSpends
  <2>10. \/ node'.lp = node.lp /\ node'.round = node.round
         \/ node'.lp = candidate /\ node'.round = r + 1
    BY <1>9, <2>1, <2>3, <2>8 DEF Validated
  <2>11. CASE node'.lp = node.lp /\ node'.round = node.round
    BY <1>1, <1>3, <1>5, <2>8, <2>9, <2>11 DEF Paced
  <2>12. CASE node'.lp = candidate /\ node'.round = r + 1
    BY <1>1, <1>3, <1>5, <2>2, <2>4, <2>5, <2>8, <2>9, <2>12 DEF Paced
  <2> QED
    BY <2>10, <2>11, <2>12
<1> QED
  BY <1>6, <1>8, <1>9

-----------------------------------------------------------------------------
(* The invariant of separation *)

Stats == [nodes : Nat, node_iters : Nat, sep_iters : Nat, overhead : Nat, dry : Nat]

\* What no active node has still to report is within the share, but for the
\* surcharge of a last solve.
Settled(s, q) == s.sep_iters + s.overhead <= Share(TotalIters(s)) + Overshoot(q)

BudgetInv ==
  prob.ints # {} =>
    /\ Shaped(lp) /\ stats \in Stats
    /\ phase \in Tightening \cup Cutting => stats = NoStats
    /\ node.active => Paced(node, stats, lp)
    /\ ~node.active => Settled(stats, lp)

\* The iterations of more of them.
LEMMA TotalIs ==
  ASSUME NEW s \in Stats, NEW t \in Stats, s.nodes <= t.nodes, s.node_iters <= t.node_iters,
         s.sep_iters <= t.sep_iters
  PROVE  /\ Share(TotalIters(s)) \in Nat /\ Share(TotalIters(t)) \in Nat
         /\ Share(TotalIters(s)) <= Share(TotalIters(t))
<1>1. /\ s.nodes \in Nat /\ s.node_iters \in Nat /\ s.sep_iters \in Nat
      /\ t.nodes \in Nat /\ t.node_iters \in Nat /\ t.sep_iters \in Nat
  BY DEF Stats
<1>2. TotalIters(s) \in Nat /\ TotalIters(t) \in Nat /\ TotalIters(s) <= TotalIters(t)
  BY <1>1 DEF TotalIters, GreaterOf
<1> QED
  BY <1>2, ShareIs

\* Nothing spent is within the share.
LEMMA NothingSpent == ASSUME NEW q, Shaped(q) PROVE NoStats \in Stats /\ Settled(NoStats, q)
<1>1. NoStats \in Stats /\ NoStats.sep_iters = 0 /\ NoStats.overhead = 0
  BY DEF NoStats, Stats
<1>2. \A m \in Nat : m <= m
  OBVIOUS
<1>3. NoStats.nodes <= NoStats.nodes /\ NoStats.node_iters <= NoStats.node_iters
      /\ NoStats.sep_iters <= NoStats.sep_iters
  BY <1>1, <1>2 DEF Stats
<1>4. PICK h \in Nat : h = Share(TotalIters(NoStats))
  BY <1>1, <1>3, TotalIs
<1>5. PICK k \in Nat : k = Overshoot(q)
  BY OvershootIs
<1> QED
  BY <1>1, <1>4, <1>5 DEF Settled

\* The start.
LEMMA BudgetStart == ModelInit => BudgetInv
<1> SUFFICES ASSUME ModelInit, prob.ints # {} PROVE BudgetInv
  BY DEF BudgetInv
<1>1. prob \in Problems /\ lp = prob /\ stats = NoStats /\ node = NoNode
  BY DEF ModelInit, Given, MilpInit
<1>2. Shaped(lp)
  BY <1>1, MixedProgramIs
<1>3. ~node.active
  BY <1>1 DEF NoNode
<1> QED
  BY <1>1, <1>2, <1>3, NothingSpent DEF BudgetInv

\* The program is one, as long as there is one to solve.
LEMMA ProgramIsShaped ==
  ASSUME RootInv, prob.ints # {}, phase # "answered" PROVE Shaped(lp)
<1>1. phase \in Tightening \cup Cutting \cup {"tree"}
  BY DEF RootInv, MilpInv
<1> QED
  BY <1>1, InTightening, InCutting, InTheTree

\* Steps before the tree.
LEMMA BeforeTheTree ==
  ASSUME RootInv, BudgetInv, prob.ints # {}, phase \in Tightening \cup Cutting,
         prob' = prob, stats' = stats, node' = node, Shaped(lp')
  PROVE  BudgetInv'
<1>1. stats = NoStats
  BY DEF BudgetInv
<1>2. ~node.active
  BY DEF RootInv, MilpInv, Tightening, Cutting
<1>3. NoStats \in Stats /\ Settled(NoStats, lp')
  BY NothingSpent
<1> QED
  BY <1>1, <1>2, <1>3 DEF BudgetInv

\* A node processed.
LEMMA ProcessNodeSpends ==
  ASSUME RootInv, BudgetInv, prob.ints # {}, ProcessNode PROVE BudgetInv'
<1>1. /\ phase = "tree" /\ ~node.active /\ prob' = prob /\ lp' = lp /\ phase' = phase
  BY DEF ProcessNode, InTree
<1>2. Shaped(lp) /\ stats \in Stats /\ Settled(stats, lp)
  BY <1>1 DEF BudgetInv
<1>3. PICK k \in NodeIters, d \in {0, stats.dry} :
        LET new == [stats EXCEPT !.nodes = @ + 1, !.node_iters = @ + k, !.dry = d]
        IN  /\ stats' = new
            /\ \/ UNCHANGED node
               \/ /\ MaySeparate(new)
                  /\ \E home \in Branches(lp) :
                       LET lq == Propagated(home, MaxPass)
                       IN  \E v \in OptimalBases(lq) : node' = SeparationAt(home, lq, v, Allowance(new))
  BY DEF ProcessNode
<1>4. k \in Nat /\ d \in Nat
  BY <1>2, MilpRootAssumption DEF Stats
<1>5. PICK new : new = [stats EXCEPT !.nodes = @ + 1, !.node_iters = @ + k, !.dry = d]
  OBVIOUS
<1>6. /\ stats' = new
      /\ \/ UNCHANGED node
         \/ /\ MaySeparate(new)
            /\ \E home \in Branches(lp) : \E v :
                 node' = SeparationAt(home, Propagated(home, MaxPass), v, Allowance(new))
  BY <1>3, <1>5
<1>7. /\ stats.nodes \in Nat /\ stats.node_iters \in Nat /\ stats.sep_iters \in Nat /\ stats.overhead \in Nat
  BY <1>2 DEF Stats
<1>8. /\ new \in Stats /\ new.nodes = stats.nodes + 1 /\ new.node_iters = stats.node_iters + k
      /\ new.sep_iters = stats.sep_iters /\ new.overhead = stats.overhead
  <2>1. PICK a \in Nat, b \in Nat : a = stats.nodes + 1 /\ b = stats.node_iters + k
    BY <1>4, <1>7
  <2>2. new = [stats EXCEPT !.nodes = a, !.node_iters = b, !.dry = d]
    BY <1>5, <2>1
  <2>3. new \in Stats
    BY <1>2, <1>4, <2>2 DEF Stats
  <2>4. /\ new.nodes = a /\ new.node_iters = b
        /\ new.sep_iters = stats.sep_iters /\ new.overhead = stats.overhead
    BY <1>2, <2>2 DEF Stats
  <2> QED
    BY <2>1, <2>3, <2>4
<1>9. /\ Share(TotalIters(stats)) \in Nat /\ Share(TotalIters(new)) \in Nat
      /\ Share(TotalIters(stats)) <= Share(TotalIters(new))
  <2>1. stats.nodes <= new.nodes /\ stats.node_iters <= new.node_iters /\ stats.sep_iters <= new.sep_iters
    BY <1>4, <1>7, <1>8
  <2> QED
    BY <1>2, <1>8, <2>1, TotalIs
<1>10. PICK g \in Nat, h \in Nat : g = Share(TotalIters(stats)) /\ h = Share(TotalIters(new)) /\ g <= h
  BY <1>9
<1>11. PICK w \in Nat : w = Overshoot(lp)
  BY <1>2, OvershootIs
<1>12. Settled(new, lp)
  <2>1. stats.sep_iters + stats.overhead <= g + w
    BY <1>2, <1>10, <1>11 DEF Settled
  <2>2. new.sep_iters + new.overhead <= h + w
    BY <1>7, <1>8, <1>10, <2>1
  <2> QED
    BY <1>10, <1>11, <2>2 DEF Settled
<1>13. ASSUME node'.active PROVE Paced(node', new, lp)
  <2>0. PICK home \in Branches(lp) :
          \E v : node' = SeparationAt(home, Propagated(home, MaxPass), v, Allowance(new))
    BY <1>1, <1>6, <1>13
  <2>1. PICK v : node' = SeparationAt(home, Propagated(home, MaxPass), v, Allowance(new))
    BY <2>0
  <2>2. MaySeparate(new)
    BY <1>1, <1>6, <1>13
  <2>3. PICK max : max = Allowance(new)
    OBVIOUS
  <2>4. PICK n : n = node'
    OBVIOUS
  <2>5. /\ Within(n) /\ n.lp.ints = lp.ints /\ n.lp.a = lp.a
        /\ n.round = 0 /\ n.max = max /\ n.iters = 0 /\ n.overhead = 0
    BY <1>2, <2>0, <2>1, <2>3, <2>4, StartedNode
  <2>6. max \in Nat /\ max = h - new.sep_iters - new.overhead
    <3>1. PICK a \in Int : a = h - new.sep_iters - new.overhead
      BY <1>7, <1>8
    <3>2. max = GreaterOf(a, 0) /\ max > 0
      BY <1>10, <2>2, <2>3, <3>1 DEF Allowance, MaySeparate
    <3>3. 1 \in Int /\ 1 > 0
      OBVIOUS
    <3>4. GreaterOf(a, 0) \in Nat /\ (GreaterOf(a, 0) > 0 => GreaterOf(a, 0) = a)
      BY <3>3, GreaterIs
    <3> QED
      BY <3>1, <3>2, <3>4
  <2>7. 0 \in 0..TreeRounds
    BY MilpRootAssumption
  <2>8. Len(n.lp.a) <= Len(lp.a) + 0 * Cardinality(lp.ints)
    <3>1. Len(lp.a) \in Nat
      BY <1>2 DEF Shaped
    <3>2. Cardinality(lp.ints) \in Nat
      BY <1>2, OvershootIs
    <3> QED
      BY <2>5, <3>1, <3>2
  <2>9. Shaped(n.lp)
    BY <2>5 DEF Within
  <2>10. 0 + 0 <= max + w
    BY <2>6
  <2>11. Paced(n, new, lp)
    BY <1>10, <1>11, <2>5, <2>6, <2>7, <2>8, <2>9, <2>10 DEF Paced
  <2> QED
    BY <2>4, <2>11
<1>14. phase' \notin Tightening \cup Cutting
  BY <1>1 DEF Tightening, Cutting
<1> QED
  BY <1>1, <1>2, <1>6, <1>8, <1>12, <1>13, <1>14 DEF BudgetInv

\* A round of separation.
LEMMA SeparationRoundSpends ==
  ASSUME RootInv, BudgetInv, prob.ints # {}, SeparationRound PROVE BudgetInv'
<1>1. node.active /\ prob' = prob /\ lp' = lp /\ phase' = phase /\ stats' = stats
  BY DEF SeparationRound, InTree
<1>2. Shaped(lp) /\ stats \in Stats /\ Paced(node, stats, lp)
      /\ (phase \in Tightening \cup Cutting => stats = NoStats)
  BY <1>1 DEF BudgetInv
<1>3. IsSeparation(node)
  BY <1>1 DEF RootInv, MilpInv, Within
<1>4. Paced(node', stats, lp)
  BY <1>2, <1>3, RoundPaces
<1>5. node'.active
  <2>1. IsSeparation(node')
    BY <1>2, <1>3, SeparationRoundIs DEF Paced
  <2> QED
    BY <2>1 DEF IsSeparation
<1> QED
  BY <1>1, <1>2, <1>4, <1>5 DEF BudgetInv

\* The end of a separation.
LEMMA EndSeparationSpends ==
  ASSUME RootInv, BudgetInv, prob.ints # {}, EndSeparation PROVE BudgetInv'
<1>1. node.active /\ prob' = prob /\ lp' = lp /\ phase' = phase /\ node' = NoNode /\ ~node'.active
  BY DEF EndSeparation, InTree, NoNode
<1>2. Shaped(lp) /\ stats \in Stats /\ Paced(node, stats, lp)
  BY <1>1 DEF BudgetInv
<1>3. phase = "tree"
  BY <1>1 DEF RootInv, MilpInv
<1>4. PICK d : /\ d \in {0, stats.dry, stats.dry + 1}
               /\ stats' = [stats EXCEPT !.sep_iters = @ + node.iters, !.overhead = @ + node.overhead, !.dry = d]
  BY DEF EndSeparation
<1>5. /\ stats.nodes \in Nat /\ stats.node_iters \in Nat /\ stats.sep_iters \in Nat /\ stats.overhead \in Nat
      /\ stats.dry \in Nat /\ d \in Nat
  BY <1>2, <1>4 DEF Stats
<1>6. PICK i \in Nat, o \in Nat, m \in Nat, w \in Nat :
        /\ i = node.iters /\ o = node.overhead /\ m = node.max /\ w = Overshoot(lp) /\ i + o <= m + w
        /\ m = Share(TotalIters(stats)) - stats.sep_iters - stats.overhead
  BY <1>2, OvershootIs DEF Paced
<1>7. PICK new : new = [stats EXCEPT !.sep_iters = @ + i, !.overhead = @ + o, !.dry = d]
  OBVIOUS
<1>8. /\ new \in Stats /\ new.nodes = stats.nodes /\ new.node_iters = stats.node_iters
      /\ new.sep_iters = stats.sep_iters + i /\ new.overhead = stats.overhead + o
  <2>1. PICK a \in Nat, b \in Nat : a = stats.sep_iters + i /\ b = stats.overhead + o
    BY <1>5
  <2>2. new = [stats EXCEPT !.sep_iters = a, !.overhead = b, !.dry = d]
    BY <1>7, <2>1
  <2>3. new \in Stats
    BY <1>2, <1>5, <2>2 DEF Stats
  <2>4. /\ new.sep_iters = a /\ new.overhead = b
        /\ new.nodes = stats.nodes /\ new.node_iters = stats.node_iters
    BY <1>2, <2>2 DEF Stats
  <2> QED
    BY <2>1, <2>3, <2>4
<1>9. PICK g \in Nat, h \in Nat : g = Share(TotalIters(stats)) /\ h = Share(TotalIters(new)) /\ g <= h
  <2>1. stats.nodes <= new.nodes /\ stats.node_iters <= new.node_iters /\ stats.sep_iters <= new.sep_iters
    BY <1>5, <1>6, <1>8
  <2> QED
    BY <1>2, <1>8, <2>1, TotalIs
<1>10. new.sep_iters + new.overhead <= h + w
  BY <1>5, <1>6, <1>8, <1>9
<1>11. Settled(new, lp)
  BY <1>6, <1>9, <1>10 DEF Settled
<1>12. stats' = new /\ phase' \notin Tightening \cup Cutting
  BY <1>1, <1>3, <1>4, <1>6, <1>7 DEF Tightening, Cutting
<1> QED
  BY <1>1, <1>2, <1>8, <1>11, <1>12 DEF BudgetInv

\* Every step keeps it.
LEMMA BudgetStep == RootInv /\ RootInv' /\ BudgetInv /\ [ModelNext]_<<vars, milpVars>> => BudgetInv'
<1> SUFFICES ASSUME RootInv, RootInv', BudgetInv, [ModelNext]_<<vars, milpVars>>, prob'.ints # {}
             PROVE  BudgetInv'
  BY DEF BudgetInv
<1>1. prob' = prob
  <2>1. CASE SolveNext
    BY <2>1, SolvesOn, SMTT(30)
  <2>2. CASE MilpNext
    BY <2>2 DEF MilpNext, PropagateAtRoot, ProvenInfeasible, Answer, EndPropagation, Probe, EndRepropagation,
       EndProbing, OrderColumns, CutRound, EndCutRounds, Structural, HandOver, AtRoot, ProcessNode,
       SeparationRound, EndSeparation, InTree, AnswerFromTree
  <2>3. CASE UNCHANGED <<vars, milpVars>>
    BY <2>3 DEF vars, presolveVars
  <2> QED
    BY <2>1, <2>2, <2>3 DEF ModelNext
<1>2. prob.ints # {}
  BY <1>1
<1>3. ASSUME UNCHANGED <<lp, phase, stats, node>> PROVE BudgetInv'
  BY <1>1, <1>3 DEF BudgetInv
<1>4. CASE SolveNext /\ UNCHANGED milpVars
  <2>1. UNCHANGED <<lp, phase>>
    BY <1>2, <1>4, OnlyExpires
  <2> QED
    BY <1>3, <1>4, <2>1 DEF milpVars
<1>5. CASE UNCHANGED <<vars, milpVars>>
  BY <1>3, <1>5 DEF vars, presolveVars, milpVars
<1>6. ASSUME PropagateAtRoot \/ EndPropagation \/ Probe \/ EndRepropagation \/ EndProbing
               \/ OrderColumns \/ CutRound \/ EndCutRounds \/ Structural \/ HandOver
      PROVE  BudgetInv'
  <2>1. phase \in Tightening \cup Cutting /\ phase # "answered"
    BY <1>6 DEF PropagateAtRoot, EndPropagation, Probe, EndRepropagation, EndProbing, OrderColumns, CutRound,
       EndCutRounds, Structural, HandOver, Tightening, Cutting
  <2>2. stats' = stats /\ node' = node
    BY <1>6 DEF PropagateAtRoot, ProvenInfeasible, EndPropagation, Probe, EndRepropagation,
       EndProbing, OrderColumns, CutRound, EndCutRounds, Structural, HandOver, AtRoot, milpVars
  <2>3. Shaped(lp')
    <3>1. CASE phase' # "answered"
      <4>1. phase' \in Tightening \cup Cutting \cup {"tree"}
        BY <1>1, <1>2, <3>1 DEF RootInv, MilpInv
      <4>2. CASE phase' \in Tightening
        <5>1. Sharpened(prob, lp') /\ prob \in Problems
          BY <1>1, <1>2, <4>2 DEF RootInv, MilpInv
        <5> QED
          BY <1>2, <5>1, MixedProgramIs, SharpenedIs
      <4>3. CASE phase' \in Cutting \cup {"tree"}
        <5>1. Kept(prob, lp', root'.plain)
          BY <1>1, <1>2, <4>3 DEF RootInv, MilpInv
        <5> QED
          BY <5>1 DEF Kept
      <4> QED
        BY <4>1, <4>2, <4>3
    <3>2. CASE phase' = "answered"
      <4>1. lp' = lp
        BY <1>6, <2>1, <3>2 DEF PropagateAtRoot, ProvenInfeasible, Answer, EndPropagation, Probe, EndRepropagation,
           EndProbing, OrderColumns, CutRound, EndCutRounds, Structural, HandOver, AtRoot, Enter
      <4> QED
        BY <1>2, <2>1, <4>1, ProgramIsShaped
    <3> QED
      BY <3>1, <3>2
  <2> QED
    BY <1>1, <1>2, <2>1, <2>2, <2>3, BeforeTheTree
<1>7. CASE ProcessNode
  BY <1>2, <1>7, ProcessNodeSpends
<1>8. CASE SeparationRound
  BY <1>2, <1>8, SeparationRoundSpends
<1>9. CASE EndSeparation
  BY <1>2, <1>9, EndSeparationSpends
<1>10. CASE AnswerFromTree
  <2>1. /\ lp' = lp /\ stats' = stats /\ node' = node /\ phase' = "answered"
    BY <1>10 DEF AnswerFromTree, Answer, milpVars
  <2>2. phase' \notin Tightening \cup Cutting
    BY <2>1 DEF Tightening, Cutting
  <2> QED
    BY <1>2, <2>1, <2>2 DEF BudgetInv
<1> QED
  BY <1>4, <1>5, <1>6, <1>7, <1>8, <1>9, <1>10 DEF ModelNext, MilpNext

\* What separation has spent, at the nodes and at the one under way, is within
\* its share of the iterations, but for the surcharge of one last solve.
THEOREM WithinTheBudget == ModelSpec => []SeparationBudget
<1>1. ModelInit => BudgetInv
  BY BudgetStart
<1>2. RootInv /\ RootInv' /\ BudgetInv /\ [ModelNext]_<<vars, milpVars>> => BudgetInv'
  BY BudgetStep
<1>3. RootInv /\ BudgetInv => SeparationBudget
  <2> SUFFICES ASSUME RootInv, BudgetInv, prob.ints # {} PROVE SeparationBudget
    BY DEF SeparationBudget
  <2>1. Shaped(lp) /\ stats \in Stats
    BY DEF BudgetInv
  <2>2. PICK e \in Nat, f \in Nat : e = stats.sep_iters /\ f = stats.overhead
    BY <2>1 DEF Stats
  <2>3. PICK h \in Nat : h = Share(TotalIters(stats))
    <3>1. stats.nodes <= stats.nodes /\ stats.node_iters <= stats.node_iters /\ stats.sep_iters <= stats.sep_iters
      BY <2>1 DEF Stats
    <3> QED
      BY <2>1, <3>1, TotalIs
  <2>4. PICK w \in Nat : w = Overshoot(lp)
    BY <2>1, OvershootIs
  <2>5. Overshoot(lp) = (3 * (Dim(lp) + TreeRounds * Cardinality(lp.ints))) \div 4
    BY DEF Overshoot, Largest
  <2>6. CASE node.active
    <3>1. PICK i \in Nat, o \in Nat, m \in Nat :
            i = node.iters /\ o = node.overhead /\ m = h - e - f /\ i + o <= m + w
      BY <2>2, <2>3, <2>4, <2>6 DEF BudgetInv, Paced
    <3>2. e + f + i + o <= h + w
      BY <3>1
    <3> QED
      BY <2>2, <2>3, <2>4, <2>5, <2>6, <3>1, <3>2 DEF SeparationBudget
  <2>7. CASE ~node.active
    <3>1. e + f <= h + w
      BY <2>2, <2>3, <2>4, <2>7 DEF BudgetInv, Settled
    <3>2. e + f + 0 + 0 <= h + w
      BY <3>1
    <3> QED
      BY <2>2, <2>3, <2>4, <2>5, <2>7, <3>2 DEF SeparationBudget
  <2> QED
    BY <2>6, <2>7
<1> QED
  BY <1>1, <1>2, <1>3, RootIsKept, PTL DEF ModelSpec

=============================================================================
