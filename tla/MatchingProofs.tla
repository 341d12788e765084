--------------------------- MODULE MatchingProofs ---------------------------
(***************************************************************************)
(* Theorems about Matching, for any orders, terms, ages and delays.        *)
(* findMatches is two enumerations of an order: the turns of the buys, and *)
(* the places of the pairs.  In a strict total order on a finite set every *)
(* element has a rank and every rank an element (RanksGrow,                *)
(* RanksAreTaken), so both enumerations are complete; that the greedy      *)
(* pairing is stable goes from one turn to the next (TurnPairs).  The      *)
(* inductive invariant IInv adds to TypeOK that the pairs of a tick have   *)
(* equal terms and that the interval is running while they are tried.      *)
(***************************************************************************)
EXTENDS Matching, SetSums, SequenceTheorems

---------------------------------------------------------------------------
(* Numbers                                                                 *)

\* Of numbers up to n, one is the smallest.
LEMMA LeastOf ==
    ASSUME NEW n \in Nat, NEW S \in SUBSET (0..n), S # {}
    PROVE  \E m \in S : \A k \in S : m <= k
<1> DEFINE T == {n - k : k \in S}
<1>1. T \in SUBSET (0..n) /\ T # {}
  <2>1. \A k \in S : k \in Int /\ 0 <= k /\ k <= n
    OBVIOUS
  <2>2. \A k \in S : n - k \in 0..n
    BY <2>1
  <2> QED
    BY <2>2
<1>2. PICK m \in T : \A k \in T : k <= m
  <2> HIDE DEF T
  <2> QED
    BY <1>1, LargestOf
<1>3. PICK s \in S : m = n - s
  BY <1>2
<1>4. \A k \in S : k \in Int /\ n - k \in T
  OBVIOUS
<1>5. ASSUME NEW k \in S PROVE s <= k
  <2>1. n - k <= n - s /\ k \in Int /\ s \in Int
    BY <1>2, <1>3, <1>4, <1>5
  <2> QED
    BY <2>1
<1> QED
  BY <1>5

\* A power of two is a natural number and larger than its exponent.
LEMMA PowerOfTwo ==
    ASSUME NEW n \in Nat
    PROVE  2 ^ n \in Nat /\ 2 ^ n > n
<1> DEFINE S == 1..n
           T == {{k} : k \in S} \cup {{}}
           f == [k \in 0..n |-> IF k = 0 THEN {} ELSE {k}]
<1>1. IsFiniteSet(S) /\ Cardinality(S) = n
  BY FS_Interval
<1>2. IsFiniteSet(SUBSET S) /\ Cardinality(SUBSET S) = 2 ^ n
  BY <1>1, FS_SUBSET
<1>3. 2 ^ n \in Nat
  BY <1>2, FS_CardinalityType
<1>4. f \in Injection(0..n, SUBSET S)
  BY DEF Injection, IsInjective
<1>5. Cardinality(0..n) <= Cardinality(SUBSET S)
  BY <1>2, <1>4, FS_Injection
<1>6. Cardinality(0..n) = n + 1
  BY FS_Interval
<1> QED
  BY <1>2, <1>3, <1>5, <1>6

---------------------------------------------------------------------------
(* Ranks.  The place of an element in a strict total order is the number   *)
(* of elements before it.                                                  *)

StrictTotalOrder(S, R) ==
    /\ \A x \in S : <<x, x>> \notin R
    /\ \A x, y, z \in S : <<x, y>> \in R /\ <<y, z>> \in R => <<x, z>> \in R
    /\ \A x, y \in S : x # y => <<x, y>> \in R \/ <<y, x>> \in R

Rank(S, R, x) == Cardinality({y \in S : <<y, x>> \in R})

\* The rank grows with the order, and no two elements have the same.
LEMMA RanksGrow ==
    ASSUME NEW S, IsFiniteSet(S), NEW R, StrictTotalOrder(S, R)
    PROVE  /\ \A x \in S : Rank(S, R, x) \in 0..(Cardinality(S) - 1)
           /\ \A x, y \in S : <<x, y>> \in R <=> Rank(S, R, x) < Rank(S, R, y)
           /\ \A x, y \in S : Rank(S, R, x) = Rank(S, R, y) => x = y
<1> DEFINE below(x) == {y \in S : <<y, x>> \in R}
<1>1. \A x \in S : /\ below(x) \in SUBSET S /\ IsFiniteSet(below(x)) /\ Cardinality(below(x)) \in Nat
                   /\ Rank(S, R, x) = Cardinality(below(x))
  BY FS_Subset, FS_CardinalityType DEF Rank
<1>2. ASSUME NEW x \in S PROVE Rank(S, R, x) \in 0..(Cardinality(S) - 1)
  <2>1. below(x) \cup {x} \in SUBSET S /\ x \notin below(x)
    BY <1>2 DEF StrictTotalOrder
  <2>2. Cardinality(below(x) \cup {x}) = Cardinality(below(x)) + 1
    BY <1>1, <1>2, <2>1, FS_AddElement
  <2>3. Cardinality(below(x) \cup {x}) <= Cardinality(S) /\ Cardinality(S) \in Nat
    BY <2>1, FS_Subset, FS_CardinalityType
  <2> QED
    BY <1>1, <1>2, <2>2, <2>3
<1>3. ASSUME NEW x \in S, NEW y \in S, <<x, y>> \in R PROVE Rank(S, R, x) < Rank(S, R, y)
  <2>1. below(x) \cup {x} \in SUBSET below(y) /\ x \notin below(x)
    BY <1>3 DEF StrictTotalOrder
  <2>2. Cardinality(below(x) \cup {x}) = Cardinality(below(x)) + 1
    BY <1>1, <1>3, <2>1, FS_AddElement
  <2>3. Cardinality(below(x) \cup {x}) <= Cardinality(below(y))
    BY <1>1, <1>3, <2>1, FS_Subset
  <2>4. /\ Cardinality(below(x)) \in Nat /\ Cardinality(below(y)) \in Nat
        /\ Rank(S, R, x) = Cardinality(below(x)) /\ Rank(S, R, y) = Cardinality(below(y))
    BY <1>1, <1>3
  <2> HIDE DEF below
  <2> QED
    BY <2>2, <2>3, <2>4
<1>4. \A x \in S : Rank(S, R, x) \in Nat
  BY <1>1
<1>5. ASSUME NEW x \in S, NEW y \in S
      PROVE  /\ <<x, y>> \in R <=> Rank(S, R, x) < Rank(S, R, y)
             /\ Rank(S, R, x) = Rank(S, R, y) => x = y
  <2>1. x = y \/ <<x, y>> \in R \/ <<y, x>> \in R
    BY <1>5 DEF StrictTotalOrder
  <2>2. Rank(S, R, x) \in Nat /\ Rank(S, R, y) \in Nat
    BY <1>4, <1>5
  <2>3. <<x, y>> \in R => Rank(S, R, x) < Rank(S, R, y)
    BY <1>3, <1>5
  <2>4. <<y, x>> \in R => Rank(S, R, y) < Rank(S, R, x)
    BY <1>3, <1>5
  <2> QED
    BY <2>1, <2>2, <2>3, <2>4
<1> QED
  BY <1>2, <1>5

\* Every place is taken.
LEMMA RanksAreTaken ==
    ASSUME NEW S, IsFiniteSet(S), NEW R, StrictTotalOrder(S, R)
    PROVE  \A i \in 0..(Cardinality(S) - 1) : \E x \in S : Rank(S, R, x) = i
<1> DEFINE n == Cardinality(S)
           rank == [x \in S |-> Rank(S, R, x)]
           T == 0..(n - 1)
<1>1. n \in Nat /\ IsFiniteSet(T) /\ Cardinality(T) = n
  <2>1. n \in Nat
    BY FS_CardinalityType
  <2>2. /\ IsFiniteSet(0..(n - 1))
        /\ Cardinality(0..(n - 1)) = IF 0 > n - 1 THEN 0 ELSE (n - 1) - 0 + 1
    BY <2>1, FS_Interval
  <2> QED
    BY <2>1, <2>2
<1>2. rank \in Injection(S, T)
  BY RanksGrow DEF Injection, IsInjective
<1>3. rank \in Surjection(S, T)
  <2> HIDE DEF T, rank
  <2> QED
    BY <1>1, <1>2, FS_Injection
<1> QED
  BY <1>3 DEF Surjection

---------------------------------------------------------------------------
(* The order of the book                                                   *)

\* sort is a strict total order: no two cells have the same age.
LEMMA BookIsOrdered ==
    StrictTotalOrder(Orders, {r \in Orders \X Orders : Before(r[1], r[2])})
<1> DEFINE R == {r \in Orders \X Orders : Before(r[1], r[2])}
<1>1. \A o, p \in Orders : <<o, p>> \in R <=> Before(o, p)
  OBVIOUS
<1>2. /\ \A o \in Orders : Terms[o].price \in Nat /\ Age[o] \in Nat
      /\ \A o, p \in Orders : o # p => Age[o] # Age[p]
      /\ Buys \cap Sells = {} /\ Orders = Buys \cup Sells
  BY MatchingConstants DEF Orders
<1>3. \A o \in Orders : ~Before(o, o)
  BY <1>2 DEF Before
<1>4. ASSUME NEW o \in Orders, NEW p \in Orders, NEW q \in Orders, Before(o, p), Before(p, q)
      PROVE  Before(o, q)
  <2>1. CASE o \in Sells /\ p \in Buys
    BY <1>2, <1>4, <2>1 DEF Before
  <2>2. CASE {o, p} \subseteq Sells
    BY <1>2, <1>4, <2>2 DEF Before
  <2>3. CASE {o, p} \subseteq Buys
    BY <1>2, <1>4, <2>3 DEF Before
  <2> QED
    BY <1>4, <2>1, <2>2, <2>3 DEF Before
<1>5. ASSUME NEW o \in Orders, NEW p \in Orders, o # p PROVE Before(o, p) \/ Before(p, o)
  BY <1>2, <1>5 DEF Before
<1> HIDE DEF R
<1> QED
  BY <1>1, <1>3, <1>4, <1>5 DEF StrictTotalOrder

\* Hence every order has a place of its own.
LEMMA Places ==
    /\ IsFiniteSet(Orders) /\ Cardinality(Orders) \in Nat
    /\ \A o \in Orders : Place[o] \in 0..(Cardinality(Orders) - 1)
    /\ \A o, p \in Orders : Place[o] = Place[p] => o = p
<1> DEFINE R == {r \in Orders \X Orders : Before(r[1], r[2])}
<1>1. IsFiniteSet(Orders) /\ Cardinality(Orders) \in Nat
  BY MatchingConstants, FS_CardinalityType
<1>2. StrictTotalOrder(Orders, R)
  BY BookIsOrdered
<1>3. \A o \in Orders : {p \in Orders : <<p, o>> \in R} = {p \in Orders : Before(p, o)}
  OBVIOUS
<1> HIDE DEF R
<1>4. \A o \in Orders : Place[o] = Rank(Orders, R, o)
  BY <1>3 DEF Place, Rank
<1>5. /\ \A o \in Orders : Rank(Orders, R, o) \in 0..(Cardinality(Orders) - 1)
      /\ \A o, p \in Orders : Rank(Orders, R, o) = Rank(Orders, R, p) => o = p
  BY <1>1, <1>2, RanksGrow
<1> QED
  BY <1>1, <1>4, <1>5

\* The first of some orders.
LEMMA FirstIsFirst ==
    ASSUME NEW orders \in SUBSET Orders, orders # {}
    PROVE  First(orders) \in orders /\ \A p \in orders : Place[First(orders)] <= Place[p]
<1> DEFINE n == Cardinality(Orders)
           places == {Place[o] : o \in orders}
<1>1. n \in Nat /\ places \in SUBSET (0..n) /\ places # {}
  <2>1. \A o \in Orders : Place[o] \in 0..n
    BY Places
  <2> QED
    BY <2>1, Places
<1>2. PICK m \in places : \A k \in places : m <= k
  <2> HIDE DEF places, n
  <2> QED
    BY <1>1, LeastOf
<1>3. \E o \in orders : \A p \in orders : Place[o] <= Place[p]
  BY <1>2
<1> QED
  BY <1>3 DEF First

---------------------------------------------------------------------------
(* The pairs of a book                                                     *)

\* What the turn of the buy order at place i - 1 adds.
Turn(buys, sells, i, earlier) ==
    earlier \cup {<<b, First(Candidates(b, sells, earlier))>> :
                    b \in {b \in {c \in buys : Place[c] = i - 1} : Candidates(b, sells, earlier) # {}}}

\* pairs[i] is what the turns of the first i places have found.
Turns(pairs, n, buys, sells) ==
    pairs = [i \in 0..n |-> IF i = 0 THEN {} ELSE Turn(buys, sells, i, pairs[i - 1])]

\* The recursion has a solution, and PairUp is its last value.
LEMMA TurnsExist ==
    ASSUME NEW n \in Nat, NEW buys, NEW sells
    PROVE  \E pairs : Turns(pairs, n, buys, sells)
<1> DEFINE good == {k \in 0..n : \E pairs : Turns(pairs, k, buys, sells)}
<1>1. 0 \in good
  <2> DEFINE f == [i \in 0..0 |-> {}]
  <2>1. Turns(f, 0, buys, sells)
    BY DEF Turns
  <2> QED
    BY <2>1
<1>2. PICK m \in good : \A k \in good : k <= m
  <2>1. good \in SUBSET (0..n) /\ good # {}
    BY <1>1
  <2> HIDE DEF good
  <2> QED
    BY <2>1, LargestOf
<1>3. ASSUME m < n PROVE FALSE
  <2>1. PICK f : Turns(f, m, buys, sells)
    OBVIOUS
  <2>2. m \in Nat /\ m + 1 \in 0..n
    BY <1>3
  <2> DEFINE g == [i \in 0..(m + 1) |-> IF i = m + 1 THEN Turn(buys, sells, m + 1, f[m]) ELSE f[i]]
  <2>3. ASSUME NEW i \in 0..(m + 1)
        PROVE  g[i] = IF i = 0 THEN {} ELSE Turn(buys, sells, i, g[i - 1])
    <3>1. CASE i = m + 1
      <4>1. g[m] = f[m] /\ i # 0 /\ i - 1 = m
        BY <2>2, <3>1
      <4> QED
        BY <3>1, <4>1
    <3>2. CASE i # m + 1
      <4>1. i \in 0..m /\ g[i] = f[i]
        BY <2>2, <3>2
      <4>2. f[i] = IF i = 0 THEN {} ELSE Turn(buys, sells, i, f[i - 1])
        BY <2>1, <4>1 DEF Turns
      <4>3. i # 0 => g[i - 1] = f[i - 1]
        BY <2>2, <4>1
      <4> QED
        BY <4>1, <4>2, <4>3
    <3> QED
      BY <3>1, <3>2
  <2>4. Turns(g, m + 1, buys, sells)
    BY <2>3 DEF Turns
  <2>5. m + 1 \in good
    BY <2>2, <2>4
  <2> QED
    BY <1>2, <2>2, <2>5
<1>4. m = n
  BY <1>3
<1> QED
  BY <1>4

LEMMA PairUpTurns ==
    ASSUME NEW buys, NEW sells
    PROVE  \E pairs : /\ Turns(pairs, Cardinality(Orders), buys, sells)
                      /\ PairUp(buys, sells) = pairs[Cardinality(Orders)]
<1> DEFINE n == Cardinality(Orders)
           f == CHOOSE pairs : Turns(pairs, n, buys, sells)
<1>1. Turns(f, n, buys, sells)
  BY Places, TurnsExist
<1>2. PairUp(buys, sells) = f[n]
  BY DEF PairUp, Turns, Turn
<1> QED
  BY <1>1, <1>2

MayPair(b, s) == Terms[s] = Terms[b] /\ ~IsPairBlocked(<<b, s>>)

\* What pairs of the orders given have to be when the buys before place i
\* have had their turn.
PairedUpTo(pairs, i, buys, sells) ==
    /\ pairs \subseteq buys \X sells
    /\ \A p \in pairs : Place[p[1]] < i /\ MayPair(p[1], p[2])
    /\ \A p, q \in pairs : p # q => p[1] # q[1] /\ p[2] # q[2]
    /\ \A b \in buys, s \in sells :
         Place[b] < i /\ MayPair(b, s) =>
           \E p \in pairs : \/ p[1] = b /\ Place[p[2]] <= Place[s]
                            \/ p[2] = s /\ Place[p[1]] <= Place[b]

\* One turn keeps this.
LEMMA TurnPairs ==
    ASSUME NEW buys \in SUBSET Buys, NEW sells \in SUBSET Sells, NEW i \in Nat,
           NEW earlier, PairedUpTo(earlier, i, buys, sells)
    PROVE  PairedUpTo(Turn(buys, sells, i + 1, earlier), i + 1, buys, sells)
<1> DEFINE now == Turn(buys, sells, i + 1, earlier)
<1>1. /\ \A b \in buys : b \in Orders /\ Place[b] \in Nat
      /\ \A s \in sells : s \in Orders /\ Place[s] \in Nat
      /\ \A b, c \in buys : Place[b] = Place[c] => b = c
  BY Places DEF Orders
<1>2. i + 1 - 1 = i
  OBVIOUS
<1>3. \A b : Candidates(b, sells, earlier) =
               {s \in sells : MayPair(b, s) /\ \A p \in earlier : p[2] # s}
  BY DEF Candidates, MayPair
<1>4. CASE \A b \in buys : Place[b] # i
  <2>1. now = earlier
    BY <1>2, <1>4 DEF Turn
  <2>2. \A b \in buys : Place[b] < i + 1 <=> Place[b] < i
    BY <1>1, <1>4
  <2> QED
    BY <2>1, <2>2 DEF PairedUpTo
<1>5. ASSUME NEW b \in buys, Place[b] = i PROVE PairedUpTo(now, i + 1, buys, sells)
  <2>1. \A c \in buys : Place[c] = i <=> c = b
    BY <1>1, <1>5
  <2>2. \A c \in buys : Place[c] < i + 1 <=> Place[c] < i \/ c = b
    BY <1>1, <2>1
  <2>3. \A p \in earlier : p[1] \in buys /\ p[1] # b /\ p[2] \in sells
    BY <1>1, <1>5 DEF PairedUpTo
  <2>4. CASE Candidates(b, sells, earlier) = {}
    <3>1. now = earlier
      BY <1>2, <2>1, <2>4 DEF Turn
    <3>2. \A s \in sells : MayPair(b, s) => \E p \in earlier : p[2] = s
      BY <1>3, <2>4
    <3>3. \A p \in earlier : Place[p[1]] <= Place[b]
      BY <1>1, <1>5, <2>3 DEF PairedUpTo
    <3>4. \A p \in earlier : Place[p[1]] < i + 1 /\ MayPair(p[1], p[2])
      BY <2>2, <2>3 DEF PairedUpTo
    <3>5. ASSUME NEW c \in buys, NEW s \in sells, Place[c] < i + 1, MayPair(c, s)
          PROVE  \E p \in earlier : \/ p[1] = c /\ Place[p[2]] <= Place[s]
                                    \/ p[2] = s /\ Place[p[1]] <= Place[c]
      <4>1. CASE c = b
        BY <3>2, <3>3, <3>5, <4>1
      <4>2. CASE c # b
        BY <2>2, <3>5, <4>2 DEF PairedUpTo
      <4> QED
        BY <4>1, <4>2
    <3> QED
      BY <3>1, <3>4, <3>5 DEF PairedUpTo
  <2>5. CASE Candidates(b, sells, earlier) # {}
    <3> DEFINE f == First(Candidates(b, sells, earlier))
    <3>1. now = earlier \cup {<<b, f>>}
      <4>1. {c \in {c \in buys : Place[c] = i + 1 - 1} : Candidates(c, sells, earlier) # {}} = {b}
        BY <1>2, <2>1, <2>5
      <4> QED
        BY <4>1 DEF Turn
    <3>2. /\ f \in sells /\ MayPair(b, f) /\ \A p \in earlier : p[2] # f
          /\ \A s \in Candidates(b, sells, earlier) : Place[f] <= Place[s]
      <4>1. Candidates(b, sells, earlier) \in SUBSET Orders
        BY <1>1, <1>3
      <4>2. /\ f \in Candidates(b, sells, earlier)
            /\ \A s \in Candidates(b, sells, earlier) : Place[f] <= Place[s]
        BY <2>5, <4>1, FirstIsFirst
      <4> QED
        BY <1>3, <4>2
    <3> HIDE DEF f
    <3>3. now \subseteq buys \X sells
      BY <3>1, <3>2 DEF PairedUpTo
    <3>4. \A p \in now : Place[p[1]] < i + 1 /\ MayPair(p[1], p[2])
      BY <1>5, <2>2, <2>3, <3>1, <3>2 DEF PairedUpTo
    <3>5. \A p, q \in now : p # q => p[1] # q[1] /\ p[2] # q[2]
      BY <2>3, <3>1, <3>2 DEF PairedUpTo
    <3>6. ASSUME NEW c \in buys, NEW s \in sells, Place[c] < i + 1, MayPair(c, s)
          PROVE  \E p \in now : \/ p[1] = c /\ Place[p[2]] <= Place[s]
                                \/ p[2] = s /\ Place[p[1]] <= Place[c]
      <4>1. CASE c = b /\ s \in Candidates(b, sells, earlier)
        <5>1. <<b, f>> \in now /\ <<b, f>>[1] = b /\ <<b, f>>[2] = f
          BY <3>1
        <5> QED
          BY <3>2, <4>1, <5>1
      <4>2. CASE c = b /\ s \notin Candidates(b, sells, earlier)
        <5>1. PICK p \in earlier : p[2] = s
          BY <1>3, <3>6, <4>2
        <5>2. Place[p[1]] <= Place[b]
          BY <1>1, <1>5, <2>3, <5>1 DEF PairedUpTo
        <5> QED
          BY <3>1, <4>2, <5>1, <5>2
      <4>3. CASE c # b
        BY <2>2, <3>1, <3>6, <4>3 DEF PairedUpTo
      <4> QED
        BY <4>1, <4>2, <4>3
    <3> QED
      BY <3>3, <3>4, <3>5, <3>6 DEF PairedUpTo
  <2> QED
    BY <2>4, <2>5
<1> QED
  BY <1>4, <1>5

\* The greedy pairing is stable.
LEMMA PairUpIsStable ==
    ASSUME NEW buys \in SUBSET Buys, NEW sells \in SUBSET Sells
    PROVE  PairedUpTo(PairUp(buys, sells), Cardinality(Orders), buys, sells)
<1> DEFINE n == Cardinality(Orders)
<1>1. n \in Nat
  BY Places
<1>2. PICK pairs : Turns(pairs, n, buys, sells) /\ PairUp(buys, sells) = pairs[n]
  BY PairUpTurns
<1> DEFINE good == {k \in 0..n : PairedUpTo(pairs[k], k, buys, sells)}
<1>3. 0 \in good
  <2>1. pairs[0] = {}
    BY <1>1, <1>2 DEF Turns
  <2>2. \A b \in buys : ~(Place[b] < 0)
    BY Places DEF Orders
  <2> QED
    BY <1>1, <2>1, <2>2 DEF PairedUpTo
<1>4. PICK m \in good : \A k \in good : k <= m
  <2>1. good \in SUBSET (0..n) /\ good # {}
    BY <1>3
  <2> HIDE DEF good, n
  <2> QED
    BY <1>1, <2>1, LargestOf
<1>5. ASSUME m < n PROVE FALSE
  <2>1. m \in Nat /\ m + 1 \in 0..n /\ PairedUpTo(pairs[m], m, buys, sells)
    BY <1>1, <1>4, <1>5
  <2>2. pairs[m + 1] = Turn(buys, sells, m + 1, pairs[m])
    <3>1. m + 1 # 0 /\ (m + 1) - 1 = m
      BY <2>1
    <3>2. \A i \in 0..n : pairs[i] = IF i = 0 THEN {} ELSE Turn(buys, sells, i, pairs[i - 1])
      BY <1>2 DEF Turns
    <3>3. pairs[m + 1] = Turn(buys, sells, m + 1, pairs[(m + 1) - 1])
      BY <2>1, <3>1, <3>2
    <3> QED
      BY <3>1, <3>3
  <2>3. m + 1 \in good
    BY <2>1, <2>2, TurnPairs
  <2> QED
    BY <1>4, <2>1, <2>3
<1>6. m = n
  BY <1>1, <1>5
<1> QED
  BY <1>2, <1>6

---------------------------------------------------------------------------
(* The pairs of a tick                                                     *)

Eligible(orders) == {o \in orders : quarantined[o] = 0}
PairsOf(orders) == PairUp(Eligible(orders) \cap Buys, Eligible(orders) \cap Sells)
Leader(orders, p) == First({o \in Eligible(orders) : Terms[o] = Terms[p[1]]})
Sooner(orders, p, q) ==
    \/ Place[Leader(orders, p)] < Place[Leader(orders, q)]
    \/ Leader(orders, p) = Leader(orders, q) /\ Place[p[1]] < Place[q[1]]

\* The groups in the order of their leaders, and in each group its pairs in the
\* order of their buys, are a strict total order.
LEMMA PairsAreOrdered ==
    ASSUME NEW orders \in SUBSET Orders
    PROVE  /\ PairsOf(orders) \subseteq Pairs /\ IsFiniteSet(PairsOf(orders))
           /\ StrictTotalOrder(PairsOf(orders), {r \in PairsOf(orders) \X PairsOf(orders) :
                                                   Sooner(orders, r[1], r[2])})
<1> DEFINE E == Eligible(orders)
           pairs == PairsOf(orders)
           R == {r \in pairs \X pairs : Sooner(orders, r[1], r[2])}
<1>1. PairedUpTo(pairs, Cardinality(Orders), E \cap Buys, E \cap Sells)
  BY PairUpIsStable DEF PairsOf
<1>2. /\ pairs \subseteq Pairs
      /\ \A p \in pairs : p[1] \in E /\ p[1] \in Orders
      /\ \A p, q \in pairs : p[1] = q[1] => p = q
  BY <1>1 DEF PairedUpTo, Pairs, Eligible, Orders
<1>3. IsFiniteSet(pairs)
  <2>1. IsFiniteSet(Buys) /\ IsFiniteSet(Sells)
    <3>1. Buys \in SUBSET Orders /\ Sells \in SUBSET Orders
      BY DEF Orders
    <3> QED
      BY <3>1, Places, FS_Subset
  <2>2. IsFiniteSet(Pairs)
    BY <2>1, FS_Product DEF Pairs
  <2> QED
    BY <1>2, <2>2, FS_Subset
<1>4. \A p \in pairs : Leader(orders, p) \in Orders /\ Place[Leader(orders, p)] \in Nat /\ Place[p[1]] \in Nat
  <2>1. ASSUME NEW p \in pairs PROVE Leader(orders, p) \in Orders
    <3> DEFINE group == {o \in E : Terms[o] = Terms[p[1]]}
    <3>1. group \in SUBSET Orders /\ group # {}
      BY <1>2, <2>1 DEF Eligible
    <3>2. First(group) \in group
      <4> HIDE DEF group
      <4> QED
        BY <3>1, FirstIsFirst
    <3> QED
      BY <3>1, <3>2 DEF Leader
  <2> QED
    BY <1>2, <2>1, Places
<1>5. \A p, q \in pairs : <<p, q>> \in R <=> Sooner(orders, p, q)
  OBVIOUS
<1>6. \A p \in pairs : ~Sooner(orders, p, p)
  BY <1>4 DEF Sooner
<1>7. ASSUME NEW p \in pairs, NEW q \in pairs, NEW r \in pairs, Sooner(orders, p, q), Sooner(orders, q, r)
      PROVE  Sooner(orders, p, r)
  BY <1>4, <1>7 DEF Sooner
<1>8. ASSUME NEW p \in pairs, NEW q \in pairs, p # q PROVE Sooner(orders, p, q) \/ Sooner(orders, q, p)
  <2>1. p[1] # q[1] /\ Place[p[1]] # Place[q[1]]
    BY <1>2, <1>8, Places
  <2>2. Place[Leader(orders, p)] = Place[Leader(orders, q)] => Leader(orders, p) = Leader(orders, q)
    BY <1>4, Places
  <2> QED
    BY <1>4, <2>1, <2>2 DEF Sooner
<1> HIDE DEF R, pairs
<1>9. StrictTotalOrder(pairs, R)
  BY <1>5, <1>6, <1>7, <1>8 DEF StrictTotalOrder
<1> QED
  BY <1>2, <1>3, <1>9 DEF pairs, R

\* A tick tries exactly these pairs, one after the other.
LEMMA FindMatchesFinds ==
    ASSUME NEW orders \in SUBSET Orders
    PROVE  LET matches == FindMatches(orders)
           IN  /\ matches \in Seq(PairsOf(orders)) /\ matches \in Seq(Pairs)
               /\ {matches[i] : i \in DOMAIN matches} = PairsOf(orders)
<1> DEFINE pairs == PairsOf(orders)
           n == Cardinality(pairs)
           R == {r \in pairs \X pairs : Sooner(orders, r[1], r[2])}
           matches == FindMatches(orders)
<1>1. matches = [i \in 1..n |-> CHOOSE p \in pairs : Cardinality({q \in pairs : Sooner(orders, q, p)}) = i - 1]
  <2> DEFINE leader == [p \in pairs |-> Leader(orders, p)]
             sooner(p, q) == \/ Place[leader[p]] < Place[leader[q]]
                             \/ leader[p] = leader[q] /\ Place[p[1]] < Place[q[1]]
  <2>1. matches = [i \in 1..n |-> CHOOSE p \in pairs : Cardinality({q \in pairs : sooner(q, p)}) = i - 1]
    BY DEF FindMatches, Leader, PairsOf, Eligible
  <2>2. \A p, q \in pairs : sooner(p, q) <=> Sooner(orders, p, q)
    BY DEF Sooner
  <2> HIDE DEF sooner, pairs
  <2>3. \A p \in pairs : {q \in pairs : sooner(q, p)} = {q \in pairs : Sooner(orders, q, p)}
    BY <2>2
  <2> QED
    BY <2>1, <2>3
<1> HIDE DEF matches
<1>2. /\ pairs \subseteq Pairs /\ IsFiniteSet(pairs) /\ n \in Nat /\ StrictTotalOrder(pairs, R)
  BY PairsAreOrdered, FS_CardinalityType
<1>3. \A p \in pairs : Rank(pairs, R, p) = Cardinality({q \in pairs : Sooner(orders, q, p)})
  <2>1. \A p \in pairs : {q \in pairs : <<q, p>> \in R} = {q \in pairs : Sooner(orders, q, p)}
    OBVIOUS
  <2> QED
    BY <2>1 DEF Rank
<1> HIDE DEF pairs, R
<1>4. /\ \A p \in pairs : Rank(pairs, R, p) \in 0..(n - 1)
      /\ \A p, q \in pairs : Rank(pairs, R, p) = Rank(pairs, R, q) => p = q
      /\ \A i \in 0..(n - 1) : \E p \in pairs : Rank(pairs, R, p) = i
  BY <1>2, RanksGrow, RanksAreTaken
<1>5. ASSUME NEW i \in 1..n PROVE matches[i] \in pairs /\ Rank(pairs, R, matches[i]) = i - 1
  <2>1. i - 1 \in 0..(n - 1)
    BY <1>2
  <2>2. \E p \in pairs : Cardinality({q \in pairs : Sooner(orders, q, p)}) = i - 1
    BY <1>3, <1>4, <2>1
  <2> QED
    BY <1>1, <1>3, <2>2
<1>6. matches \in [1..n -> pairs] /\ DOMAIN matches = 1..n
  BY <1>1, <1>5
<1>7. matches \in Seq(pairs) /\ matches \in Seq(Pairs)
  <2>1. matches \in Seq(pairs)
    BY <1>2, <1>6, SeqDef
  <2> QED
    BY <1>2, <2>1, SeqMonotonic
<1>8. ASSUME NEW p \in pairs PROVE \E i \in 1..n : matches[i] = p
  <2>1. Rank(pairs, R, p) \in 0..(n - 1) /\ Rank(pairs, R, p) + 1 \in 1..n
    BY <1>2, <1>4
  <2>2. matches[Rank(pairs, R, p) + 1] \in pairs
        /\ Rank(pairs, R, matches[Rank(pairs, R, p) + 1]) = Rank(pairs, R, p)
    BY <1>5, <2>1
  <2>3. matches[Rank(pairs, R, p) + 1] = p
    BY <1>4, <2>2
  <2> QED
    BY <2>1, <2>3
<1>9. {matches[i] : i \in DOMAIN matches} = pairs
  BY <1>5, <1>6, <1>8
<1> QED
  BY <1>7, <1>9 DEF matches, pairs

---------------------------------------------------------------------------
(* The delays                                                              *)

\* The delay reaches its cap, so counting further than Enough changes nothing.
LEMMA EnoughIsEnough == Enough \in 1..MAX_PAIR_BACKOFF
<1> DEFINE B == BASE_PAIR_BACKOFF
           M == MAX_PAIR_BACKOFF
           reach == {n \in 1..M : B * 2 ^ (n - 1) >= M}
<1>1. B \in Nat /\ B >= 1 /\ M \in Nat /\ M >= 1
  BY MatchingConstants
<1>2. \A n \in 1..M : 2 ^ (n - 1) \in Nat
  <2>1. \A n \in 1..M : n - 1 \in Nat
    BY <1>1
  <2> QED
    BY <2>1, PowerOfTwo
<1>3. M \in reach
  <2> DEFINE k == 2 ^ (M - 1)
  <2>1. k \in Nat /\ k >= M
    <3>1. M - 1 \in Nat
      BY <1>1
    <3>2. 2 ^ (M - 1) \in Nat /\ 2 ^ (M - 1) > M - 1
      BY <3>1, PowerOfTwo
    <3> QED
      BY <1>1, <3>2
  <2> HIDE DEF k
  <2>2. B * k >= k
    BY <1>1, <2>1
  <2>3. B * k >= M
    BY <1>1, <2>1, <2>2
  <2> QED
    BY <1>1, <2>3 DEF k
<1>4. PICK m \in reach : \A k \in reach : m <= k
  <2>1. reach \in SUBSET (0..M) /\ reach # {}
    BY <1>1, <1>3
  <2> HIDE DEF reach, M
  <2> QED
    BY <1>1, <2>1, LeastOf
<1>5. ASSUME NEW k \in 1..(m - 1) PROVE B * 2 ^ (k - 1) < M
  <2>1. k \in 1..M /\ ~(m <= k)
    BY <1>1, <1>4, <1>5
  <2>2. k \notin reach
    BY <1>4, <2>1
  <2> DEFINE x == 2 ^ (k - 1)
  <2>3. x \in Nat
    BY <1>2, <2>1
  <2>4. ~(B * x >= M)
    BY <2>1, <2>2
  <2> HIDE DEF x
  <2>5. B * x < M
    BY <1>1, <2>3, <2>4
  <2> QED
    BY <2>5 DEF x
<1>6. \E n \in 1..M : B * 2 ^ (n - 1) >= M /\ \A k \in 1..(n - 1) : B * 2 ^ (k - 1) < M
  BY <1>4, <1>5
<1> QED
  BY <1>6 DEF Enough

LEMMA DelayType ==
    ASSUME NEW n \in Nat, n >= 1
    PROVE  Delay(n) \in 0..MAX_PAIR_BACKOFF
<1> DEFINE x == 2 ^ (n - 1)
<1>1. x \in Nat
  <2>1. n - 1 \in Nat
    OBVIOUS
  <2> QED
    BY <2>1, PowerOfTwo
<1>2. Delay(n) = AtMost(BASE_PAIR_BACKOFF * x, MAX_PAIR_BACKOFF)
  BY DEF Delay
<1> HIDE DEF x
<1>3. BASE_PAIR_BACKOFF * x \in Nat /\ MAX_PAIR_BACKOFF \in Nat
  <2>1. BASE_PAIR_BACKOFF \in Nat /\ MAX_PAIR_BACKOFF \in Nat
    BY MatchingConstants
  <2> QED
    BY <1>1, <2>1
<1> QED
  BY <1>2, <1>3 DEF AtMost

---------------------------------------------------------------------------
(* Type correctness                                                        *)

\* The pairs of a tick have equal terms, and a tick starts with the interval's
\* next firing ahead of it.
QueueIsMatched == \A i \in DOMAIN queue : Terms[queue[i][1]] = Terms[queue[i][2]]
TimerRuns == ~Idle => timer > 0

IInv == TypeOK /\ QueueIsMatched /\ TimerRuns

LEMMA Numbers ==
    /\ pollInterval \in Nat /\ pollInterval >= 1
    /\ MAX_MATCHES_PER_TICK \in Nat /\ MAX_MATCHES_PER_TICK >= 1
    /\ MAX_PAIR_BACKOFF \in Nat /\ ORDER_QUARANTINE \in Nat /\ AttemptTime \in Nat /\ MaxFaults \in Nat
    /\ Enough \in Nat /\ Enough >= 1
<1>1. MAX_PAIR_BACKOFF \in Nat /\ Enough \in 1..MAX_PAIR_BACKOFF
  BY MatchingConstants, EnoughIsEnough
<1>2. Enough \in Nat /\ Enough >= 1
  BY <1>1
<1> QED
  BY <1>1, <1>2, MatchingConstants

LEMMA TypeInit == Init => IInv
<1> SUFFICES ASSUME Init PROVE IInv
  OBVIOUS
<1>1. /\ status \in [Orders -> Statuses]
      /\ quarantined \in [Orders -> 0..ORDER_QUARANTINE]
      /\ failures \in [Pairs -> 0..Enough]
      /\ blocked \in [Pairs -> 0..MAX_PAIR_BACKOFF]
      /\ \A p \in Pairs : blocked[p] = 0
  BY MatchingConstants, Numbers DEF Init
<1>2. queue = <<>> /\ queue \in Seq(Pairs) /\ Len(queue) = 0 /\ DOMAIN queue = {}
  BY EmptySeq DEF Init
<1>3. timer \in 0..pollInterval /\ spare = 0 /\ spare \in 0..AttemptTime /\ faults \in 0..MaxFaults
  BY Numbers DEF Init
<1> QED
  BY <1>1, <1>2, <1>3, Numbers DEF IInv, TypeOK, QueueIsMatched, TimerRuns, Idle

\* What is left of the tick after one attempt.
LEMMA FinishKeeps ==
    ASSUME IInv, ~Idle, Finish
    PROVE  /\ queue' \in Seq(Pairs) /\ Len(queue') <= MAX_MATCHES_PER_TICK
           /\ timer' \in 0..pollInterval /\ spare' \in 0..AttemptTime
           /\ Idle' => spare' = 0
           /\ QueueIsMatched' /\ TimerRuns'
           /\ Head(queue) \in Pairs /\ Terms[Head(queue)[1]] = Terms[Head(queue)[2]]
<1>1. queue \in Seq(Pairs) /\ queue # <<>> /\ Len(queue) \in Nat /\ Len(queue) <= MAX_MATCHES_PER_TICK
  BY DEF IInv, TypeOK, Idle
<1>2. /\ Head(queue) \in Pairs /\ Head(queue) = queue[1] /\ 1 \in DOMAIN queue
      /\ Tail(queue) \in Seq(Pairs) /\ Len(Tail(queue)) = Len(queue) - 1
      /\ \A i \in 1..Len(Tail(queue)) : Tail(queue)[i] = queue[i + 1] /\ i + 1 \in DOMAIN queue
      /\ DOMAIN Tail(queue) = 1..Len(Tail(queue))
  BY <1>1
<1>3. QueueIsMatched'
  BY <1>2 DEF IInv, QueueIsMatched, Finish
<1>4. timer' = timer /\ timer > 0 /\ timer \in 0..pollInterval /\ TimerRuns'
  BY DEF Finish, IInv, TypeOK, TimerRuns
<1>5. Len(queue') <= MAX_MATCHES_PER_TICK /\ queue' \in Seq(Pairs)
  BY <1>1, <1>2, Numbers DEF Finish
<1>6. Idle' => Len(queue) = 1
  BY <1>1, <1>2 DEF Finish, Idle
<1>7. spare' \in 0..AttemptTime /\ (Idle' => spare' = 0)
  BY <1>6, Numbers DEF Finish
<1>8. Terms[Head(queue)[1]] = Terms[Head(queue)[2]]
  BY <1>2 DEF IInv, QueueIsMatched
<1> QED
  BY <1>2, <1>3, <1>4, <1>5, <1>7, <1>8

\* What one attempt records about a pair or its orders.
LEMMA HealthKeeps ==
    ASSUME IInv, NEW p \in Pairs,
           \/ RecordPairFailure(p) \/ RecordSuccess(p) \/ Quarantine(ToBlame(p))
    PROVE  /\ quarantined' \in [Orders -> 0..ORDER_QUARANTINE]
           /\ failures' \in [Pairs -> 0..Enough]
           /\ blocked' \in [Pairs -> 0..MAX_PAIR_BACKOFF]
           /\ \A q \in Pairs : blocked'[q] > 0 => failures'[q] > 0
<1>1. /\ quarantined \in [Orders -> 0..ORDER_QUARANTINE] /\ failures \in [Pairs -> 0..Enough]
      /\ blocked \in [Pairs -> 0..MAX_PAIR_BACKOFF]
      /\ \A q \in Pairs : blocked[q] > 0 => failures[q] > 0
  BY DEF IInv, TypeOK
<1>2. CASE RecordPairFailure(p)
  <2> DEFINE n == AtMost(failures[p] + 1, Enough)
  <2>1. n \in 1..Enough /\ n \in Nat /\ n >= 1
    BY <1>1, Numbers DEF AtMost
  <2>2. Delay(n) \in 0..MAX_PAIR_BACKOFF
    BY <2>1, DelayType
  <2>3. /\ failures' = [failures EXCEPT ![p] = n] /\ blocked' = [blocked EXCEPT ![p] = Delay(n)]
        /\ quarantined' = quarantined
    BY <1>2 DEF RecordPairFailure
  <2> HIDE DEF n
  <2> QED
    BY <1>1, <2>1, <2>2, <2>3
<1>3. CASE RecordSuccess(p)
  BY <1>1, <1>3, Numbers DEF RecordSuccess
<1>4. CASE Quarantine(ToBlame(p))
  BY <1>1, <1>4, Numbers DEF Quarantine
<1> QED
  BY <1>2, <1>3, <1>4

LEMMA StartTickKeeps == IInv /\ StartTick => IInv'
<1> SUFFICES ASSUME IInv, StartTick PROVE IInv'
  OBVIOUS
<1>1. PICK seen \in SUBSET {o \in Orders : status[o] = "spent"} :
        LET live == InBook \ seen
        IN  /\ status' = [o \in Orders |-> IF o \in seen THEN "closed" ELSE status[o]]
            /\ quarantined' = [o \in Orders |-> IF o \in live THEN quarantined[o] ELSE 0]
            /\ failures' = [p \in Pairs |-> IF Pruned(p, live) THEN 0 ELSE failures[p]]
            /\ blocked' = [p \in Pairs |-> IF Pruned(p, live) THEN 0 ELSE blocked[p]]
            /\ queue' = SubSeq(FindMatches(live), 1, AtMost(Len(FindMatches(live)), MAX_MATCHES_PER_TICK))
            /\ spare' = IF FindMatches(live) = <<>> THEN 0 ELSE AttemptTime
  BY DEF StartTick
<1> DEFINE live == InBook \ seen
           matches == FindMatches(live)
           n == AtMost(Len(matches), MAX_MATCHES_PER_TICK)
<1>2. timer' = pollInterval /\ faults' = faults
  BY DEF StartTick
<1>3. live \in SUBSET Orders
  BY DEF InBook
<1>4. /\ matches \in Seq(Pairs) /\ {matches[i] : i \in DOMAIN matches} = PairsOf(live)
      /\ \A p \in PairsOf(live) : Terms[p[1]] = Terms[p[2]]
  <2>1. \A p \in PairsOf(live) : MayPair(p[1], p[2])
    BY PairUpIsStable DEF PairsOf, PairedUpTo
  <2> HIDE DEF live
  <2> QED
    BY <1>3, <2>1, FindMatchesFinds DEF MayPair
<1> HIDE DEF matches
<1>5. n \in 0..Len(matches) /\ n <= MAX_MATCHES_PER_TICK /\ (n = 0 => Len(matches) = 0) /\ Len(matches) \in Nat
  BY <1>4, Numbers DEF AtMost
<1> HIDE DEF n, live
<1>6. /\ queue' = SubSeq(matches, 1, n) /\ queue' \in Seq(Pairs) /\ Len(queue') = n
      /\ DOMAIN queue' = 1..n /\ \A i \in 1..n : queue'[i] = matches[i] /\ i \in DOMAIN matches
  <2>1. queue' = SubSeq(matches, 1, n)
    BY <1>1 DEF live, matches, n
  <2>2. /\ SubSeq(matches, 1, n) \in Seq(Pairs) /\ Len(SubSeq(matches, 1, n)) = n
        /\ \A i \in 1..n : SubSeq(matches, 1, n)[i] = matches[i]
    BY <1>4, <1>5, SubSeqProperties
  <2>3. DOMAIN queue' = 1..n /\ DOMAIN matches = 1..Len(matches)
    BY <1>4, <2>1, <2>2
  <2> QED
    BY <1>5, <2>1, <2>2, <2>3
<1>7. QueueIsMatched'
  BY <1>4, <1>6 DEF QueueIsMatched
<1>8. Idle' => spare' = 0
  <2>1. Idle' => n = 0
    BY <1>6 DEF Idle
  <2>2. n = 0 => matches = <<>>
    BY <1>4, <1>5
  <2> QED
    BY <1>1, <2>1, <2>2 DEF live, matches
<1>9. spare' \in 0..AttemptTime /\ timer' \in 0..pollInterval /\ timer' > 0 /\ faults' \in 0..MaxFaults
  BY <1>1, <1>2, Numbers DEF IInv, TypeOK
<1>10. status' \in [Orders -> Statuses] /\ quarantined' \in [Orders -> 0..ORDER_QUARANTINE]
  BY <1>1, Numbers DEF IInv, TypeOK, Statuses
<1>11. /\ failures' \in [Pairs -> 0..Enough] /\ blocked' \in [Pairs -> 0..MAX_PAIR_BACKOFF]
       /\ \A p \in Pairs : blocked'[p] > 0 => failures'[p] > 0
  BY <1>1, Numbers DEF IInv, TypeOK
<1> QED
  BY <1>5, <1>6, <1>7, <1>8, <1>9, <1>10, <1>11 DEF IInv, TypeOK, TimerRuns

LEMMA AttemptKeeps == IInv /\ Attempt => IInv'
<1> SUFFICES ASSUME IInv, Attempt PROVE IInv'
  OBVIOUS
<1> DEFINE p == Head(queue)
<1>1. ~Idle /\ Finish
  BY DEF Attempt, AttemptUnsettleable, AttemptGone, AttemptSucceeds, AttemptFails
<1>2. p \in Pairs /\ (RecordPairFailure(p) \/ RecordSuccess(p) \/ Quarantine(ToBlame(p)))
  BY <1>1, FinishKeeps DEF Attempt, AttemptUnsettleable, AttemptGone, AttemptSucceeds, AttemptFails
<1>3. /\ quarantined' \in [Orders -> 0..ORDER_QUARANTINE]
      /\ failures' \in [Pairs -> 0..Enough]
      /\ blocked' \in [Pairs -> 0..MAX_PAIR_BACKOFF]
      /\ \A q \in Pairs : blocked'[q] > 0 => failures'[q] > 0
  <2> HIDE DEF p
  <2> QED
    BY <1>2, HealthKeeps
<1>4. status' \in [Orders -> Statuses]
  <2>1. status \in [Orders -> Statuses] /\ {"closed", "settling"} \subseteq Statuses
    BY DEF IInv, TypeOK, Statuses
  <2>2. CASE AttemptGone
    BY <2>1, <2>2 DEF AttemptGone
  <2>3. CASE AttemptSucceeds
    BY <2>1, <2>3 DEF AttemptSucceeds
  <2> QED
    BY <2>1, <2>2, <2>3 DEF Attempt, AttemptUnsettleable, AttemptFails
<1>5. faults' \in 0..MaxFaults
  BY Numbers DEF IInv, TypeOK, Attempt, AttemptUnsettleable, AttemptGone, AttemptSucceeds, AttemptFails
<1> QED
  BY <1>1, <1>3, <1>4, <1>5, FinishKeeps DEF IInv, TypeOK

LEMMA TypeStep == IInv /\ [Next]_vars => IInv'
<1> SUFFICES ASSUME IInv, [Next]_vars PROVE IInv'
  OBVIOUS
<1>0. /\ status \in [Orders -> Statuses] /\ quarantined \in [Orders -> 0..ORDER_QUARANTINE]
      /\ failures \in [Pairs -> 0..Enough] /\ blocked \in [Pairs -> 0..MAX_PAIR_BACKOFF]
      /\ timer \in 0..pollInterval /\ spare \in 0..AttemptTime /\ faults \in 0..MaxFaults
      /\ \A p \in Pairs : blocked[p] > 0 => failures[p] > 0
  BY DEF IInv, TypeOK
<1>1. CASE Elapse
  <2>1. /\ timer' \in 0..pollInterval /\ spare' \in 0..AttemptTime
        /\ ~Idle => timer' > 0
        /\ Idle => spare' = 0
    BY <1>0, <1>1, Numbers DEF IInv, TypeOK, TimerRuns, Elapse, Less
  <2>2. \A n \in Nat : \A m \in 0..n : Less(m) \in 0..n /\ (Less(m) > 0 => m > 0)
    BY DEF Less
  <2>3. quarantined' \in [Orders -> 0..ORDER_QUARANTINE]
    BY <1>0, <1>1, <2>2, Numbers DEF Elapse
  <2>4. blocked' \in [Pairs -> 0..MAX_PAIR_BACKOFF] /\ \A p \in Pairs : blocked'[p] > 0 => blocked[p] > 0
    BY <1>0, <1>1, <2>2, Numbers DEF Elapse
  <2>5. UNCHANGED <<status, failures, queue, faults>>
    BY <1>1 DEF Elapse
  <2> QED
    BY <1>0, <2>1, <2>3, <2>4, <2>5 DEF IInv, TypeOK, TimerRuns, QueueIsMatched, Idle
<1>2. CASE AbortTick
  BY <1>0, <1>2, Numbers DEF AbortTick, health, IInv, TypeOK, TimerRuns, QueueIsMatched, Idle
<1>3. CASE Restart
  <2>1. queue' = <<>> /\ queue' \in Seq(Pairs) /\ Len(queue') = 0 /\ DOMAIN queue' = {}
    BY <1>3, EmptySeq DEF Restart
  <2>2. /\ quarantined' \in [Orders -> 0..ORDER_QUARANTINE] /\ failures' \in [Pairs -> 0..Enough]
        /\ blocked' \in [Pairs -> 0..MAX_PAIR_BACKOFF] /\ \A p \in Pairs : ~(blocked'[p] > 0)
        /\ timer' \in 0..pollInterval /\ spare' \in 0..AttemptTime /\ spare' = 0 /\ faults' \in 0..MaxFaults
        /\ status' = status
    BY <1>0, <1>3, Numbers DEF Restart
  <2> QED
    BY <1>0, <2>1, <2>2, Numbers DEF IInv, TypeOK, TimerRuns, QueueIsMatched, Idle
<1>4. ASSUME /\ UNCHANGED <<health, queue, timer, spare>>
             /\ status' \in [Orders -> Statuses] /\ faults' \in 0..MaxFaults
      PROVE  IInv'
  BY <1>0, <1>4 DEF health, IInv, TypeOK, TimerRuns, QueueIsMatched, Idle
<1>5. CASE \E o \in Orders : Index(o) \/ Withdraw(o) \/ Close(o)
  <2>1. status' \in [Orders -> Statuses] /\ UNCHANGED <<health, queue, timer, spare, faults>>
    BY <1>0, <1>5 DEF Index, Withdraw, Close, Statuses
  <2> QED
    BY <1>0, <1>4, <2>1
<1>6. CASE \E p \in Pairs : Lose(p)
  <2>1. status' \in [Orders -> Statuses] /\ UNCHANGED <<health, queue, timer, spare>>
    BY <1>0, <1>6 DEF Lose, Statuses
  <2>2. faults' \in 0..MaxFaults
    BY <1>0, <1>6, Numbers DEF Lose
  <2> QED
    BY <1>4, <2>1, <2>2
<1>7. CASE UNCHANGED vars
  BY <1>0, <1>4, <1>7 DEF vars
<1> QED
  BY <1>1, <1>2, <1>3, <1>5, <1>6, <1>7, StartTickKeeps, AttemptKeeps DEF Next

\* The state keeps its types: the backoff never exceeds its cap however often a
\* pair fails, an entry that still blocks a pair has failures to show for it,
\* and no time is left for an attempt when no tick is under way.
THEOREM TypeCorrect == Spec => []TypeOK
<1>1. Init => IInv
  BY TypeInit
<1>2. IInv /\ [Next]_vars => IInv'
  BY TypeStep
<1>3. IInv => TypeOK
  BY DEF IInv
<1> QED
  BY <1>1, <1>2, <1>3, PTL DEF Spec

---------------------------------------------------------------------------
(* The pairs of a tick are stable                                          *)

\* The pairs that findMatches returns for the book, when the next tick is due,
\* share no order, respect backoff and quarantine, and leave no two orders
\* unpaired or both worse off that may be paired with each other: for any
\* orders, and whatever was indexed, spent, failed or forgotten before.
THEOREM MatchesStayStable == Spec => []MatchesAreStable
<1>1. IInv => MatchesAreStable
  <2> SUFFICES ASSUME IInv
               PROVE  LET pairs == {FindMatches(InBook)[i] : i \in DOMAIN FindMatches(InBook)}
                      IN  /\ \A p \in pairs : MayMatch(p)
                          /\ \A p, q \in pairs : p # q => p[1] # q[1] /\ p[2] # q[2]
                          /\ \A r \in Pairs :
                               MayMatch(r) =>
                                 \E p \in pairs :
                                   \/ p[1] = r[1] /\ Place[p[2]] <= Place[r[2]]
                                   \/ p[2] = r[2] /\ Place[p[1]] <= Place[r[1]]
    BY DEF MatchesAreStable
  <2> DEFINE E == Eligible(InBook)
             pairs == PairsOf(InBook)
  <2>1. {FindMatches(InBook)[i] : i \in DOMAIN FindMatches(InBook)} = pairs
    <3>1. InBook \in SUBSET Orders
      BY DEF InBook
    <3> QED
      BY <3>1, FindMatchesFinds
  <2>2. PairedUpTo(pairs, Cardinality(Orders), E \cap Buys, E \cap Sells)
    BY PairUpIsStable DEF PairsOf
  <2>3. \A p \in Pairs : IsPairBlocked(p) <=> blocked[p] # 0
    BY DEF IInv, TypeOK, IsPairBlocked
  <2>4. \A p \in Pairs : /\ p = <<p[1], p[2]>> /\ p[1] \in Buys /\ p[2] \in Sells
                         /\ Place[p[1]] < Cardinality(Orders)
    <3>1. \A o \in Orders : Place[o] < Cardinality(Orders)
      BY Places
    <3> QED
      BY <3>1 DEF Pairs, Orders
  <2>5. \A p \in Pairs : MayMatch(p) <=> /\ p[1] \in E \cap Buys /\ p[2] \in E \cap Sells
                                         /\ MayPair(p[1], p[2])
    BY <2>3, <2>4 DEF MayMatch, MayPair, Eligible
  <2> HIDE DEF pairs, E
  <2>6. \A p \in pairs : p \in Pairs /\ MayMatch(p)
    <3>1. pairs \subseteq (E \cap Buys) \X (E \cap Sells)
      BY <2>2 DEF PairedUpTo
    <3>2. \A p \in pairs : p \in Pairs /\ p[1] \in E \cap Buys /\ p[2] \in E \cap Sells
      BY <3>1 DEF Pairs
    <3> QED
      BY <2>2, <2>5, <3>2 DEF PairedUpTo
  <2>7. ASSUME NEW r \in Pairs, MayMatch(r)
        PROVE  \E p \in pairs : \/ p[1] = r[1] /\ Place[p[2]] <= Place[r[2]]
                                \/ p[2] = r[2] /\ Place[p[1]] <= Place[r[1]]
    BY <2>2, <2>4, <2>5, <2>7 DEF PairedUpTo
  <2> QED
    BY <2>1, <2>2, <2>6, <2>7 DEF PairedUpTo
<1>2. Init => IInv
  BY TypeInit
<1>3. IInv /\ [Next]_vars => IInv'
  BY TypeStep
<1> QED
  BY <1>1, <1>2, <1>3, PTL DEF Spec
=============================================================================
