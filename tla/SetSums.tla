------------------------------ MODULE SetSums ------------------------------
(***************************************************************************)
(* Facts about sums over finite sets.  MapThenSumSet is a recursion, and   *)
(* no backend instantiates an induction principle, so what is true of      *)
(* every finite set is shown here of a smallest set for which it would     *)
(* fail (SmallestOf).                                                      *)
(***************************************************************************)
EXTENDS Integers, FiniteSets, FiniteSetsExt, FiniteSetTheorems, WellFoundedInduction, TLAPS

\* The sum of the values a function takes on S.
SumOn(f, S) == MapThenSumSet(LAMBDA x : f[x], S)

\* it gives the sum over every subset of S, the way the recursion does.
SumsOn(f, S, it) ==
    it = [s \in SUBSET S |->
            IF s = {} THEN 0 ELSE LET x == CHOOSE y \in s : TRUE IN f[x] + it[s \ {x}]]

---------------------------------------------------------------------------
\* Of any sets of elements of a finite set, one has no other of them as a
\* subset.
LEMMA SmallestOf ==
    ASSUME NEW S, IsFiniteSet(S), NEW sets \in SUBSET SUBSET S, sets # {}
    PROVE  \E s \in sets : \A t \in SUBSET s : t # s => t \notin sets
<1>1. IsWellFoundedOn(StrictSubsetOrdering(S), SUBSET S)
  BY FS_StrictSubsetOrderingWellFounded, FS_FiniteSubsetsOfFinite
<1>2. PICK s \in sets : \A t \in sets : <<t, s>> \notin StrictSubsetOrdering(S)
  BY <1>1, WFMin
<1> QED
  BY <1>2 DEF StrictSubsetOrdering

\* Of numbers up to n, one is the largest.
LEMMA LargestOf ==
    ASSUME NEW n \in Nat, NEW S \in SUBSET (0..n), S # {}
    PROVE  \E m \in S : \A k \in S : k <= m
<1> DEFINE from(m) == {k \in S : m <= k}
           sets == {from(m) : m \in S}
<1>1. IsFiniteSet(S)
  <2>1. IsFiniteSet(0..n)
    BY FS_Interval
  <2> QED
    BY <2>1, FS_Subset
<1>2. sets \in SUBSET SUBSET S /\ sets # {}
  OBVIOUS
<1>3. PICK s \in sets : \A t \in SUBSET s : t # s => t \notin sets
  <2> HIDE DEF sets
  <2> QED
    BY <1>1, <1>2, SmallestOf
<1>4. PICK m \in S : s = from(m)
  BY <1>3
<1>5. ASSUME NEW k \in S, m < k PROVE FALSE
  <2>1. \A j \in S : m \in Int /\ k \in Int /\ j \in Int
    BY <1>4, <1>5
  <2>2. ~(k <= m) /\ m <= m /\ \A j \in S : k <= j => m <= j
    BY <1>5, <2>1
  <2>3. from(k) \subseteq from(m) /\ m \in from(m) /\ m \notin from(k)
    BY <1>4, <2>2
  <2>4. from(k) \in sets /\ from(k) # s /\ from(k) \in SUBSET s
    BY <1>4, <1>5, <2>3
  <2> QED
    BY <1>3, <2>4
<1> QED
  BY <1>5

LEMMA SumOnUnfolds ==
    ASSUME NEW f, NEW S
    PROVE  SumOn(f, S) = (CHOOSE it : SumsOn(f, S, it))[S]
BY DEF SumOn, MapThenSumSet, MapThenFoldSet, SumsOn

LEMMA SumsOnValue ==
    ASSUME NEW f, NEW S, NEW it, SumsOn(f, S, it), NEW s \in SUBSET S
    PROVE  /\ s = {} => it[s] = 0
           /\ s # {} => LET x == CHOOSE y \in s : TRUE
                        IN  x \in s /\ s \ {x} \in SUBSET S /\ it[s] = f[x] + it[s \ {x}]
BY DEF SumsOn

\* The recursion has one solution, and what it gives for a set does not depend
\* on the set it was started from.
LEMMA SumsOnAgree ==
    ASSUME NEW f, NEW S, IsFiniteSet(S), NEW T \in SUBSET S, NEW it, NEW jt,
           SumsOn(f, S, it), SumsOn(f, T, jt)
    PROVE  \A s \in SUBSET T : it[s] = jt[s]
<1> DEFINE bad == {s \in SUBSET T : it[s] # jt[s]}
<1>1. ASSUME bad # {} PROVE FALSE
  <2>1. PICK s \in bad : \A t \in SUBSET s : t # s => t \notin bad
    <3>1. IsFiniteSet(T) /\ bad \in SUBSET SUBSET T
      BY FS_Subset
    <3> HIDE DEF bad
    <3> QED
      BY <1>1, <3>1, SmallestOf
  <2>2. s # {}
    BY SumsOnValue
  <2> DEFINE x == CHOOSE y \in s : TRUE
  <2>3. x \in s /\ s \ {x} \in SUBSET T /\ it[s] = f[x] + it[s \ {x}] /\ jt[s] = f[x] + jt[s \ {x}]
    BY <2>2, SumsOnValue
  <2>4. it[s \ {x}] = jt[s \ {x}]
    BY <2>1, <2>3
  <2> QED
    BY <2>3, <2>4
<1> QED
  BY <1>1

LEMMA SumsOnExist ==
    ASSUME NEW f, NEW S, IsFiniteSet(S)
    PROVE  \E it : SumsOn(f, S, it)
<1> DEFINE bad == {s \in SUBSET S : ~\E it : SumsOn(f, s, it)}
<1>1. ASSUME bad # {} PROVE FALSE
  <2>1. PICK s \in bad : \A t \in SUBSET s : t # s => t \notin bad
    <3>1. bad \in SUBSET SUBSET S
      OBVIOUS
    <3> HIDE DEF bad
    <3> QED
      BY <1>1, <3>1, SmallestOf
  <2>2. IsFiniteSet(s) /\ \A t \in SUBSET s : IsFiniteSet(t)
    BY FS_Subset
  <2> DEFINE sol(t) == CHOOSE it : SumsOn(f, t, it)
  <2>3. \A t \in SUBSET s : t # s => SumsOn(f, t, sol(t))
    BY <2>1
  <2> DEFINE step(t) == IF t = {} THEN 0
                        ELSE LET x == CHOOSE y \in t : TRUE IN f[x] + sol(t \ {x})[t \ {x}]
             it == [t \in SUBSET s |-> step(t)]
             again(t) == IF t = {} THEN 0
                         ELSE LET x == CHOOSE y \in t : TRUE IN f[x] + it[t \ {x}]
  <2>4. ASSUME NEW t \in SUBSET s, t # s PROVE it[t] = sol(t)[t]
    <3>1. SumsOn(f, t, sol(t))
      BY <2>3, <2>4
    <3>2. CASE t = {}
      <4>1. it[t] = 0
        BY <3>2
      <4>2. sol(t)[t] = 0
        <5> HIDE DEF sol
        <5> QED
          BY <3>1, <3>2, SumsOnValue
      <4> QED
        BY <4>1, <4>2
    <3>3. CASE t # {}
      <4> DEFINE x == CHOOSE y \in t : TRUE
                 u == t \ {x}
      <4>1. x \in t /\ u \in SUBSET t /\ sol(t)[t] = f[x] + sol(t)[u]
        BY <3>1, <3>3, SumsOnValue
      <4>2. u # s /\ u \in SUBSET s
        BY <4>1
      <4>3. SumsOn(f, u, sol(u))
        BY <2>3, <4>2
      <4>4. sol(t)[u] = sol(u)[u]
        <5>1. IsFiniteSet(t) /\ u \in SUBSET t
          BY <2>2, <4>1
        <5> HIDE DEF sol, u
        <5>2. \A v \in SUBSET u : sol(t)[v] = sol(u)[v]
          BY <3>1, <4>3, <5>1, SumsOnAgree
        <5> QED
          BY <5>2
      <4>5. it[t] = f[x] + sol(u)[u]
        BY <3>3
      <4> QED
        BY <4>1, <4>4, <4>5
    <3> QED
      BY <3>2, <3>3
  <2>5. \A t \in SUBSET s : t # {} =>
          LET x == CHOOSE y \in t : TRUE IN t \ {x} \in SUBSET s /\ t \ {x} # s
    OBVIOUS
  <2>6. SumsOn(f, s, it)
    <3>1. ASSUME NEW t \in SUBSET s, t # {}
          PROVE  LET x == CHOOSE y \in t : TRUE IN sol(t \ {x})[t \ {x}] = it[t \ {x}]
      <4> HIDE DEF sol, it
      <4> QED
        BY <2>4, <2>5, <3>1
    <3>2. \A t \in SUBSET s : step(t) = again(t)
      <4> HIDE DEF sol, it
      <4> QED
        BY <3>1
    <3>3. it = [t \in SUBSET s |-> again(t)]
      <4> HIDE DEF step, again
      <4> QED
        BY <3>2
    <3> QED
      BY <3>3 DEF SumsOn
  <2> QED
    BY <2>6
<1> QED
  BY <1>1

\* How a sum is made, and from what.
LEMMA SumOnRecursion ==
    ASSUME NEW f, NEW S, IsFiniteSet(S)
    PROVE  /\ S = {} => SumOn(f, S) = 0
           /\ S # {} => LET x == CHOOSE y \in S : TRUE
                        IN  x \in S /\ SumOn(f, S) = f[x] + SumOn(f, S \ {x})
<1> DEFINE sol(T) == CHOOSE it : SumsOn(f, T, it)
<1>1. ASSUME NEW T \in SUBSET S PROVE SumsOn(f, T, sol(T)) /\ SumOn(f, T) = sol(T)[T]
  BY FS_Subset, SumsOnExist, SumOnUnfolds
<1>2. ASSUME NEW T \in SUBSET S PROVE sol(S)[T] = SumOn(f, T)
  <2>1. SumsOn(f, S, sol(S)) /\ SumsOn(f, T, sol(T)) /\ SumOn(f, T) = sol(T)[T]
    BY <1>1
  <2> HIDE DEF sol
  <2> QED
    BY <2>1, SumsOnAgree
<1>3. SumsOn(f, S, sol(S)) /\ SumOn(f, S) = sol(S)[S]
  BY <1>1
<1> HIDE DEF sol
<1>4. CASE S = {}
  BY <1>3, <1>4, SumsOnValue
<1>5. CASE S # {}
  <2> DEFINE x == CHOOSE y \in S : TRUE
  <2>1. x \in S /\ S \ {x} \in SUBSET S /\ sol(S)[S] = f[x] + sol(S)[S \ {x}]
    BY <1>3, <1>5, SumsOnValue
  <2> QED
    BY <1>2, <1>3, <1>5, <2>1
<1> QED
  BY <1>4, <1>5

\* Whatever solves the recursion gives the sum.
LEMMA SumOnIs ==
    ASSUME NEW f, NEW S, IsFiniteSet(S), NEW it, SumsOn(f, S, it)
    PROVE  it[S] = SumOn(f, S)
<1> DEFINE sol == CHOOSE jt : SumsOn(f, S, jt)
<1>1. SumsOn(f, S, sol) /\ SumOn(f, S) = sol[S]
  BY SumsOnExist, SumOnUnfolds
<1> HIDE DEF sol
<1>2. \A s \in SUBSET S : it[s] = sol[s]
  BY <1>1, SumsOnAgree
<1> QED
  BY <1>1, <1>2

---------------------------------------------------------------------------
(* What sums are                                                           *)

LEMMA SumOnAgrees ==
    ASSUME NEW S, IsFiniteSet(S), NEW f, NEW g, \A x \in S : f[x] = g[x]
    PROVE  SumOn(f, S) = SumOn(g, S)
<1> DEFINE bad == {s \in SUBSET S : SumOn(f, s) # SumOn(g, s)}
<1>1. ASSUME bad # {} PROVE FALSE
  <2>1. PICK s \in bad : \A t \in SUBSET s : t # s => t \notin bad
    <3>1. bad \in SUBSET SUBSET S
      OBVIOUS
    <3> HIDE DEF bad
    <3> QED
      BY <1>1, <3>1, SmallestOf
  <2>2. IsFiniteSet(s)
    BY FS_Subset
  <2>3. s # {}
    BY <2>2, SumOnRecursion
  <2> DEFINE x == CHOOSE y \in s : TRUE
  <2>4. x \in s /\ SumOn(f, s) = f[x] + SumOn(f, s \ {x}) /\ SumOn(g, s) = g[x] + SumOn(g, s \ {x})
    BY <2>2, <2>3, SumOnRecursion
  <2>5. SumOn(f, s \ {x}) = SumOn(g, s \ {x}) /\ f[x] = g[x]
    BY <2>1, <2>4
  <2> QED
    BY <2>4, <2>5
<1> QED
  BY <1>1

LEMMA SumOnInt ==
    ASSUME NEW S, IsFiniteSet(S), NEW f, \A x \in S : f[x] \in Int
    PROVE  SumOn(f, S) \in Int
<1> DEFINE bad == {s \in SUBSET S : SumOn(f, s) \notin Int}
<1>1. ASSUME bad # {} PROVE FALSE
  <2>1. PICK s \in bad : \A t \in SUBSET s : t # s => t \notin bad
    <3>1. bad \in SUBSET SUBSET S
      OBVIOUS
    <3> HIDE DEF bad
    <3> QED
      BY <1>1, <3>1, SmallestOf
  <2>2. IsFiniteSet(s)
    BY FS_Subset
  <2>3. s # {}
    BY <2>2, SumOnRecursion
  <2> DEFINE x == CHOOSE y \in s : TRUE
  <2>4. x \in s /\ SumOn(f, s) = f[x] + SumOn(f, s \ {x})
    BY <2>2, <2>3, SumOnRecursion
  <2>5. SumOn(f, s \ {x}) \in Int /\ f[x] \in Int
    BY <2>1, <2>4
  <2> QED
    BY <2>4, <2>5
<1> QED
  BY <1>1

\* Any element may be added last.
LEMMA SumOnSplit ==
    ASSUME NEW S, IsFiniteSet(S), NEW f, \A x \in S : f[x] \in Int, NEW a \in S
    PROVE  SumOn(f, S) = f[a] + SumOn(f, S \ {a})
<1> DEFINE bad == {s \in SUBSET S : \E b \in s : SumOn(f, s) # f[b] + SumOn(f, s \ {b})}
<1>1. ASSUME bad # {} PROVE FALSE
  <2>1. PICK s \in bad : \A t \in SUBSET s : t # s => t \notin bad
    <3>1. bad \in SUBSET SUBSET S
      OBVIOUS
    <3> HIDE DEF bad
    <3> QED
      BY <1>1, <3>1, SmallestOf
  <2>2. PICK b \in s : SumOn(f, s) # f[b] + SumOn(f, s \ {b})
    OBVIOUS
  <2>3. IsFiniteSet(s) /\ \A t \in SUBSET s : IsFiniteSet(t) /\ SumOn(f, t) \in Int
    BY FS_Subset, SumOnInt
  <2> DEFINE x == CHOOSE y \in s : TRUE
  <2>4. x \in s /\ SumOn(f, s) = f[x] + SumOn(f, s \ {x})
    BY <2>3, SumOnRecursion
  <2>5. x # b
    BY <2>2, <2>4
  <2>6. SumOn(f, s \ {x}) = f[b] + SumOn(f, (s \ {x}) \ {b})
    BY <2>1, <2>4, <2>5
  <2>7. SumOn(f, s \ {b}) = f[x] + SumOn(f, (s \ {b}) \ {x})
    BY <2>1, <2>4, <2>5
  <2>8. (s \ {x}) \ {b} = (s \ {b}) \ {x}
    OBVIOUS
  <2> DEFINE rest == SumOn(f, (s \ {b}) \ {x})
  <2>9. f[x] \in Int /\ f[b] \in Int /\ rest \in Int
    BY <2>3, <2>4
  <2>10. SumOn(f, s) = f[x] + (f[b] + rest)
    <3> HIDE DEF x, bad
    <3> QED
      BY <2>4, <2>6, <2>8
  <2>11. SumOn(f, s \ {b}) = f[x] + rest
    BY <2>7
  <2> HIDE DEF x, bad, rest
  <2> QED
    BY <2>2, <2>9, <2>10, <2>11
<1> QED
  BY <1>1

LEMMA SumOnEmpty == ASSUME NEW f PROVE SumOn(f, {}) = 0
BY FS_EmptySet, SumOnRecursion

LEMMA SumOnSingle ==
    ASSUME NEW f, NEW a, f[a] \in Int
    PROVE  SumOn(f, {a}) = f[a]
<1>1. IsFiniteSet({a}) /\ {a} \ {a} = {}
  BY FS_Singleton
<1>2. SumOn(f, {a}) = f[a] + SumOn(f, {a} \ {a})
  BY <1>1, SumOnSplit
<1> QED
  BY <1>1, <1>2, SumOnEmpty

LEMMA SumOnPair ==
    ASSUME NEW f, NEW a, NEW b, a # b, f[a] \in Int, f[b] \in Int
    PROVE  SumOn(f, {a, b}) = f[a] + f[b]
<1>1. IsFiniteSet({a, b}) /\ {a, b} \ {a} = {b}
  <2>1. IsFiniteSet({b} \cup {a}) /\ {b} \cup {a} = {a, b}
    BY FS_Singleton, FS_AddElement
  <2> QED
    BY <2>1
<1>2. SumOn(f, {a, b}) = f[a] + SumOn(f, {a, b} \ {a})
  BY <1>1, SumOnSplit
<1> QED
  BY <1>1, <1>2, SumOnSingle

\* The sum over two disjoint parts.
LEMMA SumOnParts ==
    ASSUME NEW S, IsFiniteSet(S), NEW f, \A x \in S : f[x] \in Int, NEW T \in SUBSET S
    PROVE  SumOn(f, S) = SumOn(f, T) + SumOn(f, S \ T)
<1>1. \A U \in SUBSET S : IsFiniteSet(U) /\ SumOn(f, U) \in Int
  BY FS_Subset, SumOnInt
<1> DEFINE bad == {U \in SUBSET T : SumOn(f, (S \ T) \cup U) # SumOn(f, U) + SumOn(f, S \ T)}
<1>2. ASSUME bad # {} PROVE FALSE
  <2>1. PICK U \in bad : \A V \in SUBSET U : V # U => V \notin bad
    <3>1. bad \in SUBSET SUBSET S
      OBVIOUS
    <3> HIDE DEF bad
    <3> QED
      BY <1>2, <3>1, SmallestOf
  <2>2. U # {}
    <3> SUFFICES ASSUME U = {} PROVE FALSE
      OBVIOUS
    <3>1. (S \ T) \cup U = S \ T /\ SumOn(f, U) = 0 /\ SumOn(f, S \ T) \in Int
      BY <1>1, SumOnEmpty
    <3> QED
      BY <3>1
  <2>3. PICK a \in U : TRUE
    BY <2>2
  <2>4. SumOn(f, U) = f[a] + SumOn(f, U \ {a})
    BY <1>1, SumOnSplit
  <2> DEFINE W == (S \ T) \cup U
  <2>5. SumOn(f, W) = f[a] + SumOn(f, W \ {a})
    BY <1>1, SumOnSplit
  <2>6. W \ {a} = (S \ T) \cup (U \ {a})
    OBVIOUS
  <2>7. SumOn(f, (S \ T) \cup (U \ {a})) = SumOn(f, U \ {a}) + SumOn(f, S \ T)
    BY <2>1
  <2> DEFINE left == SumOn(f, U \ {a})
             other == SumOn(f, S \ T)
  <2>8. f[a] \in Int /\ left \in Int /\ other \in Int
    BY <1>1
  <2>9. SumOn(f, W) = f[a] + (left + other)
    BY <2>5, <2>6, <2>7
  <2>10. SumOn(f, U) = f[a] + left
    BY <2>4
  <2>11. SumOn(f, W) = SumOn(f, U) + other
    <3> HIDE DEF W, left, other
    <3> QED
      BY <2>8, <2>9, <2>10
  <2> QED
    BY <2>11
<1>3. T \notin bad /\ (S \ T) \cup T = S
  BY <1>2
<1> QED
  BY <1>3

\* Sums of differences.
LEMMA SumOnMinus ==
    ASSUME NEW S, IsFiniteSet(S), NEW f, NEW g, NEW h,
           \A x \in S : f[x] \in Int /\ g[x] \in Int /\ h[x] = f[x] - g[x]
    PROVE  SumOn(h, S) = SumOn(f, S) - SumOn(g, S)
<1> DEFINE bad == {s \in SUBSET S : SumOn(h, s) # SumOn(f, s) - SumOn(g, s)}
<1>1. ASSUME bad # {} PROVE FALSE
  <2>1. PICK s \in bad : \A t \in SUBSET s : t # s => t \notin bad
    <3>1. bad \in SUBSET SUBSET S
      OBVIOUS
    <3> HIDE DEF bad
    <3> QED
      BY <1>1, <3>1, SmallestOf
  <2>2. IsFiniteSet(s) /\ \A t \in SUBSET s : IsFiniteSet(t)
    BY FS_Subset
  <2>3. s # {}
    <3> SUFFICES ASSUME s = {} PROVE FALSE
      OBVIOUS
    <3>1. SumOn(f, s) = 0 /\ SumOn(g, s) = 0 /\ SumOn(h, s) = 0
      BY SumOnEmpty
    <3> QED
      BY <3>1
  <2> DEFINE x == CHOOSE y \in s : TRUE
             rest == s \ {x}
  <2>4. /\ x \in s /\ SumOn(f, s) = f[x] + SumOn(f, rest) /\ SumOn(g, s) = g[x] + SumOn(g, rest)
        /\ SumOn(h, s) = h[x] + SumOn(h, rest)
    BY <2>2, <2>3, SumOnRecursion
  <2>5. SumOn(h, rest) = SumOn(f, rest) - SumOn(g, rest)
    BY <2>1, <2>4
  <2>6. f[x] \in Int /\ g[x] \in Int /\ h[x] = f[x] - g[x]
    BY <2>1, <2>4
  <2>7. SumOn(f, rest) \in Int /\ SumOn(g, rest) \in Int
    BY <2>2, SumOnInt
  <2>8. SumOn(h, s) = SumOn(f, s) - SumOn(g, s)
    <3> HIDE DEF x, rest, bad
    <3> QED
      BY <2>4, <2>5, <2>6, <2>7
  <2> QED
    BY <2>8
<1> QED
  BY <1>1

\* Where a function is 0 does not count.
LEMMA SumOnSupport ==
    ASSUME NEW S, IsFiniteSet(S), NEW T \in SUBSET S, NEW f, \A x \in S : f[x] \in Int,
           \A x \in S \ T : f[x] = 0
    PROVE  SumOn(f, S) = SumOn(f, T)
<1> DEFINE rest == S \ T
<1>1. IsFiniteSet(rest) /\ IsFiniteSet(T) /\ \A x \in rest : f[x] \in Int /\ f[x] = f[x] - f[x]
  BY FS_Subset
<1>2. SumOn(f, S) = SumOn(f, T) + SumOn(f, rest)
  BY SumOnParts
<1> HIDE DEF rest
<1>3. SumOn(f, rest) = SumOn(f, rest) - SumOn(f, rest)
  BY <1>1, SumOnMinus
<1>4. SumOn(f, rest) \in Int /\ SumOn(f, T) \in Int
  BY <1>1, SumOnInt
<1> QED
  BY <1>2, <1>3, <1>4

\* A sum may be taken over the keys of what it is over.
LEMMA SumOnFibres ==
    ASSUME NEW S, IsFiniteSet(S), NEW f, \A x \in S : f[x] \in Int, NEW key,
           NEW U, IsFiniteSet(U), NEW g, \A u \in U : g[u] = SumOn(f, {x \in S : key[x] = u})
    PROVE  SumOn(g, U) = SumOn(f, {x \in S : key[x] \in U})
<1> DEFINE of(V) == {x \in S : key[x] \in V}
           bad == {V \in SUBSET U : SumOn(g, V) # SumOn(f, of(V))}
<1>1. ASSUME NEW V PROVE of(V) \in SUBSET S /\ IsFiniteSet(of(V)) /\ SumOn(f, of(V)) \in Int
  BY FS_Subset, SumOnInt
<1>2. ASSUME NEW u \in U PROVE g[u] = SumOn(f, of({u})) /\ g[u] \in Int
  <2>1. of({u}) = {x \in S : key[x] = u}
    OBVIOUS
  <2> HIDE DEF of
  <2> QED
    BY <1>1, <2>1
<1>3. ASSUME bad # {} PROVE FALSE
  <2>1. PICK V \in bad : \A W \in SUBSET V : W # V => W \notin bad
    <3>1. bad \in SUBSET SUBSET U
      OBVIOUS
    <3> HIDE DEF bad
    <3> QED
      BY <1>3, <3>1, SmallestOf
  <2>2. V # {}
    <3> SUFFICES ASSUME V = {} PROVE FALSE
      OBVIOUS
    <3>1. of(V) = {}
      OBVIOUS
    <3> QED
      BY <3>1, SumOnEmpty
  <2>3. PICK a \in V : TRUE
    BY <2>2
  <2> DEFINE W == V \ {a}
  <2>4. SumOn(g, V) = g[a] + SumOn(g, W)
    <3>1. IsFiniteSet(V) /\ \A u \in V : g[u] \in Int
      BY <1>2, FS_Subset
    <3> HIDE DEF bad
    <3> QED
      BY <3>1, SumOnSplit
  <2>5. SumOn(f, of(V)) = SumOn(f, of({a})) + SumOn(f, of(W))
    <3>1. of({a}) \in SUBSET of(V) /\ of(V) \ of({a}) = of(W) /\ \A x \in of(V) : f[x] \in Int
      OBVIOUS
    <3>2. IsFiniteSet(of(V))
      BY <1>1
    <3> HIDE DEF of, W, bad
    <3>3. SumOn(f, of(V)) = SumOn(f, of({a})) + SumOn(f, of(V) \ of({a}))
      BY <3>1, <3>2, SumOnParts
    <3> QED
      BY <3>1, <3>3
  <2>6. SumOn(g, W) = SumOn(f, of(W))
    BY <2>1, <2>3
  <2>7. a \in U /\ SumOn(g, V) # SumOn(f, of(V))
    BY <2>1
  <2> HIDE DEF of, bad, W
  <2> QED
    BY <1>2, <2>4, <2>5, <2>6, <2>7
<1>4. U \notin bad
  BY <1>3
<1> QED
  BY <1>4

\* Sums of natural numbers do not shrink when the set grows.
LEMMA SumOnNat ==
    ASSUME NEW S, IsFiniteSet(S), NEW f, \A x \in S : f[x] \in Nat
    PROVE  SumOn(f, S) \in Nat
<1> DEFINE bad == {s \in SUBSET S : SumOn(f, s) \notin Nat}
<1>1. ASSUME bad # {} PROVE FALSE
  <2>1. PICK s \in bad : \A t \in SUBSET s : t # s => t \notin bad
    <3>1. bad \in SUBSET SUBSET S
      OBVIOUS
    <3> HIDE DEF bad
    <3> QED
      BY <1>1, <3>1, SmallestOf
  <2>2. IsFiniteSet(s)
    BY FS_Subset
  <2>3. s # {}
    BY SumOnEmpty
  <2> DEFINE x == CHOOSE y \in s : TRUE
  <2>4. x \in s /\ SumOn(f, s) = f[x] + SumOn(f, s \ {x})
    BY <2>2, <2>3, SumOnRecursion
  <2>5. SumOn(f, s \ {x}) \in Nat /\ f[x] \in Nat
    BY <2>1, <2>4
  <2> QED
    BY <2>4, <2>5
<1> QED
  BY <1>1

LEMMA SumOnGrows ==
    ASSUME NEW S, IsFiniteSet(S), NEW f, \A x \in S : f[x] \in Nat, NEW T \in SUBSET S
    PROVE  SumOn(f, T) <= SumOn(f, S) /\ SumOn(f, T) \in Nat /\ SumOn(f, S) \in Nat
<1>1. SumOn(f, S) = SumOn(f, T) + SumOn(f, S \ T)
  BY SumOnParts
<1>2. SumOn(f, T) \in Nat /\ SumOn(f, S \ T) \in Nat
  BY FS_Subset, SumOnNat
<1> QED
  BY <1>1, <1>2

\* A sum does not change when everything it is over moves by one.
LEMMA SumOnShift ==
    ASSUME NEW S \in SUBSET Int, IsFiniteSet(S), NEW f, NEW g,
           \A x \in S : f[x] \in Int /\ g[x + 1] = f[x]
    PROVE  SumOn(g, {x + 1 : x \in S}) = SumOn(f, S)
<1> DEFINE moved(s) == {x + 1 : x \in s}
           bad == {s \in SUBSET S : SumOn(g, moved(s)) # SumOn(f, s)}
<1>1. ASSUME NEW s \in SUBSET S
      PROVE  IsFiniteSet(s) /\ IsFiniteSet(moved(s)) /\ \A y \in moved(s) : g[y] \in Int
  <2>1. IsFiniteSet(s)
    BY FS_Subset
  <2> DEFINE next == [x \in s |-> x + 1]
  <2>2. next \in Surjection(s, moved(s))
    BY DEF Surjection
  <2>3. IsFiniteSet(moved(s))
    <3> HIDE DEF next, moved
    <3> QED
      BY <2>1, <2>2, FS_Surjection
  <2> QED
    BY <2>1, <2>3
<1>2. ASSUME bad # {} PROVE FALSE
  <2>1. PICK s \in bad : \A t \in SUBSET s : t # s => t \notin bad
    <3>1. bad \in SUBSET SUBSET S
      OBVIOUS
    <3> HIDE DEF bad
    <3> QED
      BY <1>2, <3>1, SmallestOf
  <2>2. s # {}
    <3> SUFFICES ASSUME s = {} PROVE FALSE
      OBVIOUS
    <3>1. moved(s) = {}
      OBVIOUS
    <3> QED
      BY <3>1, SumOnEmpty
  <2>3. PICK a \in s : TRUE
    BY <2>2
  <2>4. a \in Int /\ a + 1 \in moved(s) /\ moved(s) \ {a + 1} = moved(s \ {a})
    <3>1. s \subseteq Int
      OBVIOUS
    <3> QED
      BY <3>1
  <2>5. SumOn(f, s) = f[a] + SumOn(f, s \ {a})
    <3>1. IsFiniteSet(s) /\ \A x \in s : f[x] \in Int
      BY <1>1
    <3> HIDE DEF bad
    <3> QED
      BY <3>1, SumOnSplit
  <2>6. SumOn(g, moved(s)) = g[a + 1] + SumOn(g, moved(s) \ {a + 1})
    <3>1. IsFiniteSet(moved(s)) /\ \A y \in moved(s) : g[y] \in Int
      BY <1>1
    <3> HIDE DEF bad, moved
    <3> QED
      BY <2>4, <3>1, SumOnSplit
  <2>7. SumOn(g, moved(s \ {a})) = SumOn(f, s \ {a}) /\ g[a + 1] = f[a]
    BY <2>1, <2>3
  <2> QED
    BY <2>4, <2>5, <2>6, <2>7
<1>3. S \notin bad
  BY <1>2
<1> QED
  BY <1>3
===========================================================================
