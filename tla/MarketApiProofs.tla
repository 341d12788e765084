------------------------- MODULE MarketApiProofs -------------------------
(***************************************************************************)
(* Theorems about MarketApi, for any rows, keys, page limits and clients.  *)
(*                                                                         *)
(* A walk is complete because the sort of a page and the filter of its     *)
(* cursor are one order: the cursor stands for a point in it, what is      *)
(* steady and before the point has been received, and what is after it has *)
(* not (Swept).  The limiter keeps, for each client, how often it was      *)
(* served in its live window and before it (Burst).                        *)
(***************************************************************************)
EXTENDS MarketApi, SetSums

WalkTypes ==
    /\ query \in Queries
    /\ DOMAIN rows \subseteq Ids
    /\ rows \in [DOMAIN rows -> [key : Keys(query.path), listed : BOOLEAN]]
    /\ cursor \in Cursors
    /\ got \in SUBSET Ids /\ again \in SUBSET got
    /\ steady \in SUBSET Listed
    /\ done \in BOOLEAN

\* What the cursor has passed.
Passed(i) == cursor # NoCursor /\ ~PastCursor(i)

Swept ==
    \A i \in steady : (i \in got <=> done \/ Passed(i)) /\ i \notin again

---------------------------------------------------------------------------
(* The order of a list                                                     *)

Sooner(i, k, j, l) == Less(SortKey(i, k), SortKey(j, l))

\* The order field by field.
SoonerInBook(i, k, j, l, bid) ==
    \/ IF bid THEN k.price > l.price ELSE k.price < l.price
    \/ k.price = l.price /\ k.block < l.block
    \/ k.price = l.price /\ k.block = l.block /\ k.tx < l.tx
    \/ k.price = l.price /\ k.block = l.block /\ k.tx = l.tx /\ i < j

LEMMA LessOfTwo ==
    ASSUME NEW k \in Int \X Int, NEW l \in Int \X Int
    PROVE  Less(k, l) <=> k[1] < l[1] \/ (k[1] = l[1] /\ k[2] < l[2])
<1>1. DOMAIN k = {1, 2}
  OBVIOUS
<1>2. Less(k, l) <=> \E n \in DOMAIN k : k[n] < l[n] /\ \A m \in 1..(n - 1) : k[m] = l[m]
  BY DEF Less
<1>3. 1..(1 - 1) = {} /\ 1..(2 - 1) = {1}
  OBVIOUS
<1> QED
  BY <1>1, <1>2, <1>3

LEMMA LessOfFour ==
    ASSUME NEW k \in Int \X Int \X Int \X Int, NEW l \in Int \X Int \X Int \X Int
    PROVE  Less(k, l) <=> \/ k[1] < l[1]
                          \/ k[1] = l[1] /\ k[2] < l[2]
                          \/ k[1] = l[1] /\ k[2] = l[2] /\ k[3] < l[3]
                          \/ k[1] = l[1] /\ k[2] = l[2] /\ k[3] = l[3] /\ k[4] < l[4]
<1>1. DOMAIN k = {1, 2, 3, 4}
  OBVIOUS
<1>2. Less(k, l) <=> \E n \in DOMAIN k : k[n] < l[n] /\ \A m \in 1..(n - 1) : k[m] = l[m]
  BY DEF Less
<1>3. 1..(1 - 1) = {} /\ 1..(2 - 1) = {1} /\ 1..(3 - 1) = {1, 2} /\ 1..(4 - 1) = {1, 2, 3}
  OBVIOUS
<1> QED
  BY <1>1, <1>2, <1>3

LEMMA KeyFields ==
    /\ \A i \in Ids : i \in Int
    /\ \A k \in Keys("order-book") : k.price \in Int /\ k.block \in Int /\ k.tx \in Int
    /\ \A k \in Keys("orders") : k.created \in Int
    /\ \A k \in Keys("trades") : k.block \in Int
BY ApiConstants DEF Keys

LEMMA Paths == query \in Queries => query.path \in {"order-book", "orders", "trades"}
BY DEF Queries

LEMMA SoonerIs ==
    ASSUME query \in Queries, NEW i \in Ids, NEW j \in Ids,
           NEW k \in Keys(query.path), NEW l \in Keys(query.path)
    PROVE  /\ query.path = "order-book" =>
                (Sooner(i, k, j, l) <=> SoonerInBook(i, k, j, l, query.direction = "BID"))
           /\ query.path = "orders" =>
                (Sooner(i, k, j, l) <=> k.created > l.created \/ (k.created = l.created /\ i < j))
           /\ query.path = "trades" =>
                (Sooner(i, k, j, l) <=> k.block > l.block \/ (k.block = l.block /\ i < j))
<1>1. CASE query.path = "order-book"
  <2> DEFINE p == IF query.direction = "BID" THEN -k.price ELSE k.price
             q == IF query.direction = "BID" THEN -l.price ELSE l.price
  <2>1. /\ k.price \in Int /\ k.block \in Int /\ k.tx \in Int /\ i \in Int /\ p \in Int
        /\ l.price \in Int /\ l.block \in Int /\ l.tx \in Int /\ j \in Int /\ q \in Int
    BY <1>1, KeyFields
  <2>2. SortKey(i, k) = <<p, k.block, k.tx, i>> /\ SortKey(j, l) = <<q, l.block, l.tx, j>>
    BY <1>1 DEF SortKey
  <2>3. Sooner(i, k, j, l) <=> \/ p < q
                               \/ p = q /\ k.block < l.block
                               \/ p = q /\ k.block = l.block /\ k.tx < l.tx
                               \/ p = q /\ k.block = l.block /\ k.tx = l.tx /\ i < j
    <3> DEFINE a == <<p, k.block, k.tx, i>>
               b == <<q, l.block, l.tx, j>>
    <3> HIDE DEF p, q
    <3>1. a \in Int \X Int \X Int \X Int /\ b \in Int \X Int \X Int \X Int
      BY <2>1
    <3>2. /\ a[1] = p /\ a[2] = k.block /\ a[3] = k.tx /\ a[4] = i
          /\ b[1] = q /\ b[2] = l.block /\ b[3] = l.tx /\ b[4] = j
      OBVIOUS
    <3>3. Sooner(i, k, j, l) <=> Less(a, b)
      BY <2>2 DEF Sooner
    <3> HIDE DEF a, b
    <3> QED
      BY <3>1, <3>2, <3>3, LessOfFour
  <2> QED
    BY <1>1, <2>1, <2>3 DEF SoonerInBook
<1>2. CASE query.path = "orders"
  <2>1. k.created \in Int /\ l.created \in Int /\ i \in Int /\ j \in Int
    BY <1>2, KeyFields
  <2>2. SortKey(i, k) = <<-k.created, i>> /\ SortKey(j, l) = <<-l.created, j>>
    BY <1>2 DEF SortKey
  <2>3. Sooner(i, k, j, l) <=> -k.created < -l.created \/ (-k.created = -l.created /\ i < j)
    BY <2>1, <2>2, LessOfTwo DEF Sooner
  <2> QED
    BY <1>2, <2>1, <2>3
<1>3. CASE query.path = "trades"
  <2>1. k.block \in Int /\ l.block \in Int /\ i \in Int /\ j \in Int
    BY <1>3, KeyFields
  <2>2. SortKey(i, k) = <<-k.block, i>> /\ SortKey(j, l) = <<-l.block, j>>
    BY <1>3 DEF SortKey
  <2>3. Sooner(i, k, j, l) <=> -k.block < -l.block \/ (-k.block = -l.block /\ i < j)
    BY <2>1, <2>2, LessOfTwo DEF Sooner
  <2> QED
    BY <1>3, <2>1, <2>3
<1> QED
  BY <1>1, <1>2, <1>3, Paths

\* The order is strict and total on rows of different ids.
LEMMA SoonerIsAnOrder ==
    ASSUME query \in Queries, NEW i \in Ids, NEW j \in Ids, NEW m \in Ids,
           NEW k \in Keys(query.path), NEW l \in Keys(query.path), NEW n \in Keys(query.path)
    PROVE  /\ ~(Sooner(i, k, j, l) /\ Sooner(j, l, i, k))
           /\ Sooner(i, k, j, l) /\ Sooner(j, l, m, n) => Sooner(i, k, m, n)
           /\ i # j => Sooner(i, k, j, l) \/ Sooner(j, l, i, k)
<1>1. CASE query.path = "order-book"
  BY <1>1, SoonerIs, KeyFields DEF SoonerInBook
<1>2. CASE query.path = "orders"
  BY <1>2, SoonerIs, KeyFields
<1>3. CASE query.path = "trades"
  BY <1>3, SoonerIs, KeyFields
<1> QED
  BY <1>1, <1>2, <1>3, Paths

\* The filter of a cursor is the sort of the list.
LEMMA PastCursorIsAfter ==
    ASSUME WalkTypes, cursor # NoCursor, NEW i \in DOMAIN rows
    PROVE  PastCursor(i) <=> Sooner(cursor.id, cursor.key, i, rows[i].key)
<1>1. i \in Ids /\ rows[i].key \in Keys(query.path) /\ query \in Queries
  BY DEF WalkTypes
<1>2. cursor.id \in Ids /\ cursor.key \in Keys(query.path)
  BY DEF WalkTypes, Cursors
<1>3. CASE query.path = "order-book"
  BY <1>1, <1>2, <1>3, SoonerIs, KeyFields DEF PastCursor, SoonerInBook
<1>4. CASE query.path = "orders"
  BY <1>1, <1>2, <1>4, SoonerIs, KeyFields DEF PastCursor
<1>5. CASE query.path = "trades"
  BY <1>1, <1>2, <1>5, SoonerIs, KeyFields DEF PastCursor
<1> QED
  BY <1>1, <1>3, <1>4, <1>5, Paths

LEMMA RowsAreOrdered ==
    ASSUME WalkTypes, NEW i \in DOMAIN rows, NEW j \in DOMAIN rows, NEW m \in DOMAIN rows
    PROVE  /\ Before(i, j) <=> Sooner(i, rows[i].key, j, rows[j].key)
           /\ ~(Before(i, j) /\ Before(j, i))
           /\ Before(i, j) /\ Before(j, m) => Before(i, m)
           /\ i # j => Before(i, j) \/ Before(j, i)
<1>1. /\ {i, j, m} \subseteq Ids /\ query \in Queries
      /\ {rows[i].key, rows[j].key, rows[m].key} \subseteq Keys(query.path)
  BY DEF WalkTypes
<1>2. \A x, y \in DOMAIN rows : Before(x, y) <=> Sooner(x, rows[x].key, y, rows[y].key)
  BY DEF Before, Sooner
<1> QED
  BY <1>1, <1>2, SoonerIsAnOrder

---------------------------------------------------------------------------
(* Pages                                                                   *)

\* Of any rows one comes first and one last: among the sets of rows before
\* (after) a row, one is minimal.
LEMMA Extremes ==
    ASSUME WalkTypes, NEW S \in SUBSET DOMAIN rows, S # {}
    PROVE  /\ \E x \in S : \A y \in S : ~Before(y, x)
           /\ \E x \in S : \A y \in S : ~Before(x, y)
<1>1. IsFiniteSet(S)
  BY ApiConstants, FS_Subset DEF WalkTypes
<1>2. IsWellFoundedOn(StrictSubsetOrdering(S), SUBSET S)
  BY <1>1, FS_StrictSubsetOrderingWellFounded, FS_FiniteSubsetsOfFinite
<1>3. \A i, j, m \in S : /\ ~(Before(i, j) /\ Before(j, i))
                         /\ Before(i, j) /\ Before(j, m) => Before(i, m)
  BY RowsAreOrdered
<1>4. \E x \in S : \A y \in S : ~Before(y, x)
  <2> DEFINE earlier(x) == {y \in S : Before(y, x)}
             T == {earlier(x) : x \in S}
  <2>1. T \subseteq SUBSET S /\ T # {}
    OBVIOUS
  <2>2. PICK e \in T : \A f \in T : <<f, e>> \notin StrictSubsetOrdering(S)
    <3> HIDE DEF T
    <3> QED
      BY <1>2, <2>1, WFMin
  <2>3. PICK x \in S : e = earlier(x)
    BY <2>2
  <2>4. ASSUME NEW y \in S, Before(y, x) PROVE FALSE
    <3>1. earlier(y) \subseteq earlier(x) /\ y \in earlier(x) /\ y \notin earlier(y)
      BY <1>3, <2>4
    <3>2. <<earlier(y), earlier(x)>> \in StrictSubsetOrdering(S)
      BY <3>1 DEF StrictSubsetOrdering
    <3> QED
      BY <2>2, <2>3, <3>2
  <2> QED
    BY <2>4
<1>5. \E x \in S : \A y \in S : ~Before(x, y)
  <2> DEFINE later(x) == {y \in S : Before(x, y)}
             T == {later(x) : x \in S}
  <2>1. T \subseteq SUBSET S /\ T # {}
    OBVIOUS
  <2>2. PICK e \in T : \A f \in T : <<f, e>> \notin StrictSubsetOrdering(S)
    <3> HIDE DEF T
    <3> QED
      BY <1>2, <2>1, WFMin
  <2>3. PICK x \in S : e = later(x)
    BY <2>2
  <2>4. ASSUME NEW y \in S, Before(x, y) PROVE FALSE
    <3>1. later(y) \subseteq later(x) /\ y \in later(x) /\ y \notin later(y)
      BY <1>3, <2>4
    <3>2. <<later(y), later(x)>> \in StrictSubsetOrdering(S)
      BY <3>1 DEF StrictSubsetOrdering
    <3> QED
      BY <2>2, <2>3, <3>2
  <2> QED
    BY <2>4
<1> QED
  BY <1>4, <1>5

Earlier(i) == {j \in Matching : Before(j, i)}

LEMMA MatchingIsFinite ==
    ASSUME WalkTypes
    PROVE  /\ Matching \subseteq DOMAIN rows /\ IsFiniteSet(Matching) /\ Page \subseteq Matching
           /\ Cardinality(Matching) \in Nat /\ query.limit \in Nat \ {0}
           /\ \A i \in Matching : IsFiniteSet(Earlier(i)) /\ Cardinality(Earlier(i)) \in Nat
<1>1. Matching \subseteq DOMAIN rows /\ Page \subseteq Matching
  BY DEF Matching, Listed, Page
<1>2. IsFiniteSet(Matching)
  BY <1>1, ApiConstants, FS_Subset DEF WalkTypes
<1>3. \A i \in Matching : IsFiniteSet(Earlier(i))
  BY <1>2, FS_Subset DEF Earlier
<1>4. query.limit \in Nat \ {0}
  BY ApiConstants DEF WalkTypes, Queries
<1> QED
  BY <1>1, <1>2, <1>3, <1>4, FS_CardinalityType

\* When the page is not all there is, its last row separates it from the rest.
LEMMA LastSeparates ==
    ASSUME WalkTypes, HasMore
    PROVE  /\ Last \in Page
           /\ \A i \in Matching : i \in Page <=> ~Before(Last, i)
<1>1. Matching \subseteq DOMAIN rows /\ IsFiniteSet(Matching) /\ Page \subseteq Matching
      /\ Cardinality(Matching) \in Nat /\ query.limit \in Nat \ {0}
      /\ \A i \in Matching : IsFiniteSet(Earlier(i)) /\ Cardinality(Earlier(i)) \in Nat
  BY MatchingIsFinite
<1>2. \A i \in Matching : i \in Page <=> Cardinality(Earlier(i)) < query.limit
  BY DEF Page, Earlier
<1>3. Page # {}
  <2>1. Matching # {}
    BY <1>1, FS_EmptySet DEF HasMore
  <2>2. PICK x \in Matching : \A y \in Matching : ~Before(y, x)
    BY <1>1, <2>1, Extremes
  <2>3. Earlier(x) = {}
    BY <2>2 DEF Earlier
  <2> QED
    BY <1>1, <1>2, <2>3, FS_EmptySet
<1>4. \A i, j, m \in Matching : /\ ~(Before(i, j) /\ Before(j, i))
                                /\ Before(i, j) /\ Before(j, m) => Before(i, m)
                                /\ i # j => Before(i, j) \/ Before(j, i)
  BY <1>1, RowsAreOrdered
<1>5. Last \in Page /\ \A j \in Page \ {Last} : Before(j, Last)
  <2>1. PICK x \in Page : \A y \in Page : ~Before(x, y)
    BY <1>1, <1>3, Extremes
  <2>2. \A y \in Page \ {x} : Before(y, x)
    BY <1>1, <1>4, <2>1
  <2> QED
    BY <2>2 DEF Last
<1>6. ASSUME NEW i \in Matching, i \in Page PROVE ~Before(Last, i)
  BY <1>1, <1>4, <1>5, <1>6
<1>7. ASSUME NEW i \in Matching, i \notin Page PROVE Before(Last, i)
  <2>1. Last \in Matching /\ i # Last
    BY <1>1, <1>5, <1>7
  <2>2. ASSUME Before(i, Last) PROVE FALSE
    <3>1. Earlier(i) \subseteq Earlier(Last)
      BY <1>4, <2>1, <2>2 DEF Earlier
    <3>2. Cardinality(Earlier(i)) <= Cardinality(Earlier(Last))
      BY <1>1, <2>1, <3>1, FS_Subset
    <3> QED
      BY <1>1, <1>2, <1>5, <1>7, <2>1, <3>2
  <2> QED
    BY <1>4, <2>1, <2>2
<1> QED
  BY <1>5, <1>6, <1>7

LEMMA ShortPageIsAll ==
    ASSUME WalkTypes, ~HasMore
    PROVE  Page = Matching
<1>1. Matching \subseteq DOMAIN rows /\ IsFiniteSet(Matching) /\ Page \subseteq Matching
      /\ Cardinality(Matching) \in Nat /\ query.limit \in Nat \ {0}
      /\ \A i \in Matching : IsFiniteSet(Earlier(i)) /\ Cardinality(Earlier(i)) \in Nat
  BY MatchingIsFinite
<1>2. ASSUME NEW i \in Matching PROVE i \in Page
  <2>1. i \notin Earlier(i)
    BY <1>1, RowsAreOrdered DEF Earlier
  <2>2. Earlier(i) \subseteq Matching /\ Earlier(i) # Matching
    BY <2>1 DEF Earlier
  <2>3. Cardinality(Earlier(i)) < Cardinality(Matching)
    BY <1>1, <2>2, FS_Subset
  <2>4. Cardinality(Earlier(i)) < query.limit
    BY <1>1, <2>3 DEF HasMore
  <2> QED
    BY <2>4 DEF Page, Earlier
<1> QED
  BY <1>1, <1>2

---------------------------------------------------------------------------
(* The limiter                                                             *)

LimiterTypes ==
    /\ DOMAIN windows \subseteq Clients
    /\ windows \in [DOMAIN windows -> [age : Ages, count : Counts]]
    /\ Cardinality(DOMAIN windows) <= maxClients

LEMMA LimiterTypesAre == LimiterTypeOK <=> LimiterTypes
BY DEF LimiterTypeOK, LimiterTypes

LEMMA KeptIsPart ==
    ASSUME LimiterTypes, NEW c \in Clients
    PROVE  /\ DOMAIN Kept(c) \subseteq DOMAIN windows /\ IsFiniteSet(DOMAIN Kept(c))
           /\ \A d \in DOMAIN Kept(c) : Kept(c)[d] = windows[d]
           /\ Kept(c) = [d \in DOMAIN Kept(c) |-> Kept(c)[d]]
           /\ Cardinality(DOMAIN Kept(c)) \in Nat /\ Cardinality(DOMAIN Kept(c)) <= maxClients
           /\ ~NeedsWindow(c) => c \in DOMAIN Kept(c)
<1>1. IsFiniteSet(DOMAIN windows) /\ DOMAIN windows \subseteq Clients
  BY LimiterConstants, FS_Subset DEF LimiterTypes
<1>2. /\ DOMAIN Kept(c) \subseteq DOMAIN windows
      /\ \A d \in DOMAIN Kept(c) : Kept(c)[d] = windows[d]
      /\ Kept(c) = [d \in DOMAIN Kept(c) |-> Kept(c)[d]]
  BY DEF Kept, Restrict, Unexpired, LimiterTypes
<1>3. ~NeedsWindow(c) => c \in DOMAIN Kept(c)
  BY DEF Kept, NeedsWindow, Unexpired
<1>4. /\ IsFiniteSet(DOMAIN Kept(c)) /\ Cardinality(DOMAIN Kept(c)) \in Nat
      /\ Cardinality(DOMAIN Kept(c)) <= Cardinality(DOMAIN windows) /\ Cardinality(DOMAIN windows) \in Nat
  BY <1>1, <1>2, FS_Subset, FS_CardinalityType
<1>5. Cardinality(DOMAIN Kept(c)) <= maxClients
  BY <1>4, LimiterConstants DEF LimiterTypes
<1> QED
  BY <1>2, <1>3, <1>4, <1>5

LEMMA CountedKeeps ==
    ASSUME LimiterTypes, NEW c \in Clients, ~IsShed(c), Counted(c)
    PROVE  LimiterTypes'
<1>1. /\ DOMAIN Kept(c) \subseteq DOMAIN windows /\ IsFiniteSet(DOMAIN Kept(c))
      /\ \A d \in DOMAIN Kept(c) : Kept(c)[d] = windows[d]
      /\ Cardinality(DOMAIN Kept(c)) \in Nat /\ Cardinality(DOMAIN Kept(c)) <= maxClients
      /\ ~NeedsWindow(c) => c \in DOMAIN Kept(c)
  BY KeptIsPart
<1> DEFINE tracked == DOMAIN Kept(c) \cup {c}
           entry(d) == IF d = c THEN Entry(c) ELSE Kept(c)[d]
<1>2. windows' = [d \in tracked |-> entry(d)] /\ DOMAIN windows' = tracked
  BY DEF Counted
<1>3. Entry(c) \in [age : Ages, count : Counts]
  <2>1. CASE NeedsWindow(c)
    BY <2>1, LimiterConstants DEF Entry, Ages, Counts
  <2>2. CASE ~NeedsWindow(c)
    <3>1. windows[c] \in [age : Ages, count : Counts]
      BY <2>2 DEF NeedsWindow, Unexpired, LimiterTypes
    <3> QED
      BY <2>2, <3>1, LimiterConstants DEF Entry, Counts
  <2> QED
    BY <2>1, <2>2
<1>4. DOMAIN windows' \subseteq Clients /\ windows' \in [DOMAIN windows' -> [age : Ages, count : Counts]]
  <2>1. \A d \in tracked : entry(d) \in [age : Ages, count : Counts]
    BY <1>1, <1>3 DEF LimiterTypes
  <2>2. tracked \subseteq Clients
    BY <1>1 DEF LimiterTypes
  <2> HIDE DEF entry, tracked
  <2> QED
    BY <1>2, <2>1, <2>2
<1>5. Cardinality(DOMAIN windows') <= maxClients
  <2>1. CASE c \in DOMAIN Kept(c)
    BY <1>1, <1>2, <2>1, FS_AddElement
  <2>2. CASE c \notin DOMAIN Kept(c)
    <3>1. Cardinality(DOMAIN windows') = Cardinality(DOMAIN Kept(c)) + 1
      BY <1>1, <1>2, <2>2, FS_AddElement
    <3>2. Cardinality(DOMAIN Kept(c)) < maxClients
      BY <1>1, <2>2, LimiterConstants DEF IsShed
    <3> QED
      BY <1>1, <3>1, <3>2, LimiterConstants
  <2> QED
    BY <2>1, <2>2
<1> QED
  BY <1>4, <1>5 DEF LimiterTypes

LEMMA LimiterStep ==
    ASSUME LimiterTypes, NEW c \in Clients, Serve(c) \/ Refuse(c) \/ Age \/ UNCHANGED limiter
    PROVE  LimiterTypes'
<1>1. CASE Serve(c) \/ (Refuse(c) /\ ~IsShed(c))
  BY <1>1, CountedKeeps DEF Serve, Refuse, IsRefused
<1>2. CASE Refuse(c) /\ IsShed(c)
  <2>1. windows' = Kept(c)
    BY <1>2 DEF Refuse
  <2> QED
    BY <2>1, KeptIsPart DEF LimiterTypes
<1>3. CASE Age
  <2>1. DOMAIN windows' = DOMAIN windows
    BY <1>3 DEF Age
  <2>2. \A d \in DOMAIN windows : windows'[d] \in [age : Ages, count : Counts]
    <3> SUFFICES ASSUME NEW d \in DOMAIN windows PROVE windows'[d] \in [age : Ages, count : Counts]
      OBVIOUS
    <3>1. windows[d] \in [age : Ages, count : Counts]
      BY DEF LimiterTypes
    <3>2. windows'[d] = [windows[d] EXCEPT !.age = IF @ < windowMs THEN @ + 1 ELSE @]
      BY <1>3 DEF Age
    <3> QED
      BY <3>1, <3>2, LimiterConstants DEF Ages
  <2>3. windows' = [d \in DOMAIN windows |-> windows'[d]]
    BY <1>3 DEF Age
  <2> QED
    BY <2>1, <2>2, <2>3 DEF LimiterTypes
<1>4. CASE UNCHANGED limiter
  BY <1>4 DEF limiter, LimiterTypes
<1> QED
  BY <1>1, <1>2, <1>3, <1>4

---------------------------------------------------------------------------
(* The walk                                                                *)

Inv == WalkTypes /\ Swept /\ LimiterTypes

LEMMA NoCursorIsNone == \A i \in Ids : i # -1
BY ApiConstants

LEMMA InitInv == Init => Inv
<1> SUFFICES ASSUME Init PROVE Inv
  OBVIOUS
<1>1. PICK known \in SUBSET Ids : rows \in [known -> [key : Keys(query.path), listed : {TRUE}]]
  BY DEF Init
<1>2. WalkTypes
  BY <1>1 DEF Init, WalkTypes, Cursors, Listed
<1>3. Swept
  BY DEF Init, Swept, Passed
<1>4. LimiterTypes
  <2>1. DOMAIN windows = {} /\ windows = [d \in {} |-> windows[d]]
    BY DEF Init, LimiterInit
  <2> QED
    BY <2>1, FS_EmptySet, LimiterConstants DEF LimiterTypes
<1> QED
  BY <1>2, <1>3, <1>4 DEF Inv

LEMMA FetchStep ==
    ASSUME WalkTypes, Swept, Fetch
    PROVE  WalkTypes' /\ Swept'
<1>1. /\ done = FALSE /\ UNCHANGED <<query, rows, steady>>
      /\ got' = got \cup Page /\ again' = again \cup (got \cap Page)
      /\ cursor' = NextCursor /\ done' = ~HasMore
  BY DEF Fetch, WalkTypes
<1>2. Page \subseteq Matching /\ Matching \subseteq DOMAIN rows /\ DOMAIN rows \subseteq Ids
  BY MatchingIsFinite DEF WalkTypes
<1>3. HasMore => Last \in Page
  BY LastSeparates
<1>4. cursor' \in Cursors'
  <2>1. CASE HasMore
    <3>1. Last \in Ids /\ rows[Last].key \in Keys(query.path)
      BY <1>2, <1>3, <2>1 DEF WalkTypes
    <3> QED
      BY <1>1, <2>1, <3>1 DEF NextCursor, Cursors
  <2>2. CASE ~HasMore
    BY <1>1, <2>2 DEF NextCursor, Cursors
  <2> QED
    BY <2>1, <2>2
<1>5. WalkTypes'
  <2>1. Listed' = Listed
    BY <1>1 DEF Listed
  <2> QED
    BY <1>1, <1>2, <1>4, <2>1 DEF WalkTypes
<1>6. ASSUME NEW i \in steady
      PROVE  (i \in got' <=> done' \/ Passed(i)') /\ i \notin again'
  <2>1. i \in DOMAIN rows /\ i \in Listed
    BY DEF WalkTypes, Listed
  <2>2. i \in Matching <=> i \notin got
    BY <1>1, <2>1 DEF Swept, Passed, Matching
  <2>3. i \notin again'
    BY <1>1, <1>2, <2>2 DEF Swept
  <2>4. CASE ~HasMore
    BY <1>1, <2>2, <2>3, <2>4, ShortPageIsAll
  <2>5. CASE HasMore
    <3>1. /\ cursor' = [id |-> Last, key |-> rows[Last].key]
          /\ Last \in DOMAIN rows /\ Last \in Ids /\ Last \in Matching
      BY <1>1, <1>2, <1>3, <2>5 DEF NextCursor
    <3>2. cursor' # NoCursor
      BY <3>1, NoCursorIsNone DEF NoCursor
    <3>3. PastCursor(i)' <=> Before(Last, i)
      <4>1. /\ i \in Ids /\ Last \in Ids /\ query \in Queries
            /\ rows[i].key \in Keys(query.path) /\ rows[Last].key \in Keys(query.path)
        BY <2>1, <3>1 DEF WalkTypes
      <4>2. cursor'.id = Last /\ cursor'.key = rows[Last].key
        BY <3>1
      <4>3. PastCursor(i)' <=> Sooner(Last, rows[Last].key, i, rows[i].key)
        <5>1. CASE query.path = "order-book"
          BY <1>1, <4>1, <4>2, <5>1, SoonerIs, KeyFields DEF PastCursor, SoonerInBook
        <5>2. CASE query.path = "orders"
          BY <1>1, <4>1, <4>2, <5>2, SoonerIs, KeyFields DEF PastCursor
        <5>3. CASE query.path = "trades"
          BY <1>1, <4>1, <4>2, <5>3, SoonerIs, KeyFields DEF PastCursor
        <5> QED
          BY <4>1, <5>1, <5>2, <5>3, Paths
      <4> QED
        BY <2>1, <3>1, <4>3, RowsAreOrdered
    <3>4. i \in got => ~Before(Last, i)
      <4> SUFFICES ASSUME i \in got, Before(Last, i) PROVE FALSE
        OBVIOUS
      <4>1. cursor # NoCursor /\ ~PastCursor(i) /\ PastCursor(Last)
        BY <1>1, <2>2, <3>1 DEF Swept, Passed, Matching
      <4>2. /\ Sooner(cursor.id, cursor.key, Last, rows[Last].key)
            /\ ~Sooner(cursor.id, cursor.key, i, rows[i].key)
            /\ Sooner(Last, rows[Last].key, i, rows[i].key)
        BY <2>1, <3>1, <4>1, PastCursorIsAfter, RowsAreOrdered
      <4>3. /\ {cursor.id, Last, i} \subseteq Ids /\ query \in Queries
            /\ {cursor.key, rows[Last].key, rows[i].key} \subseteq Keys(query.path)
        BY <2>1, <3>1, <4>1 DEF WalkTypes, Cursors
      <4> QED
        BY <4>2, <4>3, SoonerIsAnOrder
    <3>5. i \in Matching => (i \in Page <=> ~Before(Last, i))
      BY <2>5, LastSeparates
    <3> QED
      BY <1>1, <1>2, <2>2, <2>3, <2>5, <3>2, <3>3, <3>4, <3>5 DEF Passed
  <2> QED
    BY <2>4, <2>5
<1> QED
  BY <1>1, <1>5, <1>6 DEF Swept

LEMMA SetRowStep ==
    ASSUME WalkTypes, Swept, NEW i \in Ids, NEW key \in Keys(query.path), NEW listed \in BOOLEAN,
           SetRow(i, key, listed)
    PROVE  WalkTypes' /\ Swept'
<1>1. UNCHANGED <<query, cursor, got, again, done>>
  BY DEF SetRow
<1>2. /\ DOMAIN rows' = DOMAIN rows \cup {i}
      /\ rows' = [j \in DOMAIN rows' |-> rows'[j]]
      /\ \A j \in DOMAIN rows' : rows'[j] = IF j = i THEN [key |-> key, listed |-> listed] ELSE rows[j]
  BY DEF SetRow
<1>3. steady' \subseteq steady /\ (i \in steady' => listed = TRUE /\ key = rows[i].key)
  BY DEF SetRow
<1>4. \A j \in steady' : j \in DOMAIN rows /\ rows'[j].key = rows[j].key /\ j \in Listed'
  <2> SUFFICES ASSUME NEW j \in steady'
               PROVE  j \in DOMAIN rows /\ rows'[j].key = rows[j].key /\ j \in Listed'
    OBVIOUS
  <2>1. j \in DOMAIN rows /\ rows[j].listed /\ j \in DOMAIN rows'
    BY <1>2, <1>3 DEF WalkTypes, Listed
  <2> QED
    BY <1>2, <1>3, <2>1 DEF Listed
<1>5. WalkTypes'
  BY <1>1, <1>2, <1>3, <1>4 DEF WalkTypes, Cursors
<1>6. \A j \in steady' : PastCursor(j)' = PastCursor(j)
  BY <1>1, <1>4 DEF PastCursor
<1>7. Swept'
  BY <1>1, <1>3, <1>6 DEF Swept, Passed
<1> QED
  BY <1>5, <1>7

LEMMA InvStep == Inv /\ [Next]_vars => Inv'
<1> SUFFICES ASSUME Inv, [Next]_vars PROVE Inv'
  OBVIOUS
<1>1. ASSUME UNCHANGED walk PROVE WalkTypes' /\ Swept'
  BY <1>1 DEF Inv, walk, WalkTypes, Listed, Cursors, Swept, Passed, PastCursor
<1>2. CASE Fetch
  BY <1>2, FetchStep, LimiterStep, ApiConstants DEF Inv, Fetch
<1>3. ASSUME NEW i \in Ids, Insert(i) \/ ChangeStatus(i) \/ Reinclude(i) PROVE Inv'
  <2>1. \E key \in Keys(query.path), listed \in BOOLEAN : SetRow(i, key, listed)
    BY <1>3 DEF Insert, ChangeStatus, Reinclude, Inv, WalkTypes
  <2>2. UNCHANGED limiter
    BY <2>1 DEF SetRow
  <2> QED
    BY <2>1, <2>2, SetRowStep, LimiterStep, ApiConstants DEF Inv
<1>4. CASE /\ (\E c \in Clients : Serve(c) \/ Refuse(c)) \/ Age
           /\ UNCHANGED walk
  BY <1>1, <1>4, LimiterStep, ApiConstants DEF Inv
<1>5. CASE UNCHANGED vars
  BY <1>1, <1>5, LimiterStep, ApiConstants DEF Inv, vars
<1> QED
  BY <1>2, <1>3, <1>4, <1>5, ApiConstants DEF Next

\* A row that stays in a list under one key is received exactly once by a
\* reader who walks to the end, for any rows, keys and page limits, whatever
\* ingestion does to the other rows between any two pages.
THEOREM WalksAreComplete == Spec => []SteadyRowsOnce
<1>1. Inv => SteadyRowsOnce
  BY DEF Inv, Swept, SteadyRowsOnce
<1> QED
  BY <1>1, InitInv, InvStep, PTL DEF Spec

\* The state is well typed, and the limiter tracks at most maxClients clients,
\* whatever clients send.
THEOREM LimiterIsBounded == Spec => []TypeOK
<1>1. Inv => TypeOK
  BY LimiterTypesAre DEF Inv, WalkTypes, TypeOK
<1> QED
  BY <1>1, InitInv, InvStep, PTL DEF Spec

---------------------------------------------------------------------------
(* What the limiter lets through                                           *)

Span == 0..(windowMs - 1)

\* A client with a live window was let through as often as the window says
\* since it started, and at most max times before; one without a live window
\* at most max times, and not in this unit of time.
Burst(c) ==
    IF c \in Unexpired
    THEN /\ SumOn(recent[c], 0..windows[c].age) = IF windows[c].count <= max THEN windows[c].count ELSE max
         /\ SumOn(recent[c], (windows[c].age + 1)..(windowMs - 1)) <= max
    ELSE recent[c][0] = 0 /\ SumOn(recent[c], Span) <= max

Bursts ==
    /\ recent \in [Clients -> [Span -> Nat]]
    /\ \A c \in Clients : Burst(c)

LEMMA SpanIsFinite ==
    /\ IsFiniteSet(Span) /\ 0 \in Span /\ Span \subseteq Nat
    /\ \A S \in SUBSET Span : IsFiniteSet(S)
<1>1. IsFiniteSet(0..(windowMs - 1))
  BY LimiterConstants, FS_Interval
<1>2. IsFiniteSet(Span) /\ 0 \in Span /\ Span \subseteq Nat
  BY <1>1, LimiterConstants DEF Span
<1> QED
  BY <1>2, FS_Subset

\* Counts of requests over a part of the time are no larger than over the whole.
LEMMA SpanSums ==
    ASSUME NEW f \in [Span -> Nat], NEW T \in SUBSET Span, NEW S \in SUBSET T
    PROVE  SumOn(f, S) \in Nat /\ SumOn(f, T) \in Nat /\ SumOn(f, S) <= SumOn(f, T)
<1>1. IsFiniteSet(T) /\ \A x \in T : f[x] \in Nat
  BY SpanIsFinite
<1> QED
  BY <1>1, SumOnGrows

LEMMA ServedIsSum == \A c : Served(c) = SumOn(recent[c], Span)
<1> SUFFICES ASSUME NEW c PROVE Served(c) = SumOn(recent[c], Span)
  OBVIOUS
<1> DEFINE Sums(it) == it = [s \in SUBSET Span |->
                               IF s = {} THEN 0
                               ELSE LET x == CHOOSE y \in s : TRUE IN recent[c][x] + it[s \ {x}]]
<1>1. Served(c) = (CHOOSE it : Sums(it))[Span]
  BY DEF Served, Span, MapThenSumSet, MapThenFoldSet
<1>2. ASSUME NEW it PROVE Sums(it) <=> SumsOn(recent[c], Span, it)
  BY DEF SumsOn
<1> HIDE DEF Sums
<1>3. \E it : Sums(it)
  BY <1>2, SpanIsFinite, SumsOnExist
<1>4. Sums(CHOOSE it : Sums(it))
  BY <1>3
<1> QED
  BY <1>1, <1>2, <1>4, SpanIsFinite, SumOnIs

\* One more request in this unit of time.
LEMMA OneMore ==
    ASSUME NEW f \in [Span -> Nat], NEW g, g = [f EXCEPT ![0] = @ + 1], NEW S \in SUBSET Span
    PROVE  /\ SumOn(g, S) = SumOn(f, S) + IF 0 \in S THEN 1 ELSE 0
           /\ SumOn(f, S) \in Nat
<1>1. /\ IsFiniteSet(S) /\ IsFiniteSet(S \ {0}) /\ g \in [Span -> Nat] /\ g[0] = f[0] + 1 /\ f[0] \in Nat
      /\ \A x \in S \ {0} : g[x] = f[x]
  BY SpanIsFinite
<1>2. SumOn(g, S \ {0}) = SumOn(f, S \ {0})
  BY <1>1, SumOnAgrees
<1>3. \A x \in S : f[x] \in Nat /\ g[x] \in Nat /\ f[x] \in Int /\ g[x] \in Int
  BY <1>1
<1>4. SumOn(f, S) \in Nat /\ SumOn(f, S \ {0}) \in Nat
  BY <1>1, <1>3, SumOnNat
<1>5. CASE 0 \notin S
  BY <1>2, <1>4, <1>5
<1>6. CASE 0 \in S
  <2>1. SumOn(f, S) = f[0] + SumOn(f, S \ {0})
    BY <1>1, <1>3, <1>6, SumOnSplit
  <2>2. SumOn(g, S) = g[0] + SumOn(g, S \ {0})
    BY <1>1, <1>3, <1>6, SumOnSplit
  <2> QED
    BY <1>1, <1>2, <1>4, <1>6, <2>1, <2>2
<1> QED
  BY <1>5, <1>6

\* A unit of time later.
LEMMA OneLater ==
    ASSUME NEW f \in [Span -> Nat], NEW g,
           g = [age \in Span |-> IF age = 0 THEN 0 ELSE f[age - 1]],
           NEW a \in Nat, NEW b \in Nat, b < windowMs
    PROVE  SumOn(g, (a + 1)..b) = SumOn(f, a..(b - 1))
<1>1. /\ a..(b - 1) \in SUBSET Int /\ a..(b - 1) \in SUBSET Span /\ IsFiniteSet(a..(b - 1))
      /\ {x + 1 : x \in a..(b - 1)} = (a + 1)..b
  <2>1. a..(b - 1) \in SUBSET Span
    BY LimiterConstants DEF Span
  <2>2. ASSUME NEW y \in (a + 1)..b PROVE \E x \in a..(b - 1) : y = x + 1
    <3>1. y - 1 \in a..(b - 1) /\ y = (y - 1) + 1
      OBVIOUS
    <3> QED
      BY <3>1
  <2>3. \A x \in a..(b - 1) : x + 1 \in (a + 1)..b
    OBVIOUS
  <2> QED
    <3>1. IsFiniteSet(a..(b - 1))
      BY <2>1, SpanIsFinite
    <3>2. {x + 1 : x \in a..(b - 1)} = (a + 1)..b
      BY <2>2, <2>3
    <3>3. a..(b - 1) \in SUBSET Int
      OBVIOUS
    <3> QED
      BY <2>1, <3>1, <3>2, <3>3
<1>2. ASSUME NEW x \in a..(b - 1) PROVE f[x] \in Int /\ g[x + 1] = f[x]
  <2>1. x \in Span /\ x + 1 \in Span /\ x + 1 # 0 /\ (x + 1) - 1 = x
    BY LimiterConstants DEF Span
  <2> QED
    BY <2>1
<1>3. SumOn(g, {x + 1 : x \in a..(b - 1)}) = SumOn(f, a..(b - 1))
  BY <1>1, <1>2, SumOnShift
<1> QED
  BY <1>1, <1>3

\* What a request does to the windows of the other clients: nothing, but for
\* those that no longer count.
LEMMA OthersKeepTheirs ==
    ASSUME LimiterTypes, NEW d \in Clients, NEW c \in Clients, c # d,
           windows' = Kept(d) \/ Counted(d)
    PROVE  /\ c \in Unexpired' <=> c \in Unexpired
           /\ c \in Unexpired => windows'[c] = windows[c]
<1>1. /\ c \in DOMAIN windows' <=> c \in DOMAIN Kept(d)
      /\ c \in DOMAIN Kept(d) => windows'[c] = Kept(d)[c]
  BY DEF Counted
<1>2. /\ c \in DOMAIN Kept(d) => c \in DOMAIN windows /\ Kept(d)[c] = windows[c]
      /\ c \in Unexpired => c \in DOMAIN Kept(d)
  BY DEF Kept, Restrict, Unexpired
<1> QED
  BY <1>1, <1>2 DEF Unexpired

LEMMA WindowTypes ==
    ASSUME LimiterTypes, NEW c \in Unexpired
    PROVE  /\ windows[c] = [age |-> windows[c].age, count |-> windows[c].count]
           /\ windows[c].age \in Nat /\ windows[c].age < windowMs
           /\ windows[c].count \in Nat /\ windows[c].count >= 1 /\ windows[c].count <= max + 1
<1>1. windows[c] \in [age : Ages, count : Counts] /\ windows[c].age < windowMs
  BY DEF LimiterTypes, Unexpired
<1> QED
  BY <1>1, LimiterConstants DEF Ages, Counts

LEMMA ServeBursts ==
    ASSUME LimiterTypes, Bursts, NEW d \in Clients, Serve(d)
    PROVE  Bursts'
<1>1. /\ Counted(d) /\ ~IsShed(d) /\ Entry(d).count <= max
      /\ recent' = [recent EXCEPT ![d][0] = @ + 1]
  <2>1. Entry(d).count \in Int
    <3>1. CASE NeedsWindow(d)
      BY <3>1 DEF Entry
    <3>2. CASE ~NeedsWindow(d)
      <4>1. /\ windows[d] = [age |-> windows[d].age, count |-> windows[d].count]
            /\ windows[d].count \in Nat
        BY <3>2, WindowTypes DEF NeedsWindow
      <4>2. Entry(d).count = IF windows[d].count > max THEN windows[d].count ELSE windows[d].count + 1
        BY <3>2, <4>1 DEF Entry
      <4> QED
        BY <4>1, <4>2
    <3> QED
      BY <3>1, <3>2
  <2> QED
    BY <2>1, LimiterConstants DEF Serve, IsRefused
<1>2. recent[d] \in [Span -> Nat] /\ recent'[d] = [recent[d] EXCEPT ![0] = @ + 1]
  BY <1>1 DEF Bursts
<1>3. recent' \in [Clients -> [Span -> Nat]]
  <2>1. recent'[d] \in [Span -> Nat]
    BY <1>2, SpanIsFinite
  <2>2. \A c \in Clients : c # d => recent'[c] = recent[c]
    BY <1>1 DEF Bursts
  <2>3. recent' = [c \in Clients |-> recent'[c]]
    BY <1>1 DEF Bursts
  <2> QED
    BY <2>1, <2>2, <2>3 DEF Bursts
<1>4. ASSUME NEW c \in Clients, c # d PROVE Burst(c)'
  <2>1. recent'[c] = recent[c]
    BY <1>1, <1>4 DEF Bursts
  <2>2. (c \in Unexpired' <=> c \in Unexpired) /\ (c \in Unexpired => windows'[c] = windows[c])
    BY <1>1, <1>4, OthersKeepTheirs
  <2>3. Burst(c)
    BY DEF Bursts
  <2> QED
    BY <2>1, <2>2, <2>3 DEF Burst
<1>5. windows'[d] = Entry(d) /\ d \in DOMAIN windows'
  BY <1>1 DEF Counted
<1>6. \A S \in SUBSET Span : /\ SumOn(recent'[d], S) = SumOn(recent[d], S) + IF 0 \in S THEN 1 ELSE 0
                             /\ SumOn(recent[d], S) \in Nat
  BY <1>2, OneMore
<1>7. CASE d \notin Unexpired
  <2>1. recent[d][0] = 0 /\ SumOn(recent[d], Span) <= max
    BY <1>7 DEF Bursts, Burst
  <2>2. windows'[d] = [age |-> 0, count |-> 1] /\ d \in Unexpired'
    BY <1>5, <1>7, LimiterConstants DEF Entry, NeedsWindow, Unexpired
  <2>3. 0..0 = {0} /\ {0} \in SUBSET Span /\ 1..(windowMs - 1) \in SUBSET Span /\ 0 \notin 1..(windowMs - 1)
    BY LimiterConstants DEF Span
  <2>4. SumOn(recent[d], {0}) = 0
    BY <2>1, SumOnSingle
  <2>5. SumOn(recent'[d], 0..0) = 1
    BY <1>6, <2>3, <2>4
  <2>6. SumOn(recent'[d], 1..(windowMs - 1)) <= max
    <3> DEFINE S == 1..(windowMs - 1)
    <3>1. S \in SUBSET Span /\ 0 \notin S
      BY <2>3
    <3> HIDE DEF S
    <3>2. SumOn(recent'[d], S) = SumOn(recent[d], S) + 0 /\ SumOn(recent[d], S) \in Nat
      BY <1>6, <3>1
    <3>3. SumOn(recent[d], S) <= SumOn(recent[d], Span) /\ SumOn(recent[d], Span) \in Nat
      BY <1>2, <3>1, SpanSums
    <3>4. SumOn(recent'[d], S) <= max
      BY <2>1, <3>2, <3>3, LimiterConstants
    <3> QED
      BY <3>4 DEF S
  <2>7. windows'[d].age = 0 /\ windows'[d].count = 1 /\ 0 + 1 = 1 /\ 1 <= max
    BY <2>2, LimiterConstants
  <2> QED
    BY <1>3, <1>4, <2>2, <2>5, <2>6, <2>7 DEF Bursts, Burst
<1>8. CASE d \in Unexpired
  <2> DEFINE a == windows[d].age
             n == windows[d].count
  <2>1. a \in Nat /\ a < windowMs /\ n \in Nat /\ windows[d] = [age |-> a, count |-> n]
    BY <1>8, WindowTypes
  <2>2. n < max /\ windows'[d] = [age |-> a, count |-> n + 1] /\ d \in Unexpired'
    <3>1. Entry(d) = [age |-> a, count |-> IF n > max THEN n ELSE n + 1]
      BY <1>8, <2>1 DEF Entry, NeedsWindow
    <3>2. (IF n > max THEN n ELSE n + 1) <= max
      BY <1>1, <3>1
    <3>3. n < max
      BY <2>1, <3>2, LimiterConstants
    <3>4. windows'[d] = [age |-> a, count |-> n + 1]
      BY <1>5, <2>1, <3>1, <3>3, LimiterConstants
    <3>5. d \in Unexpired'
      BY <1>5, <2>1, <3>4 DEF Unexpired
    <3> QED
      BY <3>3, <3>4, <3>5
  <2>3. /\ 0..a \in SUBSET Span /\ 0 \in 0..a
        /\ (a + 1)..(windowMs - 1) \in SUBSET Span /\ 0 \notin (a + 1)..(windowMs - 1)
    BY <2>1, LimiterConstants DEF Span
  <2>4. /\ SumOn(recent[d], 0..a) = n
        /\ SumOn(recent[d], (a + 1)..(windowMs - 1)) <= max
    BY <1>8, <2>1, <2>2, LimiterConstants DEF Bursts, Burst
  <2> HIDE DEF a, n
  <2>5. /\ SumOn(recent'[d], 0..a) = n + 1
        /\ SumOn(recent'[d], (a + 1)..(windowMs - 1)) <= max
    <3>1. SumOn(recent'[d], 0..a) = SumOn(recent[d], 0..a) + 1
      BY <1>6, <2>3
    <3>2. /\ SumOn(recent'[d], (a + 1)..(windowMs - 1)) = SumOn(recent[d], (a + 1)..(windowMs - 1)) + 0
          /\ SumOn(recent[d], (a + 1)..(windowMs - 1)) \in Nat
      BY <1>6, <2>3
    <3> QED
      BY <2>4, <3>1, <3>2
  <2>6. n + 1 <= max /\ windows'[d].age = a /\ windows'[d].count = n + 1
    BY <2>1, <2>2, LimiterConstants
  <2>7. Burst(d)'
    BY <2>2, <2>5, <2>6 DEF Burst
  <2> QED
    BY <1>3, <1>4, <2>7 DEF Bursts
<1> QED
  BY <1>7, <1>8

LEMMA RefuseBursts ==
    ASSUME LimiterTypes, Bursts, NEW d \in Clients, Refuse(d)
    PROVE  Bursts'
<1>1. recent' = recent /\ (windows' = Kept(d) \/ Counted(d))
  BY DEF Refuse
<1>2. ASSUME NEW c \in Clients, c # d PROVE Burst(c)'
  <2>1. (c \in Unexpired' <=> c \in Unexpired) /\ (c \in Unexpired => windows'[c] = windows[c])
    BY <1>1, <1>2, OthersKeepTheirs
  <2> QED
    BY <1>1, <2>1 DEF Bursts, Burst
<1>3. CASE IsShed(d) /\ windows' = Kept(d)
  <2>1. d \notin Unexpired /\ d \notin Unexpired'
    BY <1>3 DEF IsShed, NeedsWindow, Kept, Restrict, Unexpired
  <2>2. Burst(d)'
    BY <1>1, <2>1 DEF Bursts, Burst
  <2> QED
    BY <1>1, <1>2, <2>2 DEF Bursts
<1>4. CASE ~IsShed(d) /\ Entry(d).count > max /\ Counted(d)
  <2>1. d \in Unexpired
    BY <1>4, LimiterConstants DEF Entry, NeedsWindow
  <2> DEFINE a == windows[d].age
             n == windows[d].count
  <2>2. a \in Nat /\ a < windowMs /\ n \in Nat /\ windows[d] = [age |-> a, count |-> n]
    BY <2>1, WindowTypes
  <2>3. windows'[d] = Entry(d) /\ d \in DOMAIN windows'
    BY <1>4 DEF Counted
  <2>4. Entry(d) = [age |-> a, count |-> IF n > max THEN n ELSE n + 1]
    BY <2>1, <2>2 DEF Entry, NeedsWindow
  <2>5. /\ n >= max /\ windows'[d].age = a /\ windows'[d].count > max /\ windows'[d].count \in Nat
        /\ d \in Unexpired'
    BY <1>4, <2>2, <2>3, <2>4, LimiterConstants DEF Unexpired
  <2>6. SumOn(recent[d], 0..a) = max /\ SumOn(recent[d], (a + 1)..(windowMs - 1)) <= max
    BY <2>1, <2>2, <2>5, LimiterConstants DEF Bursts, Burst
  <2> HIDE DEF a, n
  <2>7. Burst(d)'
    BY <1>1, <2>5, <2>6, LimiterConstants DEF Burst
  <2> QED
    BY <1>1, <1>2, <2>7 DEF Bursts
<1> QED
  BY <1>3, <1>4 DEF Refuse, IsRefused

LEMMA AgeBursts ==
    ASSUME LimiterTypes, Bursts, Age
    PROVE  Bursts'
<1>1. /\ DOMAIN windows' = DOMAIN windows
      /\ recent' = [c \in Clients |-> [age \in Span |-> IF age = 0 THEN 0 ELSE recent[c][age - 1]]]
  BY DEF Age, Span
<1>2. ASSUME NEW c \in Clients
      PROVE  /\ recent[c] \in [Span -> Nat] /\ recent'[c] \in [Span -> Nat] /\ recent'[c][0] = 0
             /\ recent'[c] = [age \in Span |-> IF age = 0 THEN 0 ELSE recent[c][age - 1]]
  <2>1. recent[c] \in [Span -> Nat]
    BY DEF Bursts
  <2>2. recent'[c] = [age \in Span |-> IF age = 0 THEN 0 ELSE recent[c][age - 1]]
    BY <1>1
  <2>3. \A age \in Span : age = 0 \/ age - 1 \in Span
    BY LimiterConstants DEF Span
  <2> QED
    BY <2>1, <2>2, <2>3, SpanIsFinite
<1>3. recent' \in [Clients -> [Span -> Nat]]
  BY <1>1, <1>2
<1>4. ASSUME NEW c \in Clients, NEW a \in Nat, a < windowMs
      PROVE  /\ SumOn(recent'[c], 0..a) = SumOn(recent[c], 0..(a - 1))
             /\ SumOn(recent[c], 0..(a - 1)) \in Nat
  <2>1. /\ 0..a \in SUBSET Span /\ 0 \in 0..a /\ (0..a) \ {0} = (0 + 1)..a
        /\ 0..(a - 1) \in SUBSET Span
    BY <1>4, LimiterConstants DEF Span
  <2>2. SumOn(recent'[c], 0..a) = recent'[c][0] + SumOn(recent'[c], (0..a) \ {0})
    <3> DEFINE S == 0..a
               g == recent'[c]
    <3>1. S \in SUBSET Span /\ 0 \in S /\ g \in [Span -> Nat]
      BY <1>2, <2>1
    <3> HIDE DEF S, g
    <3>2. IsFiniteSet(S) /\ \A x \in S : g[x] \in Int
      BY <3>1, SpanIsFinite
    <3>3. SumOn(g, S) = g[0] + SumOn(g, S \ {0})
      BY <3>1, <3>2, SumOnSplit
    <3> QED
      BY <3>3 DEF S, g
  <2>3. SumOn(recent'[c], (0 + 1)..a) = SumOn(recent[c], 0..(a - 1))
    <3> DEFINE f == recent[c]
               g == recent'[c]
    <3>1. /\ f \in [Span -> Nat] /\ g = [age \in Span |-> IF age = 0 THEN 0 ELSE f[age - 1]]
          /\ 0 \in Nat
      BY <1>2
    <3> HIDE DEF f, g
    <3>2. SumOn(g, (0 + 1)..a) = SumOn(f, 0..(a - 1))
      BY <1>4, <3>1, OneLater
    <3> QED
      BY <3>2 DEF f, g
  <2>4. SumOn(recent[c], 0..(a - 1)) \in Nat
    BY <1>2, <2>1, SpanSums
  <2>5. SumOn(recent'[c], (0..a) \ {0}) = SumOn(recent[c], 0..(a - 1))
    BY <2>1, <2>3
  <2>6. recent'[c][0] = 0
    BY <1>2
  <2> QED
    BY <2>2, <2>4, <2>5, <2>6
<1>5. ASSUME NEW c \in Clients, c \notin Unexpired PROVE Burst(c)'
  <2>1. c \notin Unexpired'
    <3>1. ASSUME c \in DOMAIN windows PROVE windows'[c].age >= windowMs
      <4>1. windows[c] \in [age : Ages, count : Counts] /\ ~(windows[c].age < windowMs)
        BY <1>5, <3>1 DEF LimiterTypes, Unexpired
      <4>2. windows'[c] = [windows[c] EXCEPT !.age = IF @ < windowMs THEN @ + 1 ELSE @]
        BY <3>1 DEF Age
      <4>3. windows'[c].age = windows[c].age
        BY <4>1, <4>2
      <4> QED
        BY <4>1, <4>3, LimiterConstants DEF Ages
    <3>2. ASSUME c \in DOMAIN windows PROVE ~(windows'[c].age < windowMs)
      <4>1. windows[c] \in [age : Ages, count : Counts] /\ ~(windows[c].age < windowMs)
        BY <1>5, <3>2 DEF LimiterTypes, Unexpired
      <4>2. windows'[c] = [windows[c] EXCEPT !.age = IF @ < windowMs THEN @ + 1 ELSE @]
        BY <3>2 DEF Age
      <4>3. windows'[c].age = windows[c].age
        BY <4>1, <4>2
      <4> QED
        BY <4>1, <4>3
    <3> QED
      BY <1>1, <3>2 DEF Unexpired
  <2>2. SumOn(recent[c], Span) <= max
    BY <1>5 DEF Bursts, Burst
  <2>3. SumOn(recent'[c], Span) <= max
    <3>1. windowMs - 1 \in Nat /\ windowMs - 1 < windowMs
      BY LimiterConstants
    <3>2. /\ SumOn(recent'[c], 0..(windowMs - 1)) = SumOn(recent[c], 0..((windowMs - 1) - 1))
          /\ SumOn(recent[c], 0..((windowMs - 1) - 1)) \in Nat
      BY <1>4, <3>1
    <3>3. 0..((windowMs - 1) - 1) \in SUBSET Span
      BY LimiterConstants DEF Span
    <3>4. /\ SumOn(recent[c], 0..((windowMs - 1) - 1)) <= SumOn(recent[c], Span)
          /\ SumOn(recent[c], Span) \in Nat
      BY <1>2, <3>3, SpanSums
    <3> QED
      BY <2>2, <3>2, <3>4, LimiterConstants DEF Span
  <2> QED
    BY <1>2, <2>1, <2>3 DEF Burst
<1>6. ASSUME NEW c \in Clients, c \in Unexpired PROVE Burst(c)'
  <2> DEFINE a == windows[c].age
             n == windows[c].count
             due == IF n <= max THEN n ELSE max
  <2>1. a \in Nat /\ a < windowMs /\ n \in Nat /\ windows[c] = [age |-> a, count |-> n]
    BY <1>6, WindowTypes
  <2>2. SumOn(recent[c], 0..a) = due /\ SumOn(recent[c], (a + 1)..(windowMs - 1)) <= max
    BY <1>6 DEF Bursts, Burst
  <2>3. windows'[c] = [age |-> a + 1, count |-> n] /\ c \in DOMAIN windows'
    <3>1. windows'[c] = [windows[c] EXCEPT !.age = IF @ < windowMs THEN @ + 1 ELSE @] /\ c \in DOMAIN windows'
      BY <1>6 DEF Age, Unexpired
    <3>2. [[age |-> a, count |-> n] EXCEPT !.age = IF @ < windowMs THEN @ + 1 ELSE @] = [age |-> a + 1, count |-> n]
      <4> HIDE DEF a, n
      <4> QED
        BY <2>1
    <3> QED
      BY <2>1, <3>1, <3>2
  <2>4. windows'[c].age = a + 1 /\ windows'[c].count = n
    BY <2>3
  <2>5. c \in Unexpired' <=> a + 1 < windowMs
    BY <2>3, <2>4 DEF Unexpired
  <2>6. due <= max /\ due \in Nat
    BY <2>1, LimiterConstants
  <2> HIDE DEF a, n
  <2>7. CASE a + 1 < windowMs
    <3>1. SumOn(recent'[c], 0..(a + 1)) = due
      <4>1. a + 1 \in Nat /\ (a + 1) - 1 = a
        BY <2>1
      <4>2. SumOn(recent'[c], 0..(a + 1)) = SumOn(recent[c], 0..((a + 1) - 1))
        BY <1>4, <2>7, <4>1
      <4> QED
        BY <2>2, <4>1, <4>2
    <3>2. SumOn(recent'[c], ((a + 1) + 1)..(windowMs - 1)) <= max
      <4>1. a + 1 \in Nat /\ windowMs - 1 \in Nat /\ windowMs - 1 < windowMs
        BY <2>1, LimiterConstants
      <4>2. SumOn(recent'[c], ((a + 1) + 1)..(windowMs - 1)) = SumOn(recent[c], (a + 1)..((windowMs - 1) - 1))
        <5> DEFINE f == recent[c]
                   g == recent'[c]
        <5>1. f \in [Span -> Nat] /\ g = [age \in Span |-> IF age = 0 THEN 0 ELSE f[age - 1]]
          BY <1>2
        <5> HIDE DEF f, g
        <5>2. SumOn(g, ((a + 1) + 1)..(windowMs - 1)) = SumOn(f, (a + 1)..((windowMs - 1) - 1))
          BY <4>1, <5>1, OneLater
        <5> QED
          BY <5>2 DEF f, g
      <4>3. /\ (a + 1)..((windowMs - 1) - 1) \in SUBSET ((a + 1)..(windowMs - 1))
            /\ (a + 1)..(windowMs - 1) \in SUBSET Span
        BY <2>1, LimiterConstants DEF Span
      <4>4. IsFiniteSet((a + 1)..(windowMs - 1)) /\ \A x \in (a + 1)..(windowMs - 1) : recent[c][x] \in Nat
        BY <1>2, <4>3, SpanIsFinite
      <4>5. /\ SumOn(recent[c], (a + 1)..((windowMs - 1) - 1)) <= SumOn(recent[c], (a + 1)..(windowMs - 1))
            /\ SumOn(recent[c], (a + 1)..((windowMs - 1) - 1)) \in Nat
            /\ SumOn(recent[c], (a + 1)..(windowMs - 1)) \in Nat
        BY <4>3, <4>4, SumOnGrows
      <4> QED
        BY <2>2, <4>2, <4>5, LimiterConstants
    <3> QED
      BY <2>4, <2>5, <2>7, <3>1, <3>2 DEF Burst, n
  <2>8. CASE ~(a + 1 < windowMs)
    <3>1. a = windowMs - 1
      BY <2>1, <2>8, LimiterConstants
    <3>2. SumOn(recent'[c], Span) <= max
      <4>1. /\ SumOn(recent'[c], 0..a) = SumOn(recent[c], 0..(a - 1))
            /\ SumOn(recent[c], 0..(a - 1)) \in Nat
        BY <1>4, <2>1
      <4>2. 0..(a - 1) \in SUBSET (0..a) /\ 0..a \in SUBSET Span
        BY <2>1, LimiterConstants DEF Span
      <4>3. IsFiniteSet(0..a) /\ \A x \in 0..a : recent[c][x] \in Nat
        BY <1>2, <4>2, SpanIsFinite
      <4>4. SumOn(recent[c], 0..(a - 1)) <= SumOn(recent[c], 0..a)
        BY <4>2, <4>3, SumOnGrows
      <4>5. Span = 0..a
        BY <3>1 DEF Span
      <4> QED
        BY <2>2, <2>6, <4>1, <4>4, <4>5, LimiterConstants
    <3> QED
      BY <1>2, <2>5, <2>8, <3>2 DEF Burst
  <2> QED
    BY <2>7, <2>8
<1> QED
  BY <1>3, <1>5, <1>6 DEF Bursts

LEMMA BurstsInit == Init => Bursts
<1> SUFFICES ASSUME Init PROVE Bursts
  OBVIOUS
<1>1. windows = <<>> /\ recent = [c \in Clients |-> [age \in Span |-> 0]]
  BY DEF Init, LimiterInit, Span
<1>2. ASSUME NEW c \in Clients PROVE SumOn(recent[c], Span) = 0
  <2> DEFINE none == [age \in Span |-> 0]
  <2>1. \A x \in Span : none[x] = 0
    OBVIOUS
  <2> DEFINE bad == {s \in SUBSET Span : SumOn(none, s) # 0}
  <2>2. ASSUME bad # {} PROVE FALSE
    <3>1. PICK s \in bad : \A t \in SUBSET s : t # s => t \notin bad
      <4>1. bad \in SUBSET SUBSET Span
        OBVIOUS
      <4> HIDE DEF bad
      <4> QED
        BY <2>2, <4>1, SpanIsFinite, SmallestOf
    <3> DEFINE x == CHOOSE y \in s : TRUE
    <3> HIDE DEF none
    <3>2. x \in s /\ SumOn(none, s) = none[x] + SumOn(none, s \ {x})
      BY SpanIsFinite, SumOnEmpty, SumOnRecursion
    <3> QED
      BY <2>1, <3>1, <3>2
  <2>3. Span \notin bad
    BY <2>2
  <2> QED
    BY <1>1, <2>3
<1>3. Unexpired = {}
  <2>1. DOMAIN windows = {}
    BY <1>1
  <2> QED
    BY <2>1 DEF Unexpired
<1>4. \A c \in Clients : recent[c][0] = 0
  BY <1>1, SpanIsFinite
<1>5. \A c \in Clients : Burst(c)
  BY <1>2, <1>3, <1>4, LimiterConstants DEF Burst
<1>6. recent \in [Clients -> [Span -> Nat]]
  BY <1>1
<1> QED
  BY <1>5, <1>6 DEF Bursts

LEMMA BurstsStep == Inv /\ Bursts /\ [Next]_vars => Bursts'
<1> SUFFICES ASSUME Inv, Bursts, [Next]_vars PROVE Bursts'
  OBVIOUS
<1>1. CASE UNCHANGED limiter
  BY <1>1 DEF limiter, Bursts, Burst, Unexpired
<1>2. CASE \E c \in Clients : Serve(c) \/ Refuse(c)
  BY <1>2, ServeBursts, RefuseBursts DEF Inv
<1>3. CASE Age
  BY <1>3, AgeBursts DEF Inv
<1>4. UNCHANGED limiter \/ (\E c \in Clients : Serve(c) \/ Refuse(c)) \/ Age
  BY ApiConstants DEF Next, Fetch, Insert, ChangeStatus, Reinclude, SetRow, vars
<1> QED
  BY <1>1, <1>2, <1>3, <1>4

\* BurstsAreBounded for any clients and limits: whatever a client sends, and
\* whoever else fills the map, it is served at most twice max requests within
\* a window's length.
THEOREM BurstsStayBounded == Spec => []BurstsAreBounded
<1>1. ASSUME Inv, Bursts, NEW c \in Clients PROVE Served(c) <= 2 * max
  <2>1. Served(c) = SumOn(recent[c], Span) /\ recent[c] \in [Span -> Nat]
    BY <1>1, ServedIsSum DEF Bursts
  <2>2. CASE c \notin Unexpired
    <3>1. SumOn(recent[c], Span) \in Nat
      BY <2>1, SpanIsFinite, SumOnNat
    <3> QED
      BY <1>1, <2>1, <2>2, <3>1, LimiterConstants DEF Bursts, Burst
  <2>3. CASE c \in Unexpired
    <3> DEFINE a == windows[c].age
               n == windows[c].count
    <3>1. a \in Nat /\ a < windowMs /\ n \in Nat
      BY <1>1, <2>3, WindowTypes DEF Inv
    <3>2. /\ SumOn(recent[c], 0..a) = IF n <= max THEN n ELSE max
          /\ SumOn(recent[c], (a + 1)..(windowMs - 1)) <= max
      BY <1>1, <2>3 DEF Bursts, Burst
    <3> HIDE DEF a, n
    <3>3. 0..a \in SUBSET Span /\ Span \ (0..a) = (a + 1)..(windowMs - 1)
      BY <3>1, LimiterConstants DEF Span
    <3>4. \A x \in Span : recent[c][x] \in Int /\ recent[c][x] \in Nat
      BY <2>1
    <3>5. SumOn(recent[c], Span) = SumOn(recent[c], 0..a) + SumOn(recent[c], Span \ (0..a))
      BY <3>3, <3>4, SpanIsFinite, SumOnParts
    <3>6. SumOn(recent[c], Span \ (0..a)) \in Nat
      <4>1. IsFiniteSet(Span \ (0..a)) /\ \A x \in Span \ (0..a) : recent[c][x] \in Nat
        BY <3>4, SpanIsFinite
      <4> QED
        BY <4>1, SumOnNat
    <3>7. SumOn(recent[c], 0..a) <= max /\ SumOn(recent[c], 0..a) \in Nat
      BY <3>1, <3>2, LimiterConstants
    <3>8. SumOn(recent[c], Span \ (0..a)) <= max
      BY <3>2, <3>3
    <3> QED
      BY <2>1, <3>5, <3>6, <3>7, <3>8, LimiterConstants
  <2> QED
    BY <2>2, <2>3
<1>2. Inv /\ Bursts => BurstsAreBounded
  BY <1>1 DEF BurstsAreBounded, Inv, LimiterTypes
<1> QED
  BY <1>2, InitInv, InvStep, BurstsInit, BurstsStep, PTL DEF Spec

\* A live window is the mark of a request served within the last windowMs.
LEMMA LiveWindowsWereServed ==
    ASSUME LimiterTypes, Bursts, NEW c \in Unexpired
    PROVE  /\ c \in Clients /\ Served(c) \in Nat
           /\ Served(c) >= IF windows[c].count <= max THEN windows[c].count ELSE max
<1> DEFINE a == windows[c].age
           n == windows[c].count
<1>1. a \in Nat /\ a < windowMs /\ n \in Nat /\ c \in Clients
  BY WindowTypes DEF LimiterTypes, Unexpired
<1>2. SumOn(recent[c], 0..a) = IF n <= max THEN n ELSE max
  BY <1>1 DEF Bursts, Burst
<1>3. 0..a \in SUBSET Span /\ recent[c] \in [Span -> Nat]
  BY <1>1, LimiterConstants DEF Span, Bursts
<1> HIDE DEF a
<1>4. SumOn(recent[c], 0..a) <= SumOn(recent[c], Span) /\ SumOn(recent[c], Span) \in Nat
  BY <1>3, SpanSums
<1> QED
  BY <1>1, <1>2, <1>4, ServedIsSum

\* RefusalsAreEarned for any clients and limits: whoever is turned away was
\* served max requests, or finds maxClients others that were served, within
\* the last windowMs.
THEOREM RefusalsStayEarned == Spec => []RefusalsAreEarned
<1>1. ASSUME Inv, Bursts, NEW c \in Clients, IsRefused(c)
      PROVE  \/ Served(c) >= max
             \/ Cardinality({d \in Clients \ {c} : Served(d) > 0}) >= maxClients
  <2>1. CASE IsShed(c)
    <3> DEFINE others == {d \in Clients \ {c} : Served(d) > 0}
    <3>1. c \notin Unexpired /\ Cardinality(DOMAIN Kept(c)) >= maxClients
      BY <2>1 DEF IsShed, NeedsWindow
    <3>2. DOMAIN Kept(c) = Unexpired
      BY <2>1, <3>1 DEF IsShed, Kept, IsFull, Restrict, Unexpired
    <3>3. ASSUME NEW d \in Unexpired PROVE d \in others
      <4>1. /\ d \in Clients /\ Served(d) \in Nat
            /\ Served(d) >= IF windows[d].count <= max THEN windows[d].count ELSE max
        BY <1>1, LiveWindowsWereServed DEF Inv
      <4>2. windows[d].count \in Nat /\ windows[d].count >= 1
        BY <1>1, WindowTypes DEF Inv
      <4> QED
        BY <3>1, <4>1, <4>2, LimiterConstants
    <3>4. IsFiniteSet(others)
      BY LimiterConstants, FS_Subset
    <3> HIDE DEF others
    <3>5. Cardinality(Unexpired) <= Cardinality(others)
      BY <3>3, <3>4, FS_Subset
    <3>6. Cardinality(Unexpired) \in Nat /\ Cardinality(others) \in Nat
      BY <3>3, <3>4, FS_Subset, FS_CardinalityType
    <3> QED
      BY <3>1, <3>2, <3>5, <3>6, LimiterConstants DEF others
  <2>2. CASE ~IsShed(c)
    <3>1. Entry(c).count > max
      BY <1>1, <2>2 DEF IsRefused
    <3>2. c \in Unexpired
      BY <3>1, LimiterConstants DEF Entry, NeedsWindow
    <3>3. windows[c].count >= max
      <4>1. /\ windows[c] = [age |-> windows[c].age, count |-> windows[c].count]
            /\ windows[c].count \in Nat
        BY <1>1, <3>2, WindowTypes DEF Inv
      <4>2. Entry(c).count = IF windows[c].count > max THEN windows[c].count ELSE windows[c].count + 1
        BY <3>2, <4>1 DEF Entry, NeedsWindow
      <4> QED
        BY <3>1, <4>1, <4>2, LimiterConstants
    <3>4. Served(c) >= max
      <4>1. /\ Served(c) \in Nat /\ windows[c].count \in Nat
            /\ Served(c) >= IF windows[c].count <= max THEN windows[c].count ELSE max
        BY <1>1, <3>2, LiveWindowsWereServed, WindowTypes DEF Inv
      <4> QED
        BY <3>3, <4>1, LimiterConstants
    <3> QED
      BY <3>4
  <2> QED
    BY <2>1, <2>2
<1>2. Inv /\ Bursts => RefusalsAreEarned
  BY <1>1 DEF RefusalsAreEarned
<1> QED
  BY <1>2, InitInv, InvStep, BurstsInit, BurstsStep, PTL DEF Spec
===========================================================================
