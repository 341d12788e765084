---------------------------- MODULE MarketApi ----------------------------
(***************************************************************************)
(* The list endpoints of backend/src/routes/market.ts: a reader walks      *)
(* through a list page by page, giving each answer's nextCursor with the   *)
(* next request, while ingestion adds, removes and moves rows.  Every      *)
(* request passes the rate limiter first.                                  *)
(*                                                                         *)
(* A row carries the key its endpoint sorts by, without the _id: price,    *)
(* block and transaction index in the book, createdAt for orders, block    *)
(* for trades.  The filters a query may add are one flag, whether the row  *)
(* is listed.                                                              *)
(***************************************************************************)
EXTENDS RequestLimits

CONSTANTS
    Ids,          \* _ids of the rows, in their order
    BookKeys,     \* [price, block, tx] an order can have
    Times,        \* createdAt of an order
    Blocks,       \* block of a trade
    PageLimits,   \* limit of a request
    Reader        \* the client that walks

ASSUME ApiConstants ==
    /\ Ids \subseteq Nat /\ IsFiniteSet(Ids)
    /\ BookKeys \subseteq [price : Nat, block : Nat, tx : Nat]
    /\ Times \subseteq Nat /\ Blocks \subseteq Nat
    /\ PageLimits \subseteq Nat \ {0}
    /\ Reader \in Clients

VARIABLES
    query,    \* endpoint, direction and limit of the walk
    rows,     \* _id -> key and whether the query's filter takes it
    cursor,   \* the cursor the next request is made with
    got,      \* _ids received
    again,    \* _ids received more than once
    steady,   \* _ids listed under one key since the walk began
    done      \* the last answer had no nextCursor

walk == <<query, rows, cursor, got, again, steady, done>>
vars == <<limiter, walk>>

Queries == [path : {"order-book"}, direction : {"ASK", "BID"}, limit : PageLimits]
           \cup [path : {"orders", "trades"}, direction : {"ASK"}, limit : PageLimits]
Keys(path) == CASE path = "order-book" -> BookKeys
                [] path = "orders" -> [created : Times]
                [] path = "trades" -> [block : Blocks]

NoCursor == [id |-> -1, key |-> <<>>]
Cursors == {NoCursor} \cup [id : Ids, key : Keys(query.path)]
Listed == {i \in DOMAIN rows : rows[i].listed}

TypeOK ==
    /\ LimiterTypeOK
    /\ query \in Queries
    /\ \E known \in SUBSET Ids : rows \in [known -> [key : Keys(query.path), listed : BOOLEAN]]
    /\ cursor \in Cursors
    /\ got \in SUBSET Ids /\ again \in SUBSET got
    /\ steady \in SUBSET Listed
    /\ done \in BOOLEAN

Init ==
    /\ query \in Queries
    /\ \E known \in SUBSET Ids : rows \in [known -> [key : Keys(query.path), listed : {TRUE}]]
    /\ cursor = NoCursor /\ got = {} /\ again = {} /\ done = FALSE
    /\ steady = Listed
    /\ LimiterInit

---------------------------------------------------------------------------
(* The query                                                               *)

\* The order of the answer: sort() of each endpoint, as a key whose smaller
\* values come first.
SortKey(i, key) ==
    CASE query.path = "order-book" ->
             <<IF query.direction = "BID" THEN -key.price ELSE key.price, key.block, key.tx, i>>
      [] query.path = "orders" -> <<-key.created, i>>
      [] query.path = "trades" -> <<-key.block, i>>

Less(k, l) ==
    \E n \in DOMAIN k : k[n] < l[n] /\ \A m \in 1..(n - 1) : k[m] = l[m]

Before(i, j) == Less(SortKey(i, rows[i].key), SortKey(j, rows[j].key))

\* Mutant: rows of the cursor's price are not split any further.
PastCursorByPrice(i) ==
    LET key == rows[i].key
        at == cursor.key
    IN CASE query.path = "order-book" ->
                IF query.direction = "BID" THEN key.price < at.price ELSE key.price > at.price
         [] query.path = "orders" -> key.created < at.created
         [] query.path = "trades" -> key.block < at.block

\* The filter a cursor adds.
PastCursor(i) ==
    LET key == rows[i].key
        at == cursor.key
    IN CASE query.path = "order-book" ->
                \/ IF query.direction = "BID" THEN key.price < at.price ELSE key.price > at.price
                \/ key.price = at.price /\ key.block > at.block
                \/ key.price = at.price /\ key.block = at.block /\ key.tx > at.tx
                \/ key.price = at.price /\ key.block = at.block /\ key.tx = at.tx /\ i > cursor.id
         [] query.path = "orders" ->
                key.created < at.created \/ (key.created = at.created /\ i > cursor.id)
         [] query.path = "trades" ->
                key.block < at.block \/ (key.block = at.block /\ i > cursor.id)

Matching == {i \in Listed : cursor = NoCursor \/ PastCursor(i)}

\* Rows of the page: the first limit rows that match.
Page == {i \in Matching : Cardinality({j \in Matching : Before(j, i)}) < query.limit}
Last == CHOOSE i \in Page : \A j \in Page \ {i} : Before(j, i)
HasMore == Cardinality(Matching) > query.limit

\* Ingestion sets all fields of the key with every row it writes, so the
\* fallback to 0 for a row without them is never taken.
NextCursor == IF HasMore THEN [id |-> Last, key |-> rows[Last].key] ELSE NoCursor

Fetch ==
    /\ ~done
    /\ Serve(Reader)
    /\ got' = got \cup Page
    /\ again' = again \cup (got \cap Page)
    /\ cursor' = NextCursor
    /\ done' = ~HasMore
    /\ UNCHANGED <<query, rows, steady>>

---------------------------------------------------------------------------
(* Ingestion meanwhile                                                     *)

SetRow(i, key, listed) ==
    /\ rows' = [j \in DOMAIN rows \cup {i} |-> IF j = i THEN [key |-> key, listed |-> listed] ELSE rows[j]]
    /\ steady' = IF i \in steady /\ listed /\ key = rows[i].key THEN steady ELSE steady \ {i}
    /\ UNCHANGED <<limiter, query, cursor, got, again, done>>

\* A new order or trade; an order is created no earlier than the others.
Insert(i) ==
    /\ i \notin DOMAIN rows
    /\ \E key \in Keys(query.path) :
           /\ query.path = "orders" => \A j \in DOMAIN rows : rows[j].key.created <= key.created
           /\ SetRow(i, key, TRUE)

\* A row stops or starts matching the query: filled, canceled, reserved,
\* released, reverted.
ChangeStatus(i) == i \in DOMAIN rows /\ SetRow(i, rows[i].key, ~rows[i].listed)

\* An order or trade is confirmed again in another block.  Its price and its
\* createdAt stay.
Reinclude(i) ==
    /\ i \in DOMAIN rows /\ query.path # "orders"
    /\ \E key \in Keys(query.path) :
           /\ key # rows[i].key
           /\ query.path = "order-book" => key.price = rows[i].key.price
           /\ SetRow(i, key, TRUE)

---------------------------------------------------------------------------
Next ==
    \/ Fetch
    \/ \E i \in Ids : Insert(i) \/ ChangeStatus(i) \/ Reinclude(i)
    \/ Refuse(Reader) /\ ~done /\ UNCHANGED walk
    \/ (\E c \in Clients \ {Reader} : Serve(c) \/ Refuse(c)) /\ UNCHANGED walk
    \/ Age /\ UNCHANGED walk

Spec == Init /\ [][Next]_vars

---------------------------------------------------------------------------
\* A row that was in the list all along, under one key, is received exactly
\* once, whatever comes, goes and moves around it: never twice, and by the
\* end of the walk for certain (routes/market.ts:66-76, 82-86).
SteadyRowsOnce ==
    /\ again \cap steady = {}
    /\ done => steady \subseteq got
===========================================================================
