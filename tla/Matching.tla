------------------------------ MODULE Matching ------------------------------
(***************************************************************************)
(* Which pairs the bot settles, and when: the price-time order of the      *)
(* book (sort), the exact-match pairs of a tick (findMatches), the attempt *)
(* at each of them (matchPendingOrders, executeTrade) and the memory of    *)
(* failures that keeps a bad pair or order out of the next ticks           *)
(* (bot/match-health.ts).                                                  *)
(*                                                                         *)
(* DexOrderBot lets the bot try any pair at any time and asks whether the  *)
(* database stays true; this module takes the database as a status per     *)
(* order and asks whether the good pairs get their turn.                   *)
(*                                                                         *)
(* Abstractions: time passes in units, and a date in the future is the     *)
(* time that is left until then; tokens, amounts and prices are constants, *)
(* and so is whether a buy order can fund a settlement with a given sell   *)
(* order: it depends on both cells, which do not change (the sell order's  *)
(* owner lock and cell data set the fee and the capacity of the token      *)
(* cell), so that any set of pairs may be unfunded.                        *)
(***************************************************************************)
EXTENDS Integers, FiniteSets, Sequences

CONSTANTS
    Buys, Sells,
    Terms,                \* order -> token, amount and price
    Age,                  \* order -> place of its cell on the chain
    Listed,               \* tokens in the deployment manifest
    Unfunded,             \* pairs whose buy order cannot pay price, token cell and fee
    Withdrawable,         \* orders somebody else may spend
    InitialStatus,
    pollInterval,
    BASE_PAIR_BACKOFF, MAX_PAIR_BACKOFF,
    ORDER_QUARANTINE,
    MAX_MATCHES_PER_TICK,
    AttemptTime,          \* bound: time an attempt takes
    MaxFaults             \* bound: transient errors, lost settlements, restarts

Orders == Buys \cup Sells
Pairs == Buys \X Sells
Statuses == {"absent", "live", "spent", "settling", "closed"}

ASSUME MatchingConstants ==
    /\ Buys \cap Sells = {} /\ IsFiniteSet(Orders)
    /\ Terms \in [Orders -> [token: STRING, amount: Nat, price: Nat]]
    /\ Age \in [Orders -> Nat] /\ \A o, p \in Orders : o # p => Age[o] # Age[p]
    /\ Unfunded \subseteq Pairs
    /\ InitialStatus \in [Orders -> Statuses]
    /\ {pollInterval, BASE_PAIR_BACKOFF, MAX_PAIR_BACKOFF, MAX_MATCHES_PER_TICK} \subseteq Nat \ {0}
    /\ {ORDER_QUARANTINE, AttemptTime, MaxFaults} \subseteq Nat

VARIABLES
    status,       \* order -> LIVE in the database ("live", or "spent" and not
                  \* noticed), not yet there, being settled, or closed
    quarantined,  \* quarantinedOrders: time left, 0 for no entry
    failures,     \* pairs: failures in a row, 0 for no entry
    blocked,      \* pairs: time left until the next attempt
    queue,        \* the pairs of this tick that are still to be tried
    timer,        \* time until setInterval fires again
    spare,        \* time the attempt under way may still take
    faults        \* history: faults so far

health == <<quarantined, failures, blocked>>
vars == <<status, health, queue, timer, spare, faults>>

Idle == queue = <<>>

\* The delay stops growing here, so failures need not be counted further.
Enough == CHOOSE n \in 1..MAX_PAIR_BACKOFF :
            /\ BASE_PAIR_BACKOFF * 2 ^ (n - 1) >= MAX_PAIR_BACKOFF
            /\ \A m \in 1..(n - 1) : BASE_PAIR_BACKOFF * 2 ^ (m - 1) < MAX_PAIR_BACKOFF

TypeOK ==
    /\ status \in [Orders -> Statuses]
    /\ quarantined \in [Orders -> 0..ORDER_QUARANTINE]
    /\ failures \in [Pairs -> 0..Enough]
    /\ blocked \in [Pairs -> 0..MAX_PAIR_BACKOFF]
    /\ queue \in Seq(Pairs) /\ Len(queue) <= MAX_MATCHES_PER_TICK
    /\ timer \in 0..pollInterval /\ spare \in 0..AttemptTime
    /\ faults \in 0..MaxFaults
    \* A date outlives neither its entry nor the tick's chance to reach it.
    /\ \A p \in Pairs : blocked[p] > 0 => failures[p] > 0
    /\ Idle => spare = 0

Init ==
    /\ status = InitialStatus
    /\ quarantined = [o \in Orders |-> 0]
    /\ failures = [p \in Pairs |-> 0]
    /\ blocked = [p \in Pairs |-> 0]
    /\ queue = <<>> /\ timer = 0 /\ spare = 0 /\ faults = 0

---------------------------------------------------------------------------
(* The book                                                                *)

InBook == {o \in Orders : status[o] \in {"live", "spent"}}

\* Asks before bids, the better price first, the older cell first.
Before(o, p) ==
    \/ o \in Sells /\ p \in Buys
    \/ /\ {o, p} \subseteq Sells
       /\ \/ Terms[o].price < Terms[p].price
          \/ Terms[o].price = Terms[p].price /\ Age[o] < Age[p]
    \/ /\ {o, p} \subseteq Buys
       /\ \/ Terms[o].price > Terms[p].price
          \/ Terms[o].price = Terms[p].price /\ Age[o] < Age[p]

\* sort: the place of every order, were all of them listed.
Place == [o \in Orders |-> Cardinality({p \in Orders : Before(p, o)})]

First(orders) == CHOOSE o \in orders : \A p \in orders : Place[o] <= Place[p]

IsPairBlocked(p) == blocked[p] > 0

\* Mutant: a sell order already paired in this tick is offered again.
CandidatesTaken(b, candidates, pairs) ==
    {s \in candidates : Terms[s] = Terms[b] /\ ~IsPairBlocked(<<b, s>>)}

\* What is left for buy order b.
Candidates(b, candidates, pairs) ==
    {s \in candidates : /\ Terms[s] = Terms[b]
                        /\ \A p \in pairs : p[2] # s
                        /\ ~IsPairBlocked(<<b, s>>)}

\* Every buy order in turn takes the first sell order left for it.
PairUp(buys, sells) ==
    LET pairs[i \in 0..Cardinality(Orders)] ==
          IF i = 0 THEN {}
          ELSE LET earlier == pairs[i - 1]
                   turn == {b \in buys : Place[b] = i - 1}
               IN  earlier \cup {<<b, First(Candidates(b, sells, earlier))>> :
                                  b \in {b \in turn : Candidates(b, sells, earlier) # {}}}
    IN  pairs[Cardinality(Orders)]

\* The pairs of the orders given: groups in the order of their first order,
\* the pairs of a group in the order of their buys.
FindMatches(orders) ==
    LET eligible == {o \in orders : quarantined[o] = 0}
        pairs == PairUp(eligible \cap Buys, eligible \cap Sells)
        leader == [p \in pairs |-> First({o \in eligible : Terms[o] = Terms[p[1]]})]
        sooner(p, q) == \/ Place[leader[p]] < Place[leader[q]]
                        \/ leader[p] = leader[q] /\ Place[p[1]] < Place[q[1]]
    IN  [i \in 1..Cardinality(pairs) |->
           CHOOSE p \in pairs : Cardinality({q \in pairs : sooner(q, p)}) = i - 1]

---------------------------------------------------------------------------
(* The poll loop                                                           *)

AtMost(n, m) == IF n < m THEN n ELSE m
Less(n) == IF n > 0 THEN n - 1 ELSE 0

\* Time passes: between ticks until the interval fires, within an attempt as
\* long as its calls to the node take.  The interval that fires during a tick
\* is skipped.
Elapse ==
    /\ IF Idle THEN timer > 0 ELSE spare > 0
    /\ timer' = IF timer = 1 /\ ~Idle THEN pollInterval ELSE timer - 1
    /\ spare' = Less(spare)
    /\ quarantined' = [o \in Orders |-> Less(quarantined[o])]
    /\ blocked' = [p \in Pairs |-> Less(blocked[p])]
    /\ UNCHANGED <<status, failures, queue, faults>>

\* Mutant: whatever is not blocked right now is forgotten.
PrunedAlways(p, live) == blocked[p] = 0

\* prune forgets a pair once its time is over and an order of it is gone.
Pruned(p, live) == blocked[p] = 0 /\ ~({p[1], p[2]} \subseteq live)

\* The sweep closes spent orders it gets an answer about; the book that is
\* left is pruned for and matched.
StartTick ==
    /\ Idle /\ timer = 0
    /\ \E seen \in SUBSET {o \in Orders : status[o] = "spent"} :
         LET live == InBook \ seen
         IN  \E matches \in {FindMatches(live)} :
             /\ status' = [o \in Orders |-> IF o \in seen THEN "closed" ELSE status[o]]
             /\ quarantined' = [o \in Orders |-> IF o \in live THEN quarantined[o] ELSE 0]
             /\ failures' = [p \in Pairs |-> IF Pruned(p, live) THEN 0 ELSE failures[p]]
             /\ blocked' = [p \in Pairs |-> IF Pruned(p, live) THEN 0 ELSE blocked[p]]
             /\ queue' = SubSeq(matches, 1, AtMost(Len(matches), MAX_MATCHES_PER_TICK))
             /\ spare' = IF matches = <<>> THEN 0 ELSE AttemptTime
    /\ timer' = pollInterval
    /\ UNCHANGED faults

\* An earlier phase of the tick throws.
AbortTick ==
    /\ Idle /\ timer = 0 /\ faults < MaxFaults
    /\ timer' = pollInterval
    /\ faults' = faults + 1
    /\ UNCHANGED <<status, health, queue, spare>>

---------------------------------------------------------------------------
(* One attempt                                                             *)

\* Mutant: the delay doubles without end.
DelayUncapped(n) == BASE_PAIR_BACKOFF * 2 ^ (n - 1)

Delay(n) == AtMost(BASE_PAIR_BACKOFF * 2 ^ (n - 1), MAX_PAIR_BACKOFF)

Quarantine(orders) ==
    /\ quarantined' = [o \in Orders |-> IF o \in orders THEN ORDER_QUARANTINE ELSE quarantined[o]]
    /\ UNCHANGED <<failures, blocked>>

RecordPairFailure(p) ==
    LET n == AtMost(failures[p] + 1, Enough)
    IN  /\ failures' = [failures EXCEPT ![p] = n]
        /\ blocked' = [blocked EXCEPT ![p] = Delay(n)]
        /\ UNCHANGED quarantined

RecordSuccess(p) ==
    /\ failures' = [failures EXCEPT ![p] = 0]
    /\ blocked' = [blocked EXCEPT ![p] = 0]
    /\ UNCHANGED quarantined

Finish ==
    /\ queue' = Tail(queue)
    /\ spare' = IF Len(queue) = 1 THEN 0 ELSE AttemptTime
    /\ UNCHANGED timer

Delisted(p) == Terms[p[1]].token \notin Listed
Settleable(p) == ~Delisted(p) /\ p \notin Unfunded

\* The orders of a pair that can never settle: the buy order when it cannot pay
\* for this settlement, whatever it could pay for another, both when their
\* token is not in the manifest (status 400).
ToBlame(p) == IF Delisted(p) THEN {p[1], p[2]} ELSE {p[1]}

\* The attempt ends before anything is reserved.
AttemptUnsettleable ==
    /\ ~Idle
    /\ ~Settleable(Head(queue)) /\ Quarantine(ToBlame(Head(queue)))
    /\ Finish
    /\ UNCHANGED <<status, faults>>

\* An order is gone, in the database (reserve) or on the chain (the liveness
\* check, ORDER_SPENT); what the re-check learns it records, if it gets through.
AttemptGone ==
    /\ ~Idle
    /\ LET p == Head(queue)
           gone == {o \in {p[1], p[2]} : status[o] # "live"}
       IN  /\ Settleable(p) /\ gone # {}
           /\ \E seen \in SUBSET {o \in gone : status[o] = "spent"} :
                status' = [o \in Orders |-> IF o \in seen THEN "closed" ELSE status[o]]
           /\ RecordPairFailure(p)
    /\ Finish
    /\ UNCHANGED faults

Ready(p) == Settleable(p) /\ status[p[1]] = "live" /\ status[p[2]] = "live"

AttemptSucceeds ==
    /\ ~Idle
    /\ LET p == Head(queue)
       IN  /\ Ready(p)
           /\ status' = [status EXCEPT ![p[1]] = "settling", ![p[2]] = "settling"]
           /\ RecordSuccess(p)
    /\ Finish
    /\ UNCHANGED faults

\* The node or the database is out of reach: both orders stay LIVE.
AttemptFails ==
    /\ ~Idle /\ faults < MaxFaults
    /\ Ready(Head(queue)) /\ RecordPairFailure(Head(queue))
    /\ faults' = faults + 1
    /\ Finish
    /\ UNCHANGED status

Attempt == AttemptUnsettleable \/ AttemptGone \/ AttemptSucceeds \/ AttemptFails

---------------------------------------------------------------------------
(* Around the loop                                                         *)

\* The scan or a producer indexes an order.
Index(o) ==
    /\ status[o] = "absent"
    /\ status' = [status EXCEPT ![o] = "live"]
    /\ UNCHANGED <<health, queue, timer, spare, faults>>

\* Its maker or another matcher spends an order.
Withdraw(o) ==
    /\ o \in Withdrawable /\ status[o] = "live"
    /\ status' = [status EXCEPT ![o] = "spent"]
    /\ UNCHANGED <<health, queue, timer, spare, faults>>

\* A producer's event closes it in the database.
Close(o) ==
    /\ status[o] = "spent"
    /\ status' = [status EXCEPT ![o] = "closed"]
    /\ UNCHANGED <<health, queue, timer, spare, faults>>

\* A settlement is lost and its orders are released.
Lose(p) ==
    /\ status[p[1]] = "settling" /\ status[p[2]] = "settling"
    /\ Terms[p[1]] = Terms[p[2]] /\ faults < MaxFaults
    /\ status' = [status EXCEPT ![p[1]] = "live", ![p[2]] = "live"]
    /\ faults' = faults + 1
    /\ UNCHANGED <<health, queue, timer, spare>>

\* A restart forgets every failure.
Restart ==
    /\ faults < MaxFaults
    /\ faults' = faults + 1
    /\ quarantined' = [o \in Orders |-> 0]
    /\ failures' = [p \in Pairs |-> 0]
    /\ blocked' = [p \in Pairs |-> 0]
    /\ queue' = <<>> /\ spare' = 0 /\ timer' = 0
    /\ UNCHANGED status

Next ==
    \/ Elapse \/ StartTick \/ AbortTick \/ Attempt \/ Restart
    \/ \E o \in Orders : Index(o) \/ Withdraw(o) \/ Close(o)
    \/ \E p \in Pairs : Lose(p)

\* setInterval fires, and every call to the node or the database is answered
\* or fails.
Fires == Idle /\ timer = 0 /\ timer' = pollInterval
Fairness == WF_timer(Fires) /\ WF_vars(Idle /\ Elapse) /\ WF_vars(Attempt)

Spec == Init /\ [][Next]_vars
FairSpec == Spec /\ Fairness

---------------------------------------------------------------------------
(* Properties                                                              *)

MayMatch(p) ==
    /\ p[1] \in InBook /\ p[2] \in InBook /\ Terms[p[1]] = Terms[p[2]]
    /\ quarantined[p[1]] = 0 /\ quarantined[p[2]] = 0 /\ blocked[p] = 0

\* Whatever was indexed, failed, forgotten or withdrawn before: the pairs a
\* tick finds share no order and have equal terms, no order or pair that must
\* wait is among them, and no buy and sell order that could be paired with each
\* other are both left out or both worse off than price-time priority promises.
MatchesAreStable ==
    Idle /\ timer = 0 =>
      \A matches \in {FindMatches(InBook)} :
        LET pairs == {matches[i] : i \in DOMAIN matches}
        IN  /\ \A p \in pairs : MayMatch(p)
            /\ \A p, q \in pairs : p # q => p[1] # q[1] /\ p[2] # q[2]
            /\ \A r \in Pairs :
                 MayMatch(r) =>
                   \E p \in pairs :
                     \/ p[1] = r[1] /\ Place[p[2]] <= Place[r[2]]
                     \/ p[2] = r[2] /\ Place[p[1]] <= Place[r[1]]

\* The buy order's token is listed, and it can pay for every sell order of its
\* terms, whichever the book offers it.
Solvent(b) == \A s \in Sells : Terms[b] = Terms[s] => Settleable(<<b, s>>)

GoodPairs == {p \in Pairs : Terms[p[1]] = Terms[p[2]] /\ Solvent(p[1])}

\* Two orders of the same terms do not both stay in the book for good, if the
\* buy order can pay for whatever it is offered: not with spent, delisted or
\* unfunded orders before them, which are tried again for ever, and not when a
\* restart forgets the failures.  A buy order that can pay for one sell order
\* and not for another has no such promise (bot/index.ts:592).
GoodPairsSettle ==
    \A p \in GoodPairs : []<>~(status[p[1]] = "live" /\ status[p[2]] = "live")
=============================================================================
