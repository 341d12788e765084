----------------------------- MODULE MarketView -----------------------------
(***************************************************************************)
(* One page of the interface: the order book and trades of a market        *)
(* (context/MarketContext.jsx), the connected wallet's own orders          *)
(* (hooks/useOrders.js), its submitted orders that are not listed yet      *)
(* (services/pendingOrders.js) and the store of closed orders every view   *)
(* reads (services/closedOrders.js).                                       *)
(*                                                                         *)
(* The page learns about the same order over five paths, each a complete   *)
(* view that was read at some moment and arrives at a later one: three     *)
(* realtime channels, REST requests, and questions about single orders.    *)
(* Realtime shows that views of a channel are not sent in the order they   *)
(* were read in, so the views on their way arrive in any order.            *)
(*                                                                         *)
(* Abstractions: the backend is a status per order and the end it has      *)
(* recorded for it, without reorganisations, RESERVED and PENDING being    *)
(* one, and a pair the bot settles moves as one until it is released;      *)
(* views of a channel that are owed at the same time are one; limits of    *)
(* lists are out of sight; the first load reads its trades and in-flight   *)
(* orders at one moment; "checking" and "settling" rows are one; a lost    *)
(* socket is replaced at once; a state update, its render and its effects  *)
(* are one step.                                                           *)
(***************************************************************************)
EXTENDS Integers, Sequences, SequencesExt

CONSTANTS
    Orders,
    Trades,           \* sets of orders that a trade may fill
    MaxMail           \* bound: views of a kind on their way

Finished == {"filled", "canceled"}
Statuses == {"none", "sent", "live", "inflight"} \cup Finished

Channels == {"book", "trades", "mine"}   \* realtime
Requests == {"refresh", "orders"}        \* REST: the book, the own orders
Kinds == Channels \cup Requests
LoadParts == {"book", "settled"}

ASSUME MarketConstants ==
    /\ Trades \subseteq SUBSET Orders /\ MaxMail \in [Kinds -> Nat]

VARIABLES
    Own,        \* the orders of the connected wallet; none without a wallet
    order,      \* backend: status; "none" and "sent" are not listed
    ended,      \* end recorded for an order by an event of the chain, or "open"
    stale,      \* orders that have ended, which the bot may take for in flight
    owed,       \* views the server has to read yet: pushed, or asked for at the start
    mail,       \* kind -> views read, on their way
    answer,     \* about an order: the status read, on its way, or "no"
    load,       \* what the first load has read, a sequence of at most one view
    loading,
    book,       \* the listed orders of the page's book
    held,       \* orders that left it, shown until their end is known
    closed,     \* the store of closed orders
    docs,       \* own orders as last received
    pending,    \* own orders submitted and not yet received
    cancel      \* of a pending order: "no", "asked" of the wallet, "sent"

netVars == <<owed, mail, answer, load, loading>>
pageVars == <<book, held, closed, docs, pending, cancel>>
backend == <<order, ended, stale>>
vars == <<Own, backend, netVars, pageVars>>

Listed == {o \in Orders : order[o] \notin {"none", "sent"}}
With(status) == {o \in Orders : order[o] = status}

\* What a page has before it heard anything.
NoView == [k \in Kinds |-> <<>>]
NoAnswer == [o \in Orders |-> "no"]
NotLoaded == [part \in LoadParts |-> <<>>]
NoDocs == [o \in Orders |-> "none"]

TypeOK ==
    /\ Own \subseteq Orders /\ order \in [Orders -> Statuses]
    /\ ended \in [Orders -> {"open"} \cup Finished] /\ stale \subseteq Orders
    /\ owed \subseteq Channels \cup {"orders"}
    /\ \A k \in Kinds : Len(mail[k]) <= MaxMail[k]
    /\ answer \in [Orders -> {"no"} \cup (Statuses \ {"none", "sent"})]
    /\ \A part \in LoadParts : Len(load[part]) <= 1
    /\ loading \in BOOLEAN
    /\ book \subseteq Orders /\ held \subseteq Orders
    /\ closed \in [Orders -> {"open"} \cup Finished]
    /\ docs \in [Orders -> Statuses \ {"sent"}] /\ pending \subseteq Own
    /\ cancel \in [Orders -> {"no", "asked", "sent"}]
    \* A received order is pending no more, and the store knows its end.
    /\ \A o \in pending : docs[o] = "none"
    /\ \A o \in Orders : docs[o] \in Finished => closed[o] # "open"
    \* An order is asked about only if the backend has listed it.
    /\ held \subseteq Listed
    \* An order has the status of its end, or was released after it.
    /\ \A o \in Orders : /\ order[o] \in Finished => ended[o] = order[o]
                         /\ o \notin Listed => ended[o] = "open"

\* The page is opened, or reloaded, at any moment of an order's life; the
\* browser has kept the pending orders and nothing else.  The first load and the
\* request for the own orders are under way or have failed.
Init ==
    /\ Own \in SUBSET Orders
    /\ order \in [Orders -> Statuses] /\ With("none") \cup With("sent") \subseteq Own
    /\ ended \in [Orders -> {"open"} \cup Finished]
    /\ \A o \in Orders : /\ order[o] \in Finished => ended[o] = order[o]
                         /\ o \notin Listed => ended[o] = "open"
    /\ stale = {}
    /\ pending \in SUBSET (Own \ With("none"))
    /\ owed \in {Channels} \cup (IF Own = {} THEN {} ELSE {Channels \cup {"orders"}})
    /\ mail = NoView /\ answer = NoAnswer
    /\ load = NotLoaded /\ loading \in BOOLEAN
    /\ book = {} /\ held = {}
    /\ closed = [o \in Orders |-> "open"]
    /\ docs = NoDocs /\ cancel = [o \in Orders |-> "no"]

---------------------------------------------------------------------------
(* The backend                                                             *)

Change(orders, status, pushed) ==
    /\ order' = [o \in Orders |-> IF o \in orders THEN status ELSE order[o]]
    /\ owed' = owed \cup pushed
    /\ UNCHANGED <<Own, mail, answer, load, loading, pageVars>>

\* The own orders' channel is pushed to when one of them changed.
Mine(orders) == IF orders \cap Own # {} THEN {"mine"} ELSE {}

IndexOrder(o) ==
    /\ order[o] = "sent" /\ Change({o}, "live", {"book"} \cup Mine({o}))
    /\ UNCHANGED <<ended, stale>>

\* The bot's own writes push nothing; the recorded submission does.
Reserve(orders) ==
    /\ \A o \in orders : order[o] = "live"
    /\ Change(orders, "inflight", {})
    /\ UNCHANGED <<ended, stale>>

SettlementSubmitted(orders) ==
    /\ \A o \in orders : order[o] = "inflight"
    /\ Change(orders, "inflight", {"book"} \cup Mine(orders))
    /\ UNCHANGED <<ended, stale>>

\* What the bot has read as in flight may have ended since: executeTrade waits
\* for the node and the database, retryFailSwaps for every order of its list.
BotWrites(orders, status) ==
    /\ \A o \in orders : order[o] = "inflight" \/ o \in stale
    /\ Change(orders, status, {})
    /\ stale' = stale \ orders /\ UNCHANGED ended

\* A submission that could not be recorded is tracked directly, and a released
\* order made LIVE, whatever has become of the orders: neither asks for a status.
TrackDirectly(orders) == BotWrites(orders, "inflight")
RevertToLive(o) == BotWrites({o}, "live")

\* The events of an order's end, which are not applied twice.
End(orders, end, pushed) ==
    /\ \A o \in orders : order[o] \in {"live", "inflight"} /\ ended[o] = "open"
    /\ Change(orders, end, pushed)
    /\ ended' = [o \in Orders |-> IF o \in orders THEN end ELSE ended[o]]
    /\ stale' = stale \cup (orders \cap With("inflight"))

Fill(orders) == End(orders, "filled", {"book", "trades"} \cup Mine(orders))
CancelConfirmed(o) == End({o}, "canceled", {"book"} \cup Mine({o}))

Backend ==
    \/ \E o \in Orders : IndexOrder(o) \/ CancelConfirmed(o) \/ RevertToLive(o)
    \/ \E orders \in Trades :
         Reserve(orders) \/ SettlementSubmitted(orders) \/ TrackDirectly(orders) \/ Fill(orders)

---------------------------------------------------------------------------
(* Views on their way                                                      *)

\* The orders of the recorded trades, whatever their status is now.
Traded == {o \in Orders : ended[o] = "filled"}

View(k) == CASE k \in {"book", "refresh"} -> With("live")
             [] k = "trades" -> Traded
             [] OTHER -> [o \in Orders |-> IF o \in Listed \cap Own THEN order[o] ELSE "none"]

\* The server reads a view it owes.
Push(k) ==
    /\ k \in owed /\ Len(mail[k]) < MaxMail[k]
    /\ owed' = owed \ {k}
    /\ mail' = [mail EXCEPT ![k] = Append(@, View(k))]
    /\ UNCHANGED <<Own, backend, answer, load, loading, pageVars>>

\* While submitted orders are not listed both lists are requested again.
Poll(k) ==
    /\ pending # {}
    /\ Len(mail[k]) < MaxMail[k]
    /\ mail' = [mail EXCEPT ![k] = Append(@, View(k))]
    /\ UNCHANGED <<Own, backend, owed, answer, load, loading, pageVars>>

\* Held orders are asked about at once, and again and again, one question
\* about an order at a time.
ReadStatus(o) ==
    /\ o \in held /\ answer[o] = "no"
    /\ answer' = [answer EXCEPT ![o] = order[o]]
    /\ UNCHANGED <<Own, backend, owed, mail, load, loading, pageVars>>

\* The first load reads the book, and the trades with the orders being settled;
\* an order that moves on from RESERVED to PENDING may be missed by both of its
\* requests.
ReadPart(part) ==
    /\ loading /\ load[part] = <<>>
    /\ \E view \in IF part = "book" THEN {[live |-> With("live")]}
                   ELSE [filled : {Traded}, inflight : SUBSET With("inflight")] :
         load' = [load EXCEPT ![part] = <<view>>]
    /\ UNCHANGED <<Own, backend, owed, mail, answer, loading, pageVars>>

\* A request fails before or after it is read; the other requests of the first
\* load fail with it.
Fail ==
    /\ \/ loading /\ loading' = FALSE /\ load' = NotLoaded /\ UNCHANGED <<owed, mail, answer>>
       \/ owed' = owed \ {"orders"} /\ UNCHANGED <<mail, answer, load, loading>>
       \/ \E k \in Requests : /\ mail' = [mail EXCEPT ![k] = <<>>]
                              /\ UNCHANGED <<owed, answer, load, loading>>
       \/ \E o \in Orders : /\ answer' = [answer EXCEPT ![o] = "no"]
                            /\ UNCHANGED <<owed, mail, load, loading>>
    /\ UNCHANGED <<Own, backend, pageVars>>

\* The socket closes with everything on it, and is opened again: the page
\* subscribes to every channel, and is owed a first view of each.
Reconnect ==
    /\ owed' = owed \cup Channels
    /\ mail' = [k \in Kinds |-> IF k \in Channels THEN <<>> ELSE mail[k]]
    /\ UNCHANGED <<Own, backend, answer, load, loading, pageVars>>

---------------------------------------------------------------------------
(* What the page does with them                                            *)

\* The first report of an order's end is kept.
Mark(store, orders, end) ==
    [o \in Orders |-> IF o \in orders /\ store[o] = "open" THEN end ELSE store[o]]

\* Mutant: the own orders are shown as their channel has them.
EffectiveByChannel(d, store, o) == d[o]

\* An own order as the lists show it: the store may know more than its channel.
Effective(d, store, o) ==
    IF d[o] \in {"live", "inflight"} /\ store[o] # "open" THEN store[o] ELSE d[o]

\* Orders that left the book and whose end is not known.
Left(live, store) == {o \in book \ live : store[o] = "open"}

\* Mutant: an update keeps only what it removed itself.
HeldAfterReplacing(live, store) == Left(live, store)

HeldAfter(live, store) == (held \ live) \cup Left(live, store)

\* applyBook.
ApplyBook(live) ==
    /\ book' = live
    /\ held' = HeldAfter(live, closed)
    /\ UNCHANGED <<closed, docs, pending>>

\* Mutant: a confirmed trade is listed, and its orders are not recorded.
FilledByListed(view) == {}

FilledBy(view) == view

\* applyTrades.
ApplyTrades(filled) ==
    /\ closed' = Mark(closed, FilledBy(filled), "filled")
    /\ UNCHANGED <<book, held, docs, pending>>

\* Mutant: what has ended is not recorded.
ApplyDocsUnrecorded(view) ==
    /\ docs' = view
    /\ pending' = {o \in pending : view[o] = "none"}
    /\ UNCHANGED <<book, held, closed>>

\* The own orders' view replaces the last one; what it lists is no longer
\* pending, and what has ended is recorded.
ApplyDocs(view) ==
    /\ LET over(end) == {o \in Own : view[o] = end}
       IN  closed' = Mark(Mark(closed, over("filled"), "filled"), over("canceled"), "canceled")
    /\ docs' = view
    /\ pending' = {o \in pending : view[o] = "none"}
    /\ UNCHANGED <<book, held>>

Deliver(k, i) ==
    /\ i \in DOMAIN mail[k]
    /\ mail' = [mail EXCEPT ![k] = RemoveAt(@, i)]
    /\ \/ k \in {"book", "refresh"} /\ ApplyBook(mail[k][i])
       \/ k = "trades" /\ ApplyTrades(mail[k][i])
       \/ k \in {"mine", "orders"} /\ ApplyDocs(mail[k][i])
    /\ UNCHANGED <<Own, backend, owed, answer, load, loading, cancel>>

\* Mutant: the statuses of a settlement under way are not listed.
InFlightUnlisted == {}

InFlight == {"inflight"}

\* checkHeld: the answer about a held order.
Answer(o) ==
    /\ answer[o] # "no"
    /\ answer' = [answer EXCEPT ![o] = "no"]
    /\ LET status == answer[o]
       IN  \/ /\ status \in InFlight
              /\ UNCHANGED <<held, closed>>
           \/ /\ status \notin InFlight
              /\ held' = held \ {o}
              /\ closed' = IF status = "live" THEN closed
                           ELSE Mark(closed, {o}, IF status = "filled" THEN "filled" ELSE "canceled")
    /\ UNCHANGED <<Own, backend, owed, mail, load, loading, book, docs, pending, cancel>>

\* The first load is applied when all of it has arrived, whatever arrived
\* before: trades, then the book, then what is being settled.
Loaded ==
    /\ loading /\ \A part \in LoadParts : load[part] # <<>>
    /\ loading' = FALSE /\ load' = NotLoaded
    /\ LET live == load["book"][1].live
           settled == load["settled"][1]
           store == Mark(closed, FilledBy(settled.filled), "filled")
       IN  /\ book' = live
           /\ held' = HeldAfter(live, store) \cup {o \in settled.inflight : store[o] = "open"}
           /\ closed' = store
    /\ UNCHANGED <<Own, backend, owed, mail, answer, docs, pending, cancel>>

---------------------------------------------------------------------------
(* Timers and the user                                                     *)

\* Held orders are given up after half an hour.
GiveUp(o) ==
    /\ o \in held
    /\ held' = held \ {o}
    /\ UNCHANGED <<Own, backend, netVars, book, closed, docs, pending, cancel>>

PlaceOrder(o) ==
    /\ o \in Own /\ order[o] = "none"
    /\ order' = [order EXCEPT ![o] = "sent"]
    /\ pending' = pending \cup {o}
    /\ UNCHANGED <<Own, ended, stale, netVars, book, held, closed, docs, cancel>>

\* A pending row is cancelled: its cell is read, the wallet asked, and the
\* transaction sent or refused, whatever arrived meanwhile.
StartCancel(o) ==
    /\ o \in pending /\ cancel[o] = "no"
    /\ cancel' = [cancel EXCEPT ![o] = "asked"]
    /\ UNCHANGED <<Own, backend, netVars, book, held, closed, docs, pending>>

FinishCancel(o) ==
    /\ cancel[o] = "asked"
    /\ \/ /\ ended[o] = "open"
          /\ cancel' = [cancel EXCEPT ![o] = "sent"]
          /\ pending' = pending \ {o}
          /\ closed' = Mark(closed, {o}, "canceled")
       \/ /\ cancel' = [cancel EXCEPT ![o] = "no"]
          /\ UNCHANGED <<pending, closed>>
    /\ UNCHANGED <<Own, backend, netVars, book, held, docs>>

Next ==
    \/ Backend \/ Fail \/ Reconnect \/ Loaded
    \/ \E k \in Kinds : \E i \in DOMAIN mail[k] : Deliver(k, i)
    \/ \E k \in Kinds : Push(k)
    \/ \E k \in Requests : Poll(k)
    \/ \E part \in LoadParts : ReadPart(part)
    \/ \E o \in Orders : ReadStatus(o) \/ Answer(o) \/ GiveUp(o)
    \/ \E o \in Own : PlaceOrder(o) \/ StartCancel(o) \/ FinishCancel(o)

\* The server reads the views it owes and they arrive, and the socket is lost
\* only so often.  Of requests, timers and users nothing is assumed.
Fairness ==
    /\ \A k \in Channels : WF_vars(Push(k)) /\ WF_vars(Deliver(k, 1))
    /\ <>[][~Reconnect]_vars

Spec == Init /\ [][Next]_vars
FairSpec == Spec /\ Fairness

---------------------------------------------------------------------------
(* Properties                                                              *)

ShownInBook(o) == closed[o] = "open" /\ (o \in book \/ o \in held)
ShownOpen(o) == Effective(docs, closed, o) \in {"live", "inflight"}
ShownEnded(o) == Effective(docs, closed, o) \in Finished

\* The store keeps the first report of an order's end for good, so no view,
\* however old, and no answer may report an end that is not the order's own,
\* although the backend may list the order again after its end; a cancellation
\* the user sent before the order was listed counts as one.
ClosedStoreIsTrue ==
    \A o \in Orders :
      closed[o] # "open" => closed[o] = ended[o] \/ (closed[o] = "canceled" /\ cancel[o] = "sent")

\* An own order that was shown as ended is never shown as open again, so the
\* user hears of its end once, also when an older view of the own orders
\* arrives after a newer one, or two channels report the end.
EndedOrdersStayEnded == [][\A o \in Orders : ShownEnded(o) => ~ShownOpen(o)']_vars

\* A listed row stays until the page knows how its order ended, the backend said
\* it is not settling, or the page waited too long: no sequence of views lets it
\* flicker.
RowsWaitForTheirEnd ==
    [][\A o \in Orders :
         (ShownInBook(o) /\ ~ShownInBook(o)') =>
           \/ closed'[o] # "open"
           \/ answer[o] = "live" /\ Answer(o)
           \/ GiveUp(o)]_vars

\* Filled orders, whatever the backend lists them as, and the wallet's own
\* canceled ones leave the book and the open orders for good, although older
\* views arrive after newer ones, the socket drops and requests fail.
EndedOrdersDisappear ==
    \A o \in Orders :
      <>[]((ended[o] = "filled" \/ (o \in Own /\ order[o] = "canceled")) =>
             ~ShownInBook(o) /\ (o \in Own => ~ShownOpen(o)))
=============================================================================
