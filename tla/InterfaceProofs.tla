--------------------------- MODULE InterfaceProofs ---------------------------
(***************************************************************************)
(* Theorems about the two halves of the interface's page: MarketView, for  *)
(* any orders, trades and views on their way, and WalletBalances, for any  *)
(* wallets, transactions, payments, failures and changes of wallet.        *)
(*                                                                         *)
(* The invariant of MarketView adds to TypeOK that whatever is on its way  *)
(* to the page (NetTrue), or on it (PageTrue), was once so: orders that    *)
(* are listed stay listed, and an end that was read is the order's own.    *)
(*                                                                         *)
(* That of WalletBalances adds to TypeOK that what a balance includes has  *)
(* been indexed (Witnessed), and that a refresh under way is about the     *)
(* connected wallet (ReadsSigner).                                         *)
(***************************************************************************)
EXTENDS MarketView, WalletBalances, SequenceTheorems, TLAPS

---------------------------------------------------------------------------
(* Views                                                                   *)

\* What a view that was read at some moment may say now.
OrderViews == {v \in [Orders -> Statuses \ {"sent"}] :
                 \A o \in Orders : /\ v[o] # "none" => o \in Listed \cap Own
                                   /\ v[o] \in Finished => ended[o] = v[o]}
Views(k) == CASE k \in {"book", "refresh"} -> SUBSET Listed
              [] k = "trades" -> SUBSET Traded
              [] OTHER -> OrderViews
Parts(part) == IF part = "book" THEN [live: SUBSET Listed]
               ELSE [filled: SUBSET Traded, inflight: SUBSET Listed]

\* What the backend says of an order agrees with the end it has recorded.
BackendTrue ==
    /\ order \in [Orders -> Statuses] /\ ended \in [Orders -> {"open"} \cup Finished]
    /\ stale \subseteq Orders
    /\ \A o \in Orders : /\ order[o] \in Finished => ended[o] = order[o]
                         /\ o \notin Listed => ended[o] = "open"

\* What is on its way to the page.
NetTrue ==
    /\ owed \subseteq Channels \cup {"orders"} /\ loading \in BOOLEAN
    /\ mail = [k \in Kinds |-> mail[k]]
    /\ \A k \in Kinds : mail[k] \in Seq(Views(k)) /\ Len(mail[k]) <= MaxMail[k]
    /\ load = [part \in LoadParts |-> load[part]]
    /\ \A part \in LoadParts : load[part] \in Seq(Parts(part)) /\ Len(load[part]) <= 1
    /\ answer \in [Orders -> {"no"} \cup (Statuses \ {"none", "sent"})]
    /\ \A o \in Orders : /\ answer[o] # "no" => o \in Listed
                         /\ answer[o] \in Finished => ended[o] = answer[o]

\* What is on the page.
PageTrue ==
    /\ Own \subseteq Orders
    /\ book \subseteq Listed /\ held \subseteq Listed /\ docs \in OrderViews
    /\ closed \in [Orders -> {"open"} \cup Finished]
    /\ pending \subseteq Own /\ cancel \in [Orders -> {"no", "asked", "sent"}]
    /\ \A o \in pending : docs[o] = "none"
    /\ \A o \in Orders : docs[o] \in Finished => closed[o] # "open"
    /\ ClosedStoreIsTrue

Inv == BackendTrue /\ NetTrue /\ PageTrue

\* Taking a view out of the mail leaves views.
LEMMA RemovedViews ==
    ASSUME NEW S, NEW s \in Seq(S), NEW i \in DOMAIN s
    PROVE  RemoveAt(s, i) \in Seq(S) /\ Len(RemoveAt(s, i)) <= Len(s)
<1>1. i \in 1..Len(s) /\ Len(s) \in Nat /\ \A j \in 1..Len(s) : s[j] \in S
  OBVIOUS
<1>2. /\ SubSeq(s, 1, i - 1) \in Seq(S) /\ Len(SubSeq(s, 1, i - 1)) = i - 1
      /\ SubSeq(s, i + 1, Len(s)) \in Seq(S) /\ Len(SubSeq(s, i + 1, Len(s))) = Len(s) - i
  <2>1. /\ 1 \in Int /\ i - 1 \in Int /\ i + 1 \in Int /\ Len(s) \in Int
        /\ \A j \in 1..(i - 1) : s[j] \in S
        /\ \A j \in (i + 1)..Len(s) : s[j] \in S
    BY <1>1
  <2>2. SubSeq(s, 1, i - 1) \in Seq(S) /\ Len(SubSeq(s, 1, i - 1)) = IF 1 <= i - 1 THEN i - 1 - 1 + 1 ELSE 0
    BY <2>1, SubSeqProperties
  <2>3. /\ SubSeq(s, i + 1, Len(s)) \in Seq(S)
        /\ Len(SubSeq(s, i + 1, Len(s))) = IF i + 1 <= Len(s) THEN Len(s) - (i + 1) + 1 ELSE 0
    BY <2>1, SubSeqProperties
  <2> QED
    BY <1>1, <2>2, <2>3
<1>3. RemoveAt(s, i) = SubSeq(s, 1, i - 1) \o SubSeq(s, i + 1, Len(s))
  BY DEF RemoveAt
<1>4. /\ SubSeq(s, 1, i - 1) \o SubSeq(s, i + 1, Len(s)) \in Seq(S)
      /\ Len(SubSeq(s, 1, i - 1) \o SubSeq(s, i + 1, Len(s))) = (i - 1) + (Len(s) - i)
  BY <1>2, ConcatProperties
<1> QED
  BY <1>1, <1>3, <1>4

---------------------------------------------------------------------------
(* The backend                                                             *)

\* The backend takes no order out of its lists, and an end on record is there
\* for good, whatever becomes of the status.
Onward ==
    /\ Own' = Own
    /\ \A o \in Orders : /\ order[o] \notin {"none", "sent"} => order'[o] \notin {"none", "sent"}
                         /\ ended[o] # "open" => ended'[o] = ended[o]

LEMMA StepsOnward ==
    ASSUME BackendTrue, [Next]_vars
    PROVE  Onward /\ BackendTrue'
<1> USE DEF BackendTrue, Onward, Listed, Statuses, Finished
<1>1. ASSUME NEW o \in Orders, IndexOrder(o) PROVE Onward /\ BackendTrue'
  BY <1>1 DEF IndexOrder, Change
<1>2. ASSUME NEW orders \in Trades, Reserve(orders) \/ SettlementSubmitted(orders)
      PROVE  Onward /\ BackendTrue'
  BY <1>2 DEF Reserve, SettlementSubmitted, Change
<1>3. ASSUME NEW orders, NEW written \in {"live", "inflight"}, BotWrites(orders, written)
      PROVE  Onward /\ BackendTrue'
  BY <1>3 DEF BotWrites, Change
<1>4. ASSUME NEW orders, NEW end \in Finished, NEW pushed, End(orders, end, pushed)
      PROVE  Onward /\ BackendTrue'
  BY <1>4 DEF End, Change, With
<1>5. ASSUME NEW o \in Own, PlaceOrder(o) PROVE Onward /\ BackendTrue'
  BY <1>5 DEF PlaceOrder
<1>6. CASE UNCHANGED backend /\ Own' = Own
  BY <1>6 DEF backend
<1>7. Backend => \/ \E o \in Orders : IndexOrder(o)
                 \/ \E orders \in Trades : Reserve(orders) \/ SettlementSubmitted(orders)
                 \/ \E orders : \E written \in {"live", "inflight"} : BotWrites(orders, written)
                 \/ \E orders, pushed : \E end \in Finished : End(orders, end, pushed)
  BY DEF Backend, TrackDirectly, RevertToLive, Fill, CancelConfirmed
<1>8. (\E o \in Own : PlaceOrder(o)) \/ Backend \/ (UNCHANGED backend /\ Own' = Own)
  BY DEF Next, Fail, Reconnect, Loaded, Deliver, Push, Poll, ReadPart, ReadStatus, Answer, GiveUp, StartCancel,
     FinishCancel, vars
<1> QED
  BY <1>1, <1>2, <1>3, <1>4, <1>5, <1>6, <1>7, <1>8

LEMMA StatusSets ==
    /\ "filled" \in Finished /\ "canceled" \in Finished /\ "open" \notin Finished /\ "no" \notin Finished
    /\ Finished \subseteq Statuses /\ "none" \notin Finished /\ "sent" \notin Finished
    /\ {"none", "sent", "live", "inflight"} \subseteq Statuses
    /\ "live" \notin Finished /\ "inflight" \notin Finished /\ "no" \notin Statuses
BY DEF Statuses, Finished

\* Hence views stay true.
LEMMA ViewsStayTrue ==
    ASSUME Onward
    PROVE  /\ Listed \subseteq Listed' /\ Traded \subseteq Traded'
           /\ OrderViews \subseteq OrderViews'
           /\ \A k \in Kinds : Seq(Views(k)) \subseteq Seq(Views(k)')
           /\ \A part \in LoadParts : Seq(Parts(part)) \subseteq Seq(Parts(part)')
<1>1. Listed \subseteq Listed' /\ Traded \subseteq Traded'
  BY DEF Onward, Listed, Traded
<1>2. OrderViews \subseteq OrderViews'
  <2>1. \A o \in Orders : ended[o] \in Finished => ended'[o] = ended[o]
    BY StatusSets DEF Onward
  <2>2. Own' = Own
    BY DEF Onward
  <2> QED
    BY <1>1, <2>1, <2>2 DEF OrderViews
<1>3. \A k \in Kinds : Views(k) \subseteq Views(k)'
  BY <1>1, <1>2 DEF Views
<1>4. \A part \in LoadParts : Parts(part) \subseteq Parts(part)'
  BY <1>1 DEF Parts
<1> QED
  BY <1>1, <1>2, <1>3, <1>4, SeqMonotonic

---------------------------------------------------------------------------
(* Truth                                                                   *)

LEMMA MarkKeeps ==
    ASSUME NEW store \in [Orders -> {"open"} \cup Finished], NEW orders, NEW end \in Finished
    PROVE  /\ Mark(store, orders, end) \in [Orders -> {"open"} \cup Finished]
           /\ \A o \in Orders : /\ store[o] # "open" => Mark(store, orders, end)[o] = store[o]
                                /\ store[o] = "open" => Mark(store, orders, end)[o] =
                                                          IF o \in orders THEN end ELSE "open"
BY DEF Mark

LEMMA InvInit == Init => Inv
<1> SUFFICES ASSUME Init PROVE Inv
  OBVIOUS
<1>1. /\ Own \in SUBSET Orders /\ order \in [Orders -> Statuses] /\ pending \subseteq Own
      /\ mail = [k \in Kinds |-> <<>>] /\ answer = [o \in Orders |-> "no"]
      /\ load = [part \in LoadParts |-> <<>>] /\ loading \in BOOLEAN
      /\ book = {} /\ held = {} /\ closed = [o \in Orders |-> "open"]
      /\ docs = [o \in Orders |-> "none"] /\ cancel = [o \in Orders |-> "no"]
      /\ owed \subseteq Channels \cup {"orders"}
  BY DEF Init, NoView, NoAnswer, NotLoaded, NoDocs
<1>2. docs \in OrderViews
  BY <1>1, StatusSets DEF OrderViews
<1>3. \A k \in Kinds : mail[k] = <<>> /\ mail[k] \in Seq(Views(k)) /\ Len(mail[k]) <= MaxMail[k]
  BY <1>1, EmptySeq, MarketConstants
<1>4. \A part \in LoadParts : load[part] = <<>> /\ load[part] \in Seq(Parts(part)) /\ Len(load[part]) <= 1
  BY <1>1, EmptySeq
<1>5. NetTrue
  BY <1>1, <1>3, <1>4, StatusSets DEF NetTrue
<1>6. PageTrue
  BY <1>1, <1>2, StatusSets DEF PageTrue, ClosedStoreIsTrue
<1>7. BackendTrue
  BY DEF Init, BackendTrue
<1> QED
  BY <1>5, <1>6, <1>7 DEF Inv

\* What the page knows, or is going to hear, stays true while the backend goes
\* on.
LEMMA PageStays ==
    ASSUME Inv, Onward, UNCHANGED pageVars
    PROVE  PageTrue'
<1>1. \A o \in Orders : closed[o] # "open" => closed[o] \in Finished
  BY DEF Inv, PageTrue
<1>2. \A o \in Orders : ended[o] # "open" => ended'[o] = ended[o]
  BY DEF Onward
<1>3. ClosedStoreIsTrue'
  BY <1>1, <1>2, StatusSets DEF Inv, PageTrue, ClosedStoreIsTrue, pageVars
<1> QED
  BY <1>3, ViewsStayTrue DEF Inv, PageTrue, pageVars, Onward

LEMMA NetStays ==
    ASSUME Inv, Onward
    PROVE  /\ \A k \in Kinds : mail[k] \in Seq(Views(k)')
           /\ \A part \in LoadParts : load[part] \in Seq(Parts(part)')
           /\ \A o \in Orders : /\ answer[o] # "no" => o \in Listed'
                                /\ answer[o] \in Finished => ended'[o] = answer[o]
           /\ UNCHANGED netVars => NetTrue'
<1>1. /\ \A k \in Kinds : mail[k] \in Seq(Views(k)')
      /\ \A part \in LoadParts : load[part] \in Seq(Parts(part)')
  BY ViewsStayTrue DEF Inv, NetTrue
<1>2. \A o \in Orders : /\ answer[o] # "no" => o \in Listed'
                        /\ answer[o] \in Finished => ended'[o] = answer[o]
  BY ViewsStayTrue, StatusSets DEF Inv, NetTrue, Onward
<1>3. ASSUME UNCHANGED netVars PROVE NetTrue'
  BY <1>1, <1>2, <1>3 DEF Inv, NetTrue, netVars
<1> QED
  BY <1>1, <1>2, <1>3

\* A view that is read is true.
LEMMA ViewsAreTrue ==
    ASSUME BackendTrue
    PROVE  /\ \A k \in Kinds : View(k) \in Views(k)
           /\ \A filled \in SUBSET Traded, inflight \in SUBSET With("inflight") :
                [filled |-> filled, inflight |-> inflight] \in Parts("settled")
           /\ [live |-> With("live")] \in Parts("book")
<1>1. With("live") \subseteq Listed /\ With("inflight") \subseteq Listed
  BY DEF With, Listed
<1>2. [o \in Orders |-> IF o \in Listed \cap Own THEN order[o] ELSE "none"] \in OrderViews
  BY StatusSets DEF BackendTrue, OrderViews, Listed
<1>3. \A k \in Kinds : View(k) \in Views(k)
  BY <1>1, <1>2 DEF View, Views
<1> QED
  BY <1>1, <1>3 DEF Parts

LEMMA NetworkKeeps ==
    ASSUME Inv, Onward, order' = order, ended' = ended,
           \/ \E k \in Kinds : Push(k)
           \/ \E k \in Requests : Poll(k)
           \/ \E part \in LoadParts : ReadPart(part)
           \/ \E o \in Orders : ReadStatus(o)
           \/ Fail \/ Reconnect
    PROVE  NetTrue'
<1>0. /\ \A k \in Kinds : Views(k)' = Views(k)
      /\ \A part \in LoadParts : Parts(part)' = Parts(part)
      /\ Listed' = Listed
  BY DEF Onward, Views, Parts, OrderViews, Listed, Traded
<1>1. ASSUME NEW k \in Kinds, Push(k) \/ (k \in Requests /\ Poll(k)) PROVE NetTrue'
  <2>1. /\ mail' = [mail EXCEPT ![k] = Append(@, View(k))] /\ Len(mail[k]) < MaxMail[k]
        /\ owed' \subseteq owed /\ UNCHANGED <<answer, load, loading>>
    BY <1>1 DEF Push, Poll
  <2>2. View(k) \in Views(k) /\ mail[k] \in Seq(Views(k)) /\ MaxMail[k] \in Nat
    BY ViewsAreTrue, MarketConstants DEF Inv, NetTrue
  <2>3. Append(mail[k], View(k)) \in Seq(Views(k)) /\ Len(Append(mail[k], View(k))) <= MaxMail[k]
    BY <2>1, <2>2
  <2> QED
    BY <1>0, <2>1, <2>3 DEF Inv, NetTrue
<1>2. ASSUME NEW part \in LoadParts, ReadPart(part) PROVE NetTrue'
  <2>1. \E view \in Parts(part) : load' = [load EXCEPT ![part] = <<view>>]
    <3>1. CASE part = "book"
      BY <1>2, <3>1, ViewsAreTrue DEF ReadPart, Inv
    <3>2. CASE part # "book"
      <4>1. \A v \in [filled : {Traded}, inflight : SUBSET With("inflight")] : v \in Parts(part)
        BY <1>2, <3>2 DEF Parts, With, Listed
      <4> QED
        BY <1>2, <3>2, <4>1 DEF ReadPart
    <3> QED
      BY <3>1, <3>2
  <2>2. PICK view \in Parts(part) : load' = [load EXCEPT ![part] = <<view>>]
    BY <2>1
  <2>3. <<view>> \in Seq(Parts(part)) /\ Len(<<view>>) = 1
    BY <2>2
  <2>4. UNCHANGED <<owed, mail, answer, loading>>
    BY <1>2 DEF ReadPart
  <2> QED
    BY <1>0, <2>2, <2>3, <2>4 DEF Inv, NetTrue
<1>3. ASSUME NEW o \in Orders, ReadStatus(o) PROVE NetTrue'
  <2>1. answer' = [answer EXCEPT ![o] = order[o]] /\ o \in Listed /\ UNCHANGED <<owed, mail, load, loading>>
    BY <1>3 DEF ReadStatus, Inv, PageTrue
  <2>2. order[o] \in Statuses \ {"none", "sent"}
    BY <2>1 DEF Inv, BackendTrue, Listed
  <2> QED
    BY <1>0, <2>1, <2>2 DEF Inv, BackendTrue, NetTrue
<1>4. CASE Fail
  <2>1. CASE loading' = FALSE /\ load' = NotLoaded /\ UNCHANGED <<owed, mail, answer>>
    <3>1. \A part \in LoadParts : load'[part] = <<>> /\ <<>> \in Seq(Parts(part)) /\ Len(<<>>) <= 1
      BY <2>1, EmptySeq DEF NotLoaded
    <3>2. load' = [part \in LoadParts |-> load'[part]] /\ loading' \in BOOLEAN
      BY <2>1 DEF NotLoaded
    <3> QED
      BY <1>0, <2>1, <3>1, <3>2 DEF Inv, NetTrue
  <2>2. CASE owed' = owed \ {"orders"} /\ UNCHANGED <<mail, answer, load, loading>>
    BY <1>0, <2>2 DEF Inv, NetTrue
  <2>3. CASE \E k \in Requests : mail' = [mail EXCEPT ![k] = <<>>] /\ UNCHANGED <<owed, answer, load, loading>>
    <3>1. \A k \in Kinds : <<>> \in Seq(Views(k)) /\ Len(<<>>) <= MaxMail[k]
      BY EmptySeq, MarketConstants
    <3> QED
      BY <1>0, <2>3, <3>1 DEF Inv, NetTrue
  <2>4. CASE \E o \in Orders : answer' = [answer EXCEPT ![o] = "no"] /\ UNCHANGED <<owed, mail, load, loading>>
    BY <1>0, <2>4, StatusSets DEF Inv, NetTrue
  <2> QED
    BY <1>4, <2>1, <2>2, <2>3, <2>4 DEF Fail
<1>5. CASE Reconnect
  <2>1. \A k \in Kinds : <<>> \in Seq(Views(k)) /\ Len(<<>>) <= MaxMail[k]
    BY EmptySeq, MarketConstants
  <2> QED
    BY <1>0, <1>5, <2>1 DEF Reconnect, Inv, NetTrue
<1> QED
  BY <1>1, <1>2, <1>3, <1>4, <1>5 DEF Requests, Kinds

---------------------------------------------------------------------------
(* The page                                                                *)

\* A view that is taken out of the mail was there, and the rest stays.
LEMMA DeliveryKeepsNet ==
    ASSUME Inv, Onward, order' = order, ended' = ended, NEW k \in Kinds, NEW i \in DOMAIN mail[k], Deliver(k, i)
    PROVE  NetTrue' /\ mail[k][i] \in Views(k)
<1>0. /\ \A x \in Kinds : Views(x)' = Views(x)
      /\ \A part \in LoadParts : Parts(part)' = Parts(part)
      /\ Listed' = Listed
  BY DEF Onward, Views, Parts, OrderViews, Listed, Traded
<1>1. mail[k] \in Seq(Views(k)) /\ Len(mail[k]) <= MaxMail[k] /\ MaxMail[k] \in Nat
  BY MarketConstants DEF Inv, NetTrue
<1>2. /\ RemoveAt(mail[k], i) \in Seq(Views(k)) /\ Len(RemoveAt(mail[k], i)) <= Len(mail[k])
      /\ mail[k][i] \in Views(k)
  BY <1>1, RemovedViews
<1>3. Len(RemoveAt(mail[k], i)) <= MaxMail[k]
  BY <1>1, <1>2
<1>4. mail' = [mail EXCEPT ![k] = RemoveAt(mail[k], i)] /\ UNCHANGED <<owed, answer, load, loading>>
  BY DEF Deliver
<1> QED
  BY <1>0, <1>2, <1>3, <1>4 DEF Inv, NetTrue

\* The end of an order that is marked as its own is true.
LEMMA MarksAreTrue ==
    ASSUME Inv, order' = order, ended' = ended, NEW orders \in SUBSET Orders, NEW end \in Finished,
           NEW store \in [Orders -> {"open"} \cup Finished],
           \A o \in orders : ended[o] = end,
           \A o \in Orders : store[o] # "open" =>
             store[o] = ended[o] \/ (store[o] = "canceled" /\ cancel[o] = "sent")
    PROVE  LET marked == Mark(store, orders, end)
           IN  \A o \in Orders : marked[o] # "open" =>
                 marked[o] = ended[o] \/ (marked[o] = "canceled" /\ cancel[o] = "sent")
BY MarkKeeps

LEMMA BookKeepsPage ==
    ASSUME Inv, Onward, order' = order, ended' = ended, NEW live \in SUBSET Listed, ApplyBook(live), cancel' = cancel
    PROVE  PageTrue'
<1>1. Listed' = Listed /\ OrderViews' = OrderViews
  BY DEF Onward, OrderViews, Listed
<1>2. book' \subseteq Listed /\ held' \subseteq Listed
  BY DEF ApplyBook, HeldAfter, Left, Inv, PageTrue
<1>3. UNCHANGED <<closed, docs, pending>>
  BY DEF ApplyBook
<1> QED
  BY <1>1, <1>2, <1>3 DEF Inv, PageTrue, ClosedStoreIsTrue, Onward

LEMMA TradesKeepPage ==
    ASSUME Inv, Onward, order' = order, ended' = ended, NEW filled \in SUBSET Traded, ApplyTrades(filled),
           cancel' = cancel
    PROVE  PageTrue'
<1>1. Listed' = Listed /\ OrderViews' = OrderViews
  BY DEF Onward, OrderViews, Listed
<1>2. closed' = Mark(closed, filled, "filled") /\ UNCHANGED <<book, held, docs, pending>>
  BY DEF ApplyTrades, FilledBy
<1>3. /\ closed \in [Orders -> {"open"} \cup Finished] /\ "filled" \in Finished
      /\ filled \in SUBSET Orders /\ \A o \in filled : ended[o] = "filled"
      /\ \A o \in Orders : closed[o] # "open" =>
             closed[o] = ended[o] \/ (closed[o] = "canceled" /\ cancel[o] = "sent")
  BY StatusSets DEF Inv, PageTrue, Traded, ClosedStoreIsTrue
<1>4. /\ closed' \in [Orders -> {"open"} \cup Finished]
      /\ \A o \in Orders : closed[o] # "open" => closed'[o] # "open"
  BY <1>2, <1>3, MarkKeeps
<1>5. ClosedStoreIsTrue'
  BY <1>2, <1>3, MarksAreTrue DEF ClosedStoreIsTrue
<1> QED
  BY <1>1, <1>2, <1>4, <1>5 DEF Inv, PageTrue, Onward

LEMMA DocsKeepPage ==
    ASSUME Inv, Onward, order' = order, ended' = ended, NEW view \in OrderViews, ApplyDocs(view), cancel' = cancel
    PROVE  PageTrue'
<1> DEFINE over(end) == {o \in Own : view[o] = end}
           first == Mark(closed, over("filled"), "filled")
<1>1. Listed' = Listed /\ OrderViews' = OrderViews /\ Own' = Own /\ Own \subseteq Orders
  BY DEF Onward, OrderViews, Listed, Inv, PageTrue
<1>2. /\ closed' = Mark(first, over("canceled"), "canceled")
      /\ docs' = view /\ pending' = {o \in pending : view[o] = "none"} /\ UNCHANGED <<book, held>>
  BY DEF ApplyDocs
<1>3. /\ \A end \in Finished : over(end) \in SUBSET Orders /\ \A o \in over(end) : ended[o] = end
      /\ closed \in [Orders -> {"open"} \cup Finished] /\ "filled" \in Finished /\ "canceled" \in Finished
      /\ \A o \in Orders : closed[o] # "open" =>
             closed[o] = ended[o] \/ (closed[o] = "canceled" /\ cancel[o] = "sent")
  BY <1>1, StatusSets DEF Inv, PageTrue, ClosedStoreIsTrue, OrderViews
<1>4. /\ first \in [Orders -> {"open"} \cup Finished]
      /\ \A o \in Orders : /\ closed[o] # "open" => first[o] # "open"
                           /\ o \in over("filled") => first[o] # "open"
  BY <1>3, MarkKeeps
<1>5. \A o \in Orders : first[o] # "open" =>
        first[o] = ended[o] \/ (first[o] = "canceled" /\ cancel[o] = "sent")
  BY <1>3, MarksAreTrue
<1> HIDE DEF first, over
<1>6. /\ closed' \in [Orders -> {"open"} \cup Finished]
      /\ \A o \in Orders : /\ first[o] # "open" => closed'[o] # "open"
                           /\ o \in over("canceled") => closed'[o] # "open"
  BY <1>2, <1>3, <1>4, MarkKeeps
<1>7. \A o \in Orders : closed'[o] # "open" =>
        closed'[o] = ended[o] \/ (closed'[o] = "canceled" /\ cancel[o] = "sent")
  BY <1>2, <1>3, <1>4, <1>5, MarksAreTrue
<1>8. ClosedStoreIsTrue'
  BY <1>7 DEF ClosedStoreIsTrue
<1>9. ASSUME NEW o \in Orders, view[o] \in Finished PROVE closed'[o] # "open"
  <2>1. o \in Own /\ view[o] \in {"filled", "canceled"}
    BY <1>9, StatusSets DEF OrderViews, Finished
  <2> QED
    BY <2>1, <1>4, <1>6 DEF over
<1> QED
  BY <1>1, <1>2, <1>6, <1>8, <1>9 DEF Inv, PageTrue

\* What the other actions do to the page.
LEMMA PageIsStill ==
    ASSUME Inv, Own' = Own, order' = order, ended' = ended, UNCHANGED <<book, closed, docs>>,
           held' \subseteq held, pending' \subseteq pending,
           cancel' \in [Orders -> {"no", "asked", "sent"}],
           \A o \in Orders : cancel[o] = "sent" => cancel'[o] = "sent"
    PROVE  PageTrue'
<1>1. Listed' = Listed /\ OrderViews' = OrderViews
  BY DEF OrderViews, Listed
<1>2. ClosedStoreIsTrue'
  BY DEF Inv, PageTrue, ClosedStoreIsTrue
<1>3. Own' \subseteq Orders /\ closed' \in [Orders -> {"open"} \cup Finished]
  BY DEF Inv, PageTrue
<1>4. book' \subseteq Listed /\ held' \subseteq Listed /\ docs' \in OrderViews /\ pending' \subseteq Own'
  BY DEF Inv, PageTrue
<1>5. /\ \A o \in pending' : docs'[o] = "none"
      /\ \A o \in Orders : docs'[o] \in Finished => closed'[o] # "open"
  BY DEF Inv, PageTrue
<1> QED
  BY <1>1, <1>2, <1>3, <1>4, <1>5 DEF PageTrue

LEMMA AnswerKeeps ==
    ASSUME Inv, Onward, order' = order, ended' = ended, NEW o \in Orders, Answer(o)
    PROVE  NetTrue' /\ PageTrue'
<1>0. /\ Listed' = Listed /\ OrderViews' = OrderViews
      /\ \A k \in Kinds : Views(k)' = Views(k)
      /\ \A part \in LoadParts : Parts(part)' = Parts(part)
  BY DEF Onward, Views, Parts, OrderViews, Listed, Traded
<1>1. NetTrue'
  <2>1. answer' = [answer EXCEPT ![o] = "no"] /\ UNCHANGED <<owed, mail, load, loading>>
    BY DEF Answer
  <2> QED
    BY <1>0, <2>1, StatusSets DEF Inv, NetTrue
<1>2. /\ held' \subseteq held /\ UNCHANGED <<book, docs, pending, cancel>>
      /\ \/ closed' = closed
         \/ \E end \in Finished : answer[o] = end /\ closed' = Mark(closed, {o}, end)
  <2>1. answer[o] \in {"live", "inflight", "filled", "canceled"}
    BY DEF Answer, Inv, NetTrue, Statuses, Finished
  <2> QED
    BY <2>1 DEF Answer, InFlight, Finished
<1>3. CASE closed' = closed
  BY <1>1, <1>2, <1>3, PageIsStill DEF Inv, PageTrue, Onward
<1>4. ASSUME NEW end \in Finished, answer[o] = end, closed' = Mark(closed, {o}, end)
      PROVE  PageTrue'
  <2>1. /\ ended[o] = end /\ closed \in [Orders -> {"open"} \cup Finished]
        /\ \A x \in Orders : closed[x] # "open" =>
               closed[x] = ended[x] \/ (closed[x] = "canceled" /\ cancel[x] = "sent")
    BY <1>4 DEF Inv, NetTrue, PageTrue, ClosedStoreIsTrue
  <2>2. /\ closed' \in [Orders -> {"open"} \cup Finished]
        /\ \A x \in Orders : closed[x] # "open" => closed'[x] # "open"
    BY <1>4, <2>1, MarkKeeps, StatusSets
  <2>3. {o} \in SUBSET Orders /\ \A x \in {o} : ended[x] = end
    BY <2>1
  <2>4. ClosedStoreIsTrue'
    BY <1>2, <1>4, <2>1, <2>3, MarksAreTrue DEF ClosedStoreIsTrue
  <2> QED
    BY <1>0, <1>2, <2>2, <2>4 DEF Inv, PageTrue, Onward
<1> QED
  BY <1>1, <1>2, <1>3, <1>4

LEMMA LoadedKeeps ==
    ASSUME Inv, Onward, order' = order, ended' = ended, Loaded
    PROVE  NetTrue' /\ PageTrue'
<1>0. /\ Listed' = Listed /\ OrderViews' = OrderViews
      /\ \A k \in Kinds : Views(k)' = Views(k)
      /\ \A part \in LoadParts : Parts(part)' = Parts(part)
  BY DEF Onward, Views, Parts, OrderViews, Listed, Traded
<1>1. NetTrue'
  <2>1. \A part \in LoadParts : load'[part] = <<>> /\ <<>> \in Seq(Parts(part)) /\ Len(<<>>) <= 1
    BY EmptySeq DEF Loaded, NotLoaded
  <2>2. load' = [part \in LoadParts |-> load'[part]] /\ loading' \in BOOLEAN /\ UNCHANGED <<owed, mail, answer>>
    BY DEF Loaded, NotLoaded
  <2> QED
    BY <1>0, <2>1, <2>2 DEF Inv, NetTrue
<1> DEFINE live == load["book"][1].live
           settled == load["settled"][1]
           store == Mark(closed, settled.filled, "filled")
<1>2. /\ live \in SUBSET Listed
      /\ settled.filled \in SUBSET Traded /\ settled.inflight \in SUBSET Listed
  <2>1. \A part \in LoadParts : load[part][1] \in Parts(part)
    <3> SUFFICES ASSUME NEW part \in LoadParts PROVE load[part][1] \in Parts(part)
      OBVIOUS
    <3>1. load[part] \in Seq(Parts(part)) /\ load[part] # <<>>
      BY DEF Loaded, Inv, NetTrue
    <3>2. /\ Len(load[part]) \in Nat /\ Len(load[part]) # 0
          /\ \A j \in 1..Len(load[part]) : load[part][j] \in Parts(part)
      BY <3>1
    <3> QED
      BY <3>2
  <2>2. load["book"][1] \in Parts("book") /\ load["settled"][1] \in Parts("settled")
    BY <2>1 DEF LoadParts
  <2> QED
    BY <2>2 DEF Parts
<1>3. /\ book' = live /\ closed' = store /\ UNCHANGED <<docs, pending, cancel>>
      /\ held' = HeldAfter(live, store) \cup {o \in settled.inflight : store[o] = "open"}
  BY DEF Loaded, FilledBy
<1> HIDE DEF live, settled
<1>4. book' \subseteq Listed /\ held' \subseteq Listed
  BY <1>2, <1>3 DEF HeldAfter, Left, Inv, PageTrue
<1>5. /\ closed \in [Orders -> {"open"} \cup Finished] /\ "filled" \in Finished
      /\ settled.filled \in SUBSET Orders /\ \A o \in settled.filled : ended[o] = "filled"
      /\ \A o \in Orders : closed[o] # "open" =>
             closed[o] = ended[o] \/ (closed[o] = "canceled" /\ cancel[o] = "sent")
  BY <1>2, StatusSets DEF Inv, PageTrue, Traded, ClosedStoreIsTrue
<1>6. /\ closed' \in [Orders -> {"open"} \cup Finished]
      /\ \A o \in Orders : closed[o] # "open" => closed'[o] # "open"
  BY <1>3, <1>5, MarkKeeps
<1>7. ClosedStoreIsTrue'
  BY <1>3, <1>5, MarksAreTrue DEF ClosedStoreIsTrue
<1>8. PageTrue'
  BY <1>0, <1>3, <1>4, <1>6, <1>7 DEF Inv, PageTrue, Onward
<1> QED
  BY <1>1, <1>8

LEMMA UserKeeps ==
    ASSUME Inv, Onward, NEW o \in Orders,
           GiveUp(o) \/ (o \in Own /\ (PlaceOrder(o) \/ StartCancel(o) \/ FinishCancel(o)))
    PROVE  NetTrue' /\ PageTrue'
<1>1. NetTrue'
  BY NetStays DEF GiveUp, PlaceOrder, StartCancel, FinishCancel, netVars
<1>2. CASE GiveUp(o)
  <2>1. /\ Own' = Own /\ order' = order /\ ended' = ended /\ UNCHANGED <<book, closed, docs, pending, cancel>>
        /\ held' \subseteq held
    BY <1>2 DEF GiveUp, backend
  <2> QED
    BY <1>1, <2>1, PageIsStill DEF Inv, PageTrue
<1>3. CASE o \in Own /\ PlaceOrder(o)
  <2>1. order[o] = "none" /\ UNCHANGED <<Own, book, held, closed, docs, cancel>> /\ pending' = pending \cup {o}
    BY <1>3 DEF PlaceOrder
  <2>2. docs[o] = "none"
    BY <2>1 DEF Inv, PageTrue, OrderViews, Listed
  <2>3. ended' = ended
    BY <1>3 DEF PlaceOrder
  <2>4. ClosedStoreIsTrue'
    BY <2>1, <2>3 DEF Inv, PageTrue, ClosedStoreIsTrue
  <2>5. book' \subseteq Listed' /\ held' \subseteq Listed' /\ docs' \in OrderViews'
    BY <2>1, ViewsStayTrue DEF Inv, PageTrue
  <2>6. Own' \subseteq Orders /\ pending' \subseteq Own' /\ \A x \in pending' : docs'[x] = "none"
    BY <1>3, <2>1, <2>2 DEF Inv, PageTrue
  <2>7. /\ closed' \in [Orders -> {"open"} \cup Finished] /\ cancel' \in [Orders -> {"no", "asked", "sent"}]
        /\ \A x \in Orders : docs'[x] \in Finished => closed'[x] # "open"
    BY <2>1 DEF Inv, PageTrue
  <2> QED
    BY <1>1, <2>4, <2>5, <2>6, <2>7 DEF PageTrue
<1>4. CASE o \in Own /\ StartCancel(o)
  <2>1. /\ Own' = Own /\ order' = order /\ ended' = ended /\ UNCHANGED <<book, closed, docs, pending, held>>
        /\ cancel[o] = "no" /\ cancel' = [cancel EXCEPT ![o] = "asked"]
        /\ cancel \in [Orders -> {"no", "asked", "sent"}]
    BY <1>4 DEF StartCancel, backend, Inv, PageTrue
  <2>2. /\ cancel' \in [Orders -> {"no", "asked", "sent"}]
        /\ \A x \in Orders : cancel[x] = "sent" => cancel'[x] = "sent"
    BY <2>1
  <2> QED
    BY <1>1, <2>1, <2>2, PageIsStill
<1>5. CASE o \in Own /\ FinishCancel(o)
  <2>1. Listed' = Listed /\ OrderViews' = OrderViews /\ UNCHANGED <<Own, order, ended, book, held, docs>>
    BY <1>5 DEF FinishCancel, backend, OrderViews, Listed
  <2>2. CASE cancel' = [cancel EXCEPT ![o] = "no"] /\ UNCHANGED <<pending, closed>>
    <3>1. cancel[o] = "asked" /\ cancel \in [Orders -> {"no", "asked", "sent"}]
      BY <1>5 DEF FinishCancel, Inv, PageTrue
    <3>2. /\ cancel' \in [Orders -> {"no", "asked", "sent"}]
          /\ \A x \in Orders : cancel[x] = "sent" => cancel'[x] = "sent"
      BY <2>2, <3>1
    <3> QED
      BY <1>1, <2>1, <2>2, <3>2, PageIsStill
  <2>3. CASE /\ cancel' = [cancel EXCEPT ![o] = "sent"] /\ pending' = pending \ {o}
             /\ closed' = Mark(closed, {o}, "canceled")
    <3>1. /\ closed' \in [Orders -> {"open"} \cup Finished]
          /\ \A x \in Orders : /\ closed[x] # "open" => closed'[x] = closed[x]
                               /\ closed[x] = "open" => closed'[x] = IF x = o THEN "canceled" ELSE "open"
      BY <2>3, MarkKeeps, StatusSets DEF Inv, PageTrue
    <3>2. /\ cancel' \in [Orders -> {"no", "asked", "sent"}] /\ cancel'[o] = "sent"
          /\ \A x \in Orders : cancel[x] = "sent" => cancel'[x] = "sent"
      BY <2>3 DEF Inv, PageTrue
    <3>3. ClosedStoreIsTrue'
      BY <2>1, <3>1, <3>2 DEF Inv, PageTrue, ClosedStoreIsTrue
    <3>4. \A x \in Orders : docs'[x] \in Finished => closed'[x] # "open"
      BY <2>1, <3>1 DEF Inv, PageTrue
    <3>5. /\ Own' \subseteq Orders /\ book' \subseteq Listed'
          /\ held' \subseteq Listed' /\ docs' \in OrderViews'
      BY <2>1 DEF Inv, PageTrue
    <3>6. pending' \subseteq Own' /\ \A x \in pending' : docs'[x] = "none"
      BY <2>1, <2>3 DEF Inv, PageTrue
    <3> QED
      BY <1>1, <3>1, <3>2, <3>3, <3>4, <3>5, <3>6 DEF PageTrue
  <2> QED
    BY <1>5, <2>2, <2>3 DEF FinishCancel
<1> QED
  BY <1>1, <1>2, <1>3, <1>4, <1>5

LEMMA BackendKeeps ==
    ASSUME Inv, Onward, Backend
    PROVE  NetTrue' /\ PageTrue'
<1>1. UNCHANGED pageVars /\ UNCHANGED <<mail, answer, load, loading>>
  BY DEF Backend, IndexOrder, CancelConfirmed, Reserve, SettlementSubmitted, TrackDirectly, RevertToLive, BotWrites, Fill, End, Change
<1>2. owed' \subseteq Channels \cup {"orders"}
  BY DEF Backend, IndexOrder, CancelConfirmed, Reserve, SettlementSubmitted, TrackDirectly, RevertToLive, BotWrites, Fill, End, Change, Mine, Channels, Inv,
     NetTrue
<1>3. NetTrue'
  BY <1>1, <1>2, NetStays DEF Inv, NetTrue
<1> QED
  BY <1>1, <1>3, PageStays

LEMMA InvStep == Inv /\ [Next]_vars => Inv'
<1> SUFFICES ASSUME Inv, [Next]_vars, Onward, BackendTrue' PROVE NetTrue' /\ PageTrue'
  BY StepsOnward DEF Inv
<1>1. CASE Backend
  BY <1>1, BackendKeeps
<1>2. CASE \/ \E k \in Kinds : Push(k)
           \/ \E k \in Requests : Poll(k)
           \/ \E part \in LoadParts : ReadPart(part)
           \/ \E o \in Orders : ReadStatus(o)
           \/ Fail \/ Reconnect
  <2>1. order' = order /\ ended' = ended /\ UNCHANGED pageVars
    BY <1>2 DEF backend, Push, Poll, ReadPart, ReadStatus, Fail, Reconnect
  <2> QED
    BY <1>2, <2>1, NetworkKeeps, PageStays
<1>3. ASSUME NEW k \in Kinds, NEW i \in DOMAIN mail[k], Deliver(k, i) PROVE NetTrue' /\ PageTrue'
  <2>1. order' = order /\ ended' = ended /\ cancel' = cancel
    BY <1>3 DEF Deliver, backend
  <2>2. NetTrue' /\ mail[k][i] \in Views(k)
    BY <1>3, <2>1, DeliveryKeepsNet
  <2>3. CASE k \in {"book", "refresh"} /\ ApplyBook(mail[k][i])
    BY <2>1, <2>2, <2>3, BookKeepsPage DEF Views
  <2>4. CASE k = "trades" /\ ApplyTrades(mail[k][i])
    BY <2>1, <2>2, <2>4, TradesKeepPage DEF Views
  <2>5. CASE k \in {"mine", "orders"} /\ ApplyDocs(mail[k][i])
    BY <2>1, <2>2, <2>5, DocsKeepPage DEF Views
  <2> QED
    BY <1>3, <2>2, <2>3, <2>4, <2>5 DEF Deliver
<1>4. ASSUME NEW o \in Orders, Answer(o) PROVE NetTrue' /\ PageTrue'
  <2>1. order' = order /\ ended' = ended
    BY <1>4 DEF Answer, backend
  <2> QED
    BY <1>4, <2>1, AnswerKeeps
<1>5. CASE Loaded
  <2>1. order' = order /\ ended' = ended
    BY <1>5 DEF Loaded, backend
  <2> QED
    BY <1>5, <2>1, LoadedKeeps
<1>6. ASSUME NEW o \in Orders, GiveUp(o) \/ (o \in Own /\ (PlaceOrder(o) \/ StartCancel(o) \/ FinishCancel(o)))
      PROVE NetTrue' /\ PageTrue'
  BY <1>6, UserKeeps
<1>7. CASE UNCHANGED vars
  BY <1>7, PageStays, NetStays DEF vars
<1> QED
  BY <1>1, <1>2, <1>3, <1>4, <1>5, <1>6, <1>7 DEF Next, Inv, PageTrue

---------------------------------------------------------------------------
(* The theorems about MarketView                                           *)

LEMMA InvImpliesTypeOK == Inv => TypeOK
<1> SUFFICES ASSUME Inv PROVE TypeOK
  OBVIOUS
<1>1. docs \in [Orders -> Statuses \ {"sent"}]
  BY DEF Inv, PageTrue, OrderViews
<1>2. book \subseteq Orders /\ held \subseteq Orders
  BY DEF Inv, PageTrue, Listed
<1> QED
  BY <1>1, <1>2 DEF Inv, BackendTrue, NetTrue, PageTrue, TypeOK

\* The state stays well typed; a received order is pending no more, and the
\* store knows the end of every own order that was received as ended.
THEOREM ViewsStayConsistent == Spec => []TypeOK
<1>1. Init => Inv
  BY InvInit
<1>2. Inv /\ [Next]_vars => Inv'
  BY InvStep
<1> QED
  BY <1>1, <1>2, InvImpliesTypeOK, PTL DEF Spec

\* No view, however old, and no answer puts an end on record that is not the
\* order's own, except a cancellation that was sent before the order was listed.
THEOREM RecordedEndsAreTrue == Spec => []ClosedStoreIsTrue
<1>1. Init => Inv
  BY InvInit
<1>2. Inv /\ [Next]_vars => Inv'
  BY InvStep
<1>3. Inv => ClosedStoreIsTrue
  BY DEF Inv, PageTrue
<1> QED
  BY <1>1, <1>2, <1>3, PTL DEF Spec

\* The store forgets nothing.
LEMMA EndsAreKept ==
    ASSUME Inv, [Next]_vars, NEW o \in Orders, closed[o] # "open"
    PROVE  closed'[o] # "open"
<1>1. /\ closed \in [Orders -> {"open"} \cup Finished]
      /\ \A orders : \A end \in Finished : Mark(closed, orders, end)[o] # "open"
  BY MarkKeeps DEF Inv, PageTrue
<1>2. \A orders, others : \A end, other \in Finished :
        Mark(Mark(closed, orders, end), others, other)[o] # "open"
  <2> SUFFICES ASSUME NEW orders, NEW others, NEW end \in Finished, NEW other \in Finished
               PROVE  Mark(Mark(closed, orders, end), others, other)[o] # "open"
    OBVIOUS
  <2>1. /\ Mark(closed, orders, end) \in [Orders -> {"open"} \cup Finished]
        /\ Mark(closed, orders, end)[o] # "open"
    BY <1>1, MarkKeeps
  <2> QED
    BY <2>1, MarkKeeps
<1> DEFINE Marked == \E orders : \E end \in Finished : closed' = Mark(closed, orders, end)
           MarkedTwice == \E orders, others : \E end, other \in Finished :
                            closed' = Mark(Mark(closed, orders, end), others, other)
<1>3. UNCHANGED closed \/ Marked \/ MarkedTwice
  <2>1. ASSUME NEW k \in Kinds, NEW i \in DOMAIN mail[k], Deliver(k, i)
        PROVE  UNCHANGED closed \/ Marked \/ MarkedTwice
    BY <2>1, StatusSets DEF Deliver, ApplyBook, ApplyTrades, ApplyDocs
  <2>2. CASE Loaded
    BY <2>2, StatusSets DEF Loaded
  <2>3. ASSUME NEW x \in Orders, Answer(x) PROVE UNCHANGED closed \/ Marked
    BY <2>3, StatusSets DEF Answer
  <2>4. ASSUME NEW x \in Own, FinishCancel(x) PROVE UNCHANGED closed \/ Marked
    BY <2>4, StatusSets DEF FinishCancel
  <2>5. \/ Loaded \/ UNCHANGED closed
        \/ \E k \in Kinds : \E i \in DOMAIN mail[k] : Deliver(k, i)
        \/ \E x \in Orders : Answer(x)
        \/ \E x \in Own : FinishCancel(x)
    BY DEF Next, Backend, IndexOrder, CancelConfirmed, Reserve, SettlementSubmitted, TrackDirectly, RevertToLive, BotWrites, Fill, End, Change, Fail, Reconnect,
       Push, Poll, ReadPart, ReadStatus, GiveUp, PlaceOrder, StartCancel, vars, pageVars
  <2> QED
    BY <2>1, <2>2, <2>3, <2>4, <2>5
<1> QED
  BY <1>1, <1>2, <1>3

\* An own order that was shown as ended is never shown as open again, whatever
\* views of it arrive later.
THEOREM EndsAreNotTakenBack == Spec => EndedOrdersStayEnded
<1>1. Init => Inv
  BY InvInit
<1>2. Inv /\ [Next]_vars => Inv'
  BY InvStep
<1>3. Inv /\ [Next]_vars => [\A o \in Orders : ShownEnded(o) => ~ShownOpen(o)']_vars
  <2> SUFFICES ASSUME Inv, [Next]_vars, NEW o \in Orders, ShownEnded(o) PROVE ~ShownOpen(o)'
    OBVIOUS
  <2>1. closed[o] # "open"
    BY StatusSets DEF ShownEnded, Effective, Inv, PageTrue
  <2>2. closed'[o] # "open" /\ closed'[o] \in {"open"} \cup Finished
    BY <1>2, <2>1, EndsAreKept DEF Inv, PageTrue
  <2> QED
    BY <2>2, StatusSets DEF ShownOpen, Effective
<1> QED
  BY <1>1, <1>2, <1>3, PTL DEF Spec, EndedOrdersStayEnded

\* A row leaves the book only when the page knows the end of its order, the
\* backend said that it is not settling, or the page has waited too long.
THEOREM RowsAreKept == Spec => RowsWaitForTheirEnd
<1>1. Init => Inv
  BY InvInit
<1>2. Inv /\ [Next]_vars => Inv'
  BY InvStep
<1>3. Inv /\ [Next]_vars =>
        [\A o \in Orders :
           (ShownInBook(o) /\ ~ShownInBook(o)') =>
             \/ closed'[o] # "open"
             \/ answer[o] = "live" /\ Answer(o)
             \/ GiveUp(o)]_vars
  <2> SUFFICES ASSUME Inv, [Next]_vars, NEW o \in Orders, ShownInBook(o), ~ShownInBook(o)',
                      closed'[o] = "open", ~(answer[o] = "live" /\ Answer(o)), ~GiveUp(o)
               PROVE  FALSE
    OBVIOUS
  <2>1. closed[o] = "open" /\ (o \in book \/ o \in held) /\ o \notin book' /\ o \notin held'
    BY DEF ShownInBook
  <2>2. ASSUME NEW k \in Kinds, NEW i \in DOMAIN mail[k], Deliver(k, i) PROVE FALSE
    BY <2>1, <2>2 DEF Deliver, ApplyBook, ApplyTrades, ApplyDocs, HeldAfter, Left
  <2>3. CASE Loaded
    BY <2>1, <2>3 DEF Loaded, HeldAfter, Left
  <2>4. ASSUME NEW x \in Orders, Answer(x) PROVE FALSE
    <3>1. x = o /\ answer[o] \notin InFlight /\ answer[o] # "live"
      BY <2>1, <2>4 DEF Answer
    <3>2. \E end \in Finished : closed' = Mark(closed, {o}, end)
      BY <2>4, <3>1, StatusSets DEF Answer
    <3> QED
      BY <2>1, <3>2, MarkKeeps, StatusSets DEF Inv, PageTrue
  <2>5. ASSUME NEW x \in Orders, GiveUp(x) PROVE FALSE
    BY <2>1, <2>5 DEF GiveUp
  <2>6. CASE UNCHANGED <<book, held>>
    BY <2>1, <2>6
  <2> QED
    BY <2>2, <2>3, <2>4, <2>5, <2>6
       DEF Next, Backend, IndexOrder, CancelConfirmed, Reserve, SettlementSubmitted, TrackDirectly, RevertToLive, BotWrites, Fill, End, Change, Fail, Reconnect,
       Push, Poll, ReadPart, ReadStatus, FinishCancel, PlaceOrder, StartCancel, vars, pageVars
<1> QED
  BY <1>1, <1>2, <1>3, PTL DEF Spec, RowsWaitForTheirEnd

---------------------------------------------------------------------------
(* Balances                                                                *)

Witnessed ==
    /\ \A e \in balance.includes : status[e] = "indexed"
    /\ \A e \in refresh.read.includes : status[e] = "indexed"
    /\ \A t \in OwnTxs : \A e \in settleRead[t].includes : status[e] = "indexed"

ReadsSigner == refresh.read = Unread \/ refresh.read.of = signer

---------------------------------------------------------------------------
(* Types of balances                                                       *)

LEMMA ReadsAreBalances ==
    /\ Unread \in Balances
    /\ \A w \in Wallets : Indexed(w) \in Balances
BY DEF Unread, Balances, Indexed

LEMMA TypesInit == WalletInit => WalletTypeOK
BY WalletConstants, ReadsAreBalances DEF WalletInit, WalletTypeOK, NoRefresh, Effects

LEMMA SwitchTypes ==
    ASSUME WalletTypeOK, NEW w \in Wallets \cup {NoWallet}, Switch(w)
    PROVE  WalletTypeOK'
<1>1. refresh' \in [phase: {"none", "sent", "answered"}, read: Balances]
  <2>1. [Unread EXCEPT !.of = w] \in Balances
    BY DEF Unread, Balances
  <2> QED
    BY <2>1, ReadsAreBalances DEF Switch, StartRefresh, NoRefresh
<1>2. signer' \in Wallets \cup {NoWallet} /\ balance' \in Balances /\ switches' \in Nat
  BY ReadsAreBalances DEF Switch, WalletTypeOK
<1>3. pendingTxs' \subseteq pendingTxs /\ UNCHANGED <<step, settleRead, status, failures>>
  BY DEF Switch
<1> QED
  BY <1>1, <1>2, <1>3 DEF WalletTypeOK

LEMMA RefreshTypes ==
    ASSUME WalletTypeOK, (\E changed \in BOOLEAN : Refresh(changed)) \/ AnswerRefresh \/ ApplyRefresh
    PROVE  WalletTypeOK'
<1>1. CASE \E changed \in BOOLEAN : Refresh(changed)
  <2>1. [Unread EXCEPT !.of = signer] \in Balances
    BY DEF Unread, Balances, WalletTypeOK
  <2> QED
    BY <1>1, <2>1 DEF Refresh, StartRefresh, WalletTypeOK
<1>2. CASE AnswerRefresh
  <2>1. PICK read \in {Indexed(refresh.read.of), Unread} :
          Answers(refresh.read.of, read) /\ refresh' = [phase |-> "answered", read |-> read]
    BY <1>2 DEF AnswerRefresh
  <2>2. read \in Balances
    BY <2>1 DEF WalletTypeOK, Unread, Balances, Indexed
  <2>3. failures' \in Nat
    BY <2>1 DEF Answers, WalletTypeOK
  <2> QED
    BY <1>2, <2>1, <2>2, <2>3 DEF AnswerRefresh, WalletTypeOK
<1>3. CASE ApplyRefresh
  BY <1>3, ReadsAreBalances DEF ApplyRefresh, NoRefresh, WalletTypeOK
<1> QED
  BY <1>1, <1>2, <1>3

LEMMA OwnTypes ==
    ASSUME WalletTypeOK, NEW t \in OwnTxs,
           \/ Begin(t) \/ Accept(t) \/ Track(t) \/ SendFails(t)
           \/ WaitOver(t) \/ AnswerSettle(t) \/ Settle(t)
    PROVE  WalletTypeOK'
<1>1. CASE Begin(t)
  BY <1>1 DEF Begin, GoTo, WalletTypeOK
<1>2. CASE Accept(t) \/ Track(t) \/ SendFails(t)
  BY <1>2 DEF Accept, Track, SendFails, GoTo, page, WalletTypeOK, Effects
<1>3. CASE WaitOver(t)
  BY <1>3 DEF WaitOver, GoTo, WalletTypeOK
<1>4. CASE AnswerSettle(t)
  <2>1. PICK read \in {Indexed(OwnerOf[t]), Unread} :
          Answers(OwnerOf[t], read) /\ settleRead' = [settleRead EXCEPT ![t] = read]
    BY <1>4 DEF AnswerSettle
  <2>2. read \in Balances
    BY <2>1, ReadsAreBalances, WalletConstants
  <2>3. failures' \in Nat
    BY <2>1 DEF Answers, WalletTypeOK
  <2> QED
    BY <1>4, <2>1, <2>2, <2>3 DEF AnswerSettle, GoTo, WalletTypeOK
<1>5. CASE Settle(t)
  BY <1>5, ReadsAreBalances DEF Settle, GoTo, WalletTypeOK
<1> QED
  BY <1>1, <1>2, <1>3, <1>4, <1>5

LEMMA TypesStep == WalletTypeOK /\ [WalletNext]_walletVars => WalletTypeOK'
<1> SUFFICES ASSUME WalletTypeOK, [WalletNext]_walletVars PROVE WalletTypeOK'
  OBVIOUS
<1>1. CASE Chain
  BY <1>1 DEF Chain, Commit, Index, page, WalletTypeOK
<1>2. CASE UNCHANGED walletVars
  BY <1>2 DEF walletVars, page, WalletTypeOK
<1> QED
  BY <1>1, <1>2, SwitchTypes, RefreshTypes, OwnTypes DEF WalletNext

---------------------------------------------------------------------------
(* What balances include                                                   *)

WalletInv == WalletTypeOK /\ Witnessed /\ ReadsSigner

LEMMA ReadsAreWitnessed ==
    /\ Unread.includes = {}
    /\ \A w : \A e \in Indexed(w).includes : status[e] = "indexed"
BY DEF Unread, Indexed

LEMMA WalletInvInit == WalletInit => WalletInv
<1> SUFFICES ASSUME WalletInit PROVE WalletInv
  OBVIOUS
<1>1. Witnessed
  BY ReadsAreWitnessed DEF WalletInit, Witnessed, NoRefresh
<1>2. ReadsSigner
  BY DEF WalletInit, ReadsSigner, NoRefresh
<1> QED
  BY <1>1, <1>2, TypesInit DEF WalletInv

\* Effects are indexed for good.
LEMMA IndexedStays ==
    ASSUME WalletInv, [WalletNext]_walletVars, NEW e \in Effects, status[e] = "indexed"
    PROVE  status'[e] = "indexed"
<1>1. CASE Chain
  BY <1>1 DEF Chain, Commit, Index, WalletInv, WalletTypeOK
<1>2. ASSUME NEW t \in OwnTxs, Accept(t) PROVE status'[e] = "indexed"
  BY <1>2 DEF Accept, WalletInv, WalletTypeOK
<1>3. CASE UNCHANGED status
  BY <1>3
<1> QED
  BY <1>1, <1>2, <1>3
     DEF WalletNext, walletVars, Switch, Refresh, AnswerRefresh, ApplyRefresh, Begin, Track, SendFails, WaitOver, AnswerSettle, Settle

LEMMA WitnessedStep ==
    ASSUME WalletInv, [WalletNext]_walletVars
    PROVE  Witnessed'
<1> DEFINE Shown(b) == \A e \in b.includes : status[e] = "indexed"
<1>1. \A b \in Balances : Shown(b) => \A e \in b.includes : status'[e] = "indexed"
  BY IndexedStays DEF Balances
<1>2. Shown(Unread) /\ \A w : Shown(Indexed(w)) /\ Shown([Unread EXCEPT !.of = w])
  BY ReadsAreWitnessed DEF Unread
<1>3. Shown(balance) /\ Shown(refresh.read) /\ \A t \in OwnTxs : Shown(settleRead[t])
  BY DEF WalletInv, Witnessed
<1>4. /\ balance \in Balances /\ refresh.read \in Balances /\ \A t \in OwnTxs : settleRead[t] \in Balances
      /\ balance' \in Balances /\ refresh'.read \in Balances /\ \A t \in OwnTxs : settleRead'[t] \in Balances
  BY TypesStep DEF WalletInv, WalletTypeOK
<1>5. Shown(balance')
  <2>1. balance' \in {balance, Unread, refresh.read} \cup {settleRead[t] : t \in OwnTxs}
    BY DEF WalletNext, Switch, Refresh, AnswerRefresh, ApplyRefresh, Begin, Accept, Track, SendFails, WaitOver,
           AnswerSettle, Settle, Chain, Commit, Index, page, walletVars
  <2> QED
    BY <2>1, <1>2, <1>3
<1>6. Shown(refresh'.read)
  <2>1. \/ refresh'.read \in {refresh.read, Unread}
        \/ \E w : refresh'.read \in {Indexed(w), [Unread EXCEPT !.of = w]}
    BY DEF WalletNext, Switch, StartRefresh, NoRefresh, Refresh, AnswerRefresh, ApplyRefresh, Begin, Accept, Track,
           SendFails, WaitOver, AnswerSettle, Settle, Chain, Commit, Index, page, walletVars
  <2> QED
    BY <2>1, <1>2, <1>3
<1>7. ASSUME NEW t \in OwnTxs PROVE Shown(settleRead'[t])
  <2>1. CASE UNCHANGED settleRead
    BY <2>1, <1>3
  <2>2. ASSUME NEW x \in OwnTxs, AnswerSettle(x) \/ Settle(x) PROVE Shown(settleRead'[t])
    <3>1. \E w : settleRead' \in {[settleRead EXCEPT ![x] = Indexed(w)], [settleRead EXCEPT ![x] = Unread]}
      BY <2>2 DEF AnswerSettle, Settle
    <3> QED
      BY <3>1, <1>2, <1>3 DEF WalletInv, WalletTypeOK
  <2> QED
    BY <2>1, <2>2
       DEF WalletNext, Switch, Refresh, AnswerRefresh, ApplyRefresh, Begin, Accept, Track, SendFails, WaitOver,
           Chain, Commit, Index, page, walletVars
<1> HIDE DEF Shown
<1> QED
  BY <1>1, <1>4, <1>5, <1>6, <1>7 DEF Witnessed

LEMMA ReadsSignerStep ==
    ASSUME WalletInv, [WalletNext]_walletVars
    PROVE  ReadsSigner'
<1>1. ASSUME NEW w \in Wallets \cup {NoWallet}, Switch(w) PROVE ReadsSigner'
  BY <1>1 DEF Switch, StartRefresh, NoRefresh, Unread, ReadsSigner
<1>2. CASE \E changed \in BOOLEAN : Refresh(changed)
  BY <1>2 DEF Refresh, StartRefresh, Unread, ReadsSigner
<1>3. CASE AnswerRefresh
  <2>1. refresh'.read = Unread \/ refresh'.read = Indexed(refresh.read.of)
    BY <1>3 DEF AnswerRefresh
  <2>2. signer' = signer
    BY <1>3 DEF AnswerRefresh
  <2>3. Indexed(NoWallet) = Unread
    BY WalletConstants DEF Indexed, Unread, Effects
  <2>4. Indexed(signer).of = signer /\ Unread.of = NoWallet
    BY DEF Indexed, Unread
  <2> QED
    BY <2>1, <2>2, <2>3, <2>4 DEF ReadsSigner, WalletInv
<1>4. CASE ApplyRefresh
  BY <1>4 DEF ApplyRefresh, NoRefresh, ReadsSigner
<1>5. CASE UNCHANGED <<signer, refresh>>
  BY <1>5 DEF WalletInv, ReadsSigner
<1> QED
  BY <1>1, <1>2, <1>3, <1>4, <1>5
     DEF WalletNext, walletVars, page, Begin, Accept, Track, SendFails, WaitOver, AnswerSettle, Settle, Chain, Commit, Index

LEMMA WalletInvStep == WalletInv /\ [WalletNext]_walletVars => WalletInv'
BY TypesStep, WitnessedStep, ReadsSignerStep DEF WalletInv

---------------------------------------------------------------------------
(* The theorems about WalletBalances                                       *)

LEMMA CountedStep ==
    WalletInv /\ [WalletNext]_walletVars =>
      [\A t \in CountedTwice' \ CountedTwice :
         \/ step[t] = "sending" /\ status[t] = "indexed"
         \/ \E other \in OwnTxs \ {t} : step[other] = "read" /\ step'[other] = "settled"]_walletVars
<1> SUFFICES ASSUME WalletInv, [WalletNext]_walletVars, NEW t \in CountedTwice' \ CountedTwice,
                    ~(step[t] = "sending" /\ status[t] = "indexed")
             PROVE  \E other \in OwnTxs \ {t} : step[other] = "read" /\ step'[other] = "settled"
  OBVIOUS
<1>1. /\ t \in pendingTxs' /\ t \in balance'.includes /\ t \notin pendingTxs \cap balance.includes
      /\ t \in OwnTxs
  BY TypesStep DEF CountedTwice, WalletInv, WalletTypeOK
<1>2. ASSUME NEW x \in OwnTxs, Track(x) PROVE FALSE
  <2>1. t = x /\ t \in balance.includes
    BY <1>1, <1>2 DEF Track
  <2> QED
    BY <1>2, <2>1 DEF Track, WalletInv, Witnessed
<1>3. ASSUME NEW x \in OwnTxs, Settle(x)
      PROVE  step[x] = "read" /\ step'[x] = "settled" /\ x # t
  BY <1>1, <1>3 DEF Settle, GoTo, WalletInv, WalletTypeOK
<1>4. CASE \E w \in Wallets \cup {NoWallet} : Switch(w)
  BY <1>1, <1>4 DEF Switch
<1>5. CASE ApplyRefresh
  BY <1>1, <1>5 DEF ApplyRefresh
<1>6. CASE UNCHANGED <<balance, pendingTxs>>
  BY <1>1, <1>6
<1> QED
  BY <1>2, <1>3, <1>4, <1>5, <1>6
     DEF WalletNext, walletVars, page, Refresh, AnswerRefresh, Begin, Accept, SendFails, WaitOver, AnswerSettle,
         Chain, Commit, Index

\* A transaction comes to be counted twice, as a delta and in the balance under
\* it, only by a send answered after the indexer had reported it, or by another
\* one's settlement: never by a periodic read or a change of wallet.
THEOREM RefreshesCountOnce == WalletSpec => OnlyLateAnswersCountTwice
<1>1. WalletInit => WalletInv
  BY WalletInvInit
<1>2. WalletInv /\ [WalletNext]_walletVars => WalletInv'
  BY WalletInvStep
<1> QED
  BY <1>1, <1>2, CountedStep, PTL DEF WalletSpec, OnlyLateAnswersCountTwice

LEMMA ForeignStep ==
    WalletInv /\ [WalletNext]_walletVars =>
      [balance'.of \notin {balance.of, NoWallet, signer'} =>
         \E t \in OwnTxs : step[t] = "read" /\ step'[t] = "settled"]_walletVars
<1> SUFFICES ASSUME WalletInv, [WalletNext]_walletVars, balance'.of \notin {balance.of, NoWallet, signer'}
             PROVE  \E t \in OwnTxs : step[t] = "read" /\ step'[t] = "settled"
  OBVIOUS
<1>1. ASSUME NEW w \in Wallets \cup {NoWallet}, Switch(w) PROVE FALSE
  BY <1>1 DEF Switch, Unread
<1>2. CASE ApplyRefresh
  BY <1>2 DEF ApplyRefresh, WalletInv, ReadsSigner
<1>3. ASSUME NEW t \in OwnTxs, Settle(t) PROVE step[t] = "read" /\ step'[t] = "settled"
  BY <1>3 DEF Settle, GoTo, WalletInv, WalletTypeOK
<1>4. CASE UNCHANGED balance
  BY <1>4
<1> QED
  BY <1>1, <1>2, <1>3, <1>4
     DEF WalletNext, walletVars, page, Refresh, AnswerRefresh, Begin, Accept, Track, SendFails, WaitOver, AnswerSettle, Chain, Commit, Index

\* The periodic read never shows the balance of a wallet that is not connected.
THEOREM RefreshesAreOfTheSigner == WalletSpec => NoForeignRefresh
<1>1. WalletInit => WalletInv
  BY WalletInvInit
<1>2. WalletInv /\ [WalletNext]_walletVars => WalletInv'
  BY WalletInvStep
<1> QED
  BY <1>1, <1>2, ForeignStep, PTL DEF WalletSpec, NoForeignRefresh

\* The state is well typed, and a delta belongs to a transaction that is still
\* being settled.
THEOREM DeltasAreTemporary == WalletSpec => []WalletTypeOK
<1> QED
  BY TypesInit, TypesStep, PTL DEF WalletSpec
=============================================================================
