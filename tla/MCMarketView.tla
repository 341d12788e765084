---------------------------- MODULE MCMarketView ----------------------------
(* Instance of MarketView for TLC: one order, which is the wallet's, or not.  *)
EXTENDS MarketView

\* A view of the own orders that was requested may overtake one that was
\* pushed; the book is requested by the first load only.
MCMaxMail == [k \in Kinds |-> IF k = "refresh" THEN 0 ELSE 1]

\* The order is another's where the first load is under way; where it has
\* failed, the order is another's or the wallet's.  The request of the start is
\* still out where the order was listed before the page was opened.
MCInit ==
    /\ Init /\ (loading => Own = {})
    /\ "orders" \in owed <=> Own \cap Listed # {} /\ pending = {}

\* Bound: the bot makes an order LIVE or PENDING again after its end only while
\* the page has no submitted row, no cancellation of one, and no request for the
\* own orders under way.
ReleasedWhileQuiet ==
    (\E o \in stale : o \notin stale') =>
      pending = {} /\ mail["orders"] = <<>> /\ \A o \in Orders : cancel[o] = "no"

MCNext == Next /\ ReleasedWhileQuiet
MCSpec == MCInit /\ [][MCNext]_vars /\ Fairness
=============================================================================
