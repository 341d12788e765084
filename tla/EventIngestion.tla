-------------------------- MODULE EventIngestion --------------------------
(***************************************************************************)
(* The projection of the chain in MongoDB and the one door to it:          *)
(* EventIngestionService.ingest (services/event-ingestion.ts), which drops *)
(* duplicates, checks the event against the chain                          *)
(* (services/event-verification.ts) and applies it in one transaction      *)
(* together with the record that makes a redelivery a duplicate.           *)
(*                                                                         *)
(* The state is one value, the database, so that code which ingests        *)
(* several events in a row reads as nested operators.  Order terms, audit  *)
(* rows of failed events and realtime pushes are left out; the statuses no *)
(* code ever assigns (DISCOVERED, SETTLEMENT_SUBMITTED, INVALID,           *)
(* CANCELLED) too.                                                         *)
(***************************************************************************)
EXTENDS CkbChain

CONSTANT confirmationDepth   \* blocks, the event's own included, above which a block counts

ASSUME DepthAssumption == confirmationDepth \in Nat \ {0}

VARIABLE db   \* orders, trades and the ids of processed events

NoBlock == <<>>

NotIndexed == [status |-> "NOT_INDEXED", created |-> NoBlock, spent |-> NoBlock,
               pendingTx |-> NoTx, reservedUntil |-> "none"]
NoTrade == [status |-> "NONE", block |-> NoBlock]

Statuses == {"NOT_INDEXED", "LIVE", "RESERVED", "PENDING", "FILLED", "CANCELED", "ORPHANED"}

allowedTransitions ==
    [status \in Statuses |->
       CASE status = "LIVE"     -> {"RESERVED", "PENDING", "CANCELED", "FILLED", "ORPHANED"}
         [] status = "RESERVED" -> {"LIVE", "PENDING", "CANCELED", "FILLED", "ORPHANED"}
         [] status = "PENDING"  -> {"LIVE", "CANCELED", "FILLED", "ORPHANED"}
         [] status \in {"FILLED", "CANCELED"} -> {"ORPHANED"}
         [] status = "ORPHANED" -> {"LIVE", "CANCELED", "FILLED"}
         [] OTHER               -> {}]

Indexed(d, o) == d.orders[o].status # "NOT_INDEXED"
CanTransition(d, o, next) == next \in allowedTransitions[d.orders[o].status]

---------------------------------------------------------------------------
(* Events.  The id of a chain-reorg names the reverted block and not the    *)
(* ancestor; that of a settlement-submitted names the transaction only.     *)

OrderConfirmed(o) == [type |-> "order-confirmed", tx |-> Create(o),
                      block |-> BlockOf(Create(o)), ancestor |-> 0]
SpendConfirmed(tx) == [type |-> IF tx.kind = "cancel" THEN "order-cancelled"
                                ELSE "trade-confirmed",
                       tx |-> tx, block |-> BlockOf(tx), ancestor |-> 0]
SettlementSubmitted(tx) == [type |-> "settlement-submitted", tx |-> tx,
                            block |-> NoBlock, ancestor |-> 0]
ChainReorg(reverted, ancestor) == [type |-> "chain-reorg", tx |-> NoTx,
                                   block |-> reverted, ancestor |-> ancestor]

\* The parts of the bot's template strings (index.ts:235, 364, 533, 692, 778, 806).
EventId(e) == <<e.type, e.tx, e.block>>
OrderOf(e) == CHOOSE o \in e.tx.of : TRUE

---------------------------------------------------------------------------
(* verifyEvent: "ok", "retry" (409, not buried yet) or "reject" (422)       *)

RequireConfirmed(e) ==
    CASE ~Committed(e.tx) \/ e.block # BlockOf(e.tx)       -> "reject"
      [] Tip - Len(e.block) + 1 < confirmationDepth        -> "retry"
      [] OTHER                                             -> "ok"

VerifyEvent(d, e) ==
    CASE e.type = "order-confirmed" -> RequireConfirmed(e)
      [] e.type \in {"order-cancelled", "trade-confirmed"} ->
           IF \E o \in e.tx.of : ~Indexed(d, o) THEN "ok" ELSE RequireConfirmed(e)
      [] e.type = "settlement-submitted" ->
           IF e.tx \in pool \/ Committed(e.tx) THEN "ok" ELSE "reject"
      [] e.type = "chain-reorg" ->
           IF e.ancestor >= Len(e.block) \/ Canonical(e.block) THEN "reject" ELSE "ok"

---------------------------------------------------------------------------
(* applyEvent: the database after the event, ignored or not                *)

WithOrders(d, changed) == [d EXCEPT !.orders = [o \in Orders |->
                             IF o \in DOMAIN changed THEN changed[o] ELSE @[o]]]

ApplyOrderConfirmed(d, e) ==
    LET o == OrderOf(e)
        known == Indexed(d, o) /\ d.orders[o].status # "ORPHANED"
    IN  IF known /\ d.orders[o].created = e.block
        THEN d
        ELSE [d EXCEPT !.orders[o] = [NotIndexed EXCEPT !.status = "LIVE", !.created = e.block]]

ApplyOrderCancelled(d, e) ==
    LET o == OrderOf(e)
    IN  IF ~Indexed(d, o) THEN d
        ELSE [d EXCEPT !.orders[o].status = "CANCELED", !.orders[o].spent = e.block]

\* Mutant: the status the schema still lists for a submitted settlement.
ApplySettlementSubmittedOldStatus(d, e) ==
    IF \E o \in e.tx.of : ~Indexed(d, o) \/ ~CanTransition(d, o, "PENDING") THEN d
    ELSE WithOrders(d, [o \in e.tx.of |->
           [d.orders[o] EXCEPT !.status = "SETTLEMENT_SUBMITTED", !.pendingTx = e.tx]])

ApplySettlementSubmitted(d, e) ==
    IF \E o \in e.tx.of : ~Indexed(d, o) \/ ~CanTransition(d, o, "PENDING") THEN d
    ELSE WithOrders(d, [o \in e.tx.of |->
           [d.orders[o] EXCEPT !.status = "PENDING", !.pendingTx = e.tx]])

\* Mutant: the orders keep the settlement they were waiting for, even when
\* another one won.
ApplyTradeConfirmedKeepTx(d, e) ==
    IF \E o \in e.tx.of : ~Indexed(d, o) \/ ~CanTransition(d, o, "FILLED") THEN d
    ELSE [WithOrders(d, [o \in e.tx.of |->
            [d.orders[o] EXCEPT !.status = "FILLED", !.spent = e.block]])
          EXCEPT !.trades[e.tx] = [status |-> "CONFIRMED", block |-> e.block]]

\* Mutant: the trade is on record even when an order is not indexed yet.
ApplyTradeConfirmedUnindexed(d, e) ==
    IF \E o \in e.tx.of : Indexed(d, o) /\ ~CanTransition(d, o, "FILLED") THEN d
    ELSE [WithOrders(d, [o \in {x \in e.tx.of : Indexed(d, x)} |->
            [d.orders[o] EXCEPT !.status = "FILLED", !.spent = e.block, !.pendingTx = e.tx]])
          EXCEPT !.trades[e.tx] = [status |-> "CONFIRMED", block |-> e.block]]

ApplyTradeConfirmed(d, e) ==
    IF \E o \in e.tx.of : ~Indexed(d, o) \/ ~CanTransition(d, o, "FILLED") THEN d
    ELSE [WithOrders(d, [o \in e.tx.of |->
            [d.orders[o] EXCEPT !.status = "FILLED", !.spent = e.block, !.pendingTx = e.tx]])
          EXCEPT !.trades[e.tx] = [status |-> "CONFIRMED", block |-> e.block]]

\* What a rollback undoes: orders created above the ancestor, orders only
\* spent above it, trades confirmed above it.
CreatedAbove(d, ancestor) ==
    {o \in Orders : /\ Indexed(d, o) /\ d.orders[o].status # "ORPHANED"
                    /\ Len(d.orders[o].created) > ancestor}

\* Mutant: the first reverted block is taken for a common one.
SpentAboveOffByOne(d, ancestor) ==
    {o \in Orders : /\ d.orders[o].status \in {"FILLED", "CANCELED"}
                    /\ Len(d.orders[o].spent) > ancestor + 1}

SpentAbove(d, ancestor) ==
    {o \in Orders : /\ d.orders[o].status \in {"FILLED", "CANCELED"}
                    /\ Len(d.orders[o].spent) > ancestor}

TradesAfterRollback(d, ancestor) ==
    [tx \in Settlements |->
       IF d.trades[tx].status = "CONFIRMED" /\ Len(d.trades[tx].block) > ancestor
       THEN [d.trades[tx] EXCEPT !.status = "REVERTED"] ELSE d.trades[tx]]

\* An order created above the ancestor is orphaned, one only spent there is
\* live again.
ApplyChainReorg(d, e) ==
    LET orphaned == CreatedAbove(d, e.ancestor)
        reopened == SpentAbove(d, e.ancestor) \ orphaned
        released(o) == [d.orders[o] EXCEPT !.reservedUntil = "none", !.pendingTx = NoTx]
        rolledBack(o) == IF o \in orphaned THEN [released(o) EXCEPT !.status = "ORPHANED"]
                         ELSE [released(o) EXCEPT !.status = "LIVE", !.spent = NoBlock]
    IN  [WithOrders(d, [o \in orphaned \cup reopened |-> rolledBack(o)])
         EXCEPT !.trades = TradesAfterRollback(d, e.ancestor)]

ApplyEvent(d, e) ==
    CASE e.type = "order-confirmed"      -> ApplyOrderConfirmed(d, e)
      [] e.type = "order-cancelled"      -> ApplyOrderCancelled(d, e)
      [] e.type = "settlement-submitted" -> ApplySettlementSubmitted(d, e)
      [] e.type = "trade-confirmed"      -> ApplyTradeConfirmed(d, e)
      [] e.type = "chain-reorg"          -> ApplyChainReorg(d, e)

\* updateOrderStatus throws on a forbidden transition; only a cancellation can.
Throws(d, e) ==
    e.type = "order-cancelled" /\ Indexed(d, OrderOf(e)) /\ ~CanTransition(d, OrderOf(e), "CANCELED")

\* ingest, as its caller sees it: "done" (applied, ignored or duplicate),
\* "retry" (409) or "error" (any other exception).
Outcome(d, e) ==
    CASE EventId(e) \in d.processed       -> "done"
      [] VerifyEvent(d, e) = "reject"     -> "error"
      [] VerifyEvent(d, e) = "retry"      -> "retry"
      [] Throws(d, e)                     -> "error"
      [] OTHER                            -> "done"

\* The database after ingest: an event that was ignored is a processed one too.
Ingested(d, e) ==
    IF EventId(e) \in d.processed \/ Outcome(d, e) # "done" THEN d
    ELSE [ApplyEvent(d, e) EXCEPT !.processed = @ \cup {EventId(e)}]

---------------------------------------------------------------------------
(* Types of the stored documents                                           *)

OrderDocs == [status: Statuses, created: Hashes, spent: Hashes,
              pendingTx: Settlements \cup {NoTx}, reservedUntil: {"none", "running", "due"}]
TradeDocs == [status: {"NONE", "CONFIRMED", "REVERTED"}, block: Hashes]
EventTypes == {"order-confirmed", "order-cancelled", "settlement-submitted",
               "trade-confirmed", "chain-reorg"}
EventIds == EventTypes \X (Transactions \cup {NoTx}) \X Hashes
Databases == [orders: [Orders -> OrderDocs], trades: [Settlements -> TradeDocs],
              processed: SUBSET EventIds]

IngestionInit ==
    db = [orders    |-> [o \in Orders |-> NotIndexed],
          trades    |-> [tx \in Settlements |-> NoTrade],
          processed |-> {}]
===========================================================================
