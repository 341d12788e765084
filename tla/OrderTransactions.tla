------------------------- MODULE OrderTransactions -------------------------
(***************************************************************************)
(* The transactions the project's programs build around the order lock:    *)
(* the settlements of the bot (executeTrade) and of offchain/fill-order,   *)
(* and the orders and cancellations of the UI (services/ckb/dex.js), with  *)
(* the capacity rule they share (shared/settlement-capacity.mjs).          *)
(*                                                                         *)
(* The lock validates, these programs build: each repeats a part of the    *)
(* other's arithmetic, and what one builds the other must accept.          *)
(*                                                                         *)
(* Abstractions: the network fee is any number a builder may estimate; the *)
(* size of a cell, in the capacity it must hold, is one constant per kind  *)
(* of cell; a builder that throws (RangeError, AppError) and one that       *)
(* returns undefined have both refused.                                    *)
(***************************************************************************)
EXTENDS DexOrderLock

CONSTANTS
    TokenCellCapacity,   \* occupied capacity of a user's token cell
    SellOrderCapacity,   \* occupied capacity of a sell order's cell
    Fees                 \* fees a builder may estimate

ASSUME BuilderConstants ==
    TokenCellCapacity \in Nat \ {0} /\ SellOrderCapacity \in Nat /\ Fees \subseteq Nat

Side(id) == orders[id].args.side
Maker(id) == orders[id].args.maker

---------------------------------------------------------------------------
(* What the indexer lets into the book                                     *)

\* The checks of indexOrderCell on the cell itself.
Indexable(cell) ==
    /\ Parses(cell.args)
    /\ cell.args.side = SELL =>
         cell.type = cell.args.xudt /\ cell.data # Short /\ cell.data = cell.args.amount
    /\ cell.args.side = BUY =>
         cell.type = NoType /\ cell.capacity > cell.args.price

---------------------------------------------------------------------------
(* Settlement                                                              *)

Refused == -1

\* Mutant: the contract's fee cap is left to the contract.
AllocateSettlementCapacityUncapped(buyCapacity, price, fee) ==
    IF buyCapacity - price - fee < TokenCellCapacity THEN Refused ELSE buyCapacity - price - fee

\* The capacity of the buyer's token cell: everything but price and fee.
AllocateSettlementCapacity(buyCapacity, price, fee) ==
    LET tokenCapacity == buyCapacity - price - fee
    IN  IF fee > MAX_SETTLEMENT_FEE \/ tokenCapacity < TokenCellCapacity
        THEN Refused ELSE tokenCapacity

TokenCapacity(b, s, fee) ==
    AllocateSettlementCapacity(orders[b].capacity, orders[s].args.price, fee)

\* The seller's payment must be a u64 to be written down at all.
SellerPayment(s) == orders[s].capacity + orders[s].args.price

\* What the builders check before they send.
Settles(b, s, fee) ==
    /\ Side(b) = BUY /\ Side(s) = SELL
    /\ MatchingTerms(orders[b].args, orders[s].args)
    /\ SellerPayment(s) <= MaxU64
    /\ TokenCapacity(b, s, fee) # Refused

\* Nobody signs: the two orders are the only inputs.
Settlement(b, s, fee) ==
    [spends |-> {b, s}, signers |-> {},
     outputs |-> <<[lock |-> Maker(s), type |-> NoType, data |-> Short,
                    capacity |-> SellerPayment(s)],
                   [lock |-> Maker(b), type |-> orders[s].type, data |-> orders[s].data,
                    capacity |-> TokenCapacity(b, s, fee)]>>]

---------------------------------------------------------------------------
(* What the UI builds                                                      *)

\* Mutant: nothing is set aside for the settlement's fee.
BuyOrderCapacityNoReserve(price) == price + TokenCellCapacity

SETTLEMENT_FEE_RESERVE == 2 * MAX_SETTLEMENT_FEE
BuyOrderCapacity(price) == price + TokenCellCapacity + SETTLEMENT_FEE_RESERVE

\* The order cell of buildCreateOrderTx.
CreateOrderCell(args) ==
    IF args.side = SELL
    THEN [args |-> args, type |-> args.xudt, data |-> args.amount,
          capacity |-> SellOrderCapacity]
    ELSE [args |-> args, type |-> NoType, data |-> Short,
          capacity |-> BuyOrderCapacity(args.price)]

OwnOrder(id) ==
    Live(id) /\ Parses(orders[id].args) /\ orders[id] = CreateOrderCell(orders[id].args)

\* buildCancelOrderTx: a buy order is refunded as a plain cell.
CancelOrder(id) ==
    LET order == orders[id]
        sell  == order.args.side = SELL
    IN  [spends |-> {id}, signers |-> {order.args.maker},
         outputs |-> <<[lock |-> order.args.maker, capacity |-> order.capacity,
                        type |-> IF sell THEN order.type ELSE NoType,
                        data |-> IF sell THEN order.data ELSE Short]>>]

---------------------------------------------------------------------------
(* Properties                                                              *)

Indexed == {id \in Ids : Live(id) /\ Indexable(orders[id])}

\* Whatever two orders the indexer let into the book and a builder chooses to
\* settle, and whatever fee it estimates, the lock accepts the transaction for
\* both sides, also when one user made both orders: the indexer's checks, the
\* builders' arithmetic and the contract's agree.
SettlementsAreAccepted ==
    \A b, s \in Indexed, fee \in Fees :
      Settles(b, s, fee) => Accepted(Settlement(b, s, fee))

\* An order the UI placed keeps its promise: it is in the book, it settles with
\* any matching order the UI placed at every fee the contract permits, and its
\* maker can take it back with the UI's cancellation.
OwnOrdersSettleAndCancel ==
    \A id \in Ids : OwnOrder(id) =>
      /\ id \in Indexed
      /\ wallets[Maker(id)].ckb > 0 => Accepted(CancelOrder(id))
      /\ \A s \in Ids, fee \in 0..MAX_SETTLEMENT_FEE :
           (OwnOrder(s) /\ Side(id) = BUY /\ Side(s) = SELL
              /\ MatchingTerms(orders[id].args, orders[s].args)
              /\ SellerPayment(s) <= MaxU64) =>
             Settles(id, s, fee) /\ Accepted(Settlement(id, s, fee))
===========================================================================
