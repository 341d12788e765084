-------------------------- MODULE DexOrderLedger --------------------------
(***************************************************************************)
(* How the matcher implements OrderLedger.  The ledger's chain is the      *)
(* settled part of the node's: the blocks that confirmationDepth blocks,   *)
(* their own included, have buried.  A reorganisation that is shallower    *)
(* never touches it.                                                       *)
(***************************************************************************)
EXTENDS DexOrderBot

SettledTxs(c) == TxsOf(SubSeq(c, 1, Len(c) - confirmationDepth + 1))
SettledTx(tx) == tx \in SettledTxs(chain)

Ends == {Cancel(o) : o \in Orders} \cup Settlements

\* What a chain made of an order.
FateOn(c) ==
    LET settled == SettledTxs(c)
    IN  [o \in Orders |->
           IF \E tx \in settled : Spends(tx, o) THEN CHOOSE tx \in settled : Spends(tx, o)
           ELSE [kind |-> IF Create(o) \in settled THEN "open" ELSE "unborn", of |-> {}]]

Ledger == INSTANCE OrderLedger WITH
    fate   <- FateOn(chain),
    listed <- {o \in Orders : Indexed(db, o)},
    trades <- {tx \in Settlements : db.trades[tx].status = "CONFIRMED"},
    ended  <- {o \in Orders : db.orders[o].status \in {"FILLED", "CANCELED"}}

\* The projection is an append-only ledger of what became of the orders:
\* reorganisations shallower than the confirmation depth, duplicated events,
\* other matchers and other producers never make it list an order that is not
\* there, take a trade back, or end an order that did not end.
ImplementsLedger == Ledger!Spec

\* Every settled trade between two listed orders is recorded in the end,
\* whoever settled it and whatever interrupts the ticks.
TradesAreRecorded ==
    []<>(\A tx \in Settlements :
           (SettledTx(tx) /\ \A o \in tx.of : Indexed(db, o)) => db.trades[tx].status = "CONFIRMED")
===========================================================================
