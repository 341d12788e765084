------------------------- MODULE DexOrderBotProofs -------------------------
(***************************************************************************)
(* What is proved about the matcher and its projection, for every set of   *)
(* orders and every depth:                                                 *)
(*                                                                         *)
(*   TypeCorrect       the documents, the checkpoints and the cycle's own  *)
(*                     state keep their types, reorganisations included;   *)
(*   ProjectionStaysTrue   on a chain that only grows, every fill,         *)
(*                     cancellation and trade on record really happened;   *)
(*   ScanIsComplete    on a chain that only grows, no open order is        *)
(*                     missed by the scan;                                 *)
(*   RollbacksAreComplete  a rollback leaves nothing above the common      *)
(*                     ancestor;                                           *)
(*   MatcherImplementsLedger, NothingToRollBack, OrdersTradeOnce,          *)
(*   BuriedProjectionIsTrue                                                *)
(*                     what reorganisations shallower than the             *)
(*                     confirmation depth can never undo.                  *)
(*                                                                         *)
(* Each goes by an inductive invariant and one step per action.  The       *)
(* database is one value, so most of the work is in lemmas about the       *)
(* operators that map a database to a database.                            *)
(***************************************************************************)
EXTENDS DexOrderLedger, SequenceTheorems, SetSums

---------------------------------------------------------------------------
(* The chain                                                               *)

\* What a transaction may be, by its kind.
LEMMA TransactionKinds ==
    /\ \A tx \in Transactions : tx.of \subseteq Orders
    /\ \A tx \in Transactions : tx.kind \in {"settle", "take"} => tx \in Settlements
    /\ \A tx \in Transactions : tx.kind = "cancel" => \E o \in Orders : tx = Cancel(o)
    /\ \A tx \in Transactions : tx.kind \in {"create", "cancel", "settle", "take"}
    /\ Settlements \subseteq Transactions
    /\ \A tx \in Settlements : tx.kind \in {"settle", "take"} /\ tx # NoTx
    /\ \A o \in Orders : Create(o) \in Transactions /\ Cancel(o) \in Transactions
<1>1. \A tx \in Settlements : /\ tx.kind \in {"settle", "take"} /\ tx # NoTx
                              /\ tx.of \subseteq Orders
  BY DEF Settlements, Settle, Take, NoTx, Orders
<1>2. \A o \in Orders : /\ Create(o).kind = "create" /\ Create(o).of = {o}
                       /\ Cancel(o).kind = "cancel" /\ Cancel(o).of = {o}
  BY DEF Create, Cancel
<1>3. \A tx \in Transactions : \/ \E o \in Orders : tx = Create(o)
                               \/ \E o \in Orders : tx = Cancel(o)
                               \/ tx \in Settlements
  BY DEF Transactions
<1>4. /\ Settlements \subseteq Transactions
      /\ \A o \in Orders : Create(o) \in Transactions /\ Cancel(o) \in Transactions
  BY DEF Transactions
<1> QED
  BY <1>1, <1>2, <1>3, <1>4

\* A committed transaction is in the block its height names, and that block's
\* hash is a hash.
LEMMA CommittedBlock ==
    ASSUME ChainTypeOK, NEW tx, Committed(tx)
    PROVE  /\ tx \in Transactions
           /\ HeightOf(tx) \in 1..Tip /\ tx \in chain[HeightOf(tx)].txs
           /\ BlockOf(tx) \in Hashes
<1>1. PICK h \in 1..Len(chain) : tx \in chain[h].txs
  BY DEF Committed, TxsOf, ChainTypeOK, Hashes
<1>2. HeightOf(tx) \in 1..Tip /\ tx \in chain[HeightOf(tx)].txs
  BY <1>1 DEF HeightOf, Tip
<1>3. tx \in Transactions
  <2>1. chain[h] \in Blocks
    BY DEF ChainTypeOK, Hashes
  <2> QED
    BY <1>1, <2>1 DEF Blocks
<1>4. BlockOf(tx) \in Hashes
  BY <1>2 DEF BlockOf, Hash, Hashes, ChainTypeOK, Tip
<1> QED
  BY <1>2, <1>3, <1>4

\* The transaction that spends an order is a committed cancellation or
\* settlement of that order.
LEMMA SpenderIsCommitted ==
    ASSUME ChainTypeOK, NEW o \in Orders, SpentOn(chain, o)
    PROVE  /\ Committed(Spender(o)) /\ Spends(Spender(o), o) /\ Spender(o) \in Transactions
           /\ Spender(o).kind # "create"
<1>1. Spender(o) \in TxsOf(chain) /\ Spends(Spender(o), o)
  BY DEF SpentOn, Spender
<1>2. Committed(Spender(o))
  BY <1>1 DEF Committed
<1>3. Spender(o) \in Transactions
  BY <1>2, CommittedBlock
<1> QED
  BY <1>1, <1>2, <1>3 DEF Spends

---------------------------------------------------------------------------
(* Types of the databases that ingestion and the bot's own writes return   *)

Events == [type: EventTypes, tx: Transactions \cup {NoTx}, block: Hashes, ancestor: Int]

\* An event is about the orders its type calls for.
WellFormed(e) ==
    /\ e \in Events
    /\ e.type = "order-confirmed" => \E o \in Orders : e.tx = Create(o)
    /\ e.type = "order-cancelled" => \E o \in Orders : e.tx = Cancel(o)
    /\ e.type \in {"settlement-submitted", "trade-confirmed"} => e.tx \in Settlements

LEMMA OrderOfEvent ==
    ASSUME NEW e, NEW o \in Orders, e.tx = Create(o) \/ e.tx = Cancel(o)
    PROVE  OrderOf(e) = o
<1>1. e.tx.of = {o}
  BY DEF Create, Cancel
<1> QED
  BY <1>1 DEF OrderOf

\* Replacing some documents by documents.
LEMMA WithOrdersType ==
    ASSUME NEW d \in Databases, NEW changed,
           \A o \in Orders : o \in DOMAIN changed => changed[o] \in OrderDocs
    PROVE  /\ WithOrders(d, changed) \in Databases
           /\ WithOrders(d, changed).trades = d.trades
           /\ WithOrders(d, changed).processed = d.processed
           /\ \A o \in Orders : WithOrders(d, changed).orders[o] =
                IF o \in DOMAIN changed THEN changed[o] ELSE d.orders[o]
BY DEF WithOrders, Databases

LEMMA NoBlockIsAHash == NoBlock \in Hashes /\ Len(NoBlock) = 0
BY DEF NoBlock, Hashes

LEMMA ApplyEventType ==
    ASSUME NEW d \in Databases, NEW e, WellFormed(e)
    PROVE  ApplyEvent(d, e) \in Databases
<1>1. CASE e.type = "order-confirmed"
  <2>1. PICK o \in Orders : e.tx = Create(o)
    BY <1>1 DEF WellFormed
  <2>2. OrderOf(e) = o
    BY <2>1, OrderOfEvent
  <2>3. e.block \in Hashes
    BY DEF WellFormed, Events
  <2>4. [NotIndexed EXCEPT !.status = "LIVE", !.created = e.block] \in OrderDocs
    BY <2>3, NoBlockIsAHash DEF NotIndexed, OrderDocs, Statuses
  <2>5. ApplyOrderConfirmed(d, e) \in Databases
    BY <2>2, <2>4 DEF ApplyOrderConfirmed, Databases
  <2> QED
    BY <1>1, <2>5 DEF ApplyEvent
<1>2. CASE e.type = "order-cancelled"
  <2>1. PICK o \in Orders : e.tx = Cancel(o)
    BY <1>2 DEF WellFormed
  <2>2. OrderOf(e) = o
    BY <2>1, OrderOfEvent
  <2>3. e.block \in Hashes
    BY DEF WellFormed, Events
  <2>4. [d.orders[o] EXCEPT !.status = "CANCELED", !.spent = e.block] \in OrderDocs
    BY <2>3 DEF Databases, OrderDocs, Statuses
  <2>5. ApplyOrderCancelled(d, e) \in Databases
    BY <2>2, <2>4 DEF ApplyOrderCancelled, Databases
  <2> QED
    BY <1>2, <2>5 DEF ApplyEvent
<1>3. CASE e.type = "settlement-submitted"
  <2>1. e.tx \in Settlements
    BY <1>3 DEF WellFormed
  <2>2. \A o \in Orders : [d.orders[o] EXCEPT !.status = "PENDING", !.pendingTx = e.tx] \in OrderDocs
    BY <2>1 DEF Databases, OrderDocs, Statuses
  <2>3. ApplySettlementSubmitted(d, e) \in Databases
    BY <2>2, WithOrdersType DEF ApplySettlementSubmitted
  <2> QED
    BY <1>3, <2>3 DEF ApplyEvent
<1>4. CASE e.type = "trade-confirmed"
  <2>1. e.tx \in Settlements /\ e.block \in Hashes
    BY <1>4 DEF WellFormed, Events
  <2>2. \A o \in Orders : [d.orders[o] EXCEPT !.status = "FILLED", !.spent = e.block,
                                              !.pendingTx = e.tx] \in OrderDocs
    BY <2>1 DEF Databases, OrderDocs, Statuses
  <2> DEFINE filled == WithOrders(d, [o \in e.tx.of |->
                         [d.orders[o] EXCEPT !.status = "FILLED", !.spent = e.block,
                                             !.pendingTx = e.tx]])
  <2>3. filled \in Databases
    BY <2>2, WithOrdersType
  <2>4. [status |-> "CONFIRMED", block |-> e.block] \in TradeDocs
    BY <2>1 DEF TradeDocs
  <2>5. [filled EXCEPT !.trades[e.tx] = [status |-> "CONFIRMED", block |-> e.block]] \in Databases
    BY <2>3, <2>4 DEF Databases
  <2>6. ApplyTradeConfirmed(d, e) \in Databases
    BY <2>5 DEF ApplyTradeConfirmed
  <2> QED
    BY <1>4, <2>6 DEF ApplyEvent
<1>5. CASE e.type = "chain-reorg"
  <2> DEFINE orphaned == CreatedAbove(d, e.ancestor)
             reopened == SpentAbove(d, e.ancestor) \ orphaned
             released(o) == [d.orders[o] EXCEPT !.reservedUntil = "none", !.pendingTx = NoTx]
             rolledBack(o) == IF o \in orphaned THEN [released(o) EXCEPT !.status = "ORPHANED"]
                              ELSE [released(o) EXCEPT !.status = "LIVE", !.spent = NoBlock]
             undone == WithOrders(d, [o \in orphaned \cup reopened |-> rolledBack(o)])
  <2>1. \A o \in Orders : rolledBack(o) \in OrderDocs
    BY NoBlockIsAHash DEF Databases, OrderDocs, Statuses
  <2>2. undone \in Databases
    BY <2>1, WithOrdersType
  <2>3. TradesAfterRollback(d, e.ancestor) \in [Settlements -> TradeDocs]
    BY DEF TradesAfterRollback, Databases, TradeDocs
  <2>4. ApplyChainReorg(d, e) \in Databases
    BY <2>2, <2>3 DEF ApplyChainReorg, Databases
  <2> QED
    BY <1>5, <2>4 DEF ApplyEvent
<1> QED
  BY <1>1, <1>2, <1>3, <1>4, <1>5 DEF WellFormed, Events, EventTypes

LEMMA IngestedType ==
    ASSUME NEW d \in Databases, NEW e, WellFormed(e)
    PROVE  Ingested(d, e) \in Databases
<1>1. EventId(e) \in EventIds
  BY DEF WellFormed, Events, EventId, EventIds
<1>2. ApplyEvent(d, e) \in Databases
  BY ApplyEventType
<1>3. [ApplyEvent(d, e) EXCEPT !.processed = @ \cup {EventId(e)}] \in Databases
  BY <1>1, <1>2 DEF Databases
<1> QED
  BY <1>3 DEF Ingested

---------------------------------------------------------------------------
(* The events the bot and the other producers hand to ingestion            *)

\* A spend that an event reports is committed in the block it names.
Happened(e) ==
    e.type \in {"order-cancelled", "trade-confirmed"} => Committed(e.tx) /\ e.block = BlockOf(e.tx)

LEMMA SpendConfirmedEvent ==
    ASSUME ChainTypeOK, NEW tx \in Transactions, Committed(tx), tx.kind # "create"
    PROVE  WellFormed(SpendConfirmed(tx)) /\ Happened(SpendConfirmed(tx))
<1>1. BlockOf(tx) \in Hashes
  BY CommittedBlock
<1>2. CASE tx.kind = "cancel"
  BY <1>1, <1>2, TransactionKinds DEF SpendConfirmed, WellFormed, Happened, Events, EventTypes
<1>3. CASE tx.kind \in {"settle", "take"}
  BY <1>1, <1>3, TransactionKinds DEF SpendConfirmed, WellFormed, Happened, Events, EventTypes
<1> QED
  BY <1>2, <1>3, TransactionKinds

LEMMA OrderConfirmedEvent ==
    ASSUME ChainTypeOK, NEW o \in Orders, Committed(Create(o))
    PROVE  WellFormed(OrderConfirmed(o)) /\ Happened(OrderConfirmed(o))
BY CommittedBlock, TransactionKinds
DEF OrderConfirmed, WellFormed, Happened, Events, EventTypes

LEMMA SettlementSubmittedEvent ==
    ASSUME NEW tx \in Settlements
    PROVE  WellFormed(SettlementSubmitted(tx)) /\ Happened(SettlementSubmitted(tx))
BY NoBlockIsAHash, TransactionKinds
DEF SettlementSubmitted, WellFormed, Happened, Events, EventTypes

LEMMA ChainReorgEvent ==
    ASSUME NEW block \in Hashes, NEW ancestor \in Int
    PROVE  WellFormed(ChainReorg(block, ancestor)) /\ Happened(ChainReorg(block, ancestor))
BY DEF ChainReorg, WellFormed, Happened, Events, EventTypes

---------------------------------------------------------------------------
(* The bot's own writes                                                    *)

LEMMA OwnWritesType ==
    ASSUME NEW d \in Databases, NEW o \in Orders
    PROVE  RevertToLive(d, o) \in Databases /\ Reserve(d, o) \in Databases
<1>1. d.orders[o] \in OrderDocs
  BY DEF Databases
<1>2. /\ [d.orders[o] EXCEPT !.status = "LIVE", !.reservedUntil = "none", !.pendingTx = NoTx] \in OrderDocs
      /\ [d.orders[o] EXCEPT !.status = "RESERVED", !.reservedUntil = "running"] \in OrderDocs
  BY <1>1 DEF OrderDocs, Statuses
<1> QED
  BY <1>2 DEF RevertToLive, Reserve, Databases

LEMMA ReconcileType ==
    ASSUME ChainTypeOK, NEW d \in Databases, NEW o \in Orders
    PROVE  CheckOrderLiveness(d, o) \in Databases /\ ReconcileSpentOrder(d, o) \in Databases
<1>1. SpentOn(chain, o) => Ingested(d, SpendConfirmed(Spender(o))) \in Databases
  BY SpenderIsCommitted, SpendConfirmedEvent, IngestedType
<1> QED
  BY <1>1 DEF CheckOrderLiveness, ReconcileSpentOrder

LEMMA RetriedType ==
    ASSUME ChainTypeOK, db \in Databases, NEW o \in Orders,
           NEW doc \in OrderDocs, NEW rejected \in BOOLEAN
    PROVE  Retried(o, doc, rejected) \in Databases
<1> DEFINE tx == doc.pendingTx
<1>1. tx \in Settlements \cup {NoTx}
  BY DEF OrderDocs
<1>2. RevertToLive(db, o) \in Databases /\ ReconcileSpentOrder(db, o) \in Databases
  BY OwnWritesType, ReconcileType
<1>3. [db EXCEPT !.orders[o].reservedUntil = "running"] \in Databases
  BY DEF Databases, OrderDocs
<1>4. tx # NoTx /\ Committed(tx) => Ingested(db, SpendConfirmed(tx)) \in Databases
  BY <1>1, TransactionKinds, SpendConfirmedEvent, IngestedType
<1>5. CASE tx = NoTx
  <2>1. ~Committed(tx) /\ ~Gone(tx)
    BY <1>5, CommittedBlock, TransactionKinds DEF NoTx, Gone
  <2> QED
    BY <1>2, <1>5, <2>1 DEF Retried
<1>6. CASE tx # NoTx /\ Committed(tx)
  BY <1>2, <1>4, <1>6 DEF Retried, Gone
<1>7. CASE tx # NoTx /\ ~Committed(tx) /\ Gone(tx)
  BY <1>2, <1>7 DEF Retried
<1>8. CASE tx # NoTx /\ ~Committed(tx) /\ ~Gone(tx)
  BY <1>3, <1>8 DEF Retried
<1> QED
  BY <1>5, <1>6, <1>7, <1>8

---------------------------------------------------------------------------
(* Type correctness                                                        *)

LEMMA TypeInit == Init => TypeOK
<1> SUFFICES ASSUME Init PROVE TypeOK
  OBVIOUS
<1>1. ChainTypeOK
  BY InitialChainIsValid DEF Init, ChainInit, ChainTypeOK
<1>2. db \in Databases
  BY NoBlockIsAHash
  DEF Init, IngestionInit, Databases, NotIndexed, NoTrade, OrderDocs, TradeDocs, Statuses
<1>3. pin \in [block: Hashes, ancestor: Int]
  BY NoBlockIsAHash DEF Init, NoPin
<1>4. /\ checkpoints \subseteq Hashes
      /\ \A cp, other \in checkpoints : Len(cp) = Len(other) => cp = other
  BY BotConstants DEF Init
<1> QED
  BY <1>1, <1>2, <1>3, <1>4 DEF Init, TypeOK, NoneSeen, NoPair, Steps, TradeSteps

\* The chain keeps its type whatever the node and the users do.
LEMMA ChainTypeStep == ChainTypeOK /\ ChainNext => ChainTypeOK'
<1> SUFFICES ASSUME ChainTypeOK, ChainNext PROVE ChainTypeOK'
  OBVIOUS
<1>1. CASE MineBlock
  <2>1. PICK txs \in SUBSET pool :
          LET longer == Append(chain, [miner |-> UsualMiner, txs |-> txs])
          IN  chain' = longer /\ pool' = PoolAfter(pool, longer)
    BY <1>1 DEF MineBlock
  <2>2. [miner |-> UsualMiner, txs |-> txs] \in Blocks
    BY ChainConstants DEF UsualMiner, Blocks, ChainTypeOK
  <2>3. chain' \in Hashes
    BY <2>1, <2>2 DEF Hashes, ChainTypeOK
  <2> QED
    BY <1>1, <2>1, <2>3 DEF MineBlock, PoolAfter, ChainTypeOK
<1>2. CASE Reorg
  <2>1. PICK keep \in 0..(Tip - 1), miner \in Miners :
          LET detached == UNION {chain[h].txs : h \in (keep + 1)..Tip}
          IN  \E place \in [detached \cup pool -> {0} \cup ((keep + 1)..(Tip + 1))] :
                LET branch == [h \in 1..(Tip + 1) |->
                                 IF h <= keep THEN chain[h]
                                 ELSE [miner |-> miner,
                                       txs |-> {tx \in detached \cup pool : place[tx] = h}]]
                IN  chain' = branch /\ pool' = PoolAfter(detached \cup pool, branch)
    BY <1>2 DEF Reorg
  <2> DEFINE detached == UNION {chain[h].txs : h \in (keep + 1)..Tip}
  <2>2. PICK place \in [detached \cup pool -> {0} \cup ((keep + 1)..(Tip + 1))] :
          LET branch == [h \in 1..(Tip + 1) |->
                           IF h <= keep THEN chain[h]
                           ELSE [miner |-> miner,
                                 txs |-> {tx \in detached \cup pool : place[tx] = h}]]
          IN  chain' = branch /\ pool' = PoolAfter(detached \cup pool, branch)
    BY <2>1
  <2>3. Tip \in Nat /\ \A h \in 1..Tip : chain[h] \in Blocks
    BY DEF Tip, ChainTypeOK, Hashes
  <2>4. detached \subseteq Transactions
    BY <2>3 DEF Blocks
  <2>5. \A h \in 1..(Tip + 1) :
          (IF h <= keep THEN chain[h]
           ELSE [miner |-> miner, txs |-> {tx \in detached \cup pool : place[tx] = h}]) \in Blocks
    BY <2>3, <2>4 DEF Blocks, ChainTypeOK
  <2>6. chain' \in Hashes
    <3>1. chain' \in [1..(Tip + 1) -> Blocks]
      BY <2>2, <2>5
    <3> QED
      BY <3>1, <2>3 DEF Hashes
  <2>7. pool' \subseteq Transactions
    BY <2>2, <2>4 DEF PoolAfter, ChainTypeOK
  <2>8. reorgs' = reorgs + 1
    BY <1>2 DEF Reorg
  <2> QED
    BY <2>6, <2>7, <2>8 DEF ChainTypeOK
<1>3. CASE Evict
  BY <1>3 DEF Evict, ChainTypeOK
<1>4. CASE SubmitOther
  <2>1. PICK tx \in {Cancel(o) : o \in Cancellable}
                    \cup {Take(b, s) : b \in Buys, s \in IF Takers THEN Sells ELSE {}} :
          /\ \A o \in tx.of : LiveCell(o)
          /\ pool' = pool \cup {tx}
    BY <1>4 DEF SubmitOther
  <2>2. tx \in Transactions
    <3>1. CASE tx \in {Take(b, s) : b \in Buys, s \in IF Takers THEN Sells ELSE {}}
      BY <3>1 DEF Transactions, Settlements
    <3>2. CASE tx \in {Cancel(o) : o \in Cancellable}
      BY <3>2, CancellableAreOrders DEF Transactions
    <3> QED
      BY <3>1, <3>2
  <2> QED
    BY <1>4, <2>1, <2>2 DEF SubmitOther, ChainTypeOK
<1> QED
  BY <1>1, <1>2, <1>3, <1>4 DEF ChainNext

LEMMA TypeStep == TypeOK /\ [Next]_vars => TypeOK'
<1> SUFFICES ASSUME TypeOK, [Next]_vars PROVE TypeOK'
  OBVIOUS
<1> USE DEF TypeOK
<1>a. (ChainTypeOK /\ UNCHANGED chainVars) => ChainTypeOK'
  BY DEF ChainTypeOK, chainVars
<1>b. NoPin \in [block: Hashes, ancestor: Int] /\ DOMAIN NoneSeen = {}
  BY NoBlockIsAHash DEF NoPin, NoneSeen
<1>c. \A o \in Orders : db.orders[o] \in OrderDocs
  BY DEF Databases
<1>1. CASE StartTick
  BY <1>a, <1>1 DEF StartTick, TradeSteps, Steps
<1>2. CASE DetectReorg
  <2> DEFINE mismatched == {cp \in Window : \A height \in Common : height < Len(cp)}
  <2>1. Window \subseteq Hashes /\ \A cp \in Hashes : Len(cp) \in Nat
    BY DEF Window, Hashes
  <2>2. Common \subseteq Nat
    BY <2>1 DEF Common
  <2>3. CASE mismatched = {}
    BY <1>2, <1>a, <2>3 DEF DetectReorg, TradeSteps, Steps
  <2>4. CASE mismatched # {}
    <3>1. PICK evidence \in mismatched :
            \E ancestor \in IF Common = {} THEN {Len(evidence) - 1} ELSE Common :
              pin' = [block |-> evidence, ancestor |-> ancestor]
      BY <1>2, <2>4 DEF DetectReorg
    <3>2. pin' \in [block: Hashes, ancestor: Int]
      BY <3>1, <2>1, <2>2
    <3> QED
      BY <1>2, <1>a, <2>4, <3>2 DEF DetectReorg, TradeSteps, Steps
  <2> QED
    BY <2>3, <2>4
<1>3. CASE RollBack
  <2>1. Ingested(db, ChainReorg(pin.block, pin.ancestor)) \in Databases
    BY ChainReorgEvent, IngestedType
  <2> QED
    BY <1>3, <1>a, <1>b, <2>1 DEF RollBack, TradeSteps, Steps
<1>4. CASE Rewind
  BY <1>4, <1>a, <1>b DEF Rewind, TradeSteps, Steps
<1>5. CASE Scan
  <2>1. CASE SafeTip < 0 \/ ResolveScanCursor > SafeTip
    <3>1. StartSweep /\ UNCHANGED <<chainVars, db, checkpoints, crashes>>
      BY <1>5, <2>1 DEF Scan
    <3>2. db' = db
      BY <3>1
    <3>3. work' \subseteq Orders /\ Goto("sweep")
      BY <3>1 DEF StartSweep
    <3> QED
      BY <3>1, <3>2, <3>3, <1>a, <1>b DEF Goto, TradeSteps, Steps, NoPair
  <2>2. CASE ~(SafeTip < 0 \/ ResolveScanCursor > SafeTip)
    <3>1. /\ pc = "scan" /\ pc' = "index" /\ pin' = [block |-> Hash(SafeTip), ancestor |-> 0]
          /\ work' \subseteq Orders
          /\ UNCHANGED <<chainVars, db, checkpoints, crashes, seen, pair>>
      BY <1>5, <2>2 DEF Scan
    <3>2. SafeTip \in 0..Tip
      BY <2>2, DepthAssumption DEF SafeTip, Tip, ChainTypeOK, Hashes
    <3>3. Hash(SafeTip) \in Hashes
      BY <3>2 DEF Hash, ChainTypeOK, Hashes, Tip
    <3> QED
      BY <3>1, <3>3, <1>a DEF TradeSteps, Steps
  <2> QED
    BY <2>1, <2>2
<1>6. ASSUME NEW o \in Orders, Index(o) PROVE TypeOK'
  <2>1. Committed(Create(o)) => Ingested(db, OrderConfirmed(o)) \in Databases
    BY OrderConfirmedEvent, IngestedType
  <2> QED
    BY <1>6, <1>a, <2>1 DEF Index
<1>7. CASE SaveCheckpoint
  BY <1>7, <1>a, <1>b DEF SaveCheckpoint, StartSweep, Goto, TradeSteps, Steps, NoPair
<1>8. ASSUME NEW o \in Orders, Sweep(o) PROVE TypeOK'
  BY <1>8, <1>a, <1>b, ReconcileType DEF Sweep, AbandonTick, Goto, TradeSteps, Steps, NoPair
<1>9. CASE StartRetry
  BY <1>9, <1>a, <1>c DEF StartRetry, TradeSteps, Steps
<1>10. ASSUME NEW o \in Orders, Retry(o) PROVE TypeOK'
  <2>1. o \in DOMAIN seen => \A rejected \in BOOLEAN : Retried(o, seen[o], rejected) \in Databases
    BY RetriedType
  <2>2. db' \in Databases
    BY <1>10, <2>1 DEF Retry
  <2> QED
    BY <1>10, <1>a, <1>b, <2>2 DEF Retry, AbandonTick, Goto, TradeSteps, Steps, NoPair
<1>11. CASE RefreshBook
  BY <1>11, <1>a, <1>b DEF RefreshBook, Goto, TradeSteps, Steps, NoPair
<1>12. ASSUME NEW b \in Buys, NEW s \in Sells, StartTrade(b, s) PROVE TypeOK'
  BY <1>12, <1>a, OwnWritesType DEF StartTrade, TradeSteps, Steps, Orders
<1>13. CASE EndTick
  BY <1>13, <1>a, <1>b DEF EndTick, AbandonTick, Goto, TradeSteps, Steps, NoPair
<1>d. pc \in TradeSteps => Buy \in Orders /\ Sell \in Orders /\ OurTx \in Settlements
  BY DEF Buy, Sell, OurTx, Settlements, Orders
<1>14. CASE ReserveSell
  BY <1>14, <1>a, <1>d, OwnWritesType DEF ReserveSell, TradeSteps, Steps
<1>15. CASE CheckLegs
  BY <1>15, <1>a, <1>d, ReconcileType DEF CheckLegs, TradeSteps, Steps
<1>16. CASE Submit
  <2>1. ChainTypeOK'
    BY <1>16, <1>d, TransactionKinds DEF Submit, ChainTypeOK, TradeSteps
  <2> QED
    BY <1>16, <2>1 DEF Submit, TradeSteps, Steps
<1>17. CASE Release
  BY <1>17, <1>a, <1>d, OwnWritesType DEF Release, TradeSteps, Steps
<1>18. CASE Record
  <2>1. Ingested(db, SettlementSubmitted(OurTx)) \in Databases
    BY <1>18, <1>d, SettlementSubmittedEvent, IngestedType DEF Record, TradeSteps
  <2>2. \A o \in {Buy, Sell} :
          [db.orders[o] EXCEPT !.status = "PENDING", !.pendingTx = OurTx] \in OrderDocs
    <3>1. OurTx \in Settlements /\ \A o \in {Buy, Sell} : db.orders[o] \in OrderDocs
      BY <1>18, <1>c, <1>d DEF Record, TradeSteps
    <3> QED
      BY <3>1 DEF OrderDocs, Statuses
  <2>3. WithOrders(db, [o \in {Buy, Sell} |->
          [db.orders[o] EXCEPT !.status = "PENDING", !.pendingTx = OurTx]]) \in Databases
    BY <2>2, WithOrdersType
  <2> QED
    BY <1>18, <1>a, <2>1, <2>3 DEF Record, TradeSteps, Steps
<1>19. CASE Recheck
  BY <1>19, <1>a, <1>d, ReconcileType DEF Recheck, TradeSteps, Steps
<1>20. CASE Environment
  BY <1>20, ChainTypeStep DEF Environment, botVars
<1>21. ASSUME NEW o \in Orders, Expire(o) PROVE TypeOK'
  <2>1. db' \in Databases
    <3>1. [db.orders[o] EXCEPT !.reservedUntil = "due"] \in OrderDocs
      BY <1>c DEF OrderDocs
    <3>2. db' = [db EXCEPT !.orders[o] = [db.orders[o] EXCEPT !.reservedUntil = "due"]]
      BY <1>21 DEF Expire
    <3> QED
      BY <3>1, <3>2 DEF Databases
  <2>2. DOMAIN seen' \subseteq Orders /\ \A x \in DOMAIN seen' : seen'[x] \in OrderDocs
    BY <1>21 DEF Expire, OrderDocs
  <2> QED
    BY <1>21, <1>a, <2>1, <2>2 DEF Expire
<1>22. CASE Crash
  BY <1>22, <1>a, <1>b DEF Crash, AbandonTick, Goto, TradeSteps, Steps, NoPair
<1>23. CASE Post
  <2>1. \A o \in Orders : Committed(Create(o)) => Ingested(db, OrderConfirmed(o)) \in Databases
    BY OrderConfirmedEvent, IngestedType
  <2>2. \A tx \in Transactions : (tx.kind # "create" /\ Committed(tx)) =>
          Ingested(db, SpendConfirmed(tx)) \in Databases
    BY SpendConfirmedEvent, IngestedType
  <2> QED
    BY <1>23, <1>a, <2>1, <2>2 DEF Post, botVars
<1>24. CASE UNCHANGED vars
  BY <1>24, <1>a DEF vars, botVars
<1> QED
  BY <1>1, <1>2, <1>3, <1>4, <1>5, <1>6, <1>7, <1>8, <1>9, <1>10, <1>11, <1>12, <1>13,
     <1>14, <1>15, <1>16, <1>17, <1>18, <1>19, <1>20, <1>21, <1>22, <1>23, <1>24
  DEF Next, BotStep

\* The documents, the checkpoints (one per height) and the state of the poll
\* cycle keep their types, whatever the chain, the users and crashes do.
THEOREM TypeCorrect == Spec => []TypeOK
<1>1. Init => TypeOK
  BY TypeInit
<1>2. TypeOK /\ [Next]_vars => TypeOK'
  BY TypeStep
<1> QED
  BY <1>1, <1>2, PTL DEF Spec

---------------------------------------------------------------------------
(* The projection is true of a chain that only grows                       *)

TrueOfChain(d) == TradesAreTrue(d) /\ FillsAreTrue(d) /\ CancellationsAreTrue(d)

\* A database that claims no more fills, cancellations and trades than a true
\* one is true.
LEMMA FewerClaims ==
    ASSUME NEW d \in Databases, TrueOfChain(d), NEW e \in Databases,
           e.trades = d.trades,
           \A o \in Orders : e.orders[o].status \in {"FILLED", "CANCELED"} =>
             /\ e.orders[o].status = d.orders[o].status
             /\ e.orders[o].pendingTx = d.orders[o].pendingTx
             /\ e.orders[o].spent = d.orders[o].spent
    PROVE  TrueOfChain(e)
<1>1. TradesAreTrue(e)
  BY DEF TrueOfChain, TradesAreTrue
<1>2. FillsAreTrue(e)
  BY DEF TrueOfChain, FillsAreTrue
<1>3. CancellationsAreTrue(e)
  BY DEF TrueOfChain, CancellationsAreTrue
<1> QED
  BY <1>1, <1>2, <1>3 DEF TrueOfChain

LEMMA OwnWritesTrue ==
    ASSUME NEW d \in Databases, TrueOfChain(d), NEW o \in Orders
    PROVE  TrueOfChain(RevertToLive(d, o)) /\ TrueOfChain(Reserve(d, o))
<1>1. RevertToLive(d, o) \in Databases /\ Reserve(d, o) \in Databases
  BY OwnWritesType
<1>2. /\ RevertToLive(d, o).trades = d.trades
      /\ \A x \in Orders \ {o} : RevertToLive(d, o).orders[x] = d.orders[x]
      /\ RevertToLive(d, o).orders[o].status = "LIVE"
  BY DEF RevertToLive, Databases, OrderDocs
<1>3. /\ Reserve(d, o).trades = d.trades
      /\ \A x \in Orders \ {o} : Reserve(d, o).orders[x] = d.orders[x]
      /\ Reserve(d, o).orders[o].status = "RESERVED"
  BY DEF Reserve, Databases, OrderDocs
<1>4. TrueOfChain(RevertToLive(d, o))
  BY <1>1, <1>2, FewerClaims
<1>5. TrueOfChain(Reserve(d, o))
  BY <1>1, <1>3, FewerClaims
<1> QED
  BY <1>4, <1>5

LEMMA ApplyTradeTrue ==
    ASSUME NEW d \in Databases, TrueOfChain(d), NEW e, WellFormed(e), Happened(e),
           e.type = "trade-confirmed"
    PROVE  TrueOfChain(ApplyTradeConfirmed(d, e))
<1> DEFINE doc(o) == [d.orders[o] EXCEPT !.status = "FILLED", !.spent = e.block, !.pendingTx = e.tx]
           changed == [o \in e.tx.of |-> doc(o)]
           filled == WithOrders(d, changed)
           trade == [status |-> "CONFIRMED", block |-> e.block]
           after == [filled EXCEPT !.trades[e.tx] = trade]
<1>1. /\ e.tx \in Settlements /\ e.block \in Hashes /\ Committed(e.tx) /\ e.block = BlockOf(e.tx)
      /\ e.tx.kind \in {"settle", "take"} /\ e.tx.of \subseteq Orders
  BY TransactionKinds DEF WellFormed, Happened, Events
<1>2. \A o \in Orders : d.orders[o] \in OrderDocs
  BY DEF Databases
<1>3. \A o \in Orders : /\ doc(o) \in OrderDocs /\ doc(o).status = "FILLED"
                        /\ doc(o).spent = e.block /\ doc(o).pendingTx = e.tx
  BY <1>1, <1>2 DEF OrderDocs, Statuses
<1>4. ApplyTradeConfirmed(d, e) \in {d, after}
  BY DEF ApplyTradeConfirmed
<1> HIDE DEF doc
<1>5. DOMAIN changed = e.tx.of /\ \A o \in e.tx.of : changed[o] = doc(o)
  OBVIOUS
<1> HIDE DEF changed
<1>6. /\ filled \in Databases /\ filled.trades = d.trades
      /\ \A o \in e.tx.of : filled.orders[o] = doc(o)
      /\ \A o \in Orders \ e.tx.of : filled.orders[o] = d.orders[o]
  BY <1>1, <1>3, <1>5, WithOrdersType
<1> HIDE DEF filled
<1>7. /\ \A o \in e.tx.of : after.orders[o] = doc(o)
      /\ \A o \in Orders \ e.tx.of : after.orders[o] = d.orders[o]
      /\ \A tx \in Settlements \ {e.tx} : after.trades[tx] = d.trades[tx]
      /\ after.trades[e.tx].status = "CONFIRMED" /\ after.trades[e.tx].block = e.block
  BY <1>1, <1>6 DEF Databases
<1> HIDE DEF after
<1>8. TradesAreTrue(after)
  BY <1>1, <1>7 DEF TrueOfChain, TradesAreTrue
<1>9. FillsAreTrue(after)
  <2> SUFFICES ASSUME NEW o \in Orders, after.orders[o].status = "FILLED"
               PROVE  LET tx == after.orders[o].pendingTx
                      IN  /\ Committed(tx) /\ Spends(tx, o)
                          /\ after.orders[o].spent = BlockOf(tx)
                          /\ after.trades[tx].status = "CONFIRMED"
    BY DEF FillsAreTrue
  <2>1. CASE o \in e.tx.of
    BY <1>1, <1>3, <1>7, <2>1 DEF Spends
  <2>2. CASE o \notin e.tx.of
    <3>1. after.orders[o] = d.orders[o]
      BY <1>7, <2>2
    <3>2. LET tx == d.orders[o].pendingTx
          IN  /\ Committed(tx) /\ Spends(tx, o) /\ d.orders[o].spent = BlockOf(tx)
              /\ d.trades[tx].status = "CONFIRMED"
      BY <3>1 DEF TrueOfChain, FillsAreTrue
    <3>3. d.orders[o].pendingTx \in Settlements
      <4>1. d.orders[o].pendingTx \in Settlements \cup {NoTx}
        BY <1>2 DEF OrderDocs
      <4>2. ~Spends(NoTx, o)
        BY DEF Spends, NoTx
      <4> QED
        BY <3>2, <4>1, <4>2
    <3> QED
      BY <1>7, <3>1, <3>2, <3>3
  <2> QED
    BY <2>1, <2>2
<1>10. CancellationsAreTrue(after)
  BY <1>1, <1>3, <1>7 DEF TrueOfChain, CancellationsAreTrue
<1> QED
  BY <1>4, <1>8, <1>9, <1>10 DEF TrueOfChain

LEMMA ApplyCancellationTrue ==
    ASSUME NEW d \in Databases, TrueOfChain(d), NEW e, WellFormed(e), Happened(e),
           e.type = "order-cancelled"
    PROVE  TrueOfChain(ApplyOrderCancelled(d, e))
<1>1. PICK o \in Orders : e.tx = Cancel(o)
  BY DEF WellFormed
<1>2. OrderOf(e) = o /\ Committed(Cancel(o)) /\ e.block = BlockOf(Cancel(o))
  BY <1>1, OrderOfEvent DEF Happened
<1> DEFINE after == [d EXCEPT !.orders[o].status = "CANCELED", !.orders[o].spent = e.block]
<1>3. ApplyOrderCancelled(d, e) \in {d, after}
  BY <1>2 DEF ApplyOrderCancelled
<1>4. /\ after.trades = d.trades
      /\ \A x \in Orders \ {o} : after.orders[x] = d.orders[x]
      /\ after.orders[o].status = "CANCELED" /\ after.orders[o].spent = e.block
  BY DEF Databases, OrderDocs
<1> HIDE DEF after
<1>5. TradesAreTrue(after)
  BY <1>4 DEF TrueOfChain, TradesAreTrue
<1>6. FillsAreTrue(after)
  BY <1>4 DEF TrueOfChain, FillsAreTrue
<1>7. CancellationsAreTrue(after)
  BY <1>2, <1>4 DEF TrueOfChain, CancellationsAreTrue
<1> QED
  BY <1>3, <1>5, <1>6, <1>7 DEF TrueOfChain

\* A rollback keeps a fill only if it keeps the trade: both carry the hash of
\* the same block.
LEMMA ApplyReorgTrue ==
    ASSUME NEW d \in Databases, TrueOfChain(d), NEW e, WellFormed(e)
    PROVE  TrueOfChain(ApplyChainReorg(d, e))
<1> DEFINE orphaned == CreatedAbove(d, e.ancestor)
           reopened == SpentAbove(d, e.ancestor) \ orphaned
           released(o) == [d.orders[o] EXCEPT !.reservedUntil = "none", !.pendingTx = NoTx]
           rolledBack(o) == IF o \in orphaned THEN [released(o) EXCEPT !.status = "ORPHANED"]
                            ELSE [released(o) EXCEPT !.status = "LIVE", !.spent = NoBlock]
           changed == [o \in orphaned \cup reopened |-> rolledBack(o)]
           undone == WithOrders(d, changed)
           kept == TradesAfterRollback(d, e.ancestor)
           after == [undone EXCEPT !.trades = kept]
<1>1. \A o \in Orders : rolledBack(o) \in OrderDocs /\ rolledBack(o).status \in {"ORPHANED", "LIVE"}
  BY NoBlockIsAHash DEF Databases, OrderDocs, Statuses
<1>2. ApplyChainReorg(d, e) = after
  BY DEF ApplyChainReorg
<1> HIDE DEF rolledBack
<1>3. DOMAIN changed = orphaned \cup reopened /\ \A o \in orphaned \cup reopened : changed[o] = rolledBack(o)
  OBVIOUS
<1>4. orphaned \subseteq Orders /\ reopened \subseteq Orders
  BY DEF CreatedAbove, SpentAbove
<1> HIDE DEF changed
<1>5. /\ undone \in Databases
      /\ \A o \in orphaned \cup reopened : undone.orders[o].status \in {"ORPHANED", "LIVE"}
      /\ \A o \in Orders \ (orphaned \cup reopened) : undone.orders[o] = d.orders[o]
  BY <1>1, <1>3, <1>4, WithOrdersType
<1>6. \A o \in Orders : d.orders[o].status \in {"FILLED", "CANCELED"} =>
        o \in orphaned \cup reopened \/ ~(Len(d.orders[o].spent) > e.ancestor)
  BY DEF SpentAbove
<1> HIDE DEF undone, orphaned, reopened
<1>7. /\ after.orders = undone.orders /\ after.trades = kept
      /\ \A tx \in Settlements : kept[tx].status = "CONFIRMED" =>
           kept[tx] = d.trades[tx]
      /\ \A tx \in Settlements :
           (d.trades[tx].status = "CONFIRMED" /\ ~(Len(d.trades[tx].block) > e.ancestor)) =>
             kept[tx] = d.trades[tx]
  BY <1>5 DEF TradesAfterRollback, Databases, TradeDocs
<1> HIDE DEF after, kept
<1>8. TradesAreTrue(after)
  BY <1>7 DEF TrueOfChain, TradesAreTrue
<1>9. FillsAreTrue(after)
  <2> SUFFICES ASSUME NEW o \in Orders, after.orders[o].status = "FILLED"
               PROVE  LET tx == after.orders[o].pendingTx
                      IN  /\ Committed(tx) /\ Spends(tx, o)
                          /\ after.orders[o].spent = BlockOf(tx)
                          /\ after.trades[tx].status = "CONFIRMED"
    BY DEF FillsAreTrue
  <2> DEFINE tx == d.orders[o].pendingTx
  <2>1. o \notin orphaned \cup reopened /\ after.orders[o] = d.orders[o]
    BY <1>5, <1>7
  <2>2. /\ Committed(tx) /\ Spends(tx, o) /\ d.orders[o].spent = BlockOf(tx)
        /\ d.trades[tx].status = "CONFIRMED"
    BY <2>1 DEF TrueOfChain, FillsAreTrue
  <2>3. tx \in Settlements
    BY <2>2 DEF Databases, OrderDocs, Spends, NoTx
  <2>4. d.trades[tx].block = d.orders[o].spent
    BY <2>2, <2>3 DEF TrueOfChain, TradesAreTrue
  <2>5. ~(Len(d.trades[tx].block) > e.ancestor)
    BY <1>6, <2>1, <2>4
  <2> QED
    BY <1>7, <2>1, <2>2, <2>3, <2>5
<1>10. CancellationsAreTrue(after)
  BY <1>5, <1>7 DEF TrueOfChain, CancellationsAreTrue
<1> QED
  BY <1>2, <1>8, <1>9, <1>10 DEF TrueOfChain

LEMMA IngestedTrue ==
    ASSUME NEW d \in Databases, TrueOfChain(d), NEW e, WellFormed(e), Happened(e)
    PROVE  TrueOfChain(Ingested(d, e))
<1>1. ApplyEvent(d, e) \in Databases /\ Ingested(d, e) \in Databases
  BY ApplyEventType, IngestedType
<1>2. TrueOfChain(ApplyEvent(d, e))
  <2>1. CASE e.type = "order-confirmed"
    <3>1. ApplyOrderConfirmed(d, e) \in Databases
      BY <1>1, <2>1 DEF ApplyEvent
    <3>2. PICK o \in Orders : e.tx = Create(o)
      BY <2>1 DEF WellFormed
    <3>3. OrderOf(e) = o
      BY <3>2, OrderOfEvent
    <3>4. /\ ApplyOrderConfirmed(d, e).trades = d.trades
          /\ \A x \in Orders \ {o} : ApplyOrderConfirmed(d, e).orders[x] = d.orders[x]
          /\ ApplyOrderConfirmed(d, e).orders[o] = d.orders[o]
             \/ ApplyOrderConfirmed(d, e).orders[o].status = "LIVE"
      BY <3>3 DEF ApplyOrderConfirmed, Databases, OrderDocs, NotIndexed
    <3>5. TrueOfChain(ApplyOrderConfirmed(d, e))
      BY <3>1, <3>4, FewerClaims
    <3> QED
      BY <2>1, <3>5 DEF ApplyEvent
  <2>2. CASE e.type = "order-cancelled"
    BY <2>2, ApplyCancellationTrue DEF ApplyEvent
  <2>3. CASE e.type = "settlement-submitted"
    <3> DEFINE doc(o) == [d.orders[o] EXCEPT !.status = "PENDING", !.pendingTx = e.tx]
               changed == [o \in e.tx.of |-> doc(o)]
    <3>1. e.tx \in Settlements
      BY <2>3 DEF WellFormed
    <3>2. \A o \in Orders : doc(o) \in OrderDocs /\ doc(o).status = "PENDING"
      BY <3>1 DEF Databases, OrderDocs, Statuses
    <3>3. ApplySettlementSubmitted(d, e) \in {d, WithOrders(d, changed)}
      BY DEF ApplySettlementSubmitted
    <3> HIDE DEF doc
    <3>4. DOMAIN changed = e.tx.of /\ \A o \in e.tx.of : changed[o] = doc(o)
      OBVIOUS
    <3> HIDE DEF changed
    <3>5. /\ WithOrders(d, changed) \in Databases /\ WithOrders(d, changed).trades = d.trades
          /\ \A o \in Orders : WithOrders(d, changed).orders[o] = d.orders[o]
                             \/ WithOrders(d, changed).orders[o].status = "PENDING"
      BY <3>2, <3>4, WithOrdersType
    <3>6. TrueOfChain(WithOrders(d, changed))
      BY <3>5, FewerClaims
    <3> QED
      BY <2>3, <3>3, <3>6 DEF ApplyEvent
  <2>4. CASE e.type = "trade-confirmed"
    BY <2>4, ApplyTradeTrue DEF ApplyEvent
  <2>5. CASE e.type = "chain-reorg"
    BY <2>5, ApplyReorgTrue DEF ApplyEvent
  <2> QED
    BY <2>1, <2>2, <2>3, <2>4, <2>5 DEF WellFormed, Events, EventTypes
<1>3. \/ Ingested(d, e) = d
      \/ /\ Ingested(d, e).orders = ApplyEvent(d, e).orders
         /\ Ingested(d, e).trades = ApplyEvent(d, e).trades
  BY <1>1 DEF Ingested, Databases
<1> QED
  BY <1>1, <1>2, <1>3, FewerClaims

LEMMA ReconcileTrue ==
    ASSUME ChainTypeOK, NEW d \in Databases, TrueOfChain(d), NEW o \in Orders
    PROVE  TrueOfChain(CheckOrderLiveness(d, o)) /\ TrueOfChain(ReconcileSpentOrder(d, o))
<1>1. SpentOn(chain, o) => TrueOfChain(Ingested(d, SpendConfirmed(Spender(o))))
  BY SpenderIsCommitted, SpendConfirmedEvent, IngestedTrue
<1> QED
  BY <1>1 DEF CheckOrderLiveness, ReconcileSpentOrder

LEMMA RetriedTrue ==
    ASSUME ChainTypeOK, db \in Databases, TrueOfChain(db), NEW o \in Orders,
           NEW doc \in OrderDocs, NEW rejected \in BOOLEAN
    PROVE  TrueOfChain(Retried(o, doc, rejected))
<1> DEFINE tx == doc.pendingTx
           extended == [db EXCEPT !.orders[o].reservedUntil = "running"]
<1>1. tx \in Settlements \cup {NoTx}
  BY DEF OrderDocs
<1>2. TrueOfChain(RevertToLive(db, o)) /\ TrueOfChain(ReconcileSpentOrder(db, o))
  BY OwnWritesTrue, ReconcileTrue
<1>3. TrueOfChain(extended)
  <2>1. extended \in Databases /\ extended.trades = db.trades
    BY DEF Databases, OrderDocs
  <2>2. \A x \in Orders : /\ extended.orders[x].status = db.orders[x].status
                          /\ extended.orders[x].pendingTx = db.orders[x].pendingTx
                          /\ extended.orders[x].spent = db.orders[x].spent
    BY DEF Databases, OrderDocs
  <2> QED
    BY <2>1, <2>2, FewerClaims
<1>4. tx # NoTx /\ Committed(tx) => TrueOfChain(Ingested(db, SpendConfirmed(tx)))
  BY <1>1, TransactionKinds, SpendConfirmedEvent, IngestedTrue
<1> HIDE DEF extended
<1>5. CASE tx = NoTx
  <2>1. ~Committed(tx) /\ ~Gone(tx)
    BY <1>5, CommittedBlock, TransactionKinds DEF NoTx, Gone
  <2> QED
    BY <1>2, <1>5, <2>1 DEF Retried
<1>6. CASE tx # NoTx /\ Committed(tx)
  BY <1>2, <1>4, <1>6 DEF Retried, Gone
<1>7. CASE tx # NoTx /\ ~Committed(tx) /\ Gone(tx)
  BY <1>2, <1>7 DEF Retried
<1>8. CASE tx # NoTx /\ ~Committed(tx) /\ ~Gone(tx)
  BY <1>3, <1>8 DEF Retried, extended
<1> QED
  BY <1>5, <1>6, <1>7, <1>8

LEMMA PrefixIsKept ==
    ASSUME NEW c \in Hashes, NEW longer \in Hashes, Len(longer) = Len(c) + 1,
           \A h \in 1..Len(c) : longer[h] = c[h], NEW n \in 1..Len(c)
    PROVE  SubSeq(longer, 1, n) = SubSeq(c, 1, n)
<1>1. n \in Int /\ n >= 1 /\ \A h \in 1..n : c[h] \in Blocks /\ longer[h] \in Blocks /\ longer[h] = c[h]
  BY DEF Hashes
<1>2. /\ SubSeq(c, 1, n) \in Seq(Blocks) /\ Len(SubSeq(c, 1, n)) = n
      /\ \A i \in 1..n : SubSeq(c, 1, n)[i] = c[i]
  BY <1>1, SubSeqProperties
<1>3. /\ SubSeq(longer, 1, n) \in Seq(Blocks) /\ Len(SubSeq(longer, 1, n)) = n
      /\ \A i \in 1..n : SubSeq(longer, 1, n)[i] = longer[i]
  BY <1>1, SubSeqProperties
<1> QED
  BY <1>1, <1>2, <1>3, SeqEqual

\* On a chain that is extended, and on which no transaction is in two blocks,
\* what is committed stays where it is.
LEMMA CommittedStays ==
    ASSUME ChainTypeOK, ChainTypeOK', NEW block, chain' = Append(chain, block), ValidChain(chain'),
           NEW tx, Committed(tx)
    PROVE  Committed(tx)' /\ BlockOf(tx)' = BlockOf(tx)
<1>1. /\ Tip \in Nat /\ Tip' = Tip + 1
      /\ \A h \in 1..Tip : chain'[h] = chain[h]
  BY DEF Tip, ChainTypeOK, Hashes
<1>2. HeightOf(tx) \in 1..Tip /\ tx \in chain'[HeightOf(tx)].txs
  BY <1>1, CommittedBlock
<1>3. Committed(tx)'
  BY <1>1, <1>2 DEF Committed, TxsOf, Tip, ChainTypeOK, Hashes
<1>4. HeightOf(tx)' \in 1..Tip' /\ tx \in chain'[HeightOf(tx)'].txs
  <2>1. HeightOf(tx)' = CHOOSE h \in 1..Tip' : tx \in chain'[h].txs
    BY DEF HeightOf
  <2>2. HeightOf(tx) \in 1..Tip'
    BY <1>1, <1>2
  <2>3. \E h \in 1..Tip' : tx \in chain'[h].txs
    BY <1>2, <2>2, Zenon
  <2> QED
    BY <2>1, <2>3
<1>5. HeightOf(tx)' = HeightOf(tx)
  BY <1>1, <1>2, <1>4 DEF ValidChain, Tip, ChainTypeOK, Hashes
<1>6. SubSeq(chain', 1, HeightOf(tx)) = SubSeq(chain, 1, HeightOf(tx))
  BY <1>1, <1>2, PrefixIsKept DEF Tip, ChainTypeOK
<1> QED
  BY <1>3, <1>5, <1>6 DEF BlockOf, Hash

\* A true projection stays true when the chain stands still or grows.
LEMMA TrueWhenChainGrows ==
    ASSUME ChainTypeOK, ChainTypeOK', db \in Databases, TrueOfChain(db), db' = db,
           \/ chain' = chain
           \/ \E block : chain' = Append(chain, block) /\ ValidChain(chain')
    PROVE  TrueOfChain(db)'
<1>1. \A tx : Committed(tx) => Committed(tx)' /\ BlockOf(tx)' = BlockOf(tx)
  <2>1. CASE chain' = chain
    BY <2>1 DEF Committed, BlockOf, Hash, HeightOf, Tip
  <2>2. CASE \E block : chain' = Append(chain, block) /\ ValidChain(chain')
    BY <2>2, CommittedStays
  <2> QED
    BY <2>1, <2>2
<1>2. TradesAreTrue(db)'
  BY <1>1 DEF TrueOfChain, TradesAreTrue
<1>3. FillsAreTrue(db)'
  BY <1>1 DEF TrueOfChain, FillsAreTrue
<1>4. CancellationsAreTrue(db)'
  BY <1>1 DEF TrueOfChain, CancellationsAreTrue
<1> QED
  BY <1>2, <1>3, <1>4 DEF TrueOfChain

LEMMA TrueInit == Init => TrueOfChain(db)
<1> SUFFICES ASSUME Init PROVE TrueOfChain(db)
  OBVIOUS
<1>1. /\ \A o \in Orders : db.orders[o].status = "NOT_INDEXED"
      /\ \A tx \in Settlements : db.trades[tx].status = "NONE"
  BY DEF Init, IngestionInit, NotIndexed, NoTrade
<1> QED
  BY <1>1 DEF TrueOfChain, TradesAreTrue, FillsAreTrue, CancellationsAreTrue

\* A step that leaves the chain alone and turns the database into a true one
\* keeps the projection true.
LEMMA TrueWhenChainStands ==
    ASSUME chain' = chain, TrueOfChain(db')
    PROVE  TrueOfChain(db)'
BY DEF TrueOfChain, TradesAreTrue, FillsAreTrue, CancellationsAreTrue,
       Committed, BlockOf, Hash, HeightOf, Tip

\* Whatever the bot, a crash or another producer writes is true; what is left
\* is what the chain does to what was written.
LEMMA TrueStep ==
    ASSUME TypeOK, TypeOK', TrueOfChain(db), [Next]_vars,
           Environment => TrueOfChain(db)'
    PROVE  TrueOfChain(db)'
<1>a. ChainTypeOK /\ ChainTypeOK' /\ db \in Databases /\ db' \in Databases
  BY DEF TypeOK
<1>b. pc \in TradeSteps => Buy \in Orders /\ Sell \in Orders /\ OurTx \in Settlements
  BY DEF TypeOK, Buy, Sell, OurTx, Settlements, Orders
<1>c. chain' = chain /\ db' = db => TrueOfChain(db)'
  BY <1>a, TrueWhenChainGrows
<1>1. CASE StartTick
  BY <1>1, <1>c DEF StartTick, chainVars
<1>2. CASE DetectReorg
  BY <1>2, <1>c DEF DetectReorg, chainVars
<1>3. CASE RollBack
  <2>1. TrueOfChain(Ingested(db, ChainReorg(pin.block, pin.ancestor)))
    BY <1>a, ChainReorgEvent, IngestedTrue DEF TypeOK
  <2> QED
    BY <1>3, <1>c, <2>1, TrueWhenChainStands DEF RollBack, chainVars
<1>4. CASE Rewind
  BY <1>4, <1>c DEF Rewind, chainVars
<1>5. CASE Scan
  BY <1>5, <1>c DEF Scan, chainVars
<1>6. ASSUME NEW o \in Orders, Index(o) PROVE TrueOfChain(db)'
  <2>1. Committed(Create(o)) => TrueOfChain(Ingested(db, OrderConfirmed(o)))
    BY <1>a, OrderConfirmedEvent, IngestedTrue
  <2> QED
    BY <1>6, <1>c, <2>1, TrueWhenChainStands DEF Index, chainVars
<1>7. CASE SaveCheckpoint
  BY <1>7, <1>c DEF SaveCheckpoint, chainVars
<1>8. ASSUME NEW o \in Orders, Sweep(o) PROVE TrueOfChain(db)'
  BY <1>8, <1>a, ReconcileTrue, TrueWhenChainStands DEF Sweep, chainVars
<1>9. CASE StartRetry
  BY <1>9, <1>c DEF StartRetry, chainVars
<1>10. ASSUME NEW o \in Orders, Retry(o) PROVE TrueOfChain(db)'
  <2>1. o \in DOMAIN seen /\ seen[o] \in OrderDocs
    BY <1>10 DEF Retry, TypeOK
  <2>2. \A rejected \in BOOLEAN : TrueOfChain(Retried(o, seen[o], rejected))
    BY <1>a, <2>1, RetriedTrue
  <2> QED
    BY <1>10, <2>2, TrueWhenChainStands DEF Retry, chainVars
<1>11. CASE RefreshBook
  BY <1>11, <1>c DEF RefreshBook, chainVars
<1>12. ASSUME NEW b \in Buys, NEW s \in Sells, StartTrade(b, s) PROVE TrueOfChain(db)'
  <2>1. TrueOfChain(Reserve(db, b))
    BY <1>a, OwnWritesTrue DEF Orders
  <2> QED
    BY <1>12, <1>c, <2>1, TrueWhenChainStands DEF StartTrade, chainVars
<1>13. CASE EndTick
  BY <1>13, <1>c DEF EndTick, chainVars
<1>14. CASE ReserveSell
  <2>1. TrueOfChain(Reserve(db, Sell)) /\ TrueOfChain(RevertToLive(db, Buy))
    BY <1>14, <1>a, <1>b, OwnWritesTrue DEF ReserveSell, TradeSteps
  <2> QED
    BY <1>14, <2>1, TrueWhenChainStands DEF ReserveSell, chainVars
<1>d. pc \in TradeSteps =>
        TrueOfChain(CheckOrderLiveness(CheckOrderLiveness(db, Buy), Sell))
  BY <1>a, <1>b, ReconcileType, ReconcileTrue
<1>15. CASE CheckLegs
  BY <1>15, <1>d, TrueWhenChainStands DEF CheckLegs, TradeSteps, chainVars
<1>16. CASE Submit
  BY <1>16, <1>c DEF Submit
<1>17. CASE Release
  <2>1. TrueOfChain(RevertToLive(RevertToLive(db, Buy), Sell))
    BY <1>17, <1>a, <1>b, OwnWritesType, OwnWritesTrue DEF Release, TradeSteps
  <2> QED
    BY <1>17, <2>1, TrueWhenChainStands DEF Release, chainVars
<1>18. CASE Record
  <2> DEFINE doc(o) == [db.orders[o] EXCEPT !.status = "PENDING", !.pendingTx = OurTx]
             changed == [o \in {Buy, Sell} |-> doc(o)]
             direct == WithOrders(db, changed)
  <2>1. Buy \in Orders /\ Sell \in Orders /\ OurTx \in Settlements
    BY <1>18, <1>b DEF Record, TradeSteps
  <2>2. TrueOfChain(Ingested(db, SettlementSubmitted(OurTx)))
    BY <1>a, <2>1, SettlementSubmittedEvent, IngestedTrue
  <2>3. db' \in {Ingested(db, SettlementSubmitted(OurTx)), direct} /\ chain' = chain
    BY <1>18 DEF Record, chainVars
  <2>4. \A o \in Orders : doc(o) \in OrderDocs /\ doc(o).status = "PENDING"
    BY <1>a, <2>1 DEF Databases, OrderDocs, Statuses
  <2> HIDE DEF doc
  <2>5. DOMAIN changed = {Buy, Sell} /\ \A o \in {Buy, Sell} : changed[o] = doc(o)
    OBVIOUS
  <2> HIDE DEF changed
  <2>6. /\ direct \in Databases /\ direct.trades = db.trades
        /\ \A o \in Orders : direct.orders[o] = db.orders[o] \/ direct.orders[o].status = "PENDING"
    BY <1>a, <2>1, <2>4, <2>5, WithOrdersType
  <2>7. TrueOfChain(direct)
    BY <1>a, <2>6, FewerClaims
  <2> QED
    BY <2>2, <2>3, <2>7, TrueWhenChainStands
<1>19. CASE Recheck
  BY <1>19, <1>d, TrueWhenChainStands DEF Recheck, TradeSteps, chainVars
<1>20. CASE Environment
  BY <1>20
<1>21. ASSUME NEW o \in Orders, Expire(o) PROVE TrueOfChain(db)'
  <2>1. /\ db'.trades = db.trades
        /\ \A x \in Orders : /\ db'.orders[x].status = db.orders[x].status
                             /\ db'.orders[x].pendingTx = db.orders[x].pendingTx
                             /\ db'.orders[x].spent = db.orders[x].spent
    BY <1>21, <1>a DEF Expire, Databases, OrderDocs
  <2>2. TrueOfChain(db')
    BY <1>a, <2>1, FewerClaims
  <2> QED
    BY <1>21, <2>2, TrueWhenChainStands DEF Expire, chainVars
<1>22. CASE Crash
  BY <1>22, <1>c DEF Crash, chainVars
<1>23. CASE Post
  <2>1. \A o \in Orders : Committed(Create(o)) => TrueOfChain(Ingested(db, OrderConfirmed(o)))
    BY <1>a, OrderConfirmedEvent, IngestedTrue
  <2>2. \A tx \in Transactions : (tx.kind # "create" /\ Committed(tx)) =>
          TrueOfChain(Ingested(db, SpendConfirmed(tx)))
    BY <1>a, SpendConfirmedEvent, IngestedTrue
  <2> QED
    BY <1>23, <2>1, <2>2, TrueWhenChainStands DEF Post, chainVars
<1>24. CASE UNCHANGED vars
  BY <1>24, <1>c DEF vars, chainVars
<1> QED
  BY <1>1, <1>2, <1>3, <1>4, <1>5, <1>6, <1>7, <1>8, <1>9, <1>10, <1>11, <1>12, <1>13,
     <1>14, <1>15, <1>16, <1>17, <1>18, <1>19, <1>20, <1>21, <1>22, <1>23, <1>24
  DEF Next, BotStep

LEMMA GrowthIsHarmless ==
    ASSUME MaxReorgs = 0, TypeOK, TypeOK', TrueOfChain(db), Environment
    PROVE  TrueOfChain(db)'
<1>a. ChainTypeOK /\ ChainTypeOK' /\ db \in Databases
  BY DEF TypeOK
<1>1. db' = db /\ ChainNext
  BY DEF Environment
<1>2. ~Reorg
  BY <1>a DEF Reorg, ChainTypeOK
<1>3. chain' = chain \/ \E block : chain' = Append(chain, block) /\ ValidChain(chain')
  <2>1. CASE MineBlock
    <3>1. PICK txs \in SUBSET pool :
            LET longer == Append(chain, [miner |-> UsualMiner, txs |-> txs])
            IN  ValidChain(longer) /\ chain' = longer
      BY <2>1 DEF MineBlock
    <3>2. ValidChain(chain')
      BY <3>1
    <3> QED
      BY <3>1, <3>2
  <2>2. CASE Evict
    BY <2>2 DEF Evict
  <2>3. CASE SubmitOther
    BY <2>3 DEF SubmitOther
  <2> QED
    BY <1>1, <1>2, <2>1, <2>2, <2>3 DEF ChainNext
<1> QED
  BY <1>a, <1>1, <1>3, TrueWhenChainGrows

\* On a chain that only grows, every trade the projection holds is a committed
\* settlement, and every FILLED or CANCELED order was spent by the transaction
\* and in the block on record: through crashes, lost answers, duplicates, other
\* matchers and other event producers.
THEOREM ProjectionStaysTrue ==
    ASSUME MaxReorgs = 0
    PROVE  Spec => []ProjectionIsTrue
<1>1. Init => TypeOK /\ TrueOfChain(db)
  BY TypeInit, TrueInit
<1>2. (TypeOK /\ TrueOfChain(db)) /\ [Next]_vars => (TypeOK /\ TrueOfChain(db))'
  BY TypeStep, TrueStep, GrowthIsHarmless
<1>3. TypeOK /\ TrueOfChain(db) => ProjectionIsTrue
  BY DEF TrueOfChain, ProjectionIsTrue
<1> QED
  BY <1>1, <1>2, <1>3, PTL DEF Spec

---------------------------------------------------------------------------
(* The scan                                                                *)

\* An order the book can hold.
Present(d, o) == d.orders[o].status \notin {"NOT_INDEXED", "ORPHANED"}

\* An order whose confirmation was processed is present.
ConfirmedOnce(d) ==
    \A o \in Orders, id \in d.processed :
      (id[1] = "order-confirmed" /\ id[2] = Create(o)) => Present(d, o)

\* The blocks whose rollback was processed.
Reverted(d) == {block \in Hashes : <<"chain-reorg", NoTx, block>> \in d.processed}

\* What every write of the bot but a rollback keeps.
Advances(d, e) ==
    /\ \A o \in Orders : Present(d, o) => Present(e, o)
    /\ ConfirmedOnce(d) => ConfirmedOnce(e)
    /\ Reverted(e) = Reverted(d)

LEMMA AdvancesComposes ==
    ASSUME NEW d, NEW e, NEW f, Advances(d, e), Advances(e, f)
    PROVE  Advances(d, f)
BY DEF Advances

LEMMA SameOrBetterAdvances ==
    ASSUME NEW d, NEW e, e.processed = d.processed,
           \A o \in Orders : e.orders[o].status = d.orders[o].status \/ Present(e, o)
    PROVE  Advances(d, e)
BY DEF Advances, ConfirmedOnce, Present, Reverted

LEMMA OwnWritesAdvance ==
    ASSUME NEW d \in Databases, NEW o \in Orders
    PROVE  Advances(d, RevertToLive(d, o)) /\ Advances(d, Reserve(d, o))
<1>1. /\ RevertToLive(d, o).processed = d.processed
      /\ \A x \in Orders : RevertToLive(d, o).orders[x] = d.orders[x]
                           \/ RevertToLive(d, o).orders[x].status = "LIVE"
  BY DEF RevertToLive, Databases, OrderDocs
<1>2. /\ Reserve(d, o).processed = d.processed
      /\ \A x \in Orders : Reserve(d, o).orders[x] = d.orders[x]
                           \/ Reserve(d, o).orders[x].status = "RESERVED"
  BY DEF Reserve, Databases, OrderDocs
<1> QED
  BY <1>1, <1>2, SameOrBetterAdvances DEF Present

\* Every event but a rollback leaves an order as it was or in the book, and a
\* confirmation leaves its order in the book.
LEMMA ApplyEventAdvances ==
    ASSUME NEW d \in Databases, NEW e, WellFormed(e), e.type # "chain-reorg"
    PROVE  /\ ApplyEvent(d, e).processed = d.processed
           /\ \A o \in Orders : ApplyEvent(d, e).orders[o] = d.orders[o] \/ Present(ApplyEvent(d, e), o)
           /\ e.type = "order-confirmed" => Present(ApplyEvent(d, e), OrderOf(e))
<1>1. CASE e.type = "order-confirmed"
  <2>1. PICK o \in Orders : e.tx = Create(o)
    BY <1>1 DEF WellFormed
  <2>2. OrderOf(e) = o
    BY <2>1, OrderOfEvent
  <2> DEFINE doc == [NotIndexed EXCEPT !.status = "LIVE", !.created = e.block]
             a == [d EXCEPT !.orders[o] = doc]
  <2>3. CASE Present(d, o) /\ ApplyOrderConfirmed(d, e) = d
    BY <1>1, <2>2, <2>3 DEF ApplyEvent
  <2>4. CASE ApplyOrderConfirmed(d, e) = a
    <3>1. /\ a.processed = d.processed /\ a.orders[o] = doc
          /\ \A x \in Orders \ {o} : a.orders[x] = d.orders[x]
      BY DEF Databases
    <3>2. doc.status = "LIVE"
      BY DEF NotIndexed
    <3> HIDE DEF a, doc
    <3> QED
      BY <1>1, <2>2, <2>4, <3>1, <3>2 DEF ApplyEvent, Present
  <2> QED
    BY <2>2, <2>3, <2>4 DEF ApplyOrderConfirmed, Indexed, Present
<1>2. CASE e.type = "order-cancelled"
  <2>1. PICK o \in Orders : e.tx = Cancel(o)
    BY <1>2 DEF WellFormed
  <2>2. OrderOf(e) = o
    BY <2>1, OrderOfEvent
  <2>3. /\ ApplyOrderCancelled(d, e).processed = d.processed
        /\ \A x \in Orders : ApplyOrderCancelled(d, e).orders[x] = d.orders[x]
                             \/ ApplyOrderCancelled(d, e).orders[x].status = "CANCELED"
    BY <2>2 DEF ApplyOrderCancelled, Databases, OrderDocs
  <2> QED
    BY <1>2, <2>3 DEF ApplyEvent, Present
<1>3. CASE e.type = "settlement-submitted"
  <2> DEFINE doc(o) == [d.orders[o] EXCEPT !.status = "PENDING", !.pendingTx = e.tx]
             changed == [o \in e.tx.of |-> doc(o)]
  <2>1. e.tx \in Settlements
    BY <1>3 DEF WellFormed
  <2>2. \A o \in Orders : doc(o) \in OrderDocs /\ doc(o).status = "PENDING"
    BY <2>1 DEF Databases, OrderDocs, Statuses
  <2>3. ApplySettlementSubmitted(d, e) \in {d, WithOrders(d, changed)}
    BY DEF ApplySettlementSubmitted
  <2> HIDE DEF doc
  <2>4. DOMAIN changed = e.tx.of /\ \A o \in e.tx.of : changed[o] = doc(o)
    OBVIOUS
  <2> HIDE DEF changed
  <2>5. /\ WithOrders(d, changed).processed = d.processed
        /\ \A o \in Orders : WithOrders(d, changed).orders[o] = d.orders[o]
                           \/ WithOrders(d, changed).orders[o].status = "PENDING"
    BY <2>2, <2>4, WithOrdersType
  <2> QED
    BY <1>3, <2>3, <2>5 DEF ApplyEvent, Present
<1>4. CASE e.type = "trade-confirmed"
  <2> DEFINE doc(o) == [d.orders[o] EXCEPT !.status = "FILLED", !.spent = e.block, !.pendingTx = e.tx]
             changed == [o \in e.tx.of |-> doc(o)]
             w == WithOrders(d, changed)
             traded == [w EXCEPT !.trades[e.tx] = [status |-> "CONFIRMED", block |-> e.block]]
  <2>1. e.tx \in Settlements /\ e.block \in Hashes
    BY <1>4 DEF WellFormed, Events
  <2>2. \A o \in Orders : doc(o) \in OrderDocs /\ doc(o).status = "FILLED"
    BY <2>1 DEF Databases, OrderDocs, Statuses
  <2>3. ApplyTradeConfirmed(d, e) \in {d, traded}
    BY DEF ApplyTradeConfirmed
  <2> HIDE DEF doc
  <2>4. DOMAIN changed = e.tx.of /\ \A o \in e.tx.of : changed[o] = doc(o)
    OBVIOUS
  <2> HIDE DEF changed
  <2>5. /\ w \in Databases /\ w.processed = d.processed
        /\ \A o \in Orders : w.orders[o] = d.orders[o] \/ w.orders[o].status = "FILLED"
    BY <2>2, <2>4, WithOrdersType
  <2> HIDE DEF w
  <2>6. traded.processed = w.processed /\ traded.orders = w.orders
    BY <2>5 DEF Databases
  <2> HIDE DEF traded
  <2> QED
    BY <1>4, <2>3, <2>5, <2>6 DEF ApplyEvent, Present
<1> QED
  BY <1>1, <1>2, <1>3, <1>4 DEF WellFormed, Events, EventTypes

LEMMA IngestedAdvances ==
    ASSUME NEW d \in Databases, NEW e, WellFormed(e), e.type # "chain-reorg"
    PROVE  Advances(d, Ingested(d, e))
<1> DEFINE a == ApplyEvent(d, e)
           b == [a EXCEPT !.processed = @ \cup {EventId(e)}]
<1>1. a \in Databases /\ a.processed = d.processed
      /\ \A o \in Orders : a.orders[o] = d.orders[o] \/ Present(a, o)
  BY ApplyEventType, ApplyEventAdvances
<1>2. \A o \in Orders : e.type = "order-confirmed" /\ e.tx = Create(o) => Present(a, o)
  BY ApplyEventAdvances, OrderOfEvent
<1>3. Ingested(d, e) \in {d, b}
  BY DEF Ingested
<1>4. EventId(e)[1] = e.type /\ EventId(e)[2] = e.tx
  BY DEF EventId
<1> HIDE DEF a
<1>5. b.orders = a.orders /\ b.processed = d.processed \cup {EventId(e)}
  BY <1>1 DEF Databases
<1> HIDE DEF b
<1>6. \A o \in Orders : (Present(d, o) => Present(b, o)) /\ (Present(a, o) => Present(b, o))
  BY <1>1, <1>5 DEF Present
<1>7. ConfirmedOnce(d) => ConfirmedOnce(b)
  BY <1>2, <1>4, <1>5, <1>6 DEF ConfirmedOnce
<1>8. Reverted(b) = Reverted(d)
  BY <1>4, <1>5 DEF Reverted
<1>9. Advances(d, b) /\ Advances(d, d)
  BY <1>6, <1>7, <1>8 DEF Advances
<1> QED
  BY <1>3, <1>9

LEMMA ReconcileAdvances ==
    ASSUME ChainTypeOK, NEW d \in Databases, NEW o \in Orders
    PROVE  Advances(d, CheckOrderLiveness(d, o)) /\ Advances(d, ReconcileSpentOrder(d, o))
<1>1. SpentOn(chain, o) => Advances(d, Ingested(d, SpendConfirmed(Spender(o))))
  <2>1. SpendConfirmed(Spender(o)).type # "chain-reorg"
    BY DEF SpendConfirmed
  <2> QED
    BY <2>1, SpenderIsCommitted, SpendConfirmedEvent, IngestedAdvances
<1>2. Advances(d, d)
  BY DEF Advances
<1> QED
  BY <1>1, <1>2 DEF CheckOrderLiveness, ReconcileSpentOrder

LEMMA RetriedAdvances ==
    ASSUME ChainTypeOK, db \in Databases, NEW o \in Orders,
           NEW doc \in OrderDocs, NEW rejected \in BOOLEAN
    PROVE  Advances(db, Retried(o, doc, rejected))
<1> DEFINE tx == doc.pendingTx
           extended == [db EXCEPT !.orders[o].reservedUntil = "running"]
<1>1. tx \in Settlements \cup {NoTx}
  BY DEF OrderDocs
<1>2. Advances(db, RevertToLive(db, o)) /\ Advances(db, ReconcileSpentOrder(db, o)) /\ Advances(db, db)
  BY OwnWritesAdvance, ReconcileAdvances DEF Advances
<1>3. Advances(db, extended)
  <2>1. extended.processed = db.processed /\ \A x \in Orders : extended.orders[x].status = db.orders[x].status
    BY DEF Databases, OrderDocs
  <2> HIDE DEF extended
  <2> QED
    BY <2>1, SameOrBetterAdvances
<1>4. tx # NoTx /\ Committed(tx) => Advances(db, Ingested(db, SpendConfirmed(tx)))
  <2>1. SpendConfirmed(tx).type # "chain-reorg"
    BY DEF SpendConfirmed
  <2> QED
    BY <1>1, <2>1, TransactionKinds, SpendConfirmedEvent, IngestedAdvances
<1> HIDE DEF extended
<1>5. CASE tx = NoTx
  <2>1. ~Committed(tx) /\ ~Gone(tx)
    BY <1>5, CommittedBlock, TransactionKinds DEF NoTx, Gone
  <2> QED
    BY <1>2, <1>5, <2>1 DEF Retried
<1>6. CASE tx # NoTx /\ Committed(tx)
  BY <1>2, <1>4, <1>6 DEF Retried, Gone
<1>7. CASE tx # NoTx /\ ~Committed(tx) /\ Gone(tx)
  BY <1>2, <1>7 DEF Retried
<1>8. CASE tx # NoTx /\ ~Committed(tx) /\ ~Gone(tx)
  BY <1>2, <1>3, <1>8 DEF Retried, extended
<1> QED
  BY <1>5, <1>6, <1>7, <1>8

\* Every step but a rollback advances.
LEMMA StepAdvances ==
    ASSUME TypeOK, [Next]_vars, ~RollBack
    PROVE  Advances(db, db')
<1>a. ChainTypeOK /\ db \in Databases /\ Advances(db, db)
  BY DEF TypeOK, Advances
<1>b. pc \in TradeSteps => Buy \in Orders /\ Sell \in Orders /\ OurTx \in Settlements
  BY DEF TypeOK, Buy, Sell, OurTx, Settlements, Orders
<1>c. pc \in TradeSteps => /\ Advances(db, CheckOrderLiveness(CheckOrderLiveness(db, Buy), Sell))
                           /\ Advances(db, RevertToLive(RevertToLive(db, Buy), Sell))
  BY <1>a, <1>b, ReconcileType, ReconcileAdvances, OwnWritesType, OwnWritesAdvance, AdvancesComposes
<1>d. \A o \in Orders : Committed(Create(o)) => Advances(db, Ingested(db, OrderConfirmed(o)))
  <2>1. \A o \in Orders : OrderConfirmed(o).type # "chain-reorg"
    BY DEF OrderConfirmed
  <2> QED
    BY <1>a, <2>1, OrderConfirmedEvent, IngestedAdvances
<1>1. CASE UNCHANGED db
  BY <1>1, <1>a
<1>2. ASSUME NEW o \in Orders, Index(o) PROVE Advances(db, db')
  BY <1>2, <1>a, <1>d DEF Index
<1>3. ASSUME NEW o \in Orders, Sweep(o) PROVE Advances(db, db')
  BY <1>3, <1>a, ReconcileAdvances DEF Sweep
<1>4. ASSUME NEW o \in Orders, Retry(o) PROVE Advances(db, db')
  <2>1. o \in DOMAIN seen /\ seen[o] \in OrderDocs
    BY <1>4 DEF Retry, TypeOK
  <2>2. PICK rejected \in BOOLEAN : db' = Retried(o, seen[o], rejected)
    BY <1>4 DEF Retry
  <2> QED
    BY <1>a, <2>1, <2>2, RetriedAdvances
<1>5. ASSUME NEW b \in Buys, NEW s \in Sells, StartTrade(b, s) PROVE Advances(db, db')
  BY <1>5, <1>a, OwnWritesAdvance DEF StartTrade, Orders
<1>6. CASE ReserveSell
  BY <1>6, <1>a, <1>b, OwnWritesAdvance DEF ReserveSell, TradeSteps
<1>7. CASE CheckLegs \/ Recheck \/ Release
  BY <1>7, <1>c DEF CheckLegs, Recheck, Release, TradeSteps
<1>8. CASE Record
  <2> DEFINE doc(o) == [db.orders[o] EXCEPT !.status = "PENDING", !.pendingTx = OurTx]
             changed == [o \in {Buy, Sell} |-> doc(o)]
             direct == WithOrders(db, changed)
  <2>1. Buy \in Orders /\ Sell \in Orders /\ OurTx \in Settlements
    BY <1>8, <1>b DEF Record, TradeSteps
  <2>2. Advances(db, Ingested(db, SettlementSubmitted(OurTx)))
    <3>1. SettlementSubmitted(OurTx).type # "chain-reorg"
      BY DEF SettlementSubmitted
    <3> QED
      BY <1>a, <2>1, <3>1, SettlementSubmittedEvent, IngestedAdvances
  <2>3. db' \in {Ingested(db, SettlementSubmitted(OurTx)), direct}
    BY <1>8 DEF Record
  <2>4. \A o \in Orders : doc(o) \in OrderDocs /\ doc(o).status = "PENDING"
    <3>1. \A o \in Orders : db.orders[o] \in OrderDocs
      BY <1>a DEF Databases
    <3> QED
      BY <2>1, <3>1 DEF OrderDocs, Statuses
  <2> HIDE DEF doc
  <2>5. DOMAIN changed = {Buy, Sell} /\ \A o \in {Buy, Sell} : changed[o] = doc(o)
    OBVIOUS
  <2> HIDE DEF changed
  <2>6. /\ direct.processed = db.processed
        /\ \A o \in Orders : direct.orders[o] = db.orders[o] \/ direct.orders[o].status = "PENDING"
    BY <1>a, <2>1, <2>4, <2>5, WithOrdersType
  <2> HIDE DEF direct
  <2>7. Advances(db, direct)
    BY <2>6, SameOrBetterAdvances DEF Present
  <2> QED
    BY <2>2, <2>3, <2>7
<1>9. ASSUME NEW o \in Orders, Expire(o) PROVE Advances(db, db')
  <2>1. /\ db'.processed = db.processed
        /\ \A x \in Orders : db'.orders[x].status = db.orders[x].status
    BY <1>9, <1>a DEF Expire, Databases, OrderDocs
  <2> QED
    BY <2>1, SameOrBetterAdvances
<1>10. CASE Post
  <2>1. \A tx \in Transactions : (tx.kind # "create" /\ Committed(tx)) =>
          Advances(db, Ingested(db, SpendConfirmed(tx)))
    <3>1. \A tx \in Transactions : SpendConfirmed(tx).type # "chain-reorg"
      BY DEF SpendConfirmed
    <3> QED
      BY <1>a, <3>1, SpendConfirmedEvent, IngestedAdvances
  <2> QED
    BY <1>10, <1>d, <2>1 DEF Post
<1>11. CASE \/ StartTick \/ DetectReorg \/ Rewind \/ Scan \/ SaveCheckpoint \/ StartRetry \/ RefreshBook
            \/ EndTick \/ Submit \/ Environment \/ Crash \/ UNCHANGED vars
  BY <1>11, <1>1 DEF StartTick, DetectReorg, Rewind, Scan, SaveCheckpoint, StartRetry, RefreshBook,
     EndTick, Submit, Environment, Crash, vars
<1> QED
  BY <1>2, <1>3, <1>4, <1>5, <1>6, <1>7, <1>8, <1>9, <1>10, <1>11 DEF Next, BotStep

---------------------------------------------------------------------------
(* The chain that only grows                                               *)

\* The chain stands still or gets one block.
Grows == chain' = chain \/ \E block : chain' = Append(chain, block) /\ ValidChain(chain')

LEMMA ChainOnlyGrows ==
    ASSUME ChainTypeOK, ChainNext, ~Reorg
    PROVE  Grows /\ UNCHANGED reorgs
<1>1. UNCHANGED reorgs
  BY DEF ChainNext, MineBlock, Evict, SubmitOther
<1>2. CASE MineBlock
  <2>1. PICK txs \in SUBSET pool :
          LET longer == Append(chain, [miner |-> UsualMiner, txs |-> txs])
          IN  ValidChain(longer) /\ chain' = longer
    BY <1>2 DEF MineBlock
  <2>2. ValidChain(chain')
    BY <2>1
  <2> QED
    BY <1>1, <2>1, <2>2 DEF Grows
<1>3. CASE Evict
  BY <1>1, <1>3 DEF Evict, Grows
<1>4. CASE SubmitOther
  BY <1>1, <1>4 DEF SubmitOther, Grows
<1> QED
  BY <1>1, <1>2, <1>3, <1>4 DEF ChainNext

LEMMA PrefixLength ==
    ASSUME NEW c \in Hashes, NEW n \in 0..Len(c)
    PROVE  Len(SubSeq(c, 1, n)) = n /\ SubSeq(c, 1, n) \in Hashes
           /\ \A h \in 1..n : SubSeq(c, 1, n)[h] = c[h]
<1>1. \A h \in 1..n : c[h] \in Blocks
  BY DEF Hashes
<1> QED
  BY <1>1, SubSeqProperties DEF Hashes

LEMMA CanonicalStays ==
    ASSUME ChainTypeOK, ChainTypeOK', Grows, NEW hash \in Hashes, Canonical(hash)
    PROVE  Canonical(hash)'
<1>1. CASE chain' = chain
  BY <1>1 DEF Canonical, Tip, Hash
<1>2. CASE \E block : chain' = Append(chain, block)
  <2>1. /\ Len(chain) \in Nat /\ Len(chain') = Len(chain) + 1 /\ Len(hash) \in Nat
        /\ \A h \in 1..Len(chain) : chain'[h] = chain[h]
    BY <1>2 DEF ChainTypeOK, Hashes
  <2>2. CASE Len(hash) = 0
    <3>1. SubSeq(chain', 1, 0) = <<>> /\ hash = <<>>
      BY <2>2 DEF ChainTypeOK, Hashes
    <3> QED
      BY <2>1, <2>2, <3>1 DEF Canonical, Tip, Hash
  <2>3. CASE Len(hash) # 0
    <3>1. Len(hash) \in 1..Len(chain) /\ SubSeq(chain, 1, Len(hash)) = hash
      BY <2>1, <2>3 DEF Canonical, Tip, Hash
    <3>2. SubSeq(chain', 1, Len(hash)) = SubSeq(chain, 1, Len(hash))
      BY <2>1, <3>1, PrefixIsKept DEF ChainTypeOK
    <3> QED
      BY <2>1, <3>1, <3>2 DEF Canonical, Tip, Hash
  <2> QED
    BY <2>2, <2>3
<1> QED
  BY <1>1, <1>2 DEF Grows

LEMMA NextHeight ==
    ASSUME ChainTypeOK', NEW tx, Committed(tx)'
    PROVE  HeightOf(tx)' \in 1..Tip' /\ tx \in chain'[HeightOf(tx)'].txs /\ HeightOf(tx)' \in Int
<1>1. PICK h \in 1..Len(chain') : tx \in chain'[h].txs
  BY DEF Committed, TxsOf, ChainTypeOK, Hashes
<1>2. HeightOf(tx)' \in 1..Tip' /\ tx \in chain'[HeightOf(tx)'].txs
  BY <1>1 DEF HeightOf, Tip
<1> QED
  BY <1>2

LEMMA CommittedHeight ==
    ASSUME ChainTypeOK, ChainTypeOK', Grows, NEW tx
    PROVE  /\ Committed(tx) => Committed(tx)' /\ HeightOf(tx)' = HeightOf(tx)
           /\ Committed(tx)' => Committed(tx) \/ HeightOf(tx)' > Tip
<1>1. CASE chain' = chain
  BY <1>1 DEF Committed, HeightOf, Tip
<1>2. CASE \E block : chain' = Append(chain, block) /\ ValidChain(chain')
  <2>1. /\ Tip \in Nat /\ Tip' = Tip + 1 /\ \A h \in 1..Tip : chain'[h] = chain[h]
    BY <1>2 DEF ChainTypeOK, Hashes, Tip
  <2>2. ASSUME Committed(tx) PROVE Committed(tx)' /\ HeightOf(tx)' = HeightOf(tx)
    <3>1. Committed(tx)' /\ BlockOf(tx)' = BlockOf(tx)
      BY <1>2, <2>2, CommittedStays
    <3>2. HeightOf(tx) \in 1..Tip
      BY <2>2, CommittedBlock
    <3>3. HeightOf(tx)' \in 1..Tip'
      BY <3>1, NextHeight
    <3>4. Len(BlockOf(tx)) = HeightOf(tx)
      BY <2>1, <3>2, PrefixLength DEF BlockOf, Hash, ChainTypeOK, Tip
    <3>5. Len(BlockOf(tx)') = HeightOf(tx)'
      BY <2>1, <3>3, PrefixLength DEF BlockOf, Hash, ChainTypeOK, Tip
    <3> QED
      BY <3>1, <3>4, <3>5
  <2>3. ASSUME Committed(tx)', HeightOf(tx)' <= Tip PROVE Committed(tx)
    <3>1. HeightOf(tx)' \in 1..Tip' /\ tx \in chain'[HeightOf(tx)'].txs
      BY <2>3, NextHeight
    <3>2. tx \in chain[HeightOf(tx)'].txs /\ HeightOf(tx)' \in DOMAIN chain
      BY <2>1, <2>3, <3>1 DEF Tip, ChainTypeOK, Hashes
    <3> QED
      BY <3>2 DEF Committed, TxsOf
  <2>4. Committed(tx)' => HeightOf(tx)' \in Int
    BY NextHeight
  <2> QED
    BY <2>1, <2>2, <2>3, <2>4
<1> QED
  BY <1>1, <1>2 DEF Grows

\* What is live on the longer chain and was created on the shorter one was
\* live there: a spend is not taken back.
LEMMA LiveWasLive ==
    ASSUME ChainTypeOK, ChainTypeOK', Grows, NEW o \in Orders, LiveCell(o)',
           HeightOf(Create(o))' <= Tip
    PROVE  LiveCell(o) /\ HeightOf(Create(o))' = HeightOf(Create(o))
<1>1. Tip \in Nat /\ (Committed(Create(o))' => HeightOf(Create(o))' \in Int)
  BY NextHeight DEF Tip, ChainTypeOK, Hashes
<1>2. Committed(Create(o)) /\ HeightOf(Create(o))' = HeightOf(Create(o))
  BY <1>1, CommittedHeight DEF LiveCell
<1>3. \A tx : Committed(tx) => Committed(tx)'
  BY CommittedHeight
<1>4. ~SpentOn(chain, o)
  BY <1>3 DEF LiveCell, SpentOn, Committed
<1> QED
  BY <1>2, <1>4 DEF LiveCell

\* The scan's order can be confirmed: its block is buried deep enough.
LEMMA ScannedIsPresent ==
    ASSUME ChainTypeOK, db \in Databases, ConfirmedOnce(db), NEW o \in Orders,
           Committed(Create(o)), HeightOf(Create(o)) <= SafeTip
    PROVE  Present(Ingested(db, OrderConfirmed(o)), o)
<1> DEFINE e == OrderConfirmed(o)
           a == ApplyEvent(db, e)
           b == [a EXCEPT !.processed = @ \cup {EventId(e)}]
<1> SUFFICES Present(Ingested(db, e), o)
  OBVIOUS
<1>1. e.type = "order-confirmed" /\ e.tx = Create(o) /\ e.block = BlockOf(Create(o))
  BY DEF OrderConfirmed
<1>2. EventId(e)[1] = "order-confirmed" /\ EventId(e)[2] = Create(o)
  BY <1>1 DEF EventId
<1>3. WellFormed(e)
  BY OrderConfirmedEvent
<1>4. HeightOf(Create(o)) \in 1..Tip /\ Tip \in Nat
  BY CommittedBlock DEF Tip, ChainTypeOK, Hashes
<1>5. Len(e.block) = HeightOf(Create(o))
  BY <1>1, <1>4, PrefixLength DEF BlockOf, Hash, ChainTypeOK, Tip
<1> HIDE DEF e
<1>6. RequireConfirmed(e) = "ok"
  BY <1>1, <1>4, <1>5, DepthAssumption DEF RequireConfirmed, SafeTip
<1>7. EventId(e) \notin db.processed => Outcome(db, e) = "done"
  BY <1>1, <1>6 DEF Outcome, VerifyEvent, Throws
<1>8. CASE EventId(e) \in db.processed
  BY <1>2, <1>8 DEF Ingested, ConfirmedOnce
<1>9. CASE EventId(e) \notin db.processed
  <2>1. OrderOf(e) = o
    BY <1>1, OrderOfEvent
  <2>2. a \in Databases /\ Present(a, o)
    BY <1>1, <1>3, <2>1, ApplyEventType, ApplyEventAdvances
  <2>3. Ingested(db, e) = b
    BY <1>7, <1>9 DEF Ingested
  <2> HIDE DEF a
  <2>4. b.orders = a.orders
    BY <2>2 DEF Databases
  <2> QED
    BY <2>2, <2>3, <2>4 DEF Present
<1> QED
  BY <1>8, <1>9

---------------------------------------------------------------------------
(* The scan's invariant                                                    *)

\* The checkpoint store has seen the orders that are open at the start; a bot
\* that starts without one is not interrupted and has the endpoint to itself.
CaughtUp ==
    /\ \A cp \in InitialCheckpoints :
         /\ Len(cp) <= Len(InitialChain) /\ SubSeq(InitialChain, 1, Len(cp)) = cp
         /\ \A o \in Orders : Create(o) \in TxsOf(cp) => SpentOn(InitialChain, o)
    /\ InitialCheckpoints = {} => CrashLimit = 0 /\ ~Producers

\* While a range is indexed, what is live in it or below is listed or in work.
RangeCovered ==
    pc = "index" =>
      /\ Canonical(pin.block) /\ Len(pin.block) <= SafeTip
      /\ \A o \in work : Committed(Create(o)) /\ HeightOf(Create(o)) <= Len(pin.block)
      /\ \A o \in Orders : (LiveCell(o) /\ HeightOf(Create(o)) <= Len(pin.block)) =>
                             o \in work \/ Present(db, o)

\* Before the first checkpoint only the scan finds something to do.
NothingYet ==
    checkpoints = {} =>
      /\ InitialCheckpoints = {} /\ pc \notin TradeSteps
      /\ pc # "index" => work = {} /\ \A o \in Orders : ~Indexed(db, o)

ScanInv ==
    /\ \A cp \in checkpoints : Canonical(cp)
    /\ ShallowReorgsStayOut
    /\ ConfirmedOnce(db)
    /\ ScanMissesNothing
    /\ RangeCovered
    /\ NothingYet

LEMMA ScanInit == CaughtUp /\ Init => ScanInv
<1> SUFFICES ASSUME CaughtUp, Init PROVE ScanInv
  OBVIOUS
<1>1. /\ chain = InitialChain /\ checkpoints = InitialCheckpoints /\ pc = "idle" /\ work = {}
      /\ db.processed = {} /\ \A o \in Orders : db.orders[o].status = "NOT_INDEXED"
  BY DEF Init, ChainInit, IngestionInit, NotIndexed
<1>2. ChainTypeOK
  BY TypeInit DEF TypeOK
<1>3. ASSUME NEW cp \in checkpoints
      PROVE  /\ Canonical(cp)
             /\ \A o \in Orders : LiveCell(o) => ~(HeightOf(Create(o)) <= Len(cp))
  <2>1. Len(cp) <= Len(chain) /\ SubSeq(chain, 1, Len(cp)) = cp
        /\ \A o \in Orders : Create(o) \in TxsOf(cp) => SpentOn(chain, o)
    BY <1>1, <1>3 DEF CaughtUp
  <2>2. Len(cp) \in 0..Len(chain)
    BY <1>1, <1>2, <1>3, <2>1, BotConstants DEF ChainTypeOK, Hashes
  <2>3. ASSUME NEW o \in Orders, LiveCell(o), HeightOf(Create(o)) <= Len(cp) PROVE FALSE
    <3>1. HeightOf(Create(o)) \in 1..Tip /\ Create(o) \in chain[HeightOf(Create(o))].txs
      BY <1>2, <2>3, CommittedBlock DEF LiveCell
    <3>2. HeightOf(Create(o)) \in 1..Len(cp)
      BY <2>2, <2>3, <3>1
    <3>3. cp[HeightOf(Create(o))] = chain[HeightOf(Create(o))]
      BY <1>2, <2>1, <2>2, <3>2, PrefixLength DEF ChainTypeOK
    <3>4. DOMAIN cp = 1..Len(cp)
      BY <1>1, <1>3, BotConstants DEF Hashes
    <3> QED
      BY <2>1, <2>3, <3>1, <3>2, <3>3, <3>4 DEF TxsOf, LiveCell
  <2> QED
    BY <2>1, <2>3 DEF Canonical, Tip, Hash
<1>4. ScanMissesNothing
  BY <1>3 DEF ScanMissesNothing
<1> QED
  BY <1>1, <1>3, <1>4 DEF ScanInv, ShallowReorgsStayOut, ConfirmedOnce, RangeCovered, NothingYet, TradeSteps,
     Indexed

\* A step that leaves the chain and the checkpoints alone and takes no order
\* out of the book, and no order out of a range under way.
LEMMA ScanStands ==
    ASSUME TypeOK, ScanInv, chain' = chain, checkpoints' = checkpoints, Advances(db, db'),
           pc' \notin {"rollback", "rewind"},
           pc' = "index" => pc = "index" /\ work' = work /\ pin' = pin,
           NothingYet'
    PROVE  ScanInv'
<1>1. /\ \A o \in Orders : LiveCell(o)' = LiveCell(o) /\ HeightOf(Create(o))' = HeightOf(Create(o))
      /\ \A tx : Committed(tx)' = Committed(tx)
      /\ \A hash : Canonical(hash)' = Canonical(hash)
      /\ SafeTip' = SafeTip
  BY DEF LiveCell, Committed, HeightOf, Tip, Canonical, Hash, SafeTip
<1>2. \A o \in Orders : Present(db, o) => Present(db', o)
  BY DEF Advances
<1>3. ConfirmedOnce(db)'
  BY DEF ScanInv, Advances, ConfirmedOnce, Present
<1>4. ScanMissesNothing'
  BY <1>1, <1>2 DEF ScanInv, ScanMissesNothing, Present
<1>5. RangeCovered'
  <2> SUFFICES ASSUME pc' = "index" PROVE RangeCovered'
    BY DEF RangeCovered
  <2>1. pc = "index" /\ work' = work /\ pin' = pin
    OBVIOUS
  <2>2. RangeCovered /\ Canonical(pin.block)
    BY <2>1 DEF ScanInv, RangeCovered
  <2>3. Canonical(pin.block)'
    BY <2>1, <2>2 DEF Canonical, Hash, Tip
  <2>4. Len(pin.block) <= SafeTip
    BY <2>1, <2>2 DEF RangeCovered
  <2>5. \A o \in work : Committed(Create(o))' /\ HeightOf(Create(o))' <= Len(pin.block)
    BY <1>1, <2>1, <2>2 DEF RangeCovered, TypeOK
  <2>6. \A o \in Orders : (LiveCell(o)' /\ HeightOf(Create(o))' <= Len(pin.block)) =>
                             o \in work \/ Present(db, o)'
    BY <1>1, <1>2, <2>1, <2>2 DEF RangeCovered, Present
  <2> QED
    BY <1>1, <2>1, <2>3, <2>4, <2>5, <2>6 DEF RangeCovered
<1> QED
  BY <1>1, <1>3, <1>4, <1>5 DEF ScanInv, ShallowReorgsStayOut

\* The cursor is above the newest checkpoint, or 0 while there is none.
LEMMA CursorFollowsCheckpoints ==
    ASSUME TypeOK, ScanInv, pc = "scan"
    PROVE  /\ ResolveScanCursor \in Nat
           /\ checkpoints = {} => ResolveScanCursor = 0
           /\ checkpoints # {} => \E cp \in checkpoints : ResolveScanCursor = Len(cp) + 1
<1>1. CASE checkpoints = {}
  <2>1. {Len(db.orders[o].created) : o \in {x \in Orders : Indexed(db, x)}} = {}
    BY <1>1 DEF ScanInv, NothingYet
  <2> QED
    BY <1>1, <2>1 DEF ResolveScanCursor
<1>2. CASE checkpoints # {}
  <2> DEFINE lengths == {Len(cp) : cp \in checkpoints}
  <2>1. Tip \in Nat /\ lengths # {} /\ lengths \in SUBSET (0..Tip)
    <3>1. Tip \in Nat
      BY DEF TypeOK, ChainTypeOK, Hashes, Tip
    <3>2. \A cp \in checkpoints : Len(cp) \in Nat /\ Len(cp) <= Tip
      BY DEF ScanInv, Canonical, TypeOK, Hashes
    <3> QED
      BY <1>2, <3>1, <3>2
  <2> HIDE DEF lengths
  <2>2. \E m \in lengths : \A k \in lengths : k <= m
    BY <2>1, LargestOf
  <2>3. MaxOf(lengths) \in lengths
    BY <2>2 DEF MaxOf
  <2>4. ResolveScanCursor = MaxOf(lengths) + 1
    BY <1>2 DEF ResolveScanCursor, lengths
  <2>5. \E cp \in checkpoints : MaxOf(lengths) = Len(cp)
    BY <2>3 DEF lengths
  <2> QED
    BY <1>2, <2>1, <2>3, <2>4, <2>5
<1> QED
  BY <1>1, <1>2

LEMMA ScanCovers ==
    ASSUME TypeOK, TypeOK', ScanInv, Scan
    PROVE  ScanInv'
<1>1. /\ pc = "scan" /\ UNCHANGED <<chain, db, checkpoints>> /\ ChainTypeOK /\ Advances(db, db)
  BY DEF Scan, chainVars, TypeOK, Advances
<1>2. CASE SafeTip < 0 \/ ResolveScanCursor > SafeTip
  <2>1. pc' = "sweep" /\ work' = {o \in Orders : db.orders[o].status \in {"LIVE", "RESERVED"}}
    BY <1>1, <1>2 DEF Scan, StartSweep, Goto
  <2>2. NothingYet'
    BY <1>1, <2>1 DEF ScanInv, NothingYet, Indexed, TradeSteps
  <2> QED
    BY <1>1, <2>1, <2>2, ScanStands
<1>3. CASE ~(SafeTip < 0 \/ ResolveScanCursor > SafeTip)
  <2>1. /\ pc' = "index" /\ pin'.block = Hash(SafeTip)
        /\ work' = {o \in Orders : LiveCell(o) /\ HeightOf(Create(o)) \in ResolveScanCursor..SafeTip}
    BY <1>3 DEF Scan
  <2>2. Tip \in Nat /\ SafeTip \in 0..Tip /\ ResolveScanCursor \in Nat
    BY <1>1, <1>3, CursorFollowsCheckpoints, DepthAssumption DEF SafeTip, Tip, ChainTypeOK, Hashes
  <2>3. Len(pin'.block) = SafeTip /\ Canonical(pin'.block)
    <3>1. Len(SubSeq(chain, 1, SafeTip)) = SafeTip
      BY <1>1, <2>2, PrefixLength DEF ChainTypeOK, Tip
    <3> QED
      BY <2>1, <2>2, <3>1 DEF Canonical, Hash, Tip
  <2>4. ASSUME NEW o \in Orders, LiveCell(o), HeightOf(Create(o)) <= SafeTip
        PROVE  o \in work' \/ Present(db, o)
    <3>1. HeightOf(Create(o)) \in 1..Tip
      BY <1>1, <2>4, CommittedBlock DEF LiveCell
    <3>2. CASE HeightOf(Create(o)) >= ResolveScanCursor
      BY <2>1, <2>2, <2>4, <3>1, <3>2
    <3>3. CASE HeightOf(Create(o)) < ResolveScanCursor
      <4>1. PICK cp \in checkpoints : ResolveScanCursor = Len(cp) + 1
        BY <1>1, <2>2, <3>1, <3>3, CursorFollowsCheckpoints
      <4>2. Len(cp) \in Nat /\ Canonical(cp)
        BY <4>1 DEF ScanInv, TypeOK, Hashes
      <4>3. HeightOf(Create(o)) <= Len(cp)
        BY <3>1, <3>3, <4>1, <4>2
      <4> QED
        BY <2>4, <4>2, <4>3 DEF ScanInv, ScanMissesNothing, Present
    <3> QED
      BY <2>2, <3>1, <3>2, <3>3
  <2>5. \A o \in work' : Committed(Create(o)) /\ HeightOf(Create(o)) <= SafeTip
    BY <2>1, <2>2 DEF LiveCell
  <2>6. /\ \A o \in Orders : LiveCell(o)' = LiveCell(o) /\ HeightOf(Create(o))' = HeightOf(Create(o))
        /\ \A tx : Committed(tx)' = Committed(tx)
        /\ \A hash : Canonical(hash)' = Canonical(hash)
        /\ SafeTip' = SafeTip
    BY <1>1 DEF LiveCell, Committed, HeightOf, Tip, Canonical, Hash, SafeTip
  <2>7. RangeCovered'
    <3>1. Canonical(pin.block)'
      BY <1>1, <2>1, <2>2, <2>3 DEF Canonical, Hash, Tip
    <3>2. Len(pin'.block) <= SafeTip'
      BY <2>2, <2>3, <2>6
    <3>3. \A o \in work' : Committed(Create(o))' /\ HeightOf(Create(o))' <= Len(pin'.block)
      BY <2>1, <2>3, <2>5, <2>6
    <3>4. \A o \in Orders : (LiveCell(o)' /\ HeightOf(Create(o))' <= Len(pin'.block)) =>
                             o \in work' \/ Present(db, o)'
      BY <1>1, <2>3, <2>4, <2>6 DEF Present
    <3> QED
      BY <3>1, <3>2, <3>3, <3>4 DEF RangeCovered
  <2>8. ScanMissesNothing' /\ ConfirmedOnce(db)' /\ \A cp \in checkpoints' : Canonical(cp)'
    BY <1>1, <2>6 DEF ScanInv, ScanMissesNothing, ConfirmedOnce, Present
  <2>9. NothingYet'
    BY <1>1, <2>1 DEF ScanInv, NothingYet, TradeSteps
  <2> QED
    BY <2>1, <2>7, <2>8, <2>9 DEF ScanInv, ShallowReorgsStayOut
<1> QED
  BY <1>2, <1>3

LEMMA IndexCovers ==
    ASSUME TypeOK, TypeOK', ScanInv, NEW o \in Orders, Index(o)
    PROVE  ScanInv'
<1>1. /\ pc = "index" /\ o \in work /\ UNCHANGED <<chain, checkpoints, pc, pin>> /\ work' = work \ {o}
      /\ db' = IF db.orders[o].status \in {"NOT_INDEXED", "ORPHANED"} /\ Committed(Create(o))
               THEN Ingested(db, OrderConfirmed(o)) ELSE db
      /\ ChainTypeOK /\ db \in Databases
  BY DEF Index, chainVars, TypeOK
<1>2. /\ Canonical(pin.block) /\ Len(pin.block) <= SafeTip
      /\ Committed(Create(o)) /\ HeightOf(Create(o)) <= Len(pin.block)
  BY <1>1 DEF ScanInv, RangeCovered
<1>3. Advances(db, db')
  <2>1. OrderConfirmed(o).type # "chain-reorg"
    BY DEF OrderConfirmed
  <2>2. Advances(db, Ingested(db, OrderConfirmed(o)))
    BY <1>1, <1>2, <2>1, OrderConfirmedEvent, IngestedAdvances
  <2> QED
    BY <1>1, <2>2 DEF Advances
<1>4. Present(db', o)
  <2>1. Len(pin.block) \in Int /\ SafeTip \in Int /\ HeightOf(Create(o)) \in Int
    BY <1>1, <1>2, CommittedBlock, DepthAssumption DEF TypeOK, Hashes, SafeTip, Tip, ChainTypeOK
  <2>2. HeightOf(Create(o)) <= SafeTip
    BY <1>2, <2>1
  <2>3. Present(Ingested(db, OrderConfirmed(o)), o)
    BY <1>1, <1>2, <2>2, ScannedIsPresent DEF ScanInv
  <2> QED
    BY <1>1, <1>2, <2>3 DEF Present
<1>5. /\ \A x \in Orders : LiveCell(x)' = LiveCell(x) /\ HeightOf(Create(x))' = HeightOf(Create(x))
      /\ \A tx : Committed(tx)' = Committed(tx)
      /\ \A hash : Canonical(hash)' = Canonical(hash)
      /\ SafeTip' = SafeTip
  BY <1>1 DEF LiveCell, Committed, HeightOf, Tip, Canonical, Hash, SafeTip
<1>6. \A x \in Orders : Present(db, x) => Present(db', x)
  BY <1>3 DEF Advances
<1>7. RangeCovered'
  <2>1. RangeCovered
    BY DEF ScanInv
  <2>2. Canonical(pin.block)'
    BY <1>1, <1>2 DEF Canonical, Hash, Tip
  <2>3. \A x \in work' : Committed(Create(x))' /\ HeightOf(Create(x))' <= Len(pin.block)
    BY <1>1, <1>5, <2>1 DEF RangeCovered, TypeOK
  <2>4. \A x \in Orders : (LiveCell(x)' /\ HeightOf(Create(x))' <= Len(pin.block)) =>
                             x \in work' \/ Present(db, x)'
    BY <1>1, <1>4, <1>5, <1>6, <2>1 DEF RangeCovered, Present
  <2> QED
    BY <1>1, <1>2, <1>5, <2>2, <2>3, <2>4 DEF RangeCovered
<1>8. ScanMissesNothing'
  BY <1>1, <1>5, <1>6 DEF ScanInv, ScanMissesNothing, Present
<1>9. ConfirmedOnce(db)'
  BY <1>3 DEF ScanInv, Advances, ConfirmedOnce, Present
<1>10. NothingYet'
  BY <1>1 DEF ScanInv, NothingYet, TradeSteps
<1> QED
  BY <1>1, <1>5, <1>7, <1>8, <1>9, <1>10 DEF ScanInv, ShallowReorgsStayOut

LEMMA CheckpointCovers ==
    ASSUME TypeOK, TypeOK', ScanInv, SaveCheckpoint
    PROVE  ScanInv'
<1>1. /\ pc = "index" /\ work = {} /\ UNCHANGED <<chain, db>> /\ pc' = "sweep"
      /\ Canonical(pin.block)
  BY DEF SaveCheckpoint, StartSweep, Goto, chainVars, ScanInv, RangeCovered
<1>2. checkpoints' \subseteq checkpoints \cup {pin.block} /\ pin.block \in checkpoints'
  BY <1>1 DEF SaveCheckpoint
<1>3. /\ \A x \in Orders : LiveCell(x)' = LiveCell(x) /\ HeightOf(Create(x))' = HeightOf(Create(x))
      /\ \A hash : Canonical(hash)' = Canonical(hash)
  BY <1>1 DEF LiveCell, Committed, HeightOf, Tip, Canonical, Hash
<1>4. \A o \in Orders : (LiveCell(o) /\ HeightOf(Create(o)) <= Len(pin.block)) => Present(db, o)
  BY <1>1 DEF ScanInv, RangeCovered
<1>5. ScanMissesNothing'
  BY <1>1, <1>2, <1>3, <1>4 DEF ScanInv, ScanMissesNothing, Present
<1>6. \A cp \in checkpoints' : Canonical(cp)'
  BY <1>1, <1>2, <1>3 DEF ScanInv
<1>7. checkpoints' # {}
  BY <1>2
<1> QED
  BY <1>1, <1>5, <1>6, <1>7 DEF ScanInv, ShallowReorgsStayOut, ConfirmedOnce, Present, RangeCovered, NothingYet

LEMMA GrowthCovers ==
    ASSUME TypeOK, TypeOK', ScanInv, Grows, UNCHANGED <<db, botVars>>
    PROVE  ScanInv'
<1>1. /\ ChainTypeOK /\ ChainTypeOK' /\ Tip \in Nat /\ Tip <= Tip'
      /\ UNCHANGED <<db, checkpoints, pc, work, pin>>
  BY DEF TypeOK, Grows, botVars, Tip, ChainTypeOK, Hashes
<1>2. \A hash \in Hashes : Canonical(hash) => Canonical(hash)' /\ Len(hash) <= Tip /\ Len(hash) \in Nat
  BY <1>1, CanonicalStays DEF Canonical, Hashes
<1>3. ASSUME NEW o \in Orders, NEW hash \in Hashes, Canonical(hash), LiveCell(o)',
             HeightOf(Create(o))' <= Len(hash)
      PROVE  LiveCell(o) /\ HeightOf(Create(o)) <= Len(hash)
  <2>1. HeightOf(Create(o))' \in Int
    BY <1>1, <1>3, NextHeight DEF LiveCell
  <2>2. HeightOf(Create(o))' <= Tip
    BY <1>1, <1>2, <1>3, <2>1
  <2> QED
    BY <1>1, <1>3, <2>2, LiveWasLive
<1>4. ScanMissesNothing'
  <2> SUFFICES ASSUME NEW cp \in checkpoints, NEW o \in Orders,
                      LiveCell(o)', HeightOf(Create(o))' <= Len(cp)
               PROVE  db.orders[o].status \notin {"NOT_INDEXED", "ORPHANED"}
    BY <1>1 DEF ScanMissesNothing
  <2>1. cp \in Hashes /\ Canonical(cp)
    BY DEF TypeOK, ScanInv
  <2> QED
    BY <1>3, <2>1 DEF ScanInv, ScanMissesNothing
<1>5. RangeCovered'
  <2> SUFFICES ASSUME pc = "index" PROVE RangeCovered'
    BY <1>1 DEF RangeCovered
  <2>1. /\ pin.block \in Hashes /\ Canonical(pin.block) /\ Len(pin.block) <= SafeTip
        /\ \A o \in work : Committed(Create(o)) /\ HeightOf(Create(o)) <= Len(pin.block)
        /\ \A o \in Orders : (LiveCell(o) /\ HeightOf(Create(o)) <= Len(pin.block)) =>
                               o \in work \/ Present(db, o)
    BY DEF TypeOK, ScanInv, RangeCovered
  <2>2. Canonical(pin.block)' /\ Len(pin.block) <= SafeTip'
    BY <1>1, <1>2, <2>1, DepthAssumption DEF SafeTip, Tip, ChainTypeOK, Hashes, Canonical
  <2>3. \A o \in work : Committed(Create(o))' /\ HeightOf(Create(o))' <= Len(pin.block)
    BY <1>1, <2>1, CommittedHeight
  <2>4. \A o \in Orders : (LiveCell(o)' /\ HeightOf(Create(o))' <= Len(pin.block)) =>
                               o \in work \/ Present(db, o)
    BY <1>3, <2>1
  <2> QED
    BY <1>1, <2>2, <2>3, <2>4 DEF RangeCovered, Present, Canonical
<1>6. \A cp \in checkpoints' : Canonical(cp)'
  BY <1>1, <1>2 DEF TypeOK, ScanInv
<1> QED
  BY <1>1, <1>4, <1>5, <1>6 DEF ScanInv, ShallowReorgsStayOut, ConfirmedOnce, Present, NothingYet, Indexed

\* Canonical checkpoints show no reorganisation.
LEMMA CanonicalIsNoEvidence ==
    ASSUME TypeOK, \A cp \in checkpoints : Canonical(cp)
    PROVE  {cp \in Window : \A height \in Common : height < Len(cp)} = {}
<1>1. Window \subseteq checkpoints
  BY DEF Window
<1>2. \A cp \in Window : Len(cp) \in Common /\ ~(Len(cp) < Len(cp))
  BY <1>1 DEF Common, TypeOK, Hashes
<1> QED
  BY <1>2

\* Every step of bot, chain and producers keeps the scan's invariant.
LEMMA ScanStep ==
    ASSUME MaxReorgs = 0, CaughtUp, TypeOK, TypeOK', ScanInv, [Next]_vars
    PROVE  ScanInv'
<1>a. /\ ChainTypeOK /\ db \in Databases /\ pc \notin {"rollback", "rewind"} /\ NothingYet
      /\ CrashLimit \in Nat /\ crashes \in Nat
  BY BotConstants DEF TypeOK, ScanInv, ShallowReorgsStayOut
<1>b. ~RollBack /\ ~Rewind /\ ~Reorg
  BY <1>a DEF RollBack, Rewind, Reorg, ChainTypeOK
<1>c. Advances(db, db')
  BY <1>b, StepAdvances
<1>d. checkpoints = {} => /\ pc \notin TradeSteps /\ ~Producers /\ ~Crash
                          /\ pc # "index" => work = {} /\ \A o \in Orders : db.orders[o].status = "NOT_INDEXED"
  BY <1>a DEF NothingYet, Indexed, CaughtUp, Crash
<1>1. CASE Scan
  BY <1>1, ScanCovers
<1>2. ASSUME NEW o \in Orders, Index(o) PROVE ScanInv'
  BY <1>2, IndexCovers
<1>3. CASE SaveCheckpoint
  BY <1>3, CheckpointCovers
<1>4. CASE Environment
  BY <1>4, <1>a, <1>b, ChainOnlyGrows, GrowthCovers DEF Environment
<1>5. CASE StartTick \/ DetectReorg
  <2>1. /\ pc # "index" /\ pc' \in {"detect", "scan"} /\ UNCHANGED <<chain, db, checkpoints, work>>
    BY <1>5, CanonicalIsNoEvidence DEF StartTick, DetectReorg, ScanInv, chainVars
  <2>2. NothingYet'
    BY <1>a, <2>1 DEF NothingYet, Indexed, TradeSteps
  <2> QED
    BY <1>c, <2>1, <2>2, ScanStands
<1>6. CASE StartRetry \/ RefreshBook \/ EndTick
  <2>1. /\ pc \notin {"index"} \cup TradeSteps /\ pc' \in {"retry", "match", "idle"}
        /\ UNCHANGED <<chain, db, checkpoints>>
        /\ \A o \in work' : o \in Orders /\ db.orders[o].status \in {"LIVE", "RESERVED", "PENDING"}
    BY <1>6 DEF StartRetry, RefreshBook, EndTick, AbandonTick, Goto, chainVars, TradeSteps
  <2>2. NothingYet'
    BY <1>a, <1>d, <2>1 DEF NothingYet, Indexed, TradeSteps
  <2> QED
    BY <1>c, <2>1, <2>2, ScanStands
<1>7. CASE \/ \E o \in Orders : Sweep(o) \/ Retry(o) \/ Expire(o)
           \/ \E b \in Buys, s \in Sells : StartTrade(b, s)
           \/ ReserveSell \/ CheckLegs \/ Submit \/ Release \/ Record \/ Recheck
           \/ Crash \/ Post
  <2>1. checkpoints # {} \/ (pc = "index" /\ \E o \in Orders : Expire(o))
    BY <1>7, <1>d DEF Sweep, Retry, Expire, StartTrade, ReserveSell, CheckLegs, Submit, Release, Record,
       Recheck, Crash, Post, TradeSteps
  <2>2. /\ UNCHANGED <<chain, checkpoints>> /\ pc' \notin {"rollback", "rewind"}
        /\ pc' = "index" => pc = "index" /\ work' = work /\ pin' = pin
    BY <1>7, <1>a DEF Sweep, Retry, Expire, StartTrade, ReserveSell, CheckLegs, Submit, Release, Record,
       Recheck, Crash, Post, AbandonTick, Goto, chainVars, botVars
  <2>3. (\E o \in Orders : Expire(o)) => pc' = pc
    BY DEF Expire
  <2>4. NothingYet'
    BY <1>a, <1>d, <2>1, <2>2, <2>3 DEF NothingYet, TradeSteps
  <2> QED
    BY <1>c, <2>2, <2>4, ScanStands
<1>8. CASE UNCHANGED vars
  <2>1. UNCHANGED <<chain, db, checkpoints, pc, work, pin>>
    BY <1>8 DEF vars, botVars, chainVars
  <2>2. NothingYet'
    BY <1>a, <2>1 DEF NothingYet, Indexed
  <2> QED
    BY <1>a, <1>c, <2>1, <2>2, ScanStands
<1> QED
  BY <1>b, <1>1, <1>2, <1>3, <1>4, <1>5, <1>6, <1>7, <1>8 DEF Next, BotStep

\* The scan misses no order on a chain that only grows: whatever is open and
\* was created at or below a checkpoint is in the book, for any orders, depth
\* and window, and whatever crashes, duplicates, other matchers and other
\* producers do between the steps of a scan.
THEOREM ScanIsComplete ==
    ASSUME MaxReorgs = 0, CaughtUp
    PROVE  Spec => []ScanMissesNothing
<1>1. Init => TypeOK /\ ScanInv
  BY TypeInit, ScanInit
<1>2. (TypeOK /\ ScanInv) /\ [Next]_vars => (TypeOK /\ ScanInv)'
  BY TypeStep, ScanStep
<1>3. ScanInv => ScanMissesNothing
  BY DEF ScanInv
<1> QED
  BY <1>1, <1>2, <1>3, PTL DEF Spec

---------------------------------------------------------------------------
(* Rollbacks                                                               *)

\* The hash of a block that confirmationDepth blocks have been mined on.
Buried(c, hash) ==
    hash = NoBlock \/ (Len(hash) <= Len(c) - confirmationDepth /\ SubSeq(c, 1, Len(hash)) = hash)

\* Nothing d holds rests on a block above height a.
Complete(d, a) ==
    /\ \A o \in Orders :
         /\ Len(d.orders[o].created) > a => d.orders[o].status \in {"NOT_INDEXED", "ORPHANED"}
         /\ d.orders[o].status \in {"FILLED", "CANCELED"} => Len(d.orders[o].spent) <= a
    /\ \A tx \in Settlements :
         d.trades[tx].status = "CONFIRMED" => Len(d.trades[tx].block) <= a

\* The ancestor that evidence e stands for is a matter of the checkpoints
\* alone: the next lower one in the window.
Below(e) == {Len(cp) : cp \in {c \in Window : Len(c) < Len(e)}}
IsFork(e, a) == IF Below(e) = {} THEN a = Len(e) - 1 ELSE a \in Below(e) /\ \A h \in Below(e) : h <= a

Mismatched == {cp \in Window : \A height \in Common : height < Len(cp)}

Pinned == pc \in {"rollback", "rewind"}

\* Heights never shrink, so a checkpoint that a reorganisation abandoned lies
\* below every range that is scanned after it.
CheckpointsAreOld ==
    \A cp \in checkpoints : /\ Len(cp) = 0 \/ Len(cp) <= SafeTip
                            /\ ~Canonical(cp) => Len(cp) < SafeTip /\ reorgs > 0

RangeIsNew ==
    pc = "index" => /\ Len(pin.block) <= SafeTip /\ pin.block \notin Reverted(db)
                    /\ reorgs = 0 => Canonical(pin.block)

RevertedAreOld == \A e \in Reverted(db) : Len(e) < SafeTip /\ reorgs > 0

PinIsEvidence ==
    Pinned => /\ pin.block \in Window /\ IsFork(pin.block, pin.ancestor) /\ pin.ancestor < Len(pin.block)
              /\ Len(pin.block) < SafeTip /\ reorgs > 0
              /\ pc = "rewind" => pin.block \in Reverted(db)

Past == CheckpointsAreOld /\ RangeIsNew /\ RevertedAreOld /\ PinIsEvidence

LEMMA ForkIsUnique ==
    ASSUME TypeOK, NEW e \in checkpoints, NEW a, NEW b, IsFork(e, a), IsFork(e, b)
    PROVE  a = b
<1>1. Window \subseteq checkpoints /\ \A cp \in checkpoints : Len(cp) \in Int
  BY DEF Window, TypeOK, Hashes
<1>2. Below(e) \subseteq Int
  BY <1>1 DEF Below
<1> QED
  BY <1>2 DEF IsFork

\* What DetectReorg finds.
LEMMA DetectedIsFork ==
    ASSUME TypeOK, NEW e \in Mismatched, \A other \in Mismatched : Len(e) <= Len(other),
           NEW a \in IF Common = {} THEN {Len(e) - 1} ELSE Common, \A height \in Common : height <= a
    PROVE  /\ e \in Window /\ e \in checkpoints /\ ~Canonical(e) /\ IsFork(e, a) /\ a < Len(e)
           /\ \A cp \in Window : Len(cp) > Len(e) => ~Canonical(cp)
<1>1. /\ e \in Window /\ Window \subseteq checkpoints /\ \A cp \in Window : Len(cp) \in Nat
      /\ \A height \in Common : height < Len(e)
  BY DEF Mismatched, Window, TypeOK, Hashes
<1>2. \A cp \in Window : Canonical(cp) => Len(cp) \in Common
  BY DEF Common
<1>3. ~Canonical(e) /\ \A cp \in Window : Len(cp) > Len(e) => ~Canonical(cp)
  BY <1>1, <1>2
<1>4. CASE Common = {}
  <2>1. Mismatched = Window
    BY <1>4 DEF Mismatched
  <2>2. Below(e) = {}
    BY <1>1, <2>1 DEF Below
  <2> QED
    BY <1>1, <1>3, <1>4, <2>2 DEF IsFork
<1>5. CASE Common # {}
  <2>1. a \in Below(e) /\ a < Len(e)
    BY <1>1, <1>5 DEF Below, Common
  <2>2. ASSUME NEW cp \in Window, Len(cp) < Len(e) PROVE Len(cp) <= a
    <3>1. CASE cp \in Mismatched
      BY <1>1, <2>2, <3>1
    <3>2. CASE cp \notin Mismatched
      <4>1. PICK height \in Common : ~(height < Len(cp))
        BY <3>2 DEF Mismatched
      <4>2. height \in Nat /\ a \in Nat /\ height <= a
        BY <1>1, <1>5, <4>1 DEF Common
      <4> QED
        BY <1>1, <4>1, <4>2
    <3> QED
      BY <3>1, <3>2
  <2>3. \A h \in Below(e) : h <= a
    BY <2>2 DEF Below
  <2> QED
    BY <1>1, <1>3, <2>1, <2>3 DEF IsFork
<1> QED
  BY <1>4, <1>5

\* A rollback leaves nothing above its ancestor, and adds nothing anywhere.
LEMMA RollbackCompletes ==
    ASSUME NEW d \in Databases, NEW e, WellFormed(e), e.type = "chain-reorg"
    PROVE  /\ Complete(ApplyEvent(d, e), e.ancestor)
           /\ \A a \in Int : Complete(d, a) => Complete(ApplyEvent(d, e), a)
           /\ ApplyEvent(d, e).processed = d.processed
<1> DEFINE anc == e.ancestor
           orphaned == CreatedAbove(d, anc)
           reopened == SpentAbove(d, anc) \ orphaned
           released(o) == [d.orders[o] EXCEPT !.reservedUntil = "none", !.pendingTx = NoTx]
           rolledBack(o) == IF o \in orphaned THEN [released(o) EXCEPT !.status = "ORPHANED"]
                            ELSE [released(o) EXCEPT !.status = "LIVE", !.spent = NoBlock]
           changed == [o \in orphaned \cup reopened |-> rolledBack(o)]
           w == WithOrders(d, changed)
           r == [w EXCEPT !.trades = TradesAfterRollback(d, anc)]
<1>1. ApplyEvent(d, e) = r
  BY DEF ApplyEvent, ApplyChainReorg
<1>2. orphaned \subseteq Orders /\ reopened \subseteq Orders
  BY DEF CreatedAbove, SpentAbove
<1>3. \A o \in Orders : d.orders[o] \in OrderDocs
  BY DEF Databases
<1>4. anc \in Int
  BY DEF WellFormed, Events
<1>5. \A o \in Orders : /\ rolledBack(o) \in OrderDocs /\ rolledBack(o).created = d.orders[o].created
                        /\ rolledBack(o).status = IF o \in orphaned THEN "ORPHANED" ELSE "LIVE"
  BY <1>3, NoBlockIsAHash DEF OrderDocs, Statuses
<1> HIDE DEF rolledBack
<1>6. DOMAIN changed = orphaned \cup reopened /\ \A o \in DOMAIN changed : changed[o] = rolledBack(o)
  OBVIOUS
<1> HIDE DEF changed
<1>7. /\ w \in Databases /\ w.processed = d.processed
      /\ \A o \in Orders : w.orders[o] = IF o \in orphaned \cup reopened THEN rolledBack(o) ELSE d.orders[o]
  BY <1>5, <1>6, WithOrdersType
<1> HIDE DEF w
<1>8. r.orders = w.orders /\ r.trades = TradesAfterRollback(d, anc) /\ r.processed = d.processed
  BY <1>7 DEF Databases
<1> HIDE DEF r
<1>9. \A o \in Orders : /\ o \in orphaned => r.orders[o].status = "ORPHANED"
                        /\ o \in reopened => r.orders[o].status = "LIVE"
                                             /\ r.orders[o].created = d.orders[o].created
                        /\ o \notin orphaned \cup reopened => r.orders[o] = d.orders[o]
  BY <1>5, <1>7, <1>8
<1>10. \A o \in Orders : /\ Len(d.orders[o].created) \in Nat /\ Len(d.orders[o].spent) \in Nat
  BY <1>3 DEF OrderDocs, Hashes
<1>11. ASSUME NEW tx \in Settlements, r.trades[tx].status = "CONFIRMED"
       PROVE  d.trades[tx].status = "CONFIRMED" /\ r.trades[tx] = d.trades[tx] /\ Len(d.trades[tx].block) <= anc
  <2>1. d.trades[tx] \in TradeDocs
    BY DEF Databases
  <2>2. Len(d.trades[tx].block) \in Nat
    BY <2>1 DEF TradeDocs, Hashes
  <2>3. ~(d.trades[tx].status = "CONFIRMED" /\ Len(d.trades[tx].block) > anc)
    BY <1>8, <1>11, <2>1 DEF TradesAfterRollback, TradeDocs
  <2>4. r.trades[tx] = d.trades[tx]
    BY <1>8, <2>3 DEF TradesAfterRollback
  <2> QED
    BY <1>4, <1>11, <2>2, <2>3, <2>4
<1>12. Complete(r, anc)
  <2>1. ASSUME NEW o \in Orders
        PROVE  /\ Len(r.orders[o].created) > anc => r.orders[o].status \in {"NOT_INDEXED", "ORPHANED"}
               /\ r.orders[o].status \in {"FILLED", "CANCELED"} => Len(r.orders[o].spent) <= anc
    <3>1. CASE o \in orphaned
      BY <1>9, <3>1
    <3>2. CASE o \in reopened
      <4>1. Indexed(d, o) /\ d.orders[o].status # "ORPHANED" /\ ~(Len(d.orders[o].created) > anc)
        BY <3>2 DEF SpentAbove, CreatedAbove, Indexed
      <4> QED
        BY <1>9, <3>2, <4>1
    <3>3. CASE o \notin orphaned \cup reopened
      BY <1>4, <1>9, <1>10, <3>3 DEF SpentAbove, CreatedAbove, Indexed
    <3> QED
      BY <3>1, <3>2, <3>3
  <2> QED
    BY <1>11, <2>1 DEF Complete
<1>13. ASSUME NEW a \in Int, Complete(d, a) PROVE Complete(r, a)
  <2>1. ASSUME NEW o \in Orders
        PROVE  /\ Len(r.orders[o].created) > a => r.orders[o].status \in {"NOT_INDEXED", "ORPHANED"}
               /\ r.orders[o].status \in {"FILLED", "CANCELED"} => Len(r.orders[o].spent) <= a
    <3>1. CASE o \in orphaned
      BY <1>9, <3>1
    <3>2. CASE o \in reopened
      <4>1. d.orders[o].status \in {"FILLED", "CANCELED"}
        BY <3>2 DEF SpentAbove
      <4> QED
        BY <1>9, <1>13, <3>2, <4>1 DEF Complete
    <3>3. CASE o \notin orphaned \cup reopened
      BY <1>9, <1>13, <3>3 DEF Complete
    <3> QED
      BY <3>1, <3>2, <3>3
  <2> QED
    BY <1>11, <1>13, <2>1 DEF Complete
<1> QED
  BY <1>1, <1>8, <1>12, <1>13

\* The same of the whole ingestion of a rollback that was not ingested before.
LEMMA IngestedRollback ==
    ASSUME db \in Databases, NEW block \in Hashes, NEW ancestor \in Int
    PROVE  LET e == ChainReorg(block, ancestor)
           IN  /\ \A a \in Int : Complete(db, a) => Complete(Ingested(db, e), a)
               /\ Outcome(db, e) = "done" =>
                    /\ Reverted(Ingested(db, e)) = Reverted(db) \cup {block}
                    /\ block \notin Reverted(db) => /\ Complete(Ingested(db, e), ancestor)
                                                    /\ ~Canonical(block)
<1> DEFINE e == ChainReorg(block, ancestor)
           a == ApplyEvent(db, e)
           b == [a EXCEPT !.processed = @ \cup {EventId(e)}]
<1>1. /\ e.type = "chain-reorg" /\ e.block = block /\ e.ancestor = ancestor
      /\ EventId(e)[1] = "chain-reorg" /\ EventId(e)[3] = block /\ EventId(e) = <<"chain-reorg", NoTx, block>>
  BY DEF ChainReorg, EventId
<1>2. WellFormed(e)
  BY ChainReorgEvent
<1>3. /\ Complete(a, ancestor) /\ a.processed = db.processed /\ a \in Databases
      /\ \A n \in Int : Complete(db, n) => Complete(a, n)
  BY <1>1, <1>2, RollbackCompletes, ApplyEventType
<1> HIDE DEF e
<1>4. EventId(e) \in db.processed <=> block \in Reverted(db)
  BY <1>1 DEF Reverted
<1>5. Ingested(db, e) = IF EventId(e) \in db.processed \/ Outcome(db, e) # "done" THEN db ELSE b
  BY DEF Ingested
<1>6. EventId(e) \notin db.processed /\ Outcome(db, e) = "done" => ~Canonical(block)
  BY <1>1 DEF Outcome, VerifyEvent
<1> HIDE DEF a
<1>7. /\ b.processed = db.processed \cup {EventId(e)} /\ b.orders = a.orders /\ b.trades = a.trades
  BY <1>3 DEF Databases
<1> HIDE DEF b
<1>8. Reverted(b) = Reverted(db) \cup {block}
  BY <1>1, <1>7 DEF Reverted
<1>9. Complete(b, ancestor) /\ \A n \in Int : Complete(db, n) => Complete(b, n)
  BY <1>3, <1>7 DEF Complete
<1> QED
  BY <1>4, <1>5, <1>6, <1>8, <1>9 DEF e
\* The checkpoints whose rollback is in the projection and not yet in the
\* checkpoint store.
Interrupted == Reverted(db) \cap checkpoints

\* Before the scan of a cycle nothing but a rollback is written.
Early == {"idle", "detect", "rollback", "rewind"}

RolledBack(e) == \A a \in Int : IsFork(e, a) => Complete(db, a)

PinIsRolledBack == Pinned /\ pin.block \in Reverted(db) => RolledBack(pin.block)

\* Without crashes the store is rewound before anything else happens.
Calm == \A e \in Interrupted : pc = "rewind" /\ e = pin.block

\* With crashes and no more than two reorganisations, the rollback that was
\* cut short is met again before the next scan, unless the second one made
\* its branch canonical again.
RollbackIsMetAgain ==
    \A e \in Interrupted : \/ pc \in Early /\ e \in Window /\ RolledBack(e)
                           \/ Canonical(e) /\ reorgs = 2

Exposed(e) == ~Canonical(e) => \A cp \in Window : Len(cp) > Len(e) => ~Canonical(cp)

EvidenceIsExposed ==
    \A e \in Hashes : e \in Interrupted \/ (Pinned /\ e = pin.block) =>
      (reorgs = 1 => ~Canonical(e)) /\ (pc \in Early => Exposed(e))

OneOldBranch ==
    reorgs = 1 => \A cp, other \in checkpoints :
      (~Canonical(cp) /\ ~Canonical(other) /\ Len(cp) <= Len(other)) => SubSeq(other, 1, Len(cp)) = cp

PinIsOldest ==
    Pinned => \A e \in Interrupted : Len(e) < Len(pin.block) => Canonical(e) /\ reorgs = 2

Remembered == RollbackIsMetAgain /\ EvidenceIsExposed /\ OneOldBranch /\ PinIsOldest

ReorgsAreBounded == reorgs <= MaxReorgs

RollbackInv ==
    /\ Past /\ PinIsRolledBack /\ ReorgsAreBounded
    /\ CrashLimit = 0 => Calm
    /\ MaxReorgs <= 2 => Remembered

LEMMA SameWindow ==
    ASSUME checkpoints' = checkpoints
    PROVE  Window' = Window /\ \A e, a : IsFork(e, a)' <=> IsFork(e, a)
<1>1. Window' = Window
  BY DEF Window
<1>2. \A e : Below(e)' = Below(e)
  BY <1>1 DEF Below
<1> QED
  BY <1>1, <1>2 DEF IsFork

LEMMA SameChain ==
    ASSUME chain' = chain
    PROVE  SafeTip' = SafeTip /\ \A hash : Canonical(hash)' <=> Canonical(hash)
BY DEF SafeTip, Tip, Canonical, Hash

LEMMA NumbersOfHeights ==
    ASSUME TypeOK
    PROVE  /\ Tip \in Nat /\ SafeTip \in Int /\ SafeTip <= Tip /\ reorgs \in Nat /\ pin.block \in Hashes
           /\ Len(pin.block) \in Nat /\ pin.ancestor \in Int
           /\ \A cp \in checkpoints : cp \in Hashes /\ Len(cp) \in Nat
           /\ Window \subseteq checkpoints
           /\ \A hash \in Hashes : Len(hash) \in Nat
BY DepthAssumption DEF TypeOK, ChainTypeOK, Hashes, Tip, SafeTip, Window

\* Steps after the scan, which write anything but the checkpoints.
LEMMA OrdinaryStep ==
    ASSUME TypeOK, TypeOK', RollbackInv, UNCHANGED <<chain, reorgs, checkpoints>>,
           Reverted(db') = Reverted(db), pc \notin Early, pc' \notin {"rollback", "rewind"},
           pc' = "index" => pc = "index" /\ pin' = pin
    PROVE  RollbackInv'
<1>1. /\ Window' = Window /\ (\A e, a : IsFork(e, a)' <=> IsFork(e, a))
      /\ SafeTip' = SafeTip /\ \A hash : Canonical(hash)' <=> Canonical(hash)
  BY SameWindow, SameChain
<1>2. ~Pinned' /\ Interrupted' = Interrupted
  BY DEF Pinned, Interrupted, Reverted
<1>3. Past'
  <2>1. CheckpointsAreOld'
    BY <1>1 DEF RollbackInv, Past, CheckpointsAreOld
  <2>2. RangeIsNew'
    BY <1>1 DEF RollbackInv, Past, RangeIsNew
  <2>3. RevertedAreOld'
    BY <1>1 DEF RollbackInv, Past, RevertedAreOld
  <2> QED
    BY <1>2, <2>1, <2>2, <2>3 DEF Past, PinIsEvidence
<1>4. CrashLimit = 0 => Interrupted = {}
  BY DEF RollbackInv, Calm, Early
<1>5. ASSUME MaxReorgs <= 2 PROVE Remembered'
  <2>1. RollbackIsMetAgain /\ EvidenceIsExposed /\ OneOldBranch
    BY <1>5 DEF RollbackInv, Remembered
  <2>2. \A e \in Interrupted : Canonical(e) /\ reorgs = 2
    BY <2>1 DEF RollbackIsMetAgain
  <2>3. RollbackIsMetAgain'
    BY <1>1, <1>2, <2>2 DEF RollbackIsMetAgain
  <2>4. EvidenceIsExposed'
    BY <1>1, <1>2, <2>1, <2>2 DEF EvidenceIsExposed, Exposed
  <2>5. OneOldBranch'
    BY <1>1, <2>1 DEF OneOldBranch
  <2> QED
    BY <1>2, <2>3, <2>4, <2>5 DEF Remembered, PinIsOldest
<1> QED
  BY <1>2, <1>3, <1>4, <1>5 DEF RollbackInv, PinIsRolledBack, ReorgsAreBounded, Calm

\* Steps before the scan that write nothing a rollback depends on: the cycle
\* stands still or starts again.
LEMMA StandStill ==
    ASSUME TypeOK, TypeOK', RollbackInv, UNCHANGED <<chain, reorgs, checkpoints>>,
           Reverted(db') = Reverted(db), \A a \in Int : Complete(db, a) => Complete(db', a),
           pc \in Early,
           UNCHANGED <<pc, pin>> \/ pc' \in {"idle", "detect"},
           CrashLimit = 0 => UNCHANGED <<pc, pin>> \/ pc # "rewind"
    PROVE  RollbackInv'
<1>1. /\ Window' = Window /\ (\A e, a : IsFork(e, a)' <=> IsFork(e, a))
      /\ SafeTip' = SafeTip /\ \A hash : Canonical(hash)' <=> Canonical(hash)
  BY SameWindow, SameChain
<1>2. /\ Interrupted' = Interrupted /\ pc' \in Early
      /\ Pinned' => Pinned /\ pin' = pin /\ pc' = pc
      /\ \A e : RolledBack(e) => RolledBack(e)'
  <2>1. \A e : RolledBack(e) => RolledBack(e)'
    BY <1>1 DEF RolledBack, Complete
  <2> QED
    BY <2>1 DEF Pinned, Interrupted, Reverted, Early
<1>3. Past'
  <2>1. CheckpointsAreOld'
    BY <1>1 DEF RollbackInv, Past, CheckpointsAreOld
  <2>2. RangeIsNew'
    BY <1>2 DEF RangeIsNew, Early
  <2>3. RevertedAreOld'
    BY <1>1 DEF RollbackInv, Past, RevertedAreOld
  <2>4. PinIsEvidence'
    <3> SUFFICES ASSUME Pinned' PROVE PinIsEvidence'
      BY DEF PinIsEvidence
    <3> QED
      BY <1>1, <1>2 DEF RollbackInv, Past, PinIsEvidence
  <2> QED
    BY <2>1, <2>2, <2>3, <2>4 DEF Past
<1>4. PinIsRolledBack'
  <2> SUFFICES ASSUME Pinned', pin'.block \in Reverted(db') PROVE RolledBack(pin.block)'
    BY DEF PinIsRolledBack
  <2>1. RolledBack(pin.block) /\ pin' = pin
    BY <1>2 DEF RollbackInv, PinIsRolledBack
  <2> QED
    BY <1>1, <2>1 DEF RolledBack, Complete
<1>5. CrashLimit = 0 => Calm'
  BY <1>2 DEF RollbackInv, Calm
<1>6. ASSUME MaxReorgs <= 2 PROVE Remembered'
  <2>1. RollbackIsMetAgain /\ EvidenceIsExposed /\ OneOldBranch /\ PinIsOldest
    BY <1>6 DEF RollbackInv, Remembered
  <2>2. RollbackIsMetAgain'
    BY <1>1, <1>2, <2>1 DEF RollbackIsMetAgain
  <2>3. EvidenceIsExposed'
    BY <1>1, <1>2, <2>1 DEF EvidenceIsExposed, Exposed
  <2>4. OneOldBranch'
    BY <1>1, <2>1 DEF OneOldBranch
  <2>5. PinIsOldest'
    BY <1>1, <1>2, <2>1 DEF PinIsOldest
  <2> QED
    BY <2>2, <2>3, <2>4, <2>5 DEF Remembered
<1> QED
  BY <1>3, <1>4, <1>5, <1>6 DEF RollbackInv, ReorgsAreBounded
\* An interrupted rollback of an abandoned checkpoint is met by the next
\* comparison, as its oldest evidence or above it.
LEMMA InterruptedIsMismatched ==
    ASSUME TypeOK, RollbackInv, MaxReorgs <= 2, pc = "detect", NEW e \in Interrupted, ~Canonical(e)
    PROVE  e \in Mismatched /\ RolledBack(e)
<1>1. e \in Window /\ RolledBack(e)
  BY DEF RollbackInv, Remembered, RollbackIsMetAgain
<1>2. e \in Hashes /\ e \in checkpoints /\ Window \subseteq checkpoints
      /\ \A cp \in checkpoints : Len(cp) \in Nat
  BY NumbersOfHeights DEF Interrupted
<1>3. Exposed(e)
  BY <1>2 DEF RollbackInv, Remembered, EvidenceIsExposed, Early
<1>4. ASSUME NEW height \in Common PROVE height < Len(e)
  <2>1. PICK cp \in Window : Canonical(cp) /\ height = Len(cp)
    BY DEF Common
  <2>2. ~(Len(cp) > Len(e))
    BY <1>3, <2>1 DEF Exposed
  <2>3. Len(cp) # Len(e)
    BY <1>2, <2>1 DEF TypeOK
  <2> QED
    BY <1>2, <2>1, <2>2, <2>3
<1> QED
  BY <1>1, <1>4 DEF Mismatched

LEMMA DetectKeeps ==
    ASSUME TypeOK, TypeOK', RollbackInv, CrashLimit = 0 \/ MaxReorgs <= 2, DetectReorg
    PROVE  RollbackInv'
<1>1. /\ pc = "detect" /\ pc' \in {"scan", "rollback"}
      /\ UNCHANGED <<chain, reorgs, checkpoints, db>>
  BY DEF DetectReorg, chainVars
<1>2. /\ Window' = Window /\ (\A e, a : IsFork(e, a)' <=> IsFork(e, a))
      /\ SafeTip' = SafeTip /\ \A hash : Canonical(hash)' <=> Canonical(hash)
  BY <1>1, SameWindow, SameChain
<1>3. /\ Interrupted' = Interrupted /\ Reverted(db)' = Reverted(db)
      /\ \A e : RolledBack(e)' <=> RolledBack(e)
  BY <1>1, <1>2 DEF Interrupted, RolledBack, Complete, Reverted
<1>4. CheckpointsAreOld' /\ RangeIsNew' /\ RevertedAreOld'
  <2>1. CheckpointsAreOld'
    BY <1>1, <1>2 DEF RollbackInv, Past, CheckpointsAreOld
  <2>2. RevertedAreOld'
    BY <1>1, <1>2, <1>3 DEF RollbackInv, Past, RevertedAreOld
  <2> QED
    BY <1>1, <2>1, <2>2 DEF RangeIsNew
<1>5. CrashLimit = 0 => Interrupted = {}
  BY <1>1 DEF RollbackInv, Calm
<1>6. MaxReorgs <= 2 => OneOldBranch'
  BY <1>1, <1>2 DEF RollbackInv, Remembered, OneOldBranch
<1>7. /\ reorgs \in Nat /\ Window \subseteq checkpoints /\ (\A cp \in checkpoints : cp \in Hashes /\ Len(cp) \in Nat)
      /\ \A e \in Interrupted : e \in Hashes /\ reorgs > 0
  BY NumbersOfHeights DEF RollbackInv, Past, RevertedAreOld, Interrupted
<1>8. MaxReorgs <= 2 => \A e \in Interrupted : Canonical(e) => reorgs = 2
  <2>1. MaxReorgs <= 2 => reorgs <= 2
    BY <1>7, ChainConstants DEF RollbackInv, ReorgsAreBounded
  <2> QED
    BY <1>7, <2>1 DEF RollbackInv, Remembered, EvidenceIsExposed
<1>9. CASE Mismatched = {}
  <2>1. pc' = "scan"
    BY <1>1, <1>9 DEF DetectReorg, Mismatched
  <2>2. MaxReorgs <= 2 => \A e \in Interrupted : Canonical(e) /\ reorgs = 2
    BY <1>1, <1>8, <1>9, InterruptedIsMismatched
  <2>3. MaxReorgs <= 2 => RollbackIsMetAgain'
    BY <1>1, <1>2, <1>3, <2>2 DEF RollbackIsMetAgain
  <2>4. MaxReorgs <= 2 => EvidenceIsExposed'
    BY <1>1, <1>2, <1>3, <2>1, <2>2 DEF EvidenceIsExposed, Early, Pinned
  <2> QED
    BY <1>1, <1>3, <1>4, <1>5, <1>6, <2>1, <2>3, <2>4
       DEF RollbackInv, Past, PinIsEvidence, PinIsRolledBack, Pinned, Calm, Remembered, PinIsOldest, ReorgsAreBounded
<1>10. CASE Mismatched # {}
  <2>a. PICK e \in Mismatched :
          /\ \A other \in Mismatched : Len(e) <= Len(other)
          /\ \E ancestor \in IF Common = {} THEN {Len(e) - 1} ELSE Common :
               /\ \A height \in Common : height <= ancestor
               /\ pc' = "rollback" /\ pin' = [block |-> e, ancestor |-> ancestor]
    BY <1>10 DEF DetectReorg, Mismatched
  <2>1. PICK a \in IF Common = {} THEN {Len(e) - 1} ELSE Common :
          /\ \A other \in Mismatched : Len(e) <= Len(other)
          /\ \A height \in Common : height <= a
          /\ pc' = "rollback" /\ pin' = [block |-> e, ancestor |-> a]
    BY <2>a
  <2>2. /\ e \in Window /\ e \in checkpoints /\ ~Canonical(e) /\ IsFork(e, a) /\ a < Len(e)
        /\ \A cp \in Window : Len(cp) > Len(e) => ~Canonical(cp)
    BY <2>1, DetectedIsFork
  <2>3. pin'.block = e /\ pin'.ancestor = a
    BY <2>1
  <2>4. Len(e) < SafeTip /\ reorgs > 0
    BY <2>2 DEF RollbackInv, Past, CheckpointsAreOld
  <2>5. PinIsEvidence'
    BY <1>1, <1>2, <2>1, <2>2, <2>3, <2>4 DEF PinIsEvidence
  <2>6. PinIsRolledBack'
    <3> SUFFICES ASSUME e \in Reverted(db) PROVE RolledBack(e)'
      BY <1>3, <2>3 DEF PinIsRolledBack
    <3>1. e \in Interrupted
      BY <2>2 DEF Interrupted
    <3> QED
      BY <1>1, <1>3, <1>5, <2>2, <3>1, InterruptedIsMismatched DEF RollbackInv
  <2>7. ASSUME MaxReorgs <= 2 PROVE Remembered'
    <3>1. RollbackIsMetAgain'
      BY <1>1, <1>2, <1>3, <2>1, <2>7 DEF RollbackInv, Remembered, RollbackIsMetAgain, Early
    <3>2. EvidenceIsExposed'
      <4>1. ASSUME NEW f \in Interrupted PROVE (reorgs = 1 => ~Canonical(f)) /\ Exposed(f)
        BY <1>1, <1>7, <2>7 DEF RollbackInv, Remembered, EvidenceIsExposed, Early
      <4>2. ~Canonical(e) /\ Exposed(e)
        BY <2>2 DEF Exposed
      <4> QED
        BY <1>1, <1>2, <1>3, <2>3, <4>1, <4>2 DEF EvidenceIsExposed, Exposed
    <3>3. PinIsOldest'
      <4> SUFFICES ASSUME NEW f \in Interrupted, Len(f) < Len(e) PROVE Canonical(f) /\ reorgs = 2
        BY <1>1, <1>2, <1>3, <2>3 DEF PinIsOldest
      <4>1. Len(f) \in Nat /\ Len(e) \in Nat
        BY <1>7, <2>2 DEF Interrupted
      <4>2. f \notin Mismatched
        BY <2>1, <4>1
      <4> QED
        BY <1>1, <1>8, <2>7, <4>2, InterruptedIsMismatched
    <3> QED
      BY <1>6, <2>7, <3>1, <3>2, <3>3 DEF Remembered
  <2> QED
    BY <1>1, <1>3, <1>4, <1>5, <2>5, <2>6, <2>7 DEF RollbackInv, Past, Calm, ReorgsAreBounded
<1> QED
  BY <1>9, <1>10

LEMMA RollBackKeeps ==
    ASSUME TypeOK, TypeOK', RollbackInv, RollBack
    PROVE  RollbackInv'
<1> DEFINE event == ChainReorg(pin.block, pin.ancestor)
<1>1. /\ pc = "rollback" /\ UNCHANGED <<chain, reorgs, checkpoints>>
      /\ pin.block \in Hashes /\ pin.ancestor \in Int /\ db \in Databases
  BY NumbersOfHeights DEF RollBack, chainVars, TypeOK
<1>2. CASE Outcome(db, event) # "done"
  <2>1. pc' = "idle" /\ UNCHANGED db
    BY <1>2 DEF RollBack
  <2> QED
    BY <1>1, <2>1, StandStill DEF Early
<1>3. CASE Outcome(db, event) = "done"
  <2>1. db' = Ingested(db, event) /\ pc' = "rewind" /\ UNCHANGED pin
    BY <1>3 DEF RollBack
  <2>2. /\ Window' = Window /\ (\A e, a : IsFork(e, a)' <=> IsFork(e, a))
        /\ SafeTip' = SafeTip /\ \A hash : Canonical(hash)' <=> Canonical(hash)
    BY <1>1, SameWindow, SameChain
  <2>3. /\ \A a \in Int : Complete(db, a) => Complete(db', a)
        /\ Reverted(db') = Reverted(db) \cup {pin.block}
        /\ pin.block \notin Reverted(db) => Complete(db', pin.ancestor)
    BY <1>1, <1>3, <2>1, IngestedRollback
  <2>4. /\ Reverted(db)' = Reverted(db) \cup {pin.block} /\ Interrupted' \subseteq Interrupted \cup {pin.block}
        /\ Pinned /\ Pinned'
    BY <1>1, <2>1, <2>3 DEF Interrupted, Reverted, Pinned
  <2>5. /\ pin.block \in Window /\ pin.block \in checkpoints /\ IsFork(pin.block, pin.ancestor)
        /\ pin.ancestor < Len(pin.block) /\ Len(pin.block) < SafeTip /\ reorgs > 0
    BY <2>4, NumbersOfHeights DEF RollbackInv, Past, PinIsEvidence
  <2>6. \A e : RolledBack(e) => RolledBack(e)'
    <3>1. \A a \in Int : Complete(db, a) => Complete(db, a)'
      BY <2>3 DEF Complete
    <3> QED
      BY <2>2, <3>1 DEF RolledBack
  <2>7. ASSUME NEW e, e = pin.block PROVE RolledBack(e)'
    <3>1. CASE pin.block \in Reverted(db)
      BY <2>4, <2>6, <2>7, <3>1 DEF RollbackInv, PinIsRolledBack
    <3>2. CASE pin.block \notin Reverted(db)
      <4>1. \A a : IsFork(pin.block, a) => a = pin.ancestor
        BY <2>5, ForkIsUnique
      <4>2. \A n : n = pin.ancestor => Complete(db, n)'
        BY <2>1, <2>3, <3>2 DEF Complete
      <4>3. RolledBack(e)' <=> \A n \in Int : IsFork(e, n) => Complete(db, n)'
        BY <2>2 DEF RolledBack
      <4> QED
        BY <2>7, <4>1, <4>2, <4>3
    <3> QED
      BY <3>1, <3>2
  <2>8. Past'
    <3>1. CheckpointsAreOld'
      BY <1>1, <2>2 DEF RollbackInv, Past, CheckpointsAreOld
    <3>2. RangeIsNew'
      BY <2>1 DEF RangeIsNew
    <3>3. RevertedAreOld'
      BY <1>1, <2>2, <2>4, <2>5 DEF RollbackInv, Past, RevertedAreOld
    <3>4. PinIsEvidence'
      BY <1>1, <2>1, <2>2, <2>4, <2>5 DEF PinIsEvidence
    <3> QED
      BY <3>1, <3>2, <3>3, <3>4 DEF Past
  <2>9. PinIsRolledBack'
    BY <2>1, <2>7 DEF PinIsRolledBack
  <2>10. CrashLimit = 0 => Calm'
    BY <1>1, <2>1, <2>4 DEF RollbackInv, Calm
  <2>11. ASSUME MaxReorgs <= 2 PROVE Remembered'
    <3>1. RollbackIsMetAgain /\ EvidenceIsExposed /\ OneOldBranch /\ PinIsOldest
      BY <2>11 DEF RollbackInv, Remembered
    <3>2. RollbackIsMetAgain'
      BY <1>1, <2>1, <2>2, <2>4, <2>5, <2>6, <2>7, <3>1 DEF RollbackIsMetAgain, Early
    <3>3. EvidenceIsExposed'
      <4>1. \A e \in Hashes : e \in Interrupted \cup {pin.block} =>
              (reorgs = 1 => ~Canonical(e)) /\ Exposed(e)
        BY <1>1, <2>4, <3>1 DEF EvidenceIsExposed, Early
      <4> QED
        BY <1>1, <2>1, <2>2, <2>4, <4>1 DEF EvidenceIsExposed, Exposed
    <3>4. OneOldBranch'
      BY <1>1, <2>2, <3>1 DEF OneOldBranch
    <3>5. PinIsOldest'
      <4>1. ~(Len(pin.block) < Len(pin.block))
        BY NumbersOfHeights
      <4> QED
        BY <1>1, <2>1, <2>2, <2>4, <3>1, <4>1 DEF PinIsOldest
    <3> QED
      BY <3>2, <3>3, <3>4, <3>5 DEF Remembered
  <2> QED
    BY <1>1, <2>8, <2>9, <2>10, <2>11 DEF RollbackInv, ReorgsAreBounded
<1> QED
  BY <1>2, <1>3

LEMMA RewindKeeps ==
    ASSUME TypeOK, TypeOK', RollbackInv, Rewind
    PROVE  RollbackInv'
<1>1. /\ pc = "rewind" /\ pc' = "scan" /\ UNCHANGED <<chain, reorgs, db>>
      /\ checkpoints' = {cp \in checkpoints : Len(cp) <= pin.ancestor}
  BY DEF Rewind, chainVars
<1>2. SafeTip' = SafeTip /\ \A hash : Canonical(hash)' <=> Canonical(hash)
  BY <1>1, SameChain
<1>3. Pinned /\ ~Pinned' /\ pc' \notin Early /\ pc' # "index"
  BY <1>1 DEF Pinned, Early
<1>4. pin.block \in Window /\ pin.ancestor < Len(pin.block) /\ reorgs > 0
  BY <1>3 DEF RollbackInv, Past, PinIsEvidence
<1>5. checkpoints' \subseteq checkpoints /\ Reverted(db)' = Reverted(db)
  BY <1>1 DEF Reverted
<1>6. \A e \in Interrupted' : e \in Interrupted /\ Len(e) < Len(pin.block)
  <2>1. ASSUME NEW e \in checkpoints, Len(e) <= pin.ancestor PROVE Len(e) < Len(pin.block)
    BY <1>4, <2>1, NumbersOfHeights
  <2> QED
    BY <1>1, <1>5, <2>1 DEF Interrupted
<1>7. Past'
  <2>1. CheckpointsAreOld'
    BY <1>1, <1>2, <1>5 DEF RollbackInv, Past, CheckpointsAreOld
  <2>2. RevertedAreOld'
    BY <1>1, <1>2, <1>5 DEF RollbackInv, Past, RevertedAreOld
  <2> QED
    BY <1>3, <2>1, <2>2 DEF Past, RangeIsNew, PinIsEvidence
<1>8. CrashLimit = 0 => Calm'
  <2>1. ASSUME CrashLimit = 0, NEW e \in Interrupted' PROVE FALSE
    <3>1. e = pin.block /\ Len(pin.block) \in Nat
      BY <1>6, <2>1, NumbersOfHeights DEF RollbackInv, Calm
    <3> QED
      BY <1>6, <3>1
  <2> QED
    BY <2>1 DEF Calm
<1>9. ASSUME MaxReorgs <= 2 PROVE Remembered'
  <2>1. \A e \in Interrupted' : Canonical(e) /\ reorgs = 2
    BY <1>3, <1>6, <1>9 DEF RollbackInv, Remembered, PinIsOldest
  <2>2. RollbackIsMetAgain' /\ EvidenceIsExposed'
    BY <1>1, <1>2, <1>3, <2>1 DEF RollbackIsMetAgain, EvidenceIsExposed
  <2>3. OneOldBranch'
    BY <1>1, <1>2, <1>5, <1>9 DEF RollbackInv, Remembered, OneOldBranch
  <2> QED
    BY <1>3, <2>2, <2>3 DEF Remembered, PinIsOldest
<1> QED
  BY <1>1, <1>3, <1>7, <1>8, <1>9 DEF RollbackInv, PinIsRolledBack, ReorgsAreBounded

LEMMA ScanKeeps ==
    ASSUME TypeOK, TypeOK', RollbackInv, Scan
    PROVE  RollbackInv'
<1>1. pc = "scan" /\ UNCHANGED <<chain, reorgs, checkpoints, db>>
  BY DEF Scan, chainVars
<1>2. CASE pc' = "sweep"
  BY <1>1, <1>2, OrdinaryStep DEF Early
<1>3. CASE pc' # "sweep"
  <2>1. /\ pc' = "index" /\ pin' = [block |-> Hash(SafeTip), ancestor |-> 0] /\ ~(SafeTip < 0)
    BY <1>3 DEF Scan, StartSweep, Goto
  <2>2. /\ Window' = Window /\ (\A e, a : IsFork(e, a)' <=> IsFork(e, a))
        /\ SafeTip' = SafeTip /\ \A hash : Canonical(hash)' <=> Canonical(hash)
    BY <1>1, SameWindow, SameChain
  <2>3. ~Pinned' /\ Interrupted' = Interrupted /\ Reverted(db)' = Reverted(db) /\ pc' \notin Early
    BY <1>1, <2>1 DEF Pinned, Interrupted, Reverted, Early
  <2>4. SafeTip \in 0..Tip
    BY <2>1, NumbersOfHeights
  <2>5. pin'.block = Hash(SafeTip) /\ Len(Hash(SafeTip)) = SafeTip
    BY <2>1, <2>4, PrefixLength DEF TypeOK, ChainTypeOK, Tip, Hash
  <2>6. Canonical(Hash(SafeTip))
    BY <2>4, <2>5 DEF Canonical
  <2>7. Hash(SafeTip) \notin Reverted(db)
    BY <2>4, <2>5 DEF RollbackInv, Past, RevertedAreOld
  <2>8. RangeIsNew'
    BY <2>2, <2>3, <2>4, <2>5, <2>6, <2>7 DEF RangeIsNew
  <2>9. CheckpointsAreOld' /\ RevertedAreOld'
    BY <1>1, <2>2, <2>3 DEF RollbackInv, Past, CheckpointsAreOld, RevertedAreOld
  <2>10. CrashLimit = 0 => Calm'
    BY <1>1, <2>3 DEF RollbackInv, Calm
  <2>11. ASSUME MaxReorgs <= 2 PROVE Remembered'
    <3>1. RollbackIsMetAgain /\ EvidenceIsExposed /\ OneOldBranch
      BY <2>11 DEF RollbackInv, Remembered
    <3>2. \A e \in Interrupted : Canonical(e) /\ reorgs = 2
      BY <1>1, <3>1 DEF RollbackIsMetAgain, Early
    <3>3. RollbackIsMetAgain' /\ EvidenceIsExposed'
      BY <1>1, <2>2, <2>3, <3>2 DEF RollbackIsMetAgain, EvidenceIsExposed
    <3>4. OneOldBranch'
      BY <1>1, <2>2, <3>1 DEF OneOldBranch
    <3> QED
      BY <2>3, <3>3, <3>4 DEF Remembered, PinIsOldest
  <2> QED
    BY <1>1, <2>3, <2>8, <2>9, <2>10, <2>11
       DEF RollbackInv, Past, PinIsEvidence, PinIsRolledBack, ReorgsAreBounded
<1> QED
  BY <1>2, <1>3

LEMMA SaveKeeps ==
    ASSUME TypeOK, TypeOK', RollbackInv, SaveCheckpoint
    PROVE  RollbackInv'
<1>1. /\ pc = "index" /\ pc' = "sweep" /\ UNCHANGED <<chain, reorgs, db>>
      /\ checkpoints' \subseteq checkpoints \cup {pin.block}
      /\ pin.block \in checkpoints' => Canonical(pin.block) \/ pin.block \in checkpoints
  BY DEF SaveCheckpoint, StartSweep, Goto, chainVars
<1>2. SafeTip' = SafeTip /\ \A hash : Canonical(hash)' <=> Canonical(hash)
  BY <1>1, SameChain
<1>3. ~Pinned' /\ Reverted(db)' = Reverted(db) /\ pc' \notin Early /\ pc' # "index"
  BY <1>1 DEF Pinned, Reverted, Early
<1>4. Len(pin.block) <= SafeTip /\ pin.block \notin Reverted(db)
  BY <1>1 DEF RollbackInv, Past, RangeIsNew
<1>5. Interrupted' \subseteq Interrupted
  BY <1>1, <1>3, <1>4 DEF Interrupted
<1>6. \A cp \in checkpoints' : cp \in checkpoints \/ (Canonical(cp) /\ Len(cp) <= SafeTip)
  BY <1>1, <1>4
<1>7. Past'
  <2>1. CheckpointsAreOld'
    BY <1>1, <1>2, <1>6 DEF RollbackInv, Past, CheckpointsAreOld
  <2>2. RevertedAreOld'
    BY <1>1, <1>2, <1>3 DEF RollbackInv, Past, RevertedAreOld
  <2> QED
    BY <1>3, <2>1, <2>2 DEF Past, RangeIsNew, PinIsEvidence
<1>8. CrashLimit = 0 => Calm'
  BY <1>1, <1>5 DEF RollbackInv, Calm
<1>9. ASSUME MaxReorgs <= 2 PROVE Remembered'
  <2>1. \A e \in Interrupted' : Canonical(e) /\ reorgs = 2
    BY <1>1, <1>5, <1>9 DEF RollbackInv, Remembered, RollbackIsMetAgain, Early
  <2>2. RollbackIsMetAgain' /\ EvidenceIsExposed'
    BY <1>1, <1>2, <1>3, <2>1 DEF RollbackIsMetAgain, EvidenceIsExposed
  <2>3. OneOldBranch'
    BY <1>1, <1>2, <1>6, <1>9 DEF RollbackInv, Remembered, OneOldBranch
  <2> QED
    BY <1>3, <2>2, <2>3 DEF Remembered, PinIsOldest
<1> QED
  BY <1>1, <1>3, <1>7, <1>8, <1>9 DEF RollbackInv, PinIsRolledBack, ReorgsAreBounded

\* On a chain that only gets longer a block below the old tip is canonical if
\* and only if it was.
LEMMA GrowthKeepsBranches ==
    ASSUME ChainTypeOK, ChainTypeOK', Grows, NEW hash \in Hashes, Len(hash) <= Tip
    PROVE  Canonical(hash)' <=> Canonical(hash)
<1>1. CASE chain' = chain
  BY <1>1, SameChain
<1>2. CASE \E block : chain' = Append(chain, block)
  <2>1. /\ Len(chain) \in Nat /\ Len(chain') = Len(chain) + 1 /\ Len(hash) \in Nat
    BY <1>2 DEF ChainTypeOK, Hashes
  <2>2. CASE Len(hash) = 0
    <3>1. SubSeq(chain', 1, 0) = <<>> /\ SubSeq(chain, 1, 0) = <<>>
      BY DEF ChainTypeOK, Hashes
    <3> QED
      BY <2>1, <2>2, <3>1 DEF Canonical, Tip, Hash
  <2>3. CASE Len(hash) # 0
    <3>1. Len(hash) \in 1..Len(chain)
      BY <2>1, <2>3 DEF Tip
    <3>2. SubSeq(chain', 1, Len(hash)) = SubSeq(chain, 1, Len(hash))
      BY <1>2, <2>1, <3>1, PrefixIsKept DEF ChainTypeOK
    <3> QED
      BY <2>1, <3>1, <3>2 DEF Canonical, Tip, Hash
  <2> QED
    BY <2>2, <2>3
<1> QED
  BY <1>1, <1>2 DEF Grows

LEMMA GrowthKeeps ==
    ASSUME TypeOK, TypeOK', RollbackInv, Grows, UNCHANGED <<reorgs, db, botVars>>
    PROVE  RollbackInv'
<1>1. UNCHANGED <<reorgs, db, checkpoints, pc, pin>> /\ ChainTypeOK /\ ChainTypeOK'
  BY DEF botVars, TypeOK
<1>2. SafeTip <= SafeTip'
  <2>1. Len(chain) \in Nat /\ \A block : Len(Append(chain, block)) = Len(chain) + 1
    BY <1>1 DEF ChainTypeOK, Hashes
  <2>2. Len(chain) <= Len(chain') /\ Len(chain') \in Nat
    BY <2>1 DEF Grows
  <2> QED
    BY <2>1, <2>2, DepthAssumption DEF SafeTip, Tip
<1>3. \A hash \in Hashes : Len(hash) = 0 \/ Len(hash) <= SafeTip => (Canonical(hash)' <=> Canonical(hash))
  <2>1. \A hash \in Hashes : Len(hash) = 0 \/ Len(hash) <= SafeTip => Len(hash) <= Tip
    BY NumbersOfHeights
  <2> QED
    BY <1>1, <2>1, GrowthKeepsBranches
<1>4. \A cp \in checkpoints : /\ cp \in Hashes /\ (Canonical(cp)' <=> Canonical(cp))
  BY <1>3, NumbersOfHeights DEF RollbackInv, Past, CheckpointsAreOld
<1>5. /\ Window' = Window /\ (\A e, a : IsFork(e, a)' <=> IsFork(e, a))
      /\ Reverted(db)' = Reverted(db) /\ Interrupted' = Interrupted
  BY <1>1, SameWindow DEF Reverted, Interrupted
<1>6. /\ reorgs \in Nat /\ SafeTip \in Int /\ SafeTip' \in Int /\ Window \subseteq checkpoints
      /\ Interrupted \subseteq checkpoints /\ \A hash \in Hashes : Len(hash) \in Nat
      /\ pin.block \in Hashes
  <2>1. SafeTip' \in Int
    BY <1>1, DepthAssumption DEF SafeTip, Tip, ChainTypeOK, Hashes
  <2> QED
    BY <2>1, NumbersOfHeights DEF Interrupted
<1>7. Pinned' <=> Pinned
  BY <1>1 DEF Pinned
<1>8. Past'
  <2>1. CheckpointsAreOld'
    BY <1>1, <1>2, <1>4, <1>6 DEF RollbackInv, Past, CheckpointsAreOld
  <2>2. RangeIsNew'
    <3> SUFFICES ASSUME pc = "index" PROVE RangeIsNew'
      BY <1>1 DEF RangeIsNew
    <3>1. Len(pin.block) <= SafeTip /\ pin.block \notin Reverted(db) /\ (reorgs = 0 => Canonical(pin.block))
      BY DEF RollbackInv, Past, RangeIsNew
    <3>2. \A hash : hash = pin.block => (Canonical(hash)' <=> Canonical(hash))
      BY <1>3, <1>6, <3>1
    <3>3. reorgs = 0 => Canonical(pin.block)'
      BY <1>1, <3>1, <3>2 DEF Canonical
    <3> QED
      BY <1>1, <1>2, <1>5, <1>6, <3>1, <3>3 DEF RangeIsNew
  <2>3. RevertedAreOld'
    BY <1>1, <1>2, <1>5, <1>6 DEF RollbackInv, Past, RevertedAreOld, Reverted
  <2>4. PinIsEvidence'
    BY <1>1, <1>2, <1>5, <1>6, <1>7 DEF RollbackInv, Past, PinIsEvidence
  <2> QED
    BY <2>1, <2>2, <2>3, <2>4 DEF Past
<1>9. PinIsRolledBack'
  BY <1>1, <1>5, <1>7 DEF RollbackInv, PinIsRolledBack, RolledBack, Complete
<1>10. CrashLimit = 0 => Calm'
  BY <1>1, <1>5 DEF RollbackInv, Calm
<1>11. ASSUME MaxReorgs <= 2 PROVE Remembered'
  <2>1. RollbackIsMetAgain /\ EvidenceIsExposed /\ OneOldBranch /\ PinIsOldest
    BY <1>11 DEF RollbackInv, Remembered
  <2>2. RollbackIsMetAgain'
    BY <1>1, <1>4, <1>5, <1>6, <2>1 DEF RollbackIsMetAgain, RolledBack, Complete
  <2>3. EvidenceIsExposed'
    <3> SUFFICES ASSUME NEW e \in Hashes, e \in Interrupted \/ (Pinned /\ e = pin.block)
                 PROVE  (reorgs = 1 => ~Canonical(e)') /\ (pc \in Early => Exposed(e)')
      BY <1>1, <1>5, <1>7 DEF EvidenceIsExposed
    <3>1. e \in checkpoints
      BY <1>6 DEF RollbackInv, Past, PinIsEvidence
    <3> QED
      BY <1>1, <1>4, <1>5, <1>6, <2>1, <3>1 DEF EvidenceIsExposed, Exposed
  <2>4. OneOldBranch'
    BY <1>1, <1>4, <2>1 DEF OneOldBranch
  <2>5. PinIsOldest'
    BY <1>1, <1>4, <1>5, <1>6, <1>7, <2>1 DEF PinIsOldest
  <2> QED
    BY <2>2, <2>3, <2>4, <2>5 DEF Remembered
<1> QED
  BY <1>1, <1>8, <1>9, <1>10, <1>11 DEF RollbackInv, ReorgsAreBounded

LEMMA PrefixOfPrefix ==
    ASSUME NEW S, NEW c \in Seq(S), NEW m \in Nat, NEW n \in Nat, m <= n, n <= Len(c)
    PROVE  SubSeq(SubSeq(c, 1, n), 1, m) = SubSeq(c, 1, m)
<1>1. /\ SubSeq(c, 1, n) \in Seq(S) /\ Len(SubSeq(c, 1, n)) = n
      /\ \A i \in 1..n : SubSeq(c, 1, n)[i] = c[i]
  BY SubSeqProperties
<1>2. /\ SubSeq(c, 1, m) \in Seq(S) /\ Len(SubSeq(c, 1, m)) = m
      /\ \A i \in 1..m : SubSeq(c, 1, m)[i] = c[i]
  BY SubSeqProperties
<1> DEFINE p == SubSeq(c, 1, n)
<1>3. /\ SubSeq(p, 1, m) \in Seq(S) /\ Len(SubSeq(p, 1, m)) = m
      /\ \A i \in 1..m : SubSeq(p, 1, m)[i] = p[i]
  BY <1>1, SubSeqProperties
<1> QED
  BY <1>1, <1>2, <1>3, SeqEqual

LEMMA ReorgKeeps ==
    ASSUME TypeOK, TypeOK', RollbackInv, Reorg, UNCHANGED <<db, botVars>>
    PROVE  RollbackInv'
<1>1. /\ UNCHANGED <<db, checkpoints, pc, pin>> /\ ChainTypeOK /\ ChainTypeOK'
      /\ reorgs < MaxReorgs /\ reorgs' = reorgs + 1
  BY DEF botVars, TypeOK, Reorg
<1>2. SafeTip' = SafeTip + 1
  <2>1. Len(chain) \in Nat
    BY <1>1 DEF ChainTypeOK, Hashes
  <2>2. PICK branch : chain' = branch /\ \E f : branch = [h \in 1..(Tip + 1) |-> f[h]]
    <3>1. PICK keep \in 0..(Tip - 1), miner \in Miners :
            LET detached == UNION {chain[h].txs : h \in (keep + 1)..Tip}
            IN  \E place \in [detached \cup pool -> {0} \cup ((keep + 1)..(Tip + 1))] :
                  chain' = [h \in 1..(Tip + 1) |->
                                IF h <= keep THEN chain[h]
                                ELSE [miner |-> miner,
                                      txs |-> {tx \in detached \cup pool : place[tx] = h}]]
      BY DEF Reorg
    <3> DEFINE detached == UNION {chain[h].txs : h \in (keep + 1)..Tip}
    <3>2. PICK place : chain' = [h \in 1..(Tip + 1) |->
                                IF h <= keep THEN chain[h]
                                ELSE [miner |-> miner,
                                      txs |-> {tx \in detached \cup pool : place[tx] = h}]]
      BY <3>1
    <3>3. chain' = [h \in 1..(Tip + 1) |-> chain'[h]]
      BY <3>2
    <3> QED
      BY <3>3
  <2>3. DOMAIN chain' = 1..(Len(chain) + 1)
    BY <2>2 DEF Tip
  <2>4. Len(chain') = Len(chain) + 1
    BY <1>1, <2>1, <2>3, LenProperties DEF ChainTypeOK, Hashes
  <2> QED
    BY <2>1, <2>4, DepthAssumption DEF SafeTip, Tip
<1>3. /\ Window' = Window /\ (\A e, a : IsFork(e, a)' <=> IsFork(e, a))
      /\ Reverted(db)' = Reverted(db) /\ Interrupted' = Interrupted /\ (Pinned' <=> Pinned)
  BY <1>1, SameWindow DEF Reverted, Interrupted, Pinned
<1>4. /\ reorgs \in Nat /\ SafeTip \in Int /\ Window \subseteq checkpoints /\ Interrupted \subseteq checkpoints
      /\ \A cp \in checkpoints : cp \in Hashes /\ Len(cp) \in Nat
      /\ \A hash \in Hashes : Len(hash) \in Nat
  BY NumbersOfHeights DEF Interrupted
<1>5. Past'
  <2>1. CheckpointsAreOld'
    <3> SUFFICES ASSUME NEW cp \in checkpoints
                 PROVE  /\ Len(cp) = 0 \/ Len(cp) <= SafeTip'
                        /\ ~Canonical(cp)' => Len(cp) < SafeTip' /\ reorgs' > 0
      BY <1>1 DEF CheckpointsAreOld
    <3>1. Len(cp) = 0 \/ Len(cp) <= SafeTip
      BY DEF RollbackInv, Past, CheckpointsAreOld
    <3>2. Len(cp) = 0 => Canonical(cp)'
      <4>1. SubSeq(chain', 1, 0) = <<>> /\ Len(chain') \in Nat
        BY <1>1 DEF ChainTypeOK, Hashes
      <4>2. Len(cp) = 0 => cp = <<>>
        BY <1>4 DEF Hashes
      <4> QED
        BY <4>1, <4>2 DEF Canonical, Tip, Hash
    <3> QED
      BY <1>1, <1>2, <1>4, <3>1, <3>2
  <2>2. RangeIsNew'
    BY <1>1, <1>2, <1>3, NumbersOfHeights DEF RollbackInv, Past, RangeIsNew
  <2>3. RevertedAreOld'
    BY <1>1, <1>2, <1>3, <1>4 DEF RollbackInv, Past, RevertedAreOld, Reverted
  <2>4. PinIsEvidence'
    BY <1>1, <1>2, <1>3, <1>4 DEF RollbackInv, Past, PinIsEvidence
  <2> QED
    BY <2>1, <2>2, <2>3, <2>4 DEF Past
<1>6. PinIsRolledBack'
  BY <1>1, <1>3 DEF RollbackInv, PinIsRolledBack, RolledBack, Complete
<1>7. CrashLimit = 0 => Calm'
  BY <1>1, <1>3 DEF RollbackInv, Calm
<1>8. ASSUME MaxReorgs <= 2 PROVE Remembered'
  <2>1. /\ RollbackIsMetAgain /\ EvidenceIsExposed /\ OneOldBranch /\ PinIsOldest
        /\ reorgs \in {0, 1}
    BY <1>1, <1>4, <1>8, ChainConstants DEF RollbackInv, Remembered
  <2>2. CASE reorgs = 0
    <3>1. Reverted(db) = {} /\ ~Pinned
      BY <2>2 DEF RollbackInv, Past, RevertedAreOld, PinIsEvidence
    <3>2. Interrupted' = {} /\ ~Pinned'
      BY <1>3, <3>1 DEF Interrupted
    <3>3. OneOldBranch'
      <4> SUFFICES ASSUME NEW cp \in checkpoints, NEW other \in checkpoints, Len(cp) <= Len(other)
                   PROVE  SubSeq(other, 1, Len(cp)) = cp
        BY <1>1 DEF OneOldBranch
      <4>1. Canonical(cp) /\ Canonical(other)
        BY <2>2 DEF RollbackInv, Past, CheckpointsAreOld
      <4>2. other = SubSeq(chain, 1, Len(other)) /\ cp = SubSeq(chain, 1, Len(cp))
            /\ Len(other) <= Len(chain) /\ chain \in Seq(Blocks)
        BY <1>1, <4>1 DEF Canonical, Tip, Hash, ChainTypeOK, Hashes
      <4> QED
        BY <1>4, <4>2, PrefixOfPrefix
    <3> QED
      BY <3>2, <3>3 DEF Remembered, RollbackIsMetAgain, EvidenceIsExposed, PinIsOldest
  <2>3. CASE reorgs = 1
    <3>1. \A e \in Interrupted : pc \in Early /\ e \in Window /\ RolledBack(e)
      BY <2>1, <2>3 DEF RollbackIsMetAgain
    <3>2. RollbackIsMetAgain'
      BY <1>1, <1>3, <3>1 DEF RollbackIsMetAgain, RolledBack, Complete
    <3>3. EvidenceIsExposed'
      <4> SUFFICES ASSUME NEW e \in Hashes, e \in Interrupted \/ (Pinned /\ e = pin.block),
                          pc \in Early, ~Canonical(e)', NEW cp \in Window, Len(cp) > Len(e)
                   PROVE  ~Canonical(cp)'
        BY <1>1, <1>3, <1>4, <2>3 DEF EvidenceIsExposed, Exposed
      <4>1. e \in checkpoints /\ cp \in checkpoints /\ Len(e) \in Nat /\ Len(cp) \in Nat
        BY <1>4 DEF RollbackInv, Past, PinIsEvidence
      <4>2. ~Canonical(e) /\ ~Canonical(cp)
        BY <2>1, <2>3 DEF EvidenceIsExposed, Exposed
      <4>3. SubSeq(cp, 1, Len(e)) = e
        BY <2>1, <2>3, <4>1, <4>2 DEF OneOldBranch
      <4>4. ASSUME Canonical(cp)' PROVE FALSE
        <5>1. cp = SubSeq(chain', 1, Len(cp)) /\ Len(cp) <= Len(chain') /\ chain' \in Seq(Blocks)
          BY <1>1, <4>4 DEF Canonical, Tip, Hash, ChainTypeOK, Hashes
        <5>2. SubSeq(chain', 1, Len(e)) = e
          BY <4>1, <4>3, <5>1, PrefixOfPrefix
        <5>3. Len(e) <= Len(chain')
          BY <4>1, <5>1 DEF Hashes
        <5> QED
          BY <5>2, <5>3 DEF Canonical, Tip, Hash
      <4> QED
        BY <4>4
    <3>4. OneOldBranch'
      BY <1>1, <2>3 DEF OneOldBranch
    <3>5. PinIsOldest'
      BY <1>1, <1>3, <2>1, <2>3 DEF PinIsOldest
    <3> QED
      BY <3>2, <3>3, <3>4, <3>5 DEF Remembered
  <2> QED
    BY <2>1, <2>2, <2>3
<1> QED
  BY <1>1, <1>4, <1>5, <1>6, <1>7, <1>8, ChainConstants DEF RollbackInv, ReorgsAreBounded

\* No rollback is on record when the first process starts.
LEMMA RollbackInit ==
    ASSUME \A cp \in InitialCheckpoints : Buried(InitialChain, cp)
    PROVE  Init => RollbackInv
<1> SUFFICES ASSUME Init PROVE RollbackInv
  OBVIOUS
<1>1. /\ chain = InitialChain /\ checkpoints = InitialCheckpoints /\ pc = "idle" /\ reorgs = 0
      /\ db.processed = {} /\ TypeOK
  BY TypeInit DEF Init, ChainInit, IngestionInit
<1>2. Reverted(db) = {} /\ Interrupted = {} /\ ~Pinned
  BY <1>1 DEF Reverted, Interrupted, Pinned
<1>3. ASSUME NEW cp \in checkpoints PROVE Canonical(cp) /\ (Len(cp) = 0 \/ Len(cp) <= SafeTip)
  <2>1. Buried(chain, cp) /\ Len(cp) \in Nat
    BY <1>1, <1>3, NumbersOfHeights
  <2>2. CASE cp = NoBlock
    <3>1. SubSeq(chain, 1, 0) = <<>>
      BY <1>1 DEF TypeOK, ChainTypeOK, Hashes
    <3> QED
      BY <1>1, <2>2, <3>1, NumbersOfHeights DEF NoBlock, Canonical, Tip, Hash
  <2>3. CASE cp # NoBlock
    BY <1>1, <2>1, <2>3, NumbersOfHeights DEF Buried, Canonical, Tip, Hash, SafeTip
  <2> QED
    BY <2>2, <2>3
<1>4. Past
  BY <1>1, <1>2, <1>3 DEF Past, CheckpointsAreOld, RangeIsNew, RevertedAreOld, PinIsEvidence
<1>5. Remembered
  BY <1>1, <1>2 DEF Remembered, RollbackIsMetAgain, EvidenceIsExposed, OneOldBranch, PinIsOldest
<1> QED
  BY <1>1, <1>2, <1>4, <1>5, ChainConstants DEF RollbackInv, PinIsRolledBack, ReorgsAreBounded, Calm

\* Every step keeps the invariant; only DetectReorg, RollBack, Rewind, the scan
\* and the chain touch what it speaks of.
LEMMA RollbackStep ==
    ASSUME ~Producers, CrashLimit = 0 \/ MaxReorgs <= 2,
           TypeOK, TypeOK', RollbackInv, [Next]_vars
    PROVE  RollbackInv'
<1>1. CASE DetectReorg \/ RollBack \/ Rewind \/ Scan \/ SaveCheckpoint
  BY <1>1, DetectKeeps, RollBackKeeps, RewindKeeps, ScanKeeps, SaveKeeps
<1>2. CASE Environment
  <2>1. CASE Reorg
    BY <1>2, <2>1, ReorgKeeps DEF Environment
  <2>2. CASE ~Reorg
    BY <1>2, <2>2, ChainOnlyGrows, GrowthKeeps DEF Environment, TypeOK
  <2> QED
    BY <2>1, <2>2
<1>3. ASSUME ~RollBack PROVE Reverted(db') = Reverted(db)
  BY <1>3, StepAdvances DEF Advances
<1>4. CASE \/ \E o \in Orders : Index(o) \/ Sweep(o) \/ Retry(o)
           \/ StartRetry \/ RefreshBook \/ (\E b \in Buys, s \in Sells : StartTrade(b, s)) \/ EndTick
           \/ ReserveSell \/ CheckLegs \/ Submit \/ Release \/ Record \/ Recheck
  <2>1. /\ UNCHANGED <<chain, reorgs, checkpoints>> /\ pc \notin Early /\ pc' \notin {"rollback", "rewind"}
        /\ pc' = "index" => pc = "index" /\ pin' = pin
        /\ ~RollBack
    BY <1>4 DEF Index, Sweep, Retry, StartRetry, RefreshBook, StartTrade, EndTick, ReserveSell,
       CheckLegs, Submit, Release, Record, Recheck, AbandonTick, Goto, chainVars, Early, RollBack
  <2> QED
    BY <1>3, <2>1, OrdinaryStep
<1>5. CASE \/ StartTick \/ Crash \/ (\E o \in Orders : Expire(o)) \/ UNCHANGED vars
  <2>1. /\ UNCHANGED <<chain, reorgs, checkpoints>>
        /\ UNCHANGED <<pc, pin>> \/ pc' \in {"idle", "detect"}
        /\ CrashLimit = 0 => UNCHANGED <<pc, pin>> \/ pc # "rewind"
        /\ pc = "rollback" => pc' # "rewind"
    BY <1>5 DEF StartTick, Crash, Expire, vars, chainVars, botVars, AbandonTick, Goto, TypeOK
  <2>2. ~RollBack \/ UNCHANGED db
    BY <2>1 DEF RollBack
  <2>3. Reverted(db') = Reverted(db)
    BY <1>3, <2>2
  <2>4. \A a \in Int : Complete(db, a) => Complete(db', a)
    <3>1. CASE \E o \in Orders : Expire(o)
      <4>1. /\ \A x \in Orders : /\ db'.orders[x].status = db.orders[x].status
                                 /\ db'.orders[x].created = db.orders[x].created
                                 /\ db'.orders[x].spent = db.orders[x].spent
            /\ db'.trades = db.trades
        BY <3>1 DEF Expire, TypeOK, Databases, OrderDocs
      <4> QED
        BY <4>1 DEF Complete
    <3>2. CASE UNCHANGED db
      BY <3>2
    <3> QED
      BY <1>5, <3>1, <3>2 DEF StartTick, Crash, vars
  <2>5. CASE pc \in Early
    BY <2>1, <2>3, <2>4, <2>5, StandStill
  <2>6. CASE pc \notin Early
    BY <2>1, <2>3, <2>6, OrdinaryStep DEF Early
  <2> QED
    BY <2>5, <2>6
<1>6. ~Post
  BY DEF Post
<1> QED
  BY <1>1, <1>2, <1>4, <1>5, <1>6 DEF Next, BotStep

\* When the checkpoint store is about to be rewound, the rollback that was
\* ingested for it has left nothing above the common ancestor it was computed
\* for: no live order created there, no fill, cancellation or trade in a block
\* there.  For any orders, depth and window and reorganisations as deep as they
\* like, one within the rollback of another included, when the bot is the only
\* producer and starts with checkpoints its chain contains.  With crashes there
\* are two reorganisations: a third one can bring back a branch whose rollback
\* a crash cut short, and the next rollback from it is then a duplicate.
THEOREM RollbacksAreComplete ==
    ASSUME ~Producers, \A cp \in InitialCheckpoints : Buried(InitialChain, cp),
           CrashLimit = 0 \/ MaxReorgs <= 2
    PROVE  Spec => []RollbackIsComplete
<1>1. Init => TypeOK /\ RollbackInv
  BY TypeInit, RollbackInit
<1>2. (TypeOK /\ RollbackInv) /\ [Next]_vars => (TypeOK /\ RollbackInv)'
  BY TypeStep, RollbackStep
<1>3. TypeOK /\ RollbackInv => RollbackIsComplete
  <2> SUFFICES ASSUME TypeOK, RollbackInv, pc = "rewind" PROVE Complete(db, pin.ancestor)
    BY DEF RollbackIsComplete, Complete
  <2>1. IsFork(pin.block, pin.ancestor) /\ pin.block \in Reverted(db) /\ Pinned
    BY DEF RollbackInv, Past, PinIsEvidence, Pinned
  <2> QED
    BY <2>1, NumbersOfHeights DEF RollbackInv, PinIsRolledBack, RolledBack
<1> QED
  BY <1>1, <1>2, <1>3, PTL DEF Spec

---------------------------------------------------------------------------
(* The ledger.  The matcher implements OrderLedger as long as              *)
(* reorganisations are shallower than the confirmation depth and the       *)
(* checkpoints the first process starts with are buried blocks of the      *)
(* chain.  The inductive invariant has three parts: the hashes the bot     *)
(* compares are buried (Buried), so no tick finds a mismatch; what the     *)
(* database claims, the settled part of the chain says (Sound); and the    *)
(* orders a loop goes on to write about are indexed (AtWork).              *)

\* Reorganisations are too shallow to reach what counts.
Shallow ==
    /\ MaxReorgDepth < confirmationDepth
    /\ \A cp \in InitialCheckpoints : Buried(InitialChain, cp)

\* What the database claims about an order or a trade is settled.
Sound(d) ==
    /\ \A o \in Orders : Indexed(d, o) => SettledTx(Create(o))
    /\ \A tx \in Settlements : d.trades[tx].status = "CONFIRMED" =>
         SettledTx(tx) /\ \A o \in tx.of : Indexed(d, o)
    /\ \A o \in Orders : d.orders[o].status = "FILLED" =>
         \E tx \in Settlements : o \in tx.of /\ d.trades[tx].status = "CONFIRMED"
    /\ \A o \in Orders : d.orders[o].status = "CANCELED" => SettledTx(Cancel(o))

\* A database that forgets neither an order nor a trade of d.
Keeps(d, e) ==
    /\ \A o \in Orders : Indexed(d, o) => Indexed(e, o)
    /\ \A tx \in Settlements : d.trades[tx].status = "CONFIRMED" => e.trades[tx].status = "CONFIRMED"

AtWork ==
    /\ pc \in {"retry", "match"} \cup TradeSteps => \A o \in work : Indexed(db, o)
    /\ pc \in TradeSteps => Indexed(db, Buy) /\ Indexed(db, Sell)

HashesAreBuried ==
    /\ \A cp \in checkpoints : Buried(chain, cp)
    /\ pc = "index" => Buried(chain, pin.block)

Inv ==
    /\ TypeOK
    /\ ValidChain(chain)
    /\ HashesAreBuried
    /\ ShallowReorgsStayOut
    /\ Sound(db)
    /\ AtWork

---------------------------------------------------------------------------
(* The settled part of a chain                                             *)

LEMMA SettledByHeight ==
    ASSUME NEW c \in Hashes, NEW tx
    PROVE  tx \in SettledTxs(c) <=>
             \E h \in 1..(Len(c) - confirmationDepth + 1) : tx \in c[h].txs
<1> DEFINE n == Len(c) - confirmationDepth + 1
           part == SubSeq(c, 1, n)
<1>1. n \in Int /\ n <= Len(c) /\ \A h \in 1..n : c[h] \in Blocks
  BY DepthAssumption DEF Hashes
<1>2. /\ part \in Seq(Blocks) /\ Len(part) = IF 1 <= n THEN n ELSE 0
      /\ \A h \in 1..n : part[h] = c[h]
  BY <1>1, SubSeqProperties
<1>3. DOMAIN part = 1..n
  BY <1>1, <1>2
<1> QED
  BY <1>2, <1>3 DEF SettledTxs, TxsOf

LEMMA SettledIsCommitted ==
    ASSUME NEW c \in Hashes, NEW tx \in SettledTxs(c)
    PROVE  tx \in TxsOf(c) /\ tx \in Transactions
<1>1. PICK h \in 1..(Len(c) - confirmationDepth + 1) : tx \in c[h].txs
  BY SettledByHeight
<1>2. h \in DOMAIN c /\ c[h] \in Blocks
  BY <1>1, DepthAssumption DEF Hashes
<1> QED
  BY <1>1, <1>2 DEF TxsOf, Blocks

\* The fate of an order is the settled transaction that spent it; there is at
\* most one.
LEMMA FateIsSpender ==
    ASSUME NEW c \in Hashes, ValidChain(c), NEW o \in Orders
    PROVE  /\ \A tx \in SettledTxs(c) : Spends(tx, o) => FateOn(c)[o] = tx
           /\ (~\E tx \in SettledTxs(c) : Spends(tx, o)) =>
                FateOn(c)[o] = [kind |-> IF Create(o) \in SettledTxs(c) THEN "open" ELSE "unborn",
                                of |-> {}]
<1>1. ASSUME NEW tx \in SettledTxs(c), Spends(tx, o) PROVE FateOn(c)[o] = tx
  <2> DEFINE spender == CHOOSE x \in SettledTxs(c) : Spends(x, o)
  <2>1. spender \in SettledTxs(c) /\ Spends(spender, o)
    BY <1>1
  <2>2. spender = tx
    BY <1>1, <2>1, SettledIsCommitted DEF ValidChain, Conflict
  <2>3. FateOn(c)[o] = spender
    BY <1>1 DEF FateOn
  <2> QED
    BY <2>2, <2>3
<1>2. ASSUME ~\E tx \in SettledTxs(c) : Spends(tx, o)
      PROVE  FateOn(c)[o] = [kind |-> IF Create(o) \in SettledTxs(c) THEN "open" ELSE "unborn",
                             of |-> {}]
  BY <1>2 DEF FateOn
<1> QED
  BY <1>1, <1>2

\* What may be spent by what, seen from the ledger.
LEMMA FateKinds ==
    ASSUME NEW c \in Hashes, ValidChain(c), NEW o \in Orders
    PROVE  /\ FateOn(c)[o] \in Ends \cup {Ledger!Unborn, Ledger!Open}
           /\ FateOn(c)[o] \in Ends => FateOn(c)[o] \in SettledTxs(c) /\ Spends(FateOn(c)[o], o)
           /\ FateOn(c)[o] = Ledger!Open => Create(o) \in SettledTxs(c)
           /\ FateOn(c)[o] = Ledger!Unborn => Create(o) \notin SettledTxs(c)
<1>1. \A e \in Ends : e.kind \in {"cancel", "settle", "take"}
  BY DEF Ends, Cancel, Settlements, Settle, Take
<1>2. CASE \E tx \in SettledTxs(c) : Spends(tx, o)
  <2>1. PICK tx \in SettledTxs(c) : Spends(tx, o)
    BY <1>2
  <2>2. FateOn(c)[o] = tx
    BY <2>1, FateIsSpender
  <2>3. tx \in Ends
    BY <2>1, SettledIsCommitted, TransactionKinds DEF Ends, Spends
  <2> QED
    BY <1>1, <2>1, <2>2, <2>3 DEF Ledger!Open, Ledger!Unborn
<1>3. CASE ~\E tx \in SettledTxs(c) : Spends(tx, o)
  BY <1>1, <1>3, FateIsSpender DEF Ledger!Open, Ledger!Unborn
<1> QED
  BY <1>2, <1>3

LEMMA FatesAreFates ==
    ASSUME NEW c \in Hashes, ValidChain(c)
    PROVE  FateOn(c) \in Ledger!Fates
<1>1. FateOn(c) \in [Orders -> Ends \cup {Ledger!Unborn, Ledger!Open}]
  <2>1. FateOn(c) = [o \in Orders |-> FateOn(c)[o]]
    BY DEF FateOn
  <2> QED
    BY <2>1, FateKinds
<1>2. ASSUME NEW o \in Orders, FateOn(c)[o] \in Ends
      PROVE  /\ o \in FateOn(c)[o].of
             /\ \A other \in FateOn(c)[o].of : FateOn(c)[other] = FateOn(c)[o]
  <2> DEFINE tx == FateOn(c)[o]
  <2>1. tx \in SettledTxs(c) /\ Spends(tx, o)
    BY <1>2, FateKinds
  <2>2. tx \in Transactions
    BY <2>1, SettledIsCommitted
  <2>3. \A other \in tx.of : other \in Orders /\ Spends(tx, other)
    BY <2>1, <2>2, TransactionKinds DEF Spends
  <2> QED
    BY <2>1, <2>3, FateIsSpender DEF Spends
<1> QED
  BY <1>1, <1>2 DEF Ledger!Fates

---------------------------------------------------------------------------
(* The chain's steps                                                       *)

\* Nothing happens to the blocks that are settled.
LEMMA ChainSettles ==
    ASSUME MaxReorgDepth < confirmationDepth, ChainTypeOK, ChainTypeOK', ValidChain(chain), ChainNext
    PROVE  /\ ValidChain(chain') /\ Len(chain') >= Len(chain)
           /\ \A h \in 1..(Len(chain) - confirmationDepth + 1) : chain'[h] = chain[h]
<1>1. Len(chain) \in Nat /\ confirmationDepth \in Nat \ {0} /\ MaxReorgDepth \in Nat
  BY DepthAssumption, ChainConstants DEF ChainTypeOK, Hashes
<1>2. CASE MineBlock
  <2>1. PICK txs \in SUBSET pool :
          LET longer == Append(chain, [miner |-> UsualMiner, txs |-> txs])
          IN  ValidChain(longer) /\ chain' = longer
    BY <1>2 DEF MineBlock
  <2>2. ValidChain(chain')
    BY <2>1
  <2>3. Len(chain') = Len(chain) + 1 /\ \A h \in 1..Len(chain) : chain'[h] = chain[h]
    BY <2>1 DEF ChainTypeOK, Hashes
  <2> QED
    BY <1>1, <2>2, <2>3
<1>3. CASE Reorg
  <2>1. PICK keep \in 0..(Tip - 1), miner \in Miners :
          /\ Tip - keep <= MaxReorgDepth
          /\ LET detached == UNION {chain[h].txs : h \in (keep + 1)..Tip}
             IN  \E place \in [detached \cup pool -> {0} \cup ((keep + 1)..(Tip + 1))] :
                   LET branch == [h \in 1..(Tip + 1) |->
                                    IF h <= keep THEN chain[h]
                                    ELSE [miner |-> miner,
                                          txs |-> {tx \in detached \cup pool : place[tx] = h}]]
                   IN  ValidChain(branch) /\ chain' = branch
    BY <1>3 DEF Reorg
  <2> DEFINE detached == UNION {chain[h].txs : h \in (keep + 1)..Tip}
  <2>2. PICK place \in [detached \cup pool -> {0} \cup ((keep + 1)..(Tip + 1))] :
          LET branch == [h \in 1..(Tip + 1) |->
                           IF h <= keep THEN chain[h]
                           ELSE [miner |-> miner,
                                 txs |-> {tx \in detached \cup pool : place[tx] = h}]]
          IN  ValidChain(branch) /\ chain' = branch
    BY <2>1
  <2>3. ValidChain(chain')
    BY <2>2
  <2>4. DOMAIN chain' = 1..(Tip + 1) /\ \A h \in 1..keep : chain'[h] = chain[h]
    BY <1>1, <2>2 DEF Tip
  <2>5. Len(chain') = Len(chain) + 1
    BY <1>1, <2>4 DEF Tip, ChainTypeOK, Hashes
  <2>6. keep >= Len(chain) - confirmationDepth + 1
    BY <1>1, <2>1 DEF Tip
  <2>7. 1..(Len(chain) - confirmationDepth + 1) \subseteq 1..keep
    BY <1>1, <2>6 DEF Tip
  <2>8. \A h \in 1..(Len(chain) - confirmationDepth + 1) : chain'[h] = chain[h]
    BY <2>4, <2>7
  <2>9. Len(chain') >= Len(chain)
    BY <1>1, <2>5
  <2> QED
    BY <2>3, <2>8, <2>9
<1>4. CASE chain' = chain
  BY <1>1, <1>4
<1> QED
  BY <1>2, <1>3, <1>4 DEF ChainNext, Evict, SubmitOther

\* What is settled or buried stays so.
LEMMA SettledStays ==
    ASSUME NEW c \in Hashes, NEW e \in Hashes, Len(e) >= Len(c),
           \A h \in 1..(Len(c) - confirmationDepth + 1) : e[h] = c[h]
    PROVE  /\ SettledTxs(c) \subseteq SettledTxs(e)
           /\ \A hash \in Hashes : Buried(c, hash) => Buried(e, hash)
<1>1. Len(c) \in Nat /\ Len(e) \in Nat /\ confirmationDepth \in Nat \ {0}
  BY DepthAssumption DEF Hashes
<1>2. SettledTxs(c) \subseteq SettledTxs(e)
  <2> SUFFICES ASSUME NEW tx \in SettledTxs(c) PROVE tx \in SettledTxs(e)
    OBVIOUS
  <2>1. PICK h \in 1..(Len(c) - confirmationDepth + 1) : tx \in c[h].txs
    BY SettledByHeight
  <2>2. h \in 1..(Len(e) - confirmationDepth + 1) /\ tx \in e[h].txs
    BY <1>1, <2>1
  <2> QED
    BY <2>2, SettledByHeight
<1>3. ASSUME NEW hash \in Hashes, Buried(c, hash) PROVE Buried(e, hash)
  <2>1. CASE hash = NoBlock
    BY <2>1 DEF Buried
  <2>2. CASE hash # NoBlock
    <3> DEFINE n == Len(hash)
    <3>1. n \in Nat /\ n <= Len(c) - confirmationDepth /\ SubSeq(c, 1, n) = hash
      BY <1>3, <2>2 DEF Buried, Hashes
    <3>2. \A h \in 1..n : c[h] \in Blocks /\ e[h] \in Blocks /\ e[h] = c[h]
      BY <1>1, <3>1 DEF Hashes
    <3>3. /\ SubSeq(c, 1, n) \in Seq(Blocks) /\ Len(SubSeq(c, 1, n)) = IF 1 <= n THEN n ELSE 0
          /\ \A h \in 1..n : SubSeq(c, 1, n)[h] = c[h]
      BY <3>1, <3>2, SubSeqProperties
    <3>4. /\ SubSeq(e, 1, n) \in Seq(Blocks) /\ Len(SubSeq(e, 1, n)) = IF 1 <= n THEN n ELSE 0
          /\ \A h \in 1..n : SubSeq(e, 1, n)[h] = e[h]
      BY <3>1, <3>2, SubSeqProperties
    <3>5. SubSeq(e, 1, n) = SubSeq(c, 1, n)
      BY <3>1, <3>2, <3>3, <3>4, SeqEqual
    <3> QED
      BY <1>1, <3>1, <3>5 DEF Buried
  <2> QED
    BY <2>1, <2>2
<1> QED
  BY <1>2, <1>3

---------------------------------------------------------------------------
(* The steps of the ledger                                                 *)

LEMMA LearnStep ==
    ASSUME chain \in Hashes, ValidChain(chain), chain' = chain, Sound(db'), Keeps(db, db')
    PROVE  Ledger!Learn
<1>1. ASSUME NEW tx \in Settlements, SettledTx(tx), NEW o \in Orders, o \in tx.of
      PROVE  FateOn(chain)[o] = tx
  BY <1>1, TransactionKinds, FateIsSpender DEF SettledTx, Spends
<1>2. ASSUME NEW o \in Orders, Indexed(db', o) PROVE FateOn(chain)[o] # Ledger!Unborn
  BY <1>2, FateKinds DEF Sound, SettledTx
<1>3. ASSUME NEW o \in Orders, db'.orders[o].status \in {"FILLED", "CANCELED"}
      PROVE  Indexed(db', o) /\ FateOn(chain)[o] \in Ends
  <2>1. CASE db'.orders[o].status = "FILLED"
    <3>1. PICK tx \in Settlements : o \in tx.of /\ db'.trades[tx].status = "CONFIRMED"
      BY <2>1 DEF Sound
    <3> QED
      BY <1>1, <2>1, <3>1 DEF Sound, Ends, Indexed
  <2>2. CASE db'.orders[o].status = "CANCELED"
    <3>1. SettledTx(Cancel(o)) /\ Spends(Cancel(o), o)
      BY <2>2 DEF Sound, Spends, Cancel
    <3>2. FateOn(chain)[o] = Cancel(o)
      BY <3>1, FateIsSpender DEF SettledTx
    <3> QED
      BY <2>2, <3>2 DEF Ends, Indexed
  <2> QED
    BY <1>3, <2>1, <2>2
<1>4. \A o \in Orders : Indexed(db, o) => Indexed(db', o)
  BY DEF Keeps
<1>5. \A tx \in Settlements : db'.trades[tx].status = "CONFIRMED" =>
        \A o \in tx.of : o \in Orders /\ Indexed(db', o) /\ FateOn(chain)[o] = tx
  BY <1>1, TransactionKinds DEF Sound
<1>6. \A tx \in Settlements : db.trades[tx].status = "CONFIRMED" => db'.trades[tx].status = "CONFIRMED"
  BY DEF Keeps
<1>7. {o \in Orders : Indexed(db, o)}' = {o \in Orders : Indexed(db', o)}
  BY DEF Indexed
<1> QED
  BY <1>2, <1>3, <1>4, <1>5, <1>6, <1>7 DEF Ledger!Learn

LEMMA FulfilStep ==
    ASSUME chain \in Hashes, chain' \in Hashes, ValidChain(chain), ValidChain(chain'),
           SettledTxs(chain) \subseteq SettledTxs(chain'), db' = db
    PROVE  Ledger!Fulfil
<1>1. FateOn(chain') \in Ledger!Fates
  BY FatesAreFates
<1>2. ASSUME NEW o \in Orders, FateOn(chain)[o] \in Ends PROVE FateOn(chain')[o] = FateOn(chain)[o]
  BY <1>2, FateKinds, FateIsSpender
<1>3. ASSUME NEW o \in Orders, FateOn(chain)[o] = Ledger!Open PROVE FateOn(chain')[o] # Ledger!Unborn
  BY <1>3, FateKinds
<1>4. FateOn(chain)' = FateOn(chain')
  BY DEF FateOn, SettledTxs
<1>5. {o \in Orders : Indexed(db, o)}' = {o \in Orders : Indexed(db, o)}
  BY DEF Indexed
<1> QED
  BY <1>1, <1>2, <1>3, <1>4, <1>5 DEF Ledger!Fulfil

---------------------------------------------------------------------------
(* What the database's operators keep                                      *)

\* A database that knows the same orders and claims no more is as sound.
LEMMA Lesser ==
    ASSUME NEW d \in Databases, Sound(d), NEW e \in Databases, e.trades = d.trades,
           \A o \in Orders : Indexed(e, o) <=> Indexed(d, o),
           \A o \in Orders : e.orders[o].status \in {"FILLED", "CANCELED"} =>
             e.orders[o].status = d.orders[o].status
    PROVE  Sound(e) /\ Keeps(d, e)
<1>1. \A o \in Orders : Indexed(e, o) => SettledTx(Create(o))
  BY DEF Sound
<1>2. \A tx \in Settlements : e.trades[tx].status = "CONFIRMED" =>
        SettledTx(tx) /\ \A o \in tx.of : Indexed(e, o)
  BY TransactionKinds DEF Sound
<1>3. \A o \in Orders : e.orders[o].status = "FILLED" =>
        \E tx \in Settlements : o \in tx.of /\ e.trades[tx].status = "CONFIRMED"
  BY DEF Sound
<1>4. \A o \in Orders : e.orders[o].status = "CANCELED" => SettledTx(Cancel(o))
  BY DEF Sound
<1>5. Sound(e)
  BY <1>1, <1>2, <1>3, <1>4 DEF Sound
<1>6. Keeps(d, e)
  BY DEF Keeps
<1> QED
  BY <1>5, <1>6

LEMMA KeepsComposes ==
    ASSUME NEW d, NEW e, NEW f, Keeps(d, e), Keeps(e, f)
    PROVE  Keeps(d, f)
BY DEF Keeps

LEMMA OwnWritesSound ==
    ASSUME NEW d \in Databases, Sound(d), NEW o \in Orders, Indexed(d, o)
    PROVE  /\ Sound(RevertToLive(d, o)) /\ Keeps(d, RevertToLive(d, o))
           /\ Sound(Reserve(d, o)) /\ Keeps(d, Reserve(d, o))
<1>1. RevertToLive(d, o) \in Databases /\ Reserve(d, o) \in Databases
  BY OwnWritesType
<1>2. /\ RevertToLive(d, o).trades = d.trades
      /\ \A x \in Orders \ {o} : RevertToLive(d, o).orders[x] = d.orders[x]
      /\ RevertToLive(d, o).orders[o].status = "LIVE"
  BY DEF RevertToLive, Databases, OrderDocs
<1>3. /\ Reserve(d, o).trades = d.trades
      /\ \A x \in Orders \ {o} : Reserve(d, o).orders[x] = d.orders[x]
      /\ Reserve(d, o).orders[o].status = "RESERVED"
  BY DEF Reserve, Databases, OrderDocs
<1>4. \A x \in Orders : /\ Indexed(RevertToLive(d, o), x) <=> Indexed(d, x)
                        /\ Indexed(Reserve(d, o), x) <=> Indexed(d, x)
  BY <1>2, <1>3 DEF Indexed
<1>5. Sound(RevertToLive(d, o)) /\ Keeps(d, RevertToLive(d, o))
  BY <1>1, <1>2, <1>4, Lesser
<1>6. Sound(Reserve(d, o)) /\ Keeps(d, Reserve(d, o))
  BY <1>1, <1>3, <1>4, Lesser
<1> QED
  BY <1>5, <1>6

\* Verification lets only settled transactions through.
LEMMA ConfirmedIsSettled ==
    ASSUME ChainTypeOK, NEW e, RequireConfirmed(e) \notin {"reject", "retry"}
    PROVE  SettledTx(e.tx)
<1>1. Committed(e.tx) /\ e.block = BlockOf(e.tx) /\ ~(Tip - Len(e.block) + 1 < confirmationDepth)
  BY DEF RequireConfirmed
<1>2. HeightOf(e.tx) \in 1..Tip /\ e.tx \in chain[HeightOf(e.tx)].txs
  BY <1>1, CommittedBlock
<1>3. Len(e.block) = HeightOf(e.tx)
  <2>1. \A h \in 1..HeightOf(e.tx) : chain[h] \in Blocks
    BY <1>2 DEF ChainTypeOK, Hashes, Tip
  <2> QED
    BY <1>1, <1>2, <2>1, SubSeqProperties DEF BlockOf, Hash
<1>4. HeightOf(e.tx) \in 1..(Len(chain) - confirmationDepth + 1)
  BY <1>1, <1>2, <1>3, DepthAssumption DEF Tip, ChainTypeOK, Hashes
<1> QED
  BY <1>2, <1>4, SettledByHeight DEF SettledTx, ChainTypeOK

LEMMA ConfirmationSound ==
    ASSUME ChainTypeOK, NEW d \in Databases, Sound(d), NEW e, WellFormed(e),
           e.type = "order-confirmed", RequireConfirmed(e) \notin {"reject", "retry"}
    PROVE  Sound(ApplyOrderConfirmed(d, e)) /\ Keeps(d, ApplyOrderConfirmed(d, e))
<1>1. PICK o \in Orders : e.tx = Create(o)
  BY DEF WellFormed
<1>2. OrderOf(e) = o /\ SettledTx(Create(o))
  BY <1>1, OrderOfEvent, ConfirmedIsSettled
<1> DEFINE after == ApplyOrderConfirmed(d, e)
<1>3. /\ after.trades = d.trades
      /\ \A x \in Orders \ {o} : after.orders[x] = d.orders[x]
      /\ (after.orders[o] = d.orders[o] /\ Indexed(d, o)) \/ after.orders[o].status = "LIVE"
  BY <1>2 DEF ApplyOrderConfirmed, Databases, OrderDocs, NotIndexed
<1> HIDE DEF after
<1>4. \A x \in Orders : Indexed(d, x) => Indexed(after, x)
  BY <1>3 DEF Indexed
<1>5. \A x \in Orders : Indexed(after, x) => SettledTx(Create(x))
  BY <1>2, <1>3 DEF Indexed, Sound
<1>6. \A x \in Orders : after.orders[x].status \in {"FILLED", "CANCELED"} =>
        after.orders[x].status = d.orders[x].status
  BY <1>3
<1>7. \A tx \in Settlements : after.trades[tx].status = "CONFIRMED" =>
        SettledTx(tx) /\ \A x \in tx.of : Indexed(after, x)
  BY <1>3, <1>4, TransactionKinds DEF Sound
<1>8. \A x \in Orders : after.orders[x].status = "FILLED" =>
        \E tx \in Settlements : x \in tx.of /\ after.trades[tx].status = "CONFIRMED"
  BY <1>3, <1>6 DEF Sound
<1>9. \A x \in Orders : after.orders[x].status = "CANCELED" => SettledTx(Cancel(x))
  BY <1>6 DEF Sound
<1>10. Sound(after)
  BY <1>5, <1>7, <1>8, <1>9 DEF Sound
<1>11. Keeps(d, after)
  BY <1>3, <1>4 DEF Keeps
<1> QED
  BY <1>10, <1>11 DEF after

LEMMA CancellationSound ==
    ASSUME ChainTypeOK, NEW d \in Databases, Sound(d), NEW e, WellFormed(e),
           e.type = "order-cancelled", VerifyEvent(d, e) \notin {"reject", "retry"}
    PROVE  Sound(ApplyOrderCancelled(d, e)) /\ Keeps(d, ApplyOrderCancelled(d, e))
<1>1. PICK o \in Orders : e.tx = Cancel(o)
  BY DEF WellFormed
<1>2. OrderOf(e) = o /\ e.tx.of = {o}
  BY <1>1, OrderOfEvent DEF Cancel
<1>3. CASE ~Indexed(d, o)
  BY <1>2, <1>3 DEF ApplyOrderCancelled, Keeps
<1>4. CASE Indexed(d, o)
  <2>1. SettledTx(Cancel(o))
    BY <1>1, <1>2, <1>4, ConfirmedIsSettled DEF VerifyEvent
  <2> DEFINE after == ApplyOrderCancelled(d, e)
  <2>2. /\ after.trades = d.trades
        /\ \A x \in Orders \ {o} : after.orders[x] = d.orders[x]
        /\ after.orders[o].status = "CANCELED"
    BY <1>2, <1>4 DEF ApplyOrderCancelled, Databases, OrderDocs
  <2> HIDE DEF after
  <2>3. \A x \in Orders : Indexed(d, x) <=> Indexed(after, x)
    BY <1>4, <2>2 DEF Indexed
  <2>4. \A tx \in Settlements : after.trades[tx].status = "CONFIRMED" =>
          SettledTx(tx) /\ \A x \in tx.of : Indexed(after, x)
    BY <2>2, <2>3, TransactionKinds DEF Sound
  <2>5. \A x \in Orders : after.orders[x].status = "FILLED" =>
          \E tx \in Settlements : x \in tx.of /\ after.trades[tx].status = "CONFIRMED"
    BY <2>2 DEF Sound
  <2>6. \A x \in Orders : after.orders[x].status = "CANCELED" => SettledTx(Cancel(x))
    BY <2>1, <2>2 DEF Sound
  <2>7. Sound(after)
    BY <2>3, <2>4, <2>5, <2>6 DEF Sound
  <2>8. Keeps(d, after)
    BY <2>2, <2>3 DEF Keeps
  <2> QED
    BY <2>7, <2>8 DEF after
<1> QED
  BY <1>3, <1>4

LEMMA TradeSound ==
    ASSUME ChainTypeOK, NEW d \in Databases, Sound(d), NEW e, WellFormed(e),
           e.type = "trade-confirmed", VerifyEvent(d, e) \notin {"reject", "retry"}
    PROVE  Sound(ApplyTradeConfirmed(d, e)) /\ Keeps(d, ApplyTradeConfirmed(d, e))
<1>1. e.tx \in Settlements /\ e.tx.of \subseteq Orders /\ e.block \in Hashes
  BY TransactionKinds DEF WellFormed, Events
<1>2. CASE \E o \in e.tx.of : ~Indexed(d, o) \/ ~CanTransition(d, o, "FILLED")
  BY <1>2 DEF ApplyTradeConfirmed, Keeps
<1>3. CASE \A o \in e.tx.of : Indexed(d, o) /\ CanTransition(d, o, "FILLED")
  <2>1. SettledTx(e.tx)
    BY <1>3, ConfirmedIsSettled DEF VerifyEvent
  <2> DEFINE doc(o) == [d.orders[o] EXCEPT !.status = "FILLED", !.spent = e.block, !.pendingTx = e.tx]
             changed == [o \in e.tx.of |-> doc(o)]
             filled == WithOrders(d, changed)
             after == [filled EXCEPT !.trades[e.tx] = [status |-> "CONFIRMED", block |-> e.block]]
  <2>2. \A o \in Orders : doc(o) \in OrderDocs /\ doc(o).status = "FILLED"
    BY <1>1 DEF Databases, OrderDocs, Statuses
  <2>3. ApplyTradeConfirmed(d, e) = after
    BY <1>3 DEF ApplyTradeConfirmed
  <2> HIDE DEF doc
  <2>4. DOMAIN changed = e.tx.of /\ \A o \in e.tx.of : changed[o] = doc(o)
    OBVIOUS
  <2> HIDE DEF changed
  <2>5. /\ filled \in Databases /\ filled.trades = d.trades
        /\ \A o \in e.tx.of : filled.orders[o] = doc(o)
        /\ \A o \in Orders \ e.tx.of : filled.orders[o] = d.orders[o]
    BY <1>1, <2>2, <2>4, WithOrdersType
  <2> HIDE DEF filled
  <2>6. /\ \A o \in e.tx.of : after.orders[o].status = "FILLED"
        /\ \A o \in Orders \ e.tx.of : after.orders[o] = d.orders[o]
        /\ \A tx \in Settlements \ {e.tx} : after.trades[tx] = d.trades[tx]
        /\ after.trades[e.tx].status = "CONFIRMED"
    BY <1>1, <2>2, <2>5 DEF Databases
  <2> HIDE DEF after
  <2>7. \A o \in Orders : Indexed(d, o) <=> Indexed(after, o)
    BY <1>3, <2>6 DEF Indexed
  <2>8. \A tx \in Settlements : d.trades[tx].status = "CONFIRMED" => after.trades[tx].status = "CONFIRMED"
    BY <2>6
  <2>9. \A tx \in Settlements : after.trades[tx].status = "CONFIRMED" =>
          SettledTx(tx) /\ \A o \in tx.of : Indexed(after, o)
    BY <1>1, <1>3, <2>1, <2>6, <2>7, TransactionKinds DEF Sound
  <2>10. \A o \in Orders : after.orders[o].status = "FILLED" =>
           \E tx \in Settlements : o \in tx.of /\ after.trades[tx].status = "CONFIRMED"
    BY <1>1, <2>6, <2>8 DEF Sound
  <2>11. \A o \in Orders : after.orders[o].status = "CANCELED" => SettledTx(Cancel(o))
    BY <2>6 DEF Sound
  <2> QED
    BY <2>3, <2>7, <2>8, <2>9, <2>10, <2>11 DEF Sound, Keeps
<1> QED
  BY <1>2, <1>3

LEMMA PendingSound ==
    ASSUME NEW d \in Databases, Sound(d), NEW tx \in Settlements, NEW legs,
           \A o \in legs : o \in Orders /\ Indexed(d, o)
    PROVE  LET pending == WithOrders(d, [o \in legs |->
                            [d.orders[o] EXCEPT !.status = "PENDING", !.pendingTx = tx]])
           IN  pending \in Databases /\ Sound(pending) /\ Keeps(d, pending)
<1> DEFINE doc(o) == [d.orders[o] EXCEPT !.status = "PENDING", !.pendingTx = tx]
           changed == [o \in legs |-> doc(o)]
           pending == WithOrders(d, changed)
<1>1. \A o \in Orders : doc(o) \in OrderDocs /\ doc(o).status = "PENDING"
  BY DEF Databases, OrderDocs, Statuses
<1> HIDE DEF doc
<1>2. DOMAIN changed = legs /\ \A o \in legs : changed[o] = doc(o)
  OBVIOUS
<1> HIDE DEF changed
<1>3. /\ pending \in Databases /\ pending.trades = d.trades
      /\ \A o \in legs : pending.orders[o].status = "PENDING"
      /\ \A o \in Orders \ legs : pending.orders[o] = d.orders[o]
  BY <1>1, <1>2, WithOrdersType
<1> HIDE DEF pending
<1>4. \A o \in Orders : Indexed(pending, o) <=> Indexed(d, o)
  BY <1>3 DEF Indexed
<1>5. Sound(pending) /\ Keeps(d, pending)
  BY <1>3, <1>4, Lesser
<1> QED
  BY <1>3, <1>5 DEF pending, changed, doc

\* Whatever is ingested, duplicates and premature events included, except a
\* rollback.
LEMMA IngestedSound ==
    ASSUME ChainTypeOK, NEW d \in Databases, Sound(d), NEW e, WellFormed(e),
           e.type # "chain-reorg"
    PROVE  Sound(Ingested(d, e)) /\ Keeps(d, Ingested(d, e))
<1>1. CASE EventId(e) \in d.processed \/ Outcome(d, e) # "done"
  BY <1>1 DEF Ingested, Keeps
<1>2. CASE ~(EventId(e) \in d.processed \/ Outcome(d, e) # "done")
  <2>1. VerifyEvent(d, e) \notin {"reject", "retry"}
    BY <1>2 DEF Outcome
  <2>2. ApplyEvent(d, e) \in Databases /\ Ingested(d, e) \in Databases
    BY ApplyEventType, IngestedType
  <2>3. /\ Ingested(d, e).orders = ApplyEvent(d, e).orders
        /\ Ingested(d, e).trades = ApplyEvent(d, e).trades
    BY <1>2, <2>2 DEF Ingested, Databases
  <2>4. Sound(ApplyEvent(d, e)) /\ Keeps(d, ApplyEvent(d, e))
    <3>1. CASE e.type = "order-confirmed"
      BY <2>1, <3>1, ConfirmationSound DEF ApplyEvent, VerifyEvent
    <3>2. CASE e.type = "order-cancelled"
      BY <2>1, <3>2, CancellationSound DEF ApplyEvent
    <3>3. CASE e.type = "trade-confirmed"
      BY <2>1, <3>3, TradeSound DEF ApplyEvent
    <3>4. CASE e.type = "settlement-submitted"
      <4>1. e.tx \in Settlements /\ e.tx.of \subseteq Orders
        BY <3>4, TransactionKinds DEF WellFormed
      <4>2. CASE \E o \in e.tx.of : ~Indexed(d, o) \/ ~CanTransition(d, o, "PENDING")
        BY <3>4, <4>2 DEF ApplyEvent, ApplySettlementSubmitted, Keeps
      <4>3. CASE \A o \in e.tx.of : Indexed(d, o) /\ CanTransition(d, o, "PENDING")
        <5>1. ApplyEvent(d, e) = WithOrders(d, [o \in e.tx.of |->
                [d.orders[o] EXCEPT !.status = "PENDING", !.pendingTx = e.tx]])
          BY <3>4, <4>3 DEF ApplyEvent, ApplySettlementSubmitted
        <5> QED
          BY <4>1, <4>3, <5>1, PendingSound
      <4> QED
        BY <4>2, <4>3
    <3> QED
      BY <3>1, <3>2, <3>3, <3>4 DEF WellFormed, Events, EventTypes
  <2>5. /\ \A o \in Orders : Indexed(Ingested(d, e), o) <=> Indexed(ApplyEvent(d, e), o)
        /\ \A o \in Orders : Ingested(d, e).orders[o].status = ApplyEvent(d, e).orders[o].status
    BY <2>3 DEF Indexed
  <2>6. Sound(Ingested(d, e)) /\ Keeps(ApplyEvent(d, e), Ingested(d, e))
    BY <2>2, <2>3, <2>4, <2>5, Lesser
  <2> QED
    BY <2>4, <2>6, KeepsComposes
<1> QED
  BY <1>1, <1>2

LEMMA SpendSound ==
    ASSUME ChainTypeOK, NEW d \in Databases, Sound(d), NEW tx \in Transactions,
           Committed(tx), tx.kind # "create"
    PROVE  /\ Sound(Ingested(d, SpendConfirmed(tx))) /\ Keeps(d, Ingested(d, SpendConfirmed(tx)))
<1>1. SpendConfirmed(tx).type # "chain-reorg"
  BY DEF SpendConfirmed
<1> QED
  BY <1>1, SpendConfirmedEvent, IngestedSound

LEMMA IndexSound ==
    ASSUME ChainTypeOK, NEW d \in Databases, Sound(d), NEW o \in Orders, Committed(Create(o))
    PROVE  /\ Sound(Ingested(d, OrderConfirmed(o))) /\ Keeps(d, Ingested(d, OrderConfirmed(o)))
<1>1. OrderConfirmed(o).type # "chain-reorg"
  BY DEF OrderConfirmed
<1> QED
  BY <1>1, OrderConfirmedEvent, IngestedSound

LEMMA ReconcileSound ==
    ASSUME ChainTypeOK, NEW d \in Databases, Sound(d), NEW o \in Orders
    PROVE  /\ Sound(CheckOrderLiveness(d, o)) /\ Keeps(d, CheckOrderLiveness(d, o))
           /\ Sound(ReconcileSpentOrder(d, o)) /\ Keeps(d, ReconcileSpentOrder(d, o))
<1>1. Keeps(d, d)
  BY DEF Keeps
<1>2. SpentOn(chain, o) => /\ Sound(Ingested(d, SpendConfirmed(Spender(o))))
                           /\ Keeps(d, Ingested(d, SpendConfirmed(Spender(o))))
  BY SpenderIsCommitted, SpendSound
<1> QED
  BY <1>1, <1>2 DEF CheckOrderLiveness, ReconcileSpentOrder

LEMMA BothReconciledSound ==
    ASSUME ChainTypeOK, NEW d \in Databases, Sound(d), NEW b \in Orders, NEW s \in Orders
    PROVE  LET e == CheckOrderLiveness(CheckOrderLiveness(d, b), s)
           IN  Sound(e) /\ Keeps(d, e)
<1> DEFINE first == CheckOrderLiveness(d, b)
<1>1. first \in Databases /\ Sound(first) /\ Keeps(d, first)
  BY ReconcileType, ReconcileSound
<1> HIDE DEF first
<1>2. Sound(CheckOrderLiveness(first, s)) /\ Keeps(first, CheckOrderLiveness(first, s))
  BY <1>1, ReconcileSound
<1>3. Keeps(d, CheckOrderLiveness(first, s))
  BY <1>1, <1>2, KeepsComposes
<1> QED
  BY <1>2, <1>3 DEF first

LEMMA BothRevertedSound ==
    ASSUME NEW d \in Databases, Sound(d), NEW b \in Orders, NEW s \in Orders,
           Indexed(d, b), Indexed(d, s)
    PROVE  LET e == RevertToLive(RevertToLive(d, b), s)
           IN  Sound(e) /\ Keeps(d, e)
<1> DEFINE first == RevertToLive(d, b)
<1>1. first \in Databases /\ Sound(first) /\ Keeps(d, first)
  BY OwnWritesType, OwnWritesSound
<1>2. Indexed(first, s)
  BY <1>1 DEF Keeps
<1> HIDE DEF first
<1>3. Sound(RevertToLive(first, s)) /\ Keeps(first, RevertToLive(first, s))
  BY <1>1, <1>2, OwnWritesSound
<1>4. Keeps(d, RevertToLive(first, s))
  BY <1>1, <1>3, KeepsComposes
<1> QED
  BY <1>3, <1>4 DEF first

LEMMA RetriedSound ==
    ASSUME ChainTypeOK, db \in Databases, Sound(db), NEW o \in Orders, Indexed(db, o),
           NEW doc \in OrderDocs, NEW rejected \in BOOLEAN
    PROVE  Sound(Retried(o, doc, rejected)) /\ Keeps(db, Retried(o, doc, rejected))
<1> DEFINE tx == doc.pendingTx
           extended == [db EXCEPT !.orders[o].reservedUntil = "running"]
<1>1. tx \in Settlements \cup {NoTx} /\ Keeps(db, db)
  BY DEF OrderDocs, Keeps
<1>2. /\ Sound(RevertToLive(db, o)) /\ Keeps(db, RevertToLive(db, o))
      /\ Sound(ReconcileSpentOrder(db, o)) /\ Keeps(db, ReconcileSpentOrder(db, o))
  BY OwnWritesSound, ReconcileSound
<1>3. Sound(extended) /\ Keeps(db, extended)
  <2>1. extended \in Databases /\ extended.trades = db.trades
    BY DEF Databases, OrderDocs
  <2>2. \A x \in Orders : extended.orders[x].status = db.orders[x].status
    BY DEF Databases, OrderDocs
  <2> HIDE DEF extended
  <2>3. \A x \in Orders : Indexed(extended, x) <=> Indexed(db, x)
    BY <2>2 DEF Indexed
  <2> QED
    BY <2>1, <2>2, <2>3, Lesser
<1>4. tx # NoTx /\ Committed(tx) => /\ Sound(Ingested(db, SpendConfirmed(tx)))
                                    /\ Keeps(db, Ingested(db, SpendConfirmed(tx)))
  BY <1>1, TransactionKinds, SpendSound
<1> HIDE DEF extended
<1>5. CASE tx = NoTx
  <2>1. ~Committed(tx) /\ ~Gone(tx)
    BY <1>5, CommittedBlock, TransactionKinds DEF NoTx, Gone
  <2> QED
    BY <1>1, <1>2, <1>5, <2>1 DEF Retried
<1>6. CASE tx # NoTx /\ Committed(tx)
  BY <1>1, <1>2, <1>4, <1>6 DEF Retried, Gone
<1>7. CASE tx # NoTx /\ ~Committed(tx) /\ Gone(tx)
  BY <1>1, <1>2, <1>7 DEF Retried
<1>8. CASE tx # NoTx /\ ~Committed(tx) /\ ~Gone(tx)
  BY <1>1, <1>3, <1>8 DEF Retried, extended
<1> QED
  BY <1>5, <1>6, <1>7, <1>8

---------------------------------------------------------------------------
(* The invariant                                                           *)

LEMMA InvInit == Shallow /\ Init => Inv
<1> SUFFICES ASSUME Shallow, Init PROVE Inv
  OBVIOUS
<1>1. TypeOK
  BY TypeInit
<1>2. ValidChain(chain)
  BY InitialChainIsValid DEF Init, ChainInit
<1>3. HashesAreBuried
  BY DEF Init, ChainInit, Shallow, HashesAreBuried
<1>4. /\ \A o \in Orders : db.orders[o].status = "NOT_INDEXED"
      /\ \A tx \in Settlements : db.trades[tx].status = "NONE"
  BY DEF Init, IngestionInit, NotIndexed, NoTrade
<1>5. Sound(db)
  BY <1>4 DEF Sound, Indexed
<1>6. ShallowReorgsStayOut /\ AtWork
  BY DEF Init, ShallowReorgsStayOut, AtWork, TradeSteps
<1> QED
  BY <1>1, <1>2, <1>3, <1>5, <1>6 DEF Inv

\* What a step of anyone but the node makes of the database.
Learns == chain' = chain /\ Sound(db') /\ Keeps(db, db')

\* Every step leaves either the chain or the database alone, and what it
\* writes there is sound.
LEMMA ProjectionStep ==
    ASSUME Inv, TypeOK', [Next]_vars
    PROVE  Learns \/ (ChainNext /\ db' = db /\ UNCHANGED botVars)
<1>a. ChainTypeOK /\ db \in Databases /\ db' \in Databases /\ Sound(db) /\ AtWork
  BY DEF Inv, TypeOK
<1>b. pc \in TradeSteps => /\ Buy \in Orders /\ Sell \in Orders /\ OurTx \in Settlements
                           /\ Indexed(db, Buy) /\ Indexed(db, Sell)
  BY <1>a DEF Inv, TypeOK, Buy, Sell, OurTx, Settlements, Orders, AtWork
<1>c. chain' = chain /\ db' = db => Learns
  BY <1>a DEF Learns, Keeps
<1>d. pc \in TradeSteps =>
        LET e == CheckOrderLiveness(CheckOrderLiveness(db, Buy), Sell)
        IN  Sound(e) /\ Keeps(db, e)
  BY <1>a, <1>b, BothReconciledSound
<1>1. CASE StartTick
  BY <1>1, <1>c DEF StartTick, chainVars
<1>2. CASE DetectReorg
  BY <1>2, <1>c DEF DetectReorg, chainVars
<1>3. CASE RollBack \/ Rewind
  BY <1>3 DEF RollBack, Rewind, Inv, ShallowReorgsStayOut
<1>4. CASE Scan
  BY <1>4, <1>c DEF Scan, chainVars
<1>5. ASSUME NEW o \in Orders, Index(o) PROVE Learns
  <2>1. Committed(Create(o)) => /\ Sound(Ingested(db, OrderConfirmed(o)))
                                /\ Keeps(db, Ingested(db, OrderConfirmed(o)))
    BY <1>a, IndexSound
  <2>2. chain' = chain /\ (db' = db \/ (Committed(Create(o)) /\ db' = Ingested(db, OrderConfirmed(o))))
    BY <1>5 DEF Index, chainVars
  <2> QED
    BY <1>c, <2>1, <2>2 DEF Learns
<1>6. CASE SaveCheckpoint
  BY <1>6, <1>c DEF SaveCheckpoint, chainVars
<1>7. ASSUME NEW o \in Orders, Sweep(o) PROVE Learns
  BY <1>7, <1>a, ReconcileSound DEF Sweep, chainVars, Learns
<1>8. CASE StartRetry
  BY <1>8, <1>c DEF StartRetry, chainVars
<1>9. ASSUME NEW o \in Orders, Retry(o) PROVE Learns
  <2>1. seen[o] \in OrderDocs /\ Indexed(db, o)
    BY <1>9, <1>a DEF Retry, Inv, TypeOK, AtWork
  <2>2. PICK rejected \in BOOLEAN : db' = Retried(o, seen[o], rejected)
    BY <1>9 DEF Retry
  <2>3. chain' = chain
    BY <1>9 DEF Retry, chainVars
  <2> QED
    BY <1>a, <2>1, <2>2, <2>3, RetriedSound DEF Learns
<1>10. CASE RefreshBook
  BY <1>10, <1>c DEF RefreshBook, chainVars
<1>11. ASSUME NEW b \in Buys, NEW s \in Sells, StartTrade(b, s) PROVE Learns
  <2>1. Indexed(db, b) /\ b \in Orders
    BY <1>11, <1>a DEF StartTrade, AtWork, Orders
  <2>2. Sound(Reserve(db, b)) /\ Keeps(db, Reserve(db, b))
    BY <1>a, <2>1, OwnWritesSound
  <2> QED
    BY <1>11, <1>c, <2>2 DEF StartTrade, chainVars, Learns
<1>12. CASE EndTick
  BY <1>12, <1>c DEF EndTick, chainVars
<1>13. CASE ReserveSell
  <2>1. /\ Sound(Reserve(db, Sell)) /\ Keeps(db, Reserve(db, Sell))
        /\ Sound(RevertToLive(db, Buy)) /\ Keeps(db, RevertToLive(db, Buy))
    BY <1>13, <1>a, <1>b, OwnWritesSound DEF ReserveSell, TradeSteps
  <2> QED
    BY <1>13, <2>1 DEF ReserveSell, chainVars, Learns
<1>14. CASE CheckLegs
  BY <1>14, <1>d DEF CheckLegs, TradeSteps, chainVars, Learns
<1>15. CASE Submit
  BY <1>15, <1>c DEF Submit
<1>16. CASE Release
  <2>1. LET e == RevertToLive(RevertToLive(db, Buy), Sell)
        IN  Sound(e) /\ Keeps(db, e)
    BY <1>16, <1>a, <1>b, BothRevertedSound DEF Release, TradeSteps
  <2> QED
    BY <1>16, <2>1 DEF Release, chainVars, Learns
<1>17. CASE Record
  <2> DEFINE direct == WithOrders(db, [o \in {Buy, Sell} |->
                         [db.orders[o] EXCEPT !.status = "PENDING", !.pendingTx = OurTx]])
  <2>1. Buy \in Orders /\ Sell \in Orders /\ OurTx \in Settlements /\ Indexed(db, Buy) /\ Indexed(db, Sell)
    BY <1>17, <1>b DEF Record, TradeSteps
  <2>2. SettlementSubmitted(OurTx).type # "chain-reorg"
    BY DEF SettlementSubmitted
  <2>3. /\ Sound(Ingested(db, SettlementSubmitted(OurTx)))
        /\ Keeps(db, Ingested(db, SettlementSubmitted(OurTx)))
    BY <1>a, <2>1, <2>2, SettlementSubmittedEvent, IngestedSound
  <2>4. Sound(direct) /\ Keeps(db, direct)
    BY <1>a, <2>1, PendingSound
  <2>5. db' \in {Ingested(db, SettlementSubmitted(OurTx)), direct} /\ chain' = chain
    BY <1>17 DEF Record, chainVars
  <2> HIDE DEF direct
  <2> QED
    BY <2>3, <2>4, <2>5 DEF Learns
<1>18. CASE Recheck
  BY <1>18, <1>d DEF Recheck, TradeSteps, chainVars, Learns
<1>19. CASE Environment
  BY <1>19 DEF Environment
<1>20. ASSUME NEW o \in Orders, Expire(o) PROVE Learns
  <2>1. /\ db'.trades = db.trades /\ chain' = chain
        /\ \A x \in Orders : db'.orders[x].status = db.orders[x].status
    BY <1>20, <1>a DEF Expire, Databases, OrderDocs, chainVars
  <2>2. \A x \in Orders : Indexed(db', x) <=> Indexed(db, x)
    BY <2>1 DEF Indexed
  <2> QED
    BY <1>a, <2>1, <2>2, Lesser DEF Learns
<1>21. CASE Crash
  BY <1>21, <1>c DEF Crash, chainVars
<1>22. CASE Post
  <2>1. \A o \in Orders : Committed(Create(o)) => /\ Sound(Ingested(db, OrderConfirmed(o)))
                                                  /\ Keeps(db, Ingested(db, OrderConfirmed(o)))
    BY <1>a, IndexSound
  <2>2. \A tx \in Transactions : (tx.kind # "create" /\ Committed(tx)) =>
          Sound(Ingested(db, SpendConfirmed(tx))) /\ Keeps(db, Ingested(db, SpendConfirmed(tx)))
    BY <1>a, SpendSound
  <2> QED
    BY <1>22, <2>1, <2>2 DEF Post, chainVars, Learns
<1>23. CASE UNCHANGED vars
  BY <1>23, <1>c DEF vars, chainVars
<1> QED
  BY <1>1, <1>2, <1>3, <1>4, <1>5, <1>6, <1>7, <1>8, <1>9, <1>10, <1>11, <1>12, <1>13,
     <1>14, <1>15, <1>16, <1>17, <1>18, <1>19, <1>20, <1>21, <1>22, <1>23
  DEF Next, BotStep

\* What is settled is so after any step.
LEMMA SettlementGrows ==
    ASSUME Shallow, Inv, TypeOK', [Next]_vars
    PROVE  /\ SettledTxs(chain) \subseteq SettledTxs(chain')
           /\ \A hash \in Hashes : Buried(chain, hash) => Buried(chain', hash)
           /\ ValidChain(chain')
<1>1. ChainTypeOK /\ ChainTypeOK' /\ ValidChain(chain) /\ chain \in Hashes /\ chain' \in Hashes
  BY DEF Inv, TypeOK, ChainTypeOK
<1>2. CASE chain' = chain
  BY <1>1, <1>2
<1>3. CASE ChainNext
  BY <1>1, <1>3, ChainSettles, SettledStays DEF Shallow
<1> QED
  BY <1>2, <1>3, ProjectionStep DEF Learns

\* A step that does not make the bot take up new orders keeps its orders indexed.
LEMMA AtWorkStays ==
    ASSUME AtWork, Keeps(db, db'), pair' = pair, work' \subseteq work, work \subseteq Orders,
           pc \in TradeSteps => Buy \in Orders /\ Sell \in Orders,
           pc' \in TradeSteps => pc \in TradeSteps,
           pc' \in {"retry", "match"} \cup TradeSteps => pc \in {"retry", "match"} \cup TradeSteps
    PROVE  AtWork'
<1>1. Buy' = Buy /\ Sell' = Sell
  BY DEF Buy, Sell
<1>2. \A o \in Orders : Indexed(db, o) => Indexed(db, o)'
  BY DEF Keeps, Indexed
<1> QED
  BY <1>1, <1>2 DEF AtWork

LEMMA AtWorkStep ==
    ASSUME Inv, TypeOK', [Next]_vars, Keeps(db, db')
    PROVE  AtWork'
<1>a. AtWork /\ work \subseteq Orders
  BY DEF Inv, TypeOK
<1>b. pc \in TradeSteps => Buy \in Orders /\ Sell \in Orders
  BY DEF Inv, TypeOK, Buy, Sell, Orders
<1>c. \A o \in Orders : Indexed(db, o) => Indexed(db, o)'
  BY DEF Keeps, Indexed
\* The steps outside the loops over indexed orders.
<1>1. CASE pc' \notin {"retry", "match"} \cup TradeSteps
  BY <1>1 DEF AtWork
<1>2. CASE StartTick \/ DetectReorg \/ RollBack \/ Rewind \/ Scan \/ SaveCheckpoint \/ EndTick \/ Crash
  BY <1>2, <1>1 DEF StartTick, DetectReorg, RollBack, Rewind, Scan, SaveCheckpoint, EndTick, Crash,
     StartSweep, AbandonTick, Goto, TradeSteps
<1>3. ASSUME NEW o \in Orders, Index(o) PROVE AtWork'
  BY <1>3, <1>1 DEF Index, TradeSteps
<1>4. ASSUME NEW o \in Orders, Sweep(o) PROVE AtWork'
  BY <1>4, <1>1 DEF Sweep, AbandonTick, Goto, TradeSteps
\* The loops begin with orders that are indexed.
<1>5. CASE StartRetry
  <2>1. pc' = "retry" /\ \A o \in work' : o \in Orders /\ Indexed(db, o)
    BY <1>5 DEF StartRetry, Indexed
  <2> QED
    BY <1>c, <2>1 DEF AtWork, TradeSteps
<1>6. CASE RefreshBook
  <2>1. pc' = "match" /\ \A o \in work' : o \in Orders /\ Indexed(db, o)
    BY <1>6 DEF RefreshBook, Goto, Indexed
  <2> QED
    BY <1>c, <2>1 DEF AtWork, TradeSteps
<1>7. ASSUME NEW b \in Buys, NEW s \in Sells, StartTrade(b, s) PROVE AtWork'
  <2>1. b \in work /\ s \in work /\ work' \subseteq work /\ pc = "match" /\ b \in Orders /\ s \in Orders
    BY <1>7 DEF StartTrade, Orders
  <2>2. (pc' = "reserveSell" /\ pair' = <<b, s>>) \/ (pc' = "match" /\ pair' = pair)
    BY <1>7, <2>1 DEF StartTrade
  <2>3. \A o \in work : Indexed(db, o)'
    BY <1>a, <1>c, <2>1 DEF AtWork
  <2> QED
    BY <2>1, <2>2, <2>3 DEF AtWork, TradeSteps, Buy, Sell
\* The others leave the work as it is, do some of it or end a trade.
<1>8. ASSUME NEW o \in Orders, Retry(o) PROVE AtWork'
  <2>1. CASE pc' = "idle"
    BY <1>1, <2>1 DEF TradeSteps
  <2>2. CASE pc' # "idle"
    <3>1. work' \subseteq work /\ pc = "retry" /\ pc' = pc
      BY <1>8, <2>2 DEF Retry, AbandonTick, Goto
    <3> QED
      BY <1>a, <1>c, <3>1 DEF AtWork, TradeSteps
  <2> QED
    BY <2>1, <2>2
<1>9. CASE pc \in TradeSteps /\ work' = work /\ (pair' = pair \/ pc' = "match")
  <2>1. \A o \in work' : Indexed(db, o)'
    BY <1>9, <1>a, <1>c DEF AtWork
  <2>2. pair' = pair => Indexed(db', Buy) /\ Indexed(db', Sell) /\ Buy' = Buy /\ Sell' = Sell
    BY <1>9, <1>a, <1>b, <1>c DEF AtWork, Buy, Sell, Indexed
  <2>3. pc' \in TradeSteps => pair' = pair
    BY <1>9 DEF TradeSteps
  <2> QED
    BY <2>1, <2>2, <2>3 DEF AtWork, Indexed
<1>10. CASE ReserveSell \/ CheckLegs \/ Submit \/ Release \/ Record \/ Recheck
  <2>1. pc \in TradeSteps /\ work' = work /\ (pair' = pair \/ pc' = "match")
    BY <1>10 DEF ReserveSell, CheckLegs, Submit, Release, Record, Recheck, TradeSteps
  <2> QED
    BY <1>9, <2>1
<1>11. CASE pc' = pc /\ work' = work /\ pair' = pair
  BY <1>11, <1>a, <1>b, AtWorkStays
<1>12. CASE Environment \/ Post \/ UNCHANGED vars
  BY <1>11, <1>12 DEF Environment, Post, botVars, vars
<1>13. ASSUME NEW o \in Orders, Expire(o) PROVE AtWork'
  BY <1>11, <1>13 DEF Expire
<1> QED
  BY <1>2, <1>3, <1>4, <1>5, <1>6, <1>7, <1>8, <1>10, <1>12, <1>13 DEF Next, BotStep

\* A checkpoint that is buried is canonical, so no mismatch is found.
LEMMA BuriedIsCanonical ==
    ASSUME ChainTypeOK, NEW hash \in Hashes, Buried(chain, hash)
    PROVE  Canonical(hash)
<1>1. Len(chain) \in Nat /\ Len(hash) \in Nat
  BY DEF ChainTypeOK, Hashes
<1>2. CASE hash = NoBlock
  <2>1. Len(hash) = 0 /\ SubSeq(chain, 1, 0) = <<>>
    BY <1>2 DEF NoBlock, ChainTypeOK, Hashes
  <2> QED
    BY <1>1, <1>2, <2>1 DEF Canonical, Hash, Tip, NoBlock
<1>3. CASE hash # NoBlock
  BY <1>1, <1>3, DepthAssumption DEF Buried, Canonical, Hash, Tip
<1> QED
  BY <1>2, <1>3

LEMMA HashesStep ==
    ASSUME Shallow, Inv, TypeOK', [Next]_vars
    PROVE  HashesAreBuried' /\ ShallowReorgsStayOut'
<1>a. /\ ChainTypeOK /\ HashesAreBuried /\ ShallowReorgsStayOut /\ checkpoints \subseteq Hashes
      /\ pin.block \in Hashes
  BY DEF Inv, TypeOK
<1>b. \A hash \in Hashes : Buried(chain, hash) => Buried(chain', hash)
  BY SettlementGrows
<1>c. ASSUME checkpoints' \subseteq checkpoints,
             pc' = "index" => pc = "index" /\ pin' = pin,
             pc' \notin {"rollback", "rewind"}
      PROVE  HashesAreBuried' /\ ShallowReorgsStayOut'
  BY <1>a, <1>b, <1>c DEF HashesAreBuried, ShallowReorgsStayOut
<1>1. CASE StartTick \/ EndTick \/ Crash
  BY <1>1, <1>c DEF StartTick, EndTick, Crash, AbandonTick, Goto
<1>2. CASE DetectReorg
  <2>1. ASSUME NEW cp \in Window PROVE Len(cp) \in Common /\ Len(cp) \in Nat
    <3>1. cp \in checkpoints
      BY DEF Window
    <3>2. cp \in Hashes /\ Canonical(cp)
      BY <1>a, <3>1, BuriedIsCanonical DEF HashesAreBuried
    <3> QED
      BY <3>2 DEF Common, Hashes
  <2>2. {cp \in Window : \A height \in Common : height < Len(cp)} = {}
    BY <2>1
  <2>3. pc' = "scan" /\ checkpoints' = checkpoints
    BY <1>2, <2>2 DEF DetectReorg
  <2> QED
    BY <1>c, <2>3
<1>3. CASE RollBack \/ Rewind
  BY <1>3, <1>a DEF RollBack, Rewind, ShallowReorgsStayOut
<1>4. CASE Scan
  <2>1. CASE SafeTip < 0 \/ ResolveScanCursor > SafeTip
    BY <1>4, <1>c, <2>1 DEF Scan, StartSweep, Goto
  <2>2. CASE ~(SafeTip < 0 \/ ResolveScanCursor > SafeTip)
    <3>1. /\ pin' = [block |-> Hash(SafeTip), ancestor |-> 0] /\ pc' = "index"
          /\ checkpoints' = checkpoints /\ chain' = chain
      BY <1>4, <2>2 DEF Scan, chainVars
    <3>2. SafeTip \in 0..Len(chain) /\ SafeTip = Len(chain) - confirmationDepth
      BY <2>2, <1>a, DepthAssumption DEF SafeTip, Tip, ChainTypeOK, Hashes
    <3>3. Hash(SafeTip) = SubSeq(chain, 1, SafeTip) /\ Len(Hash(SafeTip)) = SafeTip
      BY <1>a, <3>2 DEF Hash, ChainTypeOK, Hashes
    <3>4. Buried(chain, Hash(SafeTip))
      BY <3>2, <3>3, DepthAssumption DEF Buried
    <3> QED
      BY <1>a, <3>1, <3>4 DEF HashesAreBuried, ShallowReorgsStayOut
  <2> QED
    BY <2>1, <2>2
<1>5. CASE SaveCheckpoint
  <2>1. \A cp \in checkpoints' : cp \in checkpoints \/ cp = pin.block
    BY <1>5 DEF SaveCheckpoint
  <2>2. chain' = chain /\ pc = "index" /\ pc' = "sweep"
    BY <1>5 DEF SaveCheckpoint, StartSweep, Goto, chainVars
  <2> QED
    BY <1>a, <2>1, <2>2 DEF HashesAreBuried, ShallowReorgsStayOut
<1>6. ASSUME NEW o \in Orders, Index(o) PROVE HashesAreBuried' /\ ShallowReorgsStayOut'
  BY <1>6, <1>c DEF Index
<1>7. ASSUME NEW o \in Orders, Sweep(o) \/ Retry(o) PROVE HashesAreBuried' /\ ShallowReorgsStayOut'
  <2>1. checkpoints' = checkpoints /\ pc' \in {"sweep", "retry", "idle"}
    BY <1>7 DEF Sweep, Retry, AbandonTick, Goto
  <2> QED
    BY <1>c, <2>1
<1>8. CASE StartRetry \/ RefreshBook
  BY <1>8, <1>c DEF StartRetry, RefreshBook, Goto
<1>9. ASSUME NEW b \in Buys, NEW s \in Sells, StartTrade(b, s)
      PROVE  HashesAreBuried' /\ ShallowReorgsStayOut'
  <2>1. checkpoints' = checkpoints /\ pc' \in {"match", "reserveSell"}
    BY <1>9 DEF StartTrade
  <2> QED
    BY <1>c, <2>1
<1>10. CASE ReserveSell \/ CheckLegs \/ Submit \/ Release \/ Record \/ Recheck
  <2>1. checkpoints' = checkpoints /\ pc' \in TradeSteps \cup {"match"}
    BY <1>10 DEF ReserveSell, CheckLegs, Submit, Release, Record, Recheck, TradeSteps
  <2> QED
    BY <1>c, <2>1 DEF TradeSteps
<1>11. CASE checkpoints' = checkpoints /\ pc' = pc /\ pin' = pin
  BY <1>11, <1>a, <1>c DEF ShallowReorgsStayOut
<1>12. CASE Environment \/ Post \/ UNCHANGED vars
  BY <1>11, <1>12 DEF Environment, Post, botVars, vars
<1>13. ASSUME NEW o \in Orders, Expire(o) PROVE HashesAreBuried' /\ ShallowReorgsStayOut'
  BY <1>11, <1>13 DEF Expire
<1> QED
  BY <1>1, <1>2, <1>3, <1>4, <1>5, <1>6, <1>7, <1>8, <1>9, <1>10, <1>12, <1>13 DEF Next, BotStep

LEMMA InvStep ==
    ASSUME Shallow, Inv, [Next]_vars
    PROVE  Inv'
<1>1. TypeOK'
  BY TypeStep DEF Inv
<1>2. Learns \/ (ChainNext /\ db' = db /\ UNCHANGED botVars)
  BY <1>1, ProjectionStep
<1>3. /\ SettledTxs(chain) \subseteq SettledTxs(chain') /\ ValidChain(chain)'
  BY <1>1, SettlementGrows
<1>4. HashesAreBuried' /\ ShallowReorgsStayOut'
  BY <1>1, HashesStep
<1>5. Sound(db') /\ Keeps(db, db')
  BY <1>2 DEF Inv, Learns, Keeps
<1>6. \A tx : SettledTx(tx) => SettledTx(tx)'
  BY <1>3 DEF SettledTx, SettledTxs
<1>7. Sound(db)'
  BY <1>5, <1>6 DEF Sound, Indexed
<1>8. AtWork'
  BY <1>1, <1>5, AtWorkStep
<1> QED
  BY <1>1, <1>3, <1>4, <1>7, <1>8 DEF Inv

---------------------------------------------------------------------------
(* The projection under shallow reorganisations                            *)

\* A settled transaction stays committed in the block it is in.
LEMMA SettledKeepsItsBlock ==
    ASSUME MaxReorgDepth < confirmationDepth, ChainTypeOK, ChainTypeOK', ValidChain(chain),
           ChainNext, NEW tx, SettledTx(tx)
    PROVE  Committed(tx)' /\ BlockOf(tx)' = BlockOf(tx)
<1>1. PICK h \in 1..(Len(chain) - confirmationDepth + 1) : tx \in chain[h].txs
  BY SettledByHeight DEF SettledTx, ChainTypeOK
<1>2. /\ ValidChain(chain') /\ Len(chain') >= Len(chain)
      /\ \A g \in 1..(Len(chain) - confirmationDepth + 1) : chain'[g] = chain[g]
  BY ChainSettles
<1>3. /\ Tip \in Nat /\ Tip' \in Nat /\ Tip' >= Tip /\ h \in 1..Tip /\ h \in 1..Tip'
      /\ DOMAIN chain = 1..Tip /\ DOMAIN chain' = 1..Tip'
      /\ tx \in chain[h].txs /\ tx \in chain'[h].txs
  BY <1>1, <1>2, DepthAssumption DEF Tip, ChainTypeOK, Hashes
<1>4. Committed(tx) /\ Committed(tx)'
  BY <1>3 DEF Committed, TxsOf
<1>5. HeightOf(tx) = h
  BY <1>3, <1>4, CommittedBlock DEF ValidChain
<1>6. HeightOf(tx)' = h
  <2>1. HeightOf(tx)' = CHOOSE g \in 1..Tip' : tx \in chain'[g].txs
    BY DEF HeightOf
  <2>2. HeightOf(tx)' \in 1..Tip' /\ tx \in chain'[HeightOf(tx)'].txs
    BY <1>3, <2>1
  <2> QED
    BY <1>2, <1>3, <2>2 DEF ValidChain
<1>7. SubSeq(chain', 1, h) = SubSeq(chain, 1, h)
  <2>1. \A g \in 1..h : chain[g] \in Blocks /\ chain'[g] \in Blocks /\ chain'[g] = chain[g]
    <3>1. 1..h \subseteq 1..(Len(chain) - confirmationDepth + 1)
      BY <1>1, DepthAssumption DEF ChainTypeOK, Hashes
    <3>2. 1..h \subseteq DOMAIN chain /\ 1..h \subseteq DOMAIN chain'
      BY <1>3
    <3>3. /\ \A g \in DOMAIN chain : chain[g] \in Blocks
          /\ \A g \in DOMAIN chain' : chain'[g] \in Blocks
      BY DEF ChainTypeOK, Hashes
    <3> QED
      BY <1>2, <3>1, <3>2, <3>3
  <2>2. /\ SubSeq(chain, 1, h) \in Seq(Blocks) /\ Len(SubSeq(chain, 1, h)) = h
        /\ \A g \in 1..h : SubSeq(chain, 1, h)[g] = chain[g]
    BY <1>3, <2>1, SubSeqProperties
  <2>3. /\ SubSeq(chain', 1, h) \in Seq(Blocks) /\ Len(SubSeq(chain', 1, h)) = h
        /\ \A g \in 1..h : SubSeq(chain', 1, h)[g] = chain'[g]
    BY <1>3, <2>1, SubSeqProperties
  <2> QED
    BY <2>1, <2>2, <2>3, SeqEqual
<1> QED
  BY <1>4, <1>5, <1>6, <1>7 DEF BlockOf, Hash

\* What the projection says is settled, so no shallow reorganisation unsays it.
LEMMA ShallowReorgIsHarmless ==
    ASSUME Shallow, Inv, TypeOK', TrueOfChain(db), Environment
    PROVE  TrueOfChain(db)'
<1>1. db' = db /\ ChainNext /\ Sound(db) /\ db \in Databases
  BY DEF Environment, Inv, TypeOK
<1>2. \A tx : SettledTx(tx) => Committed(tx)' /\ BlockOf(tx)' = BlockOf(tx)
  BY <1>1, SettledKeepsItsBlock DEF Shallow, Inv, TypeOK
<1>3. \A tx \in Settlements : db.trades[tx].status = "CONFIRMED" => SettledTx(tx)
  BY <1>1 DEF Sound
<1>4. TradesAreTrue(db)'
  BY <1>1, <1>2, <1>3 DEF TrueOfChain, TradesAreTrue
<1>5. FillsAreTrue(db)'
  <2> DEFINE tx(o) == db.orders[o].pendingTx
  <2>1. ASSUME NEW o \in Orders, db.orders[o].status = "FILLED"
        PROVE  /\ Committed(tx(o))' /\ Spends(tx(o), o)
               /\ db.orders[o].spent = BlockOf(tx(o))'
               /\ db.trades[tx(o)].status = "CONFIRMED"
    <3>1. /\ Spends(tx(o), o) /\ db.orders[o].spent = BlockOf(tx(o))
          /\ db.trades[tx(o)].status = "CONFIRMED"
      BY <2>1 DEF TrueOfChain, FillsAreTrue
    <3>2. tx(o) \in Settlements
      BY <1>1, <3>1 DEF Databases, OrderDocs, Spends, NoTx
    <3>3. SettledTx(tx(o))
      BY <1>3, <3>1, <3>2
    <3>4. Committed(db.orders[o].pendingTx)' /\ BlockOf(db.orders[o].pendingTx)' = BlockOf(db.orders[o].pendingTx)
      BY <1>1, <1>2, <3>3
    <3> QED
      BY <1>1, <3>1, <3>4
  <2> QED
    BY <1>1, <2>1 DEF FillsAreTrue
<1>6. CancellationsAreTrue(db)'
  BY <1>1, <1>2 DEF Sound, TrueOfChain, CancellationsAreTrue
<1> QED
  BY <1>4, <1>5, <1>6 DEF TrueOfChain

---------------------------------------------------------------------------
(* The theorems                                                            *)

\* Reorganisations shallower than the confirmation depth never make a tick
\* roll anything back: every hash the bot compares is buried deeper than they
\* reach (scanForPendingOrders stops at the safe tip).
THEOREM NothingToRollBack ==
    ASSUME Shallow
    PROVE  Spec => []ShallowReorgsStayOut
<1>1. Init => Inv
  BY InvInit
<1>2. Inv /\ [Next]_vars => Inv'
  BY InvStep
<1>3. Inv => ShallowReorgsStayOut
  BY DEF Inv
<1> QED
  BY <1>1, <1>2, <1>3, PTL DEF Spec

\* Under such reorganisations the projection tells the truth at every moment,
\* with no tick repairing it: a trade, a fill or a cancellation is recorded
\* (requireConfirmedTransaction) only when its block cannot be detached any more.
THEOREM BuriedProjectionIsTrue ==
    ASSUME Shallow
    PROVE  Spec => []ProjectionIsTrue
<1>1. Init => Inv /\ TrueOfChain(db)
  BY InvInit, TrueInit
<1>2. (Inv /\ TrueOfChain(db)) /\ [Next]_vars => (Inv /\ TrueOfChain(db))'
  <2> SUFFICES ASSUME Inv, TrueOfChain(db), [Next]_vars PROVE Inv' /\ TrueOfChain(db)'
    OBVIOUS
  <2>1. Inv' /\ TypeOK /\ TypeOK'
    BY InvStep DEF Inv
  <2> QED
    BY <2>1, TrueStep, ShallowReorgIsHarmless
<1>3. Inv /\ TrueOfChain(db) => ProjectionIsTrue
  BY DEF TrueOfChain, ProjectionIsTrue
<1> QED
  BY <1>1, <1>2, <1>3, PTL DEF Spec

LEMMA LedgerInit == Shallow /\ Init => Ledger!Init
<1> SUFFICES ASSUME Shallow, Init PROVE Ledger!Init
  OBVIOUS
<1>1. chain \in Hashes /\ ValidChain(chain)
  BY InitialChainIsValid DEF Init, ChainInit
<1>2. FateOn(chain) \in Ledger!Fates
  BY <1>1, FatesAreFates
<1>3. /\ \A o \in Orders : db.orders[o].status = "NOT_INDEXED"
      /\ \A tx \in Settlements : db.trades[tx].status = "NONE"
  BY DEF Init, IngestionInit, NotIndexed, NoTrade
<1> QED
  BY <1>2, <1>3 DEF Ledger!Init, Indexed

LEMMA LedgerStep ==
    ASSUME Shallow, Inv, [Next]_vars
    PROVE  [Ledger!Next]_(Ledger!ledgerVars)
<1>1. TypeOK' /\ Inv' /\ chain \in Hashes /\ chain' \in Hashes /\ ValidChain(chain) /\ ValidChain(chain')
  BY TypeStep, InvStep DEF Inv, TypeOK, ChainTypeOK
<1>2. CASE Learns
  BY <1>1, <1>2, LearnStep DEF Learns, Ledger!Next
<1>3. CASE ChainNext /\ db' = db
  BY <1>1, <1>3, SettlementGrows, FulfilStep DEF Ledger!Next
<1> QED
  BY <1>1, <1>2, <1>3, ProjectionStep

\* The matcher implements the ledger: what it lists exists, a trade it has
\* recorded stays recorded and is the fate of both its orders, and an order it
\* shows as ended has met its fate; through reorganisations, crashes, lost
\* answers, duplicated events, other matchers and other producers.
THEOREM MatcherImplementsLedger ==
    ASSUME Shallow
    PROVE  Spec => ImplementsLedger
<1>1. Init => Inv /\ Ledger!Init
  BY InvInit, LedgerInit
<1>2. Inv /\ [Next]_vars => Inv'
  BY InvStep
<1>3. Inv /\ [Next]_vars => [Ledger!Next]_(Ledger!ledgerVars)
  BY LedgerStep
<1> QED
  BY <1>1, <1>2, <1>3, PTL DEF Spec, ImplementsLedger, Ledger!Spec

\* No order is in two recorded trades: of the settlements that compete for an
\* order, confirmTrade and confirmExternalSettlement record the one that won.
THEOREM OrdersTradeOnce ==
    ASSUME Shallow
    PROVE  Spec => []Ledger!TradedOnce
<1>1. Init => Inv
  BY InvInit
<1>2. Inv /\ [Next]_vars => Inv'
  BY InvStep
<1>3. Inv => Ledger!TradedOnce
  <2> SUFFICES ASSUME Inv, NEW tx \in Settlements, NEW other \in Settlements,
                      db.trades[tx].status = "CONFIRMED", db.trades[other].status = "CONFIRMED",
                      NEW o \in tx.of \cap other.of
               PROVE  tx = other
    BY DEF Ledger!TradedOnce
  <2>1. /\ tx \in SettledTxs(chain) /\ Spends(tx, o) /\ other \in SettledTxs(chain) /\ Spends(other, o)
        /\ o \in Orders /\ chain \in Hashes /\ ValidChain(chain)
    BY TransactionKinds DEF Inv, Sound, SettledTx, Spends, TypeOK, ChainTypeOK
  <2> QED
    BY <2>1, FateIsSpender
<1> QED
  BY <1>1, <1>2, <1>3, PTL DEF Spec
===========================================================================
