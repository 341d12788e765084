----------------------------- MODULE CkbChain -----------------------------
(***************************************************************************)
(* The CKB node and its indexer as the backend sees them: one canonical    *)
(* chain that grows and reorganises, and a transaction pool.  The node is  *)
(* external; every operator below is a question the backend puts to it     *)
(* (getTip, getHeaderByNumberNoCache, getTransaction, getCellLive,         *)
(* findCells, sendTransaction) or an event outside the backend's control.  *)
(*                                                                         *)
(* An order is its cell.  A block's hash commits to its ancestors, so the  *)
(* hash of block h is the chain up to h.  Height 0, the genesis block,     *)
(* holds no orders and its hash is <<>>.                                   *)
(***************************************************************************)
EXTENDS Integers, FiniteSets, Sequences

CONSTANTS
    Buys, Sells,     \* order cells by side; all have the same terms
    Cancellable,     \* orders whose maker may cancel
    Takers,          \* whether other matchers settle pairs too
    Miners,          \* tell apart two blocks with the same contents
    InitialChain, InitialPool,
    MaxHeight,       \* bound: blocks on the canonical chain
    MaxReorgs,       \* bound: reorganisations in a behaviour
    MaxReorgDepth    \* bound: blocks one reorganisation detaches

ASSUME ChainConstants ==
    /\ Buys \cap Sells = {} /\ Miners # {}
    /\ Takers \in BOOLEAN
    /\ MaxHeight \in Nat /\ MaxReorgs \in Nat /\ MaxReorgDepth \in Nat

VARIABLES
    chain,    \* the canonical chain, genesis left out
    pool,     \* transactions the node knows but has not committed
    reorgs    \* how many reorganisations have happened

chainVars == <<chain, pool, reorgs>>

Orders == Buys \cup Sells

ASSUME CancellableAreOrders == Cancellable \subseteq Orders

(* A transaction is what it does to orders.  The bot's settlement of a pair *)
(* is built from the two cells alone, so building it again gives the same   *)
(* transaction; a taker's settlement of the same pair is another one.       *)
Create(o)    == [kind |-> "create", of |-> {o}]
Cancel(o)    == [kind |-> "cancel", of |-> {o}]
Settle(b, s) == [kind |-> "settle", of |-> {b, s}]
Take(b, s)   == [kind |-> "take",   of |-> {b, s}]
NoTx         == [kind |-> "none",   of |-> {}]

Settlements == {Settle(b, s) : b \in Buys, s \in Sells}
               \cup {Take(b, s) : b \in Buys, s \in Sells}
Transactions == {Create(o) : o \in Orders} \cup {Cancel(o) : o \in Orders} \cup Settlements

Blocks == [miner: Miners, txs: SUBSET Transactions]
Hashes == Seq(Blocks)

Spends(tx, o) == tx.kind \in {"cancel", "settle", "take"} /\ o \in tx.of
Conflict(tx, other) == tx # other /\ \E o \in Orders : Spends(tx, o) /\ Spends(other, o)

---------------------------------------------------------------------------
(* Questions to the node                                                   *)

Tip == Len(chain)
Hash(h) == SubSeq(chain, 1, h)
Canonical(hash) == Len(hash) <= Tip /\ Hash(Len(hash)) = hash

TxsOf(c) == UNION {c[h].txs : h \in DOMAIN c}
Committed(tx) == tx \in TxsOf(chain)
HeightOf(tx) == CHOOSE h \in 1..Tip : tx \in chain[h].txs
BlockOf(tx) == Hash(HeightOf(tx))

SpentOn(c, o) == \E tx \in TxsOf(c) : Spends(tx, o)
LiveCell(o) == Committed(Create(o)) /\ ~SpentOn(chain, o)
Spender(o) == CHOOSE tx \in TxsOf(chain) : Spends(tx, o)

ConflictsInPool(tx) == \E other \in pool : Conflict(tx, other)

---------------------------------------------------------------------------
(* What the node and the users do                                          *)

\* Every cell is created before it is spent and spent at most once.
ValidChain(c) ==
    /\ \A h \in DOMAIN c, tx \in Transactions :
         (tx \in c[h].txs /\ tx.kind # "create") =>
           \A o \in tx.of : \E g \in 1..h : Create(o) \in c[g].txs
    /\ \A g, h \in DOMAIN c : g # h => c[g].txs \cap c[h].txs = {}
    /\ \A tx, other \in TxsOf(c) : ~Conflict(tx, other)

\* What is left of the pool when the chain becomes c.
PoolAfter(txs, c) == {tx \in txs \ TxsOf(c) : \A other \in TxsOf(c) : ~Conflict(tx, other)}

ChainTypeOK == chain \in Hashes /\ pool \subseteq Transactions /\ reorgs \in Nat

ASSUME InitialChainIsValid ==
    /\ InitialChain \in Hashes /\ ValidChain(InitialChain)
    /\ InitialPool \subseteq Transactions

ChainInit ==
    /\ chain = InitialChain
    /\ pool = InitialPool
    /\ reorgs = 0

\* A miner only tells siblings apart, so all but a new branch has the usual one.
UsualMiner == CHOOSE miner \in Miners : TRUE

MineBlock ==
    /\ Tip < MaxHeight
    /\ \E txs \in SUBSET pool :
         LET longer == Append(chain, [miner |-> UsualMiner, txs |-> txs])
         IN  /\ ValidChain(longer)
             /\ chain' = longer
             /\ pool' = PoolAfter(pool, longer)
    /\ UNCHANGED reorgs

\* The node switches to a longer branch that leaves the old one after block
\* keep.  Detached and pooled transactions land anywhere on the new branch or
\* stay out of it.
Reorg ==
    /\ reorgs < MaxReorgs
    /\ Tip < MaxHeight
    /\ \E keep \in 0..(Tip - 1), miner \in Miners :
         Tip - keep <= MaxReorgDepth /\
         LET detached == UNION {chain[h].txs : h \in (keep + 1)..Tip}
         IN  \E place \in [detached \cup pool -> {0} \cup ((keep + 1)..(Tip + 1))] :
               LET branch == [h \in 1..(Tip + 1) |->
                                IF h <= keep THEN chain[h]
                                ELSE [miner |-> miner,
                                      txs |-> {tx \in detached \cup pool : place[tx] = h}]]
               IN  /\ branch[keep + 1] # chain[keep + 1]
                   /\ ValidChain(branch)
                   /\ chain' = branch
                   /\ pool' = PoolAfter(detached \cup pool, branch)
    /\ reorgs' = reorgs + 1

\* The node drops a pooled transaction (expiry, eviction, a restart).
Evict ==
    /\ \E tx \in pool : tx.kind # "create" /\ pool' = pool \ {tx}
    /\ UNCHANGED <<chain, reorgs>>

\* A maker or another matcher submits a transaction of its own.
SubmitOther ==
    /\ \E tx \in {Cancel(o) : o \in Cancellable}
                 \cup {Take(b, s) : b \in Buys, s \in IF Takers THEN Sells ELSE {}} :
         /\ tx \notin pool /\ ~ConflictsInPool(tx)
         /\ \A o \in tx.of : LiveCell(o)
         /\ pool' = pool \cup {tx}
    /\ UNCHANGED <<chain, reorgs>>

ChainNext == MineBlock \/ Reorg \/ Evict \/ SubmitOther
===========================================================================
