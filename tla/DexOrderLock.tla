--------------------------- MODULE DexOrderLock ---------------------------
(***************************************************************************)
(* The on-chain order lock (contracts/dex-order-lock/src/main.rs) and the  *)
(* ledger it guards.  An order is a live cell under the lock; its args     *)
(* carry the terms.  A transaction spends some orders, is signed by the    *)
(* owners of its other inputs, and creates plain and token cells.  It is   *)
(* included when it is balanced (consensus) and program_entry returns 0    *)
(* for the args of every order it spends.                                  *)
(*                                                                         *)
(* Abstractions: lock hashes are the users themselves, the error codes     *)
(* collapse into rejection, cell data is its leading 16-byte amount (Short *)
(* when there are fewer bytes), a signer's other cells are one wallet that *)
(* a transaction it signs consumes whole, and new orders are created by    *)
(* transactions of their own.                                              *)
(***************************************************************************)
EXTENDS Integers, FiniteSets, Sequences, FiniteSetsExt

CONSTANTS
    Users,          \* lock hashes of makers and takers
    Tokens,         \* xUDT type hashes
    NoType,         \* a cell without a type script
    Malformed,      \* args that parse_order_args refuses
    Ids,            \* out points of order cells
    MAX_SETTLEMENT_FEE,
    MaxU64, MaxU128, \* the widths of capacities and of token amounts
    NewOrders,      \* order cells a user may create
    OutputLists,    \* output lists a transaction may carry
    InitialWallet   \* what each user starts with

ASSUME LockConstants ==
    /\ NoType \notin Tokens
    /\ MAX_SETTLEMENT_FEE \in Nat /\ MaxU64 \in Nat /\ MaxU128 \in Nat
    /\ IsFiniteSet(Ids)

VARIABLES
    orders,   \* out point -> the live order cell, or NoOrder
    wallets,  \* user -> CKB and tokens in cells under the user's own lock
    signed    \* history: who signed the transaction of the last step

vars == <<orders, wallets, signed>>

BUY == "buy"
SELL == "sell"
Short == -1

OrderArgs == [side: {BUY, SELL}, maker: Users, xudt: Tokens,
              amount: 0..MaxU128, price: 0..MaxU64]

\* Data and capacity have the widths of the chain.
OrderCells == [args: OrderArgs \cup {Malformed}, type: Tokens \cup {NoType},
               data: {Short} \cup 0..MaxU128, capacity: 0..MaxU64]
OutputCells == [lock: Users, type: Tokens \cup {NoType},
                data: {Short} \cup 0..MaxU128, capacity: 0..MaxU64]
Wallets == [ckb: Nat, tok: [Tokens -> Nat]]

ASSUME CellConstants ==
    /\ IsFiniteSet(Users)
    /\ NewOrders \subseteq OrderCells /\ OutputLists \subseteq Seq(OutputCells)
    /\ InitialWallet \in [Users -> Wallets]

\* parse_order_args: the length, version and side checks are one outcome.
Parses(args) == args # Malformed

NoOrder == [args |-> Malformed, type |-> NoType, data |-> Short, capacity |-> -1]
Live(id) == orders[id] # NoOrder

---------------------------------------------------------------------------
(* What the script reads from a transaction                                *)

OutputsOf(tx, user) == {i \in DOMAIN tx.outputs : tx.outputs[i].lock = user}
Typed(tx, is, type) == {i \in is : tx.outputs[i].type = type}

Capacity(tx, is) == MapThenSumSet(LAMBDA i: tx.outputs[i].capacity, is)
Amount(data) == IF data = Short THEN 0 ELSE data
TokenSum(tx, is) == MapThenSumSet(LAMBDA i: Amount(tx.outputs[i].data), is)

\* checked_add over non-negative terms fails exactly when the total is too wide.
Fits(n, max) == n <= max

ValidSellOrder(tx, cell) ==
    LET order == cell.args
        paid  == Capacity(tx, Typed(tx, OutputsOf(tx, order.maker), NoType))
    IN  /\ cell.type = order.xudt
        /\ cell.data # Short /\ cell.data = order.amount
        /\ Fits(cell.capacity + order.price, MaxU64)
        /\ Fits(paid, MaxU64)
        /\ paid >= cell.capacity + order.price

\* Mutant: what the settlement keeps of the buyer's capacity is not bounded.
ValidBuyOrderUncapped(tx, cell) ==
    LET received == Typed(tx, OutputsOf(tx, cell.args.maker), cell.args.xudt)
    IN  /\ cell.type = NoType
        /\ \A i \in received : tx.outputs[i].data # Short
        /\ TokenSum(tx, received) = cell.args.amount
        /\ cell.capacity >= cell.args.price + Capacity(tx, received)

ValidBuyOrder(tx, cell) ==
    LET order    == cell.args
        received == Typed(tx, OutputsOf(tx, order.maker), order.xudt)
        required == order.price + Capacity(tx, received)
    IN  /\ cell.type = NoType
        /\ \A i \in received : tx.outputs[i].data # Short
        /\ Fits(TokenSum(tx, received), MaxU128)
        /\ Fits(Capacity(tx, received), MaxU64)
        /\ TokenSum(tx, received) = order.amount
        /\ Fits(required, MaxU64)
        /\ cell.capacity >= required
        /\ cell.capacity - required <= MAX_SETTLEMENT_FEE

\* Mutant: a fee may not come out of the refund, nor may it be exact.
ValidCancellationStrict(tx, cell) ==
    \E i \in OutputsOf(tx, cell.args.maker) :
        /\ tx.outputs[i].type = cell.type
        /\ tx.outputs[i].data = cell.data
        /\ tx.outputs[i].capacity > cell.capacity

ValidCancellation(tx, cell) ==
    \E i \in OutputsOf(tx, cell.args.maker) :
        /\ tx.outputs[i].type = cell.type
        /\ tx.outputs[i].data = cell.data
        /\ tx.outputs[i].capacity >= cell.capacity

MatchingTerms(buy, sell) ==
    /\ buy.xudt = sell.xudt
    /\ buy.amount = sell.amount
    /\ buy.price = sell.price

\* Mutant: the cancellation path does not count the orders.
ProgramEntryUncounted(tx, own) ==
    LET pairs == {pair \in tx.spends \X tx.spends :
                    /\ orders[pair[1]].args.side = BUY /\ orders[pair[2]].args.side = SELL
                    /\ MatchingTerms(orders[pair[1]].args, orders[pair[2]].args)}
    IN  /\ \A id \in tx.spends \cup {own} : Parses(orders[id].args)
        /\ IF orders[own].args.maker \in tx.signers
           THEN ValidCancellation(tx, orders[own])
           ELSE /\ Cardinality(tx.spends) = 2
                /\ \E pair \in pairs :
                     IF orders[own].args.side = BUY THEN ValidBuyOrder(tx, orders[pair[1]])
                     ELSE ValidSellOrder(tx, orders[pair[2]])

\* program_entry for the order at out point own.
ProgramEntry(tx, own) ==
    /\ Parses(orders[own].args)
    /\ IF orders[own].args.maker \in tx.signers
       THEN /\ Cardinality(tx.spends) = 1
            /\ ValidCancellation(tx, orders[own])
       ELSE /\ Cardinality(tx.spends) = 2
            /\ \A id \in tx.spends : Parses(orders[id].args)
            /\ \E buy, sell \in tx.spends :
                 /\ orders[buy].args.side = BUY /\ orders[sell].args.side = SELL
                 /\ MatchingTerms(orders[buy].args, orders[sell].args)
                 /\ IF orders[own].args.side = BUY
                    THEN ValidBuyOrder(tx, orders[buy])
                    ELSE ValidSellOrder(tx, orders[sell])

---------------------------------------------------------------------------
(* The ledger around it (consensus rules and the xUDT type script)         *)

CkbIn(tx) == MapThenSumSet(LAMBDA id: orders[id].capacity, tx.spends)
             + MapThenSumSet(LAMBDA u: wallets[u].ckb, tx.signers)
TokensIn(tx, token) ==
    MapThenSumSet(LAMBDA id: Amount(orders[id].data),
                  {id \in tx.spends : orders[id].type = token})
    + MapThenSumSet(LAMBDA u: wallets[u].tok[token], tx.signers)

Balanced(tx) ==
    /\ \A u \in tx.signers : wallets[u].ckb > 0
    /\ Capacity(tx, DOMAIN tx.outputs) <= CkbIn(tx)
    /\ \A token \in Tokens :
         TokenSum(tx, Typed(tx, DOMAIN tx.outputs, token)) <= TokensIn(tx, token)

Accepted(tx) ==
    /\ \A id \in tx.spends : Live(id) /\ ProgramEntry(tx, id)
    /\ Balanced(tx)

WalletAfter(tx, u) ==
    LET own == OutputsOf(tx, u)
        kept(n) == IF u \in tx.signers THEN 0 ELSE n
    IN  [ckb |-> kept(wallets[u].ckb) + Capacity(tx, own),
         tok |-> [token \in Tokens |->
                    kept(wallets[u].tok[token]) + TokenSum(tx, Typed(tx, own, token))]]

Init ==
    /\ orders = [id \in Ids |-> NoOrder]
    /\ wallets = InitialWallet
    /\ signed = {}

\* A user locks capacity, and for a sell order tokens, under the order lock.
\* Nothing checks the cell against its args until someone spends it.
CreateOrder(u, id, cell) ==
    LET escrow == IF cell.type \in Tokens THEN Amount(cell.data) ELSE 0
    IN  /\ ~Live(id)
        /\ signed' = {u}
        /\ wallets[u].ckb >= cell.capacity
        /\ cell.type \in Tokens => wallets[u].tok[cell.type] >= escrow
        /\ orders' = [orders EXCEPT ![id] = cell]
        /\ wallets' = [wallets EXCEPT
             ![u] = [ckb |-> @.ckb - cell.capacity,
                     tok |-> [token \in Tokens |->
                                @.tok[token] - IF token = cell.type THEN escrow ELSE 0]]]

\* A transaction that spends at least one order is included in a block.
Spend(tx) ==
    /\ tx.spends # {}
    /\ Accepted(tx)
    /\ signed' = tx.signers
    /\ orders' = [id \in Ids |-> IF id \in tx.spends THEN NoOrder ELSE orders[id]]
    /\ wallets' = [u \in Users |-> WalletAfter(tx, u)]

Next ==
    \/ \E u \in Users, id \in Ids, cell \in NewOrders : CreateOrder(u, id, cell)
    \/ \E spends \in SUBSET Ids, signers \in SUBSET Users, outputs \in OutputLists :
         Spend([spends |-> spends, signers |-> signers, outputs |-> outputs])

Spec == Init /\ [][Next]_vars
---------------------------------------------------------------------------
(* Properties                                                              *)

Spent == {id \in Ids : Live(id) /\ orders'[id] = NoOrder}
Terms(side, u) == {id \in Spent : orders[id].args.side = side /\ orders[id].args.maker = u}

\* What the makers of buy orders, or of sell orders, must at least be left with.
DueToBuyers(bought) ==
    MapThenSumSet(LAMBDA id: orders[id].capacity - orders[id].args.price - MAX_SETTLEMENT_FEE, bought)
DueToSellers(sold) ==
    MapThenSumSet(LAMBDA id: orders[id].capacity + orders[id].args.price, sold)
TokensDue(bought, token) ==
    MapThenSumSet(LAMBDA id: orders[id].args.amount, {id \in bought : orders[id].args.xudt = token})

\* A maker who does not sign is never left with less than its terms, summed
\* over every order of its own that the transaction spends: a buyer gets the
\* tokens and its capacity but the price and the fee cap, a seller its cell's
\* capacity and the price, and no output pays two orders at once (one user may
\* be both makers of a settlement).
MakersGetTheirTerms ==
    [][\A u \in Users \ signed' :
         LET bought == Terms(BUY, u)
             sold   == Terms(SELL, u)
         IN  bought \cup sold # {} =>
               /\ wallets'[u].ckb - wallets[u].ckb >= DueToBuyers(bought) + DueToSellers(sold)
               /\ \A token \in Tokens :
                    wallets'[u].tok[token] - wallets[u].tok[token] >= TokensDue(bought, token)
      ]_vars

\* What users have gained by a step, all together.
CkbGain(us) == MapThenSumSet(LAMBDA u: wallets'[u].ckb - wallets[u].ckb, us)
TokenGain(us, token) ==
    MapThenSumSet(LAMBDA u: wallets'[u].tok[token] - wallets[u].tok[token], us)

\* Whoever assembles a settlement gains by it no more than the fee cap and no
\* token, all its outputs taken together: the two scripts, each knowing its own
\* maker's outputs only, leave nothing of the escrow over.
SettlersGainAtMostTheFee ==
    [][LET makers == {orders[id].args.maker : id \in Spent}
           others == Users \ makers
       IN  (Spent # {} /\ makers \cap signed' = {}) =>
             /\ CkbGain(others) <= MAX_SETTLEMENT_FEE
             /\ \A token \in Tokens : TokenGain(others, token) <= 0
      ]_vars

\* An order leaves the ledger in one of two ways only: alone, signed by its
\* maker, or together with exactly one order of the other side with the same
\* asset, amount and price, neither maker signing.  program_entry runs once per
\* order, knows its own args only and takes the cancellation path on its own
\* maker's signature: this is a fact about all the runs together.
SpentAloneOrInPair ==
    [][\/ Spent = {}
       \/ \E id \in Spent : Spent = {id} /\ orders[id].args.maker \in signed'
       \/ \E b, s \in Spent :
            /\ Spent = {b, s}
            /\ orders[b].args.side = BUY /\ orders[s].args.side = SELL
            /\ MatchingTerms(orders[b].args, orders[s].args)
            /\ {orders[b].args.maker, orders[s].args.maker} \cap signed' = {}
      ]_vars

\* No order is stranded: the maker of any order with readable args, holding at
\* least one cell of its own to sign with, has a transaction of its own that
\* the lock accepts, whatever the order cell contains.
MakerCanAlwaysCancel ==
    \A id \in Ids :
      (Live(id) /\ Parses(orders[id].args)) =>
        LET maker == orders[id].args.maker
            refund == [lock |-> maker, type |-> orders[id].type,
                       data |-> orders[id].data, capacity |-> orders[id].capacity]
        IN  wallets[maker].ckb > 0 =>
              Accepted([spends |-> {id}, signers |-> {maker}, outputs |-> <<refund>>])
===========================================================================
