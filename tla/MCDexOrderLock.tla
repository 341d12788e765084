-------------------------- MODULE MCDexOrderLock --------------------------
(* Instance of OrderTransactions for TLC: two makers, one token, small widths. *)
EXTENDS OrderTransactions, SequencesExt

CONSTANTS ann, bob

MCUsers == {ann, bob}
MCTokens == {"xudt"}

Args(side, maker, price) ==
    [side |-> side, maker |-> maker, xudt |-> "xudt", amount |-> 1, price |-> price]

\* What the UI places: a buy of one unit at price 1 and a sell at the same price.
\* What others may place: a cell whose arguments do not parse, a sell whose price
\* overflows the seller's requirement, and a sell order that holds no token.
MCNewOrders ==
    {CreateOrderCell(Args(side, u, 1)) : side \in {BUY, SELL}, u \in MCUsers}
    \cup {[args |-> Malformed, type |-> NoType, data |-> Short, capacity |-> 1],
          [args |-> Args(SELL, bob, 5), type |-> "xudt", data |-> 1, capacity |-> 1],
          [args |-> Args(SELL, bob, 1), type |-> NoType, data |-> Short, capacity |-> 1]}

Outputs ==
    [lock: MCUsers, type: {NoType}, data: {Short}, capacity: {2, 4}]
    \cup [lock: MCUsers, type: MCTokens, data: {1}, capacity: 1..2]
    \cup [lock: {ann}, type: MCTokens, data: {Short}, capacity: {1}]

\* At most MaxOutputs distinct output cells.
MaxOutputs == 3
MCOutputLists == {SetToSeq(s) : s \in UNION {kSubset(k, Outputs) : k \in 1..MaxOutputs}}

MCInitialWallet ==
    [u \in MCUsers |-> [ckb |-> 5, tok |-> [token \in MCTokens |-> IF u = bob THEN 2 ELSE 0]]]
===========================================================================
