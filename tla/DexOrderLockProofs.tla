------------------------ MODULE DexOrderLockProofs ------------------------
(***************************************************************************)
(* For every set of users, orders, terms and widths: the runs of           *)
(* program_entry, one per order a transaction spends, agree with each      *)
(* other; makers get their terms and can always cancel; settlers gain the  *)
(* fee cap at most; and what the project's programs build is accepted.     *)
(*                                                                         *)
(* Which orders a transaction may spend follows from the control of        *)
(* program_entry alone (AcceptedShape).  The rest is about the sums over   *)
(* its outputs, by the facts of SetSums.                                   *)
(***************************************************************************)
EXTENDS OrderTransactions, SetSums

\* The shape every accepted transaction has, in terms of the orders it spends.
AloneOrInPair(tx) ==
    \/ \E id \in tx.spends : tx.spends = {id} /\ orders[id].args.maker \in tx.signers
    \/ \E b, s \in tx.spends :
         /\ tx.spends = {b, s}
         /\ orders[b].args.side = BUY /\ orders[s].args.side = SELL
         /\ MatchingTerms(orders[b].args, orders[s].args)
         /\ {orders[b].args.maker, orders[s].args.maker} \cap tx.signers = {}

LEMMA PairIsWhole ==
    ASSUME NEW S, IsFiniteSet(S), Cardinality(S) = 2,
           NEW b \in S, NEW s \in S, b # s
    PROVE  S = {b, s}
<1>1. IsFiniteSet({b}) /\ Cardinality({b}) = 1
  BY FS_Singleton
<1>2. {b} \cup {s} = {b, s} /\ s \notin {b}
  OBVIOUS
<1>3. IsFiniteSet({b} \cup {s}) /\ Cardinality({b} \cup {s}) = Cardinality({b}) + 1
  BY <1>1, <1>2, FS_AddElement
<1>4. {b, s} \in SUBSET S
  OBVIOUS
<1>5. IsFiniteSet({b, s}) /\ Cardinality({b, s}) = 2
  BY <1>1, <1>2, <1>3
<1> QED
  BY <1>4, <1>5, FS_Subset

\* The order of one maker who signed is alone in its transaction, and a
\* transaction no spent order's maker signed is a matching pair.
LEMMA AcceptedShape ==
    ASSUME NEW tx, tx.spends \in SUBSET Ids, tx.spends # {}, Accepted(tx)
    PROVE  AloneOrInPair(tx)
<1>1. IsFiniteSet(tx.spends)
  BY LockConstants, FS_Subset
<1>2. PICK own \in tx.spends : TRUE
  OBVIOUS
<1>3. \A id \in tx.spends : ProgramEntry(tx, id)
  BY DEF Accepted
<1>4. CASE \E id \in tx.spends : orders[id].args.maker \in tx.signers
  <2>1. PICK id \in tx.spends : orders[id].args.maker \in tx.signers
    BY <1>4
  <2>2. Cardinality(tx.spends) = 1
    BY <1>3, <2>1 DEF ProgramEntry
  <2>3. tx.spends = {id}
    BY <1>1, <2>1, <2>2, FS_Singleton
  <2> QED
    BY <2>1, <2>3 DEF AloneOrInPair
<1>5. CASE \A id \in tx.spends : orders[id].args.maker \notin tx.signers
  <2>1. /\ Cardinality(tx.spends) = 2
        /\ \E buy, sell \in tx.spends :
             /\ orders[buy].args.side = BUY /\ orders[sell].args.side = SELL
             /\ MatchingTerms(orders[buy].args, orders[sell].args)
    BY <1>2, <1>3, <1>5 DEF ProgramEntry
  <2>2. PICK b, s \in tx.spends :
             /\ orders[b].args.side = BUY /\ orders[s].args.side = SELL
             /\ MatchingTerms(orders[b].args, orders[s].args)
    BY <2>1
  <2>3. b # s
    BY <2>2 DEF BUY, SELL
  <2>4. tx.spends = {b, s}
    BY <1>1, <2>1, <2>3, PairIsWhole
  <2>5. {orders[b].args.maker, orders[s].args.maker} \cap tx.signers = {}
    BY <1>5
  <2> QED
    BY <2>2, <2>4, <2>5 DEF AloneOrInPair
<1> QED
  BY <1>4, <1>5

LEMMA DomainInvariant ==
    Spec => [](DOMAIN orders = Ids)
<1>1. Init => DOMAIN orders = Ids
  BY DEF Init
<1>2. DOMAIN orders = Ids /\ [Next]_vars => (DOMAIN orders = Ids)'
  BY DEF Next, vars, CreateOrder, Spend
<1> QED
  BY <1>1, <1>2, PTL DEF Spec

\* SpentAloneOrInPair for every instance: an order is consumed alone with its
\* maker's signature, or with its counterpart and without either maker's.
THEOREM LockSpendsAloneOrInPair == Spec => SpentAloneOrInPair
<1> DEFINE Step ==
      \/ Spent = {}
      \/ \E id \in Spent : Spent = {id} /\ orders[id].args.maker \in signed'
      \/ \E b, s \in Spent :
           /\ Spent = {b, s}
           /\ orders[b].args.side = BUY /\ orders[s].args.side = SELL
           /\ MatchingTerms(orders[b].args, orders[s].args)
           /\ {orders[b].args.maker, orders[s].args.maker} \cap signed' = {}
<1>1. ASSUME DOMAIN orders = Ids, NEW u \in Users, NEW id \in Ids, NEW cell \in NewOrders,
             CreateOrder(u, id, cell)
      PROVE  Step
  <2>1. ~Live(id) /\ orders' = [orders EXCEPT ![id] = cell]
    BY <1>1 DEF CreateOrder
  <2>2. \A other \in Ids : other # id => orders'[other] = orders[other]
    BY <1>1, <2>1
  <2>3. Spent = {}
    BY <2>1, <2>2 DEF Spent, Live
  <2> QED
    BY <2>3
<1>2. ASSUME NEW tx, tx.spends \in SUBSET Ids, Spend(tx)
      PROVE  Step
  <2>1. AloneOrInPair(tx)
    BY <1>2, AcceptedShape DEF Spend
  <2>2. \A id \in tx.spends : Live(id)
    BY <1>2 DEF Spend, Accepted
  <2>3. Spent = tx.spends
    BY <1>2, <2>2 DEF Spend, Spent, Live
  <2>4. signed' = tx.signers
    BY <1>2 DEF Spend
  <2> QED
    BY <2>1, <2>3, <2>4 DEF AloneOrInPair
<1>3. DOMAIN orders = Ids /\ [Next]_vars => [Step]_vars
  <2> SUFFICES ASSUME DOMAIN orders = Ids, Next PROVE Step
    BY DEF vars
  <2>1. CASE \E u \in Users, id \in Ids, cell \in NewOrders : CreateOrder(u, id, cell)
    BY <1>1, <2>1
  <2>2. CASE \E spends \in SUBSET Ids, signers \in SUBSET Users, outputs \in OutputLists :
               Spend([spends |-> spends, signers |-> signers, outputs |-> outputs])
    <3>1. PICK spends \in SUBSET Ids, signers \in SUBSET Users, outputs \in OutputLists :
               Spend([spends |-> spends, signers |-> signers, outputs |-> outputs])
      BY <2>2
    <3>2. [spends |-> spends, signers |-> signers, outputs |-> outputs].spends \in SUBSET Ids
      OBVIOUS
    <3> QED
      BY <1>2, <3>1, <3>2
  <2> QED
    BY <2>1, <2>2 DEF Next
<1> QED
  BY <1>3, DomainInvariant, PTL DEF Spec, SpentAloneOrInPair

---------------------------------------------------------------------------
(* The sums of the lock, as sums over functions                            *)

\* Each sum below is the same recursion over another expression; no backend
\* instantiates one fact about all of them.
LEMMA CapacityIsSum ==
    ASSUME NEW tx, NEW is \in SUBSET DOMAIN tx.outputs, IsFiniteSet(is)
    PROVE  Capacity(tx, is) = SumOn([i \in DOMAIN tx.outputs |-> tx.outputs[i].capacity], is)
<1> DEFINE f == [i \in DOMAIN tx.outputs |-> tx.outputs[i].capacity]
           Sums(it) == it = [s \in SUBSET is |->
                               IF s = {} THEN 0
                               ELSE LET x == CHOOSE y \in s : TRUE
                                    IN  tx.outputs[x].capacity + it[s \ {x}]]
<1>1. Capacity(tx, is) = (CHOOSE it : Sums(it))[is]
  BY DEF Capacity, MapThenSumSet, MapThenFoldSet
<1>2. ASSUME NEW it PROVE Sums(it) <=> SumsOn(f, is, it)
  BY DEF SumsOn
<1> HIDE DEF f, Sums
<1>3. SumsOn(f, is, CHOOSE it : Sums(it))
  <2>1. \E it : Sums(it)
    BY <1>2, SumsOnExist
  <2>2. Sums(CHOOSE it : Sums(it))
    BY <2>1
  <2> QED
    BY <1>2, <2>2
<1>4. Capacity(tx, is) = SumOn(f, is)
  BY <1>1, <1>3, SumOnIs
<1> QED
  BY <1>4 DEF f

LEMMA TokenSumIsSum ==
    ASSUME NEW tx, NEW is \in SUBSET DOMAIN tx.outputs, IsFiniteSet(is)
    PROVE  TokenSum(tx, is) = SumOn([i \in DOMAIN tx.outputs |-> Amount(tx.outputs[i].data)], is)
<1> DEFINE f == [i \in DOMAIN tx.outputs |-> Amount(tx.outputs[i].data)]
           Sums(it) == it = [s \in SUBSET is |->
                               IF s = {} THEN 0
                               ELSE LET x == CHOOSE y \in s : TRUE
                                    IN  Amount(tx.outputs[x].data) + it[s \ {x}]]
<1>1. TokenSum(tx, is) = (CHOOSE it : Sums(it))[is]
  BY DEF TokenSum, MapThenSumSet, MapThenFoldSet
<1>2. ASSUME NEW it PROVE Sums(it) <=> SumsOn(f, is, it)
  BY DEF SumsOn
<1> HIDE DEF f, Sums
<1>3. SumsOn(f, is, CHOOSE it : Sums(it))
  <2>1. \E it : Sums(it)
    BY <1>2, SumsOnExist
  <2>2. Sums(CHOOSE it : Sums(it))
    BY <2>1
  <2> QED
    BY <1>2, <2>2
<1>4. TokenSum(tx, is) = SumOn(f, is)
  BY <1>1, <1>3, SumOnIs
<1> QED
  BY <1>4 DEF f

LEMMA CkbInIsSum ==
    ASSUME NEW tx, IsFiniteSet(tx.spends), IsFiniteSet(tx.signers)
    PROVE  CkbIn(tx) = SumOn([id \in tx.spends |-> orders[id].capacity], tx.spends)
                       + SumOn([u \in tx.signers |-> wallets[u].ckb], tx.signers)
<1> DEFINE f == [id \in tx.spends |-> orders[id].capacity]
           g == [u \in tx.signers |-> wallets[u].ckb]
           OrderSums(it) == it = [s \in SUBSET tx.spends |->
                               IF s = {} THEN 0
                               ELSE LET x == CHOOSE y \in s : TRUE
                                    IN  orders[x].capacity + it[s \ {x}]]
           WalletSums(it) == it = [s \in SUBSET tx.signers |->
                               IF s = {} THEN 0
                               ELSE LET x == CHOOSE y \in s : TRUE
                                    IN  wallets[x].ckb + it[s \ {x}]]
<1>1. CkbIn(tx) = (CHOOSE it : OrderSums(it))[tx.spends] + (CHOOSE it : WalletSums(it))[tx.signers]
  BY DEF CkbIn, MapThenSumSet, MapThenFoldSet
<1>2. ASSUME NEW it PROVE OrderSums(it) <=> SumsOn(f, tx.spends, it)
  BY DEF SumsOn
<1>3. ASSUME NEW it PROVE WalletSums(it) <=> SumsOn(g, tx.signers, it)
  BY DEF SumsOn
<1> HIDE DEF f, g, OrderSums, WalletSums
<1>4. SumsOn(f, tx.spends, CHOOSE it : OrderSums(it))
  <2>1. \E it : OrderSums(it)
    BY <1>2, SumsOnExist
  <2>2. OrderSums(CHOOSE it : OrderSums(it))
    BY <2>1
  <2> QED
    BY <1>2, <2>2
<1>5. SumsOn(g, tx.signers, CHOOSE it : WalletSums(it))
  <2>1. \E it : WalletSums(it)
    BY <1>3, SumsOnExist
  <2>2. WalletSums(CHOOSE it : WalletSums(it))
    BY <2>1
  <2> QED
    BY <1>3, <2>2
<1>6. CkbIn(tx) = SumOn(f, tx.spends) + SumOn(g, tx.signers)
  BY <1>1, <1>4, <1>5, SumOnIs
<1> QED
  BY <1>6 DEF f, g

LEMMA TokensInIsSum ==
    ASSUME NEW tx, NEW token, IsFiniteSet(tx.spends), IsFiniteSet(tx.signers)
    PROVE  TokensIn(tx, token) =
             SumOn([id \in tx.spends |-> Amount(orders[id].data)],
                   {id \in tx.spends : orders[id].type = token})
             + SumOn([u \in tx.signers |-> wallets[u].tok[token]], tx.signers)
<1> DEFINE held == {id \in tx.spends : orders[id].type = token}
           f == [id \in tx.spends |-> Amount(orders[id].data)]
           g == [u \in tx.signers |-> wallets[u].tok[token]]
           OrderSums(it) == it = [s \in SUBSET held |->
                               IF s = {} THEN 0
                               ELSE LET x == CHOOSE y \in s : TRUE
                                    IN  Amount(orders[x].data) + it[s \ {x}]]
           WalletSums(it) == it = [s \in SUBSET tx.signers |->
                               IF s = {} THEN 0
                               ELSE LET x == CHOOSE y \in s : TRUE
                                    IN  wallets[x].tok[token] + it[s \ {x}]]
<1>1. TokensIn(tx, token) = (CHOOSE it : OrderSums(it))[held] + (CHOOSE it : WalletSums(it))[tx.signers]
  BY DEF TokensIn, MapThenSumSet, MapThenFoldSet
<1>2. ASSUME NEW it PROVE OrderSums(it) <=> SumsOn(f, held, it)
  BY DEF SumsOn
<1>3. ASSUME NEW it PROVE WalletSums(it) <=> SumsOn(g, tx.signers, it)
  BY DEF SumsOn
<1>4. IsFiniteSet(held)
  BY FS_Subset
<1> HIDE DEF f, g, OrderSums, WalletSums
<1>5. SumsOn(f, held, CHOOSE it : OrderSums(it))
  <2>1. \E it : OrderSums(it)
    <3> HIDE DEF held
    <3> QED
      BY <1>2, <1>4, SumsOnExist
  <2>2. OrderSums(CHOOSE it : OrderSums(it))
    BY <2>1
  <2> QED
    BY <1>2, <2>2
<1>6. SumsOn(g, tx.signers, CHOOSE it : WalletSums(it))
  <2>1. \E it : WalletSums(it)
    BY <1>3, SumsOnExist
  <2>2. WalletSums(CHOOSE it : WalletSums(it))
    BY <2>1
  <2> QED
    BY <1>3, <2>2
<1>7. TokensIn(tx, token) = SumOn(f, held) + SumOn(g, tx.signers)
  <2> HIDE DEF held
  <2> QED
    BY <1>1, <1>4, <1>5, <1>6, SumOnIs
<1> QED
  BY <1>7 DEF f, g

LEMMA DueToBuyersIsSum ==
    ASSUME NEW ids, IsFiniteSet(ids)
    PROVE  DueToBuyers(ids) = SumOn([id \in ids |-> orders[id].capacity - orders[id].args.price - MAX_SETTLEMENT_FEE], ids)
<1> DEFINE f == [id \in ids |-> orders[id].capacity - orders[id].args.price - MAX_SETTLEMENT_FEE]
           Sums(it) == it = [s \in SUBSET ids |->
                               IF s = {} THEN 0
                               ELSE LET x == CHOOSE y \in s : TRUE
                                    IN  (orders[x].capacity - orders[x].args.price - MAX_SETTLEMENT_FEE) + it[s \ {x}]]
<1>1. DueToBuyers(ids) = (CHOOSE it : Sums(it))[ids]
  BY DEF DueToBuyers, MapThenSumSet, MapThenFoldSet
<1>2. ASSUME NEW it PROVE Sums(it) <=> SumsOn(f, ids, it)
  BY DEF SumsOn
<1> HIDE DEF f, Sums
<1>3. SumsOn(f, ids, CHOOSE it : Sums(it))
  <2>1. \E it : Sums(it)
    BY <1>2, SumsOnExist
  <2>2. Sums(CHOOSE it : Sums(it))
    BY <2>1
  <2> QED
    BY <1>2, <2>2
<1>4. DueToBuyers(ids) = SumOn(f, ids)
  BY <1>1, <1>3, SumOnIs
<1> QED
  BY <1>4 DEF f

LEMMA DueToSellersIsSum ==
    ASSUME NEW ids, IsFiniteSet(ids)
    PROVE  DueToSellers(ids) = SumOn([id \in ids |-> orders[id].capacity + orders[id].args.price], ids)
<1> DEFINE f == [id \in ids |-> orders[id].capacity + orders[id].args.price]
           Sums(it) == it = [s \in SUBSET ids |->
                               IF s = {} THEN 0
                               ELSE LET x == CHOOSE y \in s : TRUE
                                    IN  (orders[x].capacity + orders[x].args.price) + it[s \ {x}]]
<1>1. DueToSellers(ids) = (CHOOSE it : Sums(it))[ids]
  BY DEF DueToSellers, MapThenSumSet, MapThenFoldSet
<1>2. ASSUME NEW it PROVE Sums(it) <=> SumsOn(f, ids, it)
  BY DEF SumsOn
<1> HIDE DEF f, Sums
<1>3. SumsOn(f, ids, CHOOSE it : Sums(it))
  <2>1. \E it : Sums(it)
    BY <1>2, SumsOnExist
  <2>2. Sums(CHOOSE it : Sums(it))
    BY <2>1
  <2> QED
    BY <1>2, <2>2
<1>4. DueToSellers(ids) = SumOn(f, ids)
  BY <1>1, <1>3, SumOnIs
<1> QED
  BY <1>4 DEF f

LEMMA TokensDueIsSum ==
    ASSUME NEW ids, IsFiniteSet(ids), NEW token
    PROVE  TokensDue(ids, token) = SumOn([id \in ids |-> orders[id].args.amount],
                                         {id \in ids : orders[id].args.xudt = token})
<1> DEFINE due == {id \in ids : orders[id].args.xudt = token}
           f == [id \in ids |-> orders[id].args.amount]
           Sums(it) == it = [s \in SUBSET due |->
                               IF s = {} THEN 0
                               ELSE LET x == CHOOSE y \in s : TRUE
                                    IN  orders[x].args.amount + it[s \ {x}]]
<1>1. TokensDue(ids, token) = (CHOOSE it : Sums(it))[due]
  BY DEF TokensDue, MapThenSumSet, MapThenFoldSet
<1>2. ASSUME NEW it PROVE Sums(it) <=> SumsOn(f, due, it)
  BY DEF SumsOn
<1>3. IsFiniteSet(due)
  BY FS_Subset
<1> HIDE DEF due, f, Sums
<1>4. SumsOn(f, due, CHOOSE it : Sums(it))
  <2>1. \E it : Sums(it)
    BY <1>2, <1>3, SumsOnExist
  <2>2. Sums(CHOOSE it : Sums(it))
    BY <2>1
  <2> QED
    BY <1>2, <2>2
<1>5. TokensDue(ids, token) = SumOn(f, due)
  BY <1>1, <1>3, <1>4, SumOnIs
<1> QED
  BY <1>5 DEF f, due

---------------------------------------------------------------------------
(* What a transaction's outputs hold                                       *)

Written(tx) == tx.outputs \in Seq(OutputCells)

LEMMA AmountIsNat == \A data \in {Short} \cup 0..MaxU128 : Amount(data) \in Nat
BY LockConstants DEF Amount, Short

LEMMA OutputsAreFinite ==
    ASSUME NEW tx, Written(tx)
    PROVE  /\ IsFiniteSet(DOMAIN tx.outputs)
           /\ \A is \in SUBSET DOMAIN tx.outputs : IsFiniteSet(is)
           /\ \A i \in DOMAIN tx.outputs : tx.outputs[i] \in OutputCells
<1>1. tx.outputs \in Seq(OutputCells) /\ Len(tx.outputs) \in Nat
      /\ DOMAIN tx.outputs = 1..Len(tx.outputs)
  BY DEF Written
<1>2. IsFiniteSet(1..Len(tx.outputs))
  BY <1>1, FS_Interval
<1>3. IsFiniteSet(DOMAIN tx.outputs)
  BY <1>1, <1>2
<1>4. \A is \in SUBSET DOMAIN tx.outputs : IsFiniteSet(is)
  BY <1>3, FS_Subset
<1> QED
  BY <1>1, <1>3, <1>4

\* Two disjoint sets of outputs hold no more together than any set with both.
LEMMA CapacityOfParts ==
    ASSUME NEW tx, Written(tx), NEW is \in SUBSET DOMAIN tx.outputs,
           NEW js \in SUBSET is, NEW ks \in SUBSET is, js \cap ks = {}
    PROVE  /\ Capacity(tx, is) \in Nat /\ Capacity(tx, js) \in Nat /\ Capacity(tx, ks) \in Nat
           /\ Capacity(tx, js) + Capacity(tx, ks) <= Capacity(tx, is)
<1> DEFINE f == [i \in DOMAIN tx.outputs |-> tx.outputs[i].capacity]
<1>1. \A i \in DOMAIN tx.outputs : f[i] \in Nat
  BY OutputsAreFinite, LockConstants DEF OutputCells
<1>2. \A s \in SUBSET DOMAIN tx.outputs : IsFiniteSet(s)
  BY OutputsAreFinite
<1>3. /\ Capacity(tx, is) = SumOn(f, is) /\ Capacity(tx, js) = SumOn(f, js)
      /\ Capacity(tx, ks) = SumOn(f, ks)
  BY <1>2, CapacityIsSum
<1> HIDE DEF f
<1>4. SumOn(f, is) = SumOn(f, js) + SumOn(f, is \ js)
  BY <1>1, <1>2, SumOnParts
<1>5. SumOn(f, ks) <= SumOn(f, is \ js)
  <2>1. ks \in SUBSET (is \ js) /\ IsFiniteSet(is \ js) /\ \A i \in is \ js : f[i] \in Nat
    BY <1>1, <1>2
  <2> QED
    BY <2>1, SumOnGrows
<1>6. \A s \in SUBSET is : SumOn(f, s) \in Nat
  BY <1>1, <1>2, SumOnNat
<1>7. SumOn(f, is) \in Nat /\ SumOn(f, js) \in Nat /\ SumOn(f, ks) \in Nat /\ SumOn(f, is \ js) \in Nat
  BY <1>6
<1> QED
  BY <1>3, <1>4, <1>5, <1>7

LEMMA CapacityIsNat ==
    ASSUME NEW tx, Written(tx), NEW is \in SUBSET DOMAIN tx.outputs
    PROVE  Capacity(tx, is) \in Nat
<1>1. {} \in SUBSET is /\ {} \cap {} = {}
  OBVIOUS
<1> QED
  BY <1>1, CapacityOfParts

LEMMA TokenSumIsNat ==
    ASSUME NEW tx, Written(tx), NEW is \in SUBSET DOMAIN tx.outputs
    PROVE  TokenSum(tx, is) \in Nat
<1> DEFINE f == [i \in DOMAIN tx.outputs |-> Amount(tx.outputs[i].data)]
<1>1. \A i \in is : f[i] \in Nat
  BY OutputsAreFinite, AmountIsNat DEF OutputCells
<1>2. TokenSum(tx, is) = SumOn(f, is) /\ IsFiniteSet(is)
  BY OutputsAreFinite, TokenSumIsSum
<1> HIDE DEF f
<1> QED
  BY <1>1, <1>2, SumOnNat

LEMMA NothingHeld ==
    ASSUME NEW tx
    PROVE  Capacity(tx, {}) = 0 /\ TokenSum(tx, {}) = 0
BY FS_EmptySet, CapacityIsSum, TokenSumIsSum, SumOnEmpty

LEMMA FinitePair == \A a, b : IsFiniteSet({a, b})
<1> SUFFICES ASSUME NEW a, NEW b PROVE IsFiniteSet({a, b})
  OBVIOUS
<1>1. IsFiniteSet({a} \cup {b}) /\ {a} \cup {b} = {a, b}
  BY FS_Singleton, FS_AddElement
<1> QED
  BY <1>1

LEMMA OneHeld ==
    ASSUME NEW tx, NEW i \in DOMAIN tx.outputs,
           tx.outputs[i].capacity \in Int, Amount(tx.outputs[i].data) \in Int
    PROVE  /\ Capacity(tx, {i}) = tx.outputs[i].capacity
           /\ TokenSum(tx, {i}) = Amount(tx.outputs[i].data)
<1> DEFINE f == [j \in DOMAIN tx.outputs |-> tx.outputs[j].capacity]
           g == [j \in DOMAIN tx.outputs |-> Amount(tx.outputs[j].data)]
<1>1. f[i] = tx.outputs[i].capacity /\ g[i] = Amount(tx.outputs[i].data)
  OBVIOUS
<1>2. Capacity(tx, {i}) = SumOn(f, {i}) /\ TokenSum(tx, {i}) = SumOn(g, {i})
  <2>1. {i} \in SUBSET DOMAIN tx.outputs /\ IsFiniteSet({i})
    BY FS_Singleton
  <2>2. Capacity(tx, {i}) = SumOn(f, {i})
    BY <2>1, CapacityIsSum
  <2>3. TokenSum(tx, {i}) = SumOn(g, {i})
    BY <2>1, TokenSumIsSum
  <2> QED
    BY <2>2, <2>3
<1> HIDE DEF f, g
<1> QED
  BY <1>1, <1>2, SumOnSingle

LEMMA TwoHeld ==
    ASSUME NEW tx, NEW i \in DOMAIN tx.outputs, NEW j \in DOMAIN tx.outputs, i # j,
           tx.outputs[i].capacity \in Int, tx.outputs[j].capacity \in Int
    PROVE  Capacity(tx, {i, j}) = tx.outputs[i].capacity + tx.outputs[j].capacity
<1> DEFINE f == [k \in DOMAIN tx.outputs |-> tx.outputs[k].capacity]
<1>1. f[i] = tx.outputs[i].capacity /\ f[j] = tx.outputs[j].capacity
  OBVIOUS
<1>2. Capacity(tx, {i, j}) = SumOn(f, {i, j})
  BY FinitePair, CapacityIsSum
<1> HIDE DEF f
<1>3. SumOn(f, {i, j}) = f[i] + f[j]
  BY <1>1, SumOnPair
<1> QED
  BY <1>1, <1>2, <1>3

---------------------------------------------------------------------------
(* The ledger never goes negative                                          *)

LedgerTyped ==
    /\ orders \in [Ids -> OrderCells \cup {NoOrder}]
    /\ wallets \in [Users -> Wallets]
    /\ signed \subseteq Users

Request(tx) ==
    /\ tx.spends \in SUBSET Ids /\ tx.signers \in SUBSET Users
    /\ Written(tx)

LEMMA WalletAfterTyped ==
    ASSUME LedgerTyped, NEW tx, Request(tx), NEW u \in Users
    PROVE  WalletAfter(tx, u) \in Wallets
<1>1. OutputsOf(tx, u) \in SUBSET DOMAIN tx.outputs
      /\ \A token : Typed(tx, OutputsOf(tx, u), token) \in SUBSET DOMAIN tx.outputs
  BY DEF OutputsOf, Typed
<1>2. Capacity(tx, OutputsOf(tx, u)) \in Nat
  BY <1>1, CapacityIsNat DEF Request
<1>3. \A token : TokenSum(tx, Typed(tx, OutputsOf(tx, u), token)) \in Nat
  BY <1>1, TokenSumIsNat DEF Request
<1>4. wallets[u].ckb \in Nat /\ \A token \in Tokens : wallets[u].tok[token] \in Nat
  BY DEF LedgerTyped, Wallets
<1> QED
  BY <1>2, <1>3, <1>4 DEF WalletAfter, Wallets

LEMMA LedgerTypedInit == Init => LedgerTyped
BY CellConstants DEF Init, LedgerTyped

LEMMA LedgerTypedNext == LedgerTyped /\ [Next]_vars => LedgerTyped'
<1> SUFFICES ASSUME LedgerTyped, [Next]_vars PROVE LedgerTyped'
  OBVIOUS
<1>1. ASSUME NEW u \in Users, NEW id \in Ids, NEW cell \in NewOrders, CreateOrder(u, id, cell)
      PROVE  LedgerTyped'
  <2>1. cell \in OrderCells
    BY CellConstants
  <2>2. orders' \in [Ids -> OrderCells \cup {NoOrder}]
    BY <1>1, <2>1 DEF LedgerTyped, CreateOrder
  <2>3. cell.capacity \in Nat /\ Amount(cell.data) \in Nat
    BY <2>1, AmountIsNat, LockConstants DEF OrderCells
  <2>4. wallets[u] \in Wallets
    BY DEF LedgerTyped
  <2> DEFINE escrow == IF cell.type \in Tokens THEN Amount(cell.data) ELSE 0
             tok == [token \in Tokens |->
                       wallets[u].tok[token] - IF token = cell.type THEN escrow ELSE 0]
  <2>5. wallets[u].ckb - cell.capacity \in Nat
    BY <1>1, <2>3, <2>4 DEF CreateOrder, Wallets
  <2>6. ASSUME NEW token \in Tokens
        PROVE  wallets[u].tok[token] - (IF token = cell.type THEN escrow ELSE 0) \in Nat
    <3>1. wallets[u].tok[token] \in Nat
      BY <2>4 DEF Wallets
    <3>2. token = cell.type => wallets[u].tok[token] >= escrow
      BY <1>1 DEF CreateOrder
    <3> QED
      BY <2>3, <3>1, <3>2
  <2>7. tok \in [Tokens -> Nat]
    BY <2>6
  <2>8. wallets' = [wallets EXCEPT ![u] = [ckb |-> wallets[u].ckb - cell.capacity, tok |-> tok]]
    BY <1>1 DEF CreateOrder
  <2>9. wallets' \in [Users -> Wallets]
    <3> HIDE DEF tok
    <3> QED
      BY <2>5, <2>7, <2>8 DEF LedgerTyped, Wallets
  <2>10. signed' \subseteq Users
    BY <1>1 DEF CreateOrder
  <2> QED
    BY <2>2, <2>9, <2>10 DEF LedgerTyped
<1>2. ASSUME NEW tx, Request(tx), Spend(tx)
      PROVE  LedgerTyped'
  <2>1. orders' \in [Ids -> OrderCells \cup {NoOrder}]
    BY <1>2 DEF LedgerTyped, Spend
  <2>2. wallets' \in [Users -> Wallets]
    BY <1>2, WalletAfterTyped DEF Spend
  <2> QED
    BY <1>2, <2>1, <2>2 DEF LedgerTyped, Spend, Request
<1>3. ASSUME NEW spends \in SUBSET Ids, NEW signers \in SUBSET Users, NEW outputs \in OutputLists
      PROVE  Request([spends |-> spends, signers |-> signers, outputs |-> outputs])
  BY CellConstants DEF Request, Written
<1>4. CASE UNCHANGED vars
  BY <1>4 DEF vars, LedgerTyped
<1> QED
  BY <1>1, <1>2, <1>3, <1>4 DEF Next

---------------------------------------------------------------------------
(* Makers get their terms                                                  *)

LEMMA LiveOrders ==
    ASSUME LedgerTyped, NEW id \in Ids, Live(id)
    PROVE  /\ orders[id] \in OrderCells /\ orders[id].capacity \in Nat
           /\ Amount(orders[id].data) \in Nat
           /\ Parses(orders[id].args) =>
                /\ orders[id].args \in OrderArgs /\ orders[id].args.maker \in Users
                /\ orders[id].args.xudt \in Tokens
                /\ orders[id].args.price \in Nat /\ orders[id].args.amount \in Nat
<1>1. orders[id] \in OrderCells
  BY DEF LedgerTyped, Live
<1>2. orders[id].capacity \in Nat /\ Amount(orders[id].data) \in Nat
  BY <1>1, LockConstants, AmountIsNat DEF OrderCells
<1>3. Parses(orders[id].args) => orders[id].args \in OrderArgs
  BY <1>1 DEF OrderCells, Parses
<1>4. orders[id].args \in OrderArgs =>
        /\ orders[id].args.maker \in Users /\ orders[id].args.xudt \in Tokens
        /\ orders[id].args.price \in Nat /\ orders[id].args.amount \in Nat
  BY LockConstants DEF OrderArgs
<1> QED
  BY <1>1, <1>2, <1>3, <1>4

\* In a settlement the run of the buy order checks what the buyer is left
\* with, the run of the sell order what the seller is paid.
LEMMA EachRunChecksItsMaker ==
    ASSUME NEW tx, Accepted(tx), NEW b, NEW s, tx.spends = {b, s},
           orders[b].args.side = BUY, orders[s].args.side = SELL,
           {orders[b].args.maker, orders[s].args.maker} \cap tx.signers = {}
    PROVE  /\ Live(b) /\ Live(s) /\ Parses(orders[b].args) /\ Parses(orders[s].args)
           /\ ValidBuyOrder(tx, orders[b]) /\ ValidSellOrder(tx, orders[s])
<1>1. Live(b) /\ Live(s) /\ ProgramEntry(tx, b) /\ ProgramEntry(tx, s)
  BY DEF Accepted
<1>2. orders[b].args.maker \notin tx.signers /\ orders[s].args.maker \notin tx.signers
  OBVIOUS
<1>3. \A buy, sell \in tx.spends :
        orders[buy].args.side = BUY /\ orders[sell].args.side = SELL => buy = b /\ sell = s
  BY DEF BUY, SELL
<1>4. ValidBuyOrder(tx, orders[b])
  <2>1. PICK buy, sell \in tx.spends :
          /\ orders[buy].args.side = BUY /\ orders[sell].args.side = SELL
          /\ ValidBuyOrder(tx, orders[buy])
    BY <1>1, <1>2 DEF ProgramEntry
  <2> QED
    BY <1>3, <2>1
<1>5. ValidSellOrder(tx, orders[s])
  <2>1. PICK buy, sell \in tx.spends :
          /\ orders[buy].args.side = BUY /\ orders[sell].args.side = SELL
          /\ ValidSellOrder(tx, orders[sell])
    BY <1>1, <1>2 DEF ProgramEntry, BUY, SELL
  <2> QED
    BY <1>3, <2>1
<1> QED
  BY <1>1, <1>4, <1>5 DEF ProgramEntry

\* What a user is due from a settlement, for the orders of it that are its own.
Due(b, s, u) ==
    (IF orders[b].args.maker = u
     THEN orders[b].capacity - orders[b].args.price - MAX_SETTLEMENT_FEE ELSE 0)
    + IF orders[s].args.maker = u THEN orders[s].capacity + orders[s].args.price ELSE 0

\* The lock's two runs together: the tokens' cells and the seller's payment are
\* different outputs, so nothing is counted for both orders.
LEMMA OutputsPayTheTerms ==
    ASSUME LedgerTyped, NEW tx, Request(tx), Accepted(tx),
           NEW b \in Ids, NEW s \in Ids, tx.spends = {b, s},
           orders[b].args.side = BUY, orders[s].args.side = SELL,
           {orders[b].args.maker, orders[s].args.maker} \cap tx.signers = {},
           NEW u \in Users
    PROVE  /\ Capacity(tx, OutputsOf(tx, u)) >= Due(b, s, u)
           /\ orders[b].args.maker = u =>
                TokenSum(tx, Typed(tx, OutputsOf(tx, u), orders[b].args.xudt)) = orders[b].args.amount
<1> DEFINE own == OutputsOf(tx, u)
           received == Typed(tx, own, orders[b].args.xudt)
           paid == Typed(tx, own, NoType)
<1>1. /\ Live(b) /\ Live(s) /\ Parses(orders[b].args) /\ Parses(orders[s].args)
      /\ ValidBuyOrder(tx, orders[b]) /\ ValidSellOrder(tx, orders[s])
  BY EachRunChecksItsMaker
<1>2. /\ orders[b].capacity \in Nat /\ orders[b].args.price \in Nat /\ orders[b].args.xudt \in Tokens
      /\ orders[s].capacity \in Nat /\ orders[s].args.price \in Nat
  BY <1>1, LiveOrders
<1>3. /\ own \in SUBSET DOMAIN tx.outputs /\ received \in SUBSET own /\ paid \in SUBSET own
      /\ received \cap paid = {}
  BY <1>2, LockConstants DEF OutputsOf, Typed
<1>4. /\ Capacity(tx, own) \in Nat /\ Capacity(tx, received) \in Nat /\ Capacity(tx, paid) \in Nat
      /\ Capacity(tx, received) + Capacity(tx, paid) <= Capacity(tx, own)
  <2> HIDE DEF own, received, paid
  <2> QED
    BY <1>3, CapacityOfParts DEF Request
<1>5. ASSUME orders[b].args.maker = u
      PROVE  /\ Capacity(tx, received) >= orders[b].capacity - orders[b].args.price - MAX_SETTLEMENT_FEE
             /\ TokenSum(tx, received) = orders[b].args.amount
  <2>1. /\ orders[b].capacity - (orders[b].args.price + Capacity(tx, received)) <= MAX_SETTLEMENT_FEE
        /\ TokenSum(tx, received) = orders[b].args.amount
    BY <1>1, <1>5 DEF ValidBuyOrder
  <2> HIDE DEF received
  <2> QED
    BY <1>2, <1>4, <2>1, LockConstants
<1>6. ASSUME orders[s].args.maker = u
      PROVE  Capacity(tx, paid) >= orders[s].capacity + orders[s].args.price
  BY <1>1, <1>6 DEF ValidSellOrder
<1>7. Capacity(tx, own) >= Due(b, s, u)
  <2> HIDE DEF own, received, paid
  <2> QED
    BY <1>2, <1>4, <1>5, <1>6, LockConstants DEF Due
<1> QED
  BY <1>5, <1>7

LEMMA TermsOfPair ==
    ASSUME LedgerTyped, NEW b \in Ids, NEW s \in Ids, NEW u, NEW bought, NEW sold,
           Live(b), Live(s), Parses(orders[b].args), Parses(orders[s].args),
           bought = IF orders[b].args.maker = u THEN {b} ELSE {},
           sold = IF orders[s].args.maker = u THEN {s} ELSE {}
    PROVE  /\ DueToBuyers(bought) + DueToSellers(sold) = Due(b, s, u)
           /\ \A token : TokensDue(bought, token) =
                IF orders[b].args.maker = u /\ orders[b].args.xudt = token
                THEN orders[b].args.amount ELSE 0
<1>1. IsFiniteSet(bought) /\ IsFiniteSet(sold)
  BY FS_EmptySet, FS_Singleton
<1>2. /\ orders[b].capacity \in Nat /\ orders[b].args.price \in Nat /\ orders[b].args.amount \in Nat
      /\ orders[s].capacity \in Nat /\ orders[s].args.price \in Nat
  BY LiveOrders
<1>3. DueToBuyers(bought) = IF orders[b].args.maker = u
                            THEN orders[b].capacity - orders[b].args.price - MAX_SETTLEMENT_FEE ELSE 0
  <2> DEFINE f == [id \in bought |-> orders[id].capacity - orders[id].args.price - MAX_SETTLEMENT_FEE]
  <2>1. DueToBuyers(bought) = SumOn(f, bought)
    BY <1>1, DueToBuyersIsSum
  <2>2. orders[b].args.maker = u =>
          f[b] = orders[b].capacity - orders[b].args.price - MAX_SETTLEMENT_FEE /\ f[b] \in Int
    BY <1>2, LockConstants
  <2> HIDE DEF f
  <2> QED
    BY <2>1, <2>2, SumOnSingle, SumOnEmpty
<1>4. DueToSellers(sold) = IF orders[s].args.maker = u
                           THEN orders[s].capacity + orders[s].args.price ELSE 0
  <2> DEFINE f == [id \in sold |-> orders[id].capacity + orders[id].args.price]
  <2>1. DueToSellers(sold) = SumOn(f, sold)
    BY <1>1, DueToSellersIsSum
  <2>2. orders[s].args.maker = u =>
          f[s] = orders[s].capacity + orders[s].args.price /\ f[s] \in Int
    BY <1>2
  <2> HIDE DEF f
  <2> QED
    BY <2>1, <2>2, SumOnSingle, SumOnEmpty
<1>5. ASSUME NEW token
      PROVE  TokensDue(bought, token) = IF orders[b].args.maker = u /\ orders[b].args.xudt = token
                                        THEN orders[b].args.amount ELSE 0
  <2> DEFINE f == [id \in bought |-> orders[id].args.amount]
             due == {id \in bought : orders[id].args.xudt = token}
  <2>1. TokensDue(bought, token) = SumOn(f, due)
    <3>1. IsFiniteSet(bought)
      BY <1>1
    <3> QED
      BY ONLY <3>1, TokensDueIsSum
  <2>2. due = IF orders[b].args.maker = u /\ orders[b].args.xudt = token THEN {b} ELSE {}
    OBVIOUS
  <2>3. orders[b].args.maker = u => f[b] = orders[b].args.amount /\ f[b] \in Int
    BY <1>2
  <2> HIDE DEF f, due
  <2> QED
    BY <2>1, <2>2, <2>3, SumOnSingle, SumOnEmpty
<1>6. DueToBuyers(bought) + DueToSellers(sold) = Due(b, s, u)
  BY <1>3, <1>4 DEF Due
<1> QED
  BY <1>5, <1>6

\* MakersGetTheirTerms for every set of users, orders, terms and widths.
THEOREM MakersAlwaysGetTheirTerms == Spec => MakersGetTheirTerms
<1> DEFINE Paid(u, bought, sold) ==
      bought \cup sold # {} =>
        /\ wallets'[u].ckb - wallets[u].ckb >= DueToBuyers(bought) + DueToSellers(sold)
        /\ \A token \in Tokens :
             wallets'[u].tok[token] - wallets[u].tok[token] >= TokensDue(bought, token)
           Step == \A u \in Users \ signed' : Paid(u, Terms(BUY, u), Terms(SELL, u))
<1>1. ASSUME LedgerTyped, NEW u \in Users, NEW id \in Ids, NEW cell \in NewOrders,
             CreateOrder(u, id, cell)
      PROVE  Spent = {}
  <2>1. ~Live(id) /\ orders' = [orders EXCEPT ![id] = cell]
    BY <1>1 DEF CreateOrder
  <2>2. \A other \in Ids : other # id => orders'[other] = orders[other]
    BY <1>1, <2>1
  <2> QED
    BY <2>1, <2>2 DEF Spent, Live
<1>2. ASSUME Spent = {} PROVE Step
  BY <1>2 DEF Terms
<1>3. ASSUME LedgerTyped, NEW tx, Request(tx), Spend(tx), NEW u \in Users \ signed'
      PROVE  Paid(u, Terms(BUY, u), Terms(SELL, u))
  <2>1. Accepted(tx) /\ signed' = tx.signers /\ \A id \in tx.spends : Live(id)
    BY <1>3 DEF Spend, Accepted
  <2>2. Spent = tx.spends
    BY <1>3, <2>1 DEF Spend, Spent, Live, Request
  <2>3. AloneOrInPair(tx)
    BY <1>3, <2>1, AcceptedShape DEF Spend, Request
  <2>4. CASE \E id \in tx.spends : tx.spends = {id} /\ orders[id].args.maker \in tx.signers
    <3>1. Terms(BUY, u) \cup Terms(SELL, u) = {}
      BY <1>3, <2>1, <2>2, <2>4 DEF Terms
    <3> QED
      BY <3>1
  <2>5. CASE \E b, s \in tx.spends :
               /\ tx.spends = {b, s}
               /\ orders[b].args.side = BUY /\ orders[s].args.side = SELL
               /\ MatchingTerms(orders[b].args, orders[s].args)
               /\ {orders[b].args.maker, orders[s].args.maker} \cap tx.signers = {}
    <3>1. PICK b \in tx.spends, s \in tx.spends :
               /\ tx.spends = {b, s}
               /\ orders[b].args.side = BUY /\ orders[s].args.side = SELL
               /\ {orders[b].args.maker, orders[s].args.maker} \cap tx.signers = {}
      BY <2>5
    <3>2. b \in Ids /\ s \in Ids
      BY <1>3 DEF Request
    <3>3. /\ Terms(BUY, u) = IF orders[b].args.maker = u THEN {b} ELSE {}
          /\ Terms(SELL, u) = IF orders[s].args.maker = u THEN {s} ELSE {}
      BY <2>2, <3>1 DEF Terms, BUY, SELL
    <3>4. Live(b) /\ Live(s) /\ Parses(orders[b].args) /\ Parses(orders[s].args)
      BY <2>1, <3>1, EachRunChecksItsMaker
    <3>5. /\ DueToBuyers(Terms(BUY, u)) + DueToSellers(Terms(SELL, u)) = Due(b, s, u)
          /\ \A token : TokensDue(Terms(BUY, u), token) =
               IF orders[b].args.maker = u /\ orders[b].args.xudt = token
               THEN orders[b].args.amount ELSE 0
      BY <1>3, <3>2, <3>3, <3>4, TermsOfPair
    <3>6. /\ Capacity(tx, OutputsOf(tx, u)) >= Due(b, s, u)
          /\ orders[b].args.maker = u =>
               TokenSum(tx, Typed(tx, OutputsOf(tx, u), orders[b].args.xudt)) = orders[b].args.amount
      BY <1>3, <2>1, <3>1, <3>2, OutputsPayTheTerms
    <3>7. /\ wallets'[u].ckb = wallets[u].ckb + Capacity(tx, OutputsOf(tx, u))
          /\ \A token \in Tokens : wallets'[u].tok[token] =
               wallets[u].tok[token] + TokenSum(tx, Typed(tx, OutputsOf(tx, u), token))
      BY <1>3, <2>1 DEF Spend, WalletAfter
    <3>8. /\ wallets[u].ckb \in Nat
          /\ \A token \in Tokens : wallets[u].tok[token] \in Nat
      BY <1>3 DEF LedgerTyped, Wallets
    <3>9. /\ Capacity(tx, OutputsOf(tx, u)) \in Nat
          /\ \A token : TokenSum(tx, Typed(tx, OutputsOf(tx, u), token)) \in Nat
      BY <1>3, CapacityIsNat, TokenSumIsNat DEF Request, OutputsOf, Typed
    <3>10. wallets'[u].ckb - wallets[u].ckb = Capacity(tx, OutputsOf(tx, u))
      BY <3>7, <3>8, <3>9
    <3>11. \A token \in Tokens :
             wallets'[u].tok[token] - wallets[u].tok[token] = TokenSum(tx, Typed(tx, OutputsOf(tx, u), token))
      BY <3>7, <3>8, <3>9
    <3>12. orders[b].args.amount \in Nat
      BY <1>3, <3>2, <3>4, LiveOrders
    <3>13. \A token \in Tokens :
             TokenSum(tx, Typed(tx, OutputsOf(tx, u), token)) >= TokensDue(Terms(BUY, u), token)
      BY <3>5, <3>6, <3>9, <3>12
    <3> QED
      BY <3>5, <3>6, <3>10, <3>11, <3>13
  <2> QED
    BY <2>3, <2>4, <2>5 DEF AloneOrInPair
<1>4. LedgerTyped /\ [Next]_vars => [Step]_vars
  <2> SUFFICES ASSUME LedgerTyped, Next PROVE Step
    BY DEF vars
  <2>1. CASE \E u \in Users, id \in Ids, cell \in NewOrders : CreateOrder(u, id, cell)
    BY <1>1, <1>2, <2>1
  <2>2. CASE \E spends \in SUBSET Ids, signers \in SUBSET Users, outputs \in OutputLists :
               Spend([spends |-> spends, signers |-> signers, outputs |-> outputs])
    <3>1. PICK tx : Request(tx) /\ Spend(tx)
      BY <2>2, CellConstants DEF Request, Written
    <3> QED
      BY <1>3, <3>1
  <2> QED
    BY <2>1, <2>2 DEF Next
<1>5. [Step]_vars => [\A u \in Users \ signed' :
         LET bought == Terms(BUY, u)
             sold   == Terms(SELL, u)
         IN  bought \cup sold # {} =>
                /\ wallets'[u].ckb - wallets[u].ckb >= DueToBuyers(bought) + DueToSellers(sold)
                /\ \A token \in Tokens :
                     wallets'[u].tok[token] - wallets[u].tok[token] >= TokensDue(bought, token)]_vars
  OBVIOUS
<1> QED
  BY <1>4, <1>5, LedgerTypedInit, LedgerTypedNext, PTL DEF Spec, MakersGetTheirTerms

---------------------------------------------------------------------------
(* Settlers gain the fee at most                                           *)

LEMMA CkbGainIsSum ==
    ASSUME NEW us, IsFiniteSet(us)
    PROVE  CkbGain(us) = SumOn([u \in us |-> wallets'[u].ckb - wallets[u].ckb], us)
<1> DEFINE f == [u \in us |-> wallets'[u].ckb - wallets[u].ckb]
           Sums(it) == it = [s \in SUBSET us |->
                               IF s = {} THEN 0
                               ELSE LET x == CHOOSE y \in s : TRUE
                                    IN  (wallets'[x].ckb - wallets[x].ckb) + it[s \ {x}]]
<1>1. CkbGain(us) = (CHOOSE it : Sums(it))[us]
  BY DEF CkbGain, MapThenSumSet, MapThenFoldSet
<1>2. ASSUME NEW it PROVE Sums(it) <=> SumsOn(f, us, it)
  BY DEF SumsOn
<1> HIDE DEF f, Sums
<1>3. SumsOn(f, us, CHOOSE it : Sums(it))
  <2>1. \E it : Sums(it)
    BY <1>2, SumsOnExist
  <2>2. Sums(CHOOSE it : Sums(it))
    BY <2>1
  <2> QED
    BY <1>2, <2>2
<1>4. CkbGain(us) = SumOn(f, us)
  BY <1>1, <1>3, SumOnIs
<1> QED
  BY <1>4 DEF f

LEMMA TokenGainIsSum ==
    ASSUME NEW us, IsFiniteSet(us), NEW token
    PROVE  TokenGain(us, token) = SumOn([u \in us |-> wallets'[u].tok[token] - wallets[u].tok[token]], us)
<1> DEFINE f == [u \in us |-> wallets'[u].tok[token] - wallets[u].tok[token]]
           Sums(it) == it = [s \in SUBSET us |->
                               IF s = {} THEN 0
                               ELSE LET x == CHOOSE y \in s : TRUE
                                    IN  (wallets'[x].tok[token] - wallets[x].tok[token]) + it[s \ {x}]]
<1>1. TokenGain(us, token) = (CHOOSE it : Sums(it))[us]
  BY DEF TokenGain, MapThenSumSet, MapThenFoldSet
<1>2. ASSUME NEW it PROVE Sums(it) <=> SumsOn(f, us, it)
  BY DEF SumsOn
<1> HIDE DEF f, Sums
<1>3. SumsOn(f, us, CHOOSE it : Sums(it))
  <2>1. \E it : Sums(it)
    BY <1>2, SumsOnExist
  <2>2. Sums(CHOOSE it : Sums(it))
    BY <2>1
  <2> QED
    BY <1>2, <2>2
<1>4. TokenGain(us, token) = SumOn(f, us)
  BY <1>1, <1>3, SumOnIs
<1> QED
  BY <1>4 DEF f

\* Each of us gains what the outputs locked to it hold, less what it put in.
Gains(gain, us, amount, is, lock, held, signers) ==
    \A u \in us : /\ held[u] \in Int
                  /\ gain[u] = SumOn(amount, {i \in is : lock[i] = u})
                               - IF u \in signers THEN held[u] ELSE 0

\* What a group of users that holds every signer gains together.
LEMMA GainOfGroup ==
    ASSUME NEW is, IsFiniteSet(is), NEW amount, \A i \in is : amount[i] \in Int, NEW lock,
           NEW us, IsFiniteSet(us), NEW signers \in SUBSET us, NEW held, NEW gain,
           Gains(gain, us, amount, is, lock, held, signers)
    PROVE  SumOn(gain, us) = SumOn(amount, {i \in is : lock[i] \in us}) - SumOn(held, signers)
<1> USE DEF Gains
<1> DEFINE given == [u \in us |-> SumOn(amount, {i \in is : lock[i] = u})]
           put == [u \in us |-> IF u \in signers THEN held[u] ELSE 0]
<1>1. ASSUME NEW u \in us
      PROVE  /\ given[u] = SumOn(amount, {i \in is : lock[i] = u}) /\ given[u] \in Int
             /\ put[u] \in Int /\ gain[u] = given[u] - put[u]
  <2>1. {i \in is : lock[i] = u} \in SUBSET is
    OBVIOUS
  <2>2. SumOn(amount, {i \in is : lock[i] = u}) \in Int
    BY <2>1, FS_Subset, SumOnInt
  <2> QED
    BY <2>2
<1>2. (\A u \in signers : put[u] = held[u] /\ put[u] \in Int) /\ (\A u \in us \ signers : put[u] = 0)
  OBVIOUS
<1> HIDE DEF given, put
<1>3. SumOn(gain, us) = SumOn(given, us) - SumOn(put, us)
  <2>1. \A u \in us : given[u] \in Int /\ put[u] \in Int /\ gain[u] = given[u] - put[u]
    BY <1>1
  <2> QED
    BY <2>1, SumOnMinus
<1>4. SumOn(given, us) = SumOn(amount, {i \in is : lock[i] \in us})
  BY <1>1, SumOnFibres
<1>5. SumOn(put, us) = SumOn(put, signers)
  BY <1>1, <1>2, SumOnSupport
<1>6. SumOn(put, signers) = SumOn(held, signers)
  BY <1>2, FS_Subset, SumOnAgrees
<1> QED
  BY <1>3, <1>4, <1>5, <1>6

LEMMA TokenSumOfParts ==
    ASSUME NEW tx, Written(tx), NEW is \in SUBSET DOMAIN tx.outputs,
           NEW js \in SUBSET is, NEW ks \in SUBSET is, js \cap ks = {}
    PROVE  /\ TokenSum(tx, is) \in Nat /\ TokenSum(tx, js) \in Nat /\ TokenSum(tx, ks) \in Nat
           /\ TokenSum(tx, js) + TokenSum(tx, ks) <= TokenSum(tx, is)
<1> DEFINE f == [i \in DOMAIN tx.outputs |-> Amount(tx.outputs[i].data)]
<1>1. \A i \in DOMAIN tx.outputs : f[i] \in Nat
  BY OutputsAreFinite, AmountIsNat DEF OutputCells
<1>2. \A s \in SUBSET DOMAIN tx.outputs : IsFiniteSet(s)
  BY OutputsAreFinite
<1>3. /\ TokenSum(tx, is) = SumOn(f, is) /\ TokenSum(tx, js) = SumOn(f, js)
      /\ TokenSum(tx, ks) = SumOn(f, ks)
  BY <1>2, TokenSumIsSum
<1> HIDE DEF f
<1>4. SumOn(f, is) = SumOn(f, js) + SumOn(f, is \ js)
  BY <1>1, <1>2, SumOnParts
<1>5. SumOn(f, ks) <= SumOn(f, is \ js)
  <2>1. ks \in SUBSET (is \ js) /\ IsFiniteSet(is \ js) /\ \A i \in is \ js : f[i] \in Nat
    BY <1>1, <1>2
  <2> QED
    BY <2>1, SumOnGrows
<1>6. \A s \in SUBSET is : SumOn(f, s) \in Nat
  BY <1>1, <1>2, SumOnNat
<1>7. SumOn(f, is) \in Nat /\ SumOn(f, js) \in Nat /\ SumOn(f, ks) \in Nat /\ SumOn(f, is \ js) \in Nat
  BY <1>6
<1> QED
  BY <1>3, <1>4, <1>5, <1>7

\* The outputs locked to any of us.
OutputsOfAll(tx, us) == {i \in DOMAIN tx.outputs : tx.outputs[i].lock \in us}

LEMMA GroupsShareOutputs ==
    ASSUME NEW tx, Written(tx), NEW us, NEW vs, us \cap vs = {}
    PROVE  /\ OutputsOfAll(tx, us) \in SUBSET DOMAIN tx.outputs
           /\ OutputsOfAll(tx, vs) \in SUBSET DOMAIN tx.outputs
           /\ OutputsOfAll(tx, us) \cap OutputsOfAll(tx, vs) = {}
BY DEF OutputsOfAll

\* What a transaction's step gives to a group that holds every signer.
LEMMA WalletsAfter ==
    ASSUME NEW tx, Spend(tx), NEW u \in Users
    PROVE  /\ wallets'[u].ckb = (IF u \in tx.signers THEN 0 ELSE wallets[u].ckb)
                                + Capacity(tx, OutputsOf(tx, u))
           /\ \A token \in Tokens : wallets'[u].tok[token] =
                (IF u \in tx.signers THEN 0 ELSE wallets[u].tok[token])
                + TokenSum(tx, Typed(tx, OutputsOf(tx, u), token))
BY DEF Spend, WalletAfter

LEMMA GroupGains ==
    ASSUME LedgerTyped, NEW tx, Request(tx), Spend(tx),
           NEW us \in SUBSET Users, tx.signers \subseteq us
    PROVE  /\ CkbGain(us) = Capacity(tx, OutputsOfAll(tx, us))
                            - SumOn([u \in tx.signers |-> wallets[u].ckb], tx.signers)
           /\ \A token \in Tokens :
                TokenGain(us, token) =
                  TokenSum(tx, Typed(tx, OutputsOfAll(tx, us), token))
                  - SumOn([u \in tx.signers |-> wallets[u].tok[token]], tx.signers)
<1> DEFINE all == DOMAIN tx.outputs
           lock == [i \in all |-> tx.outputs[i].lock]
<1>1. IsFiniteSet(us) /\ IsFiniteSet(tx.signers) /\ tx.signers \in SUBSET us
  BY CellConstants, FS_Subset
<1>2. IsFiniteSet(all) /\ \A is \in SUBSET all : IsFiniteSet(is)
  BY OutputsAreFinite DEF Request
<1>3. ASSUME NEW u \in us
      PROVE  /\ wallets[u].ckb \in Nat
             /\ \A token \in Tokens : wallets[u].tok[token] \in Nat
  BY DEF LedgerTyped, Wallets
<1>4. CkbGain(us) = Capacity(tx, OutputsOfAll(tx, us))
                    - SumOn([u \in tx.signers |-> wallets[u].ckb], tx.signers)
  <2> DEFINE cap == [i \in all |-> tx.outputs[i].capacity]
             ckb == [u \in us |-> wallets[u].ckb]
             put == [u \in tx.signers |-> wallets[u].ckb]
             gain == [u \in us |-> wallets'[u].ckb - wallets[u].ckb]
  <2>1. \A i \in all : cap[i] \in Int
    BY OutputsAreFinite, LockConstants DEF Request, OutputCells
  <2>2. ASSUME NEW u \in us
        PROVE  gain[u] = SumOn(cap, {i \in all : lock[i] = u})
                         - IF u \in tx.signers THEN ckb[u] ELSE 0
    <3> DEFINE own == OutputsOf(tx, u)
    <3>1. own = {i \in all : lock[i] = u} /\ own \in SUBSET all
      BY DEF OutputsOf
    <3>2. Capacity(tx, own) = SumOn(cap, own)
      BY <1>2, <3>1, CapacityIsSum
    <3>3. Capacity(tx, own) \in Nat
      BY <3>1, CapacityIsNat DEF Request
    <3>4. wallets'[u].ckb = (IF u \in tx.signers THEN 0 ELSE wallets[u].ckb) + Capacity(tx, own)
      BY WalletsAfter
    <3>5. gain[u] = wallets'[u].ckb - wallets[u].ckb /\ ckb[u] = wallets[u].ckb /\ ckb[u] \in Nat
      BY <1>3
    <3>6. gain[u] = Capacity(tx, own) - IF u \in tx.signers THEN ckb[u] ELSE 0
      <4> HIDE DEF own, gain, ckb
      <4> QED
        BY <3>3, <3>4, <3>5
    <3> HIDE DEF own, gain, ckb, cap, lock
    <3> QED
      BY <3>1, <3>2, <3>6
  <2>3. \A u \in us : ckb[u] \in Int
    BY <1>3
  <2>4. /\ \A u \in tx.signers : ckb[u] = put[u]
        /\ {i \in all : lock[i] \in us} = OutputsOfAll(tx, us)
        /\ OutputsOfAll(tx, us) \in SUBSET all
    BY <1>1 DEF OutputsOfAll
  <2>5. CkbGain(us) = SumOn(gain, us)
    BY <1>1, CkbGainIsSum
  <2>6. Capacity(tx, OutputsOfAll(tx, us)) = SumOn(cap, OutputsOfAll(tx, us))
    BY <1>2, <2>4, CapacityIsSum
  <2> HIDE DEF all, lock, cap, ckb, put, gain
  <2>7. SumOn(gain, us) = SumOn(cap, {i \in all : lock[i] \in us}) - SumOn(ckb, tx.signers)
    <3>1. Gains(gain, us, cap, all, lock, ckb, tx.signers)
      BY <2>2, <2>3 DEF Gains
    <3> QED
      BY <1>1, <1>2, <2>1, <3>1, GainOfGroup
  <2>8. SumOn(ckb, tx.signers) = SumOn(put, tx.signers)
    BY <1>1, <2>4, SumOnAgrees
  <2>9. CkbGain(us) = Capacity(tx, OutputsOfAll(tx, us)) - SumOn(put, tx.signers)
    BY <2>4, <2>5, <2>6, <2>7, <2>8
  <2> QED
    BY <2>9 DEF put
<1>5. ASSUME NEW token \in Tokens
      PROVE  TokenGain(us, token) =
                TokenSum(tx, Typed(tx, OutputsOfAll(tx, us), token))
                - SumOn([u \in tx.signers |-> wallets[u].tok[token]], tx.signers)
  <2> DEFINE is == Typed(tx, all, token)
             amount == [i \in all |-> Amount(tx.outputs[i].data)]
             tok == [u \in us |-> wallets[u].tok[token]]
             put == [u \in tx.signers |-> wallets[u].tok[token]]
             gain == [u \in us |-> wallets'[u].tok[token] - wallets[u].tok[token]]
  <2>1. is \in SUBSET all /\ IsFiniteSet(is) /\ \A i \in is : amount[i] \in Int
    BY <1>2, OutputsAreFinite, AmountIsNat DEF Request, OutputCells, Typed
  <2>2. ASSUME NEW u \in us
        PROVE  gain[u] = SumOn(amount, {i \in is : lock[i] = u})
                         - IF u \in tx.signers THEN tok[u] ELSE 0
    <3> DEFINE own == Typed(tx, OutputsOf(tx, u), token)
    <3>1. own = {i \in is : lock[i] = u} /\ own \in SUBSET all
      BY DEF OutputsOf, Typed
    <3>2. TokenSum(tx, own) = SumOn(amount, own)
      BY <1>2, <3>1, TokenSumIsSum
    <3>3. TokenSum(tx, own) \in Nat
      BY <3>1, TokenSumIsNat DEF Request
    <3>4. wallets'[u].tok[token] =
            (IF u \in tx.signers THEN 0 ELSE wallets[u].tok[token]) + TokenSum(tx, own)
      BY WalletsAfter
    <3>5. /\ gain[u] = wallets'[u].tok[token] - wallets[u].tok[token]
          /\ tok[u] = wallets[u].tok[token] /\ tok[u] \in Nat
      BY <1>3
    <3>6. gain[u] = TokenSum(tx, own) - IF u \in tx.signers THEN tok[u] ELSE 0
      <4> HIDE DEF own, gain, tok
      <4> QED
        BY <3>3, <3>4, <3>5
    <3> HIDE DEF own, gain, tok, amount, is, lock
    <3> QED
      BY <3>1, <3>2, <3>6
  <2>3. \A u \in us : tok[u] \in Int
    BY <1>3
  <2>4. /\ \A u \in tx.signers : tok[u] = put[u]
        /\ {i \in is : lock[i] \in us} = Typed(tx, OutputsOfAll(tx, us), token)
        /\ Typed(tx, OutputsOfAll(tx, us), token) \in SUBSET all
    BY <1>1 DEF OutputsOfAll, Typed
  <2>5. TokenGain(us, token) = SumOn(gain, us)
    BY <1>1, TokenGainIsSum
  <2>6. TokenSum(tx, Typed(tx, OutputsOfAll(tx, us), token))
          = SumOn(amount, Typed(tx, OutputsOfAll(tx, us), token))
    BY <1>2, <2>4, TokenSumIsSum
  <2> HIDE DEF all, lock, is, amount, tok, put, gain
  <2>7. SumOn(gain, us) = SumOn(amount, {i \in is : lock[i] \in us}) - SumOn(tok, tx.signers)
    <3>1. Gains(gain, us, amount, is, lock, tok, tx.signers)
      BY <2>2, <2>3 DEF Gains
    <3> QED
      BY <1>1, <2>1, <3>1, GainOfGroup
  <2>8. SumOn(tok, tx.signers) = SumOn(put, tx.signers)
    BY <1>1, <2>4, SumOnAgrees
  <2>9. TokenGain(us, token) =
          TokenSum(tx, Typed(tx, OutputsOfAll(tx, us), token)) - SumOn(put, tx.signers)
    BY <2>4, <2>5, <2>6, <2>7, <2>8
  <2> QED
    BY <2>9 DEF put
<1> QED
  BY <1>4, <1>5

\* What a settlement's outputs give to all but its makers, less what the
\* signers put in.
LeavesTheFee(tx, makers) ==
    /\ Capacity(tx, OutputsOfAll(tx, Users \ makers))
         - SumOn([u \in tx.signers |-> wallets[u].ckb], tx.signers) <= MAX_SETTLEMENT_FEE
    /\ \A token \in Tokens :
         TokenSum(tx, Typed(tx, OutputsOfAll(tx, Users \ makers), token))
         - SumOn([u \in tx.signers |-> wallets[u].tok[token]], tx.signers) <= 0

\* In a settlement the outputs of the makers hold what their terms say, and the
\* transaction has no more than the two orders and the signers' wallets to give.
LEMMA NothingIsLeftOver ==
    ASSUME LedgerTyped, NEW tx, Request(tx), Accepted(tx),
           NEW b \in Ids, NEW s \in Ids, tx.spends = {b, s},
           orders[b].args.side = BUY, orders[s].args.side = SELL,
           MatchingTerms(orders[b].args, orders[s].args),
           {orders[b].args.maker, orders[s].args.maker} \cap tx.signers = {}
    PROVE  LeavesTheFee(tx, {orders[b].args.maker, orders[s].args.maker})
<1> DEFINE makers == {orders[b].args.maker, orders[s].args.maker}
           buyer == orders[b].args.maker
           seller == orders[s].args.maker
           xudt == orders[b].args.xudt
           received == Typed(tx, OutputsOf(tx, buyer), xudt)
           paid == Typed(tx, OutputsOf(tx, seller), NoType)
           theirs == OutputsOfAll(tx, makers)
           rest == OutputsOfAll(tx, Users \ makers)
           all == DOMAIN tx.outputs
<1>1. /\ Live(b) /\ Live(s) /\ Parses(orders[b].args) /\ Parses(orders[s].args)
      /\ ValidBuyOrder(tx, orders[b]) /\ ValidSellOrder(tx, orders[s])
  BY EachRunChecksItsMaker
<1>2. /\ orders[b].capacity \in Nat /\ orders[b].args.price \in Nat /\ xudt \in Tokens
      /\ orders[b].args.amount \in Nat
      /\ orders[s].capacity \in Nat /\ orders[s].args.price \in Nat /\ orders[s].args.amount \in Nat
  BY <1>1, LiveOrders
<1>3. /\ orders[s].args.price = orders[b].args.price /\ orders[s].args.amount = orders[b].args.amount
      /\ orders[s].args.xudt = xudt
  BY DEF MatchingTerms
<1>4. b # s /\ Balanced(tx) /\ Written(tx)
  BY DEF BUY, SELL, Accepted, Request
<1>5. IsFiniteSet(tx.spends) /\ IsFiniteSet(tx.signers)
  <2>1. IsFiniteSet(Users) /\ tx.signers \in SUBSET Users /\ IsFiniteSet({b, s})
    BY CellConstants, FinitePair DEF Request
  <2> QED
    BY <2>1, FS_Subset
<1>6. /\ theirs \in SUBSET all /\ rest \in SUBSET all /\ theirs \cap rest = {}
      /\ received \in SUBSET theirs /\ paid \in SUBSET theirs /\ received \cap paid = {}
  BY <1>2, LockConstants DEF OutputsOfAll, OutputsOf, Typed
<1>7. \A u \in tx.signers : /\ wallets[u].ckb \in Nat
                            /\ \A token \in Tokens : wallets[u].tok[token] \in Nat
  BY DEF LedgerTyped, Wallets, Request
<1>8. Capacity(tx, rest) - SumOn([u \in tx.signers |-> wallets[u].ckb], tx.signers) <= MAX_SETTLEMENT_FEE
  <2> DEFINE f == [id \in tx.spends |-> orders[id].capacity]
             g == [u \in tx.signers |-> wallets[u].ckb]
  <2>1. /\ Capacity(tx, received) >= orders[b].capacity - orders[b].args.price - MAX_SETTLEMENT_FEE
        /\ Capacity(tx, paid) >= orders[s].capacity + orders[s].args.price
    <3>1. /\ orders[b].capacity - (orders[b].args.price + Capacity(tx, received)) <= MAX_SETTLEMENT_FEE
          /\ Capacity(tx, paid) >= orders[s].capacity + orders[s].args.price
      BY <1>1 DEF ValidBuyOrder, ValidSellOrder
    <3>2. Capacity(tx, received) \in Nat
      BY <1>4, <1>6, CapacityIsNat
    <3> HIDE DEF received, paid
    <3> QED
      BY <1>2, <3>1, <3>2, LockConstants
  <2>2. CkbIn(tx) = SumOn(f, {b, s}) + SumOn(g, tx.signers)
    BY ONLY <1>5, CkbInIsSum, tx.spends = {b, s}
  <2>3. f[b] = orders[b].capacity /\ f[s] = orders[s].capacity /\ f[b] \in Int /\ f[s] \in Int
    BY <1>2
  <2>4. \A u \in tx.signers : g[u] \in Int
    BY <1>7
  <2>5. Capacity(tx, all) <= CkbIn(tx)
    BY <1>4 DEF Balanced
  <2> HIDE DEF f, g, theirs, rest, received, paid
  <2>6. SumOn(f, {b, s}) = f[b] + f[s]
    BY <1>4, <2>3, SumOnPair
  <2>7. SumOn(g, tx.signers) \in Int
    BY <1>5, <2>4, SumOnInt
  <2>8. /\ Capacity(tx, all) \in Nat /\ Capacity(tx, theirs) \in Nat /\ Capacity(tx, rest) \in Nat
        /\ Capacity(tx, theirs) + Capacity(tx, rest) <= Capacity(tx, all)
    BY <1>4, <1>6, CapacityOfParts
  <2>9. /\ Capacity(tx, received) \in Nat /\ Capacity(tx, paid) \in Nat
        /\ Capacity(tx, received) + Capacity(tx, paid) <= Capacity(tx, theirs)
    BY <1>4, <1>6, CapacityOfParts
  <2>10. Capacity(tx, rest) - SumOn(g, tx.signers) <= MAX_SETTLEMENT_FEE
    BY <1>2, <1>3, <2>1, <2>2, <2>3, <2>5, <2>6, <2>7, <2>8, <2>9, LockConstants
  <2> QED
    BY <2>10 DEF g
<1>9. ASSUME NEW token \in Tokens
      PROVE  TokenSum(tx, Typed(tx, rest, token))
             - SumOn([u \in tx.signers |-> wallets[u].tok[token]], tx.signers) <= 0
  <2> DEFINE f == [id \in tx.spends |-> Amount(orders[id].data)]
             g == [u \in tx.signers |-> wallets[u].tok[token]]
             held == {id \in tx.spends : orders[id].type = token}
             due == IF token = xudt THEN orders[b].args.amount ELSE 0
  <2>1. TokensIn(tx, token) = SumOn(f, held) + SumOn(g, tx.signers)
    BY ONLY <1>5, TokensInIsSum
  <2>2. /\ orders[b].type = NoType /\ orders[s].type = xudt
        /\ orders[s].data # Short /\ orders[s].data = orders[b].args.amount
        /\ TokenSum(tx, received) = orders[b].args.amount
    BY <1>1, <1>3 DEF ValidBuyOrder, ValidSellOrder
  <2>3. f[s] = orders[b].args.amount /\ f[s] \in Int
    BY <1>2, <2>2 DEF Amount
  <2>4. held = IF token = xudt THEN {s} ELSE {}
    BY <1>2, <2>2, LockConstants
  <2>5. \A u \in tx.signers : g[u] \in Int
    BY <1>7
  <2>6. TokenSum(tx, Typed(tx, all, token)) <= TokensIn(tx, token)
    BY <1>4 DEF Balanced
  <2>7. /\ Typed(tx, all, token) \in SUBSET all
        /\ Typed(tx, theirs, token) \in SUBSET Typed(tx, all, token)
        /\ Typed(tx, rest, token) \in SUBSET Typed(tx, all, token)
        /\ Typed(tx, theirs, token) \cap Typed(tx, rest, token) = {}
        /\ token = xudt => received \in SUBSET Typed(tx, theirs, token)
    BY <1>6 DEF Typed
  <2> HIDE DEF f, g, held, theirs, rest, received, all
  <2>8. SumOn(f, held) = due
    <3>1. SumOn(f, {s}) = f[s] /\ SumOn(f, {}) = 0
      BY <2>3, SumOnSingle, SumOnEmpty
    <3> QED
      BY <2>3, <2>4, <3>1
  <2>9. SumOn(g, tx.signers) \in Int
    BY <1>5, <2>5, SumOnInt
  <2>10. /\ TokenSum(tx, Typed(tx, all, token)) \in Nat /\ TokenSum(tx, Typed(tx, theirs, token)) \in Nat
         /\ TokenSum(tx, Typed(tx, rest, token)) \in Nat
         /\ TokenSum(tx, Typed(tx, theirs, token)) + TokenSum(tx, Typed(tx, rest, token))
              <= TokenSum(tx, Typed(tx, all, token))
    BY <1>4, <2>7, TokenSumOfParts DEF all
  <2>11. TokenSum(tx, Typed(tx, theirs, token)) >= due
    <3>1. ASSUME token = xudt
          PROVE  TokenSum(tx, received) <= TokenSum(tx, Typed(tx, theirs, token))
      <4> DEFINE is == Typed(tx, theirs, token)
      <4>1. /\ is \in SUBSET DOMAIN tx.outputs /\ received \in SUBSET is
            /\ {} \in SUBSET is /\ received \cap {} = {}
        BY <2>7, <3>1 DEF all
      <4> HIDE DEF is
      <4>2. /\ TokenSum(tx, is) \in Nat /\ TokenSum(tx, received) \in Nat /\ TokenSum(tx, {}) \in Nat
            /\ TokenSum(tx, received) + TokenSum(tx, {}) <= TokenSum(tx, is)
        BY <1>4, <4>1, TokenSumOfParts
      <4>3. TokenSum(tx, received) <= TokenSum(tx, is)
        BY <4>2
      <4> QED
        BY <4>3 DEF is
    <3> QED
      BY <2>2, <2>10, <3>1
  <2>12. TokenSum(tx, Typed(tx, rest, token)) - SumOn(g, tx.signers) <= 0
    <3>1. due \in Nat
      BY <1>2
    <3> HIDE DEF due
    <3> QED
      BY <2>1, <2>6, <2>8, <2>9, <2>10, <2>11, <3>1
  <2> QED
    BY <2>12 DEF g
<1> QED
  BY <1>8, <1>9 DEF LeavesTheFee

\* SettlersGainAtMostTheFee for every set of users, orders, terms and widths.
\* Each run sees its own maker's outputs only; the consensus balance closes the
\* gap between the two.
THEOREM SettlersNeverGainMore == Spec => SettlersGainAtMostTheFee
<1> DEFINE Bounded(makers) ==
      (Spent # {} /\ makers \cap signed' = {}) =>
        /\ CkbGain(Users \ makers) <= MAX_SETTLEMENT_FEE
        /\ \A token \in Tokens : TokenGain(Users \ makers, token) <= 0
           Step == Bounded({orders[id].args.maker : id \in Spent})
<1>1. ASSUME LedgerTyped, NEW u \in Users, NEW id \in Ids, NEW cell \in NewOrders,
             CreateOrder(u, id, cell)
      PROVE  Spent = {}
  <2>1. ~Live(id) /\ orders' = [orders EXCEPT ![id] = cell]
    BY <1>1 DEF CreateOrder
  <2>2. \A other \in Ids : other # id => orders'[other] = orders[other]
    BY <1>1, <2>1
  <2> QED
    BY <2>1, <2>2 DEF Spent, Live
<1>2. ASSUME LedgerTyped, NEW tx, Request(tx), Spend(tx) PROVE Step
  <2> DEFINE makers == {orders[id].args.maker : id \in Spent}
  <2> SUFFICES ASSUME makers \cap signed' = {}
               PROVE  /\ CkbGain(Users \ makers) <= MAX_SETTLEMENT_FEE
                      /\ \A token \in Tokens : TokenGain(Users \ makers, token) <= 0
    OBVIOUS
  <2>1. Accepted(tx) /\ signed' = tx.signers /\ \A id \in tx.spends : Live(id)
    BY <1>2 DEF Spend, Accepted
  <2>2. Spent = tx.spends
    BY <1>2, <2>1 DEF Spend, Spent, Live, Request
  <2>3. AloneOrInPair(tx)
    BY <1>2, <2>1, AcceptedShape DEF Spend, Request
  <2>4. PICK b \in tx.spends, s \in tx.spends :
               /\ tx.spends = {b, s}
               /\ orders[b].args.side = BUY /\ orders[s].args.side = SELL
               /\ MatchingTerms(orders[b].args, orders[s].args)
    BY <2>1, <2>2, <2>3 DEF AloneOrInPair
  <2>5. makers = {orders[b].args.maker, orders[s].args.maker} /\ makers \cap tx.signers = {}
    BY <2>1, <2>2, <2>4
  <2>6. b \in Ids /\ s \in Ids
    BY <1>2 DEF Request
  <2>7. Users \ makers \in SUBSET Users /\ tx.signers \subseteq Users \ makers
    BY <1>2, <2>5 DEF Request
  <2> HIDE DEF makers
  <2>8. LeavesTheFee(tx, makers)
    <3>1. LeavesTheFee(tx, {orders[b].args.maker, orders[s].args.maker})
      BY <1>2, <2>1, <2>4, <2>5, <2>6, NothingIsLeftOver
    <3> QED
      BY <2>5, <3>1
  <2>9. /\ CkbGain(Users \ makers) = Capacity(tx, OutputsOfAll(tx, Users \ makers))
             - SumOn([u \in tx.signers |-> wallets[u].ckb], tx.signers)
        /\ \A token \in Tokens : TokenGain(Users \ makers, token) =
             TokenSum(tx, Typed(tx, OutputsOfAll(tx, Users \ makers), token))
             - SumOn([u \in tx.signers |-> wallets[u].tok[token]], tx.signers)
    BY <1>2, <2>7, GroupGains
  <2> QED
    BY <2>8, <2>9 DEF LeavesTheFee
<1>3. LedgerTyped /\ [Next]_vars => [Step]_vars
  <2> SUFFICES ASSUME LedgerTyped, Next PROVE Step
    BY DEF vars
  <2>1. CASE \E u \in Users, id \in Ids, cell \in NewOrders : CreateOrder(u, id, cell)
    BY <1>1, <2>1
  <2>2. CASE \E spends \in SUBSET Ids, signers \in SUBSET Users, outputs \in OutputLists :
               Spend([spends |-> spends, signers |-> signers, outputs |-> outputs])
    <3>1. PICK tx : Request(tx) /\ Spend(tx)
      BY <2>2, CellConstants DEF Request, Written
    <3> HIDE DEF Step
    <3> QED
      BY <1>2, <3>1
  <2> QED
    BY <2>1, <2>2 DEF Next
<1>4. [Step]_vars =>
        [LET makers == {orders[id].args.maker : id \in Spent}
             others == Users \ makers
         IN  (Spent # {} /\ makers \cap signed' = {}) =>
               /\ CkbGain(others) <= MAX_SETTLEMENT_FEE
               /\ \A token \in Tokens : TokenGain(others, token) <= 0]_vars
  OBVIOUS
<1> QED
  BY <1>3, <1>4, LedgerTypedInit, LedgerTypedNext, PTL DEF Spec, SettlersGainAtMostTheFee


---------------------------------------------------------------------------
(* What is built is accepted                                               *)

\* A transaction of the maker's own, whose only output gives back what the
\* order cell holds, is accepted whatever the cell holds.
LEMMA RefundIsAccepted ==
    ASSUME LedgerTyped, NEW id \in Ids, Live(id), Parses(orders[id].args),
           wallets[orders[id].args.maker].ckb > 0, NEW tx,
           tx.spends = {id}, tx.signers = {orders[id].args.maker},
           DOMAIN tx.outputs = {1},
           tx.outputs[1].lock = orders[id].args.maker, tx.outputs[1].type = orders[id].type,
           tx.outputs[1].data = orders[id].data, tx.outputs[1].capacity = orders[id].capacity
    PROVE  Accepted(tx)
<1> DEFINE maker == orders[id].args.maker
<1>1. /\ orders[id].capacity \in Nat /\ Amount(orders[id].data) \in Nat
      /\ maker \in Users
  BY LiveOrders
<1>2. wallets[maker].ckb \in Nat /\ \A token \in Tokens : wallets[maker].tok[token] \in Nat
  BY <1>1 DEF LedgerTyped, Wallets
<1>3. ProgramEntry(tx, id)
  <2>1. Cardinality(tx.spends) = 1
    BY FS_Singleton
  <2>2. ValidCancellation(tx, orders[id])
    <3>1. 1 \in OutputsOf(tx, maker)
      BY DEF OutputsOf
    <3> QED
      BY <1>1, <3>1 DEF ValidCancellation
  <2> QED
    BY <2>1, <2>2 DEF ProgramEntry
<1>4. Capacity(tx, {1}) = orders[id].capacity /\ TokenSum(tx, {1}) = Amount(orders[id].data)
  <2>1. /\ 1 \in DOMAIN tx.outputs
        /\ tx.outputs[1].capacity \in Int /\ Amount(tx.outputs[1].data) \in Int
    BY <1>1
  <2>2. /\ Capacity(tx, {1}) = tx.outputs[1].capacity
        /\ TokenSum(tx, {1}) = Amount(tx.outputs[1].data)
    BY <2>1, OneHeld
  <2> QED
    BY <2>2
<1>5. IsFiniteSet(tx.spends) /\ IsFiniteSet(tx.signers)
  <2>1. \A x : IsFiniteSet({x})
    BY FS_Singleton
  <2> QED
    BY <2>1
<1>6. CkbIn(tx) = orders[id].capacity + wallets[maker].ckb
  <2> DEFINE f == [o \in tx.spends |-> orders[o].capacity]
             g == [u \in tx.signers |-> wallets[u].ckb]
  <2>1. CkbIn(tx) = SumOn(f, {id}) + SumOn(g, {maker})
    BY ONLY <1>5, CkbInIsSum, tx.spends = {id}, tx.signers = {maker}
  <2>2. /\ f[id] = orders[id].capacity /\ g[maker] = wallets[maker].ckb
        /\ f[id] \in Int /\ g[maker] \in Int
    BY <1>1, <1>2
  <2> HIDE DEF f, g, maker
  <2>3. SumOn(f, {id}) = f[id]
    BY <2>2, SumOnSingle
  <2>4. SumOn(g, {maker}) = g[maker]
    BY <2>2, SumOnSingle
  <2> QED
    BY <2>1, <2>2, <2>3, <2>4
<1>7. ASSUME NEW token \in Tokens
      PROVE  TokenSum(tx, Typed(tx, DOMAIN tx.outputs, token)) <= TokensIn(tx, token)
  <2> DEFINE f == [o \in tx.spends |-> Amount(orders[o].data)]
             held == {o \in tx.spends : orders[o].type = token}
             g == [u \in tx.signers |-> wallets[u].tok[token]]
  <2>1. TokensIn(tx, token) = SumOn(f, held) + SumOn(g, {maker})
    BY ONLY <1>5, TokensInIsSum, tx.signers = {maker}
  <2>2. /\ f[id] = Amount(orders[id].data) /\ g[maker] = wallets[maker].tok[token]
        /\ f[id] \in Int /\ g[maker] \in Int
    BY <1>1, <1>2
  <2>3. held = IF orders[id].type = token THEN {id} ELSE {}
    OBVIOUS
  <2>4. Typed(tx, DOMAIN tx.outputs, token) = IF orders[id].type = token THEN {1} ELSE {}
    BY DEF Typed
  <2> HIDE DEF f, g, held, maker
  <2>5. SumOn(g, {maker}) = g[maker] /\ SumOn(f, {id}) = f[id] /\ SumOn(f, {}) = 0
    BY <2>2, SumOnSingle, SumOnEmpty
  <2>6. SumOn(f, held) = IF orders[id].type = token THEN Amount(orders[id].data) ELSE 0
    BY <2>2, <2>3, <2>5
  <2>7. TokenSum(tx, Typed(tx, DOMAIN tx.outputs, token)) = SumOn(f, held)
    BY <1>4, <2>4, <2>6, NothingHeld
  <2>8. SumOn(f, held) \in Nat /\ wallets[maker].tok[token] \in Nat
    BY <1>1, <1>2, <2>6
  <2> QED
    BY <2>1, <2>2, <2>5, <2>7, <2>8
<1>8. Balanced(tx)
  BY <1>1, <1>2, <1>4, <1>6, <1>7 DEF Balanced
<1> QED
  BY <1>3, <1>8 DEF Accepted

\* MakerCanAlwaysCancel for every ledger: whatever an order cell holds, its
\* maker can take it back.
THEOREM NoOrderIsStranded == Spec => []MakerCanAlwaysCancel
<1>1. LedgerTyped => MakerCanAlwaysCancel
  <2> SUFFICES ASSUME LedgerTyped, NEW id \in Ids, Live(id), Parses(orders[id].args),
                      wallets[orders[id].args.maker].ckb > 0
               PROVE  Accepted([spends |-> {id}, signers |-> {orders[id].args.maker},
                        outputs |-> <<[lock |-> orders[id].args.maker, type |-> orders[id].type,
                                       data |-> orders[id].data, capacity |-> orders[id].capacity]>>])
    BY DEF MakerCanAlwaysCancel
  <2> DEFINE refund == [lock |-> orders[id].args.maker, type |-> orders[id].type,
                        data |-> orders[id].data, capacity |-> orders[id].capacity]
             tx == [spends |-> {id}, signers |-> {orders[id].args.maker}, outputs |-> <<refund>>]
  <2>1. tx.spends = {id} /\ tx.signers = {orders[id].args.maker} /\ tx.outputs = <<refund>>
    OBVIOUS
  <2>2. DOMAIN tx.outputs = {1} /\ tx.outputs[1] = refund
    BY <2>1
  <2>3. /\ tx.outputs[1].lock = orders[id].args.maker /\ tx.outputs[1].type = orders[id].type
        /\ tx.outputs[1].data = orders[id].data /\ tx.outputs[1].capacity = orders[id].capacity
    BY <2>2
  <2> HIDE DEF refund, tx
  <2>4. Accepted(tx)
    BY <2>1, <2>2, <2>3, RefundIsAccepted
  <2> QED
    BY <2>4 DEF tx, refund
<1> QED
  BY <1>1, LedgerTypedInit, LedgerTypedNext, PTL DEF Spec

LEMMA CardinalityOfPair == \A a, b : a # b => Cardinality({a, b}) = 2
<1> SUFFICES ASSUME NEW a, NEW b, a # b PROVE Cardinality({a, b}) = 2
  OBVIOUS
<1>1. IsFiniteSet({a}) /\ Cardinality({a}) = 1
  BY FS_Singleton
<1>2. Cardinality({a} \cup {b}) = Cardinality({a}) + 1 /\ {a} \cup {b} = {a, b}
  BY <1>1, FS_AddElement
<1> QED
  BY <1>1, <1>2

\* Two matching orders that the indexer lets into the book settle at every fee
\* the allocation does not refuse.
LEMMA SettlementIsAccepted ==
    ASSUME LedgerTyped, NEW b \in Indexed, NEW s \in Indexed, NEW fee \in Nat, Settles(b, s, fee)
    PROVE  Accepted(Settlement(b, s, fee))
<1> DEFINE tx == Settlement(b, s, fee)
           kept == orders[b].capacity - orders[s].args.price - fee
           paid == orders[s].capacity + orders[s].args.price
           xudt == orders[s].args.xudt
<1>1. /\ b \in Ids /\ s \in Ids /\ Live(b) /\ Live(s) /\ Indexable(orders[b]) /\ Indexable(orders[s])
      /\ Parses(orders[b].args) /\ Parses(orders[s].args)
  BY DEF Indexed, Indexable
<1>2. /\ orders[b].args.side = BUY /\ orders[s].args.side = SELL /\ b # s
      /\ orders[b].args.xudt = xudt /\ orders[b].args.amount = orders[s].args.amount
      /\ orders[b].args.price = orders[s].args.price
  BY DEF Settles, Side, MatchingTerms, BUY, SELL
<1>3. /\ orders[b].capacity \in Nat /\ orders[s].capacity \in Nat /\ orders[s].args.price \in Nat
      /\ orders[s].args.amount \in Nat /\ xudt \in Tokens /\ xudt # NoType
      /\ orders[b].capacity <= MaxU64 /\ orders[s].args.amount <= MaxU128
  <2>1. orders[b] \in OrderCells /\ orders[s].args \in OrderArgs
    BY <1>1, LiveOrders
  <2> QED
    BY <1>1, <2>1, LiveOrders, LockConstants DEF OrderCells, OrderArgs
<1>4. /\ orders[b].type = NoType
      /\ orders[s].type = xudt /\ orders[s].data # Short /\ orders[s].data = orders[s].args.amount
  BY <1>1, <1>2 DEF Indexable
<1>5. /\ paid <= MaxU64 /\ paid \in Nat
      /\ fee <= MAX_SETTLEMENT_FEE /\ kept >= TokenCellCapacity /\ kept \in Nat
      /\ TokenCapacity(b, s, fee) = kept
  <2>1. paid <= MaxU64 /\ TokenCapacity(b, s, fee) # Refused
    BY DEF Settles, SellerPayment
  <2>2. fee <= MAX_SETTLEMENT_FEE /\ kept >= TokenCellCapacity /\ TokenCapacity(b, s, fee) = kept
    BY <1>3, <2>1, LockConstants, BuilderConstants DEF TokenCapacity, AllocateSettlementCapacity
  <2> QED
    BY <1>3, <2>1, <2>2, BuilderConstants
<1>6. /\ tx.spends = {b, s} /\ tx.signers = {} /\ DOMAIN tx.outputs = {1, 2}
      /\ tx.outputs[1] = [lock |-> orders[s].args.maker, type |-> NoType, data |-> Short, capacity |-> paid]
      /\ tx.outputs[2] = [lock |-> orders[b].args.maker, type |-> xudt,
                          data |-> orders[s].args.amount, capacity |-> kept]
  BY <1>4, <1>5 DEF Settlement, Maker, SellerPayment
<1> HIDE DEF tx, kept, paid, xudt
<1>7. /\ Capacity(tx, {1}) = paid /\ Capacity(tx, {2}) = kept
      /\ TokenSum(tx, {2}) = orders[s].args.amount
      /\ Capacity(tx, {1, 2}) = paid + kept
  <2>1. /\ tx.outputs[1].capacity = paid /\ Amount(tx.outputs[1].data) = 0
        /\ tx.outputs[2].capacity = kept /\ Amount(tx.outputs[2].data) = orders[s].args.amount
        /\ \A i \in {1, 2} : tx.outputs[i].capacity \in Int /\ Amount(tx.outputs[i].data) \in Int
    BY <1>3, <1>4, <1>5, <1>6 DEF Amount
  <2>2. 1 \in DOMAIN tx.outputs /\ 2 \in DOMAIN tx.outputs
    BY <1>6
  <2>3. \A i \in {1, 2} : /\ Capacity(tx, {i}) = tx.outputs[i].capacity
                          /\ TokenSum(tx, {i}) = Amount(tx.outputs[i].data)
    <3> SUFFICES ASSUME NEW i \in {1, 2}
                 PROVE  /\ Capacity(tx, {i}) = tx.outputs[i].capacity
                        /\ TokenSum(tx, {i}) = Amount(tx.outputs[i].data)
      OBVIOUS
    <3>1. /\ i \in DOMAIN tx.outputs
          /\ tx.outputs[i].capacity \in Int /\ Amount(tx.outputs[i].data) \in Int
      BY <2>1, <2>2
    <3> QED
      BY <3>1, OneHeld
  <2>4. /\ Capacity(tx, {1}) = paid /\ Capacity(tx, {2}) = kept
        /\ TokenSum(tx, {2}) = orders[s].args.amount
    BY <2>1, <2>3
  <2>5. Capacity(tx, {1, 2}) = paid + kept
    <3>1. 1 # 2 /\ tx.outputs[1].capacity \in Int /\ tx.outputs[2].capacity \in Int
      BY <2>1
    <3>2. Capacity(tx, {1, 2}) = tx.outputs[1].capacity + tx.outputs[2].capacity
      BY <2>2, <3>1, TwoHeld
    <3> QED
      BY <2>1, <3>2
  <2> QED
    BY <2>4, <2>5
<1>8. Typed(tx, OutputsOf(tx, orders[b].args.maker), xudt) = {2}
  BY <1>3, <1>6 DEF Typed, OutputsOf
<1>9. Typed(tx, OutputsOf(tx, orders[s].args.maker), NoType) = {1}
  BY <1>3, <1>6 DEF Typed, OutputsOf
<1>10. ValidBuyOrder(tx, orders[b])
  <2>1. tx.outputs[2].data # Short
    BY <1>4, <1>6
  <2>2. /\ orders[b].args.price + kept = orders[b].capacity - fee
        /\ orders[b].args.price + kept <= MaxU64
        /\ orders[b].capacity - (orders[b].args.price + kept) <= MAX_SETTLEMENT_FEE
        /\ kept <= MaxU64
    BY <1>2, <1>3, <1>5, LockConstants DEF kept
  <2> QED
    BY <1>2, <1>3, <1>4, <1>7, <1>8, <2>1, <2>2, LockConstants DEF ValidBuyOrder, Fits
<1>11. ValidSellOrder(tx, orders[s])
  BY <1>3, <1>4, <1>5, <1>7, <1>9 DEF ValidSellOrder, Fits, paid, xudt
<1>12. \A own \in tx.spends : Live(own) /\ ProgramEntry(tx, own)
  <2>1. Cardinality(tx.spends) = 2
    <3>1. Cardinality({b, s}) = 2
      BY <1>2, CardinalityOfPair
    <3> QED
      BY <1>6, <3>1
  <2>2. \A own \in tx.spends : own = b \/ own = s
    BY <1>6
  <2>3. b \in tx.spends /\ s \in tx.spends /\ \A own \in tx.spends : orders[own].args.maker \notin tx.signers
    BY <1>6
  <2>4. MatchingTerms(orders[b].args, orders[s].args)
    BY DEF Settles
  <2>5. ProgramEntry(tx, b)
    BY <1>1, <1>2, <1>10, <2>1, <2>2, <2>3, <2>4 DEF ProgramEntry
  <2>6. ProgramEntry(tx, s)
    BY <1>1, <1>2, <1>11, <2>1, <2>2, <2>3, <2>4 DEF ProgramEntry, BUY, SELL
  <2> QED
    BY <1>1, <2>2, <2>5, <2>6
<1>13. IsFiniteSet(tx.spends) /\ IsFiniteSet(tx.signers)
  <2>1. IsFiniteSet({b, s})
    BY FinitePair
  <2> QED
    BY <1>6, <2>1, FS_EmptySet
<1>14. CkbIn(tx) = orders[b].capacity + orders[s].capacity
  <2> DEFINE f == [o \in tx.spends |-> orders[o].capacity]
             g == [u \in tx.signers |-> wallets[u].ckb]
  <2>1. CkbIn(tx) = SumOn(f, {b, s}) + SumOn(g, {})
    BY ONLY <1>13, CkbInIsSum, <1>6
  <2>2. /\ f[b] = orders[b].capacity /\ f[s] = orders[s].capacity
        /\ f[b] \in Int /\ f[s] \in Int
    BY <1>3, <1>6
  <2> HIDE DEF f, g
  <2>3. SumOn(f, {b, s}) = f[b] + f[s]
    BY <1>2, <2>2, SumOnPair
  <2>4. SumOn(g, {}) = 0
    BY SumOnEmpty
  <2> QED
    BY <1>3, <2>1, <2>2, <2>3, <2>4
<1>15. ASSUME NEW token \in Tokens
       PROVE  TokenSum(tx, Typed(tx, DOMAIN tx.outputs, token)) <= TokensIn(tx, token)
  <2> DEFINE f == [o \in tx.spends |-> Amount(orders[o].data)]
             held == {o \in tx.spends : orders[o].type = token}
             g == [u \in tx.signers |-> wallets[u].tok[token]]
  <2>1. TokensIn(tx, token) = SumOn(f, held) + SumOn(g, {})
    BY ONLY <1>13, TokensInIsSum, <1>6
  <2>2. f[s] = orders[s].args.amount /\ f[s] \in Int
    BY <1>3, <1>4, <1>6 DEF Amount
  <2>3. held = IF token = xudt THEN {s} ELSE {}
    BY <1>4, <1>6, LockConstants
  <2>4. Typed(tx, DOMAIN tx.outputs, token) = IF token = xudt THEN {2} ELSE {}
    BY <1>6, LockConstants DEF Typed
  <2> HIDE DEF f, g, held
  <2>5. SumOn(f, held) = IF token = xudt THEN orders[s].args.amount ELSE 0
    <3>1. SumOn(f, {s}) = f[s] /\ SumOn(f, {}) = 0
      BY <2>2, SumOnSingle, SumOnEmpty
    <3> QED
      BY <2>2, <2>3, <3>1
  <2>6. TokenSum(tx, Typed(tx, DOMAIN tx.outputs, token)) = SumOn(f, held)
    BY <1>7, <2>4, <2>5, NothingHeld
  <2>7. SumOn(g, {}) = 0 /\ SumOn(f, held) \in Nat
    BY <1>3, <2>5, SumOnEmpty
  <2> QED
    BY <2>1, <2>6, <2>7
<1>16. Capacity(tx, DOMAIN tx.outputs) <= CkbIn(tx)
  BY <1>3, <1>6, <1>7, <1>14 DEF paid, kept
<1>17. Balanced(tx)
  BY <1>6, <1>15, <1>16 DEF Balanced
<1>18. Accepted(tx)
  BY <1>12, <1>17 DEF Accepted
<1> QED
  BY <1>18 DEF tx

\* SettlementsAreAccepted for every ledger and every fee a builder estimates.
THEOREM TheBooksSettlementsPass == Spec => []SettlementsAreAccepted
<1>1. LedgerTyped => SettlementsAreAccepted
  BY SettlementIsAccepted, BuilderConstants DEF SettlementsAreAccepted
<1> QED
  BY <1>1, LedgerTypedInit, LedgerTypedNext, PTL DEF Spec

\* OwnOrdersSettleAndCancel for every ledger: what the UI sets aside for a buy
\* order pays for its settlement at every fee the contract permits.
THEOREM UiOrdersKeepTheirPromise == Spec => []OwnOrdersSettleAndCancel
<1>1. ASSUME LedgerTyped, NEW id \in Ids, OwnOrder(id)
      PROVE  /\ id \in Indexed
             /\ orders[id].args.maker \in Users
             /\ orders[id].args.price \in Nat
  <2>1. /\ Live(id) /\ Parses(orders[id].args) /\ orders[id] = CreateOrderCell(orders[id].args)
        /\ orders[id].args \in OrderArgs
    BY <1>1, LiveOrders DEF OwnOrder
  <2>2. orders[id].args.price \in Nat /\ orders[id].args.amount \in Nat /\ orders[id].args.maker \in Users
    BY <2>1, LockConstants DEF OrderArgs
  <2>3. CASE orders[id].args.side = SELL
    BY <2>1, <2>2, <2>3 DEF Indexed, Indexable, CreateOrderCell, Short, BUY, SELL
  <2>4. CASE orders[id].args.side = BUY
    <3>1. /\ orders[id].type = NoType
          /\ orders[id].capacity = orders[id].args.price + TokenCellCapacity + 2 * MAX_SETTLEMENT_FEE
      BY <2>1, <2>4 DEF CreateOrderCell, BuyOrderCapacity, SETTLEMENT_FEE_RESERVE, BUY, SELL
    <3>2. orders[id].capacity > orders[id].args.price
      BY <2>2, <3>1, LockConstants, BuilderConstants
    <3> QED
      BY <2>1, <2>2, <2>4, <3>1, <3>2 DEF Indexed, Indexable, BUY, SELL
  <2> QED
    BY <2>1, <2>2, <2>3, <2>4 DEF OrderArgs
<1>2. ASSUME LedgerTyped, NEW id \in Ids, OwnOrder(id), wallets[Maker(id)].ckb > 0
      PROVE  Accepted(CancelOrder(id))
  <2> DEFINE tx == CancelOrder(id)
             maker == orders[id].args.maker
  <2>1. Live(id) /\ Parses(orders[id].args) /\ orders[id] = CreateOrderCell(orders[id].args)
    BY <1>2 DEF OwnOrder
  <2>2. orders[id].args.side # SELL => orders[id].type = NoType /\ orders[id].data = Short
    BY <2>1 DEF CreateOrderCell
  <2>3. /\ tx.spends = {id} /\ tx.signers = {maker}
        /\ DOMAIN tx.outputs = {1}
        /\ tx.outputs[1] = [lock |-> maker, capacity |-> orders[id].capacity,
                            type |-> orders[id].type, data |-> orders[id].data]
    BY <2>2 DEF CancelOrder
  <2>4. /\ tx.outputs[1].lock = maker /\ tx.outputs[1].type = orders[id].type
        /\ tx.outputs[1].data = orders[id].data /\ tx.outputs[1].capacity = orders[id].capacity
    BY <2>3
  <2>5. wallets[maker].ckb > 0
    BY <1>2 DEF Maker
  <2> HIDE DEF tx
  <2>6. Accepted(tx)
    BY <1>2, <2>1, <2>3, <2>4, <2>5, RefundIsAccepted
  <2> QED
    BY <2>6 DEF tx
<1>3. ASSUME LedgerTyped, NEW b \in Ids, NEW s \in Ids, NEW fee \in 0..MAX_SETTLEMENT_FEE,
             OwnOrder(b), OwnOrder(s), Side(b) = BUY, Side(s) = SELL,
             MatchingTerms(orders[b].args, orders[s].args), SellerPayment(s) <= MaxU64
      PROVE  Settles(b, s, fee) /\ Accepted(Settlement(b, s, fee))
  <2>1. b \in Indexed /\ s \in Indexed /\ orders[s].args.price \in Nat
    BY <1>1, <1>3
  <2>2. orders[b].capacity = orders[s].args.price + TokenCellCapacity + 2 * MAX_SETTLEMENT_FEE
    <3>1. orders[b] = CreateOrderCell(orders[b].args) /\ orders[b].args.side = BUY
      BY <1>3 DEF OwnOrder, Side
    <3>2. orders[b].capacity = BuyOrderCapacity(orders[b].args.price)
      BY <3>1 DEF CreateOrderCell, BUY, SELL
    <3>3. orders[b].args.price = orders[s].args.price
      BY <1>3 DEF MatchingTerms
    <3> QED
      BY <3>2, <3>3 DEF BuyOrderCapacity, SETTLEMENT_FEE_RESERVE
  <2>3. /\ fee \in Nat /\ fee <= MAX_SETTLEMENT_FEE
        /\ orders[b].capacity - orders[s].args.price - fee >= TokenCellCapacity
        /\ orders[b].capacity - orders[s].args.price - fee \in Nat
    BY <2>1, <2>2, LockConstants, BuilderConstants
  <2>4. TokenCapacity(b, s, fee) # Refused
    BY <2>1, <2>2, <2>3, LockConstants, BuilderConstants
       DEF TokenCapacity, AllocateSettlementCapacity, Refused
  <2>5. Settles(b, s, fee)
    BY <1>3, <2>4 DEF Settles
  <2> QED
    BY <1>3, <2>1, <2>3, <2>5, SettlementIsAccepted
<1>4. LedgerTyped => OwnOrdersSettleAndCancel
  BY <1>1, <1>2, <1>3 DEF OwnOrdersSettleAndCancel
<1> QED
  BY <1>4, LedgerTypedInit, LedgerTypedNext, PTL DEF Spec
===========================================================================
