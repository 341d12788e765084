--------------------------- MODULE MCDexOrderBot ---------------------------
(* Instances of DexOrderBot for TLC.                                        *)
EXTENDS DexOrderLedger

CONSTANTS b1, b2, s1, m1, m2

Block(miner, txs) == [miner |-> miner, txs |-> txs]

\* The chain starts empty and the creations are waiting to be mined.
Empty == <<>>
AllCreations == {Create(o) : o \in Orders}

\* Both orders are on the chain already and the store has seen genesis only.
BothCreated == <<Block(m1, AllCreations)>>
OneThenOther == <<Block(m1, {Create(s1)}), Block(m1, {Create(b1)})>>

\* The checkpoint the first scan of a chain of confirmationDepth blocks saves.
AtGenesis == {<<>>}
===========================================================================
