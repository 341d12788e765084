------------------------- MODULE MCWalletBalances -------------------------
(* Two wallets, two transactions of the first one and a payment to the second.    *)
EXTENDS WalletBalances, TLC

MCOwnerOf == [e \in {"t1", "t2"} |-> "ann"] @@ [e \in {"p2"} |-> "bob"]
===========================================================================
