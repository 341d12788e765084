----------------------------- MODULE MCRealtime -----------------------------
(* Instance of Realtime for TLC: a trades channel and a maker's channel,     *)
(* each read with one query; three sockets, two of them from one address;   *)
(* one confirmed trade.                                                     *)
EXTENDS Realtime, TLC

CONSTANTS s1, s2, s3, home, away

MCIpOf == [s \in Sockets |-> IF s = s3 THEN away ELSE home]

MCReads == [c \in Channels |-> {c}]

MCMessages == {<<"maker", "trades">>}

\* A trade is confirmed.
MCChanges == {[rows |-> {"trades"}, pushes |-> TRUE]}

Symmetry == Permutations({s1, s2})
=============================================================================
