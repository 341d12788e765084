--------------------------- MODULE MCMarketApi ---------------------------
(* An instance of MarketApi for TLC.                                       *)
EXTENDS MarketApi

CONSTANTS reader, other

\* Each key differs from the first in one of the fields the book sorts by.
ThreeKeys == {[price |-> 1, block |-> 1, tx |-> 1], [price |-> 1, block |-> 1, tx |-> 2],
              [price |-> 1, block |-> 2, tx |-> 1]}
OneMore == ThreeKeys \cup {[price |-> 2, block |-> 1, tx |-> 1]}
===========================================================================
