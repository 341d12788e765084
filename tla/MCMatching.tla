----------------------------- MODULE MCMatching -----------------------------
(* Instance of Matching for TLC: three groups that compete for the one       *)
(* attempt of a tick.                                                        *)
EXTENDS Matching, TLC

CONSTANTS b1, b2, b3, b4, s1, s2, s3, s4

Order(token, price) == [token |-> token, amount |-> 1, price |-> price]

\* The asks at price 1 come first, so the groups compete in the order
\* {b3, s2}, {b1, b2, s1, s4}, {b4, s3}; b1 is older than b2, s1 than s4.
MCTerms == [o \in Orders |-> CASE o \in {b3, s2} -> Order("listed", 1)
                               [] o \in {b1, b2, s1, s4} -> Order("listed", 2)
                               [] OTHER -> Order("delisted", 3)]

MCAge == [o \in Orders |-> CASE o = b1 -> 1 [] o = s1 -> 2 [] o = b2 -> 3 [] o = b3 -> 4
                             [] o = s2 -> 5 [] o = b4 -> 6 [] o = s3 -> 7 [] OTHER -> 8]

\* b1 can pay for a settlement with s4, but not for one with the older s1.
MCUnfunded == {<<b1, s1>>}

MCInitialStatus == [o \in Orders |-> IF o \in {b2} THEN "absent" ELSE "live"]
=============================================================================
