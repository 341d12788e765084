---------------------------- MODULE OrderLedger ----------------------------
(***************************************************************************)
(* What the backend promises to those who read orders and trades from it:  *)
(* a ledger to which facts are added and from which none is taken back.    *)
(*                                                                         *)
(* The chain decides the fate of every order cell: it is born open and at  *)
(* most once spent, by its maker's cancellation or together with a         *)
(* counterpart by a settlement.  The backend lists orders and records      *)
(* trades in its own time, but only orders that exist and only settlements *)
(* that are the fate of all their orders; and an order that it shows as    *)
(* ended has met its fate.  Nothing is said about how: no blocks, polls,   *)
(* events, reservations, crashes or reorganisations.  DexOrderLedger shows *)
(* that the matcher implements this.                                       *)
(***************************************************************************)
CONSTANTS
    Orders,
    Ends      \* what may spend orders: records that name their orders in field of

VARIABLES
    fate,     \* order -> Unborn, Open or the end that spent it
    listed,   \* orders the backend knows
    trades,   \* ends it has recorded as trades
    ended     \* orders it shows as filled or cancelled

ledgerVars == <<fate, listed, trades, ended>>

Unborn == [kind |-> "unborn", of |-> {}]
Open   == [kind |-> "open", of |-> {}]

\* An end is the fate of all the orders it names, or of none.
Fates == {f \in [Orders -> Ends \cup {Unborn, Open}] :
            \A o \in Orders : f[o] \in Ends =>
              o \in f[o].of /\ \A other \in f[o].of : f[other] = f[o]}

\* The backend learns of some facts, none of them made up, and forgets none.
Learn ==
    /\ listed \subseteq listed' /\ trades \subseteq trades'
    /\ LET now == fate
       IN  /\ fate' = now
           /\ \A o \in listed' : now[o] # Unborn
           /\ \A end \in trades' : end.of \subseteq listed' /\ \A o \in end.of : now[o] = end
           /\ ended' \subseteq listed' /\ \A o \in ended' : now[o] \in Ends

\* Open orders may end and unborn ones may do anything; an end is for good.
Fulfil ==
    /\ UNCHANGED <<listed, trades, ended>>
    /\ fate' \in Fates
    /\ \A o \in Orders : /\ fate[o] \in Ends => fate'[o] = fate[o]
                         /\ fate[o] = Open => fate'[o] # Unborn

Init ==
    /\ fate \in Fates
    /\ listed = {} /\ trades = {} /\ ended = {}

Next == Learn \/ Fulfil

Spec == Init /\ [][Next]_ledgerVars
---------------------------------------------------------------------------
\* No order is in two recorded trades.
TradedOnce == \A end, other \in trades : end # other => end.of \cap other.of = {}
===========================================================================
