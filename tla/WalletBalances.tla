-------------------------- MODULE WalletBalances --------------------------
(***************************************************************************)
(* The balance the interface shows (ui/src/context/WalletContext.jsx) and  *)
(* the actions that send transactions and have them tracked: placing and   *)
(* cancelling an order (hooks/useOrders.js), claiming from the faucet      *)
(* (hooks/useFaucet.js).  A transaction's effect is shown at once, as a    *)
(* delta on the last balance read, until a read made after it was          *)
(* committed replaces both.  Sends and reads are answered late or not at   *)
(* all; wallets are connected and disconnected while sends, reads and      *)
(* waits are under way, and others' transactions pay the wallets meanwhile.*)
(*                                                                         *)
(* A balance is the set of effects it includes.  The plain and the token   *)
(* balance are read and applied side by side by the same code; one of them *)
(* is modelled.  What a transaction is worth is left out, and so is the    *)
(* wallet's address, which nothing here depends on.                        *)
(*                                                                         *)
(* Names that MarketView, the other half of the page, has as well carry    *)
(* the wallet's here, so that InterfaceProofs can extend both.             *)
(***************************************************************************)
EXTENDS Integers, FiniteSets

CONSTANTS
    Wallets, NoWallet,
    OwnTxs,          \* transactions a wallet sends from this page
    Payments,        \* what others' transactions do to the wallets
    OwnerOf,         \* transaction or payment -> wallet
    MaxSwitches,     \* bound: connections and disconnections
    MaxFailures      \* bound: reads that fail

ASSUME WalletConstants ==
    /\ NoWallet \notin Wallets
    /\ OwnTxs \cap Payments = {}
    /\ OwnerOf \in [OwnTxs \cup Payments -> Wallets]
    /\ MaxSwitches \in Nat /\ MaxFailures \in Nat

VARIABLES
    signer,     \* the connected wallet
    balance,    \* last balance read, with the wallet it is of
    pendingTxs, \* own transactions shown as deltas
    step,       \* own transaction -> where sending and tracking it is
    settleRead, \* own transaction -> what the read that settles it returned
    refresh,    \* the read of the effect's last run
    status,     \* effect -> what the chain made of it
    switches, failures

page == <<signer, balance, pendingTxs, step, settleRead, refresh>>
walletVars == <<page, status, switches, failures>>

Effects == OwnTxs \cup Payments
Unread == [of |-> NoWallet, includes |-> {}]
NoRefresh == [phase |-> "none", read |-> Unread]

\* What the indexer answers about a wallet now.
Indexed(w) == [of |-> w, includes |-> {e \in Effects : OwnerOf[e] = w /\ status[e] = "indexed"}]

\* A read's answer: the balance, or nothing when it fails.
Answers(w, read) ==
    \/ read = Indexed(w) /\ UNCHANGED failures
    \/ failures < MaxFailures /\ read = Unread /\ failures' = failures + 1

---------------------------------------------------------------------------
(* Connecting                                                              *)

\* A new run of the effect cancels the read of the previous one.
StartRefresh(w) == refresh' = [phase |-> "sent", read |-> [Unread EXCEPT !.of = w]]

\* Mutant: the effect returns no cleanup.
SwitchUncancelled(w) ==
    /\ switches < MaxSwitches /\ w # signer
    /\ signer' = w
    /\ IF w = NoWallet
       THEN balance' = Unread /\ pendingTxs' = {} /\ UNCHANGED refresh
       ELSE (IF refresh.phase = "none" THEN StartRefresh(w) ELSE UNCHANGED refresh)
            /\ UNCHANGED <<balance, pendingTxs>>
    /\ switches' = switches + 1
    /\ UNCHANGED <<step, settleRead, status, failures>>

\* Without a signer nothing is shown; another one is asked for its balance,
\* and until it answers the old one and all deltas stay.
Switch(w) ==
    /\ switches < MaxSwitches /\ w # signer
    /\ signer' = w
    /\ IF w = NoWallet
       THEN balance' = Unread /\ pendingTxs' = {} /\ refresh' = NoRefresh
       ELSE StartRefresh(w) /\ UNCHANGED <<balance, pendingTxs>>
    /\ switches' = switches + 1
    /\ UNCHANGED <<step, settleRead, status, failures>>

---------------------------------------------------------------------------
(* The periodic read                                                       *)

\* Mutant: the interval stops once there is a balance.
RefreshTickOnce == pendingTxs = {} /\ balance = Unread

\* refreshBalances, by the interval that runs while nothing is pending, or
\* by an order that changed (useOrders.js).
RefreshTick == pendingTxs = {}

Refresh(changed) ==
    /\ signer # NoWallet
    /\ changed \/ RefreshTick
    /\ StartRefresh(signer)
    /\ UNCHANGED <<signer, balance, pendingTxs, step, settleRead, status, switches, failures>>

AnswerRefresh ==
    /\ refresh.phase = "sent"
    /\ \E read \in {Indexed(refresh.read.of), Unread} :
         /\ Answers(refresh.read.of, read)
         /\ refresh' = [phase |-> "answered", read |-> read]
    /\ UNCHANGED <<signer, balance, pendingTxs, step, settleRead, status, switches>>

\* Mutant: a fresh read is shown even under the deltas.
ApplyRefreshAnyway ==
    /\ refresh.phase = "answered"
    /\ balance' = IF refresh.read # Unread THEN refresh.read ELSE balance
    /\ refresh' = NoRefresh
    /\ UNCHANGED <<signer, pendingTxs, step, settleRead, status, switches, failures>>

\* Under a delta the read is dropped: it may include the same transaction.
ApplyRefresh ==
    /\ refresh.phase = "answered"
    /\ balance' = IF pendingTxs = {} /\ refresh.read # Unread THEN refresh.read ELSE balance
    /\ refresh' = NoRefresh
    /\ UNCHANGED <<signer, pendingTxs, step, settleRead, status, switches, failures>>

---------------------------------------------------------------------------
(* Own transactions                                                        *)

GoTo(t, next) == step' = [step EXCEPT ![t] = next]

\* placeOrder, cancelOrder or claim: the user signs, and the node or the faucet
\* is asked.
Begin(t) ==
    /\ step[t] = "idle" /\ signer = OwnerOf[t]
    /\ GoTo(t, "sending")
    /\ UNCHANGED <<signer, balance, pendingTxs, settleRead, refresh, status, switches, failures>>

\* The node accepts the transaction; its answer, or the faucet's, is under way.
Accept(t) ==
    /\ step[t] = "sending" /\ status[t] = "none"
    /\ status' = [status EXCEPT ![t] = "pooled"]
    /\ UNCHANGED <<page, switches, failures>>

\* The answer arrives, when the transaction may have been mined and read long
\* since: trackTransaction, whoever is connected by now.
Track(t) ==
    /\ step[t] = "sending" /\ status[t] # "none"
    /\ pendingTxs' = pendingTxs \cup {t}
    /\ GoTo(t, "waiting")
    /\ UNCHANGED <<signer, balance, settleRead, refresh, status, switches, failures>>

\* The user refused, the send failed, or the answer of one that went out is lost.
SendFails(t) ==
    /\ step[t] = "sending"
    /\ GoTo(t, "failed")
    /\ UNCHANGED <<signer, balance, pendingTxs, settleRead, refresh, status, switches, failures>>

\* waitTransaction ends with the commitment or gives up after two minutes.
WaitOver(t) ==
    /\ step[t] = "waiting"
    /\ GoTo(t, "reading")
    /\ UNCHANGED <<signer, balance, pendingTxs, settleRead, refresh, status, switches, failures>>

\* The read is about the wallet that was connected when the action began.
AnswerSettle(t) ==
    /\ step[t] = "reading"
    /\ \E read \in {Indexed(OwnerOf[t]), Unread} :
         /\ Answers(OwnerOf[t], read)
         /\ settleRead' = [settleRead EXCEPT ![t] = read]
    /\ GoTo(t, "read")
    /\ UNCHANGED <<signer, balance, pendingTxs, refresh, status, switches>>

\* Mutant: the delta stays when the read failed.
SettleReadOnly(t) ==
    /\ step[t] = "read"
    /\ balance' = IF settleRead[t] # Unread THEN settleRead[t] ELSE balance
    /\ pendingTxs' = IF settleRead[t] # Unread THEN pendingTxs \ {t} ELSE pendingTxs
    /\ GoTo(t, "settled")
    /\ settleRead' = [settleRead EXCEPT ![t] = Unread]
    /\ UNCHANGED <<signer, refresh, status, switches, failures>>

\* The balance in and the delta out, in one render, connected or not.
Settle(t) ==
    /\ step[t] = "read"
    /\ balance' = IF settleRead[t] # Unread THEN settleRead[t] ELSE balance
    /\ pendingTxs' = pendingTxs \ {t}
    /\ GoTo(t, "settled")
    /\ settleRead' = [settleRead EXCEPT ![t] = Unread]
    /\ UNCHANGED <<signer, refresh, status, switches, failures>>

---------------------------------------------------------------------------
(* The chain; the indexer follows the node                                 *)

Commit(e) ==
    /\ status[e] = IF e \in OwnTxs THEN "pooled" ELSE "none"
    /\ status' = [status EXCEPT ![e] = "committed"]
    /\ UNCHANGED <<page, switches, failures>>

Index(e) ==
    /\ status[e] = "committed"
    /\ status' = [status EXCEPT ![e] = "indexed"]
    /\ UNCHANGED <<page, switches, failures>>

WalletInit ==
    /\ signer = NoWallet /\ balance = Unread /\ pendingTxs = {}
    /\ step = [t \in OwnTxs |-> "idle"]
    /\ settleRead = [t \in OwnTxs |-> Unread]
    /\ refresh = NoRefresh
    /\ status = [e \in Effects |-> "none"]
    /\ switches = 0 /\ failures = 0

Chain == \E e \in Effects : Commit(e) \/ Index(e)

WalletNext ==
    \/ \E w \in Wallets \cup {NoWallet} : Switch(w)
    \/ (\E changed \in BOOLEAN : Refresh(changed)) \/ AnswerRefresh \/ ApplyRefresh
    \/ \E t \in OwnTxs : Begin(t) \/ Accept(t) \/ Track(t) \/ SendFails(t)
                          \/ WaitOver(t) \/ AnswerSettle(t) \/ Settle(t)
    \/ Chain

WalletSpec == WalletInit /\ [][WalletNext]_walletVars

\* The interval fires, a read is answered, and now and then one comes back
\* before the next run of the effect cancels it; a wait ends, by its timeout if
\* not otherwise.  Users, wallets and the chain owe nothing.
WalletFairness ==
    /\ WF_walletVars(Refresh(FALSE)) /\ WF_walletVars(AnswerRefresh) /\ SF_walletVars(ApplyRefresh)
    /\ \A t \in OwnTxs : WF_walletVars(WaitOver(t) \/ AnswerSettle(t) \/ Settle(t))

FairWalletSpec == WalletSpec /\ WalletFairness
---------------------------------------------------------------------------
(* Properties                                                              *)

Balances == [of: Wallets \cup {NoWallet}, includes: SUBSET Effects]

\* Types; a delta is shown only for a transaction that is still being settled,
\* so it cannot stay for good.
WalletTypeOK ==
    /\ signer \in Wallets \cup {NoWallet}
    /\ balance \in Balances
    /\ refresh \in [phase: {"none", "sent", "answered"}, read: Balances]
    /\ step \in [OwnTxs -> {"idle", "sending", "failed", "waiting", "reading", "read", "settled"}]
    /\ settleRead \in [OwnTxs -> Balances]
    /\ status \in [Effects -> {"none", "pooled", "committed", "indexed"}]
    /\ pendingTxs \subseteq {t \in OwnTxs : step[t] \in {"waiting", "reading", "read"}}
    /\ switches \in Nat /\ failures \in Nat

\* Shown as a delta and in the balance under it.
CountedTwice == pendingTxs \cap balance.includes

\* A transaction comes to be counted twice in two ways only: its send was
\* answered after the indexer had reported it, or another transaction of the page
\* was settled by a read that included it.  No periodic read, however late, and
\* no change of wallet does it.
OnlyLateAnswersCountTwice ==
    [][\A t \in CountedTwice' \ CountedTwice :
         \/ step[t] = "sending" /\ status[t] = "indexed"
         \/ \E other \in OwnTxs \ {t} : step[other] = "read" /\ step'[other] = "settled"]_walletVars

\* Only the settlement of a transaction may bring up the balance of a wallet
\* that is not connected; the periodic read never does.
NoForeignRefresh ==
    [][balance'.of \notin {balance.of, NoWallet, signer'} =>
         \E t \in OwnTxs : step[t] = "read" /\ step'[t] = "settled"]_walletVars

\* Once the user, the wallets and the chain come to rest, the page shows the
\* connected wallet's balance and nothing else, whatever went wrong before:
\* lost reads, late settlements, deltas and balances of another wallet.
BalancesSettle ==
    <>[](signer # NoWallet => balance = Indexed(signer) /\ pendingTxs = {})
===========================================================================
