---------------------------- MODULE DexOrderBot ----------------------------
(***************************************************************************)
(* The matcher (backend/src/bot/index.ts): one poll cycle at a time, each  *)
(* cut at its awaits, interleaved with the chain, with other matchers and  *)
(* with event producers that use the ingestion endpoint.                   *)
(*                                                                         *)
(*   idle -> detect [-> rollback -> rewind] -> scan [-> index]          *)
(*        -> sweep -> retry -> match [-> reserveSell -> live -> submit     *)
(*        -> record | release | abandon -> recheck] -> idle                *)
(*                                                                         *)
(* Time is abstract: a reservation may fall due at any moment.  Backoff    *)
(* and quarantine (MatchHealth) are a free choice to skip a pair.  Order   *)
(* validity and capacities are settled by the constants: every order is    *)
(* well formed and every pair affordable.                                  *)
(***************************************************************************)
EXTENDS EventIngestion

CONSTANTS
    CHECKPOINT_WINDOW,     \* checkpoints compared per tick
    CHECKPOINT_RETENTION,  \* blocks below a new checkpoint whose checkpoints are kept
    InitialCheckpoints,    \* checkpoint store at the first start
    CrashLimit,            \* bound: crashes, and RPC errors that abort a tick
    LossyRpc,              \* whether sendTransaction may fail although the node accepted
    Producers              \* whether others post events to the endpoint

ASSUME BotConstants ==
    /\ CHECKPOINT_WINDOW \in Nat \ {0} /\ CHECKPOINT_RETENTION \in Nat
    /\ CrashLimit \in Nat
    /\ InitialCheckpoints \subseteq Hashes
    /\ \A cp, other \in InitialCheckpoints : Len(cp) = Len(other) => cp = other
    /\ LossyRpc \in BOOLEAN /\ Producers \in BOOLEAN

VARIABLES
    checkpoints,  \* block hashes, at most one per height
    pc,           \* where the cycle is
    work,         \* orders the current loop still has to visit
    seen,         \* the orders as the current loop read them
    pin,          \* detect: the rollback event; scan: height and hash of the range's end
    pair,         \* the orders executeTrade is settling
    crashes

botVars == <<checkpoints, pc, work, seen, pin, pair, crashes>>
vars == <<chainVars, db, botVars>>

NoPin == [block |-> NoBlock, ancestor |-> 0]
NoPair == <<>>
NoneSeen == [o \in {} |-> NotIndexed]

TradeSteps == {"reserveSell", "live", "submit", "release", "abandon", "record", "recheck"}
Steps == TradeSteps \cup
         {"idle", "detect", "rollback", "rewind", "scan", "index", "sweep", "retry", "match"}

MaxOf(S) == CHOOSE n \in S : \A m \in S : m <= n
MinOf(S) == CHOOSE n \in S : \A m \in S : n <= m

---------------------------------------------------------------------------
(* What the steps share                                                    *)

RevertToLive(d, o) ==
    [d EXCEPT !.orders[o] = [@ EXCEPT !.status = "LIVE", !.reservedUntil = "none",
                                      !.pendingTx = NoTx]]

Reserve(d, o) ==
    [d EXCEPT !.orders[o] = [@ EXCEPT !.status = "RESERVED", !.reservedUntil = "running"]]

\* Mutant: a settlement counts only for an order that was waiting for it.
ReconcileSpentOrderOwn(d, o) ==
    IF ~SpentOn(chain, o) THEN d
    ELSE IF Spender(o).kind # "cancel" /\ d.orders[o].pendingTx # Spender(o) THEN d
    ELSE Ingested(d, SpendConfirmed(Spender(o)))

\* reconcileSpentOrder: the committed spender is a maker's cancellation or a
\* settlement; a settlement is recorded only when both its orders are indexed.
ReconcileSpentOrder(d, o) ==
    IF ~SpentOn(chain, o) THEN d
    ELSE IF Spender(o).kind # "cancel" /\ \E leg \in Spender(o).of : ~Indexed(d, leg) THEN d
    ELSE Ingested(d, SpendConfirmed(Spender(o)))

CheckOrderLiveness(d, o) == IF LiveCell(o) THEN d ELSE ReconcileSpentOrder(d, o)

\* What ingestion refuses for good is an exception in the caller.
ReconcileThrows(d, o) ==
    /\ SpentOn(chain, o) /\ Spender(o).kind = "cancel"
    /\ Outcome(d, SpendConfirmed(Spender(o))) = "error"

\* Leaves a loop or a phase; what it had read is gone.
Goto(step) ==
    /\ pc' = step
    /\ seen' = NoneSeen
    /\ pin' = NoPin
    /\ pair' = NoPair

AbandonTick == Goto("idle") /\ work' = {}

---------------------------------------------------------------------------
(* detectReorg                                                             *)

\* The newest CHECKPOINT_WINDOW checkpoints.
Window == {cp \in checkpoints :
             Cardinality({other \in checkpoints : Len(other) > Len(cp)}) < CHECKPOINT_WINDOW}
Common == {Len(cp) : cp \in {c \in Window : Canonical(c)}}

StartTick ==
    /\ pc = "idle"
    /\ pc' = "detect"
    /\ UNCHANGED <<chainVars, db, checkpoints, work, seen, pin, pair, crashes>>

\* Newest first, down to the first checkpoint that is still canonical: the
\* oldest mismatch above it is the evidence.  With no common block in the
\* window the fork is taken to be just below its oldest entry.
DetectReorg ==
    /\ pc = "detect"
    /\ LET mismatched == {cp \in Window : \A height \in Common : height < Len(cp)}
       IN  IF mismatched = {}
           THEN pc' = "scan" /\ UNCHANGED pin
           ELSE /\ pc' = "rollback"
                /\ \E evidence \in mismatched :
                     /\ \A other \in mismatched : Len(evidence) <= Len(other)
                     /\ \E ancestor \in IF Common = {} THEN {Len(evidence) - 1} ELSE Common :
                          /\ \A height \in Common : height <= ancestor
                          /\ pin' = [block |-> evidence, ancestor |-> ancestor]
    /\ UNCHANGED <<chainVars, db, checkpoints, work, seen, pair, crashes>>

RollBack ==
    /\ pc = "rollback"
    /\ LET event == ChainReorg(pin.block, pin.ancestor)
       IN  IF Outcome(db, event) = "done"
           THEN db' = Ingested(db, event) /\ pc' = "rewind" /\ UNCHANGED pin
           ELSE pc' = "idle" /\ pin' = NoPin /\ UNCHANGED db
    /\ UNCHANGED <<chainVars, checkpoints, work, seen, pair, crashes>>

Rewind ==
    /\ pc = "rewind"
    /\ checkpoints' = {cp \in checkpoints : Len(cp) <= pin.ancestor}
    /\ pc' = "scan" /\ pin' = NoPin
    /\ UNCHANGED <<chainVars, db, work, seen, pair, crashes>>

---------------------------------------------------------------------------
(* scanForPendingOrders                                                    *)

\* Mutant: blocks are scanned as soon as they are mined.
UnsafeTip == Tip

SafeTip == Tip - confirmationDepth

ResolveScanCursor ==
    LET indexed == {Len(db.orders[o].created) : o \in {x \in Orders : Indexed(db, x)}}
    IN  IF checkpoints # {} THEN MaxOf({Len(cp) : cp \in checkpoints}) + 1
        ELSE IF indexed # {} THEN MaxOf(indexed) + 1
        ELSE 0

StartSweep ==
    /\ Goto("sweep")
    /\ work' = {o \in Orders : db'.orders[o].status \in {"LIVE", "RESERVED"}}

\* Pins the end of the range and lists the live order cells created in it.
Scan ==
    /\ pc = "scan"
    /\ UNCHANGED <<chainVars, db, checkpoints, crashes>>
    /\ IF SafeTip < 0 \/ ResolveScanCursor > SafeTip
       THEN StartSweep
       ELSE /\ pc' = "index"
            /\ pin' = [block |-> Hash(SafeTip), ancestor |-> 0]
            /\ work' = {o \in Orders : LiveCell(o) /\
                          HeightOf(Create(o)) \in ResolveScanCursor..SafeTip}
            /\ UNCHANGED <<seen, pair>>

\* indexOrderCell, in chain order: known orders are skipped, an orphaned one
\* is confirmed again.
Index(o) ==
    /\ pc = "index" /\ o \in work
    /\ \A other \in work : (Committed(Create(other)) /\ Committed(Create(o))) =>
                             HeightOf(Create(o)) <= HeightOf(Create(other))
    /\ db' = IF db.orders[o].status \in {"NOT_INDEXED", "ORPHANED"} /\ Committed(Create(o))
             THEN Ingested(db, OrderConfirmed(o))
             ELSE db
    /\ work' = work \ {o}
    /\ UNCHANGED <<chainVars, checkpoints, pc, seen, pin, pair, crashes>>

\* Mutant: the checkpoint is the safe tip of now, not the end of the range.
SaveCheckpointUnpinned ==
    /\ pc = "index" /\ work = {}
    /\ checkpoints' = checkpoints \cup {Hash(SafeTip)}
    /\ UNCHANGED db
    /\ StartSweep
    /\ UNCHANGED <<chainVars, crashes>>

\* The checkpoint is saved, and old ones deleted, only if the end of the range
\* is what it was.
SaveCheckpoint ==
    /\ pc = "index" /\ work = {}
    /\ LET end == Len(pin.block)
           kept == {cp \in checkpoints : Len(cp) # end /\ Len(cp) >= end - CHECKPOINT_RETENTION}
       IN  checkpoints' = IF Canonical(pin.block) THEN kept \cup {pin.block} ELSE checkpoints
    /\ UNCHANGED db
    /\ StartSweep
    /\ UNCHANGED <<chainVars, crashes>>

---------------------------------------------------------------------------
(* sweepTrackedOrders and retryFailSwaps                                   *)

Sweep(o) ==
    /\ pc = "sweep" /\ o \in work
    /\ db' = CheckOrderLiveness(db, o)
    /\ IF ReconcileThrows(db, o) THEN AbandonTick
       ELSE work' = work \ {o} /\ UNCHANGED <<pc, seen, pin, pair>>
    /\ UNCHANGED <<chainVars, checkpoints, crashes>>

StartRetry ==
    /\ pc = "sweep" /\ work = {}
    /\ pc' = "retry"
    /\ work' = {o \in Orders : db.orders[o].status \in {"RESERVED", "PENDING"}}
    /\ seen' = [o \in work' |-> db.orders[o]]
    /\ UNCHANGED <<chainVars, db, checkpoints, pin, pair, crashes>>

\* confirmTrade: TRUE when the other leg is found, buried deep enough or not.
CounterpartFound(d, o, tx) == \E other \in Orders \ {o} : d.orders[other].pendingTx = tx

\* Neither committed nor pooled: the node calls it "rejected" or does not know it.
Gone(tx) == tx # NoTx /\ ~Committed(tx) /\ tx \notin pool

\* Mutant: only orders whose settlement is known are looked at.
RetriedNoRelease(o, doc, rejected) ==
    LET tx == doc.pendingTx
    IN  IF tx # NoTx /\ Committed(tx) THEN Ingested(db, SpendConfirmed(tx)) ELSE db

\* One in-flight order, as read when the loop began: the database after it.
Retried(o, doc, rejected) ==
    LET due  == doc.reservedUntil = "due"
        tx   == doc.pendingTx
        release(when) == IF when THEN RevertToLive(db, o) ELSE db
    IN  CASE tx = NoTx -> release(due)
          [] Committed(tx) ->
               IF CounterpartFound(db, o, tx) THEN Ingested(db, SpendConfirmed(tx))
               ELSE release(due)
          [] Gone(tx) ->
               IF LiveCell(o) THEN release(rejected \/ due)
               ELSE ReconcileSpentOrder(db, o)
          [] OTHER ->
               IF due THEN [db EXCEPT !.orders[o].reservedUntil = "running"] ELSE db

Retry(o) ==
    /\ pc = "retry" /\ o \in work
    /\ \E rejected \in BOOLEAN : db' = Retried(o, seen[o], rejected)
    /\ IF Gone(seen[o].pendingTx) /\ ReconcileThrows(db, o) THEN AbandonTick
       ELSE /\ work' = work \ {o}
            /\ seen' = [other \in work' |-> seen[other]]
            /\ UNCHANGED <<pc, pin, pair>>
    /\ UNCHANGED <<chainVars, checkpoints, crashes>>

\* refreshPendingPairOrders: the book this tick matches.
RefreshBook ==
    /\ pc = "retry" /\ work = {}
    /\ Goto("match")
    /\ work' = {o \in Orders : db.orders[o].status = "LIVE"}
    /\ UNCHANGED <<chainVars, db, checkpoints, crashes>>

---------------------------------------------------------------------------
(* matchPendingOrders and executeTrade                                     *)

Buy == pair[1]
Sell == pair[2]
OurTx == Settle(Buy, Sell)

\* The next pair of the book; both orders are out of this tick's matching.
\* The buy side is reserved first, and only if it is still LIVE.
StartTrade(b, s) ==
    /\ pc = "match" /\ b \in work /\ s \in work
    /\ work' = work \ {b, s}
    /\ IF db.orders[b].status = "LIVE"
       THEN db' = Reserve(db, b) /\ pc' = "reserveSell" /\ pair' = <<b, s>>
       ELSE UNCHANGED <<db, pc, pair>>
    /\ UNCHANGED <<chainVars, checkpoints, seen, pin, crashes>>

EndTick ==
    /\ pc = "match"
    /\ AbandonTick
    /\ UNCHANGED <<chainVars, db, checkpoints, crashes>>

ReserveSell ==
    /\ pc = "reserveSell"
    /\ IF db.orders[Sell].status = "LIVE"
       THEN db' = Reserve(db, Sell) /\ pc' = "live" /\ UNCHANGED pair
       ELSE db' = RevertToLive(db, Buy) /\ pc' = "match" /\ pair' = NoPair
    /\ UNCHANGED <<chainVars, checkpoints, work, seen, pin, crashes>>

\* Both cells must still be live; a spent one is reconciled on the way.
CheckLegs ==
    /\ pc = "live"
    /\ db' = CheckOrderLiveness(CheckOrderLiveness(db, Buy), Sell)
    /\ pc' = IF LiveCell(Buy) /\ LiveCell(Sell) THEN "submit" ELSE "release"
    /\ UNCHANGED <<chainVars, checkpoints, work, seen, pin, pair, crashes>>

\* submit: a transaction already pooled is adopted as a success; a spent cell
\* or a pooled competitor releases the orders and has both re-checked.
Submit ==
    /\ pc = "submit"
    /\ UNCHANGED <<chain, reorgs, db, checkpoints, work, seen, pin, pair, crashes>>
    /\ \/ /\ OurTx \in pool
          /\ pc' = "record" /\ UNCHANGED pool
       \/ /\ OurTx \notin pool
          /\ ConflictsInPool(OurTx) \/ ~LiveCell(Buy) \/ ~LiveCell(Sell)
          /\ pc' = "abandon" /\ UNCHANGED pool
       \/ /\ OurTx \notin pool
          /\ ~ConflictsInPool(OurTx) /\ LiveCell(Buy) /\ LiveCell(Sell)
          /\ pool' = pool \cup {OurTx}
          /\ \/ pc' = "record"
             \/ LossyRpc /\ pc' = "release"

\* The catch block of executeTrade: both orders are LIVE again, whatever the
\* steps since their reservation made of them.
Release ==
    /\ pc \in {"release", "abandon"}
    /\ db' = RevertToLive(RevertToLive(db, Buy), Sell)
    /\ IF pc = "abandon" THEN pc' = "recheck" /\ UNCHANGED pair
       ELSE pc' = "match" /\ pair' = NoPair
    /\ UNCHANGED <<chainVars, checkpoints, work, seen, pin, crashes>>

\* The settlement is recorded as submitted, directly when ingestion fails.
Record ==
    /\ pc = "record"
    /\ LET event == SettlementSubmitted(OurTx)
           direct == WithOrders(db, [o \in {Buy, Sell} |->
                       [db.orders[o] EXCEPT !.status = "PENDING", !.pendingTx = OurTx]])
       IN  db' = IF Outcome(db, event) = "done" THEN Ingested(db, event) ELSE direct
    /\ pc' = "match" /\ pair' = NoPair
    /\ UNCHANGED <<chainVars, checkpoints, work, seen, pin, crashes>>

Recheck ==
    /\ pc = "recheck"
    /\ db' = CheckOrderLiveness(CheckOrderLiveness(db, Buy), Sell)
    /\ pc' = "match" /\ pair' = NoPair
    /\ UNCHANGED <<chainVars, checkpoints, work, seen, pin, crashes>>

---------------------------------------------------------------------------
(* Around the cycle                                                        *)

\* A reservation's five minutes pass, in the copy the retry loop holds too.
Expire(o) ==
    /\ db.orders[o].status \in {"RESERVED", "PENDING"} /\ db.orders[o].reservedUntil = "running"
    /\ db' = [db EXCEPT !.orders[o].reservedUntil = "due"]
    /\ seen' = [x \in DOMAIN seen |-> IF x = o /\ seen[x].reservedUntil = "running"
                                      THEN [seen[x] EXCEPT !.reservedUntil = "due"] ELSE seen[x]]
    /\ UNCHANGED <<chainVars, checkpoints, pc, work, pin, pair, crashes>>

\* The process dies, or an RPC or database error outside executeTrade ends the
\* cycle: what is in memory is lost, the database stays.
Crash ==
    /\ pc # "idle" /\ crashes < CrashLimit
    /\ crashes' = crashes + 1
    /\ AbandonTick
    /\ UNCHANGED <<chainVars, db, checkpoints>>

\* Another producer posts a true event about a block to the ingestion endpoint.
\* Settlements submitted and rollbacks are the bot's own to report: such events
\* of others are left out.
Post ==
    /\ Producers
    /\ \E event \in {OrderConfirmed(o) : o \in {x \in Orders : Committed(Create(x))}}
                    \cup {SpendConfirmed(tx) : tx \in {t \in Transactions :
                                                 t.kind # "create" /\ Committed(t)}} :
         db' = Ingested(db, event)
    /\ UNCHANGED <<chainVars, botVars>>

Init ==
    /\ ChainInit
    /\ IngestionInit
    /\ checkpoints = InitialCheckpoints
    /\ pc = "idle" /\ work = {} /\ seen = NoneSeen
    /\ pin = NoPin /\ pair = NoPair /\ crashes = 0

BotStep ==
    \/ StartTick \/ DetectReorg \/ RollBack \/ Rewind
    \/ Scan \/ (\E o \in Orders : Index(o)) \/ SaveCheckpoint
    \/ (\E o \in Orders : Sweep(o)) \/ StartRetry
    \/ (\E o \in Orders : Retry(o)) \/ RefreshBook
    \/ (\E b \in Buys, s \in Sells : StartTrade(b, s)) \/ EndTick
    \/ ReserveSell \/ CheckLegs \/ Submit \/ Release \/ Record \/ Recheck

Environment == ChainNext /\ UNCHANGED <<db, botVars>>

Next == BotStep \/ Environment \/ (\E o \in Orders : Expire(o)) \/ Crash \/ Post

Spec == Init /\ [][Next]_vars

\* setInterval keeps starting ticks, a tick that does not crash goes on, and
\* time passes.  Of the node and of the users nothing is assumed.
Fairness == WF_vars(BotStep) /\ \A o \in Orders : WF_vars(Expire(o))
FairSpec == Spec /\ Fairness
---------------------------------------------------------------------------
(* Properties                                                              *)

\* Types; a height has one checkpoint, the retry loop has read every order it
\* still has to visit, and a pair is held exactly while executeTrade works on it.
TypeOK ==
    /\ ChainTypeOK
    /\ db \in Databases
    /\ checkpoints \subseteq Hashes
    /\ \A cp, other \in checkpoints : Len(cp) = Len(other) => cp = other
    /\ pc \in Steps /\ work \subseteq Orders /\ crashes \in Nat
    /\ DOMAIN seen \subseteq Orders /\ \A o \in DOMAIN seen : seen[o] \in OrderDocs
    /\ pc = "retry" => DOMAIN seen = work
    /\ pin \in [block: Hashes, ancestor: Int]
    /\ IF pc \in TradeSteps THEN pair \in Buys \X Sells ELSE pair = NoPair

TradesAreTrue(d) ==
    \A tx \in Settlements : d.trades[tx].status = "CONFIRMED" =>
      Committed(tx) /\ d.trades[tx].block = BlockOf(tx)

FillsAreTrue(d) ==
    \A o \in Orders : d.orders[o].status = "FILLED" =>
      LET tx == d.orders[o].pendingTx
      IN  /\ Committed(tx) /\ Spends(tx, o)
          /\ d.orders[o].spent = BlockOf(tx)
          /\ d.trades[tx].status = "CONFIRMED"

CancellationsAreTrue(d) ==
    \A o \in Orders : d.orders[o].status = "CANCELED" =>
      Committed(Cancel(o)) /\ d.orders[o].spent = BlockOf(Cancel(o))

\* As long as no reorganisation reaches a buried block, what the projection says
\* happened did happen: a confirmed trade is a committed transaction between exactly its
\* two orders, a FILLED order was spent by the settlement it names and a
\* CANCELED one by its maker, in the very block recorded.
ProjectionIsTrue == TradesAreTrue(db) /\ FillsAreTrue(db) /\ CancellationsAreTrue(db)

\* The scan cursor skips nothing: an order whose cell was created at or below
\* the newest checkpoint, on the branch that checkpoint names, and is still
\* unspent is in the book's database and not orphaned.
ScanMissesNothing ==
    \A cp \in checkpoints, o \in Orders :
      (Canonical(cp) /\ LiveCell(o) /\ HeightOf(Create(o)) <= Len(cp)) =>
        db.orders[o].status \notin {"NOT_INDEXED", "ORPHANED"}

\* A terminal order stays terminal, as allowedTransitions says, unless a
\* reorganisation is being rolled back.
TerminalIsFinal ==
    [][\A o \in Orders :
         (db.orders[o].status \in {"FILLED", "CANCELED"} /\ pc # "rollback") =>
           db'.orders[o].status \in {db.orders[o].status, "ORPHANED"}]_vars

\* Nothing that a reorganisation shallower than confirmationDepth can undo is
\* ever in the projection or in the checkpoints: no tick has to roll back.
ShallowReorgsStayOut == pc \notin {"rollback", "rewind"}

\* A rollback is complete: once it is ingested, nothing the projection holds
\* rests on a block above the common ancestor.
RollbackIsComplete ==
    pc = "rewind" =>
      /\ \A o \in Orders :
           /\ Len(db.orders[o].created) > pin.ancestor => db.orders[o].status \in {"NOT_INDEXED", "ORPHANED"}
           /\ db.orders[o].status \in {"FILLED", "CANCELED"} => Len(db.orders[o].spent) <= pin.ancestor
      /\ \A tx \in Settlements :
           db.trades[tx].status = "CONFIRMED" => Len(db.trades[tx].block) <= pin.ancestor

\* An orphaned order comes back: once a rescan has passed the block that
\* holds its cell on the canonical chain, a live order is not ORPHANED.
OrphansComeBack ==
    \A cp \in checkpoints, o \in Orders :
      (pc = "sweep" /\ Canonical(cp) /\ LiveCell(o) /\ HeightOf(Create(o)) <= Len(cp)) =>
        db.orders[o].status # "ORPHANED"

\* A reservation ends: whatever crashes, lost answers or other producers do, an
\* order is not RESERVED for good.
ReservationsEnd == \A o \in Orders : []<>(db.orders[o].status # "RESERVED")
===========================================================================
