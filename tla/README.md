# Verification of ckb-dex

TLA+ modules, TLC runs and TLAPS proofs for the exchange in this repository: an
order book whose orders are CKB cells, a backend that indexes and matches them,
and a faucet for its demo token. Paths below are relative to the repository root.

## 1. The system

| Component | Source | State | Operations | Talks to |
|---|---|---|---|---|
| dex-order-lock | `smart-contract/contracts/dex-order-lock/src/main.rs` | none of its own; guards order cells | `program_entry` on every spend: cancellation, or settlement of one buy and one sell | consensus, xUDT |
| matcher bot | `backend/src/bot/index.ts` | checkpoints (MongoDB), orders in flight (MongoDB), book of the tick (memory) | one poll cycle: detectReorg, scan, sweep, retry, match | CKB node, ingestion, MongoDB |
| match health | `backend/src/bot/match-health.ts` | backoff per pair, quarantine per order (memory) | record, expire, prune | bot |
| event ingestion | `backend/src/services/event-ingestion.ts`, `event-verification.ts` | orders, trades, processed events (MongoDB) | `ingest`: dedupe, verify, apply in one transaction | CKB node, MongoDB, realtime |
| realtime broadcaster | `backend/src/services/realtime.ts` | subscriptions, sequence per channel, connections per address | subscribe, emit, release, heartbeat | MongoDB, sockets |
| market API, middleware | `backend/src/routes`, `backend/src/middleware` | rate-limit windows | keyset pagination of three lists, behind a limiter | MongoDB |
| faucet | `faucet/src` | claim per recipient, budget per day (MongoDB), send lock (memory) | claim: reserve, take budget, send, commit or release | CKB node, MongoDB |
| UI market view | `ui/src/context/MarketContext.jsx`, `ui/src/hooks/useOrders.js`, `ui/src/services` | book, held orders, closed orders, own pending orders (browser) | merge REST snapshots, realtime updates, wallet actions | API, sockets, wallet |
| UI wallet | `ui/src/context/WalletContext.jsx`, `ui/src/hooks` | connected wallet, last balance read, deltas of sent transactions | connect, refresh, track and settle transactions | wallet, CKB node |
| scripts, manifests | `offchain`, `shared`, `deployment` | none | one-shot transactions | CKB node |

The bot is the only writer of reservations; ingestion is the only writer of
fills, cancellations, trades and rollbacks, except for three direct writes of
the bot (`reserve`, `revertToLive`, and PENDING when ingestion of a submitted
settlement fails). Ingestion has a second producer, the authenticated HTTP
endpoint `routes/internal.ts`. The chain changes under all of them.

What is hard here: the chain may grow, reorganise and drop pooled transactions
between any two awaits of the bot; other matchers settle the same orders; the
process may die between a submitted transaction and its record; an answer of
the node may be lost after the node acted; events are delivered twice and carry
ids that decide what counts as twice; the faucet reserves, sends and records in
separate database calls that race and fail. `PROJECT.json` lists every hazard
at its line with the property that watches it.

What makes each component correct:

* **lock**: no maker loses an order except for its terms or its own signature;
  orders are spent alone or in matching pairs; who settles gains no more than
  the fee cap; a maker can always cancel.
* **projection** (ingestion + bot): what it says happened is on the chain, in
  the block it names; the scan skips no order; shallow reorganisations stay
  out; a rollback leaves nothing above the fork; reservations end; terminal
  orders stay terminal; a pooled settlement is tracked.
* **ledger** (ingestion + bot, to its readers): orders are listed and trades
  recorded only when they are settled, are never taken back, and every settled
  trade is recorded in the end.
* **faucet**: a day's issuance is capped; a process's sends do not conflict; one drip per
  cooldown; the books balance; every call ends.
* **matching**: pairs respect price-time priority and share no order; a bad
  pair never keeps a good one waiting for good.
* **transactions**: what bot, script and interface build, the lock accepts.
* **realtime**: every subscriber ends up with the newest announced rows; numbers
  never repeat for a socket; counts of connections are exact.
* **market API**: a walk through the pages of a list meets every row that stays
  put once; the limiter bounds what a client and all clients together cost, and
  whoever it would refuse has used up its share, or others the map.
* **UI wallet**: a periodic read never counts a transaction twice; the balance
  shown is the connected wallet's; it is right once everything has come to rest.
* **UI market view**: the end recorded for an order is its own, listed rows neither
  flicker nor reopen, ended orders disappear, whatever order the views come in.

## 2. Modules

| Module | Models | Uses |
|---|---|---|
| `DexOrderLock` | the lock script and a ledger of order cells and wallets | |
| `OrderTransactions` | the transactions bot, script and interface build, and the indexer's checks of a cell | extends `DexOrderLock` |
| `CkbChain` | external: canonical chain, pool, reorganisations, other users | |
| `EventIngestion` | `ingest`, `verifyEvent`, the five handlers, as operators on the database value `db` | extends `CkbChain` |
| `DexOrderBot` | the poll cycle, cut at its awaits, composed with chain and ingestion | extends `EventIngestion` |
| `OrderLedger` | abstract: what the backend promises readers of orders and trades | |
| `DexOrderLedger` | the refinement from `DexOrderBot` to `OrderLedger` | extends `DexOrderBot`, instantiates `OrderLedger` |
| `Matching` | the order of the book, the pairs of a tick, backoff and quarantine | |
| `Realtime` | the WebSocket broadcaster against a database that changes | |
| `MarketView` | one page of the interface: book, held rows, closed orders, own and pending orders, against a backend that changes | |
| `WalletBalances` | the balance the interface shows, between reads, sent transactions and changes of wallet | |
| `RequestLimits` | the market API's rate limiter | |
| `MarketApi` | a reader's walk through the pages of a list that changes | extends `RequestLimits` |
| `FaucetClaims` | the faucet's claims | |
| `MCDexOrderLock`, `MCDexOrderBot`, `MCMatching`, `MCRealtime`, `MCMarketView`, `MCWalletBalances`, `MCMarketApi` | instances for TLC | |
| `SetSums` | facts about sums and numbers over finite sets | TLAPS |
| `DexOrderLockProofs`, `DexOrderBotProofs` (also of `DexOrderLedger`), `MatchingProofs`, `FaucetClaimsProofs`, `RealtimeProofs`, `InterfaceProofs` (`MarketView` and `WalletBalances`), `MarketApiProofs` | theorems and proofs | `SetSums` (lock, bot, matching, API), TLAPS |

### DexOrderLock

`orders` maps out points to live cells, `wallets` is what users hold in cells of
their own. `ProgramEntry(tx, own)` is `program_entry` as run for the order
`own`; `ValidSellOrder`, `ValidBuyOrder` and `ValidCancellation` are the three
validators. Every `checked_add` is a `Fits` on the total (terms are never
negative, so a partial sum overflows only if the total does); `MaxU64` and
`MaxU128` are the widths. A transaction is a set of spent orders, a set of
signers (a signer's whole wallet is an input) and a list of outputs; consensus
and xUDT supply `Balanced`. Lock hashes are the users themselves: script hashes
are assumed not to collide.

### OrderTransactions

Operators over the ledger of `DexOrderLock`, no state of their own. `Indexable`
is what `indexOrderCell` asks of a cell; `Settles` and `Settlement` are what
`executeTrade` and `offchain/fill-order` check and build;
`AllocateSettlementCapacity` is `shared/settlement-capacity.mjs`;
`CreateOrderCell` and `CancelOrder` are `ui/src/services/ckb/dex.js`. Lock and
builders hold the same arithmetic twice, in Rust and in JavaScript; the
properties put the one's output into the other in every reachable ledger. The
fee a builder estimates is any number of `Fees`; occupied capacities are
constants.

### CkbChain, EventIngestion, DexOrderBot

An order is its cell. A block's hash is the chain up to it, as a header commits
to its ancestors. A transaction is what it does to orders: `Create`, `Cancel`,
`Settle` (the bot's, which is a function of the two cells and therefore the same
transaction whenever it is rebuilt) and `Take` (another matcher's). Event ids
are tuples with exactly the parts the code's template strings have.

`pc` follows the tick: `detect`, `rollback`, `rewind`, `scan`, `index`, `sweep`,
`retry`, `match` and the steps of `executeTrade`. `work` and `seen` are the
loop's remaining orders and the documents it read before its awaits; `pin` is
the pinned end of the scan; `pair` is the pair being settled.

Abstractions: one visit of an order in a loop is one step, although it makes
several node calls and one database write, and so is one `ingest` (verification
and its transaction). Reads inside one visit therefore agree on the chain; reads
of different visits, of the range's end before and after the scan, and of
detection and scan need not. The two legs' liveness checks, which run together,
are taken one after the other. Which pair is next is a free choice here, and whether
one is tried at all (`Matching` says which choices the code makes). Time is
one flag per reservation, `running` or `due`. The maker check of a spend
(`findInputWithLockHash`) is whether it is a cancellation. Other producers post
the events of blocks; that they report a submitted settlement or a rollback is
left out.

### OrderLedger, DexOrderLedger

`OrderLedger` has no blocks, polls, events or reorganisations: `fate` says what
became of each order cell, `listed`, `trades` and `ended` what the backend shows.
`Fulfil` lets fates be met, for good and in pairs; `Learn` lets the backend add
facts that are so and take none back. `DexOrderLedger` maps the bot's state to
it: `fate` is read from the settled part of the chain, the blocks that
`confirmationDepth` blocks have buried, their own included; `listed`, `trades`
and `ended` are indexed documents, CONFIRMED trades and FILLED or CANCELED
orders. `ended` may shrink, as `revertToLive` makes it do (section 4, `zombie`);
`listed` and `trades` may not. One step of the bot is one `Learn` or a stutter,
one of the chain one `Fulfil` or a stutter. `TradesAreRecorded` is the liveness
half of the promise.

### Matching

The database is one status per order; `queue` holds the pairs of the tick that
are still to be tried, in the order `findMatches` returns them. A date in the
future is the time left until then, so `until > now` is "time left". Each
attempt ends in exactly one of the ways `executeTrade` and `handleMatchFailure`
distinguish: the settlement is submitted (`AttemptSucceeds`), an order of it can
never settle (`AttemptUnsettleable`, quarantine), an order is gone
(`AttemptGone`, backoff and re-check), or node or database fail
(`AttemptFails`, backoff). `MatchHealth` lives in memory: `Restart` empties it.
Whether a buy order can pay for the settlement of a pair is a constant
(`Unfunded`, any set of pairs), since it depends on both cells, which do not
change: price and capacity of the buy cell, cell data and owner lock of the sell
cell.

### Realtime

A handler or an emit is a task that waits for database answers; a query's answer
is the version of its rows. `subscribers` and `sequence` are the code's two maps
(no entry is the empty set and 0), `owned` is `channelsBySocket`. The handler of
a message goes on after its socket has closed, as the code does, and an emit
keeps the set it looked up, which `release` may have taken out of the map
(`attached`).

### MarketView

`book`, `held`, `closed`, `docs` and `pending` are the page's state of
`MarketContext.jsx`, `closedOrders.js`, `useOrders.js` and `pendingOrders.js`;
`mail` holds the complete views on their way to it, each as old as the moment it
was read, `answer` those of `checkHeld`, `load` the parts of the first load.
`ApplyBook`, `ApplyTrades`, `ApplyDocs`, `Answer` and `Loaded` are the handlers.
A page load is an initial state in which the backend may be anywhere in an
order's life, so there is no reload action. The backend is one status per order
with the pushes `event-ingestion.ts` makes and those the bot's direct writes do
not make; of the broadcaster it keeps what `Realtime` shows: a view is read
after the change that owes it, and views may overtake each other. A socket that
closes is replaced at once, since what happens between is covered by the first
views of the next subscription. An order has a status and, once an event of the
chain has ended it, an end: `ended` is what ingestion recorded, `stale` are the
orders the bot may still take for in flight because it read them before, and
`BotWrites` is what it then does to them, `revertToLive` (`RevertToLive`) and
PENDING without an event (`TrackDirectly`), neither of which asks for a status.
An order that is LIVE again after its end is listed again, and no second end is
pushed. A cancellation of a pending row is two steps
with everything between them: the row may be listed, or filled, while the wallet
asks. Reloads of the token or the wallet, prices, statistics and the age limit
of pending rows are left out.

### WalletBalances

A balance is the set of effects (own transactions, payments by others) it
includes, with the wallet it is of. `refresh` is the read of the effect's latest
run; a new run cancels the one before. `step` follows each own transaction from
signing to its settlement: `Accept` is the node taking it, `Track` the answer of
`sendTransaction` or of the faucet reaching the page, which may be after the
transaction was mined, indexed and read, or never (`SendFails`); then
`trackTransaction`'s wait, read and render. The wait ends with the commitment or its timeout, which is why `WaitOver` has no guard on
the chain. CKB and token balance go through the same code side by side and one of
them is modelled; the indexer is one flag per effect, behind the node. Amounts,
addresses, the token's metadata and its load are left out. Definitions whose names
`MarketView` has as well are called `WalletInit`, `WalletNext`, `WalletTypeOK` and
so on: the two are halves of one page and `InterfaceProofs` extends both.

### RequestLimits, MarketApi

`windows` is the limiter's map, a window's age capped at `windowMs`, since older
ones are all alike; `recent` is a history of what was let through. A walk holds
one endpoint, its direction and limit, and the cursor the last answer returned.
`SortKey` and `PastCursor` are kept apart, as in the code: the one is the sort
that MongoDB is asked for, the other the filter built from the cursor, and that
they agree is what the walk depends on. Rows change between pages as ingestion
makes them: a new order is created no earlier than the others, prices and
`createdAt` never change, blocks do when an order or a trade is confirmed again.

### FaucetClaims

One record per request, stepping through `reserve`, `takeBudget`, the send lock,
build, broadcast, `commit` or `restoreClaim` and the refund; each is one
database or node call. Documents carry the fields the filters read. The issuer's
cells are a version: a transaction built from version n is accepted only while n
is current. What is on chain lags behind, and the library's cache (`cached`) hides
from `Build` what this process has spent and had answered: any version from
`cached` to the current one may be picked, and a restart empties the cache. `Unlucky` calls are those whose database calls may fail, `Unheard`
those whose broadcast may throw although the node took the transaction. MongoDB may also refuse the first upsert of a day that races with
another one; the model's failing `TakeBudget` has the same effect.

## 3. Runs

All configurations bound the environment, never the code under test: blocks
(`MaxHeight`), reorganisations (`MaxReorgs`, `MaxReorgDepth`), crashes
(`CrashLimit`), the clock (`MaxTime`).

| Run | Shows | Instance |
|---|---|---|
| `order_lock` | the maker's terms, the settler's gain, alone-or-in-pair, cancellation, and that built transactions are accepted | 2 makers who also take, 2 order cells at a time out of 7 kinds (the interface's, a malformed one, an overflowing price, a sell without tokens), up to 3 distinct outputs, u64 up to 5, u128 up to 3, fee cap 1 |
| `steady` | `TypeOK`, truth of the projection, complete scan, reservations end, settled trades are recorded | 1 buy, 1 sell, other matchers, a cancelling maker, one crash, lost answers; 5 blocks, depth 2, no reorganisation, a checkpoint store past its first scan; fairness below |
| `shallow` | reorganisations below the confirmation depth stay out; bot and ingestion implement `OrderLedger` | depth 2, one reorganisation of depth 1, other matchers, other producers between any two steps; no cancellation, to stay small: it is in `steady` and the theorems |
| `deep` | rollbacks are complete | depth 1, window 2, a reorganisation of depth 3 |
| `zombie`, `orphan` | statements refuted, section 4 | |
| `matching` | price-time pairing, good pairs settle | 3 groups for 1 settlement a tick: a good one, one with 2 buys and 2 sells of which the older buy can pay for the younger sell only, a delisted one; 2 orders others may spend; 2 faults; quarantine 8; backoff 3, 6, 8 against a tick of 2, so that in the 4 ticks of a cap the at most 3 bad pairs leave one for a good pair |
| `realtime` | newest rows reach everyone, numbers increase, counts are exact | 3 sockets, two from one address, 2 channels, limits 2 and 1, one slow socket, one commit, one failed read, 3 tasks |
| `market_view` | recorded ends are true, rows neither flicker nor reopen, ended orders disappear | one order, the wallet's or another's, one view per channel and one requested list of the wallet's orders on their way; the wallet's order where the first load has failed; the bot makes an ended order LIVE or PENDING again while no submitted row, cancellation or requested list is under way (`ReleasedWhileQuiet`); fairness below |
| `faucet` | daily caps, no conflict with answered sends, one drip per cooldown, exact books, every call ends | 3 calls, one with failing database calls and one whose answer may be lost, 2 recipients, crashes, days of 2 ticks up to time 3; no call outlives its reservation; fairness below |
| `wallet` | only late answers and other settlements count twice, no foreign balance from the periodic read, the balance settles | 2 wallets, 2 transactions of one and a payment to the other, 3 connections or disconnections, 2 failed reads; fairness below |
| `market_api` | complete and repetition-free walks, bounded bursts, no refusal that is not earned | 3 rows, book keys that differ from the first in one field each, pages of 2, both directions and all three lists; 2 clients, one request per window, a map for one client |

One buy and one sell are enough for the protocol between bot, ingestion and
chain: every rule relates an order to its one counterpart and its one spender;
two orders with two possible spenders each (ours and another matcher's) give
every conflict. Heights of three to five let an order be created, buried,
spent, buried again and reorganised out. Runs that use no reorganisation say
something the runs with deep ones do not: `ProjectionIsTrue` is false of blocks
that no longer exist, until the next tick rolls them back. Under shallow
reorganisations it is proved and no run repeats it (section 5).

For the match rules three groups are the smallest number in which a bad group
can stand before and behind a good one with one settlement per tick, and the
group with two buys and two sells is where pairing has a choice. For the
broadcaster three sockets are one that stays, one that comes and goes, and one
from elsewhere; three tasks let a handler, an emit and a second handler overlap.
The widths of the ledger are small so that sums of two outputs overflow.

One order suffices for the page: its rules read and write one order at a time,
and the overtaking views are about that order. Its first load and the wallet's
own list meet only in the store of closed orders; the instance takes them apart
to stay small. `ReleasedWhileQuiet` and the start (`MCInit`: the request for the
own orders is still out exactly where the order was listed before the page was
opened) keep the bot's late writes and the submitted row apart; the theorems
about the page assume neither.

In `faucet` a day of two ticks lets claims of two days overlap, and a budget of
two and a half drips binds between two whole ones. Two own
transactions are the fewest of which one can be settled while the other is
pending. Three rows and pages of two give a full page, a cursor and a rest; a
map for one client makes the second one meet a full map, once with a live and
once with an expired window.

The bot's runs and `market_api` check deadlock. The lock's ledger, the broadcaster, the page, the
matcher's book and the faucet may stop (nothing left to spend, nobody connected,
nothing new, all orders settled, requests used up), so theirs do not.

**Fairness.** `setInterval` starts a tick whenever none is running and a tick
that does not die goes on, so `BotStep` is weakly fair; reservations fall due
with time. Nothing is assumed of miners, users or other producers. In `Matching` the interval fires (weak
fairness of `Fires`, on the timer alone), time passes between ticks, and the
calls of an attempt are answered or fail within `AttemptTime` (weak fairness of
`Attempt`); transient faults are finitely many (`MaxFaults`), since a bot whose
node never answers settles nothing. For the
faucet the event loop gets to every call and its database and node calls
return, well or badly: weak fairness of `Serve(c)`. For the wallet the interval
fires while nothing is pending, reads are answered (or fail, `MaxFailures` times)
and waits end; `ApplyRefresh` is strongly fair, because each run of the effect
cancels the read before it, and a page whose reads are cancelled for ever by
ever new runs would never show one. For the page the server reads
and sends what it owes (`Push`, `Deliver`), and the socket is lost only so often
(`onclose` reconnects without end, so a page whose network recovers is
connected in the end); REST requests, timers and the user may do nothing. This
assumes that the reads behind pushed views do not fail for ever: the broadcaster
drops a view whose read fails (`Realtime`), and the next change brings the next
one. In the instance one view of each channel is on its way at a time, so two
views of one channel overtake each other only as pushed and requested ones.

## 4. Where code and documentation part

Each run checks one statement a comment or a test makes, and TLC refutes it with
a behaviour of the code. `PROJECT.json` quotes the statements.

| Run | Statement refuted | Behaviour |
|---|---|---|
| `zombie` | FILLED and CANCELED are left only by a reorg | a leg is cancelled while the pair is reserved: reconciled, then reverted to LIVE |
| `orphan` | a rescan re-confirms orphaned orders | the rescan's event id is already processed |

The other properties hold under conditions the runs and theorems state. Where a
condition is not guaranteed by the code, this is what happens without it; change
the named constant or property to see it.

* `ScanMissesNothing` needs a growing chain and an initialised checkpoint store.
  With `MaxReorgs = 1`, `MaxReorgDepth = 1` in `steady.cfg`: an order spent in an
  unburied block is not listed by the scan, the spend is taken back, and the
  cursor is past it. With `InitialCheckpoints = {}`, both orders in one block
  and a crash between two `Index` steps: the next cursor starts above the second.
* `RollbackIsComplete` is about rollbacks that are requested. A reorganisation
  between detection and scan of one tick leaves abandoned checkpoints below a
  canonical one, and no rollback is requested; a fill recorded above the newest
  checkpoint is in a block no check compares. Of a rollback that a crash cuts
  short, after it was ingested and before its checkpoints are deleted, the next
  one is a duplicate. For two reorganisations that is harmless, which is proved;
  with `MaxReorgs = 3` and `CrashLimit = 1` in `deep.cfg` the chain can return to
  the branch whose rollback was cut short, be scanned there, and leave it again:
  that rollback has a processed event id, and nothing is rolled back.
* `bot/index.ts:593` says of a buy order that cannot pay for a settlement that
  "every sell it would meet fails the same way". The settlement carries the sell
  order's cell data (`index.ts:317`) and its owner's lock (314), whose lengths are
  part of what the buy order pays for, and `indexOrderCell` admits data longer
  than 16 bytes. `matching.cfg` has such an order: `b1` can pay for a settlement
  with `s4` and not for one with `s1` (`Unfunded = {<<b1, s1>>}`). It is put into
  quarantine for the pair with `s1`, and as `s1` is the older one it meets `s1`
  again whenever a quarantine ends. No property says that a quarantine hits the
  right order, and `GoodPairsSettle` is about buy orders that can pay for every
  sell order of their terms (`Solvent`); asked of every pair that could settle
  (`GoodPairs` with `Settleable(p)`), TLC finds `b1` and `s4` in the book for ever.
* A settlement evicted, released and submitted again has the event id of its
  first submission: it is a duplicate, nothing becomes PENDING, and the orders
  are LIVE again when the TTL ends although the settlement is pooled.
* `TradesAreRecorded` is about settlements of two listed orders, without other
  producers. A taker's settlement that is met before one leg is indexed records
  nothing and leaves the other leg LIVE for good; every tick tries it again.
  With `Producers = TRUE` in `steady.cfg`, a cancellation posted before the
  order's creation is recorded as processed, and the order, listed later, stays
  LIVE for good. `ImplementsLedger` holds in both cases: nothing false is shown
  as ended or traded.
* A lost answer of the faucet's node gives the drip's share back to the budget;
  `DailyIssuanceIsCapped` and `BooksBalance` name the calls that may (`Unheard`).
  `NoDripWithinCooldown` needs `SlowSends = FALSE`: a call that waits at the send
  lock for longer than the reservation timeout is taken over and still sends.
* `NoSelfDoubleSpend` is about the sends a process has had answered. A restarted
  faucet has an empty cache and may pick cells that a transaction of the dead
  process in the pool spends, and after a lost answer so may the same process;
  the node refuses these, and the claim is released.
* `NeverLockedOut` (`FaucetClaims`) does not hold, and no run lists it.
  `claims.ts:14` says that an old reservation is assumed abandoned and may be
  retaken; a takeover that fails puts back RESERVED without its date, and the
  retake filter (58) then never matches: the recipient is refused for ever. As
  an invariant of `faucet.cfg` TLC finds it in seconds.
* The comments at `WalletContext.jsx:119-121` and 163 say that reads are dropped
  under deltas so that nothing counts twice. A transaction whose send is answered
  after it was mined, indexed and read by the interval (`useFaucet.js:67-69`,
  `useOrders.js:227-231`) gets its delta on top of a balance that includes it, and
  of two pending transactions the settlement of one may bring up a balance that
  includes the other. Both count twice until they are settled;
  `OnlyLateAnswersCountTwice` says that there is no third way. A settlement that ends after the wallet was changed shows the old wallet's
  balance until the next periodic read (`NoForeignRefresh`, `BalancesSettle`).
* `UpdatesReachEveryone` asks for the newest view a socket was ever sent. The
  last one may be older: the number is drawn after the read, so of two
  overlapping reads the older view can be sent last, with the larger number; and
  a new subscriber can get an update before its snapshot. A failed read loses
  the update for everybody.
* A socket that closes while its snapshot is read is subscribed to its next
  channel afterwards and stays in `subscribers`; concurrent messages of a socket
  pass the channel limit together.
* `EndedOrdersDisappear` leaves out cancelled orders of others. A first load that
  was read before a realtime view and arrives after it (`MarketContext.jsx:174`)
  puts such an order back into the book until the next push; filled and own
  orders are kept out by the store of closed orders. It also leaves out own
  canceled orders that `revertToLive` has made LIVE again: a page opened after
  that shows them as open, as the backend does (`zombie`). A filled one is in the
  list of trades and stays out.
* `ClosedStoreIsTrue` grants a cancellation that was sent for a pending row: it is
  recorded as CANCELED at once and stays so on the page when the order is filled
  instead. `RowsWaitForTheirEnd` lets a row go when the backend answers LIVE:
  after `revertToLive`, which pushes nothing, the row is missing until the next
  push.
* `OwnOrdersSettleAndCancel` is about cells the interface creates. A buy order
  cell with data enters the book, because `indexOrderCell` checks only its type
  script, and settles; but the interface's cancellation refunds empty data,
  which the lock refuses for it.

## 5. Proofs

TLC checks the instances above; the theorems hold for all values of the
constants under the modules' named assumptions.

* `DexOrderLockProofs!LockSpendsAloneOrInPair` (`SpentAloneOrInPair`): one step
  lemma: each of the two branches of `ProgramEntry` fixes the number of orders
  spent, and both scripts of a pair name the same two orders (`AcceptedShape`).
* `SetSums`: every total the lock and the limiter take is `MapThenSumSet`, a
  recursion. No induction principle can be instantiated, so each fact about
  sums is proved of a smallest subset for which it would fail (`SmallestOf`, from
  the library's theorem that inclusion of finite sets is well founded): a sum may
  be taken in any order, split into disjoint parts or by key (`SumOnFibres`), and
  grows with its set.
* `DexOrderLockProofs!MakersAlwaysGetTheirTerms` (`MakersGetTheirTerms`): the
  invariant `LedgerTyped` gives cells and wallets their types; an unsigned maker's orders
  are in a pair, of which each run has checked its own maker
  (`EachRunChecksItsMaker`); token cells and plain cells are different outputs,
  so one user who made both orders is paid for both (`OutputsPayTheTerms`).
  `SettlersNeverGainMore` (`SettlersGainAtMostTheFee`): what a group with every
  signer gains is what the outputs locked to it hold, less what the signers put
  in (`GroupGains`); the makers' outputs hold at least what both runs ask for, and
  the consensus balance leaves the fee cap for all others (`NothingIsLeftOver`).
  `NoOrderIsStranded` (`MakerCanAlwaysCancel`), `TheBooksSettlementsPass`
  (`SettlementsAreAccepted`) and `UiOrdersKeepTheirPromise`
  (`OwnOrdersSettleAndCancel`) compute the sums of one and two outputs and
  compare the builders' arithmetic with the lock's; the last one needs that a
  token cell occupies some capacity.
* `DexOrderBotProofs!TypeCorrect` (`TypeOK`): inductive as it stands; one lemma
  per action over the types of the operators on the database.
* `DexOrderBotProofs!ProjectionStaysTrue` (`ProjectionIsTrue`, when
  `MaxReorgs = 0`): the claims of the projection (`TrueOfChain`) are inductive
  with `TypeOK`: what the bot or another producer writes is true when it is
  written, since a new trade, fill or cancellation passed `RequireConfirmed`
  (`TrueStep`), and on a valid chain that only grows `Committed` and `BlockOf` do
  not change (`GrowthIsHarmless`). A rollback of a block that is gone all the
  same only withdraws claims.
* `FaucetClaimsProofs!SendsDoNotConflict` (`NoSelfDoubleSpend`): only the head of
  the lock's queue may build or send, so `cached` cannot move between.
* `FaucetClaimsProofs!IssuanceIsCapped` (`DailyIssuanceIsCapped`): the
  strengthening counts: a day's budget is at least the shares held (`paid`),
  every call past the budget step holds one, and only a call whose answer was
  lost can be sent and hold none.
* `FaucetClaimsProofs!BooksAlwaysBalance` (`BooksBalance`): the same accounting,
  where the day's budget equals the shares held, and how each call can have
  ended (`Endings`, `Reservations`). `OneDripPerCooldown`
  (`NoDripWithinCooldown`, when `SlowSends = FALSE`): a call between reservation
  and commit owns its claim (`Held`), and a drip on record keeps the next
  reservation out for the cooldown (`Cooled`). `QueueIsExact` (`TypeOK`): the
  queue is exactly the calls that wait or send (`Queued`).
* `InterfaceProofs!RefreshesCountOnce` (`OnlyLateAnswersCountTwice`),
  `RefreshesAreOfTheSigner` (`NoForeignRefresh`) and `DeltasAreTemporary`
  (`WalletTypeOK`): what a balance includes has been indexed (`Witnessed`), so a
  delta that starts on top of it is that of a late answer, and a periodic read is
  shown only where there is no delta; a read under way is of the connected wallet
  (`ReadsSigner`).
* `InterfaceProofs!RecordedEndsAreTrue` (`ClosedStoreIsTrue`) and
  `ViewsStayConsistent` (`TypeOK`): views overtake each other, so no comparison of
  two of them helps; instead each is shown to have been true once and to have
  stayed true enough. Listed orders stay listed, and the end an event has recorded is final even where
  the status is not (`Onward`, `StepsOnward`); a status that reports an end reports
  that one (`BackendTrue`), hence what a view may say only grows (`ViewsStayTrue`), and the
  invariant says it of everything on its way (`NetTrue`) and of everything on the
  page (`PageTrue`). `EndsAreNotTakenBack` (`EndedOrdersStayEnded`) follows because
  the store forgets nothing (`EndsAreKept`), `RowsAreKept` (`RowsWaitForTheirEnd`)
  because each handler that takes a row from `book` or `held` moves it to the other
  or has its end.
* `RealtimeProofs!SequencesIncrease` (`NumbersIncrease`), `CountsAreExact`
  (`ConnectionsAreCounted`) and `SubscriptionsAgree` (`TypeOK`): a handler's open
  socket is subscribed to the channel it reads (`Working`), an open socket has no
  number above its channel's and none of a channel it is not subscribed to
  (`Numbered`), and a socket that was never accepted is nowhere (`Strangers`).
  Closed sockets, to which none of this applies, keep nothing that counts.
* `RealtimeProofs!SubscribersAreServed` (`UpdatesReachEveryone`): the property
  speaks of the moments when nothing is under way, its invariant (`Served`) of all
  others: whatever an open subscriber lacks, some task is going to bring, one that
  read its rows after the last announcement or has yet to read them (`Brings`).
  Each action that ends such a task's duty has sent the rows (`AwaitedKept`), or
  was a failed read, which the property excuses.
* `MarketApiProofs!WalksAreComplete` (`SteadyRowsOnce`): the sort of a page and
  the filter of its cursor are one strict order (`SoonerIs`,
  `PastCursorIsAfter`), the last row of a page separates what was sent from what
  is left (`LastSeparates`), hence what stays put before the cursor has been
  received and what is after it has not (`Swept`).
* `MarketApiProofs!BurstsStayBounded` (`BurstsAreBounded`), `RefusalsStayEarned`
  (`RefusalsAreEarned`) and `LimiterIsBounded`: a live window's count is what was
  let through since it opened, and at most `max` was let through before it, so a
  full window is `max` requests served and every window tracked is a client served;
  a client without a live window has had at most `max` (`Burst`). That is why
  pruning expired windows forgets nothing that matters.
* `DexOrderBotProofs!NothingToRollBack` (`ShallowReorgsStayOut`),
  `MatcherImplementsLedger` (`ImplementsLedger`) and `OrdersTradeOnce`, assuming
  `Shallow`: reorganisations are shallower than the confirmation depth, and the
  checkpoints the first process starts with are buried in the initial chain. One
  invariant serves all three: every hash the bot compares is buried
  (`HashesAreBuried`), so detection finds nothing and no rollback starts; what the
  database says of orders and trades, the settled part of the chain says
  (`Sound`); the orders the retry and match loops write about are indexed
  (`AtWork`). The settled part only grows (a reorganisation keeps all but its
  last `MaxReorgDepth` blocks), a valid chain spends an order once, hence fates
  are final; what ingestion adds has passed `RequireConfirmed`. The refinement
  then maps each step of the bot to `Learn`, each of the chain to `Fulfil`, or to
  a stutter.
* `DexOrderBotProofs!BuriedProjectionIsTrue` (`ProjectionIsTrue`, assuming
  `Shallow`): `Inv` and `TrueOfChain` together. The bot's own steps are those of
  `ProjectionStaysTrue`; for a reorganisation, `Sound` says that each trade,
  fill and cancellation on record is settled, and a settled transaction keeps its
  block (`SettledKeepsItsBlock`), because at most one block of a valid chain
  holds it and the chain up to that block is untouched.
* `DexOrderBotProofs!ScanIsComplete` (`ScanMissesNothing`, when `MaxReorgs = 0` and
  the store is `CaughtUp`): while a range is indexed, an order that is open at or
  below its pinned end is in the book or still in the loop's work
  (`RangeCovered`); an order whose confirmation was processed is present
  (`ConfirmedOnce`), so no duplicate swallows one that is not.
  `CaughtUp` asks that the checkpoints the bot starts with have no open order
  below them, and that a bot without any is not interrupted in its first scan
  and has the ingestion endpoint to itself; section 4 shows what happens else.
* `DexOrderBotProofs!RollbacksAreComplete` (`RollbackIsComplete`): for
  reorganisations of any depth, when the bot is the only producer, the initial
  checkpoints are buried, and nothing crashes or there are at most two
  reorganisations. A rollback is keyed by the checkpoint that is its evidence, so
  the question is whether an event id can be processed already although its
  rollback is not done. Evidence is older than the blocks indexed since
  (`Past`). Without crashes the store is rewound before anything else happens, and
  no evidence is met twice (`Calm`). With them the evidence of the rollback that
  was cut short is met again before the next scan, or has become canonical
  (`Remembered`). TLC found the third reorganisation that breaks
  the latter.
* `MatchingProofs!TypeCorrect` (`TypeOK`): a backoff doubles within its cap, and
  a tick is over before the interval fires again (`TimerRuns`, `QueueIsMatched`).
  `MatchesStayStable` (`MatchesAreStable`): `findMatches` is two enumerations, of
  the buys by turn and of the pairs by place; in a strict order on a finite set
  ranks are taken without gaps (`RanksGrow`, `RanksAreTaken`), and greedy pairing
  is stable from one turn to the next (`TurnPairs`).

Only model-checked is liveness (`ReservationsEnd`, `TradesAreRecorded`,
`EveryCallEnds`, `GoodPairsSettle`, `EndedOrdersDisappear`, `BalancesSettle`): its
fairness conditions speak of ENABLED, which is out of the prover's reach. Each safety
property of the passing runs is stated by a theorem. `ProjectionIsTrue`
is checked on a growing chain and proved there and under reorganisations
shallower than the confirmation depth; `ScanMissesNothing` is about a growing
chain, in the run as in the theorem.

## 6. Not modelled

Field-by-field comparison of events with the chain (the model's events are
built from the chain), the two queries of the API without pages, configuration
and startup, reorganisations as the interface sees them, forms, rendering and
wallet libraries, the order creation and token issue scripts, the training
contract. Reasons are in `PROJECT.json`.

## 7. Plan

What is left, in this order:

1. `MarketView` composed with `Realtime` as its server, and with
   reorganisations; the statement "a `snapshot`, then `update`"
   (`README.md:161`), which the broadcaster can break.
2. Instances of the bot: two buys for one sell, an event verification always
   rejects.
3. Proofs: `ScanMissesNothing` under reorganisations shallower than the confirmation
   depth; `RollbackIsComplete` with other producers.
