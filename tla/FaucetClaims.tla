--------------------------- MODULE FaucetClaims ---------------------------
(***************************************************************************)
(* The demo faucet (faucet/src/services/claims.ts, services/faucet.ts,     *)
(* utils/mutex.ts).  A call of POST /claim reserves the recipient's claim  *)
(* document, then a share of the day's budget, waits its turn at the send  *)
(* lock, builds and broadcasts, and records the claim or undoes the two    *)
(* reservations.  Calls run concurrently; every database call is one       *)
(* atomic step; the process may die between any two.                       *)
(*                                                                         *)
(* Abstractions: a recipient is its lock hash, a reservation id is the     *)
(* call that drew it, the issuer's cells are a version number that every   *)
(* accepted transaction changes.  Which of them are spent the process      *)
(* learns from the chain, once a transaction is mined, and from the cache  *)
(* in ccc, which holds what this process sent and got an answer for.  A    *)
(* database call that fails has changed nothing.                           *)
(***************************************************************************)
EXTENDS Integers, FiniteSets, Sequences

CONSTANTS
    Calls,              \* requests of one behaviour, also their reservation ids
    Recipients,
    NoCall,
    cooldown, reservationTimeout, dayLength,   \* in ticks
    dripAmount, dailyMaxClaims, dailyMaxTokens,
    MaxTime,            \* bound: the clock
    Crashes,            \* whether the process may die
    Unlucky,            \* calls whose database calls may fail
    Unheard,            \* calls whose broadcast may fail although the node accepted
    SlowSends           \* whether a reservation may go stale while its call lives

ASSUME FaucetConstants ==
    /\ IsFiniteSet(Calls) /\ NoCall \notin Calls /\ Recipients # {}
    /\ cooldown \in Nat \ {0} /\ reservationTimeout \in Nat \ {0} /\ dayLength \in Nat \ {0}
    /\ dripAmount \in Nat \ {0} /\ dailyMaxClaims \in Nat \ {0}
    /\ dailyMaxTokens \in Nat /\ dailyMaxTokens >= dripAmount
    /\ MaxTime \in Nat
    /\ Unlucky \subseteq Calls /\ Unheard \subseteq Calls
    /\ {Crashes, SlowSends} \subseteq BOOLEAN

VARIABLES
    now,
    claims,       \* recipient -> FaucetClaim document
    budget,       \* day -> FaucetBudget document
    calls,        \* call -> where it is and what it remembers
    queue,        \* calls at the send lock, the holder first
    issuerCells,  \* version of the issuer's unspent cells, the pool's spends included
    cached,       \* the version the process knows of by its own sends
    paid,         \* history: calls that hold a share of a day's budget
    sent          \* history: calls whose transaction the node accepted

history == <<paid, sent>>
vars == <<now, claims, budget, calls, queue, issuerCells, cached, history>>

Never == -1
Day(time) == time \div dayLength
Days == 0..Day(MaxTime)

NoClaim == [status |-> "none", reservedAt |-> Never, reservationId |-> NoCall,
            lastClaimedAt |-> Never]
NewCall == [pc |-> "new", to |-> CHOOSE r \in Recipients : TRUE, at |-> 0,
            previous |-> "none", picked |-> 0, attempt |-> 1]

Live == {"budget", "queued", "sending", "commit", "undo", "refund"}
Steps == Live \cup {"new", "done", "rejected", "failed", "dead"}

In(c, step) == calls[c].pc = step
\* What a call picked is of no use after its next step.
Go(c, step) == calls' = [calls EXCEPT ![c].pc = step, ![c].picked = 0]
Doc(c) == claims[calls[c].to]
DayOf(c) == Day(calls[c].at)

---------------------------------------------------------------------------
(* ClaimStore.reserve                                                      *)

\* Mutant: any reservation may be taken over.
ClaimableInProgress(doc) ==
    \/ doc.status \in {"none", "RESERVED"}
    \/ doc.lastClaimedAt = Never \/ doc.lastClaimedAt <= now - cooldown

\* The upsert's filter: no document, a claim that has cooled down, or a
\* reservation that is old enough to be abandoned.
Claimable(doc) ==
    \/ doc.status = "none"
    \/ /\ doc.status = "SENT"
       /\ doc.lastClaimedAt = Never \/ doc.lastClaimedAt <= now - cooldown
    \/ /\ doc.status = "RESERVED"
       /\ doc.reservedAt # Never /\ doc.reservedAt <= now - reservationTimeout

Reserve(c, r) ==
    /\ In(c, "new")
    /\ IF Claimable(claims[r])
       THEN /\ claims' = [claims EXCEPT ![r].status = "RESERVED", ![r].reservedAt = now,
                                        ![r].reservationId = c]
            /\ calls' = [calls EXCEPT ![c].pc = "budget", ![c].to = r, ![c].at = now,
                                      ![c].previous = claims[r].status]
       ELSE Go(c, "rejected") /\ UNCHANGED claims
    /\ UNCHANGED <<now, budget, queue, issuerCells, cached, history>>

\* Mutant: the token budget is compared before the drip is added.
WithinBudgetOffByOne(b) == b.claims < dailyMaxClaims /\ b.tokens <= dailyMaxTokens

WithinBudget(b) == b.claims < dailyMaxClaims /\ b.tokens <= dailyMaxTokens - dripAmount

\* takeBudget; a refusal frees the recipient again.
TakeBudget(c) ==
    /\ In(c, "budget")
    /\ \/ /\ WithinBudget(budget[DayOf(c)])
          /\ budget' = [budget EXCEPT ![DayOf(c)] = [claims |-> @.claims + 1,
                                                     tokens |-> @.tokens + dripAmount]]
          /\ Go(c, "queued")
          /\ queue' = Append(queue, c)
          /\ paid' = paid \cup {c}
       \/ /\ c \in Unlucky \/ ~WithinBudget(budget[DayOf(c)])
          /\ Go(c, "undo")
          /\ UNCHANGED <<budget, queue, paid>>
    /\ UNCHANGED <<now, claims, issuerCells, cached, sent>>

---------------------------------------------------------------------------
(* sendLock.run(send)                                                      *)

\* Mutant: no lock, every call builds at once.
HasLockAlways(c) == \E i \in DOMAIN queue : queue[i] = c

HasLock(c) == queue # <<>> /\ Head(queue) = c

\* completeInputsByCapacity picks issuer cells: the indexer lists what is on
\* chain, the cache hides what this process has spent since.  A transaction of a
\* process that died, or one whose answer was lost, may be in the pool unseen.
Build(c) ==
    /\ In(c, "queued") /\ HasLock(c)
    /\ \E version \in cached..issuerCells :
         calls' = [calls EXCEPT ![c].pc = "sending", ![c].picked = version]
    /\ UNCHANGED <<now, claims, budget, queue, issuerCells, cached, history>>

\* Mutant: a task that throws keeps the lock.
NextTaskOnSuccess(c, threw) == IF threw THEN queue ELSE Tail(queue)

\* The lock passes on however the task ended.
NextTask(c, threw) == Tail(queue)

Broadcast(c) ==
    /\ In(c, "sending")
    /\ \E accepted, threw \in BOOLEAN :
         /\ accepted => calls[c].picked = issuerCells
         /\ threw # accepted \/ (c \in Unheard /\ threw)
         /\ Go(c, IF threw THEN "undo" ELSE "commit")
         /\ sent' = IF accepted THEN sent \cup {c} ELSE sent
         /\ issuerCells' = IF accepted THEN issuerCells + 1 ELSE issuerCells
         /\ cached' = IF threw THEN cached ELSE issuerCells'
         /\ queue' = NextTask(c, threw)
    /\ UNCHANGED <<now, claims, budget, paid>>

---------------------------------------------------------------------------
(* commit and release                                                      *)

\* The document still carries this call's reservation.
Mine(c) == Doc(c).reservationId = c

MaxAttempts == 3

\* A commit that finds another reservation changes nothing and succeeds.
Commit(c) ==
    /\ In(c, "commit")
    /\ \/ /\ claims' = IF Mine(c)
                       THEN [claims EXCEPT ![calls[c].to] =
                               [NoClaim EXCEPT !.status = "SENT", !.lastClaimedAt = now]]
                       ELSE claims
          /\ Go(c, "done")
       \/ /\ c \in Unlucky
          /\ calls' = [calls EXCEPT ![c].pc = IF calls[c].attempt >= MaxAttempts
                                              THEN "done" ELSE @,
                                    ![c].attempt = @ + 1]
          /\ UNCHANGED claims
    /\ UNCHANGED <<now, budget, queue, issuerCells, cached, history>>

\* restoreClaim: a first claim's document is deleted, another gets its old
\* status back; when it was a reservation taken over, it is RESERVED again
\* and no longer says since when.
RestoreClaim(c) ==
    /\ In(c, "undo")
    /\ \/ /\ claims' =
               IF ~Mine(c) THEN claims
               ELSE IF calls[c].previous = "none" THEN [claims EXCEPT ![calls[c].to] = NoClaim]
               ELSE [claims EXCEPT ![calls[c].to] =
                       [NoClaim EXCEPT !.status = calls[c].previous,
                                       !.lastClaimedAt = Doc(c).lastClaimedAt]]
          /\ Go(c, IF c \in paid THEN "refund" ELSE "rejected")
       \/ c \in Unlucky /\ Go(c, "failed") /\ UNCHANGED claims
    /\ UNCHANGED <<now, budget, queue, issuerCells, cached, history>>

\* Mutant: the day gets its tokens back but not the claim.
RefundTokensOnly(c) ==
    /\ In(c, "refund")
    /\ budget' = [budget EXCEPT ![DayOf(c)].tokens = @ - dripAmount]
    /\ Go(c, "failed")
    /\ paid' = paid \ {c}
    /\ UNCHANGED <<now, claims, queue, issuerCells, cached, sent>>

Refund(c) ==
    /\ In(c, "refund")
    /\ \/ /\ budget' = [budget EXCEPT ![DayOf(c)] = [claims |-> @.claims - 1,
                                                     tokens |-> @.tokens - dripAmount]]
          /\ paid' = paid \ {c}
       \/ c \in Unlucky /\ UNCHANGED <<budget, paid>>
    /\ Go(c, "failed")
    /\ UNCHANGED <<now, claims, queue, issuerCells, cached, sent>>

---------------------------------------------------------------------------
Fresh(c, time) == time - calls[c].at < reservationTimeout

Tick ==
    /\ now < MaxTime
    /\ SlowSends \/ \A c \in Calls : calls[c].pc \in Live => Fresh(c, now + 1)
    /\ now' = now + 1
    /\ UNCHANGED <<claims, budget, calls, queue, issuerCells, cached, history>>

\* The process restarts: its calls and its cache are gone, the documents stay.
Crash ==
    /\ Crashes /\ \E c \in Calls : calls[c].pc \in Live
    /\ calls' = [c \in Calls |-> IF calls[c].pc \in Live
                                 THEN [calls[c] EXCEPT !.pc = "dead", !.picked = 0] ELSE calls[c]]
    /\ queue' = <<>> /\ cached' = 0
    /\ UNCHANGED <<now, claims, budget, issuerCells, history>>

Init ==
    /\ now = 0
    /\ claims = [r \in Recipients |-> NoClaim]
    /\ budget = [d \in Days |-> [claims |-> 0, tokens |-> 0]]
    /\ calls = [c \in Calls |-> NewCall]
    /\ queue = <<>>
    /\ issuerCells = 0 /\ cached = 0
    /\ paid = {} /\ sent = {}

Serve(c) ==
    \/ TakeBudget(c) \/ Build(c) \/ Broadcast(c)
    \/ Commit(c) \/ RestoreClaim(c) \/ Refund(c)

Next ==
    \/ \E c \in Calls : (\E r \in Recipients : Reserve(c, r)) \/ Serve(c)
    \/ Tick \/ Crash

Spec == Init /\ [][Next]_vars

\* The event loop gets to every call, and database and node answer.
FairSpec == Spec /\ \A c \in Calls : WF_vars(Serve(c))
---------------------------------------------------------------------------
(* Properties                                                              *)

ClaimDocs == [status: {"none", "RESERVED", "SENT"}, reservedAt: Int,
              reservationId: Calls \cup {NoCall}, lastClaimedAt: Int]
CallStates == [pc: Steps, to: Recipients, at: 0..MaxTime,
               previous: {"none", "RESERVED", "SENT"}, picked: Nat, attempt: Nat]

\* Types; the send lock's queue holds exactly the calls that wait or send,
\* each of them once.
TypeOK ==
    /\ now \in 0..MaxTime
    /\ claims \in [Recipients -> ClaimDocs]
    /\ budget \in [Days -> [claims: Nat, tokens: Nat]]
    /\ calls \in [Calls -> CallStates]
    /\ issuerCells \in Nat /\ cached \in 0..issuerCells
    /\ sent \subseteq Calls /\ paid \subseteq Calls
    /\ queue \in Seq(Calls)
    /\ {queue[i] : i \in DOMAIN queue} = {c \in Calls : calls[c].pc \in {"queued", "sending"}}
    /\ \A i, j \in DOMAIN queue : i # j => queue[i] # queue[j]

SentOn(d) == {c \in sent : DayOf(c) = d}
PaidOn(d) == {c \in paid : DayOf(c) = d}

\* What was broadcast for one day never exceeds the day's two limits, whatever
\* crashes, failed database calls, takeovers and refunds there were.  Only a
\* lost answer gives back the share of a drip that went out, and only its own.
DailyIssuanceIsCapped ==
    /\ sent \ paid \subseteq Unheard
    /\ \A d \in Days : /\ Cardinality(SentOn(d) \cap paid) <= dailyMaxClaims
                       /\ Cardinality(SentOn(d) \cap paid) * dripAmount <= dailyMaxTokens

\* Sends of one process do not conflict: no transaction is broadcast that was
\* built before another one was sent and answered.  What a process that died or
\* a lost answer left in the pool only the node refuses.
NoSelfDoubleSpend ==
    \A c \in Calls : In(c, "sending") => calls[c].picked >= cached

\* No drip goes out to a recipient whose last recorded claim is younger than
\* the cooldown.
NoDripWithinCooldown ==
    [][\A c \in Calls :
         (c \in sent' /\ c \notin sent) =>
           \/ Doc(c).lastClaimedAt = Never
           \/ Doc(c).lastClaimedAt <= now - cooldown]_vars

\* The books are exact: a day's budget counts the calls that hold a share of
\* it, and a call that ended without a crash, a failed database call or a lost
\* answer holds a share if and only if its drip went out, and no reservation.
BooksBalance ==
    /\ \A d \in Days : budget[d] = [claims |-> Cardinality(PaidOn(d)),
                                    tokens |-> Cardinality(PaidOn(d)) * dripAmount]
    /\ \A c \in Calls \ (Unlucky \cup Unheard) :
         calls[c].pc \in {"done", "rejected", "failed"} =>
           /\ c \in paid <=> c \in sent
           /\ \A r \in Recipients : claims[r].reservationId # c

\* A reservation can always be given up for abandoned: it says since when.
\* No run checks this, because it does not hold: a failed takeover restores a
\* reservation without its date.
NeverLockedOut ==
    \A r \in Recipients : claims[r].status = "RESERVED" => claims[r].reservedAt # Never

\* Every call under way gets an answer, or dies with the process, whatever
\* happens to the calls in front of it at the send lock.
EveryCallEnds == []<>(\A c \in Calls : calls[c].pc \notin Live)
===========================================================================
