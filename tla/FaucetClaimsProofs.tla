------------------------ MODULE FaucetClaimsProofs ------------------------
(***************************************************************************)
(* What the faucet promises for any number of calls and recipients: sends  *)
(* never conflict with each other, the day's issuance is capped, a         *)
(* recipient gets one drip per cooldown, and the books balance.            *)
(*                                                                         *)
(* The cap is not inductive.  The argument is by accounting: a call holds  *)
(* a share of its day's budget from takeBudget until it is refunded        *)
(* (paid), the budget document counts the holders exactly, and a           *)
(* call whose drip went out is a holder that can no longer be refunded.    *)
(***************************************************************************)
EXTENDS FaucetClaims, FiniteSetTheorems, SequenceTheorems, TLAPS

Documents ==
    /\ budget \in [Days -> [claims: Int, tokens: Int]]
    /\ calls \in [Calls -> CallStates]
    /\ queue \in Seq(Calls)
    /\ issuerCells \in Nat /\ cached \in 0..issuerCells
    /\ paid \subseteq Calls /\ sent \subseteq Calls

Types == now \in 0..MaxTime /\ claims \in [Recipients -> ClaimDocs] /\ Documents

\* Where a call that holds a share, or has sent, can be.
Places ==
    \A c \in Calls :
      /\ calls[c].pc \in {"new", "budget"} => c \notin paid
      /\ calls[c].pc \in {"queued", "sending", "refund"} => c \in paid
      /\ c \in sent \ Unheard => c \in paid /\ calls[c].pc \in {"commit", "done", "dead"}

Accounting ==
    \A d \in Days :
      /\ budget[d].claims = Cardinality(PaidOn(d))
      /\ budget[d].claims <= dailyMaxClaims
      /\ budget[d].tokens = budget[d].claims * dripAmount
      /\ budget[d].tokens <= dailyMaxTokens

\* The send lock: whoever is sending holds it, and no answered send has
\* spent what it picked.
Exclusion ==
    \A c \in Calls : In(c, "sending") =>
      queue # <<>> /\ Head(queue) = c /\ calls[c].picked \in cached..issuerCells

---------------------------------------------------------------------------
(* Types                                                                   *)

LEMMA NoClaimType == NoClaim \in ClaimDocs
  BY DEF NoClaim, ClaimDocs, Never

LEMMA TypesInit == Init => Types
<1> SUFFICES ASSUME Init PROVE Types
  OBVIOUS
<1>1. (CHOOSE r \in Recipients : TRUE) \in Recipients
  BY FaucetConstants
<1>2. NewCall \in CallStates
  BY <1>1, FaucetConstants DEF NewCall, CallStates, Steps, Live
<1> QED
  BY <1>2, NoClaimType, FaucetConstants DEF Init, Types, Documents

LEMMA CallStep ==
    ASSUME calls \in [Calls -> CallStates], NEW c \in Calls, NEW step \in Steps, Go(c, step)
    PROVE  calls' \in [Calls -> CallStates]
<1>1. [calls[c] EXCEPT !.pc = step, !.picked = 0] \in CallStates
  BY DEF CallStates
<1> QED
  BY <1>1 DEF Go

LEMMA TypesStep == Types /\ Exclusion /\ [Next]_vars => Types'
<1> SUFFICES ASSUME Types, Exclusion, [Next]_vars PROVE Types'
  OBVIOUS
<1> USE DEF Types, Documents, history
<1>s. {"rejected", "undo", "refund", "failed", "commit", "done", "queued",
       "sending", "budget", "dead"} \subseteq Steps
  BY DEF Steps, Live
<1>n. now \in Int
  BY FaucetConstants
<1>d. ASSUME NEW d, NEW n \in Int, NEW t \in Int
      PROVE  [budget EXCEPT ![d] = [claims |-> @.claims + n, tokens |-> @.tokens + t]]
               \in [Days -> [claims: Int, tokens: Int]]
  <2>1. CASE d \in Days
    <3>1. budget[d] \in [claims: Int, tokens: Int]
      BY <2>1
    <3>2. [claims |-> budget[d].claims + n, tokens |-> budget[d].tokens + t]
            \in [claims: Int, tokens: Int]
      BY <3>1
    <3> QED
      BY <3>2
  <2>2. CASE d \notin Days
    BY <2>2
  <2> QED
    BY <2>1, <2>2
<1>1. ASSUME NEW c \in Calls, NEW r \in Recipients, Reserve(c, r) PROVE Types'
  <2>1. CASE Claimable(claims[r])
    <3> DEFINE new == [calls[c] EXCEPT !.pc = "budget", !.to = r, !.at = now,
                                       !.previous = claims[r].status]
               doc == [claims[r] EXCEPT !.status = "RESERVED", !.reservedAt = now,
                                        !.reservationId = c]
    <3>1. new \in CallStates
      BY <1>s DEF ClaimDocs, CallStates
    <3>a. doc \in ClaimDocs
      BY <1>n DEF ClaimDocs
    <3>2. calls' = [calls EXCEPT ![c] = new] /\ claims' = [claims EXCEPT ![r] = doc]
      BY <1>1, <2>1 DEF Reserve
    <3> HIDE DEF new, doc
    <3>3. calls' \in [Calls -> CallStates] /\ claims' \in [Recipients -> ClaimDocs]
      BY <3>1, <3>a, <3>2
    <3> QED
      BY <1>1, <3>3 DEF Reserve
  <2>2. CASE ~Claimable(claims[r])
    <3>1. Go(c, "rejected") /\ "rejected" \in Steps /\ UNCHANGED claims
      BY <1>1, <2>2, <1>s DEF Reserve
    <3>2. calls' \in [Calls -> CallStates]
      BY <3>1, CallStep
    <3> QED
      BY <1>1, <3>1, <3>2 DEF Reserve
  <2> QED
    BY <2>1, <2>2
<1>2. ASSUME NEW c \in Calls, TakeBudget(c) PROVE Types'
  <2>1. CASE Go(c, "undo") /\ UNCHANGED <<budget, queue, paid>>
    <3>1. calls' \in [Calls -> CallStates]
      BY <2>1, <1>s, CallStep
    <3> QED
      BY <1>2, <2>1, <3>1 DEF TakeBudget
  <2>2. CASE /\ budget' = [budget EXCEPT ![DayOf(c)] = [claims |-> @.claims + 1,
                                                        tokens |-> @.tokens + dripAmount]]
             /\ Go(c, "queued")
             /\ queue' = Append(queue, c)
             /\ paid' = paid \cup {c}
    <3>2. calls' \in [Calls -> CallStates]
      BY <2>2, <1>s, CallStep
    <3>3. budget' \in [Days -> [claims: Int, tokens: Int]]
      <4>1. 1 \in Int /\ dripAmount \in Int
        BY FaucetConstants
      <4>2. [budget EXCEPT ![DayOf(c)] = [claims |-> @.claims + 1,
                                          tokens |-> @.tokens + dripAmount]]
              \in [Days -> [claims: Int, tokens: Int]]
        BY <4>1, <1>d
      <4> QED
        BY <2>2, <4>2
    <3> QED
      BY <1>2, <2>2, <3>2, <3>3 DEF TakeBudget
  <2> QED
    BY <1>2, <2>1, <2>2 DEF TakeBudget
<1>3. ASSUME NEW c \in Calls, Build(c) PROVE Types'
  <2>1. PICK version \in cached..issuerCells :
          calls' = [calls EXCEPT ![c].pc = "sending", ![c].picked = version]
    BY <1>3 DEF Build
  <2> DEFINE new == [calls[c] EXCEPT !.pc = "sending", !.picked = version]
  <2>2. version \in Nat
    BY <2>1
  <2>3. new \in CallStates /\ calls' = [calls EXCEPT ![c] = new]
    BY <2>1, <2>2, <1>s DEF CallStates
  <2> HIDE DEF new
  <2> QED
    BY <1>3, <2>3 DEF Build
<1>4. ASSUME NEW c \in Calls, Broadcast(c) PROVE Types'
  <2>1. PICK accepted \in BOOLEAN, threw \in BOOLEAN :
          /\ Go(c, IF threw THEN "undo" ELSE "commit")
          /\ sent' = IF accepted THEN sent \cup {c} ELSE sent
          /\ issuerCells' = IF accepted THEN issuerCells + 1 ELSE issuerCells
          /\ cached' = IF threw THEN cached ELSE issuerCells'
          /\ queue' = NextTask(c, threw)
    BY <1>4 DEF Broadcast
  <2>2. \E step \in Steps : Go(c, step)
    BY <2>1, <1>s
  <2>4. calls' \in [Calls -> CallStates]
    BY <2>2, CallStep
  <2>6. sent' \subseteq Calls
    BY <2>1
  <2>5. issuerCells' \in Nat /\ cached' \in 0..issuerCells'
    BY <2>1
  <2>7. queue' \in Seq(Calls)
    <3>1. queue # <<>>
      BY <1>4 DEF Broadcast, Exclusion
    <3> QED
      BY <2>1, <3>1, HeadTailProperties DEF NextTask
  <2> QED
    BY <1>4, <2>4, <2>5, <2>6, <2>7 DEF Broadcast
<1>5. ASSUME NEW c \in Calls, Commit(c) PROVE Types'
  <2>1. claims' \in [Recipients -> ClaimDocs]
    <3> DEFINE doc == [NoClaim EXCEPT !.status = "SENT", !.lastClaimedAt = now]
    <3>1. doc \in ClaimDocs
      BY <1>n, NoClaimType DEF ClaimDocs
    <3>2. claims' = claims \/ claims' = [claims EXCEPT ![calls[c].to] = doc]
      BY <1>5 DEF Commit
    <3> HIDE DEF doc
    <3> QED
      BY <3>1, <3>2
  <2>2. calls' \in [Calls -> CallStates]
    <3>1. CASE Go(c, "done")
      BY <3>1, <1>s, CallStep
    <3>2. CASE calls' = [calls EXCEPT ![c].pc = IF calls[c].attempt >= MaxAttempts
                                                THEN "done" ELSE @,
                                      ![c].attempt = @ + 1]
      <4> DEFINE new == [calls[c] EXCEPT !.pc = IF calls[c].attempt >= MaxAttempts
                                                THEN "done" ELSE @,
                                         !.attempt = @ + 1]
      <4>1. calls[c].attempt + 1 \in Nat
        BY DEF CallStates
      <4>2. new \in CallStates
        BY <4>1, <1>s DEF CallStates
      <4>3. calls' = [calls EXCEPT ![c] = new]
        BY <3>2
      <4> HIDE DEF new
      <4> QED
        BY <4>2, <4>3
    <3> QED
      BY <1>5, <3>1, <3>2 DEF Commit
  <2> QED
    BY <1>5, <2>1, <2>2 DEF Commit
<1>6. ASSUME NEW c \in Calls, RestoreClaim(c) PROVE Types'
  <2>1. claims' \in [Recipients -> ClaimDocs]
    <3> DEFINE old == [NoClaim EXCEPT !.status = calls[c].previous,
                                      !.lastClaimedAt = Doc(c).lastClaimedAt]
    <3>a. calls[c].previous \in {"none", "RESERVED", "SENT"} /\ calls[c].to \in Recipients
      BY DEF CallStates
    <3>b. Doc(c).lastClaimedAt \in Int
      BY <3>a DEF Doc, ClaimDocs
    <3>1. old \in ClaimDocs /\ NoClaim \in ClaimDocs
      BY <3>a, <3>b, NoClaimType DEF ClaimDocs
    <3>2. \/ claims' = claims
          \/ claims' = [claims EXCEPT ![calls[c].to] = NoClaim]
          \/ claims' = [claims EXCEPT ![calls[c].to] = old]
      BY <1>6 DEF RestoreClaim
    <3> HIDE DEF old
    <3> QED
      BY <3>1, <3>2
  <2>2. \E step \in Steps : Go(c, step)
    BY <1>6, <1>s DEF RestoreClaim
  <2>3. calls' \in [Calls -> CallStates]
    BY <2>2, CallStep
  <2> QED
    BY <1>6, <2>1, <2>3 DEF RestoreClaim
<1>7. ASSUME NEW c \in Calls, Refund(c) PROVE Types'
  <2>c. calls' \in [Calls -> CallStates]
    BY <1>7, <1>s, CallStep DEF Refund
  <2>1. CASE UNCHANGED <<budget, paid>>
    BY <1>7, <2>1, <2>c DEF Refund
  <2>2. CASE /\ budget' = [budget EXCEPT ![DayOf(c)] = [claims |-> @.claims - 1,
                                                        tokens |-> @.tokens - dripAmount]]
             /\ paid' = paid \ {c}
    <3>3. budget' \in [Days -> [claims: Int, tokens: Int]]
      <4>1. -1 \in Int /\ -dripAmount \in Int
        BY FaucetConstants
      <4>2. [budget EXCEPT ![DayOf(c)] = [claims |-> @.claims + (-1),
                                          tokens |-> @.tokens + (-dripAmount)]]
              \in [Days -> [claims: Int, tokens: Int]]
        BY <4>1, <1>d
      <4>3. budget' = [budget EXCEPT ![DayOf(c)] = [claims |-> @.claims + (-1),
                                                    tokens |-> @.tokens + (-dripAmount)]]
        BY <2>2, FaucetConstants
      <4> QED
        BY <4>2, <4>3
    <3> QED
      BY <1>7, <2>2, <2>c, <3>3 DEF Refund
  <2> QED
    BY <1>7, <2>1, <2>2 DEF Refund
<1>8. CASE Tick
  BY <1>8, FaucetConstants DEF Tick
<1>9. CASE Crash
  <2>1. \A c \in Calls : [calls[c] EXCEPT !.pc = "dead", !.picked = 0] \in CallStates
    BY <1>s DEF CallStates
  <2>2. calls' \in [Calls -> CallStates]
    BY <1>9, <2>1 DEF Crash
  <2>3. /\ queue' = <<>> /\ cached' = 0
        /\ UNCHANGED <<now, claims, budget, issuerCells, paid, sent>>
    BY <1>9 DEF Crash, history
  <2>4. queue' \in Seq(Calls)
    BY <2>3, EmptySeq
  <2>5. cached' \in 0..issuerCells'
    BY <2>3
  <2> QED
    BY <2>2, <2>3, <2>4, <2>5
<1>10. CASE UNCHANGED vars
  BY <1>10 DEF vars, history
<1> QED
  BY <1>1, <1>2, <1>3, <1>4, <1>5, <1>6, <1>7, <1>8, <1>9, <1>10 DEF Next, Serve

---------------------------------------------------------------------------
(* What a step does to the calls: it moves one of them.                    *)

LEMMA Moved ==
    ASSUME Types, NEW c \in Calls, NEW step, Go(c, step), NEW x \in Calls
    PROVE  /\ calls'[x].pc = IF x = c THEN step ELSE calls[x].pc
           /\ x # c => calls'[x].picked = calls[x].picked
           /\ DayOf(x)' = DayOf(x)
  BY DEF Types, Documents, Go, CallStates, DayOf

LEMMA Reserved ==
    ASSUME Types, NEW c \in Calls, NEW r \in Recipients, Reserve(c, r), NEW x \in Calls
    PROVE  /\ x # c => calls'[x] = calls[x]
           /\ x = c => calls[x].pc = "new" /\ calls'[x].pc \in {"budget", "rejected"}
<1>1. CASE Claimable(claims[r])
  BY <1>1 DEF Types, Documents, Reserve, CallStates, In
<1>2. CASE ~Claimable(claims[r])
  BY <1>2 DEF Types, Documents, Reserve, CallStates, In, Go
<1> QED
  BY <1>1, <1>2

LEMMA Built ==
    ASSUME Types, NEW c \in Calls, Build(c), NEW x \in Calls
    PROVE  /\ calls'[x].pc = IF x = c THEN "sending" ELSE calls[x].pc
           /\ calls'[x].picked \in IF x = c THEN cached..issuerCells ELSE {calls[x].picked}
           /\ DayOf(x)' = DayOf(x)
  BY DEF Types, Documents, Build, CallStates, DayOf

LEMMA Recorded ==
    ASSUME Types, NEW c \in Calls, Commit(c), NEW x \in Calls
    PROVE  /\ calls'[x].pc \in IF x = c THEN {"commit", "done"} ELSE {calls[x].pc}
           /\ x # c => calls'[x].picked = calls[x].picked
           /\ DayOf(x)' = DayOf(x)
<1>1. CASE Go(c, "done")
  BY <1>1, Moved
<1>2. CASE calls' = [calls EXCEPT ![c].pc = IF calls[c].attempt >= MaxAttempts
                                            THEN "done" ELSE @,
                                  ![c].attempt = @ + 1]
  <2>1. calls[c].pc = "commit"
    BY DEF Commit, In
  <2> QED
    BY <1>2, <2>1 DEF Types, Documents, CallStates, DayOf
<1> QED
  BY <1>1, <1>2 DEF Commit

LEMMA Died ==
    ASSUME Types, Crash, NEW x \in Calls
    PROVE  /\ calls'[x].pc = IF calls[x].pc \in Live THEN "dead" ELSE calls[x].pc
           /\ DayOf(x)' = DayOf(x)
  BY DEF Types, Documents, Crash, CallStates, DayOf

---------------------------------------------------------------------------
(* The send lock                                                           *)

LEMMA ExclusionStep == Types /\ Exclusion /\ [Next]_vars => Exclusion'
<1> SUFFICES ASSUME Types, Exclusion, [Next]_vars, NEW x \in Calls, calls'[x].pc = "sending"
             PROVE  queue' # <<>> /\ Head(queue') = x /\ calls'[x].picked \in cached'..issuerCells'
  BY DEF Exclusion, In
<1> DEFINE Holds == queue' # <<>> /\ Head(queue') = x /\ calls'[x].picked \in cached'..issuerCells'
<1>a. calls[x].pc = "sending" => queue # <<>> /\ Head(queue) = x /\ calls[x].picked \in cached..issuerCells
  BY DEF Exclusion, In
<1>b. ASSUME calls[x].pc = "sending", calls'[x].picked = calls[x].picked,
             queue' = queue, issuerCells' = issuerCells, cached' = cached
      PROVE  Holds
  BY <1>a, <1>b
<1>1. ASSUME NEW c \in Calls, NEW r \in Recipients, Reserve(c, r) PROVE Holds
  BY <1>1, <1>b, Reserved DEF Reserve
<1>2. ASSUME NEW c \in Calls, TakeBudget(c) PROVE Holds
  <2>1. calls[x].pc = "sending" /\ calls'[x].picked = calls[x].picked /\ UNCHANGED <<issuerCells, cached>>
    BY <1>2, Moved DEF TakeBudget
  <2>2. CASE queue' = queue
    BY <2>1, <2>2, <1>b
  <2>3. CASE queue' = Append(queue, c)
    <3>1. queue \in Seq(Calls) /\ queue # <<>>
      BY <2>1, <1>a DEF Types, Documents
    <3>2. queue' # <<>> /\ Head(queue') = Head(queue)
      BY <2>3, <3>1
    <3> QED
      BY <2>1, <3>2, <1>a
  <2> QED
    BY <1>2, <2>2, <2>3 DEF TakeBudget
<1>3. ASSUME NEW c \in Calls, Build(c) PROVE Holds
  <2>1. queue' = queue /\ UNCHANGED <<issuerCells, cached>> /\ queue # <<>> /\ Head(queue) = c
    BY <1>3 DEF Build, HasLock
  <2>2. CASE x = c
    BY <1>3, <2>1, <2>2, Built
  <2>3. CASE x # c
    BY <1>3, <2>1, <2>3, <1>b, Built
  <2> QED
    BY <2>2, <2>3
<1>4. ASSUME NEW c \in Calls, Broadcast(c) PROVE Holds
  <2>1. calls[c].pc = "sending" /\ \E step \in {"undo", "commit"} : Go(c, step)
    BY <1>4 DEF Broadcast, In
  <2>2. x # c /\ calls[x].pc = "sending"
    BY <2>1, Moved
  <2>3. Head(queue) = c /\ Head(queue) = x
    BY <2>1, <2>2, <1>a DEF Exclusion, In
  <2> QED
    BY <2>2, <2>3
<1>5. ASSUME NEW c \in Calls, Commit(c) PROVE Holds
  BY <1>5, <1>b, Recorded DEF Commit
<1>6. ASSUME NEW c \in Calls, RestoreClaim(c) PROVE Holds
  <2>1. \E step \in {"refund", "rejected", "failed"} : Go(c, step)
    BY <1>6 DEF RestoreClaim
  <2> QED
    BY <1>6, <2>1, <1>b, Moved DEF RestoreClaim
<1>7. ASSUME NEW c \in Calls, Refund(c) PROVE Holds
  BY <1>7, <1>b, Moved DEF Refund
<1>8. CASE Tick
  BY <1>8, <1>b DEF Tick
<1>9. CASE Crash
  BY <1>9, Died DEF Live
<1>10. CASE UNCHANGED vars
  BY <1>10, <1>b DEF vars
<1> QED
  BY <1>1, <1>2, <1>3, <1>4, <1>5, <1>6, <1>7, <1>8, <1>9, <1>10 DEF Next, Serve

\* Sends do not conflict, for any number of calls: whatever order they
\* arrive in, nothing the process has sent and got an answer for spends the
\* cells a transaction was built from, because only the head of the queue
\* builds and only it leaves.
THEOREM SendsDoNotConflict == Spec => []NoSelfDoubleSpend
<1>1. Init => Types /\ Exclusion
  <2>1. Init => Exclusion
    BY DEF Init, Exclusion, In, NewCall
  <2> QED
    BY <2>1, TypesInit
<1>2. Types /\ Exclusion /\ [Next]_vars => (Types /\ Exclusion)'
  BY TypesStep, ExclusionStep
<1>3. Types /\ Exclusion => NoSelfDoubleSpend
  BY DEF Types, Documents, Exclusion, NoSelfDoubleSpend
<1> QED
  BY <1>1, <1>2, <1>3, PTL DEF Spec

---------------------------------------------------------------------------
(* The day's budget                                                        *)

LEMMA PlacesStep ==
    ASSUME Types, Places, [Next]_vars
    PROVE  Places'
<1> DEFINE Place(x) ==
             /\ calls[x].pc \in {"new", "budget"} => x \notin paid
             /\ calls[x].pc \in {"queued", "sending", "refund"} => x \in paid
             /\ x \in sent \ Unheard => x \in paid /\ calls[x].pc \in {"commit", "done", "dead"}
<1> SUFFICES ASSUME NEW x \in Calls PROVE Place(x)'
  BY DEF Places
<1>a. Place(x)
  BY DEF Places
<1> USE DEF history
<1>1. ASSUME NEW c \in Calls, NEW r \in Recipients, Reserve(c, r) PROVE Place(x)'
  <2>1. UNCHANGED <<paid, sent>>
    BY <1>1 DEF Reserve
  <2> QED
    BY <1>1, <2>1, <1>a, Reserved
<1>2. ASSUME NEW c \in Calls, TakeBudget(c) PROVE Place(x)'
  <2>1. CASE Go(c, "queued") /\ paid' = paid \cup {c}
    BY <1>2, <2>1, <1>a, Moved DEF TakeBudget, In
  <2>2. CASE Go(c, "undo") /\ paid' = paid
    BY <1>2, <2>2, <1>a, Moved DEF TakeBudget, In
  <2> QED
    BY <1>2, <2>1, <2>2 DEF TakeBudget
<1>3. ASSUME NEW c \in Calls, Build(c) PROVE Place(x)'
  <2>1. calls[c].pc = "queued" /\ UNCHANGED <<paid, sent>>
    BY <1>3 DEF Build, In
  <2> QED
    BY <1>3, <2>1, <1>a, Built
<1>4. ASSUME NEW c \in Calls, Broadcast(c) PROVE Place(x)'
  <2>1. CASE Go(c, "undo") /\ (sent' = sent \/ (c \in Unheard /\ sent' = sent \cup {c}))
    BY <1>4, <2>1, <1>a, Moved DEF Broadcast, In
  <2>2. CASE Go(c, "commit") /\ sent' \in {sent, sent \cup {c}}
    BY <1>4, <2>2, <1>a, Moved DEF Broadcast, In
  <2> QED
    BY <1>4, <2>1, <2>2 DEF Broadcast
<1>5. ASSUME NEW c \in Calls, Commit(c) PROVE Place(x)'
  BY <1>5, <1>a, Recorded DEF Commit, In
<1>6. ASSUME NEW c \in Calls, RestoreClaim(c) PROVE Place(x)'
  <2>1. calls[c].pc = "undo" /\ UNCHANGED <<paid, sent>>
    BY <1>6 DEF RestoreClaim, In
  <2>2. \/ c \in paid /\ Go(c, "refund")
        \/ Go(c, "rejected") \/ Go(c, "failed")
    BY <1>6 DEF RestoreClaim
  <2> QED
    BY <2>1, <2>2, <1>a, Moved
<1>7. ASSUME NEW c \in Calls, Refund(c) PROVE Place(x)'
  <2>1. Go(c, "failed") /\ calls[c].pc = "refund" /\ paid' \in {paid, paid \ {c}} /\ sent' = sent
    BY <1>7 DEF Refund, In
  <2> QED
    BY <2>1, <1>a, Moved
<1>8. CASE Tick
  BY <1>8, <1>a DEF Tick
<1>9. CASE Crash
  <2>1. UNCHANGED <<paid, sent>>
    BY <1>9 DEF Crash
  <2> QED
    BY <1>9, <2>1, <1>a, Died DEF Live
<1>10. CASE UNCHANGED vars
  BY <1>10, <1>a DEF vars
<1> QED
  BY <1>1, <1>2, <1>3, <1>4, <1>5, <1>6, <1>7, <1>8, <1>9, <1>10 DEF Next, Serve

LEMMA PaidFinite ==
    ASSUME Types
    PROVE  \A d : IsFiniteSet(PaidOn(d)) /\ Cardinality(PaidOn(d)) \in Nat
<1> TAKE d
<1>1. PaidOn(d) \subseteq Calls
  BY DEF Types, Documents, PaidOn
<1> QED
  BY <1>1, FaucetConstants, FS_Subset, FS_CardinalityType

\* A step that leaves shares and budget alone keeps the accounts.
LEMMA SameShares ==
    ASSUME Types, Accounting, budget' = budget,
           \A d \in Days : PaidOn(d)' = PaidOn(d)
    PROVE  Accounting'
BY DEF Accounting

LEMMA AccountingTaken ==
    ASSUME Types, Accounting, NEW c \in Calls, c \notin paid, WithinBudget(budget[DayOf(c)]),
           Go(c, "queued"), paid' = paid \cup {c},
           budget' = [budget EXCEPT ![DayOf(c)] = [claims |-> @.claims + 1,
                                                   tokens |-> @.tokens + dripAmount]]
    PROVE  Accounting'
<1> SUFFICES ASSUME NEW d \in Days
             PROVE  /\ budget'[d].claims = Cardinality(PaidOn(d)')
                    /\ budget'[d].claims <= dailyMaxClaims
                    /\ budget'[d].tokens = budget'[d].claims * dripAmount
                    /\ budget'[d].tokens <= dailyMaxTokens
  BY DEF Accounting
<1>1. /\ budget[d].claims = Cardinality(PaidOn(d))
      /\ budget[d].claims <= dailyMaxClaims
      /\ budget[d].tokens = budget[d].claims * dripAmount
      /\ budget[d].tokens <= dailyMaxTokens
      /\ budget[d].claims \in Int /\ budget[d].tokens \in Int
  BY DEF Accounting, Types, Documents
<1>2. \A x \in Calls : DayOf(x)' = DayOf(x)
  BY Moved
<1>3. paid \subseteq Calls
  BY DEF Types, Documents
<1>4. CASE DayOf(c) = d
  <2>1. PaidOn(d)' = PaidOn(d) \cup {c}
    BY <1>2, <1>3, <1>4 DEF PaidOn
  <2>2. Cardinality(PaidOn(d)') = Cardinality(PaidOn(d)) + 1
    <3>1. IsFiniteSet(PaidOn(d)) /\ Cardinality(PaidOn(d)) \in Nat
      BY PaidFinite
    <3>2. Cardinality(PaidOn(d) \cup {c}) =
            IF c \in PaidOn(d) THEN Cardinality(PaidOn(d)) ELSE Cardinality(PaidOn(d)) + 1
      BY <3>1, FS_AddElement
    <3> QED
      BY <2>1, <3>1, <3>2 DEF PaidOn
  <2>3. budget'[d] = [claims |-> budget[d].claims + 1, tokens |-> budget[d].tokens + dripAmount]
    BY <1>4 DEF Types, Documents
  <2>4. budget[d].claims < dailyMaxClaims /\ budget[d].tokens <= dailyMaxTokens - dripAmount
    BY <1>4 DEF WithinBudget
  <2>5. (budget[d].claims + 1) * dripAmount = budget[d].claims * dripAmount + dripAmount
    BY <1>1, FaucetConstants
  <2> QED
    BY <1>1, <2>2, <2>3, <2>4, <2>5, PaidFinite, FaucetConstants
<1>5. CASE DayOf(c) # d
  <2>1. PaidOn(d)' = PaidOn(d) /\ budget'[d] = budget[d]
    BY <1>2, <1>3, <1>5 DEF PaidOn, Types, Documents
  <2> QED
    BY <1>1, <2>1
<1> QED
  BY <1>4, <1>5

LEMMA AccountingRefunded ==
    ASSUME Types, Accounting, NEW c \in Calls, c \in paid,
           Go(c, "failed"), paid' = paid \ {c},
           budget' = [budget EXCEPT ![DayOf(c)] = [claims |-> @.claims - 1,
                                                   tokens |-> @.tokens - dripAmount]]
    PROVE  Accounting'
<1> SUFFICES ASSUME NEW d \in Days
             PROVE  /\ budget'[d].claims = Cardinality(PaidOn(d)')
                    /\ budget'[d].claims <= dailyMaxClaims
                    /\ budget'[d].tokens = budget'[d].claims * dripAmount
                    /\ budget'[d].tokens <= dailyMaxTokens
  BY DEF Accounting
<1>1. /\ budget[d].claims = Cardinality(PaidOn(d))
      /\ budget[d].claims <= dailyMaxClaims
      /\ budget[d].tokens = budget[d].claims * dripAmount
      /\ budget[d].tokens <= dailyMaxTokens
      /\ budget[d].claims \in Int /\ budget[d].tokens \in Int
  BY DEF Accounting, Types, Documents
<1>2. \A x \in Calls : DayOf(x)' = DayOf(x)
  BY Moved
<1>3. paid \subseteq Calls
  BY DEF Types, Documents
<1>4. CASE DayOf(c) = d
  <2>1. PaidOn(d)' = PaidOn(d) \ {c} /\ c \in PaidOn(d)
    BY <1>2, <1>3, <1>4 DEF PaidOn
  <2>2. Cardinality(PaidOn(d)') = Cardinality(PaidOn(d)) - 1
    BY <2>1, PaidFinite, FS_RemoveElement
  <2>3. budget'[d] = [claims |-> budget[d].claims - 1, tokens |-> budget[d].tokens - dripAmount]
    BY <1>4 DEF Types, Documents
  <2>4. (budget[d].claims - 1) * dripAmount = budget[d].claims * dripAmount - dripAmount
    BY <1>1, FaucetConstants
  <2> QED
    BY <1>1, <2>2, <2>3, <2>4, PaidFinite, FaucetConstants
<1>5. CASE DayOf(c) # d
  <2>1. PaidOn(d)' = PaidOn(d) /\ budget'[d] = budget[d]
    BY <1>2, <1>3, <1>5 DEF PaidOn, Types, Documents
  <2> QED
    BY <1>1, <2>1
<1> QED
  BY <1>4, <1>5

LEMMA AccountingStep ==
    ASSUME Types, Places, Accounting, [Next]_vars
    PROVE  Accounting'
<1> USE DEF history
<1>a. ASSUME budget' = budget, paid' = paid, \A x \in paid : DayOf(x)' = DayOf(x)
      PROVE  Accounting'
  <2>1. \A d \in Days : PaidOn(d)' = PaidOn(d)
    BY <1>a DEF PaidOn
  <2> QED
    BY <1>a, <2>1, SameShares
<1>b. paid \subseteq Calls
  BY DEF Types, Documents
<1>1. ASSUME NEW c \in Calls, NEW r \in Recipients, Reserve(c, r) PROVE Accounting'
  <2>1. c \notin paid
    BY <1>1 DEF Places, Reserve, In
  <2>2. \A x \in paid : DayOf(x)' = DayOf(x)
    BY <1>1, <2>1, <1>b, Reserved DEF DayOf
  <2>3. budget' = budget /\ paid' = paid
    BY <1>1 DEF Reserve
  <2> QED
    BY <2>2, <2>3, <1>a
<1>2. ASSUME NEW c \in Calls, TakeBudget(c) PROVE Accounting'
  <2>1. CASE Go(c, "undo") /\ UNCHANGED <<budget, paid>>
    BY <2>1, <1>a, <1>b, Moved
  <2>2. c \notin paid
    BY <1>2 DEF Places, TakeBudget, In
  <2> QED
    BY <1>2, <2>1, <2>2, AccountingTaken DEF TakeBudget
<1>3. ASSUME NEW c \in Calls, Build(c) PROVE Accounting'
  BY <1>3, <1>a, <1>b, Built DEF Build
<1>4. ASSUME NEW c \in Calls, Broadcast(c) PROVE Accounting'
  <2>1. (\E step \in {"undo", "commit"} : Go(c, step)) /\ UNCHANGED <<budget, paid>>
    BY <1>4 DEF Broadcast
  <2> QED
    BY <2>1, <1>a, <1>b, Moved
<1>5. ASSUME NEW c \in Calls, Commit(c) PROVE Accounting'
  BY <1>5, <1>a, <1>b, Recorded DEF Commit
<1>6. ASSUME NEW c \in Calls, RestoreClaim(c) PROVE Accounting'
  <2>1. (\E step \in {"refund", "rejected", "failed"} : Go(c, step)) /\ UNCHANGED <<budget, paid>>
    BY <1>6 DEF RestoreClaim
  <2> QED
    BY <2>1, <1>a, <1>b, Moved
<1>7. ASSUME NEW c \in Calls, Refund(c) PROVE Accounting'
  <2>1. c \in paid /\ Go(c, "failed")
    BY <1>7 DEF Places, Refund, In
  <2>2. CASE UNCHANGED <<budget, paid>>
    BY <2>1, <2>2, <1>a, <1>b, Moved
  <2> QED
    BY <1>7, <2>1, <2>2, AccountingRefunded DEF Refund
<1>8. CASE Tick
  BY <1>8, <1>a DEF Tick, DayOf
<1>9. CASE Crash
  BY <1>9, <1>a, <1>b, Died DEF Crash
<1>10. CASE UNCHANGED vars
  BY <1>10, <1>a DEF vars, DayOf
<1> QED
  BY <1>1, <1>2, <1>3, <1>4, <1>5, <1>6, <1>7, <1>8, <1>9, <1>10 DEF Next, Serve

LEMMA AccountingCaps ==
    ASSUME Types, Places, Accounting
    PROVE  DailyIssuanceIsCapped
<1> DEFINE Counted(d) == SentOn(d) \cap paid
<1>a. sent \ paid \subseteq Unheard
  BY DEF Places, Types, Documents
<1> SUFFICES ASSUME NEW d \in Days
             PROVE  /\ Cardinality(Counted(d)) <= dailyMaxClaims
                    /\ Cardinality(Counted(d)) * dripAmount <= dailyMaxTokens
  BY <1>a DEF DailyIssuanceIsCapped
<1>1. Counted(d) \subseteq PaidOn(d)
  BY DEF SentOn, PaidOn
<1> HIDE DEF Counted
<1>2. Cardinality(Counted(d)) \in Nat /\ Cardinality(Counted(d)) <= Cardinality(PaidOn(d))
  BY <1>1, PaidFinite, FS_Subset, FS_CardinalityType
<1>3. /\ Cardinality(PaidOn(d)) \in Nat /\ Cardinality(PaidOn(d)) <= budget[d].claims
      /\ budget[d].claims \in Int /\ budget[d].claims <= dailyMaxClaims
      /\ budget[d].claims * dripAmount <= dailyMaxTokens
  BY PaidFinite DEF Accounting, Types, Documents
<1>4. \A m \in Nat, n \in Int : m <= n => m * dripAmount <= n * dripAmount
  BY FaucetConstants
<1>5. Cardinality(Counted(d)) <= budget[d].claims
  BY <1>2, <1>3
<1>6. Cardinality(Counted(d)) * dripAmount <= budget[d].claims * dripAmount
  BY <1>2, <1>3, <1>4, <1>5
<1>7. /\ Cardinality(Counted(d)) * dripAmount \in Int
      /\ budget[d].claims * dripAmount \in Int
  BY <1>2, <1>3, FaucetConstants
<1> QED
  BY <1>2, <1>3, <1>5, <1>6, <1>7, FaucetConstants

LEMMA AccountingInit == Init => Types /\ Exclusion /\ Places /\ Accounting
<1> SUFFICES ASSUME Init PROVE Types /\ Exclusion /\ Places /\ Accounting
  OBVIOUS
<1>1. Exclusion /\ Places
  BY DEF Init, Exclusion, Places, In, NewCall
<1>2. \A d \in Days : PaidOn(d) = {} /\ budget[d] = [claims |-> 0, tokens |-> 0]
  BY DEF Init, PaidOn
<1>3. Cardinality({}) = 0 /\ 0 * dripAmount = 0
  BY FS_EmptySet, FaucetConstants
<1>4. dailyMaxClaims \in Nat /\ dailyMaxTokens \in Nat
  BY FaucetConstants
<1>5. ASSUME NEW d \in Days
      PROVE  /\ budget[d].claims = Cardinality(PaidOn(d))
             /\ budget[d].claims <= dailyMaxClaims
             /\ budget[d].tokens = budget[d].claims * dripAmount
             /\ budget[d].tokens <= dailyMaxTokens
  <2>1. budget[d].claims = 0 /\ budget[d].tokens = 0 /\ PaidOn(d) = {}
    BY <1>2
  <2> QED
    BY <1>3, <1>4, <2>1
<1> QED
  BY <1>1, <1>5, TypesInit DEF Accounting

\* What goes out for one day stays within both of the day's limits, for any
\* number of calls, through crashes, failed database calls, takeovers and
\* refunds; a lost answer to a broadcast adds its own drip and no other.
THEOREM IssuanceIsCapped == Spec => []DailyIssuanceIsCapped
<1> DEFINE IInv == Types /\ Exclusion /\ Places /\ Accounting
<1>1. Init => IInv
  BY AccountingInit
<1>2. IInv /\ [Next]_vars => IInv'
  BY TypesStep, ExclusionStep, PlacesStep, AccountingStep
<1>3. IInv => DailyIssuanceIsCapped
  BY AccountingCaps
<1> QED
  BY <1>1, <1>2, <1>3, PTL DEF Spec

---------------------------------------------------------------------------
(* The cooldown                                                            *)

\* A call under way owns its recipient's document until it has recorded or
\* undone its claim, for no longer than a reservation lasts.
Held ==
    \A c \in Calls : calls[c].pc \in {"budget", "queued", "sending", "commit", "undo"} =>
      /\ Doc(c).reservationId = c /\ Doc(c).status = "RESERVED"
      /\ Doc(c).reservedAt = calls[c].at
      /\ Fresh(c, now)

\* Only a recipient that has cooled down, or never claimed, is reserved.
Cooled ==
    \A r \in Recipients :
      /\ claims[r].status = "none" => claims[r].lastClaimedAt = Never
      /\ claims[r].status = "RESERVED" =>
           claims[r].lastClaimedAt = Never \/ claims[r].lastClaimedAt <= now - cooldown

LEMMA HeldInit == Init => Held /\ Cooled
BY DEF Init, Held, Cooled, NewCall, NoClaim

\* What a call's step leaves of the calls: only its own changes, and it stays
\* the same recipient's.
LEMMA OneMoves ==
    ASSUME Types, NEW c \in Calls, Serve(c)
    PROVE  /\ \A x \in Calls \ {c} : calls'[x] = calls[x]
           /\ calls'[c].to = calls[c].to /\ calls'[c].at = calls[c].at
           /\ now' = now
<1> USE DEF Types, Documents, CallStates
<1>1. CASE \E step : Go(c, step) /\ now' = now
  BY <1>1 DEF Go
<1>2. CASE Build(c)
  BY <1>2 DEF Build
<1>3. CASE Commit(c)
  BY <1>3 DEF Commit, Go
<1> QED
  BY <1>1, <1>2, <1>3 DEF Serve, TakeBudget, Broadcast, RestoreClaim, Refund

\* Two calls never own one document.
LEMMA OneOwner ==
    ASSUME Types, Held, NEW c \in Calls, NEW x \in Calls, x # c,
           {calls[c].pc, calls[x].pc} \subseteq {"budget", "queued", "sending", "commit", "undo"}
    PROVE  calls[x].to # calls[c].to
BY DEF Held, Doc

\* A step of a call that leaves the documents alone and stays where it owns.
LEMMA HeldServing ==
    ASSUME Types, Held, NEW c \in Calls, Serve(c), claims' = claims,
           calls'[c].pc \in {"budget", "queued", "sending", "commit", "undo"} =>
             calls[c].pc \in {"budget", "queued", "sending", "commit", "undo"}
    PROVE  Held'
<1> SUFFICES ASSUME NEW x \in Calls, calls'[x].pc \in {"budget", "queued", "sending", "commit", "undo"}
             PROVE  /\ claims'[calls'[x].to].reservationId = x /\ claims'[calls'[x].to].status = "RESERVED"
                    /\ claims'[calls'[x].to].reservedAt = calls'[x].at
                    /\ now' - calls'[x].at < reservationTimeout
  BY DEF Held, Doc, Fresh
<1>1. calls'[x].to = calls[x].to /\ calls'[x].at = calls[x].at /\ now' = now
  BY OneMoves
<1>2. calls[x].pc \in {"budget", "queued", "sending", "commit", "undo"}
  BY OneMoves
<1> QED
  BY <1>1, <1>2 DEF Held, Doc, Fresh

\* A call that writes its document has done with it.
LEMMA HeldDone ==
    ASSUME Types, Held, NEW c \in Calls, Serve(c), calls[c].pc \in {"commit", "undo"},
           calls'[c].pc \notin {"budget", "queued", "sending", "commit", "undo"},
           NEW doc, claims' = [claims EXCEPT ![calls[c].to] = doc]
    PROVE  Held'
<1> SUFFICES ASSUME NEW x \in Calls, calls'[x].pc \in {"budget", "queued", "sending", "commit", "undo"}
             PROVE  /\ claims'[calls'[x].to].reservationId = x /\ claims'[calls'[x].to].status = "RESERVED"
                    /\ claims'[calls'[x].to].reservedAt = calls'[x].at
                    /\ now' - calls'[x].at < reservationTimeout
  BY DEF Held, Doc, Fresh
<1>1. x # c /\ calls'[x] = calls[x] /\ now' = now
  BY OneMoves
<1>2. calls[x].to # calls[c].to
  BY <1>1, OneOwner
<1>3. claims'[calls[x].to] = claims[calls[x].to]
  BY <1>2 DEF Types, Documents, CallStates
<1> QED
  BY <1>1, <1>3 DEF Held, Doc, Fresh

LEMMA CommitOwns ==
    ASSUME Types, Held, Cooled, NEW c \in Calls, Commit(c)
    PROVE  Held' /\ Cooled'
<1> DEFINE recorded == [NoClaim EXCEPT !.status = "SENT", !.lastClaimedAt = now]
<1>1. calls[c].pc = "commit" /\ Mine(c) /\ now' = now /\ Serve(c)
  BY DEF Commit, In, Held, Mine, Doc, Serve
<1>2. CASE claims' = claims
  BY <1>1, <1>2, HeldServing DEF Cooled
<1>3. CASE claims' = [claims EXCEPT ![calls[c].to] = recorded] /\ Go(c, "done")
  <2>1. calls'[c].pc = "done"
    BY <1>3, Moved
  <2>2. Held'
    BY <1>1, <1>3, <2>1, HeldDone
  <2>3. recorded.status = "SENT"
    BY DEF NoClaim
  <2>4. Cooled'
    BY <1>1, <1>3, <2>3 DEF Cooled, Types, Documents, CallStates
  <2> QED
    BY <2>2, <2>4
<1> QED
  BY <1>1, <1>2, <1>3 DEF Commit

LEMMA RestoreOwns ==
    ASSUME Types, Held, Cooled, NEW c \in Calls, RestoreClaim(c)
    PROVE  Held' /\ Cooled'
<1> DEFINE back == [NoClaim EXCEPT !.status = calls[c].previous, !.lastClaimedAt = Doc(c).lastClaimedAt]
<1>1. calls[c].pc = "undo" /\ Mine(c) /\ now' = now /\ Serve(c) /\ Doc(c).status = "RESERVED"
  BY DEF RestoreClaim, In, Held, Mine, Doc, Serve
<1>2. calls'[c].pc \in {"refund", "rejected", "failed"}
  BY Moved DEF RestoreClaim
<1>3. CASE claims' = claims
  BY <1>1, <1>2, <1>3, HeldServing DEF Cooled
<1>4. CASE claims' = [claims EXCEPT ![calls[c].to] = NoClaim]
  BY <1>1, <1>2, <1>4, HeldDone DEF Cooled, Types, Documents, CallStates, NoClaim
<1>5. CASE claims' = [claims EXCEPT ![calls[c].to] = back] /\ calls[c].previous # "none"
  <2>1. Held'
    BY <1>1, <1>2, <1>5, HeldDone
  <2>2. back.lastClaimedAt = Doc(c).lastClaimedAt /\ back.status # "none"
    BY <1>5 DEF NoClaim
  <2>3. Doc(c).lastClaimedAt = Never \/ Doc(c).lastClaimedAt <= now - cooldown
    BY <1>1 DEF Cooled, Doc, Types, Documents, CallStates
  <2> HIDE DEF back
  <2>4. Cooled'
    BY <1>1, <1>5, <2>2, <2>3 DEF Cooled, Types, Documents, CallStates
  <2> QED
    BY <2>1, <2>4
<1> QED
  BY <1>1, <1>3, <1>4, <1>5 DEF RestoreClaim

LEMMA ReserveOwns ==
    ASSUME Types, Held, Cooled, NEW c \in Calls, NEW r \in Recipients, Reserve(c, r)
    PROVE  Held' /\ Cooled'
<1>1. calls[c].pc = "new" /\ now' = now
  BY DEF Reserve, In
<1>2. CASE ~Claimable(claims[r])
  <2>1. Go(c, "rejected") /\ claims' = claims
    BY <1>2 DEF Reserve
  <2> QED
    BY <1>1, <2>1 DEF Go, Held, Cooled, Doc, Fresh, Types, Documents, CallStates
<1>3. CASE Claimable(claims[r])
  <2>1. /\ claims' = [claims EXCEPT ![r].status = "RESERVED", ![r].reservedAt = now,
                                    ![r].reservationId = c]
        /\ calls' = [calls EXCEPT ![c].pc = "budget", ![c].to = r, ![c].at = now,
                                  ![c].previous = claims[r].status]
    BY <1>3 DEF Reserve
  <2>2. /\ claims'[r].status = "RESERVED" /\ claims'[r].reservedAt = now
        /\ claims'[r].reservationId = c /\ claims'[r].lastClaimedAt = claims[r].lastClaimedAt
        /\ \A other \in Recipients \ {r} : claims'[other] = claims[other]
    BY <2>1 DEF Types, ClaimDocs
  <2>3. /\ calls'[c].to = r /\ calls'[c].at = now
        /\ \A x \in Calls \ {c} : calls'[x] = calls[x]
    BY <2>1 DEF Types, Documents, CallStates
  <2>4. ASSUME NEW x \in Calls \ {c}, calls[x].pc \in {"budget", "queued", "sending", "commit", "undo"}
        PROVE  calls[x].to # r
    <3> SUFFICES ASSUME calls[x].to = r PROVE FALSE
      OBVIOUS
    <3>1. claims[r].status = "RESERVED" /\ claims[r].reservedAt = calls[x].at /\ now - calls[x].at < reservationTimeout
      BY <2>4 DEF Held, Doc, Fresh
    <3>2. calls[x].at <= now - reservationTimeout
      BY <1>3, <3>1 DEF Claimable
    <3>3. calls[x].at \in Int /\ now \in Int
      BY FaucetConstants DEF Types, Documents, CallStates
    <3> QED
      BY <3>1, <3>2, <3>3, FaucetConstants
  <2>5. Held'
    <3> SUFFICES ASSUME NEW x \in Calls, calls'[x].pc \in {"budget", "queued", "sending", "commit", "undo"}
                 PROVE  /\ claims'[calls'[x].to].reservationId = x /\ claims'[calls'[x].to].status = "RESERVED"
                        /\ claims'[calls'[x].to].reservedAt = calls'[x].at
                        /\ now' - calls'[x].at < reservationTimeout
      BY DEF Held, Doc, Fresh
    <3>1. CASE x = c
      BY <3>1, <1>1, <2>2, <2>3, FaucetConstants DEF Types
    <3>2. CASE x # c
      <4>1. calls'[x] = calls[x] /\ calls[x].to # r /\ calls[x].to \in Recipients
        BY <3>2, <2>3, <2>4 DEF Types, Documents, CallStates
      <4>2. claims'[calls[x].to] = claims[calls[x].to]
        BY <4>1, <2>2
      <4> QED
        BY <4>1, <4>2, <1>1 DEF Held, Doc, Fresh
    <3> QED
      BY <3>1, <3>2
  <2>6. claims[r].lastClaimedAt = Never \/ claims[r].lastClaimedAt <= now - cooldown
    BY <1>3 DEF Claimable, Cooled
  <2>7. Cooled'
    BY <1>1, <2>2, <2>6 DEF Cooled
  <2> QED
    BY <2>5, <2>7
<1> QED
  BY <1>2, <1>3

LEMMA OwnsStep ==
    ASSUME ~SlowSends
    PROVE  Types /\ Held /\ Cooled /\ [Next]_vars => Held' /\ Cooled'
<1> SUFFICES ASSUME Types, Held, Cooled, [Next]_vars PROVE Held' /\ Cooled'
  OBVIOUS
<1>1. ASSUME NEW c \in Calls, TakeBudget(c) \/ Build(c) \/ Broadcast(c) \/ Refund(c)
      PROVE  Held' /\ Cooled'
  <2>1. claims' = claims /\ now' = now /\ Serve(c)
    BY <1>1 DEF TakeBudget, Build, Broadcast, Refund, Serve
  <2>2. \/ calls[c].pc \in {"budget", "queued", "sending"}
        \/ calls'[c].pc = "failed"
    BY <1>1, Moved DEF TakeBudget, Build, Broadcast, Refund, In
  <2> QED
    BY <2>1, <2>2, HeldServing DEF Cooled
<1>2. CASE Tick
  <2>1. now' = now + 1 /\ UNCHANGED <<claims, calls>> /\ \A c \in Calls : calls[c].pc \in Live => Fresh(c, now + 1)
    BY <1>2 DEF Tick
  <2>2. Held'
    BY <2>1 DEF Held, Doc, Fresh, Live
  <2>3. \A r \in Recipients : claims[r].lastClaimedAt \in Int
    BY DEF Types, ClaimDocs
  <2>4. now \in Int
    BY FaucetConstants DEF Types
  <2>5. Cooled'
    BY <2>1, <2>3, <2>4, FaucetConstants DEF Cooled
  <2> QED
    BY <2>2, <2>5
<1>3. CASE Crash
  <2>1. UNCHANGED <<now, claims>>
    BY <1>3 DEF Crash
  <2>2. \A x \in Calls : calls'[x] = calls[x] \/ calls'[x].pc = "dead"
    BY <1>3 DEF Crash, Types, Documents, CallStates
  <2> QED
    BY <2>1, <2>2 DEF Held, Cooled, Doc, Fresh
<1>4. CASE UNCHANGED vars
  BY <1>4 DEF vars, Held, Cooled, Doc, Fresh
<1> QED
  BY <1>1, <1>2, <1>3, <1>4, CommitOwns, RestoreOwns, ReserveOwns DEF Next, Serve

LEMMA NoEarlyDrip ==
    ASSUME Types, Held, Cooled, [Next]_vars
    PROVE  [\A c \in Calls : (c \in sent' /\ c \notin sent) =>
              \/ Doc(c).lastClaimedAt = Never
              \/ Doc(c).lastClaimedAt <= now - cooldown]_vars
<1> SUFFICES ASSUME NEW c \in Calls, c \in sent', c \notin sent
             PROVE  Doc(c).lastClaimedAt = Never \/ Doc(c).lastClaimedAt <= now - cooldown
  OBVIOUS
<1>1. Broadcast(c)
  <2>1. Next \/ UNCHANGED vars
    OBVIOUS
  <2>2. ~(Tick \/ Crash \/ UNCHANGED vars \/ \E d \in Calls, r \in Recipients : Reserve(d, r))
    BY DEF Tick, Crash, Reserve, vars, history
  <2>3. PICK d \in Calls : Serve(d)
    BY <2>1, <2>2 DEF Next
  <2>4. ~(TakeBudget(d) \/ Build(d) \/ Commit(d) \/ RestoreClaim(d) \/ Refund(d))
    BY DEF TakeBudget, Build, Commit, RestoreClaim, Refund, history
  <2>5. Broadcast(d)
    BY <2>3, <2>4 DEF Serve
  <2> QED
    BY <2>5 DEF Broadcast
<1>2. Doc(c).status = "RESERVED"
  BY <1>1 DEF Broadcast, In, Held
<1> QED
  BY <1>2 DEF Cooled, Doc, Types, Documents, CallStates

\* When no call outlives its reservation, no recipient gets two drips inside
\* the cooldown, for any number of calls, with crashes, failed database calls,
\* lost answers and takeovers: a call owns its recipient's document until its
\* drip is recorded, and owns it only if the recipient has cooled down.
THEOREM OneDripPerCooldown ==
    ASSUME ~SlowSends
    PROVE  Spec => NoDripWithinCooldown
<1> DEFINE IInv == Types /\ Exclusion /\ Held /\ Cooled
<1>1. Init => IInv
  <2>1. Init => Exclusion
    BY DEF Init, Exclusion, In, NewCall
  <2> QED
    BY <2>1, TypesInit, HeldInit
<1>2. IInv /\ [Next]_vars => IInv'
  BY TypesStep, ExclusionStep, OwnsStep
<1>3. IInv /\ [Next]_vars =>
        [\A c \in Calls : (c \in sent' /\ c \notin sent) =>
           \/ Doc(c).lastClaimedAt = Never
           \/ Doc(c).lastClaimedAt <= now - cooldown]_vars
  BY NoEarlyDrip
<1> QED
  BY <1>1, <1>2, <1>3, PTL DEF Spec, NoDripWithinCooldown

---------------------------------------------------------------------------
(* The books                                                               *)

\* How a call that nothing happened to ended, and whose reservation is left.
Endings ==
    \A c \in Calls \ (Unlucky \cup Unheard) :
      /\ calls[c].pc \in {"commit", "done"} => c \in sent
      /\ calls[c].pc \in {"rejected", "failed"} => c \notin paid

Reservations ==
    \A c \in Calls \ Unlucky, r \in Recipients : claims[r].reservationId = c =>
      calls[c].to = r /\ calls[c].pc \in {"budget", "queued", "sending", "commit", "undo", "dead"}

LEMMA EndingsStep ==
    ASSUME Types, Places, Endings, [Next]_vars
    PROVE  Endings'
<1> SUFFICES ASSUME NEW x \in Calls \ (Unlucky \cup Unheard)
             PROVE  /\ calls'[x].pc \in {"commit", "done"} => x \in sent'
                    /\ calls'[x].pc \in {"rejected", "failed"} => x \notin paid'
  BY DEF Endings
<1>a. /\ calls[x].pc \in {"commit", "done"} => x \in sent
      /\ calls[x].pc \in {"rejected", "failed"} => x \notin paid
      /\ calls[x].pc = "new" => x \notin paid
  BY DEF Endings, Places
<1> DEFINE Ends == /\ calls'[x].pc \in {"commit", "done"} => x \in sent'
                   /\ calls'[x].pc \in {"rejected", "failed"} => x \notin paid'
<1> USE DEF history
<1>1. ASSUME NEW c \in Calls, NEW r \in Recipients, Reserve(c, r) PROVE Ends
  BY <1>1, <1>a, Reserved DEF Reserve
<1>2. ASSUME NEW c \in Calls, TakeBudget(c) PROVE Ends
  <2>1. CASE Go(c, "queued") /\ paid' = paid \cup {c}
    BY <1>2, <2>1, <1>a, Moved DEF TakeBudget
  <2>2. CASE Go(c, "undo") /\ paid' = paid
    BY <1>2, <2>2, <1>a, Moved DEF TakeBudget
  <2> QED
    BY <1>2, <2>1, <2>2 DEF TakeBudget
<1>3. ASSUME NEW c \in Calls, Build(c) PROVE Ends
  <2>1. UNCHANGED <<paid, sent>>
    BY <1>3 DEF Build
  <2>2. calls'[x].pc \in {calls[x].pc, "sending"}
    BY <1>3, Built
  <2> QED
    BY <2>1, <2>2, <1>a
<1>4. ASSUME NEW c \in Calls, Broadcast(c) PROVE Ends
  <2>1. paid' = paid
    BY <1>4 DEF Broadcast
  <2>2. CASE Go(c, "commit") /\ sent' = sent \cup {c}
    BY <2>1, <2>2, <1>a, Moved
  <2>3. CASE Go(c, "undo") /\ sent' \in {sent, sent \cup {c}}
    BY <2>1, <2>3, <1>a, Moved
  <2> QED
    BY <1>4, <2>2, <2>3 DEF Broadcast
<1>5. ASSUME NEW c \in Calls, Commit(c) PROVE Ends
  <2>1. calls[c].pc = "commit" /\ UNCHANGED <<paid, sent>>
    BY <1>5 DEF Commit, In
  <2> QED
    BY <1>5, <2>1, <1>a, Recorded
<1>6. ASSUME NEW c \in Calls, RestoreClaim(c) PROVE Ends
  <2>1. UNCHANGED <<paid, sent>>
    BY <1>6 DEF RestoreClaim
  <2>2. \/ c \in paid /\ Go(c, "refund")
        \/ c \notin paid /\ Go(c, "rejected")
        \/ c \in Unlucky /\ Go(c, "failed")
    BY <1>6 DEF RestoreClaim
  <2> QED
    BY <2>1, <2>2, <1>a, Moved
<1>7. ASSUME NEW c \in Calls, Refund(c) PROVE Ends
  <2>1. Go(c, "failed") /\ sent' = sent /\ paid' \in {paid, paid \ {c}} /\ (c \in Unlucky \/ paid' = paid \ {c})
    BY <1>7 DEF Refund
  <2> QED
    BY <2>1, <1>a, Moved
<1>8. CASE Tick
  BY <1>8, <1>a DEF Tick
<1>9. CASE Crash
  <2>1. UNCHANGED <<paid, sent>>
    BY <1>9 DEF Crash
  <2> QED
    BY <1>9, <2>1, <1>a, Died DEF Live
<1>10. CASE UNCHANGED vars
  BY <1>10, <1>a DEF vars
<1> QED
  BY <1>1, <1>2, <1>3, <1>4, <1>5, <1>6, <1>7, <1>8, <1>9, <1>10 DEF Next, Serve

\* A call that goes on without touching the documents keeps its reservation,
\* if it stays where it may hold one.
LEMMA ReservationsServing ==
    ASSUME Types, Reservations, NEW c \in Calls, Serve(c), claims' = claims,
           \/ c \in Unlucky \/ calls[c].pc = "refund"
           \/ calls'[c].pc \in {"budget", "queued", "sending", "commit", "undo", "dead"}
    PROVE  Reservations'
<1> SUFFICES ASSUME NEW x \in Calls \ Unlucky, NEW r \in Recipients, claims[r].reservationId = x
             PROVE  /\ calls'[x].to = r
                    /\ calls'[x].pc \in {"budget", "queued", "sending", "commit", "undo", "dead"}
  BY DEF Reservations
<1>1. calls[x].to = r /\ calls[x].pc \in {"budget", "queued", "sending", "commit", "undo", "dead"}
  BY DEF Reservations
<1> QED
  BY <1>1, OneMoves

\* A call that has written its document, or found it another's, holds none.
LEMMA ReservationsDone ==
    ASSUME Types, Reservations, NEW c \in Calls, Serve(c), calls[c].pc \in {"commit", "undo"},
           \/ claims' = claims /\ ~Mine(c)
           \/ \E doc : claims' = [claims EXCEPT ![calls[c].to] = doc] /\ doc.reservationId = NoCall
    PROVE  Reservations'
<1> SUFFICES ASSUME NEW x \in Calls \ Unlucky, NEW r \in Recipients, claims'[r].reservationId = x
             PROVE  /\ calls'[x].to = r
                    /\ calls'[x].pc \in {"budget", "queued", "sending", "commit", "undo", "dead"}
  BY DEF Reservations
<1>1. NoCall # x
  BY FaucetConstants
<1>2. claims[r].reservationId = x
  BY <1>1 DEF Types
<1>3. calls[x].to = r /\ calls[x].pc \in {"budget", "queued", "sending", "commit", "undo", "dead"}
  BY <1>2 DEF Reservations
<1>4. x # c
  BY <1>1, <1>2, <1>3 DEF Mine, Doc, Types
<1> QED
  BY <1>3, <1>4, OneMoves

LEMMA ReservationsStep ==
    ASSUME Types, Reservations, [Next]_vars
    PROVE  Reservations'
<1> USE DEF history
<1>1. ASSUME NEW c \in Calls, NEW r \in Recipients, Reserve(c, r) PROVE Reservations'
  <2> SUFFICES ASSUME NEW x \in Calls \ Unlucky, NEW q \in Recipients, claims'[q].reservationId = x
               PROVE  /\ calls'[x].to = q
                      /\ calls'[x].pc \in {"budget", "queued", "sending", "commit", "undo", "dead"}
    BY DEF Reservations
  <2>1. CASE Claimable(claims[r]) /\ q = r
    <3>1. /\ claims' = [claims EXCEPT ![r].status = "RESERVED", ![r].reservedAt = now,
                                      ![r].reservationId = c]
          /\ calls' = [calls EXCEPT ![c].pc = "budget", ![c].to = r, ![c].at = now,
                                    ![c].previous = claims[r].status]
      BY <1>1, <2>1 DEF Reserve
    <3>2. x = c
      BY <2>1, <3>1 DEF Types, ClaimDocs
    <3> QED
      BY <2>1, <3>1, <3>2 DEF Types, Documents, CallStates
  <2>2. CASE ~(Claimable(claims[r]) /\ q = r)
    <3>1. claims'[q] = claims[q]
      BY <1>1, <2>2 DEF Reserve, Types
    <3>2. calls[x].to = q /\ calls[x].pc \in {"budget", "queued", "sending", "commit", "undo", "dead"}
      BY <3>1 DEF Reservations
    <3> QED
      BY <1>1, <3>2, Reserved
  <2> QED
    BY <2>1, <2>2
<1>2. ASSUME NEW c \in Calls, TakeBudget(c) \/ Build(c) \/ Broadcast(c) PROVE Reservations'
  <2>1. claims' = claims /\ Serve(c)
    BY <1>2 DEF TakeBudget, Build, Broadcast, Serve
  <2>2. calls'[c].pc \in {"queued", "sending", "commit", "undo"}
    BY <1>2, Moved, Built DEF TakeBudget, Build, Broadcast
  <2> QED
    BY <2>1, <2>2, ReservationsServing
<1>3. ASSUME NEW c \in Calls, Commit(c) PROVE Reservations'
  <2>1. calls[c].pc = "commit" /\ Serve(c)
    BY <1>3 DEF Commit, In, Serve
  <2>2. CASE claims' = claims /\ c \in Unlucky
    BY <2>1, <2>2, ReservationsServing
  <2>3. [NoClaim EXCEPT !.status = "SENT", !.lastClaimedAt = now].reservationId = NoCall
    BY DEF NoClaim
  <2> QED
    BY <1>3, <2>1, <2>2, <2>3, ReservationsDone DEF Commit
<1>4. ASSUME NEW c \in Calls, RestoreClaim(c) PROVE Reservations'
  <2>1. calls[c].pc = "undo" /\ Serve(c)
    BY <1>4 DEF RestoreClaim, In, Serve
  <2>2. CASE claims' = claims /\ c \in Unlucky
    BY <2>1, <2>2, ReservationsServing
  <2>3. /\ NoClaim.reservationId = NoCall
        /\ [NoClaim EXCEPT !.status = calls[c].previous,
                           !.lastClaimedAt = Doc(c).lastClaimedAt].reservationId = NoCall
    BY DEF NoClaim
  <2> QED
    BY <1>4, <2>1, <2>2, <2>3, ReservationsDone DEF RestoreClaim
<1>5. ASSUME NEW c \in Calls, Refund(c) PROVE Reservations'
  BY <1>5, ReservationsServing DEF Refund, In, Serve
<1>6. CASE Tick
  BY <1>6 DEF Tick, Reservations
<1>7. CASE Crash
  <2>1. claims' = claims /\ \A c \in Calls : calls'[c].to = calls[c].to
    BY <1>7 DEF Crash, Types, Documents, CallStates
  <2> QED
    BY <1>7, <2>1, Died DEF Reservations, Live
<1>8. CASE UNCHANGED vars
  BY <1>8 DEF vars, Reservations
<1> QED
  BY <1>1, <1>2, <1>3, <1>4, <1>5, <1>6, <1>7, <1>8 DEF Next, Serve

LEMMA BooksFollow ==
    ASSUME Types, Places, Accounting, Endings, Reservations
    PROVE  BooksBalance
<1>1. \A d \in Days : budget[d] = [claims |-> Cardinality(PaidOn(d)),
                                   tokens |-> Cardinality(PaidOn(d)) * dripAmount]
  BY DEF Accounting, Types, Documents
<1>2. ASSUME NEW c \in Calls \ (Unlucky \cup Unheard), calls[c].pc \in {"done", "rejected", "failed"}
      PROVE  (c \in paid <=> c \in sent) /\ \A r \in Recipients : claims[r].reservationId # c
  BY <1>2 DEF Places, Endings, Reservations
<1> QED
  BY <1>1, <1>2 DEF BooksBalance

\* The books are exact, for any number of calls: whatever crashes, takeovers
\* and failures other calls meet, a day's budget counts the shares held, and a
\* call that nothing happened to holds one if and only if its drip went out.
THEOREM BooksAlwaysBalance == Spec => []BooksBalance
<1> DEFINE IInv == Types /\ Exclusion /\ Places /\ Accounting /\ Endings /\ Reservations
<1>1. Init => IInv
  <2>1. Init => Types /\ Exclusion /\ Places /\ Accounting
    BY AccountingInit
  <2>2. Init => Endings /\ Reservations
    BY FaucetConstants DEF Init, Endings, Reservations, NewCall, NoClaim
  <2> QED
    BY <2>1, <2>2
<1>2. IInv /\ [Next]_vars => IInv'
  BY TypesStep, ExclusionStep, PlacesStep, AccountingStep, EndingsStep, ReservationsStep
<1>3. IInv => BooksBalance
  BY BooksFollow
<1> QED
  BY <1>1, <1>2, <1>3, PTL DEF Spec

---------------------------------------------------------------------------
(* The queue of the send lock                                              *)

Queued ==
    /\ \A c \in Calls : calls[c].pc \in {"queued", "sending"} <=> \E i \in 1..Len(queue) : queue[i] = c
    /\ \A i, j \in 1..Len(queue) : i # j => queue[i] # queue[j]

LEMMA QueuedSame ==
    ASSUME Queued, queue' = queue,
           \A x \in Calls : calls'[x].pc \in {"queued", "sending"} <=> calls[x].pc \in {"queued", "sending"}
    PROVE  Queued'
BY DEF Queued

LEMMA QueuedJoin ==
    ASSUME Types, Queued, NEW c \in Calls, calls[c].pc = "budget", Go(c, "queued"), queue' = Append(queue, c)
    PROVE  Queued'
<1>1. /\ Len(queue) \in Nat /\ Len(queue') = Len(queue) + 1
      /\ \A i \in 1..Len(queue) : queue'[i] = queue[i]
      /\ queue'[Len(queue) + 1] = c
  BY AppendProperties DEF Types, Documents
<1>2. \A i \in 1..Len(queue) : queue[i] # c
  BY DEF Queued
<1>3. \A i \in 1..Len(queue') : i \in 1..Len(queue) \/ i = Len(queue) + 1
  BY <1>1
<1>4. \A i, j \in 1..Len(queue') : i # j => queue'[i] # queue'[j]
  BY <1>1, <1>2, <1>3 DEF Queued
<1>5. ASSUME NEW x \in Calls
      PROVE  calls'[x].pc \in {"queued", "sending"} <=> \E i \in 1..Len(queue') : queue'[i] = x
  <2>1. (\E i \in 1..Len(queue') : queue'[i] = x) <=> (x = c \/ \E i \in 1..Len(queue) : queue[i] = x)
    BY <1>1, <1>3
  <2> QED
    BY <2>1, Moved DEF Queued
<1> QED
  BY <1>4, <1>5 DEF Queued

LEMMA QueuedLeave ==
    ASSUME Types, Queued, NEW c \in Calls, queue # <<>>, Head(queue) = c, queue' = Tail(queue),
           \E step \in {"undo", "commit"} : Go(c, step)
    PROVE  Queued'
<1>1. /\ Len(queue) \in Nat \ {0} /\ Len(queue') = Len(queue) - 1
      /\ \A i \in 1..Len(queue') : queue'[i] = queue[i + 1]
      /\ queue[1] = c
  BY HeadTailProperties, EmptySeq DEF Types, Documents
<1>2. \A i \in 2..Len(queue) : queue[i] # c /\ i - 1 \in 1..Len(queue') /\ queue'[i - 1] = queue[i]
  BY <1>1 DEF Queued
<1>3. \A i \in 1..Len(queue') : i + 1 \in 2..Len(queue)
  BY <1>1
<1>4. \A i, j \in 1..Len(queue') : i # j => queue'[i] # queue'[j]
  BY <1>1, <1>3 DEF Queued
<1>5. ASSUME NEW x \in Calls
      PROVE  calls'[x].pc \in {"queued", "sending"} <=> \E i \in 1..Len(queue') : queue'[i] = x
  <2>1. (\E i \in 1..Len(queue') : queue'[i] = x) <=> (x # c /\ \E i \in 1..Len(queue) : queue[i] = x)
    BY <1>1, <1>2, <1>3
  <2> QED
    BY <2>1, Moved DEF Queued
<1> QED
  BY <1>4, <1>5 DEF Queued

LEMMA QueuedStep ==
    ASSUME Types, Exclusion, Queued, [Next]_vars
    PROVE  Queued'
<1>1. ASSUME NEW c \in Calls, NEW r \in Recipients, Reserve(c, r) PROVE Queued'
  BY <1>1, Reserved, QueuedSame DEF Reserve
<1>2. ASSUME NEW c \in Calls, TakeBudget(c) PROVE Queued'
  <2>1. calls[c].pc = "budget"
    BY <1>2 DEF TakeBudget, In
  <2>2. CASE Go(c, "undo") /\ queue' = queue
    BY <2>1, <2>2, Moved, QueuedSame
  <2> QED
    BY <1>2, <2>1, <2>2, QueuedJoin DEF TakeBudget
<1>3. ASSUME NEW c \in Calls, Build(c) PROVE Queued'
  <2>1. calls[c].pc = "queued" /\ queue' = queue
    BY <1>3 DEF Build, In
  <2> QED
    BY <1>3, <2>1, Built, QueuedSame
<1>4. ASSUME NEW c \in Calls, Broadcast(c) PROVE Queued'
  <2>1. queue # <<>> /\ Head(queue) = c
    BY <1>4 DEF Broadcast, Exclusion
  <2>2. queue' = Tail(queue) /\ \E step \in {"undo", "commit"} : Go(c, step)
    BY <1>4 DEF Broadcast, NextTask
  <2> QED
    BY <2>1, <2>2, QueuedLeave
<1>5. ASSUME NEW c \in Calls, Commit(c) PROVE Queued'
  <2>1. calls[c].pc = "commit" /\ queue' = queue
    BY <1>5 DEF Commit, In
  <2> QED
    BY <1>5, <2>1, Recorded, QueuedSame
<1>6. ASSUME NEW c \in Calls, RestoreClaim(c) \/ Refund(c) PROVE Queued'
  <2>1. calls[c].pc \in {"undo", "refund"} /\ queue' = queue
    BY <1>6 DEF RestoreClaim, Refund, In
  <2>2. \E step \in {"refund", "rejected", "failed"} : Go(c, step)
    BY <1>6 DEF RestoreClaim, Refund
  <2> QED
    BY <2>1, <2>2, Moved, QueuedSame
<1>7. CASE Tick
  BY <1>7, QueuedSame DEF Tick
<1>8. CASE Crash
  <2>1. queue' = <<>> /\ Len(queue') = 0
    BY <1>8, EmptySeq DEF Crash
  <2>2. \A x \in Calls : calls'[x].pc \notin {"queued", "sending"}
    BY <1>8, Died DEF Live
  <2> QED
    BY <2>1, <2>2 DEF Queued
<1>9. CASE UNCHANGED vars
  BY <1>9, QueuedSame DEF vars
<1> QED
  BY <1>1, <1>2, <1>3, <1>4, <1>5, <1>6, <1>7, <1>8, <1>9 DEF Next, Serve

LEMMA TypesFollow ==
    ASSUME Types, Accounting, Queued
    PROVE  TypeOK
<1>1. budget \in [Days -> [claims: Nat, tokens: Nat]]
  <2>1. \A n \in Nat : n * dripAmount \in Nat
    BY FaucetConstants
  <2>2. \A d \in Days : budget[d].claims \in Nat /\ budget[d].tokens \in Nat
    BY <2>1, PaidFinite DEF Accounting
  <2> QED
    BY <2>2 DEF Types, Documents
<1>2. DOMAIN queue = 1..Len(queue) /\ \A i \in DOMAIN queue : queue[i] \in Calls
  BY LenProperties, ElementOfSeq DEF Types, Documents
<1>3. {queue[i] : i \in DOMAIN queue} = {c \in Calls : calls[c].pc \in {"queued", "sending"}}
  BY <1>2 DEF Queued
<1>4. \A i, j \in DOMAIN queue : i # j => queue[i] # queue[j]
  BY <1>2 DEF Queued
<1> QED
  BY <1>1, <1>3, <1>4 DEF TypeOK, Types, Documents

\* The state is well typed, and the lock's queue holds exactly the calls that
\* wait or send, each once, whatever fails.
THEOREM QueueIsExact == Spec => []TypeOK
<1> DEFINE IInv == Types /\ Exclusion /\ Places /\ Accounting /\ Queued
<1>1. Init => IInv
  <2>1. Init => Queued
    BY EmptySeq DEF Init, Queued, NewCall
  <2> QED
    BY <2>1, AccountingInit
<1>2. IInv /\ [Next]_vars => IInv'
  BY TypesStep, ExclusionStep, PlacesStep, AccountingStep, QueuedStep
<1>3. IInv => TypeOK
  BY TypesFollow
<1> QED
  BY <1>1, <1>2, <1>3, PTL DEF Spec
===========================================================================
