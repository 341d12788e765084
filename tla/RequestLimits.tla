-------------------------- MODULE RequestLimits --------------------------
(***************************************************************************)
(* createRateLimiter of backend/src/middleware/index.ts: a fixed window    *)
(* per client in front of the market API, in a map of bounded size.  Time  *)
(* matters only as the age of a window, which is not told apart from       *)
(* windowMs on.                                                            *)
(***************************************************************************)
EXTENDS Integers, FiniteSets, Functions, FiniteSetsExt

CONSTANTS Clients, windowMs, max, maxClients

ASSUME LimiterConstants ==
    /\ IsFiniteSet(Clients)
    /\ windowMs \in Nat \ {0} /\ max \in Nat \ {0} /\ maxClients \in Nat \ {0}

VARIABLES
    windows,   \* client -> its window, for the clients tracked
    recent     \* client -> requests let through, by their age (below windowMs)

limiter == <<windows, recent>>

Ages == 0..windowMs
\* Bound: counts above max are all refused alike.
Counts == 1..(max + 1)

LimiterTypeOK ==
    /\ \E tracked \in SUBSET Clients : windows \in [tracked -> [age : Ages, count : Counts]]
    /\ Cardinality(DOMAIN windows) <= maxClients

LimiterInit ==
    /\ windows = <<>>
    /\ recent = [c \in Clients |-> [age \in 0..(windowMs - 1) |-> 0]]

---------------------------------------------------------------------------
Unexpired == {c \in DOMAIN windows : windows[c].age < windowMs}
NeedsWindow(c) == c \notin Unexpired
IsFull == Cardinality(DOMAIN windows) >= maxClients

\* Mutant: a full map is emptied.
KeptNone(c) == IF NeedsWindow(c) /\ IsFull THEN <<>> ELSE windows

\* Mutant: a full map is not pruned.
KeptAll(c) == windows

\* The windows left after the pruning that only a full map is subjected to.
Kept(c) == IF NeedsWindow(c) /\ IsFull THEN Restrict(windows, Unexpired) ELSE windows

IsShed(c) == NeedsWindow(c) /\ Cardinality(DOMAIN Kept(c)) >= maxClients

\* A request that is not shed is counted, let through or not.
Entry(c) ==
    IF NeedsWindow(c) THEN [age |-> 0, count |-> 1]
    ELSE [windows[c] EXCEPT !.count = IF @ > max THEN @ ELSE @ + 1]

Counted(c) == windows' = [d \in DOMAIN Kept(c) \cup {c} |-> IF d = c THEN Entry(c) ELSE Kept(c)[d]]

\* A request of the client would be answered with status 429.
IsRefused(c) == IsShed(c) \/ Entry(c).count > max

Serve(c) ==
    /\ ~IsRefused(c)
    /\ Counted(c)
    /\ recent' = [recent EXCEPT ![c][0] = @ + 1]

Refuse(c) ==
    /\ IsRefused(c)
    /\ IF IsShed(c) THEN windows' = Kept(c) ELSE Counted(c)
    /\ UNCHANGED recent

\* A unit of time passes.
Age ==
    /\ windows' = [c \in DOMAIN windows |-> [windows[c] EXCEPT !.age = IF @ < windowMs THEN @ + 1 ELSE @]]
    /\ recent' = [c \in Clients |-> [age \in 0..(windowMs - 1) |-> IF age = 0 THEN 0 ELSE recent[c][age - 1]]]

---------------------------------------------------------------------------
Served(c) == MapThenSumSet(LAMBDA age : recent[c][age], 0..(windowMs - 1))

\* However many clients come and go, the map stays within maxClients; and
\* whatever a client sends and whoever else fills the map, it is served at most
\* twice max requests in any time shorter than windowMs: the end of one window
\* and the start of the next.  Pruning must never drop a window that still
\* counts (middleware/index.ts:102).
BurstsAreBounded ==
    /\ Cardinality(DOMAIN windows) <= maxClients
    /\ \A c \in Clients : Served(c) <= 2 * max

\* Whoever would be turned away now was itself served max requests within the
\* last windowMs, or maxClients others were served some: neither refused
\* requests nor clients that left keep anyone out (middleware/index.ts:102-108,
\* 119).
RefusalsAreEarned ==
    \A c \in Clients : IsRefused(c) =>
        \/ Served(c) >= max
        \/ Cardinality({d \in Clients \ {c} : Served(d) > 0}) >= maxClients
===========================================================================
