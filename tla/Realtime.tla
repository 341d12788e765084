------------------------------ MODULE Realtime ------------------------------
(***************************************************************************)
(* The WebSocket broadcaster of the backend (services/realtime.ts).        *)
(*                                                                         *)
(* A client subscribes a socket to channels and gets a snapshot of each;   *)
(* after a committed change the ingestion service calls emit, and every    *)
(* subscriber gets a new snapshot.  A snapshot is read from the database   *)
(* with one or more queries, each at its own moment, while other handlers, *)
(* emits, and closing sockets run between the awaits.                      *)
(*                                                                         *)
(* Abstractions: what a query returns is how often its rows have changed;  *)
(* malformed messages, which change nothing, are left out; a peer that     *)
(* misses a heartbeat, errs or leaves is the same lost connection.         *)
(***************************************************************************)
EXTENDS Integers, FiniteSets, Sequences

CONSTANTS
    Sockets, NoSocket,
    Ips, IpOf,               \* every socket has an address
    Channels, Queries,
    Reads,                   \* the queries of a channel's snapshot
    Messages,                \* channel lists a client may send
    Changes,                 \* what one transaction may change, and whether it pushes
    Slow,                    \* sockets that may fail to keep up
    MaxTasks,                \* bound: handlers and emits started
    maxConnections, maxConnectionsPerIp,
    maxChannelsPerMessage, maxChannelsPerSocket,
    MaxChanges,              \* bound: changes committed to a query
    MaxFailures              \* bound: failed database reads

ASSUME RealtimeConstants ==
    /\ NoSocket \notin Sockets /\ IpOf \in [Sockets -> Ips] /\ Slow \subseteq Sockets
    /\ Reads \in [Channels -> SUBSET Queries]
    /\ \A c, d \in Channels : c # d => Reads[c] \cap Reads[d] = {}
    /\ Messages \subseteq Seq(Channels) \ {<<>>} /\ Changes \subseteq [rows: SUBSET Queries, pushes: BOOLEAN]
    /\ {MaxChanges, MaxFailures, maxConnections, maxConnectionsPerIp} \subseteq Nat

VARIABLES
    changes,      \* query -> how often its rows have changed
    due,          \* channel -> pushes the ingestion service still owes
    conn,         \* socket -> where its connection is
    owned,        \* channelsBySocket
    subscribers,  \* subscriptions: a channel without subscribers has no entry
    sequence,     \* sequenceByChannel: 0 for no entry
    byIp,         \* connectionsByIp: 0 for no entry
    task,         \* handlers and emits that wait for the database
    announced,    \* history: query -> changes that an emit has announced
    failed,       \* history: channels a read failed for since the last emit
    failures,     \* history: number of failed reads
    sent          \* history: open socket -> number and newest rows it was sent

serverVars == <<owned, subscribers, sequence, byIp>>
historyVars == <<announced, failed, failures>>
vars == <<changes, due, conn, serverVars, task, historyVars, sent>>

Tasks == 1..MaxTasks
New == [kind |-> "new"]
Done == [kind |-> "done"]
Unread == [q \in Queries |-> -1]
NothingSent == [number |-> [c \in Channels |-> 0], rows |-> Unread]

Busy == {t \in Tasks : task[t] \notin {New, Done}}

\* Tasks are numbered in the order they start.
Starts(t, record) ==
    /\ task[t] = New /\ \A u \in 1..(t - 1) : task[u] # New
    /\ task' = [task EXCEPT ![t] = record]

\* channelsBySocket holds an accepted socket until its close event.
Registered == {s \in Sockets : conn[s] \in {"open", "closing"}}
Open(s) == conn[s] = "open"
Channel(t) == Head(task[t].channels)

Views == [Queries -> -1..MaxChanges]

TypeOK ==
    /\ changes \in [Queries -> 0..MaxChanges] /\ announced \in [Queries -> 0..MaxChanges]
    /\ due \in [Channels -> Nat]
    /\ conn \in [Sockets -> {"new", "open", "closing", "closed"}]
    /\ owned \in [Sockets -> SUBSET Channels]
    /\ subscribers \in [Channels -> SUBSET Sockets]
    /\ sequence \in [Channels -> Nat] /\ byIp \in [Ips -> Nat]
    /\ \A t \in Busy :
         task[t] \in [kind: {"message", "emit"}, socket: Sockets \cup {NoSocket},
                      channels: Seq(Channels), view: Views, attached: BOOLEAN]
         /\ task[t].channels # <<>>
    /\ failed \subseteq Channels /\ failures \in 0..MaxFailures
    /\ sent \in [Sockets -> [number: [Channels -> Nat], rows: Views]]
    \* A registered socket owns the channels that list it as a subscriber.
    /\ \A s \in Sockets :
         owned[s] = IF s \in Registered THEN {c \in Channels : s \in subscribers[c]} ELSE {}

Init ==
    /\ changes = [q \in Queries |-> 0] /\ announced = changes
    /\ due = [c \in Channels |-> 0]
    /\ conn = [s \in Sockets |-> "new"]
    /\ owned = [s \in Sockets |-> {}]
    /\ subscribers = [c \in Channels |-> {}]
    /\ sequence = [c \in Channels |-> 0]
    /\ byIp = [ip \in Ips |-> 0]
    /\ task = [t \in Tasks |-> New]
    /\ failed = {} /\ failures = 0
    /\ sent = [s \in Sockets |-> NothingSent]

---------------------------------------------------------------------------
(* The database                                                            *)

\* The ingestion service commits a change and owes the channels a push.  The
\* bot's own writes (reserve, revertToLive) owe none.
Commit(changed, pushes) ==
    /\ \A q \in changed : changes[q] < MaxChanges
    /\ changes' = [q \in Queries |-> IF q \in changed THEN changes[q] + 1 ELSE changes[q]]
    /\ due' = [c \in Channels |->
                 IF pushes /\ Reads[c] \cap changed # {} THEN due[c] + 1 ELSE due[c]]
    /\ UNCHANGED <<conn, serverVars, task, historyVars, sent>>

---------------------------------------------------------------------------
(* Connections                                                             *)

Admitted(s) ==
    /\ Cardinality(Registered) < maxConnections
    /\ byIp[IpOf[s]] < maxConnectionsPerIp

\* Mutant: the close handler is attached before the limits are checked.
RefusedWithHandler(s) == "closing"

\* A refused socket gets no close handler.
Refused(s) == "closed"

Connect(s) ==
    /\ conn[s] = "new"
    /\ \/ /\ Admitted(s)
          /\ conn' = [conn EXCEPT ![s] = "open"]
          /\ byIp' = [byIp EXCEPT ![IpOf[s]] = @ + 1]
       \/ /\ ~Admitted(s)
          /\ conn' = [conn EXCEPT ![s] = Refused(s)]
          /\ UNCHANGED byIp
    /\ UNCHANGED <<changes, due, owned, subscribers, sequence, task, historyVars, sent>>

\* The connection is lost; its close event comes later.
Drop(s) ==
    /\ Open(s)
    /\ conn' = [conn EXCEPT ![s] = "closing"]
    /\ UNCHANGED <<changes, due, serverVars, task, historyVars, sent>>

\* Mutant: numbering starts again whenever anyone leaves.
EmptiedTooSoon(s) == owned[s]

\* Channels whose entry goes when socket s leaves.
Emptied(s) == {c \in owned[s] : subscribers[c] = {s}}

Release(s) ==
    /\ conn[s] = "closing"
    /\ conn' = [conn EXCEPT ![s] = "closed"]
    /\ subscribers' = [c \in Channels |->
                         IF c \in owned[s] THEN subscribers[c] \ {s} ELSE subscribers[c]]
    /\ sequence' = [c \in Channels |-> IF c \in Emptied(s) THEN 0 ELSE sequence[c]]
    \* An emit in flight keeps the deleted entry's set, which stays empty.
    /\ task' = [t \in Tasks |->
                  IF t \in Busy /\ Channel(t) \in Emptied(s)
                  THEN [task[t] EXCEPT !.attached = FALSE] ELSE task[t]]
    /\ owned' = [owned EXCEPT ![s] = {}]
    /\ byIp' = [byIp EXCEPT ![IpOf[s]] = @ - 1]
    /\ sent' = [sent EXCEPT ![s] = NothingSent]
    /\ UNCHANGED <<changes, due, historyVars>>

---------------------------------------------------------------------------
(* Subscriptions and snapshots                                             *)

\* Mutant: the socket's record is created anew when there is none.
SubscribeAnew(s, c) ==
    /\ owned' = [owned EXCEPT ![s] = @ \cup {c}]
    /\ subscribers' = [subscribers EXCEPT ![c] = @ \cup {s}]

\* Socket s is listed under channel c; its own record is gone once released.
Subscribe(s, c) ==
    /\ owned' = IF s \in Registered THEN [owned EXCEPT ![s] = @ \cup {c}] ELSE owned
    /\ subscribers' = [subscribers EXCEPT ![c] = @ \cup {s}]

Fits(s, channels) ==
    LET named == {channels[i] : i \in DOMAIN channels}
    IN  /\ Len(channels) <= maxChannelsPerMessage
        /\ Cardinality(owned[s] \cup named) <= maxChannelsPerSocket

\* A message that names too much is answered with an error.
Message(s, channels) ==
    /\ Open(s) /\ Fits(s, channels)
    /\ \E t \in Tasks :
         Starts(t, [kind |-> "message", socket |-> s, channels |-> channels,
                    view |-> Unread, attached |-> TRUE])
    /\ Subscribe(s, Head(channels))
    /\ UNCHANGED <<changes, due, conn, sequence, byIp, historyVars, sent>>

\* One query of a snapshot is answered.
Read(t, q) ==
    /\ t \in Busy /\ q \in Reads[Channel(t)] /\ task[t].view[q] = -1
    /\ task' = [task EXCEPT ![t].view[q] = changes[q]]
    /\ UNCHANGED <<changes, due, conn, serverVars, historyVars, sent>>

ReadAll(t) == \A q \in Reads[Channel(t)] : task[t].view[q] # -1

\* The open sockets of to get task t's view; those that cannot keep up are
\* terminated instead.
Send(to, t) ==
    \E lagging \in SUBSET (to \cap Slow) :
      LET c == Channel(t)
          reached == {s \in to \ lagging : Open(s)}
      IN  /\ sequence' = [sequence EXCEPT ![c] = @ + 1]
          /\ sent' = [s \in Sockets |->
                        IF s \in reached
                        THEN [number |-> [sent[s].number EXCEPT ![c] = sequence[c] + 1],
                              rows |-> [q \in Queries |->
                                          IF task[t].view[q] > sent[s].rows[q]
                                          THEN task[t].view[q] ELSE sent[s].rows[q]]]
                        ELSE sent[s]]
          /\ conn' = [s \in Sockets |->
                        IF s \in lagging /\ Open(s) THEN "closing" ELSE conn[s]]

\* A handler sends its snapshot and goes on to the next channel, whatever
\* became of its socket meanwhile.
Resume(t) ==
    /\ t \in Busy /\ task[t].kind = "message" /\ ReadAll(t)
    /\ Send({task[t].socket}, t)
    /\ LET rest == Tail(task[t].channels)
       IN  \/ /\ rest # <<>>
              /\ Subscribe(task[t].socket, Head(rest))
              /\ task' = [task EXCEPT ![t].channels = rest, ![t].view = Unread,
                                      ![t].attached = TRUE]
           \/ /\ rest = <<>>
              /\ task' = [task EXCEPT ![t] = Done]
              /\ UNCHANGED <<owned, subscribers>>
    /\ UNCHANGED <<changes, due, byIp, historyVars>>

---------------------------------------------------------------------------
(* Updates                                                                 *)

\* The service pushes to a channel; without subscribers nothing is read.
Emit(c) ==
    /\ due[c] > 0
    /\ due' = [due EXCEPT ![c] = @ - 1]
    /\ \/ /\ subscribers[c] = {}
          /\ UNCHANGED task
       \/ /\ subscribers[c] # {}
          /\ \E t \in Tasks :
               Starts(t, [kind |-> "emit", socket |-> NoSocket, channels |-> <<c>>,
                          view |-> Unread, attached |-> TRUE])
    /\ announced' = [q \in Queries |-> IF q \in Reads[c] THEN changes[q] ELSE announced[q]]
    /\ failed' = failed \ {c}
    /\ UNCHANGED <<changes, conn, serverVars, failures, sent>>

\* Mutant: an update goes to those who subscribed and are not waiting for a
\* snapshot of their own.
AudienceWithoutNewcomers(t) ==
    subscribers[Channel(t)] \ {task[u].socket : u \in Busy}

\* The set the emit looked up, as it is when the rows have been read.
Audience(t) == IF task[t].attached THEN subscribers[Channel(t)] ELSE {}

Deliver(t) ==
    /\ t \in Busy /\ task[t].kind = "emit" /\ ReadAll(t)
    /\ Send(Audience(t), t)
    /\ task' = [task EXCEPT ![t] = Done]
    /\ UNCHANGED <<changes, due, owned, subscribers, byIp, historyVars>>

\* A query fails: a handler answers with an error and gives up the channels
\* that are left, an emit is dropped.
Fail(t) ==
    /\ t \in Busy /\ failures < MaxFailures
    /\ failures' = failures + 1
    /\ failed' = failed \cup {Channel(t)}
    /\ task' = [task EXCEPT ![t] = Done]
    /\ UNCHANGED <<changes, due, conn, serverVars, announced, sent>>

Next ==
    \/ \E change \in Changes : Commit(change.rows, change.pushes)
    \/ \E c \in Channels : Emit(c)
    \/ \E s \in Sockets : Connect(s) \/ Drop(s) \/ Release(s)
    \/ \E s \in Sockets, channels \in Messages : Message(s, channels)
    \/ \E t \in Tasks, q \in Queries : Read(t, q)
    \/ \E t \in Tasks : Resume(t) \/ Deliver(t) \/ Fail(t)

Spec == Init /\ [][Next]_vars

---------------------------------------------------------------------------
(* Properties                                                              *)

\* A socket never gets two messages of a channel with the same number, nor a
\* later one with a smaller number, also when everybody else leaves the channel
\* and its numbering is dropped: nextSequence and release agree.
NumbersIncrease ==
    [][\A s \in Sockets :
         (Open(s) /\ sent'[s] # sent[s]) =>
           \E c \in Channels : sent'[s].number[c] > sent[s].number[c]]_vars

\* When nothing is in flight for a channel, every open subscriber has been sent
\* rows at least as new as the last emit announced, whether it subscribed
\* before, during or after that emit; a failed read excuses.
UpdatesReachEveryone ==
    \A c \in Channels :
      (c \notin failed /\ \A t \in Busy : Channel(t) # c) =>
        \A s \in subscribers[c], q \in Reads[c] :
          Open(s) => sent[s].rows[q] >= announced[q]

\* The limits count exactly the connections there are: refused and closed
\* sockets take no place, so an address that left may come back.
ConnectionsAreCounted ==
    /\ \A ip \in Ips :
         /\ byIp[ip] = Cardinality({s \in Registered : IpOf[s] = ip})
         /\ byIp[ip] <= maxConnectionsPerIp
    /\ Cardinality(Registered) <= maxConnections
=============================================================================
