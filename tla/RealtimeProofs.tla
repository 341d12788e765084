-------------------------- MODULE RealtimeProofs --------------------------
(***************************************************************************)
(* Theorems about Realtime, for any sockets, channels, messages and limits.*)
(* The invariant adds to TypeOK that a handler's open socket is subscribed *)
(* to the channel it works on (Working), that a socket nobody has accepted *)
(* is in no subscription (Strangers), that an open socket was sent no      *)
(* number above the channel's, and none at all of a channel it is not      *)
(* subscribed to (Numbered), and that the counts of connections are exact. *)
(* Updates need an invariant of their own (Served): what an open socket of *)
(* a channel lacks, some task under way is going to bring, because it read *)
(* its rows after the last announcement or has yet to read them.           *)
(***************************************************************************)
EXTENDS Realtime, FiniteSetTheorems, TLAPS

Pending == {r \in [kind: {"message", "emit"}, socket: Sockets \cup {NoSocket},
                   channels: Seq(Channels), view: Views, attached: BOOLEAN] :
              /\ r.channels # <<>>
              /\ r.kind = "message" => r.socket \in Sockets}

TaskTypes == task \in [Tasks -> Pending \cup {New, Done}]

DataTypes ==
    /\ changes \in [Queries -> 0..MaxChanges] /\ announced \in [Queries -> 0..MaxChanges]
    /\ due \in [Channels -> Nat]
    /\ conn \in [Sockets -> {"new", "open", "closing", "closed"}]
    /\ owned \in [Sockets -> SUBSET Channels]
    /\ subscribers \in [Channels -> SUBSET Sockets]
    /\ sequence \in [Channels -> Nat]
    /\ failed \subseteq Channels /\ failures \in 0..MaxFailures
    /\ sent \in [Sockets -> [number: [Channels -> Nat], rows: Views]]

Types == DataTypes /\ TaskTypes

Owned ==
    \A s \in Sockets :
      owned[s] = IF s \in Registered THEN {c \in Channels : s \in subscribers[c]} ELSE {}

Working ==
    \A t \in Busy :
      task[t].kind = "message" =>
        /\ conn[task[t].socket] # "new"
        /\ Open(task[t].socket) => task[t].socket \in subscribers[Channel(t)]

Strangers ==
    \A s \in Sockets :
      conn[s] = "new" => sent[s] = NothingSent /\ \A c \in Channels : s \notin subscribers[c]

Numbered ==
    \A s \in Sockets, c \in Channels :
      Open(s) => /\ sent[s].number[c] <= sequence[c]
                 /\ sent[s].number[c] > 0 => s \in subscribers[c]

From(ip) == {s \in Registered : IpOf[s] = ip}

Counted ==
    /\ IsFiniteSet(Registered)
    /\ byIp \in [Ips -> Nat]
    /\ ConnectionsAreCounted

Inv == Types /\ Owned /\ Working /\ Strangers /\ Numbered /\ Counted

---------------------------------------------------------------------------
LEMMA BusyIsPending ==
    ASSUME TaskTypes
    PROVE  /\ \A t \in Tasks : t \in Busy <=> task[t] \in Pending
           /\ \A t \in Busy : t \in Tasks /\ task[t] \in Pending /\ Channel(t) \in Channels
<1>1. \A r \in Pending : r # New /\ r # Done
  BY DEF Pending, New, Done
<1>2. \A r \in Pending : Head(r.channels) \in Channels
  BY DEF Pending
<1> QED
  BY <1>1, <1>2 DEF TaskTypes, Busy, Channel

LEMMA Nothing == Unread \in Views /\ NothingSent \in [number: [Channels -> Nat], rows: Views]
BY RealtimeConstants DEF Unread, Views, NothingSent

LEMMA InitInv == Init => Inv
<1> SUFFICES ASSUME Init PROVE Inv
  OBVIOUS
<1>1. Types
  BY RealtimeConstants, Nothing DEF Init, Types, DataTypes, TaskTypes
<1>2. Registered = {}
  BY DEF Init, Registered
<1>3. Busy = {}
  BY DEF Init, Busy
<1>4. Owned /\ Working
  BY <1>2, <1>3 DEF Init, Owned, Working
<1>5. Strangers /\ Numbered
  BY DEF Init, Strangers, Numbered, Open, NothingSent
<1>6. Counted
  <2>1. \A ip \in Ips : From(ip) = {}
    BY <1>2 DEF From
  <2> QED
    BY <1>2, <2>1, FS_EmptySet, RealtimeConstants DEF Init, Counted, ConnectionsAreCounted, From
<1> QED
  BY <1>1, <1>4, <1>5, <1>6 DEF Inv

\* A record of a task that starts or goes on.
LEMMA TaskUpdate ==
    ASSUME TaskTypes, NEW t \in Tasks, NEW r \in Pending \cup {New, Done},
           task' = [task EXCEPT ![t] = r]
    PROVE  /\ TaskTypes'
           /\ \A u \in Busy' : u # t => u \in Busy /\ task'[u] = task[u]
           /\ task'[t] = r
<1>1. TaskTypes'
  BY DEF TaskTypes
<1> QED
  BY <1>1 DEF TaskTypes, Busy

LEMMA CommitStep ==
    ASSUME Inv, NEW change \in Changes, Commit(change.rows, change.pushes)
    PROVE  Inv'
<1>1. changes' \in [Queries -> 0..MaxChanges]
  BY RealtimeConstants DEF Commit, Inv, Types, DataTypes
<1>2. due' \in [Channels -> Nat]
  BY DEF Commit, Inv, Types, DataTypes
<1>3. UNCHANGED <<conn, owned, subscribers, sequence, byIp, task, announced, failed, failures, sent>>
  BY DEF Commit, serverVars, historyVars
<1>4. Registered' = Registered /\ Busy' = Busy
  BY <1>3 DEF Registered, Busy
<1>5. Types'
  BY <1>1, <1>2, <1>3 DEF Inv, Types, DataTypes, TaskTypes
<1>6. Counted' /\ Owned' /\ Strangers' /\ Numbered'
  BY <1>3, <1>4 DEF Inv, Counted, ConnectionsAreCounted, Owned, Strangers, Numbered, Open
<1>7. Working'
  BY <1>3, <1>4 DEF Inv, Working, Open, Channel
<1> QED
  BY <1>5, <1>6, <1>7 DEF Inv

---------------------------------------------------------------------------
(* Counting                                                                *)

LEMMA CountUp ==
    ASSUME Counted, NEW s \in Sockets, s \notin Registered, Admitted(s),
           Registered' = Registered \cup {s}, byIp' = [byIp EXCEPT ![IpOf[s]] = @ + 1]
    PROVE  Counted'
<1>1. /\ IsFiniteSet(Registered')
      /\ Cardinality(Registered') = Cardinality(Registered) + 1
      /\ Cardinality(Registered) \in Nat
  BY FS_AddElement, FS_CardinalityType DEF Counted
<1>2. Cardinality(Registered') <= maxConnections
  BY <1>1, RealtimeConstants DEF Admitted
<1>3. ASSUME NEW ip \in Ips
      PROVE  byIp'[ip] = Cardinality(From(ip)') /\ byIp'[ip] <= maxConnectionsPerIp
  <2>1. IsFiniteSet(From(ip)) /\ From(ip) \subseteq Registered
    BY FS_Subset DEF Counted, From
  <2>2. byIp[ip] = Cardinality(From(ip)) /\ byIp[ip] <= maxConnectionsPerIp
    BY DEF Counted, ConnectionsAreCounted, From
  <2>3. CASE ip = IpOf[s]
    <3>1. From(ip)' = From(ip) \cup {s} /\ s \notin From(ip)
      BY <2>3, <2>1 DEF From
    <3>2. Cardinality(From(ip)') = Cardinality(From(ip)) + 1
      BY <2>1, <3>1, FS_AddElement
    <3> QED
      BY <2>2, <2>3, <3>2, RealtimeConstants DEF Admitted, Counted
  <2>4. CASE ip # IpOf[s]
    <3>1. From(ip)' = From(ip)
      BY <2>4 DEF From
    <3> QED
      BY <2>2, <2>4, <3>1 DEF Counted
  <2> QED
    BY <2>3, <2>4
<1>4. byIp' \in [Ips -> Nat]
  BY RealtimeConstants DEF Counted
<1> QED
  BY <1>1, <1>2, <1>3, <1>4 DEF Counted, ConnectionsAreCounted, From

LEMMA CountDown ==
    ASSUME Counted, NEW s \in Registered, s \in Sockets,
           Registered' = Registered \ {s}, byIp' = [byIp EXCEPT ![IpOf[s]] = @ - 1]
    PROVE  Counted'
<1>1. /\ IsFiniteSet(Registered')
      /\ Cardinality(Registered') = Cardinality(Registered) - 1
      /\ Cardinality(Registered) \in Nat
  BY FS_RemoveElement, FS_CardinalityType DEF Counted
<1>2. Cardinality(Registered') <= maxConnections
  BY <1>1, RealtimeConstants DEF Counted, ConnectionsAreCounted
<1>3. ASSUME NEW ip \in Ips
      PROVE  byIp'[ip] \in Nat /\ byIp'[ip] = Cardinality(From(ip)') /\ byIp'[ip] <= maxConnectionsPerIp
  <2>1. IsFiniteSet(From(ip)) /\ From(ip) \subseteq Registered
    BY FS_Subset DEF Counted, From
  <2>2. byIp[ip] = Cardinality(From(ip)) /\ byIp[ip] <= maxConnectionsPerIp /\ byIp[ip] \in Nat
    BY DEF Counted, ConnectionsAreCounted, From
  <2>3. CASE ip = IpOf[s]
    <3>1. From(ip)' = From(ip) \ {s} /\ s \in From(ip)
      BY <2>3, <2>1 DEF From
    <3>2. Cardinality(From(ip)') = Cardinality(From(ip)) - 1 /\ IsFiniteSet(From(ip)')
      BY <2>1, <3>1, FS_RemoveElement
    <3>3. byIp'[ip] = Cardinality(From(ip)') /\ Cardinality(From(ip)') \in Nat
      BY <2>2, <2>3, <3>2, FS_CardinalityType DEF Counted
    <3> QED
      BY <2>2, <3>2, <3>3, RealtimeConstants
  <2>4. CASE ip # IpOf[s]
    <3>1. From(ip)' = From(ip)
      BY <2>4 DEF From
    <3> QED
      BY <2>2, <2>4, <3>1 DEF Counted
  <2> QED
    BY <2>3, <2>4
<1>4. byIp' \in [Ips -> Nat]
  BY <1>3 DEF Counted
<1> QED
  BY <1>1, <1>2, <1>3, <1>4 DEF Counted, ConnectionsAreCounted, From

LEMMA CountSame ==
    ASSUME Counted, Registered' = Registered, byIp' = byIp
    PROVE  Counted'
BY DEF Counted, ConnectionsAreCounted

---------------------------------------------------------------------------
(* Connections                                                             *)

LEMMA ConnectStep ==
    ASSUME Inv, NEW s \in Sockets, Connect(s)
    PROVE  Inv'
<1>1. /\ UNCHANGED <<changes, due, owned, subscribers, sequence, task, announced, failed, failures, sent>>
      /\ conn[s] = "new"
  BY DEF Connect, historyVars
<1>2. /\ conn' \in [Sockets -> {"new", "open", "closing", "closed"}]
      /\ \A x \in Sockets \ {s} : conn'[x] = conn[x]
      /\ conn'[s] \in {"open", "closed"}
  BY DEF Connect, Refused, Inv, Types, DataTypes
<1>3. Types'
  BY <1>1, <1>2 DEF Inv, Types, DataTypes, TaskTypes
<1>4. Busy' = Busy /\ \A t \in Busy : t \in Tasks /\ task[t] \in Pending
  BY <1>1, BusyIsPending DEF Inv, Types, Busy
<1>5. Strangers' /\ Numbered'
  <2>1. sent[s] = NothingSent
    BY <1>1 DEF Inv, Strangers
  <2>2. \A c \in Channels : sent[s].number[c] = 0 /\ sequence[c] \in Nat
    BY <2>1 DEF NothingSent, Inv, Types, DataTypes
  <2> QED
    BY <1>1, <1>2, <2>2 DEF Inv, Strangers, Numbered, Open
<1>6. Working'
  BY <1>1, <1>2, <1>4 DEF Inv, Working, Open, Channel, Pending
<1>7. CASE Admitted(s) /\ conn' = [conn EXCEPT ![s] = "open"] /\ byIp' = [byIp EXCEPT ![IpOf[s]] = @ + 1]
  <2>1. s \notin Registered /\ Registered' = Registered \cup {s}
    BY <1>1, <1>7 DEF Registered, Inv, Types, DataTypes
  <2>2. Counted'
    BY <1>7, <2>1, CountUp DEF Inv
  <2>3. Owned'
    BY <1>1, <2>1 DEF Inv, Owned, Strangers
  <2> QED
    BY <1>3, <1>5, <1>6, <2>2, <2>3 DEF Inv
<1>8. CASE conn' = [conn EXCEPT ![s] = "closed"] /\ UNCHANGED byIp
  <2>1. Registered' = Registered
    BY <1>1, <1>8 DEF Registered, Inv, Types, DataTypes
  <2>2. Counted' /\ Owned'
    BY <1>1, <1>8, <2>1, CountSame DEF Inv, Owned
  <2> QED
    BY <1>3, <1>5, <1>6, <2>2 DEF Inv
<1> QED
  BY <1>7, <1>8 DEF Connect, Refused

\* Connections may break at any moment; registered ones stay registered until
\* their close event.
LEMMA Breaks ==
    ASSUME Types, Owned, Strangers, Counted,
           conn' \in [Sockets -> {"new", "open", "closing", "closed"}],
           \A x \in Sockets : conn'[x] = conn[x] \/ (conn[x] = "open" /\ conn'[x] = "closing")
    PROVE  Registered' = Registered
BY DEF Types, DataTypes, Registered

LEMMA DropStep ==
    ASSUME Inv, NEW s \in Sockets, Drop(s)
    PROVE  Inv'
<1>1. /\ UNCHANGED <<changes, due, owned, subscribers, sequence, byIp, task, announced, failed, failures, sent>>
      /\ conn[s] = "open" /\ conn' = [conn EXCEPT ![s] = "closing"]
  BY DEF Drop, Open, serverVars, historyVars
<1>2. /\ conn' \in [Sockets -> {"new", "open", "closing", "closed"}]
      /\ \A x \in Sockets : conn'[x] = conn[x] \/ (conn[x] = "open" /\ conn'[x] = "closing")
  BY <1>1 DEF Inv, Types, DataTypes
<1>3. Registered' = Registered
  BY <1>2, Breaks DEF Inv
<1>4. Types'
  BY <1>1, <1>2 DEF Inv, Types, DataTypes, TaskTypes
<1>5. Busy' = Busy /\ \A t \in Busy : t \in Tasks /\ task[t] \in Pending
  BY <1>1, BusyIsPending DEF Inv, Types, Busy
<1>6. Strangers' /\ Numbered'
  BY <1>1, <1>2 DEF Inv, Strangers, Numbered, Open
<1>7. Working'
  BY <1>1, <1>2, <1>5 DEF Inv, Working, Open, Channel, Pending
<1>8. Counted' /\ Owned'
  BY <1>1, <1>3, CountSame DEF Inv, Owned
<1> QED
  BY <1>4, <1>6, <1>7, <1>8 DEF Inv

LEMMA ReleaseStep ==
    ASSUME Inv, NEW s \in Sockets, Release(s)
    PROVE  Inv'
<1>1. /\ UNCHANGED <<changes, due, announced, failed, failures>>
      /\ conn[s] = "closing" /\ conn' = [conn EXCEPT ![s] = "closed"]
      /\ byIp' = [byIp EXCEPT ![IpOf[s]] = @ - 1]
      /\ sent' = [sent EXCEPT ![s] = NothingSent]
      /\ owned' = [owned EXCEPT ![s] = {}]
  BY DEF Release, historyVars
<1>2. /\ conn' \in [Sockets -> {"new", "open", "closing", "closed"}]
      /\ \A x \in Sockets \ {s} : conn'[x] = conn[x] /\ owned'[x] = owned[x] /\ sent'[x] = sent[x]
      /\ conn'[s] = "closed" /\ owned'[s] = {}
  BY <1>1 DEF Inv, Types, DataTypes
<1>3. subscribers' \in [Channels -> SUBSET Sockets] /\ sequence' \in [Channels -> Nat]
  BY DEF Release, Inv, Types, DataTypes
<1>4. \A c \in Channels : subscribers'[c] = subscribers[c] \ {s}
  <2>1. s \in Registered
    BY <1>1 DEF Registered
  <2>2. \A c \in Channels : c \notin owned[s] => s \notin subscribers[c]
    BY <2>1 DEF Inv, Owned
  <2> QED
    BY <2>2 DEF Release
<1>5. \A c \in Channels : sequence'[c] = sequence[c] \/ subscribers[c] = {s}
  BY DEF Release, Emptied
<1>6. /\ TaskTypes'
      /\ \A t \in Busy' : /\ t \in Busy /\ task[t] \in Pending /\ task'[t] \in Pending
                          /\ task'[t].kind = task[t].kind /\ task'[t].socket = task[t].socket
                          /\ task'[t].channels = task[t].channels
  <2>1. \A r \in Pending : [r EXCEPT !.attached = FALSE] \in Pending
    BY DEF Pending
  <2>2. \A t \in Tasks : task'[t] \in {task[t], [task[t] EXCEPT !.attached = FALSE]}
                         /\ (t \notin Busy => task'[t] = task[t])
    BY DEF Release
  <2>3. DOMAIN task' = Tasks /\ task' = [t \in Tasks |-> task'[t]]
    BY DEF Release
  <2>4. TaskTypes'
    BY <2>1, <2>2, <2>3, BusyIsPending DEF TaskTypes, Inv, Types
  <2>5. \A t \in Busy' : t \in Tasks /\ task'[t] \in Pending
    BY <2>4, BusyIsPending DEF Busy, Pending, TaskTypes, New, Done
  <2>6. \A t \in Busy' : t \in Busy
    BY <2>2, <2>5 DEF Busy
  <2>7. \A r \in Pending : LET f == [r EXCEPT !.attached = FALSE]
                           IN  f.kind = r.kind /\ f.socket = r.socket /\ f.channels = r.channels
    BY DEF Pending
  <2> QED
    BY <2>2, <2>4, <2>5, <2>6, <2>7, BusyIsPending DEF Inv, Types
<1>7. Types'
  BY <1>1, <1>2, <1>3, <1>6, Nothing DEF Inv, Types, DataTypes
<1>8. Registered' = Registered \ {s} /\ s \in Registered
  BY <1>1, <1>2 DEF Registered
<1>9. Counted'
  BY <1>1, <1>8, CountDown DEF Inv
<1>10. Owned'
  <2> SUFFICES ASSUME NEW x \in Sockets
               PROVE  owned'[x] = IF x \in Registered' THEN {c \in Channels : x \in subscribers'[c]} ELSE {}
    BY DEF Owned
  <2>1. CASE x = s
    BY <1>2, <1>8, <2>1
  <2>2. CASE x # s
    <3>1. {c \in Channels : x \in subscribers'[c]} = {c \in Channels : x \in subscribers[c]}
      BY <1>4, <2>2
    <3> QED
      BY <1>2, <1>8, <2>2, <3>1 DEF Inv, Owned
  <2> QED
    BY <2>1, <2>2
<1>11. Strangers'
  BY <1>2, <1>4 DEF Inv, Strangers
<1>12. Numbered'
  <2> SUFFICES ASSUME NEW x \in Sockets, NEW c \in Channels, Open(x)'
               PROVE  /\ sent'[x].number[c] <= sequence'[c]
                      /\ sent'[x].number[c] > 0 => x \in subscribers'[c]
    BY DEF Numbered
  <2>1. x # s /\ Open(x)
    BY <1>2 DEF Open
  <2>2. /\ sent[x].number[c] <= sequence[c] /\ sent[x].number[c] \in Nat
        /\ sent[x].number[c] > 0 => x \in subscribers[c]
    BY <2>1 DEF Inv, Numbered, Types, DataTypes
  <2>3. CASE sequence'[c] = sequence[c]
    BY <1>2, <1>4, <2>1, <2>2, <2>3
  <2>4. CASE subscribers[c] = {s}
    BY <1>2, <1>3, <2>1, <2>2, <2>4
  <2> QED
    BY <1>5, <2>3, <2>4
<1>13. Working'
  <2> SUFFICES ASSUME NEW t \in Busy', task'[t].kind = "message"
               PROVE  /\ conn'[task'[t].socket] # "new"
                      /\ Open(task[t].socket)' => task'[t].socket \in subscribers'[Channel(t)']
    BY <1>6 DEF Working
  <2>1. /\ conn[task[t].socket] # "new" /\ task[t].socket \in Sockets
        /\ Open(task[t].socket) => task[t].socket \in subscribers[Channel(t)]
        /\ Channel(t)' = Channel(t) /\ Channel(t) \in Channels
    BY <1>6, BusyIsPending DEF Inv, Types, Working, Pending, Channel
  <2> QED
    BY <1>2, <1>4, <1>6, <2>1 DEF Open
<1> QED
  BY <1>7, <1>9, <1>10, <1>11, <1>12, <1>13 DEF Inv

---------------------------------------------------------------------------
(* Subscriptions and messages                                              *)

\* A subscription of a socket somebody accepted once.
LEMMA SubscribeKeeps ==
    ASSUME Types, Owned, Strangers, Numbered,
           NEW s \in Sockets, NEW c \in Channels, conn[s] # "new", Subscribe(s, c)
    PROVE  /\ owned' \in [Sockets -> SUBSET Channels]
           /\ subscribers' \in [Channels -> SUBSET Sockets]
           /\ \A d \in Channels : subscribers[d] \subseteq subscribers'[d]
           /\ \A d \in Channels : subscribers'[d] \subseteq subscribers[d] \cup {s}
           /\ s \in subscribers'[c]
           /\ \A x \in Sockets :
                owned'[x] = IF x \in Registered THEN {d \in Channels : x \in subscribers'[d]} ELSE {}
<1>1. owned' \in [Sockets -> SUBSET Channels] /\ subscribers' \in [Channels -> SUBSET Sockets]
  BY DEF Subscribe, Types, DataTypes
<1>2. \A d \in Channels : subscribers'[d] = IF d = c THEN subscribers[d] \cup {s} ELSE subscribers[d]
  BY DEF Subscribe, Types, DataTypes
<1>3. ASSUME NEW x \in Sockets
      PROVE  owned'[x] = IF x \in Registered THEN {d \in Channels : x \in subscribers'[d]} ELSE {}
  <2>1. CASE x = s /\ x \in Registered
    <3>1. owned'[x] = owned[x] \cup {c}
      BY <2>1 DEF Subscribe, Types, DataTypes
    <3>2. {d \in Channels : x \in subscribers'[d]} = {d \in Channels : x \in subscribers[d]} \cup {c}
      BY <1>2, <2>1
    <3> QED
      BY <2>1, <3>1, <3>2 DEF Owned
  <2>2. CASE x # s \/ x \notin Registered
    <3>1. owned'[x] = owned[x]
      BY <2>2 DEF Subscribe, Types, DataTypes
    <3>2. x # s => {d \in Channels : x \in subscribers'[d]} = {d \in Channels : x \in subscribers[d]}
      BY <1>2
    <3> QED
      BY <2>2, <3>1, <3>2 DEF Owned
  <2> QED
    BY <2>1, <2>2
<1> QED
  BY <1>1, <1>2, <1>3

LEMMA MessageStep ==
    ASSUME Inv, NEW s \in Sockets, NEW channels \in Messages, Message(s, channels)
    PROVE  Inv'
<1>1. /\ UNCHANGED <<changes, due, conn, sequence, byIp, announced, failed, failures, sent>>
      /\ conn[s] = "open"
  BY DEF Message, Open, historyVars
<1>2. channels \in Seq(Channels) /\ channels # <<>> /\ Head(channels) \in Channels
  BY RealtimeConstants
<1> DEFINE r == [kind |-> "message", socket |-> s, channels |-> channels,
                 view |-> Unread, attached |-> TRUE]
<1>3. r \in Pending
  BY <1>2, Nothing DEF Pending
<1>4. PICK t \in Tasks : task' = [task EXCEPT ![t] = r]
  BY DEF Message, Starts
<1>5. /\ TaskTypes' /\ task'[t] = r
      /\ \A u \in Busy' : u # t => u \in Busy /\ task'[u] = task[u]
  <2> HIDE DEF r
  <2> QED
    BY <1>3, <1>4, TaskUpdate DEF Inv, Types
<1>6. /\ owned' \in [Sockets -> SUBSET Channels]
      /\ subscribers' \in [Channels -> SUBSET Sockets]
      /\ \A d \in Channels : subscribers[d] \subseteq subscribers'[d]
      /\ \A d \in Channels : subscribers'[d] \subseteq subscribers[d] \cup {s}
      /\ s \in subscribers'[Head(channels)]
      /\ \A x \in Sockets :
           owned'[x] = IF x \in Registered THEN {d \in Channels : x \in subscribers'[d]} ELSE {}
  BY <1>1, <1>2, SubscribeKeeps DEF Message, Inv
<1>7. Registered' = Registered
  BY <1>1 DEF Registered
<1>8. Types'
  BY <1>1, <1>5, <1>6 DEF Inv, Types, DataTypes
<1>9. Owned' /\ Counted'
  BY <1>1, <1>6, <1>7, CountSame DEF Inv, Owned
<1>10. Strangers' /\ Numbered'
  BY <1>1, <1>6 DEF Inv, Strangers, Numbered, Open
<1>11. Working'
  <2> SUFFICES ASSUME NEW u \in Busy', task'[u].kind = "message"
               PROVE  /\ conn'[task'[u].socket] # "new"
                      /\ Open(task[u].socket)' => task'[u].socket \in subscribers'[Channel(u)']
    BY DEF Working
  <2>1. CASE u = t
    BY <1>1, <1>5, <1>6, <2>1 DEF Channel, Open
  <2>2. CASE u # t
    <3>1. u \in Busy /\ task'[u] = task[u] /\ Channel(u)' = Channel(u) /\ Channel(u) \in Channels
      BY <1>5, <2>2, BusyIsPending DEF Channel, Inv, Types
    <3> QED
      BY <1>1, <1>6, <3>1 DEF Inv, Working, Open
  <2> QED
    BY <2>1, <2>2
<1> QED
  BY <1>8, <1>9, <1>10, <1>11 DEF Inv

LEMMA ReadStep ==
    ASSUME Inv, NEW t \in Tasks, NEW q \in Queries, Read(t, q)
    PROVE  Inv'
<1>1. /\ UNCHANGED <<changes, due, conn, owned, subscribers, sequence, byIp, announced, failed, failures, sent>>
      /\ t \in Busy
  BY DEF Read, serverVars, historyVars
<1> DEFINE r == [task[t] EXCEPT !.view[q] = changes[q]]
<1>2. task[t] \in Pending
  BY <1>1, BusyIsPending DEF Inv, Types
<1>3. changes[q] \in -1..MaxChanges
  BY RealtimeConstants DEF Inv, Types, DataTypes
<1>4. r \in Pending /\ r.kind = task[t].kind /\ r.socket = task[t].socket /\ r.channels = task[t].channels
  BY <1>2, <1>3 DEF Pending, Views
<1>5. task' = [task EXCEPT ![t] = r]
  BY DEF Read
<1>6. /\ TaskTypes' /\ task'[t] = r
      /\ \A u \in Busy' : u # t => u \in Busy /\ task'[u] = task[u]
  <2> HIDE DEF r
  <2> QED
    BY <1>4, <1>5, TaskUpdate DEF Inv, Types
<1>7. Registered' = Registered
  BY <1>1 DEF Registered
<1>8. Types' /\ Owned' /\ Counted' /\ Strangers' /\ Numbered'
  BY <1>1, <1>6, <1>7, CountSame DEF Inv, Types, DataTypes, Owned, Strangers, Numbered, Open
<1>9. Working'
  <2> SUFFICES ASSUME NEW u \in Busy', task'[u].kind = "message"
               PROVE  /\ conn'[task'[u].socket] # "new"
                      /\ Open(task[u].socket)' => task'[u].socket \in subscribers'[Channel(u)']
    BY DEF Working
  <2>1. /\ u \in Busy /\ task'[u].kind = task[u].kind /\ task'[u].socket = task[u].socket
        /\ Channel(u)' = Channel(u)
    BY <1>1, <1>4, <1>6 DEF Channel
  <2> QED
    BY <1>1, <2>1 DEF Inv, Working, Open
<1> QED
  BY <1>8, <1>9 DEF Inv

---------------------------------------------------------------------------
(* Sending                                                                 *)

\* Only subscribers are sent anything, and numbers grow.
LEMMA SendKeeps ==
    ASSUME Inv, NEW t \in Busy, NEW to \in SUBSET Sockets,
           \A x \in to : Open(x) => x \in subscribers[Channel(t)],
           \A x \in to : conn[x] # "new", Send(to, t)
    PROVE  /\ conn' \in [Sockets -> {"new", "open", "closing", "closed"}]
           /\ \A x \in Sockets : conn'[x] = conn[x] \/ (conn[x] = "open" /\ conn'[x] = "closing")
           /\ Registered' = Registered
           /\ sequence' \in [Channels -> Nat]
           /\ sent' \in [Sockets -> [number: [Channels -> Nat], rows: Views]]
           /\ \A x \in Sockets : conn[x] = "new" => sent'[x] = sent[x]
           /\ \A x \in Sockets, c \in Channels :
                Open(x) => /\ sent'[x].number[c] <= sequence'[c]
                           /\ sent'[x].number[c] > 0 => x \in subscribers[c]
           /\ \A x \in Sockets :
                Open(x) /\ sent'[x] # sent[x] =>
                  sent'[x].number[Channel(t)] > sent[x].number[Channel(t)]
<1> DEFINE c == Channel(t)
<1>1. c \in Channels /\ task[t] \in Pending /\ task[t].view \in Views
  BY BusyIsPending DEF Inv, Types, Pending
<1> DEFINE fresh(x) == [number |-> [sent[x].number EXCEPT ![c] = sequence[c] + 1],
                        rows |-> [q \in Queries |->
                                    IF task[t].view[q] > sent[x].rows[q]
                                    THEN task[t].view[q] ELSE sent[x].rows[q]]]
<1>2. PICK lagging \in SUBSET (to \cap Slow) :
        /\ sequence' = [sequence EXCEPT ![c] = @ + 1]
        /\ sent' = [x \in Sockets |-> IF x \in {y \in to \ lagging : Open(y)} THEN fresh(x) ELSE sent[x]]
        /\ conn' = [x \in Sockets |-> IF x \in lagging /\ Open(x) THEN "closing" ELSE conn[x]]
  BY DEF Send
<1>3. \A x \in Sockets : sent[x] \in [number: [Channels -> Nat], rows: Views]
  BY DEF Inv, Types, DataTypes
<1>4. \A x \in Sockets : fresh(x) \in [number: [Channels -> Nat], rows: Views]
  <2> TAKE x \in Sockets
  <2>1. sequence[c] + 1 \in Nat
    BY <1>1 DEF Inv, Types, DataTypes
  <2>2. [sent[x].number EXCEPT ![c] = sequence[c] + 1] \in [Channels -> Nat]
    BY <1>1, <1>3, <2>1
  <2>3. [q \in Queries |-> IF task[t].view[q] > sent[x].rows[q]
                           THEN task[t].view[q] ELSE sent[x].rows[q]] \in Views
    BY <1>1, <1>3 DEF Views
  <2> QED
    BY <2>2, <2>3
<1>5. sent' \in [Sockets -> [number: [Channels -> Nat], rows: Views]]
  <2> HIDE DEF fresh
  <2> QED
    BY <1>2, <1>3, <1>4
<1>6. /\ conn' \in [Sockets -> {"new", "open", "closing", "closed"}]
      /\ \A x \in Sockets : conn'[x] = conn[x] \/ (conn[x] = "open" /\ conn'[x] = "closing")
  <2> HIDE DEF fresh
  <2> QED
    BY <1>2 DEF Open, Inv, Types, DataTypes
<1>7. Registered' = Registered
  BY <1>6, Breaks DEF Inv
<1>8. sequence' \in [Channels -> Nat] /\ sequence'[c] = sequence[c] + 1
      /\ \A d \in Channels : sequence'[d] >= sequence[d]
  <2> HIDE DEF fresh
  <2> QED
    BY <1>1, <1>2 DEF Inv, Types, DataTypes
<1>9. \A x \in Sockets : \/ sent'[x] = sent[x]
                         \/ x \in to /\ Open(x) /\ sent'[x] = fresh(x)
  <2> HIDE DEF fresh
  <2> QED
    BY <1>2
<1>10. \A x \in Sockets : /\ fresh(x).number[c] = sequence[c] + 1
                          /\ \A d \in Channels \ {c} : fresh(x).number[d] = sent[x].number[d]
  BY <1>1, <1>3
<1>11. ASSUME NEW x \in Sockets, NEW d \in Channels, Open(x)
       PROVE  /\ sent'[x].number[d] <= sequence'[d]
              /\ sent'[x].number[d] > 0 => x \in subscribers[d]
  <2> HIDE DEF fresh
  <2>1. /\ sent[x].number[d] <= sequence[d]
        /\ sent[x].number[d] > 0 => x \in subscribers[d]
        /\ sent[x].number[d] \in Nat /\ sequence[d] \in Nat
    BY <1>11 DEF Inv, Numbered, Types, DataTypes
  <2>2. CASE sent'[x] = sent[x]
    BY <1>8, <2>1, <2>2
  <2>3. CASE x \in to /\ sent'[x] = fresh(x) /\ d = c
    BY <1>8, <1>10, <1>11, <2>3
  <2>4. CASE x \in to /\ sent'[x] = fresh(x) /\ d # c
    BY <1>8, <1>10, <1>11, <2>1, <2>4
  <2> QED
    BY <1>9, <2>2, <2>3, <2>4
<1>12. ASSUME NEW x \in Sockets, Open(x), sent'[x] # sent[x]
       PROVE  sent'[x].number[c] > sent[x].number[c]
  <2> HIDE DEF fresh
  <2>1. sent[x].number[c] <= sequence[c] /\ sent[x].number[c] \in Nat /\ sequence[c] \in Nat
    BY <1>1, <1>12 DEF Inv, Numbered, Types, DataTypes
  <2> QED
    BY <1>9, <1>10, <1>12, <2>1
<1>13. \A x \in Sockets : conn[x] = "new" => sent'[x] = sent[x]
  BY <1>9 DEF Open
<1> QED
  BY <1>5, <1>6, <1>7, <1>8, <1>11, <1>12, <1>13

LEMMA ResumeStep ==
    ASSUME Inv, NEW t \in Tasks, Resume(t)
    PROVE  Inv'
<1> DEFINE s == task[t].socket
           to == {task[t].socket}
           rest == Tail(task[t].channels)
<1>1. /\ t \in Busy /\ task[t].kind = "message" /\ Send(to, t)
      /\ UNCHANGED <<changes, due, byIp, announced, failed, failures>>
  BY DEF Resume, historyVars
<1>2. task[t] \in Pending /\ s \in Sockets /\ Channel(t) \in Channels /\ rest \in Seq(Channels)
  BY <1>1, BusyIsPending DEF Inv, Types, Pending
<1>3. conn[s] # "new" /\ (Open(s) => s \in subscribers[Channel(t)])
  BY <1>1 DEF Inv, Working
<1>4. /\ conn' \in [Sockets -> {"new", "open", "closing", "closed"}]
      /\ \A x \in Sockets : conn'[x] = conn[x] \/ (conn[x] = "open" /\ conn'[x] = "closing")
      /\ Registered' = Registered
      /\ sequence' \in [Channels -> Nat]
      /\ sent' \in [Sockets -> [number: [Channels -> Nat], rows: Views]]
      /\ \A x \in Sockets : conn[x] = "new" => sent'[x] = sent[x]
      /\ \A x \in Sockets, c \in Channels :
           Open(x) => /\ sent'[x].number[c] <= sequence'[c]
                      /\ sent'[x].number[c] > 0 => x \in subscribers[c]
  BY <1>1, <1>2, <1>3, SendKeeps
<1>5. ASSUME rest # <<>>, Subscribe(s, Head(rest)),
             task' = [task EXCEPT ![t].channels = rest, ![t].view = Unread, ![t].attached = TRUE]
      PROVE  Inv'
  <2> DEFINE r == [[[task[t] EXCEPT !.channels = rest] EXCEPT !.view = Unread] EXCEPT !.attached = TRUE]
  <2>1. r \in Pending /\ r.kind = task[t].kind /\ r.socket = s /\ r.channels = rest
    BY <1>2, <1>5, Nothing DEF Pending
  <2>2. task' = [task EXCEPT ![t] = r]
    BY <1>2, <1>5 DEF Inv, Types, TaskTypes
  <2>3. /\ TaskTypes' /\ task'[t] = r
        /\ \A u \in Busy' : u # t => u \in Busy /\ task'[u] = task[u]
    <3> HIDE DEF r
    <3> QED
      BY <2>1, <2>2, TaskUpdate DEF Inv, Types
  <2>4. Head(rest) \in Channels
    BY <1>2, <1>5
  <2>5. /\ owned' \in [Sockets -> SUBSET Channels]
        /\ subscribers' \in [Channels -> SUBSET Sockets]
        /\ \A d \in Channels : subscribers[d] \subseteq subscribers'[d]
        /\ \A d \in Channels : subscribers'[d] \subseteq subscribers[d] \cup {s}
        /\ s \in subscribers'[Head(rest)]
        /\ \A x \in Sockets :
             owned'[x] = IF x \in Registered THEN {d \in Channels : x \in subscribers'[d]} ELSE {}
    BY <1>2, <1>3, <1>5, <2>4, SubscribeKeeps DEF Inv
  <2>6. Types'
    BY <1>1, <1>4, <2>3, <2>5 DEF Inv, Types, DataTypes
  <2>7. Owned' /\ Counted'
    BY <1>1, <1>4, <2>5, CountSame DEF Inv, Owned
  <2>8. Strangers'
    <3> SUFFICES ASSUME NEW x \in Sockets, conn'[x] = "new"
                 PROVE  sent'[x] = NothingSent /\ \A c \in Channels : x \notin subscribers'[c]
      BY DEF Strangers
    <3>1. conn[x] = "new" /\ x # s
      BY <1>3, <1>4
    <3> QED
      BY <1>4, <2>5, <3>1 DEF Inv, Strangers
  <2>9. Numbered'
    BY <1>4, <2>5 DEF Numbered, Open
  <2>10. Working'
    <3> SUFFICES ASSUME NEW u \in Busy', task'[u].kind = "message"
                 PROVE  /\ conn'[task'[u].socket] # "new"
                        /\ Open(task[u].socket)' => task'[u].socket \in subscribers'[Channel(u)']
      BY DEF Working
    <3> HIDE DEF r, rest
    <3>1. CASE u = t
      <4>1. task'[u].socket = s /\ Channel(u)' = Head(rest)
        BY <2>1, <2>3, <3>1 DEF Channel
      <4>2. conn'[s] # "new"
        BY <1>2, <1>3, <1>4
      <4> QED
        BY <2>5, <4>1, <4>2
    <3>2. CASE u # t
      <4>1. u \in Busy /\ task'[u] = task[u] /\ Channel(u)' = Channel(u) /\ Channel(u) \in Channels
            /\ task[u].socket \in Sockets
        BY <2>3, <3>2, BusyIsPending DEF Channel, Inv, Types, Pending
      <4>2. /\ conn[task[u].socket] # "new"
            /\ Open(task[u].socket) => task[u].socket \in subscribers[Channel(u)]
        BY <2>3, <3>2, <4>1 DEF Inv, Working
      <4>3. Open(task[u].socket)' => Open(task[u].socket)
        BY <1>4, <4>1 DEF Open
      <4>4. conn'[task[u].socket] # "new"
        BY <1>4, <4>1, <4>2
      <4> QED
        BY <2>5, <4>1, <4>2, <4>3, <4>4
    <3> QED
      BY <3>1, <3>2
  <2> QED
    BY <2>6, <2>7, <2>8, <2>9, <2>10 DEF Inv
<1>6. ASSUME task' = [task EXCEPT ![t] = Done], UNCHANGED <<owned, subscribers>>
      PROVE  Inv'
  <2>1. /\ TaskTypes' /\ task'[t] = Done
        /\ \A u \in Busy' : u # t => u \in Busy /\ task'[u] = task[u]
    BY <1>6, TaskUpdate DEF Inv, Types
  <2>2. Types' /\ Owned' /\ Counted'
    BY <1>1, <1>4, <1>6, <2>1, CountSame DEF Inv, Types, DataTypes, Owned
  <2>3. Strangers' /\ Numbered'
    BY <1>4, <1>6 DEF Inv, Strangers, Numbered, Open
  <2>4. Working'
    <3> SUFFICES ASSUME NEW u \in Busy', task'[u].kind = "message"
                 PROVE  /\ conn'[task'[u].socket] # "new"
                        /\ Open(task[u].socket)' => task'[u].socket \in subscribers'[Channel(u)']
      BY DEF Working
    <3>1. u # t /\ u \in Busy /\ task'[u] = task[u] /\ Channel(u)' = Channel(u)
          /\ task[u].socket \in Sockets
      BY <2>1, BusyIsPending DEF Channel, Inv, Types, Pending, Busy
    <3> QED
      BY <1>4, <1>6, <3>1 DEF Inv, Working, Open
  <2> QED
    BY <2>2, <2>3, <2>4 DEF Inv
<1> QED
  BY <1>5, <1>6 DEF Resume

\* The steps that end a task, or start an emit, disturb no subscription.
LEMMA DeliverStep ==
    ASSUME Inv, NEW t \in Tasks, Deliver(t)
    PROVE  Inv'
<1>1. /\ t \in Busy /\ Send(Audience(t), t) /\ task' = [task EXCEPT ![t] = Done]
      /\ UNCHANGED <<changes, due, owned, subscribers, byIp, announced, failed, failures>>
  BY DEF Deliver, historyVars
<1>2. Channel(t) \in Channels
  BY <1>1, BusyIsPending DEF Inv, Types
<1>3. Audience(t) \in SUBSET Sockets /\ Audience(t) \subseteq subscribers[Channel(t)]
  BY <1>2 DEF Audience, Inv, Types, DataTypes
<1>4. \A x \in Audience(t) : conn[x] # "new"
  BY <1>2, <1>3 DEF Inv, Strangers
<1>5. /\ conn' \in [Sockets -> {"new", "open", "closing", "closed"}]
      /\ \A x \in Sockets : conn'[x] = conn[x] \/ (conn[x] = "open" /\ conn'[x] = "closing")
      /\ Registered' = Registered
      /\ sequence' \in [Channels -> Nat]
      /\ sent' \in [Sockets -> [number: [Channels -> Nat], rows: Views]]
      /\ \A x \in Sockets : conn[x] = "new" => sent'[x] = sent[x]
      /\ \A x \in Sockets, c \in Channels :
           Open(x) => /\ sent'[x].number[c] <= sequence'[c]
                      /\ sent'[x].number[c] > 0 => x \in subscribers[c]
  BY <1>1, <1>3, <1>4, SendKeeps
<1>6. /\ TaskTypes' /\ task'[t] = Done
      /\ \A u \in Busy' : u # t => u \in Busy /\ task'[u] = task[u]
  BY <1>1, TaskUpdate DEF Inv, Types
<1>7. Types' /\ Owned' /\ Counted'
  BY <1>1, <1>5, <1>6, CountSame DEF Inv, Types, DataTypes, Owned
<1>8. Strangers' /\ Numbered'
  BY <1>1, <1>5 DEF Inv, Strangers, Numbered, Open
<1>9. Working'
  <2> SUFFICES ASSUME NEW u \in Busy', task'[u].kind = "message"
               PROVE  /\ conn'[task'[u].socket] # "new"
                      /\ Open(task[u].socket)' => task'[u].socket \in subscribers'[Channel(u)']
    BY DEF Working
  <2>1. u # t /\ u \in Busy /\ task'[u] = task[u] /\ Channel(u)' = Channel(u)
        /\ task[u].socket \in Sockets
    BY <1>6, BusyIsPending DEF Channel, Inv, Types, Pending, Busy
  <2> QED
    BY <1>1, <1>5, <2>1 DEF Inv, Working, Open
<1> QED
  BY <1>7, <1>8, <1>9 DEF Inv

LEMMA EmitOrFailStep ==
    ASSUME Inv, (\E c \in Channels : Emit(c)) \/ (\E t \in Tasks : Fail(t))
    PROVE  Inv'
<1>1. UNCHANGED <<changes, conn, owned, subscribers, sequence, byIp, sent>>
  BY DEF Emit, Fail, serverVars
<1>2. DataTypes'
  <2>1. CASE \E c \in Channels : Emit(c)
    <3>1. PICK c \in Channels : Emit(c)
      BY <2>1
    <3>2. due' \in [Channels -> Nat]
      BY <3>1 DEF Emit, Inv, Types, DataTypes
    <3>3. announced' \in [Queries -> 0..MaxChanges]
      BY <3>1 DEF Emit, Inv, Types, DataTypes
    <3> QED
      BY <1>1, <3>1, <3>2, <3>3 DEF Emit, Inv, Types, DataTypes
  <2>2. CASE \E t \in Tasks : Fail(t)
    <3>1. PICK t \in Tasks : Fail(t)
      BY <2>2
    <3>2. Channel(t) \in Channels
      BY <3>1, BusyIsPending DEF Fail, Inv, Types
    <3>3. failures' \in 0..MaxFailures
      BY <3>1, RealtimeConstants DEF Fail, Inv, Types, DataTypes
    <3> QED
      BY <1>1, <3>1, <3>2, <3>3 DEF Fail, Inv, Types, DataTypes
  <2> QED
    BY <2>1, <2>2
<1>3. /\ TaskTypes'
      /\ \A u \in Busy' : task'[u].kind = "message" => u \in Busy /\ task'[u] = task[u]
  <2>1. CASE UNCHANGED task
    BY <2>1 DEF Inv, Types, TaskTypes, Busy
  <2>2. ASSUME NEW c \in Channels, NEW t \in Tasks,
               Starts(t, [kind |-> "emit", socket |-> NoSocket, channels |-> <<c>>,
                          view |-> Unread, attached |-> TRUE])
        PROVE  /\ TaskTypes'
               /\ \A u \in Busy' : task'[u].kind = "message" => u \in Busy /\ task'[u] = task[u]
    <3> DEFINE r == [kind |-> "emit", socket |-> NoSocket, channels |-> <<c>>,
                     view |-> Unread, attached |-> TRUE]
    <3>1. r \in Pending /\ r.kind = "emit"
      <4>1. <<c>> \in Seq(Channels) /\ <<c>> # <<>>
        OBVIOUS
      <4> QED
        BY <4>1, Nothing DEF Pending
    <3>2. task' = [task EXCEPT ![t] = r]
      BY <2>2 DEF Starts
    <3> HIDE DEF r
    <3>3. /\ TaskTypes' /\ task'[t] = r
          /\ \A u \in Busy' : u # t => u \in Busy /\ task'[u] = task[u]
      BY <3>1, <3>2, TaskUpdate DEF Inv, Types
    <3> QED
      BY <3>1, <3>3
  <2>3. ASSUME NEW t \in Tasks, task' = [task EXCEPT ![t] = Done]
        PROVE  /\ TaskTypes'
               /\ \A u \in Busy' : task'[u].kind = "message" => u \in Busy /\ task'[u] = task[u]
    <3>1. /\ TaskTypes' /\ task'[t] = Done
          /\ \A u \in Busy' : u # t => u \in Busy /\ task'[u] = task[u]
      BY <2>3, TaskUpdate DEF Inv, Types
    <3> QED
      BY <3>1 DEF Busy
  <2> QED
    BY <2>1, <2>2, <2>3 DEF Emit, Fail
<1>4. Registered' = Registered
  BY <1>1 DEF Registered
<1>5. Owned' /\ Counted' /\ Strangers' /\ Numbered'
  BY <1>1, <1>4, CountSame DEF Inv, Owned, Strangers, Numbered, Open
<1>6. Working'
  <2> SUFFICES ASSUME NEW u \in Busy', task'[u].kind = "message"
               PROVE  /\ conn'[task'[u].socket] # "new"
                      /\ Open(task[u].socket)' => task'[u].socket \in subscribers'[Channel(u)']
    BY DEF Working
  <2>1. u \in Busy /\ task'[u] = task[u] /\ Channel(u)' = Channel(u)
    BY <1>3 DEF Channel
  <2> QED
    BY <1>1, <2>1 DEF Inv, Working, Open
<1> QED
  BY <1>2, <1>3, <1>5, <1>6 DEF Inv, Types

---------------------------------------------------------------------------
LEMMA InvStep == Inv /\ [Next]_vars => Inv'
<1> SUFFICES ASSUME Inv, [Next]_vars PROVE Inv'
  OBVIOUS
<1>1. CASE UNCHANGED vars
  <2>1. UNCHANGED <<changes, due, conn, owned, subscribers, sequence, byIp, task,
                    announced, failed, failures, sent>>
    BY <1>1 DEF vars, serverVars, historyVars
  <2>2. Registered' = Registered /\ Busy' = Busy
    BY <2>1 DEF Registered, Busy
  <2>3. Types' /\ Owned' /\ Counted' /\ Strangers' /\ Numbered'
    BY <2>1, <2>2, CountSame DEF Inv, Types, DataTypes, TaskTypes, Owned, Strangers, Numbered, Open
  <2>4. Working'
    BY <2>1, <2>2 DEF Inv, Working, Open, Channel
  <2> QED
    BY <2>3, <2>4 DEF Inv
<1>2. CASE \E change \in Changes : Commit(change.rows, change.pushes)
  BY <1>2, CommitStep
<1>3. CASE (\E c \in Channels : Emit(c)) \/ (\E t \in Tasks : Fail(t))
  BY <1>3, EmitOrFailStep
<1>4. CASE \E s \in Sockets : Connect(s) \/ Drop(s) \/ Release(s)
  BY <1>4, ConnectStep, DropStep, ReleaseStep
<1>5. CASE \E s \in Sockets, channels \in Messages : Message(s, channels)
  BY <1>5, MessageStep
<1>6. CASE \E t \in Tasks, q \in Queries : Read(t, q)
  BY <1>6, ReadStep
<1>7. CASE \E t \in Tasks : Resume(t) \/ Deliver(t)
  BY <1>7, ResumeStep, DeliverStep
<1> QED
  BY <1>1, <1>2, <1>3, <1>4, <1>5, <1>6, <1>7 DEF Next

LEMMA InvTypes == Inv => TypeOK
<1> SUFFICES ASSUME Inv PROVE TypeOK
  OBVIOUS
<1>1. \A t \in Busy : task[t] \in Pending
  BY BusyIsPending DEF Inv, Types
<1> QED
  BY <1>1 DEF Inv, Types, DataTypes, Pending, Owned, Counted, TypeOK

\* The state is well typed, and channelsBySocket and the subscriber sets, which
\* subscribe and release keep side by side, say the same of every registered
\* socket, whatever the handlers of sockets that have closed still do.
THEOREM SubscriptionsAgree == Spec => []TypeOK
<1> QED
  BY InitInv, InvStep, InvTypes, PTL DEF Spec

\* The counts behind the limits are exact, for any sockets, addresses and
\* limits: no refused, closed or terminated connection takes a place.
THEOREM CountsAreExact == Spec => []ConnectionsAreCounted
<1>1. Inv => ConnectionsAreCounted
  BY DEF Inv, Counted
<1> QED
  BY <1>1, InitInv, InvStep, PTL DEF Spec

LEMMA NumbersStep ==
    Inv /\ [Next]_vars =>
      [\A s \in Sockets :
         (Open(s) /\ sent'[s] # sent[s]) =>
           \E c \in Channels : sent'[s].number[c] > sent[s].number[c]]_vars
<1> SUFFICES ASSUME Inv, Next, NEW s \in Sockets, Open(s), sent'[s] # sent[s]
             PROVE  \E c \in Channels : sent'[s].number[c] > sent[s].number[c]
  OBVIOUS
<1>1. CASE \E t \in Tasks : Resume(t)
  <2>1. PICK t \in Tasks : Resume(t)
    BY <1>1
  <2>2. t \in Busy /\ task[t] \in Pending /\ task[t].socket \in Sockets /\ Channel(t) \in Channels
    BY <2>1, BusyIsPending DEF Resume, Inv, Types, Pending
  <2>3. conn[task[t].socket] # "new" /\ Send({task[t].socket}, t)
        /\ (Open(task[t].socket) => task[t].socket \in subscribers[Channel(t)])
    BY <2>1, <2>2 DEF Resume, Inv, Working
  <2> QED
    BY <2>2, <2>3, SendKeeps
<1>2. CASE \E t \in Tasks : Deliver(t)
  <2>1. PICK t \in Tasks : Deliver(t)
    BY <1>2
  <2>2. t \in Busy /\ Channel(t) \in Channels
    BY <2>1, BusyIsPending DEF Deliver, Inv, Types
  <2>3. Audience(t) \in SUBSET Sockets /\ Audience(t) \subseteq subscribers[Channel(t)]
    BY <2>2 DEF Audience, Inv, Types, DataTypes
  <2>4. \A x \in Audience(t) : conn[x] # "new"
    BY <2>2, <2>3 DEF Inv, Strangers
  <2> QED
    BY <2>1, <2>2, <2>3, <2>4, SendKeeps DEF Deliver
<1>3. CASE \E x \in Sockets : Release(x)
  BY <1>3 DEF Release, Open, Inv, Types, DataTypes
<1> QED
  BY <1>1, <1>2, <1>3 DEF Next, Commit, Emit, Connect, Drop, Message, Read, Fail

\* No open socket ever gets two messages of a channel with the same number, or
\* a later one with a smaller number, for any sockets, channels and overlapping
\* handlers, emits and departures.
THEOREM SequencesIncrease == Spec => NumbersIncrease
<1> QED
  BY InitInv, InvStep, NumbersStep, PTL DEF Spec, NumbersIncrease
---------------------------------------------------------------------------
(* Updates                                                                 *)

Serves(r, s) == IF r.kind = "message" THEN r.socket = s ELSE r.attached
Current(r, q) == r.view[q] = -1 \/ r.view[q] >= announced[q]

\* Task t will send socket s rows of q, on channel c, that are new enough.
Brings(t, c, s, q) == t \in Busy /\ Channel(t) = c /\ Serves(task[t], s) /\ Current(task[t], q)

Awaited ==
    \A c \in Channels \ failed : \A s \in subscribers[c], q \in Reads[c] :
      Open(s) => sent[s].rows[q] >= announced[q] \/ \E t \in Tasks : Brings(t, c, s, q)

Announced == \A q \in Queries : announced[q] <= changes[q]

Served == Announced /\ Awaited

LEMMA ServedInit == Init => Served
<1> SUFFICES ASSUME Init PROVE Served
  OBVIOUS
<1>1. Announced
  BY RealtimeConstants DEF Init, Announced
<1>2. Awaited
  BY DEF Init, Awaited
<1> QED
  BY <1>1, <1>2 DEF Served

\* A step that announces nothing keeps Awaited if whoever counts on a task
\* goes on doing so, or has been sent what the task had read.
LEMMA AwaitedKept ==
    ASSUME Types, Types', Served, UNCHANGED announced, failed \subseteq failed',
           \A c \in Channels \ failed' : \A s \in subscribers'[c], q \in Reads[c] :
             Open(s)' =>
               \/ \E t \in Tasks : Brings(t, c, s, q)'
               \/ /\ s \in subscribers[c] /\ Open(s)
                  /\ sent'[s].rows[q] >= sent[s].rows[q]
                  /\ \A t \in Tasks : Brings(t, c, s, q) =>
                       Brings(t, c, s, q)' \/ sent'[s].rows[q] >= announced[q]
    PROVE  Awaited'
<1> SUFFICES ASSUME NEW c \in Channels, c \notin failed', NEW s \in subscribers'[c], NEW q \in Reads[c],
                    Open(s)', ~\E t \in Tasks : Brings(t, c, s, q)'
             PROVE  sent'[s].rows[q] >= announced'[q]
  BY DEF Awaited
<1>1. /\ s \in subscribers[c] /\ Open(s) /\ c \notin failed
      /\ sent'[s].rows[q] >= sent[s].rows[q]
      /\ \A t \in Tasks : Brings(t, c, s, q) => sent'[s].rows[q] >= announced[q]
  OBVIOUS
<1>2. q \in Queries /\ s \in Sockets
  BY RealtimeConstants DEF Types, DataTypes
<1>3. sent[s].rows[q] \in Int /\ sent'[s].rows[q] \in Int /\ announced[q] \in Int
  BY <1>2 DEF Types, DataTypes, Views
<1>4. sent[s].rows[q] >= announced[q] \/ \E t \in Tasks : Brings(t, c, s, q)
  BY <1>1 DEF Served, Awaited
<1> QED
  BY <1>1, <1>3, <1>4

\* Tasks and subscriptions stay, connections only break.
LEMMA QuietKeepsAwaited ==
    ASSUME Inv, Types', Served, UNCHANGED <<subscribers, task, announced, sent>>,
           failed \subseteq failed',
           \A s \in Sockets : Open(s)' => Open(s) \/ conn[s] = "new"
    PROVE  Awaited'
<1>1. \A t \in Tasks, c \in Channels, s \in Sockets : \A q : Brings(t, c, s, q) => Brings(t, c, s, q)'
  BY DEF Brings, Serves, Current, Busy, Channel
<1>2. ASSUME NEW c \in Channels \ failed', NEW s \in subscribers'[c], NEW q \in Reads[c], Open(s)'
      PROVE  /\ s \in subscribers[c] /\ Open(s)
             /\ sent'[s].rows[q] >= sent[s].rows[q]
             /\ \A t \in Tasks : Brings(t, c, s, q) => Brings(t, c, s, q)'
  <2>1. s \in Sockets /\ q \in Queries /\ s \in subscribers[c]
    BY RealtimeConstants DEF Inv, Types, DataTypes
  <2>2. Open(s)
    BY <1>2, <2>1 DEF Inv, Strangers
  <2>3. sent[s].rows[q] \in Int
    BY <2>1 DEF Inv, Types, DataTypes, Views
  <2> QED
    BY <1>1, <2>1, <2>2, <2>3
<1> QED
  BY <1>2, AwaitedKept DEF Inv

\* A busy task that goes on brings what it brought.
LEMMA OthersBring ==
    ASSUME NEW t \in Tasks, NEW c, NEW s, NEW q, Brings(t, c, s, q),
           t \in Busy', task'[t] = task[t], UNCHANGED announced
    PROVE  Brings(t, c, s, q)'
BY DEF Brings, Serves, Current, Channel

LEMMA ReleaseAwaited ==
    ASSUME Inv, Inv', Served, NEW s \in Sockets, Release(s)
    PROVE  Served'
<1>1. /\ UNCHANGED <<changes, announced, failed>> /\ conn[s] = "closing"
      /\ conn' = [conn EXCEPT ![s] = "closed"] /\ sent' = [sent EXCEPT ![s] = NothingSent]
  BY DEF Release, historyVars
<1>2. \A x \in Sockets : Open(x)' => x # s /\ Open(x) /\ sent'[x] = sent[x]
  BY <1>1 DEF Open, Inv, Types, DataTypes
<1>3. \A c \in Channels : subscribers'[c] \subseteq subscribers[c]
  BY DEF Release
<1>4. ASSUME NEW c \in Channels \ failed', NEW x \in subscribers'[c], NEW q \in Reads[c], Open(x)',
             NEW t \in Tasks, Brings(t, c, x, q)
      PROVE  Brings(t, c, x, q)'
  <2>1. x \in Sockets /\ x \in subscribers[c] /\ x # s
    BY <1>2, <1>3, <1>4 DEF Inv, Types, DataTypes
  <2>2. t \in Busy /\ Channel(t) = c /\ c \notin Emptied(s)
    BY <1>4, <2>1 DEF Brings, Emptied
  <2>3. task'[t] = task[t]
    BY <2>2 DEF Release
  <2>4. t \in Busy'
    BY <2>2, <2>3 DEF Busy
  <2> QED
    BY <1>1, <1>4, <2>3, <2>4, OthersBring
<1>5. ASSUME NEW c \in Channels \ failed', NEW x \in subscribers'[c], NEW q \in Reads[c], Open(x)'
      PROVE  x \in subscribers[c] /\ Open(x) /\ sent'[x].rows[q] >= sent[x].rows[q]
  <2>1. x \in Sockets /\ q \in Queries /\ x \in subscribers[c]
    BY <1>3, RealtimeConstants DEF Inv, Types, DataTypes
  <2>2. sent[x].rows[q] \in Int
    BY <2>1 DEF Inv, Types, DataTypes, Views
  <2> QED
    BY <1>2, <1>5, <2>1, <2>2
<1>6. Awaited'
  BY <1>1, <1>4, <1>5, AwaitedKept DEF Inv
<1> QED
  BY <1>1, <1>6 DEF Served, Announced

LEMMA MessageAwaited ==
    ASSUME Inv, Inv', Served, NEW s \in Sockets, NEW channels \in Messages, Message(s, channels)
    PROVE  Served'
<1> DEFINE r == [kind |-> "message", socket |-> s, channels |-> channels,
                 view |-> Unread, attached |-> TRUE]
<1>1. /\ UNCHANGED <<changes, conn, announced, failed, sent>>
      /\ Subscribe(s, Head(channels))
  BY DEF Message, historyVars
<1>2. PICK t \in Tasks : task[t] = New /\ task' = [task EXCEPT ![t] = r]
  BY DEF Message, Starts
<1>3. task'[t] = r /\ \A u \in Tasks \ {t} : task'[u] = task[u]
  BY <1>2 DEF Inv, Types, TaskTypes
<1>4. t \in Busy' /\ \A u \in Busy : u # t /\ u \in Busy' /\ task'[u] = task[u]
  BY <1>2, <1>3 DEF Busy, New, Done
<1>5. \A c \in Channels, x \in Sockets :
        x \in subscribers'[c] => x \in subscribers[c] \/ (x = s /\ c = Head(channels))
  BY <1>1 DEF Subscribe, Inv, Types, DataTypes
<1>6. \A q \in Queries : Brings(t, Head(channels), s, q)'
  BY <1>3, <1>4 DEF Brings, Serves, Current, Channel, Unread
<1>7. ASSUME NEW c \in Channels \ failed', NEW x \in subscribers'[c], NEW q \in Reads[c], Open(x)'
      PROVE  \/ \E u \in Tasks : Brings(u, c, x, q)'
             \/ /\ x \in subscribers[c] /\ Open(x) /\ sent'[x].rows[q] >= sent[x].rows[q]
                /\ \A u \in Tasks : Brings(u, c, x, q) => Brings(u, c, x, q)'
  <2>1. x \in Sockets /\ q \in Queries
    BY RealtimeConstants DEF Inv, Types, DataTypes
  <2>2. sent[x].rows[q] \in Int
    BY <2>1 DEF Inv, Types, DataTypes, Views
  <2>3. \A u \in Tasks : Brings(u, c, x, q) => Brings(u, c, x, q)'
    <3> SUFFICES ASSUME NEW u \in Tasks, Brings(u, c, x, q) PROVE Brings(u, c, x, q)'
      OBVIOUS
    <3>1. u \in Busy
      BY DEF Brings
    <3> QED
      BY <1>1, <1>4, <3>1, OthersBring
  <2>4. CASE x = s /\ c = Head(channels)
    BY <1>6, <2>1, <2>4
  <2>5. CASE x \in subscribers[c]
    BY <1>1, <1>7, <2>2, <2>3, <2>5 DEF Open
  <2> QED
    BY <1>5, <2>1, <2>4, <2>5
<1>8. Awaited'
  BY <1>1, <1>7, AwaitedKept DEF Inv
<1> QED
  BY <1>1, <1>8 DEF Served, Announced

LEMMA ReadAwaited ==
    ASSUME Inv, Inv', Served, NEW t \in Tasks, NEW p \in Queries, Read(t, p)
    PROVE  Served'
<1>1. /\ UNCHANGED <<changes, conn, subscribers, announced, failed, sent>>
      /\ t \in Busy /\ task' = [task EXCEPT ![t].view[p] = changes[p]]
  BY DEF Read, serverVars, historyVars
<1>2. task[t] \in Pending
  BY <1>1, BusyIsPending DEF Inv, Types
<1>3. /\ task'[t].kind = task[t].kind /\ task'[t].socket = task[t].socket
      /\ task'[t].channels = task[t].channels /\ task'[t].attached = task[t].attached
      /\ task'[t].view = [task[t].view EXCEPT ![p] = changes[p]]
      /\ \A u \in Tasks \ {t} : task'[u] = task[u]
  BY <1>1, <1>2 DEF Inv, Types, TaskTypes, Pending
<1>4. \A q \in Queries : Current(task[t], q) => Current(task[t], q)'
  <2>1. task[t].view \in Views
    BY <1>2 DEF Pending
  <2>2. changes[p] >= announced[p]
    BY RealtimeConstants DEF Served, Announced, Inv, Types, DataTypes
  <2>3. task'[t].view[p] = changes[p] /\ \A q \in Queries \ {p} : task'[t].view[q] = task[t].view[q]
    BY <1>3, <2>1 DEF Views
  <2> QED
    BY <1>1, <2>2, <2>3 DEF Current
<1>5. \A u \in Busy : u \in Busy'
  <2>1. TaskTypes'
    BY DEF Inv, Types
  <2>2. t \in Busy'
    <3>1. task'[t] # New /\ task'[t] # Done
      <4>1. task'[t] = [task[t] EXCEPT !.view[p] = changes[p]]
        BY <1>1 DEF Inv, Types, TaskTypes
      <4>2. changes[p] \in -1..MaxChanges
        BY RealtimeConstants DEF Inv, Types, DataTypes
      <4>3. task'[t] \in Pending
        BY <1>2, <4>1, <4>2 DEF Pending, Views
      <4> QED
        BY <4>3 DEF Pending, New, Done
    <3> QED
      BY <3>1 DEF Busy
  <2> QED
    BY <1>3, <2>2 DEF Busy
<1>6. ASSUME NEW c \in Channels \ failed', NEW x \in subscribers'[c], NEW q \in Reads[c], Open(x)'
      PROVE  /\ x \in subscribers[c] /\ Open(x) /\ sent'[x].rows[q] >= sent[x].rows[q]
             /\ \A u \in Tasks : Brings(u, c, x, q) => Brings(u, c, x, q)'
  <2>1. x \in Sockets /\ q \in Queries
    BY <1>1, RealtimeConstants DEF Inv, Types, DataTypes
  <2>2. sent[x].rows[q] \in Int
    BY <2>1 DEF Inv, Types, DataTypes, Views
  <2>3. ASSUME NEW u \in Tasks, Brings(u, c, x, q) PROVE Brings(u, c, x, q)'
    <3>1. CASE u # t
      BY <1>1, <1>3, <1>5, <2>3, <3>1, OthersBring DEF Brings
    <3>2. CASE u = t
      <4>1. t \in Busy' /\ Channel(t)' = c /\ Serves(task[t], x)'
        BY <1>3, <1>5, <2>3, <3>2 DEF Brings, Serves, Channel
      <4>2. Current(task[t], q)'
        BY <1>4, <2>1, <2>3, <3>2 DEF Brings
      <4> QED
        BY <3>2, <4>1, <4>2 DEF Brings, Current, Serves
    <3> QED
      BY <3>1, <3>2
  <2> QED
    BY <1>1, <1>6, <2>2, <2>3 DEF Open
<1>7. Awaited'
  BY <1>1, <1>6, AwaitedKept DEF Inv
<1> QED
  BY <1>1, <1>7 DEF Served, Announced

\* Who is still connected after a send has what it had, and the task's view if
\* it was meant to get it.
LEMMA SendReaches ==
    ASSUME Inv, NEW t \in Busy, NEW to \in SUBSET Sockets, Send(to, t)
    PROVE  \A x \in Sockets : Open(x)' =>
             /\ Open(x)
             /\ \A q \in Queries : /\ sent'[x].rows[q] >= sent[x].rows[q]
                                   /\ x \in to => sent'[x].rows[q] >= task[t].view[q]
<1> DEFINE c == Channel(t)
           newest(x) == [q \in Queries |-> IF task[t].view[q] > sent[x].rows[q]
                                           THEN task[t].view[q] ELSE sent[x].rows[q]]
           fresh(x) == [number |-> [sent[x].number EXCEPT ![c] = sequence[c] + 1], rows |-> newest(x)]
<1>1. PICK lagging \in SUBSET (to \cap Slow) :
        /\ sent' = [x \in Sockets |-> IF x \in {y \in to \ lagging : Open(y)} THEN fresh(x) ELSE sent[x]]
        /\ conn' = [x \in Sockets |-> IF x \in lagging /\ Open(x) THEN "closing" ELSE conn[x]]
  BY DEF Send
<1> SUFFICES ASSUME NEW x \in Sockets, Open(x)', NEW q \in Queries
             PROVE  /\ Open(x)
                    /\ sent'[x].rows[q] >= sent[x].rows[q]
                    /\ x \in to => sent'[x].rows[q] >= task[t].view[q]
  <2>1. ASSUME NEW x \in Sockets, Open(x)' PROVE Open(x)
    BY <1>1, <2>1 DEF Open
  <2> QED
    BY <2>1
<1>2. Open(x) /\ x \notin lagging
  BY <1>1 DEF Open
<1>3. sent[x].rows[q] \in Int /\ task[t].view[q] \in Int
  BY BusyIsPending DEF Inv, Types, DataTypes, Pending, Views
<1>4. fresh(x).rows[q] = IF task[t].view[q] > sent[x].rows[q] THEN task[t].view[q] ELSE sent[x].rows[q]
  OBVIOUS
<1>5. CASE x \in to
  <2>1. sent'[x] = fresh(x)
    BY <1>1, <1>2, <1>5
  <2> HIDE DEF fresh
  <2> QED
    BY <1>2, <1>3, <1>4, <2>1
<1>6. CASE x \notin to
  <2>1. sent'[x] = sent[x]
    BY <1>1, <1>6
  <2> QED
    BY <1>2, <1>3, <1>6, <2>1
<1> QED
  BY <1>5, <1>6

\* A task that has read its channel brings what was announced of it.
LEMMA ViewIsCurrent ==
    ASSUME Inv, NEW t \in Busy, ReadAll(t), NEW c, NEW x, NEW q \in Reads[c], Brings(t, c, x, q)
    PROVE  task[t].view[q] >= announced[q]
BY DEF Brings, Current, ReadAll

LEMMA DeliverAwaited ==
    ASSUME Inv, Inv', Served, NEW t \in Tasks, Deliver(t)
    PROVE  Served'
<1>1. /\ t \in Busy /\ task[t].kind = "emit" /\ ReadAll(t) /\ Send(Audience(t), t)
      /\ task' = [task EXCEPT ![t] = Done]
      /\ UNCHANGED <<changes, subscribers, announced, failed>>
  BY DEF Deliver, historyVars
<1>2. Channel(t) \in Channels
  BY <1>1, BusyIsPending DEF Inv, Types
<1>3. Audience(t) \in SUBSET Sockets
  BY <1>2 DEF Audience, Inv, Types, DataTypes
<1>4. \A x \in Sockets : Open(x)' =>
        /\ Open(x)
        /\ \A q \in Queries : /\ sent'[x].rows[q] >= sent[x].rows[q]
                              /\ x \in Audience(t) => sent'[x].rows[q] >= task[t].view[q]
  BY <1>1, <1>3, SendReaches
<1>5. \A u \in Tasks \ {t} : task'[u] = task[u] /\ (u \in Busy => u \in Busy')
  BY <1>1 DEF Inv, Types, TaskTypes, Busy
<1>6. ASSUME NEW c \in Channels \ failed', NEW x \in subscribers'[c], NEW q \in Reads[c], Open(x)'
      PROVE  /\ x \in subscribers[c] /\ Open(x) /\ sent'[x].rows[q] >= sent[x].rows[q]
             /\ \A u \in Tasks : Brings(u, c, x, q) =>
                  Brings(u, c, x, q)' \/ sent'[x].rows[q] >= announced[q]
  <2>1. x \in Sockets /\ q \in Queries
    BY <1>1, RealtimeConstants DEF Inv, Types, DataTypes
  <2>2. ASSUME NEW u \in Tasks, Brings(u, c, x, q)
        PROVE  Brings(u, c, x, q)' \/ sent'[x].rows[q] >= announced[q]
    <3>1. CASE u # t
      BY <1>1, <1>5, <2>2, <3>1, OthersBring DEF Brings
    <3>2. CASE u = t
      <4>1. x \in Audience(t)
        BY <1>1, <1>6, <2>2, <3>2 DEF Brings, Serves, Audience
      <4>2. sent'[x].rows[q] >= task[t].view[q]
        BY <1>4, <1>6, <2>1, <4>1
      <4>3. Brings(t, c, x, q)
        BY <2>2, <3>2
      <4>4. task[t].view[q] >= announced[q]
        BY <1>1, <1>6, <4>3, ViewIsCurrent
      <4>5. task[t].view \in Views
        BY <1>1, BusyIsPending DEF Inv, Types, Pending
      <4>6. sent'[x].rows \in Views /\ announced[q] \in Int
        BY <2>1 DEF Inv, Types, DataTypes
      <4>7. sent'[x].rows[q] \in Int /\ task[t].view[q] \in Int /\ announced[q] \in Int
        BY <2>1, <4>5, <4>6 DEF Views
      <4> QED
        BY <4>2, <4>4, <4>7
    <3> QED
      BY <3>1, <3>2
  <2> QED
    BY <1>1, <1>4, <1>6, <2>1, <2>2
<1>7. Awaited'
  BY <1>1, <1>6, AwaitedKept DEF Inv
<1> QED
  BY <1>1, <1>7 DEF Served, Announced

LEMMA ResumeAwaited ==
    ASSUME Inv, Inv', Served, NEW t \in Tasks, Resume(t)
    PROVE  Served'
<1> DEFINE s == task[t].socket
           rest == Tail(task[t].channels)
           r == [[[task[t] EXCEPT !.channels = rest] EXCEPT !.view = Unread] EXCEPT !.attached = TRUE]
<1>1. /\ t \in Busy /\ task[t].kind = "message" /\ ReadAll(t) /\ Send({s}, t)
      /\ UNCHANGED <<changes, announced, failed>>
      /\ \/ /\ rest # <<>> /\ Subscribe(s, Head(rest))
            /\ task' = [task EXCEPT ![t].channels = rest, ![t].view = Unread, ![t].attached = TRUE]
         \/ task' = [task EXCEPT ![t] = Done] /\ UNCHANGED <<owned, subscribers>>
  BY DEF Resume, historyVars
<1>2. task[t] \in Pending /\ s \in Sockets /\ rest \in Seq(Channels)
  BY <1>1, BusyIsPending DEF Inv, Types, Pending
<1>3. \A x \in Sockets : Open(x)' =>
        /\ Open(x)
        /\ \A q \in Queries : /\ sent'[x].rows[q] >= sent[x].rows[q]
                              /\ x = s => sent'[x].rows[q] >= task[t].view[q]
  <2>1. {s} \in SUBSET Sockets
    BY <1>2
  <2> HIDE DEF s
  <2>2. \A x \in Sockets : Open(x)' =>
          /\ Open(x)
          /\ \A q \in Queries : /\ sent'[x].rows[q] >= sent[x].rows[q]
                                /\ x \in {s} => sent'[x].rows[q] >= task[t].view[q]
    BY <1>1, <2>1, SendReaches
  <2> QED
    BY <2>2
<1>4. \A u \in Tasks \ {t} : task'[u] = task[u] /\ (u \in Busy => u \in Busy')
  BY <1>1 DEF Inv, Types, TaskTypes, Busy
<1>5. ASSUME NEW c \in Channels, NEW x \in subscribers'[c], x \notin subscribers[c]
      PROVE  \A q \in Queries : Brings(t, c, x, q)'
  <2>1. /\ rest # <<>> /\ Subscribe(s, Head(rest))
        /\ task' = [task EXCEPT ![t].channels = rest, ![t].view = Unread, ![t].attached = TRUE]
    BY <1>1, <1>5
  <2>2. x = s /\ c = Head(rest)
    BY <1>2, <1>5, <2>1 DEF Subscribe, Inv, Types, DataTypes
  <2>3. task'[t] = r
    BY <1>2, <2>1 DEF Inv, Types, TaskTypes
  <2>4. r \in Pending /\ r.kind = "message" /\ r.socket = s /\ r.channels = rest /\ r.view = Unread
    BY <1>1, <1>2, <2>1, Nothing DEF Pending
  <2> HIDE DEF r, rest, s
  <2>5. t \in Busy'
    BY <2>3, <2>4 DEF Pending, Busy, New, Done
  <2> QED
    BY <2>2, <2>3, <2>4, <2>5 DEF Brings, Serves, Current, Channel, Unread
<1>6. ASSUME NEW c \in Channels \ failed', NEW x \in subscribers'[c], NEW q \in Reads[c], Open(x)'
      PROVE  \/ \E u \in Tasks : Brings(u, c, x, q)'
             \/ /\ x \in subscribers[c] /\ Open(x) /\ sent'[x].rows[q] >= sent[x].rows[q]
                /\ \A u \in Tasks : Brings(u, c, x, q) =>
                     Brings(u, c, x, q)' \/ sent'[x].rows[q] >= announced[q]
  <2>1. x \in Sockets /\ q \in Queries
    BY RealtimeConstants DEF Inv, Types, DataTypes
  <2>2. ASSUME NEW u \in Tasks, Brings(u, c, x, q)
        PROVE  Brings(u, c, x, q)' \/ sent'[x].rows[q] >= announced[q]
    <3>1. CASE u # t
      BY <1>1, <1>4, <2>2, <3>1, OthersBring DEF Brings
    <3>2. CASE u = t
      <4>1. x = s
        BY <1>1, <2>2, <3>2 DEF Brings, Serves
      <4>2. sent'[x].rows[q] >= task[t].view[q]
        BY <1>3, <1>6, <2>1, <4>1
      <4>3. Brings(t, c, x, q)
        BY <2>2, <3>2
      <4>4. task[t].view[q] >= announced[q]
        BY <1>1, <1>6, <4>3, ViewIsCurrent
      <4>5. task[t].view \in Views
        BY <1>2 DEF Inv, Types, Pending
      <4>6. sent'[x].rows \in Views /\ announced[q] \in Int
        BY <2>1 DEF Inv, Types, DataTypes
      <4>7. sent'[x].rows[q] \in Int /\ task[t].view[q] \in Int /\ announced[q] \in Int
        BY <2>1, <4>5, <4>6 DEF Views
      <4> QED
        BY <4>2, <4>4, <4>7
    <3> QED
      BY <3>1, <3>2
  <2> QED
    BY <1>3, <1>5, <1>6, <2>1, <2>2
<1>7. Awaited'
  BY <1>1, <1>6, AwaitedKept DEF Inv
<1> QED
  BY <1>1, <1>7 DEF Served, Announced

\* A read that fails excuses its channel.
LEMMA FailAwaited ==
    ASSUME Inv, Inv', Served, NEW t \in Tasks, Fail(t)
    PROVE  Served'
<1>1. /\ t \in Busy /\ task' = [task EXCEPT ![t] = Done] /\ failed' = failed \cup {Channel(t)}
      /\ UNCHANGED <<changes, conn, subscribers, announced, sent>>
  BY DEF Fail, serverVars
<1>2. \A u \in Tasks \ {t} : task'[u] = task[u] /\ (u \in Busy => u \in Busy')
  BY <1>1 DEF Inv, Types, TaskTypes, Busy
<1>3. ASSUME NEW c \in Channels \ failed', NEW x \in subscribers'[c], NEW q \in Reads[c], Open(x)'
      PROVE  /\ x \in subscribers[c] /\ Open(x) /\ sent'[x].rows[q] >= sent[x].rows[q]
             /\ \A u \in Tasks : Brings(u, c, x, q) => Brings(u, c, x, q)'
  <2>1. x \in Sockets /\ q \in Queries
    BY <1>1, RealtimeConstants DEF Inv, Types, DataTypes
  <2>2. sent[x].rows[q] \in Int
    BY <2>1 DEF Inv, Types, DataTypes, Views
  <2>3. ASSUME NEW u \in Tasks, Brings(u, c, x, q) PROVE Brings(u, c, x, q)'
    <3>1. u # t
      BY <1>1, <2>3 DEF Brings
    <3> QED
      BY <1>1, <1>2, <2>3, <3>1, OthersBring DEF Brings
  <2> QED
    BY <1>1, <1>3, <2>2, <2>3 DEF Open
<1>4. Awaited'
  BY <1>1, <1>3, AwaitedKept DEF Inv
<1> QED
  BY <1>1, <1>4 DEF Served, Announced

\* An emit brings what it announces to everybody subscribed at the time, and
\* announces nothing of another channel.
LEMMA EmitAwaited ==
    ASSUME Inv, Inv', Served, NEW d \in Channels, Emit(d)
    PROVE  Served'
<1>1. /\ failed' = failed \ {d} /\ UNCHANGED <<changes, conn, subscribers, sent>>
      /\ announced' = [q \in Queries |-> IF q \in Reads[d] THEN changes[q] ELSE announced[q]]
  BY DEF Emit, serverVars
<1>2. Announced'
  <2> SUFFICES ASSUME NEW q \in Queries PROVE announced'[q] <= changes'[q]
    BY DEF Announced
  <2>1. changes[q] \in Int /\ announced[q] <= changes[q]
    BY DEF Served, Announced, Inv, Types, DataTypes
  <2> QED
    BY <1>1, <2>1
<1>3. \A t \in Busy : t \in Busy' /\ task'[t] = task[t]
  BY DEF Emit, Starts, Busy, New, Done, Inv, Types, TaskTypes
<1>4. ASSUME NEW x \in subscribers[d], NEW q \in Reads[d]
      PROVE  \E t \in Tasks : Brings(t, d, x, q)'
  <2> DEFINE r == [kind |-> "emit", socket |-> NoSocket, channels |-> <<d>>,
                   view |-> Unread, attached |-> TRUE]
  <2>1. PICK t \in Tasks : Starts(t, r)
    BY <1>4 DEF Emit
  <2>2. task'[t] = r
    BY <2>1 DEF Starts, Inv, Types, TaskTypes
  <2>3. t \in Busy'
    BY <2>2 DEF Busy, New, Done
  <2>4. q \in Queries
    BY RealtimeConstants
  <2>5. Channel(t)' = d /\ Serves(task[t], x)' /\ Current(task[t], q)'
    BY <2>2, <2>4 DEF Channel, Serves, Current, Unread
  <2> QED
    BY <2>3, <2>5 DEF Brings
<1>5. ASSUME NEW c \in Channels \ failed', c # d, NEW x \in subscribers'[c], NEW q \in Reads[c], Open(x)'
      PROVE  sent'[x].rows[q] >= announced'[q] \/ \E t \in Tasks : Brings(t, c, x, q)'
  <2>1. q \in Queries /\ announced'[q] = announced[q]
    BY <1>1, <1>5, RealtimeConstants
  <2>2. sent[x].rows[q] >= announced[q] \/ \E t \in Tasks : Brings(t, c, x, q)
    BY <1>1, <1>5 DEF Served, Awaited, Open
  <2>3. ASSUME NEW t \in Tasks, Brings(t, c, x, q) PROVE Brings(t, c, x, q)'
    BY <1>3, <2>1, <2>3 DEF Brings, Serves, Current, Channel
  <2> QED
    BY <1>1, <2>1, <2>2, <2>3
<1>6. Awaited'
  BY <1>1, <1>4, <1>5 DEF Awaited
<1> QED
  BY <1>2, <1>6 DEF Served

LEMMA ServedStep == Inv /\ Served /\ [Next]_vars => Served'
<1> SUFFICES ASSUME Inv, Served, [Next]_vars PROVE Served'
  OBVIOUS
<1>0. Inv'
  BY InvStep
<1>1. CASE UNCHANGED vars \/ \E change \in Changes : Commit(change.rows, change.pushes)
  <2>1. UNCHANGED <<conn, subscribers, task, announced, failed, sent>>
    BY <1>1 DEF vars, serverVars, historyVars, Commit
  <2>2. \A q \in Queries : changes'[q] >= changes[q]
    BY <1>1 DEF vars, Commit, Inv, Types, DataTypes
  <2>3. Announced'
    BY <1>0, <2>1, <2>2 DEF Served, Announced, Inv, Types, DataTypes
  <2>4. Awaited'
    BY <1>0, <2>1, QuietKeepsAwaited DEF Open, Inv
  <2> QED
    BY <2>3, <2>4 DEF Served
<1>2. CASE \E s \in Sockets : Connect(s) \/ Drop(s)
  <2>1. UNCHANGED <<changes, subscribers, task, announced, failed, sent>>
    BY <1>2 DEF Connect, Drop, serverVars, historyVars
  <2>2. \A s \in Sockets : Open(s)' => Open(s) \/ conn[s] = "new"
    BY <1>2 DEF Connect, Drop, Open, Refused, Inv, Types, DataTypes
  <2>3. Awaited'
    BY <1>0, <2>1, <2>2, QuietKeepsAwaited DEF Inv
  <2> QED
    BY <2>1, <2>3 DEF Served, Announced
<1> QED
  BY <1>0, <1>1, <1>2, ReleaseAwaited, MessageAwaited, ReadAwaited, ResumeAwaited, DeliverAwaited,
     FailAwaited, EmitAwaited DEF Next

\* Every open subscriber ends up with rows at least as new as the last emit of
\* its channel announced: for any channels, queries, sockets and messages, and
\* whatever overlaps, only a failed read is an excuse.
THEOREM SubscribersAreServed == Spec => []UpdatesReachEveryone
<1>1. Served /\ Inv => UpdatesReachEveryone
  BY DEF Served, Awaited, UpdatesReachEveryone, Brings, Inv, Types, DataTypes
<1> QED
  BY <1>1, InitInv, InvStep, ServedInit, ServedStep, PTL DEF Spec
=============================================================================
