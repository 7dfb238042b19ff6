------------------------------ MODULE Realtime ------------------------------
(***************************************************************************)
(* Notifications and their realtime fan-out: services/notification.rs,     *)
(* services/realtime.rs and the SSE stream of routes/v1/realtime.rs.       *)
(*                                                                         *)
(* create_scoped inserts a row and then publishes an event with pg_notify. *)
(* PostgreSQL hands the event to every replica that is listening at that   *)
(* moment; the replica's run_listener task sends it to a bounded local     *)
(* broadcast channel, and each SSE stream reads that channel at its own    *)
(* pace.  A stream that falls behind the channel is told so by a "lagged"  *)
(* event, upon which its client fetches its notifications again.           *)
(*                                                                         *)
(* An event is a position in events, a notification one in notifications.  *)
(* Whether publish sends the payload or only a reference to it makes no    *)
(* difference to who is told of what, and is left out.                     *)
(***************************************************************************)
EXTENDS Integers, Sequences, FiniteSets

CONSTANTS
    Users,
    Clients,        \* SSE connections
    UserOf,         \* whose connection it is
    Replicas,
    Everyone,       \* the target of an event for every client
    Offline,        \* where the stream of a client is that has none
    Capacity,       \* slots of the broadcast channel, 1024 in AppState::new
    MaxRows,        \* bound on the notifications
    MaxBroadcasts,  \* bound on the events without a target
    MaxFaults       \* bound on lost connections and failed publications

ASSUME RealtimeAssumption ==
    /\ UserOf \in [Clients -> Users]
    /\ Everyone \notin Users /\ Offline \notin Replicas
    /\ Capacity \in Nat \ {0}
    /\ {MaxRows, MaxBroadcasts, MaxFaults} \subseteq Nat

VARIABLES
    notifications,  \* owners of the rows of the table
    publishing, \* rows whose creator has not published its event yet
    events,     \* what pg_notify has sent: [target, row], row 0 for none
    listening,  \* replicas whose LISTEN connection is up
    inbox,      \* per replica: events sent to its connection, not received yet
    missed,     \* per replica: events its connection never got
    log,        \* per replica: all that was sent to the broadcast channel
    on,         \* per client: the replica its stream is connected to
    next,       \* per client: position of the stream in the channel
    stale,      \* per client: it has to fetch its notifications
    known,      \* per client: notifications it was told of or has fetched
    stream,     \* per client: events its stream has delivered
    faults

serverVars == <<notifications, publishing, events, listening, inbox, missed, log>>
clientVars == <<on, next, stale, known, stream>>
fanoutVars == <<serverVars, clientVars, faults>>

Rows == 1..MaxRows

FanoutTypeOK ==
    /\ notifications \in Seq(Users)
    /\ publishing \subseteq DOMAIN notifications
    /\ events \in Seq([target : Users \cup {Everyone}, row : Nat])
    /\ listening \subseteq Replicas
    /\ inbox \in [Replicas -> Seq(Nat)]
    /\ missed \in [Replicas -> SUBSET Nat]
    /\ log \in [Replicas -> Seq(Nat)]
    /\ on \in [Clients -> Replicas \cup {Offline}]
    /\ next \in [Clients -> Nat]
    /\ stale \in [Clients -> BOOLEAN]
    /\ known \in [Clients -> SUBSET Nat]
    /\ stream \in [Clients -> Seq(Nat)]
    /\ faults \in 0..MaxFaults

\* The listener is spawned next to the HTTP server, which does not wait for it.
FanoutInit ==
    /\ notifications = <<>> /\ publishing = {} /\ events = <<>>
    /\ listening = {}
    /\ inbox = [r \in Replicas |-> <<>>]
    /\ missed = [r \in Replicas |-> {}]
    /\ log = [r \in Replicas |-> <<>>]
    /\ on = [c \in Clients |-> Offline]
    /\ next = [c \in Clients |-> 1]
    /\ stale = [c \in Clients |-> FALSE]
    /\ known = [c \in Clients |-> {}]
    /\ stream = [c \in Clients |-> <<>>]
    /\ faults = 0

Fault == faults < MaxFaults /\ faults' = faults + 1

-----------------------------------------------------------------------------
\* Publishing

\* create_scoped: the INSERT, committed on its own.
CreateInsert(u) ==
    /\ Len(notifications) < MaxRows
    /\ notifications' = Append(notifications, u)
    /\ publishing' = publishing \cup {Len(notifications')}
    /\ UNCHANGED <<events, listening, inbox, missed, log, clientVars, faults>>

\* Events are numbered in the order PostgreSQL sends them.
EventId == Len(events) + 1

\* RealtimeService::publish: pg_notify reaches whoever is listening right now.
Publish(target, n) ==
    LET i == EventId IN
    /\ events' = Append(events, [target |-> target, row |-> n])
    /\ inbox' = [r \in Replicas |->
                  IF r \in listening THEN Append(inbox[r], i) ELSE inbox[r]]
    /\ missed' = [r \in Replicas |->
                   IF r \in listening THEN missed[r] ELSE missed[r] \cup {i}]

CreatePublish(n) ==
    /\ n \in publishing
    /\ publishing' = publishing \ {n}
    /\ Publish(notifications[n], n)
    /\ UNCHANGED <<notifications, listening, log, clientVars, faults>>

\* publish_best_effort: the error is logged and the row stays; or the process
\* ends between the two statements.
CreatePublishFails(n) ==
    /\ n \in publishing
    /\ publishing' = publishing \ {n}
    /\ Fault
    /\ UNCHANGED <<notifications, events, listening, inbox, missed, log, clientVars>>

\* An event without a target, for every client.
Broadcasts == Cardinality({i \in DOMAIN events : events[i].target = Everyone})

PublishBroadcast ==
    /\ Broadcasts < MaxBroadcasts
    /\ Publish(Everyone, 0)
    /\ UNCHANGED <<notifications, publishing, listening, log, clientVars, faults>>

-----------------------------------------------------------------------------
\* run_listener

Connect(r) ==
    /\ r \notin listening
    /\ listening' = listening \cup {r}
    /\ UNCHANGED <<notifications, publishing, events, inbox, missed, log, clientVars, faults>>

Subscribers(r) == {c \in Clients : on[c] = r}

\* recv and tx.send.  Without a receiver the send fails, which is ignored, and
\* the channel does not move.
Receive(r) ==
    /\ r \in listening /\ inbox[r] # <<>>
    /\ inbox' = [inbox EXCEPT ![r] = Tail(@)]
    /\ log' = IF Subscribers(r) = {} THEN log
              ELSE [log EXCEPT ![r] = Append(@, Head(inbox[r]))]
    /\ UNCHANGED <<notifications, publishing, events, listening, missed, clientVars, faults>>

\* What the connection has brought and the listener has not received.
Pending(r) == {inbox[r][k] : k \in DOMAIN inbox[r]}

\* The connection ends; what was under way on it is lost.  The streams of the
\* replica go on, and nobody tells them.
ConnectionLost(r) ==
    /\ r \in listening
    /\ Fault
    /\ listening' = listening \ {r}
    /\ missed' = [missed EXCEPT ![r] = @ \cup Pending(r)]
    /\ inbox' = [inbox EXCEPT ![r] = <<>>]
    /\ UNCHANGED <<notifications, publishing, events, log, clientVars>>

-----------------------------------------------------------------------------
\* sse_stream

\* The position of the next event, where subscribe puts a new receiver.
EndOfChannel(r) == Len(log[r]) + 1

\* The stream starts at the end of the channel, and its client has yet to fetch
\* what came before.
Subscribe(c, r) ==
    /\ on[c] = Offline
    /\ on' = [on EXCEPT ![c] = r]
    /\ next' = [next EXCEPT ![c] = EndOfChannel(r)]
    /\ stale' = [stale EXCEPT ![c] = TRUE]
    /\ stream' = [stream EXCEPT ![c] = <<>>]
    /\ UNCHANGED <<serverVars, known, faults>>

Disconnect(c) ==
    /\ on[c] # Offline
    /\ Fault
    /\ on' = [on EXCEPT ![c] = Offline]
    /\ next' = [next EXCEPT ![c] = 1]
    /\ stale' = [stale EXCEPT ![c] = FALSE]
    /\ UNCHANGED <<serverVars, known, stream>>

\* The oldest position the channel still holds.
Oldest(r) == IF Len(log[r]) > Capacity THEN Len(log[r]) - Capacity + 1 ELSE 1

\* Mutant of ForMe: every event goes to everybody.
ForAnyone(c, i) == TRUE

\* The filter of the stream.
ForMe(c, i) == events[i].target \in {Everyone, UserOf[c]}

Delivered(c, i) ==
    /\ stream' = [stream EXCEPT ![c] = Append(@, i)]
    /\ known' = [known EXCEPT ![c] = @ \cup ({events[i].row} \ {0})]

\* An item of the BroadcastStream that is still in the channel.
StreamNext(c) ==
    /\ on[c] # Offline
    /\ next[c] \in Oldest(on[c])..Len(log[on[c]])
    /\ next' = [next EXCEPT ![c] = @ + 1]
    /\ LET i == log[on[c]][next[c]] IN
        IF ForMe(c, i) THEN Delivered(c, i) ELSE UNCHANGED <<stream, known>>
    /\ UNCHANGED <<serverVars, on, stale, faults>>

\* Mutant of Resync: the gap is filtered out like somebody else's event.
NoResync(c) == UNCHANGED stale

\* The "lagged" event, whose action is "resync".
Resync(c) == stale' = [stale EXCEPT ![c] = TRUE]

\* BroadcastStreamRecvError::Lagged: the receiver jumps to the oldest item.
StreamLagged(c) ==
    /\ on[c] # Offline
    /\ next[c] < Oldest(on[c])
    /\ next' = [next EXCEPT ![c] = Oldest(on[c])]
    /\ Resync(c)
    /\ UNCHANGED <<serverVars, on, known, stream, faults>>

\* The client fetches its notifications.
FeedOf(u) == {n \in DOMAIN notifications : notifications[n] = u}

Fetch(c) ==
    /\ on[c] # Offline /\ stale[c]
    /\ stale' = [stale EXCEPT ![c] = FALSE]
    /\ known' = [known EXCEPT ![c] = @ \cup FeedOf(UserOf[c])]
    /\ UNCHANGED <<serverVars, on, next, stream, faults>>

-----------------------------------------------------------------------------
FanoutNext ==
    \/ \E u \in Users : CreateInsert(u)
    \/ \E n \in Rows : CreatePublish(n)
    \/ \E n \in Rows : CreatePublishFails(n)
    \/ PublishBroadcast
    \/ \E r \in Replicas : Connect(r)
    \/ \E r \in Replicas : Receive(r)
    \/ \E r \in Replicas : ConnectionLost(r)
    \/ \E c \in Clients, r \in Replicas : Subscribe(c, r)
    \/ \E c \in Clients : Disconnect(c)
    \/ \E c \in Clients : StreamNext(c)
    \/ \E c \in Clients : StreamLagged(c)
    \/ \E c \in Clients : Fetch(c)

FanoutSpec == FanoutInit /\ [][FanoutNext]_fanoutVars

\* Tasks of the runtime go on, the listener reconnects, and a client that stays
\* connected reads its stream and fetches when told to.
Fairness ==
    /\ \A n \in Rows : WF_fanoutVars(CreatePublish(n) \/ CreatePublishFails(n))
    /\ \A r \in Replicas : WF_fanoutVars(Connect(r)) /\ WF_fanoutVars(Receive(r))
    /\ \A c \in Clients : WF_fanoutVars(StreamNext(c) \/ StreamLagged(c)) /\ WF_fanoutVars(Fetch(c))

FairFanoutSpec == FanoutSpec /\ Fairness

-----------------------------------------------------------------------------
\* A stream delivers only its user's events and those for everybody, each at
\* most once and in the order they were published, however often it jumped
\* ahead and whatever other streams the channel serves.
OwnEventsInOrder ==
    \A c \in Clients : \A p \in DOMAIN stream[c] :
        /\ events[stream[c][p]].target \in {Everyone, UserOf[c]}
        /\ \A q \in 1..(p - 1) : stream[c][q] < stream[c][p]

\* The events that announce row n.
EventsOf(n) == {i \in DOMAIN events : events[i].row = n}

\* Row n is still on its way to the stream of client c.
OnItsWay(c, n) ==
    \E i \in EventsOf(n) :
        \/ i \in Pending(on[c])
        \/ \E p \in next[c]..Len(log[on[c]]) : log[on[c]][p] = i

\* The publication of row n failed, or replica r's connection was down for it.
Lost(r, n) == n \notin publishing /\ EventsOf(n) \subseteq missed[r]

\* A connected client that was not told to resync knows every notification of
\* its user, or is about to be told of it: what a stream drops because its reader
\* is slow is never silent (sse_stream), and the feed fetched upon "lagged" has
\* what was skipped.  The signal covers nothing else: an event that pg_notify did
\* not take, or that came while the listener was not connected, is dropped
\* without one, although sse_stream says that dropped events are surfaced.
NoSilentGap ==
    \A c \in Clients : (on[c] # Offline /\ ~stale[c]) =>
        \A n \in FeedOf(UserOf[c]) :
            \/ n \in known[c]
            \/ n \in publishing
            \/ OnItsWay(c, n)
            \/ Lost(on[c], n)

\* A client that stays connected learns of every notification the listener of
\* its replica did not lose.
ConnectedClientIsTold ==
    \A c \in Clients, n \in Rows :
        (on[c] # Offline /\ n \in FeedOf(UserOf[c])) ~>
            (n \in known[c] \/ on[c] = Offline \/ Lost(on[c], n))
=============================================================================
