------------------------------- MODULE Socket -------------------------------
(***************************************************************************)
(* The bus over a Unix socket (crates/bus/src/ipc/unix.rs): one client, its *)
(* calls of publish and subscribe, and the session the server runs for it. *)
(* Commands and events are frames that arrive in order until the           *)
(* connection is lost; every call waits a second for its acknowledgement,  *)
(* whose arrival may be as late as it likes.                               *)
(*                                                                         *)
(* Others publish the messages 1, 2, ... on the one topic subscribed to.   *)
(***************************************************************************)
EXTENDS Integers, Sequences, FiniteSets, SequencesExt

CONSTANTS
    Publishes, Subs,   \* calls of publish and of subscribe
    Nobody,            \* no call
    Capacity,          \* of a subscription's channel: 64
    Refused,           \* messages whose frame is too large for the client, or not decoded
    MaxMessages        \* bound

ASSUME SocketAssumption ==
    /\ Publishes \cap Subs = {}
    /\ Nobody \notin Publishes \cup Subs
    /\ MaxMessages \in Nat

Calls == Publishes \cup Subs
Messages == 1..MaxMessages

VARIABLES
    up,          \* the connection
    torn,        \* teardown has run: nobody reads any more
    commands,    \* frames on their way to the server
    events,      \* frames on their way to the client
    call,        \* where each call is, and what it returned
    pending,     \* IpcClientInner.pending
    open,        \* IpcClientInner.subscriptions
    queue,       \* what waits in the channel of each subscription
    spawned,     \* what waits for room in it, each in a task of its own
    read,        \* what its consumer has read
    session,     \* handle_client: the call it is about to acknowledge, and how
    forwarders,  \* the subscriptions it forwards
    published,   \* the publishes the bus has accepted
    forwarded    \* what it has written for each subscription

clientVars == <<torn, call, pending, open, queue, spawned, read>>
serverVars == <<session, forwarders, published, forwarded>>
vars == <<up, commands, events, clientVars, serverVars>>

NoAck == [call |-> Nobody, result |-> "none"]
Command(kind, c) == [kind |-> kind, call |-> c]
Ack(c, result) == [kind |-> "ack", call |-> c, result |-> result, body |-> 0]
Message(s, m) == [kind |-> "message", call |-> s, result |-> "none", body |-> m]

Init ==
    /\ up = TRUE /\ torn = FALSE
    /\ commands = <<>> /\ events = <<>>
    /\ call = [c \in Calls |-> "idle"]
    /\ pending = {} /\ open = {}
    /\ queue = [s \in Subs |-> <<>>]
    /\ spawned = [s \in Subs |-> {}]
    /\ read = [s \in Subs |-> <<>>]
    /\ session = NoAck
    /\ forwarders = {} /\ published = {}
    /\ forwarded = [s \in Subs |-> <<>>]

-----------------------------------------------------------------------------
(* The client *)

\* send_command: what is sent into a lost connection may be refused or disappear.
Send(command) == commands' = IF up THEN Append(commands, command) ELSE commands

\* A subscription is in the map before its acknowledgement is awaited.
Register(s) ==
    /\ call[s] = "idle"
    /\ call' = [call EXCEPT ![s] = "registered"]
    /\ open' = open \cup {s}
    /\ UNCHANGED <<up, commands, events, torn, pending, queue, spawned, read, serverVars>>

Request(c) ==
    /\ call[c] = IF c \in Subs THEN "registered" ELSE "idle"
    /\ \/ /\ call' = [call EXCEPT ![c] = "waiting"]
          /\ pending' = pending \cup {c}
          /\ Send(Command(IF c \in Subs THEN "subscribe" ELSE "publish", c))
          /\ UNCHANGED open
       \/ /\ ~up
          /\ call' = [call EXCEPT ![c] = "error"]
          /\ open' = open \ {c}
          /\ UNCHANGED <<pending, commands>>
    /\ UNCHANGED <<up, events, torn, queue, spawned, read, serverVars>>

\* The second has passed.  No Unsubscribe is sent.
AckTimeout(c) ==
    /\ call[c] = "waiting"
    /\ call' = [call EXCEPT ![c] = "late"]
    /\ pending' = pending \ {c}
    /\ open' = open \ {c}
    /\ UNCHANGED <<up, commands, events, torn, queue, spawned, read, serverVars>>

\* PublishAck, SubscribeAck
TakeAck ==
    /\ ~torn /\ events # <<>> /\ Head(events).kind = "ack"
    /\ LET ack == Head(events)
           awaited == ack.call \in pending
       IN /\ call' = IF awaited THEN [call EXCEPT ![ack.call] = ack.result] ELSE call
          /\ open' = IF awaited /\ ack.result = "error" THEN open \ {ack.call} ELSE open
          /\ pending' = pending \ {ack.call}
    /\ events' = Tail(events)
    /\ UNCHANGED <<up, commands, torn, queue, spawned, read, serverVars>>

\* The body of a message is one number per byte in JSON, so a message the bus takes
\* may not pass (MAX_FRAME_LEN).
Readable(frame) == frame.kind = "message" /\ frame.body \notin Refused

\* Mutant: what does not fit into the channel is dropped.
ForwardOrDrop ==
    /\ ~torn /\ events # <<>> /\ Readable(Head(events))
    /\ LET s == Head(events).call
       IN queue' = IF s \in open /\ Len(queue[s]) < Capacity
                   THEN [queue EXCEPT ![s] = Append(@, Head(events).body)] ELSE queue
    /\ events' = Tail(events)
    /\ UNCHANGED <<up, commands, torn, call, pending, open, spawned, read, serverVars>>

\* forward_message: a full channel is waited for by a task per message.
ForwardMessage ==
    /\ ~torn /\ events # <<>> /\ Readable(Head(events))
    /\ LET s == Head(events).call
           m == Head(events).body
           room == Len(queue[s]) < Capacity
       IN /\ queue' = IF s \in open /\ room THEN [queue EXCEPT ![s] = Append(@, m)] ELSE queue
          /\ spawned' = IF s \in open /\ ~room THEN [spawned EXCEPT ![s] = @ \cup {m}] ELSE spawned
    /\ events' = Tail(events)
    /\ UNCHANGED <<up, commands, torn, call, pending, open, read, serverVars>>

\* One of the tasks that wait gets room.
SendSpawned(s, m) ==
    /\ m \in spawned[s] /\ Len(queue[s]) < Capacity /\ call[s] # "dropped"
    /\ queue' = [queue EXCEPT ![s] = Append(@, m)]
    /\ spawned' = [spawned EXCEPT ![s] = @ \ {m}]
    /\ UNCHANGED <<up, commands, events, torn, call, pending, open, read, serverVars>>

\* Subscription::poll_next; the stream ends when nobody holds a sender.
Consume(s) ==
    /\ call[s] = "ok"
    /\ \/ /\ queue[s] # <<>>
          /\ read' = [read EXCEPT ![s] = Append(@, Head(queue[s]))]
          /\ queue' = [queue EXCEPT ![s] = Tail(@)]
          /\ UNCHANGED call
       \/ /\ queue[s] = <<>> /\ spawned[s] = {} /\ s \notin open
          /\ call' = [call EXCEPT ![s] = "ended"]
          /\ UNCHANGED <<read, queue>>
    /\ UNCHANGED <<up, commands, events, torn, pending, open, spawned, serverVars>>

\* Subscription::drop runs cleanup_subscription; the tasks' sends fail.
Drop(s) ==
    /\ call[s] \in {"ok", "ended"}
    /\ call' = [call EXCEPT ![s] = "dropped"]
    /\ open' = open \ {s}
    /\ IF s \in open THEN Send(Command("unsubscribe", s)) ELSE UNCHANGED commands
    /\ queue' = [queue EXCEPT ![s] = <<>>]
    /\ spawned' = [spawned EXCEPT ![s] = {}]
    /\ UNCHANGED <<up, events, torn, pending, read, serverVars>>

\* Mutant: the waiting calls are told, the subscriptions are kept.
TeardownCalls ==
    /\ torn' = TRUE
    /\ call' = [c \in Calls |-> IF c \in pending THEN "error" ELSE call[c]]
    /\ pending' = {}
    /\ UNCHANGED open

\* teardown: no Unsubscribe is sent.
Teardown ==
    /\ torn' = TRUE
    /\ call' = [c \in Calls |-> IF c \in pending THEN "error" ELSE call[c]]
    /\ pending' = {}
    /\ open' = {}

\* read_frames meets the end of the connection.
ReaderEnds ==
    /\ ~torn /\ ~up /\ events = <<>>
    /\ Teardown
    /\ UNCHANGED <<up, commands, events, queue, spawned, read, serverVars>>

\* read_frames returns at a frame it cannot read, be the connection lost or not: that
\* frame and those behind it stay unread, while commands are still sent and served.
RefuseFrame ==
    /\ ~torn /\ events # <<>> /\ Head(events).kind = "message" /\ ~Readable(Head(events))
    /\ Teardown
    /\ UNCHANGED <<up, commands, events, queue, spawned, read, serverVars>>

-----------------------------------------------------------------------------
(* handle_client, one command after the other *)

Next1 == Head(commands)
Served == commands' = Tail(commands)

\* Server::publish may refuse, and may take long.
HandlePublish ==
    /\ up /\ session = NoAck /\ commands # <<>> /\ Next1.kind = "publish"
    /\ \/ session' = [call |-> Next1.call, result |-> "ok"] /\ published' = published \cup {Next1.call}
       \/ session' = [call |-> Next1.call, result |-> "error"] /\ UNCHANGED published
    /\ Served
    /\ UNCHANGED <<up, events, clientVars, forwarders, forwarded>>

HandleSubscribe ==
    /\ up /\ session = NoAck /\ commands # <<>> /\ Next1.kind = "subscribe"
    /\ \/ session' = [call |-> Next1.call, result |-> "ok"] /\ forwarders' = forwarders \cup {Next1.call}
       \/ session' = [call |-> Next1.call, result |-> "error"] /\ UNCHANGED forwarders
    /\ Served
    /\ UNCHANGED <<up, events, clientVars, published, forwarded>>

HandleUnsubscribe ==
    /\ up /\ session = NoAck /\ commands # <<>> /\ Next1.kind = "unsubscribe"
    /\ forwarders' = forwarders \ {Next1.call}
    /\ Served
    /\ UNCHANGED <<up, events, clientVars, session, published, forwarded>>

WriteAck ==
    /\ up /\ session # NoAck
    /\ events' = Append(events, Ack(session.call, session.result))
    /\ session' = NoAck
    /\ UNCHANGED <<up, commands, clientVars, forwarders, published, forwarded>>

\* The next message of the topic is written by the task of a subscription, before
\* or after the subscription is acknowledged.
WriteMessage(s) ==
    /\ up /\ s \in forwarders
    /\ \E m \in Messages :
         /\ \A n \in ToSet(forwarded[s]) : n < m
         /\ forwarded' = [forwarded EXCEPT ![s] = Append(@, m)]
         /\ events' = Append(events, Message(s, m))
    /\ UNCHANGED <<up, commands, clientVars, session, forwarders, published>>

\* The connection is lost: the session and its tasks end, what was written may be
\* read or not.
Disconnect ==
    /\ up
    /\ up' = FALSE
    /\ commands' = <<>>
    /\ events' \in {events, <<>>}
    /\ session' = NoAck
    /\ forwarders' = {}
    /\ UNCHANGED <<clientVars, published, forwarded>>

Next ==
    \/ \E s \in Subs : \/ Register(s) \/ Consume(s) \/ Drop(s) \/ WriteMessage(s)
                       \/ \E m \in Messages : SendSpawned(s, m)
    \/ \E c \in Calls : Request(c) \/ AckTimeout(c)
    \/ TakeAck \/ ForwardMessage \/ RefuseFrame \/ ReaderEnds \/ Disconnect
    \/ HandlePublish \/ HandleSubscribe \/ HandleUnsubscribe \/ WriteAck

\* The tasks of the client run, the second passes, a consumer reads.
Fairness ==
    /\ WF_vars(TakeAck \/ ForwardMessage \/ RefuseFrame \/ ReaderEnds)
    /\ \A c \in Calls : WF_vars(AckTimeout(c))
    /\ \A s \in Subs : WF_vars(Consume(s)) /\ WF_vars(\E m \in Messages : SendSpawned(s, m))

Spec == Init /\ [][Next]_vars /\ Fairness

-----------------------------------------------------------------------------
(* Properties *)

\* A publish that returns Ok has been accepted by the bus; one that was waiting when
\* the connection was lost never does (publish, teardown).
OkWasAccepted == \A p \in Publishes : call[p] = "ok" => p \in published

\* What was written for a subscription whose stream is open is with its consumer or
\* on the way to it, once, whatever the channel holds (forward_message).
OnTheWay(s) == {i \in DOMAIN events : events[i].kind = "message" /\ events[i].call = s}
Bodies(s) == {events[i].body : i \in OnTheWay(s)}
Apart(s) == \A i, j \in OnTheWay(s) : events[i].body = events[j].body => i = j
Taken(s) == read[s] \o queue[s]

NoneMissing(s) == ToSet(forwarded[s]) = ToSet(Taken(s)) \cup spawned[s] \cup Bodies(s)

NoneTwice(s) ==
    /\ IsInjective(Taken(s))
    /\ Apart(s)
    /\ ToSet(Taken(s)) \cap spawned[s] = {}
    /\ Bodies(s) \cap (ToSet(Taken(s)) \cup spawned[s]) = {}

NothingLost == \A s \in open : up /\ call[s] = "ok" => NoneMissing(s) /\ NoneTwice(s)

\* While the client reads, the server forwards for nobody who is gone, but for a
\* subscribe that timed out, of whose late success the client takes no notice
\* (cleanup_subscription, SubscribeAck).  A client that refused a frame has given up
\* its streams without a word to the server, which forwards to them as long as the
\* connection lasts.
NoOrphans ==
    ~torn => \A s \in forwarders :
        \/ s \in open
        \/ \E i \in DOMAIN commands : commands[i] = Command("unsubscribe", s)
        \/ call[s] = "late"

\* Every stream ends when the connection is lost, or read no more (teardown).
StreamsEnd ==
    \A s \in Subs : (~up \/ torn) /\ call[s] = "ok" ~> call[s] \in {"ended", "dropped"}

\* What one publisher sends on a topic is read in the order it was sent
\* (docs/message-protocol.md:297).
FifoPerPublisher ==
    \A s \in Subs : \A i, j \in DOMAIN read[s] : i < j => read[s][i] < read[s][j]
=============================================================================
