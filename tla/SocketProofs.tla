---------------------------- MODULE SocketProofs ----------------------------
(***************************************************************************)
(* What the frames of a connection carry is what the two ends go by: no    *)
(* message is lost between the bus and a consumer, an acknowledgement      *)
(* tells the truth, and the server forwards for nobody.  All three follow  *)
(* from WireInv.                                                           *)
(***************************************************************************)
EXTENDS Socket, SequenceTheorems, TLAPS

Commands == [kind : {"publish"}, call : Publishes] \cup [kind : {"subscribe", "unsubscribe"}, call : Subs]
Acks == [kind : {"ack"}, call : Calls, result : {"ok", "error"}, body : {0}]
MessageFrames == [kind : {"message"}, call : Subs, result : {"none"}, body : Messages]

CallStates == {"idle", "registered", "waiting", "ok", "error", "late", "ended", "dropped"}

TypeOK ==
    /\ up \in BOOLEAN /\ torn \in BOOLEAN
    /\ commands \in Seq(Commands)
    /\ events \in Seq(Acks \cup MessageFrames)
    /\ call \in [Calls -> CallStates]
    /\ pending \subseteq Calls /\ open \subseteq Subs
    /\ queue \in [Subs -> Seq(Messages)]
    /\ spawned \in [Subs -> SUBSET Messages]
    /\ read \in [Subs -> Seq(Messages)]
    /\ session \in [call : Calls, result : {"ok", "error"}] \cup {NoAck}
    /\ forwarders \subseteq Subs /\ published \subseteq Publishes
    /\ forwarded \in [Subs -> Seq(Messages)]

\* Nothing of c is at the server or on its way.
Untouched(c) ==
    /\ c \notin pending /\ c \notin forwarders /\ session.call # c
    /\ \A i \in DOMAIN commands : commands[i].call # c
    /\ \A i \in DOMAIN events : events[i].call # c

Empty(s) == forwarded[s] = <<>> /\ read[s] = <<>> /\ queue[s] = <<>> /\ spawned[s] = {}

\* c's subscribe has been served with this result, which the client has not seen.
Answered(c, result) ==
    \/ session = [call |-> c, result |-> result]
    \/ \E i \in DOMAIN events : events[i] = Ack(c, result)

\* c has not been asked for.
Fresh(c) ==
    call[c] \in {"idle", "registered"} =>
        /\ Untouched(c)
        /\ c \in Subs => Empty(c)
        /\ call[c] = "idle" => c \notin open

\* The subscribe of s is on its way, once; it will be the first the server hears of s.
Underway(s) ==
    \A i \in DOMAIN commands : commands[i] = Command("subscribe", s) =>
        /\ \A j \in DOMAIN commands : commands[j] = Command("subscribe", s) => j = i
        /\ s \notin forwarders /\ ~Answered(s, "ok") /\ ~Answered(s, "error")
        /\ ~torn => call[s] \in {"waiting", "late"}

Severed ==
    ~up => commands = <<>> /\ session = NoAck /\ forwarders = {}

Awaited ==
    /\ \A c \in pending : call[c] = "waiting"
    /\ ~torn => \A s \in Subs : call[s] \in {"registered", "waiting"} => s \in open

AcksAreTrue == \A p \in Publishes : call[p] = "ok" \/ Answered(p, "ok") => p \in published

Flows(s) == s \in open /\ up => NoneMissing(s) /\ NoneTwice(s)

WireInv ==
    /\ TypeOK /\ Severed /\ Awaited /\ AcksAreTrue
    /\ \A c \in Calls : Fresh(c)
    /\ \A s \in Subs : Underway(s) /\ (Answered(s, "error") => s \notin forwarders)
    /\ \A s \in Subs : Flows(s)
    /\ NoOrphans

-----------------------------------------------------------------------------
(* Facts about sequences *)

LEMMA TailMembers ==
    ASSUME NEW S, NEW q \in Seq(S), q # <<>>
    PROVE  /\ 1 \in DOMAIN q /\ Head(q) = q[1] /\ Head(q) \in S /\ Tail(q) \in Seq(S)
           /\ \A i \in DOMAIN Tail(q) : i + 1 \in DOMAIN q /\ i + 1 # 1 /\ Tail(q)[i] = q[i + 1]
           /\ \A j \in DOMAIN q : j = 1 \/ (j - 1 \in DOMAIN Tail(q) /\ Tail(q)[j - 1] = q[j])
  BY HeadTailProperties

LEMMA AppendMembers ==
    ASSUME NEW S, NEW q \in Seq(S), NEW e \in S
    PROVE  /\ Append(q, e) \in Seq(S) /\ Len(q) + 1 \in DOMAIN Append(q, e)
           /\ Append(q, e)[Len(q) + 1] = e
           /\ \A i \in DOMAIN Append(q, e) :
                i = Len(q) + 1 \/ (i \in DOMAIN q /\ i # Len(q) + 1)
           /\ \A i \in DOMAIN q : /\ i \in DOMAIN Append(q, e) /\ i # Len(q) + 1
                                  /\ Append(q, e)[i] = q[i]
  BY AppendProperties

LEMMA AppendToSet ==
    ASSUME NEW S, NEW q \in Seq(S), NEW e \in S
    PROVE  /\ ToSet(Append(q, e)) = ToSet(q) \cup {e}
           /\ IsInjective(q) /\ e \notin ToSet(q) => IsInjective(Append(q, e))
<1>1. ToSet(Append(q, e)) = ToSet(q) \cup {e}
  BY AppendMembers DEF ToSet
<1>2. ASSUME IsInjective(q), e \notin ToSet(q)
      PROVE  IsInjective(Append(q, e))
  BY <1>2, AppendMembers DEF ToSet, IsInjective
<1>3. QED
  BY <1>1, <1>2

-----------------------------------------------------------------------------
(* Types *)

\* send_command sends commands.
LEMMA SendsCommands ==
    ASSUME TypeOK, NEW kind, NEW c \in Calls, Send(Command(kind, c)),
           IF c \in Subs THEN kind \in {"subscribe", "unsubscribe"} ELSE kind = "publish"
    PROVE  commands' \in Seq(Commands)
<1>1. Command(kind, c) \in Commands
  BY DEF Command, Commands, Calls
<1>2. QED
  BY <1>1, AppendProperties DEF Send, TypeOK

LEMMA InitTypeOK == Init => TypeOK
<1> SUFFICES ASSUME Init
             PROVE  TypeOK
  OBVIOUS
<1>1. /\ up \in BOOLEAN /\ torn \in BOOLEAN /\ commands \in Seq(Commands)
      /\ events \in Seq(Acks \cup MessageFrames) /\ session \in {NoAck}
  BY EmptySeq DEF Init
<1>2. /\ call \in [Calls -> CallStates]
      /\ pending \subseteq Calls /\ open \subseteq Subs
      /\ forwarders \subseteq Subs /\ published \subseteq Publishes
  BY DEF Init, CallStates
<1>3. \A f \in {queue, read, forwarded} : f \in [Subs -> Seq(Messages)]
  BY EmptySeq DEF Init
<1>4. spawned \in [Subs -> SUBSET Messages]
  BY DEF Init
<1>5. QED
  BY <1>1, <1>2, <1>3, <1>4 DEF TypeOK

LEMMA NextTypeOK == TypeOK /\ [Next]_vars => TypeOK'
<1> SUFFICES ASSUME TypeOK, [Next]_vars
             PROVE  TypeOK'
  OBVIOUS
<1> USE DEF TypeOK
<1>1. ASSUME NEW s \in Subs, Register(s) \/ Drop(s)
      PROVE  TypeOK'
  <2>1. commands' \in Seq(Commands) /\ s \in Calls
    BY <1>1, SendsCommands DEF Register, Drop, Calls
  <2>2. call' \in [Calls -> CallStates]
    BY <1>1, <2>1 DEF Register, Drop, CallStates
  <2>3. /\ queue' \in [Subs -> Seq(Messages)] /\ spawned' \in [Subs -> SUBSET Messages]
        /\ open' \subseteq Subs
    <3>1. <<>> \in Seq(Messages) /\ {} \in SUBSET Messages
      BY EmptySeq
    <3>2. CASE Register(s)
      BY <3>2 DEF Register
    <3>3. CASE Drop(s)
      BY <3>1, <3>3 DEF Drop
    <3>4. QED
      BY <1>1, <3>2, <3>3
  <2>4. QED
    BY <1>1, <2>1, <2>2, <2>3 DEF Register, Drop, serverVars
<1>2. ASSUME NEW s \in Subs, Consume(s)
      PROVE  TypeOK'
  <2>1. call' \in [Calls -> CallStates]
    BY <1>2 DEF Consume, CallStates
  <2>2. read' \in [Subs -> Seq(Messages)] /\ queue' \in [Subs -> Seq(Messages)]
    <3>1. CASE UNCHANGED <<read, queue>>
      BY <3>1
    <3>2. CASE queue[s] # <<>>
      <4>1. Head(queue[s]) \in Messages /\ Tail(queue[s]) \in Seq(Messages)
        BY <3>2, HeadTailProperties
      <4>2. Append(read[s], Head(queue[s])) \in Seq(Messages)
        BY <4>1, AppendProperties
      <4>3. QED
        BY <1>2, <3>2, <4>1, <4>2 DEF Consume
    <3>3. QED
      BY <1>2, <3>1, <3>2 DEF Consume
  <2>3. QED
    BY <1>2, <2>1, <2>2 DEF Consume, serverVars
<1>3. ASSUME NEW s \in Subs, WriteMessage(s)
      PROVE  TypeOK'
  <2>1. PICK m \in Messages : forwarded' = [forwarded EXCEPT ![s] = Append(@, m)]
                                /\ events' = Append(events, Message(s, m))
    BY <1>3 DEF WriteMessage
  <2>2. Message(s, m) \in MessageFrames
    BY DEF Message, MessageFrames
  <2>3. QED
    BY <1>3, <2>1, <2>2 DEF WriteMessage, clientVars
<1>4. ASSUME NEW s \in Subs, NEW m \in Messages, SendSpawned(s, m)
      PROVE  TypeOK'
  BY <1>4 DEF SendSpawned, serverVars
<1>5. ASSUME NEW c \in Calls, Request(c)
      PROVE  TypeOK'
  <2>1. commands' \in Seq(Commands)
    BY <1>5, SendsCommands DEF Request
  <2>2. call' \in [Calls -> CallStates]
    BY <1>5 DEF Request, CallStates
  <2>3. QED
    BY <1>5, <2>1, <2>2 DEF Request, serverVars
<1>6. ASSUME NEW c \in Calls, AckTimeout(c)
      PROVE  TypeOK'
  BY <1>6 DEF AckTimeout, serverVars, CallStates
<1>7. CASE TakeAck
  <2>1. Head(events) \in Acks /\ Tail(events) \in Seq(Acks \cup MessageFrames)
    BY <1>7, HeadTailProperties DEF TakeAck, Acks, MessageFrames
  <2>2. Head(events).call \in Calls /\ Head(events).result \in {"ok", "error"}
    BY <2>1 DEF Acks
  <2>3. QED
    BY <1>7, <2>1, <2>2 DEF TakeAck, serverVars, CallStates
<1>8. CASE ForwardMessage
  <2>1. Head(events) \in MessageFrames /\ Tail(events) \in Seq(Acks \cup MessageFrames)
    BY <1>8, HeadTailProperties DEF ForwardMessage, Readable, Acks, MessageFrames
  <2>2. Head(events).call \in Subs /\ Head(events).body \in Messages
    BY <2>1 DEF MessageFrames
  <2>3. QED
    BY <1>8, <2>1, <2>2 DEF ForwardMessage, serverVars
<1>9. CASE ReaderEnds \/ RefuseFrame
  BY <1>9 DEF ReaderEnds, RefuseFrame, Teardown, serverVars, CallStates
<1>10. CASE Disconnect
  <2>1. /\ up' \in BOOLEAN /\ commands' \in Seq(Commands) /\ session' \in {NoAck}
        /\ events' \in Seq(Acks \cup MessageFrames) /\ forwarders' \subseteq Subs
    BY <1>10, EmptySeq DEF Disconnect
  <2>2. QED
    BY <1>10, <2>1 DEF Disconnect, clientVars
<1>11. CASE HandlePublish \/ HandleSubscribe \/ HandleUnsubscribe
  <2>1. Head(commands) \in Commands /\ Tail(commands) \in Seq(Commands)
    BY <1>11, HeadTailProperties DEF HandlePublish, HandleSubscribe, HandleUnsubscribe
  <2>2. Head(commands).call \in Calls
    BY <2>1 DEF Commands, Calls
  <2>3. Next1.kind = "publish" => Head(commands).call \in Publishes
    BY <2>1 DEF Commands, Next1
  <2>4. Next1.kind = "subscribe" => Head(commands).call \in Subs
    BY <2>1 DEF Commands, Next1
  <2>5. CASE HandlePublish
    BY <2>1, <2>2, <2>3, <2>5 DEF HandlePublish, Served, Next1, clientVars
  <2>6. CASE HandleSubscribe
    BY <2>1, <2>2, <2>4, <2>6 DEF HandleSubscribe, Served, Next1, clientVars
  <2>7. CASE HandleUnsubscribe
    BY <2>1, <2>7 DEF HandleUnsubscribe, Served, Next1, clientVars
  <2>8. QED
    BY <1>11, <2>5, <2>6, <2>7
<1>12. CASE WriteAck
  <2>1. session \in [call : Calls, result : {"ok", "error"}]
    BY <1>12 DEF WriteAck
  <2>2. Ack(session.call, session.result) \in Acks
    BY <2>1 DEF Ack, Acks
  <2>3. QED
    BY <1>12, <2>2 DEF WriteAck, clientVars
<1>13. CASE UNCHANGED vars
  BY <1>13 DEF vars, clientVars, serverVars
<1>14. QED
  BY <1>1, <1>2, <1>3, <1>4, <1>5, <1>6, <1>7, <1>8, <1>9, <1>10, <1>11, <1>12, <1>13 DEF Next

-----------------------------------------------------------------------------
(* The frames on their way *)

LEMMA EventsTail ==
    ASSUME TypeOK, events # <<>>, events' = Tail(events)
    PROVE  /\ Head(events) = events[1] /\ 1 \in DOMAIN events
           /\ \A i \in DOMAIN events' : i + 1 \in DOMAIN events /\ i + 1 # 1 /\ events'[i] = events[i + 1]
           /\ \A j \in DOMAIN events : j = 1 \/ (j - 1 \in DOMAIN events' /\ events'[j - 1] = events[j])
           /\ Head(events) \in Acks \cup MessageFrames
  BY TailMembers DEF TypeOK

LEMMA EventsAppend ==
    ASSUME TypeOK, NEW e \in Acks \cup MessageFrames, events' = Append(events, e)
    PROVE  /\ Len(events) + 1 \in DOMAIN events' /\ events'[Len(events) + 1] = e
           /\ \A i \in DOMAIN events' : i = Len(events) + 1 \/ (i \in DOMAIN events /\ events'[i] = events[i])
           /\ \A i \in DOMAIN events : i \in DOMAIN events' /\ i # Len(events) + 1 /\ events'[i] = events[i]
<1> DEFINE S == Acks \cup MessageFrames
<1> HIDE DEF S
<1>1. events \in Seq(S) /\ e \in S
  BY DEF TypeOK, S
<1>2. QED
  BY <1>1, AppendMembers

LEMMA CommandsTail ==
    ASSUME TypeOK, commands # <<>>, Served
    PROVE  /\ Next1 = commands[1] /\ 1 \in DOMAIN commands
           /\ \A i \in DOMAIN commands' : i + 1 \in DOMAIN commands /\ i + 1 # 1 /\ commands'[i] = commands[i + 1]
           /\ \A j \in DOMAIN commands : j = 1 \/ (j - 1 \in DOMAIN commands' /\ commands'[j - 1] = commands[j])
           /\ Next1 \in Commands
  BY TailMembers DEF TypeOK, Next1, Served

LEMMA CommandsSend ==
    ASSUME TypeOK, NEW x \in Commands, Send(x)
    PROVE  /\ \A i \in DOMAIN commands' :
                \/ i \in DOMAIN commands /\ commands'[i] = commands[i]
                \/ up /\ i = Len(commands) + 1 /\ commands'[i] = x
           /\ \A i \in DOMAIN commands : i \in DOMAIN commands' /\ i # Len(commands) + 1 /\ commands'[i] = commands[i]
           /\ up => Len(commands) + 1 \in DOMAIN commands' /\ commands'[Len(commands) + 1] = x
  BY AppendMembers DEF TypeOK, Send

\* Frames that move up by one place.
LEMMA MovedUp ==
    ASSUME NEW f, NEW g, NEW A \in SUBSET Int, NEW B \in SUBSET Int,
           \A i \in A : i + 1 \in B /\ i + 1 # 1 /\ g[i] = f[i + 1],
           \A j \in B : j = 1 \/ (j - 1 \in A /\ g[j - 1] = f[j]),
           \A i, j \in B : f[i].body = f[j].body => i = j
    PROVE  /\ \A i, j \in A : g[i].body = g[j].body => i = j
           /\ {g[i].body : i \in A} = {f[i].body : i \in B \ {1}}
           /\ 1 \in B => {g[i].body : i \in A} = {f[i].body : i \in B} \ {f[1].body}
<1>1. \A i, j \in A : g[i].body = g[j].body => i = j
  <2> SUFFICES ASSUME NEW i \in A, NEW j \in A, g[i].body = g[j].body
               PROVE  i = j
    OBVIOUS
  <2>1. f[i + 1].body = f[j + 1].body /\ i + 1 \in B /\ j + 1 \in B
    OBVIOUS
  <2>2. i + 1 = j + 1
    BY <2>1
  <2>3. QED
    BY <2>2
<1>2. \A i \in A : g[i].body \in {f[j].body : j \in B \ {1}}
  OBVIOUS
<1>3. \A j \in B \ {1} : f[j].body \in {g[i].body : i \in A}
  OBVIOUS
<1>4. {g[i].body : i \in A} = {f[i].body : i \in B \ {1}}
  BY <1>2, <1>3
<1>5. 1 \in B => {f[i].body : i \in B \ {1}} = {f[i].body : i \in B} \ {f[1].body}
  <2> SUFFICES ASSUME 1 \in B
               PROVE  {f[i].body : i \in B \ {1}} = {f[i].body : i \in B} \ {f[1].body}
    OBVIOUS
  <2>1. \A j \in B \ {1} : f[j].body # f[1].body
    OBVIOUS
  <2>2. \A j \in B : j # 1 => j \in B \ {1}
    OBVIOUS
  <2>3. QED
    BY <2>1, <2>2
<1>6. QED
  BY <1>1, <1>4, <1>5

\* The first frame is taken away.
LEMMA FrameTaken ==
    ASSUME TypeOK, events # <<>>, events' = Tail(events), NEW s \in Subs, Apart(s)
    PROVE  /\ Apart(s)'
           /\ Head(events).kind = "message" /\ Head(events).call = s =>
                Head(events).body \in Bodies(s) /\ Bodies(s)' = Bodies(s) \ {Head(events).body}
           /\ ~(Head(events).kind = "message" /\ Head(events).call = s) => Bodies(s)' = Bodies(s)
<1> DEFINE A == OnTheWay(s)'
           B == OnTheWay(s)
           g == events'
<1>1. A \in SUBSET Int /\ B \in SUBSET Int
  BY EventsTail DEF OnTheWay, TypeOK
<1>2. \A i \in A : i + 1 \in B /\ i + 1 # 1 /\ g[i] = events[i + 1]
  BY EventsTail DEF OnTheWay
<1>3. \A j \in B : j = 1 \/ (j - 1 \in A /\ g[j - 1] = events[j])
  BY EventsTail DEF OnTheWay
<1>4. \A i, j \in B : events[i].body = events[j].body => i = j
  BY DEF Apart
<1>5. 1 \in B <=> Head(events).kind = "message" /\ Head(events).call = s
  BY EventsTail DEF OnTheWay
<1>6. Bodies(s) = {events[i].body : i \in B} /\ Bodies(s)' = {g[i].body : i \in A}
  BY DEF Bodies
<1>7. Apart(s)' <=> \A i, j \in A : g[i].body = g[j].body => i = j
  BY DEF Apart
<1>8. Head(events) = events[1]
  BY EventsTail
<1> HIDE DEF A, B, g
<1>9. Apart(s)' /\ Bodies(s)' = {events[i].body : i \in B \ {1}}
  BY <1>1, <1>2, <1>3, <1>4, <1>6, <1>7, MovedUp
<1>10. 1 \in B => Bodies(s)' = Bodies(s) \ {Head(events).body} /\ Head(events).body \in Bodies(s)
  <2>1. 1 \in B => {g[i].body : i \in A} = {events[i].body : i \in B} \ {events[1].body}
    BY <1>1, <1>2, <1>3, <1>4, MovedUp
  <2>2. 1 \in B => events[1].body \in {events[i].body : i \in B}
    OBVIOUS
  <2>3. QED
    BY <1>6, <1>8, <2>1, <2>2
<1>11. 1 \notin B => B \ {1} = B
  OBVIOUS
<1>12. QED
  BY <1>5, <1>6, <1>9, <1>10, <1>11

\* A frame is written; a message has a number of its own.
LEMMA FrameWritten ==
    ASSUME TypeOK, NEW e \in Acks \cup MessageFrames, events' = Append(events, e), NEW s \in Subs
    PROVE  /\ e.kind = "ack" \/ e.call # s => Bodies(s)' = Bodies(s)
           /\ e.kind = "message" /\ e.call = s => Bodies(s)' = Bodies(s) \cup {e.body}
           /\ (e.kind = "message" /\ e.call = s => e.body \notin Bodies(s))
                /\ Apart(s) => Apart(s)'
<1>1. \A i \in OnTheWay(s)' : \/ i = Len(events) + 1 /\ e.kind = "message" /\ e.call = s /\ events'[i] = e
                              \/ i \in OnTheWay(s) /\ events'[i] = events[i]
  BY EventsAppend DEF OnTheWay
<1>2. \A i \in OnTheWay(s) : i \in OnTheWay(s)' /\ events'[i] = events[i]
  BY EventsAppend DEF OnTheWay
<1>3. e.kind = "message" /\ e.call = s => Len(events) + 1 \in OnTheWay(s)' /\ events'[Len(events) + 1] = e
  BY EventsAppend DEF OnTheWay
<1>4. Bodies(s) = {events[i].body : i \in OnTheWay(s)} /\ Bodies(s)' = {events'[i].body : i \in OnTheWay(s)'}
  BY DEF Bodies
<1>5. ASSUME e.kind = "ack" \/ e.call # s
      PROVE  Bodies(s)' = Bodies(s) /\ (Apart(s) => Apart(s)')
  <2>1. \A i \in OnTheWay(s)' : i \in OnTheWay(s) /\ events'[i] = events[i]
    BY <1>1, <1>5
  <2>2. Apart(s) => Apart(s)'
    BY <2>1 DEF Apart
  <2>3. QED
    BY <1>2, <1>4, <2>1, <2>2
<1>6. ASSUME e.kind = "message", e.call = s
      PROVE  /\ Bodies(s)' = Bodies(s) \cup {e.body}
             /\ e.body \notin Bodies(s) /\ Apart(s) => Apart(s)'
  <2>1. Bodies(s)' = Bodies(s) \cup {e.body}
    BY <1>1, <1>2, <1>3, <1>4, <1>6
  <2>2. ASSUME e.body \notin Bodies(s), Apart(s)
        PROVE  Apart(s)'
    <3>1. \A i \in OnTheWay(s) : events[i].body # e.body
      BY <1>4, <2>2
    <3>2. QED
      BY <1>1, <2>2, <3>1 DEF Apart
  <2>3. QED
    BY <2>1, <2>2
<1>7. e.kind = "message" => e.kind # "ack"
  OBVIOUS
<1>8. e.kind \in {"ack", "message"}
  BY DEF Acks, MessageFrames
<1>9. QED
  BY <1>5, <1>6, <1>7, <1>8

-----------------------------------------------------------------------------
(* The invariant, part by part *)

LEMMA InitWireInv == Init => WireInv
<1> SUFFICES ASSUME Init
             PROVE  WireInv
  OBVIOUS
<1>1. commands = <<>> /\ events = <<>> /\ session = NoAck /\ forwarders = {} /\ pending = {} /\ open = {}
      /\ up /\ ~torn /\ \A c \in Calls : call[c] = "idle"
  BY DEF Init
<1>2. TypeOK /\ Severed /\ Awaited /\ NoOrphans /\ \A s \in Subs : Flows(s)
  BY <1>1, InitTypeOK DEF Severed, Awaited, NoOrphans, Flows, Calls
<1>3. \A c \in Calls : ~Answered(c, "ok") /\ ~Answered(c, "error")
  BY <1>1 DEF Answered, NoAck
<1>4. AcksAreTrue /\ \A s \in Subs : Underway(s) /\ (Answered(s, "error") => s \notin forwarders)
  BY <1>1, <1>3 DEF AcksAreTrue, Underway, Calls
<1>5. \A c \in Calls : Fresh(c)
  BY <1>1, SocketAssumption DEF Fresh, Untouched, Empty, Init, Calls, NoAck
<1>6. QED
  BY <1>2, <1>4, <1>5 DEF WireInv

LEMMA NextSevered == WireInv /\ [Next]_vars => Severed'
<1> SUFFICES ASSUME WireInv, [Next]_vars
             PROVE  Severed'
  OBVIOUS
<1> USE DEF WireInv, Severed
<1>1. ASSUME NEW s \in Subs, Register(s) \/ Consume(s) \/ Drop(s) \/ WriteMessage(s)
      PROVE  Severed'
  BY <1>1 DEF Register, Consume, Drop, WriteMessage, Send, clientVars, serverVars
<1>2. ASSUME NEW s \in Subs, NEW m \in Messages, SendSpawned(s, m)
      PROVE  Severed'
  BY <1>2 DEF SendSpawned, serverVars
<1>3. ASSUME NEW c \in Calls, Request(c) \/ AckTimeout(c)
      PROVE  Severed'
  BY <1>3 DEF Request, AckTimeout, Send, serverVars
<1>4. CASE TakeAck \/ ForwardMessage \/ ReaderEnds \/ RefuseFrame \/ Disconnect \/ UNCHANGED vars
  BY <1>4 DEF TakeAck, ForwardMessage, ReaderEnds, RefuseFrame, Teardown, Disconnect, vars, clientVars, serverVars
<1>5. CASE HandlePublish \/ HandleSubscribe \/ HandleUnsubscribe \/ WriteAck
  BY <1>5 DEF HandlePublish, HandleSubscribe, HandleUnsubscribe, WriteAck, clientVars
<1>6. QED
  BY <1>1, <1>2, <1>3, <1>4, <1>5 DEF Next

LEMMA NextAwaited == WireInv /\ [Next]_vars => Awaited'
<1> SUFFICES ASSUME WireInv, [Next]_vars
             PROVE  Awaited'
  OBVIOUS
<1>a. TypeOK /\ Awaited /\ Severed
  BY DEF WireInv
<1>b. Subs \subseteq Calls
  BY DEF Calls
<1>1. ASSUME NEW s \in Subs, Register(s) \/ Consume(s) \/ Drop(s) \/ WriteMessage(s)
      PROVE  Awaited'
  BY <1>a, <1>b, <1>1 DEF TypeOK, Awaited, Register, Consume, Drop, WriteMessage, clientVars
<1>2. ASSUME NEW s \in Subs, NEW m \in Messages, SendSpawned(s, m)
      PROVE  Awaited'
  BY <1>a, <1>2 DEF SendSpawned, Awaited
<1>3. ASSUME NEW c \in Calls, Request(c) \/ AckTimeout(c)
      PROVE  Awaited'
  <2>1. CASE call' = [call EXCEPT ![c] = "waiting"] /\ pending' = pending \cup {c} /\ Request(c)
    BY <1>a, <1>b, <2>1 DEF TypeOK, Awaited, Request
  <2>2. CASE ~up /\ call' = [call EXCEPT ![c] = "error"] /\ UNCHANGED pending /\ Request(c)
    <3>1. c \notin pending
      BY <1>a, <2>2 DEF Awaited, Request
    <3>2. QED
      BY <1>a, <2>2, <3>1 DEF TypeOK, Awaited, Request
  <2>3. CASE AckTimeout(c)
    BY <1>a, <1>b, <2>3 DEF TypeOK, Awaited, AckTimeout
  <2>4. QED
    BY <1>3, <2>1, <2>2, <2>3 DEF Request
<1>4. CASE TakeAck
  <2>1. Head(events).result \in {"ok", "error"}
    BY <1>a, <1>4, EventsTail DEF TakeAck, Acks, MessageFrames
  <2>2. QED
    BY <1>a, <1>b, <1>4, <2>1 DEF TypeOK, Awaited, TakeAck
<1>5. CASE ForwardMessage \/ ReaderEnds \/ RefuseFrame \/ Disconnect \/ UNCHANGED vars
  BY <1>a, <1>5 DEF Awaited, ForwardMessage, ReaderEnds, RefuseFrame, Teardown, Disconnect, vars, clientVars
<1>6. CASE HandlePublish \/ HandleSubscribe \/ HandleUnsubscribe \/ WriteAck
  BY <1>a, <1>6 DEF Awaited, HandlePublish, HandleSubscribe, HandleUnsubscribe, WriteAck, clientVars
<1>7. QED
  BY <1>1, <1>2, <1>3, <1>4, <1>5, <1>6 DEF Next

\* Whatever step is taken, an answer on its way was given before or is given now.
LEMMA AnswersCome ==
    ASSUME WireInv, [Next]_vars, NEW c \in Calls, NEW result \in {"ok", "error"}, Answered(c, result)'
    PROVE  \/ Answered(c, result)
           \/ /\ HandlePublish \/ HandleSubscribe
              /\ Next1.call = c /\ session' = [call |-> c, result |-> result]
<1>a. TypeOK
  BY DEF WireInv
<1>b. Nobody # c
  BY SocketAssumption DEF Calls
<1>1. ASSUME NEW s \in Subs, Register(s) \/ Consume(s) \/ Drop(s)
      PROVE  Answered(c, result)
  BY <1>1 DEF Register, Consume, Drop, Answered, serverVars
<1>2. ASSUME NEW s \in Subs, WriteMessage(s)
      PROVE  Answered(c, result)
  <2>1. PICK m \in Messages : events' = Append(events, Message(s, m))
    BY <1>2 DEF WriteMessage
  <2>2. Message(s, m) \in Acks \cup MessageFrames /\ Message(s, m) # Ack(c, result)
    BY DEF Message, MessageFrames, Ack
  <2>3. \A i \in DOMAIN events' : events'[i] = Message(s, m) \/ (i \in DOMAIN events /\ events'[i] = events[i])
    BY <1>a, <2>1, <2>2, EventsAppend
  <2>4. session' = session
    BY <1>2 DEF WriteMessage
  <2>5. QED
    BY <2>2, <2>3, <2>4 DEF Answered
<1>3. ASSUME NEW s \in Subs, NEW m \in Messages, SendSpawned(s, m)
      PROVE  Answered(c, result)
  BY <1>3 DEF SendSpawned, Answered, serverVars
<1>4. ASSUME NEW d \in Calls, Request(d) \/ AckTimeout(d)
      PROVE  Answered(c, result)
  BY <1>4 DEF Request, AckTimeout, Answered, serverVars
<1>5. CASE TakeAck \/ ForwardMessage
  <2>1. \A i \in DOMAIN events' : i + 1 \in DOMAIN events /\ events'[i] = events[i + 1]
    BY <1>a, <1>5, EventsTail DEF TakeAck, ForwardMessage
  <2>2. QED
    BY <1>5, <2>1 DEF TakeAck, ForwardMessage, Answered, serverVars
<1>6. CASE ReaderEnds \/ RefuseFrame \/ UNCHANGED vars
  BY <1>6 DEF ReaderEnds, RefuseFrame, Teardown, Answered, vars, serverVars
<1>7. CASE Disconnect
  BY <1>b, <1>7 DEF Disconnect, Answered, NoAck
<1>8. CASE HandlePublish \/ HandleSubscribe
  BY <1>8 DEF HandlePublish, HandleSubscribe, Answered
<1>9. CASE HandleUnsubscribe
  BY <1>9 DEF HandleUnsubscribe, Answered
<1>10. CASE WriteAck
  <2>1. session \in [call : Calls, result : {"ok", "error"}]
    BY <1>a, <1>10 DEF WriteAck, TypeOK
  <2>2. Ack(session.call, session.result) \in Acks \cup MessageFrames
    BY <2>1 DEF Ack, Acks
  <2>3. \A i \in DOMAIN events' : \/ events'[i] = Ack(session.call, session.result)
                                  \/ i \in DOMAIN events /\ events'[i] = events[i]
    BY <1>a, <1>10, <2>2, EventsAppend DEF WriteAck
  <2>4. Ack(session.call, session.result) = Ack(c, result) => session = [call |-> c, result |-> result]
    BY <2>1 DEF Ack
  <2>5. session'.call # c
    BY <1>b, <1>10 DEF WriteAck, NoAck
  <2>6. QED
    BY <2>3, <2>4, <2>5 DEF Answered
<1>11. QED
  BY <1>1, <1>2, <1>3, <1>4, <1>5, <1>6, <1>7, <1>8, <1>9, <1>10 DEF Next

\* The acknowledgement at the head of the queue is one the server has given.
LEMMA HeadAnswers ==
    ASSUME TypeOK, TakeAck
    PROVE  /\ Head(events).call \in Calls /\ Head(events).result \in {"ok", "error"}
           /\ Answered(Head(events).call, Head(events).result)
<1>1. Head(events) \in Acks /\ Head(events) = events[1] /\ 1 \in DOMAIN events
  BY EventsTail DEF TakeAck, Acks, MessageFrames
<1>2. Head(events) = Ack(Head(events).call, Head(events).result)
  BY <1>1 DEF Acks, Ack
<1>3. QED
  BY <1>1, <1>2 DEF Acks, Answered

\* A call ends well only by an acknowledgement that was waited for.
LEMMA OkComes ==
    ASSUME WireInv, [Next]_vars, NEW c \in Calls, call'[c] = "ok"
    PROVE  call[c] = "ok" \/ (TakeAck /\ Head(events).call = c /\ Head(events).result = "ok"
                               /\ Answered(c, "ok") /\ c \in pending)
<1>a. TypeOK
  BY DEF WireInv
<1>1. ASSUME NEW s \in Subs, Register(s) \/ Consume(s) \/ Drop(s) \/ WriteMessage(s)
      PROVE  call[c] = "ok"
  BY <1>a, <1>1 DEF TypeOK, Register, Consume, Drop, WriteMessage, clientVars
<1>2. ASSUME NEW s \in Subs, NEW m \in Messages, SendSpawned(s, m)
      PROVE  call[c] = "ok"
  BY <1>2 DEF SendSpawned
<1>3. ASSUME NEW d \in Calls, Request(d) \/ AckTimeout(d)
      PROVE  call[c] = "ok"
  BY <1>a, <1>3 DEF TypeOK, Request, AckTimeout
<1>4. CASE TakeAck
  BY <1>a, <1>4, HeadAnswers DEF TypeOK, TakeAck
<1>5. CASE ForwardMessage \/ ReaderEnds \/ RefuseFrame \/ Disconnect \/ UNCHANGED vars
  BY <1>a, <1>5 DEF TypeOK, ForwardMessage, ReaderEnds, RefuseFrame, Teardown, Disconnect, vars, clientVars
<1>6. CASE HandlePublish \/ HandleSubscribe \/ HandleUnsubscribe \/ WriteAck
  BY <1>6 DEF HandlePublish, HandleSubscribe, HandleUnsubscribe, WriteAck, clientVars
<1>7. QED
  BY <1>1, <1>2, <1>3, <1>4, <1>5, <1>6 DEF Next

LEMMA PublishedStays == [Next]_vars => published \subseteq published'
  BY DEF Next, vars, serverVars, Register, Consume, Drop, WriteMessage, SendSpawned, Request, AckTimeout, TakeAck,
         ForwardMessage, ReaderEnds, RefuseFrame, Teardown, Disconnect, HandlePublish, HandleSubscribe, HandleUnsubscribe, WriteAck

LEMMA NextAcksAreTrue == WireInv /\ [Next]_vars => AcksAreTrue'
<1> SUFFICES ASSUME WireInv, [Next]_vars, NEW p \in Publishes, call'[p] = "ok" \/ Answered(p, "ok")'
             PROVE  p \in published'
  BY DEF AcksAreTrue
<1>1. p \in Calls /\ TypeOK /\ p \notin Subs
  BY SocketAssumption DEF Calls, WireInv
<1>2. call[p] = "ok" \/ Answered(p, "ok") => p \in published
  BY DEF WireInv, AcksAreTrue
<1>3. CASE call[p] = "ok" \/ Answered(p, "ok")
  BY <1>2, <1>3, PublishedStays
<1>4. CASE call'[p] = "ok" /\ call[p] # "ok"
  BY <1>1, <1>3, <1>4, OkComes
<1>5. CASE (HandlePublish \/ HandleSubscribe) /\ Next1.call = p /\ session' = [call |-> p, result |-> "ok"]
  <2>1. Next1 \in Commands
    BY <1>1, <1>5, CommandsTail DEF HandlePublish, HandleSubscribe
  <2>2. HandlePublish
    BY <1>1, <1>5, <2>1 DEF HandleSubscribe, Commands
  <2>3. QED
    BY <1>5, <2>2 DEF HandlePublish
<1>6. QED
  BY <1>1, <1>3, <1>4, <1>5, AnswersCome

\* A command on its way was there before or is sent now, and keeps its place or moves
\* up by one when the server takes the first.
Sent(x, i) ==
    /\ i = Len(commands) + 1
    /\ \/ \E c \in Calls : /\ Request(c) /\ call'[c] = "waiting"
                           /\ x = Command(IF c \in Subs THEN "subscribe" ELSE "publish", c)
       \/ \E s \in open : Drop(s) /\ x = Command("unsubscribe", s)

LEMMA CommandsCome ==
    ASSUME WireInv, [Next]_vars
    PROVE  \/ \A i \in DOMAIN commands' :
                (i \in DOMAIN commands /\ commands'[i] = commands[i]) \/ Sent(commands'[i], i)
           \/ /\ HandlePublish \/ HandleSubscribe \/ HandleUnsubscribe
              /\ commands # <<>> /\ Served
<1>a. TypeOK
  BY DEF WireInv
<1>1. CASE UNCHANGED commands
  BY <1>1
<1>2. ASSUME NEW s \in Subs, Drop(s), s \in open, NEW i \in DOMAIN commands'
      PROVE  (i \in DOMAIN commands /\ commands'[i] = commands[i]) \/ Sent(commands'[i], i)
  <2>1. Command("unsubscribe", s) \in Commands
    BY DEF Command, Commands
  <2>2. QED
    BY <1>a, <1>2, <2>1, CommandsSend DEF Drop, Sent
<1>3. ASSUME NEW c \in Calls, Request(c), commands' # commands, NEW i \in DOMAIN commands'
      PROVE  (i \in DOMAIN commands /\ commands'[i] = commands[i]) \/ Sent(commands'[i], i)
  <2> DEFINE x == Command(IF c \in Subs THEN "subscribe" ELSE "publish", c)
  <2>1. x \in Commands
    BY DEF Command, Commands, Calls
  <2>2. Send(x) /\ call'[c] = "waiting"
    BY <1>a, <1>3 DEF Request, TypeOK
  <2>3. (i \in DOMAIN commands /\ commands'[i] = commands[i]) \/ (i = Len(commands) + 1 /\ commands'[i] = x)
    BY <1>a, <1>3, <2>1, <2>2, CommandsSend
  <2>4. QED
    BY <1>3, <2>2, <2>3 DEF Sent
<1>4. CASE Disconnect
  BY <1>4 DEF Disconnect
<1>5. ASSUME NEW s \in Subs, Register(s) \/ Consume(s) \/ WriteMessage(s) \/ (Drop(s) /\ s \notin open)
      PROVE  UNCHANGED commands
  BY <1>5 DEF Register, Consume, WriteMessage, Drop
<1>6. ASSUME NEW s \in Subs, NEW m \in Messages, SendSpawned(s, m)
      PROVE  UNCHANGED commands
  BY <1>6 DEF SendSpawned
<1>7. ASSUME NEW c \in Calls, AckTimeout(c)
      PROVE  UNCHANGED commands
  BY <1>7 DEF AckTimeout
<1>8. CASE TakeAck \/ ForwardMessage \/ ReaderEnds \/ RefuseFrame \/ WriteAck \/ UNCHANGED vars
  BY <1>1, <1>8 DEF TakeAck, ForwardMessage, ReaderEnds, RefuseFrame, Teardown, WriteAck, vars
<1>9. CASE HandlePublish \/ HandleSubscribe \/ HandleUnsubscribe
  BY <1>9 DEF HandlePublish, HandleSubscribe, HandleUnsubscribe
<1>10. QED
  BY <1>1, <1>2, <1>3, <1>4, <1>5, <1>6, <1>7, <1>8, <1>9 DEF Next

\* The server forwards for whom it forwarded before, or for the subscribe it serves.
LEMMA ForwardersCome ==
    ASSUME WireInv, [Next]_vars, NEW s \in forwarders'
    PROVE  s \in forwarders \/ (HandleSubscribe /\ Next1.call = s /\ session' = [call |-> s, result |-> "ok"])
  BY DEF Next, vars, serverVars, Register, Consume, Drop, WriteMessage, SendSpawned, Request, AckTimeout, TakeAck,
         ForwardMessage, ReaderEnds, RefuseFrame, Teardown, Disconnect, HandlePublish, HandleSubscribe, HandleUnsubscribe, WriteAck

\* A subscribe the server serves is the first it hears of the subscription.
LEMMA FirstHeard ==
    ASSUME WireInv, HandleSubscribe
    PROVE  LET s == Next1.call
           IN /\ s \in Subs /\ s \notin forwarders /\ (~torn => call[s] \in {"waiting", "late"})
              /\ ~Answered(s, "ok") /\ ~Answered(s, "error")
              /\ Next1 = Command("subscribe", s) /\ 1 \in DOMAIN commands /\ Next1 = commands[1]
<1>1. TypeOK /\ Next1 = commands[1] /\ 1 \in DOMAIN commands /\ Next1 \in Commands /\ Next1.kind = "subscribe"
  BY CommandsTail DEF WireInv, HandleSubscribe
<1>2. Next1.call \in Subs /\ Next1 = Command("subscribe", Next1.call)
  BY <1>1 DEF Commands, Command
<1>3. QED
  BY <1>1, <1>2 DEF WireInv, Underway

\* Who reads no more never reads again.
LEMMA TornStays == [Next]_vars => (torn => torn')
  BY DEF Next, vars, clientVars, Register, Consume, Drop, WriteMessage, SendSpawned, Request, AckTimeout, TakeAck,
         ForwardMessage, ReaderEnds, RefuseFrame, Teardown, Disconnect, HandlePublish, HandleSubscribe, HandleUnsubscribe, WriteAck

\* A call that has been sent stays sent while the client reads.
LEMMA SentStays ==
    ASSUME WireInv, [Next]_vars, NEW c \in Calls
    PROVE  /\ call[c] = "late" => call'[c] = "late" \/ ~up
           /\ ~torn' /\ call[c] = "waiting" => \/ call'[c] \in {"waiting", "late"}
                                               \/ Answered(c, "ok") \/ Answered(c, "error")
           /\ call'[c] = "registered" => call[c] \in {"idle", "registered"}
           /\ call'[c] = "idle" => call[c] = "idle"
           /\ call'[c] = "waiting" => call[c] = "waiting" \/ Request(c)
<1>a. TypeOK /\ \A d \in pending : call[d] = "waiting"
  BY DEF WireInv, Awaited
<1>1. ASSUME NEW s \in Subs, Register(s) \/ Consume(s) \/ Drop(s) \/ WriteMessage(s)
      PROVE  /\ call[c] \in {"late", "waiting"} => call'[c] = call[c]
             /\ call'[c] \in {"idle", "waiting"} => call[c] = call'[c]
             /\ call'[c] = "registered" => call[c] \in {"idle", "registered"}
  BY <1>a, <1>1 DEF TypeOK, Register, Consume, Drop, WriteMessage, clientVars
<1>2. ASSUME NEW s \in Subs, NEW m \in Messages, SendSpawned(s, m)
      PROVE  UNCHANGED call
  BY <1>2 DEF SendSpawned
<1>3. ASSUME NEW d \in Calls, Request(d) \/ AckTimeout(d)
      PROVE  /\ call[c] = "late" => call'[c] = "late"
             /\ call[c] = "waiting" => call'[c] \in {"waiting", "late"}
             /\ call'[c] \in {"idle", "registered"} => call'[c] = call[c]
             /\ call'[c] = "waiting" => call[c] = "waiting" \/ Request(c)
  BY <1>a, <1>3 DEF TypeOK, Request, AckTimeout
<1>4. CASE TakeAck
  BY <1>a, <1>4, HeadAnswers DEF TypeOK, TakeAck
<1>5. CASE ReaderEnds \/ RefuseFrame
  BY <1>a, <1>5 DEF TypeOK, ReaderEnds, RefuseFrame, Teardown
<1>6. CASE ForwardMessage \/ Disconnect \/ UNCHANGED vars
  BY <1>6 DEF ForwardMessage, Disconnect, vars, clientVars
<1>7. CASE HandlePublish \/ HandleSubscribe \/ HandleUnsubscribe \/ WriteAck
  BY <1>7 DEF HandlePublish, HandleSubscribe, HandleUnsubscribe, WriteAck, clientVars
<1>8. QED
  BY <1>1, <1>2, <1>3, <1>4, <1>5, <1>6, <1>7 DEF Next

\* Who sends a subscribe has not been heard of.
LEMMA SubscribeIsNew ==
    ASSUME WireInv, NEW s \in Subs, NEW i, Sent(Command("subscribe", s), i)
    PROVE  /\ Request(s) /\ call'[s] = "waiting" /\ Untouched(s) /\ UNCHANGED <<session, forwarders, events>>
           /\ i = Len(commands) + 1
<1>1. PICK c \in Calls : /\ Request(c) /\ call'[c] = "waiting" /\ i = Len(commands) + 1
                         /\ Command("subscribe", s) = Command(IF c \in Subs THEN "subscribe" ELSE "publish", c)
  BY DEF Sent, Command
<1>2. c = s
  BY <1>1 DEF Command
<1>3. call[s] = "registered" /\ Fresh(s)
  BY <1>1, <1>2 DEF Request, WireInv, Calls
<1>4. Untouched(s)
  BY <1>3 DEF Fresh
<1>5. QED
  BY <1>1, <1>2, <1>4 DEF Request, serverVars

LEMMA NextUnderway ==
    ASSUME WireInv, [Next]_vars, NEW s \in Subs
    PROVE  Underway(s)'
<1> SUFFICES ASSUME NEW i \in DOMAIN commands', commands'[i] = Command("subscribe", s)
             PROVE  /\ \A j \in DOMAIN commands' : commands'[j] = Command("subscribe", s) => j = i
                    /\ s \notin forwarders' /\ ~Answered(s, "ok")' /\ ~Answered(s, "error")'
                    /\ ~torn' => call'[s] \in {"waiting", "late"}
  BY DEF Underway
<1>a. TypeOK /\ Underway(s) /\ Severed /\ s \in Calls /\ s \notin Publishes
  BY SocketAssumption DEF WireInv, Calls
<1>1. CASE \E j \in DOMAIN commands' : Sent(commands'[j], j) /\ commands'[j] = Command("subscribe", s)
  <2>1. PICK k \in DOMAIN commands' : Sent(Command("subscribe", s), k)
    BY <1>1
  <2>2. Request(s) /\ call'[s] = "waiting" /\ Untouched(s) /\ UNCHANGED <<session, forwarders, events>>
    BY <2>1, SubscribeIsNew
  <2>3. \A j \in DOMAIN commands : commands[j] # Command("subscribe", s)
    BY <2>2 DEF Untouched, Command
  <2>4. ~(HandlePublish \/ HandleSubscribe \/ HandleUnsubscribe)
    BY <2>2 DEF HandlePublish, HandleSubscribe, HandleUnsubscribe, Request, clientVars
  <2>5. \A j \in DOMAIN commands' : commands'[j] = Command("subscribe", s) => j = Len(commands) + 1
    BY <2>3, <2>4, CommandsCome DEF Sent
  <2>6. ~Answered(s, "ok")' /\ ~Answered(s, "error")'
    BY <2>2 DEF Answered, Untouched, Ack
  <2>7. QED
    BY <2>2, <2>5, <2>6 DEF Untouched
<1>2. CASE /\ \A j \in DOMAIN commands' : commands'[j] = Command("subscribe", s) =>
                j \in DOMAIN commands /\ commands'[j] = commands[j]
           /\ ~(HandlePublish \/ HandleSubscribe)
  <2>1. /\ \A j \in DOMAIN commands : commands[j] = Command("subscribe", s) => j = i
        /\ s \notin forwarders /\ ~Answered(s, "ok") /\ ~Answered(s, "error")
        /\ (~torn => call[s] \in {"waiting", "late"}) /\ up
    BY <1>a, <1>2 DEF Underway, Severed
  <2>2. s \notin forwarders'
    BY <1>2, <2>1, ForwardersCome
  <2>3. ~Answered(s, "ok")' /\ ~Answered(s, "error")'
    BY <1>a, <1>2, <2>1, AnswersCome
  <2>4. ~torn' => call'[s] \in {"waiting", "late"}
    BY <1>a, <2>1, SentStays, TornStays
  <2>5. QED
    BY <1>2, <2>1, <2>2, <2>3, <2>4
<1>3. CASE (HandlePublish \/ HandleSubscribe \/ HandleUnsubscribe) /\ commands # <<>> /\ Served
  <2>1. /\ Next1 = commands[1] /\ 1 \in DOMAIN commands /\ Next1 \in Commands
        /\ \A j \in DOMAIN commands' : j + 1 \in DOMAIN commands /\ j + 1 # 1 /\ commands'[j] = commands[j + 1]
    BY <1>a, <1>3, CommandsTail
  <2>2. /\ \A j \in DOMAIN commands : commands[j] = Command("subscribe", s) => j = i + 1
        /\ s \notin forwarders /\ ~Answered(s, "ok") /\ ~Answered(s, "error")
        /\ (~torn => call[s] \in {"waiting", "late"}) /\ up
    BY <1>a, <2>1 DEF Underway, Severed
  <2>3. Next1 # Command("subscribe", s)
    BY <2>1, <2>2
  <2>4. ~(HandleSubscribe /\ Next1.call = s) /\ ~(HandlePublish /\ Next1.call = s)
    BY <1>a, <2>1, <2>3, FirstHeard DEF HandlePublish, Commands
  <2>5. s \notin forwarders' /\ ~Answered(s, "ok")' /\ ~Answered(s, "error")'
    BY <1>a, <2>2, <2>4, ForwardersCome, AnswersCome
  <2>6. ~torn' => call'[s] \in {"waiting", "late"}
    BY <1>a, <2>2, SentStays, TornStays
  <2>7. \A j \in DOMAIN commands' : commands'[j] = Command("subscribe", s) => j = i
    <3>1. \A j \in DOMAIN commands' : j \in Int
      BY <1>a, NextTypeOK DEF TypeOK
    <3>2. QED
      BY <2>1, <2>2, <3>1
  <2>8. QED
    BY <2>5, <2>6, <2>7
<1>4. QED
  <2>1. HandlePublish \/ HandleSubscribe => commands # <<>> /\ Served
    BY DEF HandlePublish, HandleSubscribe
  <2>2. QED
    BY <1>1, <1>2, <1>3, <2>1, CommandsCome

LEMMA NextRefused ==
    ASSUME WireInv, [Next]_vars, NEW s \in Subs, Answered(s, "error")'
    PROVE  s \notin forwarders'
<1>1. s \in Calls /\ s \notin Publishes /\ TypeOK /\ (Answered(s, "error") => s \notin forwarders)
  BY SocketAssumption DEF WireInv, Calls
<1>2. HandlePublish => Next1.call # s
  BY <1>1, CommandsTail DEF HandlePublish, Commands
<1>3. HandleSubscribe => LET t == Next1.call IN t \notin forwarders /\ ~Answered(t, "error")
  BY FirstHeard
<1>4. QED
  BY <1>1, <1>2, <1>3, AnswersCome, ForwardersCome

\* A frame on its way was there before or is written now.
LEMMA EventsCome ==
    ASSUME WireInv, [Next]_vars, NEW i \in DOMAIN events'
    PROVE  \/ \E j \in DOMAIN events : events'[i] = events[j]
           \/ WriteAck /\ events'[i].call = session.call
           \/ \E s \in forwarders : WriteMessage(s) /\ events'[i].call = s
<1>a. TypeOK
  BY DEF WireInv
<1>1. ASSUME NEW s \in Subs, WriteMessage(s)
      PROVE  (\E j \in DOMAIN events : events'[i] = events[j]) \/ (s \in forwarders /\ events'[i].call = s)
  <2>1. PICK m \in Messages : events' = Append(events, Message(s, m))
    BY <1>1 DEF WriteMessage
  <2>2. Message(s, m) \in Acks \cup MessageFrames /\ Message(s, m).call = s
    BY DEF Message, MessageFrames
  <2>3. QED
    BY <1>a, <1>1, <2>1, <2>2, EventsAppend DEF WriteMessage
<1>2. CASE WriteAck
  <2>1. session \in [call : Calls, result : {"ok", "error"}]
    BY <1>a, <1>2 DEF WriteAck, TypeOK
  <2>2. Ack(session.call, session.result) \in Acks \cup MessageFrames /\ Ack(session.call, session.result).call = session.call
    BY <2>1 DEF Ack, Acks
  <2>3. QED
    BY <1>a, <1>2, <2>2, EventsAppend DEF WriteAck
<1>3. CASE TakeAck \/ ForwardMessage
  BY <1>a, <1>3, EventsTail DEF TakeAck, ForwardMessage
<1>4. ASSUME events' \in {events, <<>>}
      PROVE  \E j \in DOMAIN events : events'[i] = events[j]
  BY <1>4
<1>5. ASSUME NEW s \in Subs, Register(s) \/ Consume(s) \/ Drop(s)
      PROVE  UNCHANGED events
  BY <1>5 DEF Register, Consume, Drop
<1>6. ASSUME NEW s \in Subs, NEW m \in Messages, SendSpawned(s, m)
      PROVE  UNCHANGED events
  BY <1>6 DEF SendSpawned
<1>7. ASSUME NEW c \in Calls, Request(c) \/ AckTimeout(c)
      PROVE  UNCHANGED events
  BY <1>7 DEF Request, AckTimeout
<1>8. CASE ReaderEnds \/ RefuseFrame \/ Disconnect \/ UNCHANGED vars \/ HandlePublish \/ HandleSubscribe \/ HandleUnsubscribe
  BY <1>4, <1>8 DEF ReaderEnds, RefuseFrame, Teardown, Disconnect, vars, HandlePublish, HandleSubscribe, HandleUnsubscribe
<1>9. QED
  BY <1>1, <1>2, <1>3, <1>4, <1>5, <1>6, <1>7, <1>8 DEF Next

\* Nothing comes to the server or from it before it is asked.
LEMMA NextUntouched ==
    ASSUME WireInv, [Next]_vars, NEW c \in Calls, Untouched(c), call'[c] \in {"idle", "registered"}
    PROVE  Untouched(c)'
<1>a. TypeOK /\ c # Nobody
  BY SocketAssumption DEF WireInv, Calls
<1>1. HandlePublish \/ HandleSubscribe => Next1.call # c
  BY <1>a, CommandsTail DEF HandlePublish, HandleSubscribe, Untouched
<1>2. c \notin forwarders'
  BY <1>1, ForwardersCome DEF Untouched
<1>3. c \notin pending'
  BY <1>a DEF Untouched, TypeOK, Next, vars, clientVars, serverVars, Register, Consume, Drop, WriteMessage, SendSpawned,
              Request, AckTimeout, TakeAck, ForwardMessage, ReaderEnds, RefuseFrame, Teardown, Disconnect, HandlePublish, HandleSubscribe,
              HandleUnsubscribe, WriteAck
<1>4. session'.call # c
  BY <1>a, <1>1 DEF NoAck, Untouched, Next, vars, clientVars, serverVars, Register, Consume, Drop, WriteMessage, SendSpawned,
              Request, AckTimeout, TakeAck, ForwardMessage, ReaderEnds, RefuseFrame, Teardown, Disconnect, HandlePublish, HandleSubscribe,
              HandleUnsubscribe, WriteAck
<1>5. \A i \in DOMAIN events' : events'[i].call # c
  BY EventsCome DEF Untouched
<1>6. \A i \in DOMAIN commands' : commands'[i].call # c
  <2>1. ASSUME NEW i, NEW x, Sent(x, i)
        PROVE  x.call # c
    <3>1. ASSUME NEW d \in Calls, call'[d] = "waiting", x = Command(IF d \in Subs THEN "subscribe" ELSE "publish", d)
          PROVE  x.call # c
      BY <3>1 DEF Command
    <3>2. ASSUME NEW s \in open, Drop(s), x = Command("unsubscribe", s)
          PROVE  x.call # c
      <4>1. call'[s] = "dropped" /\ x.call = s
        BY <1>a, <3>2 DEF Drop, TypeOK, Command, Calls
      <4>2. QED
        BY <4>1
    <3>3. QED
      BY <2>1, <3>1, <3>2 DEF Sent
  <2>2. commands # <<>> /\ Served => \A i \in DOMAIN commands' : \E j \in DOMAIN commands : commands'[i] = commands[j]
    BY <1>a, CommandsTail
  <2>3. QED
    BY <2>1, <2>2, CommandsCome DEF Untouched
<1>7. QED
  BY <1>2, <1>3, <1>4, <1>5, <1>6 DEF Untouched

LEMMA NextEmpty ==
    ASSUME WireInv, [Next]_vars, NEW s \in Subs, Untouched(s), Empty(s), call[s] \in {"idle", "registered"}
    PROVE  Empty(s)'
<1>a. TypeOK /\ s \notin forwarders
  BY DEF WireInv, Untouched
<1>1. ASSUME NEW t \in Subs, Register(t) \/ WriteMessage(t) \/ Drop(t)
      PROVE  Empty(s)'
  BY <1>a, <1>1 DEF TypeOK, Empty, Register, WriteMessage, Drop, clientVars, serverVars
<1>2. ASSUME NEW t \in Subs, Consume(t)
      PROVE  Empty(s)'
  BY <1>a, <1>2 DEF TypeOK, Empty, Consume, serverVars
<1>3. ASSUME NEW t \in Subs, NEW m \in Messages, SendSpawned(t, m)
      PROVE  Empty(s)'
  BY <1>a, <1>3 DEF TypeOK, Empty, SendSpawned, serverVars
<1>4. CASE ForwardMessage
  <2>1. Head(events).call # s
    BY <1>a, <1>4, EventsTail DEF ForwardMessage, Untouched
  <2>2. QED
    BY <1>a, <1>4, <2>1 DEF TypeOK, Empty, ForwardMessage, serverVars
<1>5. ASSUME NEW c \in Calls, Request(c) \/ AckTimeout(c)
      PROVE  Empty(s)'
  BY <1>5 DEF Empty, Request, AckTimeout, serverVars
<1>6. CASE TakeAck \/ ReaderEnds \/ RefuseFrame \/ Disconnect \/ UNCHANGED vars
  BY <1>6 DEF Empty, TakeAck, ReaderEnds, RefuseFrame, Teardown, Disconnect, vars, clientVars, serverVars
<1>7. CASE HandlePublish \/ HandleSubscribe \/ HandleUnsubscribe \/ WriteAck
  BY <1>7 DEF Empty, HandlePublish, HandleSubscribe, HandleUnsubscribe, WriteAck, clientVars
<1>8. QED
  BY <1>1, <1>2, <1>3, <1>4, <1>5, <1>6, <1>7 DEF Next

LEMMA NextFresh ==
    ASSUME WireInv, [Next]_vars, NEW c \in Calls
    PROVE  Fresh(c)'
<1> SUFFICES ASSUME call'[c] \in {"idle", "registered"}
             PROVE  /\ Untouched(c)' /\ (c \in Subs => Empty(c)')
                    /\ call'[c] = "idle" => c \notin open'
  BY DEF Fresh
<1>1. call[c] \in {"idle", "registered"} /\ Fresh(c) /\ TypeOK
  BY SentStays DEF WireInv
<1>2. Untouched(c) /\ (c \in Subs => Empty(c)) /\ (call[c] = "idle" => c \notin open)
  BY <1>1 DEF Fresh
<1>3. ASSUME call'[c] = "idle"
      PROVE  c \notin open'
  <2>1. call[c] = "idle" /\ c \notin open
    BY <1>2, <1>3, SentStays
  <2>2. QED
    BY <1>1, <1>3, <2>1 DEF TypeOK, Calls, Next, vars, clientVars, serverVars, Register, Consume, Drop, WriteMessage,
              SendSpawned, Request, AckTimeout, TakeAck, ForwardMessage, ReaderEnds, RefuseFrame, Teardown, Disconnect, HandlePublish,
              HandleSubscribe, HandleUnsubscribe, WriteAck
<1>4. QED
  BY <1>1, <1>2, <1>3, NextUntouched, NextEmpty

\* Who loses its place in the client's map has timed out, sends an unsubscribe or is
\* not forwarded for.
LEMMA OpenGoes ==
    ASSUME WireInv, [Next]_vars, NEW s \in open, s \notin open', up, ~torn', s \in forwarders
    PROVE  \/ call'[s] = "late"
           \/ Drop(s) /\ commands' = Append(commands, Command("unsubscribe", s))
<1>a. TypeOK /\ s \in Subs /\ s \in Calls /\ ~Answered(s, "error")
  BY DEF WireInv, TypeOK, Calls
<1>1. ASSUME NEW t \in Subs, Register(t) \/ Consume(t) \/ WriteMessage(t)
      PROVE  open \subseteq open'
  BY <1>1 DEF Register, Consume, WriteMessage, clientVars
<1>2. ASSUME NEW t \in Subs, Drop(t)
      PROVE  Drop(s) /\ commands' = Append(commands, Command("unsubscribe", s))
  BY <1>2 DEF Drop, Send
<1>3. ASSUME NEW t \in Subs, NEW m \in Messages, SendSpawned(t, m)
      PROVE  UNCHANGED open
  BY <1>3 DEF SendSpawned
<1>4. ASSUME NEW c \in Calls, Request(c)
      PROVE  UNCHANGED open
  BY <1>4 DEF Request
<1>5. ASSUME NEW c \in Calls, AckTimeout(c)
      PROVE  call'[s] = "late"
  BY <1>a, <1>5 DEF AckTimeout, TypeOK
<1>6. CASE TakeAck
  <2>1. Answered(Head(events).call, Head(events).result)
    BY <1>a, <1>6, HeadAnswers
  <2>2. open' = open \/ (open' = open \ {Head(events).call} /\ Head(events).result = "error")
    BY <1>6 DEF TakeAck
  <2>3. QED
    BY <1>a, <2>1, <2>2
<1>7. CASE ForwardMessage \/ ReaderEnds \/ RefuseFrame \/ Disconnect \/ UNCHANGED vars
  BY <1>7 DEF ForwardMessage, ReaderEnds, RefuseFrame, Teardown, Disconnect, vars, clientVars
<1>8. CASE HandlePublish \/ HandleSubscribe \/ HandleUnsubscribe \/ WriteAck
  BY <1>8 DEF HandlePublish, HandleSubscribe, HandleUnsubscribe, WriteAck, clientVars
<1>9. QED
  BY <1>1, <1>2, <1>3, <1>4, <1>5, <1>6, <1>7, <1>8 DEF Next

\* An unsubscribe waits until it is served.
LEMMA CommandsStay ==
    ASSUME WireInv, [Next]_vars, up', NEW i \in DOMAIN commands
    PROVE  \/ \E j \in DOMAIN commands' : commands'[j] = commands[i]
           \/ i = 1 /\ Next1 = commands[1] /\ (HandlePublish \/ HandleSubscribe \/ HandleUnsubscribe)
<1>a. TypeOK
  BY DEF WireInv
<1>1. CASE UNCHANGED commands
  BY <1>1
<1>2. ASSUME NEW x \in Commands, Send(x)
      PROVE  \E j \in DOMAIN commands' : commands'[j] = commands[i]
  BY <1>a, <1>2, CommandsSend
<1>3. ASSUME NEW s \in Subs, Drop(s), s \in open
      PROVE  \E j \in DOMAIN commands' : commands'[j] = commands[i]
  <2>1. Command("unsubscribe", s) \in Commands
    BY DEF Command, Commands
  <2>2. QED
    BY <1>2, <1>3, <2>1 DEF Drop
<1>4. ASSUME NEW c \in Calls, Request(c), commands' # commands
      PROVE  \E j \in DOMAIN commands' : commands'[j] = commands[i]
  <2>1. Command(IF c \in Subs THEN "subscribe" ELSE "publish", c) \in Commands
    BY DEF Command, Commands, Calls
  <2>2. QED
    BY <1>2, <1>4, <2>1 DEF Request
<1>5. ASSUME NEW s \in Subs, Register(s) \/ Consume(s) \/ WriteMessage(s) \/ (Drop(s) /\ s \notin open)
      PROVE  UNCHANGED commands
  BY <1>5 DEF Register, Consume, WriteMessage, Drop
<1>6. ASSUME NEW s \in Subs, NEW m \in Messages, SendSpawned(s, m)
      PROVE  UNCHANGED commands
  BY <1>6 DEF SendSpawned
<1>7. ASSUME NEW c \in Calls, AckTimeout(c)
      PROVE  UNCHANGED commands
  BY <1>7 DEF AckTimeout
<1>8. CASE TakeAck \/ ForwardMessage \/ ReaderEnds \/ RefuseFrame \/ WriteAck \/ UNCHANGED vars
  BY <1>8, <1>1 DEF TakeAck, ForwardMessage, ReaderEnds, RefuseFrame, Teardown, WriteAck, vars
<1>9. CASE HandlePublish \/ HandleSubscribe \/ HandleUnsubscribe
  <2>1. commands # <<>> /\ Served
    BY <1>9 DEF HandlePublish, HandleSubscribe, HandleUnsubscribe
  <2>2. QED
    BY <1>a, <1>9, <2>1, CommandsTail
<1>10. CASE Disconnect
  BY <1>10 DEF Disconnect
<1>11. QED
  BY <1>1, <1>3, <1>4, <1>5, <1>6, <1>7, <1>8, <1>9, <1>10 DEF Next

LEMMA NextNoOrphans == WireInv /\ [Next]_vars => NoOrphans'
<1> SUFFICES ASSUME WireInv, [Next]_vars, ~torn', NEW s \in forwarders'
             PROVE  \/ s \in open'
                    \/ \E i \in DOMAIN commands' : commands'[i] = Command("unsubscribe", s)
                    \/ call'[s] = "late"
  BY DEF NoOrphans
<1>a. TypeOK /\ Severed /\ Awaited /\ NoOrphans /\ ~torn
  BY TornStays DEF WireInv
<1>b. TypeOK' /\ Severed'
  BY <1>a, NextTypeOK, NextSevered
<1>c. s \in Subs /\ s \in Calls /\ up'
  BY <1>b DEF TypeOK, Severed, Calls
<1>d. up
  BY <1>c DEF Next, vars, Register, Consume, Drop, WriteMessage, SendSpawned, Request, AckTimeout, TakeAck,
         ForwardMessage, ReaderEnds, RefuseFrame, Teardown, Disconnect, HandlePublish, HandleSubscribe, HandleUnsubscribe, WriteAck
<1>1. CASE s \notin forwarders
  <2>1. HandleSubscribe /\ Next1.call = s
    BY <1>1, ForwardersCome
  <2>2. call[s] \in {"waiting", "late"} /\ call' = call /\ open' = open
    BY <2>1, FirstHeard DEF HandleSubscribe, clientVars
  <2>3. QED
    BY <1>a, <1>c, <1>d, <2>2 DEF Awaited
<1>2. CASE s \in forwarders /\ s \in open
  <2>1. SUFFICES ASSUME Drop(s), commands' = Append(commands, Command("unsubscribe", s))
                 PROVE  \E i \in DOMAIN commands' : commands'[i] = Command("unsubscribe", s)
    BY <1>2, <1>d, OpenGoes
  <2>2. Command("unsubscribe", s) \in Commands
    BY <1>c DEF Command, Commands
  <2>3. QED
    BY <1>a, <2>1, <2>2, AppendMembers DEF TypeOK
<1>3. ASSUME s \in forwarders, NEW i \in DOMAIN commands, commands[i] = Command("unsubscribe", s)
      PROVE  \E j \in DOMAIN commands' : commands'[j] = Command("unsubscribe", s)
  <2>1. ASSUME Next1 = Command("unsubscribe", s), HandlePublish \/ HandleSubscribe \/ HandleUnsubscribe
        PROVE  FALSE
    BY <2>1 DEF HandlePublish, HandleSubscribe, HandleUnsubscribe, Command
  <2>2. QED
    BY <1>3, <1>c, <2>1, CommandsStay
<1>4. CASE s \in forwarders /\ call[s] = "late"
  BY <1>c, <1>d, <1>4, SentStays
<1>5. QED
  BY <1>1, <1>2, <1>3, <1>4, <1>a DEF NoOrphans

-----------------------------------------------------------------------------
(* Nothing is lost *)

LEMMA TakenType ==
    ASSUME TypeOK, NEW s \in Subs
    PROVE  Taken(s) \in Seq(Messages) /\ read[s] \in Seq(Messages) /\ queue[s] \in Seq(Messages)
  BY ConcatProperties DEF TypeOK, Taken

LEMMA OneEnters ==
    ASSUME NEW S, NEW r \in Seq(S), NEW q \in Seq(S), NEW e \in S
    PROVE  r \o Append(q, e) = Append(r \o q, e)
<1>1. <<e>> \in Seq(S) /\ r \o q \in Seq(S)
  BY ConcatProperties
<1>2. Append(q, e) = q \o <<e>> /\ Append(r \o q, e) = (r \o q) \o <<e>>
  BY <1>1, AppendIsConcat
<1>3. (r \o q) \o <<e>> = r \o (q \o <<e>>)
  BY <1>1, ConcatAssociative
<1>4. QED
  BY <1>2, <1>3

\* A message that enters the channel comes after all that were taken.
LEMMA Enters ==
    ASSUME TypeOK, NEW s \in Subs, NEW m \in Messages,
           UNCHANGED read, queue' = [queue EXCEPT ![s] = Append(@, m)]
    PROVE  /\ ToSet(Taken(s))' = ToSet(Taken(s)) \cup {m}
           /\ IsInjective(Taken(s)) /\ m \notin ToSet(Taken(s)) => IsInjective(Taken(s))'
<1>1. read[s] \in Seq(Messages) /\ queue[s] \in Seq(Messages) /\ Taken(s) \in Seq(Messages)
  BY TakenType
<1>2. Taken(s)' = read[s] \o Append(queue[s], m)
  BY DEF TypeOK, Taken
<1>3. read[s] \o Append(queue[s], m) = Append(read[s] \o queue[s], m)
  <2> DEFINE r == read[s]
             q == queue[s]
  <2>1. r \in Seq(Messages) /\ q \in Seq(Messages)
    BY <1>1
  <2> HIDE DEF r, q
  <2>2. r \o Append(q, m) = Append(r \o q, m)
    BY <2>1, OneEnters
  <2>3. QED
    BY <2>2 DEF r, q
<1>4. Taken(s)' = Append(Taken(s), m)
  BY <1>2, <1>3 DEF Taken
<1>5. /\ ToSet(Append(Taken(s), m)) = ToSet(Taken(s)) \cup {m}
      /\ IsInjective(Taken(s)) /\ m \notin ToSet(Taken(s)) => IsInjective(Append(Taken(s), m))
  BY <1>1, AppendToSet
<1>6. ToSet(Taken(s))' = ToSet(Taken(s)') /\ (IsInjective(Taken(s))' <=> IsInjective(Taken(s)'))
  BY DEF ToSet, IsInjective
<1>7. QED
  BY <1>4, <1>5, <1>6

LEMMA OneMoves ==
    ASSUME NEW S, NEW r \in Seq(S), NEW q \in Seq(S), q # <<>>
    PROVE  Append(r, Head(q)) \o Tail(q) = r \o q
<1>1. PICK h \in S, t \in Seq(S) : h = Head(q) /\ t = Tail(q)
  BY HeadTailProperties
<1>2. q = <<h>> \o t /\ <<h>> \in Seq(S)
  BY <1>1
<1>3. Append(r, h) = r \o <<h>>
  BY AppendIsConcat
<1>4. (r \o <<h>>) \o t = r \o (<<h>> \o t)
  BY <1>2, ConcatAssociative
<1>5. QED
  BY <1>1, <1>2, <1>3, <1>4

\* What the consumer takes out of the channel it has read.
LEMMA Moves ==
    ASSUME TypeOK, NEW s \in Subs, queue[s] # <<>>,
           read' = [read EXCEPT ![s] = Append(@, Head(queue[s]))],
           queue' = [queue EXCEPT ![s] = Tail(@)]
    PROVE  Taken(s)' = Taken(s)
<1>1. Taken(s)' = Append(read[s], Head(queue[s])) \o Tail(queue[s])
  BY DEF TypeOK, Taken
<1>2. QED
  BY <1>1, TakenType, OneMoves DEF Taken

LEMMA FlowFrame ==
    ASSUME NEW s, NoneMissing(s), NoneTwice(s),
           forwarded'[s] = forwarded[s], Taken(s)' = Taken(s), spawned'[s] = spawned[s],
           Bodies(s)' = Bodies(s), Apart(s)'
    PROVE  NoneMissing(s)' /\ NoneTwice(s)'
<1>1. ToSet(forwarded[s])' = ToSet(forwarded[s]) /\ ToSet(Taken(s))' = ToSet(Taken(s))
  BY DEF ToSet
<1>2. IsInjective(Taken(s))' <=> IsInjective(Taken(s))
  BY DEF IsInjective
<1>3. QED
  BY <1>1, <1>2 DEF NoneMissing, NoneTwice

LEMMA NextFlows ==
    ASSUME WireInv, [Next]_vars, NEW s \in Subs
    PROVE  Flows(s)'
<1> SUFFICES ASSUME s \in open', up'
             PROVE  NoneMissing(s)' /\ NoneTwice(s)'
  BY DEF Flows
<1>a. TypeOK /\ Flows(s) /\ s \in Calls
  BY DEF WireInv, Calls
<1>b. up
  BY DEF Next, vars, Register, Consume, Drop, WriteMessage, SendSpawned, Request, AckTimeout, TakeAck,
         ForwardMessage, ReaderEnds, RefuseFrame, Teardown, Disconnect, HandlePublish, HandleSubscribe, HandleUnsubscribe, WriteAck
<1>c. s \in open => NoneMissing(s) /\ NoneTwice(s) /\ Apart(s)
  BY <1>a, <1>b DEF Flows, NoneTwice
<1>d. ASSUME UNCHANGED <<events, queue, spawned, read, forwarded>>, s \in open
      PROVE  NoneMissing(s)' /\ NoneTwice(s)'
  <2>1. Taken(s)' = Taken(s) /\ Bodies(s)' = Bodies(s) /\ Apart(s)'
    BY <1>c, <1>d DEF Taken, Bodies, OnTheWay, Apart
  <2>2. QED
    BY <1>c, <1>d, <2>1, FlowFrame
<1>1. ASSUME NEW t \in Subs, Register(t)
      PROVE  NoneMissing(s)' /\ NoneTwice(s)'
  <2>1. CASE s \in open
    BY <1>1, <1>d, <2>1 DEF Register, serverVars
  <2>2. CASE s \notin open
    <3>1. t = s /\ Untouched(s) /\ Empty(s)
      BY <1>1, <1>a, <2>2 DEF Register, WireInv, Fresh
    <3>2. UNCHANGED <<events, queue, spawned, read, forwarded>>
      BY <1>1 DEF Register, serverVars
    <3>3. /\ OnTheWay(s)' = {} /\ Taken(s)' = <<>> /\ spawned'[s] = {} /\ forwarded'[s] = <<>>
      BY <3>1, <3>2 DEF OnTheWay, Taken, Empty, Untouched
    <3>4. Bodies(s)' = {} /\ Apart(s)'
      BY <3>3 DEF Bodies, Apart
    <3>5. ToSet(Taken(s))' = {} /\ ToSet(forwarded[s])' = {} /\ IsInjective(Taken(s))'
      BY <3>3 DEF ToSet, IsInjective
    <3>6. QED
      BY <3>3, <3>4, <3>5 DEF NoneMissing, NoneTwice
  <2>3. QED
    BY <2>1, <2>2
<1>2. ASSUME NEW t \in Subs, Consume(t)
      PROVE  NoneMissing(s)' /\ NoneTwice(s)'
  <2>1. s \in open /\ UNCHANGED <<events, spawned, forwarded>>
    BY <1>2 DEF Consume, serverVars
  <2>2. Bodies(s)' = Bodies(s) /\ Apart(s)'
    BY <1>c, <2>1 DEF Bodies, Apart, OnTheWay
  <2>3. Taken(s)' = Taken(s)
    <3>1. CASE UNCHANGED <<read, queue>>
      BY <3>1 DEF Taken
    <3>2. CASE ~UNCHANGED <<read, queue>> /\ t = s
      BY <1>2, <1>a, <3>2, Moves DEF Consume
    <3>3. CASE t # s
      BY <1>2, <1>a, <3>3 DEF Consume, TypeOK, Taken
    <3>4. QED
      BY <3>1, <3>2, <3>3
  <2>4. QED
    BY <1>c, <2>1, <2>2, <2>3, FlowFrame
<1>3. ASSUME NEW t \in Subs, Drop(t)
      PROVE  NoneMissing(s)' /\ NoneTwice(s)'
  <2>1. s \in open /\ s # t
    BY <1>3 DEF Drop
  <2>2. UNCHANGED <<events, read, forwarded>> /\ queue'[s] = queue[s] /\ spawned'[s] = spawned[s]
    BY <1>a, <1>3, <2>1 DEF Drop, TypeOK, serverVars
  <2>3. Bodies(s)' = Bodies(s) /\ Apart(s)' /\ Taken(s)' = Taken(s)
    BY <1>c, <2>1, <2>2 DEF Bodies, Apart, OnTheWay, Taken
  <2>4. QED
    BY <1>c, <2>1, <2>2, <2>3, FlowFrame
<1>4. ASSUME NEW t \in Subs, WriteMessage(t)
      PROVE  NoneMissing(s)' /\ NoneTwice(s)'
  <2>1. s \in open /\ UNCHANGED <<queue, spawned, read>>
    BY <1>4 DEF WriteMessage, clientVars
  <2>2. PICK m \in Messages : /\ \A n \in ToSet(forwarded[t]) : n < m
                              /\ forwarded' = [forwarded EXCEPT ![t] = Append(@, m)]
                              /\ events' = Append(events, Message(t, m))
    BY <1>4 DEF WriteMessage
  <2>3. Message(t, m) \in Acks \cup MessageFrames /\ Message(t, m).kind = "message"
        /\ Message(t, m).call = t /\ Message(t, m).body = m
    BY DEF Message, MessageFrames
  <2>4. Taken(s)' = Taken(s)
    BY <2>1 DEF Taken
  <2>5. CASE t # s
    <3>1. Bodies(s)' = Bodies(s)
      BY <1>a, <2>2, <2>3, <2>5, FrameWritten
    <3>2. Apart(s)'
      BY <1>a, <1>c, <2>1, <2>2, <2>3, <2>5, FrameWritten
    <3>3. forwarded'[s] = forwarded[s]
      BY <1>a, <2>2, <2>5 DEF TypeOK
    <3>4. QED
      BY <1>c, <2>1, <2>4, <3>1, <3>2, <3>3, FlowFrame
  <2>6. CASE t = s
    <3>1. m \notin ToSet(forwarded[s])
      BY <2>2, <2>6 DEF Messages
    <3>2. m \notin ToSet(Taken(s)) /\ m \notin spawned[s] /\ m \notin Bodies(s)
      BY <1>c, <2>1, <3>1 DEF NoneMissing
    <3>3. Bodies(s)' = Bodies(s) \cup {m}
      BY <1>a, <2>2, <2>3, <2>6, FrameWritten
    <3>4. Apart(s)'
      BY <1>a, <1>c, <2>1, <2>2, <2>3, <2>6, <3>2, FrameWritten
    <3>5. ToSet(forwarded[s])' = ToSet(forwarded[s]) \cup {m}
      <4>1. forwarded'[s] = Append(forwarded[s], m) /\ forwarded[s] \in Seq(Messages)
        BY <1>a, <2>2, <2>6 DEF TypeOK
      <4>2. ToSet(forwarded[s])' = ToSet(forwarded'[s])
        BY DEF ToSet
      <4>3. QED
        BY <4>1, <4>2, AppendToSet
    <3>6. ToSet(Taken(s))' = ToSet(Taken(s)) /\ (IsInjective(Taken(s))' <=> IsInjective(Taken(s)))
      BY <2>4 DEF ToSet, IsInjective
    <3>7. QED
      BY <1>c, <2>1, <3>2, <3>3, <3>4, <3>5, <3>6 DEF NoneMissing, NoneTwice
  <2>7. QED
    BY <2>5, <2>6
<1>5. ASSUME NEW t \in Subs, NEW m \in Messages, SendSpawned(t, m)
      PROVE  NoneMissing(s)' /\ NoneTwice(s)'
  <2>1. s \in open /\ UNCHANGED <<events, read, forwarded>>
    BY <1>5 DEF SendSpawned, serverVars
  <2>2. Bodies(s)' = Bodies(s) /\ Apart(s)' /\ ToSet(forwarded[s])' = ToSet(forwarded[s])
    BY <1>c, <2>1 DEF Bodies, Apart, OnTheWay, ToSet
  <2>3. CASE t # s
    <3>1. queue'[s] = queue[s] /\ spawned'[s] = spawned[s]
      BY <1>a, <1>5, <2>3 DEF SendSpawned, TypeOK
    <3>2. Taken(s)' = Taken(s)
      BY <2>1, <3>1 DEF Taken
    <3>3. QED
      BY <1>c, <2>1, <2>2, <3>1, <3>2, FlowFrame
  <2>4. CASE t = s
    <3>1. m \in spawned[s] /\ spawned'[s] = spawned[s] \ {m}
      BY <1>a, <1>5, <2>4 DEF SendSpawned, TypeOK
    <3>2. m \notin ToSet(Taken(s)) /\ m \notin Bodies(s)
      BY <1>c, <2>1, <3>1 DEF NoneTwice
    <3>3. ToSet(Taken(s))' = ToSet(Taken(s)) \cup {m} /\ IsInjective(Taken(s))'
      BY <1>a, <1>c, <1>5, <2>1, <2>4, <3>2, Enters DEF SendSpawned, NoneTwice
    <3>4. QED
      BY <1>c, <2>1, <2>2, <3>1, <3>2, <3>3 DEF NoneMissing, NoneTwice
  <2>5. QED
    BY <2>3, <2>4
<1>6. ASSUME NEW c \in Calls, Request(c) \/ AckTimeout(c)
      PROVE  NoneMissing(s)' /\ NoneTwice(s)'
  BY <1>6, <1>b, <1>d DEF Request, AckTimeout, serverVars
<1>7. CASE TakeAck
  <2>1. s \in open /\ UNCHANGED <<queue, spawned, read, forwarded>>
    BY <1>7 DEF TakeAck, serverVars
  <2>2. Bodies(s)' = Bodies(s) /\ Apart(s)' /\ Taken(s)' = Taken(s)
    BY <1>a, <1>c, <1>7, <2>1, FrameTaken DEF TakeAck, Taken
  <2>3. QED
    BY <1>c, <2>1, <2>2, FlowFrame
<1>8. CASE ForwardMessage
  <2> DEFINE t == Head(events).call
             m == Head(events).body
  <2>1. s \in open /\ UNCHANGED <<read, forwarded>>
    BY <1>8 DEF ForwardMessage, serverVars
  <2>2. ToSet(forwarded[s])' = ToSet(forwarded[s]) /\ Apart(s)'
    BY <1>a, <1>c, <1>8, <2>1, FrameTaken DEF ForwardMessage, ToSet
  <2>3. CASE t # s
    <3>1. queue'[s] = queue[s] /\ spawned'[s] = spawned[s]
      BY <1>a, <1>8, <2>3 DEF ForwardMessage, TypeOK
    <3>2. Bodies(s)' = Bodies(s) /\ Taken(s)' = Taken(s)
      BY <1>a, <1>c, <1>8, <2>1, <2>3, <3>1, FrameTaken DEF ForwardMessage, Taken
    <3>3. QED
      BY <1>c, <2>1, <2>2, <3>1, <3>2, FlowFrame
  <2>4. CASE t = s
    <3>1. m \in Bodies(s) /\ Bodies(s)' = Bodies(s) \ {m}
      BY <1>a, <1>c, <1>8, <2>1, <2>4, FrameTaken DEF ForwardMessage, Readable
    <3>2. m \notin ToSet(Taken(s)) /\ m \notin spawned[s]
      BY <1>c, <2>1, <3>1 DEF NoneTwice
    <3>3. m \in Messages
      BY <1>a, <1>8, EventsTail DEF ForwardMessage, Readable, Acks, MessageFrames
    <3>4. CASE queue' = [queue EXCEPT ![s] = Append(@, m)] /\ UNCHANGED spawned
      <4>1. ToSet(Taken(s))' = ToSet(Taken(s)) \cup {m} /\ IsInjective(Taken(s))'
        BY <1>a, <1>c, <2>1, <3>2, <3>3, <3>4, Enters DEF NoneTwice
      <4>2. QED
        BY <1>c, <2>1, <2>2, <3>1, <3>2, <3>4, <4>1 DEF NoneMissing, NoneTwice
    <3>5. CASE UNCHANGED queue /\ spawned' = [spawned EXCEPT ![s] = @ \cup {m}]
      <4>1. spawned'[s] = spawned[s] \cup {m}
        BY <1>a, <3>5 DEF TypeOK
      <4>2. ToSet(Taken(s))' = ToSet(Taken(s)) /\ (IsInjective(Taken(s))' <=> IsInjective(Taken(s)))
        BY <2>1, <3>5 DEF Taken, ToSet, IsInjective
      <4>3. QED
        BY <1>c, <2>1, <2>2, <3>1, <3>2, <4>1, <4>2 DEF NoneMissing, NoneTwice
    <3>6. QED
      BY <1>8, <2>1, <2>4, <3>4, <3>5 DEF ForwardMessage
  <2>5. QED
    BY <2>3, <2>4
<1>9. CASE ReaderEnds \/ RefuseFrame \/ Disconnect
  BY <1>9 DEF ReaderEnds, RefuseFrame, Teardown, Disconnect
<1>10. CASE UNCHANGED vars
  BY <1>10, <1>d DEF vars, clientVars, serverVars
<1>11. CASE HandlePublish \/ HandleSubscribe \/ HandleUnsubscribe
  BY <1>11, <1>d DEF HandlePublish, HandleSubscribe, HandleUnsubscribe, clientVars
<1>12. CASE WriteAck
  <2>1. s \in open /\ UNCHANGED <<queue, spawned, read, forwarded>>
    BY <1>12 DEF WriteAck, clientVars
  <2>2. session \in [call : Calls, result : {"ok", "error"}]
    BY <1>a, <1>12 DEF WriteAck, TypeOK
  <2>3. Ack(session.call, session.result) \in Acks \cup MessageFrames
        /\ Ack(session.call, session.result).kind = "ack"
    BY <2>2 DEF Ack, Acks
  <2>4. Bodies(s)' = Bodies(s) /\ Apart(s)' /\ Taken(s)' = Taken(s)
    BY <1>a, <1>c, <1>12, <2>1, <2>3, FrameWritten DEF WriteAck, Taken
  <2>5. QED
    BY <1>c, <2>1, <2>4, FlowFrame
<1>13. QED
  BY <1>1, <1>2, <1>3, <1>4, <1>5, <1>6, <1>7, <1>8, <1>9, <1>10, <1>11, <1>12 DEF Next

-----------------------------------------------------------------------------
(* The theorems *)

LEMMA NextWireInv == WireInv /\ [Next]_vars => WireInv'
<1> SUFFICES ASSUME WireInv, [Next]_vars
             PROVE  WireInv'
  OBVIOUS
<1>1. TypeOK'
  BY NextTypeOK DEF WireInv
<1>2. Severed' /\ Awaited' /\ AcksAreTrue' /\ NoOrphans'
  BY NextSevered, NextAwaited, NextAcksAreTrue, NextNoOrphans
<1>3. \A c \in Calls : Fresh(c)'
  BY NextFresh
<1>4. \A s \in Subs : Underway(s)' /\ (Answered(s, "error")' => s \notin forwarders') /\ Flows(s)'
  BY NextUnderway, NextRefused, NextFlows
<1>5. QED
  BY <1>1, <1>2, <1>3, <1>4 DEF WireInv

LEMMA WireInvHolds == Spec => []WireInv
  BY InitWireInv, NextWireInv, PTL DEF Spec

\* For every number of calls and messages and every capacity of the channels: what
\* the server writes for an open stream is read, waits in the channel, waits for room
\* in it or is on its way, each message in one of these places and once
\* (forward_message).
THEOREM WireLosesNothing == Spec => []NothingLost
<1>1. WireInv => NothingLost
  BY DEF WireInv, Flows, NothingLost, TypeOK
<1>2. QED
  BY <1>1, WireInvHolds, PTL

\* A publish whose caller is told Ok has been accepted by the bus, whatever becomes of
\* the connection (publish, teardown).
THEOREM AcksTellTheTruth == Spec => []OkWasAccepted
<1>1. WireInv => OkWasAccepted
  BY DEF WireInv, AcksAreTrue, OkWasAccepted
<1>2. QED
  BY <1>1, WireInvHolds, PTL

\* While the client reads, the server forwards to open streams, to those whose
\* unsubscribe is on its way and to the subscribes that timed out
\* (cleanup_subscription, SubscribeAck).  Once a frame was refused the others are
\* forwarded to as well: without ~torn the formula is false.
THEOREM ForwardedAreWanted == Spec => []NoOrphans
<1>1. WireInv => NoOrphans
  BY DEF WireInv
<1>2. QED
  BY <1>1, WireInvHolds, PTL
=============================================================================
