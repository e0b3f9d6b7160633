--------------------------- MODULE ExecutorProofs ---------------------------
(***************************************************************************)
(* What an attempt of a node leaves behind, for every set of calls, number *)
(* of attempts and configuration: nothing is sent that was not approved,   *)
(* nothing is sent twice, and success is reported of what was sent.        *)
(***************************************************************************)
EXTENDS Executor, TLAPS

Early == {"ensure", "spawn", "subscribe", "publish"}
CallerPlaces == Early \cup {"idle", "retry", "wait", "done"}
Unsent == {"start", "confirm", "bundle", "spawn", "poll", "native", "record"}
Working == Unsent \cup {"completed", "failed"}
Places == Working \cup {"next", "dead"}
Results == {"none", "timeout", "completed", "failed"}
Decisions == {"none", "approved", "rejected", "error"}

\* Sequences are kept apart from their definition: few steps look into them.
Topics == Invocations \cup {NoTopic}
Queues == Seq(Invocations)
Replies == Seq({"completed", "failed"})
Tasks == [agent : Agents, at : Places, job : Topics, queue : Queues]
TaskLists == Seq(Tasks)
Callers == [at : CallerPlaces, attempt : 0..MaxAttempts, result : Results]
Inboxes == [topic : Topics, got : Replies]

TypeInv ==
    /\ config \in Configs /\ agent \in [Calls -> Agents] /\ reviewed \in [Calls -> BOOLEAN]
    /\ caller \in [Calls -> Callers]
    /\ inbox \in [Calls -> Inboxes]
    /\ lock \in Calls \cup {None}
    /\ workers \subseteq Agents
    /\ tasks \in TaskLists
    /\ decision \in [Invocations -> Decisions]
    /\ sent \in [Invocations -> {0, 1}]

\* A caller counts its attempts, and holds the lock where it starts a worker.
CallerOK(c) ==
    /\ caller[c].at = "idle" <=> caller[c].attempt = 0
    /\ caller[c].at = "retry" => caller[c].attempt < MaxAttempts
    /\ caller[c].at = "spawn" => lock = c /\ agent[c] \notin workers
    /\ caller[c].at \in Early => ~Local

\* What a caller is told of an attempt is true of it.
ReplyOK(c) ==
    /\ caller[c].at \in {"publish", "wait"} => inbox[c].topic = This(c)
    /\ \A n \in DOMAIN inbox[c].got :
          inbox[c].got[n] = "completed" =>
            /\ inbox[c].topic \in Invocations
            /\ agent[inbox[c].topic.call] \in Recorded => sent[inbox[c].topic] = 1
    /\ caller[c].at = "done" /\ caller[c].result = "completed" /\ agent[c] \in Recorded
         => sent[This(c)] = 1

\* In the daemon an agent has one worker.
Live(k) == tasks[k].at # "dead"
WorkersInv ==
    ~Local => /\ \A k \in DOMAIN tasks : Live(k) => tasks[k].agent \in workers
              /\ \A k, l \in DOMAIN tasks : Live(k) /\ Live(l) /\ tasks[k].agent = tasks[l].agent => k = l

\* An invocation is held once, by a task of its agent, and only after it was published.
Published(i) ==
    \/ i.attempt < caller[i.call].attempt
    \/ i.attempt = caller[i.call].attempt /\ caller[i.call].at \notin Early
Queued(k, i) == \E n \in DOMAIN tasks[k].queue : tasks[k].queue[n] = i
Has(k, i) == tasks[k].job = i \/ Queued(k, i)

HeldInv ==
    \A i \in Invocations :
      /\ \A k \in DOMAIN tasks : Has(k, i) => Published(i) /\ tasks[k].agent = agent[i.call]
      /\ \A k, l \in DOMAIN tasks : Has(k, i) /\ Has(l, i) => k = l
      /\ \A k \in DOMAIN tasks : Queued(k, i) => tasks[k].job # i /\ sent[i] = 0
      /\ ~Published(i) => sent[i] = 0
QueueInv ==
    \A k \in DOMAIN tasks : \A m, n \in DOMAIN tasks[k].queue :
        tasks[k].queue[m] = tasks[k].queue[n] => m = n

\* What is known of an invocation where its task stands: place, agent, invocation,
\* what it has sent and the decision on it.
Fits(place, a, i, s, d) ==
    /\ place \in Unsent => s = 0
    /\ a = "mailer" /\ config.confirm =>
         /\ place = "bundle" => d \in {"approved", "rejected"}
         /\ place \in {"spawn", "poll", "record"} => d = "approved"
    /\ a = "mailer" /\ place = "record" => reviewed[i.call]
    /\ a \in Recorded /\ place = "completed" => s = 1

JobOK(k) ==
    tasks[k].at \in Working =>
      /\ tasks[k].job \in Invocations
      /\ Fits(tasks[k].at, tasks[k].agent, tasks[k].job, sent[tasks[k].job], decision[tasks[k].job])

ExecInv ==
    /\ TypeInv
    /\ \A c \in Calls : CallerOK(c) /\ ReplyOK(c)
    /\ WorkersInv /\ HeldInv /\ QueueInv
    /\ \A k \in DOMAIN tasks : JobOK(k)
    /\ ApprovedSends

-----------------------------------------------------------------------------
(* Sequences and invocations *)

LEMMA TaskFacts ==
    ASSUME NEW k \in DOMAIN tasks, TypeInv
    PROVE  /\ tasks[k] \in Tasks
           /\ tasks[k] = [agent |-> tasks[k].agent, at |-> tasks[k].at,
                          job |-> tasks[k].job, queue |-> tasks[k].queue]
           /\ tasks[k].agent \in Agents /\ tasks[k].at \in Places
           /\ tasks[k].job \in Topics /\ tasks[k].queue \in Queues
  <1>1. tasks[k] \in Tasks
    BY DEF TypeInv, TaskLists
  <1> QED
    BY <1>1 DEF Tasks

LEMMA OneTaskChanges ==
    ASSUME TypeInv, NEW k \in DOMAIN tasks, NEW t \in Tasks,
           tasks' = [tasks EXCEPT ![k] = t]
    PROVE  /\ tasks' \in TaskLists /\ DOMAIN tasks' = DOMAIN tasks
           /\ tasks'[k] = t /\ \A l \in DOMAIN tasks \ {k} : tasks'[l] = tasks[l]
  BY DEF TypeInv, TaskLists

LEMMA TaskComes ==
    ASSUME TypeInv, NEW t \in Tasks, tasks' = Append(tasks, t)
    PROVE  /\ tasks' \in TaskLists
           /\ Len(tasks) + 1 \notin DOMAIN tasks
           /\ DOMAIN tasks' = DOMAIN tasks \cup {Len(tasks) + 1}
           /\ tasks'[Len(tasks) + 1] = t /\ \A l \in DOMAIN tasks : tasks'[l] = tasks[l]
  BY DEF TypeInv, TaskLists

\* Tasks change where they stand.
LEMMA TasksChange ==
    ASSUME TypeInv, tasks' = [k \in DOMAIN tasks |-> tasks'[k]],
           \A k \in DOMAIN tasks : tasks'[k] \in Tasks
    PROVE  tasks' \in TaskLists /\ DOMAIN tasks' = DOMAIN tasks
  <1>1. DOMAIN tasks = 1..Len(tasks) /\ Len(tasks) \in Nat
    BY DEF TypeInv, TaskLists
  <1>2. tasks' \in [1..Len(tasks) -> Tasks]
    BY <1>1
  <1> QED
    BY <1>1, <1>2 DEF TaskLists

LEMMA QueueFacts ==
    ASSUME NEW q \in Queues, NEW i \in Invocations
    PROVE  /\ Append(q, i) \in Queues
           /\ DOMAIN Append(q, i) = DOMAIN q \cup {Len(q) + 1} /\ Len(q) + 1 \notin DOMAIN q
           /\ Append(q, i)[Len(q) + 1] = i /\ \A n \in DOMAIN q : Append(q, i)[n] = q[n]
           /\ <<>> \in Queues /\ DOMAIN <<>> = {}
           /\ q # <<>> => /\ Tail(q) \in Queues /\ 1 \in DOMAIN q /\ Head(q) = q[1]
                          /\ \A n \in DOMAIN Tail(q) : n \in Int /\ n + 1 \in DOMAIN q
                                                       /\ n + 1 # 1 /\ Tail(q)[n] = q[n + 1]
           /\ \A n \in DOMAIN q : q[n] \in Invocations
  BY DEF Queues

LEMMA ReplyFacts ==
    ASSUME NEW r \in Replies, NEW a \in {"completed", "failed"}
    PROVE  /\ Append(r, a) \in Replies
           /\ DOMAIN Append(r, a) = DOMAIN r \cup {Len(r) + 1} /\ Len(r) + 1 \notin DOMAIN r
           /\ Append(r, a)[Len(r) + 1] = a /\ \A n \in DOMAIN r : Append(r, a)[n] = r[n]
           /\ <<>> \in Replies /\ DOMAIN <<>> = {}
           /\ r # <<>> => 1 \in DOMAIN r /\ Head(r) = r[1] /\ Head(r) \in {"completed", "failed"}
  BY DEF Replies

LEMMA ThisIsOne ==
    ASSUME TypeInv, NEW c \in Calls
    PROVE  /\ NoTopic \notin Invocations
           /\ caller[c].attempt \in 1..MaxAttempts => This(c) \in Invocations
           /\ This(c).call = c /\ This(c).attempt = caller[c].attempt
  BY ExecutorAssumption DEF Invocations, NoTopic, This

-----------------------------------------------------------------------------
LEMMA InitHolds == Init => ExecInv
  <1> SUFFICES ASSUME Init PROVE ExecInv
    OBVIOUS
  <1>1. MaxAttempts \in Nat \ {0}
    BY ExecutorAssumption
  <1>2. \A c \in Calls : /\ caller[c] = [at |-> "idle", attempt |-> 0, result |-> "none"]
                         /\ inbox[c] = [topic |-> NoTopic, got |-> <<>>]
    BY DEF Init
  <1>3. /\ tasks = <<>> /\ DOMAIN tasks = {} /\ <<>> \in Replies /\ DOMAIN <<>> = {}
        /\ <<>> \in TaskLists
    BY DEF Init, Replies, TaskLists
  <1>4. TypeInv
    <2>1. caller \in [Calls -> Callers]
      BY <1>1 DEF Init, Callers, CallerPlaces, Results
    <2>2. inbox \in [Calls -> Inboxes]
      <3>1. NoTopic \in Topics
        BY DEF Topics
      <3> QED
        BY <1>3, <3>1 DEF Init, Inboxes
    <2>3. /\ decision \in [Invocations -> Decisions] /\ sent \in [Invocations -> {0, 1}]
          /\ config \in Configs /\ agent \in [Calls -> Agents] /\ reviewed \in [Calls -> BOOLEAN]
          /\ lock \in Calls \cup {None} /\ workers \subseteq Agents
      BY DEF Init, Decisions
    <2> QED
      BY <1>3, <2>1, <2>2, <2>3 DEF TypeInv
  <1>5. \A i \in Invocations : sent[i] = 0
    BY DEF Init
  <1>6. \A c \in Calls : CallerOK(c) /\ ReplyOK(c)
    BY <1>2, <1>3 DEF CallerOK, ReplyOK, Early
  <1>7. WorkersInv /\ HeldInv /\ QueueInv /\ \A k \in DOMAIN tasks : JobOK(k)
    BY <1>3, <1>5 DEF WorkersInv, HeldInv, QueueInv
  <1>8. ApprovedSends
    BY <1>5 DEF ApprovedSends
  <1> QED
    BY <1>4, <1>6, <1>7, <1>8 DEF ExecInv

-----------------------------------------------------------------------------
(* What does not change *)

\* No task and nothing sent changes, and what was published stays so.
LEMMA TasksStay ==
    ASSUME ExecInv, UNCHANGED <<nodeVars, tasks, sent, decision>>,
           \A i \in Invocations : Published(i) => Published(i)'
    PROVE  /\ HeldInv' /\ QueueInv' /\ (\A k \in DOMAIN tasks : JobOK(k))' /\ ApprovedSends'
           /\ workers \subseteq workers' => WorkersInv'
  <1>1. HeldInv'
    BY DEF ExecInv, HeldInv, Has, Queued, nodeVars
  <1>2. QueueInv'
    BY DEF ExecInv, QueueInv
  <1>3. (\A k \in DOMAIN tasks : JobOK(k))'
    BY DEF ExecInv, JobOK, Fits, nodeVars
  <1>4. ApprovedSends'
    BY DEF ExecInv, ApprovedSends, nodeVars
  <1>5. ASSUME workers \subseteq workers'
        PROVE  WorkersInv'
    BY <1>5 DEF ExecInv, WorkersInv, Live, Local, nodeVars
  <1> QED
    BY <1>1, <1>2, <1>3, <1>4, <1>5

\* A caller that moves on leaves what was published before it published.
LEMMA PublishedStays ==
    ASSUME TypeInv, NEW c \in Calls, \A d \in Calls : d # c => caller'[d] = caller[d],
           \/ /\ caller'[c].attempt = caller[c].attempt
              /\ caller[c].at \in Early \/ caller'[c].at \notin Early
           \/ caller'[c].attempt = caller[c].attempt + 1
    PROVE  \A i \in Invocations : Published(i) => Published(i)'
  <1>1. \A d \in Calls : caller[d].attempt \in Nat /\ (d # c => caller'[d] = caller[d])
    BY ExecutorAssumption DEF TypeInv, Callers
  <1>2. \A i \in Invocations : i.call \in Calls /\ i.attempt \in Nat
    BY ExecutorAssumption DEF Invocations
  <1> QED
    BY <1>1, <1>2 DEF Published

LEMMA SameCallers ==
    ASSUME UNCHANGED caller
    PROVE  /\ \A i \in Invocations : Published(i) => Published(i)'
           /\ \A i \in Invocations : Published(i)' => Published(i)
  BY DEF Published

LEMMA CallerFacts ==
    ASSUME TypeInv, NEW c \in Calls
    PROVE  /\ DOMAIN caller = Calls /\ DOMAIN inbox = Calls
           /\ caller[c] = [at |-> caller[c].at, attempt |-> caller[c].attempt, result |-> caller[c].result]
           /\ caller[c].at \in CallerPlaces /\ caller[c].attempt \in 0..MaxAttempts
           /\ caller[c].result \in Results
           /\ inbox[c] = [topic |-> inbox[c].topic, got |-> inbox[c].got]
           /\ inbox[c].topic \in Topics /\ inbox[c].got \in Replies
  BY DEF TypeInv, Callers, Inboxes

\* A record of a caller, or of its subscription, is replaced.
OnlyCaller(c, r) ==
    /\ caller' = [d \in Calls |-> caller'[d]]
    /\ caller'[c] = r /\ \A d \in Calls : d # c => caller'[d] = caller[d]

OnlyInbox(c, b) ==
    /\ inbox' = [d \in Calls |-> inbox'[d]]
    /\ inbox'[c] = b /\ \A d \in Calls : d # c => inbox'[d] = inbox[d]

LEMMA CallerChanges ==
    ASSUME TypeInv, NEW c \in Calls, NEW r \in Callers, OnlyCaller(c, r)
    PROVE  caller' \in [Calls -> Callers]
  BY DEF TypeInv, OnlyCaller

LEMMA InboxChanges ==
    ASSUME TypeInv, NEW c \in Calls, NEW b \in Inboxes, OnlyInbox(c, b)
    PROVE  inbox' \in [Calls -> Inboxes]
  BY DEF TypeInv, OnlyInbox

LEMMA CallerMoves ==
    ASSUME TypeInv, NEW c \in Calls
    PROVE  /\ \A pos : Goto(c, pos) => OnlyCaller(c, [at |-> pos, attempt |-> caller[c].attempt,
                                                    result |-> caller[c].result])
           /\ \A pos, result :
                caller' = [caller EXCEPT ![c].at = pos, ![c].result = result]
                  => OnlyCaller(c, [at |-> pos, attempt |-> caller[c].attempt, result |-> result])
           /\ \A pos, n :
                caller' = [caller EXCEPT ![c].attempt = n, ![c].at = pos]
                  => OnlyCaller(c, [at |-> pos, attempt |-> n, result |-> caller[c].result])
           /\ \A b : inbox' = [inbox EXCEPT ![c] = b] => OnlyInbox(c, b)
  <1>1. /\ DOMAIN caller = Calls /\ DOMAIN inbox = Calls
        /\ caller[c] = [at |-> caller[c].at, attempt |-> caller[c].attempt, result |-> caller[c].result]
    BY CallerFacts
  <1>2. ASSUME NEW pos, Goto(c, pos)
        PROVE  OnlyCaller(c, [at |-> pos, attempt |-> caller[c].attempt, result |-> caller[c].result])
    BY <1>1, <1>2 DEF Goto, OnlyCaller
  <1>3. ASSUME NEW pos, NEW result, caller' = [caller EXCEPT ![c].at = pos, ![c].result = result]
        PROVE  OnlyCaller(c, [at |-> pos, attempt |-> caller[c].attempt, result |-> result])
    BY <1>1, <1>3 DEF OnlyCaller
  <1>4. ASSUME NEW pos, NEW n, caller' = [caller EXCEPT ![c].attempt = n, ![c].at = pos]
        PROVE  OnlyCaller(c, [at |-> pos, attempt |-> n, result |-> caller[c].result])
    BY <1>1, <1>4 DEF OnlyCaller
  <1>5. ASSUME NEW b, inbox' = [inbox EXCEPT ![c] = b]
        PROVE  OnlyInbox(c, b)
    BY <1>1, <1>5 DEF OnlyInbox
  <1> QED
    BY <1>2, <1>3, <1>4, <1>5

\* What is known of the callers that do not move.
LEMMA OthersStay ==
    ASSUME ExecInv, NEW d \in Calls, UNCHANGED <<nodeVars, sent>>,
           caller'[d] = caller[d], inbox'[d] = inbox[d]
    PROVE  /\ ReplyOK(d)'
           /\ (caller[d].at = "spawn" => lock' = d /\ agent[d] \notin workers') => CallerOK(d)'
  BY DEF ExecInv, CallerOK, ReplyOK, This, nodeVars, Local

-----------------------------------------------------------------------------
(* The steps of a caller that touch no task *)

LEMMA EnsureKeeps ==
    ASSUME ExecInv, NEW c \in Calls, EnsureWorker(c)
    PROVE  ExecInv'
  <1> DEFINE pos == IF agent[c] \in workers THEN "subscribe" ELSE "spawn"
             r == [at |-> pos, attempt |-> caller[c].attempt, result |-> caller[c].result]
  <1>1. TypeInv /\ caller[c].at = "ensure" /\ lock = None
    BY DEF ExecInv, EnsureWorker, At
  <1>2. r \in Callers
    BY <1>1, CallerFacts DEF Callers, CallerPlaces, Early
  <1>3. OnlyCaller(c, r)
    BY <1>1, CallerMoves DEF EnsureWorker
  <1>4. /\ caller' \in [Calls -> Callers] /\ caller'[c] = r
        /\ \A d \in Calls : d # c => caller'[d] = caller[d]
    BY <1>1, <1>2, <1>3, CallerChanges DEF OnlyCaller
  <1>5. \A i \in Invocations : Published(i) => Published(i)'
    BY <1>1, <1>4, PublishedStays DEF Early
  <1>6. HeldInv' /\ QueueInv' /\ (\A k \in DOMAIN tasks : JobOK(k))' /\ ApprovedSends' /\ WorkersInv'
    BY <1>5, TasksStay DEF EnsureWorker, effects
  <1>7. TypeInv'
    BY <1>1, <1>4 DEF EnsureWorker, effects, nodeVars, TypeInv
  <1>8. CallerOK(c)' /\ ReplyOK(c)'
    BY <1>1, <1>4 DEF ExecInv, EnsureWorker, effects, nodeVars, CallerOK, ReplyOK, Early, Local
  <1>9. ASSUME NEW d \in Calls, d # c
        PROVE  CallerOK(d)' /\ ReplyOK(d)'
    <2>1. caller[d].at # "spawn"
      BY <1>1, ExecutorAssumption DEF ExecInv, CallerOK
    <2> QED
      BY <1>4, <1>9, <2>1, OthersStay DEF EnsureWorker, effects
  <1> QED
    BY <1>6, <1>7, <1>8, <1>9 DEF ExecInv

LEMMA SubscribeKeeps ==
    ASSUME ExecInv, NEW c \in Calls, SubscribeReply(c)
    PROVE  ExecInv'
  <1> DEFINE r == [at |-> "publish", attempt |-> caller[c].attempt, result |-> caller[c].result]
             b == [topic |-> This(c), got |-> <<>>]
  <1>1. TypeInv /\ caller[c].at = "subscribe"
    BY DEF ExecInv, SubscribeReply, At
  <1>2. r \in Callers
    BY <1>1, CallerFacts DEF Callers, CallerPlaces, Early
  <1>3. b \in Inboxes
    <2>1. caller[c].attempt \in 1..MaxAttempts
      <3>1. caller[c].attempt \in 0..MaxAttempts /\ caller[c].attempt # 0
        BY <1>1, CallerFacts DEF ExecInv, CallerOK
      <3> QED
        BY <3>1, ExecutorAssumption
    <2>2. This(c) \in Topics
      BY <1>1, <2>1, ThisIsOne DEF Topics
    <2> QED
      BY <2>2 DEF Inboxes, Replies
  <1>4. OnlyCaller(c, r) /\ OnlyInbox(c, b)
    BY <1>1, CallerMoves DEF SubscribeReply, ReplyTopic
  <1>5. /\ caller' \in [Calls -> Callers] /\ caller'[c] = r
        /\ \A d \in Calls : d # c => caller'[d] = caller[d]
    BY <1>1, <1>2, <1>4, CallerChanges DEF OnlyCaller
  <1>6. /\ inbox' \in [Calls -> Inboxes] /\ inbox'[c] = b
        /\ \A d \in Calls : d # c => inbox'[d] = inbox[d]
    BY <1>1, <1>3, <1>4, InboxChanges DEF OnlyInbox
  <1>7. \A i \in Invocations : Published(i) => Published(i)'
    BY <1>1, <1>5, PublishedStays DEF Early
  <1>8. HeldInv' /\ QueueInv' /\ (\A k \in DOMAIN tasks : JobOK(k))' /\ ApprovedSends' /\ WorkersInv'
    BY <1>7, TasksStay DEF SubscribeReply, effects
  <1>9. TypeInv'
    BY <1>1, <1>5, <1>6 DEF SubscribeReply, effects, nodeVars, TypeInv
  <1>10. CallerOK(c)'
    BY <1>1, <1>5 DEF ExecInv, SubscribeReply, effects, nodeVars, CallerOK, Early, Local
  <1>11. ReplyOK(c)'
    <2>1. This(c)' = This(c) /\ DOMAIN <<>> = {}
      BY <1>5 DEF This
    <2> QED
      BY <1>5, <1>6, <2>1 DEF ReplyOK
  <1>12. ASSUME NEW d \in Calls, d # c
         PROVE  CallerOK(d)' /\ ReplyOK(d)'
    BY <1>5, <1>6, <1>12, OthersStay DEF SubscribeReply, effects, ExecInv, CallerOK
  <1> QED
    BY <1>8, <1>9, <1>10, <1>11, <1>12 DEF ExecInv

LEMMA TakeReplyKeeps ==
    ASSUME ExecInv, NEW c \in Calls, TakeReply(c)
    PROVE  ExecInv'
  <1> DEFINE got == Head(inbox[c].got)
             r == [at |-> "done", attempt |-> caller[c].attempt, result |-> got]
             b == [topic |-> NoTopic, got |-> <<>>]
  <1>1. TypeInv /\ caller[c].at = "wait" /\ inbox[c].got # <<>>
    BY DEF ExecInv, TakeReply, At
  <1>2. got = inbox[c].got[1] /\ 1 \in DOMAIN inbox[c].got /\ got \in {"completed", "failed"}
    BY <1>1, CallerFacts, ReplyFacts
  <1>3. r \in Callers
    BY <1>1, <1>2, CallerFacts DEF Callers, CallerPlaces, Results
  <1>4. b \in Inboxes
    BY DEF Inboxes, Replies, Topics
  <1>5. OnlyCaller(c, r) /\ OnlyInbox(c, b)
    BY <1>1, CallerMoves DEF TakeReply
  <1> HIDE DEF got
  <1>6. /\ caller' \in [Calls -> Callers] /\ caller'[c] = r
        /\ \A d \in Calls : d # c => caller'[d] = caller[d]
    BY <1>1, <1>3, <1>5, CallerChanges DEF OnlyCaller
  <1>7. /\ inbox' \in [Calls -> Inboxes] /\ inbox'[c] = b
        /\ \A d \in Calls : d # c => inbox'[d] = inbox[d]
    BY <1>1, <1>4, <1>5, InboxChanges DEF OnlyInbox
  <1>8. \A i \in Invocations : Published(i) => Published(i)'
    BY <1>1, <1>6, PublishedStays DEF Early
  <1>9. HeldInv' /\ QueueInv' /\ (\A k \in DOMAIN tasks : JobOK(k))' /\ ApprovedSends' /\ WorkersInv'
    BY <1>8, TasksStay DEF TakeReply, effects
  <1>10. TypeInv'
    BY <1>1, <1>6, <1>7 DEF TakeReply, effects, nodeVars, TypeInv
  <1>11. CallerOK(c)'
    BY <1>1, <1>6 DEF ExecInv, TakeReply, effects, nodeVars, CallerOK, Early, Local
  <1>12. ReplyOK(c)'
    <2>1. This(c)' = This(c) /\ DOMAIN <<>> = {} /\ This(c).call = c
      BY <1>6 DEF This
    <2>2. got = "completed" /\ agent[c] \in Recorded => sent[This(c)] = 1
      BY <1>1, <1>2, <2>1 DEF ExecInv, ReplyOK
    <2>3. agent' = agent /\ sent' = sent
      BY DEF TakeReply, effects, nodeVars
    <2>4. caller'[c].at = "done" /\ caller'[c].result = got
      BY <1>6
    <2>5. inbox'[c].got = <<>>
      BY <1>7
    <2>6. caller'[c].result = "completed" /\ agent'[c] \in Recorded => sent'[This(c)'] = 1
      BY <2>1, <2>2, <2>3, <2>4
    <2> QED
      BY <2>1, <2>4, <2>5, <2>6 DEF ReplyOK
  <1>13. ASSUME NEW d \in Calls, d # c
         PROVE  CallerOK(d)' /\ ReplyOK(d)'
    BY <1>6, <1>7, <1>13, OthersStay DEF TakeReply, effects, ExecInv, CallerOK
  <1> QED
    BY <1>9, <1>10, <1>11, <1>12, <1>13 DEF ExecInv

-----------------------------------------------------------------------------
(* The steps of a caller that touch the tasks *)

LEMMA SpawnKeeps ==
    ASSUME ExecInv, NEW c \in Calls, SpawnWorker(c)
    PROVE  ExecInv'
  <1> DEFINE r == [at |-> "subscribe", attempt |-> caller[c].attempt, result |-> caller[c].result]
             t == NewTask(agent[c], "next", NoTopic)
  <1>0. PICK new : new = Len(tasks) + 1
    OBVIOUS
  <1>1. /\ TypeInv /\ caller[c].at = "spawn" /\ lock = c /\ agent[c] \notin workers /\ ~Local
        /\ lock' = None /\ None \notin Calls /\ agent[c] \in Agents
    BY ExecutorAssumption DEF ExecInv, SpawnWorker, At, CallerOK, Early, TypeInv
  <1>2. r \in Callers /\ OnlyCaller(c, r)
    BY <1>1, CallerFacts, CallerMoves DEF SpawnWorker, Callers, CallerPlaces, Early
  <1>3. t = [agent |-> agent[c], at |-> "next", job |-> NoTopic, queue |-> <<>>]
        /\ t \in Tasks /\ DOMAIN <<>> = {}
    BY <1>1 DEF NewTask, Tasks, Places, Working, Unsent, Topics, Queues
  <1>4. tasks' = Append(tasks, t)
    BY DEF SpawnWorker
  <1> HIDE DEF t
  <1>5. /\ tasks' \in TaskLists /\ new \notin DOMAIN tasks
        /\ DOMAIN tasks' = DOMAIN tasks \cup {new}
        /\ tasks'[new] = t /\ \A l \in DOMAIN tasks : tasks'[l] = tasks[l]
    BY <1>0, <1>1, <1>3, <1>4, TaskComes
  <1>6. /\ caller' \in [Calls -> Callers] /\ caller'[c] = r
        /\ \A d \in Calls : d # c => caller'[d] = caller[d]
    BY <1>1, <1>2, CallerChanges DEF OnlyCaller
  <1>7. /\ UNCHANGED <<config, agent, reviewed, inbox, decision, sent>>
        /\ workers' = workers \cup {agent[c]}
    BY DEF SpawnWorker, nodeVars, effects
  <1>8. TypeInv'
    BY <1>1, <1>5, <1>6, <1>7 DEF TypeInv
  <1>9. \A i \in Invocations : (Published(i) => Published(i)') /\ (Published(i)' => Published(i))
    <2>1. \A i \in Invocations : Published(i) => Published(i)'
      BY <1>1, <1>6, PublishedStays DEF Early
    <2>2. \A i \in Invocations : i.call \in Calls
      BY DEF Invocations
    <2> QED
      BY <1>1, <1>6, <2>1, <2>2 DEF Published, Early
  <1>10. ASSUME NEW i \in Invocations
         PROVE  /\ ~Has(new, i)'
                /\ \A k \in DOMAIN tasks : (Has(k, i)' <=> Has(k, i)) /\ (Queued(k, i)' <=> Queued(k, i))
    <2>1. i # NoTopic
      BY <1>1, ThisIsOne
    <2>2. tasks'[new].job = NoTopic /\ tasks'[new].queue = <<>>
      BY <1>3, <1>5
    <2>3. ~Has(new, i)'
      BY <1>3, <2>1, <2>2 DEF Has, Queued
    <2>4. ASSUME NEW k \in DOMAIN tasks
          PROVE  (Has(k, i)' <=> Has(k, i)) /\ (Queued(k, i)' <=> Queued(k, i))
      BY <1>5 DEF Has, Queued
    <2> QED
      BY <2>3, <2>4
  <1>11. HeldInv'
    <2> SUFFICES ASSUME NEW i \in Invocations
                 PROVE  /\ \A k \in DOMAIN tasks' : Has(k, i)' => Published(i)' /\ tasks'[k].agent = agent'[i.call]
                        /\ \A k, l \in DOMAIN tasks' : Has(k, i)' /\ Has(l, i)' => k = l
                        /\ \A k \in DOMAIN tasks' : Queued(k, i)' => tasks'[k].job # i /\ sent'[i] = 0
                        /\ ~Published(i)' => sent'[i] = 0
      BY DEF HeldInv
    <2>1. \A k \in DOMAIN tasks' : Has(k, i)' => k \in DOMAIN tasks /\ Has(k, i)
      BY <1>5, <1>10
    <2>2. \A k \in DOMAIN tasks' : Queued(k, i)' => k \in DOMAIN tasks /\ Queued(k, i)
      BY <1>5, <1>10 DEF Has
    <2> QED
      BY <1>5, <1>7, <1>9, <2>1, <2>2 DEF ExecInv, HeldInv
  <1>12. QueueInv'
    BY <1>3, <1>5 DEF ExecInv, QueueInv
  <1>13. WorkersInv'
    BY <1>1, <1>3, <1>5, <1>7 DEF ExecInv, WorkersInv, Live, Local
  <1>14. \A k \in DOMAIN tasks' : JobOK(k)'
    BY <1>3, <1>5, <1>7 DEF ExecInv, JobOK, Fits, Working, Unsent
  <1>15. ApprovedSends'
    BY <1>7 DEF ExecInv, ApprovedSends
  <1>16. CallerOK(c)' /\ ReplyOK(c)'
    BY <1>1, <1>6, <1>7 DEF ExecInv, CallerOK, ReplyOK, Early, Local
  <1>17. ASSUME NEW d \in Calls, d # c
         PROVE  CallerOK(d)' /\ ReplyOK(d)'
    <2>1. caller[d].at # "spawn"
      BY <1>1, <1>17 DEF ExecInv, CallerOK
    <2> QED
      BY <1>6, <1>7, <1>17, <2>1, OthersStay DEF nodeVars
  <1> QED
    BY <1>8, <1>11, <1>12, <1>13, <1>14, <1>15, <1>16, <1>17 DEF ExecInv

-----------------------------------------------------------------------------
(* The steps of the tasks *)

\* Tasks that hold no more than they did, and send only what they work on.
LEMMA HeldNarrows ==
    ASSUME ExecInv, UNCHANGED agent, DOMAIN tasks' = DOMAIN tasks,
           \A i \in Invocations : Published(i) => Published(i)',
           \A k \in DOMAIN tasks : /\ tasks'[k].agent = tasks[k].agent /\ tasks'[k].queue = tasks[k].queue
                                   /\ tasks'[k].job \in {tasks[k].job, NoTopic},
           \A i \in Invocations : sent'[i] = sent[i] \/ \E k \in DOMAIN tasks : tasks[k].job = i
    PROVE  HeldInv' /\ QueueInv'
  <1>1. QueueInv'
    BY DEF ExecInv, QueueInv
  <1>2. ASSUME NEW i \in Invocations
        PROVE  /\ \A k \in DOMAIN tasks' : Has(k, i)' => Published(i)' /\ tasks'[k].agent = agent'[i.call]
               /\ \A k, l \in DOMAIN tasks' : Has(k, i)' /\ Has(l, i)' => k = l
               /\ \A k \in DOMAIN tasks' : Queued(k, i)' => tasks'[k].job # i /\ sent'[i] = 0
               /\ ~Published(i)' => sent'[i] = 0
    <2>1. i # NoTopic
      BY ThisIsOne DEF Invocations, NoTopic, ExecInv, TypeInv
    <2>2. \A k \in DOMAIN tasks : (Has(k, i)' => Has(k, i)) /\ (Queued(k, i)' => Queued(k, i))
      BY <2>1 DEF Has, Queued
    <2>3. \A k \in DOMAIN tasks : /\ Has(k, i) => Published(i) /\ tasks[k].agent = agent[i.call]
                                  /\ Queued(k, i) => tasks[k].job # i /\ sent[i] = 0
      BY DEF ExecInv, HeldInv
    <2>4. \A k, l \in DOMAIN tasks : Has(k, i) /\ Has(l, i) => k = l
      BY DEF ExecInv, HeldInv
    <2>5. ~Published(i) => sent[i] = 0
      BY DEF ExecInv, HeldInv
    <2>6. ASSUME NEW k \in DOMAIN tasks, Queued(k, i)
          PROVE  sent'[i] = 0
      <3>1. CASE \E l \in DOMAIN tasks : tasks[l].job = i
        <4>1. PICK l \in DOMAIN tasks : tasks[l].job = i
          BY <3>1
        <4>2. Has(l, i) /\ Has(k, i)
          BY <2>6, <4>1 DEF Has
        <4>3. l = k
          BY <2>4, <4>2
        <4> QED
          BY <2>3, <2>6, <4>1, <4>3
      <3>2. CASE sent'[i] = sent[i]
        BY <2>3, <2>6, <3>2
      <3> QED
        BY <3>1, <3>2
    <2>7. ASSUME ~Published(i)
          PROVE  sent'[i] = 0
      <3>1. \A l \in DOMAIN tasks : tasks[l].job # i
        BY <2>3, <2>7 DEF Has
      <3> QED
        BY <2>5, <2>7, <3>1
    <2>8. ASSUME NEW k \in DOMAIN tasks, Queued(k, i)
          PROVE  tasks'[k].job # i
      BY <2>1, <2>3, <2>8
    <2>9. \A k \in DOMAIN tasks' : Has(k, i)' => Published(i)' /\ tasks'[k].agent = agent'[i.call]
      BY <2>2, <2>3
    <2>10. \A k, l \in DOMAIN tasks' : Has(k, i)' /\ Has(l, i)' => k = l
      BY <2>2, <2>4
    <2>11. \A k \in DOMAIN tasks' : Queued(k, i)' => tasks'[k].job # i /\ sent'[i] = 0
      BY <2>2, <2>6, <2>8
    <2>12. ~Published(i)' => sent'[i] = 0
      BY <2>7
    <2> QED
      BY <2>9, <2>10, <2>11, <2>12
  <1>3. HeldInv'
    BY <1>2 DEF HeldInv
  <1> QED
    BY <1>1, <1>3

\* What replaces a task where it only moves on.
LEMMA TaskMoves ==
    ASSUME TypeInv, NEW k \in DOMAIN tasks, NEW to \in Places, tasks' = [tasks EXCEPT ![k].at = to]
    PROVE  /\ tasks' \in TaskLists /\ DOMAIN tasks' = DOMAIN tasks
           /\ tasks'[k] = [agent |-> tasks[k].agent, at |-> to, job |-> tasks[k].job, queue |-> tasks[k].queue]
           /\ \A l \in DOMAIN tasks : l # k => tasks'[l] = tasks[l]
  <1> DEFINE t == [agent |-> tasks[k].agent, at |-> to, job |-> tasks[k].job, queue |-> tasks[k].queue]
  <1>1. tasks[k] \in Tasks /\ t \in Tasks
    BY TaskFacts DEF Tasks
  <1>2. [tasks[k] EXCEPT !.at = to] = t
    BY TaskFacts
  <1> HIDE DEF t
  <1>3. tasks' = [tasks EXCEPT ![k] = t]
    BY <1>2
  <1>4. /\ tasks' \in TaskLists /\ DOMAIN tasks' = DOMAIN tasks
        /\ tasks'[k] = t /\ \A l \in DOMAIN tasks \ {k} : tasks'[l] = tasks[l]
    BY <1>1, <1>3, OneTaskChanges
  <1> QED
    BY <1>4 DEF t

\* What a task sends is approved.
Covered(k, s, d) ==
    tasks[k].agent = "mailer" /\ s = 1 /\ (sent[Job(k)] = 0 \/ d # decision[Job(k)]) =>
        reviewed[Job(k).call] /\ (config.confirm => d = "approved")

\* A task at work moves on: its invocation has sent s and the decision on it is d.
LEMMA WorkKeeps ==
    ASSUME ExecInv, NEW k \in DOMAIN tasks, tasks[k].at \in Working,
           NEW to \in Working \cup {"dead"}, tasks' = [tasks EXCEPT ![k].at = to],
           NEW s \in {0, 1}, NEW d \in Decisions,
           sent' = [sent EXCEPT ![Job(k)] = s], decision' = [decision EXCEPT ![Job(k)] = d],
           UNCHANGED <<nodeVars, callVars, workers>>,
           sent[Job(k)] = 1 => s = 1,
           to # "dead" => Fits(to, tasks[k].agent, Job(k), s, d),
           Covered(k, s, d)
    PROVE  ExecInv'
  <1>j. PICK a, j : a = tasks[k].agent /\ j = Job(k)
    OBVIOUS
  <1>1. /\ TypeInv /\ tasks[k].job = j /\ j \in Invocations /\ to \in Places
        /\ Has(k, j) /\ tasks[k].agent = agent[j.call]
    <2>1. TypeInv /\ j \in Invocations /\ tasks[k].job = j
      BY <1>j DEF ExecInv, JobOK, Job
    <2>2. Has(k, j)
      BY <2>1 DEF Has
    <2>3. tasks[k].agent = agent[j.call]
      BY <2>1, <2>2 DEF ExecInv, HeldInv
    <2> QED
      BY <2>1, <2>2, <2>3 DEF Places
  <1>2. /\ tasks' \in TaskLists /\ DOMAIN tasks' = DOMAIN tasks
        /\ tasks'[k] = [agent |-> tasks[k].agent, at |-> to, job |-> tasks[k].job, queue |-> tasks[k].queue]
        /\ \A l \in DOMAIN tasks : l # k => tasks'[l] = tasks[l]
    BY <1>1, TaskMoves
  <1>3. /\ sent' \in [Invocations -> {0, 1}] /\ decision' \in [Invocations -> Decisions]
        /\ sent'[j] = s /\ decision'[j] = d
        /\ \A i \in Invocations : i # j => sent'[i] = sent[i] /\ decision'[i] = decision[i]
    BY <1>1, <1>j DEF TypeInv
  <1>4. TypeInv'
    BY <1>1, <1>2, <1>3 DEF TypeInv, nodeVars, callVars
  <1>5. \A c \in Calls : CallerOK(c)'
    BY DEF ExecInv, CallerOK, nodeVars, callVars, Local
  <1>6. \A c \in Calls : ReplyOK(c)'
    <2> SUFFICES ASSUME NEW c \in Calls PROVE ReplyOK(c)'
      OBVIOUS
    <2>1. \A i \in Invocations : sent[i] = 1 => sent'[i] = 1
      BY <1>3, <1>j
    <2>2. This(c)' = This(c)
      BY DEF This, callVars
    <2>3. caller[c].at = "done" => This(c) \in Invocations
      <3>1. SUFFICES ASSUME caller[c].at = "done" PROVE This(c) \in Invocations
        OBVIOUS
      <3>2. caller[c].attempt \in 0..MaxAttempts /\ caller[c].attempt # 0
        BY <1>1, <3>1, CallerFacts DEF ExecInv, CallerOK
      <3> QED
        BY <1>1, <3>2, ThisIsOne, ExecutorAssumption
    <2> QED
      BY <2>1, <2>2, <2>3 DEF ExecInv, ReplyOK, nodeVars, callVars
  <1>7. WorkersInv'
    <2>1. /\ \A l \in DOMAIN tasks : tasks'[l].agent = tasks[l].agent /\ (Live(l)' => Live(l))
          /\ DOMAIN tasks' = DOMAIN tasks /\ Local' = Local /\ workers' = workers
      BY <1>2 DEF Live, Local, nodeVars, Working, Unsent
    <2> QED
      BY <2>1 DEF ExecInv, WorkersInv
  <1>8. HeldInv' /\ QueueInv'
    <2>1. \A i \in Invocations : Published(i) => Published(i)'
      BY SameCallers DEF callVars
    <2>2. \A i \in Invocations : sent'[i] = sent[i] \/ \E l \in DOMAIN tasks : tasks[l].job = i
      BY <1>1, <1>3
    <2>3. \A l \in DOMAIN tasks : /\ tasks'[l].agent = tasks[l].agent /\ tasks'[l].queue = tasks[l].queue
                                  /\ tasks'[l].job \in {tasks[l].job, NoTopic}
      BY <1>2
    <2> QED
      BY <1>2, <2>1, <2>2, <2>3, HeldNarrows DEF nodeVars
  <1>9. ASSUME NEW l \in DOMAIN tasks
        PROVE  JobOK(l)'
    <2>1. CASE l = k
      <3>1. to # "dead" => Fits(to, a, j, s, d)
        BY <1>j
      <3>2. to # "dead" => Fits(to, a, j, s, d)'
        BY <3>1 DEF Fits, nodeVars
      <3>3. tasks'[l].at = to /\ tasks'[l].agent = a /\ tasks'[l].job = j
        BY <1>1, <1>2, <2>1, <1>j
      <3>4. tasks'[l].at \in Working => to # "dead"
        BY <3>3 DEF Working, Unsent
      <3> QED
        BY <1>1, <1>3, <3>2, <3>3, <3>4 DEF JobOK, Fits
    <2>2. CASE l # k
      <3>1. tasks'[l] = tasks[l] /\ JobOK(l)
        BY <1>2, <2>2 DEF ExecInv
      <3>2. tasks[l].at \in Working => tasks[l].job \in Invocations /\ tasks[l].job # j
        BY <1>1, <2>2, <3>1 DEF JobOK, ExecInv, HeldInv, Has
      <3>3. PICK p, b, i, u, v : /\ p = tasks[l].at /\ b = tasks[l].agent /\ i = tasks[l].job
                                 /\ u = sent[i] /\ v = decision[i]
        OBVIOUS
      <3>4. p \in Working => /\ i \in Invocations /\ i # j /\ Fits(p, b, i, u, v)
        BY <3>1, <3>2, <3>3 DEF JobOK
      <3>5. p \in Working => Fits(p, b, i, u, v)'
        BY <3>4 DEF Fits, nodeVars
      <3>6. /\ tasks'[l].at = p /\ tasks'[l].agent = b /\ tasks'[l].job = i
            /\ p \in Working => sent'[i] = u /\ decision'[i] = v
        BY <1>3, <3>1, <3>3, <3>4
      <3> QED
        BY <3>4, <3>5, <3>6 DEF JobOK, Fits
    <2> QED
      BY <2>1, <2>2
  <1>10. ApprovedSends'
    <2> SUFFICES ASSUME NEW i \in Invocations, agent[i.call] = "mailer", sent'[i] > 0
                 PROVE  reviewed[i.call] /\ (config.confirm => decision'[i] = "approved")
      BY DEF ApprovedSends, nodeVars
    <2>1. CASE i # j
      BY <1>3, <2>1 DEF ExecInv, ApprovedSends
    <2>2. CASE i = j
      BY <1>1, <1>3, <1>j, <2>2 DEF ExecInv, ApprovedSends, TypeInv, Covered
    <2> QED
      BY <2>1, <2>2
  <1> QED
    BY <1>2, <1>4, <1>5, <1>6, <1>7, <1>8, <1>9, <1>10 DEF ExecInv

LEMMA Known ==
    ASSUME ExecInv, NEW k \in DOMAIN tasks, tasks[k].at \in Working
    PROVE  /\ Job(k) \in Invocations /\ sent[Job(k)] \in {0, 1} /\ decision[Job(k)] \in Decisions
           /\ sent' = sent => sent' = [sent EXCEPT ![Job(k)] = sent[Job(k)]]
           /\ decision' = decision => decision' = [decision EXCEPT ![Job(k)] = decision[Job(k)]]
           /\ Fits(tasks[k].at, tasks[k].agent, Job(k), sent[Job(k)], decision[Job(k)])
  <1>1. /\ Job(k) \in Invocations
        /\ Fits(tasks[k].at, tasks[k].agent, Job(k), sent[Job(k)], decision[Job(k)])
    BY DEF ExecInv, JobOK, Job
  <1>2. sent \in [Invocations -> {0, 1}] /\ decision \in [Invocations -> Decisions]
    BY DEF ExecInv, TypeInv
  <1> QED
    BY <1>1, <1>2

\* A task moves on, and leaves the invocation as it is.
LEMMA MoveKeeps ==
    ASSUME ExecInv, NEW k \in DOMAIN tasks, tasks[k].at \in Working,
           NEW to \in Working \cup {"dead"}, tasks' = [tasks EXCEPT ![k].at = to],
           UNCHANGED <<nodeVars, callVars, workers, sent, decision>>,
           to # "dead" => Fits(to, tasks[k].agent, Job(k), sent[Job(k)], decision[Job(k)])
    PROVE  ExecInv'
  <1>1. PICK s, d : s = sent[Job(k)] /\ d = decision[Job(k)]
    OBVIOUS
  <1>2. /\ s \in {0, 1} /\ d \in Decisions
        /\ sent' = [sent EXCEPT ![Job(k)] = s] /\ decision' = [decision EXCEPT ![Job(k)] = d]
    BY <1>1, Known
  <1>3. to # "dead" => Fits(to, tasks[k].agent, Job(k), s, d)
    BY <1>1
  <1>4. /\ sent[Job(k)] = 1 => s = 1
        /\ Covered(k, s, d)
    BY <1>1 DEF Covered
  <1>5. UNCHANGED <<nodeVars, callVars, workers>>
    OBVIOUS
  <1> QED
    BY <1>2, <1>3, <1>4, <1>5, WorkKeeps, Zenon

\* A task sends what it is to send, and moves on.
LEMMA SendKeeps ==
    ASSUME ExecInv, NEW k \in DOMAIN tasks, tasks[k].at \in Unsent,
           NEW to \in {"completed", "failed"}, tasks' = [tasks EXCEPT ![k].at = to],
           UNCHANGED <<nodeVars, callVars, workers, decision>>,
           sent' = [sent EXCEPT ![Job(k)] = @ + 1],
           tasks[k].agent = "mailer" =>
               reviewed[Job(k).call] /\ (config.confirm => decision[Job(k)] = "approved")
    PROVE  ExecInv'
  <1>1. PICK d : d = decision[Job(k)]
    OBVIOUS
  <1>2. tasks[k].at \in Working /\ to \in Working \cup {"dead"} /\ to \notin Unsent
        /\ to \notin {"bundle", "spawn", "poll", "record"}
    BY DEF Working, Unsent
  <1>3. sent[Job(k)] = 0
    BY <1>2, Known DEF Fits
  <1>4. sent' = [sent EXCEPT ![Job(k)] = 1]
    <2>1. sent[Job(k)] + 1 = 1
      BY <1>3
    <2> QED
      BY <2>1, Zenon
  <1>5. /\ d \in Decisions
        /\ sent' = [sent EXCEPT ![Job(k)] = 1] /\ decision' = [decision EXCEPT ![Job(k)] = d]
    BY <1>1, <1>2, <1>4, Known
  <1>6. Fits(to, tasks[k].agent, Job(k), 1, d)
    BY <1>2 DEF Fits
  <1>7. Covered(k, 1, d)
    BY <1>1 DEF Covered
  <1> QED
    BY <1>2, <1>3, <1>5, <1>6, <1>7, WorkKeeps

LEMMA StartKeeps ==
    ASSUME ExecInv, NEW k \in DOMAIN tasks, Start(k)
    PROVE  ExecInv'
  <1>1. PICK to : /\ to = "failed" \/ to = IF IsMailer(k) /\ config.confirm THEN "confirm" ELSE "bundle"
                  /\ tasks[k].at = "start" /\ tasks' = [tasks EXCEPT ![k].at = to]
    BY DEF Start, Step
  <1>2. /\ tasks[k].at \in Working /\ tasks[k].at \in Unsent /\ to \in Working \cup {"dead"}
        /\ to \notin {"spawn", "poll", "record", "completed"}
        /\ to = "bundle" => ~(IsMailer(k) /\ config.confirm)
    BY <1>1 DEF Working, Unsent
  <1>3. Fits(to, tasks[k].agent, Job(k), sent[Job(k)], decision[Job(k)])
    BY <1>2, Known DEF Fits, IsMailer
  <1> QED
    BY <1>1, <1>2, <1>3, MoveKeeps DEF Start, effects

LEMMA ConfirmKeeps ==
    ASSUME ExecInv, NEW k \in DOMAIN tasks, Confirm(k)
    PROVE  ExecInv'
  <1>1. PICK answer \in config.approves :
          /\ decision' = [decision EXCEPT ![Job(k)] = answer]
          /\ Step(k, "confirm", IF answer = "error" THEN "failed" ELSE "bundle")
    BY DEF Confirm
  <1>2. PICK to : /\ to = IF answer = "error" THEN "failed" ELSE "bundle"
                  /\ tasks[k].at = "confirm" /\ tasks' = [tasks EXCEPT ![k].at = to]
    BY <1>1 DEF Step
  <1>3. /\ tasks[k].at \in Working /\ tasks[k].at \in Unsent /\ to \in Working \cup {"dead"}
        /\ to \notin {"spawn", "poll", "record", "completed"}
    BY <1>2 DEF Working, Unsent
  <1>4. answer \in {"approved", "rejected", "error"} /\ answer \in Decisions
    BY ExecutorAssumption DEF ExecInv, TypeInv, Decisions
  <1>5. PICK s : s = sent[Job(k)]
    OBVIOUS
  <1>6. s = 0 /\ sent' = [sent EXCEPT ![Job(k)] = s]
    BY <1>3, <1>5, Known DEF Fits, Confirm
  <1>7. Fits(to, tasks[k].agent, Job(k), s, answer)
    BY <1>2, <1>3, <1>4, <1>6 DEF Fits
  <1>8. /\ to # "dead" => Fits(to, tasks[k].agent, Job(k), s, answer)
        /\ sent[Job(k)] = 1 => s = 1 /\ s \in {0, 1}
        /\ Covered(k, s, answer)
        /\ UNCHANGED <<nodeVars, callVars, workers>>
    BY <1>5, <1>6, <1>7 DEF Confirm, Covered
  <1> QED
    BY <1>1, <1>2, <1>3, <1>4, <1>6, <1>8, WorkKeeps, Zenon

LEMMA BundleKeeps ==
    ASSUME ExecInv, NEW k \in DOMAIN tasks, WasmBundle(k)
    PROVE  ExecInv'
  <1>1. PICK to : /\ tasks[k].at = "bundle" /\ tasks' = [tasks EXCEPT ![k].at = to]
                  /\ \/ to = IF decision[Job(k)] = "rejected" THEN "failed" ELSE "spawn"
                     \/ to = IF tasks[k].agent \in Native THEN "native" ELSE "failed"
    BY DEF WasmBundle, Step
  <1>2. /\ tasks[k].at \in Working /\ tasks[k].at \in Unsent /\ to \in Working \cup {"dead"}
        /\ to \notin {"bundle", "poll", "record", "completed"}
        /\ to = "spawn" => decision[Job(k)] # "rejected"
    BY <1>1 DEF Working, Unsent
  <1>3. Fits(to, tasks[k].agent, Job(k), sent[Job(k)], decision[Job(k)])
    BY <1>1, <1>2, Known DEF Fits
  <1> QED
    BY <1>1, <1>2, <1>3, MoveKeeps DEF WasmBundle, effects

LEMMA SpawnAgentKeeps ==
    ASSUME ExecInv, NEW k \in DOMAIN tasks, SpawnAgent(k)
    PROVE  ExecInv'
  <1>1. PICK to \in {"poll", "failed", "native"} :
            tasks[k].at = "spawn" /\ tasks' = [tasks EXCEPT ![k].at = to]
    BY Zenon DEF SpawnAgent, Fallback, Step
  <1>2. /\ tasks[k].at \in Working /\ tasks[k].at \in Unsent /\ to \in Working \cup {"dead"}
        /\ to \notin {"bundle", "spawn", "record", "completed"}
    BY <1>1 DEF Working, Unsent
  <1>3. Fits(to, tasks[k].agent, Job(k), sent[Job(k)], decision[Job(k)])
    BY <1>1, <1>2, Known DEF Fits
  <1> QED
    BY <1>1, <1>2, <1>3, MoveKeeps DEF SpawnAgent

LEMMA CollectKeeps ==
    ASSUME ExecInv, NEW k \in DOMAIN tasks, Collect(k)
    PROVE  ExecInv'
  <1>1. PICK to : /\ tasks[k].at = "poll" /\ tasks' = [tasks EXCEPT ![k].at = to]
                  /\ \/ to \in {"failed", "native"}
                     \/ /\ to = IF tasks[k].agent \in Recorded THEN "record" ELSE "completed"
                        /\ IsMailer(k) => reviewed[Job(k).call]
    BY Zenon DEF Collect, Fallback, Step
  <1>2. /\ tasks[k].at \in Working /\ tasks[k].at \in Unsent /\ to \in Working \cup {"dead"}
        /\ to \notin {"bundle", "spawn", "poll"}
        /\ to = "record" => (IsMailer(k) => reviewed[Job(k).call])
        /\ to = "completed" => tasks[k].agent \notin Recorded
    BY <1>1 DEF Working, Unsent
  <1>3. Fits(to, tasks[k].agent, Job(k), sent[Job(k)], decision[Job(k)])
    BY <1>1, <1>2, Known DEF Fits, IsMailer
  <1> QED
    BY <1>1, <1>2, <1>3, MoveKeeps DEF Collect

\* A task fails.
LEMMA FailKeeps ==
    ASSUME ExecInv, NEW k \in DOMAIN tasks, tasks[k].at \in Unsent,
           tasks' = [tasks EXCEPT ![k].at = "failed"],
           UNCHANGED <<nodeVars, callVars, workers, sent, decision>>
    PROVE  ExecInv'
  <1>1. tasks[k].at \in Working /\ "failed" \in Working \cup {"dead"} /\ "failed" \notin Unsent
    BY DEF Working, Unsent
  <1>2. Fits("failed", tasks[k].agent, Job(k), sent[Job(k)], decision[Job(k)])
    BY <1>1, Known DEF Fits
  <1> QED
    BY <1>1, <1>2, MoveKeeps

LEMMA RecordKeeps ==
    ASSUME ExecInv, NEW k \in DOMAIN tasks, Record(k)
    PROVE  ExecInv'
  <1>1. tasks[k].at = "record" /\ tasks[k].at \in Working /\ tasks[k].at \in Unsent
    BY DEF Record, Step, Working, Unsent
  <1>2. tasks[k].agent = "mailer" =>
            reviewed[Job(k).call] /\ (config.confirm => decision[Job(k)] = "approved")
    BY <1>1, Known DEF Fits
  <1>3. CASE Step(k, "record", "completed") /\ sent' = [sent EXCEPT ![Job(k)] = @ + 1]
    BY <1>1, <1>2, <1>3, SendKeeps DEF Record, Step
  <1>4. CASE Step(k, "record", "failed") /\ UNCHANGED sent
    BY <1>1, <1>4, FailKeeps DEF Record, Step
  <1> QED
    BY <1>3, <1>4 DEF Record

LEMMA NativeKeeps ==
    ASSUME ExecInv, NEW k \in DOMAIN tasks, NativeMailer(k) \/ NativeWriter(k)
    PROVE  ExecInv'
  <1>1. tasks[k].at = "native" /\ tasks[k].at \in Working /\ tasks[k].at \in Unsent
    BY DEF NativeMailer, NativeWriter, Step, Working, Unsent
  <1>2. UNCHANGED <<nodeVars, callVars, workers, decision>>
    BY DEF NativeMailer, NativeWriter
  <1>3. CASE Step(k, "native", "failed") /\ UNCHANGED sent
    BY <1>1, <1>2, <1>3, FailKeeps DEF Step
  <1>4. CASE NativeMailer(k) /\ ~(Step(k, "native", "failed") /\ UNCHANGED sent)
    <2>1. /\ reviewed[Job(k).call]
          /\ config.confirm => decision[Job(k)] = "approved"
          /\ \E to \in {"completed", "failed"} : Step(k, "native", to)
          /\ sent' = [sent EXCEPT ![Job(k)] = @ + 1]
      BY <1>4 DEF NativeMailer
    <2> QED
      BY <1>1, <1>2, <2>1, SendKeeps DEF Step
  <1>5. CASE NativeWriter(k) /\ ~(Step(k, "native", "failed") /\ UNCHANGED sent)
    <2>1. /\ tasks[k].agent = "writer"
          /\ \E to \in {"completed", "failed"} : Step(k, "native", to)
          /\ sent' = [sent EXCEPT ![Job(k)] = @ + 1]
      BY <1>5 DEF NativeWriter
    <2> QED
      BY <1>1, <1>2, <2>1, SendKeeps DEF Step
  <1> QED
    BY <1>3, <1>4, <1>5

LEMMA ContextKeeps ==
    ASSUME ExecInv, NEW k \in DOMAIN tasks, NativeContext(k)
    PROVE  ExecInv'
  <1>1. PICK to \in {"completed", "failed", "dead"} :
            tasks[k].at = "native" /\ tasks' = [tasks EXCEPT ![k].at = to]
    BY DEF NativeContext, Step
  <1>2. /\ tasks[k].at \in Working /\ to \in Working \cup {"dead"}
        /\ to \notin Unsent /\ tasks[k].agent \notin Recorded /\ tasks[k].agent # "mailer"
    BY <1>1 DEF NativeContext, Working, Unsent, Recorded
  <1>3. to # "dead" => Fits(to, tasks[k].agent, Job(k), sent[Job(k)], decision[Job(k)])
    BY <1>2 DEF Fits
  <1> QED
    BY <1>1, <1>2, <1>3, MoveKeeps DEF NativeContext, effects

-----------------------------------------------------------------------------
(* Taking an invocation, and answering it *)

LEMMA TakeKeeps ==
    ASSUME ExecInv, NEW k \in DOMAIN tasks, Take(k)
    PROVE  ExecInv'
  <1>1. TypeInv /\ tasks[k].queue # <<>> /\ UNCHANGED <<nodeVars, callVars, workers, sent, decision>>
    BY DEF ExecInv, Take, effects
  <1>2. PICK j, q : j = Head(tasks[k].queue) /\ q = Tail(tasks[k].queue)
    OBVIOUS
  <1>3. /\ j \in Invocations /\ Queued(k, j) /\ sent[j] = 0 /\ q \in Queues
        /\ j = tasks[k].queue[1] /\ 1 \in DOMAIN tasks[k].queue
        /\ \A n \in DOMAIN q : n + 1 \in DOMAIN tasks[k].queue /\ n + 1 # 1 /\ q[n] = tasks[k].queue[n + 1]
    <2>1. tasks[k].queue \in Queues
      BY <1>1, TaskFacts
    <2>2. ASSUME NEW i \in Invocations
          PROVE  /\ q \in Queues /\ 1 \in DOMAIN tasks[k].queue /\ j = tasks[k].queue[1]
                 /\ j \in Invocations
                 /\ \A n \in DOMAIN q : n + 1 \in DOMAIN tasks[k].queue /\ n + 1 # 1
                                        /\ q[n] = tasks[k].queue[n + 1]
      BY <1>1, <1>2, <2>1, QueueFacts
    <2>3. tasks[k].queue[1] \in Invocations
      BY <1>1, <2>1 DEF Queues
    <2>4. Queued(k, j)
      BY <2>2, <2>3 DEF Queued
    <2> QED
      BY <2>2, <2>3, <2>4 DEF ExecInv, HeldInv
  <1> DEFINE t == [agent |-> tasks[k].agent, at |-> "start", job |-> j, queue |-> q]
  <1>4. t \in Tasks
    BY <1>1, <1>3, TaskFacts DEF Tasks, Topics, Places, Working, Unsent
  <1>5. tasks' = [tasks EXCEPT ![k] = t]
    <2>1. tasks[k] = [agent |-> tasks[k].agent, at |-> tasks[k].at,
                      job |-> tasks[k].job, queue |-> tasks[k].queue]
      BY <1>1, TaskFacts
    <2>2. tasks' = [tasks EXCEPT ![k] = [tasks[k] EXCEPT !.at = "start", !.job = j, !.queue = q]]
      BY <1>2 DEF Take
    <2>3. [tasks[k] EXCEPT !.at = "start", !.job = j, !.queue = q] = t
      <3>1. PICK g, p, i, r : tasks[k] = [agent |-> g, at |-> p, job |-> i, queue |-> r]
        BY <2>1
      <3>2. t = [agent |-> g, at |-> "start", job |-> j, queue |-> q]
        BY <3>1
      <3> HIDE DEF t
      <3>3. PICK u : u = [tasks[k] EXCEPT !.at = "start"]
        OBVIOUS
      <3>4. u = [agent |-> g, at |-> "start", job |-> i, queue |-> r]
        BY <3>1, <3>3
      <3>5. PICK v : v = [u EXCEPT !.job = j]
        OBVIOUS
      <3>6. v = [agent |-> g, at |-> "start", job |-> j, queue |-> r]
        BY <3>4, <3>5
      <3>7. [v EXCEPT !.queue = q] = t
        BY <3>2, <3>6
      <3> QED
        BY <3>3, <3>5, <3>7, Zenon
    <2> HIDE DEF t
    <2> QED
      BY <2>2, <2>3, Zenon
  <1> HIDE DEF t
  <1>6. /\ tasks' \in TaskLists /\ DOMAIN tasks' = DOMAIN tasks
        /\ tasks'[k] = t /\ \A l \in DOMAIN tasks : l # k => tasks'[l] = tasks[l]
    BY <1>1, <1>4, <1>5, OneTaskChanges
  <1>7. tasks'[k].agent = tasks[k].agent /\ tasks'[k].at = "start" /\ tasks'[k].job = j /\ tasks'[k].queue = q
    BY <1>6 DEF t
  <1>8. TypeInv'
    BY <1>1, <1>6 DEF TypeInv, nodeVars, callVars
  <1>9. \A c \in Calls : CallerOK(c)' /\ ReplyOK(c)'
    BY <1>1 DEF ExecInv, CallerOK, ReplyOK, This, nodeVars, callVars, Local
  <1>10. ASSUME NEW i \in Invocations
         PROVE  \A l \in DOMAIN tasks : (Has(l, i)' => Has(l, i)) /\ (Queued(l, i)' => Queued(l, i) /\ tasks'[l].job # i)
    <2>1. Queued(k, i)' => Queued(k, i) /\ j # i
      <3> SUFFICES ASSUME NEW n \in DOMAIN q, q[n] = i PROVE Queued(k, i) /\ j # i
        BY <1>7 DEF Queued
      <3> QED
        BY <1>3 DEF Queued, ExecInv, QueueInv
    <2>2. Has(k, i)' => Has(k, i)
      BY <1>3, <1>7, <2>1 DEF Has
    <2>3. ASSUME NEW l \in DOMAIN tasks, l # k
          PROVE  (Has(l, i)' <=> Has(l, i)) /\ (Queued(l, i)' <=> Queued(l, i)) /\ tasks'[l].job = tasks[l].job
      BY <1>6, <2>3 DEF Has, Queued
    <2>4. \A l \in DOMAIN tasks : Queued(l, i) => tasks[l].job # i
      BY DEF ExecInv, HeldInv
    <2> QED
      BY <1>7, <2>1, <2>2, <2>3, <2>4
  <1>11. \A l \in DOMAIN tasks : tasks'[l].agent = tasks[l].agent
    BY <1>6, <1>7
  <1>12. HeldInv'
    <2>1. \A i \in Invocations : Published(i) <=> Published(i)'
      BY <1>1, SameCallers DEF callVars
    <2>2. sent' = sent /\ agent' = agent
      BY <1>1 DEF nodeVars
    <2> QED
      BY <1>6, <1>10, <1>11, <2>1, <2>2 DEF ExecInv, HeldInv
  <1>13. QueueInv'
    <2>1. ASSUME NEW m \in DOMAIN q, NEW n \in DOMAIN q, q[m] = q[n]
          PROVE  m = n
      <3>1. m \in Int /\ n \in Int
        BY <1>3 DEF Queues
      <3>2. m + 1 = n + 1
        BY <1>3, <2>1 DEF ExecInv, QueueInv
      <3> QED
        BY <3>1, <3>2
    <2> QED
      BY <1>6, <1>7, <2>1 DEF ExecInv, QueueInv
  <1>14. WorkersInv'
    <2>1. tasks[k].at = "next"
      BY DEF Take
    <2>2. \A l \in DOMAIN tasks : Live(l)' <=> Live(l)
      BY <1>6, <1>7, <2>1 DEF Live
    <2> QED
      BY <1>1, <1>6, <1>11, <2>2 DEF ExecInv, WorkersInv, Local, nodeVars
  <1>15. ASSUME NEW l \in DOMAIN tasks
         PROVE  JobOK(l)'
    <2>1. CASE l = k
      BY <1>1, <1>3, <1>7, <2>1 DEF JobOK, Fits
    <2>2. CASE l # k
      BY <1>1, <1>6, <2>2 DEF ExecInv, JobOK, Fits, nodeVars
    <2> QED
      BY <2>1, <2>2
  <1>16. ApprovedSends'
    BY <1>1 DEF ExecInv, ApprovedSends, nodeVars
  <1> QED
    BY <1>6, <1>8, <1>9, <1>12, <1>13, <1>14, <1>15, <1>16 DEF ExecInv

LEMMA AnswerKeeps ==
    ASSUME ExecInv, NEW k \in DOMAIN tasks, Answer(k)
    PROVE  ExecInv'
  <1>1. /\ TypeInv /\ UNCHANGED <<nodeVars, caller, lock, workers, sent, decision>>
        /\ tasks[k].at \in {"completed", "failed"} /\ tasks[k].at \in Working
    BY DEF ExecInv, Answer, effects, Working
  <1>2. PICK a, j, to : a = tasks[k].at /\ j = Job(k) /\ to = IF Local THEN "dead" ELSE "next"
    OBVIOUS
  <1>3. /\ a \in {"completed", "failed"} /\ j \in Invocations /\ tasks[k].job = j
        /\ a = "completed" /\ agent[j.call] \in Recorded => sent[j] = 1
    <2>1. j \in Invocations /\ tasks[k].job = j
      BY <1>1, <1>2, Known DEF Job
    <2>2. tasks[k].agent = agent[j.call]
      BY <2>1 DEF ExecInv, HeldInv, Has
    <2>3. a = "completed" /\ tasks[k].agent \in Recorded => sent[j] = 1
      BY <1>1, <1>2, Known DEF Fits
    <2> QED
      BY <1>1, <1>2, <2>1, <2>2, <2>3
  <1> DEFINE t == [agent |-> tasks[k].agent, at |-> to, job |-> NoTopic, queue |-> tasks[k].queue]
  <1>4. t \in Tasks
    BY <1>1, <1>2, TaskFacts DEF Tasks, Topics, Places
  <1>5. tasks' = [tasks EXCEPT ![k] = t]
    <2>1. tasks[k] = [agent |-> tasks[k].agent, at |-> tasks[k].at,
                      job |-> tasks[k].job, queue |-> tasks[k].queue]
      BY <1>1, TaskFacts
    <2>2. tasks' = [tasks EXCEPT ![k] = [tasks[k] EXCEPT !.at = to, !.job = NoTopic]]
      BY <1>2 DEF Answer
    <2>3. [tasks[k] EXCEPT !.at = to, !.job = NoTopic] = t
      <3>1. PICK g, p, i, r : tasks[k] = [agent |-> g, at |-> p, job |-> i, queue |-> r]
        BY <2>1
      <3>2. t = [agent |-> g, at |-> to, job |-> NoTopic, queue |-> r]
        BY <3>1
      <3> HIDE DEF t
      <3>3. PICK u : u = [tasks[k] EXCEPT !.at = to]
        OBVIOUS
      <3>4. u = [agent |-> g, at |-> to, job |-> i, queue |-> r]
        BY <3>1, <3>3
      <3>5. [u EXCEPT !.job = NoTopic] = t
        BY <3>2, <3>4
      <3> QED
        BY <3>3, <3>5, Zenon
    <2> HIDE DEF t
    <2> QED
      BY <2>2, <2>3, Zenon
  <1> HIDE DEF t
  <1>6. /\ tasks' \in TaskLists /\ DOMAIN tasks' = DOMAIN tasks
        /\ tasks'[k] = t /\ \A l \in DOMAIN tasks : l # k => tasks'[l] = tasks[l]
    BY <1>1, <1>4, <1>5, OneTaskChanges
  <1>7. /\ tasks'[k].agent = tasks[k].agent /\ tasks'[k].at = to /\ to \in {"dead", "next"}
        /\ tasks'[k].job = NoTopic /\ tasks'[k].queue = tasks[k].queue
    BY <1>2, <1>6 DEF t
  <1>8. ASSUME NEW c \in Calls
        PROVE  /\ inbox[c].topic # j => inbox'[c] = inbox[c]
               /\ inbox[c].topic = j => inbox'[c] = [topic |-> j, got |-> Append(inbox[c].got, a)]
    <2>1. inbox[c] = [topic |-> inbox[c].topic, got |-> inbox[c].got]
      BY <1>1, CallerFacts
    <2>2. inbox'[c] = IF inbox[c].topic = j THEN [inbox[c] EXCEPT !.got = Append(@, a)] ELSE inbox[c]
      BY <1>2 DEF Answer, ReplyTopic
    <2> QED
      BY <2>1, <2>2
  <1>9. inbox' \in [Calls -> Inboxes]
    <2>1. ASSUME NEW c \in Calls
          PROVE  inbox'[c] \in Inboxes
      <3>1. inbox[c].got \in Replies /\ inbox[c] \in Inboxes
        BY <1>1, CallerFacts DEF TypeInv
      <3>2. Append(inbox[c].got, a) \in Replies
        BY <1>3, <3>1, ReplyFacts
      <3>3. [topic |-> j, got |-> Append(inbox[c].got, a)] \in Inboxes
        BY <1>3, <3>2 DEF Inboxes, Topics
      <3> QED
        BY <1>8, <3>1, <3>3
    <2>2. inbox' = [c \in Calls |-> inbox'[c]]
      BY DEF Answer
    <2> QED
      BY <2>1, <2>2
  <1>10. TypeInv'
    BY <1>1, <1>6, <1>9 DEF TypeInv, nodeVars
  <1>11. \A c \in Calls : CallerOK(c)'
    BY <1>1 DEF ExecInv, CallerOK, nodeVars, Local
  <1>12. ASSUME NEW c \in Calls
         PROVE  ReplyOK(c)'
    <2>1. CASE inbox[c].topic # j
      BY <1>1, <1>8, <2>1 DEF ExecInv, ReplyOK, This, nodeVars
    <2>2. CASE inbox[c].topic = j
      <3>1. ReplyOK(c) /\ agent' = agent /\ sent' = sent /\ caller' = caller /\ This(c)' = This(c)
        BY <1>1 DEF ExecInv, nodeVars, This
      <3>2. inbox[c].got \in Replies
        BY <1>1, CallerFacts
      <3>3. inbox'[c].topic = j /\ inbox'[c].got = Append(inbox[c].got, a)
        <4>1. inbox'[c] = [topic |-> j, got |-> Append(inbox[c].got, a)]
          BY <1>8, <2>2
        <4> QED
          BY <4>1
      <3>4. \A n \in DOMAIN inbox'[c].got :
                \/ n \in DOMAIN inbox[c].got /\ inbox'[c].got[n] = inbox[c].got[n]
                \/ inbox'[c].got[n] = a
        BY <1>3, <3>2, <3>3, ReplyFacts
      <3>5. \A n \in DOMAIN inbox[c].got : inbox[c].got[n] = "completed" =>
                (agent[j.call] \in Recorded => sent[j] = 1)
        BY <2>2, <3>1 DEF ReplyOK
      <3>6. \A n \in DOMAIN inbox'[c].got : inbox'[c].got[n] = "completed" =>
                /\ inbox'[c].topic \in Invocations
                /\ agent'[inbox'[c].topic.call] \in Recorded => sent'[inbox'[c].topic] = 1
        BY <1>3, <3>1, <3>3, <3>4, <3>5
      <3> QED
        BY <2>2, <3>1, <3>3, <3>6 DEF ReplyOK
    <2> QED
      BY <2>1, <2>2
  <1>13. WorkersInv'
    <2>1. \A l \in DOMAIN tasks : tasks'[l].agent = tasks[l].agent /\ (Live(l)' => Live(l))
      BY <1>1, <1>6, <1>7 DEF Live
    <2> QED
      BY <1>1, <1>6, <2>1 DEF ExecInv, WorkersInv, Local, nodeVars
  <1>14. HeldInv' /\ QueueInv'
    <2>1. \A i \in Invocations : Published(i) => Published(i)'
      BY <1>1, SameCallers
    <2>2. \A l \in DOMAIN tasks : /\ tasks'[l].agent = tasks[l].agent /\ tasks'[l].queue = tasks[l].queue
                                  /\ tasks'[l].job \in {tasks[l].job, NoTopic}
      BY <1>6, <1>7
    <2>3. agent' = agent /\ \A i \in Invocations : sent'[i] = sent[i]
      BY <1>1 DEF nodeVars
    <2> QED
      BY <1>6, <2>1, <2>2, <2>3, HeldNarrows
  <1>15. ASSUME NEW l \in DOMAIN tasks
         PROVE  JobOK(l)'
    <2>1. CASE l = k
      BY <1>7, <2>1 DEF JobOK, Working, Unsent
    <2>2. CASE l # k
      BY <1>1, <1>6, <2>2 DEF ExecInv, JobOK, Fits, nodeVars
    <2> QED
      BY <2>1, <2>2
  <1>16. ApprovedSends'
    BY <1>1 DEF ExecInv, ApprovedSends, nodeVars
  <1> QED
    BY <1>6, <1>10, <1>11, <1>12, <1>13, <1>14, <1>15, <1>16 DEF ExecInv

-----------------------------------------------------------------------------
(* Attempts, requests, timeouts and the end of the daemon *)

LEMMA AttemptFacts ==
    ASSUME ExecInv, NEW c \in Calls, Attempt(c)
    PROVE  \E n \in 1..MaxAttempts :
             /\ n = caller[c].attempt + 1
             /\ caller' \in [Calls -> Callers]
             /\ caller'[c] = [at |-> IF Local THEN "wait" ELSE "ensure", attempt |-> n, result |-> caller[c].result]
             /\ \A d \in Calls : d # c => caller'[d] = caller[d]
             /\ \A i \in Invocations : Published(i) => Published(i)'
             /\ CallerOK(c)'
  <1>1. TypeInv /\ caller[c].at \in {"idle", "retry"}
    BY DEF ExecInv, Attempt
  <1>2. PICK n, pos : n = caller[c].attempt + 1 /\ pos = IF Local THEN "wait" ELSE "ensure"
    OBVIOUS
  <1>3. n \in 1..MaxAttempts
    <2>1. caller[c].attempt \in 0..MaxAttempts /\ caller[c].attempt < MaxAttempts
      <3>1. MaxAttempts \in Nat \ {0} /\ caller[c].attempt \in 0..MaxAttempts
        BY <1>1, CallerFacts, ExecutorAssumption
      <3>2. /\ caller[c].at = "idle" => caller[c].attempt = 0
            /\ caller[c].at = "retry" => caller[c].attempt < MaxAttempts
        BY DEF ExecInv, CallerOK
      <3> QED
        BY <1>1, <3>1, <3>2
    <2> QED
      BY <1>2, <2>1, ExecutorAssumption
  <1> DEFINE r == [at |-> pos, attempt |-> n, result |-> caller[c].result]
  <1>4. r \in Callers
    <2>1. n \in 0..MaxAttempts
      BY <1>3
    <2>2. pos \in CallerPlaces
      BY <1>2 DEF CallerPlaces, Early
    <2>3. caller[c].result \in Results
      BY <1>1, CallerFacts
    <2> QED
      BY <2>1, <2>2, <2>3 DEF Callers
  <1>5. OnlyCaller(c, r)
    <2>1. caller' = [caller EXCEPT ![c].attempt = n, ![c].at = pos]
      BY <1>2 DEF Attempt
    <2> QED
      BY <1>1, <2>1, CallerMoves
  <1>6. /\ caller' \in [Calls -> Callers] /\ caller'[c] = r
        /\ \A d \in Calls : d # c => caller'[d] = caller[d]
    BY <1>1, <1>4, <1>5, CallerChanges DEF OnlyCaller
  <1>7. \A i \in Invocations : Published(i) => Published(i)'
    BY <1>1, <1>2, <1>6, PublishedStays
  <1>8. CallerOK(c)'
    <2>1. n # 0 /\ config' = config
      BY <1>3 DEF Attempt, nodeVars
    <2>2. caller'[c].at = pos /\ caller'[c].attempt = n
      BY <1>6
    <2> QED
      BY <1>2, <2>1, <2>2 DEF CallerOK, Early, Local
  <1> QED
    BY <1>2, <1>3, <1>6, <1>7, <1>8

LEMMA DaemonAttemptKeeps ==
    ASSUME ExecInv, NEW c \in Calls, Attempt(c), ~Local
    PROVE  ExecInv'
  <1>1. TypeInv /\ UNCHANGED <<nodeVars, lock, workers, tasks, decision, sent>>
    BY DEF ExecInv, Attempt, effects
  <1>2. PICK n \in 1..MaxAttempts :
             /\ n = caller[c].attempt + 1
             /\ caller' \in [Calls -> Callers]
             /\ caller'[c] = [at |-> IF Local THEN "wait" ELSE "ensure", attempt |-> n, result |-> caller[c].result]
             /\ \A d \in Calls : d # c => caller'[d] = caller[d]
             /\ \A i \in Invocations : Published(i) => Published(i)'
             /\ CallerOK(c)'
    BY AttemptFacts
  <1>3. inbox' = inbox
    <2>1. inbox' = [inbox EXCEPT ![c] = inbox[c]]
      BY DEF Attempt
    <2> QED
      BY <1>1, <2>1 DEF TypeInv
  <1>4. HeldInv' /\ QueueInv' /\ (\A k \in DOMAIN tasks : JobOK(k))' /\ ApprovedSends' /\ WorkersInv'
    BY <1>1, <1>2, TasksStay
  <1>5. TypeInv'
    BY <1>1, <1>2, <1>3 DEF TypeInv, nodeVars
  <1>6. ReplyOK(c)'
    <2>1. caller'[c].at = "ensure"
      BY <1>2
    <2>2. \A m \in DOMAIN inbox[c].got :
            inbox[c].got[m] = "completed" =>
              /\ inbox[c].topic \in Invocations
              /\ agent[inbox[c].topic.call] \in Recorded => sent[inbox[c].topic] = 1
      BY DEF ExecInv, ReplyOK
    <2>3. agent' = agent /\ sent' = sent
      BY <1>1 DEF nodeVars
    <2> QED
      BY <1>3, <2>1, <2>2, <2>3 DEF ReplyOK
  <1>7. ASSUME NEW d \in Calls, d # c
        PROVE  CallerOK(d)' /\ ReplyOK(d)'
    BY <1>1, <1>2, <1>3, <1>7, OthersStay DEF ExecInv, CallerOK
  <1> QED
    BY <1>2, <1>4, <1>5, <1>6, <1>7 DEF ExecInv

LEMMA LocalAttemptKeeps ==
    ASSUME ExecInv, NEW c \in Calls, Attempt(c), Local
    PROVE  ExecInv'
  <1>1. /\ TypeInv /\ UNCHANGED <<nodeVars, lock, workers, decision, sent>> /\ Local'
        /\ agent[c] \in Agents /\ caller[c].at \in {"idle", "retry"}
    BY DEF ExecInv, Attempt, effects, TypeInv, Local, nodeVars
  <1>2. PICK n \in 1..MaxAttempts :
             /\ n = caller[c].attempt + 1
             /\ caller' \in [Calls -> Callers]
             /\ caller'[c] = [at |-> IF Local THEN "wait" ELSE "ensure", attempt |-> n, result |-> caller[c].result]
             /\ \A d \in Calls : d # c => caller'[d] = caller[d]
             /\ \A i \in Invocations : Published(i) => Published(i)'
             /\ CallerOK(c)'
    BY AttemptFacts
  <1>3. PICK j, new : j = [call |-> c, attempt |-> n] /\ new = Len(tasks) + 1
    OBVIOUS
  <1>4. j \in Invocations /\ j.call = c /\ j.attempt = n
    BY <1>3 DEF Invocations
  <1> DEFINE t == NewTask(agent[c], "start", j)
             b == [topic |-> j, got |-> <<>>]
  <1>5. /\ t = [agent |-> agent[c], at |-> "start", job |-> j, queue |-> <<>>]
        /\ t \in Tasks /\ DOMAIN <<>> = {}
    BY <1>1, <1>4 DEF NewTask, Tasks, Places, Working, Unsent, Topics, Queues
  <1>6. b \in Inboxes
    BY <1>4 DEF Inboxes, Topics, Replies
  <1>7. tasks' = Append(tasks, t) /\ inbox' = [inbox EXCEPT ![c] = b]
    BY <1>2, <1>3 DEF Attempt
  <1> HIDE DEF t
  <1>8. /\ tasks' \in TaskLists /\ new \notin DOMAIN tasks
        /\ DOMAIN tasks' = DOMAIN tasks \cup {new}
        /\ tasks'[new] = t /\ \A l \in DOMAIN tasks : tasks'[l] = tasks[l]
    BY <1>1, <1>3, <1>5, <1>7, TaskComes
  <1>9. /\ inbox' \in [Calls -> Inboxes] /\ inbox'[c] = b
        /\ \A d \in Calls : d # c => inbox'[d] = inbox[d]
    <2>1. OnlyInbox(c, b)
      BY <1>1, <1>7, CallerMoves
    <2> QED
      BY <1>1, <1>6, <2>1, InboxChanges DEF OnlyInbox
  <1>10. TypeInv'
    BY <1>1, <1>2, <1>8, <1>9 DEF TypeInv, nodeVars
  <1>11. ~Published(j) /\ Published(j)' /\ sent[j] = 0
    <2>1. caller[c].attempt \in Nat /\ n # caller[c].attempt /\ ~(n < caller[c].attempt)
      <3>1. caller[c].attempt \in Nat
        <4>1. caller[c].attempt \in 0..MaxAttempts
          BY <1>1, CallerFacts
        <4> QED
          BY <4>1
      <3>2. n = caller[c].attempt + 1
        BY <1>2
      <3> QED
        BY <3>1, <3>2
    <2>2. ~Published(j)
      BY <1>4, <2>1 DEF Published
    <2>3. caller'[c].attempt = n /\ caller'[c].at = "wait"
      BY <1>2
    <2>4. Published(j)'
      BY <1>4, <2>3 DEF Published, Early
    <2> QED
      BY <1>4, <2>2, <2>4 DEF ExecInv, HeldInv
  <1>12. tasks'[new].agent = agent[c] /\ tasks'[new].job = j /\ tasks'[new].at = "start" /\ tasks'[new].queue = <<>>
    BY <1>5, <1>8
  <1>13. ASSUME NEW i \in Invocations
         PROVE  /\ Has(new, i)' => i = j
                /\ ~Queued(new, i)'
                /\ \A k \in DOMAIN tasks : (Has(k, i)' <=> Has(k, i)) /\ (Queued(k, i)' <=> Queued(k, i))
                /\ \A k \in DOMAIN tasks : ~Has(k, j)
    <2>1. ~Queued(new, i)'
      BY <1>5, <1>12 DEF Queued
    <2>2. Has(new, i)' => i = j
      BY <1>12, <2>1 DEF Has
    <2>3. ASSUME NEW k \in DOMAIN tasks
          PROVE  (Has(k, i)' <=> Has(k, i)) /\ (Queued(k, i)' <=> Queued(k, i))
      BY <1>8 DEF Has, Queued
    <2>4. \A k \in DOMAIN tasks : ~Has(k, j)
      BY <1>4, <1>11 DEF ExecInv, HeldInv
    <2> QED
      BY <2>1, <2>2, <2>3, <2>4
  <1>14. HeldInv'
    <2> SUFFICES ASSUME NEW i \in Invocations
                 PROVE  /\ \A k \in DOMAIN tasks' : Has(k, i)' => Published(i)' /\ tasks'[k].agent = agent'[i.call]
                        /\ \A k, l \in DOMAIN tasks' : Has(k, i)' /\ Has(l, i)' => k = l
                        /\ \A k \in DOMAIN tasks' : Queued(k, i)' => tasks'[k].job # i /\ sent'[i] = 0
                        /\ ~Published(i)' => sent'[i] = 0
      BY DEF HeldInv
    <2>1. agent' = agent /\ sent' = sent
      BY <1>1 DEF nodeVars
    <2>2. \A k \in DOMAIN tasks' : Has(k, i)' => \/ k \in DOMAIN tasks /\ Has(k, i) /\ i # j
                                                 \/ k = new /\ i = j
      BY <1>8, <1>13
    <2>3. \A k \in DOMAIN tasks' : Queued(k, i)' => k \in DOMAIN tasks /\ Queued(k, i)
      BY <1>8, <1>13
    <2>4. \A k \in DOMAIN tasks' : Has(k, i)' => Published(i)' /\ tasks'[k].agent = agent'[i.call]
      BY <1>2, <1>4, <1>8, <1>11, <1>12, <2>1, <2>2 DEF ExecInv, HeldInv
    <2>5. \A k, l \in DOMAIN tasks' : Has(k, i)' /\ Has(l, i)' => k = l
      BY <2>2 DEF ExecInv, HeldInv
    <2>6. \A k \in DOMAIN tasks' : Queued(k, i)' => tasks'[k].job # i /\ sent'[i] = 0
      BY <1>8, <2>1, <2>3 DEF ExecInv, HeldInv
    <2>7. ~Published(i)' => sent'[i] = 0
      BY <1>2, <2>1 DEF ExecInv, HeldInv
    <2> QED
      BY <2>4, <2>5, <2>6, <2>7
  <1>15. QueueInv'
    BY <1>5, <1>8, <1>12 DEF ExecInv, QueueInv
  <1>16. WorkersInv'
    BY <1>1 DEF WorkersInv
  <1>17. ASSUME NEW k \in DOMAIN tasks'
         PROVE  JobOK(k)'
    <2>1. CASE k = new
      BY <1>1, <1>4, <1>11, <1>12, <2>1 DEF JobOK, Fits
    <2>2. CASE k \in DOMAIN tasks
      BY <1>1, <1>8, <2>2 DEF ExecInv, JobOK, Fits, nodeVars
    <2> QED
      BY <1>8, <2>1, <2>2
  <1>18. ApprovedSends'
    BY <1>1 DEF ExecInv, ApprovedSends, nodeVars
  <1>19. ReplyOK(c)'
    <2>1. caller'[c].at = "wait" /\ caller'[c].attempt = n
      BY <1>1, <1>2
    <2>2. This(c)' = j
      BY <1>3, <2>1 DEF This
    <2>3. inbox'[c].topic = j /\ inbox'[c].got = <<>>
      BY <1>9
    <2> QED
      BY <1>5, <2>1, <2>2, <2>3 DEF ReplyOK
  <1>20. ASSUME NEW d \in Calls, d # c
         PROVE  CallerOK(d)' /\ ReplyOK(d)'
    BY <1>1, <1>2, <1>9, <1>20, OthersStay DEF ExecInv, CallerOK
  <1> QED
    BY <1>2, <1>10, <1>14, <1>15, <1>16, <1>17, <1>18, <1>19, <1>20 DEF ExecInv

LEMMA PublishKeeps ==
    ASSUME ExecInv, NEW c \in Calls, PublishRequest(c)
    PROVE  ExecInv'
  <1> DEFINE r == [at |-> "wait", attempt |-> caller[c].attempt, result |-> caller[c].result]
  <1>1. /\ TypeInv /\ caller[c].at = "publish" /\ ~Local
        /\ UNCHANGED <<nodeVars, inbox, lock, workers, decision, sent>>
    BY DEF ExecInv, PublishRequest, At, CallerOK, Early, effects
  <1>2. PICK j : j = This(c)
    OBVIOUS
  <1>3. /\ j \in Invocations /\ j.call = c /\ j.attempt = caller[c].attempt
        /\ caller[c].attempt # 0 /\ ~Published(j)
    <2>1. caller[c].attempt \in 1..MaxAttempts /\ caller[c].attempt # 0
      <3>1. caller[c].attempt \in 0..MaxAttempts /\ caller[c].attempt # 0
        BY <1>1, CallerFacts DEF ExecInv, CallerOK
      <3> QED
        BY <3>1, ExecutorAssumption
    <2>2. j \in Invocations /\ j.call = c /\ j.attempt = caller[c].attempt
      BY <1>1, <1>2, <2>1, ThisIsOne
    <2>3. ~(caller[c].attempt < caller[c].attempt)
      BY <2>1
    <2> QED
      BY <1>1, <2>1, <2>2, <2>3 DEF Published, Early
  <1>4. r \in Callers /\ OnlyCaller(c, r)
    BY <1>1, CallerFacts, CallerMoves DEF PublishRequest, Callers, CallerPlaces
  <1>5. /\ caller' \in [Calls -> Callers] /\ caller'[c] = r
        /\ \A d \in Calls : d # c => caller'[d] = caller[d]
    BY <1>1, <1>4, CallerChanges DEF OnlyCaller
  <1>6. \A i \in Invocations : Published(i) => Published(i)'
    BY <1>1, <1>5, PublishedStays DEF Early
  <1>7. Published(j)'
    BY <1>3, <1>5 DEF Published, Early
  <1> DEFINE Gets(k) == tasks[k].agent = agent[c] /\ tasks[k].at # "dead"
  <1>8. ASSUME NEW k \in DOMAIN tasks
        PROVE  /\ tasks'[k].agent = tasks[k].agent /\ tasks'[k].at = tasks[k].at
               /\ tasks'[k].job = tasks[k].job
               /\ ~Gets(k) => tasks'[k] = tasks[k]
               /\ Gets(k) => tasks'[k].queue = Append(tasks[k].queue, j)
               /\ tasks'[k] \in Tasks
    <2>1. tasks'[k] = IF Gets(k) THEN [tasks[k] EXCEPT !.queue = Append(@, j)] ELSE tasks[k]
      BY <1>2 DEF PublishRequest
    <2>2. CASE ~Gets(k)
      BY <1>1, <2>1, <2>2, TaskFacts
    <2>3. CASE Gets(k)
      <3>1. PICK g, p, i, q : tasks[k] = [agent |-> g, at |-> p, job |-> i, queue |-> q]
        BY <1>1, TaskFacts
      <3>2. g \in Agents /\ p \in Places /\ i \in Topics /\ q \in Queues
        BY <1>1, <3>1, TaskFacts
      <3>3. Append(q, j) \in Queues
        BY <1>3, <3>2, QueueFacts
      <3>4. PICK x : x = Append(q, j)
        OBVIOUS
      <3>5. tasks'[k] = [tasks[k] EXCEPT !.queue = x]
        BY <2>1, <2>3, <3>1, <3>4
      <3>6. tasks'[k] = [agent |-> g, at |-> p, job |-> i, queue |-> x]
        BY <3>1, <3>5
      <3>7. tasks'[k] \in Tasks
        BY <3>2, <3>3, <3>4, <3>6 DEF Tasks
      <3> QED
        BY <2>3, <3>1, <3>4, <3>6, <3>7
    <2> QED
      BY <2>2, <2>3
  <1>9. tasks' \in TaskLists /\ DOMAIN tasks' = DOMAIN tasks
    <2>1. tasks' = [k \in DOMAIN tasks |-> tasks'[k]]
      BY DEF PublishRequest
    <2> QED
      BY <1>1, <1>8, <2>1, TasksChange
  <1>10. TypeInv'
    BY <1>1, <1>5, <1>9 DEF TypeInv, nodeVars
  <1>11. /\ \A k \in DOMAIN tasks : ~Has(k, j)
         /\ sent[j] = 0
         /\ \A k, l \in DOMAIN tasks : Gets(k) /\ Gets(l) => k = l
    BY <1>1, <1>3 DEF ExecInv, HeldInv, WorkersInv, Live
  <1>12. ASSUME NEW k \in DOMAIN tasks, NEW i \in Invocations
         PROVE  /\ Queued(k, i)' => Queued(k, i) \/ (i = j /\ Gets(k))
                /\ Has(k, i)' => Has(k, i) \/ (i = j /\ Gets(k))
    <2>1. Queued(k, i)' => Queued(k, i) \/ (i = j /\ Gets(k))
      <3>1. CASE ~Gets(k)
        BY <1>8, <3>1 DEF Queued
      <3>2. CASE Gets(k)
        <4>1. tasks[k].queue \in Queues
          BY <1>1, TaskFacts
        <4>2. \A n \in DOMAIN tasks'[k].queue :
                 \/ n \in DOMAIN tasks[k].queue /\ tasks'[k].queue[n] = tasks[k].queue[n]
                 \/ tasks'[k].queue[n] = j
          BY <1>3, <1>8, <3>2, <4>1, QueueFacts
        <4> QED
          BY <3>2, <4>2 DEF Queued
      <3> QED
        BY <3>1, <3>2
    <2>2. tasks'[k].job = tasks[k].job
      BY <1>8
    <2> QED
      BY <2>1, <2>2 DEF Has
  <1> HIDE DEF Gets
  <1>13. HeldInv'
    <2> SUFFICES ASSUME NEW i \in Invocations
                 PROVE  /\ \A k \in DOMAIN tasks : Has(k, i)' => Published(i)' /\ tasks'[k].agent = agent'[i.call]
                        /\ \A k, l \in DOMAIN tasks : Has(k, i)' /\ Has(l, i)' => k = l
                        /\ \A k \in DOMAIN tasks : Queued(k, i)' => tasks'[k].job # i /\ sent'[i] = 0
                        /\ ~Published(i)' => sent'[i] = 0
      BY <1>9 DEF HeldInv
    <2>1. agent' = agent /\ sent' = sent
      BY <1>1 DEF nodeVars
    <2>2. \A k \in DOMAIN tasks : tasks'[k].agent = tasks[k].agent /\ tasks'[k].job = tasks[k].job
      BY <1>8
    <2>3. \A k \in DOMAIN tasks : Gets(k) => tasks[k].agent = agent[c]
      BY DEF Gets
    <2>4. \A k \in DOMAIN tasks : tasks[k].job # j
      BY <1>11 DEF Has
    <2>5. \A k \in DOMAIN tasks : Has(k, i)' => Published(i)' /\ tasks'[k].agent = agent'[i.call]
      BY <1>3, <1>6, <1>7, <1>12, <2>1, <2>2, <2>3 DEF ExecInv, HeldInv
    <2>6. \A k, l \in DOMAIN tasks : Has(k, i)' /\ Has(l, i)' => k = l
      BY <1>11, <1>12 DEF ExecInv, HeldInv
    <2>7. \A k \in DOMAIN tasks : Queued(k, i)' => tasks'[k].job # i /\ sent'[i] = 0
      BY <1>11, <1>12, <2>1, <2>2, <2>4 DEF ExecInv, HeldInv
    <2>8. ~Published(i)' => sent'[i] = 0
      BY <1>6, <2>1 DEF ExecInv, HeldInv
    <2> QED
      BY <2>5, <2>6, <2>7, <2>8
  <1>14. QueueInv'
    <2> SUFFICES ASSUME NEW k \in DOMAIN tasks, NEW m \in DOMAIN tasks'[k].queue,
                        NEW n \in DOMAIN tasks'[k].queue, tasks'[k].queue[m] = tasks'[k].queue[n]
                 PROVE  m = n
      BY <1>9 DEF QueueInv
    <2>1. CASE ~Gets(k)
      BY <1>8, <2>1 DEF ExecInv, QueueInv
    <2>2. CASE Gets(k)
      <3>1. PICK q, x : q = tasks[k].queue /\ x = Append(q, j)
        OBVIOUS
      <3>2. q \in Queues /\ tasks'[k].queue = x
        BY <1>1, <1>8, <2>2, <3>1, TaskFacts
      <3>3. PICK top : top = Len(q) + 1
        OBVIOUS
      <3>4. /\ DOMAIN x = DOMAIN q \cup {top} /\ top \notin DOMAIN q
            /\ x[top] = j /\ \A o \in DOMAIN q : x[o] = q[o]
        BY <1>3, <3>1, <3>2, <3>3, QueueFacts
      <3>5. \A o \in DOMAIN q : q[o] # j
        BY <1>11, <3>1 DEF Has, Queued
      <3>6. \A o, u \in DOMAIN q : q[o] = q[u] => o = u
        BY <3>1 DEF ExecInv, QueueInv
      <3> QED
        BY <3>2, <3>4, <3>5, <3>6
    <2> QED
      BY <2>1, <2>2
  <1>15. WorkersInv'
    <2>1. \A k \in DOMAIN tasks : tasks'[k].agent = tasks[k].agent /\ (Live(k)' <=> Live(k))
      BY <1>8 DEF Live
    <2> QED
      BY <1>1, <1>9, <2>1 DEF ExecInv, WorkersInv, Local, nodeVars
  <1>16. \A k \in DOMAIN tasks : JobOK(k)'
    <2>1. \A k \in DOMAIN tasks : /\ tasks'[k].agent = tasks[k].agent /\ tasks'[k].at = tasks[k].at
                                  /\ tasks'[k].job = tasks[k].job
      BY <1>8
    <2> QED
      BY <1>1, <2>1 DEF ExecInv, JobOK, Fits, nodeVars
  <1>17. ApprovedSends'
    BY <1>1 DEF ExecInv, ApprovedSends, nodeVars
  <1>18. CallerOK(c)'
    <2>1. caller'[c].at = "wait" /\ caller'[c].attempt = caller[c].attempt
      BY <1>5
    <2> QED
      BY <1>3, <2>1 DEF CallerOK, Early
  <1>19. ReplyOK(c)'
    <2>1. caller'[c].at = "wait" /\ caller'[c].attempt = caller[c].attempt
      BY <1>5
    <2>2. This(c)' = This(c) /\ inbox' = inbox /\ agent' = agent /\ sent' = sent
      BY <1>1, <2>1 DEF This, nodeVars
    <2> QED
      BY <1>1, <2>1, <2>2 DEF ExecInv, ReplyOK
  <1>20. ASSUME NEW d \in Calls, d # c
         PROVE  CallerOK(d)' /\ ReplyOK(d)'
    BY <1>1, <1>5, <1>20, OthersStay DEF ExecInv, CallerOK
  <1> QED
    BY <1>9, <1>10, <1>13, <1>14, <1>15, <1>16, <1>17, <1>18, <1>19, <1>20 DEF ExecInv

\* Tasks that die hold what they held.
LEMMA DeathKeeps ==
    ASSUME ExecInv, tasks' = [k \in DOMAIN tasks |-> tasks'[k]],
           \A k \in DOMAIN tasks : tasks'[k] = tasks[k] \/ tasks'[k] = [tasks[k] EXCEPT !.at = "dead"],
           UNCHANGED <<nodeVars, sent, decision>>,
           \A i \in Invocations : Published(i) => Published(i)'
    PROVE  /\ tasks' \in TaskLists /\ HeldInv' /\ QueueInv' /\ (\A k \in DOMAIN tasks : JobOK(k))'
           /\ ApprovedSends'
           /\ \A k \in DOMAIN tasks : tasks'[k].agent = tasks[k].agent /\ (Live(k)' => Live(k))
           /\ DOMAIN tasks' = DOMAIN tasks
  <1>1. ASSUME NEW k \in DOMAIN tasks
        PROVE  /\ tasks'[k].agent = tasks[k].agent /\ tasks'[k].job = tasks[k].job
               /\ tasks'[k].queue = tasks[k].queue /\ tasks'[k].at \in {tasks[k].at, "dead"}
               /\ tasks'[k] \in Tasks
    <2>1. PICK g, p, i, q : tasks[k] = [agent |-> g, at |-> p, job |-> i, queue |-> q]
      BY TaskFacts DEF ExecInv
    <2>2. g \in Agents /\ p \in Places /\ i \in Topics /\ q \in Queues /\ tasks[k] \in Tasks
      BY <2>1, TaskFacts DEF ExecInv
    <2>3. CASE tasks'[k] = tasks[k]
      BY <2>2, <2>3
    <2>4. CASE tasks'[k] = [tasks[k] EXCEPT !.at = "dead"]
      <3>1. tasks'[k] = [agent |-> g, at |-> "dead", job |-> i, queue |-> q]
        BY <2>1, <2>4
      <3>2. tasks'[k] \in Tasks
        BY <2>2, <3>1 DEF Tasks, Places
      <3> QED
        BY <2>1, <3>1, <3>2
    <2> QED
      BY <2>3, <2>4
  <1>2. tasks' \in TaskLists /\ DOMAIN tasks' = DOMAIN tasks
    BY <1>1, TasksChange DEF ExecInv
  <1>3. HeldInv' /\ QueueInv'
    <2>1. agent' = agent /\ \A i \in Invocations : sent'[i] = sent[i]
      BY DEF nodeVars
    <2>2. \A k \in DOMAIN tasks : /\ tasks'[k].agent = tasks[k].agent /\ tasks'[k].queue = tasks[k].queue
                                  /\ tasks'[k].job \in {tasks[k].job, NoTopic}
      BY <1>1
    <2> QED
      BY <1>2, <2>1, <2>2, HeldNarrows
  <1>4. ASSUME NEW k \in DOMAIN tasks
        PROVE  JobOK(k)'
    <2>1. "dead" \notin Working
      BY DEF Working, Unsent
    <2>2. tasks'[k].at \in Working => tasks'[k].at = tasks[k].at
      BY <1>1, <2>1
    <2> QED
      BY <1>1, <2>2 DEF ExecInv, JobOK, Fits, nodeVars
  <1>5. ApprovedSends'
    BY DEF ExecInv, ApprovedSends, nodeVars
  <1>6. \A k \in DOMAIN tasks : tasks'[k].agent = tasks[k].agent /\ (Live(k)' => Live(k))
    BY <1>1 DEF Live
  <1> QED
    BY <1>2, <1>3, <1>4, <1>5, <1>6

LEMMA TimeoutKeeps ==
    ASSUME ExecInv, NEW c \in Calls, Timeout(c)
    PROVE  ExecInv'
  <1> DEFINE pos == IF caller[c].attempt < MaxAttempts THEN "retry" ELSE "done"
             r == [at |-> pos, attempt |-> caller[c].attempt, result |-> "timeout"]
             b == [topic |-> NoTopic, got |-> <<>>]
  <1>1. /\ TypeInv /\ caller[c].at \notin {"idle", "retry", "done"}
        /\ UNCHANGED <<nodeVars, workers, decision, sent>>
        /\ lock' = IF lock = c THEN None ELSE lock
    BY DEF ExecInv, Timeout, effects
  <1>2. r \in Callers /\ b \in Inboxes /\ DOMAIN <<>> = {}
    <2>1. pos \in CallerPlaces /\ caller[c].attempt \in 0..MaxAttempts /\ "timeout" \in Results
      BY <1>1, CallerFacts DEF CallerPlaces, Results
    <2>2. r \in Callers
      BY <2>1 DEF Callers
    <2> QED
      BY <2>2 DEF Inboxes, Topics, Replies
  <1>3. OnlyCaller(c, r) /\ OnlyInbox(c, b)
    BY <1>1, CallerMoves DEF Timeout
  <1>4. /\ caller' \in [Calls -> Callers] /\ caller'[c] = r
        /\ \A d \in Calls : d # c => caller'[d] = caller[d]
    BY <1>1, <1>2, <1>3, CallerChanges DEF OnlyCaller
  <1>5. /\ inbox' \in [Calls -> Inboxes] /\ inbox'[c] = b
        /\ \A d \in Calls : d # c => inbox'[d] = inbox[d]
    BY <1>1, <1>2, <1>3, InboxChanges DEF OnlyInbox
  <1>6. \A i \in Invocations : Published(i) => Published(i)'
    BY <1>1, <1>4, PublishedStays DEF Early
  <1>7. /\ tasks' \in TaskLists /\ HeldInv' /\ QueueInv' /\ (\A k \in DOMAIN tasks : JobOK(k))'
        /\ ApprovedSends'
        /\ \A k \in DOMAIN tasks : tasks'[k].agent = tasks[k].agent /\ (Live(k)' => Live(k))
        /\ DOMAIN tasks' = DOMAIN tasks
    <2>1. tasks = [k \in DOMAIN tasks |-> tasks[k]]
      BY <1>1 DEF TypeInv, TaskLists
    <2>2. tasks' = [k \in DOMAIN tasks |-> tasks'[k]]
      BY <2>1 DEF Timeout
    <2>3. \A k \in DOMAIN tasks : tasks'[k] = tasks[k] \/ tasks'[k] = [tasks[k] EXCEPT !.at = "dead"]
      BY DEF Timeout
    <2> QED
      BY <1>1, <1>6, <2>2, <2>3, DeathKeeps
  <1>8. WorkersInv'
    BY <1>1, <1>7 DEF ExecInv, WorkersInv, Local, nodeVars
  <1>9. TypeInv'
    BY <1>1, <1>4, <1>5, <1>7 DEF TypeInv, nodeVars
  <1>10. CallerOK(c)'
    <2>1. caller'[c].at = pos /\ caller'[c].attempt = caller[c].attempt
      BY <1>4
    <2>2. caller[c].attempt # 0
      BY <1>1 DEF ExecInv, CallerOK
    <2> QED
      BY <2>1, <2>2 DEF CallerOK, Early
  <1>11. ReplyOK(c)'
    <2>1. caller'[c].at = pos /\ caller'[c].result = "timeout" /\ inbox'[c].got = <<>>
      BY <1>4, <1>5
    <2> QED
      BY <1>2, <2>1 DEF ReplyOK
  <1>12. ASSUME NEW d \in Calls, d # c
         PROVE  CallerOK(d)' /\ ReplyOK(d)'
    BY <1>1, <1>4, <1>5, <1>12, OthersStay DEF ExecInv, CallerOK
  <1> QED
    BY <1>7, <1>8, <1>9, <1>10, <1>11, <1>12 DEF ExecInv

LEMMA ShutdownKeeps ==
    ASSUME ExecInv, Shutdown
    PROVE  ExecInv'
  <1>1. /\ TypeInv /\ lock = None /\ workers' = {}
        /\ UNCHANGED <<nodeVars, callVars, decision, sent>>
    BY DEF ExecInv, Shutdown, effects
  <1>2. \A i \in Invocations : Published(i) => Published(i)'
    BY <1>1, SameCallers DEF callVars
  <1>3. /\ tasks' \in TaskLists /\ HeldInv' /\ QueueInv' /\ (\A k \in DOMAIN tasks : JobOK(k))'
        /\ ApprovedSends' /\ DOMAIN tasks' = DOMAIN tasks
    <2>1. tasks' = [k \in DOMAIN tasks |-> tasks'[k]]
      BY DEF Shutdown
    <2>2. \A k \in DOMAIN tasks : tasks'[k] = tasks[k] \/ tasks'[k] = [tasks[k] EXCEPT !.at = "dead"]
      BY DEF Shutdown
    <2> QED
      BY <1>1, <1>2, <2>1, <2>2, DeathKeeps
  <1>4. \A k \in DOMAIN tasks : ~Live(k)'
    <2> SUFFICES ASSUME NEW k \in DOMAIN tasks PROVE tasks'[k].at = "dead"
      BY DEF Live
    <2>1. PICK g, p, i, q : tasks[k] = [agent |-> g, at |-> p, job |-> i, queue |-> q]
      BY <1>1, TaskFacts
    <2>2. tasks'[k] = [tasks[k] EXCEPT !.at = "dead"]
      BY DEF Shutdown
    <2> QED
      BY <2>1, <2>2
  <1>5. WorkersInv'
    BY <1>3, <1>4 DEF WorkersInv
  <1>6. TypeInv'
    BY <1>1, <1>3 DEF TypeInv, nodeVars, callVars
  <1>7. ASSUME NEW d \in Calls
        PROVE  CallerOK(d)' /\ ReplyOK(d)'
    <2>1. caller[d].at # "spawn"
      BY <1>1, ExecutorAssumption DEF ExecInv, CallerOK
    <2> QED
      BY <1>1, <2>1, OthersStay DEF callVars
  <1> QED
    BY <1>3, <1>5, <1>6, <1>7 DEF ExecInv

-----------------------------------------------------------------------------
\* Every step of the execution of nodes keeps the invariant.
LEMMA NextKeeps == ExecInv /\ [Next]_vars => ExecInv'
  <1> SUFFICES ASSUME ExecInv, [Next]_vars PROVE ExecInv'
    OBVIOUS
  <1>1. CASE UNCHANGED vars
    <2>1. UNCHANGED <<nodeVars, callVars, workers, tasks, decision, sent>>
      BY <1>1 DEF vars, effects
    <2>2. \A i \in Invocations : Published(i) => Published(i)'
      BY <2>1, SameCallers DEF callVars
    <2>3. HeldInv' /\ QueueInv' /\ (\A k \in DOMAIN tasks : JobOK(k))' /\ ApprovedSends' /\ WorkersInv'
      BY <2>1, <2>2, TasksStay
    <2>4. TypeInv'
      BY <2>1 DEF ExecInv, TypeInv, nodeVars, callVars
    <2>5. \A d \in Calls : CallerOK(d)' /\ ReplyOK(d)'
      BY <2>1, OthersStay DEF ExecInv, CallerOK, callVars
    <2> QED
      BY <2>3, <2>4, <2>5 DEF ExecInv
  <1>2. CASE Shutdown
    BY <1>2, ShutdownKeeps
  <1>3. CASE \E c \in Calls : Attempt(c)
    BY <1>3, DaemonAttemptKeeps, LocalAttemptKeeps
  <1>4. CASE \E c \in Calls : EnsureWorker(c) \/ SpawnWorker(c) \/ SubscribeReply(c)
    BY <1>4, EnsureKeeps, SpawnKeeps, SubscribeKeeps
  <1>5. CASE \E c \in Calls : PublishRequest(c) \/ TakeReply(c) \/ Timeout(c)
    BY <1>5, PublishKeeps, TakeReplyKeeps, TimeoutKeeps
  <1>6. ASSUME NEW k \in DOMAIN tasks, Work(k)
        PROVE  ExecInv'
    <2>1. CASE Take(k) \/ Start(k) \/ Confirm(k) \/ WasmBundle(k)
      BY <2>1, TakeKeeps, StartKeeps, ConfirmKeeps, BundleKeeps
    <2>2. CASE SpawnAgent(k) \/ Collect(k) \/ Record(k)
      BY <2>2, SpawnAgentKeeps, CollectKeeps, RecordKeeps
    <2>3. CASE NativeMailer(k) \/ NativeWriter(k) \/ NativeContext(k) \/ Answer(k)
      BY <2>3, NativeKeeps, ContextKeeps, AnswerKeeps
    <2> QED
      BY <1>6, <2>1, <2>2, <2>3 DEF Work
  <1> QED
    BY <1>1, <1>2, <1>3, <1>4, <1>5, <1>6 DEF Next

LEMMA Invariant == Spec => []ExecInv
  BY InitHolds, NextKeeps, PTL DEF Spec

\* No email is sent without an approving critic and, where that is asked, without
\* the approval of its own attempt, in either mode and on either path (exec_mailer).
THEOREM NothingUnapproved == Spec => []ApprovedSends
  <1>1. ExecInv => ApprovedSends
    BY DEF ExecInv
  <1> QED
    BY <1>1, Invariant, PTL

\* An attempt leaves at most one event, and success is told of an attempt that left
\* its event (handle_invocation, BusExecutor::execute).
THEOREM EffectsOnce == Spec => []OneEffectPerAttempt
  <1>1. ExecInv => OneEffectPerAttempt
    <2> SUFFICES ASSUME ExecInv PROVE OneEffectPerAttempt
      OBVIOUS
    <2>1. ASSUME NEW i \in Invocations
          PROVE  sent[i] <= 1
      <3>1. sent[i] \in {0, 1}
        BY DEF ExecInv, TypeInv
      <3> QED
        BY <3>1
    <2>2. ASSUME NEW c \in Calls, caller[c].at = "done", caller[c].result = "completed", agent[c] \in Recorded
          PROVE  sent[This(c)] = 1
      BY <2>2 DEF ExecInv, ReplyOK
    <2> QED
      BY <2>1, <2>2 DEF OneEffectPerAttempt
  <1> QED
    BY <1>1, Invariant, PTL
=============================================================================
