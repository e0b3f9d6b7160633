------------------------------ MODULE Executor ------------------------------
(***************************************************************************)
(* How a node of a run is executed: in the daemon BusExecutor publishes an *)
(* invocation to the agent's topic, the one worker of that topic           *)
(* (runloopd/executor_bus.rs) runs it on the LocalExecutor                 *)
(* (executor-local/lib.rs) and publishes the answer to a topic of that     *)
(* attempt; `rlp run --local` awaits the LocalExecutor itself.  The runner *)
(* gives an attempt up when its timeout passes and tries again.            *)
(*                                                                         *)
(* Agents: the mailer and the writer, which leave an event in the knowledge *)
(* base; the context gatherer, whose native code may panic; and one that   *)
(* has no native code.                                                     *)
(***************************************************************************)
EXTENDS Integers, Sequences, FiniteSets, SequencesExt

CONSTANTS
    Calls,         \* nodes being executed, each of a run of its own
    None,
    MaxAttempts,   \* retry.max_attempts of the nodes
    Configs        \* [mode, confirm, approves]: where runs are executed,
                   \* confirm_external_actions, and what the operator may answer

ASSUME ExecutorAssumption ==
    /\ None \notin Calls /\ MaxAttempts \in Nat \ {0}
    /\ \A cfg \in Configs : /\ cfg.mode \in {"daemon", "local"} /\ cfg.confirm \in BOOLEAN
                            /\ cfg.approves \subseteq {"approved", "rejected", "error"}

Agents == {"mailer", "writer", "context_gatherer", "generic"}
Native == {"mailer", "writer", "context_gatherer"}
Recorded == {"mailer", "writer"}
Invocations == [call : Calls, attempt : 1..MaxAttempts]

VARIABLES
    config,
    agent,       \* node.kind of each call
    reviewed,    \* what the critic said of the draft each call is to send
    caller,      \* position, attempt and result of each call
    inbox,       \* reply_sub of each call: its topic and what arrived
    lock,        \* the call that holds the workers mutex in ensure_worker
    workers,     \* the agents that have an entry in AgentDispatcher.workers
    tasks,       \* the tasks that execute invocations
    decision,    \* what the confirmation provider answered for each invocation
    sent,        \* email.sent or artifact.created events of each invocation
    guests,      \* invocations whose agent lives in the runtime
    down         \* the daemon's shutdown has passed

nodeVars == <<config, agent, reviewed>>
callVars == <<caller, inbox, lock>>
effects == <<decision, sent, guests>>
vars == <<nodeVars, callVars, workers, tasks, effects, down>>

NoTopic == [call |-> None, attempt |-> 0]
Local == config.mode = "local"

Init ==
    /\ config \in Configs
    /\ agent \in [Calls -> Agents]
    /\ reviewed \in [Calls -> BOOLEAN]
    /\ caller = [c \in Calls |-> [at |-> "idle", attempt |-> 0, result |-> "none"]]
    /\ inbox = [c \in Calls |-> [topic |-> NoTopic, got |-> <<>>]]
    /\ lock = None
    /\ workers = {}
    /\ tasks = <<>>
    /\ decision = [i \in Invocations |-> "none"]
    /\ sent = [i \in Invocations |-> 0]
    /\ guests = {}
    /\ down = FALSE

At(c, pos) == caller[c].at = pos
Goto(c, pos) == caller' = [caller EXCEPT ![c].at = pos]
This(c) == [call |-> c, attempt |-> caller[c].attempt]

\* Mutant: the topic names the run and the node, not the attempt.
ReplyTopicOfNode(i) == [i EXCEPT !.attempt = 1]

\* The topic of a reply has a UUID of its own.
ReplyTopic(i) == i

NewTask(a, pos, job) == [agent |-> a, at |-> pos, job |-> job, queue |-> <<>>]

-----------------------------------------------------------------------------
(* The runner and BusExecutor::execute *)

Attempt(c) ==
    /\ caller[c].at \in {"idle", "retry"}
    /\ caller' = [caller EXCEPT ![c].attempt = @ + 1, ![c].at = IF Local THEN "wait" ELSE "ensure"]
    /\ tasks' = IF Local
                THEN Append(tasks, NewTask(agent[c], "start", [call |-> c, attempt |-> caller[c].attempt + 1]))
                ELSE tasks
    /\ inbox' = [inbox EXCEPT ![c] = IF Local THEN [topic |-> [call |-> c, attempt |-> caller[c].attempt + 1],
                                                    got |-> <<>>] ELSE @]
    /\ UNCHANGED <<nodeVars, lock, workers, effects, down>>

\* ensure_worker: the map stays locked while a worker subscribes.
EnsureWorker(c) ==
    /\ At(c, "ensure") /\ lock = None
    /\ lock' = IF agent[c] \in workers THEN None ELSE c
    /\ Goto(c, IF agent[c] \in workers THEN "subscribe" ELSE "spawn")
    /\ UNCHANGED <<nodeVars, inbox, workers, tasks, effects, down>>

SpawnWorker(c) ==
    /\ At(c, "spawn")
    /\ tasks' = Append(tasks, NewTask(agent[c], "next", NoTopic))
    /\ workers' = workers \cup {agent[c]}
    /\ lock' = None
    /\ Goto(c, "subscribe")
    /\ UNCHANGED <<nodeVars, inbox, effects, down>>

SubscribeReply(c) ==
    /\ At(c, "subscribe")
    /\ inbox' = [inbox EXCEPT ![c] = [topic |-> ReplyTopic(This(c)), got |-> <<>>]]
    /\ Goto(c, "publish")
    /\ UNCHANGED <<nodeVars, lock, workers, tasks, effects, down>>

\* Every subscriber of agent/<name> gets the request.  None is an Ok.
PublishRequest(c) ==
    /\ At(c, "publish")
    /\ tasks' = [k \in DOMAIN tasks |->
                    IF tasks[k].agent = agent[c] /\ tasks[k].at # "dead"
                    THEN [tasks[k] EXCEPT !.queue = Append(@, This(c))] ELSE tasks[k]]
    /\ Goto(c, "wait")
    /\ UNCHANGED <<nodeVars, inbox, lock, workers, effects, down>>

\* Completed ends the node; so does Failed, the responses are never retryable.
TakeReply(c) ==
    /\ At(c, "wait") /\ inbox[c].got # <<>>
    /\ caller' = [caller EXCEPT ![c].at = "done", ![c].result = Head(inbox[c].got)]
    /\ inbox' = [inbox EXCEPT ![c] = [topic |-> NoTopic, got |-> <<>>]]
    /\ UNCHANGED <<nodeVars, lock, workers, tasks, effects, down>>

\* time::timeout drops the future: its subscription, the lock it may hold and,
\* without a worker, the execution itself.  The agent is not killed then.
Timeout(c) ==
    /\ caller[c].at \notin {"idle", "retry", "done"}
    /\ caller' = [caller EXCEPT ![c].at = IF caller[c].attempt < MaxAttempts THEN "retry" ELSE "done",
                                ![c].result = "timeout"]
    /\ inbox' = [inbox EXCEPT ![c] = [topic |-> NoTopic, got |-> <<>>]]
    /\ lock' = IF lock = c THEN None ELSE lock
    /\ tasks' = IF Local THEN [k \in DOMAIN tasks |-> IF tasks[k].job = This(c)
                                                       THEN [tasks[k] EXCEPT !.at = "dead"] ELSE tasks[k]]
                ELSE tasks
    /\ UNCHANGED <<nodeVars, workers, effects, down>>

-----------------------------------------------------------------------------
(* The worker and LocalExecutor::execute *)

Step(k, from, to) ==
    /\ tasks[k].at = from
    /\ tasks' = [tasks EXCEPT ![k].at = to]

Job(k) == tasks[k].job
IsMailer(k) == tasks[k].agent = "mailer"

Take(k) ==
    /\ tasks[k].at = "next" /\ tasks[k].queue # <<>>
    /\ tasks' = [tasks EXCEPT ![k].at = "start", ![k].job = Head(tasks[k].queue), ![k].queue = Tail(@)]
    /\ UNCHANGED <<nodeVars, callVars, workers, effects, down>>

\* The node's inputs and parameters are read; the mailer asks before all else.
Start(k) ==
    /\ \/ Step(k, "start", IF IsMailer(k) /\ config.confirm THEN "confirm" ELSE "bundle")
       \/ Step(k, "start", "failed")
    /\ UNCHANGED <<nodeVars, callVars, workers, effects, down>>

\* request_confirmation
Confirm(k) ==
    /\ tasks[k].at = "confirm"
    /\ \E answer \in config.approves :
         /\ decision' = [decision EXCEPT ![Job(k)] = answer]
         /\ Step(k, "confirm", IF answer = "error" THEN "failed" ELSE "bundle")
    /\ UNCHANGED <<nodeVars, callVars, workers, sent, guests, down>>

\* Mutant: the decision is left to the native mailer.
WasmBundleUnasked(k) ==
    /\ \/ Step(k, "bundle", "spawn")
       \/ Step(k, "bundle", IF tasks[k].agent \in Native THEN "native" ELSE "failed")
    /\ UNCHANGED <<nodeVars, callVars, workers, effects, down>>

\* wasm_bundle, require_wasm_bundle: is there a binary of the digest promised?
WasmBundle(k) ==
    /\ \/ Step(k, "bundle", IF decision[Job(k)] = "rejected" THEN "failed" ELSE "spawn")
       \/ Step(k, "bundle", IF tasks[k].agent \in Native THEN "native" ELSE "failed")
    /\ UNCHANGED <<nodeVars, callVars, workers, effects, down>>

\* should_fallback: an error that names a missing file sends a native agent on.
Fallback(k, from) == Step(k, from, "failed") \/ (tasks[k].agent \in Native /\ Step(k, from, "native"))

SpawnAgent(k) ==
    /\ \/ Step(k, "spawn", "poll") /\ guests' = guests \cup {Job(k)}
       \/ Fallback(k, "spawn") /\ UNCHANGED guests
    /\ UNCHANGED <<nodeVars, callVars, workers, decision, sent, down>>

\* spawn_and_collect: JSON on stdout, anything on stderr or the deadline, and the
\* agent is killed.  The mailer's guest refuses a draft the critic rejected.
Collect(k) ==
    /\ \/ /\ Step(k, "poll", IF tasks[k].agent \in Recorded THEN "record" ELSE "completed")
          /\ IsMailer(k) => reviewed[Job(k).call]
       \/ Fallback(k, "poll")
    /\ guests' = guests \ {Job(k)}
    /\ UNCHANGED <<nodeVars, callVars, workers, decision, sent, down>>

\* record_mail_event, persist_draft
Record(k) ==
    /\ \/ Step(k, "record", "completed") /\ sent' = [sent EXCEPT ![Job(k)] = @ + 1]
       \/ Step(k, "record", "failed") /\ UNCHANGED sent
    /\ UNCHANGED <<nodeVars, callVars, workers, decision, guests, down>>

\* exec_mailer_native: the decision taken before stands for the provider's; the
\* views are brought up to date after the event was appended.
NativeMailer(k) ==
    LET asked == IF config.confirm THEN decision[Job(k)] ELSE "approved"
    IN /\ IsMailer(k) /\ tasks[k].at = "native"
       /\ \/ /\ reviewed[Job(k).call] /\ asked = "approved"
             /\ \E to \in {"completed", "failed"} : Step(k, "native", to)
             /\ sent' = [sent EXCEPT ![Job(k)] = @ + 1]
          \/ Step(k, "native", "failed") /\ UNCHANGED sent
       /\ UNCHANGED <<nodeVars, callVars, workers, decision, guests, down>>

\* writer: whatever the model does there is a draft.
NativeWriter(k) ==
    /\ tasks[k].agent = "writer"
    /\ \/ /\ \E to \in {"completed", "failed"} : Step(k, "native", to)
          /\ sent' = [sent EXCEPT ![Job(k)] = @ + 1]
       \/ Step(k, "native", "failed") /\ UNCHANGED sent
    /\ UNCHANGED <<nodeVars, callVars, workers, decision, guests, down>>

\* context_gatherer cuts its excerpts at byte offsets: the task may panic.
NativeContext(k) ==
    /\ tasks[k].agent = "context_gatherer"
    /\ \E to \in {"completed", "failed", "dead"} : Step(k, "native", to)
    /\ UNCHANGED <<nodeVars, callVars, workers, effects, down>>

\* Mutant: a worker ends with the first invocation that fails.
AnswerOrEnd(k) ==
    /\ tasks[k].at \in {"completed", "failed"}
    /\ inbox' = [c \in Calls |->
                    IF inbox[c].topic = ReplyTopic(Job(k))
                    THEN [inbox[c] EXCEPT !.got = Append(@, tasks[k].at)] ELSE inbox[c]]
    /\ tasks' = [tasks EXCEPT ![k].at = IF Local THEN "dead" ELSE IF @ = "failed" THEN "ended" ELSE "next", ![k].job = NoTopic]
    /\ UNCHANGED <<nodeVars, caller, lock, workers, effects, down>>

\* handle_invocation publishes the response, to whoever still listens.
Answer(k) ==
    /\ tasks[k].at \in {"completed", "failed"}
    /\ inbox' = [c \in Calls |->
                    IF inbox[c].topic = ReplyTopic(Job(k))
                    THEN [inbox[c] EXCEPT !.got = Append(@, tasks[k].at)] ELSE inbox[c]]
    /\ tasks' = [tasks EXCEPT ![k].at = IF Local THEN "dead" ELSE "next", ![k].job = NoTopic]
    /\ UNCHANGED <<nodeVars, caller, lock, workers, effects, down>>

\* AgentDispatcher::shutdown aborts the tasks; runs that go on start new ones.
Shutdown ==
    /\ ~Local /\ ~down /\ lock = None
    /\ down' = TRUE
    /\ workers' = {}
    /\ tasks' = [k \in DOMAIN tasks |-> [tasks[k] EXCEPT !.at = "dead"]]
    /\ UNCHANGED <<nodeVars, callVars, effects>>

Work(k) ==
    \/ Take(k) \/ Start(k) \/ Confirm(k) \/ WasmBundle(k) \/ SpawnAgent(k)
    \/ Collect(k) \/ Record(k) \/ NativeMailer(k)
    \/ NativeWriter(k) \/ NativeContext(k) \/ Answer(k)

Next ==
    \/ \E c \in Calls : \/ Attempt(c) \/ EnsureWorker(c) \/ SpawnWorker(c) \/ SubscribeReply(c)
                        \/ PublishRequest(c) \/ TakeReply(c) \/ Timeout(c)
    \/ \E k \in DOMAIN tasks : Work(k)
    \/ Shutdown

\* A task that was spawned is scheduled; an operator who is asked answers or the
\* timeout passes.
MaxTasks == Cardinality(Calls) * MaxAttempts
Fairness ==
    /\ \A k \in 1..MaxTasks : WF_vars(k \in DOMAIN tasks /\ Work(k))
    /\ \A c \in Calls : WF_vars(Timeout(c)) /\ WF_vars(TakeReply(c))

Spec == Init /\ [][Next]_vars /\ Fairness

-----------------------------------------------------------------------------
(* Properties *)

TypeOK ==
    /\ config \in Configs /\ agent \in [Calls -> Agents] /\ reviewed \in [Calls -> BOOLEAN]
    /\ workers \subseteq Agents /\ lock \in Calls \cup {None}
    /\ guests \subseteq Invocations
    /\ sent \in [Invocations -> Nat]
    /\ decision \in [Invocations -> {"none", "approved", "rejected", "error"}]

\* No email goes out without an approving critic, nor, where actions are to be
\* confirmed, without the approval of that very attempt, on either path and
\* through the fallback between them (exec_mailer).
ApprovedSends ==
    \A i \in Invocations : agent[i.call] = "mailer" /\ sent[i] > 0 =>
        /\ reviewed[i.call]
        /\ config.confirm => decision[i] = "approved"

\* One attempt sends at most one email, or leaves one draft, and the node reports
\* success only if the attempt it ended with, and not one given up before, has done
\* so (execute, ensure_worker, handle_invocation).
OneEffectPerAttempt ==
    /\ \A i \in Invocations : sent[i] <= 1
    /\ \A c \in Calls :
         caller[c].at = "done" /\ caller[c].result = "completed" /\ agent[c] \in Recorded
            => sent[This(c)] = 1

\* What the daemon has started of an agent ends, whether or not anybody still
\* waits for it (spawn_and_collect kills it on every way out).
GuestsAreKilled ==
    \A i \in Invocations : i \in guests /\ ~Local ~> i \notin guests \/ down

\* An invocation that reached a worker is executed, whatever became of those before
\* it, unless the worker panics or is shut down (the worker's loop).
InvocationsServed ==
    \A k \in 1..MaxTasks :
        (k \in DOMAIN tasks /\ tasks[k].queue # <<>>)
            ~> (k \in DOMAIN tasks /\ (tasks[k].queue = <<>> \/ tasks[k].at = "dead"))

\* Guests and workers outlive the calls they serve, and no longer than they must.
WorkersGoOn == GuestsAreKilled /\ InvocationsServed
=============================================================================
