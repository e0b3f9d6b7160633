------------------------------ MODULE Runner ------------------------------
(***************************************************************************)
(* Runner::run of crates/openings/src/runner.rs: one run of an opening, a  *)
(* validated DAG of nodes.  The runner executes one node at a time; an     *)
(* attempt ends with the executor's answer or with the timeout, is retried *)
(* after a backoff or gives the run up, and a completed node hands its     *)
(* outputs along its edges and decides which successors run or are skipped. *)
(*                                                                         *)
(* Data kept: the outputs of a node are a list of values for each port, or *)
(* Absent; a predicate is the set of values that satisfy it.  What an edge *)
(* delivered is kept as the edge's index.                                  *)
(***************************************************************************)
EXTENDS Integers, Sequences, FiniteSets, SequencesExt

CONSTANTS
    NodeOrder,      \* opening.nodes: the node ids in the order of the file
    Ports,          \* names of output ports
    Values,         \* what a port carries: JSON values
    Absent,         \* in place of its list of values: the outputs do not name the port
    OutputChoices,  \* the NodeOutputs an executor may complete with
    Openings,       \* the edge lists to run; each passed validate_graph
    MaxAttempts,    \* [Nodes -> Nat]: retry.max_attempts
    NodeTimeout,    \* [Nodes -> Nat]: timeout_ms of the node, 0 if absent
    PolicyTimeout,  \* policy.timeout_ms, 0 if absent
    DefaultTimeout, \* 30_000 in the code
    Success,        \* the success condition: [mode, exprs]
    MaxTime         \* bound: elapsed time saturates here

Nodes == ToSet(NodeOrder)

EdgeType == [from : Nodes, port : Ports, to : Nodes, guarded : BOOLEAN, pred : SUBSET Values]
OutputType == [Ports -> Seq(Values) \cup {Absent}]

ASSUME RunnerAssumption ==
    /\ NodeOrder \in Seq(Nodes) /\ NodeOrder # <<>>
    /\ \A i, j \in DOMAIN NodeOrder : NodeOrder[i] = NodeOrder[j] => i = j
    /\ Absent \notin Seq(Values)
    /\ OutputChoices \subseteq OutputType
    /\ Openings \subseteq Seq(EdgeType)
    /\ MaxAttempts \in [Nodes -> Nat]
    /\ NodeTimeout \in [Nodes -> Nat]
    /\ PolicyTimeout \in Nat /\ DefaultTimeout \in Nat \ {0}
    /\ Success.mode \in {"none", "any_of", "all_of"}
    /\ MaxTime \in Nat

VARIABLES
    edges,      \* opening.edges
    state,      \* NodeRecord.state
    tries,      \* attempts made of each node
    result,     \* its last attempt: how it ended, with which outputs
    remaining,  \* inbound edges of each node not yet resolved
    blocked,    \* blocked_predicates
    buffer,     \* input_buffers: the inbound edges that delivered
    queue,      \* nodes ready to run
    phase,      \* where the loop is
    cur,        \* the node being run
    failed,     \* run_failed
    success,    \* trace.success
    event,      \* the last NodeState event sent for each node
    elapsed     \* wall-clock time of the run

graphVars == <<remaining, blocked, buffer, queue>>
nodeVars  == <<state, tries, result, event>>
vars == <<edges, nodeVars, graphVars, phase, cur, failed, success, elapsed>>

-----------------------------------------------------------------------------
NoOutputs == [p \in Ports |-> Absent]
NotRun == [kind |-> "none", out |-> NoOutputs]

\* The lists of all elements of S in the order given by Before.
Listings(S, Before(_, _)) ==
    {q \in [1..Cardinality(S) -> S] :
        /\ ToSet(q) = S
        /\ \A i, j \in DOMAIN q : i < j => Before(q[i], q[j])}

Precedes(n, k) ==
    \E i, j \in DOMAIN NodeOrder : NodeOrder[i] = n /\ NodeOrder[j] = k /\ i < j

In(n) == {i \in DOMAIN edges : edges[i].to = n}
Out(n) == {i \in DOMAIN edges : edges[i].from = n}

ValuesOn(o, port) == IF o[port] = Absent THEN {} ELSE ToSet(o[port])

\* evaluate_predicate: some value of the port satisfies it.
Holds(o, port, pred) == ValuesOn(o, port) \cap pred # {}

Passes(e, o) == e.guarded => Holds(o, e.port, e.pred)
Delivers(e, o) == Passes(e, o) /\ ValuesOn(o, e.port) # {}

AttemptLimit(n) == IF MaxAttempts[n] = 0 THEN 1 ELSE MaxAttempts[n]

TimeoutOf(n) ==
    IF NodeTimeout[n] # 0 THEN NodeTimeout[n]
    ELSE IF PolicyTimeout # 0 THEN PolicyTimeout ELSE DefaultTimeout

\* evaluate_success over the outputs cached so far; a guarded expression is a
\* comparison, an unguarded one exists(node.port).
Satisfied(e) ==
    /\ result[e.node].kind = "completed"
    /\ IF e.guarded THEN Holds(result[e.node].out, e.port, e.pred)
       ELSE ValuesOn(result[e.node].out, e.port) # {}

EvaluateSuccess ==
    CASE Success.mode = "none" -> TRUE
      [] Success.mode = "any_of" -> \E e \in Success.exprs : Satisfied(e)
      [] Success.mode = "all_of" -> \A e \in Success.exprs : Satisfied(e)

Init ==
    /\ edges \in Openings
    /\ state = [n \in Nodes |-> "Pending"]
    /\ tries = [n \in Nodes |-> 0]
    /\ result = [n \in Nodes |-> NotRun]
    /\ event = [n \in Nodes |-> "none"]
    /\ remaining = [n \in Nodes |-> Cardinality(In(n))]
    /\ blocked = {}
    /\ buffer = [n \in Nodes |-> {}]
    /\ queue \in Listings({n \in Nodes : In(n) = {}}, Precedes)
    /\ phase = "loop"
    /\ cur = NodeOrder[1]
    /\ failed = FALSE
    /\ success = FALSE
    /\ elapsed = 0

-----------------------------------------------------------------------------
\* Mutant: the attempt counter starts again with every attempt.
BeginAttemptReset(n) ==
    /\ phase' = "attempt"
    /\ tries' = [tries EXCEPT ![n] = 1]
    /\ event' = [event EXCEPT ![n] = "Running"]

\* An attempt of node n starts: Running is announced, the executor is called.
BeginAttempt(n) ==
    /\ phase' = "attempt"
    /\ tries' = [tries EXCEPT ![n] = @ + 1]
    /\ event' = [event EXCEPT ![n] = "Running"]

StartNode ==
    /\ phase = "loop" /\ ~failed /\ queue # <<>>
    /\ cur' = Head(queue)
    /\ queue' = Tail(queue)
    /\ state' = [state EXCEPT ![Head(queue)] = "Running"]
    /\ buffer' = [buffer EXCEPT ![Head(queue)] = {}]
    /\ BeginAttempt(Head(queue))
    /\ UNCHANGED <<edges, result, remaining, blocked, failed, success, elapsed>>

\* An attempt or a backoff takes d.
Spend(d) == elapsed' = IF elapsed + d > MaxTime THEN MaxTime ELSE elapsed + d

EndsWith(kind, o) == result' = [result EXCEPT ![cur] = [kind |-> kind, out |-> o]]

\* Mutant: one decrement per successor, although the counters count edges.
LeftPerNode(n) ==
    [t \in Nodes |-> IF Out(n) \cap In(t) = {} THEN remaining[t] ELSE remaining[t] - 1]

\* The counters once every edge out of n is resolved.
Left(n) == [t \in Nodes |-> remaining[t] - Cardinality(Out(n) \cap In(t))]

\* The nodes whose last inbound edge has just been resolved.
Resolved(left) == {t \in Nodes : remaining[t] > 0 /\ left[t] = 0}

\* The executor completes with outputs o: they travel along the outgoing edges.
Complete(o, d) ==
    LET n == cur
        left == Left(n)
        block == blocked \cup {edges[i].to : i \in {j \in Out(n) : ~Passes(edges[j], o)}}
        filled == [t \in Nodes |->
                      buffer[t] \cup {i \in Out(n) \cap In(t) : Delivers(edges[i], o)}]
        resolved == Resolved(left)
        ready == {t \in resolved : t \notin block /\ filled[t] # {}}
        \* a node is pushed at its last edge, in the order of the edges
        earlier(t, u) == \E i \in Out(n) \cap In(u) : \A j \in Out(n) \cap In(t) : j < i
    IN  /\ phase = "attempt" /\ d <= TimeoutOf(n)
        /\ EndsWith("completed", o)
        /\ remaining' = left
        /\ blocked' = block \ resolved
        /\ buffer' = filled
        /\ \E q \in Listings(ready, earlier) : queue' = queue \o q
        /\ state' = [t \in Nodes |-> IF t = n THEN "Succeeded"
                                     ELSE IF t \in resolved \ ready THEN "Skipped"
                                     ELSE state[t]]
        /\ event' = [event EXCEPT ![n] = "Succeeded"]
        /\ phase' = "loop"
        /\ Spend(d)
        /\ UNCHANGED <<edges, tries, cur, failed, success>>

\* Failed { retryable }, Err(_) or the timeout of the attempt, after time d.
Fault(kind, d) ==
    /\ phase = "attempt"
    /\ IF kind = "timeout" THEN d = TimeoutOf(cur) ELSE d <= TimeoutOf(cur)
    /\ Spend(d)
    /\ EndsWith(kind, NoOutputs)

\* A fatal failure and an executor error are never tried again.
MayRetry(kind) == kind \in {"retryable", "timeout"} /\ tries[cur] < AttemptLimit(cur)

RetryLater(kind, d) ==
    /\ Fault(kind, d)
    /\ MayRetry(kind)
    /\ phase' = "backoff"
    /\ UNCHANGED <<edges, state, tries, event, graphVars, cur, failed, success>>

GiveUp(kind, d) ==
    /\ Fault(kind, d)
    /\ ~MayRetry(kind)
    /\ state' = [state EXCEPT ![cur] = "Failed"]
    /\ event' = [event EXCEPT ![cur] = "Failed"]
    /\ failed' = TRUE
    /\ phase' = "loop"
    /\ UNCHANGED <<edges, tries, graphVars, cur, success>>

\* The backoff of compute_backoff_ms is over.
Retry(d) ==
    /\ phase = "backoff"
    /\ BeginAttempt(cur)
    /\ Spend(d)
    /\ UNCHANGED <<edges, state, result, graphVars, cur, failed, success>>

\* Mutant: the verdict looks at the outputs only.
FinishIgnoresFailure ==
    /\ phase = "loop" /\ (failed \/ queue = <<>>)
    /\ LET rest == {n \in Nodes : state[n] \notin {"Succeeded", "Failed"}}
       IN  /\ state' = [n \in Nodes |-> IF n \in rest THEN "Skipped" ELSE state[n]]
           /\ event' = [n \in Nodes |-> IF n \in rest THEN "Skipped" ELSE event[n]]
    /\ success' = EvaluateSuccess
    /\ phase' = "done"
    /\ UNCHANGED <<edges, tries, result, graphVars, cur, failed, elapsed>>

\* Mutant: only nodes still pending are announced as skipped.
FinishAnnouncesPending ==
    /\ phase = "loop" /\ (failed \/ queue = <<>>)
    /\ LET rest == {n \in Nodes : state[n] \notin {"Succeeded", "Failed"}}
       IN  /\ state' = [n \in Nodes |-> IF n \in rest THEN "Skipped" ELSE state[n]]
           /\ event' = [n \in Nodes |-> IF state[n] = "Pending" THEN "Skipped" ELSE event[n]]
    /\ success' = (~failed /\ EvaluateSuccess)
    /\ phase' = "done"
    /\ UNCHANGED <<edges, tries, result, graphVars, cur, failed, elapsed>>

\* The loop ends: what neither succeeded nor failed is skipped and announced,
\* the verdict is formed and the report returned.
Finish ==
    /\ phase = "loop" /\ (failed \/ queue = <<>>)
    /\ LET rest == {n \in Nodes : state[n] \notin {"Succeeded", "Failed"}}
       IN  /\ state' = [n \in Nodes |-> IF n \in rest THEN "Skipped" ELSE state[n]]
           /\ event' = [n \in Nodes |-> IF n \in rest THEN "Skipped" ELSE event[n]]
    /\ success' = (~failed /\ EvaluateSuccess)
    /\ phase' = "done"
    /\ UNCHANGED <<edges, tries, result, graphVars, cur, failed, elapsed>>

Faults == {"retryable", "fatal", "error", "timeout"}

Next ==
    \/ StartNode \/ Finish
    \/ \E d \in 0..TimeoutOf(cur) :
           \/ \E o \in OutputChoices : Complete(o, d)
           \/ \E kind \in Faults : RetryLater(kind, d) \/ GiveUp(kind, d)
           \/ Retry(d)

Spec == Init /\ [][Next]_vars

\* Every attempt ends, by its timeout if not before, and every sleep does.
FairSpec == Spec /\ WF_vars(Next)

-----------------------------------------------------------------------------
(* Properties *)

NodeStates == {"Pending", "Running", "Succeeded", "Failed", "Skipped"}
ResultType == [kind : Faults \cup {"none", "completed"}, out : OutputType]

TypeOK ==
    /\ edges \in Openings
    /\ state \in [Nodes -> NodeStates]
    /\ tries \in [Nodes -> Nat]
    /\ result \in [Nodes -> ResultType]
    /\ remaining \in [Nodes -> Nat]
    /\ blocked \subseteq Nodes
    /\ buffer \in [Nodes -> SUBSET Nat]
    /\ queue \in Seq(Nodes)
    /\ phase \in {"loop", "attempt", "backoff", "done"}
    /\ cur \in Nodes
    /\ failed \in BOOLEAN /\ success \in BOOLEAN
    /\ event \in [Nodes -> NodeStates \cup {"none"}]
    /\ elapsed \in 0..MaxTime

\* What the edges of an opening mean: a node runs iff every source of its
\* inbound edges succeeded, every inbound predicate holds of the source's
\* outputs, and at least one edge carried a value.
Eligible(n) ==
    /\ \A i \in In(n) : /\ state[edges[i].from] = "Succeeded"
                        /\ Passes(edges[i], result[edges[i].from].out)
    /\ In(n) # {} => \E i \in In(n) : Delivers(edges[i], result[edges[i].from].out)

\* No attempt is ever made of a node whose inbound dependencies are not all
\* ready, whatever order nodes complete in (the remaining counters, the
\* blocked set and the input buffers together).
StartedIsEligible == \A n \in Nodes : tries[n] > 0 => Eligible(n)

\* A run in which no node failed has executed exactly the eligible nodes:
\* none is lost by a counter that never reaches zero or a buffer left behind.
DataflowSemantics ==
    phase = "done" /\ ~failed
        => \A n \in Nodes : state[n] = "Succeeded" <=> Eligible(n)

\* One failure ends the run: at most one node is Failed, its last attempt was
\* not a success, nothing is Running once the report is out, and a run with a
\* failed node is never reported as a success.
FailFast ==
    /\ failed <=> \E n \in Nodes : state[n] = "Failed"
    /\ \A n, k \in Nodes : state[n] = "Failed" /\ state[k] = "Failed" => n = k
    /\ \A n \in Nodes : state[n] = "Failed" =>
           /\ result[n].kind \in Faults
           /\ result[n].kind \in {"retryable", "timeout"} => tries[n] = AttemptLimit(n)
    /\ phase = "done" => \A n \in Nodes : state[n] \in {"Succeeded", "Failed", "Skipped"}
    /\ success => phase = "done" /\ ~failed

\* The runner never asks for more attempts than the retry policy allows, and
\* a node that was skipped was never attempted.
AttemptsBounded ==
    \A n \in Nodes : /\ tries[n] <= AttemptLimit(n)
                     /\ state[n] \in {"Pending", "Skipped"} <=> tries[n] = 0

\* What observers of the event stream are told last about a node is what the
\* report says of it.
EventsAgree == phase = "done" => event = state

\* Resolved inbound edges of t whose predicate failed, and those that delivered.
Refused(t) == {i \in In(t) : /\ state[edges[i].from] = "Succeeded"
                             /\ ~Passes(edges[i], result[edges[i].from].out)}
Carried(t) == {i \in In(t) : /\ state[edges[i].from] = "Succeeded"
                             /\ Delivers(edges[i], result[edges[i].from].out)}

\* The inductive invariant behind the safety properties.  A counter is
\* the number of inbound edges whose source has not succeeded; while it is
\* positive the node is untouched, and the blocked set and its buffer know what
\* the resolved edges said; a queued node is eligible and queued once, and a
\* resolved node that is not queued has run or is not eligible.
CountersExact ==
    remaining = [t \in Nodes |->
                    Cardinality({i \in In(t) : state[edges[i].from] # "Succeeded"})]

UnresolvedWaits ==
    \A t \in Nodes : remaining[t] > 0 =>
        /\ tries[t] = 0
        /\ phase # "done" => state[t] = "Pending"
        /\ t \in blocked <=> Refused(t) # {}
        /\ buffer[t] = Carried(t)

QueueIsReady ==
    /\ \A k \in DOMAIN queue :
           /\ remaining[queue[k]] = 0 /\ tries[queue[k]] = 0
           /\ phase # "done" => state[queue[k]] = "Pending"
           /\ Eligible(queue[k])
    /\ \A k, l \in DOMAIN queue : queue[k] = queue[l] => k = l

ResolvedIsSettled ==
    phase # "done" =>
        \A t \in Nodes :
            /\ remaining[t] = 0 /\ state[t] = "Pending" => \E k \in DOMAIN queue : queue[k] = t
            /\ state[t] = "Skipped" => ~Eligible(t)

CurrentRuns ==
    /\ phase \in {"attempt", "backoff"} => ~failed /\ state[cur] = "Running" /\ tries[cur] > 0
    /\ phase = "backoff" => tries[cur] < AttemptLimit(cur)
    /\ \A n \in Nodes : state[n] = "Running" => n = cur /\ phase \in {"attempt", "backoff"}

RunnerInv ==
    /\ CountersExact /\ UnresolvedWaits /\ QueueIsReady /\ ResolvedIsSettled /\ CurrentRuns
    /\ StartedIsEligible /\ DataflowSemantics /\ FailFast /\ AttemptsBounded

\* Every run ends, whatever the executor does.
RunTerminates == <>(phase = "done")

\* What the language reference says of policy.timeout_ms: when it has passed,
\* the remaining nodes are cancelled, so none is started.
DeadlineCancels ==
    [][PolicyTimeout # 0 /\ elapsed >= PolicyTimeout => tries' = tries]_vars
=============================================================================
