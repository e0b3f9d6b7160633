-------------------------------- MODULE Agtop --------------------------------
(***************************************************************************)
(* The monitor's application state (crates/agtop/src/state.rs): the events *)
(* its collector hands over, the keys of the operator, the four panes and  *)
(* the dialog in which an action is approved or rejected.  Lines of a pane *)
(* are the positions of their events in the stream; times and texts are    *)
(* left out.                                                               *)
(***************************************************************************)
EXTENDS Integers, Sequences, FiniteSets

CONSTANTS
    Feed,        \* the events that may come
    None,
    MaxEvents    \* bound

VARIABLES
    given,       \* the events handed to handle_event
    screen,      \* pane, filter (is its input open), paused, quit
    buffered,    \* buffered_events
    modal,       \* the request the dialog shows, or 0
    view,        \* AppState: logs, plan, metrics, trace
    decisions,   \* what was sent to the collector for publishing
    cleared      \* for each pane the number of events it had seen when it was cleared

vars == <<given, screen, buffered, modal, view, decisions, cleared>>

Panes == <<"log", "plan", "metrics", "trace">>
LogKinds == {"log", "node.stdout", "node.stderr"}
PlanKinds == {"plan", "status", "node.started", "node.finished", "run.finished"}
TraceKinds == {"trace", "trace.line"}

Init ==
    /\ given = <<>>
    /\ screen = [pane |-> 2, filter |-> FALSE, paused |-> FALSE, quit |-> FALSE]
    /\ buffered = <<>> /\ modal = 0
    /\ view = [logs |-> <<>>, plan |-> <<>>, metrics |-> <<>>, trace |-> <<>>]
    /\ decisions = <<>>
    /\ cleared = [p \in DOMAIN Panes |-> 0]

-----------------------------------------------------------------------------
(* process_event *)

\* The pane a run event goes to.  A status without a node is a line of the log.
PaneOf(e) ==
    CASE e.type = "error" -> "log"
      [] e.type = "run" /\ e.kind \in PlanKinds -> IF e.node = None THEN "log" ELSE "plan"
      [] e.type = "run" /\ e.kind \in TraceKinds -> "trace"
      [] e.type = "run" /\ e.kind \notin PlanKinds \cup TraceKinds -> "log"
      [] e.type = "metrics" -> "metrics"
      [] OTHER -> "dialog"

\* An event sets what it carries of its node's status and leaves the rest.
NodeStatus(plan, e) ==
    LET old == IF e.node \in DOMAIN plan THEN plan[e.node] ELSE [status |-> "pending", attempt |-> 0, errors |-> 0]
    IN [status |-> IF e.state = None THEN e.kind ELSE e.state,
        attempt |-> IF e.attempt = None THEN old.attempt ELSE e.attempt,
        errors |-> IF e.failed THEN old.errors + 1 ELSE old.errors]

With(f, key, value) == [k \in DOMAIN f \cup {key} |-> IF k = key THEN value ELSE f[k]]

\* process_metrics: the values of a source are replaced one by one.  The depth of
\* the status bar is taken from bus_queue_depth_max where there is none yet.
SourceOf(e) == IF e.label # None THEN e.label ELSE IF e.source # None THEN e.source ELSE e.scope

Gauges(metrics, e) ==
    LET old == IF SourceOf(e) \in DOMAIN metrics THEN metrics[SourceOf(e)] ELSE <<>>
        new == [g \in DOMAIN old \cup DOMAIN e.gauges |-> IF g \in DOMAIN e.gauges THEN e.gauges[g] ELSE old[g]]
    IN IF "bus_queue_depth_max" \in DOMAIN e.gauges /\ "bus_queue_depth" \notin DOMAIN new
       THEN With(new, "bus_queue_depth", e.gauges["bus_queue_depth_max"]) ELSE new

\* The state after the i-th event: the panes, and the request of the dialog.
Processed(state, i, e) ==
    LET v == state.view
    IN CASE PaneOf(e) = "log" -> [state EXCEPT !.view.logs = Append(@, i)]
         [] PaneOf(e) = "plan" -> [state EXCEPT !.view.plan = With(@, e.node, NodeStatus(v.plan, e))]
         [] PaneOf(e) = "trace" -> [state EXCEPT !.view.trace = Append(@, i)]
         [] PaneOf(e) = "metrics" -> [state EXCEPT !.view.metrics = With(@, SourceOf(e), Gauges(v.metrics, e))]
         [] PaneOf(e) = "dialog" -> [state EXCEPT !.modal = i]

\* handle_event
HandleEvent(e) ==
    /\ ~screen.quit /\ Len(given) < MaxEvents
    /\ given' = Append(given, e)
    /\ LET next == Processed([view |-> view, modal |-> modal], Len(given'), e)
       IN IF screen.paused THEN buffered' = Append(buffered, Len(given')) /\ UNCHANGED <<view, modal>>
          ELSE view' = next.view /\ modal' = next.modal /\ UNCHANGED buffered
    /\ UNCHANGED <<screen, decisions, cleared>>

-----------------------------------------------------------------------------
(* on_key: the filter's input comes first, then the dialog *)

FilterKey ==
    /\ ~screen.quit /\ screen.filter
    /\ screen' = [screen EXCEPT !.filter = FALSE]
    /\ UNCHANGED <<given, buffered, modal, view, decisions, cleared>>

\* Enter approves, Esc rejects.
ResolveAction ==
    /\ ~screen.quit /\ ~screen.filter /\ modal # 0
    /\ \E approved \in BOOLEAN : decisions' = Append(decisions, [request |-> modal, approved |-> approved])
    /\ modal' = 0
    /\ UNCHANGED <<given, screen, buffered, view, cleared>>

Listening == ~screen.quit /\ ~screen.filter /\ modal = 0

SwitchPane ==
    /\ Listening
    /\ \E step \in {1, 3} : screen' = [screen EXCEPT !.pane = ((@ - 1 + step) % 4) + 1]
    /\ UNCHANGED <<given, buffered, modal, view, decisions, cleared>>

OpenFilter ==
    /\ Listening
    /\ screen' = [screen EXCEPT !.filter = TRUE]
    /\ UNCHANGED <<given, buffered, modal, view, decisions, cleared>>

Quit ==
    /\ Listening
    /\ screen' = [screen EXCEPT !.quit = TRUE]
    /\ UNCHANGED <<given, buffered, modal, view, decisions, cleared>>

\* Mutant: what came while the view was paused stays in the buffer.
TogglePauseKeeps ==
    /\ Listening
    /\ screen' = [screen EXCEPT !.paused = ~@]
    /\ UNCHANGED <<given, buffered, modal, view, decisions, cleared>>

\* The state once the events of the buffer are processed, all of them.
Resumed ==
    LET state[k \in 0..Len(buffered)] ==
            IF k = 0 THEN [view |-> view, modal |-> modal]
            ELSE Processed(state[k - 1], buffered[k], given[buffered[k]])
    IN state[Len(buffered)]

TogglePause ==
    /\ Listening
    /\ screen' = [screen EXCEPT !.paused = ~@]
    /\ view' = Resumed.view /\ modal' = Resumed.modal
    /\ buffered' = <<>>
    /\ UNCHANGED <<given, decisions, cleared>>

\* clear_pane: the plan is kept.
ClearPane ==
    /\ Listening
    /\ view' = CASE Panes[screen.pane] = "log" -> [view EXCEPT !.logs = <<>>]
                 [] Panes[screen.pane] = "trace" -> [view EXCEPT !.trace = <<>>]
                 [] Panes[screen.pane] = "metrics" -> [view EXCEPT !.metrics = <<>>]
                 [] OTHER -> view
    /\ cleared' = [cleared EXCEPT ![screen.pane] = IF Panes[screen.pane] = "plan" THEN 0 ELSE Len(given) - Len(buffered)]
    /\ UNCHANGED <<given, screen, buffered, modal, decisions>>

Next ==
    \/ \E e \in Feed : HandleEvent(e)
    \/ FilterKey \/ ResolveAction \/ SwitchPane \/ OpenFilter \/ Quit \/ TogglePause \/ ClearPane

Spec == Init /\ [][Next]_vars

-----------------------------------------------------------------------------
(* Properties *)

Done == 1..(Len(given) - Len(buffered))
Since(p) == {i \in Done : PaneOf(given[i]) = Panes[p] /\ i > cleared[p]}
Latest(S) == IF S = {} THEN 0 ELSE CHOOSE i \in S : \A j \in S : j <= i

\* The lines of a pane are the events of S, once and in order.
Lists(lines, S) ==
    /\ {lines[k] : k \in DOMAIN lines} = S
    /\ \A j, k \in DOMAIN lines : j < k => lines[j] < lines[k]

\* Whatever is paused, resumed, filtered and cleared in between, the panes show the
\* stream: every event since the pane was cleared, once and in order, but for those
\* that wait for the resume (handle_event, unpause, clear_pane).
ViewIsTheStream ==
    /\ buffered = [k \in 1..Len(buffered) |-> Len(given) - Len(buffered) + k]
    /\ ~screen.paused => buffered = <<>>
    /\ Lists(view.logs, Since(1)) /\ Lists(view.trace, Since(4))
    /\ DOMAIN view.plan = {given[i].node : i \in Since(2)}
    /\ \A n \in DOMAIN view.plan :
         LET of == {i \in Since(2) : given[i].node = n}
             told == Latest({i \in of : given[i].attempt # None})
         IN /\ view.plan[n].attempt = IF told = 0 THEN 0 ELSE given[told].attempt
            /\ view.plan[n].errors = Cardinality({i \in of : given[i].failed})

\* No request is decided twice, and none after a later one (resolve_action).
DecidesOnce ==
    /\ \A k \in 1..(Len(decisions) - 1) : decisions[k].request < decisions[k + 1].request
    /\ modal # 0 => \A k \in DOMAIN decisions : decisions[k].request < modal

\* The status bar shows the depth of the bus' queues (crates/agtop/README.md:37,
\* docs/tui.md:111): that of the last snapshot.
DepthIsCurrent ==
    LET last == Latest({i \in Since(3) : SourceOf(given[i]) = "system" /\ "bus_queue_depth_max" \in DOMAIN given[i].gauges})
    IN last # 0 => view.metrics["system"]["bus_queue_depth"] = given[last].gauges["bus_queue_depth_max"]

\* A request that waits for its decision is shown (docs/tui.md:82).
PendingIsShown ==
    \A i \in Done : given[i].type = "request" /\ (\A k \in DOMAIN decisions : decisions[k].request # i) => modal = i
=============================================================================
