------------------------------- MODULE MCParts -------------------------------
(***************************************************************************)
(* The parts that stand alone, side by side: each behaviour is one of the  *)
(* tables of MCLibrary, the check of one opening's graph, one of the two   *)
(* caches, or the monitor.  What the part does not use keeps its initial   *)
(* value.                                                                  *)
(***************************************************************************)
EXTENDS MCLibrary

CONSTANTS a, b, c, ghost, MaxEdges

VARIABLE part

MCEdgeLists == UNION {[1..k -> [from : Names, to : Nodes]] : k \in 0..MaxEdges}

Event(kind, node, state, attempt, failed) ==
    [type |-> "run", kind |-> kind, node |-> node, state |-> state, attempt |-> attempt, failed |-> failed]

Snapshot(depth) ==
    [type |-> "metrics", label |-> None, source |-> None, scope |-> "system", gauges |-> "bus_queue_depth_max" :> depth]

MCFeed ==
    {Event("run.finished", None, None, None, FALSE), Event("node.started", "n", None, 1, FALSE),
     Event("node.finished", "n", "failed", None, TRUE), [type |-> "request"]}
MCSnapshots == {Snapshot(1), Snapshot(2)}

PartsInit ==
    /\ part \in {"tables", "graph", "secrets", "modules", "monitor"}
    /\ TablesInit /\ Cache!Init /\ Monitor!Init
    /\ Graph!Init /\ (part # "graph" => edges = <<>>)

PartsNext ==
    /\ UNCHANGED part
    /\ \/ part = "tables" /\ TablesNext /\ UNCHANGED <<graphVars, cacheVars, monitorVars>>
       \/ part = "graph" /\ Graph!Next /\ UNCHANGED <<case, cacheVars, monitorVars>>
       \/ part = "secrets" /\ Cache!SecretsNext /\ UNCHANGED <<case, graphVars, monitorVars>>
       \/ part = "modules" /\ Cache!ModulesNext /\ UNCHANGED <<case, graphVars, monitorVars>>
       \/ part = "monitor" /\ Monitor!Next /\ UNCHANGED <<case, graphVars, cacheVars>>

PartsSpec == PartsInit /\ [][PartsNext]_<<part, case, graphVars, cacheVars, monitorVars>>

\* Agtop: the status bar shows the depth of the last snapshot
\* (crates/agtop/README.md:37).
DepthIsCurrent == Monitor!DepthIsCurrent
=============================================================================
