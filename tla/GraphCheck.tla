----------------------------- MODULE GraphCheck -----------------------------
(***************************************************************************)
(* validate_graph of crates/openings/src/parser.rs: the check that the     *)
(* edges of an opening name existing nodes and form a DAG, by removing     *)
(* nodes without inbound edges until none is left.  A graph that passes is *)
(* what Runner runs.  The FIFO of the code is a set here: the verdict does *)
(* not depend on the order.                                                *)
(***************************************************************************)
EXTENDS Integers, Sequences, FiniteSets

CONSTANTS
    Nodes,      \* the node ids of the opening
    Names,      \* the names its edges may use
    EdgeLists   \* the edge lists to check

VARIABLES
    edges,      \* the edges of the opening
    verdict,    \* "open" while checking, then "ok", "unknown_node" or "cycle"
    indegree,   \* inbound edges from nodes not removed yet
    queue,      \* nodes with indegree zero, still to be removed
    visited     \* the removed nodes; the code keeps their number

vars == <<edges, verdict, indegree, queue, visited>>

In(n) == {i \in DOMAIN edges : edges[i].to = n}
Out(n) == {i \in DOMAIN edges : edges[i].from = n}

KnownNodes == \A i \in DOMAIN edges : edges[i].from \in Nodes /\ edges[i].to \in Nodes

Init ==
    /\ edges \in EdgeLists
    /\ verdict = IF KnownNodes THEN "open" ELSE "unknown_node"
    /\ indegree = [n \in Nodes |-> Cardinality(In(n))]
    /\ queue = {n \in Nodes : In(n) = {}}
    /\ visited = {}

\* Mutant: one decrement per successor, although indegree counts edges.
LeftPerNode(n) ==
    [t \in Nodes |-> IF Out(n) \cap In(t) = {} THEN indegree[t] ELSE indegree[t] - 1]

Left(n) == [t \in Nodes |-> indegree[t] - Cardinality(Out(n) \cap In(t))]

\* Pop a node and take its edges away.
Remove(n) ==
    /\ verdict = "open" /\ n \in queue
    /\ visited' = visited \cup {n}
    /\ indegree' = Left(n)
    /\ queue' = (queue \ {n}) \cup {t \in Nodes : indegree[t] > 0 /\ Left(n)[t] = 0}
    /\ UNCHANGED <<edges, verdict>>

Decide ==
    /\ verdict = "open" /\ queue = {}
    /\ verdict' = IF Cardinality(visited) # Cardinality(Nodes) THEN "cycle" ELSE "ok"
    /\ UNCHANGED <<edges, indegree, queue, visited>>

Next == (\E n \in Nodes : Remove(n)) \/ Decide

Spec == Init /\ [][Next]_vars

-----------------------------------------------------------------------------
\* A cycle, without walking it: nodes each of which has a predecessor among them.
Loop(S) == S # {} /\ \A n \in S : \E i \in In(n) : edges[i].from \in S

Cyclic == \E S \in SUBSET Nodes : Loop(S)

\* validate_graph accepts an opening iff its edges name nodes of the opening
\* and have no cycle, parallel edges and self-loops included.
VerdictCorrect ==
    /\ verdict = "unknown_node" <=> ~KnownNodes
    /\ verdict = "cycle" => Cyclic
    /\ verdict = "ok" => ~Cyclic

\* The inductive invariant: indegree counts the edges from nodes not removed
\* yet, the queue holds exactly the nodes that have none left, and no node of
\* a cycle is ever removed.
GraphInv ==
    /\ edges \in EdgeLists
    /\ verdict \in {"open", "unknown_node", "cycle", "ok"}
    /\ verdict = "unknown_node" <=> ~KnownNodes
    /\ visited \subseteq Nodes /\ queue \subseteq Nodes /\ visited \cap queue = {}
    /\ KnownNodes =>
        /\ indegree = [n \in Nodes |-> Cardinality({i \in In(n) : edges[i].from \notin visited})]
        /\ queue = {n \in Nodes \ visited : indegree[n] = 0}
        /\ \A n \in visited : \A i \in In(n) : edges[i].from \in visited
    /\ \A S \in SUBSET Nodes : Loop(S) => S \cap visited = {}
    /\ verdict = "ok" => visited = Nodes
    /\ verdict = "cycle" => visited # Nodes /\ queue = {}
=============================================================================
