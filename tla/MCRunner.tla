------------------------------ MODULE MCRunner ------------------------------
(***************************************************************************)
(* Runs and their replays for TLC.  The openings are all edge lists of up  *)
(* to MaxEdges edges over three nodes that respect a < b < c, so acyclic;  *)
(* those of up to MaxReplayed edges are replayed, with and without c.      *)
(***************************************************************************)
EXTENDS Replay

CONSTANTS MaxEdges, MaxReplayed, a, b, c

\* Texts: the port "out" and the JSON values 1, 2 and 12.
OutPort == <<"out">>
One == <<"1">>
Two == <<"2">>
Twelve == <<"1", "2">>

\* An edge of the enumeration: unguarded, or guarded by "the value is 1".
MCEdge(from, to, guarded) ==
    [from |-> from, port |-> OutPort, to |-> to, guarded |-> guarded,
     pred |-> IF guarded THEN {One} ELSE {}]

Order3 == <<b, a, c>>

\* All edges over three nodes that respect a < b < c.
ForwardEdges ==
    {MCEdge(e[1], e[2], g) : e \in {<<a, b>>, <<a, c>>, <<b, c>>}, g \in BOOLEAN}

SmallOpenings == UNION {[1..k -> ForwardEdges] : k \in 0..MaxEdges}

MCPorts == {OutPort}
MCPortOrder == <<OutPort>>
MCValues == {One, Two, Twelve}

\* No port, an empty one, and two lists that are hashed alike.
MCOutputs == {NoOutputs} \cup {[p \in Ports |-> q] : q \in {<<>>, <<One, Two>>, <<Twelve>>}}
Twice == [n \in Nodes |-> IF n = a THEN 2 ELSE 0]
NoTimeouts == [n \in Nodes |-> 0]
SuccessOfLast == [mode |-> "any_of", exprs |-> {[node |-> c, port |-> OutPort, guarded |-> FALSE, pred |-> {}]}]

MCMissing == {{}, {c}}
Replayed == Len(edges) <= MaxReplayed

MCInit == ReplayInit /\ (~Replayed => missing = {})
MCNext == ReplayNext /\ (phase = "done" => Replayed)
MCSpec == MCInit /\ [][MCNext]_<<vars, replayVars>> /\ WF_vars(Next)
=============================================================================
