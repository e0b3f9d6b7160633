------------------------------- MODULE Replay -------------------------------
(***************************************************************************)
(* replay() of crates/openings/src/replay.rs: the trace of a finished run  *)
(* is executed again, node by node in trace order, and every answer is     *)
(* compared with the recorded final attempt.  The executor may answer      *)
(* anything; the opening may have lost nodes since the run.                *)
(*                                                                         *)
(* A blake3 hash is modelled by what its hasher was fed, so two hashes are *)
(* equal iff the same bytes were fed.  Names of ports and JSON values are  *)
(* texts (sequences of characters or longer pieces): NodeOutputs::hash     *)
(* feeds them one after the other with nothing in between, so different    *)
(* outputs may have the same hash.                                         *)
(***************************************************************************)
EXTENDS Runner

CONSTANTS
    PortOrder,         \* the ports in the order of their names
    MissingChoices     \* the sets of nodes the opening may have lost since the run

ASSUME ReplayAssumption ==
    /\ PortOrder \in Seq(Ports) /\ ToSet(PortOrder) = Ports
    /\ MissingChoices \subseteq SUBSET Nodes

VARIABLES
    missing,    \* nodes of the trace the opening no longer has
    at,         \* position in trace.nodes
    mismatches, \* nodes reported as mismatches
    fed,        \* what replay's hasher was given
    aborted,    \* the executor returned Err, replay returned it
    \* History variable, read by no action.
    faithful    \* every answer so far was the recorded one, value by value

replayVars == <<missing, at, mismatches, fed, aborted, faithful>>

\* The error text of an attempt: the executor gives a reason whether or not it
\* allows a retry, an executor error and a timeout have texts of their own.
Reason(r) ==
    CASE r.kind \in {"retryable", "fatal"} -> "reason"
      [] r.kind = "completed" -> "none"
      [] OTHER -> r.kind

\* What NodeOutputs::hash feeds its hasher: the name of every port the outputs
\* have and then its values, port by port in the order of the names.
OutputText(o) ==
    FlattenSeq([i \in DOMAIN PortOrder |->
        IF o[PortOrder[i]] = Absent THEN <<>> ELSE PortOrder[i] \o FlattenSeq(o[PortOrder[i]])])

\* What the hasher of the run is fed for a final attempt: the hash of the outputs
\* or the text of the error.
Item(r) == [hash |-> OutputText(r.out), error |-> Reason(r)]

\* Where in the trace the nodes are that have a final attempt, and how many of
\* them there are up to a position.
Attempted == {i \in DOMAIN NodeOrder : tries[NodeOrder[i]] > 0}
Rank(i) == Cardinality(Attempted \cap 1..i)

\* The items in the order of the trace.
FinalHash ==
    [k \in 1..Cardinality(Attempted) |->
        Item(result[NodeOrder[CHOOSE i \in Attempted : Rank(i) = k]])]

Answers == {[kind |-> "completed", out |-> o] : o \in OutputChoices}
              \cup {[kind |-> k, out |-> NoOutputs] : k \in {"retryable", "fatal"}}

ReplayInit ==
    /\ Init
    /\ missing \in MissingChoices
    /\ at = 1
    /\ mismatches = {}
    /\ fed = <<>>
    /\ aborted = FALSE
    /\ faithful = TRUE

Replaying == phase = "done" /\ ~aborted /\ at <= Len(NodeOrder)
Node == NodeOrder[at]

\* No final attempt, or no node to execute it: nothing is called.
ReplaySkip ==
    /\ Replaying
    /\ Node \in missing \/ tries[Node] = 0
    /\ mismatches' = IF Node \in missing THEN mismatches \cup {Node} ELSE mismatches
    /\ at' = at + 1
    /\ UNCHANGED <<vars, missing, fed, aborted, faithful>>

\* The hasher takes an answer that has the recorded outcome: the new outputs,
\* or the recorded error.
Feed(answer) ==
    IF answer.kind = "completed"
    THEN IF state[Node] = "Succeeded" THEN Append(fed, Item(answer)) ELSE fed
    ELSE IF state[Node] = "Failed" THEN Append(fed, Item(result[Node])) ELSE fed

\* Mutant: only the outcome is compared.
SameIgnoringOutputs(answer) == (answer.kind = "completed") = (state[Node] = "Succeeded")

\* Same outcome, and same output hash or same reason.
Same(answer) ==
    IF answer.kind = "completed"
    THEN state[Node] = "Succeeded" /\ OutputText(answer.out) = OutputText(result[Node].out)
    ELSE state[Node] = "Failed" /\ Reason(answer) = Reason(result[Node])

ReplayNode(answer) ==
    /\ Replaying
    /\ Node \notin missing /\ tries[Node] > 0
    /\ fed' = Feed(answer)
    /\ mismatches' = IF Same(answer) THEN mismatches ELSE mismatches \cup {Node}
    /\ faithful' = (faithful /\ answer.out = result[Node].out
                             /\ Reason(answer) = Reason(result[Node]))
    /\ at' = at + 1
    /\ UNCHANGED <<vars, missing, aborted>>

ReplayAbort ==
    /\ Replaying
    /\ Node \notin missing /\ tries[Node] > 0
    /\ aborted' = TRUE
    /\ UNCHANGED <<vars, missing, at, mismatches, fed, faithful>>

ReplayNext ==
    \/ Next /\ UNCHANGED replayVars
    \/ ReplaySkip \/ ReplayAbort
    \/ \E answer \in Answers : ReplayNode(answer)

ReplaySpec == ReplayInit /\ [][ReplayNext]_<<vars, replayVars>>

-----------------------------------------------------------------------------
ReplayDone == phase = "done" /\ ~aborted /\ at > Len(NodeOrder)

\* A replay without mismatches has the hash of the trace, although the two
\* hashers are fed by different code.
MatchReproduces == ReplayDone /\ mismatches = {} => fed = FinalHash

\* A deterministic executor and an unchanged opening replay without a mismatch,
\* also for nodes that were retried, failed or were skipped.
FaithfulMatches == faithful /\ missing = {} => mismatches = {}

\* What the verdict of a replay is good for: without mismatches the hashes agree,
\* and a repetition of the run is without mismatches (replay_opening_trace).
ReplayVerdict == MatchReproduces /\ FaithfulMatches

\* What the verdict is not good for: a replay without mismatches need not be a
\* repetition of the run, because different outputs may have the same hash.
MatchRepeats == ReplayDone /\ missing = {} /\ mismatches = {} => faithful
=============================================================================
