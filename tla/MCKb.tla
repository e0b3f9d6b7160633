-------------------------------- MODULE MCKb --------------------------------
(***************************************************************************)
(* Instances of Kb for TLC: the daemon, a local run and an agent.          *)
(***************************************************************************)
EXTENDS Kb

CONSTANTS daemon, run, agent, reader, t, p

Delta(kind, id) == [kind |-> kind, scope |-> "user", has |-> Required(kind),
                    blank |-> {}, id |-> id, evidence |-> {}]

RunScript == <<Delta("run.started", t), Delta("run.trace", t), Delta("run.finished", t)>>

Contact == Delta("contact.upserted", p)
Proposals ==
    {[Contact EXCEPT !.has = {"email"}, !.blank = {"email"}],
     [Contact EXCEPT !.scope = "root"],
     [Contact EXCEPT !.kind = "contact.deleted"],
     [Delta("artifact.created", p) EXCEPT !.blank = {"sha256"}, !.evidence = {1}]}

MCScripts == [a \in Actors |->
    CASE a = daemon -> {<<>>}
      [] a = run -> {SubSeq(RunScript, 2, 3)}
      [] OTHER -> {<<d>> : d \in Proposals}]

\* A whole run, a contact and a reader (`rlp kb query`).
RaceScripts == [a \in Actors |->
    CASE a = run -> {RunScript} [] a = agent -> {<<Contact>>} [] OTHER -> {<<>>}]

MCRows == {<<"runs", t>>, <<"run_nodes", t>>, <<"run_traces", t>>}
            \cup {<<"contacts", <<k, p>>>> : k \in {"email", "name"}}
            \cup {<<"artifacts", <<k, p>>>> : k \in {"sha256", "path"}}
\* The scripts given to the actors are those FinishedRunHasTrace is about.
ASSUME ScriptsAreTraced == TracesComeFirst
=============================================================================
