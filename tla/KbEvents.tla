------------------------------ MODULE KbEvents ------------------------------
(***************************************************************************)
(* The events of the knowledge base's ledger (crates/kb/src/lib.rs): what  *)
(* a proposal must satisfy, and which rows of the materialized views and   *)
(* which entities of the history an event touches.                         *)
(*                                                                         *)
(* A proposal is a record                                                  *)
(*   kind, scope   the event kind and the scope it is proposed in          *)
(*   has, blank    the payload fields present, and those of them that hold *)
(*                 only white space                                        *)
(*   id            what its key is derived from: the person, the artifact  *)
(*                 or the run (spelling apart: keys are normalised)        *)
(*   evidence      the ids of the events it cites                          *)
(***************************************************************************)
EXTENDS Integers

Kinds == {"contact.upserted", "artifact.created", "email.sent", "run.started",
          "run.finished", "node.finished", "run.trace", "cap.audit"}

\* The fields each embedded schema requires.
Required(kind) ==
    CASE kind = "contact.upserted" -> {"name", "email"}
      [] kind = "artifact.created" -> {"kind", "path", "sha256"}
      [] kind = "email.sent" -> {"to", "subject", "artifact_id"}
      [] kind \in {"run.started", "run.finished"} -> {"opening_id", "status"}
      [] kind = "node.finished" -> {"trace_id", "opening_id", "node_id", "status"}
      [] kind = "run.trace" -> {"trace_id", "opening_id", "nodes", "final_hash", "success"}
      [] kind = "cap.audit" -> {"agent", "cap", "op", "target", "args_hash",
                                "decision", "severity", "reason"}

\* validate_scope
ScopeOk(scope) == scope \in {"user", "system", "agent"}

SchemaAdmits(d) == d.kind \in Kinds /\ Required(d.kind) \subseteq d.has

\* What apply_event needs of an event, or its batch is rolled back: a contact is
\* keyed by its e-mail address unless that is blank, else by its name; an
\* artifact by its digest unless that is blank, else by its path.
ContactKey(d) ==
    CASE "email" \in d.has \ d.blank -> {<<"email", d.id>>}
      [] "email" \notin d.has \ d.blank /\ "name" \in d.has -> {<<"name", d.id>>}
      [] OTHER -> {}

ArtifactKey(d) ==
    CASE "sha256" \in d.has \ d.blank -> {<<"sha256", d.id>>}
      [] "sha256" \notin d.has \ d.blank /\ "path" \in d.has -> {<<"path", d.id>>}
      [] OTHER -> {}

Applies(d) ==
    CASE d.kind = "contact.upserted" -> ContactKey(d) # {}
      [] d.kind = "artifact.created" -> "kind" \in d.has /\ ArtifactKey(d) # {}
      [] d.kind \in {"run.started", "run.finished"} -> "opening_id" \in d.has
      [] d.kind = "node.finished" -> {"trace_id", "opening_id", "node_id", "status"} \subseteq d.has
      [] d.kind = "run.trace" -> {"final_hash", "success"} \subseteq d.has
      [] OTHER -> TRUE

-----------------------------------------------------------------------------
(* The views *)

\* The row an event upserts, if it upserts one.
RowOf(d) ==
    CASE d.kind = "contact.upserted" -> {<<"contacts", k>> : k \in ContactKey(d)}
      [] d.kind = "artifact.created" -> {<<"artifacts", k>> : k \in ArtifactKey(d)}
      [] d.kind \in {"run.started", "run.finished"} -> {<<"runs", d.id>>}
      [] d.kind = "node.finished" -> {<<"run_nodes", d.id>>}
      [] d.kind = "run.trace" -> {<<"run_traces", d.id>>}
      [] OTHER -> {}

\* The entities whose history an event enters (entity_history).
EntitiesOf(d) ==
    CASE d.kind = "contact.upserted" -> {<<"contact", k>> : k \in ContactKey(d)}
      [] d.kind = "artifact.created" -> {<<"artifact", k>> : k \in ArtifactKey(d)}
      [] d.kind \in {"run.started", "run.finished", "run.trace"} -> {<<"run", d.id>>}
      [] d.kind = "node.finished" -> {<<"run", d.id>>, <<"node", d.id>>, <<"opening", d.id>>}
      [] d.kind = "email.sent" -> {<<"artifact event", d.id>>}
      [] OTHER -> {}
=============================================================================
