------------------------------ MODULE Openings ------------------------------
(***************************************************************************)
(* parse_opening_str (crates/openings/src/parser.rs): which openings are   *)
(* accepted, and what is made of the payloads of their nodes.  The check   *)
(* of the graph is GraphCheck.                                             *)
(*                                                                         *)
(* A field is Absent, Bad (of a type or a form its reader refuses) or a    *)
(* value.  What matters of a text are its braces: "none", the name of a    *)
(* parameter in a whole-string template, or "other".                       *)
(***************************************************************************)
EXTENDS Json, FiniteSets

CONSTANTS
    Absent, Bad,
    ParamNames,   \* that templates may name
    MaxDepth      \* how deep a document may be nested

Braces == {"none", "other"} \cup ParamNames
Values == JsonValues(Braces, MaxDepth)
\* What values can be with parameters in them.
Fillable == JsonValues(Braces, 2 * MaxDepth)

Given(field) == field \notin {Absent, Bad}
OrElse(field, default) == IF field = Absent THEN default ELSE field

Text(braces) == Value("text", braces, <<>>, <<>>)
Arr(parts) == Value("array", "none", <<>>, parts)
Obj(keys, parts) == Value("object", "none", keys, parts)
False == Value("false", "none", <<>>, <<>>)

-----------------------------------------------------------------------------
(* Templates *)

\* validate_no_templates fails
Braced(value) ==
    LET braced[v \in Fillable] == v.text # "none" \/ \E i \in DOMAIN v.parts : braced[v.parts[i]]
    IN braced[value]

\* A text that is a template of one of the parameters.
IsTemplate(v, params) == v.text # "none" /\ v.text \in DOMAIN params

\* apply_param_templates and apply_templates_array succeed
Resolves(value, params) ==
    LET resolves[v \in Values] ==
          /\ v.text # "none" => IsTemplate(v, params) /\ ~Braced(params[v.text])
          /\ \A i \in DOMAIN v.parts : resolves[v.parts[i]]
    IN resolves[value]

\* Mutant: the strings of an array are left as they are.
FilledOutsideArrays(value, params) ==
    LET filled[v \in Values] ==
          IF IsTemplate(v, params) THEN params[v.text]
          ELSE IF v.t = "array" THEN v
          ELSE [v EXCEPT !.parts = [i \in DOMAIN v.parts |-> filled[v.parts[i]]]]
    IN filled[value]

\* What they make of a value.
Filled(value, params) ==
    LET filled[v \in Values] ==
          IF IsTemplate(v, params) THEN params[v.text]
          ELSE [v EXCEPT !.parts = [i \in DOMAIN v.parts |-> filled[v.parts[i]]]]
    IN filled[value]

-----------------------------------------------------------------------------
(* Port expressions: a string is the sequence of its words *)

Operators == <<">=", "<=", "==", "!=", ">", "<">>
OperatorWords == {Operators[k] : k \in DOMAIN Operators}

Positions(raw, word) == {i \in DOMAIN raw : raw[i] = word}
FirstOf(raw, word) == CHOOSE i \in Positions(raw, word) : \A j \in Positions(raw, word) : i <= j
Before(raw, i) == SubSeq(raw, 1, i - 1)
After(raw, i) == SubSeq(raw, i + 1, Len(raw))

\* parse_port_reference: the node is what comes before the first dot.
PortReference(raw) ==
    IF Positions(raw, ".") = {} THEN Bad
    ELSE LET dot == FirstOf(raw, ".")
         IN IF dot \in {1, Len(raw)} THEN Bad ELSE [node |-> Before(raw, dot), port |-> After(raw, dot)]

\* parse_literal: a bool, a number, or a text between quotes.
Literal(raw) ==
    CASE Len(raw) = 1 /\ raw[1] \in {"true", "false", "1", "2.5"} -> raw
      [] Len(raw) > 1 /\ raw[1] = "'" /\ raw[Len(raw)] = "'" -> raw
      [] OTHER -> Bad

\* parse_port_predicate: the first operator of the list that occurs anywhere.
PortPredicate(raw) ==
    LET found == {k \in DOMAIN Operators : Positions(raw, Operators[k]) # {}}
        k == CHOOSE k \in found : \A l \in found : k <= l
        at == FirstOf(raw, Operators[k])
        ref == PortReference(Before(raw, at))
        literal == Literal(After(raw, at))
    IN IF found = {} THEN [ref |-> PortReference(raw), op |-> Absent, literal |-> Absent]
       ELSE IF ref = Bad \/ literal = Bad THEN [ref |-> Bad, op |-> Absent, literal |-> Absent]
       ELSE [ref |-> ref, op |-> Operators[k], literal |-> literal]

\* parse_expression, whose exists(...) is a flag here.
Expression(e) ==
    IF e.exists THEN PortReference(e.raw) # Bad
    ELSE PortPredicate(e.raw).ref # Bad /\ PortPredicate(e.raw).op # Absent

-----------------------------------------------------------------------------
(* The parts of an opening *)

\* parse_policy
Policy(policy) ==
    policy # Bad /\ (policy # Absent => \A k \in DOMAIN policy : policy[k] # Bad)

\* parse_use, parse_agent_reference
Use(use) == use.prefix \in {"agent", "opening"} /\ (use.prefix = "agent" => Given(use.name) /\ use.variant # Bad)

\* parse_retry: without the key nothing is retried and nothing waited for; within
\* it the keys have other defaults, and initial_ms counts before backoff_ms.
NoRetry == [max_attempts |-> 0, initial |-> 0, max |-> Absent]
RetryOf(retry) ==
    IF retry = Absent THEN NoRetry
    ELSE [max_attempts |-> OrElse(retry.max_attempts, 0),
          initial |-> OrElse(retry.initial_ms, OrElse(retry.backoff_ms, 100)),
          max |-> retry.max_ms]

RetryAccepted(retry) ==
    /\ retry # Bad
    /\ retry # Absent =>
        /\ Bad \notin {retry.max_attempts, retry.backoff_ms, retry.initial_ms, retry.max_ms, retry.multiplier}
        /\ retry.jitter # Bad /\ (retry.jitter # Absent => retry.jitter \in 0..100)

\* parse_success: exactly one list, and something in it.
Success(success) ==
    success # Absent =>
        /\ success # Bad
        /\ Cardinality({k \in {"any_of", "all_of"} : success[k] # Absent}) = 1
        /\ \A k \in {"any_of", "all_of"} : success[k] # Absent =>
             success[k] # Bad /\ success[k] # <<>> /\ \A i \in DOMAIN success[k] : Expression(success[k][i])

\* parse_artifacts
Artifacts(save) == save # Bad /\ (save # Absent => \A i \in DOMAIN save : PortReference(save[i]) # Bad)

\* parse_edges
Edges(edges) ==
    /\ Given(edges)
    /\ \A i \in DOMAIN edges : /\ edges[i] # Bad
                               /\ PortPredicate(edges[i].from).ref # Bad
                               /\ PortReference(edges[i].to) # Bad

Payload(node, params) == IF node.with = Absent THEN Obj(<<>>, <<>>) ELSE Filled(node.with, params)

IsMailer(node) == node.use.prefix = "agent" /\ node.use.name = "mailer"
TurnsOff(payload) ==
    \E i \in DOMAIN payload.keys : payload.keys[i] = "require_human_confirm" /\ payload.parts[i].t = "false"

Downgrades(node, params) == IsMailer(node) /\ TurnsOff(Payload(node, params))

\* parse_nodes
Node(node, params, confirm) ==
    /\ Given(node.id) /\ Use(node.use)
    /\ node.with # Bad /\ (node.with # Absent => Resolves(node.with, params))
    /\ node.hints # Bad
    /\ ~(confirm /\ Downgrades(node, params))
    /\ RetryAccepted(node.retry)
    /\ Bad \notin {node.timeout_ms, node.budget_tokens, node.tags}

Confirms(policy) == policy # Absent /\ policy.confirm_external = TRUE
Params(doc) == OrElse(doc.params, <<>>)

NodesAccepted(doc) ==
    /\ Given(doc.nodes) /\ doc.nodes # <<>>
    /\ \A i, j \in DOMAIN doc.nodes : doc.nodes[i].id = doc.nodes[j].id => i = j
    /\ \A i \in DOMAIN doc.nodes : Node(doc.nodes[i], Params(doc), Confirms(doc.policy))

\* parse_opening_str, before validate_graph
Accepted(doc) ==
    /\ doc.version = 0 /\ Given(doc.name)
    /\ doc.goals # Bad /\ doc.params # Bad
    /\ Policy(doc.policy)
    /\ NodesAccepted(doc) /\ Edges(doc.edges)
    /\ Success(doc.success) /\ Artifacts(doc.save)

-----------------------------------------------------------------------------
(* Schema hints *)

\* build_hint_schema: required within a property becomes an entry of required.
HintSchema(props) ==
    [properties |-> DOMAIN props, required |-> {p \in DOMAIN props : props[p].required = TRUE}]

-----------------------------------------------------------------------------
(* Properties *)

\* No agent is given a template: whatever way the parameters are nested, an
\* accepted payload has all of them put in (docs/openings-dsl.md:371).
PayloadsAreResolved(doc) ==
    Accepted(doc) => \A i \in DOMAIN doc.nodes : ~Braced(Payload(doc.nodes[i], Params(doc)))

\* An opening that asks for confirmations has no mailer that turns its own off,
\* neither directly nor by way of a parameter.
MailersConfirm(doc) ==
    Accepted(doc) /\ Confirms(doc.policy) =>
        \A i \in DOMAIN doc.nodes : IsMailer(doc.nodes[i]) => ~TurnsOff(Payload(doc.nodes[i], Params(doc)))

\* docs/openings-dsl.md:373 says so of every node.
NodesConfirm(doc) ==
    Accepted(doc) /\ Confirms(doc.policy) =>
        \A i \in DOMAIN doc.nodes : ~TurnsOff(Payload(doc.nodes[i], Params(doc)))

\* An expression is read as it was written, or refused: the latter only if a text
\* in it holds an operator itself (parse_port_predicate).
ReadAsWritten(node, port, op, literal) ==
    LET read == PortPredicate(node \o <<".">> \o port \o <<op>> \o literal)
        plain == \A k \in DOMAIN Operators : Positions(literal, Operators[k]) = {}
    IN \/ read = [ref |-> [node |-> node, port |-> port], op |-> op, literal |-> literal]
       \/ read.ref = Bad /\ ~plain
=============================================================================
