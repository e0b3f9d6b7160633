-------------------------------- MODULE Parts --------------------------------
(***************************************************************************)
(* Parts that stand alone: the capabilities of an agent, the answers of    *)
(* the hostcalls, the check of an opening's graph, the two caches of a     *)
(* spawn, and the monitor.  The first two are functions; they are applied  *)
(* to one input of their tables.                                           *)
(***************************************************************************)
EXTENDS Caps, Sequences

CONSTANTS
    Overrides, Requests,        \* policies with an override, and the requests made
    ModelCalls, Captures, Rings,   \* the inputs of Hostcalls
    MaxCapture,                                     \* of Hostcalls
    Queries,                       \* a row of the ledger, and who asks for it
    Fragments, MaxDepth,                            \* of Redaction
    Documents, Expressions, ParamNames, Bad,        \* openings, and port expressions; of Openings
    Clients, Daemons, RefLists, Bundles, Rank,      \* search directories, what is looked for there; of Registry
    Worlds, Routings,                               \* files and environments; patterns and a model; of Config
    Nodes, Names, EdgeLists,                        \* of GraphCheck
    Readers, Loaders, Ttl, MaxTime, MaxVersions,    \* of Caches
    Feed, None, MaxEvents                           \* of Agtop

VARIABLES
    case,                                                       \* the input looked at: its table and its contents
    edges, verdict, indegree, queue, visited,                   \* GraphCheck
    clock, secret, gone, cached, reader, file, module, loader,  \* Caches
    given, screen, buffered, modal, view, decisions, cleared    \* Agtop

Host == INSTANCE Hostcalls
Redact == INSTANCE Redaction
Opening == INSTANCE Openings
Reg == INSTANCE Registry
Cfg == INSTANCE Config
Graph == INSTANCE GraphCheck
Cache == INSTANCE Caches
Monitor == INSTANCE Agtop

graphVars == <<edges, verdict, indegree, queue, visited>>
cacheVars == <<clock, secret, gone, cached, reader, file, module, loader>>
monitorVars == <<given, screen, buffered, modal, view, decisions, cleared>>

-----------------------------------------------------------------------------
(* The inputs *)

\* A request a hostcall checks: a flag; a namespace or a secret; a directory, to
\* write or not; a host, over plain HTTP or not.
IsRequest(req) ==
    /\ req.key \in Flags \cup KbKeys \cup {"secrets", "fs", "net"}
    /\ req.key = "fs" => req.write \in BOOLEAN
    /\ req.key = "net" => req.plain \in BOOLEAN

\* The hostcall traps for a buffer of negative length.
IsModelCall(call) ==
    /\ call.decodes \in BOOLEAN
    /\ call.error \in {"none"} \cup DOMAIN Host!BrokerCode
    /\ call.text \in Nat /\ call.outCap \in Nat /\ call.meta \in Nat /\ call.metaCap \in Nat

\* An exit code is not negative: the host reports a signal as an error of its own.
IsCapture(capture) ==
    /\ capture.out \in Int /\ capture.err \in Int /\ capture.timeout \in BOOLEAN
    /\ capture.child.spawns \in BOOLEAN /\ capture.child.waits \in BOOLEAN
    /\ capture.child.code \in Nat
    /\ Host!Ends(capture.child, capture.timeout) \in {"code", "signal"}
    /\ \A output \in {capture.child.out, capture.child.err} : output.len \in Nat /\ output.read \in BOOLEAN

\* An e-mail column holds a text or a scalar, a payload whatever was appended.
IsQuery(query) ==
    /\ query.row = [kind |-> query.row.kind, email |-> query.row.email, payload |-> query.row.payload]
    /\ query.row.email # Absent => query.row.email \in Redact!Payloads /\ query.row.email.t \in {"text", "other"}
    /\ query.row.payload # Absent => query.row.payload \in Redact!Payloads
    /\ query.ctx \in [maskEmail : BOOLEAN, allowed : BOOLEAN, admin : BOOLEAN, drop : BOOLEAN]

\* A payload or a parameter is whatever YAML may hold.
IsDocument(doc) ==
    /\ Opening!Given(doc.params) => \A name \in DOMAIN doc.params : doc.params[name] \in Opening!Values
    /\ Opening!Given(doc.nodes) =>
         \A i \in DOMAIN doc.nodes : Opening!Given(doc.nodes[i].with) => doc.nodes[i].with \in Opening!Values

\* The words of an expression: a node without dots, and a literal with no quotes within
\* its own.
IsExpression(e) ==
    LET Plain(words) == words \in Seq(STRING) /\ words # <<>> /\ \A i \in DOMAIN words : words[i] \notin Opening!OperatorWords
    IN /\ Plain(e.node) /\ Plain(e.port) /\ e.op \in Opening!OperatorWords
       /\ "." \notin {e.node[i] : i \in DOMAIN e.node}
       /\ e.literal \in Seq(STRING) /\ Opening!Literal(e.literal) # Bad
       /\ \A i \in 2..(Len(e.literal) - 1) : e.literal[i] # "'"

\* The names in a directory are ranked; a manifest that cannot be read is one, too.
IsSearchDir(base) ==
    /\ base.kind = "manifest" => base.manifest # Absent
    /\ base.kind = "dir" => DOMAIN base.at \subseteq Seq(DOMAIN Rank) /\ \A p \in DOMAIN base.at : base.at[p] # Absent

\* The keys of files and variables; every place that is looked at has a file or none.
IsWorld(world) ==
    LET names == Cfg!Candidates(world)
    IN /\ \A i \in DOMAIN names : DOMAIN world.files[names[i]].doc \subseteq Seq(STRING)
       /\ Len(world.env) \in Nat /\ DOMAIN world.env = 1..Len(world.env)
       /\ \A i \in DOMAIN world.env : world.env[i].path \in Seq(STRING)

\* Patterns have a prefix, a star maybe, and their order as texts.
IsRouting(routing) ==
    /\ Len(routing.model) \in Nat
    /\ \A r \in routing.map : r.star \in BOOLEAN /\ r.literal \in Nat /\ r.rank \in Nat
    /\ \A r, other \in routing.map : r.rank = other.rank => r = other

ASSUME ConfigAssumption ==
    /\ \A world \in Worlds : IsWorld(world)
    /\ \A routing \in Routings : IsRouting(routing)

ASSUME RegistryAssumption ==
    /\ \A dirs \in Clients \cup Daemons : \A i \in DOMAIN dirs : IsSearchDir(dirs[i])
    /\ RefLists \subseteq Seq([name : STRING, variant : {Absent} \cup STRING])

ASSUME OpeningAssumption ==
    /\ Bad \notin [node : Seq(STRING), port : Seq(STRING)]
    /\ \A doc \in Documents : IsDocument(doc)
    /\ \A e \in Expressions : IsExpression(e)

ASSUME QueryAssumption == MaxDepth \in Nat \ {0} /\ \A query \in Queries : IsQuery(query)

ASSUME InputAssumption ==
    /\ \A req \in Requests : IsRequest(req)
    /\ \A call \in ModelCalls : IsModelCall(call)
    /\ \A capture \in Captures : IsCapture(capture)
    /\ \A ring \in Rings : ring.items \in Seq(Nat) /\ ring.capacity \in Nat \ {0}

ASSUME GraphAssumption ==
    /\ IsFiniteSet(Nodes)
    /\ Nodes \subseteq Names
    /\ EdgeLists \subseteq Seq([from : Names, to : Names])

ASSUME CacheAssumption ==
    /\ Ttl \in Nat \ {0}
    /\ MaxTime \in Nat
    /\ MaxVersions \in Nat \ {0}

ASSUME MonitorAssumption == MaxEvents \in Nat

-----------------------------------------------------------------------------
(* The tables *)

TablesInit == case = [table |-> "none"]

Input(table, in) == case' = [table |-> table, in |-> in]

TablesNext ==
    /\ case.table = "none"
    /\ \/ \E pair \in Overrides : Input("caps", pair)
       \/ \E call \in ModelCalls : Input("model", call)
       \/ \E capture \in Captures : Input("capture", capture)
       \/ \E ring \in Rings : Input("ring", ring)
       \/ \E query \in Queries : Input("redaction", query)
       \/ \E doc \in Documents : Input("opening", doc)
       \/ \E e \in Expressions : Input("expression", e)
       \/ \E client \in Clients, daemon \in Daemons, refs \in RefLists :
            Input("agents", [client |-> client, daemon |-> daemon, refs |-> refs])
       \/ \E bundle \in Bundles : Input("bundle", bundle)
       \/ \E world \in Worlds : Input("config", world)
       \/ \E routing \in Routings : Input("routes", routing)

TablesSpec == TablesInit /\ [][TablesNext]_case

-----------------------------------------------------------------------------
(* Properties *)

\* What is left of a policy after an override is the intersection of the two, and
\* never more than the policy (Caps::intersect_with).
OverridesRevoke ==
    case.table = "caps" /\ ~Malformed(case.in.base) /\ ~Malformed(case.in.override) =>
        LET base == FromPolicy(case.in.base)
            override == FromPolicy(case.in.override)
            present == Presence(case.in.override)
        IN \A req \in Requests : /\ GrantsNothing(base, override, present, req)
                                 /\ IsIntersection(base, override, present, req)

\* A guest that is told of no error has the whole answer (host_model_complete,
\* host_exec_spawn_capture), and a ring holds the newest of what it was given
\* (OutputRing::push).
AnswersAreWhole ==
    /\ case.table = "model" => Host!ModelAnswerWhole(case.in)
    /\ case.table = "capture" =>
         Host!CaptureWhole(1, case.in.out, case.in.err, case.in.child, case.in.timeout)
    /\ case.table = "ring" => Host!RingHoldsNewest(case.in.items, case.in.capacity)

\* Who has no clearance sees no address as it was stored, however deep it lies; a row
\* is flagged iff it was changed (collect_event_rows, mask_value_emails_deep).
LocalPartsAreMasked == case.table = "redaction" => Redact!LocalPartsAreMasked(case.in.row, case.in.ctx)

\* An accepted opening has no template left and no mailer without confirmation where
\* its policy asks for one; its expressions are read as written (parse_opening_str,
\* apply_param_templates, parse_port_predicate).
OpeningsAreSafe ==
    /\ case.table = "opening" => Opening!PayloadsAreResolved(case.in) /\ Opening!MailersConfirm(case.in)
    /\ case.table = "expression" => Opening!ReadAsWritten(case.in.node, case.in.port, case.in.op, case.in.literal)

\* The layers of the configuration explain its values (load_with_layers, diff_values),
\* and a model is sent by the most specific route of a map (deserialize_route).
LayersExplain ==
    /\ case.table = "config" => Cfg!LayersExplain(case.in)
    /\ case.table = "routes" => Cfg!MostSpecificRoute(case.in.map, case.in.model)

\* The agent described is the one asked for, the daemon runs what the client saw, and
\* a bundle stays inside of its directory (find_manifest, build_described, list,
\* verify_agent_digests, resolve_bundle_path).
AgentsAreVerified ==
    /\ case.table = "agents" =>
         /\ \A i \in DOMAIN case.in.refs : Reg!DescribedAsAsked(case.in.client, case.in.refs[i])
         /\ \A i \in DOMAIN case.in.client : Reg!ListedIsDescribed(case.in.client[i])
         /\ Reg!VerifiedDigests(case.in.client, case.in.daemon, case.in.refs)
    /\ case.table = "bundle" => Reg!BundleIsWhole(case.in.base, case.in.ref)

\* Opening parser: an opening is accepted iff its edges name its nodes and have no
\* cycle (validate_graph).
VerdictCorrect == Graph!VerdictCorrect

\* Caches: a rotated secret is not served longer than the TTL
\* (CachingSecretProvider::resolve), and a load returns what the file held during the
\* load (ModuleCache::load).
CachesAreFresh == Cache!SecretIsRecent /\ Cache!ModuleIsCurrent

\* Agtop: the panes show the stream, whatever is paused, resumed and cleared, and no
\* request is decided twice or after a later one (handle_event, unpause, clear_pane,
\* resolve_action).
ViewIsTheStream == Monitor!ViewIsTheStream /\ Monitor!DecidesOnce
=============================================================================
