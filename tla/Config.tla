------------------------------- MODULE Config -------------------------------
(***************************************************************************)
(* Config::load (crates/core/src/config.rs): the defaults, the files and   *)
(* the environment are merged into one document, which is then typed,      *)
(* rewritten and validated; the layers tell where each value comes from.   *)
(*                                                                         *)
(* A document is a function from the paths of its leaves to values; an     *)
(* object is the paths below it.  A value has a type and a content; Null   *)
(* stands for an optional section that is not there.                       *)
(***************************************************************************)
EXTENDS Integers, Sequences, SequencesExt, FiniteSets, TLC

Of(type, v) == [type |-> type, v |-> v]
Null == Of("null", "")

-----------------------------------------------------------------------------
(* The sections: of each the keys by which the rules below differ *)

TopSchema == <<"version">> :> "int"
RuntimeSchema ==
    (<<"runtime", "agent_container">> :> "string") @@ (<<"runtime", "sockets_dir">> :> "string")
        @@ (<<"runtime", "socket_path">> :> "optional")
ModelsSchema ==
    (<<"models", "broker", "route">> :> "routes") @@ (<<"models", "broker", "routing">> :> "routes")
KbSchema == (<<"kb", "events_db">> :> "string") @@ (<<"kb", "view_db">> :> "string")
SecuritySchema ==
    (<<"security", "confirm_external_actions">> :> "bool") @@ (<<"security", "testing">> :> "section")
        @@ (<<"security", "testing", "allow_missing_secrets">> :> "bool")
RouterSchema == <<"router", "fastpath_shell">> :> "bool"
ObservabilitySchema == <<"observability", "metrics_interval_ms">> :> "int"
BusSchema == <<"bus", "auth", "publishers", "action_decision", "allowed_kinds">> :> "kinds"

Schema ==
    TopSchema @@ RuntimeSchema @@ ModelsSchema @@ KbSchema @@ SecuritySchema @@ RouterSchema
        @@ ObservabilitySchema @@ BusSchema

\* The function that has these pairs.
Doc(pairs) == [p \in {pair[1] : pair \in pairs} |-> (CHOOSE pair \in pairs : pair[1] = p)[2]]

\* Config::default() as a document.  The sockets' directory is that of XDG_RUNTIME_DIR.
Defaults ==
    Doc({<<<<"version">>, Of("int", "1")>>,
         <<<<"runtime", "agent_container">>, Of("string", "wasm32-wasip1")>>,
         <<<<"runtime", "sockets_dir">>, Of("string", "$XDG_RUNTIME_DIR/runloop")>>,
         <<<<"runtime", "socket_path">>, Null>>,
         <<<<"models", "broker", "route">>, Of("routes", "* local")>>,
         <<<<"kb", "events_db">>, Of("string", "events.sqlite")>>,
         <<<<"kb", "view_db">>, Of("string", "pog.sqlite")>>,
         <<<<"security", "confirm_external_actions">>, Of("bool", "true")>>,
         <<<<"security", "testing">>, Null>>,
         <<<<"router", "fastpath_shell">>, Of("bool", "true")>>,
         <<<<"observability", "metrics_interval_ms">>, Of("int", "1000")>>,
         <<<<"bus", "auth", "publishers", "action_decision", "allowed_kinds">>, Of("kinds", "ui tui")>>})

\* Keys and their deprecated names, which hold no objects.
FastpathShell == <<"router", "fastpath_shell">>
Aliases ==
    Doc({<<FastpathShell, <<<<"router", "allow_shell_fastpath">>, <<"router", "shell_fastpath">>>>>>,
         <<<<"kb", "events_db">>, <<<<"kb", "ledger">>>>>>,
         <<<<"kb", "view_db">>, <<<<"kb", "materialized">>>>>>})
AliasNames == UNION {Range(Aliases[key]) : key \in DOMAIN Aliases}

-----------------------------------------------------------------------------
(* Documents *)

\* What diff_values finds at a path: an object, or a value, which is null where there
\* is nothing.
ObjectAt(doc, path) == \E p \in DOMAIN doc : IsStrictPrefix(path, p)
At(doc, path) == IF path \in DOMAIN doc /\ ~ObjectAt(doc, path) THEN doc[path] ELSE Null
Part(doc, path) == [p \in {p \in DOMAIN doc : IsPrefix(path, p)} |-> doc[p]]

\* merge_value: objects are merged, anything else is replaced.
Touches(path, doc) == \E p \in DOMAIN doc : IsPrefix(p, path) \/ IsPrefix(path, p)
Merge(base, patch) ==
    [p \in DOMAIN patch \cup {p \in DOMAIN base : ~Touches(p, patch)} |->
        IF p \in DOMAIN patch THEN patch[p] ELSE base[p]]

\* normalize_router_aliases, normalize_kb_aliases: a key that is not there has the value
\* of the first of its aliases, and no alias stays.
Normalize(doc) ==
    LET given(key) == {i \in DOMAIN Aliases[key] : Aliases[key][i] \in DOMAIN doc}
        taken == {key \in DOMAIN Aliases : given(key) # {} /\ \A p \in DOMAIN doc : ~IsPrefix(key, p)}
        First(key) == CHOOSE i \in given(key) : \A j \in given(key) : i <= j
    IN [p \in taken \cup (DOMAIN doc \ AliasNames) |-> IF p \in taken THEN doc[Aliases[p][First(p)]] ELSE doc[p]]

\* set_path: an object on the way that is none ends the program.
Panics(doc, path) == \E p \in DOMAIN doc : IsStrictPrefix(p, path)

SetPath(doc, path, value) ==
    [p \in {path} \cup {p \in DOMAIN doc : ~IsPrefix(path, p)} |-> IF p = path THEN value ELSE doc[p]]

\* Mutant: what was null before is left out.
DiffOfKnown(before, after) ==
    LET BothObjects(path) == ObjectAt(before, path) /\ ObjectAt(after, path)
        differ == {p \in UNION {Prefixes(p) : p \in DOMAIN before \cup DOMAIN after} :
                     ObjectAt(before, p) # ObjectAt(after, p) \/ At(before, p) # At(after, p)}
    IN {[path |-> p, value |-> Part(after, p)] :
          p \in {p \in differ : /\ ObjectAt(before, p) \/ At(before, p) # Null
                                /\ \A q \in Prefixes(p) \ {p} : BothObjects(q)}}

\* diff_values: where objects meet, it goes on to their keys; other things that differ
\* are entries.
Diff(before, after) ==
    LET BothObjects(path) == ObjectAt(before, path) /\ ObjectAt(after, path)
        differ == {p \in UNION {Prefixes(p) : p \in DOMAIN before \cup DOMAIN after} :
                     ObjectAt(before, p) # ObjectAt(after, p) \/ At(before, p) # At(after, p)}
    IN {[path |-> p, value |-> Part(after, p)] :
          p \in {p \in differ : \A q \in Prefixes(p) \ {p} : BothObjects(q)}}

-----------------------------------------------------------------------------
(* The layers *)

\* config_candidate_paths, in the order they are merged.
Candidates(world) ==
    IF world.runloopConfig # "unset" THEN <<world.runloopConfig>> ELSE <<"xdg", "home", "etc">>

\* load_yaml_value: a file that is not there or may not be read is skipped; one
\* without contents is null, and takes the place of all there was.
FileDoc(world, name) ==
    CASE world.files[name].state = "ok" -> Normalize(world.files[name].doc)
      [] world.files[name].state = "empty" -> [p \in {<<>>} |-> Null]
      [] OTHER -> <<>>

\* apply_env_overrides: an alias names its key; what looks like a bool is one.
EnvPath(var) == IF var.path \in Range(Aliases[FastpathShell]) THEN FastpathShell ELSE var.path

\* parse_env_value
EnvValue(raw) ==
    CASE raw \in {"1", "true"} -> Of("bool", "true")
      [] raw \in {"0", "false"} -> Of("bool", "false")
      [] raw \in {"200", "99"} -> Of("int", raw)
      [] OTHER -> Of("string", raw)

IsObject(doc) == <<>> \notin DOMAIN doc

\* The documents after the defaults, each file and the environment.
Stages(world) ==
    LET names == Candidates(world)
        n == Len(names)
        env == world.env
        stage[i \in 0..(n + Len(env))] ==
            IF i = 0 THEN Defaults
            ELSE IF i <= n THEN Merge(stage[i - 1], FileDoc(world, names[i]))
            ELSE IF IsObject(stage[i - 1])
            THEN SetPath(stage[i - 1], EnvPath(env[i - n]), EnvValue(env[i - n].raw))
            ELSE stage[i - 1]
    IN [files |-> [i \in 0..n |-> stage[i]],
        env |-> [i \in n..(n + Len(env)) |-> stage[i]],
        result |-> stage[n + Len(env)]]

Layers(world) ==
    LET s == Stages(world)
        n == Len(Candidates(world))
    IN [i \in 1..(n + 1) |->
          IF i <= n THEN Diff(s.files[i - 1], s.files[i]) ELSE Diff(s.files[n], s.result)]

-----------------------------------------------------------------------------
(* The typed configuration *)

\* serde: a key has its type, only optional ones may be null, the version must be
\* there, and no field is given under both of its names.
Typed(doc) ==
    /\ IsObject(doc) /\ <<"version">> \in DOMAIN doc
    /\ \A p \in DOMAIN Schema \cap DOMAIN doc :
         CASE Schema[p] = "optional" -> doc[p].type \in {"string", "null"}
           [] Schema[p] \in {"section", "routes"} -> doc[p].type \in {Schema[p], "null"}
           [] OTHER -> doc[p].type = Schema[p]
    /\ \A p \in DOMAIN doc, q \in DOMAIN Schema : IsStrictPrefix(p, q) => p \in DOMAIN Schema
    /\ ~({<<"models", "broker", "route">>, <<"models", "broker", "routing">>} \subseteq DOMAIN doc)

Get(doc, path, default) == IF path \in DOMAIN doc THEN doc[path].v ELSE default

\* expand_paths: the deprecated directory of the sockets is rewritten.
Expand(doc) ==
    LET dir == <<"runtime", "sockets_dir">>
    IN IF Get(doc, dir, "") = "~/.runloop/run" THEN (dir :> Of("string", "~/.runloop/sock")) @@ doc ELSE doc

\* validate
Valid(doc) ==
    LET socket == <<"runtime", "socket_path">>
        unset == socket \notin DOMAIN doc \/ doc[socket] = Null
    IN /\ doc[<<"version">>].v = "1"
       /\ Get(doc, <<"runtime", "agent_container">>, "wasm32-wasip1") \in {"wasm32-wasip1", "wasm32-wasi"}
       /\ Get(doc, <<"observability", "metrics_interval_ms">>, "1000") # "99"
       /\ ~unset => doc[socket].v # " "
       /\ unset => Get(doc, <<"runtime", "sockets_dir">>, "dir") # " "
       /\ Get(doc, <<"bus", "auth", "publishers", "action_decision", "allowed_kinds">>, "ui tui") # "root"

Load(world) ==
    LET names == Candidates(world)
        s == Stages(world)
        doc == Normalize(s.result)
        n == Len(names)
    IN CASE \E i \in DOMAIN names : world.files[names[i]].state = "broken" -> [outcome |-> "error", doc |-> <<>>]
         [] (\A i \in DOMAIN names : world.files[names[i]].state # "broken")
              /\ \E i \in DOMAIN world.env : IsObject(s.result) /\ Panics(s.env[n + i - 1], EnvPath(world.env[i])) ->
                [outcome |-> "panic", doc |-> <<>>]
         [] OTHER -> IF Typed(doc) /\ Valid(Expand(doc)) THEN [outcome |-> "ok", doc |-> Expand(doc)]
                     ELSE [outcome |-> "error", doc |-> <<>>]

-----------------------------------------------------------------------------
(* Routes given as a map *)

\* A pattern is a prefix of the model's name, or with star anything that begins so.
RouteKey(r) ==
    <<IF r.star /\ r.literal = 0 THEN 1 ELSE 0, IF r.star THEN 1 ELSE 0, -r.literal, r.rank>>

Before(a, b) ==
    \E i \in 1..4 : RouteKey(a)[i] < RouteKey(b)[i] /\ \A j \in 1..(i - 1) : RouteKey(a)[j] = RouteKey(b)[j]

RouteMatches(r, model) ==
    /\ r.literal <= Len(model) /\ \A i \in 1..r.literal : model[i] = r.name[i]
    /\ ~r.star => r.literal = Len(model)

\* The patterns are sorted (deserialize_route), and the first that matches is taken
\* (Broker::complete).
RouteOf(map, model) ==
    LET hits == {r \in map : RouteMatches(r, model)}
    IN CHOOSE r \in hits : \A other \in hits \ {r} : Before(r, other)

-----------------------------------------------------------------------------
(* Properties *)

\* The layers tell the truth: the value a key has before the rewriting of paths is
\* the one given by the last layer that has an entry for it or for an object it is in,
\* or its default (load_with_layers, diff_values; what rlp config shows).
LayersExplain(world) ==
    LET layers == Layers(world)
        result == Stages(world).result
        Entries(i, p) == {e \in layers[i] : IsPrefix(e.path, p)}
        Telling(p) == {i \in DOMAIN layers : Entries(i, p) # {}}
    IN Load(world).outcome = "ok" =>
        \A p \in DOMAIN result \cup DOMAIN Defaults :
            IF Telling(p) = {} THEN At(result, p) = At(Defaults, p)
            ELSE \E i \in Telling(p) : /\ \A j \in Telling(p) : j <= i
                                       /\ \A e \in Entries(i, p) : At(e.value, p) = At(result, p)

\* The pattern that a model is sent by says the most of its name among those that match
\* (deserialize_route with RouteRule::matches).
MostSpecificRoute(map, model) ==
    LET hits == {r \in map : RouteMatches(r, model)}
    IN hits # {} => RouteOf(map, model) \in hits /\ \A r \in hits : RouteOf(map, model).literal >= r.literal

\* The user's file wins over the system's (docs/ops.md:16).
UserOverSystem(world) ==
    LET user == world.files["home"].doc
    IN Load(world).outcome = "ok" /\ world.runloopConfig = "unset" /\ world.files["home"].state = "ok" =>
        \A p \in DOMAIN user :
            (\A i \in DOMAIN world.env : EnvPath(world.env[i]) # p) /\ p \in DOMAIN Load(world).doc
                => Load(world).doc[p] = user[p]

\* Any key can be given by the environment (README.md:231, docs/security-model.md:67).
EnvSetsKeys(world) == Load(world).outcome # "panic"

\* The legacy key of the routes still deserialises (docs/ops.md:88).
LegacyRoutingLoads(world) ==
    LET routing == <<"models", "broker", "routing">>
        Plain(name) ==
            /\ world.files[name].state \in {"ok", "missing"}
            /\ world.files[name].state = "ok" =>
                 DOMAIN world.files[name].doc \subseteq {routing} /\ Typed(Merge(<<"version">> :> Of("int", "1"), world.files[name].doc))
    IN world.env = <<>> /\ (\A name \in DOMAIN world.files : Plain(name)) => Load(world).outcome = "ok"
=============================================================================
