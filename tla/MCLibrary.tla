----------------------------- MODULE MCLibrary -----------------------------
(***************************************************************************)
(* The tables of the pure parts, each a set of inputs chosen to meet every *)
(* rule: one state per input.                                              *)
(***************************************************************************)
EXTENDS Parts, TLC

-----------------------------------------------------------------------------
(* Capabilities: the keys do not depend on each other, but for those of a  *)
(* group.                                                                  *)

Array(items) == [type |-> "array", items |-> items]
Bool(on) == [type |-> "bool", on |-> on]
Other == [type |-> "string"]

Hosts == {[host |-> "h", port |-> Absent], [host |-> "h", port |-> 80], [host |-> "h", port |-> 443],
          [host |-> "g", port |-> Absent]}

Values(key) ==
    CASE key \in Flags -> {Absent, Bool(TRUE), Bool(FALSE), Other}
      [] key \in KbKeys -> {Absent, Bool(TRUE), Bool(FALSE)} \cup {Array(s) : s \in SUBSET {"n1", "n2"}}
      [] key = "secrets" -> {Absent, Other} \cup {Array(s) : s \in SUBSET {"s1", "s2"}}
      [] key = "fs" -> {Absent, Bool(FALSE), Array({}), Array({"/a"})}
      [] key \in FsKeys \ {"fs"} -> {Absent, Array({}), Array({"/a"}), Array({"/a", "/b"})}
      [] key = "net" -> {Absent} \cup {Array(s) : s \in SUBSET Hosts}
                           \cup {[type |-> "table", hosts |-> s, http |-> h] :
                                    s \in {{}, {[host |-> "h", port |-> Absent]}, {[host |-> "h", port |-> 80]}},
                                    h \in {Absent, TRUE, FALSE}}

Groups == {{"model"}, {"kb_read"}, {"secrets"}, FsKeys, {"net"}}

\* A policy that has the keys of a group, or none.
Policies(group) ==
    LET Of(f) == [k \in Keys |-> IF k \in group THEN f[k] ELSE Absent]
    IN IF Cardinality(group) = 1
       THEN {Of([k \in group |-> v]) : v \in UNION {Values(k) : k \in group}}
       ELSE {Of(f) : f \in {g \in [FsKeys -> UNION {Values(k) : k \in FsKeys}] : \A k \in FsKeys : g[k] \in Values(k)}}

MCRequests ==
    {[key |-> "model"]} \cup {[key |-> "kb_read", target |-> n] : n \in {"n1", "n2"}}
        \cup {[key |-> "secrets", target |-> s] : s \in {"s1", "s2"}}
        \cup {[key |-> "fs", target |-> r, write |-> w] : r \in {"/a", "/b"}, w \in BOOLEAN}
        \cup {[key |-> "net", target |-> h, port |-> p, plain |-> q] :
                h \in {"g", "h"}, p \in {Absent, 80, 443, 1}, q \in BOOLEAN}

MCOverrides ==
    UNION {{[base |-> base, override |-> override] : base, override \in Policies(group)} : group \in Groups}

-----------------------------------------------------------------------------
(* Hostcalls *)

Output == [len : {0, 2, 5}, read : BOOLEAN]
Child == [spawns : BOOLEAN, waits : {TRUE}, ends : {"code", "signal", "never"}, code : {0, 3},
          out : Output, err : {[len |-> 2, read |-> TRUE], [len |-> 5, read |-> FALSE]}]

MCModelCalls ==
    [decodes : BOOLEAN, error : {"none", "Timeout"}, text : {0, 3}, outCap : {0, 3},
     meta : {0, 4}, metaCap : {0, 3, 4, 8}]
MCCaptures ==
    {c \in [out : {-1, 0, 3, 4, 6, 9, 10}, err : {-1, 0, 3, 4, 6, 9, 10}, child : Child, timeout : BOOLEAN] :
        Host!Ends(c.child, c.timeout) # "never"}
MCRings == [items : {[i \in 1..n |-> i] : n \in 0..5}, capacity : 1..4]

-----------------------------------------------------------------------------
(* Configuration *)

File(path, type, v) == path :> Cfg!Of(type, v)
Docs ==
    {<<>>,
     File(<<"kb", "ledger">>, "string", "a") @@ File(<<"kb", "events_db">>, "string", "b"),
     File(<<"kb", "ledger">>, "string", "c") @@ File(<<"router", "shell_fastpath">>, "bool", "false")
        @@ File(<<"router", "allow_shell_fastpath">>, "bool", "true"),
     File(<<"kb", "events_db">>, "string", "d") @@ File(<<"runtime", "sockets_dir">>, "string", "~/.runloop/run"),
     File(<<"security", "testing", "allow_missing_secrets">>, "bool", "false"),
     File(<<"security">>, "null", ""), File(<<"runtime">>, "null", ""),
     File(<<"runtime", "socket_path">>, "null", ""),
     File(<<"models", "broker", "routing">>, "routes", "* remote"),
     File(<<"version">>, "int", "1") @@ File(<<"runtime", "socket_path">>, "string", " ")}

Files == [state : {"ok"}, doc : Docs] \cup [state : {"missing", "broken", "empty"}, doc : {<<>>}]

EnvVars ==
    {[path |-> <<"router", "allow_shell_fastpath">>, raw |-> "0"],
     [path |-> <<"security", "testing", "allow_missing_secrets">>, raw |-> "1"],
     [path |-> <<"kb", "ledger">>, raw |-> "e"],
     [path |-> <<"observability", "metrics_interval_ms">>, raw |-> "99"]}

NoFile == [state |-> "missing", doc |-> <<>>]
World(override, env, files, xdg) == [runloopConfig |-> override, env |-> env, files |-> files @@ ("xdg" :> xdg)]
FilePairs == [{"home", "etc"} -> Files]

MCWorlds ==
    {World(override, env, files, NoFile) :
        override \in {"unset", "home"}, env \in {<<>>} \cup {<<v>> : v \in EnvVars}, files \in FilePairs}
    \cup {World("unset", <<v, w>>, files, NoFile) : v, w \in EnvVars, files \in FilePairs}
    \cup {World(override, <<>>, files, [state |-> "ok", doc |-> File(<<"runtime", "socket_path">>, "string", "s")]) :
            override \in {"unset", "home"}, files \in FilePairs}

Routed == {[name |-> n, star |-> s, literal |-> Len(n)] : n \in {<<>>, <<"a">>, <<"a", "b">>}, s \in BOOLEAN} \ {[name |-> <<>>, star |-> FALSE, literal |-> 0]}

Ranks(map) == {f \in [map -> 1..Cardinality(map)] : \A r, s \in map : f[r] = f[s] => r = s}
MCRoutings ==
    UNION {{[map |-> {[name |-> r.name, star |-> r.star, literal |-> r.literal, rank |-> rank[r]] : r \in map}, model |-> model] :
               rank \in Ranks(map), model \in {<<"a">>, <<"a", "b">>, <<"b">>}} : map \in SUBSET Routed}

-----------------------------------------------------------------------------
(* Openings *)

Plain == Opening!Text("none")
Leaves == {Plain, Opening!Text("x"), Opening!Text("y"), Opening!Text("other"), Opening!False}
Given(braces) == Opening!Arr(<<Opening!Text(braces)>>)
Nested ==
    Leaves \cup {Opening!Arr(<<v>>) : v \in Leaves} \cup {Opening!Obj(<<"k">>, <<v>>) : v \in Leaves}
        \cup {Opening!Arr(<<Opening!Arr(<<v>>), Plain>>) : v \in Leaves}
        \cup {Opening!Arr(<<Opening!Obj(<<"k">>, <<v>>)>>) : v \in Leaves}
ParamSets == {<<>>, "x" :> Plain, "x" :> Opening!False, "x" :> Given("y"), ("x" :> Opening!False) @@ ("y" :> Plain)}

OpeningNode(id, agent, with) ==
    [id |-> id, use |-> [prefix |-> "agent", name |-> agent, variant |-> Absent], with |-> with, hints |-> Absent,
     retry |-> Absent, timeout_ms |-> Absent, budget_tokens |-> Absent, tags |-> Absent]

Froms == {<<"a", ".", "p", ">=", "1">>, <<"a", ".", "p">>, <<"a">>, <<"a", ".", "p", "==", "'", "t">>}

OpeningDoc(nodes, params, confirm, links, success) ==
    [version |-> 0, name |-> 1, goals |-> Absent, params |-> params,
     policy |-> IF confirm = Absent THEN Absent ELSE [confirm_external |-> confirm], nodes |-> nodes,
     edges |-> links, success |-> success, save |-> Absent]

MCDocuments ==
    {OpeningDoc(<<OpeningNode(ids[1], agent, Opening!Obj(<<"require_human_confirm">>, <<value>>)),
                  OpeningNode(ids[2], "writer", Absent)>>,
                params, confirm, <<>>, Absent) :
        agent \in {"mailer", "writer"}, value \in Nested, params \in ParamSets, confirm \in {Absent, TRUE, FALSE},
        ids \in {<<"a", "b">>, <<"a", "a">>}}
    \cup
    {OpeningDoc(<<OpeningNode("a", "writer", Absent)>>, Absent, Absent,
                <<[from |-> from, to |-> <<"a", ".", "q">>]>>, [any_of |-> any, all_of |-> all]) :
        from \in Froms, any, all \in {Absent, Bad, <<>>} \cup {<<[exists |-> x, raw |-> e]>> : x \in BOOLEAN, e \in Froms}}

Literals ==
    {<<"1">>, <<"2.5">>, <<"false">>}
        \cup {<<"'", word, inner, "'">> : word, inner \in Opening!OperatorWords \cup {"x", ".", "true", "1"}}

MCExpressions ==
    [node : {<<"a">>}, port : {<<"p">>, <<"p", ".", "q">>}, op : Opening!OperatorWords, literal : Literals]

-----------------------------------------------------------------------------
(* Agents: the client and the daemon have a search directory each, the     *)
(* daemon maybe another one before it.                                     *)

MCRank == [w |-> 1, x |-> 2, v |-> 3, variants |-> 4] @@ ("w@v" :> 5)

Manifest(name, variant, tools, id) ==
    [broken |-> FALSE, name |-> name, variant |-> variant, tools |-> tools, files |-> <<>>, id |-> id]

Manifests ==
    {Manifest("w", Absent, Absent, 1), Manifest("w", "v", Absent, 1), Manifest("w", "v", Absent, 2),
     Manifest("x", Absent, 2, 3), Manifest("w@v", Absent, Absent, 4), Reg!Broken}

Paths1 == {{<<>>}, {<<"w">>}, {<<"w", "variants", "v">>}, {<<"x">>}}
Paths2 == {{<<"w">>, <<"w@v">>}, {<<"w">>, <<"w", "v">>}, {<<"w@v">>, <<"w", "v">>}}

Dirs(pathSets, manifests) == [kind : {"dir"}, at : UNION {[paths -> manifests] : paths \in pathSets}]
SmallDirs ==
    Dirs(Paths1, Manifests)
        \cup {[kind |-> "manifest", manifest |-> Manifest("w", "v", 1, 1)], [kind |-> "absent"]}

Before == [kind |-> "dir", at |-> <<"w">> :> Manifest("w", Absent, Absent, 9)]

Ref(name, variant) == [name |-> name, variant |-> variant]
MCRefLists ==
    {<<Ref("w", Absent)>>, <<Ref("w", "v")>>, <<Ref("x", Absent), Ref("w", "v")>>, <<Ref("w", Absent), Ref("w", "v")>>, <<Ref("..", Absent)>>,
     <<Ref("w", "v"), Ref("w", "v")>>}

BundleFiles == {[spelled |-> "relative", target |-> "inside"], [spelled |-> "relative", target |-> "outside"],
           [spelled |-> "absolute", target |-> "missing"]}

MCClients == {<<dir>> : dir \in SmallDirs \cup Dirs(Paths2, {m \in Manifests : m.broken \/ m.name # "x"})}
MCDaemons == MCClients \cup {<<Before, dir>> : dir \in SmallDirs}
MCBundles ==
    UNION {{[base |-> [kind |-> "dir", at |-> <<"w">> :> [m EXCEPT !.files = files]], ref |-> Ref("w", Absent)] :
               m \in Manifests \ {Reg!Broken}, files \in [names -> BundleFiles]} :
           names \in SUBSET {"entry", "agent.entry", "caps"}}

-----------------------------------------------------------------------------
(* Redaction: texts alone, in lists, in objects, in both.                  *)

Text(local, rest) ==
    Redact!Value("text", [local |-> local, masks |-> 0, rest |-> rest], <<>>, <<>>)
Nothing == Text(Redact!Empty, <<>>).text
Items(items) == Redact!Value("array", Nothing, <<>>, items)
Fields(keys, values) == Redact!Value("object", Nothing, keys, values)

Texts == {Text("a", <<"x">>), Text("a", <<>>), Redact!Value("other", Nothing, <<>>, <<>>)}
CellValues ==
    Texts \cup {Items(<<v, w>>) : v, w \in Texts} \cup {Items(<<Fields(<<"a@x">>, <<v>>)>>) : v \in Texts}
        \cup {Fields(<<"k">>, <<Items(<<v>>)>>) : v \in Texts}

Payloads == CellValues \cup {Fields(<<"to", "x">>, <<v, w>>) : v \in CellValues, w \in Texts}

MCQueries ==
    [row : [kind : {Absent, "email.sent", "run.finished"},
            email : {Absent, Text("a", <<"x">>), Text("a", <<"x", "b", "x">>),
                     Text(Redact!Empty, <<"b", "x">>), Text("a", <<Redact!Empty>>)},
            payload : {Absent} \cup Payloads],
     ctx : [maskEmail : BOOLEAN, allowed : BOOLEAN, admin : BOOLEAN, drop : BOOLEAN]]

-----------------------------------------------------------------------------
\* E-mail is masked for who has no clearance (docs/ops.md:159, docs/security-model.md:82).
NoAddressShown == case.table = "redaction" => Redact!NoAddressShown(case.in.row, case.in.ctx, {"a@x"})

\* A token stands for one address wherever it is shown (docs/security-model.md:83).
JoinsWork == case.table = "redaction" => Redact!JoinsWork(case.in.row, case.in.ctx)

\* The daemon runs what the client saw, whatever agents the opening names
\* (docs/architecture.md, crates/runloopd: verify_agent_digests).
VerifiedAll == case.table = "agents" => Reg!VerifiedAll(case.in.client, case.in.daemon, case.in.refs)

\* Any key can be given by the environment (README.md:231, docs/security-model.md:67).
EnvSetsKeys == case.table = "config" => Cfg!EnvSetsKeys(case.in)

\* The legacy key of the routes still deserialises (docs/ops.md:88).
LegacyRoutingLoads == case.table = "config" => Cfg!LegacyRoutingLoads(case.in)

\* Every node is kept from disabling confirmations (docs/openings-dsl.md:373).
NodesConfirm == case.table = "opening" => Opening!NodesConfirm(case.in)

\* What an override sets to false is revoked (docs/policy-caps.md:58).
FalseRevokes ==
    case.table = "caps" /\ ~Malformed(case.in.base) =>
        \A req \in Requests : Revoked(FromPolicy(case.in.base), case.in.override, req)

\* The user's file wins over the system's (docs/ops.md:16).
UserOverSystem == case.table = "config" => Cfg!UserOverSystem(case.in)
=============================================================================
