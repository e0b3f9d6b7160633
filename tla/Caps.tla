-------------------------------- MODULE Caps --------------------------------
(***************************************************************************)
(* The capabilities of an agent (crates/runtime: caps.rs, policy.rs): what *)
(* a policy file grants, and what is left of it once the overrides of the  *)
(* system and of the user are intersected with it.                         *)
(*                                                                         *)
(* A policy is a function from its keys to the TOML values read there:     *)
(* Absent, or a record with a type and its contents.  A set of KB          *)
(* namespaces stands for CapabilitySet: None is {}, All is every namespace *)
(***************************************************************************)
EXTENDS Integers, FiniteSets

CONSTANTS
    Absent,      \* a key that is not in the file; a port that is not given
    Namespaces   \* the namespaces of the knowledge base

Flags == {"time", "model", "exec"}
KbKeys == {"kb_read", "kb_write"}
FsKeys == {"fs", "fs_ro", "fs_rw"}
Keys == Flags \cup KbKeys \cup FsKeys \cup {"net", "secrets"}

Is(value, type) == value # Absent /\ value.type = type

-----------------------------------------------------------------------------
(* from_policy *)

\* parse_bool
Flag(value) == Is(value, "bool") /\ value.on

\* parse_capability_set
NamespacesOf(value) ==
    CASE Is(value, "bool") -> IF value.on THEN Namespaces ELSE {}
      [] Is(value, "array") -> value.items
      [] OTHER -> {}

\* parse_secrets
SecretsOf(value) == IF Is(value, "array") THEN value.items ELSE {}

\* parse_fs: a key that is no array is taken for one that is not there.
FsOf(policy) ==
    UNION {(IF Is(policy[key], "array") THEN policy[key].items ELSE {}) \X {key = "fs_rw"} : key \in FsKeys}

FsPresent(policy) == \E key \in FsKeys : Is(policy[key], "array")

\* parse_net: [host, port] pairs, and whether plain HTTP is allowed.
HostsOf(value) ==
    CASE Is(value, "array") -> value.items
      [] Is(value, "table") -> value.hosts
      [] OTHER -> {}

\* The policies from_policy refuses.
Malformed(policy) ==
    \/ \E key \in KbKeys : policy[key] # Absent /\ policy[key].type \notin {"bool", "array"}
    \/ policy["net"] # Absent /\ policy["net"].type \notin {"array", "table"}
    \/ \E key \in FsKeys : Is(policy[key], "array") /\ "" \in policy[key].items

FromPolicy(policy) ==
    [fs |-> FsOf(policy),
     hosts |-> HostsOf(policy["net"]),
     http |-> Is(policy["net"], "table") /\ policy["net"].http = TRUE,
     flags |-> {f \in Flags : Flag(policy[f])},
     kb |-> [k \in KbKeys |-> NamespacesOf(policy[k])],
     secrets |-> SecretsOf(policy["secrets"])]

\* CapsPresence
Presence(policy) ==
    {k \in Keys \ FsKeys : policy[k] # Absent}
        \cup (IF FsPresent(policy) THEN {"fs"} ELSE {})
        \cup (IF Is(policy["net"], "table") /\ policy["net"].http # Absent THEN {"http"} ELSE {})

-----------------------------------------------------------------------------
(* intersect_with *)

\* merge_fs: of two entries of the override for a root, the later one counts,
\* that of fs_rw.
MergeFs(base, override) ==
    {<<e[1], e[2] /\ <<e[1], TRUE>> \in override>> :
        e \in {b \in base : \E o \in override : o[1] = b[1]}}

\* Mutant: an override may open the port the base leaves to be chosen.
MergeHostsOpen(base, override) ==
    {h \in base \cup override : \E b \in base, o \in override : b.host = h.host /\ o.host = h.host}

\* merge_hosts
MergeHosts(base, override) ==
    LET Ports(host) == {o.port : o \in {o \in override : o.host = host}}
        IsOpen(host) == \E b \in base : b.host = host /\ b.port = Absent
    IN {b \in base : Absent \in Ports(b.host) \/ b.port \in Ports(b.host)}
         \cup {o \in override : o.port # Absent /\ Absent \notin Ports(o.host) /\ IsOpen(o.host)}

IntersectWith(base, override, present) ==
    [fs |-> IF "fs" \in present THEN MergeFs(base.fs, override.fs) ELSE base.fs,
     hosts |-> IF "net" \in present THEN MergeHosts(base.hosts, override.hosts) ELSE base.hosts,
     http |-> base.http /\ ("http" \in present => override.http),
     flags |-> {f \in base.flags : f \in present => f \in override.flags},
     kb |-> [k \in KbKeys |-> IF k \in present THEN base.kb[k] \cap override.kb[k] ELSE base.kb[k]],
     secrets |-> IF "secrets" \in present THEN base.secrets \cap override.secrets ELSE base.secrets]

\* effective_caps
Override(base, policy) == IntersectWith(base, FromPolicy(policy), Presence(policy))

IsEffectivelyEmpty(caps) ==
    /\ caps.fs = {} /\ caps.hosts = {} /\ caps.flags = {} /\ caps.secrets = {}
    /\ \A k \in KbKeys : caps.kb[k] = {}

-----------------------------------------------------------------------------
(* What the hostcalls and the preopened directories permit *)

\* host_matches: a request that names no port passes any.
HostMatches(entry, host, port) ==
    /\ entry.host = host
    /\ entry.port = Absent \/ port = Absent \/ entry.port = port

\* The ensure_* checks.  A request names the key it needs and its target.
Permits(caps, req) ==
    CASE req.key \in Flags -> req.key \in caps.flags
      [] req.key \in KbKeys -> req.target \in caps.kb[req.key]
      [] req.key = "secrets" -> req.target \in caps.secrets
      [] req.key = "fs" -> \E e \in caps.fs : e[1] = req.target /\ (req.write => e[2])
      [] req.key = "net" -> /\ req.plain => caps.http
                            /\ \E e \in caps.hosts : HostMatches(e, req.target, req.port)

-----------------------------------------------------------------------------
(* Properties *)

Restricts(present, req) == req.key \in present \/ (req.key = "net" /\ req.plain /\ "http" \in present)

\* An override only revokes: what is left permits no request the base does not.
GrantsNothing(base, override, present, req) ==
    Permits(IntersectWith(base, override, present), req) => Permits(base, req)

\* A request that names its port passes what is left exactly when it passes the
\* base, and the override wherever that says something of its key.
IsIntersection(base, override, present, req) ==
    (req.key = "net" => req.port # Absent) =>
        (Permits(IntersectWith(base, override, present), req) <=>
            /\ Permits(base, req)
            /\ "http" \in present /\ req.key = "net" /\ req.plain => override.http
            /\ req.key \in present =>
                 Permits([override EXCEPT !.http = TRUE], req))

\* A key an override sets to false, or to an empty list, is revoked.
Revoked(base, policy, req) ==
    LET keys == IF req.key = "fs" THEN FsKeys ELSE {req.key}
        Off(k) == (Is(policy[k], "bool") /\ ~policy[k].on) \/ (Is(policy[k], "array") /\ policy[k].items = {})
    IN /\ \E k \in keys : Off(k)
       /\ \A k \in keys : Off(k) \/ policy[k] = Absent
       /\ ~Malformed(policy)
       => ~Permits(Override(base, policy), req)
=============================================================================
