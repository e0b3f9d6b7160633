------------------------------- MODULE Registry -------------------------------
(***************************************************************************)
(* AgentRegistry (crates/agent-registry/src/lib.rs): which manifest stands *)
(* for an agent that an opening names, and how the daemon makes sure that  *)
(* it runs the agents the client saw (verify_agent_digests of              *)
(* crates/runloopd/src/engine.rs).                                         *)
(*                                                                         *)
(* A search directory is a manifest file, another file, absent, or a       *)
(* directory: a function from the paths below it that have a manifest.toml *)
(* to manifests.  A manifest stands for its digest.                        *)
(***************************************************************************)
EXTENDS Integers, Sequences, SequencesExt, FiniteSets

CONSTANTS
    Absent,
    Rank    \* the order of the names in a directory

Broken == [broken |-> TRUE]
Reads(m) == ~m.broken

\* The agent a manifest says it is.
Agent(m) == [name |-> m.name, variant |-> m.variant]

\* An agent's name and variant are single path segments.
ValidReference(ref) == ref.name \in DOMAIN Rank /\ (ref.variant = Absent \/ ref.variant \in DOMAIN Rank)

VariantRoots(ref) ==
    IF ref.variant = Absent THEN <<>>
    ELSE <<<<ref.name \o "@" \o ref.variant>>, <<ref.name, ref.variant>>, <<ref.name, "variants", ref.variant>>>>

\* Where a reference is looked for, in this order.
CandidateRoots(ref) == VariantRoots(ref) \o <<<<ref.name>>>>

\* manifest_at_search_root: a manifest that is not the agent's is passed over.
AtSearchRoot(base, ref) ==
    LET m == IF base.kind = "manifest" THEN base.manifest
             ELSE IF base.kind = "dir" /\ <<>> \in DOMAIN base.at THEN base.at[<<>>] ELSE Broken
    IN IF Reads(m) /\ m.name = ref.name /\ (ref.variant # Absent => m.variant = ref.variant) THEN m ELSE Absent

\* What a directory has for a reference.  A candidate is not looked into.
InBase(base, ref) ==
    LET roots == CandidateRoots(ref)
        hits == {i \in DOMAIN roots : base.kind = "dir" /\ roots[i] \in DOMAIN base.at}
    IN IF AtSearchRoot(base, ref) # Absent THEN AtSearchRoot(base, ref)
       ELSE IF hits = {} THEN Absent
       ELSE base.at[roots[CHOOSE i \in hits : \A j \in hits : i <= j]]

\* find_manifest: earlier directories win.
Winner(dirs, ref) ==
    LET hits == {i \in DOMAIN dirs : InBase(dirs[i], ref) # Absent}
    IN IF hits = {} THEN 0 ELSE CHOOSE i \in hits : \A j \in hits : i <= j

FindManifest(dirs, ref) ==
    IF ~ValidReference(ref) \/ Winner(dirs, ref) = 0 THEN Absent ELSE InBase(dirs[Winner(dirs, ref)], ref)

\* build_described: a reference without a variant takes that of the manifest.
Builds(m, ref) ==
    /\ Reads(m) /\ m.name = ref.name
    /\ ref.variant = Absent \/ m.variant = Absent \/ m.variant = ref.variant
    /\ m.tools \in {Absent, 1}

Described(m, ref) ==
    [reference |-> [name |-> m.name, variant |-> IF ref.variant = Absent THEN m.variant ELSE ref.variant], digest |-> m]

Describe(dirs, ref) ==
    LET m == FindManifest(dirs, ref)
    IN IF m = Absent THEN Absent ELSE IF Builds(m, ref) THEN Described(m, ref) ELSE Absent

\* describe_many: in the order of the references, each once, or none at all.
DescribeMany(dirs, refs) ==
    LET Seen(i) == \E j \in 1..(i - 1) : refs[j] = refs[i]
        described[i \in 0..Len(refs)] ==
            IF i = 0 THEN <<>>
            ELSE IF Seen(i) THEN described[i - 1] ELSE Append(described[i - 1], Describe(dirs, refs[i]))
    IN IF \E i \in DOMAIN refs : Describe(dirs, refs[i]) = Absent THEN Absent ELSE described[Len(refs)]

\* discover_manifest_paths: breadth first, names in order, not below a manifest and
\* at most three deep.
Precedes(p, q) ==
    \/ Len(p) < Len(q)
    \/ /\ Len(p) = Len(q)
       /\ \E i \in DOMAIN p : Rank[p[i]] < Rank[q[i]] /\ \A j \in 1..(i - 1) : p[j] = q[j]

\* The manifests of a search directory, by the paths they are found at.
Discovered(base) ==
    IF base.kind = "manifest" THEN [p \in {<<>>} |-> base.manifest]
    ELSE LET at == IF base.kind = "dir" THEN base.at ELSE <<>>
         IN [p \in {p \in DOMAIN at : Len(p) <= 3 /\ \A q \in DOMAIN at : ~IsStrictPrefix(q, p)} |-> at[p]]

\* list: the first manifest of each agent; one that cannot be read fails the list.
Listed(dirs) ==
    LET found == UNION {{[dir |-> i, path |-> p, manifest |-> Discovered(dirs[i])[p]] : p \in DOMAIN Discovered(dirs[i])} :
                           i \in DOMAIN dirs}
        Earlier(x, y) == x.dir < y.dir \/ (x.dir = y.dir /\ Precedes(x.path, y.path))
        first == {x \in found : \A y \in found : Earlier(y, x) => Agent(y.manifest) # Agent(x.manifest)}
    IN IF \E x \in found : ~Reads(x.manifest) \/ ~ValidReference(Agent(x.manifest)) THEN Absent
       ELSE IF \E x \in first : ~Builds(x.manifest, Agent(x.manifest)) THEN Absent
       ELSE {Described(x.manifest, Agent(x.manifest)) : x \in first}

-----------------------------------------------------------------------------
(* The files of a bundle *)

\* resolve_bundle_path; a target that does not exist is not looked at.
ResolvesInside(path) ==
    /\ path.spelled = "relative"        \* not empty, not absolute, no ".."
    /\ path.target # "outside"          \* where its links lead

\* bundle: every file the manifest names, the entries of the manifest before those
\* of its agent section.
Bundle(dirs, ref) ==
    LET m == FindManifest(dirs, ref)
    IN IF Describe(dirs, ref) = Absent \/ \E f \in DOMAIN m.files : ~ResolvesInside(m.files[f]) THEN Absent
       ELSE [described |-> Describe(dirs, ref),
             entry |-> IF "entry" \in DOMAIN m.files THEN m.files["entry"]
                       ELSE IF "agent.entry" \in DOMAIN m.files THEN m.files["agent.entry"] ELSE Absent]

-----------------------------------------------------------------------------
(* verify_agent_digests *)

\* Mutant: a digest for an agent the daemon does not know is passed over.
VerifyKnown(dirs, refs, expected) ==
    LET actual == DescribeMany(dirs, refs)
    IN /\ actual # Absent
       /\ Len(actual) = Len(expected)
       /\ \A e \in {expected[i] : i \in DOMAIN expected} :
            \A i \in DOMAIN actual : actual[i].reference = e.reference => actual[i].digest = e.digest

\* The map the daemon compares with keeps the last of two agents with one name.
Verify(dirs, refs, expected) ==
    LET actual == DescribeMany(dirs, refs)
        At(r) == {i \in DOMAIN actual : actual[i].reference = r}
    IN /\ actual # Absent
       /\ Cardinality({actual[i].reference : i \in DOMAIN actual}) = Len(expected)
       /\ \A e \in {expected[i] : i \in DOMAIN expected} :
            /\ At(e.reference) # {}
            /\ actual[CHOOSE i \in At(e.reference) : \A j \in At(e.reference) : j <= i].digest = e.digest

\* The client sends the digests of what it describes; the daemon takes the run.
Accepted(client, daemon, refs) ==
    DescribeMany(client, refs) # Absent /\ Verify(daemon, refs, DescribeMany(client, refs))

-----------------------------------------------------------------------------
(* Properties *)

\* The agent described is the one asked for, and a manifest without a variant stands
\* for a variant only where the directory it was found in has none for that.
DescribedAsAsked(dirs, ref) ==
    LET d == Describe(dirs, ref)
        base == dirs[Winner(dirs, ref)]
        own == {base.at[r] : r \in Range(VariantRoots(ref)) \cap DOMAIN base.at}
    IN d # Absent =>
         /\ d.reference.name = ref.name /\ d.digest.variant \in {d.reference.variant, Absent}
         /\ ref.variant # Absent => d.reference.variant = ref.variant
         /\ ref.variant # Absent /\ d.digest.variant = Absent /\ own # {} => d.digest \in own

\* A bundle that is handed out names no file outside of its directory (bundle,
\* resolve_bundle_path).
BundleIsWhole(base, ref) ==
    LET bundle == Bundle(<<base>>, ref)
    IN bundle # Absent => \A f \in DOMAIN bundle.described.digest.files : bundle.described.digest.files[f].target # "outside"

OncePerAgent(refs) == \A i, j \in DOMAIN refs : refs[i].name = refs[j].name => refs[i] = refs[j]

\* A run is accepted only if every agent of its opening is the same manifest on both
\* sides, and is accepted if both sides have the same directories, as long as the
\* opening names no agent with and without its variant.
VerifiedDigests(client, daemon, refs) ==
    OncePerAgent(refs) =>
        /\ Accepted(client, daemon, refs) =>
             \A i \in DOMAIN refs : Describe(client, refs[i]).digest = Describe(daemon, refs[i]).digest
        /\ client = daemon /\ DescribeMany(client, refs) # Absent => Accepted(client, daemon, refs)

\* The same without the proviso.
VerifiedAll(client, daemon, refs) ==
    Accepted(client, daemon, refs) =>
        \A i \in DOMAIN refs : Describe(client, refs[i]).digest = Describe(daemon, refs[i]).digest

\* Every manifest is at a place of its agent, and of no other: a name may hold the "@"
\* that joins a name and a variant.
Places(ref) == IF ref.variant = Absent THEN {<<ref.name>>} ELSE Range(VariantRoots(ref))
Tidy(base) ==
    base.kind = "dir" =>
        LET At(p) == Agent(base.at[p])
        IN /\ \A p \in DOMAIN base.at : Reads(base.at[p]) /\ p \in Places(At(p))
           /\ \A p, q \in DOMAIN base.at : q \in Places(At(p)) => At(q) = At(p)

\* The agents that are listed are those that a run is started with (list,
\* find_manifest), where the directory is tidy.
ListedIsDescribed(base) ==
    Tidy(base) /\ Listed(<<base>>) # Absent =>
        \A d \in Listed(<<base>>) : Describe(<<base>>, d.reference) = d
=============================================================================
