------------------------------ MODULE PartsProofs ------------------------------
(***************************************************************************)
(* The parts that stand alone, for every value of their constants: the     *)
(* check of an opening's graph (GraphInv), the two caches of a spawn       *)
(* (SecretInv, ModuleInv), the overrides of a policy, what the hostcalls   *)
(* answer (TablesInv), the monitor (MonitorInv), what is shown of e-mail   *)
(* addresses, the payloads and expressions of an opening, the agents that  *)
(* the registry describes, the layers of the configuration and the routes  *)
(* of a map, and the readiness handshake of Runtime::spawn (HandshakeInv). *)
(***************************************************************************)
EXTENDS Runtime, Parts, FiniteSetTheorems, SequenceTheorems, WellFoundedInduction, TLAPS

-----------------------------------------------------------------------------
(* Induction *)

LEMMA Less == ASSUME NEW x \in Nat, NEW y \in Nat
              PROVE  <<x, y>> \in OpToRel(<, Nat) <=> x < y
  BY DEF OpToRel

\* Induction over the naturals, for a set of them.
LEMMA SetInduction ==
    ASSUME NEW S, 0 \in S, \A n \in Nat : n \in S => n + 1 \in S
    PROVE  Nat \subseteq S
<1> DEFINE T == Nat \ S
<1> SUFFICES ASSUME T # {} PROVE FALSE
  OBVIOUS
<1>1. PICK x \in T : \A y \in T : <<y, x>> \notin OpToRel(<, Nat)
  BY NatLessThanWellFounded, WFMin
<1>2. x \in Nat /\ x # 0
  OBVIOUS
<1>3. x - 1 \in Nat /\ x - 1 < x
  BY <1>2
<1>4. <<x - 1, x>> \in OpToRel(<, Nat)
  BY <1>2, <1>3, Less
<1>5. x - 1 \notin T
  BY <1>1, <1>4
<1>6. x - 1 \in S
  BY <1>3, <1>5
<1>7. (x - 1) + 1 \in S
  BY <1>3, <1>6
<1>8. QED
  BY <1>2, <1>7

-----------------------------------------------------------------------------
(* validate_graph *)

\* Inbound edges of t whose source has not been removed when V has been.
Open(t, V) == {i \in Graph!In(t) : edges[i].from \notin V}

\* The instance's Cardinality is that of the library's theorems.
LEMMA SameCardinality == \A S : Graph!Cardinality(S) = Cardinality(S)
  BY DEF Graph!Cardinality, Cardinality

LEMMA EdgesFinite ==
    ASSUME edges \in EdgeLists
    PROVE  \A t : IsFiniteSet(Graph!In(t)) /\ \A V : IsFiniteSet(Open(t, V))
<1>1. IsFiniteSet(DOMAIN edges)
  BY GraphAssumption, FS_Interval
<1>2. \A T \in SUBSET DOMAIN edges : IsFiniteSet(T)
  BY <1>1, FS_Subset
<1>3. QED
  BY <1>2 DEF Graph!In, Open

\* Taking away the edges of n from the count of t.
LEMMA OneLess ==
    ASSUME edges \in EdgeLists, NEW t, NEW V, NEW n, n \notin V
    PROVE  /\ Cardinality(Open(t, V \cup {n}))
                = Cardinality(Open(t, V)) - Cardinality(Graph!Out(n) \cap Graph!In(t))
           /\ Cardinality(Open(t, V)) \in Nat
           /\ Cardinality(Open(t, V \cup {n})) \in Nat
<1>1. Open(t, V \cup {n}) = Open(t, V) \ (Graph!Out(n) \cap Graph!In(t))
  BY DEF Open, Graph!In, Graph!Out
<1>2. Open(t, V) \cap (Graph!Out(n) \cap Graph!In(t)) = Graph!Out(n) \cap Graph!In(t)
  BY DEF Open, Graph!In, Graph!Out
<1>3. IsFiniteSet(Open(t, V)) /\ IsFiniteSet(Open(t, V \cup {n}))
  BY EdgesFinite
<1>4. Cardinality(Open(t, V) \ (Graph!Out(n) \cap Graph!In(t)))
        = Cardinality(Open(t, V)) - Cardinality(Open(t, V) \cap (Graph!Out(n) \cap Graph!In(t)))
  BY <1>3, FS_Difference
<1>5. Cardinality(Open(t, V)) \in Nat /\ Cardinality(Open(t, V \cup {n})) \in Nat
  BY <1>3, FS_CardinalityType
<1>6. QED
  BY <1>1, <1>2, <1>4, <1>5

LEMMA ZeroIsEmpty ==
    ASSUME edges \in EdgeLists, NEW t, NEW V
    PROVE  Cardinality(Open(t, V)) = 0 <=> Open(t, V) = {}
  BY EdgesFinite, FS_EmptySet

LEMMA InitGraphInv == Graph!Init => Graph!GraphInv
<1> SUFFICES ASSUME Graph!Init
             PROVE  Graph!GraphInv
  OBVIOUS
<1>1. edges \in EdgeLists /\ visited = {}
  BY DEF Graph!Init
<1>2. \A n \in Nodes : Open(n, {}) = Graph!In(n) /\ {i \in Graph!In(n) : edges[i].from \notin visited} = Graph!In(n)
  BY <1>1 DEF Open
<1>3. \A n \in Nodes : Cardinality(Graph!In(n)) = 0 <=> Graph!In(n) = {}
  BY <1>1, <1>2, ZeroIsEmpty
<1>4. indegree = [n \in Nodes |-> Cardinality({i \in Graph!In(n) : edges[i].from \notin visited})]
  BY <1>2, SameCardinality DEF Graph!Init
<1>5. queue = {n \in Nodes \ visited : indegree[n] = 0}
  BY <1>1, <1>3, SameCardinality DEF Graph!Init
<1>6. QED
  BY <1>1, <1>4, <1>5, SameCardinality DEF Graph!Init, Graph!GraphInv, Graph!Loop

LEMMA RemoveKeepsGraphInv ==
    ASSUME Graph!GraphInv, NEW n \in Nodes, Graph!Remove(n)
    PROVE  Graph!GraphInv'
<1>a. /\ edges \in EdgeLists /\ UNCHANGED <<edges, verdict>> /\ verdict = "open"
      /\ Graph!KnownNodes /\ n \in queue /\ n \notin visited
      /\ visited' = visited \cup {n}
  BY DEF Graph!GraphInv, Graph!Remove
<1>b. /\ indegree = [t \in Nodes |-> Cardinality(Open(t, visited))]
      /\ queue = {t \in Nodes \ visited : indegree[t] = 0}
      /\ \A t \in visited : \A i \in Graph!In(t) : edges[i].from \in visited
  BY <1>a, SameCardinality DEF Graph!GraphInv, Open
<1>c. /\ Graph!In(n)' = Graph!In(n) /\ Graph!KnownNodes'
      /\ \A t \in Nodes : Graph!In(t)' = Graph!In(t)
  BY <1>a DEF Graph!In, Graph!KnownNodes
<1>d. \A t \in Nodes : Graph!Left(n)[t] = Cardinality(Open(t, visited \cup {n}))
  BY <1>a, <1>b, OneLess, SameCardinality DEF Graph!Left
<1>1. indegree' = [t \in Nodes |-> Cardinality({i \in Graph!In(t) : edges[i].from \notin visited})]'
  <2>1. \A t \in Nodes : {i \in Graph!In(t) : edges[i].from \notin visited}' = Open(t, visited \cup {n})
    BY <1>a, <1>c DEF Open
  <2>2. indegree' = [t \in Nodes |-> Graph!Left(n)[t]]
    BY DEF Graph!Remove, Graph!Left
  <2>3. QED
    BY <1>d, <2>1, <2>2
<1>2. queue' = {t \in Nodes \ visited : indegree[t] = 0}'
  <2>1. \A t \in Nodes : indegree'[t] = Graph!Left(n)[t] /\ indegree[t] \in Nat
                           /\ (indegree[t] = 0 => Graph!Left(n)[t] = 0)
    <3>1. \A t \in Nodes : indegree'[t] = Graph!Left(n)[t] /\ indegree[t] \in Nat
      BY <1>a, <1>b, OneLess DEF Graph!Remove, Graph!Left
    <3>2. \A t \in Nodes : Open(t, visited) = {} => Open(t, visited \cup {n}) = {}
      BY DEF Open
    <3>3. \A t \in Nodes : indegree[t] = 0 => Cardinality(Open(t, visited \cup {n})) = 0
      BY <1>a, <1>b, <3>2, ZeroIsEmpty
    <3>4. QED
      BY <1>d, <3>1, <3>3
  <2>2. queue' = (queue \ {n}) \cup {t \in Nodes : indegree[t] > 0 /\ Graph!Left(n)[t] = 0}
    BY DEF Graph!Remove
  <2>3. \A t \in Nodes : indegree[t] > 0 => t \notin visited \cup {n}
    <3>1. \A t \in visited : Open(t, visited) = {}
      BY <1>b DEF Open
    <3>2. \A t \in visited \cap Nodes : indegree[t] = 0
      BY <1>a, <1>b, <3>1, ZeroIsEmpty
    <3>3. QED
      BY <1>a, <1>b, <3>2
  <2>4. QED
    BY <1>a, <1>b, <2>1, <2>2, <2>3
<1>e. \A i \in Graph!In(n) : edges[i].from \in visited
  <2>1. Open(n, visited) = {}
    BY <1>a, <1>b, ZeroIsEmpty
  <2>2. QED
    BY <2>1 DEF Open
<1>3. \A t \in visited' : \A i \in Graph!In(t)' : edges'[i].from \in visited'
  <2>1. visited \subseteq Nodes
    BY DEF Graph!GraphInv
  <2>2. QED
    BY <1>a, <1>b, <1>c, <1>e, <2>1
<1>4. visited' \subseteq Nodes /\ queue' \subseteq Nodes /\ visited' \cap queue' = {}
  BY <1>a, <1>2 DEF Graph!GraphInv
<1>5. \A S \in SUBSET Nodes : Graph!Loop(S)' => S \cap visited' = {}
  <2>1. ASSUME NEW S \in SUBSET Nodes, Graph!Loop(S), n \in S
        PROVE  FALSE
    <3>1. PICK i \in Graph!In(n) : edges[i].from \in S
      BY <2>1 DEF Graph!Loop
    <3>2. edges[i].from \in visited
      BY <1>e, <3>1
    <3>3. QED
      BY <2>1, <3>1, <3>2 DEF Graph!GraphInv
  <2>2. \A S \in SUBSET Nodes : Graph!Loop(S)' <=> Graph!Loop(S)
    BY <1>a, <1>c DEF Graph!Loop
  <2>3. QED
    BY <1>a, <2>1, <2>2 DEF Graph!GraphInv
<1>6. QED
  BY <1>a, <1>c, <1>1, <1>2, <1>3, <1>4, <1>5, SameCardinality DEF Graph!GraphInv

LEMMA DecideKeepsGraphInv ==
    ASSUME Graph!GraphInv, Graph!Decide
    PROVE  Graph!GraphInv'
<1>1. visited \subseteq Nodes /\ IsFiniteSet(Nodes)
  BY GraphAssumption DEF Graph!GraphInv
<1>2. Cardinality(visited) = Cardinality(Nodes) <=> visited = Nodes
  BY <1>1, FS_Subset
<1>3. Graph!KnownNodes' = Graph!KnownNodes /\ (\A t \in Nodes : Graph!In(t)' = Graph!In(t)) /\ visited' = visited
      /\ edges' = edges
  BY DEF Graph!Decide, Graph!KnownNodes, Graph!In
<1>4. verdict' \in {"ok", "cycle"} /\ (verdict' = "ok" <=> visited = Nodes) /\ queue = {}
      /\ verdict = "open"
  BY <1>2, SameCardinality DEF Graph!Decide
<1>5. Graph!KnownNodes' =>
        /\ indegree' = [n \in Nodes |-> Cardinality({i \in Graph!In(n) : edges[i].from \notin visited})]'
        /\ queue' = {n \in Nodes \ visited : indegree[n] = 0}'
        /\ \A n \in visited' : \A i \in Graph!In(n)' : edges'[i].from \in visited'
  BY <1>1, <1>3, SameCardinality DEF Graph!GraphInv, Graph!Decide
<1>6. \A S \in SUBSET Nodes : Graph!Loop(S)' => S \cap visited' = {}
  BY <1>3 DEF Graph!GraphInv, Graph!Loop
<1>7. QED
  BY <1>3, <1>4, <1>5, <1>6 DEF Graph!GraphInv, Graph!Decide

LEMMA NextGraphInv == Graph!GraphInv /\ [Graph!Next]_(Graph!vars) => Graph!GraphInv'
<1> SUFFICES ASSUME Graph!GraphInv, [Graph!Next]_(Graph!vars)
             PROVE  Graph!GraphInv'
  OBVIOUS
<1>1. CASE UNCHANGED Graph!vars
  BY <1>1 DEF Graph!vars, Graph!GraphInv, Graph!KnownNodes, Graph!In, Graph!Loop
<1>2. QED
  BY <1>1, RemoveKeepsGraphInv, DecideKeepsGraphInv DEF Graph!Next

\* What is left when the queue runs empty is a cycle; what was removed never
\* belonged to one.
LEMMA InvGivesVerdict == Graph!GraphInv => VerdictCorrect
<1> SUFFICES ASSUME Graph!GraphInv
             PROVE  VerdictCorrect
  OBVIOUS
<1>1. ASSUME verdict = "cycle"
      PROVE  Graph!Cyclic
  <2> DEFINE S == Nodes \ visited
  <2>1. /\ Graph!KnownNodes /\ edges \in EdgeLists /\ S # {} /\ S \in SUBSET Nodes
        /\ \A n \in S : indegree[n] # 0
        /\ indegree = [n \in Nodes |-> Cardinality(Open(n, visited))]
    BY <1>1, SameCardinality DEF Graph!GraphInv, Open
  <2>2. \A n \in S : Open(n, visited) # {}
    BY <2>1, ZeroIsEmpty
  <2>3. \A n \in S : \E i \in Graph!In(n) : edges[i].from \in S
    BY <2>1, <2>2 DEF Open, Graph!In, Graph!KnownNodes
  <2>4. QED
    BY <2>1, <2>3 DEF Graph!Cyclic, Graph!Loop
<1>2. ASSUME verdict = "ok"
      PROVE  ~Graph!Cyclic
  BY <1>2 DEF Graph!GraphInv, Graph!Cyclic, Graph!Loop
<1>3. QED
  BY <1>1, <1>2 DEF VerdictCorrect, Graph!VerdictCorrect, Graph!GraphInv

\* validate_graph is right about every finite opening: it accepts exactly the
\* ones whose edges name nodes of the opening and form a DAG.
THEOREM ValidationCorrect == Graph!Spec => []VerdictCorrect
<1>1. Graph!Spec => []Graph!GraphInv
  BY InitGraphInv, NextGraphInv, PTL DEF Graph!Spec
<1>2. QED
  BY <1>1, InvGivesVerdict, PTL


-----------------------------------------------------------------------------
(* CachingSecretProvider *)

\* A version that is no longer resolved to has an end, one yet to come has none.
VersionsEnd ==
    /\ \A v \in 0..MaxVersions : gone[v] <= clock
    /\ secret.now # 0 => gone[secret.now] = -1
    /\ secret.now <= secret.last
    /\ \A v \in 0..MaxVersions : v > secret.last => gone[v] = -1

\* The value was current at t or later.
CurrentAt(value, t) == value # 0 /\ (gone[value] = -1 \/ gone[value] >= t)

\* What is cached was current a TTL before it expires.
EntryIsSound ==
    /\ cached.expires - Ttl <= clock
    /\ cached.value # 0 => CurrentAt(cached.value, cached.expires - Ttl)

SecretInv ==
    /\ Cache!TypeOK
    /\ VersionsEnd
    /\ EntryIsSound
    /\ \A r \in Readers :
         /\ reader[r].since <= clock
         /\ reader[r].at = "put" => CurrentAt(reader[r].value, reader[r].since)
    /\ Cache!SecretIsRecent

LEMMA InitSecretInv == Cache!Init => SecretInv
  BY CacheAssumption DEF Cache!Init, Cache!TypeOK, Cache!Nothing, Cache!NoModule, SecretInv,
       EntryIsSound, VersionsEnd, CurrentAt, Cache!SecretIsRecent

\* The types of what the entries hold.
LEMMA SecretTypes ==
    ASSUME Cache!TypeOK
    PROVE  /\ Ttl \in Nat \ {0} /\ MaxTime \in Nat /\ MaxVersions \in Nat \ {0}
           /\ clock \in 0..MaxTime
           /\ secret.now \in 0..MaxVersions /\ secret.last \in 1..MaxVersions
           /\ \A v \in 0..MaxVersions : gone[v] \in -1..MaxTime
           /\ cached.value \in 0..MaxVersions /\ cached.expires \in 0..(MaxTime + Ttl)
           /\ \A r \in Readers : /\ reader[r].since \in 0..MaxTime
                                 /\ reader[r].value \in 0..MaxVersions
                                 /\ reader[r].at \in {"idle", "evict", "ask", "put", "served"}
  BY CacheAssumption DEF Cache!TypeOK

\* What the steps of the other cache leave alone.
LEMMA SecretsUntouched ==
    ASSUME SecretInv, UNCHANGED <<clock, Cache!secretVars>>, Cache!TypeOK'
    PROVE  SecretInv'
  BY DEF SecretInv, EntryIsSound, VersionsEnd, CurrentAt, Cache!SecretIsRecent, Cache!secretVars

LEMMA TickKeepsSecretInv ==
    ASSUME SecretInv, Cache!Tick
    PROVE  SecretInv'
<1>1. /\ clock < MaxTime /\ clock' = clock + 1
      /\ UNCHANGED <<secret, gone, cached, reader, file, module, loader>>
  BY DEF Cache!Tick, Cache!secretVars, Cache!moduleVars
<1>2. clock' \in 0..MaxTime /\ clock < clock'
  BY <1>1, SecretTypes DEF SecretInv
<1>3. Cache!TypeOK'
  BY <1>1, <1>2 DEF SecretInv, Cache!TypeOK
<1>4. VersionsEnd'
  BY <1>1, <1>2, SecretTypes DEF SecretInv, VersionsEnd
<1>5. EntryIsSound' /\ \A r \in Readers : reader'[r].since <= clock'
  BY <1>1, <1>2, SecretTypes DEF SecretInv, EntryIsSound, CurrentAt
<1>6. QED
  BY <1>1, <1>3, <1>4, <1>5 DEF SecretInv, CurrentAt, Cache!SecretIsRecent

\* A version that is rotated away ends now: not before what anyone holds of it
\* was read.
LEMMA RotateKeepsSecretInv ==
    ASSUME SecretInv, Cache!Rotate
    PROVE  SecretInv'
<1>1. PICK v \in {0, secret.last + 1} :
        /\ v # secret.now
        /\ secret' = [now |-> v, last |-> IF v = 0 THEN secret.last ELSE v]
  BY DEF Cache!Rotate
<1>2. /\ secret.last < MaxVersions /\ gone' = [gone EXCEPT ![secret.now] = clock]
      /\ UNCHANGED <<clock, cached, reader, file, module, loader>>
  BY DEF Cache!Rotate, Cache!moduleVars
<1>t. /\ Ttl \in Nat \ {0} /\ clock \in Nat
      /\ cached.value \in 0..MaxVersions /\ cached.expires \in Int
      /\ \A r \in Readers : reader[r].since \in Int /\ reader[r].value \in 0..MaxVersions
  BY SecretTypes DEF SecretInv
<1>3. /\ secret'.now = v /\ secret'.last = (IF v = 0 THEN secret.last ELSE v)
      /\ v \in 0..MaxVersions /\ secret'.last \in 1..MaxVersions
  BY <1>1, <1>2, SecretTypes DEF SecretInv
<1>4. \A w \in 0..MaxVersions : gone'[w] = IF w = secret.now THEN clock ELSE gone[w]
  BY <1>2 DEF SecretInv, Cache!TypeOK
<1>5. gone' \in [0..MaxVersions -> -1..MaxTime]
  BY <1>2, SecretTypes DEF SecretInv, Cache!TypeOK
<1>6. Cache!TypeOK'
  <2>1. secret' \in [now : 0..MaxVersions, last : 1..MaxVersions]
    BY <1>1, <1>3
  <2>2. QED
    BY <1>2, <1>5, <2>1 DEF SecretInv, Cache!TypeOK
<1>7. VersionsEnd'
  BY <1>1, <1>2, <1>3, <1>4, SecretTypes DEF SecretInv, VersionsEnd
<1>8. \A w \in 0..MaxVersions : \A t \in Int :
        /\ t <= clock /\ (gone[w] = -1 \/ gone[w] >= t) => gone'[w] = -1 \/ gone'[w] >= t
        /\ t < clock /\ (gone[w] = -1 \/ gone[w] > t) => gone'[w] = -1 \/ gone'[w] > t
  BY <1>4, SecretTypes DEF SecretInv
<1>9. EntryIsSound'
  BY <1>2, <1>8, <1>t DEF SecretInv, EntryIsSound, CurrentAt
<1>10. \A r \in Readers : (reader[r].at = "put" => CurrentAt(reader[r].value, reader[r].since))'
  BY <1>2, <1>8, <1>t DEF SecretInv, CurrentAt
<1>11. Cache!SecretIsRecent'
  <2>1. SUFFICES ASSUME NEW r \in Readers, reader[r].at = "served"
                 PROVE  gone'[reader[r].value] = -1 \/ gone'[reader[r].value] > reader[r].since - Ttl
    BY <1>2 DEF Cache!SecretIsRecent
  <2>2. gone[reader[r].value] = -1 \/ gone[reader[r].value] > reader[r].since - Ttl
    BY <2>1 DEF SecretInv, Cache!SecretIsRecent
  <2>3. reader[r].since - Ttl \in Int /\ reader[r].since - Ttl < clock
    BY <1>t DEF SecretInv
  <2>4. QED
    BY <1>8, <1>t, <2>2, <2>3
<1>12. QED
  BY <1>2, <1>6, <1>7, <1>9, <1>10, <1>11 DEF SecretInv

\* A step that sets the entry, one reader, or both.
LEMMA EntryStep ==
    ASSUME SecretInv, UNCHANGED <<clock, secret, gone, file, module, loader>>,
           cached' \in [value : 0..MaxVersions, expires : 0..(MaxTime + Ttl)], EntryIsSound',
           reader' \in [Readers -> [at : {"idle", "evict", "ask", "put", "served"},
                                    since : 0..MaxTime, value : 0..MaxVersions]],
           \A r \in Readers : reader'[r] # reader[r] =>
             /\ reader'[r].since <= clock
             /\ reader'[r].at = "put" => CurrentAt(reader'[r].value, reader'[r].since)
             /\ reader'[r].at = "served" => \/ gone[reader'[r].value] = -1
                                            \/ gone[reader'[r].value] > reader'[r].since - Ttl
    PROVE  SecretInv'
<1>1. Cache!TypeOK'
  BY DEF SecretInv, Cache!TypeOK
<1>2. VersionsEnd'
  BY DEF SecretInv, VersionsEnd
<1>3. \A r \in Readers : /\ reader'[r].since <= clock'
                         /\ (reader[r].at = "put" => CurrentAt(reader[r].value, reader[r].since))'
  BY DEF SecretInv, CurrentAt
<1>4. Cache!SecretIsRecent'
  BY DEF SecretInv, Cache!SecretIsRecent
<1>5. QED
  BY <1>1, <1>2, <1>3, <1>4 DEF SecretInv

\* The entry dropped.
LEMMA NothingIsSound ==
    ASSUME SecretInv, cached' = Cache!Nothing, UNCHANGED <<clock, gone>>
    PROVE  cached' \in [value : 0..MaxVersions, expires : 0..(MaxTime + Ttl)] /\ EntryIsSound'
  BY SecretTypes DEF SecretInv, Cache!Nothing, EntryIsSound

LEMMA AllowKeepsSecretInv ==
    ASSUME SecretInv, Cache!Allow
    PROVE  SecretInv'
<1>1. cached' = Cache!Nothing /\ UNCHANGED <<clock, secret, gone, reader, file, module, loader>>
  BY DEF Cache!Allow, Cache!moduleVars
<1>2. QED
  BY <1>1, NothingIsSound, EntryStep DEF SecretInv, Cache!TypeOK

\* An entry that has not expired was current within the TTL before now.
LEMMA ResolveKeepsSecretInv ==
    ASSUME SecretInv, NEW r \in Readers, Cache!Resolve(r)
    PROVE  SecretInv'
<1> DEFINE x == IF cached.value # 0 /\ cached.expires > clock
                THEN [at |-> "served", since |-> clock, value |-> cached.value]
                ELSE [at |-> "evict", since |-> clock, value |-> 0]
<1>1. reader' = [reader EXCEPT ![r] = x] /\ UNCHANGED <<clock, secret, gone, cached, file, module, loader>>
  BY DEF Cache!Resolve, Cache!moduleVars
<1>2. /\ x \in [at : {"idle", "evict", "ask", "put", "served"}, since : 0..MaxTime, value : 0..MaxVersions]
      /\ x.since <= clock /\ x.at # "put"
      /\ x.at = "served" => gone[x.value] = -1 \/ gone[x.value] > x.since - Ttl
  BY SecretTypes DEF SecretInv, EntryIsSound, CurrentAt
<1> HIDE DEF x
<1>3. /\ reader' \in [Readers -> [at : {"idle", "evict", "ask", "put", "served"},
                                  since : 0..MaxTime, value : 0..MaxVersions]]
      /\ \A q \in Readers : reader'[q] # reader[q] => reader'[q] = x
  BY <1>1, <1>2 DEF SecretInv, Cache!TypeOK
<1>4. cached' \in [value : 0..MaxVersions, expires : 0..(MaxTime + Ttl)] /\ EntryIsSound'
  BY <1>1 DEF SecretInv, Cache!TypeOK, EntryIsSound, CurrentAt
<1>5. QED
  BY <1>1, <1>2, <1>3, <1>4, EntryStep

LEMMA EvictKeepsSecretInv ==
    ASSUME SecretInv, NEW r \in Readers, Cache!Evict(r)
    PROVE  SecretInv'
<1>1. /\ cached' = Cache!Nothing /\ reader' = [reader EXCEPT ![r].at = "ask"]
      /\ UNCHANGED <<clock, secret, gone, file, module, loader>>
  BY DEF Cache!Evict, Cache!moduleVars
<1>2. /\ reader' \in [Readers -> [at : {"idle", "evict", "ask", "put", "served"},
                                  since : 0..MaxTime, value : 0..MaxVersions]]
      /\ \A q \in Readers : reader'[q] # reader[q] => reader'[q].at = "ask" /\ reader'[q].since = reader[q].since
  BY <1>1 DEF SecretInv, Cache!TypeOK
<1>3. \A q \in Readers : reader[q].since <= clock
  BY DEF SecretInv
<1>4. QED
  BY <1>1, <1>2, <1>3, NothingIsSound, EntryStep

\* What the provider answers is current, now and when the call began.
LEMMA AskKeepsSecretInv ==
    ASSUME SecretInv, NEW r \in Readers, Cache!Ask(r)
    PROVE  SecretInv'
<1> DEFINE x == [reader[r] EXCEPT !.at = IF secret.now = 0 THEN "idle" ELSE "put", !.value = secret.now]
<1>1. reader' = [reader EXCEPT ![r] = x] /\ UNCHANGED <<clock, secret, gone, cached, file, module, loader>>
  BY DEF Cache!Ask, Cache!moduleVars, SecretInv, Cache!TypeOK
<1>2. /\ x \in [at : {"idle", "evict", "ask", "put", "served"}, since : 0..MaxTime, value : 0..MaxVersions]
      /\ x.since = reader[r].since /\ x.at # "served" /\ x.value = secret.now
      /\ x.at = "put" => secret.now # 0
  BY SecretTypes DEF SecretInv, Cache!TypeOK
<1> HIDE DEF x
<1>3. x.since <= clock /\ (x.at = "put" => CurrentAt(x.value, x.since))
  BY <1>2 DEF SecretInv, VersionsEnd, CurrentAt
<1>4. /\ reader' \in [Readers -> [at : {"idle", "evict", "ask", "put", "served"},
                                  since : 0..MaxTime, value : 0..MaxVersions]]
      /\ \A q \in Readers : reader'[q] # reader[q] => reader'[q] = x
  BY <1>1, <1>2 DEF SecretInv, Cache!TypeOK
<1>5. cached' \in [value : 0..MaxVersions, expires : 0..(MaxTime + Ttl)] /\ EntryIsSound'
  BY <1>1 DEF SecretInv, Cache!TypeOK, EntryIsSound, CurrentAt
<1>6. QED
  BY <1>1, <1>2, <1>3, <1>4, <1>5, EntryStep

\* The entry lives from the instant the value was known to be current.
LEMMA PutKeepsSecretInv ==
    ASSUME SecretInv, NEW r \in Readers, Cache!Put(r)
    PROVE  SecretInv'
<1>1. /\ reader[r].at = "put" /\ reader' = [reader EXCEPT ![r].at = "served"]
      /\ cached' = [value |-> reader[r].value, expires |-> reader[r].since + Ttl]
      /\ UNCHANGED <<clock, secret, gone, file, module, loader>>
  BY DEF Cache!Put, Cache!moduleVars
<1>2. /\ CurrentAt(reader[r].value, reader[r].since) /\ reader[r].since <= clock
      /\ gone[reader[r].value] \in Int /\ reader[r].since \in Int /\ Ttl \in Nat \ {0}
  BY <1>1, SecretTypes DEF SecretInv
<1>3. /\ reader' \in [Readers -> [at : {"idle", "evict", "ask", "put", "served"},
                                  since : 0..MaxTime, value : 0..MaxVersions]]
      /\ \A q \in Readers : reader'[q] # reader[q] =>
           reader'[q].at = "served" /\ reader'[q].since = reader[r].since /\ reader'[q].value = reader[r].value
  BY <1>1 DEF SecretInv, Cache!TypeOK
<1>4. cached' \in [value : 0..MaxVersions, expires : 0..(MaxTime + Ttl)]
  BY <1>1, SecretTypes DEF SecretInv
<1>5. EntryIsSound'
  BY <1>1, <1>2 DEF EntryIsSound, CurrentAt
<1>6. gone[reader[r].value] = -1 \/ gone[reader[r].value] > reader[r].since - Ttl
  BY <1>2 DEF CurrentAt
<1>7. QED
  BY <1>1, <1>2, <1>3, <1>4, <1>5, <1>6, EntryStep

-----------------------------------------------------------------------------
(* ModuleCache *)

\* A signature is as old as the content it was given with, or older.
Matches(content, signature) == signature \in 1..content /\ content <= file.signature

Loads == [at : {"idle", "read", "compiled", "loaded"}, signature : 0..MaxVersions,
          content : 0..MaxVersions, seen : SUBSET (0..MaxVersions)]

\* What a load has in hand.
LoadIsSound(load) ==
    /\ load.at # "idle" => file.content \in load.seen
    /\ load.at = "read" => load.signature \in 1..file.signature
    /\ load.at = "compiled" => Matches(load.content, load.signature) /\ load.content \in load.seen
    /\ load.at = "loaded" => load.content \in load.seen \/ 0 \in load.seen

ModuleInv ==
    /\ Cache!TypeOK
    /\ loader \in [Loaders -> Loads]
    /\ file.signature # 0 /\ file.content \in {0, file.signature}
    /\ module = Cache!NoModule \/ Matches(module.content, module.signature)
    /\ \A l \in Loaders : LoadIsSound(loader[l])

LEMMA InitModuleInv == Cache!Init => ModuleInv
  BY CacheAssumption DEF Cache!Init, Cache!TypeOK, Cache!Nothing, Cache!NoModule, ModuleInv, Loads, LoadIsSound

LEMMA ModuleTypes ==
    ASSUME Cache!TypeOK
    PROVE  /\ MaxVersions \in Nat
           /\ file.content \in 0..MaxVersions /\ file.signature \in 0..MaxVersions
           /\ module.content \in 0..MaxVersions /\ module.signature \in 0..MaxVersions
  BY CacheAssumption DEF Cache!TypeOK

\* What the steps of the other cache leave alone.
LEMMA ModulesUntouched ==
    ASSUME ModuleInv, UNCHANGED Cache!moduleVars, Cache!TypeOK'
    PROVE  ModuleInv'
  BY DEF ModuleInv, LoadIsSound, Matches, Cache!moduleVars

\* A new file has a signature of its own; a load that is under way has seen it.
LEMMA WriteKeepsModuleInv ==
    ASSUME ModuleInv, Cache!Write
    PROVE  ModuleInv'
<1>1. PICK v \in 0..MaxVersions :
        /\ v # file.content /\ (v = 0 \/ v > file.signature) /\ file.signature < MaxVersions
        /\ file' = [content |-> v, signature |-> IF v = 0 THEN file.signature ELSE v]
        /\ loader' = [l \in Loaders |-> [loader[l] EXCEPT !.seen = @ \cup {v}]]
  BY DEF Cache!Write
<1>2. UNCHANGED <<clock, secret, gone, cached, reader, module>>
  BY DEF Cache!Write, Cache!secretVars
<1>3. /\ file'.content = v /\ file'.signature \in file.signature..MaxVersions
      /\ file'.signature # 0 /\ v \in {0, file'.signature}
      /\ file' \in [content : 0..MaxVersions, signature : 0..MaxVersions]
  BY <1>1, ModuleTypes DEF ModuleInv
<1>4. Cache!TypeOK'
  BY <1>2, <1>3 DEF ModuleInv, Cache!TypeOK
<1>5. \A l \in Loaders : /\ loader'[l] \in Loads /\ loader'[l].seen = loader[l].seen \cup {v}
                         /\ loader'[l].at = loader[l].at /\ loader'[l].signature = loader[l].signature
                         /\ loader'[l].content = loader[l].content
  BY <1>1 DEF ModuleInv, Loads
<1>6. loader' \in [Loaders -> Loads]
  BY <1>1, <1>5
<1>7. ASSUME NEW content \in 0..MaxVersions, NEW signature \in 0..MaxVersions, Matches(content, signature)
      PROVE  Matches(content, signature)'
  BY <1>3, <1>7, ModuleTypes DEF Matches, ModuleInv
<1>8. module' = Cache!NoModule \/ Matches(module.content, module.signature)'
  BY <1>2, <1>7, ModuleTypes DEF ModuleInv, Cache!NoModule, Matches
<1>9. ASSUME NEW l \in Loaders
      PROVE  LoadIsSound(loader[l])'
  <2>1. /\ LoadIsSound(loader[l]) /\ loader[l].signature \in 0..MaxVersions
        /\ loader[l].content \in 0..MaxVersions
    BY <1>9 DEF ModuleInv, Loads
  <2>2. loader'[l].at = "read" => loader'[l].signature \in 1..file'.signature
    BY <1>3, <1>5, <2>1, <1>9, ModuleTypes DEF LoadIsSound, ModuleInv
  <2>3. loader'[l].at = "compiled" => Matches(loader[l].content, loader[l].signature)'
    BY <1>5, <1>7, <2>1, <1>9 DEF LoadIsSound, Matches
  <2>4. QED
    BY <1>3, <1>5, <1>9, <2>1, <2>2, <2>3 DEF LoadIsSound
<1>10. QED
  BY <1>3, <1>4, <1>6, <1>8, <1>9 DEF ModuleInv

\* A step of one load that leaves the file alone.
LEMMA LoadStep ==
    ASSUME ModuleInv, NEW l \in Loaders, NEW x \in Loads, loader' = [loader EXCEPT ![l] = x], LoadIsSound(x),
           UNCHANGED <<clock, secret, gone, cached, reader, file>>,
           module' = module \/ Matches(module'.content, module'.signature),
           module' \in [content : 0..MaxVersions, signature : 0..MaxVersions]
    PROVE  ModuleInv'
<1>1. Cache!TypeOK' /\ loader' \in [Loaders -> Loads]
  BY DEF ModuleInv, Cache!TypeOK
<1>2. \A q \in Loaders : loader'[q] = IF q = l THEN x ELSE loader[q]
  BY DEF ModuleInv
<1>3. \A q \in Loaders : LoadIsSound(loader[q])'
  BY <1>2 DEF ModuleInv, LoadIsSound, Matches
<1>4. module' = Cache!NoModule \/ Matches(module.content, module.signature)'
  BY DEF ModuleInv, Matches
<1>5. QED
  BY <1>1, <1>3, <1>4 DEF ModuleInv

\* An entry with the signature of the file holds its content: the signature was
\* read before it.
LEMMA StatKeepsModuleInv ==
    ASSUME ModuleInv, NEW l \in Loaders, Cache!Stat(l)
    PROVE  ModuleInv'
<1> DEFINE x == IF file.content = 0
         THEN IF module # Cache!NoModule THEN Cache!Returned(module.content)
              ELSE [at |-> "idle", signature |-> 0, content |-> 0, seen |-> {}]
         ELSE IF module.signature = file.signature THEN Cache!Returned(module.content)
         ELSE [at |-> "read", signature |-> file.signature, content |-> 0, seen |-> {file.content}]
<1>1. loader' = [loader EXCEPT ![l] = x] /\ UNCHANGED <<clock, secret, gone, cached, reader, file, module>>
  BY DEF Cache!Stat, Cache!secretVars
<1>2. x \in Loads
  BY ModuleTypes DEF ModuleInv, Loads, Cache!Returned
<1>3. file.content # 0 /\ module.signature = file.signature => module.content = file.content
  BY ModuleTypes DEF ModuleInv, Matches, Cache!NoModule
<1>4. LoadIsSound(x)
  BY <1>3, ModuleTypes DEF ModuleInv, LoadIsSound, Cache!Returned
<1> HIDE DEF x
<1>5. QED
  BY <1>1, <1>2, <1>4, LoadStep DEF ModuleInv, Cache!TypeOK

LEMMA ReadKeepsModuleInv ==
    ASSUME ModuleInv, NEW l \in Loaders, Cache!Read(l)
    PROVE  ModuleInv'
<1> DEFINE x == [loader[l] EXCEPT !.at = IF file.content = 0 THEN "idle" ELSE "compiled",
                                  !.content = file.content]
<1>1. /\ loader[l].at = "read" /\ loader' = [loader EXCEPT ![l] = x]
      /\ UNCHANGED <<clock, secret, gone, cached, reader, file, module>>
  BY DEF Cache!Read, Cache!secretVars, ModuleInv, Loads
<1>2. /\ x \in Loads /\ x.at = (IF file.content = 0 THEN "idle" ELSE "compiled")
      /\ x.content = file.content /\ x.signature = loader[l].signature /\ x.seen = loader[l].seen
  BY ModuleTypes DEF ModuleInv, Loads
<1>3. file.content \in loader[l].seen /\ loader[l].signature \in 1..file.signature
  BY <1>1 DEF ModuleInv, LoadIsSound
<1> HIDE DEF x
<1>4. LoadIsSound(x)
  BY <1>2, <1>3, ModuleTypes DEF ModuleInv, LoadIsSound, Matches
<1>5. QED
  BY <1>1, <1>2, <1>4, LoadStep DEF ModuleInv, Cache!TypeOK

LEMMA StoreKeepsModuleInv ==
    ASSUME ModuleInv, NEW l \in Loaders, Cache!Store(l)
    PROVE  ModuleInv'
<1> DEFINE x == [loader[l] EXCEPT !.at = "loaded"]
<1>1. /\ loader[l].at = "compiled" /\ loader' = [loader EXCEPT ![l] = x]
      /\ module' = [content |-> loader[l].content, signature |-> loader[l].signature]
      /\ UNCHANGED <<clock, secret, gone, cached, reader, file>>
  BY DEF Cache!Store, Cache!secretVars, ModuleInv, Loads
<1>2. /\ x \in Loads /\ x.at = "loaded" /\ x.content = loader[l].content /\ x.seen = loader[l].seen
      /\ module' \in [content : 0..MaxVersions, signature : 0..MaxVersions]
      /\ module'.content = loader[l].content /\ module'.signature = loader[l].signature
  BY <1>1 DEF ModuleInv, Loads
<1>3. /\ Matches(loader[l].content, loader[l].signature) /\ loader[l].content \in loader[l].seen
      /\ file.content \in loader[l].seen
  BY <1>1 DEF ModuleInv, LoadIsSound
<1> HIDE DEF x
<1>4. LoadIsSound(x)
  BY <1>2, <1>3 DEF LoadIsSound
<1>5. QED
  BY <1>1, <1>2, <1>3, <1>4, LoadStep

-----------------------------------------------------------------------------
(* The two caches together *)

LEMMA SecretStep ==
    ASSUME SecretInv, Cache!SecretsNext
    PROVE  SecretInv'
  BY TickKeepsSecretInv, RotateKeepsSecretInv, AllowKeepsSecretInv, ResolveKeepsSecretInv, EvictKeepsSecretInv,
     AskKeepsSecretInv, PutKeepsSecretInv DEF Cache!SecretsNext

LEMMA ModuleStep ==
    ASSUME ModuleInv, Cache!ModulesNext
    PROVE  ModuleInv'
  BY WriteKeepsModuleInv, StatKeepsModuleInv, ReadKeepsModuleInv, StoreKeepsModuleInv DEF Cache!ModulesNext

LEMMA NextCacheInv ==
    ASSUME SecretInv, ModuleInv, [Cache!Next]_(Cache!vars)
    PROVE  SecretInv' /\ ModuleInv'
<1>1. CASE Cache!SecretsNext
  <2>1. UNCHANGED Cache!moduleVars
    BY <1>1 DEF Cache!SecretsNext, Cache!Tick, Cache!Rotate, Cache!Allow, Cache!Resolve, Cache!Evict, Cache!Ask, Cache!Put
  <2>2. QED
    BY <1>1, <2>1, SecretStep, ModulesUntouched DEF SecretInv
<1>2. CASE Cache!ModulesNext
  <2>1. UNCHANGED <<clock, Cache!secretVars>>
    BY <1>2 DEF Cache!ModulesNext, Cache!Write, Cache!Stat, Cache!Read, Cache!Store
  <2>2. QED
    BY <1>2, <2>1, ModuleStep, SecretsUntouched DEF ModuleInv
<1>3. CASE UNCHANGED Cache!vars
  <2>1. UNCHANGED <<clock, secret, gone, cached, reader, file, module, loader>>
    BY <1>3 DEF Cache!vars, Cache!secretVars, Cache!moduleVars
  <2>2. Cache!TypeOK'
    BY <2>1 DEF SecretInv, Cache!TypeOK
  <2>3. QED
    BY <2>1, <2>2, SecretsUntouched, ModulesUntouched DEF Cache!secretVars, Cache!moduleVars
<1>4. QED
  BY <1>1, <1>2, <1>3 DEF Cache!Next

\* However the threads interleave with the operator: a secret that was rotated is
\* served no longer than the TTL (CachingSecretProvider::resolve), and a load returns
\* what the file held at some moment of the load, or had no file to look at
\* (ModuleCache::load).
THEOREM CachesStayFresh == Cache!Spec => []CachesAreFresh
<1>1. Cache!Init => SecretInv /\ ModuleInv
  BY InitSecretInv, InitModuleInv
<1>2. SecretInv /\ ModuleInv /\ [Cache!Next]_(Cache!vars) => SecretInv' /\ ModuleInv'
  BY NextCacheInv
<1>3. SecretInv /\ ModuleInv => CachesAreFresh
  BY DEF SecretInv, ModuleInv, LoadIsSound, CachesAreFresh, Cache!ModuleIsCurrent
<1>4. QED
  BY <1>1, <1>2, <1>3, PTL DEF Cache!Spec

-----------------------------------------------------------------------------
(* The overrides of a policy *)

\* Directories, each to read or to write too.
IsFs(fs) == \A e \in fs : e = <<e[1], e[2]>> /\ e[2] \in BOOLEAN

Opens(fs, root, write) == \E e \in fs : e[1] = root /\ (write => e[2])

\* What from_policy and intersect_with return.
IsCaps(caps) ==
    /\ caps = [fs |-> caps.fs, hosts |-> caps.hosts, http |-> caps.http, flags |-> caps.flags,
               kb |-> caps.kb, secrets |-> caps.secrets]
    /\ IsFs(caps.fs)
    /\ caps.http \in BOOLEAN

LEMMA KeysDiffer ==
    ASSUME NEW key
    PROVE  /\ key \in Flags => key \notin KbKeys \cup {"secrets", "fs", "net"}
           /\ key \in KbKeys => key \notin {"secrets", "fs", "net"}
  BY DEF Flags, KbKeys

LEMMA PairWithFlag ==
    ASSUME NEW e, NEW x, NEW flag \in BOOLEAN, e = <<x, flag>>
    PROVE  e = <<e[1], e[2]>> /\ e[1] = x /\ e[2] \in BOOLEAN
  OBVIOUS

LEMMA Pair ==
    ASSUME NEW S, NEW T, NEW e \in S \X T
    PROVE  \E x \in S, y \in T : e = <<x, y>>
  OBVIOUS

LEMMA PolicyIsCaps ==
    ASSUME NEW policy
    PROVE  IsCaps(FromPolicy(policy))
<1>1. IsFs(FsOf(policy))
  <2>1. SUFFICES ASSUME NEW e \in FsOf(policy)
                 PROVE  e = <<e[1], e[2]>> /\ e[2] \in BOOLEAN
    BY DEF IsFs
  <2>2. PICK key \in FsKeys : e \in (IF Is(policy[key], "array") THEN policy[key].items ELSE {}) \X {key = "fs_rw"}
    BY DEF FsOf
  <2> DEFINE S == IF Is(policy[key], "array") THEN policy[key].items ELSE {}
  <2>3. PICK root \in S, write \in {key = "fs_rw"} : e = <<root, write>>
    BY <2>2, Pair
  <2>4. write \in BOOLEAN
    OBVIOUS
  <2>5. QED
    BY <2>3, <2>4, PairWithFlag
<1>2. (Is(policy["net"], "table") /\ policy["net"].http = TRUE) \in BOOLEAN
  OBVIOUS
<1>3. QED
  BY <1>1, <1>2 DEF FromPolicy, IsCaps

LEMMA MergedFs ==
    ASSUME NEW base, NEW override, NEW root, NEW write \in BOOLEAN, IsFs(base), IsFs(override)
    PROVE  Opens(MergeFs(base, override), root, write) <=> Opens(base, root, write) /\ Opens(override, root, write)
<1>1. ASSUME NEW e \in MergeFs(base, override), e[1] = root, write => e[2]
      PROVE  /\ \E b \in base : b[1] = root /\ (write => b[2])
             /\ \E o \in override : o[1] = root /\ (write => o[2])
  <2>1. PICK b \in base : /\ \E o \in override : o[1] = b[1]
                          /\ e = <<b[1], b[2] /\ <<b[1], TRUE>> \in override>>
    BY <1>1 DEF MergeFs
  <2>2. CASE write
    <3>1. b[2] /\ <<b[1], TRUE>> \in override /\ b[1] = root
      BY <1>1, <2>1, <2>2
    <3>2. QED
      BY <3>1
  <2>3. CASE ~write
    BY <1>1, <2>1, <2>3
  <2>4. QED
    BY <2>2, <2>3
<1>2. ASSUME NEW b \in base, b[1] = root, write => b[2],
             NEW o \in override, o[1] = root, write => o[2]
      PROVE  \E e \in MergeFs(base, override) : e[1] = root /\ (write => e[2])
  <2> DEFINE e == <<b[1], b[2] /\ <<b[1], TRUE>> \in override>>
  <2>1. e \in MergeFs(base, override)
    BY <1>2 DEF MergeFs
  <2>2. e[1] = root
    BY <1>2
  <2>3. ASSUME write
        PROVE  e[2]
    <3>1. o = <<root, TRUE>>
      BY <1>2, <2>3 DEF IsFs
    <3>2. QED
      BY <1>2, <2>3, <3>1 DEF IsFs
  <2>4. QED
    BY <2>1, <2>2, <2>3
<1>3. QED
  BY <1>1, <1>2 DEF Opens

\* An entry without a port is any port of its host.
LEMMA MergedHosts ==
    ASSUME NEW base, NEW override, NEW host, NEW port
    PROVE  /\ (\E e \in MergeHosts(base, override) : HostMatches(e, host, port))
                => \E e \in base : HostMatches(e, host, port)
           /\ port # Absent =>
                ((\E e \in MergeHosts(base, override) : HostMatches(e, host, port)) <=>
                   /\ \E e \in base : HostMatches(e, host, port)
                   /\ \E e \in override : HostMatches(e, host, port))
<1> DEFINE Ports(h) == {o.port : o \in {o \in override : o.host = h}}
           IsOpen(h) == \E b \in base : b.host = h /\ b.port = Absent
<1>1. \A e : e \in MergeHosts(base, override) <=>
        \/ e \in base /\ (Absent \in Ports(e.host) \/ e.port \in Ports(e.host))
        \/ e \in override /\ e.port # Absent /\ Absent \notin Ports(e.host) /\ IsOpen(e.host)
  BY DEF MergeHosts
<1>2. \A h, q : q \in Ports(h) <=> \E o \in override : o.host = h /\ o.port = q
  OBVIOUS
<1> HIDE DEF Ports
<1>3. (\E e \in MergeHosts(base, override) : HostMatches(e, host, port))
        => \E e \in base : HostMatches(e, host, port)
  BY <1>1 DEF HostMatches
<1>4. ASSUME port # Absent, NEW e \in MergeHosts(base, override), HostMatches(e, host, port)
      PROVE  \E o \in override : HostMatches(o, host, port)
  BY <1>1, <1>2, <1>4 DEF HostMatches
<1>5. ASSUME port # Absent, NEW b \in base, HostMatches(b, host, port), NEW o \in override, HostMatches(o, host, port)
      PROVE  \E e \in MergeHosts(base, override) : HostMatches(e, host, port)
  <2>1. CASE Absent \in Ports(host)
    BY <1>1, <1>5, <2>1 DEF HostMatches
  <2>2. CASE Absent \notin Ports(host)
    <3>1. o.port = port /\ port \in Ports(host)
      BY <1>2, <1>5, <2>2 DEF HostMatches
    <3>2. QED
      BY <1>1, <1>5, <2>2, <3>1 DEF HostMatches
  <2>3. QED
    BY <2>1, <2>2
<1>6. QED
  BY <1>3, <1>4, <1>5

\* What the capabilities permit, key by key.
LEMMA PermitsByKey ==
    ASSUME NEW caps, NEW req
    PROVE  /\ req.key \in Flags => (Permits(caps, req) <=> req.key \in caps.flags)
           /\ req.key \in KbKeys => (Permits(caps, req) <=> req.target \in caps.kb[req.key])
           /\ req.key = "secrets" => (Permits(caps, req) <=> req.target \in caps.secrets)
           /\ req.key = "fs" =>
                (Permits(caps, req) <=> Opens(caps.fs, req.target, req.write))
           /\ req.key = "net" =>
                (Permits(caps, req) <=> /\ req.plain => caps.http
                                        /\ \E e \in caps.hosts : HostMatches(e, req.target, req.port))
  BY KeysDiffer DEF Permits, Opens

LEMMA IntersectIsCaps ==
    ASSUME NEW base, NEW override, NEW present, IsCaps(base), IsCaps(override)
    PROVE  IsCaps(IntersectWith(base, override, present))
<1> DEFINE caps == IntersectWith(base, override, present)
<1>1. IsFs(MergeFs(base.fs, override.fs))
  <2>1. SUFFICES ASSUME NEW e \in MergeFs(base.fs, override.fs)
                 PROVE  e = <<e[1], e[2]>> /\ e[2] \in BOOLEAN
    BY DEF IsFs
  <2>2. PICK b \in base.fs : e = <<b[1], b[2] /\ <<b[1], TRUE>> \in override.fs>>
    BY Zenon DEF MergeFs
  <2>3. (b[2] /\ <<b[1], TRUE>> \in override.fs) \in BOOLEAN
    OBVIOUS
  <2>4. QED
    BY <2>2, <2>3, PairWithFlag, Zenon
<1>2. /\ caps.fs = (IF "fs" \in present THEN MergeFs(base.fs, override.fs) ELSE base.fs)
      /\ caps.http = (base.http /\ ("http" \in present => override.http))
      /\ caps = [fs |-> caps.fs, hosts |-> caps.hosts, http |-> caps.http, flags |-> caps.flags,
                 kb |-> caps.kb, secrets |-> caps.secrets]
  BY DEF IntersectWith
<1>3. IsFs(caps.fs)
  BY <1>1, <1>2 DEF IsCaps
<1>4. caps.http \in BOOLEAN
  BY <1>2
<1>5. QED
  BY <1>2, <1>3, <1>4 DEF IsCaps

LEMMA IntersectionPermits ==
    ASSUME NEW base, NEW override, NEW present, NEW req, IsCaps(base), IsCaps(override), IsRequest(req)
    PROVE  /\ GrantsNothing(base, override, present, req)
           /\ IsIntersection(base, override, present, req)
<1> DEFINE caps == IntersectWith(base, override, present)
           open == [override EXCEPT !.http = TRUE]
<1>1. /\ caps.fs = (IF "fs" \in present THEN MergeFs(base.fs, override.fs) ELSE base.fs)
      /\ caps.hosts = (IF "net" \in present THEN MergeHosts(base.hosts, override.hosts) ELSE base.hosts)
      /\ caps.http = (base.http /\ ("http" \in present => override.http))
      /\ caps.flags = {f \in base.flags : f \in present => f \in override.flags}
      /\ caps.kb = [k \in KbKeys |-> IF k \in present THEN base.kb[k] \cap override.kb[k] ELSE base.kb[k]]
      /\ caps.secrets = (IF "secrets" \in present THEN base.secrets \cap override.secrets ELSE base.secrets)
  BY DEF IntersectWith
<1>2. /\ open.fs = override.fs /\ open.hosts = override.hosts /\ open.http = TRUE
      /\ open.flags = override.flags /\ open.kb = override.kb /\ open.secrets = override.secrets
  BY DEF IsCaps
<1> DEFINE Meets == Permits(caps, req) <=>
                      /\ Permits(base, req)
                      /\ "http" \in present /\ req.key = "net" /\ req.plain => override.http
                      /\ req.key \in present => Permits(open, req)
<1> HIDE DEF caps, open
<1>3. CASE req.key \in Flags
  <2>1. Meets
    BY <1>1, <1>2, <1>3, PermitsByKey, KeysDiffer
  <2>2. QED
    BY <2>1 DEF GrantsNothing, IsIntersection, caps, open
<1>4. CASE req.key \in KbKeys
  <2>1. Meets
    BY <1>1, <1>2, <1>4, PermitsByKey, KeysDiffer
  <2>2. QED
    BY <2>1 DEF GrantsNothing, IsIntersection, caps, open
<1>5. CASE req.key = "secrets"
  <2>1. Meets
    BY <1>1, <1>2, <1>5, PermitsByKey
  <2>2. QED
    BY <2>1 DEF GrantsNothing, IsIntersection, caps, open
<1>6. CASE req.key = "fs"
  <2>1. req.write \in BOOLEAN /\ IsFs(base.fs) /\ IsFs(override.fs)
    BY <1>6 DEF IsRequest, IsCaps
  <2>2. Opens(caps.fs, req.target, req.write) <=>
          /\ Opens(base.fs, req.target, req.write)
          /\ "fs" \in present => Opens(override.fs, req.target, req.write)
    BY <1>1, <2>1, MergedFs
  <2>3. Meets
    BY <1>2, <1>6, <2>2, PermitsByKey
  <2>4. QED
    BY <2>3 DEF GrantsNothing, IsIntersection, caps, open
<1>7. CASE req.key = "net"
  <2> DEFINE Any(hosts) == \E e \in hosts : HostMatches(e, req.target, req.port)
  <2>1. /\ Permits(caps, req) <=> (req.plain => caps.http) /\ Any(caps.hosts)
        /\ Permits(base, req) <=> (req.plain => base.http) /\ Any(base.hosts)
        /\ Permits(open, req) <=> Any(override.hosts)
    BY <1>2, <1>7, PermitsByKey
  <2>2. /\ Any(caps.hosts) => Any(base.hosts)
        /\ req.port # Absent =>
             (Any(caps.hosts) <=> Any(base.hosts) /\ ("net" \in present => Any(override.hosts)))
    BY <1>1, MergedHosts
  <2> HIDE DEF Any
  <2>3. /\ req.plain \in BOOLEAN /\ base.http \in BOOLEAN /\ override.http \in BOOLEAN
        /\ caps.http <=> base.http /\ ("http" \in present => override.http)
    BY <1>1, <1>7 DEF IsRequest, IsCaps
  <2>4. Permits(caps, req) => Permits(base, req)
    BY <2>1, <2>2, <2>3
  <2>5. req.port # Absent => Meets
    BY <1>7, <2>1, <2>2, <2>3
  <2>6. QED
    BY <1>7, <2>4, <2>5 DEF GrantsNothing, IsIntersection, caps, open
<1>8. QED
  BY <1>3, <1>4, <1>5, <1>6, <1>7 DEF IsRequest

\* Caps::intersect_with is the intersection: whatever the two policies say, what is
\* left permits a request iff the policy does and the override does wherever it says
\* something of the request's key; it never grants.
THEOREM OverrideIntersects ==
    ASSUME NEW policy, NEW override, NEW req, IsRequest(req)
    PROVE  LET base == FromPolicy(policy)
               other == FromPolicy(override)
           IN /\ GrantsNothing(base, other, Presence(override), req)
              /\ IsIntersection(base, other, Presence(override), req)
  BY PolicyIsCaps, IntersectionPermits

\* effective_caps: neither the system's override nor the user's, nor the two one after
\* the other, lets an agent do what its policy does not, and the user's cannot give
\* back what the system's took.
THEOREM EffectiveCapsOnlyRevoke ==
    ASSUME NEW policy, NEW system, NEW user, NEW req, IsRequest(req),
           Permits(Override(Override(FromPolicy(policy), system), user), req)
    PROVE  Permits(Override(FromPolicy(policy), system), req) /\ Permits(FromPolicy(policy), req)
<1> DEFINE base == FromPolicy(policy)
           left == Override(base, system)
<1>1. IsCaps(base) /\ IsCaps(left)
  BY PolicyIsCaps, IntersectIsCaps DEF Override
<1>2. Permits(Override(left, user), req)
  OBVIOUS
<1> HIDE DEF base, left
<1>3. Permits(left, req)
  BY <1>1, <1>2, PolicyIsCaps, IntersectionPermits DEF Override, GrantsNothing
<1>4. Permits(base, req)
  BY <1>1, <1>3, PolicyIsCaps, IntersectionPermits DEF Override, GrantsNothing, left
<1>5. QED
  BY <1>3, <1>4 DEF base, left

\* Policies with an override: the invariant is the theorem above at every input of
\* the table (Caps::intersect_with).
THEOREM OverridesOnlyRevoke == TablesSpec => []OverridesRevoke
<1>1. OverridesRevoke
  <2> SUFFICES ASSUME NEW req \in Requests
               PROVE  LET base == FromPolicy(case.in.base)
                          override == FromPolicy(case.in.override)
                          present == Presence(case.in.override)
                      IN /\ GrantsNothing(base, override, present, req)
                         /\ IsIntersection(base, override, present, req)
    BY DEF OverridesRevoke
  <2>1. QED
    BY InputAssumption, OverrideIntersects
<1>2. QED
  BY <1>1, PTL

-----------------------------------------------------------------------------
(* The hostcalls that return data, and the rings *)

\* What is looked at is an input of its table.
TablesInv ==
    /\ case.table = "model" => IsModelCall(case.in)
    /\ case.table = "capture" => IsCapture(case.in)
    /\ case.table = "ring" => case.in.items \in Seq(Nat) /\ case.in.capacity \in Nat \ {0}

LEMMA TablesInvHolds == TablesSpec => []TablesInv
<1>1. TablesInit => TablesInv
  BY DEF TablesInit, TablesInv
<1>2. TablesInv /\ [TablesNext]_case => TablesInv'
  BY InputAssumption DEF TablesInv, TablesNext, Input
<1>3. QED
  BY <1>1, <1>2, PTL DEF TablesSpec

LEMMA ModelAnswers ==
    ASSUME NEW call, IsModelCall(call)
    PROVE  Host!ModelAnswerWhole(call)
<1>1. /\ \A e \in DOMAIN Host!BrokerCode : Host!BrokerCode[e] \in Int /\ Host!BrokerCode[e] < 0
      /\ Host!BrokerCode.InvalidRequest = -5 /\ Host!BrokerCode.OutputTooLarge = -6
  BY DEF Host!BrokerCode
<1> DEFINE r == Host!ModelComplete(call)
<1>2. CASE ~call.decodes
  BY <1>1, <1>2 DEF Host!ModelAnswerWhole, Host!ModelComplete
<1>3. CASE call.decodes /\ call.error # "none"
  <2>1. r.code = Host!BrokerCode[call.error]
    BY <1>3 DEF Host!ModelComplete
  <2>2. QED
    BY <1>1, <1>3, <2>1 DEF IsModelCall, Host!ModelAnswerWhole
<1>4. CASE call.decodes /\ call.error = "none" /\ call.text > call.outCap
  BY <1>1, <1>4 DEF Host!ModelAnswerWhole, Host!ModelComplete
<1>5. CASE call.decodes /\ call.error = "none" /\ ~(call.text > call.outCap)
  BY <1>1, <1>5 DEF IsModelCall, Host!ModelAnswerWhole, Host!ModelComplete
<1>6. QED
  BY <1>2, <1>3, <1>4, <1>5 DEF IsModelCall

LEMMA CapturesAnswer ==
    ASSUME NEW capture, IsCapture(capture)
    PROVE  Host!CaptureWhole(1, capture.out, capture.err, capture.child, capture.timeout)
  BY DEF IsCapture, Host!CaptureWhole, Host!ExecSpawnCapture, Host!TooLong, Host!BadCapture,
     Host!Status, Host!Ends, Host!EINVAL, Host!ESPAWN, Host!ESIGNAL, Host!ENOSPACE

\* What the ring holds after the first k pushes: the newest of them.
Newest(items, capacity, k) ==
    SubSeq(items, k - (IF k < capacity THEN k ELSE capacity) + 1, k)

LEMMA PushKeepsNewest ==
    ASSUME NEW items \in Seq(Nat), NEW capacity \in Nat \ {0}, NEW k \in 1..Len(items)
    PROVE  Host!Push(Newest(items, capacity, k - 1), items[k], capacity) = Newest(items, capacity, k)
<1> DEFINE old == Newest(items, capacity, k - 1)
           new == Newest(items, capacity, k)
           m == k - 1 - (IF k - 1 < capacity THEN k - 1 ELSE capacity) + 1
<1>1. \A i \in 1..Len(items) : items[i] \in Nat
  BY ElementOfSeq
<1>2. m \in 1..k /\ m \in Int /\ k - 1 \in Int /\ Len(items) \in Nat
  OBVIOUS
<1>3. /\ old \in Seq(Nat) /\ Len(old) = k - m
      /\ \A i \in 1..(k - m) : old[i] = items[m + i - 1]
  BY <1>1, <1>2, SubSeqProperties DEF Newest
<1>4. CASE k - 1 < capacity
  <2>1. m = 1 /\ Len(old) # capacity
    BY <1>3, <1>4
  <2>2. Host!Push(old, items[k], capacity) = Append(old, items[k])
    BY <2>1 DEF Host!Push
  <2>3. new = SubSeq(items, 1, k) /\ old = SubSeq(items, 1, k - 1)
    BY <1>4 DEF Newest
  <2>4. new = old \o <<items[k]>>
    BY <2>3, SubSeqRecursiveSecond
  <2>5. Append(old, items[k]) = old \o <<items[k]>>
    BY <1>1, <1>3, AppendIsConcat
  <2>6. QED
    BY <2>2, <2>4, <2>5
<1>5. CASE ~(k - 1 < capacity)
  <2>1. m = k - capacity /\ Len(old) = capacity /\ old # <<>>
    BY <1>3, <1>5
  <2>2. Host!Push(old, items[k], capacity) = Append(Tail(old), items[k])
    BY <2>1 DEF Host!Push
  <2>3. new = SubSeq(items, m + 1, k) /\ old = SubSeq(items, m, k - 1)
    BY <1>5, <2>1 DEF Newest
  <2>4. Tail(old) = SubSeq(items, m + 1, k - 1) /\ Tail(old) \in Seq(Nat)
    BY <1>2, <1>3, <1>5, <2>1, <2>3, HeadTailOfSubSeq, HeadTailProperties
  <2>5. new = Tail(old) \o <<items[k]>>
    BY <1>2, <1>5, <2>1, <2>3, <2>4, SubSeqRecursiveSecond
  <2>6. Append(Tail(old), items[k]) = Tail(old) \o <<items[k]>>
    BY <1>1, <2>4, AppendIsConcat
  <2>7. QED
    BY <2>2, <2>5, <2>6
<1>6. QED
  BY <1>4, <1>5

LEMMA RingHolds ==
    ASSUME NEW items \in Seq(Nat), NEW capacity \in Nat \ {0}
    PROVE  Host!RingHoldsNewest(items, capacity)
<1> DEFINE N == Len(items)
           Holds(f) == f = [n \in 0..N |-> IF n = 0 THEN <<>> ELSE Host!Push(f[n - 1], items[n], capacity)]
           ring == [n \in 0..N |-> Newest(items, capacity, n)]
<1>1. N \in Nat
  OBVIOUS
<1>2. Newest(items, capacity, 0) = <<>>
  BY SubSeqEmpty DEF Newest
<1>3. Holds(ring)
  <2>1. \A n \in 0..N : ring[n] = IF n = 0 THEN <<>> ELSE Host!Push(ring[n - 1], items[n], capacity)
    BY <1>1, <1>2, PushKeepsNewest
  <2>2. QED
    BY <2>1
<1>4. \A f : Holds(f) => f[N] = Newest(items, capacity, N)
  <2> SUFFICES ASSUME NEW f, Holds(f)
               PROVE  f[N] = Newest(items, capacity, N)
    OBVIOUS
  <2> DEFINE S == {n \in Nat : n <= N => f[n] = Newest(items, capacity, n)}
  <2>1. \A n \in 0..N : f[n] = IF n = 0 THEN <<>> ELSE Host!Push(f[n - 1], items[n], capacity)
    OBVIOUS
  <2> HIDE DEF Holds
  <2>2. 0 \in S
    BY <1>1, <1>2, <2>1
  <2>3. ASSUME NEW n \in Nat, n \in S
        PROVE  n + 1 \in S
    <3>1. CASE n + 1 <= N
      <4>1. f[n + 1] = Host!Push(f[n], items[n + 1], capacity)
        <5>1. n + 1 \in 0..N /\ n + 1 # 0 /\ (n + 1) - 1 = n
          BY <1>1, <3>1
        <5>2. QED
          BY <2>1, <5>1
      <4>2. f[n] = Newest(items, capacity, n)
        BY <1>1, <2>3, <3>1
      <4>3. n + 1 \in 1..Len(items) /\ (n + 1) - 1 = n
        BY <1>1, <3>1
      <4>4. QED
        BY <4>1, <4>2, <4>3, PushKeepsNewest
    <3>2. QED
      BY <3>1
  <2> HIDE DEF S
  <2>4. Nat \subseteq S
    BY <2>2, <2>3, SetInduction
  <2>5. QED
    BY <1>1, <2>4 DEF S
<1>5. Host!PushAll(items, capacity) = Newest(items, capacity, N)
  <2> DEFINE f == CHOOSE g : Holds(g)
  <2>1. Holds(f)
    BY <1>3, Zenon
  <2>2. Host!PushAll(items, capacity) = f[N]
    BY DEF Host!PushAll
  <2> HIDE DEF f, Holds
  <2>3. QED
    BY <1>4, <2>1, <2>2
<1>6. QED
  BY <1>5 DEF Host!RingHoldsNewest, Newest

\* A guest that host_model_complete or host_exec_spawn_capture tells of no error has
\* the whole answer, and an OutputRing holds the newest of what it was given.
THEOREM AnswersWhole == TablesSpec => []AnswersAreWhole
<1>1. TablesInv => AnswersAreWhole
  BY ModelAnswers, CapturesAnswer, RingHolds DEF TablesInv, AnswersAreWhole
<1>2. QED
  BY <1>1, TablesInvHolds, PTL

-----------------------------------------------------------------------------
(* The monitor *)

\* Events among the first n of the stream g that the p-th pane shows: those that came
\* since it was cleared.
Shown(g, cut, n, p) == {i \in 1..n : Monitor!PaneOf(g[i]) = Monitor!Panes[p] /\ i > cut[p]}

\* A node's row after the events of S, all of the node.
Tells(status, g, S) ==
    LET told == Monitor!Latest({i \in S : g[i].attempt # None})
    IN /\ status.attempt = IF told = 0 THEN 0 ELSE g[told].attempt
       /\ status.errors = Cardinality({i \in S : g[i].failed})

\* The rows of the plan after the events of S: one for each node that has one of them.
PlanTells(plan, g, S) ==
    /\ DOMAIN plan = {g[i].node : i \in S}
    /\ \A k \in DOMAIN plan : Tells(plan[k], g, {i \in S : g[i].node = k})

Shows(g, cut, v, n) ==
    /\ v \in [logs : Seq(Nat), plan : {v.plan}, metrics : {v.metrics}, trace : Seq(Nat)]
    /\ Monitor!Lists(v.logs, Shown(g, cut, n, 1))
    /\ Monitor!Lists(v.trace, Shown(g, cut, n, 4))
    /\ PlanTells(v.plan, g, Shown(g, cut, n, 2))

\* The dialog is behind the stream and ahead of the decisions d.
Asks(d, m, n) ==
    /\ m \in 0..n
    /\ \A k \in DOMAIN d : d[k].request \in 1..n /\ (m # 0 => d[k].request < m)

Handled == Len(given) - Len(buffered)

MonitorType ==
    /\ given \in Seq(Feed) /\ buffered \in Seq(Nat)
    /\ screen \in [pane : 1..4, filter : BOOLEAN, paused : BOOLEAN, quit : BOOLEAN]
    /\ decisions \in Seq([request : Nat, approved : BOOLEAN])
    /\ cleared \in [1..4 -> Nat]

MonitorInv ==
    /\ MonitorType
    /\ Handled \in Nat /\ \A k \in 1..Len(buffered) : buffered[k] = Handled + k
    /\ ~screen.paused => buffered = <<>>
    /\ cleared[2] = 0 /\ \A p \in 1..4 : cleared[p] <= Handled
    /\ Shows(given, cleared, view, Handled)
    /\ Asks(decisions, modal, Handled)
    /\ \A k \in 1..(Len(decisions) - 1) : decisions[k].request < decisions[k + 1].request

-----------------------------------------------------------------------------
LEMMA MonitorCardinality == \A S : Monitor!Cardinality(S) = Cardinality(S)
  BY DEF Monitor!Cardinality, Cardinality

LEMMA FivePanes ==
    ASSUME NEW e
    PROVE  Monitor!PaneOf(e) \in {"log", "plan", "metrics", "trace", "dialog"}
  BY DEF Monitor!PaneOf, Monitor!PlanKinds, Monitor!TraceKinds

\* The newest event is the last one of a set it is added to.
LEMMA LatestAdded ==
    ASSUME NEW n \in Nat, NEW S \in SUBSET (1..n)
    PROVE  Monitor!Latest(S \cup {n + 1}) = n + 1
<1> DEFINE T == S \cup {n + 1}
<1>1. n + 1 \in T /\ \A j \in T : j <= n + 1 /\ j \in Int
  OBVIOUS
<1>2. \A i \in T : (\A j \in T : j <= i) => i = n + 1
  BY <1>1
<1>3. (CHOOSE i \in T : \A j \in T : j <= i) = n + 1
  BY <1>1, <1>2
<1>4. QED
  BY <1>1, <1>3 DEF Monitor!Latest

LEMMA LatestIsIn ==
    ASSUME NEW n \in Nat, NEW S \in SUBSET (1..n), S # {}
    PROVE  Monitor!Latest(S) \in S
<1> DEFINE T == {x \in Nat : n - x \in S}
<1>1. T \subseteq Nat /\ T # {}
  <2>1. PICK i \in S : TRUE
    OBVIOUS
  <2>2. i \in 1..n /\ n - i \in Nat /\ n - (n - i) = i
    OBVIOUS
  <2>3. QED
    BY <2>1, <2>2
<1>2. PICK x \in T : \A y \in T : <<y, x>> \notin OpToRel(<, Nat)
  <2> HIDE DEF T
  <2>1. QED
    BY <1>1, NatLessThanWellFounded, WFMin
<1>3. ASSUME NEW y \in T PROVE x <= y
  <2>1. x \in Nat /\ y \in Nat /\ <<y, x>> \notin OpToRel(<, Nat)
    BY <1>2
  <2> HIDE DEF T
  <2>2. ~(y < x)
    BY <2>1, Less
  <2>3. x \in Nat /\ y \in Nat
    BY <2>1
  <2>4. QED
    BY <2>2, <2>3
<1>4. n - x \in S /\ x \in Nat
  OBVIOUS
<1>5. ASSUME NEW j \in S PROVE j <= n - x
  <2>1. j \in 1..n /\ n - j \in Nat /\ n - (n - j) = j
    OBVIOUS
  <2>2. n - j \in T
    BY <2>1
  <2>3. x <= n - j
    BY <1>3, <2>2
  <2>4. QED
    BY <1>4, <2>1, <2>3
<1>6. QED
  BY <1>4, <1>5 DEF Monitor!Latest

\* The events a pane shows after one more.
LEMMA ShownAdded ==
    ASSUME NEW g, NEW n \in Nat, NEW p \in 1..4, NEW cut, cut[p] \in Nat, cut[p] <= n
    PROVE  Shown(g, cut, n + 1, p) =
               IF Monitor!PaneOf(g[n + 1]) = Monitor!Panes[p] THEN Shown(g, cut, n, p) \cup {n + 1}
               ELSE Shown(g, cut, n, p)
<1>1. \A i : i \in 1..(n + 1) <=> i \in 1..n \/ i = n + 1
  OBVIOUS
<1>2. n + 1 > cut[p]
  OBVIOUS
<1>3. QED
  BY <1>1, <1>2 DEF Shown

\* A line for the newest event.
LEMMA LineAdded ==
    ASSUME NEW n \in Nat, NEW S \in SUBSET (1..n), NEW lines \in Seq(Nat), Monitor!Lists(lines, S)
    PROVE  Monitor!Lists(Append(lines, n + 1), S \cup {n + 1})
<1> DEFINE more == Append(lines, n + 1)
           L == Len(lines)
<1>1. /\ L \in Nat /\ DOMAIN lines = 1..L
      /\ more \in Seq(Nat) /\ DOMAIN more = 1..(L + 1)
      /\ \A k \in 1..L : more[k] = lines[k]
      /\ more[L + 1] = n + 1
  BY AppendProperties, LenProperties
<1>2. \A k \in 1..L : lines[k] \in S /\ lines[k] \in Int /\ lines[k] < n + 1
  BY <1>1 DEF Monitor!Lists
<1> HIDE DEF more
<1>3. {more[k] : k \in DOMAIN more} = S \cup {n + 1}
  <2>1. S = {lines[k] : k \in 1..L}
    BY <1>1 DEF Monitor!Lists
  <2>2. \A k : k \in 1..(L + 1) <=> k \in 1..L \/ k = L + 1
    BY <1>1
  <2>3. QED
    BY <1>1, <2>1, <2>2
<1>4. ASSUME NEW j \in 1..(L + 1), NEW k \in 1..(L + 1), j < k
      PROVE  more[j] < more[k]
  <2>1. j \in 1..L
    BY <1>1, <1>4
  <2>2. CASE k \in 1..L
    BY <1>1, <1>4, <2>1, <2>2 DEF Monitor!Lists
  <2>3. CASE k = L + 1
    BY <1>1, <1>2, <2>1, <2>3
  <2>4. QED
    BY <1>1, <2>2, <2>3
<1>5. QED
  BY <1>1, <1>3, <1>4 DEF Monitor!Lists, more

\* A node's row after one more event of the node.
LEMMA RowTold ==
    ASSUME NEW g, NEW n \in Nat, NEW S \in SUBSET (1..n), NEW plan, NEW e, g[n + 1] = e,
           IF e.node \in DOMAIN plan THEN Tells(plan[e.node], g, S) ELSE S = {}
    PROVE  Tells(Monitor!NodeStatus(plan, e), g, S \cup {n + 1})
<1> DEFINE T == S \cup {n + 1}
           new == Monitor!NodeStatus(plan, e)
           old == IF e.node \in DOMAIN plan THEN plan[e.node] ELSE [status |-> "pending", attempt |-> 0, errors |-> 0]
           with(U) == {i \in U : g[i].attempt # None}
           failures(U) == {i \in U : g[i].failed}
<1>1. Tells(old, g, S)
  <2>1. CASE S = {} /\ e.node \notin DOMAIN plan
    <3>1. with(S) = {} /\ failures(S) = {}
      BY <2>1
    <3>2. Monitor!Latest({}) = 0 /\ Cardinality({}) = 0
      BY FS_EmptySet DEF Monitor!Latest
    <3>3. QED
      BY <2>1, <3>1, <3>2 DEF Tells
  <2>2. QED
    BY <2>1
<1>2. new.attempt = (IF e.attempt = None THEN old.attempt ELSE e.attempt)
      /\ new.errors = (IF e.failed THEN old.errors + 1 ELSE old.errors)
  BY DEF Monitor!NodeStatus
<1> HIDE DEF new, old
<1>3. new.attempt = IF Monitor!Latest(with(T)) = 0 THEN 0 ELSE g[Monitor!Latest(with(T))].attempt
  <2>1. CASE e.attempt = None
    <3>1. with(T) = with(S)
      BY <2>1
    <3>2. QED
      BY <1>1, <1>2, <2>1, <3>1 DEF Tells
  <2>2. CASE e.attempt # None
    <3>1. with(T) = with(S) \cup {n + 1}
      BY <2>2
    <3>2. with(S) \in SUBSET (1..n)
      OBVIOUS
    <3> HIDE DEF with
    <3>3. Monitor!Latest(with(T)) = n + 1
      BY <3>1, <3>2, LatestAdded
    <3>4. QED
      BY <1>2, <2>2, <3>3
  <2>3. QED
    BY <2>1, <2>2
<1>4. new.errors = Cardinality(failures(T))
  <2>1. IsFiniteSet(failures(S)) /\ n + 1 \notin failures(S)
    <3> DEFINE F == failures(S)
    <3>1. F \subseteq S
      BY Zenon
    <3> HIDE DEF F
    <3>2. IsFiniteSet(1..n)
      BY FS_Interval
    <3>3. F \in SUBSET (1..n) /\ n + 1 \notin 1..n
      BY <3>1
    <3>4. IsFiniteSet(F) /\ n + 1 \notin F
      BY <3>2, <3>3, FS_Subset
    <3>5. QED
      BY <3>4 DEF F
  <2>2. CASE e.failed
    <3>1. failures(T) = failures(S) \cup {n + 1}
      BY <2>2
    <3> HIDE DEF failures
    <3>2. Cardinality(failures(T)) = Cardinality(failures(S)) + 1
      BY <2>1, <3>1, FS_AddElement
    <3>3. QED
      BY <1>1, <1>2, <2>2, <3>2 DEF Tells, failures
  <2>3. CASE ~e.failed
    <3>1. failures(T) = failures(S)
      BY <2>3
    <3>2. QED
      BY <1>1, <1>2, <2>3, <3>1 DEF Tells
  <2>4. QED
    BY <2>2, <2>3
<1>5. QED
  BY <1>3, <1>4 DEF Tells, new

\* The plan after one more of its events.
LEMMA PlanTold ==
    ASSUME NEW g, NEW n \in Nat, NEW S \in SUBSET (1..n), NEW plan, NEW e, g[n + 1] = e,
           PlanTells(plan, g, S)
    PROVE  PlanTells(Monitor!With(plan, e.node, Monitor!NodeStatus(plan, e)), g, S \cup {n + 1})
<1> DEFINE status == Monitor!NodeStatus(plan, e)
           more == Monitor!With(plan, e.node, status)
           T == S \cup {n + 1}
           of(U, k) == {i \in U : g[i].node = k}
<1>0. DOMAIN plan = {g[i].node : i \in S} /\ \A k \in DOMAIN plan : Tells(plan[k], g, of(S, k))
  BY DEF PlanTells
<1>1. Tells(status, g, of(S, e.node) \cup {n + 1})
  <2>1. of(S, e.node) \in SUBSET (1..n)
    OBVIOUS
  <2>2. IF e.node \in DOMAIN plan THEN Tells(plan[e.node], g, of(S, e.node)) ELSE of(S, e.node) = {}
    BY <1>0
  <2> HIDE DEF of, status
  <2>3. QED
    BY <2>1, <2>2, RowTold DEF status
<1> HIDE DEF status
<1>2. /\ DOMAIN more = DOMAIN plan \cup {e.node}
      /\ more[e.node] = status
      /\ \A k \in DOMAIN plan : k # e.node => more[k] = plan[k]
  BY DEF Monitor!With
<1>3. of(T, e.node) = of(S, e.node) \cup {n + 1}
  OBVIOUS
<1>4. \A k : k # e.node => of(T, k) = of(S, k)
  OBVIOUS
<1>5. DOMAIN more = {g[i].node : i \in T}
  BY <1>0, <1>2
<1> HIDE DEF of, more
<1>7. \A k \in DOMAIN more : Tells(more[k], g, of(T, k))
  BY <1>0, <1>1, <1>2, <1>3, <1>4
<1>8. QED
  BY <1>5, <1>7 DEF of, more, status, PlanTells

\* process_event: one more event is shown, and asked about if it is a request.
LEMMA ProcessedKeeps ==
    ASSUME NEW g, NEW cut, NEW d, NEW state, NEW n \in Nat,
           state = [view |-> state.view, modal |-> state.modal],
           \A p \in 1..4 : cut[p] \in Nat /\ cut[p] <= n,
           Shows(g, cut, state.view, n), Asks(d, state.modal, n),
           \A k \in DOMAIN d : d[k].request \in Nat
    PROVE  LET next == Monitor!Processed(state, n + 1, g[n + 1])
           IN /\ next = [view |-> next.view, modal |-> next.modal]
              /\ Shows(g, cut, next.view, n + 1)
              /\ Asks(d, next.modal, n + 1)
<1> DEFINE e == g[n + 1]
           next == Monitor!Processed(state, n + 1, e)
           v == state.view
           old(p) == Shown(g, cut, n, p)
           new(p) == Shown(g, cut, n + 1, p)
<1>1. /\ \A p \in 1..4 : new(p) = IF Monitor!PaneOf(e) = Monitor!Panes[p] THEN old(p) \cup {n + 1} ELSE old(p)
      /\ \A p \in 1..4 : old(p) \in SUBSET (1..n)
  <2>1. \A p \in 1..4 : new(p) = IF Monitor!PaneOf(e) = Monitor!Panes[p] THEN old(p) \cup {n + 1} ELSE old(p)
    BY ShownAdded
  <2>2. QED
    BY <2>1 DEF Shown
<1>2. Monitor!Panes[1] = "log" /\ Monitor!Panes[2] = "plan" /\ Monitor!Panes[3] = "metrics" /\ Monitor!Panes[4] = "trace"
  BY DEF Monitor!Panes
<1>3. /\ v \in [logs : Seq(Nat), plan : {v.plan}, metrics : {v.metrics}, trace : Seq(Nat)]
      /\ Monitor!Lists(v.logs, old(1)) /\ Monitor!Lists(v.trace, old(4))
      /\ PlanTells(v.plan, g, old(2))
  BY DEF Shows
<1>4. Asks(d, state.modal, n + 1) /\ Asks(d, n + 1, n + 1)
  BY DEF Asks
<1> HIDE DEF e, old, new
<1>5. CASE Monitor!PaneOf(e) = "log"
  <2>1. next = [state EXCEPT !.view.logs = Append(v.logs, n + 1)]
    BY <1>5 DEF Monitor!Processed
  <2>2. /\ next = [view |-> next.view, modal |-> next.modal] /\ next.modal = state.modal
        /\ next.view = [v EXCEPT !.logs = Append(v.logs, n + 1)]
    BY <2>1
  <2>3. new(1) = old(1) \cup {n + 1} /\ new(2) = old(2) /\ new(4) = old(4)
    BY <1>1, <1>2, <1>5
  <2>4. Append(v.logs, n + 1) \in Seq(Nat) /\ Monitor!Lists(Append(v.logs, n + 1), new(1))
    <3> DEFINE lines == v.logs
               S == old(1)
    <3>1. lines \in Seq(Nat) /\ S \in SUBSET (1..n) /\ Monitor!Lists(lines, S)
      BY <1>1, <1>3
    <3> HIDE DEF lines, S
    <3>2. Append(lines, n + 1) \in Seq(Nat)
      BY <3>1, AppendProperties
    <3>3. Monitor!Lists(Append(lines, n + 1), S \cup {n + 1})
      BY <3>1, LineAdded
    <3>4. QED
      BY <2>3, <3>2, <3>3 DEF lines, S
  <2> HIDE DEF next
  <2>5. /\ next.view \in [logs : Seq(Nat), plan : {next.view.plan}, metrics : {next.view.metrics}, trace : Seq(Nat)]
        /\ next.view.logs = Append(v.logs, n + 1) /\ next.view.plan = v.plan /\ next.view.trace = v.trace
    BY <1>3, <2>2, <2>4
  <2>6. Shows(g, cut, next.view, n + 1)
    BY <1>3, <2>3, <2>4, <2>5 DEF Shows, new
  <2>7. QED
    BY <1>4, <2>2, <2>6 DEF next, e
<1>6. CASE Monitor!PaneOf(e) = "trace"
  <2>1. next = [state EXCEPT !.view.trace = Append(v.trace, n + 1)]
    BY <1>6 DEF Monitor!Processed
  <2>2. /\ next = [view |-> next.view, modal |-> next.modal] /\ next.modal = state.modal
        /\ next.view = [v EXCEPT !.trace = Append(v.trace, n + 1)]
    BY <2>1
  <2>3. new(4) = old(4) \cup {n + 1} /\ new(2) = old(2) /\ new(1) = old(1)
    BY <1>1, <1>2, <1>6
  <2>4. Append(v.trace, n + 1) \in Seq(Nat) /\ Monitor!Lists(Append(v.trace, n + 1), new(4))
    <3> DEFINE lines == v.trace
               S == old(4)
    <3>1. lines \in Seq(Nat) /\ S \in SUBSET (1..n) /\ Monitor!Lists(lines, S)
      BY <1>1, <1>3
    <3> HIDE DEF lines, S
    <3>2. Append(lines, n + 1) \in Seq(Nat)
      BY <3>1, AppendProperties
    <3>3. Monitor!Lists(Append(lines, n + 1), S \cup {n + 1})
      BY <3>1, LineAdded
    <3>4. QED
      BY <2>3, <3>2, <3>3 DEF lines, S
  <2> HIDE DEF next
  <2>5. /\ next.view \in [logs : Seq(Nat), plan : {next.view.plan}, metrics : {next.view.metrics}, trace : Seq(Nat)]
        /\ next.view.trace = Append(v.trace, n + 1) /\ next.view.plan = v.plan /\ next.view.logs = v.logs
    BY <1>3, <2>2, <2>4
  <2>6. Shows(g, cut, next.view, n + 1)
    BY <1>3, <2>3, <2>4, <2>5 DEF Shows, new
  <2>7. QED
    BY <1>4, <2>2, <2>6 DEF next, e
<1>7. CASE Monitor!PaneOf(e) = "plan"
  <2> DEFINE more == Monitor!With(v.plan, e.node, Monitor!NodeStatus(v.plan, e))
  <2>1. next = [state EXCEPT !.view.plan = more]
    BY <1>7 DEF Monitor!Processed
  <2>2. new(2) = old(2) \cup {n + 1} /\ new(4) = old(4) /\ new(1) = old(1)
    BY <1>1, <1>2, <1>7
  <2>3. PlanTells(more, g, new(2))
    <3>1. old(2) \in SUBSET (1..n) /\ g[n + 1] = e
      BY <1>1 DEF e
    <3>2. PlanTells(more, g, old(2) \cup {n + 1})
      BY <1>3, <3>1, PlanTold
    <3>3. QED
      BY <2>2, <3>2
  <2> HIDE DEF more
  <2>4. /\ next = [view |-> next.view, modal |-> next.modal] /\ next.modal = state.modal
        /\ next.view = [v EXCEPT !.plan = more]
    BY <2>1
  <2>5. /\ next.view \in [logs : Seq(Nat), plan : {next.view.plan}, metrics : {next.view.metrics}, trace : Seq(Nat)]
        /\ next.view.plan = more /\ next.view.trace = v.trace /\ next.view.logs = v.logs
    BY <1>3, <2>4
  <2> HIDE DEF next
  <2>6. Shows(g, cut, next.view, n + 1)
    BY <1>3, <2>2, <2>3, <2>5 DEF Shows, new
  <2>7. QED
    BY <1>4, <2>4, <2>6 DEF next, e
<1>8. CASE Monitor!PaneOf(e) \in {"metrics", "dialog"}
  <2> DEFINE gauges == Monitor!With(v.metrics, Monitor!SourceOf(e), Monitor!Gauges(v.metrics, e))
  <2>1. next = [state EXCEPT !.view.metrics = gauges] \/ next = [state EXCEPT !.modal = n + 1]
    BY <1>8 DEF Monitor!Processed
  <2>2. new(1) = old(1) /\ new(2) = old(2) /\ new(4) = old(4)
    BY <1>1, <1>2, <1>8
  <2> HIDE DEF gauges, next
  <2>3. /\ next = [view |-> next.view, modal |-> next.modal] /\ next.modal \in {state.modal, n + 1}
        /\ next.view = [v EXCEPT !.metrics = gauges] \/ next.view = v
    BY <2>1
  <2>4. /\ next.view \in [logs : Seq(Nat), plan : {next.view.plan}, metrics : {next.view.metrics}, trace : Seq(Nat)]
        /\ next.view.plan = v.plan /\ next.view.trace = v.trace /\ next.view.logs = v.logs
    BY <1>3, <2>3
  <2>5. Shows(g, cut, next.view, n + 1)
    BY <1>3, <2>2, <2>4 DEF Shows, new
  <2>6. QED
    BY <1>4, <2>3, <2>5 DEF next, e
<1>9. QED
  BY <1>5, <1>6, <1>7, <1>8, FivePanes

\* Whether two streams agree on the events of S is all a row depends on.
LEMMA RowSame ==
    ASSUME NEW g, NEW h, NEW n \in Nat, NEW S \in SUBSET (1..n), NEW status,
           \A i \in 1..n : g[i] = h[i], Tells(status, g, S)
    PROVE  Tells(status, h, S)
<1> DEFINE T == {i \in S : g[i].attempt # None}
<1>1. T = {i \in S : h[i].attempt # None} /\ {i \in S : g[i].failed} = {i \in S : h[i].failed}
  BY Zenon
<1>2. T \in SUBSET (1..n)
  OBVIOUS
<1> HIDE DEF T
<1>3. Monitor!Latest(T) = 0 \/ Monitor!Latest(T) \in 1..n
  <2>1. CASE T = {}
    BY <2>1 DEF Monitor!Latest
  <2>2. CASE T # {}
    BY <1>2, <2>2, LatestIsIn
  <2>3. QED
    BY <2>1, <2>2
<1>4. QED
  BY <1>1, <1>3 DEF Tells, T

LEMMA ShowsSame ==
    ASSUME NEW g, NEW h, NEW cut, NEW v, NEW n \in Nat,
           \A i \in 1..n : g[i] = h[i], Shows(g, cut, v, n)
    PROVE  Shows(h, cut, v, n)
<1>1. \A p : Shown(h, cut, n, p) = Shown(g, cut, n, p) /\ Shown(g, cut, n, p) \in SUBSET (1..n)
  BY DEF Shown
<1> DEFINE S == Shown(g, cut, n, 2)
           of(k) == {i \in S : g[i].node = k}
<1>2. \A k : of(k) = {i \in S : h[i].node = k} /\ of(k) \in SUBSET (1..n)
  BY <1>1
<1>3. PlanTells(v.plan, h, S)
  <2>1. DOMAIN v.plan = {h[i].node : i \in S}
    BY <1>1 DEF Shows, PlanTells
  <2>2. \A k \in DOMAIN v.plan : Tells(v.plan[k], g, of(k))
    BY DEF Shows, PlanTells
  <2> HIDE DEF of, S
  <2>3. \A k \in DOMAIN v.plan : Tells(v.plan[k], h, of(k))
    BY <1>2, <2>2, RowSame
  <2>4. QED
    BY <1>2, <2>1, <2>3 DEF PlanTells
<1>4. QED
  BY <1>1, <1>3 DEF Shows

-----------------------------------------------------------------------------
(* The steps of the monitor *)

LEMMA MonitorTypes ==
    ASSUME MonitorInv
    PROVE  /\ Len(given) \in Nat /\ Len(buffered) \in Nat /\ Handled \in Nat
           /\ DOMAIN given = 1..Len(given) /\ DOMAIN buffered = 1..Len(buffered)
           /\ Len(decisions) \in Nat /\ DOMAIN decisions = 1..Len(decisions)
           /\ \A k \in DOMAIN decisions : decisions[k].request \in Nat
           /\ \A p \in 1..4 : cleared[p] \in Nat /\ cleared[p] <= Handled
<1>1. /\ given \in Seq(Feed) /\ buffered \in Seq(Nat) /\ decisions \in Seq([request : Nat, approved : BOOLEAN])
      /\ cleared \in [1..4 -> Nat] /\ Handled \in Nat /\ \A p \in 1..4 : cleared[p] <= Handled
  BY DEF MonitorInv, MonitorType
<1>2. /\ Len(given) \in Nat /\ Len(buffered) \in Nat /\ Len(decisions) \in Nat
      /\ DOMAIN given = 1..Len(given) /\ DOMAIN buffered = 1..Len(buffered) /\ DOMAIN decisions = 1..Len(decisions)
  BY <1>1, LenProperties
<1>3. ASSUME NEW k \in DOMAIN decisions PROVE decisions[k].request \in Nat
  <2>1. decisions[k] \in [request : Nat, approved : BOOLEAN]
    BY <1>1, <1>2, ElementOfSeq
  <2>2. QED
    BY <2>1
<1>4. QED
  BY <1>1, <1>2, <1>3

LEMMA InitMonitorInv == Monitor!Init => MonitorInv
<1> SUFFICES ASSUME Monitor!Init PROVE MonitorInv
  OBVIOUS
<1>1. /\ given = <<>> /\ buffered = <<>> /\ modal = 0 /\ decisions = <<>>
      /\ screen = [pane |-> 2, filter |-> FALSE, paused |-> FALSE, quit |-> FALSE]
      /\ view = [logs |-> <<>>, plan |-> <<>>, metrics |-> <<>>, trace |-> <<>>]
      /\ cleared = [p \in 1..4 |-> 0]
  BY DEF Monitor!Init, Monitor!Panes
<1>2. Handled = 0
  BY <1>1 DEF Handled
<1>3. \A p : Shown(given, cleared, 0, p) = {}
  BY DEF Shown
<1>4. Shows(given, cleared, view, 0)
  BY <1>1, <1>3 DEF Shows, PlanTells, Monitor!Lists
<1>5. MonitorType /\ Asks(decisions, modal, 0)
  BY <1>1 DEF MonitorType, Asks
<1>6. QED
  BY <1>1, <1>2, <1>4, <1>5 DEF MonitorInv

LEMMA HandleEventKeeps ==
    ASSUME MonitorInv, NEW e \in Feed, Monitor!HandleEvent(e)
    PROVE  MonitorInv'
<1> DEFINE L == Len(given)
           next == Monitor!Processed([view |-> view, modal |-> modal], L + 1, e)
<1>1. /\ given \in Seq(Feed) /\ L \in Nat /\ given' = Append(given, e)
      /\ given' \in Seq(Feed) /\ Len(given') = L + 1 /\ given'[L + 1] = e
      /\ \A i \in 1..L : given'[i] = given[i]
      /\ UNCHANGED <<screen, decisions, cleared>>
  BY MonitorTypes, AppendProperties DEF Monitor!HandleEvent, MonitorInv, MonitorType
<1>2. ASSUME NEW n \in 0..L, Shows(given, cleared, view, n)
      PROVE  Shows(given', cleared, view, n)
  <2> DEFINE g == given'
  <2>1. n \in Nat /\ \A i \in 1..n : given[i] = g[i]
    BY <1>1
  <2> HIDE DEF g
  <2>2. Shows(g, cleared, view, n)
    BY <1>2, <2>1, ShowsSame
  <2>3. QED
    BY <2>2 DEF g
<1>3. CASE screen.paused
  <2>1. buffered' = Append(buffered, L + 1) /\ UNCHANGED <<view, modal>>
    BY <1>1, <1>3 DEF Monitor!HandleEvent
  <2>2. /\ buffered' \in Seq(Nat) /\ Len(buffered') = Len(buffered) + 1
        /\ \A k \in 1..Len(buffered) : buffered'[k] = buffered[k]
        /\ buffered'[Len(buffered) + 1] = L + 1
    BY <1>1, <2>1, AppendProperties DEF MonitorInv, MonitorType
  <2>3. Handled' = Handled /\ Handled \in Nat /\ Handled <= L /\ Handled + Len(buffered) = L
    BY <1>1, <2>2, MonitorTypes DEF Handled
  <2>4. Shows(given', cleared', view', Handled')
    BY <1>1, <1>2, <2>1, <2>3 DEF MonitorInv
  <2>5. \A k \in 1..Len(buffered') : buffered'[k] = Handled' + k
    <3>1. Len(buffered) \in Nat /\ \A k \in 1..Len(buffered) : buffered[k] = Handled + k
      BY MonitorTypes DEF MonitorInv
    <3>2. ASSUME NEW k \in 1..(Len(buffered) + 1) PROVE buffered'[k] = Handled + k
      <4>1. CASE k \in 1..Len(buffered)
        BY <2>2, <3>1, <4>1
      <4>2. CASE k = Len(buffered) + 1
        <5>1. Handled + k = L + 1
          BY <2>3, <3>1, <4>2
        <5>2. QED
          BY <2>2, <4>2, <5>1
      <4>3. QED
        BY <3>1, <4>1, <4>2
    <3>3. QED
      BY <2>2, <2>3, <3>2
  <2>6. QED
    BY <1>1, <1>3, <2>1, <2>2, <2>3, <2>4, <2>5 DEF MonitorInv, MonitorType
<1>4. CASE ~screen.paused
  <2>1. view' = next.view /\ modal' = next.modal /\ UNCHANGED buffered /\ buffered = <<>>
    BY <1>1, <1>4 DEF Monitor!HandleEvent, MonitorInv
  <2>2. Len(buffered) = 0 /\ Handled = L /\ Handled' = L + 1
    BY <1>1, <2>1 DEF Handled
  <2>3. Shows(given', cleared, view, L) /\ Asks(decisions, modal, L)
    BY <1>1, <1>2, <2>2 DEF MonitorInv
  <2>4. /\ next = [view |-> next.view, modal |-> next.modal]
        /\ Shows(given', cleared, next.view, L + 1) /\ Asks(decisions, next.modal, L + 1)
    <3> DEFINE state == [view |-> view, modal |-> modal]
               g == given'
    <3>1. /\ state.view = view /\ state.modal = modal /\ state = [view |-> state.view, modal |-> state.modal]
          /\ g[L + 1] = e /\ Shows(g, cleared, state.view, L) /\ Asks(decisions, state.modal, L)
          /\ \A p \in 1..4 : cleared[p] \in Nat /\ cleared[p] <= L
          /\ \A k \in DOMAIN decisions : decisions[k].request \in Nat
      BY <1>1, <2>2, <2>3, MonitorTypes
    <3>2. L \in Nat
      BY <1>1
    <3> HIDE DEF g, L, state
    <3>3. LET new == Monitor!Processed(state, L + 1, g[L + 1])
          IN /\ new = [view |-> new.view, modal |-> new.modal]
             /\ Shows(g, cleared, new.view, L + 1) /\ Asks(decisions, new.modal, L + 1)
      BY <3>1, <3>2, ProcessedKeeps
    <3>4. QED
      BY <3>1, <3>3 DEF g, state
  <2> HIDE DEF next, L
  <2>5. QED
    BY <1>1, <2>1, <2>2, <2>4 DEF MonitorInv, MonitorType
<1>5. QED
  BY <1>3, <1>4

\* The keys that leave what is handled, shown and buffered alone.
LEMMA ScreenKeeps ==
    ASSUME MonitorInv, screen' \in [pane : 1..4, filter : BOOLEAN, paused : {screen.paused}, quit : BOOLEAN],
           UNCHANGED <<given, buffered, modal, view, decisions, cleared>>
    PROVE  MonitorInv'
<1>1. Handled' = Handled
  BY DEF Handled
<1>2. screen' \in [pane : 1..4, filter : BOOLEAN, paused : BOOLEAN, quit : BOOLEAN] /\ screen'.paused = screen.paused
  BY DEF MonitorInv, MonitorType
<1>3. QED
  BY <1>1, <1>2 DEF MonitorInv, MonitorType

LEMMA ResolveActionKeeps ==
    ASSUME MonitorInv, Monitor!ResolveAction
    PROVE  MonitorInv'
<1> DEFINE D == Len(decisions)
<1>1. PICK approved \in BOOLEAN : decisions' = Append(decisions, [request |-> modal, approved |-> approved])
  BY DEF Monitor!ResolveAction
<1>2. modal # 0 /\ modal' = 0 /\ UNCHANGED <<given, screen, buffered, view, cleared>> /\ Handled' = Handled
  BY DEF Monitor!ResolveAction, Handled
<1>3. modal \in 1..Handled /\ \A k \in 1..D : decisions[k].request \in 1..Handled /\ decisions[k].request < modal
  BY <1>2, MonitorTypes DEF MonitorInv, Asks
<1>4. /\ decisions' \in Seq([request : Nat, approved : BOOLEAN]) /\ D \in Nat
      /\ Len(decisions') = D + 1 /\ DOMAIN decisions' = 1..(D + 1)
      /\ \A k \in 1..D : decisions'[k] = decisions[k]
      /\ decisions'[D + 1].request = modal
  <2> DEFINE e == [request |-> modal, approved |-> approved]
  <2>1. e \in [request : Nat, approved : BOOLEAN] /\ e.request = modal
    BY <1>3
  <2> HIDE DEF e
  <2>2. decisions \in Seq([request : Nat, approved : BOOLEAN]) /\ decisions' = Append(decisions, e)
    BY <1>1 DEF MonitorInv, MonitorType, e
  <2>3. QED
    BY <2>1, <2>2, AppendProperties, LenProperties
<1>5. Asks(decisions', 0, Handled)
  <2>1. ASSUME NEW k \in 1..(D + 1) PROVE decisions'[k].request \in 1..Handled
    <3>1. k \in 1..D \/ k = D + 1
      BY <1>4
    <3>2. QED
      BY <1>3, <1>4, <3>1
  <2>2. QED
    BY <1>4, <2>1, MonitorTypes DEF Asks
<1>6. ASSUME NEW k \in 1..(Len(decisions') - 1)
      PROVE  decisions'[k].request < decisions'[k + 1].request
  <2>1. k \in 1..D
    BY <1>4
  <2>2. CASE k = D
    BY <1>3, <1>4, <2>1, <2>2
  <2>3. CASE k # D
    <3>1. k \in 1..(D - 1) /\ k + 1 \in 1..D
      BY <1>4, <2>1, <2>3
    <3>2. QED
      BY <1>4, <2>1, <3>1 DEF MonitorInv
  <2>4. QED
    BY <2>2, <2>3
<1>7. QED
  BY <1>2, <1>4, <1>5, <1>6 DEF MonitorInv, MonitorType

\* The buffer is processed from its first event to its last.
LEMMA ResumedShows ==
    ASSUME MonitorInv
    PROVE  /\ Shows(given, cleared, Monitor!Resumed.view, Len(given))
           /\ Asks(decisions, Monitor!Resumed.modal, Len(given))
<1> DEFINE L == Len(buffered)
           n == Handled
           start == [view |-> view, modal |-> modal]
           Step(state, k) == Monitor!Processed(state, buffered[k], given[buffered[k]])
           Holds(f, m) == f = [k \in 0..m |-> IF k = 0 THEN start ELSE Step(f[k - 1], k)]
           Good(state, k) == /\ state = [view |-> state.view, modal |-> state.modal]
                             /\ Shows(given, cleared, state.view, n + k)
                             /\ Asks(decisions, state.modal, n + k)
<1>1. L \in Nat /\ n \in Nat /\ n + L = Len(given)
  BY MonitorTypes DEF Handled
<1>2. \E f : Holds(f, L)
  <2> DEFINE S == {m \in Nat : \E f : Holds(f, m)}
  <2>1. 0 \in S
    <3> DEFINE f == [k \in 0..0 |-> start]
    <3>1. f = [k \in 0..0 |-> IF k = 0 THEN start ELSE Step(f[k - 1], k)]
      OBVIOUS
    <3>2. QED
      BY <3>1
  <2>2. ASSUME NEW m \in Nat, m \in S PROVE m + 1 \in S
    <3>1. PICK f : Holds(f, m)
      BY <2>2
    <3> HIDE DEF start, Step
    <3>2. \A k \in 0..m : f[k] = IF k = 0 THEN start ELSE Step(f[k - 1], k)
      BY <3>1
    <3> DEFINE more == [k \in 0..(m + 1) |-> IF k = m + 1 THEN Step(f[m], m + 1) ELSE f[k]]
    <3>3. \A k \in 0..(m + 1) : more[k] = IF k = 0 THEN start ELSE Step(more[k - 1], k)
      BY <3>2
    <3>4. more = [k \in 0..(m + 1) |-> more[k]]
      OBVIOUS
    <3> HIDE DEF more
    <3>5. Holds(more, m + 1)
      BY <3>3, <3>4
    <3>6. QED
      BY <3>5
  <2> HIDE DEF S
  <2>3. Nat \subseteq S
    BY <2>1, <2>2, SetInduction
  <2>4. QED
    BY <1>1, <2>3 DEF S
<1>3. ASSUME NEW f, Holds(f, L) PROVE Good(f[L], L)
  <2> DEFINE S == {k \in Nat : k <= L => Good(f[k], k)}
  <2>1. \A k \in 0..L : f[k] = IF k = 0 THEN start ELSE Step(f[k - 1], k)
    BY <1>3
  <2>2. 0 \in S
    <3>1. f[0] = start /\ start = [view |-> start.view, modal |-> start.modal]
          /\ start.view = view /\ start.modal = modal /\ n + 0 = n
      BY <1>1, <2>1
    <3> HIDE DEF n, start
    <3>2. Shows(given, cleared, view, n) /\ Asks(decisions, modal, n)
      BY DEF MonitorInv, n
    <3>3. QED
      BY <3>1, <3>2
  <2>3. ASSUME NEW k \in Nat, k \in S PROVE k + 1 \in S
    <3>1. CASE k + 1 <= L
      <4> DEFINE state == f[k]
                 i == n + k
                 next == Monitor!Processed(state, i + 1, given[i + 1])
      <4>1. Good(state, k) /\ i \in Nat
        BY <1>1, <2>3, <3>1
      <4>2. k + 1 \in 1..L /\ k + 1 \in 0..L /\ (k + 1) - 1 = k /\ n + (k + 1) = i + 1
        BY <1>1, <3>1
      <4>3. buffered[k + 1] = n + (k + 1)
        BY <4>2 DEF MonitorInv
      <4>4. f[k + 1] = Step(state, k + 1)
        <5> HIDE DEF Step, start, L, n
        <5>1. f[k + 1] = Step(f[(k + 1) - 1], k + 1)
          BY <2>1, <4>2
        <5>2. QED
          BY <4>2, <5>1
      <4>5. f[k + 1] = next
        BY <4>2, <4>3, <4>4
      <4>6. /\ \A p \in 1..4 : cleared[p] \in Nat /\ cleared[p] <= i
            /\ \A j \in DOMAIN decisions : decisions[j].request \in Nat
        <5>1. \A p \in 1..4 : cleared[p] \in Nat /\ cleared[p] <= n
          BY MonitorTypes
        <5>2. \A m \in Nat : m <= n => m <= i
          BY <1>1
        <5>3. QED
          BY <5>1, <5>2, MonitorTypes
      <4> HIDE DEF state, i
      <4>7. Good(state, k) => /\ state = [view |-> state.view, modal |-> state.modal]
                              /\ Shows(given, cleared, state.view, i)
                              /\ Asks(decisions, state.modal, i)
        BY DEF i
      <4>8. LET new == Monitor!Processed(state, i + 1, given[i + 1])
            IN /\ new = [view |-> new.view, modal |-> new.modal]
               /\ Shows(given, cleared, new.view, i + 1)
               /\ Asks(decisions, new.modal, i + 1)
        BY <4>1, <4>6, <4>7, ProcessedKeeps
      <4>9. QED
        BY <4>2, <4>5, <4>8
    <3>2. QED
      BY <3>1
  <2> HIDE DEF S
  <2>4. Nat \subseteq S
    BY <2>2, <2>3, SetInduction
  <2>5. QED
    BY <1>1, <2>4 DEF S
<1>4. Good(Monitor!Resumed, L)
  <2> DEFINE f == CHOOSE f : Holds(f, L)
  <2>1. Holds(f, L)
    BY <1>2, Zenon
  <2>2. Monitor!Resumed = f[L]
    BY DEF Monitor!Resumed
  <2> HIDE DEF f, Holds, Good
  <2>3. QED
    BY <1>3, <2>1, <2>2
<1>5. QED
  BY <1>1, <1>4

LEMMA TogglePauseKeeps ==
    ASSUME MonitorInv, Monitor!TogglePause
    PROVE  MonitorInv'
<1>1. /\ view' = Monitor!Resumed.view /\ modal' = Monitor!Resumed.modal /\ buffered' = <<>>
      /\ screen' = [screen EXCEPT !.paused = ~@] /\ UNCHANGED <<given, decisions, cleared>>
  BY DEF Monitor!TogglePause
<1>2. Len(buffered') = 0 /\ buffered' \in Seq(Nat) /\ Handled' = Len(given) /\ Handled <= Len(given)
  BY <1>1, MonitorTypes DEF Handled
<1>3. Shows(given, cleared, view', Len(given)) /\ Asks(decisions, modal', Len(given))
  BY <1>1, ResumedShows
<1>4. screen' \in [pane : 1..4, filter : BOOLEAN, paused : BOOLEAN, quit : BOOLEAN]
  BY <1>1 DEF MonitorInv, MonitorType
<1>5. \A p \in 1..4 : cleared[p] <= Len(given)
  BY <1>2, MonitorTypes
<1>6. QED
  BY <1>1, <1>2, <1>3, <1>4, <1>5, MonitorTypes DEF MonitorInv, MonitorType

LEMMA ClearPaneKeeps ==
    ASSUME MonitorInv, Monitor!ClearPane
    PROVE  MonitorInv'
<1> DEFINE n == Handled
           q == screen.pane
           cut == IF Monitor!Panes[q] = "plan" THEN 0 ELSE n
           v == view'
           c == cleared'
           empty == <<>>
<1>1. /\ Monitor!Panes[1] = "log" /\ Monitor!Panes[2] = "plan" /\ Monitor!Panes[3] = "metrics"
      /\ Monitor!Panes[4] = "trace"
  BY DEF Monitor!Panes
<1> HIDE DEF n, q
<1>2. q \in 1..4 /\ cleared \in [1..4 -> Nat] /\ n \in Nat
  BY DEF MonitorInv, MonitorType, n, q
<1>3. UNCHANGED <<given, screen, buffered, modal, decisions>> /\ Handled' = n
  BY DEF Monitor!ClearPane, Handled, n
<1>4. c = [cleared EXCEPT ![q] = cut]
  BY DEF Monitor!ClearPane, Handled, n, q
<1>5. /\ c \in [1..4 -> Nat] /\ c[2] = 0 /\ \A p \in 1..4 : c[p] <= n
      /\ \A p \in 1..4 : p # q => c[p] = cleared[p]
  BY <1>1, <1>2, <1>4, MonitorTypes DEF MonitorInv, n
<1>6. \A p \in 1..4 : Shown(given, c, n, p) = IF p = q /\ p # 2 THEN {} ELSE Shown(given, cleared, n, p)
  <2>1. ASSUME NEW p \in 1..4, p = q, p # 2
        PROVE  Shown(given, c, n, p) = {}
    <3>1. Monitor!Panes[q] # "plan"
      BY <1>1, <1>2, <2>1
    <3>2. c[p] = n
      BY <1>2, <1>4, <2>1, <3>1
    <3>3. QED
      BY <1>2, <3>2 DEF Shown
  <2>2. c[2] = cleared[2]
    BY <1>5 DEF MonitorInv
  <2>3. ASSUME NEW p \in 1..4, p # q \/ p = 2
        PROVE  Shown(given, c, n, p) = Shown(given, cleared, n, p)
    <3>1. c[p] = cleared[p]
      BY <1>5, <2>2, <2>3
    <3>2. QED
      BY <3>1 DEF Shown
  <2>4. QED
    BY <2>1, <2>3
<1>7. /\ view \in [logs : Seq(Nat), plan : {view.plan}, metrics : {view.metrics}, trace : Seq(Nat)]
      /\ Monitor!Lists(view.logs, Shown(given, cleared, n, 1))
      /\ Monitor!Lists(view.trace, Shown(given, cleared, n, 4))
      /\ PlanTells(view.plan, given, Shown(given, cleared, n, 2))
  BY DEF MonitorInv, Shows, n
<1> HIDE DEF c, v
<1>8. Monitor!Lists(empty, {}) /\ empty \in Seq(Nat)
  BY DEF Monitor!Lists
<1> HIDE DEF empty
<1>9. \/ q = 1 /\ v = [view EXCEPT !.logs = empty]
      \/ q = 4 /\ v = [view EXCEPT !.trace = empty]
      \/ q = 3 /\ v = [view EXCEPT !.metrics = empty]
      \/ q = 2 /\ v = view
  <2>1. q = 1 \/ q = 2 \/ q = 3 \/ q = 4
    BY <1>2
  <2>2. QED
    BY <1>1, <2>1 DEF Monitor!ClearPane, q, v, empty
<1>10. /\ v \in [logs : Seq(Nat), plan : {v.plan}, metrics : {v.metrics}, trace : Seq(Nat)]
      /\ v.logs = (IF q = 1 THEN empty ELSE view.logs) /\ v.trace = (IF q = 4 THEN empty ELSE view.trace)
      /\ v.plan = view.plan
  <2>1. CASE q = 1
    BY <1>7, <1>8, <1>9, <2>1
  <2>2. CASE q = 4
    BY <1>7, <1>8, <1>9, <2>2
  <2>3. CASE q \in {2, 3}
    BY <1>7, <1>9, <2>3
  <2>4. QED
    BY <1>2, <2>1, <2>2, <2>3
<1>11. Shows(given, c, v, n)
  <2>1. Monitor!Lists(v.logs, Shown(given, c, n, 1))
    <3>1. CASE q = 1
      <4>1. v.logs = empty /\ Shown(given, c, n, 1) = {}
        BY <1>6, <1>10, <3>1
      <4>2. QED
        BY <1>8, <4>1
    <3>2. CASE q # 1
      <4>1. v.logs = view.logs /\ Shown(given, c, n, 1) = Shown(given, cleared, n, 1)
        BY <1>6, <1>10, <3>2
      <4>2. QED
        BY <1>7, <4>1
    <3>3. QED
      BY <3>1, <3>2
  <2>2. Monitor!Lists(v.trace, Shown(given, c, n, 4))
    <3>1. CASE q = 4
      <4>1. v.trace = empty /\ Shown(given, c, n, 4) = {}
        BY <1>6, <1>10, <3>1
      <4>2. QED
        BY <1>8, <4>1
    <3>2. CASE q # 4
      <4>1. v.trace = view.trace /\ Shown(given, c, n, 4) = Shown(given, cleared, n, 4)
        BY <1>6, <1>10, <3>2
      <4>2. QED
        BY <1>7, <4>1
    <3>3. QED
      BY <3>1, <3>2
  <2>3. PlanTells(v.plan, given, Shown(given, c, n, 2))
    BY <1>6, <1>7, <1>10
  <2>4. QED
    BY <1>10, <2>1, <2>2, <2>3 DEF Shows
<1>12. QED
  BY <1>3, <1>5, <1>11 DEF MonitorInv, MonitorType, v, c, n

LEMMA NextMonitorInv == MonitorInv /\ [Monitor!Next]_(Monitor!vars) => MonitorInv'
<1> SUFFICES ASSUME MonitorInv, [Monitor!Next]_(Monitor!vars)
             PROVE  MonitorInv'
  OBVIOUS
<1>1. screen \in [pane : 1..4, filter : BOOLEAN, paused : BOOLEAN, quit : BOOLEAN]
  BY DEF MonitorInv, MonitorType
<1>2. ASSUME NEW e \in Feed, Monitor!HandleEvent(e) PROVE MonitorInv'
  BY <1>2, HandleEventKeeps
<1>3. CASE Monitor!FilterKey
  BY <1>1, <1>3, ScreenKeeps DEF Monitor!FilterKey
<1>4. CASE Monitor!ResolveAction
  BY <1>4, ResolveActionKeeps
<1>5. CASE Monitor!SwitchPane
  <2>1. PICK step \in {1, 3} : screen' = [screen EXCEPT !.pane = ((screen.pane - 1 + step) % 4) + 1]
    BY <1>5 DEF Monitor!SwitchPane
  <2>2. ((screen.pane - 1 + step) % 4) + 1 \in 1..4
    BY <1>1
  <2>3. QED
    BY <1>1, <1>5, <2>1, <2>2, ScreenKeeps DEF Monitor!SwitchPane
<1>6. CASE Monitor!OpenFilter
  BY <1>1, <1>6, ScreenKeeps DEF Monitor!OpenFilter
<1>7. CASE Monitor!Quit
  BY <1>1, <1>7, ScreenKeeps DEF Monitor!Quit
<1>8. CASE Monitor!TogglePause
  BY <1>8, TogglePauseKeeps
<1>9. CASE Monitor!ClearPane
  BY <1>9, ClearPaneKeeps
<1>10. CASE UNCHANGED Monitor!vars
  BY <1>1, <1>10, ScreenKeeps DEF Monitor!vars
<1>11. QED
  BY <1>2, <1>3, <1>4, <1>5, <1>6, <1>7, <1>8, <1>9, <1>10 DEF Monitor!Next

LEMMA InvShowsTheStream == MonitorInv => ViewIsTheStream
<1> SUFFICES ASSUME MonitorInv PROVE ViewIsTheStream
  OBVIOUS
<1>1. buffered = [k \in 1..Len(buffered) |-> Len(given) - Len(buffered) + k]
  <2>1. buffered = [k \in 1..Len(buffered) |-> buffered[k]]
    BY LenProperties DEF MonitorInv, MonitorType
  <2>2. \A k \in 1..Len(buffered) : buffered[k] = Len(given) - Len(buffered) + k
    BY DEF MonitorInv, Handled
  <2>3. QED
    BY <2>1, <2>2
<1>2. \A p : Monitor!Since(p) = Shown(given, cleared, Handled, p)
  BY DEF Monitor!Since, Monitor!Done, Shown, Handled
<1> DEFINE S == Monitor!Since(2)
<1>3. S \in SUBSET (1..Handled)
  BY DEF Monitor!Since, Monitor!Done, Handled
<1>4. PlanTells(view.plan, given, S)
  BY <1>2 DEF MonitorInv, Shows
<1>5. /\ Monitor!Lists(view.logs, Monitor!Since(1)) /\ Monitor!Lists(view.trace, Monitor!Since(4))
      /\ ~screen.paused => buffered = <<>>
  BY <1>2 DEF MonitorInv, Shows
<1> HIDE DEF S
<1>6. /\ DOMAIN view.plan = {given[i].node : i \in S}
      /\ \A k \in DOMAIN view.plan :
           LET of == {i \in S : given[i].node = k}
               told == Monitor!Latest({i \in of : given[i].attempt # None})
           IN /\ view.plan[k].attempt = IF told = 0 THEN 0 ELSE given[told].attempt
              /\ view.plan[k].errors = Monitor!Cardinality({i \in of : given[i].failed})
  BY <1>4, MonitorCardinality DEF PlanTells, Tells
<1>7. Monitor!ViewIsTheStream
  BY <1>1, <1>5, <1>6 DEF Monitor!ViewIsTheStream, S
<1>8. Monitor!DecidesOnce
  BY DEF Monitor!DecidesOnce, MonitorInv, Asks
<1>9. QED
  BY <1>7, <1>8 DEF ViewIsTheStream

\* Whatever is paused, resumed, filtered and cleared, the panes show the stream and no
\* request is decided twice or after a later one, for streams of any length and any
\* events (handle_event, process_event, unpause, clear_pane, resolve_action).
THEOREM MonitorShowsTheStream == Monitor!Spec => []ViewIsTheStream
<1>1. QED
  BY InitMonitorInv, NextMonitorInv, InvShowsTheStream, PTL DEF Monitor!Spec

-----------------------------------------------------------------------------
(* JSON values *)

Js == INSTANCE Json

\* The values of one more level.
Deeper(contents, values) == [t : Js!Types, text : contents, keys : Seq(STRING), parts : Seq(values)]

LEMMA LevelsAreBuilt ==
    ASSUME NEW contents
    PROVE  /\ Js!JsonValues(contents, 0) = {}
           /\ \A n \in Nat : Js!JsonValues(contents, n + 1) = Deeper(contents, Js!JsonValues(contents, n))
<1> DEFINE IsLevel(f) == f = [n \in Nat |-> IF n = 0 THEN {}
                                 ELSE [t : Js!Types, text : contents, keys : Seq(STRING), parts : Seq(f[n - 1])]]
           Body(f) == [n \in Nat |-> IF n = 0 THEN {} ELSE Deeper(contents, f[n - 1])]
           UpTo(f, m) == \A n \in 0..m : f[n] = Body(f)[n]
<1>1. \A f : IsLevel(f) <=> f = Body(f)
  BY DEF Deeper
<1>2. \A f : /\ Body(f)[0] = {}
             /\ \A n \in Nat : Body(f)[n + 1] = Deeper(contents, f[n])
  <2> SUFFICES ASSUME NEW f
               PROVE  /\ Body(f)[0] = {}
                      /\ \A n \in Nat : Body(f)[n + 1] = Deeper(contents, f[n])
    OBVIOUS
  <2>1. \A n \in Nat : n + 1 \in Nat /\ n + 1 # 0 /\ (n + 1) - 1 = n
    OBVIOUS
  <2>2. QED
    BY <2>1
<1>3. \A f : Body(f) = [n \in Nat |-> Body(f)[n]]
  OBVIOUS
<1> HIDE DEF IsLevel, Body
<1>4. \A m \in Nat : \E f : UpTo(f, m)
  <2> DEFINE E == {m \in Nat : \E f : UpTo(f, m)}
  <2>1. 0 \in E
    <3> DEFINE f == [n \in Nat |-> {}]
    <3>1. f[0] = {}
      OBVIOUS
    <3> HIDE DEF f
    <3>2. Body(f)[0] = {}
      BY <1>2
    <3>3. \A n \in 0..0 : f[n] = Body(f)[n]
      BY <3>1, <3>2
    <3>4. QED
      BY <3>3
  <2>2. ASSUME NEW m \in Nat, m \in E PROVE m + 1 \in E
    <3>1. PICK f : UpTo(f, m)
      BY <2>2
    <3>2. \A n \in 0..m : f[n] = Body(f)[n]
      BY <3>1
    <3> HIDE DEF UpTo
    <3>3. ASSUME NEW n \in 0..(m + 1) PROVE Body(f)[n] = Body(Body(f))[n]
      <4>1. CASE n = 0
        BY <1>2, <4>1
      <4>2. CASE n # 0
        <5>1. n - 1 \in 0..m /\ n - 1 \in Nat /\ (n - 1) + 1 = n
          BY <4>2
        <5> DEFINE k == n - 1
        <5>2. Body(f)[k + 1] = Deeper(contents, f[k]) /\ Body(Body(f))[k + 1] = Deeper(contents, Body(f)[k])
          BY <1>2, <5>1
        <5>3. f[k] = Body(f)[k]
          BY <3>2, <5>1
        <5>4. QED
          BY <5>1, <5>2, <5>3
      <4>3. QED
        BY <4>1, <4>2
    <3>4. UpTo(Body(f), m + 1)
      BY <3>3 DEF UpTo
    <3>5. QED
      BY <3>4
  <2> HIDE DEF E
  <2>3. Nat \subseteq E
    BY <2>1, <2>2, SetInduction
  <2>4. QED
    BY <2>3 DEF E
\* Two of them agree as far as both go.
<1>5. ASSUME NEW f, NEW g, NEW l \in Nat, NEW m \in Nat, UpTo(f, l), UpTo(g, m)
      PROVE  \A n \in Nat : n <= l /\ n <= m => f[n] = g[n]
  <2> DEFINE E == {n \in Nat : n <= l /\ n <= m => f[n] = g[n]}
  <2>1. \A n \in 0..l : f[n] = Body(f)[n]
    BY <1>5
  <2>2. \A n \in 0..m : g[n] = Body(g)[n]
    BY <1>5
  <2>3. 0 \in E
    BY <1>2, <2>1, <2>2
  <2>4. ASSUME NEW n \in Nat, n \in E PROVE n + 1 \in E
    BY <1>2, <2>1, <2>2, <2>4
  <2> HIDE DEF E, UpTo
  <2>5. Nat \subseteq E
    BY <2>3, <2>4, SetInduction
  <2>6. QED
    BY <2>5 DEF E
<1>6. \E f : IsLevel(f)
  <2> DEFINE F(m) == CHOOSE f : UpTo(f, m)
             G == [n \in Nat |-> F(n)[n]]
  <2>1. \A m \in Nat : UpTo(F(m), m)
    BY <1>4, Zenon
  <2>2. \A n \in Nat : G[n] = F(n)[n]
    OBVIOUS
  <2>3. G = [n \in Nat |-> G[n]]
    OBVIOUS
  <2> HIDE DEF F, G
  <2> HIDE DEF UpTo
  <2>4. ASSUME NEW n \in Nat PROVE G[n] = Body(G)[n]
    <3>1. F(n)[n] = Body(F(n))[n]
      BY <2>1 DEF UpTo
    <3>2. CASE n = 0
      BY <1>2, <2>2, <3>1, <3>2
    <3>3. CASE n # 0
      <4>1. PICK k \in Nat : n = k + 1
        <5>1. n - 1 \in Nat /\ n = (n - 1) + 1
          BY <3>3
        <5>2. QED
          BY <5>1
      <4>2. UpTo(F(n), n) /\ UpTo(F(k), k) /\ k <= n
        BY <2>1, <4>1
      <4>3. F(n)[k] = F(k)[k]
        BY <1>5, <4>2
      <4>4. QED
        BY <1>2, <2>2, <3>1, <4>1, <4>3
    <3>4. QED
      BY <3>2, <3>3
  <2>5. G = Body(G)
    BY <1>3, <2>3, <2>4
  <2>6. QED
    BY <1>1, <2>5
<1>7. \A n : Js!JsonValues(contents, n) = (CHOOSE f : IsLevel(f))[n]
  BY DEF Js!JsonValues, IsLevel
<1> DEFINE f == CHOOSE f : IsLevel(f)
<1>8. IsLevel(f)
  BY <1>6, Zenon
<1> HIDE DEF f
<1>9. f = Body(f)
  BY <1>1, <1>8
<1>10. \A n : Js!JsonValues(contents, n) = f[n]
  BY <1>7 DEF f
<1>11. QED
  BY <1>2, <1>9, <1>10

\* What the parts of a value are, and what it is with other parts.
LEMMA PartsOfAValue ==
    ASSUME NEW contents, NEW n \in Nat, NEW v \in Js!JsonValues(contents, n + 1)
    PROVE  /\ v.t \in Js!Types /\ v.text \in contents /\ v.keys \in Seq(STRING)
           /\ v.parts \in Seq(Js!JsonValues(contents, n))
           /\ \A i \in DOMAIN v.parts : v.parts[i] \in Js!JsonValues(contents, n)
<1> DEFINE S == Js!JsonValues(contents, n)
<1>1. v \in Deeper(contents, S)
  BY LevelsAreBuilt
<1> HIDE DEF S
<1>2. v.t \in Js!Types /\ v.text \in contents /\ v.keys \in Seq(STRING) /\ v.parts \in Seq(S)
  BY <1>1 DEF Deeper
<1>3. \A i \in DOMAIN v.parts : v.parts[i] \in S
  BY <1>2, ElementOfSeq, LenProperties
<1>4. QED
  BY <1>2, <1>3 DEF S

CanReplace(parts, v, values) ==
    parts = [i \in DOMAIN v.parts |-> parts[i]] /\ \A i \in DOMAIN v.parts : parts[i] \in values

LEMMA OtherParts ==
    ASSUME NEW contents, NEW n \in Nat, NEW v \in Js!JsonValues(contents, n + 1), NEW m \in Nat, NEW parts,
           CanReplace(parts, v, Js!JsonValues(contents, m))
    PROVE  /\ [v EXCEPT !.parts = parts] \in Js!JsonValues(contents, m + 1)
           /\ [v EXCEPT !.parts = parts].t = v.t
           /\ [v EXCEPT !.parts = parts].text = v.text
           /\ [v EXCEPT !.parts = parts].keys = v.keys
           /\ [v EXCEPT !.parts = parts].parts = parts
<1> DEFINE S == Js!JsonValues(contents, m)
           R == Js!JsonValues(contents, n)
<1>1. v \in Deeper(contents, R) /\ Js!JsonValues(contents, m + 1) = Deeper(contents, S)
  BY LevelsAreBuilt
<1> HIDE DEF S, R
<1>2. v.parts \in Seq(R)
  BY <1>1 DEF Deeper
<1>3. DOMAIN v.parts = 1..Len(v.parts) /\ Len(v.parts) \in Nat
  BY <1>2, LenProperties
<1>4. parts \in [1..Len(v.parts) -> S]
  BY <1>3 DEF S, CanReplace
<1>5. parts \in Seq(S)
  BY <1>3, <1>4, SeqDef
<1>6. QED
  BY <1>1, <1>5 DEF Deeper

\* What is nested to a depth is nested to a greater one.
LEMMA LevelsGrow ==
    ASSUME NEW contents, NEW m \in Nat, NEW n \in Nat, m <= n
    PROVE  Js!JsonValues(contents, m) \subseteq Js!JsonValues(contents, n)
<1> DEFINE L(k) == Js!JsonValues(contents, k)
           E == {k \in Nat : L(k) \subseteq L(k + 1)}
<1>1. L(0) = {} /\ \A k \in Nat : L(k + 1) = Deeper(contents, L(k))
  BY LevelsAreBuilt
<1> HIDE DEF L
<1>2. 0 \in E
  BY <1>1
<1>3. ASSUME NEW k \in Nat, k \in E PROVE k + 1 \in E
  <2>1. L(k + 1) = Deeper(contents, L(k)) /\ L((k + 1) + 1) = Deeper(contents, L(k + 1))
    BY <1>1
  <2>2. Seq(L(k)) \subseteq Seq(L(k + 1))
    BY <1>3, SeqMonotonic
  <2>3. Deeper(contents, L(k)) \subseteq Deeper(contents, L(k + 1))
    BY <2>2 DEF Deeper
  <2>4. QED
    BY <2>1, <2>3
<1> HIDE DEF E
<1>4. Nat \subseteq E
  BY <1>2, <1>3, SetInduction
<1>5. \A k \in Nat : L(k) \subseteq L(k + 1)
  BY <1>4 DEF E
<1> DEFINE G == {k \in Nat : L(m) \subseteq L(m + k)}
<1>6. 0 \in G
  OBVIOUS
<1>7. ASSUME NEW k \in Nat, k \in G PROVE k + 1 \in G
  <2>1. L(m + k) \subseteq L((m + k) + 1) /\ m + (k + 1) = (m + k) + 1
    BY <1>5
  <2>2. QED
    BY <1>7, <2>1
<1> HIDE DEF G
<1>8. Nat \subseteq G
  BY <1>6, <1>7, SetInduction
<1>9. n - m \in Nat /\ m + (n - m) = n
  OBVIOUS
<1>10. L(m) \subseteq L(m + (n - m))
  BY <1>8, <1>9 DEF G
<1>11. QED
  BY <1>9, <1>10 DEF L

\* A function that is defined on a value by what it is on the parts of the value
\* exists: applied over and over, its definition gives the right values one level
\* deeper each time.
IsRecursion(contents, depth, M, body) ==
    /\ M # {} /\ body \in [M -> M]
    /\ \A f \in M : f = [v \in Js!JsonValues(contents, depth) |-> f[v]]
    /\ \A f, g \in M, n \in 0..(depth - 1) :
          (\A v \in Js!JsonValues(contents, n) : f[v] = g[v])
             => \A v \in Js!JsonValues(contents, n + 1) : body[f][v] = body[g][v]

LEMMA RecursionOnJson ==
    ASSUME NEW contents, NEW depth \in Nat, NEW M, NEW body, IsRecursion(contents, depth, M, body)
    PROVE  \E f \in M : f = body[f]
<1> DEFINE L(k) == Js!JsonValues(contents, k)
           Right(f, k) == \A v \in L(k) : f[v] = body[f][v]
           E == {k \in Nat : k <= depth => \E f \in M : Right(f, k)}
<1>1. L(0) = {}
  BY LevelsAreBuilt
<1>2. \A f, g \in M, n \in 0..(depth - 1) :
         (\A v \in L(n) : f[v] = g[v]) => \A v \in L(n + 1) : body[f][v] = body[g][v]
  BY DEF IsRecursion
<1>3. M # {} /\ body \in [M -> M] /\ \A f \in M : f = [v \in L(depth) |-> f[v]]
  BY DEF IsRecursion
<1> HIDE DEF L
<1>4. 0 \in E
  BY <1>1, <1>3
<1>5. ASSUME NEW k \in Nat, k \in E PROVE k + 1 \in E
  <2> SUFFICES ASSUME k + 1 <= depth PROVE \E f \in M : Right(f, k + 1)
    OBVIOUS
  <2>1. k \in 0..(depth - 1)
    OBVIOUS
  <2>2. PICK f \in M : Right(f, k)
    BY <1>5, <2>1
  <2>3. body[f] \in M
    BY <1>3
  <2>4. \A v \in L(k + 1) : body[f][v] = body[body[f]][v]
    BY <1>2, <2>1, <2>2, <2>3
  <2>5. Right(body[f], k + 1)
    BY <2>4
  <2>6. QED
    BY <2>3, <2>5
<1> HIDE DEF E
<1>6. Nat \subseteq E
  BY <1>4, <1>5, SetInduction
<1>7. PICK f \in M : Right(f, depth)
  BY <1>6 DEF E
<1>8. body[f] \in M
  BY <1>3
<1>9. f = [v \in L(depth) |-> f[v]] /\ body[f] = [v \in L(depth) |-> body[f][v]]
  BY <1>3, <1>8
<1>10. f = body[f]
  BY <1>7, <1>9
<1>11. QED
  BY <1>10

-----------------------------------------------------------------------------
(* What is shown of e-mail addresses *)

Payload(n) == Js!JsonValues(Redact!Contents, n)

LEMMA PayloadsAreJson == Redact!Payloads = Payload(MaxDepth)
  BY DEF Redact!Payloads, Payload, Redact!JsonValues, Js!JsonValues, Redact!Types, Js!Types

\* One step of mask_email_value (lists are gone through) and of mask_value_emails_deep
\* (objects are, too), where f masks the parts.
MaskedBy(f, kinds, w) ==
    CASE w.t = "text" -> Redact!MaskText(w)
      [] w.t \notin {"text"} \cup kinds -> w
      [] OTHER -> [w EXCEPT !.parts = [i \in DOMAIN w.parts |-> f[w.parts[i]]]]

LEMMA TextIsMasked ==
    ASSUME NEW n \in Nat, NEW w \in Payload(n + 1)
    PROVE  /\ Redact!MaskText(w) \in Payload(n + 1)
           /\ Redact!MaskText(w).t = w.t /\ Redact!MaskText(w).parts = w.parts
           /\ Redact!MaskText(w).text \in Redact!Contents
           /\ (Redact!Splits(Redact!MaskText(w).text) <=> Redact!Splits(w.text))
           /\ w.text.masks \in Nat
           /\ Redact!MaskText(w).text.masks = IF Redact!Splits(w.text) THEN w.text.masks + 1 ELSE w.text.masks
<1> DEFINE S == Js!JsonValues(Redact!Contents, n)
<1>1. w \in Deeper(Redact!Contents, S) /\ Payload(n + 1) = Deeper(Redact!Contents, S)
  BY LevelsAreBuilt DEF Payload
<1> HIDE DEF S
<1>2. w.text \in Redact!Contents
  BY <1>1 DEF Deeper
<1>3. /\ w.text.masks \in Nat
      /\ w.text = [local |-> w.text.local, masks |-> w.text.masks, rest |-> w.text.rest]
      /\ w.text.local \in Fragments \cup {Redact!Empty} /\ w.text.rest \in Seq(Fragments \cup {Redact!Empty})
  BY <1>2 DEF Redact!Contents
<1> DEFINE again == [w.text EXCEPT !.masks = w.text.masks + 1]
<1>4. /\ again \in Redact!Contents /\ again.masks = w.text.masks + 1
      /\ Redact!Splits(again) <=> Redact!Splits(w.text)
  BY <1>3 DEF Redact!Contents, Redact!Splits
<1> HIDE DEF again
<1>5. Redact!MaskText(w) = IF Redact!Splits(w.text) THEN [w EXCEPT !.text = again] ELSE w
  BY DEF Redact!MaskText, again
<1>6. QED
  BY <1>1, <1>2, <1>3, <1>4, <1>5 DEF Deeper

\* It keeps a value at its level.
LEMMA MaskedStays ==
    ASSUME NEW kinds, NEW n \in Nat, NEW w \in Payload(n + 1), NEW m \in Nat, n <= m,
           NEW f, \A u \in Payload(n) : f[u] \in Payload(m)
    PROVE  MaskedBy(f, kinds, w) \in Payload(m + 1)
<1> DEFINE parts == [i \in DOMAIN w.parts |-> f[w.parts[i]]]
<1>1. w \in Payload(m + 1)
  BY LevelsGrow DEF Payload
<1>2. \A i \in DOMAIN w.parts : w.parts[i] \in Payload(n)
  BY PartsOfAValue DEF Payload
<1>3. CanReplace(parts, w, Payload(m))
  BY <1>2 DEF CanReplace
<1> HIDE DEF parts
<1>4. [w EXCEPT !.parts = parts] \in Payload(m + 1)
  BY <1>3, OtherParts DEF Payload
<1>5. Redact!MaskText(w) \in Payload(m + 1)
  BY <1>1, TextIsMasked
<1>6. QED
  BY <1>1, <1>4, <1>5 DEF MaskedBy, parts

\* The functions that mask every payload so exist.
LEMMA MasksExist ==
    ASSUME NEW kinds
    PROVE  \E f : f = [w \in Redact!Payloads |-> MaskedBy(f, kinds, w)]
<1> DEFINE P == Payload(MaxDepth)
           Keeps(f) == \A n \in 0..MaxDepth : \A w \in Payload(n) : f[w] \in Payload(n)
           M == {f \in [P -> P] : Keeps(f)}
           start == [w \in P |-> w]
           body == [f \in M |-> [w \in P |-> MaskedBy(f, kinds, w)]]
<1>0. MaxDepth \in Nat
  BY QueryAssumption
<1>1. \A n \in 0..MaxDepth : Payload(n) \subseteq P
  BY <1>0, LevelsGrow DEF Payload
<1>2. Payload(0) = {}
  BY LevelsAreBuilt DEF Payload
<1>3. start \in M
  BY <1>1
<1>4. ASSUME NEW f \in M PROVE [w \in P |-> MaskedBy(f, kinds, w)] \in M
  <2> DEFINE g == [w \in P |-> MaskedBy(f, kinds, w)]
  <2>1. ASSUME NEW n \in 0..MaxDepth, NEW w \in Payload(n) PROVE MaskedBy(f, kinds, w) \in Payload(n)
    <3>1. n # 0 /\ n - 1 \in Nat /\ n - 1 \in 0..MaxDepth /\ (n - 1) + 1 = n
      BY <1>0, <1>2, <2>1
    <3> DEFINE k == n - 1
    <3>2. w \in Payload(k + 1) /\ k \in Nat /\ k \in 0..MaxDepth /\ k <= k
      BY <3>1
    <3>3. \A u \in Payload(k) : f[u] \in Payload(k)
      BY <3>2
    <3> HIDE DEF k
    <3>4. MaskedBy(f, kinds, w) \in Payload(k + 1)
      BY <3>2, <3>3, MaskedStays
    <3>5. QED
      BY <3>1, <3>4 DEF k
  <2>2. MaxDepth \in 0..MaxDepth
    BY <1>0
  <2> HIDE DEF M
  <2>3. \A w \in P : MaskedBy(f, kinds, w) \in P
    BY <2>1, <2>2
  <2>4. g \in [P -> P]
    BY <2>3
  <2>5. Keeps(g)
    BY <1>1, <2>1
  <2> HIDE DEF g, Keeps
  <2>6. g \in M
    BY <2>4, <2>5 DEF M
  <2>7. QED
    BY <2>6 DEF g
<1>5. \A f \in M : f = [w \in P |-> f[w]]
  OBVIOUS
<1>6. body \in [M -> M]
  BY <1>4
<1>7. ASSUME NEW f \in M, NEW g \in M, NEW n \in 0..(MaxDepth - 1), \A v \in Payload(n) : f[v] = g[v],
             NEW v \in Payload(n + 1)
      PROVE  body[f][v] = body[g][v]
  <2>1. n \in Nat /\ n + 1 \in 0..MaxDepth
    BY <1>0
  <2>2. v \in P
    BY <1>1, <2>1
  <2>3. \A i \in DOMAIN v.parts : v.parts[i] \in Payload(n)
    BY <2>1, PartsOfAValue DEF Payload
  <2>4. \A i \in DOMAIN v.parts : f[v.parts[i]] = g[v.parts[i]]
    BY <1>7, <2>3
  <2>5. [i \in DOMAIN v.parts |-> f[v.parts[i]]] = [i \in DOMAIN v.parts |-> g[v.parts[i]]]
    BY <2>4
  <2>6. MaskedBy(f, kinds, v) = MaskedBy(g, kinds, v)
    BY <2>5 DEF MaskedBy
  <2>7. body[f][v] = MaskedBy(f, kinds, v) /\ body[g][v] = MaskedBy(g, kinds, v)
    BY <2>2
  <2>8. QED
    BY <2>6, <2>7
<1>8. \A f \in M : body[f] = [w \in P |-> MaskedBy(f, kinds, w)]
  OBVIOUS
<1> HIDE DEF M, body, start
<1>9. \E f \in M : f = body[f]
  <2>1. \A f \in M : f = [v \in Js!JsonValues(Redact!Contents, MaxDepth) |-> f[v]]
    BY <1>5 DEF Payload
  <2>2. \A f, g \in M, n \in 0..(MaxDepth - 1) :
           (\A v \in Js!JsonValues(Redact!Contents, n) : f[v] = g[v])
             => \A v \in Js!JsonValues(Redact!Contents, n + 1) : body[f][v] = body[g][v]
    BY <1>7 DEF Payload
  <2>3. IsRecursion(Redact!Contents, MaxDepth, M, body)
    BY <1>3, <1>6, <2>1, <2>2 DEF IsRecursion
  <2>4. QED
    BY <1>0, <2>3, RecursionOnJson
<1>10. PICK f \in M : f = body[f]
  BY <1>9
<1>11. f = [w \in Redact!Payloads |-> MaskedBy(f, kinds, w)]
  BY <1>8, <1>10, PayloadsAreJson
<1>12. QED
  BY <1>11

LEMMA MaskValueGoes ==
    ASSUME NEW w \in Redact!Payloads
    PROVE  Redact!MaskValue(w) =
             CASE w.t = "text" -> Redact!MaskText(w)
               [] w.t \notin {"text", "array"} -> w
               [] OTHER -> [w EXCEPT !.parts = [i \in DOMAIN w.parts |-> Redact!MaskValue(w.parts[i])]]
<1> DEFINE IsMask(f) == f = [u \in Redact!Payloads |->
                               CASE u.t = "text" -> Redact!MaskText(u)
                                 [] u.t = "array" -> [u EXCEPT !.parts = [i \in DOMAIN u.parts |-> f[u.parts[i]]]]
                                 [] OTHER -> u]
           mask == CHOOSE f : IsMask(f)
<1>1. \E f : IsMask(f)
  <2>1. PICK f : f = [u \in Redact!Payloads |-> MaskedBy(f, {"array"}, u)]
    BY MasksExist
  <2>2. \A u : u.t \in {"text", "array"} <=> u.t \in {"text"} \cup {"array"}
    OBVIOUS
  <2>3. IsMask(f)
    BY <2>1, <2>2 DEF MaskedBy
  <2>4. QED
    BY <2>3
<1>2. IsMask(mask)
  BY <1>1, Zenon
<1>3. \A v : Redact!MaskValue(v) = mask[v]
  BY DEF Redact!MaskValue
<1> HIDE DEF mask
<1>4. QED
  BY <1>2, <1>3

LEMMA MaskDeepGoes ==
    ASSUME NEW w \in Redact!Payloads
    PROVE  Redact!MaskDeep(w) =
             CASE w.t = "text" -> Redact!MaskText(w)
               [] w.t \notin {"text", "array", "object"} -> w
               [] OTHER -> [w EXCEPT !.parts = [i \in DOMAIN w.parts |-> Redact!MaskDeep(w.parts[i])]]
<1> DEFINE IsMask(f) == f = [u \in Redact!Payloads |->
                               CASE u.t = "text" -> Redact!MaskText(u)
                                 [] u.t \in {"array", "object"} -> [u EXCEPT !.parts = [i \in DOMAIN u.parts |-> f[u.parts[i]]]]
                                 [] OTHER -> u]
           mask == CHOOSE f : IsMask(f)
<1>1. \E f : IsMask(f)
  <2>1. PICK f : f = [u \in Redact!Payloads |-> MaskedBy(f, {"array", "object"}, u)]
    BY MasksExist
  <2>2. \A u : u.t \in {"text", "array", "object"} <=> u.t \in {"text"} \cup {"array", "object"}
    OBVIOUS
  <2>3. IsMask(f)
    BY <2>1, <2>2 DEF MaskedBy
  <2>4. QED
    BY <2>3
<1>2. IsMask(mask)
  BY <1>1, Zenon
<1>3. \A v : Redact!MaskDeep(v) = mask[v]
  BY DEF Redact!MaskDeep
<1> HIDE DEF mask
<1>4. QED
  BY <1>2, <1>3

\* The texts of a value are those of its parts.
LEMMA TextsGo ==
    ASSUME NEW w \in Redact!Payloads
    PROVE  Redact!Texts(w) =
             CASE w.t = "text" -> {w.text}
               [] w.t \notin {"text", "array", "object"} -> {}
               [] OTHER -> UNION {Redact!Texts(w.parts[i]) : i \in DOMAIN w.parts}
<1> DEFINE P == Payload(MaxDepth)
           M == [P -> SUBSET Redact!Contents]
           Step(f, u) == CASE u.t = "text" -> {u.text}
                           [] u.t \notin {"text", "array", "object"} -> {}
                           [] OTHER -> UNION {f[u.parts[i]] : i \in DOMAIN u.parts}
           body == [f \in M |-> [u \in P |-> Step(f, u)]]
           IsTexts(f) == f = [u \in Redact!Payloads |-> Step(f, u)]
           texts == CHOOSE f : IsTexts(f)
<1>1. MaxDepth \in Nat
  BY QueryAssumption
<1>2. ASSUME NEW u \in P
      PROVE  \E k \in 0..(MaxDepth - 1) : u \in Payload(k + 1)
  <2>1. Payload(0) = {}
    BY LevelsAreBuilt DEF Payload
  <2>2. MaxDepth # 0 /\ MaxDepth - 1 \in 0..(MaxDepth - 1) /\ (MaxDepth - 1) + 1 = MaxDepth
    BY <1>1, <1>2, <2>1
  <2>3. QED
    BY <1>2, <2>2
<1>3. ASSUME NEW k \in 0..(MaxDepth - 1), NEW u \in Payload(k + 1)
      PROVE  u \in P /\ u.text \in Redact!Contents /\ \A i \in DOMAIN u.parts : u.parts[i] \in Payload(k) /\ u.parts[i] \in P
  <2>1. k \in Nat /\ k + 1 \in Nat /\ k + 1 <= MaxDepth /\ k <= MaxDepth
    BY <1>1
  <2>2. Payload(k) \subseteq P /\ Payload(k + 1) \subseteq P
    BY <1>1, <2>1, LevelsGrow DEF Payload
  <2>3. QED
    BY <2>1, <2>2, PartsOfAValue DEF Payload
<1> HIDE DEF P
<1>4. ASSUME NEW f \in M, NEW u \in P PROVE Step(f, u) \in SUBSET Redact!Contents
  <2>1. u.text \in Redact!Contents /\ \A i \in DOMAIN u.parts : u.parts[i] \in P
    BY <1>2, <1>3
  <2>2. UNION {f[u.parts[i]] : i \in DOMAIN u.parts} \in SUBSET Redact!Contents
    BY <2>1
  <2>3. QED
    BY <2>1, <2>2
<1>5. body \in [M -> M]
  <2> HIDE DEF Step
  <2>1. QED
    BY <1>4
<1>6. ASSUME NEW f \in M, NEW g \in M, NEW n \in 0..(MaxDepth - 1), \A v \in Payload(n) : f[v] = g[v],
             NEW v \in Payload(n + 1)
      PROVE  body[f][v] = body[g][v]
  <2>1. v \in P /\ \A i \in DOMAIN v.parts : v.parts[i] \in Payload(n)
    BY <1>3
  <2>2. \A i \in DOMAIN v.parts : f[v.parts[i]] = g[v.parts[i]]
    BY <1>6, <2>1
  <2>3. {f[v.parts[i]] : i \in DOMAIN v.parts} = {g[v.parts[i]] : i \in DOMAIN v.parts}
    BY <2>2
  <2>4. Step(f, v) = Step(g, v)
    BY <2>3
  <2> HIDE DEF Step
  <2>5. QED
    BY <2>1, <2>4
<1>7. \A f \in M : body[f] = [u \in P |-> Step(f, u)] /\ f = [u \in P |-> f[u]]
  OBVIOUS
<1>8. M # {}
  <2>1. [u \in P |-> {}] \in M
    OBVIOUS
  <2>2. QED
    BY <2>1
<1> HIDE DEF M, body, Step
<1>9. \E f \in M : f = body[f]
  <2>1. \A f \in M : f = [v \in Js!JsonValues(Redact!Contents, MaxDepth) |-> f[v]]
    BY <1>7 DEF Payload, P
  <2>2. \A f, g \in M, n \in 0..(MaxDepth - 1) :
           (\A v \in Js!JsonValues(Redact!Contents, n) : f[v] = g[v])
             => \A v \in Js!JsonValues(Redact!Contents, n + 1) : body[f][v] = body[g][v]
    BY <1>6 DEF Payload
  <2>3. IsRecursion(Redact!Contents, MaxDepth, M, body)
    BY <1>5, <1>8, <2>1, <2>2 DEF IsRecursion
  <2>4. QED
    BY <1>1, <2>3, RecursionOnJson
<1>10. PICK f \in M : f = body[f]
  BY <1>9
<1>11. f = [u \in Redact!Payloads |-> Step(f, u)]
  BY <1>7, <1>10, PayloadsAreJson DEF P
<1>12. IsTexts(f)
  BY <1>11
<1>13. IsTexts(texts)
  BY <1>12, Zenon
<1>14. \A v : Redact!Texts(v) = texts[v]
  BY DEF Redact!Texts, Step
<1> HIDE DEF texts
<1>15. texts[w] = Step(texts, w)
  BY <1>13
<1>16. QED
  BY <1>14, <1>15 DEF Step

\* Whether a value has a text to be masked.
Splitting(w) == \E s \in Redact!Texts(w) : Redact!Splits(s)

\* No such text of a value is left as it was, a value with one is changed, even if it was
\* masked before, and any other is not.
IsMaskedRight(w) ==
    /\ \A s \in Redact!Texts(Redact!MaskDeep(w)) : Redact!Splits(s) => s.masks > 0
    /\ Splitting(w) => Redact!MaskDeep(w) # w /\ Redact!MaskDeep(Redact!MaskValue(w)) # w
    /\ ~Splitting(w) => Redact!MaskDeep(w) = w /\ Redact!MaskValue(w) = w

LEMMA LevelIsMasked ==
    ASSUME NEW n \in Nat, n + 1 <= MaxDepth, NEW w \in Payload(n + 1),
           \A u \in Payload(n) : /\ Redact!MaskValue(u) \in Payload(n) /\ Redact!MaskDeep(u) \in Payload(n)
                                 /\ IsMaskedRight(u)
    PROVE  /\ Redact!MaskValue(w) \in Payload(n + 1) /\ Redact!MaskDeep(w) \in Payload(n + 1)
           /\ IsMaskedRight(w)
<1> DEFINE V(u) == Redact!MaskValue(u)
           D(u) == Redact!MaskDeep(u)
           T(u) == Redact!Texts(u)
           I == DOMAIN w.parts
           dp == [i \in I |-> D(w.parts[i])]
           vp == [i \in I |-> V(w.parts[i])]
           dvp == [i \in I |-> D(vp[i])]
<1>1. MaxDepth \in Nat
  BY QueryAssumption
<1>2. Payload(n) \subseteq Redact!Payloads /\ Payload(n + 1) \subseteq Redact!Payloads
  BY <1>1, PayloadsAreJson, LevelsGrow DEF Payload
<1>3. \A u \in Payload(n + 1) :
        /\ V(u) = CASE u.t = "text" -> Redact!MaskText(u)
                    [] u.t \notin {"text", "array"} -> u
                    [] OTHER -> [u EXCEPT !.parts = [i \in DOMAIN u.parts |-> V(u.parts[i])]]
        /\ D(u) = CASE u.t = "text" -> Redact!MaskText(u)
                    [] u.t \notin {"text", "array", "object"} -> u
                    [] OTHER -> [u EXCEPT !.parts = [i \in DOMAIN u.parts |-> D(u.parts[i])]]
        /\ T(u) = CASE u.t = "text" -> {u.text}
                    [] u.t \notin {"text", "array", "object"} -> {}
                    [] OTHER -> UNION {T(u.parts[i]) : i \in DOMAIN u.parts}
  BY <1>2, MaskValueGoes, MaskDeepGoes, TextsGo
<1> HIDE DEF V, D, T
<1>4. \A i \in I : w.parts[i] \in Payload(n)
  BY PartsOfAValue DEF Payload
<1>5. \A u \in Payload(n) : V(u) \in Payload(n) /\ D(u) \in Payload(n)
  BY DEF V, D
<1>6. \A i \in I : dp[i] \in Payload(n) /\ vp[i] \in Payload(n) /\ dvp[i] \in Payload(n)
  BY <1>4, <1>5
<1>7. /\ w = [w EXCEPT !.parts = w.parts]
      /\ DOMAIN dp = I /\ DOMAIN vp = I /\ DOMAIN dvp = I
      /\ \A i \in I : dp[i] = D(w.parts[i]) /\ vp[i] = V(w.parts[i]) /\ dvp[i] = D(vp[i])
      /\ dp = [i \in I |-> dp[i]] /\ vp = [i \in I |-> vp[i]] /\ dvp = [i \in I |-> dvp[i]]
  <2>1. w \in Deeper(Redact!Contents, Js!JsonValues(Redact!Contents, n))
    BY LevelsAreBuilt DEF Payload
  <2>2. w = [w EXCEPT !.parts = w.parts]
    BY <2>1 DEF Deeper
  <2>3. QED
    BY <2>2
<1> DEFINE wd == [w EXCEPT !.parts = dp]
           wv == [w EXCEPT !.parts = vp]
           wdv == [w EXCEPT !.parts = dvp]
           mt == Redact!MaskText(w)
<1> HIDE DEF dp, vp, dvp
<1>8. \A p \in {dp, vp, dvp} :
         /\ [w EXCEPT !.parts = p] \in Payload(n + 1)
         /\ [w EXCEPT !.parts = p].t = w.t
         /\ [w EXCEPT !.parts = p].parts = p
  <2> SUFFICES ASSUME NEW p \in {dp, vp, dvp}
               PROVE  /\ [w EXCEPT !.parts = p] \in Payload(n + 1)
                      /\ [w EXCEPT !.parts = p].t = w.t
                      /\ [w EXCEPT !.parts = p].parts = p
    OBVIOUS
  <2>1. CanReplace(p, w, Payload(n))
    BY <1>6, <1>7 DEF CanReplace
  <2>2. QED
    BY <2>1, OtherParts DEF Payload
<1>9. /\ wd \in Payload(n + 1) /\ wd.t = w.t /\ wd.parts = dp
      /\ wv \in Payload(n + 1) /\ wv.t = w.t /\ wv.parts = vp
      /\ wdv \in Payload(n + 1) /\ wdv.t = w.t /\ wdv.parts = dvp
  BY <1>8
<1>10. /\ mt \in Payload(n + 1) /\ mt.t = w.t /\ (Redact!Splits(mt.text) <=> Redact!Splits(w.text)) /\ w.text.masks \in Nat
       /\ mt.text.masks = IF Redact!Splits(w.text) THEN w.text.masks + 1 ELSE w.text.masks
  BY TextIsMasked
<1> HIDE DEF wd, wv, wdv, mt
<1>11. \A u : IsMaskedRight(u) <=>
         /\ \A s \in T(D(u)) : Redact!Splits(s) => s.masks > 0
         /\ Splitting(u) => D(u) # u /\ D(V(u)) # u
         /\ ~Splitting(u) => D(u) = u /\ V(u) = u
  BY DEF IsMaskedRight, V, D, T
<1>12. \A u : Splitting(u) <=> \E s \in T(u) : Redact!Splits(s)
  BY DEF Splitting, T
<1>13. CASE w.t = "text"
  <2> DEFINE mm == Redact!MaskText(mt)
  <2>1. V(w) = mt /\ D(w) = mt /\ T(w) = {w.text} /\ T(mt) = {mt.text} /\ D(mt) = mm
    BY <1>3, <1>10, <1>13 DEF mt
  <2>2. /\ (Redact!Splits(mm.text) <=> Redact!Splits(w.text))
        /\ mm.text.masks = IF Redact!Splits(w.text) THEN w.text.masks + 2 ELSE w.text.masks
    BY <1>10, TextIsMasked
  <2> HIDE DEF mm
  <2>3. \A s \in T(D(w)) : Redact!Splits(s) => s.masks > 0
    BY <1>10, <2>1
  <2>4. Splitting(w) => D(w) # w /\ D(V(w)) # w
    BY <1>10, <1>12, <2>1, <2>2
  <2>5. ~Splitting(w) => D(w) = w /\ V(w) = w
    BY <1>12, <2>1 DEF mt, Redact!MaskText
  <2>6. IsMaskedRight(w)
    BY <1>11, <2>3, <2>4, <2>5
  <2>7. QED
    BY <1>10, <2>1, <2>6 DEF V, D
<1>14. CASE w.t \in {"array", "object"}
  <2>1. D(w) = wd /\ T(w) = UNION {T(w.parts[i]) : i \in I}
    BY <1>3, <1>14 DEF wd, dp
  <2>2. V(w) = IF w.t = "array" THEN wv ELSE w
    BY <1>3, <1>14 DEF wv, vp
  <2>3. T(wd) = UNION {T(dp[i]) : i \in I}
    BY <1>3, <1>7, <1>9, <1>14
  <2>4. D(wv) = wdv
    <3>1. D(wv) = [wv EXCEPT !.parts = [i \in DOMAIN wv.parts |-> D(wv.parts[i])]]
      BY <1>3, <1>9, <1>14
    <3>2. [i \in DOMAIN wv.parts |-> D(wv.parts[i])] = dvp
      BY <1>7, <1>9
    <3>3. QED
      BY <3>1, <3>2 DEF wv, wdv
  <2>5. \A i \in I : /\ \A s \in T(dp[i]) : Redact!Splits(s) => s.masks > 0
                     /\ Splitting(w.parts[i]) => dp[i] # w.parts[i] /\ dvp[i] # w.parts[i]
                     /\ ~Splitting(w.parts[i]) => dp[i] = w.parts[i] /\ vp[i] = w.parts[i]
    BY <1>4, <1>7, <1>11
  <2>6. Splitting(w) <=> \E i \in I : Splitting(w.parts[i])
    BY <1>12, <2>1
  <2>7. \A s \in T(D(w)) : Redact!Splits(s) => s.masks > 0
    BY <2>1, <2>3, <2>5
  <2>8. Splitting(w) => D(w) # w /\ D(V(w)) # w
    <3> SUFFICES ASSUME Splitting(w) PROVE wd # w /\ wdv # w
      BY <2>1, <2>2, <2>4
    <3>1. PICK i \in I : Splitting(w.parts[i])
      BY <2>6
    <3>2. dp[i] # w.parts[i] /\ dvp[i] # w.parts[i]
      BY <2>5, <3>1
    <3>3. QED
      BY <1>9, <3>2
  <2>9. ~Splitting(w) => D(w) = w /\ V(w) = w
    <3> SUFFICES ASSUME ~Splitting(w) PROVE wd = w /\ wv = w
      BY <2>1, <2>2
    <3>1. \A i \in I : dp[i] = w.parts[i] /\ vp[i] = w.parts[i]
      BY <2>5, <2>6
    <3>2. w.parts = [i \in I |-> w.parts[i]]
      <4>1. w.parts \in Seq(Payload(n))
        BY PartsOfAValue DEF Payload
      <4>2. QED
        BY <4>1, SeqDef
    <3>3. dp = w.parts /\ vp = w.parts
      BY <1>7, <3>1, <3>2
    <3>4. QED
      BY <1>7, <3>3 DEF wd, wv
  <2>10. IsMaskedRight(w)
    BY <1>11, <2>7, <2>8, <2>9
  <2>11. D(w) \in Payload(n + 1) /\ V(w) \in Payload(n + 1)
    BY <1>9, <2>1, <2>2
  <2>12. QED
    BY <2>10, <2>11 DEF V, D
<1>15. CASE w.t \notin {"text", "array", "object"}
  <2>1. V(w) = w /\ D(w) = w /\ T(w) = {}
    BY <1>3, <1>15
  <2>2. IsMaskedRight(w)
    BY <1>11, <1>12, <2>1
  <2>3. QED
    BY <2>1, <2>2 DEF V, D
<1>16. QED
  BY <1>13, <1>14, <1>15

LEMMA PayloadsAreMasked ==
    ASSUME NEW n \in Nat, n <= MaxDepth, NEW w \in Payload(n)
    PROVE  IsMaskedRight(w) /\ Redact!MaskValue(w) \in Payload(n)
<1> DEFINE E == {k \in Nat : k <= MaxDepth =>
                   \A u \in Payload(k) : /\ Redact!MaskValue(u) \in Payload(k) /\ Redact!MaskDeep(u) \in Payload(k)
                                         /\ IsMaskedRight(u)}
<1>1. Payload(0) = {}
  BY LevelsAreBuilt DEF Payload
<1>2. 0 \in E
  BY <1>1
<1>3. ASSUME NEW k \in Nat, k \in E PROVE k + 1 \in E
  <2> SUFFICES ASSUME k + 1 <= MaxDepth, NEW v \in Payload(k + 1)
               PROVE  /\ Redact!MaskValue(v) \in Payload(k + 1) /\ Redact!MaskDeep(v) \in Payload(k + 1)
                      /\ IsMaskedRight(v)
    OBVIOUS
  <2>1. \A u \in Payload(k) : /\ Redact!MaskValue(u) \in Payload(k) /\ Redact!MaskDeep(u) \in Payload(k)
                              /\ IsMaskedRight(u)
    BY <1>3, QueryAssumption
  <2>2. QED
    BY <2>1, LevelIsMasked
<1> HIDE DEF E
<1>4. Nat \subseteq E
  BY <1>2, <1>3, SetInduction
<1>5. QED
  BY <1>4 DEF E

\* mask_payload_for_kind and mask_value_emails_deep after it: no text is left to be masked, and the
\* payload is changed iff there was one.
LEMMA PayloadIsShown ==
    ASSUME NEW kind, NEW p \in Redact!Payloads
    PROVE  \A q \in {p, Redact!MaskPayload(kind, p)} :
             /\ \A s \in Redact!Texts(Redact!MaskDeep(q)) : Redact!Splits(s) => s.masks > 0
             /\ Splitting(p) <=> Redact!MaskDeep(q) # p
<1>1. CASE p.t # "object"
  BY <1>1, PayloadsAreMasked, PayloadsAreJson, QueryAssumption DEF Redact!MaskPayload, IsMaskedRight
<1>2. CASE p.t = "object"
  <2> DEFINE I == DOMAIN p.parts
             parts == [i \in I |-> IF p.keys[i] \in Redact!PiiFields(kind) THEN Redact!MaskValue(p.parts[i]) ELSE p.parts[i]]
             q == [p EXCEPT !.parts = parts]
             deep == [i \in I |-> Redact!MaskDeep(parts[i])]
  <2>1. MaxDepth \in Nat /\ MaxDepth # 0
    BY LevelsAreBuilt, PayloadsAreJson, QueryAssumption DEF Payload
  <2>2. PICK n \in Nat : MaxDepth = n + 1
    <3>1. MaxDepth - 1 \in Nat /\ MaxDepth = (MaxDepth - 1) + 1
      BY <2>1
    <3>2. QED
      BY <3>1
  <2>3. p \in Payload(n + 1) /\ Payload(n) \subseteq Redact!Payloads /\ Payload(n + 1) = Redact!Payloads
    BY <2>1, <2>2, PayloadsAreJson, LevelsGrow DEF Payload
  <2>4. \A i \in I : p.parts[i] \in Payload(n) /\ p.parts[i] \in Redact!Payloads
    BY <2>3, PartsOfAValue DEF Payload
  <2>5. \A i \in I : /\ IsMaskedRight(p.parts[i])
                     /\ Redact!MaskValue(p.parts[i]) \in Payload(n)
    BY <2>1, <2>2, <2>4, PayloadsAreMasked
  <2>6. q = Redact!MaskPayload(kind, p)
    BY <1>2 DEF Redact!MaskPayload
  <2>7. \A i \in I : \/ parts[i] = p.parts[i]
                     \/ parts[i] = Redact!MaskValue(p.parts[i])
    OBVIOUS
  <2>8. \A i \in I : deep[i] = Redact!MaskDeep(parts[i])
    OBVIOUS
  <2>9. DOMAIN parts = I /\ DOMAIN deep = I /\ parts = [i \in I |-> parts[i]] /\ deep = [i \in I |-> deep[i]]
    OBVIOUS
  <2>10. p = [p EXCEPT !.parts = p.parts] /\ p.parts = [i \in I |-> p.parts[i]]
    <3>1. p \in Deeper(Redact!Contents, Js!JsonValues(Redact!Contents, n))
      BY <2>3, LevelsAreBuilt DEF Payload
    <3>2. p.parts \in Seq(Payload(n))
      BY <2>3, PartsOfAValue DEF Payload
    <3>3. p.parts = [i \in I |-> p.parts[i]]
      BY <3>2, SeqDef
    <3>4. p = [p EXCEPT !.parts = p.parts]
      BY <3>1 DEF Deeper
    <3>5. QED
      BY <3>3, <3>4
  <2> HIDE DEF parts, deep
  <2>11. CanReplace(parts, p, Payload(n))
    BY <2>4, <2>5, <2>7, <2>9 DEF CanReplace
  <2>12. q \in Payload(n + 1) /\ q.t = "object" /\ q.parts = parts
    BY <1>2, <2>3, <2>11, OtherParts DEF Payload
  <2>13. IsMaskedRight(q) /\ IsMaskedRight(p)
    BY <2>1, <2>2, <2>3, <2>12, PayloadsAreMasked
  <2>14. Redact!MaskDeep(q) = [q EXCEPT !.parts = deep]
    <3>1. Redact!MaskDeep(q) = [q EXCEPT !.parts = [i \in DOMAIN q.parts |-> Redact!MaskDeep(q.parts[i])]]
      BY <2>3, <2>12, MaskDeepGoes
    <3>2. [i \in DOMAIN q.parts |-> Redact!MaskDeep(q.parts[i])] = deep
      BY <2>8, <2>9, <2>12
    <3>3. QED
      BY <3>1, <3>2
  <2>15. [q EXCEPT !.parts = deep].parts = deep
    <3>1. q \in Deeper(Redact!Contents, Js!JsonValues(Redact!Contents, n))
      BY <2>12, LevelsAreBuilt DEF Payload
    <3>2. QED
      BY <3>1 DEF Deeper
  <2>16. Splitting(p) <=> \E i \in I : Splitting(p.parts[i])
    <3>1. Redact!Texts(p) = UNION {Redact!Texts(p.parts[i]) : i \in I}
      BY <1>2, TextsGo
    <3>2. QED
      BY <3>1 DEF Splitting
  <2>17. Splitting(p) => Redact!MaskDeep(q) # p
    <3> SUFFICES ASSUME Splitting(p) PROVE Redact!MaskDeep(q).parts # p.parts
      OBVIOUS
    <3>1. PICK i \in I : Splitting(p.parts[i])
      BY <2>16
    <3>2. deep[i] # p.parts[i]
      BY <2>5, <2>7, <2>8, <3>1 DEF IsMaskedRight
    <3>3. QED
      BY <2>14, <2>15, <3>2
  <2>18. ~Splitting(p) => Redact!MaskDeep(q) = p
    <3> SUFFICES ASSUME ~Splitting(p) PROVE Redact!MaskDeep(q) = p
      OBVIOUS
    <3>1. \A i \in I : parts[i] = p.parts[i]
      BY <2>5, <2>7, <2>16 DEF IsMaskedRight
    <3>2. parts = p.parts
      BY <2>9, <2>10, <3>1
    <3>3. q = p
      BY <2>10, <3>2
    <3>4. QED
      BY <2>13, <3>3 DEF IsMaskedRight
  <2>19. \A s \in Redact!Texts(Redact!MaskDeep(q)) : Redact!Splits(s) => s.masks > 0
    BY <2>13 DEF IsMaskedRight
  <2> HIDE DEF q
  <2>20. /\ \A s \in Redact!Texts(Redact!MaskDeep(p)) : Redact!Splits(s) => s.masks > 0
         /\ Splitting(p) <=> Redact!MaskDeep(p) # p
    BY <2>13 DEF IsMaskedRight
  <2>21. QED
    BY <2>6, <2>17, <2>18, <2>19, <2>20
<1>3. QED
  BY <1>1, <1>2

\* Whatever row is read, whoever reads it (collect_event_rows).
LEMMA RowsAreMasked ==
    ASSUME NEW query, IsQuery(query)
    PROVE  Redact!LocalPartsAreMasked(query.row, query.ctx)
<1> DEFINE row == query.row
           ctx == query.ctx
           shown == Redact!ShownRow(row, ctx)
<1>1. /\ row = [kind |-> row.kind, email |-> row.email, payload |-> row.payload]
      /\ row.email # Absent => row.email \in Redact!Payloads /\ row.email.t \in {"text", "other"}
      /\ row.payload # Absent => row.payload \in Redact!Payloads
      /\ ctx \in [maskEmail : BOOLEAN, allowed : BOOLEAN, admin : BOOLEAN, drop : BOOLEAN]
  BY DEF IsQuery
<1> HIDE DEF row, ctx
<1> DEFINE r == [row |-> shown, masked |-> Redact!Masked(row, ctx)]
<1>2. \A x : x \in {Redact!Rows(row, ctx)[i] : i \in DOMAIN Redact!Rows(row, ctx)} => x = r
  BY DEF Redact!Rows
<1>3. /\ Redact!Masking(ctx) <=> ctx.maskEmail /\ ~(ctx.allowed /\ ctx.admin)
      /\ Redact!Masked(row, ctx) <=> /\ Redact!Masking(ctx)
                                    /\ \/ row.email # Absent /\ Splitting(row.email)
                                       \/ row.payload # Absent /\ Splitting(row.payload)
  BY DEF Redact!Masking, Redact!Masked, Splitting
<1>4. ASSUME row.email # Absent
      PROVE  /\ \A s \in Redact!Texts(Redact!MaskValue(row.email)) : Redact!Splits(s) => s.masks > 0
             /\ Splitting(row.email) <=> Redact!MaskValue(row.email) # row.email
  <2>1. row.email \in Redact!Payloads /\ row.email.t \in {"text", "other"}
    BY <1>1, <1>4
  <2>2. Redact!MaskValue(row.email) = Redact!MaskDeep(row.email)
    BY <2>1, MaskValueGoes, MaskDeepGoes
  <2>3. QED
    BY <2>1, <2>2, PayloadsAreMasked, PayloadsAreJson, QueryAssumption DEF IsMaskedRight
<1> DEFINE deep == Redact!MaskDeep(IF row.kind = Absent THEN row.payload ELSE Redact!MaskPayload(row.kind, row.payload))
<1>5. ASSUME row.payload # Absent
      PROVE  /\ \A s \in Redact!Texts(deep) : Redact!Splits(s) => s.masks > 0
             /\ Splitting(row.payload) <=> deep # row.payload
  BY <1>1, <1>5, PayloadIsShown
<1>6. CASE ~Redact!Masking(ctx)
  <2>1. shown = row /\ ~Redact!Masked(row, ctx)
    BY <1>3, <1>6 DEF Redact!ShownRow
  <2>2. QED
    BY <1>2, <1>3, <1>6, <2>1 DEF Redact!LocalPartsAreMasked, row, ctx
<1>7. CASE Redact!Masking(ctx)
  <2>1. shown = [kind |-> row.kind,
                 email |-> IF row.email = Absent THEN Absent ELSE Redact!MaskValue(row.email),
                 payload |-> IF row.payload = Absent THEN Absent ELSE deep]
    BY <1>7 DEF Redact!ShownRow
  <2> HIDE DEF shown, deep
  <2>2. /\ shown.email = IF row.email = Absent THEN Absent ELSE Redact!MaskValue(row.email)
        /\ shown.payload = IF row.payload = Absent THEN Absent ELSE deep
    BY <2>1
  <2>3. shown = row <=> shown.email = row.email /\ shown.payload = row.payload
    BY <1>1, <2>1
  <2>4. Redact!Masked(row, ctx) <=> shown # row
    BY <1>3, <1>4, <1>5, <1>7, <2>2, <2>3
  <2>5. \A cell \in {shown.email, shown.payload} \ {Absent} :
           \A s \in Redact!Texts(cell) : Redact!Splits(s) => s.masks > 0
    BY <1>4, <1>5, <2>2
  <2>6. r.row = shown /\ r.masked = Redact!Masked(row, ctx)
    OBVIOUS
  <2> HIDE DEF r
  <2>7. QED
    BY <1>2, <1>3, <1>7, <2>4, <2>5, <2>6 DEF Redact!LocalPartsAreMasked, row, ctx
<1>8. QED
  BY <1>6, <1>7

\* Whoever has no clearance sees no text with what stood before its first "@", and a row is flagged iff it
\* was changed, for payloads of any shape (collect_event_rows, mask_value_emails_deep).
THEOREM LocalPartsMasked == TablesSpec => []LocalPartsAreMasked
<1> DEFINE Inv == case.table = "redaction" => case.in \in Queries
<1>1. TablesInit => Inv
  BY DEF TablesInit
<1>2. Inv /\ [TablesNext]_case => Inv'
  BY DEF TablesNext, Input
<1>3. Inv => LocalPartsAreMasked
  BY QueryAssumption, RowsAreMasked DEF LocalPartsAreMasked
<1>4. QED
  BY <1>1, <1>2, <1>3, PTL DEF TablesSpec

-----------------------------------------------------------------------------
(* The payloads of an opening's nodes *)

Tree(n) == Js!JsonValues(Opening!Braces, n)

LEMMA ValuesAreJson == Opening!Values = Tree(MaxDepth) /\ Opening!Fillable = Tree(2 * MaxDepth)
  BY DEF Opening!Values, Opening!Fillable, Tree, Opening!JsonValues, Js!JsonValues, Opening!Types, Js!Types

LEMMA OneLevelDown ==
    ASSUME NEW depth \in Nat
    PROVE  /\ \A v \in Tree(depth) : \E k \in 0..(depth - 1) : v \in Tree(k + 1)
           /\ \A k \in 0..(depth - 1) : \A v \in Tree(k + 1) :
                /\ v \in Tree(depth)
                /\ \A i \in DOMAIN v.parts : v.parts[i] \in Tree(k) /\ v.parts[i] \in Tree(depth)
<1>1. ASSUME NEW v \in Tree(depth) PROVE \E k \in 0..(depth - 1) : v \in Tree(k + 1)
  <2>1. Tree(0) = {}
    BY LevelsAreBuilt DEF Tree
  <2>2. depth # 0 /\ depth - 1 \in 0..(depth - 1) /\ (depth - 1) + 1 = depth
    BY <1>1, <2>1
  <2>3. QED
    BY <1>1, <2>2
<1>2. ASSUME NEW k \in 0..(depth - 1), NEW v \in Tree(k + 1)
      PROVE  /\ v \in Tree(depth)
             /\ \A i \in DOMAIN v.parts : v.parts[i] \in Tree(k) /\ v.parts[i] \in Tree(depth)
  <2>1. k \in Nat /\ k + 1 \in Nat /\ k + 1 <= depth /\ k <= depth
    OBVIOUS
  <2>2. Tree(k) \subseteq Tree(depth) /\ Tree(k + 1) \subseteq Tree(depth)
    BY <2>1, LevelsGrow DEF Tree
  <2>3. QED
    BY <2>1, <2>2, PartsOfAValue DEF Tree
<1>3. QED
  BY <1>1, <1>2

\* A condition that holds of a value if it does of its text and its parts: some of them
\* (any = TRUE), or all.
Looked(f, texts, any, v) ==
    IF any THEN v.text \in texts \/ \E i \in DOMAIN v.parts : f[v.parts[i]]
    ELSE v.text \in texts /\ \A i \in DOMAIN v.parts : f[v.parts[i]]

LEMMA LooksExist ==
    ASSUME NEW texts, NEW any \in BOOLEAN, NEW depth \in Nat
    PROVE  \E f : f = [v \in Tree(depth) |-> Looked(f, texts, any, v)]
<1> DEFINE P == Tree(depth)
           M == [P -> BOOLEAN]
           body == [f \in M |-> [v \in P |-> Looked(f, texts, any, v)]]
<1> HIDE DEF P
<1>1. ASSUME NEW f, NEW v PROVE Looked(f, texts, any, v) \in BOOLEAN
  BY DEF Looked
<1>2. body \in [M -> M]
  BY <1>1
<1>3. ASSUME NEW f \in M, NEW g \in M, NEW n \in 0..(depth - 1), \A v \in Tree(n) : f[v] = g[v],
             NEW v \in Tree(n + 1)
      PROVE  body[f][v] = body[g][v]
  <2>1. v \in P /\ \A i \in DOMAIN v.parts : v.parts[i] \in Tree(n)
    BY OneLevelDown DEF P
  <2>2. \A i \in DOMAIN v.parts : f[v.parts[i]] = g[v.parts[i]]
    BY <1>3, <2>1
  <2>3. Looked(f, texts, any, v) = Looked(g, texts, any, v)
    BY <2>2 DEF Looked
  <2>4. QED
    BY <2>1, <2>3
<1>4. \A f \in M : body[f] = [v \in P |-> Looked(f, texts, any, v)] /\ f = [v \in P |-> f[v]]
  OBVIOUS
<1>5. M # {}
  <2>1. [v \in P |-> TRUE] \in M
    OBVIOUS
  <2>2. QED
    BY <2>1
<1> HIDE DEF M, body
<1>6. IsRecursion(Opening!Braces, depth, M, body)
  <2>1. \A f \in M : f = [v \in Js!JsonValues(Opening!Braces, depth) |-> f[v]]
    BY <1>4 DEF Tree, P
  <2>2. \A f, g \in M, n \in 0..(depth - 1) :
           (\A v \in Js!JsonValues(Opening!Braces, n) : f[v] = g[v])
             => \A v \in Js!JsonValues(Opening!Braces, n + 1) : body[f][v] = body[g][v]
    BY <1>3 DEF Tree
  <2>3. QED
    BY <1>2, <1>5, <2>1, <2>2 DEF IsRecursion
<1>7. PICK f \in M : f = body[f]
  BY <1>6, RecursionOnJson
<1>8. f = [v \in P |-> Looked(f, texts, any, v)]
  BY <1>4, <1>7
<1>9. QED
  BY <1>8 DEF P

LEMMA BracedGoes ==
    ASSUME NEW v \in Opening!Fillable
    PROVE  Opening!Braced(v) <=> v.text # "none" \/ \E i \in DOMAIN v.parts : Opening!Braced(v.parts[i])
<1> DEFINE IsBraced(f) == f = [w \in Opening!Fillable |-> w.text # "none" \/ \E i \in DOMAIN w.parts : f[w.parts[i]]]
           braced == CHOOSE f : IsBraced(f)
<1>1. \E f : IsBraced(f)
  <2> DEFINE texts == Opening!Braces \ {"none"}
             depth == 2 * MaxDepth
  <2>1. depth \in Nat
    BY QueryAssumption
  <2> HIDE DEF texts, depth
  <2>2. PICK f : f = [w \in Tree(depth) |-> Looked(f, texts, TRUE, w)]
    BY <2>1, LooksExist
  <2>3. \A w \in Tree(depth) : w.text \in texts <=> w.text # "none"
    <3>1. \A w \in Tree(depth) : w.text \in Opening!Braces
      BY <2>1, OneLevelDown, PartsOfAValue DEF Tree
    <3>2. QED
      BY <3>1 DEF texts
  <2>4. \A w \in Tree(depth) :
          Looked(f, texts, TRUE, w) = (w.text # "none" \/ \E i \in DOMAIN w.parts : f[w.parts[i]])
    BY <2>3 DEF Looked
  <2>5. f = [w \in Tree(depth) |-> w.text # "none" \/ \E i \in DOMAIN w.parts : f[w.parts[i]]]
    BY <2>2, <2>4
  <2>6. IsBraced(f)
    BY <2>5, ValuesAreJson DEF depth
  <2>7. QED
    BY <2>6
<1>2. IsBraced(braced)
  BY <1>1, Zenon
<1>3. \A w : Opening!Braced(w) = braced[w]
  BY DEF Opening!Braced
<1> HIDE DEF braced
<1>4. QED
  BY <1>2, <1>3

LEMMA ResolvesGoes ==
    ASSUME NEW params, NEW v \in Opening!Values
    PROVE  Opening!Resolves(v, params) <=>
             /\ v.text # "none" => Opening!IsTemplate(v, params) /\ ~Opening!Braced(params[v.text])
             /\ \A i \in DOMAIN v.parts : Opening!Resolves(v.parts[i], params)
<1> DEFINE Fits(w) == w.text # "none" => Opening!IsTemplate(w, params) /\ ~Opening!Braced(params[w.text])
           IsResolves(f) ==
             f = [w \in Opening!Values |->
                    /\ w.text # "none" => Opening!IsTemplate(w, params) /\ ~Opening!Braced(params[w.text])
                    /\ \A i \in DOMAIN w.parts : f[w.parts[i]]]
           resolves == CHOOSE f : IsResolves(f)
<1>1. \E f : IsResolves(f)
  <2> DEFINE texts == {s \in Opening!Braces : s # "none" => s \in DOMAIN params /\ ~Opening!Braced(params[s])}
  <2>1. MaxDepth \in Nat
    BY QueryAssumption
  <2> HIDE DEF texts
  <2>2. PICK f : f = [w \in Tree(MaxDepth) |-> Looked(f, texts, FALSE, w)]
    BY <2>1, LooksExist
  <2>3. \A w \in Tree(MaxDepth) : w.text \in texts <=> Fits(w)
    <3>1. \A w \in Tree(MaxDepth) : w.text \in Opening!Braces
      BY <2>1, OneLevelDown, PartsOfAValue DEF Tree
    <3>2. QED
      BY <3>1 DEF texts, Opening!IsTemplate
  <2> HIDE DEF Fits
  <2>4. \A w \in Tree(MaxDepth) :
          Looked(f, texts, FALSE, w) = (Fits(w) /\ \A i \in DOMAIN w.parts : f[w.parts[i]])
    BY <2>3 DEF Looked
  <2>5. f = [w \in Tree(MaxDepth) |-> Fits(w) /\ \A i \in DOMAIN w.parts : f[w.parts[i]]]
    BY <2>2, <2>4
  <2>6. IsResolves(f)
    BY <2>5, ValuesAreJson DEF Fits
  <2>7. QED
    BY <2>6
<1>2. IsResolves(resolves)
  BY <1>1, Zenon
<1>3. \A w : Opening!Resolves(w, params) = resolves[w]
  BY DEF Opening!Resolves
<1> HIDE DEF resolves
<1>4. resolves[v] = (/\ v.text # "none" => Opening!IsTemplate(v, params) /\ ~Opening!Braced(params[v.text])
                     /\ \A i \in DOMAIN v.parts : resolves[v.parts[i]])
  BY <1>2
<1>5. QED
  BY <1>3, <1>4

LEMMA FilledGoes ==
    ASSUME NEW params, \A name \in DOMAIN params : params[name] \in Opening!Values, NEW v \in Opening!Values
    PROVE  Opening!Filled(v, params) =
             IF Opening!IsTemplate(v, params) THEN params[v.text]
             ELSE [v EXCEPT !.parts = [i \in DOMAIN v.parts |-> Opening!Filled(v.parts[i], params)]]
<1> DEFINE N == MaxDepth
           P == Tree(N)
           Q == Tree(2 * N)
           Fill(f, w) == IF Opening!IsTemplate(w, params) THEN params[w.text]
                         ELSE [w EXCEPT !.parts = [i \in DOMAIN w.parts |-> f[w.parts[i]]]]
           Keeps(f) == \A n \in 0..N : \A w \in Tree(n) : f[w] \in Tree(n + N)
           M == {f \in [P -> Q] : Keeps(f)}
           start == [w \in P |-> w]
           body == [f \in M |-> [w \in P |-> Fill(f, w)]]
<1>0. N \in Nat /\ 2 * N \in Nat /\ 2 * N = N + N
  BY QueryAssumption
<1>1. \A n \in 0..N : Tree(n) \subseteq P /\ Tree(n) \subseteq Tree(n + N) /\ P \subseteq Tree(n + N) /\ Tree(n + N) \subseteq Q
  <2> SUFFICES ASSUME NEW n \in 0..N
               PROVE  Tree(n) \subseteq P /\ Tree(n) \subseteq Tree(n + N) /\ P \subseteq Tree(n + N) /\ Tree(n + N) \subseteq Q
    OBVIOUS
  <2>1. n \in Nat /\ n + N \in Nat /\ n <= N /\ n <= n + N /\ N <= n + N /\ n + N <= 2 * N
    BY <1>0
  <2>2. QED
    BY <1>0, <2>1, LevelsGrow DEF Tree
<1>2. Tree(0) = {}
  BY LevelsAreBuilt DEF Tree
<1>3. \A name \in DOMAIN params : params[name] \in P
  BY ValuesAreJson
<1> HIDE DEF P, Q
<1>4. start \in M
  <2>1. N \in 0..N
    BY <1>0
  <2>2. P \subseteq Q
    BY <1>1, <2>1
  <2>3. QED
    BY <1>1, <2>2
<1>5. ASSUME NEW f \in M PROVE [w \in P |-> Fill(f, w)] \in M
  <2> DEFINE g == [w \in P |-> Fill(f, w)]
  <2>1. ASSUME NEW n \in 0..N, NEW w \in Tree(n) PROVE Fill(f, w) \in Tree(n + N)
    <3>1. n # 0 /\ n - 1 \in Nat /\ n - 1 \in 0..N /\ (n - 1) + 1 = n
      BY <1>0, <1>2, <2>1
    <3> DEFINE k == n - 1
               parts == [i \in DOMAIN w.parts |-> f[w.parts[i]]]
    <3>2. w \in Tree(k + 1) /\ k \in Nat /\ k \in 0..N /\ n = k + 1 /\ k + N \in Nat /\ n + N = (k + N) + 1
      BY <1>0, <3>1
    <3> HIDE DEF k
    <3>3. \A u \in Tree(k) : f[u] \in Tree(k + N)
      BY <3>2
    <3>4. CASE Opening!IsTemplate(w, params)
      BY <1>1, <1>3, <3>4 DEF Opening!IsTemplate
    <3>5. CASE ~Opening!IsTemplate(w, params)
      <4>1. \A i \in DOMAIN w.parts : w.parts[i] \in Tree(k)
        BY <3>2, PartsOfAValue DEF Tree
      <4>2. CanReplace(parts, w, Tree(k + N))
        BY <3>3, <4>1 DEF CanReplace
      <4> HIDE DEF parts
      <4>3. [w EXCEPT !.parts = parts] \in Tree((k + N) + 1)
        BY <3>2, <4>2, OtherParts DEF Tree
      <4>4. QED
        BY <3>2, <3>5, <4>3 DEF parts
    <3>6. QED
      BY <3>4, <3>5
  <2>2. N \in 0..N /\ Tree(N) = P
    BY <1>0 DEF P
  <2> HIDE DEF Fill
  <2>3. \A w \in P : Fill(f, w) \in Q
    BY <1>1, <2>1, <2>2
  <2>4. g \in [P -> Q]
    BY <2>3
  <2>5. Keeps(g)
    BY <1>1, <2>1
  <2> HIDE DEF g, Keeps
  <2>6. g \in M
    BY <2>4, <2>5
  <2>7. QED
    BY <2>6 DEF g
<1>6. body \in [M -> M]
  <2> HIDE DEF M, Fill
  <2>1. QED
    BY <1>5
<1>7. ASSUME NEW f \in M, NEW g \in M, NEW n \in 0..(N - 1), \A w \in Tree(n) : f[w] = g[w], NEW w \in Tree(n + 1)
      PROVE  body[f][w] = body[g][w]
  <2>1. w \in P /\ \A i \in DOMAIN w.parts : w.parts[i] \in Tree(n)
    BY <1>0, OneLevelDown DEF P
  <2>2. \A i \in DOMAIN w.parts : f[w.parts[i]] = g[w.parts[i]]
    BY <1>7, <2>1
  <2>3. [i \in DOMAIN w.parts |-> f[w.parts[i]]] = [i \in DOMAIN w.parts |-> g[w.parts[i]]]
    BY <2>2
  <2>4. Fill(f, w) = Fill(g, w)
    BY <2>3
  <2> HIDE DEF Fill
  <2>5. QED
    BY <2>1, <2>4
<1>8. \A f \in M : body[f] = [w \in P |-> Fill(f, w)] /\ f = [w \in P |-> f[w]]
  OBVIOUS
<1> HIDE DEF M, body, start, Fill
<1>9. IsRecursion(Opening!Braces, N, M, body)
  <2>1. \A f \in M : f = [w \in Js!JsonValues(Opening!Braces, N) |-> f[w]]
    BY <1>8 DEF Tree, P
  <2>2. \A f, g \in M, n \in 0..(N - 1) :
           (\A w \in Js!JsonValues(Opening!Braces, n) : f[w] = g[w])
             => \A w \in Js!JsonValues(Opening!Braces, n + 1) : body[f][w] = body[g][w]
    BY <1>7 DEF Tree
  <2>3. QED
    BY <1>4, <1>6, <2>1, <2>2 DEF IsRecursion
<1>10. PICK f \in M : f = body[f]
  BY <1>0, <1>9, RecursionOnJson
<1> DEFINE IsFilled(h) == h = [w \in Opening!Values |-> Fill(h, w)]
           filled == CHOOSE h : IsFilled(h)
<1>11. IsFilled(f)
  BY <1>8, <1>10, ValuesAreJson DEF P
<1>12. IsFilled(filled)
  BY <1>11, Zenon
<1>13. \A w : Opening!Filled(w, params) = filled[w]
  BY DEF Opening!Filled, Fill
<1> HIDE DEF filled
<1>14. filled[v] = Fill(filled, v)
  BY <1>12
<1>15. QED
  BY <1>13, <1>14 DEF Fill

\* A payload whose templates all resolve has none once they are filled in.
LEMMA FilledIsResolved ==
    ASSUME NEW params, \A name \in DOMAIN params : params[name] \in Opening!Values,
           NEW v \in Opening!Values, Opening!Resolves(v, params)
    PROVE  ~Opening!Braced(Opening!Filled(v, params))
<1> DEFINE N == MaxDepth
           Right(n) == \A w \in Tree(n) : Opening!Resolves(w, params) =>
                         /\ Opening!Filled(w, params) \in Tree(n + N)
                         /\ ~Opening!Braced(Opening!Filled(w, params))
           E == {n \in Nat : n <= N => Right(n)}
<1>0. N \in Nat /\ 2 * N = N + N
  BY QueryAssumption
<1>1. 0 \in E
  <2>1. Tree(0) = {}
    BY LevelsAreBuilt DEF Tree
  <2>2. QED
    BY <2>1
<1>2. ASSUME NEW n \in Nat, n \in E PROVE n + 1 \in E
  <2> SUFFICES ASSUME n + 1 <= N, NEW w \in Tree(n + 1), Opening!Resolves(w, params)
               PROVE  /\ Opening!Filled(w, params) \in Tree((n + 1) + N)
                      /\ ~Opening!Braced(Opening!Filled(w, params))
    OBVIOUS
  <2>1. Right(n)
    BY <1>0, <1>2
  <2>2. /\ Tree(n + 1) \subseteq Tree(N) /\ Tree(n) \subseteq Tree(N)
        /\ Tree(N) \subseteq Tree((n + 1) + N) /\ Tree((n + 1) + N) \subseteq Tree(2 * N)
        /\ Tree(N) \subseteq Tree(2 * N) /\ Tree(n + N) \subseteq Tree(2 * N) /\ (n + 1) + N = (n + N) + 1
    <3>1. /\ n + 1 \in Nat /\ n + 1 <= N /\ n <= N /\ (n + 1) + N \in Nat /\ N <= (n + 1) + N /\ (n + 1) + N <= 2 * N
          /\ 2 * N \in Nat /\ n + N \in Nat /\ n + N <= 2 * N /\ N <= 2 * N /\ (n + 1) + N = (n + N) + 1
      BY <1>0
    <3>2. QED
      BY <1>0, <3>1, LevelsGrow DEF Tree
  <2>3. w \in Opening!Values /\ \A name \in DOMAIN params : params[name] \in Tree(N)
    BY <2>2, ValuesAreJson
  <2>4. CASE Opening!IsTemplate(w, params)
    <3>1. Opening!Filled(w, params) = params[w.text]
      BY <2>3, <2>4, FilledGoes
    <3>2. w.text # "none" /\ w.text \in DOMAIN params
      BY <2>4 DEF Opening!IsTemplate
    <3>3. ~Opening!Braced(params[w.text])
      BY <2>3, <3>2, ResolvesGoes
    <3>4. QED
      BY <2>2, <2>3, <3>1, <3>2, <3>3
  <2>5. CASE ~Opening!IsTemplate(w, params)
    <3> DEFINE parts == [i \in DOMAIN w.parts |-> Opening!Filled(w.parts[i], params)]
               filled == [w EXCEPT !.parts = parts]
    <3>1. Opening!Filled(w, params) = filled
      BY <2>3, <2>5, FilledGoes
    <3>2. w.text = "none" /\ \A i \in DOMAIN w.parts : Opening!Resolves(w.parts[i], params)
      BY <2>3, <2>5, ResolvesGoes
    <3>3. \A i \in DOMAIN w.parts : w.parts[i] \in Tree(n)
      BY PartsOfAValue DEF Tree
    <3>4. \A i \in DOMAIN w.parts : parts[i] \in Tree(n + N) /\ ~Opening!Braced(parts[i])
      BY <2>1, <3>2, <3>3
    <3>5. CanReplace(parts, w, Tree(n + N)) /\ DOMAIN parts = DOMAIN w.parts
      BY <3>4 DEF CanReplace
    <3> HIDE DEF parts
    <3>6. /\ filled \in Tree((n + N) + 1) /\ filled.text = w.text /\ filled.parts = parts
      <4>1. n + N \in Nat
        BY <1>0
      <4>2. QED
        BY <3>5, <4>1, OtherParts DEF Tree
    <3> HIDE DEF filled
    <3>7. filled \in Opening!Fillable
      BY <2>2, <3>6, ValuesAreJson
    <3>8. ~Opening!Braced(filled)
      BY <3>2, <3>4, <3>5, <3>6, <3>7, BracedGoes
    <3>9. QED
      BY <2>2, <3>1, <3>6, <3>8
  <2>6. QED
    BY <2>4, <2>5
<1> HIDE DEF E
<1>3. Nat \subseteq E
  BY <1>1, <1>2, SetInduction
<1>4. N \in E
  BY <1>0, <1>3
<1>5. QED
  BY <1>0, <1>4, ValuesAreJson DEF E

LEMMA PayloadsResolved ==
    ASSUME NEW doc, IsDocument(doc)
    PROVE  Opening!PayloadsAreResolved(doc)
<1> SUFFICES ASSUME Opening!Accepted(doc), NEW i \in DOMAIN doc.nodes
             PROVE  ~Opening!Braced(Opening!Payload(doc.nodes[i], Opening!Params(doc)))
  BY DEF Opening!PayloadsAreResolved
<1> DEFINE node == doc.nodes[i]
           params == Opening!Params(doc)
<1>1. /\ Opening!Given(doc.nodes) /\ doc.params # Bad
      /\ Opening!Node(node, params, Opening!Confirms(doc.policy))
  BY DEF Opening!Accepted, Opening!NodesAccepted
<1>2. \A name \in DOMAIN params : params[name] \in Opening!Values
  <2> DEFINE none == <<>>
  <2>1. DOMAIN none = {}
    OBVIOUS
  <2> HIDE DEF none
  <2>2. params = IF doc.params = Absent THEN none ELSE doc.params
    BY DEF none, Opening!Params, Opening!OrElse
  <2>3. doc.params # Absent => \A name \in DOMAIN doc.params : doc.params[name] \in Opening!Values
    BY <1>1 DEF IsDocument, Opening!Given
  <2>4. QED
    BY <2>1, <2>2, <2>3
<1> HIDE DEF params
<1>3. CASE node.with = Absent
  <2> DEFINE start == <<>>
             value == Opening!Obj(start, start)
  <2>1. start \in Seq(STRING) /\ start \in Seq(Tree(0)) /\ DOMAIN start = {}
    OBVIOUS
  <2> HIDE DEF start
  <2>2. value = [t |-> "object", text |-> "none", keys |-> start, parts |-> start]
    BY DEF Opening!Obj, Opening!Value
  <2> HIDE DEF value
  <2>3. value \in Deeper(Opening!Braces, Tree(0))
    <3>1. "object" \in Js!Types /\ "none" \in Opening!Braces
      BY DEF Js!Types, Opening!Braces
    <3> DEFINE S == Seq(Tree(0))
               object == "object"
               none == "none"
    <3>2. object \in Js!Types /\ none \in Opening!Braces /\ start \in Seq(STRING) /\ start \in S
      BY <2>1, <3>1
    <3>3. value = [t |-> object, text |-> none, keys |-> start, parts |-> start]
      BY <2>2
    <3> HIDE DEF S, object, none
    <3>4. value \in [t : Js!Types, text : Opening!Braces, keys : Seq(STRING), parts : S]
      BY <3>2, <3>3
    <3>5. QED
      BY <3>4 DEF Deeper, S
  <2>4. value \in Tree(0 + 1)
    BY <2>3, LevelsAreBuilt DEF Tree
  <2>5. 0 + 1 \in Nat /\ 2 * MaxDepth \in Nat /\ 0 + 1 <= 2 * MaxDepth
    BY QueryAssumption
  <2>6. value \in Opening!Fillable
    BY <2>4, <2>5, ValuesAreJson, LevelsGrow DEF Tree
  <2>7. ~Opening!Braced(value)
    BY <2>1, <2>2, <2>6, BracedGoes
  <2>8. Opening!Payload(node, params) = value
    BY <1>3 DEF Opening!Payload, value, start
  <2>9. QED
    BY <2>7, <2>8 DEF params
<1>4. CASE node.with # Absent
  <2>1. node.with \in Opening!Values
    BY <1>1, <1>4 DEF IsDocument, Opening!Given, Opening!Node
  <2>2. Opening!Resolves(node.with, params)
    BY <1>1, <1>4 DEF Opening!Node
  <2>3. Opening!Payload(node, params) = Opening!Filled(node.with, params)
    BY <1>4 DEF Opening!Payload
  <2>4. ~Opening!Braced(Opening!Filled(node.with, params))
    BY <1>2, <2>1, <2>2, FilledIsResolved
  <2>5. QED
    BY <2>3, <2>4 DEF params
<1>5. QED
  BY <1>3, <1>4

LEMMA MailersConfirm ==
    ASSUME NEW doc
    PROVE  Opening!MailersConfirm(doc)
<1> SUFFICES ASSUME Opening!Accepted(doc), Opening!Confirms(doc.policy), NEW i \in DOMAIN doc.nodes,
                    Opening!IsMailer(doc.nodes[i])
             PROVE  ~Opening!TurnsOff(Opening!Payload(doc.nodes[i], Opening!Params(doc)))
  BY DEF Opening!MailersConfirm
<1>1. Opening!Node(doc.nodes[i], Opening!Params(doc), Opening!Confirms(doc.policy))
  BY DEF Opening!Accepted, Opening!NodesAccepted
<1>2. QED
  BY <1>1 DEF Opening!Node, Opening!Downgrades

-----------------------------------------------------------------------------
(* The port expressions *)

LEMMA SmallestIsIn ==
    ASSUME NEW T \in SUBSET Nat, T # {}
    PROVE  \E x \in T : \A y \in T : x <= y
<1>1. PICK x \in T : \A y \in T : <<y, x>> \notin OpToRel(<, Nat)
  BY NatLessThanWellFounded, WFMin
<1>2. \A y \in T : ~(y < x)
  BY <1>1, Less
<1>3. QED
  BY <1>2

LEMMA OperatorsDiffer ==
    /\ DOMAIN Opening!Operators = 1..6
    /\ \A k \in 1..6 : Opening!Operators[k] \in Opening!OperatorWords
    /\ \A word \in Opening!OperatorWords : \E k \in 1..6 : word = Opening!Operators[k]
    /\ \A word \in Opening!OperatorWords : word \notin {".", "'", "true", "false", "1", "2.5"}
<1>1. DOMAIN Opening!Operators = 1..6
  BY DEF Opening!Operators
<1>2. \A k \in 1..6 : Opening!Operators[k] \notin {".", "'", "true", "false", "1", "2.5"}
  BY DEF Opening!Operators
<1>3. QED
  BY <1>1, <1>2 DEF Opening!OperatorWords

LEMMA FirstIs ==
    ASSUME NEW W, NEW raw \in Seq(W), NEW word, NEW i \in 1..Len(raw), raw[i] = word,
           \A j \in 1..(i - 1) : raw[j] # word
    PROVE  Opening!FirstOf(raw, word) = i /\ Opening!Positions(raw, word) # {}
<1> DEFINE P == Opening!Positions(raw, word)
<1>1. Len(raw) \in Nat /\ DOMAIN raw = 1..Len(raw)
  BY LenProperties
<1>2. i \in P /\ \A j \in P : j \in 1..Len(raw) /\ i <= j
  BY <1>1 DEF Opening!Positions
<1> HIDE DEF P
<1> DEFINE c == CHOOSE j \in P : \A l \in P : j <= l
<1>3. c \in P /\ \A l \in P : c <= l
  BY <1>2
<1>3a. c = i
  <2> HIDE DEF c
  <2>1. c <= i /\ i <= c /\ i \in Nat /\ c \in Nat
    BY <1>1, <1>2, <1>3
  <2>2. QED
    BY <2>1
<1>4. QED
  BY <1>2, <1>3a DEF Opening!FirstOf, P

LEMMA CutOut ==
    ASSUME NEW W, NEW raw \in Seq(W), NEW p \in Nat, NEW q \in Nat, p + q <= Len(raw)
    PROVE  LET c == SubSeq(raw, p + 1, p + q)
           IN c \in Seq(W) /\ Len(c) = q /\ \A i \in 1..q : c[i] = raw[p + i]
<1> DEFINE lo == p + 1
           hi == p + q
           c == SubSeq(raw, lo, hi)
<1>1. Len(raw) \in Nat /\ lo \in Int /\ hi \in Int /\ hi - lo + 1 = q /\ lo >= 1 /\ hi <= Len(raw)
      /\ (lo <= hi <=> q # 0)
  BY LenProperties
<1>2. \A i \in 1..q : lo + i - 1 = p + i
  OBVIOUS
<1> HIDE DEF lo, hi
<1>3. \A i \in lo..hi : raw[i] \in W
  BY <1>1, ElementOfSeq
<1>4. /\ c \in Seq(W)
      /\ Len(c) = (IF lo <= hi THEN hi - lo + 1 ELSE 0)
      /\ \A i \in 1..(hi - lo + 1) : c[i] = raw[lo + i - 1]
  BY <1>1, <1>3, SubSeqProperties
<1> HIDE DEF c
<1>5. Len(c) = q /\ \A i \in 1..q : c[i] = raw[p + i]
  BY <1>1, <1>2, <1>4
<1>6. QED
  BY <1>4, <1>5 DEF c, lo, hi

\* A text around one of its words.
IsSplit(W, raw, a, x, b) ==
    /\ raw \in Seq(W) /\ Len(raw) = Len(a) + 1 + Len(b)
    /\ \A i \in 1..Len(a) : raw[i] = a[i]
    /\ raw[Len(a) + 1] = x
    /\ \A i \in 1..Len(b) : raw[Len(a) + 1 + i] = b[i]
    /\ Opening!Before(raw, Len(a) + 1) = a /\ Opening!After(raw, Len(a) + 1) = b

LEMMA SplitAt ==
    ASSUME NEW W, NEW a \in Seq(W), NEW b \in Seq(W), NEW x \in W
    PROVE  IsSplit(W, (a \o <<x>>) \o b, a, x, b)
<1> DEFINE raw == (a \o <<x>>) \o b
<1>0. raw = (a \o <<x>>) \o b
  OBVIOUS
<1> HIDE DEF raw
<1> DEFINE one == <<x>>
           m == Len(a)
           n == Len(b)
<1>1. one \in Seq(W) /\ Len(one) = 1 /\ one[1] = x
  OBVIOUS
<1>2. m \in Nat /\ n \in Nat
  BY LenProperties
<1> HIDE DEF one, m, n
<1>3. /\ a \o one \in Seq(W) /\ Len(a \o one) = m + 1
      /\ \A i \in 1..(m + 1) : (a \o one)[i] = IF i <= m THEN a[i] ELSE one[i - m]
  BY <1>1, ConcatProperties DEF m
<1>4. /\ raw \in Seq(W) /\ Len(raw) = (m + 1) + n
      /\ \A i \in 1..((m + 1) + n) : raw[i] = IF i <= m + 1 THEN (a \o one)[i] ELSE b[i - (m + 1)]
  <2> DEFINE c == a \o one
  <2>1. raw = c \o b /\ c \in Seq(W) /\ Len(c) = m + 1
    BY <1>0, <1>3 DEF one
  <2> HIDE DEF c
  <2>2. /\ c \o b \in Seq(W) /\ Len(c \o b) = Len(c) + n
        /\ \A i \in 1..(Len(c) + n) : (c \o b)[i] = IF i <= Len(c) THEN c[i] ELSE b[i - Len(c)]
    BY <2>1, ConcatProperties DEF n
  <2>3. QED
    BY <2>1, <2>2 DEF c
<1> DEFINE c == a \o one
<1>5. /\ c \in Seq(W) /\ \A i \in 1..(m + 1) : c[i] = IF i <= m THEN a[i] ELSE one[i - m]
      /\ \A i \in 1..((m + 1) + n) : raw[i] = IF i <= m + 1 THEN c[i] ELSE b[i - (m + 1)]
  BY <1>3, <1>4
<1> HIDE DEF c
<1>6. /\ \A i \in 1..m : raw[i] = a[i]
      /\ raw[m + 1] = x
      /\ \A i \in 1..n : raw[m + 1 + i] = b[i]
  <2>1. ASSUME NEW i \in 1..m PROVE raw[i] = a[i]
    <3>1. i \in 1..(m + 1) /\ i \in 1..((m + 1) + n) /\ i <= m /\ i <= m + 1
      BY <1>2
    <3>2. raw[i] = c[i] /\ c[i] = a[i]
      BY <1>5, <3>1
    <3>3. QED
      BY <3>2
  <2>2. raw[m + 1] = x
    <3>1. m + 1 \in 1..(m + 1) /\ m + 1 \in 1..((m + 1) + n) /\ ~(m + 1 <= m) /\ (m + 1) - m = 1
      BY <1>2
    <3>2. raw[m + 1] = c[m + 1]
      BY <1>5, <3>1
    <3>3. c[m + 1] = one[(m + 1) - m]
      BY <1>5, <3>1
    <3>4. QED
      BY <1>1, <3>1, <3>2, <3>3
  <2>3. ASSUME NEW i \in 1..n PROVE raw[m + 1 + i] = b[i]
    <3>1. m + 1 + i \in 1..((m + 1) + n) /\ ~(m + 1 + i <= m + 1) /\ (m + 1 + i) - (m + 1) = i
      BY <1>2
    <3>2. QED
      BY <1>5, <3>1
  <2>4. QED
    BY <2>1, <2>2, <2>3
<1>7. Len(raw) = m + 1 + n
  BY <1>2, <1>4
<1>8. Opening!Before(raw, m + 1) = a
  <2> DEFINE s == SubSeq(raw, 0 + 1, 0 + m)
  <2>1. s \in Seq(W) /\ Len(s) = m /\ \A i \in 1..m : s[i] = raw[0 + i]
    BY <1>2, <1>4, <1>7, CutOut
  <2> HIDE DEF s
  <2>2. ASSUME NEW i \in 1..m PROVE s[i] = a[i]
    <3>1. 0 + i = i
      BY <1>2
    <3>2. s[i] = raw[0 + i] /\ raw[i] = a[i]
      BY <1>6, <2>1
    <3>3. QED
      BY <3>1, <3>2
  <2>3. s = a
    BY <2>1, <2>2, SeqEqual DEF m
  <2>4. (m + 1) - 1 = 0 + m /\ 0 + 1 = 1
    BY <1>2
  <2>5. QED
    BY <2>3, <2>4 DEF s, Opening!Before
<1>9. Opening!After(raw, m + 1) = b
  <2> DEFINE p == m + 1
             s == SubSeq(raw, p + 1, p + n)
  <2>0. p \in Nat
    BY <1>2
  <2> HIDE DEF p
  <2>1. s \in Seq(W) /\ Len(s) = n /\ \A i \in 1..n : s[i] = raw[p + i]
    BY <1>2, <1>4, <1>7, <2>0, CutOut DEF p
  <2> HIDE DEF s
  <2>2. \A i \in 1..n : s[i] = b[i]
    BY <1>6, <2>1 DEF p
  <2>3. s = b
    BY <2>1, <2>2, SeqEqual DEF n
  <2>4. QED
    BY <1>7, <2>3 DEF s, p, Opening!After
<1>10. QED
  BY <1>2, <1>4, <1>6, <1>7, <1>8, <1>9 DEF m, n, raw, IsSplit

\* The rest of a quoted literal after an operator in it is no literal.
LEMMA NoLiteralWithin ==
    ASSUME NEW W, NEW literal \in Seq(W), Opening!Literal(literal) # Bad,
           \A i \in 2..(Len(literal) - 1) : literal[i] # "'",
           NEW j \in 1..Len(literal), literal[j] \in Opening!OperatorWords,
           NEW rest, Len(rest) = Len(literal) - j, \A i \in 1..(Len(literal) - j) : rest[i] = literal[j + i]
    PROVE  Opening!Literal(rest) = Bad
<1> DEFINE l == Len(literal)
<1>1. l \in Nat
  BY LenProperties
<1>2. ~(l = 1 /\ literal[1] \in {"true", "false", "1", "2.5"})
  BY <1>1, OperatorsDiffer
<1>3. l > 1 /\ literal[1] = "'" /\ literal[l] = "'"
  BY <1>2 DEF Opening!Literal
<1>4. j # 1 /\ j # l
  BY <1>3, OperatorsDiffer
<1>5. l - j \in Nat /\ l - j >= 1 /\ rest[1] = literal[j + 1]
  BY <1>1, <1>4
<1>6. CASE l - j = 1
  <2>1. Len(rest) = 1 /\ rest[1] = "'"
    BY <1>1, <1>3, <1>5, <1>6
  <2>2. rest[1] \notin {"true", "false", "1", "2.5"}
    BY <2>1
  <2>3. ~(Len(rest) > 1)
    BY <2>1
  <2>4. QED
    BY <2>2, <2>3 DEF Opening!Literal
<1>7. CASE l - j > 1
  <2>1. Len(rest) > 1 /\ j + 1 \in 2..(l - 1)
    BY <1>1, <1>4, <1>7
  <2>2. rest[1] # "'"
    BY <1>5, <2>1
  <2>3. Len(rest) # 1
    BY <2>1
  <2>4. QED
    BY <2>1, <2>2, <2>3 DEF Opening!Literal
<1>8. QED
  BY <1>5, <1>6, <1>7

LEMMA ExpressionsRead ==
    ASSUME NEW e, IsExpression(e)
    PROVE  Opening!ReadAsWritten(e.node, e.port, e.op, e.literal)
<1> DEFINE W == STRING \cup {"."} \cup Opening!OperatorWords
           node == e.node
           port == e.port
           op == e.op
           literal == e.literal
           ref == (node \o <<".">>) \o port
           raw == (ref \o <<op>>) \o literal
           m == Len(ref)
<1>1. /\ node \in Seq(STRING) /\ node # <<>> /\ \A i \in DOMAIN node : node[i] \notin Opening!OperatorWords
      /\ port \in Seq(STRING) /\ port # <<>> /\ \A i \in DOMAIN port : port[i] \notin Opening!OperatorWords
      /\ op \in Opening!OperatorWords
      /\ \A i \in DOMAIN node : node[i] # "."
      /\ literal \in Seq(STRING) /\ Opening!Literal(literal) # Bad
      /\ \A i \in 2..(Len(literal) - 1) : literal[i] # "'"
  BY DEF IsExpression
<1> HIDE DEF node, port, op, literal
<1>2. /\ node \in Seq(W) /\ port \in Seq(W) /\ literal \in Seq(W) /\ "." \in W /\ op \in W
      /\ DOMAIN node = 1..Len(node) /\ DOMAIN port = 1..Len(port) /\ DOMAIN literal = 1..Len(literal)
      /\ Len(node) \in Nat \ {0} /\ Len(port) \in Nat \ {0} /\ Len(literal) \in Nat
  <2>1. Seq(STRING) \subseteq Seq(W)
    BY SeqMonotonic
  <2>2. QED
    BY <1>1, <2>1, LenProperties, EmptySeq
<1> HIDE DEF W
<1>3. /\ ref \in Seq(W) /\ Len(ref) = Len(node) + 1 + Len(port)
      /\ \A i \in 1..Len(node) : ref[i] = node[i]
      /\ ref[Len(node) + 1] = "."
      /\ \A i \in 1..Len(port) : ref[Len(node) + 1 + i] = port[i]
      /\ Opening!Before(ref, Len(node) + 1) = node /\ Opening!After(ref, Len(node) + 1) = port
  <2> DEFINE dot == "."
  <2>1. ref = (node \o <<dot>>) \o port /\ dot \in W
    BY <1>2
  <2> HIDE DEF dot
  <2>2. IsSplit(W, ref, node, dot, port)
    BY <1>2, <2>1, SplitAt
  <2>3. QED
    BY <2>2 DEF dot, IsSplit
<1> HIDE DEF ref
<1>4. m \in Nat /\ m = Len(node) + 1 + Len(port)
  BY <1>2, <1>3
<1>5. /\ raw \in Seq(W) /\ Len(raw) = m + 1 + Len(literal)
      /\ \A i \in 1..m : raw[i] = ref[i]
      /\ raw[m + 1] = op
      /\ \A i \in 1..Len(literal) : raw[m + 1 + i] = literal[i]
      /\ Opening!Before(raw, m + 1) = ref /\ Opening!After(raw, m + 1) = literal
  <2>1. IsSplit(W, raw, ref, op, literal)
    BY <1>2, <1>3, SplitAt
  <2> HIDE DEF raw
  <2>2. QED
    BY <2>1 DEF IsSplit
<1> HIDE DEF raw, m
<1>6. \A i \in 1..m : ref[i] \notin Opening!OperatorWords
  <2> SUFFICES ASSUME NEW i \in 1..m PROVE ref[i] \notin Opening!OperatorWords
    OBVIOUS
  <2>1. CASE i <= Len(node)
    <3>1. i \in 1..Len(node)
      BY <1>2, <1>4, <2>1
    <3>2. QED
      BY <1>1, <1>2, <1>3, <3>1
  <2>2. CASE i = Len(node) + 1
    BY <1>3, <2>2, OperatorsDiffer
  <2>3. CASE i > Len(node) + 1
    <3>1. i - (Len(node) + 1) \in 1..Len(port) /\ i = Len(node) + 1 + (i - (Len(node) + 1))
      BY <1>2, <1>4, <2>3
    <3>2. ref[i] = port[i - (Len(node) + 1)]
      BY <1>3, <3>1
    <3>3. QED
      BY <1>1, <1>2, <3>1, <3>2
  <2>4. QED
    BY <1>2, <1>4, <2>1, <2>2, <2>3
<1> DEFINE found == {k \in DOMAIN Opening!Operators : Opening!Positions(raw, Opening!Operators[k]) # {}}
           k == CHOOSE k \in found : \A l \in found : k <= l
           word == Opening!Operators[k]
           at == Opening!FirstOf(raw, word)
           left == Opening!PortReference(Opening!Before(raw, at))
           right == Opening!Literal(Opening!After(raw, at))
           read == Opening!PortPredicate(raw)
<1>7. found # {} /\ found \subseteq Nat
  <2>1. PICK o \in 1..6 : op = Opening!Operators[o]
    BY <1>1, OperatorsDiffer
  <2>2. m + 1 \in 1..Len(raw) /\ DOMAIN raw = 1..Len(raw)
    BY <1>2, <1>4, <1>5, LenProperties
  <2>3. m + 1 \in Opening!Positions(raw, op)
    BY <1>5, <2>2 DEF Opening!Positions
  <2>4. QED
    BY <2>1, <2>3, OperatorsDiffer
<1>8. k \in found
  <2> HIDE DEF found
  <2>1. \E o \in found : \A l \in found : o <= l
    BY <1>7, SmallestIsIn
  <2>2. QED
    BY <2>1
<1>9. read = IF left = Bad \/ right = Bad THEN [ref |-> Bad, op |-> Absent, literal |-> Absent]
             ELSE [ref |-> left, op |-> word, literal |-> right]
  BY <1>7 DEF Opening!PortPredicate
<1>10. word \in Opening!OperatorWords /\ Opening!Positions(raw, word) # {}
  BY <1>8, OperatorsDiffer
<1> HIDE DEF k, found, read
<1>11. PICK i \in 1..Len(raw) : raw[i] = word /\ \A j \in 1..(i - 1) : raw[j] # word
  <2> DEFINE P == Opening!Positions(raw, word)
  <2>1. DOMAIN raw = 1..Len(raw) /\ Len(raw) \in Nat
    BY <1>5, LenProperties
  <2>2. P \in SUBSET Nat /\ P # {} /\ \A j \in P : j \in 1..Len(raw) /\ raw[j] = word
    BY <1>10, <2>1 DEF Opening!Positions
  <2>3. \A j \in 1..Len(raw) : raw[j] = word => j \in P
    BY <2>1 DEF Opening!Positions
  <2> HIDE DEF P
  <2>4. PICK i \in P : \A j \in P : i <= j
    BY <2>2, SmallestIsIn
  <2>5. i \in 1..Len(raw) /\ raw[i] = word /\ \A j \in 1..(i - 1) : raw[j] # word
    BY <2>1, <2>2, <2>3, <2>4
  <2>6. QED
    BY <2>5
<1>12. at = i
  <2> HIDE DEF word
  <2>1. QED
    BY <1>5, <1>11, FirstIs
<1>13. i > m
  BY <1>4, <1>5, <1>6, <1>10, <1>11
\* The operator is read where it was written.
<1>14. CASE i = m + 1
  <2>1. word = op
    BY <1>5, <1>11, <1>14
  <2>2. Opening!Before(raw, at) = ref /\ Opening!After(raw, at) = literal
    BY <1>5, <1>12, <1>14
  <2>3. Opening!FirstOf(ref, ".") = Len(node) + 1 /\ Opening!Positions(ref, ".") # {}
    <3>1. Len(node) + 1 \in 1..Len(ref) /\ \A j \in 1..((Len(node) + 1) - 1) : ref[j] # "."
      BY <1>1, <1>2, <1>3
    <3>2. QED
      BY <1>3, <3>1, FirstIs
  <2>4. Len(node) + 1 \notin {1, Len(ref)}
    BY <1>2, <1>3
  <2>5. Opening!PortReference(ref) = [node |-> node, port |-> port]
    BY <1>3, <2>3, <2>4 DEF Opening!PortReference
  <2>6. Opening!Literal(literal) = literal
    BY <1>1 DEF Opening!Literal
  <2>7. left = [node |-> node, port |-> port] /\ right = literal /\ right # Bad
    BY <1>1, <2>2, <2>5, <2>6
  <2>8. left # Bad
    BY <1>1, <2>7, OpeningAssumption
  <2> HIDE DEF left, right, word
  <2>9. read = [ref |-> [node |-> node, port |-> port], op |-> op, literal |-> literal]
    BY <1>9, <2>1, <2>7, <2>8
  <2>10. QED
    BY <2>9 DEF Opening!ReadAsWritten, read, raw, ref, node, port, op, literal
\* An operator of the literal is taken for it.
<1>15. CASE i > m + 1
  <2> DEFINE j == i - (m + 1)
             rest == Opening!After(raw, at)
  <2>1. j \in 1..Len(literal) /\ i = m + 1 + j
    BY <1>2, <1>4, <1>5, <1>15
  <2>2. literal[j] = word /\ literal[j] \in Opening!OperatorWords
    BY <1>5, <1>10, <1>11, <2>1
  <2>3. Len(rest) = Len(literal) - j /\ \A o \in 1..(Len(literal) - j) : rest[o] = literal[j + o]
    <3> DEFINE q == Len(literal) - j
               s == SubSeq(raw, i + 1, i + q)
    <3>1. i \in Nat /\ q \in Nat /\ i + q = Len(raw)
      BY <1>2, <1>4, <1>5, <2>1
    <3>2. rest = s
      BY <1>12, <3>1 DEF Opening!After
    <3>3. \A o \in 1..q : raw[i + o] = literal[j + o]
      <4> SUFFICES ASSUME NEW o \in 1..q PROVE raw[i + o] = literal[j + o]
        OBVIOUS
      <4>1. i + o = m + 1 + (j + o) /\ j + o \in 1..Len(literal)
        BY <1>2, <1>4, <2>1
      <4>2. QED
        BY <1>5, <4>1
    <3> HIDE DEF q, rest
    <3>4. Len(s) = q /\ \A o \in 1..q : s[o] = raw[i + o]
      BY <1>5, <3>1, CutOut
    <3> HIDE DEF s
    <3>5. QED
      BY <3>2, <3>3, <3>4 DEF q
  <2> HIDE DEF rest, j
  <2>4. Opening!Literal(rest) = Bad
    BY <1>1, <1>2, <2>1, <2>2, <2>3, NoLiteralWithin
  <2>5. read.ref = Bad
    <3>1. right = Bad
      BY <2>4 DEF rest
    <3> HIDE DEF left, right, word
    <3>2. QED
      BY <1>9, <3>1
  <2>6. \E o \in DOMAIN Opening!Operators : Opening!Positions(literal, Opening!Operators[o]) # {}
    <3>1. j \in Opening!Positions(literal, word)
      BY <1>2, <2>1, <2>2 DEF Opening!Positions
    <3>2. k \in DOMAIN Opening!Operators
      BY <1>8 DEF found
    <3>3. QED
      BY <3>1, <3>2
  <2>7. QED
    BY <2>5, <2>6 DEF Opening!ReadAsWritten, read, raw, ref, node, port, op, literal
<1>16. QED
  BY <1>4, <1>11, <1>13, <1>14, <1>15

\* An accepted opening has its parameters put in wherever they are named and no mailer
\* without confirmation where its policy asks for one, and its expressions are read as
\* written, whatever YAML it is (parse_opening_str, apply_param_templates,
\* parse_port_predicate).
THEOREM OpeningsSafe == TablesSpec => []OpeningsAreSafe
<1> DEFINE Inv == /\ case.table = "opening" => case.in \in Documents
                  /\ case.table = "expression" => case.in \in Expressions
<1>1. TablesInit => Inv
  BY DEF TablesInit
<1>2. Inv /\ [TablesNext]_case => Inv'
  BY DEF TablesNext, Input
<1>3. Inv => OpeningsAreSafe
  <2> SUFFICES ASSUME Inv PROVE OpeningsAreSafe
    OBVIOUS
  <2>1. CASE case.table = "opening"
    <3>1. IsDocument(case.in)
      BY <2>1, OpeningAssumption
    <3>2. Opening!PayloadsAreResolved(case.in) /\ Opening!MailersConfirm(case.in)
      BY <3>1, PayloadsResolved, MailersConfirm
    <3>3. QED
      BY <2>1, <3>2 DEF OpeningsAreSafe
  <2>2. CASE case.table = "expression"
    <3>1. IsExpression(case.in)
      BY <2>2, OpeningAssumption
    <3>2. QED
      BY <2>2, <3>1, ExpressionsRead DEF OpeningsAreSafe
  <2>3. QED
    BY <2>1, <2>2 DEF OpeningsAreSafe
<1>4. QED
  BY <1>1, <1>2, <1>3, PTL DEF TablesSpec

-----------------------------------------------------------------------------
(* The agents of a run *)

\* What an agent's description is of.
LEMMA DescribedIsBuilt ==
    ASSUME NEW dirs, NEW ref, Reg!Describe(dirs, ref) # Absent
    PROVE  LET m == Reg!FindManifest(dirs, ref)
           IN /\ Reg!Describe(dirs, ref) = Reg!Described(m, ref) /\ Reg!Builds(m, ref) /\ m # Absent
              /\ Reg!Describe(dirs, ref).reference.name = ref.name
              /\ Reg!Describe(dirs, ref).digest = m
  BY DEF Reg!Describe, Reg!Described, Reg!Builds

\* The agents of a list that are described: one for each reference, first come first.
IsDescribed(list, dirs, refs, n) ==
    /\ list \in Seq({Reg!Describe(dirs, refs[i]) : i \in 1..n})
    /\ \A i \in 1..n : \E k \in 1..Len(list) : list[k] = Reg!Describe(dirs, refs[i])
    /\ \E from \in [1..Len(list) -> 1..n] :
         /\ \A k \in 1..Len(list) : list[k] = Reg!Describe(dirs, refs[from[k]])
         /\ \A j, k \in 1..Len(list) : j < k => refs[from[j]] # refs[from[k]]

LEMMA OneMoreDescribed ==
    ASSUME NEW dirs, NEW refs, NEW n \in Nat, NEW list, IsDescribed(list, dirs, refs, n)
    PROVE  IsDescribed(IF \E j \in 1..n : refs[j] = refs[n + 1] THEN list
                       ELSE Append(list, Reg!Describe(dirs, refs[n + 1])), dirs, refs, n + 1)
<1> DEFINE D(i) == Reg!Describe(dirs, refs[i])
           T(m) == {D(i) : i \in 1..m}
           L == Len(list)
<1> HIDE DEF D
<1>1. list \in Seq(T(n)) /\ L \in Nat
  BY LenProperties DEF IsDescribed, D
<1>2. \A i \in 1..n : \E k \in 1..L : list[k] = D(i)
  BY DEF IsDescribed, D
<1>3. PICK from \in [1..L -> 1..n] :
         /\ \A k \in 1..L : list[k] = D(from[k])
         /\ \A j, k \in 1..L : j < k => refs[from[j]] # refs[from[k]]
  BY DEF IsDescribed, D
<1>4. T(n) \subseteq T(n + 1) /\ D(n + 1) \in T(n + 1)
  OBVIOUS
<1>5. \A i : i \in 1..(n + 1) <=> i \in 1..n \/ i = n + 1
  OBVIOUS
<1> HIDE DEF T
<1>6. list \in Seq(T(n + 1))
  BY <1>1, <1>4, SeqMonotonic
<1>7. CASE \E j \in 1..n : refs[j] = refs[n + 1]
  <2>1. PICK j \in 1..n : refs[j] = refs[n + 1]
    BY <1>7
  <2>2. D(n + 1) = D(j)
    BY <2>1 DEF D
  <2>3. \A i \in 1..(n + 1) : \E k \in 1..L : list[k] = D(i)
    BY <1>2, <1>5, <2>2
  <2>4. from \in [1..L -> 1..(n + 1)]
    BY <1>3, <1>5
  <2>5. QED
    BY <1>3, <1>6, <1>7, <2>3, <2>4 DEF IsDescribed, D, T
<1>8. CASE ~\E j \in 1..n : refs[j] = refs[n + 1]
  <2> DEFINE more == Append(list, D(n + 1))
             source == [k \in 1..(L + 1) |-> IF k = L + 1 THEN n + 1 ELSE from[k]]
  <2>1. /\ more \in Seq(T(n + 1)) /\ Len(more) = L + 1
        /\ \A k \in 1..L : more[k] = list[k]
        /\ more[L + 1] = D(n + 1)
    BY <1>4, <1>6, AppendProperties
  <2>2. /\ source \in [1..(L + 1) -> 1..(n + 1)] /\ source[L + 1] = n + 1
        /\ \A k \in 1..L : source[k] = from[k]
    BY <1>1, <1>3, <1>5
  <2>3. \A k : k \in 1..(L + 1) <=> k \in 1..L \/ k = L + 1
    BY <1>1
  <2> HIDE DEF more, source, L
  <2>4. \A k \in 1..(L + 1) : more[k] = D(source[k])
    BY <1>3, <2>1, <2>2, <2>3
  <2>5. ASSUME NEW j \in 1..(L + 1), NEW k \in 1..(L + 1), j < k
        PROVE  refs[source[j]] # refs[source[k]]
    <3>1. j \in 1..L /\ source[j] = from[j] /\ from[j] \in 1..n
      BY <1>1, <1>3, <2>2, <2>5
    <3>2. CASE k \in 1..L
      BY <1>3, <2>2, <2>5, <3>1, <3>2
    <3>3. CASE k = L + 1
      BY <1>8, <2>2, <3>1, <3>3
    <3>4. QED
      BY <2>3, <3>2, <3>3
  <2>6. \A i \in 1..(n + 1) : \E k \in 1..(L + 1) : more[k] = D(i)
    <3>1. ASSUME NEW i \in 1..n PROVE \E k \in 1..(L + 1) : more[k] = D(i)
      BY <1>2, <2>1, <2>3
    <3>2. QED
      BY <1>5, <2>1, <2>3, <3>1
  <2>7. IsDescribed(more, dirs, refs, n + 1)
    <3>1. \E s \in [1..Len(more) -> 1..(n + 1)] :
            /\ \A k \in 1..Len(more) : more[k] = D(s[k])
            /\ \A j, k \in 1..Len(more) : j < k => refs[s[j]] # refs[s[k]]
      <4>1. source \in [1..Len(more) -> 1..(n + 1)]
        BY <2>1, <2>2
      <4> WITNESS source \in [1..Len(more) -> 1..(n + 1)]
      <4>2. QED
        BY <2>1, <2>4, <2>5
    <3>2. QED
      BY <2>1, <2>6, <3>1 DEF IsDescribed, D, T
  <2>8. QED
    BY <1>8, <2>7 DEF more, D
<1>9. QED
  BY <1>7, <1>8

LEMMA ManyAreDescribed ==
    ASSUME NEW dirs, NEW S, NEW refs \in Seq(S), Reg!DescribeMany(dirs, refs) # Absent
    PROVE  /\ \A i \in DOMAIN refs : Reg!Describe(dirs, refs[i]) # Absent
           /\ IsDescribed(Reg!DescribeMany(dirs, refs), dirs, refs, Len(refs))
<1> DEFINE N == Len(refs)
           start == <<>>
           Seen(i) == \E j \in 1..(i - 1) : refs[j] = refs[i]
           Step(list, i) == IF Seen(i) THEN list ELSE Append(list, Reg!Describe(dirs, refs[i]))
           Holds(f, m) == f = [i \in 0..m |-> IF i = 0 THEN start ELSE IF Seen(i) THEN f[i - 1] ELSE Append(f[i - 1], Reg!Describe(dirs, refs[i]))]
<1>1. N \in Nat /\ DOMAIN refs = 1..N
  BY LenProperties
<1>2. \A f, m : Holds(f, m) <=> f = [i \in 0..m |-> IF i = 0 THEN start ELSE Step(f[i - 1], i)]
  OBVIOUS
<1>3. \E f : Holds(f, N)
  <2> DEFINE E == {m \in Nat : \E f : Holds(f, m)}
  <2> HIDE DEF Holds, Step, start
  <2>1. 0 \in E
    <3> DEFINE f == [k \in 0..0 |-> start]
    <3>1. f = [i \in 0..0 |-> IF i = 0 THEN start ELSE Step(f[i - 1], i)]
      OBVIOUS
    <3> HIDE DEF f
    <3>2. Holds(f, 0)
      BY <1>2, <3>1
    <3>3. QED
      BY <3>2
  <2>2. ASSUME NEW m \in Nat, m \in E PROVE m + 1 \in E
    <3>1. PICK f : Holds(f, m)
      BY <2>2
    <3>2. \A k \in 0..m : f[k] = IF k = 0 THEN start ELSE Step(f[k - 1], k)
      BY <1>2, <3>1
    <3> DEFINE more == [k \in 0..(m + 1) |-> IF k = m + 1 THEN Step(f[m], m + 1) ELSE f[k]]
    <3>3. \A k \in 0..(m + 1) : more[k] = IF k = 0 THEN start ELSE Step(more[k - 1], k)
      BY <3>2
    <3>4. more = [k \in 0..(m + 1) |-> more[k]]
      OBVIOUS
    <3> HIDE DEF more
    <3>5. Holds(more, m + 1)
      BY <1>2, <3>3, <3>4
    <3>6. QED
      BY <3>5
  <2> HIDE DEF E
  <2>3. Nat \subseteq E
    BY <2>1, <2>2, SetInduction
  <2>4. QED
    BY <1>1, <2>3 DEF E
<1>4. ASSUME NEW f, Holds(f, N) PROVE IsDescribed(f[N], dirs, refs, N)
  <2> DEFINE E == {k \in Nat : k <= N => IsDescribed(f[k], dirs, refs, k)}
  <2>1. \A k \in 0..N : f[k] = IF k = 0 THEN start ELSE Step(f[k - 1], k)
    BY <1>2, <1>4
  <2> HIDE DEF Holds
  <2>2. 0 \in E
    <3>1. f[0] = start
      BY <1>1, <2>1
    <3>2. IsDescribed(start, dirs, refs, 0)
      <4> DEFINE none == [k \in 1..0 |-> 0]
      <4>1. start \in Seq({Reg!Describe(dirs, refs[i]) : i \in 1..0}) /\ Len(start) = 0
        BY EmptySeq
      <4> HIDE DEF start
      <4>2. none \in [1..Len(start) -> 1..0] /\ 1..0 = {} /\ 1..Len(start) = {}
        BY <4>1
      <4> HIDE DEF none
      <4>3. \E from \in [1..Len(start) -> 1..0] :
              /\ \A k \in 1..Len(start) : start[k] = Reg!Describe(dirs, refs[from[k]])
              /\ \A j, k \in 1..Len(start) : j < k => refs[from[j]] # refs[from[k]]
        BY <4>2
      <4>4. QED
        BY <4>1, <4>2, <4>3 DEF IsDescribed
    <3> HIDE DEF start
    <3>3. QED
      BY <3>1, <3>2
  <2>3. ASSUME NEW k \in Nat, k \in E PROVE k + 1 \in E
    <3>1. CASE k + 1 <= N
      <4>1. k + 1 \in 0..N /\ k + 1 # 0 /\ (k + 1) - 1 = k /\ k <= N
        BY <1>1, <3>1
      <4>2. IsDescribed(f[k], dirs, refs, k)
        BY <2>3, <4>1
      <4>3. f[k + 1] = Step(f[k], k + 1)
        BY <2>1, <4>1
      <4>4. f[k + 1] = IF \E j \in 1..k : refs[j] = refs[k + 1] THEN f[k]
                       ELSE Append(f[k], Reg!Describe(dirs, refs[k + 1]))
        BY <4>1, <4>3
      <4>5. IsDescribed(f[k + 1], dirs, refs, k + 1)
        BY <4>2, <4>4, OneMoreDescribed
      <4>6. QED
        BY <4>5
    <3>2. QED
      BY <3>1
  <2> HIDE DEF E
  <2>4. Nat \subseteq E
    BY <2>2, <2>3, SetInduction
  <2>5. QED
    BY <1>1, <2>4 DEF E
<1>5. /\ \A i \in DOMAIN refs : Reg!Describe(dirs, refs[i]) # Absent
      /\ Reg!DescribeMany(dirs, refs) = (CHOOSE f : Holds(f, N))[N]
  BY DEF Reg!DescribeMany
<1>6. QED
  <2> DEFINE f == CHOOSE f : Holds(f, N)
  <2>1. Holds(f, N)
    BY <1>3, Zenon
  <2> HIDE DEF f, Holds
  <2>2. IsDescribed(f[N], dirs, refs, N)
    BY <1>4, <2>1
  <2>3. QED
    BY <1>5, <2>2 DEF f

LEMMA RegistryCardinality == \A T : Reg!Cardinality(T) = Cardinality(T)
  BY DEF Reg!Cardinality, Cardinality

\* The last of some positions is one of them.
LEMMA LastIsIn ==
    ASSUME NEW n \in Nat, NEW T \in SUBSET (1..n), T # {}
    PROVE  (CHOOSE i \in T : \A j \in T : j <= i) \in T
  BY LatestIsIn DEF Monitor!Latest

\* A run that the daemon accepts has the manifests that the client saw, and one for
\* which both have the same directories is accepted (verify_agent_digests), unless its
\* opening names an agent with and without its variant.
THEOREM DigestsAreVerified ==
    ASSUME NEW client, NEW daemon, NEW S, NEW refs \in Seq(S)
    PROVE  Reg!VerifiedDigests(client, daemon, refs)
<1> DEFINE N == Len(refs)
           expected == Reg!DescribeMany(client, refs)
           actual == Reg!DescribeMany(daemon, refs)
           At(r) == {i \in DOMAIN actual : actual[i].reference = r}
           Last(r) == CHOOSE i \in At(r) : \A j \in At(r) : j <= i
           Once == \A i, j \in DOMAIN refs : refs[i].name = refs[j].name => refs[i] = refs[j]
           Sees(e) == At(e.reference) # {} /\ actual[Last(e.reference)].digest = e.digest
<1>1. N \in Nat /\ DOMAIN refs = 1..N
  BY LenProperties
<1>2. Reg!Verify(daemon, refs, expected) <=>
        /\ actual # Absent
        /\ Cardinality({actual[i].reference : i \in DOMAIN actual}) = Len(expected)
        /\ \A e \in {expected[i] : i \in DOMAIN expected} : Sees(e)
  BY RegistryCardinality DEF Reg!Verify
<1>3. ASSUME Once, Reg!Accepted(client, daemon, refs), NEW i \in DOMAIN refs
      PROVE  Reg!Describe(client, refs[i]).digest = Reg!Describe(daemon, refs[i]).digest
  <2>1. expected # Absent /\ actual # Absent
    BY <1>2, <1>3 DEF Reg!Accepted
  <2>2. \A e \in {expected[k] : k \in DOMAIN expected} : Sees(e)
    BY <1>2, <1>3 DEF Reg!Accepted
  <2>3. IsDescribed(expected, client, refs, N) /\ IsDescribed(actual, daemon, refs, N)
    BY <2>1, ManyAreDescribed
  <2>4. \A j \in DOMAIN refs : Reg!Describe(client, refs[j]) # Absent /\ Reg!Describe(daemon, refs[j]) # Absent
    BY <2>1, ManyAreDescribed
  <2> HIDE DEF expected, actual, N
  <2>5. /\ DOMAIN expected = 1..Len(expected) /\ DOMAIN actual = 1..Len(actual) /\ Len(actual) \in Nat
    BY <2>3, LenProperties DEF IsDescribed
  <2>6. PICK k \in 1..Len(expected) : expected[k] = Reg!Describe(client, refs[i])
    BY <1>1, <1>3, <2>3 DEF IsDescribed
  <2> DEFINE e == expected[k]
             m == Last(e.reference)
  <2>7. Sees(e)
    BY <2>2, <2>5
  <2>8. m \in At(e.reference)
    <3> DEFINE A == At(e.reference)
    <3>1. A \in SUBSET (1..Len(actual)) /\ A # {}
      BY <2>5, <2>7
    <3> HIDE DEF A
    <3>2. (CHOOSE x \in A : \A y \in A : y <= x) \in A
      BY <2>5, <3>1, LastIsIn
    <3>3. QED
      BY <3>2 DEF A
  <2>9. m \in 1..Len(actual) /\ actual[m].reference = e.reference /\ actual[m].digest = e.digest
    BY <2>5, <2>7, <2>8
  <2> HIDE DEF m, At, Last
  <2>10. PICK j \in 1..N : actual[m] = Reg!Describe(daemon, refs[j])
    <3>1. PICK from \in [1..Len(actual) -> 1..N] :
            \A x \in 1..Len(actual) : actual[x] = Reg!Describe(daemon, refs[from[x]])
      BY <2>3 DEF IsDescribed
    <3>2. from[m] \in 1..N
      BY <2>9, <3>1
    <3>3. QED
      BY <2>9, <3>1, <3>2
  <2>11. refs[j].name = actual[m].reference.name
    BY <1>1, <2>4, <2>10, DescribedIsBuilt
  <2>12. refs[i].name = e.reference.name
    BY <1>3, <2>4, <2>6, DescribedIsBuilt
  <2>13. refs[j] = refs[i]
    BY <1>1, <1>3, <2>9, <2>11, <2>12
  <2>14. QED
    BY <2>6, <2>9, <2>10, <2>13
<1>4. ASSUME Once, client = daemon, expected # Absent
      PROVE  Reg!Accepted(client, daemon, refs)
  <2> DEFINE L == Len(expected)
             K == {expected[i].reference : i \in 1..L}
             names == [i \in 1..L |-> expected[i].reference]
  <2>1. IsDescribed(expected, client, refs, N)
    BY <1>4, ManyAreDescribed
  <2>2. \A j \in DOMAIN refs : Reg!Describe(client, refs[j]) # Absent
    BY <1>4, ManyAreDescribed
  <2>3. expected = actual
    BY <1>4
  <2> HIDE DEF expected, actual, N
  <2>4. DOMAIN expected = 1..L /\ L \in Nat
    BY <2>1, LenProperties DEF IsDescribed
  <2>5. PICK from \in [1..L -> 1..N] :
          /\ \A k \in 1..L : expected[k] = Reg!Describe(client, refs[from[k]])
          /\ \A j, k \in 1..L : j < k => refs[from[j]] # refs[from[k]]
    BY <2>1 DEF IsDescribed
  <2> HIDE DEF L
  <2>6. \A k \in 1..L : expected[k].reference.name = refs[from[k]].name
    <3>1. ASSUME NEW k \in 1..L PROVE expected[k].reference.name = refs[from[k]].name
      <4>1. from[k] \in DOMAIN refs
        BY <1>1, <2>5
      <4>2. QED
        BY <2>2, <2>5, <4>1, DescribedIsBuilt
    <3>2. QED
      BY <3>1
  <2>7. ASSUME NEW j \in 1..L, NEW k \in 1..L, expected[j].reference = expected[k].reference
        PROVE  j = k
    <3>1. refs[from[j]].name = refs[from[k]].name
      BY <2>6, <2>7
    <3>2. refs[from[j]] = refs[from[k]]
      BY <1>1, <1>4, <2>5, <3>1
    <3>3. ~(j < k) /\ ~(k < j)
      BY <2>5, <3>2
    <3>4. QED
      BY <2>4, <3>3
  <2>8. Cardinality(K) = L
    <3>1. names \in [1..L -> K] /\ \A a, b \in 1..L : names[a] = names[b] => a = b
      BY <2>7
    <3>2. \A t \in K : \E s \in 1..L : names[s] = t
      OBVIOUS
    <3> HIDE DEF names, K
    <3>3. names \in Bijection(1..L, K)
      BY <3>1, <3>2 DEF Bijection, Injection, IsInjective, Surjection
    <3>4. ExistsBijection(1..L, K)
      BY <3>3 DEF ExistsBijection
    <3>5. QED
      BY <2>4, <3>4, FS_CountingElements
  <2>9. \A k \in 1..L : Sees(expected[k])
    <3>1. ASSUME NEW k \in 1..L PROVE Sees(expected[k])
      <4> DEFINE r == expected[k].reference
      <4>1. At(r) = {k}
        BY <2>3, <2>4, <2>7
      <4> HIDE DEF At
      <4>2. Last(r) = k
        BY <2>4, <4>1
      <4>3. QED
        BY <2>3, <4>1, <4>2
    <3>2. QED
      BY <3>1
  <2>10. {actual[i].reference : i \in DOMAIN actual} = K
    BY <2>3, <2>4
  <2>11. \A e \in {expected[i] : i \in DOMAIN expected} : Sees(e)
    <3> HIDE DEF Sees
    <3>1. QED
      BY <2>4, <2>9
  <2>12. Reg!Verify(daemon, refs, expected)
    <3> HIDE DEF Sees, K
    <3>1. QED
      BY <1>2, <1>4, <2>3, <2>8, <2>10, <2>11 DEF L
  <2>13. QED
    BY <1>4, <2>12 DEF Reg!Accepted, expected
<1>5. QED
  BY <1>3, <1>4 DEF Reg!VerifiedDigests, Reg!OncePerAgent

\* The agent that is described is the one asked for, and a manifest without a variant
\* is taken for a variant only where its directory has none for that (describe,
\* find_manifest, candidate_roots).
THEOREM AsAsked ==
    ASSUME NEW dirs, NEW ref
    PROVE  Reg!DescribedAsAsked(dirs, ref)
<1> DEFINE d == Reg!Describe(dirs, ref)
           m == Reg!FindManifest(dirs, ref)
           base == dirs[Reg!Winner(dirs, ref)]
           own == {base.at[r] : r \in Reg!Range(Reg!VariantRoots(ref)) \cap DOMAIN base.at}
<1>1. SUFFICES ASSUME d # Absent
      PROVE /\ d.reference.name = ref.name /\ d.digest.variant \in {d.reference.variant, Absent}
            /\ ref.variant # Absent => d.reference.variant = ref.variant
            /\ ref.variant # Absent /\ d.digest.variant = Absent /\ own # {} => d.digest \in own
  BY DEF Reg!DescribedAsAsked
<1>2. d = Reg!Described(m, ref) /\ Reg!Builds(m, ref) /\ m # Absent /\ d.reference.name = ref.name /\ d.digest = m
  BY <1>1, DescribedIsBuilt
<1>3. d.reference.variant = IF ref.variant = Absent THEN m.variant ELSE ref.variant
  BY <1>2 DEF Reg!Described
<1>4. ref.variant = Absent \/ m.variant = Absent \/ m.variant = ref.variant
  BY <1>2 DEF Reg!Builds
<1>5. ASSUME ref.variant # Absent, m.variant = Absent, own # {} PROVE m \in own
  <2> DEFINE a == <<ref.name \o "@" \o ref.variant>>
             b == <<ref.name, ref.variant>>
             c == <<ref.name, "variants", ref.variant>>
             plain == <<ref.name>>
             roots == Reg!CandidateRoots(ref)
             hits == {i \in DOMAIN roots : base.kind = "dir" /\ roots[i] \in DOMAIN base.at}
  <2>1. m = Reg!InBase(base, ref)
    BY <1>2 DEF Reg!FindManifest
  <2>2. Reg!AtSearchRoot(base, ref) = Absent
    BY <1>2, <1>5, <2>1 DEF Reg!AtSearchRoot, Reg!InBase
  <2>3. hits # {} /\ m = base.at[roots[CHOOSE i \in hits : \A j \in hits : i <= j]]
    BY <1>2, <2>1, <2>2 DEF Reg!InBase
  <2>4. Reg!VariantRoots(ref) = <<a, b, c>> /\ roots = <<a, b, c>> \o <<plain>>
    BY <1>5 DEF Reg!VariantRoots, Reg!CandidateRoots
  <2> HIDE DEF a, b, c, plain, roots
  <2>5. /\ DOMAIN roots = 1..4
        /\ roots[1] = a /\ roots[2] = b /\ roots[3] = c
        /\ Reg!Range(Reg!VariantRoots(ref)) = {a, b, c}
    BY <2>4 DEF Reg!Range
  <2> HIDE DEF base
  <2>6. PICK i \in 1..3 : i \in hits
    BY <1>5, <2>3, <2>5
  <2> DEFINE first == CHOOSE x \in hits : \A j \in hits : x <= j
  <2>7. first \in hits /\ first <= i
    <3>1. hits \subseteq 1..4
      BY <2>5
    <3> HIDE DEF hits
    <3>2. \E x \in hits : \A j \in hits : x <= j
      <4>1. CASE 1 \in hits
        BY <3>1, <4>1
      <4>2. CASE 1 \notin hits /\ 2 \in hits
        <5>1. \A j \in hits : 2 <= j
          BY <3>1, <4>2
        <5>2. QED
          BY <4>2, <5>1
      <4>3. CASE 1 \notin hits /\ 2 \notin hits
        <5>1. i = 3 /\ \A j \in hits : 3 <= j
          BY <2>6, <3>1, <4>3
        <5>2. QED
          BY <2>6, <5>1
      <4>4. QED
        BY <4>1, <4>2, <4>3
    <3>3. QED
      BY <2>6, <3>2
  <2>8. first \in 1..3 /\ roots[first] \in DOMAIN base.at
    BY <2>5, <2>6, <2>7
  <2>9. m = base.at[roots[first]]
    BY <2>3
  <2> HIDE DEF first, hits
  <2>10. QED
    BY <2>5, <2>8, <2>9
<1>6. QED
  BY <1>2, <1>3, <1>4, <1>5

\* A bundle that is handed out names no file outside of the agent's directory (bundle,
\* resolve_bundle_path).
THEOREM BundlesStayInside ==
    ASSUME NEW base, NEW ref
    PROVE  Reg!BundleIsWhole(base, ref)
<1> DEFINE dirs == <<base>>
           d == Reg!Describe(dirs, ref)
           m == Reg!FindManifest(dirs, ref)
           bundle == Reg!Bundle(dirs, ref)
<1> HIDE DEF dirs
<1>1. ASSUME bundle # Absent, NEW f \in DOMAIN bundle.described.digest.files
      PROVE  bundle.described.digest.files[f].target # "outside"
  <2>1. /\ d # Absent /\ bundle.described = d
        /\ \A g \in DOMAIN m.files : Reg!ResolvesInside(m.files[g])
    BY <1>1 DEF Reg!Bundle
  <2>2. d.digest = m
    BY <2>1, DescribedIsBuilt
  <2>3. QED
    BY <1>1, <2>1, <2>2 DEF Reg!ResolvesInside
<1>2. QED
  BY <1>1 DEF Reg!BundleIsWhole, dirs

-----------------------------------------------------------------------------
(* The agents of the list *)

\* A path of one name below another path.
LEMMA OneName ==
    ASSUME NEW S, NEW p \in Seq(S), NEW q \in Seq(S), Len(p) = 1, Len(q) > 1
    PROVE  Reg!IsStrictPrefix(p, q) <=> p[1] = q[1]
<1> DEFINE one(s) == SubSeq(s, 1, 1)
<1>1. \A s \in Seq(S) : Len(s) >= 1 =>
        one(s) \in Seq(S) /\ Len(one(s)) = 1 /\ one(s)[1] = s[1]
  <2> SUFFICES ASSUME NEW s \in Seq(S), Len(s) >= 1
               PROVE  one(s) \in Seq(S) /\ Len(one(s)) = 1 /\ one(s)[1] = s[1]
    OBVIOUS
  <2> DEFINE c == SubSeq(s, 0 + 1, 0 + 1)
  <2>1. Len(s) \in Nat
    BY LenProperties
  <2>2. c \in Seq(S) /\ Len(c) = 1 /\ \A i \in 1..1 : c[i] = s[0 + i]
    BY <2>1, CutOut
  <2>3. c = one(s) /\ 0 + 1 = 1
    OBVIOUS
  <2> HIDE DEF c, one
  <2>4. c[1] = s[0 + 1]
    BY <2>2
  <2>5. QED
    BY <2>2, <2>3, <2>4
<1> HIDE DEF one
<1>2. one(p) = one(q) <=> p[1] = q[1]
  <2>1. /\ one(p) \in Seq(S) /\ Len(one(p)) = 1 /\ one(p)[1] = p[1]
        /\ one(q) \in Seq(S) /\ Len(one(q)) = 1 /\ one(q)[1] = q[1]
    BY <1>1
  <2>2. ASSUME p[1] = q[1] PROVE one(p) = one(q)
    <3>1. \A i \in 1..1 : one(p)[i] = one(q)[i]
      BY <2>1, <2>2
    <3>2. QED
      BY <2>1, <3>1, SeqEqual
  <2>3. QED
    BY <2>1, <2>2
<1>3. p # q
  <2> SUFFICES ASSUME p = q PROVE FALSE
    OBVIOUS
  <2>1. Len(q) = 1
    OBVIOUS
  <2>2. QED
    BY <2>1
<1>4. Len(q) \in Nat /\ 1 <= Len(q)
  BY LenProperties
<1>5. QED
  BY <1>2, <1>3, <1>4 DEF one, Reg!IsStrictPrefix, Reg!IsPrefix

\* A strict prefix is shorter.
LEMMA Shorter ==
    ASSUME NEW S, NEW p \in Seq(S), NEW q \in Seq(S), Reg!IsStrictPrefix(p, q)
    PROVE  Len(p) < Len(q)
<1>1. Len(p) <= Len(q) /\ SubSeq(p, 1, Len(p)) = SubSeq(q, 1, Len(p)) /\ p # q
  BY DEF Reg!IsStrictPrefix, Reg!IsPrefix
<1>2. Len(p) \in Nat /\ Len(q) \in Nat
  BY LenProperties
<1>3. CASE Len(p) = Len(q)
  <2>1. SubSeq(p, 1, Len(p)) = p /\ SubSeq(q, 1, Len(q)) = q
    <3>1. \A s \in Seq(S) : SubSeq(s, 1, Len(s)) = s
      <4> SUFFICES ASSUME NEW s \in Seq(S) PROVE SubSeq(s, 1, Len(s)) = s
        OBVIOUS
      <4> DEFINE n == Len(s)
                 c == SubSeq(s, 0 + 1, 0 + n)
      <4>1. n \in Nat
        BY LenProperties
      <4>2. c \in Seq(S) /\ Len(c) = n /\ \A i \in 1..n : c[i] = s[0 + i]
        BY <4>1, CutOut
      <4>3. c = SubSeq(s, 1, n)
        BY <4>1
      <4> HIDE DEF c
      <4>4. \A i \in 1..n : c[i] = s[i]
        <5> SUFFICES ASSUME NEW i \in 1..n PROVE c[i] = s[i]
          OBVIOUS
        <5>1. 0 + i = i
          BY <4>1
        <5>2. c[i] = s[0 + i]
          BY <4>2
        <5>3. QED
          BY <5>1, <5>2
      <4>5. c = s
        BY <4>2, <4>4, SeqEqual
      <4>6. QED
        BY <4>3, <4>5
    <3>2. QED
      BY <3>1
  <2>2. QED
    BY <1>1, <1>3, <2>1
<1>4. QED
  BY <1>1, <1>2, <1>3

\* The places of an agent with a variant, in the order they are looked at.
LEMMA ThreePlaces ==
    ASSUME NEW ref, ref.variant # Absent
    PROVE  LET roots == Reg!CandidateRoots(ref)
           IN /\ DOMAIN roots = 1..4
              /\ Reg!Places(ref) = {roots[1], roots[2], roots[3]}
              /\ Len(roots[1]) = 1 /\ Len(roots[2]) = 2 /\ Len(roots[3]) = 3
              /\ roots[2][1] = ref.name /\ roots[3][1] = ref.name
<1> DEFINE a == <<ref.name \o "@" \o ref.variant>>
           b == <<ref.name, ref.variant>>
           c == <<ref.name, "variants", ref.variant>>
           plain == <<ref.name>>
           roots == Reg!CandidateRoots(ref)
<1>1. Len(a) = 1 /\ Len(b) = 2 /\ Len(c) = 3 /\ b[1] = ref.name /\ c[1] = ref.name
  OBVIOUS
<1>2. Reg!VariantRoots(ref) = <<a, b, c>> /\ roots = <<a, b, c>> \o <<plain>>
  BY DEF Reg!VariantRoots, Reg!CandidateRoots
<1> HIDE DEF a, b, c, plain, roots
<1>3. /\ DOMAIN roots = 1..4
      /\ roots[1] = a /\ roots[2] = b /\ roots[3] = c
      /\ Reg!Range(Reg!VariantRoots(ref)) = {a, b, c}
  BY <1>2 DEF Reg!Range
<1>4. Reg!Places(ref) = {a, b, c}
  BY <1>3 DEF Reg!Places
<1>5. QED
  BY <1>1, <1>3, <1>4 DEF roots

\* In a tidy directory, what a listed agent's reference leads to is the manifest that was
\* listed: nothing before it among the agent's places is anything else, and nothing that
\* hides one of those would have left it to be listed.
LEMMA TidyPlace ==
    ASSUME NEW base, base.kind = "dir", IsSearchDir(base), Reg!Tidy(base),
           NEW p \in DOMAIN Reg!Discovered(base),
           \A q \in DOMAIN Reg!Discovered(base) :
               Reg!Precedes(q, p) => Reg!Agent(base.at[q]) # Reg!Agent(base.at[p])
    PROVE  Reg!InBase(base, Reg!Agent(base.at[p])) = base.at[p]
<1> DEFINE W == DOMAIN base.at
           S == DOMAIN Rank
           Ag(q) == Reg!Agent(base.at[q])
           ref == Ag(p)
           roots == Reg!CandidateRoots(ref)
           hits == {i \in DOMAIN roots : base.kind = "dir" /\ roots[i] \in W}
           D == DOMAIN Reg!Discovered(base)
<1>1. D = {q \in W : Len(q) <= 3 /\ \A r \in W : ~Reg!IsStrictPrefix(r, q)}
  BY DEF Reg!Discovered
<1>2. W \subseteq Seq(S) /\ base.at[p] # Absent
  BY <1>1 DEF IsSearchDir
<1>3. /\ \A q \in W : Reg!Reads(base.at[q]) /\ q \in Reg!Places(Ag(q))
      /\ \A q, r \in W : r \in Reg!Places(Ag(q)) => Ag(r) = Ag(q)
  BY DEF Reg!Tidy
<1>4. p \in W /\ ref.name = base.at[p].name /\ ref.variant = base.at[p].variant
  BY <1>1 DEF Reg!Agent
<1>5. \A q \in W : Len(q) \in Nat /\ Len(q) >= 1
  <2> SUFFICES ASSUME NEW q \in W PROVE Len(q) \in Nat /\ Len(q) >= 1
    OBVIOUS
  <2>1. Len(q) \in Nat /\ q \in Reg!Places(Ag(q))
    BY <1>2, <1>3, LenProperties
  <2>2. CASE Ag(q).variant = Absent
    <3>1. q = <<Ag(q).name>>
      BY <2>1, <2>2 DEF Reg!Places
    <3>2. Len(<<Ag(q).name>>) = 1
      OBVIOUS
    <3>3. Len(q) = 1
      BY <3>1, <3>2
    <3>4. QED
      BY <3>3
  <2>3. CASE Ag(q).variant # Absent
    <3> DEFINE all == Reg!CandidateRoots(Ag(q))
    <3>1. /\ Reg!Places(Ag(q)) = {all[1], all[2], all[3]}
          /\ Len(all[1]) = 1 /\ Len(all[2]) = 2 /\ Len(all[3]) = 3
      BY <2>3, ThreePlaces
    <3> HIDE DEF all
    <3> HIDE DEF Ag
    <3>2. Len(q) = 1 \/ Len(q) = 2 \/ Len(q) = 3
      <4>1. q = all[1] \/ q = all[2] \/ q = all[3]
        BY <2>1, <3>1
      <4>2. QED
        BY <3>1, <4>1
    <3>3. QED
      BY <3>2
  <2>4. QED
    BY <2>2, <2>3
<1>6. <<>> \notin W
  <2>1. Len(<<>>) = 0
    OBVIOUS
  <2>2. QED
    BY <1>5, <2>1
<1>7. Reg!AtSearchRoot(base, ref) = Absent
  BY <1>6 DEF Reg!AtSearchRoot, Reg!Broken, Reg!Reads
<1>8. Reg!InBase(base, ref) = IF hits = {} THEN Absent ELSE base.at[roots[CHOOSE i \in hits : \A j \in hits : i <= j]]
  BY <1>7 DEF Reg!InBase
<1> DEFINE first == CHOOSE i \in hits : \A j \in hits : i <= j
<1>9. CASE ref.variant = Absent
  <2>1. p = <<ref.name>>
    BY <1>3, <1>4, <1>9 DEF Reg!Places
  <2>2. roots = <<>> \o <<<<ref.name>>>>
    BY <1>9 DEF Reg!CandidateRoots, Reg!VariantRoots
  <2>3. DOMAIN roots = {1} /\ roots[1] = p
    BY <2>1, <2>2
  <2>4. hits = {1}
    BY <1>4, <2>3
  <2>5. first = 1
    BY <2>4
  <2>6. QED
    BY <1>8, <2>3, <2>4, <2>5
<1>10. CASE ref.variant # Absent
  <2>1. /\ DOMAIN roots = 1..4
        /\ Reg!Places(ref) = {roots[1], roots[2], roots[3]}
        /\ Len(roots[1]) = 1 /\ Len(roots[2]) = 2 /\ Len(roots[3]) = 3
        /\ roots[2][1] = ref.name /\ roots[3][1] = ref.name
    BY <1>10, ThreePlaces
  <2>2. p \in Reg!Places(ref)
    BY <1>3, <1>4
  <2> HIDE DEF roots, ref, D, W
  <2>3. PICK k \in 1..3 : p = roots[k]
    BY <2>1, <2>2
  <2>4. k \in hits /\ hits \subseteq 1..4
    BY <1>4, <2>1, <2>3
  <2> HIDE DEF hits
  <2>5. first \in hits /\ \A j \in hits : first <= j
    <3>1. \E i \in hits : \A j \in hits : i <= j
      BY <2>4, SmallestIsIn
    <3>2. QED
      BY <3>1
  <2> DEFINE q == roots[first]
  <2>5a. Reg!InBase(base, ref) = base.at[q]
    BY <1>8, <2>4
  <2> HIDE DEF first
  <2>6. first \in 1..3 /\ first <= k
    BY <2>3, <2>4, <2>5
  <2>7. q \in W /\ q \in Reg!Places(ref)
    <3>1. q \in W
      BY <2>5 DEF hits
    <3>2. q \in Reg!Places(ref)
      BY <2>1, <2>6
    <3>3. QED
      BY <3>1, <3>2
  <2>8. Ag(q) = Ag(p)
    BY <1>3, <1>4, <2>7 DEF ref
  <2>8a. Len(q) = first /\ Len(p) = k
    <3>1. \A i \in 1..3 : Len(roots[i]) = i
      <4> SUFFICES ASSUME NEW i \in 1..3 PROVE Len(roots[i]) = i
        OBVIOUS
      <4>1. i = 1 \/ i = 2 \/ i = 3
        OBVIOUS
      <4>2. QED
        BY <2>1, <4>1
    <3>2. QED
      BY <2>3, <2>6, <3>1
  <2>9. ASSUME first # k PROVE FALSE
    <3> HIDE DEF q
    <3>1. Len(q) < Len(p) /\ Len(q) <= 2 /\ Len(p) >= 2 /\ Len(p) <= 3 /\ Len(p) \in Nat /\ Len(q) \in Nat
      BY <2>6, <2>8a, <2>9
    <3>2. Reg!Precedes(q, p)
      BY <3>1 DEF Reg!Precedes
    <3>3. p \in Seq(S) /\ q \in Seq(S)
      BY <1>2, <1>4, <2>7
    <3>4. ASSUME NEW r \in W, Reg!IsStrictPrefix(r, q) PROVE FALSE
      <4>1. r \in Seq(S) /\ Len(r) \in Nat /\ Len(r) >= 1
        BY <1>2, <1>5
      <4>2. Len(r) < Len(q)
        BY <3>3, <3>4, <4>1, Shorter
      <4> DEFINE x == Len(r)
                 y == Len(q)
                 z == Len(p)
      <4>2a. x \in Nat /\ y \in Nat /\ z \in Nat /\ x >= 1 /\ x < y /\ y < z /\ y <= 2
        BY <3>1, <4>1, <4>2
      <4> HIDE DEF x, y, z
      <4>2b. x = 1 /\ y = 2 /\ y > 1 /\ z > 1
        BY <4>2a
      <4>3. Len(r) = 1 /\ Len(q) = 2 /\ Len(q) > 1 /\ Len(p) > 1 /\ Len(q) \in Nat
        BY <4>2a, <4>2b DEF x, y, z
      <4>4. r[1] = q[1]
        BY <3>3, <3>4, <4>1, <4>3, OneName
      <4>5. first = 2 /\ k = 3
        BY <2>6, <2>8a, <2>9, <4>3
      <4>6. q[1] = p[1]
        BY <2>1, <2>3, <4>5 DEF q
      <4>7. Reg!IsStrictPrefix(r, p)
        BY <3>3, <4>1, <4>3, <4>4, <4>6, OneName
      <4>8. QED
        BY <1>1, <4>7 DEF D
    <3>5. q \in D
      BY <1>1, <2>7, <3>1, <3>4
    <3>6. QED
      BY <2>8, <3>2, <3>5 DEF D
  <2>10. QED
    BY <2>3, <2>5a, <2>9 DEF ref
<1>11. QED
  BY <1>9, <1>10

LEMMA ListedDescribed ==
    ASSUME NEW base, IsSearchDir(base)
    PROVE  Reg!ListedIsDescribed(base)
<1> DEFINE dirs == <<base>>
           D(b) == Reg!Discovered(b)
           found == UNION {{[dir |-> i, path |-> p, manifest |-> D(dirs[i])[p]] : p \in DOMAIN D(dirs[i])} : i \in DOMAIN dirs}
           Earlier(x, y) == x.dir < y.dir \/ (x.dir = y.dir /\ Reg!Precedes(x.path, y.path))
           first == {x \in found : \A y \in found : Earlier(y, x) => Reg!Agent(y.manifest) # Reg!Agent(x.manifest)}
<1> SUFFICES ASSUME Reg!Tidy(base), Reg!Listed(dirs) # Absent, NEW d \in Reg!Listed(dirs)
             PROVE  Reg!Describe(dirs, d.reference) = d
  BY DEF Reg!ListedIsDescribed
<1>1. DOMAIN dirs = {1} /\ dirs[1] = base
  OBVIOUS
<1>2. /\ \A x \in found : Reg!Reads(x.manifest) /\ Reg!ValidReference(Reg!Agent(x.manifest))
      /\ \A x \in first : Reg!Builds(x.manifest, Reg!Agent(x.manifest))
      /\ d \in {Reg!Described(x.manifest, Reg!Agent(x.manifest)) : x \in first}
  BY DEF Reg!Listed
<1> HIDE DEF dirs, D
<1>3. found = {[dir |-> 1, path |-> p, manifest |-> D(base)[p]] : p \in DOMAIN D(base)}
  BY <1>1
<1> HIDE DEF found
<1>4. PICK x \in first : d = Reg!Described(x.manifest, Reg!Agent(x.manifest))
  BY <1>2
<1> DEFINE p == x.path
           m == x.manifest
           ref == Reg!Agent(m)
<1>5. /\ p \in DOMAIN D(base) /\ m = D(base)[p]
      /\ \A q \in DOMAIN D(base) : Reg!Precedes(q, p) => Reg!Agent(D(base)[q]) # Reg!Agent(D(base)[p])
  <2>1. x \in found
    OBVIOUS
  <2>2. PICK o \in DOMAIN D(base) : x = [dir |-> 1, path |-> o, manifest |-> D(base)[o]]
    BY <1>3, <2>1
  <2>3. p = o /\ m = D(base)[o] /\ x.dir = 1
    BY <2>2
  <2>4. ASSUME NEW q \in DOMAIN D(base), Reg!Precedes(q, p)
        PROVE  Reg!Agent(D(base)[q]) # Reg!Agent(D(base)[p])
    <3> DEFINE y == [dir |-> 1, path |-> q, manifest |-> D(base)[q]]
    <3>1. y \in found /\ y.dir = 1 /\ y.path = q /\ y.manifest = D(base)[q]
      BY <1>3
    <3> HIDE DEF y
    <3>2. Earlier(y, x)
      BY <2>3, <2>4, <3>1
    <3>3. QED
      BY <2>3, <3>1, <3>2
  <2>5. QED
    BY <2>3, <2>4
<1>6. Reg!Reads(m) /\ Reg!ValidReference(ref) /\ Reg!Builds(m, ref)
  BY <1>2
<1> HIDE DEF first
<1>7. d.reference = ref /\ d = Reg!Described(m, ref)
  BY <1>4 DEF Reg!Described, Reg!Agent
<1> HIDE DEF p, m
<1>8. Reg!InBase(base, ref) = m /\ m # Absent
  <2>1. CASE base.kind = "manifest"
    <3>1. D(base) = [o \in {<<>>} |-> base.manifest]
      BY <2>1 DEF D, Reg!Discovered
    <3>2. m = base.manifest
      BY <1>5, <3>1
    <3>3. Reg!AtSearchRoot(base, ref) = m
      BY <1>6, <2>1, <3>2 DEF Reg!AtSearchRoot, Reg!Agent
    <3>4. m # Absent
      BY <2>1, <3>2 DEF IsSearchDir
    <3>5. QED
      BY <3>3, <3>4 DEF Reg!InBase
  <2>2. CASE base.kind = "dir"
    <3>1. \A o \in DOMAIN D(base) : o \in DOMAIN base.at /\ D(base)[o] = base.at[o]
      BY <2>2 DEF D, Reg!Discovered
    <3>2. m = base.at[p] /\ m # Absent
      BY <1>5, <2>2, <3>1 DEF IsSearchDir
    <3>3. \A q \in DOMAIN D(base) : Reg!Precedes(q, p) => Reg!Agent(base.at[q]) # Reg!Agent(base.at[p])
      BY <1>5, <3>1
    <3>4. Reg!InBase(base, Reg!Agent(base.at[p])) = base.at[p]
      BY <1>5, <2>2, <3>3, TidyPlace DEF D
    <3>5. QED
      BY <3>2, <3>4
  <2>3. CASE base.kind \notin {"manifest", "dir"}
    <3>1. D(base) = [o \in {} |-> {}]
      BY <2>3 DEF D, Reg!Discovered
    <3>2. QED
      BY <1>5, <3>1
  <2>4. QED
    BY <2>1, <2>2, <2>3
<1> HIDE DEF ref
<1>9. Reg!FindManifest(dirs, ref) = m
  <2>1. {i \in DOMAIN dirs : Reg!InBase(dirs[i], ref) # Absent} = {1}
    BY <1>1, <1>8
  <2>2. Reg!Winner(dirs, ref) = 1
    BY <2>1 DEF Reg!Winner
  <2>3. QED
    BY <1>1, <1>6, <1>8, <2>2 DEF Reg!FindManifest
<1>10. QED
  BY <1>6, <1>7, <1>8, <1>9 DEF Reg!Describe

\* The agent described is the one asked for and the one listed, the daemon runs what the
\* client saw, and a bundle stays inside of its directory (find_manifest, build_described,
\* list, verify_agent_digests, resolve_bundle_path).
THEOREM AgentsVerified == TablesSpec => []AgentsAreVerified
<1> DEFINE Inv == case.table = "agents" => /\ case.in.client \in Clients /\ case.in.refs \in RefLists
<1>1. TablesInit => Inv
  BY DEF TablesInit
<1>2. Inv /\ [TablesNext]_case => Inv'
  BY DEF TablesNext, Input
<1>3. Inv => AgentsAreVerified
  <2> SUFFICES ASSUME Inv PROVE AgentsAreVerified
    OBVIOUS
  <2>1. CASE case.table = "agents"
    <3> DEFINE client == case.in.client
               daemon == case.in.daemon
               refs == case.in.refs
    <3>1. refs \in Seq([name : STRING, variant : {Absent} \cup STRING])
      BY <2>1, RegistryAssumption
    <3>2. \A i \in DOMAIN client : IsSearchDir(client[i])
      BY <2>1, RegistryAssumption
    <3> HIDE DEF client, daemon, refs
    <3>3. Reg!VerifiedDigests(client, daemon, refs)
      BY <3>1, DigestsAreVerified
    <3>4. \A i \in DOMAIN refs : Reg!DescribedAsAsked(client, refs[i])
      BY AsAsked
    <3>5. \A i \in DOMAIN client : Reg!ListedIsDescribed(client[i])
      BY <3>2, ListedDescribed
    <3>6. QED
      BY <2>1, <3>3, <3>4, <3>5 DEF AgentsAreVerified, client, daemon, refs
  <2>2. CASE case.table # "agents"
    <3>1. Reg!BundleIsWhole(case.in.base, case.in.ref)
      BY BundlesStayInside
    <3>2. QED
      BY <2>2, <3>1 DEF AgentsAreVerified
  <2>3. QED
    BY <2>1, <2>2
<1>4. QED
  BY <1>1, <1>2, <1>3, PTL DEF TablesSpec

-----------------------------------------------------------------------------
(* The layers of the configuration *)

LEMMA Heads ==
    ASSUME NEW S, NEW p \in Seq(S), NEW k \in 0..Len(p)
    PROVE  LET head == SubSeq(p, 1, k)
           IN head \in Seq(S) /\ Len(head) = k /\ \A i \in 1..k : head[i] = p[i]
<1> DEFINE head == SubSeq(p, 1, k)
           c == SubSeq(p, 0 + 1, 0 + k)
<1>1. Len(p) \in Nat /\ k \in Nat /\ 0 + k <= Len(p)
  BY LenProperties
<1>2. c \in Seq(S) /\ Len(c) = k /\ \A i \in 1..k : c[i] = p[0 + i]
  BY <1>1, CutOut
<1>3. c = head
  BY <1>1
<1> HIDE DEF c, head
<1>4. ASSUME NEW i \in 1..k PROVE head[i] = p[i]
  <2>1. 0 + i = i /\ c[i] = p[0 + i]
    BY <1>1, <1>2
  <2>2. QED
    BY <1>3, <2>1
<1>5. QED
  BY <1>2, <1>3, <1>4 DEF head

LEMMA WholeHead ==
    ASSUME NEW S, NEW p \in Seq(S)
    PROVE  SubSeq(p, 1, Len(p)) = p
<1> DEFINE head == SubSeq(p, 1, Len(p))
<1>1. Len(p) \in Nat /\ Len(p) \in 0..Len(p)
  BY LenProperties
<1>2. head \in Seq(S) /\ Len(head) = Len(p) /\ \A i \in 1..Len(p) : head[i] = p[i]
  BY <1>1, Heads
<1> HIDE DEF head
<1>3. head = p
  BY <1>2, SeqEqual
<1>4. QED
  BY <1>3 DEF head

LEMMA HeadOfHead ==
    ASSUME NEW S, NEW p \in Seq(S), NEW k \in 0..Len(p), NEW j \in 0..k
    PROVE  SubSeq(SubSeq(p, 1, k), 1, j) = SubSeq(p, 1, j)
<1> DEFINE h == SubSeq(p, 1, k)
           hh == SubSeq(h, 1, j)
           g == SubSeq(p, 1, j)
<1>1. Len(p) \in Nat /\ j \in 0..Len(p)
  BY LenProperties
<1>2. h \in Seq(S) /\ Len(h) = k /\ \A i \in 1..k : h[i] = p[i]
  BY Heads
<1>3. g \in Seq(S) /\ Len(g) = j /\ \A i \in 1..j : g[i] = p[i]
  BY <1>1, Heads
<1> HIDE DEF h, g
<1>4. hh \in Seq(S) /\ Len(hh) = j /\ \A i \in 1..j : hh[i] = h[i]
  BY <1>2, Heads
<1> HIDE DEF hh
<1>5. ASSUME NEW i \in 1..j PROVE hh[i] = g[i]
  <2>1. i \in 1..k
    BY <1>1
  <2>2. QED
    BY <1>2, <1>3, <1>4, <2>1
<1>6. hh = g
  BY <1>3, <1>4, <1>5, SeqEqual
<1>7. QED
  BY <1>6 DEF hh, h, g

LEMMA PrefixIsHead ==
    ASSUME NEW S, NEW p \in Seq(S), NEW q \in Seq(S)
    PROVE  /\ Cfg!IsPrefix(p, q) <=> Len(p) <= Len(q) /\ p = SubSeq(q, 1, Len(p))
           /\ Cfg!IsStrictPrefix(p, q) <=> Len(p) < Len(q) /\ p = SubSeq(q, 1, Len(p))
<1>1. SubSeq(p, 1, Len(p)) = p /\ SubSeq(q, 1, Len(q)) = q
  BY WholeHead
<1>2. Len(p) \in Nat /\ Len(q) \in Nat
  BY LenProperties
<1>3. Cfg!IsPrefix(p, q) <=> Len(p) <= Len(q) /\ p = SubSeq(q, 1, Len(p))
  BY <1>1 DEF Cfg!IsPrefix
<1> DEFINE head == SubSeq(q, 1, Len(p))
<1>4. Len(p) = Len(q) => head = q
  BY <1>1
<1> HIDE DEF head
<1>5. Len(p) < Len(q) => p # q
  BY <1>2
<1>6. QED
  BY <1>2, <1>3, <1>4, <1>5 DEF head, Cfg!IsStrictPrefix

LEMMA PrefixTransitive ==
    ASSUME NEW S, NEW p \in Seq(S), NEW q \in Seq(S), NEW r \in Seq(S), Cfg!IsPrefix(p, q)
    PROVE  /\ Cfg!IsPrefix(q, r) => Cfg!IsPrefix(p, r)
           /\ Cfg!IsStrictPrefix(q, r) => Cfg!IsStrictPrefix(p, r)
<1>1. Len(p) <= Len(q) /\ p = SubSeq(q, 1, Len(p))
  BY PrefixIsHead
<1>2. Len(p) \in Nat /\ Len(q) \in Nat /\ Len(r) \in Nat
  BY LenProperties
<1> DEFINE m == Len(p)
           n == Len(q)
<1>3. ASSUME Cfg!IsPrefix(q, r) PROVE Cfg!IsPrefix(p, r)
  <2>1. n <= Len(r) /\ q = SubSeq(r, 1, n)
    BY <1>3, PrefixIsHead
  <2>2. n \in 0..Len(r) /\ m \in 0..n
    BY <1>1, <1>2, <2>1
  <2> HIDE DEF m, n
  <2>3. SubSeq(SubSeq(r, 1, n), 1, m) = SubSeq(r, 1, m)
    BY <2>2, HeadOfHead
  <2>4. p = SubSeq(r, 1, m)
    BY <1>1, <2>1, <2>3 DEF m
  <2>5. m <= Len(r)
    BY <1>2, <2>2
  <2>6. QED
    BY <2>4, <2>5, PrefixIsHead DEF m
<1>4. ASSUME Cfg!IsStrictPrefix(q, r) PROVE Cfg!IsStrictPrefix(p, r)
  <2>1. Cfg!IsPrefix(q, r) /\ Len(q) < Len(r)
    BY <1>4, PrefixIsHead DEF Cfg!IsStrictPrefix
  <2>2. Cfg!IsPrefix(p, r) /\ Len(p) < Len(r)
    BY <1>1, <1>2, <1>3, <2>1
  <2>3. QED
    BY <2>2, PrefixIsHead
<1>5. QED
  BY <1>3, <1>4

\* The words of a path; the prover has to be told that the words of Config are some.
Words ==
    STRING \cup {"version", "runtime", "agent_container", "sockets_dir", "socket_path", "models", "broker",
                 "route", "kb", "events_db", "view_db", "security", "confirm_external_actions", "testing",
                 "router", "fastpath_shell", "observability", "metrics_interval_ms", "bus", "auth",
                 "publishers", "action_decision", "allowed_kinds"}

IsDoc(doc) == DOMAIN doc \subseteq Seq(Words)

\* An entry has what the document has at the paths below its own.
LEMMA PartHas ==
    ASSUME NEW doc, IsDoc(doc), NEW r \in Seq(Words), NEW p \in Seq(Words), Cfg!IsPrefix(r, p)
    PROVE  Cfg!At(Cfg!Part(doc, r), p) = Cfg!At(doc, p)
<1> DEFINE part == Cfg!Part(doc, r)
<1>1. /\ DOMAIN part = {q \in DOMAIN doc : Cfg!IsPrefix(r, q)}
      /\ \A q \in DOMAIN part : part[q] = doc[q]
  BY DEF Cfg!Part
<1> HIDE DEF part
<1>2. p \in DOMAIN part <=> p \in DOMAIN doc
  BY <1>1
<1>3. Cfg!ObjectAt(part, p) <=> Cfg!ObjectAt(doc, p)
  <2>1. ASSUME NEW q \in DOMAIN doc, Cfg!IsStrictPrefix(p, q) PROVE Cfg!IsPrefix(r, q)
    <3>1. q \in Seq(Words)
      BY DEF IsDoc
    <3>2. Cfg!IsStrictPrefix(r, q)
      BY <2>1, <3>1, PrefixTransitive
    <3>3. QED
      BY <3>2 DEF Cfg!IsStrictPrefix
  <2>2. QED
    BY <1>1, <2>1 DEF Cfg!ObjectAt
<1>4. QED
  BY <1>1, <1>2, <1>3 DEF Cfg!At, part

\* What no entry is about has not changed.
LEMMA UnlistedStays ==
    ASSUME NEW before, NEW after, IsDoc(before), IsDoc(after), NEW p \in Seq(Words),
           \A e \in Cfg!Diff(before, after) : ~Cfg!IsPrefix(e.path, p)
    PROVE  Cfg!At(before, p) = Cfg!At(after, p)
<1> DEFINE Both(path) == Cfg!ObjectAt(before, path) /\ Cfg!ObjectAt(after, path)
           paths == UNION {Cfg!Prefixes(q) : q \in DOMAIN before \cup DOMAIN after}
           differ == {q \in paths : Cfg!ObjectAt(before, q) # Cfg!ObjectAt(after, q) \/ Cfg!At(before, q) # Cfg!At(after, q)}
           N == Len(p)
           head(k) == SubSeq(p, 1, k)
           K == {k \in 0..N : ~Both(head(k))}
<1> SUFFICES ASSUME Cfg!At(before, p) # Cfg!At(after, p) PROVE FALSE
  OBVIOUS
<1>1. N \in Nat /\ head(N) = p
  BY LenProperties, WholeHead
<1>2. p \in DOMAIN before \cup DOMAIN after
  BY DEF Cfg!At
<1>3. ~Both(p)
  BY DEF Cfg!At
<1>4. \A q \in differ : (\A o \in Cfg!Prefixes(q) \ {q} : Both(o)) => ~Cfg!IsPrefix(q, p)
  <2> SUFFICES ASSUME NEW q \in differ, \A o \in Cfg!Prefixes(q) \ {q} : Both(o)
               PROVE  ~Cfg!IsPrefix(q, p)
    OBVIOUS
  <2> DEFINE e == [path |-> q, value |-> Cfg!Part(after, q)]
  <2>1. e \in Cfg!Diff(before, after)
    BY DEF Cfg!Diff
  <2>2. QED
    BY <2>1
<1> HIDE DEF Both, head
<1>5. N \in K
  BY <1>1, <1>3
<1>6. PICK k \in K : \A j \in K : k <= j
  <2>1. K \in SUBSET Nat /\ K # {}
    BY <1>1, <1>5
  <2> HIDE DEF K
  <2>2. QED
    BY <2>1, SmallestIsIn
<1> DEFINE r == head(k)
<1>7. r \in Seq(Words) /\ Len(r) = k /\ k \in 0..N
  BY Heads DEF head
<1>8. Cfg!Prefixes(r) = {head(j) : j \in 0..k}
  <2>1. Cfg!Prefixes(r) = {SubSeq(r, 1, j) : j \in 0..k}
    BY <1>7 DEF Cfg!Prefixes
  <2>2. \A j \in 0..k : SubSeq(r, 1, j) = head(j)
    BY <1>7, HeadOfHead DEF head
  <2> HIDE DEF r
  <2>3. QED
    BY <2>1, <2>2
<1>9. r \in paths /\ Cfg!IsPrefix(r, p)
  <2>1. r \in Cfg!Prefixes(p)
    BY <1>7 DEF Cfg!Prefixes, head
  <2>2. k <= N
    BY <1>1, <1>7
  <2>3. r = SubSeq(p, 1, k)
    BY DEF head
  <2> HIDE DEF r
  <2>4. Cfg!IsPrefix(r, p)
    BY <1>7, <2>2, <2>3, PrefixIsHead
  <2>5. QED
    BY <1>2, <2>1, <2>4
<1>10. \A o \in Cfg!Prefixes(r) \ {r} : Both(o)
  <2> SUFFICES ASSUME NEW j \in 0..k, head(j) # r PROVE Both(head(j))
    BY <1>8
  <2>1. j # k /\ j \in 0..N /\ j < k
    BY <1>1, <1>7
  <2>2. j \notin K
    BY <1>1, <1>6, <1>7, <2>1
  <2>3. QED
    BY <2>1, <2>2
<1>11. r \notin differ
  <2> HIDE DEF differ, r
  <2>1. QED
    BY <1>4, <1>9, <1>10
<1>12. ~Cfg!ObjectAt(before, r) /\ ~Cfg!ObjectAt(after, r) /\ Cfg!At(before, r) = Cfg!At(after, r)
  <2>1. ~Both(r)
    BY <1>6
  <2> HIDE DEF r, paths
  <2>2. QED
    BY <1>9, <1>11, <2>1 DEF Both
<1>13. r # p
  BY <1>12
<1>14. Cfg!IsStrictPrefix(r, p)
  BY <1>9, <1>13 DEF Cfg!IsStrictPrefix
<1>15. QED
  BY <1>2, <1>12, <1>14 DEF Cfg!ObjectAt

LEMMA ShortSequences ==
    ASSUME NEW S, NEW a \in S, NEW b \in S, NEW c \in S, NEW d \in S, NEW e \in S
    PROVE  <<a>> \in Seq(S) /\ <<a, b>> \in Seq(S) /\ <<a, b, c>> \in Seq(S) /\ <<a, b, c, d, e>> \in Seq(S)
  OBVIOUS

LEMMA FirstOf == ASSUME NEW S, NEW k \in S, NEW v PROVE <<k, v>>[1] \in S
  OBVIOUS

LEMMA DocKeys ==
    ASSUME NEW S, NEW pairs, \A pair \in pairs : pair[1] \in S
    PROVE  DOMAIN Cfg!Doc(pairs) \subseteq S
  BY DEF Cfg!Doc

LEMMA AliasKeys ==
    ASSUME NEW S, <<"kb", "events_db">> \in S, <<"kb", "view_db">> \in S, Cfg!FastpathShell \in S
    PROVE  DOMAIN Cfg!Aliases \subseteq S
<1>1. \A pair \in {<<Cfg!FastpathShell, <<<<"router", "allow_shell_fastpath">>, <<"router", "shell_fastpath">>>>>>,
                    <<<<"kb", "events_db">>, <<<<"kb", "ledger">>>>>>,
                    <<<<"kb", "view_db">>, <<<<"kb", "materialized">>>>>>} : pair[1] \in S
  BY FirstOf, Zenon
<1>2. QED
  BY <1>1, DocKeys DEF Cfg!Aliases

LEMMA DefaultKeys ==
    ASSUME NEW S,
           <<"version">> \in S, <<"runtime", "agent_container">> \in S, <<"runtime", "sockets_dir">> \in S,
           <<"runtime", "socket_path">> \in S, <<"models", "broker", "route">> \in S,
           <<"kb", "events_db">> \in S, <<"kb", "view_db">> \in S,
           <<"security", "confirm_external_actions">> \in S, <<"security", "testing">> \in S,
           <<"router", "fastpath_shell">> \in S, <<"observability", "metrics_interval_ms">> \in S,
           <<"bus", "auth", "publishers", "action_decision", "allowed_kinds">> \in S
    PROVE  DOMAIN Cfg!Defaults \subseteq S
<1>1. \A pair \in {<<<<"version">>, Cfg!Of("int", "1")>>,
                    <<<<"runtime", "agent_container">>, Cfg!Of("string", "wasm32-wasip1")>>,
                    <<<<"runtime", "sockets_dir">>, Cfg!Of("string", "$XDG_RUNTIME_DIR/runloop")>>,
                    <<<<"runtime", "socket_path">>, Cfg!Null>>,
                    <<<<"models", "broker", "route">>, Cfg!Of("routes", "* local")>>,
                    <<<<"kb", "events_db">>, Cfg!Of("string", "events.sqlite")>>,
                    <<<<"kb", "view_db">>, Cfg!Of("string", "pog.sqlite")>>,
                    <<<<"security", "confirm_external_actions">>, Cfg!Of("bool", "true")>>,
                    <<<<"security", "testing">>, Cfg!Null>>,
                    <<<<"router", "fastpath_shell">>, Cfg!Of("bool", "true")>>,
                    <<<<"observability", "metrics_interval_ms">>, Cfg!Of("int", "1000")>>,
                    <<<<"bus", "auth", "publishers", "action_decision", "allowed_kinds">>, Cfg!Of("kinds", "ui tui")>>} :
        pair[1] \in S
  BY FirstOf, Zenon
<1>2. QED
  BY <1>1, DocKeys DEF Cfg!Defaults

\* The keys of the defaults, and the names a file may give them.
LEMMA KeysAreSequences ==
    /\ IsDoc(Cfg!Defaults)
    /\ DOMAIN Cfg!Aliases \subseteq Seq(Words)
    /\ Cfg!FastpathShell \in Seq(Words)
    /\ Seq(STRING) \subseteq Seq(Words)
<1>1. /\ <<"version">> \in Seq(Words) /\ <<"runtime", "agent_container">> \in Seq(Words)
      /\ <<"runtime", "sockets_dir">> \in Seq(Words) /\ <<"runtime", "socket_path">> \in Seq(Words)
      /\ <<"models", "broker", "route">> \in Seq(Words)
  BY ShortSequences DEF Words
<1>2. /\ <<"kb", "events_db">> \in Seq(Words) /\ <<"kb", "view_db">> \in Seq(Words)
      /\ <<"security", "confirm_external_actions">> \in Seq(Words) /\ <<"security", "testing">> \in Seq(Words)
  BY ShortSequences DEF Words
<1>3. /\ <<"router", "fastpath_shell">> \in Seq(Words)
      /\ <<"observability", "metrics_interval_ms">> \in Seq(Words)
      /\ <<"bus", "auth", "publishers", "action_decision", "allowed_kinds">> \in Seq(Words)
  BY ShortSequences DEF Words
<1>4. Cfg!FastpathShell \in Seq(Words)
  BY <1>3, Zenon DEF Cfg!FastpathShell
<1>5. DOMAIN Cfg!Aliases \subseteq Seq(Words)
  BY <1>2, <1>4, AliasKeys
<1>6. DOMAIN Cfg!Defaults \subseteq Seq(Words)
  BY <1>1, <1>2, <1>3, DefaultKeys
<1>7. Seq(STRING) \subseteq Seq(Words)
  BY DEF Words
<1>8. QED
  BY <1>4, <1>5, <1>6, <1>7 DEF IsDoc

LEMMA MergedIsDoc ==
    ASSUME NEW base, NEW patch, IsDoc(base), IsDoc(patch)
    PROVE  IsDoc(Cfg!Merge(base, patch))
  BY DEF Cfg!Merge, IsDoc

LEMMA NormalizedIsDoc ==
    ASSUME NEW doc, IsDoc(doc)
    PROVE  IsDoc(Cfg!Normalize(doc))
<1> DEFINE offered(key) == {i \in DOMAIN Cfg!Aliases[key] : Cfg!Aliases[key][i] \in DOMAIN doc}
           taken == {key \in DOMAIN Cfg!Aliases : offered(key) # {} /\ \A p \in DOMAIN doc : ~Cfg!IsPrefix(key, p)}
<1>1. DOMAIN Cfg!Normalize(doc) = taken \cup (DOMAIN doc \ Cfg!AliasNames)
  BY DEF Cfg!Normalize
<1>2. taken \subseteq Seq(Words)
  BY KeysAreSequences
<1> HIDE DEF taken
<1>3. QED
  BY <1>1, <1>2 DEF IsDoc

LEMMA FileIsDoc ==
    ASSUME NEW world, IsWorld(world), NEW i \in DOMAIN Cfg!Candidates(world)
    PROVE  IsDoc(Cfg!FileDoc(world, Cfg!Candidates(world)[i]))
<1> DEFINE read == world.files[Cfg!Candidates(world)[i]]
           root == <<>>
           nothing == [p \in {root} |-> Cfg!Null]
<1>1. IsDoc(read.doc)
  BY KeysAreSequences DEF IsWorld, IsDoc
<1>2. root \in Seq(Words)
  BY EmptySeq
<1>3. IsDoc(nothing)
  <2> HIDE DEF root
  <2>1. QED
    BY <1>2 DEF IsDoc
<1>4. IsDoc(root)
  <2>1. DOMAIN root = {}
    OBVIOUS
  <2>2. QED
    BY <2>1 DEF IsDoc
<1>5. IsDoc(Cfg!Normalize(read.doc))
  BY <1>1, NormalizedIsDoc
<1>6. Cfg!FileDoc(world, Cfg!Candidates(world)[i]) \in {Cfg!Normalize(read.doc), nothing, root}
  BY DEF Cfg!FileDoc
<1> HIDE DEF root, nothing, read
<1>7. QED
  BY <1>3, <1>4, <1>5, <1>6

LEMMA SetIsDoc ==
    ASSUME NEW doc, IsDoc(doc), NEW path \in Seq(Words), NEW value
    PROVE  IsDoc(Cfg!SetPath(doc, path, value))
  BY DEF Cfg!SetPath, IsDoc

\* What is merged is a sequence of documents that begins with the defaults.
IsStages(d, world) ==
    LET n == Len(Cfg!Candidates(world))
        N == n + Len(world.env)
    IN /\ d[0] = Cfg!Defaults
       /\ \A i \in 0..N : IsDoc(d[i])
       /\ Cfg!Stages(world).files = [i \in 0..n |-> d[i]]
       /\ Cfg!Stages(world).result = d[N]

LEMMA StagesAreDocs ==
    ASSUME NEW world, IsWorld(world)
    PROVE  \E d : IsStages(d, world)
<1> DEFINE names == Cfg!Candidates(world)
           n == Len(names)
           env == world.env
           N == n + Len(env)
           File(i) == Cfg!FileDoc(world, names[i])
           Path(i) == Cfg!EnvPath(env[i - n])
           Step(doc, i) == IF i <= n THEN Cfg!Merge(doc, File(i))
                           ELSE IF Cfg!IsObject(doc) THEN Cfg!SetPath(doc, Path(i), Cfg!EnvValue(env[i - n].raw)) ELSE doc
           Holds(f, m) == f = [i \in 0..m |->
                                 IF i = 0 THEN Cfg!Defaults
                                 ELSE IF i <= n THEN Cfg!Merge(f[i - 1], Cfg!FileDoc(world, names[i]))
                                 ELSE IF Cfg!IsObject(f[i - 1])
                                 THEN Cfg!SetPath(f[i - 1], Cfg!EnvPath(env[i - n]), Cfg!EnvValue(env[i - n].raw))
                                 ELSE f[i - 1]]
           stage == CHOOSE f : Holds(f, N)
<1>1. n \in Nat /\ Len(env) \in Nat /\ N \in Nat /\ DOMAIN names = 1..n
  <2> DEFINE three == <<"xdg", "home", "etc">>
             one == <<world.runloopConfig>>
  <2>1. Len(three) \in Nat /\ DOMAIN three = 1..Len(three) /\ Len(one) \in Nat /\ DOMAIN one = 1..Len(one)
    OBVIOUS
  <2>2. names \in {three, one}
    BY DEF Cfg!Candidates
  <2> HIDE DEF three, one
  <2>3. n \in Nat /\ DOMAIN names = 1..n
    BY <2>1, <2>2
  <2>4. Len(env) \in Nat
    BY DEF IsWorld
  <2>5. QED
    BY <2>3, <2>4
<1>2. \A f, m : Holds(f, m) <=> f = [i \in 0..m |-> IF i = 0 THEN Cfg!Defaults ELSE Step(f[i - 1], i)]
  OBVIOUS
<1>3. \E f : Holds(f, N)
  <2> DEFINE E == {m \in Nat : \E f : Holds(f, m)}
  <2> HIDE DEF Holds, Step, n
  <2>1. 0 \in E
    <3> DEFINE f == [k \in 0..0 |-> Cfg!Defaults]
    <3>1. f = [i \in 0..0 |-> IF i = 0 THEN Cfg!Defaults ELSE Step(f[i - 1], i)]
      OBVIOUS
    <3> HIDE DEF f
    <3>2. Holds(f, 0)
      BY <1>2, <3>1
    <3>3. QED
      BY <3>2
  <2>2. ASSUME NEW m \in Nat, m \in E PROVE m + 1 \in E
    <3>1. PICK f : Holds(f, m)
      BY <2>2
    <3>2. \A k \in 0..m : f[k] = IF k = 0 THEN Cfg!Defaults ELSE Step(f[k - 1], k)
      BY <1>2, <3>1
    <3> DEFINE more == [k \in 0..(m + 1) |-> IF k = m + 1 THEN Step(f[m], m + 1) ELSE f[k]]
    <3>3. \A k \in 0..(m + 1) : more[k] = IF k = 0 THEN Cfg!Defaults ELSE Step(more[k - 1], k)
      BY <3>2
    <3>4. more = [k \in 0..(m + 1) |-> more[k]]
      OBVIOUS
    <3> HIDE DEF more
    <3>5. Holds(more, m + 1)
      BY <1>2, <3>3, <3>4
    <3>6. QED
      BY <3>5
  <2> HIDE DEF E
  <2>3. Nat \subseteq E
    BY <2>1, <2>2, SetInduction
  <2>4. QED
    BY <1>1, <2>3 DEF E
<1>4. Holds(stage, N)
  <2> HIDE DEF Holds, N
  <2>1. QED
    BY <1>3, Zenon
<1>5. Cfg!Stages(world).files = [i \in 0..n |-> stage[i]] /\ Cfg!Stages(world).result = stage[N]
  BY DEF Cfg!Stages
<1>6. \A i \in 1..N : \A doc : IsDoc(doc) => IsDoc(Step(doc, i))
  <2> SUFFICES ASSUME NEW i \in 1..N, NEW doc, IsDoc(doc) PROVE IsDoc(Step(doc, i))
    OBVIOUS
  <2>1. CASE i <= n
    <3>1. i \in DOMAIN names
      BY <1>1, <2>1
    <3>2. IsDoc(File(i))
      BY <3>1, FileIsDoc
    <3> HIDE DEF File
    <3>3. IsDoc(Cfg!Merge(doc, File(i)))
      BY <3>2, MergedIsDoc
    <3>4. QED
      BY <2>1, <3>3
  <2>2. CASE ~(i <= n)
    <3>1. i - n \in DOMAIN env
      <4>1. DOMAIN env = 1..Len(env)
        BY DEF IsWorld
      <4> HIDE DEF env, n
      <4>2. QED
        BY <1>1, <2>2, <4>1
    <3>2. Path(i) \in Seq(Words)
      BY <3>1, KeysAreSequences DEF Cfg!EnvPath, IsWorld
    <3> HIDE DEF Path
    <3>3. \A value : IsDoc(Cfg!SetPath(doc, Path(i), value))
      BY <3>2, SetIsDoc
    <3>4. QED
      BY <2>2, <3>3
  <2>3. QED
    BY <2>1, <2>2
<1>7. \A k \in 0..N : stage[k] = IF k = 0 THEN Cfg!Defaults ELSE Step(stage[k - 1], k)
  <2> HIDE DEF stage, Step, Holds
  <2>1. stage = [i \in 0..N |-> IF i = 0 THEN Cfg!Defaults ELSE Step(stage[i - 1], i)]
    BY <1>2, <1>4
  <2> HIDE DEF N
  <2>2. QED
    BY <2>1
<1> HIDE DEF stage, Step, Holds, N
<1>8. \A k \in 0..N : IsDoc(stage[k])
  <2> DEFINE E == {k \in Nat : k <= N => IsDoc(stage[k])}
  <2>1. 0 \in E
    BY <1>1, <1>7, KeysAreSequences
  <2>2. ASSUME NEW k \in Nat, k \in E PROVE k + 1 \in E
    <3>1. CASE k + 1 <= N
      <4>1. k + 1 \in 1..N /\ k + 1 \in 0..N /\ k + 1 # 0 /\ (k + 1) - 1 = k /\ k <= N
        BY <1>1, <3>1
      <4>2. stage[k + 1] = Step(stage[k], k + 1)
        BY <1>7, <4>1
      <4>3. IsDoc(stage[k])
        BY <2>2, <4>1
      <4>4. IsDoc(stage[k + 1])
        BY <1>6, <4>1, <4>2, <4>3
      <4>5. QED
        BY <4>4
    <3>2. QED
      BY <3>1
  <2> HIDE DEF E
  <2>3. Nat \subseteq E
    BY <2>1, <2>2, SetInduction
  <2>4. QED
    BY <1>1, <2>3 DEF E
<1>9. stage[0] = Cfg!Defaults
  BY <1>1, <1>7
<1>10. IsStages(stage, world)
  BY <1>5, <1>8, <1>9 DEF IsStages, N
<1>11. QED
  BY <1>10

LEMMA StaysSame ==
    ASSUME NEW f, NEW m \in Nat, NEW a \in 0..m, \A k \in (a + 1)..m : f[k - 1] = f[k]
    PROVE  f[m] = f[a]
<1> DEFINE E == {k \in Nat : a + k <= m => f[a + k] = f[a]}
<1>1. 0 \in E
  BY a + 0 = a
<1>2. ASSUME NEW k \in Nat, k \in E PROVE k + 1 \in E
  <2>1. CASE a + (k + 1) <= m
    <3>1. a + (k + 1) \in (a + 1)..m /\ (a + (k + 1)) - 1 = a + k /\ a + k <= m
      BY <2>1
    <3>2. f[a + k] = f[a + (k + 1)]
      BY <3>1
    <3>3. f[a + k] = f[a]
      BY <1>2, <3>1
    <3>4. QED
      BY <3>2, <3>3
  <2>2. QED
    BY <2>1
<1> HIDE DEF E
<1>3. Nat \subseteq E
  BY <1>1, <1>2, SetInduction
<1>4. m - a \in E
  BY <1>3
<1>5. a + (m - a) = m
  OBVIOUS
<1>6. f[a + (m - a)] = f[a]
  <2> DEFINE k == m - a
  <2>1. a + k <= m /\ k \in E
    BY <1>4, <1>5
  <2> HIDE DEF k
  <2>2. f[a + k] = f[a]
    BY <2>1 DEF E
  <2>3. QED
    BY <2>2 DEF k
<1>7. QED
  BY <1>5, <1>6

LEMMA LargestIsIn ==
    ASSUME NEW n \in Nat, NEW T \in SUBSET (1..n), T # {}
    PROVE  \E i \in T : \A j \in T : j <= i
<1> DEFINE U == {x \in Nat : n - x \in T}
<1>1. \A j \in T : j \in 1..n /\ n - j \in Nat /\ n - (n - j) = j /\ n - j \in U
  OBVIOUS
<1>2. U \in SUBSET Nat /\ U # {}
  BY <1>1
<1>3. \A x \in U : x \in Nat /\ n - x \in T
  OBVIOUS
<1> HIDE DEF U
<1>4. PICK x \in U : \A y \in U : x <= y
  BY <1>2, SmallestIsIn
<1>5. \A j \in T : j <= n - x
  BY <1>1, <1>3, <1>4
<1>6. QED
  BY <1>3, <1>4, <1>5

LEMMA EntryOf ==
    ASSUME NEW before, NEW after, IsDoc(before), IsDoc(after), NEW e \in Cfg!Diff(before, after)
    PROVE  e.value = Cfg!Part(after, e.path) /\ e.path \in Seq(Words)
<1>1. PICK q \in UNION {Cfg!Prefixes(o) : o \in DOMAIN before \cup DOMAIN after} :
        e = [path |-> q, value |-> Cfg!Part(after, q)]
  BY DEF Cfg!Diff
<1>2. PICK o \in DOMAIN before \cup DOMAIN after : q \in Cfg!Prefixes(o)
  BY <1>1
<1>3. o \in Seq(Words)
  BY DEF IsDoc
<1>4. PICK k \in 0..Len(o) : q = SubSeq(o, 1, k)
  BY <1>2 DEF Cfg!Prefixes
<1>5. q \in Seq(Words)
  BY <1>3, <1>4, Heads
<1>6. QED
  BY <1>1, <1>5

\* The entries of the layers explain the values of the result.
LEMMA LayersTell ==
    ASSUME NEW world, IsWorld(world)
    PROVE  Cfg!LayersExplain(world)
<1>1. PICK d : IsStages(d, world)
  BY StagesAreDocs
<1> DEFINE n == Len(Cfg!Candidates(world))
           N == n + Len(world.env)
           D(i) == IF i <= n THEN d[i] ELSE d[N]
           layers == Cfg!Layers(world)
           result == Cfg!Stages(world).result
           Entries(i, p) == {e \in layers[i] : Cfg!IsPrefix(e.path, p)}
           Telling(p) == {i \in DOMAIN layers : Entries(i, p) # {}}
<1>2. n \in Nat /\ N \in Nat /\ n <= N
  <2> DEFINE three == <<"xdg", "home", "etc">>
             one == <<world.runloopConfig>>
  <2>1. Len(three) \in Nat /\ Len(one) \in Nat
    OBVIOUS
  <2>2. Cfg!Candidates(world) \in {three, one}
    BY DEF Cfg!Candidates
  <2> HIDE DEF three, one
  <2>3. n \in Nat
    BY <2>1, <2>2
  <2>4. Len(world.env) \in Nat
    BY DEF IsWorld
  <2> HIDE DEF n
  <2>5. QED
    BY <2>3, <2>4
<1>3. /\ d[0] = Cfg!Defaults
      /\ \A i \in 0..N : IsDoc(d[i])
      /\ Cfg!Stages(world).files = [i \in 0..n |-> d[i]]
      /\ result = d[N]
  BY <1>1 DEF IsStages
<1> HIDE DEF result
<1>4. /\ D(0) = Cfg!Defaults /\ D(n + 1) = result
      /\ \A i \in 0..(n + 1) : IsDoc(D(i))
  <2> HIDE DEF n, N
  <2>1. QED
    BY <1>2, <1>3
<1>5. /\ DOMAIN layers = 1..(n + 1)
      /\ \A i \in 1..(n + 1) : layers[i] = Cfg!Diff(D(i - 1), D(i))
  <2>1. layers = [i \in 1..(n + 1) |->
                    IF i <= n THEN Cfg!Diff(Cfg!Stages(world).files[i - 1], Cfg!Stages(world).files[i])
                    ELSE Cfg!Diff(Cfg!Stages(world).files[n], result)]
    BY DEF Cfg!Layers, result
  <2> HIDE DEF layers, n, N
  <2>2. ASSUME NEW i \in 1..(n + 1) PROVE layers[i] = Cfg!Diff(D(i - 1), D(i))
    <3>1. CASE i <= n
      <4>1. i - 1 \in 0..n /\ i \in 0..n /\ i - 1 <= n
        BY <1>2, <3>1
      <4>2. QED
        BY <1>3, <2>1, <3>1, <4>1
    <3>2. CASE ~(i <= n)
      <4>1. i - 1 = n /\ n \in 0..n /\ n <= n
        BY <1>2, <3>2
      <4>2. layers[i] = Cfg!Diff(Cfg!Stages(world).files[n], result)
        BY <2>1, <3>2
      <4>3. QED
        BY <1>3, <3>2, <4>1, <4>2
    <3>3. QED
      BY <3>1, <3>2
  <2>3. QED
    BY <2>1, <2>2
<1> HIDE DEF layers, D, n, N
<1>6. ASSUME NEW p \in DOMAIN result \cup DOMAIN Cfg!Defaults
      PROVE  IF Telling(p) = {} THEN Cfg!At(result, p) = Cfg!At(Cfg!Defaults, p)
             ELSE \E i \in Telling(p) : /\ \A j \in Telling(p) : j <= i
                                        /\ \A e \in Entries(i, p) : Cfg!At(e.value, p) = Cfg!At(result, p)
  <2> DEFINE m == n + 1
             f == [k \in 0..m |-> Cfg!At(D(k), p)]
  <2>1. p \in Seq(Words)
    <3>1. IsDoc(result) /\ IsDoc(Cfg!Defaults)
      BY <1>2, <1>4
    <3>2. QED
      BY <3>1 DEF IsDoc
  <2>2. m \in Nat /\ f[m] = Cfg!At(result, p) /\ f[0] = Cfg!At(Cfg!Defaults, p)
    BY <1>2, <1>4
  <2>3. ASSUME NEW k \in 1..m, k \notin Telling(p) PROVE f[k - 1] = f[k]
    <3>1. k - 1 \in 0..m /\ k \in 0..m
      BY <2>2
    <3>2. \A e \in Cfg!Diff(D(k - 1), D(k)) : ~Cfg!IsPrefix(e.path, p)
      BY <1>5, <2>3
    <3>3. IsDoc(D(k - 1)) /\ IsDoc(D(k))
      BY <1>4, <3>1
    <3>4. Cfg!At(D(k - 1), p) = Cfg!At(D(k), p)
      BY <2>1, <3>2, <3>3, UnlistedStays
    <3>5. QED
      BY <3>1, <3>4
  <2>4. \A k \in 0..m : f[k] = Cfg!At(D(k), p)
    OBVIOUS
  <2>5. Telling(p) \in SUBSET (1..m)
    BY <1>5
  <2>6. \A i \in 1..m : \A e \in Entries(i, p) : Cfg!At(e.value, p) = f[i]
    <3> SUFFICES ASSUME NEW i \in 1..m, NEW e \in Entries(i, p) PROVE Cfg!At(e.value, p) = f[i]
      OBVIOUS
    <3>1. e \in Cfg!Diff(D(i - 1), D(i)) /\ Cfg!IsPrefix(e.path, p)
      BY <1>5
    <3>2. i - 1 \in 0..m /\ i \in 0..m
      BY <2>2
    <3>3. IsDoc(D(i - 1)) /\ IsDoc(D(i))
      BY <1>4, <3>2
    <3>4. e.value = Cfg!Part(D(i), e.path) /\ e.path \in Seq(Words)
      BY <3>1, <3>3, EntryOf
    <3>5. Cfg!At(e.value, p) = Cfg!At(D(i), p)
      BY <2>1, <3>1, <3>3, <3>4, PartHas
    <3>6. QED
      BY <2>4, <3>2, <3>5
  <2> HIDE DEF f, m, Entries
  <2>7. CASE Telling(p) = {}
    <3>1. \A k \in (0 + 1)..m : f[k - 1] = f[k]
      BY <2>3, <2>7
    <3>2. 0 \in 0..m
      BY <2>2
    <3>3. f[m] = f[0]
      BY <2>2, <3>1, <3>2, StaysSame
    <3>4. QED
      BY <2>2, <2>7, <3>3
  <2>8. CASE Telling(p) # {}
    <3> DEFINE T == Telling(p)
    <3>1. T \in SUBSET (1..m) /\ T # {}
      BY <2>5, <2>8
    <3> HIDE DEF T
    <3>2. PICK i \in T : \A j \in T : j <= i
      BY <2>2, <3>1, LargestIsIn
    <3>4. i \in 1..m /\ i \in 0..m
      BY <2>2, <3>1
    <3>5. \A k \in (i + 1)..m : f[k - 1] = f[k]
      <4> SUFFICES ASSUME NEW k \in (i + 1)..m PROVE f[k - 1] = f[k]
        OBVIOUS
      <4>1. k \in 1..m /\ ~(k <= i)
        BY <2>2, <3>4
      <4>2. k \notin Telling(p)
        BY <3>2, <4>1 DEF T
      <4>3. QED
        BY <2>3, <4>1, <4>2
    <3>6. f[m] = f[i]
      BY <2>2, <3>4, <3>5, StaysSame
    <3>7. \A e \in Entries(i, p) : Cfg!At(e.value, p) = Cfg!At(result, p)
      BY <2>2, <2>6, <3>4, <3>6
    <3>8. QED
      BY <2>8, <3>2, <3>7 DEF T
  <2>9. QED
    BY <2>7, <2>8
<1>7. QED
  BY <1>6 DEF Cfg!LayersExplain, layers, result

CatchAll(r) == IF r.star /\ r.literal = 0 THEN 1 ELSE 0
Starred(r) == IF r.star THEN 1 ELSE 0
IsRule(r) == r.star \in BOOLEAN /\ r.literal \in Nat /\ r.rank \in Nat

LEMMA Four ==
    ASSUME NEW a, NEW b, NEW c, NEW d
    PROVE  LET t == <<a, b, c, d>> IN t[1] = a /\ t[2] = b /\ t[3] = c /\ t[4] = d
  OBVIOUS

LEMMA KeyParts ==
    ASSUME NEW r
    PROVE  /\ Cfg!RouteKey(r)[1] = CatchAll(r) /\ Cfg!RouteKey(r)[2] = Starred(r)
           /\ Cfg!RouteKey(r)[3] = -r.literal /\ Cfg!RouteKey(r)[4] = r.rank
<1>1. Cfg!RouteKey(r) = <<CatchAll(r), Starred(r), -r.literal, r.rank>>
  BY DEF Cfg!RouteKey, CatchAll, Starred
<1> HIDE DEF Cfg!RouteKey
<1>2. QED
  BY <1>1, Four

\* The order of the rules, key by key.
LEMMA BeforeByKeys ==
    ASSUME NEW a, NEW b, IsRule(a), IsRule(b)
    PROVE  Cfg!Before(a, b) <=>
              \/ CatchAll(a) < CatchAll(b)
              \/ CatchAll(a) = CatchAll(b) /\ Starred(a) < Starred(b)
              \/ CatchAll(a) = CatchAll(b) /\ Starred(a) = Starred(b) /\ a.literal > b.literal
              \/ CatchAll(a) = CatchAll(b) /\ Starred(a) = Starred(b) /\ a.literal = b.literal /\ a.rank < b.rank
<1> DEFINE k == Cfg!RouteKey(a)
           l == Cfg!RouteKey(b)
<1>1. /\ k[1] = CatchAll(a) /\ k[2] = Starred(a) /\ k[3] = -a.literal /\ k[4] = a.rank
      /\ l[1] = CatchAll(b) /\ l[2] = Starred(b) /\ l[3] = -b.literal /\ l[4] = b.rank
  BY KeyParts
<1>2. Cfg!Before(a, b) <=> \E i \in 1..4 : k[i] < l[i] /\ \A j \in 1..(i - 1) : k[j] = l[j]
  BY DEF Cfg!Before
<1> HIDE DEF k, l
<1>3. /\ 1..4 = {1, 2, 3, 4} /\ 1..(1 - 1) = {} /\ 1..(2 - 1) = {1}
      /\ 1..(3 - 1) = {1, 2} /\ 1..(4 - 1) = {1, 2, 3}
  OBVIOUS
<1>4. Cfg!Before(a, b) <=> \/ k[1] < l[1]
                           \/ k[1] = l[1] /\ k[2] < l[2]
                           \/ k[1] = l[1] /\ k[2] = l[2] /\ k[3] < l[3]
                           \/ k[1] = l[1] /\ k[2] = l[2] /\ k[3] = l[3] /\ k[4] < l[4]
  BY <1>2, <1>3
<1>5. a.literal \in Nat /\ b.literal \in Nat
  BY DEF IsRule
<1>6. QED
  BY <1>1, <1>4, <1>5

LEMMA LeastBy ==
    ASSUME NEW T, T # {}, NEW f, \A x \in T : f[x] \in Nat
    PROVE  \E x \in T : \A y \in T : f[x] <= f[y]
<1> DEFINE V == {f[x] : x \in T}
<1>1. V \in SUBSET Nat /\ V # {} /\ (\A v \in V : \E x \in T : v = f[x]) /\ \A x \in T : f[x] \in V
  OBVIOUS
<1> HIDE DEF V
<1>2. PICK v \in V : \A w \in V : v <= w
  BY <1>1, SmallestIsIn
<1>3. QED
  BY <1>1, <1>2

\* Of the rules that match, one is before all others.
LEMMA FirstRule ==
    ASSUME NEW hits, hits # {}, NEW bound \in Nat,
           \A r \in hits : IsRule(r) /\ r.literal <= bound,
           \A r, other \in hits : r.rank = other.rank => r = other
    PROVE  \E r \in hits : \A other \in hits \ {r} : Cfg!Before(r, other)
<1> DEFINE f1 == [r \in hits |-> CatchAll(r)]
           f2 == [r \in hits |-> Starred(r)]
           f3 == [r \in hits |-> bound - r.literal]
           f4 == [r \in hits |-> r.rank]
<1>1. ASSUME NEW r \in hits
      PROVE  /\ f1[r] = CatchAll(r) /\ f2[r] = Starred(r) /\ f3[r] = bound - r.literal /\ f4[r] = r.rank
             /\ CatchAll(r) \in Nat /\ Starred(r) \in Nat /\ r.literal \in Nat /\ r.literal <= bound /\ r.rank \in Nat
  BY DEF CatchAll, Starred, IsRule
<1>2. ASSUME NEW r \in hits PROVE f1[r] \in Nat /\ f2[r] \in Nat /\ f3[r] \in Nat /\ f4[r] \in Nat
  BY <1>1
<1> HIDE DEF f1, f2, f3, f4
<1>3. PICK a \in hits : \A r \in hits : f1[a] <= f1[r]
  BY <1>2, LeastBy
<1> DEFINE H1 == {r \in hits : f1[r] = f1[a]}
<1>4. PICK b \in H1 : \A r \in H1 : f2[b] <= f2[r]
  <2>1. a \in H1 /\ \A r \in H1 : f2[r] \in Nat
    BY <1>2
  <2> HIDE DEF H1
  <2>2. QED
    BY <2>1, LeastBy
<1> DEFINE H2 == {r \in H1 : f2[r] = f2[b]}
<1>5. PICK c \in H2 : \A r \in H2 : f3[c] <= f3[r]
  <2>1. b \in H2 /\ \A r \in H2 : f3[r] \in Nat
    BY <1>2
  <2> HIDE DEF H2
  <2>2. QED
    BY <2>1, LeastBy
<1> DEFINE H3 == {r \in H2 : f3[r] = f3[c]}
<1>6. PICK d \in H3 : \A r \in H3 : f4[d] <= f4[r]
  <2>1. c \in H3 /\ \A r \in H3 : f4[r] \in Nat
    BY <1>2
  <2> HIDE DEF H3
  <2>2. QED
    BY <2>1, LeastBy
<1>7. d \in hits /\ f1[d] = f1[a] /\ f2[d] = f2[b] /\ f3[d] = f3[c]
  OBVIOUS
<1>8. ASSUME NEW r \in hits \ {d} PROVE Cfg!Before(d, r)
  <2>1. d.rank # r.rank
    BY <1>7
  <2>2. f1[d] <= f1[r]
    BY <1>3, <1>7
  <2>3. f1[d] = f1[r] => f2[d] <= f2[r]
    BY <1>4, <1>7
  <2>4. f1[d] = f1[r] /\ f2[d] = f2[r] => f3[d] <= f3[r]
    BY <1>5, <1>7
  <2>5. f1[d] = f1[r] /\ f2[d] = f2[r] /\ f3[d] = f3[r] => f4[d] <= f4[r]
    BY <1>6, <1>7
  <2> HIDE DEF H1, H2, H3
  <2>6. IsRule(d) /\ IsRule(r)
    BY <1>7
  <2>7. CatchAll(d) <= CatchAll(r)
    BY <1>1, <1>7, <2>2
  <2>8. CatchAll(d) = CatchAll(r) => Starred(d) <= Starred(r)
    BY <1>1, <1>7, <2>3
  <2>9. CatchAll(d) = CatchAll(r) /\ Starred(d) = Starred(r) => d.literal >= r.literal
    BY <1>1, <1>7, <2>4
  <2>10. CatchAll(d) = CatchAll(r) /\ Starred(d) = Starred(r) /\ d.literal = r.literal => d.rank <= r.rank
    BY <1>1, <1>7, <2>5
  <2>11. /\ CatchAll(d) \in Nat /\ Starred(d) \in Nat /\ d.literal \in Nat /\ d.rank \in Nat
         /\ CatchAll(r) \in Nat /\ Starred(r) \in Nat /\ r.literal \in Nat /\ r.rank \in Nat
    BY <1>1, <1>7
  <2>12. QED
    BY <2>1, <2>6, <2>7, <2>8, <2>9, <2>10, <2>11, BeforeByKeys
<1>9. QED
  BY <1>7, <1>8

\* A model is sent by the rule that says the most of its name.
LEMMA RouteSaysMost ==
    ASSUME NEW routing, IsRouting(routing)
    PROVE  Cfg!MostSpecificRoute(routing.map, routing.model)
<1> DEFINE hits == {r \in routing.map : Cfg!RouteMatches(r, routing.model)}
           first == CHOOSE r \in hits : \A other \in hits \ {r} : Cfg!Before(r, other)
           bound == Len(routing.model)
<1> SUFFICES ASSUME hits # {} PROVE first \in hits /\ \A r \in hits : first.literal >= r.literal
  BY DEF Cfg!MostSpecificRoute, Cfg!RouteOf
<1>1. /\ bound \in Nat
      /\ \A r \in hits : IsRule(r) /\ r.literal <= bound /\ (~r.star => r.literal = bound)
      /\ \A r, other \in hits : r.rank = other.rank => r = other
  BY DEF IsRouting, IsRule, Cfg!RouteMatches
<1> HIDE DEF hits, bound
<1>2. \E r \in hits : \A other \in hits \ {r} : Cfg!Before(r, other)
  BY <1>1, FirstRule
<1>3. first \in hits /\ \A other \in hits \ {first} : Cfg!Before(first, other)
  BY <1>2
<1> HIDE DEF first
<1>4. ASSUME NEW r \in hits PROVE first.literal >= r.literal
  <2>1. first.literal \in Nat /\ r.literal \in Nat /\ IsRule(first) /\ IsRule(r)
    BY <1>1, <1>3 DEF IsRule
  <2>2. CASE r = first
    BY <2>1, <2>2
  <2>3. CASE r # first
    <3>1. Cfg!Before(first, r)
      BY <1>3, <2>3
    <3>2. CASE ~first.star
      BY <1>1, <1>3, <2>1, <3>2
    <3>3. CASE first.star
      <4>1. \/ CatchAll(first) < CatchAll(r)
            \/ CatchAll(first) = CatchAll(r) /\ Starred(first) < Starred(r)
            \/ CatchAll(first) = CatchAll(r) /\ Starred(first) = Starred(r) /\ first.literal >= r.literal
        BY <2>1, <3>1, BeforeByKeys
      <4>2. CASE r.star
        BY <2>1, <3>3, <4>1, <4>2 DEF CatchAll, Starred
      <4>3. CASE ~r.star
        <5>1. CatchAll(r) = 0 /\ Starred(r) = 0 /\ Starred(first) = 1
          BY <3>3, <4>3 DEF CatchAll, Starred
        <5>2. CatchAll(first) \in {0, 1}
          BY DEF CatchAll
        <5>3. QED
          BY <4>1, <5>1, <5>2
      <4>4. QED
        BY <4>2, <4>3
    <3>4. QED
      BY <3>2, <3>3, <2>1 DEF IsRule
  <2>4. QED
    BY <2>2, <2>3
<1>5. QED
  BY <1>3, <1>4

\* The layers of the configuration explain its values (load_with_layers, diff_values):
\* at what no entry of a layer is about it has not changed anything, and an entry has
\* what its stage has at all paths below its own.  The rules of a map are in an order
\* that is total, and its first that matches says the most of a model's name
\* (deserialize_route).
THEOREM LayersExplained == TablesSpec => []LayersExplain
<1> DEFINE Inv == /\ case.table = "config" => case.in \in Worlds
                  /\ case.table = "routes" => case.in \in Routings
<1>1. TablesInit => Inv
  BY DEF TablesInit
<1>2. Inv /\ [TablesNext]_case => Inv'
  BY DEF TablesNext, Input
<1>3. Inv => LayersExplain
  <2>1. ASSUME NEW world \in Worlds PROVE Cfg!LayersExplain(world)
    BY ConfigAssumption, LayersTell
  <2>2. ASSUME NEW routing \in Routings PROVE Cfg!MostSpecificRoute(routing.map, routing.model)
    BY ConfigAssumption, RouteSaysMost
  <2>3. QED
    BY <2>1, <2>2 DEF LayersExplain
<1>4. QED
  BY <1>1, <1>2, <1>3, PTL DEF TablesSpec

-----------------------------------------------------------------------------
(* The readiness handshake *)

Acks == {"none", "notify", "recv"}
Events == Acks \cup {"cap_denied", "spawn_failed"}
GuestPlaces == {"none", "prepare", "run", "store", "try", "trapped", "failing", "ended"}
SpawnerPlaces == {"start", "startup", "join", "bus", "host", "complete", "ready", "returned"}
Outcomes == {"none", "ok", "secrets_missing", "spawn_failed", "ready_timeout", "cap_denied"}

HandshakeType ==
    /\ guest \in [at : GuestPlaces, todo : {guest.todo}, ack : Acks, error : {"none", "cap", "other"}]
    /\ spawner \in [at : SpawnerPlaces, outcome : Outcomes]
    /\ barrier \in [host : BOOLEAN, guest : BOOLEAN, ack : Acks, completed : BOOLEAN, event : Events]
    /\ startup \in {"none", "ready", "failed"}
    /\ bus \in [at : {"none", "subscribe", "listen", "over"}, answer : {"none", "ok", "error"},
                topic : {bus.topic}, abort : BOOLEAN]

\* The guest's side: its first acknowledgement is stored before it goes on, and
\* Ready is signalled by a thread that ends without an error.
GuestSide ==
    /\ barrier.guest <=> guest.ack # "none"
    /\ guest.at # "store" => barrier.ack = guest.ack
    /\ guest.error # "none" => guest.at \in {"trapped", "failing", "ended"}
    /\ startup = "ready" => guest.at = "ended" /\ guest.error = "none"

\* The host's side: it signals only after the guest's thread and the bus task have.
HostSide ==
    /\ spawner.at = "start" => guest.at = "none"
    /\ spawner.at \in {"start", "startup", "join"} => bus.at = "none" /\ bus.answer = "none"
    /\ spawner.at \in {"bus", "host", "complete", "ready"} => startup = "ready"
    /\ setup.bus /\ spawner.at \in {"host", "complete", "ready"} => bus.answer = "ok"
    /\ bus.answer = "ok" => bus.at \notin {"none", "subscribe"}
    /\ barrier.host => startup = "ready"
    /\ barrier.host /\ spawner.at # "returned" => spawner.at \in {"complete", "ready"}

\* The barrier opens with both, and on the guest's acknowledgement.
BarrierOpens ==
    /\ barrier.event # "none" => barrier.completed
    /\ barrier.event \in {"notify", "recv"} => barrier.host /\ barrier.event = guest.ack

HandshakeInv ==
    /\ HandshakeType /\ GuestSide /\ HostSide /\ BarrierOpens
    /\ spawner.outcome # "none" => spawner.at = "returned"
    /\ ReadyGate

-----------------------------------------------------------------------------
LEMMA InitHolds == Init => HandshakeInv
  BY DEF Init, HandshakeInv, HandshakeType, GuestSide, HostSide, BarrierOpens, ReadyGate,
     Acks, Events, GuestPlaces, SpawnerPlaces, Outcomes

\* A step that leaves the barrier, the start-up signal, the spawner, the bus task's
\* answer and the map alone, and of the guest all but what is left to do.
LEMMA GuestGoesOn ==
    ASSUME HandshakeInv, guest.at = "run",
           guest' = [guest EXCEPT !.todo = Rest],
           UNCHANGED <<setup, spawner, barrier, startup, bus, agents>>
    PROVE  HandshakeInv'
  BY DEF HandshakeInv, HandshakeType, GuestSide, HostSide, BarrierOpens, ReadyGate, GuestPlaces

LEMMA GuestTraps ==
    ASSUME HandshakeInv, guest.at = "run", NEW error \in {"cap", "other"}, Traps(error),
           UNCHANGED <<setup, spawner, barrier, startup, bus, agents>>
    PROVE  HandshakeInv'
  BY DEF HandshakeInv, HandshakeType, GuestSide, HostSide, BarrierOpens, ReadyGate, GuestPlaces, Traps

LEMMA GuestSignals ==
    ASSUME HandshakeInv, guest.at = "run", NEW ack \in {"notify", "recv"}, SignalGuest(ack),
           UNCHANGED <<setup, spawner, startup, bus, agents>>
    PROVE  HandshakeInv'
  <1>1. HandshakeType /\ guest.at = "run" /\ guest.error = "none" /\ barrier.ack = guest.ack
    BY DEF HandshakeInv, HandshakeType, GuestSide
  <1>2. /\ guest'.error = "none" /\ guest'.todo = Rest
        /\ barrier' = [barrier EXCEPT !.guest = TRUE]
        /\ barrier.guest => guest'.at = "run" /\ guest'.ack = guest.ack
        /\ ~barrier.guest => guest'.at = "store" /\ guest'.ack = ack
    BY <1>1 DEF SignalGuest, HandshakeType
  <1>3. /\ barrier'.guest /\ barrier'.ack = barrier.ack /\ barrier'.host = barrier.host
        /\ barrier'.event = barrier.event /\ barrier'.completed = barrier.completed
    BY <1>1, <1>2 DEF HandshakeType
  <1>4. startup # "ready" /\ ~barrier.host /\ spawner.outcome # "ok" /\ ~agents
    BY <1>1 DEF HandshakeInv, GuestSide, HostSide, ReadyGate
  <1>5. HandshakeType'
    <2>1. guest' \in [at : GuestPlaces, todo : {guest'.todo}, ack : Acks, error : {"none", "cap", "other"}]
      BY <1>1, <1>2 DEF SignalGuest, HandshakeType, GuestPlaces, Acks
    <2>2. QED
      BY <1>1, <1>2, <2>1 DEF HandshakeType
  <1>6. GuestSide'
    BY <1>1, <1>2, <1>3, <1>4 DEF HandshakeInv, GuestSide
  <1>7. HostSide'
    BY <1>1, <1>3, <1>4 DEF HandshakeInv, HostSide
  <1>8. BarrierOpens'
    BY <1>3, <1>4 DEF HandshakeInv, BarrierOpens
  <1>9. ReadyGate'
    BY <1>4 DEF ReadyGate
  <1> QED
    BY <1>5, <1>6, <1>7, <1>8, <1>9 DEF HandshakeInv

LEMMA GuestKeeps ==
    ASSUME HandshakeInv, Guest
    PROVE  HandshakeInv'
  <1>1. CASE Prepare
    <2>1. CASE startup' = "failed" /\ guest' = [guest EXCEPT !.at = "ended", !.error = "other"]
      BY <1>1, <2>1 DEF Prepare, HandshakeInv, HandshakeType, GuestSide, HostSide, BarrierOpens, ReadyGate, GuestPlaces
    <2>2. CASE guest' = [guest EXCEPT !.at = "run"] /\ UNCHANGED startup
      BY <1>1, <2>2 DEF Prepare, HandshakeInv, HandshakeType, GuestSide, HostSide, BarrierOpens, ReadyGate, GuestPlaces
    <2> QED
      BY <1>1, <2>1, <2>2 DEF Prepare
  <1>2. CASE Hostcall
    BY <1>2, GuestTraps, GuestGoesOn DEF Hostcall, Calls, Continues
  <1>3. CASE NotifyReady
    BY <1>3, GuestSignals DEF NotifyReady, Calls
  <1>4. CASE MailboxRecv
    BY <1>4, GuestSignals DEF MailboxRecv, Calls
  <1>5. CASE PeekMeta
    BY <1>5, GuestGoesOn DEF PeekMeta, Calls, Continues
  <1>6. CASE StoreAck
    BY <1>6 DEF StoreAck, HandshakeInv, HandshakeType, GuestSide, HostSide, BarrierOpens, ReadyGate, GuestPlaces
  <1>7. CASE GuestCompletes
    BY <1>7 DEF GuestCompletes, TryComplete, Finish, HandshakeInv, HandshakeType, GuestSide, HostSide,
       BarrierOpens, ReadyGate, GuestPlaces, Acks, Events
  <1>8. CASE Trap
    BY <1>8, GuestTraps DEF Trap, Calls
  <1>9. CASE Unwind
    <2>1. /\ guest.at = "trapped" /\ guest' = [guest EXCEPT !.at = "failing"]
          /\ UNCHANGED <<setup, spawner, startup, bus, agents>>
      BY <1>9 DEF Unwind
    <2>2. \/ UNCHANGED barrier
          \/ \E event \in {"cap_denied", "spawn_failed"} :
                barrier' = [barrier EXCEPT !.completed = TRUE, !.event = event]
      BY <1>9 DEF Unwind, Finish
    <2>3. HandshakeType' /\ BarrierOpens' /\ barrier'.guest = barrier.guest
          /\ barrier'.host = barrier.host /\ barrier'.ack = barrier.ack
      BY <2>1, <2>2 DEF HandshakeInv, HandshakeType, BarrierOpens, GuestPlaces, Events
    <2> QED
      BY <2>1, <2>3 DEF HandshakeInv, HandshakeType, GuestSide, HostSide, ReadyGate
  <1>10. CASE GuestEnds
    BY <1>10 DEF GuestEnds, Ends, HandshakeInv, HandshakeType, GuestSide, HostSide, BarrierOpens,
       ReadyGate, GuestPlaces
  <1> QED
    BY <1>1, <1>2, <1>3, <1>4, <1>5, <1>6, <1>7, <1>8, <1>9, <1>10 DEF Guest

\* cleanup_spawn_failure, with whatever outcome but success.
LEMMA FailureKeeps ==
    ASSUME HandshakeInv, spawner.at # "returned", NEW outcome \in Outcomes \ {"none", "ok"}, Returns(outcome),
           UNCHANGED <<setup, guest, barrier, startup, agents>>,
           bus' = [bus EXCEPT !.abort = bus.at # "none"] \/ UNCHANGED bus
    PROVE  HandshakeInv'
  <1>1. spawner' = [at |-> "returned", outcome |-> outcome] /\ ~agents
    BY DEF Returns, HandshakeInv, HandshakeType, ReadyGate
  <1>2. bus' \in [at : {"none", "subscribe", "listen", "over"}, answer : {"none", "ok", "error"},
                 topic : {bus'.topic}, abort : BOOLEAN]
        /\ bus'.at = bus.at /\ bus'.answer = bus.answer
    <2>1. CASE bus' = [bus EXCEPT !.abort = bus.at # "none"]
      BY <2>1 DEF HandshakeInv, HandshakeType
    <2>2. CASE UNCHANGED bus
      BY <2>2 DEF HandshakeInv, HandshakeType
    <2> QED
      BY <2>1, <2>2
  <1>3. HandshakeType'
    BY <1>1, <1>2 DEF HandshakeInv, HandshakeType, SpawnerPlaces
  <1>4. GuestSide' /\ BarrierOpens'
    BY <1>1 DEF HandshakeInv, GuestSide, BarrierOpens
  <1>5. HostSide'
    BY <1>1, <1>2 DEF HandshakeInv, HostSide
  <1> QED
    BY <1>1, <1>3, <1>4, <1>5 DEF HandshakeInv, ReadyGate

LEMMA SpawnerKeeps ==
    ASSUME HandshakeInv, Spawner
    PROVE  HandshakeInv'
  <1>1. CASE Launch
    <2>1. CASE Returns("secrets_missing") \/ Returns("spawn_failed")
      BY <1>1, <2>1, FailureKeeps DEF Launch, Outcomes, Returns
    <2>2. CASE /\ spawner' = [spawner EXCEPT !.at = "startup"]
               /\ guest' = [guest EXCEPT !.at = "prepare"]
      BY <1>1, <2>2 DEF Launch, HandshakeInv, HandshakeType, GuestSide, HostSide, BarrierOpens,
         ReadyGate, GuestPlaces, SpawnerPlaces
    <2> QED
      BY <1>1, <2>1, <2>2 DEF Launch
  <1>2. CASE AwaitStartup
    <2>1. CASE Fails("ready_timeout")
      BY <1>2, <2>1, FailureKeeps DEF AwaitStartup, Fails, Outcomes
    <2>2. CASE /\ spawner' \in {[spawner EXCEPT !.at = "join"], [spawner EXCEPT !.at = "bus"]}
               /\ UNCHANGED bus \/ bus' = [bus EXCEPT !.at = "subscribe"]
      BY <1>2, <2>2 DEF AwaitStartup, Fails, Returns, HandshakeInv, HandshakeType, GuestSide, HostSide, BarrierOpens,
         ReadyGate, SpawnerPlaces
    <2> QED
      BY <1>2, <2>1, <2>2 DEF AwaitStartup
  <1>3. CASE JoinFailed
    BY <1>3, FailureKeeps DEF JoinFailed, Fails, Outcomes
  <1>4. CASE AwaitBus
    <2>1. CASE Fails("spawn_failed")
      BY <1>4, <2>1, FailureKeeps DEF AwaitBus, Fails, Outcomes
    <2>2. CASE (~setup.bus \/ bus.answer = "ok") /\ spawner' = [spawner EXCEPT !.at = "host"] /\ UNCHANGED bus
      BY <1>4, <2>2 DEF AwaitBus, HandshakeInv, HandshakeType, GuestSide, HostSide, BarrierOpens,
         ReadyGate, SpawnerPlaces
    <2> QED
      BY <1>4, <2>1, <2>2 DEF AwaitBus
  <1>5. CASE SignalHostReady
    BY <1>5 DEF SignalHostReady, HandshakeInv, HandshakeType, GuestSide, HostSide, BarrierOpens,
       ReadyGate, SpawnerPlaces
  <1>6. CASE HostCompletes
    <2>1. /\ spawner' = [spawner EXCEPT !.at = "ready"] /\ spawner.at = "complete" /\ ~agents
          /\ UNCHANGED <<setup, guest, startup, bus, agents>>
      BY <1>6 DEF HostCompletes, HandshakeInv, ReadyGate
    <2>2. barrier.guest /\ barrier.host => barrier.ack = guest.ack /\ barrier.ack \in {"notify", "recv"}
      BY <1>6 DEF HandshakeInv, HandshakeType, GuestSide, HostSide, Acks
    <2>3. \/ UNCHANGED barrier
          \/ /\ barrier' = [barrier EXCEPT !.completed = TRUE, !.event = barrier.ack]
             /\ barrier.host /\ barrier.guest
      BY <1>6, <2>2 DEF HostCompletes, TryComplete, Finish
    <2>4. HandshakeType' /\ GuestSide' /\ BarrierOpens' /\ barrier'.host = barrier.host
      <3>1. CASE UNCHANGED barrier
        BY <2>1, <3>1 DEF HandshakeInv, HandshakeType, GuestSide, BarrierOpens, SpawnerPlaces
      <3>2. CASE /\ barrier' = [barrier EXCEPT !.completed = TRUE, !.event = barrier.ack]
                 /\ barrier.host /\ barrier.guest
        <4>1. barrier.ack \in Events /\ barrier.ack = guest.ack
          BY <2>2, <3>2 DEF Events, Acks
        <4>2. barrier' = [host |-> TRUE, guest |-> TRUE, ack |-> guest.ack, completed |-> TRUE, event |-> guest.ack]
          BY <3>2, <4>1 DEF HandshakeInv, HandshakeType
        <4>3. HandshakeType'
          BY <2>1, <4>1, <4>2 DEF HandshakeInv, HandshakeType, SpawnerPlaces
        <4> QED
          BY <2>1, <2>2, <3>2, <4>2, <4>3 DEF HandshakeInv, HandshakeType, GuestSide, BarrierOpens
      <3> QED
        BY <2>3, <3>1, <3>2
    <2>5. HostSide'
      BY <2>1, <2>4 DEF HandshakeInv, HandshakeType, HostSide
    <2> QED
      BY <2>1, <2>4, <2>5 DEF HandshakeInv, HandshakeType, ReadyGate
  <1>7. CASE AwaitReady
    <2>1. CASE Fails("ready_timeout") /\ UNCHANGED agents
      BY <1>7, <2>1, FailureKeeps DEF AwaitReady, Fails, Outcomes
    <2>3. CASE barrier.event \in {"cap_denied", "spawn_failed"} /\ Fails(barrier.event) /\ UNCHANGED agents
      BY <1>7, <2>3, FailureKeeps DEF AwaitReady, Fails, Outcomes
    <2>2. CASE barrier.event \in {"notify", "recv"} /\ Returns("ok") /\ UNCHANGED bus
      BY <1>7, <2>2 DEF AwaitReady, Returns, HandshakeInv, HandshakeType, GuestSide, HostSide, BarrierOpens,
         ReadyGate, SpawnerPlaces, Outcomes
    <2> QED
      BY <1>7, <2>1, <2>2, <2>3 DEF AwaitReady
  <1> QED
    BY <1>1, <1>2, <1>3, <1>4, <1>5, <1>6, <1>7 DEF Spawner

\* A step of the bus task: it does not take back that it subscribed, and completes the
\* barrier only with a failure.
LEMMA BusTaskKeeps ==
    ASSUME HandshakeInv, bus.at \in {"subscribe", "listen"},
           UNCHANGED <<setup, guest, spawner, startup, agents>>,
           bus'.at \in {"listen", "over"}, bus'.answer \in {"none", "ok", "error"},
           bus' = [bus EXCEPT !.at = bus'.at, !.answer = bus'.answer, !.topic = bus'.topic],
           bus.answer = "ok" => bus'.answer = "ok",
           \/ UNCHANGED barrier
           \/ ~barrier.completed /\ barrier' = [barrier EXCEPT !.completed = TRUE, !.event = "spawn_failed"]
    PROVE  HandshakeInv'
  <1>1. bus' \in [at : {"none", "subscribe", "listen", "over"}, answer : {"none", "ok", "error"},
                  topic : {bus'.topic}, abort : BOOLEAN]
    BY DEF HandshakeInv, HandshakeType
  <1>2. /\ barrier' \in [host : BOOLEAN, guest : BOOLEAN, ack : Acks, completed : BOOLEAN, event : Events]
        /\ barrier'.host = barrier.host /\ barrier'.guest = barrier.guest /\ barrier'.ack = barrier.ack
        /\ \/ barrier'.event = barrier.event
           \/ ~barrier.completed /\ barrier'.completed /\ barrier'.event = "spawn_failed"
        /\ barrier.completed => barrier'.completed
    BY DEF HandshakeInv, HandshakeType, Events
  <1>3. HandshakeType' /\ GuestSide'
    BY <1>1, <1>2 DEF HandshakeInv, HandshakeType, GuestSide
  <1>4. BarrierOpens'
    BY <1>2 DEF HandshakeInv, BarrierOpens
  <1>5. HostSide'
    <2>1. spawner.at \notin {"start", "startup", "join"}
      BY DEF HandshakeInv, HostSide
    <2>2. QED
      BY <1>2, <2>1 DEF HandshakeInv, HostSide
  <1>6. ReadyGate' /\ (spawner'.outcome # "none" => spawner'.at = "returned")
    <2>1. spawner.outcome = "ok" => barrier.event # "none" /\ barrier.completed
      BY DEF HandshakeInv, ReadyGate, BarrierOpens
    <2>2. QED
      BY <1>2, <2>1 DEF HandshakeInv, ReadyGate
  <1> QED
    BY <1>3, <1>4, <1>5, <1>6 DEF HandshakeInv

LEMMA OthersKeep ==
    ASSUME HandshakeInv, Tick \/ BusTask \/ Send \/ Kill \/ KillJoins
    PROVE  HandshakeInv'
  <1>1. CASE Tick \/ KillJoins
    BY <1>1 DEF Tick, KillJoins, HandshakeInv, HandshakeType, GuestSide, HostSide, BarrierOpens, ReadyGate
  <1>2. CASE Subscribe
    <2>1. bus.at = "subscribe" /\ UNCHANGED <<setup, guest, spawner, startup, agents>>
      BY <1>2 DEF Subscribe
    <2>2. \/ bus' = [bus EXCEPT !.at = "listen", !.answer = "ok"] /\ UNCHANGED barrier
          \/ bus' = [bus EXCEPT !.at = "over", !.answer = "error"] /\ barrier' = Finish(barrier, "spawn_failed")
      BY <1>2 DEF Subscribe
    <2>3. bus.answer # "ok" /\ bus \in [at : {bus.at}, answer : {bus.answer}, topic : {bus.topic}, abort : BOOLEAN]
      BY <2>1 DEF HandshakeInv, HandshakeType, HostSide
    <2>4. /\ bus'.at \in {"listen", "over"} /\ bus'.answer \in {"none", "ok", "error"}
          /\ bus' = [bus EXCEPT !.at = bus'.at, !.answer = bus'.answer, !.topic = bus'.topic]
      BY <2>2, <2>3
    <2>5. \/ UNCHANGED barrier
          \/ ~barrier.completed /\ barrier' = [barrier EXCEPT !.completed = TRUE, !.event = "spawn_failed"]
      BY <2>2 DEF Finish
    <2> QED
      BY <2>1, <2>3, <2>4, <2>5, BusTaskKeeps
  <1>3. CASE Forward
    <2>1. bus.at = "listen" /\ UNCHANGED <<setup, guest, spawner, barrier, startup, agents>>
      BY <1>3 DEF Forward
    <2>2. bus' = [bus EXCEPT !.topic = bus.topic - 1] \/ bus' = [bus EXCEPT !.at = "over", !.topic = 0]
      BY <1>3 DEF Forward
    <2> QED
      BY <2>1, <2>2, BusTaskKeeps DEF HandshakeInv, HandshakeType
  <1>4. CASE Aborted
    BY <1>4, BusTaskKeeps DEF Aborted, HandshakeInv, HandshakeType
  <1>5. CASE Send
    BY <1>5 DEF Send, HandshakeInv, HandshakeType, GuestSide, HostSide, BarrierOpens, ReadyGate
  <1>6. CASE Kill
    BY <1>6 DEF Kill, HandshakeInv, HandshakeType, GuestSide, HostSide, BarrierOpens, ReadyGate
  <1> QED
    BY <1>1, <1>2, <1>3, <1>4, <1>5, <1>6 DEF BusTask

\* An agent is visible, and its spawn a success, only after its _start ended without
\* an error, the bus task subscribed and the guest acknowledged; the acknowledgement
\* reported is the guest's first (Runtime::spawn, ReadyBarrier).
THEOREM AgentsAreReady == Spec => []ReadyGate
  <1>1. HandshakeInv /\ [Next]_vars => HandshakeInv'
    <2> SUFFICES ASSUME HandshakeInv, [Next]_vars PROVE HandshakeInv'
      OBVIOUS
    <2>1. CASE UNCHANGED vars
      BY <2>1 DEF vars, HandshakeInv, HandshakeType, GuestSide, HostSide, BarrierOpens, ReadyGate
    <2> QED
      BY <2>1, GuestKeeps, SpawnerKeeps, OthersKeep DEF Next
  <1>2. HandshakeInv => ReadyGate
    BY DEF HandshakeInv
  <1> QED
    BY <1>1, <1>2, InitHolds, PTL DEF Spec
=============================================================================
