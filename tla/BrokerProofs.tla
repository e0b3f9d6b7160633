---------------------------- MODULE BrokerProofs ----------------------------
(***************************************************************************)
(* The cache and the budgets of the model broker, for every set of callers *)
(* and requests, every configuration and whatever the providers answer.    *)
(***************************************************************************)
EXTENDS Broker, SequenceTheorems, FiniteSetTheorems, WellFoundedInduction, TLAPS

Asked == UNION {Requests[c] : c \in Callers}

CallShape ==
    /\ call = [c \in Callers |-> [at |-> call[c].at, req |-> call[c].req,
                                  answer |-> call[c].answer, left |-> call[c].left]]
    /\ \A c \in Callers : call[c].req \in Asked

\* An entry answers, within the budget, a request that may be cached, under its key.
IsEntry(e) ==
    /\ e = [key |-> e.key, answer |-> e.answer, left |-> e.left, from |-> e.from]
    /\ e.from \in Asked /\ e.from.ttl # 0 /\ RouteOf(e.from) # None
    /\ e.key = KeyOf(e.from)
    /\ Affords(e.from, e.answer)

WellKept(s) ==
    /\ s \in Seq({s[i] : i \in DOMAIN s})
    /\ \A i \in DOMAIN s : IsEntry(s[i])
    /\ \A i, j \in DOMAIN s : s[i].key = s[j].key => i = j

CacheShape == WellKept(cache) /\ Len(cache) <= config.capacity

\* What waits to be stored may be.
Storable(c) == Caching /\ Ttl(call[c].req) # None /\ Affords(call[c].req, call[c].answer)

\* Where a call that is in progress may be, its route found.
Afoot == {"lookup", "asking", "store"}

Routed(c) == RouteOf(call[c].req) # None

BrokerInv ==
    /\ config \in Configs
    /\ CallShape /\ CacheShape
    /\ \A c \in Callers : call[c].at \in Afoot => Routed(c)
    /\ \A c \in Callers : call[c].at = "store" => Storable(c)
    /\ WithinBudget

-----------------------------------------------------------------------------
(* Sequences *)

\* A sequence is one of its own elements.
LEMMA OfItsElements ==
    ASSUME NEW S, NEW s \in Seq(S)
    PROVE  s \in Seq({s[i] : i \in DOMAIN s})
  OBVIOUS

\* RemoveAt of the community modules: the elements after i move up by one.
LEMMA Removal ==
    ASSUME NEW S, NEW s \in Seq(S), NEW i \in DOMAIN s
    PROVE  /\ RemoveAt(s, i) \in Seq(S)
           /\ Len(RemoveAt(s, i)) = Len(s) - 1
           /\ \A k \in 1..(Len(s) - 1) : RemoveAt(s, i)[k] = s[IF k < i THEN k ELSE k + 1]
  <1>1. i \in 1..Len(s) /\ Len(s) \in Nat
    OBVIOUS
  <1>2. /\ SubSeq(s, 1, i - 1) \in Seq(S) /\ Len(SubSeq(s, 1, i - 1)) = i - 1
        /\ \A k \in 1..(i - 1) : SubSeq(s, 1, i - 1)[k] = s[k]
    <2>1. \A k \in 1..(i - 1) : s[k] \in S
      BY <1>1
    <2> QED
      BY <1>1, <2>1, SubSeqProperties
  <1>3. /\ SubSeq(s, i + 1, Len(s)) \in Seq(S) /\ Len(SubSeq(s, i + 1, Len(s))) = Len(s) - i
        /\ \A k \in 1..(Len(s) - i) : SubSeq(s, i + 1, Len(s))[k] = s[i + k]
    <2>1. \A k \in (i + 1)..Len(s) : s[k] \in S
      BY <1>1
    <2> QED
      BY <1>1, <2>1, SubSeqProperties
  <1> DEFINE u == SubSeq(s, 1, i - 1)
             v == SubSeq(s, i + 1, Len(s))
  <1>4. /\ u \o v \in Seq(S) /\ Len(u \o v) = Len(s) - 1
        /\ \A k \in 1..(Len(s) - 1) : (u \o v)[k] = IF k <= i - 1 THEN u[k] ELSE v[k - (i - 1)]
    <2>1. u \in Seq(S) /\ v \in Seq(S) /\ Len(u) = i - 1 /\ Len(v) = Len(s) - i
      BY <1>2, <1>3
    <2> HIDE DEF u, v
    <2>2. /\ u \o v \in Seq(S) /\ Len(u \o v) = Len(u) + Len(v)
          /\ \A k \in 1..(Len(u) + Len(v)) : (u \o v)[k] = IF k <= Len(u) THEN u[k] ELSE v[k - Len(u)]
      BY <2>1, ConcatProperties
    <2>3. Len(u) + Len(v) = Len(s) - 1
      BY <1>1, <2>1
    <2>4. \A k \in 1..(Len(s) - 1) : (u \o v)[k] = IF k <= i - 1 THEN u[k] ELSE v[k - (i - 1)]
      BY <2>1, <2>2, <2>3, Zenon
    <2> QED
      BY <2>2, <2>3, <2>4, Zenon
  <1>5. ASSUME NEW k \in 1..(Len(s) - 1)
        PROVE  (u \o v)[k] = s[IF k < i THEN k ELSE k + 1]
    <2>1. CASE k < i
      <3>1. k <= i - 1 /\ k \in 1..(i - 1)
        BY <1>1, <2>1
      <3>2. u[k] = s[k]
        BY <1>2, <3>1
      <3> QED
        BY <1>4, <2>1, <3>1, <3>2
    <2>2. CASE ~(k < i)
      <3>1. ~(k <= i - 1) /\ k - (i - 1) \in 1..(Len(s) - i) /\ i + (k - (i - 1)) = k + 1
        BY <1>1, <2>2
      <3>2. v[k - (i - 1)] = s[k + 1]
        BY <1>3, <3>1
      <3> QED
        BY <1>4, <2>2, <3>1, <3>2
    <2> QED
      BY <2>1, <2>2
  <1>6. RemoveAt(s, i) = u \o v
    BY DEF RemoveAt
  <1> HIDE DEF u, v
  <1> QED
    BY <1>4, <1>5, <1>6

-----------------------------------------------------------------------------
(* Requests *)

\* A set of positions that is not empty has a least element: what Min picks.
LEMMA MinExists ==
    ASSUME NEW S, S \subseteq Nat, S # {}
    PROVE  Min(S) \in S /\ \A y \in S : Min(S) <= y
<1> DEFINE Below == {1..i : i \in S}
<1>1. Below \subseteq FiniteSubsetsOf(Nat) /\ Below # {}
  <2>1. \A i \in S : 1..i \subseteq Nat /\ IsFiniteSet(1..i)
    BY FS_Interval
  <2>2. QED
    BY <2>1 DEF FiniteSubsetsOf
<1>2. \E B \in Below : \A C \in Below : ~(<<C, B>> \in StrictSubsetOrdering(Nat))
  <2>1. IsWellFoundedOn(StrictSubsetOrdering(Nat), FiniteSubsetsOf(Nat))
    BY FS_StrictSubsetOrderingWellFounded
  <2>2. QED
    BY <1>1, <2>1, WFMin, Zenon
<1>3. PICK x \in S : \A y \in S : ~(<<1..y, 1..x>> \in StrictSubsetOrdering(Nat))
  BY <1>2
<1>4. ASSUME NEW y \in S
      PROVE  x <= y
  <2>1. x \in Nat /\ y \in Nat
    OBVIOUS
  <2>2. SUFFICES ASSUME y < x
                 PROVE  FALSE
    BY <2>1
  <2>3. 1..y \subseteq 1..x /\ 1..y # 1..x
    BY <2>1, <2>2
  <2>4. <<1..y, 1..x>> \in StrictSubsetOrdering(Nat)
    BY <2>1, <2>3 DEF StrictSubsetOrdering
  <2>5. QED
    BY <1>3, <2>4
<1>5. QED
  BY <1>4 DEF Min

\* A route is one of the configuration's, or the one that stands for none.
LEMMA RouteShape ==
    ASSUME config \in Configs, NEW req, RouteOf(req) # None
    PROVE  RouteOf(req).target \in Texts \cup {None} /\ RouteOf(req).provider \in Texts
  <1> DEFINE rs == Routes(config)
             fit == {i \in DOMAIN rs : Matches(rs[i].pattern, req.model)}
  <1>1. fit # {} /\ RouteOf(req) = rs[Min(fit)]
    BY DEF RouteOf
  <1>2. CASE config.routes = <<>>
    <2>1. rs = <<[pattern |-> <<"*">>, provider |-> <<"null">>, target |-> None]>>
      BY <1>2 DEF Routes
    <2>2. DOMAIN rs = {1}
      BY <2>1
    <2>3. fit = {1} /\ rs[1].target = None /\ rs[1].provider = <<"null">>
      BY <1>1, <2>1, <2>2
    <2> HIDE DEF rs, fit
    <2>4. Min(fit) = 1
      BY <2>3, MinExists
    <2>5. <<"null">> \in Texts
      BY BrokerAssumption
    <2> QED
      BY <1>1, <2>3, <2>4, <2>5
  <1>3. CASE config.routes # <<>>
    <2>1. rs \in Seq([pattern : Texts, provider : Texts, target : Texts \cup {None}])
      BY <1>3, BrokerAssumption DEF Routes
    <2>2. fit \subseteq DOMAIN rs /\ fit \subseteq Nat
      BY <2>1
    <2> HIDE DEF rs, fit
    <2>3. Min(fit) \in DOMAIN rs
      BY <1>1, <2>2, MinExists
    <2> DEFINE S == [pattern : Texts, provider : Texts, target : Texts \cup {None}]
    <2>4. rs \in Seq(S)
      BY <2>1
    <2>5. \A r \in S : r.target \in Texts \cup {None} /\ r.provider \in Texts
      OBVIOUS
    <2> HIDE DEF S
    <2>6. rs[Min(fit)] \in S
      BY <2>3, <2>4
    <2> QED
      BY <1>1, <2>5, <2>6
  <1> QED
    BY <1>2, <1>3

\* A request that has a route is hashed from seven texts.
LEMMA HashedShape ==
    ASSUME config \in Configs, NEW req \in Asked, RouteOf(req) # None
    PROVE  Hashed(req) \in Texts \X Texts \X Texts \X Texts \X Texts \X Texts \X Texts
  <1>1. RouteOf(req).provider \in Texts /\ Target(req) \in Texts
    BY RouteShape, BrokerAssumption DEF Target, Or, Asked
  <1>2. <<>> \in Texts
    BY DEF Texts
  <1>3. req.prompt \in Texts /\ SystemOf(req) \in Texts /\ req.params \in Texts
          /\ ExtrasOf(req) \in Texts /\ req.key \in Texts
    BY <1>2, BrokerAssumption DEF SystemOf, ExtrasOf, Or, Asked
  <1> QED
    BY <1>1, <1>3 DEF Hashed

\* The configuration is fixed, and with it all that is derived from it.
LEMMA FixedConfig ==
    ASSUME UNCHANGED config, NEW req, NEW answer
    PROVE  /\ RouteOf(req)' = RouteOf(req) /\ KeyOf(req)' = KeyOf(req)
           /\ Ttl(req)' = Ttl(req) /\ Caching' = Caching
           /\ Affords(req, answer)' = Affords(req, answer)
  BY DEF RouteOf, Routes, KeyOf, Target, SystemOf, ExtrasOf, Ttl, Caching, Affords, LimitOf

LEMMA InitHolds == Init => BrokerInv
  <1> SUFFICES ASSUME Init PROVE BrokerInv
    OBVIOUS
  <1>1. config \in Configs /\ config.capacity \in Nat
    BY BrokerAssumption DEF Init
  <1>2. CallShape
    BY DEF Init, CallShape, Asked
  <1>3. CacheShape
    BY <1>1 DEF Init, CacheShape, WellKept
  <1>4. \A c \in Callers : call[c].at = "idle" /\ call[c].answer = NoAnswer
    BY DEF Init
  <1>5. ~IsOk(NoAnswer)
    BY DEF IsOk, NoAnswer
  <1> QED
    BY <1>1, <1>2, <1>3, <1>4, <1>5 DEF BrokerInv, WithinBudget, Answers, Afoot

Moved(c, record) ==
    /\ call' = [d \in Callers |-> call'[d]]
    /\ call'[c] = record
    /\ \A d \in Callers \ {c} : call'[d] = call[d]

LEMMA GoingMoves ==
    ASSUME CallShape, NEW c \in Callers, NEW at, NEW answer, Goes(c, at, answer)
    PROVE  Moved(c, [at |-> at, req |-> call[c].req, answer |-> answer, left |-> call[c].left])
  <1>1. DOMAIN call = Callers /\ call[c] = [at |-> call[c].at, req |-> call[c].req,
                                            answer |-> call[c].answer, left |-> call[c].left]
    BY DEF CallShape
  <1>2. call' = [d \in Callers |-> call'[d]]
    BY <1>1 DEF Goes
  <1>3. call'[c] = [at |-> at, req |-> call[c].req, answer |-> answer, left |-> call[c].left]
    BY <1>1 DEF Goes
  <1>4. \A d \in Callers \ {c} : call'[d] = call[d]
    BY <1>1 DEF Goes
  <1> QED
    BY <1>2, <1>3, <1>4 DEF Moved

\* A step that changes one caller's record, and leaves the cache alone or well.
LEMMA CallerMoves ==
    ASSUME BrokerInv, UNCHANGED config, CacheShape',
           NEW c \in Callers, NEW at, NEW answer, NEW left,
           Moved(c, [at |-> at, req |-> call[c].req, answer |-> answer, left |-> left]),
           at \in Afoot => Routed(c),
           at = "store" => Caching /\ Ttl(call[c].req) # None /\ Affords(call[c].req, answer),
           IsOk(answer) => Affords(call[c].req, answer)
    PROVE  BrokerInv'
  <1> USE DEF Afoot
  <1>1. /\ call'[c] = [at |-> at, req |-> call[c].req, answer |-> answer, left |-> left]
        /\ \A d \in Callers \ {c} : call'[d] = call[d]
        /\ call' = [d \in Callers |-> call'[d]]
    BY DEF Moved
  <1>2. \A d \in Callers : call'[d].req = call[d].req
    BY <1>1
  <1>3. CallShape'
    BY <1>1, <1>2 DEF BrokerInv, CallShape
  <1>4. \A d \in Callers : call'[d].at = "store" => Storable(d)'
    BY <1>1, <1>2, FixedConfig DEF BrokerInv, Storable
  <1>5. WithinBudget'
    BY <1>1, <1>2, FixedConfig DEF BrokerInv, WithinBudget, Answers, IsOk
  <1>6. \A d \in Callers : call'[d].at \in Afoot => Routed(d)'
    BY <1>1, <1>2, FixedConfig DEF BrokerInv, Routed
  <1> QED
    BY <1>3, <1>4, <1>5, <1>6 DEF BrokerInv

-----------------------------------------------------------------------------
(* The cache *)

\* LruCache::pop
LEMMA EntryGoes ==
    ASSUME CacheShape, NEW key
    PROVE  /\ WellKept(Without(key))
           /\ Len(Without(key)) <= Len(cache)
           /\ Entries(key) # {} => Len(Without(key)) = Len(cache) - 1
           /\ \A i \in DOMAIN Without(key) : Without(key)[i].key # key
  <1> DEFINE S == {cache[i] : i \in DOMAIN cache}
             w == Without(key)
  <1>1. cache \in Seq(S) /\ Len(cache) \in Nat /\ DOMAIN cache = 1..Len(cache)
    BY DEF CacheShape, WellKept
  <1>2. CASE Entries(key) = {}
    <2>1. Without(key) = cache
      BY <1>2 DEF Without
    <2>2. \A i \in DOMAIN cache : cache[i].key # key
      BY <1>2 DEF Entries
    <2> QED
      BY <1>1, <1>2, <2>1, <2>2 DEF CacheShape
  <1>3. CASE Entries(key) # {}
    <2>1. PICK k \in DOMAIN cache : cache[k].key = key /\ w = RemoveAt(cache, k)
      BY <1>3 DEF Without, Entries
    <2> DEFINE Old(i) == IF i < k THEN i ELSE i + 1
    <2>2. /\ w \in Seq(S) /\ Len(w) = Len(cache) - 1
          /\ \A i \in 1..(Len(cache) - 1) : w[i] = cache[Old(i)]
      BY <1>1, <2>1, Removal
    <2> HIDE DEF w, S
    <2>3. DOMAIN w = 1..(Len(cache) - 1)
      BY <2>2
    <2>4. /\ \A i \in DOMAIN w : Old(i) \in DOMAIN cache /\ Old(i) # k /\ w[i] = cache[Old(i)]
          /\ \A i, j \in DOMAIN w : Old(i) = Old(j) => i = j
      BY <1>1, <2>1, <2>2, <2>3
    <2> HIDE DEF Old
    <2>5. WellKept(w)
      <3>1. w \in Seq({w[i] : i \in DOMAIN w})
        BY <2>2, OfItsElements
      <3> QED
        BY <2>4, <3>1 DEF CacheShape, WellKept
    <2>6. \A i \in DOMAIN w : w[i].key # key
      BY <2>1, <2>4 DEF CacheShape, WellKept
    <2> QED
      BY <1>1, <2>2, <2>5, <2>6 DEF w
  <1> QED
    BY <1>2, <1>3

\* LruCache::put and get: an entry becomes the most recently used one.
LEMMA EntryComes ==
    ASSUME NEW s, WellKept(s), NEW e, IsEntry(e), \A i \in DOMAIN s : s[i].key # e.key
    PROVE  WellKept(Append(s, e)) /\ Len(Append(s, e)) = Len(s) + 1
  <1> DEFINE S == {s[i] : i \in DOMAIN s} \cup {e}
             t == Append(s, e)
  <1>1. s \in Seq(S) /\ e \in S /\ Len(s) \in Nat
    BY DEF WellKept
  <1> HIDE DEF S
  <1>2. /\ t \in Seq(S) /\ Len(t) = Len(s) + 1 /\ DOMAIN t = 1..(Len(s) + 1)
        /\ \A i \in 1..Len(s) : t[i] = s[i]
        /\ t[Len(s) + 1] = e
    BY <1>1
  <1>3. DOMAIN s = 1..Len(s)
    BY <1>1
  <1> HIDE DEF t
  <1>4. t \in Seq({t[i] : i \in DOMAIN t})
    BY <1>2, OfItsElements
  <1>5. \A i \in DOMAIN t : IsEntry(t[i])
    BY <1>1, <1>2, <1>3 DEF WellKept
  <1>6. \A i, j \in DOMAIN t : t[i].key = t[j].key => i = j
    BY <1>1, <1>2, <1>3 DEF WellKept
  <1>7. WellKept(t)
    BY <1>4, <1>5, <1>6 DEF WellKept
  <1> QED
    BY <1>2, <1>7 DEF t

\* LruCache::put: the least recently used entry makes room.
LEMMA OldestGoes ==
    ASSUME NEW s, WellKept(s), Len(s) > 0
    PROVE  WellKept(Tail(s)) /\ Len(Tail(s)) = Len(s) - 1
  <1> DEFINE S == {s[i] : i \in DOMAIN s}
             t == Tail(s)
  <1>1. s \in Seq(S) /\ Len(s) \in Nat /\ DOMAIN s = 1..Len(s) /\ s # <<>>
    BY DEF WellKept
  <1> HIDE DEF S
  <1>2. /\ t \in Seq(S) /\ Len(t) = Len(s) - 1 /\ DOMAIN t = 1..(Len(s) - 1)
        /\ \A i \in 1..(Len(s) - 1) : t[i] = s[i + 1]
    BY <1>1
  <1> HIDE DEF t
  <1>3. t \in Seq({t[i] : i \in DOMAIN t})
    BY <1>2, OfItsElements
  <1>4. WellKept(t)
    <2>1. \A i \in DOMAIN t : IsEntry(t[i])
      BY <1>1, <1>2 DEF WellKept
    <2>2. \A i, j \in DOMAIN t : t[i].key = t[j].key => i = j
      <3> TAKE i, j \in DOMAIN t
      <3> HAVE t[i].key = t[j].key
      <3>1. /\ i \in Int /\ j \in Int /\ i + 1 \in DOMAIN s /\ j + 1 \in DOMAIN s
            /\ s[i + 1].key = s[j + 1].key
        BY <1>1, <1>2
      <3>2. i + 1 = j + 1
        BY <3>1 DEF WellKept
      <3> QED
        BY <3>1, <3>2
    <2> QED
      BY <1>3, <2>1, <2>2 DEF WellKept
  <1> QED
    BY <1>2, <1>4 DEF t

\* The entries of another state of the same configuration.
LEMMA StillWellKept ==
    ASSUME UNCHANGED config, config.capacity \in Nat, WellKept(cache'), Len(cache') <= config.capacity
    PROVE  CacheShape'
  <1>1. \A i \in DOMAIN cache' : IsEntry(cache'[i]) => IsEntry(cache[i])'
    BY FixedConfig DEF IsEntry
  <1> QED
    BY <1>1 DEF CacheShape, WellKept

-----------------------------------------------------------------------------
(* The steps of complete *)

LEMMA BeginKeeps ==
    ASSUME BrokerInv, NEW c \in Callers, Begin(c)
    PROVE  BrokerInv'
  <1>1. CacheShape' /\ UNCHANGED config
    BY StillWellKept, BrokerAssumption DEF Begin, BrokerInv, CacheShape
  <1>2. PICK at, answer :
            /\ at \in {"failed", "lookup"}
            /\ ~IsOk(answer)
            /\ Goes(c, at, answer)
            /\ at \in Afoot => Routed(c)
    BY DEF Routed, Begin, Fails, Fault, IsOk, NoAnswer, Afoot
  <1>3. Moved(c, [at |-> at, req |-> call[c].req, answer |-> answer, left |-> call[c].left])
    BY <1>2, GoingMoves DEF BrokerInv
  <1> QED
    BY <1>1, <1>2, <1>3, CallerMoves DEF Afoot

\* Every way out but success, and the wait for the provider.
LEMMA FaultKeeps ==
    ASSUME BrokerInv, UNCHANGED config, CacheShape', NEW c \in Callers, NEW code, Fails(c, code)
    PROVE  BrokerInv'
  <1>1. ~IsOk(Fault(code)) /\ Moved(c, [at |-> "failed", req |-> call[c].req,
                                       answer |-> Fault(code), left |-> call[c].left])
    BY GoingMoves DEF Fails, Fault, IsOk, BrokerInv
  <1> QED
    BY <1>1, CallerMoves DEF Afoot

LEMMA AskKeeps ==
    ASSUME BrokerInv, UNCHANGED config, CacheShape', NEW c \in Callers, Asks(c), Routed(c)
    PROVE  BrokerInv'
  <1>1. DOMAIN call = Callers /\ call[c] = [at |-> call[c].at, req |-> call[c].req,
                                            answer |-> call[c].answer, left |-> call[c].left]
    BY DEF BrokerInv, CallShape
  <1> DEFINE left == Or(call[c].req.timeout, 0)
  <1>2. /\ call' = [d \in Callers |-> call'[d]]
        /\ \A d \in Callers \ {c} : call'[d] = call[d]
    BY <1>1 DEF Asks
  <1>3. call'[c] = [at |-> "asking", req |-> call[c].req, answer |-> call[c].answer, left |-> left]
    BY <1>1 DEF Asks
  <1>4. IsOk(call[c].answer) => Affords(call[c].req, call[c].answer)
    BY DEF BrokerInv, WithinBudget, Answers
  <1> QED
    BY <1>2, <1>3, <1>4, CallerMoves DEF Moved, Afoot

LEMMA DoneKeeps ==
    ASSUME BrokerInv, UNCHANGED config, CacheShape', NEW c \in Callers, NEW answer,
           Goes(c, "done", answer), Affords(call[c].req, answer)
    PROVE  BrokerInv'
  <1>1. Moved(c, [at |-> "done", req |-> call[c].req, answer |-> answer, left |-> call[c].left])
    BY GoingMoves DEF BrokerInv
  <1> QED
    BY <1>1, CallerMoves DEF Afoot

LEMMA CacheStays ==
    ASSUME BrokerInv, UNCHANGED <<config, cache>>
    PROVE  CacheShape'
  BY StillWellKept, BrokerAssumption DEF BrokerInv, CacheShape

LEMMA LookupKeeps ==
    ASSUME BrokerInv, NEW c \in Callers, Lookup(c)
    PROVE  BrokerInv'
  <1> DEFINE req == call[c].req
             found == Entries(KeyOf(req))
             e == cache[CHOOSE i \in found : TRUE]
             answer == Used(req, [e.answer EXCEPT !.cached = TRUE])
  <1>1. UNCHANGED config /\ config.capacity \in Nat
    BY BrokerAssumption DEF Lookup, BrokerInv
  <1>4. \/ Asks(c) /\ UNCHANGED cache
        \/ found # {} /\ Asks(c) /\ cache' = Without(e.key)
        \/ /\ found # {} /\ cache' = Append(Without(e.key), e)
           /\ (Goes(c, "done", answer) /\ HitAffords(req, answer)) \/ Fails(c, "budget_exceeded")
    BY Zenon DEF Lookup
  <1>5. Routed(c)
    BY DEF BrokerInv, Lookup, Afoot
  <1>2. CASE Asks(c) /\ UNCHANGED cache
    BY <1>1, <1>2, <1>5, AskKeeps, CacheStays
  <1>3. CASE found # {}
    <2>1. (CHOOSE i \in found : TRUE) \in found
      BY <1>3
    <2>2. e.key = KeyOf(req) /\ IsEntry(e) /\ Entries(e.key) # {}
      BY <1>3, <2>1 DEF Entries, BrokerInv, CacheShape, WellKept
    <2> DEFINE w == Without(e.key)
    <2>3. /\ WellKept(w) /\ Len(w) = Len(cache) - 1
          /\ \A i \in DOMAIN w : w[i].key # e.key
      BY <2>2, EntryGoes DEF BrokerInv
    <2>4. Len(cache) \in Nat /\ Len(cache) <= config.capacity
      BY DEF BrokerInv, CacheShape, WellKept
    <2>5. CASE Asks(c) /\ cache' = w
      <3>1. Len(w) <= config.capacity
        BY <1>1, <2>3, <2>4
      <3>2. CacheShape'
        BY <1>1, <2>3, <2>5, <3>1, StillWellKept
      <3> QED
        BY <1>1, <1>5, <2>5, <3>2, AskKeeps
    <2>6. CASE /\ cache' = Append(w, e)
               /\ (Goes(c, "done", answer) /\ HitAffords(req, answer)) \/ Fails(c, "budget_exceeded")
      <3>1. WellKept(Append(w, e)) /\ Len(Append(w, e)) = Len(w) + 1
        BY <2>2, <2>3, EntryComes
      <3>2. Len(Append(w, e)) <= config.capacity
        BY <1>1, <2>3, <2>4, <3>1
      <3>3. CacheShape'
        BY <1>1, <2>6, <3>1, <3>2, StillWellKept
      <3>4. CASE Goes(c, "done", answer) /\ HitAffords(req, answer)
        <4>1. Affords(req, answer)
          BY <3>4 DEF HitAffords
        <4>2. CacheShape' /\ UNCHANGED config
          BY <1>1, <3>3
        <4> HIDE DEF answer
        <4> QED
          BY <3>4, <4>1, <4>2, DoneKeeps
      <3>5. CASE Fails(c, "budget_exceeded")
        BY <1>1, <3>3, <3>5, FaultKeeps
      <3> QED
        BY <2>6, <3>4, <3>5, Zenon
    <2> QED
      BY <1>2, <1>4, <2>5, <2>6, Zenon
  <1> QED
    BY <1>2, <1>3, <1>4, Zenon

LEMMA AnsweredKeeps ==
    ASSUME BrokerInv, NEW c \in Callers, Answered(c)
    PROVE  BrokerInv'
  <1> DEFINE req == call[c].req
  <1>1. PICK resp \in Responses :
          LET result == Complete(ProviderOf(req), req, Target(req), resp)
              answer == Used(req, result)
          IN \/ ~IsOk(result) /\ Goes(c, "failed", result)
             \/ Fails(c, "budget_exceeded")
             \/ /\ Affords(req, answer)
                /\ Goes(c, IF Caching /\ Ttl(req) # None THEN "store" ELSE "done", answer)
    BY DEF Answered
  <1> DEFINE result == Complete(ProviderOf(req), req, Target(req), resp)
             answer == Used(req, result)
             at == IF Caching /\ Ttl(req) # None THEN "store" ELSE "done"
  <1> HIDE DEF result
  <1>2. UNCHANGED config /\ CacheShape'
    BY CacheStays DEF Answered
  <1>3. CASE ~IsOk(result) /\ Goes(c, "failed", result)
    <2>1. Moved(c, [at |-> "failed", req |-> req, answer |-> result, left |-> call[c].left])
      BY <1>3, GoingMoves DEF BrokerInv
    <2> QED
      BY <1>2, <1>3, <2>1, CallerMoves DEF Afoot
  <1>4. CASE Fails(c, "budget_exceeded")
    BY <1>2, <1>4, FaultKeeps
  <1>5. CASE Affords(req, answer) /\ Goes(c, at, answer)
    <2> HIDE DEF answer
    <2>1. Moved(c, [at |-> at, req |-> req, answer |-> answer, left |-> call[c].left])
      BY <1>5, GoingMoves DEF BrokerInv
    <2>2. at = "store" => Caching /\ Ttl(req) # None
      OBVIOUS
    <2>3. Routed(c)
      BY DEF BrokerInv, Answered, Afoot
    <2> HIDE DEF at
    <2> QED
      BY <1>2, <1>5, <2>1, <2>2, <2>3, CallerMoves
  <1> QED
    BY <1>1, <1>3, <1>4, <1>5 DEF result

LEMMA StoreKeeps ==
    ASSUME BrokerInv, NEW c \in Callers, Store(c)
    PROVE  BrokerInv'
  <1> DEFINE req == call[c].req
             e == [key |-> KeyOf(req), answer |-> call[c].answer, left |-> Ttl(req), from |-> req]
             w == Without(e.key)
  <1>1. UNCHANGED config /\ config.capacity \in Nat
    BY BrokerAssumption DEF Store, BrokerInv
  <1>2. IsEntry(e) /\ Storable(c)
    <2>1. Storable(c) /\ req \in Asked
      BY DEF BrokerInv, CallShape, Store
    <2>2. req.ttl # 0
      BY <2>1, BrokerAssumption DEF Storable, Ttl
    <2>3. RouteOf(req) # None
      BY DEF BrokerInv, Store, Afoot, Routed
    <2> QED
      BY <2>1, <2>2, <2>3 DEF Storable, IsEntry
  <1>3. /\ WellKept(w) /\ Len(w) <= Len(cache)
        /\ \A i \in DOMAIN w : w[i].key # e.key
    BY EntryGoes DEF BrokerInv
  <1>4. cache' = Put(e) /\ Goes(c, "done", call[c].answer)
    BY DEF Store
  <1> HIDE DEF e, w
  <1>5. WellKept(Append(w, e)) /\ Len(Append(w, e)) = Len(w) + 1
    BY <1>2, <1>3, EntryComes
  <1>6. Len(w) \in Nat /\ Len(cache) \in Nat /\ Len(cache) <= config.capacity
    BY <1>3 DEF BrokerInv, CacheShape, WellKept
  <1>7. CacheShape'
    <2>1. CASE Len(Append(w, e)) > config.capacity
      <3>1. cache' = Tail(Append(w, e))
        BY <1>4, <2>1 DEF Put, w
      <3>2. WellKept(Tail(Append(w, e))) /\ Len(Tail(Append(w, e))) = Len(Append(w, e)) - 1
        <4>1. Len(Append(w, e)) > 0
          BY <1>5, <1>6
        <4> QED
          BY <1>5, <4>1, OldestGoes
      <3>3. Len(cache') <= config.capacity
        BY <1>1, <1>3, <1>5, <1>6, <3>1, <3>2
      <3> QED
        BY <1>1, <3>1, <3>2, <3>3, StillWellKept
    <2>2. CASE ~(Len(Append(w, e)) > config.capacity)
      <3>1. cache' = Append(w, e)
        BY <1>4, <2>2 DEF Put, w
      <3>2. Len(cache') <= config.capacity
        BY <1>1, <1>5, <1>6, <2>2, <3>1
      <3> QED
        BY <1>1, <1>5, <3>1, <3>2, StillWellKept
    <2> QED
      BY <2>1, <2>2
  <1>8. Affords(call[c].req, call[c].answer)
    BY <1>2 DEF Storable
  <1> QED
    BY <1>1, <1>4, <1>7, <1>8, DoneKeeps

LEMMA TickKeeps ==
    ASSUME BrokerInv, Tick
    PROVE  BrokerInv'
  <1>1. UNCHANGED config /\ config.capacity \in Nat
    BY BrokerAssumption DEF Tick, BrokerInv
  <1>2. \A c \in Callers : call'[c].at = call[c].at /\ call'[c].req = call[c].req /\ call'[c].answer = call[c].answer
    BY DEF Tick, BrokerInv, CallShape
  <1>3. CallShape'
    <2>1. \A c \in Callers : call'[c] = [at |-> call'[c].at, req |-> call'[c].req,
                                        answer |-> call'[c].answer, left |-> call'[c].left]
      BY DEF Tick, BrokerInv, CallShape
    <2>2. call' = [c \in Callers |-> call'[c]]
      BY DEF Tick
    <2> QED
      BY <1>2, <2>1, <2>2 DEF BrokerInv, CallShape
  <1> DEFINE n == Len(cache)
  <1>4. n \in Nat /\ DOMAIN cache = 1..n /\ n <= config.capacity
    BY DEF BrokerInv, CacheShape, WellKept
  <1>5. \A i \in 1..n : /\ cache'[i] = [cache[i] EXCEPT !.left = Less(@)]
                        /\ IsEntry(cache[i]) /\ IsEntry(cache'[i]) /\ cache'[i].key = cache[i].key
    <2> SUFFICES ASSUME NEW i \in 1..n
                 PROVE  /\ cache'[i] = [cache[i] EXCEPT !.left = Less(@)]
                        /\ IsEntry(cache[i]) /\ IsEntry(cache'[i]) /\ cache'[i].key = cache[i].key
      OBVIOUS
    <2>1. cache'[i] = [cache[i] EXCEPT !.left = Less(@)]
      BY <1>4 DEF Tick
    <2>2. IsEntry(cache[i])
      BY <1>4 DEF BrokerInv, CacheShape, WellKept
    <2>3. cache'[i] = [key |-> cache[i].key, answer |-> cache[i].answer,
                       left |-> Less(cache[i].left), from |-> cache[i].from]
      BY <2>1, <2>2 DEF IsEntry
    <2> QED
      BY <2>1, <2>2, <2>3 DEF IsEntry
  <1>6. cache' \in Seq({cache'[i] : i \in DOMAIN cache'}) /\ Len(cache') = n /\ DOMAIN cache' = 1..n
    <2>1. cache' = [i \in 1..n |-> [cache[i] EXCEPT !.left = Less(@)]]
      BY <1>4 DEF Tick
    <2>2. cache' \in [1..n -> {cache'[i] : i \in 1..n}]
      BY <2>1
    <2> QED
      BY <1>4, <2>1, <2>2
  <1>7. \A i, j \in 1..n : cache'[i].key = cache'[j].key => i = j
    BY <1>4, <1>5 DEF BrokerInv, CacheShape, WellKept
  <1>8. WellKept(cache')
    BY <1>5, <1>6, <1>7 DEF WellKept
  <1>9. CacheShape'
    BY <1>1, <1>4, <1>6, <1>8, StillWellKept
  <1>10. \A c \in Callers : call'[c].at = "store" => Storable(c)'
    <2> SUFFICES ASSUME NEW c \in Callers, call'[c].at = "store" PROVE Storable(c)'
      OBVIOUS
    <2>1. call'[c].req = call[c].req /\ call'[c].answer = call[c].answer /\ Storable(c)
      BY <1>2 DEF BrokerInv
    <2> QED
      BY <1>1, <2>1, FixedConfig DEF Storable
  <1>12. \A c \in Callers : call'[c].at \in Afoot => Routed(c)'
    <2> SUFFICES ASSUME NEW c \in Callers, call'[c].at \in Afoot PROVE Routed(c)'
      OBVIOUS
    <2> QED
      BY <1>1, <1>2, FixedConfig DEF BrokerInv, Routed
  <1>11. WithinBudget'
    <2> SUFFICES ASSUME NEW c \in Callers, IsOk(call'[c].answer)
                 PROVE  Affords(call[c].req, call[c].answer)'
      BY DEF WithinBudget, Answers, IsOk
    <2>1. call'[c].req = call[c].req /\ call'[c].answer = call[c].answer
      BY <1>2
    <2>2. Affords(call[c].req, call[c].answer)
      BY <2>1 DEF BrokerInv, WithinBudget, Answers
    <2> QED
      BY <1>1, <2>1, <2>2, FixedConfig
  <1> QED
    BY <1>1, <1>3, <1>9, <1>10, <1>11, <1>12 DEF BrokerInv

LEMMA StepKeeps ==
    ASSUME BrokerInv, [Next]_vars
    PROVE  BrokerInv'
  <1>1. CASE UNCHANGED vars
    <2>1. CacheShape'
      BY <1>1, CacheStays DEF vars
    <2>2. \A c \in Callers : call'[c].at = "store" => Storable(c)'
      BY <1>1, FixedConfig DEF vars, BrokerInv, Storable
    <2>3. WithinBudget'
      BY <1>1, FixedConfig DEF vars, BrokerInv, WithinBudget, Answers
    <2>4. \A c \in Callers : call'[c].at \in Afoot => Routed(c)'
      BY <1>1, FixedConfig DEF vars, BrokerInv, Routed
    <2> QED
      BY <1>1, <2>1, <2>2, <2>3, <2>4 DEF vars, BrokerInv, CallShape
  <1>2. CASE \E c \in Callers : TimesOut(c) \/ Dropped(c)
    <2>1. PICK c \in Callers, code \in {"timeout", "cancelled"} : Fails(c, code) /\ UNCHANGED <<config, cache>>
      BY <1>2 DEF TimesOut, Dropped
    <2> QED
      BY <2>1, FaultKeeps, CacheStays
  <1> QED
    BY <1>1, <1>2, BeginKeeps, LookupKeeps, AnsweredKeeps, StoreKeeps, TickKeeps DEF Next

-----------------------------------------------------------------------------
(* Theorems *)

LEMMA BrokerInvariant == Spec => []BrokerInv
  <1>1. BrokerInv /\ [Next]_vars => BrokerInv'
    BY StepKeeps
  <1> QED
    BY <1>1, InitHolds, PTL DEF Spec

\* Nobody gets an answer past the budget of the own request, whoever asked the
\* provider for it (enforce on a hit and on a miss).
THEOREM BudgetsHold == Spec => []WithinBudget
  <1>1. BrokerInv => WithinBudget
    BY DEF BrokerInv
  <1> QED
    BY <1>1, BrokerInvariant, PTL

\* The LRU holds at most its capacity, one entry per key, and only answers that
\* were within a budget and may be cached (store_cache, effective_ttl).
THEOREM CacheIsSound == Spec => []CacheInv
  <1>1. BrokerInv => CacheInv
    BY DEF BrokerInv, CacheShape, WellKept, IsEntry, CacheInv
  <1> QED
    BY <1>1, BrokerInvariant, PTL

\* A concatenation of two texts determines them when their lengths are known.
LEMMA OneSplit ==
    ASSUME NEW s \in Texts, NEW t \in Texts, NEW u \in Texts, NEW v \in Texts,
           Len(s) = Len(u), s \o t = u \o v
    PROVE  s = u /\ t = v
  <1>1. /\ Len(s) \in Nat /\ Len(t) \in Nat /\ Len(v) \in Nat
        /\ Len(s \o t) = Len(s) + Len(t) /\ Len(u \o v) = Len(u) + Len(v)
        /\ \A k \in 1..(Len(s) + Len(t)) : (s \o t)[k] = IF k <= Len(s) THEN s[k] ELSE t[k - Len(s)]
        /\ \A k \in 1..(Len(u) + Len(v)) : (u \o v)[k] = IF k <= Len(u) THEN u[k] ELSE v[k - Len(u)]
    BY ConcatProperties, LenProperties DEF Texts
  <1>2. Len(t) = Len(v)
    BY <1>1
  <1>3. \A k \in 1..Len(s) : s[k] = u[k]
    BY <1>1
  <1>4. \A k \in 1..Len(t) : t[k] = v[k]
    <2> TAKE k \in 1..Len(t)
    <2> DEFINE n == Len(s) + k
    <2>1. n \in 1..(Len(s) + Len(t)) /\ ~(n <= Len(s)) /\ n - Len(s) = k
      BY <1>1
    <2> QED
      BY <1>1, <1>2, <2>1
  <1> QED
    BY <1>2, <1>3, <1>4, SeqEqual DEF Texts

Alike(s, u) == s \in Texts /\ u \in Texts /\ Len(s) = Len(u)

Both(s, t) == s \o t

LEMMA OneMore ==
    \A s, u, t, v : Alike(s, u) /\ Alike(t, v) =>
        /\ Alike(Both(s, t), Both(u, v))
        /\ Both(s, t) = Both(u, v) => s = u /\ t = v
  <1> SUFFICES ASSUME NEW s, NEW u, NEW t, NEW v, Alike(s, u), Alike(t, v)
               PROVE  /\ Alike(Both(s, t), Both(u, v))
                      /\ Both(s, t) = Both(u, v) => s = u /\ t = v
    OBVIOUS
  <1>1. \A x, y \in Texts : x \o y \in Texts /\ Len(x \o y) = Len(x) + Len(y)
    BY ConcatProperties DEF Texts
  <1>2. s \o t = u \o v => s = u /\ t = v
    BY OneSplit DEF Alike
  <1> QED
    BY <1>1, <1>2 DEF Alike, Both

\* The same of seven texts.
Joined(h) == h[1] \o h[2] \o h[3] \o h[4] \o h[5] \o h[6] \o h[7]

LEMMA OneReading ==
    ASSUME NEW h \in Texts \X Texts \X Texts \X Texts \X Texts \X Texts \X Texts,
           NEW g \in Texts \X Texts \X Texts \X Texts \X Texts \X Texts \X Texts,
           SameLengths(h, g), Joined(h) = Joined(g)
    PROVE  h = g
  <1>1. /\ Alike(h[1], g[1]) /\ Alike(h[2], g[2]) /\ Alike(h[3], g[3]) /\ Alike(h[4], g[4])
        /\ Alike(h[5], g[5]) /\ Alike(h[6], g[6]) /\ Alike(h[7], g[7])
    BY DEF SameLengths, Alike
  <1>2. PICK h2, h3, h4, h5, h6 : /\ h2 = Both(h[1], h[2]) /\ h3 = Both(h2, h[3])
                                  /\ h4 = Both(h3, h[4]) /\ h5 = Both(h4, h[5])
                                  /\ h6 = Both(h5, h[6])
    OBVIOUS
  <1>3. PICK g2, g3, g4, g5, g6 : /\ g2 = Both(g[1], g[2]) /\ g3 = Both(g2, g[3])
                                  /\ g4 = Both(g3, g[4]) /\ g5 = Both(g4, g[5])
                                  /\ g6 = Both(g5, g[6])
    OBVIOUS
  <1>4. Both(h6, h[7]) = Both(g6, g[7])
    BY <1>2, <1>3, Zenon DEF Joined, Both
  <1>5. Alike(h2, g2) /\ (h2 = g2 => h[1] = g[1] /\ h[2] = g[2])
    BY <1>1, <1>2, <1>3, OneMore
  <1>6. Alike(h3, g3) /\ (h3 = g3 => h2 = g2 /\ h[3] = g[3])
    BY <1>1, <1>2, <1>3, <1>5, OneMore
  <1>7. Alike(h4, g4) /\ (h4 = g4 => h3 = g3 /\ h[4] = g[4])
    BY <1>1, <1>2, <1>3, <1>6, OneMore
  <1>8. Alike(h5, g5) /\ (h5 = g5 => h4 = g4 /\ h[5] = g[5])
    BY <1>1, <1>2, <1>3, <1>7, OneMore
  <1>9. Alike(h6, g6) /\ (h6 = g6 => h5 = g5 /\ h[6] = g[6])
    BY <1>1, <1>2, <1>3, <1>8, OneMore
  <1>10. h6 = g6 /\ h[7] = g[7]
    BY <1>1, <1>4, <1>9, OneMore
  <1> QED
    BY <1>5, <1>6, <1>7, <1>8, <1>9, <1>10

\* A hit answers the question that was asked, as far as the key can tell
\* (compose_cache_key, check_cache): texts as long as those which were hashed for
\* the cached answer are those very texts.
THEOREM HitsAnswerTheQuestion == Spec => SameQuestion
  <1> DEFINE Right(c, i) ==
        HitOn(c, i) /\ SameLengths(Hashed(cache[i].from), Hashed(call[c].req))
        => Hashed(cache[i].from) = Hashed(call[c].req)
  <1>1. BrokerInv => [\A c \in Callers : \A i \in DOMAIN cache : Right(c, i)]_vars
    <2> SUFFICES ASSUME BrokerInv, NEW c \in Callers, NEW i \in DOMAIN cache, HitOn(c, i),
                        SameLengths(Hashed(cache[i].from), Hashed(call[c].req))
                 PROVE  Hashed(cache[i].from) = Hashed(call[c].req)
      OBVIOUS
    <2> DEFINE from == cache[i].from
               req == call[c].req
    <2>1. IsEntry(cache[i]) /\ config \in Configs
      BY DEF BrokerInv, CacheShape, WellKept
    <2>2. req \in Asked /\ RouteOf(req) # None
      BY DEF HitOn, BrokerInv, CallShape, Afoot, Routed
    <2>3. from \in Asked /\ RouteOf(from) # None /\ KeyOf(from) = KeyOf(req)
      BY <2>1 DEF HitOn, IsEntry
    <2>4. Joined(Hashed(from)) = KeyOf(from) /\ Joined(Hashed(req)) = KeyOf(req)
      BY DEF Joined, Hashed, KeyOf
    <2> QED
      BY <2>1, <2>2, <2>3, <2>4, HashedShape, OneReading
  <1>2. BrokerInv => [\A c \in Callers : \A i \in DOMAIN cache :
                        LET asked == Hashed(cache[i].from)
                            mine == Hashed(call[c].req)
                        IN HitOn(c, i) /\ SameLengths(asked, mine) => asked = mine]_vars
    BY <1>1
  <1> QED
    BY <1>2, BrokerInvariant, PTL DEF SameQuestion
=============================================================================
