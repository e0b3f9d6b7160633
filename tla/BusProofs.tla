----------------------------- MODULE BusProofs -----------------------------
(***************************************************************************)
(* Proofs about Bus for every number of publishers, subscribers, messages  *)
(* and calls and every capacity.                                           *)
(***************************************************************************)
EXTENDS Bus, SequenceTheorems, FiniteSetTheorems, WellFoundedInduction, TLAPS

(* Facts about the helpers *)

\* A set of positions that is not empty has a least element: what Min picks.
LEMMA MinExists ==
    ASSUME NEW S, S \subseteq Nat, S # {}
    PROVE  Min(S) \in S /\ \A y \in S : Min(S) <= y
<1> DEFINE Below == {1..i : i \in S}
<1>1. Below \subseteq FiniteSubsetsOf(Nat) /\ Below # {}
  <2>1. \A i \in S : 1..i \subseteq Nat /\ IsFiniteSet(1..i)
    BY FS_Interval
  <2>2. QED
    BY <2>1 DEF FiniteSubsetsOf
<1>2. \E B \in Below : \A C \in Below : ~(<<C, B>> \in StrictSubsetOrdering(Nat))
  <2>1. IsWellFoundedOn(StrictSubsetOrdering(Nat), FiniteSubsetsOf(Nat))
    BY FS_StrictSubsetOrderingWellFounded
  <2>2. QED
    BY <1>1, <2>1, WFMin, Zenon
<1>3. PICK x \in S : \A y \in S : ~(<<1..y, 1..x>> \in StrictSubsetOrdering(Nat))
  BY <1>2
<1>4. ASSUME NEW y \in S
      PROVE  x <= y
  <2>1. x \in Nat /\ y \in Nat
    OBVIOUS
  <2>2. SUFFICES ASSUME y < x
                 PROVE  FALSE
    BY <2>1
  <2>3. 1..y \subseteq 1..x /\ 1..y # 1..x
    BY <2>1, <2>2
  <2>4. <<1..y, 1..x>> \in StrictSubsetOrdering(Nat)
    BY <2>1, <2>3 DEF StrictSubsetOrdering
  <2>5. QED
    BY <1>3, <2>4
<1>5. QED
  BY <1>4 DEF Min

\* No two entries of a cache have the same key.
Distinct(c) == \A i, j \in DOMAIN c : c[i].key = c[j].key => i = j

\* Part of a cache, from some entry on.
LEMMA SuffixFacts ==
    ASSUME NEW c \in Seq(Entry), NEW n \in 1..Len(c) + 1
    PROVE  LET d == SubSeq(c, n, Len(c))
           IN  d \in Seq(Entry) /\ Keys(d) \subseteq Keys(c) /\ (Distinct(c) => Distinct(d))
<1> DEFINE d == SubSeq(c, n, Len(c))
<1>1. d \in Seq(Entry) /\ Len(d) = Len(c) - n + 1 /\ \A i \in 1..Len(d) : d[i] = c[n + i - 1]
  BY SubSeqProperties
<1>2. DOMAIN d = 1..Len(d) /\ DOMAIN c = 1..Len(c)
  BY <1>1
<1>3. \A i \in DOMAIN d : n + i - 1 \in DOMAIN c /\ d[i] = c[n + i - 1]
  BY <1>1, <1>2
<1>4. Keys(d) \subseteq Keys(c)
  BY <1>3 DEF Keys
<1>5. Distinct(c) => Distinct(d)
  BY <1>2, <1>3 DEF Distinct
<1>6. QED
  BY <1>1, <1>4, <1>5

LEMMA KeysAreMsgs ==
    ASSUME NEW c \in Seq(Entry)
    PROVE  Keys(c) \subseteq Msgs
<1>1. \A i \in DOMAIN c : c[i] \in Entry
  OBVIOUS
<1>2. QED
  BY <1>1 DEF Keys, Entry

LEMMA PruneFacts ==
    ASSUME NEW c \in Seq(Entry), NEW t \in Nat
    PROVE  /\ Prune(c, t) \in Seq(Entry)
           /\ Keys(Prune(c, t)) \subseteq Keys(c)
           /\ Distinct(c) => Distinct(Prune(c, t))
<1> DEFINE young == {i \in DOMAIN c : ~Aged(c[i], t)}
<1>1. CASE young = {}
  <2>1. Prune(c, t) = <<>>
    BY <1>1 DEF Prune
  <2>2. QED
    BY <2>1 DEF Keys, Distinct
<1>2. CASE young # {}
  <2>1. Prune(c, t) = SubSeq(c, Min(young), Len(c))
    BY <1>2 DEF Prune
  <2>2. Min(young) \in young
    <3>1. young \subseteq Nat
      OBVIOUS
    <3>2. QED
      BY <1>2, <3>1, MinExists
  <2>3. Min(young) \in 1..Len(c) + 1
    BY <2>2
  <2>4. QED
    BY <2>1, <2>3, SuffixFacts
<1>3. QED
  BY <1>1, <1>2

LEMMA MakeRoomFacts ==
    ASSUME NEW c \in Seq(Entry)
    PROVE  /\ MakeRoom(c) \in Seq(Entry)
           /\ Keys(MakeRoom(c)) \subseteq Keys(c)
           /\ Distinct(c) => Distinct(MakeRoom(c))
<1>1. CASE Len(c) >= DedupeCapacity
  <2>1. Len(c) # 0 /\ c # <<>>
    BY <1>1, BusAssumption
  <2>2. MakeRoom(c) = SubSeq(c, 2, Len(c))
    BY <1>1, <2>1, TailIsSubSeq DEF MakeRoom
  <2>3. QED
    BY <2>1, <2>2, SuffixFacts
<1>2. CASE ~(Len(c) >= DedupeCapacity)
  BY <1>2 DEF MakeRoom
<1>3. QED
  BY <1>1, <1>2

LEMMA AppendFacts ==
    ASSUME NEW c \in Seq(Entry), NEW e \in Entry
    PROVE  /\ Append(c, e) \in Seq(Entry)
           /\ Keys(Append(c, e)) = Keys(c) \cup {e.key}
           /\ Distinct(c) /\ e.key \notin Keys(c) => Distinct(Append(c, e))
<1> DEFINE d == Append(c, e)
<1>1. d \in Seq(Entry) /\ DOMAIN d = 1..Len(c) + 1 /\ DOMAIN c = 1..Len(c)
  OBVIOUS
<1>2. d[Len(c) + 1] = e /\ \A i \in 1..Len(c) : d[i] = c[i]
  OBVIOUS
<1> HIDE DEF d
<1>3. Keys(d) = Keys(c) \cup {e.key}
  <2>1. Keys(d) \subseteq Keys(c) \cup {e.key}
    BY <1>1, <1>2 DEF Keys
  <2>2. Keys(c) \subseteq Keys(d)
    BY <1>1, <1>2 DEF Keys
  <2>3. e.key \in Keys(d)
    <3>1. Len(c) + 1 \in DOMAIN d
      BY <1>1
    <3>2. QED
      BY <3>1, <1>2 DEF Keys
  <2>4. QED
    BY <2>1, <2>2, <2>3
<1>4. Distinct(c) /\ e.key \notin Keys(c) => Distinct(d)
  BY <1>1, <1>2 DEF Distinct, Keys
<1>5. QED
  BY <1>1, <1>3, <1>4 DEF d

\* The element at position n taken out of a sequence.
LEMMA RemoveAtFacts ==
    ASSUME NEW E, NEW c \in Seq(E), NEW n \in 1..Len(c)
    PROVE  /\ RemoveAt(c, n) \in Seq(E)
           /\ Len(RemoveAt(c, n)) = Len(c) - 1
           /\ \A i \in 1..Len(c) - 1 : RemoveAt(c, n)[i] = IF i < n THEN c[i] ELSE c[i + 1]
<1> DEFINE a == SubSeq(c, 1, n - 1)
           b == SubSeq(c, n + 1, Len(c))
<1>1. a \in Seq(E) /\ Len(a) = n - 1 /\ \A i \in 1..n - 1 : a[i] = c[i]
  BY SubSeqProperties
<1>2. b \in Seq(E) /\ Len(b) = Len(c) - n /\ \A i \in 1..Len(c) - n : b[i] = c[n + i]
  BY SubSeqProperties
<1> HIDE DEF a, b
<1>3. a \o b \in Seq(E) /\ Len(a \o b) = Len(c) - 1
  BY <1>1, <1>2, ConcatProperties
<1>4. ASSUME NEW i \in 1..Len(c) - 1
      PROVE  (a \o b)[i] = IF i < n THEN c[i] ELSE c[i + 1]
  <2>1. (a \o b)[i] = IF i <= Len(a) THEN a[i] ELSE b[i - Len(a)]
    BY <1>1, <1>2, ConcatProperties
  <2>2. CASE i < n
    BY <2>1, <2>2, <1>1
  <2>3. CASE ~(i < n)
    <3>1. i - Len(a) \in 1..Len(c) - n /\ n + (i - Len(a)) = i + 1 /\ ~(i <= Len(a))
      BY <2>3, <1>1
    <3>2. QED
      BY <3>1, <2>1, <2>3, <1>2
  <2>4. QED
    BY <2>2, <2>3
<1>5. RemoveAt(c, n) = a \o b
  BY DEF RemoveAt, a, b
<1>6. QED
  BY <1>3, <1>4, <1>5

LEMMA PopFacts ==
    ASSUME NEW c \in Seq(Entry), NEW m
    PROVE  /\ Pop(c, m) \in Seq(Entry)
           /\ Keys(Pop(c, m)) \subseteq Keys(c)
           /\ \A k \in Keys(c) : k # m => k \in Keys(Pop(c, m))
           /\ Distinct(c) => Distinct(Pop(c, m)) /\ m \notin Keys(Pop(c, m))
<1>1. CASE \E i \in 1..Len(c) : c[i].key = m
  <2> DEFINE I == {i \in 1..Len(c) : c[i].key = m}
             n == Min(I)
             d == Pop(c, m)
  <2>1. n \in I
    <3>1. I \subseteq Nat /\ I # {}
      BY <1>1
    <3>2. QED
      BY <3>1, MinExists
  <2>2. d = RemoveAt(c, n)
    BY <1>1 DEF Pop, RemoveFirstMatch, SelectInSeq
  <2>3. n \in 1..Len(c) /\ c[n].key = m
    BY <2>1
  <2> HIDE DEF n, d, I
  <2>4. /\ d \in Seq(Entry) /\ Len(d) = Len(c) - 1
        /\ \A i \in 1..Len(c) - 1 : d[i] = IF i < n THEN c[i] ELSE c[i + 1]
    BY <2>2, <2>3, RemoveAtFacts
  <2>5. DOMAIN d = 1..Len(c) - 1 /\ DOMAIN c = 1..Len(c)
    BY <2>4
  <2>6. Keys(d) \subseteq Keys(c)
    BY <2>3, <2>4, <2>5 DEF Keys
  <2>7. ASSUME NEW k \in Keys(c), k # m
        PROVE  k \in Keys(d)
    <3>1. PICK j \in 1..Len(c) : c[j].key = k
      BY <2>5 DEF Keys
    <3>2. CASE j < n
      <4>1. j \in DOMAIN d /\ d[j] = c[j]
        BY <3>2, <2>3, <2>4, <2>5
      <4>2. QED
        BY <4>1, <3>1 DEF Keys
    <3>3. CASE j > n
      <4>1. j - 1 \in DOMAIN d /\ d[j - 1] = c[j]
        BY <3>3, <2>3, <2>4, <2>5
      <4>2. QED
        BY <4>1, <3>1 DEF Keys
    <3>4. j # n
      BY <3>1, <2>3, <2>7
    <3>5. QED
      BY <3>2, <3>3, <3>4, <2>3
  <2>8. Distinct(c) => Distinct(d) /\ m \notin Keys(d)
    <3>1. SUFFICES ASSUME Distinct(c)
                   PROVE  Distinct(d) /\ m \notin Keys(d)
      OBVIOUS
    <3>2. \A i \in DOMAIN d : \E j \in DOMAIN c :
              d[i] = c[j] /\ j # n /\ j = (IF i < n THEN i ELSE i + 1)
      BY <2>3, <2>4, <2>5
    <3>3. m \notin Keys(d)
      BY <3>1, <3>2, <2>3, <2>5 DEF Distinct, Keys
    <3>4. ASSUME NEW i \in DOMAIN d, NEW j \in DOMAIN d, d[i].key = d[j].key
          PROVE  i = j
      <4>1. (IF i < n THEN i ELSE i + 1) = (IF j < n THEN j ELSE j + 1)
        BY <3>1, <3>2, <3>4 DEF Distinct
      <4>2. QED
        BY <4>1, <2>3, <2>5
    <3>5. QED
      BY <3>3, <3>4 DEF Distinct
  <2>9. QED
    BY <2>4, <2>6, <2>7, <2>8 DEF d
<1>2. CASE ~(\E i \in 1..Len(c) : c[i].key = m)
  <2>1. Pop(c, m) = c
    BY <1>2 DEF Pop, RemoveFirstMatch
  <2>2. m \notin Keys(c)
    BY <1>2 DEF Keys
  <2>3. QED
    BY <2>1, <2>2
<1>3. QED
  BY <1>1, <1>2

LEMMA RemoveFirstType ==
    ASSUME NEW c \in Seq(Subs), NEW x
    PROVE  RemoveFirst(c, x) \in Seq(Subs)
<1>1. CASE \E i \in 1..Len(c) : c[i] = x
  <2> DEFINE I == {i \in 1..Len(c) : c[i] = x}
  <2>1. Min(I) \in I
    <3>1. I \subseteq Nat /\ I # {}
      BY <1>1
    <3>2. QED
      BY <3>1, MinExists
  <2>2. RemoveFirst(c, x) = RemoveAt(c, Min(I))
    BY <1>1 DEF RemoveFirst, SelectInSeq
  <2>3. QED
    BY <2>1, <2>2, RemoveAtFacts
<1>2. CASE ~(\E i \in 1..Len(c) : c[i] = x)
  BY <1>2 DEF RemoveFirst
<1>3. QED
  BY <1>1, <1>2

-----------------------------------------------------------------------------
(* Type correctness *)

LEMMA InitTypeOK == Init => TypeOK
<1> SUFFICES ASSUME Init
             PROVE  TypeOK
  OBVIOUS
<1> USE BusAssumption DEF Init
<1>1. ServerType
  <2>1. closed \in BOOLEAN /\ cleared \in BOOLEAN
    OBVIOUS
  <2>2. topics \in [Topics -> Seq(Subs)]
    OBVIOUS
  <2>3. acl \subseteq Kinds
    BY DEF Kinds
  <2>4. QED
    BY <2>1, <2>2, <2>3 DEF ServerType
<1>2. SubType
  BY DEF SubType, SubStates
<1>3. CacheType
  BY DEF CacheType
<1>4. CallType /\ CallShape
  BY DEF CallType, CallShape, NoCall, PcStates, Errors
<1>5. HistoryType
  BY DEF HistoryType
<1>6. QED
  BY <1>1, <1>2, <1>3, <1>4, <1>5 DEF TypeOK

LEMMA ServerFrame == ServerType /\ UNCHANGED serverVars => ServerType'
  BY DEF ServerType, serverVars
LEMMA SubFrame == SubType /\ UNCHANGED subVars => SubType'
  BY DEF SubType, subVars
LEMMA CallFrame == CallType /\ CallShape /\ UNCHANGED callVars => CallType' /\ CallShape'
  BY DEF CallType, CallShape, callVars
LEMMA HistoryFrame == HistoryType /\ UNCHANGED <<now, stats, histVars>> => HistoryType'
  BY DEF HistoryType, histVars

LEMMA CacheFrame == CacheType /\ UNCHANGED dedupe => CacheType'
  BY DEF CacheType

LEMMA NextTypeOK == TypeOK /\ [Next]_vars => TypeOK'
<1> SUFFICES ASSUME TypeOK, [Next]_vars
             PROVE  TypeOK'
  OBVIOUS
<1>a. ServerType /\ SubType /\ CacheType /\ CallType /\ CallShape /\ HistoryType
  BY DEF TypeOK
<1>1. ASSUME NEW s \in Subs, SubscribeCheck(s)
      PROVE  TypeOK'
  <2>1. SubType'
    BY <1>a, <1>1 DEF SubscribeCheck, SubType, subVars, SubStates
  <2>2. ServerType' /\ CacheType' /\ CallType' /\ CallShape' /\ HistoryType'
    BY <1>a, <1>1, ServerFrame, CacheFrame, CallFrame, HistoryFrame DEF SubscribeCheck
  <2>3. QED
    BY <2>1, <2>2 DEF TypeOK
<1>2. ASSUME NEW s \in Subs, SubscribePush(s)
      PROVE  TypeOK'
  <2>1. ServerType'
    BY <1>a, <1>2, BusAssumption DEF SubscribePush, ServerType
  <2>2. SubType'
    BY <1>a, <1>2 DEF SubscribePush, SubType, subVars, SubStates
  <2>3. CacheType' /\ CallType' /\ CallShape' /\ HistoryType'
    BY <1>a, <1>2, CacheFrame, CallFrame, HistoryFrame DEF SubscribePush
  <2>4. QED
    BY <2>1, <2>2, <2>3 DEF TypeOK
<1>3. ASSUME NEW s \in Subs, Recv(s)
      PROVE  TypeOK'
  <2>1. SubType'
    <3>1. Tail(queue[s]) \in Seq(Msgs \cup {Notice}) /\ Len(Tail(queue[s])) = Len(queue[s]) - 1
      BY <1>a, <1>3, HeadTailProperties DEF Recv, SubType
    <3>2. Len(queue[s]) \in Nat /\ Len(queue[s]) <= QueueCapacity /\ QueueCapacity \in Nat
      BY <1>a, BusAssumption DEF SubType
    <3>3. QED
      BY <1>a, <1>3, <3>1, <3>2 DEF Recv, SubType
  <2>2. ServerType' /\ CacheType' /\ CallType' /\ CallShape' /\ HistoryType'
    BY <1>a, <1>3, ServerFrame, CacheFrame, CallFrame, HistoryFrame DEF Recv
  <2>3. QED
    BY <2>1, <2>2 DEF TypeOK
<1>4. ASSUME NEW s \in Subs, EndOfStream(s)
      PROVE  TypeOK'
  <2>1. SubType'
    BY <1>a, <1>4 DEF EndOfStream, SubType, subVars, SubStates
  <2>2. ServerType' /\ CacheType' /\ CallType' /\ CallShape' /\ HistoryType'
    BY <1>a, <1>4, ServerFrame, CacheFrame, CallFrame, HistoryFrame DEF EndOfStream
  <2>3. QED
    BY <2>1, <2>2 DEF TypeOK
<1>5. ASSUME NEW s \in Subs, Unsubscribe(s)
      PROVE  TypeOK'
  <2>1. ServerType'
    BY <1>a, <1>5, BusAssumption, RemoveFirstType DEF Unsubscribe, ServerType, RemoveSubscriber
  <2>2. SubType'
    BY <1>a, <1>5 DEF Unsubscribe, SubType, subVars, SubStates
  <2>3. CacheType' /\ CallType' /\ CallShape' /\ HistoryType'
    BY <1>a, <1>5, CacheFrame, CallFrame, HistoryFrame DEF Unsubscribe
  <2>4. QED
    BY <2>1, <2>2, <2>3 DEF TypeOK
<1>6. ASSUME NEW s \in Subs, DropReceiver(s)
      PROVE  TypeOK'
  <2>1. SubType'
    BY <1>a, <1>6, BusAssumption DEF DropReceiver, SubType, subVars, SubStates
  <2>2. ServerType' /\ CacheType' /\ CallType' /\ CallShape' /\ HistoryType'
    BY <1>a, <1>6, ServerFrame, CacheFrame, CallFrame, HistoryFrame DEF DropReceiver
  <2>3. QED
    BY <2>1, <2>2 DEF TypeOK
<1>7. ASSUME NEW p \in Publishers, NEW t \in Topics, NEW m \in Msgs, PublishRefused(p, t, m)
      PROVE  TypeOK'
  <2>1. CallType' /\ CallShape'
    BY <1>a, <1>7 DEF PublishRefused, CallType, CallShape, StartCall
  <2>2. ServerType' /\ SubType' /\ CacheType' /\ HistoryType'
    BY <1>a, <1>7, ServerFrame, SubFrame, CacheFrame, HistoryFrame DEF PublishRefused, StartCall
  <2>3. QED
    BY <2>1, <2>2 DEF TypeOK
<1>8. ASSUME NEW p \in Publishers, NEW t \in Topics, NEW m \in Msgs, PublishExpired(p, t, m)
      PROVE  TypeOK'
  <2>1. CallType' /\ CallShape'
    BY <1>a, <1>8 DEF PublishExpired, CallType, CallShape, StartCall, PcStates, Errors, HistoryType
  <2>2. HistoryType'
    BY <1>a, <1>8 DEF PublishExpired, HistoryType, histVars, Bump, StatFields
  <2>3. ServerType' /\ SubType' /\ CacheType'
    BY <1>a, <1>8, ServerFrame, SubFrame, CacheFrame DEF PublishExpired, StartCall
  <2>4. QED
    BY <2>1, <2>2, <2>3 DEF TypeOK
<1>9. ASSUME NEW p \in Publishers, NEW t \in Topics, NEW m \in Msgs, PublishAdmitted(p, t, m)
      PROVE  TypeOK'
  <2>1. CallType' /\ CallShape'
    BY <1>a, <1>9 DEF PublishAdmitted, CallType, CallShape, StartCall, PcStates, HistoryType
  <2>2. HistoryType'
    BY <1>a, <1>9 DEF PublishAdmitted, HistoryType, histVars, Bump, StatFields
  <2>3. ServerType' /\ SubType' /\ CacheType'
    BY <1>a, <1>9, ServerFrame, SubFrame, CacheFrame DEF PublishAdmitted, StartCall
  <2>4. QED
    BY <2>1, <2>2, <2>3 DEF TypeOK
<1>10. ASSUME NEW p \in Publishers, TakeSnapshot(p)
      PROVE  TypeOK'
  <2>1. CallType' /\ CallShape'
    BY <1>a, <1>10 DEF TakeSnapshot, CallType, CallShape, PcStates, ServerType
  <2>2. ServerType' /\ SubType' /\ CacheType' /\ HistoryType'
    BY <1>a, <1>10, ServerFrame, SubFrame, CacheFrame, HistoryFrame DEF TakeSnapshot
  <2>3. QED
    BY <2>1, <2>2 DEF TypeOK
<1>11. ASSUME NEW p \in Publishers, DropDuplicate(p)
      PROVE  TypeOK'
  <2>c. Current(p) \in Subs /\ call[p].msg \in Msgs
    BY <1>a, <1>11 DEF DropDuplicate, Current, CallType, CallShape, AtSubscriber
  <2>1. CacheType'
    BY <1>a, <1>11, <2>c, PruneFacts DEF DropDuplicate, Pruned, CacheType, CallType
  <2>2. CallType' /\ CallShape'
    BY <1>a, <1>11 DEF DropDuplicate, CallType, CallShape, PcStates, AtSubscriber
  <2>3. HistoryType'
    <3>1. Keys(dedupe[Current(p)]) \subseteq Msgs
      BY <1>a, <2>c, KeysAreMsgs DEF CacheType
    <3>2. stats' \in [StatFields -> Nat]
      BY <1>a, <1>11 DEF DropDuplicate, Bump, HistoryType, StatFields
    <3>3. forgotten' \in [Subs -> SUBSET Msgs]
      BY <1>a, <1>11, <2>c, <3>1 DEF DropDuplicate, Forget, HistoryType
    <3>4. told' \in [Subs -> SUBSET Msgs]
      BY <1>a, <1>11, <2>c DEF DropDuplicate, HistoryType
    <3>5. QED
      BY <1>a, <1>11, <3>2, <3>3, <3>4 DEF DropDuplicate, HistoryType
  <2>4. ServerType' /\ SubType'
    BY <1>a, <1>11, ServerFrame, SubFrame DEF DropDuplicate
  <2>5. QED
    BY <2>1, <2>2, <2>3, <2>4 DEF TypeOK
<1>12. ASSUME NEW p \in Publishers, Reserve(p)
      PROVE  TypeOK'
  <2>c. Current(p) \in Subs /\ call[p].msg \in Msgs
    BY <1>a, <1>12 DEF Reserve, Current, CallType, CallShape, AtSubscriber
  <2>1. CacheType'
    <3>1. Pruned(p) \in Seq(Entry)
      BY <1>a, <2>c, PruneFacts DEF Pruned, CacheType, CallType
    <3>2. MakeRoom(Pruned(p)) \in Seq(Entry)
      BY <3>1, MakeRoomFacts
    <3>3. [key |-> call[p].msg, ts |-> call[p].now] \in Entry
      BY <1>a, <2>c DEF CallType, Entry
    <3>4. Put(Pruned(p), call[p].msg, call[p].now) \in Seq(Entry)
      BY <3>2, <3>3, AppendFacts DEF Put
    <3>5. QED
      BY <1>a, <1>12, <2>c, <3>4 DEF Reserve, CacheType
  <2>2. CallType' /\ CallShape'
    BY <1>a, <1>12 DEF Reserve, CallType, CallShape, PcStates, AtSubscriber
  <2>3. HistoryType'
    <3>1. Keys(dedupe[Current(p)]) \subseteq Msgs
      BY <1>a, <2>c, KeysAreMsgs DEF CacheType
    <3>2. forgotten' \in [Subs -> SUBSET Msgs]
      BY <1>a, <1>12, <2>c, <3>1 DEF Reserve, Forget, HistoryType
    <3>3. QED
      BY <1>a, <1>12, <3>2 DEF Reserve, HistoryType
  <2>4. ServerType' /\ SubType'
    BY <1>a, <1>12, ServerFrame, SubFrame DEF Reserve
  <2>5. QED
    BY <2>1, <2>2, <2>3, <2>4 DEF TypeOK
<1>13. ASSUME NEW p \in Publishers, PushSend(p)
      PROVE  TypeOK'
  <2>c. Current(p) \in Subs /\ call[p].msg \in Msgs
    BY <1>a, <1>13 DEF PushSend, Current, CallType, CallShape
  <2>1. SubType'
    BY <1>a, <1>13, <2>c, BusAssumption DEF PushSend, SubType, HasRoom
  <2>2. CallType' /\ CallShape'
    BY <1>a, <1>13 DEF PushSend, CallType, CallShape, PcStates
  <2>3. HistoryType'
    <3>1. stats' \in [StatFields -> Nat]
      BY <1>a, <1>13 DEF PushSend, Bump, HistoryType, StatFields
    <3>2. enq' \in [Subs -> Seq(Msgs)]
      BY <1>a, <1>13, <2>c DEF PushSend, HistoryType
    <3>3. QED
      BY <1>a, <1>13, <3>1, <3>2 DEF PushSend, HistoryType
  <2>4. ServerType' /\ CacheType'
    BY <1>a, <1>13, ServerFrame, CacheFrame DEF PushSend
  <2>5. QED
    BY <2>1, <2>2, <2>3, <2>4 DEF TypeOK
<1>14. ASSUME NEW p \in Publishers, PushFull(p)
      PROVE  TypeOK'
  <2>1. CallType' /\ CallShape'
    BY <1>a, <1>14 DEF PushFull, CallType, CallShape, PcStates
  <2>2. ServerType' /\ SubType' /\ CacheType' /\ HistoryType'
    BY <1>a, <1>14, ServerFrame, SubFrame, CacheFrame, HistoryFrame DEF PushFull
  <2>3. QED
    BY <2>1, <2>2 DEF TypeOK
<1>15. ASSUME NEW p \in Publishers, PushClosed(p)
      PROVE  TypeOK'
  <2>c. Current(p) \in Subs /\ call[p].msg \in Msgs
    BY <1>a, <1>15 DEF PushClosed, Current, CallType, CallShape
  <2>1. ServerType'
    BY <1>a, <1>15, RemoveFirstType DEF PushClosed, ServerType, RemoveSubscriber
  <2>2. CallType' /\ CallShape'
    BY <1>a, <1>15, <2>c DEF PushClosed, CallType, CallShape, PcStates, Errors, Worse
  <2>3. SubType' /\ CacheType' /\ HistoryType'
    BY <1>a, <1>15, SubFrame, CacheFrame, HistoryFrame DEF PushClosed
  <2>4. QED
    BY <2>1, <2>2, <2>3 DEF TypeOK
<1>16. ASSUME NEW p \in Publishers, PushTimeout(p)
      PROVE  TypeOK'
  <2>c. Current(p) \in Subs /\ call[p].msg \in Msgs
    BY <1>a, <1>16 DEF PushTimeout, Current, CallType, CallShape
  <2>1. CallType' /\ CallShape'
    BY <1>a, <1>16, <2>c DEF PushTimeout, CallType, CallShape, PcStates, Errors, Worse
  <2>2. HistoryType'
    BY <1>a, <1>16 DEF PushTimeout, HistoryType, histVars, Bump, StatFields
  <2>3. ServerType' /\ SubType' /\ CacheType'
    BY <1>a, <1>16, ServerFrame, SubFrame, CacheFrame DEF PushTimeout
  <2>4. QED
    BY <2>1, <2>2, <2>3 DEF TypeOK
<1>17. ASSUME NEW p \in Publishers, DeliveriesDone(p)
      PROVE  TypeOK'
  <2>1. CallType' /\ CallShape'
    BY <1>a, <1>17 DEF DeliveriesDone, CallType, CallShape, PcStates
  <2>2. ServerType' /\ SubType' /\ CacheType' /\ HistoryType'
    BY <1>a, <1>17, ServerFrame, SubFrame, CacheFrame, HistoryFrame DEF DeliveriesDone
  <2>3. QED
    BY <2>1, <2>2 DEF TypeOK
<1>18. ASSUME NEW p \in Publishers, Rollback(p)
      PROVE  TypeOK'
  <2>1. CacheType'
    BY <1>a, <1>18, PopFacts DEF Rollback, CacheType, CallType
  <2>2. CallType' /\ CallShape'
    BY <1>a, <1>18 DEF Rollback, CallType, CallShape
  <2>3. ServerType' /\ SubType'
    BY <1>a, <1>18, ServerFrame, SubFrame DEF Rollback
  <2>4. HistoryType'
    BY <1>a, <1>18 DEF Rollback, HistoryType, CallType, CallShape
  <2>5. QED
    BY <2>1, <2>2, <2>3, <2>4 DEF TypeOK
<1>19. ASSUME NEW p \in Publishers, Return(p)
      PROVE  TypeOK'
  <2>1. CallType' /\ CallShape'
    BY <1>a, <1>19, BusAssumption DEF Return, CallType, CallShape, PcStates, Errors, NoCall
  <2>2. HistoryType'
    <3>1. call[p].msg \in Msgs
      BY <1>a, <1>19 DEF Return, CallShape
    <3>2. acked' \in [Subs -> SUBSET Msgs]
      BY <1>a, <1>19, <3>1 DEF Return, HistoryType
    <3>3. QED
      BY <1>a, <1>19, <3>2 DEF Return, HistoryType
  <2>3. ServerType' /\ SubType' /\ CacheType'
    BY <1>a, <1>19, ServerFrame, SubFrame, CacheFrame DEF Return
  <2>4. QED
    BY <2>1, <2>2, <2>3 DEF TypeOK
<1>20. ASSUME NEW p \in Publishers, EmitDrop(p)
      PROVE  TypeOK'
  <2>1. CallType' /\ CallShape'
    BY <1>a, <1>20, BusAssumption DEF EmitDrop, CallType, CallShape, PcStates, ServerType
  <2>2. HistoryType'
    BY <1>a, <1>20 DEF EmitDrop, HistoryType, histVars, Bump, StatFields
  <2>3. ServerType' /\ SubType' /\ CacheType'
    BY <1>a, <1>20, ServerFrame, SubFrame, CacheFrame DEF EmitDrop
  <2>4. QED
    BY <2>1, <2>2, <2>3 DEF TypeOK
<1>21. ASSUME NEW p \in Publishers, NoticeSend(p)
      PROVE  TypeOK'
  <2>c. NCurrent(p) \in Subs
    BY <1>a, <1>21 DEF NoticeSend, AtNotice, NCurrent, CallType
  <2>1. SubType'
    BY <1>a, <1>21, <2>c, BusAssumption DEF NoticeSend, SubType, HasRoom
  <2>2. CallType' /\ CallShape'
    BY <1>a, <1>21 DEF NoticeSend, CallType, CallShape, PcStates, NextNotice, AtNotice
  <2>3. HistoryType'
    BY <1>a, <1>21 DEF NoticeSend, HistoryType, histVars, Bump, StatFields
  <2>4. ServerType' /\ CacheType'
    BY <1>a, <1>21, ServerFrame, CacheFrame DEF NoticeSend
  <2>5. QED
    BY <2>1, <2>2, <2>3, <2>4 DEF TypeOK
<1>22. ASSUME NEW p \in Publishers, NoticeFull(p)
      PROVE  TypeOK'
  <2>1. CallType' /\ CallShape'
    BY <1>a, <1>22 DEF NoticeFull, CallType, CallShape, PcStates, AtNotice
  <2>2. ServerType' /\ SubType' /\ CacheType' /\ HistoryType'
    BY <1>a, <1>22, ServerFrame, SubFrame, CacheFrame, HistoryFrame DEF NoticeFull
  <2>3. QED
    BY <2>1, <2>2 DEF TypeOK
<1>23. ASSUME NEW p \in Publishers, NoticeClosed(p)
      PROVE  TypeOK'
  <2>1. ServerType'
    BY <1>a, <1>23, BusAssumption, RemoveFirstType DEF NoticeClosed, ServerType, RemoveSubscriber
  <2>2. CallType' /\ CallShape'
    BY <1>a, <1>23 DEF NoticeClosed, CallType, CallShape, PcStates, NextNotice, AtNotice
  <2>3. SubType' /\ CacheType' /\ HistoryType'
    BY <1>a, <1>23, SubFrame, CacheFrame, HistoryFrame DEF NoticeClosed
  <2>4. QED
    BY <2>1, <2>2, <2>3 DEF TypeOK
<1>24. ASSUME NEW p \in Publishers, NoticeTimeout(p)
      PROVE  TypeOK'
  <2>1. CallType' /\ CallShape'
    BY <1>a, <1>24 DEF NoticeTimeout, CallType, CallShape, PcStates, NextNotice, AtNotice
  <2>2. ServerType' /\ SubType' /\ CacheType' /\ HistoryType'
    BY <1>a, <1>24, ServerFrame, SubFrame, CacheFrame, HistoryFrame DEF NoticeTimeout
  <2>3. QED
    BY <2>1, <2>2 DEF TypeOK
<1>25. ASSUME NEW p \in Publishers, NoticeDone(p)
      PROVE  TypeOK'
  <2>1. CallType' /\ CallShape'
    BY <1>a, <1>25 DEF NoticeDone, CallType, CallShape, PcStates
  <2>2. ServerType' /\ SubType' /\ CacheType' /\ HistoryType'
    BY <1>a, <1>25, ServerFrame, SubFrame, CacheFrame, HistoryFrame DEF NoticeDone
  <2>3. QED
    BY <2>1, <2>2 DEF TypeOK
<1>26. ASSUME NEW p \in Publishers, Cancel(p)
      PROVE  TypeOK'
  <2>c. pc[p] = "wait" => Current(p) \in Subs
    BY <1>a, <1>26 DEF Current, CallType, CallShape
  <2>1. CallType' /\ CallShape'
    BY <1>a, <1>26, <2>c DEF Cancel, CallType, CallShape, PcStates, Errors
  <2>2. ServerType' /\ SubType' /\ CacheType' /\ HistoryType'
    BY <1>a, <1>26, ServerFrame, SubFrame, CacheFrame, HistoryFrame DEF Cancel
  <2>3. QED
    BY <2>1, <2>2 DEF TypeOK
<1>27. CASE Close \/ ClearTopics
  <2>1. ServerType'
    <3>1. closed' \in BOOLEAN /\ cleared' \in BOOLEAN
      BY <1>a, <1>27, Zenon DEF Close, ClearTopics, ServerType
    <3>2. topics' \in [Topics -> Seq(Subs)]
      <4>1. [t \in Topics |-> <<>>] \in [Topics -> Seq(Subs)]
        OBVIOUS
      <4>2. topics' = topics \/ topics' = [t \in Topics |-> <<>>]
        BY <1>27, Zenon DEF Close, ClearTopics
      <4>3. QED
        BY <1>a, <4>1, <4>2, Zenon DEF ServerType
    <3>3. acl' \subseteq Kinds
      BY <1>a, <1>27, Zenon DEF Close, ClearTopics, ServerType
    <3>4. QED
      BY <3>1, <3>2, <3>3 DEF ServerType
  <2>2. SubType' /\ CacheType' /\ CallType' /\ CallShape' /\ HistoryType'
    BY <1>a, <1>27, SubFrame, CacheFrame, CallFrame, HistoryFrame DEF Close, ClearTopics
  <2>3. QED
    BY <2>1, <2>2 DEF TypeOK
<1>28. CASE Tick
  <2>1. HistoryType'
    BY <1>a, <1>28 DEF Tick, HistoryType, histVars
  <2>2. ServerType' /\ SubType' /\ CacheType' /\ CallType' /\ CallShape'
    BY <1>a, <1>28, ServerFrame, SubFrame, CacheFrame, CallFrame DEF Tick
  <2>3. QED
    BY <2>1, <2>2 DEF TypeOK
<1>29. ASSUME NEW kinds \in AclChoices, ConfigureAcl(kinds)
      PROVE  TypeOK'
  <2>1. ServerType'
    BY <1>a, <1>29, BusAssumption DEF ConfigureAcl, ServerType
  <2>2. SubType' /\ CacheType' /\ CallType' /\ CallShape' /\ HistoryType'
    BY <1>a, <1>29, SubFrame, CacheFrame, CallFrame, HistoryFrame DEF ConfigureAcl
  <2>3. QED
    BY <2>1, <2>2 DEF TypeOK
<1>30. CASE UNCHANGED vars
  BY <1>a, <1>30, ServerFrame, SubFrame, CacheFrame, CallFrame, HistoryFrame DEF vars, TypeOK
<1>31. QED
  BY <1>1, <1>2, <1>3, <1>4, <1>5, <1>6, <1>7, <1>8, <1>9, <1>10, <1>11, <1>12, <1>13, <1>14, <1>15, <1>16, <1>17, <1>18, <1>19, <1>20, <1>21, <1>22, <1>23, <1>24, <1>25, <1>26, <1>27, <1>28, <1>29, <1>30
     DEF Next, SubscriberStep, PublishCall, CallStep

\* Every reachable state of the bus has the shape TypeOK describes; in
\* particular no channel ever exceeds queue_capacity.
THEOREM TypeCorrect == Spec => []TypeOK
  BY InitTypeOK, NextTypeOK, PTL DEF Spec

-----------------------------------------------------------------------------
(* The reservation protocol *)

\* What a step of call p leaves alone: the state of every other call.
OthersSame(p) ==
    \A q \in Publishers \ {p} :
        /\ pc'[q] = pc[q] /\ call'[q] = call[q] /\ held'[q] = held[q]
        /\ snap'[q] = snap[q] /\ idx'[q] = idx[q]

LEMMA OthersReserve ==
    ASSUME NEW p \in Publishers, OthersSame(p)
    PROVE  \A q \in Publishers \ {p}, x \in Subs :
               /\ Reserves(q, x)' <=> Reserves(q, x)
               /\ call'[q].msg = call[q].msg
  BY DEF OthersSame, Reserves, Current

\* A step of one call that touches no cache and keeps the call's own set of
\* reservations keeps the invariant.
LEMMA SameReservations ==
    ASSUME DedupeInv, NEW p \in Publishers,
           UNCHANGED <<dedupe, enq, forgotten>>,
           OthersSame(p),
           \A x \in Subs : Reserves(p, x)' <=> Reserves(p, x),
           \A x \in Subs : Reserves(p, x) => call'[p].msg = call[p].msg,
           pc'[p] = "idle" => held'[p] = {},
           pc'[p] \in {"push", "wait"} =>
               /\ pc[p] \in {"push", "wait"} /\ Current(p)' = Current(p)
               /\ held'[p] = held[p] /\ call'[p] = call[p]
    PROVE  DedupeInv'
<1>a. /\ CacheDistinct /\ IdleHoldsNothing /\ SentIsCached /\ ReservedIsCached
      /\ ReservedOnce /\ HeldOrCurrent /\ AtMostOnce /\ NoLeakedReservation
  BY DEF DedupeInv
<1>b. \A q \in Publishers, x \in Subs : Reserves(q, x)' <=> Reserves(q, x)
  BY OthersReserve
<1>c. \A q \in Publishers, x \in Subs : Reserves(q, x) => call'[q].msg = call[q].msg
  BY OthersReserve
<1>d. \A x \in Subs : Keys(dedupe[x])' = Keys(dedupe[x]) /\ ToSet(enq[x])' = ToSet(enq[x])
  BY DEF Keys, ToSet
<1>1. CacheDistinct' /\ AtMostOnce'
  BY <1>a DEF CacheDistinct, AtMostOnce
<1>2. SentIsCached'
  BY <1>a, <1>d DEF SentIsCached
<1>3. ReservedIsCached'
  BY <1>a, <1>b, <1>c, <1>d DEF ReservedIsCached
<1>4. ReservedOnce'
  BY <1>a, <1>b, <1>c DEF ReservedOnce
<1>5. NoLeakedReservation'
  BY <1>a, <1>b, <1>c, <1>d DEF NoLeakedReservation, InFlight
<1>6. IdleHoldsNothing'
  BY <1>a DEF IdleHoldsNothing, OthersSame
<1>7. HeldOrCurrent'
  BY <1>a DEF HeldOrCurrent, OthersSame, Current
<1>8. QED
  BY <1>1, <1>2, <1>3, <1>4, <1>5, <1>6, <1>7 DEF DedupeInv

LEMMA InitDedupeInv == Init => DedupeInv
<1> SUFFICES ASSUME Init
             PROVE  DedupeInv
  OBVIOUS
<1>1. \A s \in Subs : dedupe[s] = <<>> /\ enq[s] = <<>>
  BY DEF Init
<1>2. \A s \in Subs : Keys(dedupe[s]) = {} /\ ToSet(enq[s]) = {}
  BY <1>1 DEF Keys, ToSet
<1>3. \A p \in Publishers, s \in Subs : ~Reserves(p, s)
  BY DEF Init, Reserves
<1>4. CacheDistinct /\ AtMostOnce
  BY <1>1 DEF CacheDistinct, AtMostOnce
<1>5. SentIsCached /\ NoLeakedReservation
  BY <1>2 DEF SentIsCached, NoLeakedReservation, InFlight
<1>6. ReservedIsCached /\ ReservedOnce
  BY <1>3 DEF ReservedIsCached, ReservedOnce
<1>7. IdleHoldsNothing /\ HeldOrCurrent
  BY DEF Init, IdleHoldsNothing, HeldOrCurrent
<1>8. QED
  BY <1>4, <1>5, <1>6, <1>7 DEF DedupeInv

\* The steps of subscribers, of the server and of the clock, and a refused call.
LEMMA ServerStepsKeepDedupe ==
    ASSUME DedupeInv,
           UNCHANGED <<pc, call, snap, idx, held, dedupe, enq, forgotten>>
    PROVE  DedupeInv'
<1>1. CacheDistinct' /\ SentIsCached' /\ AtMostOnce' /\ IdleHoldsNothing'
  BY DEF DedupeInv, CacheDistinct, SentIsCached, AtMostOnce, IdleHoldsNothing, Keys, ToSet
<1>2. HeldOrCurrent'
  BY DEF DedupeInv, HeldOrCurrent, Current
<1>3. ReservedIsCached' /\ ReservedOnce' /\ NoLeakedReservation'
  BY DEF DedupeInv, ReservedIsCached, ReservedOnce, NoLeakedReservation, InFlight, Reserves, Current,
         Keys, ToSet
<1>4. QED
  BY <1>1, <1>2, <1>3 DEF DedupeInv

\* The steps of a call that only move it along, and those that turn the
\* reservation it is working on into one it will roll back.
LEMMA CallStepsKeepDedupe ==
    ASSUME TypeOK, DedupeInv, NEW p \in Publishers,
           \/ \E t \in Topics, m \in Msgs : PublishCall(p, t, m)
           \/ TakeSnapshot(p) \/ PushFull(p) \/ PushClosed(p) \/ PushTimeout(p)
           \/ DeliveriesDone(p) \/ Return(p) \/ EmitDrop(p) \/ NoticeSend(p)
           \/ NoticeFull(p) \/ NoticeClosed(p) \/ NoticeTimeout(p) \/ NoticeDone(p)
           \/ Cancel(p)
    PROVE  DedupeInv'
<1>a. CallType
  BY DEF TypeOK
<1>b. pc[p] = "idle" => held[p] = {}
  BY DEF DedupeInv, IdleHoldsNothing
<1>c. UNCHANGED <<dedupe, enq, forgotten>>
  BY DEF PublishCall, PublishRefused, PublishExpired, PublishAdmitted, TakeSnapshot, PushFull,
         PushClosed, PushTimeout, DeliveriesDone, Return, EmitDrop, NoticeSend, NoticeFull,
         NoticeClosed, NoticeTimeout, NoticeDone, Cancel, histVars
<1>1. ASSUME NEW t \in Topics, NEW m \in Msgs, PublishCall(p, t, m)
      PROVE  DedupeInv'
  <2>1. CASE PublishRefused(p, t, m)
    BY <1>c, <2>1, ServerStepsKeepDedupe DEF PublishRefused
  <2>2. CASE PublishExpired(p, t, m) \/ PublishAdmitted(p, t, m)
    <3>1. /\ pc[p] = "idle" /\ UNCHANGED held
          /\ pc'[p] \in {"notice", "snapshot"}
      BY <1>a, <2>2 DEF PublishExpired, PublishAdmitted, StartCall, CallType
    <3>2. OthersSame(p)
      BY <1>a, <2>2 DEF PublishExpired, PublishAdmitted, OthersSame, CallType
    <3>3. \A x \in Subs : ~Reserves(p, x)' /\ ~Reserves(p, x)
      BY <1>b, <3>1 DEF Reserves
    <3>4. QED
      BY <1>c, <3>1, <3>2, <3>3, SameReservations
  <2>3. QED
    BY <1>1, <2>1, <2>2 DEF PublishCall
<1>2. CASE \/ TakeSnapshot(p) \/ DeliveriesDone(p) \/ EmitDrop(p) \/ NoticeSend(p)
           \/ NoticeFull(p) \/ NoticeClosed(p) \/ NoticeTimeout(p) \/ NoticeDone(p)
  <2>1. /\ UNCHANGED <<held, call>>
        /\ pc[p] \notin {"push", "wait"}
        /\ pc'[p] \notin {"idle", "push", "wait"}
    BY <1>a, <1>2 DEF TakeSnapshot, DeliveriesDone, EmitDrop, NoticeSend, NoticeFull,
                      NoticeClosed, NoticeTimeout, NoticeDone, NextNotice, AtNotice, CallType
  <2>2. OthersSame(p)
    BY <1>a, <1>2 DEF TakeSnapshot, DeliveriesDone, EmitDrop, NoticeSend, NoticeFull,
                      NoticeClosed, NoticeTimeout, NoticeDone, NextNotice, OthersSame, CallType
  <2>3. \A x \in Subs : Reserves(p, x)' <=> Reserves(p, x)
    BY <2>1 DEF Reserves
  <2>4. QED
    BY <1>c, <2>1, <2>2, <2>3, SameReservations
<1>3. CASE PushFull(p)
  <2>1. /\ UNCHANGED <<held, call, snap, idx>>
        /\ pc[p] = "push" /\ pc'[p] = "wait"
    BY <1>a, <1>3 DEF PushFull, CallType
  <2>2. OthersSame(p)
    BY <1>a, <1>3 DEF PushFull, OthersSame, CallType
  <2>3. Current(p)' = Current(p)
    BY <2>1 DEF Current
  <2>4. \A x \in Subs : Reserves(p, x)' <=> Reserves(p, x)
    BY <2>1, <2>3 DEF Reserves
  <2>5. QED
    BY <1>c, <2>1, <2>2, <2>3, <2>4, SameReservations
<1>4. CASE PushClosed(p) \/ PushTimeout(p) \/ Cancel(p)
  <2>1. /\ UNCHANGED call
        /\ pc'[p] \notin {"idle", "push", "wait"}
    BY <1>a, <1>4 DEF PushClosed, PushTimeout, Cancel, CallType
  <2>2. OthersSame(p)
    BY <1>a, <1>4 DEF PushClosed, PushTimeout, Cancel, OthersSame, CallType
  <2>3. held'[p] = IF pc[p] \in {"push", "wait"} THEN held[p] \cup {Current(p)} ELSE held[p]
    BY <1>a, <1>4 DEF PushClosed, PushTimeout, Cancel, CallType
  <2>4. \A x \in Subs : Reserves(p, x)' <=> Reserves(p, x)
    BY <2>1, <2>3 DEF Reserves
  <2>5. QED
    BY <1>c, <2>1, <2>2, <2>4, SameReservations
<1>5. CASE Return(p)
  <2>1. /\ held[p] = {} /\ UNCHANGED held
        /\ pc[p] = "rollback" /\ pc'[p] = "idle"
    BY <1>a, <1>5 DEF Return, CallType
  <2>2. OthersSame(p)
    BY <1>a, <1>5 DEF Return, OthersSame, CallType
  <2>3. \A x \in Subs : ~Reserves(p, x)' /\ ~Reserves(p, x)
    BY <2>1 DEF Reserves
  <2>4. QED
    BY <1>c, <2>1, <2>2, <2>3, SameReservations
<1>6. QED
  BY <1>1, <1>2, <1>3, <1>4, <1>5

\* reserve() that finds the key has still pruned: the cache keeps a suffix of
\* itself, and what it drops counts as forgotten.
LEMMA DropDuplicateKeepsDedupe ==
    ASSUME TypeOK, DedupeInv, NEW p \in Publishers, DropDuplicate(p)
    PROVE  DedupeInv'
<1> DEFINE s == Current(p)
           c == Pruned(p)
<1>a. /\ CacheDistinct /\ IdleHoldsNothing /\ SentIsCached /\ ReservedIsCached
      /\ ReservedOnce /\ HeldOrCurrent /\ AtMostOnce /\ NoLeakedReservation
  BY DEF DedupeInv
<1>b. /\ s \in Subs /\ pc[p] = "deliver" /\ pc'[p] = "notice"
      /\ UNCHANGED <<held, call, enq>>
      /\ dedupe' = [dedupe EXCEPT ![s] = c]
      /\ forgotten' = [forgotten EXCEPT ![s] = @ \cup (Keys(dedupe[s]) \ Keys(c))]
  BY DEF TypeOK, CallType, DropDuplicate, AtSubscriber, Current, Forget
<1>c. /\ c \in Seq(Entry) /\ Keys(c) \subseteq Keys(dedupe[s])
      /\ Distinct(dedupe[s]) => Distinct(c)
  BY <1>b, PruneFacts DEF TypeOK, CallType, CacheType, Pruned
<1>d. OthersSame(p)
  BY DEF TypeOK, CallType, DropDuplicate, OthersSame
<1>e. \A q \in Publishers, x \in Subs : Reserves(q, x)' <=> Reserves(q, x)
  BY <1>b, <1>d, OthersReserve DEF Reserves
<1> HIDE DEF s, c
<1>f. /\ dedupe'[s] = c /\ \A x \in Subs : x # s => dedupe'[x] = dedupe[x]
      /\ forgotten'[s] = forgotten[s] \cup (Keys(dedupe[s]) \ Keys(c))
      /\ \A x \in Subs : x # s => forgotten'[x] = forgotten[x]
  BY <1>b DEF TypeOK, CacheType, HistoryType
<1>g. \A x \in Subs : /\ Keys(dedupe'[x]) \subseteq Keys(dedupe[x])
                      /\ Keys(dedupe[x]) \subseteq Keys(dedupe'[x]) \cup forgotten'[x]
                      /\ forgotten[x] \subseteq forgotten'[x]
  BY <1>c, <1>f
<1>1. CacheDistinct'
  BY <1>a, <1>c, <1>f DEF CacheDistinct, Distinct
<1>2. SentIsCached'
  BY <1>a, <1>b, <1>g DEF SentIsCached
<1>3. ReservedIsCached'
  BY <1>a, <1>b, <1>e, <1>g DEF ReservedIsCached
<1>4. ReservedOnce'
  BY <1>a, <1>b, <1>e, <1>g DEF ReservedOnce
<1>5. NoLeakedReservation'
  BY <1>a, <1>b, <1>e, <1>g DEF NoLeakedReservation, InFlight
<1>6. IdleHoldsNothing'
  BY <1>a, <1>b, <1>d DEF IdleHoldsNothing, OthersSame
<1>7. HeldOrCurrent'
  <2> SUFFICES ASSUME NEW q \in Publishers, pc'[q] \in {"push", "wait"}, Current(q)' \in held'[q]
               PROVE  call'[q].msg \in forgotten'[Current(q)']
    BY DEF HeldOrCurrent
  <2>1. q # p
    BY <1>b
  <2>2. /\ pc[q] \in {"push", "wait"} /\ Current(q)' = Current(q) /\ Current(q) \in held[q]
        /\ call'[q] = call[q]
    BY <2>1, <1>d DEF OthersSame, Current
  <2>3. Current(q) \in Subs
    BY <2>2 DEF TypeOK, CallType
  <2>4. QED
    BY <1>a, <1>g, <2>2, <2>3 DEF HeldOrCurrent
<1>8. AtMostOnce'
  BY <1>a, <1>b, <1>g DEF AtMostOnce
<1>9. QED
  BY <1>1, <1>2, <1>3, <1>4, <1>5, <1>6, <1>7, <1>8 DEF DedupeInv

\* reserve() of a key the pruned cache does not hold: if the subscriber was
\* ever sent it, or any call still reserves it, the cache has forgotten it.
LEMMA ReserveKeepsDedupe ==
    ASSUME TypeOK, DedupeInv, NEW p \in Publishers, Reserve(p)
    PROVE  DedupeInv'
<1> DEFINE s == Current(p)
           m == call[p].msg
           kept == MakeRoom(Pruned(p))
           c == Put(Pruned(p), m, call[p].now)
<1>a. /\ CacheDistinct /\ IdleHoldsNothing /\ SentIsCached /\ ReservedIsCached
      /\ ReservedOnce /\ HeldOrCurrent /\ AtMostOnce /\ NoLeakedReservation
  BY DEF DedupeInv
<1>b. /\ s \in Subs /\ m \in Msgs /\ pc[p] = "deliver" /\ pc'[p] = "push"
      /\ UNCHANGED <<held, call, enq, snap, idx>>
      /\ dedupe' = [dedupe EXCEPT ![s] = c]
      /\ forgotten' = [forgotten EXCEPT ![s] = @ \cup (Keys(dedupe[s]) \ Keys(kept))]
      /\ m \notin Keys(Pruned(p))
  BY DEF TypeOK, CallType, CallShape, Reserve, AtSubscriber, Current, Forget
<1>c. /\ kept \in Seq(Entry) /\ Keys(kept) \subseteq Keys(dedupe[s]) /\ m \notin Keys(kept)
      /\ Distinct(dedupe[s]) => Distinct(kept)
  <2>1. /\ Pruned(p) \in Seq(Entry) /\ Keys(Pruned(p)) \subseteq Keys(dedupe[s])
        /\ Distinct(dedupe[s]) => Distinct(Pruned(p))
    BY <1>b, PruneFacts DEF TypeOK, CallType, CacheType, Pruned
  <2>2. QED
    BY <1>b, <2>1, MakeRoomFacts
<1>d. /\ Keys(c) = Keys(kept) \cup {m}
      /\ Distinct(dedupe[s]) => Distinct(c)
  <2>1. [key |-> m, ts |-> call[p].now] \in Entry
    BY <1>b DEF Entry, TypeOK, CallType
  <2>2. QED
    BY <1>c, <2>1, AppendFacts DEF Put
<1>e. OthersSame(p)
  BY DEF TypeOK, CallType, Reserve, OthersSame
<1>f. \A q \in Publishers \ {p}, x \in Subs : Reserves(q, x)' <=> Reserves(q, x)
  BY <1>e, OthersReserve
<1>g. \A x \in Subs : Reserves(p, x)' <=> (Reserves(p, x) \/ x = s)
  BY <1>b DEF Reserves, Current
<1>h. Current(p)' = s
  BY <1>b DEF Current
<1> HIDE DEF s, c, m, kept
<1>i. /\ dedupe'[s] = c /\ \A x \in Subs : x # s => dedupe'[x] = dedupe[x]
      /\ forgotten'[s] = forgotten[s] \cup (Keys(dedupe[s]) \ Keys(kept))
      /\ \A x \in Subs : x # s => forgotten'[x] = forgotten[x]
  BY <1>b DEF TypeOK, CacheType, HistoryType
<1>j. \A x \in Subs : /\ Keys(dedupe'[x]) \subseteq Keys(dedupe[x]) \cup (IF x = s THEN {m} ELSE {})
                      /\ Keys(dedupe[x]) \subseteq Keys(dedupe'[x]) \cup forgotten'[x]
                      /\ forgotten[x] \subseteq forgotten'[x]
  BY <1>c, <1>d, <1>i
<1>k. /\ m \in Keys(dedupe'[s])
      /\ m \in Keys(dedupe[s]) => m \in forgotten'[s]
  BY <1>b, <1>c, <1>d, <1>i
<1>l. m \in ToSet(enq[s]) => m \in forgotten'[s]
  BY <1>a, <1>b, <1>j, <1>k DEF SentIsCached
<1>m. ASSUME NEW q \in Publishers, Reserves(q, s), call[q].msg = m
      PROVE  m \in forgotten'[s]
  BY <1>a, <1>b, <1>j, <1>k, <1>m DEF ReservedIsCached
<1>n. call[p].msg = m
  BY DEF m
<1>1. CacheDistinct'
  BY <1>a, <1>d, <1>i DEF CacheDistinct, Distinct
<1>2. SentIsCached'
  BY <1>a, <1>b, <1>j DEF SentIsCached
<1>3. ReservedIsCached'
  <2> SUFFICES ASSUME NEW q \in Publishers, NEW x \in Subs, Reserves(q, x)',
                      call[q].msg \notin forgotten'[x]
               PROVE  call[q].msg \in Keys(dedupe'[x]) /\ call[q].msg \notin ToSet(enq[x])
    BY <1>b DEF ReservedIsCached
  <2>1. CASE q = p /\ x = s
    BY <1>k, <1>l, <1>n, <2>1
  <2>2. CASE ~(q = p /\ x = s)
    <3>1. Reserves(q, x)
      BY <1>f, <1>g, <2>2
    <3>2. QED
      BY <1>a, <1>j, <3>1 DEF ReservedIsCached
  <2>3. QED
    BY <2>1, <2>2
<1>4. ReservedOnce'
  <2> SUFFICES ASSUME NEW q \in Publishers, NEW r \in Publishers, NEW x \in Subs,
                      Reserves(q, x)', Reserves(r, x)', call[q].msg = call[r].msg, q # r
               PROVE  call[q].msg \in forgotten'[x]
    BY <1>b DEF ReservedOnce
  <2>1. CASE Reserves(q, x) /\ Reserves(r, x)
    BY <1>a, <1>j, <2>1 DEF ReservedOnce
  <2>2. CASE ~Reserves(q, x)
    BY <1>f, <1>g, <1>m, <1>n, <2>2
  <2>3. CASE ~Reserves(r, x)
    BY <1>f, <1>g, <1>m, <1>n, <2>3
  <2>4. QED
    BY <2>1, <2>2, <2>3
<1>5. NoLeakedReservation'
  <2> SUFFICES ASSUME NEW x \in Subs, NEW k \in Keys(dedupe'[x]), k \notin ToSet(enq[x])
               PROVE  \E q \in Publishers : call[q].msg = k /\ Reserves(q, x)'
    BY <1>b DEF NoLeakedReservation, InFlight
  <2>1. CASE x = s /\ k = m
    BY <1>g, <1>n, <2>1
  <2>2. CASE ~(x = s /\ k = m)
    <3>1. k \in Keys(dedupe[x])
      BY <1>j, <2>2
    <3>2. PICK q \in Publishers : call[q].msg = k /\ Reserves(q, x)
      BY <1>a, <3>1 DEF NoLeakedReservation, InFlight
    <3>3. QED
      BY <1>f, <1>g, <3>2
  <2>3. QED
    BY <2>1, <2>2
<1>6. IdleHoldsNothing'
  BY <1>a, <1>b, <1>e DEF IdleHoldsNothing, OthersSame
<1>7. HeldOrCurrent'
  <2> SUFFICES ASSUME NEW q \in Publishers, pc'[q] \in {"push", "wait"}, Current(q)' \in held[q]
               PROVE  call[q].msg \in forgotten'[Current(q)']
    BY <1>b DEF HeldOrCurrent
  <2>1. CASE q = p
    <3>1. Reserves(p, s)
      BY <1>h, <2>1 DEF Reserves
    <3>2. QED
      BY <1>h, <1>m, <1>n, <2>1, <3>1
  <2>2. CASE q # p
    <3>1. /\ pc[q] \in {"push", "wait"} /\ Current(q)' = Current(q) /\ Current(q) \in held[q]
      BY <2>2, <1>e DEF OthersSame, Current
    <3>2. Current(q) \in Subs
      BY <3>1 DEF TypeOK, CallType
    <3>3. QED
      BY <1>a, <1>j, <3>1, <3>2 DEF HeldOrCurrent
  <2>3. QED
    BY <2>1, <2>2
<1>8. AtMostOnce'
  BY <1>a, <1>b, <1>j DEF AtMostOnce
<1>9. QED
  BY <1>1, <1>2, <1>3, <1>4, <1>5, <1>6, <1>7, <1>8 DEF DedupeInv

\* The reservation becomes a delivery: nobody else can hold one for a key the
\* cache remembers, and the subscriber cannot have been sent it before.
LEMMA PushSendKeepsDedupe ==
    ASSUME TypeOK, DedupeInv, NEW p \in Publishers, PushSend(p)
    PROVE  DedupeInv'
<1> DEFINE s == Current(p)
           m == call[p].msg
<1>a. /\ CacheDistinct /\ IdleHoldsNothing /\ SentIsCached /\ ReservedIsCached
      /\ ReservedOnce /\ HeldOrCurrent /\ AtMostOnce /\ NoLeakedReservation
  BY DEF DedupeInv
<1>b. /\ s \in Subs /\ m \in Msgs /\ pc[p] \in {"push", "wait"} /\ pc'[p] = "deliver"
      /\ UNCHANGED <<held, call, dedupe, forgotten>>
      /\ enq' = [enq EXCEPT ![s] = Append(@, m)]
  BY DEF TypeOK, CallType, CallShape, PushSend, Current
<1>c. OthersSame(p)
  BY DEF TypeOK, CallType, PushSend, OthersSame
<1>d. \A q \in Publishers \ {p}, x \in Subs : Reserves(q, x)' <=> Reserves(q, x)
  BY <1>c, OthersReserve
<1>e. \A x \in Subs : Reserves(p, x)' <=> x \in held[p]
  BY <1>b DEF Reserves
<1>f. \A x \in Subs : Reserves(p, x) <=> (x \in held[p] \/ x = s)
  BY <1>b DEF Reserves
<1>g. s \in held[p] => m \in forgotten[s]
  BY <1>a, <1>b DEF HeldOrCurrent
<1> HIDE DEF s, m
<1>h. /\ enq[s] \in Seq(Msgs) /\ enq'[s] = Append(enq[s], m)
      /\ \A x \in Subs : x # s => enq'[x] = enq[x]
  BY <1>b DEF TypeOK, HistoryType
<1>i. /\ ToSet(enq'[s]) = ToSet(enq[s]) \cup {m}
      /\ \A x \in Subs : x # s => ToSet(enq'[x]) = ToSet(enq[x])
  <2>1. ToSet(Append(enq[s], m)) = ToSet(enq[s]) \cup {m}
    <3>1. /\ DOMAIN Append(enq[s], m) = DOMAIN enq[s] \cup {Len(enq[s]) + 1}
          /\ Append(enq[s], m)[Len(enq[s]) + 1] = m
          /\ \A i \in DOMAIN enq[s] : Append(enq[s], m)[i] = enq[s][i]
      BY <1>b, <1>h
    <3>2. QED
      BY <3>1 DEF ToSet
  <2>2. QED
    BY <1>h, <2>1
<1>j. call[p].msg = m
  BY DEF m
<1>k. m \in ToSet(enq[s]) => m \in forgotten[s]
  BY <1>a, <1>b, <1>f, <1>j DEF ReservedIsCached
<1>l. m \in Keys(dedupe[s]) \cup forgotten[s]
  BY <1>a, <1>b, <1>f, <1>j DEF ReservedIsCached
<1>1. CacheDistinct'
  BY <1>a, <1>b DEF CacheDistinct
<1>2. SentIsCached'
  BY <1>a, <1>b, <1>i, <1>l DEF SentIsCached
<1>3. ReservedIsCached'
  <2> SUFFICES ASSUME NEW q \in Publishers, NEW x \in Subs, Reserves(q, x)',
                      call[q].msg \notin forgotten[x]
               PROVE  call[q].msg \in Keys(dedupe[x]) /\ call[q].msg \notin ToSet(enq'[x])
    BY <1>b DEF ReservedIsCached
  <2>1. Reserves(q, x)
    BY <1>d, <1>e, <1>f
  <2>2. call[q].msg \in Keys(dedupe[x]) /\ call[q].msg \notin ToSet(enq[x])
    BY <1>a, <2>1 DEF ReservedIsCached
  <2>3. CASE x = s /\ call[q].msg = m
    <3>1. CASE q = p
      BY <1>e, <1>g, <2>3, <3>1
    <3>2. CASE q # p
      BY <1>a, <1>b, <1>f, <1>j, <2>1, <2>3, <3>2 DEF ReservedOnce
    <3>3. QED
      BY <3>1, <3>2
  <2>4. QED
    BY <1>i, <2>2, <2>3
<1>4. ReservedOnce'
  BY <1>a, <1>b, <1>d, <1>e, <1>f DEF ReservedOnce
<1>5. NoLeakedReservation'
  <2> SUFFICES ASSUME NEW x \in Subs, NEW k \in Keys(dedupe[x]), k \notin ToSet(enq'[x])
               PROVE  \E q \in Publishers : call[q].msg = k /\ Reserves(q, x)'
    BY <1>b DEF NoLeakedReservation, InFlight
  <2>1. PICK q \in Publishers : call[q].msg = k /\ Reserves(q, x)
    BY <1>a, <1>i DEF NoLeakedReservation, InFlight
  <2>2. QED
    BY <1>d, <1>e, <1>f, <1>i, <1>j, <2>1
<1>6. IdleHoldsNothing'
  BY <1>a, <1>b, <1>c DEF IdleHoldsNothing, OthersSame
<1>7. HeldOrCurrent'
  BY <1>a, <1>b, <1>c DEF HeldOrCurrent, OthersSame, Current
<1>8. AtMostOnce'
  <2> SUFFICES ASSUME NEW x \in Subs, NEW i \in DOMAIN enq'[x], NEW j \in DOMAIN enq'[x],
                      i # j, enq'[x][i] = enq'[x][j]
               PROVE  enq'[x][i] \in forgotten[x]
    BY <1>b DEF AtMostOnce
  <2>1. CASE x # s
    BY <1>a, <1>h, <2>1 DEF AtMostOnce
  <2>2. CASE x = s
    <3>1. /\ DOMAIN enq'[s] = DOMAIN enq[s] \cup {Len(enq[s]) + 1}
          /\ enq'[s][Len(enq[s]) + 1] = m
          /\ \A n \in DOMAIN enq[s] : enq'[s][n] = enq[s][n]
      BY <1>b, <1>h
    <3>2. CASE i \in DOMAIN enq[s] /\ j \in DOMAIN enq[s]
      BY <1>a, <1>b, <2>2, <3>1, <3>2 DEF AtMostOnce
    <3>3. CASE ~(i \in DOMAIN enq[s] /\ j \in DOMAIN enq[s])
      <4>1. enq'[s][i] = m /\ m \in ToSet(enq[s])
        BY <2>2, <3>1, <3>3 DEF ToSet
      <4>2. QED
        BY <1>k, <2>2, <4>1
    <3>4. QED
      BY <3>2, <3>3
  <2>3. QED
    BY <2>1, <2>2
<1>9. QED
  BY <1>1, <1>2, <1>3, <1>4, <1>5, <1>6, <1>7, <1>8 DEF DedupeInv

\* The rollback removes a key that nobody else needs: if another call reserved
\* it or the subscriber was sent it, the cache had already forgotten it once.
LEMMA RollbackKeepsDedupe ==
    ASSUME TypeOK, DedupeInv, NEW p \in Publishers, Rollback(p)
    PROVE  DedupeInv'
<1>a. /\ CacheDistinct /\ IdleHoldsNothing /\ SentIsCached /\ ReservedIsCached
      /\ ReservedOnce /\ HeldOrCurrent /\ AtMostOnce /\ NoLeakedReservation
  BY DEF DedupeInv
<1>b. PICK s \in held[p] : /\ dedupe' = [dedupe EXCEPT ![s] = Pop(@, call[p].msg)]
                           /\ held' = [held EXCEPT ![p] = @ \ {s}]
  BY DEF Rollback
<1> DEFINE m == call[p].msg
           c == Pop(dedupe[s], m)
<1>c. /\ s \in Subs /\ pc[p] = "rollback"
      /\ UNCHANGED <<pc, call, snap, idx, enq, forgotten>>
  BY <1>b DEF TypeOK, CallType, Rollback, histVars
<1>d. OthersSame(p)
  BY <1>b, <1>c DEF TypeOK, CallType, OthersSame
<1>e. \A q \in Publishers \ {p}, x \in Subs : Reserves(q, x)' <=> Reserves(q, x)
  BY <1>d, OthersReserve
<1>f. \A x \in Subs : Reserves(p, x)' <=> (Reserves(p, x) /\ x # s)
  BY <1>b, <1>c DEF Reserves, TypeOK, CallType
<1>g. Reserves(p, s)
  BY <1>b DEF Reserves
<1>h. dedupe'[s] = c /\ \A x \in Subs : x # s => dedupe'[x] = dedupe[x]
  BY <1>b, <1>c DEF TypeOK, CacheType
<1>i. /\ Keys(c) \subseteq Keys(dedupe[s])
      /\ \A k \in Keys(dedupe[s]) : k # m => k \in Keys(c)
      /\ Distinct(dedupe[s]) => Distinct(c) /\ m \notin Keys(c)
  BY <1>c, PopFacts DEF TypeOK, CacheType
<1>j. call[p].msg = m
  OBVIOUS
<1> HIDE DEF m, c
<1>k. Distinct(dedupe[s])
  BY <1>a, <1>c DEF CacheDistinct, Distinct
<1>1. CacheDistinct'
  BY <1>a, <1>h, <1>i, <1>k DEF CacheDistinct, Distinct
<1>2. SentIsCached'
  <2> SUFFICES ASSUME NEW x \in Subs, NEW k \in ToSet(enq[x]), k \notin forgotten[x]
               PROVE  k \in Keys(dedupe'[x])
    BY <1>c DEF SentIsCached
  <2>1. k \in Keys(dedupe[x])
    BY <1>a DEF SentIsCached
  <2>2. CASE x = s
    <3>1. k # m
      BY <1>a, <1>c, <1>g, <1>j, <2>2 DEF ReservedIsCached
    <3>2. QED
      BY <1>h, <1>i, <2>1, <2>2, <3>1
  <2>3. QED
    BY <1>h, <2>1, <2>2
<1>3. ReservedIsCached'
  <2> SUFFICES ASSUME NEW q \in Publishers, NEW x \in Subs, Reserves(q, x)',
                      call[q].msg \notin forgotten[x]
               PROVE  call[q].msg \in Keys(dedupe'[x]) /\ call[q].msg \notin ToSet(enq[x])
    BY <1>c DEF ReservedIsCached
  <2>1. Reserves(q, x) /\ ~(q = p /\ x = s)
    BY <1>e, <1>f
  <2>2. call[q].msg \in Keys(dedupe[x]) /\ call[q].msg \notin ToSet(enq[x])
    BY <1>a, <2>1 DEF ReservedIsCached
  <2>3. x = s => call[q].msg # m
    BY <1>a, <1>c, <1>g, <1>j, <2>1 DEF ReservedOnce
  <2>4. QED
    BY <1>h, <1>i, <2>2, <2>3
<1>4. ReservedOnce'
  BY <1>a, <1>c, <1>e, <1>f DEF ReservedOnce
<1>5. NoLeakedReservation'
  <2> SUFFICES ASSUME NEW x \in Subs, NEW k \in Keys(dedupe'[x]), k \notin ToSet(enq[x])
               PROVE  \E q \in Publishers : call[q].msg = k /\ Reserves(q, x)'
    BY <1>c DEF NoLeakedReservation, InFlight
  <2>1. k \in Keys(dedupe[x]) /\ (x = s => k # m)
    BY <1>h, <1>i, <1>k
  <2>2. PICK q \in Publishers : call[q].msg = k /\ Reserves(q, x)
    BY <1>a, <2>1 DEF NoLeakedReservation, InFlight
  <2>3. QED
    BY <1>e, <1>f, <1>j, <2>1, <2>2
<1>6. IdleHoldsNothing'
  BY <1>a, <1>c, <1>d DEF IdleHoldsNothing, OthersSame
<1>7. HeldOrCurrent'
  BY <1>a, <1>c, <1>d DEF HeldOrCurrent, OthersSame, Current
<1>8. AtMostOnce'
  BY <1>a, <1>c DEF AtMostOnce
<1>9. QED
  BY <1>1, <1>2, <1>3, <1>4, <1>5, <1>6, <1>7, <1>8 DEF DedupeInv

LEMMA NextDedupeInv == TypeOK /\ DedupeInv /\ [Next]_vars => DedupeInv'
<1> SUFFICES ASSUME TypeOK, DedupeInv, [Next]_vars
             PROVE  DedupeInv'
  OBVIOUS
<1>1. ASSUME NEW s \in Subs, SubscriberStep(s)
      PROVE  DedupeInv'
  BY <1>1, ServerStepsKeepDedupe
     DEF SubscriberStep, SubscribeCheck, SubscribePush, Recv, EndOfStream, Unsubscribe,
         DropReceiver, callVars, histVars
<1>2. CASE Close \/ ClearTopics \/ Tick \/ \E kinds \in AclChoices : ConfigureAcl(kinds)
  BY <1>2, ServerStepsKeepDedupe
     DEF Close, ClearTopics, Tick, ConfigureAcl, callVars, histVars
<1>3. CASE UNCHANGED vars
  BY <1>3, ServerStepsKeepDedupe DEF vars, callVars, histVars
<1>4. ASSUME NEW p \in Publishers, NEW t \in Topics \ {DropTopic}, NEW m \in Msgs,
             PublishCall(p, t, m)
      PROVE  DedupeInv'
  BY <1>4, CallStepsKeepDedupe
<1>5. ASSUME NEW p \in Publishers, CallStep(p) \/ Cancel(p)
      PROVE  DedupeInv'
  BY <1>5, CallStepsKeepDedupe, DropDuplicateKeepsDedupe, ReserveKeepsDedupe,
     PushSendKeepsDedupe, RollbackKeepsDedupe DEF CallStep
<1>6. QED
  BY <1>1, <1>2, <1>3, <1>4, <1>5 DEF Next

\* The whole reservation protocol of deliver() is an invariant of the bus.
THEOREM DedupeCorrect == Spec => []DedupeInv
<1>1. Init => TypeOK /\ DedupeInv
  BY InitTypeOK, InitDedupeInv
<1>2. TypeOK /\ DedupeInv /\ [Next]_vars => TypeOK' /\ DedupeInv'
  BY NextTypeOK, NextDedupeInv
<1>3. QED
  BY <1>1, <1>2, PTL DEF Spec

\* For any number of publishers, subscribers and messages, and any capacity
\* and age limit of the caches: no channel is given the same key twice unless
\* its cache has evicted or aged out that key.
THEOREM AtMostOnceDelivery == Spec => []AtMostOnce
<1>1. DedupeInv => AtMostOnce
  BY DEF DedupeInv
<1>2. QED
  BY <1>1, DedupeCorrect, PTL

\* A call that failed or was cancelled leaves no key behind once it is over:
\* its retry is delivered, not dropped as a duplicate of a message nobody got.
THEOREM ReservationsAreReleased == Spec => []NoLeakedReservation
<1>1. DedupeInv => NoLeakedReservation
  BY DEF DedupeInv
<1>2. QED
  BY <1>1, DedupeCorrect, PTL
-----------------------------------------------------------------------------
(* Drop notices *)

\* The calls that have counted a drop and not yet emitted its notice.
Noticing == {p \in Publishers : pc[p] = "notice"}

Counted == stats.drops_ttl + stats.drops_duplicate + stats.drops_backpressure

\* With any set of publishers: only those that count a drop are about to notify it.
NoticeInv == IsFiniteSet(Noticing) /\ DropsAreNotified

\* A step of call p, in or out of "notice", and what it counts.
LEMMA DropCounted ==
    ASSUME TypeOK, NoticeInv, NEW p \in Publishers, pc[p] # "notice",
           pc' = [pc EXCEPT ![p] = "notice"],
           Counted' = Counted + 1, stats'.drop_seq = stats.drop_seq
    PROVE  NoticeInv'
<1>1. Noticing' = Noticing \cup {p} /\ p \notin Noticing
  BY DEF Noticing, TypeOK, CallType
<1>2. IsFiniteSet(Noticing') /\ Cardinality(Noticing') = Cardinality(Noticing) + 1
  BY <1>1, FS_AddElement DEF NoticeInv
<1>3. Cardinality(Noticing) \in Nat
  BY FS_CardinalityType DEF NoticeInv
<1>4. Counted \in Nat /\ stats.drop_seq \in Nat
  BY DEF Counted, TypeOK, HistoryType, StatFields
<1>5. Counted = stats.drop_seq + Cardinality(Noticing)
  BY DEF NoticeInv, DropsAreNotified, Counted, Noticing
<1>6. Counted' = stats'.drop_seq + Cardinality(Noticing')
  BY <1>2, <1>3, <1>4, <1>5
<1>7. QED
  BY <1>2, <1>6 DEF NoticeInv, DropsAreNotified, Counted, Noticing

LEMMA DropNotified ==
    ASSUME TypeOK, NoticeInv, NEW p \in Publishers, EmitDrop(p)
    PROVE  NoticeInv'
<1>1. Noticing' = Noticing \ {p} /\ p \in Noticing
  BY DEF EmitDrop, Noticing, TypeOK, CallType
<1>2. IsFiniteSet(Noticing') /\ Cardinality(Noticing') = Cardinality(Noticing) - 1
  BY <1>1, FS_RemoveElement DEF NoticeInv
<1>3. Cardinality(Noticing) \in Nat
  BY FS_CardinalityType DEF NoticeInv
<1>4. Counted' = Counted /\ stats'.drop_seq = stats.drop_seq + 1 /\ stats.drop_seq \in Nat
  BY DEF EmitDrop, Bump, Counted, TypeOK, HistoryType, StatFields
<1>5. Counted = stats.drop_seq + Cardinality(Noticing)
  BY DEF NoticeInv, DropsAreNotified, Counted, Noticing
<1>6. Counted' = stats'.drop_seq + Cardinality(Noticing')
  BY <1>2, <1>3, <1>4, <1>5
<1>7. QED
  BY <1>2, <1>6 DEF NoticeInv, DropsAreNotified, Counted, Noticing

LEMMA NoDrop ==
    ASSUME NoticeInv, Noticing' = Noticing, Counted' = Counted, stats'.drop_seq = stats.drop_seq
    PROVE  NoticeInv'
  BY DEF NoticeInv, DropsAreNotified, Counted, Noticing

\* The steps of a call that count no drop and emit no notice.
LEMMA QuietCallStep ==
    ASSUME TypeOK, NEW p \in Publishers,
           \/ TakeSnapshot(p) \/ Reserve(p) \/ PushSend(p) \/ PushFull(p) \/ PushClosed(p)
           \/ DeliveriesDone(p) \/ Rollback(p) \/ Return(p) \/ NoticeSend(p) \/ NoticeFull(p)
           \/ NoticeClosed(p) \/ NoticeTimeout(p) \/ NoticeDone(p) \/ Cancel(p)
    PROVE  Noticing' = Noticing /\ Counted' = Counted /\ stats'.drop_seq = stats.drop_seq
<1> USE DEF Noticing, Counted, TypeOK, CallType, HistoryType, StatFields
<1>1. CASE TakeSnapshot(p) \/ PushFull(p) \/ DeliveriesDone(p) \/ Cancel(p)
  BY <1>1 DEF TakeSnapshot, PushFull, DeliveriesDone, Cancel
<1>2. CASE Reserve(p)
  BY <1>2 DEF Reserve, AtSubscriber
<1>3. CASE PushSend(p)
  BY <1>3 DEF PushSend, Bump
<1>4. CASE PushClosed(p)
  BY <1>4 DEF PushClosed
<1>8. CASE Rollback(p)
  BY <1>8 DEF Rollback
<1>9. CASE Return(p)
  BY <1>9 DEF Return
<1>5. CASE NoticeSend(p)
  BY <1>5 DEF NoticeSend, AtNotice, NextNotice, Bump
<1>6. CASE NoticeFull(p) \/ NoticeClosed(p) \/ NoticeTimeout(p) \/ NoticeDone(p)
  BY <1>6 DEF NoticeFull, NoticeClosed, NoticeTimeout, NoticeDone, AtNotice, NextNotice
<1>7. QED
  BY <1>1, <1>2, <1>3, <1>4, <1>5, <1>6, <1>8, <1>9

LEMMA NextNoticeInv == TypeOK /\ NoticeInv /\ [Next]_vars => NoticeInv'
<1> SUFFICES ASSUME TypeOK, NoticeInv, [Next]_vars
             PROVE  NoticeInv'
  OBVIOUS
<1>1. ASSUME NEW s \in Subs, SubscriberStep(s)
      PROVE  NoticeInv'
  <2>1. UNCHANGED <<pc, stats>>
    BY <1>1 DEF SubscriberStep, SubscribeCheck, SubscribePush, Recv, EndOfStream, Unsubscribe,
                DropReceiver, callVars
  <2>2. QED
    BY <2>1, NoDrop DEF Noticing, Counted
<1>2. CASE Close \/ ClearTopics \/ Tick \/ (\E kinds \in AclChoices : ConfigureAcl(kinds)) \/ UNCHANGED vars
  <2>1. UNCHANGED <<pc, stats>>
    BY <1>2 DEF Close, ClearTopics, Tick, ConfigureAcl, callVars, vars
  <2>2. QED
    BY <2>1, NoDrop DEF Noticing, Counted
<1>3. ASSUME NEW p \in Publishers, NEW t \in Topics \ {DropTopic}, NEW m \in Msgs, PublishCall(p, t, m)
      PROVE  NoticeInv'
  <2>1. CASE PublishRefused(p, t, m)
    BY <2>1, NoDrop DEF PublishRefused, Noticing, Counted
  <2>2. CASE PublishExpired(p, t, m)
    <3>1. pc[p] # "notice" /\ pc' = [pc EXCEPT ![p] = "notice"]
      BY <2>2 DEF PublishExpired, StartCall
    <3>2. Counted' = Counted + 1 /\ stats'.drop_seq = stats.drop_seq
      BY <2>2 DEF PublishExpired, Bump, Counted, TypeOK, HistoryType, StatFields
    <3>3. QED
      BY <3>1, <3>2, DropCounted
  <2>3. CASE PublishAdmitted(p, t, m)
    BY <2>3, NoDrop DEF PublishAdmitted, StartCall, Bump, Noticing, Counted, TypeOK, CallType,
                        HistoryType, StatFields
  <2>4. QED
    BY <1>3, <2>1, <2>2, <2>3 DEF PublishCall
<1>4. ASSUME NEW p \in Publishers, DropDuplicate(p)
      PROVE  NoticeInv'
  <2>1. pc[p] # "notice" /\ pc' = [pc EXCEPT ![p] = "notice"]
    BY <1>4 DEF DropDuplicate, AtSubscriber
  <2>2. Counted' = Counted + 1 /\ stats'.drop_seq = stats.drop_seq
    BY <1>4 DEF DropDuplicate, Bump, Counted, TypeOK, HistoryType, StatFields
  <2>3. QED
    BY <2>1, <2>2, DropCounted
<1>5. ASSUME NEW p \in Publishers, PushTimeout(p)
      PROVE  NoticeInv'
  <2>1. pc[p] # "notice" /\ pc' = [pc EXCEPT ![p] = "notice"]
    BY <1>5 DEF PushTimeout
  <2>2. Counted' = Counted + 1 /\ stats'.drop_seq = stats.drop_seq
    BY <1>5 DEF PushTimeout, Bump, Counted, TypeOK, HistoryType, StatFields
  <2>3. QED
    BY <2>1, <2>2, DropCounted
<1>6. ASSUME NEW p \in Publishers, CallStep(p) \/ Cancel(p)
      PROVE  NoticeInv'
  BY <1>4, <1>5, <1>6, DropNotified, QuietCallStep, NoDrop DEF CallStep
<1>7. QED
  BY <1>1, <1>2, <1>3, <1>6 DEF Next

\* Every drop that publish() counts has its notice on rlp/sys/drops, or the call that
\* counted it is about to emit it, whatever the other calls do meanwhile.
THEOREM NoticesFollowDrops == Spec => []DropsAreNotified
<1>1. Init => NoticeInv
  <2> SUFFICES ASSUME Init
               PROVE  NoticeInv
    OBVIOUS
  <2>1. Noticing = {}
    BY DEF Init, Noticing
  <2>2. Counted = 0 /\ stats.drop_seq = 0
    BY DEF Init, Counted, StatFields
  <2>3. QED
    BY <2>1, <2>2, FS_EmptySet DEF NoticeInv, DropsAreNotified, Counted, Noticing
<1>2. NoticeInv => DropsAreNotified
  BY DEF NoticeInv
<1>3. QED
  BY <1>1, <1>2, InitTypeOK, NextTypeOK, NextNoticeInv, PTL DEF Spec

-----------------------------------------------------------------------------
(* What Ok means, and what it does not *)

Reserved(p) == {s \in Subs : Reserves(p, s)}

\* AccountedFor after a step, of a message and a subscriber of before it.
AccountedNext(m, s) ==
    \/ m \in ToSet(enq'[s])
    \/ \E p \in Publishers : call'[p].msg = m /\ s \in Reserved(p)'
    \/ m \in told'[s]

\* A call without an error can answer for every subscriber before its position, and for
\* all of them when it is about to return.
Served ==
    \A p \in Publishers : pc[p] \notin {"idle", "snapshot"} /\ err[p] = "none" =>
        /\ \A i \in DOMAIN snap[p] : i < idx[p] => AccountedFor(call[p].msg, snap[p][i])
        /\ pc[p] = "rollback" => idx[p] > Len(snap[p])

\* A call that has given a subscriber up will not answer Ok.
GivenUpFails == \A p \in Publishers : held[p] # {} => err[p] # "none"

OkInv == Served /\ GivenUpFails /\ LossIsTold

LEMMA AppendToSet ==
    ASSUME NEW S, NEW q \in Seq(S), NEW x \in S
    PROVE  ToSet(Append(q, x)) = ToSet(q) \cup {x}
<1>1. /\ DOMAIN q = 1..Len(q) /\ DOMAIN Append(q, x) = 1..Len(q) + 1
      /\ Append(q, x)[Len(q) + 1] = x
      /\ \A i \in 1..Len(q) : Append(q, x)[i] = q[i]
  OBVIOUS
<1>2. QED
  BY <1>1 DEF ToSet

LEMMA AccountedIfSame ==
    ASSUME UNCHANGED <<enq, told, pc, call, snap, idx, held>>, NEW m, NEW s \in Subs, AccountedFor(m, s)
    PROVE  AccountedNext(m, s)
  BY DEF AccountedFor, AccountedNext, Reserved, InFlight, Reserves, Current

\* A step of call p keeps what a message is accounted for by, if it keeps the call's own
\* reservations or replaces one by a delivery or by an answer with an error.
LEMMA AccountedByOthers ==
    ASSUME NEW p \in Publishers, OthersSame(p), NEW m, NEW s \in Subs, AccountedFor(m, s),
           m \in ToSet(enq[s]) => m \in ToSet(enq'[s]),
           m \in told[s] => AccountedNext(m, s),
           Reserves(p, s) /\ call[p].msg = m => AccountedNext(m, s)
    PROVE  AccountedNext(m, s)
<1>1. CASE m \in ToSet(enq[s]) \/ m \in told[s]
  BY <1>1 DEF AccountedNext, Reserved
<1>2. ASSUME NEW q \in Publishers, call[q].msg = m, Reserves(q, s)
      PROVE  AccountedNext(m, s)
  BY <1>2, OthersReserve DEF AccountedNext, Reserved
<1>3. QED
  BY <1>1, <1>2 DEF AccountedFor, InFlight

\* The steps of a call that keep both histories and lose none of its reservations.
LEMMA AccountedIfReserved ==
    ASSUME NEW p \in Publishers, OthersSame(p), UNCHANGED <<enq, told>>,
           call'[p].msg = call[p].msg \/ (\A s \in Subs : ~Reserves(p, s)),
           \A s \in Subs : Reserves(p, s) => Reserves(p, s)'
    PROVE  \A m, s : s \in Subs /\ AccountedFor(m, s) => AccountedNext(m, s)
<1> SUFFICES ASSUME NEW m, NEW s \in Subs, AccountedFor(m, s)
             PROVE  AccountedNext(m, s)
  OBVIOUS
<1>1. Reserves(p, s) /\ call[p].msg = m => AccountedNext(m, s)
  BY DEF AccountedNext, Reserved
<1>2. m \in told[s] => AccountedNext(m, s)
  BY DEF AccountedNext, Reserved
<1>3. ToSet(enq'[s]) = ToSet(enq[s])
  BY DEF ToSet
<1>4. QED
  BY <1>1, <1>2, <1>3, AccountedByOthers

LEMMA DuplicateIsAccounted ==
    ASSUME TypeOK, DedupeInv, NEW p \in Publishers, DropDuplicate(p)
    PROVE  /\ AccountedNext(call[p].msg, Current(p))
           /\ \A m, s : s \in Subs /\ AccountedFor(m, s) => AccountedNext(m, s)
<1>1. /\ Current(p) \in Subs /\ dedupe[Current(p)] \in Seq(Entry) /\ call[p].now \in Nat
      /\ UNCHANGED <<call, snap, enq, held>>
      /\ told' = [told EXCEPT ![Current(p)] = @ \ {call[p].msg}]
  BY DEF DropDuplicate, AtSubscriber, Current, TypeOK, CallType, CacheType
<1>2. call[p].msg \in Keys(dedupe[Current(p)])
  BY <1>1, PruneFacts DEF DropDuplicate, Pruned
<1>3. call[p].msg \in ToSet(enq[Current(p)]) \/ InFlight(call[p].msg, Current(p))
  BY <1>1, <1>2 DEF DedupeInv, NoLeakedReservation
<1>4. OthersSame(p) /\ (\A s \in Subs : Reserves(p, s) => Reserves(p, s)')
  BY DEF DropDuplicate, AtSubscriber, OthersSame, TypeOK, CallType, Reserves
<1>5. AccountedNext(call[p].msg, Current(p))
  <2>1. CASE call[p].msg \in ToSet(enq[Current(p)])
    BY <1>1, <2>1 DEF AccountedNext, Reserved
  <2>2. CASE InFlight(call[p].msg, Current(p))
    <3>1. PICK q \in Publishers : call[q].msg = call[p].msg /\ Reserves(q, Current(p))
      BY <2>2 DEF InFlight
    <3>2. q # p => \A x \in Subs : Reserves(q, x)' <=> Reserves(q, x)
      BY <1>4, OthersReserve
    <3>3. Current(p) \in Reserved(q)' /\ call'[q].msg = call[p].msg
      BY <1>1, <1>4, <3>1, <3>2 DEF Reserved
    <3>4. QED
      BY <3>3 DEF AccountedNext
  <2>3. QED
    BY <1>3, <2>1, <2>2
<1>6. ASSUME NEW m, NEW s \in Subs, AccountedFor(m, s)
      PROVE  AccountedNext(m, s)
  <2>1. CASE m = call[p].msg /\ s = Current(p)
    BY <1>5, <2>1
  <2>2. CASE ~(m = call[p].msg /\ s = Current(p))
    <3>1. m \in told[s] => m \in told'[s]
      BY <1>1, <2>2 DEF TypeOK, HistoryType
    <3>2. Reserves(p, s) /\ call[p].msg = m => AccountedNext(m, s)
      BY <1>1, <1>4 DEF AccountedNext, Reserved
    <3>3. QED
      BY <1>1, <1>4, <1>6, <3>1, <3>2, AccountedByOthers DEF AccountedNext, Reserved
  <2>3. QED
    BY <2>1, <2>2
<1>7. QED
  BY <1>5, <1>6

LEMMA SendIsAccounted ==
    ASSUME TypeOK, NEW p \in Publishers, PushSend(p)
    PROVE  /\ AccountedNext(call[p].msg, Current(p))
           /\ \A m, s : s \in Subs /\ AccountedFor(m, s) => AccountedNext(m, s)
<1>1. Current(p) \in Subs /\ call[p].msg \in Msgs
  BY DEF PushSend, Current, TypeOK, CallType, CallShape
<1>2. /\ enq'[Current(p)] = Append(enq[Current(p)], call[p].msg) /\ enq[Current(p)] \in Seq(Msgs)
      /\ \A s \in Subs : s # Current(p) => enq'[s] = enq[s]
      /\ UNCHANGED <<call, held, snap, told>>
  BY <1>1 DEF PushSend, TypeOK, HistoryType
<1>3. ToSet(enq'[Current(p)]) = ToSet(enq[Current(p)]) \cup {call[p].msg}
  BY <1>1, <1>2, AppendToSet
<1>4. AccountedNext(call[p].msg, Current(p))
  BY <1>3 DEF AccountedNext, Reserved
<1>5. ASSUME NEW m, NEW s \in Subs, AccountedFor(m, s)
      PROVE  AccountedNext(m, s)
  <2>1. OthersSame(p)
    BY DEF PushSend, OthersSame, TypeOK, CallType
  <2>2. m \in ToSet(enq[s]) => m \in ToSet(enq'[s])
    BY <1>2, <1>3
  <2>3. Reserves(p, s) => s = Current(p) \/ Reserves(p, s)'
    BY <1>2 DEF Reserves
  <2>4. Reserves(p, s) /\ call[p].msg = m => AccountedNext(m, s)
    BY <1>2, <1>4, <2>3 DEF AccountedNext, Reserved
  <2>5. QED
    BY <1>2, <1>5, <2>1, <2>2, <2>4, AccountedByOthers DEF AccountedNext, Reserved
<1>6. QED
  BY <1>4, <1>5

\* Giving the current subscriber up: its reservation is kept for the rollback.
LEMMA GiveUpIsAccounted ==
    ASSUME TypeOK, NEW p \in Publishers, PushClosed(p) \/ PushTimeout(p) \/ Cancel(p)
    PROVE  \A m, s : s \in Subs /\ AccountedFor(m, s) => AccountedNext(m, s)
<1>1. OthersSame(p) /\ UNCHANGED <<call, enq, told>>
  BY DEF PushClosed, PushTimeout, Cancel, OthersSame, TypeOK, CallType, histVars
<1>2. \A s \in Subs : Reserves(p, s) => s \in held'[p]
  BY DEF PushClosed, PushTimeout, Cancel, Reserves, TypeOK, CallType
<1>3. \A s \in Subs : Reserves(p, s) => Reserves(p, s)'
  BY <1>2 DEF Reserves
<1>4. QED
  BY <1>1, <1>3, AccountedIfReserved

LEMMA RollbackIsAccounted ==
    ASSUME TypeOK, OkInv, NEW p \in Publishers, Rollback(p)
    PROVE  \A m, s : s \in Subs /\ AccountedFor(m, s) => AccountedNext(m, s)
<1>1. PICK r \in held[p] :
          /\ held' = [held EXCEPT ![p] = @ \ {r}]
          /\ told' = [told EXCEPT ![r] = IF err[p] = "none" THEN @ ELSE @ \cup {call[p].msg}]
  BY DEF Rollback
<1>2. /\ UNCHANGED <<pc, call, snap, idx, enq>> /\ pc[p] = "rollback" /\ r \in Subs
      /\ err[p] # "none"
  BY <1>1 DEF Rollback, TypeOK, CallType, OkInv, GivenUpFails
<1>3. OthersSame(p) /\ call[p].msg \in told'[r] /\ (\A s \in Subs : told[s] \subseteq told'[s])
  BY <1>1, <1>2 DEF OthersSame, TypeOK, CallType, HistoryType
<1>4. ASSUME NEW m, NEW s \in Subs, AccountedFor(m, s)
      PROVE  AccountedNext(m, s)
  <2>1. Reserves(p, s) => s = r \/ Reserves(p, s)'
    BY <1>1, <1>2 DEF Reserves, TypeOK, CallType
  <2>2. Reserves(p, s) /\ call[p].msg = m => AccountedNext(m, s)
    BY <1>2, <1>3, <2>1 DEF AccountedNext, Reserved
  <2>3. QED
    BY <1>2, <1>3, <1>4, <2>2, AccountedByOthers DEF AccountedNext, Reserved
<1>5. QED
  BY <1>4

\* What a message is accounted for by never gets lost: a reservation ends as a delivery
\* or as an answer with an error, and a duplicate that makes an older answer void meets
\* a delivery or another reservation.
LEMMA AccountedKept ==
    ASSUME TypeOK, DedupeInv, OkInv, [Next]_vars
    PROVE  \A m, s : s \in Subs /\ AccountedFor(m, s) => AccountedNext(m, s)
<1> USE DEF OthersSame, TypeOK, CallType, Reserves
<1>1. CASE UNCHANGED <<enq, told, pc, call, snap, idx, held>>
  BY <1>1, AccountedIfSame
<1>2. ASSUME NEW s \in Subs, SubscriberStep(s)
      PROVE  UNCHANGED <<enq, told, pc, call, snap, idx, held>>
  BY <1>2 DEF SubscriberStep, SubscribeCheck, SubscribePush, Recv, EndOfStream, Unsubscribe,
              DropReceiver, callVars, histVars
<1>3. CASE (\E kinds \in AclChoices : ConfigureAcl(kinds)) \/ Close \/ ClearTopics \/ Tick
               \/ UNCHANGED vars
  BY <1>1, <1>3 DEF ConfigureAcl, Close, ClearTopics, Tick, callVars, histVars, vars
<1>4. ASSUME NEW p \in Publishers, NEW t \in Topics \ {DropTopic}, NEW m \in Msgs, PublishCall(p, t, m)
      PROVE  \A x, s : s \in Subs /\ AccountedFor(x, s) => AccountedNext(x, s)
  <2>1. CASE PublishRefused(p, t, m)
    BY <1>1, <2>1 DEF PublishRefused, histVars
  <2>2. CASE PublishExpired(p, t, m) \/ PublishAdmitted(p, t, m)
    <3>1. held[p] = {} /\ pc[p] = "idle"
      BY <2>2 DEF PublishExpired, PublishAdmitted, StartCall, DedupeInv, IdleHoldsNothing
    <3>2. OthersSame(p) /\ UNCHANGED <<enq, told>>
      BY <2>2 DEF PublishExpired, PublishAdmitted, histVars
    <3>3. \A s \in Subs : ~Reserves(p, s)
      BY <3>1
    <3>4. QED
      BY <3>2, <3>3, AccountedIfReserved
  <2>3. QED
    BY <1>4, <2>1, <2>2 DEF PublishCall
<1>5. ASSUME NEW p \in Publishers, CallStep(p) \/ Cancel(p)
      PROVE  \A m, s : s \in Subs /\ AccountedFor(m, s) => AccountedNext(m, s)
  <2>1. CASE TakeSnapshot(p) \/ Reserve(p) \/ PushFull(p) \/ DeliveriesDone(p) \/ Return(p)
    <3>1. OthersSame(p) /\ UNCHANGED <<enq, told>>
      BY <2>1 DEF TakeSnapshot, Reserve, PushFull, DeliveriesDone, Return, histVars
    <3>2. \A s \in Subs : Reserves(p, s) => Reserves(p, s)'
      BY <2>1 DEF TakeSnapshot, Reserve, AtSubscriber, PushFull, DeliveriesDone, Return, Current
    <3>3. call'[p].msg = call[p].msg \/ \A s \in Subs : ~Reserves(p, s)
      BY <2>1 DEF TakeSnapshot, Reserve, PushFull, DeliveriesDone, Return
    <3>4. QED
      BY <3>1, <3>2, <3>3, AccountedIfReserved
  <2>2. CASE EmitDrop(p) \/ NoticeSend(p) \/ NoticeFull(p) \/ NoticeClosed(p) \/ NoticeTimeout(p)
                 \/ NoticeDone(p)
    <3>1. OthersSame(p) /\ UNCHANGED <<call, enq, told>>
      BY <2>2 DEF EmitDrop, NoticeSend, NoticeFull, NoticeClosed, NoticeTimeout, NoticeDone,
                  NextNotice, histVars
    <3>2. \A s \in Subs : Reserves(p, s) => Reserves(p, s)'
      BY <2>2 DEF EmitDrop, NoticeSend, NoticeFull, NoticeClosed, NoticeTimeout, NoticeDone,
                  AtNotice, NextNotice
    <3>3. QED
      BY <3>1, <3>2, AccountedIfReserved
  <2>3. QED
    BY <1>5, <2>1, <2>2, DuplicateIsAccounted, SendIsAccounted, GiveUpIsAccounted,
       RollbackIsAccounted DEF CallStep
<1>6. QED
  BY <1>2, <1>3, <1>1, <1>4, <1>5 DEF Next

LEMMA InitOkInv == Init => OkInv
  BY DEF Init, OkInv, Served, GivenUpFails, LossIsTold

\* A step of call p that keeps what the other calls have.
LEMMA ServedByOthers ==
    ASSUME TypeOK, DedupeInv, OkInv, [Next]_vars, NEW p \in Publishers, OthersSame(p),
           \A q \in Publishers \ {p} : err'[q] = err[q],
           pc'[p] \notin {"idle", "snapshot"} /\ err'[p] = "none" =>
               /\ \A i \in DOMAIN snap'[p] : i < idx'[p] => AccountedNext(call'[p].msg, snap'[p][i])
               /\ pc'[p] = "rollback" => idx'[p] > Len(snap'[p])
    PROVE  Served'
<1> SUFFICES ASSUME NEW q \in Publishers \ {p}, pc'[q] \notin {"idle", "snapshot"}, err'[q] = "none"
             PROVE  /\ \A i \in DOMAIN snap'[q] : i < idx'[q] => AccountedNext(call'[q].msg, snap'[q][i])
                    /\ pc'[q] = "rollback" => idx'[q] > Len(snap'[q])
  BY DEF Served, AccountedFor, InFlight, AccountedNext, Reserved, Reserves
<1>1. /\ pc'[q] = pc[q] /\ call'[q] = call[q] /\ snap'[q] = snap[q] /\ idx'[q] = idx[q] /\ err[q] = "none"
  BY DEF OthersSame
<1>2. call[q].msg \in Msgs /\ \A i \in DOMAIN snap[q] : snap[q][i] \in Subs
  BY <1>1 DEF TypeOK, CallType, CallShape
<1>3. \A i \in DOMAIN snap[q] : i < idx[q] => AccountedFor(call[q].msg, snap[q][i])
  BY <1>1 DEF OkInv, Served
<1>4. \A i \in DOMAIN snap[q] : i < idx[q] => AccountedNext(call[q].msg, snap[q][i])
  BY <1>2, <1>3, AccountedKept
<1>5. QED
  BY <1>1, <1>4 DEF OkInv, Served

\* An error is recorded with every subscriber given up and forgotten by nobody but Return,
\* which has rolled everything back.
LEMMA GivenUpKept ==
    ASSUME TypeOK, OkInv, [Next]_vars
    PROVE  GivenUpFails'
<1> USE DEF TypeOK, CallType, OkInv, GivenUpFails
<1>1. CASE UNCHANGED <<held, err>>
  BY <1>1
<1>2. ASSUME NEW s \in Subs, SubscriberStep(s)
      PROVE  UNCHANGED <<held, err>>
  BY <1>2 DEF SubscriberStep, SubscribeCheck, SubscribePush, Recv, EndOfStream, Unsubscribe,
              DropReceiver, callVars
<1>3. CASE (\E kinds \in AclChoices : ConfigureAcl(kinds)) \/ Close \/ ClearTopics \/ Tick
               \/ UNCHANGED vars
  BY <1>1, <1>3 DEF ConfigureAcl, Close, ClearTopics, Tick, callVars, vars
<1>4. ASSUME NEW p \in Publishers, NEW t \in Topics \ {DropTopic}, NEW m \in Msgs, PublishCall(p, t, m)
      PROVE  GivenUpFails'
  BY <1>4 DEF PublishCall, PublishRefused, PublishExpired, PublishAdmitted
<1>5. ASSUME NEW p \in Publishers, CallStep(p) \/ Cancel(p)
      PROVE  GivenUpFails'
  <2>1. CASE PushClosed(p) \/ PushTimeout(p) \/ Cancel(p)
    <3>1. \A q \in Publishers : q # p => held'[q] = held[q] /\ err'[q] = err[q]
      BY <2>1 DEF PushClosed, PushTimeout, Cancel
    <3>2. err'[p] # "none"
      BY <2>1 DEF PushClosed, PushTimeout, Cancel, Worse, Rank, Errors
    <3>3. QED
      BY <3>1, <3>2
  <2>2. CASE Rollback(p) \/ Return(p)
    BY <2>2 DEF Rollback, Return
  <2>3. CASE UNCHANGED <<held, err>>
    BY <1>1, <2>3
  <2>4. QED
    BY <1>5, <2>1, <2>2, <2>3
       DEF CallStep, TakeSnapshot, DropDuplicate, Reserve, PushSend, PushFull, DeliveriesDone,
           EmitDrop, NoticeSend, NoticeFull, NoticeClosed, NoticeTimeout, NoticeDone
<1>6. QED
  BY <1>2, <1>3, <1>1, <1>4, <1>5 DEF Next

\* Nothing but a return adds to the acknowledged messages.
LEMMA AckedKept ==
    ASSUME TypeOK, DedupeInv, OkInv, [Next]_vars, UNCHANGED acked
    PROVE  LossIsTold'
<1>1. \A s \in Subs : acked[s] \subseteq Msgs
  BY DEF TypeOK, HistoryType
<1>2. \A s \in Subs : \A m \in acked[s] : AccountedFor(m, s)
  BY DEF OkInv, LossIsTold
<1>3. \A s \in Subs : \A m \in acked[s] : AccountedNext(m, s)
  BY <1>1, <1>2, AccountedKept
<1>4. QED
  BY <1>3 DEF LossIsTold, AccountedFor, InFlight, AccountedNext, Reserved

\* The step to the next subscriber, with or without an error.
LEMMA Advances ==
    ASSUME TypeOK, DedupeInv, OkInv, [Next]_vars, NEW p \in Publishers, OthersSame(p),
           \A q \in Publishers \ {p} : err'[q] = err[q],
           AtSubscriber(p) \/ pc[p] \in {"push", "wait"},
           UNCHANGED <<call, snap, acked>>, idx'[p] = idx[p] + 1,
           pc'[p] \in {"deliver", "notice"},
           err'[p] = "none" => err[p] = "none" /\ AccountedNext(call[p].msg, Current(p))
    PROVE  OkInv'
<1>1. call[p].msg \in Msgs /\ \A i \in DOMAIN snap[p] : snap[p][i] \in Subs
  BY DEF TypeOK, CallType, CallShape, AtSubscriber
<1>2. idx[p] \in Nat
  BY DEF TypeOK, CallType
<1>3. ASSUME err'[p] = "none"
      PROVE  \A i \in DOMAIN snap[p] : i < idx[p] + 1 => AccountedNext(call[p].msg, snap[p][i])
  <2>1. \A i \in DOMAIN snap[p] : i < idx[p] => AccountedNext(call[p].msg, snap[p][i])
    BY <1>1, <1>3, AccountedKept DEF OkInv, Served, AtSubscriber
  <2>2. AccountedNext(call[p].msg, snap[p][idx[p]])
    BY <1>3 DEF Current
  <2>3. \A i \in DOMAIN snap[p] : i \in Nat
    BY DEF TypeOK, CallType
  <2>4. QED
    BY <1>2, <2>1, <2>2, <2>3
<1>4. Served'
  BY <1>3, ServedByOthers
<1>5. QED
  BY <1>4, AckedKept, GivenUpKept DEF OkInv

\* The steps of a call that leave it where it is among the subscribers.
LEMMA Stays ==
    ASSUME TypeOK, DedupeInv, OkInv, [Next]_vars, NEW p \in Publishers, OthersSame(p),
           \A q \in Publishers \ {p} : err'[q] = err[q],
           pc[p] \notin {"idle", "snapshot"},
           UNCHANGED <<call, snap, idx, acked>>,
           err'[p] = "none" => err[p] = "none" /\ (pc'[p] = "rollback" => pc[p] = "rollback" \/ idx[p] > Len(snap[p]))
    PROVE  OkInv'
<1>1. call[p].msg \in Msgs /\ \A i \in DOMAIN snap[p] : snap[p][i] \in Subs
  BY DEF TypeOK, CallType, CallShape
<1>2. Served'
  BY <1>1, AccountedKept, ServedByOthers DEF OkInv, Served
<1>3. QED
  BY <1>2, AckedKept, GivenUpKept DEF OkInv

LEMMA CallStepsKeepOk ==
    ASSUME TypeOK, DedupeInv, OkInv, [Next]_vars, NEW p \in Publishers, CallStep(p) \/ Cancel(p)
    PROVE  OkInv'
<1> USE DEF OthersSame, TypeOK, CallType
<1>1. CASE TakeSnapshot(p)
  <2>1. OthersSame(p) /\ UNCHANGED <<err, acked>>
    BY <1>1 DEF TakeSnapshot, histVars
  <2>2. pc'[p] = "deliver" /\ idx'[p] = 1 /\ snap'[p] \in Seq(Subs)
    BY <1>1 DEF TakeSnapshot, ServerType
  <2>3. \A i \in DOMAIN snap'[p] : ~(i < idx'[p])
    BY <2>2
  <2>4. Served'
    BY <2>1, <2>2, <2>3, ServedByOthers
  <2>5. QED
    BY <2>1, <2>4, AckedKept, GivenUpKept DEF OkInv
<1>2. CASE DropDuplicate(p)
  BY <1>2, DuplicateIsAccounted, Advances DEF DropDuplicate
<1>3. CASE PushSend(p)
  BY <1>3, SendIsAccounted, Advances DEF PushSend
<1>4. CASE PushClosed(p)
  <2>1. err'[p] # "none"
    BY <1>4 DEF PushClosed, Worse, Rank, Errors
  <2>2. QED
    BY <1>4, <2>1, Advances DEF PushClosed, histVars
<1>5. CASE PushTimeout(p)
  <2>1. err'[p] # "none"
    BY <1>5 DEF PushTimeout, Worse, Rank, Errors
  <2>2. QED
    BY <1>5, <2>1, Advances DEF PushTimeout, histVars
<1>6. CASE Reserve(p) \/ PushFull(p) \/ DeliveriesDone(p)
  BY <1>6, Stays DEF Reserve, AtSubscriber, PushFull, DeliveriesDone, histVars
<1>7. CASE Rollback(p)
  BY <1>7, Stays DEF Rollback, histVars
<1>8. CASE EmitDrop(p) \/ NoticeSend(p) \/ NoticeFull(p) \/ NoticeClosed(p) \/ NoticeTimeout(p)
  BY <1>8, Stays DEF EmitDrop, NoticeSend, NoticeFull, NoticeClosed, NoticeTimeout, AtNotice,
                     NextNotice, histVars
<1>9. CASE NoticeDone(p)
  BY <1>9, Stays DEF NoticeDone, histVars
<1>10. CASE Cancel(p)
  BY <1>10, Stays DEF Cancel, histVars
<1>11. CASE Return(p)
  <2>1. OthersSame(p) /\ (\A q \in Publishers \ {p} : err'[q] = err[q]) /\ pc'[p] = "idle"
    BY <1>11 DEF Return
  <2>2. Served'
    BY <2>1, ServedByOthers
  <2>3. ASSUME NEW s \in Subs, NEW m \in acked'[s]
        PROVE  AccountedNext(m, s)
    <3>1. CASE m \in acked[s]
      BY <3>1, AccountedKept DEF OkInv, LossIsTold
    <3>2. CASE m \notin acked[s]
      <4>1. err[p] = "none" /\ s \in ToSet(snap[p]) /\ m = call[p].msg /\ pc[p] = "rollback"
        BY <1>11, <2>3, <3>2 DEF Return
      <4>2. PICK i \in DOMAIN snap[p] : snap[p][i] = s
        BY <4>1 DEF ToSet
      <4>3. i < idx[p]
        <5>1. idx[p] > Len(snap[p]) /\ idx[p] \in Nat
          BY <4>1 DEF OkInv, Served
        <5>2. i \in 1..Len(snap[p])
          BY <4>2
        <5>3. QED
          BY <5>1, <5>2
      <4>4. AccountedFor(m, s)
        BY <4>1, <4>2, <4>3 DEF OkInv, Served
      <4>5. QED
        BY <4>4, AccountedKept
    <3>3. QED
      BY <3>1, <3>2
  <2>4. LossIsTold'
    BY <2>3 DEF LossIsTold, AccountedFor, AccountedNext, Reserved, InFlight
  <2>5. QED
    BY <2>2, <2>4, GivenUpKept DEF OkInv
<1>12. QED
  BY <1>1, <1>2, <1>3, <1>4, <1>5, <1>6, <1>7, <1>8, <1>9, <1>10, <1>11 DEF CallStep

LEMMA NextOkInv == TypeOK /\ DedupeInv /\ OkInv /\ [Next]_vars => OkInv'
<1> SUFFICES ASSUME TypeOK, DedupeInv, OkInv, [Next]_vars
             PROVE  OkInv'
  OBVIOUS
<1>1. CASE UNCHANGED <<pc, call, snap, idx, err, held, enq, told, acked>>
  BY <1>1 DEF OkInv, Served, GivenUpFails, LossIsTold, AccountedFor, InFlight, Reserves, Current
<1>2. ASSUME NEW s \in Subs, SubscriberStep(s)
      PROVE  OkInv'
  BY <1>1, <1>2 DEF SubscriberStep, SubscribeCheck, SubscribePush, Recv, EndOfStream, Unsubscribe,
                    DropReceiver, callVars, histVars
<1>3. CASE (\E kinds \in AclChoices : ConfigureAcl(kinds)) \/ Close \/ ClearTopics \/ Tick \/ UNCHANGED vars
  BY <1>1, <1>3 DEF ConfigureAcl, Close, ClearTopics, Tick, callVars, histVars, vars
<1>4. ASSUME NEW p \in Publishers, NEW t \in Topics \ {DropTopic}, NEW m \in Msgs, PublishCall(p, t, m)
      PROVE  OkInv'
  <2>1. CASE PublishRefused(p, t, m)
    BY <1>1, <2>1 DEF PublishRefused, histVars
  <2>2. CASE PublishExpired(p, t, m) \/ PublishAdmitted(p, t, m)
    <3>1. OthersSame(p) /\ (\A q \in Publishers \ {p} : err'[q] = err[q]) /\ UNCHANGED acked
      BY <2>2 DEF PublishExpired, PublishAdmitted, OthersSame, TypeOK, CallType, histVars
    <3>2. pc'[p] \in {"idle", "snapshot"} \/ err'[p] # "none"
      BY <2>2 DEF PublishExpired, PublishAdmitted, TypeOK, CallType
    <3>3. Served'
      BY <3>1, <3>2, ServedByOthers
    <3>4. QED
      BY <3>1, <3>3, AckedKept, GivenUpKept DEF OkInv
  <2>3. QED
    BY <1>4, <2>1, <2>2 DEF PublishCall
<1>5. QED
  BY <1>2, <1>3, <1>4, CallStepsKeepOk DEF Next

\* A message that publish() answered Ok for and that a subscriber of the call was never sent
\* is still being sent by a running call, or a call that held it has given the subscriber up
\* since and fails: duplicates and failures may interleave as they like, some caller is told.
THEOREM NoSilentLoss == Spec => []LossIsTold
<1>1. Init => TypeOK /\ DedupeInv /\ OkInv
  BY InitTypeOK, InitDedupeInv, InitOkInv
<1>2. TypeOK /\ DedupeInv /\ OkInv /\ [Next]_vars => TypeOK' /\ DedupeInv' /\ OkInv'
  BY NextTypeOK, NextDedupeInv, NextOkInv
<1>3. OkInv => LossIsTold
  BY DEF OkInv
<1>4. QED
  BY <1>1, <1>2, <1>3, PTL DEF Spec
=============================================================================
