------------------------------ MODULE KbProofs ------------------------------
(***************************************************************************)
(* The views of the knowledge base implement KbView, and writers read what *)
(* they wrote, for every set of actors, every script and every batch size; *)
(* a run they show as finished has its trace in them.                      *)
(***************************************************************************)
EXTENDS Kb, FiniteSetTheorems, WellFoundedInduction, TLAPS

Places == {"write", "sync", "read", "loaded", "done", "failed"}

Script == Seq(Deltas)

ActorType ==
    actor \in [Actors -> [at : Places, script : Script, mine : SUBSET Nat, lo : Nat, hi : Nat]]

\* The history of views v is that of the prefix of the ledger they cover, and
\* their watermark is within it.
ShowsAPrefix(v) ==
    /\ v.watermark \in Nat /\ v.covered \in Nat
    /\ v.watermark <= v.covered /\ v.covered <= Len(ledger)
    /\ v.history = View!HistoryOf(v.covered)

\* A batch starts within the prefix covered, whoever materialized since it was
\* loaded, and ends within the ledger.
BatchFits(a) ==
    /\ actor[a].lo <= views.covered /\ actor[a].hi <= Len(ledger)
    /\ actor[a].at = "loaded" => actor[a].lo < actor[a].hi
    /\ actor[a].at \notin {"read", "loaded"} => actor[a].lo = 0
    /\ actor[a].at = "write" => actor[a].script # <<>>
    /\ actor[a].mine \subseteq 1 .. Len(ledger)

KbInv ==
    /\ ActorType
    /\ ledger \in Seq(Deltas)
    /\ ShowsAPrefix(views) /\ ShowsAPrefix(disk)
    /\ disk.covered <= views.covered
    /\ \A a \in Actors : BatchFits(a)

-----------------------------------------------------------------------------
(* The history of a prefix *)

\* What is appended to the ledger changes no prefix's history.
LEMMA HistoryIsKept ==
    ASSUME ledger \in Seq(Deltas), NEW d \in Deltas, ledger' = Append(ledger, d),
           NEW n \in 0 .. Len(ledger)
    PROVE  View!HistoryOf(n)' = View!HistoryOf(n)
  <1>1. \A i \in 1 .. n : ledger'[i] = ledger[i]
    OBVIOUS
  <1> QED
    BY <1>1 DEF View!HistoryOf

\* The entities an event touches are the same on both sides of the mapping.
LEMMA SameEntities == \A d : View!EntitiesOf(d) = EntitiesOf(d)
  BY DEF View!EntitiesOf, EntitiesOf, View!ContactKey, ContactKey, View!ArtifactKey, ArtifactKey

\* A batch that starts within a prefix, put on top of its history, makes the
\* history of the longer of the two (Materializer::sync).
LEMMA BatchExtends ==
    ASSUME NEW c \in Nat, NEW lo \in Nat, NEW hi \in Nat, lo <= c
    PROVE  View!HistoryOf(c) \cup UNION {EntitiesOf(ledger[i]) \X {i} : i \in lo + 1 .. hi}
             = View!HistoryOf(IF hi > c THEN hi ELSE c)
  <1> DEFINE Shown(i) == EntitiesOf(ledger[i]) \X {i}
             top == IF hi > c THEN hi ELSE c
  <1>1. 1 .. top = (1 .. c) \cup (lo + 1 .. hi)
    OBVIOUS
  <1> HIDE DEF Shown, top
  <1>2. UNION {Shown(i) : i \in 1 .. top}
          = (UNION {Shown(i) : i \in 1 .. c}) \cup (UNION {Shown(i) : i \in lo + 1 .. hi})
    BY <1>1
  <1>3. \A n : View!HistoryOf(n) = UNION {Shown(i) : i \in 1 .. n}
    BY SameEntities DEF View!HistoryOf, Shown
  <1> QED
    BY <1>2, <1>3 DEF Shown, top

-----------------------------------------------------------------------------
LEMMA EmptyScript == <<>> \in Script
  BY DEF Script

\* A step that leaves ledger and views alone has only the actors to keep in order.
LEMMA FrameKeeps ==
    ASSUME KbInv, UNCHANGED <<ledger, views, disk>>, ActorType', \A a \in Actors : BatchFits(a)'
    PROVE  KbInv'
  BY DEF KbInv, ShowsAPrefix, View!HistoryOf

\* To give up, or to go on elsewhere, is to drop the batch.
LEMMA DroppingKeeps ==
    ASSUME KbInv, NEW a \in Actors, NEW at \in Places \ {"write", "loaded"},
           Goes(a, at) \/ GivesUp(a, at), UNCHANGED <<ledger, views, disk>>
    PROVE  KbInv'
  <1>1. CASE Goes(a, at)
    <2>1. ActorType'
      BY <1>1 DEF KbInv, Goes, ActorType
    <2>2. \A b \in Actors : BatchFits(b)'
      BY <1>1 DEF KbInv, Goes, ActorType, BatchFits, ShowsAPrefix
    <2> QED
      BY <2>1, <2>2, FrameKeeps
  <1>2. CASE GivesUp(a, at)
    <2>1. ActorType'
      BY <1>2, EmptyScript DEF KbInv, GivesUp, ActorType
    <2>2. \A b \in Actors : BatchFits(b)'
      BY <1>2, EmptyScript DEF KbInv, GivesUp, ActorType, BatchFits, ShowsAPrefix
    <2> QED
      BY <2>1, <2>2, FrameKeeps
  <1> QED
    BY <1>1, <1>2

LEMMA BatchIsLoaded ==
    ASSUME NEW lo \in Nat, ledger \in Seq(Deltas), KbAssumption
    PROVE  /\ LastOfBatch(lo) \in Nat /\ LastOfBatch(lo) <= Len(ledger)
           /\ LastOfBatch(lo) <= lo => Len(ledger) <= lo
  BY DEF LastOfBatch, KbAssumption

LEMMA InitHolds == Init => KbInv
  <1> SUFFICES ASSUME Init PROVE KbInv
    OBVIOUS
  <1>1. ledger = <<>> /\ ledger \in Seq(Deltas) /\ Len(ledger) = 0
    BY DEF Init
  <1>2. ActorType /\ \A a \in Actors : BatchFits(a)
    <2>1. PICK s \in [Actors -> UNION {Scripts[a] : a \in Actors}] :
              /\ \A a \in Actors : s[a] \in Scripts[a]
              /\ actor = [a \in Actors |-> [at |-> IF s[a] = <<>> THEN "sync" ELSE "write",
                                            script |-> s[a], mine |-> {}, lo |-> 0, hi |-> 0]]
      BY DEF Init
    <2>2. \A a \in Actors : s[a] \in Seq(Deltas)
      BY <2>1, KbAssumption DEF KbAssumption
    <2>3. ActorType
      <3>1. \A a \in Actors : [at |-> IF s[a] = <<>> THEN "sync" ELSE "write",
                                script |-> s[a], mine |-> {}, lo |-> 0, hi |-> 0]
                \in [at : Places, script : Script, mine : SUBSET Nat, lo : Nat, hi : Nat]
        BY <2>2 DEF Places, Script
      <3> QED
        BY <2>1, <3>1 DEF ActorType
    <2>4. \A a \in Actors : /\ actor[a].at \in {"sync", "write"} /\ actor[a].mine = {}
                            /\ actor[a].lo = 0 /\ actor[a].hi = 0
                            /\ actor[a].at = "write" => actor[a].script # <<>>
      BY <2>1
    <2>5. views.covered = 0
      BY DEF Init, NoViews
    <2> QED
      BY <1>1, <2>3, <2>4, <2>5 DEF BatchFits
  <1>3. View!HistoryOf(0) = {}
    BY DEF View!HistoryOf
  <1> QED
    BY <1>1, <1>2, <1>3 DEF Init, NoViews, KbInv, ShowsAPrefix
-----------------------------------------------------------------------------
LEMMA NextDelta ==
    ASSUME KbInv, NEW a \in Actors, actor[a].at = "write"
    PROVE  Head(actor[a].script) \in Deltas /\ Tail(actor[a].script) \in Seq(Deltas)
  <1>1. actor[a].script \in Script /\ actor[a].script # <<>>
    BY DEF KbInv, ActorType, BatchFits
  <1> QED
    BY <1>1 DEF Script

LEMMA ProposeKeeps ==
    ASSUME KbInv, NEW a \in Actors, Propose(a)
    PROVE  KbInv'
  <1>1. CASE UNCHANGED ledger /\ GivesUp(a, "failed")
    BY <1>1, DroppingKeeps DEF Propose, Places
  <1>2. CASE /\ ledger' = Append(ledger, Head(actor[a].script))
             /\ actor' = [actor EXCEPT ![a].at = IF Tail(actor[a].script) = <<>> THEN "sync" ELSE "write",
                                       ![a].script = Tail(actor[a].script),
                                       ![a].mine = @ \cup {Len(ledger) + 1}]
    <2> DEFINE d == Head(actor[a].script)
               rest == Tail(actor[a].script)
               at == IF rest = <<>> THEN "sync" ELSE "write"
    <2>1. d \in Deltas /\ rest \in Script
      BY NextDelta DEF Propose, Script
    <2>2. actor' = [actor EXCEPT ![a].at = at, ![a].script = rest, ![a].mine = @ \cup {Len(ledger) + 1}]
      BY <1>2
    <2>3. at \in Places /\ (at = "write" => rest # <<>>) /\ at \notin {"loaded", "read"}
      BY DEF Places
    <2>5. actor[a].at = "write" /\ UNCHANGED <<views, disk>>
      BY DEF Propose
    <2>6. ledger' = Append(ledger, d)
      BY <1>2
    <2> HIDE DEF d, rest, at
    <2>4. ledger' \in Seq(Deltas) /\ Len(ledger') = Len(ledger) + 1 /\ Len(ledger) \in Nat
      BY <2>1, <2>6 DEF KbInv
    <2>7. ActorType'
      <3> DEFINE mine == actor[a].mine \cup {Len(ledger) + 1}
      <3>1. mine \in SUBSET Nat /\ actor' = [actor EXCEPT ![a].at = at, ![a].script = rest, ![a].mine = mine]
        BY <2>2, <2>4 DEF KbInv, ActorType
      <3> HIDE DEF mine
      <3> QED
        BY <2>1, <2>3, <3>1 DEF KbInv, ActorType
    <2>8. \A b \in Actors : BatchFits(b)'
      <3>1. \A b \in Actors \ {a} : actor'[b] = actor[b]
        BY <2>2 DEF KbInv, ActorType
      <3>2. /\ actor'[a].at = at /\ actor'[a].script = rest /\ actor'[a].lo = actor[a].lo
            /\ actor'[a].hi = actor[a].hi /\ actor'[a].mine = actor[a].mine \cup {Len(ledger) + 1}
        BY <2>2 DEF KbInv, ActorType
      <3> QED
        BY <2>3, <2>4, <2>5, <3>1, <3>2 DEF KbInv, ActorType, BatchFits
    <2>9. ShowsAPrefix(views)' /\ ShowsAPrefix(disk)'
      <3>1. \A n \in 0 .. Len(ledger) : View!HistoryOf(n)' = View!HistoryOf(n)
        BY <2>1, <2>6, HistoryIsKept DEF KbInv
      <3>2. ShowsAPrefix(views) /\ ShowsAPrefix(disk)
        BY DEF KbInv
      <3> QED
        BY <2>4, <2>5, <3>1, <3>2 DEF ShowsAPrefix
    <2> QED
      BY <2>4, <2>5, <2>7, <2>8, <2>9 DEF KbInv
  <1> QED
    BY <1>1, <1>2 DEF Propose

LEMMA ApplyKeeps ==
    ASSUME KbInv, NEW a \in Actors, Apply(a)
    PROVE  KbInv'
  <1>1. CASE UNCHANGED views /\ GivesUp(a, AfterError(a))
    BY <1>1, DroppingKeeps DEF Apply, AfterError, Places
  <1>2. CASE views' = Applied(actor[a].lo, actor[a].hi) /\ Goes(a, "sync")
    <2> DEFINE lo == actor[a].lo
               hi == actor[a].hi
    <2>1. lo \in Nat /\ hi \in Nat /\ lo < hi /\ hi <= Len(ledger) /\ lo <= views.covered
      BY DEF KbInv, ActorType, BatchFits, Apply
    <2>2. /\ views'.covered = IF hi > views.covered THEN hi ELSE views.covered
          /\ views'.watermark = hi
          /\ views'.history = views.history \cup UNION {EntitiesOf(ledger[i]) \X {i} : i \in lo + 1 .. hi}
      BY <1>2 DEF Applied, Upserted
    <2> HIDE DEF lo, hi
    <2>3. views'.history = View!HistoryOf(views'.covered)
      BY <2>1, <2>2, BatchExtends DEF KbInv, ShowsAPrefix
    <2>4. ShowsAPrefix(views)' /\ ShowsAPrefix(disk)' /\ (disk.covered <= views.covered)'
      BY <2>1, <2>2, <2>3 DEF KbInv, ShowsAPrefix, Apply, View!HistoryOf
    <2>5. ActorType'
      BY <1>2 DEF KbInv, Goes, ActorType, Places
    <2>6. \A b \in Actors : BatchFits(b)'
      BY <1>2, <2>1, <2>2 DEF KbInv, ShowsAPrefix, Apply, Goes, ActorType, BatchFits
    <2> QED
      BY <2>4, <2>5, <2>6 DEF KbInv, Apply
  <1> QED
    BY <1>1, <1>2 DEF Apply

LEMMA RestartKeeps ==
    ASSUME ActorType, NEW a \in Actors
    PROVE  /\ Restarted(a) \in [at : Places, script : Script, mine : SUBSET Nat, lo : Nat, hi : Nat]
           /\ Restarted(a).at \in {"sync", "done", "failed"}
           /\ Restarted(a).at = "done" => Restarted(a) = actor[a]
           /\ Restarted(a).at # "done" => Restarted(a).lo = 0 /\ Restarted(a).hi = 0
           /\ Restarted(a).mine = actor[a].mine
  BY EmptyScript DEF ActorType, Restarted, AfterError, Places

LEMMA RestartFits ==
    ASSUME ActorType, ledger \in Seq(Deltas), UNCHANGED ledger, views'.covered \in Nat,
           NEW a \in Actors, actor'[a] = Restarted(a), BatchFits(a)
    PROVE  BatchFits(a)'
  <1>1. CASE Restarted(a).at = "done"
    BY <1>1, RestartKeeps DEF BatchFits
  <1>2. CASE Restarted(a).at # "done"
    BY <1>2, RestartKeeps DEF BatchFits
  <1> QED
    BY <1>1, <1>2

LEMMA PowerLossKeeps ==
    ASSUME KbInv, PowerLoss
    PROVE  KbInv'
  <1>1. ActorType'
    BY RestartKeeps DEF KbInv, PowerLoss, ActorType
  <1>2. \A a \in Actors : BatchFits(a)'
    BY RestartFits DEF KbInv, PowerLoss, ShowsAPrefix
  <1> QED
    BY <1>1, <1>2 DEF KbInv, PowerLoss, ShowsAPrefix, View!HistoryOf

LEMMA StepKeeps == KbInv /\ [Next]_vars => KbInv'
  <1> SUFFICES ASSUME KbInv, [Next]_vars PROVE KbInv'
    OBVIOUS
  <1> USE DEF KbInv
  <1>1. CASE UNCHANGED vars
    BY <1>1, FrameKeeps DEF vars, ActorType, BatchFits
  <1>2. ASSUME NEW a \in Actors, Propose(a) PROVE KbInv'
    BY <1>2, ProposeKeeps
  <1>3. ASSUME NEW a \in Actors, ProposeFails(a) \/ SyncFails(a) PROVE KbInv'
    BY <1>3, DroppingKeeps DEF ProposeFails, SyncFails, AfterError, Places
  <1>4. ASSUME NEW a \in Actors, ReadWatermark(a) PROVE KbInv'
    <2>1. ActorType'
      BY <1>4 DEF ReadWatermark, ActorType, Places, ShowsAPrefix
    <2>2. \A b \in Actors : BatchFits(b)'
      BY <1>4 DEF ReadWatermark, ActorType, BatchFits, ShowsAPrefix
    <2> QED
      BY <1>4, <2>1, <2>2, FrameKeeps DEF ReadWatermark
  <1>5. ASSUME NEW a \in Actors, LoadEvents(a) PROVE KbInv'
    <2>1. /\ LastOfBatch(actor[a].lo) \in Nat /\ LastOfBatch(actor[a].lo) <= Len(ledger)
      BY BatchIsLoaded, KbAssumption DEF ActorType
    <2>2. CASE Goes(a, AfterSync(a))
      BY <1>5, <2>2, DroppingKeeps DEF LoadEvents, AfterSync, Places
    <2>3. CASE /\ ~(LastOfBatch(actor[a].lo) <= actor[a].lo)
               /\ actor' = [actor EXCEPT ![a].at = "loaded", ![a].hi = LastOfBatch(actor[a].lo)]
      <3>1. ActorType'
        BY <2>1, <2>3 DEF ActorType, Places
      <3>2. \A b \in Actors : BatchFits(b)'
        BY <1>5, <2>1, <2>3 DEF LoadEvents, ActorType, BatchFits, ShowsAPrefix
      <3> QED
        BY <1>5, <3>1, <3>2, FrameKeeps DEF LoadEvents
    <2> QED
      BY <1>5, <2>2, <2>3 DEF LoadEvents
  <1>6. ASSUME NEW a \in Actors, Apply(a) PROVE KbInv'
    BY <1>6, ApplyKeeps
  <1>7. ASSUME NEW a \in Actors, Kill(a) PROVE KbInv'
    <2>1. ActorType'
      BY <1>7, RestartKeeps DEF Kill, ActorType
    <2>2. actor' = [actor EXCEPT ![a] = Restarted(a)] /\ UNCHANGED <<ledger, views, disk>>
      BY <1>7 DEF Kill
    <2>3. \A b \in Actors : BatchFits(b)'
      <3>1. actor'[a] = Restarted(a) /\ \A b \in Actors \ {a} : actor'[b] = actor[b]
        BY <2>2 DEF ActorType
      <3>2. BatchFits(a)'
        BY <2>2, <3>1, RestartFits DEF ShowsAPrefix
      <3> QED
        BY <2>2, <3>1, <3>2 DEF BatchFits
    <2> QED
      BY <2>1, <2>2, <2>3, FrameKeeps
  <1>8. CASE BackupLedger \/ BackupViews
    BY <1>8, FrameKeeps DEF BackupLedger, BackupViews, ActorType, BatchFits
  <1>9. CASE Checkpoint
    BY <1>9 DEF Checkpoint, ActorType, BatchFits, ShowsAPrefix, View!HistoryOf
  <1>10. CASE PowerLoss
    BY <1>10, PowerLossKeeps
  <1> QED
    BY <1>1, <1>2, <1>3, <1>4, <1>5, <1>6, <1>7, <1>8, <1>9, <1>10 DEF Next, Sync

\* Whatever syncs overlap, fail or die, the views and their last checkpoint show the
\* history of a prefix of the ledger and have their watermark within it.
THEOREM ViewsShowAPrefix == Spec => []KbInv
  BY InitHolds, StepKeeps, PTL DEF Spec

-----------------------------------------------------------------------------
(* The refinement *)

\* Materializer::sync only moves the prefix forward, a proposal only extends the
\* ledger, and only a power loss takes views back, to an earlier prefix.
LEMMA StepRefines ==
    KbInv /\ KbInv' /\ [Next]_vars => [View!Next]_<<ledger, views.covered, views.history>>
  <1> SUFFICES ASSUME KbInv, KbInv', [Next]_vars, ~UNCHANGED <<ledger, views.covered, views.history>>
               PROVE  View!Next
    OBVIOUS
  <1>1. ASSUME NEW a \in Actors, Propose(a) PROVE View!Next
    <2> DEFINE d == Head(actor[a].script)
    <2>1. ledger' = Append(ledger, d) /\ UNCHANGED views
      BY <1>1 DEF Propose
    <2>2. d \in Deltas /\ ledger \in Seq(Deltas)
      BY <1>1, NextDelta DEF KbInv, Propose
    <2> HIDE DEF d
    <2> QED
      BY <2>1, <2>2 DEF View!Next, View!Append1
  <1>2. ASSUME NEW a \in Actors, Apply(a) PROVE View!Next
    <2>1. UNCHANGED ledger /\ views' = Applied(actor[a].lo, actor[a].hi)
      BY <1>2 DEF Apply
    <2>2. views'.covered \in views.covered .. Len(ledger) /\ views'.history = View!HistoryOf(views.covered)'
      BY <2>1 DEF KbInv, ShowsAPrefix, ActorType, Applied, Upserted
    <2>3. View!HistoryOf(views.covered)' = View!HistoryOf(views'.covered)
      BY <2>1 DEF View!HistoryOf
    <2> QED
      BY <2>1, <2>2, <2>3 DEF View!Next, View!CatchUp
  <1>3. CASE PowerLoss
    <2>1. UNCHANGED ledger /\ views' = disk
      BY <1>3 DEF PowerLoss
    <2>2. views'.covered \in 0 .. views.covered /\ views'.history = View!HistoryOf(views'.covered)
      BY <2>1 DEF KbInv, ShowsAPrefix
    <2> QED
      BY <2>1, <2>2 DEF View!Next, View!Lose
  <1> QED
    BY <1>1, <1>2, <1>3 DEF Next, Sync, vars, ProposeFails, SyncFails, ReadWatermark, LoadEvents,
        Kill, BackupLedger, BackupViews, Checkpoint

\* The views implement KbView: at any time `rlp kb why` shows the history of a
\* gapless prefix of the ledger, which grows until power is lost.
THEOREM ViewsImplementKbView == Spec => RefinesView
  <1>1. Init => View!Init
    BY DEF Init, View!Init, NoViews
  <1> QED
    BY <1>1, ViewsShowAPrefix, StepRefines, PTL DEF Spec, RefinesView, View!Spec

\* propose_event returns once the views cover all its caller wrote (ensure_views),
\* though it was somebody else's sync that brought them there.
THEOREM WritersReadTheirWrites == Spec => ReadYourWrites
  <1>1. ASSUME KbInv, [Next]_vars, NEW a \in Actors,
               actor[a].at # "done", actor'[a].at = "done"
        PROVE  \A i \in actor[a].mine : i <= views.covered
    <2>1. ASSUME NEW b \in Actors, LoadEvents(b) PROVE \A i \in actor[a].mine : i <= views.covered
      <3>1. a = b /\ LastOfBatch(actor[a].lo) <= actor[a].lo
        BY <1>1, <2>1 DEF LoadEvents, Goes, KbInv, ActorType
      <3>2. Len(ledger) <= actor[a].lo
        BY <1>1, <3>1, BatchIsLoaded, KbAssumption DEF KbInv, ActorType
      <3> QED
        BY <1>1, <3>2 DEF KbInv, BatchFits, ActorType, ShowsAPrefix
    <2>2. ASSUME NEW b \in Actors, Propose(b) \/ ReadWatermark(b) PROVE FALSE
      <3>1. CASE ReadWatermark(b) \/ (Propose(b) /\ GivesUp(b, "failed"))
        BY <1>1, <3>1 DEF ReadWatermark, GivesUp, KbInv, ActorType
      <3>2. CASE actor' = [actor EXCEPT ![b].at = IF Tail(actor[b].script) = <<>> THEN "sync" ELSE "write",
                                        ![b].script = Tail(actor[b].script),
                                        ![b].mine = @ \cup {Len(ledger) + 1}]
        BY <1>1, <3>2 DEF KbInv, ActorType
      <3> QED
        BY <2>2, <3>1, <3>2 DEF Propose
    <2>3. ASSUME NEW b \in Actors, ProposeFails(b) \/ SyncFails(b) \/ Apply(b) PROVE FALSE
      BY <1>1, <2>3 DEF ProposeFails, SyncFails, Apply, Goes, GivesUp, AfterError, KbInv, ActorType
    <2>4. ASSUME NEW b \in Actors, Kill(b) PROVE FALSE
      BY <1>1, <2>4, RestartKeeps DEF Kill, KbInv, ActorType
    <2>5. CASE PowerLoss
      BY <1>1, <2>5, RestartKeeps DEF PowerLoss, KbInv
    <2> QED
      BY <1>1, <2>1, <2>2, <2>3, <2>4, <2>5 DEF Next, Sync, vars, BackupLedger, BackupViews, Checkpoint
  <1>2. KbInv /\ [Next]_vars =>
          [\A a \in Actors : actor[a].at # "done" /\ actor'[a].at = "done"
                              => \A i \in actor[a].mine : i <= views.covered]_vars
    BY <1>1
  <1> QED
    BY <1>2, ViewsShowAPrefix, PTL DEF Spec, ReadYourWrites

-----------------------------------------------------------------------------
(* A finished run has its trace *)

\* The rows of views v: each shows an event that touches it, from the prefix
\* covered, and every event of that prefix left its row there.
RowsShow(v) ==
    /\ v.row \in [Rows -> 0 .. v.covered]
    /\ \A r \in Rows : v.row[r] # 0 => r \in RowOf(ledger[v.row[r]])
    /\ \A i \in 1 .. v.covered : \A r \in Rows \cap RowOf(ledger[i]) : v.row[r] # 0

TracedBefore(i) == \E j \in 1 .. i - 1 : IsTraceOf(ledger[j], ledger[i])

\* The trace of the run that s[i] ends is in the ledger, or ahead of it in s.
WillBeTraced(s, i) ==
    \/ \E j \in Ids : IsTraceOf(ledger[j], s[i])
    \/ \E j \in 1 .. i - 1 : IsTraceOf(s[j], s[i])

ScriptTraced(s) == \A i \in DOMAIN s : s[i].kind = "run.finished" => WillBeTraced(s, i)

TraceInv ==
    /\ \A i \in Ids : ledger[i].kind = "run.finished" => TracedBefore(i)
    /\ \A a \in Actors : ScriptTraced(actor[a].script)
    /\ RowsShow(views) /\ RowsShow(disk)

\* A set of naturals that is not empty has a least element.
LEMMA LeastExists ==
    ASSUME NEW S, S \subseteq Nat, S # {}
    PROVE  \E x \in S : \A y \in S : x <= y
  <1> DEFINE Below == {1 .. i : i \in S}
  <1>1. Below \subseteq FiniteSubsetsOf(Nat) /\ Below # {}
    <2>1. \A i \in S : 1 .. i \subseteq Nat /\ IsFiniteSet(1 .. i)
      BY FS_Interval
    <2> QED
      BY <2>1 DEF FiniteSubsetsOf
  <1>2. \E B \in Below : \A C \in Below : ~(<<C, B>> \in StrictSubsetOrdering(Nat))
    <2>1. IsWellFoundedOn(StrictSubsetOrdering(Nat), FiniteSubsetsOf(Nat))
      BY FS_StrictSubsetOrderingWellFounded
    <2> QED
      BY <1>1, <2>1, WFMin, Zenon
  <1>3. PICK x \in S : \A y \in S : ~(<<1 .. y, 1 .. x>> \in StrictSubsetOrdering(Nat))
    BY <1>2
  <1>4. ASSUME NEW y \in S, y < x
        PROVE  FALSE
    <2>1. x \in Nat /\ y \in Nat
      OBVIOUS
    <2>2. 1 .. y \subseteq 1 .. x /\ 1 .. y # 1 .. x
      BY <1>4, <2>1
    <2>3. <<1 .. y, 1 .. x>> \in StrictSubsetOrdering(Nat)
      BY <2>1, <2>2 DEF StrictSubsetOrdering
    <2> QED
      BY <1>3, <2>3
  <1> QED
    BY <1>4

\* So a set of event ids that is not empty has a greatest one: what Max picks.
LEMMA MaxExists ==
    ASSUME NEW S, NEW n \in Nat, S \subseteq 1 .. n, S # {}
    PROVE  Max(S) \in S
  <1> DEFINE Rest == {n - x : x \in S}
  <1>0. \A x \in S : x \in Nat /\ n - x \in Nat
    OBVIOUS
  <1>1. Rest \subseteq Nat /\ Rest # {}
    BY <1>0
  <1>2. PICK d \in Rest : \A e \in Rest : d <= e
    BY <1>1, LeastExists
  <1>3. PICK x \in S : d = n - x
    OBVIOUS
  <1>4. ASSUME NEW y \in S PROVE x >= y
    <2>1. d <= n - y
      BY <1>2
    <2> QED
      BY <1>0, <1>3, <2>1
  <1> QED
    BY <1>4 DEF Max

\* What a batch makes of a row: the event of the batch that it shows, or what
\* it showed before.
LEMMA RowUpserted ==
    ASSUME NEW ids, NEW n \in Nat, ids \subseteq 1 .. n, NEW w, NEW u, NEW r \in Rows
    PROVE  LET v == Upserted(ids, w, u)
           IN  \/ v.row[r] \in ids /\ r \in RowOf(ledger[v.row[r]])
               \/ v.row[r] = views.row[r] /\ \A i \in ids : r \notin RowOf(ledger[i])
  <1> DEFINE touching == {i \in ids : r \in RowOf(ledger[i])}
  <1>1. Upserted(ids, w, u).row[r] = IF touching = {} THEN views.row[r] ELSE Max(touching)
    BY DEF Upserted
  <1>2. CASE touching = {}
    BY <1>1, <1>2
  <1>3. CASE touching # {}
    <2>1. Max(touching) \in touching
      BY <1>3, MaxExists
    <2> QED
      BY <1>1, <1>3, <2>1
  <1> QED
    BY <1>2, <1>3

\* Whatever batch is applied on top of views that cover its start, the rows still
\* show the prefix, although some may go back to an earlier event of it.
LEMMA ApplyKeepsRows ==
    ASSUME KbInv, RowsShow(views), NEW a \in Actors, Apply(a)
    PROVE  RowsShow(views)'
  <1>1. CASE UNCHANGED views
    BY <1>1 DEF Apply, RowsShow
  <1>2. CASE views' = Applied(actor[a].lo, actor[a].hi)
    <2> DEFINE lo == actor[a].lo
               hi == actor[a].hi
               ids == lo + 1 .. hi
    <2>1. lo \in Nat /\ hi \in Nat /\ lo < hi /\ lo <= views.covered /\ views.covered \in Nat
      BY DEF KbInv, ActorType, BatchFits, Apply, ShowsAPrefix
    <2>2. views' = Upserted(ids, hi, hi) /\ UNCHANGED ledger
      BY <1>2 DEF Applied, Apply
    <2>3. views'.covered = (IF hi > views.covered THEN hi ELSE views.covered)
          /\ DOMAIN views'.row = Rows /\ views'.row = [r \in Rows |-> views'.row[r]]
      BY <2>2 DEF Upserted
    <2>4. ids \subseteq 1 .. hi /\ \A i \in ids : i \in lo + 1 .. hi
      BY <2>1
    <2>8. \A i \in lo + 1 .. hi : i \in ids
      OBVIOUS
    <2> HIDE DEF lo, hi, ids
    <2>5. \A r \in Rows :
            \/ views'.row[r] \in ids /\ r \in RowOf(ledger[views'.row[r]])
            \/ views'.row[r] = views.row[r] /\ \A i \in ids : r \notin RowOf(ledger[i])
      BY <2>1, <2>2, <2>4, RowUpserted
    <2>6. \A r \in Rows : /\ views'.row[r] \in 0 .. views'.covered
                          /\ views'.row[r] # 0 => r \in RowOf(ledger[views'.row[r]])
      <3>1. \A r \in Rows : views.row[r] \in 0 .. views.covered
        BY DEF RowsShow
      <3> SUFFICES ASSUME NEW r \in Rows
                   PROVE  /\ views'.row[r] \in 0 .. views'.covered
                          /\ views'.row[r] # 0 => r \in RowOf(ledger[views'.row[r]])
        OBVIOUS
      <3>2. CASE views'.row[r] \in ids /\ r \in RowOf(ledger[views'.row[r]])
        <4>1. views'.row[r] \in 1 .. hi
          BY <2>4, <3>2
        <4>2. hi <= views'.covered /\ views'.covered \in Nat
          BY <2>1, <2>3
        <4> QED
          BY <2>1, <3>2, <4>1, <4>2
      <3>3. CASE views'.row[r] = views.row[r]
        <4>1. views'.row[r] \in 0 .. views'.covered
          BY <2>1, <2>3, <3>1, <3>3
        <4> QED
          BY <3>3, <4>1 DEF RowsShow
      <3> QED
        BY <2>5, <3>2, <3>3
    <2>7. ASSUME NEW i \in 1 .. views'.covered, NEW r \in Rows, r \in RowOf(ledger[i])
          PROVE  views'.row[r] # 0
      <3>1. CASE i \in ids
        BY <2>1, <2>4, <2>5, <2>7, <3>1
      <3>2. CASE i \notin ids
        <4>1. i \in 1 .. views.covered
          BY <2>1, <2>3, <2>8, <3>2
        <4>2. views.row[r] # 0
          BY <2>7, <4>1 DEF RowsShow
        <4> QED
          BY <2>1, <2>4, <2>5, <4>2
      <3> QED
        BY <3>1, <3>2
    <2> QED
      BY <2>2, <2>3, <2>6, <2>7 DEF RowsShow
  <1> QED
    BY <1>1, <1>2 DEF Apply

\* An event appended to the ledger is beyond what views cover.
LEMMA AppendKeepsRows ==
    ASSUME ledger \in Seq(Deltas), NEW d \in Deltas, ledger' = Append(ledger, d),
           NEW v, v.covered \in Nat, v.covered <= Len(ledger), RowsShow(v)
    PROVE  /\ \A r \in Rows : v.row[r] # 0 => r \in RowOf(ledger'[v.row[r]])
           /\ \A i \in 1 .. v.covered : \A r \in Rows \cap RowOf(ledger'[i]) : v.row[r] # 0
  <1>1. \A i \in 1 .. v.covered : ledger'[i] = ledger[i]
    OBVIOUS
  <1>2. \A r \in Rows : v.row[r] \in 0 .. v.covered
    BY DEF RowsShow
  <1> QED
    BY <1>1, <1>2 DEF RowsShow

\* A proposal is appended after the trace it needs, which came before it in its
\* script or was in the ledger already.
LEMMA ProposeKeepsTraces ==
    ASSUME KbInv, TraceInv, NEW a \in Actors, Propose(a),
           ledger' = Append(ledger, Head(actor[a].script)),
           actor'[a].script = Tail(actor[a].script),
           \A b \in Actors \ {a} : actor'[b] = actor[b]
    PROVE  TraceInv'
  <1> DEFINE s == actor[a].script
             n == Len(ledger)
  <1>1. s \in Seq(Deltas) /\ s # <<>> /\ ledger \in Seq(Deltas) /\ n \in Nat
    <2>1. actor[a].at = "write" /\ actor[a].script \in Script
      BY DEF Propose, KbInv, ActorType
    <2>2. s # <<>>
      BY <2>1 DEF KbInv, BatchFits
    <2> QED
      BY <2>1, <2>2 DEF KbInv, Script
  <1>2. Len(ledger') = n + 1 /\ ledger'[n + 1] = s[1] /\ \A i \in 1 .. n : ledger'[i] = ledger[i]
    BY <1>1
  <1>3. DOMAIN s = 1 .. Len(s) /\ Len(s) \in Nat \ {0} /\ Len(Tail(s)) = Len(s) - 1
        /\ DOMAIN Tail(s) = 1 .. Len(s) - 1 /\ \A i \in 1 .. Len(s) - 1 : Tail(s)[i] = s[i + 1]
    BY <1>1
  <1>4. ScriptTraced(s) /\ \A i \in 1 .. n : ledger[i].kind = "run.finished" => TracedBefore(i)
    BY DEF TraceInv, Ids
  <1> HIDE DEF s, n
  <1>5. ASSUME NEW i \in 1 .. n + 1, ledger'[i].kind = "run.finished"
        PROVE  TracedBefore(i)'
    <2>1. CASE i \in 1 .. n
      <3>1. PICK j \in 1 .. i - 1 : IsTraceOf(ledger[j], ledger[i])
        BY <1>2, <1>4, <1>5, <2>1 DEF TracedBefore
      <3>2. ledger'[j] = ledger[j] /\ ledger'[i] = ledger[i]
        BY <1>1, <1>2, <2>1
      <3> QED
        BY <3>1, <3>2 DEF TracedBefore
    <2>2. CASE i = n + 1
      <3>1. 1 \in DOMAIN s /\ s[1].kind = "run.finished"
        BY <1>2, <1>3, <1>5, <2>2
      <3>2. PICK j \in 1 .. n : IsTraceOf(ledger[j], s[1])
        BY <1>4, <3>1 DEF ScriptTraced, WillBeTraced, Ids, n
      <3>3. j \in 1 .. i - 1 /\ IsTraceOf(ledger'[j], ledger'[i])
        BY <1>1, <1>2, <2>2, <3>2
      <3> QED
        BY <3>3 DEF TracedBefore
    <2> QED
      BY <1>1, <2>1, <2>2
  <1>6. Ids' = 1 .. n + 1
    BY <1>2 DEF Ids
  <1>7. ASSUME NEW b \in Actors \ {a}
        PROVE  ScriptTraced(actor[b].script)'
    <2> DEFINE q == actor[b].script
    <2>1. actor'[b].script = q /\ ScriptTraced(q)
      BY DEF TraceInv
    <2>2. \A i : WillBeTraced(q, i) => (\E j \in 1 .. n + 1 : IsTraceOf(ledger'[j], q[i]))
                                       \/ (\E j \in 1 .. i - 1 : IsTraceOf(q[j], q[i]))
      BY <1>1, <1>2 DEF WillBeTraced, Ids, n
    <2> HIDE DEF q
    <2> QED
      BY <1>6, <2>1, <2>2 DEF ScriptTraced, WillBeTraced
  <1>8. ScriptTraced(actor[a].script)'
    <2> DEFINE q == Tail(s)
    <2>1. actor'[a].script = q
      BY DEF s
    <2>2. ASSUME NEW i \in DOMAIN q, q[i].kind = "run.finished"
          PROVE  \/ \E j \in 1 .. n + 1 : IsTraceOf(ledger'[j], q[i])
                 \/ \E j \in 1 .. i - 1 : IsTraceOf(q[j], q[i])
      <3>1. i \in Nat /\ i + 1 \in DOMAIN s /\ q[i] = s[i + 1]
        BY <1>3, <2>2
      <3>2. CASE \E j \in 1 .. n : IsTraceOf(ledger[j], s[i + 1])
        BY <1>1, <1>2, <3>1, <3>2
      <3>3. CASE \E j \in 1 .. i : IsTraceOf(s[j], s[i + 1])
        <4>1. PICK j \in 1 .. i : IsTraceOf(s[j], s[i + 1])
          BY <3>3
        <4>2. CASE j = 1
          BY <1>1, <1>2, <3>1, <4>1, <4>2
        <4>3. CASE j # 1
          <5>1. j - 1 \in 1 .. i - 1 /\ j - 1 \in 1 .. Len(s) - 1
            BY <1>3, <2>2, <3>1, <4>3
          <5>2. q[j - 1] = s[j]
            BY <1>3, <5>1
          <5> QED
            BY <3>1, <4>1, <5>1, <5>2
        <4> QED
          BY <4>2, <4>3
      <3>4. WillBeTraced(s, i + 1)
        BY <1>4, <2>2, <3>1 DEF ScriptTraced
      <3>5. 1 .. (i + 1) - 1 = 1 .. i
        BY <3>1
      <3> QED
        BY <3>2, <3>3, <3>4, <3>5 DEF WillBeTraced, Ids, n
    <2> HIDE DEF q
    <2> QED
      BY <1>6, <2>1, <2>2 DEF ScriptTraced, WillBeTraced
  <1>9. RowsShow(views)' /\ RowsShow(disk)'
    <2>1. UNCHANGED <<views, disk>> /\ Head(actor[a].script) \in Deltas
      BY NextDelta DEF Propose
    <2>2. /\ views.covered \in Nat /\ views.covered <= Len(ledger)
          /\ disk.covered \in Nat /\ disk.covered <= Len(ledger)
      BY DEF KbInv, ShowsAPrefix
    <2>3. RowsShow(views) /\ RowsShow(disk)
      BY DEF TraceInv
    <2> QED
      BY <1>1, <2>1, <2>2, <2>3, AppendKeepsRows DEF RowsShow
  <1> QED
    BY <1>5, <1>6, <1>7, <1>8, <1>9 DEF TraceInv

\* To drop a script, or to go on with it, asks for no other trace.
LEMMA ScriptsKeepTraces ==
    ASSUME TraceInv, UNCHANGED <<ledger, views, disk>>,
           \A a \in Actors : actor'[a].script \in {<<>>, actor[a].script}
    PROVE  TraceInv'
  <1>1. \A a \in Actors : ScriptTraced(actor'[a].script)
    BY DEF TraceInv, ScriptTraced
  <1>2. \A a \in Actors : ScriptTraced(actor[a].script)'
    BY <1>1 DEF ScriptTraced, WillBeTraced, Ids
  <1> QED
    BY <1>2 DEF TraceInv, TracedBefore, Ids, RowsShow

\* Every other step leaves the ledger alone and the scripts as they were, or empty.
LEMMA OthersKeepScripts ==
    ASSUME ActorType, NEW a \in Actors,
           \/ ProposeFails(a) \/ ReadWatermark(a) \/ LoadEvents(a) \/ Apply(a)
           \/ SyncFails(a) \/ Kill(a) \/ (Propose(a) /\ GivesUp(a, "failed"))
    PROVE  \A b \in Actors : actor'[b].script \in {<<>>, actor[b].script}
  <1>1. CASE Kill(a)
    BY <1>1 DEF Kill, Restarted, ActorType
  <1>2. ASSUME NEW at, Goes(a, at) \/ GivesUp(a, at)
        PROVE  \A b \in Actors : actor'[b].script \in {<<>>, actor[b].script}
    BY <1>2 DEF Goes, GivesUp, ActorType
  <1>3. CASE ReadWatermark(a)
    BY <1>3 DEF ReadWatermark, ActorType
  <1>4. CASE LoadEvents(a)
    BY <1>2, <1>4 DEF LoadEvents, ActorType
  <1> QED
    BY <1>1, <1>2, <1>3, <1>4 DEF ProposeFails, Apply, SyncFails

LEMMA StepKeepsTraces == KbInv /\ TraceInv /\ [Next]_vars => TraceInv'
  <1> SUFFICES ASSUME KbInv, TraceInv, [Next]_vars PROVE TraceInv'
    OBVIOUS
  <1>0. ActorType
    BY DEF KbInv
  <1>1. ASSUME NEW a \in Actors, Propose(a) PROVE TraceInv'
    <2>1. CASE GivesUp(a, "failed") /\ UNCHANGED ledger
      BY <1>0, <1>1, <2>1, OthersKeepScripts, ScriptsKeepTraces DEF Propose
    <2>2. CASE /\ ledger' = Append(ledger, Head(actor[a].script))
               /\ actor' = [actor EXCEPT ![a].at = IF Tail(actor[a].script) = <<>> THEN "sync" ELSE "write",
                                         ![a].script = Tail(actor[a].script),
                                         ![a].mine = @ \cup {Len(ledger) + 1}]
      <3>1. actor'[a].script = Tail(actor[a].script) /\ \A b \in Actors \ {a} : actor'[b] = actor[b]
        BY <1>0, <2>2 DEF ActorType
      <3> QED
        BY <1>1, <2>2, <3>1, ProposeKeepsTraces
    <2> QED
      BY <1>1, <2>1, <2>2 DEF Propose
  <1>2. ASSUME NEW a \in Actors,
               ProposeFails(a) \/ ReadWatermark(a) \/ LoadEvents(a) \/ SyncFails(a) \/ Kill(a)
        PROVE  TraceInv'
    <2>1. UNCHANGED <<ledger, views, disk>>
      BY <1>2 DEF ProposeFails, ReadWatermark, LoadEvents, SyncFails, Kill
    <2> QED
      BY <1>0, <1>2, <2>1, OthersKeepScripts, ScriptsKeepTraces
  <1>3. ASSUME NEW a \in Actors, Apply(a) PROVE TraceInv'
    <2>1. RowsShow(views)'
      BY <1>3, ApplyKeepsRows DEF TraceInv
    <2>2. \A b \in Actors : ScriptTraced(actor'[b].script)
      BY <1>0, <1>3, OthersKeepScripts DEF TraceInv, ScriptTraced
    <2>3. UNCHANGED <<ledger, disk>>
      BY <1>3 DEF Apply
    <2>4. \A b \in Actors : ScriptTraced(actor[b].script)'
      BY <2>2, <2>3 DEF ScriptTraced, WillBeTraced, Ids
    <2> QED
      BY <2>1, <2>3, <2>4 DEF TraceInv, TracedBefore, Ids, RowsShow
  <1>4. CASE BackupLedger \/ BackupViews \/ UNCHANGED vars
    BY <1>4, ScriptsKeepTraces DEF BackupLedger, BackupViews, vars
  <1>5. CASE Checkpoint
    BY <1>5 DEF Checkpoint, TraceInv, TracedBefore, ScriptTraced, WillBeTraced, Ids, RowsShow
  <1>6. CASE PowerLoss
    <2>1. \A a \in Actors : actor'[a].script \in {<<>>, actor[a].script}
      <3>1. \A a \in Actors : actor'[a] = Restarted(a)
        BY <1>6 DEF PowerLoss
      <3>2. \A a \in Actors : Restarted(a).script \in {<<>>, actor[a].script}
        BY <1>0 DEF Restarted, ActorType
      <3> QED
        BY <3>1, <3>2
    <2>2. \A a \in Actors : ScriptTraced(actor'[a].script)
      BY <2>1 DEF TraceInv, ScriptTraced
    <2>3. UNCHANGED <<ledger, disk>> /\ views' = disk
      BY <1>6 DEF PowerLoss
    <2>4. \A a \in Actors : ScriptTraced(actor[a].script)'
      BY <2>2, <2>3 DEF ScriptTraced, WillBeTraced, Ids
    <2> QED
      BY <2>3, <2>4 DEF TraceInv, TracedBefore, Ids, RowsShow
  <1> QED
    BY <1>1, <1>2, <1>3, <1>4, <1>5, <1>6 DEF Next, Sync

LEMMA InitTraced == ASSUME TracesComeFirst PROVE Init => TraceInv
  <1> SUFFICES ASSUME Init PROVE TraceInv
    OBVIOUS
  <1>1. ledger = <<>> /\ Ids = {} /\ views = NoViews /\ disk = NoViews
    BY DEF Init, Ids
  <1>2. \A a \in Actors : actor[a].script \in Scripts[a]
    BY DEF Init
  <1>3. \A a \in Actors : ScriptTraced(actor[a].script)
    BY <1>2 DEF TracesComeFirst, ScriptTraced, WillBeTraced
  <1>4. RowsShow(NoViews)
    BY DEF RowsShow, NoViews
  <1> QED
    BY <1>1, <1>3, <1>4 DEF TraceInv

\* A run row shows the end of the run only if the ledger has its trace before that
\* end, and then the views, which cover that end, have a row for the trace.
LEMMA TracedRowsAgree ==
    ASSUME TracesComeFirst, KbInv, TraceInv
    PROVE  FinishedRunHasTrace
  <1> SUFFICES ASSUME NEW r \in Rows, r[1] = "runs", views.row[r] # 0,
                      ledger[views.row[r]].kind = "run.finished"
               PROVE  views.row[<<"run_traces", r[2]>>] # 0
    BY DEF FinishedRunHasTrace
  <1> DEFINE k == views.row[r]
             trace == <<"run_traces", r[2]>>
  <1>1. k \in 1 .. views.covered /\ r \in RowOf(ledger[k])
        /\ views.covered \in Nat /\ views.covered <= Len(ledger) /\ Len(ledger) \in Nat
    BY DEF TraceInv, RowsShow, KbInv, ShowsAPrefix
  <1>2. k \in Ids
    BY <1>1 DEF Ids
  <1>3. r = <<"runs", ledger[k].id>>
    BY <1>1 DEF RowOf
  <1>4. PICK j \in 1 .. k - 1 : IsTraceOf(ledger[j], ledger[k])
    BY <1>2 DEF TraceInv, TracedBefore
  <1>5. trace \in RowOf(ledger[j])
    BY <1>3, <1>4 DEF RowOf, IsTraceOf
  <1>6. trace \in Rows
    BY DEF TracesComeFirst
  <1>7. j \in 1 .. views.covered
    BY <1>1, <1>4
  <1> QED
    BY <1>5, <1>6, <1>7 DEF TraceInv, RowsShow

\* Where runs record their trace before their end (run_local), the views never
\* show a run as finished without its trace, whatever syncs overlap or fail and
\* whatever a power loss takes back.
THEOREM FinishedRunsAreTraced ==
    ASSUME TracesComeFirst
    PROVE  Spec => []FinishedRunHasTrace
  BY InitTraced, StepKeepsTraces, TracedRowsAgree, ViewsShowAPrefix, PTL DEF Spec
=============================================================================
