--------------------------------- MODULE Kb ---------------------------------
(***************************************************************************)
(* The knowledge base of crates/kb: an append-only ledger (events.sqlite), *)
(* the views materialized from it (pog.sqlite), and the processes that     *)
(* write the one and bring the other up to date: the daemon's materializer *)
(* loop, agents that propose an event and wait for the views, local runs   *)
(* that record themselves (trace_store.rs), and `rlp kb` commands.         *)
(*                                                                         *)
(* Materializer::sync takes the locks of the two databases one after the   *)
(* other, so that each of its three steps is an action.  The batch it      *)
(* applies, the history and the watermark are one transaction.             *)
(***************************************************************************)
EXTENDS Integers, Sequences, FiniteSets, FiniteSetsExt, KbEvents

CONSTANTS
    Actors,      \* the processes and tasks that use the knowledge base
    Daemon,      \* the one among them that runs run_materializer
    Scripts,     \* [Actors -> sets of sequences of proposals]
    Rows,        \* the rows the proposals may touch
    Batch,       \* batch_size, 512 in the code
    MaxEvents,   \* bound: events in the ledger
    MaxTroubles  \* bound: database errors, kills, power losses, checkpoints, backups

\* What may be proposed.
Deltas == UNION {{s[i] : i \in DOMAIN s} : s \in UNION {Scripts[a] : a \in Actors}}

ASSUME KbAssumption ==
    /\ Daemon \in Actors
    /\ \A a \in Actors : \A s \in Scripts[a] : s \in Seq(Deltas)
    /\ Batch \in Nat \ {0} /\ MaxEvents \in Nat
    /\ MaxTroubles \in Nat

VARIABLES
    ledger,   \* events.sqlite: the accepted proposals, ids 1 .. Len(ledger)
    views,    \* pog.sqlite: rows, history, watermark
    disk,     \* the views as of the last checkpoint (synchronous = NORMAL)
    actor,    \* each actor: position, script left, ids of its events, batch
    backup,   \* the backup being made: its step, events and watermark copied
    troubles  \* how many of them there have been

vars == <<ledger, views, disk, actor, backup, troubles>>

Ids == 1 .. Len(ledger)

NoViews == [row |-> [r \in Rows |-> 0], history |-> {}, watermark |-> 0,
            covered |-> 0]  \* covered: history variable, the highest id applied

Goes(a, at) == actor' = [actor EXCEPT ![a] = [@ EXCEPT !.at = at, !.lo = 0, !.hi = 0]]
GivesUp(a, at) == actor' = [actor EXCEPT ![a] = [@ EXCEPT !.at = at, !.script = <<>>,
                                                          !.lo = 0, !.hi = 0]]

\* Where an actor goes once the views are up to date, and when sync fails: the
\* daemon sleeps and tries again, the others return.
AfterSync(a) == IF a = Daemon THEN "sync" ELSE "done"
AfterError(a) == IF a = Daemon THEN "sync" ELSE "failed"

Init ==
    /\ ledger = <<>>
    /\ views = NoViews
    /\ disk = NoViews
    /\ \E s \in [Actors -> UNION {Scripts[a] : a \in Actors}] :
          /\ \A a \in Actors : s[a] \in Scripts[a]
          /\ actor = [a \in Actors |-> [at |-> IF s[a] = <<>> THEN "sync" ELSE "write",
                                        script |-> s[a], mine |-> {}, lo |-> 0, hi |-> 0]]
    /\ backup = [at |-> "none", events |-> 0, watermark |-> 0]
    /\ troubles = 0

Trouble == troubles < MaxTroubles /\ troubles' = troubles + 1

-----------------------------------------------------------------------------
(* Writing the ledger *)

\* propose: scope, schema, evidence, then the insert, which the UNIQUE hash
\* refuses to an envelope already there.
Admissible(d) ==
    /\ ScopeOk(d.scope)
    /\ SchemaAdmits(d)
    /\ d.evidence \subseteq Ids
    /\ \A i \in Ids : ledger[i] # d

Propose(a) ==
    /\ actor[a].at = "write"
    /\ Len(ledger) < MaxEvents
    /\ LET d == Head(actor[a].script)
           rest == Tail(actor[a].script)
       IN IF Admissible(d)
          THEN /\ ledger' = Append(ledger, d)
               /\ actor' = [actor EXCEPT ![a].at = IF rest = <<>> THEN "sync" ELSE "write",
                                         ![a].script = rest,
                                         ![a].mine = @ \cup {Len(ledger) + 1}]
          ELSE GivesUp(a, "failed") /\ UNCHANGED ledger
    /\ UNCHANGED <<views, disk, backup, troubles>>

\* A database error: the writer gives up what is left of its script.
ProposeFails(a) ==
    /\ actor[a].at = "write"
    /\ Trouble
    /\ GivesUp(a, "failed")
    /\ UNCHANGED <<ledger, views, disk, backup>>

-----------------------------------------------------------------------------
(* Materializer::sync *)

\* current_watermark, under the lock of the views.
ReadWatermark(a) ==
    /\ actor[a].at = "sync"
    /\ actor' = [actor EXCEPT ![a].at = "read", ![a].lo = views.watermark]
    /\ UNCHANGED <<ledger, views, disk, backup, troubles>>

\* Mutant: the newest event is left for later.
LastOfBatchBut1(lo) == IF lo + Batch < Len(ledger) THEN lo + Batch ELSE Len(ledger) - 1

LastOfBatch(lo) == IF lo + Batch < Len(ledger) THEN lo + Batch ELSE Len(ledger)

\* load_events_after, under the lock of the ledger.
LoadEvents(a) ==
    /\ actor[a].at = "read"
    /\ IF LastOfBatch(actor[a].lo) <= actor[a].lo THEN Goes(a, AfterSync(a))
       ELSE actor' = [actor EXCEPT ![a].at = "loaded", ![a].hi = LastOfBatch(actor[a].lo)]
    /\ UNCHANGED <<ledger, views, disk, backup, troubles>>

\* The effect of one transaction on the views: each event upserts its row,
\* whichever event the row came from, and enters the history.
Upserted(ids, watermark, upTo) ==
    [row |-> [r \in Rows |->
                LET touching == {i \in ids : r \in RowOf(ledger[i])}
                IN IF touching = {} THEN views.row[r] ELSE Max(touching)],
     history |-> views.history \cup UNION {EntitiesOf(ledger[i]) \X {i} : i \in ids},
     watermark |-> watermark,
     covered |-> IF upTo > views.covered THEN upTo ELSE views.covered]

\* Mutants: the watermark runs ahead to the end of the ledger; it does not move;
\* the first event of a batch is skipped.
AppliedAhead(lo, hi) == Upserted(lo + 1 .. hi, Len(ledger), hi)
AppliedStuck(lo, hi) == Upserted(lo + 1 .. hi, views.watermark, hi)
AppliedSkipping(lo, hi) == Upserted(lo + 2 .. hi, hi, hi)

\* The watermark becomes the last id applied.
Applied(lo, hi) == Upserted(lo + 1 .. hi, hi, hi)

Apply(a) ==
    /\ actor[a].at = "loaded"
    /\ IF \A i \in actor[a].lo + 1 .. actor[a].hi : Applies(ledger[i])
       THEN views' = Applied(actor[a].lo, actor[a].hi) /\ Goes(a, "sync")
       ELSE UNCHANGED views /\ GivesUp(a, AfterError(a))
    /\ UNCHANGED <<ledger, disk, backup, troubles>>

\* The other process holds the database past the busy timeout.
SyncFails(a) ==
    /\ actor[a].at \in {"sync", "read", "loaded"}
    /\ Trouble
    /\ GivesUp(a, AfterError(a))
    /\ UNCHANGED <<ledger, views, disk, backup>>

-----------------------------------------------------------------------------
(* Backups, crashes *)

\* backup: the ledger is copied first, the views after it, each under its lock.
BackupLedger ==
    /\ backup.at = "none"
    /\ Trouble
    /\ backup' = [backup EXCEPT !.at = "events", !.events = Len(ledger)]
    /\ UNCHANGED <<ledger, views, disk, actor>>

BackupViews ==
    /\ backup.at = "events"
    /\ backup' = [backup EXCEPT !.at = "made", !.watermark = views.watermark]
    /\ UNCHANGED <<ledger, views, disk, actor, troubles>>

\* SQLite moves its log into the database file, and syncs it.
Checkpoint ==
    /\ disk # views
    /\ Trouble
    /\ disk' = views
    /\ UNCHANGED <<ledger, views, actor, backup>>

Restarted(a) ==
    IF actor[a].at = "done" THEN actor[a]
    ELSE [actor[a] EXCEPT !.at = AfterError(a), !.script = <<>>, !.lo = 0, !.hi = 0]

Kill(a) ==
    /\ Trouble
    /\ actor[a].at \notin {"done", "failed"}
    /\ actor' = [actor EXCEPT ![a] = Restarted(a)]
    /\ UNCHANGED <<ledger, views, disk, backup>>

\* The ledger is synced at every commit; commits to the views since the last
\* checkpoint may be lost.
PowerLoss ==
    /\ Trouble
    /\ views' = disk
    /\ actor' = [a \in Actors |-> Restarted(a)]
    /\ backup' = [backup EXCEPT !.at = "made"]
    /\ UNCHANGED <<ledger, disk>>

-----------------------------------------------------------------------------
Sync(a) == ReadWatermark(a) \/ LoadEvents(a) \/ Apply(a)

Next ==
    \/ \E a \in Actors : Propose(a) \/ ProposeFails(a) \/ Sync(a) \/ SyncFails(a) \/ Kill(a)
    \/ BackupLedger \/ BackupViews \/ Checkpoint \/ PowerLoss

Spec == Init /\ [][Next]_vars

\* run_materializer loops for as long as the daemon lives.
FairSpec == Spec /\ WF_vars(Sync(Daemon))

-----------------------------------------------------------------------------
(* Properties *)

TypeOK ==
    /\ \A i \in Ids : SchemaAdmits(ledger[i])
    /\ views.row \in [Rows -> 0 .. Len(ledger)]
    /\ views.watermark \in 0 .. Len(ledger)
    /\ views.covered \in 0 .. Len(ledger)
    /\ \A a \in Actors :
          /\ actor[a].at \in {"write", "sync", "read", "loaded", "done", "failed"}
          /\ actor[a].mine \subseteq Ids
    /\ backup.at \in {"none", "events", "made"}
    /\ troubles \in 0 .. MaxTroubles

\* The history readers see (`rlp kb why`) is that of a gapless prefix of the
\* ledger which grows until power is lost, however the syncs of the daemon, of
\* the agents and of the command line overlap, and whichever of them dies.
View == INSTANCE KbView WITH covered <- views.covered, history <- views.history
RefinesView == View!Spec

\* No event the ledger accepted makes the materializer fail: an event it cannot
\* apply would be loaded again for ever and stop the views.
NoPoison == \A i \in Ids : Applies(ledger[i])

\* A run that came to a report (`rlp run --local`) and that the views show as
\* finished has its trace in them (load_run_trace), since the trace is recorded
\* first, even when a late sync moved the watermark back.
FinishedRunHasTrace ==
    \A r \in Rows :
        /\ r[1] = "runs"
        /\ views.row[r] # 0
        /\ ledger[views.row[r]].kind = "run.finished"
        => views.row[<<"run_traces", r[2]>>] # 0

IsTraceOf(d, f) == d.kind = "run.trace" /\ d.id = f.id

\* The scripts of such runs: record_run_trace, `?`, record_run_finished.  A run
\* whose runner returns an error records its end alone and is not among them.
TracesComeFirst ==
    /\ \A a \in Actors : \A s \in Scripts[a] : \A i \in DOMAIN s :
          s[i].kind = "run.finished" => \E j \in 1 .. i - 1 : IsTraceOf(s[j], s[i])
    /\ \A r \in Rows : r[1] = "runs" => <<"run_traces", r[2]>> \in Rows

\* An agent whose propose_event returned finds its event in the views
\* (ensure_views), whoever else was syncing.
ReadYourWrites ==
    [][\A a \in Actors : actor[a].at # "done" /\ actor'[a].at = "done"
                            => \A i \in actor[a].mine : i <= views.covered]_vars

\* With the daemon running, the watermark reaches the end of the ledger and
\* stays there, once no more events are written.
CaughtUp == <>[](views.watermark = Len(ledger))

\* A row shows the last event that touched it once the watermark has passed it.
RowsAreCurrent ==
    (views.watermark = Len(ledger) /\ \A a \in Actors : actor[a].at # "loaded") =>
        \A r \in Rows : \A i \in Ids : r \in RowOf(ledger[i]) => i <= views.row[r]

\* A finished backup is consistent: its views stand for events it holds.
BackupIsConsistent == backup.at = "made" => backup.watermark <= backup.events
=============================================================================
