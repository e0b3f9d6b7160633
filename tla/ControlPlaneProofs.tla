------------------------- MODULE ControlPlaneProofs -------------------------
(***************************************************************************)
(* The accepted map against the run tasks: for any clients and bounds, one *)
(* task per request, and none while the request is launched or refused.    *)
(* The ledger of a run against its task: a truthful record, and a status   *)
(* written before the request is forgotten.                                *)
(***************************************************************************)
EXTENDS ControlPlane, TLAPS

LaunchStates == {"announce", "failstart", "insert", "spawn"}

\* The two halves of the inductive invariant.
IInv == ControlType /\ MapInv

LEMMA ZeroIsNoRun == NoRun \notin Runs
  BY ControlPlaneAssumption DEF NoRun, Runs

LEMMA IdleType == Idle \in [at : ControlStates, req : Clients, run : Runs \cup {NoRun}]
  BY ControlPlaneAssumption DEF Idle, ControlStates

LEMMA InitIInv == Init => IInv
<1> SUFFICES ASSUME Init PROVE IInv
  OBVIOUS
<1>1. ControlType
  BY IdleType, ControlPlaneAssumption DEF Init, ControlType, Idle
<1>2. MapInv
  BY DEF Init, MapInv, Live, Idle
<1> QED  BY <1>1, <1>2 DEF IInv

\* Steps that touch neither the map, the loop nor the run tasks.
LEMMA Elsewhere ==
  ASSUME IInv, UNCHANGED <<ctl, accepted, run>>, ctlInbox' \in Seq(Clients)
  PROVE  IInv'
<1>1. ControlType'
  BY DEF IInv, ControlType
<1>2. MapInv'
  BY DEF IInv, MapInv, Live
<1> QED  BY <1>1, <1>2 DEF IInv

LEMMA RequestsAreQueued ==
  ASSUME IInv, NEW c \in Clients, NEW id, NEW failed, PublishRequest(c, id, failed)
  PROVE  ctlInbox' \in Seq(Clients)
<1>1. ctlInbox \in Seq(Clients) /\ Append(ctlInbox, c) \in Seq(Clients)
  BY DEF IInv, ControlType
<1>2. ctlInbox' = ctlInbox \/ ctlInbox' = Append(ctlInbox, c)
  BY DEF PublishRequest
<1> QED  BY <1>1, <1>2

LEMMA ClientsKeep ==
  ASSUME IInv, NEW c \in Clients,
         Connect(c) \/ ClientStep(c) \/ AcceptTimeout(c) \/ Resend(c)
  PROVE  IInv'
<1>1. UNCHANGED <<ctl, accepted, run>>
  BY DEF Connect, ClientStep, AcceptTimeout, Resend, Submit, Retry, ReadResponse,
         SubscribeEvents, ReadEvent, StreamEnds, ClientOnly
<1>2. ctlInbox' \in Seq(Clients)
  <2>0. ctlInbox \in Seq(Clients)
    BY DEF IInv, ControlType
  <2>1. CASE Submit(c)
    BY <2>0, <2>1, RequestsAreQueued DEF Submit
  <2>2. CASE Retry(c)
    BY <2>0, <2>2, RequestsAreQueued DEF Retry
  <2>3. CASE Resend(c)
    BY <2>3, RequestsAreQueued DEF Resend
  <2>4. CASE Connect(c) \/ ReadResponse(c) \/ AcceptTimeout(c) \/ SubscribeEvents(c)
             \/ ReadEvent(c) \/ StreamEnds(c)
    BY <2>0, <2>4 DEF Connect, ReadResponse, AcceptTimeout, SubscribeEvents, ReadEvent,
                      StreamEnds, Quiet
  <2> QED  BY <2>1, <2>2, <2>3, <2>4 DEF ClientStep
<1> QED  BY <1>1, <1>2, Elsewhere

LEMMA DaemonKeeps ==
  ASSUME IInv, StartDaemon \/ SubscribeCtrl \/ PublishOther \/ StopDaemon
  PROVE  IInv'
<1>0. ControlType /\ MapInv
  BY DEF IInv
<1>1. CASE StartDaemon \/ SubscribeCtrl \/ PublishOther
  BY <1>0, <1>1, Elsewhere DEF StartDaemon, SubscribeCtrl, PublishOther, ControlType
<1>2. CASE StopDaemon
  <2>1. ControlType'
    <3>1. ctl' = Idle /\ ctlInbox' = <<>> /\ accepted' = [c \in Clients |-> NoRun]
      BY <1>2 DEF StopDaemon
    <3>2. run' \in [Runs -> [at : LiveStates \cup {"unused", "launching", "dropped", "gone"},
                             req : Clients, events : 0 .. MaxEvents, ok : BOOLEAN]]
      <4>1. run' = [t \in Runs |->
                      [run[t] EXCEPT !.at = IF Live(t) THEN "gone"
                                            ELSE IF @ = "launching" THEN "dropped" ELSE @]]
        BY <1>2 DEF StopDaemon
      <4>2. \A t \in Runs :
              [run[t] EXCEPT !.at = IF Live(t) THEN "gone"
                                    ELSE IF @ = "launching" THEN "dropped" ELSE @]
                \in [at : LiveStates \cup {"unused", "launching", "dropped", "gone"},
                     req : Clients, events : 0 .. MaxEvents, ok : BOOLEAN]
        BY <1>0 DEF ControlType
      <4> QED  BY <4>1, <4>2
    <3> QED  BY <3>1, <3>2, IdleType DEF ControlType
  <2>2. \A t \in Runs : ~Live(t)'
    BY <1>0, <1>2 DEF StopDaemon, ControlType, Live, LiveStates
  <2>3. ctl.at' = "idle"
    BY <1>2 DEF StopDaemon, Idle
  <2> QED  BY <2>1, <2>2, <2>3 DEF IInv, MapInv
<1> QED  BY <1>1, <1>2

\* A run task keeps its request; while it goes on it stays live, and it is
\* never the session that is being launched.
LEMMA PumpKeeps ==
  ASSUME IInv, NEW t \in Runs, PumpStep(t)
  PROVE  IInv'
<1>0. ControlType /\ MapInv
  BY DEF IInv
<1>1. UNCHANGED <<ctl, ctlInbox>>
  BY DEF PumpStep, StreamStarted, StreamEvent, StreamFinal, RecordNodes, RecordTrace,
         RecordFinished, RemoveAccepted, Record, RunStep
<1>2. CASE StreamEvent(t)
  <2>1. /\ run[t].at = "running" /\ run[t].events < MaxEvents /\ UNCHANGED accepted
        /\ run' = [run EXCEPT ![t].events = @ + 1]
    BY <1>2 DEF StreamEvent
  <2>2. ControlType'
    <3>1. run[t].events \in 0 .. MaxEvents /\ MaxEvents \in Nat
      BY <1>0, ControlPlaneAssumption DEF ControlType
    <3>2. run[t].events + 1 \in 0 .. MaxEvents
      BY <2>1, <3>1
    <3> QED  BY <1>0, <1>1, <2>1, <3>2 DEF ControlType
  <2>3. \A u \in Runs : run'[u].at = run[u].at /\ run'[u].req = run[u].req
    BY <1>0, <2>1 DEF ControlType
  <2>4. MapInv'
    BY <1>0, <1>1, <2>1, <2>3 DEF MapInv, Live
  <2> QED  BY <2>2, <2>4 DEF IInv
<1>3. CASE StreamStarted(t) \/ StreamFinal(t) \/ RecordNodes(t) \/ RecordTrace(t)
           \/ RecordFinished(t)
  <2>1. UNCHANGED accepted
    BY <1>3 DEF StreamStarted, StreamFinal, RecordNodes, RecordTrace, RecordFinished, Record
  <2>2. PICK to \in {"running", "nodes", "trace", "finish", "remove"}, ok \in BOOLEAN :
            run' = [run EXCEPT ![t].at = to, ![t].ok = ok]
    <3>1. CASE StreamFinal(t)
      BY <3>1 DEF StreamFinal
    <3>2. CASE StreamStarted(t) \/ RecordNodes(t) \/ RecordTrace(t) \/ RecordFinished(t)
      <4>1. PICK to \in {"running", "nodes", "trace", "finish", "remove"} :
                run' = [run EXCEPT ![t].at = to]
        BY <3>2 DEF StreamStarted, RecordNodes, RecordTrace, RecordFinished, Record, RunStep
      <4>2. run' = [run EXCEPT ![t].at = to, ![t].ok = run[t].ok]
        BY <1>0, <4>1 DEF ControlType
      <4> QED  BY <1>0, <4>2 DEF ControlType
    <3> QED  BY <1>3, <3>1, <3>2
  <2>3. Live(t)
    BY <1>3 DEF StreamStarted, StreamFinal, RecordNodes, RecordTrace, RecordFinished, Record,
                RunStep, Live
  <2>4. ControlType'
    <3>1. to \in LiveStates \cup {"unused", "launching", "dropped", "gone"}
      BY DEF LiveStates
    <3>2. [run[t] EXCEPT !.at = to, !.ok = ok]
            \in [at : LiveStates \cup {"unused", "launching", "dropped", "gone"},
                 req : Clients, events : 0 .. MaxEvents, ok : BOOLEAN]
      BY <1>0, <3>1 DEF ControlType
    <3>3. run' = [run EXCEPT ![t] = [run[t] EXCEPT !.at = to, !.ok = ok]]
      BY <1>0, <2>2 DEF ControlType
    <3> QED  BY <1>0, <1>1, <2>1, <3>2, <3>3 DEF ControlType
  <2>5. \A u \in Runs : /\ run'[u].req = run[u].req
                        /\ u # t => run'[u] = run[u]
    BY <1>0, <2>2 DEF ControlType
  <2>6. \A u \in Runs : Live(u)' => Live(u)
    BY <2>3, <2>5 DEF Live
  <2>7. ctl.at \in LaunchStates => ctl.run # t
    BY <1>0, <2>3 DEF MapInv, Live, LaunchStates
  <2>8. MapInv'
    BY <1>0, <1>1, <2>1, <2>5, <2>6, <2>7 DEF MapInv, LaunchStates
  <2> QED  BY <2>4, <2>8 DEF IInv
<1>4. CASE RemoveAccepted(t)
  <2>1. /\ run[t].at = "remove" /\ run' = [run EXCEPT ![t].at = "gone"]
        /\ accepted' = [accepted EXCEPT ![run[t].req] = NoRun]
    BY <1>4 DEF RemoveAccepted, RunStep
  <2>2. Live(t)
    BY <2>1 DEF Live
  <2>3. ControlType'
    BY <1>0, <1>1, <2>1 DEF ControlType
  <2>4. \A u \in Runs : /\ run'[u].req = run[u].req
                        /\ u # t => run'[u] = run[u]
    BY <1>0, <2>1 DEF ControlType
  <2>5. \A u \in Runs : Live(u)' => Live(u) /\ u # t
    BY <1>0, <2>1, <2>4 DEF Live, ControlType
  <2>6. accepted[run[t].req] = t /\ run[t].req \in Clients
    BY <1>0, <2>2 DEF MapInv, ControlType
  <2>7. \A u \in Runs : Live(u)' => accepted'[run'[u].req] = u
    BY <1>0, <2>1, <2>4, <2>5, <2>6 DEF MapInv, ControlType
  <2>8. ctl.at \in LaunchStates => ctl.run # t
    BY <1>0, <2>2 DEF MapInv, Live, LaunchStates
  <2>9. ctl.at = "spawn" => ctl.req # run[t].req
    BY <1>0, <2>6, <2>8 DEF MapInv, LaunchStates
  <2>10. /\ ctl.at = "spawn" => accepted'[ctl.req] = accepted[ctl.req]
         /\ accepted[ctl.req] = NoRun => accepted'[ctl.req] = NoRun
    BY <1>0, <2>1, <2>9 DEF ControlType
  <2>11. MapInv'
    BY <1>0, <1>1, <2>4, <2>7, <2>8, <2>10 DEF MapInv, LaunchStates
  <2> QED  BY <2>3, <2>11 DEF IInv
<1> QED  BY <1>2, <1>3, <1>4 DEF PumpStep

\* The control loop hands a request from the queue to the map to the task.
LEMMA ControlKeeps ==
  ASSUME IInv, ControlStep
  PROVE  IInv'
<1>0. ControlType /\ MapInv
  BY DEF IInv
<1> USE DEF ControlStates
<1>1. CASE TakeRequest
  <2>1. ctlInbox # <<>> /\ ctlInbox \in Seq(Clients)
    BY <1>0, <1>1 DEF TakeRequest, ControlType
  <2>2. Head(ctlInbox) \in Clients /\ Tail(ctlInbox) \in Seq(Clients)
    BY <2>1
  <2>3. /\ UNCHANGED <<accepted, run>> /\ ctlInbox' = Tail(ctlInbox)
        /\ ctl' = [at |-> IF accepted[Head(ctlInbox)] # NoRun THEN "resend" ELSE "prepare",
                   req |-> Head(ctlInbox), run |-> accepted[Head(ctlInbox)]]
    BY <1>1 DEF TakeRequest
  <2>4. ControlType'
    BY <1>0, <2>2, <2>3 DEF ControlType
  <2>5. MapInv'
    BY <1>0, <2>3 DEF MapInv, Live
  <2> QED  BY <2>4, <2>5 DEF IInv
<1>2. CASE ResendAcceptance \/ RefuseSession \/ AnnounceRun \/ RejectRun
  <2>1. UNCHANGED <<ctlInbox, accepted, run>>
    BY <1>2 DEF ResendAcceptance, RefuseSession, AnnounceRun, RejectRun
  <2>2. \/ ctl' = [ctl EXCEPT !.at = "idle"]
        \/ ctl.at = "prepare" /\ ctl' = [ctl EXCEPT !.at = "reject"]
        \/ ctl.at = "announce" /\ ctl' = [ctl EXCEPT !.at = "insert"]
        \/ ctl.at = "announce" /\ ctl' = [ctl EXCEPT !.at = "failstart"]
    BY <1>2 DEF ResendAcceptance, RefuseSession, AnnounceRun, RejectRun, Step
  <2>3. ControlType'
    BY <1>0, <2>1, <2>2 DEF ControlType
  <2>4. MapInv'
    BY <1>0, <2>1, <2>2 DEF MapInv, Live, ControlType
  <2> QED  BY <2>3, <2>4 DEF IInv
<1>3. ASSUME NEW t \in Runs, PrepareRun(t)
      PROVE  IInv'
  <2>1. PICK written \in BOOLEAN :
          /\ ctl' = [ctl EXCEPT !.run = t, !.at = IF written THEN "announce" ELSE "reject"]
          /\ run' = [run EXCEPT ![t].req = ctl.req,
                                ![t].at = IF written THEN "launching" ELSE "dropped"]
    BY <1>3 DEF PrepareRun
  <2>2. UNCHANGED <<ctlInbox, accepted>> /\ ctl.at = "prepare" /\ run[t].at = "unused"
    BY <1>3 DEF PrepareRun
  <2>3. ControlType'
    BY <1>0, <2>1, <2>2 DEF ControlType
  <2>4. \A u \in Runs : Live(u)' => Live(u) /\ u # t
    BY <1>0, <2>1, <2>2 DEF ControlType, Live
  <2>5. \A u \in Runs : u # t => run'[u] = run[u]
    BY <1>0, <2>1 DEF ControlType
  <2>6. \A u \in Runs : Live(u)' => accepted'[run'[u].req] = u
    BY <1>0, <2>2, <2>4, <2>5 DEF MapInv
  <2>7. /\ ctl'.req = ctl.req /\ ctl'.run = t
        /\ ctl'.at = IF written THEN "announce" ELSE "reject"
    BY <1>0, <2>1 DEF ControlType
  <2>8. run'[t].req = ctl.req /\ (written => run'[t].at = "launching")
    BY <1>0, <2>1 DEF ControlType
  <2>9. accepted[ctl.req] = NoRun
    BY <1>0, <2>2 DEF MapInv
  <2>10. MapInv'
    BY <2>2, <2>6, <2>7, <2>8, <2>9 DEF MapInv
  <2> QED  BY <2>3, <2>10 DEF IInv
<1>4. CASE RecordFailedStart
  <2>1. /\ ctl.at = "failstart" /\ ctl' = [ctl EXCEPT !.at = "reject"]
        /\ run' = [run EXCEPT ![ctl.run].at = "dropped"]
        /\ UNCHANGED <<ctlInbox, accepted>>
    BY <1>4 DEF RecordFailedStart, Step
  <2>2. ControlType'
    BY <1>0, <2>1 DEF ControlType
  <2>3. \A u \in Runs : (Live(u)' => Live(u)) /\ run'[u].req = run[u].req
    BY <1>0, <2>1 DEF ControlType, Live
  <2>4. MapInv'
    BY <1>0, <2>1, <2>3 DEF MapInv, ControlType
  <2> QED  BY <2>2, <2>4 DEF IInv
<1>5. CASE InsertAcceptance
  <2>1. /\ ctl.at = "insert" /\ ctl' = [ctl EXCEPT !.at = "spawn"]
        /\ accepted' = [accepted EXCEPT ![ctl.req] = ctl.run]
        /\ UNCHANGED <<ctlInbox, run>>
    BY <1>5 DEF InsertAcceptance, Step
  <2>2. /\ ctl.run \in Runs /\ accepted[ctl.req] = NoRun
        /\ run[ctl.run].at = "launching" /\ run[ctl.run].req = ctl.req
    BY <1>0, <2>1 DEF MapInv
  <2>3. ControlType'
    BY <1>0, <2>1, <2>2 DEF ControlType
  <2>4. \A u \in Runs : Live(u) => run[u].req # ctl.req
    BY <1>0, <2>2, ZeroIsNoRun DEF MapInv
  <2>5. MapInv'
    BY <1>0, <2>1, <2>2, <2>4 DEF MapInv, ControlType, Live
  <2> QED  BY <2>3, <2>5 DEF IInv
<1>6. CASE SpawnRun
  <2>1. /\ ctl.at = "spawn" /\ ctl' = [ctl EXCEPT !.at = "idle"]
        /\ run' = [run EXCEPT ![ctl.run].at = "spawned"]
        /\ UNCHANGED <<ctlInbox, accepted>>
    BY <1>6 DEF SpawnRun, Step
  <2>2. ctl.run \in Runs /\ run[ctl.run].req = ctl.req /\ accepted[ctl.req] = ctl.run
    BY <1>0, <2>1 DEF MapInv
  <2>3. ControlType'
    BY <1>0, <2>1 DEF ControlType, LiveStates
  <2>4. \A u \in Runs : /\ run'[u].req = run[u].req
                        /\ u # ctl.run => run'[u] = run[u]
    BY <1>0, <2>1 DEF ControlType
  <2>5. \A u \in Runs : Live(u)' => accepted'[run'[u].req] = u
    BY <1>0, <2>1, <2>2, <2>4 DEF MapInv, Live
  <2>6. ctl'.at = "idle"
    BY <1>0, <2>1 DEF ControlType
  <2>7. MapInv'
    BY <2>5, <2>6 DEF MapInv
  <2> QED  BY <2>3, <2>7 DEF IInv
<1> QED  BY <1>1, <1>2, <1>3, <1>4, <1>5, <1>6 DEF ControlStep

LEMMA NextIInv == IInv /\ [Next]_vars => IInv'
<1> SUFFICES ASSUME IInv, [Next]_vars PROVE IInv'
  OBVIOUS
<1>1. CASE UNCHANGED vars
  BY <1>1, Elsewhere DEF vars, daemonVars, IInv, ControlType
<1>2. CASE Next
  BY <1>2, ClientsKeep, DaemonKeeps, PumpKeeps, ControlKeeps DEF Next
<1> QED  BY <1>1, <1>2

-----------------------------------------------------------------------------
\* The accepted map mirrors the run tasks and the session being launched.
THEOREM MapMirrorsTasks == Spec => []MapInv
<1>1. IInv => MapInv
  BY DEF IInv
<1> QED  BY <1>1, InitIInv, NextIInv, PTL DEF Spec

\* However often a request is repeated and wherever the daemon stops, no two
\* tasks run it at once.
THEOREM OneTaskPerRequest == Spec => []OneRunPerRequest
<1>1. MapInv => OneRunPerRequest
  BY DEF MapInv, OneRunPerRequest
<1> QED  BY <1>1, MapMirrorsTasks, PTL

\* No request is refused, or announced as new, while a task executes it.
THEOREM NoRejectedTask == Spec => []RejectMeansNoRun
<1>1. IInv => RejectMeansNoRun
  <2> SUFFICES ASSUME IInv, NEW t \in Runs, Live(t),
                      ctl.at \in {"prepare", "announce", "failstart", "insert", "spawn", "reject"},
                      run[t].req = ctl.req
               PROVE  FALSE
    BY DEF RejectMeansNoRun
  <2>1. MapInv /\ accepted[ctl.req] = t
    BY DEF IInv, MapInv
  <2>2. CASE ctl.at = "spawn"
    BY <2>1, <2>2 DEF MapInv, Live
  <2>3. CASE ctl.at # "spawn"
    BY <2>1, <2>3, ZeroIsNoRun DEF MapInv
  <2> QED  BY <2>2, <2>3
<1> QED  BY <1>1, InitIInv, NextIInv, PTL DEF Spec

-----------------------------------------------------------------------------
(* The ledger of a run *)

Statuses == {"finished", "failed"}

\* What may have been recorded of a run by the time it is at some position.
Recorded(at) ==
    CASE at = "unused" -> {}
      [] at \in {"launching", "spawned", "running", "nodes"} -> {"started"}
      [] at = "trace" -> {"started", "nodes"}
      [] at = "finish" -> {"started", "nodes", "trace"}
      [] OTHER -> LedgerKinds

\* The status is written once the task is at "remove", unless that write failed; a
\* run that left the daemon earlier was refused by a failed write or stopped.
Entries(t) ==
    LET kinds == ToSet(ledger[t])
    IN  /\ ledger[t] \in Seq(LedgerKinds)
        /\ IsInjective(ledger[t])
        /\ kinds \subseteq Recorded(run[t].at)
        /\ ledger[t] # <<>> => ledger[t][1] = "started"
        /\ run[t].at \in LiveStates \cup {"launching"} => ledger[t] # <<>>
        /\ run[t].at \in {"unused", "launching", "spawned", "running"} => ~run[t].ok
        /\ "finished" \in kinds => run[t].ok
        /\ "failed" \in kinds => ~run[t].ok
        /\ run[t].at = "remove" /\ faults = 0 => kinds \cap Statuses # {}
        /\ run[t].at \in {"dropped", "gone"} /\ faults = 0 /\ stops = 0
              => kinds \cap Statuses # {}

LedgerInv == faults \in Nat /\ stops \in Nat /\ \A t \in Runs : Entries(t)

\* An entry of a kind the ledger of the run lacks keeps its entries distinct.
LEMMA AppendedEntry ==
  ASSUME NEW s \in Seq(LedgerKinds), IsInjective(s), NEW k \in LedgerKinds, k \notin ToSet(s)
  PROVE  /\ Append(s, k) \in Seq(LedgerKinds) /\ Append(s, k) # <<>>
         /\ IsInjective(Append(s, k))
         /\ ToSet(Append(s, k)) = ToSet(s) \cup {k}
         /\ Append(s, k)[1] = IF s = <<>> THEN k ELSE s[1]
<1> DEFINE a == Append(s, k)
<1>1. /\ a \in Seq(LedgerKinds) /\ Len(a) = Len(s) + 1 /\ Len(s) \in Nat
      /\ a[Len(s) + 1] = k /\ \A i \in 1 .. Len(s) : a[i] = s[i]
  OBVIOUS
<1>2. DOMAIN a = 1 .. Len(s) + 1 /\ DOMAIN s = 1 .. Len(s)
  BY <1>1
<1>3. \A i \in 1 .. Len(s) : s[i] # k
  BY <1>2 DEF ToSet
<1>4. IsInjective(a)
  BY <1>1, <1>2, <1>3 DEF IsInjective
<1>5. ToSet(a) = ToSet(s) \cup {k}
  BY <1>1, <1>2 DEF ToSet
<1>6. a # <<>> /\ a[1] = IF s = <<>> THEN k ELSE s[1]
  <2>1. CASE s = <<>>
    BY <2>1
  <2>2. CASE s # <<>>
    <3>1. Len(s) # 0
      BY <2>2
    <3>2. 1 \in 1 .. Len(s)
      BY <1>1, <3>1
    <3>3. a[1] = s[1]
      BY <1>1, <3>2
    <3>4. a # <<>>
      BY <1>1
    <3> QED  BY <2>2, <3>3, <3>4
  <2> QED  BY <2>1, <2>2
<1> HIDE DEF a
<1> QED  BY <1>1, <1>4, <1>5, <1>6 DEF a

\* Failures are counted, never taken back.
LEMMA Charged ==
  ASSUME faults \in Nat, NEW failed, Charge(failed)
  PROVE  faults' \in Nat /\ (faults' = 0 => faults = 0 /\ failed = {})
BY DEF Charge

\* A run that does not move keeps its entries as they should be.
LEMMA EntriesStay ==
  ASSUME NEW t \in Runs, Entries(t), ledger'[t] = ledger[t],
         run'[t].at = run[t].at, run'[t].ok = run[t].ok,
         faults' = 0 => faults = 0, stops' = 0 => stops = 0
  PROVE  Entries(t)'
BY DEF Entries, LedgerKinds, LiveStates, Recorded, Statuses

\* Steps that record nothing and move no run on.
LEMMA QuietSteps ==
  ASSUME LedgerInv, UNCHANGED <<ledger, stops>>, faults' \in Nat, faults' = 0 => faults = 0,
         \A t \in Runs : run'[t].at = run[t].at /\ run'[t].ok = run[t].ok
  PROVE  LedgerInv'
<1>1. ASSUME NEW t \in Runs PROVE Entries(t)'
  BY EntriesStay DEF LedgerInv
<1> QED  BY <1>1 DEF LedgerInv

\* A step of one run that records nothing or one more kind of entry.
LEMMA OneRunMoves ==
  ASSUME LedgerInv, NEW t \in Runs, UNCHANGED stops,
         faults' \in Nat, faults' = 0 => faults = 0,
         \A u \in Runs \ {t} : run'[u] = run[u] /\ ledger'[u] = ledger[u],
         Entries(t)'
  PROVE  LedgerInv'
<1>1. ASSUME NEW u \in Runs \ {t} PROVE Entries(u)'
  BY EntriesStay DEF LedgerInv
<1> QED  BY <1>1 DEF LedgerInv

LEMMA RecordsOne ==
  ASSUME LedgerInv, NEW t \in Runs, NEW kind \in LedgerKinds, NEW written \in BOOLEAN,
         Records(t, kind, written), ledger \in [Runs -> Seq(LedgerKinds)]
  PROVE  /\ faults' \in Nat /\ (faults' = 0 => faults = 0 /\ written)
         /\ ledger' \in [Runs -> Seq(LedgerKinds)]
         /\ ledger'[t] = IF written THEN Append(ledger[t], kind) ELSE ledger[t]
         /\ \A u \in Runs \ {t} : ledger'[u] = ledger[u]
<1>1. faults' \in Nat /\ (faults' = 0 => faults = 0 /\ written)
  BY Charged DEF Records, LedgerInv
<1>2. Append(ledger[t], kind) \in Seq(LedgerKinds)
  OBVIOUS
<1> QED  BY <1>1, <1>2 DEF Records

-----------------------------------------------------------------------------
LEMMA PublishesCharge ==
  ASSUME faults \in Nat, NEW x, NEW y, NEW failed,
         PublishRequest(x, y, failed) \/ PublishResponse(x, y, failed) \/ PublishEvent(x, y, failed)
  PROVE  faults' \in Nat /\ (faults' = 0 => faults = 0)
BY Charged DEF PublishRequest, PublishResponse, PublishEvent

LEMMA ClientsKeepLedger ==
  ASSUME LedgerInv, NEW c \in Clients,
         Connect(c) \/ ClientStep(c) \/ AcceptTimeout(c) \/ Resend(c)
  PROVE  LedgerInv'
<1>1. UNCHANGED <<run, ledger, stops>>
  BY DEF Connect, ClientStep, AcceptTimeout, Resend, Submit, Retry, ReadResponse,
         SubscribeEvents, ReadEvent, StreamEnds, ClientOnly
<1>2. faults \in Nat
  BY DEF LedgerInv
<1>3. faults' \in Nat /\ (faults' = 0 => faults = 0)
  <2>1. CASE Submit(c) \/ Retry(c)
    BY <1>2, <2>1, PublishesCharge DEF Submit, Retry
  <2>2. CASE Resend(c)
    BY <1>2, <2>2, PublishesCharge DEF Resend
  <2>3. CASE Connect(c) \/ ReadResponse(c) \/ AcceptTimeout(c) \/ SubscribeEvents(c)
             \/ ReadEvent(c) \/ StreamEnds(c)
    BY <1>2, <2>3 DEF Connect, ReadResponse, AcceptTimeout, SubscribeEvents, ReadEvent,
                      StreamEnds, Quiet
  <2> QED  BY <2>1, <2>2, <2>3 DEF ClientStep
<1> QED  BY <1>1, <1>3, QuietSteps

\* The control loop writes "started" before it announces a run, and the status of a
\* run it failed to announce.
LEMMA ControlKeepsLedger ==
  ASSUME IInv, LedgerInv, ledger \in [Runs -> Seq(LedgerKinds)], ControlStep
  PROVE  LedgerInv'
<1>0. ControlType /\ MapInv /\ faults \in Nat
  BY DEF IInv, LedgerInv
<1>1. CASE TakeRequest \/ RefuseSession \/ InsertAcceptance
  BY <1>0, <1>1, QuietSteps DEF TakeRequest, RefuseSession, InsertAcceptance
<1>2. CASE ResendAcceptance \/ AnnounceRun \/ RejectRun
  <2>1. faults' \in Nat /\ (faults' = 0 => faults = 0)
    BY <1>0, <1>2, PublishesCharge DEF ResendAcceptance, AnnounceRun, RejectRun
  <2> QED  BY <1>2, <2>1, QuietSteps DEF ResendAcceptance, AnnounceRun, RejectRun
<1>3. ASSUME NEW t \in Runs, PrepareRun(t)
      PROVE  LedgerInv'
  <2>1. PICK written \in BOOLEAN :
          /\ Records(t, "started", written)
          /\ run' = [run EXCEPT ![t].req = ctl.req,
                                ![t].at = IF written THEN "launching" ELSE "dropped"]
    BY <1>3 DEF PrepareRun
  <2>2. run[t].at = "unused" /\ UNCHANGED stops
    BY <1>3 DEF PrepareRun
  <2>3. ledger[t] = <<>> /\ ~run[t].ok /\ ToSet(ledger[t]) = {} /\ IsInjective(ledger[t])
    BY <2>2 DEF LedgerInv, Entries, Recorded, ToSet
  <2>4. /\ faults' \in Nat /\ (faults' = 0 => faults = 0 /\ written)
        /\ ledger'[t] = IF written THEN Append(ledger[t], "started") ELSE ledger[t]
        /\ \A u \in Runs \ {t} : ledger'[u] = ledger[u]
    BY <2>1, RecordsOne DEF LedgerKinds
  <2>5. /\ run'[t].at = (IF written THEN "launching" ELSE "dropped") /\ run'[t].ok = run[t].ok
        /\ \A u \in Runs \ {t} : run'[u] = run[u]
    BY <1>0, <2>1 DEF ControlType
  <2>6. Entries(t)'
    <3>1. CASE written
      <4>0. "started" \in LedgerKinds /\ "started" \notin ToSet(ledger[t])
            /\ ledger[t] \in Seq(LedgerKinds) /\ IsInjective(ledger[t])
        BY <2>3 DEF LedgerKinds
      <4>3. PICK a : /\ a = Append(ledger[t], "started") /\ a # <<>>
                     /\ a \in Seq(LedgerKinds) /\ IsInjective(a)
                     /\ ToSet(a) = ToSet(ledger[t]) \cup {"started"}
                     /\ a[1] = IF ledger[t] = <<>> THEN "started" ELSE ledger[t][1]
        BY <4>0, AppendedEntry
      <4>1. /\ ledger'[t] = Append(ledger[t], "started") /\ ledger'[t] # <<>>
            /\ ledger'[t] \in Seq(LedgerKinds) /\ IsInjective(ledger'[t])
            /\ ToSet(ledger'[t]) = {"started"} /\ ledger'[t][1] = "started"
        BY <2>3, <2>4, <3>1, <4>3
      <4>2. run'[t].at = "launching" /\ ~run'[t].ok
        BY <2>3, <2>5, <3>1
      <4> QED  BY <4>1, <4>2 DEF Entries, Recorded, LiveStates
    <3>2. CASE ~written
      BY <2>3, <2>4, <2>5, <3>2 DEF Entries, Recorded, LedgerInv, LiveStates
    <3> QED  BY <3>1, <3>2
  <2> QED  BY <2>2, <2>4, <2>5, <2>6, OneRunMoves
<1>4. CASE RecordFailedStart
  <2>0. PICK t \in Runs : t = ctl.run /\ run[t].at = "launching"
    BY <1>0, <1>4 DEF MapInv, RecordFailedStart, Step
  <2>1. PICK written \in BOOLEAN : Records(t, "failed", written)
    BY <1>4, <2>0 DEF RecordFailedStart
  <2>2. run' = [run EXCEPT ![t].at = "dropped"] /\ UNCHANGED stops
    BY <1>4, <2>0 DEF RecordFailedStart
  <2>3. run[t].at = "launching"
    BY <2>0
  <2>4. /\ ToSet(ledger[t]) \subseteq {"started"} /\ ~run[t].ok /\ IsInjective(ledger[t])
        /\ ledger[t] # <<>> /\ ledger[t][1] = "started"
    BY <2>3 DEF LedgerInv, Entries, Recorded
  <2>5. /\ faults' \in Nat /\ (faults' = 0 => faults = 0 /\ written)
        /\ ledger'[t] = IF written THEN Append(ledger[t], "failed") ELSE ledger[t]
        /\ \A u \in Runs \ {t} : ledger'[u] = ledger[u]
    BY <2>1, <2>3, RecordsOne DEF LedgerKinds
  <2>6. /\ run'[t].at = "dropped" /\ run'[t].ok = run[t].ok
        /\ \A u \in Runs \ {t} : run'[u] = run[u]
    BY <1>0, <2>2, <2>3 DEF ControlType
  <2>7. Entries(t)'
    <3>1. CASE written
      <4>1. /\ ledger'[t] # <<>> /\ ledger'[t] \in Seq(LedgerKinds) /\ IsInjective(ledger'[t])
            /\ ToSet(ledger'[t]) = ToSet(ledger[t]) \cup {"failed"} /\ ledger'[t][1] = "started"
        BY <2>3, <2>4, <2>5, <3>1, AppendedEntry DEF LedgerKinds
      <4>2. ToSet(ledger'[t]) \subseteq LedgerKinds /\ "failed" \in ToSet(ledger'[t])
            /\ "finished" \notin ToSet(ledger'[t])
        BY <2>4, <4>1 DEF LedgerKinds
      <4> QED  BY <2>4, <2>6, <4>1, <4>2 DEF Entries, Recorded, LiveStates, Statuses
    <3>2. CASE ~written
      <4>1. ToSet(ledger[t]) \subseteq LedgerKinds /\ ledger[t] \in Seq(LedgerKinds)
        BY <2>3, <2>4 DEF LedgerKinds
      <4> QED  BY <2>4, <2>5, <2>6, <3>2, <4>1 DEF Entries, Recorded, LiveStates
    <3> QED  BY <3>1, <3>2
  <2> QED  BY <2>2, <2>3, <2>5, <2>6, <2>7, OneRunMoves
<1>5. CASE SpawnRun
  <2>2. PICK t \in Runs : t = ctl.run /\ run[t].at = "launching"
    BY <1>0, <1>5 DEF MapInv, SpawnRun, Step
  <2>1. run' = [run EXCEPT ![t].at = "spawned"] /\ UNCHANGED <<ledger, stops, faults>>
    BY <1>5, <2>2 DEF SpawnRun
  <2>3. /\ run'[t].at = "spawned" /\ run'[t].ok = run[t].ok
        /\ \A u \in Runs \ {t} : run'[u] = run[u]
    BY <1>0, <2>1, <2>2 DEF ControlType
  <2>4. Entries(t)
    BY <2>2 DEF LedgerInv
  <2>5. Entries(t)'
    BY <2>1, <2>2, <2>3, <2>4 DEF Entries, Recorded, LiveStates
  <2> QED  BY <1>0, <2>1, <2>2, <2>3, <2>5, OneRunMoves
<1> QED  BY <1>1, <1>2, <1>3, <1>4, <1>5 DEF ControlStep

-----------------------------------------------------------------------------
\* One of the three writes that end a run: whether it succeeds or not, the entries
\* are those of the next position.
LEMMA RecordKeepsLedger ==
  ASSUME ControlType, LedgerInv, ledger \in [Runs -> Seq(LedgerKinds)], NEW t \in Runs,
         NEW from, NEW to, NEW kind, Record(t, from, to, kind),
         <<from, to, kind>> \in {<<"nodes", "trace", "nodes">>, <<"trace", "finish", "trace">>,
                                <<"finish", "remove", IF run[t].ok THEN "finished" ELSE "failed">>}
  PROVE  LedgerInv'
<1>1. PICK written \in BOOLEAN : Records(t, kind, written)
  BY DEF Record
<1>2. run[t].at = from /\ run' = [run EXCEPT ![t].at = to]
  BY DEF Record, RunStep
<1>3. UNCHANGED stops
  BY DEF Record, RunStep
<1>4. kind \in LedgerKinds
  BY DEF LedgerKinds
<1>5. /\ faults' \in Nat /\ (faults' = 0 => faults = 0 /\ written)
      /\ ledger'[t] = IF written THEN Append(ledger[t], kind) ELSE ledger[t]
      /\ \A u \in Runs \ {t} : ledger'[u] = ledger[u]
  BY <1>1, <1>4, RecordsOne
<1>6. /\ run'[t].at = to /\ run'[t].ok = run[t].ok
      /\ \A u \in Runs \ {t} : run'[u] = run[u]
  BY <1>2 DEF ControlType
<1>7. /\ IsInjective(ledger[t]) /\ ToSet(ledger[t]) \subseteq Recorded(from)
      /\ ledger[t] # <<>> /\ ledger[t][1] = "started" /\ ledger[t] \in Seq(LedgerKinds)
  <2>1. from \in LiveStates
    BY DEF LiveStates
  <2> QED  BY <1>2, <2>1 DEF LedgerInv, Entries
<1>8. /\ Recorded("nodes") = {"started"} /\ Recorded("trace") = {"started", "nodes"}
      /\ Recorded("finish") = {"started", "nodes", "trace"} /\ Recorded("remove") = LedgerKinds
  BY DEF Recorded
<1>9. kind \notin ToSet(ledger[t]) /\ ToSet(ledger[t]) \cup {kind} \subseteq Recorded(to)
  BY <1>7, <1>8 DEF LedgerKinds
<1>10. /\ "finished" \in ToSet(ledger[t]) \cup {kind} => run[t].ok
       /\ "failed" \in ToSet(ledger[t]) \cup {kind} => ~run[t].ok
       /\ to = "remove" => kind \in Statuses
       /\ to \in {"trace", "finish", "remove"}
  BY <1>7, <1>8 DEF Statuses
<1>11. /\ ledger'[t] # <<>> /\ ledger'[t] \in Seq(LedgerKinds) /\ IsInjective(ledger'[t])
       /\ ToSet(ledger'[t]) \subseteq ToSet(ledger[t]) \cup {kind} /\ ledger'[t][1] = "started"
       /\ written => kind \in ToSet(ledger'[t])
  <2>1. CASE written
    BY <1>4, <1>5, <1>7, <1>9, <2>1, AppendedEntry
  <2>2. CASE ~written
    BY <1>5, <1>7, <2>2
  <2> QED  BY <2>1, <2>2
<1>12. Entries(t)'
  BY <1>5, <1>6, <1>9, <1>10, <1>11 DEF Entries, LiveStates
<1> QED  BY <1>3, <1>5, <1>6, <1>12, OneRunMoves

LEMMA PumpKeepsLedger ==
  ASSUME ControlType, LedgerInv, ledger \in [Runs -> Seq(LedgerKinds)], NEW t \in Runs, PumpStep(t)
  PROVE  LedgerInv'
<1>0. faults \in Nat /\ Entries(t)
  BY DEF LedgerInv
<1>1. CASE StreamEvent(t)
  <2>1. run' = [run EXCEPT ![t].events = @ + 1] /\ UNCHANGED <<ledger, stops>>
    BY <1>1 DEF StreamEvent
  <2>2. faults' \in Nat /\ (faults' = 0 => faults = 0)
    BY <1>0, <1>1, PublishesCharge DEF StreamEvent
  <2>3. \A u \in Runs : run'[u].at = run[u].at /\ run'[u].ok = run[u].ok
    BY <2>1 DEF ControlType
  <2> QED  BY <2>1, <2>2, <2>3, QuietSteps
<1>2. CASE StreamStarted(t) \/ StreamFinal(t)
  <2>1. faults' \in Nat /\ (faults' = 0 => faults = 0)
    BY <1>0, <1>2, PublishesCharge DEF StreamStarted, StreamFinal
  <2>2. UNCHANGED <<ledger, stops>>
    BY <1>2 DEF StreamStarted, StreamFinal, RunStep
  <2>3. PICK ok \in BOOLEAN, to \in {"running", "nodes"} :
          /\ run[t].at \in {"spawned", "running"}
          /\ to = "running" => run' = [run EXCEPT ![t].at = to]
          /\ to = "nodes" => run' = [run EXCEPT ![t].at = to, ![t].ok = ok]
    BY <1>2 DEF StreamStarted, StreamFinal, RunStep
  <2>4. /\ run'[t].at = to /\ (to = "running" => run'[t].ok = run[t].ok)
        /\ \A u \in Runs \ {t} : run'[u] = run[u]
    BY <2>3 DEF ControlType
  <2>5. ToSet(ledger[t]) \subseteq {"started"} /\ ~run[t].ok /\ ledger[t] # <<>>
    BY <1>0, <2>3 DEF Entries, Recorded, LiveStates
  <2>6. Entries(t)'
    BY <1>0, <2>2, <2>4, <2>5 DEF Entries, Recorded, LiveStates
  <2> QED  BY <2>1, <2>2, <2>4, <2>6, OneRunMoves
<1>3. CASE RecordNodes(t) \/ RecordTrace(t) \/ RecordFinished(t)
  BY <1>3, RecordKeepsLedger DEF RecordNodes, RecordTrace, RecordFinished
<1>4. CASE RemoveAccepted(t)
  <2>1. run[t].at = "remove" /\ run' = [run EXCEPT ![t].at = "gone"] /\ UNCHANGED <<ledger, stops, faults>>
    BY <1>4 DEF RemoveAccepted, RunStep
  <2>2. /\ run'[t].at = "gone" /\ run'[t].ok = run[t].ok
        /\ \A u \in Runs \ {t} : run'[u] = run[u]
    BY <2>1 DEF ControlType
  <2>3. Entries(t)'
    BY <1>0, <2>1, <2>2 DEF Entries, Recorded, LiveStates
  <2> QED  BY <1>0, <2>1, <2>2, <2>3, OneRunMoves
<1> QED  BY <1>1, <1>2, <1>3, <1>4 DEF PumpStep

LEMMA StopKeepsLedger ==
  ASSUME ControlType, LedgerInv, StopDaemon
  PROVE  LedgerInv'
<1>1. UNCHANGED <<ledger, faults>> /\ stops' = stops + 1 /\ stops \in Nat
  BY DEF StopDaemon, LedgerInv
<1>2. ASSUME NEW t \in Runs PROVE Entries(t)'
  <2>1. run'[t] = [run[t] EXCEPT !.at = IF Live(t) THEN "gone"
                                        ELSE IF @ = "launching" THEN "dropped" ELSE @]
    BY DEF StopDaemon
  <2>2. run'[t].ok = run[t].ok
        /\ run'[t].at = IF Live(t) THEN "gone" ELSE IF run[t].at = "launching" THEN "dropped"
                        ELSE run[t].at
    BY <2>1 DEF ControlType
  <2>3. Entries(t) /\ stops' # 0
    BY <1>1 DEF LedgerInv
  <2>4. CASE run'[t].at \in {"gone", "dropped"}
    <3>1. ToSet(ledger[t]) \subseteq LedgerKinds
      BY <2>3 DEF Entries, ToSet
    <3> QED  BY <1>1, <2>2, <2>3, <2>4, <3>1 DEF Entries, Recorded, LiveStates
  <2>5. CASE run'[t].at = run[t].at
    BY <1>1, <2>2, <2>3, <2>5, EntriesStay
  <2> QED  BY <2>2, <2>4, <2>5
<1> QED  BY <1>1, <1>2 DEF LedgerInv

LEMMA NextLedgerInv ==
  IInv /\ LedgerInv /\ ledger \in [Runs -> Seq(LedgerKinds)] /\ [Next]_vars
    => LedgerInv' /\ ledger' \in [Runs -> Seq(LedgerKinds)]
<1> SUFFICES ASSUME IInv, LedgerInv, ledger \in [Runs -> Seq(LedgerKinds)], [Next]_vars
             PROVE  LedgerInv' /\ ledger' \in [Runs -> Seq(LedgerKinds)]
  OBVIOUS
<1>0. ControlType
  BY DEF IInv
<1>1. LedgerInv'
  <2>1. CASE UNCHANGED vars
    BY <2>1, QuietSteps DEF vars, LedgerInv
  <2>2. CASE StartDaemon \/ SubscribeCtrl \/ PublishOther
    BY <2>2, QuietSteps DEF StartDaemon, SubscribeCtrl, PublishOther, LedgerInv
  <2> QED  BY <1>0, <2>1, <2>2, ClientsKeepLedger, ControlKeepsLedger, PumpKeepsLedger,
              StopKeepsLedger DEF Next
<1>2. ledger' \in [Runs -> Seq(LedgerKinds)]
  <2>1. UNCHANGED ledger \/ \E t, k : ledger' = [ledger EXCEPT ![t] = Append(@, k)]
    BY DEF Next, vars, daemonVars, StartDaemon, SubscribeCtrl, PublishOther, StopDaemon,
           ControlStep, TakeRequest, ResendAcceptance, RefuseSession, PrepareRun, AnnounceRun,
           RecordFailedStart, InsertAcceptance, SpawnRun, RejectRun, Records,
           PumpStep, StreamStarted, StreamEvent, StreamFinal, RecordNodes, RecordTrace,
           RecordFinished, RemoveAccepted, Record, RunStep, Connect, ClientStep, AcceptTimeout,
           Resend, Submit, Retry, ReadResponse, SubscribeEvents, ReadEvent, StreamEnds, ClientOnly
  <2>2. DOMAIN ledger' = Runs /\ ledger' = [t \in Runs |-> ledger'[t]]
    BY <2>1
  <2>3. \A t \in Runs : ledger'[t] \in Seq(LedgerKinds)
    BY <1>1 DEF LedgerInv, Entries
  <2> QED  BY <2>2, <2>3
<1> QED  BY <1>1, <1>2

LEMMA InitLedgerInv == Init => LedgerInv /\ ledger \in [Runs -> Seq(LedgerKinds)]
<1> SUFFICES ASSUME Init PROVE LedgerInv /\ ledger \in [Runs -> Seq(LedgerKinds)]
  OBVIOUS
<1>1. ASSUME NEW t \in Runs PROVE Entries(t)
  <2>1. ledger[t] = <<>> /\ run[t].at = "unused" /\ ~run[t].ok
    BY DEF Init
  <2>2. ToSet(<<>>) = {} /\ IsInjective(<<>>)
    BY DEF ToSet, IsInjective
  <2> QED  BY <2>1, <2>2 DEF Entries, Recorded, LiveStates
<1> QED  BY <1>1 DEF Init, LedgerInv

LEMMA LedgerInvariant == Spec => [](IInv /\ LedgerInv)
<1> DEFINE Kept == IInv /\ LedgerInv /\ ledger \in [Runs -> Seq(LedgerKinds)]
<1>1. Init => Kept
  BY InitIInv, InitLedgerInv
<1>2. Kept /\ [Next]_vars => Kept'
  BY NextIInv, NextLedgerInv
<1>3. Kept => IInv /\ LedgerInv
  OBVIOUS
<1> HIDE DEF Kept
<1> QED  BY <1>1, <1>2, <1>3, PTL DEF Spec

\* Whatever fails and wherever the daemon stops, the ledger holds "started" first and
\* nothing twice, no status but that of the run, and a status for every run that left
\* the daemon without a failed write or a stop.
THEOREM LedgerIsTruthful == Spec => []LedgerTellsTheRun
<1>1. LedgerInv => LedgerTellsTheRun
  <2> SUFFICES ASSUME LedgerInv, NEW t \in Runs
               PROVE  LET kinds == ToSet(ledger[t])
                      IN  /\ IsInjective(ledger[t])
                          /\ ledger[t] # <<>> => ledger[t][1] = "started"
                          /\ "finished" \in kinds => run[t].ok /\ "failed" \notin kinds
                          /\ "failed" \in kinds => ~run[t].ok
                          /\ run[t].at \in {"dropped", "gone"} /\ faults = 0 /\ stops = 0
                              => kinds \cap {"finished", "failed"} # {}
    BY DEF LedgerTellsTheRun
  <2> QED  BY DEF LedgerInv, Entries, Statuses
<1> QED  BY <1>1, LedgerInvariant, PTL

\* pump removes a request from the accepted map only after it wrote the status of its
\* run, so that a repeated request finds either the run or its end in the ledger.
THEOREM ForgetsOnlyTheRecorded == Spec => ForgottenOnlyWhenRecorded
<1>1. ASSUME IInv, LedgerInv, [Next]_vars, NEW c \in Clients,
             accepted[c] # NoRun, accepted'[c] # accepted[c],
             up' # "down", ~(faults > 0)
      PROVE  ToSet(ledger[accepted[c]]) \cap {"finished", "failed"} # {}
  <2>0. ControlType /\ MapInv /\ faults = 0
    BY <1>1 DEF IInv, LedgerInv
  <2>1. ASSUME NEW t \in Runs, RemoveAccepted(t)
        PROVE  ToSet(ledger[accepted[c]]) \cap {"finished", "failed"} # {}
    <3>1. run[t].at = "remove" /\ accepted' = [accepted EXCEPT ![run[t].req] = NoRun]
      BY <2>1 DEF RemoveAccepted, RunStep
    <3>2. c = run[t].req
      BY <1>1, <2>0, <3>1 DEF ControlType
    <3>3. accepted[c] = t
      BY <2>0, <3>1, <3>2 DEF MapInv, Live
    <3> QED  BY <1>1, <2>0, <3>1, <3>3 DEF LedgerInv, Entries, Statuses
  <2>2. ASSUME InsertAcceptance PROVE FALSE
    <3>1. ctl.at = "insert" /\ accepted' = [accepted EXCEPT ![ctl.req] = ctl.run]
      BY <2>2 DEF InsertAcceptance, Step
    <3>2. c = ctl.req /\ accepted[ctl.req] = NoRun
      BY <1>1, <2>0, <3>1 DEF ControlType, MapInv
    <3> QED  BY <1>1, <3>2
  <2>3. ASSUME UNCHANGED accepted PROVE FALSE
    BY <1>1, <2>3
  <2>4. ~StopDaemon
    BY <1>1 DEF StopDaemon
  <2> QED
    BY <1>1, <2>1, <2>2, <2>3, <2>4 DEF Next, vars, daemonVars, StartDaemon, SubscribeCtrl, PublishOther,
           ControlStep, TakeRequest, ResendAcceptance, RefuseSession, PrepareRun, AnnounceRun,
           RecordFailedStart, SpawnRun, RejectRun,
           PumpStep, StreamStarted, StreamEvent, StreamFinal, RecordNodes, RecordTrace,
           RecordFinished, Record, Connect, ClientStep, AcceptTimeout,
           Resend, Submit, Retry, ReadResponse, SubscribeEvents, ReadEvent, StreamEnds, ClientOnly
<1>2. IInv /\ LedgerInv /\ [Next]_vars =>
        [\A c \in Clients :
           LET t == accepted[c]
           IN  t # NoRun /\ accepted'[c] # t =>
                 \/ up' = "down"
                 \/ faults > 0
                 \/ ToSet(ledger[t]) \cap {"finished", "failed"} # {}]_vars
  BY <1>1
<1> QED  BY <1>2, LedgerInvariant, PTL DEF Spec, ForgottenOnlyWhenRecorded
=============================================================================
