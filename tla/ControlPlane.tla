---------------------------- MODULE ControlPlane ----------------------------
(***************************************************************************)
(* Run submission, from `rlp run` to the ledger: the client of             *)
(* crates/rlp/src/main.rs, the control loop of runloopd/src/control.rs,    *)
(* the launch and the run task of runloopd/src/engine.rs, and the ledger   *)
(* entries of kb/src/trace_store.rs, across a stop of the daemon.          *)
(*                                                                         *)
(* The bus is Bus.tla seen from outside: a publish reaches the subscribers *)
(* whose dedupe cache lacks its (trace_id, msg_id), except those it fails  *)
(* for, and returns Err as soon as it failed for one of them.  A frame is  *)
(* queued only where its reader does not skip it.  What the Runner does is *)
(* Runner.tla; here a run emits some events and ends, well or badly.       *)
(***************************************************************************)
EXTENDS Integers, Sequences, FiniteSets, SequencesExt

CONSTANTS
    Clients,    \* rlp processes; each submits one request, named like it
    FirstId,    \* [Clients -> 1 .. 2]: their message counter at the submit
    MaxId,      \* bound: a message id no other frame of its trace repeats
    MaxRuns,    \* bound: trace ids given to runs
    MaxEvents,  \* bound: node events of one run
    MaxFaults,  \* bound: publishes that fail and ledger writes that fail
    MaxResends, \* bound: requests sent again under a new message id
    MaxStops    \* bound: crashes or shutdowns of the daemon

Runs == 1 .. MaxRuns
NoRun == 0

ASSUME ControlPlaneAssumption ==
    /\ Clients # {}
    /\ MaxId \in Nat \ {0} /\ MaxRuns \in Nat \ {0}
    /\ FirstId \in [Clients -> 1 .. MaxId]
    /\ MaxEvents \in Nat /\ MaxFaults \in Nat
    /\ MaxResends \in Nat /\ MaxStops \in Nat

VARIABLES
    up,         \* "down", "serving" (bus only) or "ready" (rlp/ctrl subscribed)
    ctl,        \* where the control loop is, for which request and run
    ctlInbox,   \* requests in its rlp/ctrl subscription
    ctlSeen,    \* the dedupe cache of that subscription
    accepted,   \* accepted_map: the run accepted for a request, or NoRun
    nextId,     \* the daemon's next_msg_id counter, MaxId when past every client
    run,        \* each run task: its request, position, events so far, outcome
    ledger,     \* the ledger events of each trace, in order
    client,     \* each client: position, message id, accepted run, outcome
    inbox,      \* responses in its rlp/ctrl subscription
    clientSeen, \* message ids of its trace in that subscription's dedupe cache
    stream,     \* statuses in its subscription to the run's event topic
    faults, resends, stops,
    \* History variable, read by no action.
    missed      \* clients for which the publish of the final status failed

daemonVars == <<up, ctl, ctlInbox, ctlSeen, accepted, nextId>>
clientVars == <<client, inbox, clientSeen, stream, missed>>
vars == <<daemonVars, run, ledger, clientVars, faults, resends, stops>>

-----------------------------------------------------------------------------
Idle == [at |-> "idle", req |-> CHOOSE c \in Clients : TRUE, run |-> NoRun]

\* A run whose task exists: spawned and still to leave the accepted map.
Live(t) == run[t].at \in {"spawned", "running", "nodes", "trace", "finish", "remove"}

At(c) == client[c].at
OnCtrl(c) == up # "down" /\ client[c].conn
                /\ At(c) \in {"submit", "retry", "wait", "subscribe", "stream"}

Bump(i) == IF i < MaxId THEN i + 1 ELSE MaxId

Goes(c, at) == client' = [client EXCEPT ![c].at = at]
Ends(c, outcome) ==
    client' = [client EXCEPT ![c].at = "done", ![c].outcome = outcome]

\* The parties a publish may fail for are charged to MaxFaults.
Charge(failed) ==
    /\ failed = {} \/ faults < MaxFaults
    /\ faults' = IF failed = {} THEN faults ELSE faults + 1

\* A ledger write, which a KB error may void: the append happens or it does not.
Records(t, kind, written) ==
    /\ Charge(IF written THEN {} ELSE {"kb"})
    /\ ledger' = IF written THEN [ledger EXCEPT ![t] = Append(@, kind)] ELSE ledger

(* Publishing on rlp/ctrl.  "other" stands for every other subscriber. *)

\* A request: the daemon queues it, the client's own subscription skips it but
\* its dedupe cache keeps the key.
PublishRequest(c, id, failed) ==
    /\ Charge(failed)
    /\ IF up = "ready" /\ "daemon" \notin failed /\ <<c, id>> \notin ctlSeen
       THEN /\ ctlInbox' = Append(ctlInbox, c)
            /\ ctlSeen' = ctlSeen \cup {<<c, id>>}
       ELSE UNCHANGED <<ctlInbox, ctlSeen>>
    /\ clientSeen' = IF "client" \in failed THEN clientSeen
                     ELSE [clientSeen EXCEPT ![c] = @ \cup {id}]

\* A response: only the client whose trace it carries queues it.
PublishResponse(c, response, failed) ==
    /\ Charge(failed)
    /\ nextId' = Bump(nextId)
    /\ IF \/ ~OnCtrl(c) \/ "client" \in failed
          \/ nextId < MaxId /\ nextId \in clientSeen[c]
       THEN UNCHANGED <<inbox, clientSeen>>
       ELSE /\ inbox' = [inbox EXCEPT ![c] = Append(@, response)]
            /\ clientSeen' = [clientSeen EXCEPT ![c] = @ \cup ({nextId} \ {MaxId})]

\* The client subscribed to the events of run t.
Watches(c, t) == At(c) = "stream" /\ client[c].conn /\ client[c].run = t

\* An event of run t; "final" is the only one that ends the client's loop.
PublishEvent(t, event, failed) ==
    /\ Charge(failed)
    /\ nextId' = Bump(nextId)
    /\ stream' = [c \in Clients |->
                    IF Watches(c, t) /\ failed = {} THEN Append(stream[c], event)
                    ELSE stream[c]]

-----------------------------------------------------------------------------
Init ==
    /\ up = "down"
    /\ ctl = Idle
    /\ ctlInbox = <<>>
    /\ ctlSeen = {}
    /\ accepted = [c \in Clients |-> NoRun]
    /\ nextId = 1
    /\ run = [t \in Runs |-> [at |-> "unused", req |-> Idle.req, events |-> 0, ok |-> FALSE]]
    /\ ledger = [t \in Runs |-> <<>>]
    /\ client = [c \in Clients |-> [at |-> "connect", conn |-> FALSE, id |-> FirstId[c],
                                    run |-> NoRun, outcome |-> "none"]]
    /\ inbox = [c \in Clients |-> <<>>]
    /\ clientSeen = [c \in Clients |-> {}]
    /\ stream = [c \in Clients |-> <<>>]
    /\ faults = 0 /\ resends = 0 /\ stops = 0
    /\ missed = {}

-----------------------------------------------------------------------------
(* The daemon process *)

\* main: the bus serves its socket before the control loop has subscribed.
StartDaemon ==
    /\ up = "down"
    /\ up' = "serving"
    /\ nextId' = 1
    /\ UNCHANGED <<ctl, ctlInbox, ctlSeen, accepted, run, ledger, clientVars,
                   faults, resends, stops>>

SubscribeCtrl ==
    /\ up = "serving"
    /\ up' = "ready"
    /\ UNCHANGED <<ctl, ctlInbox, ctlSeen, accepted, nextId, run, ledger, clientVars,
                   faults, resends, stops>>

\* The metrics task and the other control requests only use up a message id.
PublishOther ==
    /\ up # "down"
    /\ nextId < MaxId
    /\ nextId' = nextId + 1
    /\ UNCHANGED <<up, ctl, ctlInbox, ctlSeen, accepted, run, ledger, clientVars,
                   faults, resends, stops>>

\* A crash, or Ctrl+C: run tasks are detached, so they die with the runtime.
StopDaemon ==
    /\ up # "down"
    /\ stops < MaxStops
    /\ stops' = stops + 1
    /\ up' = "down"
    /\ ctl' = Idle
    /\ ctlInbox' = <<>>
    /\ ctlSeen' = {}
    /\ accepted' = [c \in Clients |-> NoRun]
    /\ run' = [t \in Runs |->
                 [run[t] EXCEPT !.at = IF Live(t) THEN "gone"
                                       ELSE IF @ = "launching" THEN "dropped" ELSE @]]
    /\ client' = [c \in Clients |-> [client[c] EXCEPT !.conn = FALSE]]
    /\ UNCHANGED <<nextId, ledger, inbox, clientSeen, stream, faults, resends,
                   missed>>

-----------------------------------------------------------------------------
(* The control loop: one request at a time *)

Step(from, to) == up = "ready" /\ ctl.at = from /\ ctl' = [ctl EXCEPT !.at = to]

\* Mutant: a repeated request is launched again.
TakeAndForget ==
    /\ up = "ready" /\ ctl.at = "idle" /\ ctlInbox # <<>>
    /\ ctl' = [at |-> "prepare", req |-> Head(ctlInbox), run |-> NoRun]
    /\ ctlInbox' = Tail(ctlInbox)
    /\ UNCHANGED <<up, ctlSeen, accepted, nextId, run, ledger, clientVars,
                   faults, resends, stops>>

\* inbox.next() and the look-up of the request in the accepted map.
TakeRequest ==
    /\ up = "ready" /\ ctl.at = "idle" /\ ctlInbox # <<>>
    /\ LET c == Head(ctlInbox)
       IN  ctl' = [at |-> IF accepted[c] # NoRun THEN "resend" ELSE "prepare",
                   req |-> c, run |-> accepted[c]]
    /\ ctlInbox' = Tail(ctlInbox)
    /\ UNCHANGED <<up, ctlSeen, accepted, nextId, run, ledger, clientVars,
                   faults, resends, stops>>

\* A known request: its acceptance again; whether the publish works is ignored.
ResendAcceptance ==
    /\ Step("resend", "idle")
    /\ \E failed \in SUBSET {"client", "other"} :
         PublishResponse(ctl.req, [kind |-> "accepted", run |-> ctl.run], failed)
    /\ UNCHANGED <<up, ctlInbox, ctlSeen, accepted, run, ledger, client, stream, missed,
                   resends, stops>>

\* prepare_session refuses the opening or its agent digests.
RefuseSession ==
    /\ Step("prepare", "reject")
    /\ UNCHANGED <<up, ctlInbox, ctlSeen, accepted, nextId, run, ledger, clientVars,
                   faults, resends, stops>>

\* prepare_session draws a fresh trace id; record_started.
PrepareRun(t) ==
    /\ up = "ready" /\ ctl.at = "prepare"
    /\ run[t].at = "unused" /\ \A u \in 1 .. (t - 1) : run[u].at # "unused"
    /\ \E written \in BOOLEAN :
         /\ Records(t, "started", written)
         /\ ctl' = [ctl EXCEPT !.run = t, !.at = IF written THEN "announce" ELSE "reject"]
         /\ run' = [run EXCEPT ![t].req = ctl.req,
                               ![t].at = IF written THEN "launching" ELSE "dropped"]
    /\ UNCHANGED <<up, ctlInbox, ctlSeen, accepted, nextId, clientVars, resends, stops>>

\* accept_request: one failed delivery, to anyone, fails it.
AnnounceRun ==
    /\ \E failed \in SUBSET {"client", "other"} :
         /\ PublishResponse(ctl.req, [kind |-> "accepted", run |-> ctl.run], failed)
         /\ Step("announce", IF failed = {} THEN "insert" ELSE "failstart")
    /\ UNCHANGED <<up, ctlInbox, ctlSeen, accepted, run, ledger, client, stream, missed,
                   resends, stops>>

\* record_failed_start; the session is dropped.
RecordFailedStart ==
    /\ Step("failstart", "reject")
    /\ \E written \in BOOLEAN : Records(ctl.run, "failed", written)
    /\ run' = [run EXCEPT ![ctl.run].at = "dropped"]
    /\ UNCHANGED <<up, ctlInbox, ctlSeen, accepted, nextId, clientVars, resends, stops>>

InsertAcceptance ==
    /\ Step("insert", "spawn")
    /\ accepted' = [accepted EXCEPT ![ctl.req] = ctl.run]
    /\ UNCHANGED <<up, ctlInbox, ctlSeen, nextId, run, ledger, clientVars,
                   faults, resends, stops>>

\* Mutant: the session is dropped instead of being driven.
SpawnNothing ==
    /\ Step("spawn", "idle")
    /\ UNCHANGED <<up, ctlInbox, ctlSeen, accepted, nextId, run, ledger, clientVars,
                   faults, resends, stops>>

SpawnRun ==
    /\ Step("spawn", "idle")
    /\ run' = [run EXCEPT ![ctl.run].at = "spawned"]
    /\ UNCHANGED <<up, ctlInbox, ctlSeen, accepted, nextId, ledger, clientVars,
                   faults, resends, stops>>

RejectRun ==
    /\ Step("reject", "idle")
    /\ \E failed \in SUBSET {"client", "other"} :
         PublishResponse(ctl.req, [kind |-> "rejected", run |-> NoRun], failed)
    /\ UNCHANGED <<up, ctlInbox, ctlSeen, accepted, run, ledger, client, stream, missed,
                   resends, stops>>

ControlStep ==
    \/ TakeRequest \/ ResendAcceptance \/ RefuseSession
    \/ \E t \in Runs : PrepareRun(t)
    \/ AnnounceRun \/ RecordFailedStart \/ InsertAcceptance \/ SpawnRun \/ RejectRun

-----------------------------------------------------------------------------
(* RunStreamer::pump, one task per run *)

RunStep(t, from, to) ==
    /\ run[t].at = from
    /\ run' = [run EXCEPT ![t].at = to]
    /\ UNCHANGED <<up, ctl, ctlInbox, ctlSeen, client, inbox, clientSeen,
                   resends, stops>>

\* After a yield and 20 ms: the "run started" status.
StreamStarted(t) ==
    /\ RunStep(t, "spawned", "running")
    /\ \E failed \in SUBSET {"client"} : PublishEvent(t, "started", failed)
    /\ UNCHANGED <<accepted, ledger, missed>>

\* events.recv(): one node event, published whatever becomes of it.
StreamEvent(t) ==
    /\ run[t].at = "running" /\ run[t].events < MaxEvents
    /\ run' = [run EXCEPT ![t].events = @ + 1]
    /\ \E failed \in SUBSET {"client"} : PublishEvent(t, "node", failed)
    /\ UNCHANGED <<up, ctl, ctlInbox, ctlSeen, accepted, ledger, client, inbox,
                   clientSeen, missed, resends, stops>>

\* Mutant: the final status carries no success flag.
StreamFinalPlain(t) ==
    \E ok \in BOOLEAN :
      /\ run[t].at = "running"
      /\ run' = [run EXCEPT ![t].at = "nodes", ![t].ok = ok]
      /\ PublishEvent(t, "node", {})
      /\ UNCHANGED <<up, ctl, ctlInbox, ctlSeen, accepted, ledger, client, inbox,
                     clientSeen, missed, resends, stops>>

\* run_future is ready: the final status goes out before anything is recorded,
\* and events still in the channel are lost.
StreamFinal(t) ==
    \E ok \in BOOLEAN, failed \in SUBSET {"client"} :
      /\ run[t].at = "running"
      /\ run' = [run EXCEPT ![t].at = "nodes", ![t].ok = ok]
      /\ PublishEvent(t, IF ok THEN "success" ELSE "failure", failed)
      /\ missed' = IF failed = {} THEN missed ELSE missed \cup {run[t].req}
      /\ UNCHANGED <<up, ctl, ctlInbox, ctlSeen, accepted, ledger, client, inbox,
                     clientSeen, resends, stops>>

\* Mutant: the task forgets the run before its status is recorded.
RecordTraceAndLeave(t) ==
    /\ RunStep(t, "trace", "remove")
    /\ \E written \in BOOLEAN : Records(t, "trace", written)
    /\ UNCHANGED <<accepted, nextId, stream, missed>>

\* record_nodes, record_run_trace, record_finished: a failed one is only logged.
Record(t, from, to, kind) ==
    /\ RunStep(t, from, to)
    /\ \E written \in BOOLEAN : Records(t, kind, written)
    /\ UNCHANGED <<accepted, nextId, stream, missed>>

RecordNodes(t) == Record(t, "nodes", "trace", "nodes")
RecordTrace(t) == Record(t, "trace", "finish", "trace")

\* Mutant: the status is not looked at.
RecordAlwaysFinished(t) == Record(t, "finish", "remove", "finished")

RecordFinished(t) ==
    Record(t, "finish", "remove", IF run[t].ok THEN "finished" ELSE "failed")

RemoveAccepted(t) ==
    /\ RunStep(t, "remove", "gone")
    /\ accepted' = [accepted EXCEPT ![run[t].req] = NoRun]
    /\ UNCHANGED <<nextId, ledger, stream, missed, faults>>

PumpStep(t) ==
    \/ StreamStarted(t) \/ StreamEvent(t) \/ StreamFinal(t)
    \/ RecordNodes(t) \/ RecordTrace(t) \/ RecordFinished(t) \/ RemoveAccepted(t)

-----------------------------------------------------------------------------
(* DaemonClient *)

ClientOnly == UNCHANGED <<up, ctl, accepted, nextId, run, ledger, missed, stops>>
Quiet == UNCHANGED <<ctlInbox, ctlSeen, clientSeen, faults, resends>>

\* connect: the socket answers as soon as the bus is up.
Connect(c) ==
    /\ At(c) = "connect"
    /\ IF up = "down" THEN Ends(c, "unreachable")
       ELSE client' = [client EXCEPT ![c].at = "submit", ![c].conn = TRUE]
    /\ ClientOnly /\ Quiet /\ UNCHANGED <<inbox, stream>>

\* send_request, first try: any error, or a dead connection, leads to the retry.
Submit(c) ==
    /\ At(c) = "submit"
    /\ \/ /\ client[c].conn
          /\ \E failed \in SUBSET {"daemon", "client", "other"} :
               /\ PublishRequest(c, client[c].id, failed)
               /\ Goes(c, IF failed = {} THEN "wait" ELSE "retry")
       \/ /\ ~client[c].conn
          /\ Goes(c, "retry")
          /\ UNCHANGED <<ctlInbox, ctlSeen, clientSeen, faults>>
    /\ ClientOnly /\ UNCHANGED <<inbox, stream, resends>>

\* After the jitter: the same frame, under the same message id.
Retry(c) ==
    /\ At(c) = "retry"
    /\ \/ /\ client[c].conn
          /\ \E failed \in SUBSET {"daemon", "client", "other"} :
               /\ PublishRequest(c, client[c].id, failed)
               /\ IF failed = {} THEN Goes(c, "wait") ELSE Ends(c, "unreachable")
       \/ /\ ~client[c].conn
          /\ Ends(c, "unreachable")
          /\ UNCHANGED <<ctlInbox, ctlSeen, clientSeen, faults>>
    /\ ClientOnly /\ UNCHANGED <<inbox, stream, resends>>

\* wait_for_control_response: the first response decides.
ReadResponse(c) ==
    /\ At(c) = "wait" /\ inbox[c] # <<>>
    /\ IF Head(inbox[c]).kind = "rejected" THEN Ends(c, "rejected")
       ELSE client' = [client EXCEPT ![c].at = "subscribe", ![c].run = Head(inbox[c]).run]
    /\ inbox' = [inbox EXCEPT ![c] = Tail(@)]
    /\ ClientOnly /\ Quiet /\ UNCHANGED stream

\* 2000 ms without a response, or the end of the subscription.
AcceptTimeout(c) ==
    /\ At(c) = "wait"
    /\ Ends(c, "timeout")
    /\ ClientOnly /\ Quiet /\ UNCHANGED <<inbox, stream>>

\* The event topic is subscribed to only now.
SubscribeEvents(c) ==
    /\ At(c) = "subscribe"
    /\ IF client[c].conn THEN Goes(c, "stream") ELSE Ends(c, "unreachable")
    /\ ClientOnly /\ Quiet /\ UNCHANGED <<inbox, stream>>

\* The meta.success flag of an event, if it is a status that has one.
Outcome(event) == CASE event = "success" -> "ok" [] event = "failure" -> "failed"
                    [] OTHER -> "none"

\* ev_sub.next(): a status with meta.success ends the loop.
ReadEvent(c) ==
    /\ At(c) = "stream" /\ stream[c] # <<>>
    /\ LET outcome == Outcome(Head(stream[c]))
       IN  IF outcome = "none" THEN UNCHANGED client ELSE Ends(c, outcome)
    /\ stream' = [stream EXCEPT ![c] = Tail(@)]
    /\ ClientOnly /\ Quiet /\ UNCHANGED inbox

\* The stream ends without a final status: success is unwrap_or(false).
StreamEnds(c) ==
    /\ At(c) = "stream" /\ stream[c] = <<>> /\ ~client[c].conn
    /\ Ends(c, "failed")
    /\ ClientOnly /\ Quiet /\ UNCHANGED <<inbox, stream>>

\* Any client may send the request again, as a new message.
Resend(c) ==
    /\ client[c].conn /\ At(c) \in {"wait", "subscribe", "stream"}
    /\ resends < MaxResends
    /\ resends' = resends + 1
    /\ PublishRequest(c, MaxId + resends, {})
    /\ ClientOnly /\ UNCHANGED <<client, inbox, stream>>

ClientStep(c) ==
    \/ Submit(c) \/ Retry(c) \/ ReadResponse(c) \/ SubscribeEvents(c)
    \/ ReadEvent(c) \/ StreamEnds(c)

-----------------------------------------------------------------------------
Next ==
    \/ StartDaemon \/ SubscribeCtrl \/ PublishOther \/ StopDaemon
    \/ ControlStep
    \/ \E t \in Runs : PumpStep(t)
    \/ \E c \in Clients : Connect(c) \/ ClientStep(c) \/ AcceptTimeout(c) \/ Resend(c)

Spec == Init /\ [][Next]_vars

\* The tokio tasks of the daemon and the client's own loop keep being polled.
FairSpec ==
    /\ Spec
    /\ WF_vars(ControlStep)
    /\ \A t \in Runs : WF_vars(PumpStep(t))
    /\ \A c \in Clients : WF_vars(ClientStep(c))

-----------------------------------------------------------------------------
(* Properties *)

ControlStates == {"idle", "resend", "prepare", "announce", "failstart", "insert",
                  "spawn", "reject"}
LiveStates == {"spawned", "running", "nodes", "trace", "finish", "remove"}
ClientStates == {"connect", "submit", "retry", "wait", "subscribe", "stream", "done"}
Outcomes == {"none", "ok", "failed", "rejected", "timeout", "unreachable"}
LedgerKinds == {"started", "nodes", "trace", "finished", "failed"}

\* The state shared by the control loop and the run tasks.
ControlType ==
    /\ ctl \in [at : ControlStates, req : Clients, run : Runs \cup {NoRun}]
    /\ ctlInbox \in Seq(Clients)
    /\ accepted \in [Clients -> Runs \cup {NoRun}]
    /\ run \in [Runs -> [at : LiveStates \cup {"unused", "launching", "dropped", "gone"},
                          req : Clients, events : 0 .. MaxEvents, ok : BOOLEAN]]

\* The daemon, the run tasks and the clients keep data of their types, and the
\* budgets of the model are respected.
TypeOK ==
    /\ up \in {"down", "serving", "ready"}
    /\ ControlType
    /\ ctlSeen \subseteq Clients \X (1 .. MaxId + MaxResends)
    /\ nextId \in 1 .. MaxId
    /\ ledger \in [Runs -> Seq(LedgerKinds)]
    /\ client \in [Clients -> [at : ClientStates, conn : BOOLEAN, id : 1 .. MaxId,
                                run : Runs \cup {NoRun}, outcome : Outcomes]]
    /\ inbox \in [Clients -> Seq([kind : {"accepted", "rejected"}, run : Runs \cup {NoRun}])]
    /\ clientSeen \in [Clients -> SUBSET (1 .. MaxId + MaxResends)]
    /\ stream \in [Clients -> Seq({"started", "node", "success", "failure"})]
    /\ faults \in 0 .. MaxFaults /\ resends \in 0 .. MaxResends /\ stops \in 0 .. MaxStops
    /\ missed \subseteq Clients

\* However often a request is sent, and whenever its run ends, no two run tasks
\* for it exist at once (the accepted map against pump's removal).
OneRunPerRequest ==
    \A t, u \in Runs : Live(t) /\ Live(u) /\ run[t].req = run[u].req => t = u

\* While the control loop launches or refuses a request no task runs it: a
\* RunRejected is never sent about a request that is executing.
RejectMeansNoRun ==
    ctl.at \in {"prepare", "announce", "failstart", "insert", "spawn", "reject"}
        => \A t \in Runs : Live(t) => run[t].req # ctl.req

\* The inductive invariant behind both: a run task is the one its request is
\* accepted as; a request being launched has a session that is not a task yet
\* and no entry in the map until it gets its own.
MapInv ==
    /\ \A t \in Runs : Live(t) => accepted[run[t].req] = t
    /\ ctl.at \in {"announce", "failstart", "insert", "spawn"} =>
           /\ ctl.run \in Runs
           /\ run[ctl.run].at = "launching"
           /\ run[ctl.run].req = ctl.req
    /\ ctl.at \in {"prepare", "announce", "failstart", "insert", "reject"} =>
           accepted[ctl.req] = NoRun
    /\ ctl.at = "spawn" => accepted[ctl.req] = ctl.run

\* What the ledger holds of a run: "started" first, nothing twice, a status
\* that is the run's outcome; and, if no write failed and the daemon did not
\* stop, a status once the run has left the daemon.
LedgerTellsTheRun ==
    \A t \in Runs :
        LET kinds == ToSet(ledger[t])
        IN  /\ IsInjective(ledger[t])
            /\ ledger[t] # <<>> => ledger[t][1] = "started"
            /\ "finished" \in kinds => run[t].ok /\ "failed" \notin kinds
            /\ "failed" \in kinds => ~run[t].ok
            /\ run[t].at \in {"dropped", "gone"} /\ faults = 0 /\ stops = 0
                => kinds \cap {"finished", "failed"} # {}

\* A client that returns success saw its own run succeed.
SuccessIsReal ==
    \A c \in Clients : client[c].outcome = "ok" =>
        /\ run[client[c].run].ok
        /\ run[client[c].run].req = c

\* The map forgets a request only after the status of its run was written, or
\* when the write failed or the daemon stopped: a duplicate that arrives
\* earlier finds the running run.
ForgottenOnlyWhenRecorded ==
    [][\A c \in Clients :
         LET t == accepted[c]
         IN  t # NoRun /\ accepted'[c] # t =>
               \/ up' = "down"
               \/ faults > 0
               \/ ToSet(ledger[t]) \cap {"finished", "failed"} # {}]_vars

\* A run the control loop has announced is driven to its end, whatever its
\* client, the bus or the ledger do.
RunsEnd == \A t \in Runs : run[t].at = "launching" ~> run[t].at \in {"dropped", "gone"}

\* A client that follows the stream before the final status is published
\* returns, unless the publish of that status failed.
FollowerReturns ==
    \A c \in Clients :
        At(c) = "stream" /\ run[client[c].run].at \in {"spawned", "running"}
            ~> At(c) = "done" \/ c \in missed

\* message-protocol.md: a duplicate request with the same trace_id is
\* idempotent, so one request starts at most one run.
RequestRunsOnce ==
    \A t, u \in Runs :
        /\ run[t].at \in LiveStates \cup {"gone"}
        /\ run[u].at \in LiveStates \cup {"gone"}
        /\ run[t].req = run[u].req
        => t = u

\* architecture.md: once accepted, a run streams its events, so a run whose
\* client read RunAccepted is not dropped.
AcceptedIsLaunched ==
    \A c \in Clients : client[c].run # NoRun => run[client[c].run].at # "dropped"
=============================================================================
