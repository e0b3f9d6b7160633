------------------------------- MODULE Runtime -------------------------------
(***************************************************************************)
(* Runtime::spawn of crates/runtime and what goes on around it: the guest  *)
(* runs _start on a thread of its own and makes hostcalls, the spawning    *)
(* thread waits for it, for the bus and for the readiness barrier under    *)
(* one deadline, a task forwards the agent's topic into its mailbox, and   *)
(* other threads send to the agent and kill it.                            *)
(*                                                                         *)
(* Spawns share nothing but counters, so one of them is modelled.  Waiting *)
(* reads the clock before every wait: late says the deadline has passed.   *)
(***************************************************************************)
EXTENDS Caps, Sequences

CONSTANTS
    Setups,         \* what is spawned (caps, program) and how (the runtime's settings)
    Secrets,        \* the secrets the provider can resolve
    OnAllow, OnDeny,  \* audit_policy
    MailboxSize,    \* 32 in the code
    MaxSends        \* bound: messages sent to the agent

VARIABLES
    setup,    \* the one of Setups that is spawned
    guest,    \* the guest's thread: position, calls left, first ack, how it ends
    spawner,  \* the spawning thread: position and outcome
    barrier,  \* ReadyInner
    startup,  \* the channel of StartupSignal
    late,     \* the deadline has passed
    bus,      \* the bus task: position, its answer, the topic's messages, abort
    inbox,    \* the mailbox's messages, the one peeked at, those counted
    agents,   \* the agent is in RuntimeInner.agents
    log,      \* hostcall_stats, the audit events of the KB, deny_flag, last_denial
    killer,   \* position of a thread in kill
    sends     \* messages sent so far

vars == <<setup, guest, spawner, barrier, startup, late, bus, inbox, agents, log, killer, sends>>

Init ==
    /\ setup \in Setups
    /\ guest = [at |-> "none", todo |-> setup.calls, ack |-> "none", error |-> "none"]
    /\ spawner = [at |-> "start", outcome |-> "none"]
    /\ barrier = [host |-> FALSE, guest |-> FALSE, ack |-> "none", completed |-> FALSE, event |-> "none"]
    /\ startup = "none" /\ late = FALSE
    /\ bus = [at |-> "none", answer |-> "none", topic |-> 0, abort |-> FALSE]
    /\ inbox = [held |-> 0, peeked |-> 0, counted |-> 0]
    /\ agents = FALSE
    /\ log = [allowed |-> 0, denied |-> 0, audit |-> <<>>, flag |-> FALSE, last |-> FALSE]
    /\ killer = "idle"
    /\ sends = 0

\* The receiver is dropped once the guest's store and spawn's own clone are.
InboxOpen == spawner.at # "returned" \/ guest.at \notin {"none", "ended"}

-----------------------------------------------------------------------------
(* The readiness barrier *)

Finish(b, event) == IF b.completed THEN b ELSE [b EXCEPT !.completed = TRUE, !.event = event]

\* An ack that has not been stored yet is taken for that of the mailbox.
TryComplete(b) ==
    IF b.host /\ b.guest THEN Finish(b, IF b.ack = "none" THEN "recv" ELSE b.ack) ELSE b

-----------------------------------------------------------------------------
(* The guest *)

Audited(l, decision) ==
    IF (decision = "allow" /\ OnAllow) \/ (decision = "deny" /\ OnDeny)
    THEN Append(l.audit, decision) ELSE l.audit

Allowed(l) == [l EXCEPT !.allowed = @ + 1, !.audit = Audited(l, "allow")]

Denied(l) ==
    [l EXCEPT !.denied = @ + 1, !.flag = TRUE, !.last = TRUE, !.audit = Audited(l, "deny")]

Ends(signal) ==
    /\ startup' = signal
    /\ guest' = [guest EXCEPT !.at = "ended"]

\* The directories are opened and the module instantiated, or the thread ends.
Prepare ==
    /\ guest.at = "prepare"
    /\ \/ /\ (setup.badRoot /\ setup.strictFs) \/ ~setup.instantiates
          /\ startup' = "failed"
          /\ guest' = [guest EXCEPT !.at = "ended", !.error = "other"]
          /\ UNCHANGED log
       \/ /\ ~(setup.badRoot /\ setup.strictFs) /\ setup.instantiates
          /\ guest' = [guest EXCEPT !.at = "run"]
          /\ log' = [log EXCEPT !.flag = FALSE, !.last = FALSE]
          /\ UNCHANGED startup
    /\ UNCHANGED <<setup, spawner, barrier, late, bus, inbox, agents, killer, sends>>

Calls(op) == guest.at = "run" /\ guest.todo # <<>> /\ Head(guest.todo).op = op

\* A guest that loops makes its last call for ever.
Rest == IF Head(guest.todo).op = "loop" THEN guest.todo ELSE Tail(guest.todo)
Continues == guest' = [guest EXCEPT !.todo = Rest]
Traps(error) == guest' = [guest EXCEPT !.at = "trapped", !.error = error]

\* The calls that need a capability.  A secret that is permitted may be unknown.
Hostcall ==
    /\ Calls("cap")
    /\ LET req == Head(guest.todo).req
           Unknown == req.key = "secrets" /\ req.target \notin Secrets
       IN IF ~Permits(setup.caps, req)
          THEN Traps("cap") /\ log' = Denied(log)
          ELSE IF Unknown
          THEN Traps("cap") /\ log' = Denied(Allowed(log))
          ELSE Continues /\ log' = Allowed(log)
    /\ UNCHANGED <<setup, spawner, barrier, startup, late, bus, inbox, agents, killer, sends>>

\* signal_guest_ready: the first acknowledgement only.
SignalGuest(ack) ==
    /\ barrier' = [barrier EXCEPT !.guest = TRUE]
    /\ guest' = IF barrier.guest
                THEN [guest EXCEPT !.todo = Rest]
                ELSE [guest EXCEPT !.at = "store", !.ack = ack, !.todo = Rest]

NotifyReady ==
    /\ Calls("notify")
    /\ SignalGuest("notify")
    /\ UNCHANGED <<setup, spawner, startup, late, bus, inbox, agents, log, killer, sends>>

\* mailbox_recv: it acknowledges and then takes the message peeked at, or the next.
MailboxRecv ==
    /\ Calls("recv") \/ Calls("loop")
    /\ SignalGuest("recv")
    /\ inbox' = IF inbox.peeked > 0 THEN [inbox EXCEPT !.peeked = 0]
                ELSE IF inbox.held > 0 THEN [inbox EXCEPT !.held = @ - 1] ELSE inbox
    /\ UNCHANGED <<setup, spawner, startup, late, bus, agents, log, killer, sends>>

PeekMeta ==
    /\ Calls("peek")
    /\ Continues
    /\ inbox' = IF inbox.peeked = 0 /\ inbox.held > 0
                THEN [inbox EXCEPT !.peeked = 1, !.held = @ - 1] ELSE inbox
    /\ UNCHANGED <<setup, spawner, barrier, startup, late, bus, agents, log, killer, sends>>

StoreAck ==
    /\ guest.at = "store"
    /\ barrier' = [barrier EXCEPT !.ack = guest.ack]
    /\ guest' = [guest EXCEPT !.at = "try"]
    /\ UNCHANGED <<setup, spawner, startup, late, bus, inbox, agents, log, killer, sends>>

GuestCompletes ==
    /\ guest.at = "try"
    /\ barrier' = TryComplete(barrier)
    /\ guest' = [guest EXCEPT !.at = "run"]
    /\ UNCHANGED <<setup, spawner, startup, late, bus, inbox, agents, log, killer, sends>>

\* A call outside the hostcalls fails: a path that is not preopened ("external"),
\* any other trap or an exit status that is not 0 ("trap").
Trap ==
    /\ \/ Calls("external") /\ Traps("cap")
       \/ Calls("trap") /\ Traps("other")
    /\ UNCHANGED <<setup, spawner, barrier, startup, late, bus, inbox, agents, log, killer, sends>>

\* A denial no hostcall recorded is recorded here; the barrier fails.
Unwind ==
    /\ guest.at = "trapped"
    /\ LET l == IF guest.error = "cap" /\ ~log.flag THEN Denied(log) ELSE log
       IN /\ log' = [l EXCEPT !.flag = guest.error # "cap" /\ @, !.last = FALSE]
          /\ barrier' = Finish(barrier, IF l.last THEN "cap_denied" ELSE "spawn_failed")
    /\ guest' = [guest EXCEPT !.at = "failing"]
    /\ UNCHANGED <<setup, spawner, startup, late, bus, inbox, agents, killer, sends>>

\* _start returned, there is none, or it called exit(0): Ready.
GuestEnds ==
    /\ \/ guest.at = "failing" /\ Ends("failed")
       \/ guest.at = "run" /\ guest.todo = <<>> /\ Ends("ready")
    /\ UNCHANGED <<setup, spawner, barrier, late, bus, inbox, agents, log, killer, sends>>

Guest ==
    \/ Prepare \/ Hostcall \/ NotifyReady \/ MailboxRecv \/ PeekMeta
    \/ StoreAck \/ GuestCompletes \/ Trap \/ Unwind \/ GuestEnds

-----------------------------------------------------------------------------
(* The spawning thread *)

Returns(outcome) == spawner' = [at |-> "returned", outcome |-> outcome]

\* Mutant: the bus task goes on.
FailsQuietly(outcome) == Returns(outcome) /\ UNCHANGED bus

\* cleanup_spawn_failure: the bus task is aborted, the guest's thread detached.
Fails(outcome) ==
    /\ Returns(outcome)
    /\ bus' = [bus EXCEPT !.abort = bus.at # "none"]

\* Secrets, module, then the guest's thread.
Launch ==
    /\ spawner.at = "start"
    /\ \/ /\ ~(setup.caps.secrets \subseteq Secrets) /\ ~setup.allowMissing
          /\ Returns("secrets_missing")
          /\ UNCHANGED <<guest, log>>
       \/ /\ setup.caps.secrets \subseteq Secrets \/ setup.allowMissing
          /\ ~setup.loads
          /\ Returns("spawn_failed")
          /\ UNCHANGED <<guest, log>>
       \/ /\ setup.caps.secrets \subseteq Secrets \/ setup.allowMissing
          /\ setup.loads
          /\ spawner' = [spawner EXCEPT !.at = "startup"]
          /\ guest' = [guest EXCEPT !.at = "prepare"]
          /\ log' = IF IsEffectivelyEmpty(setup.caps) /\ OnDeny
                    THEN [log EXCEPT !.audit = Append(@, "caps_empty")] ELSE log
    /\ UNCHANGED <<setup, barrier, startup, late, bus, inbox, agents, killer, sends>>

\* Mutant: the bus is subscribed and the host is ready while _start still runs.
AwaitNoStartup ==
    /\ spawner.at = "startup"
    /\ spawner' = [spawner EXCEPT !.at = "bus"]
    /\ bus' = IF setup.bus THEN [bus EXCEPT !.at = "subscribe"] ELSE bus
    /\ UNCHANGED <<setup, guest, barrier, startup, late, inbox, agents, log, killer, sends>>

\* wait_for_startup_signal
AwaitStartup ==
    /\ spawner.at = "startup"
    /\ \/ late /\ Fails("ready_timeout")
       \/ /\ ~late /\ startup = "failed"
          /\ spawner' = [spawner EXCEPT !.at = "join"]
          /\ UNCHANGED bus
       \/ /\ ~late /\ startup = "ready"
          /\ spawner' = [spawner EXCEPT !.at = "bus"]
          /\ bus' = IF setup.bus THEN [bus EXCEPT !.at = "subscribe"] ELSE bus
    /\ UNCHANGED <<setup, guest, barrier, startup, late, inbox, agents, log, killer, sends>>

\* The thread failed: its own error is returned.
JoinFailed ==
    /\ spawner.at = "join" /\ guest.at = "ended"
    /\ Fails(IF guest.error = "cap" THEN "cap_denied" ELSE "spawn_failed")
    /\ UNCHANGED <<setup, guest, barrier, startup, late, inbox, agents, log, killer, sends>>

\* wait_for_bus_ready
AwaitBus ==
    /\ spawner.at = "bus"
    /\ \/ /\ ~setup.bus \/ (~late /\ bus.answer = "ok")
          /\ spawner' = [spawner EXCEPT !.at = "host"]
          /\ UNCHANGED bus
       \/ setup.bus /\ (late \/ bus.answer = "error") /\ Fails("spawn_failed")
    /\ UNCHANGED <<setup, guest, barrier, startup, late, inbox, agents, log, killer, sends>>

SignalHostReady ==
    /\ spawner.at = "host"
    /\ barrier' = [barrier EXCEPT !.host = TRUE]
    /\ spawner' = [spawner EXCEPT !.at = "complete"]
    /\ UNCHANGED <<setup, guest, startup, late, bus, inbox, agents, log, killer, sends>>

HostCompletes ==
    /\ spawner.at = "complete"
    /\ barrier' = TryComplete(barrier)
    /\ spawner' = [spawner EXCEPT !.at = "ready"]
    /\ UNCHANGED <<setup, guest, startup, late, bus, inbox, agents, log, killer, sends>>

\* wait_until
AwaitReady ==
    /\ spawner.at = "ready"
    /\ \/ late /\ Fails("ready_timeout") /\ UNCHANGED agents
       \/ /\ ~late /\ barrier.event \in {"notify", "recv"}
          /\ Returns("ok")
          /\ agents' = TRUE
          /\ UNCHANGED bus
       \/ /\ ~late /\ barrier.event \in {"cap_denied", "spawn_failed"}
          /\ Fails(barrier.event)
          /\ UNCHANGED agents
    /\ UNCHANGED <<setup, guest, barrier, startup, late, inbox, log, killer, sends>>

Spawner ==
    Launch \/ AwaitStartup \/ JoinFailed \/ AwaitBus \/ SignalHostReady \/ HostCompletes \/ AwaitReady

Tick ==
    /\ ~late /\ spawner.at \notin {"start", "returned"}
    /\ late' = TRUE
    /\ UNCHANGED <<setup, guest, spawner, barrier, startup, bus, inbox, agents, log, killer, sends>>

-----------------------------------------------------------------------------
(* The bus task *)

\* A bus that has been closed refuses the subscription.
Subscribe ==
    /\ bus.at = "subscribe"
    /\ \/ /\ bus' = [bus EXCEPT !.at = "listen", !.answer = "ok"]
          /\ UNCHANGED barrier
       \/ /\ bus' = [bus EXCEPT !.at = "over", !.answer = "error"]
          /\ barrier' = Finish(barrier, "spawn_failed")
    /\ UNCHANGED <<setup, guest, spawner, startup, late, inbox, agents, log, killer, sends>>

\* A message is forwarded when there is room; the task ends when nobody can read.
Forward ==
    /\ bus.at = "listen" /\ bus.topic > 0
    /\ \/ /\ InboxOpen /\ inbox.held < MailboxSize
          /\ bus' = [bus EXCEPT !.topic = @ - 1]
          /\ inbox' = [inbox EXCEPT !.held = @ + 1, !.counted = @ + 1]
       \/ /\ ~InboxOpen
          /\ bus' = [bus EXCEPT !.at = "over", !.topic = 0]
          /\ UNCHANGED inbox
    /\ UNCHANGED <<setup, guest, spawner, barrier, startup, late, agents, log, killer, sends>>

\* The abort takes effect where the task waits.
Aborted ==
    /\ bus.abort /\ bus.at \in {"subscribe", "listen"}
    /\ bus' = [bus EXCEPT !.at = "over", !.topic = 0, !.answer = IF @ = "none" THEN "error" ELSE @]
    /\ UNCHANGED <<setup, guest, spawner, barrier, startup, late, inbox, agents, log, killer, sends>>

BusTask == Subscribe \/ Forward \/ Aborted

-----------------------------------------------------------------------------
(* Other threads *)

\* send: over the bus to whoever is subscribed, or straight into the mailbox.
Send ==
    /\ sends < MaxSends
    /\ sends' = sends + 1
    /\ \/ /\ setup.bus /\ bus.at = "listen"
          /\ bus' = [bus EXCEPT !.topic = @ + 1]
          /\ UNCHANGED inbox
       \/ /\ ~setup.bus /\ agents
          /\ inbox' = IF InboxOpen /\ inbox.held < MailboxSize
                      THEN [inbox EXCEPT !.held = @ + 1, !.counted = @ + 1] ELSE inbox
          /\ UNCHANGED bus
    /\ UNCHANGED <<setup, guest, spawner, barrier, startup, late, agents, log, killer>>

Kill ==
    /\ killer = "idle" /\ agents
    /\ agents' = FALSE
    /\ bus' = [bus EXCEPT !.abort = bus.at # "none"]
    /\ killer' = "join"
    /\ UNCHANGED <<setup, guest, spawner, barrier, startup, late, inbox, log, sends>>

KillJoins ==
    /\ killer = "join" /\ guest.at = "ended"
    /\ killer' = "done"
    /\ UNCHANGED <<setup, guest, spawner, barrier, startup, late, bus, inbox, agents, log, sends>>

Next == Guest \/ Spawner \/ Tick \/ BusTask \/ Send \/ Kill \/ KillJoins

\* Threads run, the clock goes on and tasks are polled.  A guest need not return:
\* one that loops takes no step that counts.
Spec ==
    /\ Init /\ [][Next]_vars
    /\ WF_vars(Guest) /\ WF_vars(Spawner) /\ WF_vars(Tick) /\ WF_vars(BusTask) /\ WF_vars(KillJoins)

-----------------------------------------------------------------------------
(* Properties *)

\* The handshake has two sides: an agent becomes visible only when its _start has
\* ended without an error, the bus task has subscribed, the host has said so and
\* the guest acknowledged, and it is reported with the guest's first
\* acknowledgement (Runtime::spawn, ready.rs).
ReadyGate ==
    /\ agents => spawner.outcome = "ok"
    /\ spawner.outcome = "ok" =>
         /\ guest.at = "ended" /\ guest.error = "none"
         /\ barrier.host /\ guest.ack # "none" /\ barrier.event = guest.ack
         /\ setup.bus => bus.answer = "ok"

\* A guest is denied once, whether a hostcall or WASI denies: the statistics, the
\* audit log and the caller of spawn all hear of it exactly once, and of no
\* denial that did not happen (HostState::deny, record_external_cap_denial).
DenialsTold ==
    LET Count(decision) == Cardinality({i \in DOMAIN log.audit : log.audit[i] = decision})
    IN /\ guest.at \in {"failing", "ended"} => log.denied = IF guest.error = "cap" THEN 1 ELSE 0
       /\ OnDeny => Count("deny") = log.denied
       /\ OnAllow => Count("allow") = log.allowed
       /\ spawner.outcome = "cap_denied" => log.denied = 1
       /\ spawner.outcome \in {"ok", "spawn_failed"} => log.denied = 0

\* No ghost: once a spawn has failed, or the agent is killed, its bus task ends
\* (cleanup_spawn_failure, kill).
GhostsEnd ==
    (spawner.outcome \notin {"none", "ok"} \/ killer = "done") ~> (bus.at \in {"none", "over"} /\ ~agents)

\* spawn and kill return whatever the guest does, one that never ends included
\* (wait_for_startup_signal, wait_until, kill).
CallsReturn ==
    /\ spawner.at # "start" ~> spawner.at = "returned"
    /\ killer = "join" ~> killer = "done"

\* Every spawn and kill comes to its end, and leaves nothing of an agent that is not
\* in the map.
SpawnsSettle == GhostsEnd /\ CallsReturn

\* An agent that blocks on mailbox_recv at once acknowledges by that, so it does
\* not run into the timeout (docs/ops.md:120).
FallbackFires == spawner.outcome = "ready_timeout" => barrier.ack # "recv"
=============================================================================
