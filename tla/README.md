# Runloop in TLA+

A verification development for Runloop: TLA+ models of the parts whose correctness depends on
order, concurrency, failure or intricate rules, TLC configurations that check them on small
instances, and TLAPS proofs of the properties that matter most for instances of every size. Source
paths are relative to `src/crates/` unless they begin with `docs/` or `README.md`, which are
Runloop's own.

## 1. The system

Runloop runs *openings*, small workflow graphs whose nodes are agents. `rlp run` submits an opening
to the daemon `runloopd` over a message bus on a Unix socket. The daemon validates and executes the
graph node by node, asks agents for their outputs over the same bus, streams events, and writes
what happened to an append-only ledger from which views are materialized.

```
 rlp run --(rlp/ctrl)--> control loop --> run task --> runner --> bus executor --> agent workers
    ^                        |               |             (agent/<name>, reply topics)   |
    |                        |               |                                  local executor
    +------ rlp/runs/<trace>/events ---------+--> ledger --> materializer --> views       |
                                             agent runtime (Wasm guests, hostcalls) <-----+
                                             model broker <------------- model hostcalls -+
```

| Component | State | What is hard | What makes it correct | Modules |
|---|---|---|---|---|
| Bus, in process (`bus/src/lib.rs`) | topics, one channel and one dedupe LRU per subscriber, closed flag, ACL | `publish` is a chain of awaits between which anything may run; cancellation, retries | a key is delivered once, a failed call leaves nothing behind, drops are reported, calls return | `Bus` |
| Bus over a socket (`bus/src/ipc/unix.rs`) | pending acknowledgements, forwarding tasks, client channels | acknowledgements after the timeout, helper tasks that overtake, a lost connection, a frame the client refuses | nothing written is lost while connected, streams end with the connection, or when the client reads no more | `Socket` |
| Runner, replay (`openings/src/runner.rs`, `replay.rs`) | node records, counters, blocked sets, buffers, queue; mismatches | joins fed in any order, guarded and parallel edges, retries; two pieces of code that must hash alike | exactly the nodes the graph asks for run; a repetition matches, a match has the recorded hash | `Runner`, `Replay` |
| Opening parser (`openings/src/parser.rs`) | none | parallel edges, self loops, templates that fill values, policies | accepted openings are acyclic, filled and confirmed | `GraphCheck`, `Openings`, `Json` |
| Control plane, run engine, client of a run (`runloopd`, `rlp`) | accepted map, run tasks, subscriptions, message counter | duplicates, partly failed publishes, a stop anywhere | one task per request, a truthful ledger, followers learn the outcome | `ControlPlane` |
| Bus executor, local executor (`runloopd/src/executor_bus.rs`, `executor-local`) | one worker per agent, its queue, reply topics, guests | late replies, a worker that is busy, started, dying or shut down; a native path behind the Wasm path | nothing unapproved is sent, one effect per attempt, guests are killed | `Executor` |
| Agent runtime (`runtime`) | barrier, start-up signal, bus task, mailbox, audit log | three threads and one deadline | an agent is visible only when it is ready; failed spawns leave nothing behind | `Runtime` |
| Capabilities, hostcalls, output rings (`runtime`) | none, rings | three merges with different rules; two-call protocols with lengths | an override never grants; an answer is whole or an error | `Caps`, `Hostcalls` |
| Secret and module caches (`runtime`) | maps of versions | maps read and written in several locked steps | no secret older than its TTL, no module older than the load | `Caches` |
| Knowledge base (`kb`) | ledger, views, watermark, history | several processes materialize; the two databases are committed apart | the views show the history of a prefix; writers read their writes | `KbView`, `KbEvents`, `Kb`, `Redaction`, `Json` |
| Model broker (`model-broker`) | response cache, calls, statistics | cache shared over budgets, TTLs and prompts; timeouts | answers fit the question as far as its key tells, and the asker's budget | `Broker` |
| Agent registry (`agent-registry`, `runloopd/src/engine.rs`) | none | two processes with search paths of their own | the agent run is the agent seen | `Registry` |
| Configuration (`core/src/config.rs`) | none | layers, aliases, environment, provenance | the provenance shown explains every value | `Config` |
| Monitor (`agtop`) | panes, pause buffer, dialog | keys between events | panes show the stream, each request is decided once | `Agtop` |

Interactions: everything meets at the bus. `ControlPlane` and `Executor` use what `Bus` and `Socket`
establish (a publish that fails for one subscriber returns `Err` although the others got the frame;
a key in a cache is a duplicate). A run task drives a `Runner` and relies on its termination;
`Runner` runs what `GraphCheck` accepted and hands every attempt to an `Executor`; that one asks a
`Runtime` for guests, whose hostcalls are checked against `Caps` and answered as in `Hostcalls` and
`Broker`. Whatever happens is appended to the ledger of `Kb`.

## 2. Modules and how they read against the code

`PROJECT.json` maps every definition to its lines. In all state machines an action is one stretch
of code between two awaits, two locks or two messages.

- **Bus.** `Server::publish` is `PublishRefused/Expired/Admitted`, `TakeSnapshot`, then for each
  subscriber `DropDuplicate` or `Reserve`, `PushSend`, `PushFull`, `PushClosed`, `PushTimeout`,
  the `Notice*` actions (`emit_drop`), and finally `Rollback` and `Return`; `Cancel` drops the
  future anywhere. The closed check and the insertion of `subscribe` are two steps, as are the
  removal from the map and the drop of the receiver. A message is its dedupe key with an expiry.
  `enq` (what a channel was given), `forgotten` (what a cache evicted or aged out), `told` (what a
  failed call gave up) and `acked` (what was answered Ok) are history variables.
- **Socket.** Two FIFO streams of frames until `Disconnect`; every call has a pending
  acknowledgement that `TakeAck`, `AckTimeout` or `Teardown` settles. Forwarding tasks write
  messages before or after the acknowledgement of their subscription; a full client channel makes
  `ForwardMessage` spawn a helper task (`SendSpawned`). `read_frames` ends in two ways, both followed
  by `Teardown`: `ReaderEnds` at the end of the connection, and `RefuseFrame` at a frame that is
  too large or is not decoded (the constant `Refused`), with the connection up. Then nobody reads
  any more (`torn`), the server is told nothing, and commands are still sent and served.
- **Runner, Replay.** One action per arm of `Runner::run`. The outputs of a node give each port a
  sequence of values or nothing (`Absent`); a predicate is the set of values that pass. Orders that
  come from maps are choices among the listings of a set. `Replay` extends a finished run by
  `replay()` against an executor that answers anything and an opening that may have lost nodes. A
  hash is modelled by what its hasher was fed, and `NodeOutputs::hash` feeds the names of the ports
  and the values one after the other with nothing in between (`OutputText`): different outputs may
  have the same hash, and the instance has such outputs.
- **GraphCheck, Openings.** `validate_graph` as a state machine; the rest of the parser as
  operators on parsed YAML values (absent, of a bad type, or a value). **Json** has the values
  that payloads are made of, nested up to a depth `MaxDepth`; serde's readers refuse a text nested
  deeper than 128.
- **ControlPlane.** `DaemonClient`, the control loop and `RunStreamer::pump`. A publish fails for
  any set of parties and returns `Err` if the set is not empty. `StopDaemon` is a crash or Ctrl+C
  anywhere: run tasks die, the ledger stays.
- **Executor.** The caller is the runner's attempt in `BusExecutor::execute`: the lock around
  `ensure_worker`, the subscription to the reply topic, the publish, the wait, and `Timeout` at any
  of them, which drops the future with the lock it may hold. A task is a worker with its queue, or
  in a local run the attempt's own execution; `Take` to `Answer` follow `LocalExecutor::execute`
  through confirmation, the Wasm bundle, the guest, the fallback to native code (which may panic),
  and the event that is recorded. `sent` counts those events.
- **Runtime.** The guest's thread, the spawning thread, the bus task and the thread that kills are
  four groups of actions that share the readiness barrier and the start-up signal; `late` says that
  the deadline of the spawn has passed. **Caps** and **Hostcalls** are operators: the three merges
  of capabilities, the two-call protocol of `model_complete`, the captured output of a child.
- **Caches.** Both caches, each read, write and re-check of their maps an action, with an operator
  who rotates a secret or replaces a file, and a clock.
- **KbView** is the abstract specification of the knowledge base: the history shown is that of a
  prefix of the ledger, the prefix only grows, except when power is lost. **Kb** is the code:
  `Propose` (validation and append), `ReadWatermark`, `LoadBatch`, `ApplyBatch`, which lock the two
  databases one after the other and are interleaved with those of other processes, run traces,
  checkpoints, backups, kills and power losses. Views not yet on disk are lost with power; a ledger
  append is durable. `RefinesView` is the refinement, with `covered <- views.covered` and
  `history <- views.history`. **KbEvents** says what is a valid event and which rows and entities it
  touches, **Redaction** what is shown of e-mail addresses: a text is cut at every `@`, and
  `mask_email_string` masks what stands before the first one, if there is something on both sides of
  it; keys of objects stay as they are.
- **Broker.** `Begin` (route, budgets, key), `Lookup` (the lock of the cache, with expiry and the
  LRU order), the provider's answer or error, `TimesOut`, `Store` and `Cancel`; time is a clock. The
  key is one text, the fields of `compose_cache_key` in its order with nothing between them,
  `extras` included.
- **Registry.** A search directory is a function from paths to manifests; `find_manifest` is
  `InBase` and `Winner`, `discover_manifest_paths` is `Discovered` with the order `Precedes`, `list`
  is `Listed`, which keeps the first manifest of each agent in that order.
- **Config.** A document is a function from the paths of its leaves to values. `Stages` are the
  documents between the defaults and the end: each file merged in, its old names replaced
  (`Normalize`), then each variable (`SetPath`). `Diff` has an entry where the two documents differ
  and one of them has no object, with everything there is below it, as `diff_values_recursive`.
  `RouteOf` is the first rule of a map that matches, once the map is sorted.
- **Agtop**: the monitor's application state, with the keys that change it.
- **Parts** puts the parts that stand alone together, for constants of any value: the inputs that
  each table of the pure parts is looked at with (capabilities, hostcalls, redaction, openings,
  registry, configuration), the instances of `GraphCheck`, `Caches` and `Agtop`, the assumptions
  about all of them and the properties of each. **MCLibrary** extends it with the values of the
  tables and the claims of the documentation about them, and **MCParts** composes the tables, one
  state per input, with the parts that are small state machines of their own.

## 3. What is checked

Each run ends within about three minutes with two workers and coverage.

| Run | Instance | Shows |
|---|---|---|
| `delivery` | 2 callers, 2 messages, 4 calls, 1 subscriber, channel 1, cache 1, age 0, clock 0..1 | the reservation protocol under eviction, ageing, retry and cancellation: `DedupeInv`, `AtMostOnce`, `NoLeakedReservation` |
| `fanout` | 2 callers, 2 messages, 2 subscribers of one topic, channel 1, cache 2, 3 calls | partial failure and duplicates in progress: what was acknowledged and never sent has a call that answers for it (`LossIsTold`) |
| `progress` | 2 callers, 3 messages (one has expired), 1 data and 1 notice subscriber, 2 calls, fairness | `DropsAreNotified`, `PublishReturns`, `CloseEndsRegistered` |
| `closerace` | violation | a subscription that passed the closed check registers after `close` and never ends |
| `dataflow` | all openings of up to 4 edges over 3 nodes, guarded or not, parallel ones included; 2 attempts of one node; those of up to 1 edge are replayed, with outputs that hash alike | exactly the eligible nodes run, one failure ends the run, events agree, runs end, `ReplayVerdict` |
| `control` | 1 client, 1 failed publish or write, 1 resend, 1 stop, 1 node event, 3 traces | one task per request, a truthful ledger, what is forgotten is recorded, runs end, followers return |
| `kb` | daemon, local run, agent; batches of 2; 3 events; 2 troubles (errors, kills, power losses) | `RefinesView`, `ReadYourWrites`, `FinishedRunHasTrace`, `CaughtUp` |
| `broker` | 3 callers, 7 configurations with every provider kind, caches of 0 to 2 entries, requests with and without extras whose keys are the same text | `WithinBudget`, `SameQuestion`, `TimedCallsEnd` |
| `runtime` | 8 guests, 3 sets of capabilities, every setting, mailbox 1, 2 sends, a kill | `ReadyGate`, `SpawnsSettle` (no ghost, calls return) |
| `executor` | 2 calls of the mailer in the daemon, or one call of any agent in the daemon, a strict daemon or locally; 2 attempts | `ApprovedSends`, `OneEffectPerAttempt`, `WorkersGoOn` |
| `socket` | 1 publish, 1 subscription, channel 1, 4 messages, of which the client refuses one | `NothingLost`, `StreamsEnd` |
| `parts` | the tables; all lists of up to 4 edges over 3 nodes and an unknown name; 2 threads for either cache, a TTL of 1 and 2 ticks; 3 events in the monitor, of the log, the plan and the dialog (those of the other two panes are left to the theorem) | the graph verdict equals its reference, overrides revoke, answers are whole, provenance explains, openings are safe, agents are verified, what stands before the first `@` of a text is masked, caches are fresh, panes show the stream |

Why the bounds are enough. The interesting bus states need one full channel, one eviction, one
ageing and a retry concurrent with the call it repeats, and for `LossIsTold` a call that gives one
of two subscribers up after another caller's duplicate was dropped there. The runner's joins need two predecessors and
parallel edges; 4 edges over 3 nodes hold both. In `control` the requests of different clients meet
only in the queue of a loop that serves one at a time; one stop suffices since nothing but the
ledger survives it. Two materializers overlap in `kb` as soon as two of the three actors sync, and 3
events fill one batch and start another. A cache of one entry evicts with the second request; three
callers let one answer, one store and one look up at once. Two calls of one agent are what a worker
has to keep apart, and two attempts what a late reply has to find gone. In `socket` the channel
overflows with the second message; a third can overtake. The configuration's table has up to two
variables on top of two files, and three files without variables, each missing, broken, empty, or with a section that is null
or that the next one gives again; two variants, a manifest without one, and a name with an `@` are
what the places of the registry can confuse; payloads nested four deep hold objects in lists in
objects. `CHECK_DEADLOCK FALSE` everywhere: calls, runs and guests end and these systems come to
rest.

### Properties kept without a run of their own

They hold on the instances named, and can be added to their configuration: `TypeOK` of every
state machine, `Bus!NoStaleSubscriber`, `Socket!OkWasAccepted` and `NoOrphans` (which speaks of a
client that reads: after a refused frame the server goes on forwarding to streams that have ended,
and TLC refutes the formula without `~torn`), `Runner!RunnerInv`,
`GraphCheck!GraphInv` (with
`MaxEdges = 3`), `ControlPlane!MapInv`, `SuccessIsReal` and `RejectMeansNoRun`, `Kb!NoPoison`,
`Broker!CacheInv` and `RoutesResolve`, `Runtime!DenialsTold`. Those the proofs use are proved
(section 5).

### What the documentation says and the code does not do

Each of these is a property of the module named that TLC refutes when it is added to the run's
configuration; the documentation's line is given. `closerace` has a run since a test of the bus
says what `close` is for.

| Property | Run | Says | The code |
|---|---|---|---|
| `Bus!DuplicateWasSeen` | `delivery` | `docs/message-protocol.md:137` | answers Ok to a duplicate of a call that then fails, at which the key is forgotten again; what does hold is `LossIsTold` |
| `Socket!FifoPerPublisher` | `socket` | `docs/message-protocol.md:297` | a helper task of a full channel is overtaken |
| `Replay!MatchRepeats` | `dataflow` | `docs/openings-dsl.md:280`, `docs/architecture.md:132` | outputs are compared by a hash of undelimited texts (`openings/src/runner.rs:46-61`): a replay without mismatches may have had other outputs |
| `Runner!DeadlineCancels` | `dataflow` with `PolicyTimeout = 1`, `MaxTime = 2` | `docs/openings-dsl.md:179` | the opening's timeout is a timeout of each node |
| `ControlPlane!RequestRunsOnce` | `control` | `docs/message-protocol.md:198` | a request resent after the end of its run starts it again |
| `ControlPlane!AcceptedIsLaunched` | `control` | `docs/architecture.md:123` | an acceptance is sent for a run that is dropped |
| `Kb!RowsAreCurrent` | `kb` with `Scripts <- RaceScripts`, `MaxEvents = 4` | `kb/src/lib.rs:1179`, `docs/ops.md:131` | a slower materializer writes older rows over newer ones |
| `Kb!BackupIsConsistent` | `kb` | `kb/src/lib.rs:562`, `docs/ops.md:155` | views are copied after the ledger, which has moved on |
| `Broker!OwnQuestion` | `broker` | `model-broker/README.md:35` | the key is a hash of undelimited texts (`model-broker/src/lib.rs:561-565`): a prompt that ends in another request's extras gets its answer |
| `Broker!ZeroTtlIsFresh` | `broker` | `docs/ops.md:91` | a zero TTL is not stored, but is looked up |
| `Runtime!FallbackFires` | `runtime` | `docs/ops.md:120` | a guest that acknowledged by `recv` may still time out |
| `Agtop!DepthIsCurrent` | `parts` with `Feed <- MCSnapshots` | `agtop/README.md:37`, `docs/tui.md:110` | the status bar keeps the depth of the first snapshot (`agtop/src/state.rs:354`) |
| `Agtop!PendingIsShown` | `parts` (as `Monitor!PendingIsShown`) | `docs/tui.md:82` | a later request replaces the one in the dialog, which nobody decides any more |
| `MCLibrary!EnvSetsKeys` | `parts` | `README.md:231`, `docs/security-model.md:67` | `set_path` panics below a scalar |
| `MCLibrary!LegacyRoutingLoads` | `parts` | `docs/ops.md:88` | the old key meets the defaults' new one in the merged document, a duplicate field |
| `MCLibrary!UserOverSystem` | `parts` | `docs/ops.md:16` | `config_candidate_paths` lists `/etc/runloop/config.yaml` last and the files are merged in that order (`core/src/config.rs:970`), so the system file wins every key it shares with the user's |
| `MCLibrary!NodesConfirm` | `parts` | `docs/openings-dsl.md:373` | only mailers are looked at |
| `MCLibrary!FalseRevokes` | `parts` | `docs/policy-caps.md:58` | `fs`, `fs_ro` and `fs_rw` set to `false` are read as absent (`runtime/src/caps.rs:303`) |
| `MCLibrary!NoAddressShown` | `parts` | `docs/ops.md:159`, `docs/security-model.md:82` | a second address in a text, one after a leading `@` (`kb/src/lib.rs:303`) and the keys of objects (`kb/src/lib.rs:251`) are shown |
| `MCLibrary!JoinsWork` | `parts` | `docs/security-model.md:83` | an address masked twice has another token (`kb/src/lib.rs:1600`, `1604`) |
| `MCLibrary!VerifiedAll` | `parts` | `runloopd/src/engine.rs:548` | digests are kept by reference: an opening that names an agent with and without its variant is compared in part |

Others are behaviours of the models without a property: receivers do not drop expired frames
(`docs/message-protocol.md:96`), the expiry is compared on publish only; a response has the trace
id of its request and every process counts message ids from 1, so that a response can be taken for
a duplicate of a request; `list` over several directories may show another manifest than `describe`
finds; a worker that panics keeps its entry, so nothing sent to its agent is answered until the
daemon restarts (`InvocationsServed` asks only that a worker that lives reaches what is queued).

## 4. Fairness

- `Bus!FairSpec`: the steps of a running call (tokio polls ready tasks, send timeouts fire), the
  second half of subscribe, a stream's end and a receiver's drop. Nobody has to receive;
  `CloseEndsRegistered` carries its own hypothesis that the reader keeps polling.
- `Runner!FairSpec`: weak fairness of `Next`; every attempt ends by answer or timeout and every
  backoff ends.
- `ControlPlane!FairSpec`: the control loop, each run task and the client's own loop. Stops,
  resends, timeouts and restarts are never forced. `FollowerReturns` excuses a client for whom the
  publish of the final status failed, since the code ignores that error.
- `Kb!FairSpec`: the daemon's materializer loop only. `CaughtUp` holds although others may stop.
- `Broker!FairSpec`: the clock and the caller's own steps; a provider need not answer.
- `Runtime`: the guest's, spawner's, bus task's and kill's steps and the clock. A guest in a loop
  makes steps and gets nowhere; its spawn ends by the deadline.
- `Executor`: the steps of tasks that were spawned, timeouts and the reading of replies. Callers
  need not go on to the next attempt.
- `Socket`: reading of frames, teardown, acknowledgement timeouts, consumers and helper tasks; the
  server need never answer.

## 5. What is proved

By TLAPS, for every value of the constants. A proof module has its inductive invariants, one lemma
per action or group of actions that keeps them, and the theorems. Each theorem below that names a
property states the invariant or action property a run checks on its instance.

- `BusProofs`: `TypeCorrect`, `DedupeCorrect`, and from it `AtMostOnceDelivery` and
  `ReservationsAreReleased`. `AtMostOnce` is not inductive: a rollback could remove an entry
  somebody else needs. `DedupeInv` adds that a key not forgotten is cached as soon as it was sent or
  is reserved, never both, and that at most one call reserves it. `NoticesFollowDrops`
  (`DropsAreNotified`) needs beside the types only that finitely many calls are at their notice at
  once (`NoticeInv`). `NoSilentLoss` (`LossIsTold`) rests on `OkInv`, which adds two facts to it:
  every subscriber of its snapshot that a call without an error has passed was given the message, or
  another running call has it reserved, or one that had it is known to have failed (`Served`); and a
  call that gives a reservation up has an error to answer (`GivenUpFails`), so that a rollback moves
  the message from the second case to the third. It uses `DedupeInv`: a key found in a cache was
  sent or is reserved.
- `RunnerProofs`: `RunnerCorrect` (`TypeOK` and `RunnerInv`), and from it `OnlyEligibleStart`,
  `RunsExactlyTheEligible`, `FailureEndsTheRun`, `RetriesAreBounded`. `RunnerInv` ties the counter,
  the blocked set and the buffer of a waiting node to the edges and the outcomes of its
  predecessors. `EventsTellTheReport` (`EventsAgree`) adds in `Told` that a node that runs or has
  ended was told of last by its state, also while the run goes on. `ReplayMatchesTheHash`
  (`ReplayVerdict`): without a mismatch the replay's hasher was fed what the run's was, and a
  repetition has no mismatch; that a match is a repetition is false (section 3). `ReplayInv` says that the hasher was fed one item for each node attempted so
  far if there is no mismatch, the k-th for the node whose rank in the trace is k; `FinalHash` gives
  the run's own items by the same rank.
- `ControlPlaneProofs`: `MapMirrorsTasks`, `OneTaskPerRequest`, `NoRejectedTask`. `MapInv` adds to
  `OneRunPerRequest` that a live task is the one its request is accepted as, and that a request on
  its way through the control loop has no entry until it gets its own. `LedgerIsTruthful`
  (`LedgerTellsTheRun`) and the action property `ForgetsOnlyTheRecorded`
  (`ForgottenOnlyWhenRecorded`) rest on `LedgerInv`: what is in the ledger at each place of a run
  task, and which of it may be missing once a write failed or the daemon stopped.
- `KbProofs`: `ViewsShowAPrefix`, `ViewsImplementKbView` (the refinement, step by step) and
  `WritersReadTheirWrites`. The refinement is not inductive alone: `KbInv` adds that a batch on its
  way starts within the prefix covered, whoever materialized since it was loaded, and that what is
  on disk is a prefix too, no longer than the views. `BatchExtends` is the heart of it: a batch that
  starts within a prefix, put on top of its history, makes the history of the longer of the two.
  `FinishedRunsAreTraced` (`FinishedRunHasTrace`) has the hypothesis `TracesComeFirst`: an actor
  that records the end of a run records its trace before, as `run_local` of `rlp` does; a script in
  another order breaks the property at once. `MCKb` assumes it of the scripts it checks. `TraceInv`
  says that the trace stands in the ledger before the end, so in every prefix the views can show.
- `SocketProofs`: `WireLosesNothing` (`NothingLost`), `AcksTellTheTruth` (`Socket!OkWasAccepted`)
  and `ForwardedAreWanted` (`Socket!NoOrphans`). `WireInv` follows a call through command,
  acknowledgement and timeout, says which frames can be on the wire at each of these, and that the
  messages written for a stream lie in one place each. `ForwardedAreWanted` is about a client that
  reads; `AcksTellTheTruth` and `WireLosesNothing` hold for one that has given up as well.
- `BrokerProofs`: `BudgetsHold`, `CacheIsSound`, `HitsAnswerTheQuestion`. `BrokerInv` adds that each
  entry stands under the key of a request that may be cached, within that request's budget, no key
  twice, and that what waits to be stored may be. The last theorem (`SameQuestion`) is then about
  the key: equal keys that were made of texts of the same lengths were made of the same texts, one
  after the other from the front (`OneReading`). It says that no field is missing from the key; that
  texts of other lengths cannot spell the same key is false (`OwnQuestion`, section 3).
- `ExecutorProofs`: `NothingUnapproved`, `EffectsOnce`. `ExecInv` says that an invocation is held
  once, by one task of its agent, and only after it was published (`HeldInv`, which needs that an
  agent has one worker), what is known of it at each place of the execution (`Fits`), and that what
  a caller is told of an attempt is true of it (`ReplyOK`). Without `HeldInv` two tasks could send
  for the same attempt; without `Fits` the fallback from Wasm to native code could send what was
  rejected.
- `PartsProofs`, the parts that stand alone and the runtime:
  - `ValidationCorrect` (`VerdictCorrect`). `GraphInv` says the in-degrees count the edges from
    nodes still present, that the queue holds the present nodes without one, and that no node of a
    cycle is ever removed.
  - `CachesStayFresh` (`CachesAreFresh`). `SecretInv`: what a reader holds between the provider and
    the cache was current when its call began, and a cached value was current a TTL before it
    expires; `ModuleInv`: the content in the cache, and the one a load has compiled, belong to the
    signature they are kept under, and what the file holds is among what the load has seen.
  - `OverrideIntersects` for any two policies and any request, key by key (a host without a port is
    the case that needs care); from it `EffectiveCapsOnlyRevoke` for the two overrides of a spawn
    and `OverridesOnlyRevoke` (`OverridesRevoke`).
  - `AnswersWhole` (`AnswersAreWhole`) for answers, buffers and rings of any length.
  - `MonitorShowsTheStream` (`ViewIsTheStream`). `MonitorInv` describes each pane as a function of
    the events handled since its last clear, and what handling the buffer on a resume does to it,
    one event after the other.
  - `AgentsVerified` (`AgentsAreVerified`), for any search directories, from `DigestsAreVerified`,
    `AsAsked`, `BundlesStayInside` and `ListedDescribed`. The last one says that what `list` shows
    of a directory is what `describe` finds there: the manifest listed lies at one of the three
    places of its agent (`TidyPlace`), every other place of that agent belongs to it as well, and
    the order in which `describe` tries them agrees with the order of the list. It has the
    hypothesis `Tidy`: each manifest lies at a place of its agent and of no other agent. TLC shows
    that the second half is needed: a name may itself contain the `@` that separates a variant.
  - `LocalPartsMasked` (`LocalPartsAreMasked`), for payloads of any depth up to `MaxDepth` and texts
    with any number of `@`s. The maskers are functions on trees; what they do is proved by induction
    over the depth of the tree: every text below that splits has been masked once more, and the tree
    changes iff it holds one. Of what else can show an address it says nothing (`NoAddressShown`,
    section 3).
  - `OpeningsSafe` (`OpeningsAreSafe`). `PayloadsResolved` goes over the tree of a payload: a value
    that resolves is either a template, whose parameter was searched for braces, or has parts that
    resolve. `MailersConfirm` follows from the check on the payload as filled. `ExpressionsRead`
    says that the reader, which looks for its operators one after the other anywhere in the text,
    cuts an expression where it was joined, unless the literal holds an operator itself.
  - `LayersExplained` (`LayersExplain`). Each stage is a document whose paths are sequences
    (`StagesAreDocs`). `UnlistedStays`: where a path differs between two documents, the shortest
    prefix of it at which not both have an object is an entry, so what no entry is about has not
    changed; `PartHas`: an entry has what its stage has at every path below its own. So the value of
    a key is that of the last layer that has an entry for it or for an object it is in, and its
    default without one (`LayersTell`). `RouteSaysMost`: the order of the rules is total on those of
    one map, so the sorted map has a first rule that matches, and no other one that matches has a
    longer literal.
  - `AgentsAreReady` (`ReadyGate`). `HandshakeInv` describes the two sides of the barrier: what the
    guest has signalled and stored, and where the host can be once it has signalled.

Inductions over the length of a sequence, over the depth of a value and over the stages of the
configuration (`SetInduction` and its uses) go through the set form of well-founded induction, a set
of naturals without a least element being empty; the library's induction rules take an operator as a
parameter, which the provers cannot instantiate.

Assumptions: only the named `ASSUME`s of the modules, which TLC evaluates for the instances: finite
node sets, positive capacities and attempts, an order of nodes without repetition, configurations,
inputs and scripts of the right shape, and a `None` that is no value; and `TracesComeFirst` for the
one theorem that has it as a hypothesis. Those about the inputs of the pure parts say what is left
out of them: the literal of a port expression has no quote within its quotes (`IsExpression`), the
patterns of a map have a star at their end only, and no two are the same text (`IsRouting`), keys
are sequences of words (`IsWorld`).

Only model-checked:

- liveness (`PublishReturns`, `CloseEndsRegistered`, `RunTerminates`, `RunsEnd`, `FollowerReturns`,
  `CaughtUp`, `TimedCallsEnd`, `SpawnsSettle`, `WorkersGoOn`, `StreamsEnd`): fairness and `ENABLED`
  are beyond the prover;
- the claims of the documentation in section 3, which TLC refutes, and the properties without a run
  that section 5 does not name. Every other invariant and action property that a run checks is
  proved, and so is the refinement `RefinesView`.

## 6. Not modelled

- RMP frames and core types: a codec and type definitions without state; a message is a value.
- Name registry: a look-up of files read once at start. Router: keyword heuristics over text, of
  which there is nothing to state but their word lists.
- Guest SDKs: guests are arbitrary programs to `Runtime`.
- Of the command line only the client of a run is in `ControlPlane`; scaffolding, building, printing
  and argument parsing are file and process I/O.
- Of native agents and the local executor the effects, errors and panics are in `Executor`; prompts
  and texts are left out. Of the monitor, drawing and the collector's wiring.
- Network, knowledge-base and file hostcalls beyond their capability checks; token estimation, HTTP
  and float backoff; logging, statistics that nothing reads; `vacuum`.
- The forgetting of control-topic dedupe keys in `ControlPlane` (65 536 entries, 30 s; retries come
  within 0.4 s), which `Bus` has.
- In `Config` the deprecated names hold no objects, since their keys have scalars.
- A row of a view is the number of the event that wrote it, a text the letters, or what stands
  between its `@`s, that a property can tell apart.
