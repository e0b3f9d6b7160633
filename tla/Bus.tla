-------------------------------- MODULE Bus --------------------------------
(***************************************************************************)
(* The in-process message bus of crates/bus/src/lib.rs: one server, its    *)
(* topics, the bounded channel and the dedupe cache of every subscriber,   *)
(* and any number of concurrent publish() calls.                           *)
(*                                                                         *)
(* publish() is a chain of awaits, so it is a chain of actions here: the   *)
(* admission checks, the snapshot of the topic's subscribers, and for each *)
(* subscriber in turn the reservation in its dedupe cache (one lock), the  *)
(* push into its channel (immediate, or a wait that ends by room, by a     *)
(* dropped receiver, by the send timeout or by cancellation of the call)   *)
(* and the drop notice on rlp/sys/drops; at the end the reservations of    *)
(* the failed deliveries are rolled back one lock at a time.               *)
(*                                                                         *)
(* Data kept: a message is its dedupe key (trace_id, msg_id) with an       *)
(* expiry and a flag for schema CT_ACTION_DECISION; a drop notice is one   *)
(* value.  Time is a small clock.                                          *)
(***************************************************************************)
EXTENDS Integers, Sequences, FiniteSets, SequencesExt

CONSTANTS
    Publishers,     \* concurrent callers of Bus::publish
    Subs,           \* subscriber instances (ids are never reused)
    Msgs,           \* messages, identified by their dedupe key
    Topics,         \* topics in use, DropTopic among them
    DropTopic,      \* "rlp/sys/drops"
    Notice,         \* a DropNotice message
    TopicOf,        \* [Subs -> Topics]: the topic each instance subscribes to
    ExpiresAt,      \* [Msgs -> Nat]: created_at_ms + ttl_ms
    Decisions,      \* the messages with schema CT_ACTION_DECISION
    KindOf,         \* [Publishers -> Kinds]
    AclChoices,     \* the allow lists configure_action_decision_acl is given
    QueueCapacity,  \* BusConfig.queue_capacity
    DedupeCapacity, \* BusConfig.dedupe_capacity
    DedupeMaxAge,   \* BusConfig.dedupe_max_age_ms
    MaxTime,        \* bound: the clock stops here
    MaxCalls        \* bound: publish calls made in all

Kinds == {"ui", "tui", "agent"}

ASSUME BusAssumption ==
    /\ DropTopic \in Topics
    /\ Notice \notin Msgs
    /\ TopicOf \in [Subs -> Topics]
    /\ ExpiresAt \in [Msgs -> Nat]
    /\ Decisions \subseteq Msgs
    /\ KindOf \in [Publishers -> Kinds]
    /\ AclChoices \subseteq SUBSET Kinds
    /\ QueueCapacity \in Nat \ {0}
    /\ DedupeCapacity \in Nat \ {0}
    /\ DedupeMaxAge \in Nat
    /\ MaxTime \in Nat
    /\ MaxCalls \in Nat

VARIABLES
    closed,     \* Server.closed
    cleared,    \* shutdown() has run topics.clear()
    topics,     \* Server.topics: the subscriber vector of each topic
    acl,        \* the publisher kinds allowed to send action decisions
    subState,   \* where each subscriber instance is in its life
    queue,      \* content of each subscriber's mpsc channel
    dedupe,     \* each subscriber's LRU cache, least recent first
    pc,         \* where each publish call is
    call,       \* its arguments and the now_ms it captured
    snap, idx,  \* its copy of the subscriber vector and its position
    nsnap, nidx,\* the same for the drop notice being emitted
    held,       \* pending_reservations: subscribers to roll back
    err,        \* primary_error
    calls,      \* publish calls made so far, for MaxCalls
    now,        \* the wall clock
    stats,      \* Metrics
    \* History variables, read by no action.
    enq,        \* the data messages put into each channel, in order
    forgotten,  \* keys a cache has evicted or aged out
    told,       \* keys whose sender gave the subscriber up, in a call that fails,
                \* since the last duplicate of them was dropped there
    acked       \* keys whose publisher got Ok with the subscriber in its snapshot

serverVars == <<closed, cleared, topics, acl>>
subVars    == <<subState, queue>>
callVars   == <<pc, call, snap, idx, nsnap, nidx, held, err, calls>>
histVars   == <<enq, forgotten, told, acked>>
vars       == <<serverVars, subVars, dedupe, callVars, now, stats, histVars>>

-----------------------------------------------------------------------------
(* Helpers *)

\* A receiver exists from channel() to the drop of the Subscription's rx.
RxOpen(s) == subState[s] \in {"checked", "live", "ended", "leaving"}

HasRoom(s) == Len(queue[s]) < QueueCapacity

\* States of a call in which its two snapshots keep their Senders alive.
InLoop(p) == pc[p] \in {"deliver", "push", "wait", "notice", "npush", "nwait"}

Current(p) == snap[p][idx[p]]
NCurrent(p) == nsnap[p][nidx[p]]

\* A Sender of s is alive: in the topic map or in some call's snapshot.
SenderAlive(s) ==
    \/ \E t \in Topics : s \in ToSet(topics[t])
    \/ \E p \in Publishers : InLoop(p) /\ (s \in ToSet(snap[p]) \/ s \in ToSet(nsnap[p]))

\* Call p holds an uncommitted DedupeReservation on s.
Reserves(p, s) ==
    \/ s \in held[p]
    \/ pc[p] \in {"push", "wait"} /\ Current(p) = s

(* DedupeCache *)

Keys(c) == {c[i].key : i \in DOMAIN c}

Aged(e, t) == t - e.ts > DedupeMaxAge

\* prune: pop from the least recent end up to the first entry young enough.
Prune(c, t) ==
    LET young == {i \in DOMAIN c : ~Aged(c[i], t)}
    IN  IF young = {} THEN <<>>
        ELSE SubSeq(c, Min(young), Len(c))

\* LruCache::put of an absent key: the least recent entry makes room for it.
MakeRoom(c) == IF Len(c) >= DedupeCapacity THEN Tail(c) ELSE c

Put(c, m, t) == Append(MakeRoom(c), [key |-> m, ts |-> t])

Pop(c, m) == RemoveFirstMatch(c, LAMBDA e : e.key = m)

\* FailureSeverity::rank and update_primary_error.
Rank(e) == IF e = "none" THEN 0 ELSE IF e = "closed" THEN 1 ELSE 2

Worse(old, new) == IF Rank(new) > Rank(old) THEN new ELSE old

StatFields == {"published", "delivered", "drops_ttl", "drops_duplicate",
               "drops_backpressure", "drop_seq"}

\* The locals of a call that is not running.
NoCall == [topic |-> DropTopic, msg |-> Notice, now |-> 0]

-----------------------------------------------------------------------------
Init ==
    /\ closed = FALSE
    /\ cleared = FALSE
    /\ topics = [t \in Topics |-> <<>>]
    /\ acl = {"ui", "tui"}
    /\ subState = [s \in Subs |-> "idle"]
    /\ queue = [s \in Subs |-> <<>>]
    /\ dedupe = [s \in Subs |-> <<>>]
    /\ pc = [p \in Publishers |-> "idle"]
    /\ call = [p \in Publishers |-> NoCall]
    /\ snap = [p \in Publishers |-> <<>>]
    /\ idx = [p \in Publishers |-> 1]
    /\ nsnap = [p \in Publishers |-> <<>>]
    /\ nidx = [p \in Publishers |-> 1]
    /\ held = [p \in Publishers |-> {}]
    /\ err = [p \in Publishers |-> "none"]
    /\ calls = 0
    /\ now = 0
    /\ stats = [f \in StatFields |-> 0]
    /\ enq = [s \in Subs |-> <<>>]
    /\ forgotten = [s \in Subs |-> {}]
    /\ told = [s \in Subs |-> {}]
    /\ acked = [s \in Subs |-> {}]

-----------------------------------------------------------------------------
(* Server::subscribe, Subscription as a stream, and its Drop *)

\* The closed flag is read first; nothing else is locked yet.
SubscribeCheck(s) ==
    /\ subState[s] = "idle"
    /\ subState' = [subState EXCEPT ![s] = IF closed THEN "refused" ELSE "checked"]
    /\ UNCHANGED <<serverVars, queue, dedupe, callVars, now, stats, histVars>>

\* The subscriber, with its channel and cache, is pushed into the topic.
SubscribePush(s) ==
    /\ subState[s] = "checked"
    /\ subState' = [subState EXCEPT ![s] = "live"]
    /\ topics' = [topics EXCEPT ![TopicOf[s]] = Append(@, s)]
    /\ UNCHANGED <<closed, cleared, acl, queue, dedupe, callVars, now, stats, histVars>>

Recv(s) ==
    /\ subState[s] = "live"
    /\ queue[s] # <<>>
    /\ queue' = [queue EXCEPT ![s] = Tail(@)]
    /\ UNCHANGED <<serverVars, subState, dedupe, callVars, now, stats, histVars>>

\* poll_recv returns None: the channel is drained and its senders are gone.
EndOfStream(s) ==
    /\ subState[s] = "live"
    /\ queue[s] = <<>>
    /\ ~SenderAlive(s)
    /\ subState' = [subState EXCEPT ![s] = "ended"]
    /\ UNCHANGED <<serverVars, queue, dedupe, callVars, now, stats, histVars>>

\* remove_subscriber: retain the others, drop the entry when none is left.
RemoveSubscriber(t, s) == [topics EXCEPT ![t] = RemoveFirst(@, s)]

\* Drop of a Subscription unregisters it ...
Unsubscribe(s) ==
    /\ subState[s] \in {"live", "ended"}
    /\ subState' = [subState EXCEPT ![s] = "leaving"]
    /\ topics' = RemoveSubscriber(TopicOf[s], s)
    /\ UNCHANGED <<closed, cleared, acl, queue, dedupe, callVars, now, stats, histVars>>

\* ... and then drops its receiver, with what the channel still holds.
DropReceiver(s) ==
    /\ subState[s] = "leaving"
    /\ subState' = [subState EXCEPT ![s] = "gone"]
    /\ queue' = [queue EXCEPT ![s] = <<>>]
    /\ UNCHANGED <<serverVars, dedupe, callVars, now, stats, histVars>>

-----------------------------------------------------------------------------
(* Server::shutdown, configure_action_decision_acl, the clock *)

Close ==
    /\ ~closed
    /\ closed' = TRUE
    /\ UNCHANGED <<cleared, topics, acl, subVars, dedupe, callVars, now, stats, histVars>>

\* Mutant: shutdown only raises the flag.
ClearTopicsSkipped ==
    /\ closed /\ ~cleared
    /\ cleared' = TRUE
    /\ UNCHANGED <<closed, topics, acl, subVars, dedupe, callVars, now, stats, histVars>>

ClearTopics ==
    /\ closed /\ ~cleared
    /\ cleared' = TRUE
    /\ topics' = [t \in Topics |-> <<>>]
    /\ UNCHANGED <<closed, acl, subVars, dedupe, callVars, now, stats, histVars>>

ConfigureAcl(kinds) ==
    /\ acl' = kinds
    /\ UNCHANGED <<closed, cleared, topics, subVars, dedupe, callVars, now, stats, histVars>>

Tick ==
    /\ now < MaxTime
    /\ now' = now + 1
    /\ UNCHANGED <<serverVars, subVars, dedupe, callVars, stats, histVars>>

-----------------------------------------------------------------------------
(* Server::publish: admission *)

Forbidden(p, m) == m \in Decisions /\ KindOf[p] \notin acl

Expired(m) == now >= ExpiresAt[m]

Bump(field) == stats' = [stats EXCEPT ![field] = @ + 1]

StartCall(p, t, m) ==
    /\ pc[p] = "idle"
    /\ calls < MaxCalls
    /\ calls' = calls + 1

\* Err(Closed) or Err(Forbidden): nothing else happens.
PublishRefused(p, t, m) ==
    /\ StartCall(p, t, m)
    /\ closed \/ Forbidden(p, m)
    /\ UNCHANGED <<serverVars, subVars, dedupe, pc, call, snap, idx, nsnap, nidx,
                   held, err, now, stats, histVars>>

\* Too late: counted, notified, and answered with MessageExpired.
PublishExpired(p, t, m) ==
    /\ StartCall(p, t, m)
    /\ ~closed /\ ~Forbidden(p, m) /\ Expired(m)
    /\ Bump("drops_ttl")
    /\ call' = [call EXCEPT ![p] = [topic |-> t, msg |-> m, now |-> now]]
    /\ err' = [err EXCEPT ![p] = "expired"]
    /\ pc' = [pc EXCEPT ![p] = "notice"]
    /\ UNCHANGED <<serverVars, subVars, dedupe, snap, idx, nsnap, nidx, held, now, histVars>>

PublishAdmitted(p, t, m) ==
    /\ StartCall(p, t, m)
    /\ ~closed /\ ~Forbidden(p, m) /\ ~Expired(m)
    /\ Bump("published")
    /\ call' = [call EXCEPT ![p] = [topic |-> t, msg |-> m, now |-> now]]
    /\ pc' = [pc EXCEPT ![p] = "snapshot"]
    /\ UNCHANGED <<serverVars, subVars, dedupe, snap, idx, nsnap, nidx, held, err, now, histVars>>

\* topics.get(topic).clone()
TakeSnapshot(p) ==
    /\ pc[p] = "snapshot"
    /\ snap' = [snap EXCEPT ![p] = topics[call[p].topic]]
    /\ idx' = [idx EXCEPT ![p] = 1]
    /\ pc' = [pc EXCEPT ![p] = "deliver"]
    /\ UNCHANGED <<serverVars, subVars, dedupe, call, nsnap, nidx, held, err, calls,
                   now, stats, histVars>>

-----------------------------------------------------------------------------
(* Server::deliver and push_message, one subscriber of the snapshot at a time *)

AtSubscriber(p) == pc[p] = "deliver" /\ idx[p] <= Len(snap[p])

\* The cache of p's current subscriber after the prune of contains().
Pruned(p) == Prune(dedupe[Current(p)], call[p].now)

\* History: what the cache of s loses when only kept stays of it.
Forget(s, kept) ==
    forgotten' = [forgotten EXCEPT ![s] = @ \cup (Keys(dedupe[s]) \ Keys(kept))]

\* Mutant: a duplicate is counted and dropped silently.
DropDuplicateSilently(p) ==
    LET s == Current(p)
        m == call[p].msg
    IN  /\ AtSubscriber(p)
        /\ m \in Keys(Pruned(p))
        /\ dedupe' = [dedupe EXCEPT ![s] = Pruned(p)]
        /\ Bump("drops_duplicate")
        /\ idx' = [idx EXCEPT ![p] = @ + 1]
        /\ Forget(s, Pruned(p))
        /\ told' = [told EXCEPT ![s] = @ \ {m}]
        /\ UNCHANGED <<serverVars, subVars, pc, call, snap, nsnap, nidx, held, err, calls,
                       now, enq, acked>>

\* reserve() finds the key: the message is dropped for this subscriber.
DropDuplicate(p) ==
    LET s == Current(p)
        m == call[p].msg
    IN  /\ AtSubscriber(p)
        /\ m \in Keys(Pruned(p))
        /\ dedupe' = [dedupe EXCEPT ![s] = Pruned(p)]
        /\ Bump("drops_duplicate")
        /\ idx' = [idx EXCEPT ![p] = @ + 1]
        /\ pc' = [pc EXCEPT ![p] = "notice"]
        /\ Forget(s, Pruned(p))
        /\ told' = [told EXCEPT ![s] = @ \ {m}]
        /\ UNCHANGED <<serverVars, subVars, call, snap, nsnap, nidx, held, err, calls,
                       now, enq, acked>>

\* Mutant: the key is looked up but not recorded before the send.
ReserveWithoutPut(p) ==
    LET s == Current(p)
    IN  /\ AtSubscriber(p)
        /\ call[p].msg \notin Keys(Pruned(p))
        /\ dedupe' = [dedupe EXCEPT ![s] = Pruned(p)]
        /\ pc' = [pc EXCEPT ![p] = "push"]
        /\ Forget(s, Pruned(p))
        /\ UNCHANGED <<serverVars, subVars, call, snap, idx, nsnap, nidx, held, err, calls,
                       now, stats, enq, told, acked>>

\* reserve() records the key before the message is sent.
Reserve(p) ==
    LET s == Current(p)
        m == call[p].msg
    IN  /\ AtSubscriber(p)
        /\ m \notin Keys(Pruned(p))
        /\ dedupe' = [dedupe EXCEPT ![s] = Put(Pruned(p), m, call[p].now)]
        /\ pc' = [pc EXCEPT ![p] = "push"]
        /\ Forget(s, MakeRoom(Pruned(p)))
        /\ UNCHANGED <<serverVars, subVars, call, snap, idx, nsnap, nidx, held, err, calls,
                       now, stats, enq, told, acked>>

\* try_send, or the pending send, succeeds; the reservation is committed.
PushSend(p) ==
    LET s == Current(p)
        m == call[p].msg
    IN  /\ pc[p] \in {"push", "wait"}
        /\ RxOpen(s)
        /\ HasRoom(s)
        /\ queue' = [queue EXCEPT ![s] = Append(@, m)]
        /\ enq' = [enq EXCEPT ![s] = Append(@, m)]
        /\ Bump("delivered")
        /\ idx' = [idx EXCEPT ![p] = @ + 1]
        /\ pc' = [pc EXCEPT ![p] = "deliver"]
        /\ UNCHANGED <<serverVars, subState, dedupe, call, snap, nsnap, nidx, held, err,
                       calls, now, forgotten, told, acked>>

\* The channel is full: wait for room, at most send_timeout.
PushFull(p) ==
    LET s == Current(p)
    IN  /\ pc[p] = "push"
        /\ RxOpen(s)
        /\ ~HasRoom(s)
        /\ pc' = [pc EXCEPT ![p] = "wait"]
        /\ UNCHANGED <<serverVars, subVars, dedupe, call, snap, idx, nsnap, nidx, held, err,
                       calls, now, stats, histVars>>

\* The receiver is gone: unregister the subscriber, keep the reservation
\* for the rollback.
PushClosed(p) ==
    LET s == Current(p)
    IN  /\ pc[p] \in {"push", "wait"}
        /\ ~RxOpen(s)
        /\ topics' = RemoveSubscriber(call[p].topic, s)
        /\ held' = [held EXCEPT ![p] = @ \cup {s}]
        /\ err' = [err EXCEPT ![p] = Worse(@, "closed")]
        /\ idx' = [idx EXCEPT ![p] = @ + 1]
        /\ pc' = [pc EXCEPT ![p] = "deliver"]
        /\ UNCHANGED <<closed, cleared, acl, subVars, dedupe, call, snap, nsnap, nidx, calls,
                       now, stats, histVars>>

\* Another call waits for s too: a slot that is free may already be its.
Contended(p, s) ==
    \E q \in Publishers \ {p} :
        \/ pc[q] = "wait" /\ Current(q) = s
        \/ pc[q] = "nwait" /\ NCurrent(q) = s

\* Mutant: send() without a timeout.
PushTimeoutNever(p) == pc[p] = "wait" /\ FALSE /\ UNCHANGED vars

\* Mutant: the reservation is committed before the outcome of the send is known.
PushTimeoutCommitted(p) ==
    LET s == Current(p)
    IN  /\ pc[p] = "wait"
        /\ RxOpen(s)
        /\ ~HasRoom(s) \/ Contended(p, s)
        /\ Bump("drops_backpressure")
        /\ err' = [err EXCEPT ![p] = Worse(@, "backpressure")]
        /\ idx' = [idx EXCEPT ![p] = @ + 1]
        /\ pc' = [pc EXCEPT ![p] = "notice"]
        /\ UNCHANGED <<serverVars, subVars, dedupe, call, snap, nsnap, nidx, held, calls, now,
                       histVars>>

PushTimeout(p) ==
    LET s == Current(p)
    IN  /\ pc[p] = "wait"
        /\ RxOpen(s)
        /\ ~HasRoom(s) \/ Contended(p, s)
        /\ Bump("drops_backpressure")
        /\ held' = [held EXCEPT ![p] = @ \cup {s}]
        /\ err' = [err EXCEPT ![p] = Worse(@, "backpressure")]
        /\ idx' = [idx EXCEPT ![p] = @ + 1]
        /\ pc' = [pc EXCEPT ![p] = "notice"]
        /\ UNCHANGED <<serverVars, subVars, dedupe, call, snap, nsnap, nidx, calls, now,
                       histVars>>

DeliveriesDone(p) ==
    /\ pc[p] = "deliver"
    /\ idx[p] > Len(snap[p])
    /\ pc' = [pc EXCEPT ![p] = "rollback"]
    /\ UNCHANGED <<serverVars, subVars, dedupe, call, snap, idx, nsnap, nidx, held, err,
                   calls, now, stats, histVars>>

\* Mutant: the reservation being worked on has no Drop.
CancelLeaks(p) ==
    /\ pc[p] \in {"wait", "nwait"}
    /\ err' = [err EXCEPT ![p] = "cancelled"]
    /\ pc' = [pc EXCEPT ![p] = "rollback"]
    /\ UNCHANGED <<serverVars, subVars, dedupe, call, snap, idx, nsnap, nidx, held, calls, now,
                   stats, histVars>>

\* The caller drops the future while it is suspended in a send: every
\* reservation that is not committed is released by its Drop.
Cancel(p) ==
    /\ pc[p] \in {"wait", "nwait"}
    /\ held' = [held EXCEPT ![p] = IF pc[p] = "wait" THEN @ \cup {Current(p)} ELSE @]
    /\ err' = [err EXCEPT ![p] = "cancelled"]
    /\ pc' = [pc EXCEPT ![p] = "rollback"]
    /\ UNCHANGED <<serverVars, subVars, dedupe, call, snap, idx, nsnap, nidx, calls, now,
                   stats, histVars>>

\* Mutant: the reservation is dropped, its key stays.
RollbackKeepsKey(p) ==
    /\ pc[p] = "rollback"
    /\ \E s \in held[p] : held' = [held EXCEPT ![p] = @ \ {s}]
    /\ UNCHANGED <<serverVars, subVars, dedupe, pc, call, snap, idx, nsnap, nidx, err, calls,
                   now, stats, histVars>>

\* rollback() of one reservation: the key leaves the cache, whoever put it there.
Rollback(p) ==
    /\ pc[p] = "rollback"
    /\ \E s \in held[p] :
           /\ dedupe' = [dedupe EXCEPT ![s] = Pop(@, call[p].msg)]
           /\ held' = [held EXCEPT ![p] = @ \ {s}]
           /\ told' = [told EXCEPT ![s] = IF err[p] = "none" THEN @ ELSE @ \cup {call[p].msg}]
    /\ UNCHANGED <<serverVars, subVars, pc, call, snap, idx, nsnap, nidx, err, calls, now,
                   stats, enq, forgotten, acked>>

Return(p) ==
    /\ pc[p] = "rollback"
    /\ held[p] = {}
    /\ acked' = [s \in Subs |->
           IF err[p] = "none" /\ s \in ToSet(snap[p])
           THEN acked[s] \cup {call[p].msg} ELSE acked[s]]
    /\ pc' = [pc EXCEPT ![p] = "idle"]
    /\ call' = [call EXCEPT ![p] = NoCall]
    /\ snap' = [snap EXCEPT ![p] = <<>>]
    /\ idx' = [idx EXCEPT ![p] = 1]
    /\ nsnap' = [nsnap EXCEPT ![p] = <<>>]
    /\ nidx' = [nidx EXCEPT ![p] = 1]
    /\ err' = [err EXCEPT ![p] = "none"]
    /\ UNCHANGED <<serverVars, subVars, dedupe, held, calls, now, stats, enq, forgotten,
                   told>>

-----------------------------------------------------------------------------
(* Server::emit_drop *)

EmitDrop(p) ==
    /\ pc[p] = "notice"
    /\ Bump("drop_seq")
    /\ nsnap' = [nsnap EXCEPT ![p] = topics[DropTopic]]
    /\ nidx' = [nidx EXCEPT ![p] = 1]
    /\ pc' = [pc EXCEPT ![p] = "npush"]
    /\ UNCHANGED <<serverVars, subVars, dedupe, call, snap, idx, held, err, calls, now,
                   histVars>>

AtNotice(p) == pc[p] \in {"npush", "nwait"} /\ nidx[p] <= Len(nsnap[p])

NextNotice(p) ==
    /\ nidx' = [nidx EXCEPT ![p] = @ + 1]
    /\ pc' = [pc EXCEPT ![p] = "npush"]

NoticeSend(p) ==
    LET s == NCurrent(p)
    IN  /\ AtNotice(p)
        /\ RxOpen(s)
        /\ HasRoom(s)
        /\ queue' = [queue EXCEPT ![s] = Append(@, Notice)]
        /\ Bump("delivered")
        /\ NextNotice(p)
        /\ UNCHANGED <<serverVars, subState, dedupe, call, snap, idx, nsnap, held, err,
                       calls, now, histVars>>

NoticeFull(p) ==
    /\ AtNotice(p) /\ pc[p] = "npush"
    /\ RxOpen(NCurrent(p))
    /\ ~HasRoom(NCurrent(p))
    /\ pc' = [pc EXCEPT ![p] = "nwait"]
    /\ UNCHANGED <<serverVars, subVars, dedupe, call, snap, idx, nsnap, nidx, held, err,
                   calls, now, stats, histVars>>

NoticeClosed(p) ==
    /\ AtNotice(p)
    /\ ~RxOpen(NCurrent(p))
    /\ topics' = RemoveSubscriber(DropTopic, NCurrent(p))
    /\ NextNotice(p)
    /\ UNCHANGED <<closed, cleared, acl, subVars, dedupe, call, snap, idx, nsnap, held, err,
                   calls, now, stats, histVars>>

\* The notice is given up with a warning.
NoticeTimeout(p) ==
    /\ AtNotice(p) /\ pc[p] = "nwait"
    /\ RxOpen(NCurrent(p))
    /\ ~HasRoom(NCurrent(p)) \/ Contended(p, NCurrent(p))
    /\ NextNotice(p)
    /\ UNCHANGED <<serverVars, subVars, dedupe, call, snap, idx, nsnap, held, err, calls,
                   now, stats, histVars>>

\* Back to the delivery loop, or out of publish() for an expired message.
NoticeDone(p) ==
    /\ pc[p] = "npush"
    /\ nidx[p] > Len(nsnap[p])
    /\ nsnap' = [nsnap EXCEPT ![p] = <<>>]
    /\ nidx' = [nidx EXCEPT ![p] = 1]
    /\ pc' = [pc EXCEPT ![p] = IF err[p] = "expired" THEN "rollback" ELSE "deliver"]
    /\ UNCHANGED <<serverVars, subVars, dedupe, call, snap, idx, held, err, calls, now,
                   stats, histVars>>

-----------------------------------------------------------------------------
SubscriberStep(s) ==
    \/ SubscribeCheck(s) \/ SubscribePush(s) \/ Recv(s) \/ EndOfStream(s)
    \/ Unsubscribe(s) \/ DropReceiver(s)

\* The steps of a running call that depend on nobody's choice but its own.
CallStep(p) ==
    \/ TakeSnapshot(p) \/ DropDuplicate(p) \/ Reserve(p) \/ PushSend(p) \/ PushFull(p)
    \/ PushClosed(p) \/ PushTimeout(p) \/ DeliveriesDone(p) \/ Rollback(p) \/ Return(p)
    \/ EmitDrop(p) \/ NoticeSend(p) \/ NoticeFull(p) \/ NoticeClosed(p)
    \/ NoticeTimeout(p) \/ NoticeDone(p)

\* Clients publish on any topic but rlp/sys/drops, which is the server's.
PublishCall(p, t, m) ==
    PublishRefused(p, t, m) \/ PublishExpired(p, t, m) \/ PublishAdmitted(p, t, m)

Next ==
    \/ \E s \in Subs : SubscriberStep(s)
    \/ \E p \in Publishers, t \in Topics \ {DropTopic}, m \in Msgs : PublishCall(p, t, m)
    \/ \E p \in Publishers : CallStep(p) \/ Cancel(p)
    \/ \E kinds \in AclChoices : ConfigureAcl(kinds)
    \/ Close \/ ClearTopics \/ Tick

Spec == Init /\ [][Next]_vars

\* The runtime polls every ready task and its timers fire; nobody has to
\* subscribe, publish, receive, leave, close or cancel.
Fairness ==
    /\ \A p \in Publishers : WF_vars(CallStep(p))
    /\ \A s \in Subs : WF_vars(SubscribePush(s)) /\ WF_vars(EndOfStream(s))
                          /\ WF_vars(DropReceiver(s))
    /\ WF_vars(ClearTopics)

FairSpec == Spec /\ Fairness

\* Receivers that keep polling their Subscription, as the loops of the daemon do.
DrainSpec == FairSpec /\ \A s \in Subs : WF_vars(Recv(s))

-----------------------------------------------------------------------------
(* Properties *)

PcStates == {"idle", "snapshot", "deliver", "push", "wait", "notice", "npush", "nwait",
             "rollback"}
SubStates == {"idle", "refused", "checked", "live", "ended", "leaving", "gone"}
Errors == {"none", "closed", "backpressure", "expired", "cancelled"}
Entry == [key : Msgs, ts : Nat]

ServerType ==
    /\ closed \in BOOLEAN /\ cleared \in BOOLEAN
    /\ topics \in [Topics -> Seq(Subs)]
    /\ acl \subseteq Kinds

SubType ==
    /\ subState \in [Subs -> SubStates]
    /\ queue \in [Subs -> Seq(Msgs \cup {Notice})]
    /\ \A s \in Subs : Len(queue[s]) <= QueueCapacity

CacheType == dedupe \in [Subs -> Seq(Entry)]

CallType ==
    /\ pc \in [Publishers -> PcStates]
    /\ call \in [Publishers -> [topic : Topics, msg : Msgs \cup {Notice}, now : Nat]]
    /\ snap \in [Publishers -> Seq(Subs)]
    /\ idx \in [Publishers -> Nat \ {0}]
    /\ nsnap \in [Publishers -> Seq(Subs)]
    /\ nidx \in [Publishers -> Nat \ {0}]
    /\ held \in [Publishers -> SUBSET Subs]
    /\ err \in [Publishers -> Errors]
    /\ calls \in Nat

\* A running call has a message; while it pushes, it is within its snapshot.
CallShape ==
    \A p \in Publishers :
        /\ pc[p] # "idle" => call[p].msg \in Msgs
        /\ pc[p] \in {"push", "wait"} => idx[p] <= Len(snap[p])
        /\ pc[p] = "nwait" => nidx[p] <= Len(nsnap[p])

HistoryType ==
    /\ now \in Nat
    /\ stats \in [StatFields -> Nat]
    /\ enq \in [Subs -> Seq(Msgs)]
    /\ forgotten \in [Subs -> SUBSET Msgs]
    /\ told \in [Subs -> SUBSET Msgs]
    /\ acked \in [Subs -> SUBSET Msgs]

\* The shape of the state: channels hold messages and notices and never
\* exceed queue_capacity, caches hold stamped keys, a call's position is
\* within its snapshot.
TypeOK == ServerType /\ SubType /\ CacheType /\ CallType /\ CallShape /\ HistoryType

\* The inductive invariant behind AtMostOnce and NoLeakedReservation.  A key
\* that the cache of s has not forgotten is in the cache as soon as s was sent
\* the message or some call reserves it, never both at once, and one call at
\* most reserves it.
CacheDistinct ==
    \A s \in Subs : \A i, j \in DOMAIN dedupe[s] :
        dedupe[s][i].key = dedupe[s][j].key => i = j

IdleHoldsNothing == \A p \in Publishers : pc[p] = "idle" => held[p] = {}

SentIsCached ==
    \A s \in Subs : ToSet(enq[s]) \subseteq Keys(dedupe[s]) \cup forgotten[s]

ReservedIsCached ==
    \A p \in Publishers, s \in Subs :
        Reserves(p, s) /\ call[p].msg \notin forgotten[s]
            => call[p].msg \in Keys(dedupe[s]) /\ call[p].msg \notin ToSet(enq[s])

ReservedOnce ==
    \A p, q \in Publishers, s \in Subs :
        Reserves(p, s) /\ Reserves(q, s) /\ call[p].msg = call[q].msg /\ p # q
            => call[p].msg \in forgotten[s]

HeldOrCurrent ==
    \A p \in Publishers :
        pc[p] \in {"push", "wait"} /\ Current(p) \in held[p]
            => call[p].msg \in forgotten[Current(p)]

\* Duplicate suppression: whatever retries, cancellations and concurrent
\* calls do, a subscriber's channel is given the same key twice only if its
\* cache has evicted or aged out that key in between (deliver, DedupeCache).
AtMostOnce ==
    \A s \in Subs : \A i, j \in DOMAIN enq[s] :
        i # j /\ enq[s][i] = enq[s][j] => enq[s][i] \in forgotten[s]

\* A running call has reserved m for s and has neither sent it nor rolled it back.
InFlight(m, s) == \E p \in Publishers : call[p].msg = m /\ Reserves(p, s)

\* A failed or cancelled publish leaves no trace: a key is in a cache only
\* because the subscriber got the message or because a call that still runs
\* holds its reservation, so a retry is never taken for a duplicate
\* (DedupeReservation::rollback and Drop).
NoLeakedReservation ==
    \A s \in Subs : \A m \in Keys(dedupe[s]) :
        m \in ToSet(enq[s]) \/ InFlight(m, s)

\* What is proved inductive: the reservation protocol of deliver() as a whole.
DedupeInv ==
    /\ CacheDistinct /\ IdleHoldsNothing /\ SentIsCached
    /\ ReservedIsCached /\ ReservedOnce /\ HeldOrCurrent
    /\ AtMostOnce /\ NoLeakedReservation

AccountedFor(m, s) == m \in ToSet(enq[s]) \/ InFlight(m, s) \/ m \in told[s]

\* No loss is silent to every caller.  publish() answers Ok to a duplicate of a
\* call that may fail later; a message so acknowledged that a subscriber was
\* never sent is still being sent by a running call, or a call that held it
\* gave that subscriber up after the duplicate was dropped and answers an error
\* (or was cancelled), so its caller knows that it has to be sent again.
LossIsTold == \A s \in Subs : \A m \in acked[s] : AccountedFor(m, s)

\* Every drop that is counted (expired, duplicate, back-pressure) has its
\* notice emitted on rlp/sys/drops, or is about to have it.
DropsAreNotified ==
    stats.drops_ttl + stats.drops_duplicate + stats.drops_backpressure
        = stats.drop_seq + Cardinality({p \in Publishers : pc[p] = "notice"})

\* A subscriber whose Subscription was dropped is never in a topic again,
\* and no subscriber is in a topic twice.
NoStaleSubscriber ==
    \A t \in Topics :
        /\ \A s \in ToSet(topics[t]) : subState[s] \in {"live", "ended"} /\ TopicOf[s] = t
        /\ \A i, j \in DOMAIN topics[t] : topics[t][i] = topics[t][j] => i = j

\* A publish call always returns, even to subscribers that stop reading:
\* every wait is bounded by the send timeout.
PublishReturns ==
    \A p \in Publishers : pc[p] # "idle" ~> pc[p] = "idle"

\* Subscribers registered when close() clears the topics see the end of
\* their stream if they keep polling it, once the calls that still hold a
\* snapshot are done.
CloseEndsRegistered ==
    \A s \in Subs : WF_vars(Recv(s)) =>
        (closed /\ ~cleared /\ s \in ToSet(topics[TopicOf[s]])
            ~> subState[s] \notin {"checked", "live"})

\* What close() is tested for: no subscriber of a closed bus stays waiting.
CloseEndsSubscribers ==
    \A s \in Subs : (cleared /\ subState[s] = "live") ~> subState[s] # "live"

\* What the protocol calls a duplicate: a key the subscriber has already seen.
\* Then an acknowledged message was sent to it, or a running call is about to.
DuplicateWasSeen ==
    \A s \in Subs : \A m \in acked[s] : m \in ToSet(enq[s]) \/ InFlight(m, s)
=============================================================================
