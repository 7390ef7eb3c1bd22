------------------------------ MODULE DclComms ------------------------------
(***************************************************************************)
(* The path of a TLV from the consumer queue to the agent                  *)
(* (source/AdvSecurityDml/cujoagent_dcl_api.c).                            *)
(*                                                                         *)
(* Producers (RBUS callbacks, the FIFO loop, the L1 collectors) push       *)
(* events; the consumer queue thread pops them, builds one or more TLVs    *)
(* and hands each to the comms (socket) thread through the shared pointer  *)
(* consumer->tlv_ctx.tlv and a pair of eventfds.  It keeps consumer->lock  *)
(* from the moment it wakes until the queue is empty.  The comms thread    *)
(* answers the agent's "hello" and sends what it is told to send.          *)
(*                                                                         *)
(* An eventfd is a counter: a write adds to it, a read returns the sum and *)
(* clears it.  The notify values below are what is added.                  *)
(*                                                                         *)
(* The queue thread waits on queue_epoll, which holds the acknowledgements *)
(* of the comms thread and of the L1 collector, edge triggered: a wait is  *)
(* told once of a descriptor written since the last wait, and leaves at    *)
(* the first value it did not expect, the other descriptors unread.  Of    *)
(* the collector only this part is here; DclL1 has the rest.               *)
(***************************************************************************)
EXTENDS Integers, Sequences

CONSTANTS
  Events,             \* what an event sends: a non-empty sequence of tags
  Disconnects,        \* the events that stop the station's collector first
  MaxEvents,          \* bound: events pushed in a behaviour
  MaxHellos,          \* bound: hellos the agent sends in a behaviour
  MaxCollections      \* bound: L1 collections started in a behaviour

(* Mutant: the last row of the table is one enum constant too high. *)
tlv_notify_lut_shifted ==
  [ radio       |-> [ready |-> 2,  sent |-> 3],
    station     |-> [ready |-> 4,  sent |-> 5],
    batch       |-> [ready |-> 6,  sent |-> 7],
    csi_cfo     |-> [ready |-> 8,  sent |-> 9],
    temperature |-> [ready |-> 10, sent |-> 11],
    l1_done     |-> [ready |-> 14, sent |-> 15] ]

(* consumer->tlv_notify_lut: the pair of notify values of each TLV tag. *)
tlv_notify_lut ==
  [ radio       |-> [ready |-> 2,  sent |-> 3],
    station     |-> [ready |-> 4,  sent |-> 5],
    batch       |-> [ready |-> 6,  sent |-> 7],
    csi_cfo     |-> [ready |-> 8,  sent |-> 9],
    temperature |-> [ready |-> 10, sent |-> 11],
    l1_done     |-> [ready |-> 12, sent |-> 13] ]

NOTIFY_NONE == 0
NOTIFY_SOCKET_THREAD_STOP == 14
NOTIFY_SOCKET_THREAD_RETURN == 15

Tags == {"radio", "station", "batch", "csi_cfo", "temperature", "l1_done"}
ReadyValues == {2, 4, 6, 8, 10, 12}

(* The notify the comms loop answers a value read from the eventfd with:   *)
(* in every pair of the table sent is ready + 1.                           *)
SentFor(v) ==
  IF v \in ReadyValues THEN v + 1
  ELSE IF v = NOTIFY_SOCKET_THREAD_STOP THEN NOTIFY_SOCKET_THREAD_RETURN
  ELSE NOTIFY_NONE

ASSUME EventsAssumption ==
  Events \subseteq (Seq(Tags) \ {<<>>}) /\ Disconnects \subseteq Events
ASSUME BoundsAssumption ==
  MaxEvents \in Nat /\ MaxHellos \in Nat /\ MaxCollections \in Nat

VARIABLES
  lock,                    \* consumer->lock: "none" or "queue"
  queue,                   \* consumer->queue
  queue_wakeup,            \* consumer->queue_wakeup
  comms_ready,             \* consumer->comms_ready
  tlv,                     \* consumer->tlv_ctx.tlv: 0 (NULL) or the TLV's number
  comms_notification,      \* eventfd counter, queue -> comms
  comms_notification_ack,  \* eventfd counter, comms -> queue
  ackEdge,                 \* it was written since queue_epoll last reported it
  collector,               \* the collector in the slot, by its RETURN
  qpc, todo,               \* queue thread: control, TLVs left of the event
  cpc, batch, u, seen,     \* comms thread: control, fds epoll_wait returned,
                           \* value read, the TLV its NULL check looked at
  hellos,                  \* hello datagrams waiting in the socket
  pushed, greeted, started,\* counters behind the bounds
  emitted,                 \* TLVs built so far: the number of the last one
  delivered, confirmed,    \* numbers sent to the agent / reported as sent
  exact,                   \* TLVs built while nothing older was under way
  badAccess                \* the comms thread used a TLV it does not own

sharedVars == <<lock, queue, queue_wakeup, comms_ready>>
tlvVars    == <<tlv, emitted, confirmed, exact>>
ackVars    == <<comms_notification_ack, ackEdge>>
l1Vars     == <<collector, started>>
fdVars     == <<comms_notification, ackVars, l1Vars>>
queueVars  == <<qpc, todo>>
commsVars  == <<cpc, batch, u, seen>>
envVars    == <<hellos, pushed, greeted>>
wireVars   == <<delivered, badAccess>>
vars == <<sharedVars, tlvVars, fdVars, queueVars, commsVars, envVars, wireVars>>

NULL == 0

QueueControl == {"idle", "run", "find", "stop", "emit", "wait"}
CollectorControl == {"free", "running", "told", "returned", "ended"}
CommsControl == {"handshake", "hello", "loop", "check", "send", "ack",
                 "returned", "failed"}

Init ==
  /\ lock = "none" /\ queue = <<>> /\ queue_wakeup = FALSE /\ comms_ready = FALSE
  /\ tlv = NULL /\ emitted = 0 /\ confirmed = <<>> /\ exact = {}
  /\ comms_notification = 0 /\ comms_notification_ack = 0 /\ ackEdge = FALSE
  /\ collector = "free" /\ started = 0
  /\ qpc = "idle" /\ todo = <<>>
  /\ cpc = "handshake" /\ batch = {} /\ u = NOTIFY_NONE /\ seen = NULL
  /\ hellos = 0 /\ pushed = 0 /\ greeted = 0
  /\ delivered = <<>> /\ badAccess = FALSE

-----------------------------------------------------------------------------
(* Environment.                                                            *)

(* Mutant: the push forgets the predicate of the condition variable. *)
PushUnnoticed(e) ==
  /\ pushed < MaxEvents
  /\ lock = "none"
  /\ queue' = Append(queue, e)
  /\ pushed' = pushed + 1
  /\ UNCHANGED <<lock, queue_wakeup, comms_ready, tlvVars, fdVars, queueVars,
                 commsVars, hellos, greeted, wireVars>>

(* cujoagent_push_to_consumer_queue: the lock is held for the whole push. *)
Push(e) ==
  /\ pushed < MaxEvents
  /\ lock = "none"
  /\ queue' = Append(queue, e)
  /\ queue_wakeup' = TRUE
  /\ pushed' = pushed + 1
  /\ UNCHANGED <<lock, comms_ready, tlvVars, fdVars, queueVars, commsVars,
                 hellos, greeted, wireVars>>

(* The agent (re)starts and sends CUJO_FPC_HELLO. *)
AgentHello ==
  /\ greeted < MaxHellos
  /\ hellos' = hellos + 1
  /\ greeted' = greeted + 1
  /\ UNCHANGED <<sharedVars, tlvVars, fdVars, queueVars, commsVars, pushed,
                 wireVars>>

-----------------------------------------------------------------------------
(* The consumer queue thread: cujoagent_consumer_queue_loop.               *)

(* pthread_cond_wait returns with the lock once queue_wakeup is set. *)
QueueWake ==
  /\ qpc = "idle" /\ queue_wakeup /\ lock = "none"
  /\ lock' = "queue"
  /\ qpc' = "run"
  /\ UNCHANGED <<queue, queue_wakeup, comms_ready, tlvVars, fdVars, todo,
                 commsVars, envVars, wireVars>>

(* Pop an event; every handler drops its TLVs when comms are not ready. *)
QueuePop ==
  /\ qpc = "run" /\ todo = <<>> /\ queue # <<>>
  /\ queue' = Tail(queue)
  /\ todo' = IF comms_ready THEN Head(queue) ELSE <<>>
  /\ qpc' = IF Head(queue) \in Disconnects THEN "find" ELSE "run"
  /\ UNCHANGED <<lock, queue_wakeup, comms_ready, tlvVars, fdVars, commsVars,
                 envVars, wireVars>>

(* A disconnect looks for the station's collector under l1_lock.  One that *)
(* is found is told to stop, and its DONE goes ahead of the updates.       *)
FindCollector ==
  /\ qpc = "find"
  /\ \/ /\ qpc' = "run"
        /\ UNCHANGED <<todo, collector>>
     \/ /\ collector # "free"
        /\ collector' = IF collector = "running" THEN "told" ELSE collector
        /\ todo' = IF comms_ready THEN <<"l1_done">> \o todo ELSE todo
        /\ qpc' = "stop"
  /\ UNCHANGED <<sharedVars, tlvVars, comms_notification, ackVars, started,
                 commsVars, envVars, wireVars>>

(* The collector's answer, once a wait was told of it: read, or skipped    *)
(* with its edge gone, it is not reported again.                           *)
ReturnTaken == IF collector = "returned" THEN "ended" ELSE collector

(* The wait for RETURN, l1_lock held: whatever is reported is read, the    *)
(* acknowledgement of an emit given up before included; its result and the *)
(* timeout only lead to a warning.                                         *)
StopWaitOver ==
  /\ qpc = "stop"
  /\ qpc' = "run"
  /\ comms_notification_ack' = IF ackEdge THEN 0 ELSE comms_notification_ack
  /\ ackEdge' = FALSE
  /\ collector' = ReturnTaken
  /\ UNCHANGED <<sharedVars, tlvVars, comms_notification, started, todo, commsVars,
                 envVars, wireVars>>

(* Mutant: the queue thread goes back to sleep with the lock held. *)
QueueDrainedLocked ==
  /\ qpc = "run" /\ todo = <<>> /\ queue = <<>>
  /\ queue_wakeup' = FALSE
  /\ qpc' = "idle"
  /\ UNCHANGED <<lock, queue, comms_ready, tlvVars, fdVars, todo, commsVars,
                 envVars, wireVars>>

(* The queue is empty: clear the predicate and wait, which unlocks. *)
QueueDrained ==
  /\ qpc = "run" /\ todo = <<>> /\ queue = <<>>
  /\ queue_wakeup' = FALSE
  /\ lock' = "none"
  /\ qpc' = "idle"
  /\ UNCHANGED <<queue, comms_ready, tlvVars, fdVars, todo, commsVars, envVars,
                 wireVars>>

(* Nothing of an earlier TLV is under way: no value is in an eventfd and   *)
(* the comms thread is not serving one.                                    *)
Quiet ==
  /\ comms_notification = 0 /\ comms_notification_ack = 0
  /\ cpc \notin {"check", "send", "ack"}

(* cujoagent_emit_event_tlv up to the allocation of the TLV. *)
EmitAlloc ==
  /\ qpc = "run" /\ todo # <<>>
  /\ emitted' = emitted + 1
  /\ tlv' = emitted + 1
  /\ exact' = IF Quiet THEN exact \cup {emitted + 1} ELSE exact
  /\ qpc' = "emit"
  /\ UNCHANGED <<sharedVars, confirmed, fdVars, todo, commsVars, envVars, wireVars>>

(* calloc fails: the caller gives up the rest of the event. *)
EmitAllocFails ==
  /\ qpc = "run" /\ todo # <<>>
  /\ todo' = <<>>
  /\ UNCHANGED <<sharedVars, tlvVars, fdVars, qpc, commsVars, envVars, wireVars>>

(* cujoagent_write_event(comms_notification, ready): adds to the counter. *)
EmitNotify ==
  /\ qpc = "emit"
  /\ comms_notification' = comms_notification + tlv_notify_lut[Head(todo)].ready
  /\ qpc' = "wait"
  /\ UNCHANGED <<sharedVars, tlvVars, ackVars, l1Vars, todo, commsVars, envVars,
                 wireVars>>

(* Mutant: the caller ignores the failure and sends the rest of the event. *)
EmitGiveUpContinue ==
  /\ tlv' = NULL
  /\ comms_ready' = FALSE
  /\ todo' = Tail(todo)
  /\ qpc' = "run"
  /\ UNCHANGED <<lock, queue, queue_wakeup, emitted, confirmed, exact>>

(* The failing exit of emit: free the TLV, declare the agent not ready. *)
EmitGiveUp ==
  /\ tlv' = NULL
  /\ comms_ready' = FALSE
  /\ todo' = <<>>
  /\ qpc' = "run"
  /\ UNCHANGED <<lock, queue, queue_wakeup, emitted, confirmed, exact>>

(* The successful exit. *)
EmitConfirm ==
  /\ confirmed' = Append(confirmed, tlv)
  /\ tlv' = NULL
  /\ todo' = Tail(todo)
  /\ qpc' = "run"
  /\ UNCHANGED <<sharedVars, emitted, exact>>

(* Mutant: any answer counts, the value read is not compared. *)
EmitAckedByAnyone ==
  /\ qpc = "wait" /\ (ackEdge \/ collector = "returned")
  /\ EmitConfirm
  /\ comms_notification_ack' = IF ackEdge THEN 0 ELSE comms_notification_ack
  /\ ackEdge' = FALSE
  /\ collector' = ReturnTaken
  /\ UNCHANGED <<comms_notification, started, commsVars, envVars, wireVars>>

(* cujoagent_wait_for_event is told of a descriptor.  Only the exact value *)
(* announced for this tag counts as success; a collector's late RETURN     *)
(* fails the emit, and the acknowledgement that may be beside it was read  *)
(* before it or stays in the counter, its edge gone.                       *)
EmitAcked ==
  /\ qpc = "wait" /\ (ackEdge \/ collector = "returned")
  /\ IF /\ ackEdge /\ collector # "returned"
        /\ comms_notification_ack = tlv_notify_lut[Head(todo)].sent
       THEN EmitConfirm ELSE EmitGiveUp
  /\ IF ackEdge
       THEN \/ comms_notification_ack' = 0
            \/ collector = "returned" /\ UNCHANGED comms_notification_ack
       ELSE UNCHANGED comms_notification_ack
  /\ ackEdge' = FALSE
  /\ collector' = ReturnTaken
  /\ UNCHANGED <<comms_notification, started, commsVars, envVars, wireVars>>

(* Mutant: the wait for the acknowledgement has no timeout. *)
EmitTimeoutNever == FALSE /\ UNCHANGED vars

(* epoll_wait returns 0: nothing reported within EPOLL_TIMEOUT_MS, however *)
(* far the comms thread has come with this TLV.                            *)
EmitTimeout ==
  /\ qpc = "wait" /\ ~ackEdge /\ collector # "returned"
  /\ EmitGiveUp
  /\ UNCHANGED <<fdVars, commsVars, envVars, wireVars>>

-----------------------------------------------------------------------------
(* The L1 collector, as far as queue_epoll sees it.                        *)

(* cujoagent_start_l1_collection puts a collector into the slot, its       *)
(* acknowledgement into queue_epoll; not while l1_lock is held.            *)
CollectorStarts ==
  /\ collector = "free" /\ qpc # "stop" /\ started < MaxCollections
  /\ collector' = "running"
  /\ started' = started + 1
  /\ UNCHANGED <<sharedVars, tlvVars, comms_notification, ackVars, queueVars,
                 commsVars, envVars, wireVars>>

(* cujoagent_l1_collector reads STOP and answers RETURN, at any time after. *)
CollectorReturns ==
  /\ collector = "told"
  /\ collector' = "returned"
  /\ UNCHANGED <<sharedVars, tlvVars, comms_notification, ackVars, started, queueVars,
                 commsVars, envVars, wireVars>>

(* Its cleanup takes the acknowledgement out of queue_epoll and frees the  *)
(* slot under l1_lock; a collector that its timer ended never answered.    *)
CollectorLeaves ==
  /\ collector # "free" /\ qpc # "stop"
  /\ collector' = "free"
  /\ UNCHANGED <<sharedVars, tlvVars, comms_notification, ackVars, started, queueVars,
                 commsVars, envVars, wireVars>>

-----------------------------------------------------------------------------
(* The comms thread: cujoagent_socket_loop.                                *)

(* cujoagent_tlv_handshake: block for the first hello, answer the version. *)
Handshake ==
  /\ cpc = "handshake" /\ hellos > 0
  /\ hellos' = hellos - 1
  /\ cpc' \in {"hello", "failed"}
  /\ UNCHANGED <<sharedVars, tlvVars, fdVars, queueVars, batch, u, seen, pushed,
                 greeted, wireVars>>

(* Mutant: comms_ready is set without the consumer lock. *)
HelloUnlocked ==
  /\ cpc = "hello"
  /\ comms_ready' = TRUE
  /\ cpc' = "loop"
  /\ UNCHANGED <<lock, queue, queue_wakeup, tlvVars, fdVars, queueVars, batch, u,
                 seen, envVars, wireVars>>

(* comms_ready is set under the consumer lock. *)
HelloLocked ==
  /\ cpc = "hello" /\ lock = "none"
  /\ comms_ready' = TRUE
  /\ cpc' = "loop"
  /\ UNCHANGED <<lock, queue, queue_wakeup, tlvVars, fdVars, queueVars, batch, u,
                 seen, envVars, wireVars>>

ReadyFds ==
  (IF comms_notification > 0 THEN {"notify"} ELSE {}) \cup
  (IF hellos > 0 THEN {"sock"} ELSE {})

(* epoll_wait(comms_epoll): all ready fds, MAX_EPOLL_EVENTS covers both. *)
CommsEpoll ==
  /\ cpc = "loop" /\ batch = {} /\ ReadyFds # {}
  /\ batch' = ReadyFds
  /\ UNCHANGED <<sharedVars, tlvVars, fdVars, queueVars, cpc, u, seen, envVars,
                 wireVars>>

(* Mutant: the read leaves the counter set, so the value is handled twice. *)
CommsReadKeeps ==
  /\ cpc = "loop" /\ "notify" \in batch
  /\ batch' = batch \ {"notify"}
  /\ u' = comms_notification
  /\ comms_notification \in ReadyValues
  /\ cpc' = "check"
  /\ UNCHANGED <<sharedVars, tlvVars, fdVars, queueVars, seen, envVars, wireVars>>

(* Read the eventfd and look the value up; STOP is acknowledged at once,   *)
(* a value that is in neither table is dropped.                            *)
CommsRead ==
  /\ cpc = "loop" /\ "notify" \in batch
  /\ batch' = batch \ {"notify"}
  /\ u' = comms_notification
  /\ comms_notification' = 0
  /\ \/ /\ SentFor(comms_notification) = NOTIFY_NONE
        /\ UNCHANGED <<cpc, ackVars>>
     \/ /\ SentFor(comms_notification) = NOTIFY_SOCKET_THREAD_RETURN
        /\ comms_notification_ack' = comms_notification_ack + NOTIFY_SOCKET_THREAD_RETURN
        /\ ackEdge' = TRUE
        /\ cpc' = "returned"
     \/ /\ comms_notification \in ReadyValues
        /\ cpc' = "check"
        /\ UNCHANGED ackVars
  /\ UNCHANGED <<sharedVars, tlvVars, l1Vars, queueVars, seen, envVars, wireVars>>

(* The NULL check of consumer->tlv_ctx.tlv. *)
CommsCheck ==
  /\ cpc = "check"
  /\ seen' = tlv
  /\ cpc' = IF tlv = NULL THEN "loop" ELSE "send"
  /\ UNCHANGED <<sharedVars, tlvVars, fdVars, queueVars, batch, u, envVars, wireVars>>

(* Mutant: the TLV is sent once more after a successful sendto. *)
CommsSendRepeats ==
  /\ cpc = "send"
  /\ badAccess' = (badAccess \/ tlv # seen)
  /\ delivered' = Append(delivered, tlv)
  /\ cpc' \in {"send", "ack"}
  /\ Len(delivered) < MaxEvents + MaxEvents
  /\ UNCHANGED <<sharedVars, tlvVars, fdVars, queueVars, batch, u, seen, envVars>>

(* What sendto finds.  If the queue thread freed or replaced the TLV since *)
(* the check, memory that is no longer owned is read: it may still hold    *)
(* that TLV, the current one, or anything else (0).                        *)
Datagrams == IF tlv = seen THEN {tlv} ELSE {tlv, seen, 0}

(* sendto; a failing one is not acknowledged. *)
CommsSend ==
  /\ cpc = "send"
  /\ badAccess' = (badAccess \/ tlv # seen)
  /\ \/ /\ \E d \in Datagrams : delivered' = Append(delivered, d)
        /\ cpc' = "ack"
     \/ /\ delivered' = delivered
        /\ cpc' = "loop"
  /\ UNCHANGED <<sharedVars, tlvVars, fdVars, queueVars, batch, u, seen, envVars>>

CommsAck ==
  /\ cpc = "ack"
  /\ comms_notification_ack' = comms_notification_ack + SentFor(u)
  /\ ackEdge' = TRUE
  /\ cpc' = "loop"
  /\ UNCHANGED <<sharedVars, tlvVars, comms_notification, l1Vars, queueVars, batch,
                 u, seen, envVars, wireVars>>

(* Mutant: one readiness event of the socket is served twice. *)
CommsHelloTwice ==
  /\ cpc = "loop" /\ "sock" \in batch
  /\ batch' \in {batch, batch \ {"sock"}}
  /\ hellos' = hellos - 1
  /\ cpc' \in {"hello", "loop"}
  /\ UNCHANGED <<sharedVars, tlvVars, fdVars, queueVars, u, seen, pushed, greeted,
                 wireVars>>

(* CUJO_FPC_HELLO in the loop: answer the version, then take the lock; a   *)
(* failing version send skips the rest.                                    *)
CommsHello ==
  /\ cpc = "loop" /\ "sock" \in batch
  /\ batch' = batch \ {"sock"}
  /\ hellos' = hellos - 1
  /\ cpc' \in {"hello", "loop"}
  /\ UNCHANGED <<sharedVars, tlvVars, fdVars, queueVars, u, seen, pushed, greeted,
                 wireVars>>

-----------------------------------------------------------------------------
QueueThread ==
  \/ QueueWake \/ QueuePop \/ QueueDrained \/ FindCollector \/ StopWaitOver
  \/ EmitAlloc \/ EmitAllocFails \/ EmitNotify \/ EmitAcked \/ EmitTimeout

Collector == CollectorStarts \/ CollectorReturns \/ CollectorLeaves

CommsThread ==
  \/ Handshake \/ HelloLocked \/ CommsEpoll \/ CommsRead
  \/ CommsCheck \/ CommsSend \/ CommsAck \/ CommsHello

Next ==
  \/ \E e \in Events : Push(e)
  \/ AgentHello
  \/ Collector
  \/ QueueThread
  \/ CommsThread

Spec == Init /\ [][Next]_vars

(* Both threads are ordinary runnable threads: neither is stopped forever  *)
(* while it can take a step.                                               *)
FairSpec == Spec /\ WF_vars(QueueThread) /\ WF_vars(CommsThread)

-----------------------------------------------------------------------------
(* Properties.                                                             *)

Emitting == qpc \in {"emit", "wait"}

(* The types of the consumer's fields, of both threads' control and of the *)
(* environment; a datagram is never read that was not there.               *)
TypeOK ==
  /\ lock \in {"none", "queue"}
  /\ queue \in Seq(Events)
  /\ queue_wakeup \in BOOLEAN /\ comms_ready \in BOOLEAN
  /\ tlv \in Nat /\ emitted \in Nat
  /\ confirmed \in Seq(Nat) /\ delivered \in Seq(Nat)
  /\ comms_notification \in Nat /\ comms_notification_ack \in Nat
  /\ ackEdge \in BOOLEAN /\ collector \in CollectorControl /\ started \in Nat
  /\ exact \subseteq Nat
  /\ qpc \in QueueControl /\ todo \in Seq(Tags)
  /\ cpc \in CommsControl /\ batch \subseteq {"notify", "sock"}
  /\ u \in Nat /\ seen \in Nat
  /\ hellos \in Nat /\ pushed \in Nat /\ greeted \in Nat
  /\ badAccess \in BOOLEAN

(* The channel is clean while an exact TLV is emitted, and between emits   *)
(* while nothing is under way.                                             *)
Clean == IF Emitting THEN tlv \in exact ELSE Quiet

(* The promised channel, which the two threads implement. *)
Channel == INSTANCE TlvChannel
             WITH offered <- tlv, count <- emitted, wire <- delivered,
                  log <- confirmed, clean <- Clean

(* What cujoagent_emit_event_tlv gives its callers, at any speed of the    *)
(* comms thread and with the answers of a collector coming in between: a   *)
(* TLV that was emitted while nothing older was under way reaches the      *)
(* agent at most once and in order, and if the emit returns 0, it did.     *)
(* There are never more successes than datagrams, and as long as no emit   *)
(* has failed every TLV is of that kind.                                   *)
EmitContract == Channel!Contract

(* Every step of the two threads is a step of the promised channel: what a *)
(* failed emit leaves behind disturbs the TLVs emitted until it has come   *)
(* out, and no others.                                                     *)
ImplementsTlvChannel == Channel!Spec

(* An emit has returned -1 after its notification was written. *)
EmitFailed == Channel!Failed

(* The race that the comment in cujoagent_socket_loop wants to see in the  *)
(* logs, the queue thread freeing or replacing consumer->tlv_ctx.tlv       *)
(* between the NULL check and the sendto: a successful emit never causes   *)
(* it, it takes one that has given its TLV up.                             *)
NoFreedAccess == badAccess => EmitFailed

(* The comms thread leaves its loop only when cujoagent_wifidatacollection *)
(* _deinit asks it to (which this module never does), unless an emit has   *)
(* failed: only a notification that was given up can be added to another,  *)
(* and no single one is the stop value.                                    *)
CommsLoopSurvives == cpc = "returned" => EmitFailed

(* A handler passes its comms_ready check before it emits and leaves on    *)
(* the first failure, so no TLV of an event is ever offered to a comms     *)
(* loop that has been declared not ready.                                  *)
EmitsOnlyWhenReady == todo # <<>> => comms_ready

(* comms_ready comes up only while the queue thread sleeps: the answer a   *)
(* handler got from its check stays true for all TLVs of the event.        *)
ReadyFlipsOutsideEmit == [][comms_ready' /\ ~comms_ready => qpc = "idle"]_vars

(* Every wait for an acknowledgement ends, by an answer or by the timeout, *)
(* also when the comms thread is itself waiting for the consumer lock.     *)
EmitTerminates == (qpc = "wait") ~> (qpc = "run")

(* No wakeup is lost: a pushed event leaves the queue.                     *)
QueueDrains == (queue # <<>>) ~> (queue = <<>>)

(* A hello whose version answer went out makes the comms ready, whatever   *)
(* the queue thread was doing when it arrived.                             *)
HelloRestoresComms == (cpc = "hello") ~> (cpc = "loop" /\ comms_ready)
=============================================================================
