-------------------------------- MODULE DclL1 --------------------------------
(***************************************************************************)
(* L1 (CSI and temperature) collections of cujoagent_dcl_api.c.            *)
(*                                                                         *)
(* The agent's CUJO_FPC_L1_COLLECTION_START makes the comms thread start a *)
(* collector thread.  The collector ends when its timer expires, and then  *)
(* pushes a DONE event, or when the consumer queue thread stops it because *)
(* the station disconnected, and then the queue thread sends DONE itself.  *)
(* Radio temperatures arrive over RBUS while a collector is subscribed.    *)
(*                                                                         *)
(* The queue thread holds consumer->lock from its wakeup until the queue   *)
(* is empty.  How a TLV travels is DclComms's subject: here an emit either *)
(* succeeds or fails and clears comms_ready.                               *)
(***************************************************************************)
EXTENDS Integers, Sequences, FiniteSets

CONSTANTS
  Macs,             \* stations
  NumRadios,        \* radios, each with a temperature sensor
  MaxClients,       \* DCL_MAX_CSI_CLIENTS
  MaxRequests,      \* bound: collection requests of the agent
  MaxStations,      \* bound: connects and disconnects
  MaxReadings,      \* bound: temperature notifications
  CreateMayFail     \* TRUE: pthread_create may fail

ASSUME ParametersAssumption ==
  /\ MaxClients \in Nat \ {0} /\ MaxRequests \in Nat /\ MaxStations \in Nat
  /\ MaxReadings \in Nat /\ CreateMayFail \in BOOLEAN
ASSUME RadiosAssumption == NumRadios \in Nat \ {0}
ASSUME MacsAssumption == Macs # {}

VARIABLES
  lock,          \* consumer->lock: "none" or "queue"
  l1_lock,       \* consumer->l1_lock: "none" or "queue"
  comms_ready,   \* consumer->comms_ready
  queue,         \* consumer->queue
  l1_collections,\* consumer->l1_collections: collector or NULL, per slot
  collector,     \* the collectors, by number of their request
  tcollect_ctx,  \* consumer->tcollect_ctx
  qpc, event, target,  \* queue thread: control, event at hand, collector
  requests, stations, readings,  \* counters behind the bounds
  connected,     \* stations associated with the access point
  left,          \* collectors that ran when their station left, until the
                 \* update that says so
  wire,          \* TLVs the agent received
  unreported,    \* collectors whose DONE was due but could not be sent
  freedUse,      \* a freed collector was used
  mixed          \* tcollect_ctx held readings of two collections at once

sharedVars == <<lock, l1_lock, comms_ready, queue>>
l1Vars     == <<l1_collections, collector>>
queueVars  == <<qpc, event, target>>
envVars    == <<requests, stations, readings, connected, left>>
wireVars   == <<wire, unreported, freedUse, mixed>>
vars == <<sharedVars, l1Vars, tcollect_ctx, queueVars, envVars, wireVars>>

NULL == 0
Requests == 1 .. MaxRequests
Slots == 1 .. MaxClients
Radios == 0 .. NumRadios - 1

(* A thread's life: not requested, in its slot but not running, waiting    *)
(* for the timer or STOP, on its way to push DONE, to unsubscribe, to take *)
(* l1_lock, freed.                                                         *)
CollectorControl ==
  {"none", "created", "waiting", "push", "unsubscribe", "clean", "freed"}

NoCollector(m) ==
  [pc |-> "none", mac |-> m, stop |-> FALSE, ack |-> FALSE,
   subscribed |-> FALSE, told |-> 0]

NoReadings == [r \in Radios |-> NULL]
ZeroCtx == [collected_count |-> 0, temperature_data |-> NoReadings]

Event(type, m, c, r) == [type |-> type, mac |-> m, of |-> c, radio |-> r]
AnyMac == CHOOSE m \in Macs : TRUE
AnyRadio == 0
NoEvent == Event("none", AnyMac, NULL, AnyRadio)

Init ==
  /\ lock = "none" /\ l1_lock = "none" /\ comms_ready = TRUE /\ queue = <<>>
  /\ l1_collections = [s \in Slots |-> NULL]
  /\ collector = [c \in Requests |-> NoCollector(AnyMac)]
  /\ tcollect_ctx = ZeroCtx
  /\ qpc = "idle" /\ event = NoEvent /\ target = NULL
  /\ requests = 0 /\ stations = 0 /\ readings = 0
  /\ connected = Macs /\ left = {}
  /\ wire = <<>> /\ unreported = {} /\ freedUse = FALSE
  /\ mixed = FALSE

-----------------------------------------------------------------------------
(* Environment: stations come and go; every change is one diff event.      *)
Running(m) == {c \in Requests : collector[c].mac = m /\ collector[c].pc \notin {"none", "freed"}}

Station(m) ==
  /\ stations < MaxStations /\ lock = "none"
  /\ stations' = stations + 1
  /\ \/ /\ m \in connected
        /\ connected' = connected \ {m}
        /\ left' = left \cup Running(m)
        /\ queue' = Append(queue, Event("disconnected", m, NULL, AnyRadio))
     \/ /\ m \notin connected
        /\ connected' = connected \cup {m}
        /\ queue' = Append(queue, Event("connected", m, NULL, AnyRadio))
        /\ UNCHANGED left
  /\ UNCHANGED <<lock, l1_lock, comms_ready, l1Vars, tcollect_ctx, queueVars,
                 requests, readings, wireVars>>

(* A hello makes comms ready again; the lock is free then (see DclComms).  *)
Hello ==
  /\ ~comms_ready /\ lock = "none"
  /\ comms_ready' = TRUE
  /\ UNCHANGED <<lock, l1_lock, queue, l1Vars, tcollect_ctx, queueVars, envVars,
                 wireVars>>

(* cujoagent_radio_temperature_handler.  RBUS notifications are complete,  *)
(* as the code assumes: a subscription hears of every radio in turn.       *)
Temperature(c) ==
  /\ readings < MaxReadings /\ lock = "none"
  /\ collector[c].subscribed
  /\ readings' = readings + 1
  /\ queue' = Append(queue, Event("temperature", AnyMac, c,
                                  collector[c].told % NumRadios))
  /\ collector' = [collector EXCEPT ![c].told = @ + 1]
  /\ UNCHANGED <<lock, l1_lock, comms_ready, l1_collections, tcollect_ctx,
                 queueVars, requests, stations, connected, left, wireVars>>

-----------------------------------------------------------------------------
(* The comms thread: cujoagent_start_l1_collection.                        *)

FreeSlots == {s \in Slots : l1_collections[s] = NULL}
Collecting(m) ==
  \E s \in Slots : l1_collections[s] # NULL /\ collector[l1_collections[s]].mac = m

(* Mutant: the search for a collection of the same station is left out,    *)
(* and a taken slot is taken over.                                         *)
StartTakesOver(m) ==
  /\ requests < MaxRequests /\ l1_lock = "none"
  /\ requests' = requests + 1
  /\ collector' = [collector EXCEPT ![requests + 1] =
                     [NoCollector(m) EXCEPT !.pc = "created"]]
  /\ l1_collections' = [l1_collections EXCEPT ![1] = requests + 1]
  /\ UNCHANGED <<sharedVars, tcollect_ctx, queueVars, stations, readings,
                 connected, left, wireVars>>

(* The whole routine runs under l1_lock.  The request is refused if the    *)
(* station is collected already, no slot is free or a descriptor or memory *)
(* cannot be had.                                                          *)
StartCollection(m) ==
  /\ requests < MaxRequests /\ l1_lock = "none"
  /\ requests' = requests + 1
  /\ \/ UNCHANGED l1Vars
     \/ /\ ~Collecting(m)
        /\ \E s \in FreeSlots :
             /\ \A t \in FreeSlots : s <= t
             /\ l1_collections' = [l1_collections EXCEPT ![s] = requests + 1]
        /\ collector' = [collector EXCEPT ![requests + 1] =
                           [NoCollector(m) EXCEPT !.pc = "created"]]
  /\ UNCHANGED <<sharedVars, tcollect_ctx, queueVars, stations, readings,
                 connected, left, wireVars>>

Unslot(c) == [s \in Slots |-> IF l1_collections[s] = c THEN NULL ELSE l1_collections[s]]

(* pthread_create fails: after the unlock, so slot and collector are given *)
(* back without l1_lock.                                                   *)
CreateFails(c) ==
  /\ CreateMayFail /\ collector[c].pc = "created"
  /\ l1_collections' = Unslot(c)
  /\ collector' = [collector EXCEPT ![c].pc = "freed"]
  /\ UNCHANGED <<sharedVars, tcollect_ctx, queueVars, envVars, wireVars>>

-----------------------------------------------------------------------------
(* The collector thread: cujoagent_l1_collector.                           *)

(* Subscribe to temperatures, start CSI, arm the timer; any failure goes   *)
(* to the DONE push, with or without the subscription.                     *)
CollectorRuns(c) ==
  /\ collector[c].pc = "created"
  /\ \E ok \in BOOLEAN, sub \in BOOLEAN :
       /\ ok => sub
       /\ collector' = [collector EXCEPT ![c].pc = IF ok THEN "waiting" ELSE "push",
                                         ![c].subscribed = sub]
  /\ UNCHANGED <<sharedVars, l1_collections, tcollect_ctx, queueVars, envVars,
                 wireVars>>

(* The timer is among the ready fds and is looked at first, or epoll_wait  *)
(* itself times out: DONE will be pushed, a STOP stays unread.             *)
CollectorExpires(c) ==
  /\ collector[c].pc = "waiting"
  /\ collector' = [collector EXCEPT ![c].pc = "push"]
  /\ UNCHANGED <<sharedVars, l1_collections, tcollect_ctx, queueVars, envVars,
                 wireVars>>

(* STOP is read and answered with RETURN; no DONE is pushed. *)
CollectorStopped(c) ==
  /\ collector[c].pc = "waiting" /\ collector[c].stop
  /\ collector' = [collector EXCEPT ![c].pc = "unsubscribe", ![c].ack = TRUE]
  /\ UNCHANGED <<sharedVars, l1_collections, tcollect_ctx, queueVars, envVars,
                 wireVars>>

(* Mutant: the type of the pushed event is never set. *)
CollectorPushesUntyped(c) ==
  /\ collector[c].pc = "push" /\ lock = "none"
  /\ queue' = Append(queue, Event("none", collector[c].mac, c, AnyRadio))
  /\ collector' = [collector EXCEPT ![c].pc = "unsubscribe"]
  /\ UNCHANGED <<lock, l1_lock, comms_ready, l1_collections, tcollect_ctx,
                 queueVars, envVars, wireVars>>

(* DONE is pushed; the push waits for the consumer lock. *)
CollectorPushes(c) ==
  /\ collector[c].pc = "push" /\ lock = "none"
  /\ queue' = Append(queue, Event("l1_done", collector[c].mac, c, AnyRadio))
  /\ collector' = [collector EXCEPT ![c].pc = "unsubscribe"]
  /\ UNCHANGED <<lock, l1_lock, comms_ready, l1_collections, tcollect_ctx,
                 queueVars, envVars, wireVars>>

CollectorUnsubscribes(c) ==
  /\ collector[c].pc = "unsubscribe"
  /\ collector' = [collector EXCEPT ![c].pc = "clean", ![c].subscribed = FALSE]
  /\ UNCHANGED <<sharedVars, l1_collections, tcollect_ctx, queueVars, envVars,
                 wireVars>>

(* Mutant: the collector is given back without l1_lock. *)
CollectorCleansUnlocked(c) ==
  /\ collector[c].pc = "clean"
  /\ l1_collections' = Unslot(c)
  /\ collector' = [collector EXCEPT ![c].pc = "freed", ![c].ack = FALSE]
  /\ UNCHANGED <<sharedVars, tcollect_ctx, queueVars, envVars, wireVars>>

(* Under l1_lock: leave queue_epoll, close the fds, clear the slot; free.  *)
CollectorCleans(c) ==
  /\ collector[c].pc = "clean" /\ l1_lock = "none"
  /\ l1_collections' = Unslot(c)
  /\ collector' = [collector EXCEPT ![c].pc = "freed", ![c].ack = FALSE]
  /\ UNCHANGED <<sharedVars, tcollect_ctx, queueVars, envVars, wireVars>>

CollectorThread(c) ==
  \/ CollectorRuns(c) \/ CollectorExpires(c) \/ CollectorStopped(c)
  \/ CollectorPushes(c) \/ CollectorUnsubscribes(c) \/ CollectorCleans(c)

-----------------------------------------------------------------------------
(* The consumer queue thread: cujoagent_consumer_queue_loop.               *)

QueueWake ==
  /\ qpc = "idle" /\ queue # <<>> /\ lock = "none"
  /\ lock' = "queue"
  /\ qpc' = "run"
  /\ UNCHANGED <<l1_lock, comms_ready, queue, l1Vars, tcollect_ctx, event, target,
                 envVars, wireVars>>

QueueDrained ==
  /\ qpc = "run" /\ queue = <<>>
  /\ lock' = "none"
  /\ qpc' = "idle"
  /\ UNCHANGED <<l1_lock, comms_ready, queue, l1Vars, tcollect_ctx, event, target,
                 envVars, wireVars>>

(* Where the handler of an event begins. *)
Handler ==
  [ disconnected |-> "find", connected |-> "update", l1_done |-> "done",
    temperature |-> "temperature" ]

QueuePop ==
  /\ qpc = "run" /\ queue # <<>>
  /\ queue' = Tail(queue)
  /\ event' = Head(queue)
  /\ target' = Head(queue).of
  /\ qpc' = Handler[Head(queue).type]
  /\ UNCHANGED <<lock, l1_lock, comms_ready, l1Vars, tcollect_ctx, envVars, wireVars>>

(* Disconnect: look for a collection of the station under l1_lock; only    *)
(* if there is one is it stopped and DONE sent.                            *)
FindCollector ==
  /\ qpc = "find" /\ l1_lock = "none"
  /\ IF Collecting(event.mac)
       THEN /\ \E s \in Slots :
                  /\ l1_collections[s] # NULL
                  /\ collector[l1_collections[s]].mac = event.mac
                  /\ target' = l1_collections[s]
            /\ l1_lock' = "queue"
            /\ qpc' = "stop"
       ELSE /\ qpc' = "update"
            /\ UNCHANGED <<l1_lock, target>>
  /\ UNCHANGED <<lock, comms_ready, queue, l1Vars, tcollect_ctx, event, envVars,
                 wireVars>>

(* Write STOP through the pointer found in the slot. *)
StopCollector ==
  /\ qpc = "stop"
  /\ freedUse' = (freedUse \/ collector[target].pc = "freed")
  /\ collector' = [collector EXCEPT ![target].stop = TRUE]
  /\ qpc' = "wait"
  /\ UNCHANGED <<sharedVars, l1_collections, tcollect_ctx, event, target, envVars,
                 wire, unreported, mixed>>

(* RETURN arrives on queue_epoll. *)
StopReturned ==
  /\ qpc = "wait" /\ collector[target].ack
  /\ collector' = [collector EXCEPT ![target].ack = FALSE]
  /\ l1_lock' = "none"
  /\ qpc' = "done"
  /\ UNCHANGED <<lock, comms_ready, queue, l1_collections, tcollect_ctx, event,
                 target, envVars, wireVars>>

(* Mutant: the wait for RETURN has no timeout. *)
StopTimeoutNever == FALSE /\ UNCHANGED vars

(* EPOLL_TIMEOUT_MS passes without RETURN, or a stale answer to an earlier *)
(* emit is read instead: a warning, then the same.                         *)
StopTimeout ==
  /\ qpc = "wait"
  /\ l1_lock' = "none"
  /\ qpc' = "done"
  /\ UNCHANGED <<lock, comms_ready, queue, l1Vars, tcollect_ctx, event, target,
                 envVars, wireVars>>

(* A late RETURN waits in queue_epoll, where emit expects its own answer.  *)
LateReturns == {c \in Requests : collector[c].ack}

Forget(cs) == [c \in Requests |-> [collector[c] EXCEPT !.ack = @ /\ c \notin cs]]

(* cujoagent_emit_event_tlv as the handlers see it. *)
EmitOk(t) ==
  /\ comms_ready /\ LateReturns = {}
  /\ wire' = Append(wire, t)
  /\ UNCHANGED <<comms_ready, collector>>

(* The send fails, its answer is late, or the answer read is a late        *)
(* RETURN: the TLV may nevertheless go out.                                *)
EmitFails(t) ==
  /\ comms_ready
  /\ comms_ready' = FALSE
  /\ collector' = Forget(LateReturns)
  /\ wire' \in {wire, Append(wire, t)}

(* Comms are not ready, or there is no memory for the TLV. *)
EmitSkipped == UNCHANGED <<comms_ready, collector, wire>>

Done(c) == [tag |-> "done", of |-> c]
Update == [tag |-> "station", mac |-> event.mac]
Temperatures(d) == [tag |-> "temperature", data |-> d]

(* Mutant: DONE of a stopped collector is left to the collector. *)
SendDoneOnlyIfPushed ==
  /\ qpc = "done"
  /\ IF event.type = "disconnected"
       THEN UNCHANGED <<comms_ready, collector, wire, unreported>>
       ELSE EmitOk(Done(target)) /\ UNCHANGED unreported
  /\ qpc' = IF event.type = "disconnected" THEN "update" ELSE "run"
  /\ UNCHANGED <<lock, l1_lock, queue, l1_collections, tcollect_ctx, event, target,
                 envVars, freedUse, mixed>>

(* DONE, either ahead of the disconnect's update or as an event of its     *)
(* own; only the latter clears the temperature context.                    *)
SendDone ==
  /\ qpc = "done"
  /\ \/ /\ EmitOk(Done(target))
        /\ qpc' = IF event.type = "disconnected" THEN "update" ELSE "run"
        /\ UNCHANGED unreported
     \/ /\ EmitFails(Done(target)) \/ EmitSkipped
        /\ qpc' = "run"
        /\ unreported' = unreported \cup {target}
  /\ tcollect_ctx' = IF event.type = "l1_done" THEN ZeroCtx ELSE tcollect_ctx
  /\ UNCHANGED <<lock, l1_lock, queue, l1_collections, event, target, envVars,
                 freedUse, mixed>>

(* The station and radio updates of a connect or disconnect. *)
SendUpdate ==
  /\ qpc = "update"
  /\ EmitOk(Update) \/ EmitFails(Update) \/ EmitSkipped
  /\ qpc' = "run"
  /\ left' = {c \in left : collector[c].mac # event.mac}
  /\ UNCHANGED <<lock, l1_lock, queue, l1_collections, tcollect_ctx, event, target,
                 requests, stations, readings, connected, unreported, freedUse, mixed>>

(* Mutant: every reading is sent on its own. *)
SendTemperatureAtOnce ==
  LET data == [tcollect_ctx.temperature_data EXCEPT ![event.radio] = event.of]
  IN
  /\ qpc = "temperature"
  /\ EmitOk(Temperatures(data)) \/ EmitFails(Temperatures(data)) \/ EmitSkipped
  /\ tcollect_ctx' = ZeroCtx
  /\ mixed' = (mixed \/ \E r \in Radios : tcollect_ctx.temperature_data[r] \notin {NULL, event.of})
  /\ qpc' = "run"
  /\ UNCHANGED <<lock, l1_lock, queue, l1_collections, event, target, envVars,
                 unreported, freedUse>>

(* One reading; the TLV goes out when as many as there are radios came in. *)
(* The context is cleared then, unless the TLV's memory is not available.  *)
SendTemperature ==
  LET data  == [tcollect_ctx.temperature_data EXCEPT ![event.radio] = event.of]
      count == tcollect_ctx.collected_count + 1
      kept  == [collected_count |-> count, temperature_data |-> data]
      t     == Temperatures(data)
  IN
  /\ qpc = "temperature"
  /\ \/ /\ count # NumRadios
        /\ tcollect_ctx' = kept
        /\ UNCHANGED <<comms_ready, collector, wire>>
     \/ /\ count = NumRadios
        /\ EmitOk(t) \/ EmitFails(t) \/ EmitSkipped
        /\ tcollect_ctx' = ZeroCtx
     \/ /\ count = NumRadios /\ comms_ready
        /\ tcollect_ctx' = kept
        /\ UNCHANGED <<comms_ready, collector, wire>>
  /\ mixed' = (mixed \/ \E r \in Radios : tcollect_ctx.temperature_data[r] \notin {NULL, event.of})
  /\ qpc' = "run"
  /\ UNCHANGED <<lock, l1_lock, queue, l1_collections, event, target, envVars,
                 unreported, freedUse>>

QueueThread ==
  \/ QueueWake \/ QueueDrained \/ QueuePop \/ FindCollector \/ StopCollector
  \/ StopReturned \/ StopTimeout \/ SendDone \/ SendUpdate \/ SendTemperature

-----------------------------------------------------------------------------
Next ==
  \/ \E m \in Macs : Station(m) \/ StartCollection(m)
  \/ Hello
  \/ \E c \in Requests : Temperature(c) \/ CreateFails(c) \/ CollectorThread(c)
  \/ QueueThread

Spec == Init /\ [][Next]_vars

(* Threads run, and every collector's timer fires. *)
FairSpec ==
  /\ Spec
  /\ WF_vars(QueueThread)
  /\ \A c \in Requests : WF_vars(CollectorThread(c))

-----------------------------------------------------------------------------
(* Properties.                                                             *)

(* The types of the slots, the collectors, the queue and the subscriptions. *)
TypeOK ==
  /\ lock \in {"none", "queue"} /\ l1_lock \in {"none", "queue"}
  /\ comms_ready \in BOOLEAN /\ freedUse \in BOOLEAN /\ mixed \in BOOLEAN
  /\ \A i \in 1 .. Len(queue) : queue[i].type \in DOMAIN Handler
  /\ l1_collections \in [Slots -> Requests \cup {NULL}]
  /\ collector \in [Requests -> [pc : CollectorControl, mac : Macs, stop : BOOLEAN,
                                 ack : BOOLEAN, subscribed : BOOLEAN, told : Nat]]
  /\ tcollect_ctx.collected_count \in Nat
  /\ tcollect_ctx.temperature_data \in [Radios -> Requests \cup {NULL}]
  /\ qpc \in {"idle", "run", "find", "stop", "wait", "done", "update", "temperature"}
  /\ target \in Requests \cup {NULL}
  /\ requests \in 0 .. MaxRequests /\ connected \subseteq Macs
  /\ unreported \subseteq Requests /\ left \subseteq Requests

(* "the following routine can not be run in parallel, effectivelly making  *)
(* it a single-threaded routine": no more collectors than slots are ever   *)
(* subscribed to the temperatures, because a collector unsubscribes before *)
(* it gives its slot back.                                                 *)
OneSubscriberPerSlot ==
  Cardinality({c \in Requests : collector[c].subscribed}) <= MaxClients

(* A collector that the queue thread found in a slot stays allocated until *)
(* the queue thread has written STOP to it.                                *)
NoFreedCollectorUse == ~freedUse

(* The agent is told of the end of every collection: once a collector is   *)
(* gone and nothing about it is queued or in progress, its DONE was sent   *)
(* or found comms not working.                                             *)
Reported(c) == c \in unreported \/ \E i \in 1 .. Len(wire) : wire[i] = Done(c)

EveryCollectionReported ==
  \A c \in Requests :
    /\ collector[c].pc = "freed"
    /\ qpc \in {"idle", "run"}
    /\ \A i \in 1 .. Len(queue) : queue[i].type = "l1_done" => queue[i].of # c
    => Reported(c)

(* "For disconnects, DONE must be sent _before_ the radio|station update   *)
(* event": when the agent hears that a station left, it has heard of the   *)
(* end of every collection that was running then, or comms did not work    *)
(* when it was to hear of it.  The code stops what it finds in a slot; a   *)
(* collector whose timer fired pushes its only DONE behind the disconnect. *)
DoneLeadsUpdate ==
  [][qpc = "update" /\ event.type = "disconnected" /\ wire' # wire
       => \A c \in left : collector[c].mac = event.mac => Reported(c)]_vars

(* "The temperature data event consists of _all_ available sensors         *)
(* readings": while RBUS reports each radio in turn, every temperature TLV *)
(* holds one reading of each radio, as long as the context never held a    *)
(* reading left over from an earlier collection: a DONE that the queue     *)
(* thread sends for a stopped collector does not clear it, and a reading   *)
(* may arrive after the DONE that does.                                    *)
TemperaturesComplete ==
  mixed \/ \A i \in 1 .. Len(wire) :
             wire[i].tag = "temperature" => \A r \in Radios : wire[i].data[r] # NULL

(* Every collector thread ends and gives its slot back, although the one   *)
(* that is to push DONE waits for the consumer lock of a queue thread that *)
(* waits, with that lock, for it to return.                                *)
CollectionsEnd ==
  \A c \in Requests : (collector[c].pc = "created") ~> (collector[c].pc = "freed")
==============================================================================
