---------------------------- MODULE DclLifecycle ----------------------------
(***************************************************************************)
(* Bringing the wifi data collection consumer up and down                  *)
(* (cujoagent_wifidatacollection_init and _deinit of cujoagent_dcl_api.c)  *)
(* while its queue, comms, FIFO and collector threads run.                 *)
(*                                                                         *)
(* The threads are reduced to what a shutdown can find them doing.  A file *)
(* descriptor field is "zero" after the memset of cujoagent_consumer_init: *)
(* it then names descriptor 0, which the consumer did not open.            *)
(***************************************************************************)
EXTENDS Naturals

CONSTANTS
  InitMayFail,   \* TRUE: any step of the initialisation may fail
  MaxEvents      \* bound: events pushed to the queue

ASSUME LifecycleAssumption == InitMayFail \in BOOLEAN /\ MaxEvents \in Nat

VARIABLES
  mpc,           \* the thread that initialises and deinitialises
  fd,            \* descriptor fields: socket, FIFO, eventfds with epolls
  foreign,       \* descriptor 0 was written to or closed
  lock, l1_lock, \* consumer->lock, consumer->l1_lock and their holders
  queue_wakeup, exit_consumer, disable_l1_collection,
  pushed,        \* counter behind MaxEvents
  qpc, cpc, fpc, \* queue, comms and FIFO threads
  kpc, stop,     \* the collector, and whether STOP was written to it
  comms_notification,  \* what its counter holds
  fifo_notification,   \* STOP was written
  acks                 \* RETURN values waiting in queue_epoll

mainVars  == <<mpc, fd, foreign>>
flagVars  == <<queue_wakeup, exit_consumer, disable_l1_collection, pushed>>
lockVars  == <<lock, l1_lock>>
threadVars == <<qpc, cpc, fpc>>
l1Vars    == <<kpc, stop>>
fdVars    == <<comms_notification, fifo_notification, acks>>
vars == <<mainVars, flagVars, lockVars, threadVars, l1Vars, fdVars>>

Fds == {"sock", "fifo", "events"}

InitControl == {"off", "socket", "fifo", "events", "spawnQueue", "spawnComms",
                "spawnFifo", "rbusOpen", "rbus", "up"}
DeinitControl == {"l1", "l1Wait", "stopFifo", "fifoWait", "exit", "stopComms",
                  "commsWait", "destroy", "gone"}

Init ==
  /\ mpc = "off" /\ fd = [f \in Fds |-> "closed"] /\ foreign = FALSE
  /\ lock = "none" /\ l1_lock = "none"
  /\ queue_wakeup = FALSE /\ exit_consumer = FALSE /\ disable_l1_collection = FALSE
  /\ pushed = 0
  /\ qpc = "none" /\ cpc = "none" /\ fpc = "none" /\ kpc = "none" /\ stop = FALSE
  /\ comms_notification = "empty" /\ fifo_notification = FALSE /\ acks = {}

-----------------------------------------------------------------------------
(* Initialisation.                                                         *)

(* Mutant: the consumer is not zeroed first. *)
ConsumerInitNoMemset ==
  /\ mpc = "off"
  /\ fd' = [f \in Fds |-> "garbage"]
  /\ mpc' = "socket"
  /\ UNCHANGED <<foreign, flagVars, lockVars, threadVars, l1Vars, fdVars>>

(* memset, mutexes, queue, webconfig framework. *)
ConsumerInit ==
  /\ mpc = "off"
  /\ fd' = [f \in Fds |-> "zero"]
  /\ mpc' \in {"socket"} \cup (IF InitMayFail THEN {"l1"} ELSE {})
  /\ UNCHANGED <<foreign, flagVars, lockVars, threadVars, l1Vars, fdVars>>

(* The steps that open descriptors.  cujoagent_socket_init sets its field  *)
(* to -1 first and may fail with the socket open; a failing open leaves -1 *)
(* in the field; a failing cujoagent_notify_events_init leaves the fields  *)
(* it did not reach at zero.                                               *)
Opens(f, next, failed) ==
  \/ /\ fd' = [fd EXCEPT ![f] = "open"]
     /\ mpc' = next
  \/ /\ InitMayFail
     /\ \E v \in failed : fd' = [fd EXCEPT ![f] = v]
     /\ mpc' = "l1"

OpenFds ==
  /\ \/ mpc = "socket" /\ Opens("sock", "fifo", {"closed", "open"})
     \/ mpc = "fifo"   /\ Opens("fifo", "events", {"closed"})
     \/ mpc = "events" /\ Opens("events", "spawnQueue", {"zero", "open"})
  /\ UNCHANGED <<foreign, flagVars, lockVars, threadVars, l1Vars, fdVars>>

SpawnFails ==
  /\ InitMayFail /\ mpc \in {"spawnQueue", "spawnComms", "spawnFifo", "rbus"}
  /\ mpc' = "l1"
  /\ UNCHANGED <<fd, foreign, flagVars, lockVars, threadVars, l1Vars, fdVars>>

SpawnQueue ==
  /\ mpc = "spawnQueue" /\ mpc' = "spawnComms" /\ qpc' = "idle"
  /\ UNCHANGED <<fd, foreign, flagVars, lockVars, cpc, fpc, l1Vars, fdVars>>

SpawnComms ==
  /\ mpc = "spawnComms" /\ mpc' = "spawnFifo" /\ cpc' = "handshake"
  /\ UNCHANGED <<fd, foreign, flagVars, lockVars, qpc, fpc, l1Vars, fdVars>>

SpawnFifo ==
  /\ mpc = "spawnFifo" /\ mpc' = "rbusOpen" /\ fpc' = "loop"
  /\ UNCHANGED <<fd, foreign, flagVars, lockVars, qpc, cpc, l1Vars, fdVars>>

(* A failing rbus_open returns at once: nothing is taken down. *)
RbusOpen ==
  /\ mpc = "rbusOpen"
  /\ mpc' \in {"rbus"} \cup (IF InitMayFail THEN {"leaked"} ELSE {})
  /\ UNCHANGED <<fd, foreign, flagVars, lockVars, threadVars, l1Vars, fdVars>>

RbusInitialized ==
  /\ mpc = "rbus" /\ mpc' = "up"
  /\ UNCHANGED <<fd, foreign, flagVars, lockVars, threadVars, l1Vars, fdVars>>

-----------------------------------------------------------------------------
(* cujoagent_wifidatacollection_deinit.                                    *)

Deinit ==
  /\ mpc = "up" /\ mpc' = "l1"
  /\ UNCHANGED <<fd, foreign, flagVars, lockVars, threadVars, l1Vars, fdVars>>

HasCollector == kpc \in {"waiting", "push", "clean"}

(* Mutant: collections are stopped but new ones not disabled. *)
StopCollectorsOnly ==
  /\ mpc = "l1" /\ l1_lock = "none"
  /\ IF HasCollector
       THEN stop' = TRUE /\ l1_lock' = "main" /\ mpc' = "l1Wait"
       ELSE mpc' = "stopFifo" /\ UNCHANGED <<stop, l1_lock>>
  /\ UNCHANGED <<fd, foreign, flagVars, lock, threadVars, kpc, fdVars>>

(* Under l1_lock: STOP to the collector, if any, and wait; then disable.   *)
StopCollectors ==
  /\ mpc = "l1" /\ l1_lock = "none"
  /\ IF HasCollector
       THEN /\ stop' = TRUE /\ l1_lock' = "main" /\ mpc' = "l1Wait"
            /\ UNCHANGED disable_l1_collection
       ELSE /\ disable_l1_collection' = TRUE /\ mpc' = "stopFifo"
            /\ UNCHANGED <<stop, l1_lock>>
  /\ UNCHANGED <<fd, foreign, queue_wakeup, exit_consumer, pushed, lock, threadVars,
                 kpc, fdVars>>

(* cujoagent_wait_for_event: any answer, the expected one or not, or the   *)
(* timeout ends the wait; the result is not looked at.                     *)
WaitOver == acks' \in {acks} \cup {acks \ {a} : a \in acks}

CollectorsStopped ==
  /\ mpc = "l1Wait"
  /\ WaitOver
  /\ disable_l1_collection' = TRUE /\ l1_lock' = "none"
  /\ mpc' = "stopFifo"
  /\ UNCHANGED <<fd, foreign, queue_wakeup, exit_consumer, pushed, lock, threadVars,
                 l1Vars, comms_notification, fifo_notification>>

(* A write to an eventfd field that was never opened goes to descriptor 0. *)
StopFifo ==
  /\ mpc = "stopFifo"
  /\ fifo_notification' = (fd["events"] = "open")
  /\ foreign' = (foreign \/ fd["events"] = "zero")
  /\ mpc' = "fifoWait"
  /\ UNCHANGED <<fd, flagVars, lockVars, threadVars, l1Vars, comms_notification, acks>>

FifoStopped ==
  /\ mpc = "fifoWait"
  /\ WaitOver
  /\ mpc' = "exit"
  /\ UNCHANGED <<fd, foreign, flagVars, lockVars, threadVars, l1Vars,
                 comms_notification, fifo_notification>>

(* Mutant: the flag is set but the queue thread is not woken for it. *)
ExitConsumerSilently ==
  /\ mpc = "exit" /\ lock = "none"
  /\ exit_consumer' = TRUE
  /\ mpc' = "stopComms"
  /\ UNCHANGED <<fd, foreign, queue_wakeup, disable_l1_collection, pushed, lockVars,
                 threadVars, l1Vars, fdVars>>

ExitConsumer ==
  /\ mpc = "exit" /\ lock = "none"
  /\ exit_consumer' = TRUE /\ queue_wakeup' = TRUE
  /\ mpc' = "stopComms"
  /\ UNCHANGED <<fd, foreign, disable_l1_collection, pushed, lockVars, threadVars,
                 l1Vars, fdVars>>

(* STOP is added to whatever the counter holds. *)
StopComms ==
  /\ mpc = "stopComms"
  /\ comms_notification' = IF fd["events"] # "open" THEN comms_notification
                           ELSE IF comms_notification = "empty" THEN "stop" ELSE "sum"
  /\ foreign' = (foreign \/ fd["events"] = "zero")
  /\ mpc' = "commsWait"
  /\ UNCHANGED <<fd, flagVars, lockVars, threadVars, l1Vars, fifo_notification, acks>>

(* Mutant: the wait for the comms thread has no timeout. *)
CommsStoppedForever ==
  /\ mpc = "commsWait" /\ acks # {}
  /\ acks' = {}
  /\ mpc' = "destroy"
  /\ UNCHANGED <<fd, foreign, flagVars, lockVars, threadVars, l1Vars,
                 comms_notification, fifo_notification>>

(* The answer, another one or the timeout; then the socket is closed. *)
CommsStopped ==
  /\ mpc = "commsWait"
  /\ WaitOver
  /\ foreign' = (foreign \/ fd["sock"] = "zero")
  /\ fd' = [fd EXCEPT !["sock"] = "closed"]
  /\ mpc' = "destroy"
  /\ UNCHANGED <<flagVars, lockVars, threadVars, l1Vars, comms_notification,
                 fifo_notification>>

(* cujoagent_consumer_deinit: close every descriptor field. *)
ConsumerDeinit ==
  /\ mpc = "destroy"
  /\ foreign' = (foreign \/ \E f \in Fds : fd[f] = "zero")
  /\ fd' = [f \in Fds |-> "closed"]
  /\ mpc' = "gone"
  /\ UNCHANGED <<flagVars, lockVars, threadVars, l1Vars, fdVars>>

MainThread ==
  \/ ConsumerInit \/ OpenFds \/ SpawnFails \/ SpawnQueue \/ SpawnComms \/ SpawnFifo
  \/ RbusOpen \/ RbusInitialized \/ StopCollectors \/ CollectorsStopped \/ StopFifo
  \/ FifoStopped \/ ExitConsumer \/ StopComms \/ CommsStopped \/ ConsumerDeinit

-----------------------------------------------------------------------------
(* The threads.                                                            *)

(* An RBUS callback pushes an event; the bus is closed last of all. *)
Push ==
  /\ fpc # "none"
  /\ mpc \in {"rbus", "up"} \cup (DeinitControl \ {"destroy", "gone"})
  /\ pushed < MaxEvents /\ lock = "none"
  /\ pushed' = pushed + 1 /\ queue_wakeup' = TRUE
  /\ UNCHANGED <<mainVars, exit_consumer, disable_l1_collection, lockVars,
                 threadVars, l1Vars, fdVars>>

(* The queue thread wakes, and leaves if it is told to. *)
QueueWake ==
  /\ qpc = "idle" /\ queue_wakeup /\ lock = "none"
  /\ IF exit_consumer THEN qpc' = "exited" /\ UNCHANGED lock
                      ELSE qpc' = "busy" /\ lock' = "queue"
  /\ UNCHANGED <<mainVars, flagVars, l1_lock, cpc, fpc, l1Vars, fdVars>>

(* It announces a TLV to a comms thread that is past the handshake ... *)
QueueEmits ==
  /\ qpc \in {"busy", "stopped"} /\ cpc \in {"loop", "hello"}
  /\ comms_notification' = IF comms_notification = "empty" THEN "tlv" ELSE "sum"
  /\ qpc' = "emitting"
  /\ UNCHANGED <<mainVars, flagVars, lockVars, cpc, fpc, l1Vars, fifo_notification,
                 acks>>

(* ... or, for a disconnect, stops the collector under l1_lock ... *)
QueueStopsCollector ==
  /\ qpc = "busy" /\ l1_lock = "none" /\ HasCollector
  /\ l1_lock' = "queue" /\ stop' = TRUE
  /\ qpc' = "stopping"
  /\ UNCHANGED <<mainVars, flagVars, lock, cpc, fpc, kpc, fdVars>>

QueueStopWaited ==
  /\ qpc = "stopping"
  /\ WaitOver
  /\ l1_lock' = "none"
  /\ qpc' = "stopped"
  /\ UNCHANGED <<mainVars, flagVars, lock, cpc, fpc, l1Vars, comms_notification,
                 fifo_notification>>

(* ... waits for the answer or the timeout, and goes back to sleep. *)
QueueDrains ==
  /\ qpc \in {"busy", "stopped", "emitting"}
  /\ IF qpc = "emitting" THEN WaitOver ELSE UNCHANGED acks
  /\ queue_wakeup' = FALSE /\ lock' = "none" /\ qpc' = "idle"
  /\ UNCHANGED <<mainVars, exit_consumer, disable_l1_collection, pushed, l1_lock,
                 cpc, fpc, l1Vars, comms_notification, fifo_notification>>

(* A hello arrives, in the handshake, where a version that cannot be sent  *)
(* ends the thread, or in the loop.  A thread blocked in recvfrom is not   *)
(* woken by a close of the socket.                                         *)
CommsHello ==
  /\ cpc \in {"handshake", "loop"} /\ fd["sock"] = "open"
  /\ cpc' \in {"hello"} \cup (IF cpc = "handshake" THEN {"exited"} ELSE {})
  /\ UNCHANGED <<mainVars, flagVars, lockVars, qpc, fpc, l1Vars, fdVars>>

CommsReady ==
  /\ cpc = "hello" /\ lock = "none"
  /\ cpc' = "loop"
  /\ UNCHANGED <<mainVars, flagVars, lockVars, qpc, fpc, l1Vars, fdVars>>

(* The comms loop reads its counter: a TLV is sent and acknowledged, STOP  *)
(* acknowledged and obeyed, a sum of several values matches nothing.       *)
CommsReads ==
  /\ cpc = "loop" /\ fd["events"] = "open" /\ comms_notification # "empty"
  /\ comms_notification' = "empty"
  /\ \/ comms_notification = "tlv" /\ acks' = acks \cup {"sent"} /\ UNCHANGED cpc
     \/ comms_notification = "stop" /\ acks' = acks \cup {"comms"} /\ cpc' = "exited"
     \/ comms_notification = "sum" /\ UNCHANGED <<acks, cpc>>
  /\ UNCHANGED <<mainVars, flagVars, lockVars, qpc, fpc, l1Vars, fifo_notification>>

(* CUJO_FPC_L1_COLLECTION_START (see DclL1). *)
CommsStartsCollector ==
  /\ cpc = "loop" /\ fd["sock"] = "open" /\ l1_lock = "none"
  /\ ~disable_l1_collection /\ kpc = "none"
  /\ kpc' = "waiting"
  /\ UNCHANGED <<mainVars, flagVars, lockVars, threadVars, stop, fdVars>>

(* CSI data in the FIFO; the push waits for the consumer lock. *)
FifoReads ==
  /\ fpc = "loop" /\ fd["fifo"] = "open" /\ pushed < MaxEvents
  /\ pushed' = pushed + 1
  /\ fpc' = "push"
  /\ UNCHANGED <<mainVars, queue_wakeup, exit_consumer, disable_l1_collection,
                 lockVars, qpc, cpc, l1Vars, fdVars>>

(* After the push the loop waits again, or finds its epoll closed. *)
FifoPushes ==
  /\ fpc = "push" /\ lock = "none"
  /\ queue_wakeup' = TRUE
  /\ fpc' = IF fd["events"] = "open" THEN "loop" ELSE "exited"
  /\ UNCHANGED <<mainVars, exit_consumer, disable_l1_collection, pushed, lockVars,
                 qpc, cpc, l1Vars, fdVars>>

FifoStops ==
  /\ fpc = "loop" /\ fifo_notification /\ fd["events"] = "open"
  /\ fifo_notification' = FALSE
  /\ acks' = acks \cup {"fifo"}
  /\ fpc' = "exited"
  /\ UNCHANGED <<mainVars, flagVars, lockVars, qpc, cpc, l1Vars, comms_notification>>

(* The collector: timer, STOP, DONE push, cleanup (see DclL1). *)
CollectorExpires ==
  /\ kpc = "waiting" /\ kpc' = "push"
  /\ UNCHANGED <<mainVars, flagVars, lockVars, threadVars, stop, fdVars>>

CollectorStops ==
  /\ kpc = "waiting" /\ stop
  /\ kpc' = "clean" /\ acks' = acks \cup {"l1"}
  /\ UNCHANGED <<mainVars, flagVars, lockVars, threadVars, stop, comms_notification,
                 fifo_notification>>

CollectorPushes ==
  /\ kpc = "push" /\ lock = "none"
  /\ queue_wakeup' = TRUE /\ kpc' = "clean"
  /\ UNCHANGED <<mainVars, exit_consumer, disable_l1_collection, pushed, lockVars,
                 threadVars, stop, fdVars>>

(* Leaving queue_epoll takes an unread RETURN along. *)
CollectorCleans ==
  /\ kpc = "clean" /\ l1_lock = "none"
  /\ kpc' = "freed" /\ acks' = acks \ {"l1"}
  /\ UNCHANGED <<mainVars, flagVars, lockVars, threadVars, stop, comms_notification,
                 fifo_notification>>

QueueThread ==
  \/ QueueWake \/ QueueEmits \/ QueueStopsCollector \/ QueueStopWaited \/ QueueDrains
CommsThread == CommsReady \/ CommsReads
FifoThread == FifoPushes \/ FifoStops
CollectorThread == CollectorExpires \/ CollectorStops \/ CollectorPushes \/ CollectorCleans

Next ==
  \/ MainThread \/ Deinit \/ Push
  \/ QueueThread \/ CommsThread \/ CommsHello \/ CommsStartsCollector
  \/ FifoThread \/ FifoReads \/ CollectorThread

Spec == Init /\ [][Next]_vars

(* All threads run; hellos, data and the request to deinitialise come from *)
(* outside and need not come.                                              *)
FairSpec ==
  /\ Spec
  /\ WF_vars(MainThread) /\ WF_vars(QueueThread) /\ WF_vars(CommsThread)
  /\ WF_vars(FifoThread) /\ WF_vars(CollectorThread)

-----------------------------------------------------------------------------
(* Properties.                                                             *)

(* The types of the descriptors, the threads and the notifications.        *)
TypeOK ==
  /\ mpc \in InitControl \cup DeinitControl \cup {"leaked"}
  /\ fd \in [Fds -> {"zero", "open", "closed"}] /\ foreign \in BOOLEAN
  /\ lock \in {"none", "queue"} /\ l1_lock \in {"none", "main", "queue"}
  /\ queue_wakeup \in BOOLEAN /\ exit_consumer \in BOOLEAN
  /\ disable_l1_collection \in BOOLEAN /\ pushed \in 0 .. MaxEvents
  /\ qpc \in {"none", "idle", "busy", "stopping", "stopped", "emitting",
             "exited"}
  /\ cpc \in {"none", "handshake", "hello", "loop", "exited"}
  /\ fpc \in {"none", "loop", "push", "exited"}
  /\ kpc \in {"none", "waiting", "push", "clean", "freed"} /\ stop \in BOOLEAN
  /\ comms_notification \in {"empty", "tlv", "stop", "sum"}
  /\ fifo_notification \in BOOLEAN /\ acks \subseteq {"sent", "comms", "fifo", "l1"}

(* Once the deinitialisation has passed the collections, no collector is   *)
(* left that will wait for its whole timeout: none starts any more, and    *)
(* the one there was is told to stop or ending.                            *)
CollectorsTold ==
  mpc \in DeinitControl \ {"l1", "l1Wait"} /\ kpc = "waiting" => stop

(* The deinitialisation ends whatever the threads are doing: no wait of it *)
(* and no lock it takes can hold it for ever.                              *)
DeinitEnds == (mpc = "l1") ~> (mpc = "gone")

(* "Allows the consumer queue thread start function to return": it does.   *)
QueueThreadReturns == (mpc = "gone") ~> (qpc \in {"none", "exited"})

(* "For the cases when the agent hello-version is in progress, the thread  *)
(* will error out on a closed socket and proceed to the return anyway":    *)
(* the comms thread returns after a deinitialisation.                      *)
CommsThreadReturns == (mpc = "gone") ~> (cpc \in {"none", "exited"})

(* "avoid accidentally closing stdin on error paths": descriptor 0 is      *)
(* neither written to nor closed.                                          *)
OnlyOwnDescriptors == ~foreign
=============================================================================
