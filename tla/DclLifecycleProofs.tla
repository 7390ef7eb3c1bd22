-------------------------- MODULE DclLifecycleProofs --------------------------
(***************************************************************************)
(* Proofs about DclLifecycle, for any number of events: types, what a      *)
(* deinitialisation leaves of the collections, and that one that follows a *)
(* complete initialisation touches only descriptors of the consumer.       *)
(***************************************************************************)
EXTENDS DclLifecycle, TLAPS

USE LifecycleAssumption DEF mainVars, flagVars, lockVars, threadVars, l1Vars, fdVars

(* The type invariant by kind of variable.                                 *)
MainTyped ==
  /\ mpc \in InitControl \cup DeinitControl \cup {"leaked"}
  /\ fd \in [Fds -> {"zero", "open", "closed"}] /\ foreign \in BOOLEAN
FlagsTyped ==
  /\ queue_wakeup \in BOOLEAN /\ exit_consumer \in BOOLEAN
  /\ disable_l1_collection \in BOOLEAN /\ pushed \in 0 .. MaxEvents
ThreadsTyped ==
  /\ lock \in {"none", "queue"} /\ l1_lock \in {"none", "main", "queue"}
  /\ qpc \in {"none", "idle", "busy", "stopping", "stopped", "emitting", "exited"}
  /\ cpc \in {"none", "handshake", "hello", "loop", "exited"}
  /\ fpc \in {"none", "loop", "push", "exited"}
  /\ kpc \in {"none", "waiting", "push", "clean", "freed"} /\ stop \in BOOLEAN
NotesTyped ==
  /\ comms_notification \in {"empty", "tlv", "stop", "sum"}
  /\ fifo_notification \in BOOLEAN /\ acks \subseteq {"sent", "comms", "fifo", "l1"}

LEMMA TypeParts == TypeOK <=> MainTyped /\ FlagsTyped /\ ThreadsTyped /\ NotesTyped
  BY DEF TypeOK, MainTyped, FlagsTyped, ThreadsTyped, NotesTyped

LEMMA InitTyped == Init => TypeOK
<1> SUFFICES ASSUME Init PROVE TypeOK
  OBVIOUS
<1>1. MainTyped
  BY DEF Init, MainTyped, InitControl
<1>2. FlagsTyped
  <2>1. pushed \in 0 .. MaxEvents
    BY DEF Init
  <2> QED
    BY <2>1, Zenon DEF Init, FlagsTyped
<1>3. ThreadsTyped
  BY DEF Init, ThreadsTyped
<1>4. NotesTyped
  BY DEF Init, NotesTyped
<1> QED
  BY <1>1, <1>2, <1>3, <1>4, TypeParts

(* The steps of the threads other than the main one.                       *)
OtherThreads ==
  \/ Push \/ QueueThread \/ CommsThread \/ CommsHello \/ CommsStartsCollector
  \/ FifoThread \/ FifoReads \/ CollectorThread

LEMMA NextParts == [Next]_vars <=> MainThread \/ Deinit \/ OtherThreads \/ UNCHANGED vars
  BY DEF Next, OtherThreads

(* The main thread is the only one to change its own variables.            *)
LEMMA MainOwned == OtherThreads \/ UNCHANGED vars => UNCHANGED mainVars
  BY DEF OtherThreads, Push, QueueThread, QueueWake, QueueEmits, QueueStopsCollector, QueueStopWaited,
      QueueDrains, CommsThread, CommsReady, CommsReads, CommsHello, CommsStartsCollector, FifoThread,
      FifoPushes, FifoStops, FifoReads, CollectorThread, CollectorExpires, CollectorStops,
      CollectorPushes, CollectorCleans, vars

LEMMA StepMain == MainTyped /\ [Next]_vars => MainTyped'
<1> SUFFICES ASSUME MainTyped, [Next]_vars PROVE MainTyped'
  OBVIOUS
<1>1. CASE ConsumerInit
  BY <1>1 DEF ConsumerInit, MainTyped, InitControl, DeinitControl
<1>2. CASE OpenFds
  <2>1. ASSUME NEW f \in Fds, NEW next \in InitControl,
               NEW failed \in SUBSET {"zero", "open", "closed"}, Opens(f, next, failed)
        PROVE  /\ mpc' \in InitControl \cup DeinitControl
               /\ fd' \in [Fds -> {"zero", "open", "closed"}]
    BY <2>1 DEF MainTyped, Opens, DeinitControl
  <2>2. mpc' \in InitControl \cup DeinitControl /\ fd' \in [Fds -> {"zero", "open", "closed"}]
    BY <1>2, <2>1 DEF OpenFds, Fds, InitControl
  <2> QED
    BY <1>2, <2>2 DEF OpenFds, MainTyped
<1>3. CASE SpawnFails \/ SpawnQueue \/ SpawnComms \/ SpawnFifo \/ RbusOpen \/ RbusInitialized \/ Deinit
  BY <1>3 DEF SpawnFails, SpawnQueue, SpawnComms, SpawnFifo, RbusOpen, RbusInitialized, Deinit,
              MainTyped, InitControl, DeinitControl
<1>4. CASE StopCollectors \/ CollectorsStopped \/ FifoStopped \/ ExitConsumer
  BY <1>4 DEF StopCollectors, CollectorsStopped, FifoStopped, ExitConsumer, MainTyped, DeinitControl
<1>5. CASE StopFifo \/ StopComms
  BY <1>5 DEF StopFifo, StopComms, MainTyped, DeinitControl
<1>6. CASE CommsStopped \/ ConsumerDeinit
  BY <1>6 DEF CommsStopped, ConsumerDeinit, MainTyped, DeinitControl
<1>7. CASE OtherThreads \/ UNCHANGED vars
  BY <1>7, MainOwned DEF MainTyped
<1> QED
  BY <1>1, <1>2, <1>3, <1>4, <1>5, <1>6, <1>7, NextParts DEF MainThread

LEMMA StepFlags == FlagsTyped /\ [Next]_vars => FlagsTyped'
<1> SUFFICES ASSUME FlagsTyped, [Next]_vars PROVE FlagsTyped'
  OBVIOUS
<1>1. CASE UNCHANGED flagVars
  BY <1>1 DEF FlagsTyped
<1>2. CASE StopCollectors \/ CollectorsStopped \/ ExitConsumer
  BY <1>2 DEF StopCollectors, CollectorsStopped, ExitConsumer, FlagsTyped
<1>3. CASE Push \/ FifoReads
  <2>1. pushed' \in 0 .. MaxEvents
    BY <1>3 DEF Push, FifoReads, FlagsTyped
  <2>2. queue_wakeup' \in BOOLEAN /\ UNCHANGED <<exit_consumer, disable_l1_collection>>
    BY <1>3 DEF Push, FifoReads, FlagsTyped
  <2> QED
    BY <2>1, <2>2 DEF FlagsTyped
<1>4. CASE QueueDrains \/ FifoPushes \/ CollectorPushes
  BY <1>4 DEF QueueDrains, FifoPushes, CollectorPushes, FlagsTyped
<1>5. CASE (MainThread \/ Deinit) /\ ~(StopCollectors \/ CollectorsStopped \/ ExitConsumer)
  BY <1>1, <1>5 DEF MainThread, Deinit, ConsumerInit, OpenFds, SpawnFails, SpawnQueue, SpawnComms,
              SpawnFifo, RbusOpen, RbusInitialized, StopFifo, FifoStopped, StopComms, CommsStopped,
              ConsumerDeinit
<1>6. CASE OtherThreads /\ ~(Push \/ FifoReads \/ QueueDrains \/ FifoPushes \/ CollectorPushes)
  BY <1>1, <1>6 DEF OtherThreads, QueueThread, QueueWake, QueueEmits, QueueStopsCollector,
              QueueStopWaited, CommsThread, CommsReady, CommsReads, CommsHello, CommsStartsCollector,
              FifoThread, FifoStops, CollectorThread, CollectorExpires, CollectorStops, CollectorCleans
<1> QED
  BY <1>1, <1>2, <1>3, <1>4, <1>5, <1>6, NextParts DEF vars

LEMMA StepThreads == ThreadsTyped /\ [Next]_vars => ThreadsTyped'
<1> SUFFICES ASSUME ThreadsTyped, [Next]_vars PROVE ThreadsTyped'
  OBVIOUS
<1> USE DEF ThreadsTyped
<1>1. CASE UNCHANGED <<lockVars, threadVars, l1Vars>>
  BY <1>1
<1>2. CASE SpawnQueue \/ SpawnComms \/ SpawnFifo
  BY <1>2 DEF SpawnQueue, SpawnComms, SpawnFifo
<1>3. CASE StopCollectors \/ CollectorsStopped
  BY <1>3 DEF StopCollectors, CollectorsStopped
<1>4. CASE (MainThread \/ Deinit)
           /\ ~(SpawnQueue \/ SpawnComms \/ SpawnFifo \/ StopCollectors \/ CollectorsStopped)
  BY <1>1, <1>4 DEF MainThread, Deinit, ConsumerInit, OpenFds, SpawnFails, RbusOpen, RbusInitialized,
              StopFifo, FifoStopped, ExitConsumer, StopComms, CommsStopped, ConsumerDeinit
<1>5. CASE QueueThread
  BY <1>5 DEF QueueThread, QueueWake, QueueEmits, QueueStopsCollector, QueueStopWaited, QueueDrains
<1>6. CASE CommsThread \/ CommsHello \/ CommsStartsCollector
  BY <1>6 DEF CommsThread, CommsReady, CommsReads, CommsHello, CommsStartsCollector
<1>7. CASE Push \/ FifoThread \/ FifoReads
  BY <1>7 DEF Push, FifoThread, FifoPushes, FifoStops, FifoReads
<1>8. CASE CollectorThread
  BY <1>8 DEF CollectorThread, CollectorExpires, CollectorStops, CollectorPushes, CollectorCleans
<1> QED
  BY <1>1, <1>2, <1>3, <1>4, <1>5, <1>6, <1>7, <1>8, NextParts DEF vars, OtherThreads

(* A wait takes answers away and invents none.                             *)
LEMMA StepNotes == NotesTyped /\ [Next]_vars => NotesTyped'
<1> SUFFICES ASSUME NotesTyped, [Next]_vars PROVE NotesTyped'
  OBVIOUS
<1> USE DEF NotesTyped
<1>1. CASE UNCHANGED fdVars
  BY <1>1
<1>2. CASE WaitOver /\ UNCHANGED <<comms_notification, fifo_notification>>
  BY <1>2 DEF WaitOver
<1>3. CASE CollectorsStopped \/ FifoStopped \/ CommsStopped \/ QueueStopWaited \/ QueueDrains
  BY <1>1, <1>2, <1>3 DEF CollectorsStopped, FifoStopped, CommsStopped, QueueStopWaited, QueueDrains
<1>4. CASE StopFifo \/ StopComms
  BY <1>4 DEF StopFifo, StopComms
<1>5. CASE (MainThread \/ Deinit)
           /\ ~(CollectorsStopped \/ FifoStopped \/ CommsStopped \/ StopFifo \/ StopComms)
  BY <1>1, <1>5 DEF MainThread, Deinit, ConsumerInit, OpenFds, SpawnFails, SpawnQueue, SpawnComms,
              SpawnFifo, RbusOpen, RbusInitialized, StopCollectors, ExitConsumer, ConsumerDeinit
<1>6. CASE QueueWake \/ QueueEmits \/ QueueStopsCollector
  BY <1>6 DEF QueueWake, QueueEmits, QueueStopsCollector
<1>7. CASE CommsThread \/ CommsHello \/ CommsStartsCollector
  BY <1>7 DEF CommsThread, CommsReady, CommsReads, CommsHello, CommsStartsCollector
<1>8. CASE Push \/ FifoThread \/ FifoReads
  BY <1>8 DEF Push, FifoThread, FifoPushes, FifoStops, FifoReads
<1>9. CASE CollectorThread
  BY <1>9 DEF CollectorThread, CollectorExpires, CollectorStops, CollectorPushes, CollectorCleans
<1> QED
  BY <1>1, <1>3, <1>4, <1>5, <1>6, <1>7, <1>8, <1>9, NextParts DEF vars, OtherThreads, QueueThread

LEMMA StepTyped == TypeOK /\ [Next]_vars => TypeOK'
<1>1. TypeOK' <=> MainTyped' /\ FlagsTyped' /\ ThreadsTyped' /\ NotesTyped'
  BY TypeParts DEF TypeOK, MainTyped, FlagsTyped, ThreadsTyped, NotesTyped
<1> QED
  BY <1>1, TypeParts, StepMain, StepFlags, StepThreads, StepNotes

(* The descriptors, the threads and their notifications are of their       *)
(* types.                                                                  *)
THEOREM TypeCorrect == Spec => []TypeOK
  BY InitTyped, StepTyped, PTL DEF Spec

-----------------------------------------------------------------------------
(* Collections.                                                            *)

Passed == DeinitControl \ {"l1", "l1Wait"}

(* While the deinitialisation waits for the collector it has told it to    *)
(* stop, and when it has gone on no collector starts any more.             *)
CollectionsEnding ==
  /\ mpc = "l1Wait" => stop
  /\ mpc \in Passed => disable_l1_collection /\ CollectorsTold

LEMMA InitEnding == Init => CollectionsEnding
  BY DEF Init, CollectionsEnding, Passed, DeinitControl

LEMMA StepEnding == TypeOK /\ CollectionsEnding /\ [Next]_vars => CollectionsEnding'
<1> SUFFICES ASSUME TypeOK, CollectionsEnding, [Next]_vars PROVE CollectionsEnding'
  OBVIOUS
<1> USE DEF CollectionsEnding, CollectorsTold, Passed, DeinitControl
<1>1. CASE ConsumerInit
  BY <1>1 DEF ConsumerInit
<1>2. CASE OpenFds
  <2>1. mpc' \in {"fifo", "events", "spawnQueue", "l1"}
    BY <1>2 DEF OpenFds, Opens
  <2> QED
    BY <2>1
<1>3. CASE SpawnFails \/ SpawnQueue \/ SpawnComms \/ SpawnFifo \/ RbusOpen \/ RbusInitialized \/ Deinit
  BY <1>3 DEF SpawnFails, SpawnQueue, SpawnComms, SpawnFifo, RbusOpen, RbusInitialized, Deinit
<1>4. CASE StopCollectors
  BY <1>4 DEF StopCollectors, HasCollector
<1>5. CASE CollectorsStopped
  BY <1>5 DEF CollectorsStopped
<1>6. CASE StopFifo \/ FifoStopped \/ ExitConsumer \/ StopComms \/ CommsStopped \/ ConsumerDeinit
  BY <1>6 DEF StopFifo, FifoStopped, ExitConsumer, StopComms, CommsStopped, ConsumerDeinit
<1>7. CASE Push \/ CommsThread \/ CommsHello \/ FifoThread \/ FifoReads
  BY <1>7 DEF Push, CommsThread, CommsReady, CommsReads, CommsHello, FifoThread, FifoPushes, FifoStops,
              FifoReads
<1>8. CASE QueueThread
  BY <1>8 DEF QueueThread, QueueWake, QueueEmits, QueueStopsCollector, QueueStopWaited, QueueDrains
<1>9. CASE CommsStartsCollector
  BY <1>9 DEF CommsStartsCollector
<1>10. CASE CollectorThread
  BY <1>10 DEF CollectorThread, CollectorExpires, CollectorStops, CollectorPushes, CollectorCleans
<1>11. CASE UNCHANGED vars
  BY <1>11 DEF vars
<1> QED
  BY <1>1, <1>2, <1>3, <1>4, <1>5, <1>6, <1>7, <1>8, <1>9, <1>10, <1>11 DEF Next, MainThread

(* A deinitialisation leaves no collector behind that nobody told to stop, *)
(* wherever the comms thread is with a request for a collection: l1_lock   *)
(* and disable_l1_collection order the two.                                *)
THEOREM NoCollectorLeft == Spec => []CollectorsTold
<1>1. CollectionsEnding => CollectorsTold
  BY DEF CollectionsEnding, CollectorsTold, Passed
<1> QED
  BY InitTyped, StepTyped, InitEnding, StepEnding, <1>1, PTL DEF Spec

-----------------------------------------------------------------------------
(* Descriptors.                                                            *)

(* How far a complete initialisation has got with its descriptors.         *)
Opened ==
  /\ ~foreign /\ mpc # "leaked"
  /\ mpc \notin {"off", "socket"} => fd["sock"] # "zero"
  /\ mpc \notin {"off", "socket", "fifo"} => fd["fifo"] # "zero"
  /\ mpc \notin {"off", "socket", "fifo", "events"} => fd["events"] # "zero"

LEMMA StepOpened ==
  ASSUME ~InitMayFail, TypeOK, Opened, [Next]_vars
  PROVE  Opened'
<1>0. fd \in [Fds -> {"zero", "open", "closed"}] /\ Fds = {"sock", "fifo", "events"}
  BY DEF TypeOK, Fds
<1>1. CASE ConsumerInit
  BY <1>1 DEF ConsumerInit, Opened
<1>2. CASE OpenFds
  BY <1>0, <1>2 DEF OpenFds, Opens, Opened
<1>3. CASE SpawnFails \/ SpawnQueue \/ SpawnComms \/ SpawnFifo \/ RbusOpen \/ RbusInitialized \/ Deinit
  BY <1>3 DEF SpawnFails, SpawnQueue, SpawnComms, SpawnFifo, RbusOpen, RbusInitialized, Deinit, Opened
<1>4. CASE StopCollectors \/ CollectorsStopped \/ FifoStopped \/ ExitConsumer
  BY <1>4 DEF StopCollectors, CollectorsStopped, FifoStopped, ExitConsumer, Opened
<1>5. CASE StopFifo \/ StopComms
  BY <1>5 DEF StopFifo, StopComms, Opened
<1>6. CASE CommsStopped \/ ConsumerDeinit
  BY <1>0, <1>6 DEF CommsStopped, ConsumerDeinit, Opened
<1>7. CASE OtherThreads \/ UNCHANGED vars
  BY <1>7, MainOwned DEF Opened
<1> QED
  BY <1>1, <1>2, <1>3, <1>4, <1>5, <1>6, <1>7, NextParts DEF MainThread

(* After an initialisation of which no step failed, the deinitialisation   *)
(* writes to and closes descriptors of the consumer only: descriptor 0 is  *)
(* in danger on the error paths of the initialisation and nowhere else.    *)
THEOREM OwnDescriptorsAfterInit == ASSUME ~InitMayFail PROVE Spec => []OnlyOwnDescriptors
<1>1. Init => Opened
  BY DEF Init, Opened
<1>2. TypeOK /\ Opened /\ [Next]_vars => Opened'
  BY StepOpened
<1>3. Opened => OnlyOwnDescriptors
  BY DEF Opened, OnlyOwnDescriptors
<1> QED
  BY InitTyped, StepTyped, <1>1, <1>2, <1>3, PTL DEF Spec
==============================================================================
