----------------------------- MODULE DclL1Proofs -----------------------------
(***************************************************************************)
(* Proofs about DclL1, for any number of stations, slots, radios, requests *)
(* and readings.                                                           *)
(***************************************************************************)
EXTENDS DclL1, SequenceTheorems, FiniteSetTheorems, TLAPS

-----------------------------------------------------------------------------
(* Types.                                                                  *)

EventTypes == {"disconnected", "connected", "l1_done", "temperature"}

(* A station's event is of no collection, the others are of one.           *)
Events ==
  {e \in [type : EventTypes, mac : Macs, of : Requests \cup {NULL}, radio : Radios] :
     e.of = NULL <=> e.type \in {"disconnected", "connected"}}

Collectors ==
  [pc : CollectorControl, mac : Macs, stop : BOOLEAN, ack : BOOLEAN,
   subscribed : BOOLEAN, told : Nat]

Readings == [Radios -> Requests \cup {NULL}]

Tlvs ==
  [tag : {"done"}, of : Requests] \cup [tag : {"station"}, mac : Macs]
    \cup [tag : {"temperature"}, data : Readings]

Typed ==
  /\ TypeOK
  /\ queue \in Seq(Events) /\ event \in Events \cup {NoEvent}
  /\ wire \in Seq(Tlvs)
  /\ tcollect_ctx \in [collected_count : Nat, temperature_data : Readings]
  /\ stations \in Nat /\ readings \in Nat

(* Where the queue thread is says which locks it holds and what it has in  *)
(* hand.                                                                   *)
Control ==
  /\ lock = "none" <=> qpc = "idle"
  /\ l1_lock = "queue" <=> qpc \in {"stop", "wait"}
  /\ qpc \in {"find", "stop", "wait"} => event.type = "disconnected"
  /\ qpc = "update" => event.type \in {"disconnected", "connected"}
  /\ qpc = "find" => target = NULL
  /\ qpc \in {"stop", "wait", "done"} => target \in Requests
  /\ qpc = "temperature" => event.type = "temperature"

LEMMA Constants ==
  /\ AnyMac \in Macs /\ AnyRadio \in Radios /\ 0 \notin Requests
  /\ NULL = 0 /\ Requests \subseteq Nat /\ EventTypes = DOMAIN Handler
  BY MacsAssumption, RadiosAssumption, ParametersAssumption
  DEF AnyMac, AnyRadio, Radios, Requests, NULL, EventTypes, Handler

(* What an emit does, whatever becomes of it: it may lengthen what the     *)
(* agent received, and of the collectors it may only take back answers.    *)
LEMMA EmitEffect ==
  ASSUME Typed, NEW t \in Tlvs, EmitOk(t) \/ EmitFails(t) \/ EmitSkipped
  PROVE  /\ comms_ready' \in BOOLEAN
         /\ wire' \in {wire, Append(wire, t)} /\ wire' \in Seq(Tlvs)
         /\ collector' \in [Requests -> Collectors]
         /\ \A c \in Requests :
              /\ collector'[c].pc = collector[c].pc /\ collector'[c].mac = collector[c].mac
              /\ collector'[c].stop = collector[c].stop
              /\ collector'[c].subscribed = collector[c].subscribed
              /\ collector'[c].told = collector[c].told
<1>1. collector \in [Requests -> Collectors] /\ wire \in Seq(Tlvs) /\ comms_ready \in BOOLEAN
  BY DEF Typed, TypeOK, Collectors
<1>2. wire' \in {wire, Append(wire, t)} /\ comms_ready' \in BOOLEAN
  BY <1>1 DEF EmitOk, EmitFails, EmitSkipped
<1>3. wire' \in Seq(Tlvs)
  BY <1>1, <1>2, AppendProperties
<1>4. CASE collector' = collector
  BY <1>1, <1>2, <1>3, <1>4
<1>5. CASE collector' = Forget(LateReturns)
  <2> SUFFICES ASSUME NEW c \in Requests
               PROVE  /\ collector'[c] \in Collectors
                      /\ collector'[c].pc = collector[c].pc /\ collector'[c].mac = collector[c].mac
                      /\ collector'[c].stop = collector[c].stop
                      /\ collector'[c].subscribed = collector[c].subscribed
                      /\ collector'[c].told = collector[c].told
    BY <1>2, <1>3, <1>5 DEF Forget
  <2>1. PICK b \in BOOLEAN : collector'[c] = [collector[c] EXCEPT !.ack = b]
    <3>1. collector'[c] = [collector[c] EXCEPT !.ack = collector[c].ack /\ c \notin LateReturns]
      BY <1>5 DEF Forget
    <3> QED
      BY <3>1
  <2> QED
    BY <1>1, <2>1 DEF Collectors
<1> QED
  BY <1>4, <1>5 DEF EmitOk, EmitFails, EmitSkipped

LEMMA UpdateTyped ==
  ASSUME Typed
  PROVE  Update \in Tlvs /\ Update.tag # "temperature"
<1>1. event.mac \in Macs
  BY Constants DEF Typed, Events, NoEvent, Event
<1> QED
  BY <1>1 DEF Update, Tlvs

(* A collector's record and one of its fields changed.                     *)
LEMMA CollectorFields ==
  ASSUME NEW k \in Collectors, NEW pc \in CollectorControl, NEW b \in BOOLEAN, NEW n \in Nat
  PROVE  /\ [k EXCEPT !.pc = pc] \in Collectors /\ [k EXCEPT !.stop = b] \in Collectors
         /\ [k EXCEPT !.ack = b] \in Collectors /\ [k EXCEPT !.told = n] \in Collectors
         /\ [k EXCEPT !.pc = pc, !.ack = b] \in Collectors
         /\ [k EXCEPT !.pc = pc, !.subscribed = b] \in Collectors
  BY DEF Collectors

(* A collector that was just started.                                      *)
LEMMA NewCollector ==
  ASSUME NEW m \in Macs
  PROVE  /\ NoCollector(m) \in Collectors
         /\ [NoCollector(m) EXCEPT !.pc = "created"] \in Collectors
  BY DEF NoCollector, Collectors, CollectorControl

(* Taking a collector out of its slot leaves the slots what they are.      *)
LEMMA UnslotTyped ==
  ASSUME Typed, NEW c \in Requests
  PROVE  /\ Unslot(c) \in [Slots -> Requests \cup {NULL}]
         /\ \A s \in Slots : Unslot(c)[s] = IF l1_collections[s] = c THEN NULL ELSE l1_collections[s]
  BY DEF Typed, TypeOK, Unslot

(* What the queue holds after a push and a pop.                            *)
LEMMA Pushed ==
  ASSUME queue \in Seq(Events), NEW e \in Events, queue' = Append(queue, e)
  PROVE  queue' \in Seq(Events) /\ \A i \in 1 .. Len(queue') : queue'[i].type \in DOMAIN Handler
<1>1. queue' \in Seq(Events)
  BY AppendProperties
<1>2. \A i \in 1 .. Len(queue') : queue'[i] \in Events
  BY <1>1, ElementOfSeq
<1> QED
  BY <1>1, <1>2, Constants DEF Events

LEMMA InitTyped == Init => Typed /\ Control
<1> SUFFICES ASSUME Init PROVE Typed /\ Control
  OBVIOUS
<1>1. collector \in [Requests -> Collectors]
  BY NewCollector, Constants DEF Init
<1>2. NoReadings \in Readings /\ ZeroCtx \in [collected_count : Nat, temperature_data : Readings]
  BY DEF NoReadings, Readings, ZeroCtx
<1>3. requests \in 0 .. MaxRequests
  BY ParametersAssumption DEF Init
<1>4. l1_collections \in [Slots -> Requests \cup {NULL}]
  BY DEF Init
<1>5. \A i \in 1 .. Len(queue) : queue[i].type \in DOMAIN Handler
  BY EmptySeq DEF Init
<1>6. tcollect_ctx.collected_count \in Nat /\ tcollect_ctx.temperature_data \in Readings
  BY <1>2 DEF Init
<1>7. TypeOK
  BY <1>1, <1>3, <1>4, <1>5, <1>6 DEF Init, TypeOK, Collectors, Readings
<1> QED
  BY <1>2, <1>7, EmptySeq DEF Init, Typed, Control

(* Every step keeps the types and the queue thread's control.              *)
LEMMA StepTyped == Typed /\ Control /\ [Next]_vars => Typed' /\ Control'
<1> SUFFICES ASSUME Typed, Control, [Next]_vars PROVE Typed' /\ Control'
  OBVIOUS
<1> USE DEF Typed
<1>0. /\ collector \in [Requests -> Collectors] /\ queue \in Seq(Events)
      /\ l1_collections \in [Slots -> Requests \cup {NULL}]
  BY DEF TypeOK, Collectors
<1>1. ASSUME NEW m \in Macs, Station(m) PROVE Typed' /\ Control'
  <2>1. PICK e \in Events : queue' = Append(queue, e)
    <3>1. /\ Event("disconnected", m, NULL, AnyRadio) \in Events
          /\ Event("connected", m, NULL, AnyRadio) \in Events
      BY Constants DEF Event, Events, EventTypes
    <3> QED
      BY <1>1, <3>1 DEF Station
  <2>2. queue' \in Seq(Events) /\ \A i \in 1 .. Len(queue') : queue'[i].type \in DOMAIN Handler
    BY <1>0, <2>1, Pushed
  <2>3. connected' \subseteq Macs /\ left' \subseteq Requests
    BY <1>1 DEF Station, TypeOK, Running
  <2> QED
    BY <1>1, <2>2, <2>3
    DEF Station, TypeOK, Control, l1Vars, queueVars, wireVars
<1>2. ASSUME NEW m \in Macs, StartCollection(m) PROVE Typed' /\ Control'
  <2>1. requests + 1 \in Requests /\ requests' \in 0 .. MaxRequests
    BY <1>2, ParametersAssumption DEF StartCollection, TypeOK, Requests
  <2>2. collector' \in [Requests -> Collectors] /\ l1_collections' \in [Slots -> Requests \cup {NULL}]
    BY <1>0, <1>2, <2>1, NewCollector DEF StartCollection, l1Vars, FreeSlots
  <2> QED
    BY <1>2, <2>1, <2>2
    DEF StartCollection, TypeOK, Control, Collectors, sharedVars, queueVars, wireVars
<1>3. CASE Hello
  BY <1>3 DEF Hello, TypeOK, Control, l1Vars, queueVars, envVars, wireVars
<1>4. ASSUME NEW c \in Requests, Temperature(c) PROVE Typed' /\ Control'
  <2>1. collector[c].told \in Nat /\ collector[c] \in Collectors
    BY <1>0 DEF Collectors
  <2>2. collector[c].told % NumRadios \in Radios
    BY <2>1, RadiosAssumption DEF Radios
  <2>3. Event("temperature", AnyMac, c, collector[c].told % NumRadios) \in Events
    BY <2>2, Constants DEF Event, Events, EventTypes
  <2>4. queue' \in Seq(Events) /\ \A i \in 1 .. Len(queue') : queue'[i].type \in DOMAIN Handler
    BY <1>0, <1>4, <2>3, Pushed DEF Temperature
  <2>5. collector' \in [Requests -> Collectors]
    <3>1. collector' = [collector EXCEPT ![c] = [collector[c] EXCEPT !.told = collector[c].told + 1]]
      BY <1>4 DEF Temperature
    <3>2. \A n \in Nat : [collector[c] EXCEPT !.told = n] \in Collectors
      BY <2>1 DEF Collectors
    <3>3. collector[c].told + 1 \in Nat
      BY <2>1
    <3> QED
      BY <1>0, <3>1, <3>2, <3>3
  <2>6. /\ readings' = readings + 1
        /\ UNCHANGED <<lock, l1_lock, comms_ready, l1_collections, tcollect_ctx, qpc, event, target,
                      requests, stations, connected, left, wire, unreported, freedUse, mixed>>
    BY <1>4 DEF Temperature, queueVars, wireVars
  <2>7. Control'
    BY <2>6 DEF Control
  <2>8. TypeOK'
    BY <2>4, <2>5, <2>6 DEF TypeOK, Collectors
  <2> QED
    BY <2>4, <2>6, <2>7, <2>8
<1>5. ASSUME NEW c \in Requests, CreateFails(c) PROVE Typed' /\ Control'
  <2>1. collector' = [collector EXCEPT ![c] = [collector[c] EXCEPT !.pc = "freed"]]
    BY <1>5 DEF CreateFails
  <2>2. [collector[c] EXCEPT !.pc = "freed"] \in Collectors
    BY <1>0, CollectorFields DEF CollectorControl
  <2>3. collector' \in [Requests -> Collectors] /\ l1_collections' \in [Slots -> Requests \cup {NULL}]
    BY <1>0, <1>5, <2>1, <2>2, UnslotTyped DEF CreateFails
  <2> QED
    BY <1>5, <2>3
    DEF CreateFails, TypeOK, Control, Collectors, sharedVars, queueVars, envVars, wireVars
<1>6. ASSUME NEW c \in Requests, CollectorThread(c) PROVE Typed' /\ Control'
  <2> DEFINE Same == UNCHANGED <<lock, l1_lock, comms_ready, tcollect_ctx, queueVars, envVars, wireVars>>
  <2>1. collector' \in [Requests -> Collectors] /\ Same
    <3>1. ASSUME NEW k \in Collectors, collector' = [collector EXCEPT ![c] = k]
          PROVE  collector' \in [Requests -> Collectors]
      BY <1>0, <3>1
    <3>2. CASE CollectorRuns(c)
      <4>1. PICK pc \in CollectorControl, b \in BOOLEAN :
              collector' = [collector EXCEPT ![c] = [collector[c] EXCEPT !.pc = pc, !.subscribed = b]]
        <5>0. PICK ok \in BOOLEAN, sub \in BOOLEAN :
                /\ ok => sub
                /\ collector' = [collector EXCEPT ![c].pc = IF ok THEN "waiting" ELSE "push",
                                                 ![c].subscribed = sub]
          BY <3>2, Zenon DEF CollectorRuns
        <5>1. collector' = [collector EXCEPT ![c] = [collector[c] EXCEPT
                               !.pc = IF ok THEN "waiting" ELSE "push", !.subscribed = sub]]
          BY <1>0, <5>0
        <5>2. (IF ok THEN "waiting" ELSE "push") \in CollectorControl
          BY DEF CollectorControl
        <5> QED
          BY <5>1, <5>2
      <4> QED
        BY <1>0, <3>1, <3>2, <4>1, CollectorFields DEF CollectorRuns, sharedVars
    <3>3. CASE CollectorExpires(c)
      <4>1. collector' = [collector EXCEPT ![c] = [collector[c] EXCEPT !.pc = "push"]]
        BY <3>3 DEF CollectorExpires
      <4> QED
        BY <1>0, <3>1, <3>3, <4>1, CollectorFields DEF CollectorExpires, sharedVars, CollectorControl
    <3>4. CASE CollectorStopped(c)
      <4>1. collector' = [collector EXCEPT ![c] =
                            [collector[c] EXCEPT !.pc = "unsubscribe", !.ack = TRUE]]
        BY <3>4 DEF CollectorStopped
      <4> QED
        BY <1>0, <3>1, <3>4, <4>1, CollectorFields DEF CollectorStopped, sharedVars, CollectorControl
    <3>5. CASE CollectorPushes(c)
      <4>1. collector' = [collector EXCEPT ![c] = [collector[c] EXCEPT !.pc = "unsubscribe"]]
        BY <3>5 DEF CollectorPushes
      <4> QED
        BY <1>0, <3>1, <3>5, <4>1, CollectorFields DEF CollectorPushes, CollectorControl
    <3>6. CASE CollectorUnsubscribes(c)
      <4>1. collector' = [collector EXCEPT ![c] =
                            [collector[c] EXCEPT !.pc = "clean", !.subscribed = FALSE]]
        BY <3>6 DEF CollectorUnsubscribes
      <4> QED
        BY <1>0, <3>1, <3>6, <4>1, CollectorFields
        DEF CollectorUnsubscribes, sharedVars, CollectorControl
    <3>7. CASE CollectorCleans(c)
      <4>1. collector' = [collector EXCEPT ![c] =
                            [collector[c] EXCEPT !.pc = "freed", !.ack = FALSE]]
        BY <3>7 DEF CollectorCleans
      <4> QED
        BY <1>0, <3>1, <3>7, <4>1, CollectorFields DEF CollectorCleans, sharedVars, CollectorControl
    <3> QED
      BY <1>6, <3>2, <3>3, <3>4, <3>5, <3>6, <3>7 DEF CollectorThread
  <2>2. l1_collections' \in [Slots -> Requests \cup {NULL}]
    BY <1>0, <1>6, UnslotTyped
    DEF CollectorThread, CollectorRuns, CollectorExpires, CollectorStopped, CollectorPushes,
        CollectorUnsubscribes, CollectorCleans
  <2>3. queue' \in Seq(Events) /\ \A i \in 1 .. Len(queue') : queue'[i].type \in DOMAIN Handler
    <3>1. CASE CollectorPushes(c)
      <4>1. Event("l1_done", collector[c].mac, c, AnyRadio) \in Events
        BY <1>0, Constants DEF Collectors, Event, Events, EventTypes
      <4> QED
        BY <1>0, <3>1, <4>1, Pushed DEF CollectorPushes
    <3>2. CASE ~CollectorPushes(c)
      BY <1>0, <1>6, <3>2
      DEF CollectorThread, CollectorRuns, CollectorExpires, CollectorStopped,
          CollectorUnsubscribes, CollectorCleans, sharedVars, TypeOK
    <3> QED
      BY <3>1, <3>2
  <2> QED
    BY <2>1, <2>2, <2>3 DEF TypeOK, Control, Collectors, queueVars, envVars, wireVars
<1>7. CASE QueueWake
  BY <1>7 DEF QueueWake, TypeOK, Control, l1Vars, envVars, wireVars
<1>8. CASE QueueDrained
  BY <1>8 DEF QueueDrained, TypeOK, Control, l1Vars, envVars, wireVars
<1>9. CASE QueuePop
  <2>1. queue # <<>>
    BY <1>9 DEF QueuePop
  <2>2. Head(queue) \in Events /\ Tail(queue) \in Seq(Events)
    BY <1>0, <2>1, HeadTailProperties
  <2>3. queue' \in Seq(Events) /\ event' \in Events /\ target' = event'.of
        /\ qpc' = Handler[event'.type] /\ qpc = "run"
    BY <1>9, <2>2 DEF QueuePop
  <2>4. \A i \in 1 .. Len(queue') : queue'[i].type \in DOMAIN Handler
    BY <2>3, ElementOfSeq, Constants DEF Events
  <2>5. event'.type \in EventTypes /\ event'.of \in Requests \cup {NULL}
        /\ (event'.of = NULL <=> event'.type \in {"disconnected", "connected"})
    BY <2>3 DEF Events
  <2>6. /\ event'.type = "disconnected" => qpc' = "find"
        /\ event'.type = "connected" => qpc' = "update"
        /\ event'.type = "l1_done" => qpc' = "done"
        /\ event'.type = "temperature" => qpc' = "temperature"
    BY <2>3 DEF Handler
  <2>7. Control'
    BY <1>9, <2>3, <2>5, <2>6 DEF QueuePop, Control, EventTypes
  <2>8. TypeOK'
    BY <1>9, <2>3, <2>4, <2>5, <2>6 DEF QueuePop, TypeOK, l1Vars, envVars, wireVars, EventTypes
  <2> QED
    BY <1>9, <2>3, <2>7, <2>8 DEF QueuePop, envVars, wireVars
<1>10. CASE FindCollector
  <2>1. target' \in Requests \cup {NULL} /\ (qpc' = "stop" => target' \in Requests)
    BY <1>0, <1>10 DEF FindCollector, TypeOK
  <2> QED
    BY <1>10, <2>1 DEF FindCollector, TypeOK, Control, l1Vars, envVars, wireVars
<1>11. CASE StopCollector
  <2>1. target \in Requests
    BY <1>11 DEF StopCollector, Control
  <2>2. collector' = [collector EXCEPT ![target] = [collector[target] EXCEPT !.stop = TRUE]]
    BY <1>11 DEF StopCollector
  <2>3. [collector[target] EXCEPT !.stop = TRUE] \in Collectors
    BY <1>0, <2>1 DEF Collectors
  <2>4. collector' \in [Requests -> Collectors]
    BY <1>0, <2>2, <2>3
  <2>5. freedUse' \in BOOLEAN
    BY <1>11 DEF StopCollector, TypeOK
  <2> QED
    BY <1>11, <2>4, <2>5 DEF StopCollector, TypeOK, Control, Collectors, sharedVars, envVars
<1>12. CASE StopReturned
  <2>1. target \in Requests
    BY <1>12 DEF StopReturned, Control
  <2>2. collector' = [collector EXCEPT ![target] = [collector[target] EXCEPT !.ack = FALSE]]
    BY <1>12 DEF StopReturned
  <2>3. [collector[target] EXCEPT !.ack = FALSE] \in Collectors
    BY <1>0, <2>1 DEF Collectors
  <2>4. collector' \in [Requests -> Collectors]
    BY <1>0, <2>2, <2>3
  <2> QED
    BY <1>12, <2>4 DEF StopReturned, TypeOK, Control, Collectors, envVars, wireVars
<1>13. CASE StopTimeout
  BY <1>13 DEF StopTimeout, TypeOK, Control, l1Vars, envVars, wireVars
<1>14. CASE SendDone
  <2>1. target \in Requests /\ Done(target) \in Tlvs
    BY <1>14 DEF SendDone, Control, Done, Tlvs
  <2>2. EmitOk(Done(target)) \/ EmitFails(Done(target)) \/ EmitSkipped
    BY <1>14 DEF SendDone
  <2>3. comms_ready' \in BOOLEAN /\ wire' \in Seq(Tlvs) /\ collector' \in [Requests -> Collectors]
    BY <2>1, <2>2, EmitEffect
  <2>4. qpc' \in {"run", "update"} /\ (qpc' = "update" => event.type = "disconnected")
        /\ unreported' \subseteq Requests
    BY <1>14, <2>1 DEF SendDone, TypeOK
  <2>5. tcollect_ctx' \in [collected_count : Nat, temperature_data : Readings]
    <3>1. ZeroCtx \in [collected_count : Nat, temperature_data : Readings]
      BY DEF NoReadings, Readings, ZeroCtx
    <3> QED
      BY <1>14, <3>1 DEF SendDone
  <2>6. TypeOK'
    BY <1>14, <2>3, <2>4, <2>5 DEF SendDone, TypeOK, Collectors, Readings, envVars
  <2>7. Control'
    BY <1>14, <2>4 DEF SendDone, Control
  <2> QED
    BY <1>14, <2>3, <2>5, <2>6, <2>7 DEF SendDone, envVars
<1>15. CASE SendUpdate
  <2>1. Update \in Tlvs
    BY UpdateTyped
  <2>2. comms_ready' \in BOOLEAN /\ wire' \in Seq(Tlvs) /\ collector' \in [Requests -> Collectors]
    BY <1>15, <2>1, EmitEffect DEF SendUpdate
  <2> QED
    BY <1>15, <2>2 DEF SendUpdate, TypeOK, Control, Collectors, envVars
<1>16. CASE SendTemperature
  <2> DEFINE data == [tcollect_ctx.temperature_data EXCEPT ![event.radio] = event.of]
             kept == [collected_count |-> tcollect_ctx.collected_count + 1, temperature_data |-> data]
  <2>1. event.of \in Requests \cup {NULL}
    BY <1>16, Constants DEF Events, NoEvent, Event
  <2>2. data \in Readings
    BY <2>1 DEF Readings
  <2>3. Temperatures(data) \in Tlvs
    BY <2>2 DEF Temperatures, Tlvs
  <2>4. comms_ready' \in BOOLEAN /\ wire' \in Seq(Tlvs) /\ collector' \in [Requests -> Collectors]
    <3>1. CASE UNCHANGED <<comms_ready, collector, wire>>
      BY <1>0, <3>1 DEF TypeOK
    <3>2. CASE EmitOk(Temperatures(data)) \/ EmitFails(Temperatures(data)) \/ EmitSkipped
      BY <2>3, <3>2, EmitEffect
    <3> QED
      BY <1>16, <3>1, <3>2 DEF SendTemperature
  <2>5. tcollect_ctx' \in [collected_count : Nat, temperature_data : Readings]
    <3>1. ZeroCtx \in [collected_count : Nat, temperature_data : Readings]
      BY DEF NoReadings, Readings, ZeroCtx
    <3>2. kept \in [collected_count : Nat, temperature_data : Readings]
      BY <2>2
    <3>3. tcollect_ctx' \in {ZeroCtx, kept}
      BY <1>16 DEF SendTemperature
    <3> QED
      BY <3>1, <3>2, <3>3
  <2>6. mixed' \in BOOLEAN
    BY <1>16 DEF SendTemperature, TypeOK
  <2>7. TypeOK'
    BY <1>16, <2>4, <2>5, <2>6 DEF SendTemperature, TypeOK, Collectors, Readings, envVars
  <2>8. Control'
    BY <1>16 DEF SendTemperature, Control
  <2> QED
    BY <1>16, <2>4, <2>5, <2>7, <2>8 DEF SendTemperature, envVars
<1>17. CASE UNCHANGED vars
  BY <1>17 DEF vars, sharedVars, l1Vars, queueVars, envVars, wireVars, TypeOK, Control
<1> QED
  BY <1>1, <1>2, <1>3, <1>4, <1>5, <1>6, <1>7, <1>8, <1>9, <1>10, <1>11, <1>12, <1>13, <1>14,
     <1>15, <1>16, <1>17 DEF Next, QueueThread

(* The slots, the collectors, the queue and the subscriptions are of their *)
(* types, for any number of stations, slots, radios and collections.       *)
THEOREM TypeCorrect == Spec => []TypeOK
<1>1. Typed /\ Control => TypeOK
  BY DEF Typed
<1> QED
  BY InitTyped, StepTyped, <1>1, PTL DEF Spec

-----------------------------------------------------------------------------
(* What the steps do to the collectors.                                    *)

(* The fields of a collector that only it itself and RBUS change.          *)
Kept(c) ==
  /\ collector'[c].pc = collector[c].pc /\ collector'[c].mac = collector[c].mac
  /\ collector'[c].subscribed = collector[c].subscribed
  /\ collector'[c].told = collector[c].told

(* The queue thread changes none of them, and no slot.                     *)
LEMMA QueueThreadKeeps ==
  ASSUME Typed, Control, QueueThread
  PROVE  /\ \A c \in Requests : Kept(c)
         /\ UNCHANGED <<l1_collections, requests, stations, readings, connected>>
<1>0. collector \in [Requests -> Collectors]
  BY DEF Typed, TypeOK, Collectors
<1>1. CASE UNCHANGED collector
  BY <1>1 DEF QueueThread, QueueWake, QueueDrained, QueuePop, FindCollector, StopCollector, StopReturned,
    StopTimeout, SendDone, SendUpdate, SendTemperature, Kept, l1Vars, envVars
<1>2. CASE StopCollector
  <2>1. collector' = [collector EXCEPT ![target] = [collector[target] EXCEPT !.stop = TRUE]]
    BY <1>2 DEF StopCollector
  <2> QED
    BY <1>0, <1>2, <2>1 DEF StopCollector, Kept, Collectors, envVars
<1>3. CASE StopReturned
  <2>1. collector' = [collector EXCEPT ![target] = [collector[target] EXCEPT !.ack = FALSE]]
    BY <1>3 DEF StopReturned
  <2> QED
    BY <1>0, <1>3, <2>1 DEF StopReturned, Kept, Collectors, envVars
<1>4. CASE SendDone
  <2>1. target \in Requests /\ Done(target) \in Tlvs
    BY <1>4 DEF SendDone, Control, Done, Tlvs
  <2> QED
    BY <1>4, <2>1, EmitEffect DEF SendDone, Kept, envVars
<1>5. CASE SendUpdate
  <2>1. Update \in Tlvs
    BY UpdateTyped
  <2> QED
    BY <1>5, <2>1, EmitEffect DEF SendUpdate, Kept
<1>6. CASE SendTemperature /\ ~UNCHANGED collector
  <2> DEFINE data == [tcollect_ctx.temperature_data EXCEPT ![event.radio] = event.of]
  <2>1. event.of \in Requests \cup {NULL}
    BY Constants DEF Typed, Events, NoEvent, Event
  <2>2. Temperatures(data) \in Tlvs
    BY <2>1 DEF Typed, Readings, Temperatures, Tlvs
  <2>3. EmitOk(Temperatures(data)) \/ EmitFails(Temperatures(data)) \/ EmitSkipped
    BY <1>6 DEF SendTemperature
  <2> QED
    BY <1>6, <2>2, <2>3, EmitEffect DEF SendTemperature, Kept, envVars
<1> QED
  BY <1>1, <1>2, <1>3, <1>4, <1>5, <1>6
  DEF QueueThread, QueueWake, QueueDrained, QueuePop, FindCollector, StopTimeout, l1Vars

(* A collector thread changes its own record only, and moves through its   *)
(* routine in one direction.                                               *)
LEMMA CollectorMoves ==
  ASSUME Typed, NEW c \in Requests, CollectorThread(c)
  PROVE  /\ \A d \in Requests : d # c => collector'[d] = collector[d]
         /\ collector'[c].stop = collector[c].stop /\ collector'[c].mac = collector[c].mac
         /\ collector'[c].told = collector[c].told
         /\ UNCHANGED <<lock, l1_lock, comms_ready, tcollect_ctx, queueVars, envVars, wireVars>>
         /\ \/ /\ collector[c].pc = "created" /\ collector'[c].pc \in {"waiting", "push"}
               /\ UNCHANGED <<l1_collections, queue>>
            \/ /\ collector[c].pc = "waiting" /\ collector'[c].pc = "push"
               /\ UNCHANGED <<l1_collections, queue>>
            \/ /\ collector[c].pc = "waiting" /\ collector'[c].pc = "unsubscribe"
               /\ collector[c].stop
               /\ UNCHANGED <<l1_collections, queue>>
            \/ /\ collector[c].pc = "push" /\ collector'[c].pc = "unsubscribe" /\ lock = "none"
               /\ queue' = Append(queue, Event("l1_done", collector[c].mac, c, AnyRadio))
               /\ UNCHANGED l1_collections
            \/ /\ collector[c].pc = "unsubscribe" /\ collector'[c].pc = "clean"
               /\ ~collector'[c].subscribed
               /\ UNCHANGED <<l1_collections, queue>>
            \/ /\ collector[c].pc = "clean" /\ collector'[c].pc = "freed" /\ l1_lock = "none"
               /\ collector'[c].subscribed = collector[c].subscribed
               /\ l1_collections' = Unslot(c)
               /\ UNCHANGED queue
<1>0. collector \in [Requests -> Collectors]
  BY DEF Typed, TypeOK, Collectors
<1>1. CASE CollectorRuns(c)
  <2>1. PICK pc \in {"waiting", "push"}, b \in BOOLEAN :
          collector' = [collector EXCEPT ![c] = [collector[c] EXCEPT !.pc = pc, !.subscribed = b]]
    BY <1>1 DEF CollectorRuns
  <2> QED
    BY <1>0, <1>1, <2>1 DEF CollectorRuns, Collectors, sharedVars
<1>2. CASE CollectorExpires(c)
  <2>1. collector' = [collector EXCEPT ![c] = [collector[c] EXCEPT !.pc = "push"]]
    BY <1>2 DEF CollectorExpires
  <2> QED
    BY <1>0, <1>2, <2>1 DEF CollectorExpires, Collectors, sharedVars
<1>3. CASE CollectorStopped(c)
  <2>1. collector' = [collector EXCEPT ![c] = [collector[c] EXCEPT !.pc = "unsubscribe", !.ack = TRUE]]
    BY <1>3 DEF CollectorStopped
  <2>2. /\ collector'[c].pc = "unsubscribe" /\ collector'[c].stop = collector[c].stop
        /\ collector'[c].mac = collector[c].mac /\ collector'[c].told = collector[c].told
        /\ \A d \in Requests : d # c => collector'[d] = collector[d]
    BY <1>0, <2>1 DEF Collectors
  <2> QED
    BY <1>3, <2>2 DEF CollectorStopped, sharedVars
<1>4. CASE CollectorPushes(c)
  <2>1. collector' = [collector EXCEPT ![c] = [collector[c] EXCEPT !.pc = "unsubscribe"]]
    BY <1>4 DEF CollectorPushes
  <2> QED
    BY <1>0, <1>4, <2>1 DEF CollectorPushes, Collectors
<1>5. CASE CollectorUnsubscribes(c)
  <2>1. collector' = [collector EXCEPT ![c] = [collector[c] EXCEPT !.pc = "clean", !.subscribed = FALSE]]
    BY <1>5 DEF CollectorUnsubscribes
  <2> QED
    BY <1>0, <1>5, <2>1 DEF CollectorUnsubscribes, Collectors, sharedVars
<1>6. CASE CollectorCleans(c)
  <2>1. collector' = [collector EXCEPT ![c] = [collector[c] EXCEPT !.pc = "freed", !.ack = FALSE]]
    BY <1>6 DEF CollectorCleans
  <2> QED
    BY <1>0, <1>6, <2>1 DEF CollectorCleans, Collectors, sharedVars
<1> QED
  BY <1>1, <1>2, <1>3, <1>4, <1>5, <1>6 DEF CollectorThread

(* A failed pthread_create, a notification.                                *)
LEMMA CreateFailsEffect ==
  ASSUME Typed, NEW c \in Requests, CreateFails(c)
  PROVE  /\ \A d \in Requests : d # c => collector'[d] = collector[d]
         /\ collector[c].pc = "created" /\ collector'[c].pc = "freed"
         /\ collector'[c].subscribed = collector[c].subscribed
         /\ collector'[c].told = collector[c].told /\ collector'[c].stop = collector[c].stop
<1>1. collector' = [collector EXCEPT ![c] = [collector[c] EXCEPT !.pc = "freed"]]
  BY DEF CreateFails
<1> QED
  BY <1>1 DEF CreateFails, Typed, TypeOK

LEMMA TemperatureEffect ==
  ASSUME Typed, NEW c \in Requests, Temperature(c)
  PROVE  /\ \A d \in Requests : d # c => collector'[d] = collector[d]
         /\ collector'[c].pc = collector[c].pc /\ collector'[c].subscribed = collector[c].subscribed
         /\ collector'[c].mac = collector[c].mac /\ collector'[c].stop = collector[c].stop
         /\ collector'[c].told = collector[c].told + 1
<1>1. collector' = [collector EXCEPT ![c] = [collector[c] EXCEPT !.told = collector[c].told + 1]]
  BY DEF Temperature
<1>2. collector \in [Requests -> Collectors]
  BY DEF Typed, TypeOK, Collectors
<1> QED
  BY <1>1, <1>2 DEF Collectors

-----------------------------------------------------------------------------
(* The slots.                                                              *)

(* A collector is in a slot from its start until it is freed, two slots    *)
(* hold two collectors, a subscribed collector is in its routine, and what *)
(* was not requested yet does not exist.                                   *)
SlotsHeld ==
  /\ \A c \in Requests :
       collector[c].pc \notin {"none", "freed"} <=> \E s \in Slots : l1_collections[s] = c
  /\ \A s, t \in Slots : l1_collections[s] = l1_collections[t] /\ l1_collections[s] # NULL => s = t
  /\ \A c \in Requests :
       collector[c].subscribed => collector[c].pc \in {"waiting", "push", "unsubscribe"}
  /\ \A c \in Requests : c > requests => collector[c].pc = "none"

LEMMA InitSlots == Init => SlotsHeld
  BY Constants DEF Init, SlotsHeld, NoCollector

LEMMA StepSlots == Typed /\ Control /\ SlotsHeld /\ [Next]_vars => SlotsHeld'
<1> SUFFICES ASSUME Typed, Control, SlotsHeld, [Next]_vars PROVE SlotsHeld'
  OBVIOUS
<1>0. /\ collector \in [Requests -> Collectors]
      /\ l1_collections \in [Slots -> Requests \cup {NULL}] /\ requests \in Nat
  BY DEF Typed, TypeOK, Collectors
<1>1. ASSUME UNCHANGED <<l1_collections, requests>>, \A c \in Requests : Kept(c) PROVE SlotsHeld'
  BY <1>1 DEF SlotsHeld, Kept
<1>2. ASSUME NEW m \in Macs, Station(m) PROVE SlotsHeld'
  BY <1>1, <1>2 DEF Station, l1Vars, Kept
<1>3. ASSUME NEW m \in Macs, StartCollection(m) PROVE SlotsHeld'
  <2>1. CASE UNCHANGED l1Vars
    BY <1>0, <1>3, <2>1 DEF StartCollection, l1Vars, SlotsHeld, Requests
  <2>2. CASE ~UNCHANGED l1Vars
    <3> DEFINE n == requests + 1
    <3>1. n \in Requests /\ n # NULL
      BY <1>0, <1>3, ParametersAssumption DEF StartCollection, Requests, NULL
    <3>2. PICK s \in FreeSlots : l1_collections' = [l1_collections EXCEPT ![s] = n]
      BY <1>3, <2>2 DEF StartCollection
    <3>3. collector' = [collector EXCEPT ![n] = [NoCollector(m) EXCEPT !.pc = "created"]]
          /\ requests' = n
      BY <1>3, <2>2 DEF StartCollection
    <3>4. collector'[n].pc = "created" /\ ~collector'[n].subscribed
          /\ \A c \in Requests : c # n => collector'[c] = collector[c]
      BY <1>0, <3>1, <3>3 DEF NoCollector
    <3>5. collector[n].pc = "none" /\ \A t \in Slots : l1_collections[t] # n
      BY <1>0, <3>1 DEF SlotsHeld
    <3>6. s \in Slots /\ l1_collections[s] = NULL
      BY <3>2 DEF FreeSlots
    <3>7. \A t \in Slots : l1_collections'[t] = IF t = s THEN n ELSE l1_collections[t]
      BY <1>0, <3>2
    <3> HIDE DEF n
    <3>8. \A c \in Requests :
            collector'[c].pc \notin {"none", "freed"} <=> \E t \in Slots : l1_collections'[t] = c
      BY <3>1, <3>4, <3>5, <3>6, <3>7, Constants DEF SlotsHeld
    <3>9. \A c \in Requests : c > requests' => collector'[c].pc = "none"
      BY <1>0, <3>1, <3>3, <3>4 DEF SlotsHeld, n, Requests
    <3> QED
      BY <3>1, <3>4, <3>5, <3>6, <3>7, <3>8, <3>9 DEF SlotsHeld
  <2> QED
    BY <2>1, <2>2
<1>4. CASE Hello
  BY <1>1, <1>4 DEF Hello, l1Vars, envVars, Kept
<1>5. ASSUME NEW c \in Requests, Temperature(c) PROVE SlotsHeld'
  BY <1>5, TemperatureEffect DEF SlotsHeld, Temperature
<1>6. ASSUME NEW c \in Requests, l1_collections' = Unslot(c), UNCHANGED requests,
             \A d \in Requests : d # c => collector'[d] = collector[d],
             collector[c].pc \in {"created", "clean"}, collector'[c].pc = "freed",
             collector'[c].subscribed = collector[c].subscribed
      PROVE  SlotsHeld'
  <2>1. \A s \in Slots : l1_collections'[s] = IF l1_collections[s] = c THEN NULL ELSE l1_collections[s]
    BY <1>6, UnslotTyped
  <2> QED
    BY <1>6, <2>1, Constants DEF SlotsHeld
<1>7. ASSUME NEW c \in Requests, CreateFails(c) PROVE SlotsHeld'
  BY <1>6, <1>7, CreateFailsEffect DEF CreateFails, envVars
<1>8. ASSUME NEW c \in Requests, CollectorThread(c) PROVE SlotsHeld'
  <2>1. CASE collector[c].pc = "clean"
    BY <1>6, <1>8, <2>1, CollectorMoves DEF envVars
  <2>2. CASE collector[c].pc # "clean"
    <3>1. /\ \A d \in Requests : d # c => collector'[d] = collector[d]
          /\ UNCHANGED <<l1_collections, requests>>
          /\ collector[c].pc \notin {"none", "freed"} /\ collector'[c].pc \notin {"none", "freed"}
          /\ collector'[c].subscribed => collector'[c].pc \in {"waiting", "push", "unsubscribe"}
      BY <1>8, <2>2, CollectorMoves DEF SlotsHeld, envVars
    <3> QED
      BY <3>1 DEF SlotsHeld
  <2> QED
    BY <2>1, <2>2
<1>9. CASE QueueThread
  BY <1>1, <1>9, QueueThreadKeeps DEF envVars
<1>10. CASE UNCHANGED vars
  BY <1>1, <1>10 DEF vars, l1Vars, envVars, Kept
<1> QED
  BY <1>2, <1>3, <1>4, <1>5, <1>7, <1>8, <1>9, <1>10 DEF Next

(* No more collectors than slots are subscribed to the temperatures, for   *)
(* any DCL_MAX_CSI_CLIENTS: a subscribed collector has a slot of its own.  *)
THEOREM SubscribersBounded == Spec => []OneSubscriberPerSlot
<1>1. ASSUME Typed, SlotsHeld PROVE OneSubscriberPerSlot
  <2> DEFINE S == {c \in Requests : collector[c].subscribed}
             f == [c \in S |-> CHOOSE s \in Slots : l1_collections[s] = c]
  <2>1. \A c \in S : \E s \in Slots : l1_collections[s] = c
    BY <1>1 DEF SlotsHeld
  <2>2. \A c \in S : f[c] \in Slots /\ l1_collections[f[c]] = c
    BY <2>1
  <2>3. f \in Injection(S, Slots)
    <3>1. f \in [S -> Slots]
      BY <2>2
    <3>2. \A a, b \in S : f[a] = f[b] => a = b
      BY <2>2
    <3> HIDE DEF f, S
    <3> QED
      BY <3>1, <3>2 DEF Injection, IsInjective
  <2>4. IsFiniteSet(Slots) /\ Cardinality(Slots) = MaxClients
    BY FS_Interval, ParametersAssumption DEF Slots
  <2>5. Cardinality(S) <= Cardinality(Slots)
    BY <2>3, <2>4, FS_Injection
  <2> QED
    BY <2>4, <2>5 DEF OneSubscriberPerSlot
<1> QED
  BY InitTyped, StepTyped, InitSlots, StepSlots, <1>1, PTL DEF Spec

-----------------------------------------------------------------------------
(* The collector that is being stopped.                                    *)

(* A collector that was found in its slot stays there: whoever would free  *)
(* it needs l1_lock.                                                       *)
TargetHeld == ~freedUse /\ (qpc = "stop" => collector[target].pc \notin {"none", "freed"})

LEMMA InitHeld == Init => TargetHeld
  BY DEF Init, TargetHeld

LEMMA StepHeld ==
  ASSUME ~CreateMayFail, Typed, Control, SlotsHeld, TargetHeld, [Next]_vars
  PROVE  TargetHeld'
<1>0. /\ collector \in [Requests -> Collectors]
      /\ l1_collections \in [Slots -> Requests \cup {NULL}] /\ requests \in Nat
      /\ qpc = "stop" => target \in Requests /\ l1_lock = "queue"
  BY DEF Typed, TypeOK, Collectors, Control
<1>1. ASSUME NEW m \in Macs, Station(m) PROVE TargetHeld'
  BY <1>1 DEF Station, TargetHeld, l1Vars, queueVars, wireVars
<1>2. ASSUME NEW m \in Macs, StartCollection(m) PROVE TargetHeld'
  BY <1>0, <1>2 DEF StartCollection, TargetHeld, queueVars, wireVars
<1>3. CASE Hello
  BY <1>3 DEF Hello, TargetHeld, l1Vars, queueVars, wireVars
<1>4. ASSUME NEW c \in Requests, Temperature(c) PROVE TargetHeld'
  BY <1>0, <1>4, TemperatureEffect DEF Temperature, TargetHeld, queueVars, wireVars
<1>5. ASSUME NEW c \in Requests, CreateFails(c) PROVE TargetHeld'
  BY <1>5 DEF CreateFails
<1>6. ASSUME NEW c \in Requests, CollectorThread(c) PROVE TargetHeld'
  BY <1>0, <1>6, CollectorMoves DEF TargetHeld, queueVars, wireVars
<1>7. CASE QueueThread
  <2>1. \A c \in Requests : collector'[c].pc = collector[c].pc
    BY <1>7, QueueThreadKeeps DEF Kept
  <2>2. CASE FindCollector
    <3>1. qpc' = "stop" => \E s \in Slots : l1_collections[s] = target' /\ target' \in Requests
      BY <1>0, <2>2 DEF FindCollector
    <3>2. qpc' = "stop" => collector[target'].pc \notin {"none", "freed"} /\ target' \in Requests
      BY <3>1 DEF SlotsHeld
    <3> QED
      BY <2>1, <2>2, <3>2 DEF FindCollector, TargetHeld, wireVars
  <2>3. CASE StopCollector
    BY <2>3 DEF StopCollector, TargetHeld
  <2>4. CASE QueuePop
    <3>1. Head(queue) \in Events
      BY <2>4, HeadTailProperties DEF QueuePop, Typed
    <3>2. qpc' # "stop"
      BY <2>4, <3>1 DEF QueuePop, Events, EventTypes, Handler
    <3> QED
      BY <2>4, <3>2 DEF QueuePop, TargetHeld, wireVars
  <2>5. CASE QueueWake \/ QueueDrained \/ StopReturned \/ StopTimeout \/ SendDone \/ SendUpdate
             \/ SendTemperature
    BY <2>5 DEF QueueWake, QueueDrained, StopReturned, StopTimeout, SendDone, SendUpdate,
                SendTemperature, TargetHeld, wireVars
  <2> QED
    BY <1>7, <2>2, <2>3, <2>4, <2>5 DEF QueueThread
<1>8. CASE UNCHANGED vars
  BY <1>8 DEF vars, l1Vars, queueVars, wireVars, TargetHeld
<1> QED
  BY <1>1, <1>2, <1>3, <1>4, <1>5, <1>6, <1>7, <1>8 DEF Next

(* A collector found in a slot is still allocated when STOP is written to  *)
(* it, as long as pthread_create does not fail (that path gives slot and   *)
(* collector back without l1_lock).                                        *)
THEOREM StopReachesLive == ASSUME ~CreateMayFail PROVE Spec => []NoFreedCollectorUse
<1>1. Typed /\ Control /\ SlotsHeld /\ TargetHeld /\ [Next]_vars => TargetHeld'
  BY StepHeld
<1>2. TargetHeld => NoFreedCollectorUse
  BY DEF TargetHeld, NoFreedCollectorUse
<1> QED
  BY InitTyped, StepTyped, InitSlots, StepSlots, InitHeld, <1>1, <1>2, PTL DEF Spec

-----------------------------------------------------------------------------
(* DONE.                                                                   *)

Queued(c) == \E i \in 1 .. Len(queue) : queue[i].type = "l1_done" /\ queue[i].of = c

(* A collector that has told of its end, was stopped, or was asked to, is  *)
(* reported, or its DONE is queued, or the queue thread is about to send   *)
(* it.                                                                     *)
Accounted ==
  \A c \in Requests :
    collector[c].pc \in {"unsubscribe", "clean", "freed"} \/ collector[c].stop
    => Reported(c) \/ Queued(c) \/ (target = c /\ qpc \in {"wait", "done"})

(* What was reported stays so.                                             *)
LEMMA ReportedKept ==
  ASSUME Typed, NEW t \in Tlvs, wire' \in {wire, Append(wire, t)}, unreported \subseteq unreported',
         NEW c \in Requests, Reported(c)
  PROVE  Reported(c)'
<1>1. CASE wire' = wire
  BY <1>1 DEF Reported, Done
<1>2. CASE wire' = Append(wire, t)
  <2>1. \A i \in 1 .. Len(wire) : i \in 1 .. Len(wire') /\ wire'[i] = wire[i]
    BY <1>2, AppendProperties, LenProperties DEF Typed
  <2> QED
    BY <2>1 DEF Reported, Done
<1> QED
  BY <1>1, <1>2

LEMMA QueuedKept ==
  ASSUME Typed, NEW e, queue' = Append(queue, e), NEW c \in Requests, Queued(c)
  PROVE  Queued(c)'
<1>1. \A i \in 1 .. Len(queue) : i \in 1 .. Len(queue') /\ queue'[i] = queue[i]
  BY AppendProperties, LenProperties DEF Typed
<1> QED
  BY <1>1 DEF Queued

LEMMA InitAccounted == Init => Accounted
  BY DEF Init, Accounted, NoCollector

LEMMA StepAccounted ==
  ASSUME ~CreateMayFail, Typed, Control, SlotsHeld, Accounted, [Next]_vars
  PROVE  Accounted'
<1>0. collector \in [Requests -> Collectors]
  BY DEF Typed, TypeOK, Collectors
<1>1. ASSUME \A c \in Requests : /\ collector'[c].pc = collector[c].pc
                                 /\ collector'[c].stop = collector[c].stop,
             UNCHANGED <<wire, unreported, target, qpc>>,
             queue' = queue \/ \E e : queue' = Append(queue, e)
      PROVE  Accounted'
  <2>1. \A c \in Requests : Reported(c) => Reported(c)'
    BY <1>1 DEF Reported, Done
  <2>2. \A c \in Requests : Queued(c) => Queued(c)'
    BY <1>1, QueuedKept DEF Queued
  <2> QED
    BY <1>1, <2>1, <2>2 DEF Accounted
<1>2. ASSUME NEW m \in Macs, Station(m) PROVE Accounted'
  <2>1. \E e : queue' = Append(queue, e)
    BY <1>2 DEF Station
  <2> QED
    BY <1>1, <1>2, <2>1 DEF Station, l1Vars, queueVars, wireVars
<1>3. ASSUME NEW m \in Macs, StartCollection(m) PROVE Accounted'
  <2>1. CASE UNCHANGED l1Vars
    BY <1>1, <1>3, <2>1 DEF StartCollection, l1Vars, queueVars, wireVars, sharedVars
  <2>2. CASE ~UNCHANGED l1Vars
    <3>1. collector' = [collector EXCEPT ![requests + 1] = [NoCollector(m) EXCEPT !.pc = "created"]]
      BY <1>3, <2>2 DEF StartCollection
    <3>2. \A c \in Requests :
            \/ collector'[c] = collector[c]
            \/ collector'[c].pc = "created" /\ ~collector'[c].stop
      BY <1>0, <3>1 DEF NoCollector
    <3>3. UNCHANGED <<wire, unreported, target, qpc, queue>>
      BY <1>3 DEF StartCollection, queueVars, wireVars, sharedVars
    <3> QED
      BY <3>2, <3>3 DEF Accounted, Reported, Done, Queued
  <2> QED
    BY <2>1, <2>2
<1>4. CASE Hello
  BY <1>1, <1>4 DEF Hello, l1Vars, queueVars, wireVars
<1>5. ASSUME NEW c \in Requests, Temperature(c) PROVE Accounted'
  <2>1. \E e : queue' = Append(queue, e)
    BY <1>5 DEF Temperature
  <2>2. \A d \in Requests : collector'[d].pc = collector[d].pc /\ collector'[d].stop = collector[d].stop
    BY <1>5, TemperatureEffect
  <2> QED
    BY <1>1, <1>5, <2>1, <2>2 DEF Temperature, queueVars, wireVars
<1>6. ASSUME NEW c \in Requests, CreateFails(c) PROVE Accounted'
  BY <1>6 DEF CreateFails
<1>7. ASSUME NEW c \in Requests, CollectorThread(c) PROVE Accounted'
  <2>1. UNCHANGED <<wire, unreported, target, qpc>>
    BY <1>7, CollectorMoves DEF queueVars, wireVars
  <2>2. \A d \in Requests : Reported(d) => Reported(d)'
    BY <2>1 DEF Reported, Done
  <2>3. CASE collector[c].pc = "push"
    <3> DEFINE e == Event("l1_done", collector[c].mac, c, AnyRadio)
    <3>1. queue' = Append(queue, e)
      BY <1>7, <2>3, CollectorMoves
    <3>2. \A d \in Requests : Queued(d) => Queued(d)'
      BY <3>1, QueuedKept
    <3>3. Len(queue') = Len(queue) + 1 /\ queue'[Len(queue) + 1] = e /\ Len(queue) \in Nat
      BY <3>1, AppendProperties, LenProperties DEF Typed
    <3>4. Queued(c)'
      BY <3>3 DEF Queued, Event
    <3> QED
      BY <1>7, <2>1, <2>2, <3>2, <3>4, CollectorMoves DEF Accounted
  <2>4. CASE collector[c].pc # "push"
    <3>1. queue' = queue
      BY <1>7, <2>4, CollectorMoves
    <3>2. \A d \in Requests : Queued(d) => Queued(d)'
      BY <3>1 DEF Queued
    <3>3. collector'[c].pc \in {"unsubscribe", "clean", "freed"}
          => collector[c].pc \in {"unsubscribe", "clean", "freed"} \/ collector[c].stop
      BY <1>7, <2>4, CollectorMoves
    <3> QED
      BY <1>7, <2>1, <2>2, <3>2, <3>3, CollectorMoves DEF Accounted
  <2> QED
    BY <2>3, <2>4
<1>8. CASE QueueThread
  <2>1. \A c \in Requests : collector'[c].pc = collector[c].pc
    BY <1>8, QueueThreadKeeps DEF Kept
  <2>2. CASE QueueWake \/ QueueDrained \/ FindCollector
    BY <2>2 DEF QueueWake, QueueDrained, FindCollector, l1Vars, wireVars, Accounted, Reported, Queued, Done
  <2>3. CASE QueuePop
    <3>1. /\ queue \in Seq(Events) /\ queue # <<>> /\ queue' = Tail(queue) /\ target' = Head(queue).of
          /\ qpc' = Handler[Head(queue).type] /\ qpc = "run"
          /\ UNCHANGED <<collector, wire, unreported>>
      BY <2>3 DEF QueuePop, Typed, l1Vars, wireVars
    <3>2. /\ Len(queue') = Len(queue) - 1 /\ Len(queue) \in Nat
          /\ \A i \in 1 .. Len(queue) - 1 : queue'[i] = queue[i + 1]
          /\ Head(queue) = queue[1]
      BY <3>1, HeadTailProperties, LenProperties
    <3>3. ASSUME NEW c \in Requests, Queued(c) PROVE Queued(c)' \/ (target' = c /\ qpc' = "done")
      <4>1. PICK i \in 1 .. Len(queue) : queue[i].type = "l1_done" /\ queue[i].of = c
        BY <3>3 DEF Queued
      <4>2. CASE i = 1
        BY <3>1, <3>2, <4>1, <4>2 DEF Handler
      <4>3. CASE i # 1
        <5>1. i - 1 \in 1 .. Len(queue') /\ queue'[i - 1] = queue[i]
          BY <3>2, <4>3
        <5> QED
          BY <4>1, <5>1 DEF Queued
      <4> QED
        BY <4>2, <4>3
    <3> QED
      BY <3>1, <3>3 DEF Accounted, Reported, Done
  <2>4. CASE StopCollector
    <3>1. target \in Requests
      BY <2>4 DEF StopCollector, Control
    <3>2. collector' = [collector EXCEPT ![target] = [collector[target] EXCEPT !.stop = TRUE]]
      BY <2>4 DEF StopCollector
    <3>3. \A c \in Requests : c # target => collector'[c] = collector[c]
      BY <1>0, <3>1, <3>2
    <3> QED
      BY <2>4, <3>3 DEF StopCollector, Accounted, Reported, Queued, Done, sharedVars
  <2>5. CASE StopReturned \/ StopTimeout
    <3>1. \A c \in Requests : collector'[c].stop = collector[c].stop
      <4>1. StopReturned => collector' = [collector EXCEPT ![target] = [collector[target] EXCEPT !.ack = FALSE]]
        BY DEF StopReturned
      <4> QED
        BY <1>0, <2>5, <4>1 DEF StopReturned, StopTimeout, l1Vars, Collectors
    <3> QED
      BY <2>1, <2>5, <3>1
      DEF StopReturned, StopTimeout, l1Vars, wireVars, Accounted, Reported, Queued, Done
  <2>6. CASE SendDone
    <3>1. target \in Requests /\ Done(target) \in Tlvs /\ wire \in Seq(Tlvs)
      BY <2>6 DEF SendDone, Control, Done, Tlvs, Typed
    <3>2. EmitOk(Done(target)) \/ EmitFails(Done(target)) \/ EmitSkipped
      BY <2>6 DEF SendDone
    <3>3. wire' \in {wire, Append(wire, Done(target))} /\ unreported \subseteq unreported'
          /\ \A c \in Requests : collector'[c].stop = collector[c].stop
      BY <2>6, <3>1, <3>2, EmitEffect DEF SendDone
    <3>4. \A c \in Requests : Reported(c) => Reported(c)'
      BY <3>1, <3>3, ReportedKept
    <3>5. UNCHANGED <<queue, target>>
      BY <2>6 DEF SendDone
    <3>6. ASSUME NEW c \in Requests, c = target PROVE Reported(c)'
      <4>1. CASE c \in unreported'
        BY <4>1 DEF Reported
      <4>2. CASE c \notin unreported'
        <5>1. wire' = Append(wire, Done(c))
          BY <2>6, <3>6, <4>2 DEF SendDone, EmitOk
        <5>2. Len(wire') = Len(wire) + 1 /\ Len(wire) \in Nat /\ wire'[Len(wire) + 1] = Done(c)
          BY <3>1, <3>6, <5>1, AppendProperties, LenProperties
        <5> QED
          BY <5>2 DEF Reported, Done
      <4> QED
        BY <4>1, <4>2
    <3> QED
      BY <2>1, <3>3, <3>4, <3>5, <3>6 DEF Accounted, Queued
  <2>7. CASE SendUpdate \/ SendTemperature
    <3>1. PICK t \in Tlvs : /\ wire' \in {wire, Append(wire, t)}
                            /\ \A c \in Requests : collector'[c].stop = collector[c].stop
      <4>1. CASE SendUpdate
        <5>1. Update \in Tlvs
          BY UpdateTyped
        <5> QED
          BY <4>1, <5>1, EmitEffect DEF SendUpdate
      <4>2. CASE SendTemperature
        <5> DEFINE data == [tcollect_ctx.temperature_data EXCEPT ![event.radio] = event.of]
        <5>1. event.of \in Requests \cup {NULL}
          BY Constants DEF Typed, Events, NoEvent, Event
        <5>2. Temperatures(data) \in Tlvs
          BY <5>1 DEF Typed, Readings, Temperatures, Tlvs
        <5>3. \/ UNCHANGED <<wire, collector>>
              \/ EmitOk(Temperatures(data)) \/ EmitFails(Temperatures(data)) \/ EmitSkipped
          BY <4>2 DEF SendTemperature
        <5> QED
          BY <5>2, <5>3, EmitEffect
      <4> QED
        BY <2>7, <4>1, <4>2
    <3>2. UNCHANGED <<queue, target, unreported>> /\ qpc \notin {"wait", "done"}
      BY <2>7 DEF SendUpdate, SendTemperature
    <3>3. \A c \in Requests : Reported(c) => Reported(c)'
      BY <3>1, <3>2, ReportedKept
    <3> QED
      BY <2>1, <3>1, <3>2, <3>3 DEF Accounted, Queued
  <2> QED
    BY <1>8, <2>2, <2>3, <2>4, <2>5, <2>6, <2>7 DEF QueueThread
<1>9. CASE UNCHANGED vars
  BY <1>1, <1>9 DEF vars, l1Vars, queueVars, wireVars, sharedVars
<1> QED
  BY <1>2, <1>3, <1>4, <1>5, <1>6, <1>7, <1>8, <1>9 DEF Next

(* The agent is told of the end of every collection, or comms did not work *)
(* when it was to be told, as long as pthread_create does not fail: however*)
(* the timer, a STOP and its timeout race, some DONE is queued or sent.    *)
THEOREM EveryEndReported == ASSUME ~CreateMayFail PROVE Spec => []EveryCollectionReported
<1>1. Typed /\ Control /\ SlotsHeld /\ Accounted /\ [Next]_vars => Accounted'
  BY StepAccounted
<1>2. Accounted => EveryCollectionReported
  BY DEF Accounted, EveryCollectionReported, Queued
<1> QED
  BY InitTyped, StepTyped, InitSlots, StepSlots, InitAccounted, <1>1, <1>2, PTL DEF Spec

-----------------------------------------------------------------------------
(* What the agent receives.                                                *)

Gathering == [tcollect_ctx.temperature_data EXCEPT ![event.radio] = event.of]

(* The three things that are sent, and by which handler.                   *)
LEMMA WireGrows ==
  ASSUME Typed, Control, QueueThread
  PROVE  \/ wire' = wire
         \/ SendDone /\ wire' = Append(wire, Done(target))
         \/ SendUpdate /\ wire' = Append(wire, Update)
         \/ /\ SendTemperature /\ wire' = Append(wire, Temperatures(Gathering))
            /\ tcollect_ctx.collected_count + 1 = NumRadios
<1>1. CASE SendDone
  <2>1. wire' \in {wire, Append(wire, Done(target))}
    BY <1>1 DEF SendDone, EmitOk, EmitFails, EmitSkipped
  <2> QED
    BY <1>1, <2>1
<1>2. CASE SendUpdate
  <2>1. wire' \in {wire, Append(wire, Update)}
    BY <1>2 DEF SendUpdate, EmitOk, EmitFails, EmitSkipped
  <2> QED
    BY <1>2, <2>1
<1>3. CASE SendTemperature
  <2>1. \/ wire' = wire
        \/ /\ wire' = Append(wire, Temperatures(Gathering))
           /\ tcollect_ctx.collected_count + 1 = NumRadios
    BY <1>3 DEF SendTemperature, Gathering, EmitOk, EmitFails, EmitSkipped
  <2> QED
    BY <1>3, <2>1
<1>4. CASE ~(SendDone \/ SendUpdate \/ SendTemperature)
  BY <1>4 DEF QueueThread, QueueWake, QueueDrained, QueuePop, FindCollector, StopCollector,
              StopReturned, StopTimeout, wireVars
<1> QED
  BY <1>1, <1>2, <1>3, <1>4

(* Nobody else sends anything.                                             *)
LEMMA WireOfOthers ==
  ASSUME Typed, [Next]_vars, ~QueueThread
  PROVE  UNCHANGED <<wireVars, queueVars, tcollect_ctx>>
<1>1. ASSUME NEW m \in Macs, Station(m) \/ StartCollection(m)
      PROVE  UNCHANGED <<wireVars, queueVars, tcollect_ctx>>
  BY <1>1 DEF Station, StartCollection
<1>2. ASSUME NEW c \in Requests, Temperature(c) \/ CreateFails(c) \/ CollectorThread(c)
      PROVE  UNCHANGED <<wireVars, queueVars, tcollect_ctx>>
  BY <1>2, CollectorMoves DEF Temperature, CreateFails
<1>3. CASE Hello \/ UNCHANGED vars
  BY <1>3 DEF Hello, vars
<1> QED
  BY <1>1, <1>2, <1>3 DEF Next

-----------------------------------------------------------------------------
(* Temperatures.                                                           *)

Of(e, c) == e.type = "temperature" /\ e.of = c

NextRadio(r) == IF r = NumRadios - 1 THEN 0 ELSE r + 1

(* The readings of c in Q follow one another in the order of the radios,   *)
(* and n is the radio that comes after them.                               *)
InTurn(Q, c, n) ==
  /\ \A i, j \in 1 .. Len(Q) :
       i < j /\ Of(Q[i], c) /\ Of(Q[j], c) /\ (\A k \in i + 1 .. j - 1 : ~Of(Q[k], c))
       => Q[j].radio = NextRadio(Q[i].radio)
  /\ \A i \in 1 .. Len(Q) :
       Of(Q[i], c) /\ (\A k \in i + 1 .. Len(Q) : ~Of(Q[k], c)) => n = NextRadio(Q[i].radio)

(* p is the radio of the next reading of c, be it in Q or still to come.   *)
NextUp(Q, c, p, n) ==
  \/ \E i \in 1 .. Len(Q) :
       Of(Q[i], c) /\ (\A k \in 1 .. i - 1 : ~Of(Q[k], c)) /\ Q[i].radio = p
  \/ (\A k \in 1 .. Len(Q) : ~Of(Q[k], c)) /\ p = n

(* An event of something else at the end, a reading of c at the end, and   *)
(* the first event taken away.                                             *)
LEMMA TurnAppendOther ==
  ASSUME NEW Q \in Seq(Events), NEW e \in Events, NEW c \in Requests, NEW n \in Radios, ~Of(e, c)
  PROVE  /\ InTurn(Q, c, n) => InTurn(Append(Q, e), c, n)
         /\ \A p \in Radios : NextUp(Append(Q, e), c, p, n) => NextUp(Q, c, p, n)
<1> DEFINE R == Append(Q, e)
<1>1. /\ Len(R) = Len(Q) + 1 /\ Len(Q) \in Nat /\ R[Len(Q) + 1] = e
      /\ \A i \in 1 .. Len(Q) : R[i] = Q[i]
  BY AppendProperties, LenProperties
<1> HIDE DEF R
<1>2. \A i \in 1 .. Len(R) : Of(R[i], c) => i \in 1 .. Len(Q) /\ R[i] = Q[i]
  BY <1>1
<1>3. ASSUME InTurn(Q, c, n) PROVE InTurn(R, c, n)
  <2>1. ASSUME NEW i \in 1 .. Len(R), NEW j \in 1 .. Len(R), i < j, Of(R[i], c), Of(R[j], c),
               \A k \in i + 1 .. j - 1 : ~Of(R[k], c)
        PROVE  R[j].radio = NextRadio(R[i].radio)
    <3>1. i \in 1 .. Len(Q) /\ j \in 1 .. Len(Q) /\ R[i] = Q[i] /\ R[j] = Q[j]
      BY <1>2, <2>1
    <3>2. \A k \in i + 1 .. j - 1 : ~Of(Q[k], c)
      BY <1>1, <2>1, <3>1
    <3> QED
      BY <1>3, <2>1, <3>1, <3>2 DEF InTurn
  <2>2. ASSUME NEW i \in 1 .. Len(R), Of(R[i], c), \A k \in i + 1 .. Len(R) : ~Of(R[k], c)
        PROVE  n = NextRadio(R[i].radio)
    <3>1. i \in 1 .. Len(Q) /\ R[i] = Q[i]
      BY <1>2, <2>2
    <3>2. \A k \in i + 1 .. Len(Q) : ~Of(Q[k], c)
      BY <1>1, <2>2, <3>1
    <3> QED
      BY <1>3, <2>2, <3>1, <3>2 DEF InTurn
  <2> QED
    BY <2>1, <2>2 DEF InTurn
<1>4. ASSUME NEW p \in Radios, NextUp(R, c, p, n) PROVE NextUp(Q, c, p, n)
  <2>1. CASE \A k \in 1 .. Len(R) : ~Of(R[k], c)
    <3>1. \A k \in 1 .. Len(Q) : ~Of(Q[k], c)
      BY <1>1, <2>1
    <3> QED
      BY <1>4, <2>1, <3>1 DEF NextUp
  <2>2. ASSUME NEW i \in 1 .. Len(R), Of(R[i], c), \A k \in 1 .. i - 1 : ~Of(R[k], c), R[i].radio = p
        PROVE  NextUp(Q, c, p, n)
    BY <1>1, <1>2, <2>2 DEF NextUp
  <2> QED
    BY <1>4, <2>1, <2>2 DEF NextUp
<1> QED
  BY <1>3, <1>4 DEF R

LEMMA TurnAppendOwn ==
  ASSUME NEW Q \in Seq(Events), NEW e \in Events, NEW c \in Requests, NEW n \in Radios,
         Of(e, c), e.radio = n, InTurn(Q, c, n)
  PROVE  /\ InTurn(Append(Q, e), c, NextRadio(n))
         /\ \A p \in Radios : NextUp(Append(Q, e), c, p, NextRadio(n)) => NextUp(Q, c, p, n)
<1> DEFINE R == Append(Q, e)
<1>1. /\ Len(R) = Len(Q) + 1 /\ Len(Q) \in Nat /\ R[Len(Q) + 1] = e
      /\ \A i \in 1 .. Len(Q) : R[i] = Q[i]
  BY AppendProperties, LenProperties
<1> HIDE DEF R
<1>2. InTurn(R, c, NextRadio(n))
  <2>1. ASSUME NEW i \in 1 .. Len(R), NEW j \in 1 .. Len(R), i < j, Of(R[i], c), Of(R[j], c),
               \A k \in i + 1 .. j - 1 : ~Of(R[k], c)
        PROVE  R[j].radio = NextRadio(R[i].radio)
    <3>1. i \in 1 .. Len(Q) /\ R[i] = Q[i] /\ Of(Q[i], c)
      BY <1>1, <2>1
    <3>2. CASE j \in 1 .. Len(Q)
      <4>1. \A k \in i + 1 .. j - 1 : ~Of(Q[k], c)
        BY <1>1, <2>1, <3>1, <3>2
      <4> QED
        BY <1>1, <2>1, <3>1, <3>2, <4>1 DEF InTurn
    <3>3. CASE j = Len(Q) + 1
      <4>1. \A k \in i + 1 .. Len(Q) : ~Of(Q[k], c)
        BY <1>1, <2>1, <3>1, <3>3
      <4> QED
        BY <1>1, <3>1, <3>3, <4>1 DEF InTurn
    <3> QED
      BY <1>1, <3>2, <3>3
  <2>2. ASSUME NEW i \in 1 .. Len(R), Of(R[i], c), \A k \in i + 1 .. Len(R) : ~Of(R[k], c)
        PROVE  NextRadio(n) = NextRadio(R[i].radio)
    <3>1. i = Len(Q) + 1
      BY <1>1, <2>2
    <3> QED
      BY <1>1, <3>1
  <2> QED
    BY <2>1, <2>2 DEF InTurn
<1>3. ASSUME NEW p \in Radios, NextUp(R, c, p, NextRadio(n)) PROVE NextUp(Q, c, p, n)
  <2>1. Of(R[Len(Q) + 1], c) /\ Len(Q) + 1 \in 1 .. Len(R)
    BY <1>1
  <2>2. PICK i \in 1 .. Len(R) : Of(R[i], c) /\ (\A k \in 1 .. i - 1 : ~Of(R[k], c)) /\ R[i].radio = p
    BY <1>3, <2>1 DEF NextUp
  <2>3. CASE i = Len(Q) + 1
    <3>1. \A k \in 1 .. Len(Q) : ~Of(Q[k], c)
      BY <1>1, <2>2, <2>3
    <3> QED
      BY <1>1, <2>2, <2>3, <3>1 DEF NextUp
  <2>4. CASE i \in 1 .. Len(Q)
    <3>1. \A k \in 1 .. i - 1 : ~Of(Q[k], c)
      BY <1>1, <2>2, <2>4
    <3> QED
      BY <1>1, <2>2, <2>4, <3>1 DEF NextUp
  <2> QED
    BY <1>1, <2>3, <2>4
<1> QED
  BY <1>2, <1>3 DEF R

LEMMA TurnTail ==
  ASSUME NEW Q \in Seq(Events), Q # <<>>, NEW c \in Requests, NEW n \in Radios, InTurn(Q, c, n)
  PROVE  /\ InTurn(Tail(Q), c, n)
         /\ ~Of(Q[1], c) => \A p \in Radios : NextUp(Tail(Q), c, p, n) => NextUp(Q, c, p, n)
         /\ Of(Q[1], c) =>
              /\ NextUp(Q, c, Q[1].radio, n)
              /\ \A p \in Radios : NextUp(Tail(Q), c, p, n) => p = NextRadio(Q[1].radio)
<1> DEFINE R == Tail(Q)
<1>1. /\ Len(R) = Len(Q) - 1 /\ Len(Q) \in Nat /\ Len(Q) > 0
      /\ \A i \in 1 .. Len(R) : i + 1 \in 1 .. Len(Q) /\ R[i] = Q[i + 1]
  BY HeadTailProperties, LenProperties, EmptySeq
<1> HIDE DEF R
<1>2. \A i \in 2 .. Len(Q) : i - 1 \in 1 .. Len(R) /\ R[i - 1] = Q[i]
  BY <1>1
<1>3. InTurn(R, c, n)
  <2>1. ASSUME NEW i \in 1 .. Len(R), NEW j \in 1 .. Len(R), i < j, Of(R[i], c), Of(R[j], c),
               \A k \in i + 1 .. j - 1 : ~Of(R[k], c)
        PROVE  R[j].radio = NextRadio(R[i].radio)
    <3>1. \A k \in (i + 1) + 1 .. (j + 1) - 1 : ~Of(Q[k], c)
      <4> SUFFICES ASSUME NEW k \in (i + 1) + 1 .. (j + 1) - 1 PROVE ~Of(Q[k], c)
        OBVIOUS
      <4>1. k - 1 \in i + 1 .. j - 1 /\ R[k - 1] = Q[k]
        BY <1>1, <1>2
      <4> QED
        BY <2>1, <4>1
    <3>2. i + 1 \in 1 .. Len(Q) /\ j + 1 \in 1 .. Len(Q) /\ i + 1 < j + 1
          /\ R[i] = Q[i + 1] /\ R[j] = Q[j + 1]
      BY <1>1, <2>1
    <3> QED
      BY <2>1, <3>1, <3>2 DEF InTurn
  <2>2. ASSUME NEW i \in 1 .. Len(R), Of(R[i], c), \A k \in i + 1 .. Len(R) : ~Of(R[k], c)
        PROVE  n = NextRadio(R[i].radio)
    <3>1. \A k \in (i + 1) + 1 .. Len(Q) : ~Of(Q[k], c)
      <4> SUFFICES ASSUME NEW k \in (i + 1) + 1 .. Len(Q) PROVE ~Of(Q[k], c)
        OBVIOUS
      <4>1. k - 1 \in i + 1 .. Len(R) /\ R[k - 1] = Q[k]
        BY <1>1, <1>2
      <4> QED
        BY <2>2, <4>1
    <3>2. i + 1 \in 1 .. Len(Q) /\ R[i] = Q[i + 1]
      BY <1>1
    <3> QED
      BY <2>2, <3>1, <3>2 DEF InTurn
  <2> QED
    BY <2>1, <2>2 DEF InTurn
<1>4. ASSUME ~Of(Q[1], c), NEW p \in Radios, NextUp(R, c, p, n) PROVE NextUp(Q, c, p, n)
  <2>1. CASE (\A k \in 1 .. Len(R) : ~Of(R[k], c)) /\ p = n
    <3>1. \A k \in 1 .. Len(Q) : ~Of(Q[k], c)
      BY <1>1, <1>2, <1>4, <2>1
    <3> QED
      BY <2>1, <3>1 DEF NextUp
  <2>2. ASSUME NEW i \in 1 .. Len(R), Of(R[i], c), \A k \in 1 .. i - 1 : ~Of(R[k], c), R[i].radio = p
        PROVE  NextUp(Q, c, p, n)
    <3>1. \A k \in 1 .. (i + 1) - 1 : ~Of(Q[k], c)
      <4> SUFFICES ASSUME NEW k \in 1 .. (i + 1) - 1, k # 1 PROVE ~Of(Q[k], c)
        BY <1>4
      <4>1. k - 1 \in 1 .. i - 1 /\ R[k - 1] = Q[k]
        BY <1>1, <1>2
      <4> QED
        BY <2>2, <4>1
    <3>2. i + 1 \in 1 .. Len(Q) /\ R[i] = Q[i + 1]
      BY <1>1
    <3> QED
      BY <2>2, <3>1, <3>2 DEF NextUp
  <2> QED
    BY <1>4, <2>1, <2>2 DEF NextUp
<1>5. ASSUME Of(Q[1], c) PROVE NextUp(Q, c, Q[1].radio, n)
  <2>1. 1 \in 1 .. Len(Q) /\ \A k \in 1 .. 1 - 1 : ~Of(Q[k], c)
    BY <1>1
  <2> QED
    BY <1>5, <2>1 DEF NextUp
<1>6. ASSUME Of(Q[1], c), NEW p \in Radios, NextUp(R, c, p, n) PROVE p = NextRadio(Q[1].radio)
  <2>1. CASE (\A k \in 1 .. Len(R) : ~Of(R[k], c)) /\ p = n
    <3>1. \A k \in 1 + 1 .. Len(Q) : ~Of(Q[k], c)
      BY <1>1, <1>2, <2>1
    <3>2. 1 \in 1 .. Len(Q)
      BY <1>1
    <3> QED
      BY <1>6, <2>1, <3>1, <3>2 DEF InTurn
  <2>2. ASSUME NEW i \in 1 .. Len(R), Of(R[i], c), \A k \in 1 .. i - 1 : ~Of(R[k], c), R[i].radio = p
        PROVE  p = NextRadio(Q[1].radio)
    <3>1. \A k \in 1 + 1 .. (i + 1) - 1 : ~Of(Q[k], c)
      <4> SUFFICES ASSUME NEW k \in 1 + 1 .. (i + 1) - 1 PROVE ~Of(Q[k], c)
        OBVIOUS
      <4>1. k - 1 \in 1 .. i - 1 /\ R[k - 1] = Q[k]
        BY <1>1, <1>2
      <4> QED
        BY <2>2, <4>1
    <3>2. 1 \in 1 .. Len(Q) /\ i + 1 \in 1 .. Len(Q) /\ R[i] = Q[i + 1] /\ 1 < i + 1
      BY <1>1
    <3> QED
      BY <1>6, <2>2, <3>1, <3>2 DEF InTurn
  <2> QED
    BY <1>6, <2>1, <2>2 DEF NextUp
<1> QED
  BY <1>3, <1>4, <1>5, <1>6 DEF R

(* The radio after n readings in turn.                                     *)
LEMMA NextTold ==
  ASSUME NEW n \in Nat
  PROVE  n % NumRadios \in Radios /\ (n + 1) % NumRadios = NextRadio(n % NumRadios)
<1> DEFINE N == NumRadios
           r == n % N
           s == (n + 1) % N
           d == ((n + 1) \div N) - (n \div N)
<1>0. N \in Nat \ {0}
  BY RadiosAssumption
<1>1. r \in 0 .. N - 1 /\ s \in 0 .. N - 1
  BY <1>0
<1>2. d \in Int /\ N * d = r + 1 - s
  <2>1. n = N * (n \div N) + r /\ n + 1 = N * ((n + 1) \div N) + s
    BY <1>0
  <2>2. n \div N \in Int /\ (n + 1) \div N \in Int
    BY <1>0
  <2>3. ASSUME NEW x \in Int, NEW y \in Int, NEW u \in Int, NEW v \in Int,
               n = N * x + u, n + 1 = N * y + v
        PROVE  N * (y - x) = u + 1 - v
    BY <1>0, <2>3
  <2> QED
    BY <1>1, <2>1, <2>2, <2>3
<1> HIDE DEF N, r, s, d
<1>3. d < 2
  <2>1. ASSUME d >= 2 PROVE N * d >= 2 * N
    BY <1>0, <1>2, <2>1
  <2> QED
    BY <1>0, <1>1, <1>2, <2>1
<1>4. d >= 0
  <2>1. ASSUME d <= -1 PROVE N * d <= -N
    BY <1>0, <1>2, <2>1
  <2> QED
    BY <1>0, <1>1, <1>2, <2>1
<1>5. d = 0 \/ d = 1
  BY <1>2, <1>3, <1>4
<1>6. s = IF r = N - 1 THEN 0 ELSE r + 1
  BY <1>0, <1>1, <1>2, <1>5
<1> QED
  BY <1>1, <1>6 DEF r, s, N, NextRadio, Radios

(* A collector that was never started was never told anything.             *)
Untold == \A c \in Requests : collector[c].pc = "none" => collector[c].told = 0

(* Only a notification tells a collector anything.                         *)
LEMMA StepTold ==
  ASSUME Typed, Control, SlotsHeld, Untold, [Next]_vars
  PROVE  /\ Untold'
         /\ \/ \A c \in Requests : collector'[c].told = collector[c].told
            \/ \E c \in Requests : Temperature(c)
<1>0. collector \in [Requests -> Collectors] /\ requests \in Nat
  BY DEF Typed, TypeOK, Collectors
<1>1. ASSUME \A c \in Requests : /\ collector'[c].told = collector[c].told
                                 /\ collector'[c].pc = "none" => collector[c].pc = "none"
      PROVE  Untold' /\ \A c \in Requests : collector'[c].told = collector[c].told
  BY <1>1 DEF Untold
<1>2. ASSUME NEW m \in Macs, Station(m)
      PROVE  Untold' /\ \A c \in Requests : collector'[c].told = collector[c].told
  BY <1>1, <1>2 DEF Station, l1Vars
<1>3. ASSUME NEW m \in Macs, StartCollection(m)
      PROVE  Untold' /\ \A c \in Requests : collector'[c].told = collector[c].told
  <2>1. CASE UNCHANGED l1Vars
    BY <1>1, <2>1 DEF l1Vars
  <2>2. CASE ~UNCHANGED l1Vars
    <3>1. requests + 1 \in Requests => collector[requests + 1].told = 0
      BY <1>0 DEF SlotsHeld, Untold, Requests
    <3>2. collector' = [collector EXCEPT ![requests + 1] = [NoCollector(m) EXCEPT !.pc = "created"]]
      BY <1>3, <2>2 DEF StartCollection
    <3>3. [NoCollector(m) EXCEPT !.pc = "created"].told = 0
          /\ [NoCollector(m) EXCEPT !.pc = "created"].pc = "created"
      BY DEF NoCollector
    <3> QED
      BY <1>0, <1>1, <3>1, <3>2, <3>3
  <2> QED
    BY <2>1, <2>2
<1>4. ASSUME NEW c \in Requests, Temperature(c) PROVE Untold'
  BY <1>4, TemperatureEffect DEF Temperature, SlotsHeld, Untold
<1>5. ASSUME NEW c \in Requests, CreateFails(c) \/ CollectorThread(c)
      PROVE  Untold' /\ \A d \in Requests : collector'[d].told = collector[d].told
  <2>1. CASE CreateFails(c)
    BY <1>1, <2>1, CreateFailsEffect
  <2>2. CASE CollectorThread(c)
    BY <1>1, <2>2, CollectorMoves
  <2> QED
    BY <1>5, <2>1, <2>2
<1>6. CASE QueueThread
  BY <1>1, <1>6, QueueThreadKeeps DEF Kept
<1>7. CASE Hello \/ UNCHANGED vars
  BY <1>1, <1>7 DEF Hello, vars, l1Vars
<1> QED
  BY <1>2, <1>3, <1>4, <1>5, <1>6, <1>7 DEF Next

(* The events not handled yet: the one at hand, then the queue.            *)
Pending == IF qpc = "temperature" THEN <<event>> \o queue ELSE queue
Told(c) == collector[c].told % NumRadios

Turns == \A c \in Requests : InTurn(Pending, c, Told(c))

(* The k readings before p, going round, are of c, and there is no other.  *)
Filled(D, k, p, c) ==
  \A r \in Radios :
    D[r] = IF (p - k <= r /\ r < p) \/ p - k + NumRadios <= r THEN c ELSE NULL

(* Unless readings were mixed, a context that waits for more readings, all *)
(* of one collection, holds those right before the next one to come.       *)
Gathered ==
  /\ tcollect_ctx.collected_count = 0 => tcollect_ctx.temperature_data = NoReadings
  /\ \/ mixed
     \/ tcollect_ctx.collected_count = 0
     \/ tcollect_ctx.collected_count >= NumRadios
     \/ \A c \in Requests :
          (\A r \in Radios : tcollect_ctx.temperature_data[r] \in {NULL, c}) =>
             \A p \in Radios :
               NextUp(Pending, c, p, Told(c)) =>
                 Filled(tcollect_ctx.temperature_data, tcollect_ctx.collected_count, p, c)

(* One more reading, and the last one.                                     *)
LEMMA FilledNext ==
  ASSUME NEW D \in Readings, NEW k \in Nat, NEW p \in Radios, NEW c \in Requests, Filled(D, k, p, c)
  PROVE  /\ k + 1 < NumRadios => Filled([D EXCEPT ![p] = c], k + 1, NextRadio(p), c)
         /\ k + 1 = NumRadios => \A r \in Radios : [D EXCEPT ![p] = c][r] # NULL
<1> DEFINE F == [D EXCEPT ![p] = c]
<1>0. NumRadios \in Nat \ {0} /\ p \in 0 .. NumRadios - 1 /\ c # NULL
  BY RadiosAssumption, Constants DEF Radios
<1>1. \A r \in Radios : F[r] = IF r = p THEN c ELSE D[r]
  BY DEF Readings
<1> HIDE DEF F
<1>2. ASSUME k + 1 = NumRadios, NEW r \in Radios PROVE F[r] # NULL
  <2>1. r \in 0 .. NumRadios - 1 /\ r # p => (p - k <= r /\ r < p) \/ p - k + NumRadios <= r
    BY <1>0, <1>2
  <2>2. r \in 0 .. NumRadios - 1
    BY DEF Radios
  <2> QED
    BY <1>0, <1>1, <2>1, <2>2 DEF Filled
<1>3. ASSUME k + 1 < NumRadios, NEW r \in Radios
      PROVE  F[r] = IF \/ NextRadio(p) - (k + 1) <= r /\ r < NextRadio(p)
                       \/ NextRadio(p) - (k + 1) + NumRadios <= r THEN c ELSE NULL
  <2>1. r \in 0 .. NumRadios - 1
    BY DEF Radios
  <2>2. D[r] = IF (p - k <= r /\ r < p) \/ p - k + NumRadios <= r THEN c ELSE NULL
    BY DEF Filled
  <2>3. \/ NextRadio(p) - (k + 1) <= r /\ r < NextRadio(p)
        \/ NextRadio(p) - (k + 1) + NumRadios <= r
        <=> r = p \/ (p - k <= r /\ r < p) \/ p - k + NumRadios <= r
    BY <1>0, <1>3, <2>1 DEF NextRadio
  <2> QED
    BY <1>1, <2>2, <2>3
<1> QED
  BY <1>2, <1>3 DEF F, Filled

(* What the queue thread has at hand comes before the queue.               *)
LEMMA AtHand ==
  ASSUME Typed, Control, qpc = "temperature"
  PROVE  /\ Pending \in Seq(Events) /\ Pending # <<>> /\ Pending[1] = event /\ Tail(Pending) = queue
         /\ event.of \in Requests /\ event.radio \in Radios /\ Of(event, event.of)
<1>1. event \in Events /\ event.type = "temperature"
  BY DEF Typed, Control, NoEvent, Event
<1>2. queue \in Seq(Events) /\ <<event>> \in Seq(Events) /\ Len(<<event>>) = 1 /\ Len(queue) \in Nat
  BY <1>1, LenProperties DEF Typed
<1>3. /\ Pending \in Seq(Events) /\ Len(Pending) = 1 + Len(queue)
      /\ \A i \in 1 .. 1 + Len(queue) : Pending[i] = IF i <= 1 THEN <<event>>[i] ELSE queue[i - 1]
  BY <1>2, ConcatProperties DEF Pending
<1>4. Pending # <<>> /\ Pending[1] = event
  BY <1>2, <1>3, EmptySeq
<1>5. /\ Tail(Pending) \in Seq(Events) /\ Len(Tail(Pending)) = Len(queue)
      /\ \A i \in 1 .. Len(queue) : Tail(Pending)[i] = queue[i]
  <2>1. /\ Tail(Pending) \in Seq(Events) /\ Len(Tail(Pending)) = Len(Pending) - 1
        /\ \A i \in 1 .. Len(Tail(Pending)) : Tail(Pending)[i] = Pending[i + 1]
    BY <1>3, <1>4, HeadTailProperties
  <2> QED
    BY <1>2, <1>3, <2>1
<1>6. Tail(Pending) = queue
  BY <1>2, <1>5, SeqEqual
<1> QED
  BY <1>1, <1>3, <1>4, <1>6 DEF Events, Of

(* A step that leaves the readings to come as they are, or puts the next   *)
(* ones off, and keeps or clears the context.                              *)
LEMMA GatheredKept ==
  ASSUME Gathered, mixed' = mixed, tcollect_ctx' \in {tcollect_ctx, ZeroCtx},
         \A c \in Requests, p \in Radios :
           NextUp(Pending, c, p, Told(c))' => NextUp(Pending, c, p, Told(c))
  PROVE  Gathered'
<1>1. CASE tcollect_ctx' = ZeroCtx
  BY <1>1 DEF Gathered, ZeroCtx, NoReadings
<1>2. CASE tcollect_ctx' = tcollect_ctx
  BY <1>2 DEF Gathered, Filled, NoReadings
<1> QED
  BY <1>1, <1>2

(* Readings stay in turn, and only handling a reading brings the next one  *)
(* up.                                                                     *)
LEMMA StepTurns ==
  ASSUME Typed, Control, SlotsHeld, Untold, Turns, [Next]_vars
  PROVE  /\ Turns'
         /\ ~SendTemperature =>
              \A c \in Requests, p \in Radios :
                NextUp(Pending, c, p, Told(c))' => NextUp(Pending, c, p, Told(c))
<1> DEFINE Later == \A c \in Requests, p \in Radios :
                      NextUp(Pending, c, p, Told(c))' => NextUp(Pending, c, p, Told(c))
<1>0. /\ collector \in [Requests -> Collectors] /\ queue \in Seq(Events)
      /\ \A c \in Requests : collector[c].told \in Nat /\ Told(c) \in Radios
  <2>1. collector \in [Requests -> Collectors] /\ queue \in Seq(Events)
    BY DEF Typed, TypeOK, Collectors
  <2>2. \A c \in Requests : collector[c].told \in Nat
    BY <2>1 DEF Collectors
  <2> QED
    BY <2>1, <2>2, NextTold DEF Told
<1>1. ASSUME Pending' = Pending, \A c \in Requests : collector'[c].told = collector[c].told
      PROVE  Turns' /\ Later
  <2>1. \A c \in Requests : Told(c)' = Told(c)
    BY <1>1 DEF Told
  <2> QED
    BY <1>1, <2>1 DEF Turns, InTurn, NextUp, Of, NextRadio
<1>2. ASSUME NEW e \in Events, e.type # "temperature", queue' = Append(queue, e), lock = "none",
             UNCHANGED qpc, \A c \in Requests : collector'[c].told = collector[c].told
      PROVE  Turns' /\ Later
  <2>1. Pending = queue /\ Pending' = Append(queue, e)
    BY <1>2 DEF Pending, Control
  <2>2. \A c \in Requests : Told(c)' = Told(c)
    BY <1>2 DEF Told
  <2> SUFFICES ASSUME NEW c \in Requests
               PROVE  /\ InTurn(Append(queue, e), c, Told(c))
                      /\ \A p \in Radios : NextUp(Append(queue, e), c, p, Told(c)) =>
                                           NextUp(queue, c, p, Told(c))
    BY <2>1, <2>2, SMTT(30) DEF Turns, InTurn, NextUp, Of, NextRadio
  <2>3. ~Of(e, c) /\ InTurn(queue, c, Told(c))
    BY <1>2, <2>1 DEF Of, Turns
  <2> QED
    BY <1>0, <2>3, TurnAppendOther
<1>3. ASSUME NEW c \in Requests, Temperature(c) PROVE Turns' /\ Later
  <2> DEFINE e == Event("temperature", AnyMac, c, Told(c))
  <2>1. e \in Events /\ Of(e, c) /\ e.radio = Told(c)
    BY <1>0, Constants DEF Event, Events, EventTypes, Of
  <2>2. Pending = queue /\ Pending' = Append(queue, e)
    BY <1>3 DEF Temperature, Pending, Control, Told, queueVars
  <2>3. Told(c)' = NextRadio(Told(c))
    BY <1>0, <1>3, TemperatureEffect, NextTold DEF Told
  <2>4. \A d \in Requests : d # c => Told(d)' = Told(d) /\ ~Of(e, d)
    BY <1>3, <2>1, TemperatureEffect DEF Told, Of
  <2> HIDE DEF e
  <2>5. /\ InTurn(Append(queue, e), c, NextRadio(Told(c)))
        /\ \A p \in Radios : NextUp(Append(queue, e), c, p, NextRadio(Told(c))) =>
                             NextUp(queue, c, p, Told(c))
    BY <1>0, <2>1, <2>2, TurnAppendOwn DEF Turns
  <2>6. \A d \in Requests : d # c =>
          /\ InTurn(Append(queue, e), d, Told(d))
          /\ \A p \in Radios : NextUp(Append(queue, e), d, p, Told(d)) => NextUp(queue, d, p, Told(d))
    BY <1>0, <2>1, <2>2, <2>4, TurnAppendOther DEF Turns
  <2>7. \A d \in Requests : InTurn(Pending, d, Told(d))'
    <3> SUFFICES ASSUME NEW d \in Requests PROVE InTurn(Pending', d, Told(d)')
      BY DEF InTurn, Of, NextRadio
    <3> QED
      BY <2>2, <2>3, <2>4, <2>5, <2>6
  <2>8. ASSUME NEW d \in Requests, NEW p \in Radios, NextUp(Pending', d, p, Told(d)')
        PROVE  NextUp(Pending, d, p, Told(d))
    BY <2>2, <2>3, <2>4, <2>5, <2>6, <2>8
  <2> QED
    BY <2>7, <2>8 DEF Turns, NextUp, Of
<1>4. ASSUME Pending \in Seq(Events), Pending # <<>>, Pending' = Tail(Pending),
             \A c \in Requests : collector'[c].told = collector[c].told
      PROVE  Turns' /\ (Pending[1].type # "temperature" => Later)
  <2>1. \A c \in Requests : Told(c)' = Told(c)
    BY <1>4 DEF Told
  <2>2. ASSUME NEW c \in Requests
        PROVE  /\ InTurn(Tail(Pending), c, Told(c))
               /\ Pending[1].type # "temperature" =>
                    \A p \in Radios : NextUp(Tail(Pending), c, p, Told(c)) =>
                                      NextUp(Pending, c, p, Told(c))
    <3>1. InTurn(Pending, c, Told(c)) /\ (Pending[1].type # "temperature" => ~Of(Pending[1], c))
      BY DEF Turns, Of
    <3> QED
      BY <1>0, <1>4, <3>1, TurnTail
  <2>3. \A c \in Requests : InTurn(Pending', c, Told(c)')
    BY <1>4, <2>1, <2>2
  <2>4. Turns'
    BY <2>3 DEF Turns, InTurn, Of, NextRadio
  <2>5. ASSUME Pending[1].type # "temperature", NEW c \in Requests, NEW p \in Radios,
               NextUp(Pending', c, p, Told(c)')
        PROVE  NextUp(Pending, c, p, Told(c))
    BY <1>4, <2>1, <2>2, <2>5
  <2>6. Pending[1].type # "temperature" => Later
    BY <2>5 DEF NextUp, Of
  <2> QED
    BY <2>4, <2>6
<1>5. ASSUME NEW m \in Macs, Station(m) PROVE Turns' /\ Later
  <2>1. PICK e \in Events : queue' = Append(queue, e) /\ e.type # "temperature"
    <3>1. /\ Event("disconnected", m, NULL, AnyRadio) \in Events
          /\ Event("connected", m, NULL, AnyRadio) \in Events
      BY Constants DEF Event, Events, EventTypes
    <3>2. /\ Event("disconnected", m, NULL, AnyRadio).type # "temperature"
          /\ Event("connected", m, NULL, AnyRadio).type # "temperature"
      BY DEF Event
    <3> QED
      BY <1>5, <3>1, <3>2 DEF Station
  <2> QED
    BY <1>2, <1>5, <2>1 DEF Station, l1Vars, queueVars
<1>6. CASE \E c \in Requests : CollectorThread(c)
  <2>1. PICK c \in Requests : CollectorThread(c)
    BY <1>6
  <2>2. \A d \in Requests : collector'[d].told = collector[d].told
    BY <2>1, CollectorMoves
  <2>3. CASE queue' = queue
    BY <1>1, <2>1, <2>2, <2>3, CollectorMoves DEF Pending, queueVars
  <2>4. CASE queue' # queue
    <3> DEFINE e == Event("l1_done", collector[c].mac, c, AnyRadio)
    <3>1. queue' = Append(queue, e) /\ lock = "none" /\ UNCHANGED qpc
      BY <2>1, <2>4, CollectorMoves DEF queueVars
    <3>2. e \in Events /\ e.type # "temperature"
      BY <1>0, Constants DEF Collectors, Event, Events, EventTypes
    <3> HIDE DEF e
    <3> QED
      BY <1>2, <2>2, <3>1, <3>2
  <2> QED
    BY <2>3, <2>4
<1>7. ASSUME UNCHANGED <<queue, queueVars>>, ~\E c \in Requests : Temperature(c)
      PROVE  Turns' /\ Later
  BY <1>1, <1>7, StepTold DEF Pending, queueVars
<1>8. CASE QueueThread
  <2>1. \A c \in Requests : collector'[c].told = collector[c].told
    BY <1>8, QueueThreadKeeps DEF Kept
  <2>2. CASE QueuePop
    <3>1. /\ qpc = "run" /\ queue # <<>> /\ queue' = Tail(queue) /\ event' = Head(queue)
          /\ qpc' = Handler[Head(queue).type] /\ Head(queue) \in Events /\ Head(queue) = queue[1]
      BY <1>0, <2>2, HeadTailProperties DEF QueuePop
    <3>2. Pending = queue
      BY <3>1 DEF Pending
    <3>3. CASE queue[1].type # "temperature"
      <4>1. qpc' # "temperature"
        BY <3>1, <3>3 DEF Events, EventTypes, Handler
      <4>2. Pending' = Tail(Pending)
        BY <3>1, <3>2, <4>1 DEF Pending
      <4> QED
        BY <1>0, <1>4, <2>1, <3>1, <3>2, <3>3, <4>2
    <3>4. CASE queue[1].type = "temperature"
      <4>1. Pending' = <<Head(queue)>> \o Tail(queue)
        BY <3>1, <3>4 DEF Pending, Handler
      <4>2. <<Head(queue)>> \o Tail(queue) = queue
        <5>1. /\ <<Head(queue)>> \in Seq(Events) /\ Len(<<Head(queue)>>) = 1
              /\ <<Head(queue)>>[1] = queue[1]
          BY <3>1
        <5>2. /\ Tail(queue) \in Seq(Events) /\ Len(Tail(queue)) = Len(queue) - 1
              /\ \A i \in 1 .. Len(queue) - 1 : Tail(queue)[i] = queue[i + 1]
              /\ Len(queue) \in Nat
          BY <1>0, <3>1, HeadTailProperties, LenProperties
        <5>3. /\ <<Head(queue)>> \o Tail(queue) \in Seq(Events)
              /\ Len(<<Head(queue)>> \o Tail(queue)) = Len(queue)
              /\ \A i \in 1 .. Len(queue) : (<<Head(queue)>> \o Tail(queue))[i] =
                   IF i <= 1 THEN <<Head(queue)>>[i] ELSE Tail(queue)[i - 1]
          BY <5>1, <5>2, ConcatProperties
        <5>4. \A i \in 1 .. Len(queue) : (<<Head(queue)>> \o Tail(queue))[i] = queue[i]
          BY <5>1, <5>2, <5>3
        <5> QED
          BY <1>0, <5>3, <5>4, SeqEqual
      <4> QED
        BY <1>1, <2>1, <3>2, <4>1, <4>2
    <3> QED
      BY <3>3, <3>4
  <2>3. CASE SendTemperature
    <3>1. Pending' = queue
      BY <2>3 DEF SendTemperature, Pending
    <3>2. Pending \in Seq(Events) /\ Pending # <<>> /\ Tail(Pending) = queue
      BY <2>3, AtHand DEF SendTemperature
    <3> QED
      BY <1>4, <2>1, <2>3, <3>1, <3>2
  <2>4. CASE ~(QueuePop \/ SendTemperature)
    <3>1. Pending' = Pending
      BY <1>8, <2>4 DEF QueueThread, QueueWake, QueueDrained, FindCollector, StopCollector, StopReturned,
                        StopTimeout, SendDone, SendUpdate, Pending, sharedVars
    <3> QED
      BY <1>1, <2>1, <3>1
  <2> QED
    BY <2>2, <2>3, <2>4
<1>9. CASE Hello \/ UNCHANGED vars \/ (\E m \in Macs : StartCollection(m)) \/ (\E c \in Requests : CreateFails(c))
  <2>1. UNCHANGED <<queue, queueVars>>
    BY <1>9 DEF Hello, vars, StartCollection, CreateFails, sharedVars
  <2>2. \A c \in Requests : Temperature(c) => Turns' /\ Later
    BY <1>3
  <2> QED
    BY <1>7, <2>1, <2>2
<1> QED
  BY <1>3, <1>5, <1>6, <1>8, <1>9 DEF Next

TempsInv == Untold /\ Turns /\ Gathered /\ TemperaturesComplete

LEMMA InitTemps == Init => TempsInv
<1> SUFFICES ASSUME Init PROVE TempsInv
  OBVIOUS
<1>1. Len(wire) = 0 /\ Pending = <<>> /\ Len(Pending) = 0
  BY EmptySeq DEF Init, Pending
<1>2. Untold
  BY DEF Init, Untold, NoCollector
<1>3. Turns
  BY <1>1 DEF Turns, InTurn
<1>4. Gathered
  BY DEF Init, Gathered, ZeroCtx
<1>5. TemperaturesComplete
  BY <1>1 DEF TemperaturesComplete
<1> QED
  BY <1>2, <1>3, <1>4, <1>5 DEF TempsInv

LEMMA StepTemps == Typed /\ Control /\ SlotsHeld /\ TempsInv /\ [Next]_vars => TempsInv'
<1> SUFFICES ASSUME Typed, Control, SlotsHeld, TempsInv, [Next]_vars PROVE TempsInv'
  OBVIOUS
<1>0. Untold /\ Turns /\ Gathered /\ TemperaturesComplete
  BY DEF TempsInv
<1>1. Untold' /\ Turns'
  BY <1>0, StepTold, StepTurns
<1>2. CASE ~SendTemperature
  <2>1. mixed' = mixed /\ tcollect_ctx' \in {tcollect_ctx, ZeroCtx}
    <3>1. CASE QueueThread
      BY <1>2, <3>1
      DEF QueueThread, QueueWake, QueueDrained, QueuePop, FindCollector, StopCollector, StopReturned,
          StopTimeout, SendDone, SendUpdate, wireVars
    <3>2. CASE ~QueueThread
      BY <3>2, WireOfOthers DEF wireVars
    <3> QED
      BY <3>1, <3>2
  <2>2. Gathered'
    BY <1>0, <1>2, <2>1, StepTurns, GatheredKept
  <2>3. TemperaturesComplete'
    <3>1. CASE wire' = wire
      BY <1>0, <2>1, <3>1 DEF TemperaturesComplete
    <3>2. ASSUME NEW t \in Tlvs, t.tag # "temperature", wire' = Append(wire, t)
          PROVE  TemperaturesComplete'
      <4>1. Len(wire') = Len(wire) + 1 /\ wire'[Len(wire) + 1] = t /\ Len(wire) \in Nat
            /\ \A i \in 1 .. Len(wire) : wire'[i] = wire[i]
        BY <3>2, AppendProperties, LenProperties DEF Typed
      <4> QED
        BY <1>0, <2>1, <3>2, <4>1 DEF TemperaturesComplete
    <3>3. CASE SendDone /\ wire' = Append(wire, Done(target))
      <4>1. Done(target) \in Tlvs /\ Done(target).tag # "temperature"
        BY <3>3 DEF SendDone, Control, Done, Tlvs
      <4> QED
        BY <3>2, <3>3, <4>1
    <3>4. CASE SendUpdate /\ wire' = Append(wire, Update)
      <4>1. Update \in Tlvs /\ Update.tag # "temperature"
        BY UpdateTyped
      <4> QED
        BY <3>2, <3>4, <4>1
    <3>5. CASE ~QueueThread
      BY <3>1, <3>5, WireOfOthers DEF wireVars
    <3> QED
      BY <1>2, <3>1, <3>3, <3>4, <3>5, WireGrows
  <2> QED
    BY <1>1, <2>2, <2>3 DEF TempsInv
<1>3. CASE SendTemperature /\ mixed'
  <2>1. tcollect_ctx' = ZeroCtx \/ tcollect_ctx'.collected_count = tcollect_ctx.collected_count + 1
    BY <1>3 DEF SendTemperature
  <2>2. tcollect_ctx'.collected_count = 0 => tcollect_ctx'.temperature_data = NoReadings
    BY <2>1 DEF ZeroCtx, Typed
  <2> QED
    BY <1>1, <1>3, <2>2 DEF TempsInv, Gathered, TemperaturesComplete, NoReadings
<1>4. CASE SendTemperature /\ ~mixed'
  <2> DEFINE D == tcollect_ctx.temperature_data
             k == tcollect_ctx.collected_count
             d == event.of
             p == event.radio
  <2>1. /\ D \in Readings /\ k \in Nat /\ NumRadios \in Nat \ {0}
        /\ ~mixed /\ \A r \in Radios : D[r] \in {NULL, d}
    BY <1>4, RadiosAssumption DEF SendTemperature, Typed
  <2>2. /\ Pending \in Seq(Events) /\ Pending # <<>> /\ Pending[1] = event /\ Tail(Pending) = queue
        /\ d \in Requests /\ p \in Radios /\ Of(event, d)
    BY <1>4, AtHand DEF SendTemperature
  <2>3. /\ Pending' = queue
        /\ \A c \in Requests : collector'[c].told = collector[c].told
    BY <1>4, QueueThreadKeeps DEF SendTemperature, Pending, QueueThread, Kept
  <2>4. Told(d) \in Radios /\ \A c \in Requests : Told(c)' = Told(c)
    <3>1. collector[d].told \in Nat
      BY <2>2 DEF Typed, TypeOK
    <3> QED
      BY <2>3, <3>1, NextTold DEF Told
  <2>5. /\ NextUp(Pending, d, p, Told(d))
        /\ \A q \in Radios : NextUp(queue, d, q, Told(d)) => q = NextRadio(p)
    BY <1>0, <2>2, <2>4, TurnTail DEF Turns
  <2>6. k < NumRadios => Filled(D, k, p, d)
    <3>1. CASE k = 0
      <4>1. \A r \in Radios : D[r] = NULL
        BY <1>0, <3>1 DEF Gathered, NoReadings
      <4>2. p \in Int /\ \A r \in Radios : r \in 0 .. NumRadios - 1 /\ r \in Int
        BY <2>2 DEF Radios
      <4>3. p \in 0 .. NumRadios - 1
        BY <2>2 DEF Radios
      <4> QED
        BY <2>1, <3>1, <4>1, <4>2, <4>3 DEF Filled
    <3>2. CASE k # 0 /\ k < NumRadios
      <4>1. \A q \in Radios : NextUp(Pending, d, q, Told(d)) => Filled(D, k, q, d)
        BY <1>0, <2>1, <2>2, <3>2 DEF Gathered
      <4> QED
        BY <2>2, <2>5, <4>1
    <3> QED
      BY <3>1, <3>2
  <2>7. Gathering = [D EXCEPT ![p] = d]
    BY DEF Gathering
  <2>8. \/ tcollect_ctx' = ZeroCtx
        \/ tcollect_ctx' = [collected_count |-> k + 1, temperature_data |-> Gathering]
    BY <1>4, <2>7 DEF SendTemperature
  <2>9. Gathered'
    <3>1. CASE tcollect_ctx' = ZeroCtx
      BY <3>1 DEF Gathered, ZeroCtx, NoReadings
    <3>2. CASE /\ tcollect_ctx' = [collected_count |-> k + 1, temperature_data |-> Gathering]
               /\ k + 1 >= NumRadios
      <4>1. tcollect_ctx'.collected_count = k + 1 /\ k + 1 # 0
        BY <2>1, <3>2
      <4> QED
        BY <3>2, <4>1 DEF Gathered
    <3>3. CASE /\ tcollect_ctx' = [collected_count |-> k + 1, temperature_data |-> Gathering]
               /\ k + 1 < NumRadios
      <4>1. /\ tcollect_ctx'.collected_count = k + 1 /\ k + 1 # 0
            /\ tcollect_ctx'.temperature_data = Gathering
        BY <2>1, <3>3
      <4>2. Filled(Gathering, k + 1, NextRadio(p), d)
        BY <2>1, <2>2, <2>6, <2>7, <3>3, FilledNext
      <4>3. ASSUME NEW c \in Requests, \A r \in Radios : Gathering[r] \in {NULL, c} PROVE c = d
        <5>1. Gathering[p] = d /\ d # NULL
          BY <2>1, <2>2, <2>7, Constants DEF Readings
        <5> QED
          BY <2>2, <4>3, <5>1
      <4>4. ASSUME NEW c \in Requests, \A r \in Radios : tcollect_ctx'.temperature_data[r] \in {NULL, c},
                   NEW q \in Radios, NextUp(Pending', c, q, Told(c)')
            PROVE  Filled(tcollect_ctx'.temperature_data, tcollect_ctx'.collected_count, q, c)
        <5>1. c = d
          BY <4>1, <4>3, <4>4
        <5>2. q = NextRadio(p)
          BY <2>3, <2>4, <2>5, <4>4, <5>1
        <5> QED
          BY <4>1, <4>2, <5>1, <5>2
      <4> HIDE DEF D, k, d, p
      <4>5. \A c \in Requests :
              (\A r \in Radios : tcollect_ctx'.temperature_data[r] \in {NULL, c}) =>
                \A q \in Radios :
                  NextUp(Pending, c, q, Told(c))' =>
                    Filled(tcollect_ctx'.temperature_data, tcollect_ctx'.collected_count, q, c)
        BY <4>4 DEF NextUp, Of
      <4> QED
        BY <4>1, <4>5 DEF Gathered, Filled
    <3> QED
      BY <2>1, <2>8, <3>1, <3>2, <3>3
  <2>10. TemperaturesComplete'
    <3>1. CASE wire' = wire
      BY <1>0, <2>1, <3>1 DEF TemperaturesComplete
    <3>2. CASE wire' = Append(wire, Temperatures(Gathering)) /\ k + 1 = NumRadios
      <4>1. Temperatures(Gathering) \in Tlvs /\ Temperatures(Gathering).data = Gathering
        <5>1. Gathering \in Readings
          BY <2>1, <2>2, <2>7 DEF Readings
        <5> QED
          BY <5>1 DEF Temperatures, Tlvs
      <4>2. \A r \in Radios : Gathering[r] # NULL
        <5>1. Filled(D, k, p, d)
          BY <2>1, <2>6, <3>2
        <5> HIDE DEF D, k, d, p
        <5>2. k + 1 = NumRadios => \A r \in Radios : [D EXCEPT ![p] = d][r] # NULL
          BY <2>1, <2>2, <5>1, FilledNext
        <5> QED
          BY <2>7, <3>2, <5>2
      <4>3. Len(wire') = Len(wire) + 1 /\ wire'[Len(wire) + 1] = Temperatures(Gathering)
            /\ Len(wire) \in Nat /\ \A i \in 1 .. Len(wire) : wire'[i] = wire[i]
        BY <3>2, <4>1, AppendProperties, LenProperties DEF Typed
      <4> QED
        BY <1>0, <2>1, <4>1, <4>2, <4>3 DEF TemperaturesComplete
    <3>3. ~SendDone /\ ~SendUpdate /\ QueueThread
      BY <1>4 DEF SendTemperature, SendDone, SendUpdate, QueueThread
    <3> QED
      BY <3>1, <3>2, <3>3, WireGrows
  <2> QED
    BY <1>1, <2>9, <2>10 DEF TempsInv
<1> QED
  BY <1>2, <1>3, <1>4

(* Every temperature TLV holds a reading of each radio, for any number of  *)
(* radios and of collections, as long as the context never held readings   *)
(* of two collections at once: wherever in the rotation the readings of a  *)
(* collection begin, after a DONE cleared the context or a TLV could not   *)
(* be allocated, as many as there are radios cover every radio.            *)
THEOREM TemperatureTlvs == Spec => []TemperaturesComplete
<1>1. TempsInv => TemperaturesComplete
  BY DEF TempsInv
<1> QED
  BY InitTyped, StepTyped, InitSlots, StepSlots, InitTemps, StepTemps, <1>1, PTL DEF Spec
==============================================================================
