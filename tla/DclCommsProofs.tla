--------------------------- MODULE DclCommsProofs ---------------------------
(***************************************************************************)
(* Proofs about DclComms, for every set of events, every bound and every   *)
(* timing.                                                                 *)
(***************************************************************************)
EXTENDS DclComms, TLAPS

(* What the table of notify values gives for each tag. *)
LEMMA LutLemma ==
  ASSUME NEW t \in Tags
  PROVE  /\ tlv_notify_lut[t].ready \in ReadyValues
         /\ tlv_notify_lut[t].ready \in Nat
         /\ tlv_notify_lut[t].sent = tlv_notify_lut[t].ready + 1
  BY DEF Tags, ReadyValues, tlv_notify_lut

(* What the comms loop answers is a natural number, and for a ready value  *)
(* its successor.                                                          *)
LEMMA SentForLemma ==
  ASSUME NEW v \in Nat
  PROVE  /\ SentFor(v) \in Nat
         /\ v \in ReadyValues => SentFor(v) = v + 1
         /\ v \in ReadyValues => v > 0
         /\ v \in ReadyValues => SentFor(v) \notin {NOTIFY_NONE, NOTIFY_SOCKET_THREAD_RETURN}
         /\ v \in ReadyValues => v < NOTIFY_SOCKET_THREAD_STOP
  BY DEF SentFor, ReadyValues, NOTIFY_NONE, NOTIFY_SOCKET_THREAD_STOP,
         NOTIFY_SOCKET_THREAD_RETURN

(* TypeOK with what it needs to be inductive: an emit in progress has a    *)
(* TLV left to send, a socket reported readable holds a datagram, and the  *)
(* handshake reads before epoll does.                                      *)
TypeInv ==
  /\ TypeOK
  /\ Emitting => todo # <<>>
  /\ "sock" \in batch => hellos > 0
  /\ cpc = "handshake" => batch = {}

LEMMA TypeInit == Init => TypeInv
<1> SUFFICES ASSUME Init PROVE TypeInv
  OBVIOUS
<1>1. queue \in Seq(Events) /\ confirmed \in Seq(Nat) /\ delivered \in Seq(Nat)
      /\ todo \in Seq(Tags)
  BY DEF Init
<1>2. queue_wakeup \in BOOLEAN /\ comms_ready \in BOOLEAN /\ badAccess \in BOOLEAN
      /\ ackEdge \in BOOLEAN
  BY Zenon DEF Init
<1> QED BY <1>1, <1>2 DEF Init, TypeInv, TypeOK, Emitting, NULL, NOTIFY_NONE,
               QueueControl, CommsControl, CollectorControl

LEMMA TypeStep == TypeInv /\ [Next]_vars => TypeInv'
<1> SUFFICES ASSUME TypeInv, [Next]_vars PROVE TypeInv'
  OBVIOUS
<1> USE DEF TypeInv, TypeOK, Emitting, NULL, QueueControl, CommsControl,
            CollectorControl, ackVars, l1Vars, sharedVars, tlvVars, fdVars, queueVars, commsVars, envVars, wireVars
<1>1. ASSUME NEW e \in Events, Push(e) PROVE TypeInv'
  BY <1>1 DEF Push
<1>2. CASE AgentHello
  BY <1>2 DEF AgentHello
<1>3. CASE QueueWake
  BY <1>3 DEF QueueWake
<1>4. CASE QueuePop
  <2>1. Head(queue) \in Seq(Tags) /\ Tail(queue) \in Seq(Events)
    BY <1>4, EventsAssumption DEF QueuePop
  <2> QED BY <1>4, <2>1 DEF QueuePop
<1>5. CASE QueueDrained
  BY <1>5 DEF QueueDrained
<1>6. CASE EmitAlloc
  BY <1>6 DEF EmitAlloc
<1>7. CASE EmitAllocFails
  BY <1>7 DEF EmitAllocFails
<1>8. CASE EmitNotify
  <2>1. Head(todo) \in Tags
    BY <1>8 DEF EmitNotify
  <2> QED BY <1>8, <2>1, LutLemma DEF EmitNotify
<1>9. CASE EmitAcked
  <2>1. /\ UNCHANGED <<lock, queue, queue_wakeup, emitted, exact, delivered>>
        /\ UNCHANGED <<badAccess, comms_notification, started, commsVars, envVars>>
        /\ tlv' = NULL /\ qpc' = "run"
    BY <1>9 DEF EmitAcked, EmitGiveUp, EmitConfirm
  <2>2. Append(confirmed, tlv) \in Seq(Nat) /\ Tail(todo) \in Seq(Tags)
    BY <1>9 DEF EmitAcked
  <2>3. confirmed' \in {Append(confirmed, tlv), confirmed}
    BY <1>9 DEF EmitAcked, EmitGiveUp, EmitConfirm
  <2>4. todo' \in {Tail(todo), <<>>}
    BY <1>9 DEF EmitAcked, EmitGiveUp, EmitConfirm
  <2>5. comms_ready' \in BOOLEAN
    BY <1>9, Zenon DEF EmitAcked, EmitGiveUp, EmitConfirm
  <2>6. confirmed' \in Seq(Nat)
    BY <2>2, <2>3
  <2>7. todo' \in Seq(Tags)
    <3>1. <<>> \in Seq(Tags)
      OBVIOUS
    <3> QED BY <3>1, <2>2, <2>4, Zenon
  <2>8. comms_notification_ack' \in Nat /\ collector' \in CollectorControl
    BY <1>9 DEF EmitAcked, ReturnTaken
  <2>9. ackEdge' \in BOOLEAN
    BY <1>9, Zenon DEF EmitAcked
  <2> QED BY <2>1, <2>5, <2>6, <2>7, <2>8, <2>9
<1>10. CASE EmitTimeout
  <2>1. comms_ready' \in BOOLEAN
    BY <1>10, Zenon DEF EmitTimeout, EmitGiveUp
  <2>2. todo' \in Seq(Tags)
    BY <1>10 DEF EmitTimeout, EmitGiveUp
  <2> QED BY <1>10, <2>1, <2>2 DEF EmitTimeout, EmitGiveUp
<1>10a. CASE FindCollector
  <2>1. todo' \in Seq(Tags)
    <3>1. <<"l1_done">> \o todo \in Seq(Tags)
      BY DEF Tags
    <3> QED BY <1>10a, <3>1 DEF FindCollector
  <2> QED BY <1>10a, <2>1 DEF FindCollector
<1>10b. CASE StopWaitOver
  <2>1. ackEdge' \in BOOLEAN
    BY <1>10b, Zenon DEF StopWaitOver
  <2> QED BY <1>10b, <2>1 DEF StopWaitOver, ReturnTaken
<1>10c. CASE Collector
  <2>1. /\ UNCHANGED <<sharedVars, tlvVars, comms_notification, ackVars>>
        /\ UNCHANGED <<queueVars, commsVars, envVars, wireVars>>
    BY <1>10c DEF Collector, CollectorStarts, CollectorReturns, CollectorLeaves
  <2>2. /\ collector' \in {"running", "returned", "free"}
        /\ started' = started + 1 \/ started' = started
    BY <1>10c, Zenon DEF Collector, CollectorStarts, CollectorReturns, CollectorLeaves
  <2>3. collector' \in CollectorControl /\ started' \in Nat
    BY <2>2
  <2> QED BY <2>1, <2>3
<1>11. CASE Handshake
  BY <1>11 DEF Handshake
<1>12. CASE HelloLocked
  BY <1>12 DEF HelloLocked
<1>13. CASE CommsEpoll
  BY <1>13 DEF CommsEpoll, ReadyFds
<1>14. CASE CommsRead
  <2>1. ackEdge' \in BOOLEAN
    BY <1>14, Zenon DEF CommsRead
  <2> QED BY <1>14, <2>1 DEF CommsRead, NOTIFY_SOCKET_THREAD_RETURN
<1>15. CASE CommsCheck
  BY <1>15 DEF CommsCheck
<1>16. CASE CommsSend
  <2>1. badAccess' \in BOOLEAN
    BY <1>16, Zenon DEF CommsSend
  <2>2. \A d \in Datagrams : Append(delivered, d) \in Seq(Nat)
    BY DEF Datagrams
  <2>3. delivered' \in Seq(Nat)
    BY <1>16, <2>2 DEF CommsSend
  <2> QED BY <1>16, <2>1, <2>3 DEF CommsSend
<1>17. CASE CommsAck
  <2>1. SentFor(u) \in Nat
    BY SentForLemma
  <2>2. ackEdge' \in BOOLEAN
    BY <1>17, Zenon DEF CommsAck
  <2> QED BY <1>17, <2>1, <2>2 DEF CommsAck
<1>18. CASE CommsHello
  BY <1>18 DEF CommsHello
<1>19. CASE UNCHANGED vars
  BY <1>19 DEF vars
<1> QED
  BY <1>1, <1>2, <1>3, <1>4, <1>5, <1>6, <1>7, <1>8, <1>9, <1>10, <1>10a, <1>10b, <1>10c, <1>11,
     <1>12, <1>13, <1>14, <1>15, <1>16, <1>17, <1>18, <1>19
  DEF Next, QueueThread, CommsThread

(* Every reachable state of the two threads is well typed. *)
THEOREM TypeCorrect == Spec => []TypeOK
<1>1. Spec => []TypeInv
  BY TypeInit, TypeStep, PTL DEF Spec
<1>2. TypeInv => TypeOK
  BY DEF TypeInv
<1> QED BY <1>1, <1>2, PTL

-----------------------------------------------------------------------------
(* The lock discipline: the queue thread holds the lock exactly while it   *)
(* is awake, and has TLVs to send only while comms are ready.              *)
LockInv ==
  /\ lock = "none" <=> qpc = "idle"
  /\ qpc = "idle" => todo = <<>>
  /\ todo # <<>> => comms_ready = TRUE

LEMMA LockInit == Init => LockInv
  BY DEF Init, LockInv

LEMMA LockStep == TypeInv /\ LockInv /\ [Next]_vars => LockInv'
<1> SUFFICES ASSUME TypeInv, LockInv, [Next]_vars PROVE LockInv'
  OBVIOUS
<1> USE DEF LockInv, sharedVars, queueVars
<1>0. lock \in {"none", "queue"} /\ todo \in Seq(Tags) /\ comms_ready \in BOOLEAN
  BY DEF TypeInv, TypeOK
<1>1. ASSUME NEW e \in Events, Push(e) PROVE LockInv'
  BY <1>1 DEF Push
<1>2. CASE QueueWake
  BY <1>2 DEF QueueWake
<1>3. CASE QueuePop
  BY <1>0, <1>3 DEF QueuePop
<1>4. CASE QueueDrained
  BY <1>4 DEF QueueDrained
<1>5. CASE EmitAlloc
  BY <1>5 DEF EmitAlloc
<1>6. CASE EmitAllocFails
  BY <1>6 DEF EmitAllocFails
<1>7. CASE EmitNotify
  BY <1>7 DEF EmitNotify
<1>8. CASE EmitAcked
  <2>1. todo # <<>>
    BY <1>8 DEF EmitAcked, TypeInv, Emitting
  <2> QED BY <1>0, <1>8, <2>1 DEF EmitAcked, EmitGiveUp, EmitConfirm
<1>9. CASE EmitTimeout
  BY <1>9 DEF EmitTimeout, EmitGiveUp
<1>9a. CASE FindCollector
  BY <1>0, <1>9a DEF FindCollector
<1>9b. CASE StopWaitOver
  BY <1>9b DEF StopWaitOver
<1>10. CASE HelloLocked
  BY <1>10 DEF HelloLocked
<1>11. CASE AgentHello \/ Handshake \/ CommsEpoll \/ CommsRead \/ CommsCheck
            \/ CommsSend \/ CommsAck \/ CommsHello \/ Collector \/ UNCHANGED vars
  <2>1. UNCHANGED <<lock, qpc, todo, comms_ready>>
    BY <1>11 DEF Collector, CollectorStarts, CollectorReturns, CollectorLeaves, AgentHello, Handshake, CommsEpoll, CommsRead, CommsCheck,
                 CommsSend, CommsAck, CommsHello, vars
  <2> QED BY <2>1
<1> QED
  BY <1>1, <1>2, <1>3, <1>4, <1>5, <1>6, <1>7, <1>8, <1>9, <1>9a, <1>9b, <1>10, <1>11
  DEF Next, QueueThread, CommsThread

LEMMA LockInvariant == Spec => [](TypeInv /\ LockInv)
  BY TypeInit, TypeStep, LockInit, LockStep, PTL DEF Spec

(* No TLV of an event is offered to a comms loop declared not ready, for   *)
(* any events, any timing and any hellos: a handler checks comms_ready     *)
(* under the lock and gives the event up on the first failed emit.         *)
THEOREM EmitsOnlyWhenReadyHolds == Spec => []EmitsOnlyWhenReady
<1>1. LockInv => EmitsOnlyWhenReady
  BY DEF LockInv, EmitsOnlyWhenReady
<1> QED BY <1>1, LockInvariant, PTL

(* comms_ready comes up only while the queue thread sleeps. *)
THEOREM ReadyFlipsOutsideEmitHolds == Spec => ReadyFlipsOutsideEmit
<1>1. TypeInv /\ LockInv /\ [Next]_vars
        => [comms_ready' /\ ~comms_ready => qpc = "idle"]_vars
  <2> SUFFICES ASSUME TypeInv, LockInv, [Next]_vars,
                      comms_ready' # comms_ready, qpc # "idle"
               PROVE  comms_ready' = FALSE
    BY DEF TypeInv, TypeOK
  <2> USE DEF LockInv, sharedVars
  <2>1. ASSUME NEW e \in Events PROVE ~Push(e)
    BY DEF Push
  <2>2. ~HelloLocked
    BY DEF HelloLocked
  <2>3. ~(AgentHello \/ Handshake \/ CommsEpoll \/ CommsRead \/ CommsCheck
            \/ CommsSend \/ CommsAck \/ CommsHello \/ Collector \/ UNCHANGED vars)
    BY DEF Collector, CollectorStarts, CollectorReturns, CollectorLeaves, AgentHello, Handshake, CommsEpoll, CommsRead, CommsCheck,
           CommsSend, CommsAck, CommsHello, vars
  <2>4. ~(QueueWake \/ QueuePop \/ QueueDrained \/ EmitAlloc \/ EmitAllocFails
            \/ EmitNotify \/ FindCollector \/ StopWaitOver)
    BY DEF FindCollector, StopWaitOver, QueueWake, QueuePop, QueueDrained, EmitAlloc, EmitAllocFails, EmitNotify
  <2>5. CASE EmitAcked
    BY <2>5 DEF EmitAcked, EmitGiveUp, EmitConfirm
  <2>6. CASE EmitTimeout
    BY <2>6 DEF EmitTimeout, EmitGiveUp
  <2> QED BY <2>1, <2>2, <2>3, <2>4, <2>5, <2>6 DEF Next, QueueThread, CommsThread
<1> QED BY <1>1, LockInvariant, PTL DEF Spec, ReadyFlipsOutsideEmit

-----------------------------------------------------------------------------
(***************************************************************************)
(* The contract of cujoagent_emit_event_tlv.  It holds because TlvChannel  *)
(* is implemented (ContractInv, ChannelStep) and every behaviour of that   *)
(* satisfies it (ChannelInv).                                              *)
(***************************************************************************)
Ready == tlv_notify_lut[Head(todo)].ready

CommsBusy == {"check", "send", "ack"}

(* n is an element of the sequence s. *)
In(s, n) == \E i \in 1..Len(s) : s[i] = n

LEMMA AppendLemma ==
  ASSUME NEW s \in Seq(Nat), NEW d \in Nat
  PROVE  /\ Append(s, d) \in Seq(Nat)
         /\ Len(Append(s, d)) = Len(s) + 1
         /\ Len(s) \in Nat
         /\ Append(s, d)[Len(s) + 1] = d
         /\ \A i \in 1..Len(s) : Append(s, d)[i] = s[i]
  OBVIOUS

LEMMA InAppend ==
  ASSUME NEW s \in Seq(Nat), NEW d \in Nat, NEW n
  PROVE  In(Append(s, d), n) <=> In(s, n) \/ n = d
<1>1. ASSUME In(s, n) PROVE In(Append(s, d), n)
  BY <1>1, AppendLemma DEF In
<1>2. ASSUME n = d PROVE In(Append(s, d), n)
  BY <1>2, AppendLemma DEF In
<1>3. ASSUME In(Append(s, d), n), n # d PROVE In(s, n)
  <2>1. PICK i \in 1..(Len(s) + 1) : Append(s, d)[i] = n
    BY <1>3, AppendLemma DEF In
  <2>2. i # Len(s) + 1
    BY <2>1, <1>3, AppendLemma
  <2>3. i \in 1..Len(s)
    BY <2>1, <2>2, AppendLemma
  <2> QED BY <2>1, <2>3, AppendLemma DEF In
<1> QED BY <1>1, <1>2, <1>3

(* The stages of an exact TLV while it is emitted. *)
Handover ==
  \/ /\ comms_notification = Ready /\ comms_notification_ack = 0
     /\ cpc \notin CommsBusy /\ ~In(delivered, tlv)
  \/ /\ comms_notification = 0 /\ comms_notification_ack = 0
     /\ cpc = "check" /\ u = Ready /\ ~In(delivered, tlv)
  \/ /\ comms_notification = 0 /\ comms_notification_ack = 0
     /\ cpc = "send" /\ u = Ready /\ seen = tlv /\ ~In(delivered, tlv)
  \/ /\ comms_notification = 0 /\ comms_notification_ack = 0
     /\ cpc = "ack" /\ u = Ready /\ In(delivered, tlv)
  \/ /\ comms_notification = 0 /\ comms_notification_ack = Ready + 1
     /\ cpc \notin CommsBusy /\ In(delivered, tlv)
  \/ /\ comms_notification = 0 /\ comms_notification_ack = 0
     /\ cpc \notin CommsBusy /\ ~In(delivered, tlv)

(* TLVs are numbered as they are emitted. *)
Numbered ==
  /\ tlv = IF Emitting THEN emitted ELSE NULL
  /\ Emitting => emitted > 0
  /\ exact \subseteq 1..emitted
  /\ \A i \in 1..Len(delivered) : delivered[i] <= emitted
  /\ seen <= emitted

(* A datagram stands behind every acknowledgement that could be taken for  *)
(* the one awaited: those that are counted, that are in the counter below  *)
(* the value of a RETURN, or that the comms thread is about to write.      *)
Awaited == comms_notification_ack > 0 /\ comms_notification_ack < NOTIFY_SOCKET_THREAD_RETURN

Counted ==
  /\ Len(confirmed) <= Len(delivered)
  /\ Awaited => Len(confirmed) + 1 <= Len(delivered)
  /\ cpc = "ack" => Len(confirmed) + 1 <= Len(delivered)
  /\ Awaited /\ cpc = "ack" => Len(confirmed) + 2 <= Len(delivered)

(* What the comms thread has in hand. *)
Serving ==
  /\ "notify" \in batch => comms_notification > 0
  /\ cpc \in CommsBusy => u \in ReadyValues
  /\ cpc = "send" => seen # NULL
  /\ cpc = "send" /\ seen \in exact =>
       ~In(delivered, seen) /\ \A n \in exact : n <= seen

(* An exact TLV is the only one under way. *)
Exclusive ==
  /\ qpc = "emit" /\ tlv \in exact => Quiet /\ ~In(delivered, tlv)
  /\ qpc = "wait" /\ tlv \in exact => Handover

ContractInv == Numbered /\ Counted /\ Serving /\ Exclusive

LEMMA ContractInit == Init => ContractInv
<1> SUFFICES ASSUME Init PROVE ContractInv
  OBVIOUS
<1>1. Len(<<>>) = 0
  OBVIOUS
<1> QED BY <1>1 DEF Init, ContractInv, Numbered, Counted, Serving, Exclusive, Emitting,
               NULL, CommsBusy, Awaited

(* What the parts of the invariant speak of, and its types. *)
LEMMA Types ==
  ASSUME TypeInv
  PROVE  /\ qpc \in QueueControl /\ cpc \in CommsControl
         /\ tlv \in Nat /\ emitted \in Nat /\ u \in Nat /\ seen \in Nat
         /\ comms_notification \in Nat /\ comms_notification_ack \in Nat
         /\ delivered \in Seq(Nat) /\ confirmed \in Seq(Nat) /\ todo \in Seq(Tags)
         /\ Len(delivered) \in Nat /\ Len(confirmed) \in Nat
         /\ exact \subseteq Nat
         /\ ackEdge \in BOOLEAN /\ badAccess \in BOOLEAN
         /\ Emitting => /\ Ready \in ReadyValues /\ Ready \in Nat /\ Ready > 0
                        /\ Ready < NOTIFY_SOCKET_THREAD_STOP
                        /\ SentFor(Ready) = Ready + 1
                        /\ tlv_notify_lut[Head(todo)].sent = Ready + 1
<1>1. /\ qpc \in QueueControl /\ cpc \in CommsControl
      /\ tlv \in Nat /\ emitted \in Nat /\ u \in Nat /\ seen \in Nat
      /\ comms_notification \in Nat /\ comms_notification_ack \in Nat
      /\ delivered \in Seq(Nat) /\ confirmed \in Seq(Nat) /\ todo \in Seq(Tags)
      /\ Len(delivered) \in Nat /\ Len(confirmed) \in Nat
      /\ exact \subseteq Nat
      /\ ackEdge \in BOOLEAN /\ badAccess \in BOOLEAN
  BY DEF TypeInv, TypeOK
<1>2. ASSUME Emitting
      PROVE  /\ Ready \in ReadyValues /\ Ready \in Nat /\ Ready > 0
             /\ Ready < NOTIFY_SOCKET_THREAD_STOP
             /\ SentFor(Ready) = Ready + 1
             /\ tlv_notify_lut[Head(todo)].sent = Ready + 1
  <2>1. Head(todo) \in Tags
    BY <1>1, <1>2 DEF TypeInv
  <2> QED BY <2>1, LutLemma, SentForLemma DEF Ready
<1> QED BY <1>1, <1>2

(* The steps that touch nothing the contract speaks of. *)
Aside ==
  /\ UNCHANGED <<tlv, emitted, confirmed, exact, delivered, badAccess>>
  /\ UNCHANGED <<comms_notification, comms_notification_ack, cpc, batch, u, seen>>
  /\ \/ qpc' = qpc /\ todo' = todo
     \/ ~Emitting /\ ~Emitting'

LEMMA AsideSteps ==
  ASSUME \/ \E e \in Events : Push(e)
         \/ AgentHello \/ Collector \/ QueueWake \/ QueuePop \/ QueueDrained
         \/ EmitAllocFails \/ FindCollector \/ UNCHANGED vars
  PROVE  Aside
<1> USE DEF Aside, Emitting, sharedVars, tlvVars, fdVars, ackVars, l1Vars, queueVars,
            commsVars, envVars, wireVars
<1>1. CASE \E e \in Events : Push(e)
  BY <1>1 DEF Push
<1>2. CASE AgentHello
  BY <1>2 DEF AgentHello
<1>3. CASE Collector
  BY <1>3 DEF Collector, CollectorStarts, CollectorReturns, CollectorLeaves
<1>4. CASE QueueWake \/ QueuePop \/ QueueDrained \/ EmitAllocFails
  BY <1>4 DEF QueueWake, QueuePop, QueueDrained, EmitAllocFails
<1>5. CASE FindCollector
  BY <1>5 DEF FindCollector
<1>6. CASE UNCHANGED vars
  BY <1>6 DEF vars
<1> QED BY <1>1, <1>2, <1>3, <1>4, <1>5, <1>6

(* The steps of the comms thread that have to do with hellos. *)
Greeting ==
  /\ UNCHANGED <<tlv, emitted, confirmed, exact, delivered, badAccess>>
  /\ UNCHANGED <<comms_notification, comms_notification_ack, u, seen, qpc, todo>>
  /\ cpc \notin CommsBusy \cup {"returned"}
  /\ cpc' \notin CommsBusy \cup {"returned"}
  /\ "notify" \in batch' => "notify" \in batch \/ comms_notification > 0

LEMMA GreetingSteps ==
  ASSUME Handshake \/ HelloLocked \/ CommsEpoll \/ CommsHello
  PROVE  Greeting
  BY DEF Greeting, CommsBusy, Handshake, HelloLocked, CommsEpoll, CommsHello, ReadyFds,
         sharedVars, tlvVars, fdVars, ackVars, queueVars, commsVars, envVars, wireVars

LEMMA NumberedStep ==
  ASSUME TypeInv, ContractInv, [Next]_vars
  PROVE  Numbered'
<1>0. /\ qpc \in QueueControl /\ cpc \in CommsControl
      /\ tlv \in Nat /\ emitted \in Nat /\ u \in Nat /\ seen \in Nat
      /\ comms_notification \in Nat /\ comms_notification_ack \in Nat
      /\ delivered \in Seq(Nat) /\ confirmed \in Seq(Nat)
      /\ Len(delivered) \in Nat /\ Len(confirmed) \in Nat
      /\ exact \subseteq Nat
  BY Types
<1> USE <1>0 DEF ContractInv, Numbered, Emitting, NULL, sharedVars, tlvVars, fdVars,
            ackVars, l1Vars, queueVars, commsVars, envVars, wireVars
<1>1. CASE Aside
  BY <1>1 DEF Aside
<1>2. CASE Greeting
  BY <1>2 DEF Greeting
<1>3. CASE EmitAlloc
  BY <1>3 DEF EmitAlloc
<1>4. CASE EmitNotify \/ EmitTimeout \/ StopWaitOver
  BY <1>4 DEF EmitNotify, EmitTimeout, EmitGiveUp, StopWaitOver
<1>5. CASE EmitAcked
  BY <1>5 DEF EmitAcked, EmitGiveUp, EmitConfirm
<1>6. CASE CommsRead \/ CommsCheck \/ CommsAck
  <2>1. UNCHANGED <<tlv, emitted, exact, delivered, qpc>> /\ seen' \in {seen, tlv}
    BY <1>6 DEF CommsRead, CommsCheck, CommsAck
  <2> QED BY <2>1
<1>7. CASE CommsSend
  <2>1. UNCHANGED <<tlv, emitted, exact, seen, qpc>>
    BY <1>7 DEF CommsSend
  <2>2. \A i \in 1..Len(delivered)' : delivered'[i] <= emitted
    <3>1. CASE delivered' = delivered
      BY <3>1
    <3>2. ASSUME NEW d \in Datagrams, delivered' = Append(delivered, d)
          PROVE  \A i \in 1..Len(delivered)' : delivered'[i] <= emitted
      <4>1. d \in Nat /\ d <= emitted
        BY DEF Datagrams
      <4>2. /\ Len(delivered)' = Len(delivered) + 1 /\ delivered'[Len(delivered) + 1] = d
            /\ \A i \in 1..Len(delivered) : delivered'[i] = delivered[i]
        BY <3>2, <4>1, AppendLemma
      <4>3. ASSUME NEW i \in 1..(Len(delivered) + 1) PROVE delivered'[i] <= emitted
        BY <4>1, <4>2
      <4> QED BY <4>2, <4>3
    <3> QED BY <1>7, <3>1, <3>2 DEF CommsSend
  <2> QED BY <2>1, <2>2
<1> QED
  BY <1>1, <1>2, <1>3, <1>4, <1>5, <1>6, <1>7, AsideSteps, GreetingSteps
  DEF Next, QueueThread, CommsThread

LEMMA CountedStep ==
  ASSUME TypeInv, ContractInv, [Next]_vars
  PROVE  Counted'
<1>0. /\ qpc \in QueueControl /\ cpc \in CommsControl
      /\ tlv \in Nat /\ emitted \in Nat /\ u \in Nat /\ seen \in Nat
      /\ comms_notification \in Nat /\ comms_notification_ack \in Nat
      /\ delivered \in Seq(Nat) /\ confirmed \in Seq(Nat)
      /\ Len(delivered) \in Nat /\ Len(confirmed) \in Nat
      /\ exact \subseteq Nat
  BY Types
<1> USE <1>0 DEF ContractInv, Counted, Awaited, sharedVars, tlvVars, fdVars,
            ackVars, l1Vars, queueVars, commsVars, envVars, wireVars,
            NOTIFY_SOCKET_THREAD_RETURN
<1>1. CASE Aside
  BY <1>1 DEF Aside
<1>2. CASE Greeting
  BY <1>2 DEF Greeting, CommsBusy
<1>3. CASE EmitAlloc \/ EmitNotify
  BY <1>3 DEF EmitAlloc, EmitNotify
<1>4. CASE EmitTimeout
  BY <1>4 DEF EmitTimeout, EmitGiveUp
<1>5. CASE StopWaitOver
  BY <1>5 DEF StopWaitOver
<1>6. CASE EmitAcked
  <2>1. UNCHANGED <<cpc, delivered>> /\ comms_notification_ack' \in {0, comms_notification_ack}
    BY <1>6 DEF EmitAcked
  <2>2. CASE confirmed' = confirmed
    BY <2>1, <2>2
  <2>3. CASE EmitConfirm
    <3>1. /\ comms_notification_ack' = 0
          /\ comms_notification_ack = tlv_notify_lut[Head(todo)].sent
      BY <1>6, <2>3 DEF EmitAcked, EmitConfirm, EmitGiveUp
    <3>2. Awaited
      <4>1. Emitting
        BY <1>6 DEF EmitAcked, Emitting
      <4>2. /\ Ready \in Nat /\ Ready > 0 /\ Ready < NOTIFY_SOCKET_THREAD_STOP
            /\ tlv_notify_lut[Head(todo)].sent = Ready + 1
        BY <4>1, Types
      <4> QED BY <3>1, <4>2 DEF NOTIFY_SOCKET_THREAD_STOP
    <3>3. Len(confirmed)' = Len(confirmed) + 1
      BY <2>3 DEF EmitConfirm
    <3> QED BY <2>1, <3>1, <3>2, <3>3
  <2> QED BY <1>6, <2>2, <2>3 DEF EmitAcked, EmitGiveUp
<1>7. CASE CommsRead
  BY <1>7 DEF CommsRead
<1>8. CASE CommsCheck
  BY <1>8 DEF CommsCheck
<1>9. CASE CommsSend
  <2>1. ASSUME NEW d \in Datagrams, delivered' = Append(delivered, d)
        PROVE  Len(delivered)' = Len(delivered) + 1
    BY <2>1, AppendLemma DEF Datagrams
  <2> QED BY <1>9, <2>1 DEF CommsSend
<1>10. CASE CommsAck
  <2>1. u > 0 /\ SentFor(u) > 0 /\ SentFor(u) \in Nat
    BY <1>10, SentForLemma DEF CommsAck, Serving, CommsBusy
  <2> QED BY <1>10, <2>1 DEF CommsAck
<1> QED
  BY <1>1, <1>2, <1>3, <1>4, <1>5, <1>6, <1>7, <1>8, <1>9, <1>10, AsideSteps,
     GreetingSteps
  DEF Next, QueueThread, CommsThread

LEMMA ServingStep ==
  ASSUME TypeInv, ContractInv, [Next]_vars
  PROVE  Serving'
<1>0. /\ qpc \in QueueControl /\ cpc \in CommsControl
      /\ tlv \in Nat /\ emitted \in Nat /\ u \in Nat /\ seen \in Nat
      /\ comms_notification \in Nat /\ comms_notification_ack \in Nat
      /\ delivered \in Seq(Nat) /\ exact \subseteq Nat
  BY Types
<1> USE <1>0 DEF ContractInv, Serving, CommsBusy, sharedVars, tlvVars, fdVars,
            ackVars, l1Vars, queueVars, commsVars, envVars, wireVars
<1>1. CASE Aside
  BY <1>1 DEF Aside
<1>2. CASE Greeting
  BY <1>2 DEF Greeting
<1>3. CASE EmitAlloc
  <2>1. /\ UNCHANGED <<batch, comms_notification, cpc, u, seen, delivered>>
        /\ cpc = "send" => exact' = exact
    BY <1>3 DEF EmitAlloc, Quiet
  <2> QED BY <2>1
<1>4. CASE EmitNotify
  <2>1. Ready \in Nat
    BY <1>4, Types DEF EmitNotify, Emitting
  <2>2. /\ UNCHANGED <<batch, cpc, u, seen, delivered, exact>>
        /\ comms_notification' = comms_notification + Ready
    BY <1>4 DEF EmitNotify, Ready
  <2> QED BY <2>1, <2>2
<1>5. CASE EmitTimeout \/ StopWaitOver
  BY <1>5 DEF EmitTimeout, EmitGiveUp, StopWaitOver
<1>6. CASE EmitAcked
  BY <1>6 DEF EmitAcked, EmitGiveUp, EmitConfirm
<1>7. CASE CommsRead
  BY <1>7 DEF CommsRead
<1>8. CASE CommsCheck
  <2>1. /\ UNCHANGED <<batch, comms_notification, u, exact, delivered>>
        /\ cpc = "check" /\ seen' = tlv
        /\ cpc' = IF tlv = NULL THEN "loop" ELSE "send"
    BY <1>8 DEF CommsCheck
  <2>2. ASSUME tlv # NULL, tlv \in exact
        PROVE  ~In(delivered, tlv) /\ \A n \in exact : n <= tlv
    <3>1. Emitting /\ tlv = emitted
      BY <2>2 DEF Numbered
    <3>2. qpc = "wait" /\ Handover
      BY <2>1, <2>2, <3>1 DEF Exclusive, Emitting, Quiet
    <3>3. ~In(delivered, tlv)
      BY <2>1, <3>2 DEF Handover
    <3> QED BY <3>1, <3>3 DEF Numbered
  <2> QED BY <2>1, <2>2
<1>9. CASE CommsSend
  BY <1>9 DEF CommsSend
<1>10. CASE CommsAck
  BY <1>10 DEF CommsAck
<1> QED
  BY <1>1, <1>2, <1>3, <1>4, <1>5, <1>6, <1>7, <1>8, <1>9, <1>10, AsideSteps,
     GreetingSteps
  DEF Next, QueueThread, CommsThread

LEMMA ExclusiveStep ==
  ASSUME TypeInv, ContractInv, [Next]_vars
  PROVE  Exclusive'
<1>0. /\ qpc \in QueueControl /\ cpc \in CommsControl
      /\ tlv \in Nat /\ emitted \in Nat /\ u \in Nat /\ seen \in Nat
      /\ comms_notification \in Nat /\ comms_notification_ack \in Nat
      /\ delivered \in Seq(Nat) /\ exact \subseteq Nat
  BY Types
<1> USE <1>0 DEF ContractInv, Exclusive, CommsBusy, Quiet, sharedVars, tlvVars, fdVars,
            ackVars, l1Vars, queueVars, commsVars, envVars, wireVars
<1>1. CASE Aside
  <2>1. CASE qpc' = qpc /\ todo' = todo
    BY <1>1, <2>1 DEF Aside, Handover, Ready
  <2>2. CASE ~Emitting'
    BY <2>2 DEF Emitting
  <2> QED BY <1>1, <2>1, <2>2 DEF Aside
<1>2. CASE Greeting
  BY <1>2 DEF Greeting, Handover, Ready
<1>3. CASE EmitAlloc
  <2>1. /\ UNCHANGED <<comms_notification, comms_notification_ack, cpc, delivered>>
        /\ qpc' = "emit" /\ tlv' = emitted + 1
        /\ emitted + 1 \in exact' => Quiet \/ emitted + 1 \in exact
    BY <1>3 DEF EmitAlloc
  <2>2. emitted + 1 \notin exact /\ ~In(delivered, emitted + 1)
    BY DEF Numbered, In
  <2> QED BY <2>1, <2>2
<1>4. CASE EmitNotify
  <2>1. /\ UNCHANGED <<comms_notification_ack, cpc, delivered, exact, tlv, todo>>
        /\ qpc = "emit" /\ qpc' = "wait"
        /\ comms_notification' = comms_notification + Ready
    BY <1>4 DEF EmitNotify, Ready
  <2>2. Ready \in Nat /\ Ready' = Ready
    BY <2>1, Types DEF Emitting, Ready
  <2> QED BY <2>1, <2>2 DEF Handover
<1>5. CASE EmitTimeout \/ StopWaitOver \/ EmitAcked
  BY <1>5 DEF EmitTimeout, EmitGiveUp, EmitConfirm, StopWaitOver, EmitAcked
<1>6. CASE CommsRead
  <2>1. /\ UNCHANGED <<delivered, exact, tlv, todo, qpc>>
        /\ cpc = "loop" /\ comms_notification > 0 /\ comms_notification' = 0
        /\ u' = comms_notification
        /\ comms_notification \in ReadyValues =>
             cpc' = "check" /\ UNCHANGED comms_notification_ack
    BY <1>6, SentForLemma DEF CommsRead, Serving, SentFor, NOTIFY_NONE,
                              NOTIFY_SOCKET_THREAD_RETURN
  <2>2. CASE qpc = "wait" /\ tlv \in exact
    <3>1. comms_notification = Ready /\ Ready \in ReadyValues /\ ~In(delivered, tlv)
          /\ comms_notification_ack = 0
      BY <2>1, <2>2, Types DEF Handover, Emitting
    <3>2. Ready' = Ready
      BY <2>1 DEF Ready
    <3> QED BY <2>1, <2>2, <3>1, <3>2 DEF Handover
  <2> QED BY <2>1, <2>2
<1>7. CASE CommsCheck
  <2>1. /\ UNCHANGED <<delivered, exact, tlv, todo, qpc, comms_notification>>
        /\ UNCHANGED <<comms_notification_ack, u>>
        /\ cpc = "check" /\ seen' = tlv
        /\ cpc' = IF tlv = NULL THEN "loop" ELSE "send"
    BY <1>7 DEF CommsCheck
  <2>2. Ready' = Ready /\ (Emitting => tlv # NULL)
    BY <2>1 DEF Ready, Numbered, NULL
  <2> QED BY <2>1, <2>2 DEF Handover, Emitting
<1>8. CASE CommsSend
  <2>1. /\ UNCHANGED <<exact, tlv, todo, qpc, comms_notification>>
        /\ UNCHANGED <<comms_notification_ack, u, seen>>
        /\ cpc = "send"
        /\ \/ delivered' = delivered /\ cpc' = "loop"
           \/ (\E d \in Datagrams : delivered' = Append(delivered, d)) /\ cpc' = "ack"
    BY <1>8 DEF CommsSend
  <2>2. Ready' = Ready
    BY <2>1 DEF Ready
  <2>3. ASSUME qpc = "wait", tlv \in exact
        PROVE  Handover'
    <3>1. /\ comms_notification = 0 /\ comms_notification_ack = 0
          /\ u = Ready /\ seen = tlv /\ ~In(delivered, tlv)
      BY <2>1, <2>3 DEF Handover
    <3>2. CASE delivered' = delivered /\ cpc' = "loop"
      BY <2>1, <2>2, <3>1, <3>2 DEF Handover
    <3>3. CASE delivered' = Append(delivered, tlv) /\ cpc' = "ack"
      <4>1. In(delivered, tlv)'
        BY <2>1, <3>3, InAppend
      <4> QED BY <2>1, <2>2, <3>1, <3>3, <4>1 DEF Handover
    <3> QED BY <2>1, <3>1, <3>2, <3>3 DEF Datagrams
  <2> QED BY <2>1, <2>3
<1>9. CASE CommsAck
  <2>1. /\ UNCHANGED <<delivered, exact, tlv, todo, qpc, comms_notification>>
        /\ comms_notification_ack' = comms_notification_ack + SentFor(u)
        /\ cpc = "ack" /\ cpc' = "loop"
    BY <1>9 DEF CommsAck
  <2>2. Ready' = Ready
    BY <2>1 DEF Ready
  <2>3. ASSUME qpc = "wait", tlv \in exact
        PROVE  Handover'
    <3>1. /\ comms_notification = 0 /\ comms_notification_ack = 0
          /\ u = Ready /\ In(delivered, tlv)
      BY <2>1, <2>3 DEF Handover
    <3>2. SentFor(u) = Ready + 1 /\ Ready \in Nat
      BY <2>3, <3>1, Types DEF Emitting
    <3>3. In(delivered, tlv)'
      BY <2>1, <3>1
    <3> QED BY <2>1, <2>2, <3>1, <3>2, <3>3 DEF Handover
  <2> QED BY <2>1, <2>3
<1> QED
  BY <1>1, <1>2, <1>3, <1>4, <1>5, <1>6, <1>7, <1>8, <1>9, AsideSteps, GreetingSteps
  DEF Next, QueueThread, CommsThread

LEMMA ContractInvariant == Spec => [](TypeInv /\ ContractInv)
<1>1. TypeInv /\ ContractInv /\ [Next]_vars => ContractInv'
  BY NumberedStep, CountedStep, ServingStep, ExclusiveStep DEF ContractInv
<1> QED BY <1>1, TypeInit, TypeStep, ContractInit, PTL DEF Spec

-----------------------------------------------------------------------------
(* The two threads implement TlvChannel. *)
LEMMA ChannelInit == Init => Channel!Init
<1> SUFFICES ASSUME Init PROVE Channel!Init
  OBVIOUS
<1>1. Clean = TRUE
  BY DEF Init, Clean, Emitting, Quiet
<1> QED BY <1>1 DEF Init, Channel!Init, NULL

LEMMA CleanBoolean == Clean' \in BOOLEAN
<1>1. Quiet' \in BOOLEAN
  BY DEF Quiet
<1>2. (tlv \in exact)' \in BOOLEAN
  OBVIOUS
<1> QED BY <1>1, <1>2 DEF Clean

(* Between emits something under way may come out. *)
LEMMA SettleStep ==
  ASSUME ContractInv, ~Emitting, ~Quiet, qpc' \notin {"emit", "wait"},
         UNCHANGED <<tlv, emitted, delivered, confirmed, exact>>
  PROVE  [Channel!Next]_Channel!vars
<1>1. tlv = 0 /\ Clean = FALSE /\ ~Emitting'
  BY DEF ContractInv, Numbered, NULL, Clean, Emitting
<1>2. CASE Quiet'
  <2>1. Clean' = TRUE
    BY <1>1, <1>2 DEF Clean
  <2>2. Channel!Settle
    BY <1>1, <2>1 DEF Channel!Settle
  <2> QED BY <2>2 DEF Channel!Next
<1>3. CASE ~Quiet'
  <2>1. Clean' = FALSE
    BY <1>1, <1>3 DEF Clean
  <2> QED BY <1>1, <2>1 DEF Channel!vars
<1> QED BY <1>2, <1>3

LEMMA ChannelStep ==
  ASSUME TypeInv, ContractInv, ContractInv', [Next]_vars
  PROVE  [Channel!Next]_Channel!vars
<1>0. /\ qpc \in QueueControl /\ cpc \in CommsControl
      /\ tlv \in Nat /\ emitted \in Nat /\ u \in Nat /\ seen \in Nat
      /\ comms_notification \in Nat /\ comms_notification_ack \in Nat
      /\ delivered \in Seq(Nat) /\ exact \subseteq Nat
      /\ Len(delivered) \in Nat /\ Len(confirmed) \in Nat
  BY Types
<1> USE <1>0 DEF ContractInv, CommsBusy, sharedVars, tlvVars, fdVars,
            ackVars, l1Vars, queueVars, commsVars, envVars, wireVars
<1>1. CASE Aside
  <2>1. Clean' = Clean
    BY <1>1 DEF Aside, Clean, Emitting, Quiet
  <2> QED BY <1>1, <2>1 DEF Aside, Channel!vars
<1>2. CASE Greeting
  <2>1. Clean' = Clean
    BY <1>2 DEF Greeting, Clean, Emitting, Quiet
  <2> QED BY <1>2, <2>1 DEF Greeting, Channel!vars
<1>3. CASE EmitAlloc
  <2>1. /\ UNCHANGED <<delivered, confirmed>>
        /\ emitted' = emitted + 1 /\ tlv' = emitted + 1
        /\ qpc = "run" /\ qpc' = "emit"
        /\ exact' = IF Quiet THEN exact \cup {emitted + 1} ELSE exact
    BY <1>3 DEF EmitAlloc
  <2>2. tlv = 0 /\ emitted + 1 \notin exact
    BY <2>1 DEF Numbered, Emitting, NULL
  <2>4. Clean' = Clean /\ exact' = IF Clean THEN exact \cup {emitted + 1} ELSE exact
    <3>1. CASE Quiet
      <4>1. Clean = TRUE /\ Clean' = TRUE
        BY <2>1, <3>1 DEF Clean, Emitting
      <4> QED BY <2>1, <3>1, <4>1
    <3>2. CASE ~Quiet
      <4>1. Clean = FALSE /\ Clean' = FALSE
        BY <2>1, <2>2, <3>2 DEF Clean, Emitting
      <4> QED BY <2>1, <3>2, <4>1
    <3> QED BY <3>1, <3>2
  <2>5. Channel!Offer
    BY <2>1, <2>2, <2>4 DEF Channel!Offer
  <2> QED BY <2>5 DEF Channel!Next
<1>4. CASE EmitNotify
  <2>1. Clean' = Clean
    BY <1>4 DEF EmitNotify, Clean, Emitting
  <2> QED BY <1>4, <2>1 DEF EmitNotify, Channel!vars
<1>5. CASE qpc = "wait" /\ EmitGiveUp /\ UNCHANGED delivered
  <2>1. tlv # 0 /\ Clean' \in BOOLEAN
    BY <1>5, CleanBoolean DEF Numbered, Emitting, NULL
  <2>2. Channel!Drop
    BY <1>5, <2>1 DEF EmitGiveUp, Channel!Drop, NULL
  <2> QED BY <2>2 DEF Channel!Next
<1>6. CASE EmitTimeout
  BY <1>5, <1>6 DEF EmitTimeout
<1>7. CASE EmitAcked
  <2>1. CASE EmitGiveUp
    BY <1>5, <1>7, <2>1 DEF EmitAcked
  <2>2. CASE EmitConfirm
    <3>1. /\ qpc = "wait" /\ UNCHANGED <<delivered, comms_notification, cpc>>
          /\ comms_notification_ack = tlv_notify_lut[Head(todo)].sent
          /\ comms_notification_ack' = 0
      BY <1>7, <2>2 DEF EmitAcked, EmitConfirm, EmitGiveUp
    <3>2. comms_notification_ack = Ready + 1 /\ Ready \in Nat /\ Awaited
      BY <3>1, Types DEF Emitting, Awaited, NOTIFY_SOCKET_THREAD_STOP,
                         NOTIFY_SOCKET_THREAD_RETURN
    <3>3. tlv # 0 /\ Len(confirmed) < Len(delivered)
      BY <3>1, <3>2 DEF Numbered, Emitting, NULL, Counted
    <3>4. ASSUME Clean PROVE Channel!Received(tlv) /\ Clean'
      <4>1. Handover
        BY <3>1, <3>4 DEF Clean, Emitting, Exclusive
      <4>2. In(delivered, tlv) /\ comms_notification = 0 /\ cpc \notin CommsBusy
        BY <3>2, <4>1 DEF Handover
      <4>3. Clean'
        BY <2>2, <3>1, <4>2 DEF EmitConfirm, Clean, Emitting, Quiet
      <4> QED BY <4>2, <4>3 DEF In, Channel!Received
    <3>5. Clean' \in BOOLEAN
      BY CleanBoolean
    <3>6. Channel!Confirm
      BY <2>2, <3>1, <3>3, <3>4, <3>5 DEF EmitConfirm, Channel!Confirm, NULL
    <3> QED BY <3>6 DEF Channel!Next
  <2> QED BY <1>7, <2>1, <2>2 DEF EmitAcked
<1>8. CASE StopWaitOver
  <2>1. CASE Quiet
    <3>1. Clean' = Clean
      BY <1>8, <2>1 DEF StopWaitOver, Clean, Emitting, Quiet
    <3> QED BY <1>8, <3>1 DEF StopWaitOver, Channel!vars
  <2>2. CASE ~Quiet
    BY <1>8, <2>2, SettleStep DEF StopWaitOver, Emitting
  <2> QED BY <2>1, <2>2
<1>9. CASE CommsSend /\ delivered' # delivered
  <2>1. PICK d \in Datagrams : delivered' = Append(delivered, d)
    BY <1>9 DEF CommsSend
  <2>2. /\ UNCHANGED <<tlv, emitted, confirmed, exact, qpc>>
        /\ cpc = "send" /\ cpc' = "ack"
    BY <1>9 DEF CommsSend
  <2>3. d \in 0..emitted
    BY DEF Datagrams, Numbered, NULL
  <2>4. ASSUME tlv \in exact PROVE seen = tlv /\ Emitting
    <3>1. Emitting
      BY <2>4 DEF Numbered, NULL
    <3> QED BY <2>2, <2>4, <3>1 DEF Exclusive, Handover, Quiet, Emitting
  <2>5. Clean' = Clean /\ (Clean => tlv \in exact)
    BY <2>2 DEF Clean, Emitting, Quiet
  <2>6. Clean => tlv # 0 /\ d = tlv
    BY <2>4, <2>5 DEF Datagrams, Numbered
  <2>7. ASSUME d \in exact, NEW i \in 1..Len(delivered), delivered[i] \in exact
        PROVE  delivered[i] < d
    <3>1. d = seen
      BY <2>4, <2>7 DEF Datagrams, Numbered
    <3>2. delivered[i] <= d /\ ~In(delivered, d)
      BY <2>2, <2>7, <3>1 DEF Serving
    <3> QED BY <2>7, <3>2 DEF In
  <2>8. Channel!Deliver(d)
    BY <2>1, <2>2, <2>5, <2>6, <2>7 DEF Channel!Deliver
  <2> QED BY <2>3, <2>8 DEF Channel!Next
<1>10. CASE (CommsRead \/ CommsCheck \/ CommsSend \/ CommsAck) /\ delivered' = delivered
  <2>1. UNCHANGED <<tlv, emitted, confirmed, exact, delivered, qpc>>
    BY <1>10 DEF CommsRead, CommsCheck, CommsSend, CommsAck
  <2>2. ~Quiet
    BY <1>10 DEF CommsRead, CommsCheck, CommsSend, CommsAck, Serving, Quiet
  <2>3. CASE Emitting
    <3>1. Clean' = Clean
      BY <2>1, <2>3 DEF Clean, Emitting
    <3> QED BY <2>1, <3>1 DEF Channel!vars
  <2>4. CASE ~Emitting
    BY <2>1, <2>2, <2>4, SettleStep DEF Emitting
  <2> QED BY <2>3, <2>4
<1>11. CASE CommsRead \/ CommsCheck \/ CommsAck
  BY <1>10, <1>11 DEF CommsRead, CommsCheck, CommsAck
<1> QED
  BY <1>1, <1>2, <1>3, <1>4, <1>6, <1>7, <1>8, <1>9, <1>10, <1>11, AsideSteps,
     GreetingSteps
  DEF Next, QueueThread, CommsThread

(* One TLV at a time, and what a failed emit leaves behind disturbs those  *)
(* only that are emitted before it has come out: every behaviour of the    *)
(* two threads is one of TlvChannel.                                       *)
THEOREM Refinement == Spec => ImplementsTlvChannel
<1>1. TypeInv /\ ContractInv /\ (TypeInv /\ ContractInv)' /\ [Next]_vars
        => [Channel!Next]_Channel!vars
  BY ChannelStep
<1> QED
  BY <1>1, ChannelInit, ContractInvariant, PTL
  DEF Spec, ImplementsTlvChannel, Channel!Spec

-----------------------------------------------------------------------------
(* The contract, of every behaviour of TlvChannel. *)
ChannelInv ==
  /\ EmitContract
  /\ EmitFailed \/ Clean
  /\ Len(confirmed) + (IF tlv = 0 THEN 0 ELSE 1) <= emitted
  /\ tlv # 0 /\ tlv \in exact => Clean
  /\ \A i \in 1..Len(delivered) : delivered[i] <= emitted
  /\ \A i \in 1..Len(confirmed) : confirmed[i] <= emitted

(* The types and the numbering that TlvChannel takes for granted. *)
Sorted ==
  /\ emitted \in Nat /\ tlv \in {0, emitted}
  /\ delivered \in Seq(Nat) /\ confirmed \in Seq(Nat)
  /\ exact \subseteq 1..emitted

LEMMA ChannelInvInit == Init => ChannelInv
<1> SUFFICES ASSUME Init PROVE ChannelInv
  OBVIOUS
<1>1. Len(<<>>) = 0
  OBVIOUS
<1>2. Clean /\ EmitContract
  BY <1>1 DEF Init, Clean, Emitting, Quiet, EmitContract, Channel!Contract
<1> QED BY <1>1, <1>2 DEF Init, ChannelInv, NULL

(* Once an emit has failed, one has. *)
LEMMA FailedStep ==
  ASSUME Sorted, [Channel!Next]_Channel!vars, EmitFailed
  PROVE  EmitFailed'
<1>0. Len(confirmed) \in Nat /\ emitted \in Nat
  BY DEF Sorted
<1> USE <1>0 DEF EmitFailed, Channel!Failed
<1>1. CASE Channel!Offer
  BY <1>1 DEF Channel!Offer
<1>2. CASE Channel!Confirm
  <2>1. Len(confirmed') = Len(confirmed) + 1
    BY <1>2 DEF Channel!Confirm, Sorted
  <2> QED BY <1>2, <2>1 DEF Channel!Confirm
<1>3. CASE Channel!Drop \/ Channel!Settle
  BY <1>3 DEF Channel!Drop, Channel!Settle
<1>4. ASSUME NEW n \in 0..emitted, Channel!Deliver(n) PROVE EmitFailed'
  BY <1>4 DEF Channel!Deliver
<1>5. CASE UNCHANGED Channel!vars
  BY <1>5 DEF Channel!vars
<1> QED BY <1>1, <1>2, <1>3, <1>4, <1>5 DEF Channel!Next

LEMMA ChannelInvStep ==
  ASSUME Sorted, ChannelInv, [Channel!Next]_Channel!vars
  PROVE  ChannelInv'
<1>0. /\ Len(confirmed) \in Nat /\ Len(delivered) \in Nat /\ emitted \in Nat
      /\ \A i \in 1..Len(delivered) : delivered[i] \in Nat
      /\ \A i \in 1..Len(confirmed) : confirmed[i] \in Nat
  BY DEF Sorted
<1> USE <1>0 DEF EmitContract, Channel!Contract, Channel!Received
<1>1. CASE Channel!Offer
  <2>1. /\ tlv = 0 /\ emitted' = emitted + 1 /\ tlv' = emitted + 1
        /\ exact' = IF Clean THEN exact \cup {emitted + 1} ELSE exact
        /\ UNCHANGED <<delivered, confirmed>> /\ Clean' = Clean
    BY <1>1 DEF Channel!Offer
  <2>2. EmitFailed' => EmitFailed
    BY <2>1 DEF EmitFailed, Channel!Failed
  <2>3. EmitFailed => EmitFailed'
    BY <1>1, FailedStep DEF Channel!Next
  <2>4. Channel!Failed' \/ exact' = 1..emitted'
    <3>1. CASE EmitFailed
      BY <2>3, <3>1 DEF EmitFailed
    <3>2. CASE ~EmitFailed
      <4>1. Clean /\ exact = 1..emitted
        BY <3>2 DEF ChannelInv, EmitFailed
      <4>2. exact' = exact \cup {emitted + 1}
        BY <2>1, <4>1
      <4>3. (1..emitted) \cup {emitted + 1} = 1..(emitted + 1)
        OBVIOUS
      <4>4. exact' = 1..(emitted + 1)
        BY <4>1, <4>2, <4>3
      <4>5. emitted' = emitted + 1
        BY <2>1
      <4> QED BY <4>4, <4>5
    <3> QED BY <3>1, <3>2
  <2>5. \A n \in exact' : n \in exact \/ n = emitted + 1
    BY <2>1
  <2>6. EmitContract'
    <3>1. \A i \in 1..Len(delivered) : delivered[i] # emitted + 1
      BY DEF ChannelInv
    <3>2. \A i \in 1..Len(confirmed) : confirmed[i] # emitted + 1
      BY DEF ChannelInv
    <3> QED BY <2>1, <2>4, <2>5, <3>1, <3>2 DEF ChannelInv
  <2>7. tlv' \in exact' => Clean'
    BY <2>1 DEF Sorted
  <2> QED BY <2>1, <2>3, <2>6, <2>7 DEF ChannelInv
<1>2. CASE Channel!Confirm
  <2>1. /\ tlv # 0 /\ tlv' = 0 /\ confirmed' = Append(confirmed, tlv)
        /\ Len(confirmed) < Len(delivered)
        /\ Clean => Channel!Received(tlv) /\ Clean'
        /\ UNCHANGED <<emitted, delivered, exact>>
    BY <1>2 DEF Channel!Confirm
  <2>2. /\ Len(confirmed') = Len(confirmed) + 1
        /\ confirmed'[Len(confirmed) + 1] = tlv
        /\ \A i \in 1..Len(confirmed) : confirmed'[i] = confirmed[i]
    BY <2>1, AppendLemma DEF Sorted
  <2>3. EmitFailed => EmitFailed'
    BY <1>2, FailedStep DEF Channel!Next
  <2>4. \A i \in 1..Len(confirmed') : i = Len(confirmed) + 1 \/ i \in 1..Len(confirmed)
    BY <2>2
  <2>5. \A i \in 1..Len(confirmed') :
          confirmed'[i] <= emitted /\ (confirmed'[i] \in exact => Channel!Received(confirmed'[i]))
    <3> SUFFICES ASSUME NEW i \in 1..Len(confirmed')
                 PROVE  /\ confirmed'[i] <= emitted
                        /\ confirmed'[i] \in exact => Channel!Received(confirmed'[i])
      OBVIOUS
    <3>1. CASE i = Len(confirmed) + 1
      BY <2>1, <2>2, <3>1 DEF ChannelInv, Sorted
    <3>2. CASE i \in 1..Len(confirmed)
      BY <2>1, <2>2, <3>2 DEF ChannelInv
    <3> QED BY <2>4, <3>1, <3>2
  <2>6. EmitContract'
    <3>1. Channel!Failed' \/ exact = 1..emitted
      BY <2>3 DEF ChannelInv, EmitFailed
    <3> QED BY <2>1, <2>2, <2>5, <3>1 DEF ChannelInv
  <2> QED BY <2>1, <2>2, <2>3, <2>5, <2>6 DEF ChannelInv
<1>3. CASE Channel!Drop
  <2>1. tlv # 0 /\ tlv' = 0 /\ UNCHANGED <<emitted, delivered, confirmed, exact>>
    BY <1>3 DEF Channel!Drop
  <2>2. EmitFailed'
    BY <2>1 DEF EmitFailed, Channel!Failed, ChannelInv
  <2> QED BY <2>1, <2>2 DEF ChannelInv, EmitFailed
<1>4. CASE Channel!Settle
  <2>1. UNCHANGED <<tlv, emitted, delivered, confirmed, exact>> /\ Clean'
    BY <1>4 DEF Channel!Settle
  <2>2. EmitFailed' = EmitFailed
    BY <2>1 DEF EmitFailed, Channel!Failed
  <2> QED BY <2>1, <2>2 DEF ChannelInv, EmitFailed
<1>5. ASSUME NEW n \in 0..emitted, Channel!Deliver(n) PROVE ChannelInv'
  <2>1. /\ UNCHANGED <<tlv, emitted, confirmed, exact>> /\ Clean' = Clean
        /\ delivered' = Append(delivered, n)
        /\ n \in exact => \A i \in 1..Len(delivered) : delivered[i] \in exact => delivered[i] < n
    BY <1>5 DEF Channel!Deliver
  <2>2. /\ Len(delivered') = Len(delivered) + 1
        /\ delivered'[Len(delivered) + 1] = n
        /\ \A i \in 1..Len(delivered) : delivered'[i] = delivered[i]
    BY <2>1, AppendLemma DEF Sorted
  <2>3. EmitFailed' = EmitFailed
    BY <2>1 DEF EmitFailed, Channel!Failed
  <2>4. \A i \in 1..Len(delivered') : i = Len(delivered) + 1 \/ i \in 1..Len(delivered)
    BY <2>2
  <2>5. \A i \in 1..Len(delivered') : delivered'[i] <= emitted
    BY <2>2, <2>4 DEF ChannelInv
  <2>6. ASSUME NEW i \in 1..Len(delivered'), NEW j \in 1..Len(delivered'),
               i < j, delivered'[i] \in exact, delivered'[j] \in exact
        PROVE  delivered'[i] < delivered'[j]
    <3>1. i \in 1..Len(delivered)
      BY <2>2, <2>6
    <3>2. CASE j = Len(delivered) + 1
      BY <2>1, <2>2, <2>6, <3>1, <3>2
    <3>3. CASE j \in 1..Len(delivered)
      BY <2>2, <2>6, <3>1, <3>3 DEF ChannelInv
    <3> QED BY <2>4, <3>2, <3>3
  <2>7. \A m : Channel!Received(m) => Channel!Received(m)'
    BY <2>2
  <2>8. EmitContract'
    <3>1. Channel!Failed' \/ exact = 1..emitted
      BY <2>3 DEF ChannelInv, EmitFailed
    <3>2. \A i \in 1..Len(confirmed) :
            confirmed[i] \in exact => \E j \in 1..Len(delivered') : delivered'[j] = confirmed[i]
      BY <2>2 DEF ChannelInv
    <3> QED BY <2>1, <2>2, <2>6, <3>1, <3>2 DEF ChannelInv
  <2> QED BY <2>1, <2>3, <2>5, <2>8 DEF ChannelInv
<1>6. CASE UNCHANGED Channel!vars
  <2>1. UNCHANGED <<tlv, emitted, delivered, confirmed, exact, Clean>>
    BY <1>6 DEF Channel!vars
  <2>2. EmitFailed' = EmitFailed
    BY <2>1 DEF EmitFailed, Channel!Failed
  <2> QED BY <2>1, <2>2 DEF ChannelInv, EmitFailed
<1> QED BY <1>1, <1>2, <1>3, <1>4, <1>5, <1>6 DEF Channel!Next

LEMMA SortedLemma == TypeInv /\ ContractInv => Sorted
  BY DEF TypeInv, TypeOK, ContractInv, Numbered, NULL, Sorted

LEMMA ChannelInvariant == Spec => [](TypeInv /\ ContractInv /\ ChannelInv)
<1>1. TypeInv /\ ContractInv /\ (TypeInv /\ ContractInv)' /\ [Next]_vars /\ ChannelInv
        => ChannelInv'
  <2> SUFFICES ASSUME TypeInv, ContractInv, (TypeInv /\ ContractInv)', [Next]_vars,
                      ChannelInv
               PROVE  ChannelInv'
    OBVIOUS
  <2>1. Sorted
    BY SortedLemma
  <2>2. [Channel!Next]_Channel!vars
    BY ChannelStep
  <2> QED BY <2>1, <2>2, ChannelInvStep
<1> QED BY <1>1, ChannelInvInit, ContractInvariant, PTL DEF Spec

(* For any events, hellos, collections and timing: a TLV emitted while     *)
(* nothing older was under way reaches the agent at most once and in       *)
(* order, and did if its emit reported success; no datagram is reported    *)
(* twice; and until an emit fails every TLV is of that kind.               *)
THEOREM EmitContractHolds == Spec => []EmitContract
<1>1. ChannelInv => EmitContract
  BY DEF ChannelInv
<1> QED BY <1>1, ChannelInvariant, PTL

-----------------------------------------------------------------------------
(* What it takes for the comms thread to read a freed TLV, or to stop. *)
Harmless == NoFreedAccess /\ CommsLoopSurvives

LEMMA HarmlessStep ==
  ASSUME TypeInv, ContractInv, ContractInv', ChannelInv, Harmless, [Next]_vars
  PROVE  Harmless'
<1>1. EmitFailed => EmitFailed'
  BY ChannelStep, SortedLemma, FailedStep
<1>2. CASE EmitFailed
  BY <1>1, <1>2 DEF Harmless, NoFreedAccess, CommsLoopSurvives
<1>3. CASE ~EmitFailed
  <2>1. ~badAccess /\ cpc # "returned" /\ Clean
    BY <1>3 DEF Harmless, NoFreedAccess, CommsLoopSurvives, ChannelInv
  <2>2. ASSUME CommsSend PROVE seen = tlv
    <3>1. cpc = "send"
      BY <2>2 DEF CommsSend
    <3> QED BY <2>1, <3>1 DEF Clean, Emitting, Quiet, ContractInv, Exclusive, Handover,
                              CommsBusy
  <2>3. ASSUME CommsRead PROVE cpc' # "returned"
    <3>1. "notify" \in batch /\ comms_notification > 0 /\ cpc = "loop"
      BY <2>3 DEF CommsRead, ContractInv, Serving
    <3>2. comms_notification \in ReadyValues /\ comms_notification \in Nat
      BY <2>1, <3>1, Types
      DEF Clean, Emitting, Quiet, ContractInv, Exclusive, Handover, CommsBusy
    <3>3. SentFor(comms_notification) \notin {NOTIFY_NONE, NOTIFY_SOCKET_THREAD_RETURN}
      BY <3>2, SentForLemma
    <3> QED BY <2>3, <3>3 DEF CommsRead
  <2>4. CASE CommsSend \/ CommsRead
    <3>1. ASSUME CommsSend PROVE ~badAccess' /\ cpc' # "returned"
      <4>1. badAccess' = (badAccess \/ tlv # seen) /\ cpc' \in {"ack", "loop"}
        BY <3>1 DEF CommsSend
      <4>2. ~(badAccess \/ tlv # seen)
        BY <2>1, <2>2, <3>1
      <4> QED BY <4>1, <4>2
    <3>2. ASSUME CommsRead PROVE ~badAccess' /\ cpc' # "returned"
      <4>1. badAccess' = badAccess
        BY <3>2 DEF CommsRead, wireVars
      <4> QED BY <2>1, <2>3, <3>2, <4>1
    <3>3. ~badAccess' /\ cpc' # "returned"
      BY <2>4, <3>1, <3>2
    <3> QED BY <3>3 DEF Harmless, NoFreedAccess, CommsLoopSurvives
  <2>5. CASE ~CommsSend /\ ~CommsRead
    <3>1. badAccess' = badAccess
      BY <2>5, AsideSteps, GreetingSteps
      DEF Next, QueueThread, CommsThread, Aside, Greeting, EmitAlloc, EmitNotify,
          EmitAcked, EmitTimeout, StopWaitOver, CommsCheck, CommsAck, wireVars
    <3>2. cpc' # "returned"
      BY <2>1, <2>5, AsideSteps, GreetingSteps
      DEF Next, QueueThread, CommsThread, Aside, Greeting, EmitAlloc, EmitNotify,
          EmitAcked, EmitTimeout, StopWaitOver, CommsCheck, CommsAck, commsVars
    <3> QED BY <2>1, <3>1, <3>2 DEF Harmless, NoFreedAccess, CommsLoopSurvives
  <2> QED BY <2>4, <2>5
<1> QED BY <1>2, <1>3

LEMMA HarmlessInvariant == Spec => []Harmless
<1>1. Init => Harmless
  BY DEF Init, Harmless, NoFreedAccess, CommsLoopSurvives
<1>2. TypeInv /\ ContractInv /\ ChannelInv /\ (TypeInv /\ ContractInv /\ ChannelInv)'
        /\ [Next]_vars /\ Harmless
        => Harmless'
  <2> SUFFICES ASSUME TypeInv, ContractInv, ChannelInv,
                      (TypeInv /\ ContractInv /\ ChannelInv)', [Next]_vars, Harmless
               PROVE  Harmless'
    OBVIOUS
  <2>1. ContractInv'
    OBVIOUS
  <2> QED BY <2>1, HarmlessStep
<1> QED BY <1>1, <1>2, ChannelInvariant, PTL DEF Spec

(* As long as every emit has succeeded, the comms thread does not read a   *)
(* TLV that the queue thread has freed, whatever the timing.               *)
THEOREM NoFreedAccessHolds == Spec => []NoFreedAccess
<1>1. Harmless => NoFreedAccess
  BY DEF Harmless
<1> QED BY <1>1, HarmlessInvariant, PTL

(* As long as every emit has succeeded, no sum of notifications stops the  *)
(* comms thread.                                                           *)
THEOREM CommsLoopSurvivesHolds == Spec => []CommsLoopSurvives
<1>1. Harmless => CommsLoopSurvives
  BY DEF Harmless
<1> QED BY <1>1, HarmlessInvariant, PTL
=============================================================================
