--------------------------- MODULE AssocSyncProofs ---------------------------
(***************************************************************************)
(* Proofs about AssocSync, for any number of stations, interfaces and      *)
(* changes.                                                                *)
(*                                                                         *)
(* What the maps will hold of a station and an interface is decided by the *)
(* last item under way that concerns the two: first on the bus, else in    *)
(* the queue, else the map itself.  The same holds, with the diffs of a    *)
(* station, of what the agent was told, unless no emit on a clean channel  *)
(* has reported the last of them.                                          *)
(***************************************************************************)
EXTENDS AssocSync, SequenceTheorems, TLAPS

-----------------------------------------------------------------------------
(* The last item of a kind.                                                *)

(* No item of Q is in T; the last one that is, if any, is in B iff b.      *)
Free(Q, T) == \A i \in 1 .. Len(Q) : Q[i] \notin T
Decides(Q, T, B, b) ==
  \A i \in 1 .. Len(Q) :
    Q[i] \in T /\ (\A k \in i + 1 .. Len(Q) : Q[k] \notin T) => (Q[i] \in B <=> b)

LEMMA EmptyDecides ==
  ASSUME NEW T, NEW B, NEW b
  PROVE  Free(<<>>, T) /\ Decides(<<>>, T, B, b)
  BY EmptySeq DEF Free, Decides

(* Nothing of the kind decides nothing.                                    *)
LEMMA FreeDecides ==
  ASSUME NEW Q, NEW T, NEW B, NEW b, Free(Q, T)
  PROVE  Decides(Q, T, B, b)
  BY DEF Free, Decides

LEMMA AppendOut ==
  ASSUME NEW S, NEW Q \in Seq(S), NEW e \in S, NEW T, NEW B, NEW b, e \notin T
  PROVE  /\ Free(Append(Q, e), T) <=> Free(Q, T)
         /\ Decides(Q, T, B, b) => Decides(Append(Q, e), T, B, b)
<1> DEFINE R == Append(Q, e)
<1>1. /\ Len(R) = Len(Q) + 1 /\ Len(Q) \in Nat /\ R[Len(Q) + 1] = e
      /\ \A i \in 1 .. Len(Q) : R[i] = Q[i]
  BY AppendProperties, LenProperties
<1> HIDE DEF R
<1>2. Free(R, T) <=> Free(Q, T)
  BY <1>1 DEF Free
<1>3. ASSUME Decides(Q, T, B, b), NEW i \in 1 .. Len(R), R[i] \in T,
             \A k \in i + 1 .. Len(R) : R[k] \notin T
      PROVE  R[i] \in B <=> b
  <2>1. i \in 1 .. Len(Q) /\ R[i] = Q[i]
    BY <1>1, <1>3
  <2>2. \A k \in i + 1 .. Len(Q) : Q[k] \notin T
    BY <1>1, <1>3, <2>1
  <2> QED
    BY <1>3, <2>1, <2>2 DEF Decides
<1>4. Decides(Q, T, B, b) => Decides(R, T, B, b)
  BY <1>3 DEF Decides
<1> QED
  BY <1>2, <1>4 DEF R

LEMMA AppendIn ==
  ASSUME NEW S, NEW Q \in Seq(S), NEW e \in S, NEW T, NEW B, NEW b, e \in T
  PROVE  ~Free(Append(Q, e), T) /\ ((e \in B <=> b) => Decides(Append(Q, e), T, B, b))
<1> DEFINE R == Append(Q, e)
<1>1. Len(R) = Len(Q) + 1 /\ Len(Q) \in Nat /\ R[Len(Q) + 1] = e
  BY AppendProperties, LenProperties
<1> HIDE DEF R
<1>2. ~Free(R, T)
  BY <1>1 DEF Free
<1>3. ASSUME e \in B <=> b, NEW i \in 1 .. Len(R), R[i] \in T,
             \A k \in i + 1 .. Len(R) : R[k] \notin T
      PROVE  R[i] \in B <=> b
  <2>1. i = Len(Q) + 1
    BY <1>1, <1>3
  <2> QED
    BY <1>1, <1>3, <2>1
<1>4. (e \in B <=> b) => Decides(R, T, B, b)
  BY <1>3 DEF Decides
<1> QED
  BY <1>2, <1>4 DEF R

LEMMA TailOf ==
  ASSUME NEW S, NEW Q \in Seq(S), Q # <<>>, NEW T, NEW B, NEW b
  PROVE  /\ Free(Q, T) <=> Head(Q) \notin T /\ Free(Tail(Q), T)
         /\ Decides(Q, T, B, b) =>
              /\ Decides(Tail(Q), T, B, b)
              /\ Head(Q) \in T /\ Free(Tail(Q), T) => (Head(Q) \in B <=> b)
<1> DEFINE R == Tail(Q)
<1>1. /\ Len(R) = Len(Q) - 1 /\ Len(Q) \in Nat /\ Len(Q) > 0 /\ Head(Q) = Q[1]
      /\ \A i \in 1 .. Len(R) : i + 1 \in 1 .. Len(Q) /\ R[i] = Q[i + 1]
  BY HeadTailProperties, LenProperties, EmptySeq
<1> HIDE DEF R
<1>2. \A i \in 2 .. Len(Q) : i - 1 \in 1 .. Len(R) /\ R[i - 1] = Q[i]
  BY <1>1
<1>3. Free(Q, T) <=> Q[1] \notin T /\ Free(R, T)
  BY <1>1, <1>2 DEF Free
<1>4. ASSUME Decides(Q, T, B, b), NEW i \in 1 .. Len(R), R[i] \in T,
             \A k \in i + 1 .. Len(R) : R[k] \notin T
      PROVE  R[i] \in B <=> b
  <2>1. i + 1 \in 1 .. Len(Q) /\ R[i] = Q[i + 1]
    BY <1>1
  <2>2. \A k \in (i + 1) + 1 .. Len(Q) : Q[k] \notin T
    <3> SUFFICES ASSUME NEW k \in (i + 1) + 1 .. Len(Q) PROVE Q[k] \notin T
      OBVIOUS
    <3>1. k - 1 \in i + 1 .. Len(R) /\ R[k - 1] = Q[k]
      BY <1>1, <1>2
    <3> QED
      BY <1>4, <3>1
  <2> QED
    BY <1>4, <2>1, <2>2 DEF Decides
<1>5. ASSUME Decides(Q, T, B, b), Q[1] \in T, Free(R, T) PROVE Q[1] \in B <=> b
  <2>1. 1 \in 1 .. Len(Q) /\ \A k \in 1 + 1 .. Len(Q) : Q[k] \notin T
    BY <1>1, <1>2, <1>5 DEF Free
  <2> QED
    BY <1>5, <2>1 DEF Decides
<1>6. Decides(Q, T, B, b) => Decides(R, T, B, b)
  BY <1>4 DEF Decides
<1> QED
  BY <1>1, <1>3, <1>5, <1>6 DEF R

-----------------------------------------------------------------------------
(* Types.                                                                  *)

Lists == [Vaps -> SUBSET Macs]
InitItem == [type |-> "init"]
Fulls == [type : {"full"}, list : Lists]
Diffs ==
  {d \in [type : {"diff"}, mac : Macs, from : Vaps \cup {NoVap}, to : Vaps \cup {NoVap}] :
     d.from # d.to}
Items == {InitItem} \cup Fulls \cup Diffs

Shaped == TypeOK /\ queue \in Seq(Items) /\ bus \in Seq(Fulls \cup Diffs)

(* Between the two passes over a diff, that diff is at the head.           *)
Halfway == half => queue # <<>> /\ Head(queue) \in Diffs

Typed == Shaped /\ Halfway

LEMMA DiffFacts ==
  ASSUME NEW m \in Macs, NEW from \in Vaps \cup {NoVap}, NEW to \in Vaps \cup {NoVap}, from # to
  PROVE  LET e == Diff(m, from, to)
         IN  e \in Diffs /\ e.type = "diff" /\ e.mac = m /\ e.from = from /\ e.to = to
  BY DEF Diff, Diffs

LEMMA SnapshotTyped == Snapshot \in Lists
  BY DEF Snapshot, Lists

(* A list on its way.                                                      *)
LEMMA FullTyped ==
  ASSUME NEW l \in Lists
  PROVE  [type |-> "full", list |-> l] \in Fulls /\ [type |-> "full", list |-> l].list = l
  BY DEF Fulls

LEMMA ItemTypes == \A e \in Items : e.type \in {"init", "full", "diff"}
  BY DEF Items, InitItem, Fulls, Diffs

LEMMA QueueTypes ==
  ASSUME NEW q \in Seq(Items)
  PROVE  \A i \in 1 .. Len(q) : q[i].type \in {"init", "full", "diff"}
  BY ElementOfSeq, ItemTypes

(* What the head of the queue is.                                          *)
LEMMA HeadTyped ==
  ASSUME Shaped, queue # <<>>
  PROVE  /\ Head(queue) \in Items /\ Tail(queue) \in Seq(Items)
         /\ Head(queue).type = "full" => Head(queue) \in Fulls /\ Head(queue).list \in Lists
         /\ Head(queue).type = "diff" => Head(queue) \in Diffs
<1>1. Head(queue) \in Items /\ Tail(queue) \in Seq(Items)
  BY HeadTailProperties DEF Shaped
<1> QED
  BY <1>1 DEF Items, Fulls, Diffs, InitItem

(* The part of the types that telling the agent may change. *)
AgentTyped ==
  /\ heard \in [Macs -> {"nothing", "connected", "disconnected"}] /\ unheard \subseteq Macs
  /\ comms_ready \in BOOLEAN /\ clean \in BOOLEAN /\ underway \subseteq Updates

LEMMA AgentsTyped == TypeOK => AgentTyped
  BY DEF TypeOK, AgentTyped

LEMMA TellTyped ==
  ASSUME AgentTyped, NEW m \in Macs, NEW state \in {"connected", "disconnected"}, Tell(m, state)
  PROVE  AgentTyped'
<1>1. [mac |-> m, state |-> state] \in Updates
  BY DEF Updates
<1> QED BY <1>1 DEF AgentTyped, Tell

LEMMA InitTyped == Init => Typed
<1> SUFFICES ASSUME Init PROVE Typed
  OBVIOUS
<1>1. NoStation \in [Vaps -> SUBSET Macs]
  BY DEF NoStation
<1>2. changes \in 0 .. MaxChanges
  BY SetsAssumption DEF Init
<1>3. \A i \in 1 .. Len(queue) : queue[i].type \in {"init", "full", "diff"}
  BY EmptySeq DEF Init
<1>4. TypeOK
  BY <1>1, <1>2, <1>3 DEF Init, TypeOK, MainControl
<1> QED
  BY <1>4, EmptySeq DEF Init, Typed, Shaped, Halfway

LEMMA StepShaped == Typed /\ [Next]_vars => Shaped'
<1> SUFFICES ASSUME Shaped, Halfway, [Next]_vars PROVE Shaped'
  BY DEF Typed
<1>0. /\ TypeOK /\ queue \in Seq(Items) /\ bus \in Seq(Fulls \cup Diffs)
      /\ Fulls \cup Diffs \subseteq Items
  BY DEF Shaped, Items
<1> USE DEF MainControl, envVars, mainVars, initVars, agentVars
<1>1. ASSUME NEW m \in Macs, NEW to \in Vaps \cup {NoVap}, StationMoves(m, to) PROVE Shaped'
  <2>0. ap[m] \in Vaps \cup {NoVap}
    BY <1>0 DEF TypeOK
  <2>1. Diff(m, ap[m], to) \in Diffs
    BY <1>1, <2>0, DiffFacts DEF StationMoves
  <2>2. bus' \in Seq(Fulls \cup Diffs)
    BY <1>0, <1>1, <2>1, AppendProperties DEF StationMoves
  <2>3. changes' \in 0 .. MaxChanges
    BY <1>0, <1>1, SetsAssumption DEF StationMoves, TypeOK
  <2>4. ap' \in [Macs -> Vaps \cup {NoVap}]
    BY <1>0, <1>1 DEF StationMoves, TypeOK
  <2> QED
    BY <1>0, <1>1, <2>2, <2>3, <2>4 DEF StationMoves, TypeOK, Shaped
<1>2. CASE FullPublished
  <2>1. bus' \in Seq(Fulls \cup Diffs)
    BY <1>0, <1>2, SnapshotTyped, FullTyped, AppendProperties DEF FullPublished
  <2>2. changes' \in 0 .. MaxChanges
    BY <1>0, <1>2, SetsAssumption DEF FullPublished, TypeOK
  <2> QED
    BY <1>0, <1>2, <2>1, <2>2 DEF FullPublished, TypeOK, Shaped
<1>3. CASE BusDelivers
  <2>1. Head(bus) \in Items /\ Tail(bus) \in Seq(Fulls \cup Diffs)
    BY <1>0, <1>3, HeadTailProperties DEF BusDelivers
  <2>2. queue' \in Seq(Items) /\ bus' \in Seq(Fulls \cup Diffs)
    BY <1>0, <1>3, <2>1, AppendProperties DEF BusDelivers
  <2>3. \A i \in 1 .. Len(queue') : queue'[i].type \in {"init", "full", "diff"}
    BY <2>2, QueueTypes
  <2>4. stale' \subseteq Macs
    <3>1. Head(bus).type = "diff" => Head(bus).mac \in Macs
      BY <1>0, <1>3, HeadTailProperties DEF BusDelivers, Fulls, Diffs
    <3> QED BY <1>0, <1>3, <3>1 DEF BusDelivers, TypeOK
  <2> QED
    BY <1>0, <1>3, <2>2, <2>3, <2>4 DEF BusDelivers, TypeOK, Shaped
<1>4. CASE InitWait \/ Subscribe \/ AgentHello \/ OtherEmitFails \/ Settle
  BY <1>0, <1>4 DEF InitWait, Subscribe, AgentHello, OtherEmitFails, Settle, TypeOK, Shaped
<1>10. CASE LateDelivery
  <2>1. PICK x \in underway : heard' = [heard EXCEPT ![x.mac] = x.state]
    BY <1>10 DEF LateDelivery
  <2>2. heard' \in [Macs -> {"nothing", "connected", "disconnected"}]
    BY <1>0, <2>1 DEF TypeOK, Updates
  <2> QED BY <1>0, <1>10, <2>2 DEF LateDelivery, TypeOK, Shaped
<1>5. CASE InitGet
  <2>1. queue' \in Seq(Items)
    BY <1>0, <1>5, AppendProperties DEF InitGet, Items, InitItem
  <2>2. \A i \in 1 .. Len(queue') : queue'[i].type \in {"init", "full", "diff"}
    BY <2>1, QueueTypes
  <2> QED
    BY <1>0, <1>5, <2>1, <2>2 DEF InitGet, TypeOK, Shaped
<1>6. CASE Get
  BY <1>0, <1>6, SnapshotTyped DEF Get, TypeOK, Shaped, Lists
<1>7. CASE PushFull
  <2>1. queue' \in Seq(Items)
    BY <1>0, <1>7, FullTyped, AppendProperties DEF PushFull, TypeOK, Lists
  <2>2. \A i \in 1 .. Len(queue') : queue'[i].type \in {"init", "full", "diff"}
    BY <2>1, QueueTypes
  <2> QED
    BY <1>0, <1>7, <2>1, <2>2 DEF PushFull, TypeOK, Shaped
<1>8. CASE ProcessDisconnect
  <2>1. Head(queue).mac \in Macs
    BY <1>8, HeadTyped DEF ProcessDisconnect, Diffs
  <2>2. AgentTyped'
    BY <1>0, <1>8, <2>1, TellTyped, AgentsTyped DEF ProcessDisconnect, AgentTyped
  <2>3. map' \in [Vaps -> SUBSET Macs]
    BY <1>0, <1>8 DEF ProcessDisconnect, TypeOK
  <2> QED BY <1>0, <1>8, <2>2, <2>3 DEF ProcessDisconnect, AgentTyped, TypeOK, Shaped
<1>11. CASE DropDocument \/ ProcessInit \/ ProcessFull \/ (ProcessConnect /\ queue # <<>>)
  <2>1. queue' = Tail(queue) /\ queue # <<>>
    BY <1>11 DEF DropDocument, ProcessInit, ProcessFull, ProcessConnect
  <2>2. queue' \in Seq(Items)
    BY <2>1, HeadTyped
  <2>3. \A i \in 1 .. Len(queue') : queue'[i].type \in {"init", "full", "diff"}
    BY <2>2, QueueTypes
  <2>4. CASE ProcessInit
    BY <1>0, <2>2, <2>3, <2>4 DEF ProcessInit, TypeOK, Shaped
  <2>5. CASE ProcessFull
    <3>1. map' \in [Vaps -> SUBSET Macs]
      BY <2>1, <2>5, HeadTyped DEF ProcessFull, Lists
    <3> QED
      BY <1>0, <2>2, <2>3, <2>5, <3>1 DEF ProcessFull, TypeOK, Shaped
  <2>6. CASE DropDocument
    <3>1. Head(queue).type = "diff" => Head(queue).mac \in Macs
      BY <2>1, HeadTyped DEF Diffs
    <3>2. stale' \subseteq Macs /\ unheard' \subseteq Macs
      BY <1>0, <2>6, <3>1 DEF DropDocument, TypeOK
    <3> QED
      BY <1>0, <2>2, <2>3, <2>6, <3>2 DEF DropDocument, TypeOK, Shaped
  <2>7. CASE ProcessConnect
    <3>1. Head(queue).mac \in Macs
      BY <2>1, <2>7, HeadTyped DEF Halfway, Diffs, ProcessConnect
    <3>2. AgentTyped'
      BY <1>0, <2>7, <3>1, TellTyped, AgentsTyped DEF ProcessConnect, AgentTyped
    <3>3. map' \in [Vaps -> SUBSET Macs]
      BY <1>0, <2>7, <3>1 DEF ProcessConnect, TypeOK
    <3> QED
      BY <1>0, <2>2, <2>3, <2>7, <3>2, <3>3 DEF ProcessConnect, AgentTyped, TypeOK, Shaped
  <2> QED
    BY <1>11, <2>4, <2>5, <2>6, <2>7
<1>9. CASE UNCHANGED vars
  BY <1>0, <1>9 DEF vars, TypeOK, Shaped
<1>12. ProcessConnect => queue # <<>>
  BY DEF ProcessConnect, Halfway
<1> QED
  BY <1>1, <1>2, <1>3, <1>4, <1>5, <1>6, <1>7, <1>8, <1>9, <1>10, <1>11, <1>12 DEF Next

LEMMA AppendHead ==
  ASSUME NEW S, NEW Q \in Seq(S), Q # <<>>, NEW e \in S
  PROVE  Append(Q, e) # <<>> /\ Head(Append(Q, e)) = Head(Q)
<1>1. Len(Q) \in Nat /\ Len(Q) > 0 /\ Head(Q) = Q[1]
  BY LenProperties, EmptySeq, HeadTailProperties
<1>2. Append(Q, e) \in Seq(S) /\ Append(Q, e) # <<>> /\ Append(Q, e)[1] = Q[1]
  BY <1>1, AppendProperties
<1> QED BY <1>2, HeadTailProperties

(* While a diff is in hand the queue is only appended to.                  *)
LEMMA QueueKept ==
  ASSUME Shaped, half, queue # <<>>, [Next]_vars, ~ProcessConnect, Head(queue) \in Diffs
  PROVE  half' /\ queue' # <<>> /\ Head(queue') = Head(queue)
<1>0. /\ queue \in Seq(Items) /\ bus \in Seq(Fulls \cup Diffs) /\ Fulls \cup Diffs \subseteq Items
      /\ Head(queue).type = "diff" /\ full \in Lists
  BY DEF Shaped, Items, Diffs, TypeOK, Lists
<1>1. CASE BusDelivers
  <2>1. Head(bus) \in Items
    BY <1>0, <1>1, HeadTailProperties DEF BusDelivers
  <2> QED BY <1>0, <1>1, <2>1, AppendHead DEF BusDelivers
<1>2. CASE InitGet
  <2>1. [type |-> "init"] \in Items
    BY DEF Items, InitItem
  <2> QED BY <1>0, <1>2, <2>1, AppendHead DEF InitGet
<1>3. CASE PushFull
  <2>1. [type |-> "full", list |-> full] \in Items
    BY <1>0, FullTyped
  <2> QED BY <1>0, <1>3, <2>1, AppendHead DEF PushFull
<1>4. CASE ~BusDelivers /\ ~InitGet /\ ~PushFull
  <2>1. UNCHANGED <<queue, half>>
    BY <1>0, <1>4 DEF Next, vars, StationMoves, FullPublished, AgentHello, OtherEmitFails,
       LateDelivery, Settle, InitWait, Subscribe, Get, DropDocument, ProcessInit, ProcessFull,
       ProcessDisconnect
  <2> QED BY <2>1
<1> QED BY <1>1, <1>2, <1>3, <1>4

LEMMA StepHalfway == Typed /\ [Next]_vars => Halfway'
<1> SUFFICES ASSUME Shaped, Halfway, [Next]_vars, half' PROVE queue' # <<>> /\ Head(queue') \in Diffs
  BY DEF Typed, Halfway, Diffs
<1>1. CASE half
  BY <1>1, QueueKept DEF Halfway, ProcessConnect
<1>2. CASE ~half
  <2>1. ProcessDisconnect
    BY <1>2 DEF Next, vars, StationMoves, FullPublished, BusDelivers, AgentHello, OtherEmitFails,
       LateDelivery, Settle, InitGet, InitWait, Subscribe, Get, PushFull, DropDocument,
       ProcessInit, ProcessFull, ProcessConnect
  <2> QED BY <2>1, HeadTyped DEF ProcessDisconnect
<1> QED BY <1>1, <1>2

LEMMA StepTyped == Typed /\ [Next]_vars => Typed'
  BY StepShaped, StepHalfway DEF Typed

(* The access point, the queue and the maps are of their types.            *)
THEOREM TypeCorrect == Spec => []TypeOK
<1>1. Typed => TypeOK
  BY DEF Typed, Shaped
<1> QED
  BY InitTyped, StepTyped, <1>1, PTL DEF Spec

-----------------------------------------------------------------------------
(* Initial data before subscriptions.                                      *)

WaitedFor ==
  /\ notified => initialised
  /\ mpc = "subscribe" \/ Subscribed => notified

LEMMA StepWaited == WaitedFor /\ [Next]_vars => WaitedFor'
<1> SUFFICES ASSUME WaitedFor, [Next]_vars PROVE WaitedFor'
  OBVIOUS
<1> USE DEF WaitedFor, Subscribed, envVars, mainVars, initVars
<1>1. CASE \E m \in Macs, to \in Vaps \cup {NoVap} : StationMoves(m, to)
  BY <1>1 DEF StationMoves
<1>2. CASE FullPublished \/ BusDelivers \/ AgentHello \/ OtherEmitFails \/ LateDelivery \/ Settle
  <2>1. UNCHANGED <<mpc, initialised, notified>>
    BY <1>2 DEF FullPublished, BusDelivers, AgentHello, OtherEmitFails, LateDelivery, Settle
  <2> QED BY <2>1
<1>3. CASE InitGet \/ InitWait \/ Subscribe \/ Get \/ PushFull
  BY <1>3 DEF InitGet, InitWait, Subscribe, Get, PushFull
<1>4. CASE DropDocument \/ ProcessInit \/ ProcessFull \/ ProcessDisconnect \/ ProcessConnect
  BY <1>4 DEF DropDocument, ProcessInit, ProcessFull, ProcessDisconnect, ProcessConnect
<1>5. CASE UNCHANGED vars
  BY <1>5 DEF vars
<1> QED
  BY <1>1, <1>2, <1>3, <1>4, <1>5 DEF Next

(* No subscription is made before the initial data is in the consumer's    *)
(* structures: misc_notification is written after they are filled, and the *)
(* initialising thread goes on only if it was.                             *)
THEOREM SubscribesLater == Spec => []InitialisedBeforeSubscribing
<1>1. Init => WaitedFor
  BY DEF Init, WaitedFor, Subscribed
<1>2. WaitedFor => InitialisedBeforeSubscribing
  BY DEF WaitedFor, InitialisedBeforeSubscribing
<1> QED
  BY <1>1, StepWaited, <1>2, PTL DEF Spec

-----------------------------------------------------------------------------
(* The maps.                                                               *)

(* The items that say something of m and v, those among them that say m is *)
(* at v, and the diffs.                                                    *)
Changing(m, v) == {e \in Diffs : e.mac = m /\ v \in {e.from, e.to}}
Touching(m, v) == Fulls \cup Changing(m, v)
Adding(m, v) == {e \in Fulls : m \in e.list[v]} \cup {e \in Diffs : e.mac = m /\ v = e.to}

(* The last item on the bus is right; without one, while the list that was *)
(* read is not pushed it is right, and then the last item in the queue,    *)
(* and without that the map.                                               *)
MapDecided(m, v) ==
  /\ Subscribed => Decides(bus, Touching(m, v), Adding(m, v), ap[m] = v)
  /\ mpc = "push" /\ m \notin stale /\ Free(bus, Changing(m, v)) => (m \in full[v] <=> ap[m] = v)
  /\ mpc = "done" /\ m \notin stale /\ Free(bus, Touching(m, v)) =>
       /\ Decides(queue, Touching(m, v), Adding(m, v), ap[m] = v)
       /\ Free(queue, Touching(m, v)) => (m \in map[v] <=> ap[m] = v)

MapsDecided ==
  /\ \A m \in Macs, v \in Vaps : MapDecided(m, v)
  /\ mpc \in {"init", "wait", "subscribe"} => bus = <<>>

(* Between the passes the station is out of the interface it left.         *)
LeftBehind ==
  half => \A v \in Vaps : v = Head(queue).from => Head(queue).mac \notin map[v]

LEMMA InitMaps == Init => MapsDecided /\ LeftBehind
  BY DEF Init, LeftBehind, MapsDecided, MapDecided, Subscribed

(* Lists and diffs are told apart.                                         *)
LEMMA Kinds ==
  ASSUME NEW m \in Macs, NEW v \in Vaps
  PROVE  /\ \A e \in Fulls : /\ e \in Touching(m, v) /\ e \notin Changing(m, v) /\ e.type = "full"
                             /\ e \in Adding(m, v) <=> m \in e.list[v]
         /\ \A e \in Diffs : /\ e \in Touching(m, v) <=> e.mac = m /\ v \in {e.from, e.to}
                             /\ e \in Changing(m, v) <=> e.mac = m /\ v \in {e.from, e.to}
                             /\ e \in Adding(m, v) <=> e.mac = m /\ v = e.to
                             /\ e.type = "diff"
         /\ InitItem \notin Touching(m, v)
<1>1. \A e \in Fulls : e.type = "full"
  BY DEF Fulls
<1>2. \A e \in Diffs : e.type = "diff"
  BY DEF Diffs
<1>3. InitItem.type = "init"
  BY DEF InitItem
<1> QED
  BY <1>1, <1>2, <1>3 DEF Touching, Changing, Adding

LEMMA StepLeft == Typed /\ LeftBehind /\ [Next]_vars => LeftBehind'
<1> SUFFICES ASSUME Typed, LeftBehind, [Next]_vars, half'
             PROVE  \A v \in Vaps : v = Head(queue').from => Head(queue').mac \notin map'[v]
  BY DEF LeftBehind
<1>1. CASE half
  <2>1. queue # <<>> /\ Head(queue) \in Diffs /\ Head(queue).type = "diff" /\ Shaped
    BY <1>1 DEF Typed, Halfway, Diffs
  <2>2. ~ProcessConnect
    BY DEF ProcessConnect
  <2>3. Head(queue') = Head(queue)
    BY <1>1, <2>1, <2>2, QueueKept
  <2>4. map' = map
    BY <1>1, <2>1, <2>2 DEF Next, vars, StationMoves, FullPublished, BusDelivers, AgentHello,
       OtherEmitFails, LateDelivery, Settle, InitGet, InitWait, Subscribe, Get, PushFull,
       DropDocument, ProcessInit, ProcessFull, ProcessDisconnect
  <2> QED BY <1>1, <2>3, <2>4 DEF LeftBehind
<1>2. CASE ~half
  <2>1. ProcessDisconnect
    BY <1>2 DEF Next, vars, StationMoves, FullPublished, BusDelivers, AgentHello, OtherEmitFails,
       LateDelivery, Settle, InitGet, InitWait, Subscribe, Get, PushFull, DropDocument,
       ProcessInit, ProcessFull, ProcessConnect
  <2> QED BY <2>1 DEF ProcessDisconnect
<1> QED BY <1>1, <1>2

LEMMA StepMaps == Typed /\ LeftBehind /\ MapsDecided /\ [Next]_vars => MapsDecided'
<1> SUFFICES ASSUME Typed, LeftBehind, MapsDecided, [Next]_vars PROVE MapsDecided'
  OBVIOUS
<1>0. /\ TypeOK /\ queue \in Seq(Items) /\ bus \in Seq(Fulls \cup Diffs)
      /\ Fulls \cup Diffs \subseteq Items
      /\ \A m \in Macs, v \in Vaps : MapDecided(m, v)
      /\ mpc \in {"init", "wait", "subscribe"} => bus = <<>>
  BY DEF Typed, Shaped, Items, MapsDecided
<1>1. mpc' \in {"init", "wait", "subscribe"} => bus' = <<>>
  BY <1>0 DEF Next, vars, StationMoves, FullPublished, BusDelivers, AgentHello, OtherEmitFails,
     LateDelivery, Settle, InitGet, InitWait, Subscribe, Get, PushFull, DropDocument, ProcessInit,
     ProcessFull, ProcessDisconnect, ProcessConnect, Subscribed, envVars, mainVars
<1> SUFFICES ASSUME NEW m \in Macs, NEW v \in Vaps PROVE MapDecided(m, v)'
  BY <1>1 DEF MapsDecided
<1> DEFINE T == Touching(m, v)
           C == Changing(m, v)
           A == Adding(m, v)
<1>2. MapDecided(m, v) /\ C \subseteq T
  BY <1>0 DEF Touching
<1>3. MapDecided(m, v)' <=>
        /\ mpc' \in {"get", "push", "done"} => Decides(bus', T, A, ap'[m] = v)
        /\ mpc' = "push" /\ m \notin stale' /\ Free(bus', C) => (m \in full'[v] <=> ap'[m] = v)
        /\ mpc' = "done" /\ m \notin stale' /\ Free(bus', T) =>
             /\ Decides(queue', T, A, ap'[m] = v)
             /\ Free(queue', T) => (m \in map'[v] <=> ap'[m] = v)
  BY DEF MapDecided, Subscribed, Free, Decides, Touching, Changing, Adding
<1>4. /\ mpc \in {"get", "push", "done"} => Decides(bus, T, A, ap[m] = v)
      /\ mpc = "push" /\ m \notin stale /\ Free(bus, C) => (m \in full[v] <=> ap[m] = v)
      /\ mpc = "done" /\ m \notin stale /\ Free(bus, T) =>
             /\ Decides(queue, T, A, ap[m] = v)
             /\ Free(queue, T) => (m \in map[v] <=> ap[m] = v)
  BY <1>2 DEF MapDecided, Subscribed
<1>5. \A q : Free(q, T) => Free(q, C)
  BY <1>2 DEF Free
<1>6. ASSUME NEW n \in Macs, NEW to \in Vaps \cup {NoVap}, StationMoves(n, to) PROVE MapDecided(m, v)'
  <2> DEFINE e == Diff(n, ap[n], to)
  <2>1. /\ UNCHANGED <<mpc, full, queue, map, stale>>
        /\ bus' = IF mpc \in {"get", "push", "done"} THEN Append(bus, e) ELSE bus
        /\ ap[n] \in Vaps \cup {NoVap} /\ ap[n] # to
        /\ ap'[m] = IF m = n THEN to ELSE ap[m]
    BY <1>0, <1>6 DEF StationMoves, Subscribed, TypeOK, mainVars
  <2>2. /\ e \in Diffs
        /\ e.mac = n /\ e.from = ap[n] /\ e.to = to
    BY <2>1, DiffFacts
  <2> HIDE DEF e
  <2>3. CASE mpc \notin {"get", "push", "done"}
    BY <1>3, <2>1, <2>3
  <2>4. CASE mpc \in {"get", "push", "done"} /\ e \in C
    <3>1. e \in T /\ (e \in A <=> ap'[m] = v)
      BY <1>2, <2>1, <2>2, <2>4, Kinds
    <3>2. Decides(bus', T, A, ap'[m] = v) /\ ~Free(bus', T) /\ ~Free(bus', C)
      BY <1>0, <2>1, <2>2, <2>4, <3>1, AppendIn
    <3> QED
      BY <1>3, <2>1, <3>2
  <2>5. CASE mpc \in {"get", "push", "done"} /\ e \notin C
    <3>1. e \notin T /\ (ap'[m] = v <=> ap[m] = v)
      BY <2>1, <2>2, <2>5, Kinds
    <3>2. /\ Decides(bus, T, A, ap[m] = v) => Decides(bus', T, A, ap[m] = v)
          /\ Free(bus', T) <=> Free(bus, T)
          /\ Free(bus', C) <=> Free(bus, C)
      <4>1. /\ bus \in Seq(Fulls \cup Diffs) /\ bus' = Append(bus, e) /\ e \in Fulls \cup Diffs
            /\ e \notin T /\ e \notin C
        BY <1>0, <2>1, <2>2, <2>5, <3>1
      <4> HIDE DEF T, C, A
      <4> QED BY <4>1, AppendOut
    <3>3. /\ Decides(bus', T, A, ap[m] = v) => Decides(bus', T, A, ap'[m] = v)
          /\ Decides(queue, T, A, ap[m] = v) => Decides(queue, T, A, ap'[m] = v)
      BY <3>1 DEF Decides
    <3> QED
      BY <1>3, <1>4, <2>1, <2>5, <3>1, <3>2, <3>3
  <2> QED
    BY <2>3, <2>4, <2>5
<1>7. CASE FullPublished
  <2> DEFINE e == [type |-> "full", list |-> Snapshot]
  <2>1. e \in Fulls /\ e.list = Snapshot
    BY SnapshotTyped, FullTyped
  <2>2. /\ UNCHANGED <<ap, mpc, full, queue, map>> /\ bus' = Append(bus, e)
        /\ mpc = "push" => stale' = stale
    BY <1>7 DEF FullPublished, mainVars
  <2> HIDE DEF e
  <2>3. e \in Fulls \cup Diffs /\ (m \in e.list[v] <=> ap[m] = v)
    BY <2>1 DEF Snapshot
  <2>4. e \in T /\ e \notin C /\ (e \in A <=> ap[m] = v)
    BY <2>1, <2>3, Kinds
  <2>5. Decides(bus', T, A, ap[m] = v) /\ ~Free(bus', T)
    <3>1. bus \in Seq(Fulls \cup Diffs) /\ bus' = Append(bus, e)
      BY <1>0, <2>2
    <3> QED
      BY <2>3, <2>4, <3>1, AppendIn
  <2>6. Free(bus', C) <=> Free(bus, C)
    <3>1. bus \in Seq(Fulls \cup Diffs) /\ bus' = Append(bus, e)
      BY <1>0, <2>2
    <3> QED
      BY <2>3, <2>4, <3>1, AppendOut
  <2> QED
    BY <1>3, <1>4, <2>2, <2>5, <2>6
<1>8. CASE BusDelivers
  <2> DEFINE e == Head(bus)
  <2>1. /\ UNCHANGED <<ap, mpc, full, map>> /\ bus # <<>> /\ bus' = Tail(bus)
        /\ queue' = Append(queue, e) /\ e \in Fulls \cup Diffs
        /\ stale \subseteq stale'
    BY <1>0, <1>8, HeadTailProperties DEF BusDelivers, mainVars
  <2>2. /\ Free(bus, T) <=> e \notin T /\ Free(bus', T)
        /\ Free(bus, C) <=> e \notin C /\ Free(bus', C)
        /\ Decides(bus, T, A, ap[m] = v) =>
             /\ Decides(bus', T, A, ap[m] = v)
             /\ e \in T /\ Free(bus', T) => (e \in A <=> ap[m] = v)
    BY <1>0, <2>1, TailOf
  <2>3. mpc = "push" /\ e \in C => m \in stale'
    <3>1. e \in C => e.type = "diff" /\ e.mac = m
      BY Kinds DEF Changing
    <3> QED
      BY <1>8, <3>1 DEF BusDelivers
  <2>4. mpc = "done" /\ e \in T /\ Free(bus', T) => Decides(queue', T, A, ap[m] = v) /\ ~Free(queue', T)
    BY <1>0, <1>4, <2>1, <2>2, AppendIn
  <2>5. e \notin T => /\ Decides(queue, T, A, ap[m] = v) => Decides(queue', T, A, ap[m] = v)
                      /\ Free(queue', T) <=> Free(queue, T)
    BY <1>0, <2>1, AppendOut
  <2> HIDE DEF e
  <2> QED
    BY <1>3, <1>4, <2>1, <2>2, <2>3, <2>4, <2>5
<1>9. CASE AgentHello \/ OtherEmitFails \/ LateDelivery \/ Settle
  BY <1>3, <1>4, <1>9 DEF AgentHello, OtherEmitFails, LateDelivery, Settle, envVars, mainVars
<1>10. CASE InitGet \/ InitWait
  BY <1>3, <1>10 DEF InitGet, InitWait
<1>11. CASE Subscribe
  <2>1. bus' = <<>> /\ mpc' \notin {"push", "done"}
    BY <1>0, <1>11 DEF Subscribe, envVars
  <2> QED
    BY <1>3, <2>1, EmptyDecides
<1>12. CASE Get
  <2>1. UNCHANGED <<ap, bus>> /\ mpc = "get" /\ mpc' \in {"push", "failed"} /\ full' = Snapshot
    BY <1>12 DEF Get, envVars
  <2>2. m \in full'[v] <=> ap[m] = v
    BY <2>1 DEF Snapshot
  <2> QED
    BY <1>3, <1>4, <2>1, <2>2
<1>13. CASE PushFull
  <2> DEFINE e == [type |-> "full", list |-> full]
  <2>1. UNCHANGED <<ap, bus, full, map, stale>> /\ mpc = "push" /\ mpc' = "done" /\ queue' = Append(queue, e)
    BY <1>13 DEF PushFull, envVars
  <2>2. e \in Fulls /\ e.list = full
    BY <1>0, FullTyped DEF TypeOK, Lists
  <2>3. e \in T /\ (e \in A <=> m \in full[v])
    BY <2>2, Kinds
  <2> HIDE DEF e
  <2>4. ~Free(queue', T) /\ ((e \in A <=> ap[m] = v) => Decides(queue', T, A, ap[m] = v))
    BY <1>0, <2>1, <2>2, <2>3, AppendIn
  <2> QED
    BY <1>3, <1>4, <1>5, <2>1, <2>3, <2>4
<1>14. CASE ProcessDisconnect
  <2> DEFINE e == Head(queue)
  <2>1. /\ UNCHANGED <<ap, mpc, full, bus, stale, queue>> /\ queue # <<>> /\ e \in Diffs
        /\ map' = [w \in Vaps |-> IF w = e.from THEN map[w] \ {e.mac} ELSE map[w]]
    BY <1>14, HeadTyped DEF ProcessDisconnect, Typed, envVars, mainVars
  <2>2. Free(queue, T) => e \notin T
    BY <1>0, <2>1, TailOf
  <2>3. e \notin T => (m \in map'[v] <=> m \in map[v])
    BY <2>1, Kinds
  <2> HIDE DEF e
  <2> QED
    BY <1>3, <1>4, <2>1, <2>2, <2>3
<1>16. CASE DropDocument \/ ProcessInit \/ ProcessFull \/ ProcessConnect
  <2> DEFINE e == Head(queue)
  <2>1. /\ UNCHANGED <<ap, mpc, full, bus>> /\ queue' = Tail(queue) /\ queue # <<>>
        /\ Shaped /\ stale \subseteq stale'
    BY <1>0, <1>16 DEF DropDocument, ProcessInit, ProcessFull, ProcessConnect, Halfway, Typed,
       TypeOK, envVars, mainVars
  <2>2. /\ Free(queue, T) <=> e \notin T /\ Free(queue', T)
        /\ Decides(queue, T, A, ap[m] = v) =>
             /\ Decides(queue', T, A, ap[m] = v)
             /\ e \in T /\ Free(queue', T) => (e \in A <=> ap[m] = v)
    BY <1>0, <2>1, TailOf
  <2>3. m \notin stale' => (m \in map'[v] <=> IF e \in T THEN e \in A ELSE m \in map[v])
    <3>1. CASE ProcessInit
      <4>1. e \in Items /\ e.type = "init"
        BY <2>1, <3>1, HeadTyped DEF ProcessInit
      <4>2. e \notin T
        BY <4>1 DEF Touching, Changing, Fulls, Diffs
      <4> QED
        BY <3>1, <4>2 DEF ProcessInit
    <3>2. CASE ProcessFull
      <4>1. e \in Fulls /\ map' = e.list
        BY <2>1, <3>2, HeadTyped DEF ProcessFull
      <4> QED
        BY <4>1, Kinds
    <3>3. CASE ProcessConnect
      <4>1. /\ e \in Diffs /\ (v = e.from => e.mac \notin map[v])
            /\ map' = [w \in Vaps |-> IF w = e.to THEN map[w] \cup {e.mac} ELSE map[w]]
        BY <3>3 DEF ProcessConnect, Typed, Halfway, LeftBehind
      <4>2. m \in map'[v] <=> m \in map[v] \/ (m = e.mac /\ v = e.to)
        BY <4>1
      <4> QED
        BY <4>1, <4>2, Kinds
    <3>4. CASE DropDocument
      <4>1. m \notin stale' => e \notin T
        <5>1. CASE e.type = "init"
          BY <5>1 DEF Touching, Changing, Fulls, Diffs
        <5>2. CASE e.type = "full"
          BY <3>4, <5>2 DEF DropDocument
        <5>3. CASE e.type = "diff"
          <6>1. e \in Diffs /\ e.mac \in stale'
            BY <2>1, <3>4, <5>3, HeadTyped DEF DropDocument
          <6> QED BY <6>1, Kinds
        <5> QED BY <3>4, <5>1, <5>2, <5>3 DEF DropDocument
      <4> QED
        BY <3>4, <4>1 DEF DropDocument
    <3> QED
      BY <1>16, <3>1, <3>2, <3>3, <3>4
  <2> HIDE DEF e
  <2> QED
    BY <1>3, <1>4, <2>1, <2>2, <2>3
<1>15. CASE UNCHANGED vars
  BY <1>3, <1>4, <1>15 DEF vars, envVars, mainVars
<1> QED
  BY <1>6, <1>7, <1>8, <1>9, <1>10, <1>11, <1>12, <1>13, <1>14, <1>15, <1>16 DEF Next

(* Once everything is processed the maps agree with the access point,      *)
(* whatever changed meanwhile, however diffs, published lists and the list *)
(* that was read are interleaved and whichever emits failed, but for       *)
(* stations whose diff was queued between the answer to rbus_getStr and    *)
(* the push of its list, or of which a document was dropped.               *)
THEOREM MapsFollowAp == Spec => []MapsFollow
<1>1. MapsDecided => MapsFollow
  <2> SUFFICES ASSUME MapsDecided, Settled, NEW m \in Macs \ stale, NEW v \in Vaps
               PROVE  m \in map[v] <=> ap[m] = v
    BY DEF MapsFollow
  <2>1. MapDecided(m, v) /\ Free(bus, Touching(m, v)) /\ Free(queue, Touching(m, v))
    BY EmptyDecides DEF MapsDecided, Settled
  <2> QED
    BY <2>1 DEF MapDecided, Settled
<1> QED
  BY InitTyped, StepTyped, InitMaps, StepLeft, StepMaps, <1>1, PTL DEF Spec

-----------------------------------------------------------------------------
(* What the agent was told.                                                *)

(* The diffs that name m, and those among them that say m joined.          *)
Moved(m) == {e \in Diffs : e.mac = m}
Joining(m) == {e \in Diffs : e.mac = m /\ e.to # NoVap}

(* The last diff of m on the bus says whether m is associated; without one *)
(* the last in the queue does, and without that what the agent heard last, *)
(* unless no emit on a clean channel has reported it.                      *)
AgentDecided(m) ==
  /\ Subscribed => Decides(bus, Moved(m), Joining(m), ap[m] # NoVap)
  /\ Subscribed /\ Free(bus, Moved(m)) =>
       /\ Decides(queue, Moved(m), Joining(m), ap[m] # NoVap)
       /\ Free(queue, Moved(m)) /\ m \notin unheard /\ heard[m] # "nothing" =>
            (heard[m] = "connected" <=> ap[m] # NoVap)

(* Before the subscription there is no diff, and nothing was told.         *)
BeforeDiffs ==
  mpc \in {"init", "wait", "subscribe"} =>
    /\ bus = <<>> /\ Free(queue, Diffs) /\ underway = {}
    /\ \A m \in Macs : heard[m] = "nothing"

LEMMA InitBefore == Init => BeforeDiffs
  BY EmptyDecides DEF Init, BeforeDiffs

LEMMA StepBefore == Typed /\ BeforeDiffs /\ [Next]_vars => BeforeDiffs'
<1> SUFFICES ASSUME Typed, BeforeDiffs, [Next]_vars, mpc' \in {"init", "wait", "subscribe"}
             PROVE  /\ bus' = <<>> /\ Free(queue', Diffs) /\ underway' = {}
                    /\ \A m \in Macs : heard'[m] = "nothing"
  BY DEF BeforeDiffs, Free, Diffs
<1>0. queue \in Seq(Items) /\ Shaped
  BY DEF Typed, Shaped
<1>1. mpc \in {"init", "wait", "subscribe"}
  BY DEF Next, vars, StationMoves, FullPublished, BusDelivers, AgentHello, OtherEmitFails,
     LateDelivery, Settle, InitGet, InitWait, Subscribe, Get, PushFull, DropDocument, ProcessInit,
     ProcessFull, ProcessDisconnect, ProcessConnect, Subscribed, envVars, mainVars
<1>2. /\ bus = <<>> /\ Free(queue, Diffs) /\ underway = {}
      /\ \A m \in Macs : heard[m] = "nothing"
  BY <1>1 DEF BeforeDiffs
<1> USE DEF envVars, mainVars, agentVars
<1>3. CASE \E m \in Macs, to \in Vaps \cup {NoVap} : StationMoves(m, to)
  BY <1>1, <1>2, <1>3 DEF StationMoves, Subscribed
<1>4. CASE FullPublished \/ BusDelivers \/ Get \/ PushFull
  BY <1>1, <1>2, <1>4 DEF FullPublished, BusDelivers, Get, PushFull, Subscribed
<1>5. CASE AgentHello \/ OtherEmitFails \/ LateDelivery \/ Settle \/ InitWait \/ Subscribe
  BY <1>2, <1>5 DEF AgentHello, OtherEmitFails, LateDelivery, Settle, InitWait, Subscribe
<1>6. CASE InitGet
  <2>1. InitItem \in Items /\ InitItem \notin Diffs
    BY DEF Items, InitItem, Diffs
  <2>2. Free(Append(queue, InitItem), Diffs)
    BY <1>0, <1>2, <2>1, AppendOut
  <2> QED
    BY <1>2, <1>6, <2>2 DEF InitGet, InitItem
<1>7. CASE DropDocument \/ ProcessInit \/ ProcessFull \/ ProcessDisconnect \/ ProcessConnect
  <2>1. queue # <<>> /\ bus' = bus
    BY <1>7 DEF DropDocument, ProcessInit, ProcessFull, ProcessDisconnect, ProcessConnect, Typed,
       Halfway
  <2>2. Head(queue) \notin Diffs /\ Free(Tail(queue), Diffs)
    BY <1>0, <1>2, <2>1, TailOf
  <2>3. ~ProcessDisconnect /\ ~ProcessConnect
    BY <1>0, <2>1, <2>2, HeadTyped DEF ProcessDisconnect, ProcessConnect, Typed, Halfway
  <2> QED
    BY <1>2, <1>7, <2>1, <2>2, <2>3 DEF DropDocument, ProcessInit, ProcessFull
<1>8. CASE UNCHANGED vars
  BY <1>2, <1>8 DEF vars
<1> QED
  BY <1>3, <1>4, <1>5, <1>6, <1>7, <1>8 DEF Next

(* What is left under way is of stations that count as not told; and       *)
(* between the passes over a diff of a station that left for good, the     *)
(* agent has heard so or the station counts as not told.                   *)
Accounted ==
  /\ clean => underway = {}
  /\ \A x \in underway : x.mac \in unheard
  /\ half /\ Head(queue).to = NoVap /\ Head(queue).mac \notin unheard =>
       heard[Head(queue).mac] = "disconnected"

(* What telling the agent of one station does: it is of that station only, *)
(* and unless the station counts as not told, the agent has it.            *)
LEMMA TellFacts ==
  ASSUME AgentTyped, clean => underway = {}, \A x \in underway : x.mac \in unheard,
         NEW m \in Macs, NEW state \in {"connected", "disconnected"}, Tell(m, state)
  PROVE  /\ \A n \in Macs : n # m => heard'[n] = heard[n] /\ (n \in unheard' <=> n \in unheard)
         /\ m \notin unheard' => heard'[m] = state
         /\ clean' => underway' = {}
         /\ \A x \in underway' : x.mac \in unheard'
<1>1. CASE ~comms_ready
  <2>1. unheard' = unheard \cup {m} /\ UNCHANGED <<heard, clean, underway>>
    BY <1>1 DEF Tell
  <2> QED BY <2>1
<1>2. CASE comms_ready
  <2>1. PICK ok \in BOOLEAN, told \in BOOLEAN, left \in BOOLEAN :
          /\ clean /\ ok => told /\ ~left
          /\ heard' = IF told THEN [heard EXCEPT ![m] = state] ELSE heard
          /\ unheard' = IF clean /\ ok THEN unheard \ {m} ELSE unheard \cup {m}
          /\ underway' = IF left THEN underway \cup {[mac |-> m, state |-> state]} ELSE underway
          /\ clean' \in {clean, FALSE}
          /\ left => ~clean'
    BY <1>2 DEF Tell
  <2>2. /\ \A n \in Macs : n # m => heard'[n] = heard[n] /\ (n \in unheard' <=> n \in unheard)
        /\ m \notin unheard' => heard'[m] = state
    BY <2>1 DEF AgentTyped
  <2>3. clean' => underway' = {}
    BY <2>1
  <2>4. \A x \in underway' : x.mac \in unheard'
    <3>1. CASE clean /\ ok
      BY <2>1, <3>1
    <3>2. CASE ~(clean /\ ok)
      BY <2>1, <3>2
    <3> QED BY <3>1, <3>2
  <2> QED BY <2>2, <2>3, <2>4
<1> QED BY <1>1, <1>2

LEMMA StepAccounted == Typed /\ Accounted /\ [Next]_vars => Accounted'
<1> SUFFICES ASSUME Typed, Accounted, [Next]_vars PROVE Accounted'
  OBVIOUS
<1>0. Shaped /\ Halfway /\ AgentTyped /\ TypeOK
  BY AgentsTyped DEF Typed, Shaped
<1> USE DEF agentVars
<1>1. ASSUME queue # <<>>, Head(queue) \in Diffs,
             ProcessDisconnect \/ ProcessConnect
      PROVE  Accounted'
  <2> DEFINE e == Head(queue)
  <2>1. e.mac \in Macs /\ e.from # e.to
    BY <1>1 DEF Diffs
  <2>2. CASE ProcessDisconnect
    <3>1. queue' = queue
      BY <2>2 DEF ProcessDisconnect
    <3>2. CASE e.from = NoVap
      BY <2>1, <2>2, <3>1, <3>2 DEF ProcessDisconnect, Accounted
    <3>3. CASE e.from # NoVap
      <4>1. Tell(e.mac, "disconnected")
        BY <2>2, <3>3 DEF ProcessDisconnect
      <4> HIDE DEF e
      <4>2. /\ e.mac \notin unheard' => heard'[e.mac] = "disconnected"
            /\ clean' => underway' = {}
            /\ \A x \in underway' : x.mac \in unheard'
        BY <1>0, <2>1, <4>1, TellFacts DEF Accounted
      <4> QED BY <3>1, <4>2 DEF Accounted, e
    <3> QED BY <3>2, <3>3
  <2>3. CASE ProcessConnect
    <3>1. ~half'
      BY <2>3 DEF ProcessConnect
    <3>2. CASE e.to = NoVap
      BY <2>3, <3>1, <3>2 DEF ProcessConnect, Accounted
    <3>3. CASE e.to # NoVap
      <4>1. Tell(e.mac, "connected")
        BY <2>3, <3>3 DEF ProcessConnect
      <4> HIDE DEF e
      <4>2. /\ clean' => underway' = {}
            /\ \A x \in underway' : x.mac \in unheard'
        BY <1>0, <2>1, <4>1, TellFacts DEF Accounted
      <4> QED BY <3>1, <4>2 DEF Accounted
    <3> QED BY <3>2, <3>3
  <2> QED BY <1>1, <2>2, <2>3
<1>2. CASE ProcessDisconnect \/ ProcessConnect
  BY <1>0, <1>1, <1>2, HeadTyped DEF ProcessDisconnect, ProcessConnect, Halfway
<1>3. ASSUME half' => half /\ Head(queue') = Head(queue)
      PROVE  ~ProcessDisconnect /\ ~ProcessConnect => Accounted'
  <2>1. CASE UNCHANGED agentVars
    BY <1>3, <2>1 DEF Accounted
  <2>2. CASE LateDelivery
    <3>1. PICK x \in underway : heard' = [heard EXCEPT ![x.mac] = x.state]
      BY <2>2 DEF LateDelivery
    <3>2. x.mac \in unheard /\ UNCHANGED <<unheard, clean, underway>>
      BY <2>2, <3>1 DEF LateDelivery, Accounted
    <3>3. \A n \in Macs \ unheard : heard'[n] = heard[n]
      BY <1>0, <3>1, <3>2 DEF AgentTyped
    <3>4. half => Head(queue).mac \in Macs
      BY <1>0 DEF Halfway, Diffs
    <3> QED BY <1>3, <3>2, <3>3, <3>4 DEF Accounted
  <2>3. CASE AgentHello \/ OtherEmitFails \/ Settle
    <3>1. /\ UNCHANGED <<heard, unheard>> /\ underway' \subseteq underway
          /\ clean' => clean \/ underway' = {}
      <4>1. CASE AgentHello
        BY <4>1 DEF AgentHello
      <4>2. CASE OtherEmitFails
        <5>1. UNCHANGED <<heard, unheard, underway>> /\ clean' \in {clean, FALSE}
          BY <4>2 DEF OtherEmitFails
        <5>2. clean' => clean
          BY <5>1, Zenon
        <5> QED BY <5>1, <5>2
      <4>3. CASE Settle
        BY <4>3 DEF Settle
      <4> QED BY <2>3, <4>1, <4>2, <4>3
    <3> QED BY <1>3, <3>1 DEF Accounted
  <2>4. CASE DropDocument
    <3>1. UNCHANGED <<heard, clean, underway>> /\ unheard \subseteq unheard' /\ ~half
      BY <2>4 DEF DropDocument
    <3> QED BY <1>3, <3>1 DEF Accounted
  <2>5. ASSUME ~LateDelivery, ~AgentHello, ~OtherEmitFails, ~Settle, ~DropDocument,
               ~ProcessDisconnect, ~ProcessConnect
        PROVE  UNCHANGED agentVars
    BY <2>5 DEF Next, vars, StationMoves, FullPublished, BusDelivers, InitGet, InitWait,
       Subscribe, Get, PushFull, ProcessInit, ProcessFull
  <2> QED BY <2>1, <2>2, <2>3, <2>4, <2>5
<1>4. ~ProcessDisconnect => (half' => half)
  BY DEF Next, vars, StationMoves, FullPublished, BusDelivers, AgentHello, OtherEmitFails,
     LateDelivery, Settle, InitGet, InitWait, Subscribe, Get, PushFull, DropDocument,
     ProcessInit, ProcessFull, ProcessConnect
<1>5. half /\ ~ProcessConnect => Head(queue') = Head(queue)
  BY <1>0, QueueKept DEF Halfway
<1> QED BY <1>2, <1>3, <1>4, <1>5

(* What a move says: its diff names the station that moved and no other,   *)
(* and says it joined unless it left for good.                             *)
LEMMA MoveNames ==
  ASSUME NEW m \in Macs, NEW n \in Macs, NEW from \in Vaps \cup {NoVap}, NEW to \in Vaps \cup {NoVap},
         from # to
  PROVE  /\ Diff(n, from, to) \in Moved(m) <=> m = n
         /\ Diff(n, from, to) \in Joining(m) <=> m = n /\ to # NoVap
  BY DiffFacts DEF Moved, Joining

AgentsDecided == \A m \in Macs : AgentDecided(m)

LEMMA StepAgents ==
  Typed /\ BeforeDiffs /\ Accounted /\ AgentsDecided /\ [Next]_vars => AgentsDecided'
<1> SUFFICES ASSUME Typed, BeforeDiffs, Accounted, AgentsDecided, [Next]_vars, NEW m \in Macs PROVE AgentDecided(m)'
  BY DEF AgentsDecided
<1>0. /\ TypeOK /\ queue \in Seq(Items) /\ bus \in Seq(Fulls \cup Diffs)
      /\ Fulls \cup Diffs \subseteq Items /\ AgentDecided(m)
  BY DEF Typed, Shaped, Items, AgentsDecided
<1> DEFINE T == Moved(m)
           J == Joining(m)
<1>1. T \subseteq Diffs
  BY DEF Moved
<1>2. AgentDecided(m)' <=>
        /\ mpc' \in {"get", "push", "done"} => Decides(bus', T, J, ap'[m] # NoVap)
        /\ mpc' \in {"get", "push", "done"} /\ Free(bus', T) =>
             /\ Decides(queue', T, J, ap'[m] # NoVap)
             /\ Free(queue', T) /\ m \notin unheard' /\ heard'[m] # "nothing" =>
                  (heard'[m] = "connected" <=> ap'[m] # NoVap)
  BY DEF AgentDecided, Subscribed, Free, Decides, Moved, Joining
<1>3. /\ mpc \in {"get", "push", "done"} => Decides(bus, T, J, ap[m] # NoVap)
      /\ mpc \in {"get", "push", "done"} /\ Free(bus, T) =>
             /\ Decides(queue, T, J, ap[m] # NoVap)
             /\ Free(queue, T) /\ m \notin unheard /\ heard[m] # "nothing" =>
                  (heard[m] = "connected" <=> ap[m] # NoVap)
  BY <1>0 DEF AgentDecided, Subscribed
<1>4. ASSUME NEW n \in Macs, NEW to \in Vaps \cup {NoVap}, StationMoves(n, to) PROVE AgentDecided(m)'
  <2> DEFINE e == Diff(n, ap[n], to)
  <2>1. /\ UNCHANGED <<mpc, queue, heard, unheard>>
        /\ bus' = IF mpc \in {"get", "push", "done"} THEN Append(bus, e) ELSE bus
        /\ ap[n] \in Vaps \cup {NoVap} /\ ap[n] # to
        /\ ap'[m] = IF m = n THEN to ELSE ap[m]
    BY <1>0, <1>4 DEF StationMoves, Subscribed, TypeOK, mainVars, agentVars
  <2>2. e \in Diffs
    BY <2>1, DiffFacts
  <2>3. /\ e \in T <=> m = n
        /\ e \in J <=> m = n /\ to # NoVap
    BY <2>1, MoveNames
  <2> HIDE DEF e
  <2>4. CASE mpc \notin {"get", "push", "done"}
    BY <1>2, <2>1, <2>4
  <2>5. CASE mpc \in {"get", "push", "done"} /\ m = n
    <3>1. e \in T /\ (e \in J <=> ap'[m] # NoVap)
      BY <2>1, <2>3, <2>5
    <3>2. Decides(bus', T, J, ap'[m] # NoVap) /\ ~Free(bus', T)
      BY <1>0, <2>1, <2>2, <2>5, <3>1, AppendIn
    <3> QED
      BY <1>2, <3>2
  <2>6. CASE mpc \in {"get", "push", "done"} /\ m # n
    <3>1. e \notin T /\ ap'[m] = ap[m]
      BY <2>1, <2>3, <2>6
    <3>2. /\ Decides(bus, T, J, ap[m] # NoVap) => Decides(bus', T, J, ap[m] # NoVap)
          /\ Free(bus', T) <=> Free(bus, T)
      BY <1>0, <2>1, <2>2, <2>6, <3>1, AppendOut
    <3> QED
      BY <1>2, <1>3, <2>1, <2>6, <3>1, <3>2
  <2> QED
    BY <2>4, <2>5, <2>6
<1>5. CASE FullPublished
  <2> DEFINE e == [type |-> "full", list |-> Snapshot]
  <2>1. e \in Fulls \cup Diffs /\ e \notin T
    BY <1>1, SnapshotTyped, FullTyped DEF Diffs
  <2>2. UNCHANGED <<ap, mpc, queue, heard, unheard>> /\ bus' = Append(bus, e)
    BY <1>5 DEF FullPublished, mainVars, agentVars
  <2> HIDE DEF e
  <2>3. /\ Decides(bus, T, J, ap[m] # NoVap) => Decides(bus', T, J, ap[m] # NoVap)
        /\ Free(bus', T) <=> Free(bus, T)
    <3>1. bus \in Seq(Fulls \cup Diffs) /\ bus' = Append(bus, e)
      BY <1>0, <2>2
    <3> QED
      BY <2>1, <3>1, AppendOut
  <2> QED
    BY <1>2, <1>3, <2>2, <2>3
<1>6. CASE BusDelivers
  <2> DEFINE e == Head(bus)
  <2>1. /\ UNCHANGED <<ap, mpc, heard, unheard>> /\ bus # <<>> /\ bus' = Tail(bus)
        /\ queue' = Append(queue, e) /\ e \in Fulls \cup Diffs
    BY <1>0, <1>6, HeadTailProperties DEF BusDelivers, mainVars, agentVars
  <2>2. /\ Free(bus, T) <=> e \notin T /\ Free(bus', T)
        /\ Decides(bus, T, J, ap[m] # NoVap) =>
             /\ Decides(bus', T, J, ap[m] # NoVap)
             /\ e \in T /\ Free(bus', T) => (e \in J <=> ap[m] # NoVap)
    BY <1>0, <2>1, TailOf
  <2>3. mpc \in {"get", "push", "done"} /\ e \in T /\ Free(bus', T) =>
          Decides(queue', T, J, ap[m] # NoVap) /\ ~Free(queue', T)
    BY <1>0, <1>3, <2>1, <2>2, AppendIn
  <2>4. e \notin T => /\ Decides(queue, T, J, ap[m] # NoVap) => Decides(queue', T, J, ap[m] # NoVap)
                      /\ Free(queue', T) <=> Free(queue, T)
    BY <1>0, <2>1, AppendOut
  <2> HIDE DEF e
  <2> QED
    BY <1>2, <1>3, <2>1, <2>2, <2>3, <2>4
<1>7. CASE AgentHello \/ OtherEmitFails \/ Settle \/ Get
  BY <1>2, <1>3, <1>7 DEF AgentHello, OtherEmitFails, Settle, Get, envVars, mainVars, agentVars
<1>13. CASE LateDelivery
  <2>1. PICK x \in underway : heard' = [heard EXCEPT ![x.mac] = x.state]
    BY <1>13 DEF LateDelivery
  <2>2. m \notin unheard => heard'[m] = heard[m]
    BY <1>0, <2>1 DEF Accounted, TypeOK
  <2>3. UNCHANGED <<ap, bus, mpc, queue, unheard>>
    BY <1>13 DEF LateDelivery, envVars, mainVars
  <2> QED BY <1>2, <1>3, <2>2, <2>3
<1>8. CASE InitGet \/ InitWait
  BY <1>2, <1>8 DEF InitGet, InitWait
<1>9. CASE Subscribe
  <2>1. bus' = <<>> /\ Free(queue, Diffs) /\ heard[m] = "nothing" /\ UNCHANGED <<queue, heard>>
    BY <1>9 DEF Subscribe, BeforeDiffs, envVars, agentVars
  <2>2. Free(queue, T)
    BY <1>1, <2>1 DEF Free
  <2>3. Decides(queue', T, J, ap'[m] # NoVap) /\ Decides(bus', T, J, ap'[m] # NoVap)
    BY <2>1, <2>2, EmptyDecides, FreeDecides
  <2> QED
    BY <1>2, <2>1, <2>3
<1>10. CASE PushFull
  <2> DEFINE e == [type |-> "full", list |-> full]
  <2>1. UNCHANGED <<ap, bus, heard, unheard>> /\ mpc = "push" /\ mpc' = "done" /\ queue' = Append(queue, e)
    BY <1>10 DEF PushFull, envVars, agentVars
  <2>2. e \in Fulls
    BY <1>0, FullTyped DEF TypeOK, Lists
  <2>3. e \in Items /\ e \notin T
    BY <1>0, <1>1, <2>2 DEF Fulls, Diffs
  <2> HIDE DEF e
  <2>4. /\ Decides(queue, T, J, ap[m] # NoVap) => Decides(queue', T, J, ap[m] # NoVap)
        /\ Free(queue', T) <=> Free(queue, T)
    BY <1>0, <2>1, <2>3, AppendOut
  <2> QED
    BY <1>2, <1>3, <2>1, <2>4
<1>11. CASE DropDocument \/ ProcessInit \/ ProcessFull \/ ProcessConnect
  <2> DEFINE e == Head(queue)
  <2>1. UNCHANGED <<ap, mpc, bus>> /\ queue' = Tail(queue) /\ queue # <<>> /\ Shaped
    BY <1>11 DEF DropDocument, ProcessInit, ProcessFull, ProcessConnect, Halfway, Typed, envVars,
       mainVars
  <2>2. /\ Free(queue, T) <=> e \notin T /\ Free(queue', T)
        /\ Decides(queue, T, J, ap[m] # NoVap) =>
             /\ Decides(queue', T, J, ap[m] # NoVap)
             /\ e \in T /\ Free(queue', T) => (e \in J <=> ap[m] # NoVap)
    BY <1>0, <2>1, TailOf
  <2>3. /\ e \notin T => heard'[m] = heard[m] /\ (m \in unheard' <=> m \in unheard)
        /\ e \in T /\ m \notin unheard' => (heard'[m] = "connected" <=> e \in J)
    <3>1. CASE ProcessInit \/ ProcessFull
      <4>1. e.type # "diff" /\ UNCHANGED <<heard, unheard>>
        BY <3>1 DEF ProcessInit, ProcessFull, agentVars
      <4>2. e \notin T
        BY <1>1, <4>1 DEF Diffs
      <4> QED
        BY <4>1, <4>2
    <3>2. CASE DropDocument
      <4>1. CASE e.type = "diff"
        <5>1. e \in Diffs /\ unheard' = unheard \cup {e.mac} /\ heard' = heard
          BY <2>1, <3>2, <4>1, HeadTyped DEF DropDocument
        <5> QED BY <5>1 DEF Moved
      <4>2. CASE e.type # "diff"
        <5>1. UNCHANGED <<heard, unheard>> /\ e \notin T
          BY <1>1, <3>2, <4>2 DEF DropDocument, Diffs
        <5> QED BY <5>1
      <4> QED BY <4>1, <4>2
    <3>3. CASE ProcessConnect
      <4>1. e \in Diffs /\ half
        BY <3>3 DEF ProcessConnect, Typed, Halfway
      <4>2. /\ e \in T <=> m = e.mac
            /\ e \in J <=> m = e.mac /\ e.to # NoVap
            /\ e.mac \in Macs
        BY <4>1 DEF Moved, Joining, Diffs
      <4>3. CASE e.to = NoVap
        <5>1. UNCHANGED <<heard, unheard>>
          BY <3>3, <4>3 DEF ProcessConnect, agentVars
        <5> QED BY <4>1, <4>2, <4>3, <5>1 DEF Accounted
      <4>4. CASE e.to # NoVap
        <5>1. Tell(e.mac, "connected")
          BY <3>3, <4>4 DEF ProcessConnect
        <5> HIDE DEF e
        <5>2. /\ m # e.mac => heard'[m] = heard[m] /\ (m \in unheard' <=> m \in unheard)
              /\ e.mac \notin unheard' => heard'[e.mac] = "connected"
          BY <1>0, <4>2, <5>1, TellFacts, AgentsTyped DEF Accounted
        <5> QED BY <4>2, <4>4, <5>2
      <4> QED BY <4>3, <4>4
    <3> QED
      BY <1>11, <3>1, <3>2, <3>3
  <2> HIDE DEF e
  <2> QED
    BY <1>2, <1>3, <2>1, <2>2, <2>3
<1>14. CASE ProcessDisconnect
  <2> DEFINE e == Head(queue)
  <2>1. UNCHANGED <<ap, mpc, bus, queue>> /\ queue # <<>> /\ e \in Diffs
    BY <1>14, HeadTyped DEF ProcessDisconnect, Typed, envVars, mainVars
  <2>2. Free(queue, T) => e \notin T
    BY <1>0, <2>1, TailOf
  <2>3. e.mac \in Macs /\ (e \notin T => m # e.mac)
    BY <2>1 DEF Moved, Diffs
  <2>4. m # e.mac => heard'[m] = heard[m] /\ (m \in unheard' <=> m \in unheard)
    <3>1. CASE e.from = NoVap
      BY <1>14, <3>1 DEF ProcessDisconnect, agentVars
    <3>2. CASE e.from # NoVap
      <4>1. Tell(e.mac, "disconnected")
        BY <1>14, <3>2 DEF ProcessDisconnect
      <4> HIDE DEF e
      <4> QED BY <1>0, <2>3, <4>1, TellFacts, AgentsTyped DEF Accounted
    <3> QED BY <3>1, <3>2
  <2> HIDE DEF e
  <2> QED BY <1>2, <1>3, <2>1, <2>2, <2>3, <2>4
<1>12. CASE UNCHANGED vars
  BY <1>2, <1>3, <1>12 DEF vars, envVars, mainVars, agentVars
<1> QED
  BY <1>4, <1>5, <1>6, <1>7, <1>8, <1>9, <1>10, <1>11, <1>12, <1>13, <1>14 DEF Next

(* Once everything is processed, the last the agent was told of a station  *)
(* is true of it, through jumps between interfaces too (a diff's leaves    *)
(* are processed before its joins), if an emit on a clean channel reported *)
(* its last update as sent: whichever emits failed before, and whatever of *)
(* theirs reaches the agent late.                                          *)
THEOREM AgentFollowsAp == Spec => []AgentFollows
<1>1. Init => AgentsDecided /\ Accounted
  BY DEF Init, Accounted, AgentsDecided, AgentDecided, Subscribed
<1>2. AgentsDecided => AgentFollows
  <2> SUFFICES ASSUME AgentsDecided, Settled, NEW m \in Macs \ unheard, heard[m] # "nothing"
               PROVE  heard[m] = "connected" <=> ap[m] # NoVap
    BY DEF AgentFollows
  <2>1. AgentDecided(m) /\ Free(bus, Moved(m)) /\ Free(queue, Moved(m))
    BY EmptyDecides DEF AgentsDecided, Settled
  <2> QED
    BY <2>1 DEF AgentDecided, Settled, Subscribed
<1> QED
  BY InitTyped, StepTyped, InitBefore, StepBefore, StepAccounted, <1>1, StepAgents, <1>2, PTL
  DEF Spec
==============================================================================
