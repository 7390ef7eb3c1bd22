------------------------------ MODULE AssocSync ------------------------------
(***************************************************************************)
(* How the consumer's associated device maps follow the access point       *)
(* (cujoagent_rbus_initialize and the webconfig handlers of                *)
(* cujoagent_dcl_api.c).                                                   *)
(*                                                                         *)
(* The initialising thread obtains the radio structures, subscribes to     *)
(* association changes, reads the full list once and pushes it.  RBUS      *)
(* callbacks push every later change as a diff.  The queue thread applies  *)
(* both to the maps and tells the agent of the changes, through emits that *)
(* may fail: what they promise is what TlvChannel promises.                *)
(***************************************************************************)
EXTENDS Integers, Sequences, FiniteSets

CONSTANTS
  Macs,         \* stations
  Vaps,         \* access point interfaces of interest
  MaxChanges    \* bound: times a station connects, leaves or jumps

ASSUME SetsAssumption == MaxChanges \in Nat

NoVap == "none"
ASSUME NoVapAssumption == NoVap \notin Vaps

VARIABLES
  ap,          \* OneWifi: the interface each station is associated with
  changes,     \* counter behind MaxChanges
  bus,         \* RBUS notifications on their way to the callback
  mpc, full,   \* initialising thread: control, the list rbus_getStr returned
  queue,       \* consumer->queue, of webconfig events
  initialised, \* the initial webconfig data is in the consumer's structures
  notified,    \* misc_notification was written
  map,         \* consumer->radios[].vaps...associated_devices_map
  comms_ready, \* consumer->comms_ready
  half,        \* of the diff in hand the disconnects are processed
  heard,       \* last connect/disconnect TLV the agent got of each station
  unheard,     \* stations whose last update no emit on a clean channel has
               \* reported as sent
  clean,       \* TlvChannel's: no emit left anything of its TLV under way
  underway,    \* the updates that an emit did
  stale        \* stations that changed after rbus_getStr answered and whose
               \* diff overtook the list on the way to the queue, or of which
               \* a document was dropped

envVars   == <<ap, changes, bus>>
mainVars  == <<mpc, full>>
initVars  == <<initialised, notified>>
agentVars == <<heard, unheard, comms_ready, clean, underway>>
vars == <<envVars, mainVars, queue, initVars, map, half, agentVars, stale>>

MainControl == {"init", "wait", "subscribe", "get", "push", "done", "failed"}
NoStation == [v \in Vaps |-> {}]

Snapshot == [v \in Vaps |-> {m \in Macs : ap[m] = v}]

Init ==
  /\ ap \in [Macs -> Vaps \cup {NoVap}] /\ changes = 0 /\ bus = <<>>
  /\ mpc = "init" /\ full = NoStation
  /\ queue = <<>> /\ initialised = FALSE /\ notified = FALSE
  /\ map = NoStation /\ half = FALSE
  /\ comms_ready = FALSE /\ clean = TRUE /\ underway = {}
  /\ heard = [m \in Macs |-> "nothing"] /\ unheard = {}
  /\ stale = {}

-----------------------------------------------------------------------------
(* Environment.                                                            *)

Subscribed == mpc \in {"get", "push", "done"}

(* A diff of one station: a jump leaves one interface and joins another.   *)
Diff(m, from, to) == [type |-> "diff", mac |-> m, from |-> from, to |-> to]

(* OneWifi: a station moves; subscribers are notified with a diff. *)
StationMoves(m, to) ==
  /\ changes < MaxChanges /\ to # ap[m]
  /\ changes' = changes + 1
  /\ ap' = [ap EXCEPT ![m] = to]
  /\ bus' = IF Subscribed THEN Append(bus, Diff(m, ap[m], to)) ELSE bus
  /\ UNCHANGED <<mainVars, queue, initVars, map, half, agentVars, stale>>

(* OneWifi may also publish the full list, which repairs what was missed.  *)
FullPublished ==
  /\ changes < MaxChanges /\ Subscribed
  /\ changes' = changes + 1
  /\ bus' = Append(bus, [type |-> "full", list |-> Snapshot])
  /\ stale' = IF mpc = "done" THEN {} ELSE stale
  /\ UNCHANGED <<ap, mainVars, queue, initVars, map, half, agentVars>>

(* cujoagent_webconfig_handler, in a thread of RBUS. *)
BusDelivers ==
  /\ bus # <<>>
  /\ queue' = Append(queue, Head(bus))
  /\ bus' = Tail(bus)
  /\ stale' = IF mpc = "push" /\ Head(bus).type = "diff"
                THEN stale \cup {Head(bus).mac} ELSE stale
  /\ UNCHANGED <<ap, changes, mainVars, initVars, map, half, agentVars>>

(* A hello, which needs the lock that the queue thread keeps through a     *)
(* document (DclComms).                                                    *)
AgentHello ==
  /\ ~half /\ ~comms_ready
  /\ comms_ready' = TRUE
  /\ UNCHANGED <<envVars, mainVars, queue, initVars, map, half, heard, unheard,
                 clean, underway, stale>>

(* An emit of a TLV of another kind fails, between documents. *)
OtherEmitFails ==
  /\ ~half /\ comms_ready
  /\ comms_ready' = FALSE
  /\ clean' \in {clean, FALSE}
  /\ UNCHANGED <<envVars, mainVars, queue, initVars, map, half, heard, unheard,
                 underway, stale>>

(* TlvChannel's Deliver: what a failed emit left reaches the agent late. *)
LateDelivery ==
  /\ \E x \in underway : heard' = [heard EXCEPT ![x.mac] = x.state]
  /\ UNCHANGED <<envVars, mainVars, queue, initVars, map, half, unheard, comms_ready,
                 clean, underway, stale>>

(* TlvChannel's Settle: all of it has come out. *)
Settle ==
  /\ ~clean
  /\ clean' = TRUE
  /\ underway' = {}
  /\ UNCHANGED <<envVars, mainVars, queue, initVars, map, half, heard, unheard,
                 comms_ready, stale>>

-----------------------------------------------------------------------------
(* The initialising thread: cujoagent_rbus_initialize.                     *)

(* cujoagent_webconfig_init_get: push the initial data, then wait for it.  *)
InitGet ==
  /\ mpc = "init"
  /\ \/ /\ queue' = Append(queue, [type |-> "init"])
        /\ mpc' = "wait"
     \/ /\ mpc' = "failed"          \* RBUS has no such data
        /\ UNCHANGED queue
  /\ UNCHANGED <<envVars, full, initVars, map, half, agentVars, stale>>

(* Mutant: the result of the wait is not looked at. *)
InitWaitIgnored ==
  /\ mpc = "wait"
  /\ mpc' = "subscribe"
  /\ UNCHANGED <<envVars, full, queue, initVars, map, half, agentVars, stale>>

(* The queue thread is done with it, or EPOLL_TIMEOUT_MS passes. *)
InitWait ==
  /\ mpc = "wait"
  /\ mpc' = IF notified THEN "subscribe" ELSE "failed"
  /\ UNCHANGED <<envVars, full, queue, initVars, map, half, agentVars, stale>>

(* cujoagent_set_l1_max_clients and cujoagent_rbus_subscribe. *)
Subscribe ==
  /\ mpc = "subscribe"
  /\ mpc' \in {"get", "failed"}
  /\ UNCHANGED <<envVars, full, queue, initVars, map, half, agentVars, stale>>

(* Mutant: the list that is pushed was read before the subscription. *)
GetStale ==
  /\ mpc = "get"
  /\ mpc' = "push"
  /\ UNCHANGED <<envVars, full, queue, initVars, map, half, agentVars, stale>>

(* cujoagent_assoc_list_init_get up to the return of rbus_getStr. *)
Get ==
  /\ mpc = "get"
  /\ full' = Snapshot
  /\ mpc' \in {"push", "failed"}
  /\ UNCHANGED <<envVars, queue, initVars, map, half, agentVars, stale>>

(* ... and the push of the list. *)
PushFull ==
  /\ mpc = "push"
  /\ queue' = Append(queue, [type |-> "full", list |-> full])
  /\ mpc' = "done"
  /\ UNCHANGED <<envVars, full, initVars, map, half, agentVars, stale>>

-----------------------------------------------------------------------------
(* The queue thread: cujoagent_process_webconfig_event.                    *)

(* The document cannot be allocated or decoded: it is gone.  After the     *)
(* initial one nobody is notified.                                         *)
DropDocument ==
  /\ queue # <<>> /\ ~half
  /\ queue' = Tail(queue)
  /\ LET d == Head(queue) IN
     \/ d.type = "init" /\ UNCHANGED <<unheard, stale>>
     \/ d.type = "full" /\ stale' = Macs /\ UNCHANGED unheard
     \/ /\ d.type = "diff"
        /\ stale' = stale \cup {d.mac}
        /\ unheard' = unheard \cup {d.mac}
  /\ UNCHANGED <<envVars, mainVars, initVars, map, half, heard, comms_ready,
                 clean, underway>>

(* The initial data: structures filled, the initialising thread told. *)
ProcessInit ==
  /\ queue # <<>> /\ Head(queue).type = "init"
  /\ queue' = Tail(queue)
  /\ initialised' = TRUE /\ notified' = TRUE
  /\ UNCHANGED <<envVars, mainVars, map, half, agentVars, stale>>

(* A full list replaces all maps; the agent is told nothing. *)
ProcessFull ==
  /\ queue # <<>> /\ Head(queue).type = "full"
  /\ queue' = Tail(queue)
  /\ map' = Head(queue).list
  /\ UNCHANGED <<envVars, mainVars, initVars, half, agentVars, stale>>

(* The part of cujoagent_process_client_state after the map's update: the  *)
(* station's update is emitted if comms are ready, then the radio's.       *)
(* What the emit of an update promises is TlvChannel's contract: reported  *)
(* as sent on a clean channel, it was received and nothing of it is left;  *)
(* if it fails, it may or may not have been received, and may be later.    *)
Tell(m, state) ==
  \/ /\ ~comms_ready
     /\ unheard' = unheard \cup {m}
     /\ UNCHANGED <<heard, comms_ready, clean, underway>>
  \/ /\ comms_ready
     /\ \E ok, told, left \in BOOLEAN :
          /\ clean /\ ok => told /\ ~left
          /\ heard' = IF told THEN [heard EXCEPT ![m] = state] ELSE heard
          /\ unheard' = IF clean /\ ok THEN unheard \ {m} ELSE unheard \cup {m}
          /\ underway' = IF left THEN underway \cup {[mac |-> m, state |-> state]}
                                 ELSE underway
          /\ \/ ok /\ UNCHANGED <<comms_ready, clean>>
             \/ comms_ready' = FALSE /\ clean' \in {clean, FALSE}
          /\ left => ~clean'

(* The first pass over a diff, for the disconnects. *)
ProcessDisconnect ==
  /\ queue # <<>> /\ Head(queue).type = "diff" /\ ~half
  /\ LET d == Head(queue) IN
     /\ map' = [v \in Vaps |-> IF v = d.from THEN map[v] \ {d.mac} ELSE map[v]]
     /\ IF d.from = NoVap THEN UNCHANGED agentVars ELSE Tell(d.mac, "disconnected")
  /\ half' = TRUE
  /\ UNCHANGED <<envVars, mainVars, queue, initVars, stale>>

(* Mutant: an interface that no radio has is not refused. *)
ProcessConnectAnywhere ==
  /\ half
  /\ LET d == Head(queue) IN
     /\ map' = [v \in Vaps \cup {d.to} |->
                  IF v = d.to THEN {d.mac} ELSE map[v]]
     /\ IF d.to = NoVap THEN UNCHANGED agentVars ELSE Tell(d.mac, "connected")
  /\ queue' = Tail(queue)
  /\ half' = FALSE
  /\ UNCHANGED <<envVars, mainVars, initVars, stale>>

(* Mutant: connects were processed before, and disconnects are now. *)
ProcessConnectFirst ==
  /\ half
  /\ LET d == Head(queue) IN
     /\ map' = [v \in Vaps |-> IF v = d.to THEN map[v] \cup {d.mac} ELSE map[v]]
     /\ IF d.from = NoVap THEN Tell(d.mac, "connected") ELSE Tell(d.mac, "disconnected")
  /\ queue' = Tail(queue)
  /\ half' = FALSE
  /\ UNCHANGED <<envVars, mainVars, initVars, stale>>

(* The second pass, for the connects. *)
ProcessConnect ==
  /\ half
  /\ LET d == Head(queue) IN
     /\ map' = [v \in Vaps |-> IF v = d.to THEN map[v] \cup {d.mac} ELSE map[v]]
     /\ IF d.to = NoVap THEN UNCHANGED agentVars ELSE Tell(d.mac, "connected")
  /\ queue' = Tail(queue)
  /\ half' = FALSE
  /\ UNCHANGED <<envVars, mainVars, initVars, stale>>

-----------------------------------------------------------------------------
Next ==
  \/ \E m \in Macs, to \in Vaps \cup {NoVap} : StationMoves(m, to)
  \/ FullPublished \/ BusDelivers
  \/ AgentHello \/ OtherEmitFails \/ LateDelivery \/ Settle
  \/ InitGet \/ InitWait \/ Subscribe \/ Get \/ PushFull
  \/ DropDocument \/ ProcessInit \/ ProcessFull
  \/ ProcessDisconnect \/ ProcessConnect

Spec == Init /\ [][Next]_vars

-----------------------------------------------------------------------------
(* Properties.                                                             *)

(* Nothing is on its way to the maps. *)
Settled == mpc = "done" /\ bus = <<>> /\ queue = <<>>

Updates == [mac : Macs, state : {"connected", "disconnected"}]

(* Type invariant of the access point, the queue and the maps.             *)
TypeOK ==
  /\ ap \in [Macs -> Vaps \cup {NoVap}] /\ changes \in 0 .. MaxChanges
  /\ mpc \in MainControl /\ full \in [Vaps -> SUBSET Macs]
  /\ \A i \in 1 .. Len(queue) : queue[i].type \in {"init", "full", "diff"}
  /\ initialised \in BOOLEAN /\ notified \in BOOLEAN /\ comms_ready \in BOOLEAN
  /\ map \in [Vaps -> SUBSET Macs] /\ half \in BOOLEAN
  /\ heard \in [Macs -> {"nothing", "connected", "disconnected"}]
  /\ clean \in BOOLEAN /\ underway \subseteq Updates
  /\ stale \subseteq Macs /\ unheard \subseteq Macs

(* "Get the WIFI_WEBCONFIG_INIT_DATA_NAMESPACE first, so that the          *)
(* appropriate wifi data is present in the consumer before any             *)
(* subscriptions happen".                                                  *)
InitialisedBeforeSubscribing == Subscribed => initialised

(* Once everything queued is processed, the maps agree with the access     *)
(* point on every station, whatever became of the emits, but for those     *)
(* whose diff slipped between the answer of rbus_getStr and the push of    *)
(* the list, or of which a document was dropped.                           *)
MapsFollow ==
  Settled => \A m \in Macs \ stale : \A v \in Vaps : m \in map[v] <=> ap[m] = v

(* "Process disconnects first for cases stations jump between bands": once *)
(* all changes are processed, the last the agent was told of a station is  *)
(* true of it, jumps between interfaces included, if an emit on a clean    *)
(* channel reported its last update as sent.  An emit that failed before,  *)
(* for this station or another, and what it left under way do not alter    *)
(* that.                                                                   *)
AgentFollows ==
  Settled => \A m \in Macs \ unheard :
    heard[m] # "nothing" => (heard[m] = "connected" <=> ap[m] # NoVap)
==============================================================================
