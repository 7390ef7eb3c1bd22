# A TLA+ model of the Advanced Security component

The repository is RDK's CcspAdvSecurity: a process on a gateway that keeps the
switches of the security features, starts and stops the agent through scripts,
and, where it is built with `WIFI_DATA_COLLECTION`, feeds the agent with wifi
events over a UNIX socket. This directory holds TLA+ modules that model its
concurrent and its persistent parts, the TLC configurations that check them on
small instances, and proofs, checked by TLAPS, that every safety property the
passing runs check holds for every value of the constants, under the
assumptions about the environment that the run makes.

Paths below are relative to the repository; `dcl.c` is
`source/AdvSecurityDml/cujoagent_dcl_api.c`, `internal.c`, `dml.c` and
`webconfig.c` are the `cosa_adv_security_*.c` files beside it, and
`start.sh`, `advsec.sh` and `recovery.sh` are `start_adv_security.sh`,
`advsec.sh` and `advsec_cpu_mem_recovery.sh` under `scripts/`.

## Inventory

### Data collection consumer (`dcl.c`, `cujoagent_dcl_api.h`)

One global `cujoagent_wifi_consumer_t`, shared by these threads:

| Thread or caller | Operations | State it shares |
| --- | --- | --- |
| RBUS callbacks (frames, temperature, webconfig) | push an event | `queue`, `queue_wakeup` under `lock` |
| consumer queue thread | pop, process, emit TLVs, stop a collector | holds `lock` from its wakeup to the empty queue; `tlv_ctx`, both eventfds, the device maps, `tcollect_ctx` |
| comms (socket) thread | hello and version handshake, send the TLV, acknowledge, start a collection | `tlv_ctx` without a lock, `comms_ready` under `lock`, `l1_collections` under `l1_lock` |
| FIFO thread | read CSI samples, push | `queue` under `lock` |
| L1 collector thread, one per request | wait for its timer or STOP, push DONE, unsubscribe, free itself | `l1_collections` under `l1_lock`, `queue` under `lock` |
| the thread that calls init and deinit | open, spawn, synchronise; stop, wait, destroy | everything |

Threads talk through eventfds. An eventfd is a counter: values written before a
read add up. A wait for an answer is an `epoll_wait` with a timeout of 100 ms
(`EPOLL_TIMEOUT_MS`); the comms and FIFO loops wait for work without one.

Hard here: the lock-free hand-over of the TLV; timeouts racing late answers;
the queue thread waiting, with the lock, for threads that want the lock; values
adding up in an eventfd; a collector that ends by itself just when it is
stopped; a list that was read before, and is processed after, the changes to
it; shutting down in any of these situations.

What makes it correct: an emit reports success only if the agent got that
TLV, once; no freed TLV or collector is used; nobody waits for ever and no
wakeup is lost; the agent learns of the end of every collection; the device
maps agree with the access point; deinitialisation ends, and the threads
return.

### Feature control (`internal.c`), data model (`dml.c`), webconfig (`webconfig.c`)

State: one `bEnable` per feature and RFC in memory, the same value in syscfg
(set in memory, then committed to flash), the marker file the start script
creates, `Device.WiFi.Levl` in OneWifi, and whether the consumer above is
running. Operations: some thirty boolean setters, the webconfig blob that sets
five switches at once, OneWifi's event, the boot sequence. None of them takes a
lock.

Hard here: a crash or reboot between the writes; a syscfg write that fails; a
blob that fails half way; four paths that start and stop data collection, each
on its own test of the switch.

What makes it correct: a value that was written and answered for survives; memory and
syscfg agree; data collection that is switched on runs; a failed blob leaves
nothing behind.

### Sysevent thread (`internal.c`) and scripts (`scripts/`)

State: `prevBridgeMode`, the registration with syseventd, the scripts running in
the background, their marker files under `/tmp`, the agent process and the
features switched on in it. Operations: bridge mode on and off, a MAP-T or WAN
interface change, the setters of the agent, of safe browsing and of the RFCs,
each of which starts `start.sh` with an option and does not wait for it; and
`recovery.sh`, which the logger thread starts every hour.

Hard here: scripts that overlap and know of each other only by marker files,
one of which (`advsec_initializing`) is tested and created in two steps and
removed by whoever comes by; a script that reads syscfg before its starter has
written it; killed scripts, a crashed agent, mode changes that nobody heard.

What makes it correct: in router mode the agent runs with the features that are
configured, in bridge mode it does not run; the lock file does not lock
everybody out.

### Logger thread (`internal.c`)

State: `remaining_time` of the thread, `ulLoggingPeriod` and `logReady` under
`logMutex`, the period in syscfg. It waits an hour at a time, starts the status
and the recovery script, and counts the period down; a set of the period
interrupts the wait.

Hard here: unsigned arithmetic; a set between the end of a wait and the reload.
What makes it correct: the count is exact, no new period is missed, the scripts
run every hour.

### Other parts

The log monitor thread (libev, logrotate), the payload builders, and the CCSP
process around it all (`source/AdvSecuritySsp`). `PROJECT.json` lists them with
the reason why they are not modelled.

## Modules

| Module | Models | State and actions |
| --- | --- | --- |
| `DclComms` | queue thread and comms thread around `cujoagent_emit_event_tlv`, and what a collector does to `queue_epoll` | Fields of the consumer keep their names. `qpc`, `cpc` are the threads' positions, one action per stretch of code between two accesses to shared state: `EmitAlloc`, `EmitNotify`, `EmitAcked`, `EmitTimeout`; `CommsEpoll`, `CommsRead`, `CommsCheck`, `CommsSend`, `CommsAck`, `CommsHello`, `HelloLocked`. `queue_epoll` is edge triggered: `ackEdge` and the collector's `"returned"` are what the next wait is told of, once. A collector is stopped by a disconnect (`FindCollector`, `StopWaitOver`), answers at any time after (`CollectorReturns`) and leaves the epoll (`CollectorLeaves`). A TLV is its number; `delivered` is what `sendto` got, `confirmed` what emit reported, `exact` the TLVs built while nothing older was under way. A `sendto` from a pointer that was freed since its check sends that TLV, the current one or garbage, or fails. |
| `TlvChannel` | what emit promises its callers | `Offer`, `Deliver`, `Confirm`, `Drop`, `Settle`. While the channel is `clean` the offered TLV and nothing else is delivered, and confirmed only if it was; a failed emit may leave something under way, until which has come out nothing is promised. `DclComms` is shown to implement it with `offered <- tlv`, `wire <- delivered`, `log <- confirmed`, `clean <- Clean`. |
| `DclCommsProofs` | | The theorems about `DclComms`. |
| `DclL1` | collections: request, collector threads, disconnect, temperatures | A collector is a record with its position, its STOP and RETURN eventfds and its subscription. The emit is one step: it succeeds, or it fails, clears `comms_ready` and may have sent its TLV; a late RETURN fails it. That a failed TLV may also arrive after later ones is in `DclComms` only. `left` are the collections that ran when their station left. |
| `DclL1Proofs` | | The theorems about `DclL1`. |
| `AssocSync` | initial data, subscription, full list, diffs, device maps | `ap` is the truth in OneWifi, `bus` what RBUS has not delivered, `map` the consumer's maps, `heard` what the agent was last told. A diff is processed in two steps, disconnects and connects, each with an emit that may fail (`Tell`); `clean`, `underway`, `LateDelivery` and `Settle` are the contract of `TlvChannel`, seen from the updates of stations; `DropDocument` is a document that cannot be allocated or decoded. |
| `AssocSyncProofs` | | The theorems about `AssocSync`. |
| `DclLifecycle` | init with its failures, deinit against the threads | Descriptor fields are `zero`, `open` or `closed`; threads are reduced to what a shutdown can find them doing. |
| `DclLifecycleProofs` | | The theorems about `DclLifecycle`. |
| `Logger` | logger thread and `LoggingPeriod` setter | `remaining` is `remaining_time`, `base` the period it was loaded from, `counted` the minutes counted since; one action per critical section and per end of a wait. |
| `LoggerProofs` | | The theorems about `Logger`. |
| `AgentControl` | sysevent thread, setters, the scripts and the recovery script | A script is a record: its option, its position, the switches it read. One step is a stretch between commands that wait. `files` are the marker files, `up` and `on` the agent and its features. `trouble` and `killed` remember what the properties exclude. |
| `AgentControlProofs` | | The theorems about `AgentControl`. |
| `FeatureConfig` | switches, syscfg, boot, blob, OneWifi events, restarts | A handler is the list of steps it has still to run; every step is one access to shared state. `mem`, `cfg`, `flash` are the three copies of a switch; `promised` are the values a restart may bring back, to which a request adds what it is going to write (`Promises`). |
| `FeatureConfigProofs` | | The theorems about `FeatureConfig`. |

`MC*.tla` give the sets for the instances. Definitions whose comment begins
with "Mutant" or "A variant" are plausible mistakes in the code that
`PROJECT.json` pairs with the property that catches them; no specification
uses them.

How the modules fit together: `DclComms` is the detailed emit, `TlvChannel` its
contract, `AssocSync` emits under that contract, `DclL1` with a step of its own
that is weaker than the detailed emit in what it promises of a failure and
knows no late arrivals, `DclLifecycle` starts and stops the threads, and `FeatureConfig` calls init and deinit, which it sees as
one step that succeeds or fails. `AgentControl` is the other side of those
setters: there syscfg is one step and the scripts, which `FeatureConfig` sees as
`ScriptDone` only, are run in full. `Logger` is what starts the recovery script
of `AgentControl` every hour (`Recover`).

## Runs

| Run | Shows |
| --- | --- |
| `comms` | At any speed of the comms thread, with hellos at any time and a collector whose RETURN comes late: the two threads implement `TlvChannel`; a freed TLV is read, or a sum taken for STOP, only after an emit has failed; emits end, the queue drains, a hello restores comms although its handling waits for the lock the queue thread holds, `comms_ready` never rises in the middle of an event. |
| `l1_safety` | Timer, disconnect and new requests in any order: at most one temperature subscription per slot, no use of a freed collector by the queue thread, every end of a collection is reported unless an emit fails or comms are down; a temperature TLV has every radio unless the context mixed two collections. |
| `l1_done` (violated) | `dcl.c:2129` says that at a disconnect DONE must be sent before the update. A collector whose timer fires when the disconnect is queued already pushes its only DONE behind it and clears its slot, where the handler then finds nothing to stop. |
| `l1_live` | A disconnect's wait ends although the collector may be waiting for the lock of the waiting thread; every collector ends, failing thread creation included. |
| `assoc_sync` | Subscriptions wait for the initial data; once everything is processed the maps agree with the access point, whatever became of the emits; the agent's last news of a station is true if an emit on a clean channel reported its last update as sent. Stations whose diff overtook the initial list, or of which a document was dropped, are excluded from the former by `stale`. |
| `lifecycle_live` | Deinitialisation at any moment ends, tells the collector to stop, and lets the queue thread return. |
| `lifecycle_comms` (violated) | `dcl.c:3464` says that the comms thread errors out on the closed socket. It may stay in `recvfrom`, or read STOP added to another value, and then never returns. |
| `lifecycle_fds` (violated) | Against the care taken at `dcl.c:996` not to close stdin: the consumer's descriptors are 0 after the memset, and the cleanup of a failed initialisation writes to and closes descriptor 0. |
| `feature_config` | With a failing write, a death or reboot at any step, between set and commit included, a OneWifi change and two requests: what a request wrote and answered for survives, one that failed or was cut off leaves the old or the new value, memory and syscfg agree, data collection that is on runs. |
| `logger` | Sets at any moment, failing writes, restarts: the count of a period in range never wraps and loses no minute, a new period is never missed, the scripts run once an hour and keep running. |
| `agent` | Two scripts at a time, two inputs and one fault, restart, reboot or WAN change anywhere: what runs is what is configured, nothing runs in bridge mode, markers follow the switches, no script leaves the lock file behind, and the recovery script removes that of a killed one. |
| `feature_rollback` (violated) | The repository's README promises rollback of failed configuration updates. A blob whose second write fails keeps the first switch changed; the rollback callback only logs. |

### Bounds

- `DclComms`: three events of one or two TLVs, two hellos and one collection.
  Two events are needed for an answer that is late for one TLV to meet the
  next, the third leaves one to be drained afterwards; the second hello brings
  comms back after a failed emit; the events are chosen so that two values add
  up to STOP. `DCL_MAX_CSI_CLIENTS` is 1, so there is one collector at a time.
- `DclL1`: the code has one slot (`DCL_MAX_CSI_CLIENTS` is 1), so `MaxClients =
  1`; two requests and two stations, so that a collector can overlap its
  successor; two radios, so that a TLV can lack one.
- `AssocSync`: two stations, two interfaces, three changes: one before, one
  during and one after the synchronisation, or a jump there and back. Stations
  do not interact, the second one only shows that.
- `DclLifecycle`: two events, so that an event is in progress while another is
  queued. There is one collector, as in the code.
- `FeatureConfig`: two requests, one failure, one restart, one OneWifi change,
  each anywhere. A death between set and commit and a repetition of the request
  is the shortest way to a value that flash lacks, which `Durable` sees without
  the reboot that would lose it; one representative stands for the plain RFC
  switches, whose functions are copies of each other.
- `Logger`: an hour of 2 minutes and periods of 2 to 5, so that a period is one
  hour, whole hours, or leaves a rest; `ULONG` of 4 bits, so that it can wrap;
  two sets and a restart.
- `AgentControl`: two scripts at the same time suffice for an overlap; one RFC
  that restarts the agent and is not restored by `-enable` (`sate`) and one that
  restarts the firewall only and is restored (`icmp6`); two inputs, so that a
  mode is entered and left or a request meets a mode change; one fault.

The bounds are constants of the modules, and the theorems hold for every value
of them: what the bounds leave unsettled is the liveness properties only.

Counters that exist only for these bounds stop the environment, after which
nothing is left to do: hence `CHECK_DEADLOCK FALSE`. That no thread is stuck is
what the liveness properties say.

### Fairness

Weak fairness of each thread: POSIX threads that can run are eventually run.
`EmitTimeout`, `StopTimeout` and the expiry of a collector are steps of the
thread that waits, because `epoll_wait` returns after its timeout. Nothing is
assumed of the agent, of OneWifi or of the caller of deinit: hellos, station
changes and requests may never come. Of the scripts, each one that runs is
scheduled (`WF(ScriptStep)`; their waits are bounded loops), the sysevent thread
registers and handles what was published, a setter persists, and the logger
thread starts the recovery script again and again (`WF(Recover)`, which is what
`ScriptsKeepRunning` of `Logger` shows of that thread).

### Assumptions, and what happens without them

- `DclComms` assumes nothing of timing. Its signals are left out (an
  `epoll_wait` interrupted by one fails the emit, as a timeout does), and so is
  the FIFO thread's acknowledgement, which is in `queue_epoll` too but is
  written only while the consumer is deinitialised (`DclLifecycle` has it).
  `NoFreedAccess` and `CommsLoopSurvives` say that the freed read and the false
  STOP take a failed emit. They do not say that these never happen: after a
  failed emit TLC shows both, and a stale SENT that confirms a TLV nobody got.
- `unheard` in `AssocSync`: `AgentFollows` speaks of stations whose last update
  was reported as sent. Of a jump whose disconnect was delivered and whose
  connect failed the agent's last news is false until the station changes
  again: nothing is repeated when comms are back.
- `CreateMayFail = FALSE` in `l1_safety`: the failure path of `pthread_create`
  frees the collector without `l1_lock` and without a DONE: TLC finds
  `NoFreedCollectorUse` and `EveryCollectionReported` violated when it may be
  taken.
- `Serialised`: setters and the blob do not overlap. This is an assumption: no
  lock of the component enforces it, and the repository's README says of
  webconfig both "Integrated in main thread" and "asynchronous processing"
  (line 173). With `Serialised = FALSE` TLC finds `Durable` and `Agreement`
  violated.
- `CollectionRuns` excludes behaviours in which the wifi callback overlapped
  another handler (`faults.overlap`): its stale test deinitialises a consumer
  that `CosaLevlInit` has just initialised.
- `Promises` in `FeatureConfig`: a request that finds its value in memory is
  answered TRUE without a write. If the process died between the set and the
  commit of that value, or one of them failed, flash lacks it and the next
  reboot brings the old one back. The model promises nothing for such a request;
  if it did, TLC would find `Durable` violated. The same holds of the
  agent's own switch after any failed write, since it is assigned before it is
  persisted.
- `faults.cut`: once a death has cut a commit off, `Agreement` asks memory and
  syscfg to agree, and no longer flash.
- `trouble` in `AgentControl`: `FeaturesFollow`, `NotInBridgeMode` and
  `RfcMarkersFollow` hold as long as no two scripts overlapped and nothing
  failed since the last reboot or the last `-disable` that had the system to
  itself while the sysevent thread knew the mode of the device, or was about to
  read it (`InStep`). An `-enable` that read syscfg before the setter persisted, a mode change
  that came while the sysevent thread was not registered, and an RFC that
  restarted the agent in bridge mode count as well: without each of these
  exceptions TLC finds the properties violated. `NoStaleLock` and `LockRemoved`
  have no such exception.
- `mixed` in `DclL1`: `TemperaturesComplete` excludes contexts that held readings
  of two collections.

### Observations

What the runs and their exceptions say about the code, beyond the violated
properties above:

- `dcl.c:2129`: beside the violated order above, a collector whose timer fired and
  that is still in its slot at the disconnect is told to stop and has its DONE
  sent ahead of the update, and then pushes its own as well, although the
  comment says that stopping it skips that push.
- `dcl.c:1021`: a collector that answers STOP after the 100 ms leaves its RETURN in
  `queue_epoll`; the next emit, whatever it sends, fails on it, clears
  `comms_ready`, and the agent has to greet again.
- `dcl.c:2210`: when an emit fails in the middle of a diff, the rest of it is
  never told to the agent; the maps are updated all the same.
- `internal.c:1580`: a value set and not committed is found in memory after the
  process restarts, so that repeating the request does not save it.
- `dcl.c:2704`: a reading notified after DONE cleared the context counts towards
  the next collection, whose TLV then has a radio twice and lacks another.
- `internal.c:2447`: the default of 1440 is never assigned; without a value in
  syscfg the period is 0 and the count wraps. The scripts still run hourly.
- `internal.c:1796`: the `-enable` script may read the agent's switch before it
  is persisted, and then starts the agent without fingerprinting.
- `internal.c:2759`: the WAN interface names are compared up to the size of an
  `int` only.
- `start.sh:44`: bridge mode switched on and off quickly runs `-disable` and
  `-enable` at the same time, and the last to write wins.
- `start.sh:164`: after bridge mode the markers of sate, tcp, doh and ech are not
  restored, although their switches are on.
- `advsec.sh:593`: an RFC whose script restarts the agent starts it in bridge
  mode too.
- `internal.c:2666`: bridge mode off runs `-enable` whether or not fingerprinting is
  on, which starts the agent process on a device that has it off.
- `internal.c:2698`: a script that could not be started leaves `prevBridgeMode` at
  the mode before, so that the return of that mode counts as no change: bridge
  mode off (`-enable` not started), the agent switched off and on, bridge mode
  on again, and the agent keeps running. The bound of two inputs does not reach
  this; the attempt to prove `NotInBridgeMode` did, and is why `-disable` ends
  `trouble` only while `InStep`.
- `recovery.sh:264`: an agent that died is logged, not started again.

## Proofs

`DclCommsProofs` proves, for every set of events, every number of hellos and
collections and every timing:

- `TypeCorrect`: `Spec => []TypeOK`, by `TypeInv`, which adds that an emit in
  progress has a TLV left and that a socket reported readable holds a datagram;
- `EmitsOnlyWhenReadyHolds`, `ReadyFlipsOutsideEmitHolds`, by `LockInv`: the
  queue thread holds the lock exactly while it is awake, and has TLVs to send
  only while comms are ready;
- `Refinement`: `Spec => ImplementsTlvChannel`; each step of `Next` is a step of
  `TlvChannel` or leaves its variables alone, by `ContractInv`. A late answer
  does no harm to an exact TLV because nothing older is under way when it is
  built: from then on exactly one of six stages of its own hand-over is reached
  (`Handover` in `Exclusive`). For the others only counting is left, that a
  datagram stands behind every acknowledgement that could be taken for the one
  awaited (`Counted`);
- `EmitContractHolds`, by `ChannelInv`, which holds of every step of
  `TlvChannel`; `NoFreedAccessHolds` and `CommsLoopSurvivesHolds` follow from both:
  as long as no emit has failed every TLV is exact, and an exact TLV is not
  freed between check and send, nor is its value added to another.

Of the constants these use `EventsAssumption` (an event sends a non-empty
sequence of tags) and `BoundsAssumption`.

`LoggerProofs` proves, for every hour, range of periods and width of `ULONG`
(`TimeoutAssumption`, `ValuesAssumption`): `TypesHold`, `CountExact`,
`PeriodNotMissed` and `ScriptsHourly`. The invariant adds to the four properties
that a count of a real period has an hour left whenever one is subtracted, and
less than one in the second wait (`HourLeft`), which is why it cannot wrap; and
how long ago the scripts ran, by the thread's position (`SinceByPlace`).

`DclL1Proofs` proves, for any number of stations, radios, requests and slots,
where the code has one slot:

- `TypeCorrect`, by `Typed`, which gives the shape of every queued event, of the
  TLVs sent and of the temperature context, and `Control`: the queue thread's
  position says which of the two locks it holds and what it has in hand. All
  the others rest on these two;
- `SubscribersBounded`, by `SlotsHeld`: a collector is in exactly one slot from
  its start until it is freed, and subscribed only while it is in its routine;
- `TemperatureTlvs`, by `Turns` and `Gathered`. A collector's readings come from
  one radio after the other, and what is queued keeps that order (`Turns`); a
  context that was not mixed holds the readings right before the next one to
  come, going round the radios (`Gathered`), so that the last of `NumRadios`
  readings completes it. Counting alone would not do: it is the order that
  makes the counted readings different radios;

and, if the creation of a collector's thread does not fail (`~CreateMayFail`, a
hypothesis of the theorems because the failure path violates both properties):

- `StopReachesLive`, by `TargetHeld`: between finding a collector in its slot and
  writing STOP the queue thread keeps `l1_lock`, without which a collector is
  not freed;
- `EveryEndReported`, by `Accounted`: the DONE of a collector that was stopped or
  is past its push is on the wire, in the queue, or the queue thread's next.

They use `ParametersAssumption`, `RadiosAssumption` and `MacsAssumption`.

`AssocSyncProofs` proves, for any stations, interfaces and changes: `TypeCorrect`;
`SubscribesLater`, by `WaitedFor`; `MapsFollowAp` and `AgentFollowsAp`. The last
two are about states in which everything is processed, and say nothing of the
way there. The invariants `MapsDecided` and `AgentsDecided` do: of the items
under way that say anything of a station, the last one says the truth; it is on
the bus if there is one there, otherwise in the list that was read and is not
pushed, otherwise in the queue, and without any the map, or the agent's last
news, is true. A diff that is half processed is still the head of the queue
(`Halfway`, `LeftBehind`), and what failed emits left under way is of stations
that count as `unheard` (`Accounted`), so that a late delivery contradicts
nothing that is claimed. `SetsAssumption` and `NoVapAssumption` are used.

`DclLifecycleProofs` proves `TypeCorrect` and `NoCollectorLeft`, the latter by
`CollectionsEnding`: once the deinitialisation has gone past the collectors,
`disable_l1_collection` is up and whatever runs was told to stop. With
`~InitMayFail` as its hypothesis `OwnDescriptorsAfterInit` shows that
`OnlyOwnDescriptors`, which the run `lifecycle_fds` violates, is broken by a
failed initialisation and by nothing else.

`FeatureConfigProofs` proves, for any RFC switches, documents, stored
configurations and numbers of requests, failures and restarts, `TypeCorrect`
without a hypothesis, and under `Serialised` (see above) `ValuesDurable`,
`ValuesAgree` and `CollectionIsRunning`. What makes these true is the order of a
handler's writes, and a handler is a list of steps that others may extend: so
the invariant first says that all lists are well formed, that is, which step
must follow which (`WellFormed` in `Control`; `Handler` lemmas show it of every
function of the code, `Progress` of every step taken). On that rest

- `Exclusive`: one setter or blob at a time, which is where `Serialised` is used;
- `Aimed`: a handler writes the value it was asked for, and elsewhere the one
  that is there already;
- `AllKept`: the position of a handler says in which of memory, syscfg and flash
  the new value is (`Moved`), every copy holds a promised value, and what a
  handler under way promises is in all three or still to be written (`Due`);
- `AllSame`: while no write failed, the copies agree whenever no handler is
  between its writes, flash only if no death cut a commit off;
- `Runs`: with nothing failed and no overlap, the next step of a handler says
  whether the consumer must already be running for the switches' values.

`RfcsAssumption`, `StoresAssumption` and `DocsAssumption` are used: the RFC
switches are none of the others, and what is stored or in a document is
Boolean.

`AgentControlProofs` proves, for any number of scripts at the same time, any RFC
switches, modes, stored configurations, inputs and faults:

- `AgentTypesHold` and `LockNotStale`. Together the two are inductive: only
  `Touch` creates the lock file, entering the stretch (`Locked`) that a script
  leaves by removing it or by being killed, and no RFC marker has its name;
- `FeaturesAsConfigured`, `DownInBridgeMode` and `MarkersAsConfigured`. These three
  speak of a device at rest, when all scripts have ended and all events are
  handled. `Orderly` says what holds before that, as long as there was no
  `trouble`: at most one script runs, and `Stage` tells from its option and its
  position which markers exist, which switches it has read and what the agent
  is doing. A mode change is answered only later, so that the claims about a
  mode are suspended while a notification is `Due`, one the sysevent thread will
  not take for the mode it has seen; that it is answered for the right mode is
  `Latest`: the last mode that was published is the device's.

`PidsAssumption`, `SwitchesAssumption`, `ModesAssumption` and `StoresAssumption` are
used.

Only model-checked are the liveness properties (`EmitTerminates`, `QueueDrains`,
`HelloRestoresComms`, `CollectionsEnd`, `DeinitEnds`, `QueueThreadReturns`,
`ScriptsKeepRunning`, `LockRemoved`): they need fairness and `ENABLED`, which are
out of the prover's reach. The properties of the four violated runs are false,
and TLC's counterexamples say all there is to say.

## Not modelled

- Payload contents and sizes, and the builders of the event payloads: copies of
  wifi HAL structures that no property tells apart.
- Getters, and the string, URL, log level, lookup timeout and limit parameters:
  each stores one value, with the persist-then-assign order of the RFC switches.
- msgpack decoding and the version of the webconfig document.
- `-configure_features`, softflowd, parental control and privacy protection in
  the scripts (as safe browsing), firewall rules, ipsets and kernel modules;
  the cloud host event of the sysevent thread.
- The log monitor thread, logging, and the CCSP start-up code in
  `source/AdvSecuritySsp`, which is bus registration and signal set-up.

Allocation failures are modelled in emit, in the temperature event and in the
initialisation only. Builds without `WIFI_DATA_COLLECTION` have none of the
consumer.

## Plan

1. `DclLifecycle`: a second initialisation, use of destroyed locks and of the
   rbus handle, then composed with `FeatureConfig`'s calls of init and deinit.
2. `FeatureConfig`: the integer and string parameters, and the version of the
   webconfig document.
3. Proofs: the safety half of the liveness arguments, that is, that a thread
   that waits for another is never waited for by it (`l1_lock` and `lock` in
   `DclL1`, the hello in `DclComms`).
