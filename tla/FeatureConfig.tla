------------------------------ MODULE FeatureConfig ------------------------------
(***************************************************************************)
(* The switches of the component: what the TR-181 setters, the webconfig   *)
(* blob, the OneWifi event handler and the boot sequence do to the values   *)
(* in memory (g_pAdvSecAgent->...->bEnable), to syscfg and to the wifi data *)
(* collection consumer (cosa_adv_security_internal.c, ..._dml.c,            *)
(* ..._webconfig.c).                                                        *)
(*                                                                          *)
(* A handler is the list of steps it still has to run, each step one access *)
(* to shared state; a step that branches puts the steps of its branch in    *)
(* front of the rest, and an early return drops the rest.  The component    *)
(* has no lock around any of this.  UserSpace_RFC is TRUE from boot on (its *)
(* setter refuses FALSE) and is left out; the scripts are seen only through *)
(* the marker file that says the agent is initialised.                      *)
(***************************************************************************)
EXTENDS Naturals, Sequences

CONSTANTS
    Rfcs,            \* RFC switches that only have a value (ICMPv6, OTM, Raptr, ...)
    Stores,          \* syscfg contents the device may boot with
    Docs,            \* webconfig documents: values for BlobFeatures
    MaxRequests,     \* requests over the data model and webconfig
    MaxFaults,       \* failures of syscfg_set, syscfg_commit and the consumer together
    MaxRestarts,     \* crashes of the process and reboots
    MaxWifi,         \* changes of Device.WiFi.Levl by OneWifi itself
    Serialised       \* no setter runs while the blob does, and the reverse

ASSUME SerialisedIsBoolean == Serialised \in BOOLEAN

BlobFeatures == {"fp", "sb", "sf", "pc", "pp"}
Features == BlobFeatures \cup {"levl", "dcl"} \cup Rfcs

ASSUME RfcsAssumption == Rfcs \cap (BlobFeatures \cup {"levl", "dcl"}) = {}
ASSUME StoresAssumption == Stores \subseteq [Features -> BOOLEAN]
ASSUME DocsAssumption == Docs \subseteq [BlobFeatures -> BOOLEAN]

(* bus: the data model setters and, before them, the boot sequence;        *)
(* webconfig: the blob; wifi: the callback of the rbus subscription.        *)
Actors == {"bus", "webconfig", "wifi"}

VARIABLES
    mem,         \* the bEnable fields
    cfg,         \* syscfg as set, in the shared memory of the device
    flash,       \* syscfg as committed
    todo,        \* the steps each actor has still to run
    job,         \* the request it is serving
    up,          \* CosaSecurityInitialize has returned
    wifi,        \* Device.WiFi.Levl, kept by OneWifi
    events,      \* its published changes not yet handled
    consumer,    \* the wifi data collection consumer is running
    marker,      \* ADVSEC_INITIALIZED_FILE_PATH exists
    promised,    \* per switch, the values a restart may bring back
    faults,      \* what has failed so far, whether a death cut a commit off, and
                 \* whether the wifi callback ran beside a handler
    spent        \* requests, restarts and wifi changes so far

vars == <<mem, cfg, flash, todo, job, up, wifi, events, consumer, marker, promised, faults, spent>>

Step(op, f, v) == [op |-> op, f |-> f, v |-> v]
NoAsks == [f \in {} |-> TRUE]
NoJob == [busy |-> FALSE, asks |-> NoAsks, before |-> [f \in BlobFeatures |-> FALSE]]

(* A variant that does not commit.                                          *)
SetSysCfgNoCommit(f, v) == <<Step("set", f, v)>>

(* CosaSetSysCfgUlong: set, then commit; the caller returns on failure.     *)
CosaSetSysCfgUlong(f, v) == <<Step("set", f, v), Step("commit", f, v)>>

(* The switches whose functions persist the value before they keep it.      *)
Save(f, v) == CosaSetSysCfgUlong(f, v) \o <<Step("mem", f, v)>>

CosaAdvWifiDataCollectionInit == <<Step("precheckLevl", "dcl", TRUE), Step("init", "dcl", TRUE)>> \o Save("dcl", TRUE)
(* A variant that does not clear the switch in memory.                      *)
CollectionDeInitKeepsSwitch == <<Step("deinit", "dcl", FALSE)>> \o CosaSetSysCfgUlong("dcl", FALSE)
CosaAdvWifiDataCollectionDeInit == <<Step("deinit", "dcl", FALSE)>> \o Save("dcl", FALSE)

(* The agent keeps the value before it persists it.                         *)
CosaAdvSecInit == <<Step("dclAtInit", "dcl", TRUE), Step("mem", "fp", TRUE)>> \o CosaSetSysCfgUlong("fp", TRUE)
CosaAdvSecDeInit == <<Step("dclAtDeInit", "dcl", FALSE), Step("mem", "fp", FALSE)>> \o CosaSetSysCfgUlong("fp", FALSE)

(* A variant that looks for the marker file once the value is persisted.    *)
StartFeaturesLateCheck(f) ==
    CosaSetSysCfgUlong(f, TRUE) \o <<Step("completed", "fp", TRUE), Step("mem", f, TRUE), Step("mem", "fp", TRUE)>>
CosaAdvSecStartFeatures(f) == <<Step("completed", "fp", TRUE)>> \o Save(f, TRUE) \o <<Step("mem", "fp", TRUE)>>
CosaAdvSecStopFeatures(f) == Save(f, FALSE)

(* CosaStart/StopAdvParentalControl and CosaStart/StopPrivacyProtection.    *)
CosaStartAdvParentalControl(f) == <<Step("initialized", f, TRUE)>> \o Save(f, TRUE)
CosaStopAdvParentalControl(f) == <<Step("initialized", f, FALSE)>> \o Save(f, FALSE)

(* CosaAdvPCInit/DeInit, CosaPrivacyProtectionInit/DeInit and the like: the *)
(* script is started afterwards, without touching the feature's own switch. *)
CosaAdvPC(f, v) == Save(f, v)

CosaLevlInit == <<Step("precheck", "levl", TRUE), Step("wifiSet", "levl", TRUE), Step("wifiWait", "levl", TRUE),
                  Step("dclIfOff", "dcl", TRUE)>> \o Save("levl", TRUE)
CosaLevlDeInit == <<Step("dclIfOn", "dcl", FALSE), Step("wifiSet", "levl", FALSE)>> \o Save("levl", FALSE)

(* advsec_webconfig_handle_blob after its first check.                      *)
advsec_webconfig_handle_blob(doc) ==
    <<Step("update", "sb", doc["sb"]), Step("update", "sf", doc["sf"]), Step("update", "pc", doc["pc"]),
      Step("update", "pp", doc["pp"]), Step("agent", "fp", doc["fp"])>>

CosaSecurityInitialize ==
    <<Step("load", "fp", TRUE), Step("wifiTry", "levl", TRUE), Step("dclBoot", "dcl", TRUE), Step("agentBoot", "fp", TRUE)>>

Init ==
    /\ flash \in Stores /\ cfg = flash
    /\ mem = [f \in Features |-> FALSE]
    /\ todo = [a \in Actors |-> IF a = "bus" THEN CosaSecurityInitialize ELSE <<>>]
    /\ job = [a \in Actors |-> NoJob]
    /\ up = FALSE /\ wifi \in BOOLEAN /\ events = <<>> /\ consumer = FALSE /\ marker = FALSE
    /\ promised = [f \in Features |-> {flash[f]}]
    /\ faults = [set |-> 0, commit |-> 0, consumer |-> 0, cut |-> FALSE, overlap |-> FALSE]
    /\ spent = [requests |-> 0, restarts |-> 0, wifi |-> 0]

-----------------------------------------------------------------------------
(* A request arrives.                                                       *)

Idle(a) == up /\ ~job[a].busy

(* From here on a restart may bring back the old or the new value.          *)
Begin(a, asks, steps) ==
    /\ Idle(a)
    /\ job' = [job EXCEPT ![a] = [busy |-> TRUE, asks |-> asks, before |-> [f \in BlobFeatures |-> mem[f]]]]
    /\ todo' = [todo EXCEPT ![a] = steps]
    /\ promised' = [f \in Features |-> promised[f] \cup {asks[g] : g \in DOMAIN asks \cap {f}}]
    /\ faults' = [faults EXCEPT !.overlap = @ \/ \E b \in Actors : job[b].busy /\ (a = "wifi" \/ b = "wifi")]

(* What a request for asks promises.  A value that is in memory already is  *)
(* answered for without a write: nothing is promised about it unless        *)
(* syscfg, set and committed, holds it as well.                             *)
Promises(asks) ==
    LET kept == {f \in DOMAIN asks : asks[f] = mem[f] => cfg[f] = mem[f] /\ flash[f] = mem[f]}
    IN  [f \in kept |-> asks[f]]

Request(a, asks, steps) ==
    /\ spent.requests < MaxRequests
    /\ Serialised => \A b \in {"bus", "webconfig"} : Idle(b)
    /\ Begin(a, Promises(asks), steps)
    /\ spent' = [spent EXCEPT !.requests = @ + 1]
    /\ UNCHANGED <<mem, cfg, flash, up, wifi, events, consumer, marker>>

(* A setter asked for the value it has answers TRUE and does nothing.       *)
Setter(f, v, on, off) == Request("bus", [g \in {f} |-> v], IF v = mem[f] THEN <<>> ELSE IF v THEN on ELSE off)

DeviceFingerPrint_SetParamBoolValue(v) == Setter("fp", v, CosaAdvSecInit, CosaAdvSecDeInit)

SafeBrowsing_SetParamBoolValue(v) ==
    mem["fp"] /\ Setter("sb", v, CosaAdvSecStartFeatures("sb"), CosaAdvSecStopFeatures("sb"))
Softflowd_SetParamBoolValue(v) ==
    mem["fp"] /\ Setter("sf", v, CosaAdvSecStartFeatures("sf"), CosaAdvSecStopFeatures("sf"))
AdvancedParentalControl_SetParamBoolValue(v) ==
    mem["fp"] /\ Setter("pc", v, CosaStartAdvParentalControl("pc"), CosaStopAdvParentalControl("pc"))
PrivacyProtection_SetParamBoolValue(v) ==
    mem["fp"] /\ Setter("pp", v, CosaStartAdvParentalControl("pp"), CosaStopAdvParentalControl("pp"))

Levl_RFC_SetParamBoolValue(v) == Setter("levl", v, CosaLevlInit, CosaLevlDeInit)
RFC_SetParamBoolValue(f, v) == Setter(f, v, CosaAdvPC(f, TRUE), CosaAdvPC(f, FALSE))

(* This one compares with syscfg as well.                                   *)
WifiDataCollection_RFC_SetParamBoolValue(v) ==
    Request("bus", [g \in {"dcl"} |-> v],
            IF v = mem["dcl"] /\ v = cfg["dcl"] THEN <<>>
            ELSE IF v THEN CosaAdvWifiDataCollectionInit ELSE CosaAdvWifiDataCollectionDeInit)

(* The blob is refused, with nothing changed, when it leaves the agent off. *)
advsec_webconfig_process_request(doc) ==
    /\ doc["fp"] \/ mem["fp"]
    /\ Request("webconfig", doc, advsec_webconfig_handle_blob(doc))

(* wifiEventReceiveHandler                                                  *)
wifiEventReceiveHandler ==
    /\ events # <<>>
    /\ Begin("wifi", NoAsks, IF mem["dcl"] /\ ~Head(events) THEN CosaAdvWifiDataCollectionDeInit ELSE <<>>)
    /\ events' = Tail(events)
    /\ UNCHANGED <<mem, cfg, flash, up, wifi, consumer, marker, spent>>

-----------------------------------------------------------------------------
(* The steps of a handler.                                                  *)

MayFail == faults.set + faults.commit + faults.consumer < MaxFaults
Doing(a, op) == todo[a] # <<>> /\ Head(todo[a]).op = op
Feature(a) == Head(todo[a]).f
Value(a) == Head(todo[a]).v
Continue(a, steps) == todo' = [todo EXCEPT ![a] = steps \o Tail(@)] /\ UNCHANGED <<job, up, promised>>

(* An early return with an error; the webconfig framework then calls        *)
(* advsec_webconfig_rollback, which changes nothing.                        *)
Fail(a) ==
    /\ todo' = [todo EXCEPT ![a] = <<>>] /\ job' = [job EXCEPT ![a] = NoJob]
    /\ up' = TRUE /\ UNCHANGED promised

(* The answer: the requested values are now the only ones a restart may     *)
(* bring back.  The boot sequence ends here too.                            *)
Return(a) ==
    /\ todo[a] = <<>> /\ (job[a].busy \/ (a = "bus" /\ ~up))
    /\ job' = [job EXCEPT ![a] = NoJob]
    /\ up' = TRUE
    /\ promised' = [f \in Features |-> IF f \in DOMAIN job[a].asks THEN {job[a].asks[f]} ELSE promised[f]]
    /\ UNCHANGED <<mem, cfg, flash, todo, wifi, events, consumer, marker, faults, spent>>

syscfg_set(a) ==
    /\ Doing(a, "set")
    /\ \/ cfg' = [cfg EXCEPT ![Feature(a)] = Value(a)] /\ Continue(a, <<>>) /\ UNCHANGED faults
       \/ MayFail /\ faults' = [faults EXCEPT !.set = @ + 1] /\ Fail(a) /\ UNCHANGED cfg
    /\ UNCHANGED <<mem, flash, wifi, events, consumer, marker, spent>>

syscfg_commit(a) ==
    /\ Doing(a, "commit")
    /\ \/ flash' = cfg /\ Continue(a, <<>>) /\ UNCHANGED faults
       \/ MayFail /\ faults' = [faults EXCEPT !.commit = @ + 1] /\ Fail(a) /\ UNCHANGED flash
    /\ UNCHANGED <<mem, cfg, wifi, events, consumer, marker, spent>>

Assign(a) ==
    /\ Doing(a, "mem")
    /\ mem' = [mem EXCEPT ![Feature(a)] = Value(a)]
    /\ Continue(a, <<>>)
    /\ UNCHANGED <<cfg, flash, wifi, events, consumer, marker, faults, spent>>

(* Is_Device_Finger_Print_Enabled_Completed, Is_Agent_Initialization_Completed *)
MarkerCheck(a) ==
    /\ \/ Doing(a, "completed") /\ (IF mem["fp"] /\ ~marker THEN Fail(a) ELSE Continue(a, <<>>))
       \/ Doing(a, "initialized") /\ (IF marker THEN Continue(a, <<>>) ELSE Fail(a))
    /\ UNCHANGED <<mem, cfg, flash, wifi, events, consumer, marker, faults, spent>>

(* wifidcl_init_precheck asks OneWifi over rbus and may fail.               *)
wifidcl_init_precheck(a) ==
    /\ \/ Doing(a, "precheck") /\ Continue(a, <<>>)
       \/ Doing(a, "precheckLevl") /\ wifi /\ Continue(a, <<>>)
       \/ (Doing(a, "precheck") \/ Doing(a, "precheckLevl")) /\ Fail(a)
    /\ UNCHANGED <<mem, cfg, flash, wifi, events, consumer, marker, faults, spent>>

CosaAdvWifiDataConsumerInit(a) ==
    /\ \/ Doing(a, "init") /\ consumer' = TRUE /\ Continue(a, <<>>) /\ UNCHANGED <<mem, faults>>
       \/ Doing(a, "init") /\ MayFail /\ faults' = [faults EXCEPT !.consumer = @ + 1]
          /\ Fail(a) /\ UNCHANGED <<mem, consumer>>
       \/ Doing(a, "initOrClear") /\ consumer' = TRUE /\ Continue(a, <<>>) /\ UNCHANGED <<mem, faults>>
       \/ Doing(a, "initOrClear") /\ MayFail /\ faults' = [faults EXCEPT !.consumer = @ + 1]
          /\ mem' = [mem EXCEPT !["dcl"] = FALSE] /\ Continue(a, <<>>) /\ UNCHANGED consumer
    /\ UNCHANGED <<cfg, flash, wifi, events, marker, spent>>

CosaAdvWifiDataConsumerDeInit(a) ==
    /\ Doing(a, "deinit") /\ consumer' = FALSE /\ Continue(a, <<>>)
    /\ UNCHANGED <<mem, cfg, flash, wifi, events, marker, faults, spent>>

(* What CosaAdvSecInit does about data collection.                          *)
DclAtInit(a) ==
    /\ Doing(a, "dclAtInit")
    /\ \/ mem["dcl"] /\ wifi /\ Continue(a, <<Step("initOrClear", "dcl", TRUE)>>) /\ UNCHANGED mem
       \/ mem' = [mem EXCEPT !["dcl"] = FALSE] /\ Continue(a, <<>>)
    /\ UNCHANGED <<cfg, flash, wifi, events, consumer, marker, faults, spent>>

(* The other tests of the data collection switch.                           *)
DclTest(a) ==
    /\ \/ Doing(a, "dclAtDeInit") /\ Continue(a, IF mem["dcl"] THEN <<Step("deinit", "dcl", FALSE)>> ELSE <<>>)
       \/ Doing(a, "dclIfOff")
          /\ Continue(a, IF mem["dcl"] THEN <<>> ELSE <<Step("init", "dcl", TRUE)>> \o Save("dcl", TRUE))
       \/ Doing(a, "dclIfOn") /\ Continue(a, IF mem["dcl"] THEN CosaAdvWifiDataCollectionDeInit ELSE <<>>)
    /\ UNCHANGED <<mem, cfg, flash, wifi, events, consumer, marker, faults, spent>>

(* OneWifi accepts a set of its parameter at once, later or not at all; a   *)
(* change is published.                                                     *)
Wifi_SetParameterValue(v) ==
    \/ wifi' = v /\ events' = IF up THEN Append(events, v) ELSE events
    \/ UNCHANGED <<wifi, events>>

LevlSwitch(a) ==
    /\ \/ /\ Doing(a, "wifiSet") /\ wifi # Value(a)
          /\ Wifi_SetParameterValue(Value(a)) /\ Continue(a, <<>>)
       \/ Doing(a, "wifiSet") /\ wifi = Value(a) /\ Continue(a, <<>>) /\ UNCHANGED <<wifi, events>>
       \/ Doing(a, "wifiSet") /\ wifi # Value(a) /\ Fail(a) /\ UNCHANGED <<wifi, events>>
       \/ Doing(a, "wifiWait") /\ wifi /\ Continue(a, <<>>) /\ UNCHANGED <<wifi, events>>
       \/ Doing(a, "wifiWait") /\ ~wifi /\ Fail(a) /\ UNCHANGED <<wifi, events>>  \* ten polls later
       \/ Doing(a, "wifiTry") /\ Continue(a, <<>>)
          /\ IF mem["levl"] /\ ~wifi THEN Wifi_SetParameterValue(TRUE) ELSE UNCHANGED <<wifi, events>>
    /\ UNCHANGED <<mem, cfg, flash, consumer, marker, faults, spent>>

advsec_update_feature_status(a) ==
    /\ Doing(a, "update")
    /\ Continue(a, IF Value(a) # mem[Feature(a)] THEN Save(Feature(a), Value(a)) ELSE <<>>)
    /\ UNCHANGED <<mem, cfg, flash, wifi, events, consumer, marker, faults, spent>>

(* The end of the blob: the agent is started or stopped if it has to be.    *)
BlobAgent(a) ==
    /\ Doing(a, "agent")
    /\ Continue(a, IF Value(a) = mem["fp"] THEN <<>> ELSE IF Value(a) THEN CosaAdvSecInit ELSE CosaAdvSecDeInit)
    /\ UNCHANGED <<mem, cfg, flash, wifi, events, consumer, marker, faults, spent>>

(* A variant that leaves the data collection switch without a value.        *)
LoadForgetsDcl(a) ==
    /\ Doing(a, "load") /\ Continue(a, <<>>)
    /\ mem' = [f \in Features \ {"dcl"} |-> cfg[f]]
    /\ UNCHANGED <<cfg, flash, wifi, events, consumer, marker, faults, spent>>

(* Boot: the switches come from syscfg.                                     *)
Load(a) ==
    /\ Doing(a, "load") /\ Continue(a, <<>>)
    /\ mem' = [cfg EXCEPT !["dcl"] = FALSE]
    /\ UNCHANGED <<cfg, flash, wifi, events, consumer, marker, faults, spent>>

(* Boot: with Levl, data collection is switched on, and a failure to        *)
(* persist that is only logged.                                             *)
DclBoot(a) ==
    /\ Doing(a, "dclBoot")
    /\ LET levl == mem["levl"] /\ wifi
       IN  /\ Continue(a, <<Step("dclValue", "dcl", levl \/ cfg["dcl"])>>)
           /\ \/ cfg' = [cfg EXCEPT !["dcl"] = levl \/ @] /\ flash' = (IF levl THEN cfg' ELSE flash)
                 /\ UNCHANGED faults
              \/ levl /\ MayFail /\ faults' = [faults EXCEPT !.set = @ + 1] /\ UNCHANGED <<cfg, flash>>
              \/ levl /\ MayFail /\ faults' = [faults EXCEPT !.commit = @ + 1]
                 /\ cfg' = [cfg EXCEPT !["dcl"] = TRUE] /\ UNCHANGED flash
    /\ UNCHANGED <<mem, wifi, events, consumer, marker, spent>>

(* Boot: without Device.WiFi.Levl data collection is off.                   *)
DclValue(a) ==
    /\ Doing(a, "dclValue") /\ Continue(a, <<>>)
    /\ mem' = [mem EXCEPT !["dcl"] = Value(a) /\ wifi]
    /\ UNCHANGED <<cfg, flash, wifi, events, consumer, marker, faults, spent>>

AgentBoot(a) ==
    /\ Doing(a, "agentBoot")
    /\ Continue(a, IF mem["fp"] THEN CosaAdvSecInit ELSE <<>>)
    /\ UNCHANGED <<mem, cfg, flash, wifi, events, consumer, marker, faults, spent>>

-----------------------------------------------------------------------------
(* The environment.                                                         *)

(* The process dies, or the device reboots, wherever the handlers are.  A   *)
(* set that was not yet committed is lost to a reboot; a process that dies  *)
(* between set and commit leaves it in syscfg, where the next one loads it. *)
Restart(reboot) ==
    /\ spent.restarts < MaxRestarts
    /\ spent' = [spent EXCEPT !.restarts = @ + 1]
    /\ cfg' = IF reboot THEN flash ELSE cfg
    /\ faults' = [faults EXCEPT !.cut = @ \/ cfg' # flash]
    /\ mem' = [f \in Features |-> FALSE]
    /\ todo' = [a \in Actors |-> IF a = "bus" THEN CosaSecurityInitialize ELSE <<>>]
    /\ job' = [a \in Actors |-> NoJob]
    /\ up' = FALSE /\ events' = <<>> /\ consumer' = FALSE /\ marker' = (marker /\ ~reboot)
    /\ UNCHANGED <<flash, wifi, promised>>

(* OneWifi's Levl parameter changes without this component.                 *)
OneWifiSets ==
    /\ spent.wifi < MaxWifi
    /\ spent' = [spent EXCEPT !.wifi = @ + 1]
    /\ wifi' = ~wifi
    /\ events' = IF up THEN Append(events, ~wifi) ELSE events
    /\ UNCHANGED <<mem, cfg, flash, todo, job, up, consumer, marker, promised, faults>>

(* The start script creates the marker when the agent is initialised and    *)
(* removes it when it is stopped.                                           *)
ScriptDone ==
    /\ marker # mem["fp"] /\ marker' = mem["fp"]
    /\ UNCHANGED <<mem, cfg, flash, todo, job, up, wifi, events, consumer, promised, faults, spent>>

Next ==
    \/ \E v \in BOOLEAN :
          \/ DeviceFingerPrint_SetParamBoolValue(v) \/ SafeBrowsing_SetParamBoolValue(v)
          \/ Softflowd_SetParamBoolValue(v) \/ AdvancedParentalControl_SetParamBoolValue(v)
          \/ PrivacyProtection_SetParamBoolValue(v) \/ Levl_RFC_SetParamBoolValue(v)
          \/ WifiDataCollection_RFC_SetParamBoolValue(v)
          \/ \E f \in Rfcs : RFC_SetParamBoolValue(f, v)
          \/ Restart(v)
    \/ \E doc \in Docs : advsec_webconfig_process_request(doc)
    \/ wifiEventReceiveHandler
    \/ \E a \in Actors :
          \/ Return(a) \/ syscfg_set(a) \/ syscfg_commit(a) \/ Assign(a) \/ MarkerCheck(a)
          \/ wifidcl_init_precheck(a) \/ CosaAdvWifiDataConsumerInit(a) \/ CosaAdvWifiDataConsumerDeInit(a)
          \/ DclAtInit(a) \/ DclTest(a) \/ LevlSwitch(a) \/ advsec_update_feature_status(a)
          \/ BlobAgent(a) \/ Load(a) \/ DclBoot(a) \/ DclValue(a) \/ AgentBoot(a)
    \/ OneWifiSets \/ ScriptDone

Spec == Init /\ [][Next]_vars

-----------------------------------------------------------------------------
(* Properties.                                                              *)

(* Type invariant of the switches, the requests and the environment.        *)
TypeOK ==
    /\ {mem, cfg, flash} \subseteq [Features -> BOOLEAN]
    /\ \A a \in Actors : DOMAIN job[a].asks \subseteq Features /\ (todo[a] # <<>> => Feature(a) \in Features)
    /\ promised \in [Features -> SUBSET BOOLEAN]
    /\ {up, wifi, consumer, marker} \subseteq BOOLEAN

(* A value a request wrote and answered for survives every later crash,     *)
(* reboot and failed write, wherever it strikes, until another request      *)
(* writes; a request that failed or was cut off leaves the old or the new   *)
(* value in memory, in syscfg and in the committed copy (CosaSetSysCfgUlong *)
(* and the set, commit and assignment of its callers).  A request that      *)
(* finds its value in memory writes nothing, and promises nothing when a    *)
(* failed or cut off commit has left syscfg behind.                         *)
Durable ==
    \A f \in Features \ {"dcl"} :
        flash[f] \in promised[f] /\ cfg[f] \in promised[f] /\ (up => mem[f] \in promised[f])

Quiet == up /\ \A a \in Actors : ~job[a].busy

(* With no failed write so far, once every handler has returned memory and  *)
(* syscfg agree on every switch but the data collection's, which            *)
(* CosaAdvSecInit and the boot sequence clear in memory only; the committed *)
(* copy agrees as well unless the process died between a set and its commit. *)
Agreement ==
    Quiet /\ faults.set + faults.commit = 0
        => \A f \in Features \ {"dcl"} : mem[f] = cfg[f] /\ (faults.cut \/ cfg[f] = flash[f])

(* Data collection that is switched on is running: whatever the order of    *)
(* setters, blobs, restarts and OneWifi events, with the agent on, no       *)
(* failed syscfg write and no handler caught in the middle by the event     *)
(* callback, bEnable of WifiDataCollection says so only when the consumer   *)
(* was initialised and not deinitialised since.                             *)
CollectionRuns ==
    Quiet /\ mem["fp"] /\ mem["dcl"] /\ faults.set + faults.commit = 0 /\ ~faults.overlap => consumer

(* A blob that fails leaves the switches as it found them                   *)
(* (advsec_webconfig_rollback).                                             *)
RollbackRestores ==
    [][job["webconfig"].busy /\ todo["webconfig"] # <<>> /\ ~job'["webconfig"].busy /\ up'
        => \A f \in BlobFeatures : mem'[f] = job["webconfig"].before[f]]_vars
=============================================================================
