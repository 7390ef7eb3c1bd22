------------------------------ MODULE AgentControl ------------------------------
(***************************************************************************)
(* How the agent process is started, stopped and restarted: the sysevent    *)
(* thread, the setters of the agent's and of safe browsing's switch and of  *)
(* the RFC switches (cosa_adv_security_internal.c), and the scripts they    *)
(* start in the background (start_adv_security.sh, advsec.sh,               *)
(* advsec_cpu_mem_recovery.sh).  The scripts know of each other only by     *)
(* marker files under /tmp; advsec_initializing is meant as a lock.         *)
(*                                                                          *)
(* A script runs in steps of a few commands each, between the commands that *)
(* wait.  Softflowd, parental control and privacy protection are started    *)
(* and stopped as safe browsing is and are left out, and so are the Levl    *)
(* and data collection switches (see FeatureConfig).                        *)
(***************************************************************************)
EXTENDS Naturals, Sequences

CONSTANTS
    Pids,            \* 1, 2, ...: bounds the scripts that run at the same time
    Switches,        \* the RFC switches of the instance
    Modes,           \* values of bridge_mode
    Stores,          \* syscfg contents the device may boot with
    MaxInputs,       \* bridge mode events and data model requests together
    MaxFaults        \* WAN changes, failures, crashes, restarts and reboots together

-----------------------------------------------------------------------------
(* The RFC switches.  The script of most restarts the agent ("RR"), that of *)
(* three the firewall only; all but one keep a marker file; and -enable     *)
(* restores the markers of all but four from syscfg.                        *)
Rfcs == {"icmp6", "ws", "raptr", "otm", "us", "ni", "agt", "sbrule", "ctw", "ct", "ctd",
         "sate", "tcp", "doh", "ech"}
RestartsAgent(s) == s \notin {"icmp6", "ws", "raptr"}
Marked == Switches \ {"otm"}
Restored == Marked \ {"sate", "tcp", "doh", "ech"}

ASSUME PidsAssumption == 1 \in Pids /\ Pids \subseteq Nat \ {0}
ASSUME SwitchesAssumption == Switches \subseteq Rfcs /\ ("ni" \in Switches => "us" \in Switches)
ASSUME ModesAssumption == {"0", "2"} \subseteq Modes /\ "restart" \notin Modes
Configs == [fp : BOOLEAN, sb : BOOLEAN, rfc : [Switches -> BOOLEAN]]
ASSUME StoresAssumption == Stores \subseteq Configs

VARIABLES
    fp,          \* g_pAdvSecAgent->bEnable
    cfg,         \* syscfg: the switches of the agent, of safe browsing and of the RFCs
    persist,     \* what CosaAdvSecInit or CosaAdvSecDeInit has still to write, or NoWrite
    mode,        \* bridge_mode of the device
    listening,   \* the sysevent thread has registered its notifications
    events,      \* notifications it has not handled
    prevBridge,  \* prevBridgeMode
    logger,      \* the logger thread runs
    scripts,     \* the background scripts
    files,       \* the marker files
    up,          \* the agent process runs
    on,          \* the features switched on in it
    trouble,     \* scripts overlapped, something failed, or an RFC restarted the agent in bridge mode
    killed,      \* a script was killed since the last reboot
    inputs,      \* events and requests so far
    faults       \* what happened so far of what MaxFaults bounds

service == <<fp, cfg, persist, logger>>
device == <<mode, listening, events, prevBridge>>
agent == <<files, up, on>>
history == <<trouble, killed, inputs, faults>>
vars == <<fp, cfg, persist, mode, listening, events, prevBridge, logger, scripts, files, up, on,
          trouble, killed, inputs, faults>>

NoWrite == "none"
NoConfig == [fp |-> FALSE, sb |-> FALSE, rfc |-> [s \in Switches |-> FALSE]]
NoScript == [op |-> "none", pc |-> "none", arg |-> "none", conf |-> NoConfig]
Script(op, arg) == [op |-> op, pc |-> "new", arg |-> arg, conf |-> NoConfig]
Running == {p \in Pids : scripts[p] # NoScript}

(* A background script takes the lowest free number.                        *)
Free(p) == scripts[p] = NoScript /\ \A q \in Pids : scripts[q] = NoScript => p <= q
Room == Running # Pids
Spawned(op, arg) == \E p \in Pids : Free(p) /\ scripts' = [scripts EXCEPT ![p] = Script(op, arg)]

Input == inputs < MaxInputs /\ inputs' = inputs + 1
Disturbance == faults < MaxFaults /\ faults' = faults + 1
Fault == Disturbance /\ trouble' = TRUE

(* The boot sequence as far as the agent is concerned: the switch is read,  *)
(* CosaAdvSecInit runs when it is on, and then the threads are started.     *)
Boot(stored) ==
    [fp |-> stored.fp, logger |-> stored.fp,
     scripts |-> [p \in Pids |-> IF stored.fp /\ \A q \in Pids : p <= q THEN Script("enable", "none") ELSE NoScript]]

Init ==
    /\ cfg \in Stores /\ mode \in Modes
    /\ LET boot == Boot(cfg) IN fp = boot.fp /\ logger = boot.logger /\ scripts = boot.scripts
    /\ persist = NoWrite
    /\ listening = FALSE /\ events = <<>> /\ prevBridge = ""
    /\ files = {} /\ up = FALSE /\ on = {}
    /\ trouble = FALSE /\ killed = FALSE /\ inputs = 0 /\ faults = 0

-----------------------------------------------------------------------------
(* The setters.                                                             *)

(* The sysevent thread knows the mode of the device, or is about to read it *)
(* (a script that could not be started leaves prevBridge behind).           *)
InStep == prevBridge \in {"", mode} \/ \E i \in DOMAIN events : events[i] # "restart"

(* A script is started: a -disable that has the system to itself removes    *)
(* what is left of earlier trouble, an overlap is trouble.                  *)
Launched(op, arg) ==
    /\ Room /\ Spawned(op, arg)
    /\ trouble' = (Running # {} \/ (trouble /\ ~(op = "disable" /\ InStep)))

(* v_secure_system("... &"): the shell is forked or it is not.              *)
v_secure_system(op, arg) ==
    \/ Launched(op, arg) /\ UNCHANGED faults
    \/ Fault /\ UNCHANGED scripts

(* A setter runs to its end before the next one is called.                  *)
SetterCalled == persist = NoWrite /\ Input

(* DeviceFingerPrint_SetParamBoolValue: CosaAdvSecInit and CosaAdvSecDeInit *)
(* start the script first, *)
DeviceFingerPrint_SetParamBoolValue(v) ==
    /\ SetterCalled /\ v # fp
    /\ v_secure_system(IF v THEN "enable" ELSE "disable", "none")
    /\ fp' = v /\ persist' = IF v THEN "on" ELSE "off"
    /\ UNCHANGED <<cfg, logger, device, agent, killed>>

(* and persist the value afterwards.                                        *)
PersistSwitch ==
    /\ persist # NoWrite /\ persist' = NoWrite
    /\ \/ cfg' = [cfg EXCEPT !.fp = (persist = "on")] /\ UNCHANGED <<trouble, faults>>
       \/ Fault /\ UNCHANGED cfg
    /\ UNCHANGED <<fp, logger, device, scripts, agent, killed, inputs>>

(* SafeBrowsing_SetParamBoolValue: the agent has to be on, and to be        *)
(* initialised for a start (CosaAdvSecStartFeatures).                       *)
SafeBrowsing_SetParamBoolValue(v) ==
    /\ SetterCalled
    /\ fp /\ v # cfg.sb /\ (v => "initialized" \in files)
    /\ cfg' = [cfg EXCEPT !.sb = v]
    /\ v_secure_system(IF v THEN "startsb" ELSE "stopsb", "none")
    /\ UNCHANGED <<fp, persist, logger, device, agent, killed>>

(* What the Init and DeInit functions of the RFC switches have in common:   *)
(* persist, keep, start the script.                                         *)
SetRfc(s, v) ==
    /\ cfg' = [cfg EXCEPT !.rfc[s] = v]
    /\ v_secure_system(IF v THEN "rfcOn" ELSE "rfcOff", s)

CosaAdvDFIcmpv6(v) == SetRfc("icmp6", v)
CosaWSDis(v) == SetRfc("ws", v)
CosaAdvSecAgentRaptr(v) == SetRfc("raptr", v)
CosaAdvSecOTM(v) == SetRfc("otm", v)
CosaAdvSecUserSpace(v) == v /\ SetRfc("us", v)
CosaAdvSecNetworkIntelligence(v) == (v => cfg.rfc["us"]) /\ SetRfc("ni", v)
CosaAdvSecAgent(v) == SetRfc("agt", v)
CosaAdvSecSafeBrowsing(v) == SetRfc("sbrule", v)
CosaAdvSecCujoTelemetryWiFiFP(v) == SetRfc("ctw", v)
CosaAdvSecCujoTracer(v) == SetRfc("ct", v)
CosaAdvSecCujoTelemetry(v) == SetRfc("ctd", v)
CosaAdvSecSATE(v) == SetRfc("sate", v)
CosaAdvSecTCPTrackerFilterDevices(v) == SetRfc("tcp", v)
CosaAdvSecDoHBlocking(v) == SetRfc("doh", v)
CosaAdvSecDNSECHBlocking(v) == SetRfc("ech", v)

RfcFunction(s, v) ==
    CASE s = "icmp6" -> CosaAdvDFIcmpv6(v)
      [] s = "ws" -> CosaWSDis(v)
      [] s = "raptr" -> CosaAdvSecAgentRaptr(v)
      [] s = "otm" -> CosaAdvSecOTM(v)
      [] s = "us" -> CosaAdvSecUserSpace(v)
      [] s = "ni" -> CosaAdvSecNetworkIntelligence(v)
      [] s = "agt" -> CosaAdvSecAgent(v)
      [] s = "sbrule" -> CosaAdvSecSafeBrowsing(v)
      [] s = "ctw" -> CosaAdvSecCujoTelemetryWiFiFP(v)
      [] s = "ct" -> CosaAdvSecCujoTracer(v)
      [] s = "ctd" -> CosaAdvSecCujoTelemetry(v)
      [] s = "sate" -> CosaAdvSecSATE(v)
      [] s = "tcp" -> CosaAdvSecTCPTrackerFilterDevices(v)
      [] s = "doh" -> CosaAdvSecDoHBlocking(v)
      [] s = "ech" -> CosaAdvSecDNSECHBlocking(v)

(* The setters of the RFC switches.                                         *)
RFC_SetParamBoolValue(s, v) ==
    /\ SetterCalled /\ v # cfg.rfc[s]
    /\ RfcFunction(s, v)
    /\ UNCHANGED <<fp, persist, logger, device, agent, killed>>

-----------------------------------------------------------------------------
(* The sysevent thread.                                                     *)

(* The device changes its mode, or publishes it again.                      *)
BridgeModeEvent(m) ==
    /\ Input
    /\ mode' = m
    /\ events' = IF listening THEN Append(events, m) ELSE events
    /\ trouble' = (trouble \/ (~listening /\ m # mode))
    /\ UNCHANGED <<service, listening, prevBridge, scripts, agent, killed, faults>>

(* map_t_config_changed, or another current_wan_ifname.                     *)
RestartEvent ==
    /\ listening /\ Disturbance
    /\ events' = Append(events, "restart")
    /\ UNCHANGED <<service, mode, listening, prevBridge, scripts, agent, trouble, killed, inputs>>

(* advsec_sysevent_init, tried again every second until it succeeds.        *)
advsec_sysevent_init ==
    /\ ~listening /\ listening' = TRUE
    /\ UNCHANGED <<service, mode, events, prevBridge, scripts, agent, history>>

(* What a notification asks for: a script, or nothing.                      *)
ScriptFor(e) == CASE e = "0" -> "enable" [] e = "2" -> "disable" [] e = "restart" -> "restart" [] OTHER -> "none"

(* A mode seen before, or one that needs no script.                         *)
NothingToDo(e) == e = prevBridge \/ ScriptFor(e) = "none"

(* A variant that remembers a restart as if it were a mode.                 *)
HandleRemembersRestart ==
    /\ events # <<>> /\ events' = Tail(events)
    /\ LET e == Head(events)
       IN  /\ IF NothingToDo(e) THEN UNCHANGED <<scripts, trouble, faults>> ELSE v_secure_system(ScriptFor(e), "none")
           /\ prevBridge' = IF NothingToDo(e) \/ scripts' # scripts THEN e ELSE prevBridge
    /\ UNCHANGED <<service, mode, listening, agent, killed, inputs>>

(* advsec_handle_sysevent_notification: a mode counts as seen once its      *)
(* script was started.                                                      *)
advsec_handle_sysevent_notification ==
    /\ events # <<>> /\ events' = Tail(events)
    /\ LET e == Head(events)
       IN  /\ IF NothingToDo(e) THEN UNCHANGED <<scripts, trouble, faults>> ELSE v_secure_system(ScriptFor(e), "none")
           /\ prevBridge' = IF e # "restart" /\ (NothingToDo(e) \/ scripts' # scripts) THEN e ELSE prevBridge
    /\ UNCHANGED <<service, mode, listening, agent, killed, inputs>>

-----------------------------------------------------------------------------
(* The scripts.                                                             *)

At(p, ops, pc) == scripts[p].op \in ops /\ scripts[p].pc = pc
Goto(p, pc) == scripts' = [scripts EXCEPT ![p].pc = pc]
Exit(p) == scripts' = [scripts EXCEPT ![p] = NoScript]
ScriptOnly == UNCHANGED <<service, device, killed, inputs>>

(* advsec.sh reads syscfg when a script starts; only -enable goes by what   *)
(* it read.  What the setter is about to write comes too late.              *)
EnableReads(p) ==
    /\ At(p, {"enable"}, "new")
    /\ scripts' = [scripts EXCEPT ![p].pc = "gate", ![p].conf = cfg]
    /\ trouble' = (trouble \/ persist # NoWrite)
    /\ UNCHANGED <<agent, faults>> /\ ScriptOnly

(* A variant that does not look at the mode.                                *)
GateInAnyMode(p) ==
    /\ At(p, {"enable", "restart", "rfcOn", "rfcOff", "recovery"}, "gate")
    /\ IF "initializing" \in files THEN Exit(p) ELSE Goto(p, "touch")
    /\ UNCHANGED <<agent, history>> /\ ScriptOnly

(* Only -enable looks at the mode.                                          *)
Gate(p) ==
    /\ At(p, {"enable", "restart", "rfcOn", "rfcOff", "recovery"}, "gate")
    /\ IF (scripts[p].op = "enable" /\ mode = "2") \/ "initializing" \in files THEN Exit(p) ELSE Goto(p, "touch")
    /\ UNCHANGED <<agent, history>> /\ ScriptOnly

(* -enable starts the agent, advsec_restart_agent stops it first.           *)
Touch(p) ==
    /\ scripts[p].pc = "touch"
    /\ files' = files \cup {"initializing"}
    /\ Goto(p, IF scripts[p].op = "enable" THEN "launch" ELSE "stop")
    /\ UNCHANGED <<up, on, history>> /\ ScriptOnly

advsec_stop_agent(p) ==
    /\ scripts[p].op # "disable" /\ scripts[p].pc = "stop"
    /\ up' = FALSE /\ on' = {}
    /\ Goto(p, "launch")
    /\ UNCHANGED <<files, history>> /\ ScriptOnly

advsec_start_agent(p) ==
    /\ scripts[p].pc = "launch"
    /\ Goto(p, "wait")
    /\ \/ up' = TRUE /\ UNCHANGED <<trouble, faults>>
       \/ ~up /\ Fault /\ UNCHANGED up
    /\ UNCHANGED <<files, on>> /\ ScriptOnly

(* A variant that leaves the marker behind when the agent does not come up. *)
WaitKeepsMarker(p) ==
    /\ scripts[p].pc = "wait"
    /\ IF scripts[p].op # "enable" THEN Goto(p, "again") ELSE IF up THEN Goto(p, "fp") ELSE Exit(p)
    /\ UNCHANGED <<agent, history>> /\ ScriptOnly

(* advsec_wait_for_agent: -enable gives up when the agent does not run,     *)
(* advsec_restart_agent does not look.                                      *)
advsec_wait_for_agent(p) ==
    /\ scripts[p].pc = "wait"
    /\ \/ scripts[p].op # "enable" /\ Goto(p, "again") /\ UNCHANGED files
       \/ scripts[p].op = "enable" /\ up /\ Goto(p, "fp") /\ UNCHANGED files
       \/ scripts[p].op = "enable" /\ ~up /\ Exit(p) /\ files' = files \ {"initializing"}
    /\ UNCHANGED <<up, on, history>> /\ ScriptOnly

(* A feature is switched on in an agent that runs; its marker is created    *)
(* either way.                                                              *)
Start(features, markers) ==
    /\ on' = IF up THEN on \cup features ELSE on
    /\ files' = markers \cup features
    /\ UNCHANGED up

Chosen(f, v) == IF v THEN {f} ELSE {}

(* The end of start_agent_services, and advsec_initialized.                 *)
EnableFingerprint(p) ==
    /\ At(p, {"enable"}, "fp")
    /\ Start(Chosen("fp", scripts[p].conf.fp), files \cup {"initialized"})
    /\ Goto(p, "rest")
    /\ UNCHANGED history /\ ScriptOnly

(* A variant that only adds the markers of the switches that are on.        *)
EnableRestAdds(p) ==
    /\ At(p, {"enable"}, "rest")
    /\ LET conf == scripts[p].conf
       IN  Start(Chosen("sb", conf.sb), files)
    /\ Goto(p, "end")
    /\ UNCHANGED history /\ ScriptOnly

(* The rest of -enable: safe browsing and the markers of the RFCs.          *)
EnableRest(p) ==
    /\ At(p, {"enable"}, "rest")
    /\ LET conf == scripts[p].conf
       IN  Start(Chosen("sb", conf.sb), (files \ Restored) \cup {s \in Restored : conf.rfc[s]})
    /\ Goto(p, "end")
    /\ UNCHANGED history /\ ScriptOnly

(* A variant that forgets safe browsing.                                    *)
StartFingerprintAgain(p) ==
    /\ scripts[p].pc = "again"
    /\ Start({"fp"} \cap files, files)
    /\ Goto(p, "end")
    /\ UNCHANGED history /\ ScriptOnly

(* The rest of advsec_restart_agent: the features that have a marker.       *)
StartAgain(p) ==
    /\ scripts[p].pc = "again"
    /\ Start({"fp", "sb"} \cap files, files)
    /\ Goto(p, "end")
    /\ UNCHANGED history /\ ScriptOnly

Unlock(p) ==
    /\ scripts[p].pc = "end"
    /\ files' = files \ {"initializing"}
    /\ Exit(p)
    /\ UNCHANGED <<up, on, history>> /\ ScriptOnly

(* stop_agent_services *)
DisableStops(p) ==
    /\ At(p, {"disable"}, "new")
    /\ up' = FALSE /\ on' = {} /\ files' = files \ {"fp", "sb"}
    /\ Goto(p, "clear")
    /\ UNCHANGED history /\ ScriptOnly

(* The rest of -disable removes the markers.                                *)
DisableClears(p) ==
    /\ At(p, {"disable"}, "clear")
    /\ files' = files \ ({"initialized", "initializing", "sb"} \cup Marked)
    /\ Exit(p)
    /\ UNCHANGED <<up, on, history>> /\ ScriptOnly

(* -start sb, -stop sb *)
SafeBrowsingScript(p) ==
    /\ \/ At(p, {"startsb"}, "new") /\ Start({"sb"}, files)
       \/ At(p, {"stopsb"}, "new") /\ files' = files \ {"sb"} /\ UNCHANGED up
          /\ on' = IF "sb" \in files THEN on \ {"sb"} ELSE on
    /\ Exit(p)
    /\ UNCHANGED history /\ ScriptOnly

(* -enableX and -disableX of an RFC: the marker, and then the agent's or    *)
(* the firewall's restart.                                                  *)
RfcScript(p) ==
    /\ At(p, {"rfcOn", "rfcOff"}, "new")
    /\ LET s == scripts[p].arg
       IN  /\ files' = IF scripts[p].op = "rfcOn" THEN files \cup ({s} \cap Marked) ELSE files \ {s}
           /\ IF RestartsAgent(s) THEN Goto(p, "gate") ELSE Exit(p)
           /\ trouble' = (trouble \/ (RestartsAgent(s) /\ mode = "2"))
    /\ UNCHANGED <<up, on, faults>> /\ ScriptOnly

(* -restartAgent: only when the fingerprint marker exists.                  *)
RestartScript(p) ==
    /\ At(p, {"restart"}, "new")
    /\ IF "fp" \in files THEN Goto(p, "gate") ELSE Exit(p)
    /\ UNCHANGED <<agent, history>> /\ ScriptOnly

-----------------------------------------------------------------------------
(* advsec_cpu_mem_recovery.sh, started every hour by the logger thread.     *)

(* A run of it takes minutes: the one before has ended.                     *)
Recover ==
    /\ logger /\ \A p \in Pids : scripts[p].op # "recovery"
    /\ Launched("recovery", "none")
    /\ UNCHANGED <<service, device, agent, killed, inputs, faults>>

(* It leaves in bridge mode, and when there is neither an agent nor a       *)
(* script that starts one.                                                  *)
RecoveryStarts(p) ==
    /\ At(p, {"recovery"}, "new")
    /\ \/ mode # "2" /\ "initializing" \in files
          /\ scripts' = [scripts EXCEPT ![p].pc = "settle", ![p].arg = IF up THEN "up" ELSE "down"]
       \/ mode # "2" /\ "initializing" \notin files /\ up /\ Goto(p, "check")
       \/ (mode = "2" \/ ("initializing" \notin files /\ ~up)) /\ Exit(p)
    /\ UNCHANGED <<agent, history>> /\ ScriptOnly

(* A variant that leaves the marker to the script that made it.             *)
RecoveryWaits(p) ==
    /\ At(p, {"recovery"}, "settle")
    /\ IF up \/ scripts[p].arg = "up" THEN Goto(p, "check") ELSE Exit(p)
    /\ UNCHANGED <<agent, history>> /\ ScriptOnly

(* After advsec_wait_for_agent the marker is removed, whoever made it.      *)
RecoverySettles(p) ==
    /\ At(p, {"recovery"}, "settle")
    /\ files' = files \ {"initializing"}
    /\ IF up \/ scripts[p].arg = "up" THEN Goto(p, "check") ELSE Exit(p)
    /\ UNCHANGED <<up, on, history>> /\ ScriptOnly

(* Too many processes or too much memory is a reason to restart.            *)
RecoveryChecks(p) ==
    /\ At(p, {"recovery"}, "check")
    /\ Goto(p, "gate") \/ Exit(p)
    /\ UNCHANGED <<agent, history>> /\ ScriptOnly

ScriptStep(p) ==
    \/ EnableReads(p) \/ Gate(p) \/ Touch(p) \/ advsec_stop_agent(p) \/ advsec_start_agent(p)
    \/ advsec_wait_for_agent(p) \/ EnableFingerprint(p) \/ EnableRest(p) \/ StartAgain(p) \/ Unlock(p)
    \/ DisableStops(p) \/ DisableClears(p) \/ SafeBrowsingScript(p) \/ RfcScript(p) \/ RestartScript(p)
    \/ RecoveryStarts(p) \/ RecoverySettles(p) \/ RecoveryChecks(p)

-----------------------------------------------------------------------------
(* The environment.                                                         *)

AgentCrashes ==
    /\ up /\ Fault
    /\ up' = FALSE /\ on' = {}
    /\ UNCHANGED <<service, device, scripts, files, killed, inputs>>

ScriptKilled(p) ==
    /\ p \in Running /\ Fault
    /\ Exit(p) /\ killed' = TRUE
    /\ UNCHANGED <<service, device, agent, inputs>>

(* The process starts again: memory comes from syscfg.                      *)
Reloaded ==
    /\ Disturbance
    /\ fp' = cfg.fp /\ logger' = cfg.fp /\ persist' = NoWrite
    /\ listening' = FALSE /\ events' = <<>> /\ prevBridge' = ""
    /\ UNCHANGED <<cfg, mode, inputs>>

(* The scripts, the agent and the files outlive the process, *)
Restart ==
    /\ Reloaded /\ Room
    /\ \/ cfg.fp /\ Spawned("enable", "none")
       \/ ~cfg.fp /\ UNCHANGED scripts
    /\ trouble' = (trouble \/ Running # {} \/ events # <<>> \/ persist # NoWrite)
    /\ UNCHANGED <<agent, killed>>

(* and nothing outlives a reboot.                                           *)
Reboot ==
    /\ Reloaded
    /\ scripts' = Boot(cfg).scripts
    /\ files' = {} /\ up' = FALSE /\ on' = {}
    /\ trouble' = FALSE /\ killed' = FALSE

Next ==
    \/ \E v \in BOOLEAN :
          \/ DeviceFingerPrint_SetParamBoolValue(v) \/ SafeBrowsing_SetParamBoolValue(v)
          \/ \E s \in Switches : RFC_SetParamBoolValue(s, v)
    \/ PersistSwitch
    \/ \E m \in Modes : BridgeModeEvent(m)
    \/ RestartEvent \/ advsec_sysevent_init \/ advsec_handle_sysevent_notification
    \/ Recover \/ AgentCrashes \/ Restart \/ Reboot
    \/ \E p \in Pids : ScriptStep(p) \/ ScriptKilled(p)

Spec == Init /\ [][Next]_vars

(* Scripts and threads are scheduled, and the logger thread starts the      *)
(* recovery script every hour.                                              *)
FairSpec ==
    /\ Spec
    /\ WF_vars(PersistSwitch) /\ WF_vars(advsec_sysevent_init) /\ WF_vars(advsec_handle_sysevent_notification)
    /\ WF_vars(Recover) /\ \A p \in Pids : WF_vars(ScriptStep(p))

-----------------------------------------------------------------------------
(* Properties.                                                              *)

Ops == {"enable", "disable", "restart", "rfcOn", "rfcOff", "startsb", "stopsb", "recovery"}
Locked == {"stop", "launch", "wait", "fp", "rest", "again", "end"}
Steps == Locked \cup {"new", "gate", "touch", "clear", "settle", "check"}
Scripts ==
    {NoScript} \cup [op : Ops, pc : Steps, arg : Switches \cup {"none", "up", "down"}, conf : Configs]

(* Type invariant.                                                          *)
TypeOK ==
    /\ fp \in BOOLEAN /\ listening \in BOOLEAN /\ logger \in BOOLEAN /\ up \in BOOLEAN
    /\ trouble \in BOOLEAN /\ killed \in BOOLEAN
    /\ cfg \in Configs /\ persist \in {NoWrite, "on", "off"}
    /\ mode \in Modes /\ prevBridge \in Modes \cup {""} /\ events \in Seq(Modes \cup {"restart"})
    /\ scripts \in [Pids -> Scripts]
    /\ files \subseteq {"initializing", "initialized", "fp", "sb"} \cup Marked
    /\ on \subseteq {"fp", "sb"}

Quiet == Running = {} /\ events = <<>> /\ persist = NoWrite

(* What runs is what is configured: once all scripts have ended in router   *)
(* mode, the agent runs with exactly the features that are switched on,     *)
(* through any sequence of mode changes, restarts of the agent, requests,   *)
(* restarts of the process and failures, provided no two scripts overlapped *)
(* and nothing failed since the last reboot or the last -disable that had   *)
(* the system to itself.                                                    *)
FeaturesFollow ==
    Quiet /\ ~trouble /\ fp /\ cfg.fp /\ mode = "0"
        => up /\ "initialized" \in files /\ on = {"fp"} \cup Chosen("sb", cfg.sb)

(* The agent does not run in bridge mode, under the same proviso: neither   *)
(* requests nor WAN changes, recovery or restarts of the process start it   *)
(* there, but for an RFC switch whose script restarts it.                   *)
NotInBridgeMode == Quiet /\ ~trouble /\ mode = "2" => ~up /\ on = {}

(* The markers of the RFCs that -enable restores are those of the switches  *)
(* that are on, and no RFC that is off has one.                             *)
RfcMarkersFollow ==
    Quiet /\ ~trouble /\ fp /\ mode = "0"
        => /\ files \cap Restored = {s \in Restored : cfg.rfc[s]}
           /\ \A s \in files \cap Switches : cfg.rfc[s]

(* advsec_initializing keeps every later start and restart of the agent     *)
(* away.  No script leaves it behind: however scripts overlap, while it is  *)
(* there a script is running that will remove it, or one was killed.        *)
NoStaleLock == "initializing" \in files => killed \/ \E p \in Pids : scripts[p].pc \in Locked

(* If one was killed, the recovery script removes it within the hour,       *)
(* unless it does not run: in bridge mode, or without the logger thread.    *)
LockRemoved == "initializing" \in files ~> ("initializing" \notin files \/ mode = "2" \/ ~logger)
=============================================================================
