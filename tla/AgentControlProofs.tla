-------------------------- MODULE AgentControlProofs --------------------------
(***************************************************************************)
(* Proofs about AgentControl, for any number of scripts at the same time,   *)
(* any RFC switches, modes and stored configurations, without bounds:       *)
(* types, that no script leaves advsec_initializing behind unless one is    *)
(* killed, and what holds as long as scripts do not overlap: the agent, its *)
(* features and the markers are what is configured, and the agent does not  *)
(* run in bridge mode.                                                      *)
(***************************************************************************)
EXTENDS AgentControl, SequenceTheorems, TLAPS

-----------------------------------------------------------------------------
(* The script records.                                                      *)

ScriptType == scripts \in [Pids -> Scripts]

Args == Switches \cup {"none", "up", "down"}

(* A script that is anywhere in its text is a record of the second kind.    *)
LEMMA RunningScript ==
  ASSUME NEW s \in Scripts, s.pc # "none"
  PROVE  s \in [op : Ops, pc : Steps, arg : Args, conf : Configs]
  BY DEF Scripts, NoScript, Args

(* No script is nowhere in its text.                                        *)
LEMMA NoScriptFacts == NoScript \in Scripts /\ NoScript.pc = "none" /\ "none" \notin Locked
  BY DEF Scripts, NoScript, Locked

(* A new script is a record of the second kind, at its beginning.           *)
LEMMA NewScript ==
  ASSUME NEW op \in Ops, NEW arg \in Args
  PROVE  Script(op, arg) \in Scripts /\ Script(op, arg).pc = "new"
<1>1. NoConfig \in Configs
  BY DEF NoConfig, Configs
<1> QED
  BY <1>1 DEF Script, Scripts, Steps, Args

(* A script that goes on stays a script, and the others are left alone.     *)
LEMMA GotoScript ==
  ASSUME ScriptType, NEW p \in Pids, NEW pc \in Steps, scripts[p].pc # "none", Goto(p, pc)
  PROVE  /\ ScriptType'
         /\ scripts'[p].pc = pc
         /\ \A q \in Pids : q # p => scripts'[q] = scripts[q]
<1>1. scripts[p] \in [op : Ops, pc : Steps, arg : Args, conf : Configs]
  BY RunningScript DEF ScriptType
<1>2. scripts' = [scripts EXCEPT ![p] = [scripts[p] EXCEPT !.pc = pc]]
  BY DEF Goto
<1>3. [scripts[p] EXCEPT !.pc = pc] \in [op : Ops, pc : Steps, arg : Args, conf : Configs]
  BY <1>1
<1>4. [scripts[p] EXCEPT !.pc = pc].pc = pc
  BY <1>1
<1>5. [scripts[p] EXCEPT !.pc = pc] \in Scripts
  BY <1>3 DEF Scripts, Args
<1> QED
  BY <1>2, <1>4, <1>5 DEF ScriptType

(* A script that ends leaves the others alone.                              *)
LEMMA ExitScript ==
  ASSUME ScriptType, NEW p \in Pids, Exit(p)
  PROVE  /\ ScriptType'
         /\ \A q \in Pids : q # p => scripts'[q] = scripts[q]
  BY NoScriptFacts DEF ScriptType, Exit

(* A script that is started takes the place of none.                        *)
LEMMA SpawnedScript ==
  ASSUME ScriptType, NEW op \in Ops, NEW arg \in Args, Spawned(op, arg)
  PROVE  /\ ScriptType'
         /\ \A q \in Pids : scripts[q] # NoScript => scripts'[q] = scripts[q]
<1>1. PICK p \in Pids : Free(p) /\ scripts' = [scripts EXCEPT ![p] = Script(op, arg)]
  BY DEF Spawned
<1>2. Script(op, arg) \in Scripts
  BY NewScript
<1> QED
  BY <1>1, <1>2 DEF ScriptType, Free

(* After a boot one script runs, or none.                                   *)
LEMMA BootScripts ==
  ASSUME NEW c \in Configs
  PROVE  /\ Boot(c).scripts \in [Pids -> Scripts]
         /\ Boot(c).fp \in BOOLEAN /\ Boot(c).logger \in BOOLEAN
<1>1. Script("enable", "none") \in Scripts
  BY NewScript DEF Ops, Args
<1> QED
  BY <1>1, NoScriptFacts DEF Boot, Configs

(* A shell that is forked, or is not, changes no script that runs.          *)
LEMMA SystemCall ==
  ASSUME ScriptType, NEW op \in Ops, NEW arg \in Args, trouble \in BOOLEAN, v_secure_system(op, arg)
  PROVE  /\ ScriptType' /\ trouble' \in BOOLEAN
         /\ \A q \in Pids : scripts[q] # NoScript => scripts'[q] = scripts[q]
<1>1. CASE Launched(op, arg)
  <2>1. Spawned(op, arg)
    BY <1>1 DEF Launched
  <2>2. trouble' \in BOOLEAN
    BY <1>1 DEF Launched
  <2> QED
    BY <2>1, <2>2, SpawnedScript
<1>2. CASE Fault /\ UNCHANGED scripts
  BY <1>2 DEF Fault, ScriptType
<1> QED
  BY <1>1, <1>2 DEF v_secure_system

-----------------------------------------------------------------------------
(* The lock.                                                                *)

(* A step that creates no lock and takes no script out of the stretch that  *)
(* holds it keeps the lock from being stale.                                *)
LEMMA LockKept ==
  ASSUME NoStaleLock, "initializing" \in files' => "initializing" \in files, killed' = killed,
         \A q \in Pids : scripts[q].pc \in Locked => scripts'[q].pc \in Locked
  PROVE  NoStaleLock'
  BY DEF NoStaleLock

(* So does a step that starts scripts only.                                 *)
LEMMA LockKeptBySpawn ==
  ASSUME NoStaleLock, UNCHANGED <<files, killed>>,
         \A q \in Pids : scripts[q] # NoScript => scripts'[q] = scripts[q]
  PROVE  NoStaleLock'
<1>1. \A q \in Pids : scripts[q].pc \in Locked => scripts[q] # NoScript
  BY NoScriptFacts
<1> QED
  BY <1>1, LockKept

IInv == TypeOK /\ NoStaleLock

(* No marker of an RFC switch has the name of the lock.                     *)
LEMMA Markers ==
  /\ "initializing" \notin Switches /\ "initializing" \notin Marked
  /\ Marked \subseteq Switches /\ Restored \subseteq Marked
  BY SwitchesAssumption DEF Rfcs, Marked, Restored

(* The device boots without markers.                                        *)
LEMMA InitEstablishes == Init => IInv
<1> SUFFICES ASSUME Init PROVE IInv
  OBVIOUS
<1>1. cfg \in Configs
  BY StoresAssumption DEF Init
<1>2. fp \in BOOLEAN /\ logger \in BOOLEAN /\ scripts \in [Pids -> Scripts]
  BY <1>1, BootScripts DEF Init
<1>3. events \in Seq(Modes \cup {"restart"})
  BY EmptySeq DEF Init
<1>4. TypeOK
  BY <1>1, <1>2, <1>3 DEF Init, TypeOK, NoWrite
<1>5. NoStaleLock
  BY DEF Init, NoStaleLock
<1> QED
  BY <1>4, <1>5 DEF IInv

-----------------------------------------------------------------------------
(* The setters and the sysevent thread.                                     *)

(* An RFC's function persists the value and starts its script.              *)
LEMMA RfcCall ==
  ASSUME TypeOK, NEW s \in Switches, NEW v \in BOOLEAN, RfcFunction(s, v)
  PROVE  SetRfc(s, v)
  BY SwitchesAssumption
  DEF RfcFunction, Rfcs, CosaAdvDFIcmpv6, CosaWSDis, CosaAdvSecAgentRaptr, CosaAdvSecOTM,
      CosaAdvSecUserSpace, CosaAdvSecNetworkIntelligence, CosaAdvSecAgent, CosaAdvSecSafeBrowsing,
      CosaAdvSecCujoTelemetryWiFiFP, CosaAdvSecCujoTracer, CosaAdvSecCujoTelemetry, CosaAdvSecSATE,
      CosaAdvSecTCPTrackerFilterDevices, CosaAdvSecDoHBlocking, CosaAdvSecDNSECHBlocking

(* A setter starts a script and leaves the markers alone.                   *)
LEMMA SetterPreserves ==
  ASSUME IInv, NEW v \in BOOLEAN,
         \/ DeviceFingerPrint_SetParamBoolValue(v) \/ SafeBrowsing_SetParamBoolValue(v)
         \/ \E s \in Switches : RFC_SetParamBoolValue(s, v)
  PROVE  IInv'
<1> USE DEF IInv
<1>0. ScriptType /\ trouble \in BOOLEAN /\ cfg \in Configs
  BY DEF TypeOK, ScriptType
<1>1. CASE DeviceFingerPrint_SetParamBoolValue(v)
  <2>1. PICK op \in Ops : v_secure_system(op, "none")
    BY <1>1 DEF DeviceFingerPrint_SetParamBoolValue, Ops
  <2>2. /\ ScriptType' /\ trouble' \in BOOLEAN
        /\ \A q \in Pids : scripts[q] # NoScript => scripts'[q] = scripts[q]
    BY <1>0, <2>1, SystemCall DEF Args
  <2>3. NoStaleLock'
    BY <1>1, <2>2, LockKeptBySpawn DEF DeviceFingerPrint_SetParamBoolValue, agent
  <2>4. TypeOK'
    BY <1>1, <2>2 DEF DeviceFingerPrint_SetParamBoolValue, agent, device, TypeOK, ScriptType
  <2> QED
    BY <2>3, <2>4
<1>2. CASE SafeBrowsing_SetParamBoolValue(v)
  <2>1. PICK op \in Ops : v_secure_system(op, "none")
    BY <1>2 DEF SafeBrowsing_SetParamBoolValue, Ops
  <2>2. /\ ScriptType' /\ trouble' \in BOOLEAN
        /\ \A q \in Pids : scripts[q] # NoScript => scripts'[q] = scripts[q]
    BY <1>0, <2>1, SystemCall DEF Args
  <2>3. NoStaleLock'
    BY <1>2, <2>2, LockKeptBySpawn DEF SafeBrowsing_SetParamBoolValue, agent
  <2>4. cfg' \in Configs
    BY <1>0, <1>2 DEF SafeBrowsing_SetParamBoolValue, Configs
  <2>5. TypeOK'
    BY <1>2, <2>2, <2>4 DEF SafeBrowsing_SetParamBoolValue, agent, device, TypeOK, ScriptType
  <2> QED
    BY <2>3, <2>5
<1>3. CASE \E s \in Switches : RFC_SetParamBoolValue(s, v)
  <2>1. PICK s \in Switches : RFC_SetParamBoolValue(s, v)
    BY <1>3
  <2>2. SetRfc(s, v)
    BY <2>1, RfcCall DEF RFC_SetParamBoolValue
  <2>3. PICK op \in Ops : v_secure_system(op, s)
    BY <2>2 DEF SetRfc, Ops
  <2>4. /\ ScriptType' /\ trouble' \in BOOLEAN
        /\ \A q \in Pids : scripts[q] # NoScript => scripts'[q] = scripts[q]
    BY <1>0, <2>3, SystemCall DEF Args
  <2>5. NoStaleLock'
    BY <2>1, <2>4, LockKeptBySpawn DEF RFC_SetParamBoolValue, agent
  <2>6. cfg' \in Configs
    BY <1>0, <2>2 DEF SetRfc, Configs
  <2>7. TypeOK'
    BY <2>1, <2>4, <2>6 DEF RFC_SetParamBoolValue, agent, device, TypeOK, ScriptType
  <2> QED
    BY <2>5, <2>7
<1> QED
  BY <1>1, <1>2, <1>3

(* Neither do the persisting half of a setter, the events, their            *)
(* registration and their handling touch a marker.                          *)
LEMMA ThreadsPreserve ==
  ASSUME IInv,
         \/ PersistSwitch \/ \E m \in Modes : BridgeModeEvent(m)
         \/ RestartEvent \/ advsec_sysevent_init \/ advsec_handle_sysevent_notification \/ Recover
  PROVE  IInv'
<1> USE DEF IInv
<1>0. ScriptType /\ trouble \in BOOLEAN /\ cfg \in Configs
  BY DEF TypeOK, ScriptType
<1>1. CASE PersistSwitch
  <2>1. cfg' \in Configs
    BY <1>0, <1>1 DEF PersistSwitch, Configs
  <2>2. trouble' \in BOOLEAN
    BY <1>0, <1>1 DEF PersistSwitch, Fault
  <2>3. NoStaleLock'
    BY <1>1, LockKept DEF PersistSwitch, agent
  <2>4. TypeOK'
    BY <1>1, <2>1, <2>2 DEF PersistSwitch, agent, device, TypeOK
  <2> QED
    BY <2>3, <2>4
<1>2. CASE \E m \in Modes : BridgeModeEvent(m)
  <2>1. PICK m \in Modes : BridgeModeEvent(m)
    BY <1>2
  <2>2. events' \in Seq(Modes \cup {"restart"})
    BY <2>1, AppendProperties DEF BridgeModeEvent, TypeOK
  <2>3. trouble' \in BOOLEAN
    BY <2>1 DEF BridgeModeEvent
  <2>4. NoStaleLock'
    BY <2>1, LockKept DEF BridgeModeEvent, agent
  <2>5. TypeOK'
    BY <2>1, <2>2, <2>3 DEF BridgeModeEvent, agent, service, TypeOK
  <2> QED
    BY <2>4, <2>5
<1>3. CASE RestartEvent
  <2>1. events' \in Seq(Modes \cup {"restart"})
    BY <1>3, AppendProperties DEF RestartEvent, TypeOK
  <2>2. NoStaleLock'
    BY <1>3, LockKept DEF RestartEvent, agent
  <2>3. TypeOK'
    BY <1>3, <2>1 DEF RestartEvent, agent, service, TypeOK
  <2> QED
    BY <2>2, <2>3
<1>4. CASE advsec_sysevent_init
  <2>1. NoStaleLock'
    BY <1>4, LockKept DEF advsec_sysevent_init, agent, history
  <2>2. TypeOK'
    BY <1>4 DEF advsec_sysevent_init, agent, service, history, TypeOK
  <2> QED
    BY <2>1, <2>2
<1>5. CASE advsec_handle_sysevent_notification
  <2> DEFINE e == Head(events)
  <2>1. e \in Modes \cup {"restart"} /\ events' \in Seq(Modes \cup {"restart"})
    BY <1>5, HeadTailProperties DEF advsec_handle_sysevent_notification, TypeOK
  <2>2. /\ ScriptType' /\ trouble' \in BOOLEAN
        /\ \A q \in Pids : scripts[q] # NoScript => scripts'[q] = scripts[q]
    <3>1. CASE NothingToDo(e)
      BY <1>0, <1>5, <3>1 DEF advsec_handle_sysevent_notification, ScriptType
    <3>2. CASE ~NothingToDo(e)
      <4>1. v_secure_system(ScriptFor(e), "none")
        BY <1>5, <3>2 DEF advsec_handle_sysevent_notification
      <4>2. ScriptFor(e) \in Ops
        BY <3>2 DEF NothingToDo, ScriptFor, Ops
      <4> QED
        BY <1>0, <4>1, <4>2, SystemCall DEF Args
    <3> QED
      BY <3>1, <3>2
  <2>3. prevBridge' \in Modes \cup {""}
    BY <1>5, <2>1 DEF advsec_handle_sysevent_notification, TypeOK
  <2>4. NoStaleLock'
    BY <1>5, <2>2, LockKeptBySpawn DEF advsec_handle_sysevent_notification, agent
  <2>5. TypeOK'
    BY <1>5, <2>1, <2>2, <2>3 DEF advsec_handle_sysevent_notification, agent, service, TypeOK, ScriptType
  <2> QED
    BY <2>4, <2>5
<1>6. CASE Recover
  <2>1. Spawned("recovery", "none") /\ trouble' \in BOOLEAN
    BY <1>6 DEF Recover, Launched
  <2>2. /\ ScriptType'
        /\ \A q \in Pids : scripts[q] # NoScript => scripts'[q] = scripts[q]
    BY <1>0, <2>1, SpawnedScript DEF Ops, Args
  <2>3. NoStaleLock'
    BY <1>6, <2>2, LockKeptBySpawn DEF Recover, agent
  <2>4. TypeOK'
    BY <1>6, <2>1, <2>2 DEF Recover, agent, service, device, TypeOK, ScriptType
  <2> QED
    BY <2>3, <2>4
<1> QED
  BY <1>1, <1>2, <1>3, <1>4, <1>5, <1>6

-----------------------------------------------------------------------------
(* The environment.                                                         *)

(* Crashes, killed scripts, restarts and reboots keep the invariant: what   *)
(* outlives a restart is left alone, and a killed script is remembered.     *)
LEMMA EnvironmentPreserves ==
  ASSUME IInv, AgentCrashes \/ Restart \/ Reboot \/ \E p \in Pids : ScriptKilled(p)
  PROVE  IInv'
<1> USE DEF IInv
<1>0. ScriptType /\ trouble \in BOOLEAN /\ cfg \in Configs /\ cfg.fp \in BOOLEAN
  BY DEF TypeOK, ScriptType, Configs
<1>1. CASE AgentCrashes
  <2>1. NoStaleLock'
    BY <1>1, LockKept DEF AgentCrashes
  <2>2. TypeOK'
    BY <1>1 DEF AgentCrashes, Fault, service, device, TypeOK
  <2> QED
    BY <2>1, <2>2
<1>2. CASE Restart
  <2>1. /\ ScriptType'
        /\ \A q \in Pids : scripts[q] # NoScript => scripts'[q] = scripts[q]
    <3>1. CASE Spawned("enable", "none")
      BY <1>0, <3>1, SpawnedScript DEF Ops, Args
    <3>2. CASE UNCHANGED scripts
      BY <1>0, <3>2 DEF ScriptType
    <3> QED
      BY <1>2, <3>1, <3>2 DEF Restart
  <2>2. trouble' \in BOOLEAN
    BY <1>2 DEF Restart
  <2>3. NoStaleLock'
    BY <1>2, <2>1, LockKeptBySpawn DEF Restart, agent
  <2>4. events' \in Seq(Modes \cup {"restart"})
    BY <1>2, EmptySeq DEF Restart, Reloaded
  <2>5. TypeOK'
    BY <1>0, <1>2, <2>1, <2>2, <2>4 DEF Restart, Reloaded, agent, TypeOK, ScriptType
  <2> QED
    BY <2>3, <2>5
<1>3. CASE Reboot
  <2>1. scripts' \in [Pids -> Scripts]
    BY <1>0, <1>3, BootScripts DEF Reboot
  <2>2. NoStaleLock'
    BY <1>3 DEF Reboot, NoStaleLock
  <2>3. events' \in Seq(Modes \cup {"restart"})
    BY <1>3, EmptySeq DEF Reboot, Reloaded
  <2>4. TypeOK'
    BY <1>0, <1>3, <2>1, <2>3 DEF Reboot, Reloaded, TypeOK
  <2> QED
    BY <2>2, <2>4
<1>4. CASE \E p \in Pids : ScriptKilled(p)
  <2>1. PICK p \in Pids : ScriptKilled(p)
    BY <1>4
  <2>2. ScriptType'
    BY <1>0, <2>1, ExitScript DEF ScriptKilled
  <2>3. NoStaleLock'
    BY <2>1 DEF ScriptKilled, NoStaleLock
  <2>4. TypeOK'
    BY <2>1, <2>2 DEF ScriptKilled, Fault, service, device, agent, TypeOK, ScriptType
  <2> QED
    BY <2>3, <2>4
<1> QED
  BY <1>1, <1>2, <1>3, <1>4

-----------------------------------------------------------------------------
(* The scripts.                                                             *)

Files == {"initializing", "initialized", "fp", "sb"} \cup Marked

(* What the steps of a script have in common.                               *)
LEMMA ScriptStepTypes ==
  ASSUME TypeOK, ScriptOnly, ScriptType', files' \subseteq Files, up' \in BOOLEAN, on' \subseteq {"fp", "sb"},
         trouble' \in BOOLEAN
  PROVE  TypeOK'
  BY DEF TypeOK, ScriptOnly, service, device, ScriptType, Files

(* A script that goes on takes the lock only into the stretch that holds it *)
(* and never leaves that stretch by going on.                               *)
LEMMA GoesOn ==
  ASSUME IInv, NEW p \in Pids, NEW pc \in Steps, Goto(p, pc), scripts[p].pc # "none",
         pc \in Locked \/ scripts[p].pc \notin Locked,
         "initializing" \in files' => "initializing" \in files \/ pc \in Locked,
         killed' = killed
  PROVE  ScriptType' /\ NoStaleLock'
<1>1. ScriptType
  BY DEF IInv, TypeOK, ScriptType
<1>2. /\ ScriptType'
      /\ scripts'[p].pc = pc
      /\ \A q \in Pids : q # p => scripts'[q] = scripts[q]
  BY <1>1, GotoScript
<1>3. CASE pc \in Locked
  BY <1>2, <1>3 DEF NoStaleLock
<1>4. CASE pc \notin Locked
  <2>1. \A q \in Pids : scripts[q].pc \in Locked => scripts'[q].pc \in Locked
    BY <1>2, <1>4
  <2> QED
    BY <1>2, <1>4, <2>1, LockKept DEF IInv
<1> QED
  BY <1>3, <1>4

(* A script that ends has removed the lock, or did not hold it.             *)
LEMMA Ends ==
  ASSUME IInv, NEW p \in Pids, Exit(p), killed' = killed,
         "initializing" \in files' => "initializing" \in files /\ scripts[p].pc \notin Locked
  PROVE  ScriptType' /\ NoStaleLock'
<1>1. ScriptType
  BY DEF IInv, TypeOK, ScriptType
<1>2. /\ ScriptType'
      /\ \A q \in Pids : q # p => scripts'[q] = scripts[q]
  BY <1>1, ExitScript
<1>3. CASE "initializing" \in files'
  BY <1>2, <1>3 DEF IInv, NoStaleLock
<1>4. CASE "initializing" \notin files'
  BY <1>2, <1>4 DEF NoStaleLock
<1> QED
  BY <1>2, <1>3, <1>4

(* Starting features creates their markers and never the lock.              *)
LEMMA Starts ==
  ASSUME TypeOK, NEW features \in SUBSET {"fp", "sb"}, NEW markers \in SUBSET Files, Start(features, markers)
  PROVE  /\ files' \subseteq Files /\ up' \in BOOLEAN /\ on' \subseteq {"fp", "sb"}
         /\ "initializing" \in files' => "initializing" \in markers
  BY DEF TypeOK, Start, Files

(* The steps of -enable and of a restart, up to the agent's start.          *)
LEMMA LaunchPreserves ==
  ASSUME IInv, NEW p \in Pids,
         EnableReads(p) \/ Gate(p) \/ Touch(p) \/ advsec_stop_agent(p) \/ advsec_start_agent(p)
         \/ advsec_wait_for_agent(p)
  PROVE  IInv'
<1> USE DEF IInv
<1>0. /\ ScriptType /\ trouble \in BOOLEAN /\ cfg \in Configs /\ up \in BOOLEAN
      /\ files \subseteq Files /\ on \subseteq {"fp", "sb"}
  BY DEF TypeOK, ScriptType, Files
<1>1. CASE EnableReads(p)
  <2>1. scripts[p] \in [op : Ops, pc : Steps, arg : Args, conf : Configs]
    BY <1>0, <1>1, RunningScript DEF EnableReads, At, ScriptType
  <2>2. scripts' = [scripts EXCEPT ![p] = [scripts[p] EXCEPT !.pc = "gate", !.conf = cfg]]
    BY <1>1 DEF EnableReads
  <2>3. [scripts[p] EXCEPT !.pc = "gate", !.conf = cfg] \in Scripts
    BY <1>0, <2>1 DEF Scripts, Args, Steps
  <2>4. ScriptType' /\ \A q \in Pids : q # p => scripts'[q] = scripts[q]
    BY <1>0, <2>2, <2>3 DEF ScriptType
  <2>5. \A q \in Pids : scripts[q].pc \in Locked => scripts'[q].pc \in Locked
    BY <1>1, <2>4 DEF EnableReads, At, Locked
  <2>6. NoStaleLock'
    BY <1>1, <2>5, LockKept DEF EnableReads, agent, ScriptOnly
  <2>7. trouble' \in BOOLEAN
    BY <1>1 DEF EnableReads
  <2> QED
    BY <1>0, <1>1, <2>4, <2>6, <2>7, ScriptStepTypes DEF EnableReads, agent
<1>2. CASE Gate(p)
  <2>1. CASE Goto(p, "touch")
    <3>1. ScriptType' /\ NoStaleLock'
      BY <1>2, <2>1, GoesOn DEF Gate, At, ScriptOnly, agent, Steps, Locked
    <3> QED
      BY <1>0, <1>2, <3>1, ScriptStepTypes DEF Gate, agent, history
  <2>2. CASE Exit(p)
    <3>1. ScriptType' /\ NoStaleLock'
      BY <1>2, <2>2, Ends DEF Gate, At, ScriptOnly, agent, Locked
    <3> QED
      BY <1>0, <1>2, <3>1, ScriptStepTypes DEF Gate, agent, history
  <2> QED
    BY <1>2, <2>1, <2>2 DEF Gate
<1>3. CASE Touch(p)
  <2>1. PICK pc \in {"launch", "stop"} : Goto(p, pc)
    BY <1>3 DEF Touch
  <2>2. ScriptType' /\ NoStaleLock'
    BY <1>3, <2>1, GoesOn DEF Touch, ScriptOnly, Steps, Locked
  <2>3. files' \subseteq Files
    BY <1>0, <1>3 DEF Touch, Files
  <2> QED
    BY <1>0, <1>3, <2>2, <2>3, ScriptStepTypes DEF Touch, history
<1>4. CASE advsec_stop_agent(p)
  <2>1. ScriptType' /\ NoStaleLock'
    BY <1>4, GoesOn DEF advsec_stop_agent, ScriptOnly, Steps, Locked
  <2> QED
    BY <1>0, <1>4, <2>1, ScriptStepTypes DEF advsec_stop_agent, history
<1>5. CASE advsec_start_agent(p)
  <2>1. ScriptType' /\ NoStaleLock'
    BY <1>5, GoesOn DEF advsec_start_agent, ScriptOnly, Steps, Locked
  <2>2. up' \in BOOLEAN /\ trouble' \in BOOLEAN
    BY <1>0, <1>5 DEF advsec_start_agent, Fault
  <2> QED
    BY <1>0, <1>5, <2>1, <2>2, ScriptStepTypes DEF advsec_start_agent
<1>6. CASE advsec_wait_for_agent(p)
  <2>1. CASE \E pc \in {"again", "fp"} : Goto(p, pc) /\ UNCHANGED files
    <3>1. PICK pc \in {"again", "fp"} : Goto(p, pc) /\ UNCHANGED files
      BY <2>1
    <3>2. ScriptType' /\ NoStaleLock'
      BY <1>6, <3>1, GoesOn DEF advsec_wait_for_agent, ScriptOnly, Steps, Locked
    <3> QED
      BY <1>0, <1>6, <3>1, <3>2, ScriptStepTypes DEF advsec_wait_for_agent, history
  <2>2. CASE Exit(p) /\ files' = files \ {"initializing"}
    <3>1. ScriptType' /\ NoStaleLock'
      BY <1>6, <2>2, Ends DEF advsec_wait_for_agent, ScriptOnly
    <3> QED
      BY <1>0, <1>6, <2>2, <3>1, ScriptStepTypes DEF advsec_wait_for_agent, history
  <2> QED
    BY <1>6, <2>1, <2>2 DEF advsec_wait_for_agent
<1> QED
  BY <1>1, <1>2, <1>3, <1>4, <1>5, <1>6

(* The steps that start the features and release the lock.                  *)
LEMMA StartPreserves ==
  ASSUME IInv, NEW p \in Pids,
         EnableFingerprint(p) \/ EnableRest(p) \/ StartAgain(p) \/ Unlock(p)
  PROVE  IInv'
<1> USE DEF IInv
<1>0. /\ ScriptType /\ trouble \in BOOLEAN /\ up \in BOOLEAN
      /\ files \subseteq Files /\ on \subseteq {"fp", "sb"}
  BY DEF TypeOK, ScriptType, Files
<1>1. CASE EnableFingerprint(p)
  <2>1. Chosen("fp", scripts[p].conf.fp) \in SUBSET {"fp", "sb"}
    BY DEF Chosen
  <2>2. files \cup {"initialized"} \in SUBSET Files
    BY <1>0 DEF Files
  <2>3. files' \subseteq Files /\ up' \in BOOLEAN /\ on' \subseteq {"fp", "sb"}
    BY <1>1, <2>1, <2>2, Starts DEF EnableFingerprint
  <2>4. ScriptType' /\ NoStaleLock'
    BY <1>1, GoesOn DEF EnableFingerprint, At, ScriptOnly, Steps, Locked
  <2> QED
    BY <1>0, <1>1, <2>3, <2>4, ScriptStepTypes DEF EnableFingerprint, history
<1>2. CASE EnableRest(p)
  <2> DEFINE conf == scripts[p].conf
             markers == (files \ Restored) \cup {s \in Restored : conf.rfc[s]}
  <2>1. Chosen("sb", conf.sb) \in SUBSET {"fp", "sb"}
    BY DEF Chosen
  <2>2. markers \in SUBSET Files
    BY <1>0, Markers DEF Files
  <2>3. Start(Chosen("sb", conf.sb), markers)
    BY <1>2 DEF EnableRest
  <2> HIDE DEF markers, conf
  <2>4. files' \subseteq Files /\ up' \in BOOLEAN /\ on' \subseteq {"fp", "sb"}
    BY <2>1, <2>2, <2>3, Starts
  <2>5. ScriptType' /\ NoStaleLock'
    BY <1>2, GoesOn DEF EnableRest, At, ScriptOnly, Steps, Locked
  <2> QED
    BY <1>0, <1>2, <2>4, <2>5, ScriptStepTypes DEF EnableRest, history
<1>3. CASE StartAgain(p)
  <2>1. {"fp", "sb"} \cap files \in SUBSET {"fp", "sb"} /\ files \in SUBSET Files
    BY <1>0
  <2>2. files' \subseteq Files /\ up' \in BOOLEAN /\ on' \subseteq {"fp", "sb"}
    BY <1>3, <2>1, Starts DEF StartAgain
  <2>3. ScriptType' /\ NoStaleLock'
    BY <1>3, GoesOn DEF StartAgain, ScriptOnly, Steps, Locked
  <2> QED
    BY <1>0, <1>3, <2>2, <2>3, ScriptStepTypes DEF StartAgain, history
<1>4. CASE Unlock(p)
  <2>1. ScriptType' /\ NoStaleLock'
    BY <1>4, Ends DEF Unlock, ScriptOnly
  <2>2. files' \subseteq Files
    BY <1>0, <1>4 DEF Unlock
  <2> QED
    BY <1>0, <1>4, <2>1, <2>2, ScriptStepTypes DEF Unlock, history
<1> QED
  BY <1>1, <1>2, <1>3, <1>4

(* The steps of the other scripts.                                          *)
LEMMA OthersPreserve ==
  ASSUME IInv, NEW p \in Pids,
         DisableStops(p) \/ DisableClears(p) \/ SafeBrowsingScript(p) \/ RfcScript(p) \/ RestartScript(p)
         \/ RecoveryStarts(p) \/ RecoverySettles(p) \/ RecoveryChecks(p)
  PROVE  IInv'
<1> USE DEF IInv
<1>0. /\ ScriptType /\ trouble \in BOOLEAN /\ up \in BOOLEAN
      /\ files \subseteq Files /\ on \subseteq {"fp", "sb"}
  BY DEF TypeOK, ScriptType, Files
<1>1. CASE DisableStops(p)
  <2>1. ScriptType' /\ NoStaleLock'
    BY <1>1, GoesOn DEF DisableStops, At, ScriptOnly, Steps, Locked
  <2>2. files' \subseteq Files
    BY <1>0, <1>1 DEF DisableStops
  <2> QED
    BY <1>0, <1>1, <2>1, <2>2, ScriptStepTypes DEF DisableStops, history
<1>2. CASE DisableClears(p)
  <2>1. ScriptType' /\ NoStaleLock'
    BY <1>2, Ends DEF DisableClears, ScriptOnly
  <2>2. files' \subseteq Files
    BY <1>0, <1>2 DEF DisableClears
  <2> QED
    BY <1>0, <1>2, <2>1, <2>2, ScriptStepTypes DEF DisableClears, history
<1>3. CASE SafeBrowsingScript(p)
  <2>1. /\ files' \subseteq Files /\ up' \in BOOLEAN /\ on' \subseteq {"fp", "sb"}
        /\ "initializing" \in files' => "initializing" \in files
    <3>1. CASE Start({"sb"}, files)
      BY <1>0, <3>1, Starts
    <3>2. CASE files' = files \ {"sb"} /\ UNCHANGED up /\ on' = IF "sb" \in files THEN on \ {"sb"} ELSE on
      BY <1>0, <3>2
    <3> QED
      BY <1>3, <3>1, <3>2 DEF SafeBrowsingScript
  <2>2. ScriptType' /\ NoStaleLock'
    BY <1>3, <2>1, Ends DEF SafeBrowsingScript, At, ScriptOnly, Locked
  <2> QED
    BY <1>0, <1>3, <2>1, <2>2, ScriptStepTypes DEF SafeBrowsingScript, history
<1>4. CASE RfcScript(p)
  <2>1. files' \subseteq Files /\ ("initializing" \in files' => "initializing" \in files)
    BY <1>0, <1>4, Markers DEF RfcScript, Files
  <2>2. ScriptType' /\ NoStaleLock'
    <3>1. CASE Goto(p, "gate")
      BY <1>4, <2>1, <3>1, GoesOn DEF RfcScript, At, ScriptOnly, Steps, Locked
    <3>2. CASE Exit(p)
      BY <1>4, <2>1, <3>2, Ends DEF RfcScript, At, ScriptOnly, Locked
    <3> QED
      BY <1>4, <3>1, <3>2 DEF RfcScript
  <2>3. trouble' \in BOOLEAN
    BY <1>4 DEF RfcScript
  <2> QED
    BY <1>0, <1>4, <2>1, <2>2, <2>3, ScriptStepTypes DEF RfcScript
<1>5. CASE RestartScript(p)
  <2>1. ScriptType' /\ NoStaleLock'
    <3>1. CASE Goto(p, "gate")
      BY <1>5, <3>1, GoesOn DEF RestartScript, At, ScriptOnly, agent, Steps, Locked
    <3>2. CASE Exit(p)
      BY <1>5, <3>2, Ends DEF RestartScript, At, ScriptOnly, agent, Locked
    <3> QED
      BY <1>5, <3>1, <3>2 DEF RestartScript
  <2> QED
    BY <1>0, <1>5, <2>1, ScriptStepTypes DEF RestartScript, agent, history
<1>6. CASE RecoveryStarts(p)
  <2>1. ScriptType' /\ NoStaleLock'
    <3>1. CASE \E a \in {"up", "down"} : scripts' = [scripts EXCEPT ![p].pc = "settle", ![p].arg = a]
      <4>1. PICK a \in {"up", "down"} : scripts' = [scripts EXCEPT ![p].pc = "settle", ![p].arg = a]
        BY <3>1
      <4>2. scripts[p] \in [op : Ops, pc : Steps, arg : Args, conf : Configs]
        BY <1>0, <1>6, RunningScript DEF RecoveryStarts, At, ScriptType
      <4>3. scripts' = [scripts EXCEPT ![p] = [scripts[p] EXCEPT !.pc = "settle", !.arg = a]]
        BY <4>1
      <4>4. [scripts[p] EXCEPT !.pc = "settle", !.arg = a] \in Scripts
        BY <4>2 DEF Scripts, Args, Steps
      <4>5. ScriptType' /\ \A q \in Pids : q # p => scripts'[q] = scripts[q]
        BY <1>0, <4>3, <4>4 DEF ScriptType
      <4>6. \A q \in Pids : scripts[q].pc \in Locked => scripts'[q].pc \in Locked
        BY <1>6, <4>5 DEF RecoveryStarts, At, Locked
      <4> QED
        BY <1>6, <4>5, <4>6, LockKept DEF RecoveryStarts, agent, ScriptOnly
    <3>2. CASE Goto(p, "check")
      BY <1>6, <3>2, GoesOn DEF RecoveryStarts, At, ScriptOnly, agent, Steps, Locked
    <3>3. CASE Exit(p)
      BY <1>6, <3>3, Ends DEF RecoveryStarts, At, ScriptOnly, agent, Locked
    <3> QED
      BY <1>6, <3>1, <3>2, <3>3 DEF RecoveryStarts
  <2> QED
    BY <1>0, <1>6, <2>1, ScriptStepTypes DEF RecoveryStarts, agent, history
<1>7. CASE RecoverySettles(p)
  <2>1. files' = files \ {"initializing"}
    BY <1>7 DEF RecoverySettles
  <2>2. ScriptType' /\ NoStaleLock'
    <3>1. CASE Goto(p, "check")
      BY <1>7, <2>1, <3>1, GoesOn DEF RecoverySettles, At, ScriptOnly, Steps, Locked
    <3>2. CASE Exit(p)
      BY <1>7, <2>1, <3>2, Ends DEF RecoverySettles, ScriptOnly
    <3> QED
      BY <1>7, <3>1, <3>2 DEF RecoverySettles
  <2> QED
    BY <1>0, <1>7, <2>1, <2>2, ScriptStepTypes DEF RecoverySettles, history
<1>8. CASE RecoveryChecks(p)
  <2>1. ScriptType' /\ NoStaleLock'
    <3>1. CASE Goto(p, "gate")
      BY <1>8, <3>1, GoesOn DEF RecoveryChecks, At, ScriptOnly, agent, Steps, Locked
    <3>2. CASE Exit(p)
      BY <1>8, <3>2, Ends DEF RecoveryChecks, At, ScriptOnly, agent, Locked
    <3> QED
      BY <1>8, <3>1, <3>2 DEF RecoveryChecks
  <2> QED
    BY <1>0, <1>8, <2>1, ScriptStepTypes DEF RecoveryChecks, agent, history
<1> QED
  BY <1>1, <1>2, <1>3, <1>4, <1>5, <1>6, <1>7, <1>8

-----------------------------------------------------------------------------
(* Every step keeps the invariant.                                          *)
LEMMA StepPreserves == IInv /\ [Next]_vars => IInv'
<1> SUFFICES ASSUME IInv, [Next]_vars PROVE IInv'
  OBVIOUS
<1>1. CASE UNCHANGED vars
  BY <1>1 DEF vars, IInv, TypeOK, NoStaleLock
<1>2. CASE Next
  <2>1. CASE \E v \in BOOLEAN :
                \/ DeviceFingerPrint_SetParamBoolValue(v) \/ SafeBrowsing_SetParamBoolValue(v)
                \/ \E s \in Switches : RFC_SetParamBoolValue(s, v)
    BY <2>1, SetterPreserves
  <2>2. CASE \E p \in Pids : ScriptStep(p)
    BY <2>2, LaunchPreserves, StartPreserves, OthersPreserve DEF ScriptStep
  <2> QED
    BY <1>2, <2>1, <2>2, ThreadsPreserve, EnvironmentPreserves DEF Next
<1> QED
  BY <1>1, <1>2

(* Type correctness of the sysevent thread, the setters and the scripts,    *)
(* for any number of scripts, any RFC switches and any configurations.      *)
THEOREM AgentTypesHold == Spec => []TypeOK
<1>1. IInv => TypeOK
  BY DEF IInv
<1> QED
  BY InitEstablishes, StepPreserves, <1>1, PTL DEF Spec

(* The marker advsec_initializing (start_adv_security.sh, advsec.sh,        *)
(* advsec_cpu_mem_recovery.sh) is never left behind by a script that was    *)
(* not killed, however many scripts run and however they overlap.           *)
THEOREM LockNotStale == Spec => []NoStaleLock
<1>1. IInv => NoStaleLock
  BY DEF IInv
<1> QED
  BY InitEstablishes, StepPreserves, <1>1, PTL DEF Spec

-----------------------------------------------------------------------------
(* What runs is what is configured.                                         *)

(* A mode is to be handled that the sysevent thread will not take for the   *)
(* one it has seen.                                                         *)
Due ==
    /\ \E i \in DOMAIN events : events[i] # "restart"
    /\ ~(prevBridge = mode /\ \A i \in DOMAIN events : events[i] \in {mode, "restart"})

(* The last mode to be handled is the device's.                             *)
Latest ==
    (\E i \in DOMAIN events : events[i] # "restart") =>
        \E i \in DOMAIN events : events[i] = mode /\ \A j \in DOMAIN events : j > i => events[j] = "restart"

(* Whatever overlaps.                                                       *)
Ground ==
    /\ ~up => on = {}
    /\ (persist = "on" => fp) /\ (persist = "off" => ~fp)
    /\ (~listening => events = <<>>) /\ Latest

(* Where a script of its kind may be.                                       *)
Places(op) ==
    CASE op = "enable" -> {"new", "gate", "touch", "launch", "wait", "fp", "rest", "end"}
      [] op = "disable" -> {"new", "clear"}
      [] op \in {"startsb", "stopsb"} -> {"new"}
      [] op = "recovery" -> {"new", "check", "gate", "touch", "stop", "launch", "wait", "again", "end"}
      [] op = "none" -> {"none"}
      [] OTHER -> {"new", "gate", "touch", "stop", "launch", "wait", "again", "end"}

(* What h, the only script that runs, or NoScript, means for the rest.      *)
Placed(h) ==
    /\ h.pc \in Places(h.op)
    /\ h.op \in {"rfcOn", "rfcOff"} => h.arg \in Switches
    /\ "initializing" \in files => h.pc \in Locked \/ h.op = "disable"

(* The switches it was started with, or has read, are those of syscfg.      *)
Informed(h) ==
    /\ h.op = "enable" /\ h.pc # "new" => h.conf = cfg /\ persist = NoWrite
    /\ h.op = "startsb" => cfg.sb
    /\ h.op = "stopsb" => ~cfg.sb
    /\ h.op = "rfcOn" => cfg.rfc[h.arg]
    /\ h.op = "rfcOff" => ~cfg.rfc[h.arg]

(* A marker is that of a switch that is on, or is about to be removed.      *)
Clean(h) ==
    /\ on \subseteq files \/ (h.op = "disable" /\ h.pc = "new")
    /\ h.pc = "clear" => ~up
    /\ "sb" \in files => cfg.sb \/ h.op = "stopsb" \/ (h.op = "disable" /\ h.pc = "new")
    /\ \A s \in files \cap Switches :
          cfg.rfc[s] \/ h.op = "disable" \/ (h.op = "rfcOff" /\ h.pc = "new" /\ h.arg = s)

(* In bridge mode the agent is down, or about to be stopped.                *)
Down(h) ==
    \/ h.op = "disable" /\ h.pc = "new"
    \/ ~up /\ "fp" \notin files /\ (h.pc \in {"none", "new", "clear"} \/ (h.op = "enable" /\ h.pc = "gate"))

(* In router mode -enable is making the services complete,                  *)
Enabling(h) ==
    /\ h.pc \in {"wait", "fp", "rest", "end"} => up
    /\ h.pc \in {"rest", "end"} => "initialized" \in files /\ (cfg.fp => "fp" \in on)
    /\ h.pc = "end" => (cfg.sb => "sb" \in on) /\ \A s \in Restored : cfg.rfc[s] => s \in files

(* or they are complete, but for what the script that runs is doing.        *)
Serving(h) ==
    /\ persist # "on" /\ "initialized" \in files
    /\ cfg.fp => "fp" \in files
    /\ cfg.sb => "sb" \in files \/ h.op = "startsb"
    /\ \A s \in Restored : cfg.rfc[s] => s \in files \/ (h.op = "rfcOn" /\ h.pc = "new" /\ h.arg = s)
    /\ h.pc # "launch" => up
    /\ h.pc \notin {"launch", "wait", "again"} =>
          (cfg.fp => "fp" \in on) /\ (cfg.sb => "sb" \in on \/ h.op = "startsb")

Bridged(h) == mode = "2" /\ ~Due => Down(h)
Routed(h) ==
    mode = "0" /\ ~Due /\ fp => IF h.op = "enable" THEN Enabling(h) ELSE h.op # "disable" /\ Serving(h)

Stage(h) == Placed(h) /\ Informed(h) /\ Clean(h) /\ Bridged(h) /\ Routed(h)

Orderly ==
    ~trouble =>
        /\ InStep
        /\ Running = {} => Stage(NoScript)
        /\ \A p \in Running : Running = {p} /\ Stage(scripts[p])

(* A script that has the system to itself takes a step.                     *)
LEMMA SoleStep ==
  ASSUME ScriptType, Orderly, ~trouble, NEW p \in Pids, scripts[p] # NoScript,
         \A q \in Pids : q # p => scripts'[q] = scripts[q],
         InStep', Stage(scripts[p])'
  PROVE  Orderly'
<1>1. p \in Running
  BY DEF Running
<1>2. Running = {p}
  BY <1>1 DEF Orderly
<1>3. \A q \in Pids : q # p => scripts'[q] = NoScript
  BY <1>2 DEF Running
<1>4. CASE scripts'[p] = NoScript
  <2>1. Running' = {}
    BY <1>3, <1>4 DEF Running
  <2>2. Stage(NoScript)'
    BY <1>4 DEF Stage, Placed, Informed, Clean, Bridged, Down, Routed, Enabling, Serving
  <2> QED
    BY <2>1, <2>2 DEF Orderly
<1>5. CASE scripts'[p] # NoScript
  <2>1. Running' = {p}
    BY <1>3, <1>5 DEF Running
  <2> QED
    BY <2>1 DEF Orderly
<1> QED
  BY <1>4, <1>5

(* One is started while none runs.                                          *)
LEMMA SoleStart ==
  ASSUME ScriptType, NEW op \in Ops, NEW arg \in Args, Spawned(op, arg), Running = {},
         InStep', Stage(Script(op, arg))'
  PROVE  Orderly'
<1>1. PICK p \in Pids : Free(p) /\ scripts' = [scripts EXCEPT ![p] = Script(op, arg)]
  BY DEF Spawned
<1>2. scripts'[p] = Script(op, arg) /\ \A q \in Pids : q # p => scripts'[q] = NoScript
  BY <1>1 DEF ScriptType, Running
<1>3. Script(op, arg) # NoScript
  BY DEF Script, NoScript
<1>4. Running' = {p}
  BY <1>2, <1>3 DEF Running
<1>5. Stage(scripts[p])'
  BY <1>2 DEF Stage, Placed, Informed, Clean, Bridged, Down, Routed, Enabling, Serving
<1> QED
  BY <1>4, <1>5 DEF Orderly

(* The record of a script that goes on, or has ended.                       *)
LEMMA GoneOn ==
  ASSUME ScriptType, NEW p \in Pids, NEW pc \in Steps, scripts[p].pc # "none", Goto(p, pc)
  PROVE  /\ scripts[p] # NoScript /\ \A q \in Pids : q # p => scripts'[q] = scripts[q]
         /\ scripts'[p].pc = pc /\ scripts'[p].op = scripts[p].op /\ scripts'[p].arg = scripts[p].arg
         /\ scripts'[p].conf = scripts[p].conf
<1>1. scripts[p] \in [op : Ops, pc : Steps, arg : Args, conf : Configs]
  BY RunningScript DEF ScriptType
<1>2. scripts' = [scripts EXCEPT ![p] = [scripts[p] EXCEPT !.pc = pc]]
  BY DEF Goto
<1>3. scripts'[p] = [scripts[p] EXCEPT !.pc = pc]
  BY <1>2 DEF ScriptType
<1>4. scripts[p] # NoScript
  BY NoScriptFacts
<1> QED
  BY <1>1, <1>2, <1>3, <1>4 DEF ScriptType

LEMMA GoneOut ==
  ASSUME ScriptType, NEW p \in Pids, scripts[p].pc # "none", Exit(p)
  PROVE  /\ scripts[p] # NoScript /\ \A q \in Pids : q # p => scripts'[q] = scripts[q]
         /\ scripts'[p] = NoScript /\ scripts'[p].pc = "none" /\ scripts'[p].op = "none"
<1>1. scripts[p] # NoScript
  BY NoScriptFacts
<1> QED
  BY <1>1 DEF ScriptType, Exit, NoScript

LEMMA SoleStage ==
  ASSUME Orderly, ~trouble, NEW p \in Pids, scripts[p].pc # "none"
  PROVE  InStep /\ Stage(scripts[p])
<1>1. p \in Running
  BY NoScriptFacts DEF Running
<1> QED
  BY <1>1 DEF Orderly

(* A script's step leaves the sysevent thread and the switches alone.       *)
LEMMA StepFrame ==
  ASSUME ScriptOnly
  PROVE  /\ UNCHANGED <<fp, cfg, persist, mode, events, prevBridge, listening>>
         /\ Due' = Due /\ InStep' = InStep
  BY DEF ScriptOnly, service, device, Due, InStep

(* No RFC switch has the name of another marker.                            *)
LEMMA MarkerNames ==
  /\ {"initializing", "initialized", "fp", "sb"} \cap Switches = {}
  /\ Marked \subseteq Switches /\ Restored \subseteq Marked
  BY SwitchesAssumption DEF Rfcs, Marked, Restored

(* Up to the start of the agent.                                            *)
LEMMA LaunchOrderly ==
  ASSUME IInv, Ground, Orderly, ~trouble', NEW p \in Pids,
         Gate(p) \/ Touch(p) \/ advsec_stop_agent(p) \/ advsec_start_agent(p) \/ advsec_wait_for_agent(p)
  PROVE  Orderly'
<1>0. /\ ScriptType /\ ~trouble /\ Orderly /\ TypeOK /\ Ground
      /\ files \subseteq Files /\ on \subseteq {"fp", "sb"} /\ cfg \in Configs
  BY DEF IInv, TypeOK, ScriptType, Files, Gate, Touch, advsec_stop_agent, advsec_start_agent, advsec_wait_for_agent, history, Fault
<1>00. /\ UNCHANGED <<fp, cfg, persist, mode, events, prevBridge, listening>>
       /\ Due' = Due /\ InStep' = InStep
  BY StepFrame DEF Gate, Touch, advsec_stop_agent, advsec_start_agent, advsec_wait_for_agent
<1>2. CASE Gate(p) /\ ((scripts[p].op = "enable" /\ mode = "2") \/ "initializing" \in files)
  <2>1. scripts[p].op \in {"enable", "restart", "rfcOn", "rfcOff", "recovery"} /\ scripts[p].pc = "gate"
    BY <1>2 DEF Gate, At, agent
  <2>2. UNCHANGED <<files, up, on>>
    BY <1>2 DEF Gate, At, agent
  <2>3. /\ scripts[p] # NoScript /\ \A q \in Pids : q # p => scripts'[q] = scripts[q]
        /\ scripts'[p].pc = "none" /\ scripts'[p].op = "none"
    BY <1>0, <1>2, <2>1, GoneOut DEF Gate, At, agent
  <2>4. InStep /\ Stage(scripts[p])
    BY <1>0, <2>1, SoleStage
  <2>5. Placed(scripts[p])'
    BY <1>0, <1>00, <1>2, <2>1, <2>2, <2>3, <2>4, MarkerNames DEF Stage, Placed, Places, Locked
  <2>6. Informed(scripts[p])'
    BY <1>0, <1>00, <1>2, <2>1, <2>2, <2>3, <2>4, MarkerNames DEF Stage, Placed, Places, Informed
  <2>7. Clean(scripts[p])'
    BY <1>0, <1>00, <1>2, <2>1, <2>2, <2>3, <2>4, MarkerNames DEF Stage, Placed, Places, Locked, Clean, Informed, Ground, Files
  <2>8. Bridged(scripts[p])'
    BY <1>0, <1>00, <1>2, <2>1, <2>2, <2>3, <2>4, MarkerNames DEF Stage, Placed, Places, Locked, Bridged, Down
  <2>9. Routed(scripts[p])'
    BY <1>0, <1>00, <1>2, <2>1, <2>2, <2>3, <2>4, MarkerNames DEF Stage, Placed, Places, Locked, Clean, Informed, Routed, Enabling, Serving, NoWrite
  <2> QED
    BY <1>0, <1>00, <2>3, <2>4, <2>5, <2>6, <2>7, <2>8, <2>9, SoleStep DEF Stage
<1>3. CASE Gate(p) /\ ~((scripts[p].op = "enable" /\ mode = "2") \/ "initializing" \in files)
  <2>1. scripts[p].op \in {"enable", "restart", "rfcOn", "rfcOff", "recovery"} /\ scripts[p].pc = "gate"
    BY <1>3 DEF Gate, At, agent
  <2>2. UNCHANGED <<files, up, on>>
    BY <1>3 DEF Gate, At, agent
  <2>3. /\ scripts[p] # NoScript /\ \A q \in Pids : q # p => scripts'[q] = scripts[q]
        /\ scripts'[p].pc = "touch" /\ scripts'[p].op = scripts[p].op
        /\ scripts'[p].arg = scripts[p].arg /\ scripts'[p].conf = scripts[p].conf
    BY <1>0, <1>3, <2>1, GoneOn DEF Gate, At, agent, Steps, Locked
  <2>4. InStep /\ Stage(scripts[p])
    BY <1>0, <2>1, SoleStage
  <2>5. Placed(scripts[p])'
    BY <1>0, <1>00, <1>3, <2>1, <2>2, <2>3, <2>4, MarkerNames DEF Stage, Placed, Places, Locked
  <2>6. Informed(scripts[p])'
    BY <1>0, <1>00, <1>3, <2>1, <2>2, <2>3, <2>4, MarkerNames DEF Stage, Placed, Places, Informed
  <2>7. Clean(scripts[p])'
    BY <1>0, <1>00, <1>3, <2>1, <2>2, <2>3, <2>4, MarkerNames DEF Stage, Placed, Places, Locked, Clean, Informed, Ground, Files
  <2>8. Bridged(scripts[p])'
    BY <1>0, <1>00, <1>3, <2>1, <2>2, <2>3, <2>4, MarkerNames DEF Stage, Placed, Places, Locked, Bridged, Down
  <2>9. Routed(scripts[p])'
    BY <1>0, <1>00, <1>3, <2>1, <2>2, <2>3, <2>4, MarkerNames DEF Stage, Placed, Places, Locked, Clean, Informed, Routed, Enabling, Serving, NoWrite
  <2> QED
    BY <1>0, <1>00, <2>3, <2>4, <2>5, <2>6, <2>7, <2>8, <2>9, SoleStep DEF Stage
<1>4. CASE Touch(p) /\ scripts[p].op = "enable"
  <2>1. scripts[p].pc = "touch"
    BY <1>4 DEF Touch
  <2>2. UNCHANGED <<up, on>> /\ files' = files \cup {"initializing"}
    BY <1>4 DEF Touch
  <2>3. /\ scripts[p] # NoScript /\ \A q \in Pids : q # p => scripts'[q] = scripts[q]
        /\ scripts'[p].pc = "launch" /\ scripts'[p].op = scripts[p].op
        /\ scripts'[p].arg = scripts[p].arg /\ scripts'[p].conf = scripts[p].conf
    BY <1>0, <1>4, <2>1, GoneOn DEF Touch, Steps, Locked
  <2>4. InStep /\ Stage(scripts[p])
    BY <1>0, <2>1, SoleStage
  <2>5. Placed(scripts[p])'
    BY <1>0, <1>00, <1>4, <2>1, <2>2, <2>3, <2>4, MarkerNames DEF Stage, Placed, Places, Locked
  <2>6. Informed(scripts[p])'
    BY <1>0, <1>00, <1>4, <2>1, <2>2, <2>3, <2>4, MarkerNames DEF Stage, Placed, Places, Informed
  <2>7. Clean(scripts[p])'
    BY <1>0, <1>00, <1>4, <2>1, <2>2, <2>3, <2>4, MarkerNames DEF Stage, Placed, Places, Locked, Clean, Informed, Ground, Files
  <2>8. Bridged(scripts[p])'
    BY <1>0, <1>00, <1>4, <2>1, <2>2, <2>3, <2>4, MarkerNames DEF Stage, Placed, Places, Locked, Bridged, Down
  <2>9. Routed(scripts[p])'
    BY <1>0, <1>00, <1>4, <2>1, <2>2, <2>3, <2>4, MarkerNames DEF Stage, Placed, Places, Locked, Clean, Informed, Routed, Enabling, Serving, NoWrite
  <2> QED
    BY <1>0, <1>00, <2>3, <2>4, <2>5, <2>6, <2>7, <2>8, <2>9, SoleStep DEF Stage
<1>5. CASE Touch(p) /\ scripts[p].op # "enable"
  <2>1. scripts[p].pc = "touch"
    BY <1>5 DEF Touch
  <2>2. UNCHANGED <<up, on>> /\ files' = files \cup {"initializing"}
    BY <1>5 DEF Touch
  <2>3. /\ scripts[p] # NoScript /\ \A q \in Pids : q # p => scripts'[q] = scripts[q]
        /\ scripts'[p].pc = "stop" /\ scripts'[p].op = scripts[p].op
        /\ scripts'[p].arg = scripts[p].arg /\ scripts'[p].conf = scripts[p].conf
    BY <1>0, <1>5, <2>1, GoneOn DEF Touch, Steps, Locked
  <2>4. InStep /\ Stage(scripts[p])
    BY <1>0, <2>1, SoleStage
  <2>5. Placed(scripts[p])'
    BY <1>0, <1>00, <1>5, <2>1, <2>2, <2>3, <2>4, MarkerNames DEF Stage, Placed, Places, Locked
  <2>6. Informed(scripts[p])'
    BY <1>0, <1>00, <1>5, <2>1, <2>2, <2>3, <2>4, MarkerNames DEF Stage, Placed, Places, Informed
  <2>7. Clean(scripts[p])'
    BY <1>0, <1>00, <1>5, <2>1, <2>2, <2>3, <2>4, MarkerNames DEF Stage, Placed, Places, Locked, Clean, Informed, Ground, Files
  <2>8. Bridged(scripts[p])'
    BY <1>0, <1>00, <1>5, <2>1, <2>2, <2>3, <2>4, MarkerNames DEF Stage, Placed, Places, Locked, Bridged, Down
  <2>9. Routed(scripts[p])'
    BY <1>0, <1>00, <1>5, <2>1, <2>2, <2>3, <2>4, MarkerNames DEF Stage, Placed, Places, Locked, Clean, Informed, Routed, Enabling, Serving, NoWrite
  <2> QED
    BY <1>0, <1>00, <2>3, <2>4, <2>5, <2>6, <2>7, <2>8, <2>9, SoleStep DEF Stage
<1>6. CASE advsec_stop_agent(p)
  <2>1. scripts[p].op # "disable" /\ scripts[p].pc = "stop"
    BY <1>6 DEF advsec_stop_agent
  <2>2. UNCHANGED files /\ up' = FALSE /\ on' = {}
    BY <1>6 DEF advsec_stop_agent
  <2>3. /\ scripts[p] # NoScript /\ \A q \in Pids : q # p => scripts'[q] = scripts[q]
        /\ scripts'[p].pc = "launch" /\ scripts'[p].op = scripts[p].op
        /\ scripts'[p].arg = scripts[p].arg /\ scripts'[p].conf = scripts[p].conf
    BY <1>0, <1>6, <2>1, GoneOn DEF advsec_stop_agent, Steps, Locked
  <2>4. InStep /\ Stage(scripts[p])
    BY <1>0, <2>1, SoleStage
  <2>5. Placed(scripts[p])'
    BY <1>0, <1>00, <1>6, <2>1, <2>2, <2>3, <2>4, MarkerNames DEF Stage, Placed, Places, Locked
  <2>6. Informed(scripts[p])'
    BY <1>0, <1>00, <1>6, <2>1, <2>2, <2>3, <2>4, MarkerNames DEF Stage, Placed, Places, Informed
  <2>7. Clean(scripts[p])'
    BY <1>0, <1>00, <1>6, <2>1, <2>2, <2>3, <2>4, MarkerNames DEF Stage, Placed, Places, Locked, Clean, Informed, Ground, Files
  <2>8. Bridged(scripts[p])'
    BY <1>0, <1>00, <1>6, <2>1, <2>2, <2>3, <2>4, MarkerNames DEF Stage, Placed, Places, Locked, Bridged, Down
  <2>9. Routed(scripts[p])'
    BY <1>0, <1>00, <1>6, <2>1, <2>2, <2>3, <2>4, MarkerNames DEF Stage, Placed, Places, Locked, Clean, Informed, Routed, Enabling, Serving, NoWrite
  <2> QED
    BY <1>0, <1>00, <2>3, <2>4, <2>5, <2>6, <2>7, <2>8, <2>9, SoleStep DEF Stage
<1>7. CASE advsec_start_agent(p)
  <2>1. scripts[p].pc = "launch"
    BY <1>7 DEF advsec_start_agent, Fault
  <2>2. UNCHANGED <<files, on>> /\ up' = TRUE
    BY <1>7 DEF advsec_start_agent, Fault
  <2>3. /\ scripts[p] # NoScript /\ \A q \in Pids : q # p => scripts'[q] = scripts[q]
        /\ scripts'[p].pc = "wait" /\ scripts'[p].op = scripts[p].op
        /\ scripts'[p].arg = scripts[p].arg /\ scripts'[p].conf = scripts[p].conf
    BY <1>0, <1>7, <2>1, GoneOn DEF advsec_start_agent, Fault, Steps, Locked
  <2>4. InStep /\ Stage(scripts[p])
    BY <1>0, <2>1, SoleStage
  <2>5. Placed(scripts[p])'
    BY <1>0, <1>00, <1>7, <2>1, <2>2, <2>3, <2>4, MarkerNames DEF Stage, Placed, Places, Locked
  <2>6. Informed(scripts[p])'
    BY <1>0, <1>00, <1>7, <2>1, <2>2, <2>3, <2>4, MarkerNames DEF Stage, Placed, Places, Informed
  <2>7. Clean(scripts[p])'
    BY <1>0, <1>00, <1>7, <2>1, <2>2, <2>3, <2>4, MarkerNames DEF Stage, Placed, Places, Locked, Clean, Informed, Ground, Files
  <2>8. Bridged(scripts[p])'
    BY <1>0, <1>00, <1>7, <2>1, <2>2, <2>3, <2>4, MarkerNames DEF Stage, Placed, Places, Locked, Bridged, Down
  <2>9. Routed(scripts[p])'
    BY <1>0, <1>00, <1>7, <2>1, <2>2, <2>3, <2>4, MarkerNames DEF Stage, Placed, Places, Locked, Clean, Informed, Routed, Enabling, Serving, NoWrite
  <2> QED
    BY <1>0, <1>00, <2>3, <2>4, <2>5, <2>6, <2>7, <2>8, <2>9, SoleStep DEF Stage
<1>8. CASE advsec_wait_for_agent(p) /\ scripts[p].op # "enable"
  <2>1. scripts[p].pc = "wait"
    BY <1>8 DEF advsec_wait_for_agent
  <2>2. UNCHANGED <<files, up, on>>
    BY <1>8 DEF advsec_wait_for_agent
  <2>3. /\ scripts[p] # NoScript /\ \A q \in Pids : q # p => scripts'[q] = scripts[q]
        /\ scripts'[p].pc = "again" /\ scripts'[p].op = scripts[p].op
        /\ scripts'[p].arg = scripts[p].arg /\ scripts'[p].conf = scripts[p].conf
    BY <1>0, <1>8, <2>1, GoneOn DEF advsec_wait_for_agent, Steps, Locked
  <2>4. InStep /\ Stage(scripts[p])
    BY <1>0, <2>1, SoleStage
  <2>5. Placed(scripts[p])'
    BY <1>0, <1>00, <1>8, <2>1, <2>2, <2>3, <2>4, MarkerNames DEF Stage, Placed, Places, Locked
  <2>6. Informed(scripts[p])'
    BY <1>0, <1>00, <1>8, <2>1, <2>2, <2>3, <2>4, MarkerNames DEF Stage, Placed, Places, Informed
  <2>7. Clean(scripts[p])'
    BY <1>0, <1>00, <1>8, <2>1, <2>2, <2>3, <2>4, MarkerNames DEF Stage, Placed, Places, Locked, Clean, Informed, Ground, Files
  <2>8. Bridged(scripts[p])'
    BY <1>0, <1>00, <1>8, <2>1, <2>2, <2>3, <2>4, MarkerNames DEF Stage, Placed, Places, Locked, Bridged, Down
  <2>9. Routed(scripts[p])'
    BY <1>0, <1>00, <1>8, <2>1, <2>2, <2>3, <2>4, MarkerNames DEF Stage, Placed, Places, Locked, Clean, Informed, Routed, Enabling, Serving, NoWrite
  <2> QED
    BY <1>0, <1>00, <2>3, <2>4, <2>5, <2>6, <2>7, <2>8, <2>9, SoleStep DEF Stage
<1>9. CASE advsec_wait_for_agent(p) /\ (scripts[p].op = "enable" /\ up)
  <2>1. scripts[p].pc = "wait"
    BY <1>9 DEF advsec_wait_for_agent
  <2>2. UNCHANGED <<files, up, on>>
    BY <1>9 DEF advsec_wait_for_agent
  <2>3. /\ scripts[p] # NoScript /\ \A q \in Pids : q # p => scripts'[q] = scripts[q]
        /\ scripts'[p].pc = "fp" /\ scripts'[p].op = scripts[p].op
        /\ scripts'[p].arg = scripts[p].arg /\ scripts'[p].conf = scripts[p].conf
    BY <1>0, <1>9, <2>1, GoneOn DEF advsec_wait_for_agent, Steps, Locked
  <2>4. InStep /\ Stage(scripts[p])
    BY <1>0, <2>1, SoleStage
  <2>5. Placed(scripts[p])'
    BY <1>0, <1>00, <1>9, <2>1, <2>2, <2>3, <2>4, MarkerNames DEF Stage, Placed, Places, Locked
  <2>6. Informed(scripts[p])'
    BY <1>0, <1>00, <1>9, <2>1, <2>2, <2>3, <2>4, MarkerNames DEF Stage, Placed, Places, Informed
  <2>7. Clean(scripts[p])'
    BY <1>0, <1>00, <1>9, <2>1, <2>2, <2>3, <2>4, MarkerNames DEF Stage, Placed, Places, Locked, Clean, Informed, Ground, Files
  <2>8. Bridged(scripts[p])'
    BY <1>0, <1>00, <1>9, <2>1, <2>2, <2>3, <2>4, MarkerNames DEF Stage, Placed, Places, Locked, Bridged, Down
  <2>9. Routed(scripts[p])'
    BY <1>0, <1>00, <1>9, <2>1, <2>2, <2>3, <2>4, MarkerNames DEF Stage, Placed, Places, Locked, Clean, Informed, Routed, Enabling, Serving, NoWrite
  <2> QED
    BY <1>0, <1>00, <2>3, <2>4, <2>5, <2>6, <2>7, <2>8, <2>9, SoleStep DEF Stage
<1>10. CASE advsec_wait_for_agent(p) /\ (scripts[p].op = "enable" /\ ~up)
  <2>1. scripts[p].pc = "wait"
    BY <1>10 DEF advsec_wait_for_agent
  <2>2. UNCHANGED <<up, on>> /\ files' = files \ {"initializing"}
    BY <1>10 DEF advsec_wait_for_agent
  <2>3. /\ scripts[p] # NoScript /\ \A q \in Pids : q # p => scripts'[q] = scripts[q]
        /\ scripts'[p].pc = "none" /\ scripts'[p].op = "none"
    BY <1>0, <1>10, <2>1, GoneOut DEF advsec_wait_for_agent
  <2>4. InStep /\ Stage(scripts[p])
    BY <1>0, <2>1, SoleStage
  <2>5. Placed(scripts[p])'
    BY <1>0, <1>00, <1>10, <2>1, <2>2, <2>3, <2>4, MarkerNames DEF Stage, Placed, Places, Locked
  <2>6. Informed(scripts[p])'
    BY <1>0, <1>00, <1>10, <2>1, <2>2, <2>3, <2>4, MarkerNames DEF Stage, Placed, Places, Informed
  <2>7. Clean(scripts[p])'
    BY <1>0, <1>00, <1>10, <2>1, <2>2, <2>3, <2>4, MarkerNames DEF Stage, Placed, Places, Locked, Clean, Informed, Ground, Files
  <2>8. Bridged(scripts[p])'
    BY <1>0, <1>00, <1>10, <2>1, <2>2, <2>3, <2>4, MarkerNames DEF Stage, Placed, Places, Locked, Bridged, Down
  <2>9. Routed(scripts[p])'
    BY <1>0, <1>00, <1>10, <2>1, <2>2, <2>3, <2>4, MarkerNames DEF Stage, Placed, Places, Locked, Clean, Informed, Routed, Enabling, Serving, NoWrite
  <2> QED
    BY <1>0, <1>00, <2>3, <2>4, <2>5, <2>6, <2>7, <2>8, <2>9, SoleStep DEF Stage
<1> QED
  BY <1>0, <1>2, <1>3, <1>4, <1>5, <1>6, <1>7, <1>8, <1>9, <1>10 DEF Gate, Touch, advsec_stop_agent, advsec_start_agent, advsec_wait_for_agent

(* The features, and the end of -enable and of a restart.                   *)
LEMMA StartOrderly ==
  ASSUME IInv, Ground, Orderly, ~trouble', NEW p \in Pids,
         EnableFingerprint(p) \/ EnableRest(p) \/ StartAgain(p) \/ Unlock(p)
  PROVE  Orderly'
<1>0. /\ ScriptType /\ ~trouble /\ Orderly /\ TypeOK /\ Ground
      /\ files \subseteq Files /\ on \subseteq {"fp", "sb"} /\ cfg \in Configs
  BY DEF IInv, TypeOK, ScriptType, Files, EnableFingerprint, EnableRest, StartAgain, Unlock, history, Fault
<1>00. /\ UNCHANGED <<fp, cfg, persist, mode, events, prevBridge, listening>>
       /\ Due' = Due /\ InStep' = InStep
  BY StepFrame DEF EnableFingerprint, EnableRest, StartAgain, Unlock
<1>2. CASE EnableFingerprint(p)
  <2>1. scripts[p].op = "enable" /\ scripts[p].pc = "fp"
    BY <1>2 DEF EnableFingerprint, At, Start, Chosen
  <2>2. /\ up' = up /\ files' = files \cup {"initialized"} \cup (IF scripts[p].conf.fp THEN {"fp"} ELSE {})
        /\ on' = IF up THEN on \cup (IF scripts[p].conf.fp THEN {"fp"} ELSE {}) ELSE on
    BY <1>2 DEF EnableFingerprint, At, Start, Chosen
  <2>3. /\ scripts[p] # NoScript /\ \A q \in Pids : q # p => scripts'[q] = scripts[q]
        /\ scripts'[p].pc = "rest" /\ scripts'[p].op = scripts[p].op
        /\ scripts'[p].arg = scripts[p].arg /\ scripts'[p].conf = scripts[p].conf
    BY <1>0, <1>2, <2>1, GoneOn DEF EnableFingerprint, At, Start, Chosen, Steps, Locked
  <2>4. InStep /\ Stage(scripts[p])
    BY <1>0, <2>1, SoleStage
  <2>5. Placed(scripts[p])'
    BY <1>0, <1>00, <1>2, <2>1, <2>2, <2>3, <2>4, MarkerNames DEF Stage, Placed, Places, Locked
  <2>6. Informed(scripts[p])'
    BY <1>0, <1>00, <1>2, <2>1, <2>2, <2>3, <2>4, MarkerNames DEF Stage, Placed, Places, Informed
  <2>7. Clean(scripts[p])'
    BY <1>0, <1>00, <1>2, <2>1, <2>2, <2>3, <2>4, MarkerNames DEF Stage, Placed, Places, Locked, Clean, Informed, Ground, Files
  <2>8. Bridged(scripts[p])'
    BY <1>0, <1>00, <1>2, <2>1, <2>2, <2>3, <2>4, MarkerNames DEF Stage, Placed, Places, Locked, Bridged, Down
  <2>9. Routed(scripts[p])'
    BY <1>0, <1>00, <1>2, <2>1, <2>2, <2>3, <2>4, MarkerNames DEF Stage, Placed, Places, Locked, Clean, Informed, Routed, Enabling, Serving, NoWrite
  <2> QED
    BY <1>0, <1>00, <2>3, <2>4, <2>5, <2>6, <2>7, <2>8, <2>9, SoleStep DEF Stage
<1>3. CASE EnableRest(p)
  <2>1. scripts[p].op = "enable" /\ scripts[p].pc = "rest"
    BY <1>3 DEF EnableRest, At, Start, Chosen
  <2>2. /\ up' = up /\ on' = IF up THEN on \cup (IF scripts[p].conf.sb THEN {"sb"} ELSE {}) ELSE on
        /\ files' = (files \ Restored) \cup {s \in Restored : scripts[p].conf.rfc[s]} \cup (IF scripts[p].conf.sb THEN {"sb"} ELSE {})
    BY <1>3 DEF EnableRest, At, Start, Chosen
  <2>3. /\ scripts[p] # NoScript /\ \A q \in Pids : q # p => scripts'[q] = scripts[q]
        /\ scripts'[p].pc = "end" /\ scripts'[p].op = scripts[p].op
        /\ scripts'[p].arg = scripts[p].arg /\ scripts'[p].conf = scripts[p].conf
    BY <1>0, <1>3, <2>1, GoneOn DEF EnableRest, At, Start, Chosen, Steps, Locked
  <2>4. InStep /\ Stage(scripts[p])
    BY <1>0, <2>1, SoleStage
  <2>5. Placed(scripts[p])'
    BY <1>0, <1>00, <1>3, <2>1, <2>2, <2>3, <2>4, MarkerNames DEF Stage, Placed, Places, Locked
  <2>6. Informed(scripts[p])'
    BY <1>0, <1>00, <1>3, <2>1, <2>2, <2>3, <2>4, MarkerNames DEF Stage, Placed, Places, Informed
  <2>7. Clean(scripts[p])'
    BY <1>0, <1>00, <1>3, <2>1, <2>2, <2>3, <2>4, MarkerNames DEF Stage, Placed, Places, Locked, Clean, Informed, Ground, Files
  <2>8. Bridged(scripts[p])'
    BY <1>0, <1>00, <1>3, <2>1, <2>2, <2>3, <2>4, MarkerNames DEF Stage, Placed, Places, Locked, Bridged, Down
  <2>9. Routed(scripts[p])'
    BY <1>0, <1>00, <1>3, <2>1, <2>2, <2>3, <2>4, MarkerNames DEF Stage, Placed, Places, Locked, Clean, Informed, Routed, Enabling, Serving, NoWrite
  <2> QED
    BY <1>0, <1>00, <2>3, <2>4, <2>5, <2>6, <2>7, <2>8, <2>9, SoleStep DEF Stage
<1>4. CASE StartAgain(p)
  <2>1. scripts[p].pc = "again"
    BY <1>4 DEF StartAgain, Start
  <2>2. /\ up' = up /\ on' = (IF up THEN on \cup ({"fp", "sb"} \cap files) ELSE on)
        /\ files' = files
    BY <1>4 DEF StartAgain, Start
  <2>3. /\ scripts[p] # NoScript /\ \A q \in Pids : q # p => scripts'[q] = scripts[q]
        /\ scripts'[p].pc = "end" /\ scripts'[p].op = scripts[p].op
        /\ scripts'[p].arg = scripts[p].arg /\ scripts'[p].conf = scripts[p].conf
    BY <1>0, <1>4, <2>1, GoneOn DEF StartAgain, Start, Steps, Locked
  <2>4. InStep /\ Stage(scripts[p])
    BY <1>0, <2>1, SoleStage
  <2>5. Placed(scripts[p])'
    BY <1>0, <1>00, <1>4, <2>1, <2>2, <2>3, <2>4, MarkerNames DEF Stage, Placed, Places, Locked
  <2>6. Informed(scripts[p])'
    BY <1>0, <1>00, <1>4, <2>1, <2>2, <2>3, <2>4, MarkerNames DEF Stage, Placed, Places, Informed
  <2>7. Clean(scripts[p])'
    BY <1>0, <1>00, <1>4, <2>1, <2>2, <2>3, <2>4, MarkerNames DEF Stage, Placed, Places, Locked, Clean, Informed, Ground, Files
  <2>8. Bridged(scripts[p])'
    BY <1>0, <1>00, <1>4, <2>1, <2>2, <2>3, <2>4, MarkerNames DEF Stage, Placed, Places, Locked, Bridged, Down
  <2>9. Routed(scripts[p])'
    BY <1>0, <1>00, <1>4, <2>1, <2>2, <2>3, <2>4, MarkerNames DEF Stage, Placed, Places, Locked, Clean, Informed, Routed, Enabling, Serving, NoWrite
  <2> QED
    BY <1>0, <1>00, <2>3, <2>4, <2>5, <2>6, <2>7, <2>8, <2>9, SoleStep DEF Stage
<1>5. CASE Unlock(p)
  <2>1. scripts[p].pc = "end"
    BY <1>5 DEF Unlock
  <2>2. UNCHANGED <<up, on>> /\ files' = files \ {"initializing"}
    BY <1>5 DEF Unlock
  <2>3. /\ scripts[p] # NoScript /\ \A q \in Pids : q # p => scripts'[q] = scripts[q]
        /\ scripts'[p].pc = "none" /\ scripts'[p].op = "none"
    BY <1>0, <1>5, <2>1, GoneOut DEF Unlock
  <2>4. InStep /\ Stage(scripts[p])
    BY <1>0, <2>1, SoleStage
  <2>5. Placed(scripts[p])'
    BY <1>0, <1>00, <1>5, <2>1, <2>2, <2>3, <2>4, MarkerNames DEF Stage, Placed, Places, Locked
  <2>6. Informed(scripts[p])'
    BY <1>0, <1>00, <1>5, <2>1, <2>2, <2>3, <2>4, MarkerNames DEF Stage, Placed, Places, Informed
  <2>7. Clean(scripts[p])'
    BY <1>0, <1>00, <1>5, <2>1, <2>2, <2>3, <2>4, MarkerNames DEF Stage, Placed, Places, Locked, Clean, Informed, Ground, Files
  <2>8. Bridged(scripts[p])'
    BY <1>0, <1>00, <1>5, <2>1, <2>2, <2>3, <2>4, MarkerNames DEF Stage, Placed, Places, Locked, Bridged, Down
  <2>9. Routed(scripts[p])'
    BY <1>0, <1>00, <1>5, <2>1, <2>2, <2>3, <2>4, MarkerNames DEF Stage, Placed, Places, Locked, Clean, Informed, Routed, Enabling, Serving, NoWrite
  <2> QED
    BY <1>0, <1>00, <2>3, <2>4, <2>5, <2>6, <2>7, <2>8, <2>9, SoleStep DEF Stage
<1> QED
  BY <1>0, <1>2, <1>3, <1>4, <1>5 DEF EnableFingerprint, EnableRest, StartAgain, Unlock

(* The other scripts.                                                       *)
LEMMA OthersOrderly ==
  ASSUME IInv, Ground, Orderly, ~trouble', NEW p \in Pids,
         DisableStops(p) \/ DisableClears(p) \/ SafeBrowsingScript(p) \/ RfcScript(p) \/ RestartScript(p) \/ RecoveryChecks(p)
  PROVE  Orderly'
<1>0. /\ ScriptType /\ ~trouble /\ Orderly /\ TypeOK /\ Ground
      /\ files \subseteq Files /\ on \subseteq {"fp", "sb"} /\ cfg \in Configs
  BY DEF IInv, TypeOK, ScriptType, Files, DisableStops, DisableClears, SafeBrowsingScript, RfcScript, RestartScript, RecoveryChecks, history, Fault
<1>00. /\ UNCHANGED <<fp, cfg, persist, mode, events, prevBridge, listening>>
       /\ Due' = Due /\ InStep' = InStep
  BY StepFrame DEF DisableStops, DisableClears, SafeBrowsingScript, RfcScript, RestartScript, RecoveryChecks
<1>2. CASE DisableStops(p)
  <2>1. scripts[p].op = "disable" /\ scripts[p].pc = "new"
    BY <1>2 DEF DisableStops, At
  <2>2. up' = FALSE /\ on' = {} /\ files' = files \ {"fp", "sb"}
    BY <1>2 DEF DisableStops, At
  <2>3. /\ scripts[p] # NoScript /\ \A q \in Pids : q # p => scripts'[q] = scripts[q]
        /\ scripts'[p].pc = "clear" /\ scripts'[p].op = scripts[p].op
        /\ scripts'[p].arg = scripts[p].arg /\ scripts'[p].conf = scripts[p].conf
    BY <1>0, <1>2, <2>1, GoneOn DEF DisableStops, At, Steps, Locked
  <2>4. InStep /\ Stage(scripts[p])
    BY <1>0, <2>1, SoleStage
  <2>5. Placed(scripts[p])'
    BY <1>0, <1>00, <1>2, <2>1, <2>2, <2>3, <2>4, MarkerNames DEF Stage, Placed, Places, Locked
  <2>6. Informed(scripts[p])'
    BY <1>0, <1>00, <1>2, <2>1, <2>2, <2>3, <2>4, MarkerNames DEF Stage, Placed, Places, Informed
  <2>7. Clean(scripts[p])'
    BY <1>0, <1>00, <1>2, <2>1, <2>2, <2>3, <2>4, MarkerNames DEF Stage, Placed, Places, Locked, Clean, Informed, Ground, Files
  <2>8. Bridged(scripts[p])'
    BY <1>0, <1>00, <1>2, <2>1, <2>2, <2>3, <2>4, MarkerNames DEF Stage, Placed, Places, Locked, Bridged, Down
  <2>9. Routed(scripts[p])'
    BY <1>0, <1>00, <1>2, <2>1, <2>2, <2>3, <2>4, MarkerNames DEF Stage, Placed, Places, Locked, Clean, Informed, Routed, Enabling, Serving, NoWrite
  <2> QED
    BY <1>0, <1>00, <2>3, <2>4, <2>5, <2>6, <2>7, <2>8, <2>9, SoleStep DEF Stage
<1>3. CASE DisableClears(p)
  <2>1. scripts[p].op = "disable" /\ scripts[p].pc = "clear"
    BY <1>3 DEF DisableClears, At
  <2>2. UNCHANGED <<up, on>> /\ files' = files \ ({"initialized", "initializing", "sb"} \cup Marked)
    BY <1>3 DEF DisableClears, At
  <2>3. /\ scripts[p] # NoScript /\ \A q \in Pids : q # p => scripts'[q] = scripts[q]
        /\ scripts'[p].pc = "none" /\ scripts'[p].op = "none"
    BY <1>0, <1>3, <2>1, GoneOut DEF DisableClears, At
  <2>4. InStep /\ Stage(scripts[p])
    BY <1>0, <2>1, SoleStage
  <2>5. Placed(scripts[p])'
    BY <1>0, <1>00, <1>3, <2>1, <2>2, <2>3, <2>4, MarkerNames DEF Stage, Placed, Places, Locked
  <2>6. Informed(scripts[p])'
    BY <1>0, <1>00, <1>3, <2>1, <2>2, <2>3, <2>4, MarkerNames DEF Stage, Placed, Places, Informed
  <2>7. Clean(scripts[p])'
    BY <1>0, <1>00, <1>3, <2>1, <2>2, <2>3, <2>4, MarkerNames DEF Stage, Placed, Places, Locked, Clean, Informed, Ground, Files
  <2>8. Bridged(scripts[p])'
    BY <1>0, <1>00, <1>3, <2>1, <2>2, <2>3, <2>4, MarkerNames DEF Stage, Placed, Places, Locked, Bridged, Down
  <2>9. Routed(scripts[p])'
    BY <1>0, <1>00, <1>3, <2>1, <2>2, <2>3, <2>4, MarkerNames DEF Stage, Placed, Places, Locked, Clean, Informed, Routed, Enabling, Serving, NoWrite
  <2> QED
    BY <1>0, <1>00, <2>3, <2>4, <2>5, <2>6, <2>7, <2>8, <2>9, SoleStep DEF Stage
<1>4. CASE SafeBrowsingScript(p) /\ scripts[p].op = "startsb"
  <2>1. scripts[p].pc = "new"
    BY <1>4 DEF SafeBrowsingScript, At, Start
  <2>2. up' = up /\ on' = (IF up THEN on \cup {"sb"} ELSE on) /\ files' = files \cup {"sb"}
    BY <1>4 DEF SafeBrowsingScript, At, Start
  <2>3. /\ scripts[p] # NoScript /\ \A q \in Pids : q # p => scripts'[q] = scripts[q]
        /\ scripts'[p].pc = "none" /\ scripts'[p].op = "none"
    BY <1>0, <1>4, <2>1, GoneOut DEF SafeBrowsingScript, At, Start
  <2>4. InStep /\ Stage(scripts[p])
    BY <1>0, <2>1, SoleStage
  <2>5. Placed(scripts[p])'
    BY <1>0, <1>00, <1>4, <2>1, <2>2, <2>3, <2>4, MarkerNames DEF Stage, Placed, Places, Locked
  <2>6. Informed(scripts[p])'
    BY <1>0, <1>00, <1>4, <2>1, <2>2, <2>3, <2>4, MarkerNames DEF Stage, Placed, Places, Informed
  <2>7. Clean(scripts[p])'
    BY <1>0, <1>00, <1>4, <2>1, <2>2, <2>3, <2>4, MarkerNames DEF Stage, Placed, Places, Locked, Clean, Informed, Ground, Files
  <2>8. Bridged(scripts[p])'
    BY <1>0, <1>00, <1>4, <2>1, <2>2, <2>3, <2>4, MarkerNames DEF Stage, Placed, Places, Locked, Bridged, Down
  <2>9. Routed(scripts[p])'
    BY <1>0, <1>00, <1>4, <2>1, <2>2, <2>3, <2>4, MarkerNames DEF Stage, Placed, Places, Locked, Clean, Informed, Routed, Enabling, Serving, NoWrite
  <2> QED
    BY <1>0, <1>00, <2>3, <2>4, <2>5, <2>6, <2>7, <2>8, <2>9, SoleStep DEF Stage
<1>5. CASE SafeBrowsingScript(p) /\ scripts[p].op # "startsb"
  <2>1. scripts[p].op = "stopsb" /\ scripts[p].pc = "new"
    BY <1>5 DEF SafeBrowsingScript, At, Start
  <2>2. up' = up /\ on' = (IF "sb" \in files THEN on \ {"sb"} ELSE on) /\ files' = files \ {"sb"}
    BY <1>5 DEF SafeBrowsingScript, At, Start
  <2>3. /\ scripts[p] # NoScript /\ \A q \in Pids : q # p => scripts'[q] = scripts[q]
        /\ scripts'[p].pc = "none" /\ scripts'[p].op = "none"
    BY <1>0, <1>5, <2>1, GoneOut DEF SafeBrowsingScript, At, Start
  <2>4. InStep /\ Stage(scripts[p])
    BY <1>0, <2>1, SoleStage
  <2>5. Placed(scripts[p])'
    BY <1>0, <1>00, <1>5, <2>1, <2>2, <2>3, <2>4, MarkerNames DEF Stage, Placed, Places, Locked
  <2>6. Informed(scripts[p])'
    BY <1>0, <1>00, <1>5, <2>1, <2>2, <2>3, <2>4, MarkerNames DEF Stage, Placed, Places, Informed
  <2>7. Clean(scripts[p])'
    BY <1>0, <1>00, <1>5, <2>1, <2>2, <2>3, <2>4, MarkerNames DEF Stage, Placed, Places, Locked, Clean, Informed, Ground, Files
  <2>8. Bridged(scripts[p])'
    BY <1>0, <1>00, <1>5, <2>1, <2>2, <2>3, <2>4, MarkerNames DEF Stage, Placed, Places, Locked, Bridged, Down
  <2>9. Routed(scripts[p])'
    BY <1>0, <1>00, <1>5, <2>1, <2>2, <2>3, <2>4, MarkerNames DEF Stage, Placed, Places, Locked, Clean, Informed, Routed, Enabling, Serving, NoWrite
  <2> QED
    BY <1>0, <1>00, <2>3, <2>4, <2>5, <2>6, <2>7, <2>8, <2>9, SoleStep DEF Stage
<1>6. CASE RfcScript(p) /\ (scripts[p].op = "rfcOn" /\ RestartsAgent(scripts[p].arg))
  <2>1. scripts[p].pc = "new" /\ mode # "2"
    BY <1>6 DEF RfcScript, At
  <2>2. UNCHANGED <<up, on>> /\ files' = files \cup ({scripts[p].arg} \cap Marked)
    BY <1>6 DEF RfcScript, At
  <2>3. /\ scripts[p] # NoScript /\ \A q \in Pids : q # p => scripts'[q] = scripts[q]
        /\ scripts'[p].pc = "gate" /\ scripts'[p].op = scripts[p].op
        /\ scripts'[p].arg = scripts[p].arg /\ scripts'[p].conf = scripts[p].conf
    BY <1>0, <1>6, <2>1, GoneOn DEF RfcScript, At, Steps, Locked
  <2>4. InStep /\ Stage(scripts[p])
    BY <1>0, <2>1, SoleStage
  <2>5. Placed(scripts[p])'
    BY <1>0, <1>00, <1>6, <2>1, <2>2, <2>3, <2>4, MarkerNames DEF Stage, Placed, Places, Locked
  <2>6. Informed(scripts[p])'
    BY <1>0, <1>00, <1>6, <2>1, <2>2, <2>3, <2>4, MarkerNames DEF Stage, Placed, Places, Informed
  <2>7. Clean(scripts[p])'
    BY <1>0, <1>00, <1>6, <2>1, <2>2, <2>3, <2>4, MarkerNames DEF Stage, Placed, Places, Locked, Clean, Informed, Ground, Files
  <2>8. Bridged(scripts[p])'
    BY <1>0, <1>00, <1>6, <2>1, <2>2, <2>3, <2>4, MarkerNames DEF Stage, Placed, Places, Locked, Bridged, Down
  <2>9. Routed(scripts[p])'
    BY <1>0, <1>00, <1>6, <2>1, <2>2, <2>3, <2>4, MarkerNames DEF Stage, Placed, Places, Locked, Clean, Informed, Routed, Enabling, Serving, NoWrite
  <2> QED
    BY <1>0, <1>00, <2>3, <2>4, <2>5, <2>6, <2>7, <2>8, <2>9, SoleStep DEF Stage
<1>7. CASE RfcScript(p) /\ (scripts[p].op = "rfcOn" /\ ~RestartsAgent(scripts[p].arg))
  <2>1. scripts[p].pc = "new"
    BY <1>7 DEF RfcScript, At
  <2>2. UNCHANGED <<up, on>> /\ files' = files \cup ({scripts[p].arg} \cap Marked)
    BY <1>7 DEF RfcScript, At
  <2>3. /\ scripts[p] # NoScript /\ \A q \in Pids : q # p => scripts'[q] = scripts[q]
        /\ scripts'[p].pc = "none" /\ scripts'[p].op = "none"
    BY <1>0, <1>7, <2>1, GoneOut DEF RfcScript, At
  <2>4. InStep /\ Stage(scripts[p])
    BY <1>0, <2>1, SoleStage
  <2>5. Placed(scripts[p])'
    BY <1>0, <1>00, <1>7, <2>1, <2>2, <2>3, <2>4, MarkerNames DEF Stage, Placed, Places, Locked
  <2>6. Informed(scripts[p])'
    BY <1>0, <1>00, <1>7, <2>1, <2>2, <2>3, <2>4, MarkerNames DEF Stage, Placed, Places, Informed
  <2>7. Clean(scripts[p])'
    BY <1>0, <1>00, <1>7, <2>1, <2>2, <2>3, <2>4, MarkerNames DEF Stage, Placed, Places, Locked, Clean, Informed, Ground, Files
  <2>8. Bridged(scripts[p])'
    BY <1>0, <1>00, <1>7, <2>1, <2>2, <2>3, <2>4, MarkerNames DEF Stage, Placed, Places, Locked, Bridged, Down
  <2>9. Routed(scripts[p])'
    BY <1>0, <1>00, <1>7, <2>1, <2>2, <2>3, <2>4, MarkerNames DEF Stage, Placed, Places, Locked, Clean, Informed, Routed, Enabling, Serving, NoWrite
  <2> QED
    BY <1>0, <1>00, <2>3, <2>4, <2>5, <2>6, <2>7, <2>8, <2>9, SoleStep DEF Stage
<1>8. CASE RfcScript(p) /\ (scripts[p].op # "rfcOn" /\ RestartsAgent(scripts[p].arg))
  <2>1. scripts[p].op = "rfcOff" /\ scripts[p].pc = "new" /\ mode # "2"
    BY <1>8 DEF RfcScript, At
  <2>2. UNCHANGED <<up, on>> /\ files' = files \ {scripts[p].arg}
    BY <1>8 DEF RfcScript, At
  <2>3. /\ scripts[p] # NoScript /\ \A q \in Pids : q # p => scripts'[q] = scripts[q]
        /\ scripts'[p].pc = "gate" /\ scripts'[p].op = scripts[p].op
        /\ scripts'[p].arg = scripts[p].arg /\ scripts'[p].conf = scripts[p].conf
    BY <1>0, <1>8, <2>1, GoneOn DEF RfcScript, At, Steps, Locked
  <2>4. InStep /\ Stage(scripts[p])
    BY <1>0, <2>1, SoleStage
  <2>5. Placed(scripts[p])'
    BY <1>0, <1>00, <1>8, <2>1, <2>2, <2>3, <2>4, MarkerNames DEF Stage, Placed, Places, Locked
  <2>6. Informed(scripts[p])'
    BY <1>0, <1>00, <1>8, <2>1, <2>2, <2>3, <2>4, MarkerNames DEF Stage, Placed, Places, Informed
  <2>7. Clean(scripts[p])'
    BY <1>0, <1>00, <1>8, <2>1, <2>2, <2>3, <2>4, MarkerNames DEF Stage, Placed, Places, Locked, Clean, Informed, Ground, Files
  <2>8. Bridged(scripts[p])'
    BY <1>0, <1>00, <1>8, <2>1, <2>2, <2>3, <2>4, MarkerNames DEF Stage, Placed, Places, Locked, Bridged, Down
  <2>9. Routed(scripts[p])'
    BY <1>0, <1>00, <1>8, <2>1, <2>2, <2>3, <2>4, MarkerNames DEF Stage, Placed, Places, Locked, Clean, Informed, Routed, Enabling, Serving, NoWrite
  <2> QED
    BY <1>0, <1>00, <2>3, <2>4, <2>5, <2>6, <2>7, <2>8, <2>9, SoleStep DEF Stage
<1>9. CASE RfcScript(p) /\ (scripts[p].op # "rfcOn" /\ ~RestartsAgent(scripts[p].arg))
  <2>1. scripts[p].op = "rfcOff" /\ scripts[p].pc = "new"
    BY <1>9 DEF RfcScript, At
  <2>2. UNCHANGED <<up, on>> /\ files' = files \ {scripts[p].arg}
    BY <1>9 DEF RfcScript, At
  <2>3. /\ scripts[p] # NoScript /\ \A q \in Pids : q # p => scripts'[q] = scripts[q]
        /\ scripts'[p].pc = "none" /\ scripts'[p].op = "none"
    BY <1>0, <1>9, <2>1, GoneOut DEF RfcScript, At
  <2>4. InStep /\ Stage(scripts[p])
    BY <1>0, <2>1, SoleStage
  <2>5. Placed(scripts[p])'
    BY <1>0, <1>00, <1>9, <2>1, <2>2, <2>3, <2>4, MarkerNames DEF Stage, Placed, Places, Locked
  <2>6. Informed(scripts[p])'
    BY <1>0, <1>00, <1>9, <2>1, <2>2, <2>3, <2>4, MarkerNames DEF Stage, Placed, Places, Informed
  <2>7. Clean(scripts[p])'
    BY <1>0, <1>00, <1>9, <2>1, <2>2, <2>3, <2>4, MarkerNames DEF Stage, Placed, Places, Locked, Clean, Informed, Ground, Files
  <2>8. Bridged(scripts[p])'
    BY <1>0, <1>00, <1>9, <2>1, <2>2, <2>3, <2>4, MarkerNames DEF Stage, Placed, Places, Locked, Bridged, Down
  <2>9. Routed(scripts[p])'
    BY <1>0, <1>00, <1>9, <2>1, <2>2, <2>3, <2>4, MarkerNames DEF Stage, Placed, Places, Locked, Clean, Informed, Routed, Enabling, Serving, NoWrite
  <2> QED
    BY <1>0, <1>00, <2>3, <2>4, <2>5, <2>6, <2>7, <2>8, <2>9, SoleStep DEF Stage
<1>10. CASE RestartScript(p) /\ "fp" \in files
  <2>1. scripts[p].op = "restart" /\ scripts[p].pc = "new"
    BY <1>10 DEF RestartScript, At, agent
  <2>2. UNCHANGED <<files, up, on>>
    BY <1>10 DEF RestartScript, At, agent
  <2>3. /\ scripts[p] # NoScript /\ \A q \in Pids : q # p => scripts'[q] = scripts[q]
        /\ scripts'[p].pc = "gate" /\ scripts'[p].op = scripts[p].op
        /\ scripts'[p].arg = scripts[p].arg /\ scripts'[p].conf = scripts[p].conf
    BY <1>0, <1>10, <2>1, GoneOn DEF RestartScript, At, agent, Steps, Locked
  <2>4. InStep /\ Stage(scripts[p])
    BY <1>0, <2>1, SoleStage
  <2>5. Placed(scripts[p])'
    BY <1>0, <1>00, <1>10, <2>1, <2>2, <2>3, <2>4, MarkerNames DEF Stage, Placed, Places, Locked
  <2>6. Informed(scripts[p])'
    BY <1>0, <1>00, <1>10, <2>1, <2>2, <2>3, <2>4, MarkerNames DEF Stage, Placed, Places, Informed
  <2>7. Clean(scripts[p])'
    BY <1>0, <1>00, <1>10, <2>1, <2>2, <2>3, <2>4, MarkerNames DEF Stage, Placed, Places, Locked, Clean, Informed, Ground, Files
  <2>8. Bridged(scripts[p])'
    BY <1>0, <1>00, <1>10, <2>1, <2>2, <2>3, <2>4, MarkerNames DEF Stage, Placed, Places, Locked, Bridged, Down
  <2>9. Routed(scripts[p])'
    BY <1>0, <1>00, <1>10, <2>1, <2>2, <2>3, <2>4, MarkerNames DEF Stage, Placed, Places, Locked, Clean, Informed, Routed, Enabling, Serving, NoWrite
  <2> QED
    BY <1>0, <1>00, <2>3, <2>4, <2>5, <2>6, <2>7, <2>8, <2>9, SoleStep DEF Stage
<1>11. CASE RestartScript(p) /\ "fp" \notin files
  <2>1. scripts[p].op = "restart" /\ scripts[p].pc = "new"
    BY <1>11 DEF RestartScript, At, agent
  <2>2. UNCHANGED <<files, up, on>>
    BY <1>11 DEF RestartScript, At, agent
  <2>3. /\ scripts[p] # NoScript /\ \A q \in Pids : q # p => scripts'[q] = scripts[q]
        /\ scripts'[p].pc = "none" /\ scripts'[p].op = "none"
    BY <1>0, <1>11, <2>1, GoneOut DEF RestartScript, At, agent
  <2>4. InStep /\ Stage(scripts[p])
    BY <1>0, <2>1, SoleStage
  <2>5. Placed(scripts[p])'
    BY <1>0, <1>00, <1>11, <2>1, <2>2, <2>3, <2>4, MarkerNames DEF Stage, Placed, Places, Locked
  <2>6. Informed(scripts[p])'
    BY <1>0, <1>00, <1>11, <2>1, <2>2, <2>3, <2>4, MarkerNames DEF Stage, Placed, Places, Informed
  <2>7. Clean(scripts[p])'
    BY <1>0, <1>00, <1>11, <2>1, <2>2, <2>3, <2>4, MarkerNames DEF Stage, Placed, Places, Locked, Clean, Informed, Ground, Files
  <2>8. Bridged(scripts[p])'
    BY <1>0, <1>00, <1>11, <2>1, <2>2, <2>3, <2>4, MarkerNames DEF Stage, Placed, Places, Locked, Bridged, Down
  <2>9. Routed(scripts[p])'
    BY <1>0, <1>00, <1>11, <2>1, <2>2, <2>3, <2>4, MarkerNames DEF Stage, Placed, Places, Locked, Clean, Informed, Routed, Enabling, Serving, NoWrite
  <2> QED
    BY <1>0, <1>00, <2>3, <2>4, <2>5, <2>6, <2>7, <2>8, <2>9, SoleStep DEF Stage
<1>12. CASE RecoveryChecks(p) /\ Goto(p, "gate")
  <2>1. scripts[p].op = "recovery" /\ scripts[p].pc = "check"
    BY <1>12 DEF RecoveryChecks, At, agent
  <2>2. UNCHANGED <<files, up, on>>
    BY <1>12 DEF RecoveryChecks, At, agent
  <2>3. /\ scripts[p] # NoScript /\ \A q \in Pids : q # p => scripts'[q] = scripts[q]
        /\ scripts'[p].pc = "gate" /\ scripts'[p].op = scripts[p].op
        /\ scripts'[p].arg = scripts[p].arg /\ scripts'[p].conf = scripts[p].conf
    BY <1>0, <1>12, <2>1, GoneOn DEF RecoveryChecks, At, agent, Steps, Locked
  <2>4. InStep /\ Stage(scripts[p])
    BY <1>0, <2>1, SoleStage
  <2>5. Placed(scripts[p])'
    BY <1>0, <1>00, <1>12, <2>1, <2>2, <2>3, <2>4, MarkerNames DEF Stage, Placed, Places, Locked
  <2>6. Informed(scripts[p])'
    BY <1>0, <1>00, <1>12, <2>1, <2>2, <2>3, <2>4, MarkerNames DEF Stage, Placed, Places, Informed
  <2>7. Clean(scripts[p])'
    BY <1>0, <1>00, <1>12, <2>1, <2>2, <2>3, <2>4, MarkerNames DEF Stage, Placed, Places, Locked, Clean, Informed, Ground, Files
  <2>8. Bridged(scripts[p])'
    BY <1>0, <1>00, <1>12, <2>1, <2>2, <2>3, <2>4, MarkerNames DEF Stage, Placed, Places, Locked, Bridged, Down
  <2>9. Routed(scripts[p])'
    BY <1>0, <1>00, <1>12, <2>1, <2>2, <2>3, <2>4, MarkerNames DEF Stage, Placed, Places, Locked, Clean, Informed, Routed, Enabling, Serving, NoWrite
  <2> QED
    BY <1>0, <1>00, <2>3, <2>4, <2>5, <2>6, <2>7, <2>8, <2>9, SoleStep DEF Stage
<1>13. CASE RecoveryChecks(p) /\ Exit(p)
  <2>1. scripts[p].op = "recovery" /\ scripts[p].pc = "check"
    BY <1>13 DEF RecoveryChecks, At, agent
  <2>2. UNCHANGED <<files, up, on>>
    BY <1>13 DEF RecoveryChecks, At, agent
  <2>3. /\ scripts[p] # NoScript /\ \A q \in Pids : q # p => scripts'[q] = scripts[q]
        /\ scripts'[p].pc = "none" /\ scripts'[p].op = "none"
    BY <1>0, <1>13, <2>1, GoneOut DEF RecoveryChecks, At, agent
  <2>4. InStep /\ Stage(scripts[p])
    BY <1>0, <2>1, SoleStage
  <2>5. Placed(scripts[p])'
    BY <1>0, <1>00, <1>13, <2>1, <2>2, <2>3, <2>4, MarkerNames DEF Stage, Placed, Places, Locked
  <2>6. Informed(scripts[p])'
    BY <1>0, <1>00, <1>13, <2>1, <2>2, <2>3, <2>4, MarkerNames DEF Stage, Placed, Places, Informed
  <2>7. Clean(scripts[p])'
    BY <1>0, <1>00, <1>13, <2>1, <2>2, <2>3, <2>4, MarkerNames DEF Stage, Placed, Places, Locked, Clean, Informed, Ground, Files
  <2>8. Bridged(scripts[p])'
    BY <1>0, <1>00, <1>13, <2>1, <2>2, <2>3, <2>4, MarkerNames DEF Stage, Placed, Places, Locked, Bridged, Down
  <2>9. Routed(scripts[p])'
    BY <1>0, <1>00, <1>13, <2>1, <2>2, <2>3, <2>4, MarkerNames DEF Stage, Placed, Places, Locked, Clean, Informed, Routed, Enabling, Serving, NoWrite
  <2> QED
    BY <1>0, <1>00, <2>3, <2>4, <2>5, <2>6, <2>7, <2>8, <2>9, SoleStep DEF Stage
<1> QED
  BY <1>0, <1>2, <1>3, <1>4, <1>5, <1>6, <1>7, <1>8, <1>9, <1>10, <1>11, <1>12, <1>13 DEF DisableStops, DisableClears, SafeBrowsingScript, RfcScript, RestartScript, RecoveryChecks

(* The recovery script, which finds no marker of a script under way while   *)
(* none overlaps it.                                                        *)
LEMMA RecoveryOrderly ==
  ASSUME IInv, Ground, Orderly, ~trouble', NEW p \in Pids,
         RecoveryStarts(p) \/ RecoverySettles(p)
  PROVE  Orderly'
<1>0. /\ ScriptType /\ ~trouble /\ Orderly /\ TypeOK /\ Ground
      /\ files \subseteq Files /\ on \subseteq {"fp", "sb"} /\ cfg \in Configs
  BY DEF IInv, TypeOK, ScriptType, Files, RecoveryStarts, RecoverySettles, history, Fault
<1>00. /\ UNCHANGED <<fp, cfg, persist, mode, events, prevBridge, listening>>
       /\ Due' = Due /\ InStep' = InStep
  BY StepFrame DEF RecoveryStarts, RecoverySettles
<1>2. CASE RecoveryStarts(p) /\ (mode # "2" /\ "initializing" \notin files /\ up)
  <2>1. scripts[p].op = "recovery" /\ scripts[p].pc = "new"
    BY <1>2 DEF RecoveryStarts, At, agent
  <2>2. UNCHANGED <<files, up, on>>
    BY <1>2 DEF RecoveryStarts, At, agent
  <2>3. /\ scripts[p] # NoScript /\ \A q \in Pids : q # p => scripts'[q] = scripts[q]
        /\ scripts'[p].pc = "check" /\ scripts'[p].op = scripts[p].op
        /\ scripts'[p].arg = scripts[p].arg /\ scripts'[p].conf = scripts[p].conf
    BY <1>0, <1>2, <2>1, GoneOn DEF RecoveryStarts, At, agent, Steps, Locked
  <2>4. InStep /\ Stage(scripts[p])
    BY <1>0, <2>1, SoleStage
  <2>5. Placed(scripts[p])'
    BY <1>0, <1>00, <1>2, <2>1, <2>2, <2>3, <2>4, MarkerNames DEF Stage, Placed, Places, Locked
  <2>6. Informed(scripts[p])'
    BY <1>0, <1>00, <1>2, <2>1, <2>2, <2>3, <2>4, MarkerNames DEF Stage, Placed, Places, Informed
  <2>7. Clean(scripts[p])'
    BY <1>0, <1>00, <1>2, <2>1, <2>2, <2>3, <2>4, MarkerNames DEF Stage, Placed, Places, Locked, Clean, Informed, Ground, Files
  <2>8. Bridged(scripts[p])'
    BY <1>0, <1>00, <1>2, <2>1, <2>2, <2>3, <2>4, MarkerNames DEF Stage, Placed, Places, Locked, Bridged, Down
  <2>9. Routed(scripts[p])'
    BY <1>0, <1>00, <1>2, <2>1, <2>2, <2>3, <2>4, MarkerNames DEF Stage, Placed, Places, Locked, Clean, Informed, Routed, Enabling, Serving, NoWrite
  <2> QED
    BY <1>0, <1>00, <2>3, <2>4, <2>5, <2>6, <2>7, <2>8, <2>9, SoleStep DEF Stage
<1>3. CASE RecoveryStarts(p) /\ (mode = "2" \/ ("initializing" \notin files /\ ~up))
  <2>1. scripts[p].op = "recovery" /\ scripts[p].pc = "new"
    BY <1>3 DEF RecoveryStarts, At, agent
  <2>2. UNCHANGED <<files, up, on>>
    BY <1>3 DEF RecoveryStarts, At, agent
  <2>3. /\ scripts[p] # NoScript /\ \A q \in Pids : q # p => scripts'[q] = scripts[q]
        /\ scripts'[p].pc = "none" /\ scripts'[p].op = "none"
    BY <1>0, <1>3, <2>1, GoneOut DEF RecoveryStarts, At, agent
  <2>4. InStep /\ Stage(scripts[p])
    BY <1>0, <2>1, SoleStage
  <2>5. Placed(scripts[p])'
    BY <1>0, <1>00, <1>3, <2>1, <2>2, <2>3, <2>4, MarkerNames DEF Stage, Placed, Places, Locked
  <2>6. Informed(scripts[p])'
    BY <1>0, <1>00, <1>3, <2>1, <2>2, <2>3, <2>4, MarkerNames DEF Stage, Placed, Places, Informed
  <2>7. Clean(scripts[p])'
    BY <1>0, <1>00, <1>3, <2>1, <2>2, <2>3, <2>4, MarkerNames DEF Stage, Placed, Places, Locked, Clean, Informed, Ground, Files
  <2>8. Bridged(scripts[p])'
    BY <1>0, <1>00, <1>3, <2>1, <2>2, <2>3, <2>4, MarkerNames DEF Stage, Placed, Places, Locked, Bridged, Down
  <2>9. Routed(scripts[p])'
    BY <1>0, <1>00, <1>3, <2>1, <2>2, <2>3, <2>4, MarkerNames DEF Stage, Placed, Places, Locked, Clean, Informed, Routed, Enabling, Serving, NoWrite
  <2> QED
    BY <1>0, <1>00, <2>3, <2>4, <2>5, <2>6, <2>7, <2>8, <2>9, SoleStep DEF Stage
<1>4. ~(RecoveryStarts(p) /\ mode # "2" /\ "initializing" \in files)
  <2> SUFFICES ASSUME RecoveryStarts(p), "initializing" \in files PROVE FALSE
    OBVIOUS
  <2>1. scripts[p].op = "recovery" /\ scripts[p].pc = "new"
    BY DEF RecoveryStarts, At
  <2>2. Stage(scripts[p])
    BY <1>0, <2>1, SoleStage
  <2> QED
    BY <2>1, <2>2 DEF Stage, Placed, Locked
<1>5. ~RecoverySettles(p)
  <2> SUFFICES ASSUME RecoverySettles(p) PROVE FALSE
    OBVIOUS
  <2>1. scripts[p].op = "recovery" /\ scripts[p].pc = "settle"
    BY DEF RecoverySettles, At
  <2>2. Stage(scripts[p])
    BY <1>0, <2>1, SoleStage
  <2> QED
    BY <2>1, <2>2 DEF Stage, Placed, Places
<1> QED
  BY <1>0, <1>2, <1>3, <1>4, <1>5 DEF RecoveryStarts, RecoverySettles

(* -enable reads the switches as they are.                                  *)
LEMMA EnableOrderly ==
  ASSUME IInv, Ground, Orderly, ~trouble', NEW p \in Pids, EnableReads(p)
  PROVE  Orderly'
<1>0. ScriptType /\ ~trouble /\ cfg \in Configs /\ persist = NoWrite
  BY DEF IInv, TypeOK, ScriptType, EnableReads
<1>1. /\ UNCHANGED <<fp, cfg, persist, mode, events, prevBridge, listening>>
      /\ Due' = Due /\ InStep' = InStep
  BY StepFrame DEF EnableReads
<1>2. scripts[p].op = "enable" /\ scripts[p].pc = "new" /\ UNCHANGED <<files, up, on>>
  BY DEF EnableReads, At, agent
<1>3. scripts[p] \in [op : Ops, pc : Steps, arg : Args, conf : Configs]
  BY <1>0, <1>2, RunningScript DEF ScriptType
<1>4. scripts' = [scripts EXCEPT ![p] = [scripts[p] EXCEPT !.pc = "gate", !.conf = cfg]]
  BY DEF EnableReads
<1>5. scripts'[p] = [scripts[p] EXCEPT !.pc = "gate", !.conf = cfg]
  BY <1>0, <1>4 DEF ScriptType
<1>6. /\ scripts[p] # NoScript /\ \A q \in Pids : q # p => scripts'[q] = scripts[q]
      /\ scripts'[p].pc = "gate" /\ scripts'[p].op = "enable" /\ scripts'[p].conf = cfg
  BY <1>0, <1>2, <1>3, <1>4, <1>5, NoScriptFacts DEF ScriptType
<1>7. InStep /\ Stage(scripts[p])
  BY <1>0, <1>2, SoleStage
<1>8. Placed(scripts[p])' /\ Informed(scripts[p])' /\ Clean(scripts[p])'
  BY <1>0, <1>1, <1>2, <1>6, <1>7 DEF Stage, Placed, Places, Locked, Informed, Clean
<1>9. Bridged(scripts[p])' /\ Routed(scripts[p])'
  BY <1>1, <1>2, <1>6, <1>7 DEF Stage, Bridged, Down, Routed, Enabling
<1> QED
  BY <1>0, <1>1, <1>6, <1>7, <1>8, <1>9, SoleStep DEF Stage

LEMMA ScriptOrderly ==
  ASSUME IInv, Ground, Orderly, NEW p \in Pids, ScriptStep(p)
  PROVE  Orderly'
<1>1. SUFFICES ASSUME ~trouble' PROVE Orderly'
  BY DEF Orderly
<1> QED
  BY <1>1, EnableOrderly, LaunchOrderly, StartOrderly, OthersOrderly, RecoveryOrderly DEF ScriptStep

(* A feature runs in an agent that runs, whatever overlaps.                 *)
LEMMA ScriptGround ==
  ASSUME Ground, NEW p \in Pids, ScriptStep(p)
  PROVE  Ground'
<1>1. UNCHANGED <<fp, persist, mode, events, listening>>
  BY StepFrame DEF ScriptStep, EnableReads, Gate, Touch, advsec_stop_agent, advsec_start_agent, advsec_wait_for_agent,
     EnableFingerprint, EnableRest, StartAgain, Unlock, DisableStops, DisableClears, SafeBrowsingScript,
     RfcScript, RestartScript, RecoveryStarts, RecoverySettles, RecoveryChecks
<1>2. ~up' => on' = {}
  BY DEF Ground, ScriptStep, EnableReads, Gate, Touch, advsec_stop_agent, advsec_start_agent, advsec_wait_for_agent,
     EnableFingerprint, EnableRest, StartAgain, Unlock, DisableStops, DisableClears, SafeBrowsingScript,
     RfcScript, RestartScript, RecoveryStarts, RecoverySettles, RecoveryChecks, Start, agent
<1> QED
  BY <1>1, <1>2 DEF Ground, Latest

-----------------------------------------------------------------------------
(* Setters, threads and the environment.                                    *)

LEMMA RecordFields ==
  /\ \A op, arg : /\ Script(op, arg).op = op /\ Script(op, arg).pc = "new"
                  /\ Script(op, arg).arg = arg
  /\ NoScript.op = "none" /\ NoScript.pc = "none"
  BY DEF Script, NoScript

(* What holds when a script was started and nothing overlapped.             *)
LEMMA StartedAlone ==
  ASSUME Orderly, trouble \in BOOLEAN, NEW op, NEW arg, v_secure_system(op, arg), ~trouble'
  PROVE  /\ Spawned(op, arg) /\ Running = {} /\ InStep
         /\ op = "disable" \/ Stage(NoScript)
<1>1. Launched(op, arg)
  BY DEF v_secure_system, Fault
<1>2. Spawned(op, arg) /\ Running = {} /\ (~trouble \/ (op = "disable" /\ InStep))
  BY <1>1 DEF Launched
<1> QED
  BY <1>2 DEF Orderly

(* The switch of the agent.                                                 *)
LEMMA SwitchOrderly ==
  ASSUME IInv, Orderly, NEW v \in BOOLEAN, DeviceFingerPrint_SetParamBoolValue(v)
  PROVE  Orderly'
<1>1. SUFFICES ASSUME ~trouble' PROVE Orderly'
  BY DEF Orderly
<1> DEFINE op == IF v THEN "enable" ELSE "disable"
<1>2. /\ v_secure_system(op, "none") /\ fp' = v
      /\ UNCHANGED <<cfg, mode, listening, events, prevBridge, files, up, on>>
  BY DEF DeviceFingerPrint_SetParamBoolValue, device, agent
<1>3. ScriptType /\ trouble \in BOOLEAN /\ op \in Ops /\ "none" \in Args
  BY DEF IInv, TypeOK, ScriptType, Ops, Args
<1>4. Due' = Due /\ InStep' = InStep
  BY <1>2 DEF Due, InStep
<1>5. Spawned(op, "none") /\ Running = {} /\ InStep /\ (op = "disable" \/ Stage(NoScript))
  BY <1>1, <1>2, <1>3, StartedAlone
<1>6. CASE v
  <2>1. Stage(NoScript) /\ op = "enable"
    BY <1>5, <1>6
  <2>2. Stage(Script("enable", "none"))'
    BY <1>2, <1>4, <2>1, RecordFields
    DEF Stage, Placed, Places, Locked, Informed, Clean, Bridged, Down, Routed, Enabling
  <2> QED
    BY <1>3, <1>4, <1>5, <2>1, <2>2, SoleStart
<1>7. CASE ~v
  <2>1. op = "disable" /\ fp' = FALSE
    BY <1>2, <1>7
  <2>2. Stage(Script("disable", "none"))'
    BY <2>1, RecordFields DEF Stage, Placed, Places, Informed, Clean, Bridged, Down, Routed
  <2> QED
    BY <1>3, <1>4, <1>5, <2>1, <2>2, SoleStart
<1> QED
  BY <1>6, <1>7

(* Safe browsing.                                                           *)
LEMMA SafeBrowsingOrderly ==
  ASSUME IInv, Orderly, NEW v \in BOOLEAN, SafeBrowsing_SetParamBoolValue(v)
  PROVE  Orderly'
<1>1. SUFFICES ASSUME ~trouble' PROVE Orderly'
  BY DEF Orderly
<1> DEFINE op == IF v THEN "startsb" ELSE "stopsb"
<1>2. /\ v_secure_system(op, "none") /\ cfg' = [cfg EXCEPT !.sb = v]
      /\ UNCHANGED <<fp, persist, mode, listening, events, prevBridge, files, up, on>>
  BY DEF SafeBrowsing_SetParamBoolValue, device, agent
<1>3. ScriptType /\ trouble \in BOOLEAN /\ op \in Ops /\ "none" \in Args /\ cfg \in Configs
  BY DEF IInv, TypeOK, ScriptType, Ops, Args
<1>4. Due' = Due /\ InStep' = InStep
  BY <1>2 DEF Due, InStep
<1>5. Spawned(op, "none") /\ Running = {} /\ InStep /\ Stage(NoScript)
  BY <1>1, <1>2, <1>3, StartedAlone
<1>6. cfg'.sb = v /\ cfg'.fp = cfg.fp /\ cfg'.rfc = cfg.rfc
  BY <1>2, <1>3 DEF Configs
<1>7. CASE v
  <2>1. op = "startsb" /\ cfg'.sb
    BY <1>6, <1>7
  <2>2. Stage(Script("startsb", "none"))'
    BY <1>2, <1>4, <1>5, <1>6, <2>1, RecordFields
    DEF Stage, Placed, Places, Locked, Informed, Clean, Bridged, Down, Routed, Serving
  <2> QED
    BY <1>3, <1>4, <1>5, <2>1, <2>2, SoleStart
<1>8. CASE ~v
  <2>1. op = "stopsb" /\ ~cfg'.sb
    BY <1>6, <1>8
  <2>2. Stage(Script("stopsb", "none"))'
    BY <1>2, <1>4, <1>5, <1>6, <2>1, RecordFields
    DEF Stage, Placed, Places, Locked, Informed, Clean, Bridged, Down, Routed, Serving
  <2> QED
    BY <1>3, <1>4, <1>5, <2>1, <2>2, SoleStart
<1> QED
  BY <1>7, <1>8

(* The RFC switches.                                                        *)
LEMMA RfcOrderly ==
  ASSUME IInv, Orderly, NEW v \in BOOLEAN, NEW s \in Switches, RFC_SetParamBoolValue(s, v)
  PROVE  Orderly'
<1>1. SUFFICES ASSUME ~trouble' PROVE Orderly'
  BY DEF Orderly
<1> DEFINE op == IF v THEN "rfcOn" ELSE "rfcOff"
<1>0. SetRfc(s, v)
  BY RfcCall DEF RFC_SetParamBoolValue, IInv
<1>2. /\ v_secure_system(op, s) /\ cfg' = [cfg EXCEPT !.rfc[s] = v]
      /\ UNCHANGED <<fp, persist, mode, listening, events, prevBridge, files, up, on>>
  BY <1>0 DEF RFC_SetParamBoolValue, SetRfc, device, agent
<1>3. ScriptType /\ trouble \in BOOLEAN /\ op \in Ops /\ s \in Args /\ cfg \in Configs
  BY DEF IInv, TypeOK, ScriptType, Ops, Args
<1>4. Due' = Due /\ InStep' = InStep
  BY <1>2 DEF Due, InStep
<1>5. Spawned(op, s) /\ Running = {} /\ InStep /\ Stage(NoScript)
  BY <1>1, <1>2, <1>3, StartedAlone
<1>6. /\ cfg'.sb = cfg.sb /\ cfg'.fp = cfg.fp /\ cfg'.rfc[s] = v
      /\ \A r \in Switches : r # s => cfg'.rfc[r] = cfg.rfc[r]
  BY <1>2, <1>3 DEF Configs
<1>7. CASE v
  <2>1. op = "rfcOn" /\ cfg'.rfc[s]
    BY <1>6, <1>7
  <2>2. Stage(Script("rfcOn", s))'
    BY <1>2, <1>4, <1>5, <1>6, <2>1, RecordFields, MarkerNames
    DEF Stage, Placed, Places, Locked, Informed, Clean, Bridged, Down, Routed, Serving
  <2> QED
    BY <1>3, <1>4, <1>5, <2>1, <2>2, SoleStart
<1>8. CASE ~v
  <2>1. op = "rfcOff" /\ ~cfg'.rfc[s]
    BY <1>6, <1>8
  <2>2. Stage(Script("rfcOff", s))'
    BY <1>2, <1>4, <1>5, <1>6, <2>1, RecordFields, MarkerNames
    DEF Stage, Placed, Places, Locked, Informed, Clean, Bridged, Down, Routed, Serving
  <2> QED
    BY <1>3, <1>4, <1>5, <2>1, <2>2, SoleStart
<1> QED
  BY <1>7, <1>8

(* Scripts and markers are left alone.                                      *)
LEMMA SameScripts ==
  ASSUME Orderly, ~trouble, UNCHANGED scripts, InStep',
         Stage(NoScript) => Stage(NoScript)',
         \A p \in Pids : Stage(scripts[p]) => Stage(scripts[p])'
  PROVE  Orderly'
<1>1. Running' = Running /\ Running \subseteq Pids
  BY DEF Running
<1> QED
  BY <1>1 DEF Orderly

LEMMA PersistOrderly ==
  ASSUME IInv, Ground, Orderly, PersistSwitch
  PROVE  Orderly'
<1>1. SUFFICES ASSUME ~trouble' PROVE Orderly'
  BY DEF Orderly
<1>2. /\ ~trouble /\ persist # NoWrite /\ persist' = NoWrite /\ cfg' = [cfg EXCEPT !.fp = (persist = "on")]
      /\ UNCHANGED <<fp, mode, listening, events, prevBridge, scripts, files, up, on>>
  BY <1>1 DEF PersistSwitch, Fault, device, agent
<1>3. Due' = Due /\ InStep' = InStep /\ InStep
  BY <1>2 DEF Due, InStep, Orderly
<1>4. persist \in {"on", "off"} /\ (persist = "off" => ~fp) /\ cfg \in Configs
  BY <1>2 DEF IInv, TypeOK, Ground
<1>5. cfg'.sb = cfg.sb /\ cfg'.rfc = cfg.rfc
  BY <1>2, <1>4 DEF Configs
<1>6. ASSUME Stage(NoScript) PROVE Stage(NoScript)'
  BY <1>2, <1>3, <1>4, <1>5, <1>6, RecordFields
  DEF Stage, Placed, Informed, Clean, Bridged, Down, Routed, Serving
<1>7. ASSUME NEW p \in Pids, Stage(scripts[p]) PROVE Stage(scripts[p])'
  <2>1. scripts[p].op = "enable" => scripts[p].pc = "new"
    BY <1>2, <1>7 DEF Stage, Informed
  <2> QED
    BY <1>2, <1>3, <1>4, <1>5, <1>7, <2>1
    DEF Stage, Placed, Informed, Clean, Bridged, Down, Routed, Enabling, Serving
<1> QED
  BY <1>2, <1>3, <1>6, <1>7, SameScripts

(* A step that changes neither switches nor scripts, and makes no mode      *)
(* cease to be due but one that needs no script.                            *)
LEMMA ModeOrderly ==
  ASSUME Orderly, ~trouble, UNCHANGED <<fp, cfg, persist, scripts, files, up, on>>, InStep',
         mode' \in {"0", "2"} /\ ~Due' => mode' = mode /\ ~Due
  PROVE  Orderly'
<1>1. ASSUME Stage(NoScript) PROVE Stage(NoScript)'
  BY <1>1 DEF Stage, Placed, Informed, Clean, Bridged, Down, Routed, Enabling, Serving
<1>2. ASSUME NEW p \in Pids, Stage(scripts[p]) PROVE Stage(scripts[p])'
  BY <1>2 DEF Stage, Placed, Informed, Clean, Bridged, Down, Routed, Enabling, Serving
<1> QED
  BY <1>1, <1>2, SameScripts

Notes == Modes \cup {"restart"}

(* What a notification appended, or taken, does to what is due.             *)
LEMMA Appended ==
  ASSUME events \in Seq(Notes), NEW e \in Notes, events' = Append(events, e)
  PROVE  /\ DOMAIN events = 1 .. Len(events) /\ DOMAIN events' = 1 .. (Len(events) + 1) /\ Len(events) \in Nat
         /\ events'[Len(events) + 1] = e
         /\ \A i \in 1 .. Len(events) : events'[i] = events[i]
  BY AppendProperties

LEMMA Taken ==
  ASSUME events \in Seq(Notes), events # <<>>, events' = Tail(events)
  PROVE  /\ DOMAIN events = 1 .. Len(events) /\ DOMAIN events' = 1 .. (Len(events) - 1)
         /\ Len(events) \in Nat \ {0} /\ Head(events) = events[1] /\ Head(events) \in Notes
         /\ \A i \in 1 .. (Len(events) - 1) : events'[i] = events[i + 1]
  BY HeadTailProperties, EmptySeq

LEMMA ModeAppended ==
  ASSUME TypeOK, Latest, InStep, NEW m \in Modes, events' = Append(events, m), mode' = m, prevBridge' = prevBridge
  PROVE  /\ InStep'
         /\ m \in {"0", "2"} /\ ~Due' => m = mode /\ ~Due
<1> DEFINE n == Len(events)
<1>1. /\ DOMAIN events = 1 .. n /\ DOMAIN events' = 1 .. (n + 1) /\ n \in Nat
      /\ events'[n + 1] = m
      /\ \A i \in 1 .. n : events'[i] = events[i]
  BY Appended DEF TypeOK, Notes
<1>2. m # "restart"
  BY ModesAssumption
<1> HIDE DEF n
<1>3. n + 1 \in DOMAIN events' /\ events'[n + 1] # "restart"
  BY <1>1, <1>2
<1>4. InStep'
  BY <1>3 DEF InStep
<1>6. ASSUME m \in {"0", "2"}, ~Due' PROVE m = mode /\ ~Due
  <2>1. prevBridge = m /\ \A i \in DOMAIN events' : events'[i] \in {m, "restart"}
    BY <1>3, <1>6 DEF Due
  <2>2. \A i \in DOMAIN events : events[i] \in {m, "restart"}
    BY <1>1, <2>1
  <2>3. m = mode
    <3>1. CASE \A i \in DOMAIN events : events[i] = "restart"
      BY <1>6, <2>1, <3>1 DEF InStep
    <3>2. CASE \E i \in DOMAIN events : events[i] # "restart"
      <4>1. PICK i \in DOMAIN events : events[i] = mode
        BY <3>2 DEF Latest
      <4> QED
        BY <2>2, <4>1, ModesAssumption DEF TypeOK
    <3> QED
      BY <3>1, <3>2
  <2> QED
    BY <2>1, <2>2, <2>3 DEF Due
<1> QED
  BY <1>4, <1>6

LEMMA ModeKeepsLatest ==
  ASSUME TypeOK, NEW m \in Modes, events' = Append(events, m), mode' = m
  PROVE  Latest'
<1> DEFINE n == Len(events)
<1>1. n \in Nat /\ DOMAIN events' = 1 .. (n + 1) /\ events'[n + 1] = m
  BY Appended DEF TypeOK, Notes
<1> HIDE DEF n
<1>2. n + 1 \in DOMAIN events' /\ events'[n + 1] = mode' /\ \A j \in DOMAIN events' : j > n + 1 => events'[j] = "restart"
  BY <1>1
<1> QED
  BY <1>2 DEF Latest

LEMMA RestartAppended ==
  ASSUME TypeOK, Latest, events' = Append(events, "restart"), UNCHANGED <<mode, prevBridge>>
  PROVE  /\ InStep' = InStep /\ Latest' /\ Due' = Due
<1> DEFINE n == Len(events)
<1>1. /\ DOMAIN events = 1 .. n /\ DOMAIN events' = 1 .. (n + 1) /\ n \in Nat
      /\ events'[n + 1] = "restart"
      /\ \A i \in 1 .. n : events'[i] = events[i]
  BY Appended DEF TypeOK, Notes
<1> HIDE DEF n
<1>2. Latest'
  <2> SUFFICES ASSUME NEW k \in DOMAIN events', events'[k] # "restart"
               PROVE  \E i \in DOMAIN events' : events'[i] = mode' /\ \A j \in DOMAIN events' : j > i => events'[j] = "restart"
    BY DEF Latest
  <2>1. k \in DOMAIN events /\ events[k] # "restart"
    BY <1>1
  <2>2. PICK i \in DOMAIN events : events[i] = mode /\ \A j \in DOMAIN events : j > i => events[j] = "restart"
    BY <2>1 DEF Latest
  <2>3. i \in DOMAIN events' /\ events'[i] = mode' /\ \A j \in DOMAIN events' : j > i => events'[j] = "restart"
    BY <1>1, <2>2
  <2> QED
    BY <2>3
<1>3. (\E i \in DOMAIN events' : events'[i] # "restart") <=> \E i \in DOMAIN events : events[i] # "restart"
  BY <1>1
<1>4. (\A i \in DOMAIN events' : events'[i] \in {mode, "restart"}) <=> \A i \in DOMAIN events : events[i] \in {mode, "restart"}
  BY <1>1
<1> QED
  BY <1>2, <1>3, <1>4 DEF InStep, Due

(* Once a notification is taken, the last mode is that of the device still. *)
LEMMA LatestTaken ==
  ASSUME TypeOK, Latest, events # <<>>, events' = Tail(events), UNCHANGED mode
  PROVE  /\ Latest'
         /\ Head(events) # "restart" /\ (\A i \in DOMAIN events' : events'[i] = "restart") => Head(events) = mode
<1> DEFINE n == Len(events)
<1>1. /\ DOMAIN events = 1 .. n /\ DOMAIN events' = 1 .. (n - 1)
      /\ n \in Nat \ {0} /\ Head(events) = events[1]
      /\ \A i \in 1 .. (n - 1) : events'[i] = events[i + 1]
  BY Taken DEF TypeOK, Notes
<1> HIDE DEF n
<1>2. Latest'
  <2> SUFFICES ASSUME NEW k \in DOMAIN events', events'[k] # "restart"
               PROVE  \E i \in DOMAIN events' : events'[i] = mode' /\ \A j \in DOMAIN events' : j > i => events'[j] = "restart"
    BY DEF Latest
  <2>1. k + 1 \in DOMAIN events /\ events[k + 1] # "restart" /\ k + 1 > 1
    BY <1>1
  <2>2. PICK i \in DOMAIN events : events[i] = mode /\ \A j \in DOMAIN events : j > i => events[j] = "restart"
    BY <2>1 DEF Latest
  <2>3. i # 1
    BY <2>1, <2>2
  <2>4. i - 1 \in DOMAIN events' /\ events'[i - 1] = mode
    BY <1>1, <2>2, <2>3
  <2>5. ASSUME NEW j \in DOMAIN events', j > i - 1 PROVE events'[j] = "restart"
    <3>1. j + 1 \in DOMAIN events /\ j + 1 > i /\ events'[j] = events[j + 1]
      BY <1>1, <2>2, <2>5
    <3> QED
      BY <2>2, <3>1
  <2> QED
    BY <2>4, <2>5
<1>3. ASSUME events[1] # "restart", \A i \in DOMAIN events' : events'[i] = "restart" PROVE events[1] = mode
  <2>1. 1 \in DOMAIN events
    BY <1>1
  <2>2. PICK i \in DOMAIN events : events[i] = mode
    BY <1>3, <2>1 DEF Latest
  <2>3. mode # "restart"
    BY ModesAssumption DEF TypeOK
  <2>4. i # 1 => events'[i - 1] = events[i] /\ i - 1 \in DOMAIN events'
    BY <1>1
  <2> QED
    BY <1>3, <2>2, <2>3, <2>4
<1> QED
  BY <1>1, <1>2, <1>3

(* A mode is handled: what is no longer due is the mode of the device, and  *)
(* the thread did not take it for the one it had seen.                      *)
LEMMA ModeTaken ==
  ASSUME TypeOK, Latest, events # <<>>, events' = Tail(events), UNCHANGED mode,
         Head(events) # "restart", prevBridge' = Head(events)
  PROVE  /\ InStep'
         /\ ~Due' => Head(events) = mode /\ (Due => prevBridge # mode)
<1> DEFINE n == Len(events)
           e == Head(events)
<1>1. /\ DOMAIN events = 1 .. n /\ DOMAIN events' = 1 .. (n - 1)
      /\ n \in Nat \ {0} /\ e = events[1]
      /\ \A i \in 1 .. (n - 1) : events'[i] = events[i + 1]
  BY Taken DEF TypeOK, Notes
<1>2. e # "restart" /\ ((\A i \in DOMAIN events' : events'[i] = "restart") => e = mode)
  BY LatestTaken
<1>3. prevBridge' = e
  OBVIOUS
<1> HIDE DEF n, e
<1>4. InStep'
  BY <1>2, <1>3 DEF InStep
<1>5. ASSUME ~Due' PROVE e = mode /\ (Due => prevBridge # mode)
  <2>1. e = mode /\ \A i \in DOMAIN events' : events'[i] \in {mode, "restart"}
    BY <1>2, <1>3, <1>5 DEF Due
  <2>2. ASSUME NEW i \in DOMAIN events PROVE events[i] \in {mode, "restart"}
    <3>1. CASE i = 1
      BY <1>1, <2>1, <3>1
    <3>2. CASE i # 1
      <4>1. i - 1 \in DOMAIN events' /\ events'[i - 1] = events[i]
        BY <1>1, <3>2
      <4> QED
        BY <2>1, <4>1
    <3> QED
      BY <3>1, <3>2
  <2>3. \E i \in DOMAIN events : events[i] # "restart"
    BY <1>1, <1>2
  <2> QED
    BY <2>1, <2>2, <2>3 DEF Due
<1> QED
  BY <1>4, <1>5 DEF e

LEMMA RestartTaken ==
  ASSUME TypeOK, events # <<>>, events' = Tail(events), UNCHANGED <<mode, prevBridge>>, Head(events) = "restart"
  PROVE  InStep' = InStep /\ Due' = Due
<1> DEFINE n == Len(events)
<1>1. /\ DOMAIN events = 1 .. n /\ DOMAIN events' = 1 .. (n - 1)
      /\ n \in Nat \ {0} /\ events[1] = "restart"
      /\ \A i \in 1 .. (n - 1) : events'[i] = events[i + 1]
  BY Taken DEF TypeOK, Notes
<1> HIDE DEF n
<1>2. \A i \in DOMAIN events : events[i] = "restart" \/ (i - 1 \in DOMAIN events' /\ events'[i - 1] = events[i])
  BY <1>1
<1>3. \A i \in DOMAIN events' : i + 1 \in DOMAIN events /\ events'[i] = events[i + 1]
  BY <1>1
<1>4. (\E i \in DOMAIN events' : events'[i] # "restart") <=> \E i \in DOMAIN events : events[i] # "restart"
  BY <1>2, <1>3
<1>5. (\A i \in DOMAIN events' : events'[i] \in {mode, "restart"}) <=> \A i \in DOMAIN events : events[i] \in {mode, "restart"}
  BY <1>2, <1>3
<1> QED
  BY <1>4, <1>5 DEF InStep, Due

LEMMA HandlerOrderly ==
  ASSUME IInv, Ground, Orderly, advsec_handle_sysevent_notification
  PROVE  Orderly'
<1>1. SUFFICES ASSUME ~trouble' PROVE Orderly'
  BY DEF Orderly
<1> DEFINE e == Head(events)
<1>2. /\ events # <<>> /\ events' = Tail(events)
      /\ UNCHANGED <<fp, cfg, persist, mode, listening, files, up, on>>
  BY DEF advsec_handle_sysevent_notification, service, agent
<1>3. TypeOK /\ Latest /\ ScriptType /\ trouble \in BOOLEAN /\ "none" \in Args
  BY DEF IInv, Ground, TypeOK, ScriptType, Args
<1>4. e \in Notes
  BY <1>2, <1>3, Taken DEF TypeOK, Notes
<1>5. CASE NothingToDo(e)
  <2>1. UNCHANGED <<scripts, trouble>> /\ (e # "restart" => prevBridge' = e)
    BY <1>5 DEF advsec_handle_sysevent_notification
  <2>2. e # "restart"
    BY <1>3, <1>5, ModesAssumption DEF NothingToDo, ScriptFor, TypeOK
  <2>3. InStep' /\ (~Due' => e = mode /\ (Due => prevBridge # mode))
    BY <1>2, <1>3, <2>1, <2>2, ModeTaken
  <2>4. mode' \in {"0", "2"} /\ ~Due' => mode' = mode /\ ~Due
    BY <1>2, <1>5, <2>3 DEF NothingToDo, ScriptFor
  <2> QED
    BY <1>1, <1>2, <2>1, <2>3, <2>4, ModeOrderly
<1>6. CASE ~NothingToDo(e)
  <2>1. PICK op \in {"enable", "disable", "restart"} : op = ScriptFor(e)
    BY <1>6 DEF NothingToDo, ScriptFor
  <2>2. v_secure_system(op, "none") /\ op \in Ops
    BY <1>6, <2>1 DEF advsec_handle_sysevent_notification, Ops
  <2>3. Spawned(op, "none") /\ Running = {} /\ InStep /\ (op = "disable" \/ Stage(NoScript))
    BY <1>1, <1>3, <2>2, StartedAlone
  <2>4. scripts' # scripts
    <3>1. PICK p \in Pids : Free(p) /\ scripts' = [scripts EXCEPT ![p] = Script(op, "none")]
      BY <2>3 DEF Spawned
    <3>2. Script(op, "none") # NoScript
      BY <2>2 DEF Script, NoScript
    <3> QED
      BY <1>3, <3>1, <3>2 DEF Free, ScriptType
  <2>5. prevBridge' = IF e # "restart" THEN e ELSE prevBridge
    BY <2>4 DEF advsec_handle_sysevent_notification
  <2>6. CASE e = "restart"
    <3>1. InStep' = InStep /\ Due' = Due /\ op = "restart"
      BY <1>2, <1>3, <2>1, <2>5, <2>6, RestartTaken DEF ScriptFor
    <3>2. Stage(Script("restart", "none"))'
      BY <1>2, <2>3, <3>1, RecordFields
      DEF Stage, Placed, Places, Locked, Informed, Clean, Bridged, Down, Routed, Serving
    <3> QED
      BY <1>3, <2>2, <2>3, <3>1, <3>2, SoleStart
  <2>7. CASE e # "restart"
    <3>1. InStep' /\ (~Due' => e = mode /\ (Due => prevBridge # mode))
      BY <1>2, <1>3, <2>5, <2>7, ModeTaken
    <3>2. CASE e = "0"
      <4>1. op = "enable"
        BY <2>1, <3>2 DEF ScriptFor
      <4>2. mode = "2" => Due'
        BY <3>1, <3>2
      <4>3. Stage(Script("enable", "none"))'
        BY <1>2, <2>3, <4>1, <4>2, RecordFields
        DEF Stage, Placed, Places, Locked, Informed, Clean, Bridged, Routed, Enabling
      <4> QED
        BY <1>3, <2>2, <2>3, <3>1, <4>1, <4>3, SoleStart
    <3>3. CASE e # "0"
      <4>1. op = "disable" /\ e = "2"
        BY <2>1, <2>7, <3>3 DEF ScriptFor
      <4>2. mode = "0" => Due'
        BY <3>1, <4>1
      <4>3. Stage(Script("disable", "none"))'
        BY <1>2, <4>1, <4>2, RecordFields DEF Stage, Placed, Places, Informed, Clean, Bridged, Down, Routed
      <4> QED
        BY <1>3, <2>2, <2>3, <3>1, <4>1, <4>3, SoleStart
    <3> QED
      BY <3>2, <3>3
  <2> QED
    BY <2>6, <2>7
<1> QED
  BY <1>5, <1>6

LEMMA EventsOrderly ==
  ASSUME IInv, Ground, Orderly,
         (\E m \in Modes : BridgeModeEvent(m)) \/ RestartEvent \/ advsec_sysevent_init \/ Recover
  PROVE  Orderly'
<1>1. SUFFICES ASSUME ~trouble' PROVE Orderly'
  BY DEF Orderly
<1>2. TypeOK /\ Latest /\ ScriptType /\ trouble \in BOOLEAN /\ "none" \in Args /\ "recovery" \in Ops
  BY DEF IInv, Ground, TypeOK, ScriptType, Args, Ops
<1>3. CASE \E m \in Modes : BridgeModeEvent(m)
  <2>1. PICK m \in Modes : BridgeModeEvent(m)
    BY <1>3
  <2>2. /\ mode' = m /\ ~trouble /\ (listening \/ m = mode) /\ UNCHANGED <<fp, cfg, persist, scripts, files, up, on, prevBridge>>
        /\ events' = IF listening THEN Append(events, m) ELSE events
    BY <1>1, <2>1 DEF BridgeModeEvent, service, agent
  <2>3. InStep
    BY <2>2 DEF Orderly
  <2>4. CASE listening
    <3>1. InStep' /\ (m \in {"0", "2"} /\ ~Due' => m = mode /\ ~Due)
      BY <1>2, <2>2, <2>3, <2>4, ModeAppended
    <3> QED
      BY <2>2, <3>1, ModeOrderly
  <2>5. CASE ~listening
    <3>1. InStep' = InStep /\ Due' = Due /\ mode' = mode
      BY <2>2, <2>5 DEF InStep, Due
    <3> QED
      BY <2>2, <2>3, <3>1, ModeOrderly
  <2> QED
    BY <2>4, <2>5
<1>4. CASE RestartEvent
  <2>1. /\ ~trouble /\ events' = Append(events, "restart")
        /\ UNCHANGED <<fp, cfg, persist, scripts, files, up, on, mode, prevBridge>>
    BY <1>1, <1>4 DEF RestartEvent, service, agent
  <2>2. InStep' /\ Due' = Due
    BY <1>2, <2>1, RestartAppended DEF Orderly
  <2> QED
    BY <2>1, <2>2, ModeOrderly
<1>5. CASE advsec_sysevent_init
  <2>1. ~trouble /\ UNCHANGED <<fp, cfg, persist, scripts, files, up, on, mode, prevBridge, events>>
    BY <1>1, <1>5 DEF advsec_sysevent_init, service, agent, history
  <2>2. InStep' /\ Due' = Due
    BY <2>1 DEF InStep, Due, Orderly
  <2> QED
    BY <2>1, <2>2, ModeOrderly
<1>6. CASE Recover
  <2>1. Spawned("recovery", "none") /\ Running = {} /\ ~trouble
    BY <1>1, <1>2, <1>6 DEF Recover, Launched
  <2>2. UNCHANGED <<fp, cfg, persist, files, up, on, mode, prevBridge, events>>
    BY <1>6 DEF Recover, service, device, agent
  <2>3. InStep' /\ Due' = Due /\ Stage(NoScript)
    BY <2>1, <2>2 DEF InStep, Due, Orderly
  <2>4. Stage(Script("recovery", "none"))'
    BY <2>2, <2>3, RecordFields
    DEF Stage, Placed, Places, Locked, Informed, Clean, Bridged, Down, Routed, Serving
  <2> QED
    BY <1>2, <2>1, <2>3, <2>4, SoleStart
<1> QED
  BY <1>3, <1>4, <1>5, <1>6

(* After a boot the agent is down and -enable is on its way, if it is to be *)
(* started.                                                                 *)
LEMMA FirstScript ==
  ASSUME NEW c \in Configs, scripts = Boot(c).scripts
  PROVE  /\ c.fp => Running = {1} /\ 1 \in Pids /\ scripts[1] = Script("enable", "none")
         /\ ~c.fp => Running = {}
<1>1. /\ 1 \in Pids /\ Pids \subseteq Nat /\ \A q \in Pids : 1 <= q
  BY PidsAssumption
<1>2. scripts = [p \in Pids |-> IF c.fp /\ \A q \in Pids : p <= q THEN Script("enable", "none") ELSE NoScript]
  BY DEF Boot
<1>3. \A p \in Pids : (\A q \in Pids : p <= q) <=> p = 1
  BY <1>1
<1>4. Script("enable", "none") # NoScript
  BY DEF Script, NoScript
<1>5. ASSUME c.fp PROVE Running = {1} /\ scripts[1] = Script("enable", "none")
  <2>1. \A p \in Pids : scripts[p] = IF p = 1 THEN Script("enable", "none") ELSE NoScript
    BY <1>2, <1>3, <1>5
  <2>2. scripts[1] = Script("enable", "none") /\ \A p \in Pids : scripts[p] # NoScript <=> p = 1
    BY <1>1, <1>4, <2>1
  <2> QED
    BY <1>1, <2>2 DEF Running
<1>6. ASSUME ~c.fp PROVE Running = {}
  BY <1>2, <1>6 DEF Running
<1> QED
  BY <1>1, <1>5, <1>6

LEMMA BootOrderly ==
  ASSUME cfg \in Configs, scripts = Boot(cfg).scripts, fp = cfg.fp, persist = NoWrite, prevBridge = "", events = <<>>,
         files = {}, ~up, on = {}
  PROVE  Orderly
<1>1. InStep /\ NoWrite # "on"
  BY DEF InStep, NoWrite
<1>2. CASE cfg.fp
  <2>1. Running = {1} /\ scripts[1] = Script("enable", "none")
    BY <1>2, FirstScript
  <2>2. scripts[1].op = "enable" /\ scripts[1].pc = "new"
    <3>1. Script("enable", "none").op = "enable" /\ Script("enable", "none").pc = "new"
      BY RecordFields
    <3> QED
      BY <2>1, <3>1, Zenon
  <2>3. Placed(scripts[1]) /\ Informed(scripts[1]) /\ Clean(scripts[1])
    BY <2>2 DEF Placed, Places, Informed, Clean
  <2>4. Bridged(scripts[1]) /\ Routed(scripts[1])
    BY <2>2 DEF Bridged, Down, Routed, Enabling
  <2> QED
    BY <1>1, <2>1, <2>3, <2>4 DEF Orderly, Stage
<1>3. CASE ~cfg.fp
  <2>1. Running = {}
    BY <1>3, FirstScript
  <2>2. Stage(NoScript)
    BY <1>3, RecordFields DEF Stage, Placed, Places, Informed, Clean, Bridged, Down, Routed
  <2> QED
    BY <1>1, <2>1, <2>2 DEF Orderly
<1> QED
  BY <1>2, <1>3

LEMMA EnvironmentOrderly ==
  ASSUME IInv, Ground, Orderly, AgentCrashes \/ Restart \/ Reboot \/ \E p \in Pids : ScriptKilled(p)
  PROVE  Orderly'
<1>1. CASE AgentCrashes \/ \E p \in Pids : ScriptKilled(p)
  BY <1>1 DEF AgentCrashes, ScriptKilled, Fault, Orderly
<1>2. CASE Restart
  <2>1. SUFFICES ASSUME ~trouble' PROVE Orderly'
    BY DEF Orderly
  <2>2. /\ ~trouble /\ Running = {} /\ events = <<>> /\ persist = NoWrite
        /\ fp' = cfg.fp /\ persist' = NoWrite /\ events' = <<>> /\ prevBridge' = ""
        /\ UNCHANGED <<cfg, mode, files, up, on>>
        /\ (cfg.fp /\ Spawned("enable", "none")) \/ (~cfg.fp /\ UNCHANGED scripts)
    BY <1>2, <2>1 DEF Restart, Reloaded, agent
  <2>0. DOMAIN <<>> = {}
    OBVIOUS
  <2>3. InStep' /\ Stage(NoScript) /\ ~Due /\ ~Due'
    BY <2>0, <2>2 DEF InStep, Due, Orderly
  <2>4. ScriptType /\ "enable" \in Ops /\ "none" \in Args
    BY DEF IInv, TypeOK, ScriptType, Ops, Args
  <2>5. CASE cfg.fp
    <3> DEFINE h == Script("enable", "none")
    <3>0. h.op = "enable" /\ h.pc = "new" /\ NoScript.op = "none" /\ NoScript.pc = "none"
      BY RecordFields
    <3> HIDE DEF h
    <3>1. Placed(h)' /\ Informed(h)' /\ Clean(h)'
      BY <2>2, <2>3, <3>0 DEF Stage, Placed, Places, Locked, Informed, Clean
    <3>2. Bridged(h)' /\ Routed(h)'
      BY <2>2, <2>3, <3>0 DEF Stage, Bridged, Down, Routed, Enabling
    <3>3. Stage(Script("enable", "none"))'
      BY <3>1, <3>2 DEF Stage, h
    <3> QED
      BY <2>2, <2>3, <2>4, <2>5, <3>3, SoleStart
  <2>6. CASE ~cfg.fp
    <3>1. Placed(NoScript)' /\ Informed(NoScript)' /\ Clean(NoScript)'
      BY <2>2, <2>3, RecordFields DEF Stage, Placed, Places, Locked, Informed, Clean
    <3>2. Bridged(NoScript)' /\ Routed(NoScript)'
      BY <2>2, <2>3, <2>6, RecordFields DEF Stage, Bridged, Down, Routed
    <3>3. Running' = {}
      BY <2>2, <2>6 DEF Running
    <3> QED
      BY <2>3, <3>1, <3>2, <3>3 DEF Orderly, Stage
  <2> QED
    BY <2>5, <2>6
<1>3. CASE Reboot
  <2>1. /\ (cfg \in Configs)' /\ (scripts = Boot(cfg).scripts)' /\ (fp = cfg.fp)' /\ (persist = NoWrite)' /\ (prevBridge = "")'
        /\ (events = <<>>)' /\ (files = {})' /\ (~up)' /\ (on = {})'
    BY <1>3 DEF Reboot, Reloaded, Boot, IInv, TypeOK
  <2> QED
    BY <2>1, BootOrderly, PTL
<1> QED
  BY <1>1, <1>2, <1>3

-----------------------------------------------------------------------------
(* What holds whatever overlaps.                                            *)
LEMMA GroundStep ==
  ASSUME IInv, Ground, Next
  PROVE  Ground'
<1>0. TypeOK /\ Latest
  BY DEF IInv, Ground
<1>1. ASSUME NEW v \in BOOLEAN,
             \/ DeviceFingerPrint_SetParamBoolValue(v) \/ SafeBrowsing_SetParamBoolValue(v)
             \/ \E s \in Switches : RFC_SetParamBoolValue(s, v)
      PROVE  Ground'
  <2>1. UNCHANGED <<mode, listening, events, prevBridge, files, up, on>>
    BY <1>1 DEF DeviceFingerPrint_SetParamBoolValue, SafeBrowsing_SetParamBoolValue, RFC_SetParamBoolValue, device, agent
  <2>2. (persist' = "on" => fp') /\ (persist' = "off" => ~fp')
    BY <1>1 DEF DeviceFingerPrint_SetParamBoolValue, SafeBrowsing_SetParamBoolValue, RFC_SetParamBoolValue, Ground
  <2> QED
    BY <2>1, <2>2 DEF Ground, Latest
<1>2. CASE PersistSwitch
  BY <1>2 DEF PersistSwitch, device, agent, Ground, Latest, NoWrite
<1>3. ASSUME NEW m \in Modes, BridgeModeEvent(m) PROVE Ground'
  <2>1. UNCHANGED <<fp, persist, listening, prevBridge, up, on>> /\ mode' = m
    BY <1>3 DEF BridgeModeEvent, service, agent
  <2>2. CASE listening
    <3>1. events' = Append(events, m)
      BY <1>3, <2>2 DEF BridgeModeEvent
    <3>2. Latest'
      BY <1>0, <2>1, <3>1, ModeKeepsLatest
    <3> QED
      BY <2>1, <2>2, <3>2 DEF Ground
  <2>3. CASE ~listening
    <3>1. events' = events /\ events = <<>> /\ DOMAIN <<>> = {}
      BY <1>3, <2>3 DEF BridgeModeEvent, Ground
    <3>2. Latest'
      BY <3>1 DEF Latest
    <3> QED
      BY <2>1, <3>1, <3>2 DEF Ground
  <2> QED
    BY <2>2, <2>3
<1>4. CASE RestartEvent
  <2>1. listening /\ events' = Append(events, "restart") /\ UNCHANGED <<fp, persist, listening, mode, prevBridge, up, on>>
    BY <1>4 DEF RestartEvent, service, agent
  <2>2. Latest'
    BY <1>0, <2>1, RestartAppended
  <2> QED
    BY <2>1, <2>2 DEF Ground
<1>5. CASE advsec_sysevent_init
  BY <1>5 DEF advsec_sysevent_init, service, agent, Ground, Latest
<1>6. CASE advsec_handle_sysevent_notification
  <2>1. events # <<>> /\ events' = Tail(events) /\ UNCHANGED <<fp, persist, listening, mode, up, on>>
    BY <1>6 DEF advsec_handle_sysevent_notification, service, agent
  <2>2. Latest'
    BY <1>0, <2>1, LatestTaken
  <2> QED
    BY <2>1, <2>2 DEF Ground
<1>7. CASE Recover
  BY <1>7 DEF Recover, service, device, agent, Ground, Latest
<1>8. CASE AgentCrashes \/ \E p \in Pids : ScriptKilled(p)
  BY <1>8 DEF AgentCrashes, ScriptKilled, service, device, agent, Ground, Latest
<1>9. CASE Restart \/ Reboot
  <2>0. DOMAIN <<>> = {}
    OBVIOUS
  <2>1. events' = <<>> /\ persist' = NoWrite /\ ((UNCHANGED <<up, on>>) \/ on' = {})
    BY <1>9 DEF Restart, Reboot, Reloaded, agent
  <2>2. Latest'
    BY <2>0, <2>1 DEF Latest
  <2> QED
    BY <2>1, <2>2 DEF Ground, NoWrite
<1> QED
  BY <1>1, <1>2, <1>3, <1>4, <1>5, <1>6, <1>7, <1>8, <1>9, ScriptGround DEF Next

FullInv == IInv /\ Ground /\ Orderly

LEMMA FullInit == Init => FullInv
<1> SUFFICES ASSUME Init PROVE FullInv
  OBVIOUS
<1>1. cfg \in Configs
  BY StoresAssumption DEF Init
<1>2. Orderly
  <2>1. /\ scripts = Boot(cfg).scripts /\ fp = cfg.fp /\ persist = NoWrite /\ prevBridge = "" /\ events = <<>>
        /\ files = {} /\ ~up /\ on = {}
    BY DEF Init, Boot
  <2> QED
    BY <1>1, <2>1, BootOrderly
<1>3. DOMAIN <<>> = {}
  OBVIOUS
<1>4. Ground
  BY <1>3 DEF Init, Ground, Latest, NoWrite
<1> QED
  BY <1>2, <1>4, InitEstablishes DEF FullInv

LEMMA FullStep == FullInv /\ [Next]_vars => FullInv'
<1> SUFFICES ASSUME FullInv, [Next]_vars PROVE FullInv'
  OBVIOUS
<1>0. IInv /\ Ground /\ Orderly
  BY DEF FullInv
<1>1. IInv'
  BY <1>0, StepPreserves
<1>2. CASE UNCHANGED vars
  <2>1. Due' = Due /\ InStep' = InStep /\ Running' = Running /\ Ground'
    BY <1>0, <1>2 DEF vars, Due, InStep, Running, Ground, Latest
  <2>2. trouble \/ Orderly'
    BY <1>0, <1>2, <2>1, ModeOrderly DEF vars, Orderly
  <2> QED
    BY <1>1, <1>2, <2>1, <2>2 DEF FullInv, Orderly, vars
<1>3. CASE Next
  <2>1. Orderly'
    BY <1>0, <1>3, SwitchOrderly, SafeBrowsingOrderly, RfcOrderly, PersistOrderly, EventsOrderly, HandlerOrderly,
       EnvironmentOrderly, ScriptOrderly DEF Next
  <2> QED
    BY <1>0, <1>1, <1>3, <2>1, GroundStep DEF FullInv
<1> QED
  BY <1>2, <1>3

(* What runs is what is configured, for any number of scripts, switches,    *)
(* modes, requests and faults: once -enable, the restarts and the setters'  *)
(* scripts have ended in router mode, the agent runs with exactly the       *)
(* features that are switched on, unless scripts overlapped or something    *)
(* failed since a -disable or a reboot put things right.                    *)
THEOREM FeaturesAsConfigured == Spec => []FeaturesFollow
<1>1. FullInv => FeaturesFollow
  <2> SUFFICES ASSUME FullInv, Quiet, ~trouble, fp, cfg.fp, mode = "0"
               PROVE  up /\ "initialized" \in files /\ on = {"fp"} \cup Chosen("sb", cfg.sb)
    BY DEF FeaturesFollow
  <2>0. DOMAIN <<>> = {}
    OBVIOUS
  <2>1. Running = {} /\ events = <<>> /\ on \subseteq {"fp", "sb"}
    BY DEF Quiet, FullInv, IInv, TypeOK
  <2>2. ~Due /\ Stage(NoScript)
    BY <2>0, <2>1 DEF Due, FullInv, Orderly
  <2>3. Serving(NoScript) /\ Clean(NoScript)
    BY <2>2, RecordFields DEF Stage, Routed
  <2>4. up /\ "initialized" \in files /\ "fp" \in on /\ (cfg.sb <=> "sb" \in on)
    BY <2>3, RecordFields DEF Serving, Clean
  <2> QED
    BY <2>1, <2>4 DEF Chosen
<1> QED
  BY <1>1, FullInit, FullStep, PTL DEF Spec

(* The agent does not run in bridge mode, under the same proviso: whichever *)
(* modes come and go, the last -disable is handled or still to be handled,  *)
(* and no script passes its gate in between.                                *)
THEOREM DownInBridgeMode == Spec => []NotInBridgeMode
<1>1. FullInv => NotInBridgeMode
  <2> SUFFICES ASSUME FullInv, Quiet, ~trouble, mode = "2" PROVE ~up /\ on = {}
    BY DEF NotInBridgeMode
  <2>1. Running = {} /\ events = <<>> /\ DOMAIN <<>> = {}
    BY DEF Quiet
  <2>2. ~Due /\ Stage(NoScript)
    BY <2>1 DEF Due, FullInv, Orderly
  <2>3. Down(NoScript)
    BY <2>2 DEF Stage, Bridged
  <2> QED
    BY <2>3, RecordFields DEF Down, FullInv, Ground
<1> QED
  BY <1>1, FullInit, FullStep, PTL DEF Spec

(* The markers of the RFCs that -enable restores are those of the switches  *)
(* that are on, and no RFC that is off has one.                             *)
THEOREM MarkersAsConfigured == Spec => []RfcMarkersFollow
<1>1. FullInv => RfcMarkersFollow
  <2> SUFFICES ASSUME FullInv, Quiet, ~trouble, fp, mode = "0"
               PROVE  /\ files \cap Restored = {s \in Restored : cfg.rfc[s]}
                      /\ \A s \in files \cap Switches : cfg.rfc[s]
    BY DEF RfcMarkersFollow
  <2>1. Running = {} /\ events = <<>> /\ DOMAIN <<>> = {}
    BY DEF Quiet
  <2>2. ~Due /\ Stage(NoScript)
    BY <2>1 DEF Due, FullInv, Orderly
  <2>3. Serving(NoScript) /\ Clean(NoScript)
    BY <2>2, RecordFields DEF Stage, Routed
  <2>4. /\ \A s \in files \cap Switches : cfg.rfc[s]
        /\ \A s \in Restored : cfg.rfc[s] => s \in files
    BY <2>3, RecordFields DEF Serving, Clean
  <2> QED
    BY <2>4, MarkerNames
<1> QED
  BY <1>1, FullInit, FullStep, PTL DEF Spec
=============================================================================
