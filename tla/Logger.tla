-------------------------------- MODULE Logger --------------------------------
(***************************************************************************)
(* The logger thread (advsec_logger_th) and the LoggingPeriod parameter     *)
(* (cosa_adv_security_internal.c, ..._dml.c).  The thread waits an hour at  *)
(* a time on logCond, runs the status and the recovery script after every   *)
(* hour, and counts the logging period down in remaining_time.  A set of    *)
(* the parameter raises logReady under logMutex and interrupts the wait.    *)
(*                                                                          *)
(* Minutes pass only in waits that time out; how much of an interrupted     *)
(* wait had passed matters to nobody, since the count starts afresh.        *)
(***************************************************************************)
EXTENDS Integers

CONSTANTS
    MinTimeout,      \* ADVSEC_MIN_LOG_TIMEOUT, the hour
    MaxTimeout,      \* ADVSEC_MAX_LOG_TIMEOUT
    UlongRange,      \* 2^w for the width w of ULONG
    Values,          \* values clients ask for, out of range ones too
    Stored,          \* what syscfg may hold at boot; Unset when it holds nothing
    MaxSets,         \* set requests
    MaxRestarts      \* restarts of the process

Unset == 0
Periods == MinTimeout .. MaxTimeout

ASSUME TimeoutAssumption ==
    /\ {MinTimeout, MaxTimeout, UlongRange} \subseteq Nat
    /\ 0 < MinTimeout /\ MinTimeout <= MaxTimeout /\ MaxTimeout < UlongRange
ASSUME ValuesAssumption == Values \subseteq Nat /\ Stored \subseteq {Unset} \cup Periods

VARIABLES
    pc,              \* where the logger thread is
    remaining,       \* its remaining_time
    base,            \* the period remaining_time was last loaded from
    counted,         \* minutes counted since then
    since,           \* minutes waited since the scripts last ran
    period,          \* g_pAdvSecAgent->ulLoggingPeriod
    logReady,        \* the flag behind logCond
    syscfg,          \* the stored period
    setter,          \* the data model thread: where it is, and the value asked for
    spent            \* requests and restarts so far

logger == <<pc, remaining, base, counted, since>>
vars == <<pc, remaining, base, counted, since, period, logReady, syscfg, setter, spent>>

(* CosaAdvSecGetLoggingPeriod: the value is only kept when syscfg has one,  *)
(* and the agent's structure was zeroed when it was created.                *)
CosaAdvSecGetLoggingPeriod(stored) == IF stored # Unset THEN stored ELSE 0

NoRequest == [pc |-> "idle", v |-> 0]

(* advsec_start_logger_thread: only when fingerprinting is on at boot.      *)
Init ==
    /\ syscfg \in Stored
    /\ period = CosaAdvSecGetLoggingPeriod(syscfg)
    /\ pc \in {"off", "start"}
    /\ remaining = 0 /\ base = 0 /\ counted = 0 /\ since = 0
    /\ logReady = FALSE /\ setter = NoRequest
    /\ spent = [sets |-> 0, restarts |-> 0]

-----------------------------------------------------------------------------
(* Setting the parameter.                                                   *)

(* A variant that accepts every value.                                      *)
SetAnyValue(v) ==
    /\ setter.pc = "idle" /\ spent.sets < MaxSets
    /\ spent' = [spent EXCEPT !.sets = @ + 1]
    /\ setter' = IF v # period THEN [pc |-> "persist", v |-> v] ELSE NoRequest
    /\ UNCHANGED <<logger, period, logReady, syscfg>>

(* Values out of range are refused; the period in force needs nothing.      *)
DeviceFingerPrint_SetParamUlongValue(v) ==
    /\ setter.pc = "idle" /\ spent.sets < MaxSets
    /\ spent' = [spent EXCEPT !.sets = @ + 1]
    /\ setter' = IF v \in Periods /\ v # period THEN [pc |-> "persist", v |-> v] ELSE NoRequest
    /\ UNCHANGED <<logger, period, logReady, syscfg>>

(* CosaAdvSecSetLoggingPeriod: first syscfg, where the set may fail, or the *)
(* commit after a set that did not;                                         *)
PersistPeriod ==
    /\ setter.pc = "persist"
    /\ \/ syscfg' = setter.v /\ setter' = [setter EXCEPT !.pc = "publish"]
       \/ syscfg' \in {syscfg, setter.v} /\ setter' = NoRequest
    /\ UNCHANGED <<logger, period, logReady, spent>>

(* A variant that does not raise the flag.                                  *)
PublishSilently ==
    /\ setter.pc = "publish"
    /\ period' = setter.v /\ setter' = NoRequest
    /\ UNCHANGED <<logger, logReady, syscfg, spent>>

(* then, under logMutex, the period and the flag.                           *)
CosaAdvSecSetLoggingPeriod ==
    /\ setter.pc = "publish"
    /\ period' = setter.v /\ logReady' = TRUE /\ setter' = NoRequest
    /\ UNCHANGED <<logger, syscfg, spent>>

-----------------------------------------------------------------------------
(* The thread.                                                              *)

(* remaining_time = ulLoggingPeriod, under logMutex.                        *)
Load(next) ==
    /\ remaining' = period /\ base' = period /\ counted' = 0
    /\ pc' = next
    /\ UNCHANGED <<since, period, logReady, syscfg, setter, spent>>

LoadAtStart == pc = "start" /\ Load("hour")

(* A variant of the wait that does not lower the flag.                      *)
InterruptedAgain(next) ==
    /\ logReady
    /\ pc' = next
    /\ UNCHANGED <<remaining, base, counted, since, period, logReady, syscfg, setter, spent>>

(* WaitForLoggerTimeout: a flag raised before the wait, during it or at its *)
(* very end ends it as interrupted and is lowered.                          *)
Interrupted(next) ==
    /\ logReady /\ logReady' = FALSE
    /\ pc' = next
    /\ UNCHANGED <<remaining, base, counted, since, period, syscfg, setter, spent>>

TimedOut(minutes, left, next) ==
    /\ ~logReady
    /\ remaining' = left /\ counted' = counted + minutes /\ since' = since + minutes
    /\ pc' = next
    /\ UNCHANGED <<base, period, logReady, syscfg, setter, spent>>

(* ULONG subtraction.                                                       *)
Minus(x, y) == IF x >= y THEN x - y ELSE x + UlongRange - y

(* A variant that tests for the rest of an hour before it subtracts.        *)
HourPassesTestFirst ==
    /\ pc = "hour"
    /\ LET left == Minus(remaining, MinTimeout)
       IN  TimedOut(MinTimeout, left, IF remaining < MinTimeout THEN "rest" ELSE IF left = 0 THEN "reload" ELSE "run")

HourPasses ==
    /\ pc = "hour"
    /\ LET left == Minus(remaining, MinTimeout)
       IN  TimedOut(MinTimeout, left,
                    IF left = 0 THEN "reload" ELSE IF left < MinTimeout THEN "rest" ELSE "run")

HourInterrupted == pc = "hour" /\ Interrupted("reloadHour")

ReloadAfterHour == pc = "reloadHour" /\ Load("hour")

RestPasses == pc = "rest" /\ TimedOut(remaining, 0, "reload")
RestInterrupted == pc = "rest" /\ Interrupted("reloadRest")

(* A period of 0 is loaded a second time.                                   *)
ReloadAfterRest == pc = "reloadRest" /\ Load(IF period = 0 THEN "reload" ELSE "run")
ReloadAtZero == pc = "reload" /\ Load("run")

(* A variant that runs the scripts only once the period is over.            *)
RunPerPeriod ==
    /\ pc = "run"
    /\ pc' = "hour" /\ since' = IF counted = 0 THEN 0 ELSE since
    /\ UNCHANGED <<remaining, base, counted, period, logReady, syscfg, setter, spent>>

(* advsec_log_fp_status.sh and advsec_cpu_mem_recovery.sh are started.      *)
RunScripts ==
    /\ pc = "run"
    /\ pc' = "hour" /\ since' = 0
    /\ UNCHANGED <<remaining, base, counted, period, logReady, syscfg, setter, spent>>

(* The process starts again: memory comes from syscfg.                      *)
Restart ==
    /\ spent.restarts < MaxRestarts
    /\ spent' = [spent EXCEPT !.restarts = @ + 1]
    /\ period' = CosaAdvSecGetLoggingPeriod(syscfg)
    /\ pc' \in {"off", "start"}
    /\ remaining' = 0 /\ base' = 0 /\ counted' = 0 /\ since' = 0
    /\ logReady' = FALSE /\ setter' = NoRequest
    /\ UNCHANGED syscfg

advsec_logger_th ==
    \/ LoadAtStart \/ HourPasses \/ HourInterrupted \/ ReloadAfterHour
    \/ RestPasses \/ RestInterrupted \/ ReloadAfterRest \/ ReloadAtZero \/ RunScripts

Next ==
    \/ \E v \in Values : DeviceFingerPrint_SetParamUlongValue(v)
    \/ PersistPeriod \/ CosaAdvSecSetLoggingPeriod
    \/ advsec_logger_th
    \/ Restart

Spec == Init /\ [][Next]_vars

(* The waits time out, and nothing keeps the thread from running.           *)
FairSpec == Spec /\ WF_vars(advsec_logger_th)

-----------------------------------------------------------------------------
(* Properties.                                                              *)

Places == {"off", "start", "hour", "rest", "reloadHour", "reloadRest", "reload", "run"}

(* Type invariant: remaining_time stays within ULONG.                       *)
TypeOK ==
    /\ pc \in Places
    /\ remaining \in 0 .. UlongRange - 1
    /\ {base, period} \subseteq {0} \cup Periods
    /\ counted \in Nat /\ since \in Nat
    /\ logReady \in BOOLEAN
    /\ syscfg \in {Unset} \cup Periods
    /\ setter \in {NoRequest} \cup [pc : {"persist", "publish"}, v : Periods]

(* The places where remaining_time is about to be loaded again.             *)
Loading == {"start", "reloadHour", "reloadRest", "reload"}

(* The count never wraps round and never loses a minute: with a period in   *)
(* the documented range, what was counted and what remains make up the      *)
(* period, wherever sets and interruptions fall (remaining_time is unsigned *)
(* and reduced by an hour at a time).                                       *)
CountIsExact == pc \notin Loading \cup {"off"} /\ base # 0 => remaining + counted = base

(* A new period is never missed: while the thread counts, it counts the     *)
(* period in force, or the flag that will interrupt its wait is up (the set *)
(* and the reload are two critical sections, and a set may fall anywhere    *)
(* between the end of a wait and the reload).                               *)
PeriodInForce == pc \notin Loading \cup {"off"} => base = period \/ logReady

(* The scripts run every hour whatever the period is: an hour has passed    *)
(* and less than two, unless a set interrupted a wait in between.           *)
ScriptsEveryHour == pc = "run" => since >= MinTimeout /\ since < 2 * MinTimeout

(* Whatever interrupts the waits, the thread that was started runs the      *)
(* scripts again and again, unless the process is restarted without it.     *)
ScriptsKeepRunning == (pc # "off") ~> (pc \in {"run", "off"})
=============================================================================
