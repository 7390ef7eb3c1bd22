----------------------------- MODULE LoggerProofs -----------------------------
(***************************************************************************)
(* Proofs about Logger, for every hour, every range of periods and every    *)
(* width of ULONG: the count of the logging period is exact, the period in  *)
(* force is never missed, and the scripts run once an hour.                 *)
(***************************************************************************)
EXTENDS Logger, TLAPS

(* Where the thread is says how much time has passed since the scripts ran. *)
SinceByPlace ==
    /\ pc \in {"off", "start", "hour", "reloadHour"} => since = 0
    /\ pc \in {"rest", "reloadRest"} => since = MinTimeout
    /\ pc \in {"reload", "run"} => since >= MinTimeout /\ since < 2 * MinTimeout

(* A count of a real period never has less than an hour left when it is     *)
(* reduced by one, and what is left for the second wait is less than one.   *)
HourLeft ==
    /\ pc \in {"hour", "run"} /\ base # 0 => remaining >= MinTimeout
    /\ pc = "rest" => remaining < MinTimeout

IInv == TypeOK /\ CountIsExact /\ PeriodInForce /\ SinceByPlace /\ HourLeft

(* A thread that was created a moment ago satisfies the invariant.          *)
LEMMA InitEstablishes == Init => IInv
<1> SUFFICES ASSUME Init PROVE IInv
  OBVIOUS
<1>1. period = syscfg /\ period \in {0} \cup Periods
  BY ValuesAssumption DEF Init, Unset, CosaAdvSecGetLoggingPeriod
<1>2. TypeOK
  <2>1. setter \in {NoRequest} \cup [pc : {"persist", "publish"}, v : Periods]
    BY DEF Init
  <2>2. /\ {base, period} \subseteq {0} \cup Periods
        /\ syscfg \in {Unset} \cup Periods
        /\ logReady \in BOOLEAN
    BY <1>1 DEF Init, Unset
  <2>3. remaining \in 0 .. UlongRange - 1 /\ counted \in Nat /\ since \in Nat
    BY TimeoutAssumption DEF Init
  <2> QED
    BY <2>1, <2>2, <2>3 DEF Init, TypeOK, Places
<1>3. CountIsExact /\ PeriodInForce /\ SinceByPlace /\ HourLeft
  BY DEF Init, CountIsExact, PeriodInForce, SinceByPlace, HourLeft, Loading
<1> QED
  BY <1>2, <1>3 DEF IInv

(* ULONG subtraction stays within ULONG.                                    *)
LEMMA MinusInRange ==
  ASSUME NEW x \in 0 .. UlongRange - 1
  PROVE  Minus(x, MinTimeout) \in 0 .. UlongRange - 1
  BY TimeoutAssumption DEF Minus

(* Each step of the data model thread keeps the invariant: it changes what  *)
(* the thread reads only together with the flag.                            *)
LEMMA SetterPreserves ==
  ASSUME IInv,
         \/ \E v \in Values : DeviceFingerPrint_SetParamUlongValue(v)
         \/ PersistPeriod \/ CosaAdvSecSetLoggingPeriod
  PROVE  IInv'
<1> USE TimeoutAssumption DEF IInv, logger
<1>1. CASE \E v \in Values : DeviceFingerPrint_SetParamUlongValue(v)
  <2>1. PICK v \in Values : DeviceFingerPrint_SetParamUlongValue(v)
    BY <1>1
  <2>2. TypeOK'
    BY <2>1 DEF DeviceFingerPrint_SetParamUlongValue, TypeOK, NoRequest, Periods
  <2> QED
    BY <2>1, <2>2 DEF DeviceFingerPrint_SetParamUlongValue, CountIsExact, PeriodInForce,
                      SinceByPlace, HourLeft
<1>2. CASE PersistPeriod
  <2>1. TypeOK'
    BY <1>2 DEF PersistPeriod, TypeOK, NoRequest
  <2> QED
    BY <1>2, <2>1 DEF PersistPeriod, CountIsExact, PeriodInForce, SinceByPlace, HourLeft
<1>3. CASE CosaAdvSecSetLoggingPeriod
  <2>1. TypeOK'
    BY <1>3 DEF CosaAdvSecSetLoggingPeriod, TypeOK, NoRequest
  <2>2. PeriodInForce'
    BY <1>3 DEF CosaAdvSecSetLoggingPeriod, PeriodInForce
  <2> QED
    BY <1>3, <2>1, <2>2 DEF CosaAdvSecSetLoggingPeriod, CountIsExact, SinceByPlace, HourLeft
<1> QED
  BY <1>1, <1>2, <1>3

(* Each step of the logger thread keeps the invariant.                      *)
LEMMA ThreadPreserves ==
  ASSUME IInv, advsec_logger_th
  PROVE  IInv'
<1> USE TimeoutAssumption DEF IInv, Places, Loading, Periods
<1>1. CASE HourPasses
  <2>1. remaining' = Minus(remaining, MinTimeout)
    BY <1>1 DEF HourPasses, TimedOut
  <2>2. remaining' \in 0 .. UlongRange - 1
    BY <2>1, MinusInRange DEF TypeOK
  <2>3. TypeOK'
    BY <1>1, <2>2 DEF HourPasses, TimedOut, TypeOK
  <2>4. base # 0 => remaining' = remaining - MinTimeout
    BY <1>1, <2>1 DEF HourPasses, HourLeft, Minus, TypeOK
  <2>5. CountIsExact'
    BY <1>1, <2>4 DEF HourPasses, TimedOut, CountIsExact, TypeOK
  <2>6. PeriodInForce'
    BY <1>1 DEF HourPasses, TimedOut, PeriodInForce
  <2>7. SinceByPlace'
    BY <1>1 DEF HourPasses, TimedOut, SinceByPlace, TypeOK
  <2>8. HourLeft'
    BY <1>1, <2>2 DEF HourPasses, TimedOut, HourLeft, TypeOK
  <2> QED
    BY <2>3, <2>5, <2>6, <2>7, <2>8
<1>2. CASE RestPasses
  <2>1. TypeOK'
    BY <1>2 DEF RestPasses, TimedOut, TypeOK
  <2>2. SinceByPlace'
    BY <1>2 DEF RestPasses, TimedOut, SinceByPlace, HourLeft, TypeOK
  <2> QED
    BY <1>2, <2>1, <2>2 DEF RestPasses, TimedOut, CountIsExact, PeriodInForce, HourLeft
<1>3. CASE HourInterrupted \/ RestInterrupted
  BY <1>3 DEF HourInterrupted, RestInterrupted, Interrupted, TypeOK, CountIsExact,
              PeriodInForce, SinceByPlace, HourLeft
<1>4. CASE LoadAtStart \/ ReloadAfterHour \/ ReloadAfterRest \/ ReloadAtZero
  <2>1. /\ remaining' = period /\ base' = period /\ counted' = 0 /\ since' = since
        /\ period' = period /\ logReady' = logReady
        /\ syscfg' = syscfg /\ setter' = setter
        /\ \/ pc \in {"start", "reloadHour"} /\ pc' = "hour"
           \/ pc = "reloadRest" /\ pc' \in {"reload", "run"}
           \/ pc = "reload" /\ pc' = "run"
    BY <1>4 DEF LoadAtStart, ReloadAfterHour, ReloadAfterRest, ReloadAtZero, Load
  <2>2. TypeOK'
    BY <2>1 DEF TypeOK
  <2>3. CountIsExact' /\ PeriodInForce'
    BY <2>1 DEF CountIsExact, PeriodInForce, TypeOK
  <2>4. SinceByPlace'
    BY <2>1 DEF SinceByPlace
  <2>5. HourLeft'
    BY <2>1 DEF HourLeft, TypeOK
  <2> QED
    BY <2>2, <2>3, <2>4, <2>5
<1>5. CASE RunScripts
  BY <1>5 DEF RunScripts, TypeOK, CountIsExact, PeriodInForce, SinceByPlace, HourLeft
<1> QED
  BY <1>1, <1>2, <1>3, <1>4, <1>5 DEF advsec_logger_th

(* A restart starts over.                                                   *)
LEMMA RestartPreserves ==
  ASSUME IInv, Restart
  PROVE  IInv'
<1>1. period' = syscfg /\ period' \in {0} \cup Periods
  BY DEF IInv, TypeOK, Restart, Unset, CosaAdvSecGetLoggingPeriod
<1>2. TypeOK'
  <2>1. setter' \in {NoRequest} \cup [pc : {"persist", "publish"}, v : Periods]
    BY DEF Restart
  <2>2. /\ {base', period'} \subseteq {0} \cup Periods
        /\ syscfg' \in {Unset} \cup Periods
        /\ logReady' \in BOOLEAN
    BY <1>1 DEF Restart, IInv, TypeOK
  <2>3. remaining' \in 0 .. UlongRange - 1 /\ counted' \in Nat /\ since' \in Nat
    BY TimeoutAssumption DEF Restart
  <2> QED
    BY <2>1, <2>2, <2>3 DEF Restart, TypeOK, Places
<1>3. CountIsExact' /\ PeriodInForce' /\ SinceByPlace' /\ HourLeft'
  BY DEF Restart, CountIsExact, PeriodInForce, SinceByPlace, HourLeft, Loading
<1> QED
  BY <1>2, <1>3 DEF IInv

(* The invariant is inductive.                                              *)
LEMMA Inductive == Spec => []IInv
<1>1. IInv /\ [Next]_vars => IInv'
  <2> SUFFICES ASSUME IInv, [Next]_vars PROVE IInv'
    OBVIOUS
  <2>1. CASE UNCHANGED vars
    BY <2>1 DEF vars, IInv, TypeOK, CountIsExact, PeriodInForce, SinceByPlace, HourLeft
  <2>2. CASE Next
    BY <2>2, SetterPreserves, ThreadPreserves, RestartPreserves DEF Next
  <2> QED
    BY <2>1, <2>2
<1> QED
  BY InitEstablishes, <1>1, PTL DEF Spec

(* remaining_time stays within ULONG, and every period that is stored, set  *)
(* or counted is 0 or one the parameter accepts.                            *)
THEOREM TypesHold == Spec => []TypeOK
  BY Inductive, PTL DEF IInv

(* The subtraction of an hour from the unsigned remaining_time of           *)
(* advsec_logger_th never wraps round while a real period is counted, and   *)
(* no minute of the period is lost.                                         *)
THEOREM CountExact == Spec => []CountIsExact
  BY Inductive, PTL DEF IInv

(* No set of LoggingPeriod is missed by advsec_logger_th, wherever between  *)
(* the end of a wait and the reload it falls.                               *)
THEOREM PeriodNotMissed == Spec => []PeriodInForce
  BY Inductive, PTL DEF IInv

(* The logger thread starts the scripts after one hour and before two of    *)
(* uninterrupted waiting, whatever the period.                              *)
THEOREM ScriptsHourly == Spec => []ScriptsEveryHour
<1>1. IInv => ScriptsEveryHour
  BY DEF IInv, SinceByPlace, ScriptsEveryHour
<1> QED
  BY Inductive, <1>1, PTL
=============================================================================
