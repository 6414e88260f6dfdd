---------------------------- MODULE DeviceProofs ----------------------------
(***************************************************************************)
(* Proofs about the device for every value of its constants: thresholds,   *)
(* durations, command sets and bounds.  All of them rest on one inductive  *)
(* invariant, IndInv below.  The last part is about Assessment: how the    *)
(* samples of the device are judged, by its own gate and by the others.    *)
(***************************************************************************)
EXTENDS Device, Assessment, TLAPS

-----------------------------------------------------------------------------
(* What one simulation step of SensorModel may produce, whatever the       *)
(* sensors showed before.                                                  *)

(* A sample is well typed: the random walks stay in their ranges.          *)
LEMMA ReadingsType ==
  ASSUME TypeOK, NEW r \in Readings(Running)
  PROVE  r \in SensorValues
<1> USE DeviceAssumption
<1>1. sensors \in SensorValues
  BY DEF TypeOK
<1>2. CASE "force_power_failure" \in forced
  BY <1>1, <1>2 DEF Readings, SensorValues
<1>3. CASE "force_power_failure" \notin forced
  <2>1. SaltReadings \subseteq Nat
    BY <1>1 DEF SaltReadings, SensorValues
  <2>2. PressureReadings \subseteq PressureFloor..PressureMax
    BY <1>1 DEF PressureReadings, SensorValues
  <2>3. TdsReadings \subseteq TdsFloor..TdsMax
    BY <1>1 DEF TdsReadings, SensorValues
  <2>4. r \in [salt_level : SaltReadings, water_pressure : PressureReadings,
               tds : TdsReadings, power_status : {TRUE},
               water_flow : {IF Running THEN 0 ELSE 1}]
    BY <1>3 DEF Readings
  <2> QED
    BY <2>1, <2>2, <2>3, <2>4 DEF SensorValues
<1> QED
  BY <1>2, <1>3

(* Salt that is at or below the critical mark stays there in a sample.     *)
LEMMA ReadingsSalt ==
  ASSUME TypeOK, NEW r \in Readings(Running), sensors.salt_level <= SaltCritical
  PROVE  r.salt_level <= SaltCritical
<1> USE DeviceAssumption
<1>1. sensors \in SensorValues
  BY DEF TypeOK
<1>2. CASE "force_power_failure" \in forced
  BY <1>1, <1>2 DEF Readings, SensorValues
<1>3. CASE "force_power_failure" \notin forced
  <2>1. r.salt_level \in SaltReadings
    BY <1>3 DEF Readings
  <2> QED
    BY <1>1, <2>1 DEF SaltReadings, SensorValues
<1> QED
  BY <1>2, <1>3

(* With power and outside a cycle, water flows in every sample.            *)
LEMMA ReadingsFlow ==
  ASSUME NEW r \in Readings(Running), r.power_status, ~Running, TypeOK
  PROVE  r.water_flow = 1
<1>1. CASE "force_power_failure" \in forced
  BY <1>1 DEF Readings, TypeOK, SensorValues
<1>2. CASE "force_power_failure" \notin forced
  BY <1>2 DEF Readings
<1> QED
  BY <1>1, <1>2

-----------------------------------------------------------------------------
(* TYPE CORRECTNESS                                                        *)

(* A handler tells of known events only.                                   *)
LEMMA PublishType ==
  ASSUME NEW events, events \subseteq Events, Publish(events)
  PROVE  published' \subseteq Events \cup {"telemetry"}
BY DEF Publish, Events

(* Every branch of evaluate() keeps the types of what it may change.       *)
LEMMA EvaluateType ==
  ASSUME TypeOK, NEW r \in SensorValues, Evaluate(r)
  PROVE  /\ state' \in States
         /\ fault_reason' \in FaultReasons \cup {"none"}
         /\ force_regen_fail' \in BOOLEAN
         /\ last_regen_result' \in {"none", "completed", "failed"}
         /\ power_was_on' \in BOOLEAN
         /\ sensors' \in SensorValues
         /\ published' \subseteq Events \cup {"telemetry"}
<1> USE DeviceAssumption DEF TypeOK, States, FaultReasons
<1>1. CASE PowerFails(r)
  <2>1. published' \subseteq Events \cup {"telemetry"}
    BY <1>1, PublishType DEF PowerFails, Events
  <2> QED
    BY <1>1, <2>1 DEF PowerFails
<1>2. CASE PowerStaysOff(r)
  BY <1>2, PublishType DEF PowerStaysOff
<1>3. CASE PowerReturns(r)
  <2>1. published' \subseteq Events \cup {"telemetry"}
    BY <1>3, PublishType DEF PowerReturns, Events
  <2> QED
    BY <1>3, <2>1 DEF PowerReturns
<1>4. CASE Boot(r)
  <2>1. published' \subseteq Events \cup {"telemetry"}
    BY <1>4, PublishType DEF Boot, Events
  <2> QED
    BY <1>4, <2>1 DEF Boot
<1>5. CASE LowPressure(r)
  <2>1. published' \subseteq Events \cup {"telemetry"}
    BY <1>5, PublishType DEF LowPressure, Events
  <2> QED
    BY <1>5, <2>1 DEF LowPressure
<1>6. CASE RequireRegeneration(r)
  <2>1. published' \subseteq Events \cup {"telemetry"}
    BY <1>6, PublishType DEF RequireRegeneration, Events
  <2> QED
    BY <1>6, <2>1 DEF RequireRegeneration
<1>7. CASE ConditionsImprove(r)
  <2>1. published' \subseteq Events \cup {"telemetry"}
    BY <1>7, PublishType DEF ConditionsImprove, Events
  <2> QED
    BY <1>7, <2>1 DEF ConditionsImprove
<1>8. CASE RegenerationFails(r)
  <2>1. published' \subseteq Events \cup {"telemetry"}
    BY <1>8, PublishType DEF RegenerationFails, Events
  <2> QED
    BY <1>8, <2>1 DEF RegenerationFails
<1>9. CASE RegenerationTimesOut(r)
  <2>1. published' \subseteq Events \cup {"telemetry"}
    BY <1>9, PublishType DEF RegenerationTimesOut, Events
  <2> QED
    BY <1>9, <2>1 DEF RegenerationTimesOut
<1>10. CASE RegenerationCompletes(r)
  <2>1. published' \subseteq Events \cup {"telemetry"}
    BY <1>10, PublishType DEF RegenerationCompletes, Events
  <2>2. sensors' \in SensorValues
    <3> DEFINE refilled == [r EXCEPT !.salt_level = SaltFull]
    <3>1. refilled \in SensorValues
      BY DEF SensorValues
    <3>2. TdsFresh \in TdsFloor..TdsMax
      OBVIOUS
    <3>3. sensors' = [refilled EXCEPT !.tds = TdsFresh]
      BY <1>10 DEF RegenerationCompletes
    <3> HIDE DEF refilled
    <3> QED
      BY <3>1, <3>2, <3>3 DEF SensorValues
  <2> QED
    BY <1>10, <2>1, <2>2 DEF RegenerationCompletes
<1>11. CASE StateKept(r)
  BY <1>11, PublishType DEF StateKept
<1> QED
  BY <1>1, <1>2, <1>3, <1>4, <1>5, <1>6, <1>7, <1>8, <1>9, <1>10, <1>11 DEF Evaluate

(* An age that grows stays within its limit.                               *)
LEMMA OlderType ==
  ASSUME NEW limit \in Nat, NEW age \in 0..limit
  PROVE  Older(age, limit) \in 0..limit
BY DEF Older

(* A device that starts is well typed.                                     *)
LEMMA InitType == Init => TypeOK
<1> USE DeviceAssumption
<1> SUFFICES ASSUME Init PROVE TypeOK
  OBVIOUS
<1>1. sensors \in SensorValues
  BY DEF Init, PowerOnSensors, SensorValues
<1>2. /\ regen_age \in {NeverStarted} \cup 0..RegenTimeout
      /\ salt_warn_age \in 0..(SaltWarnGap + 1)
      /\ no_flow_age \in 0..(NoFlowGap + 1)
      /\ ota_threads \in 0..MaxOta
      /\ since_tick \in 0..MaxTickGap
  BY DEF Init
<1> QED
  BY <1>1, <1>2 DEF Init, TypeOK, States

(* Every step keeps the types.                                             *)
LEMMA NextType == TypeOK /\ [Next]_vars => TypeOK'
<1> USE DeviceAssumption
<1> SUFFICES ASSUME TypeOK, [Next]_vars PROVE TypeOK'
  OBVIOUS
<1>1. CASE Tick
  <2>1. PICK r \in Readings(Running) : Evaluate(r)
    BY <1>1 DEF Tick
  <2>2. r \in SensorValues
    BY ReadingsType
  <2>3. /\ salt_warn_age' \in 0..(SaltWarnGap + 1)
        /\ no_flow_age' \in 0..(NoFlowGap + 1)
    BY <1>1 DEF Tick, CheckPredictive, TypeOK
  <2>4. /\ regen_age' = regen_age /\ forced' = forced /\ ota_threads' = ota_threads
        /\ since_tick' = 0 /\ saved' = state'
    BY <1>1 DEF Tick
  <2>5. /\ state' \in States
        /\ fault_reason' \in FaultReasons \cup {"none"}
        /\ force_regen_fail' \in BOOLEAN
        /\ last_regen_result' \in {"none", "completed", "failed"}
        /\ power_was_on' \in BOOLEAN
        /\ sensors' \in SensorValues
        /\ published' \subseteq Events \cup {"telemetry"}
    BY <2>1, <2>2, EvaluateType
  <2> QED
    BY <2>3, <2>4, <2>5 DEF TypeOK
<1>2. CASE AcceptRegeneration
  BY <1>2 DEF AcceptRegeneration, TypeOK, warn_vars, States, Events
<1>3. CASE RejectRegeneration
  BY <1>3 DEF RejectRegeneration, TypeOK, fsm_vars, warn_vars, Events
<1>4. ASSUME NEW flag \in DebugFlags, ToggleFlag(flag) PROVE TypeOK'
  BY <1>4 DEF ToggleFlag, TypeOK, fsm_vars, warn_vars, Events
<1>5. CASE ToggleRegenFail
  BY <1>5 DEF ToggleRegenFail, TypeOK, warn_vars, Events
<1>6. CASE ResetDebug
  BY <1>6 DEF ResetDebug, TypeOK, warn_vars, Events
<1>7. CASE OtaUpdate
  BY <1>7 DEF OtaUpdate, TypeOK, fsm_vars, warn_vars, Events
<1>8. CASE UnknownCommand
  BY <1>8 DEF UnknownCommand, TypeOK, fsm_vars, warn_vars, Events
<1>9. CASE OtaComplete
  BY <1>9 DEF OtaComplete, TypeOK, warn_vars, States, Events
<1>10. CASE Restart
  <2>1. sensors' \in SensorValues
    BY <1>10 DEF Restart, PowerOnSensors, SensorValues
  <2>2. /\ regen_age' \in {NeverStarted} \cup 0..RegenTimeout
        /\ salt_warn_age' \in 0..(SaltWarnGap + 1)
        /\ no_flow_age' \in 0..(NoFlowGap + 1)
        /\ ota_threads' \in 0..MaxOta
        /\ since_tick' \in 0..MaxTickGap
    BY <1>10 DEF Restart
  <2>3. saved' \in States \cup {"no_file", "corrupt"}
    BY <1>10 DEF Restart, TypeOK
  <2> QED
    BY <1>10, <2>1, <2>2, <2>3 DEF Restart, TypeOK, States
<1>11. CASE TimePasses
  <2>1. /\ salt_warn_age' \in 0..(SaltWarnGap + 1)
        /\ no_flow_age' \in 0..(NoFlowGap + 1)
        /\ regen_age' \in {NeverStarted} \cup 0..RegenTimeout
    BY <1>11 DEF TimePasses, TypeOK, Older
  <2> QED
    BY <1>11, <2>1 DEF TimePasses, TypeOK
<1>12. CASE UNCHANGED vars
  BY <1>12 DEF vars, fsm_vars, warn_vars, TypeOK
<1> QED
  BY <1>1, <1>2, <1>3, <1>4, <1>5, <1>6, <1>7, <1>8, <1>9, <1>10, <1>11, <1>12 DEF Next

(* Every variable keeps its type, whatever commands arrive and however     *)
(* ticks, OTA threads and restarts interleave.                             *)
THEOREM TypeCorrect == Spec => []TypeOK
BY InitType, NextType, PTL DEF Spec

-----------------------------------------------------------------------------
(* THE INDUCTIVE INVARIANT                                                 *)
(*                                                                         *)
(* RunningIsPowered is not inductive alone: that a cycle stops when the    *)
(* power goes needs the edge detector to be armed (PowerEdgeInStep), and   *)
(* that the gate lets no cycle start in an outage needs power_status to be *)
(* what evaluate() last saw.  CycleFresh is what the watchdog rests on.    *)

Safe == PowerEdgeInStep /\ RunningIsPowered /\ FaultHasReason /\ CycleFresh

IndInv == TypeOK /\ Safe

(* A whole evaluate() keeps the invariant, whichever branch it takes.      *)
LEMMA EvaluateSafe ==
  ASSUME IndInv, NEW r \in SensorValues, Evaluate(r),
         regen_age' = regen_age, since_tick' = 0
  PROVE  Safe'
<1> USE DeviceAssumption
       DEF IndInv, Safe, PowerEdgeInStep, RunningIsPowered, FaultHasReason,
           CycleFresh, Running
<1>0. r.power_status \in BOOLEAN
  BY DEF SensorValues
<1>1. CASE PowerFails(r)
  BY <1>0, <1>1 DEF PowerFails
<1>2. CASE PowerStaysOff(r)
  BY <1>0, <1>2 DEF PowerStaysOff, TypeOK
<1>3. CASE PowerReturns(r)
  BY <1>3 DEF PowerReturns
<1>4. CASE Boot(r)
  BY <1>4 DEF Boot, Powered
<1>5. CASE LowPressure(r)
  BY <1>5 DEF LowPressure, Powered
<1>6. CASE RequireRegeneration(r)
  BY <1>6 DEF RequireRegeneration, Powered
<1>7. CASE ConditionsImprove(r)
  BY <1>7 DEF ConditionsImprove, Powered
<1>8. CASE RegenerationFails(r)
  BY <1>8 DEF RegenerationFails, Powered
<1>9. CASE RegenerationTimesOut(r)
  BY <1>9 DEF RegenerationTimesOut, Powered, TypeOK, NeverStarted
<1>10. CASE RegenerationCompletes(r)
  <2>1. sensors'.power_status
    BY <1>10 DEF RegenerationCompletes, Powered, SensorValues
  <2> QED
    BY <1>10, <2>1 DEF RegenerationCompletes, Powered
<1>11. CASE StateKept(r)
  <2>1. Running => regen_age < RegenDuration
    BY <1>11 DEF StateKept, NothingToDo, CycleDone, TypeOK, NeverStarted
  <2>2. sensors'.power_status = power_was_on
    BY <1>0, <1>11 DEF StateKept, Powered, TypeOK
  <2>3. UNCHANGED <<state, fault_reason, last_regen_result, power_was_on>>
    BY <1>11 DEF StateKept
  <2>4. sensors'.power_status /\ power_was_on
    BY <1>11 DEF StateKept, Powered
  <2>5. CycleFresh'
    BY <2>1, <2>3 DEF TypeOK, NeverStarted
  <2>6. RunningIsPowered'
    BY <2>3, <2>4
  <2> QED
    BY <2>2, <2>3, <2>4, <2>5, <2>6
<1> QED
  BY <1>1, <1>2, <1>3, <1>4, <1>5, <1>6, <1>7, <1>8, <1>9, <1>10, <1>11 DEF Evaluate

(* A device that starts is powered, idle and without a fault.              *)
LEMMA InitSafe == Init => Safe
BY DEF Init, PowerOnSensors, Safe, PowerEdgeInStep, RunningIsPowered,
       FaultHasReason, CycleFresh, Running

(* Every step keeps edge detector, cycle and fault in step.                *)
LEMMA NextSafe == IndInv /\ [Next]_vars => Safe'
<1> USE DeviceAssumption
<1> SUFFICES ASSUME IndInv, [Next]_vars PROVE Safe'
  OBVIOUS
<1>1. CASE Tick
  <2>1. PICK r \in Readings(Running) : Evaluate(r)
    BY <1>1 DEF Tick
  <2>2. r \in SensorValues
    BY ReadingsType DEF IndInv
  <2> QED
    BY <1>1, <2>1, <2>2, EvaluateSafe DEF Tick
<1> USE DEF IndInv, Safe, PowerEdgeInStep, RunningIsPowered, FaultHasReason,
            CycleFresh, Running
<1>2. CASE AcceptRegeneration
  BY <1>2 DEF AcceptRegeneration, CanStartRegeneration, TypeOK, NeverStarted
<1>3. CASE RejectRegeneration
  BY <1>3 DEF RejectRegeneration, fsm_vars
<1>4. ASSUME NEW flag \in DebugFlags, ToggleFlag(flag) PROVE Safe'
  BY <1>4 DEF ToggleFlag, fsm_vars
<1>5. CASE ToggleRegenFail
  BY <1>5 DEF ToggleRegenFail
<1>6. CASE ResetDebug
  BY <1>6 DEF ResetDebug
<1>7. CASE OtaUpdate
  BY <1>7 DEF OtaUpdate, fsm_vars
<1>8. CASE UnknownCommand
  BY <1>8 DEF UnknownCommand, fsm_vars
<1>9. CASE OtaComplete
  BY <1>9 DEF OtaComplete
<1>10. CASE Restart
  BY <1>10 DEF Restart, PowerOnSensors
<1>11. CASE TimePasses
  BY <1>11 DEF TimePasses, Older, TypeOK, NeverStarted
<1>12. CASE UNCHANGED vars
  BY <1>12 DEF vars, fsm_vars
<1> QED
  BY <1>1, <1>2, <1>3, <1>4, <1>5, <1>6, <1>7, <1>8, <1>9, <1>10, <1>11, <1>12 DEF Next

(* The invariant holds in every state of every run of the device.          *)
THEOREM Invariance == Spec => []IndInv
<1>1. Init => IndInv
  BY InitType, InitSafe DEF IndInv
<1>2. IndInv /\ [Next]_vars => IndInv'
  BY NextType, NextSafe DEF IndInv
<1> QED
  BY <1>1, <1>2, PTL DEF Spec

(* No edge of the power is missed, even when an OTA thread resets the      *)
(* state in an outage (the edge detector of StateMachine.evaluate).        *)
THEOREM PowerEdgeCorrect == Spec => []PowerEdgeInStep
BY Invariance, PTL DEF IndInv, Safe

(* A cycle never runs on a device that has sensed a power failure, and     *)
(* evaluate() never subtracts an unset start time.                         *)
THEOREM RunningCorrect == Spec => []RunningIsPowered
BY Invariance, PTL DEF IndInv, Safe

(* A device in FAULT always has a fault reason.                            *)
THEOREM FaultCorrect == Spec => []FaultHasReason
BY Invariance, PTL DEF IndInv, Safe

(* At the last tick a cycle that still runs was not yet due.               *)
THEOREM FreshCorrect == Spec => []CycleFresh
BY Invariance, PTL DEF IndInv, Safe

(* What the state says of a cycle or a fault is sound.                     *)
THEOREM StateCorrect == Spec => []StateSound
BY RunningCorrect, FaultCorrect, FreshCorrect, PTL DEF StateSound

-----------------------------------------------------------------------------
(* WHAT NO STEP EVER DOES                                                  *)

(* Outside a cycle, evaluate() starts none and leaves the sample alone.    *)
LEMMA EvaluateOutsideCycle ==
  ASSUME NEW r, Evaluate(r), ~Running
  PROVE  sensors' = r /\ ~Running'
<1> USE DEF Running
<1>1. CASE PowerFails(r) \/ PowerStaysOff(r) \/ PowerReturns(r)
  BY <1>1 DEF PowerFails, PowerStaysOff, PowerReturns
<1>2. CASE Boot(r) \/ LowPressure(r) \/ RequireRegeneration(r) \/ ConditionsImprove(r)
  BY <1>2 DEF Boot, LowPressure, RequireRegeneration, ConditionsImprove
<1>3. CASE RegenerationFails(r) \/ RegenerationTimesOut(r) \/ RegenerationCompletes(r)
  BY <1>3 DEF RegenerationFails, RegenerationTimesOut, RegenerationCompletes
<1>4. CASE StateKept(r)
  BY <1>4 DEF StateKept
<1> QED
  BY <1>1, <1>2, <1>3, <1>4 DEF Evaluate

(* The low-salt lock-out: outside a cycle, salt at or below the critical   *)
(* mark stays there and no cycle starts until the process restarts.  The   *)
(* gate refuses salt that only a cycle would refill.                       *)
THEOREM LockoutCorrect == Spec => LowSaltLockout
<1>1. ASSUME IndInv, [Next]_vars
      PROVE  [OutOfSalt => OutOfSalt' \/ Restart]_vars
  <2> USE DEF OutOfSalt, Running
  <2> SUFFICES ASSUME OutOfSalt, Next, ~Restart PROVE OutOfSalt'
    BY <1>1
  <2>1. CASE Tick
    <3>1. PICK r \in Readings(Running) : Evaluate(r)
      BY <2>1 DEF Tick
    <3>2. sensors' = r /\ ~Running'
      BY <3>1, EvaluateOutsideCycle
    <3>3. r.salt_level <= SaltCritical
      BY <1>1, ReadingsSalt DEF IndInv
    <3> QED
      BY <3>2, <3>3
  <2>2. CASE AcceptRegeneration
    BY <1>1, <2>2, DeviceAssumption
       DEF AcceptRegeneration, CanStartRegeneration, IndInv, TypeOK, SensorValues
  <2>3. CASE RejectRegeneration
    BY <2>3 DEF RejectRegeneration, fsm_vars
  <2>4. ASSUME NEW flag \in DebugFlags, ToggleFlag(flag) PROVE OutOfSalt'
    BY <2>4 DEF ToggleFlag, fsm_vars
  <2>5. CASE ToggleRegenFail \/ ResetDebug \/ OtaComplete \/ TimePasses
    BY <2>5 DEF ToggleRegenFail, ResetDebug, OtaComplete, TimePasses
  <2>6. CASE OtaUpdate \/ UnknownCommand
    BY <2>6 DEF OtaUpdate, UnknownCommand, fsm_vars
  <2> QED
    BY <2>1, <2>2, <2>3, <2>4, <2>5, <2>6 DEF Next
<1> QED
  BY <1>1, Invariance, PTL DEF Spec, LowSaltLockout

(* The watchdog fires only after the telemetry loop itself was late by     *)
(* more than the slack between RegenDuration and RegenTimeout.             *)
THEOREM WatchdogCorrect == Spec => WatchdogNeedsStall
<1> DEFINE Fires == fault_reason' = "regen_timeout" /\ fault_reason # "regen_timeout"
           Stalled == since_tick > RegenTimeout - RegenDuration
<1>1. ASSUME IndInv, [Next]_vars PROVE [Fires => Stalled]_vars
  <2> SUFFICES ASSUME Next, Fires PROVE Stalled
    BY <1>1
  <2>1. CASE Tick
    <3>1. PICK r \in Readings(Running) : Evaluate(r)
      BY <2>1 DEF Tick
    <3>2. RegenerationTimesOut(r)
      BY <3>1 DEF Evaluate, PowerFails, PowerStaysOff, PowerReturns, Boot,
         LowPressure, RequireRegeneration, ConditionsImprove, RegenerationFails,
         RegenerationCompletes, StateKept
    <3> QED
      BY <1>1, <3>2, DeviceAssumption
         DEF RegenerationTimesOut, IndInv, Safe, CycleFresh, TypeOK, NeverStarted
  <2>2. CASE \/ AcceptRegeneration \/ ToggleRegenFail \/ ResetDebug
             \/ OtaComplete \/ Restart \/ TimePasses
    BY <2>2 DEF AcceptRegeneration, ToggleRegenFail, ResetDebug, OtaComplete,
                Restart, TimePasses
  <2>3. CASE RejectRegeneration \/ OtaUpdate \/ UnknownCommand
    BY <2>3 DEF RejectRegeneration, OtaUpdate, UnknownCommand, fsm_vars
  <2>4. ASSUME NEW flag \in DebugFlags, ToggleFlag(flag) PROVE Stalled
    BY <2>4 DEF ToggleFlag, fsm_vars
  <2> QED
    BY <2>1, <2>2, <2>3, <2>4 DEF Next
<1> QED
  BY <1>1, Invariance, PTL DEF Spec, WatchdogNeedsStall

(* A fault is left only by the power coming back, an OTA update or a       *)
(* restart: no command and no other reading leaves it.                     *)
THEOREM LatchCorrect == Spec => FaultLatched
<1> DEFINE Left == state = "FAULT" /\ state' # "FAULT"
           Allowed == \/ ~sensors.power_status /\ sensors'.power_status
                      \/ OtaComplete
                      \/ Restart
<1>1. ASSUME IndInv, [Next]_vars PROVE [Left => Allowed]_vars
  <2> SUFFICES ASSUME Next, Left PROVE Allowed
    BY <1>1
  <2>1. CASE Tick
    <3>1. PICK r \in Readings(Running) : Evaluate(r)
      BY <2>1 DEF Tick
    <3>2. PowerReturns(r)
      BY <3>1 DEF Evaluate, PowerFails, PowerStaysOff, Boot, LowPressure,
         RequireRegeneration, ConditionsImprove, RegenerationFails,
         RegenerationTimesOut, RegenerationCompletes, StateKept, Running
    <3> QED
      BY <1>1, <3>2 DEF PowerReturns, IndInv, Safe, PowerEdgeInStep
  <2>2. CASE AcceptRegeneration
    BY <2>2 DEF AcceptRegeneration, CanStartRegeneration
  <2>3. CASE ToggleRegenFail \/ ResetDebug \/ TimePasses
    BY <2>3 DEF ToggleRegenFail, ResetDebug, TimePasses
  <2>4. CASE RejectRegeneration \/ OtaUpdate \/ UnknownCommand
    BY <2>4 DEF RejectRegeneration, OtaUpdate, UnknownCommand, fsm_vars
  <2>5. ASSUME NEW flag \in DebugFlags, ToggleFlag(flag) PROVE Allowed
    BY <2>5 DEF ToggleFlag, fsm_vars
  <2> QED
    BY <2>1, <2>2, <2>3, <2>4, <2>5 DEF Next
<1> QED
  BY <1>1, Invariance, PTL DEF Spec, FaultLatched

(* The "no water flow" alert is only ever raised by a tick that began      *)
(* inside a cycle.                                                         *)
THEOREM NoFlowCorrect == Spec => NoFlowOnlyAfterCycle
<1> DEFINE Alerts == "no_flow" \in published' /\ published' # published
<1>1. ASSUME IndInv, [Next]_vars PROVE [Alerts => Running]_vars
  <2> SUFFICES ASSUME Next, Alerts, ~Running PROVE FALSE
    BY <1>1
  <2>1. CASE Tick
    <3>1. PICK r \in Readings(Running) : Evaluate(r)
      BY <2>1 DEF Tick
    <3>2. sensors' = r
      BY <3>1, EvaluateOutsideCycle
    <3>3. ~NoFlowDue
      BY <1>1, <3>2, ReadingsFlow DEF NoFlowDue, IndInv
    <3>4. PICK events : Publish(events) /\ "no_flow" \notin events
      BY <3>1 DEF Evaluate, PowerFails, PowerStaysOff, PowerReturns, Boot, LowPressure,
         RequireRegeneration, ConditionsImprove, RegenerationFails,
         RegenerationTimesOut, RegenerationCompletes, StateKept
    <3> QED
      BY <3>3, <3>4 DEF Publish
  <2>2. CASE AcceptRegeneration \/ RejectRegeneration \/ ToggleRegenFail \/ ResetDebug
    BY <2>2 DEF AcceptRegeneration, RejectRegeneration, ToggleRegenFail, ResetDebug
  <2>3. CASE OtaUpdate \/ UnknownCommand \/ OtaComplete \/ Restart \/ TimePasses
    BY <2>3 DEF OtaUpdate, UnknownCommand, OtaComplete, Restart, TimePasses
  <2>4. ASSUME NEW flag \in DebugFlags, ToggleFlag(flag) PROVE FALSE
    BY <2>4 DEF ToggleFlag
  <2> QED
    BY <2>1, <2>2, <2>3, <2>4 DEF Next
<1> QED
  BY <1>1, Invariance, PTL DEF Spec, NoFlowOnlyAfterCycle

(* Every cycle that stops running was completed after its full duration,   *)
(* failed into FAULT, or was cut short without a result by an outage, an   *)
(* OTA update or a restart.                                                *)
THEOREM AccountingCorrect == Spec => CycleAccounted
<1> DEFINE Ends == Running /\ ~Running'
           Accounted ==
             \/ /\ last_regen_result' = "completed" /\ state' = "MONITORING"
                /\ regen_age >= RegenDuration /\ ~force_regen_fail
             \/ last_regen_result' = "failed" /\ state' = "FAULT"
             \/ /\ last_regen_result' = "none"
                /\ fault_reason' = "power_failure" \/ OtaComplete \/ Restart
<1>1. ASSUME IndInv, [Next]_vars PROVE [Ends => Accounted]_vars
  <2> SUFFICES ASSUME Next, Ends PROVE Accounted
    BY <1>1
  <2>0. last_regen_result = "none" /\ power_was_on
    BY <1>1 DEF IndInv, Safe, RunningIsPowered, PowerEdgeInStep
  <2>1. CASE Tick
    <3>1. PICK r \in Readings(Running) : Evaluate(r)
      BY <2>1 DEF Tick
    <3>2. CASE PowerFails(r)
      BY <2>0, <3>2 DEF PowerFails
    <3>3. CASE PowerStaysOff(r) \/ PowerReturns(r)
      BY <2>0, <3>3 DEF PowerStaysOff, PowerReturns
    <3>4. CASE Boot(r) \/ LowPressure(r) \/ RequireRegeneration(r) \/ ConditionsImprove(r)
      BY <3>4 DEF Boot, LowPressure, RequireRegeneration, ConditionsImprove, Running
    <3>5. CASE RegenerationFails(r) \/ RegenerationTimesOut(r)
      BY <3>5 DEF RegenerationFails, RegenerationTimesOut
    <3>6. CASE RegenerationCompletes(r)
      BY <3>6 DEF RegenerationCompletes, CycleDone
    <3>7. CASE StateKept(r)
      BY <3>7 DEF StateKept, Running
    <3> QED
      BY <3>1, <3>2, <3>3, <3>4, <3>5, <3>6, <3>7 DEF Evaluate
  <2>2. CASE AcceptRegeneration \/ ToggleRegenFail \/ ResetDebug \/ TimePasses
    BY <2>2 DEF AcceptRegeneration, ToggleRegenFail, ResetDebug, TimePasses, Running
  <2>3. CASE RejectRegeneration \/ OtaUpdate \/ UnknownCommand
    BY <2>3 DEF RejectRegeneration, OtaUpdate, UnknownCommand, fsm_vars, Running
  <2>4. ASSUME NEW flag \in DebugFlags, ToggleFlag(flag) PROVE Accounted
    BY <2>4 DEF ToggleFlag, fsm_vars, Running
  <2>5. CASE OtaComplete
    BY <2>0, <2>5 DEF OtaComplete
  <2>6. CASE Restart
    BY <2>6 DEF Restart
  <2> QED
    BY <2>1, <2>2, <2>3, <2>4, <2>5, <2>6 DEF Next
<1> QED
  BY <1>1, Invariance, PTL DEF Spec, CycleAccounted

(* What a tick adds to the events of evaluate() is never a fault reason.   *)
LEMMA PublishReasons ==
  ASSUME NEW events, Publish(events)
  PROVE  /\ events \subseteq published'
         /\ published' \cap FaultReasons \subseteq events
BY DEF Publish, FaultReasons

(* The event stream reports each entry into FAULT with the reason that     *)
(* telemetry carries, and reports no fault that did not happen.            *)
THEOREM AnnouncementCorrect == Spec => FaultAnnounced
<1> DEFINE Told == (state # "FAULT" /\ state' = "FAULT") => fault_reason' \in published'
           Truthful == \A reason \in FaultReasons :
                         reason \in published' \ published
                           => state' = "FAULT" /\ fault_reason' = reason
<1>1. ASSUME IndInv, [Next]_vars PROVE [Told /\ Truthful]_vars
  <2> SUFFICES ASSUME Next PROVE Told /\ Truthful
    BY <1>1
  <2>1. CASE Tick
    <3>1. PICK r \in Readings(Running) : Evaluate(r)
      BY <2>1 DEF Tick
    <3>2. CASE PowerFails(r)
      BY <3>2, PublishReasons DEF PowerFails
    <3>3. CASE PowerStaysOff(r)
      BY <3>3, PublishReasons DEF PowerStaysOff
    <3>4. CASE PowerReturns(r)
      <4>1. Publish({"power_restored"}) /\ state' = "MONITORING"
        BY <3>4 DEF PowerReturns
      <4> QED
        BY <4>1, PublishReasons DEF FaultReasons
    <3>5. CASE Boot(r)
      <4>1. Publish({"boot"}) /\ state' = "MONITORING"
        BY <3>5 DEF Boot
      <4> QED
        BY <4>1, PublishReasons DEF FaultReasons
    <3>6. CASE LowPressure(r)
      BY <3>6, PublishReasons DEF LowPressure
    <3>7. CASE RequireRegeneration(r)
      <4>1. PICK events \in {{"salt_critical"}, {"tds_high"}} : Publish(events)
        BY <3>7 DEF RequireRegeneration
      <4>2. state' = "REGENERATION_REQUIRED"
        BY <3>7 DEF RequireRegeneration
      <4> QED
        BY <4>1, <4>2, PublishReasons DEF FaultReasons
    <3>8. CASE ConditionsImprove(r)
      <4>1. Publish({"improved"}) /\ state' = "MONITORING"
        BY <3>8 DEF ConditionsImprove
      <4> QED
        BY <4>1, PublishReasons DEF FaultReasons
    <3>9. CASE RegenerationFails(r)
      BY <3>9, PublishReasons DEF RegenerationFails
    <3>10. CASE RegenerationTimesOut(r)
      BY <3>10, PublishReasons DEF RegenerationTimesOut
    <3>11. CASE RegenerationCompletes(r)
      <4>1. Publish({"regen_completed"}) /\ state' = "MONITORING"
        BY <3>11 DEF RegenerationCompletes
      <4> QED
        BY <4>1, PublishReasons DEF FaultReasons
    <3>12. CASE StateKept(r)
      BY <3>12, PublishReasons DEF StateKept
    <3> QED
      BY <3>1, <3>2, <3>3, <3>4, <3>5, <3>6, <3>7, <3>8, <3>9, <3>10, <3>11, <3>12
         DEF Evaluate
  <2> USE DEF FaultReasons
  <2>2. CASE AcceptRegeneration \/ ToggleRegenFail \/ ResetDebug
    BY <2>2 DEF AcceptRegeneration, ToggleRegenFail, ResetDebug
  <2>3. CASE RejectRegeneration \/ OtaUpdate \/ UnknownCommand
    BY <2>3 DEF RejectRegeneration, OtaUpdate, UnknownCommand, fsm_vars
  <2>4. ASSUME NEW flag \in DebugFlags, ToggleFlag(flag) PROVE Told /\ Truthful
    BY <2>4 DEF ToggleFlag, fsm_vars
  <2>5. CASE OtaComplete \/ Restart \/ TimePasses
    BY <2>5 DEF OtaComplete, Restart, TimePasses
  <2> QED
    BY <2>1, <2>2, <2>3, <2>4, <2>5 DEF Next
<1> QED
  BY <1>1, Invariance, PTL DEF Spec, FaultAnnounced

(* Events tell the faults that were entered, and a lack of flow only after *)
(* a cycle.                                                                *)
THEOREM EventsCorrect == Spec => EventsTruthful
BY AnnouncementCorrect, NoFlowCorrect DEF EventsTruthful

-----------------------------------------------------------------------------
(* THE DEVICE IMPLEMENTS ITS LIFECYCLE                                     *)

(* A sample taken in an outage leaves the salt sensor alone.               *)
LEMMA ReadingsOutage ==
  ASSUME TypeOK, NEW r \in Readings(Running), ~r.power_status
  PROVE  r.salt_level = sensors.salt_level
<1>1. "force_power_failure" \in forced
  BY DEF Readings
<1> QED
  BY <1>1 DEF Readings, TypeOK, SensorValues

(* The device starts as the lifecycle does.                                *)
LEMMA InitRefines == Init => L!Init
BY DeviceAssumption DEF Init, PowerOnSensors, L!Init

(* Every tick is one step of the lifecycle, or stutters in an outage.      *)
LEMMA TickRefines ==
  ASSUME IndInv, Tick
  PROVE  L!Next \/ UNCHANGED L!lvars
<1> USE DeviceAssumption
<1> DEFINE brine == sensors.salt_level > SaltCritical
<1>1. PICK r \in Readings(Running) : Evaluate(r)
  BY DEF Tick
<1>2. r \in SensorValues /\ sensors \in SensorValues
  BY ReadingsType DEF IndInv, TypeOK
<1>3. power_was_on = sensors.power_status
  BY DEF IndInv, Safe, PowerEdgeInStep
<1>4. /\ r.power_status \in BOOLEAN /\ sensors.power_status \in BOOLEAN
      /\ r.salt_level \in Nat /\ sensors.salt_level \in Nat
  BY <1>2 DEF SensorValues
<1>5. ~r.power_status => r.salt_level = sensors.salt_level
  BY ReadingsOutage DEF IndInv
<1>6. ~brine => ~(r.salt_level > SaltCritical)
  BY <1>4, ReadingsSalt DEF IndInv
<1>7. ASSUME sensors' = r PROVE L!Wear
  <2>1. brine' => brine
    BY <1>6, <1>7
  <2>2. brine \in BOOLEAN /\ brine' \in BOOLEAN
    OBVIOUS
  <2>3. L!Wear <=> brine' \in {FALSE, brine}
    BY DEF L!Wear
  <2> HIDE DEF brine
  <2> QED
    BY <2>1, <2>2, <2>3
<1>8. CASE PowerFails(r)
  <2>1. L!PowerCut
    BY <1>3, <1>4, <1>5, <1>8 DEF PowerFails, L!PowerCut
  <2> QED
    BY <2>1 DEF L!Next
<1>9. CASE PowerStaysOff(r)
  BY <1>3, <1>4, <1>5, <1>9 DEF PowerStaysOff, L!lvars
<1>10. CASE PowerReturns(r)
  <2>1. L!PowerBack
    BY <1>3, <1>4, <1>7, <1>10 DEF PowerReturns, L!PowerBack
  <2> QED
    BY <2>1 DEF L!Next
<1>11. ASSUME Powered(r), sensors' = r, state \in L!Phases,
              state' \in L!Successors[state],
              (state \in {"MONITORING", "REGENERATION_REQUIRED"} /\ state' = "MONITORING")
                => r.salt_level > SaltCritical
       PROVE  L!Next
  <2>1. L!Sample
    BY <1>3, <1>4, <1>7, <1>11 DEF L!Sample, Powered
  <2> QED
    BY <2>1 DEF L!Next
<1>12. CASE Boot(r)
  BY <1>11, <1>12 DEF Boot, L!Phases, L!Successors
<1>13. CASE LowPressure(r)
  BY <1>11, <1>13 DEF LowPressure, L!Phases, L!Successors
<1>14. CASE RequireRegeneration(r)
  BY <1>11, <1>14 DEF RequireRegeneration, L!Phases, L!Successors
<1>15. CASE ConditionsImprove(r)
  BY <1>4, <1>11, <1>15 DEF ConditionsImprove, NeedsRegeneration, L!Phases, L!Successors
<1>16. CASE RegenerationFails(r)
  BY <1>11, <1>16 DEF RegenerationFails, Running, L!Phases, L!Successors
<1>17. CASE RegenerationTimesOut(r)
  BY <1>11, <1>17 DEF RegenerationTimesOut, Running, L!Phases, L!Successors
<1>18. CASE RegenerationCompletes(r)
  <2>1. sensors'.power_status = r.power_status /\ sensors'.salt_level = SaltFull
    BY <1>2, <1>18 DEF RegenerationCompletes, SensorValues
  <2>2. L!Finish
    <3>1. (sensors.salt_level > SaltCritical)' = TRUE
      BY <2>1
    <3>2. /\ sensors.power_status /\ sensors'.power_status = sensors.power_status
          /\ Running /\ state' = "MONITORING"
      BY <1>3, <1>4, <1>18, <2>1 DEF RegenerationCompletes, Powered
    <3> QED
      BY <3>1, <3>2 DEF L!Finish, Running
  <2> QED
    BY <2>2 DEF L!Next
<1>19. CASE StateKept(r)
  <2>1. /\ state \in L!Phases /\ state' = state
        /\ state \in {"MONITORING", "REGENERATION_REQUIRED", "REGENERATION_RUNNING", "FAULT"}
        /\ state = "MONITORING" => r.salt_level > SaltCritical
    BY <1>4, <1>19 DEF StateKept, NothingToDo, NeedsRegeneration, Running, L!Phases
  <2>2. state' \in L!Successors[state]
    BY <2>1 DEF L!Successors, L!Phases
  <2> QED
    BY <1>11, <1>19, <2>1, <2>2 DEF StateKept
<1> QED
  BY <1>1, <1>8, <1>9, <1>10, <1>12, <1>13, <1>14, <1>15, <1>16, <1>17, <1>18, <1>19
     DEF Evaluate

(* Every step of the device is a step of the lifecycle or leaves it alone. *)
LEMMA NextRefines == IndInv /\ [Next]_vars => [L!Next]_L!lvars
<1> USE DeviceAssumption
<1> SUFFICES ASSUME IndInv, [Next]_vars PROVE L!Next \/ UNCHANGED L!lvars
  OBVIOUS
<1>1. CASE Tick
  BY <1>1, TickRefines
<1>2. CASE AcceptRegeneration
  <2>1. L!Start
    BY <1>2 DEF AcceptRegeneration, CanStartRegeneration, L!Start, IndInv, TypeOK, States
  <2> QED
    BY <2>1 DEF L!Next
<1>3. CASE RejectRegeneration \/ OtaUpdate \/ UnknownCommand
  BY <1>3 DEF RejectRegeneration, OtaUpdate, UnknownCommand, fsm_vars, L!lvars
<1>4. ASSUME NEW flag \in DebugFlags, ToggleFlag(flag) PROVE UNCHANGED L!lvars
  BY <1>4 DEF ToggleFlag, fsm_vars, L!lvars
<1>5. CASE ToggleRegenFail \/ ResetDebug \/ TimePasses
  BY <1>5 DEF ToggleRegenFail, ResetDebug, TimePasses, L!lvars
<1>6. CASE OtaComplete
  <2>1. L!Reflash
    BY <1>6 DEF OtaComplete, L!Reflash
  <2> QED
    BY <2>1 DEF L!Next
<1>7. CASE Restart
  <2>1. L!Reboot
    BY <1>7 DEF Restart, PowerOnSensors, L!Reboot
  <2> QED
    BY <2>1 DEF L!Next
<1>8. CASE UNCHANGED vars
  BY <1>8 DEF vars, fsm_vars, L!lvars
<1> QED
  BY <1>1, <1>2, <1>3, <1>4, <1>5, <1>6, <1>7, <1>8 DEF Next

(* The device, with its sensors, timers, threads and files, implements its *)
(* lifecycle.                                                              *)
THEOREM LifecycleImplemented == Spec => ImplementsLifecycle
BY Invariance, InitRefines, NextRefines, PTL DEF Spec, ImplementsLifecycle, L!Spec

-----------------------------------------------------------------------------
(* HOW A SAMPLE OF THE DEVICE IS JUDGED, for every set of readings and not *)
(* only for those on either side of each threshold.                        *)

(* The alerts of a payload, one condition each.                            *)
LEMMA AlertsOfPayload ==
  ASSUME NEW t
  PROVE  /\ "LOW_SALT" \in AlertsOf(t) <=> t.salt_level_pct <= 150
         /\ "HIGH_TDS" \in AlertsOf(t) <=> t.tds_ppm >= 5000
         /\ "LOW_PRESSURE" \in AlertsOf(t) <=> t.water_pressure_bar < 100
         /\ "POWER_FAIL" \in AlertsOf(t) <=> ~t.power_status
         /\ "FAULT" \in AlertsOf(t) <=> t.state = "FAULT"
         /\ AlertsOf(t) = {} =>
              /\ ~(t.salt_level_pct <= 250) /\ ~(t.tds_ppm >= 5000)
              /\ ~(t.water_pressure_bar < 100)
              /\ t.power_status /\ t.state # "FAULT"
BY DEF AlertsOf

(* What is reported of a sample is that sample, up to the rounding of the  *)
(* salt level by at most half a tenth.                                     *)
LEMMA PayloadOfSample ==
  ASSUME NEW s \in Samples, NEW t \in Payloads(s)
  PROVE  /\ s.salt_level \in Nat /\ t.salt_level_pct \in Int
         /\ 10 * t.salt_level_pct - s.salt_level <= 5
         /\ s.salt_level - 10 * t.salt_level_pct <= 5
         /\ t.tds_ppm = s.tds /\ s.tds \in Nat
         /\ t.water_pressure_bar = s.water_pressure /\ s.water_pressure \in Nat
         /\ t.power_status = s.power_status /\ s.power_status \in BOOLEAN
         /\ t.water_flow_lpm = s.water_flow /\ s.water_flow \in {0} \cup 700..900
         /\ t.state = s.state
<1>1. /\ s.salt_level \in Nat /\ s.water_pressure \in Nat /\ s.tds \in Nat
      /\ s.power_status \in BOOLEAN
      /\ s.water_flow \in {0} \cup 700..900
  <2>1. /\ s.salt_level \in Salts /\ s.water_pressure \in Pressures /\ s.tds \in Hardnesses
        /\ s.power_status \in BOOLEAN /\ s.water_flow \in Flows \cup {0}
    BY DEF Samples
  <2>2. /\ Salts \subseteq Nat /\ Pressures \subseteq Nat /\ Hardnesses \subseteq Nat
        /\ Flows \subseteq 700..900
    BY ReadingsAssumption
  <2>3. s.water_flow \in {0} \cup 700..900
    BY <2>1, <2>2, Zenon
  <2> QED
    BY <2>1, <2>2, <2>3, Zenon
<1>2. /\ t.salt_level_pct \in Rounded(s.salt_level)
      /\ t.water_pressure_bar = s.water_pressure /\ t.tds_ppm = s.tds
      /\ t.water_flow_lpm = s.water_flow
      /\ t.power_status = s.power_status /\ t.state = s.state
  BY DEF Payloads
<1>3. /\ t.salt_level_pct \in Int
      /\ 10 * t.salt_level_pct - s.salt_level <= 5
      /\ s.salt_level - 10 * t.salt_level_pct <= 5
  BY <1>1, <1>2 DEF Rounded
<1> QED
  BY <1>1, <1>2, <1>3

(* Once a message has arrived: a sample, a payload of it, and the alerts   *)
(* of that payload.                                                        *)
Stored == Arrived =>
  /\ sample \in Samples
  /\ telemetry \in Payloads(sample)
  /\ alerts = AlertsOf(telemetry)

(* It is what every update leaves.                                         *)
THEOREM StoredInvariant == JudgementSpec => []Stored
<1>1. JudgementInit => Stored
  BY DEF JudgementInit, Stored, Arrived
<1>2. Stored /\ [UpdateTelemetry]_avars => Stored'
  BY DEF Stored, Arrived, UpdateTelemetry, avars
<1> QED
  BY <1>1, <1>2, PTL DEF JudgementSpec

(* No condition the device acts on is without its alert, and alerts err    *)
(* only within the rounding of the salt level.                             *)
THEOREM AlertsCorrect == JudgementSpec => []AlertsFaithful
<1>1. Stored => AlertsFaithful
  BY AlertsOfPayload, PayloadOfSample DEF Stored, AlertsFaithful
<1> QED
  BY <1>1, StoredInvariant, PTL

(* A passing safety panel never promises a cycle that the gate refuses.    *)
THEOREM PanelCorrect == JudgementSpec => []PanelSound
<1>1. Stored => PanelSound
  BY PayloadOfSample DEF Stored, PanelSound, PanelPasses, GateAccepts
<1> QED
  BY <1>1, StoredInvariant, PTL

(* Cards and alerts agree up to the thresholds themselves, except for the  *)
(* flow card, which is red in every outage and for a cycle.                *)
THEOREM CardsCorrect == JudgementSpec => []CardsAgree
<1>1. Stored => CardsAgree
  <2> SUFFICES ASSUME Stored, Arrived PROVE CardsAgree
    BY DEF CardsAgree
  <2>1. /\ sample \in Samples /\ telemetry \in Payloads(sample)
        /\ alerts = AlertsOf(telemetry)
    BY DEF Stored
  <2>2. /\ telemetry.salt_level_pct \in Int /\ telemetry.tds_ppm \in Int
        /\ telemetry.water_pressure_bar \in Int
        /\ telemetry.water_flow_lpm < 50 <=> sample.water_flow = 0
    BY <2>1, PayloadOfSample
  <2>3. /\ "LOW_SALT" \in RedCards(telemetry) <=> telemetry.salt_level_pct < 150
        /\ "HIGH_TDS" \in RedCards(telemetry) <=> telemetry.tds_ppm > 5000
        /\ "LOW_PRESSURE" \in RedCards(telemetry) <=> telemetry.water_pressure_bar < 100
        /\ "LOW_FLOW" \in RedCards(telemetry) <=> telemetry.water_flow_lpm < 50
        /\ RedCards(telemetry) \subseteq
             {"LOW_SALT", "HIGH_TDS", "LOW_PRESSURE", "LOW_FLOW"}
    BY DEF RedCards
  <2>4. /\ RedCards(telemetry) \subseteq alerts \cup {"LOW_FLOW"}
        /\ \A id \in {"LOW_SALT", "HIGH_TDS", "LOW_PRESSURE"} :
             id \in alerts \ RedCards(telemetry) =>
               \/ id = "LOW_SALT" /\ telemetry.salt_level_pct = 150
               \/ id = "HIGH_TDS" /\ telemetry.tds_ppm = 5000
    BY <2>1, <2>2, <2>3, AlertsOfPayload
  <2>5. "POWER_FAIL" \in alerts \/ sample.state = "REGENERATION_RUNNING"
          => "LOW_FLOW" \in RedCards(telemetry)
    BY <2>1, <2>2, <2>3, AlertsOfPayload, PayloadOfSample DEF Samples
  <2>6. ASSUME sample.water_flow = 0, "POWER_FAIL" \notin alerts,
               sample.state # "REGENERATION_RUNNING", "FAULT" \notin alerts
        PROVE  alerts \subseteq {"LOW_PRESSURE"}
    <3>1. /\ sample.power_status /\ sample.state # "FAULT"
          /\ telemetry.power_status /\ telemetry.state # "FAULT"
      BY <2>1, <2>6, AlertsOfPayload, PayloadOfSample
    <3>2. sample.state = "MONITORING"
      BY <2>1, <2>6, <3>1 DEF Samples, SampledStates
    <3>3. sample.salt_level = 9000 /\ sample.tds = 1500
      BY <2>1, <2>6, <3>1, <3>2 DEF Samples
    <3>4. telemetry.salt_level_pct > 250 /\ telemetry.tds_ppm < 5000
      BY <2>1, <2>2, <3>3, PayloadOfSample
    <3> QED
      BY <2>1, <2>2, <3>1, <3>4 DEF AlertsOf
  <2> QED
    BY <2>2, <2>3, <2>4, <2>5, <2>6 DEF CardsAgree
<1> QED
  BY <1>1, StoredInvariant, PTL

-----------------------------------------------------------------------------
(* THE HEALTH SCORE                                                        *)

(* Clamping keeps the order of scores.                                     *)
LEMMA ClampMonotone ==
  ASSUME NEW a \in Int, NEW b \in Int, a <= b
  PROVE  Clamp(a) <= Clamp(b) /\ Clamp(a) \in 0..100
BY DEF Clamp

(* The score of a device on which nothing has got better never rises.      *)
THEOREM ScoreCorrect == JudgementSpec => ScoreMonotone
<1>1. ASSUME NEW s \in Samples, NEW t \in Payloads(s),
             NEW v \in Samples, NEW u \in Payloads(v), NoBetter(t, u)
      PROVE  Score(u) <= Score(t)
  <2>1. /\ t.salt_level_pct \in Int /\ u.salt_level_pct \in Int
        /\ t.tds_ppm \in Int /\ u.tds_ppm \in Int
        /\ t.water_pressure_bar \in Int /\ u.water_pressure_bar \in Int
    BY PayloadOfSample
  <2> DEFINE fault(x) == IF x.state = "FAULT" THEN 30 ELSE 0
             power(x) == IF ~x.power_status THEN 20 ELSE 0
             raw(x) == 100 - SaltDeduction(x.salt_level_pct) - TdsDeduction(x.tds_ppm)
                           - PressureDeduction(x.water_pressure_bar) - fault(x) - power(x)
  <2>2. /\ SaltDeduction(t.salt_level_pct) <= SaltDeduction(u.salt_level_pct)
        /\ SaltDeduction(t.salt_level_pct) \in Nat /\ SaltDeduction(u.salt_level_pct) \in Nat
    BY <1>1, <2>1 DEF NoBetter, SaltDeduction
  <2>3. /\ TdsDeduction(t.tds_ppm) <= TdsDeduction(u.tds_ppm)
        /\ TdsDeduction(t.tds_ppm) \in Nat /\ TdsDeduction(u.tds_ppm) \in Nat
    BY <1>1, <2>1 DEF NoBetter, TdsDeduction
  <2>4. /\ PressureDeduction(t.water_pressure_bar) <= PressureDeduction(u.water_pressure_bar)
        /\ PressureDeduction(t.water_pressure_bar) \in Nat
        /\ PressureDeduction(u.water_pressure_bar) \in Nat
    BY <1>1, <2>1 DEF NoBetter, PressureDeduction
  <2>5. fault(t) <= fault(u) /\ fault(t) \in Nat /\ fault(u) \in Nat
    BY <1>1 DEF NoBetter
  <2>6. power(t) <= power(u) /\ power(t) \in Nat /\ power(u) \in Nat
    BY <1>1 DEF NoBetter
  <2>7. raw(u) <= raw(t) /\ raw(u) \in Int /\ raw(t) \in Int
    <3> HIDE DEF fault, power
    <3> QED
      BY <2>2, <2>3, <2>4, <2>5, <2>6
  <2>8. Score(t) = Clamp(raw(t)) /\ Score(u) = Clamp(raw(u))
    BY DEF Score
  <2> HIDE DEF raw
  <2> QED
    BY <2>7, <2>8, ClampMonotone
<1>2. Stored /\ Stored' /\ [UpdateTelemetry]_avars
        => [Arrived /\ NoBetter(telemetry, telemetry')
              => Score(telemetry') <= Score(telemetry)]_avars
  <2> SUFFICES ASSUME Stored, UpdateTelemetry, Arrived, NoBetter(telemetry, telemetry')
               PROVE  Score(telemetry') <= Score(telemetry)
    OBVIOUS
  <2> QED
    BY <1>1 DEF Stored, UpdateTelemetry
<1> QED
  BY <1>2, StoredInvariant, PTL DEF JudgementSpec, ScoreMonotone

(* The grades at 85 and 50, for a score that is brought into its range.    *)
LEMMA GradeOfClamped ==
  ASSUME NEW x \in Int
  PROVE  /\ Grade(Clamp(x)) = "Excellent" => x >= 85
         /\ x >= 50 => Grade(Clamp(x)) \in {"Excellent", "Good", "Fair"}
BY DEF Grade, Clamp

(* Grade and alerts agree: no alert on a device graded Excellent, and none *)
(* without alerts is graded Poor or Critical.                              *)
THEOREM GradeCorrect == JudgementSpec => []GradeAgrees
<1>1. ASSUME Stored PROVE GradeAgrees
  <2> SUFFICES ASSUME Arrived PROVE GradeAgrees
    BY DEF GradeAgrees
  <2> DEFINE salt == SaltDeduction(telemetry.salt_level_pct)
             tds == TdsDeduction(telemetry.tds_ppm)
             pressure == PressureDeduction(telemetry.water_pressure_bar)
             fault == IF telemetry.state = "FAULT" THEN 30 ELSE 0
             power == IF ~telemetry.power_status THEN 20 ELSE 0
  <2>1. /\ telemetry.salt_level_pct \in Int /\ telemetry.tds_ppm \in Int
        /\ telemetry.water_pressure_bar \in Int
    BY <1>1, PayloadOfSample DEF Stored
  <2>2. salt \in {0, 8, 20, 35} /\ (telemetry.salt_level_pct <= 250 => salt \in {20, 35})
    BY <2>1 DEF SaltDeduction
  <2>3. tds \in {0, 12, 25} /\ (tds = 25 <=> telemetry.tds_ppm >= 5000)
    BY <2>1 DEF TdsDeduction
  <2>4. pressure \in {0, 10, 20} /\ (pressure = 20 <=> telemetry.water_pressure_bar < 100)
    BY <2>1 DEF PressureDeduction
  <2>5. fault \in {0, 30} /\ (fault = 30 <=> telemetry.state = "FAULT")
    OBVIOUS
  <2>6. power \in {0, 20} /\ (power = 20 <=> ~telemetry.power_status)
    OBVIOUS
  <2>7. Score(telemetry) = Clamp(100 - salt - tds - pressure - fault - power)
    BY DEF Score
  <2>8. /\ alerts = AlertsOf(telemetry)
        /\ alerts = {} => /\ ~(telemetry.salt_level_pct <= 250)
                          /\ tds # 25 /\ pressure # 20 /\ fault = 0 /\ power = 0
    BY <1>1, <2>3, <2>4, <2>5, <2>6, AlertsOfPayload DEF Stored
  <2>9. /\ ~(telemetry.salt_level_pct <= 250) => salt \in {0, 8, 20}
        /\ salt \in {0, 8} => ~(telemetry.salt_level_pct <= 250)
    BY <2>1 DEF SaltDeduction
  <2>10. ASSUME ~(telemetry.salt_level_pct <= 250), tds # 25, pressure # 20,
                fault = 0, power = 0
         PROVE  alerts = {}
    <3>1. /\ ~(telemetry.salt_level_pct <= 150) /\ ~(telemetry.tds_ppm >= 5000)
          /\ ~(telemetry.water_pressure_bar < 100)
          /\ telemetry.power_status /\ telemetry.state # "FAULT"
      BY <2>1, <2>3, <2>4, <2>5, <2>6, <2>10
    <3> QED
      BY <2>8, <2>10, <3>1 DEF AlertsOf
  <2> HIDE DEF salt, tds, pressure, fault, power
  <2> DEFINE raw == 100 - salt - tds - pressure - fault - power
  <2>11. raw \in Int
    BY <2>2, <2>3, <2>4, <2>5, <2>6
  <2>12. raw >= 85 => /\ salt \in {0, 8} /\ tds # 25 /\ pressure # 20
                      /\ fault = 0 /\ power = 0
    BY <2>2, <2>3, <2>4, <2>5, <2>6
  <2>13. (salt \in {0, 8, 20} /\ tds # 25 /\ pressure # 20 /\ fault = 0 /\ power = 0)
           => raw >= 50
    BY <2>3, <2>4
  <2> HIDE DEF raw
  <2>14. Grade(Score(telemetry)) = "Excellent" => alerts = {}
    BY <2>7, <2>9, <2>10, <2>11, <2>12, GradeOfClamped DEF raw
  <2>15. alerts = {} => Grade(Score(telemetry)) \in {"Excellent", "Good", "Fair"}
    BY <2>7, <2>8, <2>9, <2>11, <2>13, GradeOfClamped DEF raw
  <2> QED
    BY <2>14, <2>15 DEF GradeAgrees
<1> QED
  BY <1>1, StoredInvariant, PTL

(* Gate, alerts, grade, panel and cards agree for all readings.            *)
THEOREM JudgementsCorrect == JudgementSpec => []JudgementsAgree
BY AlertsCorrect, GradeCorrect, PanelCorrect, CardsCorrect, PTL DEF JudgementsAgree
=============================================================================
