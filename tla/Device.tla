------------------------------- MODULE Device -------------------------------
(***************************************************************************)
(* The EcoWell softener: one Device object (device/simulator.py) with its  *)
(* SensorModel, its StateMachine and its safety gate.                      *)
(*                                                                         *)
(* Three kinds of thread call into it.  The telemetry loop runs tick();    *)
(* the MQTT network thread and the debug console run handle_command();     *)
(* every "ota_update" command starts a thread that ends by resetting the   *)
(* state machine.  Each of these holds Device.lock from its first to its   *)
(* last access, so each is one action here, and the interleavings that     *)
(* remain are those of whole handlers.                                     *)
(*                                                                         *)
(* Sensor values are naturals in a unit coarse enough that one tick of the *)
(* random walk moves a value by at most one; only their order relative to  *)
(* the thresholds matters.  Times are ages: "x seconds ago", saturating at *)
(* the largest value the code compares them with.                          *)
(***************************************************************************)
EXTENDS Integers

CONSTANTS
  SaltInit, SaltFull, SaltForced,      \* 80 at start, 90 after a cycle, 10 when forced
  SaltCritical, SaltWarn,              \* thresholds: 15 and 25 percent
  PressureInit, PressureFloor,         \* 3.2 at start, 0.5 lowest and forced
  PressureMax, PressureMin,            \* 6.0 highest; threshold 1.0 bar
  TdsInit, TdsFresh, TdsForced,        \* 180 at start, 150 after a cycle, 650 forced
  TdsFloor, TdsMax, TdsHigh,           \* 50 lowest, 1000 highest; threshold 500 ppm
  RegenDuration, RegenTimeout,         \* 15 s and 25 s
  SaltWarnGap, NoFlowGap,              \* 60 s and 30 s between two warnings
  MaxTickGap,    \* bound: the longest time between two ticks that is explored
  MaxOta,        \* bound: OTA threads alive at once
  Commands       \* the commands that arrive over MQTT or the console

DebugFlags == {"force_low_salt", "force_low_pressure",
               "force_high_tds", "force_power_failure"}

AllCommands == DebugFlags \cup {"regenerate", "force_regen_fail", "reset_debug",
                                "ota_update", "unknown"}

ASSUME DeviceAssumption ==
  /\ SaltInit \in Nat /\ SaltFull \in Nat /\ SaltForced \in Nat
  /\ SaltCritical \in Nat /\ SaltWarn \in Nat
  /\ PressureInit \in Nat /\ PressureFloor \in Nat
  /\ PressureMax \in Nat /\ PressureMin \in Nat
  /\ TdsInit \in Nat /\ TdsFresh \in Nat /\ TdsForced \in Nat
  /\ TdsFloor \in Nat /\ TdsMax \in Nat /\ TdsHigh \in Nat
  /\ SaltForced <= SaltCritical
  /\ SaltCritical < SaltWarn
  /\ SaltWarn < SaltInit
  /\ SaltWarn < SaltFull
  /\ PressureFloor < PressureMin
  /\ PressureMin <= PressureInit /\ PressureInit <= PressureMax
  /\ TdsFloor <= TdsFresh /\ TdsFresh < TdsHigh
  /\ TdsFloor <= TdsInit /\ TdsInit < TdsHigh
  /\ TdsHigh <= TdsForced /\ TdsForced <= TdsMax
  /\ RegenDuration \in Nat \ {0} /\ RegenTimeout \in Nat
  /\ RegenDuration < RegenTimeout
  /\ SaltWarnGap \in Nat /\ NoFlowGap \in Nat
  /\ MaxTickGap \in Nat \ {0} /\ MaxOta \in Nat
  /\ Commands \subseteq AllCommands

VARIABLES
  \* StateMachine
  state, fault_reason, force_regen_fail, last_regen_result, power_was_on,
  regen_age,       \* current_time - regen_start_time
  \* SensorModel: the readings, and the debug flags that are set
  sensors, forced,
  \* Device
  salt_warn_age, no_flow_age, ota_threads,
  since_tick,      \* time since tick() last ran
  published,       \* what the last handler gave to MQTT: event kinds and "telemetry"
  saved            \* the state in device_state.json

fsm_vars == <<state, fault_reason, force_regen_fail, last_regen_result,
              power_was_on, regen_age>>
warn_vars == <<salt_warn_age, no_flow_age>>
vars == <<fsm_vars, sensors, forced, warn_vars, ota_threads, since_tick,
          published, saved>>

States == {"IDLE", "MONITORING", "REGENERATION_REQUIRED",
           "REGENERATION_RUNNING", "FAULT"}
FaultReasons == {"power_failure", "low_pressure", "regen_failed", "regen_timeout"}
NeverStarted == -1     \* regen_start_time is None

Events == FaultReasons \cup
  {"power_restored", "boot", "salt_critical", "tds_high", "improved",
   "regen_completed", "transition", "salt_warning", "no_flow",
   "accepted", "rejected", "debug", "debug_reset", "ota_started",
   "ota_complete", "unknown"}

Running == state = "REGENERATION_RUNNING"

-----------------------------------------------------------------------------
(* What StateMachine(), SensorModel() and Device() leave in memory.        *)

PowerOnSensors == [salt_level |-> SaltInit, water_pressure |-> PressureInit,
                   tds |-> TdsInit, power_status |-> TRUE, water_flow |-> 1]

Init ==
  /\ state = "IDLE"
  /\ fault_reason = "none"
  /\ force_regen_fail = FALSE
  /\ last_regen_result = "none"
  /\ power_was_on = TRUE
  /\ regen_age = NeverStarted
  /\ sensors = PowerOnSensors
  /\ forced = {}
  /\ salt_warn_age = SaltWarnGap + 1     \* _last_salt_warn = 0, the epoch
  /\ no_flow_age = NoFlowGap + 1
  /\ ota_threads = 0
  /\ since_tick = 0
  /\ published = {}
  /\ saved = "no_file"

-----------------------------------------------------------------------------
(* SensorModel.update: the readings one simulation step may produce.       *)
(* water_flow is 1 for any positive flow.                                  *)

SaltReadings ==
  IF "force_low_salt" \in forced THEN {SaltForced}
  ELSE {s \in {sensors.salt_level - 1, sensors.salt_level} : s >= 0}

PressureReadings ==
  IF "force_low_pressure" \in forced THEN {PressureFloor}
  ELSE {p \in (sensors.water_pressure - 1)..(sensors.water_pressure + 1) :
          PressureFloor <= p /\ p <= PressureMax}

(* Variation: without the lower limit.                                     *)
TdsUnlimited ==
  IF "force_high_tds" \in forced THEN {TdsForced}
  ELSE {t \in (sensors.tds - 1)..(sensors.tds + 1) : t <= TdsMax}

TdsReadings ==
  IF "force_high_tds" \in forced THEN {TdsForced}
  ELSE {t \in (sensors.tds - 1)..(sensors.tds + 1) : TdsFloor <= t /\ t <= TdsMax}

Readings(is_regenerating) ==
  IF "force_power_failure" \in forced
  THEN {[sensors EXCEPT !.power_status = FALSE, !.water_flow = 0]}
  ELSE [salt_level : SaltReadings, water_pressure : PressureReadings,
        tds : TdsReadings, power_status : {TRUE},
        water_flow : {IF is_regenerating THEN 0 ELSE 1}]

-----------------------------------------------------------------------------
(* Device._check_predictive, on the state and readings evaluate() left.    *)

SaltWarnDue ==
  /\ SaltCritical < sensors'.salt_level /\ sensors'.salt_level <= SaltWarn
  /\ salt_warn_age > SaltWarnGap

NoFlowDue ==
  /\ state' = "MONITORING"
  /\ sensors'.power_status
  /\ sensors'.water_flow = 0
  /\ no_flow_age > NoFlowGap

CheckPredictive ==
  /\ salt_warn_age' = IF SaltWarnDue THEN 0 ELSE salt_warn_age
  /\ no_flow_age' = IF NoFlowDue THEN 0 ELSE no_flow_age

(* Everything a tick publishes: the events of evaluate(), the transition   *)
(* event of _finalise(), the predictive alerts and the telemetry.          *)
Publish(events) ==
  published' = events
                 \cup (IF state' # state THEN {"transition"} ELSE {})
                 \cup (IF SaltWarnDue THEN {"salt_warning"} ELSE {})
                 \cup (IF NoFlowDue THEN {"no_flow"} ELSE {})
                 \cup {"telemetry"}

-----------------------------------------------------------------------------
(* StateMachine.evaluate, one operator per branch; r is what               *)
(* SensorModel.update has just produced.                                   *)

(* Variation: the edge detector is not told of the outage.                 *)
PowerFailsUnnoticed(r) ==
  /\ ~r.power_status /\ power_was_on
  /\ fault_reason' = "power_failure"
  /\ state' = "FAULT"
  /\ sensors' = r
  /\ UNCHANGED <<force_regen_fail, last_regen_result, power_was_on>>
  /\ Publish({"power_failure"})

PowerFails(r) ==
  /\ ~r.power_status /\ power_was_on
  /\ power_was_on' = FALSE
  /\ fault_reason' = "power_failure"
  /\ state' = "FAULT"
  /\ sensors' = r
  /\ UNCHANGED <<force_regen_fail, last_regen_result>>
  /\ Publish({"power_failure"})

PowerStaysOff(r) ==
  /\ ~r.power_status /\ ~power_was_on
  /\ sensors' = r
  /\ UNCHANGED <<state, fault_reason, force_regen_fail, last_regen_result, power_was_on>>
  /\ Publish({})

PowerReturns(r) ==
  /\ r.power_status /\ ~power_was_on
  /\ power_was_on' = TRUE
  /\ fault_reason' = "none"
  /\ state' = "MONITORING"
  /\ sensors' = r
  /\ UNCHANGED <<force_regen_fail, last_regen_result>>
  /\ Publish({"power_restored"})

Powered(r) == r.power_status /\ power_was_on
NeedsRegeneration(r) == r.salt_level <= SaltCritical \/ r.tds >= TdsHigh
CycleDoneLate == regen_age > RegenDuration     \* variation: off by one
CycleDone == regen_age >= RegenDuration

Boot(r) ==
  /\ Powered(r)
  /\ state = "IDLE"
  /\ state' = "MONITORING"
  /\ sensors' = r
  /\ UNCHANGED <<fault_reason, force_regen_fail, last_regen_result, power_was_on>>
  /\ Publish({"boot"})

(* Variation: the fault is entered without an event.                       *)
LowPressureSilent(r) ==
  /\ Powered(r)
  /\ state = "MONITORING"
  /\ r.water_pressure < PressureMin
  /\ fault_reason' = "low_pressure"
  /\ state' = "FAULT"
  /\ sensors' = r
  /\ UNCHANGED <<force_regen_fail, last_regen_result, power_was_on>>
  /\ Publish({})

LowPressure(r) ==
  /\ Powered(r)
  /\ state = "MONITORING"
  /\ r.water_pressure < PressureMin
  /\ fault_reason' = "low_pressure"
  /\ state' = "FAULT"
  /\ sensors' = r
  /\ UNCHANGED <<force_regen_fail, last_regen_result, power_was_on>>
  /\ Publish({"low_pressure"})

RequireRegeneration(r) ==
  /\ Powered(r)
  /\ state = "MONITORING"
  /\ r.water_pressure >= PressureMin
  /\ NeedsRegeneration(r)
  /\ state' = "REGENERATION_REQUIRED"
  /\ sensors' = r
  /\ UNCHANGED <<fault_reason, force_regen_fail, last_regen_result, power_was_on>>
  /\ Publish(IF r.salt_level <= SaltCritical THEN {"salt_critical"} ELSE {"tds_high"})

ConditionsImprove(r) ==
  /\ Powered(r)
  /\ state = "REGENERATION_REQUIRED"
  /\ ~NeedsRegeneration(r)
  /\ state' = "MONITORING"
  /\ sensors' = r
  /\ UNCHANGED <<fault_reason, force_regen_fail, last_regen_result, power_was_on>>
  /\ Publish({"improved"})

RegenerationFails(r) ==
  /\ Powered(r)
  /\ Running
  /\ force_regen_fail
  /\ force_regen_fail' = FALSE
  /\ fault_reason' = "regen_failed"
  /\ last_regen_result' = "failed"
  /\ state' = "FAULT"
  /\ sensors' = r
  /\ UNCHANGED power_was_on
  /\ Publish({"regen_failed"})

RegenerationTimesOut(r) ==
  /\ Powered(r)
  /\ Running
  /\ ~force_regen_fail
  /\ regen_age >= RegenTimeout
  /\ fault_reason' = "regen_timeout"
  /\ last_regen_result' = "failed"
  /\ state' = "FAULT"
  /\ sensors' = r
  /\ UNCHANGED <<force_regen_fail, power_was_on>>
  /\ Publish({"regen_timeout"})

RegenerationCompletes(r) ==
  /\ Powered(r)
  /\ Running
  /\ ~force_regen_fail
  /\ CycleDone /\ regen_age < RegenTimeout
  /\ last_regen_result' = "completed"
  /\ state' = "MONITORING"
  /\ sensors' = [r EXCEPT !.salt_level = SaltFull, !.tds = TdsFresh]
  /\ UNCHANGED <<fault_reason, force_regen_fail, power_was_on>>
  /\ Publish({"regen_completed"})

NothingToDo(r) ==
  \/ state = "FAULT"
  \/ /\ state = "MONITORING"
     /\ r.water_pressure >= PressureMin
     /\ ~NeedsRegeneration(r)
  \/ state = "REGENERATION_REQUIRED" /\ NeedsRegeneration(r)
  \/ Running /\ ~force_regen_fail /\ regen_age < RegenTimeout /\ ~CycleDone

StateKept(r) ==
  /\ Powered(r)
  /\ NothingToDo(r)
  /\ sensors' = r
  /\ UNCHANGED <<state, fault_reason, force_regen_fail, last_regen_result, power_was_on>>
  /\ Publish({})

Evaluate(r) ==
  \/ PowerFails(r)
  \/ PowerStaysOff(r)
  \/ PowerReturns(r)
  \/ Boot(r)
  \/ LowPressure(r)
  \/ RequireRegeneration(r)
  \/ ConditionsImprove(r)
  \/ RegenerationFails(r)
  \/ RegenerationTimesOut(r)
  \/ RegenerationCompletes(r)
  \/ StateKept(r)

(* Device.tick: sample, evaluate, warn, save to disk, publish.             *)
Tick ==
  /\ \E r \in Readings(Running) : Evaluate(r)
  /\ CheckPredictive
  /\ saved' = state'
  /\ since_tick' = 0
  /\ UNCHANGED <<regen_age, forced, ota_threads>>

-----------------------------------------------------------------------------
(* Device.handle_command, one action per command.                          *)

(* Variations of the gate, each without one of its checks.                 *)
CanStartWhileRunning ==
  /\ state # "FAULT"
  /\ sensors.salt_level > SaltCritical
  /\ sensors.water_pressure >= PressureMin
  /\ sensors.power_status
CanStartWithoutSalt ==
  /\ state \notin {"REGENERATION_RUNNING", "FAULT"}
  /\ sensors.water_pressure >= PressureMin
  /\ sensors.power_status
CanStartWithoutPower ==
  /\ state \notin {"REGENERATION_RUNNING", "FAULT"}
  /\ sensors.salt_level > SaltCritical
  /\ sensors.water_pressure >= PressureMin

(* safety.can_start_regeneration                                           *)
CanStartRegeneration ==
  /\ state \notin {"REGENERATION_RUNNING", "FAULT"}
  /\ sensors.salt_level > SaltCritical
  /\ sensors.water_pressure >= PressureMin
  /\ sensors.power_status

(* Variation: the result of the cycle before is kept.                      *)
AcceptKeepingResult ==
  /\ "regenerate" \in Commands
  /\ CanStartRegeneration
  /\ state' = "REGENERATION_RUNNING"
  /\ regen_age' = 0
  /\ published' = {"accepted"}
  /\ UNCHANGED <<fault_reason, force_regen_fail, last_regen_result, power_was_on,
                 sensors, forced, warn_vars, ota_threads, since_tick, saved>>

AcceptRegeneration ==
  /\ "regenerate" \in Commands
  /\ CanStartRegeneration
  /\ state' = "REGENERATION_RUNNING"
  /\ regen_age' = 0
  /\ last_regen_result' = "none"
  /\ published' = {"accepted"}
  /\ UNCHANGED <<fault_reason, force_regen_fail, power_was_on, sensors, forced,
                 warn_vars, ota_threads, since_tick, saved>>

RejectRegeneration ==
  /\ "regenerate" \in Commands
  /\ ~CanStartRegeneration
  /\ published' = {"rejected"}
  /\ UNCHANGED <<fsm_vars, sensors, forced, warn_vars, ota_threads, since_tick, saved>>

ToggleFlag(flag) ==
  /\ flag \in Commands
  /\ forced' = IF flag \in forced THEN forced \ {flag} ELSE forced \cup {flag}
  /\ published' = {"debug"}
  /\ UNCHANGED <<fsm_vars, sensors, warn_vars, ota_threads, since_tick, saved>>

ToggleRegenFail ==
  /\ "force_regen_fail" \in Commands
  /\ force_regen_fail' = ~force_regen_fail
  /\ published' = {"debug"}
  /\ UNCHANGED <<state, fault_reason, last_regen_result, power_was_on, regen_age,
                 sensors, forced, warn_vars, ota_threads, since_tick, saved>>

(* Variation: the reset also recovers the state machine.                   *)
ResetDebugToMonitoring ==
  /\ "reset_debug" \in Commands
  /\ forced' = {}
  /\ force_regen_fail' = FALSE
  /\ state' = "MONITORING"
  /\ published' = {"debug_reset"}
  /\ UNCHANGED <<fault_reason, last_regen_result, power_was_on, regen_age,
                 sensors, warn_vars, ota_threads, since_tick, saved>>

ResetDebug ==
  /\ "reset_debug" \in Commands
  /\ forced' = {}
  /\ force_regen_fail' = FALSE
  /\ published' = {"debug_reset"}
  /\ UNCHANGED <<state, fault_reason, last_regen_result, power_was_on, regen_age,
                 sensors, warn_vars, ota_threads, since_tick, saved>>

OtaUpdate ==
  /\ "ota_update" \in Commands
  /\ ota_threads < MaxOta
  /\ ota_threads' = ota_threads + 1
  /\ published' = {"ota_started"}
  /\ UNCHANGED <<fsm_vars, sensors, forced, warn_vars, since_tick, saved>>

UnknownCommand ==
  /\ "unknown" \in Commands
  /\ published' = {"unknown"}
  /\ UNCHANGED <<fsm_vars, sensors, forced, warn_vars, ota_threads, since_tick, saved>>

(* Variation: the update also resets the edge detector of the power.       *)
OtaCompleteResetsEdge ==
  /\ ota_threads > 0
  /\ ota_threads' = ota_threads - 1
  /\ state' = "MONITORING"
  /\ power_was_on' = TRUE
  /\ forced' = {}
  /\ published' = {"ota_complete"}
  /\ UNCHANGED <<fault_reason, force_regen_fail, last_regen_result, regen_age,
                 sensors, warn_vars, since_tick, saved>>

(* run_ota, after its sleeps: the only lines of it that touch the device.  *)
OtaComplete ==
  /\ ota_threads > 0
  /\ ota_threads' = ota_threads - 1
  /\ state' = "MONITORING"
  /\ forced' = {}
  /\ published' = {"ota_complete"}
  /\ UNCHANGED <<fault_reason, force_regen_fail, last_regen_result, power_was_on,
                 regen_age, sensors, warn_vars, since_tick, saved>>

-----------------------------------------------------------------------------
(* Variation: the saved state is resumed.                                  *)
RestartResuming ==
  /\ state' = IF saved \in States THEN saved ELSE "IDLE"
  /\ fault_reason' = "none"
  /\ force_regen_fail' = FALSE
  /\ last_regen_result' = "none"
  /\ power_was_on' = TRUE
  /\ regen_age' = NeverStarted
  /\ sensors' = PowerOnSensors
  /\ forced' = {}
  /\ salt_warn_age' = SaltWarnGap + 1
  /\ no_flow_age' = NoFlowGap + 1
  /\ ota_threads' = 0
  /\ since_tick' = 0
  /\ published' = {}
  /\ saved' \in {saved, "corrupt"}

(* The process ends (Ctrl-C, end of console input, a real power cut) and   *)
(* is started again.  Its threads are daemons and die with it.  Device()   *)
(* reads device_state.json only to log what it finds.  save_state truncates*)
(* the file before it writes, so a crash inside it leaves no valid JSON.   *)
Restart ==
  /\ state' = "IDLE"
  /\ fault_reason' = "none"
  /\ force_regen_fail' = FALSE
  /\ last_regen_result' = "none"
  /\ power_was_on' = TRUE
  /\ regen_age' = NeverStarted
  /\ sensors' = PowerOnSensors
  /\ forced' = {}
  /\ salt_warn_age' = SaltWarnGap + 1
  /\ no_flow_age' = NoFlowGap + 1
  /\ ota_threads' = 0
  /\ since_tick' = 0
  /\ published' = {}
  /\ saved' \in {saved, "corrupt"}

Older(age, limit) == IF age < limit THEN age + 1 ELSE age

TimePasses ==
  /\ since_tick < MaxTickGap
  /\ since_tick' = since_tick + 1
  /\ regen_age' = IF regen_age = NeverStarted THEN NeverStarted
                  ELSE Older(regen_age, RegenTimeout)
  /\ salt_warn_age' = Older(salt_warn_age, SaltWarnGap + 1)
  /\ no_flow_age' = Older(no_flow_age, NoFlowGap + 1)
  /\ published' = {}
  /\ UNCHANGED <<state, fault_reason, force_regen_fail, last_regen_result,
                 power_was_on, sensors, forced, ota_threads, saved>>

Next ==
  \/ Tick
  \/ AcceptRegeneration
  \/ RejectRegeneration
  \/ \E flag \in DebugFlags : ToggleFlag(flag)
  \/ ToggleRegenFail
  \/ ResetDebug
  \/ OtaUpdate
  \/ UnknownCommand
  \/ OtaComplete
  \/ Restart
  \/ TimePasses

(* telemetry_loop runs for ever and survives any exception of tick();      *)
(* nobody has to send a command, finish an OTA or restart the process.     *)
Spec == Init /\ [][Next]_vars /\ WF_vars(Tick) /\ WF_vars(TimePasses)

-----------------------------------------------------------------------------
(* PROPERTIES                                                              *)

SensorValues ==
  [salt_level : Nat, water_pressure : PressureFloor..PressureMax,
   tds : TdsFloor..TdsMax, power_status : BOOLEAN, water_flow : {0, 1}]

(* Every variable of the three objects keeps the type the code gives it.   *)
TypeOK ==
  /\ state \in States
  /\ fault_reason \in FaultReasons \cup {"none"}
  /\ force_regen_fail \in BOOLEAN
  /\ last_regen_result \in {"none", "completed", "failed"}
  /\ power_was_on \in BOOLEAN
  /\ regen_age \in {NeverStarted} \cup 0..RegenTimeout
  /\ sensors \in SensorValues
  /\ forced \subseteq DebugFlags
  /\ salt_warn_age \in 0..(SaltWarnGap + 1)
  /\ no_flow_age \in 0..(NoFlowGap + 1)
  /\ ota_threads \in 0..MaxOta
  /\ since_tick \in 0..MaxTickGap
  /\ published \subseteq Events \cup {"telemetry"}
  /\ saved \in States \cup {"no_file", "corrupt"}

(* Between handlers, the edge detector of StateMachine and the power       *)
(* sensor agree, so no edge of the power is ever missed; and "power        *)
(* failure" is the reported reason exactly while the power is off.  Both   *)
(* hold although an OTA thread may reset the state in an outage.           *)
PowerEdgeInStep ==
  /\ power_was_on = sensors.power_status
  /\ fault_reason = "power_failure" <=> ~power_was_on

(* No cycle ever runs on a device that has sensed a power failure, and a   *)
(* running cycle always has a start time, without which evaluate() raises, *)
(* and no result yet.                                                      *)
RunningIsPowered ==
  Running => /\ sensors.power_status
             /\ regen_age # NeverStarted
             /\ last_regen_result = "none"

(* A device in FAULT can always say why.                                   *)
FaultHasReason == state = "FAULT" => fault_reason # "none"

(* Once the salt is at or below the critical mark outside a cycle, it      *)
(* stays there, and no cycle can start, until the process restarts: the    *)
(* only code that refills salt is the end of a cycle, and the gate refuses *)
(* a cycle for lack of salt.  No debug reset helps, whatever README.md:249 *)
(* says (ResetRecovers below).                                             *)
OutOfSalt == ~Running /\ sensors.salt_level <= SaltCritical
LowSaltLockout == [][OutOfSalt => OutOfSalt' \/ Restart]_vars

(* When the last tick ran, a cycle that is still running was not yet due:  *)
(* the age it had then was less than its full duration.                    *)
CycleFresh == Running => regen_age - since_tick < RegenDuration

(* These three together: what a state says of itself is sound.             *)
StateSound == RunningIsPowered /\ FaultHasReason /\ CycleFresh

(* The watchdog of the cycle fires only when the telemetry loop itself was *)
(* late by more than RegenTimeout - RegenDuration: any tick in between     *)
(* completes the cycle.                                                    *)
WatchdogNeedsStall ==
  [][fault_reason' = "regen_timeout" /\ fault_reason # "regen_timeout"
       => since_tick > RegenTimeout - RegenDuration]_vars

(* A fault is left only by the return of the power after an outage, by a   *)
(* completed OTA update or by a restart; in particular no command leaves   *)
(* it, reset_debug included (ResetRecovers below), and no sensor reading   *)
(* but the power does.                                                     *)
FaultLatched ==
  [][state = "FAULT" /\ state' # "FAULT"
       => \/ ~sensors.power_status /\ sensors'.power_status
          \/ OtaComplete
          \/ Restart]_vars

(* The "no water flow" alert is raised only by the tick that completes a   *)
(* cycle: on any other tick that ends in MONITORING the flow is positive.  *)
NoFlowOnlyAfterCycle ==
  [][("no_flow" \in published' /\ published' # published) => Running]_vars

(* The event stream tells of every entry into FAULT, with the reason that  *)
(* telemetry then carries, and never tells of one that did not happen.     *)
FaultAnnounced ==
  [][/\ (state # "FAULT" /\ state' = "FAULT") => fault_reason' \in published'
     /\ \A reason \in FaultReasons :
          reason \in published' \ published => state' = "FAULT" /\ fault_reason' = reason]_vars

(* The event stream is truthful: of faults, and of a lack of flow.         *)
EventsTruthful == FaultAnnounced /\ NoFlowOnlyAfterCycle

(* Each cycle is accounted for when it ends: completed after its full      *)
(* duration and not forced to fail; failed, in FAULT; or cut short, with   *)
(* no result, by a power failure, an OTA update or a restart.              *)
CycleAccounted ==
  [][Running /\ ~Running' =>
       \/ /\ last_regen_result' = "completed" /\ state' = "MONITORING"
          /\ regen_age >= RegenDuration /\ ~force_regen_fail
       \/ last_regen_result' = "failed" /\ state' = "FAULT"
       \/ /\ last_regen_result' = "none"
          /\ fault_reason' = "power_failure" \/ OtaComplete \/ Restart]_vars

(* No cycle runs for ever, whatever commands arrive.                       *)
CycleEnds == Running ~> ~Running

(* When an outage is over the device resumes by itself.                    *)
PowerRecovers ==
  (~sensors.power_status /\ "force_power_failure" \notin forced)
    ~> ((sensors.power_status /\ state # "FAULT") \/ "force_power_failure" \in forced)

(* The device implements its lifecycle, in which a reboot starts over      *)
(* (what the documents say of it: RestartResumes below).                   *)
L == INSTANCE Lifecycle WITH phase <- state, powered <- sensors.power_status,
                             brine <- (sensors.salt_level > SaltCritical)
ImplementsLifecycle == L!Spec

-----------------------------------------------------------------------------
(* WHAT THE REPOSITORY SAYS OF THE DEVICE, where the code does otherwise   *)

(* simulator.py:136: "No-flow warning (only in MONITORING, power on,       *)
(* non-regen)".                                                            *)
NoFlowOnlyWithoutCycle ==
  [][("no_flow" \in published' /\ published' # published) => ~Running]_vars

(* README.md:249: "Click Reset Debug Conditions -> salt recovers -> safety *)
(* checks pass"; state_machine.py:133: FAULT "stays here until manually    *)
(* recovered via reset_debug or power cycle"; architecture.md:86: "FAULT   *)
(* --> MONITORING : reset_debug command".  So, of a device that is in      *)
(* FAULT and out of salt, a reset should in the end mend at least one.     *)
ResetRecovers ==
  published = {"debug_reset"} ~> (state # "FAULT" \/ sensors.salt_level > SaltCritical)

(* persistance.py:3: "device resumes last known state on reboot";          *)
(* Submission_Report.md:109: "Close the simulator console during a cycle,  *)
(* and restart it.  The system automatically reads device_state.json and   *)
(* resumes."                                                               *)
RestartResumes == [][Restart /\ saved = "REGENERATION_RUNNING" => Running']_vars
=============================================================================
