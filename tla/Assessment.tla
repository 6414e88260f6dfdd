----------------------------- MODULE Assessment -----------------------------
(***************************************************************************)
(* How one sample of the device is judged along the pipeline: by the gate  *)
(* on the device (device/safety.py), by the alerts and the health score    *)
(* the backend derives (Storage in backend/main.py), and by the safety     *)
(* panel and the sensor cards of the dashboard (dashboard.js).  Each       *)
(* repeats the thresholds, and all but the gate see salt as                *)
(* SensorModel.as_dict has rounded it.                                     *)
(*                                                                         *)
(* Units: sample.salt_level in 1/100 percent, salt_level_pct in 1/10       *)
(* percent, pressure in 1/100 bar, tds in 1/10 ppm, flow in 1/100 L/min.   *)
(***************************************************************************)
EXTENDS Integers

CONSTANTS
  Salts, Pressures, Hardnesses,   \* the readings that are explored
  Flows                           \* and those of the flow while water runs

ASSUME ReadingsAssumption ==
  /\ Salts \subseteq Nat /\ Pressures \subseteq Nat /\ Hardnesses \subseteq Nat
  /\ Flows \subseteq 700..900       \* 8 L/min and a noise of 1
  /\ Salts # {} /\ Pressures # {} /\ Hardnesses # {} /\ Flows # {}

VARIABLES
  sample,      \* the device's readings and state in the last message stored
  telemetry,   \* Storage.telemetry
  alerts       \* the ids in Storage.alerts
avars == <<sample, telemetry, alerts>>

Nothing == <<>>                     \* the empty dictionary: no message yet
Arrived == telemetry # Nothing

(* What a tick may publish (Device!Tick), never IDLE.  The flow is sampled *)
(* before the state machine moves on: it is 0 in an outage and in a cycle, *)
(* and still so in the tick that ends the cycle, in MONITORING or FAULT.   *)
SampledStates == {"MONITORING", "REGENERATION_REQUIRED", "REGENERATION_RUNNING", "FAULT"}

Samples ==
  {s \in [salt_level : Salts, water_pressure : Pressures, tds : Hardnesses,
          water_flow : Flows \cup {0}, power_status : BOOLEAN, state : SampledStates] :
     /\ ~s.power_status => s.water_flow = 0
     /\ s.state = "REGENERATION_RUNNING" => s.power_status /\ s.water_flow = 0
     /\ s.state = "REGENERATION_REQUIRED" =>
          s.power_status /\ s.water_flow # 0 /\ (s.salt_level <= 1500 \/ s.tds >= 5000)
     /\ s.state = "MONITORING" /\ s.power_status /\ s.water_flow = 0 =>
          s.salt_level = 9000 /\ s.tds = 1500}     \* the cycle completed

-----------------------------------------------------------------------------
(* SensorModel.as_dict: salt is rounded to one decimal.  Which way a tie   *)
(* goes depends on its binary representation.                              *)
Rounded(salt) == {t \in (salt \div 10)..(salt \div 10 + 1) :
                    10 * t - salt <= 5 /\ salt - 10 * t <= 5}

Payloads(s) ==
  [salt_level_pct : Rounded(s.salt_level), water_pressure_bar : {s.water_pressure},
   tds_ppm : {s.tds}, water_flow_lpm : {s.water_flow},
   power_status : {s.power_status}, state : {s.state}]

(* Storage._refresh_alerts                                                 *)
AlertsOf(t) ==
  UNION {IF t.salt_level_pct <= 150 THEN {"LOW_SALT"}
         ELSE IF t.salt_level_pct <= 250 THEN {"SALT_WARN"} ELSE {},
         IF t.tds_ppm >= 5000 THEN {"HIGH_TDS"} ELSE {},
         IF t.water_pressure_bar < 100 THEN {"LOW_PRESSURE"} ELSE {},
         IF ~t.power_status THEN {"POWER_FAIL"} ELSE {},
         IF t.state = "FAULT" THEN {"FAULT"} ELSE {}}

(* Storage.get_health_score, for a telemetry that has arrived.             *)
SaltDeduction(pct) ==
  IF pct <= 150 THEN 35 ELSE IF pct <= 300 THEN 20 ELSE IF pct <= 500 THEN 8 ELSE 0
TdsDeductionLess(ppm) ==          \* variation: 15 for 25
  IF ppm >= 5000 THEN 10 ELSE IF ppm >= 3500 THEN 12 ELSE 0
TdsDeduction(ppm) == IF ppm >= 5000 THEN 25 ELSE IF ppm >= 3500 THEN 12 ELSE 0
PressureDeduction(bar) == IF bar < 100 THEN 20 ELSE IF bar < 150 THEN 10 ELSE 0

Clamp(score) == IF score < 0 THEN 0 ELSE IF score > 100 THEN 100 ELSE score

Score(t) ==
  Clamp(100 - SaltDeduction(t.salt_level_pct) - TdsDeduction(t.tds_ppm)
            - PressureDeduction(t.water_pressure_bar)
            - (IF t.state = "FAULT" THEN 30 ELSE 0)
            - (IF ~t.power_status THEN 20 ELSE 0))

Grade(score) ==
  IF score >= 85 THEN "Excellent" ELSE IF score >= 70 THEN "Good"
  ELSE IF score >= 50 THEN "Fair" ELSE IF score >= 30 THEN "Poor" ELSE "Critical"

(* safety.can_start_regeneration, on the sample the payload was made from. *)
GateAccepts(s) ==
  /\ s.state \notin {"REGENERATION_RUNNING", "FAULT"}
  /\ s.salt_level > 1500
  /\ s.water_pressure >= 100
  /\ s.power_status

(* Variation: the panel accepts the critical mark itself.                  *)
PanelPassesAtMark(t) ==
  /\ t.salt_level_pct >= 150
  /\ t.water_pressure_bar >= 100
  /\ t.power_status
  /\ t.state # "FAULT" /\ t.state # "REGENERATION_RUNNING"

(* dashboard.js, updateSafety: the four checks, on the telemetry shown.    *)
PanelPasses(t) ==
  /\ t.salt_level_pct > 150
  /\ t.water_pressure_bar >= 100
  /\ t.power_status
  /\ t.state # "FAULT" /\ t.state # "REGENERATION_RUNNING"

(* dashboard.js, loadDashboard's calls of colorSensor: the cards shown as  *)
(* critical.                                                               *)
RedCards(t) ==
  UNION {IF t.salt_level_pct < 150 THEN {"LOW_SALT"} ELSE {},
         IF t.tds_ppm > 5000 THEN {"HIGH_TDS"} ELSE {},
         IF t.water_pressure_bar < 100 THEN {"LOW_PRESSURE"} ELSE {},
         IF t.water_flow_lpm < 50 THEN {"LOW_FLOW"} ELSE {}}

-----------------------------------------------------------------------------
(* Storage.__init__                                                        *)
JudgementInit ==
  /\ sample = Nothing
  /\ telemetry = Nothing
  /\ alerts = {}

(* Storage.update_telemetry: the next message, whatever was lost between.  *)
UpdateTelemetry ==
  /\ sample' \in Samples
  /\ telemetry' \in Payloads(sample')
  /\ alerts' = AlertsOf(telemetry')

JudgementSpec == JudgementInit /\ [][UpdateTelemetry]_avars

-----------------------------------------------------------------------------
(* PROPERTIES                                                              *)

(* Whatever makes the device fault or ask for a regeneration is an active  *)
(* alert, and an alert is wrong only by the rounding of the salt level.    *)
AlertsFaithful == Arrived =>
  /\ sample.salt_level <= 1500 => "LOW_SALT" \in alerts
  /\ "LOW_SALT" \in alerts => sample.salt_level <= 1505
  /\ "HIGH_TDS" \in alerts <=> sample.tds >= 5000
  /\ "LOW_PRESSURE" \in alerts <=> sample.water_pressure < 100
  /\ "POWER_FAIL" \in alerts <=> ~sample.power_status
  /\ "FAULT" \in alerts <=> sample.state = "FAULT"

(* Grade and alert list agree: no alert is active on a device graded       *)
(* Excellent, and one without alerts is never graded Poor or Critical.     *)
GradeAgrees == Arrived =>
  /\ Grade(Score(telemetry)) = "Excellent" => alerts = {}
  /\ alerts = {} => Grade(Score(telemetry)) \in {"Excellent", "Good", "Fair"}

(* The score never rises when nothing has got better.                      *)
NoBetter(t, u) ==
  /\ u.salt_level_pct <= t.salt_level_pct
  /\ u.tds_ppm >= t.tds_ppm
  /\ u.water_pressure_bar <= t.water_pressure_bar
  /\ u.power_status => t.power_status
  /\ t.state = "FAULT" => u.state = "FAULT"
ScoreMonotone ==
  [][Arrived /\ NoBetter(telemetry, telemetry') => Score(telemetry') <= Score(telemetry)]_avars

(* When the dashboard's panel passes, the gate would have accepted a cycle *)
(* on that sample; it fails on an acceptable sample only within the        *)
(* rounding just above the critical salt mark.                             *)
PanelSound == Arrived =>
  /\ PanelPasses(telemetry) => GateAccepts(sample)
  /\ GateAccepts(sample) /\ ~PanelPasses(telemetry) => sample.salt_level <= 1505

(* A red card of salt, hardness or pressure always has its alert, and an   *)
(* alert lacks its red card only when the value sits exactly on the        *)
(* threshold.  The flow card has no alert of its own: it is red whenever   *)
(* the power alert is active, and otherwise only for a cycle: one under    *)
(* way, whatever the alerts, or one that ended in that very tick, with the *)
(* fault alert, or refilled and with no alert but that of the pressure.    *)
CardsAgree == Arrived =>
  /\ RedCards(telemetry) \subseteq alerts \cup {"LOW_FLOW"}
  /\ \A id \in {"LOW_SALT", "HIGH_TDS", "LOW_PRESSURE"} :
       id \in alerts \ RedCards(telemetry) =>
         \/ id = "LOW_SALT" /\ telemetry.salt_level_pct = 150
         \/ id = "HIGH_TDS" /\ telemetry.tds_ppm = 5000
  /\ "POWER_FAIL" \in alerts \/ sample.state = "REGENERATION_RUNNING"
       => "LOW_FLOW" \in RedCards(telemetry)
  /\ "LOW_FLOW" \in RedCards(telemetry) /\ "POWER_FAIL" \notin alerts =>
       \/ sample.state = "REGENERATION_RUNNING"
       \/ "FAULT" \in alerts
       \/ alerts \subseteq {"LOW_PRESSURE"}

(* None of the five judgements of a sample contradicts another.            *)
JudgementsAgree == AlertsFaithful /\ GradeAgrees /\ PanelSound /\ CardsAgree
=============================================================================
