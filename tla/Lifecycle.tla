----------------------------- MODULE Lifecycle -----------------------------
(***************************************************************************)
(* What the softener promises, without sensors, timers, commands or files: *)
(* the five states and their edges (README.md, "Device State Machine"),    *)
(* whether the mains are on, and whether there is brine, i.e. a salt level *)
(* above the critical mark.                                                *)
(*                                                                         *)
(* The promise is in what the actions cannot do.  Only Start enters a      *)
(* cycle, and only with mains and brine.  Only a finished cycle or a       *)
(* reboot brings brine back.  Losing the mains always ends in FAULT.       *)
(***************************************************************************)
EXTENDS Naturals

VARIABLES phase, powered, brine

lvars == <<phase, powered, brine>>

Phases == {"IDLE", "MONITORING", "REGENERATION_REQUIRED",
           "REGENERATION_RUNNING", "FAULT"}

Init ==
  /\ phase = "IDLE"
  /\ powered = TRUE
  /\ brine = TRUE

(* Salt is only consumed.                                                  *)
Wear == brine' \in {FALSE, brine}

(* Where one powered sample may lead.                                      *)
Successors ==
  [p \in Phases |->
     CASE p = "IDLE"                  -> {"MONITORING"}
       [] p = "MONITORING"            -> {"MONITORING", "REGENERATION_REQUIRED", "FAULT"}
       [] p = "REGENERATION_REQUIRED" -> {"REGENERATION_REQUIRED", "MONITORING"}
       [] p = "REGENERATION_RUNNING"  -> {"REGENERATION_RUNNING", "FAULT"}
       [] p = "FAULT"                 -> {"FAULT"}]

Sample ==
  /\ powered
  /\ Wear
  /\ phase' \in Successors[phase]
  /\ (phase \in {"MONITORING", "REGENERATION_REQUIRED"} /\ phase' = "MONITORING") => brine'
  /\ UNCHANGED powered

Start ==
  /\ powered
  /\ brine
  /\ phase \in {"IDLE", "MONITORING", "REGENERATION_REQUIRED"}
  /\ phase' = "REGENERATION_RUNNING"
  /\ UNCHANGED <<powered, brine>>

Finish ==
  /\ powered
  /\ phase = "REGENERATION_RUNNING"
  /\ phase' = "MONITORING"
  /\ brine' = TRUE
  /\ UNCHANGED powered

PowerCut ==
  /\ powered
  /\ powered' = FALSE
  /\ phase' = "FAULT"
  /\ UNCHANGED brine

PowerBack ==
  /\ ~powered
  /\ powered' = TRUE
  /\ phase' = "MONITORING"
  /\ Wear

(* A firmware update ends in MONITORING wherever it finds the device.      *)
Reflash ==
  /\ phase' = "MONITORING"
  /\ UNCHANGED <<powered, brine>>

Reboot ==
  /\ phase' = "IDLE"
  /\ powered' = TRUE
  /\ brine' = TRUE

Next == Sample \/ Start \/ Finish \/ PowerCut \/ PowerBack \/ Reflash \/ Reboot

Spec == Init /\ [][Next]_lvars
=============================================================================
