---------------------------- MODULE SystemStates ----------------------------
(***************************************************************************)
(* The top-level states of the AeroGo2 manager and the edge table every    *)
(* transition is checked against before any of its guards is looked at.    *)
(***************************************************************************)

SystemState ==
    {"MANUAL_POSITIONING", "BOOT_SAFE", "HOMING_TO_WALK", "WALK",
     "WALK_TO_FLIGHT_PRECHECK", "TRANSFORM_TO_FLIGHT", "GO2_JOINT_LOCK_WAIT",
     "FLIGHT_READY", "FLIGHT_MANUAL", "AUTO_LANDING_READY", "AUTO_LANDING",
     "TOUCHDOWN_VERIFY", "GO2_GROUND_HANDOVER", "LANDING_COMPLIANT",
     "FLIGHT_TO_WALK_PRECHECK", "TRANSFORM_TO_WALK", "FAULT",
     "EMERGENCY_STOP"}

(* The states an unconditional safety edge leads to. *)
SafetyStates == {"FAULT", "EMERGENCY_STOP"}

ALLOWED_TRANSITIONS ==
    [s \in SystemState |->
        CASE s = "BOOT_SAFE" ->
               {"MANUAL_POSITIONING", "HOMING_TO_WALK", "WALK",
                "FLIGHT_READY", "GO2_JOINT_LOCK_WAIT", "FAULT"}
          [] s = "MANUAL_POSITIONING" ->
               {"BOOT_SAFE", "WALK", "FLIGHT_READY", "GO2_JOINT_LOCK_WAIT"}
                 \cup SafetyStates
          [] s = "HOMING_TO_WALK" -> {"WALK"} \cup SafetyStates
          [] s = "WALK" ->
               {"MANUAL_POSITIONING", "BOOT_SAFE", "WALK_TO_FLIGHT_PRECHECK"}
                 \cup SafetyStates
          [] s = "WALK_TO_FLIGHT_PRECHECK" ->
               {"TRANSFORM_TO_FLIGHT", "WALK"} \cup SafetyStates
          [] s = "TRANSFORM_TO_FLIGHT" ->
               {"GO2_JOINT_LOCK_WAIT"} \cup SafetyStates
          [] s = "GO2_JOINT_LOCK_WAIT" -> {"FLIGHT_READY"} \cup SafetyStates
          [] s = "FLIGHT_READY" ->
               {"MANUAL_POSITIONING", "BOOT_SAFE", "FLIGHT_MANUAL",
                "FLIGHT_TO_WALK_PRECHECK", "LANDING_COMPLIANT"}
                 \cup SafetyStates
          [] s = "FLIGHT_MANUAL" ->
               {"FLIGHT_READY", "AUTO_LANDING_READY", "TOUCHDOWN_VERIFY",
                "FLIGHT_TO_WALK_PRECHECK"} \cup SafetyStates
          [] s = "AUTO_LANDING_READY" ->
               {"AUTO_LANDING", "FLIGHT_MANUAL"} \cup SafetyStates
          [] s = "AUTO_LANDING" ->
               {"TOUCHDOWN_VERIFY", "FLIGHT_MANUAL"} \cup SafetyStates
          [] s = "TOUCHDOWN_VERIFY" ->
               {"MANUAL_POSITIONING", "FLIGHT_MANUAL",
                "FLIGHT_TO_WALK_PRECHECK", "LANDING_COMPLIANT",
                "GO2_GROUND_HANDOVER"} \cup SafetyStates
          [] s = "GO2_GROUND_HANDOVER" -> {"FLIGHT_READY"} \cup SafetyStates
          [] s = "LANDING_COMPLIANT" ->
               {"MANUAL_POSITIONING", "GO2_JOINT_LOCK_WAIT", "FLIGHT_READY"}
                 \cup SafetyStates
          [] s = "FLIGHT_TO_WALK_PRECHECK" ->
               {"TRANSFORM_TO_WALK", "FLIGHT_READY"} \cup SafetyStates
          [] s = "TRANSFORM_TO_WALK" -> {"WALK"} \cup SafetyStates
          [] s = "FAULT" -> {"BOOT_SAFE", "EMERGENCY_STOP"}
          [] s = "EMERGENCY_STOP" -> {"FAULT", "BOOT_SAFE"}]

TRANSFORM_PRECHECK_STATES ==
    {"WALK_TO_FLIGHT_PRECHECK", "FLIGHT_TO_WALK_PRECHECK"}

ACTIVE_TRANSFORM_STATES ==
    {"MANUAL_POSITIONING", "HOMING_TO_WALK", "TRANSFORM_TO_FLIGHT",
     "TRANSFORM_TO_WALK"}

TRANSFORM_STATES ==
    TRANSFORM_PRECHECK_STATES \cup ACTIVE_TRANSFORM_STATES
      \cup {"GO2_JOINT_LOCK_WAIT"}

(* The states a live or ambiguous Go2 LowCmd ownership may coexist with. *)
LowCmdOwnershipAllowedStates ==
    {"FLIGHT_READY", "FLIGHT_MANUAL", "AUTO_LANDING_READY", "AUTO_LANDING",
     "TOUCHDOWN_VERIFY"} \cup SafetyStates

(* The states whose entry runs an action of the manager. *)
EntryStates ==
    {"BOOT_SAFE", "MANUAL_POSITIONING", "WALK", "FLIGHT_READY",
     "GO2_JOINT_LOCK_WAIT", "GO2_GROUND_HANDOVER", "LANDING_COMPLIANT",
     "FAULT", "EMERGENCY_STOP"}
=============================================================================
