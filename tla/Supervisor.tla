----------------------------- MODULE Supervisor -----------------------------
(***************************************************************************)
(* The manager as the supervisor of its own state: the devices fail and    *)
(* recover, the pilot flies, the operator gives commands, and every tick   *)
(* reads all of it, judges it with the safety monitor and stops, returns   *)
(* or goes on.  The transitions the commands and the tick ask for are      *)
(* decided by the transition guards, over the same reading.                *)
(*                                                                         *)
(* A command that moves the mechanism is as many steps as it changes       *)
(* state; the ticks come between.  The gate of the ground-arm              *)
(* authorization, the F446 protocol, the LowCmd owner and the landing      *)
(* itself have modules of their own; here a call of theirs is one step     *)
(* with each of its outcomes: a stop or a revoke may fail at any time.     *)
(***************************************************************************)
EXTENDS SafetyRules

CONSTANTS
    Faults,     \* the defects the devices may have, one at a time
    Configs     \* what is enabled: "sport", "comply" or "lowcmd"

ASSUME SupervisorAssumption ==
    /\ Faults \subseteq Defect
    /\ Configs \subseteq {"sport", "comply", "lowcmd"}

VARIABLES
    config, mode,
    bad, air, stick,    \* the devices, the vehicle and the pilot
    motor,              \* what the F446 does
    manual,             \* the positioning session: mark, motion, direction
    confirmed,          \* the operator's word on the shape
    legs,               \* the posture the Go2 reports
    owner,              \* who has the legs: "sport", "lowcmd", or on the way "back"
    eased,              \* history: the legs gave way and have not locked since
    vouched,            \* _operator_joint_lock_confirmed
    authorized,         \* a ground-arm authorization lives
    guided,             \* the Pixhawk's external control: "off", "engaged", "sending"
    codes               \* _active_violations, by kind

vehicle == <<bad, air, stick>>
mechanism == <<motor, manual, confirmed>>
go2 == <<legs, owner, eased>>
entered == <<mode, manual, confirmed, vouched, authorized>>

vars == <<config, mode, vehicle, mechanism, go2, vouched, authorized, guided, codes>>

(* An output that was told to stop, or to give up the legs, did not.       *)
StopFailures ==
    {"AUTOLAND_SETPOINT_STOP_FAILED", "GO2_LOWCMD_REVOKE_FAILED",
     "SUPERVISED_STOP_FAILED"}

(* Of the active violations: seen by the last tick, or kept for a reason.  *)
Kinds ==
    {"SEEN", "STICKY", "INVALID_STATE_TRANSITION", "AUTOLAND_CONTROLLER_TIMEOUT"}
      \cup StopFailures

(* last: the direction of the last motion, "none" before the first; stale  *)
(* (history): a motion was known to start since the mark.                  *)
Session == [mark : Shape \cup {"NONE"}, last : {"FWD", "REV", "none"},
            stale : BOOLEAN]

NoSession == [mark |-> "NONE", last |-> "none", stale |-> FALSE]

Word == [shape : Shape \cup {"NONE"}, stale : BOOLEAN]

NoWord == [shape |-> "NONE", stale |-> FALSE]

TypeOK ==
    /\ config \in Configs /\ mode \in SystemState \ {"EMERGENCY_STOP"}
    /\ bad \in SUBSET Faults /\ air \in Air
    /\ stick \in {"manual", "ready", "execute", "override"}
    /\ motor \in Motor /\ manual \in Session
    /\ confirmed \in Word
    /\ legs \in Legs /\ owner \in {"sport", "lowcmd", "back"}
    /\ eased \in BOOLEAN /\ vouched \in BOOLEAN /\ authorized \in BOOLEAN
    /\ guided \in {"off", "engaged", "sending"} /\ codes \in SUBSET Kinds

(* Who commands the legs, as far as it can be proven.                      *)
Authority ==
    IF owner = "lowcmd" THEN "HOLD"
    ELSE IF legs = "lock" /\ {"go2", "state_code"} \cap bad = {} THEN "LOCK"
    ELSE IF owner = "back" THEN "REACQUIRING" ELSE "UNKNOWN"

(* The snapshot, as a refresh would take it.  Set points count as active   *)
(* from the first one sent until a stop of them has succeeded.             *)
Reading ==
    [state |-> mode, lowLevel |-> config = "lowcmd",
     compliance |-> config = "comply", bad |-> bad, air |-> air,
     stick |-> stick, request |-> TRUE, motor |-> motor,
     confirmed |-> confirmed.shape, legs |-> legs, vouched |-> vouched,
     auth |-> Authority,
     authorized |-> authorized, setpoint |-> guided = "sending",
     codes |-> codes]

Init ==
    /\ config \in Configs /\ mode = "BOOT_SAFE"
    /\ bad = {} /\ air = "parked" /\ stick = "manual"
    /\ motor \in {"IDLE", "REACHED_FWD", "REACHED_REV"}
    /\ manual = NoSession /\ confirmed = NoWord
    /\ legs \in {"lock", "stand"} /\ owner = "sport"
    /\ eased = FALSE /\ vouched = FALSE /\ authorized = FALSE
    /\ guided = "off" /\ codes = {}

-----------------------------------------------------------------------------
(* The vehicle.  What a refresh drops with a device is dropped with it.    *)

Breaks ==
    /\ bad = {}
    /\ \E d \in Faults :
          /\ bad' = {d}
          /\ confirmed' = IF d = "f446" THEN NoWord ELSE confirmed
          /\ manual' = IF d = "f446" THEN [manual EXCEPT !.mark = "NONE"] ELSE manual
          /\ motor' = IF d = "f446_fault" THEN "IDLE" ELSE motor
          /\ vouched' = (vouched /\ d # "go2")
    /\ UNCHANGED <<config, mode, air, stick, go2, authorized, guided, codes>>

(* A fault of the F446 is ended by a command, never during a motion.       *)
Mends ==
    /\ bad # {} /\ bad' = {}
    /\ "f446_fault" \in bad => mode \notin ACTIVE_TRANSFORM_STATES
    /\ UNCHANGED <<config, mode, air, stick, mechanism, go2, vouched, authorized, guided,
                   codes>>

(* What the Pixhawk reports stands still while its streams are stale.      *)
Flies ==
    /\ {"heartbeat", "landed_state", "carried"} \cap bad = {}
    /\ air' \in CASE air = "parked" -> {"running"}
                  [] air = "running" -> {"parked", "flying"}
                  [] air = "flying" -> {"running"}
    /\ stick' = IF air' = "parked" THEN "manual" ELSE stick
    /\ UNCHANGED <<config, mode, bad, mechanism, go2, vouched, authorized, guided, codes>>

(* CH10 and the override switch are looked at in flight.                   *)
Flicks ==
    /\ air # "parked" /\ mode \in AutolandStates \cup {"FLIGHT_MANUAL"}
    /\ stick' \in {"manual", "ready", "execute", "override"} \ {stick}
    /\ UNCHANGED <<config, mode, bad, air, mechanism, go2, vouched, authorized, guided,
                   codes>>

(* The joint lock is chosen, or left, on the phone.                        *)
Phone ==
    /\ owner # "lowcmd"
    /\ legs' = IF legs = "lock" THEN "stand" ELSE "lock"
    /\ eased' = (eased /\ legs' # "lock")
    /\ UNCHANGED <<config, mode, vehicle, mechanism, owner, vouched, authorized, guided,
                   codes>>

(* Sport is in control again: it has reported the lock - or the deadline   *)
(* for its report has passed.                                              *)
Returns ==
    /\ owner = "back" /\ owner' = "sport"
    /\ UNCHANGED <<config, mode, vehicle, mechanism, legs, eased, vouched,
                   authorized, guided, codes>>

(* A limit motion ends at the endpoint.  A position the firmware reports   *)
(* replaces the operator's word.                                           *)
Stalls ==
    /\ mode \notin {"HOMING_TO_WALK", "TRANSFORM_TO_FLIGHT", "TRANSFORM_TO_WALK"}
    /\ motor \in {"LIMIT_FWD", "LIMIT_REV"}
    /\ motor' = IF motor = "LIMIT_FWD" THEN "REACHED_FWD" ELSE "REACHED_REV"
    /\ confirmed' = NoWord
    /\ UNCHANGED <<config, mode, vehicle, manual, go2, vouched, authorized, guided, codes>>

-----------------------------------------------------------------------------
(* Transitions. *)

(* The entry actions, as far as they change what is modelled here.         *)
Enter(to) ==
    /\ mode' = to
    /\ manual' = IF to \in {"BOOT_SAFE", "MANUAL_POSITIONING", "WALK", "FAULT",
                            "FLIGHT_READY", "GO2_JOINT_LOCK_WAIT",
                            "GO2_GROUND_HANDOVER"}
                 THEN NoSession ELSE manual
    /\ confirmed' = IF to \in {"BOOT_SAFE", "FAULT"} THEN NoWord ELSE confirmed
    /\ vouched' = (vouched /\ to \notin
                      {"BOOT_SAFE", "MANUAL_POSITIONING", "WALK", "FAULT",
                       "GO2_JOINT_LOCK_WAIT", "LANDING_COMPLIANT"})
    /\ authorized' = FALSE

(* A refused transition is a violation of its own.                         *)
Refused ==
    /\ codes' = codes \cup {"INVALID_STATE_TRANSITION"}
    /\ UNCHANGED entered

Asks(to) ==
    IF GuardPermits(Reading, to) THEN Enter(to) /\ UNCHANGED codes ELSE Refused

(* The F446 stopped - or the stop failed.                                  *)
Stopped == {motor, IF Duty(Reading) THEN "IDLE" ELSE motor}

(* _fault, with a code that the next tick forgets, or does not.            *)
Condemned(code) == Enter("FAULT") /\ codes' = codes \cup {code}

-----------------------------------------------------------------------------
(* The tick. *)

TakeoverCodes ==
    {"AUTOLAND_ESTIMATOR_INVALID", "PIXHAWK_TIMEOUT",
     "PIXHAWK_TOUCHDOWN_SOURCE_INCOHERENT", "PIXHAWK_TOUCHDOWN_SOURCE_STALE",
     "PIXHAWK_TOUCHDOWN_PAYLOAD_INVALID", "RC_FAILSAFE", "RC_TIMEOUT"}

(* Mutant: the loss of the RC link escalates like any other violation. *)
EscalatesRcLoss ==
    {"AUTOLAND_CONTROLLER_TIMEOUT", "MANUAL_OVERRIDE_REQUESTED"}
      \cup (TakeoverCodes \ {"RC_TIMEOUT"})

non_escalating_codes ==
    {"AUTOLAND_CONTROLLER_TIMEOUT", "MANUAL_OVERRIDE_REQUESTED"} \cup TakeoverCodes

(* Until Sport has sent a sample after the handover, it may be silent.     *)
expected_handover_wait_codes(sampled) ==
    {"RC_TIMEOUT", "RC_FAILSAFE"}
      \cup (IF sampled THEN {}
            ELSE {"GO2_TIMEOUT", "GO2_UNSAFE_DURING_GROUND_HANDOVER"})

(* The violations that end the state the reading is taken in; graced: the  *)
(* transient of the phone's lock is still tolerated.                       *)
Escalating(s, graced, sampled) ==
    LET blocking == Blocking(evaluate(s))
                      \ (IF graced THEN {"GO2_UNSAFE_DURING_JOINT_LOCK"} ELSE {})
    IN  CASE s.state \in {"BOOT_SAFE", "FAULT"} -> {}
          [] s.state \in TRANSFORM_STATES -> blocking
          [] s.state = "GO2_GROUND_HANDOVER" ->
               blocking \ expected_handover_wait_codes(sampled)
          [] OTHER -> blocking \ non_escalating_codes

(* The pilot gets the vehicle back before anything else is looked at.      *)
TakesOver(s) ==
    /\ s.state \in AutolandStates
    /\ \/ Failsafe(s) \/ evaluate(s) \cap TakeoverCodes # {}
       \/ s.state = "AUTO_LANDING_READY" /\ s.stick \in {"override", "manual"}

(* Nothing in the reading ends its state, with all the patience there is.  *)
Calm(s) == ~TakesOver(s) /\ Escalating(s, TRUE, FALSE) = {}

(* What is not raised again is forgotten, but for the sticky codes.        *)
Updated(s) ==
    LatchedViolations(s) \cup (s.codes \cap {"STICKY"})
      \cup (IF evaluate(s) \subseteq LatchedViolations(s) THEN {} ELSE {"SEEN"})

(* Until the pilot arms, the authorization lives on a ground proof.        *)
Proven == authorized /\ (Armed(Reading) \/ GroundProof(Reading))

(* What the tick judges, and what it leaves for the guards.                *)
Ticked == [Reading EXCEPT !.authorized = Proven]
Judged == [Ticked EXCEPT !.codes = Updated(Ticked)]

(* A violation that ends the state: stop, as far as it goes, then FAULT.   *)
TickFaults ==
    /\ ~TakesOver(Ticked)
    /\ Escalating(Ticked, FALSE, TRUE) # {}
    /\ Enter("FAULT") /\ codes' = Judged.codes \cup {"SEEN"}
    /\ motor' \in Stopped /\ guided' \in {guided, "off"}
    /\ UNCHANGED <<config, vehicle, go2>>

(* The end of an abort.  The transition is asked for with the override     *)
(* switch read as set; a refusal is a fault.                               *)
FinishesAbort(s, seen) ==
    IF GuardPermits([s EXCEPT !.stick = "override"], "FLIGHT_MANUAL")
    THEN Enter("FLIGHT_MANUAL") /\ codes' = seen
    ELSE Enter("FAULT") /\ codes' = seen \cup {"SEEN", "INVALID_STATE_TRANSITION"}

(* The fallback mode of a guided Pixhawk is not confirmed - most likely so *)
(* without its heartbeat.  FAULT tries once more as it is entered.         *)
SetpointStopFails(from, seen) ==
    /\ from # "off" /\ guided' \in {from, "off"}
    /\ Enter("FAULT") /\ codes' = seen \cup {"AUTOLAND_SETPOINT_STOP_FAILED"}

(* The set points stop, and the owner of the legs does not answer.         *)
LowCmdRevokeFails(seen) ==
    /\ owner = "lowcmd" /\ guided' = "off"
    /\ Enter("FAULT") /\ codes' = seen \cup {"GO2_LOWCMD_REVOKE_FAILED"}

AbortsFrom(s, from, seen) ==
    \/ guided' = "off" /\ FinishesAbort(s, seen)
    \/ SetpointStopFails(from, seen)
    \/ LowCmdRevokeFails(seen)

(* The landing ends: a lost input, the pilot, the interlock of the set     *)
(* points, a command that is not valid or not taken, a mode the Pixhawk    *)
(* left, or a controller that is late.                                     *)
TickAborts ==
    /\ mode \in AutolandStates
    /\ \/ TakesOver(Ticked) /\ AbortsFrom(Judged, guided, Judged.codes)
       \/ /\ mode = "AUTO_LANDING" /\ Calm(Ticked)
          /\ \E late \in SUBSET {"AUTOLAND_CONTROLLER_TIMEOUT"} :
                AbortsFrom(Judged, guided, Judged.codes \cup late)
    /\ UNCHANGED <<config, vehicle, motor, go2>>

(* What the tick asks for by itself; a refusal is a failure of the         *)
(* monitor, and a fault.                                                   *)
TickAsks(to) ==
    /\ Calm(Ticked)
    /\ IF GuardPermits(Judged, to)
       THEN Enter(to) /\ codes' = Judged.codes
       ELSE Enter("FAULT") /\ codes' = Judged.codes \cup {"SEEN", "INVALID_STATE_TRANSITION"}
    /\ UNCHANGED <<config, vehicle, motor, go2, guided>>

(* Armed under an authorization; disarmed before take-off.                 *)
TickFollowsPilot ==
    \/ mode = "FLIGHT_READY" /\ Armed(Ticked) /\ Proven /\ TickAsks("FLIGHT_MANUAL")
    \/ /\ mode = "FLIGHT_MANUAL" /\ ~Armed(Ticked) /\ Landed(Ticked)
       /\ Fresh(Ticked, "heartbeat") /\ TickAsks("FLIGHT_READY")

(* Touchdown, after its dwell; its conditions include those of the guard.  *)
(* The LowCmd owner is put on hold first, and the set points are stopped.  *)
TickLands ==
    /\ mode \in {"FLIGHT_MANUAL", "AUTO_LANDING"} /\ Calm(Ticked)
    /\ GuardPermits(Judged, "TOUCHDOWN_VERIFY")
    /\ \/ guided' = "off" /\ Enter("TOUCHDOWN_VERIFY") /\ codes' = Judged.codes
       \/ SetpointStopFails(guided, Judged.codes)
       \/ mode = "FLIGHT_MANUAL" /\ LowCmdRevokeFails(Judged.codes)
    /\ UNCHANGED <<config, vehicle, motor, go2>>

(* Feet on the ground, rotors still: the legs give way - or lock again.    *)
TickComplies ==
    /\ mode = "TOUCHDOWN_VERIFY" /\ Calm(Ticked)
    /\ landing_compliance_entry_result(Judged)
    /\ \/ /\ GuardPermits(Judged, "LANDING_COMPLIANT")
          /\ Enter("LANDING_COMPLIANT") /\ codes' = Judged.codes
          /\ legs' = "balance" /\ eased' = TRUE
       \/ /\ Enter("FAULT") /\ codes' = Judged.codes \cup {"SEEN"}
          /\ legs' \in {"lock", "balance"} /\ eased' = (eased \/ legs' = "balance")
    /\ UNCHANGED <<config, vehicle, motor, owner, guided>>

(* The wait for the joint lock ends with the lock, or in FAULT.            *)
TickWaits ==
    /\ mode \in {"GO2_JOINT_LOCK_WAIT", "GO2_GROUND_HANDOVER"} /\ Calm(Ticked)
    /\ \/ /\ joints_locked(Judged) /\ Go2Stationary(Judged)
          /\ mode = "GO2_GROUND_HANDOVER" => Authority = "LOCK"
          /\ GuardPermits(Judged, "FLIGHT_READY")
          /\ Enter("FLIGHT_READY") /\ codes' = Judged.codes
       \/ Enter("FAULT") /\ codes' = Judged.codes \cup {"SEEN"}
    /\ UNCHANGED <<config, vehicle, motor, go2, guided>>

(* The violations are brought up to date; a landing is sent its next set   *)
(* point, or none any more after its touchdown.                            *)
TickRests ==
    /\ Calm(Ticked)
    /\ ~(mode = "FLIGHT_READY" /\ Armed(Ticked) /\ Proven)
    /\ codes' = Judged.codes /\ authorized' = Proven
    /\ guided' \in IF mode = "AUTO_LANDING" THEN {"sending", "off"} ELSE {guided}
    /\ UNCHANGED <<config, mode, vehicle, mechanism, go2, vouched>>

(* The gate does not acknowledge the revoke that leaving FLIGHT_READY asks *)
(* for, whoever leaves it, or the one for a ground proof that was lost.    *)
RevokeFails ==
    /\ mode = "FLIGHT_READY"
    /\ \/ /\ \E to \in SystemState \ SafetyStates : GuardPermits(Reading, to)
          /\ UNCHANGED codes
       \/ Armed(Ticked) /\ Proven /\ Calm(Ticked) /\ codes' = Judged.codes
       \/ authorized /\ ~Proven /\ codes' = codes \cup {"SEEN"}
    /\ Enter("FAULT")
    /\ UNCHANGED <<config, vehicle, motor, go2, guided>>

Tick ==
    \/ TickFaults \/ TickAborts \/ TickFollowsPilot \/ TickLands
    \/ TickComplies \/ TickWaits \/ TickRests \/ RevokeFails

-----------------------------------------------------------------------------
(* Starting and ending operation. *)

(* connect: the shape the F446 reports is adopted.                         *)
Adopt ==
    /\ mode = "BOOT_SAFE"
    /\ \/ Configuration(Reading) = "WALK" /\ Asks("WALK")
       \/ /\ Configuration(Reading) = "FLIGHT"
          /\ Asks(IF joints_locked(Reading) THEN "FLIGHT_READY" ELSE "GO2_JOINT_LOCK_WAIT")
    /\ UNCHANGED <<config, vehicle, motor, go2, guided>>

(* disconnect: no operation is left behind.                                *)
Disconnect ==
    /\ mode \in {"WALK", "FLIGHT_READY"}
    /\ ~OwnershipPending(Reading)
    /\ require_fresh_devices(Reading, {"heartbeat", "landed_state", "f446", "go2"})
    /\ ~Armed(Reading) /\ Landed(Reading) /\ assess_esc_telemetry(Reading)
    /\ ~Duty(Reading) /\ ~Faulted(Reading)
    /\ Asks("BOOT_SAFE")
    /\ UNCHANGED <<config, vehicle, motor, go2, guided>>

(* fault clear: only the manager's faults are cleared, and none that lasts.*)
Clearable(s) ==
    ~OwnershipPending(s) /\ ~Faulted(s) /\ Blocking(evaluate(s)) = {}

Forgiven(s) == [s EXCEPT !.codes = {}]

(* BOOT_SAFE stops the set points as it is entered; where that fails, the  *)
(* state is FAULT again, with nothing on record.                           *)
ClearFault ==
    /\ Clearable(Reading)
    /\ \/ mode # "FAULT" /\ codes' = {} /\ UNCHANGED <<entered, guided>>
       \/ /\ mode = "FAULT" /\ GuardPermits(Forgiven(Reading), "BOOT_SAFE")
          /\ codes' = {}
          /\ \/ Enter("BOOT_SAFE") /\ guided' = "off"
             \/ guided # "off" /\ Enter("FAULT") /\ UNCHANGED guided
       \/ /\ mode = "FAULT" /\ ~GuardPermits(Forgiven(Reading), "BOOT_SAFE")
          /\ codes' = {"INVALID_STATE_TRANSITION"} /\ UNCHANGED <<entered, guided>>
    /\ UNCHANGED <<config, vehicle, motor, go2>>

-----------------------------------------------------------------------------
(* Positioning by hand. *)

StationaryDwelt == Fresh(Reading, "go2") /\ Go2Stationary(Reading)

(* The current has been within its margin for the hold time.               *)
CurrentHeld == {"f446", "margin"} \cap bad = {}

Dwelt == StationaryDwelt /\ CurrentHeld

EnterManual ==
    /\ mode \in {"BOOT_SAFE", "WALK", "FLIGHT_READY", "TOUCHDOWN_VERIFY"}
    /\ Dwelt /\ Asks("MANUAL_POSITIONING")
    /\ UNCHANGED <<config, vehicle, motor, go2, guided>>

(* Landing compliance ends with a wait for the joint lock, whichever       *)
(* command asked to leave it; the command is given again after it.         *)
LeaveCompliance ==
    /\ mode = "LANDING_COMPLIANT"
    /\ landing_compliance_hold_result(Reading)
    /\ Asks("GO2_JOINT_LOCK_WAIT")
    /\ UNCHANGED <<config, vehicle, motor, go2, guided>>

ExitManual ==
    /\ mode = "MANUAL_POSITIONING"
    /\ \/ /\ motor' = IF Duty(Reading) THEN "IDLE" ELSE motor
          /\ LET after == [Reading EXCEPT !.motor = motor', !.confirmed = "NONE"]
             IN  IF GuardPermits(after, "BOOT_SAFE")
                 THEN Enter("BOOT_SAFE") /\ UNCHANGED codes
                 ELSE /\ codes' = codes \cup {"INVALID_STATE_TRANSITION"}
                      /\ manual' = NoSession /\ confirmed' = NoWord
                      /\ UNCHANGED <<mode, vouched, authorized>>
       \/ UNCHANGED <<entered, motor, codes>>
    /\ UNCHANGED <<config, vehicle, go2, guided>>

(* Mutant: a motion that has started leaves the mark alone. *)
KeepsMark(d) == [manual EXCEPT !.last = d]

Started(d) == [NoSession EXCEPT !.last = d]

(* motor mf, mr, limf and limr: the motion starts, is not accepted by the  *)
(* firmware in time, or the bridge fails.                                  *)
StartMotion ==
    \E op \in {"MANUAL", "LIMIT"}, d \in {"FWD", "REV"} :
        LET turns == IF op = "MANUAL"
                     THEN IF d = "FWD" THEN "MANUAL_FWD" ELSE "MANUAL_REV"
                     ELSE IF d = "FWD" THEN "LIMIT_FWD" ELSE "LIMIT_REV"
        IN  /\ manual_motion_guard(Reading) /\ Dwelt
            /\ \/ /\ motor' = turns
                  /\ manual' = [Started(d) EXCEPT !.stale = Started(d).mark # "NONE"]
                  /\ confirmed' = NoWord
                  /\ UNCHANGED <<mode, vouched, authorized, codes>>
               \/ /\ motor' = turns
                  /\ UNCHANGED <<entered, codes>>
               \/ /\ motor' \in {"IDLE", turns} /\ Condemned("SEEN")
            /\ UNCHANGED <<config, vehicle, go2, guided>>

(* What an endpoint is asked before it is marked, and again before it is   *)
(* accepted: the mechanism rests, not at the other limit, and came from    *)
(* the right side.                                                         *)
validate_manual_configuration_target(t) ==
    /\ ~Duty(Reading)
    /\ manual.last \in {"none", direction_for(t)}
    /\ F446State(Reading) \in {"IDLE", expected_state_for(t)}
    /\ manual_motion_guard(Reading) /\ Dwelt

(* The operator's word stands only where the firmware knows nothing.       *)
Vouches(t, stale) ==
    confirmed' = IF FirmwareShape(Reading) # {} THEN NoWord
                 ELSE [shape |-> t, stale |-> stale]

Mark ==
    \E t \in Shape :
        /\ mode = "MANUAL_POSITIONING" /\ validate_manual_configuration_target(t)
        /\ manual' = [manual EXCEPT !.mark = t, !.stale = FALSE]
        /\ Vouches(t, FALSE)
        /\ UNCHANGED <<config, mode, vehicle, motor, go2, vouched, authorized, guided,
                       codes>>

ConfirmShape ==
    \E t \in Shape :
        LET after == [Reading EXCEPT !.confirmed = t]
            to == IF t = "WALK" THEN "WALK" ELSE "GO2_JOINT_LOCK_WAIT"
        IN  /\ mode = "MANUAL_POSITIONING" /\ manual.mark = t
            /\ validate_manual_configuration_target(t)
            /\ IF GuardPermits(after, to)
               THEN /\ mode' = to /\ manual' = NoSession
                    /\ vouched' = FALSE /\ authorized' = FALSE
                    /\ Vouches(t, manual.stale) /\ UNCHANGED codes
               ELSE /\ codes' = codes \cup {"INVALID_STATE_TRANSITION"}
                    /\ confirmed' = NoWord
                    /\ UNCHANGED <<mode, manual, vouched, authorized>>
            /\ UNCHANGED <<config, vehicle, motor, go2, guided>>

-----------------------------------------------------------------------------
(* The transforms: what a command does until it next awaits. *)

(* A refusal inside a transform command ends it in FAULT.                  *)
AsksOrFaultsOn(s, to) ==
    IF GuardPermits(s, to) THEN Enter(to) /\ UNCHANGED codes
    ELSE Enter("FAULT") /\ codes' = codes \cup {"SEEN", "INVALID_STATE_TRANSITION"}

AsksOrFaults(to) == AsksOrFaultsOn(Reading, to)

HomeWalk ==
    /\ mode = "BOOT_SAFE" /\ Configuration(Reading) = "UNKNOWN" /\ Dwelt
    /\ AsksOrFaults("HOMING_TO_WALK")
    /\ UNCHANGED <<config, vehicle, motor, go2, guided>>

TransformFlight ==
    /\ mode = "WALK" /\ CurrentHeld
    /\ \E asked \in BOOLEAN :
          AsksOrFaultsOn([Reading EXCEPT !.request = asked], "WALK_TO_FLIGHT_PRECHECK")
    /\ UNCHANGED <<config, vehicle, motor, go2, guided>>

TransformWalk ==
    /\ \/ mode = "FLIGHT_READY"
       \/ mode = "TOUCHDOWN_VERIFY" /\ config # "comply"
    /\ CurrentHeld /\ AsksOrFaults("FLIGHT_TO_WALK_PRECHECK")
    /\ UNCHANGED <<config, vehicle, motor, go2, guided>>

(* The second look: the mechanism starts, or the command waits for a dwell.*)
Precheck ==
    /\ mode \in TRANSFORM_PRECHECK_STATES
    /\ LET forth == mode = "WALK_TO_FLIGHT_PRECHECK"
       IN  IF Dwelt
           THEN AsksOrFaults(IF forth THEN "TRANSFORM_TO_FLIGHT" ELSE "TRANSFORM_TO_WALK")
           ELSE AsksOrFaults(IF forth THEN "WALK" ELSE "FLIGHT_READY")
    /\ UNCHANGED <<config, vehicle, motor, go2, guided>>

(* The bridge turns the mechanism; ticks see the direction.                *)
Turns ==
    /\ mode \in {"HOMING_TO_WALK", "TRANSFORM_TO_FLIGHT", "TRANSFORM_TO_WALK"}
    /\ ~Duty(Reading) /\ Fresh(Reading, "f446")
    /\ motor' = IF mode = "TRANSFORM_TO_FLIGHT" THEN "LIMIT_FWD" ELSE "LIMIT_REV"
    /\ confirmed' = [confirmed EXCEPT !.stale = @ \/ confirmed.shape # "NONE"]
    /\ UNCHANGED <<config, mode, vehicle, manual, go2, vouched, authorized, guided, codes>>

(* The endpoint is verified - or the command fails, and stops.             *)
Arrives ==
    /\ mode \in {"HOMING_TO_WALK", "TRANSFORM_TO_FLIGHT", "TRANSFORM_TO_WALK"}
    /\ LET t == IF mode = "TRANSFORM_TO_FLIGHT" THEN "FLIGHT" ELSE "WALK"
           to == IF t = "WALK" THEN "WALK" ELSE "GO2_JOINT_LOCK_WAIT"
       IN  \/ /\ motor \in {"LIMIT_FWD", "LIMIT_REV"}
              /\ motor' = expected_state_for(t)
              /\ IF GuardPermits([Reading EXCEPT !.motor = motor'], to)
                 THEN /\ mode' = to /\ manual' = NoSession /\ confirmed' = NoWord
                      /\ vouched' = FALSE /\ authorized' = FALSE /\ UNCHANGED codes
                 ELSE Condemned("STICKY")
           \/ motor' \in Stopped /\ Condemned("STICKY")
    /\ UNCHANGED <<config, vehicle, go2, guided>>

-----------------------------------------------------------------------------
(* The legs, the authorization and the landing. *)

(* go2 confirm-lock: the operator sees what the Go2 does not report.       *)
ConfirmLock ==
    /\ mode = "GO2_JOINT_LOCK_WAIT" /\ ~joints_locked(Reading)
    /\ Fresh(Reading, "state_code")
    /\ can_enter_flight_ready([Reading EXCEPT !.vouched = TRUE])
    /\ IF GuardPermits([Reading EXCEPT !.vouched = TRUE], "FLIGHT_READY")
       THEN /\ mode' = "FLIGHT_READY" /\ manual' = NoSession /\ authorized' = FALSE
            /\ vouched' = TRUE /\ eased' = FALSE /\ UNCHANGED <<confirmed, codes>>
       ELSE Condemned("SEEN") /\ UNCHANGED eased
    /\ UNCHANGED <<config, vehicle, motor, legs, owner, guided>>

(* What a change of the legs' commander asks for on the ground.            *)
lowcmd_ground_transfer_result ==
    /\ GroundProof(Reading) /\ RotorsStopped(Reading)
    /\ Fresh(Reading, "f446") /\ AtEndpoint(Reading, "FLIGHT") /\ ~Faulted(Reading)
    /\ Fresh(Reading, "lowstate")
    /\ owner # "lowcmd" => StationaryDwelt

Acquire ==
    /\ config = "lowcmd" /\ mode = "FLIGHT_READY" /\ owner # "lowcmd"
    /\ lowcmd_ground_transfer_result /\ joints_locked(Reading)
    /\ owner' = "lowcmd"
    /\ UNCHANGED <<config, mode, vehicle, mechanism, legs, eased, vouched,
                   authorized, guided, codes>>

(* Sport has the legs back, and must report the lock anew.                 *)
Release ==
    /\ owner = "lowcmd" /\ mode \in {"FLIGHT_READY", "TOUCHDOWN_VERIFY", "FAULT"}
    /\ lowcmd_ground_transfer_result
    /\ owner' = "back" /\ legs' = "stand"
    /\ IF mode # "TOUCHDOWN_VERIFY"
       THEN authorized' = FALSE /\ UNCHANGED <<mode, manual, confirmed, vouched, codes>>
       ELSE AsksOrFaultsOn([Reading EXCEPT !.auth = "REACQUIRING", !.legs = "stand"],
                           "GO2_GROUND_HANDOVER")
    /\ UNCHANGED <<config, vehicle, motor, eased, guided>>

Authorize ==
    /\ mode = "FLIGHT_READY" /\ GroundProof(Reading)
    /\ config = "lowcmd" => Authority = "HOLD" /\ {"owner", "lowstate"} \cap bad = {}
    /\ can_enter_flight_ready(Reading)
    /\ authorized' = TRUE
    /\ UNCHANGED <<config, mode, vehicle, mechanism, go2, vouched, guided, codes>>

Revoke ==
    /\ authorized /\ authorized' = FALSE
    /\ UNCHANGED <<config, mode, vehicle, mechanism, go2, vouched, guided, codes>>

PrepareAutoland ==
    /\ mode = "FLIGHT_MANUAL" /\ Asks("AUTO_LANDING_READY")
    /\ UNCHANGED <<config, vehicle, motor, go2, guided>>

(* With LowCmd no landing starts.  A refused one leaves the external mode  *)
(* again; a permitted one sends its first set point, or is aborted over it.*)
StartAutoland ==
    /\ mode = "AUTO_LANDING_READY" /\ config # "lowcmd"
    /\ IF GuardPermits(Reading, "AUTO_LANDING")
       THEN \/ Enter("AUTO_LANDING") /\ guided' = "sending" /\ UNCHANGED codes
            \/ \E late \in SUBSET {"AUTOLAND_CONTROLLER_TIMEOUT"} :
                  AbortsFrom([Reading EXCEPT !.state = "AUTO_LANDING"],
                             "engaged", codes \cup late)
       ELSE \/ Refused /\ guided' = "off"
            \/ SetpointStopFails("engaged", codes \cup {"INVALID_STATE_TRANSITION"})
    /\ UNCHANGED <<config, vehicle, motor, go2>>

(* From anywhere; what is no landing is left as it is.                     *)
AbortAutoland ==
    /\ IF mode \in AutolandStates
       THEN AbortsFrom(Reading, guided, codes)
       ELSE \/ guided' = "off" /\ UNCHANGED <<entered, codes>>
            \/ SetpointStopFails(guided, codes)
            \/ LowCmdRevokeFails(codes)
    /\ UNCHANGED <<config, vehicle, motor, go2>>

-----------------------------------------------------------------------------
(* The stops, from any state. *)

AllStopped == guided' = "off" /\ (Duty(Reading) => motor' = "IDLE")

(* Some output did not stop, or the gate or the Go2 did not answer: FAULT, *)
(* where the state is not FAULT already.                                   *)
StopFails ==
    /\ guided' \in {guided, "off"}
    /\ IF mode = "FAULT" THEN UNCHANGED <<entered, codes>>
       ELSE Condemned("SUPERVISED_STOP_FAILED")

(* transform stop, motor stop, and the deadline of a manual motion: the    *)
(* F446 and the set points.                                                *)
StopTransform ==
    /\ motor' \in Stopped
    /\ \/ AllStopped /\ mode \notin TRANSFORM_STATES \ {"MANUAL_POSITIONING"}
          /\ UNCHANGED <<entered, codes>>
       \/ StopFails
    /\ UNCHANGED <<config, vehicle, go2>>

(* The same of a transform, or Ctrl-C: it has failed in any case.          *)
InterruptTransform ==
    /\ mode \in TRANSFORM_STATES \ {"MANUAL_POSITIONING"}
    /\ motor' \in Stopped /\ Condemned("SEEN")
    /\ UNCHANGED <<config, vehicle, go2, guided>>

(* stop: the arm gate, the F446, the set points, LowCmd and the Go2.  A    *)
(* landing is aborted, and a transform that was under way is a fault.      *)
StopSupervised ==
    /\ motor' \in Stopped
    /\ \/ /\ AllStopped
          /\ CASE mode \in AutolandStates -> FinishesAbort(Reading, codes)
               [] mode \in TRANSFORM_STATES \ {"MANUAL_POSITIONING"} -> Condemned("SEEN")
               [] OTHER -> authorized' = FALSE
                             /\ UNCHANGED <<mode, manual, confirmed, vouched, codes>>
       \/ StopFails
    /\ UNCHANGED <<config, vehicle, go2>>

Command ==
    \/ Adopt \/ Disconnect \/ ClearFault
    \/ EnterManual \/ LeaveCompliance \/ ExitManual \/ StartMotion
    \/ Mark \/ ConfirmShape
    \/ HomeWalk \/ TransformFlight \/ TransformWalk \/ Precheck \/ Turns \/ Arrives
    \/ ConfirmLock \/ Acquire \/ Release \/ Authorize \/ Revoke
    \/ PrepareAutoland \/ StartAutoland \/ AbortAutoland
    \/ StopTransform \/ InterruptTransform \/ StopSupervised

Vehicle == Breaks \/ Mends \/ Flies \/ Flicks \/ Phone \/ Returns \/ Stalls

Next == Vehicle \/ Tick \/ Command

Spec == Init /\ [][Next]_vars

-----------------------------------------------------------------------------
(* The monitor, with all the patience it has, would leave the state alone. *)
Settled(s) == Escalating(s, TRUE, FALSE) = {}

(* Two gaps between guard and monitor: homing asks for no proof of the     *)
(* ground, and leaving FLIGHT_READY or BOOT_SAFE does not ask whether      *)
(* Sport has the legs back.                                                *)
KnownGap == mode' = "HOMING_TO_WALK" \/ Authority' = "REACQUIRING"

EntersSettled ==
    mode' # mode /\ mode' # "FAULT" /\ Settled(Reading) /\ ~KnownGap
      => Settled(Reading)'

(* No command and no tick enters a state whose entry the guard allows and  *)
(* whose first tick the monitor condemns on the very same readings: the    *)
(* two encode one set of conditions in separate code.                      *)
NoFalseAlarm == [][EntersSettled]_vars

(* What the pilot needs least to fly: the companion's own view of them.    *)
PilotInputs ==
    {"heartbeat", "landed_state", "kinematics", "payload", "skew", "estimate",
     "px_failsafe", "rc", "rc_failsafe", "ch5"}

InFlight ==
    /\ mode \in AutolandStates \cup {"FLIGHT_MANUAL"} /\ air = "flying"
    /\ Configuration(Reading) = "FLIGHT" /\ ~Duty(Reading)
    /\ IF config = "lowcmd" THEN owner = "lowcmd" ELSE legs = "lock"

(* Who did not do as told: the Pixhawk a landing guides, the owner of the  *)
(* legs, or some output when the operator gave a stop.                     *)
Excuses ==
    (IF mode \in AutolandStates THEN {"AUTOLAND_SETPOINT_STOP_FAILED"} ELSE {})
      \cup (IF owner = "lowcmd" THEN {"GO2_LOWCMD_REVOKE_FAILED"} ELSE {})
      \cup {"SUPERVISED_STOP_FAILED"}

KeepsPilot ==
    InFlight /\ bad \subseteq PilotInputs /\ mode' = "FAULT"
      => (codes' \ codes) \cap Excuses # {}

(* In the air, neither the loss of RC, of the Pixhawk's streams or of the  *)
(* estimate nor any command of the operator or the pilot is of itself the  *)
(* end of a flight: it goes on as FLIGHT_MANUAL, and becomes FAULT only    *)
(* where a stop or a revoke it asked for has failed - the stop of a        *)
(* landing's set points, a revoke of LowCmd that holds the legs, a stop    *)
(* the operator gave.                                                      *)
PilotKeepsControl == [][KeepsPilot]_vars

(* A fault is no dead end: with the devices well, the vehicle parked, the  *)
(* motor at rest and Sport in command, fault clear leads to BOOT_SAFE once *)
(* the set points are stopped, and they alone keep it from being accepted  *)
(* - if no landing controller was late, which nothing clears.              *)
FaultIsClearable ==
    /\ mode = "FAULT" /\ bad = {} /\ air = "parked" /\ owner # "lowcmd"
    /\ ~Duty(Reading) /\ "AUTOLAND_CONTROLLER_TIMEOUT" \notin codes
    => LET silent == [Reading EXCEPT !.setpoint = FALSE]
       IN  /\ Clearable(silent) /\ GuardPermits(Forgiven(silent), "BOOT_SAFE")
           /\ Clearable(Reading) <=> guided # "sending"

(* A shape that rests on the operator's word alone is never outdated by a  *)
(* motion the manager knows of, be it a manual one, a transform, or one    *)
(* that a stop or a fault cut short.                                       *)
ShapeIsCurrent == OperatorShape(Reading) # {} => ~confirmed.stale

(* The F446 folds the legs in only after they have locked again.           *)
RelockedFirst == mode = "TRANSFORM_TO_WALK" => ~eased

(* What the manager starts from has been seen since it last changed.       *)
StartIsFounded == ShapeIsCurrent /\ RelockedFirst
=============================================================================
