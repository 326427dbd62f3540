---------------------------- MODULE SafetyRules -----------------------------
(***************************************************************************)
(* What the manager concludes from one reading of its devices: the         *)
(* violations its safety monitor raises, the conditions its transition     *)
(* guards and interlocks ask for.  The two are separate pieces of code     *)
(* over the same reading; Supervisor composes them.                        *)
(*                                                                         *)
(* A reading s is a record:                                                *)
(*   state      the manager's state                                        *)
(*   lowLevel, compliance    what the configuration enables                *)
(*   bad        what is wrong with the devices, a set of Defects           *)
(*   air        parked, running or flying, as the Pixhawk last reported    *)
(*   stick      CH10: manual, ready, execute - or the override switch      *)
(*   request    CH9 asks for FLIGHT                                        *)
(*   motor      what the F446 reports: idle, reached or moving             *)
(*   confirmed  the endpoint the operator has confirmed, or "NONE"         *)
(*   legs       the Go2's posture                                          *)
(*   vouched    the operator has vouched for the joint lock                *)
(*   auth       who commands the legs                                      *)
(*   authorized the ground-arm authorization lives                         *)
(*   setpoint   an external setpoint is active                             *)
(*   codes      the violations that were active before                     *)
(***************************************************************************)
EXTENDS SystemStates

Defect ==
    {"heartbeat", "landed_state", "kinematics", "payload", "skew", "carried",
     "estimate", "px_failsafe", "esc", "rc", "rc_failsafe", "ch5", "ch5_high",
     "f446", "f446_fault", "f446_unknown", "margin", "overcurrent",
     "go2", "moving", "unsteady", "state_code", "foot", "contact",
     "owner", "lowstate", "tracking"}

Air == {"parked", "running", "flying"}

Motor ==
    {"IDLE", "REACHED_FWD", "REACHED_REV", "MANUAL_FWD", "MANUAL_REV",
     "LIMIT_FWD", "LIMIT_REV"}

Shape == {"WALK", "FLIGHT"}

Legs == {"lock", "stand", "balance"}

Auth == {"LOCK", "ACQUIRING", "HOLD", "ACTIVE", "REACQUIRING", "UNKNOWN"}

(* Which way the mechanism turns towards a shape, and where it stops.      *)
direction_for(t) == IF t = "FLIGHT" THEN "FWD" ELSE "REV"

expected_state_for(t) == IF t = "FLIGHT" THEN "REACHED_FWD" ELSE "REACHED_REV"

-----------------------------------------------------------------------------
(* The reading. *)

Fresh(s, source) == source \notin s.bad

require_fresh_devices(s, sources) == sources \cap s.bad = {}

Armed(s) == s.air # "parked"

Landed(s) == s.air # "flying" /\ "carried" \notin s.bad

(* Every configured ESC present, consistent, healthy - and at zero.        *)
assess_esc_telemetry(s) == "esc" \notin s.bad /\ s.air = "parked"

pixhawk_ground_state_is_current(s) == Fresh(s, "heartbeat") /\ Fresh(s, "landed_state")

TouchdownSources(s) == pixhawk_ground_state_is_current(s) /\ Fresh(s, "kinematics")

timestamps_are_coherent(s) == Fresh(s, "skew")

landing_estimate_invalid(s) == ~Fresh(s, "estimate")

(* CH5 is read twice, raw and parsed; the readings must agree.             *)
FlightEnableValid(s) == Fresh(s, "ch5")
FlightEnableHigh(s) == FlightEnableValid(s) /\ "ch5_high" \in s.bad

Failsafe(s) == {"px_failsafe", "rc_failsafe"} \cap s.bad # {}

F446Connected(s) == Fresh(s, "f446")

F446State(s) == IF "f446_unknown" \in s.bad THEN "UNKNOWN" ELSE s.motor

Duty(s) == s.motor \notin {"IDLE", "REACHED_FWD", "REACHED_REV"}

Faulted(s) == "f446_fault" \in s.bad

(* A firmware limit is authoritative; else the operator's word, while the  *)
(* motor rests.                                                            *)
FirmwareShape(s) ==
    {t \in Shape : F446State(s) = expected_state_for(t) /\ ~Faulted(s)}

OperatorShape(s) ==
    IF s.confirmed # "NONE" /\ F446Connected(s) /\ ~Faulted(s)
         /\ F446State(s) = "IDLE" /\ FirmwareShape(s) = {}
    THEN {s.confirmed} ELSE {}

Configuration(s) ==
    IF FirmwareShape(s) \cup OperatorShape(s) = {} THEN "UNKNOWN"
    ELSE CHOOSE t \in FirmwareShape(s) \cup OperatorShape(s) : TRUE

(* An attitude out of bounds is no motion while the phone locks the legs.  *)
LockTransitionUnsafe(s) == {"moving", "state_code"} \cap s.bad # {}

Go2Stationary(s) == ~LockTransitionUnsafe(s) /\ Fresh(s, "unsteady")

(* A sample with an unknown state code locks nothing.                      *)
joints_locked(s) == s.legs = "lock" /\ {"go2", "state_code"} \cap s.bad = {}

JointLockConfirmed(s) == joints_locked(s) \/ (s.vouched /\ Fresh(s, "go2"))

FootContactSafe(s) == {"foot", "contact"} \cap s.bad = {}

OwnershipPending(s) == s.auth \in {"ACQUIRING", "HOLD", "ACTIVE"}

-----------------------------------------------------------------------------
(* The safety monitor: groups of rules, each a code and when it is raised. *)

Raised(code, rule) == IF rule THEN {code} ELSE {}

AutolandStates == {"AUTO_LANDING_READY", "AUTO_LANDING"}

FlightJointLockStates ==
    {"FLIGHT_READY", "FLIGHT_MANUAL", "AUTO_LANDING_READY", "AUTO_LANDING",
     "TOUCHDOWN_VERIFY", "FLIGHT_TO_WALK_PRECHECK", "TRANSFORM_TO_WALK"}

LowCmdRequiredStates ==
    {"FLIGHT_MANUAL", "AUTO_LANDING_READY", "AUTO_LANDING", "TOUCHDOWN_VERIFY"}

TransitionPending(s) == s.auth \in {"ACQUIRING", "REACQUIRING"}

GroundProof(s) ==
    pixhawk_ground_state_is_current(s) /\ ~Armed(s) /\ Landed(s)

TransitionAuthorized(s) ==
    /\ GroundProof(s)
    /\ \/ s.auth = "ACQUIRING" /\ s.state = "FLIGHT_READY"
       \/ s.auth = "REACQUIRING"
            /\ s.state \in {"TOUCHDOWN_VERIFY", "GO2_GROUND_HANDOVER",
                            "FLIGHT_READY", "BOOT_SAFE"} \cup SafetyStates

evaluate_freshness(s) == UNION
    {Raised("PIXHAWK_TIMEOUT", ~Fresh(s, "heartbeat")),
     Raised("F446_TIMEOUT", ~F446Connected(s)),
     Raised("RC_TIMEOUT", ~Fresh(s, "rc")),
     Raised("GO2_TIMEOUT",
        /\ ~OwnershipPending(s)
        /\ ~(s.auth = "REACQUIRING" /\ TransitionAuthorized(s))
        /\ ~Fresh(s, "go2")),
     Raised("GO2_LOWSTATE_TIMEOUT", OwnershipPending(s) /\ ~Fresh(s, "lowstate"))}

(* One of the three is reported, the first that applies.                   *)
AutolandViolations(s) == IF s.state \notin AutolandStates THEN {} ELSE UNION
    {Raised("PIXHAWK_TOUCHDOWN_SOURCE_STALE", ~TouchdownSources(s)),
     Raised("PIXHAWK_TOUCHDOWN_PAYLOAD_INVALID",
        TouchdownSources(s) /\ ~Fresh(s, "payload")),
     Raised("PIXHAWK_TOUCHDOWN_SOURCE_INCOHERENT",
        TouchdownSources(s) /\ Fresh(s, "payload") /\ ~timestamps_are_coherent(s)),
     Raised("AUTOLAND_ESTIMATOR_INVALID", landing_estimate_invalid(s)),
     Raised("MANUAL_OVERRIDE_REQUESTED", s.stick = "override")}

PilotViolations(s) == UNION
    {Raised("RC_FAILSAFE", "rc_failsafe" \in s.bad),
     Raised("UNAUTHORIZED_PIXHAWK_ARM",
        s.state = "FLIGHT_READY" /\ Armed(s) /\ ~s.authorized),
     Raised("EXTERNAL_SETPOINT_OUTSIDE_AUTOLAND",
        s.setpoint /\ s.state # "AUTO_LANDING")}

(* AUTO_LANDING wants the MPC's lease, the other flight states the hold.   *)
ExpectedAuthority(s) == IF s.state = "AUTO_LANDING" THEN "ACTIVE" ELSE "HOLD"

AuthorityViolations(s) == UNION
    {Raised("GO2_LOWCMD_OUTSIDE_AUTHORIZED_STATE",
        OwnershipPending(s) /\ s.state \notin LowCmdOwnershipAllowedStates),
     Raised("GO2_CONTROL_AUTHORITY_TRANSITION_TIMEOUT",
        TransitionPending(s) /\ ~TransitionAuthorized(s)),
     Raised("GO2_LOWCMD_OWNER_UNHEALTHY",
        s.auth \in {"HOLD", "ACTIVE"} /\ ~Fresh(s, "owner")),
     Raised("GO2_LOWCMD_OWNER_MISSING",
        /\ s.lowLevel /\ s.state \in LowCmdRequiredStates
        /\ s.auth # ExpectedAuthority(s)),
     Raised("GO2_LOWCMD_MPC_INACTIVE",
        s.lowLevel /\ s.state = "AUTO_LANDING" /\ s.auth # "ACTIVE"),
     Raised("GO2_JOINT_TRACKING_ERROR",
        s.auth \in {"HOLD", "ACTIVE"} /\ ~Fresh(s, "tracking"))}

HighLevelExpected(s) ==
    /\ s.state \in FlightJointLockStates
    /\ ~OwnershipPending(s)
    /\ ~s.lowLevel \/ s.auth = "LOCK"

LockLost(s) == HighLevelExpected(s) /\ ~JointLockConfirmed(s)

JointLockViolations(s) == UNION
    {Raised("GO2_JOINT_LOCK_LOST", LockLost(s)),
     Raised("GO2_OPERATOR_LOCK_UNSAFE",
        /\ ~LockLost(s) /\ s.state \in FlightJointLockStates
        /\ ~joints_locked(s) /\ ~Go2Stationary(s)),
     Raised("GO2_CONTROL_AUTHORITY_UNKNOWN",
        /\ s.lowLevel /\ s.state \in FlightJointLockStates
        /\ ~OwnershipPending(s) /\ s.auth \notin {"LOCK", "REACQUIRING"})}

ComplianceViolations(s) == IF s.state # "LANDING_COMPLIANT" THEN {} ELSE UNION
    {Raised("PIXHAWK_GROUND_STATE_INVALID_DURING_LANDING_COMPLIANCE",
        ~pixhawk_ground_state_is_current(s) \/ ~Landed(s)),
     Raised("PIXHAWK_ARMED_DURING_LANDING_COMPLIANCE", Armed(s)),
     Raised("ESC_RPM_NONZERO_DURING_LANDING_COMPLIANCE", ~assess_esc_telemetry(s)),
     Raised("GO2_FOOT_FORCE_INVALID", "foot" \in s.bad),
     Raised("GO2_FOOT_CONTACT_LOST", "foot" \notin s.bad /\ "contact" \in s.bad),
     Raised("GO2_LANDING_COMPLIANCE_LOST", s.legs # "balance" \/ ~Go2Stationary(s))}

HandoverViolations(s) == IF s.state # "GO2_GROUND_HANDOVER" THEN {} ELSE UNION
    {Raised("GO2_HANDOVER_NOT_GROUNDED", ~GroundProof(s)),
     Raised("ESC_RPM_NONZERO_DURING_GO2_HANDOVER", ~assess_esc_telemetry(s)),
     Raised("F446_UNSAFE_DURING_GO2_HANDOVER", Duty(s) \/ Faulted(s)),
     Raised("GO2_LOWCMD_RELEASE_UNCONFIRMED", OwnershipPending(s)),
     Raised("GO2_UNSAFE_DURING_GROUND_HANDOVER", LockTransitionUnsafe(s))}

TransformViolations(s) == IF s.state \notin TRANSFORM_STATES THEN {} ELSE UNION
    {Raised("PIXHAWK_GROUND_STATE_INVALID_DURING_WALK_TRANSFORM",
        /\ s.state \in {"HOMING_TO_WALK", "FLIGHT_TO_WALK_PRECHECK",
                        "TRANSFORM_TO_WALK"}
        /\ ~pixhawk_ground_state_is_current(s) \/ ~Landed(s)),
     Raised("PIXHAWK_FAILSAFE", Failsafe(s)),
     Raised("FLIGHT_ENABLE_INVALID", ~FlightEnableValid(s)),
     Raised("FLIGHT_ENABLE_HIGH", FlightEnableHigh(s)),
     Raised("PIXHAWK_ARMED_DURING_TRANSFORM", Armed(s)),
     Raised("ESC_RPM_NONZERO_DURING_TRANSFORM",
        s.state \in ACTIVE_TRANSFORM_STATES /\ ~assess_esc_telemetry(s)),
     Raised("GO2_UNSAFE_DURING_JOINT_LOCK",
        s.state = "GO2_JOINT_LOCK_WAIT" /\ LockTransitionUnsafe(s)),
     Raised("GO2_MOVING_DURING_TRANSFORM",
        s.state # "GO2_JOINT_LOCK_WAIT" /\ ~Go2Stationary(s))}

(* While the mechanism may move, only the direction it turns in counts.    *)
active_transform_configuration_conflict(s) ==
    /\ Duty(s)
    /\ IF s.state = "MANUAL_POSITIONING"
       THEN F446State(s) = "UNKNOWN"
       ELSE F446State(s) # (IF s.state = "TRANSFORM_TO_FLIGHT"
                            THEN "LIMIT_FWD" ELSE "LIMIT_REV")

StateShape(m) ==
    CASE m \in {"WALK", "WALK_TO_FLIGHT_PRECHECK"} -> {"WALK"}
      [] m \in {"GO2_JOINT_LOCK_WAIT", "GO2_GROUND_HANDOVER", "FLIGHT_READY",
                "FLIGHT_MANUAL", "AUTO_LANDING_READY", "AUTO_LANDING",
                "TOUCHDOWN_VERIFY", "LANDING_COMPLIANT",
                "FLIGHT_TO_WALK_PRECHECK"} -> {"FLIGHT"}
      [] OTHER -> Shape

configuration_conflict(s) ==
    /\ F446Connected(s)
    /\ IF s.state \in ACTIVE_TRANSFORM_STATES
       THEN active_transform_configuration_conflict(s)
       ELSE IF Configuration(s) = "UNKNOWN"
       THEN s.state \notin {"BOOT_SAFE"} \cup SafetyStates
       ELSE Configuration(s) \notin StateShape(s.state)

(* At a verified limit the motor has just stalled: its current is ignored. *)
f446_overcurrent(s) ==
    "overcurrent" \in s.bad /\ FirmwareShape(s) = {}

MechanismViolations(s) == UNION
    {Raised("F446_FAULT", Faulted(s)),
     Raised("F446_OVERCURRENT", f446_overcurrent(s)),
     Raised("F446_STATE_UNKNOWN", F446Connected(s) /\ F446State(s) = "UNKNOWN"),
     Raised("F446_CONFIGURATION_CONFLICT", configuration_conflict(s))}

(* Two codes are raised because they were raised.                          *)
LatchedViolations(s) ==
    s.codes \cap {"AUTOLAND_CONTROLLER_TIMEOUT", "INVALID_STATE_TRANSITION"}

evaluate(s) ==
    UNION {evaluate_freshness(s), AutolandViolations(s), PilotViolations(s),
           AuthorityViolations(s), JointLockViolations(s),
           ComplianceViolations(s), HandoverViolations(s),
           TransformViolations(s), MechanismViolations(s), LatchedViolations(s)}

(* Mutant: a transition that was refused is a fault for good. *)
WarningsOfPilot == {"MANUAL_OVERRIDE_REQUESTED"}
Warnings == {"MANUAL_OVERRIDE_REQUESTED", "INVALID_STATE_TRANSITION"}

Blocking(codes) == codes \ Warnings

-----------------------------------------------------------------------------
(* The transition guards: what each asks of the reading. *)

Devices == {"heartbeat", "f446", "go2"}

CurrentClear(s) == {"margin", "overcurrent"} \cap s.bad = {}

(* The first look at a WALK vehicle tolerates rotors that still coast;     *)
(* "esc" is telemetry that no limit accepts.                               *)
RotorsStopped(s) == assess_esc_telemetry(s)

(* Mutant: the RC link is not asked for. *)
RequireTransformSafeWithoutRc(s) ==
    /\ require_fresh_devices(s, Devices)
    /\ ~Armed(s) /\ RotorsStopped(s) /\ s.codes = {}
    /\ ~Failsafe(s) /\ FlightEnableValid(s) /\ ~FlightEnableHigh(s)
    /\ ~Faulted(s) /\ F446State(s) # "UNKNOWN" /\ ~Duty(s)
    /\ CurrentClear(s) /\ Go2Stationary(s)

RequireTransformSafe(s) ==
    /\ require_fresh_devices(s, Devices \cup {"rc", "rc_failsafe"})
    /\ ~Armed(s) /\ RotorsStopped(s) /\ s.codes = {}
    /\ ~Failsafe(s) /\ FlightEnableValid(s) /\ ~FlightEnableHigh(s)
    /\ ~Faulted(s) /\ F446State(s) # "UNKNOWN" /\ ~Duty(s)
    /\ CurrentClear(s) /\ Go2Stationary(s)

manual_motion_guard(s) == s.state = "MANUAL_POSITIONING" /\ RequireTransformSafe(s)

RequireAutolandSources(s) ==
    /\ TouchdownSources(s) /\ Fresh(s, "payload")
    /\ ~landing_estimate_invalid(s) /\ timestamps_are_coherent(s)

RequireJointLock(s) ==
    JointLockConfirmed(s) /\ (s.lowLevel => s.auth = "LOCK")

AtEndpoint(s, t) == Configuration(s) = t /\ ~Duty(s)

(* The start of operation from BOOT_SAFE: no RC is asked for.              *)
BootReady(s) ==
    /\ require_fresh_devices(s, Devices)
    /\ ~Armed(s) /\ RotorsStopped(s) /\ s.codes = {}

(* Towards FLIGHT, and positioning by hand.                                *)
FoldingGuard(s, to) ==
    CASE to = "MANUAL_POSITIONING" ->
           s.state \in {"TOUCHDOWN_VERIFY", "LANDING_COMPLIANT"} => Landed(s)
      [] to = "HOMING_TO_WALK" ->
           Configuration(s) = "UNKNOWN" /\ F446State(s) = "IDLE"
      [] to = "WALK_TO_FLIGHT_PRECHECK" ->
           s.request /\ Configuration(s) = "WALK" /\ Go2Stationary(s)
      [] to = "TRANSFORM_TO_FLIGHT" ->
           Configuration(s) = "WALK" /\ Go2Stationary(s)
      [] to = "GO2_JOINT_LOCK_WAIT" ->
           AtEndpoint(s, "FLIGHT") /\ ~Armed(s) /\ RotorsStopped(s)
      [] OTHER -> TRUE

(* Towards WALK and BOOT_SAFE.                                             *)
UnfoldingGuard(s, to) ==
    CASE to = "BOOT_SAFE" ->
           ~Armed(s) /\ RotorsStopped(s) /\ s.codes = {}
      [] to = "WALK" ->
           AtEndpoint(s, "WALK") /\ (s.state = "BOOT_SAFE" => BootReady(s))
      [] to = "FLIGHT_TO_WALK_PRECHECK" ->
           GroundProof(s) /\ RotorsStopped(s) /\ Go2Stationary(s)
      [] to = "TRANSFORM_TO_WALK" -> Configuration(s) = "FLIGHT"
      [] OTHER -> TRUE

FlightGuard(s, to) ==
    CASE to = "FLIGHT_READY" ->
           /\ AtEndpoint(s, "FLIGHT") /\ ~Armed(s) /\ RequireJointLock(s)
           /\ s.state = "BOOT_SAFE" => BootReady(s)
      [] to = "FLIGHT_MANUAL" ->
           /\ s.state = "FLIGHT_READY" => s.authorized /\ Armed(s)
           /\ s.state \in AutolandStates => s.stick \in {"override", "manual"}
      [] to = "AUTO_LANDING_READY" ->
           /\ RequireAutolandSources(s) /\ Armed(s)
           /\ s.stick \in {"ready", "execute"}
           /\ s.lowLevel => s.auth = "HOLD"
      [] to = "AUTO_LANDING" ->
           /\ RequireAutolandSources(s) /\ Armed(s) /\ s.stick = "execute"
           /\ s.lowLevel => s.auth = "HOLD"
      [] OTHER -> TRUE

TouchdownGuard(s, to) == to = "TOUCHDOWN_VERIFY" =>
    /\ TouchdownSources(s) /\ Fresh(s, "payload")
    /\ s.state = "AUTO_LANDING" => ~landing_estimate_invalid(s)
    /\ timestamps_are_coherent(s) /\ Landed(s)

(* The legs change hands, or give way, on the ground.                      *)
LegsGuard(s, to) ==
    CASE to = "GO2_GROUND_HANDOVER" ->
           /\ require_fresh_devices(s, {"heartbeat", "f446"})
           /\ GroundProof(s) /\ RotorsStopped(s)
           /\ s.lowLevel => s.auth = "REACQUIRING"
           /\ ~OwnershipPending(s) /\ ~Duty(s) /\ ~Faulted(s)
      [] to = "LANDING_COMPLIANT" ->
           /\ s.compliance /\ require_fresh_devices(s, Devices)
           /\ GroundProof(s) /\ RotorsStopped(s) /\ s.codes = {}
           /\ RequireJointLock(s) /\ FootContactSafe(s)
           /\ AtEndpoint(s, "FLIGHT") /\ ~Faulted(s)
      [] OTHER -> TRUE

(* The whole guard; the edges to the safety states have none.              *)
GuardPermits(s, to) ==
    /\ to \in ALLOWED_TRANSITIONS[s.state]
    /\ \/ to \in SafetyStates
       \/ /\ OwnershipPending(s) => to \in LowCmdOwnershipAllowedStates
          /\ {s.state, to} \cap TRANSFORM_STATES # {} => RequireTransformSafe(s)
          /\ FoldingGuard(s, to) /\ UnfoldingGuard(s, to) /\ FlightGuard(s, to)
          /\ TouchdownGuard(s, to) /\ LegsGuard(s, to)

-----------------------------------------------------------------------------
(* The interlocks of the commands. *)

(* Before a ground-arm authorization, and when the operator vouches for    *)
(* the joint lock.                                                         *)
can_enter_flight_ready(s) ==
    /\ require_fresh_devices(s, {"heartbeat", "f446", "rc", "rc_failsafe"})
    /\ OwnershipPending(s) \/ Fresh(s, "go2")
    /\ AtEndpoint(s, "FLIGHT") /\ ~Faulted(s)
    /\ ~Armed(s) /\ "px_failsafe" \notin s.bad /\ RotorsStopped(s)
    /\ FlightEnableValid(s) /\ ~FlightEnableHigh(s)
    /\ IF OwnershipPending(s)
       THEN s.auth = "HOLD" /\ {"owner", "lowstate"} \cap s.bad = {}
       ELSE Go2Stationary(s) /\ JointLockConfirmed(s)
    /\ s.codes = {}

can_autoland_environment(s) ==
    /\ s.state \in {"FLIGHT_MANUAL"} \cup AutolandStates
    /\ Configuration(s) = "FLIGHT"
    /\ RequireAutolandSources(s)
    /\ Armed(s) /\ require_fresh_devices(s, {"px_failsafe", "rc", "rc_failsafe"})
    /\ s.stick = "execute" /\ s.codes = {}

can_send_landing_setpoint(s) ==
    /\ s.state = "AUTO_LANDING" /\ can_autoland_environment(s)
    /\ s.lowLevel => s.auth = "ACTIVE"

(* What landing compliance asks for to begin and to go on.                 *)
landing_compliance_entry_result(s) ==
    /\ s.compliance
    /\ s.state = "TOUCHDOWN_VERIFY"
    /\ GroundProof(s) /\ RotorsStopped(s) /\ AtEndpoint(s, "FLIGHT") /\ ~Faulted(s)
    /\ ~OwnershipPending(s) /\ JointLockConfirmed(s) /\ Go2Stationary(s)
    /\ FootContactSafe(s) /\ s.codes = {}

landing_compliance_hold_result(s) ==
    /\ s.state = "LANDING_COMPLIANT"
    /\ GroundProof(s) /\ RotorsStopped(s) /\ AtEndpoint(s, "FLIGHT") /\ ~Faulted(s)
    /\ FootContactSafe(s) /\ s.legs = "balance" /\ Go2Stationary(s)
=============================================================================
