---------------------------- MODULE LandingCycle ----------------------------
(***************************************************************************)
(* One cycle of the paper's controller (landing/impact_aware/coordinator.py) *)
(* as a function: from what the coordinator remembers and an input to what *)
(* it remembers then and the bundle it returns, if any.  compute() awaits  *)
(* nothing, so a cycle is one step.  Beside the detector of FootContact it *)
(* drives the blender of the rotor correction (rotor_safety.py) and the    *)
(* compliance of each leg (admittance.py).                                 *)
(*                                                                         *)
(* Solver, integrator and inverse kinematics are real arithmetic: what     *)
(* they answer is part of the input, within what the code checks of it.    *)
(* Thrusts are integers, a gain a number of steps of which FullGain are    *)
(* the gain 1.0.                                                           *)
(***************************************************************************)
EXTENDS FootContact

CONSTANTS
  Rotors,
  FullGain, TargetGain,   \* target_gain, at most 1.0
  GainRise,               \* maximum_gain_rise_per_s over the longest cycle
  MaxRaw,                 \* maximum_correction_n
  ThrustMin, ThrustMax,   \* thrust_min_n, thrust_max_n
  AntiWindup,             \* anti_windup_enabled
  FreezesLegs             \* contact_release_policy is "freeze", not "reset"

(* What the blender asks of its configuration. *)
BlenderConfigured ==
  /\ TargetGain \in 0..FullGain /\ GainRise \in Nat \ {0} /\ MaxRaw \in Nat \ {0}
  /\ ThrustMin \in Nat /\ ThrustMax \in Nat /\ ThrustMin < ThrustMax

ASSUME CycleAssumption ==
  /\ FullGain \in Nat \ {0} /\ BlenderConfigured
  /\ AntiWindup \in BOOLEAN /\ FreezesLegs \in BOOLEAN

----------------------------------------------------------------------------
(* The compliance of a leg: a displacement, the last joint command and     *)
(* whether the foot has stood.  A preview changes nothing; it can be       *)
(* committed while the leg is of the generation it was made of.            *)

Leg == [shift : Int, joint : Int, stood : BOOLEAN, gen : Nat]

(* What arithmetic makes of a leg's step. *)
Move == [shift : Int, joint : Int, limited : BOOLEAN]

ResetLeg(leg, shift, joint, stood) == [shift |-> shift, joint |-> joint, stood |-> stood, gen |-> leg.gen + 1]

LiftedOff(leg, stands) == leg.stood /\ ~stands

PreviewLeg(leg, stands, move) ==
  [gen |-> leg.gen, joint |-> move.joint, stood |-> leg.stood \/ stands,
   lifted |-> LiftedOff(leg, stands),
   shift |-> IF LiftedOff(leg, stands) /\ ~(AntiWindup /\ move.limited)
             THEN IF FreezesLegs THEN leg.shift ELSE 0
             ELSE move.shift]

(* The joint may have been clamped further on the way to the motors.       *)
CommittedLeg(token, applied) ==
  [joint |-> applied.joint, stood |-> token.stood, gen |-> token.gen + 1,
   shift |-> IF AntiWindup /\ ~token.lifted /\ applied.joint # token.joint
             THEN applied.shift ELSE token.shift]

FreshTokens(legs, tokens) == \A f \in DOMAIN tokens : tokens[f].gen = legs[f].gen

(* Several legs are committed together or not at all. *)
CommitMany(legs, tokens, applied) ==
  IF FreshTokens(legs, tokens)
  THEN [f \in DOMAIN legs |-> IF f \in DOMAIN tokens THEN CommittedLeg(tokens[f], applied[f]) ELSE legs[f]]
  ELSE legs

StepLeg(leg, stands, move) == CommittedLeg(PreviewLeg(leg, stands, move), move)

----------------------------------------------------------------------------
(* A cycle. *)

(* What may be wrong with a cycle beside its contacts and its thrusts:     *)
(* the solver's limit longer than the command's life, a clock outside the  *)
(* window, another geometry, a source old or unhealthy at the start or at  *)
(* the end of the solve, the force, the plan of the rotors' execution, the *)
(* solver, the reconstruction, the rotors' rates, a command's fields.      *)
CycleDefect ==
  {"timing", "late start", "geometry", "source", "measurement", "plan", "solver", "late solve",
   "source at end", "transport", "rates", "late bundle", "leg command", "rotor command"}

CycleInput ==
  [active : BOOLEAN,               \* the state machine is in AUTO_LANDING
   now : Nat, at : Nat,            \* the cycle's time stamp, that of the contact forces
   level : [Feet -> Level],
   schedule : SUBSET Feet,         \* contact_schedule[0]
   rise : 1..GainRise,
   baseline : [Rotors -> Int],     \* the flight controller's own thrusts
   residual : [Rotors -> Int],     \* what the solver's command adds to them
   moves : [Feet -> Move],
   steps : 0..FootCount,           \* legs that are stepped before one raises
   bad : SUBSET CycleDefect]

CycleState ==
  [det : Detector,
   gain : 0..TargetGain, latched : BOOLEAN,    \* the blender
   lost : BOOLEAN,                             \* _contact_loss_latched
   legs : [Feet -> Leg]]

InLimits(thrust) == \A r \in Rotors : ThrustMin <= thrust[r] /\ thrust[r] <= ThrustMax

Plus(a, b) == [r \in Rotors |-> a[r] + b[r]]

Magnitude(n) == IF n < 0 THEN -n ELSE n

(* preview_gains *)
NextGain(c, rise) ==
  IF c.latched THEN 0
  ELSE IF c.gain + rise < TargetGain THEN c.gain + rise ELSE TargetGain

(* The residual is the gain times a raw correction within its limit; with  *)
(* no gain there is none.                                                  *)
Admissible(gain, residual) ==
  \A r \in Rotors : Magnitude(residual[r]) * FullGain <= gain * MaxRaw

(* blend_modeled_applied: it never gives another thrust than the solver's. *)
Blends(c, in) ==
  /\ Admissible(NextGain(c, in.rise), in.residual)
  /\ InLimits(in.baseline)
  /\ InLimits(Plus(in.baseline, in.residual))

(* The correction is removed at once; a baseline outside the limits cannot *)
(* even be blended with nothing, and inhibits.                             *)
RemoveCorrection(c, in, latching) ==
  [c EXCEPT !.gain = 0, !.latched = @ \/ latching \/ ~InLimits(in.baseline)]

ResetRuntime(c, clearing) ==
  [det |-> DetectorReset, gain |-> 0,
   latched |-> c.latched /\ ~clearing, lost |-> c.lost /\ ~clearing,
   legs |-> [f \in Feet |-> ResetLeg(c.legs[f], 0, c.legs[f].joint, FALSE)]]

NoResidualThrust == [r \in Rotors |-> 0]

Withheld(c, in, latching, kind) ==
  [to |-> RemoveCorrection(c, in, latching), kind |-> kind, gain |-> 0, residual |-> NoResidualThrust]

(* Everything that is looked at before the contact forces. *)
Refused(c, in) ==
  \/ in.bad \cap {"timing", "late start", "geometry", "source", "measurement"} # {}
  \/ c.lost \/ c.latched
  \/ in.at > in.now
  \/ ~InOrder(c.det, in.at)

Unsolved(in) == in.bad \cap {"plan", "solver", "late solve", "source at end"} # {}

SteppedLegs(c, in) ==
  [f \in Feet |-> IF f <= in.steps THEN StepLeg(c.legs[f], f \in c.det.contact, in.moves[f]) ELSE c.legs[f]]

(* Each command checks its own fields when it is built: numbers that are   *)
(* not finite, a life that is over before it begins, identities.           *)
PacksLegs(in) == "leg command" \notin in.bad
PacksRotors(in) == "rotor command" \notin in.bad

Executes(c, in) ==
  /\ in.steps = FootCount
  /\ Blends(c, in)
  /\ in.bad \cap {"transport", "rates", "late bundle"} = {}
  /\ PacksLegs(in) /\ PacksRotors(in)

RestoreLegs(snapshot, legs) ==
  [f \in Feet |-> ResetLeg(legs[f], snapshot[f].shift, snapshot[f].joint, snapshot[f].stood)]

Bundle(c, in) ==
  [to |-> [c EXCEPT !.legs = SteppedLegs(c, in), !.gain = NextGain(c, in.rise)],
   kind |-> "bundle", gain |-> NextGain(c, in.rise), residual |-> in.residual]

(* A foot that lifts again latches for the session; a new contact asks for *)
(* another problem and latches nothing.                                    *)
Measured(c, in) ==
  IF Releases(c.det, in.level, in.at) # {}
  THEN Withheld([c EXCEPT !.det = UpdateContact(c.det, in.level, in.at), !.lost = TRUE], in, TRUE, "lost")
  ELSE LET m == [c EXCEPT !.det = UpdateContact(c.det, in.level, in.at)]
       IN IF in.schedule # m.det.contact THEN Withheld(m, in, FALSE, "replan")
          ELSE IF Unsolved(in) THEN Withheld(m, in, TRUE, "failed")
          ELSE IF Executes(m, in) THEN Bundle(m, in)
          ELSE Withheld([m EXCEPT !.legs = RestoreLegs(m.legs, SteppedLegs(m, in))], in, TRUE, "failed")

Cycle(c, in) ==
  IF ~in.active THEN Withheld(ResetRuntime(c, FALSE), in, FALSE, "inactive")
  ELSE IF Refused(c, in) THEN Withheld(c, in, TRUE, "failed")
  ELSE Measured(c, in)

=============================================================================
