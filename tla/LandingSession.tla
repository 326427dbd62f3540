--------------------------- MODULE LandingSession ---------------------------
(***************************************************************************)
(* Cycles of LandingCycle one after another, and the operator's reset: the *)
(* life of one coordinator; and, on its own, that of one detector on raw   *)
(* counts.                                                                 *)
(***************************************************************************)
EXTENDS LandingCycle

VARIABLES
  cyc,      \* what the coordinator remembers
  result,   \* what the last cycle returned; none after a reset
  failed    \* history: a cycle has failed since the last reset

cycleSessionVars == <<cyc, result, failed>>

Outcome == [kind : {"none", "inactive", "failed", "lost", "replan", "bundle"},
            gain : 0..TargetGain, residual : [Rotors -> Int]]

NoOutcome == [kind |-> "none", gain |-> 0, residual |-> NoResidualThrust]

CycleSessionInit ==
  /\ cyc \in {c \in CycleState : /\ c.det = DetectorReset /\ c.gain = 0 /\ ~c.latched /\ ~c.lost
                                 /\ \A f \in Feet : c.legs[f].shift = 0 /\ ~c.legs[f].stood /\ c.legs[f].gen = 0}
  /\ result = NoOutcome
  /\ failed = FALSE

ComputeCycle ==
  \E in \in CycleInput :
    LET r == Cycle(cyc, in) IN
    /\ cyc' = r.to
    /\ result' = [kind |-> r.kind, gain |-> r.gain, residual |-> r.residual]
    /\ failed' = (failed \/ r.kind \in {"failed", "lost"})

ResetSession ==
  /\ cyc' = ResetRuntime(cyc, TRUE)
  /\ result' = NoOutcome
  /\ failed' = FALSE

CycleSessionNext == ComputeCycle \/ ResetSession

CycleSessionSpec == CycleSessionInit /\ [][CycleSessionNext]_cycleSessionVars

CycleTypeOK == cyc \in CycleState /\ result \in Outcome /\ failed \in BOOLEAN

(* A failed cycle, or a foot that lifted again, is remembered: nothing     *)
(* short of the explicit reset brings another bundle, however often the    *)
(* state machine leaves and enters AUTO_LANDING.                           *)
FailureNeedsReset == failed => result.kind # "bundle" /\ cyc.latched

(* The rotors' correction is earned a step at a time: no bundle's gain is  *)
(* more than one rise over that of the cycle before, which is none if that *)
(* cycle brought no bundle.                                                *)
GainIsEarned == [][result'.gain <= result.gain + GainRise]_cycleSessionVars

(* No bundle asks more of a rotor than its gain allows.                    *)
ResidualIsScaled == Admissible(result.gain, result.residual)

(* Legs and rotors advance together or not at all: without a bundle no     *)
(* joint command has moved and the rotors' gain is gone; a leg's           *)
(* displacement is where it was, or none where all has been reset.         *)
LegAsBefore(f) ==
  /\ cyc'.legs[f].joint = cyc.legs[f].joint
  /\ cyc'.legs[f].shift \in {cyc.legs[f].shift, 0}
  /\ result'.kind \in {"failed", "lost", "replan"} =>
       cyc'.legs[f].shift = cyc.legs[f].shift /\ cyc'.legs[f].stood = cyc.legs[f].stood

BundleIsWhole ==
  [][result'.kind # "bundle" => cyc'.gain = 0 /\ \A f \in Feet : LegAsBefore(f)]_cycleSessionVars

(* A foot counts as down, or up again, only after two samples in a row on  *)
(* the far side of its threshold, a dwell apart; and the time it came down *)
(* is known and past, so that a leg's blend never refuses it.              *)
TouchdownIsKnown ==
  \A f \in Feet : /\ f \in cyc.det.contact <=> cyc.det.touched[f] # Never
                  /\ cyc.det.touched[f] <= cyc.det.at

ContactIsDwelt ==
  [][\A f \in Feet :
       /\ f \in cyc'.det.contact \ cyc.det.contact =>
            /\ cyc.det.level[f] = 2 /\ cyc'.det.level[f] = 2
            /\ cyc'.det.at - cyc.det.onSince[f] >= ConfirmTime
       /\ f \in cyc.det.contact \ cyc'.det.contact /\ cyc'.det.at # Never =>
            /\ cyc.det.level[f] = 0 /\ cyc'.det.level[f] = 0
            /\ cyc'.det.at - cyc.det.offSince[f] >= ReleaseTime]_cycleSessionVars

----------------------------------------------------------------------------
(* The life of one detector on raw counts: samples and resets.             *)

VARIABLES
  count,      \* the detector
  answered    \* the last call returned a detection

countVars == <<count, answered>>

CountInit == count = CountReset /\ answered = FALSE

TakeCount ==
  \E s \in CountSample :
    /\ count' = UpdateCount(count, s)
    /\ answered' = (~Refuses(count, s) /\ Admits(count, s))

ResetCount == count' = CountReset /\ answered' = FALSE

CountNext == TakeCount \/ ResetCount

CountSpec == CountInit /\ [][CountNext]_countVars

CountTypeOK == count \in CountDetector /\ answered \in BOOLEAN

(* A foot in contact has crossed its threshold a dwell before it was       *)
(* confirmed, and has been confirmed since; a foot that is not in contact  *)
(* has never been, or has been released.                                   *)
CrossingIsKnown ==
  \A f \in Feet :
    /\ f \in count.contact =>
         /\ count.onFirst[f] # Never
         /\ count.confirmed[f] - count.onFirst[f] >= ConfirmTime
         /\ count.confirmed[f] <= count.at
    /\ f \notin count.contact /\ ~count.tripped => count.confirmed[f] = Never

(* A tripped detector claims no foot and answers nothing.                  *)
TripIsSilent == count.tripped => count.contact = {} /\ ~answered

(* It stays so until the reset, which forgets the stream: no contact       *)
(* outlives a trip.                                                        *)
TripNeedsReset == [][count.tripped /\ ~count'.tripped => count' = CountReset]_countVars

(* The dwell cannot be passed with samples missing: those that confirm a   *)
(* contact, or its release, are enough in number, the foot was beyond its  *)
(* threshold in each of them, and no two are further apart than the gap    *)
(* that is allowed.                                                        *)
Dense(since, n) == n >= MinSamples /\ count'.at - since <= (n - 1) * MaxSampleGap

ContactIsSampled ==
  [][\A f \in Feet :
       /\ f \in count'.contact \ count.contact =>
            /\ Dense(count'.onFirst[f], count.onCount[f] + 1)
            /\ count'.at - count'.onFirst[f] >= ConfirmTime
       /\ f \in count.contact \ count'.contact /\ ~count'.tripped /\ count'.at # Never =>
            /\ Dense(count'.offFirst[f], count.offCount[f] + 1)
            /\ count'.at - count'.offFirst[f] >= ReleaseTime]_countVars

=============================================================================
