---------------------------- MODULE LandingProofs ----------------------------
(***************************************************************************)
(* What the two landings keep to, for any deadlines, dwells and length of  *)
(* a session.                                                              *)
(*                                                                         *)
(* First the landing of Autoland: a fenced session is quiet, an aborted    *)
(* impact is not taken for a landing, and a landing ends quiet and earned. *)
(* The state machine and the locked operation are two processes: a         *)
(* transition is still being committed, and others come in between, while  *)
(* the operation that asked for it waits.  The invariant ties them         *)
(* together: which operation a pending transition belongs to, and what     *)
(* that operation has left behind it.                                      *)
(*                                                                         *)
(* Then the session of LandingRuntime and what a fallback leaves behind.   *)
(* The hard part is that cancelled work still takes effect.  A residual    *)
(* may come up long after its send was cancelled, and a joint target long  *)
(* after the revoke was asked for; so the invariant says until when each   *)
(* of them can, and that the second clear and the locked part of the       *)
(* revoke come after that.  No bound on the snapshots or the contact       *)
(* changes is used.                                                        *)
(*                                                                         *)
(* Last the cycles of LandingSession, for every number of feet and rotors  *)
(* and every limit, and the detector on raw counts.                        *)
(***************************************************************************)
EXTENDS Autoland, LandingRuntime, LandingSession, TLAPS

Readies == {"ready legacy", "ready mpc"}
Leavings == {"left", "left and fault"}
Completions == {"complete", "complete mpc"}

Pending(to) == ~Free /\ change.to = to

(* No landing can be confirmed from here by the operation in progress.     *)
Adrift == mode \notin {"FLIGHT_MANUAL", "AUTO_LANDING"} \/ ~Free

Shape == DOMAIN change = {"to", "pc", "muted"}
Ages == age \in [Timer -> Int]

(* Whose a pending transition is.                                          *)
Requests ==
    /\ Pending("AUTO_LANDING_READY") => op \in Readies
    /\ Pending("AUTO_LANDING") => op = "start"
    /\ Pending("TOUCHDOWN_VERIFY") => op = "landed"
    /\ Pending("FLIGHT_MANUAL") => op \in Leavings \/ (op = "commit" /\ mode = "FLIGHT_READY")
    /\ change.pc = "entry" => change.to \in {"BOOT_SAFE", "FAULT"} /\ mode = change.to

(* A landing is prepared with the last one's fence taken down, and nobody  *)
(* puts one up before its first update.                                    *)
Unfenced ==
    /\ op \in {"guided", "start"} => ~fenced
    /\ mode = "AUTO_LANDING_READY" => op \in Readies \/ ~fenced
    /\ op \in {"fence", "quiesce"} => mode # "AUTO_LANDING_READY"

(* Nothing is sent between the last stop and the end of the operation.     *)
Quiet == op \in Leavings \cup {"landed"} => ~sending

(* An impact that is latched ends the landing: the abort is under way, or  *)
(* the transition out of it.                                               *)
Latched ==
    /\ ~Free /\ change.to \in AutoStates => ~latched
    /\ mode \in AutoStates /\ latched =>
          op \in {"abort", "stop", "stop and fault"} \/ ~Free

(* An aborted impact is remembered until the vehicle has flown: while it   *)
(* is not latched, airborne is not confirmed, and one of them a landing    *)
(* needs.                                                                  *)
Remembered ==
    /\ impact => place = "ground"
    /\ impact => latched \/ ~airborne
    /\ op \in Completions \cup {"quiesce"} /\ impact => Adrift
    /\ op = "landed" => ~impact

(* Which landing it is stays with the cycle it was prepared in.            *)
Selected ==
    /\ op = "complete" => landing # "mpc"
    /\ mode = "FLIGHT_MANUAL" => landing # "mpc" \/ op \in Leavings
    /\ op \in Readies /\ mode = "FLIGHT_MANUAL" => Pending("AUTO_LANDING_READY")

(* The premises of an impact-aware exit outlive the wait for its commit.   *)
Earned ==
    /\ op = "complete mpc" => fenced /\ held
    /\ op = "landed" /\ landing = "mpc" =>
         fenced /\ held /\ age["stable"] >= StableConfirm

FenceInv == Requests /\ Unfenced /\ FencedIsQuiet /\ Quiet
ImpactInv == Latched /\ Remembered
DwellInv == Selected /\ Earned

-----------------------------------------------------------------------------
(* What a request leaves pending.                                          *)
Asked(to) == Free /\ change'.pc = "accepted" /\ change'.to = to
FaultAsked == IF Free /\ mode # "FAULT" THEN Asked("FAULT") ELSE change' = change

(* A request that is accepted is pending.                                  *)
LEMMA BeginsAsks == ASSUME NEW to, Begins(to) PROVE Asked(to)
  BY DEF Begins, Asked

(* A fault is, unless it is refused.                                       *)
LEMMA FaultsAsks == ASSUME NEW muted, Faults(muted) PROVE FaultAsked
  BY DEF Faults, FaultAsked, Asked

(* The same for each of the requests there are.                            *)
LEMMA Asking ==
    /\ Begins("FLIGHT_READY") => Asked("FLIGHT_READY")
    /\ Begins("FLIGHT_MANUAL") => Asked("FLIGHT_MANUAL")
    /\ Begins("AUTO_LANDING_READY") => Asked("AUTO_LANDING_READY")
    /\ Begins("AUTO_LANDING") => Asked("AUTO_LANDING")
    /\ Begins("TOUCHDOWN_VERIFY") => Asked("TOUCHDOWN_VERIFY")
    /\ Begins("BOOT_SAFE") => Asked("BOOT_SAFE")
    /\ Faults(TRUE) => FaultAsked
    /\ Faults(FALSE) => FaultAsked
  BY BeginsAsks, FaultsAsks

(* Airborne evidence is only counted in the air.                           *)
LEMMA Lifts ==
    ASSUME NEW a, NEW flies, Lifted(Lifting(a, flies))
    PROVE  place = "air"
<1> SUFFICES ASSUME place # "air" PROVE FALSE
  OBVIOUS
<1>1. Lifting(a, flies)["lifted"] = Off
  BY DEF Lifting, Stopped, Timer
<1>2. LiftConfirm \in Nat \ {0}
  BY AutolandAssumption DEF Timer, Limit
<1> QED BY <1>1, <1>2 DEF Lifted, Off

(* A dwell that is long enough stays so.                                   *)
LEMMA Dwelt ==
    ASSUME Ages, Elapse, age["stable"] >= StableConfirm
    PROVE  age'["stable"] >= StableConfirm
<1>1. "stable" \in Timer
  BY DEF Timer
<1>2. StableConfirm \in Nat
  BY AutolandAssumption DEF Timer, Limit
<1>3. age'["stable"] = age["stable"] \/ age'["stable"] = age["stable"] + 1
  BY <1>1 DEF Elapse
<1>4. age["stable"] \in Int
  BY <1>1 DEF Ages
<1> QED BY <1>2, <1>3, <1>4

(* Only a commit changes the state.                                        *)
LEMMA StateMoves == ASSUME Next, mode' # mode PROVE WriteState
  BY DEF Next, Tick, TickLanding, TickManual, TickCommits, TickAborts, TickEscalates,
         TickIdles, MonitorFails, Resumes, AbortReturns, StopReturns, Left, Committed,
         Prepared, Guided, Rejected, FirstUpdate, FenceReturns, Quiesced, CompleteReturns,
         Landed, Commands, Prepare, Start, AbortAutoland, StopSupervised, StopMotion,
         ClearFault, MadeReady, World, EvidenceArrives, Elapse, Commits, EntryEnds

-----------------------------------------------------------------------------
(* Nothing is sent behind a fence.  Only Prepared takes a fence down and   *)
(* only an update of AUTO_LANDING puts one up; the requests that lead      *)
(* there wait for the one before them.                                     *)

(* A fenced session stays quiet: the transitions.                          *)
LEMMA FenceCommitSteps ==
    ASSUME Shape, FenceInv
    PROVE  WriteState \/ EntryEnds
           => FenceInv'
<1> USE DEF FenceInv, Requests, Unfenced, FencedIsQuiet, Quiet, Readies,
        Leavings, StopsSending, MaySend, AutoStates, Free, Done, Forget, Idle,
        Pending, sessionVars, impactVars, cycleVars, worldVars
<1>1. ASSUME WriteState PROVE FenceInv'
  BY <1>1 DEF WriteState, Shape
<1>2. ASSUME EntryEnds PROVE FenceInv'
  <2>1. CASE change' = Idle
    BY <1>2, <2>1, Asking DEF EntryEnds, Shape
  <2>2. CASE change' = [to |-> "FAULT", pc |-> "accepted", muted |-> FALSE]
    BY <1>2, <2>2, Asking DEF EntryEnds, Shape
  <2> QED BY <1>2, <2>1, <2>2 DEF EntryEnds
<1> QED BY <1>1, <1>2

(* A fenced session stays quiet: the aborts and stops.                     *)
LEMMA FenceStopSteps ==
    ASSUME Shape, FenceInv
    PROVE  AbortReturns \/ StopReturns \/ Left \/ Committed \/ TickAborts \/
           TickEscalates \/ AbortAutoland \/ StopSupervised
           => FenceInv'
<1> USE DEF FenceInv, Requests, Unfenced, FencedIsQuiet, Quiet, Readies,
        Leavings, StopsSending, MaySend, AutoStates, Free, Done, Forget, Idle,
        Pending, sessionVars, impactVars, cycleVars, worldVars
<1>1. ASSUME AbortReturns PROVE FenceInv'
  <2>1. CASE StopsSending /\ Leave
    BY <1>1, <2>1, Asking DEF AbortReturns, Leave, Asked, FaultAsked
  <2>2. CASE sending /\ Faults(FALSE) /\ op' = "commit" /\ UNCHANGED <<sending, fenced>>
    BY <1>1, <2>2, Asking DEF AbortReturns, Leave, Asked, FaultAsked
  <2> QED BY <1>1, <2>1, <2>2 DEF AbortReturns
<1>2. ASSUME StopReturns PROVE FenceInv'
  BY <1>2, Asking DEF StopReturns, ThenFaults, Asked, FaultAsked
<1>3. ASSUME Left PROVE FenceInv'
  BY <1>3, Asking DEF Left, ThenFaults, Asked, FaultAsked
<1>4. ASSUME Committed PROVE FenceInv'
  BY <1>4 DEF Committed
<1>5. ASSUME TickAborts PROVE FenceInv'
  BY <1>5 DEF TickAborts, BeginAbort
<1>6. ASSUME TickEscalates PROVE FenceInv'
  BY <1>6 DEF TickEscalates, Stops, BeginAbort
<1>7. ASSUME AbortAutoland PROVE FenceInv'
  BY <1>7 DEF AbortAutoland, BeginAbort
<1>8. ASSUME StopSupervised PROVE FenceInv'
  BY <1>8 DEF StopSupervised, Stops, BeginAbort
<1> QED BY <1>1, <1>2, <1>3, <1>4, <1>5, <1>6, <1>7, <1>8

(* A fenced session stays quiet: the commands.                             *)
LEMMA FenceCommandSteps ==
    ASSUME Shape, FenceInv
    PROVE  (\E l \in Landings : Prepare(l)) \/ (\E l \in Landings :
           Prepared(l)) \/ Start \/ Guided \/ Rejected \/ StopMotion \/
           ClearFault \/ MadeReady
           => FenceInv'
<1> USE DEF FenceInv, Requests, Unfenced, FencedIsQuiet, Quiet, Readies,
        Leavings, StopsSending, MaySend, AutoStates, Free, Done, Forget, Idle,
        Pending, sessionVars, impactVars, cycleVars, worldVars
<1>1. ASSUME \E l \in Landings : Prepare(l) PROVE FenceInv'
  <2> PICK l \in Landings : Prepare(l)  BY <1>1
  <2> QED BY Asking DEF Prepare, Readying, Asked
<1>2. ASSUME \E l \in Landings : Prepared(l) PROVE FenceInv'
  <2> PICK l \in Landings : Prepared(l)  BY <1>2
  <2> QED BY DEF Prepared, Readying
<1>3. ASSUME Start PROVE FenceInv'
  BY <1>3 DEF Start
<1>4. ASSUME Guided PROVE FenceInv'
  BY <1>4, Asking DEF Guided, ExecuteGuard, Asked, FaultAsked
<1>5. ASSUME Rejected PROVE FenceInv'
  BY <1>5, Asking DEF Rejected, Asked, FaultAsked
<1>6. ASSUME StopMotion PROVE FenceInv'
  <2>1. ~sending => ~sending'
    BY <1>6 DEF StopMotion
  <2>2. UNCHANGED <<mode, op, fenced>>
    BY <1>6 DEF StopMotion
  <2>3. CASE change'.pc = change.pc /\ change'.to = change.to
    BY <2>1, <2>2, <2>3
  <2>4. CASE Faults(TRUE)
    BY <2>1, <2>2, <2>4, Asking DEF Asked, FaultAsked
  <2> QED BY <1>6, <2>3, <2>4 DEF StopMotion
<1>7. ASSUME ClearFault PROVE FenceInv'
  BY <1>7, Asking DEF ClearFault, Asked, FaultAsked
<1>8. ASSUME MadeReady PROVE FenceInv'
  BY <1>8, Asking DEF MadeReady, Asked, FaultAsked
<1> QED BY <1>1, <1>2, <1>3, <1>4, <1>5, <1>6, <1>7, <1>8

(* A fenced session stays quiet: the landing and its touchdown.            *)
LEMMA FenceLandingSteps ==
    ASSUME Shape, FenceInv
    PROVE  FirstUpdate \/ FenceReturns \/ TickLanding \/ Quiesced \/
           CompleteReturns \/ Landed \/ TickManual
           => FenceInv'
<1> USE DEF FenceInv, Requests, Unfenced, FencedIsQuiet, Quiet, Readies,
        Leavings, StopsSending, MaySend, AutoStates, Free, Done, Forget, Idle,
        Pending, sessionVars, impactVars, cycleVars, worldVars
<1>1. ASSUME FirstUpdate PROVE FenceInv'
  BY <1>1 DEF FirstUpdate, Update, Aborts, BeginAbort, Ramps, Fences, Sends, Returns
<1>2. ASSUME FenceReturns PROVE FenceInv'
  <2>1. CASE StopsSending /\ fenced' = TRUE /\ Done /\ UNCHANGED change
    BY <1>2, <2>1, Asking DEF FenceReturns, Asked, FaultAsked
  <2>2. CASE sending /\ Faults(FALSE) /\ op' = "commit" /\ UNCHANGED <<sending, fenced>>
    BY <1>2, <2>2, Asking DEF FenceReturns, Asked, FaultAsked
  <2> QED BY <1>2, <2>1, <2>2 DEF FenceReturns
<1>3. ASSUME TickLanding PROVE FenceInv'
  <2>0. PICK current, down, moved, settled \in BOOLEAN :
          LET s == Sampled(current)
              a == Settling(s.age, down, moved)
          IN /\ airborne' = s.airborne
             /\ IF ~s.airborne THEN Continue(s.age) /\ UNCHANGED held
                ELSE IF Expired THEN Aborts(s.age) /\ UNCHANGED held
                ELSE IF a["touchdown"] < TouchdownConfirm
                THEN Continue(a) /\ UNCHANGED held
                ELSE IF landing = "mpc" THEN AdvanceExit(a, current, settled)
                ELSE /\ op' = "complete" /\ age' = a
                     /\ UNCHANGED <<impactVars, sending, fenced, held>>
    BY <1>3 DEF TickLanding
  <2> DEFINE s == Sampled(current)
             a == Settling(s.age, down, moved)
  <2>1. s.airborne => airborne \/ place = "air"
    BY DEF Sampled
  <2>2. op = "idle" /\ mode = "AUTO_LANDING"
        /\ UNCHANGED <<mode, change, watching, active, landing, evidence, worldVars>>
    BY <1>3 DEF TickLanding
  <2> HIDE DEF s, a
  <2>3. CASE ~s.airborne
    BY <2>0, <2>2, <2>3 DEF s, Continue, Update, Aborts, BeginAbort, Ramps, Fences, Sends, Returns
  <2>4. CASE s.airborne /\ Aborts(s.age) /\ UNCHANGED held
    BY <2>0, <2>1, <2>2, <2>4 DEF s, Aborts, BeginAbort
  <2>5. CASE s.airborne /\ Continue(a) /\ UNCHANGED held
    BY <2>0, <2>1, <2>2, <2>5 DEF s, a, Continue, Update, Aborts, BeginAbort, Ramps, Fences, Sends, Returns
  <2>6. CASE s.airborne /\ AdvanceExit(a, current, settled)
    BY <2>0, <2>1, <2>2, <2>6 DEF s, AdvanceExit, Dwells, Continue, Update, Aborts, BeginAbort, Ramps,
       Fences, Sends, Returns
  <2>7. CASE /\ s.airborne /\ op' = "complete" /\ landing # "mpc"
             /\ UNCHANGED <<impactVars, sending, fenced, held>>
    BY <2>0, <2>1, <2>2, <2>7 DEF s
  <2> QED BY <2>0, <2>3, <2>4, <2>5, <2>6, <2>7 DEF s, a
<1>4. ASSUME Quiesced PROVE FenceInv'
  <2>1. CASE op' = "abort"
    BY <1>4, <2>1, Asking DEF Quiesced, BeginAbort, Dwells, Asked, FaultAsked
  <2>2. CASE StopsSending /\ op' # "abort"
    BY <1>4, <2>2, Asking DEF Quiesced, BeginAbort, Dwells, Asked, FaultAsked
  <2>3. CASE sending /\ Faults(FALSE) /\ op' = "commit" /\ UNCHANGED <<sending, fenced, impactVars>>
    BY <1>4, <2>3, Asking DEF Quiesced, BeginAbort, Dwells, Asked, FaultAsked
  <2> QED BY <1>4, <2>1, <2>2, <2>3 DEF Quiesced
<1>5. ASSUME CompleteReturns PROVE FenceInv'
  BY <1>5, Asking DEF CompleteReturns, Exits, TouchdownGuard, StillEarned, BeginAbort, Asked, FaultAsked
<1>6. ASSUME Landed PROVE FenceInv'
  BY <1>6, Asking DEF Landed, Asked, FaultAsked
<1>7. ASSUME TickManual PROVE FenceInv'
  <2>0. PICK current, down, moved \in BOOLEAN :
          LET s == Sampled(current)
              a == IF latched THEN Lifting(Stopped(s.age, {"touchdown"}), current)
                   ELSE Settling(s.age, down, moved)
          IN /\ airborne' = s.airborne
             /\ IF ~s.airborne THEN age' = s.age /\ Done /\ UNCHANGED impactVars
                ELSE IF latched
                THEN /\ latched' = ~Lifted(a) /\ UNCHANGED impact
                     /\ age' = IF Lifted(a) THEN Stopped(a, {"lifted", "looked"}) ELSE a
                     /\ Done
                ELSE /\ age' = a /\ UNCHANGED impactVars
                     /\ IF a["touchdown"] < TouchdownConfirm THEN Done
                        ELSE op' = "complete"
    BY <1>7 DEF TickManual
  <2>1. Sampled(current).airborne => airborne \/ place = "air"
    BY DEF Sampled
  <2>2. op = "idle" /\ mode = "FLIGHT_MANUAL"
        /\ UNCHANGED <<mode, change, watching, sessionVars, worldVars>>
    BY <1>7 DEF TickManual
  <2>3. Lifted(Lifting(Stopped(Sampled(current).age, {"touchdown"}), current)) => place = "air"
    BY Lifts
  <2> QED BY <2>0, <2>1, <2>2, <2>3
<1> QED BY <1>1, <1>2, <1>3, <1>4, <1>5, <1>6, <1>7

(* A fenced session stays quiet: the rest.                                 *)
LEMMA FenceWorldSteps ==
    ASSUME Shape, FenceInv
    PROVE  TickCommits \/ TickIdles \/ World \/ EvidenceArrives \/ Elapse
           => FenceInv'
<1> USE DEF FenceInv, Requests, Unfenced, FencedIsQuiet, Quiet, Readies,
        Leavings, StopsSending, MaySend, AutoStates, Free, Done, Forget, Idle,
        Pending, sessionVars, impactVars, cycleVars, worldVars
<1>1. ASSUME TickCommits PROVE FenceInv'
  BY <1>1, Asking DEF TickCommits, MonitorFails, TakeoffGuard, Asked, FaultAsked
<1>2. ASSUME TickIdles PROVE FenceInv'
  BY <1>2 DEF TickIdles
<1>3. ASSUME World PROVE FenceInv'
  BY <1>3 DEF World, Arms, Disarms, LiftsOff, TouchesDown, Pilots, Receive
<1>4. ASSUME EvidenceArrives PROVE FenceInv'
  BY <1>4 DEF EvidenceArrives
<1>5. ASSUME Elapse PROVE FenceInv'
  BY <1>5 DEF Elapse
<1> QED BY <1>1, <1>2, <1>3, <1>4, <1>5

-----------------------------------------------------------------------------
(* What is left of an impact ends with a flight.                           *)

(* An aborted impact is remembered: the transitions.                       *)
LEMMA ImpactCommitSteps ==
    ASSUME Shape, FenceInv, ImpactInv
    PROVE  WriteState \/ EntryEnds
           => ImpactInv'
<1> USE DEF FenceInv, Requests, ImpactInv, Latched, Remembered, AutoStates,
        Readies, Completions, Adrift, Leavings, Free, Done, Forget, Idle,
        Pending, sessionVars, impactVars, cycleVars, worldVars
<1>1. ASSUME WriteState PROVE ImpactInv'
  BY <1>1 DEF WriteState, Shape
<1>2. ASSUME EntryEnds PROVE ImpactInv'
  <2>1. CASE change' = Idle
    BY <1>2, <2>1, Asking DEF EntryEnds, Shape
  <2>2. CASE change' = [to |-> "FAULT", pc |-> "accepted", muted |-> FALSE]
    BY <1>2, <2>2, Asking DEF EntryEnds, Shape
  <2> QED BY <1>2, <2>1, <2>2 DEF EntryEnds
<1> QED BY <1>1, <1>2

(* An aborted impact is remembered: the aborts and stops.                  *)
LEMMA ImpactStopSteps ==
    ASSUME Shape, FenceInv, ImpactInv
    PROVE  AbortReturns \/ StopReturns \/ Left \/ Committed \/ TickAborts \/
           TickEscalates \/ AbortAutoland \/ StopSupervised
           => ImpactInv'
<1> USE DEF FenceInv, Requests, ImpactInv, Latched, Remembered, AutoStates,
        Readies, Completions, Adrift, Leavings, Free, Done, Forget, Idle,
        Pending, sessionVars, impactVars, cycleVars, worldVars
<1>1. ASSUME AbortReturns PROVE ImpactInv'
  <2>1. CASE StopsSending /\ Leave
    BY <1>1, <2>1, Asking DEF AbortReturns, Leave, Asked, FaultAsked
  <2>2. CASE sending /\ Faults(FALSE) /\ op' = "commit" /\ UNCHANGED <<sending, fenced>>
    BY <1>1, <2>2, Asking DEF AbortReturns, Leave, Asked, FaultAsked
  <2> QED BY <1>1, <2>1, <2>2 DEF AbortReturns
<1>2. ASSUME StopReturns PROVE ImpactInv'
  <2>1. CASE sending' = sending
    BY <1>2, <2>1, Asking DEF StopReturns, ThenFaults, Asked, FaultAsked
  <2>2. CASE StopsSending
    BY <1>2, <2>2, Asking DEF StopReturns, ThenFaults, Asked, FaultAsked
  <2> QED BY <1>2, <2>1, <2>2 DEF StopReturns
<1>3. ASSUME Left PROVE ImpactInv'
  BY <1>3, Asking DEF Left, ThenFaults, Asked, FaultAsked
<1>4. ASSUME Committed PROVE ImpactInv'
  BY <1>4 DEF Committed
<1>5. ASSUME TickAborts PROVE ImpactInv'
  BY <1>5 DEF TickAborts, BeginAbort
<1>6. ASSUME TickEscalates PROVE ImpactInv'
  BY <1>6 DEF TickEscalates, Stops, BeginAbort
<1>7. ASSUME AbortAutoland PROVE ImpactInv'
  BY <1>7 DEF AbortAutoland, BeginAbort
<1>8. ASSUME StopSupervised PROVE ImpactInv'
  BY <1>8 DEF StopSupervised, Stops, BeginAbort
<1> QED BY <1>1, <1>2, <1>3, <1>4, <1>5, <1>6, <1>7, <1>8

(* An aborted impact is remembered: the commands.                          *)
LEMMA ImpactCommandSteps ==
    ASSUME Shape, FenceInv, ImpactInv
    PROVE  (\E l \in Landings : Prepare(l)) \/ (\E l \in Landings :
           Prepared(l)) \/ Start \/ Guided \/ Rejected \/ StopMotion \/
           ClearFault \/ MadeReady
           => ImpactInv'
<1> USE DEF FenceInv, Requests, ImpactInv, Latched, Remembered, AutoStates,
        Readies, Completions, Adrift, Leavings, Free, Done, Forget, Idle,
        Pending, sessionVars, impactVars, cycleVars, worldVars
<1>1. ASSUME \E l \in Landings : Prepare(l) PROVE ImpactInv'
  <2> PICK l \in Landings : Prepare(l)  BY <1>1
  <2> QED BY Asking DEF Prepare, Readying, Asked
<1>2. ASSUME \E l \in Landings : Prepared(l) PROVE ImpactInv'
  <2> PICK l \in Landings : Prepared(l)  BY <1>2
  <2> QED BY DEF Prepared, Readying
<1>3. ASSUME Start PROVE ImpactInv'
  BY <1>3 DEF Start
<1>4. ASSUME Guided PROVE ImpactInv'
  BY <1>4, Asking DEF Guided, ExecuteGuard, Asked, FaultAsked
<1>5. ASSUME Rejected PROVE ImpactInv'
  BY <1>5, Asking DEF Rejected, Asked, FaultAsked
<1>6. ASSUME StopMotion PROVE ImpactInv'
  BY <1>6, Asking DEF StopMotion, Asked, FaultAsked
<1>7. ASSUME ClearFault PROVE ImpactInv'
  BY <1>7, Asking DEF ClearFault, Asked, FaultAsked
<1>8. ASSUME MadeReady PROVE ImpactInv'
  BY <1>8, Asking DEF MadeReady, Asked, FaultAsked
<1> QED BY <1>1, <1>2, <1>3, <1>4, <1>5, <1>6, <1>7, <1>8

(* An aborted impact is remembered: the landing and its touchdown.         *)
LEMMA ImpactLandingSteps ==
    ASSUME Shape, FenceInv, ImpactInv
    PROVE  FirstUpdate \/ FenceReturns \/ TickLanding \/ Quiesced \/
           CompleteReturns \/ Landed \/ TickManual
           => ImpactInv'
<1> USE DEF FenceInv, Requests, ImpactInv, Latched, Remembered, AutoStates,
        Readies, Completions, Adrift, Leavings, Free, Done, Forget, Idle,
        Pending, sessionVars, impactVars, cycleVars, worldVars
<1>1. ASSUME FirstUpdate PROVE ImpactInv'
  BY <1>1 DEF FirstUpdate, Update, Aborts, BeginAbort, Ramps, Fences, Sends, Returns
<1>2. ASSUME FenceReturns PROVE ImpactInv'
  BY <1>2, Asking DEF FenceReturns, Asked, FaultAsked
<1>3. ASSUME TickLanding PROVE ImpactInv'
  <2>0. PICK current, down, moved, settled \in BOOLEAN :
          LET s == Sampled(current)
              a == Settling(s.age, down, moved)
          IN /\ airborne' = s.airborne
             /\ IF ~s.airborne THEN Continue(s.age) /\ UNCHANGED held
                ELSE IF Expired THEN Aborts(s.age) /\ UNCHANGED held
                ELSE IF a["touchdown"] < TouchdownConfirm
                THEN Continue(a) /\ UNCHANGED held
                ELSE IF landing = "mpc" THEN AdvanceExit(a, current, settled)
                ELSE /\ op' = "complete" /\ age' = a
                     /\ UNCHANGED <<impactVars, sending, fenced, held>>
    BY <1>3 DEF TickLanding
  <2> DEFINE s == Sampled(current)
             a == Settling(s.age, down, moved)
  <2>1. s.airborne => airborne \/ place = "air"
    BY DEF Sampled
  <2>2. op = "idle" /\ mode = "AUTO_LANDING"
        /\ UNCHANGED <<mode, change, watching, active, landing, evidence, worldVars>>
    BY <1>3 DEF TickLanding
  <2> HIDE DEF s, a
  <2>3. CASE ~s.airborne
    BY <2>0, <2>2, <2>3 DEF s, Continue, Update, Aborts, BeginAbort, Ramps, Fences, Sends, Returns
  <2>4. CASE s.airborne /\ Aborts(s.age) /\ UNCHANGED held
    BY <2>0, <2>1, <2>2, <2>4 DEF s, Aborts, BeginAbort
  <2>5. CASE s.airborne /\ Continue(a) /\ UNCHANGED held
    BY <2>0, <2>1, <2>2, <2>5 DEF s, a, Continue, Update, Aborts, BeginAbort, Ramps, Fences, Sends, Returns
  <2>6. CASE s.airborne /\ AdvanceExit(a, current, settled)
    BY <2>0, <2>1, <2>2, <2>6 DEF s, AdvanceExit, Dwells, Continue, Update, Aborts, BeginAbort, Ramps,
       Fences, Sends, Returns
  <2>7. CASE /\ s.airborne /\ op' = "complete" /\ landing # "mpc"
             /\ UNCHANGED <<impactVars, sending, fenced, held>>
    BY <2>0, <2>1, <2>2, <2>7 DEF s
  <2> QED BY <2>0, <2>3, <2>4, <2>5, <2>6, <2>7 DEF s, a
<1>4. ASSUME Quiesced PROVE ImpactInv'
  <2>1. CASE op' = "abort"
    BY <1>4, <2>1, Asking DEF Quiesced, BeginAbort, Dwells, Asked, FaultAsked
  <2>2. CASE StopsSending /\ op' # "abort"
    BY <1>4, <2>2, Asking DEF Quiesced, BeginAbort, Dwells, Asked, FaultAsked
  <2>3. CASE sending /\ Faults(FALSE) /\ op' = "commit" /\ UNCHANGED <<sending, fenced, impactVars>>
    BY <1>4, <2>3, Asking DEF Quiesced, BeginAbort, Dwells, Asked, FaultAsked
  <2> QED BY <1>4, <2>1, <2>2, <2>3 DEF Quiesced
<1>5. ASSUME CompleteReturns PROVE ImpactInv'
  <2>1. CASE Exits
    BY <1>5, <2>1, Asking DEF CompleteReturns, Exits, TouchdownGuard, Asked
  <2>2. CASE op' = "abort"
    BY <1>5, <2>2, Asking DEF CompleteReturns, Exits, BeginAbort
  <2>3. CASE Faults(FALSE) /\ op' = "commit" /\ UNCHANGED impactVars
    BY <1>5, <2>3, Asking DEF CompleteReturns, Asked, FaultAsked
  <2>4. CASE op' = "idle" /\ UNCHANGED <<change, impactVars>>
    <3>1. op \in Completions /\ UNCHANGED <<mode, airborne, place>>
      BY <1>5 DEF CompleteReturns
    <3> QED BY <2>4, <3>1
  <2>5. Exits \/ op' = "abort" \/ (Faults(FALSE) /\ op' = "commit" /\ UNCHANGED impactVars)
        \/ (op' = "idle" /\ UNCHANGED <<change, impactVars>>)
    BY <1>5 DEF CompleteReturns, BeginAbort
  <2> QED BY <2>1, <2>2, <2>3, <2>4, <2>5
<1>6. ASSUME Landed PROVE ImpactInv'
  BY <1>6, Asking DEF Landed, Asked, FaultAsked
<1>7. ASSUME TickManual PROVE ImpactInv'
  <2>0. PICK current, down, moved \in BOOLEAN :
          LET s == Sampled(current)
              a == IF latched THEN Lifting(Stopped(s.age, {"touchdown"}), current)
                   ELSE Settling(s.age, down, moved)
          IN /\ airborne' = s.airborne
             /\ IF ~s.airborne THEN age' = s.age /\ Done /\ UNCHANGED impactVars
                ELSE IF latched
                THEN /\ latched' = ~Lifted(a) /\ UNCHANGED impact
                     /\ age' = IF Lifted(a) THEN Stopped(a, {"lifted", "looked"}) ELSE a
                     /\ Done
                ELSE /\ age' = a /\ UNCHANGED impactVars
                     /\ IF a["touchdown"] < TouchdownConfirm THEN Done
                        ELSE op' = "complete"
    BY <1>7 DEF TickManual
  <2>1. Sampled(current).airborne => airborne \/ place = "air"
    BY DEF Sampled
  <2>2. op = "idle" /\ mode = "FLIGHT_MANUAL"
        /\ UNCHANGED <<mode, change, watching, sessionVars, worldVars>>
    BY <1>7 DEF TickManual
  <2>3. Lifted(Lifting(Stopped(Sampled(current).age, {"touchdown"}), current)) => place = "air"
    BY Lifts
  <2> QED BY <2>0, <2>1, <2>2, <2>3
<1> QED BY <1>1, <1>2, <1>3, <1>4, <1>5, <1>6, <1>7

(* An aborted impact is remembered: the rest.                              *)
LEMMA ImpactWorldSteps ==
    ASSUME Shape, FenceInv, ImpactInv
    PROVE  TickCommits \/ TickIdles \/ World \/ EvidenceArrives \/ Elapse
           => ImpactInv'
<1> USE DEF FenceInv, Requests, ImpactInv, Latched, Remembered, AutoStates,
        Readies, Completions, Adrift, Leavings, Free, Done, Forget, Idle,
        Pending, sessionVars, impactVars, cycleVars, worldVars
<1>1. ASSUME TickCommits PROVE ImpactInv'
  BY <1>1, Asking DEF TickCommits, MonitorFails, TakeoffGuard, Asked, FaultAsked
<1>2. ASSUME TickIdles PROVE ImpactInv'
  BY <1>2 DEF TickIdles
<1>3. ASSUME World PROVE ImpactInv'
  <2>1. CASE Arms  BY <1>3, <2>1 DEF World, Arms
  <2>2. CASE Disarms  BY <1>3, <2>2 DEF World, Disarms
  <2>3. CASE LiftsOff  BY <1>3, <2>3 DEF World, LiftsOff
  <2>4. CASE TouchesDown  BY <1>3, <2>4 DEF World, TouchesDown
  <2>5. CASE Pilots  BY <1>3, <2>5 DEF World, Pilots
  <2> QED BY <1>3, <2>1, <2>2, <2>3, <2>4, <2>5 DEF World
<1>4. ASSUME EvidenceArrives PROVE ImpactInv'
  BY <1>4 DEF EvidenceArrives
<1>5. ASSUME Elapse PROVE ImpactInv'
  BY <1>5 DEF Elapse
<1> QED BY <1>1, <1>2, <1>3, <1>4, <1>5

-----------------------------------------------------------------------------
(* What an exit rests on is not disturbed while its transition is          *)
(* committed.                                                              *)

(* An exit stays earned: the transitions.                                  *)
LEMMA DwellCommitSteps ==
    ASSUME Shape, Ages, FenceInv, DwellInv
    PROVE  WriteState \/ EntryEnds
           => DwellInv'
<1> USE DEF FenceInv, Requests, DwellInv, Selected, Earned, Readies, Leavings,
        Free, Done, Forget, Idle, Pending, sessionVars, impactVars, cycleVars,
        worldVars
<1>1. ASSUME WriteState PROVE DwellInv'
  <2>1. age'["stable"] = age["stable"]
    BY <1>1 DEF WriteState, Stopped, Timer
  <2> QED BY <1>1, <2>1 DEF WriteState, Shape
<1>2. ASSUME EntryEnds PROVE DwellInv'
  BY <1>2 DEF EntryEnds, Shape
<1> QED BY <1>1, <1>2

(* An exit stays earned: the aborts and stops.                             *)
LEMMA DwellStopSteps ==
    ASSUME Shape, Ages, FenceInv, DwellInv
    PROVE  AbortReturns \/ StopReturns \/ Left \/ Committed \/ TickAborts \/
           TickEscalates \/ AbortAutoland \/ StopSupervised
           => DwellInv'
<1> USE DEF FenceInv, Requests, DwellInv, Selected, Earned, Readies, Leavings,
        Free, Done, Forget, Idle, Pending, sessionVars, impactVars, cycleVars,
        worldVars
<1>1. ASSUME AbortReturns PROVE DwellInv'
  BY <1>1 DEF AbortReturns, Leave, Begins, Faults
<1>2. ASSUME StopReturns PROVE DwellInv'
  BY <1>2 DEF StopReturns, ThenFaults, Begins, Faults
<1>3. ASSUME Left PROVE DwellInv'
  BY <1>3 DEF Left, ThenFaults, Faults
<1>4. ASSUME Committed PROVE DwellInv'
  BY <1>4 DEF Committed
<1>5. ASSUME TickAborts PROVE DwellInv'
  BY <1>5 DEF TickAborts, BeginAbort
<1>6. ASSUME TickEscalates PROVE DwellInv'
  BY <1>6 DEF TickEscalates, Stops, BeginAbort
<1>7. ASSUME AbortAutoland PROVE DwellInv'
  BY <1>7 DEF AbortAutoland, BeginAbort
<1>8. ASSUME StopSupervised PROVE DwellInv'
  BY <1>8 DEF StopSupervised, Stops, BeginAbort
<1> QED BY <1>1, <1>2, <1>3, <1>4, <1>5, <1>6, <1>7, <1>8

(* An exit stays earned: the commands.                                     *)
LEMMA DwellCommandSteps ==
    ASSUME Shape, Ages, FenceInv, DwellInv
    PROVE  (\E l \in Landings : Prepare(l)) \/ (\E l \in Landings :
           Prepared(l)) \/ Start \/ Guided \/ Rejected \/ StopMotion \/
           ClearFault \/ MadeReady
           => DwellInv'
<1> USE DEF FenceInv, Requests, DwellInv, Selected, Earned, Readies, Leavings,
        Free, Done, Forget, Idle, Pending, sessionVars, impactVars, cycleVars,
        worldVars
<1>1. ASSUME \E l \in Landings : Prepare(l) PROVE DwellInv'
  <2> PICK l \in Landings : Prepare(l)  BY <1>1
  <2> QED BY Asking DEF Prepare, Readying, Asked
<1>2. ASSUME \E l \in Landings : Prepared(l) PROVE DwellInv'
  <2> PICK l \in Landings : Prepared(l)  BY <1>2
  <2> QED BY DEF Prepared, Readying
<1>3. ASSUME Start PROVE DwellInv'
  BY <1>3 DEF Start
<1>4. ASSUME Guided PROVE DwellInv'
  BY <1>4 DEF Guided, ExecuteGuard, Begins
<1>5. ASSUME Rejected PROVE DwellInv'
  BY <1>5 DEF Rejected, Faults
<1>6. ASSUME StopMotion PROVE DwellInv'
  BY <1>6 DEF StopMotion, Faults
<1>7. ASSUME ClearFault PROVE DwellInv'
  BY <1>7 DEF ClearFault, Begins
<1>8. ASSUME MadeReady PROVE DwellInv'
  BY <1>8 DEF MadeReady, Begins
<1> QED BY <1>1, <1>2, <1>3, <1>4, <1>5, <1>6, <1>7, <1>8

(* An exit stays earned: the landing and its touchdown.                    *)
LEMMA DwellLandingSteps ==
    ASSUME Shape, Ages, FenceInv, DwellInv
    PROVE  FirstUpdate \/ FenceReturns \/ TickLanding \/ Quiesced \/
           CompleteReturns \/ Landed \/ TickManual
           => DwellInv'
<1> USE DEF FenceInv, Requests, DwellInv, Selected, Earned, Readies, Leavings,
        Free, Done, Forget, Idle, Pending, sessionVars, impactVars, cycleVars,
        worldVars
<1>1. ASSUME FirstUpdate PROVE DwellInv'
  BY <1>1 DEF FirstUpdate, Update, Aborts, BeginAbort, Ramps, Fences, Sends, Returns
<1>2. ASSUME FenceReturns PROVE DwellInv'
  BY <1>2 DEF FenceReturns, Faults
<1>3. ASSUME TickLanding PROVE DwellInv'
  <2>0. PICK current, down, moved, settled \in BOOLEAN :
          LET s == Sampled(current)
              a == Settling(s.age, down, moved)
          IN /\ airborne' = s.airborne
             /\ IF ~s.airborne THEN Continue(s.age) /\ UNCHANGED held
                ELSE IF Expired THEN Aborts(s.age) /\ UNCHANGED held
                ELSE IF a["touchdown"] < TouchdownConfirm
                THEN Continue(a) /\ UNCHANGED held
                ELSE IF landing = "mpc" THEN AdvanceExit(a, current, settled)
                ELSE /\ op' = "complete" /\ age' = a
                     /\ UNCHANGED <<impactVars, sending, fenced, held>>
    BY <1>3 DEF TickLanding
  <2> DEFINE s == Sampled(current)
             a == Settling(s.age, down, moved)
  <2>1. s.airborne => airborne \/ place = "air"
    BY DEF Sampled
  <2>2. op = "idle" /\ mode = "AUTO_LANDING"
        /\ UNCHANGED <<mode, change, watching, active, landing, evidence, worldVars>>
    BY <1>3 DEF TickLanding
  <2> HIDE DEF s, a
  <2>3. CASE ~s.airborne
    BY <2>0, <2>2, <2>3 DEF s, Continue, Update, Aborts, BeginAbort, Ramps, Fences, Sends, Returns
  <2>4. CASE s.airborne /\ Aborts(s.age) /\ UNCHANGED held
    BY <2>0, <2>1, <2>2, <2>4 DEF s, Aborts, BeginAbort
  <2>5. CASE s.airborne /\ Continue(a) /\ UNCHANGED held
    BY <2>0, <2>1, <2>2, <2>5 DEF s, a, Continue, Update, Aborts, BeginAbort, Ramps, Fences, Sends, Returns
  <2>6. CASE s.airborne /\ AdvanceExit(a, current, settled)
    BY <2>0, <2>1, <2>2, <2>6 DEF s, AdvanceExit, Dwells, Continue, Update, Aborts, BeginAbort, Ramps,
       Fences, Sends, Returns
  <2>7. CASE /\ s.airborne /\ op' = "complete" /\ landing # "mpc"
             /\ UNCHANGED <<impactVars, sending, fenced, held>>
    BY <2>0, <2>1, <2>2, <2>7 DEF s
  <2> QED BY <2>0, <2>3, <2>4, <2>5, <2>6, <2>7 DEF s, a
<1>4. ASSUME Quiesced PROVE DwellInv'
  BY <1>4 DEF Quiesced, BeginAbort, Dwells, Faults
<1>5. ASSUME CompleteReturns PROVE DwellInv'
  BY <1>5 DEF CompleteReturns, Exits, TouchdownGuard, Begins, StillEarned, BeginAbort, Faults
<1>6. ASSUME Landed PROVE DwellInv'
  BY <1>6 DEF Landed, Faults
<1>7. ASSUME TickManual PROVE DwellInv'
  <2>0. PICK current, down, moved \in BOOLEAN :
          LET s == Sampled(current)
              a == IF latched THEN Lifting(Stopped(s.age, {"touchdown"}), current)
                   ELSE Settling(s.age, down, moved)
          IN /\ airborne' = s.airborne
             /\ IF ~s.airborne THEN age' = s.age /\ Done /\ UNCHANGED impactVars
                ELSE IF latched
                THEN /\ latched' = ~Lifted(a) /\ UNCHANGED impact
                     /\ age' = IF Lifted(a) THEN Stopped(a, {"lifted", "looked"}) ELSE a
                     /\ Done
                ELSE /\ age' = a /\ UNCHANGED impactVars
                     /\ IF a["touchdown"] < TouchdownConfirm THEN Done
                        ELSE op' = "complete"
    BY <1>7 DEF TickManual
  <2>1. Sampled(current).airborne => airborne \/ place = "air"
    BY DEF Sampled
  <2>2. op = "idle" /\ mode = "FLIGHT_MANUAL"
        /\ UNCHANGED <<mode, change, watching, sessionVars, worldVars>>
    BY <1>7 DEF TickManual
  <2>3. Lifted(Lifting(Stopped(Sampled(current).age, {"touchdown"}), current)) => place = "air"
    BY Lifts
  <2> QED BY <2>0, <2>1, <2>2, <2>3
<1> QED BY <1>1, <1>2, <1>3, <1>4, <1>5, <1>6, <1>7

(* An exit stays earned: the rest.                                         *)
LEMMA DwellWorldSteps ==
    ASSUME Shape, Ages, FenceInv, DwellInv
    PROVE  TickCommits \/ TickIdles \/ World \/ EvidenceArrives \/ Elapse
           => DwellInv'
<1> USE DEF FenceInv, Requests, DwellInv, Selected, Earned, Readies, Leavings,
        Free, Done, Forget, Idle, Pending, sessionVars, impactVars, cycleVars,
        worldVars
<1>1. ASSUME TickCommits PROVE DwellInv'
  BY <1>1 DEF TickCommits, Begins, MonitorFails, TakeoffGuard
<1>2. ASSUME TickIdles PROVE DwellInv'
  BY <1>2 DEF TickIdles
<1>3. ASSUME World PROVE DwellInv'
  BY <1>3 DEF World, Arms, Disarms, LiftsOff, TouchesDown, Pilots, Receive
<1>4. ASSUME EvidenceArrives PROVE DwellInv'
  BY <1>4 DEF EvidenceArrives
<1>5. ASSUME Elapse PROVE DwellInv'
  BY <1>5, Dwelt DEF Elapse
<1> QED BY <1>1, <1>2, <1>3, <1>4, <1>5

-----------------------------------------------------------------------------
AutolandInv == Shape /\ Ages /\ FenceInv /\ ImpactInv /\ DwellInv

(* The records keep their fields.                                          *)
LEMMA ShapeStays == ASSUME Shape, Next PROVE Shape'
<1> USE DEF Shape
<1>1. ASSUME NEW to, Begins(to) PROVE Shape'
  BY <1>1 DEF Begins
<1>2. ASSUME NEW muted, Faults(muted) PROVE Shape'
  BY <1>2 DEF Faults
<1>3. Begins("FLIGHT_READY") \/ Begins("FLIGHT_MANUAL") \/ Begins("AUTO_LANDING_READY")
      \/ Begins("AUTO_LANDING") \/ Begins("TOUCHDOWN_VERIFY") \/ Begins("BOOT_SAFE")
      \/ Faults(TRUE) \/ Faults(FALSE) \/ UNCHANGED change \/ Commits
  BY DEF Next, Tick, TickLanding, TickManual, TickCommits, TickAborts, TickEscalates,
         TickIdles, MonitorFails, Resumes, AbortReturns, Leave, StopReturns, Left, Committed,
         Prepared, Guided, Rejected, FirstUpdate, FenceReturns, Quiesced, CompleteReturns,
         Exits, Landed, Commands, Prepare, Start, AbortAutoland, StopSupervised, StopMotion,
         ClearFault, MadeReady, World, EvidenceArrives, Elapse
<1>4. CASE Commits
  BY <1>4 DEF Commits, WriteState, EntryEnds, Idle
<1> QED BY <1>1, <1>2, <1>3, <1>4

(* The timers are integers.                                                *)
LEMMA AgesStay == ASSUME Ages, Next PROVE Ages'
<1> USE DEF Ages
<1>1. \A a \in [Timer -> Int] : \A ts : Stopped(a, ts) \in [Timer -> Int] /\ Started(a, ts) \in [Timer -> Int]
  BY DEF Stopped, Started, Off
<1>2. ASSUME NEW a \in [Timer -> Int], NEW t PROVE Begun(a, t) \in [Timer -> Int]
  BY <1>1 DEF Begun
<1>3. ASSUME NEW current PROVE Sampled(current).age \in [Timer -> Int]
  <2>1. CASE airborne  BY <2>1 DEF Sampled
  <2>2. CASE ~airborne /\ ~(current /\ armed /\ place = "air")  BY <1>1, <2>2 DEF Sampled
  <2>3. CASE ~airborne /\ (current /\ armed /\ place = "air")
    BY <1>1, <1>2, <2>3 DEF Sampled
  <2> QED BY <2>1, <2>2, <2>3
<1>4. ASSUME NEW a \in [Timer -> Int], NEW down, NEW moved PROVE Settling(a, down, moved) \in [Timer -> Int]
  BY <1>1, <1>4 DEF Settling
<1>5. ASSUME NEW a \in [Timer -> Int], NEW flies PROVE Lifting(a, flies) \in [Timer -> Int]
  BY <1>1, <1>5 DEF Lifting
<1>6. ASSUME NEW a \in [Timer -> Int], NEW next, BeginAbort(a, next) PROVE Ages'
  BY <1>1, <1>6 DEF BeginAbort
<1>7. ASSUME NEW a \in [Timer -> Int], Continue(a) \/ Update(a) \/ Returns(a) \/ Aborts(a) PROVE Ages'
  BY <1>2, <1>6, <1>7 DEF Continue, Update, Returns, Aborts, Ramps, Fences, Sends
<1>8. ASSUME NEW a \in [Timer -> Int], NEW settled, Dwells(a, settled) PROVE Ages'
  <2>1. age' = Stopped(a, Dwell) \/ age' = Started(a, Dwell) \/ age' = Started(a, {"seen"})
    BY <1>8 DEF Dwells
  <2> QED BY <1>1, <2>1
<1>9. ASSUME NEW a \in [Timer -> Int], NEW current, NEW settled, AdvanceExit(a, current, settled) PROVE Ages'
  <2>1. Begun(a, "wait") \in [Timer -> Int]
    BY <1>2
  <2>2. Stopped(Begun(a, "wait"), Dwell) \in [Timer -> Int] /\ Begun(Begun(a, "wait"), "finalize") \in [Timer -> Int]
    BY <1>1, <1>2, <2>1
  <2>3. \/ Continue(Stopped(Begun(a, "wait"), Dwell))
        \/ age' = Begun(Begun(a, "wait"), "finalize")
        \/ Dwells(Begun(Begun(a, "wait"), "finalize"), settled)
    BY <1>9 DEF AdvanceExit
  <2> QED BY <1>7, <1>8, <2>2, <2>3
<1>10. CASE TickLanding
  <2> PICK current, down, moved, settled \in BOOLEAN :
         LET s == Sampled(current)
             a == Settling(s.age, down, moved)
         IN IF ~s.airborne THEN Continue(s.age) /\ UNCHANGED held
            ELSE IF Expired THEN Aborts(s.age) /\ UNCHANGED held
            ELSE IF a["touchdown"] < TouchdownConfirm
            THEN Continue(a) /\ UNCHANGED held
            ELSE IF landing = "mpc" THEN AdvanceExit(a, current, settled)
            ELSE age' = a
    BY <1>10 DEF TickLanding
  <2>1. Sampled(current).age \in [Timer -> Int]
    BY <1>3
  <2>2. Settling(Sampled(current).age, down, moved) \in [Timer -> Int]
    BY <1>4, <2>1
  <2> QED BY <1>7, <1>9, <2>1, <2>2
<1>11. CASE TickManual
  <2> PICK current, down, moved \in BOOLEAN :
         LET s == Sampled(current)
             a == IF latched THEN Lifting(Stopped(s.age, {"touchdown"}), current)
                  ELSE Settling(s.age, down, moved)
         IN IF ~s.airborne THEN age' = s.age
            ELSE IF latched THEN age' = IF Lifted(a) THEN Stopped(a, {"lifted", "looked"}) ELSE a
            ELSE age' = a
    BY <1>11 DEF TickManual
  <2>1. Sampled(current).age \in [Timer -> Int]
    BY <1>3
  <2>2. Settling(Sampled(current).age, down, moved) \in [Timer -> Int]
    BY <1>4, <2>1
  <2>3. Lifting(Stopped(Sampled(current).age, {"touchdown"}), current) \in [Timer -> Int]
    BY <1>1, <1>5, <2>1
  <2> QED BY <1>1, <2>1, <2>2, <2>3
<1>12. CASE Elapse
  <2>1. \A t \in Timer : age[t] \in Int
    OBVIOUS
  <2> QED BY <1>12, <2>1 DEF Elapse
<1>13. CASE Quiesced
  BY <1>6, <1>8, <1>13 DEF Quiesced
<1>14. CASE CompleteReturns
  BY <1>1, <1>6, <1>14 DEF CompleteReturns
<1>15. CASE FirstUpdate
  BY <1>7, <1>15 DEF FirstUpdate
<1>16. CASE TickAborts \/ TickEscalates \/ AbortAutoland \/ StopSupervised
  BY <1>6, <1>16 DEF TickAborts, TickEscalates, AbortAutoland, StopSupervised, Stops
<1>17. CASE Commits
  BY <1>1, <1>17 DEF Commits, WriteState, EntryEnds
<1>18. CASE AbortReturns \/ StopReturns \/ Landed
  BY ZenonT(60), <1>1, <1>18 DEF AbortReturns, Leave, StopReturns, Landed
<1>19. CASE \E l \in Landings : Prepare(l) \/ Prepared(l)
  BY <1>1, <1>19 DEF Prepare, Prepared
<1>20. CASE UNCHANGED age
  BY <1>20
<1> QED
  BY <1>10, <1>11, <1>12, <1>13, <1>14, <1>15, <1>16, <1>17, <1>18, <1>19, <1>20
  DEF Next, Tick, TickCommits, TickIdles, Resumes, Left, Committed, Guided, Rejected, FenceReturns,
      Commands, Start, StopMotion, ClearFault, MadeReady, World, EvidenceArrives

(* The invariant holds in every reachable state.                           *)
THEOREM AutolandInvariant == Spec => []AutolandInv
<1> USE DEF AutolandInv
<1>1. Init => AutolandInv
  BY DEF Init, Idle, Shape, Ages, Off, FenceInv, Requests, Unfenced, FencedIsQuiet, Quiet, ImpactInv, Latched,
         Remembered, DwellInv, Selected, Earned, Free, Pending, Readies, Leavings, Completions, Adrift,
         AutoStates
<1>2. AutolandInv /\ [Next]_vars => AutolandInv'
  <2> SUFFICES ASSUME AutolandInv, [Next]_vars PROVE AutolandInv'
    OBVIOUS
  <2>1. CASE Next
    <3>1. Shape' /\ Ages'
      BY ShapeStays, AgesStay, <2>1
    <3>2. FenceInv'
      BY FenceCommitSteps, FenceStopSteps, FenceCommandSteps, FenceLandingSteps, FenceWorldSteps, <2>1
      DEF Next, Tick, Commits, Resumes, Commands
    <3>3. ImpactInv'
      BY ImpactCommitSteps, ImpactStopSteps, ImpactCommandSteps, ImpactLandingSteps, ImpactWorldSteps, <2>1
      DEF Next, Tick, Commits, Resumes, Commands
    <3>4. DwellInv'
      BY DwellCommitSteps, DwellStopSteps, DwellCommandSteps, DwellLandingSteps, DwellWorldSteps, <2>1
      DEF Next, Tick, Commits, Resumes, Commands
    <3> QED BY <3>1, <3>2, <3>3, <3>4
  <2>2. CASE UNCHANGED vars
    <3> USE DEF vars, sessionVars, cycleVars, impactVars, worldVars, Free, Pending
    <3>1. Shape' /\ Ages'
      BY <2>2 DEF Shape, Ages
    <3>2. Requests'
      BY <2>2 DEF FenceInv, Requests
    <3>3. (Unfenced /\ FencedIsQuiet /\ Quiet)'
      BY <2>2 DEF FenceInv, Unfenced, FencedIsQuiet, Quiet
    <3>4. Latched'
      BY <2>2 DEF ImpactInv, Latched
    <3>5. Remembered'
      BY <2>2 DEF ImpactInv, Remembered, Adrift
    <3>6. DwellInv'
      BY <2>2 DEF DwellInv, Selected, Earned
    <3> QED BY <3>1, <3>2, <3>3, <3>4, <3>5, <3>6 DEF FenceInv, ImpactInv
  <2> QED BY <2>1, <2>2
<1> QED BY <1>1, <1>2, PTL DEF Spec

(* Once recovery has fenced a session no setpoint is sent in it again,     *)
(* whatever stops, faults or takes over beside the landing                 *)
(* (_update_autoland_unlocked).                                            *)
THEOREM FencedStaysQuiet == Spec => []FencedIsQuiet
<1>1. AutolandInv => FencedIsQuiet
  BY DEF AutolandInv, FenceInv
<1> QED BY <1>1, AutolandInvariant, PTL

(* A vehicle whose recovery was aborted on the ground is not taken for     *)
(* landed before it has flown again (_aborted_impact_touchdown_latched).   *)
THEOREM NoLandingFromImpact == Spec => ImpactIsNoLanding
<1>1. AutolandInv /\ [Next]_vars => [Landing => ~impact]_vars
  <2> SUFFICES ASSUME AutolandInv, Next, Landing PROVE ~impact
    OBVIOUS
  <2>1. WriteState
    BY StateMoves DEF Landing
  <2>2. Pending("TOUCHDOWN_VERIFY")
    BY <2>1 DEF WriteState, Landing, Pending, Free
  <2> QED BY <2>2 DEF AutolandInv, FenceInv, Requests, ImpactInv, Remembered
<1> QED BY <1>1, AutolandInvariant, PTL DEF Spec, ImpactIsNoLanding

(* A landing is given back to the pilot, or confirmed, only once its       *)
(* setpoints have stopped; a confirmed impact-aware one rests besides on   *)
(* the fence, the safe hold and the whole dwell (_advance_impact_exit).    *)
THEOREM ExitsAreEarned == Spec => ExitIsEarned
<1>1. AutolandInv /\ [Next]_vars => [HandsOver => ~sending']_vars
  <2> SUFFICES ASSUME AutolandInv, Next, HandsOver PROVE ~sending'
    OBVIOUS
  <2>1. WriteState
    BY StateMoves DEF HandsOver, AutoStates
  <2>2. Pending("TOUCHDOWN_VERIFY") \/ Pending("FLIGHT_MANUAL")
    BY <2>1 DEF WriteState, HandsOver, Pending, Free
  <2>3. op \in Leavings \cup {"landed"}
    BY <2>2 DEF AutolandInv, FenceInv, Requests, HandsOver, AutoStates
  <2>4. ~sending
    BY <2>3 DEF AutolandInv, FenceInv, Quiet
  <2> QED BY <2>1, <2>4 DEF WriteState
<1>2. AutolandInv /\ [Next]_vars =>
        [Landing /\ landing = "mpc"
           => fenced /\ held /\ age["stable"] >= StableConfirm]_vars
  <2> SUFFICES ASSUME AutolandInv, Next, Landing, landing = "mpc"
               PROVE  fenced /\ held /\ age["stable"] >= StableConfirm
    OBVIOUS
  <2>1. WriteState
    BY StateMoves DEF Landing
  <2>2. Pending("TOUCHDOWN_VERIFY")
    BY <2>1 DEF WriteState, Landing, Pending, Free
  <2>3. op = "landed"
    BY <2>2 DEF AutolandInv, FenceInv, Requests
  <2> QED BY <2>3 DEF AutolandInv, DwellInv, Earned
<1> QED BY <1>1, <1>2, AutolandInvariant, PTL DEF Spec, ExitIsEarned, HandsOverQuiet, WholeDwell

-----------------------------------------------------------------------------
(* The session of the landing runtime. *)

(* A fault is latched from the first trip on, and nothing is published     *)
(* then.                                                                   *)
Latching ==
    /\ safety.latched <=> safety.task # "none"
    /\ safety.latched => mail = [gen |-> Tripped, policy |-> None]
    /\ worker.at = "draining" => safety.latched /\ ~worker.running

(* The one activation: it is the worker's, the supervisor knows of it      *)
(* until it has drained, and what it brought up is its own residual.       *)
Activation ==
    /\ worker.at \notin {"activating", "draining"} => act = NoActivation
    /\ worker.at = "activating" => act.of = [seq |-> worker.seq, gen |-> worker.gen]
    /\ ~Drained => safety.active
    /\ safety.active => worker.at \in {"activating", "draining"}
    /\ act.at = "ok" => act.up
    /\ act.up => register \in {NoResidual, act.of}

(* The rotor side of a fallback, clear by clear: without an activation, or *)
(* after it has drained, nothing is left that could bring a residual up,   *)
(* so a clear that succeeds then is final.                                 *)
RotorSide ==
    /\ safety.fc \in {"clearing", "drain", "again"} => safety.task = "run"
    /\ safety.task = "run" /\ (safety.had => safety.fc \in {"again", "ok", "failed"}) => Drained
    /\ safety.task \in {"run", "ok"} /\ safety.fc = "ok" => register = NoResidual /\ Drained
    /\ safety.task = "ok" => safety.fc = "ok" /\ rv = "ok"

(* The leg side: a revoke is registered before it waits, so behind its     *)
(* lock no submission is left and none can come.                           *)
LegSide ==
    /\ rv # "none" => exec.revoked
    /\ rv \in {"task", "ok", "failed"} => sub.at \notin Locked
    /\ rv = "ok" => target = "none"

(* The records have their fields. *)
RuntimeShape ==
    /\ DOMAIN mail = {"gen", "policy"}
    /\ DOMAIN worker = {"at", "running", "seq", "gen", "last", "pending", "pgen"}
    /\ DOMAIN act = {"at", "of", "up", "cancelled"}
    /\ DOMAIN safety = {"latched", "task", "active", "had", "first", "waits", "fc"}
    /\ DOMAIN hr = {"at", "latched", "gen", "policy", "replan"}
    /\ DOMAIN exec = {"revoked", "task"}
    /\ DOMAIN sub = {"at", "staged", "cancelled"}

RuntimeInv ==
    /\ RuntimeShape /\ Latching /\ Activation /\ RotorSide /\ LegSide
    /\ LegsMatchRotors /\ OldResidualIsHandled

(* The supervisor: the two sides of the fallback and its report.           *)
LEMMA FallbackSteps ==
    ASSUME RuntimeInv
    PROVE  FallbackStarts \/ FirstClear \/ StageDrained \/ SecondClear \/
           FallbackEnds \/ SafetyTrips \/ SafetyPass \/ SafetyReports
           => RuntimeInv'
<1> USE DEF RuntimeInv, RuntimeShape, Latching, Activation, RotorSide, LegSide, LegsMatchRotors,
          OldResidualIsHandled, Drained, NoActivation, NoResidual, Results, Locked
<1>1. ASSUME FallbackStarts PROVE RuntimeInv'
  <2>1. CASE safety.active
    BY <1>1, <2>1 DEF FallbackStarts, CancelActivation, RevokeCalled, Register, GetOrStartRevoke
  <2>2. CASE ~safety.active
    BY <1>1, <2>2 DEF FallbackStarts, RevokeCalled, Register, GetOrStartRevoke
  <2> QED BY <2>1, <2>2
<1>2. ASSUME FirstClear PROVE RuntimeInv'
  BY <1>2 DEF FirstClear, Cleared, goVars
<1>3. ASSUME StageDrained PROVE RuntimeInv'
  BY <1>3 DEF StageDrained, goVars
<1>4. ASSUME SecondClear PROVE RuntimeInv'
  BY <1>4 DEF SecondClear, Cleared, goVars
<1>5. ASSUME FallbackEnds PROVE RuntimeInv'
  BY <1>5 DEF FallbackEnds, goVars
<1>6. ASSUME SafetyTrips PROVE RuntimeInv'
  BY <1>6 DEF SafetyTrips, TripWith, goVars
<1>7. ASSUME SafetyPass PROVE RuntimeInv'
  BY <1>7 DEF SafetyPass, goVars
<1>8. ASSUME SafetyReports PROVE RuntimeInv'
  BY <1>8 DEF SafetyReports, goVars
<1> QED BY <1>1, <1>2, <1>3, <1>4, <1>5, <1>6, <1>7, <1>8

(* The worker: nothing is activated or published once a fault is latched.  *)
LEMMA WorkerSteps ==
    ASSUME RuntimeInv
    PROVE  SubmitSnapshot \/ TakesSnapshot \/ SolverOverruns \/ SolverFails \/
           Solved \/ Audited \/ ActivationReturns \/ ActivationOverruns \/
           WorkerStops \/ WorkerDrains \/ WorkerEnds
           => RuntimeInv'
<1> USE DEF RuntimeInv, RuntimeShape, Latching, Activation, RotorSide, LegSide, LegsMatchRotors,
          OldResidualIsHandled, Drained, NoActivation, NoResidual, Results, Locked
<1>1. ASSUME SubmitSnapshot PROVE RuntimeInv'
  BY <1>1 DEF SubmitSnapshot, goVars
<1>2. ASSUME TakesSnapshot PROVE RuntimeInv'
  BY <1>2 DEF TakesSnapshot, goVars
<1>3. ASSUME SolverOverruns PROVE RuntimeInv'
  BY <1>3 DEF SolverOverruns, Faulting, Trip, TripWith, goVars
<1>4. ASSUME SolverFails PROVE RuntimeInv'
  <2>1. CASE IsLatest
    <3>1. /\ worker.at \in {"solving", "auditing"}
          /\ Faulting("faulting") /\ Trip
          /\ UNCHANGED <<goVars, act, register, rclear, hr>>
      BY <1>4, <2>1 DEF SolverFails
    <3> QED BY <3>1 DEF Faulting, Trip, TripWith, goVars
  <2>2. CASE ~IsLatest
    BY <1>4, <2>2 DEF SolverFails, goVars
  <2> QED BY <2>1, <2>2
<1>5. ASSUME Solved PROVE RuntimeInv'
  BY <1>5 DEF Solved, goVars
<1>6. ASSUME Audited PROVE RuntimeInv'
  BY <1>6 DEF Audited, IsLatest, goVars
<1>7. ASSUME ActivationReturns PROVE RuntimeInv'
  <2>1. CASE /\ act.at = "ok" /\ IsLatest
              /\ worker' = [worker EXCEPT !.at = "idle"]
              /\ mail' = [mail EXCEPT !.policy = worker.seq]
              /\ safety' = [safety EXCEPT !.active = FALSE]
    BY <1>7, <2>1 DEF ActivationReturns, IsLatest, goVars
  <2>2. CASE Faulting("faulting") /\ TripWith(FALSE, safety.waits)
    BY <1>7, <2>2 DEF ActivationReturns, Faulting, TripWith, goVars
  <2> QED BY <1>7, <2>1, <2>2 DEF ActivationReturns
<1>8. ASSUME ActivationOverruns PROVE RuntimeInv'
  BY <1>8 DEF ActivationOverruns, Faulting, Trip, TripWith, CancelActivation, goVars
<1>9. ASSUME WorkerStops PROVE RuntimeInv'
  <2>1. CASE worker.at = "activating"
    BY <1>9, <2>1 DEF WorkerStops, Faulting, Trip, TripWith, CancelActivation, goVars
  <2>2. CASE worker.at # "activating"
    BY <1>9, <2>2 DEF WorkerStops, Faulting, Trip, TripWith, goVars
  <2> QED BY <2>1, <2>2
<1>10. ASSUME WorkerDrains PROVE RuntimeInv'
  BY <1>10 DEF WorkerDrains, goVars
<1>11. ASSUME WorkerEnds PROVE RuntimeInv'
  BY <1>11 DEF WorkerEnds, goVars
<1> QED BY <1>1, <1>2, <1>3, <1>4, <1>5, <1>6, <1>7, <1>8, <1>9, <1>10, <1>11

(* The sink and the flight controller: a send brings up its own residual.  *)
LEMMA SinkSteps ==
    ASSUME RuntimeInv
    PROVE  SendStarts \/ ResidualUp \/ SendEnds \/ ContactClearEnds \/ LeaseEnds
           \/ PolicyExpires
           => RuntimeInv'
<1> USE DEF RuntimeInv, RuntimeShape, Latching, Activation, RotorSide, LegSide, LegsMatchRotors,
          OldResidualIsHandled, Drained, NoActivation, NoResidual, Results, Locked
<1>1. ASSUME SendStarts PROVE RuntimeInv'
  BY <1>1 DEF SendStarts, goVars
<1>2. ASSUME ResidualUp PROVE RuntimeInv'
  BY <1>2 DEF ResidualUp, goVars
<1>3. ASSUME SendEnds PROVE RuntimeInv'
  BY <1>3 DEF SendEnds, goVars
<1>4. ASSUME ContactClearEnds PROVE RuntimeInv'
  BY <1>4 DEF ContactClearEnds, Cleared, goVars
<1>5. ASSUME LeaseEnds PROVE RuntimeInv'
  BY <1>5 DEF LeaseEnds, goVars
<1>6. ASSUME PolicyExpires PROVE RuntimeInv'
  BY <1>6 DEF PolicyExpires, goVars
<1> QED BY <1>1, <1>2, <1>3, <1>4, <1>5, <1>6

(* The high-rate loop.                                                     *)
LEMMA SampleSteps ==
    ASSUME RuntimeInv
    PROVE  SampleRejected \/ Touchdown \/ Release \/ FramePrepared \/
           FrameCommitted \/ FrameFails \/ FrameCancelled \/ SampleEnds
           => RuntimeInv'
<1> USE DEF RuntimeInv, RuntimeShape, Latching, Activation, RotorSide, LegSide, LegsMatchRotors,
          OldResidualIsHandled, Drained, NoActivation, NoResidual, Results, Locked
<1>1. ASSUME SampleRejected PROVE RuntimeInv'
  BY <1>1 DEF SampleRejected, Ready, HrAborts, Trip, TripWith, goVars
<1>2. ASSUME Touchdown PROVE RuntimeInv'
  BY <1>2 DEF Touchdown, Ready, goVars
<1>3. ASSUME Release PROVE RuntimeInv'
  BY <1>3 DEF Release, Ready, HrAborts, Trip, TripWith, goVars
<1>4. ASSUME FramePrepared PROVE RuntimeInv'
  BY <1>4 DEF FramePrepared, Ready, Submitted, NoSubmit
<1>5. ASSUME FrameCommitted PROVE RuntimeInv'
  BY <1>5 DEF FrameCommitted, NoSubmit
<1>6. ASSUME FrameFails PROVE RuntimeInv'
  BY <1>6 DEF FrameFails, HrAborts, Trip, TripWith, NoSubmit
<1>7. ASSUME FrameCancelled PROVE RuntimeInv'
  BY <1>7 DEF FrameCancelled, Trip, TripWith, SubmitCancelled, Register
<1>8. ASSUME SampleEnds PROVE RuntimeInv'
  BY <1>8 DEF SampleEnds, NoSubmit
<1> QED BY <1>1, <1>2, <1>3, <1>4, <1>5, <1>6, <1>7, <1>8

(* The legs' executor and the LowCmd owner: behind the lock of a revoke    *)
(* nothing is submitted, so what its confirmation saw stays so.            *)
LEMMA LegSteps ==
    ASSUME RuntimeInv, UNCHANGED rtVars
    PROVE  GoSteps => RuntimeInv'
<1> USE DEF RuntimeInv, RuntimeShape, Latching, Activation, RotorSide, LegSide, LegsMatchRotors,
          OldResidualIsHandled, Drained, NoActivation, NoResidual, Results, Locked, rtVars
<1>1. ASSUME SubmitLocks PROVE RuntimeInv'
  BY <1>1 DEF SubmitLocks, LockFree, Register
<1>2. ASSUME OwnerAnswers PROVE RuntimeInv'
  BY <1>2 DEF OwnerAnswers, Raced, RegisterAgain, Register
<1>3. ASSUME WriterEnqueues PROVE RuntimeInv'
  BY <1>3 DEF WriterEnqueues
<1>4. ASSUME WriterMisses PROVE RuntimeInv'
  BY <1>4 DEF WriterMisses, Register
<1>5. ASSUME SubmitConfirms PROVE RuntimeInv'
  BY <1>5 DEF SubmitConfirms, Confirmed
<1>6. ASSUME SubmitDropped PROVE RuntimeInv'
  BY <1>6 DEF SubmitDropped
<1>7. ASSUME RevokeLocks PROVE RuntimeInv'
  BY <1>7 DEF RevokeLocks, LockFree
<1>8. ASSUME RevokeConfirms PROVE RuntimeInv'
  BY <1>8 DEF RevokeConfirms, Confirmed
<1>9. ASSUME OwnerStages PROVE RuntimeInv'
  BY <1>9 DEF OwnerStages
<1>10. ASSUME OwnerRevokes PROVE RuntimeInv'
  BY <1>10 DEF OwnerRevokes
<1>11. ASSUME TargetExpires PROVE RuntimeInv'
  BY <1>11 DEF TargetExpires
<1> QED BY <1>1, <1>2, <1>3, <1>4, <1>5, <1>6, <1>7, <1>8, <1>9, <1>10, <1>11 DEF GoSteps

(* The invariant holds in every reachable state, for any number of         *)
(* snapshots and contact changes.                                          *)
THEOREM RuntimeInvariant == RuntimeSpec => []RuntimeInv
<1>1. RuntimeInit => RuntimeInv
  BY DEF RuntimeInit, GoInit, NoSubmit, RuntimeInv, RuntimeShape, Latching, Activation, RotorSide,
         LegSide, LegsMatchRotors,
         OldResidualIsHandled, Drained, NoActivation, NoResidual, Results, Locked
<1>2. RuntimeInv /\ [RuntimeNext]_runtimeVars => RuntimeInv'
  <2> SUFFICES ASSUME RuntimeInv, [RuntimeNext]_runtimeVars PROVE RuntimeInv'
    OBVIOUS
  <2>1. CASE RuntimeNext
    BY <2>1, FallbackSteps, WorkerSteps, SinkSteps, SampleSteps, LegSteps DEF RuntimeNext
  <2>2. CASE UNCHANGED runtimeVars
    BY <2>2 DEF runtimeVars, goVars, rtVars, RuntimeInv, RuntimeShape, Latching, Activation, RotorSide, LegSide,
                LegsMatchRotors, OldResidualIsHandled, Drained
  <2> QED BY <2>1, <2>2
<1> QED BY <1>1, <1>2, PTL DEF RuntimeSpec

(* A fallback that reported success holds for good: the second clear comes *)
(* after everything a cancelled activation may still bring up, and the     *)
(* revoke's confirmation after every submission (_abort_both).             *)
THEOREM FallbackHolds == RuntimeSpec => []ConfirmedFallbackHolds
<1>1. RuntimeInv => ConfirmedFallbackHolds
  BY DEF RuntimeInv, RotorSide, LegSide, ConfirmedFallbackHolds
<1> QED BY <1>1, RuntimeInvariant, PTL

(* While a policy is published, the residual that is up is its own or that *)
(* of the activation about to replace it (_solve_activate_publish).        *)
THEOREM LegsFollowRotors == RuntimeSpec => []LegsMatchRotors
<1>1. RuntimeInv => LegsMatchRotors
  BY DEF RuntimeInv
<1> QED BY <1>1, RuntimeInvariant, PTL

(* A residual of contacts that are no longer measured is being cleared, or *)
(* its clear has failed, or its activation is still to be judged           *)
(* (invalidate_contact).                                                   *)
THEOREM StaleResidualIsHandled == RuntimeSpec => []OldResidualIsHandled
<1>1. RuntimeInv => OldResidualIsHandled
  BY DEF RuntimeInv
<1> QED BY <1>1, RuntimeInvariant, PTL
----------------------------------------------------------------------------
(* The paper's controller: LandingSession.  Every cycle of a sound state   *)
(* is sound, whatever the solver and the integrators answer; that is said  *)
(* once, as Sound, and the invariant and the properties of a step follow.  *)

USE DEF Feet, Never, Moment, Level, DwellsPositive, BlenderConfigured

LEMMA DetectorTyped ==
  ASSUME NEW d \in Detector, NEW level \in [Feet -> Level], NEW t \in Nat
  PROVE  UpdateContact(d, level, t) \in Detector
<1>1. \A waiting : \A mark \in [Feet -> Moment] : Marks(mark, waiting, t) \in [Feet -> Moment]
  BY DEF Marks, Since
<1>2. UpdateContact(d, level, t).touched \in [Feet -> Moment]
  BY DEF UpdateContact, Detector
<1>3. UpdateContact(d, level, t).contact \in SUBSET Feet
  BY DEF UpdateContact, Detector, Touchdowns, Rising
<1> QED BY <1>1, <1>2, <1>3 DEF UpdateContact, Detector

LEMMA ResetTyped == DetectorReset \in Detector
BY DEF DetectorReset, Detector

LEMMA LegTyped ==
  ASSUME NEW leg \in Leg, NEW stands \in BOOLEAN, NEW move \in Move
  PROVE  StepLeg(leg, stands, move) \in Leg
<1>1. PreviewLeg(leg, stands, move) \in [gen : Nat, joint : Int, stood : BOOLEAN, lifted : BOOLEAN, shift : Int]
  BY DEF PreviewLeg, LiftedOff, Leg, Move
<1> QED BY <1>1 DEF StepLeg, CommittedLeg, Leg, Move

LEMMA LegResets ==
  ASSUME NEW legs \in [Feet -> Leg], NEW f \in Feet
  PROVE  ResetLeg(legs[f], 0, legs[f].joint, FALSE) \in Leg
<1>1. legs[f] \in Leg
  OBVIOUS
<1>2. legs[f].joint \in Int /\ legs[f].gen + 1 \in Nat
  BY <1>1 DEF Leg
<1> QED BY <1>2 DEF ResetLeg, Leg

(* The legs a cycle that fails half way leaves. *)
LEMMA SteppedTyped ==
  ASSUME NEW c \in CycleState, NEW in \in CycleInput
  PROVE  SteppedLegs(c, in) \in [Feet -> Leg]
<1>1. ASSUME NEW f \in Feet
      PROVE  StepLeg(c.legs[f], f \in c.det.contact, in.moves[f]) \in Leg /\ c.legs[f] \in Leg
  <2>1. c.legs[f] \in Leg /\ in.moves[f] \in Move
    BY DEF CycleState, CycleInput
  <2>2. (f \in c.det.contact) \in BOOLEAN
    OBVIOUS
  <2> QED BY <2>1, <2>2, LegTyped
<1> QED BY <1>1 DEF SteppedLegs

LEMMA RestoredTyped ==
  ASSUME NEW was \in [Feet -> Leg], NEW legs \in [Feet -> Leg]
  PROVE  RestoreLegs(was, legs) \in [Feet -> Leg]
BY DEF RestoreLegs, ResetLeg, Leg

(* The next gain is within the target and one rise above. *)
LEMMA GainRises ==
  ASSUME NEW c \in CycleState, NEW rise \in 1..GainRise
  PROVE  NextGain(c, rise) \in 0..TargetGain /\ NextGain(c, rise) <= c.gain + GainRise
BY CycleAssumption DEF NextGain, CycleState

LEMMA NothingTyped == NoResidualThrust \in [Rotors -> Int]
BY DEF NoResidualThrust

Answer(r) == [kind |-> r.kind, gain |-> r.gain, residual |-> r.residual]

WithheldKind == {"inactive", "failed", "lost", "replan"}

(* What is withheld takes the correction with it and latches if asked. *)
LEMMA WithheldGives ==
  ASSUME NEW c \in CycleState, NEW in, NEW latching \in BOOLEAN, NEW kind \in WithheldKind
  PROVE  LET r == Withheld(c, in, latching, kind) IN
         /\ r.to \in CycleState /\ r.to.gain = 0 /\ r.gain = 0 /\ r.residual = NoResidualThrust /\ r.kind = kind
         /\ r.to.det = c.det /\ r.to.legs = c.legs /\ r.to.lost = c.lost
         /\ (c.latched \/ latching) => r.to.latched
         /\ Answer(r) \in Outcome
<1>1. InLimits(in.baseline) \in BOOLEAN
  BY DEF InLimits
<1>2. 0 \in 0..TargetGain
  BY CycleAssumption
<1> QED BY <1>1, <1>2, NothingTyped DEF Withheld, RemoveCorrection, CycleState, Outcome, Answer, WithheldKind

(* What a session keeps to. *)
DetectorInv(d) ==
  /\ \A f \in Feet : f \in d.contact <=> d.touched[f] # Never
  /\ \A f \in Feet : d.touched[f] <= d.at /\ d.onSince[f] <= d.at /\ d.offSince[f] <= d.at
  /\ \A f \in Feet : d.onSince[f] # Never => d.level[f] = 2 /\ f \notin d.contact
  /\ \A f \in Feet : d.offSince[f] # Never => d.level[f] = 0 /\ f \in d.contact

LEMMA ResetKeeps == DetectorInv(DetectorReset)
BY DEF DetectorInv, DetectorReset

LEMMA UpdateKeeps ==
  ASSUME NEW d \in Detector, DetectorInv(d), NEW level \in [Feet -> Level], NEW t \in Nat, InOrder(d, t)
  PROVE  DetectorInv(UpdateContact(d, level, t))
<1> DEFINE u == UpdateContact(d, level, t)
<1>1. d.at <= t
  BY DEF InOrder, Detector
<1>2. ASSUME NEW f \in Feet
      PROVE  /\ f \in u.contact <=> u.touched[f] # Never
             /\ u.touched[f] <= t
             /\ u.onSince[f] <= t /\ u.offSince[f] <= t
             /\ u.onSince[f] # Never => level[f] = 2 /\ f \notin u.contact
             /\ u.offSince[f] # Never => level[f] = 0 /\ f \in u.contact
  <2> DEFINE down == f \in Touchdowns(d, level, t)
             up == f \in Releases(d, level, t)
  <2>1. /\ f \in u.contact <=> (f \in d.contact /\ ~up) \/ down
        /\ u.touched[f] = IF down THEN t ELSE IF up THEN Never ELSE d.touched[f]
        /\ u.onSince[f] = IF f \in Rising(d, level) /\ ~down THEN Since(d.onSince[f], t) ELSE Never
        /\ u.offSince[f] = IF f \in Falling(d, level) /\ ~up THEN Since(d.offSince[f], t) ELSE Never
    <3>1. f \in u.contact <=> (f \in d.contact /\ ~up) \/ down
      BY DEF UpdateContact
    <3>2. u.touched[f] = IF down THEN t ELSE IF up THEN Never ELSE d.touched[f]
      BY DEF UpdateContact
    <3>3. u.onSince[f] = IF f \in Rising(d, level) /\ ~down THEN Since(d.onSince[f], t) ELSE Never
      BY DEF UpdateContact, Marks
    <3>4. u.offSince[f] = IF f \in Falling(d, level) /\ ~up THEN Since(d.offSince[f], t) ELSE Never
      BY DEF UpdateContact, Marks
    <3> QED BY <3>1, <3>2, <3>3, <3>4
  <2>2. /\ down => f \in Rising(d, level)
        /\ up => f \in Falling(d, level)
    BY DEF Touchdowns, Releases
  <2>3. /\ f \in Rising(d, level) <=> f \notin d.contact /\ level[f] = 2
        /\ f \in Falling(d, level) <=> f \in d.contact /\ level[f] = 0
    BY DEF Rising, Falling
  <2>4. /\ f \in d.contact <=> d.touched[f] # Never
        /\ d.touched[f] <= d.at /\ d.onSince[f] <= d.at /\ d.offSince[f] <= d.at
    BY DEF DetectorInv
  <2>9. d.touched[f] \in Int /\ d.onSince[f] \in Int /\ d.offSince[f] \in Int /\ d.at \in Int
    <3>1. d.touched \in [Feet -> Moment] /\ d.onSince \in [Feet -> Moment] /\ d.offSince \in [Feet -> Moment] /\ d.at \in Moment
      BY DEF Detector
    <3>2. Moment \subseteq Int
      OBVIOUS
    <3> QED BY <3>1, <3>2
  <2>5. Since(d.onSince[f], t) <= t /\ Since(d.offSince[f], t) <= t
    BY <1>1, <2>4, <2>9 DEF Since
  <2> HIDE DEF down, up
  <2>6. /\ f \in u.contact <=> u.touched[f] # Never
        /\ u.touched[f] <= t
    BY <1>1, <2>1, <2>2, <2>3, <2>4, <2>9
  <2>7. /\ u.onSince[f] <= t /\ u.offSince[f] <= t
    BY <1>1, <2>1, <2>5, <2>9
  <2>8. /\ u.onSince[f] # Never => level[f] = 2 /\ f \notin u.contact
        /\ u.offSince[f] # Never => level[f] = 0 /\ f \in u.contact
    BY <2>1, <2>2, <2>3
  <2> QED BY <2>6, <2>7, <2>8
<1>4. u.at = t /\ u.level = level
  BY DEF UpdateContact
<1> QED BY <1>2, <1>4 DEF DetectorInv

(* A new contact or release is of a foot that was there a dwell ago. *)
LEMMA UpdateDwells ==
  ASSUME NEW d \in Detector, DetectorInv(d), NEW level \in [Feet -> Level], NEW t \in Nat, NEW f \in Feet
  PROVE  LET u == UpdateContact(d, level, t) IN
         /\ f \in u.contact \ d.contact =>
              d.level[f] = 2 /\ u.level[f] = 2 /\ u.at - d.onSince[f] >= ConfirmTime /\ d.onSince[f] # Never
         /\ f \in d.contact \ u.contact =>
              d.level[f] = 0 /\ u.level[f] = 0 /\ u.at - d.offSince[f] >= ReleaseTime /\ d.offSince[f] # Never
         /\ f \in d.contact \ u.contact <=> f \in Releases(d, level, t)
BY FootAssumption DEF UpdateContact, DetectorInv, Detector, Touchdowns, Releases, Rising, Falling, Since

(* How the legs are when a cycle gave no bundle. *)
LegsKept(legs, was, kind) ==
  \A f \in Feet :
    /\ legs[f].joint = was[f].joint
    /\ legs[f].shift \in {was[f].shift, 0}
    /\ kind \in {"failed", "lost", "replan"} => legs[f].shift = was[f].shift /\ legs[f].stood = was[f].stood

ContactsDwelt(d, u) ==
  \A f \in Feet :
    /\ f \in u.contact \ d.contact =>
         d.level[f] = 2 /\ u.level[f] = 2 /\ u.at - d.onSince[f] >= ConfirmTime
    /\ f \in d.contact \ u.contact /\ u.at # Never =>
         d.level[f] = 0 /\ u.level[f] = 0 /\ u.at - d.offSince[f] >= ReleaseTime

(* What every cycle of a sound state gives. *)
Sound(c, r) ==
  /\ r.to \in CycleState /\ DetectorInv(r.to.det) /\ Answer(r) \in Outcome
  /\ r.to.gain = r.gain /\ r.gain <= c.gain + GainRise /\ Admissible(r.gain, r.residual)
  /\ r.kind \in WithheldKind => r.gain = 0 /\ LegsKept(r.to.legs, c.legs, r.kind)
  /\ r.kind \in {"failed", "lost"} => r.to.latched
  /\ c.latched => r.to.latched /\ r.kind # "bundle"
  /\ ContactsDwelt(c.det, r.to.det)

LEMMA NothingAdmissible == Admissible(0, NoResidualThrust)
BY CycleAssumption DEF Admissible, NoResidualThrust, Magnitude

LEMMA WithheldSound ==
  ASSUME NEW c \in CycleState, NEW m \in CycleState, NEW in, NEW latching \in BOOLEAN, NEW kind \in WithheldKind,
         DetectorInv(m.det), m.latched = c.latched, LegsKept(m.legs, c.legs, kind), ContactsDwelt(c.det, m.det),
         kind \in {"failed", "lost"} => latching
  PROVE  Sound(c, Withheld(m, in, latching, kind))
<1> DEFINE r == Withheld(m, in, latching, kind)
<1>1. /\ r.to \in CycleState /\ r.to.gain = 0 /\ r.gain = 0 /\ r.residual = NoResidualThrust /\ r.kind = kind
      /\ r.to.det = m.det /\ r.to.legs = m.legs
      /\ (m.latched \/ latching) => r.to.latched
      /\ Answer(r) \in Outcome
  BY WithheldGives
<1>2. 0 <= c.gain + GainRise
  BY CycleAssumption DEF CycleState
<1> HIDE DEF r
<1>3. Sound(c, r)
  BY <1>1, <1>2, NothingAdmissible DEF Sound, WithheldKind
<1> QED BY <1>3 DEF r

LEMMA CycleSound ==
  ASSUME NEW c \in CycleState, NEW in \in CycleInput, DetectorInv(c.det)
  PROVE  Sound(c, Cycle(c, in))
<1>1. CASE ~in.active
  <2> DEFINE m == ResetRuntime(c, FALSE)
  <2>1. m \in CycleState
    <3>1. c.legs \in [Feet -> Leg] /\ c.latched \in BOOLEAN /\ c.lost \in BOOLEAN
      BY ONLY c \in CycleState DEF CycleState
    <3>2. \A f \in Feet : ResetLeg(c.legs[f], 0, c.legs[f].joint, FALSE) \in Leg
      BY <3>1, LegResets
    <3>3. 0 \in 0..TargetGain
      BY CycleAssumption
    <3> QED BY <3>1, <3>2, <3>3, ResetTyped DEF ResetRuntime, CycleState
  <2>2. DetectorInv(m.det) /\ ContactsDwelt(c.det, m.det)
    BY ResetKeeps DEF ResetRuntime, DetectorReset, ContactsDwelt
  <2>3. m.latched = c.latched /\ LegsKept(m.legs, c.legs, "inactive")
    BY DEF ResetRuntime, ResetLeg, LegsKept, CycleState
  <2> HIDE DEF m
  <2>4. Sound(c, Withheld(m, in, FALSE, "inactive"))
    BY <2>1, <2>2, <2>3, WithheldSound DEF WithheldKind
  <2> QED BY <1>1, <2>4 DEF Cycle, m
<1>2. ASSUME NEW kind \in {"failed", "lost", "replan"} PROVE LegsKept(c.legs, c.legs, kind)
  BY DEF LegsKept
<1>3. CASE in.active /\ Refused(c, in)
  <2>1. ContactsDwelt(c.det, c.det)
    BY DEF ContactsDwelt
  <2>2. Sound(c, Withheld(c, in, TRUE, "failed"))
    BY <1>2, <2>1, WithheldSound DEF WithheldKind
  <2> QED BY <1>3, <2>2 DEF Cycle
<1>4. CASE in.active /\ ~Refused(c, in)
  <2> DEFINE d == UpdateContact(c.det, in.level, in.at)
             l == [c EXCEPT !.det = d, !.lost = TRUE]
             m == [c EXCEPT !.det = d]
  <2>1. c.det \in Detector /\ in.level \in [Feet -> Level] /\ in.at \in Nat
    BY DEF CycleState, CycleInput
  <2>2. InOrder(c.det, in.at) /\ ~c.latched
    BY <1>4 DEF Refused
  <2>3. d \in Detector /\ DetectorInv(d) /\ ContactsDwelt(c.det, d)
    BY <2>1, <2>2, DetectorTyped, UpdateKeeps, UpdateDwells DEF ContactsDwelt
  <2> HIDE DEF d
  <2>4. /\ m \in CycleState /\ m.det = d /\ m.latched = c.latched /\ m.legs = c.legs /\ m.gain = c.gain
        /\ l \in CycleState /\ l.det = d /\ l.latched = c.latched /\ l.legs = c.legs
    BY <2>3 DEF CycleState
  <2> HIDE DEF l, m
  <2>5. CASE Releases(c.det, in.level, in.at) # {}
    <3>1. Sound(c, Withheld(l, in, TRUE, "lost"))
      BY <1>2, <2>3, <2>4, WithheldSound DEF WithheldKind
    <3> QED BY <1>4, <2>5, <3>1 DEF Cycle, Measured, l, d
  <2>6. CASE Releases(c.det, in.level, in.at) = {} /\ in.schedule # m.det.contact
    <3>1. Sound(c, Withheld(m, in, FALSE, "replan"))
      BY <1>2, <2>3, <2>4, WithheldSound DEF WithheldKind
    <3> QED BY <1>4, <2>6, <3>1 DEF Cycle, Measured, m, d
  <2>7. CASE Releases(c.det, in.level, in.at) = {} /\ in.schedule = m.det.contact /\ Unsolved(in)
    <3>1. Sound(c, Withheld(m, in, TRUE, "failed"))
      BY <1>2, <2>3, <2>4, WithheldSound DEF WithheldKind
    <3> QED BY <1>4, <2>7, <3>1 DEF Cycle, Measured, m, d
  <2>8. CASE Releases(c.det, in.level, in.at) = {} /\ in.schedule = m.det.contact /\ ~Unsolved(in) /\ Executes(m, in)
    <3> DEFINE r == Bundle(m, in)
    <3>1. NextGain(m, in.rise) \in 0..TargetGain /\ NextGain(m, in.rise) <= c.gain + GainRise
      BY <2>4, GainRises DEF CycleInput
    <3>2. SteppedLegs(m, in) \in [Feet -> Leg]
      BY <2>4, SteppedTyped
    <3>3. /\ r.to \in CycleState /\ r.to.det = d /\ r.to.gain = NextGain(m, in.rise)
          /\ r.gain = NextGain(m, in.rise) /\ r.residual = in.residual /\ r.kind = "bundle"
      BY <2>4, <3>1, <3>2 DEF Bundle, CycleState
    <3>4. Answer(r) \in Outcome
      BY <3>1, <3>3 DEF Answer, Outcome, CycleInput
    <3>5. Admissible(r.gain, r.residual)
      BY <2>8, <3>3 DEF Executes, Blends
    <3> HIDE DEF r
    <3>6. Sound(c, r)
      BY <2>2, <2>3, <3>1, <3>3, <3>4, <3>5 DEF Sound, WithheldKind
    <3> QED BY <1>4, <2>8, <3>6 DEF Cycle, Measured, m, d, r
  <2>9. CASE Releases(c.det, in.level, in.at) = {} /\ in.schedule = m.det.contact /\ ~Unsolved(in) /\ ~Executes(m, in)
    <3> DEFINE n == [m EXCEPT !.legs = RestoreLegs(m.legs, SteppedLegs(m, in))]
    <3>1. SteppedLegs(m, in) \in [Feet -> Leg] /\ m.legs \in [Feet -> Leg]
      BY <2>4, SteppedTyped DEF CycleState
    <3>2. RestoreLegs(m.legs, SteppedLegs(m, in)) \in [Feet -> Leg]
      BY <3>1, RestoredTyped
    <3>3. LegsKept(RestoreLegs(m.legs, SteppedLegs(m, in)), m.legs, "failed")
      BY <3>1 DEF RestoreLegs, ResetLeg, LegsKept, Leg
    <3>4. /\ n \in CycleState /\ n.det = d /\ n.latched = c.latched
          /\ n.legs = RestoreLegs(m.legs, SteppedLegs(m, in))
      BY <2>4, <3>2 DEF CycleState
    <3> HIDE DEF n
    <3>5. Sound(c, Withheld(n, in, TRUE, "failed"))
      BY <2>3, <2>4, <3>3, <3>4, WithheldSound DEF WithheldKind
    <3> QED BY <1>4, <2>9, <3>5 DEF Cycle, Measured, m, d, n
  <2> QED BY <2>5, <2>6, <2>7, <2>8, <2>9
<1> QED BY <1>1, <1>3, <1>4

(* Beside the types: what a failure and a bundle leave, and the detector's *)
(* marks.                                                                  *)
SessionInv ==
  /\ CycleTypeOK
  /\ DetectorInv(cyc.det)
  /\ cyc.gain <= result.gain
  /\ FailureNeedsReset
  /\ ResidualIsScaled

LEMMA SessionBegins == CycleSessionInit => SessionInv
<1> SUFFICES ASSUME CycleSessionInit PROVE SessionInv
  OBVIOUS
<1>1. cyc \in CycleState /\ cyc.det = DetectorReset /\ cyc.gain = 0 /\ result = NoOutcome /\ failed = FALSE
  BY DEF CycleSessionInit
<1>2. NoOutcome \in Outcome /\ NoOutcome.gain = 0 /\ NoOutcome.residual = NoResidualThrust /\ NoOutcome.kind = "none"
  BY NothingTyped, CycleAssumption DEF NoOutcome, Outcome
<1>3. CycleTypeOK /\ DetectorInv(cyc.det)
  BY <1>1, <1>2, ResetKeeps DEF CycleTypeOK
<1>4. FailureNeedsReset /\ ResidualIsScaled
  BY <1>1, <1>2, NothingAdmissible DEF FailureNeedsReset, ResidualIsScaled
<1>5. cyc.gain <= result.gain
  BY <1>1, <1>2
<1> QED BY <1>3, <1>4, <1>5 DEF SessionInv

(* What a step of a session is. *)
LEMMA CycleSteps ==
  ASSUME SessionInv, ComputeCycle
  PROVE  \E in \in CycleInput :
           LET r == Cycle(cyc, in) IN
           /\ Sound(cyc, r) /\ cyc' = r.to
           /\ result'.kind = r.kind /\ result'.gain = r.gain /\ result'.residual = r.residual
           /\ result' \in Outcome
           /\ failed' = (failed \/ r.kind \in {"failed", "lost"})
<1>1. PICK in \in CycleInput :
        /\ cyc' = Cycle(cyc, in).to
        /\ result' = [kind |-> Cycle(cyc, in).kind, gain |-> Cycle(cyc, in).gain, residual |-> Cycle(cyc, in).residual]
        /\ failed' = (failed \/ Cycle(cyc, in).kind \in {"failed", "lost"})
  BY DEF ComputeCycle
<1>2. Sound(cyc, Cycle(cyc, in))
  BY CycleSound DEF SessionInv, CycleTypeOK
<1>3. result' \in Outcome
  BY <1>1, <1>2 DEF Sound, Answer
<1> QED BY <1>1, <1>2, <1>3

LEMMA ResetSteps ==
  ASSUME SessionInv, ResetSession
  PROVE  /\ cyc' \in CycleState /\ cyc'.det = DetectorReset /\ cyc'.gain = 0 /\ failed' = FALSE
         /\ result' \in Outcome /\ result'.gain = 0 /\ result'.residual = NoResidualThrust /\ result'.kind = "none"
         /\ \A f \in Feet : cyc'.legs[f].joint = cyc.legs[f].joint /\ cyc'.legs[f].shift = 0
<1>1. cyc.legs \in [Feet -> Leg]
  BY DEF SessionInv, CycleTypeOK, CycleState
<1>2. \A f \in Feet : ResetLeg(cyc.legs[f], 0, cyc.legs[f].joint, FALSE) \in Leg
  BY <1>1, LegResets
<1>3. 0 \in 0..TargetGain
  BY CycleAssumption
<1>4. ResetRuntime(cyc, TRUE) \in CycleState
  BY <1>1, <1>2, <1>3, ResetTyped DEF ResetRuntime, CycleState
<1>5. NoOutcome \in Outcome
  BY <1>3, NothingTyped DEF NoOutcome, Outcome
<1> QED BY <1>4, <1>5 DEF ResetSession, ResetRuntime, ResetLeg, NoOutcome

LEMMA SessionKeeps == SessionInv /\ [CycleSessionNext]_cycleSessionVars => SessionInv'
<1> SUFFICES ASSUME SessionInv, [CycleSessionNext]_cycleSessionVars PROVE SessionInv'
  OBVIOUS
<1>1. CASE ComputeCycle
  <2>1. PICK in \in CycleInput :
           LET r == Cycle(cyc, in) IN
           /\ Sound(cyc, r) /\ cyc' = r.to
           /\ result'.kind = r.kind /\ result'.gain = r.gain /\ result'.residual = r.residual
           /\ result' \in Outcome
           /\ failed' = (failed \/ r.kind \in {"failed", "lost"})
    BY <1>1, CycleSteps
  <2> DEFINE r == Cycle(cyc, in)
  <2>2. /\ Sound(cyc, r) /\ cyc' = r.to
        /\ result'.kind = r.kind /\ result'.gain = r.gain /\ result'.residual = r.residual
        /\ result' \in Outcome
        /\ failed' = (failed \/ r.kind \in {"failed", "lost"})
    BY <2>1
  <2> HIDE DEF r
  <2>3. CycleTypeOK' /\ DetectorInv(cyc.det)' /\ ResidualIsScaled'
    BY <2>2 DEF Sound, CycleTypeOK, ResidualIsScaled, SessionInv
  <2>4. cyc'.gain <= result'.gain
    BY <2>2, <2>3 DEF Sound, CycleTypeOK, CycleState
  <2>5. FailureNeedsReset'
    BY <2>2 DEF Sound, FailureNeedsReset, SessionInv
  <2> QED BY <2>3, <2>4, <2>5 DEF SessionInv
<1>2. CASE ResetSession
  <2>1. CycleTypeOK' /\ DetectorInv(cyc.det)' /\ ResidualIsScaled' /\ FailureNeedsReset' /\ cyc'.gain <= result'.gain
    BY <1>2, ResetSteps, ResetKeeps, NothingAdmissible DEF CycleTypeOK, ResidualIsScaled, FailureNeedsReset
  <2> QED BY <2>1 DEF SessionInv
<1>3. CASE UNCHANGED cycleSessionVars
  BY <1>3 DEF cycleSessionVars, SessionInv, CycleTypeOK, FailureNeedsReset, ResidualIsScaled
<1> QED BY <1>1, <1>2, <1>3 DEF CycleSessionNext

LEMMA SessionHolds == CycleSessionSpec => []SessionInv
BY SessionBegins, SessionKeeps, PTL DEF CycleSessionSpec

(* The types, for every number of feet and rotors (__init__, compute).     *)
THEOREM CycleTyped == CycleSessionSpec => []CycleTypeOK
BY SessionHolds, PTL DEF SessionInv

(* A failed cycle, or a foot that lifted again, latches: no bundle until   *)
(* the explicit reset (_failure, compute, reset).                          *)
THEOREM FailureStays == CycleSessionSpec => []FailureNeedsReset
BY SessionHolds, PTL DEF SessionInv

(* No bundle asks more of a rotor than its gain allows                     *)
(* (blend_modeled_applied).                                                *)
THEOREM ResidualStaysScaled == CycleSessionSpec => []ResidualIsScaled
BY SessionHolds, PTL DEF SessionInv

(* The feet in contact are those with a time of touchdown, and it is past  *)
(* (FilteredContactDetector.update).                                       *)
THEOREM TouchdownStaysKnown == CycleSessionSpec => []TouchdownIsKnown
<1>1. SessionInv => TouchdownIsKnown
  BY DEF SessionInv, DetectorInv, TouchdownIsKnown
<1> QED BY <1>1, SessionHolds, PTL

(* The three of a step. *)
LEMMA StepKeeps ==
  ASSUME SessionInv, [CycleSessionNext]_cycleSessionVars, ~ UNCHANGED cycleSessionVars
  PROVE  /\ result'.gain <= result.gain + GainRise
         /\ result'.kind # "bundle" => cyc'.gain = 0 /\ \A f \in Feet : LegAsBefore(f)
         /\ ContactsDwelt(cyc.det, cyc'.det)
<1>0. result.gain \in Nat /\ cyc.gain \in Nat /\ cyc.gain <= result.gain
  BY CycleAssumption DEF SessionInv, CycleTypeOK, CycleState, Outcome
<1>1. CASE ComputeCycle
  <2>1. PICK in \in CycleInput :
           LET r == Cycle(cyc, in) IN
           /\ Sound(cyc, r) /\ cyc' = r.to
           /\ result'.kind = r.kind /\ result'.gain = r.gain /\ result'.residual = r.residual
           /\ result' \in Outcome
           /\ failed' = (failed \/ r.kind \in {"failed", "lost"})
    BY <1>1, CycleSteps
  <2> DEFINE r == Cycle(cyc, in)
  <2>2. /\ Sound(cyc, r) /\ cyc' = r.to
        /\ result'.kind = r.kind /\ result'.gain = r.gain
        /\ result' \in Outcome
    BY <2>1
  <2> HIDE DEF r
  <2>3. result'.gain <= result.gain + GainRise
    BY <1>0, <2>2, CycleAssumption DEF Sound, Outcome
  <2>4. r.kind # "none"
    BY <2>1 DEF r, Cycle, Measured, Withheld, Bundle
  <2>5. ASSUME result'.kind # "bundle" PROVE cyc'.gain = 0 /\ \A f \in Feet : LegAsBefore(f)
    <3>1. r.kind \in WithheldKind
      BY <2>2, <2>4, <2>5 DEF Outcome, WithheldKind
    <3>2. r.to.gain = 0 /\ LegsKept(r.to.legs, cyc.legs, r.kind)
      BY <2>2, <3>1 DEF Sound
    <3> QED BY <2>2, <3>2 DEF LegsKept, LegAsBefore
  <2> QED BY <2>2, <2>3, <2>5 DEF Sound
<1>2. CASE ResetSession
  <2>1. result'.gain <= result.gain + GainRise
    BY <1>0, <1>2, ResetSteps, CycleAssumption
  <2>2. cyc'.gain = 0 /\ \A f \in Feet : LegAsBefore(f)
    BY <1>2, ResetSteps DEF LegAsBefore
  <2>3. ContactsDwelt(cyc.det, cyc'.det)
    BY <1>2, ResetSteps DEF ContactsDwelt, DetectorReset
  <2> QED BY <2>1, <2>2, <2>3
<1> QED BY <1>1, <1>2 DEF CycleSessionNext

(* A correction rises by one step over the cycle before, from nothing if   *)
(* that brought no bundle (preview_gains, _remove_rotor_correction).       *)
THEOREM GainStaysEarned == CycleSessionSpec => GainIsEarned
<1>1. SessionInv /\ [CycleSessionNext]_cycleSessionVars => [result'.gain <= result.gain + GainRise]_cycleSessionVars
  BY StepKeeps
<1> QED BY <1>1, SessionHolds, PTL DEF CycleSessionSpec, GainIsEarned

(* Without a bundle the gain is gone and no joint command has moved: legs  *)
(* that had stepped already are restored (compute, _restore_legs).         *)
THEOREM BundleStaysWhole == CycleSessionSpec => BundleIsWhole
<1>1. SessionInv /\ [CycleSessionNext]_cycleSessionVars
        => [result'.kind # "bundle" => cyc'.gain = 0 /\ \A f \in Feet : LegAsBefore(f)]_cycleSessionVars
  BY StepKeeps
<1> QED BY <1>1, SessionHolds, PTL DEF CycleSessionSpec, BundleIsWhole

(* A contact comes or goes only with two samples in a row beyond its       *)
(* threshold, a dwell apart (FilteredContactDetector.update).              *)
THEOREM ContactStaysDwelt == CycleSessionSpec => ContactIsDwelt
<1>1. SessionInv /\ [CycleSessionNext]_cycleSessionVars =>
       [\A f \in Feet :
         /\ f \in cyc'.det.contact \ cyc.det.contact =>
            /\ cyc.det.level[f] = 2 /\ cyc'.det.level[f] = 2
            /\ cyc'.det.at - cyc.det.onSince[f] >= ConfirmTime
         /\ f \in cyc.det.contact \ cyc'.det.contact /\ cyc'.det.at # Never =>
            /\ cyc.det.level[f] = 0 /\ cyc'.det.level[f] = 0
            /\ cyc'.det.at - cyc.det.offSince[f] >= ReleaseTime]_cycleSessionVars
  BY StepKeeps DEF ContactsDwelt
<1> QED BY <1>1, SessionHolds, PTL DEF CycleSessionSpec, ContactIsDwelt

(* A group of previews counts once: committed again, or after a reset of   *)
(* one of its legs, it moves none of them (commit_many, reset).            *)
THEOREM PreviewCountsOnce ==
  ASSUME NEW legs \in [Feet -> Leg], NEW group \in SUBSET Feet, NEW g \in group,
         NEW tokens, DOMAIN tokens = group, NEW applied, NEW again, NEW shift, NEW joint, NEW stood,
         FreshTokens(legs, tokens)
  PROVE  /\ LET once == CommitMany(legs, tokens, applied) IN
              /\ \A f \in group : once[f].gen = legs[f].gen + 1
              /\ \A f \in Feet \ group : once[f] = legs[f]
              /\ CommitMany(once, tokens, again) = once
         /\ LET reset == [legs EXCEPT ![g] = ResetLeg(legs[g], shift, joint, stood)] IN
              CommitMany(reset, tokens, applied) = reset
<1> DEFINE once == CommitMany(legs, tokens, applied)
           reset == [legs EXCEPT ![g] = ResetLeg(legs[g], shift, joint, stood)]
<1>1. \A f \in group : legs[f].gen \in Nat /\ tokens[f].gen = legs[f].gen
  BY DEF Leg, FreshTokens
<1>2. once = [f \in Feet |-> IF f \in group THEN CommittedLeg(tokens[f], applied[f]) ELSE legs[f]]
  BY DEF CommitMany
<1>3. \A f \in group : once[f].gen = legs[f].gen + 1
  BY <1>1, <1>2 DEF CommittedLeg
<1>4. \A f \in Feet \ group : once[f] = legs[f]
  BY <1>2
<1>5. ~FreshTokens(once, tokens)
  BY <1>1, <1>3 DEF FreshTokens
<1>6. CommitMany(once, tokens, again) = once
  BY <1>5 DEF CommitMany
<1>7. reset[g].gen = legs[g].gen + 1
  BY DEF ResetLeg
<1>8. ~FreshTokens(reset, tokens)
  BY <1>1, <1>7 DEF FreshTokens
<1>9. CommitMany(reset, tokens, applied) = reset
  BY <1>8 DEF CommitMany
<1> HIDE DEF once, reset
<1>10. /\ \A f \in group : once[f].gen = legs[f].gen + 1
       /\ \A f \in Feet \ group : once[f] = legs[f]
       /\ CommitMany(once, tokens, again) = once
       /\ CommitMany(reset, tokens, applied) = reset
  BY <1>3, <1>4, <1>6, <1>9
<1> QED BY <1>10 DEF once, reset
----------------------------------------------------------------------------
(* The detector on the raw counts, CountSpec.  A foot's first crossing     *)
(* is at most as many gaps ago as samples have counted since.              *)

USE DEF CountConfigured, Ticks

LEMMA CountFresh == CountReset \in CountDetector
BY DEF CountReset, CountDetector

LEMMA CountStepTyped ==
  ASSUME NEW d \in CountDetector, NEW s \in CountSample
  PROVE  CountStep(d, s) \in CountDetector
<1> DEFINE u == CountStep(d, s)
<1>1. \A mark \in [Feet -> Moment] : \A waiting : Marks(mark, waiting, s.at) \in [Feet -> Moment]
  BY DEF Marks, Since, CountSample
<1>2. \A n \in [Feet -> Nat] : \A waiting : InARow(n, waiting) \in [Feet -> Nat]
  BY DEF InARow
<1>3. u.onFirst \in [Feet -> Moment]
  BY DEF CountStep, CountDetector, CountSample, Since
<1>4. u.confirmed \in [Feet -> Moment]
  BY DEF CountStep, CountDetector, CountSample
<1>5. u.contact \in SUBSET Feet
  BY DEF CountStep, CountDetector, CountConfirms, Rising
<1>6. u.offFirst \in [Feet -> Moment] /\ u.onCount \in [Feet -> Nat] /\ u.offCount \in [Feet -> Nat]
  BY <1>1, <1>2 DEF CountStep, CountDetector
<1>7. u.at \in Moment /\ u.receipt \in Moment /\ u.generation \in Moment /\ u.tick \in Ticks \union {Never} /\ u.tripped = FALSE
  BY DEF CountStep, CountSample
<1>8. u = [at |-> u.at, receipt |-> u.receipt, generation |-> u.generation, tick |-> u.tick, contact |-> u.contact,
           onFirst |-> u.onFirst, offFirst |-> u.offFirst, confirmed |-> u.confirmed,
           onCount |-> u.onCount, offCount |-> u.offCount, tripped |-> u.tripped]
  BY DEF CountStep
<1> HIDE DEF u
<1>9. u \in CountDetector
  BY <1>3, <1>4, <1>5, <1>6, <1>7, <1>8 DEF CountDetector
<1> QED BY <1>9 DEF u

(* What ties a foot's marks, counts and contact together, and the samples  *)
(* to the gap.                                                             *)
Spread(mark, at, n) == mark # Never /\ n >= 1 => at - mark <= (n - 1) * MaxSampleGap

FootInv(d, f) ==
  /\ f \in d.contact => /\ d.onFirst[f] # Never /\ d.confirmed[f] # Never
                        /\ d.confirmed[f] - d.onFirst[f] >= ConfirmTime
                        /\ d.confirmed[f] <= d.at
  /\ f \notin d.contact /\ ~d.tripped => d.confirmed[f] = Never
  /\ ~d.tripped /\ f \notin d.contact => /\ d.onFirst[f] = Never <=> d.onCount[f] = 0
                                         /\ Spread(d.onFirst[f], d.at, d.onCount[f])
  /\ ~d.tripped /\ f \in d.contact => /\ d.offFirst[f] = Never <=> d.offCount[f] = 0
                                      /\ Spread(d.offFirst[f], d.at, d.offCount[f])
  /\ d.onFirst[f] <= d.at /\ d.offFirst[f] <= d.at

(* One more sample within the gap spreads the run by one gap more. *)
LEMMA SpreadGrows ==
  ASSUME NEW d \in CountDetector, NEW t \in Nat, d.at # Never => t > d.at /\ t - d.at <= MaxSampleGap,
         NEW mark \in Moment, NEW n \in Nat, mark <= d.at, mark = Never <=> n = 0, Spread(mark, d.at, n)
  PROVE  t - Since(mark, t) <= n * MaxSampleGap /\ Since(mark, t) \in Nat /\ Since(mark, t) <= t
<1>1. CASE mark = Never
  <2>1. n = 0 /\ Since(mark, t) = t
    BY <1>1 DEF Since
  <2>2. MaxSampleGap \in Nat
    BY CountAssumption
  <2>3. 0 * MaxSampleGap = 0 /\ t - t = 0
    BY <2>2
  <2> QED BY <2>1, <2>3
<1>2. CASE mark # Never
  <2>1. n >= 1 /\ mark \in Nat /\ d.at \in Nat /\ d.at # Never
    BY <1>2 DEF CountDetector
  <2>2. d.at - mark <= (n - 1) * MaxSampleGap
    BY <1>2, <2>1 DEF Spread
  <2>3. MaxSampleGap \in Nat
    BY CountAssumption
  <2>4. (n - 1) * MaxSampleGap + MaxSampleGap = n * MaxSampleGap
    BY <2>1, <2>3
  <2>5. (n - 1) * MaxSampleGap \in Int /\ n * MaxSampleGap \in Int
    BY <2>1, <2>3
  <2> HIDE DEF Spread
  <2>6. t - mark <= n * MaxSampleGap
    <3> DEFINE a == (n - 1) * MaxSampleGap
               b == n * MaxSampleGap
    <3>1. a \in Int /\ b \in Int /\ a + MaxSampleGap = b /\ d.at - mark <= a
      BY <2>2, <2>4, <2>5
    <3> HIDE DEF a, b
    <3>2. t - mark <= b
      BY <2>1, <2>3, <3>1
    <3> QED BY <3>2 DEF b
  <2> QED BY <1>2, <2>1, <2>6 DEF Since
<1> QED BY <1>1, <1>2

(* What a sample makes of one foot. *)
LEMMA FootStep ==
  ASSUME NEW d \in CountDetector, NEW s \in CountSample, NEW f \in Feet,
         ~d.tripped, FootInv(d, f), Follows(d, s)
  PROVE  LET u == CountStep(d, s) IN
         /\ FootInv(u, f)
         /\ f \in u.contact \ d.contact =>
              /\ d.onCount[f] + 1 >= MinSamples /\ u.at - u.onFirst[f] <= d.onCount[f] * MaxSampleGap
              /\ u.at - u.onFirst[f] >= ConfirmTime
         /\ f \in d.contact \ u.contact =>
              /\ d.offCount[f] + 1 >= MinSamples /\ u.at - u.offFirst[f] <= d.offCount[f] * MaxSampleGap
              /\ u.at - u.offFirst[f] >= ReleaseTime
<1> DEFINE u == CountStep(d, s)
           down == f \in CountConfirms(d, s)
           up == f \in CountReleases(d, s)
           on == Since(d.onFirst[f], s.at)
           off == Since(d.offFirst[f], s.at)
           in == f \in d.contact
           high == s.level[f] = 2
           low == s.level[f] = 0
<1>1. /\ d.at \in Moment /\ d.onFirst[f] \in Moment /\ d.offFirst[f] \in Moment /\ d.confirmed[f] \in Moment
      /\ d.onCount[f] \in Nat /\ d.offCount[f] \in Nat /\ s.at \in Nat
  BY DEF CountDetector, CountSample
<1>2. d.at # Never => s.at > d.at /\ s.at - d.at <= MaxSampleGap
  BY DEF Follows
<1>3. d.at <= s.at
  BY <1>1, <1>2
<1>4. /\ f \in Rising(d, s.level) <=> ~in /\ high
      /\ f \in Falling(d, s.level) <=> in /\ low
  BY DEF Rising, Falling
<1>5. /\ down <=> ~in /\ high /\ d.onCount[f] + 1 >= MinSamples /\ s.at - on >= ConfirmTime
      /\ up <=> in /\ low /\ d.offCount[f] + 1 >= MinSamples /\ s.at - off >= ReleaseTime
  BY <1>4 DEF CountConfirms, CountReleases
<1>6. /\ u.at = s.at /\ u.tripped = FALSE
      /\ f \in u.contact <=> (in /\ ~up) \/ down
      /\ u.onFirst[f] = IF ~in /\ high THEN on ELSE IF in /\ ~up THEN d.onFirst[f] ELSE Never
      /\ u.offFirst[f] = IF in /\ low THEN off ELSE Never
      /\ u.confirmed[f] = IF down THEN s.at ELSE IF up THEN Never ELSE d.confirmed[f]
      /\ u.onCount[f] = IF ~in /\ high /\ ~down THEN d.onCount[f] + 1 ELSE 0
      /\ u.offCount[f] = IF in /\ low /\ ~up THEN d.offCount[f] + 1 ELSE 0
  <2>1. u.at = s.at /\ u.tripped = FALSE /\ (f \in u.contact <=> (in /\ ~up) \/ down)
    BY DEF CountStep
  <2>2. u.onFirst[f] = IF ~in /\ high THEN on ELSE IF in /\ ~up THEN d.onFirst[f] ELSE Never
    BY <1>4 DEF CountStep
  <2>3. u.offFirst[f] = IF in /\ low THEN off ELSE Never
    BY <1>4 DEF CountStep, Marks
  <2>4. u.confirmed[f] = IF down THEN s.at ELSE IF up THEN Never ELSE d.confirmed[f]
    BY DEF CountStep
  <2>5. u.onCount[f] = IF ~in /\ high /\ ~down THEN d.onCount[f] + 1 ELSE 0
    BY <1>4 DEF CountStep, InARow
  <2>6. u.offCount[f] = IF in /\ low /\ ~up THEN d.offCount[f] + 1 ELSE 0
    BY <1>4 DEF CountStep, InARow
  <2> QED BY <2>1, <2>2, <2>3, <2>4, <2>5, <2>6
<1>7. ~in => s.at - on <= d.onCount[f] * MaxSampleGap /\ on \in Nat /\ on <= s.at
  BY <1>1, <1>2, SpreadGrows DEF FootInv
<1>8. in => s.at - off <= d.offCount[f] * MaxSampleGap /\ off \in Nat /\ off <= s.at
  BY <1>1, <1>2, SpreadGrows DEF FootInv
<1>9. ConfirmTime \in Nat /\ ReleaseTime \in Nat /\ MaxSampleGap \in Nat /\ MinSamples \in Nat
  BY FootAssumption, CountAssumption
<1>10. /\ in => d.onFirst[f] # Never /\ d.confirmed[f] # Never
               /\ d.confirmed[f] - d.onFirst[f] >= ConfirmTime /\ d.confirmed[f] <= d.at
       /\ ~in => d.confirmed[f] = Never
       /\ d.onFirst[f] <= d.at /\ d.offFirst[f] <= d.at
  BY DEF FootInv
<1> HIDE DEF u, on, off, in, high, low, down, up
<1>11. /\ f \in u.contact => /\ u.onFirst[f] # Never /\ u.confirmed[f] # Never
                             /\ u.confirmed[f] - u.onFirst[f] >= ConfirmTime /\ u.confirmed[f] <= u.at
       /\ f \notin u.contact => u.confirmed[f] = Never
  BY <1>1, <1>3, <1>5, <1>6, <1>7, <1>9, <1>10
<1>12. f \notin u.contact => (u.onFirst[f] = Never <=> u.onCount[f] = 0) /\ Spread(u.onFirst[f], u.at, u.onCount[f])
  <2>1. CASE ~in /\ high /\ ~down
    <3>1. u.onFirst[f] = on /\ u.onCount[f] = d.onCount[f] + 1 /\ u.onCount[f] - 1 = d.onCount[f]
      BY <1>1, <1>6, <2>1
    <3>2. u.at - u.onFirst[f] <= (u.onCount[f] - 1) * MaxSampleGap
      BY <1>6, <1>7, <2>1, <3>1
    <3> QED BY <1>1, <1>7, <2>1, <3>1, <3>2 DEF Spread
  <2>2. CASE ~(~in /\ high /\ ~down)
    BY <1>5, <1>6, <2>2 DEF Spread
  <2> QED BY <2>1, <2>2
<1>13. f \in u.contact => (u.offFirst[f] = Never <=> u.offCount[f] = 0) /\ Spread(u.offFirst[f], u.at, u.offCount[f])
  <2>1. CASE in /\ low /\ ~up
    <3>1. u.offFirst[f] = off /\ u.offCount[f] = d.offCount[f] + 1 /\ u.offCount[f] - 1 = d.offCount[f]
      BY <1>1, <1>6, <2>1
    <3>2. u.at - u.offFirst[f] <= (u.offCount[f] - 1) * MaxSampleGap
      BY <1>6, <1>8, <2>1, <3>1
    <3> QED BY <1>1, <1>8, <2>1, <3>1, <3>2 DEF Spread
  <2>2. CASE ~(in /\ low /\ ~up)
    BY <1>5, <1>6, <2>2 DEF Spread
  <2> QED BY <2>1, <2>2
<1>14. u.onFirst[f] <= u.at /\ u.offFirst[f] <= u.at
  BY <1>1, <1>3, <1>6, <1>7, <1>8, <1>10
<1>15. FootInv(u, f)
  BY <1>6, <1>11, <1>12, <1>13, <1>14 DEF FootInv
<1>16. f \in u.contact /\ ~in =>
         /\ d.onCount[f] + 1 >= MinSamples /\ u.at - u.onFirst[f] <= d.onCount[f] * MaxSampleGap
         /\ u.at - u.onFirst[f] >= ConfirmTime
  BY <1>5, <1>6, <1>7
<1>17. in /\ f \notin u.contact =>
         /\ d.offCount[f] + 1 >= MinSamples /\ u.at - u.offFirst[f] <= d.offCount[f] * MaxSampleGap
         /\ u.at - u.offFirst[f] >= ReleaseTime
  BY <1>5, <1>6, <1>8
<1> QED BY <1>15, <1>16, <1>17 DEF u, in

CountInv ==
  /\ CountTypeOK
  /\ TripIsSilent
  /\ \A f \in Feet : FootInv(count, f)

LEMMA FreshFoot == \A f \in Feet : FootInv(CountReset, f)
BY DEF FootInv, Spread, CountReset

(* The three things a sample may do. *)
LEMMA CountTakes ==
  ASSUME CountInv, TakeCount
  PROVE  \/ UNCHANGED count /\ answered' = FALSE
         \/ ~count.tripped /\ count' = CountTrip(count) /\ answered' = FALSE
         \/ /\ ~count.tripped
            /\ \E s \in CountSample : Follows(count, s) /\ count' = CountStep(count, s)
            /\ answered' = TRUE
BY DEF TakeCount, UpdateCount, Refuses, Admits

LEMMA TripKeeps ==
  ASSUME NEW d \in CountDetector, \A f \in Feet : FootInv(d, f)
  PROVE  /\ CountTrip(d) \in CountDetector /\ CountTrip(d).tripped /\ CountTrip(d).contact = {}
         /\ \A f \in Feet : FootInv(CountTrip(d), f)
BY DEF CountTrip, CountDetector, FootInv

LEMMA CountKeeps == CountInv /\ [CountNext]_countVars => CountInv'
<1> SUFFICES ASSUME CountInv, [CountNext]_countVars PROVE CountInv'
  OBVIOUS
<1>0. count \in CountDetector /\ \A f \in Feet : FootInv(count, f)
  BY DEF CountInv, CountTypeOK
<1>1. CASE TakeCount
  <2>1. CASE UNCHANGED count /\ answered' = FALSE
    BY <2>1 DEF CountInv, CountTypeOK, TripIsSilent
  <2>2. CASE ~count.tripped /\ count' = CountTrip(count) /\ answered' = FALSE
    BY <1>0, <2>2, TripKeeps DEF CountInv, CountTypeOK, TripIsSilent
  <2>3. CASE /\ ~count.tripped
             /\ \E s \in CountSample : Follows(count, s) /\ count' = CountStep(count, s)
             /\ answered' = TRUE
    <3>1. PICK s \in CountSample : Follows(count, s) /\ count' = CountStep(count, s)
      BY <2>3
    <3>2. \A f \in Feet : FootInv(count', f)
      BY <1>0, <2>3, <3>1, FootStep
    <3>3. count' \in CountDetector /\ ~count'.tripped
      BY <1>0, <3>1, CountStepTyped DEF CountStep
    <3> QED BY <2>3, <3>2, <3>3 DEF CountInv, CountTypeOK, TripIsSilent
  <2> QED BY <1>1, <2>1, <2>2, <2>3, CountTakes
<1>2. CASE ResetCount
  BY <1>2, CountFresh, FreshFoot DEF ResetCount, CountInv, CountTypeOK, TripIsSilent, CountReset
<1>3. CASE UNCHANGED countVars
  BY <1>3 DEF countVars, CountInv, CountTypeOK, TripIsSilent
<1> QED BY <1>1, <1>2, <1>3 DEF CountNext

LEMMA CountHolds == CountSpec => []CountInv
<1>0. ~CountReset.tripped
  BY DEF CountReset
<1>1. CountInit => CountInv
  BY <1>0, CountFresh, FreshFoot DEF CountInit, CountInv, CountTypeOK, TripIsSilent
<1> QED BY <1>1, CountKeeps, PTL DEF CountSpec

(* A foot in contact has crossed a dwell before it was confirmed; one that *)
(* is not was never confirmed, or has been released                        *)
(* (SdkCountContactDetector.update).                                       *)
THEOREM CrossingStaysKnown == CountSpec => []CrossingIsKnown
<1>1. CountInv => CrossingIsKnown
  BY DEF CountInv, FootInv, CrossingIsKnown
<1> QED BY <1>1, CountHolds, PTL

(* A tripped detector claims no foot and answers nothing until it is reset *)
(* as a whole (_trip, reset).                                              *)
THEOREM TripStaysSilent == CountSpec => []TripIsSilent /\ TripNeedsReset
<1>1. CountInv => TripIsSilent
  BY DEF CountInv
<1>2. CountInv /\ [CountNext]_countVars => [count.tripped /\ ~count'.tripped => count' = CountReset]_countVars
  BY CountTakes DEF CountNext, ResetCount
<1> QED BY <1>1, <1>2, CountHolds, PTL DEF CountSpec, TripNeedsReset

(* A contact, or its release, is confirmed by enough samples in a row with *)
(* no gap between them: a dwell of silence confirms nothing                *)
(* (SdkCountContactDetector.update).                                       *)
THEOREM ContactStaysSampled == CountSpec => ContactIsSampled
<1> DEFINE EachSampled ==
      \A f \in Feet :
       /\ f \in count'.contact \ count.contact =>
            /\ Dense(count'.onFirst[f], count.onCount[f] + 1)
            /\ count'.at - count'.onFirst[f] >= ConfirmTime
       /\ f \in count.contact \ count'.contact /\ ~count'.tripped /\ count'.at # Never =>
            /\ Dense(count'.offFirst[f], count.offCount[f] + 1)
            /\ count'.at - count'.offFirst[f] >= ReleaseTime
<1>1. ASSUME CountInv, CountNext PROVE EachSampled
  <2>0. count \in CountDetector /\ \A f \in Feet : FootInv(count, f) /\ count.onCount[f] \in Nat /\ count.offCount[f] \in Nat
    BY <1>1 DEF CountInv, CountTypeOK, CountDetector
  <2>1. CASE ResetCount
    BY <2>1 DEF ResetCount, CountReset
  <2>2. CASE UNCHANGED count /\ answered' = FALSE
    BY <2>2
  <2>3. CASE ~count.tripped /\ count' = CountTrip(count) /\ answered' = FALSE
    BY <2>0, <2>3, TripKeeps
  <2>4. CASE /\ ~count.tripped
             /\ \E s \in CountSample : Follows(count, s) /\ count' = CountStep(count, s)
             /\ answered' = TRUE
    <3>1. PICK s \in CountSample : Follows(count, s) /\ count' = CountStep(count, s)
      BY <2>4
    <3>2. ASSUME NEW f \in Feet
          PROVE /\ f \in count'.contact \ count.contact =>
                     /\ Dense(count'.onFirst[f], count.onCount[f] + 1)
                     /\ count'.at - count'.onFirst[f] >= ConfirmTime
                /\ f \in count.contact \ count'.contact =>
                     /\ Dense(count'.offFirst[f], count.offCount[f] + 1)
                     /\ count'.at - count'.offFirst[f] >= ReleaseTime
      <4>1. /\ f \in count'.contact \ count.contact =>
                 /\ count.onCount[f] + 1 >= MinSamples /\ count'.at - count'.onFirst[f] <= count.onCount[f] * MaxSampleGap
                 /\ count'.at - count'.onFirst[f] >= ConfirmTime
            /\ f \in count.contact \ count'.contact =>
                 /\ count.offCount[f] + 1 >= MinSamples /\ count'.at - count'.offFirst[f] <= count.offCount[f] * MaxSampleGap
                 /\ count'.at - count'.offFirst[f] >= ReleaseTime
        BY <2>0, <2>4, <3>1, FootStep
      <4>2. (count.onCount[f] + 1) - 1 = count.onCount[f] /\ (count.offCount[f] + 1) - 1 = count.offCount[f]
        BY <2>0
      <4> QED BY <4>1, <4>2 DEF Dense
    <3> QED BY <3>2
  <2>5. CASE TakeCount
    BY <1>1, <2>2, <2>3, <2>4, <2>5, CountTakes
  <2> QED BY <1>1, <2>1, <2>5 DEF CountNext
<1>2. CountInv /\ [CountNext]_countVars => [EachSampled]_countVars
  BY <1>1
<1> QED BY <1>2, CountHolds, PTL DEF CountSpec, ContactIsSampled
=============================================================================
