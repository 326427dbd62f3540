------------------------------ MODULE Autoland ------------------------------
(***************************************************************************)
(* The manager from take-off to confirmed touchdown.                       *)
(*                                                                         *)
(* The tick and the landing commands run one at a time under the operation *)
(* lock, but a stop of the setpoints and a state transition suspend them;  *)
(* stop_transform_motion, clear_fault and the telemetry callbacks do not   *)
(* take the lock and run in between.  A transition refuses every other     *)
(* while it is being committed.                                            *)
(*                                                                         *)
(* Two landings exist.  A legacy landing ends when the touchdown           *)
(* conditions have held for a while.  An impact-aware one (mpc) stays in   *)
(* AUTO_LANDING after contact until recovery evidence, stopped setpoints,  *)
(* the safe hold of the Go2 and a stable dwell are all there.              *)
(*                                                                         *)
(* No LowCmd owner is configured (start_autoland refuses one).  Telemetry  *)
(* beyond place and armed, and the sensor conditions of the guards, come   *)
(* and go freely: each step chooses whether they hold.                     *)
(***************************************************************************)
EXTENDS RcMonitor

CONSTANTS
    Landings,            \* the kinds of landing that are prepared
    AirborneConfirm,     \* armed and not landed for so long is airborne
    TouchdownConfirm,    \* the touchdown conditions must hold for so long
    Completion,          \* deadline of the recovery after contact
    Finalization,        \* deadline of stopping the actuators after it
    StableConfirm,       \* the stable dwell before the exit
    MaxGap,              \* the longest time between two looks at a dwell
    LiftConfirm,         \* airborne evidence that ends an aborted impact
    Blend                \* how long a takeover ramp lasts

Timer == {"airborne", "touchdown", "wait", "finalize", "stable", "seen",
          "lifted", "looked", "ramp"}

(* A timer counts no further than it is asked for. *)
Limit == [t \in Timer |->
    CASE t = "airborne" -> AirborneConfirm
      [] t = "touchdown" -> TouchdownConfirm
      [] t = "wait" -> Completion
      [] t = "finalize" -> Finalization
      [] t = "stable" -> StableConfirm
      [] t \in {"seen", "looked"} -> MaxGap + 1
      [] t = "lifted" -> LiftConfirm
      [] t = "ramp" -> Blend]

ASSUME AutolandAssumption ==
    /\ Landings \subseteq {"legacy", "mpc"}
    /\ MaxGap \in Nat /\ MaxGap < StableConfirm /\ MaxGap < LiftConfirm
    /\ \A t \in Timer : Limit[t] \in Nat \ {0}

VARIABLES
    mode,       \* the state machine's state
    change,     \* the transition being committed
    op,         \* the locked operation in progress, by what it waits for
    watching,   \* the monitor loop still runs
    active,     \* _autoland_active
    landing,    \* which landing is selected
    airborne,   \* _airborne_confirmed
    latched,    \* _aborted_impact_touchdown_latched
    evidence,   \* confirmed recovery evidence of this session is present
    fenced,     \* _impact_recovery_setpoints_stopped
    held,       \* the Go2 safe hold is confirmed, the finalization done
    sending,    \* Pixhawk is under external control
    age,        \* of every timer that runs
    place,      \* where the vehicle is
    armed,      \* Pixhawk is armed
    impact      \* history: its recovery was aborted, and it did not fly since

sessionVars == <<active, landing, evidence, fenced, held, sending>>
impactVars == <<latched, impact>>
cycleVars == <<airborne, impactVars>>
worldVars == <<raw, place, armed>>
vars == <<rc, mode, change, op, watching, age,
          sessionVars, cycleVars, worldVars>>

Completing == {"wait", "finalize", "stable", "seen", "lifted", "looked"}

Off == -1
Started(a, ts) == [t \in Timer |-> IF t \in ts THEN 0 ELSE a[t]]
Stopped(a, ts) == [t \in Timer |-> IF t \in ts THEN Off ELSE a[t]]
Begun(a, t) == IF a[t] = Off THEN Started(a, {t}) ELSE a

AutoStates == {"AUTO_LANDING_READY", "AUTO_LANDING"}
Mode == {"BOOT_SAFE", "FLIGHT_READY", "FLIGHT_MANUAL", "TOUCHDOWN_VERIFY",
         "FAULT"} \cup AutoStates
Waiting == {"idle", "ready legacy", "ready mpc", "guided", "start", "reject", "quiesce", "fence", "abort",
            "left", "left and fault", "stop", "stop and fault", "halt",
            "halt and fault", "complete", "complete mpc", "landed", "commit"}

Idle == [to |-> "BOOT_SAFE", pc |-> "none", muted |-> FALSE]

Init ==
    /\ raw \in Samples /\ rc = Forgotten
    /\ mode = "FLIGHT_READY" /\ change = Idle /\ op = "idle"
    /\ watching = TRUE
    /\ active = FALSE /\ landing = "legacy" /\ airborne = FALSE
    /\ latched = FALSE /\ evidence = FALSE /\ fenced = FALSE /\ held = FALSE
    /\ sending = FALSE /\ age = [t \in Timer |-> Off]
    /\ place = "ground" /\ armed = FALSE /\ impact = FALSE

-----------------------------------------------------------------------------
(* Pixhawk's external control: a setpoint is refused or sent; a stop needs *)
(* the mode to be handed back first, or fails.                             *)
MaySend == sending' \in {sending, TRUE}

StopsSending == sending' = FALSE

-----------------------------------------------------------------------------
(* Transitions. *)

Free == change.pc = "none"

Begins(to) == Free /\ change' = [to |-> to, pc |-> "accepted", muted |-> FALSE]

(* _fault: enter FAULT unless there or refused; muted if its entry leaves  *)
(* the outputs to a stop that was attempted before.                        *)
Faults(muted) ==
    IF Free /\ mode # "FAULT"
    THEN change' = [to |-> "FAULT", pc |-> "accepted", muted |-> muted]
    ELSE UNCHANGED change

(* The state is written and the subscriber runs, which starts a cycle on   *)
(* take-off and forgets the last one on the ground.  FAULT and BOOT_SAFE   *)
(* go on with an entry action.                                             *)
WriteState ==
    /\ change.pc = "accepted"
    /\ mode' = change.to
    /\ LET takesOff == mode = "FLIGHT_READY" /\ mode' = "FLIGHT_MANUAL"
           cycles == takesOff \/ mode' \in {"BOOT_SAFE", "FLIGHT_READY", "FAULT"}
       IN /\ latched' = (latched /\ ~takesOff)
          /\ airborne' = (airborne /\ ~cycles)
          /\ landing' = IF cycles THEN "legacy" ELSE landing
          /\ age' = Stopped(age, IF cycles THEN {"airborne", "touchdown"} ELSE {})
    /\ UNCHANGED impact
    /\ active' = (active /\ mode' # "FAULT")
    /\ change' = IF mode' = "BOOT_SAFE" \/ (mode' = "FAULT" /\ ~change.muted)
                 THEN [change EXCEPT !.pc = "entry"] ELSE Idle
    /\ evidence' = (evidence /\ mode' = "AUTO_LANDING")
    /\ UNCHANGED <<rc, op, watching, fenced, held, sending, worldVars>>

(* The entry stopped the setpoints, or could not.                          *)
EntryEnds ==
    /\ change.pc = "entry"
    /\ \/ /\ StopsSending /\ change' = Idle
          /\ active' = (active /\ change.to # "BOOT_SAFE")
       \/ /\ sending /\ UNCHANGED <<sending, active>>
          /\ change' = IF change.to = "BOOT_SAFE"
                       THEN [to |-> "FAULT", pc |-> "accepted", muted |-> FALSE]
                       ELSE Idle
    /\ UNCHANGED <<rc, mode, op, watching, landing, evidence,
                   fenced, held, age, cycleVars, worldVars>>

-----------------------------------------------------------------------------
(* Aborting. *)

Snapshot == rc' = Debounced(rc)

Done == op' = "idle"

(* Mutant: an aborted recovery leaves no trace. *)
BeginAbortForgetting(a, next) ==
    /\ latched' = latched
    /\ impact' = (impact \/ (mode \in AutoStates /\ a["wait"] # Off /\ place = "ground"))
    /\ age' = Stopped(a, {"touchdown", "lifted", "looked"})
    /\ op' = next

(* Before the first await of an abort: remember an impact whose recovery   *)
(* had begun, and drop the touchdown timing.                               *)
BeginAbort(a, next) ==
    /\ latched' = (latched \/ a["wait"] # Off)
    /\ impact' = (impact \/ (mode \in AutoStates /\ a["wait"] # Off /\ place = "ground"))
    /\ age' = Stopped(a, {"touchdown", "lifted", "looked"})
    /\ op' = next

Forget ==
    /\ evidence' = FALSE /\ fenced' = FALSE /\ held' = FALSE

(* The setpoints were stopped: give the session up and return to the       *)
(* pilot.  A refused transition is followed by a fault that is refused.    *)
Leave ==
    /\ active' = FALSE /\ Forget
    /\ age' = Stopped(age, Completing \cup {"ramp"})
    /\ IF mode \notin AutoStates THEN Done /\ UNCHANGED change
       ELSE IF Free THEN Begins("FLIGHT_MANUAL") /\ op' = "left"
       ELSE Done /\ UNCHANGED change

(* A stop succeeds, or fails because no pilot mode is confirmed.           *)
AbortReturns ==
    /\ op = "abort"
    /\ \/ StopsSending /\ Leave
       \/ /\ sending /\ active' = FALSE /\ Faults(FALSE) /\ op' = "commit"
          /\ UNCHANGED <<sending, evidence, fenced, held, age>>
    /\ UNCHANGED <<rc, mode, watching, landing, cycleVars,
                   worldVars>>

(* A supervised stop, which aborts a landing it was begun in; the tick     *)
(* goes on to FAULT.                                                       *)
Stops(faulting) ==
    IF mode \in AutoStates
    THEN BeginAbort(age, IF faulting THEN "stop and fault" ELSE "stop")
    ELSE /\ op' = IF faulting THEN "halt and fault" ELSE "halt"
         /\ UNCHANGED <<impactVars, age>>

ThenFaults == op \in {"stop and fault", "halt and fault", "left and fault"}

StopReturns ==
    /\ op \in {"stop", "stop and fault", "halt", "halt and fault"}
    /\ active' = FALSE
    /\ \/ /\ StopsSending
          /\ IF op \in {"stop", "stop and fault"}
             THEN Forget /\ age' = Stopped(age, Completing)
             ELSE UNCHANGED <<evidence, fenced, held, age>>
          /\ IF op \in {"stop", "stop and fault"} /\ mode \in AutoStates /\ Free
             THEN /\ Begins("FLIGHT_MANUAL")
                  /\ op' = IF ThenFaults THEN "left and fault" ELSE "left"
             ELSE IF ThenFaults THEN Faults(TRUE) /\ op' = "commit"
             ELSE Done /\ UNCHANGED change
       \/ /\ sending /\ Faults(TRUE) /\ op' = "commit"
          /\ UNCHANGED <<sending, evidence, fenced, held, age>>
    /\ UNCHANGED <<rc, mode, watching, landing, cycleVars,
                   worldVars>>

(* Back with the pilot: the selection is forgotten. *)
Left ==
    /\ op \in {"left", "left and fault"} /\ Free
    /\ landing' = IF mode = "FLIGHT_MANUAL" THEN "legacy" ELSE landing
    /\ IF ThenFaults THEN Faults(TRUE) /\ op' = "commit"
       ELSE Done /\ UNCHANGED change
    /\ UNCHANGED <<rc, mode, watching, active,
                   evidence, fenced, held, sending, age, cycleVars, worldVars>>

(* The operation resumes when the transition it asked for is committed.    *)
Committed ==
    /\ op = "commit" /\ Free /\ Done
    /\ UNCHANGED <<rc, mode, change, watching, age,
                   sessionVars, cycleVars, worldVars>>

-----------------------------------------------------------------------------
(* The operator's commands. *)

Readying(l) == IF l = "mpc" THEN "ready mpc" ELSE "ready legacy"

ReadyGuard == armed /\ AutoLandingRequest(rc') # "MANUAL"

Prepare(l) ==
    /\ op = "idle" /\ watching /\ mode = "FLIGHT_MANUAL" /\ ~latched
    /\ Snapshot /\ ReadyGuard
    /\ Begins("AUTO_LANDING_READY") /\ op' = Readying(l)
    /\ landing' = "legacy" /\ age' = Stopped(age, {"ramp"})
    /\ UNCHANGED <<mode, watching, active, evidence, fenced, held,
                   sending, cycleVars, worldVars>>

(* The selection and the session are made, whatever the state is by now.   *)
Prepared(l) ==
    /\ op = Readying(l) /\ Free /\ Done
    /\ landing' = l
    /\ Forget /\ age' = Stopped(age, Completing)
    /\ UNCHANGED <<rc, mode, change, watching, active,
                   sending, cycleVars, worldVars>>

(* On the hardware Pixhawk is asked for the external-control mode first.   *)
Start ==
    /\ op = "idle" /\ watching /\ mode = "AUTO_LANDING_READY"
    /\ op' = "guided"
    /\ UNCHANGED <<rc, mode, change, watching, age,
                   sessionVars, cycleVars, worldVars>>

ExecuteGuard ==
    mode = "AUTO_LANDING_READY" /\ armed /\ AutoLandingRequest(rc') = "AUTO_EXECUTE"

Guided ==
    /\ op = "guided"
    /\ \/ Done /\ UNCHANGED <<rc, change, sending>>
       \/ /\ Snapshot /\ MaySend
          /\ \/ ExecuteGuard /\ Begins("AUTO_LANDING") /\ op' = "start"
             \/ op' = "reject" /\ UNCHANGED change
    /\ UNCHANGED <<mode, watching, active, landing, evidence, fenced,
                   held, age, cycleVars, worldVars>>

Rejected ==
    /\ op = "reject"
    /\ \/ StopsSending /\ Done /\ UNCHANGED change
       \/ sending /\ Faults(FALSE) /\ op' = "commit" /\ UNCHANGED sending
    /\ UNCHANGED <<rc, mode, watching, age, active, landing,
                   evidence, fenced, held, cycleVars, worldVars>>

-----------------------------------------------------------------------------
(* One update of the controller. *)

(* A takeover ramp, once begun, is followed to its end; recovery evidence  *)
(* fences the session; otherwise a setpoint is sent when one is due.       *)
(* Anything not in order aborts.                                           *)
(* Mutant: nobody looks whether the ramp is over. *)
RampsForever(a) ==
    /\ age' = Begun(a, "ramp") /\ MaySend
    /\ Done /\ UNCHANGED <<impactVars, fenced>>

Ramps(a) ==
    /\ a["ramp"] < Blend /\ age' = Begun(a, "ramp")
    /\ MaySend
    /\ Done /\ UNCHANGED <<impactVars, fenced>>

Fences(a) ==
    /\ age' = Begun(a, "wait")
    /\ IF sending THEN op' = "fence" /\ UNCHANGED fenced
       ELSE Done /\ fenced' = TRUE
    /\ UNCHANGED <<impactVars, sending>>

Sends(a) ==
    /\ age' = a /\ MaySend
    /\ Done /\ UNCHANGED <<impactVars, fenced>>

Aborts(a) == BeginAbort(a, "abort") /\ UNCHANGED <<sending, fenced>>

Update(a) ==
    \/ Aborts(a)
    \/ IF Takeover(rc') \/ a["ramp"] # Off THEN Ramps(a)
       ELSE IF fenced \/ evidence THEN Fences(a)
       ELSE Sends(a)

Returns(a) == age' = a /\ Done /\ UNCHANGED <<impactVars, sending, fenced>>

(* The landing is begun: its first update. *)
FirstUpdate ==
    /\ op = "start" /\ Free
    /\ active' = TRUE /\ Snapshot
    /\ IF mode = "AUTO_LANDING" THEN Update(age) ELSE Returns(age)
    /\ UNCHANGED <<mode, change, watching, landing, airborne, evidence,
                   held, worldVars>>

FenceReturns ==
    /\ op = "fence"
    /\ \/ StopsSending /\ fenced' = TRUE /\ Done /\ UNCHANGED change
       \/ sending /\ Faults(FALSE) /\ op' = "commit" /\ UNCHANGED <<sending, fenced>>
    /\ UNCHANGED <<rc, mode, watching, age, active, landing,
                   evidence, held, cycleVars, worldVars>>

-----------------------------------------------------------------------------
(* Touchdown. *)

(* Being airborne is confirmed once a cycle, before touchdown is looked    *)
(* for.                                                                    *)
Sampled(current) ==
    CASE airborne -> [airborne |-> TRUE, age |-> age]
      [] ~airborne /\ ~(current /\ armed /\ place = "air") ->
           [airborne |-> FALSE, age |-> Stopped(age, {"airborne", "touchdown"})]
      [] OTHER ->
           IF age["airborne"] < AirborneConfirm
           THEN [airborne |-> FALSE, age |-> Begun(age, "airborne")]
           ELSE [airborne |-> TRUE,
                 age |-> Stopped(age, {"airborne", "touchdown"})]

Dwell == {"stable", "seen"}

(* The touchdown dwell after a look: it restarts when the conditions fail  *)
(* or the height has changed.                                              *)
Settling(a, down, moved) ==
    IF ~(down /\ place = "ground")
    THEN Stopped(a, {"touchdown"} \cup Dwell)
    ELSE IF a["touchdown"] = Off \/ moved
    THEN Started(Stopped(a, Dwell), {"touchdown"})
    ELSE a

(* Mutant: a fenced session goes on sending. *)
ContinueUnfenced(a) == IF ~active THEN Returns(a) ELSE Update(a)

Continue(a) == IF fenced \/ ~active THEN Returns(a) ELSE Update(a)

(* Hold the safe hold and wait out the stable dwell; a lost premise, or a  *)
(* look that came too late, starts it again.                               *)
Dwells(a, settled) ==
    IF ~(settled /\ evidence /\ place = "ground")
    THEN age' = Stopped(a, Dwell) /\ Done
    ELSE IF a["stable"] = Off \/ a["seen"] > MaxGap
    THEN age' = Started(a, Dwell) /\ Done
    ELSE /\ age' = Started(a, {"seen"})
         /\ IF a["stable"] < StableConfirm THEN Done ELSE op' = "complete mpc"

(* Mutant: the fence is left to the stop that completes the landing. *)
AdvanceExitUnfenced(a, current, settled) ==
    LET w == Begun(a, "wait")
    IN IF ~(evidence /\ current)
       THEN Continue(Stopped(w, Dwell)) /\ UNCHANGED held
       ELSE /\ held' = TRUE /\ Dwells(Begun(w, "finalize"), settled)
            /\ UNCHANGED <<impactVars, sending, fenced>>

(* What an impact-aware landing does while the touchdown conditions hold.  *)
AdvanceExit(a, current, settled) ==
    LET w == Begun(a, "wait")
    IN IF ~(evidence /\ current)
       THEN Continue(Stopped(w, Dwell)) /\ UNCHANGED held
       ELSE IF ~fenced
       THEN /\ age' = Begun(w, "finalize") /\ op' = "quiesce"
            /\ UNCHANGED <<impactVars, sending, fenced, held>>
       ELSE /\ held' = TRUE /\ Dwells(Begun(w, "finalize"), settled)
            /\ UNCHANGED <<impactVars, sending, fenced>>

Expired == landing = "mpc" /\ age["wait"] >= Completion

TickLanding ==
    /\ op = "idle" /\ watching /\ mode = "AUTO_LANDING" /\ ~Failsafe
    /\ Snapshot
    /\ \E current, down, moved, settled \in BOOLEAN :
         LET s == Sampled(current)
             a == Settling(s.age, down, moved)
         IN /\ airborne' = s.airborne
            /\ IF ~s.airborne THEN Continue(s.age) /\ UNCHANGED held
               ELSE IF Expired THEN Aborts(s.age) /\ UNCHANGED held
               ELSE IF a["touchdown"] < TouchdownConfirm
               THEN Continue(a) /\ UNCHANGED held
               ELSE IF landing = "mpc" THEN AdvanceExit(a, current, settled)
               ELSE /\ op' = "complete" /\ age' = a
                    /\ UNCHANGED <<impactVars, sending, fenced, held>>
    /\ UNCHANGED <<mode, change, watching, active, landing, evidence,
                   worldVars>>

(* The setpoints are stopped for good; the hold of the Go2 follows at once *)
(* unless the deadline of both has passed.                                 *)
Quiesced ==
    /\ op = "quiesce"
    /\ \/ /\ StopsSending
          /\ IF age["finalize"] >= Finalization
             THEN /\ BeginAbort(age, "abort")
                  /\ fenced' = TRUE /\ UNCHANGED held
             ELSE /\ fenced' = TRUE /\ held' = TRUE /\ UNCHANGED impactVars
                  /\ \E settled \in BOOLEAN : Dwells(age, settled)
          /\ UNCHANGED change
       \/ /\ sending /\ Faults(FALSE) /\ op' = "commit"
          /\ UNCHANGED <<sending, fenced, held, impactVars, age>>
    /\ UNCHANGED <<rc, mode, watching, active, landing,
                   evidence, airborne, worldVars>>

(* After the last stop an impact-aware landing is looked at once more:     *)
(* its deadline, its dwell and everything the dwell rests on.              *)
StillEarned(settled) ==
    /\ mode = "AUTO_LANDING" /\ settled /\ evidence /\ place = "ground"
    /\ age["stable"] >= StableConfirm /\ age["seen"] \in 0..MaxGap

(* The guard of the transition looks at the same premises.  *)
TouchdownGuard ==
    /\ mode \in {"FLIGHT_MANUAL", "AUTO_LANDING"} /\ place = "ground"
    /\ mode = "AUTO_LANDING" /\ landing = "mpc" =>
         evidence /\ ~sending' /\ age["stable"] >= StableConfirm /\ age["seen"] \in 0..MaxGap

Exits == TouchdownGuard /\ Begins("TOUCHDOWN_VERIFY") /\ op' = "landed"

CompleteReturns ==
    /\ op \in {"complete", "complete mpc"}
    /\ \/ /\ StopsSending
          /\ IF op = "complete"
             THEN /\ UNCHANGED <<impactVars, age>>
                  /\ \/ Exits
                     \/ Faults(FALSE) /\ op' = "commit"
             ELSE IF age["wait"] >= Completion
             THEN BeginAbort(age, "abort") /\ UNCHANGED change
             ELSE /\ UNCHANGED impactVars
                  /\ \E settled \in BOOLEAN :
                       IF ~StillEarned(settled)
                       THEN age' = Stopped(age, Dwell) /\ Done /\ UNCHANGED change
                       ELSE /\ UNCHANGED age
                            /\ Exits \/ (~Free /\ Faults(FALSE) /\ op' = "commit")
       \/ sending /\ Faults(FALSE) /\ op' = "commit" /\ UNCHANGED <<sending, impactVars, age>>
    /\ UNCHANGED <<rc, mode, watching, active, landing,
                   evidence, fenced, held, airborne, worldVars>>

(* The flags of a touchdown are published only if it is still the state.   *)
Landed ==
    /\ op = "landed" /\ Free
    /\ IF mode = "TOUCHDOWN_VERIFY"
       THEN /\ latched' = FALSE /\ active' = FALSE /\ landing' = "legacy" /\ UNCHANGED impact
            /\ age' = Stopped(age, {"ramp", "lifted", "looked"})
            /\ Done /\ UNCHANGED change
       ELSE /\ Faults(FALSE) /\ op' = "commit"
            /\ UNCHANGED <<impactVars, active, landing, age>>
    /\ UNCHANGED <<rc, mode, watching, airborne, evidence,
                   fenced, held, sending, worldVars>>

(* In FLIGHT_MANUAL an aborted impact is not taken for a landing until the *)
(* vehicle has been seen in the air for a while without a gap.             *)
Lifting(a, flies) ==
    IF ~(flies /\ place = "air") THEN Stopped(a, {"lifted", "looked"})
    ELSE IF a["lifted"] = Off \/ a["looked"] > MaxGap
    THEN Started(a, {"lifted", "looked"})
    ELSE Started(a, {"looked"})

Lifted(a) == a["lifted"] >= LiftConfirm

TickManual ==
    /\ op = "idle" /\ watching /\ mode = "FLIGHT_MANUAL"
    /\ Snapshot
    /\ \E current, down, moved \in BOOLEAN :
         LET s == Sampled(current)
             a == IF latched THEN Lifting(Stopped(s.age, {"touchdown"}), current)
                  ELSE Settling(s.age, down, moved)
         IN /\ airborne' = s.airborne
            /\ IF ~s.airborne THEN age' = s.age /\ Done /\ UNCHANGED impactVars
               ELSE IF latched
               THEN /\ latched' = ~Lifted(a) /\ UNCHANGED impact
                    /\ age' = IF Lifted(a) THEN Stopped(a, {"lifted", "looked"}) ELSE a
                    /\ Done
               ELSE /\ age' = a /\ UNCHANGED impactVars
                    /\ IF a["touchdown"] < TouchdownConfirm THEN Done
                       ELSE op' = "complete"
    /\ UNCHANGED <<mode, change, watching, sessionVars, worldVars>>

-----------------------------------------------------------------------------
(* The rest of the tick. *)

(* Disarmed before being airborne: back to FLIGHT_READY.  A refusal leaves *)
(* the tick as an exception, which ends the monitor.                       *)
MonitorFails == watching' = FALSE /\ op' = "halt and fault" /\ UNCHANGED change

TakeoffGuard == mode = "FLIGHT_READY" /\ armed

TickCommits ==
    /\ op = "idle" /\ watching /\ Snapshot
    /\ \/ /\ mode = "FLIGHT_MANUAL" /\ ~armed /\ ~airborne
          /\ \/ place = "ground" /\ Begins("FLIGHT_READY") /\ op' = "commit" /\ UNCHANGED watching
             \/ MonitorFails
       \/ /\ TakeoffGuard
          /\ \/ Begins("FLIGHT_MANUAL") /\ op' = "commit" /\ UNCHANGED watching
             \/ ~Free /\ MonitorFails
    /\ UNCHANGED <<mode, age, sessionVars, cycleVars, worldVars>>

(* An input of the landing failed, or the pilot wants it back before it    *)
(* began.                                                                  *)
TickAborts ==
    /\ op = "idle" /\ watching /\ mode \in AutoStates /\ Snapshot
    /\ BeginAbort(age, "abort")
    /\ UNCHANGED <<mode, change, watching, airborne, sessionVars, worldVars>>

TickEscalates ==
    /\ op = "idle" /\ watching /\ mode \notin {"BOOT_SAFE", "FAULT"} /\ Snapshot
    /\ Stops(TRUE)
    /\ UNCHANGED <<mode, change, watching, airborne, sessionVars, worldVars>>

TickIdles ==
    /\ op = "idle" /\ watching /\ Snapshot
    /\ \/ mode \in {"BOOT_SAFE", "TOUCHDOWN_VERIFY", "FAULT"}
       \/ mode = "FLIGHT_READY" /\ ~armed
       \/ mode = "AUTO_LANDING_READY" /\ ~Failsafe /\ ~Takeover(rc')
    /\ UNCHANGED <<mode, change, op, watching, age, sessionVars,
                   cycleVars, worldVars>>

AbortAutoland ==
    /\ op = "idle" /\ watching /\ BeginAbort(age, "abort")
    /\ UNCHANGED <<rc, mode, change, watching, airborne,
                   sessionVars, worldVars>>

StopSupervised ==
    /\ op = "idle" /\ watching /\ Stops(FALSE)
    /\ UNCHANGED <<rc, mode, change, watching, airborne,
                   sessionVars, worldVars>>

-----------------------------------------------------------------------------
(* Beside the lock. *)

(* stop_transform_motion, when its stops have ended: the rotor-arm drive or *)
(* the setpoints may not have stopped.                                     *)
StopMotion ==
    /\ watching /\ Snapshot
    /\ \/ StopsSending /\ UNCHANGED change
       \/ sending' \in {sending, FALSE} /\ Faults(TRUE)
    /\ UNCHANGED <<mode, op, watching, age, active, landing, evidence, fenced,
                   held, cycleVars, worldVars>>

(* clear-fault makes a snapshot in every state. *)
ClearFault ==
    /\ watching /\ Snapshot
    /\ \/ mode = "FAULT" /\ ~armed /\ Begins("BOOT_SAFE")
       \/ UNCHANGED change
    /\ UNCHANGED <<mode, op, watching, age, sessionVars, cycleVars, worldVars>>

(* Boot adopts the verified FLIGHT configuration; after a touchdown the    *)
(* landing compliance and the joint lock lead back to FLIGHT_READY.        *)
MadeReady ==
    /\ mode \in {"BOOT_SAFE", "TOUCHDOWN_VERIFY"} /\ watching
    /\ ~armed /\ Begins("FLIGHT_READY")
    /\ UNCHANGED <<rc, mode, op, watching, age, sessionVars,
                   cycleVars, worldVars>>

-----------------------------------------------------------------------------
(* The world. *)

(* Arming needs the ground authorization, so it happens in FLIGHT_READY.   *)
Arms ==
    /\ mode = "FLIGHT_READY" /\ place = "ground" /\ ~armed /\ armed' = TRUE
    /\ UNCHANGED <<raw, place, impact>>
Disarms ==
    armed /\ place = "ground" /\ armed' = FALSE /\ UNCHANGED <<raw, place, impact>>
LiftsOff ==
    /\ armed /\ place = "ground" /\ place' = "air" /\ impact' = FALSE
    /\ UNCHANGED <<raw, armed>>
TouchesDown == place = "air" /\ place' = "ground" /\ UNCHANGED <<raw, armed, impact>>
Pilots == Receive /\ UNCHANGED <<place, armed, impact>>

World ==
    /\ Arms \/ Disarms \/ LiftsOff \/ TouchesDown \/ Pilots
    /\ UNCHANGED <<rc, mode, change, op, watching, age,
                   sessionVars, airborne, latched>>

(* The recovery of an impact-aware landing reports; a report of another    *)
(* session, or one that goes back, counts as none.  Evidence ages within a *)
(* moment, so none is left of it once the landing is.                      *)
EvidenceArrives ==
    /\ evidence' = ~evidence
    /\ mode = "AUTO_LANDING"
    /\ evidence' => (landing = "mpc" /\ place = "ground")
    /\ UNCHANGED <<rc, mode, change, op, watching, age, active,
                   landing, fenced, held, sending, cycleVars, worldVars>>

Elapse ==
    /\ age' = [t \in Timer |-> IF age[t] \in {Off, Limit[t]} THEN age[t] ELSE age[t] + 1]
    /\ rc' = Held(rc)
    /\ UNCHANGED <<mode, change, op, watching, sessionVars,
                   cycleVars, worldVars>>

Tick == TickLanding \/ TickManual \/ TickCommits \/ TickAborts \/ TickEscalates
          \/ TickIdles

Commits == WriteState \/ EntryEnds

Resumes ==
    \/ AbortReturns \/ StopReturns \/ Left
    \/ Committed \/ (\E l \in Landings : Prepared(l)) \/ Guided \/ Rejected
    \/ FirstUpdate \/ FenceReturns \/ Quiesced \/ CompleteReturns \/ Landed

Commands ==
    \/ (\E l \in Landings : Prepare(l)) \/ Start \/ AbortAutoland
    \/ StopSupervised \/ StopMotion \/ ClearFault \/ MadeReady

Next == Tick \/ Commits \/ Resumes \/ Commands \/ World \/ EvidenceArrives \/ Elapse

(* Whoever holds the operation lock goes on, the monitor when nobody does; *)
(* a transition is committed, and time passes.                             *)
Fairness ==
    WF_vars(Tick \/ Resumes) /\ WF_vars(Commits) /\ WF_vars(Elapse)

Spec == Init /\ [][Next]_vars /\ Fairness

-----------------------------------------------------------------------------

AgeOK == age \in [Timer -> Int] /\ \A t \in Timer : age[t] \in Off..Limit[t]

TypeOK ==
    /\ RcTypeOK /\ AgeOK
    /\ mode \in Mode /\ landing \in {"legacy", "mpc"}
    /\ change \in [to : Mode, pc : {"none", "accepted", "entry"}, muted : BOOLEAN]
    /\ op \in Waiting
    /\ {watching, active, airborne, latched, evidence, fenced,
        held, sending, armed, impact} \subseteq BOOLEAN
    /\ place \in {"air", "ground"}

(* Once recovery has fenced a session no setpoint is sent in it again.     *)
FencedIsQuiet == fenced => ~sending

Landing == mode # "TOUCHDOWN_VERIFY" /\ mode' = "TOUCHDOWN_VERIFY"

(* A vehicle whose recovery was aborted on the ground is not taken for     *)
(* landed before it has flown again.                                       *)
ImpactIsNoLanding == [][Landing => ~impact]_vars

HandsOver ==
    mode \in AutoStates /\ mode' \in {"FLIGHT_MANUAL", "TOUCHDOWN_VERIFY"}

HandsOverQuiet == [][HandsOver => ~sending']_vars

WholeDwell ==
    [][Landing /\ landing = "mpc"
         => fenced /\ held /\ age["stable"] >= StableConfirm]_vars

(* A landing is given back to the pilot, or confirmed, only once its       *)
(* setpoints have stopped; a confirmed impact-aware one rests besides on   *)
(* the fence, the safe hold and the whole dwell.                           *)
ExitIsEarned == HandsOverQuiet /\ WholeDwell

(* A landing that flew ends once the pilot's takeover ramp or the recovery *)
(* has begun, whatever stops or faults beside it.                          *)
Ending == age["ramp"] # Off \/ (fenced /\ landing = "mpc")

LandingEnds ==
    (Ending /\ airborne /\ mode = "AUTO_LANDING") ~> mode # "AUTO_LANDING"
=============================================================================
