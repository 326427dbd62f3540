----------------------------- MODULE JointLock ------------------------------
(***************************************************************************)
(* Reaching FLIGHT_READY and leaving it again: the adoption of the devices *)
(* at connection, the wait for the joint lock, the operator's confirmation *)
(* and what a tick of the monitor does outside an automatic landing.       *)
(*                                                                         *)
(* The confirmation and the adoption run without the operation lock, so a  *)
(* tick can move the manager while their call to the Sport service is on   *)
(* its way.                                                                *)
(***************************************************************************)
EXTENDS Handover

(* An operation that begins its last transition, or faults.                *)
Concludes(a, to) ==
    /\ \/ Begins(to)
       \/ Faults(FALSE)
    /\ run' = [run EXCEPT ![a].pc = "commit"]

-----------------------------------------------------------------------------
(* Connecting. *)

(* All devices answer, or some do not and the manager faults.  A locked    *)
(* Go2 has its pose confirmed, any other is stopped.                       *)
Connect(a) ==
    /\ Starts(a, {"connect"}) /\ Refresh
    /\ \/ /\ mode = "BOOT_SAFE" /\ dog # "low"
          /\ link' = "up" /\ sport' = dog /\ UNCHANGED change
          /\ Goes(a, IF dog = "locked" THEN "pose" ELSE "boot")
       \/ /\ mode = "BOOT_SAFE" /\ link # "up" /\ link' = "part"
          /\ UNCHANGED sport /\ Faults(FALSE)
          /\ run' = [run EXCEPT ![a].pc = "commit"]
       \/ mode # "BOOT_SAFE" /\ UNCHANGED <<link, sport, change>> /\ Ends(a)
    /\ UNCHANGED <<still, legVars, fence, opLock, flightVars>>

(* The Go2 was stopped: wait for the operator to lock its joints.          *)
BootStopped(a) ==
    /\ run[a].pc = "boot" /\ Refresh
    /\ IF Cut(a) THEN Ends(a) /\ UNCHANGED change
       ELSE Concludes(a, "GO2_JOINT_LOCK_WAIT")
    /\ UNCHANGED <<still, legVars, sampleVars, opLock, flightVars, link>>

(* The pose was confirmed, on the sample that is there now, or refused.    *)
Posed(a) ==
    /\ run[a].pc = "pose" /\ Refresh
    /\ IF Cut(a) THEN Ends(a) /\ UNCHANGED change
       ELSE /\ \/ LockShown /\ Begins("FLIGHT_READY")
               \/ Faults(FALSE)
            /\ run' = [run EXCEPT ![a].pc = "commit"]
    /\ UNCHANGED <<still, legVars, sampleVars, opLock, flightVars, link>>

-----------------------------------------------------------------------------
(* The wait. *)

WaitModes == {"GO2_JOINT_LOCK_WAIT", "GO2_GROUND_HANDOVER"}

(* _advance_go2_joint_lock_wait: past the deadline it faults; before it,   *)
(* a lock that is shown - by a sample behind the fence, in the handover -  *)
(* and settled has its pose confirmed.                                     *)
Advances(a, rest) ==
    \/ /\ wait = "over" /\ Faults(FALSE) /\ run' = [rest EXCEPT ![a].pc = "commit"]
    \/ /\ wait # "over"
       /\ IF mode = "GO2_GROUND_HANDOVER" THEN fence /\ BehindFence ELSE LockShown
       /\ UNCHANGED change /\ run' = [rest EXCEPT ![a].pc = "pose"]
    \/ wait # "over" /\ UNCHANGED change /\ run' = [rest EXCEPT ![a] = Rest]

(* go2 confirm-lock: a lock that is shown needs no confirmation; otherwise *)
(* the other conditions are checked and the joystick is disabled.          *)
Confirm(a) ==
    /\ Starts(a, {"confirm"}) /\ Refresh
    /\ \/ UNCHANGED change /\ Ends(a)
       \/ mode = "GO2_JOINT_LOCK_WAIT" /\ LockShown /\ Advances(a, run)
       \/ /\ mode = "GO2_JOINT_LOCK_WAIT" /\ ~LockShown /\ ~Armed
          /\ UNCHANGED change /\ run' = [run EXCEPT ![a].pc = "finalize"]
    /\ UNCHANGED <<still, legVars, sampleVars, opLock, flightVars, link>>

Finalized(a) ==
    /\ run[a].pc = "finalize" /\ Refresh
    /\ IF Cut(a) THEN Ends(a) /\ UNCHANGED <<opLock, change>>
       ELSE /\ run' = [run EXCEPT ![a].pc = "commit"]
            /\ \/ /\ opLock' = TRUE /\ Free /\ mode = "GO2_JOINT_LOCK_WAIT" /\ ~Armed
                  /\ enabled => Auth = "lock"
                  /\ change' = [Idle EXCEPT !.to = "FLIGHT_READY", !.pc = "accepted"]
               \/ opLock' = FALSE /\ Faults(FALSE)
    /\ UNCHANGED <<still, legVars, sampleVars, flightVars, link>>

-----------------------------------------------------------------------------
(* Clearing a fault, and Ctrl-C during the wait. *)

ClearFault(a) ==
    /\ Starts(a, {"clear"}) /\ Refresh
    /\ \/ UNCHANGED change /\ Ends(a)
       \/ /\ ~Pending /\ mode = "FAULT" /\ Begins("BOOT_SAFE")
          /\ run' = [run EXCEPT ![a].pc = "commit"]
    /\ UNCHANGED <<still, legVars, sampleVars, opLock, flightVars, link>>

(* The outputs are stopped and the wait faults.                            *)
Interrupt(a) ==
    /\ Starts(a, {"interrupt"}) /\ Refresh
    /\ IF mode # "GO2_JOINT_LOCK_WAIT" THEN Ends(a) /\ UNCHANGED change
       ELSE Faults(TRUE) /\ run' = [run EXCEPT ![a].pc = "commit"]
    /\ UNCHANGED <<still, legVars, sampleVars, opLock, flightVars, link>>

-----------------------------------------------------------------------------
(* A tick. *)

Ticking(pc) == [run EXCEPT !["monitor"] = [Rest EXCEPT !.pc = pc, !.aim = "tick"]]

(* What the manager itself holds against the snapshot: an arming that it   *)
(* did not allow; in flight, an owner that does not hold; on the ground,   *)
(* legs that nobody commands.                                              *)
Unallowed == mode = "FLIGHT_READY" /\ Armed /\ gate = "shut"
OwnerMissing == mode \in {"FLIGHT_MANUAL", "TOUCHDOWN_VERIFY"} /\ Auth # "hold"
AuthorityLost ==
    /\ mode \in {"FLIGHT_READY", "LANDING_COMPLIANT"} /\ ~Pending
    /\ Auth \notin {"lock", "reacquiring"}

Escalates == Unallowed \/ (enabled /\ (OwnerMissing \/ AuthorityLost))

(* The gate is consumed: the manager's half of it is dropped.              *)
Consumed == gate' = IF gate = "used" /\ ~Armed THEN "shut" ELSE gate

(* A hazard ends the wait, or stops everything and faults.                 *)
TickHalts ==
    /\ Refresh
    /\ IF mode \in WaitModes
       THEN /\ Faults(TRUE) /\ run' = Ticking("commit") /\ UNCHANGED <<own, gate>>
       ELSE mode \notin {"BOOT_SAFE", "FAULT"} /\ Halts("monitor", Ticking("sport"))
    /\ UNCHANGED <<still, dog, relocked, sampleVars, opLock, flight, flown, link>>

TickAdvances ==
    /\ mode \in WaitModes /\ Refresh
    /\ Advances("monitor", Ticking("idle"))
    /\ UNCHANGED <<still, legVars, sampleVars, opLock, flightVars, link>>

(* Disarmed before take-off, as this tick is the first to see.             *)
EarlyDisarm ==
    mode = "FLIGHT_MANUAL" /\ saw /\ ~Armed /\ ~flown

(* The state that the tick asks for, if any.                               *)
Wanted ==
    CASE EarlyDisarm -> "FLIGHT_READY"
      [] mode = "FLIGHT_READY" /\ Armed /\ gate # "shut" -> "FLIGHT_MANUAL"
      [] mode = "FLIGHT_MANUAL" /\ flown /\ flight # "air" -> "TOUCHDOWN_VERIFY"
      [] mode = "TOUCHDOWN_VERIFY" /\ Guard("LANDING_COMPLIANT") -> "LANDING_COMPLIANT"
      [] OTHER -> "nothing"

Follow == mode \notin WaitModes /\ ~Escalates /\ Refresh

TickCommits ==
    /\ Follow /\ Wanted # "nothing" /\ Begins(Wanted)
    /\ run' = Ticking("commit") /\ Consumed
    /\ UNCHANGED <<still, legVars, sampleVars, opLock, flight, flown, link>>

(* The airborne dwell, or nothing to do; landing evidence may be missing.  *)
TickIdles ==
    /\ Follow
    /\ Wanted \in {"nothing", "TOUCHDOWN_VERIFY", "LANDING_COMPLIANT"}
    /\ flown' \in {flown, flown \/ (mode = "FLIGHT_MANUAL" /\ flight = "air")}
    /\ Consumed /\ UNCHANGED run
    /\ UNCHANGED <<still, change, legVars, sampleVars, opLock, flight, link>>

=============================================================================
