------------------------------ MODULE Handover ------------------------------
(***************************************************************************)
(* Who commands the legs on the ground: the manager's operations that move *)
(* the Go2 between its own Sport service and the LowCmd owner.             *)
(*                                                                         *)
(* The Sport service reports the joint lock by samples.  When the owner    *)
(* gives the legs back, a sample of the time before says nothing about     *)
(* them any more: the release sets a fence, and the ground handover        *)
(* accepts only a sample taken behind it.  The operator may instead        *)
(* confirm the lock by sight (go2 confirm-lock).                           *)
(*                                                                         *)
(* Two tasks act: the shell and the monitor.  Most operations run under    *)
(* the operation lock; connecting, confirming, clearing a fault,           *)
(* interrupting and the second half of a disconnection do not.  Every call *)
(* into a device or a transition, once begun, ends with its effect even    *)
(* when the task is cancelled; the rest of the operation is then skipped.  *)
(*                                                                         *)
(* The airframe is in FLIGHT configuration and writing is allowed.  What   *)
(* the owner does inside is LowCmdOwner's, the gate's protocol GroundArm's *)
(* and an automatic landing Autoland's.  Conditions of other sensors are   *)
(* free: a check that needs them may refuse, and a hazard may be seen.     *)
(***************************************************************************)
EXTENDS Naturals, SystemStates

VARIABLES
    enabled,    \* go2.low_level.enabled
    mode,       \* the state machine's state
    change,     \* the transition being committed
    own,        \* the LowCmd owner
    dog,        \* the legs: "locked" or "free" under Sport, or "low"
    sport,      \* the last Sport sample, "old" when taken before the fence
    fence,      \* _go2_ground_handover_started_at is set
    back,       \* HIGH_LEVEL_REACQUIRING: off, on, or past its deadline
    wait,       \* _go2_joint_lock_deadline: off, on, or past
    opLock,     \* _operator_joint_lock_confirmed
    gate,       \* the ground-arm gate: shut, open, or used by an arming
    flight,     \* safe (disarmed on the ground), armed (there), or air
    saw,        \* the snapshot shows Pixhawk armed, where that is looked at
    flown,      \* _airborne_confirmed
    link,       \* the connected devices: all up, part of them, all down
    used,       \* _ever_entered_operational_state
    relocked,   \* history: the legs locked since Sport last got them
    run,        \* what each task is doing
    cut         \* the shell's command is cancelled

legVars == <<own, dog, relocked>>
sampleVars == <<sport, fence>>
seenVars == <<saw, back, used>>
flightVars == <<gate, flight, flown>>
handoverVars == <<enabled, mode, change, legVars, sampleVars, seenVars, wait, opLock,
          flightVars, link, run, cut>>

Actors == {"shell", "monitor"}
Mode == {"BOOT_SAFE", "GO2_JOINT_LOCK_WAIT", "FLIGHT_READY", "FLIGHT_MANUAL",
         "TOUCHDOWN_VERIFY", "LANDING_COMPLIANT", "GO2_GROUND_HANDOVER", "FAULT"}

Rest == [pc |-> "idle", aim |-> "none", ok |-> TRUE, was |-> FALSE]
Idle == [to |-> "BOOT_SAFE", pc |-> "none", muted |-> FALSE]

HandoverInit ==
    /\ enabled \in BOOLEAN
    /\ mode = "BOOT_SAFE" /\ change = Idle
    /\ own = "observe" /\ dog = "free" /\ relocked = TRUE
    /\ sport = "free" /\ fence = FALSE
    /\ saw = FALSE /\ back = "off" /\ used = FALSE
    /\ wait = "off" /\ opLock = FALSE
    /\ gate = "shut" /\ flight = "safe" /\ flown = FALSE
    /\ link = "down"
    /\ run = [a \in Actors |-> Rest] /\ cut = FALSE

-----------------------------------------------------------------------------
(* What a snapshot says. *)

Pending == own # "observe"
Armed == flight # "safe"

(* Mutant: in the handover any sample that shows the lock will do. *)
ShownInHandover ==
    sport = "locked" \/ (sport = "oldLocked" /\ mode = "GO2_GROUND_HANDOVER")

BehindFence == sport = "locked"

(* Disarmed, landed and at rest, on current evidence.                      *)
Grounded == ~Armed

LockShown == sport \in {"locked", "oldLocked"}
Confirmed == LockShown \/ opLock

(* Sport is back in control once a sample behind the fence shows the lock. *)
Regained == fence /\ BehindFence

Auth ==
    CASE own \in {"hold", "safe"} -> "hold"
      [] own \in {"acquiring", "fault"} -> own
      [] own = "releasing" -> "reacquiring"
      [] own = "observe" ->
            IF back # "off" /\ ~Regained
            THEN IF back = "on" THEN "reacquiring" ELSE "fault"
            ELSE IF LockShown THEN "lock" ELSE "unknown"

Refresh ==
    /\ saw' = (Armed /\ mode \in {"FLIGHT_READY", "FLIGHT_MANUAL"})
    /\ used' = (used \/ mode \notin {"BOOT_SAFE", "FAULT"})
    /\ back' = IF back = "on" /\ ~Regained /\ own \in {"observe", "releasing"}
               THEN "on" ELSE "off"

-----------------------------------------------------------------------------
(* Transitions. *)

WaitGuard == mode = "BOOT_SAFE" /\ ~Armed

(* The lock must be confirmed, and with LowCmd configured Sport must have  *)
(* the authority with it.                                                  *)
LockHeld == Confirmed /\ (enabled => Auth = "lock")

ReadyGuard == mode \notin {"TOUCHDOWN_VERIFY", "FAULT"} /\ ~Armed /\ LockHeld

ManualGuard == mode = "FLIGHT_READY" /\ Armed /\ gate # "shut"

HandoverGuard ==
    /\ mode = "TOUCHDOWN_VERIFY" /\ ~Armed
    /\ ~Pending /\ Auth = "reacquiring"

CompliantGuard == mode = "TOUCHDOWN_VERIFY" /\ ~Armed /\ LockHeld

BootGuard == mode \in {"FLIGHT_READY", "FAULT"} /\ ~Armed /\ ~Pending

Guard(to) ==
    /\ Pending => to \in LowCmdOwnershipAllowedStates
    /\ CASE to = "BOOT_SAFE" -> BootGuard
         [] to = "GO2_JOINT_LOCK_WAIT" -> WaitGuard
         [] to = "FLIGHT_READY" -> ReadyGuard
         [] to = "FLIGHT_MANUAL" -> ManualGuard
         [] to = "TOUCHDOWN_VERIFY" -> mode = "FLIGHT_MANUAL" /\ flown
         [] to = "GO2_GROUND_HANDOVER" -> HandoverGuard
         [] to = "LANDING_COMPLIANT" -> CompliantGuard

Free == change.pc = "none"

Begins(to) ==
    /\ Free /\ Guard(to)
    /\ change' = [to |-> to, pc |-> "accepted", muted |-> FALSE]

Refused(to) == ~(Free /\ Guard(to)) /\ UNCHANGED change

(* _fault: FAULT, unless it is there already or another transition is.     *)
Faults(muted) ==
    IF Free /\ mode # "FAULT"
    THEN change' = [to |-> "FAULT", pc |-> "accepted", muted |-> muted]
    ELSE UNCHANGED change

(* The state is written and the subscriber runs; leaving FLIGHT_READY it   *)
(* closes the gate, and cannot leave for anything but FAULT if that fails. *)
WriteState ==
    /\ change.pc = "accepted"
    /\ mode' = change.to
    /\ opLock' = (opLock /\ mode' \notin {"BOOT_SAFE", "GO2_JOINT_LOCK_WAIT",
                                          "LANDING_COMPLIANT", "FAULT"})
    /\ flown' = (flown /\ mode' \notin {"BOOT_SAFE", "FLIGHT_READY", "FAULT"}
                       /\ ~(mode = "FLIGHT_READY" /\ mode' = "FLIGHT_MANUAL"))
    /\ LET next == IF mode' \in {"FLIGHT_MANUAL", "TOUCHDOWN_VERIFY"}
                   THEN Idle ELSE [change EXCEPT !.pc = "entry"]
       IN IF mode # "FLIGHT_READY" \/ gate = "shut"
          THEN UNCHANGED gate /\ change' = next
          ELSE \/ gate' = "shut" /\ change' = next
               \/ /\ UNCHANGED gate
                  /\ change' = IF mode' = "FAULT" THEN next
                               ELSE [to |-> "FAULT", pc |-> "accepted", muted |-> FALSE]
    /\ UNCHANGED <<enabled, legVars, sampleVars, seenVars, wait, flight, link, run, cut>>

Entered == change' = Idle
EntryFails == change' = [to |-> "FAULT", pc |-> "accepted", muted |-> FALSE]

(* The outputs are stopped, or the manager faults.                         *)
EnterBootSafe ==
    /\ wait' = "off" /\ fence' = FALSE
    /\ Entered \/ EntryFails
    /\ UNCHANGED <<own, dog, gate>>

(* Both waits start their deadline; only the handover keeps the fence.     *)
EnterWait ==
    /\ wait' = "on" /\ fence' = (fence /\ change.to = "GO2_GROUND_HANDOVER")
    /\ Entered
    /\ UNCHANGED <<own, dog, gate>>

EnterReady ==
    /\ wait' = "off" /\ fence' = FALSE /\ Entered
    /\ UNCHANGED <<own, dog, gate>>

(* Landing compliance lets the legs stand, or the manager faults.          *)
EnterCompliant ==
    /\ \/ ~Pending /\ dog' = "free" /\ Entered
       \/ UNCHANGED dog /\ EntryFails
    /\ UNCHANGED <<own, wait, fence, gate>>

(* FAULT stops what it can, with one more attempt at the owner if LowCmd   *)
(* is configured; what fails is only recorded.                             *)
EnterFault ==
    /\ wait' = "off" /\ fence' = FALSE /\ Entered
    /\ IF enabled \/ ~change.muted
       THEN /\ gate' \in {gate, "shut"}
            /\ own' \in {own, IF own = "hold" THEN "safe" ELSE own}
       ELSE UNCHANGED <<own, gate>>
    /\ UNCHANGED dog

EntryEnds ==
    /\ change.pc = "entry"
    /\ LET to == change.to IN
       \/ to = "BOOT_SAFE" /\ EnterBootSafe
       \/ to \in {"GO2_JOINT_LOCK_WAIT", "GO2_GROUND_HANDOVER"} /\ EnterWait
       \/ to = "FLIGHT_READY" /\ EnterReady
       \/ to = "LANDING_COMPLIANT" /\ EnterCompliant
       \/ to = "FAULT" /\ EnterFault
    /\ UNCHANGED <<enabled, mode, relocked, sport, seenVars, opLock, flight,
                   flown, link, run, cut>>

-----------------------------------------------------------------------------
(* Tasks. *)

(* Called without the operation lock. *)
Unlocked == {"connect", "confirm", "clear", "interrupt"}

Holds(a) == /\ run[a].pc \notin {"idle", "queued", "leave", "leaving", "drop", "dropped"}
            /\ run[a].aim \notin Unlocked

Starts(a, aims) ==
    /\ run[a].pc = "queued" /\ run[a].aim \in aims
    /\ aims \cap Unlocked = {} => \A b \in Actors : ~Holds(b)
    /\ ~(a = "shell" /\ cut /\ run[a].aim # "close")

(* Closing is shielded from the cancellation. *)
Cut(a) == a = "shell" /\ cut /\ run[a].aim # "close"

Ends(a) == run' = [run EXCEPT ![a] = Rest]
Goes(a, pc) == IF Cut(a) THEN Ends(a) ELSE run' = [run EXCEPT ![a].pc = pc]

(* What no operation of the manager changes by itself. *)
still == <<enabled, mode, wait, cut>>

(* An operation ends when its last transition has.                         *)
Committed(a) ==
    /\ run[a].pc = "commit" /\ run[a].aim # "report" /\ Free
    /\ Ends(a)
    /\ UNCHANGED <<still, change, legVars, sampleVars, seenVars, opLock, flightVars, link>>

-----------------------------------------------------------------------------
(* Taking the legs. *)

Acquire(a) ==
    /\ Starts(a, {"acquire"}) /\ Refresh
    /\ \/ /\ enabled /\ mode = "FLIGHT_READY" /\ ~Pending
          /\ Grounded /\ LockShown
          /\ own' = "acquiring" /\ run' = [run EXCEPT ![a].pc = "taking"]
       \/ UNCHANGED own /\ Ends(a)
    /\ UNCHANGED <<still, change, dog, relocked, sampleVars, opLock, flightVars, link>>

(* The owner holds the legs, has restored Sport, has not touched it, or    *)
(* does not know.  An executor that cannot be bound sends the owner to its *)
(* safe hold.                                                              *)
Taken(a) ==
    /\ run[a].pc = "taking" /\ back' = "off"
    /\ \/ own' \in (IF Cut(a) THEN {"hold"} ELSE {"hold", "safe"})
          /\ dog' = "low" /\ UNCHANGED relocked
       \/ own' = "observe" /\ UNCHANGED <<dog, relocked>>
       \/ own' = "observe" /\ dog' = "free" /\ relocked' = FALSE
       \/ own' = "fault" /\ dog' \in {dog, "low"} /\ UNCHANGED relocked
    /\ Ends(a)
    /\ UNCHANGED <<still, change, sampleVars, saw, used, opLock, flightVars, link>>

-----------------------------------------------------------------------------
(* Giving them back. *)

ReleaseModes == {"FLIGHT_READY", "TOUCHDOWN_VERIFY", "LANDING_COMPLIANT",
                 "BOOT_SAFE", "FAULT"}

(* Mutant: the legs are given back before the gate is closed. *)
ReleaseUngated(a) ==
    /\ Starts(a, {"release"}) /\ Refresh
    /\ enabled /\ mode \in ReleaseModes /\ Grounded /\ own \in {"hold", "safe", "fault"}
    /\ own' = "releasing"
    /\ run' = [run EXCEPT ![a].pc = "handing", ![a].ok = own = "hold",
                          ![a].was = mode = "TOUCHDOWN_VERIFY"]
    /\ UNCHANGED <<still, change, dog, relocked, sampleVars, opLock, flightVars, link>>

(* The gate is closed first; nothing is released while it may be open, in  *)
(* flight, or armed.  A touchdown whose owner already released goes on to  *)
(* the handover.                                                           *)
Release(a) ==
    /\ Starts(a, {"release"}) /\ Refresh
    /\ \/ UNCHANGED <<own, gate>> /\ Ends(a)
       \/ /\ enabled /\ mode \in ReleaseModes /\ gate' = "shut"
          /\ \/ UNCHANGED own /\ Ends(a)
             \/ /\ Grounded /\ ~Pending /\ mode = "TOUCHDOWN_VERIFY"
                /\ UNCHANGED own
                /\ run' = [run EXCEPT ![a].pc = "handed", ![a].was = TRUE]
             \/ /\ Grounded /\ own \in {"hold", "safe", "fault"}
                /\ own' = "releasing"
                /\ run' = [run EXCEPT ![a].pc = "handing", ![a].ok = own = "hold",
                                      ![a].was = mode = "TOUCHDOWN_VERIFY"]
    /\ UNCHANGED <<still, change, dog, relocked, sampleVars, opLock, flight, flown, link>>

(* The owner closed its endpoint and the service was restored, or not.     *)
HandsBack(a) ==
    /\ run[a].pc = "handing"
    /\ \/ /\ own' = "observe" /\ dog' = "free" /\ relocked' = FALSE
          /\ back' = "on"
          /\ run' = [run EXCEPT ![a].pc = "handed"]
       \/ /\ own' \in {IF run[a].ok THEN "hold" ELSE "safe", "fault"}
          /\ back' = "off" /\ UNCHANGED <<dog, relocked>>
          /\ Ends(a)
    /\ UNCHANGED <<still, change, sampleVars, saw, used, opLock, flightVars, link>>

Aged == CASE sport = "locked" -> "oldLocked"
          [] sport = "free" -> "oldFree"
          [] OTHER -> sport

(* The manager goes on behind the owner's return and sets the fence.       *)
Fence(a) ==
    /\ run[a].pc = "handed"
    /\ IF Cut(a) THEN UNCHANGED <<sampleVars, back>>
       ELSE fence' = TRUE /\ sport' = Aged /\ back' = "on"
    /\ Goes(a, "fenced")
    /\ UNCHANGED <<still, change, legVars, saw, used, opLock, flightVars, link>>

(* After a touchdown the wait for the lock begins, or FAULT.               *)
Released(a) ==
    /\ run[a].pc = "fenced" /\ Refresh
    /\ IF ~run[a].was THEN UNCHANGED change /\ Ends(a)
       ELSE /\ \/ Begins("GO2_GROUND_HANDOVER")
               \/ Faults(FALSE)
            /\ run' = [run EXCEPT ![a].pc = "commit"]
    /\ UNCHANGED <<still, legVars, sampleVars, opLock, flightVars, link>>

(* The gate opens for the owner's epoch that holds, or without LowCmd for  *)
(* a confirmed lock.                                                       *)
Authorize(a) ==
    /\ Starts(a, {"authorize"}) /\ Refresh
    /\ \/ UNCHANGED gate
       \/ /\ mode = "FLIGHT_READY" /\ Grounded /\ Confirmed
          /\ enabled => own = "hold"
          /\ gate' = "open"
    /\ Ends(a)
    /\ UNCHANGED <<still, change, legVars, sampleVars, opLock, flight, flown, link>>

-----------------------------------------------------------------------------
(* The supervised stop. *)

(* The owner leaves its target for the safe hold, or does not answer.      *)
Calms(calm) ==
    /\ own = "fault" => ~calm
    /\ own' = IF calm /\ own = "hold" THEN "safe" ELSE own

(* Mutant: the stop speaks to Sport whoever commands the legs. *)
HaltsCompeting(a, rest) ==
    \E ok \in BOOLEAN :
        /\ gate' \in {gate, "shut"} /\ UNCHANGED <<own, change>>
        /\ run' = [rest EXCEPT ![a].pc = "sport", ![a].ok = ok]

(* The gate, the outputs and the owner's target are stopped, whichever     *)
(* fails: shut and calm say that the first and the last did, ok that all.  *)
(* The Sport service is spoken to only if no LowCmd owner is left.         *)
Halts(a, rest) ==
    \E shut, calm, ok \in BOOLEAN :
        /\ Calms(calm) /\ (ok => shut /\ calm)
        /\ gate' = IF shut THEN "shut" ELSE gate
        /\ LET waits == mode = "GO2_JOINT_LOCK_WAIT" IN
           IF calm /\ ~Pending /\ link = "up"
           THEN /\ run' = [rest EXCEPT ![a].pc = "sport", ![a].ok = ok, ![a].was = waits]
                /\ UNCHANGED change
           ELSE /\ run' = [rest EXCEPT ![a].pc = "stopped", ![a].ok = ok]
                /\ IF ok /\ ~waits THEN UNCHANGED change ELSE Faults(TRUE)

Stop(a) ==
    /\ Starts(a, {"stop", "disconnect", "exit", "close", "report"})
    /\ Refresh /\ Halts(a, run)
    /\ UNCHANGED <<still, dog, relocked, sampleVars, opLock, flight, flown, link>>

(* StopMove returns, or fails.  A stop that failed, or that interrupted    *)
(* the wait for the lock, faults.                                          *)
StopMoved(a) ==
    /\ run[a].pc = "sport" /\ Refresh
    /\ \E ok \in {run[a].ok, FALSE} :
          IF Cut(a) THEN Ends(a) /\ UNCHANGED change
          ELSE /\ IF ok /\ ~run[a].was THEN UNCHANGED change ELSE Faults(TRUE)
               /\ run' = [run EXCEPT ![a].pc = "stopped", ![a].ok = ok, ![a].was = FALSE]
    /\ UNCHANGED <<still, legVars, sampleVars, opLock, flightVars, link>>

(* What the stop was for goes on, if it succeeded.  Closing stops twice in *)
(* a row, of which one is kept.                                            *)
StopReturns(a) ==
    /\ run[a].pc = "stopped" /\ Free
    /\ LET aim == run[a].aim IN
       \/ /\ aim \in {"tick", "report"}
          /\ Faults(TRUE)
          /\ run' = [run EXCEPT ![a] = [Rest EXCEPT !.pc = "commit", !.aim = aim]]
       \/ aim = "stop" /\ UNCHANGED change /\ Ends(a)
       \/ /\ aim = "exit" /\ UNCHANGED change
          /\ IF run[a].ok /\ ~Cut(a) /\ ~Pending
             THEN run' = [run EXCEPT ![a] = [Rest EXCEPT !.pc = "queued", !.aim = "close"]]
             ELSE Ends(a)
       \/ /\ aim \in {"close", "disconnect"} /\ UNCHANGED change
          /\ IF run[a].ok THEN Goes(a, "leave") ELSE Ends(a)
    /\ UNCHANGED <<still, legVars, sampleVars, seenVars, opLock, flightVars, link>>

-----------------------------------------------------------------------------
(* Disconnecting, behind the stop and without the lock. *)

Leavable ==
    /\ ~Pending /\ Grounded
    /\ (mode = "BOOT_SAFE" /\ link = "down") \/ link = "up" \/ ~used

Prepare(a) ==
    /\ run[a].pc = "leave" /\ Refresh
    /\ \/ UNCHANGED change /\ Ends(a)
       \/ /\ Leavable
          /\ \/ /\ mode \in {"BOOT_SAFE", "FAULT"}
                /\ UNCHANGED change /\ run' = [run EXCEPT ![a].pc = "drop"]
             \/ /\ mode = "FLIGHT_READY" /\ Begins("BOOT_SAFE")
                /\ run' = [run EXCEPT ![a].pc = "leaving"]
    /\ UNCHANGED <<still, legVars, sampleVars, opLock, flightVars, link>>

Prepared(a) ==
    /\ run[a].pc = "leaving" /\ Free
    /\ IF mode = "BOOT_SAFE" THEN run' = [run EXCEPT ![a].pc = "drop"] ELSE Ends(a)
    /\ UNCHANGED <<still, change, legVars, sampleVars, seenVars, opLock, flightVars, link>>

(* The owner is asked once more; then the bridges go one by one, or some   *)
(* do not, or the command is cancelled between two of them.                *)
Drop(a) ==
    /\ run[a].pc = "drop"
    /\ \/ Pending /\ UNCHANGED <<change, link>> /\ Ends(a)
       \/ /\ ~Pending /\ link' = "down" /\ UNCHANGED change
          /\ IF run[a].aim = "close" THEN run' = [run EXCEPT ![a].pc = "dropped"] ELSE Ends(a)
       \/ /\ Cut(a) /\ link # "down" /\ link' = "part"
          /\ UNCHANGED change /\ Ends(a)
       \/ /\ ~Pending /\ link # "down" /\ link' = "part"
          /\ Faults(FALSE) /\ run' = [run EXCEPT ![a].pc = "commit"]
    /\ UNCHANGED <<still, legVars, sampleVars, seenVars, opLock, flightVars>>

=============================================================================
