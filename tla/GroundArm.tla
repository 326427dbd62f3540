------------------------------ MODULE GroundArm ------------------------------
(***************************************************************************)
(* The manager's side of the two-key arming, over ArmGate.                 *)
(*                                                                         *)
(* One operation at a time runs under the operation lock: the operator's   *)
(* authorize and revoke, and the monitor's tick.  State transitions are    *)
(* committed beside it: leaving FLIGHT_READY revokes the gate in a         *)
(* subscriber, after the new state was written.  The manager keeps its own *)
(* flag and deadline; a window is open only while it and the bridge agree. *)
(*                                                                         *)
(* AWAY stands for every other state without flight, reached and left by   *)
(* the morphology commands.  The proof that the vehicle is landed, and the *)
(* readiness checks, come and go: where they are asked for, both answers   *)
(* are possible.                                                           *)
(***************************************************************************)
EXTENDS ArmGate

CONSTANTS Operation, Commit     \* the two callers of the bridge

ASSUME CallersAssumption == Client = {Operation, Commit} /\ Operation # Commit

VARIABLES
    mode,       \* the state machine's state
    flag, left, \* _ground_arm_authorized and the ticks until it expires
    op,         \* the operation in progress
    change,     \* the transition being committed
    away        \* ticks since FLIGHT_READY was left

managerVars == <<mode, flag, left, op, change, away>>
vars == <<gateVars, managerVars>>

Mode == {"FLIGHT_READY", "FLIGHT_MANUAL", "FAULT", "AWAY"}
Operating == {"idle", "authorizing", "validating", "rolling back", "revoking",
              "watchdog", "stopping", "committing"}
Committing == {"none", "written", "subscriber", "entry"}

NoChange == [to |-> "AWAY", pc |-> "none", muted |-> FALSE]
MaxAway == AckWait + Lease + 1

Init ==
    /\ GateInit
    /\ mode = "FLIGHT_READY" /\ flag = FALSE /\ left = 0
    /\ op = "idle" /\ change = NoChange /\ away = 0

(* Start a transition; muted if the entry to FAULT leaves the outputs to   *)
(* a stop that was attempted before.  A machine that is busy refuses.      *)
Begins(to, muted) ==
    IF change.pc = "none" /\ mode # to
    THEN change' = [to |-> to, pc |-> "written", muted |-> muted]
    ELSE UNCHANGED change

(* refresh_snapshot drops the manager's flag when the bridge is inactive. *)
Agreed == flag /\ Active

(* The local half of a revoke, and the call of the bridge. *)
Revoke(c) == flag' = FALSE /\ left' = 0 /\ Request(c, FALSE)

Done == op' = "idle"

-----------------------------------------------------------------------------
(* authorize_ground_arm *)

Authorize ==
    /\ op = "idle" /\ mode = "FLIGHT_READY" /\ ~bridge.armed
    /\ Request(Operation, TRUE)
    /\ left' = Ttl /\ op' = "authorizing"
    /\ UNCHANGED <<mode, flag, change, away>>

(* The bridge's answer is provisional: publish the local half and look     *)
(* again, or roll back.                                                    *)
Answered ==
    /\ op = "authorizing" /\ call[Operation] \in Idle
    /\ IF call[Operation] = "ok" /\ Active
       THEN /\ flag' = TRUE /\ op' = "validating"
            /\ Return(Operation) /\ UNCHANGED left
       ELSE Revoke(Operation) /\ op' = "rolling back"
    /\ UNCHANGED <<mode, change, away>>

StillReady == Agreed /\ left > 0 /\ ~bridge.armed /\ mode = "FLIGHT_READY"

Validate ==
    /\ op = "validating"
    /\ \/ StillReady /\ Done /\ UNCHANGED <<gateVars, flag, left>>
       \/ Revoke(Operation) /\ op' = "rolling back"
    /\ UNCHANGED <<mode, change, away>>

RevokeByOperator ==
    /\ op = "idle" /\ Revoke(Operation) /\ op' = "revoking"
    /\ UNCHANGED <<mode, change, away>>

RevokeReturns ==
    /\ op \in {"rolling back", "revoking"} /\ call[Operation] \in Idle
    /\ Done /\ Return(Operation)
    /\ UNCHANGED <<mode, flag, left, change, away>>

-----------------------------------------------------------------------------
(* The tick. *)

(* The gate may be open, the vehicle is not seen armed, and the window or  *)
(* the proof of being on the ground, which may fail at any time, is not    *)
(* complete: the gate is closed.                                           *)
WindowIsOpen == Agreed /\ left > 0

Watchdog ==
    /\ op = "idle" /\ ~bridge.armed
    /\ flag \/ Active
    /\ Revoke(Operation) /\ op' = "watchdog"
    /\ UNCHANGED <<mode, change, away>>

WatchdogReturns ==
    /\ op = "watchdog" /\ call[Operation] \in Idle
    /\ IF call[Operation] = "ok" THEN Done /\ UNCHANGED change
       ELSE Begins("FAULT", FALSE) /\ op' = "committing"
    /\ Return(Operation)
    /\ UNCHANGED <<mode, flag, left, away>>

(* Armed in FLIGHT_READY without a window: the supervised stop, which      *)
(* revokes first, and FAULT.                                               *)
(* Mutant: an arm while a flag is held is taken for the authorized one. *)
UnauthorizedWithoutFlag ==
    /\ op = "idle" /\ mode = "FLIGHT_READY" /\ bridge.armed /\ ~flag /\ left > 0
    /\ Revoke(Operation) /\ op' = "stopping"
    /\ UNCHANGED <<mode, change, away>>
UnauthorizedArm ==
    /\ op = "idle" /\ mode = "FLIGHT_READY" /\ bridge.armed /\ ~Agreed
    /\ Revoke(Operation) /\ op' = "stopping"
    /\ UNCHANGED <<mode, change, away>>

StopReturns ==
    /\ op = "stopping" /\ call[Operation] \in Idle
    /\ Begins("FAULT", TRUE) /\ op' = "committing"
    /\ Return(Operation)
    /\ UNCHANGED <<mode, flag, left, away>>

TickCommits(to) ==
    /\ op = "idle"
    /\ \/ /\ mode = "FLIGHT_READY" /\ to = "FLIGHT_MANUAL" /\ bridge.armed /\ Agreed
       \/ /\ mode = "FLIGHT_MANUAL" /\ to = "FLIGHT_READY" /\ ~bridge.armed
    /\ change.pc = "none" /\ Begins(to, FALSE) /\ op' = "committing"
    /\ UNCHANGED <<gateVars, mode, flag, left, away>>

TickReturns ==
    /\ op = "committing" /\ change.pc = "none" /\ Done
    /\ UNCHANGED <<gateVars, mode, flag, left, change, away>>

(* Every snapshot between drops a flag the bridge does not confirm. *)
Refresh ==
    /\ flag /\ ~Active
    /\ flag' = FALSE /\ left' = 0
    /\ UNCHANGED <<gateVars, mode, op, change, away>>

-----------------------------------------------------------------------------
(* The operator's morphology commands, and clear-fault. *)

Depart ==
    /\ mode = "FLIGHT_READY" /\ ~bridge.armed /\ change.pc = "none"
    /\ Begins("AWAY", FALSE)
    /\ UNCHANGED <<gateVars, mode, flag, left, op, away>>

ComeBack ==
    /\ mode = "AWAY" /\ ~bridge.armed /\ change.pc = "none"
    /\ Begins("FLIGHT_READY", FALSE)
    /\ UNCHANGED <<gateVars, mode, flag, left, op, away>>

ClearFault ==
    /\ mode = "FAULT" /\ ~bridge.armed /\ change.pc = "none"
    /\ Begins("AWAY", FALSE)
    /\ UNCHANGED <<gateVars, mode, flag, left, op, away>>

(* The commit: the state is written, the subscriber revokes if             *)
(* FLIGHT_READY was left, a refused revoke turns into FAULT, and the entry *)
(* to FAULT revokes again unless it is muted.                              *)
Stays(pc) == change' = [change EXCEPT !.pc = pc]

(* Mutant: leaving FLIGHT_READY keeps the gate. *)
WriteStateOnly ==
    /\ change.pc = "written"
    /\ mode' = change.to
    /\ Stays("entry")
    /\ away' = IF "FLIGHT_READY" \in {mode, change.to} THEN 0 ELSE away
    /\ UNCHANGED <<gateVars, flag, left, op>>

WriteState ==
    /\ change.pc = "written"
    /\ mode' = change.to
    /\ IF mode = "FLIGHT_READY"
       THEN Revoke(Commit) /\ Stays("subscriber")
       ELSE Stays("entry") /\ UNCHANGED <<gateVars, flag, left>>
    /\ away' = IF "FLIGHT_READY" \in {mode, change.to} THEN 0 ELSE away
    /\ UNCHANGED op

SubscriberReturns ==
    /\ change.pc = "subscriber" /\ call[Commit] \in Idle
    /\ IF call[Commit] = "failed" /\ mode # "FAULT"
       THEN change' = [to |-> "FAULT", pc |-> "written", muted |-> FALSE]
       ELSE Stays("entry")
    /\ Return(Commit)
    /\ UNCHANGED <<mode, flag, left, op, away>>

EntersFault == change.pc = "entry" /\ mode = "FAULT" /\ ~change.muted

EnterFault ==
    /\ EntersFault /\ Revoke(Commit)
    /\ change' = [change EXCEPT !.muted = TRUE]
    /\ UNCHANGED <<mode, op, away>>

FinishTransition ==
    /\ change.pc = "entry" /\ ~EntersFault /\ call[Commit] \in Idle
    /\ change' = NoChange
    /\ Return(Commit)
    /\ UNCHANGED <<mode, flag, left, op, away>>

-----------------------------------------------------------------------------
(* The manager does what is due before the next tick of the clock too. *)
Pending(c) == call[c] \in Idle

ManagerDue ==
    \/ op = "validating"
    \/ op \in {"authorizing", "rolling back", "revoking", "watchdog", "stopping"}
        /\ Pending(Operation)
    \/ op = "committing" /\ change.pc = "none"
    \/ change.pc # "none" /\ Pending(Commit)

TimePasses ==
    /\ ~ManagerDue
    /\ Elapse
    /\ left' = Less(left)
    /\ away' = IF mode = "FLIGHT_READY" \/ away = MaxAway THEN away ELSE away + 1
    /\ UNCHANGED <<mode, flag, op, change>>

OperationStep ==
    Answered \/ Validate \/ RevokeReturns \/ WatchdogReturns \/ StopReturns \/ TickReturns
CommitStep == WriteState \/ SubscriberReturns \/ EnterFault \/ FinishTransition
TickStep ==
    \/ Watchdog \/ UnauthorizedArm \/ Refresh
    \/ \E to \in {"FLIGHT_READY", "FLIGHT_MANUAL"} : TickCommits(to)

(* What the tick does whatever the ground proof says.                      *)
MustTick == TickStep /\ (bridge.armed \/ ~WindowIsOpen)

Next ==
    \/ LinkStep /\ UNCHANGED managerVars
    \/ OperationStep \/ CommitStep \/ TickStep
    \/ Authorize \/ RevokeByOperator \/ Depart \/ ComeBack \/ ClearFault
    \/ TimePasses

Unmanaged(A) == A /\ UNCHANGED managerVars

(* The event loop and the script run what is ready; beats and keepalives   *)
(* are a few a second, so a sender finds room and time passes between.     *)
Fairness ==
    /\ \A c \in Client : SF_vars(Unmanaged(Prepare(c) \/ Transmit(c) \/ Conclude(c)))
    /\ WF_vars(Unmanaged(ReadBeat \/ ReadAck)) /\ WF_vars(Unmanaged(KeepaliveEnds))
    /\ WF_vars(Unmanaged(GateReceives)) /\ WF_vars(Unmanaged(GateShuts))
    /\ SF_vars(OperationStep) /\ WF_vars(CommitStep) /\ SF_vars(MustTick)
    /\ SF_vars(TimePasses)

Spec == Init /\ [][Next]_vars /\ Fairness
-----------------------------------------------------------------------------
TypeOK ==
    /\ GateTypeOK
    /\ mode \in Mode /\ flag \in BOOLEAN /\ left \in 0..Ttl
    /\ op \in Operating /\ away \in 0..MaxAway
    /\ change \in [to : Mode, pc : Committing, muted : BOOLEAN]

(* Outside FLIGHT_READY the gate is shut, or shuts by itself within one    *)
(* wait for an answer and one lease: also when the state is left while an  *)
(* authorization is in flight, and when the revoke is lost.                *)
GateFollowsMode == gate.open /\ mode # "FLIGHT_READY" => away < MaxAway

(* The manager's flag outlives neither FLIGHT_READY nor the bridge's half: *)
(* an authorization that answers after the state was left is taken back.   *)
FlagFollowsMode ==
    flag /\ mode # "FLIGHT_READY" => op = "validating" \/ change.pc # "none"

(* The authorization leaves with FLIGHT_READY on both ends of the link.    *)
AuthorizationFollowsMode == GateFollowsMode /\ FlagFollowsMode

(* Nothing about the arming is left open for ever: the operation that      *)
(* holds the operation lock comes to an end, also when no answer comes,    *)
(* and a vehicle seen armed in FLIGHT_READY becomes a flight, a fault, or  *)
(* is disarmed again.                                                      *)
Settled == op = "idle" /\ ~(mode = "FLIGHT_READY" /\ bridge.armed)
ArmingSettles == []<>Settled
=============================================================================
