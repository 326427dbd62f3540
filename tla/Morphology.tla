----------------------------- MODULE Morphology -----------------------------
(***************************************************************************)
(* The manager's morphology commands over the F446 link.                   *)
(*                                                                         *)
(* The console runs one command at a time: transform flight, transform     *)
(* walk, home-walk or clear-fault.  The monitor's tick watches the same    *)
(* machine concurrently; it holds the operation lock, which the            *)
(* transform commands do not take.  Both share the state machine, which    *)
(* refuses a request while another transition is being committed.  A       *)
(* supervised shutdown cancels the console's command and stops the outputs *)
(* itself.                                                                 *)
(*                                                                         *)
(* FLIGHT lies forward and WALK in reverse.  What the guards ask of the    *)
(* other devices (fresh, disarmed, rotors at rest, RC) is one hazard that  *)
(* comes and goes; the stationary and current dwells are free choices.     *)
(***************************************************************************)
EXTENDS F446Link, SystemStates

CONSTANTS
    Shell,      \* the coroutine that runs the console's moves
    ShellStop,  \* and its stops
    TickStop,   \* the stops of the monitor's tick
    Commands    \* the morphology commands the operator gives

ASSUME MorphologyAssumption ==
    /\ Shell \in Mover /\ {ShellStop, TickStop} \subseteq Stopper
    /\ ShellStop # TickStop /\ Commands \subseteq {"flight", "walk", "home"}

VARIABLES
    mode,       \* the state machine's state
    machine,    \* the transition being committed
    hazard,     \* a blocking violation that is not about the F446
    shellPc, command,       \* the console's command and where it is
    tickPc,                 \* the tick
    operation,              \* holder of _operation_lock
    stopping                \* the state a supervised stop began in

managerVars ==
    <<mode, machine, hazard, shellPc, command, tickPc, operation, stopping>>
vars == <<linkVars, managerVars>>

Route ==
    [flight |-> [from |-> "WALK", active |-> "TRANSFORM_TO_FLIGHT",
                 arrive |-> "GO2_JOINT_LOCK_WAIT", heading |-> "fwd"],
     walk   |-> [from |-> "FLIGHT_READY", active |-> "TRANSFORM_TO_WALK",
                 arrive |-> "WALK", heading |-> "rev"],
     home   |-> [from |-> "BOOT_SAFE", active |-> "HOMING_TO_WALK",
                 arrive |-> "WALK", heading |-> "rev"]]

Precheck == [flight |-> "WALK_TO_FLIGHT_PRECHECK", walk |-> "FLIGHT_TO_WALK_PRECHECK"]

NoTransition == [by |-> Free, to |-> "FAULT", written |-> FALSE]

Flies == {"GO2_JOINT_LOCK_WAIT", "FLIGHT_READY", "FLIGHT_TO_WALK_PRECHECK"}
Walks == {"WALK", "WALK_TO_FLIGHT_PRECHECK"}

(* _configuration_from_f446 *)
Configuration(r) ==
    CASE r.state = "REACHED_FWD" /\ ~r.on -> "FLIGHT"
      [] r.state = "REACHED_REV" /\ ~r.on -> "WALK"
      [] OTHER -> "UNKNOWN"

(* The safety monitor's conflict between the state and the reading. *)
Conflict(s, r) ==
    \/ s \in Walks /\ Configuration(r) # "WALK"
    \/ s \in Flies /\ Configuration(r) # "FLIGHT"
    \/ s = "TRANSFORM_TO_FLIGHT" /\ r.on /\ r.state # "LIMIT_FWD"
    \/ s \in {"TRANSFORM_TO_WALK", "HOMING_TO_WALK"} /\ r.on /\ r.state # "LIMIT_REV"

Blocking(s, r) == hazard \/ ~connected \/ r.state = "FAULT" \/ Conflict(s, r)

(* TransitionGuards.evaluate for the edges used here. *)
Permitted(to, r) ==
    /\ to \in ALLOWED_TRANSITIONS[mode]
    /\ \/ to = "FAULT"
       \/ /\ {mode, to} \cap TRANSFORM_STATES # {} \/ mode = "BOOT_SAFE" =>
                ~hazard /\ connected /\ r.state # "FAULT" /\ ~r.on
          /\ to \in {"WALK", "TRANSFORM_TO_FLIGHT"} => Configuration(r) = "WALK"
          /\ to \in {"FLIGHT_READY", "GO2_JOINT_LOCK_WAIT", "TRANSFORM_TO_WALK"} =>
                Configuration(r) = "FLIGHT"
          /\ to = "HOMING_TO_WALK" => r.state = "IDLE"

Granted(to, r) == machine.by = Free /\ Permitted(to, r)

Ask(c, to) == machine' = [by |-> c, to |-> to, written |-> FALSE]

Idle(c) == machine.by # c

Init ==
    /\ LinkInit
    /\ mode = CASE fw.state = "REACHED_REV" -> "WALK"
                [] fw.state = "REACHED_FWD" -> "FLIGHT_READY"
                [] OTHER -> "BOOT_SAFE"
    /\ machine = NoTransition
    /\ hazard = FALSE
    /\ shellPc = "ready" /\ command = "home" /\ tickPc = "ready"
    /\ operation = Free /\ stopping = "BOOT_SAFE"

-----------------------------------------------------------------------------
(* The state machine's commit, in two steps: the state is written, and the *)
(* subscribers and the entry action have run.                              *)

WriteState ==
    /\ machine.by # Free /\ ~machine.written
    /\ mode' = machine.to
    /\ machine' = [machine EXCEPT !.written = TRUE]
    /\ UNCHANGED <<linkVars, hazard, shellPc, command, tickPc, operation, stopping>>

FinishTransition ==
    /\ machine.written
    /\ machine' = NoTransition
    /\ UNCHANGED <<linkVars, mode, hazard, shellPc, command, tickPc, operation, stopping>>

-----------------------------------------------------------------------------
(* The console's commands. *)

ShellGoes(pc) == shellPc' = pc

(* A request of the console that is refused raises TransitionRejected, and *)
(* the command goes to its except clause.                                  *)
ShellAsks(to, r, pc) ==
    IF Granted(to, r)
    THEN Ask(Shell, to) /\ ShellGoes(pc)
    ELSE ShellGoes("cleanup") /\ UNCHANGED machine

StartTransform(c) ==
    /\ shellPc = "ready" /\ mode = Route[c].from
    /\ command' = c
    /\ c = "home" => Configuration(parsed) = "UNKNOWN"
    /\ IF c = "home" THEN ShellAsks("HOMING_TO_WALK", parsed, "activating")
       ELSE ShellAsks(Precheck[c], parsed, "prechecking")
    /\ UNCHANGED <<linkVars, mode, hazard, tickPc, operation, stopping>>

(* After the precheck transition: Go2 is asked to stop, the snapshot is    *)
(* refreshed, and a dwell that is not over sends the command back.         *)
SecondStage ==
    /\ shellPc = "prechecking" /\ Idle(Shell)
    /\ \/ ShellGoes("cleanup") /\ UNCHANGED machine
       \/ ShellAsks(Route[command].from, parsed, "returning")
       \/ ShellAsks(Route[command].active, parsed, "activating")
    /\ UNCHANGED <<linkVars, mode, hazard, command, tickPc, operation, stopping>>

(* Mutant: the move is called before the transition it waits for is done. *)
CallMoveEarly ==
    /\ shellPc = "activating"
    /\ Begin(Shell, Route[command].heading)
    /\ ShellGoes("moving")
    /\ UNCHANGED <<mode, machine, hazard, command, tickPc, operation, stopping>>

CallMove ==
    /\ shellPc = "activating" /\ Idle(Shell)
    /\ Begin(Shell, Route[command].heading)
    /\ ShellGoes("moving")
    /\ UNCHANGED <<mode, machine, hazard, command, tickPc, operation, stopping>>

MoveReturns ==
    /\ shellPc = "moving" /\ stage[Shell] = "idle"
    /\ \/ result[Shell] = "ok" /\ ShellAsks(Route[command].arrive, parsed, "returning")
       \/ (result[Shell] # "ok" \/ command = "flight")
          /\ ShellGoes("cleanup") /\ UNCHANGED machine
    /\ UNCHANGED <<linkVars, mode, hazard, command, tickPc, operation, stopping>>

(* The operator is slower than the poll: what was printed has been read,   *)
(* and what a cancelled writer left has been heard, when the next command  *)
(* is given.                                                               *)
Drained == connected => uplink = <<>> /\ (Polls => rx = "none")

Return ==
    /\ shellPc = "returning" /\ Idle(Shell)
    /\ Prompt => Drained
    /\ ShellGoes("ready")
    /\ UNCHANGED <<linkVars, mode, machine, hazard, command, tickPc, operation, stopping>>

(* connect in BOOT_SAFE: a verified shape is adopted.  A refusal faults;   *)
(* the F446 is at rest then, and stays so.                                 *)
AdoptBoot ==
    /\ shellPc = "ready" /\ mode = "BOOT_SAFE" /\ connected
    /\ \E to \in CASE Configuration(parsed) = "WALK" -> {"WALK"}
                   [] Configuration(parsed) = "FLIGHT" ->
                        {"FLIGHT_READY", "GO2_JOINT_LOCK_WAIT"}
                   [] OTHER -> {} :
          IF Granted(to, parsed) THEN Ask(Shell, to) /\ ShellGoes("returning")
          ELSE ShellGoes("stopped") /\ UNCHANGED machine
    /\ UNCHANGED <<linkVars, mode, hazard, command, tickPc, operation, stopping>>

(* The except clause: stop the F446, then fault. *)
Cleanup ==
    /\ shellPc = "cleanup" /\ Stop(ShellStop)
    /\ ShellGoes("stopped")
    /\ UNCHANGED <<mode, machine, hazard, command, tickPc, operation, stopping>>

(* _fault: a request to enter FAULT; a refusal is swallowed. *)
Faults(c) == IF mode # "FAULT" /\ machine.by = Free THEN Ask(c, "FAULT") ELSE UNCHANGED machine

ShellFaults ==
    /\ shellPc = "stopped" /\ stage[ShellStop] = "idle"
    /\ Faults(Shell) /\ ShellGoes("returning")
    /\ UNCHANGED <<linkVars, mode, hazard, command, tickPc, operation, stopping>>

ClearFault ==
    /\ shellPc = "ready" /\ mode = "FAULT"
    /\ ~Blocking("FAULT", parsed)
    /\ Granted("BOOT_SAFE", parsed) /\ Ask(Shell, "BOOT_SAFE") /\ ShellGoes("returning")
    /\ UNCHANGED <<linkVars, mode, hazard, command, tickPc, operation, stopping>>

(* A termination signal, or exit at the prompt, has the console close.  A  *)
(* command is cancelled at whatever it awaits, the stop of its except      *)
(* clause included; only a transition already begun is waited for.         *)
(* CancelledError is not among the exceptions of the except clause, so the *)
(* F446 is not stopped here.  A second signal while closing is absorbed.   *)
Terminate ==
    /\ shellPc \notin {"closing", "closed", "leaving", "exited"} /\ Idle(Shell)
    /\ ShellGoes("closing")
    /\ \/ shellPc = "moving" /\ Cancel(Shell)
       \/ shellPc = "stopped" /\ Cancel(ShellStop)
       \/ stage[Shell] = "idle" /\ stage[ShellStop] = "idle" /\ UNCHANGED linkVars
    /\ UNCHANGED <<mode, machine, hazard, command, tickPc, operation, stopping>>

(* close: the manager's supervised stop, under the operation lock. *)
StopSupervised ==
    /\ shellPc = "closing" /\ operation = Free
    /\ operation' = Shell /\ stopping' = mode
    /\ Stop(ShellStop) /\ ShellGoes("closed")
    /\ UNCHANGED <<mode, machine, hazard, command, tickPc>>

(* The stop fails with the F446's or with any other output's.  Then the    *)
(* close is inhibited, and the prompt comes back.                          *)
StopEnds(failed) ==
    /\ shellPc = "closed" /\ stage[ShellStop] = "idle" /\ operation = Shell
    /\ result[ShellStop] = "failed" => failed
    /\ ShellGoes(IF failed THEN "returning" ELSE "leaving")
    /\ operation' = Free /\ stopping' = "BOOT_SAFE"
    /\ UNCHANGED <<linkVars, mode, hazard, command, tickPc>>

(* Mutant: a stop that succeeded is enough. *)
SupervisedFaultOnFailure ==
    \E failed \in BOOLEAN :
        /\ StopEnds(failed)
        /\ IF failed THEN Faults(Shell) ELSE UNCHANGED machine

SupervisedFault ==
    \E failed \in BOOLEAN :
        /\ StopEnds(failed)
        /\ IF failed \/ stopping \in TRANSFORM_STATES THEN Faults(Shell) ELSE UNCHANGED machine

(* disconnect_all: a second supervised stop, then what proves the vehicle  *)
(* safe on the ground.  A refusal brings the prompt back, in BOOT_SAFE if  *)
(* that was entered on the way.                                            *)
AtRest == mode \in {"BOOT_SAFE", "FAULT"} /\ (connected => ~parsed.on /\ parsed.state # "FAULT")

Disconnect ==
    /\ shellPc = "leaving" /\ Idle(Shell)
    /\ \/ \E pc \in {"closing", "returning"} : ShellGoes(pc) /\ UNCHANGED machine
       \/ /\ mode \in {"WALK", "FLIGHT_READY"} /\ Granted("BOOT_SAFE", parsed)
          /\ Ask(Shell, "BOOT_SAFE") /\ ShellGoes("leaving")
       \/ AtRest /\ ShellGoes("exited") /\ UNCHANGED machine
    /\ UNCHANGED <<linkVars, mode, hazard, command, tickPc, operation, stopping>>

(* Another device does not close: a fault, with the F446's port closed.    *)
DisconnectFails ==
    /\ shellPc = "leaving" /\ Idle(Shell) /\ AtRest
    /\ PortGone /\ Faults(Shell) /\ ShellGoes("returning")
    /\ UNCHANGED <<mode, hazard, command, tickPc, operation, stopping>>

-----------------------------------------------------------------------------
(* The monitor's tick. *)

(* Refresh and evaluate; outside the resting states a blocking violation   *)
(* stops the outputs before anything else.                                 *)
Watchful == SystemState \ {"BOOT_SAFE", "FAULT", "EMERGENCY_STOP"}

TickStops ==
    /\ tickPc = "ready" /\ operation = Free
    /\ mode \in Watchful /\ Blocking(mode, parsed)
    /\ operation' = TickStop
    /\ Stop(TickStop) /\ tickPc' = "stopping"
    /\ UNCHANGED <<mode, machine, hazard, shellPc, command, stopping>>

TickFaults ==
    /\ tickPc = "stopping" /\ stage[TickStop] = "idle"
    /\ Faults(TickStop) /\ tickPc' = "faulting"
    /\ UNCHANGED <<linkVars, mode, hazard, shellPc, command, operation, stopping>>

TickReturns ==
    /\ tickPc = "faulting" /\ Idle(TickStop)
    /\ tickPc' = "ready" /\ operation' = Free
    /\ UNCHANGED <<linkVars, mode, machine, hazard, shellPc, command, stopping>>

HazardAppears ==
    /\ ~hazard
    /\ hazard' = TRUE
    /\ UNCHANGED <<linkVars, mode, machine, shellPc, command, tickPc, operation, stopping>>

HazardClears ==
    /\ hazard /\ hazard' = FALSE
    /\ UNCHANGED <<linkVars, mode, machine, shellPc, command, tickPc, operation, stopping>>

-----------------------------------------------------------------------------
MachineStep == WriteState \/ FinishTransition
ShellStep ==
    \/ SecondStage \/ CallMove \/ MoveReturns \/ Return \/ Cleanup \/ ShellFaults
    \/ StopSupervised \/ SupervisedFault \/ Disconnect \/ DisconnectFails
TickStep == TickStops \/ TickFaults \/ TickReturns

Next ==
    \/ LinkStep /\ UNCHANGED managerVars
    \/ MachineStep \/ ShellStep \/ TickStep
    \/ \E c \in Commands : StartTransform(c)
    \/ ClearFault \/ AdoptBoot \/ Terminate \/ HazardAppears \/ HazardClears

ManagerFairness ==
    /\ WF_vars(MachineStep) /\ WF_vars(ShellStep) /\ SF_vars(StopSupervised)
    /\ WF_vars(TickFaults \/ TickReturns)

Spec == Init /\ [][Next]_vars /\ LinkFairness /\ ManagerFairness
-----------------------------------------------------------------------------
TypeOK ==
    /\ LinkTypeOK
    /\ mode \in SystemState /\ stopping \in SystemState
    /\ machine \in [by : {Free, Shell, TickStop}, to : SystemState, written : BOOLEAN]
    /\ hazard \in BOOLEAN
    /\ shellPc \in {"ready", "prechecking", "activating", "moving", "returning",
                    "cleanup", "stopped", "closing", "closed", "leaving", "exited"}
    /\ command \in DOMAIN Route
    /\ tickPc \in {"ready", "stopping", "faulting"}
    /\ operation \in {Free, Shell, TickStop}

Moves == {"HOMING_TO_WALK", "TRANSFORM_TO_FLIGHT", "TRANSFORM_TO_WALK"}

(* The manager never takes the machine for a walking or a flying one while *)
(* its legs are elsewhere or still moving: in every state that walks, and  *)
(* in every state that prepares flight, the mechanism rests at that limit, *)
(* whatever the tick, a stop or a lost cable did to the command meanwhile. *)
ShapeMatchesState ==
    /\ mode \in Walks => ~fw.on /\ position = "rev"
    /\ mode \in Flies => ~fw.on /\ position = "fwd"

(* The manager's state and the host's picture of the mechanism are true.   *)
ShapeIsKnown == ShapeMatchesState /\ HostIsRight

(* The motor only turns in a state that moves the mechanism, or in FAULT - *)
(* and in the BOOT_SAFE of a fault that was cleared before the firmware's  *)
(* own time-out, if corrupted lines hid a stop and its answer, or if a     *)
(* cancelled move was followed by a stop that took the F446 for stopped.   *)
MotionIsConfined ==
    fw.on => \/ mode \in Moves \cup {"FAULT"}
             \/ (Garbles \/ Cancels) /\ mode = "BOOT_SAFE"

(* A transformation that was begun ends: in the state it leads to or in    *)
(* FAULT, also when the console is told to exit in the middle of it.       *)
TransformEnds == mode \in Moves ~> mode \notin Moves
=============================================================================
