------------------------------ MODULE Console -------------------------------
(***************************************************************************)
(* The operator console around the manager: the shell that runs one        *)
(* command at a time, the monitor task that ticks, the signals that ask    *)
(* for a shutdown, and the world.                                          *)
(*                                                                         *)
(* SIGINT and SIGTERM cancel the shell's command and close the console.  A *)
(* close that is refused - the stop failed, or LowCmd is still owned -     *)
(* returns to the prompt with a monitor running.  A monitor that dies      *)
(* reports it and asks for the same close.                                 *)
(***************************************************************************)
EXTENDS JointLock

VARIABLES
    place,      \* the shell: at the prompt, closing, resident, or closed
    alive       \* the monitor task runs

allVars == <<handoverVars, place, alive>>

consoleVars == <<place, alive>>

ConsoleInit == HandoverInit /\ place = "prompt" /\ alive = TRUE

-----------------------------------------------------------------------------
(* The shell. *)

(* The commands and the states they are offered in.                        *)
Offered ==
    [connect |-> {"BOOT_SAFE"},
     confirm |-> {"GO2_JOINT_LOCK_WAIT", "FLIGHT_READY"},
     acquire |-> {"FLIGHT_READY"},
     authorize |-> {"FLIGHT_READY"},
     release |-> ReleaseModes,
     clear |-> {"FAULT"},
     disconnect |-> Mode, stop |-> Mode, exit |-> Mode]

(* Of these the operator is asked for a phrase.                            *)
Confirmable == {"confirm", "acquire", "authorize", "release"}

AtPrompt == place = "prompt" /\ alive /\ run["shell"] = Rest

(* A command waits, for the phrase and then for the lock: the state it was *)
(* offered in may be over when it runs.                                    *)
Types(cmd) ==
    /\ AtPrompt /\ mode \in Offered[cmd]
    /\ run' = [run EXCEPT !["shell"] = [Rest EXCEPT !.aim = cmd, !.pc = "queued"]]
    /\ UNCHANGED <<still, change, legVars, sampleVars, seenVars, opLock,
                   flightVars, link, consoleVars>>

Declines ==
    /\ run["shell"].pc = "queued" /\ run["shell"].aim \in Confirmable
    /\ Ends("shell")
    /\ UNCHANGED <<still, change, legVars, sampleVars, seenVars, opLock,
                   flightVars, link, consoleVars>>

(* Ctrl-C at the prompt while the manager waits for the joint lock.        *)
CtrlC ==
    /\ AtPrompt /\ mode = "GO2_JOINT_LOCK_WAIT"
    /\ run' = [run EXCEPT !["shell"] = [Rest EXCEPT !.aim = "interrupt", !.pc = "queued"]]
    /\ UNCHANGED <<still, change, legVars, sampleVars, seenVars, opLock,
                   flightVars, link, consoleVars>>

Shutting == run["shell"].aim = "close"

(* SIGINT or SIGTERM: one close is asked for, the command is cancelled.    *)
Signal ==
    /\ place = "prompt" /\ alive /\ ~Shutting
    /\ place' = "closing" /\ cut' = TRUE
    /\ UNCHANGED <<enabled, mode, wait, change, legVars, sampleVars, seenVars,
                   opLock, flightVars, link, run, alive>>

(* A cancelled command that still waits, for the operator or the lock, is  *)
(* gone.                                                                   *)
Abandons ==
    /\ Cut("shell") /\ run["shell"].pc = "queued"
    /\ Ends("shell")
    /\ UNCHANGED <<still, change, legVars, sampleVars, seenVars, opLock,
                   flightVars, link, consoleVars>>

(* The prompt itself fails: the shell stays, and only closes.              *)
PromptFails ==
    /\ AtPrompt /\ place' = "resident"
    /\ UNCHANGED <<handoverVars, alive>>

(* Closing; what follows a refusal is the prompt, or the next attempt.     *)
Close ==
    /\ place \in {"closing", "resident"} /\ run["shell"] = Rest
    /\ place = "resident" => alive
    /\ run' = [run EXCEPT !["shell"] = [Rest EXCEPT !.aim = "close", !.pc = "queued"]]
    /\ place' = IF place = "closing" THEN "prompt" ELSE place
    /\ cut' = FALSE
    /\ UNCHANGED <<enabled, mode, wait, change, legVars, sampleVars, seenVars,
                   opLock, flightVars, link, alive>>

(* Mutant: after a refused close the prompt returns without a monitor. *)
ResumesAlone ==
    /\ place \in {"prompt", "resident"} /\ run["shell"] = Rest /\ alive /\ UNCHANGED allVars

(* A refused close replaces a monitor that died.                           *)
Resumes ==
    /\ place \in {"prompt", "resident"} /\ run["shell"] = Rest /\ ~alive
    /\ run["monitor"] = Rest
    /\ alive' = TRUE
    /\ UNCHANGED <<handoverVars, place>>

(* The devices are gone: the monitor is cancelled, the console closed.     *)
Closes ==
    /\ run["shell"].pc = "dropped" /\ Free
    /\ run' = [a \in Actors |-> Rest]
    /\ place' = "closed" /\ alive' = FALSE
    /\ UNCHANGED <<still, change, legVars, sampleVars, seenVars, opLock, flightVars, link>>

-----------------------------------------------------------------------------
(* The monitor. *)

MayTick == alive /\ run["monitor"] = Rest /\ \A a \in Actors : ~Holds(a)

Ticks ==
    /\ MayTick /\ (TickHalts \/ TickAdvances \/ TickCommits \/ TickIdles)
    /\ UNCHANGED consoleVars

(* A transition that the tick asks for unguarded is refused: the exception *)
(* ends the monitor, which reports it.                                     *)
Raises(to) ==
    /\ MayTick /\ Follow
    /\ Wanted = to /\ to \in {"FLIGHT_READY", "FLIGHT_MANUAL"} /\ Refused(to)
    /\ run' = [run EXCEPT !["monitor"] = [Rest EXCEPT !.aim = "report", !.pc = "queued"]]
    /\ Consumed
    /\ UNCHANGED <<still, legVars, sampleVars, opLock, flight, flown, link, consoleVars>>

(* The failure is reported; the console is asked to close.                 *)
Reported ==
    /\ run["monitor"].pc = "commit" /\ run["monitor"].aim = "report" /\ Free
    /\ Ends("monitor") /\ alive' = FALSE
    /\ place' = IF place = "prompt" /\ ~Shutting THEN "closing" ELSE place
    /\ cut' = (cut \/ ~Shutting)
    /\ UNCHANGED <<enabled, mode, wait, change, legVars, sampleVars, seenVars,
                   opLock, flightVars, link>>

-----------------------------------------------------------------------------
(* The world. *)

world == <<enabled, mode, change, seenVars, flown, opLock, run, cut, consoleVars>>

(* The operator locks the joints in the phone application.                 *)
Phone ==
    /\ dog = "free" /\ dog' = "locked" /\ relocked' = TRUE
    /\ place # "closed"
    /\ UNCHANGED <<world, own, sampleVars, wait, gate, flight, link>>

(* Sport reports, while it commands.                                       *)
Sample ==
    /\ link = "up" /\ dog # "low" /\ sport # dog /\ sport' = dog
    /\ UNCHANGED <<world, legVars, fence, wait, gate, flight, link>>

(* The owner loses its stream or its evidence.                             *)
OwnerFails ==
    /\ own \in {"hold", "safe"} /\ own' = "fault"
    /\ UNCHANGED <<world, dog, relocked, sampleVars, wait, gate, flight, link>>

(* An open gate arms once; what is armed may fly, land and disarm.         *)
Flies ==
    /\ \/ gate = "open" /\ flight = "safe" /\ flight' = "armed" /\ gate' = "used"
       \/ flight = "armed" /\ flight' \in {"air", "safe"} /\ UNCHANGED gate
       \/ flight = "air" /\ flight' = "armed" /\ UNCHANGED gate
    /\ UNCHANGED <<world, legVars, sampleVars, wait, link>>

(* Deadlines pass; a sample as old as the fence is stale by then           *)
(* (go2_timeout_s is shorter than either).                                 *)
Stale == IF sport \in {"oldLocked", "oldFree"} THEN "none" ELSE sport

WaitElapses ==
    /\ wait = "on" /\ wait' = "over" /\ sport' = Stale
    /\ UNCHANGED <<world, legVars, fence, gate, flight, link>>

BackElapses ==
    /\ back = "on" /\ own = "observe" /\ back' = "over" /\ sport' = Stale
    /\ UNCHANGED <<enabled, mode, change, saw, used, flown, opLock, run, cut,
                   consoleVars, legVars, fence, wait, gate, flight, link>>

-----------------------------------------------------------------------------

Settles == (WriteState \/ EntryEnds) /\ UNCHANGED consoleVars

(* A task goes on behind a device call, or its operation gets the lock.    *)
Proceeds(a) ==
    /\ \/ Committed(a) \/ Acquire(a) \/ Taken(a) \/ Release(a) \/ HandsBack(a)
       \/ Fence(a) \/ Released(a) \/ Authorize(a) \/ Stop(a) \/ StopMoved(a)
       \/ StopReturns(a) \/ Prepare(a) \/ Prepared(a) \/ Drop(a)
       \/ Connect(a) \/ BootStopped(a) \/ Posed(a) \/ Confirm(a) \/ Finalized(a)
       \/ ClearFault(a) \/ Interrupt(a)
    /\ UNCHANGED consoleVars

Environment ==
    \/ Phone \/ Sample \/ OwnerFails \/ Flies \/ WaitElapses \/ BackElapses

Shell ==
    \/ \E cmd \in DOMAIN Offered : Types(cmd)
    \/ Declines \/ CtrlC \/ Signal \/ PromptFails

Closing == Abandons \/ Close \/ Resumes \/ Closes

ConsoleNext ==
    \/ Settles
    \/ \E a \in Actors : Proceeds(a)
    \/ Shell
    \/ Closing
    \/ Ticks
    \/ \E to \in Mode : Raises(to)
    \/ Reported
    \/ Environment

(* A call into a device or a transition ends, a deadline passes, a task    *)
(* goes on; the monitor gets the lock that it asks for again and again     *)
(* (asyncio.Lock serves in order).  Operator, pilot and samples owe        *)
(* nothing.                                                                *)
ConsoleSpec ==
    /\ ConsoleInit /\ [][ConsoleNext]_allVars
    /\ WF_allVars(Settles) /\ WF_allVars(WaitElapses)
    /\ WF_allVars(Proceeds("shell") \/ Closing)
    /\ WF_allVars(Proceeds("monitor") \/ Reported)
    /\ SF_allVars(Ticks)

-----------------------------------------------------------------------------

ChangeOK == change \in [to : Mode, pc : {"none", "accepted", "entry"}, muted : BOOLEAN]

ConsoleTypeOK ==
    /\ enabled \in BOOLEAN /\ mode \in Mode /\ ChangeOK
    /\ own \in {"observe", "acquiring", "hold", "safe", "releasing", "fault"}
    /\ dog \in {"locked", "free", "low"} /\ relocked \in BOOLEAN
    /\ sport \in {"locked", "free", "oldLocked", "oldFree", "none"}
    /\ fence \in BOOLEAN /\ saw \in BOOLEAN /\ used \in BOOLEAN
    /\ back \in {"off", "on", "over"} /\ wait \in {"off", "on", "over"}
    /\ opLock \in BOOLEAN /\ flown \in BOOLEAN /\ cut \in BOOLEAN
    /\ gate \in {"shut", "open", "used"} /\ flight \in {"safe", "armed", "air"}
    /\ link \in {"up", "part", "down"}
    /\ place \in {"prompt", "closing", "resident", "closed"} /\ alive \in BOOLEAN

(* With LowCmd configured, rotors are armed, or may arm, only while the    *)
(* owner has the legs or failed holding them: neither a release nor a      *)
(* failed acquisition leaves the arm gate open behind it.                  *)
LegsStayHeld ==
    enabled /\ (Armed \/ gate = "open") => own \in {"hold", "safe", "fault"}

(* The Sport service is never spoken to while a LowCmd owner is pending,   *)
(* whichever tasks overlap.                                                *)
SportIsAlone ==
    \A a \in Actors : run[a].pc \in {"sport", "boot", "pose", "finalize"} => ~Pending

(* A console that closed left no owner and no connected device behind.     *)
NoOrphan == place = "closed" => ~Pending /\ link = "down"

(* A LowCmd owner shares the robot with nobody and outlives no console.    *)
OwnerIsKept == SportIsAlone /\ NoOrphan

EntersReady == mode # "FLIGHT_READY" /\ mode' = "FLIGHT_READY" /\ ~opLock

(* FLIGHT_READY is entered on the legs' telemetry only if they have been   *)
(* locked since the owner gave them back: a sample of the time before      *)
(* never stands for the time after.                                        *)
LockIsCausal == [][EntersReady => relocked]_allVars

Watched == (alive \/ place = "closed") /\ mode \notin WaitModes

(* Neither a wait for the joint lock nor a console without a monitor lasts: *)
(* the lock comes or the deadline faults, and a monitor that died is        *)
(* replaced unless the console closes.                                      *)
NothingIsStuck == []<>Watched

=============================================================================
