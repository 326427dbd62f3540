------------------------------ MODULE F446Link ------------------------------
(***************************************************************************)
(* TextF446Bridge and the firmware at the other end of its serial line.    *)
(*                                                                         *)
(* Coroutines of one event loop share the port.  A Mover runs              *)
(* move_to_configuration, a Stopper runs stop, and Poll is the status poll *)
(* task.  A line is written byte by byte under the write lock, a move and  *)
(* a poll run under the transaction lock, and stop takes only the write    *)
(* lock.  Any line the reader parses counts as the answer to whatever      *)
(* query is waiting: an answer is recognised by its time, not its content. *)
(*                                                                         *)
(* A move goes through the stages initial (query), command (write), watch, *)
(* nudge (write), final (query), halt (write) and haltcheck (query); a     *)
(* stop through halt and haltcheck; a poll through polling (query).        *)
(***************************************************************************)
EXTENDS F446Firmware, FiniteSets

CONSTANTS
    Mover,       \* coroutines that run move_to_configuration
    Stopper,     \* coroutines that run stop
    Poll,        \* the status poll task
    Prompt,      \* TRUE: what a line makes the firmware say is parsed
                 \* before the writer's post-command delay is over
    MaxUplink,   \* bound: replies not yet read
    Polls,       \* TRUE: the status poll runs
    Cancels,     \* TRUE: moves and stops can be cancelled
    Garbles,     \* TRUE: the UART can corrupt a line
    Unplugs      \* TRUE: the cable can be pulled

Task == Mover \cup Stopper \cup {Poll}

ASSUME LinkAssumption ==
    /\ Mover \cap Stopper = {} /\ Poll \notin Mover \cup Stopper
    /\ {Prompt, Polls, Cancels, Garbles, Unplugs} \subseteq BOOLEAN
    /\ MaxUplink \in Nat \ {0, 1}

Free == "free"
ASSUME FreeAssumption == Free \notin Task

VARIABLES
    fw,         \* the firmware's reading of itself
    position,   \* where the mechanism is: at a limit or in between
    rx,         \* text stranded in the firmware's receive buffer
    link,       \* the serial port carries bytes
    uplink,     \* replies on their way to the reader
    parsed,     \* parser.latest_status
    connected,  \* _connected
    writer,     \* holder of _write_lock
    holder,     \* holder of _transaction_lock
    stage,      \* where each coroutine is
    io,         \* and in which part of the stage's line
    fresh,      \* a line was parsed since the coroutine's query began
    goal,       \* direction of each mover's target
    result      \* what its last operation returned

fwVars == <<fw, position, rx, link>>
hostVars == <<parsed, connected, writer, holder>>
taskVars == <<stage, io, fresh, goal, result>>
linkVars == <<fwVars, uplink, hostVars, taskVars>>

QueryStage == {"initial", "final", "haltcheck", "polling"}
WriteStage == {"command", "nudge", "halt"}
Stage == {"idle", "lock", "watch", "dead"} \cup QueryStage \cup WriteStage
Outcome == {"none", "ok", "already", "failed", "error", "cancelled"}

Line(t) == CASE stage[t] = "command" -> MoveWord[goal[t]]
             [] stage[t] = "halt"    -> "stop"
             [] OTHER                -> "status"

LinkInit ==
    /\ fw \in {Rest("IDLE"), Rest("REACHED_FWD"), Rest("REACHED_REV")}
    /\ position = CASE fw.state = "REACHED_FWD" -> "fwd"
                    [] fw.state = "REACHED_REV" -> "rev"
                    [] OTHER -> "between"
    /\ rx = "none" /\ link = TRUE /\ uplink = <<>>
    /\ parsed = fw /\ connected = TRUE
    /\ writer = Free /\ holder = Free
    /\ stage = [t \in Task |-> "idle"]
    /\ io = [t \in Task |-> "ready"]
    /\ fresh = [t \in Task |-> FALSE]
    /\ goal = [t \in Mover |-> "fwd"]
    /\ result = [t \in Task |-> "none"]

-----------------------------------------------------------------------------
(* The stages of a coroutine. *)

(* Entering a stage notes the parser's timestamp if it is a query. *)
Enter(t, s) ==
    /\ stage' = [stage EXCEPT ![t] = s]
    /\ io' = [io EXCEPT ![t] = "ready"]
    /\ fresh' = [fresh EXCEPT ![t] = FALSE]

(* Leaving the operation, by return or exception, gives the locks back. *)
Leave(t, outcome) ==
    /\ Enter(t, IF t = Poll /\ outcome = "error" THEN "dead" ELSE "idle")
    /\ result' = [result EXCEPT ![t] = IF t = Poll THEN "none" ELSE outcome]
    /\ holder' = IF holder = t THEN Free ELSE holder
    /\ writer' = IF writer = t THEN Free ELSE writer

Stay(t) == UNCHANGED <<result, holder, writer>>

Begin(t, d) ==
    /\ t \in Mover /\ stage[t] = "idle"
    /\ Enter(t, "lock")
    /\ goal' = [goal EXCEPT ![t] = d]
    /\ result' = [result EXCEPT ![t] = "none"]
    /\ UNCHANGED <<fwVars, uplink, hostVars>>

(* stop(): refused without a connection, skipped when the last parsed      *)
(* status shows a motor at rest, else forced.                              *)
Stop(t) ==
    /\ t \in Stopper /\ stage[t] = "idle"
    /\ \/ ~connected /\ Leave(t, "failed")
       \/ connected /\ ~IsMoving(parsed) /\ Leave(t, "already")
       \/ /\ connected /\ IsMoving(parsed)
          /\ Enter(t, "halt")
          /\ result' = [result EXCEPT ![t] = "none"]
          /\ UNCHANGED <<holder, writer>>
    /\ UNCHANGED <<fwVars, uplink, parsed, connected, goal>>

PollDue ==
    /\ Polls /\ stage[Poll] = "idle" /\ connected
    /\ Enter(Poll, "lock")
    /\ UNCHANGED <<fwVars, uplink, hostVars, goal, result>>

Lock(t) ==
    /\ stage[t] = "lock" /\ holder = Free
    /\ holder' = t
    /\ Enter(t, IF t = Poll THEN "polling" ELSE "initial")
    /\ UNCHANGED <<fwVars, uplink, parsed, connected, writer, goal, result>>

-----------------------------------------------------------------------------
(* _write_line *)

Writing(t) == stage[t] \in QueryStage \cup WriteStage /\ io[t] = "ready"

(* What an exception in a stage turns into: _force_stop catches it, a move *)
(* passes it on, and it ends the poll task, which marks the port lost.     *)
Raise(t) ==
    /\ Leave(t, IF stage[t] \in {"halt", "haltcheck"} THEN "failed" ELSE "error")
    /\ connected' = (connected /\ t # Poll)

Claim(t) ==
    /\ Writing(t)
    /\ \/ ~connected /\ Raise(t)
       \/ /\ connected
          /\ IF writer = Free
             THEN writer' = t /\ io' = [io EXCEPT ![t] = "bytes"]
             ELSE io' = [io EXCEPT ![t] = "queued"] /\ UNCHANGED writer
          /\ UNCHANGED <<connected, stage, fresh, result, holder>>
    /\ UNCHANGED <<fwVars, uplink, parsed, goal>>

(* A writer that had to wait does not look at the connection again. *)
Take(t) ==
    /\ io[t] = "queued" /\ writer = Free
    /\ writer' = t
    /\ io' = [io EXCEPT ![t] = "bytes"]
    /\ UNCHANGED <<fwVars, uplink, parsed, connected, holder, stage, fresh, goal, result>>

(* What the firmware prints waits for the reader; a port that was marked   *)
(* lost has none.                                                          *)
Room(n) == connected => Len(uplink) + n <= MaxUplink
Prints(lines) == uplink' = IF connected THEN uplink \o lines ELSE uplink

(* The carriage return reaches the firmware's main loop.  A corrupted line *)
(* is heard as no command; without a link nothing is heard.                *)
Send(t) ==
    /\ io[t] = "bytes"
    /\ Room(2)
    /\ \E garbled \in BOOLEAN :
        LET heard == IF garbled THEN "junk" ELSE Heard(rx, Line(t)) IN
        /\ garbled => Garbles
        /\ IF link
           THEN /\ fw' = Handle(fw, heard)
                /\ Prints(Answer(fw, heard))
                /\ position' = IF fw'.on THEN "between" ELSE position
                /\ rx' = "none"
           ELSE UNCHANGED <<fw, uplink, position, rx>>
    /\ io' = [io EXCEPT ![t] = "delay"]
    /\ UNCHANGED <<link, hostVars, stage, fresh, goal, result>>

(* The post-command delay ends and the write lock is released.  A write    *)
(* without a query goes on to its next stage.                              *)
After == [command |-> "watch", nudge |-> "watch", halt |-> "haltcheck"]

Settle(t) ==
    /\ io[t] = "delay" /\ (Prompt /\ connected => uplink = <<>>)
    /\ writer' = Free
    /\ IF stage[t] \in WriteStage
       THEN Enter(t, After[stage[t]])
       ELSE io' = [io EXCEPT ![t] = "answer"] /\ UNCHANGED <<stage, fresh>>
    /\ UNCHANGED <<fwVars, uplink, parsed, connected, holder, goal, result>>

-----------------------------------------------------------------------------
(* _query and the decisions made on its answer *)

GoalReached(t) == parsed.state = Reached[goal[t]]

(* What _force_stop finds out; a move that had to force a stop has failed. *)
(* Mutant: the status after the stop is not looked at. *)
StopOutcomeUnchecked(t) == IF t \in Mover THEN "failed" ELSE "ok"
StopOutcome(t) == IF t \in Mover \/ IsMoving(parsed) THEN "failed" ELSE "ok"

AtGoal(t) == GoalReached(t) /\ ~parsed.on

Decide(t) ==
    \/ stage[t] = "initial" /\ AtGoal(t) /\ Leave(t, "ok")
    \/ stage[t] = "initial" /\ parsed.state = "FAULT" /\ Leave(t, "failed")
    \/ stage[t] = "initial" /\ ~AtGoal(t) /\ parsed.state # "FAULT"
          /\ Enter(t, "command") /\ Stay(t)
    \/ stage[t] = "final" /\ ~GoalReached(t) /\ Leave(t, "failed")
    \/ stage[t] = "final" /\ GoalReached(t) /\ parsed.on /\ Enter(t, "halt") /\ Stay(t)
    \/ stage[t] = "final" /\ AtGoal(t) /\ Leave(t, "ok")
    \/ stage[t] = "haltcheck" /\ Leave(t, StopOutcome(t))
    \/ stage[t] = "polling" /\ Leave(t, "ok")

Answered(t) ==
    /\ io[t] = "answer" /\ fresh[t]
    /\ Decide(t)
    /\ UNCHANGED <<fwVars, uplink, parsed, connected, goal>>

Unanswered(t) ==
    /\ io[t] = "answer" /\ ~fresh[t]
    /\ (Prompt /\ connected => uplink = <<>>)
    /\ Raise(t)
    /\ UNCHANGED <<fwVars, uplink, parsed, goal>>

(* The wait loop of a move: what it sees in the parsed status, the status  *)
(* line it writes when nothing came for a while, and its deadline.         *)
Watch(t) ==
    /\ stage[t] = "watch"
    /\ \/ ~connected /\ Leave(t, "failed")
       \/ connected /\ parsed.state = "FAULT" /\ Leave(t, "failed")
       \/ connected /\ GoalReached(t) /\ Enter(t, "final") /\ Stay(t)
    /\ UNCHANGED <<fwVars, uplink, parsed, connected, goal>>

Waits(t) ==
    stage[t] = "watch" /\ connected /\ parsed.state # "FAULT" /\ ~GoalReached(t)

Nudge(t) ==
    /\ Waits(t) /\ Enter(t, "nudge") /\ Stay(t)
    /\ UNCHANGED <<fwVars, uplink, parsed, connected, goal>>

Deadline(t) ==
    /\ Waits(t) /\ Enter(t, "halt") /\ Stay(t)
    /\ UNCHANGED <<fwVars, uplink, parsed, connected, goal>>

(* A supervised shutdown cancels the console's run task, in a move or in a *)
(* stop: _force_stop does not catch CancelledError.  The locks are         *)
(* released; bytes already written stay in the receive buffer.             *)
Cancel(t) ==
    /\ t # Poll /\ stage[t] # "idle" /\ Cancels
    /\ Leave(t, "cancelled")
    /\ rx' \in IF io[t] = "bytes" /\ link
               THEN IF rx = "none" THEN PrefixOf(Line(t)) ELSE {rx}
               ELSE {rx}
    /\ UNCHANGED <<fw, position, link, uplink, parsed, connected, goal>>

-----------------------------------------------------------------------------
(* The reader task, the firmware's own control loop and the cable *)

Parse(r) == IF r.full THEN [state |-> r.state, on |-> r.on]
            ELSE [parsed EXCEPT !.state = r.state]

Read ==
    /\ uplink # <<>> /\ connected
    /\ parsed' = Parse(Head(uplink))
    /\ uplink' = Tail(uplink)
    /\ fresh' = [t \in Task |-> stage[t] \in QueryStage]
    /\ UNCHANGED <<fwVars, connected, writer, holder, stage, io, goal, result>>

LimitFound ==
    /\ Seeks(fw) /\ fw.on /\ Room(1)
    /\ fw' = AtLimit(fw)
    /\ position' = LimitOf(fw)
    /\ Prints(Full(fw'))
    /\ UNCHANGED <<rx, link, hostVars, taskVars>>

(* Mutant: the firmware times only the forward move. *)
MoveTimeoutForward ==
    /\ fw.state = "LIMIT_FWD" /\ Room(1)
    /\ fw' = TimedOut(fw)
    /\ Prints(Full(fw'))
    /\ UNCHANGED <<position, rx, link, hostVars, taskVars>>

MoveTimeout ==
    /\ Seeks(fw) /\ Room(1)
    /\ fw' = TimedOut(fw)
    /\ Prints(Full(fw'))
    /\ UNCHANGED <<position, rx, link, hostVars, taskVars>>

PortGone ==
    /\ link' = FALSE /\ connected' = FALSE /\ uplink' = <<>>
    /\ UNCHANGED <<fw, position, rx, parsed, writer, holder, taskVars>>

LinkDrop == link /\ Unplugs /\ PortGone

-----------------------------------------------------------------------------
Resume(t) == Claim(t) \/ Send(t) \/ Settle(t) \/ Answered(t) \/ Unanswered(t) \/ Watch(t)

HostStep(t) == Lock(t) \/ Take(t) \/ Resume(t)

LinkStep ==
    \/ \E t \in Task : HostStep(t) \/ Nudge(t) \/ Deadline(t)
    \/ PollDue \/ Read \/ LimitFound \/ MoveTimeout \/ LinkDrop

(* The event loop resumes a coroutine whose wait is over.  asyncio locks   *)
(* are handed over in order of arrival: a move is not passed over for ever *)
(* by the poll, and somebody who waits for the port gets it.  A move that  *)
(* waits looks at its deadline.  The firmware's loop runs; it need not     *)
(* find a limit, but it counts the time.                                   *)
LinkFairness ==
    /\ \A t \in Task : WF_linkVars(Resume(t))
    /\ \A t \in Mover : SF_linkVars(Lock(t)) /\ WF_linkVars(Deadline(t))
    /\ SF_linkVars(\E t \in Task : Take(t))
    /\ WF_linkVars(Read) /\ WF_linkVars(MoveTimeout)

-----------------------------------------------------------------------------
LinkTypeOK ==
    /\ fw \in Reading /\ parsed \in Reading
    /\ position \in Direction \cup {"between"}
    /\ rx \in Buffer /\ link \in BOOLEAN /\ connected \in BOOLEAN
    /\ uplink \in Seq(Reply) /\ Len(uplink) <= MaxUplink
    /\ writer \in Task \cup {Free} /\ holder \in Task \cup {Free}
    /\ stage \in [Task -> Stage]
    /\ io \in [Task -> {"ready", "queued", "bytes", "delay", "answer"}]
    /\ fresh \in [Task -> BOOLEAN]
    /\ goal \in [Mover -> Direction]
    /\ result \in [Task -> Outcome]

(* What the bridge knows lags behind the firmware only by the replies that *)
(* are still unread: whatever moved the firmware last said so, a line of a *)
(* cancelled writer included.  This is what stop's shortcut and the guards *)
(* of the manager rest on.                                                 *)
MirrorLags ==
    connected =>
        /\ link
        /\ fw.state = IF uplink = <<>> THEN parsed.state ELSE uplink[Len(uplink)].state

(* A move that reports success has its mechanism at the limit it was asked *)
(* for, at rest, until the next move begins, whatever a concurrent stop, a *)
(* poll, a corrupted line or an earlier cancelled move did.                *)
MoveVerified ==
    \A m \in Mover :
        result[m] = "ok" /\ (\A n \in Mover \ {m} : stage[n] = "idle")
            => ~fw.on /\ position = goal[m]

(* What the host believes of the mechanism and what it reports are true.   *)
HostIsRight == MirrorLags /\ MoveVerified

(* A forced stop does not report success while the motor runs, unless a    *)
(* move holds the transaction lock and started it again, or the connection *)
(* was lost since.                                                         *)
StopHonest ==
    [][\A s \in Stopper : result[s] # "ok" /\ result'[s] = "ok" =>
           ~fw.on \/ ~connected \/ \E m \in Mover : holder = m]_linkVars

(* A limit move does not run for ever even when its host is gone.          *)
MotorComesToRest == fw.on ~> ~fw.on
=============================================================================
