------------------------------ MODULE X8Bench -------------------------------
(***************************************************************************)
(* The bench diagnostic for the rotors: one process that talks MAVLink to  *)
(* the flight controller over a serial line (pixhawk_x8_cli_diag.py, as    *)
(* the x8-spin and x8-bench subcommands start it, or by hand).             *)
(*                                                                         *)
(* A motor test expires in the flight controller, so a held output is      *)
(* repeated from the prompt and from the loops of the commands.  Commands  *)
(* and their answers may be lost.  An answer carries the identity of its   *)
(* command only, not of the request: switching safety off and on is one    *)
(* identity, testing and stopping a motor another.  What is not lost       *)
(* arrives before the wait for it times out.                               *)
(*                                                                         *)
(* Motors are not told apart: "test" is a request that makes one or all    *)
(* of them spin, "stop" the burst that stops all.                          *)
(***************************************************************************)
EXTENDS Naturals, Sequences, SequencesExt

CONSTANT MaxQueue       \* bound: messages under way in a direction

ASSUME QueueAssumption == MaxQueue \in Nat /\ MaxQueue >= 3

VARIABLES
    place,      \* "prompt", "closing" or "closed"
    strict,     \* --commands: a command that fails ends the process
    step,       \* of the x8-spin sequence, 0 in any other session
    cmd,        \* the command that runs
    ok,         \* last_command_ok
    tx,         \* tx_enabled
    active,     \* some output is held
    sure,       \* safety_off_confirmed
    heard,      \* is_armed(), of the last heartbeat
    up, down,   \* requests and answers under way
    wire,       \* the serial line works
    safety,     \* the flight controller's safety switch: "on" or "off"
    flight,     \* it is disarmed, armed or in the air
    spin,       \* a motor test spins
    asked,      \* history: outputs were asked for and not stopped since
    claim       \* history: whether safety on was asked for, and confirmed

cliVars == <<place, strict, cmd, ok, tx, active, sure, heard>>
fcVars == <<safety, flight, spin>>
history == <<asked, claim>>
vars == <<cliVars, step, up, down, wire, fcVars, history>>

(* A command is a plan of requests, of which the first one runs; "took" is *)
(* flight_test's took_off.                                                 *)
Command(name, plan, at) == [name |-> name, plan |-> plan, at |-> at, took |-> FALSE]
None == Command("none", <<>>, "go")

Init ==
    /\ place = "prompt" /\ strict \in BOOLEAN /\ cmd = None /\ ok = TRUE
    /\ step \in {0, 1} /\ (step = 1 => strict)
    /\ tx = FALSE /\ active = FALSE /\ sure = FALSE /\ heard = "none"
    /\ up = <<>> /\ down = <<>> /\ wire = TRUE
    /\ safety = "on" /\ flight = "disarmed" /\ spin = FALSE
    /\ asked = FALSE /\ claim = "no"

-----------------------------------------------------------------------------

Room == wire /\ Len(up) <= MaxQueue - 2

AtPrompt == place = "prompt" /\ cmd = None /\ Room

(* What the answer to a request is known by. *)
Kind(op) ==
    CASE op \in {"test", "stop"} -> "motor"
      [] op \in {"danger", "safe"} -> "switch"
      [] op \in {"arm", "disarm"} -> "arming"
      [] OTHER -> op

(* Nothing of that kind is under way. *)
Silent(kind) ==
    /\ \A i \in DOMAIN up : Kind(up[i]) # kind
    /\ \A i \in DOMAIN down : down[i].kind # kind

Asks == {"danger", "safe", "arm", "disarm", "takeoff"}
Modes == {"guided", "land"}

(* zero: nothing is held any more, and if anything may spin it is stopped. *)
StopBurst == IF sure /\ (tx \/ active) THEN <<"stop">> ELSE <<>>

(* Mutant: the held outputs are not cleared. *)
ZeroForgetful(more) ==
    /\ up' = up \o StopBurst \o more
    /\ UNCHANGED active /\ asked' = FALSE

Zero(more) ==
    /\ up' = up \o StopBurst \o more
    /\ active' = FALSE /\ asked' = FALSE

(* A command ends; with --commands a failed one ends the process.  The     *)
(* next one starts with last_command_ok.                                   *)
Ends(good) ==
    /\ cmd' = None /\ ok' = TRUE
    /\ place' = IF strict /\ ~good /\ place = "prompt" THEN "closing" ELSE place

(* require_motor_test_ready, without the telemetry: that may refuse too.   *)
Ready == heard = "disarmed" /\ tx /\ sure

-----------------------------------------------------------------------------
(* Commands that need no answer. *)

Tx(on) ==
    /\ AtPrompt
    /\ tx' = on
    /\ IF on THEN UNCHANGED <<up, active, asked>> ELSE Zero(<<>>)
    /\ Ends(TRUE)
    /\ UNCHANGED <<strict, sure, heard, down, wire, fcVars, claim>>

StopAll ==
    /\ AtPrompt /\ Zero(<<>>) /\ Ends(TRUE)
    /\ UNCHANGED <<strict, tx, sure, heard, down, wire, fcVars, claim>>

(* An output is held: set_active_*, set_all_*.                             *)
Hold ==
    /\ AtPrompt
    /\ \/ /\ Ready /\ up' = Append(up, "test")
          /\ active' = TRUE /\ asked' = TRUE /\ Ends(TRUE)
       \/ UNCHANGED <<up, active, asked>> /\ Ends(FALSE)
    /\ UNCHANGED <<strict, tx, sure, heard, down, wire, fcVars, claim>>

(* trigger and triggerwin: what was received so far is read first; then    *)
(* the output is held, if its value is within the limit.                   *)
Triggers(name) ==
    /\ AtPrompt
    /\ \/ /\ heard = "disarmed" /\ sure
          /\ tx' = TRUE /\ down' = <<>>
          /\ cmd' = Command(name, <<"test">>, "ack")
          /\ \/ /\ up' = Append(up, "test") /\ active' = TRUE /\ asked' = TRUE
             \/ UNCHANGED <<up, active, asked>>
          /\ UNCHANGED <<ok, place>>
       \/ UNCHANGED <<tx, down, up, active, asked>> /\ Ends(FALSE)
    /\ UNCHANGED <<strict, sure, heard, wire, fcVars, claim>>

(* scan and maptest hold, sniffseq sends without holding; all loop.  A     *)
(* sniffseq that is refused stops everything nevertheless.                 *)
Loops(name) ==
    /\ AtPrompt
    /\ \/ /\ Ready /\ up' = Append(up, "test") /\ asked' = TRUE
          /\ active' = (active \/ name # "sniff")
          /\ cmd' = Command(name, <<>>, "run") /\ UNCHANGED <<ok, place>>
       \/ /\ IF name = "sniff" THEN Zero(<<>>) ELSE UNCHANGED <<up, active, asked>>
          /\ Ends(FALSE)
    /\ UNCHANGED <<strict, tx, sure, heard, down, wire, fcVars, claim>>

-----------------------------------------------------------------------------
(* Commands that go through requests. *)

(* safety off is asked for again and again; safety on stops everything     *)
(* and is not sure any more before it asks.                                *)
SafetyOff ==
    /\ AtPrompt /\ cmd' = Command("danger", <<"danger">>, "go")
    /\ UNCHANGED <<place, strict, ok, tx, active, sure, heard, up, down, wire,
                   fcVars, history>>

SafetyOn ==
    /\ AtPrompt
    /\ IF active \/ tx THEN Zero(<<>>) ELSE UNCHANGED <<up, active, asked>>
    /\ tx' = FALSE /\ sure' = FALSE
    /\ cmd' = Command("safe", <<"safe">>, "go")
    /\ UNCHANGED <<place, strict, ok, heard, down, wire, fcVars, claim>>

(* land stands for rtl too: a mode is asked for and confirmed.             *)
Plans ==
    [arm |-> <<"arm">>, disarm |-> <<"disarm">>, takeoff |-> <<"takeoff">>,
     land |-> <<"land">>, move |-> <<"move">>,
     launch |-> <<"guided", "arm", "takeoff">>]

Flies(name) ==
    /\ AtPrompt
    /\ IF name = "launch" /\ ~sure
       THEN Ends(FALSE)
       ELSE cmd' = Command(name, Plans[name], "go") /\ UNCHANGED <<ok, place>>
    /\ UNCHANGED <<strict, tx, active, sure, heard, up, down, wire, fcVars, history>>

(* flight_test gives the motor test up before it flies.                    *)
FlightTest ==
    /\ AtPrompt
    /\ IF tx \/ active THEN Zero(<<>>) ELSE UNCHANGED <<up, active, asked>>
    /\ tx' = FALSE
    /\ cmd' = Command("flight", IF sure THEN <<"guided", "arm", "takeoff", "move", "land">>
                                ELSE <<>>, "go")
    /\ ok' = sure
    /\ UNCHANGED <<place, strict, sure, heard, down, wire, fcVars, claim>>

(* A step cannot be begun.                                                 *)
Barred(op) ==
    \/ op = "arm" /\ ~sure
    \/ op \in {"takeoff", "move"} /\ heard = "disarmed"

(* The next request of a plan is sent; a disarm stops the motors first.    *)
Requests ==
    /\ cmd.at = "go" /\ cmd.plan # <<>> /\ Room
    /\ LET op == Head(cmd.plan) IN
       /\ ~Barred(op)
       /\ IF op = "disarm" THEN Zero(<<"disarm">>)
          ELSE up' = Append(up, op) /\ UNCHANGED <<active, asked>>
       /\ cmd' = [cmd EXCEPT !.at = IF op \in Asks THEN "ack"
                                    ELSE IF op \in Modes THEN "mode" ELSE "run"]
       /\ claim' = CASE op = "danger" -> "no"
                     [] op = "safe" -> IF Silent("switch") THEN "asked" ELSE "no"
                     [] OTHER -> claim
    /\ UNCHANGED <<place, strict, ok, tx, sure, heard, down, wire, fcVars>>

(* A step failed: what is left of the plan is dropped, but for a cleanup.  *)
Fails ==
    /\ cmd' = [cmd EXCEPT !.plan = IF cmd.name = "cleanup" THEN Tail(@) ELSE <<>>,
                          !.at = "go"]
    /\ ok' = FALSE

Advances ==
    /\ cmd' = [cmd EXCEPT !.plan = Tail(@), !.at = "go",
                          !.took = @ \/ Head(cmd.plan) = "takeoff"]
    /\ UNCHANGED ok

Bars ==
    /\ cmd.at = "go" /\ cmd.plan # <<>> /\ Barred(Head(cmd.plan)) /\ Fails
    /\ UNCHANGED <<place, strict, tx, active, sure, heard, up, down, wire, fcVars, history>>

(* The plan is done.  A flight test that is still armed lands, if it took  *)
(* off, and disarms.                                                       *)
Cleanup ==
    Command("cleanup", IF cmd.took THEN <<"land", "disarm">> ELSE <<"disarm">>, "go")

Finishes ==
    /\ cmd.name \notin {"none", "close"} /\ cmd.at = "go" /\ cmd.plan = <<>>
    /\ IF cmd.name = "flight" /\ heard = "armed"
       THEN cmd' = Cleanup /\ UNCHANGED <<ok, place>>
       ELSE Ends(ok)
    /\ UNCHANGED <<strict, tx, active, sure, heard, up, down, wire, fcVars, history>>

-----------------------------------------------------------------------------
(* Waiting. *)

(* An answer of the kind that is waited for, whoever it was meant for.     *)
Answered ==
    /\ cmd.at = "ack" /\ down # <<>>
    /\ Head(down).kind = Kind(Head(cmd.plan))
    /\ down' = Tail(down)
    /\ LET good == Head(down).good
           op == Head(cmd.plan)
       IN
       \/ /\ op \in {"danger", "safe"}
          /\ IF good
             THEN /\ sure' = (op = "danger") /\ Advances
                  /\ claim' = IF op = "safe" /\ claim = "asked" THEN "on" ELSE "no"
             ELSE cmd' = [cmd EXCEPT !.at = "go"] /\ UNCHANGED <<sure, ok, claim>>
       \/ /\ op \in {"arm", "disarm"} /\ UNCHANGED <<sure, claim>>
          /\ IF good THEN cmd' = [cmd EXCEPT !.at = "state"] /\ UNCHANGED ok ELSE Fails
       \/ op = "takeoff" /\ UNCHANGED <<sure, claim>> /\ (IF good THEN Advances ELSE Fails)
       \/ /\ op = "test" /\ UNCHANGED <<sure, claim>>
          /\ cmd' = [cmd EXCEPT !.at = "run"] /\ ok' = good
    /\ UNCHANGED <<place, strict, tx, active, heard, up, wire, fcVars, asked>>

(* No answer will come: the wait times out.  The safety switch is asked    *)
(* again.                                                                  *)
TimesOut ==
    /\ cmd.at = "ack" /\ Silent(Kind(Head(cmd.plan)))
    /\ LET op == Head(cmd.plan) IN
       \/ op \in {"danger", "safe"} /\ cmd' = [cmd EXCEPT !.at = "go"] /\ UNCHANGED ok
       \/ op \in {"arm", "disarm", "takeoff"} /\ Fails
       \/ op = "test" /\ cmd' = [cmd EXCEPT !.at = "run"] /\ ok' = FALSE
    /\ UNCHANGED <<place, strict, tx, active, sure, heard, up, down, wire, fcVars, history>>

(* Other answers are read and dropped.                                     *)
Polls ==
    /\ place # "closed" /\ down # <<>>
    /\ cmd.at = "ack" => Head(down).kind # Kind(Head(cmd.plan))
    /\ down' = Tail(down)
    /\ UNCHANGED <<cliVars, up, wire, fcVars, history>>

(* A heartbeat.                                                            *)
Hears ==
    /\ place # "closed" /\ wire
    /\ heard' = IF flight = "disarmed" THEN "disarmed" ELSE "armed"
    /\ UNCHANGED <<place, strict, cmd, ok, tx, active, sure, up, down, wire,
                   fcVars, history>>

(* The armed state or the mode is confirmed by a heartbeat, or not.        *)
Confirms ==
    /\ cmd.at \in {"state", "mode"}
    /\ LET op == Head(cmd.plan) IN
       \/ /\ op = "arm" => heard = "armed"
          /\ op = "disarm" => heard = "disarmed"
          /\ Advances
       \/ Fails
    /\ UNCHANGED <<place, strict, tx, active, sure, heard, up, down, wire, fcVars, history>>

-----------------------------------------------------------------------------
(* Loops. *)

(* refresh_active_outputs, at the prompt and in the loops that hold.       *)
Refreshes ==
    /\ place = "prompt" /\ wire /\ Len(up) < MaxQueue
    /\ cmd = None \/ (cmd.name \in {"win", "scan", "map"} /\ cmd.at = "run" /\ ok)
    /\ tx /\ sure /\ active
    /\ up' = Append(up, "test")
    /\ UNCHANGED <<cliVars, down, wire, fcVars, history>>

(* sniffseq repeats without holding.                                       *)
Repeats ==
    /\ cmd.name = "sniff" /\ cmd.at = "run" /\ wire /\ Len(up) < MaxQueue
    /\ up' = Append(up, "test")
    /\ UNCHANGED <<cliVars, down, wire, fcVars, history>>

(* They go to the next value or motor, if still ready; maptest and         *)
(* sniffseq stop between.                                                  *)
Continues ==
    /\ cmd.name \in {"scan", "map", "sniff"} /\ cmd.at = "run" /\ Room /\ Ready
    /\ up' = up \o (IF cmd.name = "scan" THEN <<"test">> ELSE <<"stop", "test">>)
    /\ active' = (cmd.name # "sniff")
    /\ UNCHANGED <<place, strict, cmd, ok, tx, sure, heard, down, wire, fcVars, history>>

(* Mutant: a loop that ends early leaves its output held. *)
LoopEndsHeld ==
    /\ cmd.name \in {"win", "scan", "map", "sniff"} /\ cmd.at = "run" /\ Room
    /\ UNCHANGED <<up, active>> /\ asked' = FALSE
    /\ \E good \in {ok, FALSE} : Ends(good)
    /\ UNCHANGED <<strict, tx, sure, heard, down, wire, fcVars, claim>>

(* The loop is over, or cannot go on: finally everything is stopped, after *)
(* a window the local enable too.  A trigger ends with its output held.    *)
LoopEnds ==
    /\ cmd.at = "run" /\ Room
    /\ \/ /\ cmd.name \in {"win", "scan", "map", "sniff"}
          /\ Zero(<<>>) /\ tx' = (tx /\ cmd.name # "win")
          /\ \E good \in {ok, FALSE} : Ends(good)
       \/ cmd.name = "trigger" /\ UNCHANGED <<up, active, asked, tx>> /\ Ends(ok)
       \/ /\ cmd.name \in {"move", "flight"}
          /\ UNCHANGED <<up, active, asked, tx, place>> /\ Advances
    /\ UNCHANGED <<strict, sure, heard, down, wire, fcVars, claim>>

-----------------------------------------------------------------------------
(* The end of the process. *)

(* exit; the end of --commands has the same effect through close.          *)
Exit ==
    /\ AtPrompt /\ Zero(<<>>) /\ place' = "closing"
    /\ UNCHANGED <<strict, cmd, ok, tx, sure, heard, down, wire, fcVars, claim>>

(* Ctrl-C.  What has a finally runs it: the loops that hold stop their     *)
(* outputs, a flight test cleans up.  A safety on that is interrupted is   *)
(* not asked again: close does nothing when it is not sure of safety off.  *)
Interrupts ==
    /\ place = "prompt" /\ Room /\ place' = "closing"
    /\ IF cmd.name \in {"win", "scan", "map"}
       THEN Zero(<<>>) /\ tx' = (tx /\ cmd.name # "win")
       ELSE UNCHANGED <<up, active, asked, tx>>
    /\ cmd' = IF cmd.name = "flight" /\ heard = "armed" THEN Cleanup ELSE None
    /\ claim' = IF cmd.name = "safe" THEN "no" ELSE claim
    /\ ok' = TRUE
    /\ UNCHANGED <<strict, sure, heard, down, wire, fcVars>>

(* What the process knew is gone with it. *)
Gone ==
    /\ place' = "closed" /\ cmd' = None /\ ok' = TRUE /\ heard' = "none"
    /\ tx' = FALSE /\ active' = FALSE /\ sure' = FALSE /\ asked' = FALSE

(* close: if safety is known to be off, everything is stopped and safety   *)
(* switched on.                                                            *)
Closes ==
    /\ place = "closing" /\ cmd = None /\ Room
    /\ IF sure
       THEN /\ Zero(<<>>) /\ tx' = FALSE /\ sure' = FALSE
            /\ cmd' = Command("close", <<"safe">>, "go")
            /\ UNCHANGED <<place, ok, heard>>
       ELSE Gone /\ UNCHANGED up
    /\ UNCHANGED <<strict, down, wire, fcVars, claim>>

Closed ==
    /\ cmd.name = "close" /\ cmd.at = "go" /\ cmd.plan = <<>> /\ Gone
    /\ UNCHANGED <<strict, up, down, wire, fcVars, claim>>

(* Ctrl-C in the close, a kill, or a line that broke: the process is gone  *)
(* and claims nothing.                                                     *)
Dies ==
    /\ place # "closed" /\ Gone /\ claim' = "no"
    /\ UNCHANGED <<strict, up, down, wire, fcVars>>

-----------------------------------------------------------------------------
(* The flight controller and the line. *)

Takes(op, good) ==
    /\ safety' = CASE op = "danger" /\ good -> "off"
                   [] op = "safe" /\ good -> "on"
                   [] OTHER -> safety
    /\ flight' = CASE op = "arm" /\ good -> "armed"
                   [] op = "disarm" /\ good -> "disarmed"
                   [] op = "takeoff" /\ good -> "air"
                   [] OTHER -> flight
    /\ spin' = CASE op = "test" /\ good -> TRUE
                 [] op = "stop" -> FALSE
                 [] op = "safe" /\ good -> FALSE
                 [] OTHER -> spin

Able(op) ==
    CASE op = "test" -> safety = "off" /\ flight = "disarmed"
      [] op = "arm" -> safety = "off" /\ flight = "disarmed" /\ ~spin
      [] op = "disarm" -> flight # "air"
      [] op = "takeoff" -> flight = "armed"
      [] op = "safe" -> flight = "disarmed"
      [] OTHER -> TRUE

Receives ==
    /\ up # <<>> /\ up' = Tail(up)
    /\ \E good \in {Able(Head(up)), FALSE} :
          /\ Takes(Head(up), good)
          /\ \/ UNCHANGED down
             \/ /\ Head(up) \notin Modes \cup {"move"} /\ Len(down) < MaxQueue
                /\ down' = Append(down, [kind |-> Kind(Head(up)), good |-> good])
    /\ UNCHANGED <<cliVars, wire, history>>

Loses ==
    /\ up # <<>> /\ up' = Tail(up)
    /\ UNCHANGED <<cliVars, down, wire, fcVars, history>>

(* The line breaks: the process ends with an error.                        *)
Unplug ==
    /\ wire /\ wire' = FALSE /\ up' = <<>> /\ down' = <<>>
    /\ UNCHANGED <<cliVars, fcVars, history>>

(* A motor test expires. *)
Expires ==
    /\ spin /\ spin' = FALSE
    /\ UNCHANGED <<cliVars, up, down, wire, safety, flight, history>>

(* The pilot arms by radio, what flies lands, what stands disarms.         *)
Pilot ==
    /\ \/ flight = "disarmed" /\ safety = "off" /\ ~spin /\ flight' = "armed"
       \/ flight = "air" /\ flight' = "armed"
       \/ flight = "armed" /\ flight' = "disarmed"
    /\ UNCHANGED <<cliVars, up, down, wire, safety, spin, history>>

-----------------------------------------------------------------------------

(* x8-spin is a script of which these commands change something.           *)
SpinScript == <<"safety off", "triggerwin", "trigger off", "safety on">>

Typed(name) ==
    /\ step > 0 => step <= Len(SpinScript) /\ SpinScript[step] = name
    /\ step' = IF step > 0 THEN step + 1 ELSE 0

Commands ==
    \/ Typed("tx") /\ Tx(TRUE)
    \/ Typed("trigger off") /\ Tx(FALSE)
    \/ Typed("zero") /\ StopAll
    \/ Typed("hold") /\ Hold
    \/ Typed("trigger") /\ Triggers("trigger")
    \/ Typed("triggerwin") /\ Triggers("win")
    \/ \E name \in {"scan", "map", "sniff"} : Typed(name) /\ Loops(name)
    \/ Typed("safety off") /\ SafetyOff
    \/ Typed("safety on") /\ SafetyOn
    \/ Typed("flighttest") /\ FlightTest
    \/ \E name \in DOMAIN Plans : Typed(name) /\ Flies(name)

GoesOn ==
    /\ Requests \/ Bars \/ Finishes \/ Answered \/ TimesOut \/ Confirms
       \/ LoopEnds \/ Closes \/ Closed
    /\ UNCHANGED step

Reads == Polls /\ UNCHANGED step
Serves == Receives /\ UNCHANGED step
Rests == Expires /\ UNCHANGED step

Next ==
    \/ Commands \/ GoesOn \/ Reads \/ Serves \/ Rests
    \/ /\ Hears \/ Refreshes \/ Repeats \/ Continues \/ Exit \/ Interrupts
          \/ Dies \/ Loses \/ Unplug \/ Pilot
       /\ UNCHANGED step

(* The flight controller serves its line and ends its motor tests; the     *)
(* process goes on and reads.  Nobody has to type anything.                *)
Spec ==
    /\ Init /\ [][Next]_vars
    /\ WF_vars(Serves) /\ WF_vars(Rests)
    /\ WF_vars(GoesOn) /\ WF_vars(Reads)

-----------------------------------------------------------------------------

(* Outputs are repeated only while they are asked for, with the local      *)
(* enable and a confirmed safety-off: whichever way a window, a scan, a    *)
(* test or the process ended, nothing stays held.                          *)
HeldWhileAsked == active => asked /\ tx /\ sure

(* A confirmed safety-on is on, and a close that knew safety to be off     *)
(* waits for it, although requests and answers are lost - unless Ctrl-C    *)
(* gave the safety-on up, or left an answer of an earlier switching under  *)
(* way, which close would take for its own.                                *)
RestoresSafety ==
    claim = "on" \/ (place = "closed" /\ claim = "asked") => safety = "on"

(* The bench holds no output and takes no safety for granted without       *)
(* having asked.                                                           *)
BenchIsHonest == HeldWhileAsked /\ RestoresSafety

(* Once nobody asks for outputs any more, the motors come to rest for good,*)
(* whatever was under way, and also when the process is gone.              *)
RotorsRest == <>[]~asked => <>[]~spin
=============================================================================
