---------------------------- MODULE F446Firmware ----------------------------
(***************************************************************************)
(* The limit-stop firmware of the F446 board (motor_main.c) as its serial  *)
(* peer sees it.  A reading is the control state together with whether the *)
(* motor is driven; currents, thresholds and the width of the duty are     *)
(* abstracted away.                                                        *)
(*                                                                         *)
(* The receive buffer keeps bytes until a carriage return arrives, so the  *)
(* text of a line whose writer was cancelled half way is still there when  *)
(* the next line begins.  Six contents of the buffer behave differently:   *)
(* nothing, text no command starts with, the word of a limit move without  *)
(* a digit, and the word followed by a digit.                              *)
(***************************************************************************)
EXTENDS Naturals, Sequences

Direction == {"fwd", "rev"}

FwState == {"IDLE", "LIMIT_FWD", "LIMIT_REV", "REACHED_FWD", "REACHED_REV", "FAULT"}

Seeking == [d \in Direction |-> IF d = "fwd" THEN "LIMIT_FWD" ELSE "LIMIT_REV"]
Reached == [d \in Direction |-> IF d = "fwd" THEN "REACHED_FWD" ELSE "REACHED_REV"]

Reading == [state : FwState, on : BOOLEAN]

(* What a line can ask of the firmware, and the word of a limit move. *)
Command == {"limf", "limr", "stop", "status"}
MoveWord == [d \in Direction |-> IF d = "fwd" THEN "limf" ELSE "limr"]

Buffer == {"none", "junk", "limf ", "limr ", "limf 6", "limr 6"}

(* The contents a cancelled writer of line c can leave in an empty buffer. *)
PrefixOf(c) ==
    CASE c = "limf" -> {"junk", "limf ", "limf 6"}
      [] c = "limr" -> {"junk", "limr ", "limr 6"}
      [] OTHER      -> {"junk"}

(* What the firmware reads at the carriage return of line c: the buffered  *)
(* text first.  strncmp finds the word of the move at its start and atoi   *)
(* stops at the first character that is no digit, so the rest is ignored.  *)
Heard(buffer, c) == IF buffer = "none" THEN c ELSE buffer

(* A reply: a status line carries both fields; a start notice only the     *)
(* state, and the parser keeps the duty it knew.                           *)
Reply == [full : BOOLEAN, state : FwState, on : BOOLEAN]
Full(fw) == <<[full |-> TRUE, state |-> fw.state, on |-> fw.on]>>
Started(fw) == <<[full |-> FALSE, state |-> fw.state, on |-> FALSE]>>

Rest(s) == [state |-> s, on |-> FALSE]
Start(d, driven) == [state |-> Seeking[d], on |-> driven]

(* handle_line: the new reading.  No command looks at the state first: a   *)
(* move starts from FAULT too, and stop leaves a reached limit for IDLE.   *)
Handle(fw, heard) ==
    CASE heard \in {"limf", "limf 6"} -> Start("fwd", TRUE)
      [] heard \in {"limr", "limr 6"} -> Start("rev", TRUE)
      [] heard = "limf "              -> Start("fwd", FALSE)
      [] heard = "limr "              -> Start("rev", FALSE)
      [] heard = "stop"               -> Rest("IDLE")
      [] OTHER                        -> fw

(* What handle_line prints that the bridge's parser understands. *)
Answer(fw, heard) ==
    CASE heard = "status" -> Full(fw)
      [] heard = "stop"   -> Full(Rest("IDLE"))
      [] heard = "junk"   -> <<>>
      [] OTHER            -> Started(Handle(fw, heard))

(* control_update, in a limit move: the current threshold held long enough *)
(* brakes and records the limit; too long a move faults.                   *)
Seeks(fw) == fw.state \in {"LIMIT_FWD", "LIMIT_REV"}
LimitOf(fw) == IF fw.state = "LIMIT_FWD" THEN "fwd" ELSE "rev"
AtLimit(fw) == Rest(Reached[LimitOf(fw)])
(* Mutant: a move that took too long is believed to have arrived. *)
TimedOutAtLimit(fw) == Rest(Reached[LimitOf(fw)])
TimedOut(fw) == Rest("FAULT")

(* _is_moving of the bridge, on a reading. *)
IsMoving(r) == Seeks(r) \/ r.on
=============================================================================
