--------------------------- MODULE GuardedStates ----------------------------
(***************************************************************************)
(* What the state machine promises to the manager, with no tasks in it: a  *)
(* mode that moves along the edges of the table, and that FAULT cannot be  *)
(* averted once it is due.                                                 *)
(***************************************************************************)
EXTENDS SystemStates

VARIABLES
    mode,     \* the state of the manager
    doomed    \* FAULT is due

vars == <<mode, doomed>>

TypeOK == mode \in SystemState /\ doomed \in BOOLEAN

Init == mode = "BOOT_SAFE" /\ doomed = FALSE

(* A transition is committed; its logger may have failed already. *)
Move ==
    /\ ~doomed
    /\ mode' \in ALLOWED_TRANSITIONS[mode] \ {"FAULT"}
    /\ doomed' \in BOOLEAN

(* A request of FAULT is accepted, or a commit to another state fails. *)
Doom ==
    /\ ~doomed
    /\ mode # "FAULT"
    /\ doomed' = TRUE
    /\ UNCHANGED mode

EnterFault ==
    /\ doomed
    /\ mode' = "FAULT"
    /\ doomed' = FALSE

Next == Move \/ Doom \/ EnterFault

Spec == Init /\ [][Next]_vars /\ WF_vars(EnterFault)
=============================================================================
