--------------------------- MODULE MCStateMachine ---------------------------
(* The monitor's tick and a shell command ask for transitions; one reload  *)
(* of the configuration swaps the guards.                                  *)
EXTENDS StateMachine
=============================================================================
