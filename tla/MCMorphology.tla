---------------------------- MODULE MCMorphology ----------------------------
(* One console command at a time, with the tick beside it.  The console    *)
(* and the tick each have a coroutine that stops the F446.                 *)
EXTENDS Morphology
=============================================================================
