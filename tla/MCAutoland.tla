----------------------------- MODULE MCAutoland -----------------------------
(* One vehicle, its pilot and one manager. *)
EXTENDS Autoland
=============================================================================
