--------------------------- MODULE MCResidualSink ---------------------------
(* Bounds of the TLC run of ResidualSink. *)
EXTENDS ResidualSink
=============================================================================
