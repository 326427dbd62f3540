----------------------------- MODULE MCConsole ------------------------------
(* One console, one manager, with and without a LowCmd owner. *)
EXTENDS Console
=============================================================================
