---------------------------- MODULE MCSupervisor ----------------------------
(* One supervisor; of the defects that the rules treat alike, one stands   *)
(* for the others, and the devices fail one at a time.                     *)
EXTENDS Supervisor
=============================================================================
