----------------------------- MODULE MCX8Bench ------------------------------
(* One bench session, interactive or scripted, with one flight controller. *)
EXTENDS X8Bench
=============================================================================
