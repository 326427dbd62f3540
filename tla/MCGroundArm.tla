----------------------------- MODULE MCGroundArm -----------------------------
(* The manager's operation and its committing transition over one gate.    *)
EXTENDS GroundArm
=============================================================================
