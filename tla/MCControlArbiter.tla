-------------------------- MODULE MCControlArbiter --------------------------
(* Three processes and two concurrent acquisitions, of one process or of two. *)
EXTENDS ControlArbiter, TLC

Symmetry == Permutations(Process) \cup Permutations(Caller)
=============================================================================
