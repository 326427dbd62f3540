--------------------------- MODULE LowCmdExecutor ---------------------------
(***************************************************************************)
(* ImpactAwareLowCmdExecutor (landing/impact_aware/executor.py): one       *)
(* submission at a time deposits a joint target in the mailbox of the      *)
(* exclusive LowCmd owner; a revoke ends the lease for the rest of the     *)
(* session.  submit and revoke_mpc_control share a lock, but a revoke is   *)
(* registered before it waits for it.                                      *)
(*                                                                         *)
(* The owner answers when it does: a submission takes effect at some time  *)
(* while its call is open, which may be after a revoke that was asked for  *)
(* later.  Deadlines, status reads and writer acknowledgements may be bad  *)
(* at every reading, so each failing branch is open at its step.           *)
(***************************************************************************)
EXTENDS Integers

VARIABLES
  target,   \* "live": the owner holds a target that was not taken back
  exec,     \* _revoked and _revoke_task
  sub,      \* the submission in flight
  rv        \* the revoke_mpc_control call in flight

goVars == <<target, exec, sub, rv>>

Tasks == {"none", "run", "after", "ok", "failed"}
Locked == {"owner", "writer", "revoking", "dropped"}

GoTypeOK ==
  /\ target \in {"none", "live"}
  /\ exec \in [revoked : BOOLEAN, task : Tasks]
  /\ sub \in [at : {"none", "created", "ok", "failed"} \union Locked, staged : BOOLEAN, cancelled : BOOLEAN]
  /\ rv \in {"none", "lock", "task", "ok", "failed"}

NoSubmit == [at |-> "none", staged |-> FALSE, cancelled |-> FALSE]

GoInit ==
  /\ target = "none"
  /\ exec = [revoked |-> FALSE, task |-> "none"]
  /\ sub = NoSubmit
  /\ rv = "none"

LockFree == sub.at \notin Locked /\ rv # "task"

GetOrStartRevoke(task) == IF task \in {"none", "failed"} THEN "run" ELSE task

(* _register_revoke_intent: the fence is up before anything is awaited.    *)
Register == exec' = [revoked |-> TRUE, task |-> GetOrStartRevoke(exec.task)]

(* The barrier of a submission that raced an older revoke comes after it.  *)
RegisterAgain ==
  exec' = [revoked |-> TRUE, task |-> IF exec.task \in {"run", "after"} THEN "after" ELSE "run"]

Submitted == sub' = [NoSubmit EXCEPT !.at = "created"]

SubmitLocks ==
  /\ sub.at = "created"
  /\ LockFree
  /\ \/ /\ exec.revoked
        /\ sub' = [sub EXCEPT !.at = "failed"]
        /\ UNCHANGED exec
     \/ /\ ~exec.revoked
        /\ sub' = [sub EXCEPT !.at = "owner"]
        /\ UNCHANGED exec
     \/ /\ ~exec.revoked
        /\ sub' = [sub EXCEPT !.at = "revoking"]
        /\ Register
  /\ UNCHANGED <<target, rv>>

OwnerStages ==
  /\ sub.at = "owner"
  /\ ~sub.staged
  /\ target' = "live"
  /\ sub' = [sub EXCEPT !.staged = TRUE]
  /\ UNCHANGED <<exec, rv>>

(* What a submission does when the owner has answered: the race with a     *)
(* revoke is looked for first.                                             *)
Raced == exec.revoked /\ sub' = [sub EXCEPT !.at = "revoking"] /\ RegisterAgain

OwnerAnswers ==
  /\ sub.at = "owner"
  /\ \/ Raced
     \/ /\ ~exec.revoked /\ sub.staged /\ target = "live"
        /\ sub' = [sub EXCEPT !.at = "writer"]
        /\ UNCHANGED exec
     \/ /\ ~exec.revoked
        /\ sub' = [sub EXCEPT !.at = "revoking"]
        /\ Register
  /\ UNCHANGED <<target, rv>>

WriterEnqueues ==
  /\ sub.at = "writer"
  /\ target = "live"
  /\ sub' = [sub EXCEPT !.at = "ok"]
  /\ UNCHANGED <<target, exec, rv>>

WriterMisses ==
  /\ sub.at = "writer"
  /\ sub' = [sub EXCEPT !.at = "revoking"]
  /\ Register
  /\ UNCHANGED <<target, rv>>

(* A cancelled submission does not leave before a revoke has ended.        *)
SubmitCancelled ==
  CASE sub.at = "created" -> sub' = [sub EXCEPT !.at = "failed"] /\ UNCHANGED exec
    [] sub.at \in {"owner", "writer"} -> sub' = [sub EXCEPT !.at = "dropped"] /\ Register
    [] sub.at = "revoking" -> sub' = [sub EXCEPT !.cancelled = TRUE] /\ UNCHANGED exec
    [] OTHER -> UNCHANGED <<sub, exec>>

(* The raw task has ended: the safe hold it promised is read back, and a   *)
(* task whose promise was not seen is forgotten, so that it can be tried   *)
(* again.                                                                  *)
Ended == exec.task \in {"ok", "failed"}

Confirmed(outcome) ==
  /\ outcome => exec.task = "ok" /\ target = "none"
  /\ exec' = IF outcome THEN exec ELSE [exec EXCEPT !.task = "none"]

SubmitConfirms ==
  /\ sub.at = "revoking"
  /\ Ended
  /\ IF sub.cancelled
     THEN /\ sub' = [sub EXCEPT !.at = "dropped"]
          /\ \/ exec.task = "ok" /\ target = "none" /\ UNCHANGED exec
             \/ exec' = [exec EXCEPT !.task = "run"]
     ELSE /\ sub' = [sub EXCEPT !.at = "failed"]
          /\ \E outcome \in BOOLEAN : Confirmed(outcome)
  /\ UNCHANGED <<target, rv>>

SubmitDropped ==
  /\ sub.at = "dropped"
  /\ Ended
  /\ sub' = [sub EXCEPT !.at = "failed"]
  /\ UNCHANGED <<target, exec, rv>>

----------------------------------------------------------------------------
(* revoke_mpc_control and the revoke task *)

RevokeCalled == Register /\ rv' = "lock"

RevokeLocks ==
  /\ rv = "lock"
  /\ LockFree
  /\ rv' = "task"
  /\ exec' = [exec EXCEPT !.task = GetOrStartRevoke(@)]
  /\ UNCHANGED <<target, sub>>

RevokeConfirms ==
  /\ rv = "task"
  /\ Ended
  /\ \E outcome \in BOOLEAN :
       /\ Confirmed(outcome)
       /\ rv' = IF outcome THEN "ok" ELSE "failed"
  /\ UNCHANGED <<target, sub>>

OwnerRevokes ==
  /\ \/ /\ exec.task = "run"
        /\ \/ exec' = [exec EXCEPT !.task = "ok"] /\ target' = "none"
           \/ exec' = [exec EXCEPT !.task = "failed"] /\ target' \in {target, "none"}
     \/ /\ exec.task = "after"
        /\ exec' = [exec EXCEPT !.task = "run"]
        /\ target' \in {target, "none"}
  /\ UNCHANGED <<sub, rv>>

(* The target's time to live is over, or the owner's watchdog took it.     *)
TargetExpires ==
  /\ target = "live"
  /\ target' = "none"
  /\ UNCHANGED <<exec, sub, rv>>

GoSteps ==
  \/ SubmitLocks \/ OwnerAnswers \/ WriterEnqueues \/ WriterMisses
  \/ SubmitConfirms \/ SubmitDropped \/ RevokeLocks \/ RevokeConfirms
  \/ OwnerStages \/ OwnerRevokes \/ TargetExpires
=============================================================================
