--------------------------- MODULE LandingRuntime ---------------------------
(***************************************************************************)
(* The multi-rate landing runtime (landing/impact_aware/multirate.py): the *)
(* worker that solves, activates the rotor residual and then publishes the *)
(* policy; the mailbox that fences policies by generation; the high-rate   *)
(* loop that turns a policy into joint targets; and the supervisor whose   *)
(* trip clears the rotor side and revokes the leg side.  The legs' executor *)
(* is LowCmdExecutor.                                                      *)
(*                                                                         *)
(* The residual sink is the protocol the runtime is written against, not   *)
(* one sink: a send that is cancelled may still bring its residual up      *)
(* before it ends, which is why a trip clears twice.  A clear takes effect *)
(* when it ends.  All of the runtime runs on one event loop; what is       *)
(* awaited is a state of its own here.                                     *)
(* Sessions are simulation sessions; SHADOW ones actuate nothing.          *)
(***************************************************************************)
EXTENDS LowCmdExecutor

CONSTANTS
  MaxSnapshots,   \* bound: snapshots submitted in one session
  MaxContacts     \* bound: contact changes in one session

ASSUME RuntimeAssumption == MaxSnapshots \in Nat \ {0} /\ MaxContacts \in Nat

None == 0                      \* no policy, no residual, no snapshot
Snapshots == 1..MaxSnapshots   \* a policy and its residual have the number of their snapshot
Tripped == MaxContacts + 1     \* every generation after a trip: nothing may match it
Generations == 0..Tripped

VARIABLES
  mail,      \* the mailbox: generation of the domain, policy
  worker,    \* AsyncLatestMPCWorker
  act,       \* the activation: the task in send_rotor_residual
  register,  \* the residual the flight controller applies
  rclear,    \* _residual_clear_task of a contact change
  safety,    \* _fault_latched, the registered activation, the fallback task, the observer
  hr         \* HighRateLegController

rtVars == <<mail, worker, act, register, rclear, safety, hr>>
runtimeVars == <<goVars, rtVars>>

Results == {"ok", "failed"}
Numbers == Snapshots \union {None}
Residuals == [seq : Numbers, gen : Generations]
NoResidual == [seq |-> None, gen |-> 0]
Busy == {"solving", "auditing", "activating"}

RuntimeTypeOK ==
  /\ GoTypeOK
  /\ mail \in [gen : Generations, policy : Numbers]
  /\ worker \in [at : {"idle", "faulting", "draining", "gone"} \union Busy, running : BOOLEAN,
                 seq : Numbers, gen : Generations, last : Numbers, pending : BOOLEAN, pgen : Generations]
  /\ worker.at \in Busy => worker.seq # None
  /\ act \in [at : {"none", "created", "sending"} \union Results, of : Residuals, up : BOOLEAN, cancelled : BOOLEAN]
  /\ register \in Residuals
  /\ rclear \in {"none", "run"} \union Results
  /\ safety \in [latched : BOOLEAN, task : {"none", "created", "run"} \union Results, active : BOOLEAN,
                 had : BOOLEAN, first : BOOLEAN, waits : BOOLEAN,
                 fc : {"idle", "clearing", "drain", "again"} \union Results]
  /\ hr \in [at : {"idle", "submit", "faulting", "draining"}, latched : BOOLEAN, gen : Generations,
             policy : Numbers, replan : BOOLEAN]

NoActivation == [at |-> "none", of |-> NoResidual, up |-> FALSE, cancelled |-> FALSE]

RuntimeInit ==
  /\ GoInit
  /\ mail = [gen |-> 0, policy |-> None]
  /\ worker = [at |-> "idle", running |-> TRUE, seq |-> None, gen |-> 0, last |-> None,
               pending |-> FALSE, pgen |-> 0]
  /\ act = NoActivation
  /\ register = NoResidual
  /\ rclear = "none"
  /\ safety = [latched |-> FALSE, task |-> "none", active |-> FALSE, had |-> FALSE, first |-> FALSE,
               waits |-> FALSE, fc |-> "idle"]
  /\ hr = [at |-> "idle", latched |-> FALSE, gen |-> 0, policy |-> None, replan |-> FALSE]

----------------------------------------------------------------------------
(* The trip.  begin_trip latches and invalidates before anything is        *)
(* awaited; the fallback task starts both sides before it waits for one.   *)

TripWith(active, waits) ==
  /\ mail' = [gen |-> Tripped, policy |-> None]
  /\ safety' = IF safety.task \in {"none", "failed"}
               THEN [safety EXCEPT !.latched = TRUE, !.active = active, !.waits = waits, !.task = "created",
                                   !.fc = "idle", !.had = FALSE, !.first = FALSE]
               ELSE [safety EXCEPT !.active = active, !.waits = waits]

Trip == TripWith(safety.active, safety.waits)

FallbackEnded == safety.task \in Results

CancelActivation == [act EXCEPT !.cancelled = TRUE]

FallbackStarts ==
  /\ safety.task = "created"
  /\ safety' = [safety EXCEPT !.task = "run", !.fc = "clearing", !.had = safety.active]
  /\ act' = IF safety.active THEN CancelActivation ELSE act
  /\ RevokeCalled
  /\ UNCHANGED <<target, sub, mail, worker, register, rclear, hr>>

(* clear_rotor_residual: what it confirms was true when it confirmed it.   *)
Cleared(ok) == register' \in {NoResidual} \union (IF ok THEN {} ELSE {register})

FirstClearOnly ==   \* mutant: no second clear after the stage has drained
  /\ safety.fc = "clearing"
  /\ \E ok \in BOOLEAN :
       /\ Cleared(ok)
       /\ safety' = [safety EXCEPT !.first = ok, !.fc = IF ok THEN "ok" ELSE "failed"]
  /\ UNCHANGED <<goVars, mail, worker, act, rclear, hr>>

FirstClear ==
  /\ safety.fc = "clearing"
  /\ \E ok \in BOOLEAN :
       /\ Cleared(ok)
       /\ safety' = [safety EXCEPT !.first = ok,
                                   !.fc = IF safety.had THEN "drain" ELSE IF ok THEN "ok" ELSE "failed"]
  /\ UNCHANGED <<goVars, mail, worker, act, rclear, hr>>

Drained == act.at \in {"none"} \union Results

StageDrainedWithGo2 ==   \* mutant: the rotor side waits for the legs
  /\ safety.fc = "drain"
  /\ Drained /\ rv \in Results
  /\ safety' = [safety EXCEPT !.fc = "again"]
  /\ UNCHANGED <<goVars, mail, worker, act, register, rclear, hr>>

StageDrained ==
  /\ safety.fc = "drain"
  /\ Drained
  /\ safety' = [safety EXCEPT !.fc = "again"]
  /\ UNCHANGED <<goVars, mail, worker, act, register, rclear, hr>>

SecondClear ==
  /\ safety.fc = "again"
  /\ \E ok \in BOOLEAN :
       /\ Cleared(ok)
       /\ safety' = [safety EXCEPT !.active = FALSE, !.fc = IF ok /\ safety.first THEN "ok" ELSE "failed"]
  /\ UNCHANGED <<goVars, mail, worker, act, rclear, hr>>

FallbackEnds ==
  /\ safety.task = "run"
  /\ safety.fc \in Results
  /\ rv \in Results
  /\ safety' = [safety EXCEPT !.task = IF safety.fc = "ok" /\ rv = "ok" THEN "ok" ELSE "failed"]
  /\ UNCHANGED <<goVars, mail, worker, act, register, rclear, hr>>

(* run_once trips for any health failure it sees; when the fault is        *)
(* latched already only a manual override asks for the fallback again.     *)
SafetyTrips ==
  /\ ~safety.waits
  /\ TripWith(safety.active, TRUE)
  /\ UNCHANGED <<goVars, worker, act, register, rclear, hr>>

(* Any other pass over a latched fault awaits the fallback task that is    *)
(* there and reports its result.                                           *)
SafetyPass ==
  /\ safety.latched /\ ~safety.waits
  /\ safety' = [safety EXCEPT !.waits = TRUE]
  /\ UNCHANGED <<goVars, mail, worker, act, register, rclear, hr>>

SafetyReports ==
  /\ safety.waits
  /\ FallbackEnded
  /\ safety' = [safety EXCEPT !.waits = FALSE]
  /\ UNCHANGED <<goVars, mail, worker, act, register, rclear, hr>>

----------------------------------------------------------------------------
(* The worker: one snapshot being solved, one waiting. *)

IsLatest ==
  /\ worker.running /\ ~safety.latched
  /\ worker.gen = mail.gen
  /\ worker.last = worker.seq

SubmitSnapshot ==
  /\ worker.running /\ ~safety.latched
  /\ worker.last < MaxSnapshots
  /\ worker' = [worker EXCEPT !.last = @ + 1, !.pending = TRUE, !.pgen = mail.gen]
  /\ UNCHANGED <<goVars, mail, act, register, rclear, safety, hr>>

TakesSnapshot ==
  /\ worker.at = "idle" /\ worker.running
  /\ worker.pending
  /\ worker' = [worker EXCEPT !.at = "solving", !.seq = worker.last, !.gen = worker.pgen, !.pending = FALSE]
  /\ UNCHANGED <<goVars, mail, act, register, rclear, safety, hr>>

Faulting(next) == worker' = [worker EXCEPT !.at = next, !.running = FALSE]

(* An overrun faults the session whatever the snapshot; any other failure, *)
(* and every result, counts only while its snapshot is the latest.         *)
SolverOverruns ==
  /\ worker.at \in {"solving", "auditing"}
  /\ Faulting("faulting")
  /\ Trip
  /\ UNCHANGED <<goVars, act, register, rclear, hr>>

SolverFails ==
  /\ worker.at \in {"solving", "auditing"}
  /\ IF IsLatest THEN Faulting("faulting") /\ Trip
                 ELSE worker' = [worker EXCEPT !.at = "idle"] /\ UNCHANGED <<mail, safety>>
  /\ UNCHANGED <<goVars, act, register, rclear, hr>>

Solved ==
  /\ worker.at = "solving"
  /\ IsLatest
  /\ worker' = [worker EXCEPT !.at = "auditing"]
  /\ UNCHANGED <<goVars, mail, act, register, rclear, safety, hr>>

(* The activation task is made and shown to the supervisor in one step.    *)
Audited ==
  /\ worker.at = "auditing"
  /\ IsLatest
  /\ worker' = [worker EXCEPT !.at = "activating"]
  /\ act' = [NoActivation EXCEPT !.at = "created", !.of = [seq |-> worker.seq, gen |-> worker.gen]]
  /\ safety' = [safety EXCEPT !.active = TRUE]
  /\ UNCHANGED <<goVars, mail, register, rclear, hr>>

(* The policy is published after its residual, and only if nothing came    *)
(* between; a residual that is up without one faults the session.          *)
PublishesUnchecked ==   \* mutant: the activation's result is not looked at
  /\ worker.at = "activating"
  /\ act.at \in Results
  /\ act' = NoActivation
  /\ IF IsLatest
     THEN /\ worker' = [worker EXCEPT !.at = "idle"]
          /\ mail' = [mail EXCEPT !.policy = worker.seq]
          /\ safety' = [safety EXCEPT !.active = FALSE]
     ELSE Faulting("faulting") /\ TripWith(FALSE, safety.waits)
  /\ UNCHANGED <<goVars, register, rclear, hr>>

ActivationReturns ==
  /\ worker.at = "activating"
  /\ act.at \in Results
  /\ act' = NoActivation
  /\ \/ /\ act.at = "ok" /\ IsLatest
        /\ worker' = [worker EXCEPT !.at = "idle"]
        /\ mail' = [mail EXCEPT !.policy = worker.seq]
        /\ safety' = [safety EXCEPT !.active = FALSE]
     \/ Faulting("faulting") /\ TripWith(FALSE, safety.waits)
  /\ UNCHANGED <<goVars, register, rclear, hr>>

(* The commit reserve is over, or the worker is cancelled: the session     *)
(* faults first, and the stage is drained before the worker goes on.       *)
ActivationOverruns ==
  /\ worker.at = "activating"
  /\ act.at \notin Results
  /\ Faulting("draining")
  /\ Trip
  /\ act' = CancelActivation
  /\ UNCHANGED <<goVars, register, rclear, hr>>

WorkerStops ==   \* stop(), or a cancellation nobody asked for
  /\ worker.at # "gone" /\ worker.running
  /\ Faulting(IF worker.at = "activating" THEN "draining" ELSE "faulting")
  /\ Trip
  /\ act' = IF worker.at = "activating" /\ act.at \notin Results THEN CancelActivation ELSE act
  /\ UNCHANGED <<goVars, register, rclear, hr>>

WorkerDrains ==
  /\ worker.at = "draining"
  /\ Drained
  /\ FallbackEnded
  /\ worker' = [worker EXCEPT !.at = "gone", !.pending = FALSE]
  /\ act' = NoActivation
  /\ safety' = [safety EXCEPT !.active = FALSE]
  /\ UNCHANGED <<goVars, mail, register, rclear, hr>>

WorkerEnds ==
  /\ worker.at = "faulting"
  /\ FallbackEnded
  /\ worker' = [worker EXCEPT !.at = "gone", !.pending = FALSE]
  /\ UNCHANGED <<goVars, mail, act, register, rclear, safety, hr>>

----------------------------------------------------------------------------
(* The residual sink and the flight controller *)

SendStarts ==
  /\ act.at = "created"
  /\ act' = [act EXCEPT !.at = IF act.cancelled THEN "failed" ELSE "sending"]
  /\ UNCHANGED <<goVars, mail, worker, register, rclear, safety, hr>>

ResidualUp ==
  /\ act.at = "sending" /\ ~act.up
  /\ register' = act.of
  /\ act' = [act EXCEPT !.up = TRUE]
  /\ UNCHANGED <<goVars, mail, worker, rclear, safety, hr>>

SendEnds ==
  /\ act.at = "sending"
  /\ \/ act.up /\ ~act.cancelled /\ act' = [act EXCEPT !.at = "ok"]
     \/ act' = [act EXCEPT !.at = "failed"]
  /\ UNCHANGED <<goVars, mail, worker, register, rclear, safety, hr>>

ContactClearEnds ==
  /\ rclear = "run"
  /\ \E ok \in BOOLEAN : Cleared(ok) /\ rclear' = IF ok THEN "ok" ELSE "failed"
  /\ UNCHANGED <<goVars, mail, worker, act, safety, hr>>

LeaseEnds ==   \* the controller's own watchdog
  /\ register # NoResidual
  /\ register' = NoResidual
  /\ UNCHANGED <<goVars, mail, worker, act, rclear, safety, hr>>

PolicyExpires ==
  /\ mail.policy # None
  /\ mail' = [mail EXCEPT !.policy = None]
  /\ UNCHANGED <<goVars, worker, act, register, rclear, safety, hr>>

----------------------------------------------------------------------------
(* The high-rate loop: one sample at a time. *)

Ready == hr.at = "idle" /\ ~hr.latched /\ ~safety.latched

HrAborts == hr' = [hr EXCEPT !.latched = TRUE, !.at = "faulting"] /\ Trip

(* A bad sample, a failed contact clear, a policy that does not fit the    *)
(* contact, or a replan that took too long.                                *)
SampleRejected ==
  /\ Ready
  /\ HrAborts
  /\ UNCHANGED <<goVars, worker, act, register, rclear>>

(* A foot touches down: the old policy goes, a clear of the old residual   *)
(* is asked for, and the legs hold until there is a new policy.            *)
TouchdownKeepsResidual ==   \* mutant: only the policy is taken back
  /\ Ready
  /\ mail.gen < MaxContacts
  /\ mail' = [gen |-> mail.gen + 1, policy |-> None]
  /\ hr' = [hr EXCEPT !.replan = TRUE]
  /\ UNCHANGED <<goVars, worker, act, register, rclear, safety>>

Touchdown ==
  /\ Ready
  /\ mail.gen < MaxContacts
  /\ mail' = [gen |-> mail.gen + 1, policy |-> None]
  /\ rclear' = "run"
  /\ hr' = [hr EXCEPT !.replan = TRUE]
  /\ UNCHANGED <<goVars, worker, act, register, safety>>

(* A foot comes off again: the same, and the session is over.              *)
Release ==
  /\ Ready
  /\ mail.gen < MaxContacts
  /\ rclear' = "run"
  /\ HrAborts
  /\ UNCHANGED <<goVars, worker, act, register>>

FramePrepared ==
  /\ Ready
  /\ sub.at = "none"
  /\ mail.policy # None
  /\ hr.replan => rclear = "ok"
  /\ rclear # "failed"
  /\ hr' = [hr EXCEPT !.at = "submit", !.gen = mail.gen, !.policy = mail.policy, !.replan = FALSE]
  /\ Submitted
  /\ UNCHANGED <<target, exec, rv, mail, worker, act, register, rclear, safety>>

(* The frame is taken over into the admittance state only if nothing was   *)
(* invalidated while it was on its way.                                    *)
FrameCommitted ==
  /\ hr.at = "submit" /\ sub.at = "ok"
  /\ ~safety.latched /\ hr.gen = mail.gen
  /\ hr' = [hr EXCEPT !.at = "idle"]
  /\ sub' = NoSubmit
  /\ UNCHANGED <<target, exec, rv, mail, worker, act, register, rclear, safety>>

FrameFails ==
  /\ hr.at = "submit" /\ sub.at \in Results
  /\ sub' = NoSubmit
  /\ HrAborts
  /\ UNCHANGED <<target, exec, rv, worker, act, register, rclear>>

(* The sample's task is cancelled: both fallbacks start before the         *)
(* submission is cancelled and drained.                                    *)
FrameCancelled ==
  /\ hr.at = "submit" /\ sub.at \notin Results
  /\ hr' = [hr EXCEPT !.latched = TRUE, !.at = "draining"]
  /\ Trip
  /\ SubmitCancelled
  /\ UNCHANGED <<target, rv, worker, act, register, rclear>>

SampleEnds ==
  /\ \/ hr.at = "faulting" /\ UNCHANGED sub
     \/ hr.at = "draining" /\ sub.at \in Results /\ sub' = NoSubmit
  /\ FallbackEnded
  /\ hr' = [hr EXCEPT !.at = "idle"]
  /\ UNCHANGED <<target, exec, rv, mail, worker, act, register, rclear, safety>>

----------------------------------------------------------------------------
RuntimeNext ==
  \/ FallbackStarts \/ FirstClear \/ StageDrained \/ SecondClear \/ FallbackEnds
  \/ SafetyTrips \/ SafetyPass \/ SafetyReports
  \/ SubmitSnapshot \/ TakesSnapshot \/ SolverOverruns \/ SolverFails \/ Solved \/ Audited
  \/ ActivationReturns \/ ActivationOverruns \/ WorkerStops \/ WorkerDrains \/ WorkerEnds
  \/ SendStarts \/ ResidualUp \/ SendEnds \/ ContactClearEnds \/ LeaseEnds \/ PolicyExpires
  \/ SampleRejected \/ Touchdown \/ Release \/ FramePrepared \/ FrameCommitted \/ FrameFails
  \/ FrameCancelled \/ SampleEnds
  \/ GoSteps /\ UNCHANGED rtVars

(* The host's tasks run and the residual sink answers: its calls are timed. *)
(* Nothing is assumed of the LowCmd owner, which may never answer.         *)
RuntimeFairness ==
  /\ WF_runtimeVars(FallbackStarts)
  /\ WF_runtimeVars(FirstClear)
  /\ WF_runtimeVars(StageDrained)
  /\ WF_runtimeVars(SecondClear)
  /\ WF_runtimeVars(FallbackEnds)
  /\ WF_runtimeVars(SendStarts)
  /\ WF_runtimeVars(SendEnds)
  /\ WF_runtimeVars(SafetyPass)
  /\ WF_runtimeVars(SafetyReports)

RuntimeSpec == RuntimeInit /\ [][RuntimeNext]_runtimeVars /\ RuntimeFairness

----------------------------------------------------------------------------
(* Properties *)

(* A fallback that reported success holds for good: no residual and no     *)
(* joint target comes up again, though a stage or a submission that was    *)
(* cancelled may take effect long after the fault (_abort_both).           *)
ConfirmedFallbackHolds == safety.task = "ok" => register = NoResidual /\ target = "none"

(* Legs and rotors belong together: while a policy is published, the only  *)
(* residual that can be up is its own or the one that is being activated   *)
(* to replace it (_solve_activate_publish's order).                        *)
LegsMatchRotors ==
  mail.policy # None => register.seq \in {None, mail.policy, act.of.seq}

(* A residual of contacts that are no longer measured never stays up       *)
(* unattended: the clear of it runs or has failed, which ends the session, *)
(* or it is that of an activation still to be judged.                      *)
OldResidualIsHandled ==
  ~safety.latched /\ register # NoResidual /\ register.gen # mail.gen =>
    rclear \in {"run", "failed"} \/ act.of = register

(* A trip finishes its rotor side, second barrier included, even if the    *)
(* legs' owner never answers the revoke.                                   *)
RotorSideEnds == safety.task = "created" ~> safety.fc \in Results

=============================================================================
