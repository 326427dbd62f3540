----------------------------- MODULE LowCmdOwner -----------------------------
(***************************************************************************)
(* bridges/go2_lowlevel_sdk_bridge.py, the lifecycle: acquire, revoke and  *)
(* release of the one LowCmd owner, over the stream of LowCmdStream.       *)
(*                                                                         *)
(* One lifecycle operation runs at a time (_run_lifecycle_operation).  It  *)
(* holds three things that outlive it: the epoch the arbiter granted, the  *)
(* DDS endpoint, and the robot's motion service, which ReleaseMode took.   *)
(* An action is one section under _guard, or one call outside it; a wait   *)
(* may give up at any time, so deadlines and permits need no clock.        *)
(***************************************************************************)
EXTENDS LowCmdStream

CONSTANT CloseRetryVerified   \* sdk.publisher_close_retry_idempotency_verified

ASSUME OwnerAssumption == CloseRetryVerified \in BOOLEAN

VARIABLES
    dds,      \* the LowCmd endpoint, and the Close task on it
    mode,     \* the motion service: ours, other, none, or taken by ReleaseMode
    arbiter,  \* this process' arbiter: free, our epoch held, or lock poisoned
    op        \* the lifecycle operation and where it is

lifeVars == <<dds, mode, arbiter, op>>
vars == <<streamVars, lifeVars>>

AcquireSections == {"revalidate", "final", "commit", "releaseFault", "start",
                    "firstFault", "settleFault"}
ReleaseSections == {"holdCheck", "stop", "joinFault", "fence", "finalFence",
                    "closeFault", "closeCommit", "drainFault",
                    "reset", "handbackFault", "unlock"}

\* Sections entered by _event_loop_guard, which gives up; the others wait.
BoundedSections == AcquireSections \union ReleaseSections
InBoundedSection ==
    op.at \in BoundedSections \/ (op.at = "abort" /\ own.publisher)

Labels == BoundedSections \union
          {"idle", "grant", "init", "check", "precheck", "release", "confirm",
           "first", "settle", "resettle", "join", "abort", "close", "closing", "abortKeep",
           "abortClosed", "restore", "selected", "drain", "abortUnlock"}

Idle == [name |-> "none", at |-> "idle", retained |-> FALSE,
         closed |-> FALSE, handed |-> FALSE]

Endpoints == [open : BOOLEAN, close : {"none", "running", "closed", "raised"}]
Operations == [name : {"none", "acquire", "revoke", "release"}, at : Labels,
               retained : BOOLEAN, closed : BOOLEAN, handed : BOOLEAN]

OwnerTypeOK ==
    /\ StreamTypeOK
    /\ dds \in Endpoints
    /\ mode \in {"ours", "other", "none", "taken"}
    /\ arbiter \in {"free", "held", "poisoned"}
    /\ op \in Operations

Init ==
    /\ StreamInit
    /\ dds = [open |-> FALSE, close |-> "none"]
    /\ mode \in {"ours", "other", "none"}
    /\ arbiter = "free"
    /\ op = Idle

At(name, label) == op.name = name /\ op.at = label
Goto(label) == op' = [op EXCEPT !.at = label]
Finish == op' = Idle

GuardWaitsForWrite ==   \* mutant: a section of the event loop waits out a Write
    /\ InBoundedSection
    /\ ~Writing /\ callbacks # <<>>
    /\ Finish
    /\ UNCHANGED <<streamVars, dds, mode, arbiter>>

\* A callback or a Write holds _guard at the instant a bounded wait ends.
GuardTimesOut ==
    /\ InBoundedSection
    /\ Writing \/ callbacks # <<>>
    /\ Finish
    /\ UNCHANGED <<streamVars, dds, mode, arbiter>>

\* _set_fault_locked of an owner, as the last section of an operation.
FaultAndFinish(label) ==
    /\ op.at = label /\ GuardFree
    /\ EnterSafeHold(TRUE)
    /\ Finish
    /\ UNCHANGED <<feedback, writer, last, callbacks, handoff, dds, mode, arbiter>>

\* status.ownership_state = FAULT with a reason
Faulted(o) == [o EXCEPT !.state = "FAULT", !.fault = TRUE]
Unsettled(h) == [h EXCEPT !.active = FALSE, !.settled = FALSE]

-----------------------------------------------------------------------------
(* The arbiter's epoch *)

\* arbiter.release_low_level refuses, or its unlock is ambiguous.
KeepsLock == arbiter' = arbiter \/ arbiter' = "poisoned"

\* _clear_released_owner_locked; stale LowState leaves a fault, too.
ClearReleasedOwner(stale) ==
    /\ own' = [state |-> "OBSERVE_ONLY", fault |-> stale \/ feedback.bad,
               epoch |-> FALSE, publisher |-> FALSE, released |-> FALSE,
               restore |-> FALSE]
    /\ hold' = NewGeneration
    /\ writer' = NoWriter
    /\ handoff' = NoHandoff
    /\ last' = "none"
    /\ UNCHANGED <<feedback, callbacks>>

ReleaseEpoch ==
    /\ arbiter = "held" /\ arbiter' = "free"
    /\ \E stale \in BOOLEAN : ClearReleasedOwner(stale)

\* _release_uncommitted_arbiter_epoch
ReleaseUncommitted ==
    /\ GuardFree
    /\ \/ arbiter' = "free" /\ UNCHANGED <<own, hold, writer, handoff>>
       \/ /\ arbiter' \in {"held", "poisoned"}
          /\ own' = [state |-> "FAULT", fault |-> TRUE, epoch |-> TRUE,
                     publisher |-> FALSE, released |-> FALSE, restore |-> TRUE]
          /\ hold' = [Unsettled(hold) EXCEPT !.target = "none"]
          /\ writer' = [writer EXCEPT !.thread = "none"]
          /\ handoff' = NoHandoff
    /\ Finish
    /\ UNCHANGED <<feedback, last, callbacks, dds, mode>>

-----------------------------------------------------------------------------
(* acquire *)

StartAcquire ==
    /\ op = Idle /\ GuardFree
    /\ own.state = "OBSERVE_ONLY" /\ ~own.fault /\ ~feedback.bad
    /\ op' = [Idle EXCEPT !.name = "acquire", !.at = "grant"]
    /\ UNCHANGED <<streamVars, dds, mode, arbiter>>

\* The lock of a refused grant is given back, or its unlock is ambiguous.
GrantRefused ==
    /\ At("acquire", "grant")
    /\ \/ UNCHANGED arbiter
       \/ arbiter = "free" /\ arbiter' = "poisoned"
    /\ Finish
    /\ UNCHANGED <<streamVars, dds, mode>>

Granted ==
    /\ At("acquire", "grant")
    /\ arbiter = "free" /\ arbiter' = "held"
    /\ Goto("revalidate")
    /\ UNCHANGED <<streamVars, dds, mode>>

\* The task was cancelled while the arbiter granted.
GrantCancelled ==
    /\ At("acquire", "grant")
    /\ arbiter = "free"
    /\ ReleaseUncommitted

\* The sections after the grant: every local precondition once more.
Revalidate ==
    /\ At("acquire", "revalidate") /\ GuardFree
    /\ own.state = "OBSERVE_ONLY" /\ ~own.fault /\ ~feedback.bad
    /\ handoff' = NoHandoff
    /\ Goto("init")
    /\ UNCHANGED <<own, hold, feedback, writer, last, callbacks, dds, mode, arbiter>>

RevalidateFails == At("acquire", "revalidate") /\ ReleaseUncommitted

\* publisher_factory and Init; an endpoint may exist although Init raised.
InitPublisher ==
    /\ At("acquire", "init")
    /\ \/ dds' = [dds EXCEPT !.open = TRUE] /\ Goto("final")
       \/ \E open \in BOOLEAN : dds' = [dds EXCEPT !.open = open] /\ Goto("abort")
    /\ UNCHANGED <<streamVars, mode, arbiter>>

FinalFence ==
    /\ At("acquire", "final") /\ GuardFree
    /\ \/ ~own.fault /\ ~feedback.bad /\ Goto("commit")
       \/ Goto("abort")
    /\ UNCHANGED <<streamVars, dds, mode, arbiter>>

CommitPublisher ==
    /\ At("acquire", "commit") /\ GuardFree
    /\ own' = [own EXCEPT !.state = "ACQUIRING", !.fault = FALSE, !.epoch = TRUE,
                          !.publisher = TRUE, !.released = FALSE]
    /\ hold' = [hold EXCEPT !.target = "none", !.active = FALSE]
    /\ Goto("check")
    /\ UNCHANGED <<feedback, writer, last, callbacks, handoff, dds, mode, arbiter>>

CheckModeForgets ==   \* mutant: the service to go back to is not kept
    /\ At("acquire", "check") /\ GuardFree
    /\ \/ mode = "ours" /\ Goto("precheck")
       \/ Goto("abort")
    /\ UNCHANGED <<streamVars, dds, mode, arbiter>>

\* CheckMode must name the commissioned service, which is then remembered.
CheckModeBefore ==
    /\ At("acquire", "check") /\ GuardFree
    /\ \/ /\ mode = "ours"
          /\ own' = [own EXCEPT !.restore = TRUE]
          /\ Goto("precheck")
       \/ UNCHANGED own /\ Goto("abort")
    /\ UNCHANGED <<hold, feedback, writer, last, callbacks, handoff, dds, mode, arbiter>>

\* The last local check, and the linearization point of ReleaseMode.
CrossBoundary ==
    /\ At("acquire", "precheck") /\ GuardFree
    /\ \/ /\ own.epoch /\ own.publisher /\ own.state = "ACQUIRING"
          /\ ~own.fault /\ ~feedback.bad
          /\ Goto("release")
       \/ Goto("abort")
    /\ UNCHANGED <<streamVars, dds, mode, arbiter>>

\* A ReleaseMode that is rejected or raises may have taken effect.
ReleaseMode ==
    /\ At("acquire", "release")
    /\ \/ mode' = "taken" /\ Goto("confirm")
       \/ mode' \in {mode, "taken"} /\ Goto("releaseFault")
    /\ UNCHANGED <<streamVars, dds, arbiter>>

ConfirmRelease ==
    /\ At("acquire", "confirm")
    /\ \/ mode = "taken" /\ Goto("start")
       \/ Goto("releaseFault")
    /\ UNCHANGED <<streamVars, dds, mode, arbiter>>

ReleaseUnverified ==
    /\ At("acquire", "releaseFault") /\ GuardFree
    /\ own' = Faulted([own EXCEPT !.released = FALSE])
    /\ hold' = Unsettled(hold)
    /\ Finish
    /\ UNCHANGED <<feedback, writer, last, callbacks, handoff, dds, mode, arbiter>>

StartWriter ==
    /\ At("acquire", "start") /\ GuardFree
    /\ own' = [own EXCEPT !.state = "HOLDING", !.released = TRUE]
    /\ hold' = [NewGeneration EXCEPT !.target = hold.target, !.awaited = TRUE]
    /\ writer' = Started
    /\ Goto("first")
    /\ UNCHANGED <<feedback, last, callbacks, handoff, dds, mode, arbiter>>

FirstWrite ==
    /\ At("acquire", "first")
    /\ \/ /\ writer.wrote /\ ~own.fault /\ hold.written /\ hold.active
          /\ hold' = [hold EXCEPT !.awaited = TRUE]
          /\ Goto("settle")
       \/ /\ ~(writer.wrote /\ ~own.fault /\ hold.written /\ hold.active)
          /\ Goto("firstFault")
          /\ UNCHANGED hold
    /\ UNCHANGED <<own, feedback, writer, last, callbacks, handoff, dds, mode, arbiter>>

FirstWriteFault == FaultAndFinish("firstFault")

SettledOnceCommitted == hold.awaited   \* mutant: no wait for the write

\* _wait_for_safe_hold_write and _wait_for_safe_hold_settled: the awaited
\* generation is written and a later LowState lies within its tolerances.
Settled == hold.awaited /\ hold.written /\ hold.settled

HoldSettles ==
    /\ op.at \in {"settle", "resettle"} /\ GuardFree
    /\ Settled
    /\ \/ op.name # "release" /\ Finish
       \/ At("release", "settle") /\ Goto("holdCheck")
       \/ At("release", "resettle") /\ Goto("stop")
    /\ UNCHANGED <<streamVars, dds, mode, arbiter>>

HoldDoesNotSettle ==
    /\ op.at \in {"settle", "resettle"}
    /\ Goto("settleFault")
    /\ UNCHANGED <<streamVars, dds, mode, arbiter>>

SettleFault == FaultAndFinish("settleFault")

-----------------------------------------------------------------------------
(* Close, and the way back to the high-level service *)

\* _close_owned_publisher_with_deadline: start the Close, or join the one an
\* earlier operation left behind.
CloseStarts ==
    /\ op.at = "close"
    /\ \/ /\ dds.close = "none"
          /\ dds' = [dds EXCEPT !.close = "running"]
          /\ Goto("closing")
       \/ /\ dds.close # "none"
          /\ op' = [op EXCEPT !.at = "closing", !.retained = TRUE]
          /\ UNCHANGED dds
    /\ UNCHANGED <<streamVars, mode, arbiter>>

\* The worker thread of Close.
CloseReturns ==
    /\ dds.close = "running"
    /\ \/ dds' = [open |-> FALSE, close |-> "closed"]
       \/ \E open \in {FALSE, dds.open} : dds' = [open |-> open, close |-> "raised"]
    /\ UNCHANGED <<streamVars, mode, arbiter, op>>

AfterClose(ok) ==
    IF op.name = "acquire"
    THEN IF ok THEN "abortClosed" ELSE "abortKeep"
    ELSE IF ok THEN "closeCommit" ELSE "closeFault"

CloseSucceeds ==
    /\ op.at = "closing" /\ dds.close = "closed"
    /\ Goto(AfterClose(TRUE))
    /\ UNCHANGED <<streamVars, dds, mode, arbiter>>

\* An exception of an earlier Close is retried only by a verified binding.
CloseRetries ==
    /\ op.at = "closing" /\ dds.close = "raised"
    /\ op.retained /\ CloseRetryVerified
    /\ dds' = [dds EXCEPT !.close = "none"]
    /\ op' = [op EXCEPT !.at = "close", !.retained = FALSE]
    /\ UNCHANGED <<streamVars, mode, arbiter>>

CloseFails ==
    /\ op.at \in {"close", "closing"}
    /\ op.at = "close" => dds.close = "none"
    /\ dds.close # "closed"
    /\ ~(dds.close = "raised" /\ op.retained /\ CloseRetryVerified)
    /\ op' = [op EXCEPT !.at = AfterClose(FALSE), !.retained = @ \/ dds.close # "raised"]
    /\ handoff' = [handoff EXCEPT !.window = @ /\ op.name # "release"]
    /\ UNCHANGED <<own, hold, feedback, writer, last, callbacks, dds, mode, arbiter>>

\* asyncio.wait is not shielded: cancelling the caller ends the operation.
CloseCancelled ==
    /\ op.at = "closing" /\ dds.close = "running"
    /\ Finish
    /\ UNCHANGED <<streamVars, dds, mode, arbiter>>

\* _allow_publisher_close_retry_after_failure
AfterFailedClose ==
    dds' = IF dds.close = "raised" /\ ~op.retained /\ CloseRetryVerified
           THEN [dds EXCEPT !.close = "none"] ELSE dds

\* _restore_high_level_mode: nothing is selected unless no service is active.
Handed(ok) ==
    op' = [op EXCEPT !.handed = ok,
                     !.at = IF op.name = "acquire" THEN "abortUnlock" ELSE "drain"]

AlreadyRestored ==
    /\ op.at \in {"restore", "selected"}
    /\ op.at = "restore" => GuardFree
    /\ own.restore /\ mode = "ours"
    /\ Handed(TRUE)
    /\ UNCHANGED <<streamVars, dds, mode, arbiter>>

SelectMode ==
    /\ op.at = "restore" /\ GuardFree
    /\ own.restore /\ mode \in {"none", "taken"}
    /\ \/ mode' = "ours" /\ Goto("selected")
       \/ mode' \in {mode, "ours"} /\ Handed(FALSE)
    /\ UNCHANGED <<streamVars, dds, arbiter>>

\* No time, no reply, or another service is active.
NotRestored ==
    /\ op.at \in {"restore", "selected"}
    /\ op.at = "restore" => GuardFree
    /\ Handed(FALSE)
    /\ UNCHANGED <<streamVars, dds, mode, arbiter>>

-----------------------------------------------------------------------------
(* _abort_pre_release_acquisition *)

StartAbort ==
    /\ At("acquire", "abort") /\ GuardFree
    /\ own' = [own EXCEPT !.restore = TRUE]
    /\ Goto("close")
    /\ UNCHANGED <<hold, feedback, writer, last, callbacks, handoff, dds, mode, arbiter>>

AbortKeepsEndpoint ==
    /\ At("acquire", "abortKeep") /\ GuardFree
    /\ own' = Faulted([own EXCEPT !.epoch = TRUE, !.publisher = TRUE, !.released = FALSE])
    /\ hold' = [Unsettled(hold) EXCEPT !.target = "none"]
    /\ AfterFailedClose
    /\ Finish
    /\ UNCHANGED <<feedback, writer, last, callbacks, handoff, mode, arbiter>>

AbortCloses ==
    /\ At("acquire", "abortClosed") /\ GuardFree
    /\ own' = Faulted([own EXCEPT !.epoch = TRUE, !.publisher = FALSE, !.released = FALSE])
    /\ hold' = Unsettled(hold)
    /\ dds' = [dds EXCEPT !.close = "none"]
    /\ Goto("restore")
    /\ UNCHANGED <<feedback, writer, last, callbacks, handoff, mode, arbiter>>

AbortUnlocks ==
    /\ At("acquire", "abortUnlock") /\ GuardFree
    /\ op.handed /\ own.epoch /\ ~own.publisher
    /\ ReleaseEpoch
    /\ Finish
    /\ UNCHANGED <<dds, mode>>

AbortKeepsEpoch ==
    /\ At("acquire", "abortUnlock") /\ GuardFree
    /\ IF op.handed THEN KeepsLock ELSE UNCHANGED arbiter
    /\ own' = Faulted(IF op.handed THEN [own EXCEPT !.released = FALSE] ELSE own)
    /\ hold' = IF op.handed THEN Unsettled(hold) ELSE hold
    /\ Finish
    /\ UNCHANGED <<feedback, writer, last, callbacks, handoff, dds, mode>>

-----------------------------------------------------------------------------
(* revoke *)

\* The owner's fault, if it has one, stays.
ForceHold ==
    /\ own' = HeldOwner(own.state = "FAULT")
    /\ hold' = [Held(own.state = "FAULT", TRUE) EXCEPT !.awaited = TRUE]

Revoke ==
    /\ op = Idle /\ GuardFree
    /\ own.epoch
    /\ ForceHold
    /\ op' = IF WriterAlive
             THEN [Idle EXCEPT !.name = "revoke", !.at = "settle"] ELSE Idle
    /\ UNCHANGED <<feedback, writer, last, callbacks, handoff, dds, mode, arbiter>>

-----------------------------------------------------------------------------
(* release *)

Releasing(label) == [Idle EXCEPT !.name = "release", !.at = label]

\* The endpoint is known to be closed: only the service is to be given back.
StartHandback ==
    /\ op = Idle /\ GuardFree
    /\ own.epoch /\ ~own.publisher /\ ~WriterAlive
    /\ own' = [own EXCEPT !.state = "RELEASING"]
    /\ hold' = Unsettled(hold)
    /\ op' = [Releasing("restore") EXCEPT !.closed = TRUE]
    /\ UNCHANGED <<feedback, writer, last, callbacks, handoff, dds, mode, arbiter>>

NeedsNewHold == WriterAlive /\ (hold.target # "none" \/ ~hold.active)

StartRelease ==
    /\ op = Idle /\ GuardFree
    /\ own.epoch
    /\ own.publisher \/ WriterAlive
    /\ IF NeedsNewHold
       THEN ForceHold /\ op' = Releasing("settle")
       ELSE UNCHANGED <<own, hold>>
            /\ op' = Releasing(IF WriterAlive THEN "holdCheck" ELSE "stop")
    /\ UNCHANGED <<feedback, writer, last, callbacks, handoff, dds, mode, arbiter>>

\* Some hold is already settled, or the newest one is awaited.
HoldCheck ==
    /\ At("release", "holdCheck") /\ GuardFree
    /\ hold' = [hold EXCEPT !.awaited = TRUE]
    /\ Goto(IF hold.settled THEN "stop" ELSE "resettle")
    /\ UNCHANGED <<own, feedback, writer, last, callbacks, handoff, dds, mode, arbiter>>

\* The permit, the ground evidence or the hold does not allow the stop.
StopRefused ==
    /\ At("release", "stop") /\ GuardFree
    /\ Finish
    /\ UNCHANGED <<streamVars, dds, mode, arbiter>>

StopWriter ==
    /\ At("release", "stop") /\ GuardFree
    /\ ~feedback.bad
    /\ WriterAlive => hold.written /\ hold.active /\ hold.settled
    /\ own' = [own EXCEPT !.state = "RELEASING"]
    /\ writer' = [writer EXCEPT !.stop = TRUE]
    /\ Goto("join")
    /\ UNCHANGED <<hold, feedback, last, callbacks, handoff, dds, mode, arbiter>>

Join ==
    /\ At("release", "join")
    /\ \/ /\ ~WriterAlive
          /\ Goto(IF writer.thread = "none" THEN "finalFence" ELSE "fence")
       \/ WriterAlive /\ Goto("joinFault")
    /\ UNCHANGED <<streamVars, dds, mode, arbiter>>

JoinFault == FaultAndFinish("joinFault")

HoldStands == hold.written /\ hold.reached /\ hold.active /\ hold.settled

PostStopFence ==
    /\ At("release", "fence") /\ GuardFree
    /\ ~feedback.bad /\ HoldStands
    /\ Goto("finalFence")
    /\ UNCHANGED <<streamVars, dds, mode, arbiter>>

\* The evidence moved after the stop: the writer is started again.
FenceFails ==
    /\ op.name = "release" /\ op.at \in {"fence", "finalFence"} /\ GuardFree
    /\ IF writer.thread = "none"
       THEN UNCHANGED streamVars
       ELSE /\ EnterSafeHold(TRUE)
            /\ writer' = Started
            /\ handoff' = IF op.at = "fence" THEN handoff ELSE NoHandoff
            /\ UNCHANGED <<feedback, last, callbacks>>
    /\ Finish
    /\ UNCHANGED <<dds, mode, arbiter>>

\* The latch: from here on a callback may fault the handoff but no longer
\* create a generation, and every callback in flight crosses the Close.
HandoffFence ==
    /\ At("release", "finalFence") /\ GuardFree
    /\ own.publisher /\ ~feedback.bad
    /\ writer.thread # "none" => HoldStands
    /\ handoff' = [on |-> TRUE, fault |-> FALSE, window |-> TRUE,
                   frozen |-> writer.thread # "none"]
    /\ callbacks' = [i \in DOMAIN callbacks |-> [callbacks[i] EXCEPT !.crossing = TRUE]]
    /\ writer' = NoWriter
    /\ Goto("close")
    /\ UNCHANGED <<own, hold, feedback, last, dds, mode, arbiter>>

CloseFault ==
    /\ At("release", "closeFault") /\ GuardFree
    /\ own' = Faulted(own)
    /\ AfterFailedClose
    /\ Finish
    /\ UNCHANGED <<hold, feedback, writer, last, callbacks, handoff, mode, arbiter>>

CloseCommit ==
    /\ At("release", "closeCommit") /\ GuardFree
    /\ own' = [own EXCEPT !.publisher = FALSE]
    /\ hold' = Unsettled(hold)
    /\ handoff' = [handoff EXCEPT !.window = FALSE]
    /\ dds' = [dds EXCEPT !.close = "none"]
    /\ Goto("restore")
    /\ UNCHANGED <<feedback, writer, last, callbacks, mode, arbiter>>

\* No callback that crossed the Close is still in flight.
Uncrossed == \A i \in DOMAIN callbacks : ~callbacks[i].crossing
Drained == handoff.on => Uncrossed

AfterDrain == IF op.handed THEN "unlock" ELSE "handbackFault"

DrainSkipped ==   \* mutant: callbacks are not waited for
    /\ At("release", "drain")
    /\ Goto(IF op.closed THEN "reset" ELSE AfterDrain)
    /\ UNCHANGED <<streamVars, dds, mode, arbiter>>

Drain ==
    /\ At("release", "drain")
    /\ \/ Drained /\ Goto(IF op.closed THEN "reset" ELSE AfterDrain)
       \/ ~Drained /\ Goto("drainFault")
    /\ UNCHANGED <<streamVars, dds, mode, arbiter>>

DrainFault ==
    /\ At("release", "drainFault") /\ GuardFree
    /\ own' = Faulted([own EXCEPT !.released = ~op.handed])
    /\ hold' = Unsettled(hold)
    /\ Finish
    /\ UNCHANGED <<feedback, writer, last, callbacks, handoff, dds, mode, arbiter>>

\* The endpoint was closed by an earlier release: its handoff is over.
ResetHandoff ==
    /\ At("release", "reset") /\ GuardFree
    /\ handoff' = NoHandoff
    /\ Goto(AfterDrain)
    /\ UNCHANGED <<own, hold, feedback, writer, last, callbacks, dds, mode, arbiter>>

HandbackFault ==
    /\ At("release", "handbackFault") /\ GuardFree
    /\ own' = Faulted([own EXCEPT !.released = @ \/ ~op.closed])
    /\ hold' = [Unsettled(hold) EXCEPT !.target = IF op.closed THEN @ ELSE "none"]
    /\ Finish
    /\ UNCHANGED <<feedback, writer, last, callbacks, handoff, dds, mode, arbiter>>

Unlock ==
    /\ At("release", "unlock") /\ GuardFree
    /\ ~handoff.fault
    /\ own.epoch /\ ~own.publisher /\ ~WriterAlive
    /\ ReleaseEpoch
    /\ Finish
    /\ UNCHANGED <<dds, mode>>

\* A late feedback fault, an expired permit, or the arbiter keeps the epoch.
UnlockFails ==
    /\ At("release", "unlock") /\ GuardFree
    /\ IF handoff.fault THEN UNCHANGED arbiter ELSE KeepsLock
    /\ own' = Faulted([own EXCEPT !.released = FALSE])
    /\ hold' = IF handoff.fault THEN Unsettled(hold) ELSE [hold EXCEPT !.active = FALSE]
    /\ Finish
    /\ UNCHANGED <<feedback, writer, last, callbacks, handoff, dds, mode>>

-----------------------------------------------------------------------------
Acquire ==
    \/ StartAcquire \/ GrantRefused \/ Granted \/ GrantCancelled
    \/ Revalidate \/ RevalidateFails \/ InitPublisher \/ FinalFence
    \/ CommitPublisher \/ CheckModeBefore \/ CrossBoundary \/ ReleaseMode
    \/ ConfirmRelease \/ ReleaseUnverified \/ StartWriter \/ FirstWrite
    \/ FirstWriteFault

Settle == HoldSettles \/ HoldDoesNotSettle \/ SettleFault

Close ==
    CloseStarts \/ CloseSucceeds \/ CloseRetries \/ CloseFails \/ CloseCancelled

Restore == AlreadyRestored \/ SelectMode \/ NotRestored

Abort ==
    StartAbort \/ AbortKeepsEndpoint \/ AbortCloses \/ AbortUnlocks \/ AbortKeepsEpoch

Release ==
    \/ StartHandback \/ StartRelease \/ HoldCheck \/ StopRefused \/ StopWriter
    \/ Join \/ JoinFault \/ PostStopFence \/ FenceFails \/ HandoffFence
    \/ CloseFault \/ CloseCommit \/ Drain \/ DrainFault \/ ResetHandoff
    \/ HandbackFault \/ Unlock \/ UnlockFails

Lifecycle == Acquire \/ Revoke \/ Settle \/ Close \/ Restore \/ Abort \/ Release
                \/ GuardTimesOut

Next ==
    \/ StreamNext /\ UNCHANGED lifeVars
    \/ CloseReturns
    \/ Lifecycle

\* A call of the event loop goes on: every wait has its deadline and every
\* RPC returns.  Nothing is assumed of a DDS Write, nor of the callbacks.
Fairness == WF_vars(op # Idle /\ Lifecycle)

Spec == Init /\ [][Next]_vars /\ Fairness

-----------------------------------------------------------------------------
(* Properties *)

\* The bridge writes motor commands only while it has taken the robot from its
\* motion service, and only as the recorded owner of a recorded publisher.
OneController ==
    WriterAlive => mode = "taken" /\ own.epoch /\ own.publisher

\* The host-wide lock outlives the DDS endpoint, also when its Close raised or
\* never came back: no second process is admitted beside a live endpoint.
LockCoversEndpoint == dds.open \/ own.epoch => arbiter # "free"

\* However an operation ended after ReleaseMode may have taken effect, its
\* epoch and the service to go back to are still recorded, so that a later
\* release can give the robot back.
TakenIsRecoverable == mode = "taken" => own.epoch /\ own.restore

\* Custody of the robot: the writer, the endpoint and the taken service are
\* each covered by what is recorded, so one process commands and can let go.
Custody == OneController /\ LockCoversEndpoint /\ TakenIsRecoverable

\* While the status says safe_hold_active, the last frame DDS accepted was a
\* hold frame and no target waits in the mailbox.
SafeHoldIsOnTheWire == hold.active => last = "hold" /\ hold.target = "none"

\* From the handoff fence to the end of that release no callback replaces the
\* hold generation that was settled at the fence: no writer is left to send it.
FrozenHoldStands ==
    op.name = "release" /\ ~op.closed /\ handoff.on /\ handoff.frozen
        /\ op.at \in {"close", "closing", "closeCommit", "restore", "selected",
                      "drain", "unlock"}
        => hold.written /\ hold.reached

\* A hold that is claimed is the hold on the wire, also while it is frozen for
\* the hand-over.
HoldIsGenuine == SafeHoldIsOnTheWire /\ FrozenHoldStands

\* SelectMode is called only once the local endpoint is closed and the writer
\* has stopped: the service and the bridge never command together.
HandbackAfterClose ==
    [][mode # "ours" /\ mode' = "ours" => ~dds.open /\ ~WriterAlive]_vars

\* Unlocking is the last step: the endpoint is closed, no callback that crossed
\* the Close is in flight, and an owner has given the robot back.
UnlockIsLast ==
    [][arbiter # "free" /\ arbiter' = "free" =>
            /\ ~dds.open /\ ~WriterAlive
            /\ own.epoch => mode = "ours" /\ Uncrossed]_vars

\* The order of a release: endpoint and writer, service, callbacks, lock.
ReleaseInOrder == HandbackAfterClose /\ UnlockIsLast

\* A revoke that reports success leaves a hold frame as the last on the wire.
RevokeMeansHold ==
    [][At("revoke", "settle") /\ op' = Idle =>
            last = "hold" /\ hold.target = "none" /\ writer.at # "mpc"]_vars

\* Every lifecycle call returns, even if a DDS Write never does.
LifecycleEnds == (op # Idle) ~> (op = Idle)

=============================================================================
