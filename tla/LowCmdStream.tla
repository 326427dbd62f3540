---------------------------- MODULE LowCmdStream ----------------------------
(***************************************************************************)
(* bridges/go2_lowlevel_sdk_bridge.py, the fixed-rate stream: the writer   *)
(* thread, the mailbox with its TTL, the safe-hold generation and the      *)
(* LowState callbacks.  All of them, and the lifecycle calls of            *)
(* LowCmdOwner, meet at _guard; the writer keeps it across Write.          *)
(*                                                                         *)
(* Generations and ingress tokens are kept as what they are compared for:  *)
(* whether the current hold generation was written and reached, and        *)
(* whether a callback entered after the write that reached it.  What is in *)
(* a frame is a function of its own, at the end.                           *)
(***************************************************************************)
EXTENDS Integers, Sequences, SequencesExt

CONSTANT MaxCallbacks   \* bound on the LowState callbacks in flight

ASSUME StreamAssumption == MaxCallbacks \in Nat

VARIABLES
    own,        \* status.ownership_state, fault_reason # None, _owner_epoch # 0,
                \* _publisher # None, high_level_released, a restore pair is known
    hold,       \* the mailbox and the current safe-hold generation
    feedback,   \* the newest LowState: is it at fault, what does it say of the hold
    writer,     \* the writer thread
    last,       \* the kind of the last frame DDS accepted from this owner
    callbacks,  \* LowState callbacks in flight, in token order
    handoff     \* the handoff latch

streamVars == <<own, hold, feedback, writer, last, callbacks, handoff>>

OwnershipStates == {"OBSERVE_ONLY", "ACQUIRING", "HOLDING", "MPC_ACTIVE",
                    "SAFE_HOLD", "RELEASING", "FAULT"}
Frames == {"mpc", "hold"}

Owners == [state : OwnershipStates, fault : BOOLEAN, epoch : BOOLEAN,
           publisher : BOOLEAN, released : BOOLEAN, restore : BOOLEAN]
Holds == [target : {"none", "fresh", "stale"}, written : BOOLEAN, reached : BOOLEAN,
          active : BOOLEAN, settled : BOOLEAN, awaited : BOOLEAN]
Feedback == [bad : BOOLEAN, frame : {"old", "settles", "moves"}]
Writers == [thread : {"none", "alive", "dead"}, at : {"check", "cycle"} \union Frames,
            stop : BOOLEAN, wrote : BOOLEAN]
Callback == [crossing : BOOLEAN, after : BOOLEAN, late : BOOLEAN]
Handoffs == [on : BOOLEAN, fault : BOOLEAN, frozen : BOOLEAN, window : BOOLEAN]

StreamTypeOK ==
    /\ own \in Owners
    /\ hold \in Holds
    /\ feedback \in Feedback
    /\ writer \in Writers
    /\ last \in Frames \union {"none"}
    /\ callbacks \in Seq(Callback) /\ Len(callbacks) <= MaxCallbacks
    /\ handoff \in Handoffs

\* A generation nobody has written; `awaited` follows the operation that
\* waits for the generation it created.
NewGeneration == [target |-> "none", written |-> FALSE, reached |-> FALSE,
                  active |-> FALSE, settled |-> FALSE, awaited |-> FALSE]
NoHandoff == [on |-> FALSE, fault |-> FALSE, frozen |-> FALSE, window |-> FALSE]
NoWriter == [thread |-> "none", at |-> "check", stop |-> TRUE, wrote |-> FALSE]

StreamInit ==
    /\ own = [state |-> "OBSERVE_ONLY", fault |-> FALSE, epoch |-> FALSE,
              publisher |-> FALSE, released |-> FALSE, restore |-> FALSE]
    /\ hold = NewGeneration
    /\ feedback = [bad |-> FALSE, frame |-> "old"]
    /\ writer = NoWriter
    /\ last = "none"
    /\ callbacks = <<>>
    /\ handoff = NoHandoff

-----------------------------------------------------------------------------
(* The guard and the safe hold *)

WriterAlive == writer.thread = "alive"
Writing == writer.at \in Frames
GuardFree == ~Writing

\* _safe_hold_is_settled_locked
IsSettled(h, f) == h.written /\ h.reached /\ f.frame = "settles"

\* _enter_safe_hold_locked: the owner and the hold it leaves.
HeldOwner(fault) ==
    [own EXCEPT !.state = IF fault THEN "FAULT" ELSE "SAFE_HOLD", !.fault = fault]

Held(fault, force) ==
    IF \/ force
       \/ hold.target # "none"
       \/ own.state # HeldOwner(fault).state
    THEN NewGeneration
    ELSE [hold EXCEPT !.active = hold.written]

EnterSafeHold(fault) ==
    /\ own' = HeldOwner(fault)
    /\ hold' = Held(fault, FALSE)

\* _start_writer_locked
Started == [thread |-> "alive", at |-> "check", stop |-> FALSE, wrote |-> FALSE]

-----------------------------------------------------------------------------
(* The mailbox *)

Submit ==
    /\ GuardFree
    /\ own.state \in {"HOLDING", "MPC_ACTIVE"}
    /\ own.epoch
    /\ hold' = [hold EXCEPT !.target = "fresh", !.active = FALSE, !.settled = FALSE]
    /\ own' = [own EXCEPT !.state = "MPC_ACTIVE", !.fault = FALSE]
    /\ UNCHANGED <<feedback, writer, last, callbacks, handoff>>

\* The TTL of the staged target passes.
TargetExpires ==
    /\ hold.target = "fresh"
    /\ hold' = [hold EXCEPT !.target = "stale"]
    /\ UNCHANGED <<own, feedback, writer, last, callbacks, handoff>>

-----------------------------------------------------------------------------
(* The writer thread *)

\* The loop reads _writer_stop and then waits for the guard: a cycle may
\* still run after the stop was set.
WriterLoops ==
    /\ WriterAlive /\ writer.at = "check" /\ ~writer.stop
    /\ writer' = [writer EXCEPT !.at = "cycle"]
    /\ UNCHANGED <<own, hold, feedback, last, callbacks, handoff>>

WriterExits ==
    /\ WriterAlive /\ writer.at = "check" /\ writer.stop
    /\ writer' = [writer EXCEPT !.thread = "dead"]
    /\ UNCHANGED <<own, hold, feedback, last, callbacks, handoff>>

\* The cycle took longer than its period.
WriterOverruns ==
    /\ WriterAlive /\ writer.at = "check" /\ writer.wrote
    /\ EnterSafeHold(TRUE)
    /\ UNCHANGED <<feedback, writer, last, callbacks, handoff>>

\* An exception leaves the loop.
WriterDies ==
    /\ WriterAlive /\ writer.at = "cycle"
    /\ EnterSafeHold(TRUE)
    /\ writer' = [writer EXCEPT !.thread = "dead", !.at = "check"]
    /\ UNCHANGED <<feedback, last, callbacks, handoff>>

Cycle(at) ==
    /\ WriterAlive /\ writer.at = "cycle"
    /\ writer' = [writer EXCEPT !.at = at]
    /\ UNCHANGED <<feedback, last, callbacks, handoff>>

\* Jitter, stale LowState, a lost ownership proof, degraded gains: the cycle
\* goes on with a hold frame, unless the frame cannot be built.
CycleFaults ==
    /\ \/ Cycle("check")
       \/ own.publisher /\ Cycle("hold")
    /\ EnterSafeHold(TRUE)

\* The mailbox lease ended before the frame was handed to DDS.
CycleDropsTarget ==
    /\ hold.target = "stale"
    /\ own.publisher
    /\ Cycle("hold")
    /\ EnterSafeHold(FALSE)

CycleBuildsFrame ==
    /\ hold.target # "stale"
    /\ own.publisher
    /\ Cycle(IF hold.target = "fresh" /\ own.state = "MPC_ACTIVE" THEN "mpc" ELSE "hold")
    /\ UNCHANGED <<own, hold>>

WriteFails ==
    /\ Writing
    /\ EnterSafeHold(TRUE)
    /\ writer' = [writer EXCEPT !.at = "check"]
    /\ UNCHANGED <<feedback, last, callbacks, handoff>>

Accepted ==
    /\ last' = writer.at
    /\ writer' = [writer EXCEPT !.at = "check", !.wrote = TRUE]
    /\ UNCHANGED handoff

\* A target that expired inside Write is not acknowledged.
WriteMpc ==
    /\ writer.at = "mpc"
    /\ Accepted
    /\ IF hold.target = "fresh"
       THEN UNCHANGED <<own, hold>>
       ELSE EnterSafeHold(TRUE)
    /\ UNCHANGED <<feedback, callbacks>>

\* reached: the slew has brought the command within tolerance of the hold.
\* The write that first reaches it fences off every callback in flight.
WriteHold(reached) ==
    /\ writer.at = "hold"
    /\ Accepted
    /\ LET fences == reached /\ ~hold.reached
           f == IF reached /\ hold.reached THEN feedback
                                           ELSE [feedback EXCEPT !.frame = "old"]
           h == [hold EXCEPT !.written = TRUE, !.reached = reached, !.active = TRUE]
       IN /\ feedback' = f
          /\ hold' = [h EXCEPT !.settled = IsSettled(h, f)]
          /\ callbacks' = IF fences
                          THEN [i \in DOMAIN callbacks |->
                                    [callbacks[i] EXCEPT !.after = FALSE]]
                          ELSE callbacks
    /\ UNCHANGED own

-----------------------------------------------------------------------------
(* LowState callbacks *)

\* _begin_low_state_callback takes only the ingress lock.
BeginCallback ==
    /\ Len(callbacks) < MaxCallbacks
    /\ callbacks' = Append(callbacks, [crossing |-> handoff.window,
                                       after |-> hold.reached, late |-> FALSE])
    /\ UNCHANGED <<own, hold, feedback, writer, last, handoff>>

\* The i-th callback leaves; those that entered before it are now late.
Leaves(i) ==
    callbacks' = RemoveAt([j \in DOMAIN callbacks |->
                    IF j < i THEN [callbacks[j] EXCEPT !.late = TRUE]
                             ELSE callbacks[j]], i)

HandoffRelevantAfterClose(c) ==   \* mutant: only once the publisher is gone
    own.epoch /\ handoff.on /\ c.crossing /\ ~own.publisher

\* _callback_is_handoff_relevant_locked
HandoffRelevant(c) == own.epoch /\ handoff.on /\ (c.crossing \/ own.publisher)

EndpointActive == own.epoch /\ own.publisher

\* _record_handoff_feedback_fault_locked
RecordHandoffFault ==
    /\ handoff' = [handoff EXCEPT !.fault = TRUE]
    /\ own' = [own EXCEPT !.state = "FAULT", !.fault = TRUE]
    /\ hold' = [hold EXCEPT !.active = FALSE, !.settled = FALSE]

\* A frame at fault; `broken` if it could not even be read.
ProcessFaulty(i, broken) ==
    /\ GuardFree /\ i \in DOMAIN callbacks
    /\ Leaves(i)
    /\ LET c == callbacks[i]
           unsettle == broken /\ ~c.late
       IN /\ feedback' = IF c.late THEN feedback ELSE [feedback EXCEPT !.bad = TRUE]
          /\ CASE HandoffRelevant(c) -> RecordHandoffFault
               [] ~HandoffRelevant(c) /\ EndpointActive ->
                    /\ own' = HeldOwner(TRUE)
                    /\ hold' = [Held(TRUE, FALSE) EXCEPT
                                   !.settled = @ /\ ~unsettle]
                    /\ UNCHANGED handoff
               [] OTHER ->
                    /\ own' = [own EXCEPT !.fault = @ \/ ~c.late]
                    /\ hold' = [hold EXCEPT !.settled = @ /\ ~unsettle]
                    /\ UNCHANGED handoff
    /\ UNCHANGED <<writer, last>>

\* A frame without fault; `still` if it lies within the hold's tolerances.
ProcessValid(i, still) ==
    /\ GuardFree /\ i \in DOMAIN callbacks
    /\ Leaves(i)
    /\ LET c == callbacks[i]
           satisfies == hold.reached /\ c.after /\ still
           seen == [bad |-> FALSE,
                    frame |-> IF ~(hold.reached /\ c.after) THEN "old"
                              ELSE IF still THEN "settles" ELSE "moves"]
       IN /\ feedback' = IF c.late THEN feedback ELSE seen
          /\ CASE HandoffRelevant(c) /\ handoff.frozen /\ ~satisfies -> RecordHandoffFault
               [] HandoffRelevant(c) /\ (handoff.frozen => satisfies) ->
                    /\ hold' = [hold EXCEPT !.settled = handoff.frozen]
                    /\ UNCHANGED <<own, handoff>>
               [] ~HandoffRelevant(c) /\ EndpointActive /\ ~c.late ->
                    /\ hold' = [hold EXCEPT !.settled = IsSettled(hold, seen)]
                    /\ UNCHANGED <<own, handoff>>
               [] ~HandoffRelevant(c) /\ own.epoch /\ ~own.publisher /\ ~c.late ->
                    /\ own' = [own EXCEPT !.fault = FALSE]
                    /\ hold' = [hold EXCEPT !.active = FALSE, !.settled = FALSE]
                    /\ UNCHANGED handoff
               [] ~own.epoch /\ ~c.late /\ own.state = "OBSERVE_ONLY" ->
                    /\ own' = [own EXCEPT !.fault = FALSE]
                    /\ UNCHANGED <<hold, handoff>>
               [] OTHER -> UNCHANGED <<own, hold, handoff>>
    /\ UNCHANGED <<writer, last>>

WriterStep ==
    \/ WriterLoops \/ WriterExits \/ WriterOverruns \/ WriterDies
    \/ CycleFaults \/ CycleDropsTarget \/ CycleBuildsFrame
    \/ WriteFails \/ WriteMpc
    \/ \E reached \in BOOLEAN : WriteHold(reached)

CallbackStep ==
    \/ BeginCallback
    \/ \E i \in 1..MaxCallbacks, b \in BOOLEAN : ProcessFaulty(i, b) \/ ProcessValid(i, b)

StreamNext == Submit \/ TargetExpires \/ WriterStep \/ CallbackStep

----------------------------------------------------------------------------
(***************************************************************************)
(* What the writer puts into one frame (_make_low_command, _slew_limit):   *)
(* for every joint a position within the limits, the slew and the torque   *)
(* that the last feedback allows, and gains that are scaled down, or       *)
(* replaced, when no position is.  The arithmetic is of integers; a scaled *)
(* gain is kept as the gain and the two numbers of its factor.             *)
(***************************************************************************)
Larger(a, b) == IF a > b THEN a ELSE b
Smaller(a, b) == IF a < b THEN a ELSE b
Clamped(low, high, q) == Larger(low, Smaller(high, q))
Size(n) == IF n < 0 THEN -n ELSE n

(* What is configured for a joint: the range, the speed and the step of a  *)
(* cycle, the gains and the feed-forward, those for lost feedback, and the *)
(* torque limits of the software and of the firmware.                      *)
JointConfig ==
  [qMin : Int, qMax : Int, dqMax : Int, delta : Int,
   kp : Int, kd : Int, ff : Int, lossKp : Int, lossKd : Int, lossFf : Int,
   tau : Int, firmware : Int]

(* Without it actuation is not ready, and nothing is acquired. *)
Configured(j) ==
  /\ j.qMin < j.qMax /\ j.dqMax > 0 /\ j.delta > 0
  /\ j.kp >= 0 /\ j.kd >= 0
  /\ j.lossKp \in 0..j.kp /\ j.lossKd \in 0..j.kd
  /\ Size(j.ff) <= j.tau
  /\ j.firmware > 0 /\ j.firmware <= j.tau
  /\ Size(j.lossFf) <= j.firmware

MotorFeedback == [lost : BOOLEAN, finite : BOOLEAN, at : Int, q : Int, dq : Int]

(* No older frame stands in for one that is missing. *)
Usable(fb, now, maxAge) ==
  /\ ~fb.lost /\ fb.finite
  /\ fb.at > 0 /\ fb.at <= now /\ now - fb.at <= maxAge

MaxStep(j, elapsed) == Smaller(j.delta, j.dqMax * elapsed)

(* The target is slewed first. *)
Slewed(j, was, want, elapsed) ==
  Clamped(j.qMin, j.qMax, was + Clamped(-MaxStep(j, elapsed), MaxStep(j, elapsed), want - was))

MoveLow(j, was, elapsed) == Larger(j.qMin, was - MaxStep(j, elapsed))
MoveHigh(j, was, elapsed) == Smaller(j.qMax, was + MaxStep(j, elapsed))

Ceiling(j) == Smaller(j.tau, j.firmware)

(* What is left of the torque for the error of the position. *)
Budget(j, fb) == Ceiling(j) - Size(j.kd * fb.dq) - Size(j.ff)

FeasibleLow(j, was, elapsed, fb) == Larger(MoveLow(j, was, elapsed), fb.q - Budget(j, fb) \div j.kp)
FeasibleHigh(j, was, elapsed, fb) == Smaller(MoveHigh(j, was, elapsed), fb.q + Budget(j, fb) \div j.kp)

(* Some position in reach keeps the torque. *)
Feasible(j, was, elapsed, fb) ==
  /\ Budget(j, fb) >= 0
  /\ j.kp > 0 => FeasibleLow(j, was, elapsed, fb) <= FeasibleHigh(j, was, elapsed, fb)

Position(j, was, want, elapsed, fb, usable) ==
  IF usable /\ Feasible(j, was, elapsed, fb) /\ j.kp > 0
  THEN Clamped(FeasibleLow(j, was, elapsed, fb), FeasibleHigh(j, was, elapsed, fb), want)
  ELSE Clamped(MoveLow(j, was, elapsed), MoveHigh(j, was, elapsed), want)

(* The terms may cancel out; that is not relied on. *)
Torque(j, q, fb) == Size(j.kp * (q - fb.q)) + Size(j.kd * fb.dq) + Size(j.ff)

Plain(j, q) == [kind |-> "standard", q |-> q, kp |-> j.kp, kd |-> j.kd, ff |-> j.ff, num |-> 1, den |-> 1]

Derated(j, q, torque) ==
  [kind |-> "derated", q |-> q, kp |-> j.kp, kd |-> j.kd, ff |-> j.ff,
   num |-> IF torque <= Ceiling(j) THEN 1 ELSE Ceiling(j),
   den |-> IF torque <= Ceiling(j) THEN 1 ELSE torque]

(* Nothing is known of the torque; the firmware's clamp bounds it. *)
Degraded(j, q) ==
  [kind |-> "degraded", q |-> q, kp |-> j.lossKp, kd |-> j.lossKd, ff |-> j.lossFf, num |-> 1, den |-> 1]

JointCommand(j, was, want, elapsed, fb, usable) ==
  LET q == Position(j, was, want, elapsed, fb, usable)
      fits == Feasible(j, was, elapsed, fb)
      torque == Torque(j, q, fb)
  IN IF ~usable \/ (fits /\ torque > Ceiling(j)) THEN Degraded(j, q)
     ELSE IF fits THEN Plain(j, q)
     ELSE Derated(j, q, torque)

(* One joint without feedback takes it from all of them. *)
AllUsable(feedbacks, now, maxAge) == \A i \in DOMAIN feedbacks : Usable(feedbacks[i], now, maxAge)

FrameCommands(joints, was, want, elapsed, feedbacks, now, maxAge) ==
  [i \in DOMAIN joints |->
     JointCommand(joints[i], was[i], Slewed(joints[i], was[i], want[i], elapsed), elapsed,
                  feedbacks[i], AllUsable(feedbacks, now, maxAge))]

(* The frame has more slots than there are joints; the others are stopped. *)
SlotStopped == [kind |-> "stopped"]

Encoded(c, direction, offset) == [c EXCEPT !.q = offset + direction * @, !.ff = direction * @]

MotorFrame(slots, ids, directions, offsets, commands) ==
  [s \in slots |->
     IF \E i \in DOMAIN ids : ids[i] = s
     THEN LET i == CHOOSE i \in DOMAIN ids : ids[i] = s
          IN Encoded(commands[i], directions[i], offsets[i])
     ELSE SlotStopped]

=============================================================================
