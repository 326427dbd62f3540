-------------------------- MODULE LowCmdOwnerProofs --------------------------
(***************************************************************************)
(* What the lifecycle of the LowCmd owner guarantees whatever the number   *)
(* of LowState callbacks in flight, whether or not a Close may be retried: *)
(* LockCoversEndpoint, OneController, TakenIsRecoverable,                  *)
(* HandbackAfterClose and UnlockIsLast.  They rest on OwnerInv, which says *)
(* at each place of an operation what the bridge still holds.  Behind them *)
(* come the arbiter the owner asks, and the frames its writer sends.       *)
(***************************************************************************)
EXTENDS LowCmdOwner, ControlArbiter, SequenceTheorems, TLAPS

NoEndpoint == [open |-> FALSE, close |-> "none"]

BeforeCommit == {"revalidate", "init"}
Closing == {"close", "closing"}
Aborting == {"abort", "abortKeep", "abortClosed"} \union Closing
Checked == {"precheck", "release", "confirm", "releaseFault", "start"}
Closed == {"closeFault", "closeCommit"}
HandedBack == {"drain", "reset", "drainFault", "handbackFault", "unlock"}

\* No writer runs here: none was started yet, or the fence has cleared it.
NoWriterAt == BeforeCommit \union Aborting \union Checked \union Closed
                \union {"final", "commit", "check"}

\* Which operation is where.
Placed ==
    /\ op.at \in HandedBack \union Closed => op.name = "release"
    /\ op.at \in BeforeCommit \union Checked \union
            {"final", "commit", "check", "abort", "abortKeep", "abortClosed", "abortUnlock"}
        => op.name = "acquire"
    /\ op.at \in Closing \union {"restore", "selected"} => op.name \in {"acquire", "release"}

\* What outlives an operation: an endpoint or an owner has the lock, an owner
\* without a publisher has closed it, a robot that was taken has an owner who
\* knows the service, and the writer runs only for such an owner.
Recorded ==
    /\ dds # NoEndpoint \/ own.epoch => arbiter # "free"
    /\ own.publisher => own.epoch
    /\ own.epoch /\ ~own.publisher => dds = NoEndpoint
    /\ dds.close = "closed" => ~dds.open
    /\ mode = "taken" => own.epoch /\ own.restore
    /\ writer.thread # "none" => own.epoch /\ own.publisher /\ mode = "taken"

\* What an operation knows from where it is.
Progress ==
    /\ op.name = "acquire" /\ op.at # "grant" => arbiter # "free"
    /\ op.at \in BeforeCommit => dds = NoEndpoint /\ ~own.epoch
    /\ op.at \in Aborting \union Checked \union Closed \union {"final", "commit", "check"}
        => own.publisher = own.epoch
    /\ op.at \in Checked \union Closed \union {"check"} => own.epoch
    /\ op.at \in Closing /\ op.name # "acquire" => own.epoch
    /\ op.at \in {"abortClosed", "closeCommit"} => dds.close = "closed"
    /\ op.at \in {"restore", "selected"} => own.epoch /\ ~own.publisher
    /\ op.at \in Checked => own.restore
    /\ op.at = "start" => mode = "taken"
    /\ op.at \in NoWriterAt => writer.thread = "none"
    /\ op.handed => mode = "ours" /\ op.at \in HandedBack \union {"abortUnlock"}
    /\ op.at = "unlock" => op.handed

\* A callback that crossed a Close is seen off before the owner is cleared:
\* the latch stays on until it is known that there is none.
Unlatched == ~handoff.on /\ ~handoff.window
Crossing ==
    /\ ~own.epoch => Unlatched
    /\ ~own.publisher => ~handoff.window
    /\ ~own.publisher /\ ~handoff.on => Uncrossed
    /\ op.name = "acquire" /\ op.at \in NoWriterAt \union {"restore", "selected", "abortUnlock"}
        => Unlatched /\ Uncrossed
    /\ op.name = "release" /\ op.at \in Closing \union {"closeCommit"} => handoff.on
    /\ op.at \in {"reset", "handbackFault", "unlock"} => Uncrossed
    /\ op.at \in HandedBack \union {"abortUnlock"} => ~own.publisher

OwnerInv == OwnerTypeOK /\ Placed /\ Recorded /\ Progress /\ Crossing

\* A bridge that owns nothing satisfies it.
LEMMA InitOwnerInv == Init => OwnerInv
BY EmptySeq, StreamAssumption
   DEF Init, StreamInit, OwnerInv, OwnerTypeOK, StreamTypeOK, Placed, Recorded,
       Progress, Crossing, Unlatched, Uncrossed, NewGeneration, NoWriter, NoHandoff,
       Idle, NoEndpoint, Owners, OwnershipStates, Holds, Feedback, Writers,
       Frames, Callback, Handoffs, Endpoints, Operations, Labels, BoundedSections,
       BeforeCommit, Closing, Aborting, Checked, Closed, HandedBack, NoWriterAt

-----------------------------------------------------------------------------
(* Sequences of callbacks *)

\* Removing an element leaves only elements of the sequence.
LEMMA RemoveAtMember ==
    ASSUME NEW S, NEW s \in Seq(S), NEW i \in DOMAIN s
    PROVE  /\ RemoveAt(s, i) \in Seq(S)
           /\ Len(RemoveAt(s, i)) = Len(s) - 1
           /\ \A j \in DOMAIN RemoveAt(s, i) : \E k \in DOMAIN s : RemoveAt(s, i)[j] = s[k]
<1> DEFINE a == SubSeq(s, 1, i - 1)
           b == SubSeq(s, i + 1, Len(s))
<1>1. i \in 1..Len(s) /\ Len(s) \in Nat
    BY LenProperties
<1>2. a \in Seq(S) /\ Len(a) = i - 1 /\ \A j \in 1..(i - 1) : a[j] = s[j]
    BY <1>1
<1>3. b \in Seq(S) /\ Len(b) = Len(s) - i /\ \A j \in 1..(Len(s) - i) : b[j] = s[j + i]
    BY <1>1
<1>4. RemoveAt(s, i) = a \o b
    BY DEF RemoveAt
<1> HIDE DEF a, b
<1>5. a \o b \in Seq(S) /\ Len(a \o b) = Len(s) - 1
    BY <1>1, <1>2, <1>3
<1>6. ASSUME NEW j \in 1..(Len(s) - 1)
      PROVE  \E k \in DOMAIN s : (a \o b)[j] = s[k]
  <2>1. CASE j < i
    BY <1>1, <1>2, <1>3, <2>1
  <2>2. CASE j >= i
    <3>1. (a \o b)[j] = b[j - (i - 1)]
        BY SMTT(60), <1>1, <1>2, <1>3, <2>2
    <3>2. (a \o b)[j] = s[j + 1] /\ j + 1 \in DOMAIN s
        BY <1>1, <1>3, <2>2, <3>1
    <3> QED BY <3>2
  <2>3. j \in Int /\ i \in Int
    BY <1>1
  <2>4. j < i \/ j >= i
    BY <2>3
  <2> QED BY ONLY <2>1, <2>2, <2>4
<1>7. DOMAIN (a \o b) = 1..(Len(s) - 1)
    BY <1>5
<1> QED BY <1>4, <1>5, <1>6, <1>7, Zenon

\* Marking the callbacks in flight neither adds one nor moves its ingress.
LEMMA MarkedCallbacks ==
    ASSUME StreamTypeOK, NEW marked,
           DOMAIN marked = DOMAIN callbacks,
           marked = [j \in DOMAIN callbacks |-> marked[j]],
           \A j \in DOMAIN callbacks :
               marked[j] \in Callback /\ marked[j].crossing = callbacks[j].crossing
    PROVE  marked \in Seq(Callback) /\ Len(marked) = Len(callbacks)
<1>1. callbacks \in Seq(Callback)
    BY DEF StreamTypeOK
<1>2. DOMAIN callbacks = 1..Len(callbacks) /\ Len(callbacks) \in Nat
    BY <1>1, LenProperties
<1> QED BY <1>2

\* A callback that leaves makes no other one cross a Close.
LEMMA LeavesKeeps ==
    ASSUME StreamTypeOK, NEW i \in DOMAIN callbacks, Leaves(i)
    PROVE  /\ callbacks' \in Seq(Callback) /\ Len(callbacks') <= MaxCallbacks
           /\ Uncrossed => Uncrossed'
<1> DEFINE marked == [j \in DOMAIN callbacks |->
                         IF j < i THEN [callbacks[j] EXCEPT !.late = TRUE]
                                  ELSE callbacks[j]]
<1>1. callbacks \in Seq(Callback) /\ Len(callbacks) \in Nat
    BY DEF StreamTypeOK
<1>2. \A j \in DOMAIN callbacks : callbacks[j] \in Callback
    BY <1>1
<1>3. \A j \in DOMAIN callbacks :
         marked[j] \in Callback /\ marked[j].crossing = callbacks[j].crossing
    BY ZenonT(60), <1>2 DEF Callback
<1>4. DOMAIN marked = DOMAIN callbacks /\ marked = [j \in DOMAIN callbacks |-> marked[j]]
    OBVIOUS
<1>5. callbacks' = RemoveAt(marked, i)
    BY DEF Leaves
<1> HIDE DEF marked
<1>6. marked \in Seq(Callback) /\ Len(marked) = Len(callbacks)
    BY <1>3, <1>4, MarkedCallbacks
<1>7. callbacks' \in Seq(Callback) /\ Len(callbacks') = Len(callbacks) - 1
    BY ZenonT(60), <1>4, <1>5, <1>6, RemoveAtMember
<1>8. \A j \in DOMAIN callbacks' : \E k \in DOMAIN marked : callbacks'[j] = marked[k]
    BY ONLY ZenonT(60), <1>4, <1>5, <1>6, RemoveAtMember
<1>9. Uncrossed => Uncrossed'
    BY <1>3, <1>4, <1>8 DEF Uncrossed
<1>10. Len(callbacks') <= MaxCallbacks
    BY <1>1, <1>7, StreamAssumption DEF StreamTypeOK
<1> QED BY <1>7, <1>9, <1>10

\* What the lifecycle relies on: no step of the stream changes these.
OwnerKept ==
    own'.epoch = own.epoch /\ own'.publisher = own.publisher /\ own'.restore = own.restore
StreamKept ==
    /\ OwnerKept
    /\ writer'.thread = "none" <=> writer.thread = "none"
    /\ handoff'.on = handoff.on /\ handoff'.window = handoff.window
    /\ Uncrossed /\ ~handoff.window => Uncrossed'

\* _enter_safe_hold_locked keeps who owns what.
LEMMA HeldTypes ==
    ASSUME own \in Owners, hold \in Holds, NEW fault \in BOOLEAN, NEW force \in BOOLEAN
    PROVE  /\ HeldOwner(fault) \in Owners
           /\ HeldOwner(fault).epoch = own.epoch
           /\ HeldOwner(fault).publisher = own.publisher
           /\ HeldOwner(fault).restore = own.restore
           /\ Held(fault, force) \in Holds
BY DEF HeldOwner, Held, NewGeneration, Owners, Holds, OwnershipStates

\* A revoke forces the hold.
LEMMA ForcedHoldType ==
    ASSUME own \in Owners, hold \in Holds, ForceHold
    PROVE  hold' \in Holds
<1> DEFINE fault == own.state = "FAULT"
<1>1. Held(fault, TRUE) \in Holds
    BY HeldTypes
<1>2. hold' = [Held(fault, TRUE) EXCEPT !.awaited = TRUE]
    BY DEF ForceHold
<1> HIDE DEF fault
<1> QED BY ONLY <1>1, <1>2 DEF Holds

\* The same of the step that enters the hold.
LEMMA EnterSafeHoldKeeps ==
    ASSUME own \in Owners, hold \in Holds, NEW fault \in BOOLEAN, EnterSafeHold(fault)
    PROVE  own' \in Owners /\ hold' \in Holds /\ OwnerKept
BY HeldTypes DEF EnterSafeHold, OwnerKept

\* The writer thread: no write, fault or exit changes who owns what.
LEMMA WriterStepKeeps ==
    ASSUME StreamTypeOK, WriterStep
    PROVE  StreamTypeOK' /\ StreamKept
<1> USE DEF StreamTypeOK, StreamKept, WriterAlive, Frames, Writers
<1>1. CASE WriterLoops \/ WriterExits
    BY <1>1 DEF WriterLoops, WriterExits, OwnerKept, Uncrossed
<1>2. CASE WriterOverruns \/ WriterDies \/ WriteFails
    BY <1>2, EnterSafeHoldKeeps DEF WriterOverruns, WriterDies, WriteFails, Uncrossed
<1>3. CASE CycleFaults \/ CycleDropsTarget
    BY <1>3, EnterSafeHoldKeeps DEF CycleFaults, CycleDropsTarget, Cycle, Uncrossed
<1>4. CASE CycleBuildsFrame
    BY <1>4 DEF CycleBuildsFrame, Cycle, OwnerKept, Uncrossed
<1>5. CASE WriteMpc
    BY <1>5, EnterSafeHoldKeeps DEF WriteMpc, Accepted, OwnerKept, Uncrossed
<1>6. ASSUME NEW reached \in BOOLEAN, WriteHold(reached)
      PROVE  StreamTypeOK' /\ StreamKept
  <2> DEFINE fenced == [i \in DOMAIN callbacks |-> [callbacks[i] EXCEPT !.after = FALSE]]
  <2>1. \A j \in DOMAIN callbacks : callbacks[j] \in Callback
      OBVIOUS
  <2>2. \A j \in DOMAIN callbacks : fenced[j] \in Callback /\ fenced[j].crossing = callbacks[j].crossing
      BY <2>1 DEF Callback
  <2>3. DOMAIN fenced = DOMAIN callbacks /\ fenced = [j \in DOMAIN callbacks |-> fenced[j]]
      OBVIOUS
  <2>4. callbacks' = callbacks \/ callbacks' = fenced
      BY <1>6 DEF WriteHold
  <2> HIDE DEF fenced
  <2>5. fenced \in Seq(Callback) /\ Len(fenced) = Len(callbacks)
      BY <2>2, <2>3, MarkedCallbacks
  <2>6. callbacks' \in Seq(Callback) /\ Len(callbacks') <= MaxCallbacks
      BY <2>4, <2>5
  <2>7. Uncrossed => Uncrossed'
      BY <2>2, <2>3, <2>4 DEF Uncrossed
  <2>8. own' = own /\ handoff' = handoff
      BY <1>6 DEF WriteHold, Accepted
  <2>9. writer' \in Writers /\ writer'.thread = writer.thread /\ last' \in Frames \union {"none"}
      BY <1>6 DEF WriteHold, Accepted
  <2>10. feedback' \in Feedback
      BY <1>6 DEF WriteHold, Feedback
  <2>11. hold' \in Holds
      BY <1>6 DEF WriteHold, Holds, IsSettled
  <2> QED BY <2>6, <2>7, <2>8, <2>9, <2>10, <2>11 DEF OwnerKept
<1> QED BY <1>1, <1>2, <1>3, <1>4, <1>5, <1>6 DEF WriterStep

\* A fault of the handoff keeps the owner and its latch.
LEMMA RecordHandoffFaultKeeps ==
    ASSUME StreamTypeOK, RecordHandoffFault
    PROVE  /\ own' \in Owners /\ OwnerKept
           /\ hold' \in Holds
           /\ handoff' \in Handoffs /\ handoff'.on = handoff.on /\ handoff'.window = handoff.window
BY DEF StreamTypeOK, RecordHandoffFault, Owners, OwnershipStates, Holds, Handoffs, OwnerKept

\* A callback, early or late, changes neither the owner nor the latch.
LEMMA CallbackStepKeeps ==
    ASSUME StreamTypeOK, CallbackStep
    PROVE  StreamTypeOK' /\ StreamKept
<1>1. CASE BeginCallback
  <2> DEFINE c == [crossing |-> handoff.window, after |-> hold.reached, late |-> FALSE]
  <2>1. c \in Callback /\ callbacks \in Seq(Callback) /\ callbacks' = Append(callbacks, c)
      BY <1>1 DEF BeginCallback, Callback, StreamTypeOK, Handoffs, Holds
  <2>2. c.crossing = handoff.window
      OBVIOUS
  <2> HIDE DEF c
  <2>3. callbacks' \in Seq(Callback) /\ Len(callbacks') = Len(callbacks) + 1
      BY <2>1
  <2>4. Len(callbacks') <= MaxCallbacks
      BY <1>1, <2>1, <2>3, StreamAssumption DEF BeginCallback
  <2>5. \A j \in DOMAIN callbacks' :
           \/ j \in DOMAIN callbacks /\ callbacks'[j] = callbacks[j]
           \/ callbacks'[j] = c
      BY <2>1
  <2>6. Uncrossed /\ ~handoff.window => Uncrossed'
      BY <2>2, <2>5 DEF Uncrossed
  <2> QED BY <1>1, <2>3, <2>4, <2>6 DEF BeginCallback, StreamTypeOK, StreamKept, OwnerKept
<1>2. ASSUME NEW i \in 1..MaxCallbacks, NEW b \in BOOLEAN, ProcessFaulty(i, b)
      PROVE  StreamTypeOK' /\ StreamKept
  <2>1. /\ callbacks' \in Seq(Callback) /\ Len(callbacks') <= MaxCallbacks
        /\ Uncrossed => Uncrossed'
      BY <1>2, LeavesKeeps DEF ProcessFaulty
  <2>2. callbacks[i] \in Callback
      BY <1>2 DEF ProcessFaulty, StreamTypeOK
  <2>3. UNCHANGED <<writer, last>> /\ feedback' \in Feedback
      BY <1>2, <2>2 DEF ProcessFaulty, Callback, StreamTypeOK, Feedback
  <2>4. /\ own' \in Owners /\ OwnerKept
        /\ hold' \in Holds
        /\ handoff' \in Handoffs /\ handoff'.on = handoff.on /\ handoff'.window = handoff.window
    <3>1. CASE HandoffRelevant(callbacks[i])
        BY <1>2, <3>1, RecordHandoffFaultKeeps DEF ProcessFaulty
    <3>2. CASE ~HandoffRelevant(callbacks[i]) /\ EndpointActive
      <4>1. own' = HeldOwner(TRUE) /\ handoff' = handoff
          BY <1>2, <3>2 DEF ProcessFaulty
      <4>2. \E u \in BOOLEAN : hold' = [Held(TRUE, FALSE) EXCEPT !.settled = @ /\ ~u]
          BY <1>2, <2>2, <3>2 DEF ProcessFaulty, Callback
      <4>3. Held(TRUE, FALSE) \in Holds
          BY HeldTypes DEF StreamTypeOK
      <4>4. hold' \in Holds
          BY <4>2, <4>3 DEF Holds
      <4> QED BY <4>1, <4>4, HeldTypes DEF StreamTypeOK, OwnerKept
    <3>3. CASE ~HandoffRelevant(callbacks[i]) /\ ~EndpointActive
        BY ZenonT(60), <1>2, <2>2, <3>3 DEF ProcessFaulty, Callback, StreamTypeOK, Owners, Holds, OwnerKept
    <3> QED BY <3>1, <3>2, <3>3
  <2> QED BY <2>1, <2>3, <2>4 DEF StreamTypeOK, StreamKept
<1>3. ASSUME NEW i \in 1..MaxCallbacks, NEW b \in BOOLEAN, ProcessValid(i, b)
      PROVE  StreamTypeOK' /\ StreamKept
  <2>1. /\ callbacks' \in Seq(Callback) /\ Len(callbacks') <= MaxCallbacks
        /\ Uncrossed => Uncrossed'
      BY <1>3, LeavesKeeps DEF ProcessValid
  <2>2. UNCHANGED <<writer, last>> /\ feedback' \in Feedback
      BY <1>3 DEF ProcessValid, StreamTypeOK, Feedback
  <2>3. /\ own' \in Owners /\ OwnerKept
        /\ hold' \in Holds
        /\ handoff' \in Handoffs /\ handoff'.on = handoff.on /\ handoff'.window = handoff.window
    <3>1. \/ RecordHandoffFault
          \/ /\ own' = own \/ own' = [own EXCEPT !.fault = FALSE]
             /\ \/ \E s \in BOOLEAN : hold' = [hold EXCEPT !.settled = s]
                \/ hold' = [hold EXCEPT !.active = FALSE, !.settled = FALSE]
                \/ hold' = hold
             /\ handoff' = handoff
        BY <1>3 DEF ProcessValid, IsSettled, StreamTypeOK, Handoffs, Holds
    <3> QED BY <3>1, RecordHandoffFaultKeeps DEF StreamTypeOK, Owners, Holds, OwnerKept
  <2> QED BY <2>1, <2>2, <2>3 DEF StreamTypeOK, StreamKept
<1> QED BY <1>1, <1>2, <1>3 DEF CallbackStep

\* Every step of the stream.
LEMMA StreamNextKeeps ==
    ASSUME StreamTypeOK, StreamNext
    PROVE  StreamTypeOK' /\ StreamKept
<1>1. CASE Submit
    BY <1>1 DEF Submit, StreamTypeOK, StreamKept, OwnerKept, Owners, OwnershipStates, Holds, Uncrossed
<1>2. CASE TargetExpires
    BY <1>2 DEF TargetExpires, StreamTypeOK, StreamKept, OwnerKept, Holds, Uncrossed
<1> QED BY <1>1, <1>2, WriterStepKeeps, CallbackStepKeeps DEF StreamNext

\* So the stream keeps the invariant, wherever the operation is.
LEMMA StreamKeeps ==
    ASSUME OwnerInv, StreamNext, UNCHANGED lifeVars
    PROVE  OwnerInv'
<1>1. StreamTypeOK' /\ StreamKept
    BY StreamNextKeeps DEF OwnerInv, OwnerTypeOK
<1>2. OwnerTypeOK'
    BY <1>1 DEF OwnerInv, OwnerTypeOK, lifeVars
<1>3. Unlatched' = Unlatched
    BY <1>1 DEF Unlatched, StreamKept
<1>4. ~handoff.window /\ Uncrossed => Uncrossed'
    BY <1>1 DEF StreamKept
<1>5. /\ own'.epoch = own.epoch /\ own'.publisher = own.publisher
      /\ handoff'.on = handoff.on /\ handoff'.window = handoff.window /\ op' = op
    BY <1>1 DEF StreamKept, OwnerKept, lifeVars
<1>6. Crossing'
    BY <1>3, <1>4, <1>5
       DEF OwnerInv, Crossing, Unlatched, BeforeCommit, Closing, Aborting, Checked,
           Closed, HandedBack, NoWriterAt
<1>7. Placed' /\ Recorded' /\ Progress'
    BY <1>1 DEF OwnerInv, Placed, Recorded, Progress, StreamKept, OwnerKept, lifeVars
<1> QED BY <1>2, <1>6, <1>7 DEF OwnerInv

-----------------------------------------------------------------------------
(* The lifecycle *)

USE DEF At, Goto, Finish, Idle, lifeVars, streamVars, Owners, Writers, Handoffs,
        Endpoints, Operations, NoHandoff, NoWriter, Started, Faulted, NoEndpoint,
        BeforeCommit, Closing, Aborting, Checked, Closed, HandedBack, NoWriterAt

\* _release_uncommitted_arbiter_epoch stays in the types.
LEMMA ReleaseUncommittedTypes ==
    ASSUME OwnerTypeOK, ReleaseUncommitted
    PROVE  own' \in Owners /\ hold' \in Holds /\ writer' \in Writers /\ handoff' \in Handoffs
<1>1. CASE UNCHANGED <<own, hold, writer, handoff>>
    BY <1>1 DEF OwnerTypeOK, StreamTypeOK
<1>2. CASE ~UNCHANGED <<own, hold, writer, handoff>>
  <2>1. /\ own' = [state |-> "FAULT", fault |-> TRUE, epoch |-> TRUE,
                   publisher |-> FALSE, released |-> FALSE, restore |-> TRUE]
        /\ hold' = [Unsettled(hold) EXCEPT !.target = "none"]
        /\ writer' = [writer EXCEPT !.thread = "none"]
        /\ handoff' = NoHandoff
      BY <1>2 DEF ReleaseUncommitted
  <2>2. own' \in Owners /\ handoff' \in Handoffs
      BY <2>1 DEF OwnershipStates
  <2>3. writer' \in Writers
      BY <2>1 DEF OwnerTypeOK, StreamTypeOK
  <2>4. hold' \in Holds
      BY <2>1 DEF Unsettled, OwnerTypeOK, StreamTypeOK, Holds
  <2> QED BY <2>2, <2>3, <2>4
<1> QED BY <1>1, <1>2

\* acquire up to the first write of the hold.
LEMMA AcquireKeeps ==
    ASSUME OwnerInv, Acquire
    PROVE  OwnerInv'
<1> USE DEF OwnerInv, OwnerTypeOK, StreamTypeOK, Placed, Recorded, Progress,
            Crossing, Unlatched, Uncrossed
<1>1. CASE StartAcquire
  <2>1. op' \in Operations
      BY ZenonT(60), <1>1 DEF StartAcquire, Labels
  <2>2. (Placed /\ Recorded /\ Progress /\ Crossing)'
      BY <1>1 DEF StartAcquire
  <2> QED BY <1>1, <2>1, <2>2 DEF StartAcquire
<1>2. CASE GrantRefused
    BY <1>2 DEF GrantRefused, Labels
<1>3. CASE Granted
    BY <1>3 DEF Granted, Labels, BoundedSections, AcquireSections,
       ReleaseSections
<1>4. CASE GrantCancelled
  <2>1. op' \in Operations
      BY <1>4 DEF GrantCancelled, ReleaseUncommitted, Labels
  <2>2. OwnerTypeOK'
      BY <1>4, <2>1, ReleaseUncommittedTypes DEF GrantCancelled,
         ReleaseUncommitted
  <2>3. (Placed /\ Recorded /\ Progress /\ Crossing)'
      BY <1>4 DEF GrantCancelled, ReleaseUncommitted
  <2> QED BY <2>2, <2>3
<1>5. CASE Revalidate
    BY <1>5 DEF Revalidate, Labels, BoundedSections, AcquireSections,
       ReleaseSections
<1>6. CASE RevalidateFails
  <2>1. op' \in Operations
      BY <1>6 DEF RevalidateFails, ReleaseUncommitted, Labels
  <2>2. OwnerTypeOK'
      BY <1>6, <2>1, ReleaseUncommittedTypes DEF RevalidateFails,
         ReleaseUncommitted
  <2>3. (Placed /\ Recorded /\ Progress /\ Crossing)'
      BY <1>6 DEF RevalidateFails, ReleaseUncommitted
  <2> QED BY <2>2, <2>3
<1>7. CASE InitPublisher
  <2>1. op' \in Operations
      BY <1>7 DEF InitPublisher, Labels, BoundedSections, AcquireSections
  <2>2. dds' \in Endpoints
      BY ZenonT(60), <1>7 DEF InitPublisher
  <2>3. (Placed /\ Recorded /\ Progress /\ Crossing)'
      BY <1>7 DEF InitPublisher
  <2> QED BY <1>7, <2>1, <2>2, <2>3 DEF InitPublisher
<1>8. CASE FinalFence
    BY <1>8 DEF FinalFence, Labels, BoundedSections, AcquireSections,
       ReleaseSections
<1>9. CASE CommitPublisher
  <2>1. op' \in Operations
      BY <1>9 DEF CommitPublisher, Labels
  <2>2. own' \in Owners
      BY <1>9 DEF CommitPublisher, OwnershipStates
  <2>3. hold' \in Holds
      BY <1>9 DEF CommitPublisher, Holds
  <2>4. (Placed /\ Recorded /\ Progress /\ Crossing)'
      BY <1>9 DEF CommitPublisher
  <2> QED BY <1>9, <2>1, <2>2, <2>3, <2>4 DEF CommitPublisher
<1>10. CASE CheckModeBefore
  <2>1. op' \in Operations
      BY <1>10 DEF CheckModeBefore, Labels
  <2>2. own' \in Owners
      BY ZenonT(60), <1>10 DEF CheckModeBefore, OwnershipStates
  <2>3. (Placed /\ Recorded /\ Progress /\ Crossing)'
      BY <1>10 DEF CheckModeBefore
  <2> QED BY <1>10, <2>1, <2>2, <2>3 DEF CheckModeBefore
<1>11. CASE CrossBoundary
    BY <1>11 DEF CrossBoundary, Labels, BoundedSections, AcquireSections,
       ReleaseSections
<1>12. CASE ReleaseMode
    BY <1>12 DEF ReleaseMode, Labels, BoundedSections, AcquireSections,
       ReleaseSections
<1>13. CASE ConfirmRelease
    BY <1>13 DEF ConfirmRelease, Labels, BoundedSections, AcquireSections,
       ReleaseSections
<1>14. CASE ReleaseUnverified
  <2>1. op' \in Operations
      BY <1>14 DEF ReleaseUnverified, Labels
  <2>2. own' \in Owners
      BY <1>14 DEF ReleaseUnverified, OwnershipStates
  <2>3. hold' \in Holds
      BY <1>14 DEF ReleaseUnverified, Unsettled, Holds
  <2>4. (Placed /\ Recorded /\ Progress /\ Crossing)'
      BY <1>14 DEF ReleaseUnverified
  <2> QED BY <1>14, <2>1, <2>2, <2>3, <2>4 DEF ReleaseUnverified
<1>15. CASE StartWriter
  <2>1. op' \in Operations
      BY <1>15 DEF StartWriter, Labels
  <2>2. own' \in Owners
      BY <1>15 DEF StartWriter, OwnershipStates
  <2>3. hold' \in Holds
      BY <1>15 DEF StartWriter, NewGeneration, Holds
  <2>4. writer' \in Writers
      BY <1>15 DEF StartWriter, Frames
  <2>5. (Placed /\ Recorded /\ Progress /\ Crossing)'
      BY <1>15 DEF StartWriter
  <2> QED BY <1>15, <2>1, <2>2, <2>3, <2>4, <2>5 DEF StartWriter
<1>16. CASE FirstWrite
  <2>1. hold' \in Holds
    <3>1. hold' = hold \/ hold' = [hold EXCEPT !.awaited = TRUE]
        BY <1>16 DEF FirstWrite
    <3>2. CASE hold' = [hold EXCEPT !.awaited = TRUE]
        BY <3>2 DEF Holds
    <3> QED BY <3>1, <3>2
  <2>2. op' \in Operations
      BY SMTT(60), <1>16 DEF FirstWrite, Labels, BoundedSections, AcquireSections
  <2>3. (Placed /\ Recorded /\ Progress /\ Crossing)'
      BY <1>16 DEF FirstWrite
  <2> QED BY <1>16, <2>1, <2>2, <2>3 DEF FirstWrite
<1>17. CASE FirstWriteFault
  <2>1. op' \in Operations
      BY <1>17 DEF FirstWriteFault, FaultAndFinish, Labels
  <2>2. own' \in Owners
      BY <1>17, EnterSafeHoldKeeps DEF FirstWriteFault, FaultAndFinish,
         OwnershipStates
  <2>3. hold' \in Holds
      BY <1>17, EnterSafeHoldKeeps DEF FirstWriteFault, FaultAndFinish
  <2>4. (Placed /\ Recorded /\ Progress /\ Crossing)'
      BY <1>17, EnterSafeHoldKeeps DEF FirstWriteFault, FaultAndFinish,
         OwnerKept
  <2> QED BY <1>17, <2>1, <2>2, <2>3, <2>4 DEF FirstWriteFault, FaultAndFinish
<1> QED BY ZenonT(60), <1>1, <1>2, <1>3, <1>4, <1>5, <1>6, <1>7, <1>8, <1>9, <1>10, <1>11, <1>12, <1>13, <1>14, <1>15, <1>16, <1>17
       DEF Acquire

\* The wait for a settled hold, in all three operations.
LEMMA SettleKeeps ==
    ASSUME OwnerInv, Settle
    PROVE  OwnerInv'
<1> USE DEF OwnerInv, OwnerTypeOK, StreamTypeOK, Placed, Recorded, Progress,
            Crossing, Unlatched, Uncrossed
<1>1. CASE HoldSettles
  <2>1. \/ op' = Idle
        \/ op.name = "release" /\ op' = [op EXCEPT !.at = "holdCheck"]
        \/ op.name = "release" /\ op' = [op EXCEPT !.at = "stop"]
      BY <1>1 DEF HoldSettles
  <2>2. op.at \in {"settle", "resettle"} /\ UNCHANGED <<streamVars, dds, mode, arbiter>>
      BY <1>1 DEF HoldSettles
  <2>3. {"idle", "holdCheck", "stop"} \subseteq Labels
      BY DEF Labels, BoundedSections, ReleaseSections
  <2>4. op' \in Operations
    <3>1. CASE op' = Idle
        BY <2>3, <3>1
    <3>2. ASSUME NEW label \in Labels, op' = [op EXCEPT !.at = label]
          PROVE  op' \in Operations
        BY <3>2
    <3> QED BY <2>1, <2>3, <3>1, <3>2
  <2>5. OwnerTypeOK'
      BY <2>2, <2>4
  <2>6. (Placed /\ Recorded /\ Progress /\ Crossing)'
      BY <2>1, <2>2
  <2> QED BY <2>5, <2>6
<1>2. CASE HoldDoesNotSettle
    BY <1>2 DEF HoldDoesNotSettle, Labels, BoundedSections, AcquireSections,
       ReleaseSections
<1>3. CASE SettleFault
  <2>1. op' \in Operations
      BY <1>3 DEF SettleFault, FaultAndFinish, Labels
  <2>2. own' \in Owners
      BY <1>3, EnterSafeHoldKeeps DEF SettleFault, FaultAndFinish,
         OwnershipStates
  <2>3. hold' \in Holds
      BY <1>3, EnterSafeHoldKeeps DEF SettleFault, FaultAndFinish
  <2>4. (Placed /\ Recorded /\ Progress /\ Crossing)'
      BY <1>3, EnterSafeHoldKeeps DEF SettleFault, FaultAndFinish, OwnerKept
  <2> QED BY <1>3, <2>1, <2>2, <2>3, <2>4 DEF SettleFault, FaultAndFinish
<1> QED BY <1>1, <1>2, <1>3
       DEF Settle

\* _close_owned_publisher_with_deadline.
LEMMA CloseKeeps ==
    ASSUME OwnerInv, Close
    PROVE  OwnerInv'
<1> USE DEF OwnerInv, OwnerTypeOK, StreamTypeOK, Placed, Recorded, Progress,
            Crossing, Unlatched, Uncrossed
<1>1. CASE CloseStarts
  <2>1. /\ op' \in Operations
        /\ op.at = "close" /\ op'.at = "closing"
        /\ op'.name = op.name /\ op'.handed = op.handed
    <3>1. CASE dds.close = "none"
        BY <1>1, <3>1 DEF CloseStarts, Labels
    <3>2. CASE dds.close # "none"
        BY ZenonT(60), <1>1, <3>2 DEF CloseStarts, Labels
    <3> QED BY <3>1, <3>2
  <2>2. /\ dds' \in Endpoints /\ dds'.open = dds.open
        /\ dds' = NoEndpoint => dds = NoEndpoint
        /\ dds = NoEndpoint => dds' = dds \/ own.epoch \/ arbiter # "free"
        /\ dds'.close = "closed" => dds.close = "closed"
      BY <1>1 DEF CloseStarts
  <2>3. UNCHANGED <<streamVars, mode, arbiter>>
      BY <1>1 DEF CloseStarts
  <2>4. OwnerTypeOK'
      BY <2>1, <2>2, <2>3
  <2>5. (Placed /\ Recorded /\ Progress /\ Crossing)'
      BY <2>1, <2>2, <2>3
  <2> QED BY <2>4, <2>5
<1>2. CASE CloseSucceeds
    BY <1>2 DEF CloseSucceeds, AfterClose, Labels, BoundedSections,
       AcquireSections, ReleaseSections
<1>3. CASE CloseRetries
  <2>1. op' \in Operations
      BY <1>3 DEF CloseRetries, Labels
  <2>2. dds' \in Endpoints
      BY <1>3 DEF CloseRetries
  <2>3. (Placed /\ Recorded /\ Progress /\ Crossing)'
      BY <1>3 DEF CloseRetries
  <2> QED BY <1>3, <2>1, <2>2, <2>3 DEF CloseRetries
<1>4. CASE CloseFails
  <2>1. op' \in Operations
      BY ZenonT(60), <1>4 DEF CloseFails, AfterClose, Labels, BoundedSections,
         ReleaseSections
  <2>2. handoff' \in Handoffs
      BY <1>4 DEF CloseFails, AfterClose
  <2>3. (Placed /\ Recorded /\ Progress /\ Crossing)'
      BY <1>4 DEF CloseFails, AfterClose
  <2> QED BY <1>4, <2>1, <2>2, <2>3 DEF CloseFails, AfterClose
<1>5. CASE CloseCancelled
    BY <1>5 DEF CloseCancelled, Labels
<1> QED BY <1>1, <1>2, <1>3, <1>4, <1>5
       DEF Close

\* _restore_high_level_mode.
LEMMA RestoreKeeps ==
    ASSUME OwnerInv, Restore
    PROVE  OwnerInv'
<1> USE DEF OwnerInv, OwnerTypeOK, StreamTypeOK, Placed, Recorded, Progress,
            Crossing, Unlatched, Uncrossed
<1>1. CASE AlreadyRestored
  <2>1. op' \in Operations
      BY <1>1 DEF AlreadyRestored, Handed, Labels
  <2>2. (Placed /\ Recorded /\ Progress /\ Crossing)'
      BY <1>1 DEF AlreadyRestored, Handed
  <2> QED BY <1>1, <2>1, <2>2 DEF AlreadyRestored, Handed
<1>2. CASE SelectMode
  <2>1. \/ op' = [op EXCEPT !.at = "selected"]
        \/ op' = [op EXCEPT !.handed = FALSE, !.at = "abortUnlock"] /\ op.name = "acquire"
        \/ op' = [op EXCEPT !.handed = FALSE, !.at = "drain"] /\ op.name # "acquire"
      BY <1>2 DEF SelectMode, Handed
  <2>2. op.at = "restore" /\ own.restore /\ mode' \in {mode, "ours"}
      BY <1>2 DEF SelectMode
  <2>3. UNCHANGED <<streamVars, dds, arbiter>>
      BY <1>2 DEF SelectMode
  <2>4. /\ op' \in Operations
        /\ op'.name = op.name /\ ~op'.handed
        /\ \/ op'.at = "selected"
           \/ op'.at = "abortUnlock" /\ op.name = "acquire"
           \/ op'.at = "drain" /\ op.name = "release"
    <3>1. ~op.handed /\ op.name \in {"acquire", "release"}
        BY <2>2
    <3>2. {"selected", "abortUnlock", "drain"} \subseteq Labels
        BY DEF Labels
    <3>3. CASE op' = [op EXCEPT !.at = "selected"]
        BY <3>1, <3>2, <3>3
    <3>4. CASE op' = [op EXCEPT !.handed = FALSE, !.at = "abortUnlock"] /\ op.name = "acquire"
        BY <3>1, <3>2, <3>4
    <3>5. CASE op' = [op EXCEPT !.handed = FALSE, !.at = "drain"] /\ op.name # "acquire"
        BY <3>1, <3>2, <3>5
    <3> QED BY ONLY <2>1, <3>3, <3>4, <3>5
  <2>5. OwnerTypeOK'
      BY <2>2, <2>3, <2>4
  <2>6. (Placed /\ Recorded /\ Progress)'
      BY <2>2, <2>3, <2>4
  <2>7. Crossing'
      BY <2>2, <2>3, <2>4
  <2> QED BY <2>5, <2>6, <2>7
<1>3. CASE NotRestored
  <2>1. op' \in Operations
      BY <1>3 DEF NotRestored, Handed, Labels
  <2>2. (Placed /\ Recorded /\ Progress /\ Crossing)'
      BY <1>3 DEF NotRestored, Handed
  <2> QED BY <1>3, <2>1, <2>2 DEF NotRestored, Handed
<1> QED BY <1>1, <1>2, <1>3
       DEF Restore

\* _abort_pre_release_acquisition.
LEMMA AbortKeeps ==
    ASSUME OwnerInv, Abort
    PROVE  OwnerInv'
<1> USE DEF OwnerInv, OwnerTypeOK, StreamTypeOK, Placed, Recorded, Progress,
            Crossing, Unlatched, Uncrossed
<1>1. CASE StartAbort
  <2>1. op' \in Operations
      BY <1>1 DEF StartAbort, Labels
  <2>2. own' \in Owners
      BY <1>1 DEF StartAbort, OwnershipStates
  <2>3. (Placed /\ Recorded /\ Progress /\ Crossing)'
      BY <1>1 DEF StartAbort
  <2> QED BY <1>1, <2>1, <2>2, <2>3 DEF StartAbort
<1>2. CASE AbortKeepsEndpoint
  <2>1. op' \in Operations
      BY <1>2 DEF AbortKeepsEndpoint, AfterFailedClose, Labels
  <2>2. own' \in Owners
      BY <1>2 DEF AbortKeepsEndpoint, AfterFailedClose, OwnershipStates
  <2>3. hold' \in Holds
      BY <1>2 DEF AbortKeepsEndpoint, AfterFailedClose, Unsettled, Holds
  <2>4. dds' \in Endpoints
      BY <1>2 DEF AbortKeepsEndpoint, AfterFailedClose
  <2>5. (Placed /\ Recorded /\ Progress /\ Crossing)'
      BY <1>2 DEF AbortKeepsEndpoint, AfterFailedClose
  <2> QED BY <1>2, <2>1, <2>2, <2>3, <2>4, <2>5 DEF AbortKeepsEndpoint, AfterFailedClose
<1>3. CASE AbortCloses
  <2>1. op' \in Operations
      BY <1>3 DEF AbortCloses, Labels
  <2>2. own' \in Owners
      BY <1>3 DEF AbortCloses, OwnershipStates
  <2>3. hold' \in Holds
      BY <1>3 DEF AbortCloses, Unsettled, Holds
  <2>4. dds' \in Endpoints
      BY <1>3 DEF AbortCloses
  <2>5. (Placed /\ Recorded /\ Progress /\ Crossing)'
      BY <1>3 DEF AbortCloses
  <2> QED BY <1>3, <2>1, <2>2, <2>3, <2>4, <2>5 DEF AbortCloses
<1>4. CASE AbortUnlocks
    BY <1>4 DEF AbortUnlocks, ReleaseEpoch, ClearReleasedOwner, Holds,
       Unsettled, NewGeneration, OwnershipStates, Frames, Labels
<1>5. CASE AbortKeepsEpoch
  <2>1. op' \in Operations
      BY <1>5 DEF AbortKeepsEpoch, KeepsLock, Labels
  <2>2. own' \in Owners
      BY ZenonT(60), <1>5 DEF AbortKeepsEpoch, KeepsLock, OwnershipStates
  <2>3. hold' \in Holds
      BY <1>5 DEF AbortKeepsEpoch, KeepsLock, Unsettled, Holds
  <2>4. (Placed /\ Recorded /\ Progress /\ Crossing)'
      BY SMTT(60), <1>5 DEF AbortKeepsEpoch, KeepsLock
  <2> QED BY <1>5, <2>1, <2>2, <2>3, <2>4 DEF AbortKeepsEpoch, KeepsLock
<1> QED BY <1>1, <1>2, <1>3, <1>4, <1>5
       DEF Abort

\* release, from the permit to the unlock.
LEMMA ReleaseKeeps ==
    ASSUME OwnerInv, Release
    PROVE  OwnerInv'
<1> USE DEF OwnerInv, OwnerTypeOK, StreamTypeOK, Placed, Recorded, Progress,
            Crossing, Unlatched, Uncrossed
<1>1. CASE StartHandback
  <2>1. op' \in Operations
      BY ZenonT(60), <1>1 DEF StartHandback, Releasing, Labels
  <2>2. own' \in Owners
      BY <1>1 DEF StartHandback, Releasing, OwnershipStates
  <2>3. hold' \in Holds
      BY <1>1 DEF StartHandback, Releasing, Unsettled, Holds
  <2>4. (Placed /\ Recorded /\ Progress /\ Crossing)'
      BY <1>1 DEF StartHandback, Releasing
  <2> QED BY <1>1, <2>1, <2>2, <2>3, <2>4 DEF StartHandback, Releasing
<1>2. CASE StartRelease
  <2>1. \/ ForceHold
        \/ own' = own /\ hold' = hold
      BY <1>2 DEF StartRelease
  <2>2. own' \in Owners /\ OwnerKept
    <3>1. own' = own \/ \E fault \in BOOLEAN : own' = HeldOwner(fault)
        BY <2>1 DEF ForceHold
    <3> QED BY <3>1, HeldTypes DEF OwnerKept
  <2>3. hold' \in Holds
    <3>1. \A fault \in BOOLEAN : Held(fault, TRUE) \in Holds
        BY HeldTypes
    <3>2. \/ hold' = hold
          \/ \E fault \in BOOLEAN : hold' = [Held(fault, TRUE) EXCEPT !.awaited = TRUE]
        BY <2>1 DEF ForceHold
    <3>3. ASSUME NEW fault \in BOOLEAN, hold' = [Held(fault, TRUE) EXCEPT !.awaited = TRUE]
          PROVE  hold' \in Holds
        BY ONLY <3>1, <3>3 DEF Holds
    <3>4. CASE hold' = hold
        BY <3>4
    <3> QED BY <3>2, <3>3, <3>4
  <2>4. \E label \in {"settle", "holdCheck", "stop"} : op' = Releasing(label)
      BY <1>2 DEF StartRelease
  <2>5. /\ op' \in Operations
        /\ op'.name = "release" /\ op'.at \in {"settle", "holdCheck", "stop"} /\ ~op'.handed
      BY ZenonT(60), <2>4 DEF Releasing, Labels, BoundedSections, ReleaseSections
  <2>6. UNCHANGED <<feedback, writer, last, callbacks, handoff, dds, mode, arbiter>>
      BY <1>2 DEF StartRelease
  <2>7. OwnerTypeOK'
      BY <2>2, <2>3, <2>5, <2>6
  <2>8. (Placed /\ Recorded /\ Progress /\ Crossing)'
      BY <2>2, <2>5, <2>6 DEF OwnerKept
  <2> QED BY <2>7, <2>8
<1>3. CASE HoldCheck
  <2>1. op' \in Operations
      BY <1>3 DEF HoldCheck, Labels, BoundedSections, ReleaseSections
  <2>2. hold' \in Holds
      BY <1>3 DEF HoldCheck, Holds
  <2>3. (Placed /\ Recorded /\ Progress /\ Crossing)'
      BY <1>3 DEF HoldCheck
  <2> QED BY <1>3, <2>1, <2>2, <2>3 DEF HoldCheck
<1>4. CASE StopRefused
    BY <1>4 DEF StopRefused, Labels
<1>5. CASE StopWriter
  <2>1. op' \in Operations
      BY <1>5 DEF StopWriter, Labels
  <2>2. own' \in Owners
      BY <1>5 DEF StopWriter, OwnershipStates
  <2>3. writer' \in Writers
      BY <1>5 DEF StopWriter, Frames
  <2>4. (Placed /\ Recorded /\ Progress /\ Crossing)'
      BY <1>5 DEF StopWriter
  <2> QED BY <1>5, <2>1, <2>2, <2>3, <2>4 DEF StopWriter
<1>6. CASE Join
    BY <1>6 DEF Join, WriterAlive, Labels, BoundedSections, AcquireSections,
       ReleaseSections
<1>7. CASE JoinFault
  <2>1. op' \in Operations
      BY <1>7 DEF JoinFault, FaultAndFinish, Labels
  <2>2. own' \in Owners
      BY <1>7, EnterSafeHoldKeeps DEF JoinFault, FaultAndFinish,
         OwnershipStates
  <2>3. hold' \in Holds
      BY <1>7, EnterSafeHoldKeeps DEF JoinFault, FaultAndFinish
  <2>4. (Placed /\ Recorded /\ Progress /\ Crossing)'
      BY <1>7, EnterSafeHoldKeeps DEF JoinFault, FaultAndFinish, OwnerKept
  <2> QED BY <1>7, <2>1, <2>2, <2>3, <2>4 DEF JoinFault, FaultAndFinish
<1>8. CASE PostStopFence
    BY <1>8 DEF PostStopFence, Labels, BoundedSections, AcquireSections,
       ReleaseSections
<1>9. CASE FenceFails
  <2>1. CASE writer.thread = "none"
      BY <1>9, <2>1 DEF FenceFails, Labels
  <2>2. CASE writer.thread # "none"
    <3>1. EnterSafeHold(TRUE) /\ writer' = Started /\ handoff' \in {handoff, NoHandoff}
        BY <1>9, <2>2 DEF FenceFails
    <3>2. own' \in Owners /\ hold' \in Holds /\ OwnerKept
        BY <3>1, EnterSafeHoldKeeps
    <3>3. UNCHANGED <<feedback, last, callbacks, dds, mode, arbiter>> /\ op' = Idle
        BY <1>9, <2>2 DEF FenceFails
    <3>4. writer' \in Writers /\ op' \in Operations
        BY <3>1, <3>3 DEF Frames, Labels
    <3>5. handoff' \in Handoffs
      <4>1. CASE handoff' = handoff
          BY <4>1
      <4>2. CASE handoff' = NoHandoff
          BY <4>2
      <4> QED BY <3>1, <4>1, <4>2
    <3>6. OwnerTypeOK'
        BY <3>2, <3>3, <3>4, <3>5
    <3>7. (Placed /\ Recorded /\ Progress /\ Crossing)'
        BY <2>2, <3>1, <3>2, <3>3 DEF OwnerKept
    <3> QED BY <3>6, <3>7
  <2> QED BY <2>1, <2>2
<1>10. CASE HandoffFence
  <2> DEFINE crossed == [i \in DOMAIN callbacks |-> [callbacks[i] EXCEPT !.crossing = TRUE]]
  <2>1. callbacks' = crossed
      BY <1>10 DEF HandoffFence
  <2>2. callbacks' \in Seq(Callback) /\ Len(callbacks') <= MaxCallbacks
    <3>1. callbacks \in Seq(Callback) /\ Len(callbacks) <= MaxCallbacks
        OBVIOUS
    <3>2. DOMAIN callbacks = 1..Len(callbacks) /\ Len(callbacks) \in Nat
        BY <3>1, LenProperties
    <3>3. \A j \in DOMAIN callbacks : callbacks[j] \in Callback
        BY <3>1
    <3>4. \A j \in DOMAIN callbacks : crossed[j] \in Callback
        BY ONLY <3>3 DEF Callback
    <3>5. crossed \in Seq(Callback) /\ Len(crossed) = Len(callbacks)
        BY <3>2, <3>4
    <3> QED BY <2>1, <3>1, <3>5
  <2>3. op' \in Operations /\ handoff' \in Handoffs
      BY <1>10 DEF HandoffFence, Labels
  <2>4. writer' \in Writers
      BY <1>10 DEF HandoffFence, Frames
  <2>5. OwnerTypeOK'
      BY <1>10, <2>2, <2>3, <2>4 DEF HandoffFence
  <2>6. (Placed /\ Recorded /\ Progress /\ Crossing)'
      BY <1>10 DEF HandoffFence
  <2> QED BY <2>5, <2>6
<1>11. CASE CloseFault
  <2>1. op' \in Operations
      BY <1>11 DEF CloseFault, AfterFailedClose, Labels
  <2>2. own' \in Owners
      BY <1>11 DEF CloseFault, AfterFailedClose, OwnershipStates
  <2>3. dds' \in Endpoints
      BY <1>11 DEF CloseFault, AfterFailedClose
  <2>4. (Placed /\ Recorded /\ Progress /\ Crossing)'
      BY <1>11 DEF CloseFault, AfterFailedClose
  <2> QED BY <1>11, <2>1, <2>2, <2>3, <2>4 DEF CloseFault, AfterFailedClose
<1>12. CASE CloseCommit
  <2>1. op' \in Operations
      BY <1>12 DEF CloseCommit, Labels
  <2>2. own' \in Owners
      BY <1>12 DEF CloseCommit, OwnershipStates
  <2>3. hold' \in Holds
      BY <1>12 DEF CloseCommit, Unsettled, Holds
  <2>4. handoff' \in Handoffs
      BY <1>12 DEF CloseCommit
  <2>5. dds' \in Endpoints
      BY <1>12 DEF CloseCommit
  <2>6. (Placed /\ Recorded /\ Progress /\ Crossing)'
      BY <1>12 DEF CloseCommit
  <2> QED BY <1>12, <2>1, <2>2, <2>3, <2>4, <2>5, <2>6 DEF CloseCommit
<1>13. CASE Drain
    BY <1>13 DEF Drain, Drained, AfterDrain, Labels, BoundedSections,
       AcquireSections, ReleaseSections
<1>14. CASE DrainFault
  <2>1. op' \in Operations
      BY <1>14 DEF DrainFault, Labels
  <2>2. own' \in Owners
      BY ZenonT(60), <1>14 DEF DrainFault, OwnershipStates
  <2>3. hold' \in Holds
      BY <1>14 DEF DrainFault, Unsettled, Holds
  <2>4. (Placed /\ Recorded /\ Progress /\ Crossing)'
      BY <1>14 DEF DrainFault
  <2> QED BY <1>14, <2>1, <2>2, <2>3, <2>4 DEF DrainFault
<1>15. CASE ResetHandoff
    BY <1>15 DEF ResetHandoff, AfterDrain, Labels, BoundedSections,
       AcquireSections, ReleaseSections
<1>16. CASE HandbackFault
  <2>1. op' \in Operations
      BY <1>16 DEF HandbackFault, Labels
  <2>2. own' \in Owners
      BY ZenonT(60), <1>16 DEF HandbackFault, OwnershipStates
  <2>3. hold' \in Holds
      BY <1>16 DEF HandbackFault, Unsettled, Holds
  <2>4. (Placed /\ Recorded /\ Progress /\ Crossing)'
      BY <1>16 DEF HandbackFault
  <2> QED BY <1>16, <2>1, <2>2, <2>3, <2>4 DEF HandbackFault
<1>17. CASE Unlock
    BY <1>17 DEF Unlock, ReleaseEpoch, ClearReleasedOwner, Holds, Unsettled,
       NewGeneration, OwnershipStates, Frames, WriterAlive, Labels
<1>18. CASE UnlockFails
  <2>1. op' \in Operations
      BY <1>18 DEF UnlockFails, KeepsLock, Labels
  <2>2. own' \in Owners
      BY <1>18 DEF UnlockFails, KeepsLock, OwnershipStates
  <2>3. hold' \in Holds
      BY <1>18 DEF UnlockFails, KeepsLock, Unsettled, Holds
  <2>4. (Placed /\ Recorded /\ Progress /\ Crossing)'
      BY <1>18 DEF UnlockFails, KeepsLock
  <2> QED BY <1>18, <2>1, <2>2, <2>3, <2>4 DEF UnlockFails, KeepsLock
<1> QED BY ZenonT(60), <1>1, <1>2, <1>3, <1>4, <1>5, <1>6, <1>7, <1>8, <1>9, <1>10, <1>11, <1>12, <1>13, <1>14, <1>15, <1>16, <1>17, <1>18
       DEF Release

\* revoke, a guard that is not taken in time, and the thread of Close.
LEMMA RevokeAndOthersKeep ==
    ASSUME OwnerInv, Revoke \/ GuardTimesOut \/ CloseReturns
    PROVE  OwnerInv'
<1> USE DEF OwnerInv, OwnerTypeOK, StreamTypeOK, Placed, Recorded, Progress,
            Crossing, Unlatched, Uncrossed
<1>1. CASE Revoke
  <2>1. own' = HeldOwner(own.state = "FAULT")
      BY <1>1 DEF Revoke, ForceHold
  <2>2. own' \in Owners /\ OwnerKept
      BY <2>1, HeldTypes DEF OwnerKept
  <2>3. hold' \in Holds
    <3>1. ForceHold
        BY <1>1 DEF Revoke
    <3> QED BY <3>1, ForcedHoldType
  <2>4. op' = Idle \/ op' = [Idle EXCEPT !.name = "revoke", !.at = "settle"]
      BY <1>1 DEF Revoke
  <2>5. /\ op' \in Operations
        /\ op'.name \in {"none", "revoke"} /\ op'.at \in {"idle", "settle"} /\ ~op'.handed
    <3>1. CASE op' = Idle
        BY <3>1 DEF Labels
    <3>2. CASE op' = [Idle EXCEPT !.name = "revoke", !.at = "settle"]
        BY <3>2 DEF Labels
    <3> QED BY <2>4, <3>1, <3>2
  <2>6. UNCHANGED <<feedback, writer, last, callbacks, handoff, dds, mode, arbiter>>
      BY <1>1 DEF Revoke
  <2>7. OwnerTypeOK'
      BY <2>2, <2>3, <2>5, <2>6
  <2>8. (Placed /\ Recorded /\ Progress /\ Crossing)'
      BY <2>2, <2>5, <2>6 DEF OwnerKept
  <2> QED BY <2>7, <2>8
<1>2. CASE GuardTimesOut
    BY <1>2 DEF GuardTimesOut, InBoundedSection, Labels
<1>3. CASE CloseReturns
  <2>1. \E left \in {FALSE, dds.open} :
            \/ dds' = [open |-> FALSE, close |-> "closed"]
            \/ dds' = [open |-> left, close |-> "raised"]
      BY <1>3 DEF CloseReturns
  <2>2. dds' \in Endpoints /\ (dds'.close = "closed" => ~dds'.open)
    <3>1. CASE dds' = [open |-> FALSE, close |-> "closed"]
        BY <3>1
    <3>2. ASSUME NEW left \in BOOLEAN, dds' = [open |-> left, close |-> "raised"]
          PROVE  dds' \in Endpoints /\ dds'.close # "closed"
        BY <3>2
    <3>3. dds.open \in BOOLEAN
        OBVIOUS
    <3> QED BY ONLY <2>1, <3>1, <3>2, <3>3
  <2>3. dds.close = "running" /\ UNCHANGED <<streamVars, mode, arbiter, op>>
      BY <1>3 DEF CloseReturns
  <2>4. OwnerTypeOK'
      BY <2>2, <2>3
  <2>5. (Placed /\ Recorded /\ Progress /\ Crossing)'
      BY <2>2, <2>3
  <2> QED BY <2>4, <2>5
<1> QED BY <1>1, <1>2, <1>3
       DEF Revoke

-----------------------------------------------------------------------------
(* The theorems *)

\* All lifecycle operations.
LEMMA LifecycleKeeps ==
    ASSUME OwnerInv, Lifecycle
    PROVE  OwnerInv'
BY AcquireKeeps, SettleKeeps, CloseKeeps, RestoreKeeps, AbortKeeps, ReleaseKeeps,
   RevokeAndOthersKeep DEF Lifecycle

\* OwnerInv is inductive.
LEMMA NextKeeps ==
    ASSUME OwnerInv, [Next]_vars
    PROVE  OwnerInv'
<1>1. CASE UNCHANGED vars
    BY <1>1
       DEF vars, OwnerInv, OwnerTypeOK, StreamTypeOK, Placed, Recorded, Progress,
           Crossing, Unlatched, Uncrossed
<1>2. CASE Next
    BY <1>2, StreamKeeps, LifecycleKeeps, RevokeAndOthersKeep DEF Next
<1> QED BY <1>1, <1>2

\* It therefore holds in every reachable state.
LEMMA AlwaysOwnerInv == Spec => []OwnerInv
BY InitOwnerInv, NextKeeps, PTL DEF Spec

\* Every variable stays in its type: no operation is left at a place that
\* belongs to no section, and the callbacks in flight stay within their bound.
THEOREM TypeCorrect == Spec => []OwnerTypeOK
BY AlwaysOwnerInv, PTL DEF OwnerInv

\* The host-wide lock outlives the DDS endpoint: _abort_pre_release_acquisition
\* and release give the epoch back only after a Close that returned.
THEOREM LockOutlivesEndpoint == Spec => []LockCoversEndpoint
<1>1. OwnerInv => LockCoversEndpoint
    BY DEF OwnerInv, Recorded, LockCoversEndpoint
<1> QED BY <1>1, AlwaysOwnerInv, PTL

\* The writer thread runs only between a confirmed ReleaseMode and the fence
\* of a release, for a recorded owner of a recorded publisher.
THEOREM BridgeIsOneController == Spec => []OneController
<1>1. OwnerInv => OneController
    BY DEF OwnerInv, Recorded, OneController, WriterAlive
<1> QED BY <1>1, AlwaysOwnerInv, PTL

\* Whatever failed after ReleaseMode, the epoch and the service to select are
\* still recorded for a later release.
THEOREM TakenCanBeGivenBack == Spec => []TakenIsRecoverable
<1>1. OwnerInv => TakenIsRecoverable
    BY DEF OwnerInv, Recorded, TakenIsRecoverable
<1> QED BY <1>1, AlwaysOwnerInv, PTL

\* Writer, endpoint and taken service stay covered by what is recorded.
THEOREM CustodyHolds == Spec => []Custody
BY BridgeIsOneController, LockOutlivesEndpoint, TakenCanBeGivenBack, PTL DEF Custody

\* _restore_high_level_mode selects the service only with the endpoint closed
\* and the writer gone.
THEOREM ServiceAfterClose == Spec => HandbackAfterClose
<1>1. ASSUME Next, mode # "ours", mode' = "ours"
      PROVE  SelectMode
  <2>1. ~ReleaseMode
      BY <1>1 DEF ReleaseMode
  <2>2. mode' # mode
      BY <1>1
  <2> HIDE DEF At, Goto, Finish, Idle
  <2>3. CASE StreamNext /\ UNCHANGED lifeVars
      BY <2>2, <2>3
  <2>4. CASE CloseReturns
      BY <2>2, <2>4 DEF CloseReturns
  <2>5. CASE Acquire
      BY <2>1, <2>2, <2>5
         DEF Acquire, StartAcquire, GrantRefused, Granted, GrantCancelled, Revalidate,
             RevalidateFails, ReleaseUncommitted, InitPublisher, FinalFence,
             CommitPublisher, CheckModeBefore, CrossBoundary, ConfirmRelease,
             ReleaseUnverified, StartWriter, FirstWrite, FirstWriteFault, FaultAndFinish
  <2>6. CASE Revoke \/ Settle \/ Close \/ GuardTimesOut
      BY <2>2, <2>6
         DEF Revoke, Settle, HoldSettles, HoldDoesNotSettle, SettleFault, FaultAndFinish,
             Close, CloseStarts, CloseSucceeds, CloseRetries, CloseFails, CloseCancelled,
             GuardTimesOut
  <2>7. CASE Restore
      BY <2>2, <2>7 DEF Restore, AlreadyRestored, NotRestored
  <2>8. CASE Abort
      BY <2>2, <2>8
         DEF Abort, StartAbort, AbortKeepsEndpoint, AbortCloses, AbortUnlocks,
             AbortKeepsEpoch
  <2>9. CASE Release
      BY <2>2, <2>9
         DEF Release, StartHandback, StartRelease, HoldCheck, StopRefused, StopWriter,
             Join, JoinFault, FaultAndFinish, PostStopFence, FenceFails, HandoffFence,
             CloseFault, CloseCommit, Drain, DrainFault, ResetHandoff, HandbackFault,
             Unlock, UnlockFails
  <2> QED BY <1>1, <2>3, <2>4, <2>5, <2>6, <2>7, <2>8, <2>9 DEF Next, Lifecycle
<1>2. ASSUME OwnerInv, SelectMode
      PROVE  ~dds.open /\ ~WriterAlive
    BY <1>2 DEF SelectMode, OwnerInv, Recorded, Progress, WriterAlive
<1>3. OwnerInv /\ [Next]_vars
        => [mode # "ours" /\ mode' = "ours" => ~dds.open /\ ~WriterAlive]_vars
    BY <1>1, <1>2
<1> QED BY <1>3, AlwaysOwnerInv, PTL DEF Spec, HandbackAfterClose

\* The epoch goes back to the arbiter as the last step of an operation: no
\* endpoint, no writer, no callback that crossed the Close, and an owner has
\* its robot back in the service (release, _abort_pre_release_acquisition).
THEOREM UnlockComesLast == Spec => UnlockIsLast
<1>1. ASSUME OwnerInv, Next, arbiter # "free", arbiter' = "free"
      PROVE  Unlock \/ AbortUnlocks \/ GrantCancelled \/ RevalidateFails
  <2>1. arbiter' # arbiter
      BY <1>1
  <2> HIDE DEF At, Goto, Finish, Idle
  <2>2. CASE StreamNext /\ UNCHANGED lifeVars
      BY <2>1, <2>2
  <2>3. CASE CloseReturns
      BY <2>1, <2>3 DEF CloseReturns
  <2>4. CASE Acquire
      BY <1>1, <2>4
         DEF Acquire, StartAcquire, GrantRefused, Granted, Revalidate, InitPublisher,
             FinalFence, CommitPublisher, CheckModeBefore, CrossBoundary, ReleaseMode,
             ConfirmRelease, ReleaseUnverified, StartWriter, FirstWrite,
             FirstWriteFault, FaultAndFinish
  <2>5. CASE Revoke \/ Settle \/ Close \/ Restore \/ GuardTimesOut
      BY <2>1, <2>5
         DEF Revoke, Settle, HoldSettles, HoldDoesNotSettle, SettleFault, FaultAndFinish,
             Close, CloseStarts, CloseSucceeds, CloseRetries, CloseFails, CloseCancelled,
             Restore, AlreadyRestored, SelectMode, NotRestored, GuardTimesOut
  <2>6. CASE Abort
      BY <1>1, <2>6
         DEF Abort, StartAbort, AbortKeepsEndpoint, AbortCloses, AbortKeepsEpoch, KeepsLock
  <2>7. CASE Release
      BY <1>1, <2>7
         DEF Release, StartHandback, StartRelease, HoldCheck, StopRefused, StopWriter,
             Join, JoinFault, FaultAndFinish, PostStopFence, FenceFails, HandoffFence,
             CloseFault, CloseCommit, Drain, DrainFault, ResetHandoff, HandbackFault,
             UnlockFails, KeepsLock
  <2> QED BY <1>1, <2>2, <2>3, <2>4, <2>5, <2>6, <2>7 DEF Next, Lifecycle
<1> DEFINE isLast == ~dds.open /\ ~WriterAlive /\ (own.epoch => mode = "ours" /\ Uncrossed)
<1>2. ASSUME OwnerInv, Unlock \/ AbortUnlocks
      PROVE  isLast
    BY <1>2
       DEF Unlock, AbortUnlocks, OwnerInv, OwnerTypeOK, StreamTypeOK, Placed, Recorded,
           Progress, Crossing, Unlatched, WriterAlive
<1>3. ASSUME OwnerInv, RevalidateFails
      PROVE  isLast
    BY <1>3 DEF RevalidateFails, OwnerInv, Recorded, Progress, WriterAlive
<1>4. OwnerInv /\ [Next]_vars => [arbiter # "free" /\ arbiter' = "free" => isLast]_vars
    BY <1>1, <1>2, <1>3 DEF GrantCancelled
<1> QED BY <1>4, AlwaysOwnerInv, PTL DEF Spec, UnlockIsLast

\* A release gives back the service after the endpoint, the lock after both.
THEOREM ReleaseOrdered == Spec => ReleaseInOrder
BY ServiceAfterClose, UnlockComesLast DEF ReleaseInOrder

-----------------------------------------------------------------------------
(***************************************************************************)
(* The safe hold: HoldIsGenuine and RevokeMeansHold.  That the status says *)
(* "active" only after an accepted write is not enough, since the mailbox, *)
(* the writer and the status are changed by different tasks: a target      *)
(* waits only for a running writer that streams, a generation that was     *)
(* written and has no target behind it is the last frame on the wire, and  *)
(* the writer that could replace it is gone before the hand-over.          *)
(***************************************************************************)

Commanding == {"HOLDING", "MPC_ACTIVE"}
BeforeStart == NoWriterAt \union {"grant", "restore", "selected", "abortUnlock"}

\* The mailbox: a target is staged for a writer that runs and streams.
Mailbox == hold.target # "none" => WriterAlive /\ own.state = "MPC_ACTIVE"
Running == own.state \in Commanding => WriterAlive /\ ~writer.stop

\* The frame the writer is handing to DDS under the guard.
InWrite ==
    /\ Writing => WriterAlive
    /\ writer.at = "mpc" => hold.target # "none"
    /\ writer.at = "hold" => hold.target = "none"

OnTheWire ==
    /\ hold.target = "none" /\ hold.written => last = "hold"
    /\ hold.active => hold.written /\ hold.target = "none"

\* An owner that has not started its writer has written nothing.
Unheld ==
    /\ own.state = "OBSERVE_ONLY" => ~own.epoch /\ ~hold.written
    /\ op.name = "acquire" /\ op.at \in BeforeStart
        => ~hold.written /\ own.state \in {"OBSERVE_ONLY", "ACQUIRING", "FAULT"}
    /\ At("acquire", "grant") => own.state = "OBSERVE_ONLY"

\* Behind the fence no writer is left.
Stopped ==
    /\ op.at \in {"fence", "finalFence"} => ~WriterAlive
    /\ handoff.on => writer.thread = "none"

Revoked == At("revoke", "settle") => own.state \in {"SAFE_HOLD", "FAULT"}

HoldInv ==
    /\ Mailbox /\ Running /\ InWrite /\ OnTheWire
    /\ Unheld /\ Stopped /\ FrozenHoldStands /\ Revoked

LEMMA InitHoldInv == Init => HoldInv
BY DEF Init, StreamInit, HoldInv, Mailbox, Running, InWrite, OnTheWire, Unheld, Stopped,
       FrozenHoldStands, Revoked, NewGeneration, NoWriter, NoHandoff, Idle, At, Commanding,
       Writing, Frames

\* What of OwnerInv the hold rests on.
LEMMA OwnerFacts ==
    ASSUME OwnerInv
    PROVE  /\ own \in Owners /\ hold \in Holds /\ feedback \in Feedback /\ writer \in Writers
           /\ handoff \in Handoffs /\ op \in Operations /\ callbacks \in Seq(Callback)
           /\ writer.thread # "none" => own.epoch /\ own.publisher
           /\ op.at \in NoWriterAt => writer.thread = "none"
           /\ op.at \in {"restore", "selected", "abortUnlock"} \union HandedBack => writer.thread = "none"
           /\ op.name = "acquire" /\ op.at \in NoWriterAt => ~handoff.on
           /\ handoff.on => own.epoch
           /\ op.name = "release" /\ op.at \in Closing \union {"closeCommit"}
                => own.epoch /\ own.publisher /\ handoff.on
           /\ op.at \in HandedBack \union Closed => op.name = "release"
           /\ op.at \in BeforeCommit \union Checked \union
                 {"final", "commit", "check", "abort", "abortKeep", "abortClosed", "abortUnlock"}
                => op.name = "acquire"
BY DEF OwnerInv, OwnerTypeOK, StreamTypeOK, Placed, Recorded, Progress, Crossing, Unlatched,
       Closing, Closed, HandedBack, Checked, NoWriterAt, BeforeCommit, Aborting

\* Entering the hold starts a generation, or keeps one that has no target.
LEMMA HeldGives ==
    ASSUME own \in Owners, hold \in Holds, NEW fault \in BOOLEAN, NEW force \in BOOLEAN
    PROVE  /\ HeldOwner(fault) \in Owners /\ Held(fault, force) \in Holds
           /\ HeldOwner(fault).state = (IF fault THEN "FAULT" ELSE "SAFE_HOLD")
           /\ HeldOwner(fault).epoch = own.epoch /\ HeldOwner(fault).publisher = own.publisher
           /\ Held(fault, force).target = "none"
           /\ Held(fault, force).active => Held(fault, force).written
           /\ Held(fault, force).written => hold.written /\ hold.target = "none"
BY DEF HeldOwner, Held, NewGeneration, Owners, OwnershipStates, Holds

LEMMA StreamKeepsHold ==
    ASSUME OwnerInv, HoldInv, StreamNext, UNCHANGED lifeVars
    PROVE  HoldInv'
<1> USE DEF HoldInv, Mailbox, Running, InWrite, OnTheWire, Unheld, Stopped, FrozenHoldStands,
            Revoked, At, Commanding, Writing, Frames, WriterAlive, GuardFree, lifeVars
<1>0. /\ own \in Owners /\ hold \in Holds /\ writer \in Writers /\ handoff \in Handoffs
      /\ writer.thread # "none" => own.epoch /\ own.publisher
      /\ handoff.on => own.epoch
  BY OwnerFacts
<1> USE DEF Owners, Holds, Writers, Handoffs
<1>1. CASE Submit
  BY <1>0, <1>1 DEF Submit
<1>2. CASE TargetExpires
  BY <1>0, <1>2 DEF TargetExpires
<1>3. CASE WriterLoops
  BY <1>0, <1>3 DEF WriterLoops
<1>4. CASE WriterExits
  BY <1>0, <1>4 DEF WriterExits
<1>5. CASE WriterOverruns \/ WriterDies \/ WriteFails \/ CycleFaults
  <2>1. own' = HeldOwner(TRUE) /\ hold' = Held(TRUE, FALSE) /\ UNCHANGED <<last, handoff>>
    BY <1>5 DEF WriterOverruns, WriterDies, WriteFails, CycleFaults, Cycle, EnterSafeHold
  <2>2. writer' \in {writer, [writer EXCEPT !.at = "check"], [writer EXCEPT !.at = "hold"],
                     [writer EXCEPT !.thread = "dead", !.at = "check"]}
    BY <1>5 DEF WriterOverruns, WriterDies, WriteFails, CycleFaults, Cycle
  <2>3. WriterAlive /\ writer.thread' # "none" /\ writer'.at # "mpc" /\ (Writing' => WriterAlive')
    BY ZenonT(60), <1>0, <1>5 DEF WriterOverruns, WriterDies, WriteFails, CycleFaults, Cycle
  <2>q. QED
    BY <1>0, <2>1, <2>3, HeldGives
<1>6. CASE CycleDropsTarget
  <2>1. /\ own' = HeldOwner(FALSE) /\ hold' = Held(FALSE, FALSE) /\ UNCHANGED <<last, handoff>>
        /\ writer' = [writer EXCEPT !.at = "hold"] /\ WriterAlive /\ hold.target = "stale"
    BY <1>6 DEF CycleDropsTarget, Cycle, EnterSafeHold
  <2>q. QED  BY <1>0, <2>1, HeldGives
<1>7. CASE CycleBuildsFrame
  BY <1>0, <1>7 DEF CycleBuildsFrame, Cycle
<1>8. CASE WriteMpc
  <2>1. /\ writer.at = "mpc" /\ last' = "mpc" /\ UNCHANGED handoff
        /\ writer' = [writer EXCEPT !.at = "check", !.wrote = TRUE]
    BY <1>8 DEF WriteMpc, Accepted
  <2>2. CASE UNCHANGED <<own, hold>>
    BY <1>0, <2>1, <2>2
  <2>3. CASE own' = HeldOwner(TRUE) /\ hold' = Held(TRUE, FALSE)
    BY <1>0, <2>1, <2>3, HeldGives
  <2>q. QED  BY <1>8, <2>2, <2>3 DEF WriteMpc, EnterSafeHold
<1>9. CASE \E reached \in BOOLEAN : WriteHold(reached)
  <2>1. /\ writer.at = "hold" /\ last' = "hold" /\ UNCHANGED <<own, handoff>>
        /\ writer' = [writer EXCEPT !.at = "check", !.wrote = TRUE]
        /\ hold'.target = hold.target /\ hold'.written /\ hold'.active
    BY <1>0, <1>9 DEF WriteHold, Accepted
  <2>2. op.at \in BeforeStart /\ op.name = "acquire" => writer.thread = "none"
    BY <1>0, OwnerFacts DEF BeforeStart
  <2>q. QED  BY <1>0, <2>1, <2>2
<1>10. CASE BeginCallback
  BY <1>0, <1>10 DEF BeginCallback
<1>11. CASE \E i \in 1..MaxCallbacks, b \in BOOLEAN : ProcessFaulty(i, b) \/ ProcessValid(i, b)
  <2>0. GuardFree /\ UNCHANGED <<writer, last>>
        /\ handoff'.on = handoff.on /\ handoff'.frozen = handoff.frozen
    BY ZenonT(60), <1>0, <1>11 DEF ProcessFaulty, ProcessValid, RecordHandoffFault
  <2>1. CASE RecordHandoffFault /\ handoff.on
    BY <1>0, <2>0, <2>1 DEF RecordHandoffFault
  <2>2. CASE /\ own'.state = own.state /\ own'.epoch = own.epoch
             /\ hold'.target = hold.target /\ hold'.written = hold.written
             /\ hold'.reached = hold.reached /\ (hold'.active => hold.active)
    BY <1>0, <2>0, <2>2
  <2>3. CASE /\ EndpointActive /\ ~handoff.on /\ own' = HeldOwner(TRUE)
             /\ \E s \in BOOLEAN : hold' = [Held(TRUE, FALSE) EXCEPT !.settled = s]
    <3>1. Held(TRUE, FALSE) \in Holds  BY <1>0, HeldGives
    <3>2. /\ hold'.target = Held(TRUE, FALSE).target /\ hold'.written = Held(TRUE, FALSE).written
          /\ hold'.active = Held(TRUE, FALSE).active
      BY <2>3, <3>1
    <3>3. own'.state = "FAULT" /\ own'.epoch = own.epoch /\ hold'.target = "none"
          /\ (hold'.active => hold'.written) /\ (hold'.written => hold.written /\ hold.target = "none")
      BY <1>0, <2>3, <3>2, HeldGives
    <3>q. QED  BY <1>0, <2>0, <2>3, <3>3 DEF EndpointActive
  <2>4. ASSUME NEW i \in 1..MaxCallbacks, NEW b \in BOOLEAN, ProcessFaulty(i, b) PROVE HoldInv'
    <3>0. callbacks[i] \in Callback  BY <2>4, OwnerFacts DEF ProcessFaulty
    <3>1. CASE HandoffRelevant(callbacks[i])
      BY <2>1, <2>4, <3>1 DEF ProcessFaulty, HandoffRelevant
    <3>2. CASE ~HandoffRelevant(callbacks[i]) /\ EndpointActive
      <4>1. ~handoff.on  BY <1>0, <3>2 DEF HandoffRelevant, EndpointActive
      <4>2. own' = HeldOwner(TRUE)
            /\ hold' = [Held(TRUE, FALSE) EXCEPT !.settled = @ /\ ~(b /\ ~callbacks[i].late)]
        BY <2>4, <3>2 DEF ProcessFaulty
      <4>3. (Held(TRUE, FALSE).settled /\ ~(b /\ ~callbacks[i].late)) \in BOOLEAN  OBVIOUS
      <4>q. QED  BY <2>3, <3>2, <4>1, <4>2, <4>3
    <3>3. CASE ~HandoffRelevant(callbacks[i]) /\ ~EndpointActive
      BY <1>0, <2>2, <2>4, <3>3 DEF ProcessFaulty
    <3>q. QED  BY <3>1, <3>2, <3>3
  <2>5. ASSUME NEW i \in 1..MaxCallbacks, NEW b \in BOOLEAN, ProcessValid(i, b) PROVE HoldInv'
    <3>1. \/ RecordHandoffFault /\ handoff.on
          \/ /\ own' = own \/ own' = [own EXCEPT !.fault = FALSE]
             /\ \/ hold' = hold
                \/ \E s \in BOOLEAN : hold' = [hold EXCEPT !.settled = s]
                \/ hold' = [hold EXCEPT !.active = FALSE, !.settled = FALSE]
      BY <1>0, <2>5 DEF ProcessValid, HandoffRelevant, IsSettled
    <3>q. QED  BY ZenonT(60), <1>0, <2>1, <2>2, <3>1
  <2>q. QED  BY <1>11, <2>4, <2>5
<1>q. QED
  BY <1>1, <1>2, <1>3, <1>4, <1>5, <1>6, <1>7, <1>8, <1>9, <1>10, <1>11
     DEF StreamNext, WriterStep, CallbackStep

\* acquire: nothing is written before the writer starts.
LEMMA AcquireKeepsHold ==
    ASSUME OwnerInv, HoldInv, Acquire
    PROVE  HoldInv'
<1> USE DEF HoldInv, Mailbox, Running, InWrite, OnTheWire, Unheld, Stopped, FrozenHoldStands,
            Revoked, At, Commanding, Writing, Frames, WriterAlive, GuardFree, Goto, Finish, Idle
<1>0. /\ own \in Owners /\ hold \in Holds /\ writer \in Writers /\ handoff \in Handoffs
      /\ op \in Operations /\ (writer.thread # "none" => own.epoch /\ own.publisher)
      /\ op.at \in NoWriterAt => writer.thread = "none"
      /\ op.at \in {"restore", "selected", "abortUnlock"} \union HandedBack => writer.thread = "none"
      /\ op.name = "acquire" /\ op.at \in NoWriterAt => ~handoff.on
      /\ handoff.on => own.epoch
  BY OwnerFacts
<1>h. /\ BeforeStart = {"revalidate", "init", "abort", "abortKeep", "abortClosed", "close", "closing",
             "precheck", "release", "confirm", "releaseFault", "start", "closeFault", "closeCommit",
             "final", "commit", "check", "grant", "restore", "selected", "abortUnlock"}
  BY DEF BeforeStart, NoWriterAt, BeforeCommit, Aborting, Closing, Checked, Closed
<1> USE DEF Owners, Holds, Writers, Handoffs, Operations
<1>1. CASE StartAcquire
  <2>1. /\ UNCHANGED <<own, hold, writer, last, handoff>>
        /\ own.state = "OBSERVE_ONLY" /\ op'.name = "acquire" /\ op'.at = "grant"
    BY <1>1 DEF StartAcquire, streamVars
  <2>q. QED  BY <1>0, <1>h, <2>1
<1>2. CASE GrantRefused
  BY <1>0, <1>h, <1>2 DEF GrantRefused, streamVars
<1>3. CASE Granted
  BY <1>0, <1>h, <1>3 DEF Granted, streamVars
<1>4. CASE GrantCancelled \/ RevalidateFails
  <2>1. ~hold.written /\ writer.thread = "none" /\ op' = Idle /\ UNCHANGED last
    BY <1>0, <1>h, <1>4 DEF GrantCancelled, RevalidateFails, ReleaseUncommitted, NoWriterAt, BeforeCommit
  <2>2. CASE UNCHANGED <<own, hold, writer, handoff>>
    BY <1>0, <1>h, <2>1, <2>2
  <2>3. CASE /\ own'.state = "FAULT" /\ ~hold'.written /\ hold'.target = "none" /\ ~hold'.active
             /\ writer' = [writer EXCEPT !.thread = "none"] /\ ~handoff'.on
    BY <1>0, <1>h, <2>1, <2>3
  <2>4. ReleaseUncommitted  BY <1>4 DEF GrantCancelled, RevalidateFails
  <2>5. CASE /\ own' = [state |-> "FAULT", fault |-> TRUE, epoch |-> TRUE,
                       publisher |-> FALSE, released |-> FALSE, restore |-> TRUE]
             /\ hold' = [Unsettled(hold) EXCEPT !.target = "none"]
             /\ writer' = [writer EXCEPT !.thread = "none"] /\ handoff' = NoHandoff
    <3>1. hold'.target = "none" /\ hold'.written = hold.written /\ ~hold'.active
      BY <1>0, <2>5 DEF Unsettled
    <3>q. QED  BY <2>1, <2>3, <2>5, <3>1 DEF NoHandoff
  <2>q. QED  BY <2>2, <2>4, <2>5 DEF ReleaseUncommitted
<1>5. CASE Revalidate
  BY <1>0, <1>h, <1>5 DEF Revalidate, NoHandoff
<1>6. CASE InitPublisher
  BY <1>0, <1>h, <1>6 DEF InitPublisher, streamVars
<1>7. CASE FinalFence \/ CrossBoundary
  BY <1>0, <1>h, <1>7 DEF FinalFence, CrossBoundary, streamVars
<1>8. CASE CommitPublisher
  BY <1>0, <1>h, <1>8 DEF CommitPublisher
<1>9. CASE CheckModeBefore
  BY <1>0, <1>h, <1>9 DEF CheckModeBefore
<1>10. CASE ReleaseMode \/ ConfirmRelease
  BY <1>0, <1>h, <1>10 DEF ReleaseMode, ConfirmRelease, streamVars
<1>11. CASE ReleaseUnverified
  BY <1>0, <1>h, <1>11 DEF ReleaseUnverified, Faulted, Unsettled, NoWriterAt, Checked
<1>12. CASE StartWriter
  BY <1>0, <1>h, <1>12 DEF StartWriter, NewGeneration, Started, NoWriterAt, Checked
<1>13. CASE FirstWrite
  BY <1>0, <1>h, <1>13 DEF FirstWrite
<1>14. CASE FirstWriteFault
  BY <1>0, <1>h, <1>14, HeldGives DEF FirstWriteFault, FaultAndFinish, EnterSafeHold
<1>q. QED
  BY <1>1, <1>2, <1>3, <1>4, <1>5, <1>6, <1>7, <1>8, <1>9, <1>10, <1>11, <1>12, <1>13, <1>14 DEF Acquire

\* The wait for a hold that was written and settles.
LEMMA SettleKeepsHold ==
    ASSUME OwnerInv, HoldInv, Settle
    PROVE  HoldInv'
<1> USE DEF HoldInv, Mailbox, Running, InWrite, OnTheWire, Unheld, Stopped, FrozenHoldStands,
            Revoked, At, Commanding, Writing, Frames, WriterAlive, GuardFree, Goto, Finish, Idle
<1>0. /\ own \in Owners /\ hold \in Holds /\ writer \in Writers /\ handoff \in Handoffs
      /\ op \in Operations /\ (writer.thread # "none" => own.epoch /\ own.publisher)
      /\ op.at \in NoWriterAt => writer.thread = "none"
      /\ op.at \in {"restore", "selected", "abortUnlock"} \union HandedBack => writer.thread = "none"
      /\ op.name = "acquire" /\ op.at \in NoWriterAt => ~handoff.on
      /\ handoff.on => own.epoch
  BY OwnerFacts
<1>h. /\ BeforeStart = {"revalidate", "init", "abort", "abortKeep", "abortClosed", "close", "closing",
             "precheck", "release", "confirm", "releaseFault", "start", "closeFault", "closeCommit",
             "final", "commit", "check", "grant", "restore", "selected", "abortUnlock"}
  BY DEF BeforeStart, NoWriterAt, BeforeCommit, Aborting, Closing, Checked, Closed
<1> USE DEF Owners, Holds, Writers, Handoffs, Operations
<1>1. CASE HoldSettles
  BY <1>0, <1>h, <1>1 DEF HoldSettles, streamVars
<1>2. CASE HoldDoesNotSettle
  BY <1>0, <1>h, <1>2 DEF HoldDoesNotSettle, streamVars
<1>3. CASE SettleFault
  BY <1>0, <1>h, <1>3, HeldGives DEF SettleFault, FaultAndFinish, EnterSafeHold
<1>q. QED
  BY <1>1, <1>2, <1>3 DEF Settle

\* Close and the way back to the service leave the hold alone.
LEMMA CloseKeepsHold ==
    ASSUME OwnerInv, HoldInv, Close \/ Restore
    PROVE  HoldInv'
<1> USE DEF HoldInv, Mailbox, Running, InWrite, OnTheWire, Unheld, Stopped, FrozenHoldStands,
            Revoked, At, Commanding, Writing, Frames, WriterAlive, GuardFree, Goto, Finish, Idle
<1>0. /\ own \in Owners /\ hold \in Holds /\ writer \in Writers /\ handoff \in Handoffs
      /\ op \in Operations /\ (writer.thread # "none" => own.epoch /\ own.publisher)
      /\ op.at \in NoWriterAt => writer.thread = "none"
      /\ op.at \in {"restore", "selected", "abortUnlock"} \union HandedBack => writer.thread = "none"
      /\ op.name = "acquire" /\ op.at \in NoWriterAt => ~handoff.on
      /\ handoff.on => own.epoch
  BY OwnerFacts
<1>h. /\ BeforeStart = {"revalidate", "init", "abort", "abortKeep", "abortClosed", "close", "closing",
             "precheck", "release", "confirm", "releaseFault", "start", "closeFault", "closeCommit",
             "final", "commit", "check", "grant", "restore", "selected", "abortUnlock"}
  BY DEF BeforeStart, NoWriterAt, BeforeCommit, Aborting, Closing, Checked, Closed
<1> USE DEF Owners, Holds, Writers, Handoffs, Operations
<1>1. CASE CloseStarts
  <2>1. /\ UNCHANGED <<own, hold, writer, last, handoff>>
        /\ op.at = "close" /\ op'.at = "closing" /\ op'.name = op.name /\ op'.closed = op.closed
    BY ZenonT(60), <1>0, <1>1 DEF CloseStarts, streamVars
  <2>q. QED  BY <1>0, <1>h, <2>1
<1>2. CASE CloseSucceeds
  BY <1>0, <1>h, <1>2 DEF CloseSucceeds, streamVars, AfterClose
<1>3. CASE CloseRetries
  BY <1>0, <1>h, <1>3 DEF CloseRetries, streamVars
<1>4. CASE CloseFails
  BY <1>0, <1>h, <1>4 DEF CloseFails, AfterClose
<1>5. CASE CloseCancelled
  BY <1>0, <1>h, <1>5 DEF CloseCancelled, streamVars
<1>6. CASE AlreadyRestored \/ NotRestored
  <2>1. /\ UNCHANGED <<own, hold, writer, last, handoff>>
        /\ op.at \in {"restore", "selected"} /\ op'.name = op.name /\ op'.closed = op.closed
        /\ op'.at \in (IF op.name = "acquire" THEN {"abortUnlock"} ELSE {"drain"})
    BY ZenonT(60), <1>0, <1>6 DEF AlreadyRestored, NotRestored, Handed, streamVars
  <2>q. QED  BY <1>0, <1>h, <2>1
<1>7. CASE SelectMode
  <2>1. /\ UNCHANGED <<own, hold, writer, last, handoff>>
        /\ op.at \in {"restore", "selected"} /\ op'.name = op.name /\ op'.closed = op.closed
        /\ op'.at \in (IF op.name = "acquire" THEN {"abortUnlock"} ELSE {"drain"}) \union {"selected"}
    BY ZenonT(60), <1>0, <1>7 DEF SelectMode, Handed, streamVars
  <2>q. QED  BY <1>0, <1>h, <2>1
<1>q. QED
  BY <1>1, <1>2, <1>3, <1>4, <1>5, <1>6, <1>7 DEF Close, Restore

\* An aborted acquisition wrote nothing.
LEMMA AbortKeepsHold ==
    ASSUME OwnerInv, HoldInv, Abort
    PROVE  HoldInv'
<1> USE DEF HoldInv, Mailbox, Running, InWrite, OnTheWire, Unheld, Stopped, FrozenHoldStands,
            Revoked, At, Commanding, Writing, Frames, WriterAlive, GuardFree, Goto, Finish, Idle
<1>0. /\ own \in Owners /\ hold \in Holds /\ writer \in Writers /\ handoff \in Handoffs
      /\ op \in Operations /\ (writer.thread # "none" => own.epoch /\ own.publisher)
      /\ op.at \in NoWriterAt => writer.thread = "none"
      /\ op.at \in {"restore", "selected", "abortUnlock"} \union HandedBack => writer.thread = "none"
      /\ op.name = "acquire" /\ op.at \in NoWriterAt => ~handoff.on
      /\ handoff.on => own.epoch
  BY OwnerFacts
<1>h. /\ BeforeStart = {"revalidate", "init", "abort", "abortKeep", "abortClosed", "close", "closing",
             "precheck", "release", "confirm", "releaseFault", "start", "closeFault", "closeCommit",
             "final", "commit", "check", "grant", "restore", "selected", "abortUnlock"}
  BY DEF BeforeStart, NoWriterAt, BeforeCommit, Aborting, Closing, Checked, Closed
<1> USE DEF Owners, Holds, Writers, Handoffs, Operations
<1>1. CASE StartAbort
  BY <1>0, <1>h, <1>1 DEF StartAbort
<1>2. CASE AbortKeepsEndpoint
  BY <1>0, <1>h, <1>2 DEF AbortKeepsEndpoint, Faulted, Unsettled, NoWriterAt, Aborting
<1>3. CASE AbortCloses
  BY <1>0, <1>h, <1>3 DEF AbortCloses, Faulted, Unsettled, NoWriterAt, Aborting
<1>4. CASE AbortUnlocks
  BY <1>0, <1>h, <1>4 DEF AbortUnlocks, ReleaseEpoch, ClearReleasedOwner, NewGeneration, NoWriter, NoHandoff
<1>5. CASE AbortKeepsEpoch
  BY <1>0, <1>h, <1>5 DEF AbortKeepsEpoch, Faulted, Unsettled
<1>q. QED
  BY <1>1, <1>2, <1>3, <1>4, <1>5 DEF Abort

\* release: the writer stops on a hold, and nothing replaces it behind the fence.
LEMMA ReleaseKeepsHold ==
    ASSUME OwnerInv, HoldInv, Release
    PROVE  HoldInv'
<1> USE DEF HoldInv, Mailbox, Running, InWrite, OnTheWire, Unheld, Stopped, FrozenHoldStands,
            Revoked, At, Commanding, Writing, Frames, WriterAlive, GuardFree, Goto, Finish, Idle
<1>0. /\ own \in Owners /\ hold \in Holds /\ writer \in Writers /\ handoff \in Handoffs
      /\ op \in Operations /\ (writer.thread # "none" => own.epoch /\ own.publisher)
      /\ op.at \in NoWriterAt => writer.thread = "none"
      /\ op.at \in {"restore", "selected", "abortUnlock"} \union HandedBack => writer.thread = "none"
      /\ op.name = "acquire" /\ op.at \in NoWriterAt => ~handoff.on
      /\ handoff.on => own.epoch
  BY OwnerFacts
<1>h. /\ BeforeStart = {"revalidate", "init", "abort", "abortKeep", "abortClosed", "close", "closing",
             "precheck", "release", "confirm", "releaseFault", "start", "closeFault", "closeCommit",
             "final", "commit", "check", "grant", "restore", "selected", "abortUnlock"}
  BY DEF BeforeStart, NoWriterAt, BeforeCommit, Aborting, Closing, Checked, Closed
<1> USE DEF Owners, Holds, Writers, Handoffs, Operations
<1>1. CASE StartHandback
  BY <1>0, <1>h, <1>1 DEF StartHandback, Unsettled, Releasing
<1>2. CASE StartRelease
  <2>1. /\ op = Idle /\ UNCHANGED <<writer, last, handoff>> /\ own.epoch
        /\ op'.name = "release" /\ op'.at \in {"settle", "holdCheck", "stop"}
    <3>1. op = Idle /\ own.epoch /\ UNCHANGED <<writer, last, handoff>>  BY <1>2 DEF StartRelease
    <3>2. op' \in {Releasing("settle"), Releasing("holdCheck"), Releasing("stop")}
      BY <1>2 DEF StartRelease
    <3>q. QED  BY <3>1, <3>2 DEF Releasing
  <2>2. CASE UNCHANGED <<own, hold>>
    BY <1>0, <1>h, <2>1, <2>2
  <2>3. CASE ForceHold
    <3> DEFINE F == Held(own.state = "FAULT", TRUE)
    <3>1. F \in Holds  BY <1>0, HeldGives
    <3>2. /\ hold'.target = F.target /\ hold'.written = F.written /\ hold'.active = F.active
      BY <2>3, <3>1 DEF ForceHold
    <3>3. /\ own'.state \in {"FAULT", "SAFE_HOLD"} /\ own'.epoch = own.epoch
          /\ F.target = "none" /\ (F.active => F.written) /\ (F.written => hold.written /\ hold.target = "none")
      BY <1>0, <2>3, HeldGives DEF ForceHold
    <3>4. GuardFree  BY <1>2 DEF StartRelease
    <3> HIDE DEF F
    <3>q. QED  BY <1>0, <1>h, <2>1, <3>2, <3>3, <3>4
  <2>q. QED  BY <1>2, <2>2, <2>3 DEF StartRelease
<1>3. CASE HoldCheck
  BY <1>0, <1>h, <1>3 DEF HoldCheck
<1>4. CASE StopRefused
  BY <1>0, <1>h, <1>4 DEF StopRefused, streamVars
<1>5. CASE StopWriter
  BY <1>0, <1>h, <1>5 DEF StopWriter
<1>6. CASE Join
  BY <1>0, <1>h, <1>6 DEF Join, streamVars
<1>7. CASE JoinFault
  BY <1>0, <1>h, <1>7, HeldGives DEF JoinFault, FaultAndFinish, EnterSafeHold
<1>8. CASE PostStopFence
  BY <1>0, <1>h, <1>8 DEF PostStopFence, streamVars
<1>9. CASE FenceFails
  <2>1. /\ op' = Idle /\ UNCHANGED last /\ GuardFree /\ op.at \in {"fence", "finalFence"}
    BY <1>9 DEF FenceFails, EnterSafeHold, streamVars
  <2>2. CASE writer.thread = "none" /\ UNCHANGED <<own, hold, writer, last, handoff>>
    BY <1>0, <1>h, <2>1, <2>2
  <2>3. CASE /\ writer.thread # "none" /\ own' = HeldOwner(TRUE) /\ hold' = Held(TRUE, FALSE)
             /\ writer' = Started /\ handoff' \in {handoff, NoHandoff}
    <3>1. own'.state = "FAULT" /\ own'.epoch /\ hold'.target = "none" /\ hold'.active => hold'.written
      BY <1>0, <2>3, HeldGives
    <3>2. ~handoff.on /\ ~handoff'.on  BY <1>0, <2>3 DEF NoHandoff
    <3>q. QED  BY <1>0, <1>h, <2>1, <2>3, <3>1, <3>2, HeldGives DEF Started
  <2>q. QED  BY <1>9, <2>2, <2>3 DEF FenceFails, EnterSafeHold, streamVars
<1>10. CASE HandoffFence
  BY <1>0, <1>h, <1>10 DEF HandoffFence, NoWriter, HoldStands
<1>11. CASE CloseFault
  BY <1>0, <1>h, <1>11 DEF CloseFault, Faulted, NoWriterAt, Closed
<1>12. CASE CloseCommit
  BY <1>0, <1>h, <1>12 DEF CloseCommit, Unsettled, NoWriterAt, Closed
<1>13. CASE Drain
  BY <1>0, <1>h, <1>13 DEF Drain, streamVars, AfterDrain
<1>14. CASE DrainFault
  BY <1>0, <1>h, <1>14 DEF DrainFault, Faulted, Unsettled, HandedBack
<1>15. CASE ResetHandoff
  BY <1>0, <1>h, <1>15 DEF ResetHandoff, NoHandoff, AfterDrain
<1>16. CASE HandbackFault
  BY <1>0, <1>h, <1>16 DEF HandbackFault, Faulted, Unsettled, HandedBack
<1>17. CASE Unlock
  BY <1>0, <1>h, <1>17 DEF Unlock, ReleaseEpoch, ClearReleasedOwner, NewGeneration, NoWriter, NoHandoff
<1>18. CASE UnlockFails
  BY <1>0, <1>h, <1>18 DEF UnlockFails, Faulted, Unsettled, HandedBack
<1>q. QED
  BY <1>1, <1>2, <1>3, <1>4, <1>5, <1>6, <1>7, <1>8, <1>9, <1>10, <1>11, <1>12, <1>13, <1>14, <1>15, <1>16, <1>17, <1>18 DEF Release

\* revoke, a guard that is not taken in time, and the thread of Close.
LEMMA RevokeKeepsHold ==
    ASSUME OwnerInv, HoldInv, Revoke \/ GuardTimesOut \/ CloseReturns
    PROVE  HoldInv'
<1> USE DEF HoldInv, Mailbox, Running, InWrite, OnTheWire, Unheld, Stopped, FrozenHoldStands,
            Revoked, At, Commanding, Writing, Frames, WriterAlive, GuardFree, Goto, Finish, Idle
<1>0. /\ own \in Owners /\ hold \in Holds /\ writer \in Writers /\ handoff \in Handoffs
      /\ op \in Operations /\ (writer.thread # "none" => own.epoch /\ own.publisher)
      /\ op.at \in NoWriterAt => writer.thread = "none"
      /\ op.at \in {"restore", "selected", "abortUnlock"} \union HandedBack => writer.thread = "none"
      /\ op.name = "acquire" /\ op.at \in NoWriterAt => ~handoff.on
      /\ handoff.on => own.epoch
  BY OwnerFacts
<1>h. /\ BeforeStart = {"revalidate", "init", "abort", "abortKeep", "abortClosed", "close", "closing",
             "precheck", "release", "confirm", "releaseFault", "start", "closeFault", "closeCommit",
             "final", "commit", "check", "grant", "restore", "selected", "abortUnlock"}
  BY DEF BeforeStart, NoWriterAt, BeforeCommit, Aborting, Closing, Checked, Closed
<1> USE DEF Owners, Holds, Writers, Handoffs, Operations
<1>1. CASE Revoke
  BY ZenonT(60), <1>0, <1>h, <1>1, HeldGives DEF Revoke, ForceHold
<1>2. CASE GuardTimesOut
  BY <1>0, <1>h, <1>2 DEF GuardTimesOut, streamVars
<1>3. CASE CloseReturns
  BY <1>0, <1>h, <1>3 DEF CloseReturns, streamVars
<1>q. QED
  BY <1>1, <1>2, <1>3 DEF Revoke, GuardTimesOut, CloseReturns

LEMMA NextKeepsHold ==
    ASSUME OwnerInv, HoldInv, [Next]_vars
    PROVE  HoldInv'
<1>1. CASE StreamNext /\ UNCHANGED lifeVars
  BY <1>1, StreamKeepsHold
<1>2. CASE CloseReturns \/ Revoke \/ GuardTimesOut
  BY <1>2, RevokeKeepsHold
<1>3. CASE Acquire
  BY <1>3, AcquireKeepsHold
<1>4. CASE Settle
  BY <1>4, SettleKeepsHold
<1>5. CASE Close \/ Restore
  BY <1>5, CloseKeepsHold
<1>6. CASE Abort
  BY <1>6, AbortKeepsHold
<1>7. CASE Release
  BY <1>7, ReleaseKeepsHold
<1>8. CASE UNCHANGED vars
  BY <1>8
     DEF vars, streamVars, lifeVars, HoldInv, Mailbox, Running, InWrite, OnTheWire, Unheld,
         Stopped, FrozenHoldStands, Revoked, At, Commanding, Writing, Frames, WriterAlive
<1>q. QED
  BY <1>1, <1>2, <1>3, <1>4, <1>5, <1>6, <1>7, <1>8 DEF Next, Lifecycle

LEMMA AlwaysHoldInv == Spec => [](OwnerInv /\ HoldInv)
<1>1. Init => OwnerInv /\ HoldInv
  BY InitOwnerInv, InitHoldInv
<1>2. OwnerInv /\ HoldInv /\ [Next]_vars => (OwnerInv /\ HoldInv)'
  BY NextKeeps, NextKeepsHold
<1>q. QED
  BY <1>1, <1>2, PTL DEF Spec

\* A hold the status claims is the last frame DDS accepted, with no target
\* behind it, and the hold that is settled at the handoff fence is not replaced
\* before the lock is given back (_enter_safe_hold_locked, the write under the
\* guard, and the latch of release).
THEOREM HoldStaysGenuine == Spec => []HoldIsGenuine
<1>1. HoldInv => HoldIsGenuine
  BY DEF HoldInv, HoldIsGenuine, SafeHoldIsOnTheWire, OnTheWire
<1>q. QED
  BY <1>1, AlwaysHoldInv, PTL

\* A revoke returns "OK" only from the wait for a settled hold, and at that
\* moment the last frame on the wire is a hold, no target is staged and the
\* writer is not handing one to DDS (revoke, _wait_for_safe_hold_settled).
THEOREM RevokeLeavesHold == Spec => RevokeMeansHold
<1>1. ASSUME Next, At("revoke", "settle"), op' = Idle
      PROVE  HoldSettles
  <2>1. op.name = "revoke" /\ op.at = "settle" /\ op # Idle
    BY <1>1 DEF At, Idle
  <2>2. ~(StreamNext /\ UNCHANGED lifeVars) /\ ~CloseReturns
    BY <1>1, <2>1 DEF lifeVars, CloseReturns
  <2>3. ~Acquire /\ ~Revoke /\ ~GuardTimesOut
    BY <2>1
       DEF Acquire, StartAcquire, GrantRefused, Granted, GrantCancelled, Revalidate,
           RevalidateFails, InitPublisher, FinalFence, CommitPublisher, CheckModeBefore,
           CrossBoundary, ReleaseMode, ConfirmRelease, ReleaseUnverified, StartWriter,
           FirstWrite, FirstWriteFault, FaultAndFinish, Revoke, GuardTimesOut,
           InBoundedSection, BoundedSections, AcquireSections, ReleaseSections, At
  <2>4. ~Close /\ ~Restore /\ ~Abort
    BY <2>1
       DEF Close, CloseStarts, CloseSucceeds, CloseRetries, CloseFails, CloseCancelled,
           Restore, AlreadyRestored, SelectMode, NotRestored, Abort, StartAbort,
           AbortKeepsEndpoint, AbortCloses, AbortUnlocks, AbortKeepsEpoch, At
  <2>5. ~Release
    BY <2>1
       DEF Release, StartHandback, StartRelease, HoldCheck, StopRefused, StopWriter, Join,
           JoinFault, FaultAndFinish, PostStopFence, FenceFails, HandoffFence, CloseFault,
           CloseCommit, Drain, DrainFault, ResetHandoff, HandbackFault, Unlock,
           UnlockFails, At
  <2>6. ~HoldDoesNotSettle /\ ~SettleFault
    BY <1>1, <2>1 DEF HoldDoesNotSettle, SettleFault, FaultAndFinish, Goto, Idle
  <2>q. QED
    BY <1>1, <2>2, <2>3, <2>4, <2>5, <2>6 DEF Next, Lifecycle, Settle
<1>2. ASSUME HoldInv, HoldSettles, At("revoke", "settle")
      PROVE  last = "hold" /\ hold.target = "none" /\ writer.at # "mpc"
  BY <1>2
     DEF HoldSettles, Settled, HoldInv, Mailbox, Revoked, OnTheWire, GuardFree, Writing, Frames
<1>3. OwnerInv /\ HoldInv /\ [Next]_vars
        => [At("revoke", "settle") /\ op' = Idle =>
               last = "hold" /\ hold.target = "none" /\ writer.at # "mpc"]_vars
  BY <1>1, <1>2
<1>q. QED
  BY <1>3, AlwaysHoldInv, PTL DEF Spec, RevokeMeansHold

-----------------------------------------------------------------------------
(* The arbiter. OneCommander, AuditIsExclusive, EvidenceStands and         *)
(* NoOrphanLock for any number of processes and callers rest on what the   *)
(* host lock says about every use of the robot: Covered.                   *)

USE ArbiterAssumption

Busy(c) == stage[c] # "idle"

\* An unpoisoned descriptor is the operating system's lock; every use holds a
\* descriptor; a lease or an acquisition has it unpoisoned and to itself.
LockIsReal ==
    /\ flock \in open \cup {NoOne}
    /\ \A p \in Process : HoldsLock(p) => flock = p
LeaseCovered == \A p \in Process : leases[p] > 0 => HoldsLock(p) /\ epoch[p] = 0
EpochCovered == \A p \in Process : epoch[p] # 0 => p \in open /\ (HoldsLock(p) => verified[p])
CallCovered ==
    \A c \in Caller : Busy(c) =>
        /\ HoldsLock(home[c])
        /\ leases[home[c]] = 0
        /\ epoch[home[c]] = 0
CallsApart ==
    \A c, d \in Caller : Busy(c) /\ Busy(d) /\ home[c] = home[d] => c = d

Covered ==
    /\ ArbiterTypeOK
    /\ LockIsReal
    /\ LeaseCovered
    /\ EpochCovered
    /\ CallCovered
    /\ CallsApart
    /\ NoOrphanLock

LEMMA InitCovered == ArbiterInit => Covered
BY DEF ArbiterInit, Covered, ArbiterTypeOK, LockIsReal, LeaseCovered, EpochCovered, CallCovered,
       CallsApart, NoOrphanLock, HoldsLock, Busy, Stages

-----------------------------------------------------------------------------
(* Every action keeps it. *)

LEMMA EnterLeaseKeeps ==
    ASSUME Covered, NEW p \in Process, EnterLease(p)
    PROVE  Covered'
<1>1. ArbiterTypeOK'
    BY DEF EnterLease, Locks, lockVars, Note, SportAllowed, Stages, ArbiterTypeOK,
           Covered
<1>2. LockIsReal'
    BY DEF EnterLease, Locks, lockVars, Note, SportAllowed, HoldsLock, LockIsReal,
           Covered
<1>3. LeaseCovered'
    BY DEF EnterLease, Locks, lockVars, Note, SportAllowed, Stages, HoldsLock,
           ArbiterTypeOK, LeaseCovered, Covered
<1>4. EpochCovered'
    BY DEF EnterLease, Locks, lockVars, Note, SportAllowed, HoldsLock,
           EpochCovered, Covered
<1>5. CallCovered'
    BY DEF EnterLease, Locks, lockVars, Note, SportAllowed, HoldsLock, Busy,
           CallCovered, Covered
<1>6. CallsApart'
    BY DEF EnterLease, Locks, lockVars, Note, SportAllowed, Busy, CallsApart,
           Covered
<1>7. NoOrphanLock'
    BY DEF EnterLease, Locks, lockVars, Note, SportAllowed, Stages, HoldsLock,
           Busy, Commands, SportRuns, LowCmdRuns, ArbiterTypeOK, NoOrphanLock,
           Covered
<1> QED BY <1>1, <1>2, <1>3, <1>4, <1>5, <1>6, <1>7 DEF Covered

LEMMA RefuseLeaseKeeps ==
    ASSUME Covered, NEW p \in Process, RefuseLease(p)
    PROVE  Covered'
<1>1. ArbiterTypeOK'
    BY DEF RefuseLease, FailsToLock, SportAllowed, lockVars, Stages, ArbiterTypeOK,
           Covered
<1>2. LockIsReal'
    BY DEF RefuseLease, FailsToLock, SportAllowed, lockVars, HoldsLock,
           LockIsReal, Covered
<1>3. LeaseCovered'
    BY DEF RefuseLease, FailsToLock, SportAllowed, lockVars, HoldsLock,
           LeaseCovered, Covered
<1>4. EpochCovered'
    BY DEF RefuseLease, FailsToLock, SportAllowed, lockVars, HoldsLock,
           EpochCovered, Covered
<1>5. CallCovered'
    BY DEF RefuseLease, FailsToLock, SportAllowed, lockVars, HoldsLock, Busy,
           CallCovered, Covered
<1>6. CallsApart'
    BY DEF RefuseLease, FailsToLock, SportAllowed, lockVars, Busy,
           CallsApart, Covered
<1>7. NoOrphanLock'
    BY DEF RefuseLease, FailsToLock, SportAllowed, lockVars, HoldsLock, Busy,
           Commands, SportRuns, LowCmdRuns, NoOrphanLock, Covered
<1> QED BY <1>1, <1>2, <1>3, <1>4, <1>5, <1>6, <1>7 DEF Covered

LEMMA LeaveLeaseKeeps ==
    ASSUME Covered, NEW p \in Process, LeaveLease(p)
    PROVE  Covered'
<1>1. ArbiterTypeOK'
  <2>1. flock' \in Process \cup {NoOne} /\ open' \subseteq Process /\ poisoned' \subseteq Process
      BY DEF LeaveLease, Unlocks, UnlockRaises, lockVars, Note, Freed, ArbiterTypeOK,
             Covered
  <2>2. leases' \in [Process -> Nat]
      BY DEF LeaveLease, Unlocks, UnlockRaises, lockVars, Note, Freed, ArbiterTypeOK,
             Covered
  <2>3. verified' \in [Process -> BOOLEAN]
      BY DEF LeaveLease, Unlocks, UnlockRaises, lockVars, Note, Freed, ArbiterTypeOK,
             Covered
  <2>4. (epoch \in [Process -> Issued \cup {0}] /\ home \in [Caller -> Process])'
      BY DEF LeaveLease, Unlocks, UnlockRaises, lockVars, Note, Freed, ArbiterTypeOK,
             Covered
  <2>5. stage' \in [Caller -> Stages]
      BY DEF LeaveLease, Unlocks, UnlockRaises, lockVars, Note, Freed, Stages,
             ArbiterTypeOK, Covered
  <2> QED BY <2>1, <2>2, <2>3, <2>4, <2>5 DEF ArbiterTypeOK
<1>2. LockIsReal'
    BY DEF LeaveLease, Unlocks, UnlockRaises, lockVars, Note, Freed, HoldsLock,
           LockIsReal, Covered
<1>3. LeaseCovered'
    BY DEF LeaveLease, Unlocks, UnlockRaises, lockVars, Note, Freed, Stages,
           HoldsLock, ArbiterTypeOK, LeaseCovered, Covered
<1>4. EpochCovered'
    BY DEF LeaveLease, Unlocks, UnlockRaises, lockVars, Note, Freed, HoldsLock,
           ArbiterTypeOK, LeaseCovered, EpochCovered, Covered
<1>5. CallCovered'
    BY DEF LeaveLease, Unlocks, UnlockRaises, lockVars, Note, Freed, HoldsLock,
           Busy, CallCovered, Covered
<1>6. CallsApart'
    BY DEF LeaveLease, Unlocks, UnlockRaises, lockVars, Note, Freed, Busy,
           CallsApart, Covered
<1>7. NoOrphanLock'
    BY DEF LeaveLease, Unlocks, UnlockRaises, lockVars, Note, Freed, Stages,
           HoldsLock, Busy, Commands, SportRuns, LowCmdRuns, ArbiterTypeOK, NoOrphanLock,
           Covered
<1> QED BY <1>1, <1>2, <1>3, <1>4, <1>5, <1>6, <1>7 DEF Covered

LEMMA ProbeKeeps ==
    ASSUME Covered, NEW p \in Process, Probe(p)
    PROVE  Covered'
<1>1. ArbiterTypeOK'
    BY DEF Probe, FailsToLock, Note, SportAllowed, lockVars, Stages, ArbiterTypeOK,
           Covered
<1>2. LockIsReal'
    BY DEF Probe, FailsToLock, Note, SportAllowed, lockVars, HoldsLock,
           LockIsReal, Covered
<1>3. LeaseCovered'
    BY DEF Probe, FailsToLock, Note, SportAllowed, lockVars, HoldsLock,
           LeaseCovered, Covered
<1>4. EpochCovered'
    BY DEF Probe, FailsToLock, Note, SportAllowed, lockVars, Stages, HoldsLock,
           ArbiterTypeOK, EpochCovered, Covered
<1>5. CallCovered'
    BY DEF Probe, FailsToLock, Note, SportAllowed, lockVars, HoldsLock, Busy,
           CallCovered, Covered
<1>6. CallsApart'
    BY DEF Probe, FailsToLock, Note, SportAllowed, lockVars, Busy,
           CallsApart, Covered
<1>7. NoOrphanLock'
    BY DEF Probe, FailsToLock, Note, SportAllowed, lockVars, HoldsLock, Busy,
           Commands, SportRuns, LowCmdRuns, NoOrphanLock, Covered
<1> QED BY <1>1, <1>2, <1>3, <1>4, <1>5, <1>6, <1>7 DEF Covered

LEMMA ReleaseLowLevelKeeps ==
    ASSUME Covered, NEW p \in Process, NEW e \in Issued \ {0}, ReleaseLowLevel(p, e)
    PROVE  Covered'
<1>1. ArbiterTypeOK'
    BY DEF ReleaseLowLevel, Unlocks, UnlockRaises, lockVars, Note, Freed,
           Stages, ArbiterTypeOK, Covered
<1>2. LockIsReal'
    BY DEF ReleaseLowLevel, Unlocks, UnlockRaises, lockVars, Note, Freed,
           HoldsLock, LockIsReal, Covered
<1>3. LeaseCovered'
    BY DEF ReleaseLowLevel, Unlocks, UnlockRaises, lockVars, Note, Freed,
           Stages, HoldsLock, ArbiterTypeOK, LeaseCovered, Covered
<1>4. EpochCovered'
    BY DEF ReleaseLowLevel, Unlocks, UnlockRaises, lockVars, Note, Freed,
           Stages, HoldsLock, ArbiterTypeOK, EpochCovered, Covered
<1>5. CallCovered'
    BY DEF ReleaseLowLevel, Unlocks, UnlockRaises, lockVars, Note, Freed,
           Stages, HoldsLock, Busy, ArbiterTypeOK, CallCovered, Covered
<1>6. CallsApart'
    BY DEF ReleaseLowLevel, Unlocks, UnlockRaises, lockVars, Note, Freed,
           Busy, CallsApart, Covered
<1>7. NoOrphanLock'
    BY DEF ReleaseLowLevel, Unlocks, UnlockRaises, lockVars, Note, Freed,
           Stages, HoldsLock, Busy, Commands, SportRuns, LowCmdRuns, ArbiterTypeOK,
           NoOrphanLock, Covered
<1> QED BY <1>1, <1>2, <1>3, <1>4, <1>5, <1>6, <1>7 DEF Covered

LEMMA RestartKeeps ==
    ASSUME Covered, NEW p \in Process, Restart(p)
    PROVE  Covered'
<1>1. ArbiterTypeOK'
    BY DEF Restart, Freed, Note, Stages, ArbiterTypeOK, Covered
<1>2. LockIsReal'
    BY DEF Restart, Freed, Note, HoldsLock, LockIsReal, Covered
<1>3. LeaseCovered'
    BY DEF Restart, Freed, Note, Stages, HoldsLock, ArbiterTypeOK, LeaseCovered, Covered
<1>4. EpochCovered'
    BY DEF Restart, Freed, Note, Stages, HoldsLock, ArbiterTypeOK, EpochCovered, Covered
<1>5. CallCovered'
    BY DEF Restart, Freed, Note, HoldsLock, Busy, CallCovered, Covered
<1>6. CallsApart'
    BY DEF Restart, Freed, Note, Busy, CallsApart, Covered
<1>7. NoOrphanLock'
    BY DEF Restart, Freed, Note, HoldsLock, Busy, Commands, SportRuns, LowCmdRuns,
           NoOrphanLock, Covered
<1> QED BY <1>1, <1>2, <1>3, <1>4, <1>5, <1>6, <1>7 DEF Covered

LEMMA AcquireLowLevelKeeps ==
    ASSUME Covered, NEW c \in Caller, AcquireLowLevel(c)
    PROVE  Covered'
<1>1. ArbiterTypeOK'
  <2>1. flock' \in Process \cup {NoOne} /\ open' \subseteq Process /\ poisoned' \subseteq Process
      BY DEF AcquireLowLevel, Locks, FailsToLock, Note, HoldsLock, SportAllowed, Goes,
             lockVars, ArbiterTypeOK, Covered
  <2>2. leases' \in [Process -> Nat]
      BY DEF AcquireLowLevel, Locks, FailsToLock, Note, HoldsLock, SportAllowed, Goes,
             lockVars, ArbiterTypeOK, Covered
  <2>3. verified' \in [Process -> BOOLEAN]
      BY DEF AcquireLowLevel, Locks, FailsToLock, Note, HoldsLock, SportAllowed, Goes,
             lockVars, ArbiterTypeOK, Covered
  <2>4. (epoch \in [Process -> Issued \cup {0}] /\ home \in [Caller -> Process])'
      BY DEF AcquireLowLevel, Locks, FailsToLock, Note, HoldsLock, SportAllowed, Goes,
             lockVars, ArbiterTypeOK, Covered
  <2>5. stage' \in [Caller -> Stages]
      BY DEF AcquireLowLevel, Locks, FailsToLock, Note, HoldsLock, SportAllowed, Goes,
             lockVars, Stages, ArbiterTypeOK, Covered
  <2> QED BY <2>1, <2>2, <2>3, <2>4, <2>5 DEF ArbiterTypeOK
<1>2. LockIsReal'
    BY DEF AcquireLowLevel, Locks, FailsToLock, Note, HoldsLock, SportAllowed, Goes,
           lockVars, LockIsReal, Covered
<1>3. LeaseCovered'
    BY DEF AcquireLowLevel, Locks, FailsToLock, Note, HoldsLock, SportAllowed, Goes,
           lockVars, LeaseCovered, Covered
<1>4. EpochCovered'
    BY DEF AcquireLowLevel, Locks, FailsToLock, Note, HoldsLock, SportAllowed, Goes,
           lockVars, Stages, ArbiterTypeOK, EpochCovered, Covered
<1>5. CallCovered'
    BY DEF AcquireLowLevel, Locks, FailsToLock, Note, HoldsLock, SportAllowed, Goes,
           lockVars, Stages, Busy, ArbiterTypeOK, CallCovered, Covered
<1>6. CallsApart'
    BY DEF AcquireLowLevel, Locks, FailsToLock, Note, HoldsLock, SportAllowed, Goes,
           lockVars, Busy, Stages, ArbiterTypeOK, CallCovered, CallsApart, Covered
<1>7. NoOrphanLock'
    BY DEF AcquireLowLevel, Locks, FailsToLock, Note, HoldsLock, SportAllowed, Goes,
           lockVars, Stages, Busy, Commands, SportRuns, LowCmdRuns, ArbiterTypeOK,
           NoOrphanLock, Covered
<1> QED BY <1>1, <1>2, <1>3, <1>4, <1>5, <1>6, <1>7 DEF Covered

LEMMA AuditKeeps ==
    ASSUME Covered, NEW c \in Caller, Audit(c)
    PROVE  Covered'
<1>1. ArbiterTypeOK'
    BY DEF Audit, lockVars, Note, Goes, Stages, ArbiterTypeOK, Covered
<1>2. LockIsReal'
    BY DEF Audit, lockVars, Note, Goes, HoldsLock, LockIsReal, Covered
<1>3. LeaseCovered'
    BY DEF Audit, lockVars, Note, Goes, HoldsLock, LeaseCovered, Covered
<1>4. EpochCovered'
    BY DEF Audit, lockVars, Note, Goes, HoldsLock, Busy, EpochCovered,
           CallCovered, Covered
<1>5. CallCovered'
    BY DEF Audit, lockVars, Note, Goes, HoldsLock, Busy, CallCovered, Covered
<1>6. CallsApart'
    BY DEF Audit, lockVars, Note, Goes, Busy, CallsApart, Covered
<1>7. NoOrphanLock'
    BY DEF Audit, lockVars, Note, Goes, HoldsLock, Busy, Commands, SportRuns,
           LowCmdRuns, NoOrphanLock, Covered
<1> QED BY <1>1, <1>2, <1>3, <1>4, <1>5, <1>6, <1>7 DEF Covered

LEMMA AuditFailedKeeps ==
    ASSUME Covered, NEW c \in Caller, AuditFailed(c)
    PROVE  Covered'
<1>1. ArbiterTypeOK'
    BY DEF AuditFailed, Unlocks, UnlockRaises, Note, Goes, Freed, Stages,
           ArbiterTypeOK, Covered
<1>2. LockIsReal'
    BY DEF AuditFailed, Unlocks, UnlockRaises, Note, Goes, Freed, HoldsLock,
           LockIsReal, Covered
<1>3. LeaseCovered'
    BY DEF AuditFailed, Unlocks, UnlockRaises, Note, Goes, Freed, HoldsLock, Busy,
           LeaseCovered, CallCovered, Covered
<1>4. EpochCovered'
    BY DEF AuditFailed, Unlocks, UnlockRaises, Note, Goes, Freed, HoldsLock, Busy,
           EpochCovered, CallCovered, Covered
<1>5. CallCovered'
    BY DEF AuditFailed, Unlocks, UnlockRaises, Note, Goes, Freed, HoldsLock, Busy,
           Stages, ArbiterTypeOK, CallCovered, CallsApart, Covered
<1>6. CallsApart'
    BY DEF AuditFailed, Unlocks, UnlockRaises, Note, Goes, Freed, Busy,
           CallsApart, Covered
<1>7. NoOrphanLock'
    BY DEF AuditFailed, Unlocks, UnlockRaises, Note, Goes, Freed, HoldsLock, Busy,
           Commands, SportRuns, LowCmdRuns, NoOrphanLock, Covered
<1> QED BY <1>1, <1>2, <1>3, <1>4, <1>5, <1>6, <1>7 DEF Covered

LEMMA RefuseKeeps ==
    ASSUME Covered, NEW c \in Caller, Refuse(c)
    PROVE  Covered'
<1>1. ArbiterTypeOK'
    BY DEF Refuse, Unlocks, UnlockRaises, lockVars, Note, HoldsLock, Goes,
           Disturbed, Freed, Stages, ArbiterTypeOK, Covered
<1>2. LockIsReal'
    BY DEF Refuse, Unlocks, UnlockRaises, lockVars, Note, HoldsLock, Goes,
           Disturbed, Freed, LockIsReal, Covered
<1>3. LeaseCovered'
    BY DEF Refuse, Unlocks, UnlockRaises, lockVars, Note, HoldsLock, Goes,
           Disturbed, Freed, LeaseCovered, Covered
<1>4. EpochCovered'
    BY DEF Refuse, Unlocks, UnlockRaises, lockVars, Note, HoldsLock, Goes,
           Disturbed, Freed, Busy, EpochCovered, CallCovered, Covered
<1>5. CallCovered'
    BY DEF Refuse, Unlocks, UnlockRaises, lockVars, Note, HoldsLock, Goes,
           Disturbed, Freed, Busy, Stages, ArbiterTypeOK, CallCovered, CallsApart,
           Covered
<1>6. CallsApart'
    BY DEF Refuse, Unlocks, UnlockRaises, lockVars, Note, HoldsLock, Goes,
           Disturbed, Freed, Busy, CallsApart, Covered
<1>7. NoOrphanLock'
    BY DEF Refuse, Unlocks, UnlockRaises, lockVars, Note, HoldsLock, Goes,
           Disturbed, Freed, Stages, Busy, Commands, SportRuns, LowCmdRuns,
           ArbiterTypeOK, NoOrphanLock, Covered
<1> QED BY <1>1, <1>2, <1>3, <1>4, <1>5, <1>6, <1>7 DEF Covered

LEMMA GrantKeeps ==
    ASSUME Covered, NEW c \in Caller, Grant(c)
    PROVE  Covered'
<1>1. ArbiterTypeOK'
    BY DEF Grant, lockVars, HoldsLock, Goes, Disturbed, Stages, ArbiterTypeOK, Covered
<1>2. LockIsReal'
    BY DEF Grant, lockVars, HoldsLock, Goes, Disturbed, LockIsReal, Covered
<1>3. LeaseCovered'
    BY DEF Grant, lockVars, HoldsLock, Goes, Disturbed, LeaseCovered, Covered
<1>4. EpochCovered'
    BY DEF Grant, lockVars, HoldsLock, Goes, Disturbed, EpochCovered, Covered
<1>5. CallCovered'
    BY DEF Grant, lockVars, HoldsLock, Goes, Disturbed, Busy, Stages, ArbiterTypeOK,
           CallCovered, CallsApart, Covered
<1>6. CallsApart'
    BY DEF Grant, lockVars, HoldsLock, Goes, Disturbed, Busy, CallsApart, Covered
<1>7. NoOrphanLock'
    BY DEF Grant, lockVars, HoldsLock, Goes, Disturbed, Stages, Busy, Commands,
           SportRuns, LowCmdRuns, ArbiterTypeOK, NoOrphanLock, Covered
<1> QED BY <1>1, <1>2, <1>3, <1>4, <1>5, <1>6, <1>7 DEF Covered

-----------------------------------------------------------------------------
(* The invariant *)

LEMMA StutterKeeps ==
    ASSUME Covered, UNCHANGED arbiterVars
    PROVE  Covered'
<1>1. ArbiterTypeOK' BY DEF arbiterVars, ArbiterTypeOK, Covered
<1>2. LockIsReal' BY DEF arbiterVars, HoldsLock, LockIsReal, Covered
<1>3. LeaseCovered' BY DEF arbiterVars, HoldsLock, LeaseCovered, Covered
<1>4. EpochCovered' BY DEF arbiterVars, HoldsLock, EpochCovered, Covered
<1>5. CallCovered' BY DEF arbiterVars, HoldsLock, Busy, CallCovered, Covered
<1>6. CallsApart' BY DEF arbiterVars, Busy, CallsApart, Covered
<1>7. NoOrphanLock'
    BY DEF arbiterVars, HoldsLock, Commands, SportRuns, LowCmdRuns, NoOrphanLock, Covered
<1> QED BY <1>1, <1>2, <1>3, <1>4, <1>5, <1>6, <1>7 DEF Covered

LEMMA StepKeeps == Covered /\ [ArbiterNext]_arbiterVars => Covered'
<1> SUFFICES ASSUME Covered, [ArbiterNext]_arbiterVars PROVE Covered'
    OBVIOUS
<1>1. CASE UNCHANGED arbiterVars BY <1>1, StutterKeeps
<1>2. ASSUME NEW p \in Process, EnterLease(p) PROVE Covered'
    BY <1>2, EnterLeaseKeeps
<1>3. ASSUME NEW p \in Process, RefuseLease(p) PROVE Covered'
    BY <1>3, RefuseLeaseKeeps
<1>4. ASSUME NEW p \in Process, LeaveLease(p) PROVE Covered'
    BY <1>4, LeaveLeaseKeeps
<1>5. ASSUME NEW p \in Process, Probe(p) PROVE Covered'
    BY <1>5, ProbeKeeps
<1>6. ASSUME NEW p \in Process, NEW e \in Issued \ {0}, ReleaseLowLevel(p, e)
      PROVE  Covered'
    BY <1>6, ReleaseLowLevelKeeps
<1>7. ASSUME NEW p \in Process, Restart(p) PROVE Covered'
    BY <1>7, RestartKeeps
<1>8. ASSUME NEW c \in Caller, AcquireLowLevel(c) PROVE Covered'
    BY <1>8, AcquireLowLevelKeeps
<1>9. ASSUME NEW c \in Caller, Audit(c) PROVE Covered'
    BY <1>9, AuditKeeps
<1>10. ASSUME NEW c \in Caller, AuditFailed(c) PROVE Covered'
    BY <1>10, AuditFailedKeeps
<1>11. ASSUME NEW c \in Caller, Refuse(c) PROVE Covered'
    BY <1>11, RefuseKeeps
<1>12. ASSUME NEW c \in Caller, Grant(c) PROVE Covered'
    BY <1>12, GrantKeeps
<1> QED
    BY <1>1, <1>2, <1>3, <1>4, <1>5, <1>6, <1>7, <1>8, <1>9, <1>10, <1>11, <1>12
       DEF ArbiterNext

LEMMA AlwaysCovered == ArbiterSpec => []Covered
<1> QED BY InitCovered, StepKeeps, PTL DEF ArbiterSpec

\* A use of the robot holds the operating system's lock, which has one holder;
\* a lease excludes an epoch of its own process.
LEMMA CoveredIsExclusive == Covered => OneCommander
<1> SUFFICES ASSUME Covered PROVE OneCommander
    OBVIOUS
<1>1. \A p \in Process : Commands(p) => flock = p
    BY DEF Covered, LockIsReal, LeaseCovered, EpochCovered, HoldsLock, Commands,
           SportRuns, LowCmdRuns
<1>2. \A p \in Process : ~(SportRuns(p) /\ epoch[p] # 0)
    BY DEF Covered, LeaseCovered, SportRuns
<1> QED BY <1>1, <1>2 DEF OneCommander

-----------------------------------------------------------------------------
(* Theorems *)

\* Whatever the processes and their callers do, and whichever unlocks and
\* closes raise, one process of the host commands the robot, with Sport or
\* with LowCmd.
THEOREM Exclusive == ArbiterSpec => []OneCommander
<1> QED BY AlwaysCovered, CoveredIsExclusive, PTL

\* The audit that runs outside the guard, and the wait for the grant after it,
\* see nobody of this host commanding the robot.
THEOREM AuditUndisturbed == ArbiterSpec => []AuditIsExclusive
<1>1. Covered => AuditIsExclusive
  <2> SUFFICES ASSUME Covered, NEW c \in Caller, Busy(c), NEW q \in Process
      PROVE  HoldsLock(home[c]) /\ ~Commands(q)
      BY DEF AuditIsExclusive, Busy, Covered, ArbiterTypeOK, Stages
  <2>1. home[c] \in Process BY DEF Covered, ArbiterTypeOK
  <2>2. HoldsLock(home[c]) /\ leases[home[c]] = 0 /\ epoch[home[c]] = 0
      BY DEF Covered, CallCovered
  <2>3. flock = home[c] BY <2>1, <2>2 DEF Covered, LockIsReal
  <2>4. Commands(q) => flock = q
      BY DEF Covered, LockIsReal, LeaseCovered, EpochCovered, HoldsLock, Commands,
             SportRuns, LowCmdRuns
  <2>5. ~Commands(home[c]) BY <2>2 DEF Commands, SportRuns, LowCmdRuns
  <2> QED BY <2>2, <2>3, <2>4, <2>5
<1> QED BY <1>1, AlwaysCovered, PTL

\* While its epoch and its lock are intact, the owner's writer finds the
\* cached proof of the audit: nobody else's refused call erases it.
THEOREM EvidencePersists == ArbiterSpec => []EvidenceStands
<1>1. Covered => EvidenceStands
    BY DEF Covered, EpochCovered, EvidenceStands, LowCmdRuns, HoldsLock
<1> QED BY <1>1, AlwaysCovered, PTL

\* The audit is undisturbed and its evidence lasts.
THEOREM AuditHolds == ArbiterSpec => []AuditCounts
BY AuditUndisturbed, EvidencePersists, PTL DEF AuditCounts

\* A lock taken for a call that came to nothing is given back or poisoned.
THEOREM LocksReturn == ArbiterSpec => []NoOrphanLock
<1>1. Covered => NoOrphanLock BY DEF Covered
<1> QED BY <1>1, AlwaysCovered, PTL
----------------------------------------------------------------------------
(* The frame of joint commands, for every joint, target and                *)
(* feedback.                                                               *)

LEMMA SizeIsNat == \A n \in Int : Size(n) \in Nat
BY DEF Size

(* How far a joint may move in a cycle. *)
LEMMA StepIsNat ==
  ASSUME NEW j \in JointConfig, Configured(j), NEW elapsed \in Nat
  PROVE  MaxStep(j, elapsed) \in Nat
<1>1. j.delta \in Nat /\ j.dqMax \in Nat
  BY DEF JointConfig, Configured
<1>2. j.dqMax * elapsed \in Nat
  BY <1>1
<1> QED BY <1>1, <1>2 DEF MaxStep, Smaller

LEMMA Clamps ==
  ASSUME NEW low \in Int, NEW high \in Int, low <= high, NEW q \in Int
  PROVE  Clamped(low, high, q) \in low..high
BY DEF Clamped, Larger, Smaller

(* The interval a position is taken from, and that it is not empty. *)
LEMMA PositionInReach ==
  ASSUME NEW j \in JointConfig, Configured(j), NEW was \in j.qMin..j.qMax, NEW want \in Int,
         NEW elapsed \in Nat, NEW fb \in MotorFeedback, NEW usable \in BOOLEAN
  PROVE  LET q == Position(j, was, want, elapsed, fb, usable)
         IN q \in j.qMin..j.qMax /\ Size(q - was) <= MaxStep(j, elapsed)
<1> DEFINE step == MaxStep(j, elapsed)
           low == MoveLow(j, was, elapsed)
           high == MoveHigh(j, was, elapsed)
           fLow == FeasibleLow(j, was, elapsed, fb)
           fHigh == FeasibleHigh(j, was, elapsed, fb)
           q == Position(j, was, want, elapsed, fb, usable)
<1>1. step \in Nat
  BY StepIsNat
<1>2. j.qMin \in Int /\ j.qMax \in Int /\ j.qMin < j.qMax /\ was \in Int /\ j.kp \in Int /\ j.kd * fb.dq \in Int
      /\ j.tau \in Int /\ j.firmware \in Int /\ j.ff \in Int /\ fb.q \in Int
  BY DEF JointConfig, Configured, MotorFeedback
<1>3. low = Larger(j.qMin, was - step) /\ high = Smaller(j.qMax, was + step)
  BY DEF MoveLow, MoveHigh
<1> HIDE DEF step, low, high
<1>4. low \in Int /\ high \in Int /\ low <= high /\ low >= j.qMin /\ low >= was - step /\ high <= j.qMax /\ high <= was + step
  BY <1>1, <1>2, <1>3 DEF Larger, Smaller
<1>5. q \in low..high
  <2>1. CASE usable /\ Feasible(j, was, elapsed, fb) /\ j.kp > 0
    <3>1. Budget(j, fb) \in Int
      BY <1>2, SizeIsNat DEF Budget, Ceiling, Smaller
    <3>2. Budget(j, fb) \div j.kp \in Int
      BY <1>2, <2>1, <3>1
    <3>3. fLow = Larger(low, fb.q - Budget(j, fb) \div j.kp) /\ fHigh = Smaller(high, fb.q + Budget(j, fb) \div j.kp)
      BY DEF FeasibleLow, FeasibleHigh, low, high
    <3>4. fLow <= fHigh
      BY <2>1 DEF Feasible
    <3> HIDE DEF fLow, fHigh
    <3> DEFINE e == Budget(j, fb) \div j.kp
    <3>5. e \in Int /\ fLow = Larger(low, fb.q - e) /\ fHigh = Smaller(high, fb.q + e)
      BY <3>2, <3>3
    <3> HIDE DEF e
    <3>6. fLow \in Int /\ fHigh \in Int /\ fLow >= low /\ fHigh <= high
      BY <1>2, <1>4, <3>5 DEF Larger, Smaller
    <3>7. Clamped(fLow, fHigh, want) \in fLow..fHigh
      BY <3>4, <3>6, Clamps
    <3>8. q = Clamped(fLow, fHigh, want)
      BY <2>1 DEF Position, fLow, fHigh
    <3> QED BY <1>4, <3>6, <3>7, <3>8
  <2>2. CASE ~(usable /\ Feasible(j, was, elapsed, fb) /\ j.kp > 0)
    <3>1. q = Clamped(low, high, want)
      BY <2>2 DEF Position, low, high
    <3> QED BY <1>4, <3>1, Clamps
  <2> QED BY <2>1, <2>2
<1> HIDE DEF q
<1>6. q \in j.qMin..j.qMax /\ Size(q - was) <= step
  BY <1>1, <1>2, <1>4, <1>5 DEF Size
<1> QED BY <1>6 DEF q, step

(* What a factor makes of two ordered numbers. *)
LEMMA Scaling ==
  ASSUME NEW k \in Nat, NEW a \in Int, NEW b \in Int, a <= b
  PROVE  k * a \in Int /\ k * b \in Int /\ k * a <= k * b
<1>1. b - a \in Nat
  OBVIOUS
<1>2. k * (b - a) \in Nat
  BY <1>1
<1>3. k * (b - a) = k * b - k * a
  OBVIOUS
<1> QED BY <1>2, <1>3

(* A position within the budget keeps the torque: software never has to    *)
(* fall back while the feedback is of use.                                 *)
LEMMA FeasibleFits ==
  ASSUME NEW j \in JointConfig, Configured(j), NEW was \in j.qMin..j.qMax, NEW want \in Int,
         NEW elapsed \in Nat, NEW fb \in MotorFeedback, Feasible(j, was, elapsed, fb)
  PROVE  Torque(j, Position(j, was, want, elapsed, fb, TRUE), fb) <= Ceiling(j)
<1> DEFINE q == Position(j, was, want, elapsed, fb, TRUE)
           b == Budget(j, fb)
           e == b \div j.kp
           m == Ceiling(j)
           d == Size(j.kd * fb.dq)
           f == Size(j.ff)
<1>1. /\ j.qMin \in Int /\ j.qMax \in Int /\ was \in Int /\ j.kp \in Nat /\ j.kd * fb.dq \in Int
      /\ j.tau \in Int /\ j.firmware \in Int /\ j.ff \in Int /\ fb.q \in Int
  BY DEF JointConfig, Configured, MotorFeedback
<1>2. m \in Int /\ d \in Nat /\ f \in Nat /\ b = m - d - f /\ b >= 0
  BY <1>1, SizeIsNat DEF Budget, Ceiling, Smaller, Feasible
<1>3. Torque(j, q, fb) = Size(j.kp * (q - fb.q)) + d + f
  BY DEF Torque
<1>4. Size(j.kp * (q - fb.q)) \in Nat /\ Size(j.kp * (q - fb.q)) <= b
  <2>1. CASE j.kp > 0
    <3>1. MoveLow(j, was, elapsed) \in Int /\ MoveHigh(j, was, elapsed) \in Int
      BY <1>1, StepIsNat DEF MoveLow, MoveHigh, Larger, Smaller
    <3>2. b \in Nat /\ e \in Nat /\ j.kp * e <= b
      BY <1>1, <1>2, <2>1
    <3>3. /\ FeasibleLow(j, was, elapsed, fb) = Larger(MoveLow(j, was, elapsed), fb.q - e)
          /\ FeasibleHigh(j, was, elapsed, fb) = Smaller(MoveHigh(j, was, elapsed), fb.q + e)
      BY DEF FeasibleLow, FeasibleHigh
    <3>4. FeasibleLow(j, was, elapsed, fb) <= FeasibleHigh(j, was, elapsed, fb)
      BY <2>1 DEF Feasible
    <3>5. q = Clamped(FeasibleLow(j, was, elapsed, fb), FeasibleHigh(j, was, elapsed, fb), want)
      BY <2>1 DEF Position
    <3> HIDE DEF q, b, e, m, d, f
    <3>6. /\ FeasibleLow(j, was, elapsed, fb) \in Int /\ FeasibleHigh(j, was, elapsed, fb) \in Int
          /\ FeasibleLow(j, was, elapsed, fb) >= fb.q - e /\ FeasibleHigh(j, was, elapsed, fb) <= fb.q + e
      BY <1>1, <3>1, <3>2, <3>3 DEF Larger, Smaller
    <3>7. q \in FeasibleLow(j, was, elapsed, fb)..FeasibleHigh(j, was, elapsed, fb)
      BY <3>4, <3>5, <3>6, Clamps
    <3>8. q - fb.q \in Int /\ -e <= q - fb.q /\ q - fb.q <= e /\ -e \in Int /\ e \in Int
      BY <1>1, <3>2, <3>6, <3>7
    <3>9. j.kp * (q - fb.q) \in Int /\ j.kp * (q - fb.q) <= j.kp * e /\ j.kp * (-e) <= j.kp * (q - fb.q)
      BY <1>1, <3>8, Scaling
    <3>10. j.kp * (-e) = -(j.kp * e) /\ j.kp * e \in Int
      BY <1>1, <3>2
    <3> QED BY <3>2, <3>9, <3>10 DEF Size
  <2>2. CASE j.kp = 0
    <3>1. q \in Int
      <4>1. MoveLow(j, was, elapsed) \in Int /\ MoveHigh(j, was, elapsed) \in Int
        BY <1>1, StepIsNat DEF MoveLow, MoveHigh, Larger, Smaller
      <4>2. q = Clamped(MoveLow(j, was, elapsed), MoveHigh(j, was, elapsed), want)
        BY <2>2 DEF Position
      <4> QED BY <4>1, <4>2 DEF Clamped, Larger, Smaller
    <3> HIDE DEF q, b, d, f, m
    <3>2. j.kp * (q - fb.q) = 0
      BY <1>1, <2>2, <3>1
    <3> QED BY <1>2, <3>2 DEF Size
  <2>3. j.kp > 0 \/ j.kp = 0
    BY <1>1
  <2> QED BY <2>1, <2>2, <2>3
<1> HIDE DEF q, b, d, f, m
<1>5. Torque(j, q, fb) <= m
  BY <1>2, <1>3, <1>4
<1> QED BY <1>5 DEF q, m

Command ==
  [kind : {"standard", "derated", "degraded"}, q : Int, kp : Int, kd : Int, ff : Int, num : Int, den : Int]

(* What a command c of a joint keeps to, after the last one's position. *)
Bounded(c, j, was, elapsed, fb, usable) ==
  /\ c \in Command /\ (c.kind = "degraded" <=> ~usable)
  /\ c.q \in j.qMin..j.qMax /\ Size(c.q - was) <= MaxStep(j, elapsed)
  /\ 0 <= c.num /\ c.num <= c.den /\ 0 < c.den
  /\ usable => (Size(c.kp * (c.q - fb.q)) + Size(c.kd * fb.dq) + Size(c.ff)) * c.num <= Ceiling(j) * c.den
  /\ ~usable => c.kp <= j.kp /\ c.kd <= j.kd /\ Size(c.ff) <= j.firmware

LEMMA JointIsBounded ==
  ASSUME NEW j \in JointConfig, Configured(j), NEW was \in j.qMin..j.qMax, NEW want \in Int,
         NEW elapsed \in Nat, NEW fb \in MotorFeedback, NEW usable \in BOOLEAN
  PROVE  Bounded(JointCommand(j, was, want, elapsed, fb, usable), j, was, elapsed, fb, usable)
<1> DEFINE q == Position(j, was, want, elapsed, fb, usable)
           t == Torque(j, q, fb)
           m == Ceiling(j)
           c == JointCommand(j, was, want, elapsed, fb, usable)
<1>1. q \in j.qMin..j.qMax /\ Size(q - was) <= MaxStep(j, elapsed)
  BY PositionInReach
<1>2. t = Size(j.kp * (q - fb.q)) + Size(j.kd * fb.dq) + Size(j.ff)
  BY DEF Torque
<1>3. t \in Nat
  <2>1. j.kp * (q - fb.q) \in Int /\ j.kd * fb.dq \in Int /\ j.ff \in Int
    BY <1>1 DEF JointConfig, MotorFeedback
  <2> QED BY <1>2, <2>1, SizeIsNat
<1>4. m \in Nat
  BY DEF Ceiling, Smaller, JointConfig, Configured
<1>5. c = IF ~usable THEN Degraded(j, q)
          ELSE IF Feasible(j, was, elapsed, fb) THEN Plain(j, q) ELSE Derated(j, q, t)
  <2>1. usable /\ Feasible(j, was, elapsed, fb) => t <= m
    BY FeasibleFits
  <2> QED BY <1>3, <1>4, <2>1 DEF JointCommand
<1>6. usable /\ Feasible(j, was, elapsed, fb) => t <= m
  BY FeasibleFits
<1>7. q \in Int /\ \A x \in {j.kp, j.kd, j.ff, j.lossKp, j.lossKd, j.lossFf} : x \in Int
  BY <1>1 DEF JointConfig
<1> DEFINE kept == c \in Command /\ (c.kind = "degraded" <=> ~usable)
           share == c.q = q /\ 0 <= c.num /\ c.num <= c.den /\ 0 < c.den
           within == (Size(c.kp * (c.q - fb.q)) + Size(c.kd * fb.dq) + Size(c.ff)) * c.num <= Ceiling(j) * c.den
           reduced == c.kp <= j.kp /\ c.kd <= j.kd /\ Size(c.ff) <= j.firmware
<1> HIDE DEF q, t, m, c
<1>8. ASSUME ~usable PROVE kept /\ share /\ reduced
  <2>1. c = [kind |-> "degraded", q |-> q, kp |-> j.lossKp, kd |-> j.lossKd, ff |-> j.lossFf, num |-> 1, den |-> 1]
    BY <1>5, <1>8 DEF Degraded
  <2>2. kept /\ share
    BY <1>7, <1>8, <2>1 DEF Command
  <2>3. reduced
    BY <2>1 DEF Configured
  <2> QED BY <2>2, <2>3
<1>9. ASSUME usable, Feasible(j, was, elapsed, fb) PROVE kept /\ share /\ within
  <2>1. c = [kind |-> "standard", q |-> q, kp |-> j.kp, kd |-> j.kd, ff |-> j.ff, num |-> 1, den |-> 1]
    BY <1>5, <1>9 DEF Plain
  <2>2. kept /\ share
    BY <1>7, <1>9, <2>1 DEF Command
  <2>3. t * 1 <= m * 1
    BY <1>3, <1>4, <1>6, <1>9
  <2>4. within
    BY <1>2, <2>1, <2>3 DEF m
  <2> QED BY <2>2, <2>4, Zenon
<1>10. ASSUME usable, ~Feasible(j, was, elapsed, fb) PROVE kept /\ share /\ within
  <2> DEFINE num == IF t <= m THEN 1 ELSE m
             den == IF t <= m THEN 1 ELSE t
  <2>1. c = [kind |-> "derated", q |-> q, kp |-> j.kp, kd |-> j.kd, ff |-> j.ff, num |-> num, den |-> den]
    BY <1>5, <1>10 DEF Derated, m
  <2>2. num \in Int /\ den \in Int /\ 0 <= num /\ num <= den /\ 0 < den
    BY <1>3, <1>4
  <2>3. t * num <= m * den
    <3>1. CASE t <= m
      BY <1>3, <1>4, <3>1
    <3>2. CASE ~(t <= m)
      <4>1. t * m = m * t /\ t * m \in Int
        BY <1>3, <1>4
      <4> QED BY <3>2, <4>1
    <3> QED BY <3>1, <3>2
  <2> HIDE DEF num, den
  <2>4. kept /\ share
    BY <1>7, <1>10, <2>1, <2>2 DEF Command
  <2>5. within
    BY <1>2, <2>1, <2>3 DEF m
  <2> QED BY <2>4, <2>5, Zenon
<1> HIDE DEF kept, share, within, reduced
<1>11. kept /\ share /\ (usable => within) /\ (~usable => reduced)
  BY <1>8, <1>9, <1>10
<1>12. c.q \in j.qMin..j.qMax /\ Size(c.q - was) <= MaxStep(j, elapsed)
  BY <1>1, <1>11 DEF share
<1> QED BY <1>11, <1>12, Zenon DEF Bounded, kept, share, within, reduced, c

(* The slew before it changes nothing of that: a target it lets through is *)
(* within the range and a step (_slew_limit).                              *)
LEMMA SlewInReach ==
  ASSUME NEW j \in JointConfig, Configured(j), NEW was \in j.qMin..j.qMax, NEW want \in Int, NEW elapsed \in Nat
  PROVE  LET q == Slewed(j, was, want, elapsed)
         IN q \in j.qMin..j.qMax /\ Size(q - was) <= MaxStep(j, elapsed)
<1> DEFINE step == MaxStep(j, elapsed)
<1>1. step \in Nat /\ j.qMin \in Int /\ j.qMax \in Int
  BY StepIsNat DEF JointConfig
<1>2. Slewed(j, was, want, elapsed) = Clamped(j.qMin, j.qMax, was + Clamped(-step, step, want - was))
  BY DEF Slewed
<1> HIDE DEF step
<1>3. Slewed(j, was, want, elapsed) \in j.qMin..j.qMax /\ Size(Slewed(j, was, want, elapsed) - was) <= step
  BY <1>1, <1>2 DEF Clamped, Larger, Smaller, Size
<1> QED BY <1>3 DEF step

(* A frame is within the joints' ranges and one step of the last one;      *)
(* while the feedback is of use the torque of a joint, its terms added up, *)
(* is within both limits whatever the target; without it, and only then,   *)
(* are the gains those for lost feedback, no larger than the others and    *)
(* with the feed-forward within the firmware's clamp (_make_low_command).  *)
THEOREM FrameIsBounded ==
  ASSUME NEW joints, NEW was, NEW want, NEW elapsed \in Nat, NEW feedbacks, NEW now \in Int, NEW maxAge \in Int,
         \A i \in DOMAIN joints :
           /\ joints[i] \in JointConfig /\ Configured(joints[i])
           /\ was[i] \in joints[i].qMin..joints[i].qMax /\ want[i] \in Int
           /\ feedbacks[i] \in MotorFeedback
  PROVE  \A i \in DOMAIN joints :
           Bounded(FrameCommands(joints, was, want, elapsed, feedbacks, now, maxAge)[i],
                   joints[i], was[i], elapsed, feedbacks[i], AllUsable(feedbacks, now, maxAge))
<1> SUFFICES ASSUME NEW i \in DOMAIN joints
             PROVE  Bounded(FrameCommands(joints, was, want, elapsed, feedbacks, now, maxAge)[i],
                            joints[i], was[i], elapsed, feedbacks[i], AllUsable(feedbacks, now, maxAge))
  OBVIOUS
<1> DEFINE target == Slewed(joints[i], was[i], want[i], elapsed)
           usable == AllUsable(feedbacks, now, maxAge)
<1>1. target \in joints[i].qMin..joints[i].qMax
  BY SlewInReach
<1>2. target \in Int
  BY <1>1 DEF JointConfig
<1>3. usable \in BOOLEAN
  BY DEF AllUsable
<1> HIDE DEF target, usable
<1>4. Bounded(JointCommand(joints[i], was[i], target, elapsed, feedbacks[i], usable),
              joints[i], was[i], elapsed, feedbacks[i], usable)
  BY <1>2, <1>3, JointIsBounded
<1>5. FrameCommands(joints, was, want, elapsed, feedbacks, now, maxAge)[i]
        = JointCommand(joints[i], was[i], target, elapsed, feedbacks[i], usable)
  BY DEF FrameCommands, target, usable
<1> QED BY <1>4, <1>5 DEF usable

(* Every joint's command stands in its own slot, where its gains are the   *)
(* command's and its position and feed-forward can be decoded; every other *)
(* slot is stopped (_make_low_command).                                    *)
THEOREM SlotsAreExact ==
  ASSUME NEW slots, NEW ids, NEW directions, NEW offsets, NEW commands,
         \A i \in DOMAIN ids : ids[i] \in slots,
         \A i, k \in DOMAIN ids : ids[i] = ids[k] => i = k,
         \A i \in DOMAIN ids : directions[i] \in {-1, 1} /\ offsets[i] \in Int /\ commands[i] \in Command
  PROVE  LET frame == MotorFrame(slots, ids, directions, offsets, commands) IN
         /\ \A i \in DOMAIN ids :
              LET slot == frame[ids[i]]
                  c == commands[i]
              IN /\ slot.kind = c.kind /\ slot.kp = c.kp /\ slot.kd = c.kd /\ slot.num = c.num /\ slot.den = c.den
                 /\ directions[i] * (slot.q - offsets[i]) = c.q
                 /\ directions[i] * slot.ff = c.ff
         /\ \A s \in slots : (\A i \in DOMAIN ids : ids[i] # s) => frame[s] = SlotStopped
<1> DEFINE frame == MotorFrame(slots, ids, directions, offsets, commands)
<1>1. \A i \in DOMAIN ids : frame[ids[i]] = Encoded(commands[i], directions[i], offsets[i])
  BY DEF MotorFrame
<1>2. \A s \in slots : (\A i \in DOMAIN ids : ids[i] # s) => frame[s] = SlotStopped
  BY DEF MotorFrame
<1>3. ASSUME NEW c \in Command, NEW direction \in {-1, 1}, NEW offset \in Int
      PROVE  LET slot == Encoded(c, direction, offset)
             IN /\ slot.kind = c.kind /\ slot.kp = c.kp /\ slot.kd = c.kd /\ slot.num = c.num /\ slot.den = c.den
                /\ direction * (slot.q - offset) = c.q
                /\ direction * slot.ff = c.ff
  <2> DEFINE slot == Encoded(c, direction, offset)
  <2>1. c.q \in Int /\ c.ff \in Int
    BY DEF Command
  <2>2. /\ slot.kind = c.kind /\ slot.kp = c.kp /\ slot.kd = c.kd /\ slot.num = c.num /\ slot.den = c.den
        /\ slot.q = offset + direction * c.q /\ slot.ff = direction * c.ff
    BY DEF Encoded, Command
  <2> HIDE DEF slot
  <2>3. direction * (slot.q - offset) = c.q /\ direction * slot.ff = c.ff
    <3>1. CASE direction = 1
      BY <2>1, <2>2, <3>1
    <3>2. CASE direction = -1
      BY <2>1, <2>2, <3>2
    <3> QED BY <3>1, <3>2
  <2> QED BY <2>2, <2>3 DEF slot
<1> HIDE DEF frame
<1>4. ASSUME NEW i \in DOMAIN ids
      PROVE  LET slot == frame[ids[i]]
                 c == commands[i]
             IN /\ slot.kind = c.kind /\ slot.kp = c.kp /\ slot.kd = c.kd /\ slot.num = c.num /\ slot.den = c.den
                /\ directions[i] * (slot.q - offsets[i]) = c.q
                /\ directions[i] * slot.ff = c.ff
  BY <1>1, <1>3
<1> QED BY <1>2, <1>4 DEF frame
=========================
