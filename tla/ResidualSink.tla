---------------------------- MODULE ResidualSink ----------------------------
(***************************************************************************)
(* FlightControllerResidualSink (landing/impact_aware/integration.py): the *)
(* host's half of the rotor-residual lease.  send_rotor_residual stages    *)
(* one command, waits for its ACK and for the readback of its execution;   *)
(* clear_rotor_residual and every failure run one shared clear transaction *)
(* that no cancellation abandons.  send and watchdog hold the same lock;   *)
(* clear and status do not take it.                                        *)
(*                                                                         *)
(* Whatever the host reads of the link's health, of its age, of the clock  *)
(* or of an identity hash may be bad at any reading, so each failure path  *)
(* is open at every step; what a path that goes on has checked is kept.    *)
(***************************************************************************)
EXTENDS ResidualFc

CONSTANT Callers   \* the tasks that call clear_rotor_residual

VARIABLES
  sink,     \* _residual_state and what is tracked with it
  holder,   \* the send or watchdog call that holds _lock
  clear,    \* _clear_task
  callers   \* the clear calls that wait for the task

sinkVars == <<sink, holder, clear, callers>>
vars == <<fcVars, sinkVars>>

States == {"CONFIRMED_ZERO", "STAGE_PENDING", "ACTIVE", "CLEAR_PENDING", "AMBIGUOUS"}
Waits == {"idle", "wait", "ok", "failed"}   \* where a caller of the task is

Free == [op |-> "none", at |-> "none", seq |-> None, due |-> 0, gen |-> 0,
         acked |-> FALSE, raced |-> FALSE, got |-> "idle"]
NoClear == [at |-> "none", gen |-> 0, through |-> None, acked |-> FALSE]

TypeOK ==
  /\ FcTypeOK
  /\ sink \in [state : States, latched : BOOLEAN, last : Numbers, active : Numbers,
               gen : Generations, due : 0..MaxTtl, zeroGen : Generations, zeroThrough : Numbers]
  /\ holder \in [op : {"none", "send", "watchdog"}, at : {"none", "ack", "feedback", "clear"},
                 seq : Numbers, due : 0..MaxTtl, gen : Generations,
                 acked : BOOLEAN, raced : BOOLEAN, got : Waits]
  /\ clear \in [at : {"none", "created", "ack", "feedback"}, gen : Generations,
                through : Numbers, acked : BOOLEAN]
  /\ callers \in [Callers -> Waits]

Init ==
  /\ FcInit
  /\ sink = [state |-> "CONFIRMED_ZERO", latched |-> FALSE, last |-> None, active |-> None,
             gen |-> 0, due |-> 0, zeroGen |-> 0, zeroThrough |-> None]
  /\ holder = Free
  /\ clear = NoClear
  /\ callers = [c \in Callers |-> "idle"]

----------------------------------------------------------------------------
(* The shared clear transaction. *)

GetOrStart == clear' = IF clear.at = "none" THEN [NoClear EXCEPT !.at = "created"] ELSE clear

Tracked ==   \* _active_state_matches
  /\ fc.gen = sink.gen
  /\ register.seq = sink.active
  /\ pending = NoStage

WatermarkSafe == sink.zeroThrough # None /\ fc.gen = sink.zeroGen => fc.through >= sink.zeroThrough

ClearBeginsBelow ==   \* mutant: the watermark covers only what the status shows
  /\ clear.at = "created"
  /\ fc.up
  /\ LET through == Higher(Higher(fc.through, 0), Higher(register.seq, pending.seq))
     IN /\ clear' = [at |-> "ack", gen |-> fc.gen, through |-> through, acked |-> FALSE]
        /\ net' = net \union {[op |-> "clear", gen |-> fc.gen, through |-> through, mine |-> TRUE]}
  /\ sink' = [sink EXCEPT !.state = "CLEAR_PENDING"]
  /\ UNCHANGED <<fc, pending, register, holder, callers>>

ClearBegins ==
  /\ clear.at = "created"
  /\ fc.up
  /\ LET through == Higher(Higher(sink.last, 0), Higher(fc.through, Higher(register.seq, pending.seq)))
     IN /\ clear' = [at |-> "ack", gen |-> fc.gen, through |-> through, acked |-> FALSE]
        /\ net' = net \union {[op |-> "clear", gen |-> fc.gen, through |-> through, mine |-> TRUE]}
  /\ sink' = [sink EXCEPT !.state = "CLEAR_PENDING"]
  /\ UNCHANGED <<fc, pending, register, holder, callers>>

ClearAcked ==
  /\ clear.at = "ack"
  /\ clear.acked
  /\ clear' = [clear EXCEPT !.at = "feedback"]
  /\ UNCHANGED <<fcVars, sink, holder, callers>>

Answer(w, result) == IF w = "wait" THEN result ELSE w

Answered(result) ==
  /\ clear' = NoClear
  /\ holder' = [holder EXCEPT !.got = Answer(@, result)]
  /\ callers' = [c \in Callers |-> Answer(callers[c], result)]

(* A status that cannot be read, a link that is down, an ACK or a feedback *)
(* that is late, lost or does not match, a post-fence that fails.          *)
ClearFailsEarly ==   \* mutant: nobody times the acknowledgement or the feedback
  /\ clear.at = "created"
  /\ sink' = [sink EXCEPT !.state = "AMBIGUOUS"]
  /\ Answered("failed")
  /\ UNCHANGED fcVars

ClearFails ==
  /\ clear.at # "none"
  /\ sink' = [sink EXCEPT !.state = "AMBIGUOUS"]
  /\ Answered("failed")
  /\ net' = {IF p.op = "clear" THEN [p EXCEPT !.mine = FALSE] ELSE p : p \in net}
  /\ UNCHANGED <<fc, pending, register>>

ClearConfirmed ==
  /\ clear.at = "feedback"
  /\ fc.up /\ fc.gen = clear.gen
  /\ register = NoLease /\ pending = NoStage
  /\ fc.through >= clear.through
  /\ WatermarkSafe
  /\ sink' = [sink EXCEPT !.state = "CONFIRMED_ZERO", !.active = None, !.due = 0,
                          !.last = Higher(@, fc.through), !.gen = 0,
                          !.zeroGen = fc.gen, !.zeroThrough = fc.through]
  /\ Answered("ok")
  /\ UNCHANGED fcVars

----------------------------------------------------------------------------
(* send_rotor_residual, under the lock.  Everything up to the stage is one  *)
(* step: nothing is awaited before the packet is on its way, and the        *)
(* sequence is spent first, because a lost ACK must never be tried again.   *)

InOrder(seq) ==
  /\ holder = Free
  /\ sink.state \in {"CONFIRMED_ZERO", "ACTIVE"}
  /\ sink.state = "ACTIVE" => sink.due > 0 /\ Tracked
  /\ sink.state = "CONFIRMED_ZERO" => register = NoLease /\ pending = NoStage
  /\ fc.up
  /\ WatermarkSafe
  /\ seq > sink.last /\ seq > fc.through

StageableUnlatched(seq, lead, due) ==   \* mutant: the fault latch does not end the session
  InOrder(seq) /\ lead + LeaseTicks <= due

Stageable(seq, lead, due) ==
  /\ ~sink.latched
  /\ InOrder(seq)
  /\ lead + LeaseTicks <= due

SendStages(seq, lead, due) ==
  /\ Stageable(seq, lead, due)
  /\ sink' = [sink EXCEPT !.last = seq, !.state = "STAGE_PENDING"]
  /\ holder' = [Free EXCEPT !.op = "send", !.at = "ack", !.seq = seq, !.due = due, !.gen = fc.gen]
  /\ net' = net \union {[op |-> "stage", gen |-> fc.gen, seq |-> seq, lead |-> lead, due |-> due]}
  /\ UNCHANGED <<fc, pending, register, clear, callers>>

(* A command that does not pass the checks, or whose deadline runs out      *)
(* between them and the stage, when its sequence is already spent.  A       *)
(* session that is latched turns the call away without another clear,       *)
(* unless it finds the lease of its active command expired.                 *)
SendRefused ==
  /\ holder = Free
  /\ sink.latched => sink.state = "ACTIVE" /\ sink.due = 0
  /\ sink' \in {[sink EXCEPT !.latched = TRUE, !.last = s] :
                  s \in {sink.last} \union {t \in Sequences : t > sink.last}}
  /\ holder' = [Free EXCEPT !.op = "send", !.at = "clear", !.got = "wait"]
  /\ GetOrStart
  /\ UNCHANGED <<fcVars, callers>>

(* A timeout, an answer that does not match, an exception, a cancellation.  *)
SendFails ==
  /\ holder.at \in {"ack", "feedback"}
  /\ sink' = [sink EXCEPT !.latched = TRUE]
  /\ holder' = [holder EXCEPT !.at = "clear", !.got = "wait", !.acked = FALSE]
  /\ GetOrStart
  /\ UNCHANGED <<fcVars, callers>>

GetAck ==
  /\ holder.at = "ack"
  /\ holder.acked
  /\ holder.due > 0
  /\ holder' = [holder EXCEPT !.at = "feedback", !.acked = FALSE]
  /\ UNCHANGED <<fcVars, sink, clear, callers>>

(* The execution feedback and the status read after it show the command     *)
(* itself in the register, with a lease that ends before its deadline, and  *)
(* no clear was asked for since the lock was taken.                         *)
Commit ==
  /\ holder.at = "feedback"
  /\ fc.up /\ fc.gen = holder.gen
  /\ register.seq = holder.seq /\ pending = NoStage
  /\ register.left > 0 /\ register.left <= holder.due
  /\ WatermarkSafe
  /\ ~sink.latched /\ ~holder.raced
  /\ sink' = [sink EXCEPT !.state = "ACTIVE", !.active = holder.seq,
                          !.due = holder.due, !.gen = holder.gen]
  /\ holder' = Free
  /\ UNCHANGED <<fcVars, clear, callers>>

(* The call returns when its clear has: a watchdog records a failed one.    *)
HolderReturns ==
  /\ holder.at = "clear"
  /\ holder.got # "wait"
  /\ sink' = IF holder.op = "watchdog" /\ holder.got = "failed"
             THEN [sink EXCEPT !.state = "AMBIGUOUS"] ELSE sink
  /\ holder' = Free
  /\ UNCHANGED <<fcVars, clear, callers>>

----------------------------------------------------------------------------
(* clear_rotor_residual does not take the lock: it marks the clear before  *)
(* its first await, so that a send that is staging sees it.                *)

RequestClear(c) ==
  /\ callers[c] = "idle"
  /\ sink' = [sink EXCEPT !.state = "CLEAR_PENDING"]
  /\ holder' = IF holder.at \in {"ack", "feedback"} THEN [holder EXCEPT !.raced = TRUE] ELSE holder
  /\ callers' = [callers EXCEPT ![c] = "wait"]
  /\ GetOrStart
  /\ UNCHANGED fcVars

CallerResumes(c) ==
  /\ callers[c] \in {"ok", "failed"}
  /\ \E cancelled \in BOOLEAN :
       sink' = [sink EXCEPT !.latched = @ \/ cancelled \/ callers[c] = "failed",
                            !.state = IF callers[c] = "failed" THEN "AMBIGUOUS" ELSE @]
  /\ callers' = [callers EXCEPT ![c] = "idle"]
  /\ UNCHANGED <<fcVars, holder, clear>>

(* What the watchdog and every status read find out of order; "suspect" is  *)
(* a link that looks lost, stale or not the one that is tracked.            *)
Unexpected ==
  /\ sink.state = "CONFIRMED_ZERO"
  /\ register # NoLease \/ pending # NoStage \/ ~WatermarkSafe

Overdue == sink.active # None /\ (sink.due = 0 \/ register.left = 0)

Watchdog ==
  /\ holder = Free
  /\ \E suspect \in BOOLEAN :
       \/ Unexpected
       \/ sink.state \in {"CLEAR_PENDING", "AMBIGUOUS"}
       \/ sink.state = "ACTIVE" /\ (suspect \/ Overdue \/ ~Tracked \/ ~WatermarkSafe)
  /\ sink' = [sink EXCEPT !.latched = TRUE, !.state = "CLEAR_PENDING"]
  /\ holder' = [Free EXCEPT !.op = "watchdog", !.at = "clear", !.got = "wait"]
  /\ GetOrStart
  /\ UNCHANGED <<fcVars, callers>>

Status ==
  /\ sink.state # "CONFIRMED_ZERO" \/ Unexpected
  /\ sink' = [sink EXCEPT !.latched = TRUE, !.state = "AMBIGUOUS"]
  /\ UNCHANGED <<fcVars, holder, clear, callers>>

----------------------------------------------------------------------------
(* What the controller answers reaches the call that waits for it, or not. *)

StageReceived(p) ==
  /\ \/ FcStages(p)
     \/ FcRepeats(p)
  /\ \/ /\ holder.at = "ack" /\ holder.seq = p.seq /\ holder.gen = p.gen
        /\ holder' = [holder EXCEPT !.acked = TRUE]
     \/ UNCHANGED holder
  /\ UNCHANGED <<sink, clear, callers>>

ClearReceived(p) ==
  /\ FcClears(p)
  /\ clear' \in {clear, [clear EXCEPT !.acked = p.mine \/ @]}
  /\ UNCHANGED <<sink, holder, callers>>

Controller ==
  /\ \/ \E p \in net : FcRefuses(p)
     \/ FcExecutes \/ FcRejects \/ FcDrops \/ FcLink \/ FcReboot \/ Lost
  /\ UNCHANGED sinkVars

Tick ==
  /\ FcTick
  /\ sink' = [sink EXCEPT !.due = Less(@)]
  /\ holder' = [holder EXCEPT !.due = Less(@)]
  /\ UNCHANGED <<clear, callers>>

ClearSteps == ClearBegins \/ ClearAcked \/ ClearConfirmed \/ ClearFails
SendSteps == GetAck \/ Commit \/ SendFails

Next ==
  \/ \E seq \in Sequences, lead \in 1..MaxLead, due \in 1..MaxTtl : SendStages(seq, lead, due)
  \/ SendRefused \/ GetAck \/ Commit \/ SendFails \/ HolderReturns
  \/ \E c \in Callers : RequestClear(c) \/ CallerResumes(c)
  \/ Watchdog \/ Status
  \/ ClearBegins \/ ClearAcked \/ ClearConfirmed \/ ClearFails
  \/ \E p \in net : StageReceived(p) \/ ClearReceived(p)
  \/ Controller
  \/ Tick

(* Both halves of a transaction are under asyncio.wait_for, so each of them *)
(* ends whether or not the controller answers; nothing is assumed of it.    *)
Fairness ==
  /\ WF_vars(ClearSteps)
  /\ WF_vars(SendSteps)
  /\ WF_vars(HolderReturns)
  /\ \A c \in Callers : WF_vars(CallerResumes(c))

Spec == Init /\ [][Next]_vars /\ Fairness

----------------------------------------------------------------------------
(* Properties *)

(* A clear that was confirmed stays a clear: from then on no stage that is  *)
(* delayed, repeated or reordered can bring a residual back, until the sink *)
(* itself stages one (_clear_internal's watermark and the barrier).         *)
ZeroIsFenced ==
  sink.state = "CONFIRMED_ZERO" /\ sink.zeroThrough # None => Fenced

(* The lease the controller enforces never outlives the deadline of the     *)
(* command it carries, however late the command is executed.                *)
LeaseWithinDeadline == register.left <= register.due

(* What the register may hold is bounded: by the deadline of the command,   *)
(* and by the last clear that was confirmed.                                *)
RegisterIsBounded == ZeroIsFenced /\ LeaseWithinDeadline

(* The sink, the packets and the controller together keep the promise of    *)
(* ResidualLease: no replay, no residual after a fault, and neither "active" *)
(* nor "confirmed zero" is said while another command can still be applied.  *)
Lease == INSTANCE ResidualLease WITH
  Sequence <- Sequences,
  live <- register.seq,
  able <- ({pending.seq} \ {None}) \union {p.seq : p \in {q \in net : Acceptable(q)}},
  high <- sink.last,
  claim <- IF sink.state = "ACTIVE" THEN sink.active
           ELSE IF sink.state = "CONFIRMED_ZERO" /\ sink.zeroThrough # None THEN -2 ELSE None,
  faulted <- sink.latched

ImplementsLease == Lease!LeaseSpec

(* Every send, watchdog and clear call returns, whatever is lost.           *)
CallsEnd ==
  /\ holder.op # "none" ~> holder.op = "none"
  /\ \A c \in Callers : callers[c] = "wait" ~> callers[c] = "idle"
=============================================================================
