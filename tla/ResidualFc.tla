----------------------------- MODULE ResidualFc -----------------------------
(***************************************************************************)
(* The flight-controller side of the rotor residual: the register of one   *)
(* leased correction, the stage that waits for its tick, and the clear     *)
(* watermark.  src/.../bridges/fake_flight_controller_residual.py is the   *)
(* contract a firmware has to implement; the packets between it and the    *)
(* companion may be lost, delayed past the caller's timeout, or repeated.  *)
(*                                                                         *)
(* Time is counted in flight-controller ticks and kept as what is left:    *)
(* "lead" to the target tick, "left" of the lease, "due" of the deadline   *)
(* the host put on the command.  A tick takes one from each of them.       *)
(***************************************************************************)
EXTENDS Integers, FiniteSets

CONSTANTS
  LastSequence,   \* bound: command sequences are 0..LastSequence
  LeaseTicks,     \* residual_lease_ticks
  MaxLead,        \* maximum_target_lead_ticks; the minimum is 1
  MaxTtl,         \* maximum_command_ttl_s, in ticks
  MaxGeneration   \* bound: reboots and link changes of one run

ASSUME FcAssumption ==
  /\ LastSequence \in Nat
  /\ LeaseTicks \in Nat \ {0}
  /\ MaxLead \in Nat \ {0}
  /\ MaxTtl \in Nat /\ MaxTtl > LeaseTicks
  /\ MaxGeneration \in Nat

Sequences == 0..LastSequence
None == -1    \* no sequence; also the watermark before the first clear

VARIABLES
  fc,        \* link, transport generation, watermark and last staged sequence
  pending,   \* the stage waiting for its target tick
  register,  \* the residual that is being added to the baseline
  net        \* packets on their way to the flight controller

fcVars == <<fc, pending, register, net>>

Numbers == Sequences \union {None}
Generations == 0..MaxGeneration

Stages == [seq : Numbers, lead : -1..MaxLead, due : 0..MaxTtl]
Leases == [seq : Numbers, left : 0..LeaseTicks, due : 0..MaxTtl]
NoStage == [seq |-> None, lead |-> 0, due |-> 0]
NoLease == [seq |-> None, left |-> 0, due |-> 0]

StagePackets == [op : {"stage"}, gen : Generations, seq : Sequences,
                 lead : 0..MaxLead, due : 0..MaxTtl]
ClearPackets == [op : {"clear"}, gen : Generations, through : Sequences, mine : BOOLEAN]

FcTypeOK ==
  /\ fc \in [up : BOOLEAN, gen : Generations, through : Numbers, last : Numbers]
  /\ pending \in Stages
  /\ register \in Leases
  /\ net \subseteq StagePackets \union ClearPackets

(* A new host may meet a controller that still carries what an earlier     *)
(* session left in it.                                                     *)
FcInit ==
  /\ net = {}
  /\ \E seq \in Numbers :
       /\ fc = [up |-> TRUE, gen |-> 0, through |-> None, last |-> seq]
       /\ pending \in {NoStage} \union {[seq |-> s, lead |-> 1, due |-> MaxTtl] : s \in {seq} \ {None}}
       /\ register \in {NoLease} \union
            {[seq |-> s, left |-> LeaseTicks, due |-> LeaseTicks] : s \in {seq} \ {None, pending.seq}}

Higher(m, n) == IF m >= n THEN m ELSE n

(* What a stage packet has to show before it may replace the pending one:  *)
(* the current session and link, a sequence above the clear watermark and  *)
(* above every one received, and a target tick still to come.              *)
Acceptable(p) ==
  /\ p.op = "stage"
  /\ p.gen = fc.gen
  /\ p.seq > fc.through
  /\ p.seq > fc.last
  /\ p.lead > 0

(* A packet that is delivered may be delivered again. *)
Delivered(p) == net' = net \/ net' = net \ {p}

FcStages(p) ==
  /\ fc.up
  /\ Acceptable(p)
  /\ pending' = [seq |-> p.seq, lead |-> p.lead, due |-> p.due]
  /\ fc' = [fc EXCEPT !.last = p.seq]
  /\ UNCHANGED register
  /\ Delivered(p)

(* The last stage once more: the first answer is given again and nothing    *)
(* is staged, applied or prolonged.                                         *)
FcRepeats(p) ==
  /\ p.op = "stage"
  /\ p.gen = fc.gen
  /\ p.seq > fc.through
  /\ p.seq = fc.last
  /\ UNCHANGED <<fc, pending, register>>
  /\ Delivered(p)

(* A stage is refused for its identity, its reservation or its headroom;   *)
(* only the last of these also drops the residual that is active.          *)
FcRefuses(p) ==
  /\ p.op = "stage"
  /\ register' = register \/ (fc.up /\ Acceptable(p) /\ register' = NoLease)
  /\ UNCHANGED <<fc, pending>>
  /\ Delivered(p)

(* CLEAR is a barrier: the pending stage and the register go, and the      *)
(* watermark rises over everything asked for and everything received.      *)
ClearBarrier(p) ==
  /\ fc' = [fc EXCEPT !.through = Higher(@, Higher(p.through, fc.last))]
  /\ pending' = NoStage
  /\ register' = NoLease

(* A repeated clear is answered from memory and an older one is refused, so *)
(* that the clears still on their way end with the newest that arrives.     *)
FcClears(p) ==
  /\ p.op = "clear"
  /\ fc.up
  /\ p.gen = fc.gen
  /\ ClearBarrier(p)
  /\ net' = {q \in net : q.op = "stage" \/ (q.mine /\ ~p.mine)}

(* The fast loop reaches the target tick and replaces the register.  The   *)
(* loopback runs it from wait_execution_feedback and moves its tick on to  *)
(* the target; here it runs whether or not the host is still waiting.      *)
FcExecutes ==
  /\ fc.up
  /\ pending.seq # None
  /\ pending.seq > fc.through
  /\ pending.lead >= 0
  /\ register' = [seq |-> pending.seq, left |-> LeaseTicks, due |-> pending.due]
  /\ pending' = NoStage
  /\ UNCHANGED <<fc, net>>

(* The tick passed, the reservation went stale, or the live baseline or    *)
(* headroom is outside what was staged: nothing is applied, and the loop   *)
(* falls back to no residual except when only the reservation is stale.    *)
FcRejects ==
  /\ pending.seq # None
  /\ pending' = NoStage
  /\ register' \in {register, NoLease}
  /\ UNCHANGED <<fc, net>>

(* The local watchdog: the lease, the headroom and the baseline deviation  *)
(* of the active residual are checked without the host.                    *)
FcDrops ==
  /\ register # NoLease
  /\ register' = NoLease
  /\ UNCHANGED <<fc, pending, net>>

FcLink ==
  /\ fc.gen < MaxGeneration
  /\ fc' = [fc EXCEPT !.up = ~@, !.gen = @ + 1]
  /\ IF fc.up THEN pending' = NoStage /\ register' = NoLease ELSE UNCHANGED <<pending, register>>
  /\ UNCHANGED net

FcReboot ==
  /\ fc.gen < MaxGeneration
  /\ fc' = [fc EXCEPT !.gen = @ + 1, !.through = None, !.last = None]
  /\ pending' = NoStage
  /\ register' = NoLease
  /\ UNCHANGED net

Lost ==
  /\ \E p \in net : net' = net \ {p}
  /\ UNCHANGED <<fc, pending, register>>

Less(n) == IF n > 0 THEN n - 1 ELSE 0

(* One tick.  A lease at its end is cleared by the local watchdog with it. *)
FcLeaseRuns ==
  register' = IF register.left <= 1 THEN NoLease
              ELSE [register EXCEPT !.left = @ - 1, !.due = Less(@)]

FcTick ==
  /\ pending' = IF pending = NoStage THEN NoStage
                ELSE [pending EXCEPT !.lead = IF @ > -1 THEN @ - 1 ELSE -1, !.due = Less(@)]
  /\ FcLeaseRuns
  /\ net' = {IF p.op = "stage" THEN [p EXCEPT !.lead = Less(@), !.due = Less(@)] ELSE p : p \in net}
  /\ UNCHANGED fc

(* Nothing at the controller, and nothing on its way there, can put a      *)
(* residual into the register.                                             *)
Fenced ==
  /\ register.seq = None
  /\ pending.seq = None
  /\ \A p \in net : ~Acceptable(p)
=============================================================================
