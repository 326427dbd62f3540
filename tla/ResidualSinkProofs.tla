------------------------- MODULE ResidualSinkProofs -------------------------
(***************************************************************************)
(* The residual lease and the sink that implements it.                     *)
(*                                                                         *)
(* The first part is about ResidualLease alone: what a session may claim,  *)
(* for any set of command sequences.  The second part proves, for every    *)
(* number of sequences, callers and generations and every lease time, that *)
(* the host's sink, the packets and the controller together implement it,  *)
(* and that the register is bounded as RegisterIsBounded says.  SinkInv is *)
(* the inductive invariant: sequences rise along the way from the sink     *)
(* through the packets to the controller, a clear that runs is known to    *)
(* the send that holds the lock and covers every packet, and a command     *)
(* that can still be executed leaves its lease time to end.                *)
(***************************************************************************)
EXTENDS ResidualSink, ResidualLease, TLAPS

(* The variables keep their types.                                         *)
THEOREM LeaseTypeCorrect == LeaseSpec => []LeaseTypeOK
<1>1. LeaseInit => LeaseTypeOK
  BY DEF LeaseInit
<1>2. LeaseTypeOK /\ [LeaseNext]_leaseVars => LeaseTypeOK'
  <2> SUFFICES ASSUME LeaseTypeOK, [LeaseNext]_leaseVars PROVE LeaseTypeOK'
    OBVIOUS
  <2> USE DEF LeaseTypeOK
  <2>1. ASSUME NEW s \in Sequence, Offer(s) PROVE LeaseTypeOK'
    BY <2>1 DEF Offer
  <2>2. ASSUME NEW s \in Sequence, Take(s) PROVE LeaseTypeOK'
    BY <2>2 DEF Take
  <2>3. CASE Withdraw
    BY <2>3 DEF Withdraw
  <2>4. CASE Claim
    BY <2>4 DEF Claim
  <2>5. CASE UNCHANGED leaseVars
    BY <2>5 DEF leaseVars
  <2> QED BY <2>1, <2>2, <2>3, <2>4, <2>5 DEF LeaseNext
<1> QED BY <1>1, <1>2, PTL DEF LeaseSpec

(* While the host says of the register that it is active or confirmed zero *)
(* the register holds that command or nothing, and no other command can    *)
(* reach it any more.                                                      *)
THEOREM ClaimIsTrue == LeaseSpec => []ClaimHolds
<1>1. LeaseInit => ClaimHolds
  BY DEF LeaseInit, ClaimHolds
<1>2. ClaimHolds /\ [LeaseNext]_leaseVars => ClaimHolds'
  <2> SUFFICES ASSUME ClaimHolds, [LeaseNext]_leaseVars PROVE ClaimHolds'
    OBVIOUS
  <2>1. ASSUME NEW s \in Sequence, Offer(s) PROVE ClaimHolds'
    BY <2>1 DEF Offer, ClaimHolds
  <2>2. ASSUME NEW s \in Sequence, Take(s) PROVE ClaimHolds'
    BY <2>2 DEF Take, ClaimHolds
  <2>3. CASE Withdraw
    BY <2>3 DEF Withdraw, ClaimHolds
  <2>4. CASE Claim
    BY <2>4 DEF Claim, ClaimHolds
  <2>5. CASE UNCHANGED leaseVars
    BY <2>5 DEF leaseVars, ClaimHolds
  <2> QED BY <2>1, <2>2, <2>3, <2>4, <2>5 DEF LeaseNext
<1> QED BY <1>1, <1>2, PTL DEF LeaseSpec

(* A command that was withdrawn is not applied again: what a session has   *)
(* spent never becomes able to reach the register a second time.           *)
Rises == [][high' >= high /\ able' \subseteq able \union {high'}]_leaseVars

THEOREM NeverReplayed == (Sequence \subseteq Nat) => (LeaseSpec => Rises)
<1> SUFFICES ASSUME Sequence \subseteq Nat PROVE LeaseSpec => Rises
  OBVIOUS
<1>1. LeaseTypeOK /\ [LeaseNext]_leaseVars
        => [high' >= high /\ able' \subseteq able \union {high'}]_leaseVars
  <2> SUFFICES ASSUME LeaseTypeOK, LeaseNext
               PROVE high' >= high /\ able' \subseteq able \union {high'}
    OBVIOUS
  <2>0. high \in Int
    BY DEF LeaseTypeOK, Nothing
  <2>1. ASSUME NEW s \in Sequence, Offer(s)
        PROVE high' >= high /\ able' \subseteq able \union {high'}
    <3>1. s \in Int
      OBVIOUS
    <3> QED BY <2>0, <2>1, <3>1 DEF Offer
  <2>2. ASSUME NEW s \in Sequence, Take(s)
        PROVE high' >= high /\ able' \subseteq able \union {high'}
    BY <2>0, <2>2 DEF Take
  <2>3. CASE Withdraw
    BY <2>3 DEF Withdraw
  <2>4. CASE Claim
    BY <2>4 DEF Claim
  <2> QED BY <2>1, <2>2, <2>3, <2>4 DEF LeaseNext
<1> QED BY <1>1, LeaseTypeCorrect, PTL DEF LeaseSpec, Rises

-----------------------------------------------------------------------------
StagesIn(packets) == {p \in packets : p.op = "stage"}

(* Sequences rise: what the controller holds it has received, what is on   *)
(* its way was spent and was sent in a generation that is not ahead.       *)
Ordered ==
    /\ pending.seq <= fc.last /\ register.seq <= fc.last
    /\ \A p \in net : p.gen <= fc.gen
    /\ \A p \in StagesIn(net) : p.seq <= sink.last

(* While a send waits no packet is newer than its own.                     *)
NewestIsMine ==
    holder.at \in {"ack", "feedback"} => \A p \in StagesIn(net) : p.seq <= holder.seq

(* A clear that runs is known to the send that holds the lock, and nothing *)
(* is staged before it ends.                                               *)
NoStageMeanwhile ==
    clear.at # "none" =>
        /\ holder.at \in {"ack", "feedback"} => holder.raced
        /\ \/ sink.state \notin {"CONFIRMED_ZERO", "ACTIVE"}
           \/ holder.at = "clear" /\ holder.got = "wait"

(* A clear on its way covers every packet.                                 *)
Covered ==
    clear.at \in {"ack", "feedback"} =>
        clear.through >= 0 /\ \A p \in StagesIn(net) : p.seq <= clear.through

(* A command that can still be executed leaves its lease time to end       *)
(* before its deadline.                                                    *)
InTime ==
    /\ register.left <= register.due
    /\ pending.seq # None /\ pending.lead >= 0 => pending.lead + LeaseTicks <= pending.due
    /\ \A p \in StagesIn(net) : p.lead > 0 => p.lead + LeaseTicks <= p.due

(* The records have their fields and the numbers are numbers.              *)
Fields ==
    /\ DOMAIN fc = {"up", "gen", "through", "last"}
    /\ fc.gen \in Nat /\ fc.through \in Numbers /\ fc.last \in Numbers
    /\ DOMAIN pending = {"seq", "lead", "due"}
    /\ pending.seq \in Numbers /\ pending.lead \in Int /\ pending.due \in Nat
    /\ DOMAIN register = {"seq", "left", "due"}
    /\ register.seq \in Numbers /\ register.left \in Nat /\ register.due \in Nat
    /\ DOMAIN sink = {"state", "latched", "last", "active", "gen", "due", "zeroGen", "zeroThrough"}
    /\ sink.last \in Numbers
    /\ DOMAIN holder = {"op", "at", "seq", "due", "gen", "acked", "raced", "got"}
    /\ holder.seq \in Numbers
    /\ DOMAIN clear = {"at", "gen", "through", "acked"}
    /\ clear.through \in Numbers

(* What is on its way is a stage or a clear.                               *)
Packets ==
    \A p \in net :
        /\ p.gen \in Nat
        /\ \/ /\ p.op = "stage" /\ DOMAIN p = {"op", "gen", "seq", "lead", "due"}
              /\ p.seq \in Sequences /\ p.lead \in Nat /\ p.due \in Nat
           \/ /\ p.op = "clear" /\ DOMAIN p = {"op", "gen", "through", "mine"}
              /\ p.through \in Sequences

SinkInv ==
    /\ Fields /\ Packets /\ Ordered /\ NewestIsMine /\ NoStageMeanwhile
    /\ Covered /\ InTime

(* The send and the watchdog, which hold the lock.                         *)
LEMMA HolderKeeps ==
    ASSUME SinkInv
    PROVE  /\ (\E seq \in Sequences, lead \in 1..MaxLead, due \in 1..MaxTtl : SendStages(seq, lead, due)) => SinkInv'
           /\ GetAck => SinkInv'
           /\ Commit => SinkInv'
           /\ SendFails => SinkInv'
           /\ HolderReturns => SinkInv'
           /\ Watchdog => SinkInv'
           /\ Status => SinkInv'
<1> USE FcAssumption DEF SinkInv, Fields, Packets, Ordered, NewestIsMine, NoStageMeanwhile, Covered, InTime,
        StagesIn, Numbers, Sequences, None, fcVars, sinkVars
<1>1. ASSUME NEW seq \in Sequences, NEW lead \in 1..MaxLead, NEW due \in 1..MaxTtl, SendStages(seq, lead, due)
      PROVE  SinkInv'
  BY <1>1 DEF SendStages, Stageable, InOrder, Free
<1>2. ASSUME GetAck PROVE SinkInv'
  BY <1>2 DEF GetAck
<1>3. ASSUME Commit PROVE SinkInv'
  <2>1. /\ UNCHANGED <<fcVars, clear>> /\ holder' = Free /\ holder.at = "feedback" /\ ~holder.raced
        /\ sink' = [sink EXCEPT !.state = "ACTIVE", !.active = holder.seq, !.due = holder.due, !.gen = holder.gen]
    BY <1>3 DEF Commit
  <2> QED BY <2>1 DEF Free
<1>4. ASSUME SendFails PROVE SinkInv'
  BY <1>4 DEF SendFails, GetOrStart, NoClear
<1>5. ASSUME HolderReturns PROVE SinkInv'
  BY <1>5 DEF HolderReturns, Free
<1>6. ASSUME Watchdog PROVE SinkInv'
  BY <1>6 DEF Watchdog, GetOrStart, NoClear, Free
<1>7. ASSUME Status PROVE SinkInv'
  BY <1>7 DEF Status
<1> QED BY <1>1, <1>2, <1>3, <1>4, <1>5, <1>6, <1>7

(* The clear, which does not take it.                                      *)
LEMMA ClearKeeps ==
    ASSUME SinkInv
    PROVE  /\ (\E c \in Callers : RequestClear(c)) => SinkInv'
           /\ (\E c \in Callers : CallerResumes(c)) => SinkInv'
           /\ ClearBegins => SinkInv'
           /\ ClearAcked => SinkInv'
           /\ ClearConfirmed => SinkInv'
           /\ ClearFails => SinkInv'
<1> USE FcAssumption DEF SinkInv, Fields, Packets, Ordered, NewestIsMine, NoStageMeanwhile, Covered, InTime,
        StagesIn, Numbers, Sequences, None, fcVars, sinkVars
<1>1. ASSUME NEW c \in Callers, RequestClear(c) PROVE SinkInv'
  BY <1>1 DEF RequestClear, GetOrStart, NoClear
<1>2. ASSUME NEW c \in Callers, CallerResumes(c) PROVE SinkInv'
  BY <1>2 DEF CallerResumes
<1>3. ASSUME ClearBegins PROVE SinkInv'
  BY <1>3 DEF ClearBegins, Higher
<1>4. ASSUME ClearAcked PROVE SinkInv'
  BY <1>4 DEF ClearAcked
<1>5. ASSUME ClearConfirmed PROVE SinkInv'
  BY <1>5 DEF ClearConfirmed, Answered, Answer, NoClear, Higher
<1>6. ASSUME ClearFails PROVE SinkInv'
  BY SMTT(60), <1>6 DEF ClearFails, Answered, Answer, NoClear
<1> QED BY <1>1, <1>2, <1>3, <1>4, <1>5, <1>6

(* The controller and its link.                                            *)
LEMMA ControllerKeeps ==
    ASSUME SinkInv
    PROVE  /\ (\E p \in net : StageReceived(p)) => SinkInv'
           /\ (\E p \in net : ClearReceived(p)) => SinkInv'
           /\ ((\E p \in net : FcRefuses(p)) /\ UNCHANGED sinkVars) => SinkInv'
           /\ FcExecutes /\ UNCHANGED sinkVars => SinkInv'
           /\ FcRejects /\ UNCHANGED sinkVars => SinkInv'
           /\ FcDrops /\ UNCHANGED sinkVars => SinkInv'
           /\ FcLink /\ UNCHANGED sinkVars => SinkInv'
           /\ FcReboot /\ UNCHANGED sinkVars => SinkInv'
           /\ Lost /\ UNCHANGED sinkVars => SinkInv'
<1> USE FcAssumption DEF SinkInv, Fields, Packets, Ordered, NewestIsMine, NoStageMeanwhile, Covered, InTime,
        StagesIn, Numbers, Sequences, None, fcVars, sinkVars
<1>1. ASSUME NEW p \in net, StageReceived(p) PROVE SinkInv'
  BY <1>1 DEF StageReceived, FcStages, FcRepeats, Delivered, Acceptable
<1>2. ASSUME NEW p \in net, ClearReceived(p) PROVE SinkInv'
  BY <1>2 DEF ClearReceived, FcClears, ClearBarrier, Higher, NoStage, NoLease
<1>3. ASSUME NEW p \in net, FcRefuses(p), UNCHANGED sinkVars PROVE SinkInv'
  BY <1>3 DEF FcRefuses, Delivered, NoLease
<1>4. ASSUME FcExecutes, UNCHANGED sinkVars PROVE SinkInv'
  BY <1>4 DEF FcExecutes, NoStage
<1>5. ASSUME FcRejects, UNCHANGED sinkVars PROVE SinkInv'
  BY <1>5 DEF FcRejects, NoStage, NoLease
<1>6. ASSUME FcDrops, UNCHANGED sinkVars PROVE SinkInv'
  BY <1>6 DEF FcDrops, NoLease
<1>7. ASSUME FcLink, UNCHANGED sinkVars PROVE SinkInv'
  BY <1>7 DEF FcLink, NoStage, NoLease
<1>8. ASSUME FcReboot, UNCHANGED sinkVars PROVE SinkInv'
  BY <1>8 DEF FcReboot, NoStage, NoLease
<1>9. ASSUME Lost, UNCHANGED sinkVars PROVE SinkInv'
  BY <1>9 DEF Lost
<1> QED BY <1>1, <1>2, <1>3, <1>4, <1>5, <1>6, <1>7, <1>8, <1>9

(* A call that is refused spends a sequence or none.                       *)
LEMMA SendRefusedKeeps ==
    ASSUME SinkInv, SendRefused
    PROVE  SinkInv'
<1>1. PICK s \in {sink.last} \union {t \in Sequences : t > sink.last} :
          sink' = [sink EXCEPT !.latched = TRUE, !.last = s]
  BY DEF SendRefused
<1>2. holder = Free /\ holder' = [Free EXCEPT !.op = "send", !.at = "clear", !.got = "wait"]
  BY DEF SendRefused
<1>3. GetOrStart /\ UNCHANGED <<fcVars, callers>>
  BY DEF SendRefused
<1>4. s \in Numbers /\ s >= sink.last
  BY FcAssumption DEF SinkInv, Fields, Sequences, Numbers, None
<1> QED BY FcAssumption, <1>1, <1>2, <1>3, <1>4
        DEF SinkInv, Fields, Packets, Ordered, NewestIsMine, NoStageMeanwhile, Covered, InTime, GetOrStart, Free,
            NoClear, fcVars, Sequences, Numbers, None, StagesIn

(* A tick takes one from the lead and the deadline of every stage.         *)
LEMMA PacketsAge ==
    ASSUME Packets, FcTick, NEW q \in net'
    PROVE  \E p \in net :
             /\ q.op = p.op /\ q.gen = p.gen
             /\ p.op = "clear" => q = p
             /\ p.op = "stage" => /\ DOMAIN q = DOMAIN p /\ q.seq = p.seq
                                  /\ q.lead = Less(p.lead) /\ q.due = Less(p.due)
<1>1. PICK p \in net : q = IF p.op = "stage" THEN [p EXCEPT !.lead = Less(@), !.due = Less(@)] ELSE p
  BY DEF FcTick
<1>2. CASE p.op = "stage"
  <2>1. q = [p EXCEPT !.lead = Less(p.lead), !.due = Less(p.due)]
    BY <1>1, <1>2
  <2>2. DOMAIN p = {"op", "gen", "seq", "lead", "due"}
    BY <1>2 DEF Packets
  <2> QED BY <1>2, <2>1, <2>2
<1>3. CASE p.op # "stage"
  BY <1>1, <1>3
<1> QED BY <1>2, <1>3

LEMMA TickKeeps ==
    ASSUME SinkInv, Tick
    PROVE  SinkInv'
<1> USE FcAssumption DEF SinkInv, Numbers, Sequences, None
<1>1. /\ FcTick /\ UNCHANGED <<fc, clear>>
      /\ sink' = [sink EXCEPT !.due = Less(sink.due)]
      /\ holder' = [holder EXCEPT !.due = Less(holder.due)]
  BY DEF Tick, FcTick
<1>2. \A n \in Nat : /\ Less(n) \in Nat /\ Less(n) >= n - 1
                     /\ n > 0 => Less(n) = n - 1
                     /\ n = 0 => Less(n) = 0
  BY DEF Less
<1>3. \/ register' = NoLease
      \/ register.left > 1 /\ register' = [register EXCEPT !.left = register.left - 1, !.due = Less(register.due)]
  <2>1. register' = IF register.left <= 1 THEN NoLease
                    ELSE [register EXCEPT !.left = register.left - 1, !.due = Less(register.due)]
    BY DEF Tick, FcTick, FcLeaseRuns
  <2>2. register.left \in Nat
    BY DEF Fields
  <2> QED BY <2>1, <2>2
<1>4. \/ pending' = NoStage
      \/ pending' = [pending EXCEPT !.lead = IF pending.lead > -1 THEN pending.lead - 1 ELSE -1,
                                    !.due = Less(pending.due)]
  BY DEF Tick, FcTick
<1>5. /\ DOMAIN register' = {"seq", "left", "due"}
      /\ register'.seq \in Numbers /\ register'.left \in Nat /\ register'.due \in Nat
      /\ register'.left <= register'.due
      /\ register'.seq \in {register.seq, None}
  <2>1. CASE register' = NoLease
    BY <2>1 DEF NoLease
  <2>2. CASE register.left > 1 /\ register' = [register EXCEPT !.left = register.left - 1, !.due = Less(register.due)]
    <3>1. /\ DOMAIN register' = {"seq", "left", "due"} /\ register'.seq = register.seq
          /\ register'.left = register.left - 1 /\ register'.due = Less(register.due)
      BY <2>2 DEF Fields
    <3> QED BY <3>1, <1>2, <2>2 DEF Fields, InTime
  <2> QED BY <1>3, <2>1, <2>2
<1>6. /\ DOMAIN pending' = {"seq", "lead", "due"}
      /\ pending'.seq \in Numbers /\ pending'.lead \in Int /\ pending'.due \in Nat
      /\ pending'.seq # None /\ pending'.lead >= 0 => pending'.lead + LeaseTicks <= pending'.due
      /\ pending'.seq \in {pending.seq, None}
  <2>1. CASE pending' = NoStage
    BY <2>1 DEF NoStage
  <2>2. CASE pending' = [pending EXCEPT !.lead = IF pending.lead > -1 THEN pending.lead - 1 ELSE -1,
                                        !.due = Less(pending.due)]
    <3>1. /\ DOMAIN pending' = {"seq", "lead", "due"} /\ pending'.seq = pending.seq
          /\ pending'.lead = IF pending.lead > -1 THEN pending.lead - 1 ELSE -1
          /\ pending'.due = Less(pending.due)
      BY <2>2 DEF Fields
    <3> QED BY <3>1, <1>2 DEF Fields, InTime
  <2> QED BY <1>4, <2>1, <2>2
<1>7. Fields'
  BY <1>1, <1>5, <1>6 DEF Fields
<1>8. Packets'
  BY <1>1, <1>2, PacketsAge DEF Packets
<1>9. Ordered' /\ NewestIsMine' /\ Covered'
  <2>1. ASSUME NEW q \in net'
        PROVE  /\ q.gen <= fc.gen
               /\ q.op = "stage" => q.seq <= sink.last
               /\ q.op = "stage" /\ holder.at \in {"ack", "feedback"} => q.seq <= holder.seq
               /\ q.op = "stage" /\ clear.at \in {"ack", "feedback"} => q.seq <= clear.through
    BY <1>1, PacketsAge DEF Packets, Ordered, NewestIsMine, Covered, StagesIn
  <2>2. pending'.seq <= fc.last /\ register'.seq <= fc.last
    BY <1>5, <1>6 DEF Fields, Ordered
  <2>3. sink'.last = sink.last /\ holder'.at = holder.at /\ holder'.seq = holder.seq
    BY <1>1 DEF Fields
  <2>4. clear'.at \in {"ack", "feedback"} => clear'.through >= 0
    BY <1>1 DEF Covered
  <2>5. fc' = fc /\ clear' = clear
    BY <1>1
  <2> QED BY <2>1, <2>2, <2>3, <2>4, <2>5 DEF Ordered, NewestIsMine, Covered, StagesIn
<1>10. NoStageMeanwhile'
  BY <1>1 DEF NoStageMeanwhile, Fields
<1>11. InTime'
  <2>1. ASSUME NEW q \in net', q.op = "stage", q.lead > 0 PROVE q.lead + LeaseTicks <= q.due
    <3>1. PICK p \in net : /\ p.op = "stage" /\ q.lead = Less(p.lead) /\ q.due = Less(p.due)
      BY <1>1, <2>1, PacketsAge DEF Packets
    <3>2. p.lead \in Nat /\ p.due \in Nat
      BY <3>1 DEF Packets
    <3>3. p.lead > 0
      BY <1>2, <2>1, <3>1, <3>2
    <3>4. p.lead + LeaseTicks <= p.due
      BY <3>1, <3>3 DEF InTime, StagesIn
    <3> QED BY <1>2, <3>1, <3>2, <3>3, <3>4
  <2> QED BY <1>5, <1>6, <2>1 DEF InTime, StagesIn
<1> QED BY <1>7, <1>8, <1>9, <1>10, <1>11

LEMMA NextKeeps ==
    ASSUME SinkInv, Next
    PROVE  SinkInv'
BY HolderKeeps, ClearKeeps, ControllerKeeps, SendRefusedKeeps, TickKeeps DEF Next, Controller

(* A new host starts with nothing on its way and a controller of any past. *)
LEMMA InitKeeps == Init => SinkInv
<1> SUFFICES ASSUME Init PROVE SinkInv
  OBVIOUS
<1> USE FcAssumption DEF Numbers, Sequences, None
<1>1. PICK seq \in Numbers :
        /\ fc = [up |-> TRUE, gen |-> 0, through |-> None, last |-> seq]
        /\ pending \in {NoStage} \union {[seq |-> s, lead |-> 1, due |-> MaxTtl] : s \in {seq} \ {None}}
        /\ register \in {NoLease} \union
             {[seq |-> s, left |-> LeaseTicks, due |-> LeaseTicks] : s \in {seq} \ {None, pending.seq}}
  BY DEF Init, FcInit
<1>2. pending = NoStage \/ pending = [seq |-> seq, lead |-> 1, due |-> MaxTtl]
  BY <1>1
<1>3. register = NoLease \/ register = [seq |-> seq, left |-> LeaseTicks, due |-> LeaseTicks]
  BY <1>1
<1>4. Fields
  BY <1>1, <1>2, <1>3 DEF Init, Fields, NoStage, NoLease, Free, NoClear
<1>5. /\ pending.seq <= fc.last /\ register.seq <= fc.last /\ register.left <= register.due
      /\ pending.seq # None /\ pending.lead >= 0 => pending.lead + LeaseTicks <= pending.due
  BY <1>1, <1>2, <1>3 DEF NoStage, NoLease
<1>6. net = {} /\ holder.at = "none" /\ clear.at = "none"
  BY DEF Init, FcInit, Free, NoClear
<1> QED BY <1>4, <1>5, <1>6
        DEF SinkInv, Packets, Ordered, NewestIsMine, NoStageMeanwhile, Covered, InTime, StagesIn

LEMMA AlwaysSinkInv == Spec => []SinkInv
<1>1. SinkInv /\ UNCHANGED vars => SinkInv'
  BY DEF vars, fcVars, sinkVars, SinkInv, Fields, Packets, Ordered, NewestIsMine, NoStageMeanwhile, Covered,
         InTime, StagesIn
<1> QED BY <1>1, InitKeeps, NextKeeps, PTL DEF Spec

-----------------------------------------------------------------------------
(* The refinement mapping of Lease, by name.                               *)
AbleNow == ({pending.seq} \ {None}) \union {p.seq : p \in {q \in net : Acceptable(q)}}
ClaimNow == IF sink.state = "ACTIVE" THEN sink.active
            ELSE IF sink.state = "CONFIRMED_ZERO" /\ sink.zeroThrough # None THEN -2 ELSE None


LEMMA AbleMember ==
    ASSUME NEW s
    PROVE  s \in AbleNow <=> (s = pending.seq /\ s # None) \/ \E q \in net : Acceptable(q) /\ q.seq = s
  BY DEF AbleNow

LEMMA AbleMemberNext ==
    ASSUME NEW s
    PROVE  s \in AbleNow' <=> (s = pending'.seq /\ s # None) \/ \E q \in net' : Acceptable(q)' /\ q.seq = s
  BY DEF AbleNow

(* What an action that is no more than a withdrawal leaves.                 *)
Withdraws ==
    /\ register'.seq \in {register.seq, None}
    /\ \A s \in AbleNow' : s \in AbleNow
    /\ sink'.last \in Numbers /\ sink'.last >= sink.last
    /\ ClaimNow' \in {ClaimNow, None}
    /\ sink.latched => sink'.latched

(* What the host does beside an offer and a claim withdraws.                *)
LEMMA WithdrawSteps ==
    ASSUME SinkInv
    PROVE  /\ GetAck => Withdraws
           /\ SendFails => Withdraws
           /\ HolderReturns => Withdraws
           /\ Watchdog => Withdraws
           /\ Status => Withdraws
           /\ (\E c \in Callers : RequestClear(c)) => Withdraws
           /\ (\E c \in Callers : CallerResumes(c)) => Withdraws
           /\ ClearBegins => Withdraws
           /\ ClearAcked => Withdraws
           /\ ClearFails => Withdraws
<1> USE FcAssumption DEF SinkInv, Fields, Packets, Ordered, InTime, Numbers, Sequences, None, fcVars, sinkVars
<1>1. ASSUME GetAck PROVE Withdraws
  BY <1>1 DEF GetAck, Withdraws, AbleNow, ClaimNow, Acceptable
<1>2. ASSUME SendFails PROVE Withdraws
  BY <1>2 DEF SendFails, GetOrStart, NoClear, Withdraws, AbleNow, ClaimNow, Acceptable
<1>3. ASSUME HolderReturns PROVE Withdraws
  BY <1>3 DEF HolderReturns, Free, Withdraws, AbleNow, ClaimNow, Acceptable
<1>4. ASSUME Watchdog PROVE Withdraws
  BY <1>4 DEF Watchdog, GetOrStart, NoClear, Free, Withdraws, AbleNow, ClaimNow, Acceptable
<1>5. ASSUME Status PROVE Withdraws
  BY <1>5 DEF Status, Withdraws, AbleNow, ClaimNow, Acceptable
<1>6. ASSUME NEW c \in Callers, RequestClear(c) PROVE Withdraws
  BY <1>6 DEF RequestClear, GetOrStart, NoClear, Withdraws, AbleNow, ClaimNow, Acceptable
<1>7. ASSUME NEW c \in Callers, CallerResumes(c) PROVE Withdraws
  <2>1. UNCHANGED fcVars
    BY <1>7 DEF CallerResumes
  <2>2. PICK cancelled \in BOOLEAN :
          sink' = [sink EXCEPT !.latched = sink.latched \/ cancelled \/ callers[c] = "failed",
                               !.state = IF callers[c] = "failed" THEN "AMBIGUOUS" ELSE sink.state]
    BY <1>7, Zenon DEF CallerResumes
  <2>3. /\ sink'.latched = (sink.latched \/ cancelled \/ callers[c] = "failed")
        /\ sink'.state \in {"AMBIGUOUS", sink.state} /\ sink'.last = sink.last
        /\ sink'.active = sink.active /\ sink'.zeroThrough = sink.zeroThrough
    BY <2>2
  <2>4. sink.latched => sink'.latched
    BY <2>3, Zenon
  <2>5. AbleNow' = AbleNow /\ register' = register /\ ClaimNow' \in {ClaimNow, None}
    BY <2>1, <2>3 DEF AbleNow, ClaimNow, Acceptable
  <2>6. sink'.last \in Numbers /\ sink'.last >= sink.last
    BY <2>3
  <2> HIDE <2>3
  <2> QED BY <2>4, <2>5, <2>6 DEF Withdraws
<1>8. ASSUME ClearBegins PROVE Withdraws
  BY <1>8 DEF ClearBegins, Higher, Withdraws, AbleNow, ClaimNow, Acceptable
<1>9. ASSUME ClearAcked PROVE Withdraws
  BY <1>9 DEF ClearAcked, Withdraws, AbleNow, ClaimNow, Acceptable
<1>10. ASSUME ClearFails PROVE Withdraws
  BY <1>10 DEF ClearFails, Answered, Answer, NoClear, Withdraws, AbleNow, ClaimNow, Acceptable
<1> QED BY <1>1, <1>2, <1>3, <1>4, <1>5, <1>6, <1>7, <1>8, <1>9, <1>10

(* What the controller does beside an execution withdraws: the sequence it  *)
(* takes up was able before, and a new generation accepts no old packet.    *)
LEMMA ControllerWithdraws ==
    ASSUME SinkInv
    PROVE  /\ (\E p \in net : StageReceived(p)) => Withdraws
           /\ (\E p \in net : ClearReceived(p)) => Withdraws
           /\ ((\E p \in net : FcRefuses(p)) /\ UNCHANGED sinkVars) => Withdraws
           /\ FcRejects /\ UNCHANGED sinkVars => Withdraws
           /\ FcDrops /\ UNCHANGED sinkVars => Withdraws
           /\ FcLink /\ UNCHANGED sinkVars => Withdraws
           /\ FcReboot /\ UNCHANGED sinkVars => Withdraws
           /\ Lost /\ UNCHANGED sinkVars => Withdraws
<1> USE FcAssumption DEF SinkInv, Fields, Packets, Ordered, InTime, Numbers, Sequences, None, fcVars, sinkVars
<1>1. ASSUME NEW p \in net, StageReceived(p) PROVE Withdraws
  <2>1. \A s \in AbleNow' : s \in AbleNow
    BY <1>1, AbleMember, AbleMemberNext DEF StageReceived, FcStages, FcRepeats, Delivered, Acceptable
  <2> QED BY <1>1, <2>1 DEF StageReceived, FcStages, FcRepeats, Delivered, Withdraws, ClaimNow
<1>2. ASSUME NEW p \in net, ClearReceived(p) PROVE Withdraws
  <2>1. \A s \in AbleNow' : s \in AbleNow
    BY <1>2, AbleMember, AbleMemberNext DEF ClearReceived, FcClears, ClearBarrier, Higher, NoStage, NoLease, Acceptable
  <2> QED BY <1>2, <2>1 DEF ClearReceived, FcClears, ClearBarrier, Higher, NoStage, NoLease, Withdraws, ClaimNow
<1>3. ASSUME NEW p \in net, FcRefuses(p), UNCHANGED sinkVars PROVE Withdraws
  <2>1. \A s \in AbleNow' : s \in AbleNow
    BY <1>3, AbleMember, AbleMemberNext DEF FcRefuses, Delivered, NoLease, Acceptable
  <2> QED BY <1>3, <2>1 DEF FcRefuses, Delivered, NoLease, Withdraws, ClaimNow
<1>4. ASSUME FcRejects, UNCHANGED sinkVars PROVE Withdraws
  <2>1. \A s \in AbleNow' : s \in AbleNow
    BY <1>4, AbleMember, AbleMemberNext DEF FcRejects, NoStage, NoLease, Acceptable
  <2> QED BY <1>4, <2>1 DEF FcRejects, NoStage, NoLease, Withdraws, ClaimNow
<1>5. ASSUME FcDrops, UNCHANGED sinkVars PROVE Withdraws
  <2>1. \A s \in AbleNow' : s \in AbleNow
    BY <1>5, AbleMember, AbleMemberNext DEF FcDrops, NoLease, Acceptable
  <2> QED BY <1>5, <2>1 DEF FcDrops, NoLease, Withdraws, ClaimNow
<1>6. ASSUME FcLink, UNCHANGED sinkVars PROVE Withdraws
  <2>1. \A s \in AbleNow' : s \in AbleNow
    BY <1>6, AbleMember, AbleMemberNext DEF FcLink, NoStage, NoLease, Acceptable
  <2> QED BY <1>6, <2>1 DEF FcLink, NoStage, NoLease, Withdraws, ClaimNow
<1>7. ASSUME FcReboot, UNCHANGED sinkVars PROVE Withdraws
  <2>1. \A s \in AbleNow' : s \in AbleNow
    BY <1>7, AbleMember, AbleMemberNext DEF FcReboot, NoStage, NoLease, Acceptable
  <2> QED BY <1>7, <2>1 DEF FcReboot, NoStage, NoLease, Withdraws, ClaimNow
<1>8. ASSUME Lost, UNCHANGED sinkVars PROVE Withdraws
  <2>1. \A s \in AbleNow' : s \in AbleNow
    BY <1>8, AbleMember, AbleMemberNext DEF Lost, Acceptable
  <2> QED BY <1>8, <2>1 DEF Lost, Withdraws, ClaimNow
<1> QED BY <1>1, <1>2, <1>3, <1>4, <1>5, <1>6, <1>7, <1>8

LEMMA SendRefusedWithdraws ==
    ASSUME SinkInv, SendRefused
    PROVE  Withdraws
<1>1. PICK s \in {sink.last} \union {t \in Sequences : t > sink.last} :
          sink' = [sink EXCEPT !.latched = TRUE, !.last = s]
  BY DEF SendRefused
<1>2. UNCHANGED fcVars
  BY DEF SendRefused
<1>3. s \in Numbers /\ s >= sink.last
  BY FcAssumption DEF SinkInv, Fields, Sequences, Numbers, None
<1>4. sink'.last = s /\ sink'.state = sink.state /\ sink'.latched = TRUE /\ sink'.active = sink.active
      /\ sink'.zeroThrough = sink.zeroThrough
  BY <1>1 DEF SinkInv, Fields
<1>5. ASSUME NEW q \in AbleNow' PROVE q \in AbleNow
  BY <1>2, <1>5, AbleMember, AbleMemberNext DEF fcVars, Acceptable
<1> QED BY <1>2, <1>3, <1>4, <1>5 DEF Withdraws, fcVars, ClaimNow

LEMMA TickWithdraws ==
    ASSUME SinkInv, Tick
    PROVE  Withdraws
<1>1. /\ FcTick /\ UNCHANGED fc
      /\ sink' = [sink EXCEPT !.due = Less(sink.due)]
  BY DEF Tick, FcTick
<1>2. register'.seq \in {register.seq, None}
  BY DEF Tick, FcTick, FcLeaseRuns, SinkInv, Fields, NoLease
<1>3. pending'.seq \in {pending.seq, None}
  BY DEF Tick, FcTick, SinkInv, Fields, NoStage
<1>4. ASSUME NEW s \in AbleNow' PROVE s \in AbleNow
  <2>1. CASE s = pending'.seq /\ s # None
    BY <1>3, <2>1, AbleMember
  <2>2. ASSUME NEW q \in net', Acceptable(q)', q.seq = s PROVE s \in AbleNow
    <3>1. PICK p \in net : /\ p.op = "stage" /\ q.seq = p.seq /\ q.gen = p.gen /\ q.lead = Less(p.lead)
      BY <1>1, <2>2, PacketsAge DEF SinkInv, Packets, Acceptable
    <3>2. p.lead \in Nat
      BY <3>1 DEF SinkInv, Packets
    <3>3. p.lead > 0
      BY <2>2, <3>1, <3>2 DEF Acceptable, Less
    <3>4. Acceptable(p)
      BY <1>1, <2>2, <3>1, <3>3 DEF Acceptable
    <3> QED BY <2>2, <3>1, <3>4, AbleMember
  <2> QED BY <1>4, <2>1, <2>2, AbleMemberNext
<1>5. sink'.last = sink.last /\ sink'.state = sink.state /\ sink'.latched = sink.latched
      /\ sink'.active = sink.active /\ sink'.zeroThrough = sink.zeroThrough
  BY <1>1 DEF SinkInv, Fields
<1>6. sink.last \in Numbers /\ sink.last >= sink.last
  BY FcAssumption DEF SinkInv, Fields, Numbers, Sequences, None
<1> QED BY <1>2, <1>4, <1>5, <1>6 DEF Withdraws, ClaimNow

(* A stage offers a sequence that was never spent.                         *)
LEMMA SendOffers ==
    ASSUME SinkInv, NEW seq \in Sequences, NEW lead \in 1..MaxLead, NEW due \in 1..MaxTtl,
           SendStages(seq, lead, due)
    PROVE  /\ ~sink.latched /\ seq > sink.last
           /\ register' = register
           /\ AbleNow' \in {AbleNow, AbleNow \union {seq}}
           /\ sink'.last = seq /\ sink'.latched = sink.latched /\ ClaimNow' = None
<1> USE DEF SinkInv, Fields, SendStages, Stageable, InOrder
<1> DEFINE new == [op |-> "stage", gen |-> fc.gen, seq |-> seq, lead |-> lead, due |-> due]
<1>1. ~sink.latched /\ seq > sink.last /\ register' = register
  OBVIOUS
<1>2. sink'.last = seq /\ sink'.latched = sink.latched /\ ClaimNow' = None
  BY DEF ClaimNow
<1>3. net' = net \union {new} /\ fc' = fc /\ pending' = pending
  OBVIOUS
<1>4. ASSUME NEW s PROVE s \in AbleNow' <=> s \in AbleNow \/ (s = seq /\ Acceptable(new))
  <2>1. \A q : Acceptable(q)' <=> Acceptable(q)
    BY <1>3 DEF Acceptable
  <2>2. new.seq = seq
    OBVIOUS
  <2> HIDE DEF new
  <2> QED BY <1>3, <2>1, <2>2, AbleMember, AbleMemberNext
<1>5. AbleNow' = AbleNow \/ AbleNow' = AbleNow \union {seq}
  <2>1. CASE Acceptable(new)
    <3>1. \A s : s \in AbleNow' <=> s \in AbleNow \/ s = seq
      BY <1>4, <2>1
    <3> HIDE DEF new
    <3> QED BY <3>1
  <2>2. CASE ~Acceptable(new)
    <3>1. \A s : s \in AbleNow' <=> s \in AbleNow
      BY <1>4, <2>2
    <3> QED BY <3>1
  <2> QED BY <2>1, <2>2
<1> QED BY <1>1, <1>2, <1>5

(* The controller applies the stage it took over last.                     *)
LEMMA ExecuteTakes ==
    ASSUME SinkInv, FcExecutes, UNCHANGED sinkVars
    PROVE  /\ pending.seq \in AbleNow /\ register'.seq = pending.seq
           /\ \A t \in AbleNow' : t \in AbleNow /\ t > pending.seq
           /\ sink' = sink
<1>1. fc' = fc /\ net' = net /\ pending' = NoStage /\ sink' = sink /\ register'.seq = pending.seq
      /\ pending.seq # None
  BY DEF FcExecutes, sinkVars
<1>2. pending.seq \in AbleNow
  BY <1>1, AbleMember
<1>3. ASSUME NEW t \in AbleNow' PROVE t \in AbleNow /\ t > pending.seq
  <2>1. PICK q \in net : Acceptable(q) /\ q.seq = t
    BY <1>1, <1>3, AbleMemberNext DEF NoStage, Acceptable
  <2>2. t > fc.last /\ t \in Int /\ fc.last \in Int /\ pending.seq \in Int /\ pending.seq <= fc.last
    BY <2>1, FcAssumption DEF Acceptable, SinkInv, Packets, Fields, Ordered, Numbers, Sequences, None
  <2>3. t > pending.seq
    BY <2>2
  <2> QED BY <2>1, <2>3, AbleMember
<1> QED BY <1>1, <1>2, <1>3

(* Once a send is committed or a clear confirmed no packet can be accepted. *)
LEMMA CommitClaims ==
    ASSUME SinkInv, Commit
    PROVE  /\ AbleNow = {} /\ AbleNow' = {} /\ register' = register
           /\ ClaimNow' = register.seq /\ sink'.last = sink.last /\ sink'.latched = sink.latched
<1>1. UNCHANGED fcVars /\ pending = NoStage /\ register.seq = holder.seq
      /\ sink' = [sink EXCEPT !.state = "ACTIVE", !.active = holder.seq, !.due = holder.due, !.gen = holder.gen]
      /\ holder.at = "feedback"
  BY DEF Commit
<1>2. \A q \in net : ~Acceptable(q)
  BY <1>1, FcAssumption DEF SinkInv, Fields, Packets, Ordered, NewestIsMine, StagesIn, Acceptable, Numbers, Sequences, None
<1>3. \A s : s \notin AbleNow
  BY <1>1, <1>2, AbleMember DEF NoStage
<1>4. \A s : s \notin AbleNow'
  BY <1>1, <1>2, AbleMemberNext DEF NoStage, fcVars, Acceptable
<1>5. ClaimNow' = register.seq /\ sink'.last = sink.last /\ sink'.latched = sink.latched
  BY <1>1 DEF SinkInv, Fields, ClaimNow
<1> QED BY <1>1, <1>3, <1>4, <1>5 DEF fcVars

LEMMA ConfirmClaims ==
    ASSUME SinkInv, ClearConfirmed
    PROVE  /\ AbleNow = {} /\ AbleNow' = {} /\ register' = register
           /\ register.seq = None /\ ClaimNow' = -2
           /\ sink'.last \in Numbers /\ sink'.last >= sink.last /\ sink'.latched = sink.latched
<1>1. UNCHANGED fcVars /\ pending = NoStage /\ register = NoLease /\ clear.at = "feedback"
      /\ fc.through >= clear.through
      /\ sink' = [sink EXCEPT !.state = "CONFIRMED_ZERO", !.active = None, !.due = 0,
                          !.last = Higher(sink.last, fc.through), !.gen = 0,
                          !.zeroGen = fc.gen, !.zeroThrough = fc.through]
  BY DEF ClearConfirmed
<1>2. \A q \in net : ~Acceptable(q)
  BY <1>1, FcAssumption DEF SinkInv, Fields, Packets, Covered, StagesIn, Acceptable, Numbers, Sequences, None
<1>3. \A s : s \notin AbleNow
  BY <1>1, <1>2, AbleMember DEF NoStage
<1>4. \A s : s \notin AbleNow'
  BY <1>1, <1>2, AbleMemberNext DEF NoStage, fcVars, Acceptable
<1>5. fc.through # None
  BY <1>1, FcAssumption DEF SinkInv, Fields, Covered, Numbers, Sequences, None
<1>6. ClaimNow' = -2 /\ sink'.latched = sink.latched /\ sink'.last = Higher(sink.last, fc.through)
  BY <1>1, <1>5 DEF SinkInv, Fields, ClaimNow
<1>7. sink'.last \in Numbers /\ sink'.last >= sink.last
  BY <1>6, FcAssumption DEF SinkInv, Fields, Higher, Numbers, Sequences, None
<1> QED BY <1>1, <1>3, <1>4, <1>6, <1>7 DEF fcVars, NoLease

(* Every step withdraws, offers, takes or claims.                          *)
StepOfLease ==
    \/ Withdraws
    \/ \E seq \in Sequences :
         /\ ~sink.latched /\ seq > sink.last /\ register' = register
         /\ AbleNow' \in {AbleNow, AbleNow \union {seq}}
         /\ sink'.last = seq /\ sink'.latched = sink.latched /\ ClaimNow' = None
    \/ \E seq \in AbleNow :
         /\ register'.seq = seq /\ sink' = sink
         /\ \A t \in AbleNow' : t \in AbleNow /\ t > seq
    \/ /\ AbleNow = {} /\ AbleNow' = {} /\ register' = register
       /\ ClaimNow' = IF register.seq = None THEN -2 ELSE register.seq
       /\ sink'.last \in Numbers /\ sink'.last >= sink.last /\ sink'.latched = sink.latched

LEMMA NextIsLeaseStep ==
    ASSUME SinkInv, Next
    PROVE  StepOfLease
<1>1. ASSUME NEW seq \in Sequences, NEW lead \in 1..MaxLead, NEW due \in 1..MaxTtl, SendStages(seq, lead, due)
      PROVE  StepOfLease
  BY <1>1, SendOffers DEF StepOfLease
<1>2. CASE FcExecutes /\ UNCHANGED sinkVars
  BY <1>2, ExecuteTakes DEF StepOfLease
<1>3. CASE Commit
  <2>1. /\ AbleNow = {} /\ AbleNow' = {} /\ register' = register
        /\ ClaimNow' = register.seq /\ sink'.last = sink.last /\ sink'.latched = sink.latched
    BY <1>3, CommitClaims
  <2>2. sink'.last \in Numbers /\ sink'.last >= sink.last
    BY <2>1, FcAssumption DEF SinkInv, Fields, Numbers, Sequences, None
  <2>3. CASE register.seq = None
    BY <2>1, <2>2, <2>3 DEF StepOfLease, Withdraws
  <2>4. CASE register.seq # None
    BY <2>1, <2>2, <2>4 DEF StepOfLease
  <2> QED BY <2>3, <2>4
<1>4. CASE ClearConfirmed
  BY <1>4, ConfirmClaims DEF StepOfLease
<1>5. CASE SendRefused \/ Tick
  BY <1>5, SendRefusedWithdraws, TickWithdraws DEF StepOfLease
<1>6. CASE GetAck \/ SendFails \/ HolderReturns \/ Watchdog \/ Status \/ ClearBegins \/ ClearAcked \/ ClearFails
           \/ \E c \in Callers : RequestClear(c) \/ CallerResumes(c)
  BY <1>6, WithdrawSteps DEF StepOfLease
<1>7. CASE (\E p \in net : StageReceived(p) \/ ClearReceived(p)) \/ (Controller /\ ~FcExecutes)
  BY <1>7, ControllerWithdraws DEF StepOfLease, Controller
<1> QED BY <1>1, <1>2, <1>3, <1>4, <1>5, <1>6, <1>7 DEF Next, Controller

(* The latch is raised by a failure and never lowered.                     *)
LEMMA LatchIsBoolean ==
    ASSUME sink.latched \in BOOLEAN, SinkInv, Next
    PROVE  sink'.latched \in BOOLEAN
<1>1. ASSUME NEW c \in Callers, CallerResumes(c) PROVE sink'.latched \in BOOLEAN
  <2>1. PICK cancelled \in BOOLEAN :
          sink' = [sink EXCEPT !.latched = sink.latched \/ cancelled \/ callers[c] = "failed",
                               !.state = IF callers[c] = "failed" THEN "AMBIGUOUS" ELSE sink.state]
    BY <1>1, Zenon DEF CallerResumes
  <2>2. sink'.latched = (sink.latched \/ cancelled \/ callers[c] = "failed")
    BY <2>1 DEF SinkInv, Fields
  <2> QED BY <2>2, Zenon
<1>2. ASSUME ~ \E c \in Callers : CallerResumes(c)
      PROVE  sink'.latched = sink.latched \/ sink'.latched = TRUE
  <2>1. CASE SendRefused
    <3>1. PICK s \in {sink.last} \union {t \in Sequences : t > sink.last} :
              sink' = [sink EXCEPT !.latched = TRUE, !.last = s]
      BY <2>1 DEF SendRefused
    <3> QED BY <3>1 DEF SinkInv, Fields
  <2>2. CASE ~SendRefused
    BY ZenonT(60), <1>2, <2>2 DEF Next, SinkInv, Fields, SendStages, GetAck, Commit, SendFails, HolderReturns, RequestClear, Watchdog, Status,
              ClearBegins, ClearAcked, ClearConfirmed, ClearFails, StageReceived, ClearReceived, Controller, Tick, sinkVars
  <2> QED BY <2>1, <2>2
<1> QED BY <1>1, <1>2, Zenon

LEMMA StepImplements ==
    ASSUME SinkInv, sink.latched \in BOOLEAN, sink'.latched \in BOOLEAN, StepOfLease
    PROVE  Lease!LeaseNext
<1> USE DEF None, Numbers
<1>1. CASE Withdraws
  <2>1. /\ register'.seq \in {register.seq, None} /\ AbleNow' \subseteq AbleNow
        /\ sink'.last \in Numbers /\ sink'.last >= sink.last
        /\ ClaimNow' \in {ClaimNow, None} /\ (sink.latched => sink'.latched)
    BY <1>1 DEF Withdraws
  <2>2. Lease!Withdraw
    BY <2>1 DEF Lease!Withdraw, Lease!Nothing, AbleNow, ClaimNow
  <2> QED BY <2>2 DEF Lease!LeaseNext
<1>2. ASSUME NEW seq \in Sequences, ~sink.latched, seq > sink.last, register' = register,
             AbleNow' \in {AbleNow, AbleNow \union {seq}},
             sink'.last = seq, sink'.latched = sink.latched, ClaimNow' = None
      PROVE  Lease!LeaseNext
  <2>1. Lease!Offer(seq)
    BY <1>2 DEF Lease!Offer, Lease!Nothing, AbleNow, ClaimNow
  <2> QED BY <2>1 DEF Lease!LeaseNext
<1>3. ASSUME NEW seq \in AbleNow, register'.seq = seq, sink' = sink, \A t \in AbleNow' : t \in AbleNow /\ t > seq
      PROVE  Lease!LeaseNext
  <2>1. AbleNow' \subseteq {t \in AbleNow : t > seq} /\ ClaimNow' = ClaimNow
    BY <1>3 DEF ClaimNow
  <2>2. seq \in Sequences
    BY AbleMember DEF SinkInv, Fields, Packets, Acceptable
  <2>3. Lease!Take(seq)
    BY <1>3, <2>1 DEF Lease!Take, AbleNow, ClaimNow
  <2> QED BY <2>2, <2>3 DEF Lease!LeaseNext
<1>4. CASE /\ AbleNow = {} /\ AbleNow' = {} /\ register' = register
           /\ ClaimNow' = IF register.seq = None THEN -2 ELSE register.seq
           /\ sink'.last \in Numbers /\ sink'.last >= sink.last /\ sink'.latched = sink.latched
  <2>1. Lease!Claim
    BY <1>4 DEF Lease!Claim, Lease!Nothing, Lease!Zero, AbleNow, ClaimNow
  <2> QED BY <2>1 DEF Lease!LeaseNext
<1> QED BY <1>1, <1>2, <1>3, <1>4 DEF StepOfLease

(* The sink, its packets and the controller implement ResidualLease: no    *)
(* replay, no residual after a fault, and neither "active" nor "confirmed  *)
(* zero" is said while another command can still be applied.               *)
THEOREM SinkImplementsLease == Spec => ImplementsLease
<1>1. Init => Lease!LeaseInit /\ sink.latched \in BOOLEAN
  <2> SUFFICES ASSUME Init PROVE Lease!LeaseInit /\ sink.latched \in BOOLEAN
    OBVIOUS
  <2>1. sink.latched = FALSE /\ sink.last = None /\ sink.state = "CONFIRMED_ZERO" /\ sink.zeroThrough = None
    BY DEF Init
  <2>2. sink.latched \in BOOLEAN
    BY <2>1, Zenon
  <2>3. net = {} /\ register.seq \in Numbers /\ pending.seq \in Numbers
    BY InitKeeps DEF Init, FcInit, SinkInv, Fields
  <2>4. AbleNow \subseteq Sequences
    BY <2>3 DEF AbleNow, Numbers
  <2>5. ClaimNow = None
    BY <2>1 DEF ClaimNow
  <2> QED BY <2>1, <2>2, <2>3, <2>4, <2>5
          DEF Lease!LeaseInit, Lease!LeaseTypeOK, Lease!Nothing, Lease!Zero, AbleNow, ClaimNow, Numbers, None
<1>2. SinkInv /\ sink.latched \in BOOLEAN /\ [Next]_vars => (sink.latched \in BOOLEAN)'
  BY LatchIsBoolean DEF vars, sinkVars
<1>3. SinkInv /\ sink.latched \in BOOLEAN /\ [Next]_vars => [Lease!LeaseNext]_(Lease!leaseVars)
  <2>1. ASSUME SinkInv, sink.latched \in BOOLEAN, Next PROVE Lease!LeaseNext
    BY <2>1, NextIsLeaseStep, StepImplements, LatchIsBoolean
  <2>2. ASSUME UNCHANGED vars PROVE UNCHANGED Lease!leaseVars
    BY <2>2 DEF vars, fcVars, sinkVars, Lease!leaseVars, Acceptable
  <2> QED BY <2>1, <2>2
<1> QED BY <1>1, <1>2, <1>3, AlwaysSinkInv, PTL DEF Spec, ImplementsLease, Lease!LeaseSpec

(* While the sink says ACTIVE or CONFIRMED_ZERO no other command can reach *)
(* the register.                                                           *)
ClaimStands == ClaimNow # None => AbleNow = {} /\ register.seq \in {None, ClaimNow}

LEMMA AlwaysClaimStands == Spec => []ClaimStands
<1>1. Init => ClaimStands
  BY DEF Init, ClaimStands, ClaimNow
<1>2. SinkInv /\ ClaimStands /\ [Next]_vars => ClaimStands'
  <2> SUFFICES ASSUME SinkInv, ClaimStands, [Next]_vars PROVE ClaimStands'
    OBVIOUS
  <2>1. CASE Next
    <3>1. StepOfLease
      BY <2>1, NextIsLeaseStep
    <3>2. CASE Withdraws
      BY <3>2 DEF Withdraws, ClaimStands
    <3>3. ASSUME NEW seq \in AbleNow, sink' = sink PROVE ClaimStands'
      BY <3>3 DEF ClaimStands, ClaimNow
    <3>4. CASE AbleNow' = {} /\ register' = register /\ ClaimNow' = IF register.seq = None THEN -2 ELSE register.seq
      BY <3>4 DEF ClaimStands
    <3>5. CASE ClaimNow' = None
      BY <3>5 DEF ClaimStands
    <3> QED BY <3>1, <3>2, <3>3, <3>4, <3>5 DEF StepOfLease
  <2>2. CASE UNCHANGED vars
    BY <2>2 DEF vars, fcVars, sinkVars, ClaimStands, ClaimNow, AbleNow, Acceptable
  <2> QED BY <2>1, <2>2
<1> QED BY <1>1, <1>2, AlwaysSinkInv, PTL DEF Spec

(* What the register may hold is bounded by the deadline of the command    *)
(* and by the last clear that was confirmed.                               *)
THEOREM RegisterStaysBounded == Spec => []RegisterIsBounded
<1>1. SinkInv /\ ClaimStands => RegisterIsBounded
  <2> SUFFICES ASSUME SinkInv, ClaimStands PROVE RegisterIsBounded
    OBVIOUS
  <2>1. LeaseWithinDeadline
    BY DEF SinkInv, InTime, LeaseWithinDeadline
  <2>2. ASSUME sink.state = "CONFIRMED_ZERO", sink.zeroThrough # None PROVE Fenced
    <3>1. ClaimNow = -2
      BY <2>2 DEF ClaimNow
    <3>2. AbleNow = {} /\ register.seq \in {None, -2}
      BY <3>1 DEF ClaimStands, None
    <3>3. register.seq = None
      BY <3>2, FcAssumption DEF SinkInv, Fields, Numbers, Sequences, None
    <3>4. pending.seq = None /\ \A q \in net : ~Acceptable(q)
      BY <3>2, AbleMember
    <3> QED BY <3>3, <3>4 DEF Fenced
  <2> QED BY <2>1, <2>2 DEF RegisterIsBounded, ZeroIsFenced
<1> QED BY <1>1, AlwaysSinkInv, AlwaysClaimStands, PTL
=============================================================================
