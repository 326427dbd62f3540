--------------------------- MODULE GroundArmProofs ---------------------------
(***************************************************************************)
(* Proofs about the two-key arming, for every lease, waiting time and      *)
(* capacity of the link, and with or without losses.                       *)
(***************************************************************************)
EXTENDS GroundArm, SequenceTheorems, TLAPS

AllOff(s) == \A i \in DOMAIN s : ~s[i].on
NoMine(s) == \A i \in DOMAIN s : ~s[i].mine
OffAfterMine(s) == \A i, j \in DOMAIN s : s[i].mine /\ i <= j => ~s[j].on
GoodAck(s) == \E i \in DOMAIN s : s[i].kind = "ack" /\ s[i].mine /\ s[i].good

-----------------------------------------------------------------------------
(* What the bounded queues do. *)

(* Send appends the message, or drops it.                                  *)
LEMMA SendGives ==
    ASSUME NEW S, NEW s \in Seq(S), Len(s) <= MaxFlight, NEW x \in S
    PROVE  /\ Send(s, x) \in Seq(S) /\ Len(Send(s, x)) <= MaxFlight
           /\ \A i \in DOMAIN Send(s, x) :
                 (i \in DOMAIN s /\ Send(s, x)[i] = s[i]) \/ (Send(s, x)[i] = x /\ i = Len(s) + 1)
  BY GateAssumption DEF Send, Room

LEMMA AppendGives ==
    ASSUME NEW S, NEW s \in Seq(S), NEW x \in S, Room(s)
    PROVE  /\ Append(s, x) \in Seq(S) /\ Len(Append(s, x)) <= MaxFlight
           /\ \A i \in DOMAIN Append(s, x) :
                 (i \in DOMAIN s /\ Append(s, x)[i] = s[i]) \/ (Append(s, x)[i] = x /\ i = Len(s) + 1)
  BY GateAssumption DEF Room

LEMMA TailGives ==
    ASSUME NEW S, NEW s \in Seq(S), Len(s) <= MaxFlight, s # <<>>
    PROVE  /\ Tail(s) \in Seq(S) /\ Len(Tail(s)) <= MaxFlight
           /\ Head(s) \in S /\ Head(s) = s[1] /\ 1 \in DOMAIN s
           /\ \A i \in DOMAIN Tail(s) : i + 1 \in DOMAIN s /\ Tail(s)[i] = s[i + 1]
  BY GateAssumption

(* When an exchange is over, nothing in flight belongs to one.             *)
LEMMA ForeignCommands ==
    ASSUME NEW s \in Seq(Command)
    PROVE  /\ Foreign(s) \in Seq(Command) /\ Len(Foreign(s)) = Len(s)
           /\ DOMAIN Foreign(s) = DOMAIN s
           /\ \A i \in DOMAIN s : Foreign(s)[i].on = s[i].on /\ ~Foreign(s)[i].mine
<1>1. DOMAIN Foreign(s) = 1..Len(s)  BY DEF Foreign
<1>2. ASSUME NEW i \in DOMAIN s
      PROVE  /\ Foreign(s)[i] \in Command
             /\ Foreign(s)[i].on = s[i].on /\ ~Foreign(s)[i].mine
  <2>1. s[i] \in Command  OBVIOUS
  <2>2. Foreign(s)[i] = [s[i] EXCEPT !.mine = FALSE]  BY DEF Foreign
  <2>q. QED  BY <2>1, <2>2 DEF Command
<1>3. Foreign(s) \in [1..Len(s) -> Command]  BY <1>1, <1>2 DEF Foreign
<1>q. QED  BY <1>1, <1>2, <1>3

LEMMA ForeignNotices ==
    ASSUME NEW s \in Seq(Notice)
    PROVE  /\ Foreign(s) \in Seq(Notice) /\ Len(Foreign(s)) = Len(s)
           /\ DOMAIN Foreign(s) = DOMAIN s
           /\ \A i \in DOMAIN s : ~Foreign(s)[i].mine
<1>1. DOMAIN Foreign(s) = 1..Len(s)  BY DEF Foreign
<1>2. ASSUME NEW i \in DOMAIN s
      PROVE  Foreign(s)[i] \in Notice /\ ~Foreign(s)[i].mine
  <2>1. s[i] \in Notice  OBVIOUS
  <2>2. Foreign(s)[i] = [s[i] EXCEPT !.mine = FALSE]  BY DEF Foreign
  <2>q. QED  BY <2>1, <2>2 DEF Notice
<1>3. Foreign(s) \in [1..Len(s) -> Notice]  BY <1>1, <1>2 DEF Foreign
<1>q. QED  BY <1>1, <1>2, <1>3

LEMMA OffIsCommand == Off \in Command /\ ~Off.on /\ ~Off.mine
  BY DEF Off, Command
-----------------------------------------------------------------------------
(* Types. *)

(* What the actions assign to the bridge's flags. *)
LEMMA BridgeValues ==
    ASSUME NEW b \in Bridge
    PROVE  /\ [b EXCEPT !.keeps = FALSE, !.authorized = FALSE, !.ttl = 0, !.receipt = FALSE] \in Bridge
           /\ \A p \in BOOLEAN, t \in 0..Ttl :
                [b EXCEPT !.authorized = p, !.keeps = p, !.ttl = t] \in Bridge
           /\ [b EXCEPT !.keeps = FALSE, !.authorized = FALSE, !.ttl = 0] \in Bridge
           /\ \A p \in BOOLEAN :
                [b EXCEPT !.armed = TRUE, !.authorized = FALSE, !.ttl = 0, !.keeps = FALSE,
                          !.receipt = p] \in Bridge
           /\ \A p, q \in BOOLEAN : [b EXCEPT !.armed = p, !.receipt = q] \in Bridge
           /\ [b EXCEPT !.connected = FALSE, !.authorized = FALSE, !.ttl = 0,
                        !.receipt = FALSE, !.keeps = FALSE] \in Bridge
           /\ \A t \in 0..Ttl : [b EXCEPT !.ttl = t] \in Bridge
<1>1. 0 \in 0..Ttl  BY GateAssumption
<1>2. /\ b.connected \in BOOLEAN /\ b.armed \in BOOLEAN /\ b.authorized \in BOOLEAN
      /\ b.ttl \in 0..Ttl /\ b.receipt \in BOOLEAN /\ b.keeps \in BOOLEAN
  BY DEF Bridge
<1>q. QED  BY ZenonT(60), <1>1, <1>2 DEF Bridge

LEMMA ExchangeValues ==
    ASSUME NEW e \in Exchange
    PROVE  /\ \A p \in BOOLEAN, a \in {"none", "accepted", "rejected"} :
                [e EXCEPT !.consumed = p, !.answer = a] \in Exchange
           /\ \A a \in {"none", "accepted", "rejected"} : [e EXCEPT !.answer = a] \in Exchange
           /\ \A t \in 0..AckWait : [e EXCEPT !.wait = t] \in Exchange
  BY ZenonT(60) DEF Exchange

LEMMA FinishTypes ==
    ASSUME call \in [Client -> Phase], want \in [Client -> BOOLEAN],
           NEW c \in Client, NEW o \in {"ok", "failed"}, Finish(c, o)
    PROVE  /\ call' \in [Client -> Phase] /\ want' \in [Client -> BOOLEAN]
           /\ exchange' \in Exchange
<1>1. NoExchange \in Exchange  BY GateAssumption DEF NoExchange, Exchange
<1>q. QED  BY <1>1 DEF Finish, Phase, Idle

LEMMA ScriptTypes ==
    ASSUME GateTypeOK, GateReceives \/ GateShuts \/ AttemptArm \/ SeesSwitchLow
    PROVE  GateTypeOK'
<1> USE GateAssumption DEF GateTypeOK
<1>0. Shut \in Gate  BY DEF Shut, Gate
<1>1. CASE GateReceives
  <2>1. PICK proper \in BOOLEAN :
            LET m == Head(up) IN
            /\ gate' = AfterCommand(m, proper)
            /\ down' = IF m.mine
                       THEN Send(down, [kind |-> "ack", mine |-> TRUE,
                                        good |-> ~m.on \/ OpensFor(m, proper)])
                       ELSE down
    BY <1>1 DEF GateReceives
  <2>2. up # <<>> /\ up' = Tail(up) /\ UNCHANGED <<vehicle, bridge, exchange, callVars, closed>>
    BY <1>1 DEF GateReceives
  <2>3. Head(up) \in Command /\ up' \in Seq(Command) /\ Len(up') <= MaxFlight
    BY <2>2, TailGives
  <2>4. gate' \in Gate
    <3>1. [open |-> TRUE, lease |-> Lease, high |-> gate.high] \in Gate  BY DEF Gate
    <3>q. QED  BY <1>0, <2>1, <3>1 DEF AfterCommand
  <2> DEFINE ack == [kind |-> "ack", mine |-> TRUE,
                     good |-> ~Head(up).on \/ OpensFor(Head(up), proper)]
  <2>5. ack \in Notice
    BY <2>3 DEF Notice, Command, OpensFor
  <2>6. down' \in Seq(Notice) /\ Len(down') <= MaxFlight
    BY <2>1, <2>5, SendGives
  <2>q. QED  BY <2>2, <2>3, <2>4, <2>6 DEF callVars
<1>2. CASE GateShuts
  BY <1>0, <1>2 DEF GateShuts, wireVars, callVars
<1>3. CASE AttemptArm
  <2>1. vehicle' \in [armed : BOOLEAN, switch : Switch]  BY <1>3 DEF AttemptArm
  <2>q. QED  BY <1>0, <1>3, <2>1 DEF AttemptArm, wireVars, callVars
<1>4. CASE SeesSwitchLow
  <2>1. gate' \in Gate  BY <1>4 DEF SeesSwitchLow, Gate
  <2>q. QED  BY <1>4, <2>1 DEF SeesSwitchLow, wireVars, callVars
<1>q. QED  BY <1>1, <1>2, <1>3, <1>4

LEMMA ClientTypes ==
    ASSUME GateTypeOK, NEW c \in Client, Prepare(c) \/ Transmit(c) \/ Conclude(c)
    PROVE  GateTypeOK'
<1> USE GateAssumption DEF GateTypeOK
<1>1. CASE Prepare(c)
  <2>1. line' \in Seq(Client)  BY <1>1 DEF Prepare
  <2>2. bridge' \in Bridge
    <3>1. Prepared(want[c]) \in Bridge  BY ZenonT(60), BridgeValues DEF Prepared
    <3>q. QED  BY SMTT(60), <1>1, <3>1 DEF Prepare
  <2>3. up' \in Seq(Command) /\ Len(up') <= MaxFlight
    BY <1>1, SendGives, OffIsCommand DEF Prepare
  <2>4. call' \in [Client -> Phase] /\ want' \in [Client -> BOOLEAN] /\ exchange' \in Exchange
    <3>1. [call EXCEPT ![c] = "prepared"] \in [Client -> Phase]  BY DEF Phase
    <3>q. QED  BY <1>1, <3>1, FinishTypes DEF Prepare
  <2>q. QED  BY <1>1, <2>1, <2>2, <2>3, <2>4 DEF Prepare
<1>2. CASE Transmit(c)
  <2>1. UNCHANGED <<gate, vehicle, down, bridge, line>>  BY <1>2 DEF Transmit
  <2>2. CASE \E o \in {"ok", "failed"} : Finish(c, o) /\ UNCHANGED <<up, closed>>
    BY <2>1, <2>2, FinishTypes
  <2>3. CASE /\ Room(up)
             /\ up' = Append(Foreign(up), [on |-> want[c], mine |-> TRUE])
             /\ exchange' = [on |-> want[c], wait |-> AckWait, answer |-> "none", consumed |-> FALSE]
             /\ call' = [call EXCEPT ![c] = "waiting"]
             /\ closed' = FALSE
             /\ UNCHANGED want
    <3>1. [on |-> want[c], mine |-> TRUE] \in Command  BY DEF Command
    <3>2. up' \in Seq(Command) /\ Len(up') <= MaxFlight
      BY <2>3, <3>1, ForeignCommands, AppendGives DEF Room
    <3>3. exchange' \in Exchange  BY <2>3 DEF Exchange
    <3>4. call' \in [Client -> Phase]  BY <2>3 DEF Phase
    <3>q. QED  BY <2>1, <2>3, <3>2, <3>3, <3>4
  <2>q. QED  BY <1>2, <2>2, <2>3 DEF Transmit
<1>3. CASE Conclude(c)
  <2>1. bridge' \in Bridge
    <3>1. Confirmed \in BOOLEAN  BY DEF Confirmed
    <3>2. (IF Confirmed THEN Ttl ELSE 0) \in 0..Ttl  OBVIOUS
    <3>q. QED  BY ZenonT(60), <1>3, <3>1, <3>2, BridgeValues DEF Conclude
  <2>2. up' \in Seq(Command) /\ Len(up') <= MaxFlight
    BY <1>3, ForeignCommands, SendGives, OffIsCommand DEF Conclude
  <2>3. down' \in Seq(Notice) /\ Len(down') <= MaxFlight
    BY <1>3, ForeignNotices DEF Conclude
  <2>4. \E o \in {"ok", "failed"} : Finish(c, o)  BY <1>3 DEF Conclude
  <2>5. closed' \in BOOLEAN  BY <1>3 DEF Conclude, Confirmed
  <2>q. QED  BY SMTT(60), <1>3, <2>1, <2>2, <2>3, <2>4, <2>5, FinishTypes DEF Conclude
<1>q. QED  BY <1>1, <1>2, <1>3

LEMMA TaskTypes ==
    ASSUME GateTypeOK, ReadBeat \/ ReadAck \/ KeepaliveEnds \/ KeepsAlive \/ ReaderFails
    PROVE  GateTypeOK'
<1> USE GateAssumption DEF GateTypeOK
<1>1. CASE ReadBeat
  <2>1. down # <<>> /\ down' = Tail(down) /\ Head(down) \in Notice
        /\ down' \in Seq(Notice) /\ Len(down') <= MaxFlight
    BY SMTT(60), <1>1, TailGives DEF ReadBeat
  <2>2. bridge' \in Bridge
    <3>1. (bridge.authorized /\ bridge.ttl > 0) \in BOOLEAN  OBVIOUS
    <3>2. Consumed \in Bridge  BY ZenonT(60), <3>1, BridgeValues DEF Consumed
    <3>3. Head(down).good \in BOOLEAN  BY SMTT(60), <2>1 DEF Notice
    <3>4. (bridge.receipt /\ Head(down).good) \in BOOLEAN  OBVIOUS
    <3>5. \/ bridge' = Consumed
          \/ bridge' = [bridge EXCEPT !.armed = Head(down).good,
                                      !.receipt = bridge.receipt /\ Head(down).good]
      BY <1>1 DEF ReadBeat
    <3>q. QED  BY ZenonT(60), <3>2, <3>3, <3>4, <3>5, BridgeValues
  <2>3. exchange' \in Exchange
    <3>1. exchange.on \in BOOLEAN /\ exchange.consumed \in BOOLEAN
          /\ exchange.answer \in {"none", "accepted", "rejected"}
      BY DEF Exchange
    <3> DEFINE p == exchange.consumed \/ exchange.on
               a == IF exchange.on /\ exchange.answer = "none"
                    THEN "rejected" ELSE exchange.answer
    <3>2. p \in BOOLEAN /\ a \in {"none", "accepted", "rejected"}  BY <3>1
    <3>3. \/ exchange' = [exchange EXCEPT !.consumed = p, !.answer = a]
          \/ exchange' = exchange
      BY <1>1 DEF ReadBeat
    <3> HIDE DEF p, a
    <3>q. QED  BY ZenonT(60), <3>2, <3>3, ExchangeValues
  <2>4. up' \in Seq(Command) /\ Len(up') <= MaxFlight
    <3>1. up' = Send(up, Off) \/ up' = up  BY <1>1 DEF ReadBeat
    <3>q. QED  BY <3>1, SendGives, OffIsCommand
  <2>q. QED  BY <1>1, <2>1, <2>2, <2>3, <2>4 DEF ReadBeat, callVars
<1>2. CASE ReadAck
  <2>1. down' \in Seq(Notice) /\ Len(down') <= MaxFlight
    BY <1>2, TailGives DEF ReadAck
  <2>2. exchange' \in Exchange  BY ZenonT(60), <1>2, ExchangeValues DEF ReadAck
  <2>q. QED  BY <1>2, <2>1, <2>2 DEF ReadAck, callVars
<1>3. CASE KeepaliveEnds
  <2>1. bridge' \in Bridge  BY ZenonT(60), <1>3, BridgeValues DEF KeepaliveEnds
  <2>2. up' \in Seq(Command) /\ Len(up') <= MaxFlight
    BY <1>3, SendGives, OffIsCommand DEF KeepaliveEnds
  <2>q. QED  BY SMTT(60), <1>3, <2>1, <2>2 DEF KeepaliveEnds, callVars
<1>4. CASE KeepsAlive
  <2>1. [on |-> TRUE, mine |-> FALSE] \in Command  BY DEF Command
  <2>2. up' \in Seq(Command) /\ Len(up') <= MaxFlight
    BY <1>4, <2>1, AppendGives DEF KeepsAlive
  <2>q. QED  BY <1>4, <2>2 DEF KeepsAlive, callVars
<1>5. CASE ReaderFails
  <2>1. bridge' \in Bridge  BY ZenonT(60), <1>5, BridgeValues DEF ReaderFails
  <2>2. exchange' \in Exchange  BY <1>5, ExchangeValues DEF ReaderFails
  <2>3. down' \in Seq(Notice) /\ Len(down') <= MaxFlight  BY <1>5 DEF ReaderFails
  <2>q. QED  BY SMTT(60), <1>5, <2>1, <2>2, <2>3 DEF ReaderFails, callVars
<1>q. QED  BY <1>1, <1>2, <1>3, <1>4, <1>5

LEMMA WorldTypes ==
    ASSUME GateTypeOK, Beat \/ Lose \/ Disarm \/ Elapse \/ \E s \in Positions : Pilot(s)
    PROVE  GateTypeOK'
<1> USE GateAssumption DEF GateTypeOK
<1>1. CASE Beat
  <2>1. [kind |-> "beat", good |-> vehicle.armed, mine |-> FALSE] \in Notice  BY DEF Notice
  <2>2. down' \in Seq(Notice) /\ Len(down') <= MaxFlight
    BY <1>1, <2>1, AppendGives DEF Beat
  <2>q. QED  BY <1>1, <2>2 DEF Beat, callVars
<1>2. CASE Lose
  <2>0. ((up # <<>> /\ up' = Tail(up)) \/ up' = up) /\ ((down # <<>> /\ down' = Tail(down)) \/ down' = down)
    BY <1>2 DEF Lose
  <2>1. up' \in Seq(Command) /\ Len(up') <= MaxFlight
    <3>1. CASE up' = up  BY <3>1
    <3>2. CASE up # <<>> /\ up' = Tail(up)  BY <3>2, TailGives
    <3>q. QED  BY <2>0, <3>1, <3>2
  <2>2. down' \in Seq(Notice) /\ Len(down') <= MaxFlight
    <3>1. CASE down' = down  BY <3>1
    <3>2. CASE down # <<>> /\ down' = Tail(down)  BY <3>2, TailGives
    <3>q. QED  BY <2>0, <3>1, <3>2
  <2>q. QED  BY <1>2, <2>1, <2>2 DEF Lose, callVars
<1>3. CASE Disarm  BY <1>3 DEF Disarm, wireVars, callVars
<1>4. CASE Elapse
  <2>0. \A M \in Nat : \A n \in 0..M : Less(n) \in 0..M  BY DEF Less
  <2>1. gate' \in Gate  BY <1>4, <2>0 DEF Elapse, Gate
  <2>2. Less(bridge.ttl) \in 0..Ttl /\ Less(exchange.wait) \in 0..AckWait
    BY SMTT(60), <2>0 DEF Bridge, Exchange
  <2>3. bridge' \in Bridge /\ exchange' \in Exchange
    BY ZenonT(60), <1>4, <2>2, BridgeValues, ExchangeValues DEF Elapse
  <2>q. QED  BY <1>4, <2>1, <2>3 DEF Elapse, wireVars, callVars
<1>5. CASE \E s \in Positions : Pilot(s)
  <2>1. vehicle' \in [armed : BOOLEAN, switch : Switch]  BY <1>5 DEF Pilot, Switch
  <2>q. QED  BY <1>5, <2>1 DEF Pilot, wireVars, callVars
<1>q. QED  BY <1>1, <1>2, <1>3, <1>4, <1>5

LEMMA CallerTypes ==
    ASSUME GateTypeOK, NEW c \in Client,
           Return(c) \/ \E on \in BOOLEAN : Request(c, on)
    PROVE  GateTypeOK'
<1> USE GateAssumption DEF GateTypeOK
<1>1. CASE Return(c)
  <2>1. call' \in [Client -> Phase]  BY <1>1 DEF Return, Phase, Idle
  <2>q. QED  BY <1>1, <2>1 DEF Return, wireVars
<1>2. CASE \E on \in BOOLEAN : Request(c, on)
  <2>1. PICK on \in BOOLEAN : Request(c, on)  BY <1>2
  <2>2. call' \in [Client -> Phase]  BY <2>1 DEF Request, Phase
  <2>3. want' \in [Client -> BOOLEAN] /\ line' \in Seq(Client)  BY <2>1 DEF Request
  <2>q. QED  BY <2>1, <2>2, <2>3 DEF Request, wireVars
<1>q. QED  BY <1>1, <1>2

(* The steps of the manager, seen from the gate. *)
ManagerCalls ==
    \/ UNCHANGED gateVars
    \/ \E c \in Client : Return(c) /\ call[c] \in Idle
    \/ \E c \in Client, on \in BOOLEAN : Request(c, on)

LEMMA StepKinds ==
    ASSUME [Next]_vars
    PROVE  ManagerCalls \/ LinkStep \/ Elapse
<1> USE CallersAssumption
<1>1. CASE UNCHANGED vars  BY <1>1 DEF vars, ManagerCalls
<1>2. CASE OperationStep
  BY <1>2 DEF OperationStep, Answered, Validate, RevokeReturns, WatchdogReturns, StopReturns,
              TickReturns, Revoke, ManagerCalls
<1>3. CASE CommitStep
  BY <1>3 DEF CommitStep, WriteState, SubscriberReturns, EnterFault, FinishTransition,
              Revoke, ManagerCalls
<1>4. CASE TickStep
  BY <1>4 DEF TickStep, Watchdog, UnauthorizedArm, Refresh, TickCommits, Revoke, ManagerCalls
<1>5. CASE Authorize \/ RevokeByOperator \/ Depart \/ ComeBack \/ ClearFault
  BY <1>5 DEF Authorize, RevokeByOperator, Depart, ComeBack, ClearFault, Revoke, ManagerCalls
<1>q. QED  BY <1>1, <1>2, <1>3, <1>4, <1>5 DEF Next, TimePasses

LEMMA GateTypesKept ==
    ASSUME GateTypeOK, [Next]_vars
    PROVE  GateTypeOK'
<1>1. CASE UNCHANGED gateVars
  BY <1>1 DEF GateTypeOK, gateVars, wireVars, callVars
<1>q. QED
  BY <1>1, StepKinds, ScriptTypes, ClientTypes, TaskTypes, WorldTypes, CallerTypes
     DEF ManagerCalls, LinkStep, BridgeStep, GateStep
-----------------------------------------------------------------------------
(* An acknowledged revoke is final.                                        *)
(*                                                                         *)
(* That the gate is shut when the acknowledgement is taken is not enough:  *)
(* nothing that could open it again may be in flight, and nobody may send  *)
(* it.  The keepalive is silent from the moment the lock is taken; what    *)
(* was sent before the revoke arrives before it; and once the revoke was   *)
(* received only closing messages follow.                                  *)

Waits == \E c \in Client : call[c] = "waiting"
Prepares == \E c \in Client : call[c] = "prepared"

OneHolder == \A c, d \in Client : Holding(c) /\ Holding(d) => c = d
PreparedIsQuiet == Prepares => ~bridge.keeps
RevokeIsLast ==
    Waits /\ ~exchange.on =>
        /\ ~bridge.keeps /\ OffAfterMine(up)
        /\ exchange.answer = "accepted" \/ GoodAck(down) => ~gate.open /\ AllOff(up)
NothingMine == ~Waits => NoMine(up) /\ NoMine(down)
ClosedIsQuiet == closed => ~gate.open /\ AllOff(up) /\ ~bridge.keeps /\ ~Waits

RevokeInv == OneHolder /\ PreparedIsQuiet /\ RevokeIsLast /\ NothingMine /\ ClosedIsQuiet

(* What a queue keeps when it loses its head or gets a closing message.    *)
NoWorse(s, t) ==
    /\ AllOff(s) => AllOff(t)
    /\ OffAfterMine(s) => OffAfterMine(t)
    /\ NoMine(s) => NoMine(t)

LEMMA OffIsNoWorse ==
    ASSUME NEW s \in Seq(Command), Len(s) <= MaxFlight
    PROVE  NoWorse(s, Send(s, Off))
<1> DEFINE t == Send(s, Off)
<1>1. \A i \in DOMAIN t : (i \in DOMAIN s /\ t[i] = s[i]) \/ (t[i] = Off /\ i = Len(s) + 1)
  BY SendGives, OffIsCommand
<1>2. DOMAIN s = 1..Len(s) /\ Len(s) \in Nat  OBVIOUS
<1>3. OffAfterMine(s) => OffAfterMine(t)
  <2> SUFFICES ASSUME OffAfterMine(s), NEW i \in DOMAIN t, NEW j \in DOMAIN t, t[i].mine, i <= j
               PROVE  ~t[j].on
    BY DEF OffAfterMine
  <2>1. i \in DOMAIN s /\ t[i] = s[i]  BY <1>1, OffIsCommand
  <2>2. CASE t[j] = Off  BY <2>2, OffIsCommand
  <2>3. CASE j \in DOMAIN s /\ t[j] = s[j]  BY <2>1, <2>3 DEF OffAfterMine
  <2>q. QED  BY <1>1, <2>2, <2>3
<1>4. AllOff(s) => AllOff(t)  BY <1>1, OffIsCommand DEF AllOff
<1>5. NoMine(s) => NoMine(t)  BY <1>1, OffIsCommand DEF NoMine
<1>q. QED  BY <1>3, <1>4, <1>5 DEF NoWorse

LEMMA TailIsNoWorse ==
    ASSUME NEW s \in Seq(Command), Len(s) <= MaxFlight, s # <<>>
    PROVE  NoWorse(s, Tail(s))
<1>1. \A i \in DOMAIN Tail(s) : i + 1 \in DOMAIN s /\ Tail(s)[i] = s[i + 1] /\ i \in Nat
  BY TailGives
<1>2. OffAfterMine(s) => OffAfterMine(Tail(s))  BY <1>1 DEF OffAfterMine
<1>3. AllOff(s) => AllOff(Tail(s))  BY <1>1 DEF AllOff
<1>4. NoMine(s) => NoMine(Tail(s))  BY <1>1 DEF NoMine
<1>q. QED  BY <1>2, <1>3, <1>4 DEF NoWorse

(* Every step but the calls of the bridge, the gate's receipt and the      *)
(* keepalive's message is steady.                                          *)
Steady ==
    /\ \A d \in Client : (call'[d] = "waiting" <=> call[d] = "waiting")
                      /\ (call'[d] = "prepared" <=> call[d] = "prepared")
    /\ gate'.open => gate.open
    /\ bridge'.keeps => bridge.keeps
    /\ exchange'.on = exchange.on
    /\ exchange'.answer = "accepted" => exchange.answer = "accepted" \/ GoodAck(down)
    /\ NoWorse(up, up')
    /\ GoodAck(down') => GoodAck(down)
    /\ NoMine(down) => NoMine(down')
    /\ closed' = closed

LEMMA SteadyKeeps ==
    ASSUME RevokeInv, Steady
    PROVE  RevokeInv'
<1>1. (Waits' <=> Waits) /\ (Prepares' <=> Prepares)  BY DEF Steady, Waits, Prepares
<1>2. \A d \in Client : Holding(d)' <=> Holding(d)  BY DEF Steady, Holding
<1>3. OneHolder'  BY <1>2 DEF RevokeInv, OneHolder
<1>4. PreparedIsQuiet'  BY <1>1 DEF RevokeInv, Steady, PreparedIsQuiet
<1>5. RevokeIsLast'  BY <1>1 DEF RevokeInv, Steady, RevokeIsLast, NoWorse
<1>6. NothingMine'  BY <1>1 DEF RevokeInv, Steady, NothingMine, NoWorse
<1>7. ClosedIsQuiet'  BY <1>1 DEF RevokeInv, Steady, ClosedIsQuiet, NoWorse
<1>q. QED  BY <1>3, <1>4, <1>5, <1>6, <1>7 DEF RevokeInv

LEMMA SteadySteps ==
    ASSUME GateTypeOK,
           \/ ManagerCalls \/ Elapse
           \/ GateShuts \/ AttemptArm \/ SeesSwitchLow \/ Disarm \/ Beat \/ Lose
           \/ ReadBeat \/ ReadAck \/ KeepaliveEnds \/ ReaderFails
           \/ \E s \in Positions : Pilot(s)
    PROVE  Steady
<1> USE GateAssumption
<1>0. /\ NoWorse(up, up) /\ bridge \in Bridge /\ exchange \in Exchange /\ gate \in Gate
      /\ call \in [Client -> Phase]
  BY DEF NoWorse, GateTypeOK
<1>off. NoWorse(up, Send(up, Off))  BY OffIsNoWorse DEF GateTypeOK
<1>down. ASSUME down # <<>>, down' = Tail(down)
         PROVE  /\ GoodAck(down') => GoodAck(down)
                /\ NoMine(down) => NoMine(down')
  <2>1. \A i \in DOMAIN down' : i + 1 \in DOMAIN down /\ down'[i] = down[i + 1]
    BY <1>down, TailGives DEF GateTypeOK
  <2>q. QED  BY <2>1 DEF GoodAck, NoMine
<1>1. CASE UNCHANGED gateVars
  BY <1>0, <1>1 DEF Steady, gateVars, wireVars, callVars
<1>2. ASSUME NEW c \in Client, Return(c), call[c] \in Idle PROVE Steady
  BY <1>0, <1>2 DEF Steady, Return, wireVars, Idle
<1>3. ASSUME NEW c \in Client, NEW on \in BOOLEAN, Request(c, on) PROVE Steady
  BY <1>0, <1>3 DEF Steady, Request, wireVars, Idle
<1>4. CASE Elapse
  BY <1>0, <1>4 DEF Steady, Elapse, wireVars, callVars, Gate, Bridge, Exchange
<1>5. CASE GateShuts \/ AttemptArm \/ SeesSwitchLow
  BY <1>0, <1>5 DEF Steady, GateShuts, AttemptArm, SeesSwitchLow, wireVars, callVars, Gate, Shut
<1>6. CASE Disarm \/ \E s \in Positions : Pilot(s)
  BY <1>0, <1>6 DEF Steady, Disarm, Pilot, wireVars, callVars
<1>7. CASE Beat
  <2>1. down' = Append(down, [kind |-> "beat", good |-> vehicle.armed, mine |-> FALSE])
    BY <1>7 DEF Beat
  <2>2. \A i \in DOMAIN down' :
          (i \in DOMAIN down /\ down'[i] = down[i]) \/ (down'[i].kind = "beat" /\ ~down'[i].mine)
    BY <2>1 DEF GateTypeOK
  <2>3. (GoodAck(down') => GoodAck(down)) /\ (NoMine(down) => NoMine(down'))
    BY <2>2 DEF GoodAck, NoMine
  <2>q. QED  BY <1>0, <1>7, <2>3 DEF Steady, Beat, callVars
<1>8. CASE Lose
  <2>1. CASE up # <<>> /\ up' = Tail(up) /\ UNCHANGED down
    BY <1>0, <1>8, <2>1, TailIsNoWorse DEF Steady, Lose, callVars, GateTypeOK
  <2>2. CASE down # <<>> /\ down' = Tail(down) /\ UNCHANGED up
    BY <1>0, <1>8, <2>2, <1>down DEF Steady, Lose, callVars
  <2>q. QED  BY <1>8, <2>1, <2>2 DEF Lose
<1>9. CASE ReadBeat
  <2>1. (GoodAck(down') => GoodAck(down)) /\ (NoMine(down) => NoMine(down'))
    BY <1>9, <1>down DEF ReadBeat
  <2>2. bridge'.keeps => bridge.keeps
    BY <1>0, <1>9 DEF ReadBeat, Consumed, Bridge
  <2>3. exchange'.on = exchange.on /\ (exchange'.answer = "accepted" => exchange.answer = "accepted")
    BY <1>0, <1>9 DEF ReadBeat, Exchange
  <2>4. NoWorse(up, up')  BY <1>0, <1>off, <1>9 DEF ReadBeat
  <2>q. QED  BY <1>9, <2>1, <2>2, <2>3, <2>4 DEF Steady, ReadBeat, callVars
<1>10. CASE ReadAck
  <2>1. (GoodAck(down') => GoodAck(down)) /\ (NoMine(down) => NoMine(down'))
    BY <1>10, <1>down DEF ReadAck
  <2>2. Head(down) = down[1] /\ 1 \in DOMAIN down
    BY <1>10, TailGives DEF ReadAck, GateTypeOK
  <2>3. /\ exchange'.on = exchange.on
        /\ exchange'.answer = "accepted" => exchange.answer = "accepted" \/ GoodAck(down)
    BY <1>0, <1>10, <2>2 DEF ReadAck, Exchange, GoodAck
  <2>q. QED  BY <1>0, <1>10, <2>1, <2>3 DEF Steady, ReadAck, callVars
<1>11. CASE KeepaliveEnds
  <2>1. bridge'.keeps => bridge.keeps  BY <1>0, <1>11 DEF KeepaliveEnds, Bridge
  <2>2. NoWorse(up, up')  BY <1>0, <1>off, <1>11 DEF KeepaliveEnds
  <2>q. QED  BY <1>11, <2>1, <2>2 DEF Steady, KeepaliveEnds, callVars
<1>12. CASE ReaderFails
  <2>1. bridge'.keeps => bridge.keeps  BY <1>0, <1>12 DEF ReaderFails, Bridge
  <2>2. exchange'.on = exchange.on /\ (exchange'.answer = "accepted" => exchange.answer = "accepted")
    BY <1>0, <1>12 DEF ReaderFails, Exchange
  <2>3. ~GoodAck(down') /\ NoMine(down')  BY <1>12 DEF ReaderFails, GoodAck, NoMine
  <2>q. QED  BY <1>0, <1>12, <2>1, <2>2, <2>3 DEF Steady, ReaderFails, callVars
<1>q. QED
  BY <1>1, <1>2, <1>3, <1>4, <1>5, <1>6, <1>7, <1>8, <1>9, <1>10, <1>11, <1>12 DEF ManagerCalls

(* The gate's receipt of the revoke is the point after which nothing that  *)
(* could open it is in flight.                                             *)
LEMMA ReceiptKeeps ==
    ASSUME GateTypeOK, RevokeInv, GateReceives
    PROVE  RevokeInv'
<1>1. PICK proper \in BOOLEAN :
        /\ gate' = AfterCommand(up[1], proper)
        /\ down' = IF up[1].mine
                   THEN Send(down, [kind |-> "ack", mine |-> TRUE,
                                    good |-> ~up[1].on \/ OpensFor(up[1], proper)])
                   ELSE down
  <2>1. Head(up) = up[1]  BY TailGives DEF GateReceives, GateTypeOK
  <2>q. QED  BY <2>1 DEF GateReceives
<1>2. /\ up # <<>> /\ up' = Tail(up) /\ UNCHANGED <<bridge, exchange, call, closed>>
      /\ up \in Seq(Command) /\ down \in Seq(Notice) /\ 1 \in DOMAIN up /\ up[1] \in Command
  BY DEF GateReceives, callVars, GateTypeOK
<1>3. NoWorse(up, up')  BY <1>2, TailIsNoWorse DEF GateTypeOK
<1>4. AllOff(up) => ~gate'.open
  BY <1>1, <1>2 DEF AllOff, AfterCommand, OpensFor, Shut
<1>5. ~up[1].mine => down' = down  BY <1>1
<1>6. up[1].mine /\ OffAfterMine(up) => AllOff(up)
  <2>1. \A j \in DOMAIN up : 1 <= j  BY <1>2
  <2>q. QED  BY <1>2, <2>1 DEF OffAfterMine, AllOff
<1>7. (Waits' <=> Waits) /\ (Prepares' <=> Prepares)  BY <1>2 DEF Waits, Prepares
<1>8. OneHolder' /\ PreparedIsQuiet'
  BY <1>2, <1>7 DEF RevokeInv, OneHolder, PreparedIsQuiet, Holding
<1>9. RevokeIsLast'
  BY <1>2, <1>3, <1>4, <1>5, <1>6, <1>7 DEF RevokeInv, RevokeIsLast, NoWorse
<1>10. NothingMine'
  BY <1>2, <1>3, <1>5, <1>7 DEF RevokeInv, NothingMine, NoMine, NoWorse
<1>11. ClosedIsQuiet'
  BY <1>2, <1>3, <1>4, <1>7 DEF RevokeInv, ClosedIsQuiet, NoWorse
<1>q. QED  BY <1>8, <1>9, <1>10, <1>11 DEF RevokeInv

LEMMA KeepaliveKeeps ==
    ASSUME GateTypeOK, RevokeInv, KeepsAlive
    PROVE  RevokeInv'
<1> DEFINE m == [on |-> TRUE, mine |-> FALSE]
<1>1. /\ bridge.keeps /\ up' = Append(up, m)
      /\ UNCHANGED <<gate, down, bridge, exchange, call, closed>>
  BY DEF KeepsAlive, callVars
<1>2. NoMine(up) => NoMine(up')
  <2>1. \A i \in DOMAIN up' : (i \in DOMAIN up /\ up'[i] = up[i]) \/ up'[i] = m
    BY <1>1 DEF GateTypeOK
  <2>q. QED  BY <2>1 DEF NoMine
<1>3. (Waits' <=> Waits) /\ (Prepares' <=> Prepares)  BY <1>1 DEF Waits, Prepares
<1>4. OneHolder' /\ PreparedIsQuiet'
  BY <1>1, <1>3 DEF RevokeInv, OneHolder, PreparedIsQuiet, Holding
<1>5. RevokeIsLast'  BY <1>1, <1>3 DEF RevokeInv, RevokeIsLast
<1>6. NothingMine'  BY <1>1, <1>2, <1>3 DEF RevokeInv, NothingMine
<1>7. ClosedIsQuiet'  BY <1>1, <1>3 DEF RevokeInv, ClosedIsQuiet
<1>q. QED  BY <1>4, <1>5, <1>6, <1>7 DEF RevokeInv

LEMMA PrepareKeeps ==
    ASSUME GateTypeOK, RevokeInv, NEW c \in Client, Prepare(c)
    PROVE  RevokeInv'
<1>1. call \in [Client -> Phase] /\ bridge \in Bridge /\ NoWorse(up, up)
  BY DEF GateTypeOK, NoWorse
<1>2. ~Waits /\ ~Prepares  BY DEF Prepare, LockFree, Holding, Waits, Prepares
<1>3. \A d \in Client : d # c => call'[d] = call[d]  BY <1>1 DEF Prepare, Finish
<1>4. call'[c] \in {"failed", "prepared"}  BY <1>1 DEF Prepare, Finish
<1>5. ~Waits'  BY <1>2, <1>3, <1>4 DEF Waits
<1>6. OneHolder'  BY <1>2, <1>3 DEF OneHolder, Holding, Waits, Prepares
<1>7. (Prepares' => ~bridge'.keeps) /\ (bridge'.keeps => bridge.keeps)
  <2>1. CASE want[c] /\ (~bridge.connected \/ bridge.armed)
    BY <1>1, <1>2, <1>3, <2>1 DEF Prepare, Finish, Prepares
  <2>2. CASE ~(want[c] /\ (~bridge.connected \/ bridge.armed))
    BY <1>1, <2>2 DEF Prepare, Prepared, Bridge
  <2>q. QED  BY <2>1, <2>2
<1>8. NoWorse(up, up')  BY <1>1, OffIsNoWorse DEF Prepare, GateTypeOK
<1>9. UNCHANGED <<gate, down, closed>>  BY DEF Prepare
<1>q. QED
  BY <1>2, <1>5, <1>6, <1>7, <1>8, <1>9
     DEF RevokeInv, PreparedIsQuiet, RevokeIsLast, NothingMine, ClosedIsQuiet, NoWorse

LEMMA TransmitKeeps ==
    ASSUME GateTypeOK, RevokeInv, NEW c \in Client, Transmit(c)
    PROVE  RevokeInv'
<1>1. call \in [Client -> Phase] /\ up \in Seq(Command) /\ DOMAIN up = 1..Len(up) /\ Len(up) \in Nat
  BY DEF GateTypeOK
<1>2. /\ call[c] = "prepared" /\ UNCHANGED <<gate, down, bridge>>
      /\ \A d \in Client : d # c => ~Holding(d)
  BY DEF Transmit, RevokeInv, OneHolder, Holding
<1>3. ~Waits /\ Prepares  BY <1>2 DEF Waits, Prepares, Holding
<1>4. ~bridge.keeps /\ NoMine(up) /\ NoMine(down)
  BY <1>3 DEF RevokeInv, PreparedIsQuiet, NothingMine
<1>5. \A d \in Client : d # c => call'[d] = call[d]  BY <1>1 DEF Transmit, Finish
<1>6. OneHolder' /\ ~Prepares'
  <2>1. call'[c] # "prepared"  BY <1>1 DEF Transmit, Finish
  <2>q. QED  BY <1>2, <1>5, <2>1 DEF OneHolder, Prepares, Holding
<1>7. CASE \E o \in {"ok", "failed"} : Finish(c, o) /\ UNCHANGED <<up, closed>>
  <2>1. ~Waits'  BY <1>1, <1>2, <1>5, <1>7 DEF Finish, Waits, Holding
  <2>q. QED
    BY <1>2, <1>4, <1>6, <1>7, <2>1
       DEF RevokeInv, PreparedIsQuiet, RevokeIsLast, NothingMine, ClosedIsQuiet
<1>8. CASE /\ up' = Append(Foreign(up), [on |-> want[c], mine |-> TRUE])
           /\ exchange' = [on |-> want[c], wait |-> AckWait, answer |-> "none", consumed |-> FALSE]
           /\ call' = [call EXCEPT ![c] = "waiting"]
           /\ closed' = FALSE
  <2>1. Waits'  BY <1>1, <1>8 DEF Waits
  <2>2. \A i \in DOMAIN up' : (i < Len(up) + 1 /\ ~up'[i].mine) \/ (i = Len(up) + 1 /\ up'[i].on = want[c])
    BY <1>1, <1>8, ForeignCommands
  <2>3. ~want[c] => OffAfterMine(up')
    <3>1. \A i, j \in DOMAIN up' : i <= j /\ i = Len(up) + 1 => j = Len(up) + 1
      BY <1>1, <1>8, ForeignCommands
    <3>q. QED  BY <1>1, <2>2, <3>1 DEF OffAfterMine
  <2>4. ~GoodAck(down')  BY <1>2, <1>4 DEF GoodAck, NoMine
  <2>5. RevokeIsLast'  BY <1>2, <1>4, <1>8, <2>3, <2>4 DEF RevokeIsLast
  <2>q. QED
    BY <1>2, <1>4, <1>6, <1>8, <2>1, <2>5
       DEF RevokeInv, PreparedIsQuiet, NothingMine, ClosedIsQuiet
<1>q. QED  BY <1>7, <1>8 DEF Transmit

LEMMA ConcludeKeeps ==
    ASSUME GateTypeOK, RevokeInv, NEW c \in Client, Conclude(c)
    PROVE  RevokeInv'
<1>1. /\ call \in [Client -> Phase] /\ up \in Seq(Command) /\ Len(up) <= MaxFlight
      /\ down \in Seq(Notice)
  BY DEF GateTypeOK
<1>2. call[c] = "waiting" /\ UNCHANGED gate /\ \A d \in Client : d # c => ~Holding(d)
  BY DEF Conclude, RevokeInv, OneHolder, Holding
<1>3. \A d \in Client : d # c => call'[d] = call[d]  BY <1>1 DEF Conclude, Finish
<1>4. call'[c] \in {"ok", "failed"}  BY <1>1 DEF Conclude, Finish
<1>5. OneHolder' /\ ~Prepares' /\ ~Waits'
  BY <1>2, <1>3, <1>4 DEF OneHolder, Prepares, Waits, Holding
<1>6. Foreign(up) \in Seq(Command) /\ Len(Foreign(up)) <= MaxFlight /\ NoMine(Foreign(up))
      /\ (AllOff(up) => AllOff(Foreign(up)))
  BY <1>1, ForeignCommands DEF NoMine, AllOff
<1>7. up' \in {Foreign(up), Send(Foreign(up), Off)}  BY DEF Conclude
<1>8. NoMine(up') /\ NoMine(down')
  <2>1. NoMine(down')  BY <1>1, ForeignNotices DEF Conclude, NoMine
  <2>q. QED  BY <1>6, <1>7, <2>1, OffIsNoWorse DEF NoWorse
<1>9. ClosedIsQuiet'
  <2> SUFFICES ASSUME closed' PROVE ~gate'.open /\ AllOff(up') /\ ~bridge'.keeps /\ ~Waits'
    BY DEF ClosedIsQuiet
  <2>1. exchange.answer = "accepted" /\ ~exchange.on  BY DEF Conclude, Confirmed
  <2>2. Waits  BY <1>2 DEF Waits
  <2>3. ~bridge.keeps /\ ~gate.open /\ AllOff(up)
    BY <2>1, <2>2 DEF RevokeInv, RevokeIsLast
  <2>4. bridge' = bridge  BY <2>1 DEF Conclude
  <2>q. QED  BY <1>2, <1>5, <1>6, <1>7, <2>3, <2>4, OffIsNoWorse DEF NoWorse
<1>q. QED
  BY <1>5, <1>8, <1>9 DEF RevokeInv, PreparedIsQuiet, RevokeIsLast, NothingMine

LEMMA RevokeInvKept ==
    ASSUME GateTypeOK, RevokeInv, [Next]_vars
    PROVE  RevokeInv'
<1>1. ManagerCalls \/ LinkStep \/ Elapse  BY StepKinds
<1>2. CASE ManagerCalls \/ Elapse  BY <1>2, SteadySteps, SteadyKeeps
<1>3. CASE LinkStep
  BY <1>3, SteadySteps, SteadyKeeps, ReceiptKeeps, KeepaliveKeeps, PrepareKeeps,
     TransmitKeeps, ConcludeKeeps
     DEF LinkStep, BridgeStep, GateStep
<1>q. QED  BY <1>1, <1>2, <1>3

(* The types of the gate, of the link and of the bridge.                   *)
LEMMA GateInitTypes ==
    ASSUME Init
    PROVE  GateTypeOK /\ RevokeInv
<1>1. GateTypeOK
  <2>1. gate \in Gate /\ vehicle \in [armed : BOOLEAN, switch : Switch]
    BY GateAssumption DEF Init, GateInit, Gate, Shut, Switch
  <2>2. bridge \in Bridge /\ exchange \in Exchange
    BY GateAssumption DEF Init, GateInit, Bridge, Exchange, NoExchange
  <2>3. call \in [Client -> Phase] /\ want \in [Client -> BOOLEAN]
    BY DEF Init, GateInit, Phase, Idle
  <2>4. up \in Seq(Command) /\ down \in Seq(Notice) /\ line \in Seq(Client)
        /\ Len(up) <= MaxFlight /\ Len(down) <= MaxFlight /\ closed \in BOOLEAN
    <3>1. up = <<>> /\ down = <<>> /\ line = <<>> /\ closed = FALSE  BY DEF Init, GateInit
    <3>2. MaxFlight \in Nat /\ Len(<<>>) <= MaxFlight  BY GateAssumption
    <3>3. <<>> \in Seq(Command) /\ <<>> \in Seq(Notice) /\ <<>> \in Seq(Client)  OBVIOUS
    <3>q. QED  BY ONLY <3>1, <3>2, <3>3, Zenon
  <2>q. QED  BY <2>1, <2>2, <2>3, <2>4 DEF GateTypeOK
<1>2. RevokeInv
  BY DEF Init, GateInit, RevokeInv, OneHolder, PreparedIsQuiet, RevokeIsLast, NothingMine,
     ClosedIsQuiet, Holding, Waits, Prepares, NoMine
<1>q. QED  BY <1>1, <1>2

(* A revoke the gate acknowledged is final: the gate does not open again   *)
(* before the next authorization is sent, whatever was in flight.          *)
THEOREM RevokeIsFinal == Spec => []RevokedStaysShut
<1>1. GateTypeOK /\ RevokeInv /\ [Next]_vars => (GateTypeOK /\ RevokeInv)'
  BY GateTypesKept, RevokeInvKept
<1>2. RevokeInv => RevokedStaysShut  BY DEF RevokeInv, ClosedIsQuiet, RevokedStaysShut
<1>q. QED  BY <1>1, <1>2, GateInitTypes, PTL DEF Spec
-----------------------------------------------------------------------------
(* The manager. *)

ManagerTypes ==
    /\ mode \in Mode /\ flag \in BOOLEAN /\ left \in 0..Ttl
    /\ op \in Operating /\ away \in 0..MaxAway
    /\ change \in [to : Mode, pc : Committing, muted : BOOLEAN]

LEMMA BeginsTypes ==
    ASSUME ManagerTypes, NEW to \in Mode, NEW muted \in BOOLEAN, Begins(to, muted)
    PROVE  change' \in [to : Mode, pc : Committing, muted : BOOLEAN]
  BY DEF Begins, ManagerTypes, Committing

LEMMA CommitTypes ==
    ASSUME ManagerTypes, CommitStep
    PROVE  ManagerTypes'
<1> USE GateAssumption DEF ManagerTypes
<1>0. 0 \in 0..Ttl /\ 0 \in 0..MaxAway  BY DEF MaxAway
<1>1. \A pc \in Committing, muted \in BOOLEAN :
        /\ [change EXCEPT !.pc = pc] \in [to : Mode, pc : Committing, muted : BOOLEAN]
        /\ [change EXCEPT !.muted = muted] \in [to : Mode, pc : Committing, muted : BOOLEAN]
  OBVIOUS
<1>2. CASE WriteState
  <2>1. change' \in [to : Mode, pc : Committing, muted : BOOLEAN]
    BY <1>1, <1>2 DEF WriteState, Stays, Committing
  <2>2. mode' \in Mode /\ away' \in 0..MaxAway /\ UNCHANGED op
    BY <1>0, <1>2 DEF WriteState
  <2>3. flag' \in BOOLEAN /\ left' \in 0..Ttl
    BY <1>0, <1>2 DEF WriteState, Revoke
  <2>q. QED  BY <2>1, <2>2, <2>3
<1>3. CASE SubscriberReturns
  <2>1. [to |-> "FAULT", pc |-> "written", muted |-> FALSE]
            \in [to : Mode, pc : Committing, muted : BOOLEAN]
    BY DEF Mode, Committing
  <2>2. change' \in [to : Mode, pc : Committing, muted : BOOLEAN]
    BY <1>1, <1>3, <2>1 DEF SubscriberReturns, Stays, Committing
  <2>q. QED  BY <1>3, <2>2 DEF SubscriberReturns
<1>4. CASE EnterFault
  BY <1>0, <1>1, <1>4 DEF EnterFault, Revoke
<1>5. CASE FinishTransition
  <2>1. NoChange \in [to : Mode, pc : Committing, muted : BOOLEAN]
    BY DEF NoChange, Mode, Committing
  <2>q. QED  BY <1>5, <2>1 DEF FinishTransition
<1>q. QED  BY <1>2, <1>3, <1>4, <1>5 DEF CommitStep

LEMMA OperationTypes ==
    ASSUME ManagerTypes, OperationStep \/ TickStep \/ Authorize \/ RevokeByOperator
    PROVE  ManagerTypes'
<1> USE GateAssumption DEF ManagerTypes
<1>0. 0 \in 0..Ttl /\ Ttl \in 0..Ttl  OBVIOUS
<1>1. CASE Answered \/ Validate \/ RevokeReturns
  BY <1>0, <1>1 DEF Answered, Validate, RevokeReturns, Revoke, Done, Operating
<1>2. CASE WatchdogReturns \/ StopReturns
  <2>1. change' \in [to : Mode, pc : Committing, muted : BOOLEAN]
    BY <1>2, BeginsTypes DEF WatchdogReturns, StopReturns, Mode
  <2>q. QED  BY <1>2, <2>1 DEF WatchdogReturns, StopReturns, Done, Operating
<1>3. CASE TickReturns  BY <1>3 DEF TickReturns, Done, Operating
<1>4. CASE Watchdog \/ UnauthorizedArm \/ Refresh
  BY <1>0, <1>4 DEF Watchdog, UnauthorizedArm, Refresh, Revoke, Operating
<1>5. CASE \E to \in {"FLIGHT_READY", "FLIGHT_MANUAL"} : TickCommits(to)
  <2>1. change' \in [to : Mode, pc : Committing, muted : BOOLEAN]
    BY <1>5, BeginsTypes DEF TickCommits, Mode
  <2>q. QED  BY <1>5, <2>1 DEF TickCommits, Operating
<1>6. CASE Authorize \/ RevokeByOperator
  BY <1>0, <1>6 DEF Authorize, RevokeByOperator, Revoke, Operating
<1>q. QED  BY <1>1, <1>2, <1>3, <1>4, <1>5, <1>6 DEF OperationStep, TickStep

LEMMA ManagerTypesKept ==
    ASSUME ManagerTypes, [Next]_vars
    PROVE  ManagerTypes'
<1>1. CASE UNCHANGED managerVars  BY <1>1 DEF ManagerTypes, managerVars
<1>2. CASE Depart \/ ComeBack \/ ClearFault
  <2>1. change' \in [to : Mode, pc : Committing, muted : BOOLEAN]
    BY <1>2, BeginsTypes DEF Depart, ComeBack, ClearFault, Mode
  <2>q. QED  BY <1>2, <2>1 DEF Depart, ComeBack, ClearFault, ManagerTypes
<1>3. CASE TimePasses
  <2>1. Less(left) \in 0..Ttl  BY GateAssumption DEF ManagerTypes, Less
  <2>2. away' \in 0..MaxAway  BY <1>3, GateAssumption DEF TimePasses, ManagerTypes, MaxAway
  <2>q. QED  BY <1>3, <2>1, <2>2 DEF TimePasses, ManagerTypes
<1>q. QED  BY <1>1, <1>2, <1>3, CommitTypes, OperationTypes DEF Next, vars

LEMMA TypesKept == TypeOK /\ [Next]_vars => TypeOK'
  BY GateTypesKept, ManagerTypesKept DEF TypeOK, ManagerTypes

LEMMA TypesInitially == Init /\ GateTypeOK => TypeOK
<1> SUFFICES ASSUME Init, GateTypeOK PROVE TypeOK  OBVIOUS
<1>1. AckWait \in Nat /\ Lease \in Nat /\ Ttl \in Nat  BY GateAssumption
<1>2. left \in 0..Ttl /\ away \in 0..MaxAway  BY <1>1 DEF Init, MaxAway
<1>3. mode \in Mode /\ flag \in BOOLEAN /\ op \in Operating  BY DEF Init, Mode, Operating
<1>4. change \in [to : Mode, pc : Committing, muted : BOOLEAN]
  BY DEF Init, NoChange, Mode, Committing
<1>q. QED  BY <1>2, <1>3, <1>4 DEF TypeOK

(* What the actions assign stays within the types, whatever the lease, the *)
(* waiting time and the capacity of the link.                              *)
THEOREM TypeCorrect == Spec => []TypeOK
BY TypesInitially, GateInitTypes, TypesKept, PTL DEF Spec

(* Apart from the write of a new state and the passing of time, a step     *)
(* leaves the state and its age alone, and the manager asks the bridge for *)
(* a revoke, or for an authorization in FLIGHT_READY.                      *)
ManagerStep ==
    /\ UNCHANGED <<mode, away>>
    /\ \/ UNCHANGED gateVars
       \/ \E c \in Client : Return(c) /\ call[c] \in Idle
       \/ \E c \in Client : Request(c, FALSE)
       \/ mode = "FLIGHT_READY" /\ Request(Operation, TRUE)

LEMMA StepForms ==
    ASSUME [Next]_vars
    PROVE  WriteState \/ TimePasses \/ (LinkStep /\ UNCHANGED managerVars) \/ ManagerStep
<1> USE CallersAssumption
<1>1. CASE UNCHANGED vars  BY <1>1 DEF vars, managerVars, ManagerStep
<1>2. CASE OperationStep
  BY <1>2 DEF OperationStep, Answered, Validate, RevokeReturns, WatchdogReturns, StopReturns,
              TickReturns, Revoke, ManagerStep
<1>3. CASE SubscriberReturns \/ EnterFault \/ FinishTransition
  BY <1>3 DEF SubscriberReturns, EnterFault, FinishTransition, Revoke, ManagerStep
<1>4. CASE TickStep
  BY <1>4 DEF TickStep, Watchdog, UnauthorizedArm, Refresh, TickCommits, Revoke, ManagerStep
<1>5. CASE Authorize \/ RevokeByOperator \/ Depart \/ ComeBack \/ ClearFault
  BY <1>5 DEF Authorize, RevokeByOperator, Depart, ComeBack, ClearFault, Revoke, ManagerStep
<1>q. QED  BY <1>1, <1>2, <1>3, <1>4, <1>5 DEF Next, CommitStep
-----------------------------------------------------------------------------
(* The calls of the bridge: who is queued, who holds the lock, and whose   *)
(* exchange is pending.                                                    *)

QueueOK ==
    \/ call[Operation] # "queued" /\ call[Commit] # "queued" /\ line = <<>>
    \/ call[Operation] = "queued" /\ call[Commit] # "queued" /\ line = <<Operation>>
    \/ call[Operation] # "queued" /\ call[Commit] = "queued" /\ line = <<Commit>>
    \/ /\ call[Operation] = "queued" /\ call[Commit] = "queued"
       /\ line \in {<<Operation, Commit>>, <<Commit, Operation>>}

WantOK == ~want[Commit] /\ (call[Operation] \in Idle => ~want[Operation])
ExchangeOK == ~Waits => exchange = NoExchange
CallsOK == QueueOK /\ WantOK /\ ExchangeOK

LEMMA CallsUntouched ==
    ASSUME CallsOK, UNCHANGED <<callVars, exchange>>
    PROVE  CallsOK'
  BY DEF CallsOK, callVars, QueueOK, WantOK, ExchangeOK, Waits

LEMMA AppendOne ==
    ASSUME NEW a \in Client, NEW b \in Client
    PROVE  Append(<<a>>, b) = <<a, b>>
<1>1. <<a>> \in Seq(Client) /\ Len(<<a>>) = 1 /\ <<a>>[1] = a  OBVIOUS
<1>2. /\ Append(<<a>>, b) \in Seq(Client) /\ Len(Append(<<a>>, b)) = 2
      /\ Append(<<a>>, b)[1] = a /\ Append(<<a>>, b)[2] = b
  BY <1>1, AppendProperties
<1>3. /\ <<a, b>> \in Seq(Client) /\ Len(<<a, b>>) = 2
      /\ <<a, b>>[1] = a /\ <<a, b>>[2] = b
  OBVIOUS
<1>4. \A i \in 1..2 : Append(<<a>>, b)[i] = <<a, b>>[i]
  <2>1. \A i \in 1..2 : i = 1 \/ i = 2  OBVIOUS
  <2>q. QED  BY <1>2, <1>3, <2>1
<1>q. QED  BY <1>2, <1>3, <1>4, SeqEqual

LEMMA RequestKeepsCalls ==
    ASSUME GateTypeOK, CallsOK, NEW c \in Client, NEW on \in BOOLEAN,
           Request(c, on), on => c = Operation
    PROVE  CallsOK'
<1> USE CallersAssumption
<1>1. /\ call \in [Client -> Phase] /\ want \in [Client -> BOOLEAN]
      /\ call[c] \in Idle /\ line' = Append(line, c) /\ UNCHANGED exchange
      /\ call' = [call EXCEPT ![c] = "queued"] /\ want' = [want EXCEPT ![c] = on]
  BY DEF Request, GateTypeOK
<1>2. QueueOK'
  <2>1. CASE c = Operation
    <3>1. call'[Operation] = "queued" /\ call'[Commit] = call[Commit] /\ call[Operation] # "queued"
      BY <1>1, <2>1 DEF Idle
    <3>2. CASE call[Commit] # "queued" /\ line = <<>>
      BY <1>1, <2>1, <3>1, <3>2 DEF QueueOK
    <3>3. CASE call[Commit] = "queued" /\ line = <<Commit>>
      <4>1. line' = Append(<<Commit>>, Operation)  BY <1>1, <2>1, <3>3
      <4>2. Append(<<Commit>>, Operation) = <<Commit, Operation>>  BY AppendOne
      <4>q. QED  BY <3>1, <3>3, <4>1, <4>2, Zenon DEF QueueOK
    <3>q. QED  BY <3>1, <3>2, <3>3 DEF CallsOK, QueueOK
  <2>2. CASE c = Commit
    <3>1. call'[Commit] = "queued" /\ call'[Operation] = call[Operation] /\ call[Commit] # "queued"
      BY <1>1, <2>2 DEF Idle
    <3>2. CASE call[Operation] # "queued" /\ line = <<>>
      BY <1>1, <2>2, <3>1, <3>2 DEF QueueOK
    <3>3. CASE call[Operation] = "queued" /\ line = <<Operation>>
      <4>1. line' = Append(<<Operation>>, Commit)  BY <1>1, <2>2, <3>3
      <4>2. Append(<<Operation>>, Commit) = <<Operation, Commit>>  BY AppendOne
      <4>q. QED  BY <3>1, <3>3, <4>1, <4>2, Zenon DEF QueueOK
    <3>q. QED  BY <3>1, <3>2, <3>3 DEF CallsOK, QueueOK
  <2>q. QED  BY <2>1, <2>2
<1>3. WantOK'  BY <1>1 DEF CallsOK, WantOK, Idle
<1>4. ExchangeOK'
  <2>1. Waits' <=> Waits  BY <1>1 DEF Waits, Idle
  <2>q. QED  BY <1>1, <2>1 DEF CallsOK, ExchangeOK
<1>q. QED  BY <1>2, <1>3, <1>4 DEF CallsOK

LEMMA ReturnKeepsCalls ==
    ASSUME GateTypeOK, CallsOK, NEW c \in Client, Return(c), call[c] \in Idle
    PROVE  CallsOK'
<1> USE CallersAssumption
<1>1. /\ call \in [Client -> Phase] /\ call' = [call EXCEPT ![c] = "idle"]
      /\ UNCHANGED <<line, want, exchange>>
  BY DEF Return, GateTypeOK
<1>2. QueueOK'
  BY <1>1 DEF CallsOK, QueueOK, Idle
<1>3. WantOK'  BY <1>1 DEF CallsOK, WantOK, Idle
<1>4. ExchangeOK'
  <2>1. Waits' <=> Waits  BY <1>1 DEF Waits, Idle
  <2>q. QED  BY <1>1, <2>1 DEF CallsOK, ExchangeOK
<1>q. QED  BY <1>2, <1>3, <1>4 DEF CallsOK

LEMMA ClientKeepsCalls ==
    ASSUME GateTypeOK, RevokeInv, CallsOK, NEW c \in Client,
           Prepare(c) \/ Transmit(c) \/ Conclude(c)
    PROVE  CallsOK'
<1> USE CallersAssumption
<1>0. call \in [Client -> Phase] /\ want \in [Client -> BOOLEAN]  BY DEF GateTypeOK
<1>1. CASE Prepare(c)
  <2>1. line # <<>> /\ Head(line) = c /\ line' = Tail(line) /\ ~Waits
    BY <1>1 DEF Prepare, LockFree, Holding, Waits
  <2>2. \/ Finish(c, "failed")
        \/ call' = [call EXCEPT ![c] = "prepared"] /\ UNCHANGED <<exchange, want>>
    BY <1>1 DEF Prepare
  <2>3. QueueOK'
    <3>1. call'[c] # "queued" /\ \A d \in Client : d # c => call'[d] = call[d]
      BY <1>0, <2>2 DEF Finish
    <3>2. CASE line = <<c>> /\ \A d \in Client : d # c => call[d] # "queued"
      <4>1. line' = <<>>  BY <2>1, <3>2
      <4>q. QED  BY <3>1, <3>2, <4>1 DEF QueueOK
    <3>3. CASE line = <<Operation, Commit>> /\ call[Commit] = "queued"
      <4>1. line' = <<Commit>> /\ c = Operation  BY <2>1, <3>3
      <4>q. QED  BY <3>1, <3>3, <4>1 DEF QueueOK
    <3>4. CASE line = <<Commit, Operation>> /\ call[Operation] = "queued"
      <4>1. line' = <<Operation>> /\ c = Commit  BY <2>1, <3>4
      <4>q. QED  BY <3>1, <3>4, <4>1 DEF QueueOK
    <3>q. QED  BY <2>1, <3>2, <3>3, <3>4 DEF CallsOK, QueueOK
  <2>4. call[c] = "queued"  BY <2>1 DEF CallsOK, QueueOK
  <2>5. WantOK'  BY <1>0, <2>2, <2>4 DEF CallsOK, WantOK, Finish, Idle
  <2>6. ExchangeOK'  BY <2>1, <2>2 DEF CallsOK, ExchangeOK, Finish
  <2>q. QED  BY <2>3, <2>5, <2>6 DEF CallsOK
<1>2. CASE Transmit(c)
  <2>1. call[c] = "prepared" /\ UNCHANGED line  BY <1>2 DEF Transmit
  <2>2. \/ \E o \in {"ok", "failed"} : Finish(c, o)
        \/ call' = [call EXCEPT ![c] = "waiting"] /\ UNCHANGED want
    BY <1>2 DEF Transmit
  <2>3. QueueOK'  BY <1>0, <2>1, <2>2 DEF CallsOK, QueueOK, Finish
  <2>4. WantOK'  BY <1>0, <2>1, <2>2 DEF CallsOK, WantOK, Finish, Idle
  <2>5. ExchangeOK'  BY <1>0, <2>2 DEF CallsOK, ExchangeOK, Finish, Waits
  <2>q. QED  BY <2>3, <2>4, <2>5 DEF CallsOK
<1>3. CASE Conclude(c)
  <2>1. call[c] = "waiting" /\ UNCHANGED line /\ \E o \in {"ok", "failed"} : Finish(c, o)
    BY <1>3 DEF Conclude
  <2>2. QueueOK'  BY <1>0, <2>1 DEF CallsOK, QueueOK, Finish
  <2>3. WantOK'  BY <1>0, <2>1 DEF CallsOK, WantOK, Finish, Idle
  <2>4. ExchangeOK'  BY <2>1 DEF ExchangeOK, Finish
  <2>q. QED  BY <2>2, <2>3, <2>4 DEF CallsOK
<1>q. QED  BY <1>1, <1>2, <1>3

LEMMA LinkKeepsCalls ==
    ASSUME GateTypeOK, RevokeInv, CallsOK, LinkStep
    PROVE  CallsOK'
<1>1. CASE \E c \in Client : Prepare(c) \/ Transmit(c) \/ Conclude(c)
  BY <1>1, ClientKeepsCalls
<1>2. CASE GateStep \/ KeepaliveEnds \/ KeepsAlive \/ Beat \/ Lose \/ Disarm
           \/ \E s \in Positions : Pilot(s)
  BY <1>2, CallsUntouched DEF GateStep, GateReceives, GateShuts, AttemptArm, SeesSwitchLow,
     KeepaliveEnds, KeepsAlive, Beat, Lose, Disarm, Pilot
<1>3. CASE ReadBeat \/ ReadAck \/ ReaderFails
  <2>1. UNCHANGED <<line, call, want>>  BY <1>3 DEF ReadBeat, ReadAck, ReaderFails, callVars
  <2>2. ASSUME ~Waits PROVE exchange' = NoExchange
    <3>1. exchange = NoExchange /\ NoMine(down)
      BY <2>2 DEF CallsOK, ExchangeOK, RevokeInv, NothingMine
    <3>2. CASE ReadBeat  BY <3>1, <3>2 DEF ReadBeat, NoExchange
    <3>3. CASE ReadAck
      <4>1. ~Head(down).mine  BY <3>1, <3>3, TailGives DEF ReadAck, GateTypeOK, NoMine
      <4>q. QED  BY <3>1, <3>3, <4>1 DEF ReadAck
    <3>4. CASE ReaderFails  BY <2>2, <3>1, <3>4 DEF ReaderFails, Waits
    <3>q. QED  BY <1>3, <3>2, <3>3, <3>4
  <2>q. QED  BY <2>1, <2>2 DEF CallsOK, QueueOK, WantOK, ExchangeOK, Waits
<1>q. QED  BY <1>1, <1>2, <1>3 DEF LinkStep, BridgeStep

LEMMA ElapseKeepsCalls ==
    ASSUME GateTypeOK, CallsOK, Elapse
    PROVE  CallsOK'
<1>1. UNCHANGED <<line, call, want>>  BY DEF Elapse, callVars
<1>2. ~Waits => exchange' = NoExchange
  <2>1. exchange' = [exchange EXCEPT !.wait = Less(exchange.wait)]  BY DEF Elapse
  <2>2. [NoExchange EXCEPT !.wait = Less(NoExchange.wait)] = NoExchange  BY DEF NoExchange, Less
  <2>q. QED  BY <2>1, <2>2 DEF CallsOK, ExchangeOK
<1>q. QED  BY <1>1, <1>2 DEF CallsOK, QueueOK, WantOK, ExchangeOK, Waits
-----------------------------------------------------------------------------
(* The authorization leaves with FLIGHT_READY.                             *)
(*                                                                         *)
(* Whatever was authorized, in flight or waited for when the state was     *)
(* left, the revoke of the commit stands behind at most one exchange.      *)
(* While it stands there the state was left no longer ago than one wait    *)
(* for an answer, and from then on nobody asks for an authorization or     *)
(* keeps one alive, so that what is left of it is the lease in the gate.   *)

CommitOK ==
    /\ change.pc \in {"none", "written"} \/ mode = "FLIGHT_READY" => call[Commit] \in Idle
    /\ change.pc = "written" => change.to # mode

(* The pilot's exchange is first, and then the revoke. *)
Waiting == call[Operation] = "waiting" /\ line = <<Commit>> /\ away + exchange.wait <= AckWait
Sending == call[Operation] = "prepared" /\ line = <<Commit>> /\ away = 0
Behind == line = <<Operation, Commit>> /\ away = 0
First ==
    /\ line \in {<<Commit>>, <<Commit, Operation>>} /\ LockFree
    /\ away <= AckWait /\ ~want[Operation]

Leaving == call[Commit] = "queued" /\ (Waiting \/ Sending \/ Behind \/ First)

Fading ==
    /\ ~bridge.keeps /\ ~want[Operation] /\ ~exchange.on
    /\ AllOff(up) \/ away <= AckWait
    /\ gate.open => away + gate.lease <= AckWait + Lease

LeaveInv == mode # "FLIGHT_READY" => Leaving \/ Fading
FlagInv == flag /\ mode # "FLIGHT_READY" => op = "validating"

AuthInv == TypeOK /\ RevokeInv /\ CallsOK /\ CommitOK /\ LeaveInv /\ FlagInv

LEMMA TypeFacts ==
    ASSUME TypeOK
    PROVE  /\ {AckWait, Lease, Ttl} \subseteq Nat
           /\ away \in Nat /\ exchange.wait \in 0..AckWait /\ gate.lease \in 0..Lease
           /\ gate.open \in BOOLEAN /\ gate \in Gate /\ bridge \in Bridge /\ exchange \in Exchange
           /\ call \in [Client -> Phase] /\ want \in [Client -> BOOLEAN] /\ up \in Seq(Command)
           /\ Operation \in Client /\ Commit \in Client /\ Operation # Commit
           /\ \A c \in Client : c = Operation \/ c = Commit
  BY GateAssumption, CallersAssumption DEF TypeOK, GateTypeOK, Gate, Bridge, Exchange, MaxAway

(* A step that leaves the state and its age alone.                         *)
LEMMA LeavingUntouched ==
    ASSUME Leaving, UNCHANGED <<away, line, call, want>>, exchange'.wait = exchange.wait
    PROVE  Leaving'
  BY DEF Leaving, Waiting, Sending, Behind, First, LockFree, Holding

LEMMA ClientKeepsLeaving ==
    ASSUME AuthInv, Leaving, UNCHANGED away, NEW c \in Client,
           Prepare(c) \/ Transmit(c) \/ Conclude(c)
    PROVE  Leaving' \/ Fading'
<1> USE TypeFacts DEF AuthInv
<1>1. CASE Waiting
  <2>1. c = Operation /\ Conclude(c)
    BY <1>1 DEF Waiting, Leaving, Prepare, Transmit, Conclude, LockFree, Holding
  <2>2. /\ call'[Operation] \in {"ok", "failed"} /\ call'[Commit] = "queued"
        /\ ~want'[Operation] /\ line' = line
    BY <2>1 DEF Conclude, Finish, Leaving
  <2>3. LockFree'  BY <2>2 DEF LockFree, Holding
  <2>4. away' <= AckWait  BY <1>1 DEF Waiting
  <2>q. QED  BY <1>1, <2>2, <2>3, <2>4 DEF Leaving, First, Waiting
<1>2. CASE Sending
  <2>1. c = Operation /\ Transmit(c)
    BY <1>2 DEF Sending, Leaving, Prepare, Transmit, Conclude, LockFree, Holding
  <2>2. line' = line /\ call'[Commit] = "queued"
    BY <2>1 DEF Transmit, Finish, Leaving
  <2>3. CASE \E o \in {"ok", "failed"} : Finish(c, o)
    <3>1. call'[Operation] \in {"ok", "failed"} /\ ~want'[Operation]
      BY <2>1, <2>3 DEF Finish
    <3>2. LockFree'  BY <2>2, <3>1 DEF LockFree, Holding
    <3>q. QED  BY <1>2, <2>2, <3>1, <3>2 DEF Leaving, First, Sending
  <2>4. CASE exchange'.wait = AckWait /\ call'[Operation] = "waiting"
    BY <1>2, <2>2, <2>4 DEF Leaving, Waiting, Sending
  <2>q. QED  BY <2>1, <2>3, <2>4 DEF Transmit
<1>3. CASE Behind
  <2>1. call[Operation] = "queued" /\ call[Commit] = "queued"
    BY <1>3 DEF Behind, CallsOK, QueueOK
  <2>2. c = Operation /\ Prepare(c) /\ line' = <<Commit>>
    BY <1>3, <2>1 DEF Behind, Prepare, Transmit, Conclude
  <2>3. call'[Commit] = "queued"  BY <2>1, <2>2 DEF Prepare, Finish
  <2>4. CASE Finish(c, "failed")
    <3>1. call'[Operation] = "failed" /\ ~want'[Operation]  BY <2>2, <2>4 DEF Finish
    <3>2. LockFree'  BY <2>3, <3>1 DEF LockFree, Holding
    <3>q. QED  BY <1>3, <2>2, <2>3, <3>1, <3>2 DEF Leaving, First, Behind
  <2>5. CASE call' = [call EXCEPT ![c] = "prepared"]
    BY <1>3, <2>2, <2>3, <2>5 DEF Leaving, Sending, Behind
  <2>q. QED  BY <2>2, <2>4, <2>5 DEF Prepare
<1>4. CASE First
  <2>1. c = Commit /\ Prepare(c)
    BY <1>4 DEF First, Prepare, Transmit, Conclude, LockFree, Holding
  <2>2. ~want[Commit]  BY DEF CallsOK, WantOK
  <2>3. ~bridge'.keeps /\ up' = up /\ UNCHANGED <<exchange, want, gate>>
    BY <2>1, <2>2 DEF Prepare, Prepared, Bridge
  <2>4. ~exchange.on
    <3>1. ~Waits  BY <1>4 DEF First, LockFree, Holding, Waits
    <3>q. QED  BY <3>1 DEF CallsOK, ExchangeOK, NoExchange
  <2>5. ~want[Operation] /\ away <= AckWait  BY <1>4 DEF First
  <2>6. away + gate.lease <= AckWait + Lease  BY <2>5
  <2>q. QED  BY <2>3, <2>4, <2>5, <2>6 DEF Fading
<1>q. QED  BY <1>1, <1>2, <1>3, <1>4 DEF Leaving

LEMMA ClientKeepsFading ==
    ASSUME AuthInv, Fading, UNCHANGED away, NEW c \in Client,
           Prepare(c) \/ Transmit(c) \/ Conclude(c)
    PROVE  Fading'
<1> USE TypeFacts DEF AuthInv
<1>0. ~want[c] /\ UNCHANGED gate
  BY DEF Fading, CallsOK, WantOK, Prepare, Transmit, Conclude
<1>1. CASE Prepare(c)
  <2>1. ~bridge'.keeps /\ UNCHANGED <<up, exchange, want>>
    BY <1>0, <1>1 DEF Prepare, Prepared, Bridge
  <2>q. QED  BY <1>0, <2>1 DEF Fading
<1>2. CASE Transmit(c)
  <2>0. UNCHANGED bridge  BY <1>2 DEF Transmit
  <2>1. CASE \E o \in {"ok", "failed"} : Finish(c, o) /\ UNCHANGED up
    <3>1. ~exchange'.on /\ ~want'[Operation]
      BY <2>1 DEF Finish, NoExchange, Fading
    <3>q. QED  BY <1>0, <2>0, <2>1, <3>1 DEF Fading
  <2>2. CASE /\ up' = Append(Foreign(up), [on |-> want[c], mine |-> TRUE])
             /\ exchange' = [on |-> want[c], wait |-> AckWait, answer |-> "none", consumed |-> FALSE]
             /\ UNCHANGED want
    <3>1. AllOff(up) => AllOff(up')
      <4>1. \A i \in DOMAIN up' :
                ~up'[i].on \/ (i \in DOMAIN up /\ up'[i].on = up[i].on)
        BY <1>0, <2>2, ForeignCommands
      <4>q. QED  BY <4>1 DEF AllOff
    <3>2. ~exchange'.on  BY <1>0, <2>2
    <3>q. QED  BY <1>0, <2>0, <2>2, <3>1, <3>2 DEF Fading
  <2>q. QED  BY <1>2, <2>1, <2>2 DEF Transmit
<1>3. CASE Conclude(c)
  <2>1. UNCHANGED bridge /\ up' = Foreign(up) /\ \E o \in {"ok", "failed"} : Finish(c, o)
    BY <1>3 DEF Fading, Conclude
  <2>2. AllOff(up) => AllOff(up')  BY <2>1, ForeignCommands DEF AllOff
  <2>3. ~exchange'.on /\ ~want'[Operation]
    BY <2>1 DEF Finish, NoExchange, Fading
  <2>q. QED  BY <1>0, <2>1, <2>2, <2>3 DEF Fading
<1>q. QED  BY <1>1, <1>2, <1>3

(* The gate, its pilot, the reader and the keepalive bring nothing back.   *)
LEMMA LinkKeepsFading ==
    ASSUME AuthInv, Fading, UNCHANGED away,
           \/ GateStep \/ Beat \/ Lose \/ Disarm
           \/ ReadBeat \/ ReadAck \/ KeepaliveEnds \/ KeepsAlive \/ ReaderFails
           \/ \E s \in Positions : Pilot(s)
    PROVE  Fading'
<1> USE TypeFacts DEF AuthInv
<1>1. CASE GateReceives
  <2>1. PICK proper \in BOOLEAN : gate' = AfterCommand(Head(up), proper)
    BY <1>1 DEF GateReceives
  <2>2. AllOff(up) => AllOff(up') /\ ~Head(up).on
    <3>1. Head(up) = up[1] /\ 1 \in DOMAIN up
      BY <1>1, TailGives DEF GateReceives, TypeOK, GateTypeOK
    <3>2. NoWorse(up, up')  BY <1>1, TailIsNoWorse DEF GateReceives, TypeOK, GateTypeOK
    <3>q. QED  BY <3>1, <3>2 DEF AllOff, NoWorse
  <2>3. gate'.open => away' + gate'.lease <= AckWait + Lease
    <3>1. CASE AllOff(up)  BY <2>1, <2>2, <3>1 DEF AfterCommand, OpensFor, Shut
    <3>2. CASE away <= AckWait
      <4>1. gate' \in Gate
        BY <1>1, ScriptTypes DEF TypeOK, GateTypeOK
      <4>q. QED  BY <3>2, <4>1 DEF Gate
    <3>q. QED  BY <3>1, <3>2 DEF Fading
  <2>q. QED  BY <1>1, <2>2, <2>3 DEF Fading, GateReceives, callVars
<1>2. CASE GateShuts \/ AttemptArm \/ SeesSwitchLow
  <2>1. gate'.open => gate.open /\ gate'.lease = gate.lease
    BY <1>2 DEF GateShuts, AttemptArm, SeesSwitchLow, Shut, Gate
  <2>q. QED  BY <1>2, <2>1 DEF Fading, GateShuts, AttemptArm, SeesSwitchLow, wireVars, callVars
<1>3. CASE ReadBeat \/ ReadAck \/ ReaderFails \/ Beat \/ Lose \/ Disarm
           \/ \E s \in Positions : Pilot(s)
  <2>1. UNCHANGED <<gate, want>>
    BY <1>3 DEF ReadBeat, ReadAck, ReaderFails, Beat, Lose, Disarm, Pilot, callVars
  <2>2. Steady  BY <1>3, SteadySteps DEF TypeOK
  <2>q. QED  BY <2>1, <2>2 DEF Fading, Steady, NoWorse
<1>4. ~KeepsAlive /\ ~KeepaliveEnds  BY DEF Fading, KeepsAlive, KeepaliveEnds
<1>q. QED  BY <1>1, <1>2, <1>3, <1>4 DEF GateStep

LEMMA LinkKeepsLeaveInv ==
    ASSUME AuthInv, LinkStep, UNCHANGED managerVars
    PROVE  LeaveInv'
<1> SUFFICES ASSUME mode # "FLIGHT_READY" PROVE Leaving' \/ Fading'
  BY DEF LeaveInv, managerVars
<1>0. UNCHANGED away /\ (Leaving \/ Fading)  BY DEF managerVars, AuthInv, LeaveInv
<1>1. CASE \E c \in Client : Prepare(c) \/ Transmit(c) \/ Conclude(c)
  BY <1>0, <1>1, ClientKeepsLeaving, ClientKeepsFading
<1>2. CASE \/ GateStep \/ Beat \/ Lose \/ Disarm
           \/ ReadBeat \/ ReadAck \/ KeepaliveEnds \/ KeepsAlive \/ ReaderFails
           \/ \E s \in Positions : Pilot(s)
  <2>1. UNCHANGED <<line, call, want>>
    BY <1>2 DEF GateStep, GateReceives, GateShuts, AttemptArm, SeesSwitchLow, Beat, Lose, Disarm,
       ReadBeat, ReadAck, KeepaliveEnds, KeepsAlive, ReaderFails, Pilot, callVars
  <2>2. exchange'.wait = exchange.wait
    BY <1>2, TypeFacts DEF GateStep, GateReceives, GateShuts, AttemptArm, SeesSwitchLow, Beat, Lose,
       Disarm, ReadBeat, ReadAck, KeepaliveEnds, KeepsAlive, ReaderFails, Pilot, Exchange, AuthInv
  <2>q. QED  BY <1>0, <1>2, <2>1, <2>2, LeavingUntouched, LinkKeepsFading
<1>q. QED  BY <1>1, <1>2 DEF LinkStep, BridgeStep

LEMMA ManagerKeepsLeaveInv ==
    ASSUME AuthInv, ManagerStep
    PROVE  LeaveInv'
<1> USE TypeFacts DEF AuthInv
<1> SUFFICES ASSUME mode # "FLIGHT_READY" PROVE Leaving' \/ Fading'
  BY DEF LeaveInv, ManagerStep
<1>0. UNCHANGED away /\ (Leaving \/ Fading)  BY DEF ManagerStep, LeaveInv
<1>1. CASE UNCHANGED gateVars
  BY <1>0, <1>1 DEF gateVars, wireVars, callVars, Leaving, Fading, Waiting, Sending, Behind, First,
     LockFree, Holding
<1>2. ASSUME NEW c \in Client, Return(c), call[c] \in Idle PROVE Leaving' \/ Fading'
  <2>0. UNCHANGED <<gate, up, bridge, exchange, line, want>>  BY <1>2 DEF Return, wireVars
  <2>1. CASE Fading  BY <1>0, <2>0, <2>1 DEF Fading
  <2>2. CASE Leaving
    <3>1. \A d \in Client : (Holding(d)' <=> Holding(d)) /\ (d # c => call'[d] = call[d])
      BY <1>2 DEF Return, Holding, Idle
    <3>2. c = Operation /\ call[Operation] \notin {"waiting", "prepared"}
      BY <1>2, <2>2 DEF Leaving, Idle
    <3>3. call'[Commit] = "queued"  BY <2>2, <3>1, <3>2 DEF Leaving
    <3>4. Behind \/ First  BY <2>2, <3>2 DEF Leaving, Waiting, Sending
    <3>q. QED  BY <1>0, <2>0, <3>1, <3>3, <3>4 DEF Leaving, Behind, First, LockFree
  <2>q. QED  BY <1>0, <2>1, <2>2
<1>3. ASSUME NEW c \in Client, Request(c, FALSE) PROVE Leaving' \/ Fading'
  <2>0. /\ call[c] \in Idle /\ line' = Append(line, c) /\ call' = [call EXCEPT ![c] = "queued"]
        /\ want' = [want EXCEPT ![c] = FALSE] /\ UNCHANGED <<gate, up, bridge, exchange>>
    BY <1>3 DEF Request, wireVars
  <2>1. CASE Fading  BY <1>0, <2>0, <2>1 DEF Fading
  <2>2. CASE Leaving
    <3>1. c = Operation /\ call[Operation] \notin {"waiting", "prepared", "queued"}
      BY <2>0, <2>2 DEF Leaving, Idle
    <3>2. line = <<Commit>>
      BY <2>2, <3>1 DEF Leaving, CallsOK, QueueOK
    <3>3. First
      <4>1. line # <<Operation, Commit>>  BY <3>1, <3>2 DEF CallsOK, QueueOK
      <4>q. QED  BY <2>2, <3>1, <4>1 DEF Leaving, Waiting, Sending, Behind
    <3>4. line' = <<Commit, Operation>>  BY <2>0, <3>1, <3>2, AppendOne
    <3>5. call'[Commit] = "queued" /\ LockFree' /\ ~want'[Operation] /\ away' <= AckWait
      BY <1>0, <2>0, <2>2, <3>1, <3>3 DEF Leaving, First, LockFree, Holding
    <3>q. QED  BY <3>4, <3>5 DEF Leaving, First
  <2>q. QED  BY <1>0, <2>1, <2>2
<1>q. QED  BY <1>1, <1>2, <1>3 DEF ManagerStep

(* The state is left: the revoke of the commit gets in line.               *)
LEMMA WriteKeepsLeaveInv ==
    ASSUME AuthInv, WriteState
    PROVE  LeaveInv'
<1> USE TypeFacts DEF AuthInv
<1> SUFFICES ASSUME mode' # "FLIGHT_READY" PROVE Leaving' \/ Fading'
  BY DEF LeaveInv
<1>1. CASE mode # "FLIGHT_READY"
  <2>1. UNCHANGED gateVars /\ UNCHANGED away
    BY <1>1 DEF WriteState
  <2>2. Leaving \/ Fading  BY <1>1 DEF LeaveInv
  <2>q. QED
    BY <2>1, <2>2 DEF gateVars, wireVars, callVars, Leaving, Fading, Waiting, Sending, Behind, First,
       LockFree, Holding
<1>2. CASE mode = "FLIGHT_READY"
  <2>1. /\ call[Commit] \in Idle /\ line' = Append(line, Commit) /\ UNCHANGED exchange
        /\ call' = [call EXCEPT ![Commit] = "queued"] /\ want' = [want EXCEPT ![Commit] = FALSE]
        /\ away' = 0
    BY <1>2 DEF WriteState, Revoke, Request
  <2>2. call'[Commit] = "queued" /\ call'[Operation] = call[Operation] /\ want'[Operation] = want[Operation]
    BY <2>1
  <2>3. CASE line = <<Operation>>
    <3>1. line' = <<Operation, Commit>>  BY <2>1, <2>3, AppendOne
    <3>q. QED  BY <2>1, <2>2, <3>1 DEF Leaving, Behind
  <2>4. CASE line = <<>> /\ call[Operation] # "queued"
    <3>1. line' = <<Commit>>  BY <2>1, <2>4
    <3>2. CASE call[Operation] = "waiting"  BY <2>1, <2>2, <3>1, <3>2 DEF Leaving, Waiting
    <3>3. CASE call[Operation] = "prepared"  BY <2>1, <2>2, <3>1, <3>3 DEF Leaving, Sending
    <3>4. CASE call[Operation] \in Idle
      <4>1. ~want'[Operation]  BY <2>2, <3>4 DEF CallsOK, WantOK
      <4>2. LockFree'  BY <2>2, <3>4 DEF LockFree, Holding, Idle
      <4>q. QED  BY <2>1, <2>2, <3>1, <4>1, <4>2 DEF Leaving, First
    <3>q. QED  BY <2>4, <3>2, <3>3, <3>4 DEF Phase
  <2>q. QED  BY <2>1, <2>3, <2>4 DEF CallsOK, QueueOK, Idle
<1>q. QED  BY <1>1, <1>2

(* Time waits for whatever is due: it passes while the exchange is waited  *)
(* for, and while the lease runs out.                                      *)
LEMMA TimeKeepsLeaveInv ==
    ASSUME AuthInv, TimePasses
    PROVE  LeaveInv'
<1> USE TypeFacts DEF AuthInv
<1> SUFFICES ASSUME mode # "FLIGHT_READY" PROVE Leaving' \/ Fading'
  BY DEF LeaveInv, TimePasses
<1>1. /\ ~Due /\ away' <= away + 1 /\ away' \in Nat
      /\ gate' = [gate EXCEPT !.lease = Less(gate.lease)]
      /\ bridge' = [bridge EXCEPT !.ttl = Less(bridge.ttl)]
      /\ exchange' = [exchange EXCEPT !.wait = Less(exchange.wait)]
      /\ UNCHANGED <<up, line, call, want>>
  BY DEF TimePasses, Elapse, wireVars, callVars
<1>2. CASE Leaving
  <2>0. <<Commit>> # <<>> /\ <<Commit, Operation>> # <<>> /\ <<Operation, Commit>> # <<>>
    <3>1. Len(<<Commit>>) = 1 /\ Len(<<Commit, Operation>>) = 2 /\ Len(<<Operation, Commit>>) = 2
      OBVIOUS
    <3>q. QED  BY <3>1
  <2>1. line # <<>> => ~LockFree  BY <1>1 DEF Due
  <2>2. Waiting
    <3>1. ~First  BY <2>0, <2>1 DEF First
    <3>2. ~Sending  BY <1>1 DEF Due, Sending
    <3>3. ~Behind
      <4>1. Behind => LockFree
        BY DEF Behind, CallsOK, QueueOK, LockFree, Holding
      <4>q. QED  BY <2>0, <2>1, <4>1 DEF Behind
    <3>q. QED  BY <1>2, <3>1, <3>2, <3>3 DEF Leaving
  <2>3. exchange.wait # 0  BY <1>1, <2>2 DEF Due, Waiting
  <2>4. exchange'.wait = exchange.wait - 1  BY <1>1, <2>3 DEF Exchange, Less
  <2>5. away' + exchange'.wait <= AckWait  BY <1>1, <2>2, <2>4 DEF Waiting
  <2>q. QED  BY <1>1, <1>2, <2>2, <2>5 DEF Leaving, Waiting
<1>3. CASE Fading
  <2>1. AllOff(up')  BY <1>1 DEF Due, AllOff
  <2>2. gate'.open => away' + gate'.lease <= AckWait + Lease
    <3>1. gate'.open = gate.open /\ gate'.lease = Less(gate.lease)  BY <1>1 DEF Gate
    <3>2. gate.open => gate.lease # 0  BY <1>1 DEF Due, MustShut
    <3>q. QED  BY <1>1, <1>3, <3>1, <3>2 DEF Fading, Less
  <2>3. ~bridge'.keeps /\ ~exchange'.on /\ ~want'[Operation]
    BY <1>1, <1>3 DEF Fading, Bridge, Exchange
  <2>q. QED  BY <2>1, <2>2, <2>3 DEF Fading
<1>q. QED  BY <1>2, <1>3 DEF LeaveInv

LEMMA CallsKept ==
    ASSUME AuthInv, [Next]_vars
    PROVE  CallsOK'
<1> USE TypeFacts DEF AuthInv, TypeOK
<1>1. CASE LinkStep  BY <1>1, LinkKeepsCalls
<1>2. CASE TimePasses  BY <1>2, ElapseKeepsCalls DEF TimePasses
<1>3. CASE WriteState
  BY <1>3, RequestKeepsCalls, CallsUntouched DEF WriteState, Revoke, gateVars
<1>4. CASE ManagerStep
  BY <1>4, RequestKeepsCalls, ReturnKeepsCalls, CallsUntouched DEF ManagerStep, gateVars
<1>q. QED  BY <1>1, <1>2, <1>3, <1>4, StepForms

LEMMA IdleStays ==
    ASSUME AuthInv, LinkStep, call[Commit] \in Idle
    PROVE  call'[Commit] \in Idle
<1> USE TypeFacts DEF AuthInv
<1>1. CASE \E c \in Client : Prepare(c)
  <2>1. PICK c \in Client : Prepare(c)  BY <1>1
  <2>2. c # Commit  BY <2>1 DEF Prepare, CallsOK, QueueOK, Idle
  <2>q. QED  BY <2>1, <2>2 DEF Prepare, Finish
<1>2. CASE \E c \in Client : Transmit(c) \/ Conclude(c)
  BY <1>2 DEF Transmit, Conclude, Finish, Idle
<1>q. QED
  BY <1>1, <1>2 DEF LinkStep, BridgeStep, GateStep, GateReceives, GateShuts, AttemptArm, SeesSwitchLow,
     KeepaliveEnds, KeepsAlive, Beat, Lose, Disarm, ReadBeat, ReadAck, ReaderFails, Pilot, callVars

LEMMA CommitKept ==
    ASSUME AuthInv, [Next]_vars
    PROVE  CommitOK'
<1> USE TypeFacts DEF AuthInv, CommitOK
<1>1. CASE LinkStep /\ UNCHANGED managerVars  BY <1>1, IdleStays DEF managerVars
<1>2. CASE TimePasses  BY <1>2 DEF TimePasses, Elapse, callVars
<1>3. CASE WriteState
  BY <1>3 DEF WriteState, Stays, gateVars, callVars, TypeOK
<1>4. CASE UNCHANGED vars  BY <1>4 DEF vars, gateVars, callVars, managerVars
<1>5. CASE SubscriberReturns
  BY <1>5 DEF SubscriberReturns, Stays, Return, TypeOK, Idle
<1>6. CASE EnterFault
  BY <1>6 DEF EnterFault, EntersFault, Revoke, Request, TypeOK
<1>7. CASE FinishTransition
  BY <1>7 DEF FinishTransition, Return, NoChange, Idle
<1>8. ASSUME call'[Commit] = call[Commit], UNCHANGED mode,
             UNCHANGED change \/ \E to \in Mode, muted \in BOOLEAN : Begins(to, muted)
      PROVE  CommitOK'
  BY <1>8 DEF Begins
<1>9. CASE OperationStep
  <2>1. call'[Commit] = call[Commit]
    BY <1>9 DEF OperationStep, Answered, Validate, RevokeReturns, WatchdogReturns, StopReturns,
       TickReturns, Revoke, Return, Request, gateVars, callVars
  <2>2. UNCHANGED mode /\ (UNCHANGED change \/ \E to \in Mode, muted \in BOOLEAN : Begins(to, muted))
    BY <1>9 DEF OperationStep, Answered, Validate, RevokeReturns, WatchdogReturns, StopReturns,
       TickReturns, Mode
  <2>q. QED  BY <1>8, <2>1, <2>2
<1>10. CASE TickStep \/ Authorize \/ RevokeByOperator \/ Depart \/ ComeBack \/ ClearFault
  <2>1. call'[Commit] = call[Commit]
    BY <1>10 DEF TickStep, Watchdog, UnauthorizedArm, Refresh, TickCommits, Authorize,
       RevokeByOperator, Depart, ComeBack, ClearFault, Revoke, Request, gateVars, callVars
  <2>2. UNCHANGED mode /\ (UNCHANGED change \/ \E to \in Mode, muted \in BOOLEAN : Begins(to, muted))
    BY <1>10 DEF TickStep, Watchdog, UnauthorizedArm, Refresh, TickCommits, Authorize,
       RevokeByOperator, Depart, ComeBack, ClearFault, Mode
  <2>q. QED  BY <1>8, <2>1, <2>2
<1>q. QED
  BY <1>1, <1>2, <1>3, <1>4, <1>5, <1>6, <1>7, <1>9, <1>10 DEF Next, CommitStep

LEMMA FlagKept ==
    ASSUME AuthInv, [Next]_vars
    PROVE  FlagInv'
<1> USE DEF AuthInv, FlagInv
<1>1. CASE UNCHANGED managerVars  BY <1>1 DEF managerVars
<1>2. CASE OperationStep
  BY <1>2 DEF OperationStep, Answered, Validate, StillReady, RevokeReturns, WatchdogReturns,
     StopReturns, TickReturns, Revoke, Done
<1>3. CASE CommitStep
  BY <1>3 DEF CommitStep, WriteState, SubscriberReturns, EnterFault, FinishTransition, Revoke
<1>4. CASE TickStep
  BY <1>4 DEF TickStep, Watchdog, UnauthorizedArm, Refresh, TickCommits, Revoke
<1>5. CASE Authorize \/ RevokeByOperator \/ Depart \/ ComeBack \/ ClearFault \/ TimePasses
  BY <1>5 DEF Authorize, RevokeByOperator, Depart, ComeBack, ClearFault, TimePasses, Revoke
<1>q. QED  BY <1>1, <1>2, <1>3, <1>4, <1>5 DEF Next, vars

LEMMA AuthInvKept == AuthInv /\ [Next]_vars => AuthInv'
<1> SUFFICES ASSUME AuthInv, [Next]_vars PROVE AuthInv'  OBVIOUS
<1>1. TypeOK'  BY TypesKept DEF AuthInv
<1>2. RevokeInv'  BY RevokeInvKept DEF AuthInv, TypeOK
<1>3. LeaveInv'
  BY StepForms, LinkKeepsLeaveInv, ManagerKeepsLeaveInv, WriteKeepsLeaveInv, TimeKeepsLeaveInv
<1>q. QED  BY <1>1, <1>2, <1>3, CallsKept, CommitKept, FlagKept DEF AuthInv

LEMMA AuthInvInitially == Init => AuthInv
<1> SUFFICES ASSUME Init PROVE AuthInv  OBVIOUS
<1>1. GateTypeOK /\ RevokeInv  BY GateInitTypes
<1>2. TypeOK  BY TypesInitially, <1>1
<1>3. CallsOK
  BY CallersAssumption DEF Init, GateInit, CallsOK, QueueOK, WantOK, ExchangeOK
<1>4. CommitOK /\ LeaveInv /\ FlagInv
  BY CallersAssumption DEF Init, GateInit, CommitOK, LeaveInv, FlagInv, NoChange, Idle
<1>q. QED  BY <1>1, <1>2, <1>3, <1>4 DEF AuthInv

(* The authorization leaves with FLIGHT_READY on both ends of the link:    *)
(* the gate within one wait and one lease, the manager's flag when the     *)
(* operation that published it looks again.                                *)
THEOREM AuthorizationLeaves == Spec => []AuthorizationFollowsMode
<1>1. AuthInv => GateFollowsMode
  <2> SUFFICES ASSUME AuthInv, gate.open, mode # "FLIGHT_READY" PROVE away < MaxAway
    BY DEF GateFollowsMode
  <2>0. Leaving \/ Fading  BY DEF AuthInv, LeaveInv
  <2> USE TypeFacts DEF AuthInv
  <2>1. CASE Leaving
    <3>1. away <= AckWait
      BY <2>1, GateAssumption DEF Leaving, Waiting, Sending, Behind, First
    <3>q. QED  BY <3>1 DEF MaxAway
  <2>2. CASE Fading  BY <2>2 DEF Fading, MaxAway
  <2>q. QED  BY <2>0, <2>1, <2>2
<1>2. AuthInv => FlagFollowsMode  BY DEF AuthInv, FlagInv, FlagFollowsMode
<1>q. QED
  BY <1>1, <1>2, AuthInvInitially, AuthInvKept, PTL DEF Spec, AuthorizationFollowsMode
=============================================================================
