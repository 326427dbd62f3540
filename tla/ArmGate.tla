------------------------------- MODULE ArmGate -------------------------------
(***************************************************************************)
(* The two-key arming gate: the Lua script on the Pixhawk, the MAVLink     *)
(* connection, and the half of MavlinkPixhawkBridge that speaks to it.     *)
(*                                                                         *)
(* The first key is an authorization the host sends and keeps alive; the   *)
(* second is the pilot's switch going from low to high.  The gate holds    *)
(* the authorization as a lease; the host holds its own flag and deadline, *)
(* and learns that the vehicle armed from telemetry that comes later.      *)
(*                                                                         *)
(* One tick of the clock is half a second.  A message may be lost, but it  *)
(* does not travel for longer than a tick, and the event loop and the      *)
(* script do what is due before the next tick.  Only the pending exchange  *)
(* carries a sequence number of its own: a message of it is "mine", and    *)
(* an answer to anything else is ignored by the bridge and left out.       *)
(***************************************************************************)
EXTENDS Naturals, Sequences, FiniteSets

CONSTANTS
    Client,     \* coroutines that call set_ground_arm_authorization
    Lease,      \* ticks the gate stays open without a message
    AckWait,    \* ticks the bridge waits for an answer
    Ttl,        \* ticks an authorization lasts
    MaxFlight,  \* bound: messages in flight each way
    Positions,  \* bound: where the pilot's switch is moved to
    Losses      \* TRUE: messages can be lost and the connection can fail

ASSUME GateAssumption ==
    /\ {Lease, AckWait, Ttl, MaxFlight} \subseteq Nat \ {0}
    /\ Losses \in BOOLEAN /\ Positions \subseteq {"low", "middle", "high", "invalid"}

VARIABLES
    gate,       \* the script: open, lease, and the switch was seen high
    vehicle,    \* armed, and the pilot's switch
    up, down,   \* messages to the vehicle and from it
    bridge,     \* the bridge's flags
    exchange,   \* the acknowledged command that is pending
    line,       \* clients queued at the lock, which is fair
    call, want, \* each client's call or its result, and what it asks for
    closed      \* history: the last exchange was a revoke the gate acknowledged

wireVars == <<up, down>>
callVars == <<line, call, want>>
gateVars == <<gate, vehicle, wireVars, bridge, exchange, callVars, closed>>

Switch == {"low", "middle", "high", "invalid"}
Command == [on : BOOLEAN, mine : BOOLEAN]
Off == [on |-> FALSE, mine |-> FALSE]
Notice == [kind : {"ack", "beat"}, good : BOOLEAN, mine : BOOLEAN]
Gate == [open : BOOLEAN, lease : 0..Lease, high : BOOLEAN]
Bridge == [connected : BOOLEAN, armed : BOOLEAN, authorized : BOOLEAN,
           ttl : 0..Ttl, receipt : BOOLEAN, keeps : BOOLEAN]
Exchange == [on : BOOLEAN, wait : 0..AckWait, consumed : BOOLEAN,
             answer : {"none", "accepted", "rejected"}]

NoExchange == [on |-> FALSE, wait |-> 0, answer |-> "none", consumed |-> FALSE]

Shut == [open |-> FALSE, lease |-> 0, high |-> FALSE]
Foreign(s) == [i \in DOMAIN s |-> [s[i] EXCEPT !.mine = FALSE]]
Room(s) == Len(s) < MaxFlight

(* What is sent without being waited for is lost where there is no room.   *)
Send(s, m) == IF Room(s) THEN Append(s, m) ELSE s

GateInit ==
    /\ gate = Shut
    /\ vehicle = [armed |-> FALSE, switch |-> "low"]
    /\ up = <<>> /\ down = <<>>
    /\ bridge = [connected |-> TRUE, armed |-> FALSE, authorized |-> FALSE,
                 ttl |-> 0, receipt |-> FALSE, keeps |-> FALSE]
    /\ exchange = NoExchange
    /\ line = <<>>
    /\ call = [c \in Client |-> "idle"]
    /\ want = [c \in Client |-> FALSE]
    /\ closed = FALSE

-----------------------------------------------------------------------------
(* The script on the Pixhawk. *)

(* handle_authorization: whether command m opens the gate or keeps it so.  *)
(* The parameters the script insists on may have been changed by someone.  *)
OpensFor(m, proper) ==
    /\ m.on /\ proper /\ ~vehicle.armed
    /\ IF gate.open THEN vehicle.switch # "invalid" ELSE vehicle.switch = "low"

AfterCommand(m, proper) ==
    CASE OpensFor(m, proper) ->
            [open |-> TRUE, lease |-> Lease, high |-> gate.high]
      [] m.on /\ proper /\ vehicle.armed -> gate
      [] OTHER -> Shut

GateReceives ==
    /\ up # <<>>
    /\ \E proper \in BOOLEAN :
        LET m == Head(up) IN
        /\ gate' = AfterCommand(m, proper)
        /\ down' = IF m.mine
                   THEN Send(down, [kind |-> "ack", mine |-> TRUE,
                                    good |-> ~m.on \/ OpensFor(m, proper)])
                   ELSE down
    /\ up' = Tail(up)
    /\ UNCHANGED <<vehicle, bridge, exchange, callVars, closed>>

(* The rest of update: a reason to close comes before the switch. *)
MustShut == vehicle.armed \/ gate.lease = 0 \/ vehicle.switch = "invalid"

GateShuts ==
    /\ gate.open /\ MustShut
    /\ gate' = Shut
    /\ UNCHANGED <<vehicle, wireVars, bridge, exchange, callVars, closed>>

(* A rising switch is one attempt to arm; the pre-arm checks may refuse.   *)
AttemptArm ==
    /\ gate.open /\ ~MustShut /\ vehicle.switch = "high" /\ ~gate.high
    /\ gate' = Shut
    /\ \E accepted \in BOOLEAN : vehicle' = [vehicle EXCEPT !.armed = accepted]
    /\ UNCHANGED <<wireVars, bridge, exchange, callVars, closed>>

SeesSwitchLow ==
    /\ gate.open /\ ~MustShut /\ vehicle.switch = "low" /\ gate.high
    /\ gate' = [gate EXCEPT !.high = FALSE]
    /\ UNCHANGED <<vehicle, wireVars, bridge, exchange, callVars, closed>>

(* The pilot, the receiver, and whatever disarms the vehicle. *)
Pilot(s) ==
    /\ vehicle.switch # s
    /\ vehicle' = [vehicle EXCEPT !.switch = s]
    /\ UNCHANGED <<gate, wireVars, bridge, exchange, callVars, closed>>

Disarm ==
    /\ vehicle.armed
    /\ vehicle' = [vehicle EXCEPT !.armed = FALSE]
    /\ UNCHANGED <<gate, wireVars, bridge, exchange, callVars, closed>>

Beat ==
    /\ Room(down)
    /\ down' = Append(down, [kind |-> "beat", good |-> vehicle.armed, mine |-> FALSE])
    /\ UNCHANGED <<gate, vehicle, up, bridge, exchange, callVars, closed>>

-----------------------------------------------------------------------------
(* set_ground_arm_authorization *)

Idle == {"idle", "ok", "failed"}
Phase == {"queued", "prepared", "waiting"} \cup Idle
Holding(c) == call[c] \in {"prepared", "waiting"}
LockFree == \A c \in Client : ~Holding(c)

Request(c, on) ==
    /\ call[c] \in Idle
    /\ line' = Append(line, c)
    /\ call' = [call EXCEPT ![c] = "queued"]
    /\ want' = [want EXCEPT ![c] = on]
    /\ UNCHANGED <<gate, vehicle, wireVars, bridge, exchange, closed>>

(* The call returns; what is still in flight answers nothing any more. *)
Finish(c, outcome) ==
    /\ call' = [call EXCEPT ![c] = outcome]
    /\ want' = [want EXCEPT ![c] = FALSE]
    /\ exchange' = NoExchange

(* The caller takes the result. *)
Return(c) ==
    /\ call' = [call EXCEPT ![c] = "idle"]
    /\ UNCHANGED <<gate, vehicle, wireVars, bridge, exchange, line, want, closed>>

(* Under the lock: the old keepalive is cancelled first, and its cleanup   *)
(* closes the gate it kept open, as well as it can.                        *)
(* Mutant: the keepalive outlives a revoke. *)
PreparedKeepsBeating(on) ==
    [bridge EXCEPT !.keeps = @ /\ ~on, !.authorized = @ /\ ~on, !.receipt = FALSE]
Prepared(on) ==
    [bridge EXCEPT !.keeps = FALSE, !.authorized = FALSE,
                   !.ttl = 0, !.receipt = FALSE]

Prepare(c) ==
    /\ line # <<>> /\ Head(line) = c /\ LockFree
    /\ line' = Tail(line)
    /\ IF want[c] /\ (~bridge.connected \/ bridge.armed)
       THEN Finish(c, "failed") /\ UNCHANGED <<bridge, up>>
       ELSE /\ bridge' = Prepared(want[c])
            /\ up' = IF want[c] /\ bridge.keeps /\ bridge.authorized /\ bridge.connected
                     THEN Send(up, Off) ELSE up
            /\ call' = [call EXCEPT ![c] = "prepared"]
            /\ UNCHANGED <<exchange, want>>
    /\ UNCHANGED <<gate, vehicle, down, closed>>

Transmit(c) ==
    /\ call[c] = "prepared"
    /\ \/ /\ ~bridge.connected /\ ~want[c]
          /\ Finish(c, "ok") /\ UNCHANGED <<up, closed>>
       \/ /\ bridge.connected \/ want[c]
          /\ Losses /\ Finish(c, "failed") /\ UNCHANGED <<up, closed>>
       \/ /\ bridge.connected \/ want[c]
          /\ Room(up)
          /\ up' = Append(Foreign(up), [on |-> want[c], mine |-> TRUE])
          /\ exchange' = [on |-> want[c], wait |-> AckWait, answer |-> "none", consumed |-> FALSE]
          /\ call' = [call EXCEPT ![c] = "waiting"]
          /\ closed' = FALSE
          /\ UNCHANGED want
    /\ UNCHANGED <<gate, vehicle, down, bridge, line>>

(* The answer came, and for an authorization nothing armed meanwhile. *)
Confirmed == exchange.answer = "accepted" /\ (exchange.on => ~exchange.consumed /\ ~bridge.armed)

Conclude(c) ==
    /\ call[c] = "waiting"
    /\ exchange.answer # "none" \/ exchange.wait = 0
    /\ Finish(c, IF Confirmed THEN "ok" ELSE "failed")
    /\ bridge' = IF exchange.on
                 THEN [bridge EXCEPT !.authorized = Confirmed, !.keeps = Confirmed,
                                     !.ttl = IF Confirmed THEN Ttl ELSE 0]
                 ELSE bridge
    /\ LET late == exchange.on /\ exchange.answer = "accepted" /\ ~Confirmed
       IN  up' = IF late THEN Send(Foreign(up), Off) ELSE Foreign(up)
    /\ down' = Foreign(down)
    /\ closed' = (Confirmed /\ ~exchange.on)
    /\ UNCHANGED <<gate, vehicle, line>>

(* ground_arm_authorization_active *)
Active == bridge.connected /\
    ((bridge.authorized /\ bridge.ttl > 0) \/ (bridge.receipt /\ bridge.armed))

-----------------------------------------------------------------------------
(* The keepalive task. *)

KeepsAlive ==
    /\ bridge.keeps /\ bridge.connected /\ bridge.authorized /\ bridge.ttl > 0
    /\ Room(up)
    /\ up' = Append(up, [on |-> TRUE, mine |-> FALSE])
    /\ UNCHANGED <<gate, vehicle, down, bridge, exchange, callVars, closed>>

(* Its end, at the deadline or when a message could not be sent. *)
KeepaliveEnds ==
    /\ bridge.keeps /\ (bridge.ttl = 0 \/ Losses)
    /\ bridge' = [bridge EXCEPT !.keeps = FALSE, !.authorized = FALSE, !.ttl = 0]
    /\ up' = IF bridge.authorized /\ bridge.connected
             THEN Send(up, Off) ELSE up
    /\ UNCHANGED <<gate, vehicle, down, exchange, callVars, closed>>

(* The reader task.  The first beat that says armed consumes the host's    *)
(* half: a live authorization becomes a receipt, a pending one fails.      *)
Consumed ==
    [bridge EXCEPT !.armed = TRUE, !.authorized = FALSE, !.ttl = 0, !.keeps = FALSE,
                   !.receipt = bridge.authorized /\ bridge.ttl > 0]

ReadBeat ==
    /\ down # <<>> /\ bridge.connected /\ Head(down).kind = "beat"
    /\ down' = Tail(down)
    /\ IF Head(down).good /\ ~bridge.armed
       THEN /\ bridge' = Consumed
            /\ exchange' = [exchange EXCEPT !.consumed = @ \/ exchange.on,
                    !.answer = IF exchange.on /\ @ = "none" THEN "rejected" ELSE @]
            /\ up' = Send(up, Off)
       ELSE /\ bridge' = [bridge EXCEPT !.armed = Head(down).good,
                                        !.receipt = @ /\ Head(down).good]
            /\ UNCHANGED <<exchange, up>>
    /\ UNCHANGED <<gate, vehicle, callVars, closed>>

ReadAck ==
    /\ down # <<>> /\ bridge.connected /\ Head(down).kind = "ack"
    /\ down' = Tail(down)
    /\ exchange' = IF Head(down).mine /\ exchange.answer = "none"
                   THEN [exchange EXCEPT !.answer =
                            IF Head(down).good THEN "accepted" ELSE "rejected"]
                   ELSE exchange
    /\ UNCHANGED <<gate, vehicle, up, bridge, callVars, closed>>

ReaderFails ==
    /\ bridge.connected /\ Losses
    /\ bridge' = [bridge EXCEPT !.connected = FALSE, !.authorized = FALSE, !.ttl = 0,
                                !.receipt = FALSE, !.keeps = FALSE]
    /\ exchange' = IF (\E c \in Client : call[c] = "waiting") /\ exchange.answer = "none"
                   THEN [exchange EXCEPT !.answer = "rejected"] ELSE exchange
    /\ down' = <<>>
    /\ UNCHANGED <<gate, vehicle, up, callVars, closed>>

Lose ==
    /\ Losses
    /\ \/ up # <<>> /\ up' = Tail(up) /\ UNCHANGED down
       \/ down # <<>> /\ down' = Tail(down) /\ UNCHANGED up
    /\ UNCHANGED <<gate, vehicle, bridge, exchange, callVars, closed>>

-----------------------------------------------------------------------------
(* The clock waits for whatever is due. *)

Less(n) == IF n = 0 THEN 0 ELSE n - 1

Due ==
    \/ up # <<>> \/ (bridge.connected /\ down # <<>>)
    \/ gate.open /\ MustShut
    \/ bridge.keeps /\ bridge.ttl = 0
    \/ line # <<>> /\ LockFree
    \/ \E c \in Client :
        \/ call[c] = "prepared"
        \/ call[c] = "waiting" /\ (exchange.answer # "none" \/ exchange.wait = 0)

Elapse ==
    /\ ~Due
    /\ gate' = [gate EXCEPT !.lease = Less(@)]
    /\ bridge' = [bridge EXCEPT !.ttl = Less(@)]
    /\ exchange' = [exchange EXCEPT !.wait = Less(@)]
    /\ UNCHANGED <<vehicle, wireVars, callVars, closed>>

BridgeStep ==
    \/ \E c \in Client : Prepare(c) \/ Transmit(c) \/ Conclude(c)
    \/ ReadBeat \/ ReadAck \/ KeepaliveEnds

GateStep == GateReceives \/ GateShuts \/ AttemptArm \/ SeesSwitchLow

LinkStep ==
    \/ BridgeStep \/ GateStep \/ KeepsAlive
    \/ Beat \/ ReaderFails \/ Lose \/ Disarm
    \/ \E s \in Positions : Pilot(s)

-----------------------------------------------------------------------------
GateTypeOK ==
    /\ gate \in Gate
    /\ vehicle \in [armed : BOOLEAN, switch : Switch]
    /\ up \in Seq(Command) /\ Len(up) <= MaxFlight
    /\ down \in Seq(Notice) /\ Len(down) <= MaxFlight
    /\ bridge \in Bridge /\ exchange \in Exchange
    /\ line \in Seq(Client)
    /\ call \in [Client -> Phase]
    /\ want \in [Client -> BOOLEAN]
    /\ closed \in BOOLEAN

(* An acknowledged revoke is final: until the next authorization is sent   *)
(* the gate stays shut, whatever was in flight when it was asked for and   *)
(* whatever the keepalive, the reader or another caller did meanwhile.     *)
RevokedStaysShut == closed => ~gate.open

=============================================================================
