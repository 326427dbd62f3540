--------------------------- MODULE SupervisorProofs ---------------------------
(***************************************************************************)
(* The supervisor's properties, for every set of defects and everything    *)
(* that may be enabled: what it starts from is founded (StartInv), a fault *)
(* can be cleared (from the types alone), the pilot keeps the vehicle and  *)
(* no guard lets into a state what the monitor condemns in it (OwnerInv,   *)
(* GuidedInv and EntryInv).  The last two compare two readings of the      *)
(* devices, the one a guard is asked about and the one the next tick       *)
(* judges: most of the lemmas say what the rules make of two readings that *)
(* are alike.                                                              *)
(***************************************************************************)
EXTENDS Supervisor, TLAPS

LEMMA InitTyped == Init => TypeOK
  <1> SUFFICES ASSUME Init PROVE TypeOK
    OBVIOUS
  <1>1. mode \in SystemState \ {"EMERGENCY_STOP"}
    BY DEF Init, SystemState
  <1>2. motor \in Motor /\ air \in Air /\ legs \in Legs
    BY DEF Init, Motor, Air, Legs
  <1>3. manual \in Session /\ confirmed \in Word
    BY DEF Init, NoSession, NoWord, Session, Word, Shape
  <1> QED  BY <1>1, <1>2, <1>3 DEF Init, TypeOK

(* What a transition, taken or refused, leaves of the right kinds.         *)
Decided ==
    /\ mode' \in SystemState \ {"EMERGENCY_STOP"} /\ manual' \in Session
    /\ confirmed' \in Word /\ vouched' \in BOOLEAN /\ authorized' \in BOOLEAN
    /\ codes' \in SUBSET Kinds

Guidance == {"off", "engaged", "sending"}

LEMMA EnterTyped ==
    ASSUME TypeOK, NEW to \in SystemState \ {"EMERGENCY_STOP"}, Enter(to),
           codes' \in SUBSET Kinds
    PROVE  Decided
  BY DEF TypeOK, Enter, NoSession, NoWord, Session, Word, Shape, Decided

LEMMA StoppedTyped == motor \in Motor => Stopped \subseteq Motor
  BY DEF Stopped, Motor

LEMMA FaultTyped ==
    ASSUME TypeOK, NEW code \in Kinds, Condemned(code)
    PROVE  Decided
  <1>1. "FAULT" \in SystemState \ {"EMERGENCY_STOP"}
    BY DEF SystemState
  <1> QED  BY <1>1, EnterTyped DEF Condemned, TypeOK

LEMMA AsksTyped ==
    ASSUME TypeOK, NEW s, NEW to \in SystemState \ {"EMERGENCY_STOP"},
           Asks(to) \/ AsksOrFaultsOn(s, to)
    PROVE  Decided
  <1>1. "FAULT" \in SystemState \ {"EMERGENCY_STOP"}
    BY DEF SystemState
  <1>2. "INVALID_STATE_TRANSITION" \in Kinds /\ "SEEN" \in Kinds
    BY DEF Kinds
  <1>3. CASE Enter(to) /\ UNCHANGED codes
    BY <1>3, EnterTyped DEF TypeOK
  <1>4. CASE Refused
    BY <1>4, <1>2 DEF TypeOK, Refused, Decided, entered
  <1>5. CASE Enter("FAULT") /\ codes' = codes \cup {"SEEN", "INVALID_STATE_TRANSITION"}
    BY <1>5, <1>1, <1>2, EnterTyped DEF TypeOK
  <1> QED  BY <1>3, <1>4, <1>5 DEF Asks, AsksOrFaultsOn

(* An abort returns to the pilot, or ends in FAULT; either way the set     *)
(* points stop - or have failed to.                                        *)
LEMMA AbortTyped ==
    ASSUME TypeOK, NEW s, NEW from \in Guidance, NEW seen \in SUBSET Kinds,
           \/ AbortsFrom(s, from, seen) \/ FinishesAbort(s, seen)
           \/ SetpointStopFails(from, seen) \/ LowCmdRevokeFails(seen)
    PROVE  Decided
  <1>1. /\ "FAULT" \in SystemState \ {"EMERGENCY_STOP"}
        /\ "FLIGHT_MANUAL" \in SystemState \ {"EMERGENCY_STOP"}
    BY DEF SystemState
  <1>2. {"SEEN", "INVALID_STATE_TRANSITION"} \cup StopFailures \subseteq Kinds
    BY DEF Kinds
  <1>3. CASE FinishesAbort(s, seen)
    BY <1>1, <1>2, <1>3, EnterTyped DEF FinishesAbort
  <1>4. CASE SetpointStopFails(from, seen) \/ LowCmdRevokeFails(seen)
    <2>1. Enter("FAULT") /\ codes' \in SUBSET Kinds
      BY <1>2, <1>4 DEF SetpointStopFails, LowCmdRevokeFails, StopFailures
    <2> QED  BY <2>1, <1>1, EnterTyped
  <1> QED  BY <1>3, <1>4 DEF AbortsFrom

LEMMA AbortGuided ==
    ASSUME NEW s, NEW from \in Guidance, NEW seen,
           \/ AbortsFrom(s, from, seen) \/ SetpointStopFails(from, seen)
           \/ LowCmdRevokeFails(seen)
    PROVE  guided' \in Guidance
  BY DEF AbortsFrom, SetpointStopFails, LowCmdRevokeFails, Guidance

LEMMA JudgedTyped == TypeOK => Judged.codes \in SUBSET Kinds
  BY DEF TypeOK, Judged, Ticked, Reading, Updated, LatchedViolations, Kinds,
         StopFailures

LEMMA VehicleTyped == TypeOK /\ Vehicle => TypeOK'
  <1> SUFFICES ASSUME TypeOK, Vehicle PROVE TypeOK'
    OBVIOUS
  <1> USE DEF vehicle, mechanism, go2
  <1>1. CASE Breaks
    BY <1>1 DEF Breaks, TypeOK, Motor, NoWord, Word, Session, Shape
  <1>2. CASE Mends \/ Flicks \/ Phone \/ Returns
    BY <1>2 DEF Mends, Flicks, Phone, Returns, TypeOK, Legs
  <1>3. CASE Flies
    BY <1>3 DEF Flies, TypeOK, Air
  <1>4. CASE Stalls
    BY <1>4 DEF Stalls, TypeOK, Motor, NoWord, Word
  <1> QED  BY <1>1, <1>2, <1>3, <1>4 DEF Vehicle

LEMMA TickTyped == TypeOK /\ Tick => TypeOK'
  <1> SUFFICES ASSUME TypeOK, Tick PROVE TypeOK'
    OBVIOUS
  <1> USE DEF vehicle, mechanism, go2
  <1>1. /\ "FAULT" \in SystemState \ {"EMERGENCY_STOP"}
        /\ "FLIGHT_MANUAL" \in SystemState \ {"EMERGENCY_STOP"}
        /\ "FLIGHT_READY" \in SystemState \ {"EMERGENCY_STOP"}
        /\ "TOUCHDOWN_VERIFY" \in SystemState \ {"EMERGENCY_STOP"}
        /\ "LANDING_COMPLIANT" \in SystemState \ {"EMERGENCY_STOP"}
    BY DEF SystemState
  <1>2. {"SEEN", "INVALID_STATE_TRANSITION", "AUTOLAND_CONTROLLER_TIMEOUT"} \subseteq Kinds
    BY DEF Kinds
  <1>3. Judged.codes \in SUBSET Kinds
    BY JudgedTyped
  <1>4. motor' \in Motor
    BY StoppedTyped DEF Tick, TickFaults, TickAborts, TickFollowsPilot, TickAsks,
       TickLands, TickComplies, TickWaits, TickRests, RevokeFails, TypeOK
  <1>5. legs' \in Legs /\ eased' \in BOOLEAN
    BY DEF Tick, TickFaults, TickAborts, TickFollowsPilot, TickAsks,
       TickLands, TickComplies, TickWaits, TickRests, RevokeFails, TypeOK, Legs
  <1>6. UNCHANGED <<config, vehicle, owner>>
    BY DEF Tick, TickFaults, TickAborts, TickFollowsPilot, TickAsks,
       TickLands, TickComplies, TickWaits, TickRests, RevokeFails
  <1>7. Decided
    <2>1. CASE TickFaults
      BY <2>1, <1>1, <1>2, <1>3, EnterTyped DEF TickFaults
    <2>2. CASE TickAborts
      <3>1. ASSUME NEW seen \in SUBSET Kinds, AbortsFrom(Judged, guided, seen)
            PROVE  Decided
        BY <3>1, AbortTyped DEF TypeOK, Guidance
      <3>2. ASSUME NEW late \in SUBSET {"AUTOLAND_CONTROLLER_TIMEOUT"}
            PROVE  Judged.codes \cup late \in SUBSET Kinds
        BY <1>2, <1>3
      <3> QED  BY <2>2, <1>3, <3>1, <3>2 DEF TickAborts
    <2>3. CASE TickFollowsPilot
      <3>1. ASSUME NEW to \in SystemState \ {"EMERGENCY_STOP"}, TickAsks(to)
            PROVE  Decided
        BY <3>1, <1>1, <1>2, <1>3, EnterTyped DEF TickAsks
      <3> QED  BY <2>3, <3>1, <1>1 DEF TickFollowsPilot
    <2>4. CASE TickLands
      <3>1. CASE Enter("TOUCHDOWN_VERIFY") /\ codes' = Judged.codes
        BY <3>1, <1>1, <1>3, EnterTyped
      <3> QED  BY <2>4, <3>1, <1>3, AbortTyped DEF TickLands, TypeOK, Guidance
    <2>5. CASE TickComplies
      BY <2>5, <1>1, <1>2, <1>3, EnterTyped DEF TickComplies
    <2>6. CASE TickWaits
      BY <2>6, <1>1, <1>2, <1>3, EnterTyped DEF TickWaits
    <2>7. CASE TickRests
      <3>1. authorized' \in BOOLEAN
        BY <2>7 DEF TickRests, Proven, TypeOK, Armed, GroundProof
      <3> QED  BY <2>7, <1>3, <3>1 DEF TickRests, Decided, TypeOK
    <2>8. CASE RevokeFails
      <3>1. codes' \in SUBSET Kinds
        BY <2>8, <1>2, <1>3 DEF RevokeFails, TypeOK
      <3> QED  BY <2>8, <3>1, <1>1, EnterTyped DEF RevokeFails
    <2> QED  BY <2>1, <2>2, <2>3, <2>4, <2>5, <2>6, <2>7, <2>8 DEF Tick
  <1>8. guided' \in Guidance
    <2>1. CASE TickAborts
      BY <2>1, AbortGuided DEF TickAborts, TypeOK, Guidance
    <2>2. CASE TickLands
      BY <2>2, AbortGuided DEF TickLands, TypeOK, Guidance
    <2>3. CASE TickFaults \/ TickFollowsPilot \/ TickRests \/ RevokeFails
      BY <2>3 DEF TickFaults, TickFollowsPilot, TickAsks, TickRests, RevokeFails,
         TypeOK, Guidance
    <2>4. CASE TickComplies \/ TickWaits
      BY <2>4 DEF TickComplies, TickWaits, TypeOK, Guidance
    <2> QED  BY <2>1, <2>2, <2>3, <2>4 DEF Tick
  <1> QED  BY <1>4, <1>5, <1>6, <1>7, <1>8 DEF TypeOK, Decided, Guidance

(* The commands that ask for a transition and change nothing else.         *)
Askers ==
    \/ Adopt \/ Disconnect \/ EnterManual \/ LeaveCompliance
    \/ HomeWalk \/ TransformFlight \/ TransformWalk \/ Precheck
    \/ PrepareAutoland

LEMMA AskersFrame == Askers => UNCHANGED <<config, vehicle, motor, go2, guided>>
  BY DEF Askers, Adopt, Disconnect, EnterManual, LeaveCompliance, HomeWalk,
     TransformFlight, TransformWalk, Precheck, PrepareAutoland

LEMMA AskersTyped == TypeOK /\ Askers => TypeOK'
  <1> SUFFICES ASSUME TypeOK, Askers PROVE TypeOK'
    OBVIOUS
  <1> DEFINE M == SystemState \ {"EMERGENCY_STOP"}
  <1>1. /\ {"BOOT_SAFE", "WALK", "FLIGHT_READY", "GO2_JOINT_LOCK_WAIT"} \subseteq M
        /\ {"MANUAL_POSITIONING", "HOMING_TO_WALK", "WALK_TO_FLIGHT_PRECHECK"} \subseteq M
        /\ {"FLIGHT_TO_WALK_PRECHECK", "TRANSFORM_TO_FLIGHT"} \subseteq M
        /\ {"TRANSFORM_TO_WALK", "AUTO_LANDING_READY"} \subseteq M
    BY DEF SystemState
  <1>2. Decided
    <2>1. CASE Adopt \/ Disconnect \/ EnterManual
      BY <2>1, <1>1, AsksTyped DEF Adopt, Disconnect, EnterManual
    <2>2. CASE LeaveCompliance \/ PrepareAutoland
      BY <2>2, <1>1, AsksTyped DEF LeaveCompliance, PrepareAutoland
    <2>3. CASE HomeWalk \/ TransformFlight \/ TransformWalk \/ Precheck
      BY <2>3, <1>1, AsksTyped
         DEF HomeWalk, TransformFlight, TransformWalk, Precheck, AsksOrFaults
    <2> QED  BY <2>1, <2>2, <2>3 DEF Askers
  <1> QED  BY <1>2, AskersFrame DEF TypeOK, Decided, vehicle, go2

(* The commands that begin or end the guidance of the Pixhawk.             *)
Guides == ClearFault \/ StartAutoland \/ AbortAutoland

LEMMA GuidesFrame == Guides => UNCHANGED <<config, vehicle, motor, go2>>
  BY DEF Guides, ClearFault, StartAutoland, AbortAutoland

LEMMA GuidesTyped == TypeOK /\ Guides => TypeOK'
  <1> SUFFICES ASSUME TypeOK, Guides PROVE TypeOK'
    OBVIOUS
  <1>1. /\ "BOOT_SAFE" \in SystemState \ {"EMERGENCY_STOP"}
        /\ "FAULT" \in SystemState \ {"EMERGENCY_STOP"}
        /\ "AUTO_LANDING" \in SystemState \ {"EMERGENCY_STOP"}
    BY DEF SystemState
  <1>2. {"INVALID_STATE_TRANSITION", "AUTOLAND_CONTROLLER_TIMEOUT"} \subseteq Kinds
    BY DEF Kinds
  <1>3. guided \in Guidance /\ codes \in SUBSET Kinds
    BY DEF TypeOK, Guidance
  <1>4. Decided /\ guided' \in Guidance
    <2>1. CASE ClearFault
      <3>1. codes' \in SUBSET Kinds /\ guided' \in Guidance
        BY <2>1, <1>2, <1>3 DEF ClearFault, Guidance
      <3>2. UNCHANGED entered \/ Enter("BOOT_SAFE") \/ Enter("FAULT")
        BY <2>1 DEF ClearFault
      <3> QED  BY <3>1, <3>2, <1>1, EnterTyped DEF TypeOK, Decided, entered
    <2>2. CASE StartAutoland
      <3>1. CASE Enter("AUTO_LANDING") /\ guided' = "sending" /\ UNCHANGED codes
        BY <3>1, <1>1, <1>3, EnterTyped DEF Guidance
      <3>2. ASSUME NEW late \in SUBSET {"AUTOLAND_CONTROLLER_TIMEOUT"}, NEW s,
                   AbortsFrom(s, "engaged", codes \cup late)
            PROVE  Decided /\ guided' \in Guidance
        <4>1. codes \cup late \in SUBSET Kinds /\ "engaged" \in Guidance
          BY <1>2, <1>3 DEF Guidance
        <4> QED  BY <3>2, <4>1, AbortTyped, AbortGuided
      <3>3. CASE Refused /\ guided' = "off"
        BY <3>3, <1>2, <1>3 DEF Refused, entered, Decided, TypeOK, Guidance
      <3>4. CASE SetpointStopFails("engaged", codes \cup {"INVALID_STATE_TRANSITION"})
        <4>1. /\ codes \cup {"INVALID_STATE_TRANSITION"} \in SUBSET Kinds
              /\ "engaged" \in Guidance
          BY <1>2, <1>3 DEF Guidance
        <4> QED  BY <3>4, <4>1, AbortTyped, AbortGuided
      <3> QED  BY <2>2, <3>1, <3>2, <3>3, <3>4 DEF StartAutoland
    <2>3. CASE AbortAutoland
      <3>1. CASE guided' = "off" /\ UNCHANGED <<entered, codes>>
        BY <3>1 DEF entered, Decided, TypeOK, Guidance
      <3> QED  BY <2>3, <3>1, <1>3, AbortTyped, AbortGuided DEF AbortAutoland
    <2> QED  BY <2>1, <2>2, <2>3 DEF Guides
  <1> QED  BY <1>4, GuidesFrame DEF TypeOK, Decided, Guidance, vehicle, go2

(* The commands of the mechanism.                                          *)
Movers == ExitManual \/ StartMotion \/ Mark \/ ConfirmShape \/ Turns \/ Arrives

LEMMA MoversFrame == Movers => UNCHANGED <<config, vehicle, go2, guided>>
  BY DEF Movers, ExitManual, StartMotion, Mark, ConfirmShape, Turns, Arrives

LEMMA MoversTyped == TypeOK /\ Movers => TypeOK'
  <1> SUFFICES ASSUME TypeOK, Movers PROVE TypeOK'
    OBVIOUS
  <1>1. /\ "BOOT_SAFE" \in SystemState \ {"EMERGENCY_STOP"}
        /\ "WALK" \in SystemState \ {"EMERGENCY_STOP"}
        /\ "GO2_JOINT_LOCK_WAIT" \in SystemState \ {"EMERGENCY_STOP"}
    BY DEF SystemState
  <1>2. {"SEEN", "STICKY", "INVALID_STATE_TRANSITION"} \subseteq Kinds
    BY DEF Kinds
  <1>3. NoWord \in Word /\ NoSession \in Session
    BY DEF NoWord, Word, NoSession, Session, Shape
  <1>4. \A t \in Shape, stale \in BOOLEAN : Vouches(t, stale) => confirmed' \in Word
    BY <1>3 DEF Vouches, Word
  <1>5. motor' \in Motor
    BY StoppedTyped DEF Movers, ExitManual, StartMotion, Mark, ConfirmShape, Turns,
       Arrives, TypeOK, Motor, expected_state_for
  <1>6. Decided
    <2>1. CASE ExitManual
      <3>1. CASE UNCHANGED <<entered, motor, codes>>
        BY <3>1 DEF Decided, TypeOK, entered
      <3>2. CASE Enter("BOOT_SAFE") /\ UNCHANGED codes
        BY <3>2, <1>1, EnterTyped DEF TypeOK
      <3>3. CASE /\ codes' = codes \cup {"INVALID_STATE_TRANSITION"}
                 /\ manual' = NoSession /\ confirmed' = NoWord
                 /\ UNCHANGED <<mode, vouched, authorized>>
        BY <3>3, <1>2, <1>3 DEF Decided, TypeOK
      <3> QED  BY <2>1, <3>1, <3>2, <3>3 DEF ExitManual
    <2>2. CASE StartMotion
      <3>1. \A d \in {"FWD", "REV"} :
              [Started(d) EXCEPT !.stale = Started(d).mark # "NONE"] \in Session
        BY DEF Started, NoSession, Session, Shape
      <3> QED
        BY <2>2, <3>1, <1>2, <1>3, FaultTyped DEF StartMotion, Decided, TypeOK, entered
    <2>3. CASE Mark
      BY <2>3, <1>4 DEF Mark, Decided, TypeOK, Session
    <2>4. CASE ConfirmShape
      <3>1. PICK t \in Shape :
              \/ /\ mode' \in {"WALK", "GO2_JOINT_LOCK_WAIT"}
                 /\ manual' = NoSession /\ vouched' = FALSE /\ authorized' = FALSE
                 /\ Vouches(t, manual.stale) /\ UNCHANGED codes
              \/ /\ codes' = codes \cup {"INVALID_STATE_TRANSITION"}
                 /\ confirmed' = NoWord /\ UNCHANGED <<mode, manual, vouched, authorized>>
        BY <2>4 DEF ConfirmShape
      <3>2. manual.stale \in BOOLEAN
        BY DEF TypeOK, Session
      <3> QED  BY <3>1, <3>2, <1>1, <1>2, <1>3, <1>4 DEF Decided, TypeOK
    <2>5. CASE Turns
      BY <2>5 DEF Turns, Decided, TypeOK, Word
    <2>6. CASE Arrives
      <3>1. \/ /\ mode' \in {"WALK", "GO2_JOINT_LOCK_WAIT"}
               /\ manual' = NoSession /\ confirmed' = NoWord /\ vouched' = FALSE
               /\ authorized' = FALSE /\ UNCHANGED codes
            \/ Condemned("STICKY")
        BY <2>6 DEF Arrives
      <3> QED  BY <3>1, <1>1, <1>2, <1>3, FaultTyped DEF Decided, TypeOK
    <2> QED  BY <2>1, <2>2, <2>3, <2>4, <2>5, <2>6 DEF Movers
  <1> QED  BY <1>5, <1>6, MoversFrame DEF TypeOK, Decided, vehicle, go2

(* The stops.                                                              *)
Stoppers == StopTransform \/ InterruptTransform \/ StopSupervised

LEMMA StoppersFrame == Stoppers => UNCHANGED <<config, vehicle, go2>>
  BY DEF Stoppers, StopTransform, InterruptTransform, StopSupervised

LEMMA StoppersTyped == TypeOK /\ Stoppers => TypeOK'
  <1> SUFFICES ASSUME TypeOK, Stoppers PROVE TypeOK'
    OBVIOUS
  <1>1. motor' \in Motor
    BY StoppedTyped DEF Stoppers, StopTransform, InterruptTransform, StopSupervised,
       TypeOK
  <1>2. guided' \in Guidance
    BY DEF Stoppers, StopTransform, InterruptTransform, StopSupervised, AllStopped,
       StopFails, TypeOK, Guidance
  <1>3. {"SEEN", "SUPERVISED_STOP_FAILED"} \subseteq Kinds
    BY DEF Kinds, StopFailures
  <1>4. ASSUME StopFails PROVE Decided
    BY <1>3, <1>4, FaultTyped DEF StopFails, TypeOK, Decided, entered
  <1>5. ASSUME StopTransform PROVE Decided
    BY <1>4, <1>5 DEF StopTransform, TypeOK, Decided, entered
  <1>6. ASSUME InterruptTransform PROVE Decided
    BY <1>3, <1>6, FaultTyped DEF InterruptTransform
  <1>7. ASSUME StopSupervised PROVE Decided
    <2>1. \/ FinishesAbort(Reading, codes) \/ Condemned("SEEN") \/ StopFails
          \/ /\ authorized' = FALSE
             /\ UNCHANGED <<mode, manual, confirmed, vouched, codes>>
      BY <1>7 DEF StopSupervised
    <2>2. codes \in SUBSET Kinds /\ "off" \in Guidance
      BY DEF TypeOK, Guidance
    <2> QED  BY <1>3, <1>4, <2>1, <2>2, FaultTyped, AbortTyped DEF Decided, TypeOK
  <1>8. Decided
    BY <1>4, <1>5, <1>6, <1>7 DEF Stoppers
  <1> QED  BY <1>1, <1>2, <1>8, StoppersFrame DEF TypeOK, Decided, Guidance, vehicle, go2

(* The commands of the legs and of the authorization.                      *)
Handers == ConfirmLock \/ Acquire \/ Release \/ Authorize \/ Revoke

LEMMA HandersTyped == TypeOK /\ Handers => TypeOK'
  <1> SUFFICES ASSUME TypeOK, Handers PROVE TypeOK'
    OBVIOUS
  <1> USE DEF vehicle, mechanism, go2
  <1>1. /\ "FLIGHT_READY" \in SystemState \ {"EMERGENCY_STOP"}
        /\ "GO2_GROUND_HANDOVER" \in SystemState \ {"EMERGENCY_STOP"}
        /\ "SEEN" \in Kinds
    BY DEF SystemState, Kinds
  <1>2. CASE ConfirmLock
    <2>1. Decided
      <3>1. \/ /\ mode' = "FLIGHT_READY" /\ manual' = NoSession /\ authorized' = FALSE
               /\ vouched' = TRUE /\ UNCHANGED <<confirmed, codes>>
            \/ Condemned("SEEN")
        BY <1>2 DEF ConfirmLock
      <3>2. NoSession \in Session
        BY DEF NoSession, Session, Shape
      <3> QED  BY <3>1, <3>2, <1>1, FaultTyped DEF Decided, TypeOK
    <2> QED  BY <1>2, <2>1 DEF ConfirmLock, TypeOK, Decided
  <1>3. CASE Release
    <2>1. Decided
      BY <1>3, <1>1, AsksTyped DEF Release, Decided, TypeOK
    <2> QED  BY <1>3, <2>1 DEF Release, TypeOK, Decided, Legs
  <1>4. CASE Acquire \/ Authorize \/ Revoke
    BY <1>4 DEF Acquire, Authorize, Revoke, TypeOK
  <1> QED  BY <1>2, <1>3, <1>4 DEF Handers

LEMMA CommandKinds == Command <=> Askers \/ Guides \/ Movers \/ Stoppers \/ Handers
  BY DEF Command, Askers, Guides, Movers, Stoppers, Handers

LEMMA StepTyped == TypeOK /\ [Next]_vars => TypeOK'
  <1>1. CASE UNCHANGED vars
    BY <1>1 DEF vars, vehicle, mechanism, go2, TypeOK
  <1> QED  BY <1>1, VehicleTyped, TickTyped, AskersTyped, GuidesTyped, MoversTyped,
              StoppersTyped, HandersTyped, CommandKinds DEF Next

(* The supervisor keeps what it knows in values of their kinds.            *)
THEOREM TypeCorrect == Spec => []TypeOK
  <1> QED  BY InitTyped, StepTyped, PTL DEF Spec

-----------------------------------------------------------------------------
(* Motion and flight start from what has been seen since it last changed.  *)

Transforming == {"HOMING_TO_WALK", "TRANSFORM_TO_FLIGHT", "TRANSFORM_TO_WALK"}

(* The operator's word is outdated only while a transform turns the        *)
(* mechanism, or stands with an F446 in fault; a mark never is.            *)
StaleWhileTurning ==
    /\ ~manual.stale
    /\ confirmed.stale => /\ mode \in Transforming
                          /\ motor \in {"LIMIT_FWD", "LIMIT_REV"} \/ "f446_fault" \in bad

(* The legs that gave way are locked again before anything of the flight   *)
(* begins, and where they report the lock.                                 *)
LockedForFlight ==
    /\ legs = "lock" => ~eased
    /\ mode \in FlightJointLockStates => ~eased

StartInv == StaleWhileTurning /\ LockedForFlight

LEMMA InitFounded == Init => StartInv
  BY DEF Init, StartInv, StaleWhileTurning, LockedForFlight, NoSession, NoWord,
         FlightJointLockStates

LEMMA FoundedStart == TypeOK /\ StartInv => StartIsFounded
  <1> SUFFICES ASSUME TypeOK, StartInv PROVE StartIsFounded
    OBVIOUS
  <1>1. ASSUME OperatorShape(Reading) # {} PROVE ~confirmed.stale
    <2>1. F446State(Reading) = "IDLE" /\ ~Faulted(Reading)
      BY <1>1 DEF OperatorShape
    <2>2. motor = "IDLE" /\ "f446_fault" \notin bad
      BY <2>1 DEF F446State, Faulted, Reading
    <2> QED  BY <2>2 DEF StartInv, StaleWhileTurning
  <1>2. mode = "TRANSFORM_TO_WALK" => ~eased
    BY DEF StartInv, LockedForFlight, FlightJointLockStates
  <1> QED  BY <1>1, <1>2 DEF StartIsFounded, ShapeIsCurrent, RelockedFirst

LEMMA VehicleFounded == TypeOK /\ StartInv /\ Vehicle => StartInv'
  <1> SUFFICES ASSUME TypeOK, StartInv, Vehicle PROVE StartInv'
    OBVIOUS
  <1> USE DEF vehicle, mechanism, go2, StartInv, StaleWhileTurning, LockedForFlight
  <1>1. CASE Breaks
    BY <1>1 DEF Breaks, TypeOK, NoWord, Word, Session
  <1>2. CASE Mends
    BY <1>2 DEF Mends, Transforming, ACTIVE_TRANSFORM_STATES
  <1>3. CASE Flies \/ Flicks \/ Returns
    BY <1>3 DEF Flies, Flicks, Returns
  <1>4. CASE Phone
    BY <1>4 DEF Phone, TypeOK
  <1>5. CASE Stalls
    BY <1>5 DEF Stalls, NoWord
  <1> QED  BY <1>1, <1>2, <1>3, <1>4, <1>5 DEF Vehicle

(* Entering a state forgets what FAULT and BOOT_SAFE forget, and no more.  *)
LEMMA EnterKeepsWord ==
    ASSUME TypeOK, StaleWhileTurning, NEW to, Enter(to),
           to = "FAULT" \/ mode \notin Transforming
    PROVE  ~manual'.stale /\ ~confirmed'.stale
  BY DEF Enter, StaleWhileTurning, NoSession, NoWord

(* An abort of a landing enters FLIGHT_MANUAL, or FAULT.                   *)
LEMMA AbortEnters ==
    ASSUME NEW s, NEW from, NEW seen,
           \/ AbortsFrom(s, from, seen) \/ FinishesAbort(s, seen)
           \/ SetpointStopFails(from, seen) \/ LowCmdRevokeFails(seen)
    PROVE  Enter("FAULT") \/ Enter("FLIGHT_MANUAL")
  BY DEF AbortsFrom, FinishesAbort, SetpointStopFails, LowCmdRevokeFails

LEMMA EnterFounded ==
    ASSUME TypeOK, StartInv, NEW to, Enter(to), to = "FAULT" \/ mode \notin Transforming,
           to \in FlightJointLockStates => legs = "lock" \/ mode \in FlightJointLockStates,
           UNCHANGED <<legs, eased>>
    PROVE  StartInv'
  BY EnterKeepsWord DEF Enter, StartInv, StaleWhileTurning, LockedForFlight

LEMMA TickFounded == TypeOK /\ StartInv /\ Tick => StartInv'
  <1> SUFFICES ASSUME TypeOK, StartInv, Tick PROVE StartInv'
    OBVIOUS
  <1> USE DEF vehicle, mechanism, go2, StartInv
  <1>1. CASE TickFaults
    BY <1>1, EnterKeepsWord
       DEF TickFaults, Enter, StaleWhileTurning, LockedForFlight, FlightJointLockStates
  <1>2. CASE TickAborts
    <2>1. Enter("FAULT") \/ Enter("FLIGHT_MANUAL")
      BY <1>2, AbortEnters DEF TickAborts
    <2> QED
      BY <1>2, <2>1, EnterFounded
         DEF TickAborts, AutolandStates, Transforming, FlightJointLockStates
  <1>3. CASE TickFollowsPilot
    <2>1. /\ Enter("FAULT") \/ Enter("FLIGHT_MANUAL") \/ Enter("FLIGHT_READY")
          /\ mode \in {"FLIGHT_MANUAL", "FLIGHT_READY"} /\ UNCHANGED <<legs, eased>>
      BY <1>3 DEF TickFollowsPilot, TickAsks
    <2> QED
      BY <2>1, EnterFounded DEF Transforming, FlightJointLockStates
  <1>4. CASE TickLands \/ RevokeFails
    <2>1. Enter("FAULT") \/ Enter("FLIGHT_MANUAL") \/ Enter("TOUCHDOWN_VERIFY")
      BY <1>4, AbortEnters DEF TickLands, RevokeFails
    <2> QED
      BY <1>4, <2>1, EnterFounded
         DEF TickLands, RevokeFails, Transforming, FlightJointLockStates
  <1>5. CASE TickComplies
    BY <1>5, EnterKeepsWord
       DEF TickComplies, Enter, Transforming, StaleWhileTurning,
           LockedForFlight, FlightJointLockStates
  <1>6. CASE TickWaits
    <2>1. joints_locked(Judged) => legs = "lock"
      BY DEF joints_locked, Judged, Ticked, Reading
    <2> QED
      BY <1>6, <2>1, EnterKeepsWord
         DEF TickWaits, Enter, Transforming, StaleWhileTurning,
             LockedForFlight, FlightJointLockStates
  <1>7. CASE TickRests
    BY <1>7 DEF TickRests, StaleWhileTurning, LockedForFlight
  <1> QED  BY <1>1, <1>2, <1>3, <1>4, <1>5, <1>6, <1>7 DEF Tick

(* A command that asks for a transition stands still, enters the state, or *)
(* is condemned.                                                           *)
LEMMA AskedFounded ==
    ASSUME TypeOK, StartInv, NEW s, NEW to, Asks(to) \/ AsksOrFaultsOn(s, to),
           mode \notin Transforming,
           to \in FlightJointLockStates => legs = "lock" \/ mode \in FlightJointLockStates,
           UNCHANGED <<vehicle, motor, legs, eased>>
    PROVE  StartInv'
  <1> USE DEF vehicle, StartInv
  <1>1. CASE Refused
    BY <1>1 DEF Refused, entered, StaleWhileTurning, LockedForFlight
  <1>2. CASE Enter(to)
    BY <1>2, EnterFounded
  <1>3. CASE Enter("FAULT")
    BY <1>3, EnterFounded DEF FlightJointLockStates
  <1> QED  BY <1>1, <1>2, <1>3 DEF Asks, AsksOrFaultsOn

LEMMA AskersFounded == TypeOK /\ StartInv /\ Askers => StartInv'
  <1> SUFFICES ASSUME TypeOK, StartInv, Askers PROVE StartInv'
    OBVIOUS
  <1> USE DEF Transforming, FlightJointLockStates
  <1>1. UNCHANGED <<vehicle, motor, legs, eased>>
    BY AskersFrame DEF go2
  <1>3. CASE Adopt
    <2>1. joints_locked(Reading) => legs = "lock"
      BY DEF joints_locked, Reading
    <2> QED  BY <1>1, <1>3, <2>1, AskedFounded DEF Adopt
  <1>4. CASE Disconnect \/ EnterManual \/ LeaveCompliance
    BY <1>1, <1>4, AskedFounded DEF Disconnect, EnterManual, LeaveCompliance
  <1>5. CASE PrepareAutoland
    BY <1>1, <1>5, AskedFounded DEF PrepareAutoland
  <1>6. CASE HomeWalk \/ TransformFlight \/ TransformWalk \/ Precheck
    BY <1>1, <1>6, AskedFounded
       DEF HomeWalk, TransformFlight, TransformWalk, Precheck, AsksOrFaults,
           TRANSFORM_PRECHECK_STATES
  <1> QED  BY <1>3, <1>4, <1>5, <1>6 DEF Askers

LEMMA GuidesFounded == TypeOK /\ StartInv /\ Guides => StartInv'
  <1> SUFFICES ASSUME TypeOK, StartInv, Guides PROVE StartInv'
    OBVIOUS
  <1>1. UNCHANGED <<vehicle, motor, legs, eased>>
    BY GuidesFrame DEF go2
  <1>2. ASSUME UNCHANGED entered PROVE StartInv'
    BY <1>1, <1>2 DEF entered, vehicle, StartInv, StaleWhileTurning, LockedForFlight
  <1>3. CASE ClearFault
    <2>1. \/ UNCHANGED entered
          \/ /\ mode = "FAULT"
             /\ Enter("BOOT_SAFE") \/ Enter("FAULT")
      BY <1>3 DEF ClearFault
    <2>2. ASSUME mode = "FAULT", NEW to \in {"BOOT_SAFE", "FAULT"}, Enter(to)
          PROVE  StartInv'
      <3>1. mode \notin Transforming /\ to \notin FlightJointLockStates
        BY <2>2 DEF Transforming, FlightJointLockStates
      <3> QED  BY <1>1, <2>2, <3>1, EnterFounded
    <2> QED  BY <1>2, <2>1, <2>2
  <1>4. CASE StartAutoland
    <2>1. \/ UNCHANGED entered
          \/ Enter("AUTO_LANDING") \/ Enter("FLIGHT_MANUAL") \/ Enter("FAULT")
      BY <1>4, AbortEnters DEF StartAutoland, Refused
    <2> QED
      BY <1>1, <1>2, <1>4, <2>1, EnterFounded
         DEF StartAutoland, Transforming, FlightJointLockStates
  <1>5. CASE AbortAutoland
    <2>1. \/ UNCHANGED entered \/ Enter("FAULT")
          \/ mode \in AutolandStates /\ Enter("FLIGHT_MANUAL")
      BY <1>5, AbortEnters
         DEF AbortAutoland, SetpointStopFails, LowCmdRevokeFails
    <2> QED
      BY <1>1, <1>2, <2>1, EnterFounded
         DEF AutolandStates, Transforming, FlightJointLockStates
  <1> QED  BY <1>3, <1>4, <1>5 DEF Guides

LEMMA MoversFounded == TypeOK /\ StartInv /\ Movers => StartInv'
  <1> SUFFICES ASSUME TypeOK, StartInv, Movers PROVE StartInv'
    OBVIOUS
  <1> USE DEF StaleWhileTurning, LockedForFlight, Transforming, FlightJointLockStates
  <1>1. UNCHANGED <<bad, legs, eased>>
    BY MoversFrame DEF vehicle, go2
  <1>2. ASSUME NEW code, Condemned(code) PROVE StartInv'
    BY <1>1, <1>2, EnterKeepsWord DEF Condemned, Enter, StartInv
  <1>3. ~NoWord.stale /\ ~NoSession.stale
    BY DEF NoWord, NoSession
  <1>4. \A t \in Shape : Vouches(t, FALSE) => ~confirmed'.stale
    BY <1>3 DEF Vouches
  <1>5. CASE ExitManual
    BY <1>1, <1>3, <1>5, EnterKeepsWord DEF ExitManual, Enter, StartInv, entered
  <1>6. CASE StartMotion
    <2>1. \A d \in {"FWD", "REV"} :
            ~[Started(d) EXCEPT !.stale = Started(d).mark # "NONE"].stale
      BY DEF Started, NoSession
    <2>2. mode = "MANUAL_POSITIONING"
      BY <1>6 DEF StartMotion, manual_motion_guard, Reading
    <2> QED  BY <1>1, <1>2, <1>3, <1>6, <2>1, <2>2 DEF StartMotion, StartInv, entered
  <1>8. CASE Mark
    BY <1>1, <1>4, <1>8 DEF Mark, StartInv, TypeOK, Session
  <1>9. CASE ConfirmShape
    <2>1. manual.stale = FALSE
      BY DEF StartInv, TypeOK, Session
    <2>2. PICK t \in Shape :
            \/ /\ mode' \in {"WALK", "GO2_JOINT_LOCK_WAIT"}
               /\ manual' = NoSession /\ Vouches(t, FALSE)
            \/ confirmed' = NoWord /\ UNCHANGED <<mode, manual>>
      BY <1>9, <2>1 DEF ConfirmShape
    <2> QED  BY <1>1, <1>3, <1>4, <2>2 DEF StartInv
  <1>10. CASE Turns
    BY <1>1, <1>10 DEF Turns, StartInv
  <1>11. CASE Arrives
    <2>1. \/ /\ mode' \in {"WALK", "GO2_JOINT_LOCK_WAIT"}
             /\ manual' = NoSession /\ confirmed' = NoWord
          \/ Condemned("STICKY")
      BY <1>11 DEF Arrives
    <2> QED  BY <1>1, <1>2, <1>3, <2>1 DEF StartInv
  <1> QED
    BY <1>5, <1>6, <1>8, <1>9, <1>10, <1>11 DEF Movers

(* The stops of a transform condemn; the others leave the word alone.      *)
LEMMA StoppersFounded == TypeOK /\ StartInv /\ Stoppers => StartInv'
  <1> SUFFICES ASSUME TypeOK, StartInv, Stoppers PROVE StartInv'
    OBVIOUS
  <1>1. UNCHANGED <<bad, legs, eased>>
    BY StoppersFrame DEF vehicle, go2
  <1>2. ASSUME Enter("FAULT") PROVE StartInv'
    BY <1>1, <1>2, EnterFounded DEF FlightJointLockStates
  <1>3. ASSUME UNCHANGED <<mode, manual, confirmed>>,
               mode \notin TRANSFORM_STATES \ {"MANUAL_POSITIONING"}
        PROVE  StartInv'
    BY <1>1, <1>3
       DEF StartInv, StaleWhileTurning, LockedForFlight, Transforming,
           TRANSFORM_STATES, TRANSFORM_PRECHECK_STATES, ACTIVE_TRANSFORM_STATES
  <1>4. ASSUME UNCHANGED <<mode, manual, confirmed>>, mode = "FAULT" PROVE StartInv'
    BY <1>1, <1>4 DEF StartInv, StaleWhileTurning, LockedForFlight, Transforming
  <1>5. CASE StopTransform
    BY <1>2, <1>3, <1>4, <1>5 DEF StopTransform, StopFails, Condemned, entered
  <1>6. CASE InterruptTransform
    BY <1>2, <1>6 DEF InterruptTransform, Condemned
  <1>7. CASE StopSupervised
    <2>1. CASE mode \in AutolandStates /\ FinishesAbort(Reading, codes)
      BY <1>1, <1>2, <2>1, AbortEnters, EnterFounded
         DEF AutolandStates, Transforming, FlightJointLockStates
    <2> QED
      BY <1>2, <1>3, <1>4, <1>7, <2>1 DEF StopSupervised, StopFails, Condemned, entered
  <1> QED  BY <1>5, <1>6, <1>7 DEF Stoppers

LEMMA HandersFounded == TypeOK /\ StartInv /\ Handers => StartInv'
  <1> SUFFICES ASSUME TypeOK, StartInv, Handers PROVE StartInv'
    OBVIOUS
  <1> USE DEF Transforming, FlightJointLockStates, StartInv
  <1>1. CASE ConfirmLock
    <2>1. /\ mode = "GO2_JOINT_LOCK_WAIT" /\ UNCHANGED legs
          /\ \/ manual' = NoSession /\ eased' = FALSE /\ UNCHANGED confirmed
             \/ Enter("FAULT") /\ UNCHANGED eased
      BY <1>1 DEF ConfirmLock, Condemned
    <2>2. CASE manual' = NoSession /\ eased' = FALSE /\ UNCHANGED confirmed
      BY <2>1, <2>2 DEF StaleWhileTurning, LockedForFlight, NoSession
    <2> QED  BY <2>1, <2>2, EnterFounded
  <1>2. CASE Release
    <2>1. ASSUME mode = "TOUCHDOWN_VERIFY", NEW s,
                 AsksOrFaultsOn(s, "GO2_GROUND_HANDOVER")
          PROVE  StartInv'
      BY <1>2, <2>1, EnterKeepsWord
         DEF Release, AsksOrFaultsOn, Enter, StaleWhileTurning, LockedForFlight, vehicle
    <2> QED
      BY <1>2, <2>1
         DEF Release, StaleWhileTurning, LockedForFlight, vehicle, mechanism
  <1>3. CASE Acquire \/ Authorize \/ Revoke
    BY <1>3 DEF Acquire, Authorize, Revoke, StaleWhileTurning, LockedForFlight,
                vehicle, mechanism, go2
  <1> QED  BY <1>1, <1>2, <1>3 DEF Handers

LEMMA StepFounded == TypeOK /\ StartInv /\ [Next]_vars => StartInv'
  <1>1. CASE UNCHANGED vars
    BY <1>1 DEF vars, vehicle, mechanism, go2, StartInv, StaleWhileTurning,
       LockedForFlight
  <1> QED  BY <1>1, VehicleFounded, TickFounded, AskersFounded, GuidesFounded,
              MoversFounded, StoppersFounded, HandersFounded, CommandKinds DEF Next

(* No motion and no transform starts on a word that a later motion has     *)
(* outdated, and the F446 folds the legs in only after they have locked    *)
(* again - whatever device fails, whatever is enabled.                     *)
THEOREM StartFounded == Spec => []StartIsFounded
  <1>1. Init => TypeOK /\ StartInv
    BY InitTyped, InitFounded
  <1>2. TypeOK /\ StartInv /\ [Next]_vars => (TypeOK /\ StartInv)'
    BY StepTyped, StepFounded
  <1>3. TypeOK /\ StartInv => StartIsFounded
    BY FoundedStart
  <1> QED  BY <1>1, <1>2, <1>3, PTL DEF Spec

-----------------------------------------------------------------------------
(* A fault is no dead end. *)

(* The reading of a vehicle in FAULT that is well, and guided no more.     *)
Well(s) ==
    /\ s.state = "FAULT" /\ s.bad = {} /\ s.air = "parked" /\ ~s.setpoint
    /\ s.auth \in {"LOCK", "REACQUIRING", "UNKNOWN"}
    /\ s.motor \in {"IDLE", "REACHED_FWD", "REACHED_REV"}
    /\ s.confirmed \in Shape \cup {"NONE"}
    /\ "AUTOLAND_CONTROLLER_TIMEOUT" \notin s.codes

(* The monitor, group by group, raises nothing over it that lasts.         *)
LEMMA WellIsClearable == ASSUME NEW s, Well(s) PROVE Clearable(s)
  <1> USE DEF Well
  <1>2. GroundProof(s) /\ ~OwnershipPending(s)
    BY DEF GroundProof, OwnershipPending, pixhawk_ground_state_is_current, Fresh,
           Armed, Landed
  <1>3. evaluate_freshness(s) = {}
    BY <1>2 DEF evaluate_freshness, Raised, Fresh, F446Connected
  <1>4. AutolandViolations(s) = {} /\ ComplianceViolations(s) = {}
        /\ HandoverViolations(s) = {} /\ TransformViolations(s) = {}
    BY DEF AutolandViolations, AutolandStates, ComplianceViolations,
           HandoverViolations, TransformViolations, TRANSFORM_STATES,
           TRANSFORM_PRECHECK_STATES, ACTIVE_TRANSFORM_STATES
  <1>5. PilotViolations(s) = {}
    BY DEF PilotViolations, Raised
  <1>6. AuthorityViolations(s) = {}
    BY <1>2 DEF AuthorityViolations, Raised, TransitionPending, TransitionAuthorized,
       LowCmdRequiredStates, SafetyStates
  <1>7. JointLockViolations(s) = {}
    BY DEF JointLockViolations, Raised, LockLost, HighLevelExpected, FlightJointLockStates
  <1>8. MechanismViolations(s) = {}
    <2>1. ~Faulted(s) /\ F446State(s) # "UNKNOWN" /\ ~f446_overcurrent(s)
      BY DEF Faulted, F446State, f446_overcurrent
    <2>2. Configuration(s) = "UNKNOWN" \/ Configuration(s) \in Shape
      BY DEF Configuration, FirmwareShape, OperatorShape
    <2>3. ~configuration_conflict(s)
      BY <2>2 DEF configuration_conflict, StateShape, SafetyStates, ACTIVE_TRANSFORM_STATES
    <2> QED  BY <2>1, <2>3 DEF MechanismViolations, Raised
  <1>9. LatchedViolations(s) \subseteq {"INVALID_STATE_TRANSITION"}
    BY DEF LatchedViolations
  <1>10. evaluate(s) \subseteq {"INVALID_STATE_TRANSITION"}
    BY <1>3, <1>4, <1>5, <1>6, <1>7, <1>8, <1>9 DEF evaluate
  <1> QED  BY <1>2, <1>10 DEF Clearable, Blocking, Warnings, Faulted

(* The guard of BOOT_SAFE asks no more.                                    *)
LEMMA WellIsSafe ==
    ASSUME NEW f, Well(f), f.codes = {}
    PROVE  GuardPermits(f, "BOOT_SAFE")
  <1> USE DEF Well
  <1>1. "BOOT_SAFE" \in ALLOWED_TRANSITIONS[f.state]
    BY DEF ALLOWED_TRANSITIONS, SystemState
  <1>2. ~OwnershipPending(f) /\ ~Armed(f) /\ RotorsStopped(f)
    BY DEF OwnershipPending, Armed, RotorsStopped, assess_esc_telemetry
  <1> QED
    BY <1>1, <1>2
       DEF GuardPermits, FoldingGuard, UnfoldingGuard, FlightGuard, TouchdownGuard,
           LegsGuard, SafetyStates, TRANSFORM_STATES, TRANSFORM_PRECHECK_STATES,
           ACTIVE_TRANSFORM_STATES

LEMMA FaultIsClearableAlways == TypeOK => FaultIsClearable
  <1> SUFFICES ASSUME TypeOK, mode = "FAULT", bad = {}, air = "parked",
                      owner # "lowcmd", ~Duty(Reading),
                      "AUTOLAND_CONTROLLER_TIMEOUT" \notin codes
               PROVE  LET silent == [Reading EXCEPT !.setpoint = FALSE]
                      IN  /\ Clearable(silent)
                          /\ GuardPermits(Forgiven(silent), "BOOT_SAFE")
                          /\ Clearable(Reading) <=> guided # "sending"
    BY DEF FaultIsClearable
  <1> DEFINE silent == [Reading EXCEPT !.setpoint = FALSE]
  <1>1. confirmed.shape \in Shape \cup {"NONE"}
    BY DEF TypeOK, Word
  <1>2. Well(silent)
    BY <1>1 DEF Well, Reading, Authority, TypeOK, Duty
  <1>3. Well(Forgiven(silent)) /\ Forgiven(silent).codes = {}
    BY <1>1 DEF Well, Forgiven, Reading, Authority, TypeOK, Duty
  <1>4. ASSUME guided # "sending" PROVE Clearable(Reading)
    <2>1. Well(Reading)
      BY <1>1, <1>4 DEF Well, Reading, Authority, TypeOK, Duty
    <2> QED  BY <2>1, WellIsClearable
  <1>5. ASSUME guided = "sending" PROVE ~Clearable(Reading)
    <2>1. Reading.setpoint /\ Reading.state = "FAULT"
      BY <1>5 DEF Reading
    <2>2. "EXTERNAL_SETPOINT_OUTSIDE_AUTOLAND" \in evaluate(Reading)
      BY <2>1 DEF evaluate, PilotViolations, Raised
    <2> QED  BY <2>2 DEF Clearable, Blocking, Warnings
  <1> HIDE DEF silent
  <1>6. Clearable(silent) /\ GuardPermits(Forgiven(silent), "BOOT_SAFE")
    BY <1>2, <1>3, WellIsClearable, WellIsSafe
  <1> QED  BY <1>4, <1>5, <1>6 DEF silent

(* With the devices well, the vehicle parked and Sport in command, fault   *)
(* clear leads out of FAULT once the set points are stopped, whichever     *)
(* violations are kept - but for the landing controller that was late; and *)
(* of all that, only set points a failed stop left active refuse it.       *)
THEOREM FaultClearable == Spec => []FaultIsClearable
  <1> QED  BY TypeCorrect, FaultIsClearableAlways, PTL

-----------------------------------------------------------------------------
(* Who has the legs, by what is enabled. *)

OwnerInv ==
    /\ owner # "sport" => config = "lowcmd"
    /\ mode = "AUTO_LANDING" => config # "lowcmd"

(* The Pixhawk is guided in a landing, or in the FAULT a landing ended in. *)
GuidedInv ==
    /\ guided # "off" => mode \in {"AUTO_LANDING", "FAULT"}
    /\ mode # "FAULT" => codes \cap StopFailures = {}

LEMMA InitOwner == Init => OwnerInv /\ GuidedInv
  BY DEF Init, OwnerInv, GuidedInv

LEMMA StepOwner == OwnerInv /\ [Next]_vars => OwnerInv'
  <1> SUFFICES ASSUME OwnerInv, [Next]_vars PROVE OwnerInv'
    OBVIOUS
  <1> USE DEF OwnerInv, vehicle, mechanism, go2
  <1>1. CASE UNCHANGED vars
    BY <1>1 DEF vars
  <1>2. CASE Vehicle
    BY <1>2 DEF Vehicle, Breaks, Mends, Flies, Flicks, Phone, Returns, Stalls
  <1>3. CASE Tick
    <2>1. UNCHANGED <<config, owner>>
      BY <1>3 DEF Tick, TickFaults, TickAborts, TickFollowsPilot, TickAsks, TickLands,
         TickComplies, TickWaits, TickRests, RevokeFails
    <2>2. mode' = mode \/ mode' # "AUTO_LANDING"
      BY <1>3, AbortEnters
         DEF Tick, TickFaults, TickAborts, TickFollowsPilot, TickAsks, TickLands,
             TickComplies, TickWaits, TickRests, RevokeFails, Enter
    <2> QED  BY <2>1, <2>2
  <1>4. CASE Askers
    <2>1. UNCHANGED <<config, owner>>
      BY <1>4, AskersFrame
    <2>2. ASSUME NEW s, NEW to, Asks(to) \/ AsksOrFaultsOn(s, to), to # "AUTO_LANDING"
          PROVE  OwnerInv'
      BY <2>1, <2>2 DEF Asks, AsksOrFaultsOn, Enter, Refused, entered
    <2>3. CASE Adopt \/ Disconnect \/ EnterManual \/ LeaveCompliance \/ PrepareAutoland
      BY <2>2, <2>3 DEF Adopt, Disconnect, EnterManual, LeaveCompliance, PrepareAutoland
    <2>4. CASE HomeWalk \/ TransformFlight \/ TransformWalk \/ Precheck
      BY <2>2, <2>4 DEF HomeWalk, TransformFlight, TransformWalk, Precheck, AsksOrFaults
    <2> QED  BY <1>4, <2>3, <2>4 DEF Askers
  <1>5. CASE Guides
    <2>1. UNCHANGED <<config, owner>>
      BY <1>5, GuidesFrame
    <2>2. mode' = "AUTO_LANDING" => mode' = mode \/ config # "lowcmd"
      BY <1>5, AbortEnters
         DEF Guides, ClearFault, StartAutoland, AbortAutoland, Enter, entered
    <2> QED  BY <2>1, <2>2
  <1>6. CASE Movers
    BY <1>6, MoversFrame
       DEF Movers, ExitManual, StartMotion, Mark, ConfirmShape, Turns, Arrives,
           Condemned, Enter, entered
  <1>7. CASE Stoppers
    <2>1. UNCHANGED <<config, owner>>
      BY <1>7, StoppersFrame
    <2>2. mode' = mode \/ mode' # "AUTO_LANDING"
      BY <1>7, AbortEnters
         DEF Stoppers, StopTransform, InterruptTransform, StopSupervised, StopFails,
             Condemned, Enter, entered
    <2> QED  BY <2>1, <2>2
  <1>8. CASE Handers
    BY <1>8 DEF Handers, ConfirmLock, Acquire, Release, Authorize, Revoke, Condemned,
       Enter, AsksOrFaultsOn
  <1> QED
    BY <1>1, <1>2, <1>3, <1>4, <1>5, <1>6, <1>7, <1>8, CommandKinds DEF Next

(* A tick forgets what it did not see for itself.                          *)
LEMMA JudgedForgets == Judged.codes \cap StopFailures = {}
  BY DEF Judged, Ticked, Reading, Updated, LatchedViolations, StopFailures

LEMMA AbortKeepsGuided ==
    ASSUME NEW s, NEW from, NEW seen, seen \cap StopFailures = {},
           AbortsFrom(s, from, seen) \/ SetpointStopFails(from, seen)
             \/ LowCmdRevokeFails(seen)
    PROVE  GuidedInv'
  BY DEF AbortsFrom, FinishesAbort, SetpointStopFails, LowCmdRevokeFails, GuidedInv, Enter

LEMMA StepGuided == GuidedInv /\ [Next]_vars => GuidedInv'
  <1> SUFFICES ASSUME GuidedInv, [Next]_vars PROVE GuidedInv'
    OBVIOUS
  <1> USE DEF GuidedInv
  <1>1. /\ "AUTOLAND_CONTROLLER_TIMEOUT" \notin StopFailures
        /\ "INVALID_STATE_TRANSITION" \notin StopFailures
        /\ "SEEN" \notin StopFailures /\ "STICKY" \notin StopFailures
    BY DEF StopFailures
  <1>2. CASE UNCHANGED vars
    BY <1>2 DEF vars
  <1>3. CASE Vehicle
    BY <1>3 DEF Vehicle, Breaks, Mends, Flies, Flicks, Phone, Returns, Stalls
  <1>4. CASE Tick
    <2>1. Judged.codes \cap StopFailures = {}
      BY JudgedForgets
    <2>2. CASE TickAborts
      <3>1. \A late \in SUBSET {"AUTOLAND_CONTROLLER_TIMEOUT"} :
              (Judged.codes \cup late) \cap StopFailures = {}
        BY <1>1, <2>1
      <3> QED  BY <2>1, <2>2, <3>1, AbortKeepsGuided DEF TickAborts
    <2>3. CASE TickLands
      <3>1. CASE guided' = "off" /\ Enter("TOUCHDOWN_VERIFY") /\ codes' = Judged.codes
        BY <2>1, <3>1
      <3> QED  BY <2>1, <2>3, <3>1, AbortKeepsGuided DEF TickLands
    <2>4. CASE TickFollowsPilot
      BY <2>1, <2>4 DEF TickFollowsPilot, TickAsks, Enter
    <2>5. CASE TickFaults \/ RevokeFails
      BY <2>5 DEF TickFaults, RevokeFails, Enter
    <2>6. CASE TickComplies \/ TickWaits
      BY <2>1, <2>6 DEF TickComplies, TickWaits, Enter
    <2>7. CASE TickRests
      BY <2>1, <2>7 DEF TickRests
    <2> QED  BY <1>4, <2>2, <2>3, <2>4, <2>5, <2>6, <2>7 DEF Tick
  <1>5. CASE Askers
    <2>1. mode \notin {"AUTO_LANDING", "FAULT"}
      BY <1>5 DEF Askers, Adopt, Disconnect, EnterManual, LeaveCompliance, HomeWalk,
         TransformFlight, TransformWalk, Precheck, PrepareAutoland,
         TRANSFORM_PRECHECK_STATES
    <2>2. guided' = "off" /\ codes \cap StopFailures = {}
      BY <1>5, <2>1, AskersFrame
    <2>3. ASSUME NEW s, NEW to, Asks(to) \/ AsksOrFaultsOn(s, to) PROVE GuidedInv'
      BY <1>1, <2>2, <2>3 DEF Asks, AsksOrFaultsOn, Enter, Refused, entered
    <2>4. CASE Adopt \/ Disconnect \/ EnterManual \/ LeaveCompliance \/ PrepareAutoland
      BY <2>3, <2>4 DEF Adopt, Disconnect, EnterManual, LeaveCompliance, PrepareAutoland
    <2>5. CASE HomeWalk \/ TransformFlight \/ TransformWalk \/ Precheck
      BY <2>3, <2>5 DEF HomeWalk, TransformFlight, TransformWalk, Precheck, AsksOrFaults
    <2> QED  BY <1>5, <2>4, <2>5 DEF Askers
  <1>6. CASE Guides
    <2>1. CASE ClearFault
      BY <2>1 DEF ClearFault, Enter, entered
    <2>2. CASE StartAutoland
      <3>1. codes \cap StopFailures = {}
        BY <2>2 DEF StartAutoland
      <3>2. \A late \in SUBSET {"AUTOLAND_CONTROLLER_TIMEOUT"} :
              (codes \cup late) \cap StopFailures = {}
        BY <1>1, <3>1
      <3>3. (codes \cup {"INVALID_STATE_TRANSITION"}) \cap StopFailures = {}
        BY <1>1, <3>1
      <3>4. CASE Enter("AUTO_LANDING") /\ guided' = "sending" /\ UNCHANGED codes
        BY <3>1, <3>4 DEF Enter
      <3>5. CASE Refused /\ guided' = "off"
        BY <3>3, <3>5 DEF Refused
      <3> QED
        BY <2>2, <3>2, <3>3, <3>4, <3>5, AbortKeepsGuided DEF StartAutoland
    <2>3. CASE AbortAutoland
      <3>1. CASE mode = "FAULT"
        BY <2>3, <3>1
           DEF AbortAutoland, AutolandStates, SetpointStopFails, LowCmdRevokeFails,
               Enter, entered
      <3>2. CASE guided' = "off" /\ UNCHANGED <<entered, codes>>
        BY <3>2 DEF entered
      <3> QED  BY <2>3, <3>1, <3>2, AbortKeepsGuided DEF AbortAutoland
    <2> QED  BY <1>6, <2>1, <2>2, <2>3 DEF Guides
  <1>7. CASE Movers
    <2>1. mode \notin {"AUTO_LANDING", "FAULT"}
      BY <1>7 DEF Movers, ExitManual, StartMotion, Mark, ConfirmShape, Turns, Arrives,
         manual_motion_guard, Reading
    <2>2. guided' = "off" /\ codes \cap StopFailures = {}
      BY <1>7, <2>1, MoversFrame
    <2>3. mode' = "FAULT" \/ UNCHANGED codes \/ codes' = codes \cup {"INVALID_STATE_TRANSITION"}
      BY <1>7 DEF Movers, ExitManual, StartMotion, Mark, ConfirmShape, Turns, Arrives,
         Condemned, Enter
    <2> QED  BY <1>1, <2>2, <2>3
  <1>8. CASE Stoppers
    <2>1. ASSUME Condemned("SEEN") \/ StopFails PROVE GuidedInv'
      BY <2>1 DEF StopFails, Condemned, Enter, entered
    <2>2. ASSUME AllStopped, UNCHANGED <<mode, codes>> PROVE GuidedInv'
      BY <2>2 DEF AllStopped
    <2>3. CASE StopTransform
      BY <2>1, <2>2, <2>3 DEF StopTransform, entered
    <2>4. CASE InterruptTransform
      BY <2>1, <2>4 DEF InterruptTransform
    <2>5. CASE StopSupervised
      <3>1. CASE AllStopped /\ mode \in AutolandStates /\ FinishesAbort(Reading, codes)
        BY <3>1 DEF AllStopped, AutolandStates, FinishesAbort, Enter
      <3> QED  BY <2>1, <2>2, <2>5, <3>1 DEF StopSupervised
    <2> QED  BY <1>8, <2>3, <2>4, <2>5 DEF Stoppers
  <1>9. CASE Handers
    <2>1. CASE ConfirmLock
      BY <2>1 DEF ConfirmLock, Condemned, Enter
    <2>2. CASE Release
      <3>1. CASE mode = "TOUCHDOWN_VERIFY"
        BY <1>1, <2>2, <3>1 DEF Release, AsksOrFaultsOn, Enter
      <3> QED  BY <2>2, <3>1 DEF Release
    <2>3. CASE Acquire \/ Authorize \/ Revoke
      BY <2>3 DEF Acquire, Authorize, Revoke
    <2> QED  BY <1>9, <2>1, <2>2, <2>3 DEF Handers
  <1> QED
    BY <1>2, <1>3, <1>4, <1>5, <1>6, <1>7, <1>8, <1>9, CommandKinds DEF Next

-----------------------------------------------------------------------------
(* The pilot keeps the vehicle. *)

(* In the air, with nothing wrong but what the pilot flies by, the monitor *)
(* raises nothing that ends the flight.                                    *)
LEMMA NothingEndsTheFlight ==
    ASSUME TypeOK, OwnerInv, GuidedInv, InFlight, bad \subseteq PilotInputs
    PROVE  Escalating(Ticked, FALSE, TRUE) = {}
  <1> DEFINE s == Ticked
  <1>1. /\ s.state = mode /\ s.bad = bad /\ s.air = "flying" /\ s.codes = codes
        /\ s.setpoint => mode = "AUTO_LANDING"
        /\ s.lowLevel = (config = "lowcmd")
        /\ s.motor = motor /\ s.legs = legs /\ s.confirmed = confirmed.shape
        /\ s.auth = Authority /\ s.vouched = vouched
        /\ s.authorized = Proven
    <2>1. mode # "FAULT"
      BY DEF InFlight, AutolandStates
    <2> QED  BY <2>1 DEF Ticked, Reading, InFlight, GuidedInv
  <1>2. mode \in {"AUTO_LANDING_READY", "AUTO_LANDING", "FLIGHT_MANUAL"}
    BY DEF InFlight, AutolandStates
  <1>3. {"f446", "f446_fault", "f446_unknown", "overcurrent", "go2", "moving", "unsteady",
         "state_code", "owner", "lowstate", "tracking"} \cap bad = {}
    BY DEF PilotInputs
  <1>4. IF config = "lowcmd" THEN Authority = "HOLD"
        ELSE Authority = "LOCK" /\ legs = "lock"
    BY <1>3 DEF InFlight, Authority, OwnerInv
  <1>5. Configuration(s) = "FLIGHT"
    BY <1>1 DEF InFlight, Configuration, FirmwareShape, OperatorShape, F446State,
       Faulted, F446Connected, Fresh, Ticked, Reading
  <1> HIDE DEF s
  <1> USE <1>1, <1>2, <1>3, <1>4
  <1>6. evaluate_freshness(s) \subseteq {"PIXHAWK_TIMEOUT", "RC_TIMEOUT"}
    BY DEF evaluate_freshness, Raised, Fresh, F446Connected
  <1>7. AutolandViolations(s) \subseteq TakeoverCodes \cup {"MANUAL_OVERRIDE_REQUESTED"}
    BY DEF AutolandViolations, Raised, TakeoverCodes
  <1>8. PilotViolations(s) \subseteq {"RC_FAILSAFE"}
    BY DEF PilotViolations, Raised
  <1>9. AuthorityViolations(s) = {}
    BY DEF AuthorityViolations, Raised, TransitionPending, OwnershipPending, OwnerInv,
       LowCmdOwnershipAllowedStates, ExpectedAuthority, Fresh
  <1>10. JointLockViolations(s) = {}
    BY DEF JointLockViolations, Raised, LockLost, HighLevelExpected, OwnershipPending,
       JointLockConfirmed, joints_locked, Go2Stationary, LockTransitionUnsafe, Fresh
  <1>11. /\ ComplianceViolations(s) = {} /\ HandoverViolations(s) = {}
         /\ TransformViolations(s) = {}
    BY DEF ComplianceViolations, HandoverViolations, TransformViolations,
       TRANSFORM_STATES, TRANSFORM_PRECHECK_STATES, ACTIVE_TRANSFORM_STATES
  <1>12. MechanismViolations(s) = {}
    <2>1. ~Faulted(s) /\ ~f446_overcurrent(s) /\ F446State(s) = motor
      BY DEF Faulted, f446_overcurrent, F446State
    <2>2. motor # "UNKNOWN"
      BY DEF TypeOK, Motor
    <2>3. ~configuration_conflict(s)
      BY <1>5 DEF configuration_conflict, StateShape, ACTIVE_TRANSFORM_STATES
    <2> QED  BY <2>1, <2>2, <2>3 DEF MechanismViolations, Raised
  <1>13. LatchedViolations(s) \subseteq {"AUTOLAND_CONTROLLER_TIMEOUT", "INVALID_STATE_TRANSITION"}
    BY DEF LatchedViolations
  <1>14. Blocking(evaluate(s)) \subseteq non_escalating_codes
    BY <1>6, <1>7, <1>8, <1>9, <1>10, <1>11, <1>12, <1>13
       DEF evaluate, Blocking, Warnings, non_escalating_codes, TakeoverCodes
  <1> QED
    BY <1>14 DEF Escalating, s, TRANSFORM_STATES, TRANSFORM_PRECHECK_STATES,
       ACTIVE_TRANSFORM_STATES

(* The way back to the pilot is open whatever the landing reads.           *)
LEMMA BackToThePilot ==
    ASSUME NEW s, s.state \in AutolandStates, s.stick = "override"
    PROVE  GuardPermits(s, "FLIGHT_MANUAL")
  BY DEF GuardPermits, AutolandStates, ALLOWED_TRANSITIONS, SystemState,
     LowCmdOwnershipAllowedStates, TRANSFORM_STATES, TRANSFORM_PRECHECK_STATES,
     ACTIVE_TRANSFORM_STATES, FoldingGuard, UnfoldingGuard, FlightGuard,
     TouchdownGuard, LegsGuard

(* An abort that ends in FAULT says which stop has failed.                 *)
LEMMA AbortExcused ==
    ASSUME codes \cap StopFailures = {}, mode' = "FAULT", mode \in AutolandStates,
           NEW s, s.state \in AutolandStates, NEW from, NEW seen,
           AbortsFrom(s, from, seen)
    PROVE  (codes' \ codes) \cap Excuses # {}
  <1>1. /\ [s EXCEPT !.stick = "override"].state = s.state
        /\ [s EXCEPT !.stick = "override"].stick = "override"
    OBVIOUS
  <1>2. ~FinishesAbort(s, seen)
    BY <1>1, BackToThePilot DEF FinishesAbort, Enter
  <1>3. CASE SetpointStopFails(from, seen)
    BY <1>3 DEF SetpointStopFails, Excuses, StopFailures
  <1>4. CASE LowCmdRevokeFails(seen)
    BY <1>4 DEF LowCmdRevokeFails, Excuses, StopFailures
  <1> QED  BY <1>2, <1>3, <1>4 DEF AbortsFrom

LEMMA StepKeepsPilot == TypeOK /\ OwnerInv /\ GuidedInv /\ [Next]_vars => KeepsPilot
  <1> SUFFICES ASSUME TypeOK, OwnerInv, GuidedInv, [Next]_vars, InFlight,
                      bad \subseteq PilotInputs, mode' = "FAULT"
               PROVE  (codes' \ codes) \cap Excuses # {}
    BY DEF KeepsPilot
  <1>1. mode \in {"AUTO_LANDING_READY", "AUTO_LANDING", "FLIGHT_MANUAL"} /\ air = "flying"
        /\ ~Duty(Reading)
    BY DEF InFlight, AutolandStates
  <1>2. codes \cap StopFailures = {}
    BY <1>1 DEF GuidedInv
  <1>3. Reading.state = mode /\ Judged.state = mode
    BY DEF Reading, Judged, Ticked
  <1>4. ~(UNCHANGED vars) /\ ~Vehicle
    BY <1>1 DEF vars, Vehicle, Breaks, Mends, Flies, Flicks, Phone, Returns, Stalls
  <1>5. CASE Tick
    <2>1. ~TickFaults
      BY NothingEndsTheFlight DEF TickFaults
    <2>2. CASE TickAborts
      BY <1>2, <1>3, <2>2, AbortExcused DEF TickAborts
    <2>3. ~TickFollowsPilot /\ ~TickComplies /\ ~TickWaits /\ ~TickRests /\ ~RevokeFails
      BY <1>1 DEF TickFollowsPilot, TickComplies, TickWaits, TickRests, RevokeFails,
         Armed, Ticked, Reading
    <2>4. CASE TickLands
      <3>1. ~Enter("TOUCHDOWN_VERIFY")
        BY DEF Enter
      <3>2. CASE SetpointStopFails(guided, Judged.codes)
        <4>1. mode = "AUTO_LANDING"
          BY <1>1, <3>2 DEF SetpointStopFails, GuidedInv
        <4> QED
          BY <1>2, <3>2, <4>1 DEF SetpointStopFails, Excuses, StopFailures, AutolandStates
      <3>3. CASE LowCmdRevokeFails(Judged.codes)
        BY <1>2, <3>3 DEF LowCmdRevokeFails, Excuses, StopFailures
      <3> QED  BY <2>4, <3>1, <3>2, <3>3 DEF TickLands
    <2> QED  BY <1>5, <2>1, <2>2, <2>3, <2>4 DEF Tick
  <1>6. ~Askers
    BY <1>1 DEF Askers, Adopt, Disconnect, EnterManual, LeaveCompliance, HomeWalk,
       TransformFlight, TransformWalk, Precheck, PrepareAutoland, Asks, Enter, Refused,
       entered, TRANSFORM_PRECHECK_STATES
  <1>7. CASE Guides
    <2>1. ~ClearFault
      BY <1>1 DEF ClearFault, entered
    <2>2. CASE StartAutoland
      <3>1. ~Enter("AUTO_LANDING") /\ ~Refused
        BY <1>1 DEF Enter, Refused, entered
      <3>2. mode \in AutolandStates
        BY <2>2 DEF StartAutoland, AutolandStates
      <3>3. ASSUME NEW seen, AbortsFrom([Reading EXCEPT !.state = "AUTO_LANDING"],
                                        "engaged", seen)
            PROVE  (codes' \ codes) \cap Excuses # {}
        <4>1. [Reading EXCEPT !.state = "AUTO_LANDING"].state \in AutolandStates
          BY DEF Reading, AutolandStates
        <4> QED  BY <1>2, <3>2, <3>3, <4>1, AbortExcused
      <3>4. CASE SetpointStopFails("engaged", codes \cup {"INVALID_STATE_TRANSITION"})
        BY <1>2, <3>2, <3>4 DEF SetpointStopFails, Excuses, StopFailures
      <3> QED  BY <2>2, <3>1, <3>3, <3>4 DEF StartAutoland
    <2>3. CASE AbortAutoland
      <3>1. CASE mode \in AutolandStates
        BY <1>2, <1>3, <2>3, <3>1, AbortExcused DEF AbortAutoland
      <3>2. CASE mode \notin AutolandStates
        <4>1. guided = "off" /\ ~UNCHANGED entered
          BY <1>1, <3>2 DEF GuidedInv, AutolandStates, entered
        <4>2. LowCmdRevokeFails(codes)
          BY <2>3, <3>2, <4>1 DEF AbortAutoland, SetpointStopFails
        <4> QED  BY <1>2, <4>2 DEF LowCmdRevokeFails, Excuses, StopFailures
      <3> QED  BY <3>1, <3>2
    <2> QED  BY <1>7, <2>1, <2>2, <2>3 DEF Guides
  <1>8. ~Movers
    BY <1>1 DEF Movers, ExitManual, StartMotion, Mark, ConfirmShape, Turns, Arrives,
       manual_motion_guard, Reading
  <1>9. CASE Stoppers
    <2>1. mode \notin TRANSFORM_STATES /\ mode # "FAULT"
      BY <1>1 DEF TRANSFORM_STATES, TRANSFORM_PRECHECK_STATES, ACTIVE_TRANSFORM_STATES
    <2>2. ASSUME StopFails PROVE (codes' \ codes) \cap Excuses # {}
      BY <1>2, <2>1, <2>2 DEF StopFails, Condemned, Excuses, StopFailures
    <2>3. CASE StopTransform
      BY <2>1, <2>2, <2>3 DEF StopTransform, entered
    <2>4. ~InterruptTransform
      BY <2>1 DEF InterruptTransform
    <2>5. CASE StopSupervised
      <3>1. ~(mode \in AutolandStates /\ FinishesAbort(Reading, codes))
        <4>1. /\ [Reading EXCEPT !.stick = "override"].state = mode
              /\ [Reading EXCEPT !.stick = "override"].stick = "override"
          BY DEF Reading
        <4> QED  BY <4>1, BackToThePilot DEF FinishesAbort, Enter
      <3> QED  BY <2>1, <2>2, <2>5, <3>1 DEF StopSupervised
    <2> QED  BY <1>9, <2>3, <2>4, <2>5 DEF Stoppers
  <1>10. ~Handers
    BY <1>1 DEF Handers, ConfirmLock, Acquire, Release, Authorize, Revoke, mechanism
  <1> QED  BY <1>4, <1>5, <1>6, <1>7, <1>8, <1>9, <1>10, CommandKinds DEF Next

(* In the air, a lost RC, Pixhawk stream or estimate, a tick or a command  *)
(* turns a flight into FAULT only where a stop or a revoke has failed that *)
(* the landing, the owner of the legs or the operator called for;          *)
(* otherwise it goes on as FLIGHT_MANUAL.                                  *)
THEOREM PilotStaysInControl == Spec => PilotKeepsControl
  <1>1. Init => TypeOK /\ OwnerInv /\ GuidedInv
    BY InitTyped, InitOwner
  <1>2. TypeOK /\ OwnerInv /\ GuidedInv /\ [Next]_vars => (TypeOK /\ OwnerInv /\ GuidedInv)'
    BY StepTyped, StepOwner, StepGuided
  <1>3. TypeOK /\ OwnerInv /\ GuidedInv /\ [Next]_vars => [KeepsPilot]_vars
    BY StepKeepsPilot
  <1> QED  BY <1>1, <1>2, <1>3, PTL DEF Spec, PilotKeepsControl

-----------------------------------------------------------------------------
(* Two readings that are alike, to the rules: only the state, the stick,   *)
(* the request, the authorization, the set point and the known violations  *)
(* may differ, how the shape is known, and the operator's word on the lock *)
(* where nothing of the flight rests on it.                                *)

Alike(s, r) ==
    /\ r.bad = s.bad /\ r.air = s.air /\ r.auth = s.auth /\ r.lowLevel = s.lowLevel
    /\ r.legs = s.legs /\ r.motor = s.motor
    /\ Configuration(r) = Configuration(s)
    /\ r.state \in FlightJointLockStates => r.vouched = s.vouched

(* Settled, of the next reading as a value.                                *)
LEMMA PrimeMoves == ASSUME NEW r, Settled(r), Reading' = r PROVE Settled(Reading)'
  BY DEF Settled

LEMMA AlikeAgree ==
    ASSUME NEW s, NEW r, Alike(s, r)
    PROVE  /\ \A d : Fresh(r, d) <=> Fresh(s, d)
           /\ Armed(r) <=> Armed(s)
           /\ Landed(r) <=> Landed(s)
           /\ assess_esc_telemetry(r) <=> assess_esc_telemetry(s)
           /\ GroundProof(r) <=> GroundProof(s)
           /\ F446Connected(r) <=> F446Connected(s)
           /\ F446State(r) = F446State(s)
           /\ Faulted(r) <=> Faulted(s)
           /\ Duty(r) <=> Duty(s)
           /\ f446_overcurrent(r) <=> f446_overcurrent(s)
           /\ OwnershipPending(r) <=> OwnershipPending(s)
           /\ TransitionPending(r) <=> TransitionPending(s)
           /\ Go2Stationary(r) <=> Go2Stationary(s)
           /\ joints_locked(r) <=> joints_locked(s)
           /\ r.state \in FlightJointLockStates
                => (JointLockConfirmed(r) <=> JointLockConfirmed(s))
  BY DEF Alike, Fresh, Armed, Landed, assess_esc_telemetry, GroundProof, F446Connected,
         F446State, Faulted, Duty, f446_overcurrent, FirmwareShape, OwnershipPending,
         TransitionPending, Go2Stationary, LockTransitionUnsafe, joints_locked,
         JointLockConfirmed, pixhawk_ground_state_is_current

(* What a settled reading says, state by state.                            *)
LEMMA SettledSays ==
    ASSUME NEW s, Settled(s), s.state \notin {"BOOT_SAFE", "FAULT"}
    PROVE  /\ F446Connected(s)
           /\ OwnershipPending(s) => Fresh(s, "lowstate")
           /\ MechanismViolations(s) = {}
           /\ AuthorityViolations(s) = {}
           /\ JointLockViolations(s) = {}
           /\ s.state # "GO2_GROUND_HANDOVER" => "GO2_TIMEOUT" \notin evaluate_freshness(s)
           /\ s.state \in TRANSFORM_STATES
                => TransformViolations(s) \subseteq {"GO2_UNSAFE_DURING_JOINT_LOCK"}
  <1> DEFINE excused ==
        IF s.state \in TRANSFORM_STATES THEN {"GO2_UNSAFE_DURING_JOINT_LOCK"}
        ELSE IF s.state = "GO2_GROUND_HANDOVER"
        THEN {"RC_TIMEOUT", "RC_FAILSAFE", "GO2_TIMEOUT",
              "GO2_UNSAFE_DURING_GROUND_HANDOVER", "GO2_UNSAFE_DURING_JOINT_LOCK"}
        ELSE non_escalating_codes \cup {"GO2_UNSAFE_DURING_JOINT_LOCK"}
  <1>1. evaluate(s) \subseteq excused \cup Warnings
    <2>1. "GO2_GROUND_HANDOVER" \notin TRANSFORM_STATES
      BY DEF TRANSFORM_STATES, TRANSFORM_PRECHECK_STATES, ACTIVE_TRANSFORM_STATES
    <2>2. CASE s.state \in TRANSFORM_STATES
      BY <2>1, <2>2 DEF Settled, Escalating, Blocking
    <2>3. CASE s.state = "GO2_GROUND_HANDOVER"
      BY <2>1, <2>3 DEF Settled, Escalating, Blocking, expected_handover_wait_codes
    <2>4. CASE s.state \notin TRANSFORM_STATES \cup {"GO2_GROUND_HANDOVER"}
      BY <2>4 DEF Settled, Escalating, Blocking
    <2> QED  BY <2>2, <2>3, <2>4
  <1>2. excused \cup Warnings \subseteq
          {"GO2_UNSAFE_DURING_JOINT_LOCK", "RC_TIMEOUT", "RC_FAILSAFE", "GO2_TIMEOUT",
           "GO2_UNSAFE_DURING_GROUND_HANDOVER", "INVALID_STATE_TRANSITION"}
          \cup non_escalating_codes
    BY DEF Warnings, non_escalating_codes
  <1>3. evaluate(s) \cap
          {"F446_TIMEOUT", "GO2_LOWSTATE_TIMEOUT", "F446_FAULT", "F446_OVERCURRENT", "F446_STATE_UNKNOWN",
           "F446_CONFIGURATION_CONFLICT", "GO2_LOWCMD_OUTSIDE_AUTHORIZED_STATE",
           "GO2_CONTROL_AUTHORITY_TRANSITION_TIMEOUT", "GO2_LOWCMD_OWNER_UNHEALTHY",
           "GO2_LOWCMD_OWNER_MISSING", "GO2_LOWCMD_MPC_INACTIVE", "GO2_JOINT_TRACKING_ERROR",
           "GO2_JOINT_LOCK_LOST", "GO2_OPERATOR_LOCK_UNSAFE", "GO2_CONTROL_AUTHORITY_UNKNOWN"} = {}
    BY <1>1, <1>2 DEF non_escalating_codes, TakeoverCodes
  <1>4. evaluate_freshness(s) \cup MechanismViolations(s) \cup AuthorityViolations(s)
          \cup JointLockViolations(s) \cup TransformViolations(s) \subseteq evaluate(s)
    BY DEF evaluate
  <1>5. F446Connected(s) /\ (OwnershipPending(s) => Fresh(s, "lowstate"))
    BY <1>3, <1>4 DEF evaluate_freshness, Raised
  <1>6. MechanismViolations(s) = {}
    BY <1>3, <1>4 DEF MechanismViolations, Raised
  <1>7. AuthorityViolations(s) = {}
    BY <1>3, <1>4 DEF AuthorityViolations, Raised
  <1>8. JointLockViolations(s) = {}
    BY <1>3, <1>4 DEF JointLockViolations, Raised
  <1>9. s.state # "GO2_GROUND_HANDOVER" => "GO2_TIMEOUT" \notin evaluate_freshness(s)
    BY <1>1, <1>4 DEF Warnings, non_escalating_codes, TakeoverCodes
  <1>10. s.state \in TRANSFORM_STATES
           => TransformViolations(s) \subseteq {"GO2_UNSAFE_DURING_JOINT_LOCK"}
    <2>1. TransformViolations(s) \cap Warnings = {}
      BY DEF TransformViolations, Raised, Warnings
    <2> QED  BY <2>1, <1>1, <1>4
  <1> QED  BY <1>5, <1>6, <1>7, <1>8, <1>9, <1>10

(* And what makes it settled.                                              *)
LEMMA SettledIf ==
    ASSUME NEW r, r.state # "GO2_GROUND_HANDOVER",
           F446Connected(r), OwnershipPending(r) => Fresh(r, "lowstate"),
           OwnershipPending(r) \/ Fresh(r, "go2"),
           MechanismViolations(r) = {}, AuthorityViolations(r) = {},
           JointLockViolations(r) = {}, ComplianceViolations(r) = {},
           r.setpoint => r.state = "AUTO_LANDING",
           r.state = "FLIGHT_READY" => ~Armed(r),
           r.state \in TRANSFORM_STATES =>
             /\ {"heartbeat", "rc", "rc_failsafe"} \cap r.bad = {} /\ r.codes = {}
             /\ TransformViolations(r) \subseteq {"GO2_UNSAFE_DURING_JOINT_LOCK"}
    PROVE  Settled(r)
  <1>1. HandoverViolations(r) = {}
    BY DEF HandoverViolations
  <1>2. evaluate_freshness(r) \subseteq
          IF "heartbeat" \in r.bad \/ "rc" \in r.bad THEN {"PIXHAWK_TIMEOUT", "RC_TIMEOUT"} ELSE {}
    BY DEF evaluate_freshness, Raised, Fresh
  <1>3. PilotViolations(r) \subseteq IF "rc_failsafe" \in r.bad THEN {"RC_FAILSAFE"} ELSE {}
    BY DEF PilotViolations, Raised
  <1>4. AutolandViolations(r) \subseteq TakeoverCodes \cup Warnings
    BY DEF AutolandViolations, Raised, TakeoverCodes, Warnings
  <1>5. CASE r.state \in TRANSFORM_STATES
    <2>1. AutolandViolations(r) = {} /\ LatchedViolations(r) = {}
      BY <1>5 DEF AutolandViolations, AutolandStates, LatchedViolations, TRANSFORM_STATES,
         TRANSFORM_PRECHECK_STATES, ACTIVE_TRANSFORM_STATES
    <2>2. evaluate(r) \subseteq {"GO2_UNSAFE_DURING_JOINT_LOCK"}
      BY <1>1, <1>2, <1>3, <1>5, <2>1 DEF evaluate
    <2>3. r.state \notin {"BOOT_SAFE", "FAULT", "GO2_GROUND_HANDOVER"}
      BY <1>5 DEF TRANSFORM_STATES, TRANSFORM_PRECHECK_STATES, ACTIVE_TRANSFORM_STATES
    <2> QED  BY <1>5, <2>2, <2>3 DEF Settled, Escalating, Blocking
  <1>6. CASE r.state \notin TRANSFORM_STATES
    <2>1. TransformViolations(r) = {}
      BY <1>6 DEF TransformViolations
    <2>2. LatchedViolations(r) \subseteq {"AUTOLAND_CONTROLLER_TIMEOUT"} \cup Warnings
      BY DEF LatchedViolations, Warnings
    <2>3. evaluate(r) \subseteq non_escalating_codes \cup Warnings
      BY <1>1, <1>2, <1>3, <1>4, <2>1, <2>2
         DEF evaluate, non_escalating_codes, TakeoverCodes
    <2> QED  BY <1>6, <2>3 DEF Settled, Escalating, Blocking
  <1> QED  BY <1>5, <1>6

LEMMA MechanismQuiet ==
    ASSUME NEW r
    PROVE  MechanismViolations(r) = {} <=>
             /\ ~Faulted(r) /\ ~f446_overcurrent(r) /\ ~configuration_conflict(r)
             /\ F446Connected(r) => F446State(r) # "UNKNOWN"
  BY DEF MechanismViolations, Raised

(* Where nobody but Sport commands the legs, or may.                       *)
LEMMA AuthorityQuiet ==
    ASSUME NEW r, r.auth \in {"LOCK", "UNKNOWN"},
           r.lowLevel => r.state \notin LowCmdRequiredStates
    PROVE  AuthorityViolations(r) = {}
  BY DEF AuthorityViolations, Raised, OwnershipPending, TransitionPending,
         LowCmdRequiredStates

LEMMA JointLockQuiet ==
    ASSUME NEW r, r.state \notin FlightJointLockStates
    PROVE  JointLockViolations(r) = {}
  BY DEF JointLockViolations, Raised, LockLost, HighLevelExpected

LEMMA ShapeQuiet ==
    ASSUME NEW r, Configuration(r) \in Shape
    PROVE  ~Faulted(r) /\ F446State(r) # "UNKNOWN"
  BY DEF Configuration, FirmwareShape, OperatorShape, Shape, expected_state_for

(* The states whose guard is that of the transforms, or of their end.      *)
Guarded == {"MANUAL_POSITIONING", "WALK_TO_FLIGHT_PRECHECK", "TRANSFORM_TO_FLIGHT",
            "GO2_JOINT_LOCK_WAIT"}

(* Their guard asks for all the monitor asks for while the mechanism moves. *)
LEMMA TransformSettled ==
    ASSUME NEW s, NEW r, Alike(s, r), RequireTransformSafe(s), r.codes = {},
           ~r.setpoint, s.auth \in {"LOCK", "UNKNOWN"}, r.state \in Guarded,
           r.state = "WALK_TO_FLIGHT_PRECHECK" => Configuration(s) = "WALK",
           r.state = "GO2_JOINT_LOCK_WAIT" => Configuration(s) = "FLIGHT"
    PROVE  Settled(r)
  <1>1. /\ {"heartbeat", "f446", "go2", "rc", "rc_failsafe"} \cap r.bad = {}
        /\ ~Armed(r) /\ ~Failsafe(r) /\ FlightEnableValid(r) /\ ~FlightEnableHigh(r)
        /\ ~Faulted(r) /\ F446State(r) # "UNKNOWN" /\ ~Duty(r) /\ "overcurrent" \notin r.bad
        /\ Go2Stationary(r) /\ assess_esc_telemetry(r)
    BY AlikeAgree DEF RequireTransformSafe, require_fresh_devices, Devices, Alike,
       Failsafe, FlightEnableValid, FlightEnableHigh, Fresh, CurrentClear, RotorsStopped
  <1>2. r.auth \in {"LOCK", "UNKNOWN"} /\ ~OwnershipPending(r)
    BY DEF Alike, OwnershipPending
  <1>3. MechanismViolations(r) = {}
    <2>1. ~configuration_conflict(r)
      BY <1>1 DEF configuration_conflict, active_transform_configuration_conflict,
         ACTIVE_TRANSFORM_STATES, StateShape, Guarded, Alike
    <2> QED  BY <1>1, <2>1, MechanismQuiet DEF f446_overcurrent
  <1>4. AuthorityViolations(r) = {} /\ JointLockViolations(r) = {}
    BY <1>2, AuthorityQuiet, JointLockQuiet
       DEF Guarded, LowCmdRequiredStates, FlightJointLockStates
  <1>5. ComplianceViolations(r) = {}
    BY DEF ComplianceViolations, Guarded
  <1>6. TransformViolations(r) \subseteq {"GO2_UNSAFE_DURING_JOINT_LOCK"}
    BY <1>1 DEF TransformViolations, Raised, Guarded
  <1> QED
    BY <1>1, <1>2, <1>3, <1>4, <1>5, <1>6, SettledIf DEF Guarded, F446Connected, Fresh

LEMMA WalkSettled ==
    ASSUME NEW s, NEW r, Alike(s, r), ~r.setpoint, s.auth \in {"LOCK", "UNKNOWN"},
           r.state = "WALK", Configuration(s) = "WALK", ~f446_overcurrent(s),
           {"f446", "go2"} \cap s.bad = {}
    PROVE  Settled(r)
  <1>1. r.auth \in {"LOCK", "UNKNOWN"} /\ ~OwnershipPending(r)
        /\ {"f446", "go2"} \cap r.bad = {} /\ Configuration(r) = "WALK"
    BY DEF Alike, OwnershipPending
  <1>2. MechanismViolations(r) = {}
    <2>1. ~configuration_conflict(r)
      BY <1>1 DEF configuration_conflict, ACTIVE_TRANSFORM_STATES, StateShape
    <2>2. ~Faulted(r) /\ F446State(r) # "UNKNOWN"
      BY <1>1, ShapeQuiet DEF Shape
    <2> QED  BY <2>1, <2>2, MechanismQuiet, AlikeAgree
  <1>3. AuthorityViolations(r) = {} /\ JointLockViolations(r) = {}
    BY <1>1, AuthorityQuiet, JointLockQuiet DEF LowCmdRequiredStates, FlightJointLockStates
  <1>4. ComplianceViolations(r) = {} /\ r.state \notin TRANSFORM_STATES
    BY DEF ComplianceViolations, TRANSFORM_STATES, TRANSFORM_PRECHECK_STATES,
       ACTIVE_TRANSFORM_STATES
  <1> QED  BY <1>1, <1>2, <1>3, <1>4, SettledIf DEF F446Connected, Fresh

LEMMA ReadySettled ==
    ASSUME NEW s, NEW r, Alike(s, r), ~r.setpoint, s.auth \in {"LOCK", "UNKNOWN"},
           r.state = "FLIGHT_READY", AtEndpoint(s, "FLIGHT"), ~Armed(s),
           RequireJointLock(s), joints_locked(s) \/ Go2Stationary(s),
           ~f446_overcurrent(s), Fresh(s, "f446")
    PROVE  Settled(r)
  <1>1. /\ r.auth \in {"LOCK", "UNKNOWN"} /\ ~OwnershipPending(r)
        /\ "f446" \notin r.bad /\ Configuration(r) = "FLIGHT" /\ ~Armed(r)
        /\ r.lowLevel => r.auth = "LOCK"
        /\ JointLockConfirmed(r) /\ (joints_locked(r) \/ Go2Stationary(r))
        /\ Fresh(r, "go2")
    BY AlikeAgree DEF Alike, OwnershipPending, RequireJointLock, AtEndpoint, Fresh,
       JointLockConfirmed, joints_locked, FlightJointLockStates
  <1>2. MechanismViolations(r) = {}
    <2>1. ~configuration_conflict(r)
      BY <1>1 DEF configuration_conflict, ACTIVE_TRANSFORM_STATES, StateShape
    <2>2. ~Faulted(r) /\ F446State(r) # "UNKNOWN"
      BY <1>1, ShapeQuiet DEF Shape
    <2> QED  BY <2>1, <2>2, MechanismQuiet, AlikeAgree
  <1>3. AuthorityViolations(r) = {}
    BY <1>1, AuthorityQuiet DEF LowCmdRequiredStates
  <1>4. JointLockViolations(r) = {}
    BY <1>1 DEF JointLockViolations, Raised, LockLost
  <1>5. ComplianceViolations(r) = {} /\ r.state \notin TRANSFORM_STATES
    BY DEF ComplianceViolations, TRANSFORM_STATES, TRANSFORM_PRECHECK_STATES,
       ACTIVE_TRANSFORM_STATES
  <1> QED  BY <1>1, <1>2, <1>3, <1>4, <1>5, SettledIf DEF F446Connected, Fresh

(* The mechanism folds only from a state in which the legs are locked.     *)
LEMMA FoldSettled ==
    ASSUME NEW p, NEW r, Alike(p, r), Settled(p), RequireTransformSafe(p), p.codes = {},
           r.codes = {}, ~r.setpoint, p.auth \in {"LOCK", "UNKNOWN"},
           \/ /\ p.state \in {"FLIGHT_READY", "TOUCHDOWN_VERIFY"}
              /\ r.state = "FLIGHT_TO_WALK_PRECHECK" /\ GroundProof(p)
           \/ p.state = "FLIGHT_TO_WALK_PRECHECK" /\ r.state = "TRANSFORM_TO_WALK"
    PROVE  Settled(r)
  <1>1. /\ {"heartbeat", "f446", "go2", "rc", "rc_failsafe"} \cap r.bad = {}
        /\ ~Armed(r) /\ ~Failsafe(r) /\ FlightEnableValid(r) /\ ~FlightEnableHigh(r)
        /\ ~Faulted(r) /\ F446State(r) # "UNKNOWN" /\ ~Duty(r) /\ "overcurrent" \notin r.bad
        /\ Go2Stationary(r) /\ assess_esc_telemetry(r)
    BY AlikeAgree DEF RequireTransformSafe, require_fresh_devices, Devices, Alike,
       Failsafe, FlightEnableValid, FlightEnableHigh, Fresh, CurrentClear, RotorsStopped
  <1>2. r.auth \in {"LOCK", "UNKNOWN"} /\ ~OwnershipPending(r)
    BY DEF Alike, OwnershipPending
  <1>3. MechanismViolations(p) = {} /\ JointLockViolations(p) = {}
        /\ (p.state \in TRANSFORM_STATES
              => TransformViolations(p) \subseteq {"GO2_UNSAFE_DURING_JOINT_LOCK"})
    BY SettledSays
  <1>4. MechanismViolations(r) = {}
    <2>1. CASE r.state = "TRANSFORM_TO_WALK"
      <3>1. ~configuration_conflict(r)
        BY <1>1, <2>1 DEF configuration_conflict, ACTIVE_TRANSFORM_STATES,
           active_transform_configuration_conflict
      <3> QED  BY <1>1, <3>1, MechanismQuiet DEF f446_overcurrent
    <2>2. CASE r.state = "FLIGHT_TO_WALK_PRECHECK"
      <3>1. F446Connected(p) /\ F446Connected(r)
        BY <1>1, AlikeAgree DEF F446Connected, Fresh
      <3>2. ~configuration_conflict(p) /\ p.state \in {"FLIGHT_READY", "TOUCHDOWN_VERIFY"}
        BY <1>3, <2>2, MechanismQuiet
      <3>3. Configuration(p) \in {"FLIGHT"}
        BY <3>1, <3>2 DEF configuration_conflict, ACTIVE_TRANSFORM_STATES, StateShape,
           SafetyStates
      <3>4. ~configuration_conflict(r)
        BY <2>2, <3>3 DEF configuration_conflict, ACTIVE_TRANSFORM_STATES, StateShape, Alike
      <3> QED  BY <1>1, <3>4, MechanismQuiet DEF f446_overcurrent
    <2> QED  BY <2>1, <2>2
  <1>5. AuthorityViolations(r) = {}
    BY <1>2, AuthorityQuiet DEF LowCmdRequiredStates
  <1>6. JointLockViolations(r) = {}
    BY <1>3, AlikeAgree DEF JointLockViolations, Raised, LockLost, HighLevelExpected,
       FlightJointLockStates, Alike
  <1>7. ComplianceViolations(r) = {}
    BY DEF ComplianceViolations
  <1>8. pixhawk_ground_state_is_current(r) /\ Landed(r)
    <2>1. CASE r.state = "TRANSFORM_TO_WALK"
      <3>1. "PIXHAWK_GROUND_STATE_INVALID_DURING_WALK_TRANSFORM" \notin TransformViolations(p)
            /\ p.state = "FLIGHT_TO_WALK_PRECHECK"
        BY <1>3, <2>1 DEF TRANSFORM_STATES, TRANSFORM_PRECHECK_STATES
      <3>2. pixhawk_ground_state_is_current(p) /\ Landed(p)
        BY <3>1 DEF TransformViolations, Raised, TRANSFORM_STATES, TRANSFORM_PRECHECK_STATES
      <3> QED  BY <3>2, AlikeAgree DEF pixhawk_ground_state_is_current
    <2>2. CASE r.state = "FLIGHT_TO_WALK_PRECHECK"
      BY <2>2, AlikeAgree DEF GroundProof
    <2> QED  BY <2>1, <2>2
  <1>9. TransformViolations(r) = {}
    BY <1>1, <1>8 DEF TransformViolations, Raised
  <1> QED
    BY <1>1, <1>2, <1>4, <1>5, <1>6, <1>7, <1>9, SettledIf DEF F446Connected, Fresh

(* In flight, and up to the touchdown, a settled state leads to another.   *)
LEMMA FlightSettled ==
    ASSUME NEW p, NEW r, Alike(p, r), Settled(p),
           p.state \in {"FLIGHT_READY"} \cup LowCmdRequiredStates,
           r.state \in LowCmdRequiredStates,
           p.auth \in {"LOCK", "HOLD", "UNKNOWN"},
           r.setpoint => r.state = "AUTO_LANDING",
           r.lowLevel => r.auth = "HOLD" /\ r.state # "AUTO_LANDING"
    PROVE  Settled(r)
  <1>1. /\ F446Connected(p) /\ (OwnershipPending(p) => Fresh(p, "lowstate"))
        /\ MechanismViolations(p) = {} /\ AuthorityViolations(p) = {}
        /\ JointLockViolations(p) = {} /\ "GO2_TIMEOUT" \notin evaluate_freshness(p)
    BY SettledSays DEF LowCmdRequiredStates
  <1>2. F446Connected(r) /\ (OwnershipPending(r) => Fresh(r, "lowstate"))
    BY <1>1, AlikeAgree
  <1>3. OwnershipPending(r) \/ Fresh(r, "go2")
    <2>1. OwnershipPending(p) \/ Fresh(p, "go2")
      BY <1>1 DEF evaluate_freshness, Raised
    <2> QED  BY <2>1, AlikeAgree
  <1>4. MechanismViolations(r) = {}
    <2>1. Configuration(p) \in {"FLIGHT"}
      BY <1>1, MechanismQuiet DEF configuration_conflict, ACTIVE_TRANSFORM_STATES,
         StateShape, SafetyStates, LowCmdRequiredStates
    <2>2. ~configuration_conflict(r)
      BY <2>1 DEF configuration_conflict, ACTIVE_TRANSFORM_STATES, StateShape, Alike,
         LowCmdRequiredStates
    <2>3. ~Faulted(r) /\ F446State(r) # "UNKNOWN" /\ ~f446_overcurrent(r)
      BY <1>1, MechanismQuiet, AlikeAgree
    <2> QED  BY <2>2, <2>3, MechanismQuiet
  <1>5. AuthorityViolations(r) = {}
    <2>1. p.auth = "HOLD" => Fresh(p, "owner") /\ Fresh(p, "tracking")
      BY <1>1 DEF AuthorityViolations, Raised
    <2>2. r.auth \in {"LOCK", "HOLD", "UNKNOWN"}
          /\ (r.auth = "HOLD" => Fresh(r, "owner") /\ Fresh(r, "tracking"))
      BY <2>1, AlikeAgree DEF Alike
    <2> QED
      BY <2>2 DEF AuthorityViolations, Raised, TransitionPending, ExpectedAuthority,
         LowCmdRequiredStates, LowCmdOwnershipAllowedStates, SafetyStates
  <1>6. JointLockViolations(r) = {}
    BY <1>1, AlikeAgree DEF JointLockViolations, Raised, LockLost, HighLevelExpected,
       FlightJointLockStates, LowCmdRequiredStates, Alike
  <1>7. ComplianceViolations(r) = {} /\ r.state \notin TRANSFORM_STATES
        /\ r.state # "GO2_GROUND_HANDOVER" /\ r.state # "FLIGHT_READY"
    BY DEF ComplianceViolations, TRANSFORM_STATES, TRANSFORM_PRECHECK_STATES,
       ACTIVE_TRANSFORM_STATES, LowCmdRequiredStates
  <1> QED  BY <1>2, <1>3, <1>4, <1>5, <1>6, <1>7, SettledIf

(* The legs give way: what the tick asked for is what the monitor wants.   *)
LEMMA CompliantSettled ==
    ASSUME NEW s, NEW r, r.state = "LANDING_COMPLIANT", ~r.setpoint,
           r.bad = s.bad, r.air = s.air, r.motor = s.motor,
           Configuration(r) = Configuration(s), r.auth = "UNKNOWN",
           r.legs = "balance", ~f446_overcurrent(s),
           landing_compliance_entry_result(s), {"f446", "go2"} \cap s.bad = {}
    PROVE  Settled(r)
  <1>1. /\ pixhawk_ground_state_is_current(r) /\ Landed(r) /\ ~Armed(r)
        /\ assess_esc_telemetry(r) /\ {"foot", "contact"} \cap r.bad = {}
        /\ Go2Stationary(r) /\ Configuration(r) = "FLIGHT"
        /\ {"f446", "go2"} \cap r.bad = {} /\ ~f446_overcurrent(r)
    BY DEF landing_compliance_entry_result, GroundProof, RotorsStopped, AtEndpoint,
       FootContactSafe, pixhawk_ground_state_is_current, Landed, Armed, Fresh,
       assess_esc_telemetry, Go2Stationary, LockTransitionUnsafe, f446_overcurrent,
       FirmwareShape, F446State, Faulted
  <1>2. ComplianceViolations(r) = {}
    BY <1>1 DEF ComplianceViolations, Raised
  <1>3. MechanismViolations(r) = {}
    <2>1. ~configuration_conflict(r)
      BY <1>1 DEF configuration_conflict, ACTIVE_TRANSFORM_STATES, StateShape
    <2>2. ~Faulted(r) /\ F446State(r) # "UNKNOWN"
      BY <1>1, ShapeQuiet DEF Shape
    <2> QED  BY <1>1, <2>1, <2>2, MechanismQuiet
  <1>4. AuthorityViolations(r) = {} /\ JointLockViolations(r) = {} /\ ~OwnershipPending(r)
    BY AuthorityQuiet, JointLockQuiet
       DEF LowCmdRequiredStates, FlightJointLockStates, OwnershipPending
  <1>5. r.state \notin TRANSFORM_STATES
    BY DEF TRANSFORM_STATES, TRANSFORM_PRECHECK_STATES, ACTIVE_TRANSFORM_STATES
  <1> QED  BY <1>1, <1>2, <1>3, <1>4, <1>5, SettledIf DEF F446Connected, Fresh

-----------------------------------------------------------------------------
(* What an entry rests on besides the reading. *)

(* In BOOT_SAFE nobody vouches for the shape; and with LowCmd enabled an   *)
(* authorization lives only while LowCmd has the legs.                     *)
EntryInv ==
    /\ mode = "BOOT_SAFE" => confirmed.shape = "NONE"
    /\ authorized /\ config = "lowcmd" => owner = "lowcmd"

LEMMA InitEntry == Init => EntryInv
  BY DEF Init, EntryInv, NoWord

LEMMA EnterEntry ==
    ASSUME EntryInv, NEW to, Enter(to), UNCHANGED <<config, owner>>
    PROVE  EntryInv'
  BY DEF Enter, EntryInv, NoWord

LEMMA StepEntry == TypeOK /\ OwnerInv /\ EntryInv /\ [Next]_vars => EntryInv'
  <1> SUFFICES ASSUME TypeOK, OwnerInv, EntryInv, [Next]_vars PROVE EntryInv'
    OBVIOUS
  <1> USE DEF vehicle, mechanism, go2
  <1>1. CASE UNCHANGED vars
    BY <1>1 DEF vars, EntryInv
  <1>2. CASE Vehicle
    BY <1>2 DEF Vehicle, Breaks, Mends, Flies, Flicks, Phone, Returns, Stalls, EntryInv,
       NoWord
  <1>3. CASE Tick
    <2>1. UNCHANGED <<config, owner>>
      BY <1>3 DEF Tick, TickFaults, TickAborts, TickFollowsPilot, TickAsks, TickLands,
         TickComplies, TickWaits, TickRests, RevokeFails
    <2>2. (\E to : Enter(to)) \/ TickRests
      BY <1>3 DEF Tick, TickFaults, TickAborts, AbortsFrom, FinishesAbort,
         SetpointStopFails, LowCmdRevokeFails, TickFollowsPilot, TickAsks, TickLands,
         TickComplies, TickWaits, RevokeFails
    <2>3. CASE TickRests
      BY <2>3 DEF TickRests, Proven, EntryInv
    <2> QED  BY <2>1, <2>2, <2>3, EnterEntry
  <1>4. CASE Askers
    <2>1. UNCHANGED <<config, owner>>
      BY <1>4, AskersFrame
    <2>2. (\E to : Enter(to)) \/ UNCHANGED <<mode, confirmed, authorized>>
      BY <1>4 DEF Askers, Adopt, Disconnect, EnterManual, LeaveCompliance, HomeWalk,
         TransformFlight, TransformWalk, Precheck, PrepareAutoland, Asks, AsksOrFaults,
         AsksOrFaultsOn, Refused, entered
    <2> QED  BY <2>1, <2>2, EnterEntry DEF EntryInv
  <1>5. CASE Guides
    <2>1. UNCHANGED <<config, owner>>
      BY <1>5, GuidesFrame
    <2>2. (\E to : Enter(to)) \/ UNCHANGED <<mode, confirmed, authorized>>
      BY <1>5 DEF Guides, ClearFault, StartAutoland, AbortAutoland, AbortsFrom,
         FinishesAbort, SetpointStopFails, LowCmdRevokeFails, Refused, entered
    <2> QED  BY <2>1, <2>2, EnterEntry DEF EntryInv
  <1>6. CASE Movers
    <2>1. UNCHANGED <<config, owner>>
      BY <1>6, MoversFrame
    <2>2. ASSUME NEW code, Condemned(code) PROVE EntryInv'
      BY <2>1, <2>2, EnterEntry DEF Condemned
    <2>3. CASE ExitManual
      BY <2>1, <2>3, EnterEntry DEF ExitManual, EntryInv, NoWord, entered
    <2>4. CASE StartMotion
      <3>1. mode = "MANUAL_POSITIONING"
        BY <2>4 DEF StartMotion, manual_motion_guard, Reading
      <3> QED  BY <2>1, <2>2, <2>4, <3>1 DEF StartMotion, EntryInv, entered
    <2>6. CASE Mark \/ ConfirmShape \/ Turns
      <3>1. CASE Mark \/ Turns
        <4>1. mode # "BOOT_SAFE" /\ UNCHANGED <<mode, authorized>>
          BY <3>1 DEF Mark, Turns
        <4> QED  BY <2>1, <4>1 DEF EntryInv
      <3>2. CASE ConfirmShape
        <4>1. \/ mode' \in {"WALK", "GO2_JOINT_LOCK_WAIT"} /\ authorized' = FALSE
              \/ confirmed' = NoWord /\ UNCHANGED <<mode, authorized>>
          BY <3>2 DEF ConfirmShape
        <4> QED  BY <2>1, <4>1 DEF EntryInv, NoWord
      <3> QED  BY <2>6, <3>1, <3>2
    <2>7. CASE Arrives
      BY <2>1, <2>2, <2>7 DEF Arrives, EntryInv
    <2> QED  BY <1>6, <2>3, <2>4, <2>6, <2>7 DEF Movers
  <1>7. CASE Stoppers
    <2>1. UNCHANGED <<config, owner>>
      BY <1>7, StoppersFrame
    <2>2. \/ \E to : Enter(to)
          \/ UNCHANGED <<mode, confirmed>> /\ (UNCHANGED authorized \/ authorized' = FALSE)
      BY <1>7 DEF Stoppers, StopTransform, InterruptTransform, StopSupervised, StopFails,
         FinishesAbort, Condemned, entered
    <2> QED  BY <2>1, <2>2, EnterEntry DEF EntryInv
  <1>8. CASE Handers
    <2>1. CASE ConfirmLock
      <3>1. UNCHANGED <<config, owner>>
            /\ ((mode' = "FLIGHT_READY" /\ authorized' = FALSE) \/ Enter("FAULT"))
        BY <2>1 DEF ConfirmLock, Condemned
      <3> QED  BY <3>1, EnterEntry DEF EntryInv
    <2>2. CASE Release
      BY <2>2 DEF Release, AsksOrFaultsOn, Enter, EntryInv
    <2>3. CASE Acquire \/ Revoke
      BY <2>3 DEF Acquire, Revoke, EntryInv
    <2>4. CASE Authorize
      BY <2>4 DEF Authorize, EntryInv, Authority
    <2> QED  BY <1>8, <2>1, <2>2, <2>3, <2>4 DEF Handers
  <1> QED
    BY <1>1, <1>2, <1>3, <1>4, <1>5, <1>6, <1>7, <1>8, CommandKinds DEF Next

-----------------------------------------------------------------------------
(* What the readings a guard is asked about have in common with the next.  *)

LEMMA NextReading ==
    ASSUME NEW r, r = Reading'
    PROVE  /\ r.state = mode' /\ r.bad = bad' /\ r.air = air' /\ r.auth = Authority'
           /\ r.lowLevel = (config' = "lowcmd") /\ r.vouched = vouched'
           /\ r.legs = legs' /\ r.motor = motor' /\ r.confirmed = confirmed'.shape
           /\ r.setpoint = (guided' = "sending") /\ r.codes = codes'
  BY DEF Reading

LEMMA Shapes ==
    ASSUME NEW s, NEW r, r.bad = s.bad, r.motor = s.motor,
           FirmwareShape(s) # {} \/ r.confirmed = s.confirmed
    PROVE  Configuration(r) = Configuration(s)
  <1>1. FirmwareShape(r) = FirmwareShape(s)
    BY DEF FirmwareShape, F446State, Faulted
  <1>2. OperatorShape(r) = OperatorShape(s)
    BY <1>1 DEF OperatorShape, F446State, Faulted, F446Connected, Fresh
  <1> QED  BY <1>1, <1>2 DEF Configuration

(* A transition that leaves the legs, the motor and the vehicle alone, and *)
(* does not forget the operator's word.                                    *)
LEMMA AlikeAfter ==
    ASSUME NEW r, r = Reading', NEW s,
           UNCHANGED <<config, bad, air, legs, owner>>,
           s.bad = bad, s.air = air, s.auth = Authority, s.lowLevel = (config = "lowcmd"),
           s.legs = legs, s.motor = motor',
           mode' \in FlightJointLockStates => s.vouched = vouched',
           FirmwareShape(s) # {} \/ s.confirmed = confirmed'.shape
    PROVE  Alike(s, r)
  <1>1. Authority' = Authority
    BY DEF Authority
  <1> QED  BY <1>1, NextReading, Shapes DEF Alike

LEMMA AuthorityKinds == Authority \in {"HOLD", "LOCK", "REACQUIRING", "UNKNOWN"}
  BY DEF Authority

(* Where LowCmd may not stay, Sport has the legs.                          *)
LEMMA SportHasLegs ==
    ASSUME NEW s, NEW to, GuardPermits(s, to), to \notin SafetyStates,
           s.auth = Authority, Authority # "REACQUIRING",
           to \notin LowCmdOwnershipAllowedStates
    PROVE  s.auth \in {"LOCK", "UNKNOWN"}
  BY AuthorityKinds DEF GuardPermits, OwnershipPending

-----------------------------------------------------------------------------
(* A guard that lets the manager in, target by target. *)

Entering(s, r) ==
    /\ Settled(Reading) /\ OwnerInv /\ EntryInv
    /\ s.state = mode /\ mode \in SystemState /\ GuardPermits(s, mode')
    /\ Authority # "REACQUIRING" /\ s.auth = Authority /\ Alike(s, r)
    /\ s.lowLevel = (config = "lowcmd")
    /\ r.state = mode' /\ (r.setpoint => mode' = "AUTO_LANDING")

LEMMA EnteringAuth ==
    ASSUME NEW s, NEW r, Entering(s, r)
    PROVE  /\ s.auth \in {"HOLD", "LOCK", "UNKNOWN"}
           /\ mode' \notin LowCmdOwnershipAllowedStates => s.auth \in {"LOCK", "UNKNOWN"}
  <1>1. s.auth \in {"HOLD", "LOCK", "UNKNOWN"}
    BY DEF Entering, Authority
  <1> QED
    BY <1>1 DEF Entering, GuardPermits, OwnershipPending, LowCmdOwnershipAllowedStates

LEMMA ToGuarded ==
    ASSUME NEW s, NEW r, Entering(s, r), mode' \in Guarded, r.codes = s.codes
    PROVE  Settled(r)
  <1>1. GuardPermits(s, mode') /\ mode' \in TRANSFORM_STATES /\ mode' \notin SafetyStates
    BY DEF Entering, Guarded, TRANSFORM_STATES, TRANSFORM_PRECHECK_STATES,
       ACTIVE_TRANSFORM_STATES, SafetyStates
  <1>2. RequireTransformSafe(s) /\ FoldingGuard(s, mode')
    BY <1>1 DEF GuardPermits
  <1>3. s.codes = {}
    BY <1>2 DEF RequireTransformSafe
  <1>4. s.auth \in {"LOCK", "UNKNOWN"}
    BY EnteringAuth DEF Guarded, LowCmdOwnershipAllowedStates, SafetyStates
  <1>5. /\ mode' = "WALK_TO_FLIGHT_PRECHECK" => Configuration(s) = "WALK"
        /\ mode' = "GO2_JOINT_LOCK_WAIT" => Configuration(s) = "FLIGHT"
    BY <1>2 DEF FoldingGuard, AtEndpoint
  <1>6. ~r.setpoint /\ r.state \in Guarded /\ Alike(s, r) /\ r.state = mode'
    BY DEF Entering, Guarded
  <1> QED  BY <1>2, <1>3, <1>4, <1>5, <1>6, TransformSettled

LEMMA ToWalk ==
    ASSUME NEW s, NEW r, Entering(s, r), mode' = "WALK",
           mode = "BOOT_SAFE" => s.confirmed = "NONE"
    PROVE  Settled(r)
  <1>1. GuardPermits(s, "WALK") /\ "WALK" \notin SafetyStates
    BY DEF Entering, SafetyStates
  <1>2. AtEndpoint(s, "WALK") /\ (mode = "BOOT_SAFE" => BootReady(s))
    BY <1>1 DEF GuardPermits, UnfoldingGuard, Entering
  <1>3. s.auth \in {"LOCK", "UNKNOWN"}
    BY EnteringAuth DEF LowCmdOwnershipAllowedStates, SafetyStates
  <1>4. ~r.setpoint /\ r.state = "WALK" /\ Alike(s, r) /\ Configuration(s) = "WALK"
    BY <1>2 DEF Entering, AtEndpoint
  <1>5. ~f446_overcurrent(s) /\ {"f446", "go2"} \cap s.bad = {}
    <2>1. CASE mode = "BOOT_SAFE"
      <3>1. FirmwareShape(s) # {}
        BY <1>4, <2>1 DEF Configuration, OperatorShape
      <3> QED  BY <1>2, <2>1, <3>1 DEF f446_overcurrent, BootReady, require_fresh_devices,
                  Devices
    <2>2. CASE mode # "BOOT_SAFE"
      <3>1. mode \in TRANSFORM_STATES
        BY <1>1, <2>2 DEF GuardPermits, Entering, ALLOWED_TRANSITIONS, SystemState,
           TRANSFORM_STATES, TRANSFORM_PRECHECK_STATES, ACTIVE_TRANSFORM_STATES
      <3>2. RequireTransformSafe(s)
        BY <1>1, <3>1 DEF GuardPermits, Entering
      <3> QED
        BY <3>2 DEF RequireTransformSafe, require_fresh_devices, Devices, CurrentClear,
           f446_overcurrent
    <2> QED  BY <2>1, <2>2
  <1> QED  BY <1>3, <1>4, <1>5, WalkSettled

LEMMA ToReady ==
    ASSUME NEW s, NEW r, Entering(s, r), mode' = "FLIGHT_READY",
           mode = "BOOT_SAFE" => s.confirmed = "NONE" /\ joints_locked(s),
           mode \notin {"BOOT_SAFE", "FAULT"} =>
             ~f446_overcurrent(s) /\ Fresh(s, "f446")
             /\ (joints_locked(s) \/ Go2Stationary(s))
    PROVE  Settled(r)
  <1>1. GuardPermits(s, "FLIGHT_READY") /\ "FLIGHT_READY" \notin SafetyStates
    BY DEF Entering, SafetyStates
  <1>2. AtEndpoint(s, "FLIGHT") /\ ~Armed(s) /\ RequireJointLock(s)
        /\ (mode = "BOOT_SAFE" => BootReady(s))
    BY <1>1 DEF GuardPermits, FlightGuard, Entering
  <1>3. s.auth \in {"LOCK", "UNKNOWN"}
    <2>1. s.auth # "HOLD"
      BY <1>2, EnteringAuth DEF Entering, RequireJointLock, OwnerInv, Authority
    <2> QED  BY <2>1, EnteringAuth
  <1>4. ~r.setpoint /\ r.state = "FLIGHT_READY" /\ Alike(s, r)
    BY DEF Entering
  <1>5. mode # "FAULT"
    BY <1>1 DEF GuardPermits, Entering, ALLOWED_TRANSITIONS, SystemState
  <1>6. ~f446_overcurrent(s) /\ Fresh(s, "f446") /\ (joints_locked(s) \/ Go2Stationary(s))
    <2>1. CASE mode = "BOOT_SAFE"
      <3>1. FirmwareShape(s) # {}
        BY <1>2, <2>1 DEF AtEndpoint, Configuration, OperatorShape
      <3> QED  BY <1>2, <2>1, <3>1 DEF f446_overcurrent, BootReady, require_fresh_devices,
                  Devices, Fresh
    <2> QED  BY <1>5, <2>1
  <1> QED  BY <1>2, <1>3, <1>4, <1>6, ReadySettled

LEMMA ToFold ==
    ASSUME NEW r, Entering(Reading, r), r.codes = codes,
           mode' \in {"FLIGHT_TO_WALK_PRECHECK", "TRANSFORM_TO_WALK"},
           mode \in {"FLIGHT_READY", "TOUCHDOWN_VERIFY", "FLIGHT_TO_WALK_PRECHECK"}
    PROVE  Settled(r)
  <1> DEFINE s == Reading
  <1>1. s.state = mode /\ s.codes = codes
    BY DEF Reading
  <1>2. GuardPermits(s, mode') /\ mode' \in TRANSFORM_STATES /\ mode' \notin SafetyStates
    BY DEF Entering, TRANSFORM_STATES, TRANSFORM_PRECHECK_STATES,
       ACTIVE_TRANSFORM_STATES, SafetyStates
  <1> HIDE DEF s
  <1>3. RequireTransformSafe(s) /\ UnfoldingGuard(s, mode')
        /\ mode' \in ALLOWED_TRANSITIONS[mode]
    BY <1>1, <1>2 DEF GuardPermits
  <1>4. s.codes = {}
    BY <1>3 DEF RequireTransformSafe
  <1>5. s.auth \in {"LOCK", "UNKNOWN"}
    BY EnteringAuth DEF LowCmdOwnershipAllowedStates, SafetyStates, s
  <1>6. ~r.setpoint /\ r.state = mode' /\ Alike(s, r) /\ Settled(s)
    BY DEF Entering, s
  <1>7. mode' = "FLIGHT_TO_WALK_PRECHECK" => GroundProof(s)
    BY <1>3 DEF UnfoldingGuard
  <1>8. mode' = "TRANSFORM_TO_WALK" <=> mode = "FLIGHT_TO_WALK_PRECHECK"
    <2>1. /\ "TRANSFORM_TO_WALK" \notin ALLOWED_TRANSITIONS["FLIGHT_READY"]
          /\ "TRANSFORM_TO_WALK" \notin ALLOWED_TRANSITIONS["TOUCHDOWN_VERIFY"]
          /\ "FLIGHT_TO_WALK_PRECHECK" \notin ALLOWED_TRANSITIONS["FLIGHT_TO_WALK_PRECHECK"]
      BY DEF ALLOWED_TRANSITIONS, SystemState, SafetyStates
    <2> QED  BY <1>3, <2>1
  <1> QED  BY <1>1, <1>3, <1>4, <1>5, <1>6, <1>7, <1>8, FoldSettled

LEMMA ToFlight ==
    ASSUME NEW r, NEW s, Entering(s, r), Alike(Reading, r),
           mode \in {"FLIGHT_READY"} \cup LowCmdRequiredStates,
           mode' \in LowCmdRequiredStates,
           mode = "FLIGHT_READY" => authorized,
           mode' = "AUTO_LANDING" => config # "lowcmd"
    PROVE  Settled(r)
  <1> DEFINE p == Reading
  <1>1. p.state = mode /\ p.auth = Authority /\ p.lowLevel = (config = "lowcmd")
    BY DEF Reading
  <1>2. r.lowLevel = p.lowLevel /\ r.auth = p.auth /\ r.auth = s.auth
        /\ r.state = mode' /\ (r.setpoint => r.state = "AUTO_LANDING") /\ Settled(p)
    BY DEF Entering, Alike
  <1> HIDE DEF p
  <1>3. p.auth \in {"HOLD", "LOCK", "UNKNOWN"}
    BY <1>2, EnteringAuth
  <1>4. r.lowLevel => r.auth = "HOLD" /\ r.state # "AUTO_LANDING"
    <2>1. CASE mode = "FLIGHT_READY"
      BY <1>1, <1>2, <2>1 DEF Entering, EntryInv, Authority
    <2>2. CASE mode \in LowCmdRequiredStates
      <3>1. AuthorityViolations(p) = {}
        BY <1>1, <1>2, <2>2, SettledSays DEF LowCmdRequiredStates
      <3>2. p.lowLevel => p.auth = ExpectedAuthority(p)
        BY <1>1, <2>2, <3>1 DEF AuthorityViolations, Raised
      <3> QED  BY <1>1, <1>2, <3>2 DEF ExpectedAuthority, Entering, OwnerInv
    <2> QED  BY <2>1, <2>2
  <1> QED  BY <1>1, <1>2, <1>3, <1>4, FlightSettled DEF p

-----------------------------------------------------------------------------
(* The steps that change the state, but for those into FAULT and into the  *)
(* two known gaps.                                                         *)

Leaving ==
    /\ TypeOK /\ OwnerInv /\ EntryInv /\ Settled(Reading)
    /\ mode' # mode /\ mode' # "FAULT" /\ ~KnownGap /\ GuidedInv'

(* The reading, but for the stick, the request, what the authorization is  *)
(* worth and the violations that are known.                                *)
Sees(s) ==
    /\ s.state = mode /\ s.bad = bad /\ s.air = air /\ s.auth = Authority
    /\ s.lowLevel = (config = "lowcmd") /\ s.legs = legs /\ s.motor = motor
    /\ s.vouched = vouched /\ s.confirmed = confirmed.shape

LEMMA ReadingsSeen ==
    /\ Sees(Reading) /\ Sees(Judged) /\ Sees([Judged EXCEPT !.stick = "override"])
    /\ Sees([Reading EXCEPT !.stick = "override"])
    /\ \A asked \in BOOLEAN : Sees([Reading EXCEPT !.request = asked])
    /\ Judged.compliance = (config = "comply")
  BY DEF Sees, Reading, Judged, Ticked

LEMMA SeenAlike == ASSUME NEW s, Sees(s) PROVE Alike(Reading, s)
  <1>1. Sees(Reading)
    BY ReadingsSeen
  <1> QED  BY <1>1, Shapes DEF Sees, Alike

LEMMA BootSettled == mode' = "BOOT_SAFE" => Settled(Reading)'
  <1> SUFFICES ASSUME mode' = "BOOT_SAFE" PROVE Settled(Reading)'
    OBVIOUS
  <1>1. PICK r : r = Reading'
    OBVIOUS
  <1>2. r.state = "BOOT_SAFE"
    BY <1>1, NextReading
  <1>3. Settled(r)
    BY <1>2 DEF Settled, Escalating, TRANSFORM_STATES, TRANSFORM_PRECHECK_STATES,
       ACTIVE_TRANSFORM_STATES
  <1> QED  BY <1>1, <1>3, PrimeMoves

LEMMA Entered ==
    ASSUME Leaving, NEW s, Sees(s), NEW r, r = Reading',
           UNCHANGED <<config, vehicle, motor, go2>>,
           Enter(mode'), mode' # "BOOT_SAFE", GuardPermits(s, mode')
    PROVE  Entering(s, r) /\ Alike(Reading, r)
  <1>1. UNCHANGED <<config, bad, air, legs, owner, motor>> /\ Authority' = Authority
    BY DEF vehicle, go2, Authority
  <1>2. confirmed' = confirmed /\ (mode' \in FlightJointLockStates => vouched' = vouched)
    BY DEF Leaving, Enter, FlightJointLockStates, TypeOK
  <1>3. Alike(s, r)
    BY <1>1, <1>2, AlikeAfter DEF Sees
  <1>4. Alike(Reading, r)
    BY <1>1, <1>2, AlikeAfter, ReadingsSeen DEF Sees
  <1>5. r.state = mode' /\ (r.setpoint => mode' = "AUTO_LANDING")
    BY NextReading DEF Leaving, GuidedInv
  <1> QED
    BY <1>1, <1>3, <1>4, <1>5 DEF Entering, Sees, Leaving, KnownGap, TypeOK

(* What a settled state leaves for FLIGHT_READY.                           *)
LEMMA SettledLocks ==
    ASSUME Leaving, mode \notin {"BOOT_SAFE", "FAULT"}, NEW s, Sees(s)
    PROVE  /\ ~f446_overcurrent(s) /\ Fresh(s, "f446")
           /\ mode \in FlightJointLockStates => joints_locked(s) \/ Go2Stationary(s)
  <1> DEFINE p == Reading
  <1>1. p.state = mode /\ Settled(p) /\ Alike(p, s)
    BY SeenAlike, ReadingsSeen DEF Sees, Leaving
  <1> HIDE DEF p
  <1>2. F446Connected(p) /\ MechanismViolations(p) = {} /\ JointLockViolations(p) = {}
    BY <1>1, SettledSays
  <1>3. ~f446_overcurrent(p) /\ Fresh(p, "f446")
    BY <1>2, MechanismQuiet DEF F446Connected
  <1>4. mode \in FlightJointLockStates => joints_locked(p) \/ Go2Stationary(p)
    BY <1>1, <1>2 DEF JointLockViolations, Raised
  <1> QED  BY <1>1, <1>3, <1>4, AlikeAgree

(* Where the commands may lead, and from where.                            *)
OpenTo(s, to) ==
    \/ to \in {"BOOT_SAFE", "WALK"} \cup Guarded
    \/ /\ to = "FLIGHT_READY" /\ mode \in {"BOOT_SAFE", "FLIGHT_TO_WALK_PRECHECK"}
       /\ mode = "BOOT_SAFE" => joints_locked(s)
    \/ /\ to \in {"FLIGHT_TO_WALK_PRECHECK", "TRANSFORM_TO_WALK"} /\ s = Reading
       /\ mode \in {"FLIGHT_READY", "TOUCHDOWN_VERIFY", "FLIGHT_TO_WALK_PRECHECK"}
    \/ /\ to \in LowCmdRequiredStates /\ mode \in LowCmdRequiredStates
       /\ to = "AUTO_LANDING" => config # "lowcmd"

(* A command that asks for a transition, target by target.                 *)
LEMMA AskedSettled ==
    ASSUME Leaving, NEW s, Sees(s), s.codes = codes, NEW to,
           \/ Asks(to) /\ s = Reading
           \/ AsksOrFaultsOn(s, to),
           UNCHANGED <<config, vehicle, motor, go2>>,
           OpenTo(s, to)
    PROVE  Settled(Reading)'
  <1>1. PICK r : r = Reading'
    OBVIOUS
  <1>2. Enter(to) /\ UNCHANGED codes /\ GuardPermits(s, to) /\ mode' = to
    <2>1. ~Refused /\ ~Enter("FAULT") /\ (Enter(to) => mode' = to)
      BY DEF Leaving, Enter, Refused, entered
    <2> QED  BY <2>1 DEF Asks, AsksOrFaultsOn
  <1>3. CASE to = "BOOT_SAFE"
    BY <1>2, <1>3, BootSettled
  <1>4. CASE to # "BOOT_SAFE"
    <2>1. Entering(s, r) /\ Alike(Reading, r)
      BY <1>1, <1>2, <1>4, Entered
    <2>2. r.codes = codes /\ (mode = "BOOT_SAFE" => s.confirmed = "NONE")
      BY <1>1, <1>2, NextReading DEF Leaving, EntryInv, Sees
    <2>3. Settled(r)
      <3>1. CASE to \in Guarded
        BY <1>2, <2>1, <2>2, <3>1, ToGuarded
      <3>2. CASE to = "WALK"
        BY <1>2, <2>1, <2>2, <3>2, ToWalk
      <3>3. CASE to = "FLIGHT_READY"
        <4>1. mode \in {"BOOT_SAFE", "FLIGHT_TO_WALK_PRECHECK"}
              /\ (mode = "BOOT_SAFE" => joints_locked(s))
          BY <3>3 DEF OpenTo, Guarded, LowCmdRequiredStates
        <4> QED  BY <1>2, <2>1, <2>2, <3>3, <4>1, SettledLocks, ToReady
                    DEF FlightJointLockStates
      <3>4. CASE to \in {"FLIGHT_TO_WALK_PRECHECK", "TRANSFORM_TO_WALK"}
        <4>1. s = Reading
              /\ mode \in {"FLIGHT_READY", "TOUCHDOWN_VERIFY", "FLIGHT_TO_WALK_PRECHECK"}
          BY <3>4 DEF OpenTo, Guarded, LowCmdRequiredStates
        <4> QED  BY <1>2, <2>1, <2>2, <3>4, <4>1, ToFold
      <3>5. CASE to \in LowCmdRequiredStates
        <4>1. mode \in LowCmdRequiredStates /\ (to = "AUTO_LANDING" => config # "lowcmd")
          BY <3>5 DEF OpenTo, Guarded, LowCmdRequiredStates
        <4> QED  BY <1>2, <2>1, <3>5, <4>1, ToFlight DEF LowCmdRequiredStates
      <3> QED  BY <1>4, <3>1, <3>2, <3>3, <3>4, <3>5 DEF OpenTo
    <2> QED  BY <1>1, <2>3, PrimeMoves
  <1> QED  BY <1>3, <1>4

LEMMA AskersSettled == Leaving /\ Askers => Settled(Reading)'
  <1> SUFFICES ASSUME Leaving, Askers PROVE Settled(Reading)'
    OBVIOUS
  <1>1. UNCHANGED <<config, vehicle, motor, go2>>
    BY AskersFrame
  <1>2. /\ Sees(Reading) /\ Reading.codes = codes
        /\ \A asked \in BOOLEAN : Sees([Reading EXCEPT !.request = asked])
        /\ \A asked \in BOOLEAN : [Reading EXCEPT !.request = asked].codes = codes
    BY ReadingsSeen DEF Reading
  <1>3. ASSUME NEW to, Asks(to) \/ AsksOrFaults(to), OpenTo(Reading, to)
        PROVE  Settled(Reading)'
    BY <1>1, <1>2, <1>3, AskedSettled DEF AsksOrFaults
  <1>4. CASE Disconnect \/ EnterManual \/ LeaveCompliance \/ Adopt
    <2>1. PICK to : Asks(to) /\ OpenTo(Reading, to)
      BY <1>4 DEF Disconnect, EnterManual, LeaveCompliance, Adopt, OpenTo, Guarded
    <2> QED  BY <1>3, <2>1
  <1>5. CASE HomeWalk
    BY <1>5 DEF HomeWalk, AsksOrFaults, AsksOrFaultsOn, Enter, Leaving, KnownGap
  <1>6. CASE TransformFlight
    <2> DEFINE to == "WALK_TO_FLIGHT_PRECHECK"
    <2>1. PICK asked \in BOOLEAN : AsksOrFaultsOn([Reading EXCEPT !.request = asked], to)
      BY <1>6 DEF TransformFlight
    <2>2. OpenTo([Reading EXCEPT !.request = asked], to)
      BY DEF OpenTo, Guarded
    <2> QED  BY <1>1, <1>2, <2>1, <2>2, AskedSettled
  <1>7. CASE TransformWalk
    <2>1. OpenTo(Reading, "FLIGHT_TO_WALK_PRECHECK")
      BY <1>7 DEF TransformWalk, OpenTo
    <2> QED  BY <1>3, <1>7, <2>1 DEF TransformWalk
  <1>8. CASE Precheck
    <2>1. PICK to : AsksOrFaults(to) /\ OpenTo(Reading, to)
      BY <1>8 DEF Precheck, OpenTo, Guarded, TRANSFORM_PRECHECK_STATES
    <2> QED  BY <1>3, <2>1
  <1>9. CASE PrepareAutoland
    <2>1. OpenTo(Reading, "AUTO_LANDING_READY")
      BY <1>9 DEF PrepareAutoland, OpenTo, LowCmdRequiredStates
    <2> QED  BY <1>3, <1>9, <2>1 DEF PrepareAutoland
  <1> QED  BY <1>4, <1>5, <1>6, <1>7, <1>8, <1>9 DEF Askers

(* A landing that is aborted.                                              *)
LEMMA BackSettled ==
    ASSUME Leaving, mode \in AutolandStates, Enter("FLIGHT_MANUAL"),
           UNCHANGED <<config, vehicle, motor, go2>>
    PROVE  Settled(Reading)'
  <1> DEFINE s == [Reading EXCEPT !.stick = "override"]
  <1>1. PICK r : r = Reading'
    OBVIOUS
  <1>2. mode' = "FLIGHT_MANUAL" /\ mode \in LowCmdRequiredStates /\ mode # "FLIGHT_READY"
    BY DEF Enter, AutolandStates, LowCmdRequiredStates
  <1>3. Sees(s) /\ s.stick = "override"
    BY ReadingsSeen DEF Reading
  <1> HIDE DEF s
  <1>4. GuardPermits(s, mode')
    BY <1>2, <1>3, BackToThePilot DEF Sees
  <1>5. Entering(s, r) /\ Alike(Reading, r)
    BY <1>1, <1>2, <1>3, <1>4, Entered
  <1>6. Settled(r)
    BY <1>2, <1>5, ToFlight DEF LowCmdRequiredStates
  <1> QED  BY <1>1, <1>6, PrimeMoves

LEMMA AbortSettled ==
    ASSUME Leaving, mode \in AutolandStates, UNCHANGED <<config, vehicle, motor, go2>>,
           NEW s, NEW from, NEW seen, AbortsFrom(s, from, seen) \/ FinishesAbort(s, seen)
    PROVE  Settled(Reading)'
  <1>1. Enter("FLIGHT_MANUAL")
    BY DEF AbortsFrom, FinishesAbort, SetpointStopFails, LowCmdRevokeFails, Leaving, Enter
  <1> QED  BY <1>1, BackSettled

LEMMA GuidesSettled == Leaving /\ Guides => Settled(Reading)'
  <1> SUFFICES ASSUME Leaving, Guides PROVE Settled(Reading)'
    OBVIOUS
  <1>1. UNCHANGED <<config, vehicle, motor, go2>>
    BY GuidesFrame
  <1>2. CASE ClearFault
    BY <1>2, BootSettled DEF ClearFault, Enter, Leaving, entered
  <1>3. CASE StartAutoland
    <2>1. mode \in AutolandStates /\ config # "lowcmd" /\ mode \in LowCmdRequiredStates
      BY <1>3 DEF StartAutoland, AutolandStates, LowCmdRequiredStates
    <2>2. CASE GuardPermits(Reading, "AUTO_LANDING") /\ Enter("AUTO_LANDING")
               /\ UNCHANGED codes
      <3>1. Asks("AUTO_LANDING") /\ OpenTo(Reading, "AUTO_LANDING")
        BY <2>1, <2>2 DEF Asks, OpenTo, LowCmdRequiredStates
      <3>2. Sees(Reading) /\ Reading.codes = codes
        BY ReadingsSeen DEF Reading
      <3> QED  BY <1>1, <3>1, <3>2, AskedSettled
    <2>3. ~Refused /\ \A from, seen : ~SetpointStopFails(from, seen)
      BY DEF Leaving, Refused, SetpointStopFails, Enter, entered
    <2> QED  BY <1>1, <1>3, <2>1, <2>2, <2>3, AbortSettled DEF StartAutoland
  <1>4. CASE AbortAutoland
    <2>1. mode \in AutolandStates
      BY <1>4 DEF AbortAutoland, SetpointStopFails, LowCmdRevokeFails, Leaving, Enter,
         entered
    <2> QED  BY <1>1, <1>4, <2>1, AbortSettled DEF AbortAutoland
  <1> QED  BY <1>2, <1>3, <1>4 DEF Guides

LEMMA TickSettled == Leaving /\ Tick => Settled(Reading)'
  <1> SUFFICES ASSUME Leaving, Tick PROVE Settled(Reading)'
    OBVIOUS
  <1>1. PICK r : r = Reading'
    OBVIOUS
  <1> SUFFICES Settled(r)
    BY <1>1, PrimeMoves
  <1>2. Sees(Judged) /\ Sees([Judged EXCEPT !.stick = "override"])
    BY ReadingsSeen
  <1>3. mode' # mode /\ mode' # "FAULT"
    BY DEF Leaving
  <1>4. ~TickFaults /\ ~TickRests /\ ~RevokeFails
    BY <1>3 DEF TickFaults, TickRests, RevokeFails, Enter
  <1>5. CASE TickAborts
    <2>1. Settled(Reading)'
      BY <1>5, AbortSettled DEF TickAborts
    <2> QED  BY <1>1, <2>1 DEF Settled
  <1>6. CASE TickFollowsPilot
    <2>1. ASSUME NEW to, TickAsks(to), to \in {"FLIGHT_MANUAL", "FLIGHT_READY"}
          PROVE  /\ mode' = to /\ Entering(Judged, r) /\ Alike(Reading, r)
                 /\ UNCHANGED <<config, vehicle, motor, go2>>
      <3>1. /\ Enter(to) /\ GuardPermits(Judged, to) /\ mode' = to
            /\ UNCHANGED <<config, vehicle, motor, go2>>
        BY <1>3, <2>1 DEF TickAsks, Enter
      <3> QED  BY <1>1, <1>2, <2>1, <3>1, Entered
    <2>2. CASE mode = "FLIGHT_READY" /\ Proven /\ TickAsks("FLIGHT_MANUAL")
      BY <2>1, <2>2, ToFlight DEF LowCmdRequiredStates, Proven
    <2>3. CASE mode = "FLIGHT_MANUAL" /\ TickAsks("FLIGHT_READY")
      BY <1>2, <2>1, <2>3, SettledLocks, ToReady DEF FlightJointLockStates
    <2> QED  BY <1>6, <2>2, <2>3 DEF TickFollowsPilot
  <1>7. CASE TickLands
    <2>1. /\ Enter(mode') /\ GuardPermits(Judged, mode') /\ mode' = "TOUCHDOWN_VERIFY"
          /\ UNCHANGED <<config, vehicle, motor, go2>>
          /\ mode \in LowCmdRequiredStates /\ mode # "FLIGHT_READY"
      BY <1>3, <1>7 DEF TickLands, SetpointStopFails, LowCmdRevokeFails, Enter,
         LowCmdRequiredStates
    <2>2. Entering(Judged, r) /\ Alike(Reading, r)
      BY <1>1, <1>2, <2>1, Entered
    <2> QED  BY <2>1, <2>2, ToFlight DEF LowCmdRequiredStates
  <1>8. CASE TickComplies
    <2>1. /\ mode = "TOUCHDOWN_VERIFY" /\ landing_compliance_entry_result(Judged)
          /\ GuardPermits(Judged, "LANDING_COMPLIANT") /\ Enter("LANDING_COMPLIANT")
          /\ legs' = "balance" /\ UNCHANGED <<config, vehicle, motor, owner>>
      BY <1>3, <1>8 DEF TickComplies, Enter
    <2>2. /\ mode' = "LANDING_COMPLIANT" /\ confirmed' = confirmed
      BY <2>1 DEF Enter
    <2>3. r.auth = "UNKNOWN" /\ r.legs = "balance" /\ r.state = "LANDING_COMPLIANT"
          /\ ~r.setpoint
      <3>1. Judged.compliance
        BY <2>1 DEF landing_compliance_entry_result
      <3>2. owner = "sport"
        BY <3>1, ReadingsSeen DEF Leaving, OwnerInv
      <3>3. Authority' = "UNKNOWN"
        BY <2>1, <3>2 DEF Authority
      <3> QED  BY <1>1, <2>1, <2>2, <3>3, NextReading DEF Leaving, GuidedInv
    <2>4. r.bad = Judged.bad /\ r.air = Judged.air /\ r.motor = Judged.motor
          /\ r.confirmed = Judged.confirmed
      BY <1>1, <1>2, <2>1, <2>2, NextReading DEF Sees, vehicle
    <2>5. Configuration(r) = Configuration(Judged)
      BY <2>4, Shapes
    <2>6. ~f446_overcurrent(Judged)
      BY <1>2, <2>1, SettledLocks
    <2>7. {"f446", "go2"} \cap Judged.bad = {}
      <3>1. LegsGuard(Judged, "LANDING_COMPLIANT")
        BY <2>1 DEF GuardPermits, SafetyStates
      <3> QED  BY <3>1 DEF LegsGuard, require_fresh_devices, Devices
    <2> QED  BY <2>1, <2>3, <2>4, <2>5, <2>6, <2>7, CompliantSettled
  <1>9. CASE TickWaits
    <2>1. /\ Enter(mode') /\ GuardPermits(Judged, mode') /\ mode' = "FLIGHT_READY"
          /\ UNCHANGED <<config, vehicle, motor, go2>> /\ joints_locked(Judged)
          /\ mode \in {"GO2_JOINT_LOCK_WAIT", "GO2_GROUND_HANDOVER"}
      BY <1>3, <1>9 DEF TickWaits, Enter
    <2>2. Entering(Judged, r)
      BY <1>1, <1>2, <2>1, Entered
    <2> QED  BY <1>2, <2>1, <2>2, SettledLocks, ToReady
  <1> QED  BY <1>4, <1>5, <1>6, <1>7, <1>8, <1>9 DEF Tick

LEMMA MoversSettled == Leaving /\ Movers => Settled(Reading)'
  <1> SUFFICES ASSUME Leaving, Movers PROVE Settled(Reading)'
    OBVIOUS
  <1>1. PICK r : r = Reading'
    OBVIOUS
  <1>2. mode' # mode /\ mode' # "FAULT"
    BY DEF Leaving
  <1>3. UNCHANGED <<config, bad, air, legs, owner>> /\ Authority' = Authority
    BY MoversFrame DEF vehicle, go2, Authority
  <1>4. /\ r.state = mode' /\ (r.setpoint => mode' = "AUTO_LANDING") /\ r.codes = codes'
        /\ Authority # "REACQUIRING"
    BY <1>1, <1>3, NextReading DEF Leaving, KnownGap, GuidedInv
  <1>5. CASE ExitManual
    BY <1>2, <1>5, BootSettled DEF ExitManual, Enter, entered
  (* Both commands that end at an endpoint enter WALK or the wait for the  *)
  (* joint lock, on a reading that only differs from the next in how the   *)
  (* shape is known.                                                       *)
  <1>6. ASSUME NEW s, GuardPermits(s, mode'), UNCHANGED codes,
               mode' \in {"WALK", "GO2_JOINT_LOCK_WAIT"}, mode # "BOOT_SAFE",
               s.state = mode, s.bad = bad, s.air = air, s.auth = Authority,
               s.lowLevel = (config = "lowcmd"), s.legs = legs, s.motor = motor',
               s.codes = codes,
               FirmwareShape(s) # {} \/ s.confirmed = confirmed'.shape
        PROVE  Settled(Reading)'
    <2>1. Alike(s, r)
      BY <1>1, <1>3, <1>6, AlikeAfter DEF FlightJointLockStates
    <2>2. Entering(s, r)
      BY <1>3, <1>4, <1>6, <2>1 DEF Entering, Leaving, TypeOK
    <2>3. Settled(r)
      BY <1>4, <1>6, <2>2, ToWalk, ToGuarded DEF Guarded
    <2> QED  BY <1>1, <2>3, PrimeMoves
  <1>7. CASE ConfirmShape
    <2>1. PICK t \in Shape :
            LET s == [Reading EXCEPT !.confirmed = t]
                to == IF t = "WALK" THEN "WALK" ELSE "GO2_JOINT_LOCK_WAIT"
            IN  /\ mode = "MANUAL_POSITIONING" /\ GuardPermits(s, to) /\ mode' = to
                /\ Vouches(t, manual.stale) /\ UNCHANGED <<motor, codes>>
      BY <1>2, <1>7 DEF ConfirmShape
    <2> DEFINE s == [Reading EXCEPT !.confirmed = t]
    <2>2. /\ s.state = mode /\ s.bad = bad /\ s.air = air /\ s.auth = Authority
          /\ s.lowLevel = (config = "lowcmd") /\ s.legs = legs /\ s.motor = motor
          /\ s.codes = codes /\ s.confirmed = t
      BY DEF Reading
    <2>3. FirmwareShape(s) = FirmwareShape(Reading)
      BY DEF FirmwareShape, F446State, Faulted, Reading
    <2>4. FirmwareShape(s) # {} \/ s.confirmed = confirmed'.shape
      BY <2>1, <2>2, <2>3 DEF Vouches
    <2> HIDE DEF s
    <2>5. GuardPermits(s, mode') /\ mode' \in {"WALK", "GO2_JOINT_LOCK_WAIT"}
      BY <2>1 DEF s
    <2> QED  BY <1>6, <2>1, <2>2, <2>4, <2>5
  <1>8. CASE Arrives
    <2> DEFINE s == [Reading EXCEPT !.motor = motor']
    <2>1. PICK t \in Shape :
            /\ mode' = IF t = "WALK" THEN "WALK" ELSE "GO2_JOINT_LOCK_WAIT"
            /\ GuardPermits(s, mode') /\ motor' = expected_state_for(t)
            /\ mode \in {"HOMING_TO_WALK", "TRANSFORM_TO_FLIGHT", "TRANSFORM_TO_WALK"}
            /\ UNCHANGED codes
      <3> DEFINE t == IF mode = "TRANSFORM_TO_FLIGHT" THEN "FLIGHT" ELSE "WALK"
      <3>1. t \in Shape
        BY DEF Shape
      <3>2. /\ mode' = IF t = "WALK" THEN "WALK" ELSE "GO2_JOINT_LOCK_WAIT"
            /\ GuardPermits(s, mode') /\ motor' = expected_state_for(t)
            /\ mode \in {"HOMING_TO_WALK", "TRANSFORM_TO_FLIGHT", "TRANSFORM_TO_WALK"}
            /\ UNCHANGED codes
        BY <1>2, <1>8 DEF Arrives, Condemned, Enter
      <3> QED  BY <3>1, <3>2
    <2>2. /\ s.state = mode /\ s.bad = bad /\ s.air = air /\ s.auth = Authority
          /\ s.lowLevel = (config = "lowcmd") /\ s.legs = legs /\ s.motor = motor'
          /\ s.codes = codes
      BY DEF Reading
    <2> HIDE DEF s
    <2>3. RequireTransformSafe(s) /\ mode # "BOOT_SAFE"
      BY <2>1, <2>2 DEF GuardPermits, SafetyStates, TRANSFORM_STATES,
         ACTIVE_TRANSFORM_STATES
    <2>4. FirmwareShape(s) # {}
      BY <2>1, <2>2, <2>3 DEF RequireTransformSafe, FirmwareShape, F446State
    <2>5. mode' \in {"WALK", "GO2_JOINT_LOCK_WAIT"}
      BY <2>1
    <2> QED  BY <1>6, <2>1, <2>2, <2>3, <2>4, <2>5
  <1> QED
    BY <1>2, <1>5, <1>7, <1>8 DEF Movers, StartMotion, Mark, Turns, Condemned, Enter, entered

(* The stops: a landing that is aborted, where the motor already rests.    *)
LEMMA StoppersSettled == Leaving /\ Stoppers => Settled(Reading)'
  <1> SUFFICES ASSUME Leaving, Stoppers PROVE Settled(Reading)'
    OBVIOUS
  <1>1. mode' # mode /\ mode' # "FAULT" /\ ~StopFails
    BY DEF Leaving, StopFails, Condemned, Enter, entered
  <1>2. /\ mode \in AutolandStates /\ FinishesAbort(Reading, codes) /\ motor' \in Stopped
        /\ UNCHANGED <<config, vehicle, go2>>
    BY <1>1 DEF Stoppers, StopTransform, InterruptTransform, StopSupervised, Condemned,
       Enter, entered
  <1>3. MechanismViolations(Reading) = {} /\ F446Connected(Reading)
    <2>1. Reading.state \notin {"BOOT_SAFE", "FAULT"}
      BY <1>2 DEF Reading, AutolandStates
    <2> QED  BY <2>1, SettledSays DEF Leaving
  <1>4. Configuration(Reading) \in {"FLIGHT"}
    <2>1. Reading.state \in {"AUTO_LANDING_READY", "AUTO_LANDING"}
      BY <1>2 DEF Reading, AutolandStates
    <2> QED
      BY <1>3, <2>1, MechanismQuiet DEF configuration_conflict, ACTIVE_TRANSFORM_STATES,
         StateShape, SafetyStates
  <1>5. ~Duty(Reading)
    BY <1>4 DEF Configuration, FirmwareShape, OperatorShape, F446State, Duty, Shape,
       expected_state_for, Reading
  <1>6. motor' = motor
    BY <1>2, <1>5 DEF Stopped
  <1> QED  BY <1>2, <1>6, AbortSettled

LEMMA HandersSettled == Leaving /\ Handers => Settled(Reading)'
  <1> SUFFICES ASSUME Leaving, Handers PROVE Settled(Reading)'
    OBVIOUS
  <1>1. PICK r : r = Reading'
    OBVIOUS
  <1>2. mode' # mode /\ mode' # "FAULT"
    BY DEF Leaving
  <1>3. ~Release
    <2>1. Release => Authority' = "REACQUIRING"
      BY DEF Release, Authority
    <2> QED  BY <2>1 DEF Leaving, KnownGap
  <1>4. CASE ConfirmLock
    <2> DEFINE s == [Reading EXCEPT !.vouched = TRUE]
    <2>1. /\ mode = "GO2_JOINT_LOCK_WAIT" /\ can_enter_flight_ready(s)
          /\ GuardPermits(s, "FLIGHT_READY") /\ mode' = "FLIGHT_READY" /\ vouched' = TRUE
          /\ UNCHANGED <<config, vehicle, motor, legs, owner, guided, confirmed>>
      BY <1>2, <1>4 DEF ConfirmLock, Condemned, Enter
    <2>2. /\ s.state = mode /\ s.bad = bad /\ s.air = air /\ s.auth = Authority
          /\ s.lowLevel = (config = "lowcmd") /\ s.legs = legs /\ s.motor = motor
          /\ s.vouched = TRUE /\ s.confirmed = confirmed.shape
      BY DEF Reading
    <2>3. f446_overcurrent(s) <=> f446_overcurrent(Reading)
      BY DEF f446_overcurrent, FirmwareShape, F446State, Faulted, Reading
    <2> HIDE DEF s
    <2>4. mode' = "FLIGHT_READY" /\ confirmed' = confirmed
      BY <2>1
    <2>5. Alike(s, r) /\ Authority' = Authority
      BY <1>1, <2>1, <2>2, <2>4, AlikeAfter DEF vehicle, Authority
    <2>6. Entering(s, r)
      BY <1>1, <2>1, <2>2, <2>4, <2>5, NextReading
         DEF Entering, Leaving, KnownGap, TypeOK, GuidedInv
    <2>7. ~f446_overcurrent(s) /\ Fresh(s, "f446")
      BY <2>1, <2>2, <2>3, SettledLocks, ReadingsSeen DEF Fresh, Sees
    <2>8. Go2Stationary(s)
      <3>1. ~OwnershipPending(s)
        BY <2>1, <2>2 DEF GuardPermits, OwnershipPending, SafetyStates,
           LowCmdOwnershipAllowedStates, FlightGuard, RequireJointLock, Leaving, OwnerInv,
           Authority
      <3> QED  BY <2>1, <3>1 DEF can_enter_flight_ready
    <2>9. Settled(r)
      BY <2>1, <2>4, <2>6, <2>7, <2>8, ToReady
    <2> QED  BY <1>1, <2>9, PrimeMoves
  <1>5. CASE Acquire \/ Authorize \/ Revoke
    BY <1>2, <1>5 DEF Acquire, Authorize, Revoke
  <1> QED  BY <1>3, <1>4, <1>5 DEF Handers

(* No step of the vehicle changes the state; every other one is covered.   *)
LEMMA StepSettled ==
    TypeOK /\ OwnerInv /\ GuidedInv /\ EntryInv /\ [Next]_vars => [EntersSettled]_vars
  <1> SUFFICES ASSUME TypeOK, OwnerInv, GuidedInv, EntryInv, [Next]_vars,
                      mode' # mode, mode' # "FAULT", Settled(Reading), ~KnownGap
               PROVE  Settled(Reading)'
    BY DEF EntersSettled
  <1>1. Leaving
    BY StepGuided DEF Leaving
  <1>2. ~Vehicle /\ ~UNCHANGED vars
    BY DEF Vehicle, Breaks, Mends, Flies, Flicks, Phone, Returns, Stalls, vars
  <1> QED
    BY <1>1, <1>2, TickSettled, AskersSettled, GuidesSettled, MoversSettled,
       StoppersSettled, HandersSettled, CommandKinds DEF Next

(* Whatever fails, no step enters a state whose guard allows it and whose  *)
(* first tick condemns it on the same devices, but for the two known gaps: *)
(* the guards and the monitor encode the same conditions.                  *)
THEOREM GuardsAgree == Spec => NoFalseAlarm
  <1> DEFINE Inv == TypeOK /\ OwnerInv /\ GuidedInv /\ EntryInv
  <1>1. Init => Inv
    BY InitTyped, InitOwner, InitEntry
  <1>2. Inv /\ [Next]_vars => Inv'
    BY StepTyped, StepOwner, StepGuided, StepEntry
  <1>3. Inv /\ [Next]_vars => [EntersSettled]_vars
    BY StepSettled
  <1> QED  BY <1>1, <1>2, <1>3, PTL DEF Spec, NoFalseAlarm
=============================================================================
