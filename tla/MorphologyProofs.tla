-------------------------- MODULE MorphologyProofs --------------------------
(***************************************************************************)
(* What holds of the morphology commands and of the F446 link for any set  *)
(* of coroutines and any length of the line, with the poll, cancellations, *)
(* corrupted lines and a pulled cable: the shape the manager believes in   *)
(* is the shape there is.  The invariant is built in layers, each kept by  *)
(* every step given those before it.                                       *)
(***************************************************************************)
EXTENDS Morphology, TLAPS

(* The coroutines are different ones, and none is the free lock.           *)
LEMMA Distinct ==
    /\ Shell \in Task /\ ShellStop \in Task /\ TickStop \in Task /\ Poll \in Task
    /\ Shell \in Mover /\ Shell \notin Stopper /\ Shell # Poll
    /\ ShellStop \in Stopper /\ TickStop \in Stopper /\ Poll \notin Stopper
    /\ Poll \notin Mover /\ ShellStop \notin Mover /\ TickStop \notin Mover
    /\ Shell # Free /\ TickStop # Free /\ Free \notin Task
    /\ Shell # TickStop /\ Shell # ShellStop /\ ShellStop # TickStop
  BY LinkAssumption, FreeAssumption, MorphologyAssumption DEF Task

-----------------------------------------------------------------------------
(* The firmware. *)

LEMMA HandleType ==
    ASSUME fw \in Reading, NEW heard PROVE Handle(fw, heard) \in Reading
  BY DEF Handle, Reading, Start, Rest, Seeking, Direction, FwState

(* Every answer says in which state the line has left the firmware.        *)
LEMMA AnswerType ==
    ASSUME fw \in Reading, NEW heard
    PROVE  IF heard = "junk" THEN Answer(fw, heard) = <<>> /\ Handle(fw, heard) = fw
           ELSE \E r \in Reply : /\ Answer(fw, heard) = <<r>>
                                 /\ r.state = Handle(fw, heard).state
<1>1. CASE heard = "junk"
  BY <1>1 DEF Answer, Handle
<1>2. CASE heard # "junk"
  <2> DEFINE of == IF heard = "status" THEN [full |-> TRUE, state |-> fw.state, on |-> fw.on]
                   ELSE IF heard = "stop" THEN [full |-> TRUE, state |-> "IDLE", on |-> FALSE]
                   ELSE [full |-> FALSE, state |-> Handle(fw, heard).state, on |-> FALSE]
  <2>1. Handle(fw, heard) \in Reading
    BY HandleType
  <2>2. of \in Reply
    BY <2>1 DEF Reply, Reading, FwState
  <2>3. Answer(fw, heard) = <<of>>
    BY <1>2 DEF Answer, Full, Started, Rest
  <2>4. of.state = Handle(fw, heard).state
    BY DEF Handle, Rest
  <2> QED BY <1>2, <2>2, <2>3, <2>4
<1> QED BY <1>1, <1>2

LEMMA FullType ==
    ASSUME NEW r \in Reading
    PROVE  \E n \in Reply : Full(r) = <<n>> /\ n.state = r.state
<1> DEFINE n == [full |-> TRUE, state |-> r.state, on |-> r.on]
<1>1. n \in Reply
  BY DEF Reading, Reply
<1>2. Full(r) = <<n>> /\ n.state = r.state
  BY DEF Full
<1> QED BY <1>1, <1>2

-----------------------------------------------------------------------------
(* The queue of replies. *)

LEMMA Longer ==
    ASSUME NEW s \in Seq(Reply), NEW r \in Reply
    PROVE  /\ s \o <<r>> \in Seq(Reply) /\ Len(s \o <<r>>) = Len(s) + 1
           /\ (s \o <<r>>)[Len(s) + 1] = r /\ s \o <<r>> # <<>>
           /\ \A i \in 1..Len(s) : (s \o <<r>>)[i] = s[i]
  OBVIOUS

LEMMA Shorter ==
    ASSUME NEW s \in Seq(Reply), s # <<>>
    PROVE  /\ Head(s) \in Reply /\ Head(s) = s[1]
           /\ Tail(s) \in Seq(Reply) /\ Len(Tail(s)) = Len(s) - 1 /\ Len(s) \in Nat \ {0}
           /\ \A i \in 1..Len(Tail(s)) : Tail(s)[i] = s[i + 1]
<1>1. Len(s) \in Nat \ {0}
  OBVIOUS
<1>2. Head(s) = s[1]
  OBVIOUS
<1>3. Head(s) \in Reply
  BY <1>1, <1>2
<1>4. Tail(s) \in Seq(Reply) /\ Len(Tail(s)) = Len(s) - 1
  OBVIOUS
<1>5. \A i \in 1..Len(Tail(s)) : Tail(s)[i] = s[i + 1]
  BY <1>1
<1> QED BY <1>1, <1>2, <1>3, <1>4, <1>5

LEMMA Empty ==
    ASSUME NEW s \in Seq(Reply) PROVE (s = <<>>) = (Len(s) = 0)
  OBVIOUS

-----------------------------------------------------------------------------
(* The types, and which coroutine runs which stages. *)

StagesOf(t) ==
    CASE t = Poll -> {"idle", "lock", "polling", "dead"}
      [] t \in Stopper -> {"idle", "halt", "haltcheck"}
      [] t = Shell -> Stage \ {"polling", "dead"}
      [] OTHER -> {"idle"}

At(t) ==
    /\ stage[t] \in StagesOf(t)
    /\ io[t] # "ready" => stage[t] \in QueryStage \cup WriteStage
    /\ io[t] = "answer" => stage[t] \in QueryStage
    /\ t \in Mover \ {Shell} => result[t] = "none"

HostTypes ==
    /\ connected \in BOOLEAN
    /\ writer \in Task \cup {Free} /\ holder \in Task \cup {Free}
    /\ stage \in [Task -> Stage]
    /\ io \in [Task -> {"ready", "queued", "bytes", "delay", "answer"}]
    /\ fresh \in [Task -> BOOLEAN]
    /\ goal \in [Mover -> Direction]
    /\ result \in [Task -> Outcome]

WireTypes ==
    /\ fw \in Reading /\ parsed \in Reading
    /\ position \in Direction \cup {"between"}
    /\ rx \in Buffer /\ link \in BOOLEAN
    /\ uplink \in Seq(Reply) /\ Len(uplink) <= MaxUplink

ManagerTypes ==
    /\ mode \in SystemState /\ stopping \in SystemState
    /\ machine \in [by : {Free, Shell, TickStop}, to : SystemState, written : BOOLEAN]
    /\ hazard \in BOOLEAN
    /\ shellPc \in {"ready", "prechecking", "activating", "moving", "returning",
                    "cleanup", "stopped", "closing", "closed", "leaving", "exited"}
    /\ command \in DOMAIN Route
    /\ tickPc \in {"ready", "stopping", "faulting"}
    /\ operation \in {Free, Shell, TickStop}

(* Only the shell moves; a move that has the port has the lock.            *)
Coroutines ==
    /\ \A t \in Task : At(t)
    /\ stage[Shell] \notin {"idle", "lock"} => holder = Shell

LEMMA TypesSplit == TypeOK <=> WireTypes /\ HostTypes /\ ManagerTypes
  BY DEF TypeOK, LinkTypeOK, WireTypes, HostTypes, ManagerTypes

SameStage(u) == stage'[u] = stage[u] /\ io'[u] = io[u] /\ fresh'[u] = fresh[u]
Same(u) == SameStage(u) /\ result'[u] = result[u]

StageTypes ==
    /\ stage \in [Task -> Stage] /\ fresh \in [Task -> BOOLEAN]
    /\ io \in [Task -> {"ready", "queued", "bytes", "delay", "answer"}]

(* A coroutine enters a stage, or leaves its operation.                    *)
LEMMA Entered ==
    ASSUME HostTypes, NEW t \in Task, NEW s \in Stage, Enter(t, s)
    PROVE  /\ StageTypes' /\ stage'[t] = s /\ io'[t] = "ready" /\ fresh'[t] = FALSE
           /\ \A u \in Task \ {t} : SameStage(u)
  BY DEF HostTypes, Enter, StageTypes, SameStage

LEMMA Left ==
    ASSUME HostTypes, NEW t \in Task, NEW o \in Outcome, Leave(t, o)
    PROVE  /\ StageTypes' /\ result' \in [Task -> Outcome]
           /\ writer' \in Task \cup {Free} /\ holder' \in Task \cup {Free}
           /\ stage'[t] = (IF t = Poll /\ o = "error" THEN "dead" ELSE "idle")
           /\ io'[t] = "ready" /\ fresh'[t] = FALSE
           /\ result'[t] = (IF t = Poll THEN "none" ELSE o)
           /\ holder # t => holder' = holder
           /\ \A u \in Task \ {t} : Same(u)
<1> DEFINE s == IF t = Poll /\ o = "error" THEN "dead" ELSE "idle"
<1>1. s \in Stage
  BY DEF Stage
<1>2. Enter(t, s)
  BY DEF Leave
<1>3. /\ StageTypes' /\ stage'[t] = s /\ io'[t] = "ready" /\ fresh'[t] = FALSE
      /\ \A u \in Task \ {t} : SameStage(u)
  BY <1>1, <1>2, Entered
<1>4. result' \in [Task -> Outcome] /\ result'[t] = (IF t = Poll THEN "none" ELSE o)
      /\ \A u \in Task \ {t} : result'[u] = result[u]
  BY DEF Leave, HostTypes, Outcome
<1>5. writer' \in Task \cup {Free} /\ holder' \in Task \cup {Free}
      /\ (holder # t => holder' = holder)
  BY DEF Leave, HostTypes
<1> QED BY <1>3, <1>4, <1>5 DEF Same

(* Who does not act stays where it is.                                     *)
LEMMA Others ==
    ASSUME Coroutines, NEW t \in Task, \A u \in Task \ {t} : Same(u), At(t)',
           t = Shell => stage'[Shell] \in {"idle", "lock"} \/ holder' = Shell,
           t # Shell /\ holder = Shell => holder' = Shell
    PROVE  Coroutines'
<1>1. \A u \in Task : At(u)'
  BY DEF Coroutines, Same, SameStage, At, StagesOf
<1>2. stage'[Shell] \notin {"idle", "lock"} => holder' = Shell
  <2>1. CASE t = Shell
    BY <2>1
  <2>2. CASE t # Shell
    BY <2>2, Distinct DEF Coroutines, Same, SameStage
  <2> QED BY <2>1, <2>2
<1> QED BY <1>1, <1>2 DEF Coroutines

WireKept == UNCHANGED <<fw, position, rx, link, uplink, parsed>>

(* A step of coroutine t alone.                                            *)
Turn(t) ==
    /\ WireKept /\ HostTypes' /\ Coroutines'
    /\ \A u \in Task \ {t} : Same(u)

LEMMA LeavesWell ==
    ASSUME HostTypes, Coroutines, NEW t \in Task, NEW o \in Outcome, Leave(t, o),
           connected' \in BOOLEAN, UNCHANGED goal,
           o # "none" => t \notin Mover \ {Shell}
    PROVE  /\ HostTypes' /\ Coroutines' /\ \A u \in Task \ {t} : Same(u)
           /\ t # Poll => stage'[t] = "idle" /\ result'[t] = o
<1>1. HostTypes'
  BY Left DEF HostTypes, StageTypes
<1>2. At(t)'
  BY Left, Distinct DEF At, StagesOf, Stage, QueryStage, WriteStage
<1>3. Coroutines'
  BY <1>2, Left, Others, Distinct
<1> QED BY <1>1, <1>3, Left

LEMMA EntersWell ==
    ASSUME HostTypes, Coroutines, NEW t \in Task, NEW s \in StagesOf(t), Enter(t, s),
           connected' \in BOOLEAN, UNCHANGED <<holder, writer, result>>,
           goal' \in [Mover -> Direction],
           t = Shell => s \in {"idle", "lock"} \/ stage[Shell] \notin {"idle", "lock"}
    PROVE  /\ HostTypes' /\ Coroutines' /\ \A u \in Task \ {t} : Same(u)
           /\ stage'[t] = s /\ io'[t] = "ready" /\ fresh'[t] = FALSE
<1>0. s \in Stage
  BY DEF StagesOf, Stage, QueryStage, WriteStage
<1>1. HostTypes'
  BY <1>0, Entered DEF HostTypes, StageTypes
<1>2. \A u \in Task \ {t} : Same(u)
  BY <1>0, Entered DEF Same, HostTypes
<1>3. At(t)'
  BY <1>0, Entered, Distinct DEF At, Coroutines, HostTypes
<1>4. Coroutines'
  BY <1>0, <1>2, <1>3, Entered, Others, Distinct DEF Coroutines, Same, SameStage
<1> QED BY <1>0, <1>1, <1>2, <1>4, Entered

(* A mover that has a stage is the shell.                                  *)
LEMMA Acting ==
    ASSUME Coroutines, NEW t \in Task, stage[t] # "idle"
    PROVE  t \notin Mover \ {Shell}
  BY Distinct, LinkAssumption DEF Coroutines, At, StagesOf

LEMMA ClaimTurn ==
    ASSUME HostTypes, Coroutines, NEW t \in Task, Claim(t) PROVE Turn(t)
<1>1. stage[t] # "idle" /\ stage[t] \in QueryStage \cup WriteStage /\ io[t] = "ready"
  BY DEF Claim, Writing, QueryStage, WriteStage
<1>2. CASE ~connected /\ Raise(t)
  <2>1. connected' \in BOOLEAN /\ UNCHANGED goal
    BY <1>2 DEF Claim, Raise, HostTypes
  <2>2. \E o \in Outcome : Leave(t, o)
    BY <1>2 DEF Raise, Outcome
  <2> QED BY <1>1, <2>1, <2>2, LeavesWell, Acting DEF Turn, Claim, WireKept, fwVars
<1>3. CASE connected /\ (IF writer = Free THEN writer' = t /\ io' = [io EXCEPT ![t] = "bytes"]
                         ELSE io' = [io EXCEPT ![t] = "queued"] /\ UNCHANGED writer)
           /\ UNCHANGED <<connected, stage, fresh, result, holder>>
  <2>1. HostTypes'
    BY <1>3 DEF HostTypes, Claim
  <2>2. \A u \in Task \ {t} : Same(u)
    BY <1>3 DEF HostTypes, Same, SameStage
  <2>3. At(t)'
    BY <1>1, <1>3 DEF HostTypes, At, Coroutines
  <2>4. Coroutines'
    BY <1>3, <2>2, <2>3, Others DEF Coroutines
  <2> QED BY <2>1, <2>2, <2>4 DEF Turn, Claim, WireKept, fwVars
<1> QED BY <1>2, <1>3 DEF Claim

LEMMA TakeTurn ==
    ASSUME HostTypes, Coroutines, NEW t \in Task, Take(t) PROVE Turn(t)
<1>1. HostTypes'
  BY DEF HostTypes, Take
<1>2. \A u \in Task \ {t} : Same(u)
  BY DEF HostTypes, Same, SameStage, Take
<1>3. At(t)'
  BY DEF HostTypes, At, Coroutines, Take
<1>4. Coroutines'
  BY <1>2, <1>3, Others DEF Coroutines, Take
<1> QED BY <1>1, <1>2, <1>4 DEF Turn, Take, WireKept, fwVars

LEMMA LockTurn ==
    ASSUME HostTypes, Coroutines, NEW t \in Task, Lock(t) PROVE Turn(t)
<1> DEFINE s == IF t = Poll THEN "polling" ELSE "initial"
<1>1. t \notin Mover \ {Shell} /\ s \in StagesOf(t)
  BY Acting, Distinct DEF Coroutines, At, StagesOf, Lock, Stage, QueryStage, Task
<1>2. s \in Stage /\ Enter(t, s)
  BY DEF Lock, Stage, QueryStage
<1>3. HostTypes'
  BY <1>2, Entered DEF HostTypes, StageTypes, Lock
<1>4. \A u \in Task \ {t} : Same(u)
  BY <1>2, Entered DEF Same, Lock
<1>5. At(t)'
  BY <1>1, <1>2, Entered DEF At
<1>6. Coroutines'
  BY <1>4, <1>5, Others, Distinct DEF Lock
<1> QED BY <1>3, <1>4, <1>6 DEF Turn, Lock, WireKept, fwVars

LEMMA SettleTurn ==
    ASSUME HostTypes, Coroutines, NEW t \in Task, Settle(t) PROVE Turn(t)
<1>1. stage[t] \in QueryStage \cup WriteStage
  BY DEF Settle, Coroutines, At
<1>2. CASE stage[t] \in WriteStage
  <2>1. After[stage[t]] \in StagesOf(t) /\ Enter(t, After[stage[t]])
    BY <1>2, Distinct DEF Settle, Coroutines, At, StagesOf, After, WriteStage, Stage, QueryStage
  <2>2. After[stage[t]] \in Stage
    BY <1>2 DEF After, WriteStage, Stage, QueryStage
  <2>3. HostTypes'
    BY <2>1, <2>2, Entered DEF HostTypes, StageTypes, Settle
  <2>4. \A u \in Task \ {t} : Same(u)
    BY <2>1, <2>2, Entered DEF Same, Settle
  <2>5. At(t)'
    BY <2>1, <2>2, Entered DEF At, Coroutines, Settle
  <2>6. Coroutines'
    BY <1>2, <2>4, <2>5, Others DEF Coroutines, Settle, WriteStage
  <2> QED BY <2>3, <2>4, <2>6 DEF Turn, Settle, WireKept, fwVars
<1>3. CASE stage[t] \notin WriteStage
  <2>1. HostTypes'
    BY <1>3 DEF HostTypes, Settle
  <2>2. \A u \in Task \ {t} : Same(u)
    BY <1>3 DEF HostTypes, Same, SameStage, Settle
  <2>3. At(t)'
    BY <1>1, <1>3 DEF HostTypes, At, Coroutines, Settle
  <2>4. Coroutines'
    BY <1>3, <2>2, <2>3, Others DEF Coroutines, Settle
  <2> QED BY <2>1, <2>2, <2>4 DEF Turn, Settle, WireKept, fwVars
<1> QED BY <1>2, <1>3

LEMMA AnsweredTurn ==
    ASSUME HostTypes, Coroutines, NEW t \in Task, Answered(t) PROVE Turn(t)
<1>1. stage[t] \in QueryStage /\ t \notin Mover \ {Shell} /\ stage[t] \in StagesOf(t)
  BY Acting DEF Answered, Coroutines, At, QueryStage
<1>2. CASE \E o \in Outcome : Leave(t, o)
  <2>1. connected' \in BOOLEAN /\ UNCHANGED goal
    BY DEF Answered, HostTypes
  <2> QED BY <1>1, <1>2, <2>1, LeavesWell DEF Turn, Answered, WireKept, fwVars
<1>3. CASE stage[t] \in {"initial", "final"} /\ Stay(t)
           /\ (Enter(t, "command") \/ Enter(t, "halt"))
  <2>1. t = Shell
    BY <1>1, <1>3, Distinct DEF StagesOf
  <2>2. "command" \in StagesOf(t) /\ "halt" \in StagesOf(t)
    BY <2>1, Distinct DEF StagesOf, Stage, WriteStage
  <2>3. connected' \in BOOLEAN /\ goal' \in [Mover -> Direction]
        /\ UNCHANGED <<holder, writer, result>>
    BY <1>3 DEF Answered, HostTypes, Stay
  <2> QED BY <1>3, <2>1, <2>2, <2>3, EntersWell DEF Turn, Answered, WireKept, fwVars
<1>4. (\E o \in Outcome : Leave(t, o))
      \/ (stage[t] \in {"initial", "final"} /\ Stay(t) /\ (Enter(t, "command") \/ Enter(t, "halt")))
  BY DEF Answered, Decide, Outcome, StopOutcome
<1> QED BY <1>2, <1>3, <1>4

LEMMA UnansweredTurn ==
    ASSUME HostTypes, Coroutines, NEW t \in Task, Unanswered(t) PROVE Turn(t)
<1>1. stage[t] \in QueryStage /\ t \notin Mover \ {Shell}
  BY Acting DEF Unanswered, Coroutines, At, QueryStage
<1>2. connected' \in BOOLEAN /\ UNCHANGED goal
  BY DEF Unanswered, Raise, HostTypes
<1>3. \E o \in Outcome : Leave(t, o)
  BY DEF Unanswered, Raise, Outcome
<1> QED BY <1>1, <1>2, <1>3, LeavesWell DEF Turn, Unanswered, WireKept, fwVars

LEMMA WatchTurn ==
    ASSUME HostTypes, Coroutines, NEW t \in Task,
           Watch(t) \/ Nudge(t) \/ Deadline(t)
    PROVE  Turn(t)
<1>1. t = Shell /\ stage[t] = "watch"
  BY Distinct DEF Watch, Nudge, Deadline, Waits, Coroutines, At, StagesOf, Stage
<1>2. {"final", "nudge", "halt"} \subseteq StagesOf(t)
  BY <1>1, Distinct DEF StagesOf, Stage, WriteStage, QueryStage
<1>3. connected' \in BOOLEAN /\ UNCHANGED goal /\ goal' \in [Mover -> Direction]
  BY DEF Watch, Nudge, Deadline, HostTypes
<1>4. CASE Leave(t, "failed")
  BY <1>1, <1>3, <1>4, LeavesWell DEF Turn, Watch, Nudge, Deadline, WireKept, fwVars, Outcome
<1>5. CASE Stay(t) /\ \E s \in {"final", "nudge", "halt"} : Enter(t, s)
  BY <1>1, <1>2, <1>3, <1>5, EntersWell
    DEF Turn, Watch, Nudge, Deadline, WireKept, fwVars, Stay
<1> QED BY <1>4, <1>5 DEF Watch, Nudge, Deadline

LEMMA StopTurn ==
    ASSUME HostTypes, Coroutines, NEW t \in Stopper, Stop(t) PROVE Turn(t)
<1>1. t \in Task /\ t # Shell /\ t \notin Mover /\ t # Poll /\ "halt" \in StagesOf(t)
  BY Distinct, LinkAssumption DEF Task, StagesOf
<1>2. connected' \in BOOLEAN /\ UNCHANGED goal
  BY DEF Stop, HostTypes
<1>3. CASE \E o \in Outcome : Leave(t, o)
  BY <1>1, <1>2, <1>3, LeavesWell DEF Turn, Stop, WireKept, fwVars
<1>4. CASE /\ Enter(t, "halt") /\ result' = [result EXCEPT ![t] = "none"]
           /\ UNCHANGED <<holder, writer>>
  <2>1. "halt" \in Stage
    BY DEF Stage, WriteStage
  <2>2. HostTypes'
    BY <1>1, <1>2, <1>4, <2>1, Entered DEF HostTypes, StageTypes, Outcome
  <2>3. \A u \in Task \ {t} : Same(u)
    BY <1>1, <1>4, <2>1, Entered DEF HostTypes, Same
  <2>4. At(t)'
    BY <1>1, <1>4, <2>1, Entered DEF At
  <2>5. Coroutines'
    BY <1>1, <1>4, <2>3, <2>4, Others
  <2> QED BY <2>2, <2>3, <2>5 DEF Turn, Stop, WireKept, fwVars
<1> QED BY <1>3, <1>4 DEF Stop, Outcome

LEMMA BeginTurn ==
    ASSUME HostTypes, Coroutines, NEW d \in Direction, Begin(Shell, d)
    PROVE  Turn(Shell) /\ goal'[Shell] = d /\ stage'[Shell] = "lock" /\ result'[Shell] = "none"
<1>1. "lock" \in Stage /\ Shell \in Task /\ Shell \in Mover /\ Shell # Poll /\ Enter(Shell, "lock")
  BY Distinct DEF Stage, Begin
<1>2. HostTypes' /\ goal'[Shell] = d /\ result'[Shell] = "none"
  BY <1>1, Entered DEF HostTypes, StageTypes, Begin, Outcome, hostVars
<1>3. \A u \in Task \ {Shell} : Same(u)
  BY <1>1, Entered DEF HostTypes, Same, Begin
<1>4. At(Shell)'
  BY <1>1, Entered, Distinct DEF At, StagesOf, Stage
<1>5. Coroutines'
  BY <1>1, <1>3, <1>4, Entered, Others
<1> QED BY <1>1, <1>2, <1>3, <1>5, Entered DEF Turn, Begin, WireKept, fwVars, hostVars

LEMMA PollTurn ==
    ASSUME HostTypes, Coroutines, PollDue PROVE Turn(Poll)
<1>1. Poll \in Task /\ "lock" \in StagesOf(Poll) /\ Poll # Shell
  BY Distinct DEF StagesOf
<1>2. connected' \in BOOLEAN /\ goal' \in [Mover -> Direction]
      /\ UNCHANGED <<holder, writer, result>>
  BY DEF PollDue, HostTypes, hostVars
<1> QED BY <1>1, <1>2, EntersWell DEF Turn, PollDue, WireKept, fwVars, hostVars

-----------------------------------------------------------------------------
(* The steps that touch the wire. *)

Hears(t) == {Heard(rx, Line(t))} \cup (IF Garbles THEN {"junk"} ELSE {})

(* What a line that is heard as h does.                                    *)
Does(h) ==
    /\ fw' = Handle(fw, h) /\ rx' = "none"
    /\ position' = IF fw'.on THEN "between" ELSE position
    /\ IF connected /\ h # "junk"
       THEN \E r \in Reply : uplink' = uplink \o <<r>> /\ r.state = fw'.state
       ELSE UNCHANGED uplink

SendKept(t) ==
    /\ io' = [io EXCEPT ![t] = "delay"]
    /\ UNCHANGED <<link, hostVars, stage, fresh, goal, result>>

LEMMA Nothing == ASSUME uplink \in Seq(Reply) PROVE uplink \o <<>> = uplink
  OBVIOUS

LEMMA SendDoes ==
    ASSUME WireTypes, NEW t \in Task, Send(t)
    PROVE  /\ IF link THEN \E h \in Hears(t) : Does(h)
              ELSE UNCHANGED <<fw, uplink, position, rx>>
           /\ SendKept(t) /\ (connected => Len(uplink) + 2 <= MaxUplink)
<1>1. PICK garbled \in BOOLEAN :
        /\ garbled => Garbles
        /\ IF link
           THEN LET heard == IF garbled THEN "junk" ELSE Heard(rx, Line(t))
                IN  /\ fw' = Handle(fw, heard)
                    /\ Prints(Answer(fw, heard))
                    /\ position' = IF fw'.on THEN "between" ELSE position
                    /\ rx' = "none"
           ELSE UNCHANGED <<fw, uplink, position, rx>>
  BY DEF Send
<1> DEFINE h == IF garbled THEN "junk" ELSE Heard(rx, Line(t))
<1>2. h \in Hears(t)
  BY <1>1 DEF Hears
<1>3. ASSUME link PROVE Does(h)
  <2>1. CASE h = "junk"
    BY <1>1, <1>3, <2>1, AnswerType, Nothing DEF Does, Prints, WireTypes
  <2>2. CASE h # "junk"
    <3>1. PICK r \in Reply : Answer(fw, h) = <<r>> /\ r.state = Handle(fw, h).state
      BY <2>2, AnswerType DEF WireTypes
    <3>2. Prints(<<r>>)
      BY <1>1, <1>3, <3>1
    <3> QED BY <1>1, <1>3, <2>2, <3>1, <3>2 DEF Does, Prints
  <2> QED BY <2>1, <2>2
<1>4. SendKept(t) /\ (connected => Len(uplink) + 2 <= MaxUplink)
  BY DEF Send, SendKept, Room
<1> QED BY <1>1, <1>2, <1>3, <1>4

LEMMA SendTypes ==
    ASSUME WireTypes, HostTypes, Coroutines, NEW t \in Task, Send(t)
    PROVE  WireTypes' /\ HostTypes' /\ Coroutines' /\ io[t] = "bytes"
<1>1. io[t] = "bytes" /\ SendKept(t)
  BY SendDoes DEF Send
<1>2. HostTypes'
  BY <1>1 DEF HostTypes, SendKept, hostVars
<1>3. Coroutines'
  <2>1. \A u \in Task \ {t} : Same(u)
    BY <1>1 DEF HostTypes, Same, SameStage, SendKept
  <2>2. At(t)'
    BY <1>1 DEF HostTypes, At, Coroutines, SendKept
  <2> QED BY <1>1, <2>1, <2>2, Others DEF Coroutines, SendKept, hostVars
<1>4. CASE ~link
  BY <1>1, <1>2, <1>3, <1>4, SendDoes DEF WireTypes, SendKept, hostVars
<1>5. CASE link
  <2>1. PICK h \in Hears(t) : Does(h)
    BY <1>5, SendDoes
  <2>2. fw' \in Reading /\ position' \in Direction \cup {"between"} /\ rx' \in Buffer
    BY <2>1, HandleType DEF Does, WireTypes, Buffer
  <2>3. link' \in BOOLEAN /\ parsed' \in Reading
    BY <1>1 DEF WireTypes, SendKept, hostVars
  <2>4. uplink' \in Seq(Reply) /\ Len(uplink') <= MaxUplink
    <3>1. CASE connected /\ h # "junk"
      <4>1. PICK r \in Reply : uplink' = uplink \o <<r>>
        BY <2>1, <3>1 DEF Does
      <4>2. uplink' \in Seq(Reply) /\ Len(uplink') = Len(uplink) + 1 /\ Len(uplink) \in Nat
        BY <4>1, Longer DEF WireTypes
      <4> QED BY <3>1, <4>2, SendDoes, LinkAssumption
    <3>2. CASE ~(connected /\ h # "junk")
      BY <2>1, <3>2 DEF Does, WireTypes
    <3> QED BY <3>1, <3>2
  <2> QED BY <1>1, <1>2, <1>3, <2>2, <2>3, <2>4 DEF WireTypes
<1> QED BY <1>4, <1>5

LEMMA ReadTypes ==
    ASSUME WireTypes, HostTypes, Coroutines, Read
    PROVE  /\ WireTypes' /\ HostTypes' /\ Coroutines'
           /\ parsed'.state = uplink[1].state /\ uplink' = Tail(uplink) /\ uplink # <<>>
           /\ connected /\ fresh'[Shell] = (stage[Shell] \in QueryStage)
           /\ UNCHANGED <<fw, position, rx, link, connected, writer, holder, stage, io, goal, result>>
<1>1. /\ connected /\ uplink # <<>> /\ uplink' = Tail(uplink) /\ parsed' = Parse(Head(uplink))
      /\ fresh' = [t \in Task |-> stage[t] \in QueryStage]
      /\ UNCHANGED <<fw, position, rx, link, connected, writer, holder, stage, io, goal, result>>
  BY DEF Read, fwVars
<1>2. Head(uplink) \in Reply /\ Head(uplink) = uplink[1]
      /\ Tail(uplink) \in Seq(Reply) /\ Len(Tail(uplink)) = Len(uplink) - 1
      /\ Len(uplink) \in Nat
  BY <1>1, Shorter DEF WireTypes
<1>3. parsed' \in Reading /\ parsed'.state = uplink[1].state
  BY <1>1, <1>2 DEF Parse, WireTypes, Reading, Reply
<1>4. WireTypes'
  <2>1. Len(uplink') <= MaxUplink
    BY <1>1, <1>2, LinkAssumption DEF WireTypes
  <2> QED BY <1>1, <1>2, <1>3, <2>1 DEF WireTypes
<1>5. HostTypes'
  BY <1>1 DEF HostTypes
<1>6. Coroutines'
  BY <1>1 DEF Coroutines, At
<1>7. fresh'[Shell] = (stage[Shell] \in QueryStage)
  BY <1>1, Distinct
<1> QED BY <1>1, <1>3, <1>4, <1>5, <1>6, <1>7

(* The firmware ends a move by itself, and says so.                        *)
Ends ==
    /\ Seeks(fw) /\ ~Seeks(fw') /\ ~fw'.on
    /\ IF connected THEN \E r \in Reply : uplink' = uplink \o <<r>> /\ r.state = fw'.state
       ELSE UNCHANGED uplink
    /\ UNCHANGED <<rx, link, hostVars, taskVars>>

LEMMA EndsTypes ==
    ASSUME WireTypes, HostTypes, Coroutines, LimitFound \/ MoveTimeout
    PROVE  /\ WireTypes' /\ HostTypes' /\ Coroutines' /\ Ends
           /\ \/ LimitFound /\ position' = LimitOf(fw) /\ fw' = AtLimit(fw) /\ fw.on
              \/ fw'.state = "FAULT" /\ UNCHANGED position
<1>1. /\ fw' \in Reading /\ Seeks(fw) /\ ~Seeks(fw') /\ ~fw'.on
      /\ position' \in Direction \cup {"between"}
  <2>1. CASE LimitFound
    BY <2>1 DEF LimitFound, AtLimit, Rest, LimitOf, Reached, Seeks, Reading, FwState, Direction
  <2>2. CASE MoveTimeout
    BY <2>2 DEF MoveTimeout, TimedOut, Rest, Seeks, Reading, FwState, WireTypes
  <2> QED BY <2>1, <2>2
<1>2. /\ Prints(Full(fw')) /\ (connected => Len(uplink) + 1 <= MaxUplink)
      /\ UNCHANGED <<rx, link, hostVars, taskVars>>
  BY DEF LimitFound, MoveTimeout, Room
<1>3. PICK r \in Reply : Full(fw') = <<r>> /\ r.state = fw'.state
  BY <1>1, FullType
<1>4. IF connected THEN uplink' = uplink \o <<r>> ELSE uplink' = uplink
  BY <1>2, <1>3 DEF Prints
<1>5. uplink' \in Seq(Reply) /\ Len(uplink') <= MaxUplink
  BY <1>2, <1>4, Longer, LinkAssumption DEF WireTypes
<1>6. WireTypes'
  BY <1>1, <1>2, <1>5 DEF WireTypes, hostVars
<1>7. HostTypes' /\ Coroutines'
  BY <1>2 DEF HostTypes, Coroutines, At, hostVars, taskVars
<1>8. \/ LimitFound /\ position' = LimitOf(fw) /\ fw' = AtLimit(fw) /\ fw.on
      \/ fw'.state = "FAULT" /\ UNCHANGED position
  BY DEF LimitFound, MoveTimeout, TimedOut, Rest
<1> QED BY <1>1, <1>2, <1>3, <1>4, <1>6, <1>7, <1>8 DEF Ends

LEMMA DropTypes ==
    ASSUME WireTypes, HostTypes, Coroutines, PortGone
    PROVE  WireTypes' /\ HostTypes' /\ Coroutines' /\ ~connected' /\ UNCHANGED <<goal, stage>>
<1>1. uplink' = <<>> /\ Len(<<>>) = 0 /\ <<>> \in Seq(Reply)
  BY DEF PortGone
<1>2. WireTypes'
  <2>1. uplink' \in Seq(Reply) /\ Len(uplink') <= MaxUplink
    BY <1>1, LinkAssumption
  <2> QED BY <2>1 DEF WireTypes, PortGone
<1> QED BY <1>2 DEF HostTypes, Coroutines, At, PortGone, taskVars

LEMMA PrefixType == ASSUME NEW c PROVE PrefixOf(c) \subseteq Buffer
  BY DEF PrefixOf, Buffer

(* The shell's move or its stop is cancelled: the line that was being      *)
(* written leaves its bytes.                                               *)
LEMMA CancelTypes ==
    ASSUME WireTypes, HostTypes, Coroutines, NEW c \in {Shell, ShellStop}, Cancel(c)
    PROVE  /\ WireTypes' /\ HostTypes' /\ Coroutines' /\ Cancels /\ stage[c] # "idle"
           /\ stage'[c] = "idle" /\ result'[c] = "cancelled"
           /\ rx' = rx \/ (rx = "none" /\ rx' \in PrefixOf(Line(c)))
           /\ UNCHANGED <<fw, position, link, uplink, parsed, connected, goal>>
           /\ \A u \in Task \ {c} : Same(u)
<1>1. /\ Leave(c, "cancelled") /\ Cancels /\ stage[c] # "idle"
      /\ UNCHANGED <<fw, position, link, uplink, parsed, connected, goal>>
  BY DEF Cancel
<1>2. rx' = rx \/ (rx = "none" /\ rx' \in PrefixOf(Line(c)))
  BY DEF Cancel
<1>3. rx' \in Buffer
  BY <1>2, PrefixType DEF WireTypes
<1>4. connected' \in BOOLEAN /\ "cancelled" \in Outcome
  BY <1>1 DEF HostTypes, Outcome
<1>5. c \in Task /\ c # Poll /\ c \notin Mover \ {Shell}
  BY Distinct
<1>6. /\ HostTypes' /\ Coroutines' /\ \A u \in Task \ {c} : Same(u)
      /\ stage'[c] = "idle" /\ result'[c] = "cancelled"
  BY <1>1, <1>4, <1>5, LeavesWell
<1> QED BY <1>1, <1>2, <1>3, <1>6 DEF WireTypes

-----------------------------------------------------------------------------
(* All steps of the link keep the types and the stages. *)

LinkInv == WireTypes /\ HostTypes /\ Coroutines

Turns(t) ==
    \/ Lock(t) \/ Take(t) \/ Claim(t) \/ Settle(t) \/ Answered(t) \/ Unanswered(t)
    \/ Watch(t) \/ Nudge(t) \/ Deadline(t)

LEMMA LinkStepKinds ==
    ASSUME LinkStep
    PROVE  \/ \E t \in Task : Turns(t) \/ Send(t)
           \/ PollDue \/ Read \/ LimitFound \/ MoveTimeout \/ LinkDrop
  BY DEF LinkStep, HostStep, Resume, Turns

LEMMA TurnsTurn ==
    ASSUME HostTypes, Coroutines, NEW t \in Task, Turns(t)
    PROVE  Turn(t) /\ stage[t] # "idle" /\ UNCHANGED goal
<1>1. Turn(t)
  BY LockTurn, TakeTurn, ClaimTurn, SettleTurn, AnsweredTurn, UnansweredTurn, WatchTurn DEF Turns
<1>2. stage[t] # "idle"
  BY DEF Turns, Coroutines, At, Lock, Take, Claim, Writing, Settle, Answered, Unanswered, Watch,
         Nudge, Deadline, Waits, QueryStage, WriteStage
<1>3. UNCHANGED goal
  BY DEF Turns, Lock, Take, Claim, Settle, Answered, Unanswered, Watch, Nudge, Deadline
<1> QED BY <1>1, <1>2, <1>3

LEMMA WireTurn == ASSUME WireTypes, WireKept PROVE WireTypes'
  BY DEF WireTypes, WireKept

LEMMA LinkKept ==
    ASSUME LinkInv, LinkStep
    PROVE  LinkInv' /\ UNCHANGED goal /\ (stage[Shell] = "idle" => stage'[Shell] = "idle")
<1>0. WireTypes /\ HostTypes /\ Coroutines
  BY DEF LinkInv
<1>1. CASE \E t \in Task : Turns(t)
  <2>1. PICK t \in Task : Turns(t)
    BY <1>1
  <2>2. Turn(t) /\ stage[t] # "idle" /\ UNCHANGED goal
    BY <1>0, <2>1, TurnsTurn
  <2>3. stage[Shell] = "idle" => stage'[Shell] = "idle"
    BY <2>2, Distinct DEF Turn, Same, SameStage
  <2> QED BY <1>0, <2>2, <2>3, WireTurn DEF Turn, LinkInv
<1>2. CASE \E t \in Task : Send(t)
  BY <1>0, <1>2, SendTypes, SendDoes DEF LinkInv, SendKept
<1>3. CASE PollDue
  <2>1. Turn(Poll) /\ UNCHANGED goal
    BY <1>0, <1>3, PollTurn DEF PollDue
  <2> QED BY <1>0, <2>1, Distinct, WireTurn DEF LinkInv, Turn, Same, SameStage
<1>4. CASE Read
  BY <1>0, <1>4, ReadTypes DEF LinkInv
<1>5. CASE LimitFound \/ MoveTimeout
  BY <1>0, <1>5, EndsTypes DEF LinkInv, Ends, taskVars
<1>6. CASE LinkDrop
  BY <1>0, <1>6, DropTypes DEF LinkInv, LinkDrop
<1> QED BY <1>1, <1>2, <1>3, <1>4, <1>5, <1>6, LinkStepKinds

LEMMA StopKept ==
    ASSUME LinkInv, NEW s \in {ShellStop, TickStop}, Stop(s)
    PROVE  LinkInv' /\ Turn(s) /\ UNCHANGED goal /\ Same(Shell)
<1>1. s \in Stopper /\ s # Shell /\ Shell \in Task
  BY Distinct
<1>2. Turn(s) /\ UNCHANGED goal
  BY <1>1, StopTurn DEF LinkInv, Stop
<1> QED BY <1>1, <1>2, WireTurn DEF LinkInv, Turn

LEMMA BeginKept ==
    ASSUME LinkInv, NEW d \in Direction, Begin(Shell, d)
    PROVE  /\ LinkInv' /\ Turn(Shell) /\ goal'[Shell] = d
           /\ stage'[Shell] = "lock" /\ result'[Shell] = "none"
  BY BeginTurn, WireTurn DEF LinkInv, Turn

LEMMA LinkStutters == ASSUME LinkInv, UNCHANGED linkVars PROVE LinkInv'
  BY DEF LinkInv, linkVars, fwVars, hostVars, taskVars, WireTypes, HostTypes, Coroutines, At

-----------------------------------------------------------------------------
(* What the manager does to the link. *)

Manages ==
    \/ WriteState \/ FinishTransition
    \/ SecondStage \/ MoveReturns \/ Return \/ ShellFaults \/ SupervisedFault \/ Disconnect
    \/ TickFaults \/ TickReturns
    \/ \E c \in Commands : StartTransform(c)
    \/ ClearFault \/ AdoptBoot \/ HazardAppears \/ HazardClears

LEMMA ManagesLink == Manages => UNCHANGED linkVars
  BY DEF Manages, WriteState, FinishTransition, SecondStage, MoveReturns, Return, ShellFaults,
         SupervisedFault, StopEnds, Disconnect, TickFaults, TickReturns, StartTransform, ClearFault,
         AdoptBoot, HazardAppears, HazardClears

LEMMA NextKinds ==
    ASSUME [Next]_vars
    PROVE  \/ LinkStep /\ UNCHANGED managerVars
           \/ Manages \/ CallMove \/ Cleanup \/ StopSupervised \/ TickStops \/ Terminate
           \/ DisconnectFails \/ UNCHANGED vars
  BY DEF Next, MachineStep, ShellStep, TickStep, Manages

LEMMA Headings ==
    \A c \in DOMAIN Route :
        /\ Route[c].heading \in Direction /\ Route[c].active \in Moves
        /\ c \in {"flight", "walk", "home"} /\ Route[c].arrive \in SystemState
        /\ c # "home" => Precheck[c] \in SystemState
        /\ Route[c].from \in SystemState
  BY DEF Route, Direction, Moves, Precheck, SystemState

LEMMA LinkStays ==
    ASSUME LinkInv, ManagerTypes, [Next]_vars PROVE LinkInv'
<1>1. CASE LinkStep
  BY <1>1, LinkKept
<1>2. CASE UNCHANGED linkVars
  BY <1>2, LinkStutters
<1>3. CASE CallMove
  BY <1>3, BeginKept, Headings DEF CallMove, ManagerTypes
<1>4. CASE Cleanup \/ StopSupervised \/ TickStops
  BY <1>4, StopKept DEF Cleanup, StopSupervised, TickStops
<1>5. CASE Terminate
  BY <1>2, <1>5, CancelTypes DEF Terminate, LinkInv
<1>6. CASE DisconnectFails
  BY <1>6, DropTypes DEF DisconnectFails, LinkInv
<1> QED BY <1>1, <1>2, <1>3, <1>4, <1>5, <1>6, NextKinds, ManagesLink DEF vars

-----------------------------------------------------------------------------
(* The manager: who asked for the pending transition, and where a command  *)
(* stands.                                                                 *)

Resting == {"BOOT_SAFE"} \cup Walks \cup Flies

Modes == Moves \cup Resting \cup {"FAULT"}

Commits ==
    /\ mode \in Modes /\ machine.to \in Modes
    /\ machine.by = TickStop => machine.to = "FAULT"
    /\ machine.by = Free => ~machine.written
    /\ machine.written => mode = machine.to

(* The command's transition to s is pending, or was: the tick may have     *)
(* faulted since.                                                          *)
Stands(s) == IF machine.by = Shell THEN machine.to = s ELSE mode \in {s, "FAULT"}

Commanding ==
    /\ shellPc \in {"ready", "cleanup", "stopped"} => machine.by # Shell
    /\ shellPc = "moving" =>
          /\ machine.by # Shell /\ mode \in {Route[command].active, "FAULT"}
          /\ goal[Shell] = Route[command].heading
    /\ shellPc = "activating" => Stands(Route[command].active)
    /\ shellPc = "prechecking" => command # "home" /\ Stands(Precheck[command])
    /\ stage[Shell] # "idle" => shellPc = "moving"

ManagerInv == ManagerTypes /\ Commits /\ Commanding

LEMMA RoutesKnown ==
    \A c \in DOMAIN Route : /\ Route[c].active \in Modes /\ Route[c].arrive \in Modes
                            /\ Route[c].from \in Modes
                            /\ c # "home" => Precheck[c] \in Modes
  BY DEF Route, Modes, Moves, Resting, Walks, Flies, Precheck

LEMMA ModesAreStates == Modes \subseteq SystemState
  BY DEF Modes, Moves, Resting, Walks, Flies, SystemState

LEMMA Asked ==
    ASSUME ManagerInv, NEW c \in {Shell, TickStop}, NEW to \in Modes, Ask(c, to)
    PROVE  /\ machine' \in [by : {Free, Shell, TickStop}, to : SystemState, written : BOOLEAN]
           /\ machine'.by = c /\ machine'.to = to /\ ~machine'.written
  BY ModesAreStates DEF Ask

(* A fault is asked for, or nothing is.                                    *)
LEMMA Faulting ==
    ASSUME ManagerInv, NEW c \in {Shell, TickStop}, Faults(c)
    PROVE  \/ UNCHANGED machine
           \/ /\ machine.by = Free /\ machine'.by = c /\ machine'.to = "FAULT" /\ ~machine'.written
              /\ machine' \in [by : {Free, Shell, TickStop}, to : SystemState, written : BOOLEAN]
  BY Asked DEF Faults, Modes

LEMMA ShellAsked ==
    ASSUME ManagerInv, NEW to \in Modes, NEW pc, ShellAsks(to, parsed, pc)
    PROVE  \/ shellPc' = "cleanup" /\ UNCHANGED machine
           \/ /\ shellPc' = pc /\ Granted(to, parsed) /\ machine.by = Free
              /\ machine'.by = Shell /\ machine'.to = to /\ ~machine'.written
              /\ machine' \in [by : {Free, Shell, TickStop}, to : SystemState, written : BOOLEAN]
<1>1. CASE Granted(to, parsed)
  BY <1>1, Asked DEF ShellAsks, ShellGoes, Granted
<1>2. CASE ~Granted(to, parsed)
  BY <1>2 DEF ShellAsks, ShellGoes
<1> QED BY <1>1, <1>2

LEMMA ManagerLink ==
    ASSUME LinkInv, ManagerInv, UNCHANGED managerVars, UNCHANGED goal,
           stage[Shell] = "idle" => stage'[Shell] = "idle"
    PROVE  ManagerInv'
  BY DEF ManagerInv, ManagerTypes, Commits, Commanding, Stands, managerVars

LEMMA ManagerCommits ==
    ASSUME ManagerInv, WriteState \/ FinishTransition PROVE ManagerInv'
<1>1. UNCHANGED <<goal, stage, hazard, shellPc, command, tickPc, operation, stopping>>
  BY DEF WriteState, FinishTransition, linkVars, taskVars
<1>2. CASE WriteState
  <2>1. /\ machine.by # Free /\ mode' = machine.to /\ machine'.by = machine.by
        /\ machine'.to = machine.to /\ machine'.written
        /\ machine' \in [by : {Free, Shell, TickStop}, to : SystemState, written : BOOLEAN]
    BY <1>2 DEF WriteState, ManagerInv, ManagerTypes
  <2>2. ManagerTypes'
    BY <1>1, <2>1 DEF ManagerInv, ManagerTypes
  <2>3. Commits'
    BY <1>1, <2>1 DEF ManagerInv, Commits
  <2>4. Commanding'
    BY <1>1, <2>1 DEF ManagerInv, Commanding, Commits, ManagerTypes, Stands
  <2> QED BY <2>2, <2>3, <2>4 DEF ManagerInv
<1>3. CASE FinishTransition
  <2>1. /\ mode' = mode /\ machine.written /\ machine'.by = Free
        /\ machine'.to = "FAULT" /\ ~machine'.written
        /\ machine' \in [by : {Free, Shell, TickStop}, to : SystemState, written : BOOLEAN]
    BY <1>3, ModesAreStates DEF FinishTransition, NoTransition, Modes
  <2>2. ManagerTypes'
    BY <1>1, <2>1 DEF ManagerInv, ManagerTypes
  <2>3. Commits'
    BY <1>1, <2>1, Distinct DEF ManagerInv, Commits, Modes
  <2>4. Commanding'
    BY <1>1, <2>1, Distinct DEF ManagerInv, Commanding, Commits, Stands
  <2> QED BY <2>2, <2>3, <2>4 DEF ManagerInv
<1> QED BY <1>2, <1>3

(* A command of the shell asks, fails or goes on.                          *)
LEMMA ManagerShell ==
    ASSUME ManagerInv,
           \/ SecondStage \/ MoveReturns \/ Return \/ ShellFaults \/ SupervisedFault
           \/ Disconnect \/ DisconnectFails \/ ClearFault \/ AdoptBoot \/ \E c \in Commands : StartTransform(c)
    PROVE  ManagerInv'
<1>0. UNCHANGED <<goal, stage, mode, hazard, tickPc>>
  BY DEF SecondStage, MoveReturns, Return, ShellFaults, SupervisedFault, StopEnds, Disconnect,
         DisconnectFails, PortGone, ClearFault, AdoptBoot, StartTransform, linkVars, taskVars
<1>1. UNCHANGED <<goal, stage, mode, hazard, tickPc>> /\ stopping' \in SystemState
  <2>1. UNCHANGED stopping \/ stopping' = "BOOT_SAFE"
    BY DEF SecondStage, MoveReturns, Return, ShellFaults, SupervisedFault, StopEnds, Disconnect,
           DisconnectFails, ClearFault, AdoptBoot, StartTransform
  <2> QED BY <1>0, <2>1 DEF ManagerInv, ManagerTypes, SystemState
<1>2. CASE \E c \in Commands : StartTransform(c)
  <2>1. PICK c \in Commands : StartTransform(c)
    BY <1>2
  <2>2. c \in DOMAIN Route /\ command' = c /\ shellPc = "ready" /\ UNCHANGED operation
    BY <2>1, MorphologyAssumption DEF StartTransform, Route
  <2>3. \/ c = "home" /\ ShellAsks("HOMING_TO_WALK", parsed, "activating")
        \/ c # "home" /\ ShellAsks(Precheck[c], parsed, "prechecking")
    BY <2>1 DEF StartTransform
  <2>4. CASE shellPc' = "cleanup" /\ UNCHANGED machine
    BY <1>1, <2>2, <2>4 DEF ManagerInv, ManagerTypes, Commits, Commanding, Stands
  <2>5. CASE /\ machine'.by = Shell /\ ~machine'.written
             /\ machine' \in [by : {Free, Shell, TickStop}, to : SystemState, written : BOOLEAN]
             /\ \/ c = "home" /\ shellPc' = "activating" /\ machine'.to = Route[c].active
                \/ c # "home" /\ shellPc' = "prechecking" /\ machine'.to = Precheck[c]
    <3>1. ManagerTypes'
      BY <1>1, <2>2, <2>5 DEF ManagerInv, ManagerTypes
    <3>2. Commits'
      BY <1>1, <2>2, <2>5, RoutesKnown, Distinct DEF ManagerInv, Commits
    <3>3. Commanding'
      BY <1>1, <2>2, <2>5 DEF ManagerInv, Commanding, Stands
    <3> QED BY <3>1, <3>2, <3>3 DEF ManagerInv
  <2>6. "HOMING_TO_WALK" \in Modes /\ Route["home"].active = "HOMING_TO_WALK"
    BY DEF Route, Modes, Moves
  <2>7. c # "home" => Precheck[c] \in Modes
    BY <2>2, RoutesKnown
  <2> QED BY <2>2, <2>3, <2>4, <2>5, <2>6, <2>7, ShellAsked
<1>3. CASE SecondStage
  <2>1. shellPc = "prechecking" /\ Idle(Shell) /\ UNCHANGED <<operation, command>>
        /\ command \in DOMAIN Route /\ stage[Shell] = "idle" /\ machine.by # Shell
    BY <1>3 DEF SecondStage, ManagerInv, ManagerTypes, Commanding, Idle
  <2>2. CASE shellPc' = "cleanup" /\ UNCHANGED machine
    BY <1>1, <2>1, <2>2 DEF ManagerInv, ManagerTypes, Commits, Commanding, Stands
  <2>3. CASE /\ machine'.by = Shell /\ ~machine'.written
             /\ machine' \in [by : {Free, Shell, TickStop}, to : SystemState, written : BOOLEAN]
             /\ \/ shellPc' = "returning" /\ machine'.to = Route[command].from
                \/ shellPc' = "activating" /\ machine'.to = Route[command].active
    <3>1. ManagerTypes'
      BY <1>1, <2>1, <2>3 DEF ManagerInv, ManagerTypes
    <3>2. Commits'
      BY <1>1, <2>1, <2>3, RoutesKnown, Distinct DEF ManagerInv, Commits
    <3>3. Commanding'
      BY <1>1, <2>1, <2>3 DEF ManagerInv, Commanding, Stands
    <3> QED BY <3>1, <3>2, <3>3 DEF ManagerInv
  <2> QED BY <1>3, <2>1, <2>2, <2>3, RoutesKnown, ShellAsked DEF SecondStage, ShellGoes
<1>4. CASE MoveReturns
  <2>1. shellPc = "moving" /\ UNCHANGED <<operation, command>>
        /\ command \in DOMAIN Route /\ stage[Shell] = "idle" /\ machine.by # Shell
    BY <1>4 DEF MoveReturns, ManagerInv, ManagerTypes, Commanding
  <2>2. CASE shellPc' = "cleanup" /\ UNCHANGED machine
    BY <1>1, <2>1, <2>2 DEF ManagerInv, ManagerTypes, Commits, Commanding, Stands
  <2>3. CASE /\ machine'.by = Shell /\ ~machine'.written
             /\ machine' \in [by : {Free, Shell, TickStop}, to : SystemState, written : BOOLEAN]
             /\ shellPc' = "returning" /\ machine'.to = Route[command].arrive
    <3>1. ManagerTypes'
      BY <1>1, <2>1, <2>3 DEF ManagerInv, ManagerTypes
    <3>2. Commits'
      BY <1>1, <2>1, <2>3, RoutesKnown, Distinct DEF ManagerInv, Commits
    <3>3. Commanding'
      BY <1>1, <2>1, <2>3 DEF ManagerInv, Commanding, Stands
    <3> QED BY <3>1, <3>2, <3>3 DEF ManagerInv
  <2> QED BY <1>4, <2>1, <2>2, <2>3, RoutesKnown, ShellAsked DEF MoveReturns, ShellGoes
<1>5. CASE Return
  BY <1>1, <1>5 DEF Return, ShellGoes, Idle, ManagerInv, ManagerTypes, Commits, Commanding,
                    Stands
<1>6. CASE ShellFaults \/ SupervisedFault \/ Disconnect \/ DisconnectFails
  <2>1. /\ UNCHANGED command /\ operation' \in {Free, Shell, TickStop}
        /\ shellPc \in {"stopped", "closed", "leaving"}
        /\ shellPc' \in {"returning", "leaving", "closing", "exited"}
    BY <1>6 DEF ShellFaults, SupervisedFault, StopEnds, Disconnect, DisconnectFails,
                ShellGoes, ManagerInv, ManagerTypes
  <2>2. \/ UNCHANGED machine
        \/ /\ machine.by = Free /\ machine'.by = Shell /\ machine'.to \in {"FAULT", "BOOT_SAFE"}
           /\ ~machine'.written
           /\ machine' \in [by : {Free, Shell, TickStop}, to : SystemState, written : BOOLEAN]
    <3>1. CASE ShellFaults \/ SupervisedFault \/ DisconnectFails
      BY <3>1, Faulting DEF ShellFaults, SupervisedFault, DisconnectFails
    <3>2. CASE Disconnect
      <4>1. UNCHANGED machine \/ (machine.by = Free /\ Ask(Shell, "BOOT_SAFE"))
        BY <3>2 DEF Disconnect, Granted
      <4>2. "BOOT_SAFE" \in Modes
        BY DEF Modes, Resting
      <4> QED BY <4>1, <4>2, Asked
    <3> QED BY <1>6, <3>1, <3>2
  <2>3. stage[Shell] = "idle"
    BY <2>1 DEF ManagerInv, Commanding
  <2>4. ManagerTypes'
    BY <1>1, <2>1, <2>2 DEF ManagerInv, ManagerTypes
  <2>5. Commits'
    BY <1>1, <2>2, Distinct DEF ManagerInv, Commits, Modes, Resting
  <2>6. Commanding'
    BY <1>1, <2>1, <2>3 DEF ManagerInv, Commanding
  <2> QED BY <2>4, <2>5, <2>6 DEF ManagerInv
<1>7. CASE ClearFault \/ AdoptBoot
  <2>1. /\ UNCHANGED <<command, operation>> /\ shellPc = "ready"
        /\ \/ shellPc' = "stopped" /\ UNCHANGED machine
           \/ /\ shellPc' = "returning" /\ ~machine'.written /\ machine'.by = Shell
              /\ machine'.to \in Modes
              /\ machine' \in [by : {Free, Shell, TickStop}, to : SystemState, written : BOOLEAN]
    <3>1. CASE ClearFault
      BY <1>7, <3>1, Asked DEF ClearFault, ShellGoes, Modes, Resting
    <3>2. CASE AdoptBoot
      <4>1. PICK to \in {"WALK", "FLIGHT_READY", "GO2_JOINT_LOCK_WAIT"} :
              IF Granted(to, parsed) THEN Ask(Shell, to) /\ ShellGoes("returning")
              ELSE ShellGoes("stopped") /\ UNCHANGED machine
        BY <3>2 DEF AdoptBoot
      <4>2. to \in Modes
        BY DEF Modes, Resting, Walks, Flies
      <4> QED BY <3>2, <4>1, <4>2, Asked DEF AdoptBoot, ShellGoes
    <3> QED BY <1>7, <3>1, <3>2
  <2>2. stage[Shell] = "idle" /\ machine.by # Shell
    BY <2>1 DEF ManagerInv, Commanding
  <2>3. ManagerTypes'
    BY <1>1, <2>1 DEF ManagerInv, ManagerTypes
  <2>4. Commits'
    BY <1>1, <2>1, Distinct DEF ManagerInv, Commits
  <2>5. Commanding'
    BY <1>1, <2>1, <2>2 DEF ManagerInv, Commanding
  <2> QED BY <2>3, <2>4, <2>5 DEF ManagerInv
<1> QED BY <1>2, <1>3, <1>4, <1>5, <1>6, <1>7

LEMMA ManagerTick ==
    ASSUME ManagerInv, TickFaults \/ TickReturns \/ HazardAppears \/ HazardClears
    PROVE  ManagerInv'
<1>1. UNCHANGED <<goal, stage, mode, shellPc, command, stopping>>
  BY DEF TickFaults, TickReturns, HazardAppears, HazardClears, linkVars, taskVars
<1>2. /\ tickPc' \in {"ready", "stopping", "faulting"} /\ operation' \in {Free, Shell, TickStop}
      /\ hazard' \in BOOLEAN
  BY DEF TickFaults, TickReturns, HazardAppears, HazardClears, ManagerInv, ManagerTypes
<1>3. \/ UNCHANGED machine
      \/ /\ machine.by = Free /\ machine'.by = TickStop /\ machine'.to = "FAULT" /\ ~machine'.written
         /\ machine' \in [by : {Free, Shell, TickStop}, to : SystemState, written : BOOLEAN]
  BY Faulting DEF TickFaults, TickReturns, HazardAppears, HazardClears
<1>4. ManagerTypes'
  BY <1>1, <1>2, <1>3 DEF ManagerInv, ManagerTypes
<1>5. Commits'
  BY <1>1, <1>3, Distinct DEF ManagerInv, Commits, Modes
<1>6. Commanding'
  BY <1>1, <1>3, Distinct DEF ManagerInv, Commanding, Stands
<1> QED BY <1>4, <1>5, <1>6 DEF ManagerInv

LEMMA ManagerCalls ==
    ASSUME LinkInv, ManagerInv,
           CallMove \/ Cleanup \/ StopSupervised \/ TickStops \/ Terminate
    PROVE  ManagerInv'
<1>1. CASE CallMove
  <2>1. /\ goal'[Shell] = Route[command].heading
        /\ shellPc = "activating" /\ machine.by # Shell /\ shellPc' = "moving"
        /\ UNCHANGED <<mode, machine, hazard, command, tickPc, operation, stopping>>
    BY <1>1, BeginKept, Headings DEF CallMove, ShellGoes, Idle, ManagerInv, ManagerTypes
  <2> QED BY <2>1 DEF ManagerInv, ManagerTypes, Commits, Commanding, Stands
<1>2. CASE Cleanup \/ StopSupervised \/ TickStops
  <2>1. UNCHANGED goal /\ UNCHANGED <<mode, machine, hazard, command>> /\ stage'[Shell] = stage[Shell]
    BY <1>2, StopKept DEF Cleanup, StopSupervised, TickStops, Same, SameStage
  <2>2. /\ operation' \in {Free, Shell, TickStop} /\ tickPc' \in {"ready", "stopping", "faulting"}
        /\ stopping' \in SystemState
        /\ \/ UNCHANGED shellPc
           \/ shellPc = "cleanup" /\ shellPc' = "stopped"
           \/ shellPc = "closing" /\ shellPc' = "closed"
    BY <1>2 DEF Cleanup, StopSupervised, TickStops, ShellGoes, ManagerInv, ManagerTypes
  <2>3. ManagerTypes'
    BY <2>1, <2>2 DEF ManagerInv, ManagerTypes
  <2>4. Commits'
    BY <2>1, <2>2 DEF ManagerInv, Commits
  <2>5. Commanding'
    BY <2>1, <2>2 DEF ManagerInv, Commanding, Stands
  <2> QED BY <2>3, <2>4, <2>5 DEF ManagerInv
<1>3. CASE Terminate
  <2>1. /\ machine.by # Shell /\ shellPc' = "closing"
        /\ UNCHANGED <<mode, machine, hazard, command, tickPc, operation, stopping>>
    BY <1>3 DEF Terminate, Idle, ShellGoes
  <2>2. stage'[Shell] = "idle"
    <3>1. CASE shellPc = "stopped" /\ Cancel(ShellStop)
      <4>1. stage'[Shell] = stage[Shell]
        BY <3>1, CancelTypes, Distinct DEF LinkInv, Same, SameStage
      <4> QED BY <3>1, <4>1 DEF ManagerInv, Commanding
    <3> QED BY <1>3, <3>1, CancelTypes DEF Terminate, LinkInv, linkVars, taskVars
  <2> QED BY <2>1, <2>2 DEF ManagerInv, ManagerTypes, Commits, Commanding
<1> QED BY <1>1, <1>2, <1>3

LEMMA ManagerStays ==
    ASSUME LinkInv, ManagerInv, [Next]_vars PROVE ManagerInv'
<1>1. CASE LinkStep /\ UNCHANGED managerVars
  BY <1>1, LinkKept, ManagerLink
<1>2. CASE Manages
  BY <1>2, ManagerCommits, ManagerShell, ManagerTick DEF Manages
<1>3. CASE UNCHANGED vars
  BY <1>3, ManagerLink DEF vars, linkVars, taskVars
<1> QED BY <1>1, <1>2, <1>3, ManagerCalls, ManagerShell, NextKinds

-----------------------------------------------------------------------------
(* What a step that leaves the wire alone does to the shell's move. *)

Starting == stage[Shell] = "command" /\ io[Shell] = "delay"

(* The move has not started the motor, or has just stopped it.             *)
Unstarted ==
    \/ stage[Shell] \in {"idle", "lock", "initial", "final", "haltcheck"}
    \/ stage[Shell] = "command" /\ io[Shell] # "delay"
    \/ stage[Shell] = "halt" /\ io[Shell] = "delay"

Arrives ==
    /\ fresh[Shell] /\ stage[Shell] \in {"initial", "final"}
    /\ AtGoal(Shell) /\ stage'[Shell] = "idle"

(* A start ends once its reply was parsed; only the reader refreshes a     *)
(* query; only a checked limit is a success; and a move stops watching     *)
(* because of what it was told.                                            *)
Paces ==
    /\ Prompt /\ Starting /\ ~Starting' => (connected => uplink = <<>>)
    /\ fresh'[Shell] => fresh[Shell] /\ stage'[Shell] = stage[Shell]
    /\ result'[Shell] = "ok" => result[Shell] = "ok" \/ Arrives
    /\ Unstarted' /\ ~Unstarted /\ connected' => stage[Shell] = "watch" /\ ~Seeks(parsed)

LEMMA OthersPace ==
    ASSUME HostTypes, Same(Shell) PROVE Paces
  BY DEF Paces, Same, SameStage, Starting, Unstarted

LEMMA ShellLeaves ==
    ASSUME HostTypes, NEW o \in Outcome, Leave(Shell, o)
    PROVE  /\ stage'[Shell] = "idle" /\ io'[Shell] = "ready" /\ fresh'[Shell] = FALSE
           /\ result'[Shell] = o
  BY Left, Distinct

LEMMA ShellEnters ==
    ASSUME HostTypes, NEW s \in Stage, Enter(Shell, s)
    PROVE  stage'[Shell] = s /\ io'[Shell] = "ready" /\ fresh'[Shell] = FALSE
  BY Entered, Distinct

LEMMA GoalSeeksNot ==
    ASSUME HostTypes, GoalReached(Shell) \/ parsed.state = "FAULT" PROVE ~Seeks(parsed)
<1>1. goal[Shell] \in Direction
  BY Distinct DEF HostTypes
<1> QED BY <1>1 DEF GoalReached, Seeks, Reached, Direction

LEMMA ShellPaces ==
    ASSUME HostTypes, Coroutines, Turns(Shell) PROVE Paces
<1>0. /\ "initial" \in Stage /\ "command" \in Stage /\ "halt" \in Stage /\ "final" \in Stage
      /\ "nudge" \in Stage
      /\ "ok" \in Outcome /\ "failed" \in Outcome /\ "error" \in Outcome
  BY DEF Stage, QueryStage, WriteStage, Outcome
<1>1. CASE Lock(Shell)
  <2>1. Enter(Shell, "initial") /\ UNCHANGED result /\ stage[Shell] = "lock"
    BY <1>1, Distinct DEF Lock
  <2> QED BY <1>0, <2>1, ShellEnters DEF Paces, Starting, Unstarted
<1>2. CASE Take(Shell)
  <2>1. /\ stage'[Shell] = stage[Shell] /\ fresh' = fresh /\ result' = result
        /\ io[Shell] = "queued" /\ io'[Shell] = "bytes"
    BY <1>2, Distinct DEF Take, HostTypes
  <2> QED BY <2>1 DEF Paces, Starting, Unstarted
<1>3. CASE Claim(Shell)
  <2>1. io[Shell] = "ready" /\ stage[Shell] \in QueryStage \cup WriteStage
    BY <1>3 DEF Claim, Writing
  <2>2. CASE ~connected /\ Raise(Shell)
    <3>1. Leave(Shell, "failed") \/ Leave(Shell, "error")
      BY <2>2 DEF Raise
    <3>2. fresh'[Shell] = FALSE /\ result'[Shell] # "ok" /\ ~connected'
      BY <1>0, <2>2, <3>1, ShellLeaves DEF Raise
    <3> QED BY <2>1, <3>2 DEF Paces, Starting
  <2>3. CASE /\ connected /\ UNCHANGED <<connected, stage, fresh, result, holder>>
             /\ io'[Shell] \in {"bytes", "queued"}
    BY <2>1, <2>3 DEF Paces, Starting, Unstarted
  <2> QED BY <1>3, <2>2, <2>3, Distinct DEF Claim, HostTypes
<1>4. CASE Settle(Shell)
  <2>1. io[Shell] = "delay" /\ (Prompt /\ connected => uplink = <<>>) /\ UNCHANGED result
    BY <1>4 DEF Settle
  <2>2. CASE stage[Shell] \in WriteStage
    <3>1. After[stage[Shell]] \in Stage /\ Enter(Shell, After[stage[Shell]])
      BY <1>4, <2>2 DEF Settle, After, WriteStage, Stage, QueryStage
    <3>2. stage'[Shell] = After[stage[Shell]] /\ fresh'[Shell] = FALSE
      BY <3>1, ShellEnters
    <3> QED BY <2>1, <2>2, <3>2 DEF Paces, Starting, Unstarted, After, WriteStage
  <2>3. CASE stage[Shell] \notin WriteStage
    <3>1. stage'[Shell] = stage[Shell] /\ fresh' = fresh /\ io'[Shell] = "answer"
      BY <1>4, <2>3, Distinct DEF Settle, HostTypes
    <3> QED BY <2>1, <2>3, <3>1 DEF Paces, Starting, Unstarted, WriteStage
  <2> QED BY <2>2, <2>3
<1>5. CASE Answered(Shell)
  <2>1. io[Shell] = "answer" /\ stage[Shell] \in QueryStage /\ fresh[Shell] /\ Decide(Shell)
        /\ stage[Shell] # "polling"
    BY <1>5, Distinct DEF Answered, Coroutines, At, StagesOf
  <2>2. Unstarted
    BY <2>1 DEF Unstarted, QueryStage
  <2>3. CASE stage[Shell] \in {"initial", "final"} /\ AtGoal(Shell) /\ Leave(Shell, "ok")
    BY <1>0, <2>1, <2>2, <2>3, ShellLeaves DEF Paces, Starting, Arrives
  <2>4. CASE Leave(Shell, "failed")
    BY <1>0, <2>1, <2>2, <2>4, ShellLeaves DEF Paces, Starting
  <2>5. CASE UNCHANGED result /\ (Enter(Shell, "command") \/ Enter(Shell, "halt"))
    BY <1>0, <2>1, <2>2, <2>5, ShellEnters DEF Paces, Starting
  <2> QED BY <2>1, <2>3, <2>4, <2>5, Distinct DEF Decide, StopOutcome, Stay
<1>6. CASE Unanswered(Shell)
  <2>1. io[Shell] = "answer" /\ stage[Shell] \in QueryStage /\ stage[Shell] # "polling"
    BY <1>6, Distinct DEF Unanswered, Coroutines, At, StagesOf
  <2>2. Unstarted /\ ~Starting
    BY <2>1 DEF Unstarted, Starting, QueryStage
  <2>3. Leave(Shell, "failed") \/ Leave(Shell, "error")
    BY <1>6 DEF Unanswered, Raise
  <2> QED BY <1>0, <2>2, <2>3, ShellLeaves DEF Paces
<1>7. CASE Watch(Shell)
  <2>1. stage[Shell] = "watch" /\ UNCHANGED connected
    BY <1>7 DEF Watch
  <2>2. CASE ~connected /\ Leave(Shell, "failed")
    BY <1>0, <2>1, <2>2, ShellLeaves DEF Paces, Starting
  <2>3. CASE parsed.state = "FAULT" /\ Leave(Shell, "failed")
    BY <1>0, <2>1, <2>3, ShellLeaves, GoalSeeksNot DEF Paces, Starting
  <2>4. CASE GoalReached(Shell) /\ Enter(Shell, "final") /\ UNCHANGED result
    BY <1>0, <2>1, <2>4, ShellEnters, GoalSeeksNot DEF Paces, Starting
  <2> QED BY <1>7, <2>2, <2>3, <2>4 DEF Watch, Stay
<1>8. CASE Nudge(Shell) \/ Deadline(Shell)
  <2>1. stage[Shell] = "watch" /\ UNCHANGED result /\ (Enter(Shell, "nudge") \/ Enter(Shell, "halt"))
    BY <1>8 DEF Nudge, Deadline, Waits, Stay
  <2> QED BY <1>0, <2>1, ShellEnters DEF Paces, Starting, Unstarted
<1> QED BY <1>1, <1>2, <1>3, <1>4, <1>5, <1>6, <1>7, <1>8 DEF Turns

-----------------------------------------------------------------------------
(* The steps of the system, as the wire and the shell's move see them. *)

Calm ==
    /\ WireKept /\ (connected' => connected) /\ Paces
    /\ UNCHANGED goal /\ (stage[Shell] = "idle" => stage'[Shell] = "idle")

LEMMA ConnectionOnlyLost ==
    ASSUME HostTypes, NEW t \in Task, Turns(t) PROVE connected' => connected
  BY DEF Turns, Lock, Take, Claim, Raise, Settle, Answered, Unanswered, Watch, Nudge, Deadline,
         HostTypes

LEMMA TurnsCalm ==
    ASSUME LinkInv, NEW t \in Task, Turns(t) PROVE Calm
<1>1. Turn(t) /\ stage[t] # "idle" /\ UNCHANGED goal /\ (connected' => connected)
  BY TurnsTurn, ConnectionOnlyLost DEF LinkInv
<1>2. CASE t = Shell
  <2>1. Paces
    BY <1>2, ShellPaces DEF LinkInv
  <2> QED BY <1>1, <1>2, <2>1 DEF Calm, Turn
<1>3. CASE t # Shell
  <2>1. Same(Shell)
    BY <1>1, <1>3, Distinct DEF Turn
  <2> QED BY <1>1, <2>1, OthersPace DEF Calm, Turn, LinkInv, Same, SameStage
<1> QED BY <1>2, <1>3

LEMMA PollCalm ==
    ASSUME LinkInv, PollDue PROVE Calm
<1>1. Turn(Poll) /\ UNCHANGED <<goal, connected>>
  BY PollTurn DEF LinkInv, PollDue, hostVars
<1>2. Same(Shell)
  BY <1>1, Distinct DEF Turn
<1> QED BY <1>1, <1>2, OthersPace DEF Calm, Turn, LinkInv, Same, SameStage

LEMMA StopCalm ==
    ASSUME LinkInv, NEW s \in {ShellStop, TickStop}, Stop(s) PROVE Calm
<1>1. Turn(s) /\ UNCHANGED <<goal, connected>> /\ Same(Shell)
  BY StopKept DEF Stop
<1> QED BY <1>1, OthersPace DEF Calm, Turn, LinkInv, Same, SameStage

LEMMA StillCalm ==
    ASSUME LinkInv, UNCHANGED linkVars PROVE Calm
<1>1. Same(Shell)
  BY DEF linkVars, taskVars, Same, SameStage
<1> QED BY <1>1, OthersPace
      DEF Calm, WireKept, LinkInv, Same, SameStage, linkVars, fwVars, hostVars, taskVars

LEMMA BeginPaces ==
    ASSUME LinkInv, NEW d \in Direction, Begin(Shell, d)
    PROVE  WireKept /\ UNCHANGED connected /\ Paces /\ stage[Shell] = "idle"
<1>1. stage[Shell] = "idle" /\ Enter(Shell, "lock") /\ "lock" \in Stage /\ WireKept /\ UNCHANGED connected
  BY DEF Begin, Stage, WireKept, fwVars, hostVars
<1>2. fresh'[Shell] = FALSE
  BY <1>1, ShellEnters DEF LinkInv
<1>3. result'[Shell] = "none"
  BY BeginKept
<1> QED BY <1>1, <1>2, <1>3 DEF Paces, Starting, Unstarted

(* The signal cancels the shell's move or its stop. *)
Interrupt(c) == Terminate /\ Cancel(c) /\ (c = Shell <=> shellPc = "moving")

LEMMA StepKinds ==
    ASSUME LinkInv, ManagerInv, [Next]_vars
    PROVE  \/ Calm
           \/ CallMove
           \/ (\E t \in Task : Send(t)) /\ UNCHANGED managerVars
           \/ Read /\ UNCHANGED managerVars
           \/ (LimitFound \/ MoveTimeout) /\ UNCHANGED managerVars
           \/ PortGone
           \/ \E c \in {Shell, ShellStop} : Interrupt(c)
<1>1. CASE LinkStep /\ UNCHANGED managerVars
  BY <1>1, LinkStepKinds, TurnsCalm, PollCalm DEF LinkDrop
<1>2. CASE UNCHANGED linkVars
  BY <1>2, StillCalm
<1>3. CASE Cleanup \/ StopSupervised \/ TickStops
  BY <1>3, StopCalm DEF Cleanup, StopSupervised, TickStops
<1>4. CASE Terminate
  BY <1>2, <1>4, Distinct DEF Terminate, Interrupt
<1> QED BY <1>1, <1>2, <1>3, <1>4, NextKinds, ManagesLink DEF vars, DisconnectFails

-----------------------------------------------------------------------------
(* What is left in the firmware's buffer, what the firmware reads, and how *)
(* far the host lags behind it. *)

NoMove == {"none", "junk"}

FwInv ==
    /\ fw.on => Seeks(fw)
    /\ \A d \in Direction : fw.state = Reached[d] => position = d

WireInv == FwInv /\ MirrorLags

LEMMA FwStays ==
    ASSUME LinkInv, ManagerInv, FwInv, [Next]_vars PROVE FwInv'
<1>1. CASE UNCHANGED <<fw, position>>
  BY <1>1 DEF FwInv, Seeks
<1>2. ASSUME NEW t \in Task, Send(t), link PROVE FwInv'
  <2>1. PICK h \in Hears(t) : Does(h)
    BY <1>2, SendDoes DEF LinkInv
  <2>2. fw' = fw \/ fw' = Rest("IDLE") \/ Seeks(fw')
    BY <2>1 DEF Does, Handle, Start, Rest, Seeking, Seeks, Direction
  <2>3. position' = IF fw'.on THEN "between" ELSE position
    BY <2>1 DEF Does
  <2> QED BY <2>2, <2>3 DEF FwInv, Seeks, Rest, Reached, Direction
<1>3. CASE LimitFound \/ MoveTimeout
  <2>1. /\ ~fw'.on
        /\ \/ position' = LimitOf(fw) /\ fw' = AtLimit(fw)
           \/ fw'.state = "FAULT"
    BY <1>3, EndsTypes DEF LinkInv, Ends
  <2> QED BY <2>1 DEF FwInv, Seeks, AtLimit, Rest, LimitOf, Reached, Direction
<1>4. ASSUME NEW t \in Task, Send(t), ~link PROVE UNCHANGED <<fw, position>>
  BY <1>4, SendDoes DEF LinkInv
<1>5. CASE CallMove
  BY <1>1, <1>5 DEF CallMove, Begin, fwVars
<1> QED BY <1>1, <1>2, <1>3, <1>4, <1>5, StepKinds
      DEF Calm, WireKept, Read, PortGone, Interrupt, Cancel, fwVars

LEMMA LastOf ==
    ASSUME NEW s \in Seq(Reply), s # <<>>, Tail(s) # <<>>
    PROVE  Tail(s)[Len(Tail(s))] = s[Len(s)]
<1>1. Len(Tail(s)) = Len(s) - 1 /\ Tail(s) \in Seq(Reply) /\ Len(s) \in Nat
      /\ \A i \in 1..Len(Tail(s)) : Tail(s)[i] = s[i + 1]
  BY Shorter
<1>2. Len(Tail(s)) \in Nat /\ Len(Tail(s)) # 0
  BY <1>1, Empty
<1> QED BY <1>1, <1>2

LEMMA OneOf ==
    ASSUME NEW s \in Seq(Reply), s # <<>>, Tail(s) = <<>> PROVE Len(s) = 1
<1>1. Len(Tail(s)) = Len(s) - 1 /\ Len(Tail(s)) = 0 /\ Len(s) \in Nat
  BY Shorter
<1> QED BY <1>1

LEMMA MirrorStays ==
    ASSUME LinkInv, ManagerInv, MirrorLags, [Next]_vars PROVE MirrorLags'
<1>0. WireTypes /\ Len(uplink) \in Nat
  BY DEF LinkInv, WireTypes
<1>1. CASE UNCHANGED <<fw, link, uplink, parsed>> /\ (connected' => connected)
  BY <1>1 DEF MirrorLags
<1>2. CASE /\ UNCHANGED <<link, parsed, connected>>
           /\ connected => \E r \in Reply : uplink' = uplink \o <<r>> /\ r.state = fw'.state
  <2>1. CASE ~connected
    BY <1>2, <2>1 DEF MirrorLags
  <2>2. CASE connected
    <3>1. PICK r \in Reply : uplink' = uplink \o <<r>> /\ r.state = fw'.state
      BY <1>2, <2>2
    <3>2. uplink' # <<>> /\ Len(uplink') = Len(uplink) + 1 /\ uplink'[Len(uplink) + 1] = r
      BY <1>0, <3>1, Longer DEF WireTypes
    <3>3. uplink'[Len(uplink')] = r
      BY <3>2
    <3> QED BY <1>2, <2>2, <3>1, <3>2, <3>3 DEF MirrorLags
  <2> QED BY <2>1, <2>2
<1>3. ASSUME NEW t \in Task, Send(t) PROVE MirrorLags'
  <2>1. UNCHANGED <<link, parsed, connected>>
    BY <1>0, <1>3, SendDoes DEF SendKept, hostVars
  <2>2. CASE ~link
    BY <1>0, <1>1, <1>3, <2>1, <2>2, SendDoes
  <2>3. CASE link
    <3>1. PICK h \in Hears(t) : Does(h)
      BY <1>0, <1>3, <2>3, SendDoes
    <3>2. CASE h = "junk"
      <4>1. fw' = fw /\ uplink' = uplink
        BY <1>0, <3>1, <3>2, AnswerType DEF Does, WireTypes
      <4> QED BY <1>1, <2>1, <4>1
    <3>3. CASE h # "junk"
      BY <1>2, <2>1, <3>1, <3>3 DEF Does
    <3> QED BY <3>2, <3>3
  <2> QED BY <2>2, <2>3
<1>4. CASE LimitFound \/ MoveTimeout
  BY <1>2, <1>4, EndsTypes DEF LinkInv, Ends, hostVars
<1>5. CASE Read
  <2>1. /\ parsed'.state = uplink[1].state /\ uplink' = Tail(uplink) /\ uplink # <<>>
        /\ UNCHANGED <<fw, link, connected>>
    BY <1>5, ReadTypes DEF LinkInv
  <2>2. CASE Tail(uplink) = <<>>
    <3>1. Len(uplink) = 1
      BY <1>0, <2>1, <2>2, OneOf DEF WireTypes
    <3> QED BY <2>1, <2>2, <3>1 DEF MirrorLags
  <2>3. CASE Tail(uplink) # <<>>
    <3>1. uplink'[Len(uplink')] = uplink[Len(uplink)]
      BY <1>0, <2>1, <2>3, LastOf DEF WireTypes
    <3> QED BY <2>1, <2>3, <3>1 DEF MirrorLags
  <2> QED BY <2>2, <2>3
<1>6. CASE PortGone
  BY <1>6 DEF PortGone, MirrorLags
<1>7. CASE CallMove
  BY <1>1, <1>7 DEF CallMove, Begin, fwVars, hostVars
<1>8. ASSUME NEW c \in {Shell, ShellStop}, Interrupt(c) PROVE MirrorLags'
  BY <1>1, <1>8, CancelTypes DEF LinkInv, Interrupt
<1> QED BY <1>1, <1>3, <1>4, <1>5, <1>6, <1>7, <1>8, StepKinds DEF Calm, WireKept

-----------------------------------------------------------------------------
(* What a cancelled writer leaves in the firmware's buffer.                *)

Due(S) == mode \in S \/ (machine.by # Free /\ machine.to \in S)

Closing == shellPc \in {"closing", "closed", "leaving", "exited", "returning"}

(* No cancelled command has left anything behind: it can from the signal   *)
(* until the prompt is back, and for good if the port was lost meanwhile.  *)
Clean == Cancels => ~Closing /\ connected

RxInv ==
    /\ Clean => rx = "none"
    /\ rx \notin NoMove => ~Due(Resting) /\ (Closing \/ shellPc = "ready")

LEMMA ConnectedBefore ==
    ASSUME LinkInv, ManagerInv, [Next]_vars, connected' PROVE connected
<1>1. ASSUME NEW t \in Task, Send(t) PROVE connected
  BY <1>1, SendDoes DEF LinkInv, SendKept, hostVars
<1>2. ASSUME NEW c \in {Shell, ShellStop}, Interrupt(c) PROVE connected
  BY <1>2, CancelTypes DEF LinkInv, Interrupt
<1> QED BY <1>1, <1>2, StepKinds
      DEF Calm, CallMove, Begin, hostVars, Read, LimitFound, MoveTimeout, PortGone

(* The prompt comes back over a line that was read out and a buffer that   *)
(* the poll has emptied.                                                   *)
LEMMA CleanBegins ==
    ASSUME LinkInv, ManagerInv, Prompt, Cancels => Polls, [Next]_vars, ~Clean, Clean'
    PROVE  connected /\ uplink = <<>> /\ rx = "none" /\ UNCHANGED linkVars
<1>1. connected /\ Closing /\ ~Closing' /\ Polls
  BY ConnectedBefore DEF Clean
<1>2. Return
  <2>1. CASE UNCHANGED shellPc
    BY <1>1, <2>1 DEF Closing
  <2>2. CASE Manages
    BY <1>1, <2>1, <2>2
      DEF Manages, WriteState, FinishTransition, SecondStage, MoveReturns, ShellFaults,
          SupervisedFault, StopEnds, Disconnect, TickFaults, TickReturns, StartTransform, ClearFault,
          AdoptBoot, HazardAppears, HazardClears, Closing, ShellGoes
  <2>3. CASE CallMove \/ Cleanup \/ StopSupervised \/ TickStops \/ Terminate
    BY <1>1, <2>1, <2>3
      DEF CallMove, Cleanup, StopSupervised, TickStops, Terminate, Closing, ShellGoes
  <2>4. ~DisconnectFails
    BY DEF DisconnectFails, PortGone, Clean
  <2> QED BY <2>1, <2>2, <2>3, <2>4, NextKinds DEF vars, managerVars
<1> QED BY <1>1, <1>2 DEF Return, Drained

(* Text of a move that is stranded makes every step that asks for a state  *)
(* of rest wait.                                                           *)
LEMMA Stranded ==
    ASSUME LinkInv, ManagerInv, RxInv, rx \notin NoMove, [Next]_vars
    PROVE  ~Due(Resting)' /\ (Closing' \/ shellPc' = "ready")
<1>1. /\ ~Due(Resting) /\ (Closing \/ shellPc = "ready")
      /\ connected => Closing
  BY DEF RxInv, NoMove, Clean
<1>2. mode \notin Resting /\ "FAULT" \notin Resting
  BY <1>1 DEF Due, Resting, Walks, Flies
<1>3. CASE UNCHANGED <<mode, machine>> /\ UNCHANGED shellPc
  BY <1>1, <1>3 DEF Due, Closing
<1>4. CASE WriteState \/ FinishTransition
  <2>1. UNCHANGED shellPc
    BY <1>4 DEF WriteState, FinishTransition
  <2>2. ~Due(Resting)'
    BY <1>1, <1>4 DEF WriteState, FinishTransition, NoTransition, Due, ManagerInv, ManagerTypes
  <2> QED BY <1>1, <2>1, <2>2 DEF Closing
<1>5. CASE UNCHANGED mode /\ (UNCHANGED machine \/ machine'.to = "FAULT")
           /\ (Closing' \/ shellPc' = "ready")
  BY <1>1, <1>2, <1>5 DEF Due
<1>6. CASE ShellFaults \/ SupervisedFault \/ DisconnectFails \/ TickFaults
  <2>1. UNCHANGED mode /\ (UNCHANGED machine \/ machine'.to = "FAULT")
    BY <1>6, Faulting DEF ShellFaults, SupervisedFault, StopEnds, DisconnectFails, TickFaults
  <2>2. Closing' \/ shellPc' = "ready"
    BY <1>1, <1>6
      DEF ShellFaults, SupervisedFault, StopEnds, DisconnectFails, TickFaults, ShellGoes, Closing
  <2> QED BY <1>5, <2>1, <2>2
<1>7. CASE Return \/ Disconnect
  BY <1>2, <1>5, <1>7 DEF Return, Disconnect, ShellGoes, Closing, Resting, Walks, Flies
<1>8. CASE TickReturns \/ HazardAppears \/ HazardClears
  BY <1>3, <1>8 DEF TickReturns, HazardAppears, HazardClears
<1>9. ~(SecondStage \/ MoveReturns)
  BY <1>1 DEF SecondStage, MoveReturns, Closing
<1>10. ~(ClearFault \/ AdoptBoot)
  BY <1>1, <1>2 DEF ClearFault, AdoptBoot, Blocking, Closing, Resting
<1>11. ASSUME NEW c \in Commands PROVE ~StartTransform(c)
  <2>1. Route[c].from \in Resting
    BY MorphologyAssumption DEF Route, Resting, Walks, Flies
  <2> QED BY <1>2, <2>1 DEF StartTransform
<1>12. CASE CallMove \/ Cleanup \/ StopSupervised \/ TickStops \/ Terminate
  BY <1>1, <1>3, <1>5, <1>12
    DEF CallMove, Cleanup, StopSupervised, TickStops, Terminate, Closing, ShellGoes
<1> QED BY <1>3, <1>4, <1>6, <1>7, <1>8, <1>9, <1>10, <1>11, <1>12, NextKinds
      DEF Manages, vars, managerVars

(* A cancelled stop leaves nothing that moves; a cancelled move does so    *)
(* only where the motor may run.                                           *)
LEMMA StopLeaves ==
    ASSUME LinkInv, Cancel(ShellStop) PROVE rx' \in {rx, "junk"}
<1>1. stage[ShellStop] \in {"idle", "halt", "haltcheck"}
  BY Distinct DEF LinkInv, Coroutines, At, StagesOf
<1>2. PrefixOf(Line(ShellStop)) = {"junk"}
  BY <1>1 DEF Line, PrefixOf
<1> QED BY <1>2, CancelTypes DEF LinkInv

LEMMA InterruptLeaves ==
    ASSUME LinkInv, ManagerInv, NEW c \in {Shell, ShellStop}, Interrupt(c), rx = "none",
           rx' \notin NoMove
    PROVE  ~Due(Resting)
<1>1. c = Shell
  BY StopLeaves DEF Interrupt, NoMove
<1>2. shellPc = "moving" /\ machine.by # Shell /\ command \in DOMAIN Route
  BY <1>1 DEF Interrupt, Terminate, Idle, ManagerInv, ManagerTypes
<1>3. mode \in Moves \cup {"FAULT"}
  BY <1>2, Headings DEF ManagerInv, Commanding
<1>4. machine.by # Free => machine.to = "FAULT"
  BY <1>2 DEF ManagerInv, ManagerTypes, Commits
<1> QED BY <1>3, <1>4 DEF Due, Resting, Walks, Flies, Moves

LEMMA RxStays ==
    ASSUME LinkInv, ManagerInv, RxInv, Prompt, Cancels => Polls, [Next]_vars PROVE RxInv'
<1>1. CASE rx' = rx
  <2>1. Clean' => rx' = "none"
    BY <1>1, CleanBegins DEF RxInv
  <2> QED BY <1>1, <2>1, Stranded DEF RxInv
<1>2. CASE rx' = "none"
  BY <1>2 DEF RxInv, NoMove
<1>3. ASSUME NEW c \in {Shell, ShellStop}, Interrupt(c) PROVE RxInv'
  <2>1. Cancels /\ Closing' /\ UNCHANGED <<mode, machine>>
    BY <1>3 DEF Interrupt, Terminate, Cancel, Closing, ShellGoes
  <2>2. rx' = rx \/ rx = "none"
    BY <1>3, CancelTypes DEF Interrupt, LinkInv
  <2>3. CASE rx = "none"
    <3>1. rx' \notin NoMove => ~Due(Resting)
      BY <1>3, <2>3, InterruptLeaves
    <3> QED BY <2>1, <3>1 DEF RxInv, Clean, Due
  <2> QED BY <1>1, <2>2, <2>3
<1>4. ASSUME NEW t \in Task, Send(t) PROVE rx' = rx \/ rx' = "none"
  BY <1>4, SendDoes DEF Does, LinkInv
<1>5. rx' = rx \/ rx' = "none" \/ \E c \in {Shell, ShellStop} : Interrupt(c)
  <2>1. CASE CallMove
    BY <2>1 DEF CallMove, Begin, fwVars
  <2> QED BY <1>4, <2>1, StepKinds
        DEF Calm, WireKept, Read, LimitFound, MoveTimeout, PortGone, fwVars
<1> QED BY <1>1, <1>2, <1>3, <1>5

-----------------------------------------------------------------------------
(* What the host was told, or is about to be, against what is.             *)

Told == {parsed.state} \cup {uplink[i].state : i \in 1..Len(uplink)}

Limits == {"LIMIT_FWD", "LIMIT_REV"}

(* A firmware that seeks a limit has told so, and nothing else; a limit    *)
(* that was told is where the mechanism stands.                            *)
Informed ==
    /\ Seeks(fw) => Told \subseteq Limits
    /\ \A d \in Direction : Reached[d] \in Told => position = d

History == connected /\ Clean /\ ~Starting => Informed

LEMMA ToldLonger ==
    ASSUME WireTypes, NEW r \in Reply, uplink' = uplink \o <<r>>, UNCHANGED parsed
    PROVE  Told' \subseteq Told \cup {r.state}
<1>1. /\ Len(uplink') = Len(uplink) + 1 /\ uplink'[Len(uplink) + 1] = r /\ Len(uplink) \in Nat
      /\ \A i \in 1..Len(uplink) : uplink'[i] = uplink[i]
  BY Longer DEF WireTypes
<1>2. \A i \in 1..Len(uplink') : i \in 1..Len(uplink) \/ i = Len(uplink) + 1
  BY <1>1
<1> QED BY <1>1, <1>2 DEF Told

LEMMA ToldShorter ==
    ASSUME WireTypes, uplink # <<>>, parsed'.state = uplink[1].state, uplink' = Tail(uplink)
    PROVE  Told' \subseteq Told
<1>1. /\ Len(uplink') = Len(uplink) - 1 /\ Len(uplink) \in Nat \ {0}
      /\ \A i \in 1..Len(uplink') : uplink'[i] = uplink[i + 1]
  BY Shorter DEF WireTypes
<1>2. 1 \in 1..Len(uplink) /\ \A i \in 1..Len(uplink') : i + 1 \in 1..Len(uplink)
  BY <1>1
<1> QED BY <1>1, <1>2 DEF Told

LEMMA ToldAll == ASSUME uplink = <<>> PROVE Told = {parsed.state}
  BY DEF Told

LEMMA SeeksLimits == \A r : Seeks(r) <=> r.state \in Limits
  BY DEF Seeks, Limits

LEMMA ReachedNoLimit ==
    \A d, e \in Direction : /\ Reached[d] \notin Limits \cup {"FAULT", "IDLE"}
                            /\ Reached[d] = Reached[e] => d = e
  BY DEF Reached, Limits, Direction

(* Only a move of the shell, or its stranded text, starts the motor.       *)
LEMMA Gentle ==
    ASSUME LinkInv, NEW t \in Task, Send(t), rx \in NoMove,
           ~(t = Shell /\ stage[Shell] = "command")
    PROVE  \/ UNCHANGED <<fw, uplink, position, rx>>
           \/ \E h \in {"status", "stop", "junk"} :
                /\ Does(h) /\ fw' = (IF h = "stop" THEN Rest("IDLE") ELSE fw)
                /\ rx = "none" /\ ~Garbles => h = Line(t)
<1>1. Line(t) \in {"status", "stop"}
  <2>1. stage[t] # "command"
    BY Distinct DEF LinkInv, Coroutines, At, StagesOf
  <2> QED BY <2>1 DEF Line
<1>2. CASE ~link
  BY <1>2, SendDoes DEF LinkInv
<1>3. CASE link
  <2>1. PICK h \in Hears(t) : Does(h)
    BY <1>3, SendDoes DEF LinkInv
  <2>2. h \in {"status", "stop", "junk"} /\ (rx = "none" /\ ~Garbles => h = Line(t))
    BY <1>1 DEF Hears, Heard, NoMove
  <2>3. fw' = IF h = "stop" THEN Rest("IDLE") ELSE fw
    BY <2>1, <2>2 DEF Does, Handle
  <2> QED BY <2>1, <2>2, <2>3
<1> QED BY <1>2, <1>3

LEMMA GentleInforms ==
    ASSUME LinkInv, WireInv, Informed, UNCHANGED parsed,
           NEW h \in {"status", "stop", "junk"}, Does(h),
           fw' = (IF h = "stop" THEN Rest("IDLE") ELSE fw)
    PROVE  Informed'
<1>1. position' = IF fw'.on THEN "between" ELSE position
  BY DEF Does
<1>2. fw'.on => Seeks(fw) /\ fw' = fw
  BY DEF WireInv, FwInv, Rest
<1>3. Seeks(fw') => Seeks(fw) /\ fw' = fw
  BY DEF Seeks, Rest
<1>4. Told' \subseteq Told \cup {fw'.state}
  <2>1. CASE UNCHANGED uplink
    BY <2>1 DEF Told
  <2>2. CASE \E r \in Reply : uplink' = uplink \o <<r>> /\ r.state = fw'.state
    BY <2>2, ToldLonger DEF LinkInv
  <2> QED BY <2>1, <2>2 DEF Does
<1>5. fw'.state = fw.state \/ fw'.state = "IDLE"
  BY DEF Rest
<1>6. Seeks(fw') => Told' \subseteq Limits
  BY <1>3, <1>4, SeeksLimits DEF Informed
<1>7. ASSUME NEW d \in Direction, Reached[d] \in Told' PROVE position' = d
  <2>1. ~Seeks(fw') /\ ~fw'.on
    BY <1>2, <1>3, <1>6, <1>7, ReachedNoLimit
  <2>2. Reached[d] \in Told \/ Reached[d] = fw.state
    BY <1>4, <1>5, <1>7, ReachedNoLimit
  <2>3. position = d
    BY <2>2 DEF Informed, WireInv, FwInv
  <2> QED BY <1>1, <2>1, <2>3
<1> QED BY <1>6, <1>7 DEF Informed

LEMMA EndsInforms ==
    ASSUME LinkInv, Informed, connected, LimitFound \/ MoveTimeout PROVE Informed'
<1>1. /\ Seeks(fw) /\ ~Seeks(fw') /\ UNCHANGED parsed
      /\ \E r \in Reply : uplink' = uplink \o <<r>> /\ r.state = fw'.state
      /\ \/ position' = LimitOf(fw) /\ fw' = AtLimit(fw)
         \/ fw'.state = "FAULT"
  BY EndsTypes DEF LinkInv, Ends, hostVars
<1>2. Told' \subseteq Told \cup {fw'.state}
  BY <1>1, ToldLonger DEF LinkInv
<1>3. ASSUME NEW d \in Direction, Reached[d] \in Told' PROVE position' = d
  <2>1. Reached[d] = fw'.state
    BY <1>1, <1>2, <1>3, ReachedNoLimit DEF Informed
  <2>2. position' = LimitOf(fw) /\ fw'.state = Reached[LimitOf(fw)]
    BY <1>1, <2>1, ReachedNoLimit DEF AtLimit, Rest
  <2>3. LimitOf(fw) \in Direction
    BY DEF LimitOf, Direction
  <2> QED BY <2>1, <2>2, <2>3, ReachedNoLimit
<1> QED BY <1>1, <1>3 DEF Informed

(* A start whose reply was parsed is known.                                *)
LEMMA StartKnown ==
    ASSUME LinkInv, WireInv, connected, uplink = <<>> PROVE Informed
<1>1. Told = {fw.state}
  BY ToldAll DEF WireInv, MirrorLags
<1> QED BY <1>1, SeeksLimits DEF Informed, WireInv, FwInv

LEMMA InformedSame ==
    ASSUME Informed, UNCHANGED <<fw, position, parsed, uplink>> PROVE Informed'
  BY DEF Informed, Told, Seeks

LEMMA HistoryStays ==
    ASSUME LinkInv, ManagerInv, WireInv, RxInv, Prompt, Cancels => Polls, History, [Next]_vars
    PROVE  History'
<1> SUFFICES ASSUME connected', Clean', ~Starting' PROVE Informed'
  BY DEF History
<1>a. CASE ~Clean
  <2>1. connected /\ uplink = <<>> /\ UNCHANGED linkVars
    BY <1>a, CleanBegins
  <2> QED BY <2>1, StartKnown, InformedSame DEF linkVars, fwVars, hostVars
<1> SUFFICES ASSUME Clean PROVE Informed'
  BY <1>a
<1>1. CASE WireKept /\ (connected' => connected) /\ Paces
  <2>1. Informed
    <3>1. CASE Starting
      BY <1>1, <3>1, StartKnown DEF Paces
    <3>2. CASE ~Starting
      BY <1>1, <3>2 DEF History
    <3> QED BY <3>1, <3>2
  <2> QED BY <1>1, <2>1, InformedSame DEF WireKept
<1>2. ASSUME NEW t \in Task, Send(t), UNCHANGED managerVars PROVE Informed'
  <2>1. SendKept(t) /\ connected /\ UNCHANGED <<parsed, stage>>
    BY <1>2, SendDoes DEF LinkInv, SendKept, hostVars
  <2>2. ~Starting /\ ~(t = Shell /\ stage[Shell] = "command")
    BY <2>1 DEF Starting, SendKept, LinkInv, HostTypes
  <2>3. Informed /\ rx \in NoMove
    BY <2>1, <2>2 DEF History, RxInv, NoMove
  <2> QED BY <1>2, <2>1, <2>2, <2>3, Gentle, GentleInforms, InformedSame
<1>3. CASE Read
  <2>1. /\ parsed'.state = uplink[1].state /\ uplink' = Tail(uplink) /\ uplink # <<>>
        /\ connected /\ UNCHANGED <<fw, position, stage, io>>
    BY <1>3, ReadTypes DEF LinkInv
  <2>2. Informed
    BY <2>1 DEF History, Starting
  <2>3. Told' \subseteq Told
    BY <2>1, ToldShorter DEF LinkInv
  <2> QED BY <2>1, <2>2, <2>3 DEF Informed, Seeks
<1>4. CASE LimitFound \/ MoveTimeout
  <2>1. UNCHANGED <<connected, stage, io>>
    BY <1>4 DEF LimitFound, MoveTimeout, hostVars, taskVars
  <2> QED BY <1>4, <2>1, EndsInforms DEF History, Starting
<1>5. ~PortGone
  BY DEF PortGone
<1>6. CASE CallMove
  <2>1. WireKept /\ UNCHANGED connected /\ Paces
    BY <1>6, BeginPaces, Headings DEF CallMove, ManagerInv, ManagerTypes
  <2> QED BY <1>1, <2>1
<1>7. ASSUME NEW c \in {Shell, ShellStop}, Interrupt(c) PROVE FALSE
  BY <1>7 DEF Interrupt, Terminate, ShellGoes, Cancel, Clean, Closing
<1> QED BY <1>1, <1>2, <1>3, <1>4, <1>5, <1>6, <1>7, StepKinds DEF Calm

-----------------------------------------------------------------------------
(* What a move believes when it decides, and where it leaves things. *)

Believed ==
    stage[Shell] \in {"initial", "final"} /\ fresh[Shell] =>
        \A d \in Direction : parsed.state = Reached[d] => ~Seeks(fw) /\ position = d

Parked(d) == ~fw.on /\ position = d /\ rx \in NoMove /\ stage[Shell] = "idle"

Verified == result[Shell] = "ok" => Parked(goal[Shell])

LEMMA MovingIsClean ==
    ASSUME ManagerInv, RxInv, stage[Shell] # "idle" PROVE rx \in NoMove /\ (connected => Clean)
  BY DEF ManagerInv, Commanding, Clean, Closing, RxInv

(* A signal leaves no move running, and moves nothing.                     *)
LEMMA Interrupted ==
    ASSUME LinkInv, ManagerInv, NEW c \in {Shell, ShellStop}, Interrupt(c)
    PROVE  /\ stage'[Shell] = "idle" /\ UNCHANGED <<fw, position, goal>>
           /\ result'[Shell] = "ok" => c = ShellStop /\ result[Shell] = "ok"
<1>1. CASE c = Shell
  BY <1>1, CancelTypes DEF LinkInv, Interrupt
<1>2. CASE c = ShellStop
  <2>1. stage[Shell] = "idle"
    BY <1>2, Distinct DEF Interrupt, ManagerInv, Commanding
  <2> QED BY <1>2, <2>1, CancelTypes, Distinct DEF LinkInv, Interrupt, Same, SameStage
<1> QED BY <1>1, <1>2

LEMMA BelievedStays ==
    ASSUME LinkInv, ManagerInv, WireInv, RxInv, History, Believed, [Next]_vars PROVE Believed'
<1> SUFFICES ASSUME stage'[Shell] \in {"initial", "final"}, fresh'[Shell],
                    NEW d \in Direction, parsed'.state = Reached[d]
             PROVE  ~Seeks(fw') /\ position' = d
  BY DEF Believed, Seeks
<1>1. CASE WireKept /\ Paces
  <2>1. fresh[Shell] /\ stage'[Shell] = stage[Shell]
    BY <1>1 DEF Paces
  <2> QED BY <1>1, <2>1 DEF Believed, WireKept, Seeks
<1>2. ASSUME NEW t \in Task, Send(t), UNCHANGED managerVars PROVE ~Seeks(fw') /\ position' = d
  <2>1. UNCHANGED <<parsed, stage, fresh>>
    BY <1>2, SendDoes DEF LinkInv, SendKept, hostVars
  <2>2. ~Seeks(fw) /\ position = d
    BY <2>1 DEF Believed
  <2>3. rx \in NoMove /\ ~(t = Shell /\ stage[Shell] = "command")
    BY <2>1, MovingIsClean
  <2>4. CASE UNCHANGED <<fw, uplink, position, rx>>
    BY <2>2, <2>4
  <2>5. CASE \E h \in {"status", "stop", "junk"} :
               Does(h) /\ fw' = (IF h = "stop" THEN Rest("IDLE") ELSE fw)
    <3>1. fw' = fw \/ fw' = Rest("IDLE")
      BY <2>5
    <3>2. ~Seeks(fw') /\ ~fw'.on
      BY <2>2, <3>1 DEF Seeks, Rest, WireInv, FwInv
    <3> QED BY <2>2, <2>5, <3>2 DEF Does
  <2> QED BY <1>2, <2>3, <2>4, <2>5, Gentle
<1>3. CASE Read
  <2>1. /\ parsed'.state = uplink[1].state /\ uplink # <<>> /\ connected
        /\ UNCHANGED <<fw, position, stage>>
    BY <1>3, ReadTypes DEF LinkInv
  <2>2. Informed
    BY <2>1, MovingIsClean DEF History, Starting
  <2>3. parsed'.state \in Told
    <3>1. 1 \in 1..Len(uplink)
      BY <2>1, Shorter DEF LinkInv, WireTypes
    <3> QED BY <2>1, <3>1 DEF Told
  <2> QED BY <2>1, <2>2, <2>3, ReachedNoLimit DEF Informed
<1>4. ~(LimitFound \/ MoveTimeout)
  BY DEF LimitFound, MoveTimeout, Believed, hostVars, taskVars
<1>5. CASE PortGone
  BY <1>5 DEF PortGone, taskVars, Believed
<1>6. CASE CallMove
  <2>1. WireKept /\ Paces
    BY <1>6, BeginPaces, Headings DEF CallMove, ManagerInv, ManagerTypes
  <2> QED BY <1>1, <2>1
<1>7. ASSUME NEW c \in {Shell, ShellStop}, Interrupt(c) PROVE FALSE
  BY <1>7, Interrupted
<1> QED BY <1>1, <1>2, <1>3, <1>4, <1>5, <1>6, <1>7, StepKinds DEF Calm

(* The motor is off, nothing that would start it is on its way, and no     *)
(* move is being run.                                                      *)
Still == ~fw.on /\ rx \in NoMove /\ stage[Shell] = "idle"

LEMMA StillStays ==
    ASSUME LinkInv, ManagerInv, Still, [Next]_vars, ~CallMove
    PROVE  Still' /\ UNCHANGED position
<1>1. CASE Calm
  BY <1>1 DEF Calm, WireKept, Still
<1>2. ASSUME NEW t \in Task, Send(t) PROVE Still' /\ UNCHANGED position
  <2>1. UNCHANGED stage /\ stage[Shell] = "idle" /\ rx \in NoMove /\ ~fw.on
    BY <1>2, SendDoes DEF LinkInv, SendKept, Still
  <2>2. CASE UNCHANGED <<fw, uplink, position, rx>>
    BY <2>1, <2>2 DEF Still
  <2>3. CASE \E h \in {"status", "stop", "junk"} :
               Does(h) /\ fw' = (IF h = "stop" THEN Rest("IDLE") ELSE fw)
    <3>1. ~fw'.on
      BY <2>1, <2>3 DEF Rest
    <3> QED BY <2>1, <2>3, <3>1 DEF Does, Still, NoMove
  <2> QED BY <1>2, <2>1, <2>2, <2>3, Gentle
<1>3. CASE Read
  BY <1>3, ReadTypes DEF LinkInv, Still
<1>4. CASE LimitFound \/ MoveTimeout
  BY <1>4, EndsTypes DEF LinkInv, Ends, Still, taskVars
<1>5. CASE PortGone
  BY <1>5 DEF PortGone, taskVars, Still
<1>6. ASSUME NEW c \in {Shell, ShellStop}, Interrupt(c) PROVE Still' /\ UNCHANGED position
  <2>1. c = ShellStop
    BY <1>6, CancelTypes DEF LinkInv, Still, Interrupt
  <2> QED BY <1>6, <2>1, Interrupted, StopLeaves DEF Still, NoMove, Interrupt
<1> QED BY <1>1, <1>2, <1>3, <1>4, <1>5, <1>6, StepKinds

LEMMA ParkedStays ==
    ASSUME LinkInv, ManagerInv, NEW d, Parked(d), [Next]_vars, ~CallMove PROVE Parked(d)'
  BY StillStays DEF Parked, Still

LEMMA VerifiedStays ==
    ASSUME LinkInv, ManagerInv, WireInv, RxInv, Believed, Verified, [Next]_vars PROVE Verified'
<1> SUFFICES ASSUME result'[Shell] = "ok" PROVE Parked(goal[Shell])' 
  BY DEF Verified
<1>1. ~CallMove
  BY BeginKept, Headings DEF CallMove, ManagerInv, ManagerTypes
<1>2. CASE result[Shell] = "ok"
  <2>1. Parked(goal[Shell]) /\ stage[Shell] = "idle"
    BY <1>2 DEF Verified, Parked
  <2>2. UNCHANGED goal
    <3>1. CASE \E c \in {Shell, ShellStop} : Interrupt(c)
      BY <3>1, Interrupted
    <3> QED BY <1>1, <3>1, StepKinds, SendDoes
          DEF Calm, SendKept, LinkInv, Read, LimitFound, MoveTimeout, PortGone, taskVars
  <2> QED BY <1>1, <2>1, <2>2, StillStays DEF Parked, Still
<1>3. CASE Calm /\ Arrives
  <2>1. parsed.state = Reached[goal[Shell]] /\ goal[Shell] \in Direction
    BY <1>3, Distinct DEF Arrives, AtGoal, GoalReached, LinkInv, HostTypes
  <2>2. ~Seeks(fw) /\ position = goal[Shell] /\ rx \in NoMove
    BY <1>3, <2>1, MovingIsClean DEF Arrives, Believed
  <2>3. UNCHANGED <<fw, position, rx, goal>> /\ stage'[Shell] = "idle"
    BY <1>3 DEF Calm, WireKept, Arrives
  <2> QED BY <2>2, <2>3 DEF Parked, WireInv, FwInv
<1>4. result'[Shell] = result[Shell] \/ (Calm /\ Arrives)
  <2>1. (\E c \in {Shell, ShellStop} : Interrupt(c)) => result[Shell] = "ok"
    BY Interrupted
  <2>2. Calm => result[Shell] = "ok" \/ Arrives
    BY DEF Calm, Paces
  <2> QED BY <1>1, <2>1, <2>2, StepKinds, SendDoes
        DEF SendKept, LinkInv, Read, LimitFound, MoveTimeout, PortGone, taskVars
<1> QED BY <1>2, <1>3, <1>4

-----------------------------------------------------------------------------
(* The shape the manager's state stands for. *)

ShapeInv ==
    /\ Due(Walks) => Parked("rev")
    /\ Due(Flies) => Parked("fwd")

(* Every state that walks or flies is asked for from one of its kind, or   *)
(* when the mechanism was seen at that limit.                              *)
Earned(S, d) == Due(S)' => Due(S) \/ Parked(d)

LEMMA CallMoveUndue ==
    ASSUME ManagerInv, CallMove, NEW S, S \cap (Moves \cup {"FAULT"}) = {} PROVE ~Due(S)
<1>1. /\ machine.by # Shell /\ mode \in Moves \cup {"FAULT"}
      /\ machine.by # Free => machine.to = "FAULT"
  BY Headings DEF CallMove, Idle, ManagerInv, ManagerTypes, Commanding, Commits, Stands
<1> QED BY <1>1 DEF Due

LEMMA Apart ==
    /\ Walks \cap (Moves \cup {"FAULT", "BOOT_SAFE"}) = {}
    /\ Flies \cap (Moves \cup {"FAULT", "BOOT_SAFE"}) = {}
    /\ Walks \cap Flies = {}
  BY DEF Walks, Flies, Moves

LEMMA FaultLeads == ALLOWED_TRANSITIONS["FAULT"] = {"BOOT_SAFE", "EMERGENCY_STOP"}
  BY DEF ALLOWED_TRANSITIONS, SystemState

LEMMA AskEarned ==
    ASSUME UNCHANGED mode, NEW to, machine'.to = to,
           to \in Walks => Due(Walks) \/ Parked("rev"),
           to \in Flies => Due(Flies) \/ Parked("fwd")
    PROVE  Earned(Walks, "rev") /\ Earned(Flies, "fwd")
  BY DEF Earned, Due

LEMMA SameEarned ==
    ASSUME UNCHANGED <<mode, machine>>, NEW S, NEW d PROVE Earned(S, d)
  BY DEF Earned, Due

LEMMA CommitEarned ==
    ASSUME ManagerInv, WriteState \/ FinishTransition, NEW S, NEW d PROVE Earned(S, d)
<1>1. CASE WriteState
  BY <1>1 DEF WriteState, ManagerInv, ManagerTypes, Earned, Due
<1>2. CASE FinishTransition
  BY <1>2 DEF FinishTransition, NoTransition, Earned, Due
<1> QED BY <1>1, <1>2

LEMMA FaultEarned ==
    ASSUME ManagerInv,
           \/ ShellFaults \/ SupervisedFault \/ TickFaults
           \/ ClearFault \/ Disconnect \/ DisconnectFails
    PROVE  Earned(Walks, "rev") /\ Earned(Flies, "fwd")
<1>1. UNCHANGED mode
  BY DEF ShellFaults, SupervisedFault, StopEnds, TickFaults, ClearFault, Disconnect,
         DisconnectFails
<1>2. UNCHANGED machine \/ machine'.to \in {"FAULT", "BOOT_SAFE"}
  <2>1. CASE ShellFaults \/ SupervisedFault \/ TickFaults \/ DisconnectFails
    BY <2>1, Faulting DEF ShellFaults, SupervisedFault, StopEnds, TickFaults, DisconnectFails
  <2>2. CASE ClearFault \/ Disconnect
    BY <2>2 DEF ClearFault, Disconnect, Ask
  <2> QED BY <2>1, <2>2
<1> QED BY <1>1, <1>2, SameEarned, AskEarned, Apart

LEMMA SecondStageEarned ==
    ASSUME ManagerInv, SecondStage
    PROVE  Earned(Walks, "rev") /\ Earned(Flies, "fwd")
<1>1. /\ UNCHANGED mode /\ command \in {"flight", "walk"} /\ machine.by # Shell
      /\ mode \in {Precheck[command], "FAULT"} /\ command \in DOMAIN Route
  BY Headings DEF SecondStage, Idle, ManagerInv, ManagerTypes, Commanding, Stands
<1>2. CASE UNCHANGED machine
  BY <1>1, <1>2, SameEarned
<1>3. CASE machine'.to = Route[command].active
  BY <1>1, <1>3, Headings, AskEarned, Apart
<1>4. CASE machine'.to = Route[command].from /\ Granted(Route[command].from, parsed)
  <2>1. mode = Precheck[command]
    BY <1>1, <1>4, FaultLeads DEF Granted, Permitted, Route
  <2>2. CASE command = "flight"
    BY <1>1, <1>4, <2>1, <2>2, AskEarned DEF Route, Precheck, Walks, Flies, Due
  <2>3. CASE command = "walk"
    BY <1>1, <1>4, <2>1, <2>3, AskEarned DEF Route, Precheck, Walks, Flies, Due
  <2> QED BY <1>1, <2>2, <2>3
<1>5. Route[command].from \in Modes /\ Route[command].active \in Modes
  BY <1>1, RoutesKnown
<1> QED BY <1>2, <1>3, <1>4, <1>5, ShellAsked DEF SecondStage

LEMMA StartEarned ==
    ASSUME ManagerInv, NEW c \in Commands, StartTransform(c)
    PROVE  Earned(Walks, "rev") /\ Earned(Flies, "fwd")
<1>1. UNCHANGED mode /\ mode = Route[c].from /\ c \in {"flight", "walk", "home"}
  BY MorphologyAssumption DEF StartTransform
<1>2. CASE UNCHANGED machine
  BY <1>1, <1>2, SameEarned
<1>3. CASE machine'.to = "HOMING_TO_WALK"
  BY <1>1, <1>3, AskEarned DEF Walks, Flies
<1>4. CASE c # "home" /\ machine'.to = Precheck[c]
  <2>1. CASE c = "flight"
    BY <1>1, <1>4, <2>1, AskEarned DEF Route, Precheck, Walks, Flies, Due
  <2>2. CASE c = "walk"
    BY <1>1, <1>4, <2>2, AskEarned DEF Route, Precheck, Walks, Flies, Due
  <2> QED BY <1>1, <1>4, <2>1, <2>2
<1>5. "HOMING_TO_WALK" \in Modes /\ (c # "home" => Precheck[c] \in Modes)
  BY <1>1 DEF Modes, Moves, Resting, Walks, Flies, Precheck
<1> QED BY <1>2, <1>3, <1>4, <1>5, ShellAsked DEF StartTransform

LEMMA MoveEarned ==
    ASSUME ManagerInv, Verified, MoveReturns
    PROVE  Earned(Walks, "rev") /\ Earned(Flies, "fwd")
<1>1. UNCHANGED mode /\ command \in {"flight", "walk", "home"} /\ command \in DOMAIN Route
      /\ goal[Shell] = Route[command].heading /\ Route[command].arrive \in Modes
  BY Headings, RoutesKnown DEF MoveReturns, ManagerInv, ManagerTypes, Commanding
<1>2. CASE UNCHANGED machine
  BY <1>1, <1>2, SameEarned
<1>3. CASE result[Shell] = "ok" /\ machine'.to = Route[command].arrive
  <2>1. Parked(Route[command].heading)
    BY <1>1, <1>3 DEF Verified
  <2>2. CASE command = "flight"
    BY <1>1, <1>3, <2>1, <2>2, AskEarned, Apart DEF Route, Walks, Flies
  <2>3. CASE command # "flight"
    BY <1>1, <1>3, <2>1, <2>3, AskEarned, Apart DEF Route, Walks, Flies
  <2> QED BY <2>2, <2>3
<1> QED BY <1>1, <1>2, <1>3, ShellAsked DEF MoveReturns

LEMMA BootEarned ==
    ASSUME ManagerInv, WireInv, RxInv, History, AdoptBoot
    PROVE  Earned(Walks, "rev") /\ Earned(Flies, "fwd")
<1>1. PICK to \in {"WALK", "FLIGHT_READY", "GO2_JOINT_LOCK_WAIT"} :
        /\ to = "WALK" => parsed.state = "REACHED_REV"
        /\ to # "WALK" => parsed.state = "REACHED_FWD"
        /\ Ask(Shell, to) \/ UNCHANGED machine
  BY DEF AdoptBoot, Configuration
<1>2. UNCHANGED mode /\ connected /\ stage[Shell] = "idle" /\ Clean /\ rx = "none"
  BY DEF AdoptBoot, ManagerInv, Commanding, Clean, Closing, RxInv
<1>3. Informed
  BY <1>2 DEF History, Starting
<1>4. ASSUME NEW d \in Direction, parsed.state = Reached[d] PROVE Parked(d)
  <2>1. parsed.state \in Told
    BY DEF Told
  <2>2. ~Seeks(fw) /\ position = d
    BY <1>3, <1>4, <2>1, ReachedNoLimit DEF Informed
  <2> QED BY <1>2, <2>2 DEF Parked, NoMove, WireInv, FwInv
<1>5. CASE UNCHANGED machine
  BY <1>2, <1>5, SameEarned
<1>6. CASE Ask(Shell, to)
  <2>1. to \in Walks => Parked("rev")
    BY <1>1, <1>4 DEF Walks, Reached, Direction
  <2>2. to \in Flies => Parked("fwd")
    BY <1>1, <1>4, Apart DEF Walks, Flies, Reached, Direction
  <2>3. machine'.to = to
    BY <1>6 DEF Ask
  <2> QED BY <1>2, <2>1, <2>2, <2>3, AskEarned
<1> QED BY <1>1, <1>5, <1>6

LEMMA DueEarned ==
    ASSUME ManagerInv, WireInv, RxInv, History, Verified, [Next]_vars
    PROVE  Earned(Walks, "rev") /\ Earned(Flies, "fwd")
<1>1. CASE UNCHANGED <<mode, machine>>
  BY <1>1, SameEarned
<1>2. CASE Manages
  BY <1>1, <1>2, CommitEarned, FaultEarned, SecondStageEarned, StartEarned, MoveEarned, BootEarned
    DEF Manages, Return, TickReturns, HazardAppears, HazardClears
<1> QED BY <1>1, <1>2, FaultEarned, NextKinds
      DEF CallMove, Cleanup, StopSupervised, TickStops, Terminate, vars, managerVars

LEMMA ShapeStays ==
    ASSUME LinkInv, ManagerInv, WireInv, RxInv, History, Verified, ShapeInv, [Next]_vars
    PROVE  ShapeInv'
<1>1. CASE CallMove
  <2>1. ~Due(Walks) /\ ~Due(Flies)
    BY <1>1, CallMoveUndue, Apart
  <2> QED BY <1>1, <2>1 DEF CallMove, Due, ShapeInv
<1>2. CASE ~CallMove
  BY <1>2, DueEarned, ParkedStays DEF Earned, ShapeInv
<1> QED BY <1>1, <1>2

-----------------------------------------------------------------------------
(* Where the motor may run.  Without corrupted lines and cancelled moves   *)
(* the machine returns to BOOT_SAFE over a motor at rest only.             *)

Clear == ~Garbles /\ ~Cancels /\ connected

Quiet == Clear /\ Unstarted => ~fw.on

BootQuiet == ~Garbles /\ ~Cancels /\ Due({"BOOT_SAFE"}) => Still

LEMMA QuietStays ==
    ASSUME LinkInv, ManagerInv, WireInv, RxInv, History, Quiet, [Next]_vars PROVE Quiet'
<1> SUFFICES ASSUME Clear', Unstarted' PROVE ~fw'.on
  BY DEF Quiet
<1>0. ~Garbles /\ ~Cancels /\ Clean /\ rx = "none"
  BY DEF Clear, Clean, RxInv
<1>1. CASE WireKept /\ (connected' => connected) /\ Paces
  <2>1. CASE Unstarted
    BY <1>0, <1>1, <2>1 DEF Quiet, Clear, WireKept
  <2>2. CASE ~Unstarted
    <3>1. stage[Shell] = "watch" /\ ~Seeks(parsed) /\ connected
      BY <1>1, <2>2 DEF Paces, Clear
    <3>2. Informed
      BY <1>0, <3>1 DEF History, Starting
    <3>3. ~Seeks(fw)
      BY <3>1, <3>2, SeeksLimits DEF Informed, Told
    <3> QED BY <1>1, <3>3 DEF WireKept, WireInv, FwInv
  <2> QED BY <2>1, <2>2
<1>2. ASSUME NEW t \in Task, Send(t), UNCHANGED managerVars PROVE ~fw'.on
  <2>1. SendKept(t) /\ connected /\ UNCHANGED <<parsed, stage>> /\ io[t] = "bytes"
        /\ io'[t] = "delay"
    BY <1>2, SendDoes DEF LinkInv, SendKept, hostVars, Clear, HostTypes, Send
  <2>2. ~(t = Shell /\ stage[Shell] = "command")
    BY <2>1 DEF Unstarted
  <2>3. link
    BY <2>1 DEF WireInv, MirrorLags
  <2>4. PICK h \in Hears(t) : Does(h)
    BY <1>2, <2>3, SendDoes DEF LinkInv
  <2>5. h = Line(t)
    BY <1>0, <2>4 DEF Hears, Heard
  <2>6. CASE t = Shell /\ stage[Shell] = "halt"
    BY <2>4, <2>5, <2>6 DEF Does, Line, Handle, Rest
  <2>7. CASE ~(t = Shell /\ stage[Shell] = "halt")
    <3>1. Unstarted
      <4>1. CASE t = Shell
        BY <2>1, <2>2, <2>7, <4>1 DEF Unstarted
      <4>2. CASE t # Shell
        BY <2>1, <4>2, Distinct DEF Unstarted, SendKept, LinkInv, HostTypes
      <4> QED BY <4>1, <4>2
    <3>2. ~fw.on
      BY <1>0, <2>1, <3>1 DEF Quiet, Clear
    <3>3. stage[t] # "command"
      BY <2>2, Distinct DEF LinkInv, Coroutines, At, StagesOf
    <3>4. Line(t) \in {"stop", "status"}
      BY <3>3 DEF Line
    <3> QED BY <2>4, <2>5, <3>2, <3>4 DEF Does, Handle, Rest
  <2> QED BY <2>6, <2>7
<1>3. CASE Read
  BY <1>0, <1>3, ReadTypes DEF LinkInv, Quiet, Clear, Unstarted
<1>4. CASE LimitFound \/ MoveTimeout
  BY <1>4, EndsTypes DEF LinkInv, Ends
<1>5. ~PortGone
  BY DEF PortGone, Clear
<1>6. CASE CallMove
  <2>1. WireKept /\ UNCHANGED connected /\ Paces
    BY <1>6, BeginPaces, Headings DEF CallMove, ManagerInv, ManagerTypes
  <2> QED BY <1>1, <2>1
<1>7. ASSUME NEW c \in {Shell, ShellStop}, Interrupt(c) PROVE FALSE
  BY <1>0, <1>7 DEF Interrupt, Cancel
<1> QED BY <1>1, <1>2, <1>3, <1>4, <1>5, <1>6, <1>7, StepKinds DEF Calm

(* BOOT_SAFE is asked for by clear-fault, and on the way out from a state  *)
(* that walks or flies.                                                    *)
LEMMA BootCleared ==
    ASSUME ManagerInv, [Next]_vars, Due({"BOOT_SAFE"})'
    PROVE  \/ Due({"BOOT_SAFE"}) \/ ClearFault
           \/ Disconnect /\ (Due(Walks) \/ Due(Flies))
<1>1. CASE UNCHANGED <<mode, machine>>
  BY <1>1 DEF Due
<1>2. CASE WriteState \/ FinishTransition
  BY <1>2, CommitEarned DEF WriteState, FinishTransition, NoTransition, Due, ManagerInv, ManagerTypes
<1>3. CASE UNCHANGED mode /\ machine'.to # "BOOT_SAFE"
  BY <1>3 DEF Due
<1>4. CASE Disconnect
  BY <1>1, <1>4 DEF Disconnect, Due, Walks, Flies
<1>5. CASE Manages /\ ~(WriteState \/ FinishTransition) /\ ~ClearFault /\ ~Disconnect
  <2>1. UNCHANGED mode
    BY <1>5 DEF Manages, SecondStage, MoveReturns, Return, ShellFaults, SupervisedFault, StopEnds,
                TickFaults, TickReturns, StartTransform, AdoptBoot, HazardAppears, HazardClears
  <2>2. UNCHANGED machine \/ machine'.to # "BOOT_SAFE"
    <3>1. CASE ShellFaults \/ SupervisedFault \/ TickFaults
      BY <3>1, Faulting DEF ShellFaults, SupervisedFault, StopEnds, TickFaults
    <3>2. CASE Return \/ TickReturns \/ HazardAppears \/ HazardClears
      BY <3>2 DEF Return, TickReturns, HazardAppears, HazardClears
    <3>3. CASE AdoptBoot
      BY <3>3 DEF AdoptBoot, Ask
    <3>4. CASE SecondStage
      <4>1. command \in {"flight", "walk"}
        BY <3>4, Headings DEF SecondStage, ManagerInv, ManagerTypes, Commanding
      <4> QED BY <3>4, <4>1 DEF SecondStage, ShellAsks, Ask, Route
    <3>5. CASE MoveReturns
      <4>1. command \in {"flight", "walk", "home"}
        BY <3>5, Headings DEF MoveReturns, ManagerInv, ManagerTypes
      <4> QED BY <3>5, <4>1 DEF MoveReturns, ShellAsks, Ask, Route
    <3>6. ASSUME NEW c \in Commands, StartTransform(c)
          PROVE  UNCHANGED machine \/ machine'.to # "BOOT_SAFE"
      <4>1. c \in {"flight", "walk", "home"}
        BY MorphologyAssumption
      <4> QED BY <3>6, <4>1 DEF StartTransform, ShellAsks, Ask, Precheck
    <3> QED BY <1>5, <3>1, <3>2, <3>3, <3>4, <3>5, <3>6 DEF Manages
  <2> QED BY <1>1, <1>3, <2>1, <2>2
<1>6. CASE DisconnectFails
  BY <1>1, <1>3, <1>6, Faulting DEF DisconnectFails
<1> QED BY <1>1, <1>2, <1>4, <1>5, <1>6, NextKinds
      DEF CallMove, Cleanup, StopSupervised, TickStops, Terminate, vars, managerVars

LEMMA BootQuietStays ==
    ASSUME LinkInv, ManagerInv, RxInv, ShapeInv, Quiet, BootQuiet, [Next]_vars PROVE BootQuiet'
<1> SUFFICES ASSUME ~Garbles, ~Cancels, Due({"BOOT_SAFE"})' PROVE Still'
  BY DEF BootQuiet
<1>1. CASE Due({"BOOT_SAFE"})
  <2>1. ~CallMove
    BY <1>1, CallMoveUndue DEF Moves
  <2> QED BY <1>1, <2>1, StillStays DEF BootQuiet
<1>2. CASE ClearFault
  <2>1. shellPc = "ready" /\ connected /\ stage[Shell] = "idle" /\ ~CallMove
    BY <1>2 DEF ClearFault, Blocking, ManagerInv, Commanding, CallMove
  <2>2. ~fw.on /\ rx = "none"
    BY <2>1 DEF Quiet, Clear, Unstarted, RxInv, Clean
  <2>3. Still
    BY <2>1, <2>2 DEF Still, NoMove
  <2> QED BY <2>1, <2>3, StillStays
<1>3. CASE Disconnect /\ (Due(Walks) \/ Due(Flies))
  <2>1. Still /\ ~CallMove
    BY <1>3 DEF ShapeInv, Parked, Still, Disconnect, CallMove
  <2> QED BY <2>1, StillStays
<1> QED BY <1>1, <1>2, <1>3, BootCleared

-----------------------------------------------------------------------------
(* The invariant, and what rests on it. *)

BaseInv == LinkInv /\ ManagerInv /\ WireInv

MorphologyInv ==
    /\ BaseInv /\ RxInv /\ History /\ Believed /\ Verified /\ ShapeInv /\ Quiet /\ BootQuiet

LEMMA InitReading ==
    ASSUME Init
    PROVE  /\ fw \in {Rest("IDLE"), Rest("REACHED_FWD"), Rest("REACHED_REV")}
           /\ fw \in Reading /\ ~fw.on /\ ~Seeks(fw) /\ parsed = fw
           /\ uplink = <<>> /\ rx = "none" /\ link = TRUE /\ connected = TRUE
           /\ position \in Direction \cup {"between"}
           /\ \A d \in Direction : fw.state = Reached[d] => position = d
           /\ mode \in Walks => fw.state = "REACHED_REV"
           /\ mode \in Flies => fw.state = "REACHED_FWD"
           /\ mode \in {"WALK", "FLIGHT_READY", "BOOT_SAFE"}
<1>1. fw \in {Rest("IDLE"), Rest("REACHED_FWD"), Rest("REACHED_REV")}
  BY DEF Init, LinkInit
<1>2. fw \in Reading /\ ~fw.on /\ ~Seeks(fw)
  <2>1. ASSUME NEW s \in {"IDLE", "REACHED_FWD", "REACHED_REV"}, fw = Rest(s)
        PROVE  fw \in Reading /\ ~fw.on /\ ~Seeks(fw)
    BY <2>1 DEF Reading, Rest, FwState, Seeks
  <2> QED BY <1>1, <2>1
<1>3. /\ position \in Direction \cup {"between"}
      /\ \A d \in Direction : fw.state = Reached[d] => position = d
  BY <1>1 DEF Init, LinkInit, Direction, Reached, Rest
<1>4. /\ mode \in Walks => fw.state = "REACHED_REV"
      /\ mode \in Flies => fw.state = "REACHED_FWD"
      /\ mode \in {"WALK", "FLIGHT_READY", "BOOT_SAFE"}
  BY DEF Init, Walks, Flies
<1>5. parsed = fw /\ uplink = <<>> /\ rx = "none" /\ link = TRUE /\ connected = TRUE
  BY DEF Init, LinkInit
<1> QED BY <1>1, <1>2, <1>3, <1>4, <1>5

LEMMA InitBase == ASSUME Init PROVE BaseInv
<1>1. WireTypes
  <2>1. Len(<<>>) = 0 /\ <<>> \in Seq(Reply)
    OBVIOUS
  <2>2. uplink \in Seq(Reply) /\ Len(uplink) <= MaxUplink
    BY <2>1, InitReading, LinkAssumption
  <2> QED BY <2>2, InitReading DEF WireTypes, Buffer
<1>2. HostTypes
  BY DEF Init, LinkInit, HostTypes, Stage, QueryStage, WriteStage, Outcome, Direction
<1>3. Coroutines
  <2>1. /\ \A t \in Task : stage[t] = "idle" /\ io[t] = "ready" /\ result[t] = "none"
        /\ stage[Shell] = "idle"
    BY Distinct DEF Init, LinkInit
  <2>2. \A t \in Task : "idle" \in StagesOf(t)
    BY DEF StagesOf, Stage
  <2>3. \A t \in Mover \ {Shell} : result[t] = "none"
    BY <2>1 DEF Task
  <2> QED BY <2>1, <2>2, <2>3 DEF Coroutines, At
<1>4. ManagerInv
  <2>1. mode \in Modes /\ "FAULT" \in Modes /\ mode \in SystemState /\ "FAULT" \in SystemState
    BY InitReading DEF Modes, Resting, Walks, Flies, SystemState
  <2>2. machine = NoTransition /\ shellPc = "ready" /\ stage[Shell] = "idle"
    BY Distinct DEF Init, LinkInit
  <2>3. ManagerTypes
    <3>1. machine \in [by : {Free, Shell, TickStop}, to : SystemState, written : BOOLEAN]
      BY <2>1, <2>2 DEF NoTransition
    <3>2. command = "home" /\ "home" \in DOMAIN Route
      BY DEF Init, Route
    <3>3. hazard \in BOOLEAN /\ tickPc = "ready" /\ operation = Free
          /\ stopping = "BOOT_SAFE" /\ "BOOT_SAFE" \in SystemState
      BY DEF Init, SystemState
    <3> QED BY <2>1, <2>2, <3>1, <3>2, <3>3 DEF ManagerTypes
  <2>4. Commits
    BY <2>1, <2>2, Distinct DEF Commits, NoTransition
  <2>5. Commanding
    BY <2>2, Distinct DEF Commanding, NoTransition
  <2> QED BY <2>3, <2>4, <2>5 DEF ManagerInv
<1>5. WireInv
  BY InitReading DEF WireInv, FwInv, MirrorLags, NoMove
<1> QED BY <1>1, <1>2, <1>3, <1>4, <1>5 DEF BaseInv, LinkInv

LEMMA InitMorphology == ASSUME Init PROVE MorphologyInv
<1>1. stage[Shell] = "idle" /\ result[Shell] = "none" /\ machine.by = Free
  BY Distinct DEF Init, LinkInit, NoTransition
<1>2. Informed
  <2>1. Told = {fw.state}
    BY InitReading, ToldAll
  <2> QED BY <2>1, InitReading DEF Informed
<1>3. History /\ Believed /\ Verified
  BY <1>1, <1>2 DEF History, Believed, Verified
<1>4. Still
  BY <1>1, InitReading DEF Still, NoMove
<1>5. ShapeInv
  BY <1>1, <1>4, InitReading DEF ShapeInv, Due, Parked, Still, Reached, Direction
<1>6. Quiet /\ BootQuiet
  BY <1>4 DEF Quiet, BootQuiet, Still
<1>7. RxInv
  BY InitReading DEF RxInv, NoMove
<1> QED BY <1>3, <1>5, <1>6, <1>7, InitBase DEF MorphologyInv

LEMMA BaseStays == ASSUME BaseInv, [Next]_vars PROVE BaseInv'
  BY LinkStays, ManagerStays, FwStays, MirrorStays DEF BaseInv, WireInv, ManagerInv

LEMMA MorphologyStays ==
    ASSUME Prompt, Cancels => Polls, MorphologyInv, [Next]_vars PROVE MorphologyInv'
<1>1. LinkInv /\ ManagerInv /\ WireInv /\ BaseInv' /\ RxInv /\ RxInv'
  BY BaseStays, RxStays DEF MorphologyInv, BaseInv
<1>2. History' /\ Believed' /\ Verified' /\ ShapeInv'
  BY <1>1, HistoryStays, BelievedStays, VerifiedStays, ShapeStays DEF MorphologyInv
<1>3. Quiet' /\ BootQuiet'
  BY <1>1, QuietStays, BootQuietStays DEF MorphologyInv
<1> QED BY <1>1, <1>2, <1>3 DEF MorphologyInv

LEMMA MorphologyHolds == ASSUME Prompt, Cancels => Polls PROVE Spec => []MorphologyInv
<1>1. MorphologyInv /\ [Next]_vars => MorphologyInv'
  BY MorphologyStays
<1> QED BY <1>1, InitMorphology, PTL DEF Spec

(* The state the manager, the bridge and the firmware keep has its type.   *)
THEOREM TypesHold == Spec => []TypeOK
<1>1. Init => BaseInv
  BY InitBase
<1>2. BaseInv /\ [Next]_vars => BaseInv'
  BY BaseStays
<1>3. BaseInv => TypeOK
  BY TypesSplit DEF BaseInv, LinkInv, ManagerInv
<1> QED BY <1>1, <1>2, <1>3, PTL DEF Spec

(* What the bridge knows of the board lags by the unread replies only,     *)
(* however late they are read: this needs no prompt board.                 *)
THEOREM MirrorHolds == Spec => []MirrorLags
<1>1. Init => BaseInv
  BY InitBase
<1>2. BaseInv /\ [Next]_vars => BaseInv'
  BY BaseStays
<1>3. BaseInv => MirrorLags
  BY DEF BaseInv, WireInv
<1> QED BY <1>1, <1>2, <1>3, PTL DEF Spec

(* If a line's reply is parsed within the writer's delay, a state that     *)
(* walks or flies has its mechanism at rest at that limit, and a move that *)
(* reports success is at its own: whatever a poll, a stop, a corrupted     *)
(* line, a signal or a pulled cable did, and whatever was commanded when   *)
(* the prompt came back after a refused close.  The argument uses that a   *)
(* console that can be cancelled has its poll, which empties the           *)
(* firmware's buffer before the operator's next command.                   *)
THEOREM ShapeKnown == ASSUME Prompt, Cancels => Polls PROVE Spec => []ShapeIsKnown
<1>1. MorphologyInv => ShapeIsKnown
  <2> SUFFICES ASSUME MorphologyInv PROVE ShapeIsKnown
    OBVIOUS
  <2>1. ShapeMatchesState
    BY DEF MorphologyInv, ShapeInv, Due, Parked, ShapeMatchesState
  <2>2. MoveVerified
    <3> SUFFICES ASSUME NEW m \in Mover, result[m] = "ok" PROVE ~fw.on /\ position = goal[m]
      BY DEF MoveVerified
    <3>1. m = Shell
      <4>1. m \in Task
        BY DEF Task
      <4> QED BY <4>1 DEF MorphologyInv, BaseInv, LinkInv, Coroutines, At
    <3> QED BY <3>1 DEF MorphologyInv, Verified, Parked
  <2>3. MirrorLags
    BY DEF MorphologyInv, BaseInv, WireInv
  <2> QED BY <2>1, <2>2, <2>3 DEF ShapeIsKnown, HostIsRight
<1> QED BY <1>1, MorphologyHolds, PTL

(* The motor turns in a state that moves the mechanism or in FAULT; only a *)
(* corrupted line or a cancelled move lets a cleared fault find it turning *)
(* in BOOT_SAFE.                                                           *)
THEOREM MotionConfined == ASSUME Prompt, Cancels => Polls PROVE Spec => []MotionIsConfined
<1>1. MorphologyInv => MotionIsConfined
  <2> SUFFICES ASSUME MorphologyInv, fw.on
               PROVE  \/ mode \in Moves \cup {"FAULT"}
                      \/ (Garbles \/ Cancels) /\ mode = "BOOT_SAFE"
    BY DEF MotionIsConfined
  <2>1. mode \in Modes
    BY DEF MorphologyInv, BaseInv, ManagerInv, Commits
  <2>2. mode \notin Walks /\ mode \notin Flies
    BY DEF MorphologyInv, ShapeInv, Due, Parked
  <2>3. mode = "BOOT_SAFE" => Garbles \/ Cancels
    BY LinkAssumption DEF MorphologyInv, BootQuiet, Due, Still
  <2> QED BY <2>1, <2>2, <2>3 DEF Modes, Resting
<1> QED BY <1>1, MorphologyHolds, PTL

-----------------------------------------------------------------------------
(* A stop that reports success. *)

LEMMA StopSucceeds ==
    ASSUME LinkInv, ManagerInv, [Next]_vars, NEW s \in Stopper, result[s] # "ok", result'[s] = "ok"
    PROVE  ~IsMoving(parsed)
<1>1. s \in Task /\ s # Shell /\ s # Poll /\ s \notin Mover
  BY Distinct, LinkAssumption DEF Task
<1>2. ASSUME NEW t \in Task, Turns(t) PROVE ~IsMoving(parsed)
  <2>1. t = s
    BY <1>1, <1>2, TurnsTurn DEF LinkInv, Turn, Same
  <2>2. stage[s] \in {"idle", "halt", "haltcheck"}
    BY <1>1 DEF LinkInv, Coroutines, At, StagesOf
  <2>3. CASE \E o \in Outcome \ {"ok"} : Leave(s, o)
    BY <1>1, <2>3, Left DEF LinkInv
  <2>4. CASE UNCHANGED result
    BY <2>4
  <2>5. CASE Answered(s) /\ stage[s] = "haltcheck"
    <3>1. Leave(s, StopOutcome(s))
      BY <2>5 DEF Answered, Decide
    <3>2. StopOutcome(s) \in Outcome
      BY DEF StopOutcome, Outcome
    <3>3. StopOutcome(s) = "ok"
      BY <1>1, <3>1, <3>2, Left DEF LinkInv
    <3> QED BY <3>3 DEF StopOutcome
  <2>6. Turns(s)
    BY <1>2, <2>1
  <2> QED BY <2>2, <2>3, <2>4, <2>5, <2>6
        DEF Turns, Lock, Take, Claim, Raise, Settle, Answered, Decide, Unanswered, Watch, Nudge,
            Deadline, Waits, Stay, Outcome
<1>3. ASSUME NEW u \in Stopper, Stop(u) PROVE FALSE
  <2>1. u \in Task
    BY <1>3 DEF Task
  <2>2. s = u
    BY <1>1, <1>3, StopTurn DEF LinkInv, Turn, Same
  <2>3. CASE \E o \in Outcome \ {"ok"} : Leave(s, o)
    BY <1>1, <2>3, Left DEF LinkInv
  <2>4. CASE result' = [result EXCEPT ![s] = "none"]
    BY <1>1, <2>4 DEF LinkInv, HostTypes
  <2> QED BY <1>3, <2>2, <2>3, <2>4 DEF Stop, Outcome
<1>4. ASSUME Turn(Shell) PROVE FALSE
  BY <1>1, <1>4 DEF Turn, Same
<1>5. ASSUME UNCHANGED result PROVE FALSE
  BY <1>5
<1>6. CASE LinkStep
  <2>1. CASE \E t \in Task : Send(t)
    BY <1>5, <2>1, SendDoes DEF LinkInv, SendKept
  <2> QED BY <1>2, <1>5, <1>6, <2>1, LinkStepKinds
        DEF PollDue, Read, LimitFound, MoveTimeout, LinkDrop, PortGone, taskVars
<1>7. CASE CallMove
  BY <1>4, <1>7, BeginKept, Headings DEF CallMove, ManagerInv, ManagerTypes
<1>8. CASE Cleanup \/ StopSupervised \/ TickStops
  BY <1>3, <1>8, Distinct DEF Cleanup, StopSupervised, TickStops
<1>9. CASE UNCHANGED linkVars
  BY <1>5, <1>9 DEF linkVars, taskVars
<1>10. CASE Terminate
  <2>1. ASSUME NEW c \in {Shell, ShellStop}, Cancel(c) PROVE FALSE
    BY <1>1, <2>1, CancelTypes DEF LinkInv, Same
  <2> QED BY <1>9, <1>10, <2>1 DEF Terminate
<1>11. CASE DisconnectFails
  BY <1>5, <1>11 DEF DisconnectFails, PortGone, taskVars
<1> QED BY <1>6, <1>7, <1>8, <1>9, <1>10, <1>11, NextKinds, ManagesLink DEF vars

(* A forced stop that reports success has the motor at rest, or a move has *)
(* the port, or the connection is gone.  No move may be cancelled: one     *)
(* cancelled between its command and the reply leaves the port with the    *)
(* motor running, and a stop whose answer came earlier still succeeds.     *)
THEOREM StopIsHonest == ASSUME Prompt, ~Cancels PROVE Spec => StopHonest
<1>1. ASSUME MorphologyInv, [Next]_vars
      PROVE  [\A s \in Stopper : result[s] # "ok" /\ result'[s] = "ok" =>
                ~fw.on \/ ~connected \/ \E m \in Mover : holder = m]_linkVars
  <2> SUFFICES ASSUME NEW s \in Stopper, result[s] # "ok", result'[s] = "ok", fw.on, connected
               PROVE  \E m \in Mover : holder = m
    OBVIOUS
  <2>1. LinkInv /\ ManagerInv /\ History /\ FwInv
    BY <1>1 DEF MorphologyInv, BaseInv, WireInv
  <2>2. ~Seeks(parsed)
    BY <1>1, <2>1, StopSucceeds DEF IsMoving
  <2>3. CASE Starting
    <3>1. holder = Shell
      BY <2>1, <2>3 DEF LinkInv, Coroutines, Starting
    <3> QED BY <3>1, Distinct
  <2>4. CASE ~Starting
    <3>1. Informed
      BY <2>1, <2>4 DEF History, Clean
    <3> QED BY <2>1, <2>2, <3>1, SeeksLimits DEF Informed, Told, FwInv
  <2> QED BY <2>3, <2>4
<1> QED BY <1>1, MorphologyHolds, PTL DEF Spec, StopHonest
=============================================================================
