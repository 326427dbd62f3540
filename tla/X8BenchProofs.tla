---------------------------- MODULE X8BenchProofs -----------------------------
(***************************************************************************)
(* BenchIsHonest for lines of any length.  What is held is tied to the     *)
(* command that runs: a loop that repeats an output was asked for it, and  *)
(* a command that switches safety on has given every output up before.     *)
(* What the bench claims of safety is tied to what is under way: once a    *)
(* safety-on was sent into a line that carried no other switching, nothing *)
(* but a safety-on can reach the flight controller, and nothing but its    *)
(* answer the bench.                                                       *)
(***************************************************************************)
EXTENDS X8Bench, SequenceTheorems, TLAPS

Ops == Asks \cup Modes \cup {"move", "test", "stop"}
Answers == [kind : {Kind(op) : op \in Ops}, good : BOOLEAN]

LoopNames == {"scan", "map", "sniff"}
SafeNames == {"safe", "close"}
Names == LoopNames \cup SafeNames \cup DOMAIN Plans
           \cup {"none", "trigger", "win", "danger", "flight", "cleanup"}
Stages == {"go", "ack", "mode", "state", "run"}

CommandSet == [name : Names, plan : Seq(Ops), at : Stages, took : BOOLEAN]

BenchTypeOK ==
    /\ cmd \in CommandSet
    /\ up \in Seq(Ops) /\ down \in Seq(Answers)

\* A loop was asked for its output; it goes through no requests.
LoopsAsked ==
    cmd.name \in LoopNames => asked /\ cmd.plan = <<>> /\ cmd.at = "run"

\* Whoever switches safety on holds no output, and nobody else does.
SafeIsQuiet ==
    /\ cmd.name \in SafeNames =>
           ~active /\ ~tx /\ cmd.plan \in {<<>>, <<"safe">>} /\ cmd.at \in {"go", "ack"}
    /\ cmd.name \notin SafeNames => cmd.plan \in Seq(Ops \ {"safe"})
    /\ cmd.name \in SafeNames => place # "closed"
    /\ cmd.name = "close" => place = "closing"

\* What waits for an answer, or moves, waits for the head of its plan.
HasRequest ==
    cmd.at \in {"ack", "mode", "state"} \/ (cmd.at = "run" /\ cmd.name \in {"move", "flight"})
        => cmd.plan # <<>>

Quiet == Ops \ {"danger"}
Refusals == {a \in Answers : a.kind = "switch" => ~a.good}

\* A safety-on whose answer is still its own.
AskedIsServed ==
    claim = "asked" =>
        /\ cmd.name \in SafeNames /\ cmd.plan = <<"safe">>
        /\ up \in Seq(Quiet) /\ (safety = "on" \/ down \in Seq(Refusals))

ClaimStands == claim = "on" => safety = "on" /\ up \in Seq(Quiet)

BenchInv ==
    /\ BenchTypeOK /\ HeldWhileAsked /\ LoopsAsked /\ SafeIsQuiet
    /\ HasRequest /\ AskedIsServed /\ ClaimStands

-----------------------------------------------------------------------------
(* The lines *)

\* A step that sends no safety-off, and one that brings no agreement to one.
SendsQuietly == up' \in Seq(Ops) /\ (up \in Seq(Quiet) => up' \in Seq(Quiet))
ReadsQuietly == down' \in Seq(Answers) /\ (down \in Seq(Refusals) => down' \in Seq(Refusals))

LEMMA RequestsAre ==
    /\ Ops = {"danger", "safe", "arm", "disarm", "takeoff", "guided", "land", "move", "test", "stop"}
    /\ Quiet = {"safe", "arm", "disarm", "takeoff", "guided", "land", "move", "test", "stop"}
BY DEF Ops, Quiet, Asks, Modes

LEMMA SendsOne ==
    ASSUME up \in Seq(Ops), NEW op \in Quiet, up' = Append(up, op)
    PROVE  SendsQuietly
BY DEF SendsQuietly, Quiet

LEMMA SendsMore ==
    ASSUME up \in Seq(Ops), NEW more \in Seq(Quiet), up' = up \o more
    PROVE  SendsQuietly
<1>1. more \in Seq(Ops)  BY DEF Quiet
<1>q. QED  BY <1>1, ConcatProperties DEF SendsQuietly

LEMMA SendsBurst ==
    ASSUME up \in Seq(Ops), NEW more \in Seq(Quiet), Zero(more)
    PROVE  SendsQuietly /\ ~active' /\ ~asked'
<1>1. StopBurst \in Seq(Quiet)
  <2>1. <<"stop">> \in Seq(Quiet) /\ <<>> \in Seq(Quiet)  BY RequestsAre
  <2>2. StopBurst \in {<<"stop">>, <<>>}  BY DEF StopBurst
  <2>q. QED  BY <2>1, <2>2
<1>3. up \o StopBurst \in Seq(Ops) /\ (up \in Seq(Quiet) => up \o StopBurst \in Seq(Quiet))
  <2>1. StopBurst \in Seq(Ops)  BY <1>1 DEF Quiet
  <2>q. QED  BY <1>1, <2>1, ConcatProperties
<1>4. more \in Seq(Ops)  BY DEF Quiet
<1>5. up' = (up \o StopBurst) \o more /\ ~active' /\ ~asked'
  BY DEF Zero
<1>q. QED
  BY <1>3, <1>4, <1>5, ConcatProperties DEF SendsQuietly

LEMMA Same ==
    ASSUME up \in Seq(Ops), UNCHANGED up
    PROVE  SendsQuietly
BY DEF SendsQuietly

LEMMA ReadsOne ==
    ASSUME down \in Seq(Answers), down # <<>>, down' = Tail(down)
    PROVE  ReadsQuietly /\ Head(down) \in Answers
BY DEF ReadsQuietly, Refusals

LEMMA Drops ==
    ASSUME down' \in {down, <<>>}, down \in Seq(Answers)
    PROVE  ReadsQuietly
<1>1. <<>> \in Seq(Answers) /\ <<>> \in Seq(Refusals)  OBVIOUS
<1>q. QED  BY <1>1 DEF ReadsQuietly

-----------------------------------------------------------------------------
(* The parts of the invariant *)

LEMMA InitBenchInv == Init => BenchInv
<1>1. <<>> \in Seq(Ops) /\ <<>> \in Seq(Ops \ {"safe"}) /\ <<>> \in Seq(Answers)
  OBVIOUS
<1>0. "none" \in Names /\ "none" \notin LoopNames /\ "none" \notin SafeNames /\ "go" \in Stages
  BY DEF Names, LoopNames, SafeNames, Stages
<1>2. Init => cmd = [name |-> "none", plan |-> <<>>, at |-> "go", took |-> FALSE]
  BY DEF Init, None, Command
<1>4. Init => /\ cmd \in CommandSet
              /\ LoopsAsked /\ SafeIsQuiet /\ HasRequest
  <2>1. "none" # "close"  OBVIOUS
  <2>2. Init => cmd.name = "none" /\ cmd.plan = <<>> /\ cmd.at = "go"
    BY <1>2
  <2>3. Init => LoopsAsked /\ SafeIsQuiet /\ HasRequest
    BY <1>0, <1>1, <2>1, <2>2 DEF LoopsAsked, SafeIsQuiet, HasRequest
  <2>4. Init => cmd \in CommandSet
    <3>1. \A took \in BOOLEAN : [name |-> "none", plan |-> <<>>, at |-> "go", took |-> took]
             \in [name : Names, plan : Seq(Ops), at : Stages, took : BOOLEAN]
      BY <1>0, <1>1
    <3>2. FALSE \in BOOLEAN  OBVIOUS
    <3>q. QED  BY <1>2, <3>1, <3>2 DEF CommandSet
  <2>q. QED  BY <2>3, <2>4
<1>3. Init => BenchTypeOK
  <2>1. Init => up \in Seq(Ops) /\ down \in Seq(Answers)
    BY <1>1 DEF Init
  <2>q. QED  BY <1>4, <2>1 DEF BenchTypeOK
<1>q. QED
  BY <1>3, <1>4 DEF Init, BenchInv, HeldWhileAsked, AskedIsServed, ClaimStands

\* What is claimed of safety stands while safety and the lines stay quiet.
LEMMA ClaimKept ==
    ASSUME BenchInv, claim' \in {claim, "no"}, UNCHANGED safety, SendsQuietly, ReadsQuietly,
           claim' = "asked" => cmd'.name \in SafeNames /\ cmd'.plan = <<"safe">>
    PROVE  AskedIsServed' /\ ClaimStands'
BY DEF BenchInv, AskedIsServed, ClaimStands, SendsQuietly, ReadsQuietly

\* The command that runs: one without loops that switches no safety on, ...
LEMMA PlainCommand ==
    ASSUME NEW name \in Names \ (LoopNames \cup SafeNames), NEW plan \in Seq(Ops \ {"safe"}),
           NEW at \in Stages, NEW took \in BOOLEAN,
           cmd' = [name |-> name, plan |-> plan, at |-> at, took |-> took],
           at \in {"ack", "mode", "state"} \/ (at = "run" /\ name \in {"move", "flight"})
               => plan # <<>>
    PROVE  /\ cmd' \in CommandSet
           /\ LoopsAsked' /\ SafeIsQuiet' /\ HasRequest'
<1>1. plan \in Seq(Ops)  OBVIOUS
<1>2. name # "close"  BY DEF SafeNames
<1>q. QED
  BY <1>1, <1>2 DEF LoopsAsked, SafeIsQuiet, HasRequest, CommandSet

\* ... or none.
LEMMA NoCommand ==
    ASSUME cmd' = None
    PROVE  /\ cmd' \in CommandSet
           /\ LoopsAsked' /\ SafeIsQuiet' /\ HasRequest'
<1>1. <<>> \in Seq(Ops \ {"safe"}) /\ "none" \in Names \ (LoopNames \cup SafeNames) /\ "go" \in Stages
  BY DEF Names, LoopNames, SafeNames, Stages
<1>q. QED
  BY <1>1, PlainCommand DEF None, Command

\* The bench between two commands.
LEMMA Between ==
    ASSUME BenchInv, cmd = None
    PROVE  claim # "asked"
BY DEF BenchInv, AskedIsServed, None, Command, SafeNames

LEMMA PlansAre ==
    /\ DOMAIN Plans = {"arm", "disarm", "takeoff", "land", "move", "launch"}
    /\ \A name \in DOMAIN Plans : Plans[name] \in Seq(Ops \ {"safe"}) /\ Plans[name] # <<>>
<1>1. \A op \in {"arm", "disarm", "takeoff", "land", "move", "guided"} : op \in Ops \ {"safe"}
  BY RequestsAre
<1>2. /\ <<"arm">> \in Seq(Ops \ {"safe"}) /\ <<"disarm">> \in Seq(Ops \ {"safe"})
      /\ <<"takeoff">> \in Seq(Ops \ {"safe"}) /\ <<"land">> \in Seq(Ops \ {"safe"})
      /\ <<"move">> \in Seq(Ops \ {"safe"})
      /\ <<"guided", "arm", "takeoff">> \in Seq(Ops \ {"safe"})
  BY <1>1
<1>3. \A name \in {"arm", "disarm", "takeoff", "land", "move", "launch"} :
         Plans[name] \in {<<"arm">>, <<"disarm">>, <<"takeoff">>, <<"land">>, <<"move">>,
                          <<"guided", "arm", "takeoff">>}
  BY DEF Plans
<1>4. DOMAIN Plans = {"arm", "disarm", "takeoff", "land", "move", "launch"}
  BY DEF Plans
<1>5. \A s \in {<<"arm">>, <<"disarm">>, <<"takeoff">>, <<"land">>, <<"move">>,
               <<"guided", "arm", "takeoff">>} : Len(s) # 0
  OBVIOUS
<1>6. \A name \in DOMAIN Plans : Len(Plans[name]) # 0
  BY <1>3, <1>4, <1>5
<1>q. QED
  BY <1>2, <1>3, <1>4, <1>6

LEMMA NamesAre ==
    Names = {"scan", "map", "sniff", "safe", "close", "none", "trigger", "win", "danger",
             "flight", "cleanup", "arm", "disarm", "takeoff", "land", "move", "launch"}
BY PlansAre DEF Names, LoopNames, SafeNames

\* A step that keeps the parts keeps the whole.
LEMMA Together ==
    ASSUME BenchInv, HeldWhileAsked', cmd' \in CommandSet, LoopsAsked', SafeIsQuiet',
           HasRequest', SendsQuietly, ReadsQuietly, claim' \in {claim, "no"}, UNCHANGED safety,
           claim' = "asked" => cmd'.name \in SafeNames /\ cmd'.plan = <<"safe">>
    PROVE  BenchInv'
<1>1. AskedIsServed' /\ ClaimStands'  BY ClaimKept
<1>q. QED
  BY <1>1 DEF BenchInv, BenchTypeOK, SendsQuietly, ReadsQuietly

-----------------------------------------------------------------------------
(* The steps *)

LEMMA EndsGive ==
    ASSUME Ends(TRUE) \/ Ends(FALSE) \/ Ends(ok)
    PROVE  cmd' = None
BY DEF Ends

LEMMA CommandsKeep ==
    ASSUME BenchInv, Commands
    PROVE  BenchInv'
<1> USE DEF BenchInv, BenchTypeOK, HeldWhileAsked, fcVars
<1>0. /\ cmd = None => claim # "asked"
      /\ "stop" \in Quiet /\ "test" \in Quiet /\ "test" \in Ops \ {"safe"}
      /\ <<>> \in Seq(Quiet) /\ <<>> \in Seq(Ops \ {"safe"})
      /\ <<"test">> \in Seq(Ops \ {"safe"}) /\ <<"test">> # <<>>
      /\ \A name \in {"trigger", "win", "danger", "flight"} \cup DOMAIN Plans :
             name \in Names \ (LoopNames \cup SafeNames)
      /\ {"go", "ack", "run"} \subseteq Stages
  <2>1. Len(<<"test">>) # 0  OBVIOUS
  <2>q. QED
    BY <2>1, Between, RequestsAre, NamesAre, PlansAre DEF LoopNames, SafeNames, Stages
<1>1. CASE Tx(TRUE) \/ Tx(FALSE)
  <2>1. cmd = None /\ cmd' = None /\ ReadsQuietly /\ SendsQuietly
    BY <1>0, <1>1, Drops, Same, SendsBurst DEF Tx, AtPrompt, Ends
  <2>2. HeldWhileAsked'
    BY <1>0, <1>1, SendsBurst, EndsGive DEF Tx
  <2>q. QED
    BY <1>0, <1>1, <2>1, <2>2, NoCommand, Together DEF Tx
<1>2. CASE StopAll
  <2>1. cmd = None /\ cmd' = None /\ ReadsQuietly /\ SendsQuietly
    BY <1>0, <1>2, Drops, SendsBurst DEF StopAll, AtPrompt, Ends
  <2>2. HeldWhileAsked'
    BY <1>0, <1>2, SendsBurst, EndsGive DEF StopAll
  <2>q. QED
    BY <1>0, <1>2, <2>1, <2>2, NoCommand, Together DEF StopAll
<1>3. CASE Hold
  <2>1. cmd = None /\ cmd' = None /\ ReadsQuietly /\ SendsQuietly
    BY <1>0, <1>3, Drops, Same, SendsOne DEF Hold, AtPrompt, Ends
  <2>2. HeldWhileAsked'
    <3>1. CASE Ready /\ active' = TRUE /\ asked' = TRUE /\ UNCHANGED <<tx, sure>>
      BY <3>1 DEF Ready
    <3>2. CASE UNCHANGED <<active, asked, tx, sure>>
      BY <3>2
    <3>q. QED  BY <1>3, <3>1, <3>2 DEF Hold
  <2>q. QED
    BY <1>0, <1>3, <2>1, <2>2, NoCommand, Together DEF Hold
<1>4. CASE \E name \in {"trigger", "win"} : Triggers(name)
  <2>1. cmd = None /\ ReadsQuietly /\ SendsQuietly
    BY <1>0, <1>4, Drops, Same, SendsOne DEF Triggers, AtPrompt
  <2>2. cmd' \in CommandSet /\ LoopsAsked' /\ SafeIsQuiet' /\ HasRequest'
    <3>1. CASE cmd' = None  BY <3>1, NoCommand
    <3>2. CASE \E name \in {"trigger", "win"} : cmd' = Command(name, <<"test">>, "ack")
      BY <1>0, <3>2, PlainCommand DEF Command
    <3>q. QED  BY <1>4, <3>1, <3>2 DEF Triggers, Ends
  <2>3. HeldWhileAsked'
    <3>1. CASE tx' = TRUE /\ UNCHANGED <<sure, active, asked>>
      BY <3>1
    <3>2. CASE UNCHANGED <<active, asked, tx, sure>>
      BY <3>2
    <3>3. CASE sure /\ tx' = TRUE /\ active' = TRUE /\ asked' = TRUE /\ UNCHANGED sure
      BY <3>3
    <3>q. QED  BY <1>4, <3>1, <3>2, <3>3 DEF Triggers
  <2>q. QED
    BY <1>0, <1>4, <2>1, <2>2, <2>3, Together DEF Triggers
<1>5. CASE \E name \in LoopNames : Loops(name)
  <2>1. cmd = None /\ ReadsQuietly /\ SendsQuietly
    BY <1>0, <1>5, Drops, Same, SendsOne, SendsBurst DEF Loops, AtPrompt
  <2>2. ASSUME NEW name \in LoopNames, Loops(name), Ends(FALSE),
               IF name = "sniff" THEN Zero(<<>>) ELSE UNCHANGED <<up, active, asked>>
        PROVE  BenchInv'
    <3>1. HeldWhileAsked'
      BY <1>0, <2>2, SendsBurst, EndsGive DEF Loops
    <3>q. QED  BY <1>0, <2>1, <2>2, <3>1, NoCommand, EndsGive, Together DEF Loops
  <2>3. ASSUME NEW name \in LoopNames, cmd' = Command(name, <<>>, "run"), Loops(name),
               Ready, UNCHANGED <<ok, place>>, asked' = TRUE, active' = (active \/ name # "sniff")
        PROVE  BenchInv'
    <3>1. /\ Ready /\ asked' /\ tx' = tx /\ sure' = sure /\ ok' = ok /\ place' = place
          /\ active' = (active \/ name # "sniff") /\ asked' = TRUE
      BY <2>3 DEF Loops
    <3>2. cmd' \in CommandSet /\ LoopsAsked' /\ SafeIsQuiet' /\ HasRequest'
      BY <1>0, <2>3, <3>1, NamesAre
         DEF Command, CommandSet, LoopsAsked, SafeIsQuiet, HasRequest, LoopNames, SafeNames
    <3>3. HeldWhileAsked'
      BY <2>3, <3>1 DEF Loops, Ready
    <3>q. QED
      BY <1>0, <2>1, <2>3, <3>2, <3>3, Together DEF Loops
  <2>q. QED  BY <1>5, <2>2, <2>3 DEF Loops
<1>6. CASE SafetyOff
  <2>1. cmd = None /\ ReadsQuietly /\ SendsQuietly
    BY <1>0, <1>6, Drops, Same DEF SafetyOff, AtPrompt
  <2>2. cmd' \in CommandSet /\ LoopsAsked' /\ SafeIsQuiet' /\ HasRequest'
    <3>1. <<"danger">> \in Seq(Ops \ {"safe"})  BY RequestsAre
    <3>q. QED  BY <1>0, <1>6, <3>1, PlainCommand DEF SafetyOff, Command
  <2>q. QED
    BY <1>0, <1>6, <2>1, <2>2, Together DEF SafetyOff, AtPrompt, history
<1>7. CASE SafetyOn
  <2>1. cmd = None /\ ReadsQuietly /\ SendsQuietly
    BY <1>0, <1>7, Drops, Same, SendsBurst DEF SafetyOn, AtPrompt
  <2>2. ~active' /\ ~tx'
    BY <1>0, <1>7, SendsBurst DEF SafetyOn
  <2>3. cmd' \in CommandSet /\ LoopsAsked' /\ SafeIsQuiet' /\ HasRequest'
    <3>1. <<"safe">> \in Seq(Ops) /\ "safe" \in Names  BY RequestsAre, NamesAre
    <3>q. QED
      BY <1>0, <1>7, <2>2, <3>1
         DEF SafetyOn, AtPrompt, Command, CommandSet, LoopsAsked, SafeIsQuiet, HasRequest, LoopNames, SafeNames
  <2>q. QED
    BY <1>0, <1>7, <2>1, <2>2, <2>3, Together DEF SafetyOn
<1>8. CASE FlightTest
  <2>1. cmd = None /\ ReadsQuietly /\ SendsQuietly
    BY <1>0, <1>8, Drops, Same, SendsBurst DEF FlightTest, AtPrompt
  <2>2. cmd' \in CommandSet /\ LoopsAsked' /\ SafeIsQuiet' /\ HasRequest'
    <3>1. <<"guided", "arm", "takeoff", "move", "land">> \in Seq(Ops \ {"safe"})  BY RequestsAre
    <3>2. \E plan \in Seq(Ops \ {"safe"}) : cmd' = Command("flight", plan, "go")
      BY <1>0, <1>8, <3>1 DEF FlightTest
    <3>q. QED  BY <1>0, <3>2, PlainCommand DEF Command
  <2>3. HeldWhileAsked'
    BY <1>0, <1>8, SendsBurst DEF FlightTest
  <2>q. QED
    BY <1>0, <1>8, <2>1, <2>2, <2>3, Together DEF FlightTest
<1>9. CASE \E name \in DOMAIN Plans : Flies(name)
  <2>1. cmd = None /\ ReadsQuietly /\ SendsQuietly
    BY <1>0, <1>9, Drops, Same DEF Flies, AtPrompt
  <2>2. cmd' \in CommandSet /\ LoopsAsked' /\ SafeIsQuiet' /\ HasRequest'
    <3>1. CASE cmd' = None  BY <3>1, NoCommand
    <3>2. CASE \E name \in DOMAIN Plans : cmd' = Command(name, Plans[name], "go")
      BY <1>0, <3>2, PlansAre, PlainCommand DEF Command
    <3>q. QED  BY <1>9, <3>1, <3>2 DEF Flies, Ends
  <2>3. HeldWhileAsked'
    BY <1>9, EndsGive DEF Flies, history
  <2>q. QED
    BY <1>0, <1>9, <2>1, <2>2, <2>3, Together DEF Flies, history
<1>q. QED
  BY <1>1, <1>2, <1>3, <1>4, <1>5, <1>6, <1>7, <1>8, <1>9 DEF Commands, LoopNames

LEMMA PlanMoves ==
    ASSUME BenchInv, cmd.plan # <<>>
    PROVE  /\ Head(cmd.plan) \in Ops
           /\ Tail(cmd.plan) \in Seq(Ops)
           /\ cmd.name \notin LoopNames
           /\ cmd.name \in SafeNames => Head(cmd.plan) = "safe" /\ Tail(cmd.plan) = <<>>
           /\ cmd.name \notin SafeNames =>
                  Head(cmd.plan) # "safe" /\ Tail(cmd.plan) \in Seq(Ops \ {"safe"})
<1>1. cmd.plan \in Seq(Ops)
  BY DEF BenchInv, BenchTypeOK, CommandSet
<1>2. cmd.plan = <<"safe">> => Head(cmd.plan) = "safe" /\ Tail(cmd.plan) = <<>>
  OBVIOUS
<1>3. cmd.plan \in Seq(Ops \ {"safe"})
         => Head(cmd.plan) \in Ops \ {"safe"} /\ Tail(cmd.plan) \in Seq(Ops \ {"safe"})
  OBVIOUS
<1>q. QED
  BY <1>1, <1>2, <1>3 DEF BenchInv, LoopsAsked, SafeIsQuiet

\* A plan that goes on, or is dropped.
LEMMA PlanKeeps ==
    ASSUME BenchInv, cmd.plan # <<>>, NEW plan, NEW at \in Stages, NEW took \in BOOLEAN,
           plan \in {cmd.plan, Tail(cmd.plan), <<>>},
           at # "go" => plan = cmd.plan,
           cmd.name \in SafeNames => at \in {"go", "ack"},
           cmd' = [name |-> cmd.name, plan |-> plan, at |-> at, took |-> took],
           active' => active, tx' => tx, place' = place
    PROVE  cmd' \in CommandSet /\ LoopsAsked' /\ SafeIsQuiet' /\ HasRequest'
<1>1. cmd.name \in Names /\ cmd.plan \in Seq(Ops)
  BY DEF BenchInv, BenchTypeOK, CommandSet
<1>2. <<>> \in Seq(Ops) /\ <<>> \in Seq(Ops \ {"safe"})
  OBVIOUS
<1>3. cmd' \in CommandSet
  BY <1>1, <1>2, PlanMoves DEF CommandSet
<1>4. cmd'.name = cmd.name /\ cmd'.plan = plan /\ cmd'.at = at
  OBVIOUS
<1>5. LoopsAsked'
  BY <1>4, PlanMoves DEF LoopsAsked
<1>6. SafeIsQuiet'
  BY <1>2, <1>4, PlanMoves DEF SafeIsQuiet, BenchInv
<1>7. HasRequest'
  BY <1>4 DEF HasRequest
<1>q. QED
  BY <1>3, <1>5, <1>6, <1>7

LEMMA KindsAre ==
    /\ \A op \in Ops : Kind(op) = "switch" <=> op \in {"danger", "safe"}
    /\ Kind("safe") = "switch"
BY RequestsAre DEF Kind

LEMMA SilenceIsQuiet ==
    ASSUME BenchInv, Silent("switch")
    PROVE  up \in Seq(Quiet) /\ down \in Seq(Refusals)
<1>1. up \in Seq(Ops) /\ down \in Seq(Answers)
  BY DEF BenchInv, BenchTypeOK
<1>2. \A i \in DOMAIN up : up[i] \in Quiet
  BY <1>1, KindsAre, RequestsAre DEF Silent
<1>3. \A i \in DOMAIN down : down[i] \in Refusals
  BY <1>1 DEF Silent, Refusals
<1>q. QED
  BY <1>1, <1>2, <1>3

LEMMA RequestsKeep ==
    ASSUME BenchInv, Requests
    PROVE  BenchInv'
<1> USE DEF BenchInv, BenchTypeOK, HeldWhileAsked, fcVars
<1> DEFINE op == Head(cmd.plan)
           next == IF op \in Asks THEN "ack" ELSE IF op \in Modes THEN "mode" ELSE "run"
<1>1. cmd.plan # <<>> /\ op \in Ops /\ cmd' = [cmd EXCEPT !.at = next]
      /\ UNCHANGED <<place, tx, sure, down, fcVars>>
  BY PlanMoves DEF Requests
<1>2. next \in Stages /\ (op = "safe" => next = "ack")
  BY DEF Stages, Asks
<1>3. /\ cmd' = [name |-> cmd.name, plan |-> cmd.plan, at |-> next, took |-> cmd.took]
      /\ cmd.took \in BOOLEAN /\ cmd'.plan = cmd.plan /\ cmd'.name = cmd.name
  <2> HIDE DEF next, op
  <2>q. QED  BY <1>1 DEF CommandSet
<1>4. ReadsQuietly
  BY <1>1, Drops
<1>5. /\ active' => active /\ UNCHANGED asked
      /\ up' \in Seq(Ops)
      /\ op # "danger" => SendsQuietly
  <2>1. CASE op = "disarm"
    <3>1. <<"disarm">> \in Seq(Quiet)  BY RequestsAre
    <3>q. QED  BY <2>1, <3>1, SendsBurst DEF Requests, SendsQuietly
  <2>2. CASE op # "disarm"
    <3>1. up' = Append(up, op) /\ UNCHANGED <<active, asked>>  BY <2>2 DEF Requests
    <3>2. op # "danger" => op \in Quiet  BY <1>1 DEF Quiet
    <3>q. QED  BY <1>1, <3>1, <3>2, SendsOne
  <2>q. QED  BY <2>1, <2>2
<1>6. cmd' \in CommandSet /\ LoopsAsked' /\ SafeIsQuiet' /\ HasRequest'
  <2> HIDE DEF next, op
  <2>1. cmd.name \in SafeNames => next \in {"go", "ack"}
    BY <1>1, <1>2, PlanMoves DEF op
  <2>q. QED
    BY <1>1, <1>2, <1>3, <1>5, <2>1, PlanKeeps
<1>7. HeldWhileAsked'
  BY <1>1, <1>5
<1>8. CASE op = "danger"
  <2>1. claim' = "no"  BY <1>8 DEF Requests
  <2>q. QED  BY <1>4, <1>5, <1>6, <1>7, <2>1 DEF AskedIsServed, ClaimStands, ReadsQuietly
<1>9. CASE op = "safe"
  <2>1. claim' = IF Silent("switch") THEN "asked" ELSE "no"  BY <1>9 DEF Requests
  <2>2. cmd.name \in SafeNames /\ cmd.plan = <<"safe">>
    BY <1>1, <1>9, PlanMoves DEF SafeIsQuiet
  <2>3. SendsQuietly  BY <1>5, <1>9
  <2>4. CASE Silent("switch")
    BY <1>3, <1>4, <1>5, <1>6, <1>7, <2>1, <2>2, <2>3, <2>4, SilenceIsQuiet
       DEF AskedIsServed, ClaimStands, ReadsQuietly, SendsQuietly
  <2>5. CASE ~Silent("switch")
    BY <1>4, <1>5, <1>6, <1>7, <2>1, <2>5 DEF AskedIsServed, ClaimStands, ReadsQuietly
  <2>q. QED  BY <2>4, <2>5
<1>10. CASE op \notin {"danger", "safe"}
  <2>1. claim' = claim  BY <1>10 DEF Requests
  <2>2. claim # "asked"  BY <1>1, <1>10, PlanMoves DEF AskedIsServed
  <2>3. SendsQuietly  BY <1>5, <1>10
  <2> HIDE DEF op, next
  <2>q. QED  BY <1>1, <1>4, <1>6, <1>7, <2>1, <2>2, <2>3, Together
<1>q. QED
  BY <1>8, <1>9, <1>10

\* A step of the plan that leaves the lines, and what is held, as they are.
LEMMA PlanSteps ==
    ASSUME BenchInv, cmd.plan # <<>>, cmd.name \notin SafeNames,
           Fails \/ Advances \/ (\E at \in {"state", "run"} : cmd' = [cmd EXCEPT !.at = at]),
           UNCHANGED <<place, tx, active, sure, asked, up, claim, safety>>, ReadsQuietly
    PROVE  BenchInv'
<1>0. cmd \in CommandSet /\ up \in Seq(Ops)
  BY DEF BenchInv, BenchTypeOK
<1>1. cmd.took \in BOOLEAN /\ (cmd.took \/ Head(cmd.plan) = "takeoff") \in BOOLEAN
      /\ {"go", "state", "run"} \subseteq Stages
  BY <1>0 DEF CommandSet, Stages
<1>2. cmd' \in CommandSet /\ LoopsAsked' /\ SafeIsQuiet' /\ HasRequest'
  <2>1. CASE Fails
    <3>1. cmd' = [name |-> cmd.name, at |-> "go", took |-> cmd.took,
                  plan |-> IF cmd.name = "cleanup" THEN Tail(cmd.plan) ELSE <<>>]
      BY <1>0, <2>1 DEF Fails, CommandSet
    <3>q. QED  BY <1>1, <3>1, PlanKeeps
  <2>2. CASE Advances
    <3>1. cmd' = [name |-> cmd.name, plan |-> Tail(cmd.plan), at |-> "go",
                  took |-> cmd.took \/ Head(cmd.plan) = "takeoff"]
      BY <1>0, <2>2 DEF Advances, CommandSet
    <3>q. QED  BY <1>1, <3>1, PlanKeeps
  <2>3. ASSUME NEW at \in {"state", "run"}, cmd' = [cmd EXCEPT !.at = at]
        PROVE  cmd' \in CommandSet /\ LoopsAsked' /\ SafeIsQuiet' /\ HasRequest'
    <3>1. cmd' = [name |-> cmd.name, plan |-> cmd.plan, at |-> at, took |-> cmd.took]
      BY <1>0, <2>3 DEF CommandSet
    <3>q. QED  BY <1>1, <3>1, PlanKeeps
  <2>q. QED  BY <2>1, <2>2, <2>3
<1>3. SendsQuietly  BY <1>0, Same
<1>4. HeldWhileAsked'  BY DEF BenchInv, HeldWhileAsked
<1>5. claim # "asked"  BY DEF BenchInv, AskedIsServed
<1>q. QED
  BY <1>2, <1>3, <1>4, <1>5, Together

LEMMA AnsweredKeeps ==
    ASSUME BenchInv, Answered
    PROVE  BenchInv'
<1> USE DEF BenchInv, BenchTypeOK
<1> DEFINE op == Head(cmd.plan)
<1>1. /\ cmd.at = "ack" /\ cmd.plan # <<>> /\ op \in Ops
      /\ UNCHANGED <<place, tx, active, up, safety, asked>>
  BY PlanMoves DEF Answered, HasRequest, fcVars
<1>2. ReadsQuietly /\ Head(down) \in Answers /\ Head(down).kind = Kind(op)
  BY ReadsOne DEF Answered
<1>3. SendsQuietly  BY <1>1, Same
<1>4. CASE op \in {"danger", "safe"}
  <2>1. Head(down).kind = "switch"  BY <1>1, <1>2, <1>4, KindsAre
  <2>2. /\ cmd.took \in BOOLEAN /\ (cmd.took \/ op = "takeoff") \in BOOLEAN
        /\ "go" \in Stages
    BY DEF CommandSet, Stages
  <2>3. CASE Head(down).good
    <3>1. /\ sure' = (op = "danger") /\ Advances
          /\ claim' = IF op = "safe" /\ claim = "asked" THEN "on" ELSE "no"
      BY <1>4, <2>3 DEF Answered
    <3>2. cmd' = [name |-> cmd.name, plan |-> Tail(cmd.plan), at |-> "go",
                  took |-> cmd.took \/ op = "takeoff"]
      BY <3>1 DEF Advances, CommandSet
    <3>3. cmd' \in CommandSet /\ LoopsAsked' /\ SafeIsQuiet' /\ HasRequest'
      <4> HIDE DEF op
      <4>q. QED  BY <1>1, <2>2, <3>2, PlanKeeps
    <3>4. HeldWhileAsked'
      BY <1>1, <1>4, <3>1, PlanMoves DEF HeldWhileAsked, SafeIsQuiet
    <3>5. claim = "asked" => safety = "on"
      <4>1. down \notin Seq(Refusals)
        BY <2>1, <2>3 DEF Answered, Refusals
      <4>q. QED  BY <4>1 DEF AskedIsServed
    <3>6. AskedIsServed' /\ ClaimStands'
      BY <1>1, <1>3, <3>1, <3>5 DEF AskedIsServed, ClaimStands
    <3>q. QED  BY <1>1, <1>2, <3>3, <3>4, <3>6 DEF ReadsQuietly
  <2>4. CASE ~Head(down).good
    <3>1. cmd' = [cmd EXCEPT !.at = "go"] /\ UNCHANGED <<sure, claim>>
      BY <1>4, <2>4 DEF Answered
    <3>2. cmd' = [name |-> cmd.name, plan |-> cmd.plan, at |-> "go", took |-> cmd.took]
      BY <3>1 DEF CommandSet
    <3>3. cmd' \in CommandSet /\ LoopsAsked' /\ SafeIsQuiet' /\ HasRequest'
      BY <1>1, <2>2, <3>2, PlanKeeps
    <3>4. HeldWhileAsked'
      BY <1>1, <3>1 DEF HeldWhileAsked
    <3>5. claim' = "asked" => cmd'.name \in SafeNames /\ cmd'.plan = <<"safe">>
      BY <3>1, <3>2 DEF AskedIsServed
    <3>q. QED  BY <1>1, <1>2, <1>3, <3>1, <3>3, <3>4, <3>5, Together
  <2>q. QED  BY <2>3, <2>4
<1>5. CASE op \notin {"danger", "safe"}
  <2>1. UNCHANGED <<sure, claim>>
        /\ (Fails \/ Advances \/ (\E at \in {"state", "run"} : cmd' = [cmd EXCEPT !.at = at]))
    BY <1>5 DEF Answered
  <2>2. cmd.name \notin SafeNames  BY <1>1, <1>5, PlanMoves
  <2>q. QED  BY <1>1, <1>2, <2>1, <2>2, PlanSteps
<1>q. QED
  BY <1>4, <1>5

LEMMA TimesOutKeeps ==
    ASSUME BenchInv, TimesOut
    PROVE  BenchInv'
<1> USE DEF BenchInv, BenchTypeOK
<1> DEFINE op == Head(cmd.plan)
<1>1. /\ cmd.at = "ack" /\ cmd.plan # <<>> /\ op \in Ops
      /\ UNCHANGED <<place, tx, active, sure, up, safety, asked, claim>>
  BY PlanMoves DEF TimesOut, HasRequest, fcVars, history
<1>2. ReadsQuietly /\ SendsQuietly
  BY <1>1, Same, Drops DEF TimesOut
<1>3. CASE op \in {"danger", "safe"}
  <2>1. cmd.took \in BOOLEAN /\ "go" \in Stages
    BY DEF CommandSet, Stages
  <2>2. cmd' = [name |-> cmd.name, plan |-> cmd.plan, at |-> "go", took |-> cmd.took]
    BY <1>3 DEF TimesOut, CommandSet
  <2>3. cmd' \in CommandSet /\ LoopsAsked' /\ SafeIsQuiet' /\ HasRequest'
    BY <1>1, <2>1, <2>2, PlanKeeps
  <2>4. HeldWhileAsked'
    BY <1>1 DEF HeldWhileAsked
  <2>5. claim' = "asked" => cmd'.name \in SafeNames /\ cmd'.plan = <<"safe">>
    BY <1>1, <2>2 DEF AskedIsServed
  <2>q. QED  BY <1>1, <1>2, <2>3, <2>4, <2>5, Together
<1>4. CASE op \notin {"danger", "safe"}
  <2>1. Fails \/ (\E at \in {"state", "run"} : cmd' = [cmd EXCEPT !.at = at])
    BY <1>4 DEF TimesOut
  <2>2. cmd.name \notin SafeNames  BY <1>1, <1>4, PlanMoves
  <2>q. QED  BY <1>1, <1>2, <2>1, <2>2, PlanSteps
<1>q. QED
  BY <1>3, <1>4

LEMMA BarsAndConfirmsKeep ==
    ASSUME BenchInv, Bars \/ Confirms
    PROVE  BenchInv'
<1>1. /\ cmd.plan # <<>> /\ (Fails \/ Advances)
      /\ UNCHANGED <<place, tx, active, sure, up, down, safety, asked, claim>>
  BY DEF Bars, Confirms, BenchInv, HasRequest, fcVars, history
<1>2. cmd.name \notin SafeNames
  BY <1>1, PlanMoves DEF Bars, Barred, Confirms, BenchInv, SafeIsQuiet
<1>3. ReadsQuietly  BY <1>1, Drops DEF BenchInv, BenchTypeOK
<1>q. QED
  BY <1>1, <1>2, <1>3, PlanSteps

LEMMA CleanupIsPlain ==
    ASSUME cmd' = Cleanup
    PROVE  cmd' \in CommandSet /\ LoopsAsked' /\ SafeIsQuiet' /\ HasRequest'
<1>1. <<"land", "disarm">> \in Seq(Ops \ {"safe"}) /\ <<"disarm">> \in Seq(Ops \ {"safe"})
  BY RequestsAre
<1>2. "cleanup" \in Names \ (LoopNames \cup SafeNames) /\ "go" \in Stages /\ FALSE \in BOOLEAN
  BY NamesAre DEF LoopNames, SafeNames, Stages
<1>q. QED
  BY <1>1, <1>2, PlainCommand DEF Cleanup, Command

LEMMA FinishesKeeps ==
    ASSUME BenchInv, Finishes
    PROVE  BenchInv'
<1> USE DEF BenchInv, BenchTypeOK
<1>1. /\ cmd.plan = <<>>
      /\ UNCHANGED <<tx, active, sure, up, down, safety, asked, claim>>
      /\ cmd' = Cleanup \/ cmd' = None
  BY EndsGive DEF Finishes, fcVars, history
<1>2. claim # "asked"
  <2>1. Len(<<"safe">>) # 0  OBVIOUS
  <2>q. QED  BY <1>1, <2>1 DEF AskedIsServed
<1>3. cmd' \in CommandSet /\ LoopsAsked' /\ SafeIsQuiet' /\ HasRequest'
  <2>1. CASE cmd' = Cleanup
    BY <2>1, CleanupIsPlain
  <2>q. QED  BY <1>1, <2>1, NoCommand
<1>4. HeldWhileAsked'  BY <1>1 DEF HeldWhileAsked
<1>q. QED
  BY <1>1, <1>2, <1>3, <1>4, Same, Drops, Together

LEMMA LoopEndsKeeps ==
    ASSUME BenchInv, LoopEnds
    PROVE  BenchInv'
<1> USE DEF BenchInv, BenchTypeOK
<1>1. /\ cmd.at = "run" /\ cmd.name \notin SafeNames
      /\ UNCHANGED <<sure, down, safety, claim>>
  BY DEF LoopEnds, fcVars, SafeIsQuiet
<1>2. claim # "asked"  BY <1>1 DEF AskedIsServed
<1>3. ReadsQuietly  BY <1>1, Drops
<1>4. <<>> \in Seq(Quiet)  OBVIOUS
<1>5. CASE Zero(<<>>) /\ cmd' = None
  <2>1. SendsQuietly /\ HeldWhileAsked'  BY <1>4, <1>5, SendsBurst DEF HeldWhileAsked
  <2>q. QED  BY <1>1, <1>2, <1>3, <1>5, <2>1, NoCommand, Together
<1>6. CASE UNCHANGED <<up, active, asked, tx>> /\ cmd' = None
  <2>1. SendsQuietly /\ HeldWhileAsked'  BY <1>1, <1>6, Same DEF HeldWhileAsked
  <2>q. QED  BY <1>1, <1>2, <1>3, <1>6, <2>1, NoCommand, Together
<1>7. CASE /\ cmd.name \in {"move", "flight"}
           /\ UNCHANGED <<up, active, asked, tx, place>> /\ Advances
  <2>1. cmd.plan # <<>>  BY <1>1, <1>7 DEF HasRequest
  <2>q. QED  BY <1>1, <1>3, <1>7, <2>1, PlanSteps
<1>q. QED
  <2>1. \A good : Ends(good) => cmd' = None  BY DEF Ends
  <2>q. QED  BY <1>5, <1>6, <1>7, <2>1 DEF LoopEnds

LEMMA ProcessEndKeeps ==
    ASSUME BenchInv, Exit \/ Interrupts \/ Closes \/ Closed \/ Dies
    PROVE  BenchInv'
<1> USE DEF BenchInv, BenchTypeOK
<1>1. ReadsQuietly /\ UNCHANGED safety
  BY Drops DEF Exit, Interrupts, Closes, Closed, Dies, fcVars
<1>2. <<>> \in Seq(Quiet)  OBVIOUS
<1>3. CASE Exit
  <2>1. SendsQuietly /\ HeldWhileAsked' /\ cmd' = None /\ claim' = claim /\ claim # "asked"
    BY <1>2, <1>3, SendsBurst, Between DEF Exit, AtPrompt, HeldWhileAsked
  <2>q. QED  BY <1>1, <2>1, NoCommand, Together
<1>4. CASE Interrupts
  <2>1. SendsQuietly /\ HeldWhileAsked'
    <3>1. CASE Zero(<<>>)  BY <1>2, <3>1, SendsBurst DEF HeldWhileAsked
    <3>2. CASE UNCHANGED <<up, active, asked, tx>>
      BY <1>4, <3>2, Same DEF Interrupts, HeldWhileAsked
    <3>q. QED  BY <1>4, <3>1, <3>2 DEF Interrupts
  <2>2. cmd' \in CommandSet /\ LoopsAsked' /\ SafeIsQuiet' /\ HasRequest'
    BY <1>4, NoCommand, CleanupIsPlain DEF Interrupts
  <2>3. claim' \in {claim, "no"} /\ claim' # "asked"
    BY <1>4 DEF Interrupts, AskedIsServed, SafeIsQuiet, SafeNames
  <2>q. QED  BY <1>1, <2>1, <2>2, <2>3, Together
<1>5. CASE Closes
  <2>1. claim' = claim /\ claim # "asked"  BY <1>5, Between DEF Closes
  <2>2. CASE Gone /\ UNCHANGED up
    <3>1. SendsQuietly /\ HeldWhileAsked'  BY <2>2, Same DEF Gone, HeldWhileAsked
    <3>q. QED  BY <1>1, <2>1, <2>2, <3>1, NoCommand, Together DEF Gone
  <2>3. CASE Zero(<<>>) /\ tx' = FALSE /\ cmd' = Command("close", <<"safe">>, "go") /\ place' = place
    <3>1. SendsQuietly /\ ~active' /\ ~tx' /\ HeldWhileAsked'
      BY <1>2, <2>3, SendsBurst DEF HeldWhileAsked
    <3>2. /\ <<"safe">> \in Seq(Ops) /\ "close" \in Names /\ "go" \in Stages /\ FALSE \in BOOLEAN
      BY RequestsAre, NamesAre DEF Stages
    <3>3. \A took \in BOOLEAN :
            [name |-> "close", plan |-> <<"safe">>, at |-> "go", took |-> took] \in CommandSet
      BY <3>2 DEF CommandSet
    <3>4. cmd' \in CommandSet  BY <2>3, <3>2, <3>3 DEF Command
    <3>5. cmd'.name = "close" /\ cmd'.plan = <<"safe">> /\ cmd'.at = "go"
      BY <2>3 DEF Command
    <3>6. LoopsAsked' /\ SafeIsQuiet' /\ HasRequest'
      BY <1>5, <2>3, <3>1, <3>5
         DEF Closes, LoopsAsked, SafeIsQuiet, HasRequest, LoopNames, SafeNames
    <3>q. QED  BY <1>1, <2>1, <3>1, <3>4, <3>6, Together
  <2>q. QED  BY <1>5, <2>2, <2>3 DEF Closes
<1>6. CASE Closed \/ Dies
  <2>1. claim' \in {claim, "no"} /\ claim' # "asked"
    <3>1. Len(<<"safe">>) # 0  OBVIOUS
    <3>2. CASE Closed
      <4>1. cmd.plan = <<>> /\ claim' = claim  BY <3>2 DEF Closed
      <4>q. QED  BY <3>1, <4>1 DEF AskedIsServed
    <3>q. QED  BY <1>6, <3>2 DEF Dies
  <2>2. SendsQuietly /\ HeldWhileAsked' /\ cmd' = None
    BY <1>6, Same DEF Closed, Dies, Gone, HeldWhileAsked
  <2>q. QED  BY <1>1, <2>1, <2>2, NoCommand, Together
<1>q. QED
  BY <1>3, <1>4, <1>5, <1>6

\* What happens around a command that runs on.
LEMMA RunsOn ==
    ASSUME BenchInv, UNCHANGED <<cmd, place, sure, claim, safety>>, tx' = tx, asked' = asked,
           active' => active \/ (asked /\ tx /\ sure), cmd.name \in SafeNames => ~active',
           SendsQuietly, ReadsQuietly
    PROVE  BenchInv'
<1>1. cmd' \in CommandSet /\ LoopsAsked' /\ HasRequest'
  BY DEF BenchInv, BenchTypeOK, LoopsAsked, HasRequest
<1>2. SafeIsQuiet' /\ HeldWhileAsked'
  BY DEF BenchInv, SafeIsQuiet, HeldWhileAsked
<1>3. claim' = "asked" => cmd'.name \in SafeNames /\ cmd'.plan = <<"safe">>
  BY DEF BenchInv, AskedIsServed
<1>q. QED
  BY <1>1, <1>2, <1>3, Together

LEMMA LoopsKeep ==
    ASSUME BenchInv, Refreshes \/ Repeats \/ Continues
    PROVE  BenchInv'
<1> USE DEF BenchInv, BenchTypeOK
<1>1. UNCHANGED <<cmd, place, tx, sure, claim, safety, asked, down>>
  BY DEF Refreshes, Repeats, Continues, cliVars, fcVars, history
<1>2. ReadsQuietly  BY <1>1, Drops
<1>3. "test" \in Quiet /\ "stop" \in Quiet  BY RequestsAre
<1>4. CASE Refreshes \/ Repeats
  <2>1. SendsQuietly /\ active' = active
    BY <1>3, <1>4, SendsOne DEF Refreshes, Repeats, cliVars
  <2>q. QED  BY <1>1, <1>2, <2>1, RunsOn DEF SafeIsQuiet
<1>5. CASE Continues
  <2>1. <<"test">> \in Seq(Quiet) /\ <<"stop", "test">> \in Seq(Quiet)  BY <1>3
  <2>2. SendsQuietly  BY <1>5, <2>1, SendsMore DEF Continues
  <2>3. cmd.name \in LoopNames /\ asked /\ tx /\ sure
    BY <1>5 DEF Continues, LoopsAsked, LoopNames, Ready
  <2>q. QED
    BY <1>1, <1>2, <2>2, <2>3, RunsOn DEF LoopNames, SafeNames
<1>q. QED
  BY <1>4, <1>5

LEMMA LinesKeep ==
    ASSUME BenchInv, Polls \/ Hears \/ Loses \/ Unplug \/ Expires \/ Pilot
    PROVE  BenchInv'
<1> USE DEF BenchInv, BenchTypeOK
<1>1. UNCHANGED <<cmd, place, tx, sure, claim, safety, asked, active>>
  BY DEF Polls, Hears, Loses, Unplug, Expires, Pilot, cliVars, fcVars, history
<1>2. ReadsQuietly
  BY Drops, ReadsOne DEF Polls, Hears, Loses, Unplug, Expires, Pilot
<1>3. SendsQuietly
  <2>1. CASE up' = Tail(up) /\ up # <<>>  BY <2>1 DEF SendsQuietly
  <2>2. CASE up' = <<>>  BY <2>2 DEF SendsQuietly
  <2>3. CASE up' = up  BY <2>3, Same
  <2>q. QED  BY <2>1, <2>2, <2>3 DEF Polls, Hears, Loses, Unplug, Expires, Pilot
<1>q. QED
  BY <1>1, <1>2, <1>3, RunsOn DEF SafeIsQuiet

LEMMA ReceivesKeeps ==
    ASSUME BenchInv, Receives
    PROVE  BenchInv'
<1> USE DEF BenchInv, BenchTypeOK
<1> DEFINE op == Head(up)
<1>1. PICK good \in {Able(op), FALSE} :
        /\ Takes(op, good)
        /\ \/ UNCHANGED down
           \/ down' = Append(down, [kind |-> Kind(op), good |-> good])
  BY DEF Receives
<1>2. /\ up # <<>> /\ up' = Tail(up) /\ op \in Ops
      /\ UNCHANGED <<cmd, place, tx, sure, active, asked, claim>>
  BY DEF Receives, cliVars, history
<1>3. good \in BOOLEAN
  <2>1. Able(op) \in BOOLEAN
    BY RequestsAre DEF Able
  <2>q. QED  BY <2>1
<1>4. [kind |-> Kind(op), good |-> good] \in Answers
  BY <1>2, <1>3 DEF Answers
<1>5. up' \in Seq(Ops) /\ down' \in Seq(Answers)
  <2> HIDE DEF op
  <2>1. up' \in Seq(Ops)  BY <1>2
  <2>2. CASE down' = Append(down, [kind |-> Kind(op), good |-> good])
    BY <1>4, <2>1, <2>2
  <2>q. QED  BY <1>1, <2>1, <2>2
<1>6. CASE up \in Seq(Quiet)
  <2>1. up' \in Seq(Quiet) /\ op \in Quiet  BY <1>2, <1>6
  <2>2. op # "danger"  BY <2>1 DEF Quiet
  <2>3. safety = "on" => safety' = "on"
    BY <1>1, <2>2 DEF Takes
  <2>4. down \in Seq(Refusals) => safety' = "on" \/ down' \in Seq(Refusals)
    <3>1. CASE op = "safe" /\ good
      BY <1>1, <3>1 DEF Takes
    <3>2. CASE ~(op = "safe" /\ good)
      <4>1. Kind(op) = "switch" => ~good  BY <1>2, <2>2, <3>2, KindsAre
      <4>2. [kind |-> Kind(op), good |-> good] \in Refusals
        BY <1>4, <4>1 DEF Refusals
      <4> HIDE DEF op
      <4>q. QED  BY <1>1, <4>2
    <3>q. QED  BY <3>1, <3>2
  <2>5. AskedIsServed' /\ ClaimStands'
    BY <1>2, <2>1, <2>3, <2>4 DEF AskedIsServed, ClaimStands
  <2>q. QED
    BY <1>2, <1>5, <2>5 DEF HeldWhileAsked, LoopsAsked, SafeIsQuiet, HasRequest
<1>7. CASE up \notin Seq(Quiet)
  <2>1. claim = "no"  \/ claim \notin {"asked", "on"}
    BY <1>7 DEF AskedIsServed, ClaimStands
  <2>q. QED
    BY <1>2, <1>5, <2>1
       DEF HeldWhileAsked, LoopsAsked, SafeIsQuiet, HasRequest, AskedIsServed, ClaimStands
<1>q. QED
  BY <1>6, <1>7

LEMMA NextKeepsBench ==
    ASSUME BenchInv, [Next]_vars
    PROVE  BenchInv'
<1>1. CASE UNCHANGED vars
  BY <1>1
     DEF vars, cliVars, fcVars, history, BenchInv, BenchTypeOK, HeldWhileAsked, LoopsAsked,
         SafeIsQuiet, HasRequest, AskedIsServed, ClaimStands
<1>2. CASE GoesOn
  BY <1>2, RequestsKeep, BarsAndConfirmsKeep, FinishesKeeps, AnsweredKeeps, TimesOutKeeps,
     LoopEndsKeeps, ProcessEndKeeps DEF GoesOn
<1>3. CASE Next /\ ~GoesOn
  BY <1>3, CommandsKeep, ProcessEndKeeps, LoopsKeep, LinesKeep, ReceivesKeeps
     DEF Next, Reads, Serves, Rests
<1>q. QED
  BY <1>1, <1>2, <1>3

LEMMA AlwaysBenchInv == Spec => []BenchInv
BY InitBenchInv, NextKeepsBench, PTL DEF Spec

\* The bench repeats an output only while it was asked for, with the local
\* enable and a confirmed safety-off, and a confirmed safety-on is on, for
\* lines of any length, whatever was lost, broken or interrupted (the finally
\* clauses of the loops, command_safety, close).
THEOREM BenchStaysHonest == Spec => []BenchIsHonest
<1>1. BenchInv => BenchIsHonest
  BY DEF BenchInv, BenchIsHonest, RestoresSafety, ClaimStands, AskedIsServed, SafeIsQuiet
<1>q. QED
  BY <1>1, AlwaysBenchInv, PTL

=============================================================================
