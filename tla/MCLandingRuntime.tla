--------------------------- MODULE MCLandingRuntime ---------------------------
(* The landing runtime on a small instance: one session with a few         *)
(* snapshots and contact changes, and any number of trips; and the cycles  *)
(* of LandingCycle and the samples of FootContact, a few of them after     *)
(* one another.                                                            *)
EXTENDS LandingRuntime, LandingCycle

MCMove == {[shift |-> 1, joint |-> 1, limited |-> FALSE], [shift |-> 2, joint |-> 0, limited |-> TRUE]}

MCCycleInput ==
  [active : BOOLEAN, now : {3}, at : 0..3, level : [Feet -> Level], schedule : SUBSET Feet, rise : {GainRise},
   baseline : [Rotors -> {2}], residual : [Rotors -> {0, 1}], moves : [Feet -> MCMove],
   steps : {0, FootCount}, bad : {{}, {"solver"}}]

FreshCycle ==
  [det |-> DetectorReset, gain |-> 0, latched |-> FALSE, lost |-> FALSE,
   legs |-> [f \in Feet |-> [shift |-> 0, joint |-> 0, stood |-> FALSE, gen |-> 0]]]

Cycles(states) == {<<c, Cycle(c, in)>> : c \in states, in \in MCCycleInput}

AfterCycles[n \in 0..4] ==
  IF n = 0 THEN {FreshCycle} ELSE {r[2].to : r \in Cycles(AfterCycles[n - 1])}

(* A few cycles reach every outcome; the session stays latched, and a      *)
(* bundle needs one that is not.                                           *)
ASSUME CyclesReach ==
  LET all == Cycles(AfterCycles[3])
  IN /\ {r[2].kind : r \in all} = {"inactive", "failed", "lost", "replan", "bundle"}
     /\ \A r \in all : r[1].latched => r[2].to.latched /\ r[2].kind # "bundle"
     /\ \E r \in all : r[2].kind = "bundle" /\ r[1].det.contact # {} /\ r[2].gain = FullGain

MCCountSample ==
  [known : BOOLEAN, at : 0..5, now : {Never, 5}, receipt : {1, 2}, generation : {1}, tick : Ticks,
   valid : {TRUE}, saturated : {FALSE}, level : [Feet -> Level]]

(* Samples that can follow one another, and one of each defect. *)
Counts(states) == {<<d, UpdateCount(d, [s EXCEPT !.receipt = s.at + @])>> : d \in states, s \in MCCountSample}

AfterCounts[n \in 0..4] ==
  IF n = 0 THEN {CountReset} ELSE {r[2] : r \in Counts(AfterCounts[n - 1])}

(* A few samples confirm a contact, release it again and trip.             *)
ASSUME CountsReach ==
  LET all == Counts(AfterCounts[4])
  IN /\ \E r \in all : r[1].contact = {} /\ r[2].contact # {}
     /\ \E r \in all : r[1].contact # {} /\ r[2].contact = {} /\ ~r[2].tripped
     /\ \E r \in all : r[1].contact # {} /\ r[2].tripped
     /\ \A r \in all : r[1].tripped => r[2] = r[1]
=============================================================================
