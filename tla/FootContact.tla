---------------------------- MODULE FootContact ----------------------------
(***************************************************************************)
(* The two contact detectors of the feet.  The first (landing/             *)
(* impact_aware/contact_detection.py) has per foot a low-pass filter, a    *)
(* switch with two thresholds and a dwell on either side.  A filtered      *)
(* force counts only by where it lies to the thresholds, and that is an    *)
(* argument here: what the filter makes of a sample is free.  Time is the  *)
(* samples' own.                                                           *)
(***************************************************************************)
EXTENDS Integers

CONSTANTS
  FootCount,      \* feet, four in the code
  ConfirmTime,    \* contact_confirm_s
  ReleaseTime     \* release_confirm_s

DwellsPositive == ConfirmTime \in Nat \ {0} /\ ReleaseTime \in Nat \ {0}

ASSUME FootAssumption == FootCount \in Nat \ {0} /\ DwellsPositive

Feet == 1..FootCount
Never == -1
Moment == Nat \union {Never}
Level == 0..2     \* at or under the off threshold, between the two, at or over the on threshold

Detector ==
  [at : Moment,               \* _last_timestamp; Never: no sample, and no filtered force, yet
   level : [Feet -> Level],   \* _filtered
   contact : SUBSET Feet,
   onSince : [Feet -> Moment], offSince : [Feet -> Moment],
   touched : [Feet -> Moment]]

DetectorReset ==
  [at |-> Never, level |-> [f \in Feet |-> 0], contact |-> {},
   onSince |-> [f \in Feet |-> Never], offSince |-> [f \in Feet |-> Never],
   touched |-> [f \in Feet |-> Never]]

InOrder(d, t) == d.at = Never \/ t > d.at

Since(mark, t) == IF mark = Never THEN t ELSE mark

Rising(d, level) == {f \in Feet \ d.contact : level[f] = 2}
Falling(d, level) == {f \in d.contact : level[f] = 0}

Touchdowns(d, level, t) == {f \in Rising(d, level) : t - Since(d.onSince[f], t) >= ConfirmTime}
Releases(d, level, t) == {f \in Falling(d, level) : t - Since(d.offSince[f], t) >= ReleaseTime}

(* A time is kept while the force stays on the far side of its threshold,  *)
(* up to the sample that confirms.                                         *)
Marks(mark, waiting, t) == [f \in Feet |-> IF f \in waiting THEN Since(mark[f], t) ELSE Never]

UpdateContact(d, level, t) ==
  LET down == Touchdowns(d, level, t)
      up == Releases(d, level, t)
  IN [at |-> t, level |-> level,
      contact |-> (d.contact \ up) \union down,
      onSince |-> Marks(d.onSince, Rising(d, level) \ down, t),
      offSince |-> Marks(d.offSince, Falling(d, level) \ up, t),
      touched |-> [f \in Feet |-> IF f \in down THEN t ELSE IF f \in up THEN Never ELSE d.touched[f]]]

----------------------------------------------------------------------------
(***************************************************************************)
(* The detector on the raw counts of LowState (landing/impact_aware/       *)
(* preliminary.py): the same switch and dwell, and beside them a number of *)
(* samples in a row and the identity of the stream.  A sample that does    *)
(* not follow the last one trips the detector: it answers nothing more     *)
(* until it is reset.                                                      *)
(***************************************************************************)

CONSTANTS
  MaxSampleGap,  \* maximum_sample_gap_s
  MaxAge,        \* maximum_feedback_age_s
  MinSamples,    \* minimum_consecutive_samples
  HalfTicks,     \* half the range of the source's tick, 2^31
  MaxTickJump    \* maximum_source_tick_jump

CountConfigured ==
  /\ MaxSampleGap \in Nat \ {0} /\ MaxAge \in Nat \ {0} /\ MinSamples \in Nat \ {0}
  /\ HalfTicks \in Nat \ {0} /\ MaxTickJump \in 1..HalfTicks - 1

ASSUME CountAssumption == CountConfigured

Ticks == 0..2 * HalfTicks - 1

CountSample ==
  [known : BOOLEAN,      \* source_identity_valid
   at : Nat,             \* receipt_timestamp_s
   now : Moment,         \* Never: no time at all
   receipt : Nat, generation : Nat, tick : Ticks,
   valid : BOOLEAN,      \* of the field that is used
   saturated : BOOLEAN,
   level : [Feet -> Level]]

CountDetector ==
  [at : Moment, receipt : Moment, generation : Moment, tick : Ticks \union {Never},
   contact : SUBSET Feet,
   onFirst : [Feet -> Moment], offFirst : [Feet -> Moment], confirmed : [Feet -> Moment],
   onCount : [Feet -> Nat], offCount : [Feet -> Nat],
   tripped : BOOLEAN]

CountReset ==
  [at |-> Never, receipt |-> Never, generation |-> Never, tick |-> Never,
   contact |-> {},
   onFirst |-> [f \in Feet |-> Never], offFirst |-> [f \in Feet |-> Never],
   confirmed |-> [f \in Feet |-> Never],
   onCount |-> [f \in Feet |-> 0], offCount |-> [f \in Feet |-> 0],
   tripped |-> FALSE]

CountTrip(d) == [d EXCEPT !.contact = {}, !.tripped = TRUE]

(* Forward in the serial arithmetic of RFC 1982, and not too far.          *)
TickFollows(last, tick) ==
  LET delta == (tick - last) % (2 * HalfTicks)
  IN delta # 0 /\ delta < HalfTicks /\ delta <= MaxTickJump

Follows(d, s) ==
  d.at # Never =>
    /\ s.at > d.at /\ s.at - d.at <= MaxSampleGap
    /\ s.receipt > d.receipt
    /\ s.generation = d.generation
    /\ TickFollows(d.tick, s.tick)

Admits(d, s) ==
  /\ s.known
  /\ s.at <= s.now /\ s.now - s.at <= MaxAge
  /\ Follows(d, s)
  /\ s.valid /\ ~s.saturated

CountConfirms(d, s) ==
  {f \in Rising(d, s.level) : /\ d.onCount[f] + 1 >= MinSamples
                              /\ s.at - Since(d.onFirst[f], s.at) >= ConfirmTime}

CountReleases(d, s) ==
  {f \in Falling(d, s.level) : /\ d.offCount[f] + 1 >= MinSamples
                               /\ s.at - Since(d.offFirst[f], s.at) >= ReleaseTime}

InARow(count, waiting) == [f \in Feet |-> IF f \in waiting THEN count[f] + 1 ELSE 0]

(* The first crossing is kept while the contact lasts.                     *)
CountStep(d, s) ==
  LET down == CountConfirms(d, s)
      up == CountReleases(d, s)
      rising == Rising(d, s.level)
      falling == Falling(d, s.level)
  IN [at |-> s.at, receipt |-> s.receipt, generation |-> s.generation, tick |-> s.tick,
      contact |-> (d.contact \ up) \union down,
      onFirst |-> [f \in Feet |-> IF f \in rising THEN Since(d.onFirst[f], s.at)
                                  ELSE IF f \in d.contact \ up THEN d.onFirst[f] ELSE Never],
      offFirst |-> Marks(d.offFirst, falling, s.at),
      confirmed |-> [f \in Feet |-> IF f \in down THEN s.at ELSE IF f \in up THEN Never ELSE d.confirmed[f]],
      onCount |-> InARow(d.onCount, rising \ down),
      offCount |-> InARow(d.offCount, falling \ up),
      tripped |-> FALSE]

(* What is no time at all is refused and changes nothing. *)
Refuses(d, s) == d.tripped \/ s.now = Never

UpdateCount(d, s) ==
  IF Refuses(d, s) THEN d ELSE IF Admits(d, s) THEN CountStep(d, s) ELSE CountTrip(d)

=============================================================================
