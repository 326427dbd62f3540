----------------------------- MODULE RcMonitor -----------------------------
(***************************************************************************)
(* What the manager makes of the automatic-landing switch (CH10).          *)
(*                                                                         *)
(* Every snapshot classifies the raw sample and feeds it to a debouncer,   *)
(* so that a request for automation must be held; giving automation up is  *)
(* read from the raw sample.  LOST is a failsafe frame or a dead link,     *)
(* OTHER a value between the bands: both forget what was debounced.  LOW   *)
(* stands for a stick off its centre too, which asks for takeover the same *)
(* way.                                                                    *)
(***************************************************************************)
EXTENDS Integers

CONSTANTS
    Samples,     \* the raw samples that can arrive
    Debounce     \* how long a position is held before it counts

Position == {"LOW", "MIDDLE", "HIGH"}

ASSUME RcAssumption ==
    /\ Samples \subseteq Position \cup {"OTHER", "LOST"}
    /\ Debounce \in Nat

VARIABLES
    raw,         \* the latest sample of the receiver
    rc           \* the debouncer: stable and candidate position, time held

Forgotten == [stable |-> "OTHER", candidate |-> "OTHER", held |-> 0]

RcTypeOK ==
    /\ raw \in Samples
    /\ rc \in [stable : Position \cup {"OTHER"},
               candidate : Position \cup {"OTHER"}, held : 0..Debounce]

(* One sample through the debouncer. *)
Debounced(s) ==
    CASE raw \notin Position -> Forgotten
      [] raw # s.candidate -> [s EXCEPT !.candidate = raw, !.held = 0]
      [] s.held = Debounce -> [s EXCEPT !.stable = raw]
      [] OTHER -> s

(* The status made of a frame.  Without a frame the request is MANUAL.     *)
AutoLandingRequest(s) ==
    CASE s.stable = "MIDDLE" -> "AUTO_READY"
      [] s.stable = "HIGH" -> "AUTO_EXECUTE"
      [] OTHER -> "MANUAL"

ManualOverride(s) == raw = "LOW" \/ s.stable = "LOW"

Failsafe == raw = "LOST"

(* The operator wants the vehicle back. *)
Takeover(s) == ManualOverride(s) \/ AutoLandingRequest(s) = "MANUAL"

Receive == \E p \in Samples \ {raw} : raw' = p

Held(s) == [s EXCEPT !.held = IF @ < Debounce THEN @ + 1 ELSE @]
=============================================================================
