---------------------------- MODULE ResidualLease ----------------------------
(***************************************************************************)
(* What the residual link promises, without packets, timeouts or clears: a *)
(* sequence is offered once, in rising order, by a session that has not    *)
(* faulted; it reaches the register at most once, and never after a later  *)
(* one or after the host has claimed that nothing else can reach it.       *)
(***************************************************************************)
EXTENDS Integers

CONSTANT Sequence   \* the command sequences, natural numbers

Nothing == -1   \* no residual
Zero == -2      \* the claim that there is none and none to come

VARIABLES
  live,      \* the sequence in the register
  able,      \* the sequences that can still get there
  high,      \* the last sequence that was spent
  claim,     \* what the host says of the register; Nothing when it says nothing
  faulted    \* the session may not offer any more

leaseVars == <<live, able, high, claim, faulted>>

LeaseTypeOK ==
  /\ live \in Sequence \union {Nothing}
  /\ able \subseteq Sequence
  /\ high \in Sequence \union {Nothing}
  /\ claim \in Sequence \union {Nothing, Zero}
  /\ faulted \in BOOLEAN

LeaseInit ==
  /\ LeaseTypeOK
  /\ high = Nothing
  /\ claim = Nothing
  /\ faulted = FALSE

Offer(s) ==
  /\ ~faulted
  /\ s > high
  /\ able' \in {able, able \union {s}}
  /\ high' = s
  /\ claim' = Nothing
  /\ UNCHANGED <<live, faulted>>

Take(s) ==
  /\ s \in able
  /\ live' = s
  /\ able' \subseteq {t \in able : t > s}
  /\ UNCHANGED <<high, claim, faulted>>

(* A fault, a clear or the end of the lease; sequences may be spent by it. *)
Withdraw ==
  /\ live' \in {live, Nothing}
  /\ able' \subseteq able
  /\ high' \in Sequence \union {Nothing} /\ high' >= high
  /\ claim' \in {claim, Nothing}
  /\ faulted => faulted'
  /\ faulted' \in BOOLEAN

Claim ==
  /\ able = {}
  /\ claim' = IF live = Nothing THEN Zero ELSE live
  /\ high' \in Sequence \union {Nothing} /\ high' >= high
  /\ UNCHANGED <<live, able, faulted>>

LeaseNext ==
  \/ \E s \in Sequence : Offer(s) \/ Take(s)
  \/ Withdraw
  \/ Claim

LeaseSpec == LeaseInit /\ [][LeaseNext]_leaseVars

(* While a claim stands the register holds what was claimed or nothing.    *)
ClaimHolds ==
  claim # Nothing => able = {} /\ live \in {Nothing, claim}
=============================================================================
