--------------------------- MODULE ControlArbiter ---------------------------
(***************************************************************************)
(* bridges/go2_control_arbiter.py: who on this host may command the Go2.   *)
(*                                                                         *)
(* Every process has one arbiter over one host-wide advisory file lock.  A *)
(* SportClient call runs under a lease; the LowCmd owner is granted an     *)
(* epoch after an audit of the network that runs outside the arbiter's     *)
(* guard, while the file lock is already held.  An unlock or a close that  *)
(* raises leaves the operating system's lock held or free: the process is  *)
(* poisoned until it restarts.                                             *)
(*                                                                         *)
(* Each action is one section under the arbiter's guard.  Callers are the  *)
(* threads that may be inside acquire_low_level.                           *)
(***************************************************************************)
EXTENDS Naturals, FiniteSets

CONSTANTS
    Process,     \* processes of this host that command the robot
    Caller,      \* threads that call acquire_low_level
    Issued,      \* what the epoch factory may return
    MaxLeases,   \* bound on concurrent SportClient calls of a process
    NoOne

ASSUME ArbiterAssumption ==
    /\ NoOne \notin Process
    /\ Issued \subseteq Nat
    /\ MaxLeases \in Nat

VARIABLES
    flock,       \* the process whose descriptor the operating system locked
    open,        \* processes whose InterProcessOwnerLock keeps a descriptor
    poisoned,    \* processes whose lock object is poisoned
    epoch,       \* _low_level_epoch of each process, 0 without one
    leases,      \* _sport_operations of each process
    verified,    \* _network_exclusivity_verified of each process
    home,        \* the process of each caller inside acquire_low_level
    stage        \* how far that call has come

arbiterVars == <<flock, open, poisoned, epoch, leases, verified, home, stage>>
lockVars == <<flock, open, poisoned>>

Stages == {"idle", "auditing", "passed", "failed"}

HoldsLock(p) == p \in open /\ p \notin poisoned

ArbiterInit ==
    /\ flock = NoOne
    /\ open = {}
    /\ poisoned = {}
    /\ epoch = [p \in Process |-> 0]
    /\ leases = [p \in Process |-> 0]
    /\ verified = [p \in Process |-> FALSE]
    /\ home \in [Caller -> Process]
    /\ stage = [c \in Caller |-> "idle"]

-----------------------------------------------------------------------------
(* InterProcessOwnerLock *)

\* acquire() returned True.
Locks(p) ==
    /\ p \notin open \cup poisoned
    /\ flock = NoOne
    /\ flock' = p
    /\ open' = open \cup {p}
    /\ UNCHANGED poisoned

\* acquire() returned False or raised: the object is in use, the operating
\* system refused, or a later write failed and closing the descriptor freed
\* the lock again; a close that raises too keeps the descriptor and poisons.
FailsToLock(p) ==
    \/ UNCHANGED lockVars
    \/ /\ p \notin open \cup poisoned
       /\ open' = open \cup {p}
       /\ poisoned' = poisoned \cup {p}
       /\ flock' \in IF flock = NoOne THEN {p, NoOne} ELSE {flock}

Freed(p) == IF flock = p THEN NoOne ELSE flock

\* release() returned; it does nothing without a descriptor.
Unlocks(p) ==
    /\ open' = open \ {p}
    /\ flock' = IF p \in open THEN Freed(p) ELSE flock
    /\ UNCHANGED poisoned

\* Mutant: a raising unlock is taken for a release.
UnlockRaisesQuietly(p) ==
    /\ p \in open
    /\ open' = open \ {p}
    /\ flock' \in {flock, Freed(p)}
    /\ UNCHANGED poisoned
\* release() raised: the lock may be gone all the same.
UnlockRaises(p) ==
    /\ p \in open
    /\ poisoned' = poisoned \cup {p}
    /\ flock' \in {flock, Freed(p)}
    /\ UNCHANGED open

-----------------------------------------------------------------------------
(* Sport *)

Note(p, proof) == verified' = [verified EXCEPT ![p] = proof]

SportAllowed(p) == p \notin poisoned /\ epoch[p] = 0

\* Mutant: a lease enters under a lock this process holds already.
EnterLease(p) ==
    /\ SportAllowed(p)
    /\ leases[p] < MaxLeases
    /\ IF leases[p] = 0 THEN Locks(p) ELSE UNCHANGED lockVars
    /\ leases' = [leases EXCEPT ![p] = @ + 1]
    /\ Note(p, FALSE)
    /\ UNCHANGED <<epoch, home, stage>>

RefuseLease(p) ==
    /\ SportAllowed(p)
    /\ leases[p] = 0
    /\ FailsToLock(p)
    /\ UNCHANGED <<epoch, leases, verified, home, stage>>

LeaveLease(p) ==
    /\ leases[p] > 0
    /\ leases' = [leases EXCEPT ![p] = @ - 1]
    /\ \/ leases[p] > 1 /\ UNCHANGED <<lockVars, verified>>
       \/ leases[p] = 1 /\ Unlocks(p) /\ UNCHANGED verified
       \/ leases[p] = 1 /\ UnlockRaises(p) /\ Note(p, FALSE)
    /\ UNCHANGED <<epoch, home, stage>>

\* assert_sport_allowed locks and unlocks under the guard; only a raising
\* close or unlock leaves a trace.
Probe(p) ==
    /\ SportAllowed(p)
    /\ leases[p] = 0
    /\ \/ FailsToLock(p) /\ UNCHANGED verified
       \/ /\ p \notin open /\ flock = NoOne
          /\ open' = open \cup {p}
          /\ poisoned' = poisoned \cup {p}
          /\ flock' \in {p, NoOne}
          /\ Note(p, FALSE)
    /\ UNCHANGED <<epoch, leases, home, stage>>

-----------------------------------------------------------------------------
(* LowCmd *)

Goes(c, s) == stage' = [stage EXCEPT ![c] = s]

\* The first section of acquire_low_level: lock before looking at the network.
AcquireLowLevel(c) ==
    LET p == home[c] IN
    /\ stage[c] = "idle"
    /\ SportAllowed(p)
    /\ leases[p] = 0
    /\ \/ Locks(p) /\ Goes(c, "auditing") /\ UNCHANGED verified
       \/ /\ FailsToLock(p)
          /\ IF HoldsLock(p) THEN UNCHANGED verified ELSE Note(p, FALSE)
          /\ UNCHANGED stage
    /\ UNCHANGED <<epoch, leases, home>>

\* The verifier answered, raised or missed its deadline.
Audit(c) ==
    LET p == home[c] IN
    /\ stage[c] = "auditing"
    /\ \E proof \in {proof \in BOOLEAN : proof => p \notin poisoned} :
          /\ Note(p, proof)
          /\ Goes(c, IF proof THEN "passed" ELSE "failed")
    /\ UNCHANGED <<lockVars, epoch, leases, home>>

\* _abort_ungranted_low_level_lock
AuditFailed(c) ==
    LET p == home[c] IN
    /\ stage[c] = "failed"
    /\ Unlocks(p) \/ UnlockRaises(p)
    /\ Note(p, FALSE)
    /\ Goes(c, "idle")
    /\ UNCHANGED <<epoch, leases, home>>

\* What the last section finds changed since the lock was taken.
Disturbed(p) == p \in poisoned \/ epoch[p] # 0 \/ leases[p] # 0

\* Mutant: a grant refused after the audit keeps the host lock.
RefuseKeepingLock(c) ==
    /\ stage[c] = "passed"
    /\ Note(home[c], FALSE)
    /\ Goes(c, "idle")
    /\ UNCHANGED <<lockVars, epoch, leases, home>>
\* The last section refuses: something changed, the evidence was invalidated
\* or the epoch factory failed.
Refuse(c) ==
    LET p == home[c] IN
    /\ stage[c] = "passed"
    /\ IF Disturbed(p) \/ (verified[p] /\ ~HoldsLock(p))
          THEN UNCHANGED lockVars
          ELSE Unlocks(p) \/ UnlockRaises(p)
    /\ Note(p, FALSE)
    /\ Goes(c, "idle")
    /\ UNCHANGED <<epoch, leases, home>>

Grant(c) ==
    LET p == home[c] IN
    /\ stage[c] = "passed"
    /\ ~Disturbed(p)
    /\ verified[p]
    /\ HoldsLock(p)
    /\ \E e \in Issued \ {0} : epoch' = [epoch EXCEPT ![p] = e]
    /\ Goes(c, "idle")
    /\ UNCHANGED <<lockVars, leases, verified, home>>

\* Mutant: the proof is invalidated before the epoch is compared.
ReleaseLowLevelUnmatched(p, e) ==
    /\ IF epoch[p] = e
          THEN Unlocks(p) /\ epoch' = [epoch EXCEPT ![p] = 0]
          ELSE UNCHANGED <<lockVars, epoch>>
    /\ Note(p, FALSE)
    /\ UNCHANGED <<leases, home, stage>>
\* release_low_level(e), by the owner or by stale code.
ReleaseLowLevel(p, e) ==
    /\ \/ /\ epoch[p] = 0
          /\ UNCHANGED <<lockVars, epoch>>
       \/ /\ epoch[p] = e
          /\ Unlocks(p)
          /\ epoch' = [epoch EXCEPT ![p] = 0]
       \/ /\ epoch[p] = e
          /\ UnlockRaises(p)
          /\ UNCHANGED epoch
    /\ Note(p, FALSE)
    /\ UNCHANGED <<leases, home, stage>>

-----------------------------------------------------------------------------
\* The process ends and starts again; the operating system drops its lock.
Restart(p) ==
    /\ flock' = Freed(p)
    /\ open' = open \ {p}
    /\ poisoned' = poisoned \ {p}
    /\ epoch' = [epoch EXCEPT ![p] = 0]
    /\ leases' = [leases EXCEPT ![p] = 0]
    /\ Note(p, FALSE)
    /\ stage' = [c \in Caller |-> IF home[c] = p THEN "idle" ELSE stage[c]]
    /\ UNCHANGED home

ArbiterNext ==
    \/ \E p \in Process :
          \/ EnterLease(p)
          \/ RefuseLease(p)
          \/ LeaveLease(p)
          \/ Probe(p)
          \/ \E e \in Issued \ {0} : ReleaseLowLevel(p, e)
          \/ Restart(p)
    \/ \E c \in Caller :
          \/ AcquireLowLevel(c)
          \/ Audit(c)
          \/ AuditFailed(c)
          \/ Refuse(c)
          \/ Grant(c)

ArbiterSpec == ArbiterInit /\ [][ArbiterNext]_arbiterVars

-----------------------------------------------------------------------------
(* Properties *)

\* The arbiters keep values of their kinds.
ArbiterTypeOK ==
    /\ flock \in Process \cup {NoOne}
    /\ open \subseteq Process
    /\ poisoned \subseteq Process
    /\ epoch \in [Process -> Issued \cup {0}]
    /\ leases \in [Process -> Nat]
    /\ verified \in [Process -> BOOLEAN]
    /\ home \in [Caller -> Process]
    /\ stage \in [Caller -> Stages]

\* What a process may be sending to the robot.  An epoch whose unlock was
\* ambiguous sends nothing: its publisher was closed before.
SportRuns(p) == leases[p] > 0
LowCmdRuns(p) == epoch[p] # 0 /\ p \notin poisoned
Commands(p) == SportRuns(p) \/ LowCmdRuns(p)

\* On one host at most one process commands the robot, and never with Sport
\* and LowCmd at once, whatever was unlocked ambiguously before.
OneCommander ==
    /\ \A p, q \in Process : Commands(p) /\ Commands(q) => p = q
    /\ \A p \in Process : ~(SportRuns(p) /\ epoch[p] # 0)

\* From the start of the audit to the grant nobody else of this host commands
\* the robot: the audited network is the one that is granted.
AuditIsExclusive ==
    \A c \in Caller : stage[c] \in {"auditing", "passed"} =>
        /\ HoldsLock(home[c])
        /\ \A q \in Process : ~Commands(q)

\* The writer's check of the cached proof never fails while the epoch and the
\* host lock are intact.
EvidenceStands == \A p \in Process : LowCmdRuns(p) => verified[p]

\* The network audit means something: nobody of this host disturbs it, and its
\* result lasts as long as the ownership it was made for.
AuditCounts == AuditIsExclusive /\ EvidenceStands

\* No process keeps the host lock without a use for it: what a failed audit,
\* a refused grant or the last lease took is given back.
NoOrphanLock ==
    \A p \in Process : HoldsLock(p) =>
        \/ Commands(p)
        \/ \E c \in Caller : home[c] = p /\ stage[c] # "idle"
=============================================================================
