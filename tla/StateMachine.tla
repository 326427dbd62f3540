---------------------------- MODULE StateMachine ----------------------------
(***************************************************************************)
(* The guarded state holder of the manager, as asyncio interleaves its     *)
(* callers.  A caller (the monitor's tick, a shell command, a signal path) *)
(* asks for a transition; the guards are evaluated at once, and a          *)
(* permitted transition is committed by a task of its own that suspends at *)
(* every subscriber and at the entry action.  The caller waits for that    *)
(* task even when it is cancelled meanwhile.  A commit whose logger,       *)
(* subscriber or entry action failed goes on to FAULT in the same breath.  *)
(*                                                                         *)
(* What a guard answers depends on a snapshot the machine does not own:    *)
(* here an answer is free, except that an edge outside the table is always *)
(* refused and an edge into a safety state always granted.                 *)
(***************************************************************************)
EXTENDS SystemStates, Naturals, Sequences

CONSTANTS
    Caller,        \* the tasks that may ask for a transition
    Subscribers,   \* how many callbacks are subscribed
    MaxHistory,    \* bound: no request is made once the history is this long
    MaxReloads     \* bound: how often the guards are replaced

ASSUME StateMachineAssumption ==
    /\ Subscribers \in Nat
    /\ MaxHistory \in Nat
    /\ MaxReloads \in Nat

VARIABLES
    state,          \* StateMachine._state
    transitioning,  \* StateMachine._transitioning
    guards,         \* which TransitionGuards object is installed
    history,        \* StateMachine._history
    phase,          \* where each caller's transaction stands
    txn,            \* what each caller's transaction does
    cancelled,      \* callers whose wait has been cancelled
    outcome         \* what the last call of each caller came back with

vars == <<state, transitioning, guards, history, phase, txn, cancelled, outcome>>

(* A history entry is a permitted transition, a rejected one or a diagnostic. *)
Entry(kind, from, to) == [kind |-> kind, from |-> from, to |-> to]

Kind == {"permitted", "rejected", "diagnostic"}

HistoryEntry == [kind : Kind, from : SystemState, to : SystemState]

Diagnostic(s) == Entry("diagnostic", s, s)

(* What can go wrong in a commit. *)
ErrorKind == {"logger", "subscriber", "entry"}

Transaction ==
    [from : SystemState, to : SystemState, guards : Nat,
     next : 0..Subscribers, errors : SUBSET ErrorKind]

Phase == {"idle", "scheduled", "publish", "entry", "finished"}

InFlight(c) == phase[c] \in {"scheduled", "publish", "entry"}

NewTransaction(from, to) ==
    [from |-> from, to |-> to, guards |-> guards, next |-> 0, errors |-> {}]

NoTransaction ==
    [from |-> "BOOT_SAFE", to |-> "BOOT_SAFE", guards |-> 0,
     next |-> 0, errors |-> {}]

Raised(kind, raises) == IF raises THEN {kind} ELSE {}

Init ==
    /\ state = "BOOT_SAFE"
    /\ transitioning = FALSE
    /\ guards = 0
    /\ history = <<>>
    /\ phase = [c \in Caller |-> "idle"]
    /\ txn = [c \in Caller |-> NoTransaction]
    /\ cancelled = {}
    /\ outcome = [c \in Caller |-> "none"]

(* What the guards may answer: FALSE and TRUE are possible answers. *)
GuardAnswers(from, to) ==
    IF to \notin ALLOWED_TRANSITIONS[from] THEN {FALSE}
    ELSE IF to \in SafetyStates THEN {TRUE}
    ELSE BOOLEAN

(* Appending a record also calls the record logger; when that raises, a    *)
(* diagnostic follows the record.                                          *)
Recorded(entry, s, loggerFails) ==
    IF loggerFails THEN Append(Append(history, entry), Diagnostic(s))
                   ELSE Append(history, entry)

-----------------------------------------------------------------------------
(* transition_to: the synchronous part. *)

RejectNested(c) ==
    /\ phase[c] = "idle"
    /\ transitioning
    /\ outcome' = [outcome EXCEPT ![c] = "rejected"]
    /\ UNCHANGED <<state, transitioning, guards, history, phase, txn, cancelled>>

Reject(c, to) ==
    /\ phase[c] = "idle"
    /\ Len(history) < MaxHistory
    /\ ~transitioning
    /\ FALSE \in GuardAnswers(state, to)
    /\ \E loggerFails \in BOOLEAN :
          history' = Recorded(Entry("rejected", state, to), state, loggerFails)
    /\ outcome' = [outcome EXCEPT ![c] = "rejected"]
    /\ UNCHANGED <<state, transitioning, guards, phase, txn, cancelled>>

(* Mutant: a request is not refused while another is being committed. *)
AcceptWhileBusy(c, to) ==
    /\ phase[c] = "idle"
    /\ Len(history) < MaxHistory
    /\ TRUE \in GuardAnswers(state, to)
    /\ transitioning' = TRUE
    /\ phase' = [phase EXCEPT ![c] = "scheduled"]
    /\ txn' = [txn EXCEPT ![c] = NewTransaction(state, to)]
    /\ outcome' = [outcome EXCEPT ![c] = "none"]
    /\ UNCHANGED <<state, guards, history, cancelled>>

Accept(c, to) ==
    /\ phase[c] = "idle"
    /\ Len(history) < MaxHistory
    /\ ~transitioning
    /\ TRUE \in GuardAnswers(state, to)
    /\ transitioning' = TRUE
    /\ phase' = [phase EXCEPT ![c] = "scheduled"]
    /\ txn' = [txn EXCEPT ![c] = NewTransaction(state, to)]
    /\ outcome' = [outcome EXCEPT ![c] = "none"]
    /\ UNCHANGED <<state, guards, history, cancelled>>

-----------------------------------------------------------------------------
(* _commit_permitted_transition: the task of an accepted transition. *)

(* The decision is logged, the one state variable is written. *)
Commit(c) ==
    /\ phase[c] = "scheduled"
    /\ \E loggerFails \in BOOLEAN :
          /\ history' = Recorded(Entry("permitted", txn[c].from, txn[c].to),
                                 txn[c].from, loggerFails)
          /\ txn' = [txn EXCEPT ![c].errors = Raised("logger", loggerFails)]
    /\ state' = txn[c].to
    /\ phase' = [phase EXCEPT ![c] = "publish"]
    /\ UNCHANGED <<transitioning, guards, cancelled, outcome>>

(* A subscriber returns, or raises. *)
Publish(c) ==
    /\ phase[c] = "publish"
    /\ txn[c].next < Subscribers
    /\ \E raises \in BOOLEAN :
          txn' = [txn EXCEPT ![c].next = @ + 1,
                             ![c].errors = @ \cup Raised("subscriber", raises)]
    /\ UNCHANGED <<state, transitioning, guards, history, phase, cancelled, outcome>>

EnterState(c) ==
    /\ phase[c] = "publish"
    /\ txn[c].next = Subscribers
    /\ phase' = [phase EXCEPT ![c] = "entry"]
    /\ UNCHANGED <<state, transitioning, guards, history, txn, cancelled, outcome>>

(* The entry action raises only where one is installed. *)
EntryRaises(c) == IF txn[c].to \in EntryStates THEN BOOLEAN ELSE {FALSE}

CommitErrors(c, raises) == txn[c].errors \cup Raised("entry", raises)

(* Mutant: the failure of a commit is swallowed. *)
SwallowFailure(c) ==
    /\ phase[c] = "entry"
    /\ \E raises \in EntryRaises(c) : CommitErrors(c, raises) # {}
    /\ txn[c].to # "FAULT"
    /\ transitioning' = FALSE
    /\ phase' = [phase EXCEPT ![c] = "finished"]
    /\ UNCHANGED <<state, guards, history, txn, cancelled, outcome>>

(* The finally clause frees the machine, and with no await in between the  *)
(* commit of a failed transition asks for FAULT.                           *)
FollowUpToFault(c) ==
    /\ phase[c] = "entry"
    /\ \E raises \in EntryRaises(c) : CommitErrors(c, raises) # {}
    /\ txn[c].to # "FAULT"
    /\ TRUE \in GuardAnswers(state, "FAULT")
    /\ transitioning' = TRUE
    /\ phase' = [phase EXCEPT ![c] = "scheduled"]
    /\ txn' = [txn EXCEPT ![c] = NewTransaction(state, "FAULT")]
    /\ UNCHANGED <<state, guards, history, cancelled, outcome>>

Noted(failed, h) == IF failed THEN Append(h, Diagnostic(state)) ELSE h

(* A clean commit ends here; so does one to FAULT, whose subscriber and    *)
(* entry failures are only noted, one diagnostic for each kind.            *)
Finish(c) ==
    /\ phase[c] = "entry"
    /\ \E raises \in EntryRaises(c) :
          /\ CommitErrors(c, raises) # {} => txn[c].to = "FAULT"
          /\ history' = Noted(raises, Noted("subscriber" \in txn[c].errors,
                                            history))
    /\ transitioning' = FALSE
    /\ phase' = [phase EXCEPT ![c] = "finished"]
    /\ UNCHANGED <<state, guards, txn, cancelled, outcome>>

(* The caller wakes up, and sees its cancellation only now. *)
Return(c) ==
    /\ phase[c] = "finished"
    /\ outcome' = [outcome EXCEPT ![c] =
                      IF c \in cancelled THEN "cancelled" ELSE "record"]
    /\ cancelled' = cancelled \ {c}
    /\ phase' = [phase EXCEPT ![c] = "idle"]
    /\ txn' = [txn EXCEPT ![c] = NoTransaction]
    /\ UNCHANGED <<state, transitioning, guards, history>>

-----------------------------------------------------------------------------
(* Mutant: a plain await, whose cancellation takes the commit with it. *)
CancelAbandons(c) ==
    /\ InFlight(c)
    /\ c \notin cancelled
    /\ cancelled' = cancelled \cup {c}
    /\ phase' = [phase EXCEPT ![c] = "idle"]
    /\ transitioning' = FALSE
    /\ UNCHANGED <<state, guards, history, txn, outcome>>

(* A waiting caller is cancelled: shield keeps the commit alive. *)
Cancel(c) ==
    /\ InFlight(c)
    /\ c \notin cancelled
    /\ cancelled' = cancelled \cup {c}
    /\ UNCHANGED <<state, transitioning, guards, history, phase, txn, outcome>>

(* replace_guards: a configuration reload installs new guards. *)
ReplaceGuards ==
    /\ ~transitioning
    /\ state = "BOOT_SAFE"
    /\ guards < MaxReloads
    /\ guards' = guards + 1
    /\ UNCHANGED <<state, transitioning, history, phase, txn, cancelled, outcome>>

CommitTask(c) ==
    Commit(c) \/ Publish(c) \/ EnterState(c) \/ FollowUpToFault(c) \/ Finish(c)

Next ==
    \/ \E c \in Caller, to \in SystemState : Reject(c, to) \/ Accept(c, to)
    \/ \E c \in Caller :
          RejectNested(c) \/ CommitTask(c) \/ Return(c) \/ Cancel(c)
    \/ ReplaceGuards

(* The event loop runs a ready task eventually, and every subscriber and   *)
(* entry action of the manager is bounded by a timeout of its own.         *)
Fairness == \A c \in Caller : WF_vars(CommitTask(c)) /\ WF_vars(Return(c))

Spec == Init /\ [][Next]_vars /\ Fairness

-----------------------------------------------------------------------------
TypeOK ==
    /\ state \in SystemState
    /\ transitioning \in BOOLEAN
    /\ guards \in Nat
    /\ history \in Seq(HistoryEntry)
    /\ phase \in [Caller -> Phase]
    /\ txn \in [Caller -> Transaction]
    /\ cancelled \in SUBSET Caller
    /\ outcome \in [Caller -> {"none", "record", "rejected", "cancelled"}]

(* However the callers interleave, at most one accepted transition is      *)
(* being committed, and the flag that refuses nested requests is up for    *)
(* exactly as long (state_machine.py: _transitioning).                     *)
OneCommitAtATime ==
    /\ \A c, d \in Caller : InFlight(c) /\ InFlight(d) => c = d
    /\ transitioning <=> \E c \in Caller : InFlight(c)

(* Until it is committed, an accepted transition still starts from the     *)
(* current state, is judged by the installed guards, and is an edge of the *)
(* table: nothing that runs between the verdict and the write of the state *)
(* may take any of this away (state_machine.py: evaluate, then a task).    *)
VerdictStillHolds ==
    \A c \in Caller :
        InFlight(c) =>
            /\ txn[c].to \in ALLOWED_TRANSITIONS[txn[c].from]
            /\ txn[c].guards = guards
            /\ state = IF phase[c] = "scheduled" THEN txn[c].from
                                                 ELSE txn[c].to

Permitted(h, i) == h[i].kind = "permitted"

NonePermittedBetween(h, i, j) ==
    \A k \in DOMAIN h : i < k /\ k < j => ~Permitted(h, k)

(* The state entry i left the machine in; the history starts in BOOT_SAFE. *)
StateAfter(h, i) == IF i = 0 THEN "BOOT_SAFE" ELSE h[i].to

LeadsThrough(h, s) ==
    /\ \A j \in DOMAIN h :
          Permitted(h, j) => h[j].to \in ALLOWED_TRANSITIONS[h[j].from]
    /\ \A i \in 0..Len(h) :
          (i = 0 \/ Permitted(h, i)) =>
            /\ \A j \in DOMAIN h :
                  i < j /\ Permitted(h, j) /\ NonePermittedBetween(h, i, j)
                    => h[j].from = StateAfter(h, i)
            /\ NonePermittedBetween(h, i, Len(h) + 1) => s = StateAfter(h, i)

(* The permitted entries of the audit history are one path of the edge     *)
(* table from BOOT_SAFE to the current state, whatever rejections and      *)
(* diagnostics lie between them: every committed transition is recorded,   *)
(* once and in order (state_machine.py: _record before _state).            *)
AuditTrailIsAPath == LeadsThrough(history, state)

(* What the callers rely on together: one commit at a time, on the verdict *)
(* that was given for it, recorded where it belongs (state_machine.py:     *)
(* transition_to and its commit task).                                     *)
CommitsAreSound == OneCommitAtATime /\ VerdictStillHolds /\ AuditTrailIsAPath

(* Every accepted transition ends, so a request is not refused for ever;   *)
(* a cancelled caller does get its CancelledError.                         *)
MachineIsFreed == transitioning ~> ~transitioning

CancellationIsDelivered ==
    \A c \in Caller : (c \in cancelled) ~> (outcome[c] = "cancelled")

(* Nobody is left waiting: neither the machine nor a caller that gave up   *)
(* (state_machine.py: the shielded task and its finally).                  *)
CallersAreFreed == MachineIsFreed /\ CancellationIsDelivered

-----------------------------------------------------------------------------
(* FAULT is due from the moment a transition to it is accepted, or a       *)
(* commit to another state has failed.                                     *)
FaultIsDue ==
    \E c \in Caller :
        \/ phase[c] = "scheduled" /\ txn[c].to = "FAULT"
        \/ InFlight(c) /\ txn[c].to # "FAULT" /\ txn[c].errors # {}

Contract == INSTANCE GuardedStates WITH mode <- state, doomed <- FaultIsDue

(* What the rest of the manager relies on (GuardedStates): the state moves *)
(* along the edge table, and once a fault is due nothing else happens to   *)
(* the state before FAULT is entered, which it eventually is.              *)
ImplementsContract == Contract!Spec
=============================================================================
