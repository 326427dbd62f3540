---------------------------- MODULE ManagerProofs ----------------------------
(***************************************************************************)
(* What holds of the manager's state machine for any number of callers,    *)
(* subscribers and recorded transitions, and of the operator console with  *)
(* the manager's operations on the legs behind it, for every interleaving  *)
(* of the shell, the monitor and the world.                                *)
(*                                                                         *)
(* State machine: the inductive invariant is the conjunction of the type   *)
(* invariant, OneCommitAtATime and VerdictStillHolds; the audit path is    *)
(* proved on top of it.  Console: ConsoleInv, in layers; each layer is     *)
(* kept by every step, given the layers before it.                         *)
(***************************************************************************)
EXTENDS StateMachine, Console, TLAPS

(* FAULT can be entered from every other state: the follow-up of a failed  *)
(* commit is never refused (transition_guards.py: the edge table).         *)
LEMMA FaultAlwaysReachable ==
    \A s \in SystemState : s # "FAULT" => "FAULT" \in ALLOWED_TRANSITIONS[s]
  BY DEF SystemState, ALLOWED_TRANSITIONS, SafetyStates

(* Edges stay inside the set of states. *)
LEMMA EdgesAreStates ==
    \A s \in SystemState : ALLOWED_TRANSITIONS[s] \subseteq SystemState
  BY DEF SystemState, ALLOWED_TRANSITIONS, SafetyStates

LEMMA EntryIsHistoryEntry ==
    ASSUME NEW kind \in Kind, NEW s \in SystemState, NEW t \in SystemState
    PROVE  Entry(kind, s, t) \in HistoryEntry
  BY DEF Entry, HistoryEntry

(* What the guards grant is an edge of the table. *)
LEMMA GrantedIsEdge ==
    ASSUME NEW s, NEW t, TRUE \in GuardAnswers(s, t)
    PROVE  t \in ALLOWED_TRANSITIONS[s]
  BY DEF GuardAnswers

LEMMA RecordedIsHistory ==
    ASSUME NEW e \in HistoryEntry, NEW s \in SystemState, NEW b \in BOOLEAN,
           history \in Seq(HistoryEntry)
    PROVE  Recorded(e, s, b) \in Seq(HistoryEntry)
  <1>1. Diagnostic(s) \in HistoryEntry
    BY EntryIsHistoryEntry DEF Diagnostic, Kind
  <1> QED  BY <1>1 DEF Recorded

LEMMA NotedIsHistory ==
    ASSUME NEW h \in Seq(HistoryEntry), NEW b, state \in SystemState
    PROVE  Noted(b, h) \in Seq(HistoryEntry)
  <1>1. Diagnostic(state) \in HistoryEntry
    BY EntryIsHistoryEntry DEF Diagnostic, Kind
  <1> QED  BY <1>1 DEF Noted

LEMMA NewTransactionType ==
    ASSUME guards \in Nat, NEW s \in SystemState, NEW t \in SystemState
    PROVE  NewTransaction(s, t) \in Transaction
  BY StateMachineAssumption DEF NewTransaction, Transaction

-----------------------------------------------------------------------------
(* Type correctness: the state is always one of the enumeration, and the   *)
(* bookkeeping of the commits has the shape the actions rely on.           *)
LEMMA TypeStep == TypeOK /\ [Next]_vars => TypeOK'
  <1> SUFFICES ASSUME TypeOK, [Next]_vars PROVE TypeOK'
    OBVIOUS
  <1> USE DEF TypeOK, Phase
  <1>1. ASSUME NEW c \in Caller, NEW to \in SystemState, Reject(c, to)
        PROVE  TypeOK'
    <2>1. PICK b \in BOOLEAN :
            history' = Recorded(Entry("rejected", state, to), state, b)
      BY <1>1 DEF Reject
    <2>2. Entry("rejected", state, to) \in HistoryEntry
      BY EntryIsHistoryEntry DEF Kind
    <2>3. history' \in Seq(HistoryEntry)
      BY <2>1, <2>2, RecordedIsHistory
    <2> QED  BY <1>1, <2>3 DEF Reject
  <1>2. ASSUME NEW c \in Caller, NEW to \in SystemState, Accept(c, to)
        PROVE  TypeOK'
    <2>1. NewTransaction(state, to) \in Transaction
      BY NewTransactionType
    <2> QED  BY <1>2, <2>1 DEF Accept
  <1>3. ASSUME NEW c \in Caller, RejectNested(c) PROVE TypeOK'
    BY <1>3 DEF RejectNested
  <1>4. ASSUME NEW c \in Caller, Commit(c) PROVE TypeOK'
    <2>1. /\ txn[c] \in Transaction
          /\ txn[c].from \in SystemState
          /\ txn[c].to \in SystemState
      BY DEF Transaction
    <2>2. PICK b \in BOOLEAN :
            /\ history' = Recorded(Entry("permitted", txn[c].from, txn[c].to),
                                   txn[c].from, b)
            /\ txn' = [txn EXCEPT ![c].errors = Raised("logger", b)]
      BY <1>4 DEF Commit
    <2>3. history' \in Seq(HistoryEntry)
      BY <2>1, <2>2, EntryIsHistoryEntry, RecordedIsHistory DEF Kind
    <2>4. Raised("logger", b) \in SUBSET ErrorKind
      BY DEF Raised, ErrorKind
    <2>5. txn' \in [Caller -> Transaction]
      BY ZenonT(60), <2>2, <2>4 DEF Transaction
    <2> QED  BY <1>4, <2>1, <2>3, <2>5 DEF Commit
  <1>5. ASSUME NEW c \in Caller, Publish(c) PROVE TypeOK'
    <2>1. PICK b \in BOOLEAN :
            txn' = [txn EXCEPT ![c].next = @ + 1,
                               ![c].errors = @ \cup Raised("subscriber", b)]
      BY <1>5 DEF Publish
    <2>2. Raised("subscriber", b) \in SUBSET ErrorKind
      BY DEF Raised, ErrorKind
    <2>3. /\ txn[c] \in Transaction
          /\ txn[c].next + 1 \in 0..Subscribers
          /\ txn[c].errors \cup Raised("subscriber", b) \in SUBSET ErrorKind
      BY <1>5, <2>2, StateMachineAssumption DEF Publish, Transaction
    <2>4. [txn[c] EXCEPT !.next = @ + 1,
                         !.errors = @ \cup Raised("subscriber", b)]
            \in Transaction
      BY <2>3 DEF Transaction
    <2>5. txn' \in [Caller -> Transaction]
      BY <2>1, <2>4
    <2> QED  BY <1>5, <2>5 DEF Publish
  <1>6. ASSUME NEW c \in Caller, EnterState(c) PROVE TypeOK'
    BY <1>6 DEF EnterState
  <1>7. ASSUME NEW c \in Caller, FollowUpToFault(c) PROVE TypeOK'
    <2>1. NewTransaction(state, "FAULT") \in Transaction
      BY NewTransactionType DEF SystemState
    <2> QED  BY <1>7, <2>1 DEF FollowUpToFault
  <1>8. ASSUME NEW c \in Caller, Finish(c) PROVE TypeOK'
    <2>1. history' \in Seq(HistoryEntry)
      BY <1>8, NotedIsHistory DEF Finish
    <2> QED  BY <1>8, <2>1 DEF Finish
  <1>9. ASSUME NEW c \in Caller, Return(c) PROVE TypeOK'
    <2>1. NoTransaction \in Transaction
      BY StateMachineAssumption DEF NoTransaction, Transaction, SystemState
    <2> QED  BY <1>9, <2>1 DEF Return
  <1>10. ASSUME NEW c \in Caller, Cancel(c) PROVE TypeOK'
    BY <1>10 DEF Cancel
  <1>11. CASE ReplaceGuards
    BY <1>11 DEF ReplaceGuards
  <1>12. CASE UNCHANGED vars
    BY <1>12 DEF vars
  <1> QED
    BY <1>1, <1>2, <1>3, <1>4, <1>5, <1>6, <1>7, <1>8, <1>9, <1>10, <1>11,
       <1>12 DEF Next, CommitTask

LEMMA InitType == Init => TypeOK
  <1>1. NoTransaction \in Transaction
    BY StateMachineAssumption DEF NoTransaction, Transaction, SystemState
  <1>2. "BOOT_SAFE" \in SystemState
    BY DEF SystemState
  <1>3. Init => history \in Seq(HistoryEntry)
    BY DEF Init
  <1>4. Init => phase \in [Caller -> Phase] /\ cancelled \in SUBSET Caller
    BY DEF Init, Phase
  <1>5. Init => outcome \in [Caller -> {"none", "record", "rejected", "cancelled"}]
    BY DEF Init
  <1>6. Init => txn \in [Caller -> Transaction]
    BY <1>1 DEF Init
  <1>7. Init => state \in SystemState /\ guards \in Nat
    BY <1>2, SMT DEF Init
  <1>8. Init => transitioning \in BOOLEAN
    BY Zenon DEF Init
  <1> QED  BY <1>3, <1>4, <1>5, <1>6, <1>7, <1>8 DEF TypeOK

(* The states, records and bookkeeping keep their types in every behaviour. *)
THEOREM TypeCorrect == Spec => []TypeOK
  BY InitType, TypeStep, PTL DEF Spec

-----------------------------------------------------------------------------
(* The inductive invariant: one commit at a time, and its verdict holds.   *)
MachineInv == TypeOK /\ OneCommitAtATime /\ VerdictStillHolds

LEMMA MachineStep == MachineInv /\ [Next]_vars => MachineInv'
  <1> SUFFICES ASSUME MachineInv, [Next]_vars
               PROVE  OneCommitAtATime' /\ VerdictStillHolds'
    BY TypeStep DEF MachineInv
  <1>0. TypeOK /\ TypeOK'
    BY TypeStep DEF MachineInv
  <1>t. /\ phase \in [Caller -> Phase]
        /\ txn \in [Caller -> Transaction]
        /\ state \in SystemState
    BY <1>0 DEF TypeOK
  <1> USE DEF OneCommitAtATime, VerdictStillHolds, MachineInv, InFlight
  <1>1. ASSUME NEW c \in Caller, NEW to \in SystemState, Reject(c, to)
        PROVE  OneCommitAtATime' /\ VerdictStillHolds'
    BY <1>1 DEF Reject
  <1>2. ASSUME NEW c \in Caller, NEW to \in SystemState, Accept(c, to)
        PROVE  OneCommitAtATime' /\ VerdictStillHolds'
    <2>1. to \in ALLOWED_TRANSITIONS[state]
      BY <1>2, GrantedIsEdge DEF Accept
    <2>2. txn'[c] = NewTransaction(state, to) /\ phase'[c] = "scheduled"
      BY <1>2, <1>t DEF Accept
    <2>3. \A d \in Caller \ {c} : ~InFlight(d) /\ phase'[d] = phase[d]
      BY <1>2, <1>t DEF Accept
    <2> QED  BY <1>2, <2>1, <2>2, <2>3 DEF Accept, NewTransaction
  <1>3. ASSUME NEW c \in Caller, RejectNested(c)
        PROVE  OneCommitAtATime' /\ VerdictStillHolds'
    BY <1>3 DEF RejectNested
  <1>4. ASSUME NEW c \in Caller, Commit(c)
        PROVE  OneCommitAtATime' /\ VerdictStillHolds'
    <2>1. /\ txn'[c].from = txn[c].from
          /\ txn'[c].to = txn[c].to
          /\ txn'[c].guards = txn[c].guards
          /\ phase'[c] = "publish"
      BY <1>4, <1>t DEF Commit, Transaction
    <2>2. \A d \in Caller \ {c} : ~InFlight(d) /\ phase'[d] = phase[d]
      BY <1>4, <1>t DEF Commit
    <2> QED  BY <1>4, <2>1, <2>2 DEF Commit
  <1>5. ASSUME NEW c \in Caller, Publish(c)
        PROVE  OneCommitAtATime' /\ VerdictStillHolds'
    <2>1. /\ txn'[c].from = txn[c].from
          /\ txn'[c].to = txn[c].to
          /\ txn'[c].guards = txn[c].guards
      BY <1>5, <1>t DEF Publish, Transaction
    <2>2. \A d \in Caller \ {c} : ~InFlight(d)
      BY <1>5, <1>t DEF Publish
    <2> QED  BY <1>5, <2>1, <2>2 DEF Publish
  <1>6. ASSUME NEW c \in Caller, EnterState(c)
        PROVE  OneCommitAtATime' /\ VerdictStillHolds'
    BY <1>6, <1>t DEF EnterState
  <1>7. ASSUME NEW c \in Caller, FollowUpToFault(c)
        PROVE  OneCommitAtATime' /\ VerdictStillHolds'
    <2>1. "FAULT" \in ALLOWED_TRANSITIONS[state]
      BY <1>7, GrantedIsEdge DEF FollowUpToFault
    <2>2. /\ txn'[c] = NewTransaction(state, "FAULT")
          /\ phase'[c] = "scheduled"
      BY <1>7, <1>t DEF FollowUpToFault
    <2>3. \A d \in Caller \ {c} : ~InFlight(d) /\ phase'[d] = phase[d]
      BY <1>7, <1>t DEF FollowUpToFault
    <2> QED  BY <1>7, <2>1, <2>2, <2>3 DEF FollowUpToFault, NewTransaction
  <1>8. ASSUME NEW c \in Caller, Finish(c)
        PROVE  OneCommitAtATime' /\ VerdictStillHolds'
    <2>1. phase'[c] = "finished"
      BY <1>8, <1>t DEF Finish
    <2>2. \A d \in Caller \ {c} : ~InFlight(d) /\ phase'[d] = phase[d]
      BY <1>8, <1>t DEF Finish
    <2> QED  BY <1>8, <2>1, <2>2 DEF Finish
  <1>9. ASSUME NEW c \in Caller, Return(c)
        PROVE  OneCommitAtATime' /\ VerdictStillHolds'
    <2>1. phase'[c] = "idle" /\ ~InFlight(c)
      BY <1>9, <1>t DEF Return
    <2>2. \A d \in Caller \ {c} : phase'[d] = phase[d] /\ txn'[d] = txn[d]
      BY <1>9, <1>t DEF Return
    <2> QED  BY <1>9, <2>1, <2>2 DEF Return
  <1>10. ASSUME NEW c \in Caller, Cancel(c)
         PROVE  OneCommitAtATime' /\ VerdictStillHolds'
    BY <1>10 DEF Cancel
  <1>11. CASE ReplaceGuards
    BY <1>11 DEF ReplaceGuards
  <1>12. CASE UNCHANGED vars
    BY <1>12 DEF vars
  <1> QED
    BY <1>1, <1>2, <1>3, <1>4, <1>5, <1>6, <1>7, <1>8, <1>9, <1>10, <1>11,
       <1>12 DEF Next, CommitTask

LEMMA MachineInvariant == Spec => []MachineInv
  <1>1. Init => MachineInv
    <2>1. Init => OneCommitAtATime /\ VerdictStillHolds
      BY DEF Init, OneCommitAtATime, VerdictStillHolds, InFlight
    <2>2. Init => TypeOK
      BY InitType
    <2> QED  BY <2>1, <2>2 DEF MachineInv
  <1> QED  BY <1>1, MachineStep, PTL DEF Spec

(* However many tasks ask for transitions, at most one is being committed, *)
(* and the flag that refuses the others is up for exactly as long.         *)
THEOREM OneCommit == Spec => []OneCommitAtATime
  BY MachineInvariant, PTL DEF MachineInv

(* What the guards granted is still true of the machine when the state is  *)
(* written: same state, same guards, an edge of the table.                 *)
THEOREM VerdictHolds == Spec => []VerdictStillHolds
  BY MachineInvariant, PTL DEF MachineInv

-----------------------------------------------------------------------------
(* The audit path.  An entry that is not a permitted transition leaves the *)
(* path alone; a permitted one that starts where the path ends extends it. *)
LEMMA AppendFacts ==
    ASSUME NEW h \in Seq(HistoryEntry), NEW e \in HistoryEntry
    PROVE  /\ Append(h, e) \in Seq(HistoryEntry)
           /\ Len(Append(h, e)) = Len(h) + 1
           /\ Len(h) \in Nat
           /\ DOMAIN Append(h, e) = 1..(Len(h) + 1)
           /\ DOMAIN h = 1..Len(h)
           /\ \A i \in 1..Len(h) : Append(h, e)[i] = h[i]
           /\ Append(h, e)[Len(h) + 1] = e
  OBVIOUS

LEMMA NoteKeepsPath ==
    ASSUME NEW h \in Seq(HistoryEntry), NEW e \in HistoryEntry,
           NEW s \in SystemState,
           e.kind # "permitted", LeadsThrough(h, s)
    PROVE  LeadsThrough(Append(h, e), s)
  <1> DEFINE g == Append(h, e)
  <1>1. /\ DOMAIN g = 1..(Len(h) + 1) /\ DOMAIN h = 1..Len(h)
        /\ Len(g) = Len(h) + 1 /\ Len(h) \in Nat
        /\ \A i \in 1..Len(h) : g[i] = h[i]
        /\ g[Len(h) + 1] = e
    BY AppendFacts
  <1> HIDE DEF g
  <1>2. \A j \in DOMAIN g : Permitted(g, j) => j \in DOMAIN h /\ Permitted(h, j)
    BY <1>1 DEF Permitted
  <1>3. \A i \in 0..Len(h), j \in 0..(Len(h) + 1) :
           NonePermittedBetween(g, i, j) => NonePermittedBetween(h, i, j)
    BY <1>1 DEF NonePermittedBetween, Permitted
  <1>4. \A i \in 0..Len(h) :
           NonePermittedBetween(g, i, Len(g) + 1)
             => NonePermittedBetween(h, i, Len(h) + 1)
    BY <1>1 DEF NonePermittedBetween, Permitted
  <1>5. \A i \in 0..Len(h) : StateAfter(g, i) = StateAfter(h, i)
    BY <1>1 DEF StateAfter
  <1>6. \A i \in 0..Len(g) :
           (i = 0 \/ Permitted(g, i))
             => i \in 0..Len(h) /\ (i = 0 \/ Permitted(h, i))
    BY <1>1 DEF Permitted
  <1>7. \A j \in DOMAIN g :
           Permitted(g, j) => g[j].to \in ALLOWED_TRANSITIONS[g[j].from]
    BY <1>1, <1>2 DEF LeadsThrough
  <1>8. ASSUME NEW i \in 0..Len(g), i = 0 \/ Permitted(g, i)
        PROVE  /\ \A j \in DOMAIN g :
                     i < j /\ Permitted(g, j) /\ NonePermittedBetween(g, i, j)
                       => g[j].from = StateAfter(g, i)
               /\ NonePermittedBetween(g, i, Len(g) + 1) => s = StateAfter(g, i)
    <2>1. i \in 0..Len(h) /\ (i = 0 \/ Permitted(h, i))
      BY <1>6, <1>8
    <2>2. ASSUME NEW j \in DOMAIN g,
                 i < j, Permitted(g, j), NonePermittedBetween(g, i, j)
          PROVE  g[j].from = StateAfter(g, i)
      <3>1. j \in DOMAIN h /\ Permitted(h, j) /\ NonePermittedBetween(h, i, j)
        BY <1>1, <1>2, <1>3, <2>1, <2>2
      <3>2. h[j].from = StateAfter(h, i)
        BY <2>1, <2>2, <3>1 DEF LeadsThrough
      <3> QED  BY <1>1, <1>5, <2>1, <3>1, <3>2
    <2>3. NonePermittedBetween(g, i, Len(g) + 1) => s = StateAfter(g, i)
      BY <1>4, <1>5, <2>1 DEF LeadsThrough
    <2> QED  BY <2>2, <2>3
  <1>9. LeadsThrough(g, s)
    BY <1>7, <1>8 DEF LeadsThrough
  <1> QED  BY <1>9 DEF g

LEMMA TransitionExtendsPath ==
    ASSUME NEW h \in Seq(HistoryEntry), NEW s \in SystemState,
           NEW e \in HistoryEntry, e.kind = "permitted",
           e.from = s, e.to \in ALLOWED_TRANSITIONS[s], LeadsThrough(h, s)
    PROVE  LeadsThrough(Append(h, e), e.to)
  <1> DEFINE g == Append(h, e)
             n == Len(h) + 1
  <1>1. /\ DOMAIN g = 1..n /\ DOMAIN h = 1..Len(h)
        /\ Len(g) = n /\ Len(h) \in Nat
        /\ \A i \in 1..Len(h) : g[i] = h[i]
        /\ g[n] = e
    BY AppendFacts
  <1> HIDE DEF g
  <1>2. \A j \in 1..Len(h) : Permitted(g, j) <=> Permitted(h, j)
    BY <1>1 DEF Permitted
  <1>3. \A i \in 0..Len(h), j \in 0..n :
           NonePermittedBetween(g, i, j) => NonePermittedBetween(h, i, j)
    BY <1>1 DEF NonePermittedBetween, Permitted
  <1>4. \A i \in 0..Len(h) : StateAfter(g, i) = StateAfter(h, i)
    BY <1>1 DEF StateAfter
  <1>5. Permitted(g, n) /\ StateAfter(g, n) = e.to
    BY <1>1 DEF Permitted, StateAfter
  <1>6. \A j \in DOMAIN g :
           Permitted(g, j) => g[j].to \in ALLOWED_TRANSITIONS[g[j].from]
    BY <1>1, <1>2 DEF LeadsThrough
  <1>7. ASSUME NEW i \in 0..Len(g), i = 0 \/ Permitted(g, i)
        PROVE  /\ \A j \in DOMAIN g :
                     i < j /\ Permitted(g, j) /\ NonePermittedBetween(g, i, j)
                       => g[j].from = StateAfter(g, i)
               /\ NonePermittedBetween(g, i, Len(g) + 1)
                    => e.to = StateAfter(g, i)
    <2>1. CASE i = n
      BY <1>1, <1>5, <2>1
    <2>2. CASE i # n
      <3>1. i \in 0..Len(h) /\ (i = 0 \/ Permitted(h, i))
        BY <1>1, <1>2, <1>7, <2>2
      <3>2. ~NonePermittedBetween(g, i, Len(g) + 1)
        BY <1>1, <1>5, <3>1 DEF NonePermittedBetween
      <3>3. ASSUME NEW j \in DOMAIN g,
                   i < j, Permitted(g, j), NonePermittedBetween(g, i, j)
            PROVE  g[j].from = StateAfter(g, i)
        <4>1. NonePermittedBetween(h, i, j)
          BY <1>1, <1>3, <3>1, <3>3
        <4>2. CASE j = n
          BY <1>1, <1>4, <3>1, <4>1, <4>2 DEF LeadsThrough
        <4>3. CASE j # n
          BY <1>1, <1>2, <1>4, <3>1, <3>3, <4>1, <4>3 DEF LeadsThrough
        <4> QED  BY <4>2, <4>3
      <3> QED  BY <3>2, <3>3
    <2> QED  BY <2>1, <2>2
  <1>8. LeadsThrough(g, e.to)
    BY <1>6, <1>7 DEF LeadsThrough
  <1> QED  BY <1>8 DEF g

LEMMA DiagnosticIsANote ==
    ASSUME NEW s \in SystemState
    PROVE  Diagnostic(s) \in HistoryEntry /\ Diagnostic(s).kind # "permitted"
  BY EntryIsHistoryEntry DEF Diagnostic, Entry, Kind

LEMMA NotedKeepsPath ==
    ASSUME NEW h \in Seq(HistoryEntry), NEW b, state \in SystemState,
           LeadsThrough(h, state)
    PROVE  Noted(b, h) \in Seq(HistoryEntry) /\ LeadsThrough(Noted(b, h), state)
  BY NoteKeepsPath, NotedIsHistory, DiagnosticIsANote DEF Noted

AuditInv == MachineInv /\ AuditTrailIsAPath

LEMMA AuditStep == AuditInv /\ [Next]_vars => AuditTrailIsAPath'
  <1> SUFFICES ASSUME AuditInv, [Next]_vars PROVE AuditTrailIsAPath'
    OBVIOUS
  <1>0. /\ TypeOK /\ VerdictStillHolds /\ LeadsThrough(history, state)
        /\ history \in Seq(HistoryEntry)
        /\ state \in SystemState
        /\ txn \in [Caller -> Transaction]
        /\ phase \in [Caller -> Phase]
    BY DEF AuditInv, MachineInv, AuditTrailIsAPath, TypeOK
  <1> SUFFICES LeadsThrough(history', state')
    BY DEF AuditTrailIsAPath
  <1>1. ASSUME NEW c \in Caller, NEW to \in SystemState, Reject(c, to)
        PROVE  LeadsThrough(history', state')
    <2> DEFINE e == Entry("rejected", state, to)
    <2>1. PICK b \in BOOLEAN : history' = Recorded(e, state, b)
      BY <1>1 DEF Reject
    <2>2. e \in HistoryEntry /\ e.kind # "permitted"
      BY <1>0, EntryIsHistoryEntry DEF Entry, Kind
    <2>3. Append(history, e) \in Seq(HistoryEntry)
          /\ LeadsThrough(Append(history, e), state)
      BY <1>0, <2>2, NoteKeepsPath
    <2> HIDE DEF e
    <2>4. LeadsThrough(history', state)
      BY <1>0, <2>1, <2>3, NoteKeepsPath, DiagnosticIsANote DEF Recorded
    <2> QED  BY <1>1, <2>4 DEF Reject
  <1>2. ASSUME NEW c \in Caller, NEW to \in SystemState, Accept(c, to)
        PROVE  LeadsThrough(history', state')
    BY <1>0, <1>2 DEF Accept
  <1>3. ASSUME NEW c \in Caller, RejectNested(c)
        PROVE  LeadsThrough(history', state')
    BY <1>0, <1>3 DEF RejectNested
  <1>4. ASSUME NEW c \in Caller, Commit(c)
        PROVE  LeadsThrough(history', state')
    <2> DEFINE e == Entry("permitted", txn[c].from, txn[c].to)
    <2>1. PICK b \in BOOLEAN : history' = Recorded(e, txn[c].from, b)
      BY <1>4 DEF Commit
    <2>2. /\ txn[c].from = state
          /\ txn[c].to \in ALLOWED_TRANSITIONS[state]
          /\ txn[c].to \in SystemState
      BY <1>0, <1>4 DEF Commit, VerdictStillHolds, InFlight, Transaction
    <2>3. /\ e \in HistoryEntry /\ e.kind = "permitted"
          /\ e.from = state /\ e.to = txn[c].to
      BY <1>0, <2>2, EntryIsHistoryEntry DEF Entry, Kind
    <2> HIDE DEF e
    <2>4. Append(history, e) \in Seq(HistoryEntry)
          /\ LeadsThrough(Append(history, e), txn[c].to)
      BY <1>0, <2>2, <2>3, TransitionExtendsPath
    <2>5. LeadsThrough(history', txn[c].to)
      BY <1>0, <2>1, <2>2, <2>4, NoteKeepsPath, DiagnosticIsANote DEF Recorded
    <2> QED  BY <1>4, <2>5 DEF Commit
  <1>5. ASSUME NEW c \in Caller, Publish(c)
        PROVE  LeadsThrough(history', state')
    BY <1>0, <1>5 DEF Publish
  <1>6. ASSUME NEW c \in Caller, EnterState(c)
        PROVE  LeadsThrough(history', state')
    BY <1>0, <1>6 DEF EnterState
  <1>7. ASSUME NEW c \in Caller, FollowUpToFault(c)
        PROVE  LeadsThrough(history', state')
    BY <1>0, <1>7 DEF FollowUpToFault
  <1>8. ASSUME NEW c \in Caller, Finish(c)
        PROVE  LeadsThrough(history', state')
    BY <1>0, <1>8, NotedKeepsPath DEF Finish
  <1>9. ASSUME NEW c \in Caller, Return(c)
        PROVE  LeadsThrough(history', state')
    BY <1>0, <1>9 DEF Return
  <1>10. ASSUME NEW c \in Caller, Cancel(c)
         PROVE  LeadsThrough(history', state')
    BY <1>0, <1>10 DEF Cancel
  <1>11. CASE ReplaceGuards
    BY <1>0, <1>11 DEF ReplaceGuards
  <1>12. CASE UNCHANGED vars
    BY <1>0, <1>12 DEF vars
  <1> QED
    BY <1>1, <1>2, <1>3, <1>4, <1>5, <1>6, <1>7, <1>8, <1>9, <1>10, <1>11,
       <1>12 DEF Next, CommitTask

(* The audit history of every behaviour is one path of the edge table from *)
(* BOOT_SAFE to the current state.                                         *)
THEOREM AuditTrail == Spec => []AuditTrailIsAPath
  <1>1. Init => AuditTrailIsAPath
    BY DEF Init, AuditTrailIsAPath, LeadsThrough, NonePermittedBetween,
           StateAfter
  <1> QED  BY <1>1, MachineInvariant, AuditStep, PTL DEF Spec, AuditInv

(* A commit is alone, rests on a verdict that still holds, and leaves the  *)
(* audit history a path to the current state.                              *)
THEOREM CommitsSound == Spec => []CommitsAreSound
  BY OneCommit, VerdictHolds, AuditTrail, PTL DEF CommitsAreSound

-----------------------------------------------------------------------------
(* The refinement of GuardedStates: Commit is a Move or EnterFault, what   *)
(* makes a fault due is Doom, every other step stutters.                   *)
LEMMA ContractInit == Init => Contract!Init
  BY DEF Init, Contract!Init, FaultIsDue, InFlight

LEMMA SameTable == Contract!ALLOWED_TRANSITIONS = ALLOWED_TRANSITIONS
  BY DEF ALLOWED_TRANSITIONS, SystemState, SafetyStates,
         Contract!ALLOWED_TRANSITIONS, Contract!SystemState,
         Contract!SafetyStates

(* A transaction that has not begun has not failed. *)
NotBegunNotFailed ==
    \A c \in Caller : phase[c] = "scheduled" => txn[c].errors = {}

LEMMA NotBegunStep ==
    MachineInv /\ NotBegunNotFailed /\ [Next]_vars => NotBegunNotFailed'
  <1> SUFFICES ASSUME MachineInv, NotBegunNotFailed, [Next]_vars
               PROVE  NotBegunNotFailed'
    OBVIOUS
  <1>0. phase \in [Caller -> Phase] /\ txn \in [Caller -> Transaction]
    BY DEF MachineInv, TypeOK
  <1> USE DEF NotBegunNotFailed
  <1>1. ASSUME NEW c \in Caller, RejectNested(c) \/ Cancel(c)
        PROVE  NotBegunNotFailed'
    BY <1>1 DEF RejectNested, Cancel
  <1>8. ASSUME NEW c \in Caller, NEW to \in SystemState, Reject(c, to)
        PROVE  NotBegunNotFailed'
    BY <1>8 DEF Reject
  <1>2. ASSUME NEW c \in Caller,
               NEW t \in SystemState,
               phase'[c] # "scheduled" \/ txn'[c] = NewTransaction(state, t),
               \A d \in Caller \ {c} : phase'[d] = phase[d] /\ txn'[d] = txn[d]
        PROVE  NotBegunNotFailed'
    BY <1>2 DEF NewTransaction
  <1>5. ASSUME NEW c \in Caller, NEW to \in SystemState, Accept(c, to)
        PROVE  NotBegunNotFailed'
    <2>1. txn'[c] = NewTransaction(state, to)
      BY <1>0, <1>5 DEF Accept
    <2>2. \A d \in Caller \ {c} : phase'[d] = phase[d] /\ txn'[d] = txn[d]
      BY <1>0, <1>5 DEF Accept
    <2> QED  BY <1>2, <2>1, <2>2
  <1>6. ASSUME NEW c \in Caller,
               Commit(c) \/ EnterState(c) \/ Finish(c) \/ Return(c)
        PROVE  NotBegunNotFailed'
    <2>1. phase'[c] # "scheduled"
      BY <1>0, <1>6 DEF Commit, EnterState, Finish, Return
    <2>2. \A d \in Caller \ {c} : phase'[d] = phase[d] /\ txn'[d] = txn[d]
      BY <1>0, <1>6 DEF Commit, EnterState, Finish, Return
    <2> QED  BY <2>1, <2>2
  <1>7. ASSUME NEW c \in Caller, FollowUpToFault(c) PROVE NotBegunNotFailed'
    <2>1. txn'[c] = NewTransaction(state, "FAULT") /\ "FAULT" \in SystemState
      BY <1>0, <1>7 DEF FollowUpToFault, SystemState
    <2>2. \A d \in Caller \ {c} : phase'[d] = phase[d] /\ txn'[d] = txn[d]
      BY <1>0, <1>7 DEF FollowUpToFault
    <2> QED  BY <1>2, <2>1, <2>2
  <1>3. ASSUME NEW c \in Caller, Publish(c) PROVE NotBegunNotFailed'
    <2>1. \A d \in Caller \ {c} : txn'[d] = txn[d]
      BY <1>0, <1>3 DEF Publish
    <2> QED  BY <1>3, <2>1 DEF Publish
  <1>4. CASE ReplaceGuards \/ UNCHANGED vars
    BY <1>4 DEF ReplaceGuards, vars
  <1> HIDE DEF NotBegunNotFailed
  <1> QED  BY <1>1, <1>3, <1>4, <1>5, <1>6, <1>7, <1>8 DEF Next, CommitTask

LEMMA ContractStep ==
    MachineInv /\ MachineInv' /\ NotBegunNotFailed /\ [Next]_vars
      => [Contract!Next]_(Contract!vars)
  <1> SUFFICES ASSUME MachineInv, MachineInv', NotBegunNotFailed, [Next]_vars
               PROVE  Contract!Next \/ UNCHANGED Contract!vars
    OBVIOUS
  <1>0. /\ phase \in [Caller -> Phase] /\ txn \in [Caller -> Transaction]
        /\ state \in SystemState
    BY DEF MachineInv, TypeOK
  <1>n. /\ \A c \in Caller : InFlight(c) =>
              \A d \in Caller \ {c} : ~InFlight(d)
        /\ ~transitioning => \A d \in Caller : ~InFlight(d)
        /\ \A c \in Caller : InFlight(c)' =>
              \A d \in Caller \ {c} : ~InFlight(d)'
    BY DEF MachineInv, OneCommitAtATime, InFlight
  <1>s. \A c \in Caller : phase[c] = "scheduled" => InFlight(c)
    BY DEF InFlight
  <1>1. ASSUME NEW c \in Caller, Commit(c) PROVE Contract!Next
    <2>1. /\ phase[c] = "scheduled" /\ InFlight(c)
          /\ phase'[c] = "publish" /\ InFlight(c)'
          /\ txn'[c].to = txn[c].to
      BY <1>0, <1>1 DEF Commit, Transaction, InFlight
    <2>2. \A d \in Caller \ {c} : ~InFlight(d) /\ ~InFlight(d)'
      BY <1>n, <2>1
    <2>3. /\ state' = txn[c].to
          /\ txn[c].to \in ALLOWED_TRANSITIONS[state]
          /\ txn[c].errors = {}
      BY <1>1, <2>1 DEF MachineInv, VerdictStillHolds, Commit, NotBegunNotFailed
    <2>4. CASE txn[c].to = "FAULT"
      <3>1. FaultIsDue
        BY <2>1, <2>4 DEF FaultIsDue
      <3>2. ~FaultIsDue'
        BY <2>1, <2>2, <2>4 DEF FaultIsDue, InFlight
      <3> QED  BY <2>3, <2>4, <3>1, <3>2 DEF Contract!EnterFault, Contract!Next
    <2>5. CASE txn[c].to # "FAULT"
      <3>1. ~FaultIsDue
        BY <1>s, <2>2, <2>3, <2>5 DEF FaultIsDue
      <3>2. FaultIsDue' \in BOOLEAN
        BY Zenon DEF FaultIsDue
      <3>3. state' \in ALLOWED_TRANSITIONS[state] \ {"FAULT"}
        BY <2>3, <2>5
      <3>4. ~FaultIsDue /\ FaultIsDue' \in BOOLEAN
        BY <3>1, <3>2
      <3>5. Contract!Move
        BY <3>3, <3>4, SameTable, Zenon DEF Contract!Move
      <3> QED  BY <3>5, Zenon DEF Contract!Next
    <2> QED  BY <2>4, <2>5
  <1>2. ASSUME NEW c \in Caller, NEW to \in SystemState, Accept(c, to)
        PROVE  Contract!Next \/ UNCHANGED Contract!vars
    <2>1. /\ ~FaultIsDue /\ UNCHANGED state
          /\ to \in ALLOWED_TRANSITIONS[state]
      BY <1>n, <1>s, <1>2, GrantedIsEdge DEF Accept, FaultIsDue
    <2>2. /\ phase'[c] = "scheduled" /\ InFlight(c)'
          /\ txn'[c].to = to /\ txn'[c].errors = {}
      BY <1>0, <1>2 DEF Accept, NewTransaction, InFlight
    <2>3. \A d \in Caller \ {c} : ~InFlight(d)' /\ phase'[d] # "scheduled"
      BY <1>n, <2>2 DEF InFlight
    <2>4. CASE to = "FAULT"
      <3>1. FaultIsDue'
        BY <2>2, <2>4 DEF FaultIsDue
      <3>2. state # "FAULT"
        BY <2>1, <2>4 DEF ALLOWED_TRANSITIONS, SystemState
      <3>3. Contract!Doom
        BY <2>1, <3>1, <3>2, Zenon DEF Contract!Doom
      <3> QED  BY <3>3, Zenon DEF Contract!Next
    <2>5. CASE to # "FAULT"
      <3>1. ~FaultIsDue'
        BY <2>2, <2>3, <2>5 DEF FaultIsDue
      <3>2. FaultIsDue' = FaultIsDue
        BY <2>1, <3>1, Zenon DEF FaultIsDue
      <3> QED  BY <2>1, <3>2 DEF Contract!vars
    <2> QED  BY <2>4, <2>5
  <1>3. ASSUME NEW c \in Caller, Publish(c)
        PROVE  Contract!Next \/ UNCHANGED Contract!vars
    <2>1. /\ phase[c] = "publish" /\ InFlight(c) /\ InFlight(c)'
          /\ phase'[c] = "publish" /\ txn'[c].to = txn[c].to
          /\ UNCHANGED state
          /\ txn[c].errors \subseteq txn'[c].errors
      BY <1>0, <1>3 DEF Publish, Transaction, InFlight
    <2>2. \A d \in Caller \ {c} :
            ~InFlight(d) /\ ~InFlight(d)'
              /\ phase[d] # "scheduled" /\ phase'[d] # "scheduled"
      BY <1>n, <2>1 DEF InFlight
    <2>3. state = txn[c].to
      BY <2>1 DEF MachineInv, VerdictStillHolds
    <2>4. /\ FaultIsDue <=> txn[c].to # "FAULT" /\ txn[c].errors # {}
          /\ FaultIsDue' <=> txn[c].to # "FAULT" /\ txn'[c].errors # {}
      BY <2>1, <2>2 DEF FaultIsDue
    <2>5. FaultIsDue => FaultIsDue'
      BY <2>1, <2>4
    <2>6. CASE ~FaultIsDue /\ FaultIsDue'
      BY <2>1, <2>3, <2>4, <2>6 DEF Contract!Doom, Contract!Next
    <2>7. CASE FaultIsDue' <=> FaultIsDue
      <3>1. FaultIsDue \in BOOLEAN /\ FaultIsDue' \in BOOLEAN
        BY Zenon DEF FaultIsDue
      <3>2. FaultIsDue' = FaultIsDue
        BY <2>7, <3>1, Zenon
      <3> QED  BY <2>1, <3>2 DEF Contract!vars
    <2> QED  BY <2>5, <2>6, <2>7
  <1>4. ASSUME NEW c \in Caller, FollowUpToFault(c)
        PROVE  Contract!Next \/ UNCHANGED Contract!vars
    <2>1. /\ InFlight(c) /\ UNCHANGED state
          /\ phase'[c] = "scheduled" /\ txn'[c].to = "FAULT"
          /\ state = txn[c].to /\ txn[c].to # "FAULT"
      BY <1>0, <1>4 DEF FollowUpToFault, InFlight, NewTransaction, MachineInv,
                        VerdictStillHolds
    <2>2. FaultIsDue'
      BY <2>1 DEF FaultIsDue
    <2>3. CASE FaultIsDue
      <3>1. FaultIsDue' = FaultIsDue
        BY <2>2, <2>3, Zenon DEF FaultIsDue
      <3> QED  BY <2>1, <3>1 DEF Contract!vars
    <2>4. CASE ~FaultIsDue
      BY <2>1, <2>2, <2>4 DEF Contract!Doom, Contract!Next
    <2> QED  BY <2>3, <2>4
  <1>5. ASSUME NEW c \in Caller, Finish(c) PROVE UNCHANGED Contract!vars
    <2>1. /\ InFlight(c) /\ phase[c] = "entry" /\ UNCHANGED state
          /\ txn[c].errors # {} => txn[c].to = "FAULT"
          /\ phase'[c] = "finished" /\ ~InFlight(c)'
      BY <1>0, <1>5 DEF Finish, InFlight, CommitErrors
    <2>2. \A d \in Caller \ {c} :
            /\ ~InFlight(d) /\ phase[d] # "scheduled"
            /\ ~InFlight(d)' /\ phase'[d] # "scheduled"
      BY <1>0, <1>n, <1>5, <2>1 DEF InFlight, Finish
    <2>3. ~FaultIsDue /\ ~FaultIsDue'
      BY <2>1, <2>2 DEF FaultIsDue
    <2> QED  BY <2>1, <2>3, Zenon DEF Contract!vars, FaultIsDue
  <1>6. ASSUME NEW c \in Caller, Return(c) \/ EnterState(c)
        PROVE  UNCHANGED Contract!vars
    <2>1. /\ UNCHANGED state
          /\ phase[c] # "scheduled" /\ phase'[c] # "scheduled"
          /\ InFlight(c)' <=> InFlight(c)
          /\ InFlight(c) => txn'[c] = txn[c]
          /\ \A d \in Caller \ {c} :
                phase'[d] = phase[d] /\ txn'[d] = txn[d]
      BY <1>0, <1>6 DEF Return, EnterState, InFlight
    <2>2. FaultIsDue' <=> FaultIsDue
      BY <2>1 DEF FaultIsDue, InFlight
    <2>3. FaultIsDue \in BOOLEAN /\ FaultIsDue' \in BOOLEAN
      BY Zenon DEF FaultIsDue
    <2>4. FaultIsDue' = FaultIsDue
      BY <2>2, <2>3, Zenon
    <2> QED  BY <2>1, <2>4 DEF Contract!vars
  <1>7. CASE UNCHANGED <<state, phase, txn>>
    BY <1>7 DEF Contract!vars, FaultIsDue, InFlight
  <1>8. ASSUME NEW c \in Caller, NEW to \in SystemState,
               Reject(c, to) \/ RejectNested(c) \/ Cancel(c) \/ ReplaceGuards
                 \/ UNCHANGED vars
        PROVE  UNCHANGED <<state, phase, txn>>
    BY <1>8 DEF Reject, RejectNested, Cancel, ReplaceGuards, vars
  <1> QED
    <2>1. CASE UNCHANGED vars \/ ReplaceGuards
      BY <2>1, <1>7 DEF ReplaceGuards, vars
    <2>2. CASE \E c \in Caller, to \in SystemState :
                 Reject(c, to) \/ Accept(c, to)
      BY <2>2, <1>2, <1>7, <1>8
    <2>3. CASE \E c \in Caller :
                 RejectNested(c) \/ CommitTask(c) \/ Return(c) \/ Cancel(c)
      BY <2>3, <1>1, <1>3, <1>4, <1>5, <1>6, <1>7 DEF CommitTask, RejectNested,
                                                       Cancel
    <2> QED  BY <2>1, <2>2, <2>3 DEF Next

(* Every behaviour of the machine is one of the guarded states: the state  *)
(* moves along the table, and a fault that is due is the next thing that   *)
(* happens to it.  (That it does happen is left to the runs.)              *)
THEOREM RefinesContract == Spec => Contract!Init /\ [][Contract!Next]_(Contract!vars)
  <1>1. Init => NotBegunNotFailed
    BY DEF Init, NotBegunNotFailed, NoTransaction
  <1>2. MachineInv /\ NotBegunNotFailed /\ [Next]_vars => NotBegunNotFailed'
    BY NotBegunStep
  <1>3. Spec => []NotBegunNotFailed
    BY <1>1, <1>2, MachineInvariant, PTL DEF Spec
  <1> QED  BY <1>3, MachineInvariant, ContractInit, ContractStep, PTL DEF Spec

-----------------------------------------------------------------------------
(* The console. *)


Stage == {"idle", "queued", "commit", "taking", "handing", "handed", "fenced",
          "sport", "stopped", "leave", "leaving", "drop", "dropped",
          "boot", "pose", "finalize"}
ShellAims == {"none", "interrupt", "close", "connect", "confirm", "acquire", "authorize",
              "release", "clear", "disconnect", "stop", "exit"}
MonitorAims == {"none", "tick", "report"}

Runs == [Actors -> [pc : Stage, aim : ShellAims \cup MonitorAims,
                    ok : BOOLEAN, was : BOOLEAN]]

(* The kinds of value that the steps below tell apart.                     *)
Kinds ==
    /\ ChangeOK
    /\ own \in {"observe", "acquiring", "hold", "safe", "releasing", "fault"}
    /\ back \in {"off", "on", "over"}
    /\ dog \in {"locked", "free", "low"}

(* Which command stands at which place.                                    *)
ShellAt(pc, aim) ==
    /\ aim \in ShellAims
    /\ pc = "boot" => aim = "connect"
    /\ pc = "finalize" => aim = "confirm"
    /\ pc = "taking" => aim = "acquire"
    /\ pc \in {"handing", "handed", "fenced"} => aim = "release"
    /\ pc \in {"leave", "leaving", "drop"} => aim \in {"close", "disconnect"}
    /\ pc = "dropped" => aim = "close"

MonitorAt(pc, aim) ==
    /\ aim \in MonitorAims
    /\ pc \in {"idle", "queued", "commit", "sport", "stopped", "pose"}
    /\ pc # "idle" => aim # "none"

PlaceInv ==
    /\ run \in Runs
    /\ ShellAt(run["shell"].pc, run["shell"].aim)
    /\ MonitorAt(run["monitor"].pc, run["monitor"].aim)

(* An owner that is coming or going is the shell's doing.                  *)
Owning ==
    /\ run["shell"].pc = "taking" => own = "acquiring" /\ enabled
    /\ run["shell"].pc = "handing" => own = "releasing" /\ enabled
    /\ ~enabled => ~Pending /\ relocked

Coming(to) == change.pc # "none" /\ change.to = to
Accepted(to) == change.pc = "accepted" /\ change.to = to

(* A pending transition still starts where it was granted.                 *)
Sources ==
    /\ change.pc = "entry" => mode = change.to
    /\ Accepted("GO2_JOINT_LOCK_WAIT") => mode = "BOOT_SAFE"
    /\ Accepted("GO2_GROUND_HANDOVER") => mode = "TOUCHDOWN_VERIFY"
    /\ Accepted("BOOT_SAFE") =>
          mode = "FAULT" \/ (mode = "FLIGHT_READY" /\ run["shell"].pc = "leaving")

SportModes == {"BOOT_SAFE", "GO2_JOINT_LOCK_WAIT", "GO2_GROUND_HANDOVER"}

(* In these states the Sport service commands, or is about to.             *)
Unowned ==
    /\ mode \in SportModes => ~Pending
    /\ change.pc # "none" /\ change.to \in SportModes => ~Pending

Left ==
    /\ run["shell"].pc = "dropped" => ~Pending /\ link = "down"
    /\ place = "closed" =>
          run["shell"].pc = "idle" /\ run["monitor"].pc = "idle" /\ ~alive

(* The lock that is shown is one of now.                                   *)
Fresh == LockShown => relocked

(* Where a sample is believed it is of the time since Sport has the legs.  *)
Believed ==
    /\ dog = "locked" => relocked
    /\ mode = "GO2_JOINT_LOCK_WAIT" \/ Coming("GO2_JOINT_LOCK_WAIT")
          \/ run["shell"].pc = "boot" => Fresh
    /\ mode = "GO2_GROUND_HANDOVER" \/ Coming("GO2_GROUND_HANDOVER")
          => (fence /\ BehindFence => relocked)
    /\ run["shell"].pc = "pose" \/ run["monitor"].pc = "pose" => Fresh

(* The operator's word is given with the transition that rests on it.      *)
Vouched ==
    /\ run["shell"].pc = "finalize" => ~opLock
    /\ mode = "GO2_JOINT_LOCK_WAIT" /\ opLock =>
          run["shell"].pc = "commit" /\ Accepted("FLIGHT_READY")

ReadyIsFounded ==
    Accepted("FLIGHT_READY") /\ mode # "FLIGHT_READY" => ~Pending /\ (opLock \/ relocked)

GroundInv == Sources /\ Unowned
AloneInv == SportIsAlone /\ Left /\ NoOrphan
CauseInv == Believed /\ Vouched /\ ReadyIsFounded

ConsoleInv ==
    Kinds /\ PlaceInv /\ Owning /\ LegsStayHeld /\ GroundInv /\ AloneInv /\ CauseInv

-----------------------------------------------------------------------------
(* What a request leaves pending.                                          *)
Asked(to) == Free /\ Guard(to) /\ change'.pc = "accepted" /\ change'.to = to
FaultAsked == change' = change \/ (Free /\ change'.pc = "accepted" /\ change'.to = "FAULT")

(* A transition is none, accepted or being entered.                         *)
LEMMA TypedFields ==
    ASSUME Kinds
    PROVE  /\ DOMAIN change = {"to", "pc", "muted"}
           /\ change.pc \in {"none", "accepted", "entry"}
  BY DEF Kinds, ChangeOK

(* What a granted transition takes for granted.                            *)
LEMMA Granting ==
    ASSUME Kinds
    PROVE  /\ Guard("BOOT_SAFE") => mode \in {"FLIGHT_READY", "FAULT"} /\ ~Pending
           /\ Guard("GO2_JOINT_LOCK_WAIT") => mode = "BOOT_SAFE" /\ ~Pending
           /\ Guard("GO2_GROUND_HANDOVER") =>
                 mode = "TOUCHDOWN_VERIFY" /\ ~Pending /\ ~(fence /\ BehindFence)
           /\ Guard("FLIGHT_READY") => ~Armed /\ Confirmed /\ (enabled => ~Pending)
<1> USE DEF Guard, Pending
<1>1. Guard("BOOT_SAFE") => mode \in {"FLIGHT_READY", "FAULT"} /\ ~Pending
  BY DEF BootGuard
<1>2. Guard("GO2_JOINT_LOCK_WAIT") => mode = "BOOT_SAFE" /\ ~Pending
  BY DEF WaitGuard, LowCmdOwnershipAllowedStates, SafetyStates
<1>3. Auth = "reacquiring" /\ ~Pending => ~(fence /\ BehindFence)
  BY DEF Auth, Regained, Kinds
<1>4. Guard("GO2_GROUND_HANDOVER") =>
         mode = "TOUCHDOWN_VERIFY" /\ ~Pending /\ ~(fence /\ BehindFence)
  BY <1>3 DEF HandoverGuard
<1>5. Auth = "lock" => ~Pending
  BY DEF Auth, Kinds
<1>6. Guard("FLIGHT_READY") => ~Armed /\ Confirmed /\ (enabled => ~Pending)
  BY <1>5 DEF ReadyGuard, LockHeld
<1> QED BY <1>1, <1>2, <1>4, <1>6

(* The states that a tick asks for.                                        *)
LEMMA Wanting ==
    Wanted \in {"FLIGHT_READY", "FLIGHT_MANUAL", "TOUCHDOWN_VERIFY", "LANDING_COMPLIANT",
                "nothing"}
  BY DEF Wanted

(* A transition that begins was asked for; one that faults was not refused. *)
LEMMA Asking ==
    ASSUME NEW to, Begins(to) PROVE Asked(to)
  BY DEF Begins, Asked

(* A step of somebody else.                                                *)
LEMMA Stuttering ==
    UNCHANGED allVars => UNCHANGED <<enabled, mode, change, own, dog, relocked, sport, fence,
                                     back, opLock, gate, flight, link, run, place, alive>>
  BY DEF allVars, handoverVars, legVars, sampleVars, seenVars, flightVars

LEMMA Faulting == \A muted \in BOOLEAN : Faults(muted) => FaultAsked
  BY DEF Faults, FaultAsked, Free

(* A task has moved, and the other one has not.                            *)
Moved(a, pc, aim) ==
    /\ run' \in Runs
    /\ run'[a].pc = pc /\ run'[a].aim = aim
    /\ \A b \in Actors : b # a => run'[b] = run[b]

(* What an update of a task's place makes of it.                            *)
LEMMA Moves ==
    ASSUME NEW rest \in Runs, NEW a \in Actors, \A b \in Actors : b # a => rest[b] = run[b],
           NEW pc \in Stage, NEW aim \in ShellAims \cup MonitorAims,
           NEW ok \in BOOLEAN, NEW was \in BOOLEAN
    PROVE  /\ run' = [rest EXCEPT ![a] = Rest] => Moved(a, "idle", "none")
           /\ run' = [rest EXCEPT ![a].pc = pc] => Moved(a, pc, rest[a].aim)
           /\ run' = [rest EXCEPT ![a].pc = pc, ![a].was = was] => Moved(a, pc, rest[a].aim)
           /\ run' = [rest EXCEPT ![a].pc = pc, ![a].ok = ok] => Moved(a, pc, rest[a].aim)
           /\ run' = [rest EXCEPT ![a].pc = pc, ![a].ok = ok, ![a].was = was]
                => Moved(a, pc, rest[a].aim)
           /\ run' = [rest EXCEPT ![a] = [Rest EXCEPT !.pc = pc, !.aim = aim]]
                => Moved(a, pc, aim)
           /\ run' = [rest EXCEPT ![a] = [Rest EXCEPT !.aim = aim, !.pc = pc]]
                => Moved(a, pc, aim)
<1> USE DEF Runs, Moved
<1>1. run' = [rest EXCEPT ![a] = Rest] => Moved(a, "idle", "none")
  BY DEF Rest, Stage, ShellAims
<1>2. run' = [rest EXCEPT ![a].pc = pc] => Moved(a, pc, rest[a].aim)
  OBVIOUS
<1>3. run' = [rest EXCEPT ![a].pc = pc, ![a].was = was]
        => Moved(a, pc, rest[a].aim)
  <2> DEFINE first == [rest EXCEPT ![a].pc = pc]
  <2>1. first \in Runs /\ first[a].pc = pc /\ first[a].aim = rest[a].aim
        /\ \A b \in Actors : b # a => first[b] = rest[b]
    OBVIOUS
  <2>2. [rest EXCEPT ![a].pc = pc, ![a].was = was] = [first EXCEPT ![a].was = was]
    OBVIOUS
  <2> HIDE DEF first
  <2> QED BY <2>1, <2>2
<1>4. run' = [rest EXCEPT ![a].pc = pc, ![a].ok = ok]
        => Moved(a, pc, rest[a].aim)
  <2> DEFINE first == [rest EXCEPT ![a].pc = pc]
  <2>1. first \in Runs /\ first[a].pc = pc /\ first[a].aim = rest[a].aim
        /\ \A b \in Actors : b # a => first[b] = rest[b]
    OBVIOUS
  <2>2. [rest EXCEPT ![a].pc = pc, ![a].ok = ok] = [first EXCEPT ![a].ok = ok]
    OBVIOUS
  <2> HIDE DEF first
  <2> QED BY <2>1, <2>2
<1>5. run' = [rest EXCEPT ![a].pc = pc, ![a].ok = ok, ![a].was = was]
        => Moved(a, pc, rest[a].aim)
  <2> DEFINE first == [rest EXCEPT ![a].pc = pc, ![a].ok = ok]
  <2>1. first \in Runs /\ first[a].pc = pc /\ first[a].aim = rest[a].aim
        /\ \A b \in Actors : b # a => first[b] = rest[b]
    OBVIOUS
  <2>2. [rest EXCEPT ![a].pc = pc, ![a].ok = ok, ![a].was = was] = [first EXCEPT ![a].was = was]
    OBVIOUS
  <2> HIDE DEF first
  <2> QED BY <2>1, <2>2
<1>6. run' = [rest EXCEPT ![a] = [Rest EXCEPT !.pc = pc, !.aim = aim]] => Moved(a, pc, aim)
  BY DEF Rest
<1>7. run' = [rest EXCEPT ![a] = [Rest EXCEPT !.aim = aim, !.pc = pc]] => Moved(a, pc, aim)
  BY ZenonT(60) DEF Rest
<1> QED BY <1>1, <1>2, <1>3, <1>4, <1>5, <1>6, <1>7

-----------------------------------------------------------------------------
(* Where the task stands that each operation begins or resumes, and where it may *)
(* go.                                                                      *)
LEMMA CommittedMoves ==
    ASSUME PlaceInv, NEW a \in Actors, Committed(a)
    PROVE  /\ run[a].pc = "commit"
           /\ Moved(a, "idle", "none")
<1>1. run[a].pc = "commit"
  BY DEF Committed, Starts, PlaceInv, ShellAt, MonitorAt, MonitorAims, Actors
<1>2. run' = [run EXCEPT ![a] = Rest]
  BY DEF Committed, Ends
<1> QED BY ZenonT(60), <1>1, <1>2, Moves DEF PlaceInv, Stage, ShellAims

LEMMA AcquireMoves ==
    ASSUME PlaceInv, NEW a \in Actors, Acquire(a)
    PROVE  /\ a = "shell" /\ run[a].pc = "queued" /\ run[a].aim = "acquire"
           /\ \/ /\ enabled /\ ~Armed /\ mode = "FLIGHT_READY" /\ ~Pending /\ own' = "acquiring"
                 /\ Moved(a, "taking", run[a].aim)
              \/ /\ UNCHANGED own
                 /\ Moved(a, "idle", "none")
<1>1. a = "shell" /\ run[a].pc = "queued" /\ run[a].aim = "acquire"
  BY DEF Acquire, Starts, PlaceInv, ShellAt, MonitorAt, MonitorAims, Actors
<1>2. \/ /\ enabled /\ ~Armed /\ mode = "FLIGHT_READY" /\ ~Pending /\ own' = "acquiring"
         /\ run' = [run EXCEPT ![a].pc = "taking"]
      \/ /\ UNCHANGED own
         /\ run' = [run EXCEPT ![a] = Rest]
  BY DEF Acquire, Ends, Grounded
<1> QED BY ZenonT(60), <1>1, <1>2, Moves DEF PlaceInv, Stage, ShellAims

LEMMA TakenMoves ==
    ASSUME PlaceInv, NEW a \in Actors, Taken(a)
    PROVE  /\ a = "shell" /\ run[a].pc = "taking"
           /\ Moved(a, "idle", "none")
<1>1. a = "shell" /\ run[a].pc = "taking"
  BY DEF Taken, Starts, PlaceInv, ShellAt, MonitorAt, MonitorAims, Actors
<1>2. run' = [run EXCEPT ![a] = Rest]
  BY DEF Taken, Ends
<1> QED BY ZenonT(60), <1>1, <1>2, Moves DEF PlaceInv, Stage, ShellAims

LEMMA ReleaseMoves ==
    ASSUME PlaceInv, NEW a \in Actors, Release(a)
    PROVE  /\ a = "shell" /\ run[a].pc = "queued" /\ run[a].aim = "release"
           /\ \/ /\ UNCHANGED own
                 /\ Moved(a, "idle", "none")
              \/ /\ UNCHANGED own
                 /\ Moved(a, "handed", run[a].aim)
              \/ /\ enabled /\ ~Armed /\ own \in {"hold", "safe", "fault"} /\ own' = "releasing"
                 /\ Moved(a, "handing", run[a].aim)
<1>1. a = "shell" /\ run[a].pc = "queued" /\ run[a].aim = "release"
  BY DEF Release, Starts, PlaceInv, ShellAt, MonitorAt, MonitorAims, Actors
<1>2. \/ /\ UNCHANGED own
         /\ run' = [run EXCEPT ![a] = Rest]
      \/ /\ UNCHANGED own
         /\ run' = [run EXCEPT ![a].pc = "handed", ![a].was = TRUE]
      \/ /\ enabled /\ ~Armed /\ own \in {"hold", "safe", "fault"} /\ own' = "releasing"
         /\ run' = [run EXCEPT ![a].pc = "handing",
                                ![a].ok = (own = "hold"),
                                ![a].was = (mode = "TOUCHDOWN_VERIFY")]
  BY DEF Release, Ends, Grounded
<1> QED BY ZenonT(60), <1>1, <1>2, Moves DEF PlaceInv, Stage, ShellAims

LEMMA HandsBackMoves ==
    ASSUME PlaceInv, NEW a \in Actors, HandsBack(a)
    PROVE  /\ a = "shell" /\ run[a].pc = "handing"
           /\ \/ Moved(a, "handed", run[a].aim)
              \/ Moved(a, "idle", "none")
<1>1. a = "shell" /\ run[a].pc = "handing"
  BY DEF HandsBack, Starts, PlaceInv, ShellAt, MonitorAt, MonitorAims, Actors
<1>2. \/ run' = [run EXCEPT ![a].pc = "handed"]
      \/ run' = [run EXCEPT ![a] = Rest]
  BY DEF HandsBack, Ends
<1> QED BY ZenonT(60), <1>1, <1>2, Moves DEF PlaceInv, Stage, ShellAims

LEMMA FenceMoves ==
    ASSUME PlaceInv, NEW a \in Actors, Fence(a)
    PROVE  /\ a = "shell" /\ run[a].pc = "handed"
           /\ \/ Moved(a, "fenced", run[a].aim)
              \/ Moved(a, "idle", "none")
<1>1. a = "shell" /\ run[a].pc = "handed"
  BY DEF Fence, Starts, PlaceInv, ShellAt, MonitorAt, MonitorAims, Actors
<1>2. \/ run' = [run EXCEPT ![a].pc = "fenced"]
      \/ run' = [run EXCEPT ![a] = Rest]
  BY DEF Fence, Goes, Ends
<1> QED BY ZenonT(60), <1>1, <1>2, Moves DEF PlaceInv, Stage, ShellAims

LEMMA ReleasedMoves ==
    ASSUME PlaceInv, NEW a \in Actors, Released(a)
    PROVE  /\ a = "shell" /\ run[a].pc = "fenced"
           /\ \/ /\ UNCHANGED change
                 /\ Moved(a, "idle", "none")
              \/ /\ (Asked("GO2_GROUND_HANDOVER") \/ FaultAsked)
                 /\ Moved(a, "commit", run[a].aim)
<1>1. a = "shell" /\ run[a].pc = "fenced"
  BY DEF Released, Starts, PlaceInv, ShellAt, MonitorAt, MonitorAims, Actors
<1>2. \/ /\ UNCHANGED change
         /\ run' = [run EXCEPT ![a] = Rest]
      \/ /\ (Asked("GO2_GROUND_HANDOVER") \/ FaultAsked)
         /\ run' = [run EXCEPT ![a].pc = "commit"]
  BY ZenonT(60), Asking, Faulting DEF Released, Ends
<1> QED BY ZenonT(60), <1>1, <1>2, Moves DEF PlaceInv, Stage, ShellAims

LEMMA AuthorizeMoves ==
    ASSUME PlaceInv, NEW a \in Actors, Authorize(a)
    PROVE  /\ a = "shell" /\ run[a].pc = "queued" /\ run[a].aim = "authorize"
           /\ Moved(a, "idle", "none")
<1>1. a = "shell" /\ run[a].pc = "queued" /\ run[a].aim = "authorize"
  BY DEF Authorize, Starts, PlaceInv, ShellAt, MonitorAt, MonitorAims, Actors
<1>2. run' = [run EXCEPT ![a] = Rest]
  BY DEF Authorize, Ends
<1> QED BY ZenonT(60), <1>1, <1>2, Moves DEF PlaceInv, Stage, ShellAims

LEMMA StopMoves ==
    ASSUME PlaceInv, NEW a \in Actors, Stop(a)
    PROVE  /\ run[a].pc = "queued"
           /\ run[a].aim \in {"stop", "disconnect", "exit", "close", "report"}
           /\ \/ /\ ~Pending /\ UNCHANGED own
                 /\ Moved(a, "sport", run[a].aim)
              \/ Moved(a, "stopped", run[a].aim)
<1>1. /\ run[a].pc = "queued"
      /\ run[a].aim \in {"stop", "disconnect", "exit", "close", "report"}
  BY DEF Stop, Starts, PlaceInv, ShellAt, MonitorAt, MonitorAims, Actors
<1>2. \/ /\ ~Pending /\ UNCHANGED own
         /\ \E ok, was \in BOOLEAN :
            run' = [run EXCEPT ![a].pc = "sport", ![a].ok = ok, ![a].was = was]
      \/ \E ok \in BOOLEAN : run' = [run EXCEPT ![a].pc = "stopped", ![a].ok = ok]
  BY DEF Stop, Halts, Calms, Pending
<1> QED BY ZenonT(60), <1>1, <1>2, Moves DEF PlaceInv, Stage, ShellAims

LEMMA StopMovedMoves ==
    ASSUME PlaceInv, NEW a \in Actors, StopMoved(a)
    PROVE  /\ run[a].pc = "sport"
           /\ \/ Moved(a, "idle", "none")
              \/ Moved(a, "stopped", run[a].aim)
<1>0. run[a].ok \in BOOLEAN
  BY DEF PlaceInv, Runs
<1>1. run[a].pc = "sport"
  BY DEF StopMoved, Starts, PlaceInv, ShellAt, MonitorAt, MonitorAims, Actors
<1>2. \/ run' = [run EXCEPT ![a] = Rest]
      \/ \E ok \in BOOLEAN :
            run' = [run EXCEPT ![a].pc = "stopped", ![a].ok = ok, ![a].was = FALSE]
  BY <1>0 DEF StopMoved, Ends
<1> QED BY ZenonT(60), <1>1, <1>2, Moves DEF PlaceInv, Stage, ShellAims

LEMMA StopReturnsMoves ==
    ASSUME PlaceInv, NEW a \in Actors, StopReturns(a)
    PROVE  /\ run[a].pc = "stopped"
           /\ \/ Moved(a, "idle", "none")
              \/ Moved(a, "commit", run[a].aim)
              \/ a = "shell" /\ Moved(a, "queued", "close")
              \/ /\ a = "shell" /\ run[a].aim \in {"close", "disconnect"}
                 /\ Moved(a, "leave", run[a].aim)
<1>1. run[a].pc = "stopped" /\ run[a].aim \in ShellAims \cup MonitorAims
  BY DEF StopReturns, PlaceInv, Runs
<1>2. run[a].aim \in {"exit", "close", "disconnect"} => a = "shell"
  BY DEF PlaceInv, ShellAt, MonitorAt, MonitorAims, Actors
<1>3. \/ run' = [run EXCEPT ![a] = Rest]
      \/ run' = [run EXCEPT ![a] = [Rest EXCEPT !.pc = "commit", !.aim = run[a].aim]]
      \/ /\ run[a].aim = "exit"
         /\ run' = [run EXCEPT ![a] = [Rest EXCEPT !.pc = "queued", !.aim = "close"]]
      \/ run[a].aim \in {"close", "disconnect"} /\ run' = [run EXCEPT ![a].pc = "leave"]
  BY DEF StopReturns, Ends, Goes
<1> QED BY ZenonT(60), <1>1, <1>2, <1>3, Moves DEF PlaceInv, Stage, ShellAims

LEMMA PrepareMoves ==
    ASSUME PlaceInv, NEW a \in Actors, Prepare(a)
    PROVE  /\ a = "shell" /\ run[a].pc = "leave"
           /\ \/ /\ UNCHANGED change
                 /\ Moved(a, "idle", "none")
              \/ /\ UNCHANGED change
                 /\ Moved(a, "drop", run[a].aim)
              \/ /\ mode = "FLIGHT_READY" /\ Begins("BOOT_SAFE")
                 /\ Moved(a, "leaving", run[a].aim)
<1>1. a = "shell" /\ run[a].pc = "leave"
  BY DEF Prepare, Starts, PlaceInv, ShellAt, MonitorAt, MonitorAims, Actors
<1>2. \/ /\ UNCHANGED change
         /\ run' = [run EXCEPT ![a] = Rest]
      \/ /\ UNCHANGED change
         /\ run' = [run EXCEPT ![a].pc = "drop"]
      \/ /\ mode = "FLIGHT_READY" /\ Begins("BOOT_SAFE")
         /\ run' = [run EXCEPT ![a].pc = "leaving"]
  BY DEF Prepare, Ends
<1> QED BY ZenonT(60), <1>1, <1>2, Moves DEF PlaceInv, Stage, ShellAims

LEMMA PreparedMoves ==
    ASSUME PlaceInv, NEW a \in Actors, Prepared(a)
    PROVE  /\ a = "shell" /\ run[a].pc = "leaving"
           /\ \/ Moved(a, "idle", "none")
              \/ Moved(a, "drop", run[a].aim)
<1>1. a = "shell" /\ run[a].pc = "leaving"
  BY DEF Prepared, Starts, PlaceInv, ShellAt, MonitorAt, MonitorAims, Actors
<1>2. \/ run' = [run EXCEPT ![a] = Rest]
      \/ run' = [run EXCEPT ![a].pc = "drop"]
  BY DEF Prepared, Ends
<1> QED BY ZenonT(60), <1>1, <1>2, Moves DEF PlaceInv, Stage, ShellAims

LEMMA DropMoves ==
    ASSUME PlaceInv, NEW a \in Actors, Drop(a)
    PROVE  /\ a = "shell" /\ run[a].pc = "drop"
           /\ \/ Moved(a, "idle", "none")
              \/ /\ run[a].aim = "close" /\ ~Pending /\ UNCHANGED own /\ link' = "down"
                 /\ Moved(a, "dropped", run[a].aim)
              \/ Moved(a, "commit", run[a].aim)
<1>1. a = "shell" /\ run[a].pc = "drop"
  BY DEF Drop, Starts, PlaceInv, ShellAt, MonitorAt, MonitorAims, Actors
<1>2. \/ run' = [run EXCEPT ![a] = Rest]
      \/ /\ run[a].aim = "close" /\ ~Pending /\ UNCHANGED own /\ link' = "down"
         /\ run' = [run EXCEPT ![a].pc = "dropped"]
      \/ run' = [run EXCEPT ![a].pc = "commit"]
  BY DEF Drop, Ends, Pending, still, legVars
<1> QED BY ZenonT(60), <1>1, <1>2, Moves DEF PlaceInv, Stage, ShellAims

LEMMA ConnectMoves ==
    ASSUME PlaceInv, NEW a \in Actors, Connect(a)
    PROVE  /\ a = "shell" /\ run[a].pc = "queued" /\ run[a].aim = "connect"
           /\ \/ /\ UNCHANGED change
                 /\ Moved(a, "idle", "none")
              \/ /\ mode = "BOOT_SAFE" /\ sport' = dog /\ UNCHANGED change
                 /\ Moved(a, "pose", run[a].aim)
              \/ /\ mode = "BOOT_SAFE" /\ sport' = dog /\ UNCHANGED change
                 /\ Moved(a, "boot", run[a].aim)
              \/ /\ UNCHANGED sport /\ FaultAsked
                 /\ Moved(a, "commit", run[a].aim)
<1>1. a = "shell" /\ run[a].pc = "queued" /\ run[a].aim = "connect"
  BY DEF Connect, Starts, PlaceInv, ShellAt, MonitorAt, MonitorAims, Actors
<1>2. \/ /\ UNCHANGED change
         /\ run' = [run EXCEPT ![a] = Rest]
      \/ /\ mode = "BOOT_SAFE" /\ sport' = dog /\ UNCHANGED change
         /\ run' = [run EXCEPT ![a].pc = "pose"]
      \/ /\ mode = "BOOT_SAFE" /\ sport' = dog /\ UNCHANGED change
         /\ run' = [run EXCEPT ![a].pc = "boot"]
      \/ /\ UNCHANGED sport /\ FaultAsked
         /\ run' = [run EXCEPT ![a].pc = "commit"]
  BY Asking, Faulting DEF Connect, Goes, Ends
<1> QED BY ZenonT(60), <1>1, <1>2, Moves DEF PlaceInv, Stage, ShellAims

LEMMA BootStoppedMoves ==
    ASSUME PlaceInv, NEW a \in Actors, BootStopped(a)
    PROVE  /\ a = "shell" /\ run[a].pc = "boot"
           /\ \/ /\ UNCHANGED change
                 /\ Moved(a, "idle", "none")
              \/ /\ (Asked("GO2_JOINT_LOCK_WAIT") \/ FaultAsked)
                 /\ Moved(a, "commit", run[a].aim)
<1>1. a = "shell" /\ run[a].pc = "boot"
  BY DEF BootStopped, Starts, PlaceInv, ShellAt, MonitorAt, MonitorAims, Actors
<1>2. \/ /\ UNCHANGED change
         /\ run' = [run EXCEPT ![a] = Rest]
      \/ /\ (Asked("GO2_JOINT_LOCK_WAIT") \/ FaultAsked)
         /\ run' = [run EXCEPT ![a].pc = "commit"]
  BY ZenonT(60), Asking, Faulting DEF BootStopped, Ends, Concludes
<1> QED BY ZenonT(60), <1>1, <1>2, Moves DEF PlaceInv, Stage, ShellAims

LEMMA PosedMoves ==
    ASSUME PlaceInv, NEW a \in Actors, Posed(a)
    PROVE  /\ run[a].pc = "pose"
           /\ \/ Moved(a, "idle", "none")
              \/ Moved(a, "commit", run[a].aim)
<1>1. run[a].pc = "pose"
  BY DEF Posed, Starts, PlaceInv, ShellAt, MonitorAt, MonitorAims, Actors
<1>2. \/ run' = [run EXCEPT ![a] = Rest]
      \/ run' = [run EXCEPT ![a].pc = "commit"]
  BY ZenonT(60) DEF Posed, Ends
<1> QED BY ZenonT(60), <1>1, <1>2, Moves DEF PlaceInv, Stage, ShellAims

LEMMA ConfirmMoves ==
    ASSUME PlaceInv, NEW a \in Actors, Confirm(a)
    PROVE  /\ a = "shell" /\ run[a].pc = "queued" /\ run[a].aim = "confirm"
           /\ \/ Moved(a, "idle", "none")
              \/ Moved(a, "commit", run[a].aim)
              \/ /\ mode = "GO2_JOINT_LOCK_WAIT"
                 /\ Moved(a, "pose", run[a].aim)
              \/ /\ mode = "GO2_JOINT_LOCK_WAIT"
                 /\ Moved(a, "finalize", run[a].aim)
<1>1. a = "shell" /\ run[a].pc = "queued" /\ run[a].aim = "confirm"
  BY DEF Confirm, Starts, PlaceInv, ShellAt, MonitorAt, MonitorAims, Actors
<1>2. \/ run' = [run EXCEPT ![a] = Rest]
      \/ run' = [run EXCEPT ![a].pc = "commit"]
      \/ /\ mode = "GO2_JOINT_LOCK_WAIT"
         /\ run' = [run EXCEPT ![a].pc = "pose"]
      \/ /\ mode = "GO2_JOINT_LOCK_WAIT"
         /\ run' = [run EXCEPT ![a].pc = "finalize"]
  BY DEF Confirm, Ends, Advances
<1> QED BY ZenonT(60), <1>1, <1>2, Moves DEF PlaceInv, Stage, ShellAims

LEMMA FinalizedMoves ==
    ASSUME PlaceInv, NEW a \in Actors, Finalized(a)
    PROVE  /\ a = "shell" /\ run[a].pc = "finalize"
           /\ \/ /\ UNCHANGED <<opLock, change>>
                 /\ Moved(a, "idle", "none")
              \/ Moved(a, "commit", run[a].aim)
<1>1. a = "shell" /\ run[a].pc = "finalize"
  BY DEF Finalized, Starts, PlaceInv, ShellAt, MonitorAt, MonitorAims, Actors
<1>2. \/ /\ UNCHANGED <<opLock, change>>
         /\ run' = [run EXCEPT ![a] = Rest]
      \/ run' = [run EXCEPT ![a].pc = "commit"]
  BY DEF Finalized, Ends
<1> QED BY ZenonT(60), <1>1, <1>2, Moves DEF PlaceInv, Stage, ShellAims

LEMMA ClearFaultMoves ==
    ASSUME PlaceInv, NEW a \in Actors, ClearFault(a)
    PROVE  /\ a = "shell" /\ run[a].pc = "queued" /\ run[a].aim = "clear"
           /\ \/ Moved(a, "idle", "none")
              \/ Moved(a, "commit", run[a].aim)
<1>1. a = "shell" /\ run[a].pc = "queued" /\ run[a].aim = "clear"
  BY DEF ClearFault, Starts, PlaceInv, ShellAt, MonitorAt, MonitorAims, Actors
<1>2. \/ run' = [run EXCEPT ![a] = Rest]
      \/ run' = [run EXCEPT ![a].pc = "commit"]
  BY DEF ClearFault, Ends
<1> QED BY ZenonT(60), <1>1, <1>2, Moves DEF PlaceInv, Stage, ShellAims

LEMMA InterruptMoves ==
    ASSUME PlaceInv, NEW a \in Actors, Interrupt(a)
    PROVE  /\ a = "shell" /\ run[a].pc = "queued" /\ run[a].aim = "interrupt"
           /\ \/ Moved(a, "idle", "none")
              \/ Moved(a, "commit", run[a].aim)
<1>1. a = "shell" /\ run[a].pc = "queued" /\ run[a].aim = "interrupt"
  BY DEF Interrupt, Starts, PlaceInv, ShellAt, MonitorAt, MonitorAims, Actors
<1>2. \/ run' = [run EXCEPT ![a] = Rest]
      \/ run' = [run EXCEPT ![a].pc = "commit"]
  BY ZenonT(60) DEF Interrupt, Ends
<1> QED BY ZenonT(60), <1>1, <1>2, Moves DEF PlaceInv, Stage, ShellAims

(* A task that ends is idle.                                               *)
LEMMA Ending ==
    ASSUME PlaceInv, NEW a \in Actors, Ends(a)
    PROVE  Moved(a, "idle", "none")
  BY ZenonT(60), Moves DEF Ends, PlaceInv, Stage, ShellAims

LEMMA ShellMoves ==
    ASSUME PlaceInv
    PROVE  /\ (\E cmd \in DOMAIN Offered : Types(cmd)) =>
                run["shell"].pc = "idle" /\ \E cmd \in ShellAims : Moved("shell", "queued", cmd)
           /\ Declines \/ Abandons =>
                run["shell"].pc = "queued" /\ Moved("shell", "idle", "none")
           /\ CtrlC => run["shell"].pc = "idle" /\ Moved("shell", "queued", "interrupt")
           /\ Close => run["shell"].pc = "idle" /\ Moved("shell", "queued", "close")
           /\ Closes => /\ run["shell"].pc = "dropped"
                        /\ run' \in Runs /\ \A a \in Actors : run'[a] = Rest
<1>0. run \in Runs /\ "shell" \in Actors /\ Rest.pc = "idle" /\ "queued" \in Stage
      /\ {"interrupt", "close"} \subseteq ShellAims /\ DOMAIN Offered \subseteq ShellAims
  BY DEF PlaceInv, Actors, Rest, Stage, ShellAims, Offered
<1>1. ASSUME NEW cmd \in DOMAIN Offered, Types(cmd)
      PROVE  run["shell"].pc = "idle" /\ Moved("shell", "queued", cmd)
  <2>1. run["shell"] = Rest
        /\ run' = [run EXCEPT !["shell"] = [Rest EXCEPT !.aim = cmd, !.pc = "queued"]]
    BY <1>1 DEF Types, AtPrompt
  <2> QED BY <1>0, <2>1, Moves
<1>2. ASSUME Declines \/ Abandons
      PROVE  run["shell"].pc = "queued" /\ Moved("shell", "idle", "none")
  <2>1. run["shell"].pc = "queued" /\ run' = [run EXCEPT !["shell"] = Rest]
    BY <1>2 DEF Declines, Abandons, Ends
  <2> QED BY <1>0, <2>1, Moves
<1>3. ASSUME CtrlC PROVE run["shell"].pc = "idle" /\ Moved("shell", "queued", "interrupt")
  <2>1. run["shell"] = Rest
        /\ run' = [run EXCEPT !["shell"] = [Rest EXCEPT !.aim = "interrupt", !.pc = "queued"]]
    BY <1>3 DEF CtrlC, AtPrompt
  <2> QED BY <1>0, <2>1, Moves
<1>4. ASSUME Close PROVE run["shell"].pc = "idle" /\ Moved("shell", "queued", "close")
  <2>1. run["shell"] = Rest
        /\ run' = [run EXCEPT !["shell"] = [Rest EXCEPT !.aim = "close", !.pc = "queued"]]
    BY <1>4 DEF Close
  <2> QED BY <1>0, <2>1, Moves
<1>5. ASSUME Closes
      PROVE  run["shell"].pc = "dropped" /\ run' \in Runs /\ \A a \in Actors : run'[a] = Rest
  BY <1>5 DEF Closes, Runs, Rest, Stage, ShellAims
<1> QED BY <1>0, <1>1, <1>2, <1>3, <1>4, <1>5

(* What the wait takes for the lock.                                       *)
LockSeen == IF mode = "GO2_GROUND_HANDOVER" THEN fence /\ BehindFence ELSE LockShown

(* The wait advances, in whatever a task has become.                       *)
LEMMA AdvancesMoves ==
    ASSUME NEW a, NEW rest, Advances(a, rest)
    PROVE  \/ run' = [rest EXCEPT ![a].pc = "commit"]
           \/ LockSeen /\ run' = [rest EXCEPT ![a].pc = "pose"]
           \/ run' = [rest EXCEPT ![a] = Rest]
  BY DEF Advances, LockSeen

LEMMA MonitorMoves ==
    ASSUME PlaceInv
    PROVE  /\ MayTick => run["monitor"].pc = "idle" /\ \A a \in Actors : ~Holds(a)
           /\ TickHalts => \/ Moved("monitor", "commit", "tick")
                           \/ ~Pending /\ UNCHANGED own /\ Moved("monitor", "sport", "tick")
                           \/ Moved("monitor", "stopped", "tick")
           /\ TickAdvances => \/ Moved("monitor", "commit", "tick")
                              \/ LockSeen /\ Moved("monitor", "pose", "tick")
                              \/ Moved("monitor", "idle", "none")
           /\ TickCommits => Moved("monitor", "commit", "tick")
           /\ (\E to \in Mode : Raises(to)) => Moved("monitor", "queued", "report")
           /\ Reported => run["monitor"].pc = "commit" /\ Moved("monitor", "idle", "none")
<1> DEFINE M(pc) == [run EXCEPT !["monitor"] = [Rest EXCEPT !.pc = pc, !.aim = "tick"]]
<1>0. run \in Runs /\ "monitor" \in Actors /\ {"tick", "report"} \subseteq MonitorAims
      /\ {"commit", "sport", "stopped", "pose", "idle", "queued"} \subseteq Stage
  BY DEF PlaceInv, Actors, MonitorAims, Stage
<1>1. ASSUME NEW pc \in {"idle", "sport", "commit"}
      PROVE  /\ M(pc) \in Runs /\ M(pc)["monitor"].aim = "tick"
             /\ \A b \in Actors : b # "monitor" => M(pc)[b] = run[b]
  BY <1>0 DEF Runs, Rest
<1>2. \A pc : Ticking(pc) = M(pc)
  BY DEF Ticking
<1> HIDE DEF M
<1>3. MayTick => run["monitor"].pc = "idle" /\ \A a \in Actors : ~Holds(a)
  BY DEF MayTick, Rest
<1>4. ASSUME TickHalts
      PROVE  \/ Moved("monitor", "commit", "tick")
             \/ ~Pending /\ UNCHANGED own /\ Moved("monitor", "sport", "tick")
             \/ Moved("monitor", "stopped", "tick")
  <2>1. \/ run' = Ticking("commit")
        \/ /\ ~Pending /\ UNCHANGED own
           /\ \E ok, was \in BOOLEAN :
              run' = [Ticking("sport") EXCEPT !["monitor"].pc = "sport", !["monitor"].ok = ok,
                                              !["monitor"].was = was]
        \/ \E ok \in BOOLEAN :
              run' = [Ticking("sport") EXCEPT !["monitor"].pc = "stopped", !["monitor"].ok = ok]
    BY <1>4 DEF TickHalts, Halts, Calms, Pending
  <2>2. CASE run' = Ticking("commit")
    BY <1>0, <2>2, Moves DEF Ticking
  <2>3. CASE ~Pending /\ UNCHANGED own /\ \E ok, was \in BOOLEAN :
              run' = [Ticking("sport") EXCEPT !["monitor"].pc = "sport", !["monitor"].ok = ok,
                                              !["monitor"].was = was]
    <3> DEFINE rest == Ticking("sport")
    <3>1. PICK ok \in BOOLEAN, was \in BOOLEAN :
            run' = [rest EXCEPT !["monitor"].pc = "sport", !["monitor"].ok = ok,
                                !["monitor"].was = was]
      BY <2>3
    <3>2. rest \in Runs /\ rest["monitor"].aim = "tick"
          /\ \A b \in Actors : b # "monitor" => rest[b] = run[b]
      BY <1>1, <1>2
    <3> HIDE DEF rest
    <3> QED BY ZenonT(60), <1>0, <2>3, <3>1, <3>2, Moves
  <2>4. CASE \E ok \in BOOLEAN :
              run' = [Ticking("sport") EXCEPT !["monitor"].pc = "stopped", !["monitor"].ok = ok]
    <3> DEFINE rest == Ticking("sport")
    <3>1. PICK ok \in BOOLEAN :
            run' = [rest EXCEPT !["monitor"].pc = "stopped", !["monitor"].ok = ok]
      BY <2>4
    <3>2. rest \in Runs /\ rest["monitor"].aim = "tick"
          /\ \A b \in Actors : b # "monitor" => rest[b] = run[b]
      BY <1>1, <1>2
    <3> HIDE DEF rest
    <3> QED BY <1>0, <3>1, <3>2, Moves
  <2> QED BY <2>1, <2>2, <2>3, <2>4
<1>5. ASSUME TickAdvances
      PROVE  \/ Moved("monitor", "commit", "tick")
             \/ LockSeen /\ Moved("monitor", "pose", "tick")
             \/ Moved("monitor", "idle", "none")
  <2> DEFINE rest == Ticking("idle")
  <2>1. \/ run' = [rest EXCEPT !["monitor"].pc = "commit"]
        \/ LockSeen /\ run' = [rest EXCEPT !["monitor"].pc = "pose"]
        \/ run' = [rest EXCEPT !["monitor"] = Rest]
    BY <1>5, AdvancesMoves DEF TickAdvances
  <2>2. rest \in Runs /\ rest["monitor"].aim = "tick"
        /\ \A b \in Actors : b # "monitor" => rest[b] = run[b]
    BY <1>1, <1>2
  <2> HIDE DEF rest
  <2> QED BY ZenonT(60), <1>0, <2>1, <2>2, Moves
<1>6. TickCommits => Moved("monitor", "commit", "tick")
  BY <1>0, Moves DEF TickCommits, Ticking
<1>7. (\E to \in Mode : Raises(to)) => Moved("monitor", "queued", "report")
  BY <1>0, Moves DEF Raises
<1>8. Reported => run["monitor"].pc = "commit" /\ Moved("monitor", "idle", "none")
  BY <1>0, Moves DEF Reported, Ends
<1> QED BY <1>3, <1>4, <1>5, <1>6, <1>7, <1>8

-----------------------------------------------------------------------------
(* A task that has moved stands where its command may.                     *)
LEMMA MovedStands ==
    ASSUME PlaceInv, NEW a \in Actors, NEW pc, NEW aim, Moved(a, pc, aim),
           a = "shell" => ShellAt(pc, aim), a = "monitor" => MonitorAt(pc, aim)
    PROVE  PlaceInv'
  BY DEF PlaceInv, Moved, Actors

LEMMA PlacesOfTasks ==
    ASSUME PlaceInv, NEW a \in Actors, Proceeds(a)
    PROVE  PlaceInv'
<1> DEFINE At(pc, aim) ==
             (a = "shell" => ShellAt(pc, aim)) /\ (a = "monitor" => MonitorAt(pc, aim))
<1>1. At(run[a].pc, run[a].aim) /\ At("idle", "none")
      /\ run[a].aim \in ShellAims \cup MonitorAims
  BY DEF PlaceInv, ShellAt, MonitorAt, ShellAims, MonitorAims, Actors
<1> USE DEF ShellAt, MonitorAt
<1>2. ASSUME Committed(a) PROVE PlaceInv'
  BY <1>1, <1>2, CommittedMoves, MovedStands DEF ShellAims
<1>3. ASSUME Acquire(a) PROVE PlaceInv'
  BY <1>1, <1>3, AcquireMoves, MovedStands DEF ShellAims
<1>4. ASSUME Taken(a) PROVE PlaceInv'
  BY <1>1, <1>4, TakenMoves, MovedStands DEF ShellAims
<1>5. ASSUME Release(a) PROVE PlaceInv'
  BY <1>1, <1>5, ReleaseMoves, MovedStands DEF ShellAims
<1>6. ASSUME HandsBack(a) PROVE PlaceInv'
  BY <1>1, <1>6, HandsBackMoves, MovedStands DEF ShellAims
<1>7. ASSUME Fence(a) PROVE PlaceInv'
  BY <1>1, <1>7, FenceMoves, MovedStands DEF ShellAims
<1>8. ASSUME Released(a) PROVE PlaceInv'
  BY <1>1, <1>8, ReleasedMoves, MovedStands DEF ShellAims
<1>9. ASSUME Authorize(a) PROVE PlaceInv'
  BY <1>1, <1>9, AuthorizeMoves, MovedStands DEF ShellAims
<1>10. ASSUME Stop(a) PROVE PlaceInv'
  BY <1>1, <1>10, StopMoves, MovedStands DEF ShellAims
<1>11. ASSUME StopMoved(a) PROVE PlaceInv'
  BY <1>1, <1>11, StopMovedMoves, MovedStands DEF ShellAims
<1>12. ASSUME StopReturns(a) PROVE PlaceInv'
  BY <1>1, <1>12, StopReturnsMoves, MovedStands DEF ShellAims
<1>13. ASSUME Prepare(a) PROVE PlaceInv'
  BY <1>1, <1>13, PrepareMoves, MovedStands DEF ShellAims
<1>14. ASSUME Prepared(a) PROVE PlaceInv'
  BY <1>1, <1>14, PreparedMoves, MovedStands DEF ShellAims
<1>15. ASSUME Drop(a) PROVE PlaceInv'
  BY <1>1, <1>15, DropMoves, MovedStands DEF ShellAims
<1>16. ASSUME Connect(a) PROVE PlaceInv'
  BY <1>1, <1>16, ConnectMoves, MovedStands DEF ShellAims
<1>17. ASSUME BootStopped(a) PROVE PlaceInv'
  BY <1>1, <1>17, BootStoppedMoves, MovedStands DEF ShellAims
<1>18. ASSUME Posed(a) PROVE PlaceInv'
  BY <1>1, <1>18, PosedMoves, MovedStands DEF ShellAims
<1>19. ASSUME Confirm(a) PROVE PlaceInv'
  BY <1>1, <1>19, ConfirmMoves, MovedStands DEF ShellAims
<1>20. ASSUME Finalized(a) PROVE PlaceInv'
  BY <1>1, <1>20, FinalizedMoves, MovedStands DEF ShellAims
<1>21. ASSUME ClearFault(a) PROVE PlaceInv'
  BY <1>1, <1>21, ClearFaultMoves, MovedStands DEF ShellAims
<1>22. ASSUME Interrupt(a) PROVE PlaceInv'
  BY <1>1, <1>22, InterruptMoves, MovedStands DEF ShellAims
<1> QED BY <1>2, <1>3, <1>4, <1>5, <1>6, <1>7, <1>8, <1>9, <1>10, <1>11,
       <1>12, <1>13, <1>14, <1>15, <1>16, <1>17, <1>18, <1>19, <1>20, <1>21,
       <1>22 DEF Proceeds

LEMMA PlacesOfShell ==
    ASSUME PlaceInv, Shell \/ Closing
    PROVE  PlaceInv'
<1> USE DEF ShellAt, MonitorAt
<1>1. ASSUME \E cmd \in DOMAIN Offered : Types(cmd) PROVE PlaceInv'
  BY <1>1, ShellMoves, MovedStands DEF Actors
<1>2. ASSUME Declines \/ Abandons PROVE PlaceInv'
  BY <1>2, ShellMoves, MovedStands DEF Actors, ShellAims
<1>3. ASSUME CtrlC PROVE PlaceInv'
  BY <1>3, ShellMoves, MovedStands DEF Actors, ShellAims
<1>4. ASSUME Close PROVE PlaceInv'
  BY <1>4, ShellMoves, MovedStands DEF Actors, ShellAims
<1>5. ASSUME Closes PROVE PlaceInv'
  BY <1>5, ShellMoves DEF PlaceInv, Actors, Rest, ShellAims, MonitorAims
<1>6. ASSUME Signal \/ PromptFails \/ Resumes PROVE PlaceInv'
  BY <1>6 DEF Signal, PromptFails, Resumes, handoverVars, PlaceInv
<1> QED BY <1>1, <1>2, <1>3, <1>4, <1>5, <1>6 DEF Shell, Closing

LEMMA PlacesOfMonitor ==
    ASSUME PlaceInv, Ticks \/ (\E to \in Mode : Raises(to)) \/ Reported
    PROVE  PlaceInv'
<1> USE DEF ShellAt, MonitorAt
<1>1. ASSUME TickHalts PROVE PlaceInv'
  BY <1>1, MonitorMoves, MovedStands DEF Actors, MonitorAims
<1>2. ASSUME TickAdvances PROVE PlaceInv'
  BY <1>2, MonitorMoves, MovedStands DEF Actors, MonitorAims
<1>3. ASSUME TickCommits PROVE PlaceInv'
  BY <1>3, MonitorMoves, MovedStands DEF Actors, MonitorAims
<1>4. ASSUME \E to \in Mode : Raises(to) PROVE PlaceInv'
  BY <1>4, MonitorMoves, MovedStands DEF Actors, MonitorAims
<1>5. ASSUME Reported PROVE PlaceInv'
  BY <1>5, MonitorMoves, MovedStands DEF Actors, MonitorAims
<1>6. ASSUME TickIdles PROVE PlaceInv'
  BY <1>6 DEF TickIdles, PlaceInv
<1> QED BY <1>1, <1>2, <1>3, <1>4, <1>5, <1>6 DEF Ticks

LEMMA PlacesHold == PlaceInv /\ [ConsoleNext]_allVars => PlaceInv'
<1> SUFFICES ASSUME PlaceInv, [ConsoleNext]_allVars PROVE PlaceInv'
  OBVIOUS
<1>1. ASSUME Settles PROVE PlaceInv'
  BY <1>1 DEF Settles, WriteState, EntryEnds, PlaceInv
<1>2. ASSUME Environment PROVE PlaceInv'
  BY <1>2 DEF Environment, Phone, Sample, OwnerFails, Flies, WaitElapses, BackElapses,
     world, PlaceInv
<1>3. ASSUME UNCHANGED allVars PROVE PlaceInv'
  BY <1>3 DEF allVars, handoverVars, PlaceInv
<1> QED BY <1>1, <1>2, <1>3, PlacesOfTasks, PlacesOfShell, PlacesOfMonitor DEF ConsoleNext

(* Every transition that is begun, entered or left is of its kind.          *)
LEMMA Changing ==
    ASSUME Kinds
    PROVE  /\ \A to \in Mode : Begins(to) => ChangeOK'
           /\ \A muted \in BOOLEAN : Faults(muted) => ChangeOK'
           /\ \A to : Refused(to) => ChangeOK'
           /\ change' = Idle \/ UNCHANGED change => ChangeOK'
           /\ change' = [change EXCEPT !.pc = "entry"] => ChangeOK'
           /\ Entered \/ EntryFails => ChangeOK'
<1> USE DEF Kinds, ChangeOK, Mode
<1>1. \A to \in Mode : Begins(to) => ChangeOK'
  BY DEF Begins
<1>2. \A muted \in BOOLEAN : Faults(muted) => ChangeOK'
  BY DEF Faults
<1>3. \A to \in Mode, pc \in {"none", "accepted"}, muted \in BOOLEAN :
        change' = [to |-> to, pc |-> pc, muted |-> muted] => ChangeOK'
  OBVIOUS
<1>4. change' = [change EXCEPT !.pc = "entry"] \/ UNCHANGED change => ChangeOK'
  OBVIOUS
<1>5. change' = Idle \/ EntryFails => ChangeOK'
  <2> HIDE DEF ChangeOK
  <2> QED BY <1>3 DEF EntryFails, Idle
<1> QED BY <1>1, <1>2, <1>4, <1>5 DEF Refused, Entered

LEMMA Refreshing ==
    ASSUME Kinds, Refresh
    PROVE  back' \in {"off", "on", "over"}
  BY DEF Kinds, Refresh

(* Kinds: the steps of transitions.                                        *)
LEMMA KindsCommits ==
    ASSUME PlaceInv, Kinds
    PROVE  WriteState \/ EntryEnds
           => Kinds'
<1> USE DEF Kinds, Mode, still, legVars, sampleVars, seenVars, flightVars,
        consoleVars, world
<1>1. ASSUME WriteState PROVE Kinds'
  <2>1. \/ change' = Idle
        \/ change' = [change EXCEPT !.pc = "entry"]
        \/ EntryFails
    BY <1>1 DEF WriteState, EntryFails
  <2> QED BY <1>1, <2>1, Changing DEF WriteState
<1>2. ASSUME EntryEnds PROVE Kinds'
  BY <1>2, Changing DEF EntryEnds, EnterBootSafe, EnterWait, EnterReady,
       EnterCompliant, EnterFault
<1> QED BY <1>1, <1>2

(* Kinds: the steps of taking the legs and giving them back.               *)
LEMMA KindsLegs ==
    ASSUME PlaceInv, Kinds, NEW a \in Actors
    PROVE  Committed(a) \/ Acquire(a) \/ Taken(a) \/ Release(a) \/
           HandsBack(a) \/ Fence(a) \/ Released(a) \/ Authorize(a)
           => Kinds'
<1> USE DEF Kinds, Mode, still, legVars, sampleVars, seenVars, flightVars,
        consoleVars, world
<1>1. ASSUME Committed(a) PROVE Kinds'
  BY <1>1, Changing DEF Committed
<1>2. ASSUME Acquire(a) PROVE Kinds'
  BY <1>2, Changing, Refreshing DEF Acquire
<1>3. ASSUME Taken(a) PROVE Kinds'
  BY <1>3, Changing DEF Taken
<1>4. ASSUME Release(a) PROVE Kinds'
  BY <1>4, Changing, Refreshing DEF Release
<1>5. ASSUME HandsBack(a) PROVE Kinds'
  BY <1>5, Changing DEF HandsBack
<1>6. ASSUME Fence(a) PROVE Kinds'
  BY <1>6, Changing DEF Fence, Aged, Goes
<1>7. ASSUME Released(a) PROVE Kinds'
  BY <1>7, Changing, Refreshing DEF Released
<1>8. ASSUME Authorize(a) PROVE Kinds'
  BY <1>8, Changing, Refreshing DEF Authorize
<1> QED BY <1>1, <1>2, <1>3, <1>4, <1>5, <1>6, <1>7, <1>8

(* Kinds: the steps of stopping and leaving.                               *)
LEMMA KindsStops ==
    ASSUME PlaceInv, Kinds, NEW a \in Actors
    PROVE  Stop(a) \/ StopMoved(a) \/ StopReturns(a) \/ Prepare(a) \/
           Prepared(a) \/ Drop(a)
           => Kinds'
<1> USE DEF Kinds, Mode, still, legVars, sampleVars, seenVars, flightVars,
        consoleVars, world
<1>1. ASSUME Stop(a) PROVE Kinds'
  BY ZenonT(60), <1>1, Changing, Refreshing DEF Stop, Halts, Calms
<1>2. ASSUME StopMoved(a) PROVE Kinds'
  BY <1>2, Changing, Refreshing DEF StopMoved
<1>3. ASSUME StopReturns(a) PROVE Kinds'
  BY <1>3, Changing DEF StopReturns, Goes
<1>4. ASSUME Prepare(a) PROVE Kinds'
  BY <1>4, Changing, Refreshing DEF Prepare
<1>5. ASSUME Prepared(a) PROVE Kinds'
  BY <1>5, Changing DEF Prepared
<1>6. ASSUME Drop(a) PROVE Kinds'
  BY <1>6, Changing DEF Drop
<1> QED BY <1>1, <1>2, <1>3, <1>4, <1>5, <1>6

(* Kinds: the steps of connecting, the wait and the fault.                 *)
LEMMA KindsLock ==
    ASSUME PlaceInv, Kinds, NEW a \in Actors
    PROVE  Connect(a) \/ BootStopped(a) \/ Posed(a) \/ Confirm(a) \/
           Finalized(a) \/ ClearFault(a) \/ Interrupt(a)
           => Kinds'
<1> USE DEF Kinds, Mode, still, legVars, sampleVars, seenVars, flightVars,
        consoleVars, world
<1>1. ASSUME Connect(a) PROVE Kinds'
  BY <1>1, Changing, Refreshing DEF Connect, Goes
<1>2. ASSUME BootStopped(a) PROVE Kinds'
  BY <1>2, Changing, Refreshing DEF BootStopped, Concludes
<1>3. ASSUME Posed(a) PROVE Kinds'
  BY <1>3, Changing, Refreshing DEF Posed
<1>4. ASSUME Confirm(a) PROVE Kinds'
  BY <1>4, Changing, Refreshing DEF Confirm, Advances
<1>5. ASSUME Finalized(a) PROVE Kinds'
  <2>1. \/ UNCHANGED change
        \/ change' = [Idle EXCEPT !.to = "FLIGHT_READY", !.pc = "accepted"]
        \/ Faults(FALSE)
    BY <1>5 DEF Finalized
  <2>2. change' = [Idle EXCEPT !.to = "FLIGHT_READY", !.pc = "accepted"] => ChangeOK'
    BY DEF Idle, ChangeOK
  <2> QED BY <1>5, <2>1, <2>2, Changing, Refreshing DEF Finalized
<1>6. ASSUME ClearFault(a) PROVE Kinds'
  BY <1>6, Changing, Refreshing DEF ClearFault
<1>7. ASSUME Interrupt(a) PROVE Kinds'
  BY <1>7, Changing, Refreshing DEF Interrupt
<1> QED BY <1>1, <1>2, <1>3, <1>4, <1>5, <1>6, <1>7

(* Kinds: the steps of the shell.                                          *)
LEMMA KindsShell ==
    ASSUME PlaceInv, Kinds
    PROVE  (\E cmd \in DOMAIN Offered : Types(cmd)) \/ Declines \/ CtrlC \/
           Signal \/ PromptFails \/ Abandons \/ Close \/ Resumes \/ Closes
           => Kinds'
<1> USE DEF Kinds, Mode, still, legVars, sampleVars, seenVars, flightVars,
        consoleVars, world
<1>1. ASSUME \E cmd \in DOMAIN Offered : Types(cmd) PROVE Kinds'
  BY <1>1, Changing DEF Types
<1>2. ASSUME Declines PROVE Kinds'
  BY <1>2, Changing DEF Declines
<1>3. ASSUME CtrlC PROVE Kinds'
  BY <1>3, Changing DEF CtrlC
<1>4. ASSUME Signal PROVE Kinds'
  BY <1>4, Changing DEF Signal
<1>5. ASSUME PromptFails PROVE Kinds'
  BY <1>5, Changing DEF PromptFails, handoverVars
<1>6. ASSUME Abandons PROVE Kinds'
  BY <1>6, Changing DEF Abandons
<1>7. ASSUME Close PROVE Kinds'
  BY <1>7, Changing DEF Close
<1>8. ASSUME Resumes PROVE Kinds'
  BY <1>8, Changing DEF Resumes, handoverVars
<1>9. ASSUME Closes PROVE Kinds'
  BY <1>9, Changing DEF Closes
<1> QED BY <1>1, <1>2, <1>3, <1>4, <1>5, <1>6, <1>7, <1>8, <1>9

(* Kinds: the steps of the monitor.                                        *)
LEMMA KindsMonitor ==
    ASSUME PlaceInv, Kinds
    PROVE  (MayTick /\ TickHalts) \/ (MayTick /\ TickAdvances) \/ (MayTick /\
           TickCommits) \/ (MayTick /\ TickIdles) \/ (\E to \in Mode :
           Raises(to)) \/ Reported
           => Kinds'
<1> USE DEF Kinds, Mode, still, legVars, sampleVars, seenVars, flightVars,
        consoleVars, world
<1>1. ASSUME MayTick /\ TickHalts PROVE Kinds'
  BY <1>1, Changing, Refreshing DEF TickHalts, Halts, Calms
<1>2. ASSUME MayTick /\ TickAdvances PROVE Kinds'
  BY <1>2, Changing, Refreshing DEF TickAdvances, Advances
<1>3. ASSUME MayTick /\ TickCommits PROVE Kinds'
  <2>1. Wanted \in Mode
    BY <1>3, Wanting DEF TickCommits, Mode
  <2> QED BY <1>3, <2>1, Changing, Refreshing DEF TickCommits, Follow
<1>4. ASSUME MayTick /\ TickIdles PROVE Kinds'
  BY <1>4, Changing, Refreshing DEF TickIdles, Consumed, Follow
<1>5. ASSUME \E to \in Mode : Raises(to) PROVE Kinds'
  BY <1>5, Changing, Refreshing DEF Raises, Consumed, Follow
<1>6. ASSUME Reported PROVE Kinds'
  BY <1>6, Changing DEF Reported
<1> QED BY <1>1, <1>2, <1>3, <1>4, <1>5, <1>6

(* Kinds: the steps of the world.                                          *)
LEMMA KindsWorld ==
    ASSUME PlaceInv, Kinds
    PROVE  Phone \/ Sample \/ OwnerFails \/ Flies \/ WaitElapses \/
           BackElapses
           => Kinds'
<1> USE DEF Kinds, Mode, still, legVars, sampleVars, seenVars, flightVars,
        consoleVars, world
<1>1. ASSUME Phone PROVE Kinds'
  BY <1>1, Changing DEF Phone
<1>2. ASSUME Sample PROVE Kinds'
  BY <1>2, Changing DEF Sample
<1>3. ASSUME OwnerFails PROVE Kinds'
  BY <1>3, Changing DEF OwnerFails
<1>4. ASSUME Flies PROVE Kinds'
  BY <1>4, Changing DEF Flies
<1>5. ASSUME WaitElapses PROVE Kinds'
  BY <1>5, Changing DEF WaitElapses, Stale
<1>6. ASSUME BackElapses PROVE Kinds'
  BY <1>6, Changing DEF BackElapses, Stale
<1> QED BY <1>1, <1>2, <1>3, <1>4, <1>5, <1>6

(* Kinds is kept by every step.                                            *)
LEMMA KindsHold == ConsoleInv /\ [ConsoleNext]_allVars => Kinds'
<1> SUFFICES ASSUME ConsoleInv, [ConsoleNext]_allVars PROVE Kinds'
  OBVIOUS
<1> USE DEF ConsoleInv
<1>1. ASSUME Settles PROVE Kinds'
  BY <1>1, KindsCommits DEF Settles
<1>2. ASSUME NEW a \in Actors, Proceeds(a) PROVE Kinds'
  BY <1>2, KindsLegs, KindsStops, KindsLock DEF Proceeds
<1>3. ASSUME Shell \/ Closing PROVE Kinds'
  BY <1>3, KindsShell DEF Shell, Closing
<1>4. ASSUME Ticks \/ (\E to \in Mode : Raises(to)) \/ Reported PROVE Kinds'
  BY <1>4, KindsMonitor DEF Ticks
<1>5. ASSUME Environment PROVE Kinds'
  BY <1>5, KindsWorld DEF Environment
<1>6. ASSUME UNCHANGED allVars PROVE Kinds'
  BY <1>6, Stuttering DEF Kinds, ChangeOK
<1> QED BY <1>1, <1>2, <1>3, <1>4, <1>5, <1>6 DEF ConsoleNext

(* An owner comes and goes with its command: the steps of transitions.     *)
LEMMA OwningCommits ==
    ASSUME PlaceInv, Owning
    PROVE  WriteState \/ EntryEnds
           => Owning'
<1> USE DEF Owning, Pending, Moved, Actors, still, legVars, sampleVars,
        seenVars, flightVars, consoleVars, world
<1>1. ASSUME WriteState PROVE Owning'
  BY <1>1 DEF WriteState, Idle
<1>2. ASSUME EntryEnds PROVE Owning'
  BY <1>2 DEF EntryEnds, EnterBootSafe, EnterWait, EnterReady, EnterCompliant,
       EnterFault, Entered, EntryFails, Idle
<1> QED BY <1>1, <1>2

(* An owner comes and goes with its command: the steps of taking the legs  *)
(* and giving them back.                                                   *)
LEMMA OwningLegs ==
    ASSUME PlaceInv, Owning, NEW a \in Actors
    PROVE  Committed(a) \/ Acquire(a) \/ Taken(a) \/ Release(a) \/
           HandsBack(a) \/ Fence(a) \/ Released(a) \/ Authorize(a)
           => Owning'
<1> USE DEF Owning, Pending, Moved, Actors, still, legVars, sampleVars,
        seenVars, flightVars, consoleVars, world
<1>1. ASSUME Committed(a) PROVE Owning'
  BY <1>1, CommittedMoves DEF Committed
<1>2. ASSUME Acquire(a) PROVE Owning'
  BY <1>2, AcquireMoves DEF Acquire
<1>3. ASSUME Taken(a) PROVE Owning'
  BY <1>3, TakenMoves DEF Taken
<1>4. ASSUME Release(a) PROVE Owning'
  BY <1>4, ReleaseMoves DEF Release
<1>5. ASSUME HandsBack(a) PROVE Owning'
  BY <1>5, HandsBackMoves DEF HandsBack
<1>6. ASSUME Fence(a) PROVE Owning'
  BY <1>6, FenceMoves DEF Fence
<1>7. ASSUME Released(a) PROVE Owning'
  BY <1>7, ReleasedMoves DEF Released
<1>8. ASSUME Authorize(a) PROVE Owning'
  BY <1>8, AuthorizeMoves DEF Authorize
<1> QED BY <1>1, <1>2, <1>3, <1>4, <1>5, <1>6, <1>7, <1>8

(* An owner comes and goes with its command: the steps of stopping and     *)
(* leaving.                                                                *)
LEMMA OwningStops ==
    ASSUME PlaceInv, Owning, NEW a \in Actors
    PROVE  Stop(a) \/ StopMoved(a) \/ StopReturns(a) \/ Prepare(a) \/
           Prepared(a) \/ Drop(a)
           => Owning'
<1> USE DEF Owning, Pending, Moved, Actors, still, legVars, sampleVars,
        seenVars, flightVars, consoleVars, world
<1>1. ASSUME Stop(a) PROVE Owning'
  BY <1>1, StopMoves DEF Stop, Halts, Calms
<1>2. ASSUME StopMoved(a) PROVE Owning'
  BY <1>2, StopMovedMoves DEF StopMoved
<1>3. ASSUME StopReturns(a) PROVE Owning'
  BY <1>3, StopReturnsMoves DEF StopReturns
<1>4. ASSUME Prepare(a) PROVE Owning'
  BY <1>4, PrepareMoves DEF Prepare
<1>5. ASSUME Prepared(a) PROVE Owning'
  BY <1>5, PreparedMoves DEF Prepared
<1>6. ASSUME Drop(a) PROVE Owning'
  BY <1>6, DropMoves DEF Drop
<1> QED BY <1>1, <1>2, <1>3, <1>4, <1>5, <1>6

(* An owner comes and goes with its command: the steps of connecting, the  *)
(* wait and the fault.                                                     *)
LEMMA OwningLock ==
    ASSUME PlaceInv, Owning, NEW a \in Actors
    PROVE  Connect(a) \/ BootStopped(a) \/ Posed(a) \/ Confirm(a) \/
           Finalized(a) \/ ClearFault(a) \/ Interrupt(a)
           => Owning'
<1> USE DEF Owning, Pending, Moved, Actors, still, legVars, sampleVars,
        seenVars, flightVars, consoleVars, world
<1>1. ASSUME Connect(a) PROVE Owning'
  BY <1>1, ConnectMoves DEF Connect
<1>2. ASSUME BootStopped(a) PROVE Owning'
  BY <1>2, BootStoppedMoves DEF BootStopped, Concludes
<1>3. ASSUME Posed(a) PROVE Owning'
  BY <1>3, PosedMoves DEF Posed
<1>4. ASSUME Confirm(a) PROVE Owning'
  BY <1>4, ConfirmMoves DEF Confirm, Advances
<1>5. ASSUME Finalized(a) PROVE Owning'
  BY <1>5, FinalizedMoves DEF Finalized, Idle
<1>6. ASSUME ClearFault(a) PROVE Owning'
  BY <1>6, ClearFaultMoves DEF ClearFault
<1>7. ASSUME Interrupt(a) PROVE Owning'
  BY <1>7, InterruptMoves DEF Interrupt
<1> QED BY <1>1, <1>2, <1>3, <1>4, <1>5, <1>6, <1>7

(* An owner comes and goes with its command: the steps of the shell.       *)
LEMMA OwningShell ==
    ASSUME PlaceInv, Owning
    PROVE  (\E cmd \in DOMAIN Offered : Types(cmd)) \/ Declines \/ CtrlC \/
           Signal \/ PromptFails \/ Abandons \/ Close \/ Resumes \/ Closes
           => Owning'
<1> USE DEF Owning, Pending, Moved, Actors, still, legVars, sampleVars,
        seenVars, flightVars, consoleVars, world
<1>1. ASSUME \E cmd \in DOMAIN Offered : Types(cmd) PROVE Owning'
  <2>1. UNCHANGED <<own, enabled, relocked>>
    BY <1>1 DEF Types
  <2> QED BY <1>1, <2>1, ShellMoves
<1>2. ASSUME Declines PROVE Owning'
  BY <1>2, ShellMoves DEF Declines
<1>3. ASSUME CtrlC PROVE Owning'
  BY <1>3, ShellMoves DEF CtrlC
<1>4. ASSUME Signal PROVE Owning'
  BY <1>4 DEF Signal
<1>5. ASSUME PromptFails PROVE Owning'
  BY <1>5 DEF PromptFails, handoverVars
<1>6. ASSUME Abandons PROVE Owning'
  BY <1>6, ShellMoves DEF Abandons
<1>7. ASSUME Close PROVE Owning'
  BY <1>7, ShellMoves DEF Close
<1>8. ASSUME Resumes PROVE Owning'
  BY <1>8 DEF Resumes, handoverVars
<1>9. ASSUME Closes PROVE Owning'
  BY <1>9, ShellMoves DEF Closes, Rest
<1> QED BY <1>1, <1>2, <1>3, <1>4, <1>5, <1>6, <1>7, <1>8, <1>9

(* An owner comes and goes with its command: the steps of the monitor.     *)
LEMMA OwningMonitor ==
    ASSUME PlaceInv, Owning
    PROVE  (MayTick /\ TickHalts) \/ (MayTick /\ TickAdvances) \/ (MayTick /\
           TickCommits) \/ (MayTick /\ TickIdles) \/ (\E to \in Mode :
           Raises(to)) \/ Reported
           => Owning'
<1> USE DEF Owning, Pending, Moved, Actors, still, legVars, sampleVars,
        seenVars, flightVars, consoleVars, world
<1>1. ASSUME MayTick /\ TickHalts PROVE Owning'
  BY <1>1, MonitorMoves DEF TickHalts, Halts, Calms
<1>2. ASSUME MayTick /\ TickAdvances PROVE Owning'
  BY <1>2, MonitorMoves DEF TickAdvances, Advances
<1>3. ASSUME MayTick /\ TickCommits PROVE Owning'
  BY <1>3, MonitorMoves DEF TickCommits, Follow, Consumed
<1>4. ASSUME MayTick /\ TickIdles PROVE Owning'
  BY <1>4, MonitorMoves DEF TickIdles, Follow, Consumed
<1>5. ASSUME \E to \in Mode : Raises(to) PROVE Owning'
  BY <1>5, MonitorMoves DEF Raises, Follow, Refused, Consumed
<1>6. ASSUME Reported PROVE Owning'
  BY <1>6, MonitorMoves DEF Reported
<1> QED BY <1>1, <1>2, <1>3, <1>4, <1>5, <1>6

(* An owner comes and goes with its command: the steps of the world.       *)
LEMMA OwningWorld ==
    ASSUME PlaceInv, Owning
    PROVE  Phone \/ Sample \/ OwnerFails \/ Flies \/ WaitElapses \/
           BackElapses
           => Owning'
<1> USE DEF Owning, Pending, Moved, Actors, still, legVars, sampleVars,
        seenVars, flightVars, consoleVars, world
<1>1. ASSUME Phone PROVE Owning'
  BY <1>1 DEF Phone
<1>2. ASSUME Sample PROVE Owning'
  BY <1>2 DEF Sample
<1>3. ASSUME OwnerFails PROVE Owning'
  BY <1>3 DEF OwnerFails
<1>4. ASSUME Flies PROVE Owning'
  BY <1>4 DEF Flies
<1>5. ASSUME WaitElapses PROVE Owning'
  BY <1>5 DEF WaitElapses, Stale
<1>6. ASSUME BackElapses PROVE Owning'
  BY <1>6 DEF BackElapses, Stale
<1> QED BY <1>1, <1>2, <1>3, <1>4, <1>5, <1>6

(* Owning is kept by every step.                                           *)
LEMMA OwningHolds == ConsoleInv /\ [ConsoleNext]_allVars => Owning'
<1> SUFFICES ASSUME ConsoleInv, [ConsoleNext]_allVars PROVE Owning'
  OBVIOUS
<1> USE DEF ConsoleInv
<1>1. ASSUME Settles PROVE Owning'
  BY <1>1, OwningCommits DEF Settles
<1>2. ASSUME NEW a \in Actors, Proceeds(a) PROVE Owning'
  BY <1>2, OwningLegs, OwningStops, OwningLock DEF Proceeds
<1>3. ASSUME Shell \/ Closing PROVE Owning'
  BY <1>3, OwningShell DEF Shell, Closing
<1>4. ASSUME Ticks \/ (\E to \in Mode : Raises(to)) \/ Reported PROVE Owning'
  BY <1>4, OwningMonitor DEF Ticks
<1>5. ASSUME Environment PROVE Owning'
  BY <1>5, OwningWorld DEF Environment
<1>6. ASSUME UNCHANGED allVars PROVE Owning'
  BY <1>6, Stuttering DEF Owning, Pending
<1> QED BY <1>1, <1>2, <1>3, <1>4, <1>5, <1>6 DEF ConsoleNext

(* The legs stay held: the steps of transitions.                           *)
LEMMA HeldCommits ==
    ASSUME PlaceInv, Owning, LegsStayHeld
    PROVE  WriteState \/ EntryEnds
           => LegsStayHeld'
<1> USE DEF Owning, LegsStayHeld, Armed, Grounded, Pending, Moved, Actors,
        still, legVars, sampleVars, seenVars, flightVars, consoleVars, world
<1>1. ASSUME WriteState PROVE LegsStayHeld'
  BY <1>1 DEF WriteState, Idle
<1>2. ASSUME EntryEnds PROVE LegsStayHeld'
  BY <1>2 DEF EntryEnds, EnterBootSafe, EnterWait, EnterReady, EnterCompliant,
       EnterFault, Entered, EntryFails, Idle
<1> QED BY <1>1, <1>2

(* The legs stay held: the steps of taking the legs and giving them back.  *)
LEMMA HeldLegs ==
    ASSUME PlaceInv, Owning, LegsStayHeld, NEW a \in Actors
    PROVE  Committed(a) \/ Acquire(a) \/ Taken(a) \/ Release(a) \/
           HandsBack(a) \/ Fence(a) \/ Released(a) \/ Authorize(a)
           => LegsStayHeld'
<1> USE DEF Owning, LegsStayHeld, Armed, Grounded, Pending, Moved, Actors,
        still, legVars, sampleVars, seenVars, flightVars, consoleVars, world
<1>1. ASSUME Committed(a) PROVE LegsStayHeld'
  BY <1>1, CommittedMoves DEF Committed
<1>2. ASSUME Acquire(a) PROVE LegsStayHeld'
  BY <1>2, AcquireMoves DEF Acquire
<1>3. ASSUME Taken(a) PROVE LegsStayHeld'
  BY <1>3, TakenMoves DEF Taken
<1>4. ASSUME Release(a) PROVE LegsStayHeld'
  BY <1>4, ReleaseMoves DEF Release
<1>5. ASSUME HandsBack(a) PROVE LegsStayHeld'
  BY <1>5, HandsBackMoves DEF HandsBack
<1>6. ASSUME Fence(a) PROVE LegsStayHeld'
  BY <1>6, FenceMoves DEF Fence
<1>7. ASSUME Released(a) PROVE LegsStayHeld'
  BY <1>7, ReleasedMoves DEF Released
<1>8. ASSUME Authorize(a) PROVE LegsStayHeld'
  BY <1>8, AuthorizeMoves DEF Authorize
<1> QED BY <1>1, <1>2, <1>3, <1>4, <1>5, <1>6, <1>7, <1>8

(* The legs stay held: the steps of stopping and leaving.                  *)
LEMMA HeldStops ==
    ASSUME PlaceInv, Owning, LegsStayHeld, NEW a \in Actors
    PROVE  Stop(a) \/ StopMoved(a) \/ StopReturns(a) \/ Prepare(a) \/
           Prepared(a) \/ Drop(a)
           => LegsStayHeld'
<1> USE DEF Owning, LegsStayHeld, Armed, Grounded, Pending, Moved, Actors,
        still, legVars, sampleVars, seenVars, flightVars, consoleVars, world
<1>1. ASSUME Stop(a) PROVE LegsStayHeld'
  BY <1>1, StopMoves DEF Stop, Halts, Calms
<1>2. ASSUME StopMoved(a) PROVE LegsStayHeld'
  BY <1>2, StopMovedMoves DEF StopMoved
<1>3. ASSUME StopReturns(a) PROVE LegsStayHeld'
  BY <1>3, StopReturnsMoves DEF StopReturns
<1>4. ASSUME Prepare(a) PROVE LegsStayHeld'
  BY <1>4, PrepareMoves DEF Prepare
<1>5. ASSUME Prepared(a) PROVE LegsStayHeld'
  BY <1>5, PreparedMoves DEF Prepared
<1>6. ASSUME Drop(a) PROVE LegsStayHeld'
  BY <1>6, DropMoves DEF Drop
<1> QED BY <1>1, <1>2, <1>3, <1>4, <1>5, <1>6

(* The legs stay held: the steps of connecting, the wait and the fault.    *)
LEMMA HeldLock ==
    ASSUME PlaceInv, Owning, LegsStayHeld, NEW a \in Actors
    PROVE  Connect(a) \/ BootStopped(a) \/ Posed(a) \/ Confirm(a) \/
           Finalized(a) \/ ClearFault(a) \/ Interrupt(a)
           => LegsStayHeld'
<1> USE DEF Owning, LegsStayHeld, Armed, Grounded, Pending, Moved, Actors,
        still, legVars, sampleVars, seenVars, flightVars, consoleVars, world
<1>1. ASSUME Connect(a) PROVE LegsStayHeld'
  BY <1>1, ConnectMoves DEF Connect
<1>2. ASSUME BootStopped(a) PROVE LegsStayHeld'
  BY <1>2, BootStoppedMoves DEF BootStopped, Concludes
<1>3. ASSUME Posed(a) PROVE LegsStayHeld'
  BY <1>3, PosedMoves DEF Posed
<1>4. ASSUME Confirm(a) PROVE LegsStayHeld'
  BY <1>4, ConfirmMoves DEF Confirm, Advances
<1>5. ASSUME Finalized(a) PROVE LegsStayHeld'
  BY <1>5, FinalizedMoves DEF Finalized, Idle
<1>6. ASSUME ClearFault(a) PROVE LegsStayHeld'
  BY <1>6, ClearFaultMoves DEF ClearFault
<1>7. ASSUME Interrupt(a) PROVE LegsStayHeld'
  BY <1>7, InterruptMoves DEF Interrupt
<1> QED BY <1>1, <1>2, <1>3, <1>4, <1>5, <1>6, <1>7

(* The legs stay held: the steps of the shell.                             *)
LEMMA HeldShell ==
    ASSUME PlaceInv, Owning, LegsStayHeld
    PROVE  (\E cmd \in DOMAIN Offered : Types(cmd)) \/ Declines \/ CtrlC \/
           Signal \/ PromptFails \/ Abandons \/ Close \/ Resumes \/ Closes
           => LegsStayHeld'
<1> USE DEF Owning, LegsStayHeld, Armed, Grounded, Pending, Moved, Actors,
        still, legVars, sampleVars, seenVars, flightVars, consoleVars, world
<1>1. ASSUME \E cmd \in DOMAIN Offered : Types(cmd) PROVE LegsStayHeld'
  <2>1. UNCHANGED <<own, enabled, gate, flight>>
    BY <1>1 DEF Types
  <2> QED BY <1>1, <2>1, ShellMoves
<1>2. ASSUME Declines PROVE LegsStayHeld'
  BY <1>2, ShellMoves DEF Declines
<1>3. ASSUME CtrlC PROVE LegsStayHeld'
  BY <1>3, ShellMoves DEF CtrlC
<1>4. ASSUME Signal PROVE LegsStayHeld'
  BY <1>4 DEF Signal
<1>5. ASSUME PromptFails PROVE LegsStayHeld'
  BY <1>5 DEF PromptFails, handoverVars
<1>6. ASSUME Abandons PROVE LegsStayHeld'
  BY <1>6, ShellMoves DEF Abandons
<1>7. ASSUME Close PROVE LegsStayHeld'
  BY <1>7, ShellMoves DEF Close
<1>8. ASSUME Resumes PROVE LegsStayHeld'
  BY <1>8 DEF Resumes, handoverVars
<1>9. ASSUME Closes PROVE LegsStayHeld'
  <2>1. UNCHANGED <<own, enabled, gate, flight>>
    BY <1>9 DEF Closes
  <2> QED BY <1>9, <2>1, ShellMoves DEF Rest
<1> QED BY <1>1, <1>2, <1>3, <1>4, <1>5, <1>6, <1>7, <1>8, <1>9

(* The legs stay held: the steps of the monitor.                           *)
LEMMA HeldMonitor ==
    ASSUME PlaceInv, Owning, LegsStayHeld
    PROVE  (MayTick /\ TickHalts) \/ (MayTick /\ TickAdvances) \/ (MayTick /\
           TickCommits) \/ (MayTick /\ TickIdles) \/ (\E to \in Mode :
           Raises(to)) \/ Reported
           => LegsStayHeld'
<1> USE DEF Owning, LegsStayHeld, Armed, Grounded, Pending, Moved, Actors,
        still, legVars, sampleVars, seenVars, flightVars, consoleVars, world
<1>1. ASSUME MayTick /\ TickHalts PROVE LegsStayHeld'
  BY <1>1, MonitorMoves DEF TickHalts, Halts, Calms
<1>2. ASSUME MayTick /\ TickAdvances PROVE LegsStayHeld'
  BY <1>2, MonitorMoves DEF TickAdvances, Advances
<1>3. ASSUME MayTick /\ TickCommits PROVE LegsStayHeld'
  BY <1>3, MonitorMoves DEF TickCommits, Follow, Consumed
<1>4. ASSUME MayTick /\ TickIdles PROVE LegsStayHeld'
  BY <1>4, MonitorMoves DEF TickIdles, Follow, Consumed
<1>5. ASSUME \E to \in Mode : Raises(to) PROVE LegsStayHeld'
  BY <1>5, MonitorMoves DEF Raises, Follow, Refused, Consumed
<1>6. ASSUME Reported PROVE LegsStayHeld'
  BY <1>6, MonitorMoves DEF Reported
<1> QED BY <1>1, <1>2, <1>3, <1>4, <1>5, <1>6

(* The legs stay held: the steps of the world.                             *)
LEMMA HeldWorld ==
    ASSUME PlaceInv, Owning, LegsStayHeld
    PROVE  Phone \/ Sample \/ OwnerFails \/ Flies \/ WaitElapses \/
           BackElapses
           => LegsStayHeld'
<1> USE DEF Owning, LegsStayHeld, Armed, Grounded, Pending, Moved, Actors,
        still, legVars, sampleVars, seenVars, flightVars, consoleVars, world
<1>1. ASSUME Phone PROVE LegsStayHeld'
  BY <1>1 DEF Phone
<1>2. ASSUME Sample PROVE LegsStayHeld'
  BY <1>2 DEF Sample
<1>3. ASSUME OwnerFails PROVE LegsStayHeld'
  BY <1>3 DEF OwnerFails
<1>4. ASSUME Flies PROVE LegsStayHeld'
  BY <1>4 DEF Flies
<1>5. ASSUME WaitElapses PROVE LegsStayHeld'
  BY <1>5 DEF WaitElapses, Stale
<1>6. ASSUME BackElapses PROVE LegsStayHeld'
  BY <1>6 DEF BackElapses, Stale
<1> QED BY <1>1, <1>2, <1>3, <1>4, <1>5, <1>6

(* LegsStayHeld is kept: the gate opens and closes before the owner moves. *)
LEMMA HeldHolds == ConsoleInv /\ [ConsoleNext]_allVars => LegsStayHeld'
<1> SUFFICES ASSUME ConsoleInv, [ConsoleNext]_allVars PROVE LegsStayHeld'
  OBVIOUS
<1> USE DEF ConsoleInv
<1>1. ASSUME Settles PROVE LegsStayHeld'
  BY <1>1, HeldCommits DEF Settles
<1>2. ASSUME NEW a \in Actors, Proceeds(a) PROVE LegsStayHeld'
  BY <1>2, HeldLegs, HeldStops, HeldLock DEF Proceeds
<1>3. ASSUME Shell \/ Closing PROVE LegsStayHeld'
  BY <1>3, HeldShell DEF Shell, Closing
<1>4. ASSUME Ticks \/ (\E to \in Mode : Raises(to)) \/ Reported PROVE LegsStayHeld'
  BY <1>4, HeldMonitor DEF Ticks
<1>5. ASSUME Environment PROVE LegsStayHeld'
  BY <1>5, HeldWorld DEF Environment
<1>6. ASSUME UNCHANGED allVars PROVE LegsStayHeld'
  BY <1>6, Stuttering DEF LegsStayHeld, Armed
<1> QED BY <1>1, <1>2, <1>3, <1>4, <1>5, <1>6 DEF ConsoleNext

(* Sport commands where it may: the steps of transitions.                  *)
LEMMA GroundCommits ==
    ASSUME Kinds, PlaceInv, Owning, GroundInv
    PROVE  WriteState \/ EntryEnds
           => GroundInv'
<1> USE DEF Owning, GroundInv, Sources, Unowned, SportModes, Accepted,
        Pending, Moved, Actors, still, legVars, sampleVars, seenVars,
        flightVars, consoleVars, world
<1>1. ASSUME WriteState PROVE GroundInv'
  BY <1>1, TypedFields DEF WriteState, Idle, Free
<1>2. ASSUME EntryEnds PROVE GroundInv'
  BY <1>2, TypedFields DEF EntryEnds, EnterBootSafe, EnterWait, EnterReady,
       EnterCompliant, EnterFault, Entered, EntryFails, Idle, Free
<1> QED BY <1>1, <1>2

(* Sport commands where it may: the steps of taking the legs and giving    *)
(* them back.                                                              *)
LEMMA GroundLegs ==
    ASSUME Kinds, PlaceInv, Owning, GroundInv, NEW a \in Actors
    PROVE  Committed(a) \/ Acquire(a) \/ Taken(a) \/ Release(a) \/
           HandsBack(a) \/ Fence(a) \/ Released(a) \/ Authorize(a)
           => GroundInv'
<1> USE DEF Owning, GroundInv, Sources, Unowned, SportModes, Accepted,
        Pending, Moved, Actors, still, legVars, sampleVars, seenVars,
        flightVars, consoleVars, world
<1>1. ASSUME Committed(a) PROVE GroundInv'
  BY <1>1, CommittedMoves, TypedFields DEF Committed, Free
<1>2. ASSUME Acquire(a) PROVE GroundInv'
  BY <1>2, AcquireMoves, TypedFields DEF Acquire, Free
<1>3. ASSUME Taken(a) PROVE GroundInv'
  BY <1>3, TakenMoves, TypedFields DEF Taken, Free
<1>4. ASSUME Release(a) PROVE GroundInv'
  BY <1>4, ReleaseMoves, TypedFields DEF Release, Free
<1>5. ASSUME HandsBack(a) PROVE GroundInv'
  BY <1>5, HandsBackMoves, TypedFields DEF HandsBack, Free
<1>6. ASSUME Fence(a) PROVE GroundInv'
  BY <1>6, FenceMoves, TypedFields DEF Fence, Free
<1>7. ASSUME Released(a) PROVE GroundInv'
  BY <1>7, ReleasedMoves, TypedFields, Granting, Asking, Faulting DEF
       Released, Asked, FaultAsked, Free
<1>8. ASSUME Authorize(a) PROVE GroundInv'
  BY <1>8, AuthorizeMoves, TypedFields DEF Authorize, Free
<1> QED BY <1>1, <1>2, <1>3, <1>4, <1>5, <1>6, <1>7, <1>8

(* Sport commands where it may: the steps of stopping and leaving.         *)
LEMMA GroundStops ==
    ASSUME Kinds, PlaceInv, Owning, GroundInv, NEW a \in Actors
    PROVE  Stop(a) \/ StopMoved(a) \/ StopReturns(a) \/ Prepare(a) \/
           Prepared(a) \/ Drop(a)
           => GroundInv'
<1> USE DEF Owning, GroundInv, Sources, Unowned, SportModes, Accepted,
        Pending, Moved, Actors, still, legVars, sampleVars, seenVars,
        flightVars, consoleVars, world
<1>1. ASSUME Stop(a) PROVE GroundInv'
  BY ZenonT(120), <1>1, StopMoves, TypedFields, Faulting DEF Stop, Halts, Calms, Asked,
       FaultAsked, Free
<1>2. ASSUME StopMoved(a) PROVE GroundInv'
  BY <1>2, StopMovedMoves, TypedFields, Faulting DEF StopMoved, Asked,
       FaultAsked, Free
<1>3. ASSUME StopReturns(a) PROVE GroundInv'
  BY <1>3, StopReturnsMoves, TypedFields, Faulting DEF StopReturns, Asked,
       FaultAsked, Free
<1>4. ASSUME Prepare(a) PROVE GroundInv'
  BY <1>4, PrepareMoves, TypedFields, Granting, Asking DEF Prepare, Asked,
       FaultAsked, Free
<1>5. ASSUME Prepared(a) PROVE GroundInv'
  BY <1>5, PreparedMoves, TypedFields DEF Prepared, Free
<1>6. ASSUME Drop(a) PROVE GroundInv'
  BY <1>6, DropMoves, TypedFields, Faulting DEF Drop, Asked, FaultAsked, Free
<1> QED BY <1>1, <1>2, <1>3, <1>4, <1>5, <1>6

(* Sport commands where it may: the steps of connecting, the wait and the  *)
(* fault.                                                                  *)
LEMMA GroundLock ==
    ASSUME Kinds, PlaceInv, Owning, GroundInv, NEW a \in Actors
    PROVE  Connect(a) \/ BootStopped(a) \/ Posed(a) \/ Confirm(a) \/
           Finalized(a) \/ ClearFault(a) \/ Interrupt(a)
           => GroundInv'
<1> USE DEF Owning, GroundInv, Sources, Unowned, SportModes, Accepted,
        Pending, Moved, Actors, still, legVars, sampleVars, seenVars,
        flightVars, consoleVars, world
<1>1. ASSUME Connect(a) PROVE GroundInv'
  BY <1>1, ConnectMoves, TypedFields, Faulting DEF Connect, Asked, FaultAsked,
       Free
<1>2. ASSUME BootStopped(a) PROVE GroundInv'
  BY <1>2, BootStoppedMoves, TypedFields, Granting, Asking, Faulting DEF
       BootStopped, Concludes, Asked, FaultAsked, Free
<1>3. ASSUME Posed(a) PROVE GroundInv'
  BY <1>3, PosedMoves, TypedFields, Granting, Asking, Faulting DEF Posed,
       Asked, FaultAsked, Free
<1>4. ASSUME Confirm(a) PROVE GroundInv'
  BY <1>4, ConfirmMoves, TypedFields, Faulting DEF Confirm, Advances, Asked,
       FaultAsked, Free
<1>5. ASSUME Finalized(a) PROVE GroundInv'
  BY <1>5, FinalizedMoves, TypedFields, Faulting DEF Finalized, Idle, Asked,
       FaultAsked, Free
<1>6. ASSUME ClearFault(a) PROVE GroundInv'
  BY <1>6, ClearFaultMoves, TypedFields, Granting, Asking DEF ClearFault,
       Asked, FaultAsked, Free
<1>7. ASSUME Interrupt(a) PROVE GroundInv'
  BY <1>7, InterruptMoves, TypedFields, Faulting DEF Interrupt, Asked,
       FaultAsked, Free
<1> QED BY <1>1, <1>2, <1>3, <1>4, <1>5, <1>6, <1>7

(* Sport commands where it may: the steps of the shell.                    *)
LEMMA GroundShell ==
    ASSUME Kinds, PlaceInv, Owning, GroundInv
    PROVE  (\E cmd \in DOMAIN Offered : Types(cmd)) \/ Declines \/ CtrlC \/
           Signal \/ PromptFails \/ Abandons \/ Close \/ Resumes \/ Closes
           => GroundInv'
<1> USE DEF Owning, GroundInv, Sources, Unowned, SportModes, Accepted,
        Pending, Moved, Actors, still, legVars, sampleVars, seenVars,
        flightVars, consoleVars, world
<1>1. ASSUME \E cmd \in DOMAIN Offered : Types(cmd) PROVE GroundInv'
  <2>1. UNCHANGED <<own, enabled, mode, change, relocked>>
    BY <1>1 DEF Types
  <2> QED BY <1>1, <2>1, ShellMoves
<1>2. ASSUME Declines PROVE GroundInv'
  BY <1>2, ShellMoves, TypedFields DEF Declines, Free
<1>3. ASSUME CtrlC PROVE GroundInv'
  BY <1>3, ShellMoves, TypedFields DEF CtrlC, Free
<1>4. ASSUME Signal PROVE GroundInv'
  BY <1>4, TypedFields DEF Signal, Free
<1>5. ASSUME PromptFails PROVE GroundInv'
  BY <1>5, TypedFields DEF PromptFails, handoverVars, Free
<1>6. ASSUME Abandons PROVE GroundInv'
  BY <1>6, ShellMoves, TypedFields DEF Abandons, Free
<1>7. ASSUME Close PROVE GroundInv'
  BY <1>7, ShellMoves, TypedFields DEF Close, Free
<1>8. ASSUME Resumes PROVE GroundInv'
  BY <1>8, TypedFields DEF Resumes, handoverVars, Free
<1>9. ASSUME Closes PROVE GroundInv'
  <2>1. UNCHANGED <<own, enabled, mode, change, relocked>>
    BY <1>9 DEF Closes
  <2> QED BY <1>9, <2>1, ShellMoves DEF Rest
<1> QED BY <1>1, <1>2, <1>3, <1>4, <1>5, <1>6, <1>7, <1>8, <1>9

(* Sport commands where it may: the steps of the monitor.                  *)
LEMMA GroundMonitor ==
    ASSUME Kinds, PlaceInv, Owning, GroundInv
    PROVE  (MayTick /\ TickHalts) \/ (MayTick /\ TickAdvances) \/ (MayTick /\
           TickCommits) \/ (MayTick /\ TickIdles) \/ (\E to \in Mode :
           Raises(to)) \/ Reported
           => GroundInv'
<1> USE DEF Owning, GroundInv, Sources, Unowned, SportModes, Accepted,
        Pending, Moved, Actors, still, legVars, sampleVars, seenVars,
        flightVars, consoleVars, world
<1>1. ASSUME MayTick /\ TickHalts PROVE GroundInv'
  BY <1>1, MonitorMoves, TypedFields, Faulting DEF TickHalts, Halts, Calms,
       Asked, FaultAsked, Free
<1>2. ASSUME MayTick /\ TickAdvances PROVE GroundInv'
  BY <1>2, MonitorMoves, TypedFields, Faulting DEF TickAdvances, Advances,
       Asked, FaultAsked, Free
<1>3. ASSUME MayTick /\ TickCommits PROVE GroundInv'
  <2>1. Asked(Wanted) /\ UNCHANGED <<mode, own, enabled, relocked>>
        /\ Moved("monitor", "commit", "tick")
    BY <1>3, Asking, MonitorMoves DEF TickCommits
  <2>2. Wanted \notin SportModes
    BY <1>3, Wanting DEF TickCommits
  <2> QED BY <2>1, <2>2 DEF Asked
<1>4. ASSUME MayTick /\ TickIdles PROVE GroundInv'
  BY <1>4, MonitorMoves, TypedFields DEF TickIdles, Follow, Consumed, Free
<1>5. ASSUME \E to \in Mode : Raises(to) PROVE GroundInv'
  BY <1>5, MonitorMoves, TypedFields DEF Raises, Follow, Refused, Consumed,
       Free
<1>6. ASSUME Reported PROVE GroundInv'
  BY <1>6, MonitorMoves, TypedFields DEF Reported, Free
<1> QED BY <1>1, <1>2, <1>3, <1>4, <1>5, <1>6

(* Sport commands where it may: the steps of the world.                    *)
LEMMA GroundWorld ==
    ASSUME Kinds, PlaceInv, Owning, GroundInv
    PROVE  Phone \/ Sample \/ OwnerFails \/ Flies \/ WaitElapses \/
           BackElapses
           => GroundInv'
<1> USE DEF Owning, GroundInv, Sources, Unowned, SportModes, Accepted,
        Pending, Moved, Actors, still, legVars, sampleVars, seenVars,
        flightVars, consoleVars, world
<1>1. ASSUME Phone PROVE GroundInv'
  BY <1>1, TypedFields DEF Phone, Free
<1>2. ASSUME Sample PROVE GroundInv'
  BY <1>2, TypedFields DEF Sample, Free
<1>3. ASSUME OwnerFails PROVE GroundInv'
  BY <1>3, TypedFields DEF OwnerFails, Free
<1>4. ASSUME Flies PROVE GroundInv'
  BY <1>4, TypedFields DEF Flies, Free
<1>5. ASSUME WaitElapses PROVE GroundInv'
  BY <1>5, TypedFields DEF WaitElapses, Stale, Free
<1>6. ASSUME BackElapses PROVE GroundInv'
  BY <1>6, TypedFields DEF BackElapses, Stale, Free
<1> QED BY <1>1, <1>2, <1>3, <1>4, <1>5, <1>6

(* GroundInv is kept: where Sport commands, no owner is asked for.         *)
LEMMA GroundHolds == ConsoleInv /\ [ConsoleNext]_allVars => GroundInv'
<1> SUFFICES ASSUME ConsoleInv, [ConsoleNext]_allVars PROVE GroundInv'
  OBVIOUS
<1> USE DEF ConsoleInv
<1>1. ASSUME Settles PROVE GroundInv'
  BY <1>1, GroundCommits DEF Settles
<1>2. ASSUME NEW a \in Actors, Proceeds(a) PROVE GroundInv'
  BY <1>2, GroundLegs, GroundStops, GroundLock DEF Proceeds
<1>3. ASSUME Shell \/ Closing PROVE GroundInv'
  BY <1>3, GroundShell DEF Shell, Closing
<1>4. ASSUME Ticks \/ (\E to \in Mode : Raises(to)) \/ Reported PROVE GroundInv'
  BY <1>4, GroundMonitor DEF Ticks
<1>5. ASSUME Environment PROVE GroundInv'
  BY <1>5, GroundWorld DEF Environment
<1>6. ASSUME UNCHANGED allVars PROVE GroundInv'
  BY <1>6, Stuttering DEF GroundInv, Sources, Unowned, Accepted, Pending
<1> QED BY <1>1, <1>2, <1>3, <1>4, <1>5, <1>6 DEF ConsoleNext

(* Where a task speaks to the Sport service.                               *)
SportPlaces == {"sport", "boot", "pose", "finalize"}

(* A step that moves no task.                                              *)
LEMMA AloneStill ==
    ASSUME AloneInv, UNCHANGED <<run, link>>, Pending' => Pending,
           place' # "closed" \/ UNCHANGED <<place, alive>>
    PROVE  AloneInv'
  BY DEF AloneInv, SportIsAlone, Left, NoOrphan

(* Whoever acts, the console is open.                                       *)
LEMMA Open ==
    ASSUME AloneInv, NEW a \in Actors, run[a].pc # "idle" PROVE place # "closed"
  BY DEF AloneInv, Left, Actors

LEMMA Alert ==
    ASSUME AloneInv, alive \/ AtPrompt \/ place # "closed" PROVE place # "closed"
  BY DEF AloneInv, Left, AtPrompt

(* Nobody with the lock: nobody speaks to Sport.                           *)
LEMMA NobodySpeaks ==
    ASSUME PlaceInv, run["shell"].pc = "queued", \A b \in Actors : ~Holds(b)
    PROVE  \A b \in Actors : run[b].pc \notin SportPlaces
  BY DEF PlaceInv, MonitorAt, MonitorAims, Holds, Unlocked, Actors, SportPlaces

(* A step that moves one task.                                             *)
LEMMA AloneMoved ==
    ASSUME AloneInv, NEW a \in Actors, NEW pc, NEW aim, Moved(a, pc, aim), place' # "closed",
           a = "monitor" => UNCHANGED link,
           Pending' => (Pending \/ \A b \in Actors : run[b].pc \notin SportPlaces),
           pc \in SportPlaces => ~Pending',
           pc = "dropped" => ~Pending' /\ link' = "down",
           a = "monitor" => (Pending' => Pending)
    PROVE  AloneInv'
  BY DEF AloneInv, SportIsAlone, Left, NoOrphan, Moved, Actors, SportPlaces

(* Sport is alone: the steps of transitions.                               *)
LEMMA AloneCommits ==
    ASSUME PlaceInv, Owning, GroundInv, AloneInv, UNCHANGED consoleVars
    PROVE  WriteState \/ EntryEnds
           => AloneInv'
<1> USE DEF Owning, GroundInv, Unowned, SportModes, Pending, SportPlaces,
        still, legVars, sampleVars, seenVars, flightVars, consoleVars, world
<1>1. ASSUME WriteState PROVE AloneInv'
  BY <1>1, AloneStill DEF WriteState, Idle
<1>2. ASSUME EntryEnds PROVE AloneInv'
  BY <1>2, AloneStill DEF EntryEnds, EnterBootSafe, EnterWait, EnterReady,
       EnterCompliant, EnterFault, Entered, EntryFails, Idle
<1> QED BY <1>1, <1>2

(* Sport is alone: the steps of taking the legs and giving them back.      *)
LEMMA AloneLegs ==
    ASSUME PlaceInv, Owning, GroundInv, AloneInv, NEW a \in Actors, UNCHANGED consoleVars
    PROVE  Committed(a) \/ Acquire(a) \/ Taken(a) \/ Release(a) \/
           HandsBack(a) \/ Fence(a) \/ Released(a) \/ Authorize(a)
           => AloneInv'
<1> USE DEF Owning, GroundInv, Unowned, SportModes, Pending, SportPlaces,
        still, legVars, sampleVars, seenVars, flightVars, consoleVars, world
<1>1. ASSUME Committed(a) PROVE AloneInv'
  BY <1>1, CommittedMoves, AloneMoved, Open DEF Committed
<1>2. ASSUME Acquire(a) PROVE AloneInv'
  BY <1>2, AcquireMoves, AloneMoved, Open, NobodySpeaks DEF Acquire, Starts,
       Unlocked
<1>3. ASSUME Taken(a) PROVE AloneInv'
  BY <1>3, TakenMoves, AloneMoved, Open DEF Taken
<1>4. ASSUME Release(a) PROVE AloneInv'
  BY <1>4, ReleaseMoves, AloneMoved, Open DEF Release
<1>5. ASSUME HandsBack(a) PROVE AloneInv'
  BY <1>5, HandsBackMoves, AloneMoved, Open DEF HandsBack
<1>6. ASSUME Fence(a) PROVE AloneInv'
  BY <1>6, FenceMoves, AloneMoved, Open DEF Fence
<1>7. ASSUME Released(a) PROVE AloneInv'
  BY <1>7, ReleasedMoves, AloneMoved, Open DEF Released
<1>8. ASSUME Authorize(a) PROVE AloneInv'
  BY <1>8, AuthorizeMoves, AloneMoved, Open DEF Authorize
<1> QED BY <1>1, <1>2, <1>3, <1>4, <1>5, <1>6, <1>7, <1>8

(* Sport is alone: the steps of stopping and leaving.                      *)
LEMMA AloneStops ==
    ASSUME PlaceInv, Owning, GroundInv, AloneInv, NEW a \in Actors, UNCHANGED consoleVars
    PROVE  Stop(a) \/ StopMoved(a) \/ StopReturns(a) \/ Prepare(a) \/
           Prepared(a) \/ Drop(a)
           => AloneInv'
<1> USE DEF Owning, GroundInv, Unowned, SportModes, Pending, SportPlaces,
        still, legVars, sampleVars, seenVars, flightVars, consoleVars, world
<1>1. ASSUME Stop(a) PROVE AloneInv'
  BY ZenonT(60), <1>1, StopMoves, AloneMoved, Open DEF Stop, Halts, Calms
<1>2. ASSUME StopMoved(a) PROVE AloneInv'
  BY ZenonT(60), <1>2, StopMovedMoves, AloneMoved, Open DEF StopMoved
<1>3. ASSUME StopReturns(a) PROVE AloneInv'
  BY <1>3, StopReturnsMoves, AloneMoved, Open DEF StopReturns
<1>4. ASSUME Prepare(a) PROVE AloneInv'
  BY <1>4, PrepareMoves, AloneMoved, Open DEF Prepare
<1>5. ASSUME Prepared(a) PROVE AloneInv'
  BY <1>5, PreparedMoves, AloneMoved, Open DEF Prepared
<1>6. ASSUME Drop(a) PROVE AloneInv'
  BY <1>6, DropMoves, AloneMoved, Open DEF Drop
<1> QED BY <1>1, <1>2, <1>3, <1>4, <1>5, <1>6

(* Sport is alone: the steps of connecting, the wait and the fault.        *)
LEMMA AloneLock ==
    ASSUME PlaceInv, Owning, GroundInv, AloneInv, NEW a \in Actors, UNCHANGED consoleVars
    PROVE  Connect(a) \/ BootStopped(a) \/ Posed(a) \/ Confirm(a) \/
           Finalized(a) \/ ClearFault(a) \/ Interrupt(a)
           => AloneInv'
<1> USE DEF Owning, GroundInv, Unowned, SportModes, Pending, SportPlaces,
        still, legVars, sampleVars, seenVars, flightVars, consoleVars, world
<1>1. ASSUME Connect(a) PROVE AloneInv'
  BY <1>1, ConnectMoves, AloneMoved, Open DEF Connect
<1>2. ASSUME BootStopped(a) PROVE AloneInv'
  BY <1>2, BootStoppedMoves, AloneMoved, Open DEF BootStopped, Concludes
<1>3. ASSUME Posed(a) PROVE AloneInv'
  BY <1>3, PosedMoves, AloneMoved, Open DEF Posed
<1>4. ASSUME Confirm(a) PROVE AloneInv'
  BY <1>4, ConfirmMoves, AloneMoved, Open DEF Confirm, Advances
<1>5. ASSUME Finalized(a) PROVE AloneInv'
  BY <1>5, FinalizedMoves, AloneMoved, Open DEF Finalized, Idle
<1>6. ASSUME ClearFault(a) PROVE AloneInv'
  BY <1>6, ClearFaultMoves, AloneMoved, Open DEF ClearFault
<1>7. ASSUME Interrupt(a) PROVE AloneInv'
  BY <1>7, InterruptMoves, AloneMoved, Open DEF Interrupt
<1> QED BY <1>1, <1>2, <1>3, <1>4, <1>5, <1>6, <1>7

(* Sport is alone: the steps of the shell.                                 *)
LEMMA AloneShell ==
    ASSUME PlaceInv, Owning, GroundInv, AloneInv
    PROVE  (\E cmd \in DOMAIN Offered : Types(cmd)) \/ Declines \/ CtrlC \/
           Signal \/ PromptFails \/ Abandons \/ Close \/ Resumes \/ Closes
           => AloneInv'
<1> USE DEF Owning, GroundInv, Unowned, SportModes, Pending, SportPlaces,
        still, legVars, sampleVars, seenVars, flightVars, consoleVars, world
<1>1. ASSUME \E cmd \in DOMAIN Offered : Types(cmd) PROVE AloneInv'
  BY <1>1, AloneMoved, Open, Alert, ShellMoves DEF Types, Actors
<1>2. ASSUME Declines PROVE AloneInv'
  BY <1>2, AloneMoved, Open, Alert, ShellMoves DEF Declines, Actors
<1>3. ASSUME CtrlC PROVE AloneInv'
  BY <1>3, AloneMoved, Open, Alert, ShellMoves DEF CtrlC, Actors
<1>4. ASSUME Signal PROVE AloneInv'
  BY <1>4, AloneStill DEF Signal, Actors
<1>5. ASSUME PromptFails PROVE AloneInv'
  BY <1>5, AloneStill DEF PromptFails, handoverVars, Actors
<1>6. ASSUME Abandons PROVE AloneInv'
  BY <1>6, AloneMoved, Open, Alert, ShellMoves DEF Abandons, Actors
<1>7. ASSUME Close PROVE AloneInv'
  BY <1>7, AloneMoved, Open, Alert, ShellMoves DEF Close, Actors
<1>8. ASSUME Resumes PROVE AloneInv'
  BY <1>8, AloneStill DEF Resumes, handoverVars, Actors
<1>9. ASSUME Closes PROVE AloneInv'
  <2>1. ~Pending' /\ link' = "down" /\ ~alive' /\ \A a \in Actors : run'[a] = Rest
    BY <1>9, ShellMoves DEF Closes, AloneInv, Left
  <2> QED BY <2>1 DEF AloneInv, SportIsAlone, Left, NoOrphan, Actors, Rest
<1> QED BY <1>1, <1>2, <1>3, <1>4, <1>5, <1>6, <1>7, <1>8, <1>9

(* Sport is alone: the steps of the monitor.                               *)
LEMMA AloneMonitor ==
    ASSUME PlaceInv, Owning, GroundInv, AloneInv
    PROVE  (MayTick /\ UNCHANGED consoleVars /\ TickHalts) \/ (MayTick /\
           UNCHANGED consoleVars /\ TickAdvances) \/ (MayTick /\ UNCHANGED
           consoleVars /\ TickCommits) \/ (MayTick /\ UNCHANGED consoleVars
           /\ TickIdles) \/ (\E to \in Mode : Raises(to)) \/ Reported
           => AloneInv'
<1> USE DEF Owning, GroundInv, Unowned, SportModes, Pending, SportPlaces,
        still, legVars, sampleVars, seenVars, flightVars, consoleVars, world
<1>1. ASSUME MayTick /\ UNCHANGED consoleVars /\ TickHalts PROVE AloneInv'
  BY <1>1, AloneMoved, Open, Alert, MonitorMoves DEF TickHalts, Halts, Calms,
       Actors, MayTick
<1>2. ASSUME MayTick /\ UNCHANGED consoleVars /\ TickAdvances PROVE AloneInv'
  BY <1>2, AloneMoved, Open, Alert, MonitorMoves DEF TickAdvances, Advances,
       Actors, MayTick, WaitModes
<1>3. ASSUME MayTick /\ UNCHANGED consoleVars /\ TickCommits PROVE AloneInv'
  BY <1>3, AloneMoved, Open, Alert, MonitorMoves DEF TickCommits, Follow,
       Consumed, Actors, MayTick
<1>4. ASSUME MayTick /\ UNCHANGED consoleVars /\ TickIdles PROVE AloneInv'
  BY <1>4, AloneStill, MonitorMoves DEF TickIdles, Follow, Consumed, Actors,
       MayTick
<1>5. ASSUME \E to \in Mode : Raises(to) PROVE AloneInv'
  BY <1>5, AloneMoved, Open, Alert, MonitorMoves DEF Raises, Follow, Refused,
       Consumed, Actors, MayTick
<1>6. ASSUME Reported PROVE AloneInv'
  BY <1>6, AloneMoved, Open, Alert, MonitorMoves DEF Reported, Actors, MayTick
<1> QED BY <1>1, <1>2, <1>3, <1>4, <1>5, <1>6

(* Sport is alone: the steps of the world.                                 *)
LEMMA AloneWorld ==
    ASSUME PlaceInv, Owning, GroundInv, AloneInv
    PROVE  Phone \/ Sample \/ OwnerFails \/ Flies \/ WaitElapses \/
           BackElapses
           => AloneInv'
<1> USE DEF Owning, GroundInv, Unowned, SportModes, Pending, SportPlaces,
        still, legVars, sampleVars, seenVars, flightVars, consoleVars, world
<1>1. ASSUME Phone PROVE AloneInv'
  BY <1>1, AloneStill DEF Phone
<1>2. ASSUME Sample PROVE AloneInv'
  BY <1>2, AloneStill DEF Sample
<1>3. ASSUME OwnerFails PROVE AloneInv'
  BY <1>3, AloneStill DEF OwnerFails
<1>4. ASSUME Flies PROVE AloneInv'
  BY <1>4, AloneStill DEF Flies
<1>5. ASSUME WaitElapses PROVE AloneInv'
  BY <1>5, AloneStill DEF WaitElapses, Stale
<1>6. ASSUME BackElapses PROVE AloneInv'
  BY <1>6, AloneStill DEF BackElapses, Stale
<1> QED BY <1>1, <1>2, <1>3, <1>4, <1>5, <1>6

(* AloneInv is kept: an owner is asked for only when nobody has the lock.  *)
LEMMA AloneHolds == ConsoleInv /\ [ConsoleNext]_allVars => AloneInv'
<1> SUFFICES ASSUME ConsoleInv, [ConsoleNext]_allVars PROVE AloneInv'
  OBVIOUS
<1> USE DEF ConsoleInv
<1>1. ASSUME Settles PROVE AloneInv'
  BY <1>1, AloneCommits DEF Settles
<1>2. ASSUME NEW a \in Actors, Proceeds(a) PROVE AloneInv'
  BY <1>2, AloneLegs, AloneStops, AloneLock DEF Proceeds
<1>3. ASSUME Shell \/ Closing PROVE AloneInv'
  BY <1>3, AloneShell DEF Shell, Closing
<1>4. ASSUME Ticks \/ (\E to \in Mode : Raises(to)) \/ Reported PROVE AloneInv'
  BY <1>4, AloneMonitor DEF Ticks
<1>5. ASSUME Environment PROVE AloneInv'
  BY <1>5, AloneWorld DEF Environment
<1>6. ASSUME UNCHANGED allVars PROVE AloneInv'
  BY <1>6, Stuttering, AloneStill DEF Pending
<1> QED BY <1>1, <1>2, <1>3, <1>4, <1>5, <1>6 DEF ConsoleNext

(* A sample that is believed is true: the steps of transitions.            *)
LEMMA BeliefCommits ==
    ASSUME Kinds, PlaceInv, Owning, GroundInv, AloneInv, Believed
    PROVE  WriteState \/ EntryEnds
           => Believed'
<1> USE DEF Kinds, GroundInv, Sources, Unowned, SportModes, AloneInv,
        SportIsAlone, Believed, Fresh, Coming, Accepted, BehindFence,
        LockShown, Pending, Moved, Actors, still, legVars, sampleVars,
        seenVars, flightVars, consoleVars, world
<1>1. ASSUME WriteState PROVE Believed'
  BY <1>1, TypedFields DEF WriteState, Idle, Free
<1>2. ASSUME EntryEnds PROVE Believed'
  <2>1. UNCHANGED <<mode, relocked, sport, run>>
    BY <1>2 DEF EntryEnds
  <2>2. change'.pc = "none" \/ change'.to = "FAULT"
    BY <1>2 DEF EntryEnds, EnterBootSafe, EnterWait, EnterReady, EnterCompliant, EnterFault,
       Entered, EntryFails, Idle
  <2>3. EnterBootSafe \/ EnterWait \/ EnterReady \/ EnterCompliant \/ EnterFault
    BY <1>2 DEF EntryEnds
  <2>4. dog' = "locked" => dog = "locked"
    BY <2>3 DEF EnterBootSafe, EnterWait, EnterReady, EnterCompliant, EnterFault
  <2>5. fence' => fence
    BY <2>3 DEF EnterBootSafe, EnterWait, EnterReady, EnterCompliant, EnterFault
  <2> QED BY <2>1, <2>2, <2>4, <2>5
<1> QED BY <1>1, <1>2

(* A sample that is believed is true: the steps of taking the legs and     *)
(* giving them back.                                                       *)
LEMMA BeliefLegs ==
    ASSUME Kinds, PlaceInv, Owning, GroundInv, AloneInv, Believed, NEW a \in Actors
    PROVE  Committed(a) \/ Acquire(a) \/ Taken(a) \/ Release(a) \/
           HandsBack(a) \/ Fence(a) \/ Released(a) \/ Authorize(a)
           => Believed'
<1> USE DEF Kinds, GroundInv, Sources, Unowned, SportModes, AloneInv,
        SportIsAlone, Believed, Fresh, Coming, Accepted, BehindFence,
        LockShown, Pending, Moved, Actors, still, legVars, sampleVars,
        seenVars, flightVars, consoleVars, world
<1>1. ASSUME Committed(a) PROVE Believed'
  BY <1>1, CommittedMoves, TypedFields DEF Committed, Free
<1>2. ASSUME Acquire(a) PROVE Believed'
  BY <1>2, AcquireMoves, TypedFields DEF Acquire, Free
<1>3. ASSUME Taken(a) PROVE Believed'
  <2>1. /\ run[a].pc = "taking" /\ own # "observe"
        /\ UNCHANGED <<mode, change, sport, fence>>
        /\ UNCHANGED <<dog, relocked>> \/ dog' \in {"free", "low"}
    BY <1>3, TakenMoves DEF Taken, Owning
  <2> QED BY <1>3, <2>1, TakenMoves
<1>4. ASSUME Release(a) PROVE Believed'
  BY <1>4, ReleaseMoves, TypedFields DEF Release, Free
<1>5. ASSUME HandsBack(a) PROVE Believed'
  <2>1. /\ run[a].pc = "handing" /\ own # "observe"
        /\ UNCHANGED <<mode, change, sport, fence>>
        /\ UNCHANGED <<dog, relocked>> \/ dog' = "free"
    BY <1>5, HandsBackMoves DEF HandsBack, Owning
  <2> QED BY <1>5, <2>1, HandsBackMoves
<1>6. ASSUME Fence(a) PROVE Believed'
  <2>1. /\ UNCHANGED <<mode, change, dog, relocked>>
        /\ LockShown' => LockShown
        /\ fence' /\ BehindFence' => fence /\ BehindFence
    BY <1>6 DEF Fence, Aged
  <2> HIDE DEF LockShown, BehindFence
  <2> QED BY <2>1, <1>6, FenceMoves
<1>7. ASSUME Released(a) PROVE Believed'
  BY <1>7, ReleasedMoves, TypedFields, Granting, Asking, Faulting DEF
       Released, Asked, FaultAsked, Free
<1>8. ASSUME Authorize(a) PROVE Believed'
  BY <1>8, AuthorizeMoves, TypedFields DEF Authorize, Free
<1> QED BY <1>1, <1>2, <1>3, <1>4, <1>5, <1>6, <1>7, <1>8

(* A sample that is believed is true: the steps of stopping and leaving.   *)
LEMMA BeliefStops ==
    ASSUME Kinds, PlaceInv, Owning, GroundInv, AloneInv, Believed, NEW a \in Actors
    PROVE  Stop(a) \/ StopMoved(a) \/ StopReturns(a) \/ Prepare(a) \/
           Prepared(a) \/ Drop(a)
           => Believed'
<1> USE DEF Kinds, GroundInv, Sources, Unowned, SportModes, AloneInv,
        SportIsAlone, Believed, Fresh, Coming, Accepted, BehindFence,
        LockShown, Pending, Moved, Actors, still, legVars, sampleVars,
        seenVars, flightVars, consoleVars, world
<1>1. ASSUME Stop(a) PROVE Believed'
  BY <1>1, StopMoves, TypedFields, Faulting DEF Stop, Halts, Calms, Asked,
       FaultAsked, Free
<1>2. ASSUME StopMoved(a) PROVE Believed'
  BY <1>2, StopMovedMoves, TypedFields, Faulting DEF StopMoved, Asked,
       FaultAsked, Free
<1>3. ASSUME StopReturns(a) PROVE Believed'
  BY <1>3, StopReturnsMoves, TypedFields, Faulting DEF StopReturns, Asked,
       FaultAsked, Free
<1>4. ASSUME Prepare(a) PROVE Believed'
  BY <1>4, PrepareMoves, TypedFields, Granting, Asking DEF Prepare, Asked,
       FaultAsked, Free
<1>5. ASSUME Prepared(a) PROVE Believed'
  BY <1>5, PreparedMoves, TypedFields DEF Prepared, Free
<1>6. ASSUME Drop(a) PROVE Believed'
  BY <1>6, DropMoves, TypedFields, Faulting DEF Drop, Asked, FaultAsked, Free
<1> QED BY <1>1, <1>2, <1>3, <1>4, <1>5, <1>6

(* A sample that is believed is true: the steps of connecting, the wait    *)
(* and the fault.                                                          *)
LEMMA BeliefLock ==
    ASSUME Kinds, PlaceInv, Owning, GroundInv, AloneInv, Believed, NEW a \in Actors
    PROVE  Connect(a) \/ BootStopped(a) \/ Posed(a) \/ Confirm(a) \/
           Finalized(a) \/ ClearFault(a) \/ Interrupt(a)
           => Believed'
<1> USE DEF Kinds, GroundInv, Sources, Unowned, SportModes, AloneInv,
        SportIsAlone, Believed, Fresh, Coming, Accepted, BehindFence,
        LockShown, Pending, Moved, Actors, still, legVars, sampleVars,
        seenVars, flightVars, consoleVars, world
<1>1. ASSUME Connect(a) PROVE Believed'
  <2>1. UNCHANGED <<mode, dog, relocked, fence>> /\ (UNCHANGED sport \/ sport' = dog)
    BY <1>1 DEF Connect
  <2> QED BY <1>1, <2>1, ConnectMoves DEF FaultAsked
<1>2. ASSUME BootStopped(a) PROVE Believed'
  BY <1>2, BootStoppedMoves, TypedFields, Granting, Asking, Faulting DEF
       BootStopped, Concludes, Asked, FaultAsked, Free
<1>3. ASSUME Posed(a) PROVE Believed'
  BY <1>3, PosedMoves, TypedFields, Granting, Asking, Faulting DEF Posed,
       Asked, FaultAsked, Free
<1>4. ASSUME Confirm(a) PROVE Believed'
  BY <1>4, ConfirmMoves, TypedFields, Faulting DEF Confirm, Advances, Asked,
       FaultAsked, Free
<1>5. ASSUME Finalized(a) PROVE Believed'
  BY <1>5, FinalizedMoves, TypedFields, Faulting DEF Finalized, Idle, Asked,
       FaultAsked, Free
<1>6. ASSUME ClearFault(a) PROVE Believed'
  BY <1>6, ClearFaultMoves, TypedFields, Granting, Asking DEF ClearFault,
       Asked, FaultAsked, Free
<1>7. ASSUME Interrupt(a) PROVE Believed'
  BY <1>7, InterruptMoves, TypedFields, Faulting DEF Interrupt, Asked,
       FaultAsked, Free
<1> QED BY <1>1, <1>2, <1>3, <1>4, <1>5, <1>6, <1>7

(* A sample that is believed is true: the steps of the shell.              *)
LEMMA BeliefShell ==
    ASSUME Kinds, PlaceInv, Owning, GroundInv, AloneInv, Believed
    PROVE  (\E cmd \in DOMAIN Offered : Types(cmd)) \/ Declines \/ CtrlC \/
           Signal \/ PromptFails \/ Abandons \/ Close \/ Resumes \/ Closes
           => Believed'
<1> USE DEF Kinds, GroundInv, Sources, Unowned, SportModes, AloneInv,
        SportIsAlone, Believed, Fresh, Coming, Accepted, BehindFence,
        LockShown, Pending, Moved, Actors, still, legVars, sampleVars,
        seenVars, flightVars, consoleVars, world
<1>1. ASSUME \E cmd \in DOMAIN Offered : Types(cmd) PROVE Believed'
  <2>1. UNCHANGED <<mode, change, dog, sport, fence, relocked>>
    BY <1>1 DEF Types
  <2> QED BY <1>1, <2>1, ShellMoves
<1>2. ASSUME Declines PROVE Believed'
  BY <1>2, ShellMoves, TypedFields DEF Declines, Free
<1>3. ASSUME CtrlC PROVE Believed'
  BY <1>3, ShellMoves, TypedFields DEF CtrlC, Free
<1>4. ASSUME Signal PROVE Believed'
  BY <1>4, TypedFields DEF Signal, Free
<1>5. ASSUME PromptFails PROVE Believed'
  BY <1>5, TypedFields DEF PromptFails, handoverVars, Free
<1>6. ASSUME Abandons PROVE Believed'
  BY <1>6, ShellMoves, TypedFields DEF Abandons, Free
<1>7. ASSUME Close PROVE Believed'
  BY <1>7, ShellMoves, TypedFields DEF Close, Free
<1>8. ASSUME Resumes PROVE Believed'
  BY <1>8, TypedFields DEF Resumes, handoverVars, Free
<1>9. ASSUME Closes PROVE Believed'
  <2>1. UNCHANGED <<mode, change, dog, sport, fence, relocked>>
    BY <1>9 DEF Closes
  <2> QED BY <1>9, <2>1, ShellMoves DEF Rest
<1> QED BY <1>1, <1>2, <1>3, <1>4, <1>5, <1>6, <1>7, <1>8, <1>9

(* A sample that is believed is true: the steps of the monitor.            *)
LEMMA BeliefMonitor ==
    ASSUME Kinds, PlaceInv, Owning, GroundInv, AloneInv, Believed
    PROVE  (MayTick /\ TickHalts) \/ (MayTick /\ TickAdvances) \/ (MayTick /\
           TickCommits) \/ (MayTick /\ TickIdles) \/ (\E to \in Mode :
           Raises(to)) \/ Reported
           => Believed'
<1> USE DEF Kinds, GroundInv, Sources, Unowned, SportModes, AloneInv,
        SportIsAlone, Believed, Fresh, Coming, Accepted, BehindFence,
        LockShown, Pending, Moved, Actors, still, legVars, sampleVars,
        seenVars, flightVars, consoleVars, world
<1>1. ASSUME MayTick /\ TickHalts PROVE Believed'
  BY <1>1, MonitorMoves, TypedFields, Faulting DEF TickHalts, Halts, Calms,
       Asked, FaultAsked, Free
<1>2. ASSUME MayTick /\ TickAdvances PROVE Believed'
  <2>1. /\ UNCHANGED <<mode, dog, relocked, sport, fence>>
        /\ UNCHANGED change \/ change'.to = "FAULT"
        /\ mode \in {"GO2_JOINT_LOCK_WAIT", "GO2_GROUND_HANDOVER"}
    BY <1>2, Faulting DEF TickAdvances, Advances, FaultAsked, WaitModes
  <2>2. LockSeen => Fresh
    BY <2>1 DEF LockSeen
  <2> QED BY <1>2, <2>1, <2>2, MonitorMoves
<1>3. ASSUME MayTick /\ TickCommits PROVE Believed'
  <2>1. Asked(Wanted) /\ UNCHANGED <<mode, dog, relocked, sport, fence>>
        /\ Moved("monitor", "commit", "tick")
    BY <1>3, Asking, MonitorMoves DEF TickCommits
  <2>2. Wanted \notin SportModes
    BY <1>3, Wanting DEF TickCommits
  <2> QED BY <2>1, <2>2 DEF Asked
<1>4. ASSUME MayTick /\ TickIdles PROVE Believed'
  BY <1>4, MonitorMoves, TypedFields DEF TickIdles, Follow, Consumed, Free
<1>5. ASSUME \E to \in Mode : Raises(to) PROVE Believed'
  BY <1>5, MonitorMoves, TypedFields DEF Raises, Follow, Refused, Consumed,
       Free
<1>6. ASSUME Reported PROVE Believed'
  BY <1>6, MonitorMoves, TypedFields DEF Reported, Free
<1> QED BY <1>1, <1>2, <1>3, <1>4, <1>5, <1>6

(* A sample that is believed is true: the steps of the world.              *)
LEMMA BeliefWorld ==
    ASSUME Kinds, PlaceInv, Owning, GroundInv, AloneInv, Believed
    PROVE  Phone \/ Sample \/ OwnerFails \/ Flies \/ WaitElapses \/
           BackElapses
           => Believed'
<1> USE DEF Kinds, GroundInv, Sources, Unowned, SportModes, AloneInv,
        SportIsAlone, Believed, Fresh, Coming, Accepted, BehindFence,
        LockShown, Pending, Moved, Actors, still, legVars, sampleVars,
        seenVars, flightVars, consoleVars, world
<1>1. ASSUME Phone PROVE Believed'
  BY <1>1, TypedFields DEF Phone, Free
<1>2. ASSUME Sample PROVE Believed'
  <2>1. UNCHANGED <<mode, change, dog, relocked, run, fence>> /\ sport' = dog
    BY <1>2 DEF Sample
  <2> QED BY <2>1
<1>3. ASSUME OwnerFails PROVE Believed'
  BY <1>3, TypedFields DEF OwnerFails, Free
<1>4. ASSUME Flies PROVE Believed'
  BY <1>4, TypedFields DEF Flies, Free
<1>5. ASSUME WaitElapses PROVE Believed'
  BY <1>5, TypedFields DEF WaitElapses, Stale, Free
<1>6. ASSUME BackElapses PROVE Believed'
  BY <1>6, TypedFields DEF BackElapses, Stale, Free
<1> QED BY <1>1, <1>2, <1>3, <1>4, <1>5, <1>6

(* Believed is kept: the legs change hands only under an owner.            *)
LEMMA BeliefHolds == ConsoleInv /\ [ConsoleNext]_allVars => Believed'
<1> SUFFICES ASSUME ConsoleInv, [ConsoleNext]_allVars PROVE Believed'
  OBVIOUS
<1> USE DEF ConsoleInv, CauseInv
<1>1. ASSUME Settles PROVE Believed'
  BY <1>1, BeliefCommits DEF Settles
<1>2. ASSUME NEW a \in Actors, Proceeds(a) PROVE Believed'
  BY <1>2, BeliefLegs, BeliefStops, BeliefLock DEF Proceeds
<1>3. ASSUME Shell \/ Closing PROVE Believed'
  BY <1>3, BeliefShell DEF Shell, Closing
<1>4. ASSUME Ticks \/ (\E to \in Mode : Raises(to)) \/ Reported PROVE Believed'
  BY <1>4, BeliefMonitor DEF Ticks
<1>5. ASSUME Environment PROVE Believed'
  BY <1>5, BeliefWorld DEF Environment
<1>6. ASSUME UNCHANGED allVars PROVE Believed'
  BY <1>6, Stuttering DEF Believed, Fresh, Coming, BehindFence, LockShown
<1> QED BY <1>1, <1>2, <1>3, <1>4, <1>5, <1>6 DEF ConsoleNext

(* The word is given with the transition: the steps of transitions.        *)
LEMMA VoucherCommits ==
    ASSUME Kinds, PlaceInv, Vouched
    PROVE  WriteState \/ EntryEnds
           => Vouched'
<1> USE DEF Vouched, Accepted, Moved, Actors, still, legVars, sampleVars,
        seenVars, flightVars, consoleVars, world
<1>1. ASSUME WriteState PROVE Vouched'
  BY <1>1, TypedFields DEF WriteState, Idle, Free
<1>2. ASSUME EntryEnds PROVE Vouched'
  BY <1>2, TypedFields DEF EntryEnds, EnterBootSafe, EnterWait, EnterReady,
       EnterCompliant, EnterFault, Entered, EntryFails, Idle, Free
<1> QED BY <1>1, <1>2

(* The word is given with the transition: the steps of taking the legs and *)
(* giving them back.                                                       *)
LEMMA VoucherLegs ==
    ASSUME Kinds, PlaceInv, Vouched, NEW a \in Actors
    PROVE  Committed(a) \/ Acquire(a) \/ Taken(a) \/ Release(a) \/
           HandsBack(a) \/ Fence(a) \/ Released(a) \/ Authorize(a)
           => Vouched'
<1> USE DEF Vouched, Accepted, Moved, Actors, still, legVars, sampleVars,
        seenVars, flightVars, consoleVars, world
<1>1. ASSUME Committed(a) PROVE Vouched'
  BY <1>1, CommittedMoves, TypedFields DEF Committed, Free
<1>2. ASSUME Acquire(a) PROVE Vouched'
  BY <1>2, AcquireMoves, TypedFields DEF Acquire, Free
<1>3. ASSUME Taken(a) PROVE Vouched'
  BY <1>3, TakenMoves, TypedFields DEF Taken, Free
<1>4. ASSUME Release(a) PROVE Vouched'
  BY <1>4, ReleaseMoves, TypedFields DEF Release, Free
<1>5. ASSUME HandsBack(a) PROVE Vouched'
  BY <1>5, HandsBackMoves, TypedFields DEF HandsBack, Free
<1>6. ASSUME Fence(a) PROVE Vouched'
  BY <1>6, FenceMoves, TypedFields DEF Fence, Free
<1>7. ASSUME Released(a) PROVE Vouched'
  BY <1>7, ReleasedMoves, TypedFields, Granting, Asking, Faulting DEF
       Released, Asked, FaultAsked, Free
<1>8. ASSUME Authorize(a) PROVE Vouched'
  BY <1>8, AuthorizeMoves, TypedFields DEF Authorize, Free
<1> QED BY <1>1, <1>2, <1>3, <1>4, <1>5, <1>6, <1>7, <1>8

(* The word is given with the transition: the steps of stopping and        *)
(* leaving.                                                                *)
LEMMA VoucherStops ==
    ASSUME Kinds, PlaceInv, Vouched, NEW a \in Actors
    PROVE  Stop(a) \/ StopMoved(a) \/ StopReturns(a) \/ Prepare(a) \/
           Prepared(a) \/ Drop(a)
           => Vouched'
<1> USE DEF Vouched, Accepted, Moved, Actors, still, legVars, sampleVars,
        seenVars, flightVars, consoleVars, world
<1>1. ASSUME Stop(a) PROVE Vouched'
  BY <1>1, StopMoves, TypedFields, Faulting DEF Stop, Halts, Calms, Asked,
       FaultAsked, Free
<1>2. ASSUME StopMoved(a) PROVE Vouched'
  BY <1>2, StopMovedMoves, TypedFields, Faulting DEF StopMoved, Asked,
       FaultAsked, Free
<1>3. ASSUME StopReturns(a) PROVE Vouched'
  BY <1>3, StopReturnsMoves, TypedFields, Faulting DEF StopReturns, Asked,
       FaultAsked, Free
<1>4. ASSUME Prepare(a) PROVE Vouched'
  BY <1>4, PrepareMoves, TypedFields, Granting, Asking DEF Prepare, Asked,
       FaultAsked, Free
<1>5. ASSUME Prepared(a) PROVE Vouched'
  BY <1>5, PreparedMoves, TypedFields DEF Prepared, Free
<1>6. ASSUME Drop(a) PROVE Vouched'
  BY <1>6, DropMoves, TypedFields, Faulting DEF Drop, Asked, FaultAsked, Free
<1> QED BY <1>1, <1>2, <1>3, <1>4, <1>5, <1>6

(* The word is given with the transition: the steps of connecting, the     *)
(* wait and the fault.                                                     *)
LEMMA VoucherLock ==
    ASSUME Kinds, PlaceInv, Vouched, NEW a \in Actors
    PROVE  Connect(a) \/ BootStopped(a) \/ Posed(a) \/ Confirm(a) \/
           Finalized(a) \/ ClearFault(a) \/ Interrupt(a)
           => Vouched'
<1> USE DEF Vouched, Accepted, Moved, Actors, still, legVars, sampleVars,
        seenVars, flightVars, consoleVars, world
<1>1. ASSUME Connect(a) PROVE Vouched'
  BY <1>1, ConnectMoves, TypedFields, Faulting DEF Connect, Asked, FaultAsked,
       Free
<1>2. ASSUME BootStopped(a) PROVE Vouched'
  BY <1>2, BootStoppedMoves, TypedFields, Granting, Asking, Faulting DEF
       BootStopped, Concludes, Asked, FaultAsked, Free
<1>3. ASSUME Posed(a) PROVE Vouched'
  BY <1>3, PosedMoves, TypedFields, Granting, Asking, Faulting DEF Posed,
       Asked, FaultAsked, Free
<1>4. ASSUME Confirm(a) PROVE Vouched'
  BY <1>4, ConfirmMoves, TypedFields, Faulting DEF Confirm, Advances, Asked,
       FaultAsked, Free
<1>5. ASSUME Finalized(a) PROVE Vouched'
  <2>1. /\ UNCHANGED mode
        /\ \/ opLock' = FALSE
           \/ UNCHANGED <<opLock, change>>
           \/ Accepted("FLIGHT_READY")' /\ Moved(a, "commit", run[a].aim)
    BY <1>5, FinalizedMoves DEF Finalized, Idle, Rest
  <2> QED BY <1>5, <2>1, FinalizedMoves
<1>6. ASSUME ClearFault(a) PROVE Vouched'
  BY <1>6, ClearFaultMoves, TypedFields, Granting, Asking DEF ClearFault,
       Asked, FaultAsked, Free
<1>7. ASSUME Interrupt(a) PROVE Vouched'
  BY <1>7, InterruptMoves, TypedFields, Faulting DEF Interrupt, Asked,
       FaultAsked, Free
<1> QED BY <1>1, <1>2, <1>3, <1>4, <1>5, <1>6, <1>7

(* The word is given with the transition: the steps of the shell.          *)
LEMMA VoucherShell ==
    ASSUME Kinds, PlaceInv, Vouched
    PROVE  (\E cmd \in DOMAIN Offered : Types(cmd)) \/ Declines \/ CtrlC \/
           Signal \/ PromptFails \/ Abandons \/ Close \/ Resumes \/ Closes
           => Vouched'
<1> USE DEF Vouched, Accepted, Moved, Actors, still, legVars, sampleVars,
        seenVars, flightVars, consoleVars, world
<1>1. ASSUME \E cmd \in DOMAIN Offered : Types(cmd) PROVE Vouched'
  <2>1. UNCHANGED <<mode, change, opLock>>
    BY <1>1 DEF Types
  <2> QED BY <1>1, <2>1, ShellMoves
<1>2. ASSUME Declines PROVE Vouched'
  BY <1>2, ShellMoves, TypedFields DEF Declines, Free
<1>3. ASSUME CtrlC PROVE Vouched'
  BY <1>3, ShellMoves, TypedFields DEF CtrlC, Free
<1>4. ASSUME Signal PROVE Vouched'
  BY <1>4, TypedFields DEF Signal, Free
<1>5. ASSUME PromptFails PROVE Vouched'
  BY <1>5, TypedFields DEF PromptFails, handoverVars, Free
<1>6. ASSUME Abandons PROVE Vouched'
  BY <1>6, ShellMoves, TypedFields DEF Abandons, Free
<1>7. ASSUME Close PROVE Vouched'
  BY <1>7, ShellMoves, TypedFields DEF Close, Free
<1>8. ASSUME Resumes PROVE Vouched'
  BY <1>8, TypedFields DEF Resumes, handoverVars, Free
<1>9. ASSUME Closes PROVE Vouched'
  <2>1. UNCHANGED <<mode, change, opLock>>
    BY <1>9 DEF Closes
  <2> QED BY <1>9, <2>1, ShellMoves DEF Rest
<1> QED BY <1>1, <1>2, <1>3, <1>4, <1>5, <1>6, <1>7, <1>8, <1>9

(* The word is given with the transition: the steps of the monitor.        *)
LEMMA VoucherMonitor ==
    ASSUME Kinds, PlaceInv, Vouched
    PROVE  (MayTick /\ TickHalts) \/ (MayTick /\ TickAdvances) \/ (MayTick /\
           TickCommits) \/ (MayTick /\ TickIdles) \/ (\E to \in Mode :
           Raises(to)) \/ Reported
           => Vouched'
<1> USE DEF Vouched, Accepted, Moved, Actors, still, legVars, sampleVars,
        seenVars, flightVars, consoleVars, world
<1>1. ASSUME MayTick /\ TickHalts PROVE Vouched'
  BY <1>1, MonitorMoves, TypedFields, Faulting DEF TickHalts, Halts, Calms,
       Asked, FaultAsked, Free
<1>2. ASSUME MayTick /\ TickAdvances PROVE Vouched'
  BY <1>2, MonitorMoves, TypedFields, Faulting DEF TickAdvances, Advances,
       Asked, FaultAsked, Free
<1>3. ASSUME MayTick /\ TickCommits PROVE Vouched'
  BY <1>3, MonitorMoves, TypedFields, Granting, Asking DEF TickCommits,
       Follow, Consumed, Asked, FaultAsked, Free
<1>4. ASSUME MayTick /\ TickIdles PROVE Vouched'
  BY <1>4, MonitorMoves, TypedFields DEF TickIdles, Follow, Consumed, Free
<1>5. ASSUME \E to \in Mode : Raises(to) PROVE Vouched'
  BY <1>5, MonitorMoves, TypedFields DEF Raises, Follow, Refused, Consumed,
       Free
<1>6. ASSUME Reported PROVE Vouched'
  BY <1>6, MonitorMoves, TypedFields DEF Reported, Free
<1> QED BY <1>1, <1>2, <1>3, <1>4, <1>5, <1>6

(* The word is given with the transition: the steps of the world.          *)
LEMMA VoucherWorld ==
    ASSUME Kinds, PlaceInv, Vouched
    PROVE  Phone \/ Sample \/ OwnerFails \/ Flies \/ WaitElapses \/
           BackElapses
           => Vouched'
<1> USE DEF Vouched, Accepted, Moved, Actors, still, legVars, sampleVars,
        seenVars, flightVars, consoleVars, world
<1>1. ASSUME Phone PROVE Vouched'
  BY <1>1, TypedFields DEF Phone, Free
<1>2. ASSUME Sample PROVE Vouched'
  BY <1>2, TypedFields DEF Sample, Free
<1>3. ASSUME OwnerFails PROVE Vouched'
  BY <1>3, TypedFields DEF OwnerFails, Free
<1>4. ASSUME Flies PROVE Vouched'
  BY <1>4, TypedFields DEF Flies, Free
<1>5. ASSUME WaitElapses PROVE Vouched'
  BY <1>5, TypedFields DEF WaitElapses, Stale, Free
<1>6. ASSUME BackElapses PROVE Vouched'
  BY <1>6, TypedFields DEF BackElapses, Stale, Free
<1> QED BY <1>1, <1>2, <1>3, <1>4, <1>5, <1>6

(* Vouched is kept.                                                        *)
LEMMA VoucherHolds == ConsoleInv /\ [ConsoleNext]_allVars => Vouched'
<1> SUFFICES ASSUME ConsoleInv, [ConsoleNext]_allVars PROVE Vouched'
  OBVIOUS
<1> USE DEF ConsoleInv, CauseInv
<1>1. ASSUME Settles PROVE Vouched'
  BY <1>1, VoucherCommits DEF Settles
<1>2. ASSUME NEW a \in Actors, Proceeds(a) PROVE Vouched'
  BY <1>2, VoucherLegs, VoucherStops, VoucherLock DEF Proceeds
<1>3. ASSUME Shell \/ Closing PROVE Vouched'
  BY <1>3, VoucherShell DEF Shell, Closing
<1>4. ASSUME Ticks \/ (\E to \in Mode : Raises(to)) \/ Reported PROVE Vouched'
  BY <1>4, VoucherMonitor DEF Ticks
<1>5. ASSUME Environment PROVE Vouched'
  BY <1>5, VoucherWorld DEF Environment
<1>6. ASSUME UNCHANGED allVars PROVE Vouched'
  BY <1>6, Stuttering DEF Vouched, Accepted
<1> QED BY <1>1, <1>2, <1>3, <1>4, <1>5, <1>6 DEF ConsoleNext

(* FLIGHT_READY is founded: the steps of transitions.                      *)
LEMMA ReadyCommits ==
    ASSUME Kinds, PlaceInv, Owning, GroundInv, AloneInv, CauseInv
    PROVE  WriteState \/ EntryEnds
           => ReadyIsFounded'
<1> USE DEF Owning, GroundInv, Unowned, SportModes, CauseInv, Believed,
        Vouched, ReadyIsFounded, Fresh, Accepted, LockShown, Pending, Moved,
        Actors, still, legVars, sampleVars, seenVars, flightVars, consoleVars,
        world
<1>1. ASSUME WriteState PROVE ReadyIsFounded'
  BY <1>1, TypedFields DEF WriteState, Idle, Free
<1>2. ASSUME EntryEnds PROVE ReadyIsFounded'
  BY <1>2, TypedFields DEF EntryEnds, EnterBootSafe, EnterWait, EnterReady,
       EnterCompliant, EnterFault, Entered, EntryFails, Idle, Free
<1> QED BY <1>1, <1>2

(* FLIGHT_READY is founded: the steps of taking the legs and giving them   *)
(* back.                                                                   *)
LEMMA ReadyLegs ==
    ASSUME Kinds, PlaceInv, Owning, GroundInv, AloneInv, CauseInv, NEW a \in Actors
    PROVE  Committed(a) \/ Acquire(a) \/ Taken(a) \/ Release(a) \/
           HandsBack(a) \/ Fence(a) \/ Released(a) \/ Authorize(a)
           => ReadyIsFounded'
<1> USE DEF Owning, GroundInv, Unowned, SportModes, CauseInv, Believed,
        Vouched, ReadyIsFounded, Fresh, Accepted, LockShown, Pending, Moved,
        Actors, still, legVars, sampleVars, seenVars, flightVars, consoleVars,
        world
<1>1. ASSUME Committed(a) PROVE ReadyIsFounded'
  BY <1>1, CommittedMoves, TypedFields DEF Committed, Free
<1>2. ASSUME Acquire(a) PROVE ReadyIsFounded'
  BY <1>2, AcquireMoves, TypedFields DEF Acquire, Free
<1>3. ASSUME Taken(a) PROVE ReadyIsFounded'
  BY <1>3, TakenMoves, TypedFields DEF Taken, Free
<1>4. ASSUME Release(a) PROVE ReadyIsFounded'
  BY <1>4, ReleaseMoves, TypedFields DEF Release, Free
<1>5. ASSUME HandsBack(a) PROVE ReadyIsFounded'
  BY <1>5, HandsBackMoves, TypedFields DEF HandsBack, Free
<1>6. ASSUME Fence(a) PROVE ReadyIsFounded'
  BY <1>6, FenceMoves, TypedFields DEF Fence, Free
<1>7. ASSUME Released(a) PROVE ReadyIsFounded'
  <2>1. UNCHANGED <<mode, own, opLock, relocked>>
    BY <1>7 DEF Released
  <2> QED BY <1>7, <2>1, ReleasedMoves DEF Asked, FaultAsked
<1>8. ASSUME Authorize(a) PROVE ReadyIsFounded'
  BY <1>8, AuthorizeMoves, TypedFields DEF Authorize, Free
<1> QED BY <1>1, <1>2, <1>3, <1>4, <1>5, <1>6, <1>7, <1>8

(* FLIGHT_READY is founded: the steps of stopping and leaving.             *)
LEMMA ReadyStops ==
    ASSUME Kinds, PlaceInv, Owning, GroundInv, AloneInv, CauseInv, NEW a \in Actors
    PROVE  Stop(a) \/ StopMoved(a) \/ StopReturns(a) \/ Prepare(a) \/
           Prepared(a) \/ Drop(a)
           => ReadyIsFounded'
<1> USE DEF Owning, GroundInv, Unowned, SportModes, CauseInv, Believed,
        Vouched, ReadyIsFounded, Fresh, Accepted, LockShown, Pending, Moved,
        Actors, still, legVars, sampleVars, seenVars, flightVars, consoleVars,
        world
<1>1. ASSUME Stop(a) PROVE ReadyIsFounded'
  BY <1>1, StopMoves, TypedFields, Faulting DEF Stop, Halts, Calms, Asked,
       FaultAsked, Free
<1>2. ASSUME StopMoved(a) PROVE ReadyIsFounded'
  BY <1>2, StopMovedMoves, TypedFields, Faulting DEF StopMoved, Asked,
       FaultAsked, Free
<1>3. ASSUME StopReturns(a) PROVE ReadyIsFounded'
  BY <1>3, StopReturnsMoves, TypedFields, Faulting DEF StopReturns, Asked,
       FaultAsked, Free
<1>4. ASSUME Prepare(a) PROVE ReadyIsFounded'
  BY <1>4, PrepareMoves, TypedFields, Granting, Asking DEF Prepare, Asked,
       FaultAsked, Free
<1>5. ASSUME Prepared(a) PROVE ReadyIsFounded'
  BY <1>5, PreparedMoves, TypedFields DEF Prepared, Free
<1>6. ASSUME Drop(a) PROVE ReadyIsFounded'
  BY <1>6, DropMoves, TypedFields, Faulting DEF Drop, Asked, FaultAsked, Free
<1> QED BY <1>1, <1>2, <1>3, <1>4, <1>5, <1>6

(* FLIGHT_READY is founded: the steps of connecting, the wait and the      *)
(* fault.                                                                  *)
LEMMA ReadyLock ==
    ASSUME Kinds, PlaceInv, Owning, GroundInv, AloneInv, CauseInv, NEW a \in Actors
    PROVE  Connect(a) \/ BootStopped(a) \/ Posed(a) \/ Confirm(a) \/
           Finalized(a) \/ ClearFault(a) \/ Interrupt(a)
           => ReadyIsFounded'
<1> USE DEF Owning, GroundInv, Unowned, SportModes, CauseInv, Believed,
        Vouched, ReadyIsFounded, Fresh, Accepted, LockShown, Pending, Moved,
        Actors, still, legVars, sampleVars, seenVars, flightVars, consoleVars,
        world
<1>1. ASSUME Connect(a) PROVE ReadyIsFounded'
  BY <1>1, ConnectMoves, TypedFields, Faulting DEF Connect, Asked, FaultAsked,
       Free
<1>2. ASSUME BootStopped(a) PROVE ReadyIsFounded'
  <2>1. UNCHANGED <<mode, own, opLock, relocked>>
    BY <1>2 DEF BootStopped
  <2> QED BY <1>2, <2>1, BootStoppedMoves DEF Asked, FaultAsked
<1>3. ASSUME Posed(a) PROVE ReadyIsFounded'
  BY <1>3, PosedMoves, TypedFields, Granting, Asking, Faulting DEF Posed,
       Asked, FaultAsked, Free
<1>4. ASSUME Confirm(a) PROVE ReadyIsFounded'
  BY <1>4, ConfirmMoves, TypedFields, Faulting DEF Confirm, Advances, Asked,
       FaultAsked, Free
<1>5. ASSUME Finalized(a) PROVE ReadyIsFounded'
  BY <1>5, FinalizedMoves, TypedFields, Faulting DEF Finalized, Idle, Asked,
       FaultAsked, Free
<1>6. ASSUME ClearFault(a) PROVE ReadyIsFounded'
  BY <1>6, ClearFaultMoves, TypedFields, Granting, Asking DEF ClearFault,
       Asked, FaultAsked, Free
<1>7. ASSUME Interrupt(a) PROVE ReadyIsFounded'
  BY <1>7, InterruptMoves, TypedFields, Faulting DEF Interrupt, Asked,
       FaultAsked, Free
<1> QED BY <1>1, <1>2, <1>3, <1>4, <1>5, <1>6, <1>7

(* FLIGHT_READY is founded: the steps of the shell.                        *)
LEMMA ReadyShell ==
    ASSUME Kinds, PlaceInv, Owning, GroundInv, AloneInv, CauseInv
    PROVE  (\E cmd \in DOMAIN Offered : Types(cmd)) \/ Declines \/ CtrlC \/
           Signal \/ PromptFails \/ Abandons \/ Close \/ Resumes \/ Closes
           => ReadyIsFounded'
<1> USE DEF Owning, GroundInv, Unowned, SportModes, CauseInv, Believed,
        Vouched, ReadyIsFounded, Fresh, Accepted, LockShown, Pending, Moved,
        Actors, still, legVars, sampleVars, seenVars, flightVars, consoleVars,
        world
<1>1. ASSUME \E cmd \in DOMAIN Offered : Types(cmd) PROVE ReadyIsFounded'
  <2>1. UNCHANGED <<mode, change, own, opLock, relocked>>
    BY <1>1 DEF Types
  <2> QED BY <1>1, <2>1, ShellMoves
<1>2. ASSUME Declines PROVE ReadyIsFounded'
  BY <1>2, ShellMoves, TypedFields DEF Declines, Free
<1>3. ASSUME CtrlC PROVE ReadyIsFounded'
  BY <1>3, ShellMoves, TypedFields DEF CtrlC, Free
<1>4. ASSUME Signal PROVE ReadyIsFounded'
  BY <1>4, TypedFields DEF Signal, Free
<1>5. ASSUME PromptFails PROVE ReadyIsFounded'
  BY <1>5, TypedFields DEF PromptFails, handoverVars, Free
<1>6. ASSUME Abandons PROVE ReadyIsFounded'
  BY <1>6, ShellMoves, TypedFields DEF Abandons, Free
<1>7. ASSUME Close PROVE ReadyIsFounded'
  BY <1>7, ShellMoves, TypedFields DEF Close, Free
<1>8. ASSUME Resumes PROVE ReadyIsFounded'
  BY <1>8, TypedFields DEF Resumes, handoverVars, Free
<1>9. ASSUME Closes PROVE ReadyIsFounded'
  <2>1. UNCHANGED <<mode, change, own, opLock, relocked>>
    BY <1>9 DEF Closes
  <2> QED BY <1>9, <2>1, ShellMoves DEF Rest
<1> QED BY <1>1, <1>2, <1>3, <1>4, <1>5, <1>6, <1>7, <1>8, <1>9

(* FLIGHT_READY is founded: the steps of the monitor.                      *)
LEMMA ReadyMonitor ==
    ASSUME Kinds, PlaceInv, Owning, GroundInv, AloneInv, CauseInv
    PROVE  (MayTick /\ TickHalts) \/ (MayTick /\ TickAdvances) \/ (MayTick /\
           TickCommits) \/ (MayTick /\ TickIdles) \/ (\E to \in Mode :
           Raises(to)) \/ Reported
           => ReadyIsFounded'
<1> USE DEF Owning, GroundInv, Unowned, SportModes, CauseInv, Believed,
        Vouched, ReadyIsFounded, Fresh, Accepted, LockShown, Pending, Moved,
        Actors, still, legVars, sampleVars, seenVars, flightVars, consoleVars,
        world
<1>1. ASSUME MayTick /\ TickHalts PROVE ReadyIsFounded'
  BY <1>1, MonitorMoves, TypedFields, Faulting DEF TickHalts, Halts, Calms,
       Asked, FaultAsked, Free
<1>2. ASSUME MayTick /\ TickAdvances PROVE ReadyIsFounded'
  BY <1>2, MonitorMoves, TypedFields, Faulting DEF TickAdvances, Advances,
       Asked, FaultAsked, Free
<1>3. ASSUME MayTick /\ TickCommits PROVE ReadyIsFounded'
  <2>1. Asked(Wanted) /\ UNCHANGED <<mode, own, opLock, relocked>>
    BY <1>3, Asking DEF TickCommits
  <2>2. CASE Wanted # "FLIGHT_READY"
    BY <2>1, <2>2 DEF Asked
  <2>3. CASE Wanted = "FLIGHT_READY"
    <3>1. mode = "FLIGHT_MANUAL"
      BY <2>3 DEF Wanted, EarlyDisarm
    <3>2. enabled => Auth = "hold"
      BY <1>3, <3>1 DEF TickCommits, Follow, Escalates, OwnerMissing
    <3>3. enabled => Auth = "lock"
      BY <2>1, <2>3 DEF Asked, Guard, ReadyGuard, LockHeld
    <3> QED BY <2>1, <3>2, <3>3
  <2> QED BY <2>2, <2>3
<1>4. ASSUME MayTick /\ TickIdles PROVE ReadyIsFounded'
  BY <1>4, MonitorMoves, TypedFields DEF TickIdles, Follow, Consumed, Free
<1>5. ASSUME \E to \in Mode : Raises(to) PROVE ReadyIsFounded'
  BY <1>5, MonitorMoves, TypedFields DEF Raises, Follow, Refused, Consumed,
       Free
<1>6. ASSUME Reported PROVE ReadyIsFounded'
  BY <1>6, MonitorMoves, TypedFields DEF Reported, Free
<1> QED BY <1>1, <1>2, <1>3, <1>4, <1>5, <1>6

(* FLIGHT_READY is founded: the steps of the world.                        *)
LEMMA ReadyWorld ==
    ASSUME Kinds, PlaceInv, Owning, GroundInv, AloneInv, CauseInv
    PROVE  Phone \/ Sample \/ OwnerFails \/ Flies \/ WaitElapses \/
           BackElapses
           => ReadyIsFounded'
<1> USE DEF Owning, GroundInv, Unowned, SportModes, CauseInv, Believed,
        Vouched, ReadyIsFounded, Fresh, Accepted, LockShown, Pending, Moved,
        Actors, still, legVars, sampleVars, seenVars, flightVars, consoleVars,
        world
<1>1. ASSUME Phone PROVE ReadyIsFounded'
  BY <1>1, TypedFields DEF Phone, Free
<1>2. ASSUME Sample PROVE ReadyIsFounded'
  BY <1>2, TypedFields DEF Sample, Free
<1>3. ASSUME OwnerFails PROVE ReadyIsFounded'
  BY <1>3, TypedFields DEF OwnerFails, Free
<1>4. ASSUME Flies PROVE ReadyIsFounded'
  BY <1>4, TypedFields DEF Flies, Free
<1>5. ASSUME WaitElapses PROVE ReadyIsFounded'
  BY <1>5, TypedFields DEF WaitElapses, Stale, Free
<1>6. ASSUME BackElapses PROVE ReadyIsFounded'
  BY <1>6, TypedFields DEF BackElapses, Stale, Free
<1> QED BY <1>1, <1>2, <1>3, <1>4, <1>5, <1>6

(* ReadyIsFounded is kept, whoever asks for FLIGHT_READY.                  *)
LEMMA ReadyHolds == ConsoleInv /\ [ConsoleNext]_allVars => ReadyIsFounded'
<1> SUFFICES ASSUME ConsoleInv, [ConsoleNext]_allVars PROVE ReadyIsFounded'
  OBVIOUS
<1> USE DEF ConsoleInv
<1>1. ASSUME Settles PROVE ReadyIsFounded'
  BY <1>1, ReadyCommits DEF Settles
<1>2. ASSUME NEW a \in Actors, Proceeds(a) PROVE ReadyIsFounded'
  BY <1>2, ReadyLegs, ReadyStops, ReadyLock DEF Proceeds
<1>3. ASSUME Shell \/ Closing PROVE ReadyIsFounded'
  BY <1>3, ReadyShell DEF Shell, Closing
<1>4. ASSUME Ticks \/ (\E to \in Mode : Raises(to)) \/ Reported PROVE ReadyIsFounded'
  BY <1>4, ReadyMonitor DEF Ticks
<1>5. ASSUME Environment PROVE ReadyIsFounded'
  BY <1>5, ReadyWorld DEF Environment
<1>6. ASSUME UNCHANGED allVars PROVE ReadyIsFounded'
  BY <1>6, Stuttering DEF CauseInv, ReadyIsFounded, Accepted, Pending
<1> QED BY <1>1, <1>2, <1>3, <1>4, <1>5, <1>6 DEF ConsoleNext

-----------------------------------------------------------------------------
(* The invariant of the console and the manager behind it.                 *)
LEMMA ConsoleStarts == ConsoleInit => ConsoleInv
<1> SUFFICES ASSUME ConsoleInit PROVE ConsoleInv
  OBVIOUS
<1> USE DEF ConsoleInit, HandoverInit
<1>1. Kinds
  BY DEF Kinds, ChangeOK, Idle, Mode
<1>2. PlaceInv
  BY DEF PlaceInv, Runs, Rest, Stage, ShellAims, MonitorAims, ShellAt, MonitorAt, Actors
<1>3. run["shell"].pc = "idle" /\ run["monitor"].pc = "idle" /\ change.pc = "none" /\ ~Pending
  BY DEF Rest, Actors, Idle, Pending
<1>4. Owning
  BY <1>3 DEF Owning
<1>5. LegsStayHeld
  BY DEF LegsStayHeld, Armed
<1>6. GroundInv
  BY <1>3 DEF GroundInv, Sources, Unowned, Accepted
<1>7. AloneInv
  BY <1>3 DEF AloneInv, SportIsAlone, Left, NoOrphan
<1>8. CauseInv
  BY <1>3 DEF CauseInv, Believed, Vouched, ReadyIsFounded, Accepted, Coming
<1> QED BY <1>1, <1>2, <1>4, <1>5, <1>6, <1>7, <1>8 DEF ConsoleInv

LEMMA ConsoleStep == ConsoleInv /\ [ConsoleNext]_allVars => ConsoleInv'
  BY KindsHold, PlacesHold, OwningHolds, HeldHolds, GroundHolds, AloneHolds, BeliefHolds,
     VoucherHolds, ReadyHolds DEF ConsoleInv, CauseInv

LEMMA ConsoleInvariant == ConsoleSpec => []ConsoleInv
<1>1. ConsoleInit => ConsoleInv
  BY ConsoleStarts
<1>2. ConsoleInv /\ [ConsoleNext]_allVars => ConsoleInv'
  BY ConsoleStep
<1> QED BY <1>1, <1>2, PTL DEF ConsoleSpec

(* With LowCmd configured, rotors are armed, or may arm, only while the    *)
(* owner has the legs or failed holding them (Release closes the gate      *)
(* before the owner lets go, Authorize opens it only for an owner that     *)
(* holds): LegsStayHeld, for every interleaving of shell and monitor.      *)
THEOREM LegsHeld == ConsoleSpec => []LegsStayHeld
<1>1. ConsoleInv => LegsStayHeld
  BY DEF ConsoleInv
<1> QED BY <1>1, ConsoleInvariant, PTL

(* Sport is never spoken to while an owner is pending, and a console that  *)
(* closed left no owner and no connected device behind: OwnerIsKept.       *)
THEOREM OwnerKept == ConsoleSpec => []OwnerIsKept
<1>1. ConsoleInv => OwnerIsKept
  BY DEF ConsoleInv, AloneInv, OwnerIsKept
<1> QED BY <1>1, ConsoleInvariant, PTL

(* Only the writing of a state moves the state machine.                    *)
LEMMA OnlyWritten == [ConsoleNext]_allVars /\ mode' # mode => WriteState
<1> SUFFICES ASSUME [ConsoleNext]_allVars, ~WriteState PROVE mode' = mode
  OBVIOUS
<1> USE DEF still, world
<1>1. ASSUME Settles PROVE mode' = mode
  BY <1>1 DEF Settles, EntryEnds
<1>2. ASSUME NEW a \in Actors, Proceeds(a) PROVE mode' = mode
  BY <1>2 DEF Proceeds, Committed, Acquire, Taken, Release, HandsBack, Fence, Released,
     Authorize, Stop, StopMoved, StopReturns, Prepare, Prepared, Drop, Connect, BootStopped,
     Posed, Confirm, Finalized, ClearFault, Interrupt
<1>3. ASSUME Shell \/ Closing PROVE mode' = mode
  BY <1>3 DEF Shell, Closing, Types, Declines, CtrlC, Signal, PromptFails, Abandons, Close,
     Resumes, Closes, handoverVars
<1>4. ASSUME Ticks \/ (\E to \in Mode : Raises(to)) \/ Reported PROVE mode' = mode
  BY <1>4 DEF Ticks, TickHalts, TickAdvances, TickCommits, TickIdles, Raises, Reported
<1>5. ASSUME Environment PROVE mode' = mode
  BY <1>5 DEF Environment, Phone, Sample, OwnerFails, Flies, WaitElapses, BackElapses
<1>6. ASSUME UNCHANGED allVars PROVE mode' = mode
  BY <1>6 DEF allVars, handoverVars
<1> QED BY <1>1, <1>2, <1>3, <1>4, <1>5, <1>6 DEF ConsoleNext

(* FLIGHT_READY is entered on telemetry only if the legs were locked since *)
(* the owner gave them back: LockIsCausal.                                 *)
THEOREM LockCausal == ConsoleSpec => LockIsCausal
<1>1. ConsoleInv /\ [ConsoleNext]_allVars => [EntersReady => relocked]_allVars
  <2> SUFFICES ASSUME ConsoleInv, [ConsoleNext]_allVars, EntersReady PROVE relocked
    OBVIOUS
  <2>1. WriteState
    BY OnlyWritten DEF EntersReady
  <2>2. Accepted("FLIGHT_READY") /\ mode # "FLIGHT_READY" /\ ~opLock
    BY <2>1 DEF WriteState, EntersReady, Accepted
  <2> QED BY <2>2 DEF ConsoleInv, CauseInv, ReadyIsFounded
<1> QED BY <1>1, ConsoleInvariant, PTL DEF ConsoleSpec, LockIsCausal

=============================================================================
