----------------------- MODULE PendingActions_proofs -----------------------
(***************************************************************************)
(* Proofs about PendingActions, for any set of actions, any number of taps *)
(* and restarts and any choice of faults.                                  *)
(***************************************************************************)
EXTENDS PendingActions, FiniteSetTheorems, SequenceTheorems, TLAPS

\* What the task's place says of the action it works on: between the look at
\* the row and the UPDATE only the expiry loop can have touched it.
Phases ==
  /\ current \in Actions <=> pc # "idle"
  /\ pc \in {"post", "confirm", "cancel", "edit"} =>
       status[current] \in {"pending", "expired"} /\ effect[current] = "none"
  /\ pc \in {"execute", "record"} => status[current] = "confirmed"
  /\ pc = "execute" => effect[current] = "none" /\ current \notin missing
  /\ pc = "record" => effect[current] # "none"
  /\ pc \in {"canceled", "edited"} /\ current \notin uncanceled =>
       status[current] \in {"canceled", "expired"} /\ effect[current] = "none"

\* Only what is confirmed has run.
RanAfterApproval == \A a \in Actions : effect[a] # "none" \/ a \in missing => status[a] = "confirmed"

\* Nothing is said of an action that waits, unless its cancel failed, and a
\* note stands for good.
NotesAfterEnd ==
  \A a \in Actions : notes[a] # {} =>
    a \in uncanceled \/ status[a] \in {"confirmed", "canceled", "expired"}

\* A keyboard is of an action that was proposed.
ShownExists == \A a \in keyboard \union due : status[a] # "none"

\* The inductive invariant.
IInv ==
  /\ TypeOK
  /\ Phases
  /\ RanAfterApproval
  /\ NotesAfterEnd
  /\ ShownExists
  /\ NotesAreTrue

\* The inductive invariant holds of no action.
LEMMA InitInv == Init => IInv
<1> SUFFICES ASSUME Init PROVE IInv
  OBVIOUS
<1> USE ConfirmAssumption, NoActionAssumption DEF Init
<1>1. TypeOK
  BY DEF TypeOK, Statuses, PCs, Effects, NoteKinds
<1>2. Phases /\ RanAfterApproval /\ NotesAfterEnd /\ ShownExists /\ NotesAreTrue
  BY DEF Phases, RanAfterApproval, NotesAfterEnd, ShownExists, NotesAreTrue
<1> QED
  BY <1>1, <1>2 DEF IInv

\* Every step preserves the inductive invariant.
LEMMA StepInv == IInv /\ [Next]_vars => IInv'
<1> SUFFICES ASSUME IInv, [Next]_vars PROVE IInv'
  OBVIOUS
<1> USE ConfirmAssumption, NoActionAssumption
        DEF IInv, TypeOK, Phases, RanAfterApproval, NotesAfterEnd, ShownExists, NotesAreTrue,
            Statuses, PCs, Effects, NoteKinds, Buttons, Goto, Rest, worker, log
<1>1. ASSUME NEW a \in Actions, enqueue(a) PROVE IInv'
  BY <1>1 DEF enqueue
<1>2. CASE maybe_post_keyboard
  BY <1>2 DEF maybe_post_keyboard
<1>3. ASSUME NEW a \in Actions, NEW b \in Buttons, Tap(a, b) PROVE IInv'
  <2>1. taps' \in Seq(Buttons \X Actions) /\ Len(taps') = Len(taps) + 1
    BY <1>3, AppendProperties DEF Tap
  <2>2. Len(taps') <= MaxTaps
    BY <1>3, <2>1, LenProperties DEF Tap
  <2> QED
    BY <1>3, <2>1, <2>2 DEF Tap
<1>4. CASE handle_callback_query
  <2>1. Head(taps) \in Buttons \X Actions /\ taps' \in Seq(Buttons \X Actions) /\ Len(taps') = Len(taps) - 1
    BY <1>4, HeadTailProperties DEF handle_callback_query
  <2>2. Len(taps') <= MaxTaps
    BY <2>1, LenProperties
  <2>3. PICK b \in Buttons, a \in Actions : Head(taps) = <<b, a>>
    BY <2>1
  <2> QED
    BY <1>4, <2>1, <2>2, <2>3 DEF handle_callback_query
<1>5. CASE resume_confirmed
  <2>1. CASE UNCHANGED status /\ Rest
    BY <1>5, <2>1 DEF resume_confirmed
  <2>2. CASE /\ resolve(current, "confirmed")
             /\ IF status[current] = "pending" THEN Goto("execute", current) ELSE Rest
    BY <1>5, <2>2 DEF resume_confirmed, resolve
  <2> QED
    BY <1>5, <2>1, <2>2 DEF resume_confirmed
<1>6. CASE ToolMissing
  BY <1>6 DEF ToolMissing
<1>7. CASE execute
  BY <1>7 DEF execute
<1>8. CASE record_resolution
  BY <1>8 DEF record_resolution, Note
<1>9. CASE continue_after_confirm
  BY <1>9 DEF continue_after_confirm
<1>10. CASE handle_cancel
  <2>1. CASE resolve(current, "canceled") /\ UNCHANGED uncanceled
    BY <1>10, <2>1 DEF handle_cancel, resolve
  <2>2. CASE uncanceled' = uncanceled \union {current} /\ UNCHANGED status
    BY <1>10, <2>2 DEF handle_cancel
  <2> QED
    BY <1>10, <2>1, <2>2 DEF handle_cancel
<1>11. CASE NoteCanceled
  BY SMTT(30), <1>11 DEF NoteCanceled, Note
<1>12. ASSUME NEW a \in Actions, BecomeDue(a) PROVE IInv'
  BY <1>12 DEF BecomeDue
<1>13. CASE expire_stale
  BY <1>13 DEF expire_stale
<1>14. CASE sweep_pending_actions
  BY <1>14 DEF sweep_pending_actions
<1>15. CASE Restart
  BY <1>15 DEF Restart
<1>16. CASE UNCHANGED vars
  BY <1>16 DEF vars
<1> QED
  BY <1>1, <1>2, <1>3, <1>4, <1>5, <1>6, <1>7, <1>8, <1>9, <1>10, <1>11, <1>12, <1>13, <1>14,
     <1>15, <1>16 DEF Next, Work

\* The inductive invariant holds in every reachable state.
LEMMA Invariance == Spec => []IInv
  BY InitInv, StepInv, PTL DEF Spec

\* Every state is well typed.
THEOREM TypeCorrect == Spec => []TypeOK
<1>1. IInv => TypeOK
  BY DEF IInv
<1> QED
  BY <1>1, Invariance, PTL

\* What the session says of an action is what happened to it, also when the
\* expiry loop resolves the row while a tap is handled (handle_cancel writes
\* its note whether or not its UPDATE found the row pending), unless that
\* UPDATE failed.
THEOREM NotesTrue == Spec => []NotesAreTrue
<1>1. IInv => NotesAreTrue
  BY DEF IInv
<1> QED
  BY <1>1, Invariance, PTL

\* An approved action is left unrun only by a restart, which leaves the one
\* the task was about to run.
LEMMA UnrunStep ==
  ASSUME IInv, [Next]_vars
  PROVE  \/ Unrun' = Unrun /\ restarts' = restarts
         \/ Unrun' = Unrun /\ restarts' = restarts + 1
         \/ Unrun' = Unrun \union {current} /\ restarts' = restarts + 1
<1> USE ConfirmAssumption, NoActionAssumption
        DEF IInv, TypeOK, Phases, RanAfterApproval, Unrun, Statuses, PCs, Effects, Buttons,
            Goto, Rest, worker, log
<1>1. ASSUME NEW a \in Actions, enqueue(a) PROVE Unrun' = Unrun /\ restarts' = restarts
  BY <1>1 DEF enqueue
<1>2. CASE maybe_post_keyboard \/ record_resolution \/ continue_after_confirm \/ NoteCanceled
  BY <1>2 DEF maybe_post_keyboard, record_resolution, continue_after_confirm, NoteCanceled
<1>3. ASSUME NEW a \in Actions, BecomeDue(a) \/ \E b \in Buttons : Tap(a, b)
      PROVE Unrun' = Unrun /\ restarts' = restarts
  BY <1>3 DEF BecomeDue, Tap
<1>4. CASE handle_callback_query
  <2>1. Head(taps) \in Buttons \X Actions
    BY <1>4, HeadTailProperties DEF handle_callback_query
  <2>2. PICK b \in Buttons, a \in Actions : Head(taps) = <<b, a>>
    BY <2>1
  <2> QED
    BY <1>4, <2>2 DEF handle_callback_query
<1>5. CASE resume_confirmed
  BY <1>5 DEF resume_confirmed, resolve
<1>6. CASE ToolMissing \/ execute
  BY <1>6 DEF ToolMissing, execute
<1>7. CASE handle_cancel
  BY <1>7 DEF handle_cancel, resolve
<1>8. CASE expire_stale \/ sweep_pending_actions \/ UNCHANGED vars
  BY <1>8 DEF expire_stale, sweep_pending_actions, vars
<1>9. CASE Restart
  BY <1>9 DEF Restart
<1> QED
  BY <1>1, <1>2, <1>3, <1>4, <1>5, <1>6, <1>7, <1>8, <1>9 DEF Next, Work

\* At most one approved action is left unrun for each restart.
THEOREM LostByRestart == Spec => []LostOnlyByRestart
<1> DEFINE Bounded == IsFiniteSet(Unrun) /\ Cardinality(Unrun) <= restarts
<1>1. Init => Bounded
  <2> SUFFICES ASSUME Init PROVE Bounded
    OBVIOUS
  <2>1. Unrun = {} /\ restarts = 0
    BY DEF Init, Unrun
  <2> QED
    BY <2>1, FS_EmptySet
<1>2. IInv /\ IInv' /\ Bounded /\ [Next]_vars => Bounded'
  <2> SUFFICES ASSUME IInv, IInv', Bounded, [Next]_vars PROVE Bounded'
    OBVIOUS
  <2>1. restarts \in Nat /\ restarts' \in Nat /\ Cardinality(Unrun) \in Nat
    BY ConfirmAssumption, FS_CardinalityType DEF IInv, TypeOK
  <2>2. /\ IsFiniteSet(Unrun \union {current})
        /\ Cardinality(Unrun \union {current}) <= Cardinality(Unrun) + 1
    BY <2>1, FS_AddElement
  <2>3. \/ Unrun' = Unrun /\ restarts' = restarts
        \/ Unrun' = Unrun /\ restarts' = restarts + 1
        \/ Unrun' = Unrun \union {current} /\ restarts' = restarts + 1
    BY UnrunStep
  <2>4. CASE Unrun' = Unrun
    BY <2>1, <2>3, <2>4
  <2>5. CASE Unrun' = Unrun \union {current} /\ restarts' = restarts + 1
    <3>1. Cardinality(Unrun \union {current}) \in Nat
      BY <2>2, FS_CardinalityType
    <3> QED
      BY <2>1, <2>2, <2>5, <3>1
  <2> QED
    BY <2>3, <2>4, <2>5
<1>3. Bounded => LostOnlyByRestart
  BY DEF LostOnlyByRestart
<1> QED
  BY <1>1, <1>2, <1>3, Invariance, PTL DEF Spec

\* Moving one action's stage is a move of the approval.
LEMMA MoveOne ==
  ASSUME NEW a \in Actions, NEW from, NEW to,
         StageOf(a) = from, StageOf(a)' = to,
         \A b \in Actions \ {a} : StageOf(b)' = StageOf(b)
  PROVE  Confirmation!Moves(from, to, {a})
BY DEF Confirmation!Moves

\* What a step makes of the stages is a step of the approval.
LEMMA ApprovalStep ==
  ASSUME IInv, [Next]_vars
  PROVE  [Confirmation!Next]_([a \in Actions |-> StageOf(a)])
<1> DEFINE stage == [a \in Actions |-> StageOf(a)]
<1> USE ConfirmAssumption, NoActionAssumption
        DEF IInv, TypeOK, Phases, RanAfterApproval, Statuses, PCs, Effects, Buttons,
            Goto, Rest, worker, log
<1>1. ASSUME NEW a \in Actions, enqueue(a) PROVE Confirmation!Next
  <2>1. StageOf(a) = "none" /\ StageOf(a)' = "proposed"
    BY <1>1 DEF enqueue, StageOf
  <2>2. \A b \in Actions \ {a} : StageOf(b)' = StageOf(b)
    BY <1>1 DEF enqueue, StageOf
  <2> QED
    BY <2>1, <2>2, MoveOne DEF Confirmation!Next, Confirmation!Propose
<1>2. CASE resume_confirmed
  <2>1. CASE UNCHANGED status \/ status[current] # "pending"
    <3>1. UNCHANGED <<status, effect>>
      BY <1>2, <2>1 DEF resume_confirmed, resolve
    <3> QED
      BY <3>1 DEF StageOf
  <2>2. CASE ~UNCHANGED status /\ status[current] = "pending"
    <3>1. PICK a \in Actions : a = current
      BY <1>2 DEF resume_confirmed
    <3>2. StageOf(a) = "proposed" /\ StageOf(a)' = "approved"
      BY <1>2, <2>2, <3>1 DEF resume_confirmed, resolve, StageOf
    <3>3. \A b \in Actions \ {a} : StageOf(b)' = StageOf(b)
      BY <1>2, <2>2, <3>1 DEF resume_confirmed, resolve, StageOf
    <3> QED
      BY <3>2, <3>3, MoveOne DEF Confirmation!Next, Confirmation!Approve
  <2> QED
    BY <2>1, <2>2
<1>3. CASE execute
  <2>1. PICK a \in Actions : a = current
    BY <1>3 DEF execute
  <2>2. StageOf(a) = "approved" /\ StageOf(a)' = "executed"
    BY <1>3, <2>1 DEF execute, StageOf
  <2>3. \A b \in Actions \ {a} : StageOf(b)' = StageOf(b)
    BY <1>3, <2>1 DEF execute, StageOf
  <2> QED
    BY <2>2, <2>3, MoveOne DEF Confirmation!Next, Confirmation!Execute
<1>4. CASE handle_cancel
  <2>1. CASE UNCHANGED status \/ status[current] # "pending"
    <3>1. UNCHANGED <<status, effect>>
      BY <1>4, <2>1 DEF handle_cancel, resolve
    <3> QED
      BY <3>1 DEF StageOf
  <2>2. CASE ~UNCHANGED status /\ status[current] = "pending"
    <3>1. PICK a \in Actions : a = current
      BY <1>4 DEF handle_cancel
    <3>2. StageOf(a) = "proposed" /\ StageOf(a)' = "dropped"
      BY <1>4, <2>2, <3>1 DEF handle_cancel, resolve, StageOf
    <3>3. \A b \in Actions \ {a} : StageOf(b)' = StageOf(b)
      BY <1>4, <2>2, <3>1 DEF handle_cancel, resolve, StageOf
    <3> QED
      BY <3>2, <3>3, MoveOne DEF Confirmation!Next, Confirmation!Drop
  <2> QED
    BY <2>1, <2>2
<1>5. CASE expire_stale
  <2>1. PICK S \in SUBSET Actions : S = {a \in Actions : status[a] = "pending" /\ a \in due}
    OBVIOUS
  <2>2. \A a \in S : StageOf(a) = "proposed" /\ StageOf(a)' = "dropped"
    BY <1>5, <2>1 DEF expire_stale, StageOf
  <2>3. \A a \in Actions \ S : StageOf(a)' = StageOf(a)
    BY <1>5, <2>1 DEF expire_stale, StageOf
  <2>4. Confirmation!Moves("proposed", "dropped", S)
    BY <2>2, <2>3 DEF Confirmation!Moves
  <2> QED
    BY <2>4 DEF Confirmation!Next, Confirmation!Drop
<1>6. CASE \/ maybe_post_keyboard \/ handle_callback_query \/ record_resolution
           \/ continue_after_confirm \/ NoteCanceled \/ ToolMissing
           \/ sweep_pending_actions \/ Restart \/ UNCHANGED vars
  BY <1>6 DEF maybe_post_keyboard, handle_callback_query, record_resolution, continue_after_confirm,
     NoteCanceled, ToolMissing, sweep_pending_actions, Restart, vars, StageOf
<1>7. ASSUME NEW a \in Actions, BecomeDue(a) \/ \E b \in Buttons : Tap(a, b) PROVE UNCHANGED stage
  BY <1>7 DEF BecomeDue, Tap, StageOf
<1> QED
  BY <1>1, <1>2, <1>3, <1>4, <1>5, <1>6, <1>7 DEF Next, Work

\* The confirmations implement approval: a tool runs at most once and only
\* after its action was confirmed, and what was canceled or has expired never
\* runs, whatever taps are repeated and wherever the process restarts.
THEOREM ImplementsApproval == Spec => ApprovalSpec
<1>1. Init => Confirmation!Init
  BY DEF Init, Confirmation!Init, StageOf
<1>2. IInv /\ [Next]_vars => [Confirmation!Next]_([a \in Actions |-> StageOf(a)])
  BY ApprovalStep
<1> QED
  BY <1>1, <1>2, Invariance, PTL DEF Spec, ApprovalSpec, Confirmation!Spec
=============================================================================
