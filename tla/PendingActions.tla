--------------------------- MODULE PendingActions ---------------------------
(***************************************************************************)
(* The assistant's confirmations.  A turn that wants a tool confirmed      *)
(* writes a row of pending_actions and posts a keyboard to the chat.  The  *)
(* taps arrive in a queue in memory and one task handles them in order;    *)
(* meanwhile the expiry loop and the retention sweep write the same rows,  *)
(* and the process may restart between any two steps.                      *)
(*                                                                         *)
(* A keyboard is posted in the chat that queued its action, so the check   *)
(* of the chat always holds and chats are left out.  A turn is one step up *)
(* to the row it inserts.                                                  *)
(***************************************************************************)
EXTENDS Integers, Sequences, FiniteSets

CONSTANTS
  Actions,       \* the actions that may be proposed
  MaxTaps,       \* bound: taps waiting in the queue
  MaxRestarts,   \* bound: restarts of the process
  Faults         \* which of AllFaults may happen

AllFaults == {"post", "tool", "note", "resolve"}
ASSUME ConfirmAssumption ==
  MaxTaps \in Nat /\ MaxRestarts \in Nat /\ Faults \subseteq AllFaults

NoAction == "no action"
ASSUME NoActionAssumption == NoAction \notin Actions

VARIABLES
  status,     \* status of each row
  swept,      \* the rows the retention sweep deleted
  due,        \* the actions past expires_at
  keyboard,   \* the actions whose keyboard is in the chat
  taps,       \* the taps that wait, oldest first
  pc,         \* where the task that handles them is
  current,    \* the action it works on
  effect,     \* what running the action's tool came to
  missing,    \* the approved actions whose tool the registry did not have
  notes,      \* what the chat's session says of each action
  uncanceled, \* the actions of which a cancel's UPDATE failed
  restarts    \* restarts so far

vars == <<status, swept, due, keyboard, taps, pc, current, effect, missing, notes, uncanceled, restarts>>
worker == <<pc, current>>
log == <<effect, missing, notes, uncanceled>>

Buttons == {"confirm", "cancel", "edit"}
Statuses == {"none", "pending", "confirmed", "canceled", "expired"}
PCs == {"idle", "post", "confirm", "cancel", "edit", "execute", "record", "canceled", "edited", "continue"}
Effects == {"none", "done", "refused", "failed"}
NoteKinds == {"done", "refused", "failed", "canceled", "edit"}

Fails(f) == f \in Faults
Goto(l, a) == pc' = l /\ current' = a
Rest == Goto("idle", NoAction)
-----------------------------------------------------------------------------
Init ==
  /\ status = [a \in Actions |-> "none"]
  /\ swept = {} /\ due = {} /\ keyboard = {}
  /\ taps = <<>>
  /\ pc = "idle" /\ current = NoAction
  /\ effect = [a \in Actions |-> "none"]
  /\ missing = {}
  /\ notes = [a \in Actions |-> {}]
  /\ uncanceled = {}
  /\ restarts = 0

(***************************************************************************)
(* Proposing                                                               *)
(***************************************************************************)

\* A turn, of a message or of the continuation after a confirmation, stops
\* at the first call that needs a confirmation.
enqueue(a) ==
  /\ pc \in {"idle", "continue"}
  /\ status[a] = "none"
  /\ status' = [status EXCEPT ![a] = "pending"]
  /\ Goto("post", a)
  /\ UNCHANGED <<swept, due, keyboard, taps, log, restarts>>

\* The keyboard is posted, or the failure is logged and the action waits
\* without one.
maybe_post_keyboard ==
  /\ pc = "post"
  /\ \/ keyboard' = keyboard \union {current}
     \/ Fails("post") /\ UNCHANGED keyboard
  /\ Rest
  /\ UNCHANGED <<status, swept, due, taps, log, restarts>>

\* The owner taps a button.  A keyboard stays in the chat when the edit that
\* should remove it fails, and Telegram may deliver a tap twice.
Tap(a, b) ==
  /\ a \in keyboard
  /\ Len(taps) < MaxTaps
  /\ taps' = Append(taps, <<b, a>>)
  /\ UNCHANGED <<status, swept, due, keyboard, worker, log, restarts>>

(***************************************************************************)
(* Handling a tap                                                          *)
(***************************************************************************)

\* The row is read; one that is gone or resolved ends the tap with a text.
handle_callback_query ==
  /\ pc = "idle" /\ taps # <<>>
  /\ taps' = Tail(taps)
  /\ LET b == Head(taps)[1]  a == Head(taps)[2] IN
       IF a \notin swept /\ status[a] = "pending" THEN Goto(b, a) ELSE Rest
  /\ UNCHANGED <<status, swept, due, keyboard, log, restarts>>

\* Bug: the UPDATE has no condition on the status.
resolve_always(a, to) == status' = [status EXCEPT ![a] = to]

\* UPDATE ... WHERE status = 'pending': no row, no change.
resolve(a, to) ==
  status' = IF status[a] = "pending" THEN [status EXCEPT ![a] = to] ELSE status

\* Bug: the expiry is looked at after the claim.
ExpiryAfterClaim ==
  /\ pc = "confirm"
  /\ resolve(current, "confirmed")
  /\ IF status[current] = "pending" /\ current \notin due THEN Goto("execute", current) ELSE Rest
  /\ UNCHANGED <<swept, due, keyboard, taps, log, restarts>>

\* resume_confirmed, up to the claim: the row is looked up once more; no row
\* claimed is an error, and so is an UPDATE that fails and leaves the row.
resume_confirmed ==
  /\ pc = "confirm"
  /\ \/ /\ resolve(current, "confirmed")
        /\ IF status[current] = "pending" THEN Goto("execute", current) ELSE Rest
     \/ Fails("resolve") /\ UNCHANGED status /\ Rest
  /\ UNCHANGED <<swept, due, keyboard, taps, log, restarts>>

\* The registry has no such tool for the role: an error, and the claim stays.
ToolMissing ==
  /\ pc = "execute"
  /\ Fails("tool")
  /\ missing' = missing \union {current}
  /\ Rest
  /\ UNCHANGED <<status, swept, due, keyboard, taps, effect, notes, uncanceled, restarts>>

\* The tool runs: done, refused in its answer, or an error.
execute ==
  /\ pc = "execute"
  /\ \E e \in {"done", "refused", "failed"} : effect' = [effect EXCEPT ![current] = e]
  /\ Goto("record", current)
  /\ UNCHANGED <<status, swept, due, keyboard, taps, missing, notes, uncanceled, restarts>>

\* A note that cannot be written is logged.
Note(a, kind) ==
  \/ notes' = [notes EXCEPT ![a] = @ \union {kind}]
  \/ Fails("note") /\ UNCHANGED notes

\* Bug: an answer "ok: false" is recorded as done.
RecordDone ==
  /\ pc = "record"
  /\ Note(current, IF effect[current] = "refused" THEN "done" ELSE effect[current])
  /\ IF effect[current] = "done" THEN Goto("continue", current) ELSE Rest
  /\ UNCHANGED <<status, swept, due, keyboard, taps, effect, missing, uncanceled, restarts>>

\* What came of it goes into the session; an action that was done gets the
\* assistant one more turn.
record_resolution ==
  /\ pc = "record"
  /\ Note(current, effect[current])
  /\ IF effect[current] = "done" THEN Goto("continue", current) ELSE Rest
  /\ UNCHANGED <<status, swept, due, keyboard, taps, effect, missing, uncanceled, restarts>>

\* The turn after a confirmation proposes nothing more.
continue_after_confirm ==
  /\ pc = "continue"
  /\ Rest
  /\ UNCHANGED <<status, swept, due, keyboard, taps, log, restarts>>

\* Cancelling and asking for a change: the row is canceled, or an error is
\* logged: the row was found resolved, or the UPDATE failed and it still waits.
handle_cancel ==
  /\ pc \in {"cancel", "edit"}
  /\ \/ resolve(current, "canceled") /\ UNCHANGED uncanceled
     \/ /\ Fails("resolve")
        /\ uncanceled' = uncanceled \union {current}
        /\ UNCHANGED status
  /\ Goto(IF pc = "cancel" THEN "canceled" ELSE "edited", current)
  /\ UNCHANGED <<swept, due, keyboard, taps, effect, missing, notes, restarts>>

\* Whatever came of it, the session says that it was not executed.
NoteCanceled ==
  /\ pc \in {"canceled", "edited"}
  /\ Note(current, IF pc = "canceled" THEN "canceled" ELSE "edit")
  /\ Rest
  /\ UNCHANGED <<status, swept, due, keyboard, taps, effect, missing, uncanceled, restarts>>

(***************************************************************************)
(* Time and restarts                                                       *)
(***************************************************************************)

\* An hour passes.
BecomeDue(a) ==
  /\ status[a] # "none" /\ a \notin due
  /\ due' = due \union {a}
  /\ UNCHANGED <<status, swept, keyboard, taps, worker, log, restarts>>

\* Bug: the loop only takes actions that have a keyboard.
ExpireShown ==
  /\ status' = [a \in Actions |-> IF status[a] = "pending" /\ a \in due \cap keyboard THEN "expired"
                                  ELSE status[a]]
  /\ UNCHANGED <<swept, due, keyboard, taps, worker, log, restarts>>

\* Every five minutes.
expire_stale ==
  /\ status' = [a \in Actions |-> IF status[a] = "pending" /\ a \in due THEN "expired" ELSE status[a]]
  /\ UNCHANGED <<swept, due, keyboard, taps, worker, log, restarts>>

\* Rows resolved four days ago are deleted; no tap is handled for so long.
sweep_pending_actions ==
  /\ \E a \in due : /\ status[a] \in {"confirmed", "canceled", "expired"}
                    /\ a \notin swept /\ a # current
                    /\ swept' = swept \union {a}
  /\ UNCHANGED <<status, due, keyboard, taps, worker, log, restarts>>

\* The queue and the task are gone.
Restart ==
  /\ restarts < MaxRestarts
  /\ restarts' = restarts + 1
  /\ taps' = <<>>
  /\ Rest
  /\ UNCHANGED <<status, swept, due, keyboard, log>>

Work ==
  \/ maybe_post_keyboard \/ handle_callback_query
  \/ resume_confirmed \/ execute \/ record_resolution \/ continue_after_confirm
  \/ handle_cancel \/ NoteCanceled

Next ==
  \/ \E a \in Actions : enqueue(a) \/ BecomeDue(a) \/ \E b \in Buttons : Tap(a, b)
  \/ Work \/ ToolMissing
  \/ expire_stale \/ sweep_pending_actions
  \/ Restart

Spec == Init /\ [][Next]_vars

\* Time passes and the expiry loop runs; the task goes on while the process
\* is up.
FairSpec ==
  /\ Spec
  /\ WF_vars(Work)
  /\ WF_vars(expire_stale)
  /\ \A a \in Actions : WF_vars(BecomeDue(a))
-----------------------------------------------------------------------------
(***************************************************************************)
(* Properties                                                              *)
(***************************************************************************)

TypeOK ==
  /\ status \in [Actions -> Statuses]
  /\ swept \subseteq Actions /\ due \subseteq Actions /\ keyboard \subseteq Actions
  /\ taps \in Seq(Buttons \X Actions) /\ Len(taps) <= MaxTaps
  /\ pc \in PCs /\ current \in Actions \union {NoAction}
  /\ effect \in [Actions -> Effects]
  /\ missing \subseteq Actions
  /\ notes \in [Actions -> SUBSET NoteKinds]
  /\ uncanceled \subseteq Actions
  /\ restarts \in 0..MaxRestarts

\* What the session says of an action is what happened to it: "NICHT
\* ausgefuehrt" is written although the cancel may have found the row resolved,
\* and no tool ran before or will after, unless the cancel's UPDATE failed.
NotesAreTrue ==
  \A a \in Actions : \A k \in notes[a] :
    IF k \in {"canceled", "edit"}
    THEN a \in uncanceled \/ (effect[a] = "none" /\ status[a] # "confirmed")
    ELSE effect[a] = k

\* An approved action was run, is about to be, had no tool, or was cut off by
\* a restart: one for each restart.
Unrun == {a \in Actions : /\ status[a] = "confirmed" /\ effect[a] = "none"
                          /\ a \notin missing /\ ~(pc = "execute" /\ current = a)}
LostOnlyByRestart == Cardinality(Unrun) <= restarts

\* The rows, the loops and the taps together implement the approval of
\* actions: two confirmations run a tool once, and an action that was
\* canceled or has expired never runs.
StageOf(a) ==
  IF effect[a] # "none" THEN "executed"
  ELSE IF status[a] = "none" THEN "none"
  ELSE IF status[a] = "pending" THEN "proposed"
  ELSE IF status[a] = "confirmed" THEN "approved"
  ELSE "dropped"
Confirmation == INSTANCE Approval WITH stage <- [a \in Actions |-> StageOf(a)]
ApprovalSpec == Confirmation!Spec

\* No action waits forever, also one whose keyboard never reached the chat
\* or whose taps were lost.
EveryActionEnds == \A a \in Actions : (status[a] = "pending") ~> (status[a] # "pending")
=============================================================================
