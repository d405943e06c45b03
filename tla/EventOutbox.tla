----------------------------- MODULE EventOutbox -----------------------------
(***************************************************************************)
(* The domain events: rows of domain_events, written by the API, read by   *)
(* the assistant's consumer in batches every five seconds, and moved to an *)
(* archive by the retention sweep.  An event is marked consumed before its *)
(* handler runs.  The process may restart at any point; the sweep is a     *)
(* transaction of two statements, each of which sees what was committed    *)
(* when it started.                                                        *)
(*                                                                         *)
(* An event is its place in the order of created_at.                       *)
(***************************************************************************)
EXTENDS Integers, FiniteSets

CONSTANTS
  MaxEvents,     \* bound: events that are recorded
  Batch,         \* LIMIT of one fetch (50 in the code)
  MaxRestarts    \* bound: restarts of the process

ASSUME OutboxAssumption == MaxEvents \in Nat /\ Batch \in Nat \ {0} /\ MaxRestarts \in Nat

Events == 1..MaxEvents

VARIABLES
  recorded,   \* how many events were recorded so far
  table,      \* the events in domain_events
  consumed,   \* the events the assistant's mark is on
  archive,    \* the events in domain_events_archive
  old,        \* the events past the 30 days
  batch,      \* the events the consumer fetched and has not reached yet
  current,    \* the event it marked and whose handler it is about to run
  runs,       \* how often each event's handler ran
  sweep,      \* the sweep: idle, or about to delete
  cut,        \* the events that were past the sweep's cutoff
  copied,     \* what its uncommitted INSERT copied
  restarts    \* restarts so far

vars == <<recorded, table, consumed, archive, old, batch, current, runs, sweep, cut, copied, restarts>>
consumer == <<batch, current, runs>>
sweeper == <<sweep, cut, copied>>

NoEvent == 0
Pending == {e \in table : e \notin consumed}
-----------------------------------------------------------------------------
Init ==
  /\ recorded = 0
  /\ table = {} /\ consumed = {} /\ archive = {} /\ old = {}
  /\ batch = {} /\ current = NoEvent
  /\ runs = [e \in Events |-> 0]
  /\ sweep = "idle" /\ cut = {} /\ copied = {}
  /\ restarts = 0

\* A failed INSERT is logged and no event exists.
emit ==
  /\ recorded < MaxEvents
  /\ recorded' = recorded + 1
  /\ table' = table \union {recorded + 1}
  /\ UNCHANGED <<consumed, archive, old, consumer, sweeper, restarts>>

\* Days pass: the oldest events are past the 30 days.
Age ==
  /\ \E e \in 1..recorded : e \notin old /\ old' = old \union 1..e
  /\ UNCHANGED <<recorded, table, consumed, archive, consumer, sweeper, restarts>>

(***************************************************************************)
(* The consumer                                                            *)
(***************************************************************************)

\* Bug: the whole batch is marked when it is fetched.
MarkBatch ==
  /\ batch = {} /\ current = NoEvent
  /\ Pending # {}
  /\ batch' = {e \in Pending : Cardinality({f \in Pending : f < e}) < Batch}
  /\ consumed' = consumed \union batch'
  /\ UNCHANGED <<recorded, table, archive, old, current, runs, sweeper, restarts>>

\* Bug: the limit is applied before the mark is looked at.
FilterAfterLimit ==
  /\ batch = {} /\ current = NoEvent
  /\ Pending # {}
  /\ batch' = {e \in Pending : Cardinality({f \in table : f < e}) < Batch}
  /\ UNCHANGED <<recorded, table, consumed, archive, old, current, runs, sweeper, restarts>>

\* The oldest events without the mark, at most Batch of them.
fetch_pending ==
  /\ batch = {} /\ current = NoEvent
  /\ Pending # {}
  /\ batch' = {e \in Pending : Cardinality({f \in Pending : f < e}) < Batch}
  /\ UNCHANGED <<recorded, table, consumed, archive, old, current, runs, sweeper, restarts>>

Oldest(e) == e \in batch /\ \A f \in batch : e <= f

\* Bug: a failed mark does not keep the handler from running.
DispatchUnmarked(e) ==
  /\ current = NoEvent
  /\ Oldest(e)
  /\ batch' = batch \ {e}
  /\ current' = e
  /\ UNCHANGED <<recorded, table, consumed, archive, old, runs, sweeper, restarts>>

mark_consumed(e) ==
  /\ current = NoEvent
  /\ Oldest(e)
  /\ consumed' = consumed \union {e}
  /\ batch' = batch \ {e}
  /\ current' = e
  /\ UNCHANGED <<recorded, table, archive, old, runs, sweeper, restarts>>

\* The mark could not be written: the handler is skipped, the event comes
\* again with a later batch.
mark_fails(e) ==
  /\ current = NoEvent
  /\ Oldest(e)
  /\ batch' = batch \ {e}
  /\ UNCHANGED <<recorded, table, consumed, archive, old, current, runs, sweeper, restarts>>

\* The handler runs, to its end or to an error.
dispatch ==
  /\ current # NoEvent
  /\ runs' = [runs EXCEPT ![current] = @ + 1]
  /\ current' = NoEvent
  /\ UNCHANGED <<recorded, table, consumed, archive, old, batch, sweeper, restarts>>

(***************************************************************************)
(* sweep_domain_events                                                     *)
(***************************************************************************)

\* INSERT ... SELECT, ON CONFLICT DO NOTHING; nothing new, nothing to delete.
sweep_copy ==
  /\ sweep = "idle"
  /\ cut' = old
  /\ copied' = {e \in table : e \in consumed /\ e \in old}
  /\ sweep' = IF copied' \subseteq archive THEN "idle" ELSE "delete"
  /\ UNCHANGED <<recorded, table, consumed, archive, old, consumer, restarts>>

\* Bug: the DELETE forgets the mark.
DeleteOld ==
  /\ sweep = "delete"
  /\ archive' = archive \union copied
  /\ table' = {e \in table : e \notin cut}
  /\ sweep' = "idle" /\ cut' = {} /\ copied' = {}
  /\ UNCHANGED <<recorded, consumed, old, consumer, restarts>>

\* DELETE with the same condition, looked up again, and COMMIT.
sweep_delete ==
  /\ sweep = "delete"
  /\ archive' = archive \union copied
  /\ table' = {e \in table : ~(e \in consumed /\ e \in cut)}
  /\ sweep' = "idle" /\ cut' = {} /\ copied' = {}
  /\ UNCHANGED <<recorded, consumed, old, consumer, restarts>>

\* What ran is gone; the sweep's transaction is rolled back.
Restart ==
  /\ restarts < MaxRestarts
  /\ restarts' = restarts + 1
  /\ batch' = {} /\ current' = NoEvent
  /\ sweep' = "idle" /\ cut' = {} /\ copied' = {}
  /\ UNCHANGED <<recorded, table, consumed, archive, old, runs>>

Next ==
  \/ emit \/ Age
  \/ fetch_pending \/ dispatch
  \/ \E e \in Events : mark_consumed(e) \/ mark_fails(e)
  \/ sweep_copy \/ sweep_delete
  \/ Restart

Spec == Init /\ [][Next]_vars

\* The loop polls for as long as the process is up, a handler returns, and
\* the database does not refuse the same mark forever.
FairSpec ==
  /\ Spec
  /\ WF_vars(fetch_pending) /\ WF_vars(dispatch)
  /\ WF_vars(\E e \in Events : mark_consumed(e) \/ mark_fails(e))
  /\ \A e \in Events : SF_vars(mark_consumed(e))
-----------------------------------------------------------------------------
(***************************************************************************)
(* Properties                                                              *)
(***************************************************************************)

TypeOK ==
  /\ recorded \in 0..MaxEvents
  /\ table \subseteq Events /\ consumed \subseteq Events
  /\ archive \subseteq Events /\ old \subseteq Events
  /\ batch \subseteq Events /\ current \in Events \union {NoEvent}
  /\ runs \in [Events -> Nat]
  /\ sweep \in {"idle", "delete"}
  /\ cut \subseteq Events /\ copied \subseteq Events
  /\ restarts \in 0..MaxRestarts

\* "By marking consumed first we accept at-most-once delivery": no handler
\* runs twice for an event, across failed marks and restarts.
HandledAtMostOnce == \A e \in Events : runs[e] <= 1

\* What is missed is missed because of a restart: every event with the mark
\* was handled or is about to be, except one for each restart.
MissedOnlyByRestart ==
  Cardinality({e \in consumed : runs[e] = 0 /\ e # current}) <= restarts

\* The sweep never takes an event the consumer has not seen.
UnseenIsKept ==
  /\ \A e \in 1..recorded : e \in consumed \/ e \in table
  /\ archive \subseteq consumed

\* The outbox implements at-most-once delivery.
StageOf(e) ==
  IF runs[e] = 1 THEN "handled"
  ELSE IF e \in consumed THEN "taken"
  ELSE IF e <= recorded THEN "recorded" ELSE "none"
Delivery == INSTANCE AtMostOnce WITH stage <- [e \in Events |-> StageOf(e)]
DeliverySpec == Delivery!Spec

\* Every recorded event is taken in the end, however long the backlog and
\* however often a mark fails or the process restarts.
BacklogDrains == \A e \in Events : (e \in table) ~> (e \in consumed)
=============================================================================
