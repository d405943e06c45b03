------------------------- MODULE OfferRouting_proofs -------------------------
(***************************************************************************)
(* Proofs about EventOutbox, for any number of events, batch size and      *)
(* restarts, with the retention sweep interleaved with the consumer, and   *)
(* about OfferRouting, which runs on that outbox, for any number of runs   *)
(* and any choice of faults.                                               *)
(***************************************************************************)
EXTENDS OfferRouting, FiniteSetTheorems, TLAPS

\* Nothing is known of an event that was not recorded.
OnlyRecorded ==
  table \subseteq 1..recorded /\ consumed \subseteq 1..recorded /\ batch \subseteq 1..recorded

\* What waits in the batch has no mark: only the consumer writes the mark.
BatchUnmarked == batch \cap consumed = {}

\* A handler only ever runs after the mark, once, and the event about to be
\* handled has not been.
RunsAfterMark ==
  /\ \A e \in Events : runs[e] = 0 \/ (runs[e] = 1 /\ e \in consumed)
  /\ current # NoEvent => current \in consumed /\ runs[current] = 0

\* The sweep only copied marked events.
CopiedSeen == copied \subseteq consumed

Missed == {e \in consumed : runs[e] = 0 /\ e # current}

\* The inductive invariant.
IInv ==
  /\ TypeOK
  /\ OnlyRecorded
  /\ BatchUnmarked
  /\ RunsAfterMark
  /\ CopiedSeen
  /\ UnseenIsKept

\* The inductive invariant holds of the empty outbox.
LEMMA InitInv == Init => IInv
<1> SUFFICES ASSUME Init PROVE IInv
  OBVIOUS
<1> USE OutboxAssumption DEF Init, NoEvent, Events
<1>1. TypeOK
  BY DEF TypeOK
<1>2. OnlyRecorded /\ BatchUnmarked /\ RunsAfterMark /\ CopiedSeen /\ UnseenIsKept
  BY DEF OnlyRecorded, BatchUnmarked, RunsAfterMark, CopiedSeen, UnseenIsKept
<1> QED
  BY <1>1, <1>2 DEF IInv

\* Every step preserves the inductive invariant.
LEMMA StepInv == IInv /\ [Next]_vars => IInv'
<1> SUFFICES ASSUME IInv, [Next]_vars PROVE IInv'
  OBVIOUS
<1> USE OutboxAssumption
        DEF IInv, TypeOK, OnlyRecorded, BatchUnmarked, RunsAfterMark, CopiedSeen, UnseenIsKept,
            Events, NoEvent, consumer, sweeper
<1>1. CASE emit
  BY <1>1 DEF emit
<1>2. CASE Age
  BY SMTT(30), <1>2 DEF Age
<1>3. CASE fetch_pending
  BY <1>3 DEF fetch_pending, Pending
<1>4. CASE dispatch
  <2>1. /\ runs' \in [1..MaxEvents -> Nat]
        /\ runs'[current] = 1 /\ \A e \in 1..MaxEvents \ {current} : runs'[e] = runs[e]
    BY <1>4 DEF dispatch
  <2> QED
    BY <1>4, <2>1 DEF dispatch
<1>5. ASSUME NEW e \in Events, mark_consumed(e) PROVE IInv'
  <2>1. e \in batch /\ e \notin consumed /\ e \in 1..recorded
    BY <1>5 DEF mark_consumed, Oldest
  <2> QED
    BY <1>5, <2>1 DEF mark_consumed
<1>6. ASSUME NEW e \in Events, mark_fails(e) PROVE IInv'
  BY <1>6 DEF mark_fails
<1>7. CASE sweep_copy
  BY <1>7 DEF sweep_copy
<1>8. CASE sweep_delete
  BY <1>8 DEF sweep_delete
<1>9. CASE Restart
  BY <1>9 DEF Restart
<1>10. CASE UNCHANGED vars
  BY <1>10 DEF vars
<1> QED
  BY <1>1, <1>2, <1>3, <1>4, <1>5, <1>6, <1>7, <1>8, <1>9, <1>10 DEF Next

\* The inductive invariant holds in every reachable state.
LEMMA Invariance == Spec => []IInv
  BY InitInv, StepInv, PTL DEF Spec

\* Every state is well typed: batches, copies and marks are of real events.
THEOREM TypeCorrect == Spec => []TypeOK
<1>1. IInv => TypeOK
  BY DEF IInv
<1> QED
  BY <1>1, Invariance, PTL

\* No handler runs twice for an event, whatever marks fail and wherever the
\* process restarts (run_once marks before it dispatches).
THEOREM AtMostOnceHandled == Spec => []HandledAtMostOnce
<1>1. IInv => HandledAtMostOnce
  BY DEF IInv, RunsAfterMark, HandledAtMostOnce
<1> QED
  BY <1>1, Invariance, PTL

\* Whatever the sweep does between the consumer's steps, an event without the
\* mark stays in domain_events.
THEOREM SweepSparesUnseen == Spec => []UnseenIsKept
<1>1. IInv => UnseenIsKept
  BY DEF IInv
<1> QED
  BY <1>1, Invariance, PTL

\* A step adds an event to the missed ones only by a restart, and then the
\* one whose handler was about to run.
LEMMA MissedStep ==
  ASSUME IInv, IInv', [Next]_vars
  PROVE  \/ Missed' = Missed /\ restarts' = restarts
         \/ Missed' = Missed /\ restarts' = restarts + 1
         \/ Missed' = Missed \union {current} /\ restarts' = restarts + 1
<1> USE OutboxAssumption
        DEF IInv, TypeOK, BatchUnmarked, RunsAfterMark, Missed, Events, NoEvent, consumer, sweeper
<1>1. CASE emit \/ Age \/ fetch_pending \/ sweep_copy \/ sweep_delete \/ UNCHANGED vars
  BY <1>1 DEF emit, Age, fetch_pending, sweep_copy, sweep_delete, vars
<1>2. CASE dispatch
  <2>1. runs'[current] = 1 /\ \A e \in Events \ {current} : runs'[e] = runs[e]
    BY <1>2 DEF dispatch
  <2> QED
    BY <1>2, <2>1 DEF dispatch
<1>3. ASSUME NEW e \in Events, mark_consumed(e) PROVE Missed' = Missed /\ restarts' = restarts
  BY <1>3 DEF mark_consumed, Oldest
<1>4. ASSUME NEW e \in Events, mark_fails(e) PROVE Missed' = Missed /\ restarts' = restarts
  BY <1>4 DEF mark_fails
<1>5. CASE Restart
  BY <1>5 DEF Restart
<1> QED
  BY <1>1, <1>2, <1>3, <1>4, <1>5 DEF Next

\* At most one event is missed for each restart.
THEOREM MissedByRestart == Spec => []MissedOnlyByRestart
<1> DEFINE Bounded == IsFiniteSet(Missed) /\ Cardinality(Missed) <= restarts
<1>1. Init => Bounded
  <2> SUFFICES ASSUME Init PROVE Bounded
    OBVIOUS
  <2>1. Missed = {} /\ restarts = 0
    BY DEF Init, Missed
  <2> QED
    BY <2>1, FS_EmptySet
<1>2. IInv /\ IInv' /\ Bounded /\ [Next]_vars => Bounded'
  <2> SUFFICES ASSUME IInv, IInv', Bounded, [Next]_vars PROVE Bounded'
    OBVIOUS
  <2>1. restarts \in Nat /\ restarts' \in Nat /\ Cardinality(Missed) \in Nat
    BY OutboxAssumption, FS_CardinalityType DEF IInv, TypeOK
  <2>2. /\ IsFiniteSet(Missed \union {current})
        /\ Cardinality(Missed \union {current}) <= Cardinality(Missed) + 1
    BY <2>1, FS_AddElement
  <2>3. \/ Missed' = Missed /\ restarts' = restarts
        \/ Missed' = Missed /\ restarts' = restarts + 1
        \/ Missed' = Missed \union {current} /\ restarts' = restarts + 1
    BY MissedStep
  <2>4. CASE Missed' = Missed
    BY <2>1, <2>3, <2>4
  <2>5. CASE Missed' = Missed \union {current} /\ restarts' = restarts + 1
    <3>1. Cardinality(Missed \union {current}) \in Nat
      BY <2>2, FS_CardinalityType
    <3> QED
      BY <2>1, <2>2, <2>5, <3>1
  <2> QED
    BY <2>3, <2>4, <2>5
<1>3. Bounded => MissedOnlyByRestart
  BY DEF Missed, MissedOnlyByRestart
<1> QED
  BY <1>1, <1>2, <1>3, Invariance, PTL DEF Spec

\* What a step makes of an event's stage is a step of the abstract delivery.
LEMMA DeliveryStep ==
  ASSUME IInv, IInv', [Next]_vars
  PROVE  [Delivery!Next]_([e \in Events |-> StageOf(e)])
<1> DEFINE stage == [e \in Events |-> StageOf(e)]
<1> USE OutboxAssumption
        DEF IInv, TypeOK, OnlyRecorded, BatchUnmarked, RunsAfterMark, NoEvent, consumer, sweeper
<1>1. CASE emit
  <2>1. PICK e \in Events : e = recorded + 1
    BY <1>1 DEF emit, Events
  <2>2. StageOf(e) = "none" /\ StageOf(e)' = "recorded"
    <3>1. runs[e] = 0 /\ e \notin consumed /\ ~(e <= recorded)
      BY <2>1
    <3>2. recorded' = e /\ e <= recorded' /\ UNCHANGED <<runs, consumed>>
      BY <1>1, <2>1 DEF emit, Events
    <3> QED
      BY <3>1, <3>2 DEF StageOf
  <2>3. \A f \in Events \ {e} : StageOf(f)' = StageOf(f)
    BY <1>1, <2>1 DEF emit, StageOf, Events
  <2>4. stage' = [stage EXCEPT ![e] = "recorded"] /\ stage[e] = "none"
    BY ZenonT(30), <2>1, <2>2, <2>3
  <2> QED
    BY <2>1, <2>4 DEF Delivery!Next, Delivery!Record, Delivery!Move
<1>2. ASSUME NEW e \in Events, mark_consumed(e) PROVE Delivery!Next
  <2>1. e \in 1..recorded /\ runs[e] = 0 /\ e \notin consumed
    BY <1>2 DEF mark_consumed, Oldest
  <2>2. StageOf(e) = "recorded" /\ StageOf(e)' = "taken"
    BY <1>2, <2>1 DEF mark_consumed, StageOf
  <2>3. \A f \in Events \ {e} : StageOf(f)' = StageOf(f)
    BY <1>2 DEF mark_consumed, StageOf
  <2>4. stage' = [stage EXCEPT ![e] = "taken"] /\ stage[e] = "recorded"
    BY <2>2, <2>3
  <2> QED
    BY <2>4 DEF Delivery!Next, Delivery!Take, Delivery!Move
<1>3. CASE dispatch
  <2>1. current \in Events /\ runs[current] = 0 /\ current \in consumed
    BY <1>3 DEF dispatch
  <2>2. runs'[current] = 1 /\ \A f \in Events \ {current} : runs'[f] = runs[f]
    BY <1>3, <2>1 DEF dispatch
  <2>3. UNCHANGED <<consumed, recorded>>
    BY <1>3 DEF dispatch
  <2>4. \A f \in Events \ {current} : StageOf(f)' = StageOf(f)
    BY <2>2, <2>3 DEF StageOf
  <2> DEFINE e == current  next == [f \in Events |-> StageOf(f)']
  <2>5. StageOf(current) = "taken" /\ next[current] = "handled"
    BY <2>1, <2>2 DEF StageOf
  <2>6. stage' = [stage EXCEPT ![current] = "handled"] /\ stage[current] = "taken"
    BY <2>1, <2>4, <2>5
  <2> QED
    BY <2>1, <2>6 DEF Delivery!Next, Delivery!Handle, Delivery!Move
<1>4. ASSUME NEW e \in Events, mark_fails(e) PROVE UNCHANGED stage
  BY <1>4 DEF mark_fails, StageOf
<1>5. CASE Age \/ fetch_pending \/ sweep_copy \/ sweep_delete \/ Restart \/ UNCHANGED vars
  BY <1>5 DEF Age, fetch_pending, sweep_copy, sweep_delete, Restart, vars, StageOf
<1> QED
  BY <1>1, <1>2, <1>3, <1>4, <1>5 DEF Next

\* The outbox is at-most-once delivery: recorded, then taken, then handled or
\* never, whatever the sweep and restarts do.
THEOREM ImplementsDelivery == Spec => DeliverySpec
<1>1. Init => Delivery!Init
  BY OutboxAssumption DEF Init, Delivery!Init, StageOf, Events
<1>2. IInv /\ IInv' /\ [Next]_vars => [Delivery!Next]_([e \in Events |-> StageOf(e)])
  BY DeliveryStep
<1> QED
  BY <1>1, <1>2, Invariance, PTL DEF Spec, DeliverySpec, Delivery!Spec
-----------------------------------------------------------------------------
(***************************************************************************)
(* The approval routing of offers runs on this outbox.                     *)
(***************************************************************************)

\* A step of the routing is one of the outbox, or leaves it alone.
LEMMA RoutingStepsOutbox == [RoutingNext]_allVars => [Next]_vars
<1> SUFFICES ASSUME [RoutingNext]_allVars PROVE [Next]_vars
  OBVIOUS
<1>1. ASSUME NEW r \in Runs, EmitDrafted(r) PROVE [Next]_vars
  BY <1>1 DEF EmitDrafted, Next
<1>2. ASSUME NEW r \in Runs, (RunStep(r) /\ ~EmitDrafted(r)) \/ reject(r) PROVE UNCHANGED vars
  BY <1>2 DEF RunStep, any_exists_for_inquiry, build_offer, BuildFails, agent_owns_approval,
              StampOwner, send_offer_to_telegram, reject
<1>3. CASE Consume \/ handle_offer_drafted \/ RestartAll
  BY <1>3 DEF Consume, handle_offer_drafted, RestartAll, Next
<1>4. CASE Toggle \/ UNCHANGED allVars
  BY <1>4 DEF Toggle, allVars
<1> QED
  BY <1>1, <1>2, <1>3, <1>4 DEF RoutingNext

\* The routing of offers only uses the outbox as its consumer and writers do:
\* whatever is proved of the outbox holds while offers are routed over it.
THEOREM RoutingRunsOnOutbox == RoutingSpec => Spec
<1>1. RoutingInit => Init
  BY DEF RoutingInit
<1>2. [RoutingNext]_allVars => [Next]_vars
  BY RoutingStepsOutbox
<1> QED
  BY <1>1, <1>2, PTL DEF RoutingSpec, Spec

RunPCs == {"check", "persist", "flag", "stamp", "post", "done", "failed"}
Owners == {"none", "agent", "legacy"}

RoutingTypeOK ==
  /\ offers \in [Runs -> Statuses]
  /\ owner \in [Runs -> Owners]
  /\ flag \in BOOLEAN
  /\ rpc \in [Runs -> RunPCs]
  /\ offer \in [Runs -> Runs \union {NoRun}]
  /\ decision \in [Runs -> Owners]
  /\ emitting \subseteq Runs
  /\ about \in [Events -> Runs \union {NoRun}]
  /\ posts \in [Runs -> Nat]

\* What a run has written at each place.
Placed ==
  \A r \in Runs :
    /\ rpc[r] \in {"check", "persist"} => offer[r] = NoRun /\ r \notin emitting
    /\ rpc[r] \in {"check", "persist", "flag"} => decision[r] = "none"
    /\ rpc[r] \in {"flag", "stamp", "post"} \/ r \in emitting => offer[r] \in Runs
    /\ rpc[r] \in {"stamp", "post"} => decision[r] \in {"agent", "legacy"}

\* An offer that exists was inserted by its run, and runs only hold such.
Inserted ==
  /\ \A o \in Runs : offers[o] # "none" => offer[o] = o
  /\ \A r \in Runs : offer[r] # NoRun => offers[offer[r]] # "none"

\* Nothing was done about an offer that does not exist.
Unused ==
  \A o \in Runs :
    offers[o] = "none" => posts[o] = 0 /\ owner[o] = "none" /\ \A e \in Events : about[e] # o

\* One run, its own, holds the offer.
Sole(o) == \A r \in Runs : offer[r] = o <=> r = o

AboutRecorded ==
  \A e \in Events : (e \in 1..recorded => about[e] \in Runs) /\ (e \notin 1..recorded => about[e] = NoRun)

\* There is at most one event about an offer of one run.
EventOnce ==
  \A o \in Runs : Sole(o) =>
    /\ \A e, f \in Events : about[e] = o /\ about[f] = o => e = f
    /\ o \in emitting => \A e \in Events : about[e] # o

\* The stamp of an offer of one run is that run's decision.
Stamped == \A o \in Runs : Sole(o) => owner[o] \in {"none", decision[o]}

\* Either the run posts, when it comes to it, or the handler of the event.
PostedOnce ==
  \A o \in Runs : Sole(o) =>
    /\ posts[o] <= 1
    /\ decision[o] # "agent" /\ rpc[o] \in {"flag", "stamp", "post"} => posts[o] = 0
    /\ decision[o] = "agent" /\ posts[o] # 0 => \E e \in Events : about[e] = o /\ runs[e] # 0

\* A drafted offer was posted, or its run still comes to it, was cut off, or
\* left it to the agent.
AskPending ==
  \A o \in Runs :
    offers[o] # "none" =>
      rpc[o] \in {"flag", "stamp", "post", "failed"} \/ decision[o] = "agent" \/ posts[o] # 0

\* The inductive invariant of the routing, over the outbox's.
RInv ==
  /\ RoutingTypeOK
  /\ Placed /\ Inserted /\ Unused
  /\ AboutRecorded /\ EventOnce /\ Stamped /\ PostedOnce /\ AskPending

\* The routing's invariant holds before any run.
LEMMA RoutingInitInv == RoutingInit => RInv
<1> SUFFICES ASSUME RoutingInit PROVE RInv
  OBVIOUS
<1> USE RoutingAssumption DEF RoutingInit, NoRun
<1>1. RoutingTypeOK
  BY DEF RoutingTypeOK, Statuses, Owners, RunPCs
<1>2. Placed /\ Inserted /\ Unused
  BY DEF Placed, Inserted, Unused
<1>3. AboutRecorded
  BY DEF AboutRecorded, Init, Events
<1>4. EventOnce /\ Stamped /\ PostedOnce /\ AskPending
  BY DEF EventOnce, Stamped, PostedOnce, AskPending, Sole
<1> QED
  BY <1>1, <1>2, <1>3, <1>4 DEF RInv

\* The routing's invariant is kept by a step that neither drafts, records,
\* decides, stamps nor posts, and ends runs only by cutting them off or
\* before they drafted.
LEMMA RoutingKept ==
  ASSUME RInv, RoutingTypeOK',
         UNCHANGED <<owner, offer, decision, about, posts, recorded>>,
         \A o \in Runs : offers'[o] = "none" <=> offers[o] = "none",
         emitting' \subseteq emitting,
         \A e \in Events : runs[e] # 0 => runs'[e] # 0,
         \A r \in Runs : \/ rpc'[r] \in {rpc[r], "failed"}
                         \/ rpc[r] = "check" /\ rpc'[r] \in {"persist", "done"}
  PROVE  RInv'
<1> USE DEF RInv, RoutingTypeOK
<1>1. Placed'
  BY DEF Placed
<1>2. Inserted' /\ Unused'
  BY DEF Inserted, Unused, NoRun
<1>3. AboutRecorded'
  BY DEF AboutRecorded
<1>4. EventOnce' /\ Stamped'
  BY DEF EventOnce, Stamped, Sole
<1>5. PostedOnce'
  BY DEF PostedOnce, Sole
<1>6. AskPending'
  BY RoutingAssumption DEF AskPending, Inserted, Placed, NoRun
<1> QED
  BY <1>1, <1>2, <1>3, <1>4, <1>5, <1>6

\* A draft is adopted, which ends that its offer has one run, or inserted.
LEMMA BuildStep ==
  ASSUME RInv, NEW r \in Runs, build_offer(r)
  PROVE  RInv'
<1> USE RoutingAssumption DEF RInv, RoutingTypeOK, NoRun
<1>1. PICK o \in Runs :
        /\ offers[o] = "active" \/ o = r
        /\ offer' = [offer EXCEPT ![r] = o] /\ offers' = [offers EXCEPT ![o] = "active"]
  BY DEF build_offer, Active
<1>2. /\ rpc[r] = "persist" /\ offer[r] = NoRun /\ r \notin emitting
      /\ decision[r] = "none" /\ offers[r] = "none"
      /\ rpc' = [rpc EXCEPT ![r] = "flag"] /\ emitting' = emitting \union {r}
      /\ UNCHANGED <<vars, owner, flag, decision, about, posts>>
  BY DEF build_offer, Placed, GotoR, Inserted
<1>3. RoutingTypeOK'
  BY <1>1, <1>2 DEF Statuses, RunPCs
<1>4. Placed'
  BY <1>1, <1>2 DEF Placed
<1>5. Inserted'
  BY <1>1, <1>2 DEF Inserted
<1>6. Unused'
  BY <1>1, <1>2 DEF Unused
<1>7. AboutRecorded'
  BY <1>2 DEF AboutRecorded, vars
<1>8. /\ posts[r] = 0 /\ owner[r] = "none" /\ \A e \in Events : about[e] # r
  BY <1>2 DEF Unused
<1>9. ASSUME NEW p \in Runs, Sole(p)'
      PROVE  (Sole(p) /\ p # r) \/ p = r
  BY <1>1, <1>2, <1>9 DEF Sole
<1>10. EventOnce'
  BY <1>2, <1>8, <1>9 DEF EventOnce, vars
<1>11. Stamped'
  BY <1>2, <1>8, <1>9 DEF Stamped
<1>12. PostedOnce'
  BY <1>2, <1>8, <1>9 DEF PostedOnce, vars
<1>13. AskPending'
  BY <1>1, <1>2 DEF AskPending
<1> QED
  BY <1>3, <1>4, <1>5, <1>6, <1>7, <1>10, <1>11, <1>12, <1>13

\* The event of a draft is recorded under a number no event had.
LEMMA EmitStep ==
  ASSUME IInv, RInv, NEW r \in Runs, EmitDrafted(r)
  PROVE  RInv'
<1> USE RoutingAssumption, OutboxAssumption DEF RInv, RoutingTypeOK, NoRun
<1>1. /\ r \in emitting /\ emitting' = emitting \ {r} /\ offer[r] \in Runs
      /\ UNCHANGED <<offers, owner, flag, rpc, offer, decision, posts>>
  BY DEF EmitDrafted, Placed
<1>2. CASE UNCHANGED <<vars, about>>
  <2>1. UNCHANGED <<recorded, runs>>
    BY <1>2 DEF vars
  <2> QED
    BY <1>1, <1>2, <2>1, RoutingKept
<1>3. CASE emit /\ about' = [about EXCEPT ![recorded + 1] = offer[r]]
  <2>1. PICK e \in Events : e = recorded + 1 /\ e \notin 1..recorded
    BY <1>3 DEF emit, IInv, TypeOK, Events
  <2>2. /\ about' = [about EXCEPT ![e] = offer[r]] /\ runs' = runs
        /\ \A f \in Events : f \in 1..recorded' <=> f \in 1..recorded \/ f = e
    BY <1>3, <2>1 DEF emit, consumer, IInv, TypeOK, Events
  <2>3. /\ about'[e] = offer[r] /\ about[e] = NoRun
        /\ \A f \in Events \ {e} : about'[f] = about[f]
    BY <2>1, <2>2 DEF AboutRecorded
  <2>4. RoutingTypeOK'
    BY <1>1, <2>2
  <2>5. Placed' /\ Inserted'
    BY <1>1 DEF Placed, Inserted
  <2>6. Unused'
    BY <1>1, <2>3 DEF Unused, Inserted
  <2>7. AboutRecorded'
    BY <1>1, <2>1, <2>2, <2>3 DEF AboutRecorded
  <2>8. \A o : Sole(o)' <=> Sole(o)
    BY <1>1 DEF Sole
  <2>9. EventOnce'
    <3> SUFFICES ASSUME NEW o \in Runs, Sole(o)
                 PROVE  /\ \A f, g \in Events : about'[f] = o /\ about'[g] = o => f = g
                        /\ o \in emitting' => \A f \in Events : about'[f] # o
      BY <2>8 DEF EventOnce
    <3>1. /\ \A f, g \in Events : about[f] = o /\ about[g] = o => f = g
          /\ o \in emitting => \A f \in Events : about[f] # o
      BY DEF EventOnce
    <3>2. offer[r] = o <=> r = o
      BY DEF Sole
    <3>3. CASE r = o
      BY <1>1, <2>3, <3>1, <3>2, <3>3
    <3>4. CASE r # o
      BY <1>1, <2>3, <3>1, <3>2, <3>4
    <3> QED
      BY <3>3, <3>4
  <2>10. Stamped'
    BY <1>1, <2>8 DEF Stamped
  <2>11. PostedOnce'
    <3> SUFFICES ASSUME NEW o \in Runs, Sole(o), decision[o] = "agent", posts[o] # 0
                 PROVE  \E f \in Events : about'[f] = o /\ runs'[f] # 0
      BY <1>1, <2>8 DEF PostedOnce
    <3>1. PICK f \in Events : about[f] = o /\ runs[f] # 0
      BY DEF PostedOnce
    <3>2. f # e
      BY <2>3, <3>1
    <3> QED
      BY <2>2, <2>3, <3>1, <3>2
  <2>12. AskPending'
    BY <1>1 DEF AskPending
  <2> QED
    BY <2>4, <2>5, <2>6, <2>7, <2>9, <2>10, <2>11, <2>12
<1> QED
  BY <1>2, <1>3 DEF EmitDrafted

\* The decision is made before anything was posted or stamped by it.
LEMMA DecideStep ==
  ASSUME RInv, NEW r \in Runs, agent_owns_approval(r)
  PROVE  RInv'
<1> USE RoutingAssumption DEF RInv, RoutingTypeOK, NoRun
<1>1. /\ rpc[r] = "flag" /\ decision[r] = "none" /\ offer[r] \in Runs
      /\ rpc' = [rpc EXCEPT ![r] = "stamp"]
      /\ decision'[r] \in {"agent", "legacy"}
      /\ \A p \in Runs \ {r} : decision'[p] = decision[p]
      /\ decision' \in [Runs -> Owners]
      /\ UNCHANGED <<vars, offers, owner, flag, offer, emitting, about, posts>>
  BY DEF agent_owns_approval, Placed, GotoR, Owners
<1>2. RoutingTypeOK'
  BY <1>1 DEF RunPCs
<1>3. Placed'
  BY <1>1 DEF Placed
<1>4. Inserted' /\ Unused' /\ AboutRecorded' /\ EventOnce'
  BY <1>1 DEF Inserted, Unused, AboutRecorded, EventOnce, Sole, vars
<1>5. Stamped'
  BY <1>1 DEF Stamped, Sole
<1>6. PostedOnce'
  BY <1>1 DEF PostedOnce, Sole, vars
<1>7. AskPending'
  BY <1>1 DEF AskPending
<1> QED
  BY <1>2, <1>3, <1>4, <1>5, <1>6, <1>7

\* The stamp is the decision of the run that writes it.
LEMMA StampStep ==
  ASSUME RInv, NEW r \in Runs, StampOwner(r)
  PROVE  RInv'
<1> USE RoutingAssumption DEF RInv, RoutingTypeOK, NoRun
<1>1. /\ rpc[r] = "stamp" /\ offer[r] \in Runs /\ decision[r] \in {"agent", "legacy"}
      /\ rpc' = [rpc EXCEPT ![r] = "post"]
      /\ owner' = [owner EXCEPT ![offer[r]] = decision[r]] \/ owner' = owner
      /\ UNCHANGED <<vars, offers, flag, offer, decision, emitting, about, posts>>
  BY DEF StampOwner, Placed, GotoR
<1>2. RoutingTypeOK'
  BY <1>1 DEF RunPCs
<1>3. Placed'
  BY <1>1 DEF Placed
<1>4. Inserted' /\ Unused' /\ AboutRecorded' /\ EventOnce'
  BY <1>1 DEF Inserted, Unused, AboutRecorded, EventOnce, Sole, vars
<1>5. Stamped'
  BY <1>1 DEF Stamped, Sole
<1>6. PostedOnce'
  BY <1>1 DEF PostedOnce, Sole, vars
<1>7. AskPending'
  BY <1>1 DEF AskPending
<1> QED
  BY <1>2, <1>3, <1>4, <1>5, <1>6, <1>7

\* A run posts once, at its end, if the decision was its own.
LEMMA SendStep ==
  ASSUME RInv, NEW r \in Runs, send_offer_to_telegram(r)
  PROVE  RInv'
<1> USE RoutingAssumption DEF RInv, RoutingTypeOK, NoRun
<1>1. /\ rpc[r] = "post" /\ offer[r] \in Runs /\ decision[r] \in {"agent", "legacy"}
      /\ rpc' = [rpc EXCEPT ![r] = "done"]
      /\ \/ decision[r] = "legacy" /\ posts' = [posts EXCEPT ![offer[r]] = @ + 1]
         \/ decision[r] = "agent" /\ posts' = posts
      /\ UNCHANGED <<vars, offers, owner, flag, offer, decision, emitting, about>>
  BY DEF send_offer_to_telegram, Placed, GotoR, Posted
<1>2. RoutingTypeOK'
  BY <1>1 DEF RunPCs
<1>3. Placed' /\ Inserted' /\ AboutRecorded' /\ EventOnce' /\ Stamped'
  BY <1>1 DEF Placed, Inserted, AboutRecorded, EventOnce, Stamped, Sole, vars
<1>4. Unused'
  BY <1>1 DEF Unused, Inserted
<1>5. PostedOnce'
  <2> SUFFICES ASSUME NEW o \in Runs, Sole(o)
               PROVE  /\ posts'[o] <= 1
                      /\ decision[o] # "agent" /\ rpc'[o] \in {"flag", "stamp", "post"} => posts'[o] = 0
                      /\ decision[o] = "agent" /\ posts'[o] # 0 =>
                           \E e \in Events : about[e] = o /\ runs[e] # 0
    BY <1>1 DEF PostedOnce, Sole, vars
  <2>1. offer[r] = o <=> r = o
    BY DEF Sole
  <2>2. CASE r = o
    <3>1. decision[o] = "legacy" => posts[o] = 0
      BY <1>1, <2>2 DEF PostedOnce
    <3> QED
      BY <1>1, <2>1, <2>2, <3>1 DEF PostedOnce
  <2>3. CASE r # o
    <3>1. posts'[o] = posts[o] /\ rpc'[o] = rpc[o]
      BY <1>1, <2>1, <2>3
    <3> QED
      BY <3>1 DEF PostedOnce
  <2> QED
    BY <2>2, <2>3
<1>6. AskPending'
  <2> SUFFICES ASSUME NEW o \in Runs, offers[o] # "none"
               PROVE  rpc'[o] \in {"flag", "stamp", "post", "failed"} \/ decision[o] = "agent" \/ posts'[o] # 0
    BY <1>1 DEF AskPending
  <2>1. offer[o] = o
    BY DEF Inserted
  <2>2. CASE r = o
    BY <1>1, <2>1, <2>2
  <2>3. CASE r # o
    BY <1>1, <2>3 DEF AskPending
  <2> QED
    BY <2>2, <2>3
<1> QED
  BY <1>2, <1>3, <1>4, <1>5, <1>6

\* The handler posts for an event it never ran for.
LEMMA HandleStep ==
  ASSUME IInv, RInv, handle_offer_drafted
  PROVE  RInv'
<1> USE RoutingAssumption DEF RInv, RoutingTypeOK, NoRun
<1>1. /\ current \in Events /\ current \in 1..recorded /\ runs[current] = 0
      /\ runs'[current] = 1 /\ \A e \in Events \ {current} : runs'[e] = runs[e]
      /\ UNCHANGED <<recorded, offers, owner, flag, rpc, offer, decision, emitting, about>>
  BY DEF handle_offer_drafted, dispatch, IInv, TypeOK, RunsAfterMark, OnlyRecorded, NoEvent
<1>2. about[current] \in Runs
  BY <1>1 DEF AboutRecorded
<1>3. CASE UNCHANGED posts
  BY <1>1, <1>3, RoutingKept
<1>4. CASE owner[about[current]] = "agent" /\ Posted(about[current])
  <2>1. posts' = [posts EXCEPT ![about[current]] = @ + 1]
    BY <1>4 DEF Posted
  <2>2. RoutingTypeOK'
    BY <1>1, <1>2, <2>1
  <2>3. Placed' /\ Inserted' /\ AboutRecorded' /\ EventOnce' /\ Stamped'
    BY <1>1 DEF Placed, Inserted, AboutRecorded, EventOnce, Stamped, Sole
  <2>4. Unused'
    BY <1>1, <1>2, <2>1 DEF Unused
  <2>5. PostedOnce'
    <3> SUFFICES ASSUME NEW o \in Runs, Sole(o)
                 PROVE  /\ posts'[o] <= 1
                        /\ decision[o] # "agent" /\ rpc[o] \in {"flag", "stamp", "post"} => posts'[o] = 0
                        /\ decision[o] = "agent" /\ posts'[o] # 0 =>
                             \E e \in Events : about[e] = o /\ runs'[e] # 0
      BY <1>1 DEF PostedOnce, Sole
    <3>1. CASE about[current] = o
      <4>1. decision[o] = "agent"
        BY <1>4, <3>1 DEF Stamped
      <4>2. posts[o] = 0
        <5>1. ~\E e \in Events : about[e] = o /\ runs[e] # 0
          BY <1>1, <3>1 DEF EventOnce
        <5> QED
          BY <4>1, <5>1 DEF PostedOnce
      <4> QED
        BY <1>1, <2>1, <3>1, <4>1, <4>2
    <3>2. CASE about[current] # o
      <4>1. posts'[o] = posts[o]
        BY <2>1, <3>2
      <4>2. \A e \in Events : runs[e] # 0 => runs'[e] # 0
        BY <1>1
      <4> QED
        BY <4>1, <4>2 DEF PostedOnce
    <3> QED
      BY <3>1, <3>2
  <2>6. AskPending'
    <3>1. \A o \in Runs : posts[o] # 0 => posts'[o] # 0
      BY <2>1
    <3> QED
      BY <1>1, <3>1 DEF AskPending
  <2> QED
    BY <2>2, <2>3, <2>4, <2>5, <2>6
<1> QED
  BY <1>3, <1>4 DEF handle_offer_drafted

\* Every step preserves the routing's invariant.
LEMMA RoutingStep == IInv /\ RInv /\ [RoutingNext]_allVars => RInv'
<1> SUFFICES ASSUME IInv, RInv, [RoutingNext]_allVars PROVE RInv'
  OBVIOUS
<1> USE DEF RoutingTypeOK
<1>1. ASSUME NEW r \in Runs, any_exists_for_inquiry(r) \/ BuildFails(r) PROVE RInv'
  <2>1. /\ UNCHANGED <<offers, owner, flag, offer, decision, emitting, about, posts, recorded, runs>>
        /\ \A p \in Runs : \/ rpc'[p] \in {rpc[p], "failed"}
                           \/ rpc[p] = "check" /\ rpc'[p] \in {"persist", "done"}
        /\ rpc' \in [Runs -> RunPCs]
    BY <1>1 DEF any_exists_for_inquiry, BuildFails, GotoR, RInv, RunPCs, vars
  <2> QED
    BY <2>1, RoutingKept DEF RInv
<1>2. ASSUME NEW o \in Runs, reject(o) PROVE RInv'
  <2>1. /\ UNCHANGED <<owner, flag, rpc, offer, decision, emitting, about, posts, recorded, runs>>
        /\ offers' \in [Runs -> Statuses]
        /\ \A p \in Runs : offers'[p] = "none" <=> offers[p] = "none"
    BY <1>2 DEF reject, RInv, Statuses, vars
  <2> QED
    BY <2>1, RoutingKept DEF RInv
<1>3. CASE Consume
  <2>1. UNCHANGED <<offers, owner, flag, rpc, offer, decision, emitting, about, posts, recorded, runs>>
    BY <1>3 DEF Consume, routing, fetch_pending, mark_consumed, mark_fails
  <2> QED
    BY <2>1, RoutingKept DEF RInv
<1>4. CASE Toggle
  <2>1. /\ UNCHANGED <<offers, owner, rpc, offer, decision, emitting, about, posts, recorded, runs>>
        /\ flag' \in BOOLEAN
    BY <1>4 DEF Toggle, vars
  <2> QED
    BY <2>1, RoutingKept DEF RInv
<1>5. CASE RestartAll
  <2>1. /\ UNCHANGED <<offers, owner, flag, offer, decision, about, posts, recorded, runs>>
        /\ emitting' = {} /\ \A r \in Runs : rpc'[r] \in {rpc[r], "failed"}
        /\ rpc' \in [Runs -> RunPCs]
    BY <1>5 DEF RestartAll, Restart, RInv, RunPCs
  <2> QED
    BY <2>1, RoutingKept DEF RInv
<1>6. CASE UNCHANGED allVars
  <2>1. UNCHANGED <<offers, owner, flag, rpc, offer, decision, emitting, about, posts, recorded, runs>>
    BY <1>6 DEF allVars, routing, vars
  <2> QED
    BY <2>1, RoutingKept DEF RInv
<1>7. ASSUME NEW r \in Runs, RunStep(r) PROVE RInv'
  BY <1>1, <1>7, BuildStep, EmitStep, DecideStep, StampStep, SendStep DEF RunStep
<1> QED
  BY <1>2, <1>3, <1>4, <1>5, <1>6, <1>7, HandleStep DEF RoutingNext

\* The routing's invariant holds in every reachable state.
LEMMA RoutingInvariance == RoutingSpec => []RInv
<1>1. RoutingInit => RInv
  BY RoutingInitInv
<1>2. IInv /\ RInv /\ [RoutingNext]_allVars => RInv'
  BY RoutingStep
<1> QED
  BY <1>1, <1>2, RoutingRunsOnOutbox, Invariance, PTL DEF RoutingSpec

\* Any number of runs, events, restarts and flips of the flag, and whatever
\* fails: an offer that one run wrote is put before the owner at most once.
THEOREM AskedOnce ==
  ASSUME IsFiniteSet(Runs)
  PROVE  RoutingSpec => []NeverAskedTwice
<1>1. RInv => NeverAskedTwice
  <2> SUFFICES ASSUME RInv, NEW o \in Runs, Cardinality({r \in Runs : offer[r] = o}) = 1
               PROVE  posts[o] <= 1
    BY DEF NeverAskedTwice
  <2>1. IsFiniteSet({r \in Runs : offer[r] = o})
    BY FS_Subset
  <2>2. PICK x : {r \in Runs : offer[r] = o} = {x}
    BY <2>1, FS_Singleton
  <2>3. x \in Runs /\ offer[x] = o
    BY <2>2
  <2>4. offer[o] = o
    BY <2>3, RoutingAssumption DEF RInv, Inserted, NoRun
  <2>5. Sole(o)
    BY <2>2, <2>4 DEF Sole
  <2> QED
    BY <2>5 DEF RInv, PostedOnce
<1> QED
  BY <1>1, RoutingInvariance, PTL

\* Where no run left the approval to the agent, every drafted offer is put
\* before the owner by its run, also when its event was lost or the stamp not
\* written.
THEOREM DraftsAreAsked == RoutingSpec => []AskedWithoutAgent
<1>1. RInv => AskedWithoutAgent
  <2> SUFFICES ASSUME RInv, Settled, \A r \in Runs : decision[r] # "agent",
                      NEW o \in Runs, offers[o] # "none"
               PROVE  posts[o] >= 1
    BY DEF AskedWithoutAgent
  <2>1. rpc[o] = "done" /\ posts[o] \in Nat
    BY DEF Settled, RInv, RoutingTypeOK
  <2>2. posts[o] # 0
    BY <2>1 DEF RInv, AskPending
  <2> QED
    BY <2>1, <2>2
<1> QED
  BY <1>1, RoutingInvariance, PTL
=============================================================================
