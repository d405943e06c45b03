----------------------------- MODULE OfferRouting -----------------------------
(***************************************************************************)
(* Who asks the owner to approve an automatically drafted offer.           *)
(*                                                                         *)
(* Every task that completes an inquiry's data runs                        *)
(* try_auto_generate_offer.  It writes the draft, hands offer.drafted to a *)
(* task of its own that records it in the outbox, reads the flag           *)
(* agent_owns_approval, stamps the decision on the offer, and posts to     *)
(* Telegram itself when the flag is off.  The consumer of the outbox posts *)
(* when it finds the offer stamped "agent".                                *)
(*                                                                         *)
(* The offers are those of one inquiry; an offer is named by the run that  *)
(* inserted it.  The outbox is the one of EventOutbox, without its sweep,  *)
(* which leaves alone what is read here.                                   *)
(***************************************************************************)
EXTENDS EventOutbox

CONSTANTS
  Runs,        \* runs of try_auto_generate_offer
  Faults,      \* which of AllFaults may happen
  MayToggle    \* does the flag change?

AllFaults == {"lookup", "build", "emit", "stamp", "mark"}
ASSUME RoutingAssumption ==
  Faults \subseteq AllFaults /\ MayToggle \in BOOLEAN /\ "none" \notin Runs

VARIABLES
  offers,     \* the status of each run's offer
  owner,      \* approval_owner of each offer
  flag,       \* agent_owns_approval
  rpc,        \* where each run is
  offer,      \* the offer each run wrote
  decision,   \* what it made of the flag
  emitting,   \* runs whose event is not recorded yet
  about,      \* the offer of each recorded event
  posts       \* approval messages sent off for each offer

routing == <<offers, owner, flag, rpc, offer, decision, emitting, about, posts>>
allVars == <<vars, routing>>

Statuses == {"none", "active", "rejected"}
Active == {o \in Runs : offers[o] = "active"}
NoRun == "none"
GotoR(r, l) == rpc' = [rpc EXCEPT ![r] = l]
Fails(f) == f \in Faults
-----------------------------------------------------------------------------
RoutingInit ==
  /\ Init
  /\ offers = [r \in Runs |-> "none"]
  /\ owner = [r \in Runs |-> "none"]
  /\ flag \in (IF MayToggle THEN BOOLEAN ELSE {FALSE})
  /\ rpc = [r \in Runs |-> "check"]
  /\ offer = [r \in Runs |-> NoRun]
  /\ decision = [r \in Runs |-> "none"]
  /\ emitting = {}
  /\ about = [e \in Events |-> NoRun]
  /\ posts = [r \in Runs |-> 0]

\* An offer in any status ends the run; a lookup that fails counts as none.
any_exists_for_inquiry(r) ==
  /\ rpc[r] = "check"
  /\ \/ GotoR(r, IF \E o \in Runs : offers[o] # "none" THEN "done" ELSE "persist")
     \/ Fails("lookup") /\ GotoR(r, "persist")
  /\ UNCHANGED <<vars, offers, owner, flag, offer, decision, emitting, about, posts>>

\* build_offer rendered the document, which takes seconds.  Under the
\* inquiry's advisory lock it adopts the active offer or inserts its own.
\* Then the event goes to a task of its own.
build_offer(r) ==
  /\ rpc[r] = "persist"
  /\ \E o \in (IF Active # {} THEN Active ELSE {r}) :
       /\ offer' = [offer EXCEPT ![r] = o]
       /\ offers' = [offers EXCEPT ![o] = "active"]
  /\ emitting' = emitting \union {r}
  /\ GotoR(r, "flag")
  /\ UNCHANGED <<vars, owner, flag, decision, about, posts>>

\* The error is posted, the run ends.
BuildFails(r) ==
  /\ rpc[r] = "persist"
  /\ Fails("build")
  /\ GotoR(r, "failed")
  /\ UNCHANGED <<vars, offers, owner, flag, offer, decision, emitting, about, posts>>

\* The spawned task: the event is recorded, or the failure is logged.
EmitDrafted(r) ==
  /\ r \in emitting
  /\ emitting' = emitting \ {r}
  /\ \/ emit /\ about' = [about EXCEPT ![recorded + 1] = offer[r]]
     \/ Fails("emit") /\ UNCHANGED <<vars, about>>
  /\ UNCHANGED <<offers, owner, flag, rpc, offer, decision, posts>>

agent_owns_approval(r) ==
  /\ rpc[r] = "flag"
  /\ decision' = [decision EXCEPT ![r] = IF flag THEN "agent" ELSE "legacy"]
  /\ GotoR(r, "stamp")
  /\ UNCHANGED <<vars, offers, owner, flag, offer, emitting, about, posts>>

\* Bug: a stamp that fails ends the run.
StampOrEnd(r) ==
  /\ rpc[r] = "stamp"
  /\ \/ owner' = [owner EXCEPT ![offer[r]] = decision[r]] /\ GotoR(r, "post")
     \/ Fails("stamp") /\ UNCHANGED owner /\ GotoR(r, "done")
  /\ UNCHANGED <<vars, offers, flag, offer, decision, emitting, about, posts>>

\* The stamp is written, or its failure is logged.
StampOwner(r) ==
  /\ rpc[r] = "stamp"
  /\ \/ owner' = [owner EXCEPT ![offer[r]] = decision[r]]
     \/ Fails("stamp") /\ UNCHANGED owner
  /\ GotoR(r, "post")
  /\ UNCHANGED <<vars, offers, flag, offer, decision, emitting, about, posts>>

Posted(o) == posts' = [posts EXCEPT ![o] = @ + 1]

\* send_offer_to_telegram, unless the agent owns the approval.
send_offer_to_telegram(r) ==
  /\ rpc[r] = "post"
  /\ \/ decision[r] = "legacy" /\ Posted(offer[r])
     \/ decision[r] = "agent" /\ UNCHANGED posts
  /\ GotoR(r, "done")
  /\ UNCHANGED <<vars, offers, owner, flag, offer, decision, emitting, about>>

\* Bug: the handler reads the flag, not the stamp.
HandleByFlag ==
  /\ dispatch
  /\ IF flag THEN Posted(about[current]) ELSE UNCHANGED posts
  /\ UNCHANGED <<offers, owner, flag, rpc, offer, decision, emitting, about>>

\* The consumer runs the handler of the event it marked.  An offer that
\* cannot be read is skipped.
handle_offer_drafted ==
  /\ dispatch
  /\ \/ owner[about[current]] = "agent" /\ Posted(about[current])
     \/ owner[about[current]] # "agent" /\ UNCHANGED posts
     \/ Fails("lookup") /\ UNCHANGED posts
  /\ UNCHANGED <<offers, owner, flag, rpc, offer, decision, emitting, about>>

Consume ==
  /\ \/ fetch_pending
     \/ \E e \in Events : mark_consumed(e) \/ (Fails("mark") /\ mark_fails(e))
  /\ UNCHANGED routing

\* The owner denies an offer.
reject(o) ==
  /\ offers[o] = "active"
  /\ offers' = [offers EXCEPT ![o] = "rejected"]
  /\ UNCHANGED <<vars, owner, flag, rpc, offer, decision, emitting, about, posts>>

Toggle ==
  /\ MayToggle
  /\ flag' = ~flag
  /\ UNCHANGED <<vars, offers, owner, rpc, offer, decision, emitting, about, posts>>

\* A restart ends the runs under way and the tasks they spawned.
RestartAll ==
  /\ Restart
  /\ rpc' = [r \in Runs |-> IF rpc[r] = "done" THEN "done" ELSE "failed"]
  /\ emitting' = {}
  /\ UNCHANGED <<offers, owner, flag, offer, decision, about, posts>>

RunStep(r) ==
  \/ any_exists_for_inquiry(r) \/ build_offer(r) \/ BuildFails(r) \/ EmitDrafted(r)
  \/ agent_owns_approval(r) \/ StampOwner(r) \/ send_offer_to_telegram(r)

RoutingNext ==
  \/ \E r \in Runs : RunStep(r) \/ reject(r)
  \/ Consume \/ handle_offer_drafted
  \/ Toggle \/ RestartAll

RoutingSpec == RoutingInit /\ [][RoutingNext]_allVars
-----------------------------------------------------------------------------
(***************************************************************************)
(* Properties                                                              *)
(***************************************************************************)

\* The owner is never asked twice for an offer that one run wrote, whatever
\* the flag does meanwhile and whatever fails: the handler goes by the stamp.
NeverAskedTwice ==
  \A o \in Runs : Cardinality({r \in Runs : offer[r] = o}) = 1 => posts[o] <= 1

\* Nothing is under way, and nothing was cut off.
Settled ==
  /\ \A r \in Runs : rpc[r] = "done"
  /\ emitting = {} /\ Pending = {} /\ batch = {} /\ current = NoEvent

\* Where every run read the flag as off, the owner was asked for every
\* drafted offer, also when an event was lost or a stamp not written.
AskedWithoutAgent ==
  Settled /\ (\A r \in Runs : decision[r] # "agent")
    => \A o \in Runs : offers[o] # "none" => posts[o] >= 1
=============================================================================
