--------------------------- MODULE StorageBilling ---------------------------
(***************************************************************************)
(* The monthly invoices of the storage contracts (Lagerung).               *)
(*                                                                         *)
(* An hourly tick bills every active contract that is due; the dashboard's *)
(* "jetzt erzeugen" bills one contract at any time.  Both run the same     *)
(* generate_invoice, whose statements interleave.  A written invoice waits *)
(* for a decision, which the dashboard and the Telegram button both run as *)
(* a call of their own: a status check, a mail, an unconditional update.   *)
(* The process may die between any two statements.                         *)
(***************************************************************************)
EXTENDS Integers, FiniteSets

CONSTANTS
  Contracts,     \* storage_contracts that may be created
  Manual,        \* calls of generate-now
  Tick,          \* the hourly task of main.rs
  Deciders,      \* calls of approve and reject
  DaysPerMonth,  \* bound: length of a month, all days up to 28
  LastDay,       \* bound: the day the calendar ends
  Dates,         \* bound: the pairs of start and end that are entered
  MaxDraws,      \* bound: numbers drawn for one slot
  MaxCrashes,    \* bound: restarts of the process
  MaxFailures,   \* bound: INSERTs of the tick that fail for one slot
  Serial         \* is a decision only taken when no other is under way?

ASSUME StorageAssumption ==
  /\ DaysPerMonth \in 1..28
  /\ LastDay \in Nat \ {0}
  /\ Dates \subseteq {t \in (1..LastDay) \X (1..(LastDay + 1)) : t[1] <= t[2]}
  /\ MaxDraws \in Nat /\ MaxCrashes \in Nat /\ MaxFailures \in Nat
  /\ Tick \notin Manual
  /\ Serial \in BOOLEAN

Days == 1..LastDay
dayOf(d) == ((d - 1) % DaysPerMonth) + 1
monthOf(d) == ((d - 1) \div DaysPerMonth) + 1
Slots == Contracts \X {monthOf(d) : d \in Days}
Gens == Manual \union {Tick}

\* contract_end NULL is the day after the last.
Terms == [status : {"none", "active", "ended", "cancelled", "deleted"}, start : Days, end : 1..(LastDay + 1)]

VARIABLES
  day,        \* today, in Europe/Berlin
  contract,   \* storage_contracts
  rows,       \* storage_invoices
  drawn,      \* how many numbers were drawn for each slot
  pc,         \* where each generator and each decision is
  todo,       \* the due slots of the tick's listing it has not reached yet
  at,         \* the slot each generator bills
  target,     \* the row each decision is about
  crashes,    \* restarts so far
  failed      \* the tick's INSERTs that failed so far, for each slot

faults == <<crashes, failed>>
vars == <<day, contract, rows, drawn, pc, todo, at, target, faults>>

NoSlot == <<>>
\* A row: its slot and writer, its document, how often it was mailed, and
\* whether a payment was booked on it.
Row == [slot : Slots, by : Gens, status : {"pending_approval", "sent", "paid", "cancelled"},
        doc : {"none", "pdf", "xlsx"}, mails : Nat, paid : BOOLEAN]
IdOf(x) == <<x.slot, x.by>>
Ids == Slots \X Gens
At(id) == {x \in rows : IdOf(x) = id}
In(s) == {x \in rows : x.slot = s}

Generating == {"next", "check", "draw", "insert", "render"}
Deciding == {"smtp", "mark", "cancel"}
PCs == Generating \union Deciding \union {"idle", "done"}

Goto(p, l) == pc' = [pc EXCEPT ![p] = l]
\* The tick goes on with the next contract, a call ends.
Finish(g) == Goto(g, IF g = Tick THEN "next" ELSE "done")
Put(x, y) == rows' = (rows \ {x}) \union {y}
-----------------------------------------------------------------------------
Init ==
  /\ day = 1
  /\ contract = [c \in Contracts |-> [status |-> "none", start |-> 1, end |-> 1]]
  /\ rows = {}
  /\ drawn = [s \in Slots |-> 0]
  /\ pc = [p \in Gens \union Deciders |-> "idle"]
  /\ todo = {}
  /\ at = [g \in Gens |-> NoSlot]
  /\ target = [d \in Deciders |-> NoSlot]
  /\ crashes = 0
  /\ failed = [s \in Slots |-> 0]

(***************************************************************************)
(* Contracts and the calendar                                              *)
(***************************************************************************)

NextDay ==
  /\ day < LastDay
  /\ day' = day + 1
  /\ UNCHANGED <<contract, rows, drawn, pc, todo, at, target, faults>>

Exists(c) == contract[c].status \notin {"none", "deleted"}

insert_contract(c, first, last) ==
  /\ contract[c].status = "none"
  /\ contract' = [contract EXCEPT ![c] = [status |-> "active", start |-> first, end |-> last]]
  /\ UNCHANGED <<day, rows, drawn, pc, todo, at, target, faults>>

\* Every field is overwritten; the billing day follows the start.
update_contract(c, s, first, last) ==
  /\ Exists(c)
  /\ contract' = [contract EXCEPT ![c] = [status |-> s, start |-> first, end |-> last]]
  /\ UNCHANGED <<day, rows, drawn, pc, todo, at, target, faults>>

\* Invoices keep their contract (ON DELETE RESTRICT).
delete_contract(c) ==
  /\ Exists(c)
  /\ \A x \in rows : x.slot[1] # c
  /\ contract' = [contract EXCEPT ![c] = [@ EXCEPT !.status = "deleted"]]
  /\ UNCHANGED <<day, rows, drawn, pc, todo, at, target, faults>>

(***************************************************************************)
(* Generating                                                              *)
(***************************************************************************)

\* Bug: only on the anniversary day itself.
due_that_day(k, d) == k.start <= d /\ d <= k.end /\ dayOf(k.start) = dayOf(d)

\* due_period: in its term, and on or after the anniversary day (billing_day
\* is the day of contract_start, at most 28).
due_period(k, d) == k.start <= d /\ d <= k.end /\ dayOf(k.start) <= dayOf(d)
DueNow(c) == contract[c].status = "active" /\ due_period(contract[c], day)

\* A tick lists the active contracts and reads the date once.
list_active_contracts ==
  /\ pc[Tick] = "idle"
  /\ todo' = {<<c, monthOf(day)>> : c \in {k \in Contracts : DueNow(k)}}
  /\ todo' # {}
  /\ Goto(Tick, "next")
  /\ UNCHANGED <<day, contract, rows, drawn, at, target, faults>>

\* The next contract of the listing, for the month that was read then; after
\* the last one the tick sleeps until the next hour.
NextListed ==
  /\ pc[Tick] = "next"
  /\ \/ \E s \in todo :
          /\ todo' = todo \ {s}
          /\ at' = [at EXCEPT ![Tick] = s]
          /\ Goto(Tick, "check")
     \/ /\ todo = {}
        /\ at' = [at EXCEPT ![Tick] = NoSlot]
        /\ Goto(Tick, "idle")
        /\ UNCHANGED todo
  /\ UNCHANGED <<day, contract, rows, drawn, target, faults>>

\* "Jetzt erzeugen": the current month, whatever the billing day and status.
generate_for_contract(g, c) ==
  /\ g # Tick
  /\ pc[g] = "idle"
  /\ Exists(c)
  /\ at' = [at EXCEPT ![g] = <<c, monthOf(day)>>]
  /\ Goto(g, "check")
  /\ UNCHANGED <<day, contract, rows, drawn, todo, target, faults>>

\* Bug: the slot is not looked up before a number is drawn.
NoLookup(g) ==
  /\ pc[g] = "check"
  /\ Goto(g, "draw")
  /\ UNCHANGED <<day, contract, rows, drawn, todo, at, target, faults>>

period_billed(g) ==
  /\ pc[g] = "check"
  /\ IF In(at[g]) # {} THEN Finish(g) ELSE Goto(g, "draw")
  /\ UNCHANGED <<day, contract, rows, drawn, todo, at, target, faults>>

next_invoice_number(g) ==
  /\ pc[g] = "draw"
  /\ drawn[at[g]] < MaxDraws
  /\ drawn' = [drawn EXCEPT ![at[g]] = @ + 1]
  /\ Goto(g, "insert")
  /\ UNCHANGED <<day, contract, rows, todo, at, target, faults>>

NewRow(g) == [slot |-> at[g], by |-> g, status |-> "pending_approval", doc |-> "none",
              mails |-> 0, paid |-> FALSE]

\* Bug: no unique constraint on the period.
InsertAlways(g) ==
  /\ pc[g] = "insert"
  /\ rows' = rows \union {NewRow(g)}
  /\ Goto(g, "render")
  /\ UNCHANGED <<day, contract, drawn, todo, at, target, faults>>

\* ON CONFLICT (contract_id, period_year, period_month) DO NOTHING; the
\* foreign key refuses a contract deleted meanwhile.  A number that is taken
\* or the database may fail the INSERT: the tick logs it, goes on with the
\* next contract and draws another number an hour later.
insert_invoice(g) ==
  /\ pc[g] = "insert"
  /\ \/ /\ In(at[g]) = {} /\ contract[at[g][1]].status # "deleted"
        /\ rows' = rows \union {NewRow(g)}
        /\ Goto(g, "render")
        /\ UNCHANGED failed
     \/ /\ In(at[g]) # {} \/ contract[at[g][1]].status = "deleted"
        /\ Finish(g)
        /\ UNCHANGED <<rows, failed>>
     \/ /\ g = Tick => failed[at[g]] < MaxFailures
        /\ failed' = [failed EXCEPT ![at[g]] = IF g = Tick THEN @ + 1 ELSE @]
        /\ Finish(g)
        /\ UNCHANGED rows
  /\ UNCHANGED <<day, contract, drawn, todo, at, target, crashes>>

\* The sheet is converted, uploaded and its key stored on the row; without a
\* converter it is stored as XLSX; building or uploading it may fail.
render_pdf(g) ==
  /\ pc[g] = "render"
  /\ \E x \in At(<<at[g], g>>), d \in {"none", "pdf", "xlsx"} : Put(x, [x EXCEPT !.doc = d])
  /\ Finish(g)
  /\ UNCHANGED <<day, contract, drawn, todo, at, target, faults>>

(***************************************************************************)
(* Deciding                                                                *)
(***************************************************************************)

Alone == Serial => \A d \in Deciders : pc[d] \notin Deciding

\* approve_and_send reads the row: handled ones are a no-op, cancelled ones an
\* error, and one without a PDF cannot be sent.
approve_and_send(d, x) ==
  /\ Alone
  /\ pc[d] = "idle"
  /\ x.status = "pending_approval" /\ x.doc = "pdf"
  /\ target' = [target EXCEPT ![d] = IdOf(x)]
  /\ Goto(d, "smtp")
  /\ UNCHANGED <<day, contract, rows, drawn, todo, at, faults>>

\* Bug: the row is marked although the mail failed.
SmtpIgnored(d) ==
  /\ pc[d] = "smtp"
  /\ rows' \in {rows} \union
       {(rows \ {x}) \union {[x EXCEPT !.mails = @ + 1]} : x \in At(target[d])}
  /\ Goto(d, "mark")
  /\ UNCHANGED <<day, contract, drawn, todo, at, target, faults>>

Smtp(d) ==
  /\ pc[d] = "smtp"
  /\ \/ /\ \E x \in At(target[d]) : Put(x, [x EXCEPT !.mails = @ + 1])
        /\ Goto(d, "mark")
     \/ /\ UNCHANGED rows
        /\ Goto(d, "done")
  /\ UNCHANGED <<day, contract, drawn, todo, at, target, faults>>

\* No condition on the status it replaces.
mark_invoice_approved_sent(d) ==
  /\ pc[d] = "mark"
  /\ \E x \in At(target[d]) : Put(x, [x EXCEPT !.status = "sent"])
  /\ Goto(d, "done")
  /\ UNCHANGED <<day, contract, drawn, todo, at, target, faults>>

\* Bug: only a sent invoice is kept from rejection.
RejectPaid(d, x) ==
  /\ Alone
  /\ pc[d] = "idle"
  /\ x.status # "sent"
  /\ target' = [target EXCEPT ![d] = IdOf(x)]
  /\ Goto(d, "cancel")
  /\ UNCHANGED <<day, contract, rows, drawn, todo, at, faults>>

\* reject reads the row ...
reject(d, x) ==
  /\ Alone
  /\ pc[d] = "idle"
  /\ x.status \notin {"sent", "paid"}
  /\ target' = [target EXCEPT ![d] = IdOf(x)]
  /\ Goto(d, "cancel")
  /\ UNCHANGED <<day, contract, rows, drawn, todo, at, faults>>

\* ... and cancels it whatever it is by now.
mark_invoice_rejected(d) ==
  /\ pc[d] = "cancel"
  /\ \E x \in At(target[d]) : Put(x, [x EXCEPT !.status = "cancelled"])
  /\ Goto(d, "done")
  /\ UNCHANGED <<day, contract, drawn, todo, at, target, faults>>

\* The register books a payment, in one conditional statement.
mark_invoice_paid(x) ==
  /\ Alone
  /\ x.status # "cancelled"
  /\ Put(x, [x EXCEPT !.status = "paid", !.paid = TRUE])
  /\ UNCHANGED <<day, contract, drawn, pc, todo, at, target, faults>>

\* The process restarts: the tick starts over, the calls under way are lost.
Crash ==
  /\ crashes < MaxCrashes
  /\ \E p \in Gens \union Deciders : pc[p] \in Generating \union Deciding
  /\ crashes' = crashes + 1
  /\ pc' = [p \in Gens \union Deciders |->
              IF pc[p] \notin Generating \union Deciding THEN pc[p]
              ELSE IF p = Tick THEN "idle" ELSE "done"]
  /\ todo' = {}
  /\ at' = [at EXCEPT ![Tick] = NoSlot]
  /\ UNCHANGED <<day, contract, rows, drawn, target, failed>>

GenStep(g) ==
  period_billed(g) \/ next_invoice_number(g) \/ insert_invoice(g) \/ render_pdf(g)
TickStep == list_active_contracts \/ NextListed \/ GenStep(Tick)
Decide(d) ==
  \/ \E x \in rows : approve_and_send(d, x) \/ reject(d, x)
  \/ Smtp(d) \/ mark_invoice_approved_sent(d) \/ mark_invoice_rejected(d)

Next ==
  \/ NextDay \/ Crash \/ TickStep
  \/ \E c \in Contracts :
       \/ \E t \in Dates :
            \/ insert_contract(c, t[1], t[2])
            \/ \E s \in {"active", "ended", "cancelled"} : update_contract(c, s, t[1], t[2])
       \/ delete_contract(c)
       \/ \E g \in Manual : generate_for_contract(g, c)
  \/ \E g \in Manual : GenStep(g)
  \/ \E d \in Deciders : Decide(d)
  \/ \E x \in rows : mark_invoice_paid(x)

Spec == Init /\ [][Next]_vars

\* The interval timer of main.rs keeps ticking while the process is up.
FairSpec == Spec /\ WF_vars(TickStep)
-----------------------------------------------------------------------------
(***************************************************************************)
(* Properties                                                              *)
(***************************************************************************)

TypeOK ==
  /\ day \in Days
  /\ contract \in [Contracts -> Terms]
  /\ rows \subseteq Row
  /\ drawn \in [Slots -> 0..MaxDraws]
  /\ pc \in [Gens \union Deciders -> PCs]
  /\ todo \subseteq Slots
  /\ at \in [Gens -> Slots \union {NoSlot}]
  /\ target \in [Deciders -> Ids \union {NoSlot}]
  /\ crashes \in 0..MaxCrashes
  /\ failed \in [Slots -> 0..MaxFailures]

\* A contract is billed at most once a month, also when the tick and several
\* "jetzt erzeugen" calls run at once and the process restarts between them.
BilledOncePerMonth == \A x, y \in rows : x.slot = y.slot => x = y

\* "Losing that race burns a single number": for a month, each "jetzt
\* erzeugen" call draws at most one number and all the hourly ticks together
\* at most one, plus one for each restart and each INSERT of theirs that failed.
NumbersBurned ==
  \A s \in Slots : drawn[s] <= 1 + crashes + failed[s] + Cardinality({g \in Manual : at[g] = s})

\* Only a mailed invoice ever reads sent, and only a PDF is mailed.
SentWasMailed ==
  \A x \in rows : (x.status = "sent" => x.mails > 0) /\ (x.mails > 0 => x.doc = "pdf")

\* A booked payment is not undone by a later decision, when they are taken
\* one at a time.
PaymentStands == [][Serial => \A x \in rows : x.paid => \E y \in rows' : IdOf(y) = IdOf(x) /\ y.status = "paid"]_vars

\* "Errors on a single contract are logged and skipped so one bad row can't
\* block the rest", "with catch-up if a tick is missed": a contract that is
\* due is billed, unless the month passes, or the contract ends or is changed
\* first.
DueIsBilled ==
  \A c \in Contracts, d \in Days :
    LET Owed == /\ contract[c].status = "active"
                /\ contract[c].start <= day /\ day <= contract[c].end
                /\ dayOf(contract[c].start) <= dayOf(day)
    IN (day = d /\ Owed) ~> (In(<<c, monthOf(d)>>) # {} \/ monthOf(day) # monthOf(d) \/ ~Owed)
=============================================================================
