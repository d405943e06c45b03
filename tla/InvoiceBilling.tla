--------------------------- MODULE InvoiceBilling ---------------------------
(***************************************************************************)
(* Sending, paying and dunning the invoices of one job (an inquiry).       *)
(*                                                                         *)
(* The dashboard, the register page and the assistant call these handlers  *)
(* at any time, and each handler is a sequence of database statements      *)
(* without a transaction around them, with an SMTP dialogue in the middle  *)
(* of two of them.  A call here is one run of a handler; an action is one  *)
(* statement of it, with the reads and the mail in front of it.            *)
(***************************************************************************)
EXTENDS Integers, Sequences, FiniteSets

CONSTANTS
  Calls,          \* handler runs
  Invoices,       \* the job's invoices
  Part,           \* Part[i]: "full", "partial_first" or "partial_final"
  Ops,            \* which of AllOps are run
  RawStatuses,    \* statuses the assistant writes as they are
  JobStatuses,    \* job statuses the operator sets by hand
  Serial          \* does a call only start when no other is running?

AllOps == {"send", "patch", "register", "record", "dun"}
Lifecycle == {"accepted", "scheduled", "completed", "invoiced", "paid", "other"}
Statuses == {"draft", "ready", "sent", "paid", "overdue", "written_off", "void"}

ASSUME BillingAssumption ==
  /\ Invoices # {}
  /\ Part \in [Invoices -> {"full", "partial_first", "partial_final"}]
  /\ Ops \subseteq AllOps
  /\ RawStatuses \subseteq Statuses \ {"paid"}
  /\ JobStatuses \subseteq Lifecycle
  /\ Serial \in BOOLEAN

VARIABLES
  job,       \* the inquiry's status
  hand,      \* did the operator set it: "never", "before" a handler did, or "last"?
  inv,       \* each invoice's status
  paidAt,    \* has the invoice a paid_at?
  reminder,  \* its row of invoice_reminders
  mailed,    \* was its document mailed to the customer?
  dunned,    \* the dunning levels mailed to the customer, in order
  pc,        \* where each call is
  op,        \* its handler
  tgt,       \* the invoice it is about
  level      \* the dunning level it read

vars == <<job, hand, inv, paidAt, reminder, mailed, dunned, pc, op, tgt, level>>
status == <<job, hand>>
rows == <<status, inv, paidAt, reminder>>

NoReminder == [status |-> "none", level |-> 1, due |-> FALSE]
Pending(l) == [status |-> "pending", level |-> l, due |-> FALSE]
Reminders == [status : {"none", "pending", "closed"}, level : 1..3, due : BOOLEAN]

Running == {"smtp", "mark_sent", "to_invoiced", "remind", "mark_paid", "close", "count",
            "settle", "dun_mail", "advance"}
PCs == Running \union {"idle", "done", "failed", "crashed"}

Goto(c, l) == pc' = [pc EXCEPT ![c] = l]

\* An invoice starts as the create handler wrote it.
Written(i) == IF Part[i] = "partial_final" THEN "draft" ELSE "ready"
-----------------------------------------------------------------------------
Init ==
  /\ job \in {"accepted", "scheduled", "completed"}
  /\ hand = "never"
  /\ inv = [i \in Invoices |-> Written(i)]
  /\ paidAt = [i \in Invoices |-> FALSE]
  /\ reminder = [i \in Invoices |-> NoReminder]
  /\ mailed = [i \in Invoices |-> FALSE]
  /\ dunned = [i \in Invoices |-> <<>>]
  /\ pc = [c \in Calls |-> "idle"]
  /\ op = [c \in Calls |-> "send"]
  /\ tgt = [c \in Calls |-> CHOOSE i \in Invoices : TRUE]
  /\ level = [c \in Calls |-> 1]

Start(c, o, i, l) ==
  /\ o \in Ops
  /\ pc[c] = "idle"
  /\ Serial => \A d \in Calls : pc[d] \notin Running
  /\ op' = [op EXCEPT ![c] = o]
  /\ tgt' = [tgt EXCEPT ![c] = i]
  /\ Goto(c, l)

(***************************************************************************)
(* send_invoice_mail                                                       *)
(***************************************************************************)

\* The sendability gate, on the row and the job as they are now.
Sendable(i) ==
  IF Part[i] = "partial_first" THEN inv[i] # "draft" ELSE job = "completed"

BeginSend(c, i) ==
  /\ Sendable(i)
  /\ Start(c, "send", i, "smtp")
  /\ UNCHANGED <<rows, mailed, dunned, level>>

\* The mail is accepted, or the call ends: no document, no address, not a
\* PDF, no mail server.
Smtp(c) ==
  /\ pc[c] = "smtp"
  /\ \/ /\ mailed' = [mailed EXCEPT ![tgt[c]] = TRUE]
        /\ Goto(c, "mark_sent")
     \/ /\ UNCHANGED mailed
        /\ Goto(c, "failed")
  /\ UNCHANGED <<rows, dunned, op, tgt, level>>

\* Whatever the status has become meanwhile, it is now "sent".
mark_sent(c) ==
  /\ pc[c] = "mark_sent"
  /\ inv' = [inv EXCEPT ![tgt[c]] = "sent"]
  /\ Goto(c, "to_invoiced")
  /\ UNCHANGED <<status, paidAt, reminder, mailed, dunned, op, tgt, level>>

\* A handler moves the job's status from one of from to t, or leaves it.
Transition(from, t) ==
  IF job \in from
  THEN job' = t /\ hand' = IF hand = "last" THEN "before" ELSE hand
  ELSE UNCHANGED status

transition_inquiry_to_invoiced(c) ==
  /\ pc[c] = "to_invoiced"
  /\ Transition({"accepted", "scheduled", "completed"}, "invoiced")
  /\ Goto(c, "remind")
  /\ UNCHANGED <<inv, paidAt, reminder, mailed, dunned, op, tgt, level>>

\* A reminder in seven days, unless the invoice has one; its failure is
\* ignored.
create_reminder(c) ==
  /\ pc[c] = "remind"
  /\ \/ reminder' = [reminder EXCEPT ![tgt[c]] = IF @.status = "none" THEN Pending(1) ELSE @]
     \/ UNCHANGED reminder
  /\ Goto(c, "done")
  /\ UNCHANGED <<status, inv, paidAt, mailed, dunned, op, tgt, level>>

(***************************************************************************)
(* Payments: PATCH status = paid, the register's mark_invoice_paid (also   *)
(* cash and the assistant's mark_paid), the assistant's record_payment     *)
(***************************************************************************)

BeginPay(c, i, o) ==
  /\ o \in {"patch", "register", "record"}
  /\ Start(c, o, i, "mark_paid")
  /\ UNCHANGED <<rows, mailed, dunned, level>>

\* Only mark_invoice_paid closes the reminder, and record_payment neither
\* closes it nor looks at the job.
mark_paid(c) ==
  /\ pc[c] = "mark_paid"
  /\ inv' = [inv EXCEPT ![tgt[c]] = "paid"]
  /\ paidAt' = [paidAt EXCEPT ![tgt[c]] = TRUE]
  /\ Goto(c, IF op[c] = "register" THEN "close" ELSE IF op[c] = "patch" THEN "count" ELSE "done")
  /\ UNCHANGED <<status, reminder, mailed, dunned, op, tgt, level>>

\* Bug: only a reminder that is due is closed.
CloseIfDue(c) ==
  /\ pc[c] = "close"
  /\ reminder' = [reminder EXCEPT ![tgt[c]] = IF @.due THEN [@ EXCEPT !.status = "closed"] ELSE @]
  /\ Goto(c, "count")
  /\ UNCHANGED <<status, inv, paidAt, mailed, dunned, op, tgt, level>>

close_for_invoice(c) ==
  /\ pc[c] = "close"
  /\ reminder' = [reminder EXCEPT ![tgt[c]] =
                    IF @.status = "none" THEN @ ELSE [@ EXCEPT !.status = "closed"]]
  /\ Goto(c, "count")
  /\ UNCHANGED <<status, inv, paidAt, mailed, dunned, op, tgt, level>>

\* Bug: a draft does not count as unpaid.
CountIssued(c) ==
  /\ pc[c] = "count"
  /\ Goto(c, IF \A i \in Invoices : inv[i] \in {"paid", "draft"} THEN "settle" ELSE "done")
  /\ UNCHANGED <<rows, mailed, dunned, op, tgt, level>>

count_unpaid(c) ==
  /\ pc[c] = "count"
  /\ Goto(c, IF \A i \in Invoices : inv[i] = "paid" THEN "settle" ELSE "done")
  /\ UNCHANGED <<rows, mailed, dunned, op, tgt, level>>

\* Bug: only an invoiced job is settled.
SettleInvoiced(c) ==
  /\ pc[c] = "settle"
  /\ Transition({"invoiced"}, "paid")
  /\ Goto(c, "done")
  /\ UNCHANGED <<inv, paidAt, reminder, mailed, dunned, op, tgt, level>>

transition_inquiry_to_paid(c) ==
  /\ pc[c] = "settle"
  /\ Transition(Lifecycle \ {"paid"}, "paid")
  /\ Goto(c, "done")
  /\ UNCHANGED <<inv, paidAt, reminder, mailed, dunned, op, tgt, level>>

(***************************************************************************)
(* Dunning                                                                 *)
(***************************************************************************)

\* Bug: the mail is built for the next level.
DunNextLevel(c, i) ==
  /\ reminder[i].status = "pending"
  /\ inv[i] # "paid"
  /\ Start(c, "dun", i, "dun_mail")
  /\ level' = [level EXCEPT ![c] = reminder[i].level + 1]
  /\ UNCHANGED <<rows, mailed, dunned>>

\* send_dunning's own checks: not paid, and the step is pending.
BeginDun(c, i) ==
  /\ reminder[i].status = "pending"
  /\ inv[i] # "paid"
  /\ Start(c, "dun", i, "dun_mail")
  /\ level' = [level EXCEPT ![c] = reminder[i].level]
  /\ UNCHANGED <<rows, mailed, dunned>>

DunMail(c) ==
  /\ pc[c] = "dun_mail"
  /\ \/ /\ dunned' = [dunned EXCEPT ![tgt[c]] = Append(@, level[c])]
        /\ Goto(c, "advance")
     \/ /\ UNCHANGED dunned
        /\ Goto(c, "failed")
  /\ UNCHANGED <<rows, mailed, op, tgt, level>>

\* One step up from what the row says now, whatever its status; after the
\* third the ladder is closed.
advance(c) ==
  /\ pc[c] = "advance"
  /\ reminder' = [reminder EXCEPT ![tgt[c]] =
                    IF @.level >= 3 THEN [@ EXCEPT !.status = "closed"]
                    ELSE Pending(@.level + 1)]
  /\ Goto(c, "done")
  /\ UNCHANGED <<status, inv, paidAt, mailed, dunned, op, tgt, level>>

snooze(i) ==
  /\ "dun" \in Ops
  /\ reminder[i].due
  /\ Serial => \A d \in Calls : pc[d] \notin Running
  /\ reminder' = [reminder EXCEPT ![i] = [@ EXCEPT !.due = FALSE]]
  /\ UNCHANGED <<status, inv, paidAt, mailed, dunned, pc, op, tgt, level>>

(***************************************************************************)
(* The world around                                                        *)
(***************************************************************************)

\* The assistant's update_status writes any other status as it is.
update_status(i, s) ==
  /\ s \in RawStatuses
  /\ inv' = [inv EXCEPT ![i] = s]
  /\ UNCHANGED <<status, paidAt, reminder, mailed, dunned, pc, op, tgt, level>>

\* The operator sets the job's status: can_transition_to allows everything,
\* "paid" on a job with open invoices too.
update_inquiry(s) ==
  /\ s \in JobStatuses
  /\ job' = s
  /\ hand' = "last"
  /\ UNCHANGED <<inv, paidAt, reminder, mailed, dunned, pc, op, tgt, level>>

\* The reminder's date comes.
DateComes(i) ==
  /\ reminder[i].status # "none" /\ ~reminder[i].due
  /\ reminder' = [reminder EXCEPT ![i] = [@ EXCEPT !.due = TRUE]]
  /\ UNCHANGED <<status, inv, paidAt, mailed, dunned, pc, op, tgt, level>>

Crash(c) ==
  /\ pc[c] \in Running
  /\ Goto(c, "crashed")
  /\ UNCHANGED <<rows, mailed, dunned, op, tgt, level>>

Step(c) ==
  \/ Smtp(c) \/ mark_sent(c) \/ transition_inquiry_to_invoiced(c) \/ create_reminder(c)
  \/ mark_paid(c) \/ close_for_invoice(c) \/ count_unpaid(c) \/ transition_inquiry_to_paid(c)
  \/ DunMail(c) \/ advance(c)

Next ==
  \/ \E c \in Calls, i \in Invoices :
       BeginSend(c, i) \/ BeginDun(c, i) \/ \E o \in Ops : BeginPay(c, i, o)
  \/ \E c \in Calls : Step(c) \/ Crash(c)
  \/ \E i \in Invoices : snooze(i) \/ DateComes(i) \/ \E s \in RawStatuses : update_status(i, s)
  \/ \E s \in JobStatuses : update_inquiry(s)

Spec == Init /\ [][Next]_vars
-----------------------------------------------------------------------------
(***************************************************************************)
(* Properties                                                              *)
(***************************************************************************)

TypeOK ==
  /\ job \in Lifecycle
  /\ hand \in {"never", "before", "last"}
  /\ inv \in [Invoices -> Statuses]
  /\ paidAt \in [Invoices -> BOOLEAN]
  /\ reminder \in [Invoices -> Reminders]
  /\ mailed \in [Invoices -> BOOLEAN]
  /\ dunned \in [Invoices -> Seq(1..3)]
  /\ pc \in [Calls -> PCs]
  /\ op \in [Calls -> AllOps]
  /\ tgt \in [Calls -> Invoices]
  /\ level \in [Calls -> 1..3]

Quiet == \A c \in Calls : pc[c] \notin Running
Uncrashed == \A c \in Calls : pc[c] # "crashed"

\* A job that a handler settled has a payment date on every one of its
\* invoices, whatever calls ran at once and whichever of them died
\* (count_unpaid and the transition are two statements, and a send overwrites
\* the status).  A job the operator wrote "paid" on may have none.
SettledMeansPaid ==
  job = "paid" /\ hand # "last" => \A i \in Invoices : paidAt[i]

\* Paying the two halves at once never loses the settlement: when no call is
\* running or died, none was the assistant's record_payment, the operator never
\* set the job's status, and every invoice reads paid, the job is settled.
AllPaidSettles ==
  /\ Quiet /\ Uncrashed
  /\ \A c \in Calls : op[c] # "record"
  /\ hand = "never"
  /\ \A i \in Invoices : inv[i] = "paid"
  => job = "paid"

\* The customer is dunned in order, from the first level up, no level left
\* out, even where a crash between the mail and the advance repeats one.
LadderInOrder ==
  \A i \in Invoices : \A n \in 1..Len(dunned[i]) :
    dunned[i][n] - (IF n = 1 THEN 0 ELSE dunned[i][n - 1]) \in (IF n = 1 THEN {1} ELSE {0, 1})

\* Only an invoice that was mailed has a dunning ladder, and a job reads
\* invoiced only after a mail, unless the operator wrote it.
BilledMeansMailed ==
  /\ \A i \in Invoices : reminder[i].status # "none" => mailed[i]
  /\ job = "invoiced" /\ hand # "last" => \E i \in Invoices : mailed[i]

\* Once the register booked a payment and nothing is running, the invoice
\* has no open dunning step.
PaidIsQuiet ==
  Quiet /\ Uncrashed => \A i \in Invoices : inv[i] = "paid" => reminder[i].status # "pending"

\* What the ledger says of the job: settled or not, and by whom.
Settled ==
  IF job = "paid" THEN (IF hand = "last" THEN "by_hand" ELSE "by_system")
  ELSE (IF hand = "last" THEN "reopened" ELSE "open")

\* Payments booked and settlements, as the abstract ledger sees them: the
\* handlers settle a job only when every invoice was paid, and never take a
\* settlement back, theirs or the operator's.
Ledger == INSTANCE PaymentLedger
            WITH paid <- {i \in Invoices : paidAt[i]}, settled <- Settled
LedgerSpec == Ledger!Spec
=============================================================================
