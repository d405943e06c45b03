------------------------ MODULE InvoiceBilling_proofs ------------------------
(***************************************************************************)
(* Proofs about InvoiceBilling, for any number of invoices and of calls    *)
(* that interleave, fail and die at every statement.                       *)
(***************************************************************************)
EXTENDS InvoiceBilling, SequenceTheorems, TLAPS

\* The status paid is only ever written together with the payment date,
\* which nothing takes away.
PaidHasDate == \A i \in Invoices : inv[i] = "paid" => paidAt[i]

\* A call that is about to settle saw every invoice paid.
SettlesPaid == \A c \in Calls : pc[c] = "settle" => \A i \in Invoices : paidAt[i]

\* A call past the mail has mailed.
MailedFirst ==
  \A c \in Calls : pc[c] \in {"mark_sent", "to_invoiced", "remind"} => mailed[tgt[c]]

\* A dunning call is about an invoice with a ladder.
DunsLadder ==
  \A c \in Calls : pc[c] \in {"dun_mail", "advance"} => reminder[tgt[c]].status # "none"

LadderMailed == \A i \in Invoices : reminder[i].status # "none" => mailed[i]

InvoicedMailed ==
  job = "invoiced" /\ hand # "last" => \E i \in Invoices : mailed[i]

\* The inductive invariant.
IInv ==
  /\ TypeOK
  /\ PaidHasDate /\ SettlesPaid /\ SettledMeansPaid
  /\ MailedFirst /\ DunsLadder /\ LadderMailed /\ InvoicedMailed

\* The inductive invariant holds before any call.
LEMMA InitInv == Init => IInv
<1> SUFFICES ASSUME Init PROVE IInv
  OBVIOUS
<1> USE BillingAssumption DEF Init, Written, NoReminder
<1>1. TypeOK
  BY DEF TypeOK, Lifecycle, Statuses, Reminders, PCs, Running, AllOps
<1>2. PaidHasDate /\ SettlesPaid /\ SettledMeansPaid
  BY DEF PaidHasDate, SettlesPaid, SettledMeansPaid
<1>3. MailedFirst /\ DunsLadder /\ LadderMailed /\ InvoicedMailed
  BY DEF MailedFirst, DunsLadder, LadderMailed, InvoicedMailed
<1> QED
  BY <1>1, <1>2, <1>3 DEF IInv

\* A call that starts changes nothing but itself.
LEMMA StartStep ==
  ASSUME IInv, NEW c \in Calls, NEW i \in Invoices, NEW o, NEW l,
         Start(c, o, i, l), UNCHANGED <<rows, mailed, dunned>>,
         level' \in [Calls -> 1..3],
         l \in {"smtp", "mark_paid"} \/ (l = "dun_mail" /\ reminder[i].status # "none")
  PROVE  IInv'
<1> USE BillingAssumption DEF IInv, Start, Goto, rows, status, TypeOK
<1>1. TypeOK'
  BY DEF PCs, Running
<1>2. PaidHasDate' /\ SettlesPaid' /\ SettledMeansPaid'
  BY DEF PaidHasDate, SettlesPaid, SettledMeansPaid
<1>3. MailedFirst' /\ DunsLadder' /\ LadderMailed' /\ InvoicedMailed'
  BY DEF MailedFirst, DunsLadder, LadderMailed, InvoicedMailed
<1> QED
  BY <1>1, <1>2, <1>3

\* A fresh row of the ladder is one.
LEMMA PendingRow ==
  \A l \in 1..3 : Pending(l) \in Reminders /\ Pending(l).status = "pending"
BY DEF Pending, Reminders

\* What a step does to the reminders: no ladder disappears, and none appears
\* for an invoice that was not mailed.
LaddersKept ==
  /\ reminder' \in [Invoices -> Reminders]
  /\ LadderMailed'
  /\ \A j \in Invoices : reminder[j].status # "none" => reminder'[j].status # "none"

\* A row of invoice_reminders that is written stays a ladder if it was one,
\* and becomes one only for a mailed invoice.
LEMMA ReminderWritten ==
  ASSUME IInv, UNCHANGED mailed, NEW i \in Invoices, NEW r \in Reminders,
         reminder' = [reminder EXCEPT ![i] = r],
         r.status # "none" => mailed[i],
         reminder[i].status # "none" => r.status # "none"
  PROVE  LaddersKept
<1>1. reminder \in [Invoices -> Reminders]
  BY DEF IInv, TypeOK
<1>2. \A j \in Invoices : reminder'[j] = IF j = i THEN r ELSE reminder[j]
  BY <1>1
<1>3. reminder' \in [Invoices -> Reminders]
  BY <1>1
<1>4. LadderMailed'
  BY <1>2 DEF LadderMailed, IInv
<1> QED
  BY <1>2, <1>3, <1>4 DEF LaddersKept

\* A step that writes reminders, and moves at most its own call to the count
\* or to its end, preserves the inductive invariant.
LEMMA ReminderStep ==
  ASSUME IInv, UNCHANGED <<status, inv, paidAt, mailed, dunned, op, tgt, level>>,
         LaddersKept,
         pc' = pc \/ \E c \in Calls : Goto(c, "done") \/ Goto(c, "count")
  PROVE  IInv'
<1> USE DEF IInv, TypeOK, LaddersKept, status
<1>1. pc' \in [Calls -> PCs]
  BY DEF Goto, PCs, Running
<1>2. \A d \in Calls : pc'[d] \in {pc[d], "done", "count"}
  BY DEF Goto
<1>3. TypeOK'
  BY <1>1
<1>4. PaidHasDate' /\ SettlesPaid' /\ SettledMeansPaid'
  BY <1>2 DEF PaidHasDate, SettlesPaid, SettledMeansPaid
<1>5. MailedFirst' /\ InvoicedMailed'
  BY <1>2 DEF MailedFirst, InvoicedMailed
<1>6. DunsLadder'
  BY <1>2 DEF DunsLadder
<1> QED
  BY <1>3, <1>4, <1>5, <1>6

\* Every step preserves the inductive invariant.
LEMMA StepInv == IInv /\ [Next]_vars => IInv'
<1> SUFFICES ASSUME IInv, [Next]_vars PROVE IInv'
  OBVIOUS
<1> USE BillingAssumption
<1>1. ASSUME NEW c \in Calls, NEW i \in Invoices, BeginSend(c, i) PROVE IInv'
  BY <1>1, StartStep DEF BeginSend, IInv, TypeOK
<1>2. ASSUME NEW c \in Calls, NEW i \in Invoices, BeginDun(c, i) PROVE IInv'
  <2>1. level' \in [Calls -> 1..3]
    BY <1>2 DEF BeginDun, IInv, TypeOK, Reminders
  <2> QED
    BY <1>2, <2>1, StartStep DEF BeginDun
<1>3. ASSUME NEW c \in Calls, NEW i \in Invoices, NEW o \in Ops, BeginPay(c, i, o) PROVE IInv'
  BY <1>3, StartStep DEF BeginPay, IInv, TypeOK
<1>4. ASSUME NEW c \in Calls, create_reminder(c) PROVE IInv'
  <2> DEFINE r == IF reminder[tgt[c]].status = "none" THEN Pending(1) ELSE reminder[tgt[c]]
  <2>1. tgt[c] \in Invoices /\ reminder[tgt[c]] \in Reminders
    BY <1>4 DEF IInv, TypeOK
  <2>2. PICK s \in Reminders : s = r
    BY <2>1, PendingRow
  <2>3. s.status # "none" /\ mailed[tgt[c]]
    BY <1>4, <2>2, PendingRow DEF create_reminder, IInv, MailedFirst
  <2>4. LaddersKept
    <3>1. CASE reminder' = [reminder EXCEPT ![tgt[c]] = r]
      <4>1. reminder' = [reminder EXCEPT ![tgt[c]] = s]
        BY <2>2, <3>1
      <4> HIDE DEF r
      <4> QED
        BY <1>4, <2>1, <2>3, <4>1, ReminderWritten DEF create_reminder
    <3>2. CASE UNCHANGED reminder
      BY <1>4, <3>2 DEF create_reminder, LaddersKept, LadderMailed, IInv, TypeOK
    <3> QED
      BY <1>4, <3>1, <3>2 DEF create_reminder
  <2> QED
    BY <1>4, <2>4, ReminderStep DEF create_reminder
<1>5. ASSUME NEW c \in Calls, close_for_invoice(c) PROVE IInv'
  <2> DEFINE r == IF reminder[tgt[c]].status = "none" THEN reminder[tgt[c]]
                  ELSE [reminder[tgt[c]] EXCEPT !.status = "closed"]
  <2>1. tgt[c] \in Invoices /\ reminder[tgt[c]] \in Reminders
    BY <1>5 DEF IInv, TypeOK
  <2>2. PICK s \in Reminders : s = r
    BY <2>1 DEF Reminders
  <2>3. reminder' = [reminder EXCEPT ![tgt[c]] = s]
    BY <1>5, <2>2 DEF close_for_invoice
  <2>4. /\ reminder[tgt[c]].status # "none" => s.status # "none"
        /\ s.status # "none" => mailed[tgt[c]]
    BY <2>1, <2>2 DEF Reminders, IInv, LadderMailed
  <2>5. LaddersKept
    BY <1>5, <2>1, <2>3, <2>4, ReminderWritten DEF close_for_invoice
  <2> QED
    BY <1>5, <2>5, ReminderStep DEF close_for_invoice
<1>6. ASSUME NEW c \in Calls, advance(c) PROVE IInv'
  <2> DEFINE r == IF reminder[tgt[c]].level >= 3
                  THEN [reminder[tgt[c]] EXCEPT !.status = "closed"]
                  ELSE Pending(reminder[tgt[c]].level + 1)
  <2>1. /\ tgt[c] \in Invoices /\ reminder[tgt[c]] \in Reminders
        /\ reminder[tgt[c]].level \in 1..3
    BY <1>6 DEF IInv, TypeOK, Reminders
  <2>2. r \in Reminders /\ r.status # "none"
    <3>1. CASE reminder[tgt[c]].level >= 3
      BY <2>1, <3>1 DEF Reminders
    <3>2. CASE ~(reminder[tgt[c]].level >= 3)
      BY <2>1, <3>2, PendingRow
    <3> QED
      BY <3>1, <3>2
  <2>3. PICK s \in Reminders : s = r
    BY <2>2
  <2>4. reminder' = [reminder EXCEPT ![tgt[c]] = r]
    BY <1>6 DEF advance
  <2>5. reminder' = [reminder EXCEPT ![tgt[c]] = s] /\ s.status # "none"
    <3> HIDE DEF r
    <3> QED
      BY <2>2, <2>3, <2>4
  <2>6. mailed[tgt[c]]
    BY <1>6, <2>1 DEF advance, IInv, DunsLadder, LadderMailed
  <2>7. LaddersKept
    BY <1>6, <2>1, <2>5, <2>6, ReminderWritten DEF advance
  <2> QED
    BY <1>6, <2>7, ReminderStep DEF advance
<1>7. ASSUME NEW i \in Invoices, snooze(i) PROVE IInv'
  <2> DEFINE r == [reminder[i] EXCEPT !.due = FALSE]
  <2>1. i \in Invoices /\ reminder[i] \in Reminders
    BY <1>7 DEF IInv, TypeOK
  <2>2. PICK s \in Reminders : s = r
    BY <2>1 DEF Reminders
  <2>3. reminder' = [reminder EXCEPT ![i] = s]
    BY <1>7, <2>2 DEF snooze
  <2>4. /\ reminder[i].status # "none" => s.status # "none"
        /\ s.status # "none" => mailed[i]
    BY <2>1, <2>2 DEF Reminders, IInv, LadderMailed
  <2>5. LaddersKept
    BY <1>7, <2>1, <2>3, <2>4, ReminderWritten DEF snooze
  <2> QED
    BY <1>7, <2>5, ReminderStep DEF snooze
<1>8. ASSUME NEW i \in Invoices, DateComes(i) PROVE IInv'
  <2> DEFINE r == [reminder[i] EXCEPT !.due = TRUE]
  <2>1. i \in Invoices /\ reminder[i] \in Reminders
    BY <1>8 DEF IInv, TypeOK
  <2>2. PICK s \in Reminders : s = r
    BY <2>1 DEF Reminders
  <2>3. reminder' = [reminder EXCEPT ![i] = s]
    BY <1>8, <2>2 DEF DateComes
  <2>4. /\ reminder[i].status # "none" => s.status # "none"
        /\ s.status # "none" => mailed[i]
    BY <2>1, <2>2 DEF Reminders, IInv, LadderMailed
  <2>5. LaddersKept
    BY <1>8, <2>1, <2>3, <2>4, ReminderWritten DEF DateComes
  <2> QED
    BY <1>8, <2>5, ReminderStep DEF DateComes
<1> USE DEF IInv, TypeOK, PaidHasDate, SettlesPaid, SettledMeansPaid, MailedFirst, DunsLadder,
            LadderMailed, InvoicedMailed, Goto, rows, status
<1>9. ASSUME NEW c \in Calls, Smtp(c) PROVE IInv'
  <2>1. /\ mailed' \in [Invoices -> BOOLEAN]
        /\ \A i \in Invoices : mailed[i] => mailed'[i]
    BY <1>9 DEF Smtp
  <2>2. CASE Goto(c, "mark_sent") /\ mailed' = [mailed EXCEPT ![tgt[c]] = TRUE]
    BY <1>9, <2>1, <2>2 DEF Smtp, PCs, Running
  <2>3. CASE Goto(c, "failed") /\ UNCHANGED mailed
    BY <1>9, <2>3 DEF Smtp, PCs, Running
  <2> QED
    BY <1>9, <2>2, <2>3 DEF Smtp
<1>10. ASSUME NEW c \in Calls, mark_sent(c) PROVE IInv'
  BY <1>10 DEF mark_sent, PCs, Running, Statuses
<1>11. ASSUME NEW c \in Calls, transition_inquiry_to_invoiced(c) PROVE IInv'
  BY <1>11 DEF transition_inquiry_to_invoiced, Transition, PCs, Running, Lifecycle
<1>12. ASSUME NEW c \in Calls, mark_paid(c) PROVE IInv'
  BY <1>12 DEF mark_paid, PCs, Running, Statuses
<1>13. ASSUME NEW c \in Calls, count_unpaid(c) PROVE IInv'
  BY <1>13 DEF count_unpaid, PCs, Running
<1>14. ASSUME NEW c \in Calls, transition_inquiry_to_paid(c) PROVE IInv'
  BY <1>14 DEF transition_inquiry_to_paid, Transition, PCs, Running, Lifecycle
<1>15. ASSUME NEW c \in Calls, DunMail(c) PROVE IInv'
  <2>1. CASE Goto(c, "advance") /\ dunned' = [dunned EXCEPT ![tgt[c]] = Append(@, level[c])]
    <3>1. tgt[c] \in Invoices /\ dunned[tgt[c]] \in Seq(1..3) /\ level[c] \in 1..3
      OBVIOUS
    <3>2. PICK s \in Seq(1..3) : s = Append(dunned[tgt[c]], level[c])
      BY <3>1, AppendProperties
    <3>3. dunned' \in [Invoices -> Seq(1..3)]
      BY <2>1, <3>2
    <3> QED
      BY <1>15, <2>1, <3>3 DEF DunMail, PCs, Running
  <2>2. CASE Goto(c, "failed") /\ UNCHANGED dunned
    BY <1>15, <2>2 DEF DunMail, PCs, Running
  <2> QED
    BY <1>15, <2>1, <2>2 DEF DunMail
<1>16. ASSUME NEW c \in Calls, Crash(c) PROVE IInv'
  BY <1>16 DEF Crash, PCs, Running
<1>17. ASSUME NEW i \in Invoices, NEW t \in RawStatuses, update_status(i, t) PROVE IInv'
  BY <1>17 DEF update_status
<1>18. ASSUME NEW t \in JobStatuses, update_inquiry(t) PROVE IInv'
  BY <1>18 DEF update_inquiry
<1>19. CASE UNCHANGED vars
  BY <1>19 DEF vars
<1> QED
  BY <1>1, <1>2, <1>3, <1>4, <1>5, <1>6, <1>7, <1>8, <1>9, <1>10, <1>11, <1>12, <1>13, <1>14,
     <1>15, <1>16, <1>17, <1>18, <1>19 DEF Next, Step

\* The inductive invariant holds of every reachable state.
LEMMA Invariance == Spec => []IInv
<1>1. Init => IInv
  BY InitInv
<1>2. IInv /\ [Next]_vars => IInv'
  BY StepInv
<1> QED
  BY <1>1, <1>2, PTL DEF Spec

\* Every reachable state of the billing is well typed.
THEOREM TypeCorrect == Spec => []TypeOK
<1>1. IInv => TypeOK
  BY DEF IInv
<1> QED
  BY <1>1, Invariance, PTL

\* A job a handler settled has a payment date on every invoice, whatever calls
\* run at once, wherever they die and whatever the operator writes between.
THEOREM SettledIsPaid == Spec => []SettledMeansPaid
<1>1. IInv => SettledMeansPaid
  BY DEF IInv
<1> QED
  BY <1>1, Invariance, PTL

\* Dunning ladders only exist where a document was mailed, and so does the
\* job's status invoiced unless the operator wrote it.
THEOREM BilledIsMailed == Spec => []BilledMeansMailed
<1>1. IInv => BilledMeansMailed
  BY DEF IInv, LadderMailed, InvoicedMailed, BilledMeansMailed
<1> QED
  BY <1>1, Invariance, PTL
-----------------------------------------------------------------------------
\* Every step of the handlers is one of the abstract ledger's, or none: a
\* payment date is only ever added, and a job is settled when all are there.
LEMMA LedgerStep == IInv /\ [Next]_vars => [Ledger!Next]_<<{i \in Invoices : paidAt[i]}, Settled>>
<1> SUFFICES ASSUME IInv, [Next]_vars
             PROVE  [Ledger!Next]_<<{i \in Invoices : paidAt[i]}, Settled>>
  OBVIOUS
<1> DEFINE book == {i \in Invoices : paidAt[i]}
<1> USE DEF Goto, Start, rows, status
<1>0. UNCHANGED status => UNCHANGED Settled
  BY DEF Settled
<1>1. ASSUME NEW c \in Calls, mark_paid(c)
      PROVE  \E i \in Invoices : Ledger!Pay(i)
  <2>1. tgt[c] \in Invoices /\ paidAt \in [Invoices -> BOOLEAN]
    BY DEF IInv, TypeOK
  <2>2. book' = book \union {tgt[c]} /\ UNCHANGED Settled
    BY <1>0, <1>1, <2>1 DEF mark_paid
  <2> QED
    BY <2>1, <2>2 DEF Ledger!Pay
<1>2. ASSUME NEW c \in Calls, transition_inquiry_to_paid(c)
      PROVE  Ledger!Settle \/ UNCHANGED <<book, Settled>>
  <2>1. (\A i \in Invoices : paidAt[i]) /\ UNCHANGED paidAt
    BY <1>2 DEF transition_inquiry_to_paid, IInv, SettlesPaid
  <2>2. CASE job = "paid"
    BY <1>0, <1>2, <2>1, <2>2 DEF transition_inquiry_to_paid, Transition
  <2>3. CASE job # "paid"
    <3>1. job' = "paid" /\ hand' # "last"
      BY <1>2, <2>3 DEF transition_inquiry_to_paid, Transition, IInv, TypeOK
    <3>2. Settled' = "by_system"
      BY <3>1 DEF Settled
    <3> QED
      BY <2>1, <3>2 DEF Ledger!Settle
  <2> QED
    BY <2>2, <2>3
<1>3. ASSUME NEW t \in JobStatuses, update_inquiry(t)
      PROVE  Ledger!Override
  <2>1. Settled' \in {"by_hand", "reopened"} /\ UNCHANGED paidAt
    BY <1>3 DEF update_inquiry, Settled
  <2> QED
    BY <2>1 DEF Ledger!Override
<1>4. ASSUME NEW c \in Calls, transition_inquiry_to_invoiced(c)
      PROVE  Ledger!BillAgain \/ UNCHANGED <<book, Settled>>
  <2>1. UNCHANGED paidAt
    BY <1>4 DEF transition_inquiry_to_invoiced
  <2>2. CASE UNCHANGED status
    BY <1>0, <2>1, <2>2
  <2>3. CASE job \in {"accepted", "scheduled", "completed"}
    <3>1. job' = "invoiced" /\ hand' # "last" /\ job # "paid"
      BY <1>4, <2>3 DEF transition_inquiry_to_invoiced, Transition
    <3>2. Settled' = "open" /\ Settled \in {"open", "reopened"}
      BY <3>1 DEF Settled
    <3> QED
      BY <2>1, <3>2 DEF Ledger!BillAgain
  <2> QED
    BY <1>4, <2>2, <2>3 DEF transition_inquiry_to_invoiced, Transition
<1>5. CASE UNCHANGED <<status, paidAt>>
  BY <1>0, <1>5
<1>6. ASSUME NEW c \in Calls, NEW i \in Invoices,
             BeginSend(c, i) \/ BeginDun(c, i) \/ \E o \in Ops : BeginPay(c, i, o)
      PROVE  UNCHANGED <<status, paidAt>>
  BY <1>6 DEF BeginSend, BeginDun, BeginPay
<1>7. ASSUME NEW c \in Calls,
             \/ Smtp(c) \/ mark_sent(c) \/ create_reminder(c) \/ close_for_invoice(c)
             \/ count_unpaid(c) \/ DunMail(c) \/ advance(c) \/ Crash(c)
      PROVE  UNCHANGED <<status, paidAt>>
  BY <1>7 DEF Smtp, mark_sent, create_reminder, close_for_invoice, count_unpaid, DunMail, advance,
              Crash
<1>8. ASSUME NEW i \in Invoices,
             snooze(i) \/ DateComes(i) \/ \E t \in RawStatuses : update_status(i, t)
      PROVE  UNCHANGED <<status, paidAt>>
  BY <1>8 DEF snooze, DateComes, update_status
<1>9. CASE UNCHANGED vars
  BY <1>5, <1>9 DEF vars
<1> QED
  BY <1>1, <1>2, <1>3, <1>4, <1>5, <1>6, <1>7, <1>8, <1>9 DEF Next, Step, Ledger!Next

\* The handlers implement the abstract ledger, whatever the operator writes.
THEOREM ImplementsLedger == Spec => LedgerSpec
<1>1. Init => Ledger!Init
  BY DEF Init, Ledger!Init, Settled
<1>2. IInv /\ [Next]_vars => [Ledger!Next]_<<{i \in Invoices : paidAt[i]}, Settled>>
  BY LedgerStep
<1> QED
  BY <1>1, <1>2, Invariance, PTL DEF Spec, LedgerSpec, Ledger!Spec
-----------------------------------------------------------------------------
(***************************************************************************)
(* Paying the last invoice settles the job, whatever else runs.            *)
(***************************************************************************)

\* What a call that has not begun, one that is about to write a payment and
\* one that closes a ladder are runs of.
OpKnown ==
  \A c \in Calls :
    /\ pc[c] = "idle" => op[c] = "send"
    /\ pc[c] = "mark_paid" => op[c] \in {"patch", "register", "record"}
    /\ pc[c] = "close" => op[c] = "register"

\* A payment that has not looked at the job's invoices yet, or saw them paid.
Counting == {"close", "count", "settle"}

\* When every invoice reads paid, the job is settled or some payment still
\* looks: the one that wrote the last paid has its count before it.
SettlePending ==
  /\ Uncrashed
  /\ \A c \in Calls : op[c] # "record"
  /\ hand = "never"
  /\ \A i \in Invoices : inv[i] = "paid"
  => job = "paid" \/ \E c \in Calls : pc[c] \in Counting

\* Every step keeps what a call's place says of its handler.
LEMMA OpKnownStep == IInv /\ OpKnown /\ [Next]_vars => OpKnown'
<1> SUFFICES ASSUME IInv, OpKnown, [Next]_vars PROVE OpKnown'
  OBVIOUS
<1> USE DEF IInv, TypeOK, OpKnown, Goto, Start, rows, status
<1>1. ASSUME NEW c \in Calls, NEW i \in Invoices,
             BeginSend(c, i) \/ BeginDun(c, i) \/ \E o \in Ops : BeginPay(c, i, o)
      PROVE  OpKnown'
  BY <1>1 DEF BeginSend, BeginDun, BeginPay
<1>2. ASSUME NEW c \in Calls, Step(c) \/ Crash(c) PROVE OpKnown'
  <2>1. CASE Smtp(c) \/ mark_sent(c) \/ transition_inquiry_to_invoiced(c)
    BY <2>1 DEF Smtp, mark_sent, transition_inquiry_to_invoiced, Transition
  <2>2. CASE create_reminder(c) \/ close_for_invoice(c) \/ advance(c)
    BY <2>2 DEF create_reminder, close_for_invoice, advance
  <2>3. CASE mark_paid(c)
    BY <2>3 DEF mark_paid
  <2>4. CASE count_unpaid(c) \/ transition_inquiry_to_paid(c)
    BY <2>4 DEF count_unpaid, transition_inquiry_to_paid, Transition
  <2>5. CASE DunMail(c) \/ Crash(c)
    BY <2>5 DEF DunMail, Crash
  <2> QED
    BY <1>2, <2>1, <2>2, <2>3, <2>4, <2>5 DEF Step
<1>3. CASE UNCHANGED <<pc, op>>
  BY <1>3
<1>4. ASSUME NEW i \in Invoices,
             snooze(i) \/ DateComes(i) \/ \E t \in RawStatuses : update_status(i, t)
      PROVE  UNCHANGED <<pc, op>>
  BY <1>4 DEF snooze, DateComes, update_status
<1>5. ASSUME NEW t \in JobStatuses, update_inquiry(t) PROVE UNCHANGED <<pc, op>>
  BY <1>5 DEF update_inquiry
<1>6. CASE UNCHANGED vars
  BY <1>6 DEF vars
<1> QED
  BY <1>1, <1>2, <1>3, <1>4, <1>5, <1>6 DEF Next

\* Every step keeps that a settlement is made or still to come.
LEMMA SettlePendingStep == IInv /\ OpKnown /\ SettlePending /\ [Next]_vars => SettlePending'
<1> SUFFICES ASSUME IInv, OpKnown, SettlePending, [Next]_vars, Uncrashed',
                    \A c \in Calls : op'[c] # "record", hand' = "never",
                    \A i \in Invoices : inv'[i] = "paid"
             PROVE  job' = "paid" \/ \E c \in Calls : pc'[c] \in Counting
  BY DEF SettlePending
<1> DEFINE Goal == job' = "paid" \/ \E c \in Calls : pc'[c] \in Counting
<1>1. ASSUME NEW c \in Calls, NEW i \in Invoices,
             BeginSend(c, i) \/ BeginDun(c, i) \/ \E o \in Ops : BeginPay(c, i, o)
      PROVE  Goal
  <2>1. /\ UNCHANGED <<status, inv>> /\ pc[c] = "idle" /\ pc'[c] # "crashed"
        /\ \A d \in Calls \ {c} : pc'[d] = pc[d] /\ op'[d] = op[d]
    BY <1>1 DEF BeginSend, BeginDun, BeginPay, Start, Goto, rows, status, IInv, TypeOK
  <2>2. Uncrashed /\ \A d \in Calls : op[d] # "record"
    BY <2>1 DEF Uncrashed, OpKnown
  <2>3. job = "paid" \/ \E d \in Calls : pc[d] \in Counting
    BY <2>1, <2>2 DEF SettlePending, status
  <2> QED
    BY <2>1, <2>3 DEF Counting, status
<1>2. ASSUME NEW c \in Calls, UNCHANGED <<op, inv, status>>, pc[c] \notin Counting,
             \A d \in Calls \ {c} : pc'[d] = pc[d], pc[c] # "crashed"
      PROVE  Goal
  <2>1. Uncrashed
    BY <1>2 DEF Uncrashed
  <2>2. job = "paid" \/ \E d \in Calls : pc[d] \in Counting
    BY <1>2, <2>1 DEF SettlePending, status
  <2> QED
    BY <1>2, <2>2 DEF status
<1>3. ASSUME NEW c \in Calls,
             Smtp(c) \/ create_reminder(c) \/ DunMail(c) \/ advance(c)
      PROVE  Goal
  <2>1. /\ UNCHANGED <<op, inv, status>> /\ \A d \in Calls \ {c} : pc'[d] = pc[d]
        /\ pc[c] \in {"smtp", "remind", "dun_mail", "advance"}
    BY <1>3 DEF Smtp, create_reminder, DunMail, advance, Goto, IInv, TypeOK, rows, status
  <2> QED
    BY <1>2, <2>1 DEF Counting
<1>4. ASSUME NEW c \in Calls, mark_sent(c) PROVE Goal
  <2>1. tgt[c] \in Invoices /\ inv'[tgt[c]] = "sent"
    BY <1>4 DEF mark_sent, IInv, TypeOK
  <2> QED
    BY <2>1
<1>5. ASSUME NEW c \in Calls, transition_inquiry_to_invoiced(c) PROVE Goal
  <2>1. /\ UNCHANGED <<op, inv>> /\ \A d \in Calls \ {c} : pc'[d] = pc[d]
        /\ pc[c] = "to_invoiced" /\ hand = "never" /\ (job = "paid" => job' = "paid")
    BY <1>5 DEF transition_inquiry_to_invoiced, Transition, status, Goto, IInv, TypeOK
  <2>2. Uncrashed
    BY <2>1 DEF Uncrashed
  <2>3. job = "paid" \/ \E d \in Calls : pc[d] \in Counting
    BY <2>1, <2>2 DEF SettlePending, status
  <2> QED
    BY <2>1, <2>3 DEF Counting
<1>6. ASSUME NEW c \in Calls, mark_paid(c) PROVE Goal
  <2>1. op[c] \in {"patch", "register"}
    BY <1>6 DEF mark_paid, OpKnown
  <2>2. pc'[c] \in {"close", "count"}
    BY <1>6, <2>1 DEF mark_paid, Goto, IInv, TypeOK
  <2> QED
    BY <2>2 DEF Counting
<1>7. ASSUME NEW c \in Calls, close_for_invoice(c) \/ count_unpaid(c) PROVE Goal
  <2>1. pc'[c] \in {"count", "settle"}
    BY <1>7 DEF close_for_invoice, count_unpaid, Goto, IInv, TypeOK, rows, status
  <2> QED
    BY <2>1 DEF Counting
<1>8. ASSUME NEW c \in Calls, transition_inquiry_to_paid(c) PROVE Goal
  BY <1>8 DEF transition_inquiry_to_paid, Transition, status, IInv, TypeOK
<1>9. ASSUME NEW c \in Calls, Crash(c) PROVE Goal
  <2>1. pc'[c] = "crashed"
    BY <1>9 DEF Crash, Goto, IInv, TypeOK
  <2> QED
    BY <2>1 DEF Uncrashed
<1>10. ASSUME NEW i \in Invoices, NEW t \in RawStatuses, update_status(i, t) PROVE Goal
  <2>1. inv'[i] = t /\ t # "paid"
    BY <1>10, BillingAssumption DEF update_status, IInv, TypeOK
  <2> QED
    BY <2>1
<1>11. CASE UNCHANGED <<status, inv, pc, op>>
  <2>1. Uncrashed /\ \A c \in Calls : op[c] # "record"
    BY <1>11 DEF Uncrashed
  <2>2. job = "paid" \/ \E c \in Calls : pc[c] \in Counting
    BY <1>11, <2>1 DEF SettlePending, status
  <2> QED
    BY <1>11, <2>2 DEF status
<1>12. ASSUME NEW i \in Invoices, snooze(i) \/ DateComes(i)
       PROVE  Goal
  BY <1>11, <1>12 DEF snooze, DateComes
<1>13. ASSUME NEW t \in JobStatuses, update_inquiry(t) PROVE Goal
  BY <1>13 DEF update_inquiry
<1>14. CASE UNCHANGED vars
  BY <1>11, <1>14 DEF vars, status
<1>15. ASSUME NEW c \in Calls, Step(c) \/ Crash(c) PROVE Goal
  BY <1>3, <1>4, <1>5, <1>6, <1>7, <1>8, <1>9, <1>15 DEF Step
<1>16. CASE \E c \in Calls, i \in Invoices :
              BeginSend(c, i) \/ BeginDun(c, i) \/ \E o \in Ops : BeginPay(c, i, o)
  BY <1>1, <1>16
<1>17. CASE \E i \in Invoices :
              snooze(i) \/ DateComes(i) \/ \E t \in RawStatuses : update_status(i, t)
  BY <1>10, <1>12, <1>17
<1>18. CASE \E t \in JobStatuses : update_inquiry(t)
  BY <1>13, <1>18
<1> QED
  BY <1>14, <1>15, <1>16, <1>17, <1>18 DEF Next

\* The calls know their handlers, and no settlement is lost.
LEMMA SettleInvariance == Spec => []OpKnown /\ []SettlePending
<1>1. Init => OpKnown /\ SettlePending
  BY BillingAssumption DEF Init, OpKnown, SettlePending, Written
<1>2. IInv /\ OpKnown /\ [Next]_vars => OpKnown'
  BY OpKnownStep
<1>3. IInv /\ OpKnown /\ SettlePending /\ [Next]_vars => SettlePending'
  BY SettlePendingStep
<1> QED
  BY <1>1, <1>2, <1>3, Invariance, PTL DEF Spec

\* Paying the halves of a job at once never loses its settlement: when every
\* invoice reads paid and no call is running, died or was the assistant's
\* record_payment, the job is settled.
THEOREM PaymentsSettle == Spec => []AllPaidSettles
<1>1. SettlePending => AllPaidSettles
  BY DEF SettlePending, AllPaidSettles, Quiet, Counting, Running
<1> QED
  BY <1>1, SettleInvariance, PTL
-----------------------------------------------------------------------------
(***************************************************************************)
(* What holds while no two calls run at once: the dunning ladder.          *)
(***************************************************************************)

\* No two calls run at once.
OneRunning == \A c, d \in Calls : pc[c] \in Running /\ pc[d] \in Running => c = d

\* The last level the customer was dunned at, and none for no mail.
LastDunned(i) == IF dunned[i] = <<>> THEN 0 ELSE dunned[i][Len(dunned[i])]

\* A ladder stands at the last level mailed, until the call that mailed it
\* advances or after it died, or one above it.
LevelsMeet ==
  \A i \in Invoices :
    /\ reminder[i].level \in {LastDunned(i), LastDunned(i) + 1}
    /\ reminder[i].status = "none" => reminder[i].level = 1

\* A dunning call mails the level the row has, and advances from it.
DunsAtLevel ==
  \A c \in Calls :
    /\ pc[c] = "dun_mail" => level[c] = reminder[tgt[c]].level
    /\ pc[c] = "advance" => LastDunned(tgt[c]) = reminder[tgt[c]].level

LadderInv == OneRunning /\ LevelsMeet /\ DunsAtLevel /\ LadderInOrder

\* Every step keeps at most one call running.
LEMMA OneRunningStep ==
  ASSUME Serial
  PROVE  IInv /\ OneRunning /\ [Next]_vars => OneRunning'
<1> SUFFICES ASSUME IInv, OneRunning, [Next]_vars PROVE OneRunning'
  OBVIOUS
<1>1. ASSUME NEW c \in Calls, NEW i \in Invoices,
             BeginSend(c, i) \/ BeginDun(c, i) \/ \E o \in Ops : BeginPay(c, i, o)
      PROVE  OneRunning'
  <2>1. /\ \A d \in Calls : pc[d] \notin Running
        /\ \A d \in Calls \ {c} : pc'[d] = pc[d]
    BY <1>1 DEF BeginSend, BeginDun, BeginPay, Start, Goto, IInv, TypeOK
  <2> QED
    BY <2>1 DEF OneRunning
<1>2. ASSUME NEW c \in Calls, Step(c) \/ Crash(c) PROVE OneRunning'
  <2>1. /\ pc[c] \in Running
        /\ \A d \in Calls \ {c} : pc'[d] = pc[d]
    <3> USE DEF Goto, IInv, TypeOK, Running
    <3>1. CASE Smtp(c) \/ mark_sent(c) \/ transition_inquiry_to_invoiced(c)
      BY <3>1 DEF Smtp, mark_sent, transition_inquiry_to_invoiced, Transition
    <3>2. CASE create_reminder(c) \/ close_for_invoice(c) \/ advance(c)
      BY <3>2 DEF create_reminder, close_for_invoice, advance
    <3>3. CASE mark_paid(c) \/ count_unpaid(c) \/ transition_inquiry_to_paid(c)
      BY <3>3 DEF mark_paid, count_unpaid, transition_inquiry_to_paid, Transition
    <3>4. CASE DunMail(c) \/ Crash(c)
      BY <3>4 DEF DunMail, Crash
    <3> QED
      BY <1>2, <3>1, <3>2, <3>3, <3>4 DEF Step
  <2> QED
    BY <2>1 DEF OneRunning
<1>3. CASE UNCHANGED pc
  BY <1>3 DEF OneRunning
<1>4. ASSUME NEW i \in Invoices,
             snooze(i) \/ DateComes(i) \/ \E t \in RawStatuses : update_status(i, t)
      PROVE  OneRunning'
  BY <1>3, <1>4 DEF snooze, DateComes, update_status
<1>5. ASSUME NEW t \in JobStatuses, update_inquiry(t) PROVE OneRunning'
  BY <1>3, <1>5 DEF update_inquiry
<1>6. CASE UNCHANGED vars
  BY <1>3, <1>6 DEF vars
<1> QED
  BY <1>1, <1>2, <1>4, <1>5, <1>6 DEF Next

\* The ladder invariant is kept by a step that mails no dunning, moves no
\* level, and lets no call begin to dun or to advance.
LEMMA LadderKept ==
  ASSUME IInv, LadderInv, OneRunning', UNCHANGED dunned,
         \A i \in Invoices : reminder'[i].level = reminder[i].level,
         \A i \in Invoices : reminder'[i].status = "none" => reminder[i].status = "none",
         \A c \in Calls : pc'[c] \in {"dun_mail", "advance"} =>
                            pc'[c] = pc[c] /\ tgt'[c] = tgt[c] /\ level'[c] = level[c]
  PROVE  LadderInv'
<1>1. tgt \in [Calls -> Invoices]
  BY DEF IInv, TypeOK
<1>2. \A i : LastDunned(i)' = LastDunned(i)
  BY DEF LastDunned
<1>3. LevelsMeet'
  BY <1>2 DEF LevelsMeet, LadderInv
<1>4. DunsAtLevel'
  BY <1>1, <1>2 DEF DunsAtLevel, LadderInv
<1>5. LadderInOrder'
  BY DEF LadderInOrder, LadderInv
<1> QED
  BY <1>3, <1>4, <1>5 DEF LadderInv

\* A reminder the step writes keeps its level.
LEMMA SameLevel ==
  ASSUME IInv, NEW i \in Invoices, NEW r,
         reminder' = [reminder EXCEPT ![i] = r], r.level = reminder[i].level,
         r.status = "none" => reminder[i].status = "none"
  PROVE  /\ \A j \in Invoices : reminder'[j].level = reminder[j].level
         /\ \A j \in Invoices : reminder'[j].status = "none" => reminder[j].status = "none"
<1>1. reminder \in [Invoices -> Reminders]
  BY DEF IInv, TypeOK
<1>2. \A j \in Invoices : reminder'[j] = IF j = i THEN r ELSE reminder[j]
  BY <1>1
<1> QED
  BY <1>2

\* A dunning mail is the last level again or the next one.
LEMMA DunMailLadder ==
  ASSUME IInv, LadderInv, OneRunning', NEW c \in Calls, DunMail(c)
  PROVE  LadderInv'
<1> DEFINE i == tgt[c]
<1> USE DEF IInv, TypeOK
<1>1. /\ i \in Invoices /\ dunned[i] \in Seq(1..3) /\ level[c] \in 1..3
      /\ pc[c] = "dun_mail" /\ UNCHANGED <<reminder, tgt, level>>
  BY DEF DunMail, rows, status
<1>2. CASE Goto(c, "failed") /\ UNCHANGED dunned
  <2>1. \A d \in Calls : pc'[d] \in {"dun_mail", "advance"} => pc'[d] = pc[d]
    BY <1>2 DEF Goto
  <2> QED
    BY <1>1, <1>2, <2>1, LadderKept
<1>3. CASE Goto(c, "advance") /\ dunned' = [dunned EXCEPT ![i] = Append(@, level[c])]
  <2>1. PICK n \in Nat : n = Len(dunned[i])
    BY <1>1
  <2>2. PICK s \in Seq(1..3) : s = Append(dunned[i], level[c])
    BY <1>1, AppendProperties
  <2>3. /\ Len(s) = n + 1 /\ s[n + 1] = level[c]
        /\ \A k \in 1..n : s[k] = dunned[i][k]
    BY <1>1, <2>1, <2>2, AppendProperties
  <2>4. /\ dunned'[i] = s
        /\ \A j \in Invoices \ {i} : dunned'[j] = dunned[j]
    BY <1>1, <1>3, <2>2
  <2>5. s # <<>>
    <3>1. s \in Seq(1..3) /\ Len(s) # 0
      BY <2>1, <2>2, <2>3
    <3> QED
      BY <3>1, EmptySeq
  <2>6. /\ LastDunned(i)' = level[c]
        /\ \A j \in Invoices \ {i} : LastDunned(j)' = LastDunned(j)
    BY <1>1, <2>1, <2>3, <2>4, <2>5 DEF LastDunned
  <2>7. /\ level[c] = reminder[i].level
        /\ reminder[i].status # "none"
    BY <1>1 DEF LadderInv, DunsAtLevel, DunsLadder
  <2>8. level[c] \in {LastDunned(i), LastDunned(i) + 1}
    BY <1>1, <2>7 DEF LadderInv, LevelsMeet
  <2>9. LevelsMeet'
    BY <1>1, <2>6, <2>7 DEF LadderInv, LevelsMeet
  <2>10. \A d \in Calls \ {c} : pc'[d] \notin {"dun_mail", "advance"}
    <3>1. pc'[c] \in Running
      BY <1>3 DEF Goto, Running
    <3> QED
      BY <3>1 DEF OneRunning, Running
  <2>11. DunsAtLevel'
    <3>1. pc'[c] = "advance"
      BY <1>3 DEF Goto
    <3> QED
      BY <1>1, <2>6, <2>7, <2>10, <3>1 DEF DunsAtLevel
  <2>12. LadderInOrder'
    <3> SUFFICES ASSUME NEW j \in Invoices, NEW k \in 1..Len(dunned'[j])
                 PROVE  dunned'[j][k] - (IF k = 1 THEN 0 ELSE dunned'[j][k - 1])
                          \in (IF k = 1 THEN {1} ELSE {0, 1})
      BY DEF LadderInOrder
    <3>1. CASE j # i
      BY <2>4, <3>1 DEF LadderInv, LadderInOrder
    <3>2. CASE j = i /\ k \in 1..n
      <4>1. /\ s[k] = dunned[i][k] /\ k \in Nat
            /\ k # 1 => s[k - 1] = dunned[i][k - 1]
        <5>1. k \in Nat /\ (k # 1 => k - 1 \in 1..n)
          BY <2>1, <3>2
        <5> QED
          BY <2>3, <3>2, <5>1
      <4>2. dunned[i][k] - (IF k = 1 THEN 0 ELSE dunned[i][k - 1])
              \in (IF k = 1 THEN {1} ELSE {0, 1})
        BY <1>1, <2>1, <3>2 DEF LadderInv, LadderInOrder
      <4> QED
        BY <2>4, <3>2, <4>1, <4>2
    <3>3. CASE j = i /\ k = n + 1
      <4>1. CASE n = 0
        <5>1. LastDunned(i) = 0
          BY <1>1, <2>1, <4>1, EmptySeq DEF LastDunned
        <5> QED
          BY <1>1, <2>3, <2>4, <2>8, <3>3, <4>1, <5>1
      <4>2. CASE n # 0
        <5>1. LastDunned(i) = dunned[i][n] /\ dunned[i][n] \in 1..3
          BY <1>1, <2>1, <4>2 DEF LastDunned
        <5>2. s[n] = dunned[i][n] /\ k - 1 = n /\ k # 1
          BY <2>1, <2>3, <3>3, <4>2
        <5> QED
          BY <1>1, <2>3, <2>4, <2>8, <3>3, <5>1, <5>2
      <4> QED
        BY <4>1, <4>2
    <3> QED
      BY <2>1, <2>3, <2>4, <3>1, <3>2, <3>3
  <2> QED
    BY <2>9, <2>11, <2>12 DEF LadderInv
<1> QED
  BY <1>2, <1>3 DEF DunMail

\* The row advances one level past the one its call mailed.
LEMMA AdvanceLadder ==
  ASSUME IInv, LadderInv, OneRunning', NEW c \in Calls, advance(c)
  PROVE  LadderInv'
<1> DEFINE i == tgt[c]
<1> USE DEF IInv, TypeOK
<1>1. /\ i \in Invoices /\ pc[c] = "advance" /\ UNCHANGED <<dunned, tgt, level>>
      /\ reminder[i] \in Reminders /\ reminder[i].level \in 1..3
      /\ reminder[i].status # "none"
  BY DEF advance, Reminders, DunsLadder
<1>2. LastDunned(i) = reminder[i].level
  BY <1>1 DEF LadderInv, DunsAtLevel
<1>3. \A j : LastDunned(j)' = LastDunned(j)
  BY <1>1 DEF LastDunned
<1>4. /\ reminder'[i].status # "none"
      /\ reminder'[i].level \in {reminder[i].level, reminder[i].level + 1}
  <2>1. CASE reminder[i].level >= 3
    BY <1>1, <2>1 DEF advance, Reminders
  <2>2. CASE ~(reminder[i].level >= 3)
    BY <1>1, <2>2 DEF advance, Pending
  <2> QED
    BY <2>1, <2>2
<1>5. \A j \in Invoices \ {i} : reminder'[j] = reminder[j]
  BY DEF advance
<1>6. LevelsMeet'
  BY <1>2, <1>3, <1>4, <1>5 DEF LadderInv, LevelsMeet
<1>7. \A d \in Calls : pc'[d] \notin {"dun_mail", "advance"}
  <2>1. \A d \in Calls \ {c} : pc[d] \notin Running /\ pc'[d] = pc[d]
    BY <1>1 DEF LadderInv, OneRunning, Running, advance, Goto
  <2> QED
    BY <2>1 DEF advance, Goto, Running
<1>8. DunsAtLevel'
  BY <1>7 DEF DunsAtLevel
<1>9. LadderInOrder'
  BY <1>1 DEF LadderInv, LadderInOrder
<1> QED
  BY <1>6, <1>8, <1>9 DEF LadderInv

\* Every step keeps the ladder invariant.
LEMMA LadderStep ==
  ASSUME Serial
  PROVE  IInv /\ LadderInv /\ [Next]_vars => LadderInv'
<1> SUFFICES ASSUME IInv, LadderInv, [Next]_vars PROVE LadderInv'
  OBVIOUS
<1>0. OneRunning'
  BY OneRunningStep DEF LadderInv
<1>1. ASSUME NEW c \in Calls, NEW i \in Invoices,
             BeginSend(c, i) \/ \E o \in Ops : BeginPay(c, i, o)
      PROVE  LadderInv'
  <2>1. /\ UNCHANGED <<dunned, reminder, level>>
        /\ pc'[c] \notin {"dun_mail", "advance"}
        /\ \A d \in Calls \ {c} : pc'[d] = pc[d] /\ tgt'[d] = tgt[d]
    BY <1>1 DEF BeginSend, BeginPay, Start, Goto, rows, status, IInv, TypeOK
  <2> QED
    BY <1>0, <2>1, LadderKept
<1>2. ASSUME NEW c \in Calls, NEW i \in Invoices, BeginDun(c, i)
      PROVE  LadderInv'
  <2>1. /\ UNCHANGED <<dunned, reminder>> /\ reminder[i].level \in 1..3
        /\ pc'[c] = "dun_mail" /\ tgt'[c] = i /\ level'[c] = reminder[i].level
        /\ \A d \in Calls \ {c} : pc'[d] = pc[d] /\ tgt'[d] = tgt[d] /\ level'[d] = level[d]
    BY <1>2 DEF BeginDun, Start, Goto, rows, status, IInv, TypeOK, Reminders
  <2>2. \A j : LastDunned(j)' = LastDunned(j)
    BY <2>1 DEF LastDunned
  <2>3. LevelsMeet' /\ LadderInOrder'
    BY <2>1, <2>2 DEF LadderInv, LevelsMeet, LadderInOrder
  <2>4. DunsAtLevel'
    BY <2>1, <2>2 DEF LadderInv, DunsAtLevel
  <2> QED
    BY <1>0, <2>3, <2>4 DEF LadderInv
<1>3. ASSUME NEW c \in Calls,
             \/ Smtp(c) \/ mark_sent(c) \/ transition_inquiry_to_invoiced(c)
             \/ mark_paid(c) \/ count_unpaid(c) \/ transition_inquiry_to_paid(c) \/ Crash(c)
      PROVE  LadderInv'
  <2>1. /\ UNCHANGED <<dunned, reminder, level, tgt>>
        /\ pc'[c] \notin {"dun_mail", "advance"}
        /\ \A d \in Calls \ {c} : pc'[d] = pc[d]
    <3> USE DEF Goto, rows, status, IInv, TypeOK
    <3>1. CASE Smtp(c) \/ mark_sent(c) \/ transition_inquiry_to_invoiced(c)
      BY <3>1 DEF Smtp, mark_sent, transition_inquiry_to_invoiced, Transition
    <3>2. CASE mark_paid(c) \/ count_unpaid(c)
      BY <3>2 DEF mark_paid, count_unpaid
    <3>3. CASE transition_inquiry_to_paid(c) \/ Crash(c)
      BY <3>3 DEF transition_inquiry_to_paid, Transition, Crash
    <3> QED
      BY <1>3, <3>1, <3>2, <3>3
  <2> QED
    BY <1>0, <2>1, LadderKept
<1>4. ASSUME NEW c \in Calls, create_reminder(c) \/ close_for_invoice(c)
      PROVE  LadderInv'
  <2>1. /\ tgt[c] \in Invoices /\ reminder[tgt[c]] \in Reminders
        /\ UNCHANGED <<dunned, level, tgt>>
        /\ \A d \in Calls : pc'[d] \in {pc[d], "done", "count"}
    BY <1>4 DEF create_reminder, close_for_invoice, Goto, IInv, TypeOK
  <2>2. PICK r : /\ reminder' = [reminder EXCEPT ![tgt[c]] = r]
                 /\ r.level = reminder[tgt[c]].level
                 /\ r.status = "none" => reminder[tgt[c]].status = "none"
    <3>1. CASE UNCHANGED reminder
      <4>1. reminder' = [reminder EXCEPT ![tgt[c]] = reminder[tgt[c]]]
        BY <2>1, <3>1 DEF IInv, TypeOK
      <4> QED
        BY <4>1
    <3>2. CASE create_reminder(c) /\ reminder' # reminder
      <4>1. reminder' = [reminder EXCEPT ![tgt[c]] =
                           IF reminder[tgt[c]].status = "none" THEN Pending(1)
                           ELSE reminder[tgt[c]]]
        BY <3>2 DEF create_reminder
      <4>2. reminder[tgt[c]].status = "none" => reminder[tgt[c]].level = 1
        BY <2>1 DEF LadderInv, LevelsMeet
      <4>3. Pending(1).level = 1 /\ Pending(1).status = "pending"
        BY DEF Pending
      <4>4. CASE reminder[tgt[c]].status = "none"
        <5>1. reminder' = [reminder EXCEPT ![tgt[c]] = Pending(1)]
          BY <4>1, <4>4
        <5> QED
          BY <4>2, <4>3, <4>4, <5>1
      <4>5. CASE reminder[tgt[c]].status # "none"
        <5>1. reminder' = [reminder EXCEPT ![tgt[c]] = reminder[tgt[c]]]
          BY <4>1, <4>5
        <5> QED
          BY <5>1
      <4> QED
        BY <4>4, <4>5
    <3>3. CASE close_for_invoice(c)
      <4>1. reminder' = [reminder EXCEPT ![tgt[c]] =
                           IF reminder[tgt[c]].status = "none" THEN reminder[tgt[c]]
                           ELSE [reminder[tgt[c]] EXCEPT !.status = "closed"]]
        BY <3>3 DEF close_for_invoice
      <4>2. CASE reminder[tgt[c]].status = "none"
        <5>1. reminder' = [reminder EXCEPT ![tgt[c]] = reminder[tgt[c]]]
          BY <4>1, <4>2
        <5> QED
          BY <5>1
      <4>3. CASE reminder[tgt[c]].status # "none"
        <5> DEFINE r == [reminder[tgt[c]] EXCEPT !.status = "closed"]
        <5>1. r.level = reminder[tgt[c]].level /\ r.status = "closed"
          BY <2>1 DEF Reminders
        <5>2. reminder' = [reminder EXCEPT ![tgt[c]] = r]
          BY <4>1, <4>3
        <5> QED
          BY <5>1, <5>2
      <4> QED
        BY <4>2, <4>3
    <3> QED
      BY <1>4, <3>1, <3>2, <3>3
  <2> QED
    BY <1>0, <2>1, <2>2, SameLevel, LadderKept
<1>5. ASSUME NEW c \in Calls, DunMail(c) PROVE LadderInv'
  BY <1>0, <1>5, DunMailLadder
<1>6. ASSUME NEW c \in Calls, advance(c) PROVE LadderInv'
  BY <1>0, <1>6, AdvanceLadder
<1>7. ASSUME NEW i \in Invoices, snooze(i) \/ DateComes(i) PROVE LadderInv'
  <2>1. /\ reminder[i] \in Reminders /\ UNCHANGED <<dunned, level, tgt, pc>>
        /\ \E b \in BOOLEAN : reminder' = [reminder EXCEPT ![i] = [reminder[i] EXCEPT !.due = b]]
    BY <1>7 DEF snooze, DateComes, IInv, TypeOK
  <2>2. PICK r : /\ reminder' = [reminder EXCEPT ![i] = r]
                 /\ r.level = reminder[i].level
                 /\ r.status = "none" => reminder[i].status = "none"
    BY <2>1 DEF Reminders
  <2> QED
    BY <1>0, <2>1, <2>2, SameLevel, LadderKept
<1>8. CASE UNCHANGED <<dunned, reminder, level, tgt, pc>>
  BY <1>0, <1>8, LadderKept
<1>9. ASSUME NEW i \in Invoices, NEW t \in RawStatuses, update_status(i, t) PROVE LadderInv'
  BY <1>8, <1>9 DEF update_status
<1>10. ASSUME NEW t \in JobStatuses, update_inquiry(t) PROVE LadderInv'
  BY <1>8, <1>10 DEF update_inquiry
<1>11. CASE UNCHANGED vars
  BY <1>8, <1>11 DEF vars
<1>12. ASSUME NEW c \in Calls, Step(c) \/ Crash(c) PROVE LadderInv'
  BY <1>3, <1>4, <1>5, <1>6, <1>12 DEF Step
<1> QED
  BY <1>1, <1>2, <1>7, <1>9, <1>10, <1>11, <1>12 DEF Next

\* Before any call no ladder stands and nobody was dunned.
LEMMA LadderInit == Init => LadderInv
<1> SUFFICES ASSUME Init PROVE LadderInv
  OBVIOUS
<1>1. \A i \in Invoices : LastDunned(i) = 0 /\ dunned[i] = <<>> /\ reminder[i] = NoReminder
  BY DEF Init, LastDunned
<1>2. LevelsMeet
  BY <1>1 DEF LevelsMeet, NoReminder
<1>3. OneRunning /\ DunsAtLevel
  BY DEF Init, OneRunning, DunsAtLevel, Running
<1>4. LadderInOrder
  BY <1>1, EmptySeq DEF LadderInOrder
<1> QED
  BY <1>2, <1>3, <1>4 DEF LadderInv

\* While no two calls run at once, the ladder invariant holds of every
\* reachable state.
LEMMA LadderInvariance ==
  ASSUME Serial
  PROVE  Spec => []LadderInv
<1>1. Init => LadderInv
  BY LadderInit
<1>2. IInv /\ LadderInv /\ [Next]_vars => LadderInv'
  BY LadderStep
<1> QED
  BY <1>1, <1>2, Invariance, PTL DEF Spec

\* While no two calls run at once, the customer is dunned from the first
\* level up and no level is left out, whichever call dies where.
THEOREM DunnedInOrder ==
  ASSUME Serial
  PROVE  Spec => []LadderInOrder
<1>1. LadderInv => LadderInOrder
  BY DEF LadderInv
<1> QED
  BY <1>1, LadderInvariance, PTL
-----------------------------------------------------------------------------
(***************************************************************************)
(* What holds while no two calls run at once and payments are booked in    *)
(* the register: a paid invoice is left alone.                             *)
(***************************************************************************)

\* A call that bills or duns an invoice is about an unpaid one.
AboutUnpaid ==
  \A c \in Calls :
    pc[c] \in {"to_invoiced", "remind", "dun_mail", "advance"} => inv[tgt[c]] # "paid"

\* Payments are the register's.
Registered == \A c \in Calls : op[c] \in {"send", "register", "dun"}

\* Unless a call died, the ladder of a paid invoice is closed or about to be.
PaidCloses ==
  Uncrashed =>
    \A i \in Invoices :
      inv[i] = "paid" => reminder[i].status # "pending" \/ \E c \in Calls : pc[c] = "close" /\ tgt[c] = i

QuietInv == OneRunning /\ OpKnown /\ Registered /\ AboutUnpaid /\ PaidCloses

RegisterPays == Serial /\ Ops \subseteq {"send", "register", "dun"}

\* The quiet invariant is kept by a step that pays nothing, opens no ladder
\* and lets no call bill, dun or close one.
LEMMA QuietKept ==
  ASSUME IInv, QuietInv, OneRunning', OpKnown', Registered',
         \A i \in Invoices : inv'[i] = "paid" => inv[i] = "paid",
         \A i \in Invoices : reminder'[i].status = "pending" => reminder[i].status = "pending",
         \A c \in Calls : pc'[c] \in {"to_invoiced", "remind", "dun_mail", "advance"} =>
                            \/ inv'[tgt'[c]] # "paid"
                            \/ /\ pc[c] \in {"to_invoiced", "remind", "dun_mail", "advance"}
                               /\ tgt'[c] = tgt[c],
         \A c \in Calls : pc[c] = "close" => pc'[c] \in {"close", "crashed"} /\ tgt'[c] = tgt[c],
         \A c \in Calls : pc[c] = "crashed" => pc'[c] = "crashed"
  PROVE  QuietInv'
<1>1. tgt \in [Calls -> Invoices]
  BY DEF IInv, TypeOK
<1>2. AboutUnpaid'
  BY <1>1 DEF AboutUnpaid, QuietInv
<1>3. PaidCloses'
  BY DEF PaidCloses, QuietInv, Uncrashed
<1> QED
  BY <1>2, <1>3 DEF QuietInv

\* Handlers are only ever started, and only those that Ops allows.
LEMMA RegisteredStep ==
  ASSUME RegisterPays
  PROVE  IInv /\ Registered /\ [Next]_vars => Registered'
<1> SUFFICES ASSUME IInv, Registered, [Next]_vars PROVE Registered'
  OBVIOUS
<1>1. ASSUME NEW c \in Calls, NEW i \in Invoices,
             BeginSend(c, i) \/ BeginDun(c, i) \/ \E o \in Ops : BeginPay(c, i, o)
      PROVE  Registered'
  BY <1>1 DEF BeginSend, BeginDun, BeginPay, Start, Registered, RegisterPays, IInv, TypeOK
<1>2. CASE UNCHANGED op
  BY <1>2 DEF Registered
<1>3. ASSUME NEW c \in Calls, Step(c) \/ Crash(c) PROVE Registered'
  <2>1. CASE Smtp(c) \/ mark_sent(c) \/ transition_inquiry_to_invoiced(c)
    BY <1>2, <2>1 DEF Smtp, mark_sent, transition_inquiry_to_invoiced, Transition
  <2>2. CASE create_reminder(c) \/ close_for_invoice(c) \/ advance(c)
    BY <1>2, <2>2 DEF create_reminder, close_for_invoice, advance
  <2>3. CASE mark_paid(c) \/ count_unpaid(c) \/ transition_inquiry_to_paid(c)
    BY <1>2, <2>3 DEF mark_paid, count_unpaid, transition_inquiry_to_paid, Transition
  <2>4. CASE DunMail(c) \/ Crash(c)
    BY <1>2, <2>4 DEF DunMail, Crash
  <2> QED
    BY <1>3, <2>1, <2>2, <2>3, <2>4 DEF Step
<1>4. ASSUME NEW i \in Invoices,
             snooze(i) \/ DateComes(i) \/ \E t \in RawStatuses : update_status(i, t)
      PROVE  Registered'
  BY <1>2, <1>4 DEF snooze, DateComes, update_status
<1>5. ASSUME NEW t \in JobStatuses, update_inquiry(t) PROVE Registered'
  BY <1>2, <1>5 DEF update_inquiry
<1>6. CASE UNCHANGED vars
  BY <1>2, <1>6 DEF vars
<1> QED
  BY <1>1, <1>3, <1>4, <1>5, <1>6 DEF Next

\* Every step keeps the quiet invariant.
LEMMA QuietStep ==
  ASSUME RegisterPays
  PROVE  IInv /\ QuietInv /\ [Next]_vars => QuietInv'
<1> SUFFICES ASSUME IInv, QuietInv, [Next]_vars PROVE QuietInv'
  OBVIOUS
<1>0. OneRunning' /\ OpKnown' /\ Registered'
  BY OneRunningStep, OpKnownStep, RegisteredStep DEF QuietInv, RegisterPays
<1> USE DEF IInv, TypeOK, Goto
<1>1. ASSUME NEW c \in Calls, NEW i \in Invoices,
             BeginSend(c, i) \/ BeginDun(c, i) \/ \E o \in Ops : BeginPay(c, i, o)
      PROVE  QuietInv'
  <2>1. /\ UNCHANGED <<inv, reminder>> /\ pc[c] = "idle" /\ tgt'[c] = i
        /\ pc'[c] \in {"smtp", "mark_paid", "dun_mail"}
        /\ pc'[c] = "dun_mail" => inv[i] # "paid"
        /\ \A d \in Calls \ {c} : pc'[d] = pc[d] /\ tgt'[d] = tgt[d]
    BY <1>1 DEF BeginSend, BeginDun, BeginPay, Start, rows, status
  <2> QED
    BY <1>0, <2>1, QuietKept
<1>2. ASSUME NEW c \in Calls, Smtp(c) \/ DunMail(c) \/ Crash(c) PROVE QuietInv'
  <2>1. /\ UNCHANGED <<inv, reminder, tgt>>
        /\ pc[c] \in Running /\ \A d \in Calls \ {c} : pc'[d] = pc[d]
        /\ \/ pc[c] = "smtp" /\ pc'[c] \in {"mark_sent", "failed"}
           \/ pc[c] = "dun_mail" /\ pc'[c] \in {"advance", "failed"}
           \/ pc'[c] = "crashed"
    BY <1>2 DEF Smtp, DunMail, Crash, rows, status, Running
  <2>2. pc[c] # "crashed"
    BY <2>1 DEF Running
  <2> QED
    BY <1>0, <2>1, <2>2, QuietKept
<1>3. ASSUME NEW c \in Calls, mark_sent(c) \/ transition_inquiry_to_invoiced(c)
      PROVE  QuietInv'
  <2>1. /\ UNCHANGED <<reminder, tgt>> /\ tgt[c] \in Invoices
        /\ pc[c] \in {"mark_sent", "to_invoiced"} /\ \A d \in Calls \ {c} : pc'[d] = pc[d]
        /\ pc'[c] \in {"to_invoiced", "remind"}
        /\ \A i \in Invoices : inv'[i] = "paid" => inv[i] = "paid"
        /\ inv'[tgt[c]] = "sent" \/ (pc[c] = "to_invoiced" /\ pc'[c] = "remind")
    BY <1>3 DEF mark_sent, transition_inquiry_to_invoiced, Transition
  <2> QED
    BY <1>0, <2>1, QuietKept
<1>4. ASSUME NEW c \in Calls, count_unpaid(c) \/ transition_inquiry_to_paid(c)
      PROVE  QuietInv'
  <2>1. /\ UNCHANGED <<inv, reminder, tgt>>
        /\ pc[c] \in {"count", "settle"} /\ \A d \in Calls \ {c} : pc'[d] = pc[d]
        /\ pc'[c] \in {"settle", "done"}
    BY <1>4 DEF count_unpaid, transition_inquiry_to_paid, Transition, rows, status
  <2> QED
    BY <1>0, <2>1, QuietKept
<1>5. ASSUME NEW c \in Calls, pc[c] \in Running, pc'[c] \in {"done", "count", "close"},
             UNCHANGED tgt, \A d \in Calls \ {c} : pc'[d] = pc[d],
             \A i \in Invoices \ {tgt[c]} : inv'[i] = inv[i] /\ reminder'[i] = reminder[i],
             inv'[tgt[c]] = "paid" => reminder'[tgt[c]].status # "pending" \/ pc'[c] = "close"
      PROVE  QuietInv'
  <2>1. \A d \in Calls \ {c} : pc'[d] \notin Running
    BY <1>5 DEF QuietInv, OneRunning
  <2>2. AboutUnpaid'
    BY <1>5, <2>1 DEF AboutUnpaid, Running
  <2>3. ASSUME Uncrashed', NEW i \in Invoices, inv'[i] = "paid"
        PROVE  reminder'[i].status # "pending" \/ \E d \in Calls : pc'[d] = "close" /\ tgt'[d] = i
    <3>1. CASE i = tgt[c]
      BY <1>5, <2>3, <3>1
    <3>2. CASE i # tgt[c]
      <4>1. Uncrashed
        BY <1>5, <2>3 DEF Uncrashed, Running
      <4>2. \A d \in Calls \ {c} : pc[d] \notin Running
        BY <1>5 DEF QuietInv, OneRunning
      <4>3. ~\E d \in Calls : pc[d] = "close" /\ tgt[d] = i
        BY <3>2, <4>2 DEF Running
      <4> QED
        BY <1>5, <2>3, <3>2, <4>1, <4>3 DEF QuietInv, PaidCloses
    <3> QED
      BY <3>1, <3>2
  <2>4. PaidCloses'
    BY <2>3 DEF PaidCloses
  <2> QED
    BY <1>0, <2>2, <2>4 DEF QuietInv
<1>6. ASSUME NEW c \in Calls, mark_paid(c) PROVE QuietInv'
  <2>1. op[c] = "register"
    BY <1>6 DEF mark_paid, QuietInv, OpKnown, Registered
  <2> QED
    BY <1>5, <1>6, <2>1 DEF mark_paid, Running
<1>7. ASSUME NEW c \in Calls, close_for_invoice(c) PROVE QuietInv'
  <2>1. tgt[c] \in Invoices /\ reminder[tgt[c]] \in Reminders
    BY <1>7
  <2>2. reminder'[tgt[c]].status # "pending"
    <3>1. CASE reminder[tgt[c]].status = "none"
      BY <1>7, <2>1, <3>1 DEF close_for_invoice
    <3>2. CASE reminder[tgt[c]].status # "none"
      BY <1>7, <2>1, <3>2 DEF close_for_invoice, Reminders
    <3> QED
      BY <3>1, <3>2
  <2> QED
    BY <1>5, <1>7, <2>2 DEF close_for_invoice, Running
<1>8. ASSUME NEW c \in Calls, create_reminder(c) \/ advance(c) PROVE QuietInv'
  <2>1. /\ pc[c] \in {"remind", "advance"} /\ pc'[c] = "done" /\ UNCHANGED <<inv, tgt>>
        /\ \A d \in Calls \ {c} : pc'[d] = pc[d]
        /\ \A i \in Invoices \ {tgt[c]} : reminder'[i] = reminder[i]
    BY <1>8 DEF create_reminder, advance
  <2>2. inv'[tgt[c]] # "paid"
    BY <2>1 DEF QuietInv, AboutUnpaid
  <2> QED
    BY <1>5, <2>1, <2>2 DEF Running
<1>9. ASSUME NEW i \in Invoices, snooze(i) \/ DateComes(i) PROVE QuietInv'
  <2>1. \A j \in Invoices : reminder'[j].status = reminder[j].status
    <3>1. PICK b \in BOOLEAN : reminder' = [reminder EXCEPT ![i] = [reminder[i] EXCEPT !.due = b]]
      BY <1>9 DEF snooze, DateComes
    <3>2. reminder[i] \in Reminders
      OBVIOUS
    <3> DEFINE r == [reminder[i] EXCEPT !.due = b]
    <3>3. r.status = reminder[i].status
      BY <3>2 DEF Reminders
    <3>4. \A j \in Invoices : reminder'[j] = IF j = i THEN r ELSE reminder[j]
      BY <3>1
    <3> QED
      BY <3>3, <3>4
  <2>2. UNCHANGED <<inv, tgt, pc>>
    BY <1>9 DEF snooze, DateComes
  <2> QED
    BY <1>0, <2>1, <2>2, QuietKept
<1>10. ASSUME NEW i \in Invoices, NEW t \in RawStatuses, update_status(i, t) PROVE QuietInv'
  <2>1. UNCHANGED <<reminder, tgt, pc>> /\ \A j \in Invoices : inv'[j] = "paid" => inv[j] = "paid"
    BY <1>10, BillingAssumption DEF update_status
  <2> QED
    BY <1>0, <2>1, QuietKept
<1>11. CASE UNCHANGED <<inv, reminder, tgt, pc>>
  BY <1>0, <1>11, QuietKept
<1>12. ASSUME NEW t \in JobStatuses, update_inquiry(t) PROVE QuietInv'
  BY <1>11, <1>12 DEF update_inquiry
<1>13. CASE UNCHANGED vars
  BY <1>11, <1>13 DEF vars
<1>14. ASSUME NEW c \in Calls, Step(c) \/ Crash(c) PROVE QuietInv'
  BY <1>2, <1>3, <1>4, <1>6, <1>7, <1>8, <1>14 DEF Step
<1> QED
  BY <1>1, <1>9, <1>10, <1>12, <1>13, <1>14 DEF Next

\* While no two calls run at once and every payment is booked in the
\* register, the quiet invariant holds of every reachable state.
LEMMA QuietInvariance ==
  ASSUME RegisterPays
  PROVE  Spec => []QuietInv
<1>1. Init => QuietInv
  BY DEF Init, QuietInv, OneRunning, OpKnown, Registered, AboutUnpaid, PaidCloses, Written, Running
<1>2. IInv /\ QuietInv /\ [Next]_vars => QuietInv'
  BY QuietStep
<1> QED
  BY <1>1, <1>2, Invariance, PTL DEF Spec

\* While no two calls run at once and every payment is booked in the
\* register, a paid invoice has no open dunning step once nothing runs.
THEOREM PaidLeftAlone ==
  ASSUME RegisterPays
  PROVE  Spec => []PaidIsQuiet
<1>1. QuietInv => PaidIsQuiet
  BY DEF QuietInv, PaidCloses, PaidIsQuiet, Quiet, Running
<1> QED
  BY <1>1, QuietInvariance, PTL
=============================================================================
