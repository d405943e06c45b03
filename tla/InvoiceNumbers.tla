--------------------------- MODULE InvoiceNumbers ---------------------------
(***************************************************************************)
(* The numbering of invoices.  Three code paths write rows that carry a    *)
(* number of the Rechnungsausgangsbuch: the dashboard (full invoice or     *)
(* Anzahlung/Schlussrechnung pair), the assistant's bridge, and the        *)
(* storage-rental billing.  All of them draw from one counter per year     *)
(* (invoice_number_counters) in one statement and write their rows in a    *)
(* later one, so requests interleave between the two.  A dashboard request *)
(* may also overwrite the number of an existing row, and the operator may  *)
(* set the counter.                                                        *)
(*                                                                         *)
(* A request is one call of a handler, from its first read to its answer;  *)
(* an action is one database statement (or transaction) together with the  *)
(* reads of unshared data around it.                                       *)
(***************************************************************************)
EXTENDS Integers, FiniteSets

CONSTANTS
  Requests,    \* handler calls
  Inquiries,   \* jobs a dashboard or assistant invoice is written for
  Periods,     \* (contract, year, month) slots of the storage billing
  Years,       \* calendar years
  MaxNum,      \* bound: no number above it is drawn or typed
  Kinds,       \* which of AllKinds run
  Forms,       \* which spellings of a number the operator types
  MayRewind    \* may the operator move the counter down?

AllKinds == {"full", "partial", "bridge", "storage", "renumber"}
AllForms == {"plain", "padded", "free"}

ASSUME NumbersAssumption ==
  /\ MaxNum \in Nat
  /\ Years # {} /\ Years \subseteq Nat
  /\ Inquiries # {}
  /\ Kinds \subseteq AllKinds
  /\ Forms \subseteq AllForms
  /\ MayRewind \in BOOLEAN

\* A number as it is written: 2026-87, 2026-0087, or text that does not parse.
Texts == [year : Years, seq : 1..MaxNum, form : AllForms]
NoText == [year |-> 0, seq |-> 0, form |-> "none"]

format(y, n) == [year |-> y, seq |-> n, form |-> "plain"]

\* invoice_number::parse reads both spellings as the same (year, seq).
parses(t) == t.form \in {"plain", "padded"}
SameNumber(t, u) == parses(t) /\ parses(u) /\ t.year = u.year /\ t.seq = u.seq

VARIABLES
  counter,   \* last_value of each year's row of invoice_number_counters
  rows,      \* the rows of both tables, invoices and storage_invoices
  pc,        \* where each request is
  kind,      \* which handler it runs
  subj,      \* the inquiry or the period it bills
  year,      \* the year it read from the clock
  lo,        \* the lowest number it drew, 0 before the draw
  edit,      \* an overwrite's row id and typed number
  seen       \* what an overwrite re-read before it prints again

vars == <<counter, rows, pc, kind, subj, year, lo, edit, seen>>

Ids == Requests \X (1..2)
\* A document: the number printed on it, and the Anzahlung's number its
\* deduction line quotes.
Docs == [text : Texts \union {NoText}, deposit : Texts \union {NoText}]
NoDoc == [text |-> NoText, deposit |-> NoText]
Row == [id : Ids, table : {"invoices", "storage_invoices"},
        subj : Inquiries \union Periods, part : {"whole", "first", "final"},
        text : Texts, pdf : Docs]
NoEdit == [id |-> <<>>, text |-> NoText]

Unfinished == {"check", "draw", "insert", "update", "advance", "reread", "reprint"}
PCs == Unfinished \union {"idle", "done", "skipped", "failed", "crashed"}

\* Storage rows live in a table of their own.
tableOf(k) == IF k = "storage" THEN "storage_invoices" ELSE "invoices"

\* next_invoice_numbers is asked for 2 by the partial flow, else for 1.
count(k) == IF k = "partial" THEN 2 ELSE 1

hi(r) == lo[r] + count(kind[r]) - 1
Drew(r) == lo[r] # 0

\* What the request's i-th row is numbered.
NumberOf(r, i) == format(year[r], lo[r] + i - 1)

Existing(r) == {x \in rows : x.table = tableOf(kind[r]) /\ x.subj = subj[r]}

Goto(r, l) == pc' = [pc EXCEPT ![r] = l]
-----------------------------------------------------------------------------
Init ==
  /\ counter = [y \in Years |-> 0]
  /\ rows = {}
  /\ pc = [r \in Requests |-> "idle"]
  /\ kind = [r \in Requests |-> "full"]
  /\ subj = [r \in Requests |-> CHOOSE s \in Inquiries \union Periods : TRUE]
  /\ year = [r \in Requests |-> CHOOSE y \in Years : TRUE]
  /\ lo = [r \in Requests |-> 0]
  /\ edit = [r \in Requests |-> NoEdit]
  /\ seen = [r \in Requests |-> NoDoc]

(***************************************************************************)
(* Creating invoices                                                       *)
(***************************************************************************)

\* A create call starts: its checks of type, percentage, status and price
\* have passed, and it has read the clock.
Begin(r, k, s, y) ==
  /\ pc[r] = "idle"
  /\ k \in Kinds \ {"renumber"}
  /\ s \in (IF k = "storage" THEN Periods ELSE Inquiries)
  /\ kind' = [kind EXCEPT ![r] = k]
  /\ subj' = [subj EXCEPT ![r] = s]
  /\ year' = [year EXCEPT ![r] = y]
  /\ Goto(r, "check")
  /\ UNCHANGED <<counter, rows, lo, edit, seen>>

\* What a row's document shows when it is built now.
docOf(x) ==
  [text |-> x.text,
   deposit |-> IF x.part # "final" THEN NoText
               ELSE (CHOOSE f \in rows : f.id = <<x.id[1], 1>>).text]

\* Rows exist: the call answers with them.  The dashboard first prints the
\* documents that are missing (a failure ends the call with some unprinted).
FindExisting(r) ==
  /\ pc[r] = "check"
  /\ Existing(r) # {}
  /\ LET missing == {x \in Existing(r) : x.pdf = NoDoc}
     IN \E healed \in SUBSET (IF kind[r] \in {"full", "partial"} THEN missing ELSE {}) :
          rows' = (rows \ healed) \union {[x EXCEPT !.pdf = docOf(x)] : x \in healed}
  /\ Goto(r, "skipped")
  /\ UNCHANGED <<counter, kind, subj, year, lo, edit, seen>>

FindNone(r) ==
  /\ pc[r] = "check"
  /\ Existing(r) = {}
  /\ Goto(r, "draw")
  /\ UNCHANGED <<counter, rows, kind, subj, year, lo, edit, seen>>

\* Bug: the upsert adds one for a pair too.
DrawByOne(r) ==
  /\ pc[r] = "draw"
  /\ counter[year[r]] + count(kind[r]) <= MaxNum
  /\ counter' = [counter EXCEPT ![year[r]] = @ + 1]
  /\ lo' = [lo EXCEPT ![r] = counter[year[r]] + 1]
  /\ Goto(r, "insert")
  /\ UNCHANGED <<rows, kind, subj, year, edit, seen>>

\* next_invoice_numbers: one upsert moves the counter by the block's size and
\* returns its end, so the counter row is locked for the whole of it.
next_invoice_numbers(r) ==
  /\ pc[r] = "draw"
  /\ counter[year[r]] + count(kind[r]) <= MaxNum
  /\ counter' = [counter EXCEPT ![year[r]] = @ + count(kind[r])]
  /\ lo' = [lo EXCEPT ![r] = counter[year[r]] + 1]
  /\ Goto(r, "insert")
  /\ UNCHANGED <<rows, kind, subj, year, edit, seen>>

\* The sheet cannot be built: the call fails and its numbers are spent.
RenderFails(r) ==
  /\ pc[r] = "insert"
  /\ kind[r] # "storage"
  /\ Goto(r, "failed")
  /\ UNCHANGED <<counter, rows, kind, subj, year, lo, edit, seen>>

\* The rows the request writes, when the documents in stored were uploaded.
NewRow(r, i, stored) ==
  [id |-> <<r, i>>, table |-> tableOf(kind[r]), subj |-> subj[r],
   part |-> IF kind[r] # "partial" THEN "whole" ELSE IF i = 1 THEN "first" ELSE "final",
   text |-> NumberOf(r, i),
   pdf |-> IF i \notin stored THEN NoDoc
           ELSE [text |-> NumberOf(r, i), deposit |-> IF i = 2 THEN NumberOf(r, 1) ELSE NoText]]
NewRows(r, stored) == {NewRow(r, i, stored) : i \in 1..count(kind[r])}

\* Bug: no unique constraint.
NeverTaken(r) == FALSE

\* UNIQUE (tenant_id, invoice_number): one per table, on the text.
Taken(r) ==
  \E x \in rows : x.table = tableOf(kind[r]) /\ \E i \in 1..count(kind[r]) : x.text = NumberOf(r, i)

\* The period was billed since the check: ON CONFLICT DO NOTHING.
LosePeriod(r) ==
  /\ pc[r] = "insert"
  /\ kind[r] = "storage"
  /\ Existing(r) # {}
  /\ Goto(r, "skipped")
  /\ UNCHANGED <<counter, rows, kind, subj, year, lo, edit, seen>>

\* Bug: ON CONFLICT DO NOTHING without a target swallows a taken number.
InsertOrNothing(r) ==
  /\ pc[r] = "insert"
  /\ Goto(r, "done")
  /\ \E stored \in SUBSET (1..count(kind[r])) :
       rows' = IF Taken(r) THEN rows ELSE rows \union NewRows(r, stored)
  /\ UNCHANGED <<counter, kind, subj, year, lo, edit, seen>>

\* One transaction writes the call's rows, whatever the uploads did.
Insert(r) ==
  /\ pc[r] = "insert"
  /\ kind[r] = "storage" => Existing(r) = {}
  /\ IF Taken(r)
     THEN /\ Goto(r, "failed")
          /\ UNCHANGED rows
     ELSE /\ Goto(r, "done")
          /\ \E stored \in SUBSET (IF kind[r] = "storage" THEN {} ELSE 1..count(kind[r])) :
               rows' = rows \union NewRows(r, stored)
  /\ UNCHANGED <<counter, kind, subj, year, lo, edit, seen>>

(***************************************************************************)
(* Overwriting a number                                                    *)
(***************************************************************************)

\* The row is read; typing the number it has is a no-op.
BeginRenumber(r, x, t) ==
  /\ "renumber" \in Kinds
  /\ pc[r] = "idle"
  /\ x.table = "invoices"
  /\ kind' = [kind EXCEPT ![r] = "renumber"]
  /\ edit' = [edit EXCEPT ![r] = [id |-> x.id, text |-> t]]
  /\ Goto(r, IF x.text = t THEN "skipped" ELSE "update")
  /\ UNCHANGED <<counter, rows, subj, year, lo, seen>>

Edited(r) == {x \in rows : x.id = edit[r].id}

\* The overwrite itself, refused when another row of invoices has the text.
update_invoice_number(r) ==
  /\ pc[r] = "update"
  /\ IF \E x \in rows : x.table = "invoices" /\ x.text = edit[r].text /\ x.id # edit[r].id
     THEN /\ Goto(r, "failed")
          /\ UNCHANGED rows
     ELSE /\ Goto(r, IF parses(edit[r].text) THEN "advance" ELSE "reread")
          /\ rows' = (rows \ Edited(r)) \union {[x EXCEPT !.text = edit[r].text] : x \in Edited(r)}
  /\ UNCHANGED <<counter, kind, subj, year, lo, edit, seen>>

\* Bug: last_value = the typed number, without GREATEST.
AssignSequence(r) ==
  /\ pc[r] = "advance"
  /\ counter' = [counter EXCEPT ![edit[r].text.year] = edit[r].text.seq]
  /\ Goto(r, "reread")
  /\ UNCHANGED <<rows, kind, subj, year, lo, edit, seen>>

\* advance_invoice_sequence: GREATEST(last_value, the typed number).
advance_invoice_sequence(r) ==
  /\ pc[r] = "advance"
  /\ LET t == edit[r].text
     IN counter' = [counter EXCEPT ![t.year] = IF @ < t.seq THEN t.seq ELSE @]
  /\ Goto(r, "reread")
  /\ UNCHANGED <<rows, kind, subj, year, lo, edit, seen>>

\* The row is read again, and for a Schlussrechnung its deposit's number.
Reread(r) ==
  /\ pc[r] = "reread"
  /\ \E x \in Edited(r) : seen' = [seen EXCEPT ![r] = docOf(x)]
  /\ Goto(r, "reprint")
  /\ UNCHANGED <<counter, rows, kind, subj, year, lo, edit>>

\* regenerate_invoice_pdf stores the document built from what was read, over
\* the row's one storage key, or fails.
regenerate_invoice_pdf(r) ==
  /\ pc[r] = "reprint"
  /\ \/ /\ rows' = (rows \ Edited(r)) \union {[x EXCEPT !.pdf = seen[r]] : x \in Edited(r)}
        /\ Goto(r, "done")
     \/ /\ UNCHANGED rows
        /\ Goto(r, "failed")
  /\ UNCHANGED <<counter, kind, subj, year, lo, edit, seen>>

(***************************************************************************)
(* The operator's counter, and crashes                                     *)
(***************************************************************************)

\* Einstellungen, Nummernkreise: the next number becomes n.
set_next_invoice_number(y, n) ==
  /\ MayRewind \/ counter[y] <= n - 1
  /\ counter' = [counter EXCEPT ![y] = n - 1]
  /\ UNCHANGED <<rows, pc, kind, subj, year, lo, edit, seen>>

\* The process dies, or the connection is lost, inside a call.
Crash(r) ==
  /\ pc[r] \in Unfinished
  /\ Goto(r, "crashed")
  /\ UNCHANGED <<counter, rows, kind, subj, year, lo, edit, seen>>

Step(r) ==
  \/ \E k \in Kinds, s \in Inquiries \union Periods, y \in Years : Begin(r, k, s, y)
  \/ FindExisting(r) \/ FindNone(r)
  \/ next_invoice_numbers(r)
  \/ RenderFails(r) \/ LosePeriod(r) \/ Insert(r)
  \/ \E x \in rows, y \in Years, n \in 1..MaxNum, f \in Forms :
       BeginRenumber(r, x, [year |-> y, seq |-> n, form |-> f])
  \/ update_invoice_number(r) \/ advance_invoice_sequence(r)
  \/ Reread(r) \/ regenerate_invoice_pdf(r)
  \/ Crash(r)

Next ==
  \/ \E r \in Requests : Step(r)
  \/ \E y \in Years, n \in 1..MaxNum : set_next_invoice_number(y, n)

Spec == Init /\ [][Next]_vars
-----------------------------------------------------------------------------
(***************************************************************************)
(* Properties                                                              *)
(***************************************************************************)

TypeOK ==
  /\ counter \in [Years -> 0..MaxNum]
  /\ rows \subseteq Row
  /\ pc \in [Requests -> PCs]
  /\ kind \in [Requests -> AllKinds]
  /\ subj \in [Requests -> Inquiries \union Periods]
  /\ year \in [Requests -> Years]
  /\ lo \in [Requests -> 0..MaxNum]
  /\ edit \in [Requests -> [id : Ids, text : Texts] \union {NoEdit}]
  /\ seen \in [Requests -> Docs]

\* No number is handed out twice in a year, whatever calls run at once (as
\* long as the operator does not move the counter down).
NumberDrawnOnce ==
  ~MayRewind =>
    \A r, q \in Requests :
      r # q /\ Drew(r) /\ Drew(q) /\ year[r] = year[q] => hi(r) < lo[q] \/ hi(q) < lo[r]

\* A row's number was overwritten by hand.
Overwritten(x) == x.text # NumberOf(x.id[1], x.id[2])

\* Across both tables, two rows with the same number of the book are only
\* there because an operator typed one of them.
BookUnique ==
  ~MayRewind =>
    \A x, y \in rows :
      x # y /\ SameNumber(x.text, y.text) => Overwritten(x) \/ Overwritten(y)

RowsOf(r) == {x \in rows : x.id[1] = r}

\* A drawn number is never silently thrown away: the call still has its
\* insert before it, or all its rows are there, or it ended in an error or a
\* crash, or it lost its storage period to another row.  A failed upload is
\* none of these reasons.
NumberAccounted ==
  \A r \in Requests : Drew(r) =>
    \/ pc[r] \in {"insert", "failed", "crashed"}
    \/ pc[r] = "done" /\ Cardinality(RowsOf(r)) = count(kind[r])
    \/ pc[r] = "skipped" /\ kind[r] = "storage" /\ Existing(r) # {}

\* The counter is at or past every number on a row, so that no later draw
\* runs into it, except while (or after a crash while) an overwrite stands
\* between its two statements.
CounterCovers ==
  ~MayRewind =>
    \A x \in rows : parses(x.text) =>
      \/ x.text.seq <= counter[x.text.year]
      \/ \E r \in Requests :
           pc[r] \in {"advance", "crashed"} /\ edit[r] = [id |-> x.id, text |-> x.text]

\* Within a table no text is on two rows, even after the counter was moved
\* down: the constraint turns a number drawn again into a failed call.
TextUnique ==
  \A x, y \in rows : x # y /\ x.table = y.table => x.text # y.text

\* The blocks handed out, as the abstract book sees them.
Given == {[by |-> r, year |-> year[r], lo |-> lo[r], hi |-> hi(r)] : r \in {q \in Requests : Drew(q)}}

Book == INSTANCE NumberBook WITH Holders <- Requests, given <- Given

\* The counter implements the abstract book.
BookSpec == Book!Spec
=============================================================================
