------------------------ MODULE InvoiceNumbers_proofs ------------------------
(***************************************************************************)
(* Proofs about InvoiceNumbers, for any number of concurrent calls, years, *)
(* inquiries and storage periods.                                          *)
(***************************************************************************)
EXTENDS InvoiceNumbers, FiniteSetTheorems, TLAPS

\* What a drawn block is: its request is past the draw and never an
\* overwrite, and the block fits the bound.
DrawOK ==
  \A r \in Requests :
    /\ pc[r] = "insert" => Drew(r)
    /\ pc[r] \in {"check", "draw"} => kind[r] # "renumber"
    /\ Drew(r) => /\ hi(r) <= MaxNum
                  /\ kind[r] # "renumber"
                  /\ pc[r] \notin {"idle", "check", "draw"}

\* The counter is at or past every number drawn, unless it was moved down.
DrawnBelowCounter ==
  ~MayRewind => \A r \in Requests : Drew(r) => hi(r) <= counter[year[r]]

\* A row comes from a finished call that drew its number.
RowOrigin ==
  \A x \in rows :
    /\ pc[x.id[1]] = "done"
    /\ Drew(x.id[1])
    /\ x.id[2] <= count(kind[x.id[1]])

\* A row is found by its key.
RowKeys == \A x, y \in rows : x.id = y.id => x = y

\* A Schlussrechnung has the deposit row whose number it quotes.
FinalHasFirst ==
  \A x \in rows : x.part = "final" => \E f \in rows : f.id = <<x.id[1], 1>>

\* An overwrite under way knows its row and its number.
EditOK ==
  \A r \in Requests :
    pc[r] \in {"update", "advance", "reread", "reprint"} => edit[r] \in [id : Ids, text : Texts]

\* The inductive invariant: BookUnique follows from where rows come from and
\* from the blocks being disjoint, which in turn needs the counter above them.
IInv ==
  /\ TypeOK
  /\ DrawOK
  /\ DrawnBelowCounter
  /\ NumberDrawnOnce
  /\ RowOrigin
  /\ RowKeys
  /\ FinalHasFirst
  /\ EditOK

\* A block of one or two numbers.
LEMMA CountIs == \A k : count(k) \in {1, 2} /\ (count(k) = 2 => k = "partial")
  BY DEF count

\* The inductive invariant holds before any call.
LEMMA InitInv == Init => IInv
<1> SUFFICES ASSUME Init PROVE IInv
  OBVIOUS
<1> USE NumbersAssumption DEF Init
<1>1. TypeOK
  BY DEF TypeOK, PCs, Unfinished, AllKinds, NoEdit, NoDoc, Docs
<1>2. \A r \in Requests : ~Drew(r)
  BY DEF Drew
<1>3. DrawOK /\ DrawnBelowCounter /\ NumberDrawnOnce
  BY <1>2 DEF DrawOK, DrawnBelowCounter, NumberDrawnOnce
<1>4. RowOrigin /\ RowKeys /\ FinalHasFirst /\ EditOK
  BY DEF RowOrigin, RowKeys, FinalHasFirst, EditOK
<1> QED
  BY <1>1, <1>3, <1>4 DEF IInv

\* A request's numbers are numbers of the book.
LEMMA NumbersAreTexts ==
  ASSUME IInv, NEW r \in Requests, Drew(r), NEW i \in 1..count(kind[r])
  PROVE  NumberOf(r, i) \in Texts
<1> DEFINE k == count(kind[r])
<1>1. k \in {1, 2} /\ i \in 1..k
  BY CountIs
<1>2. lo[r] \in 0..MaxNum /\ lo[r] # 0 /\ lo[r] + k - 1 <= MaxNum
  BY DEF IInv, TypeOK, DrawOK, Drew, hi
<1>3. lo[r] + i - 1 \in 1..MaxNum
  BY <1>1, <1>2, NumbersAssumption
<1> QED
  BY <1>3 DEF NumberOf, format, Texts, AllForms, IInv, TypeOK

\* What a row's document shows is well typed.
LEMMA DocIsDoc ==
  ASSUME IInv, NEW x \in rows
  PROVE  docOf(x) \in Docs
<1> x \in Row /\ \A f \in rows : f.text \in Texts
  BY DEF IInv, TypeOK, Row
<1>1. CASE x.part # "final"
  BY <1>1 DEF docOf, Row, Docs
<1>2. CASE x.part = "final"
  <2>1. \E f \in rows : f.id = <<x.id[1], 1>>
    BY <1>2 DEF IInv, FinalHasFirst
  <2>2. (CHOOSE f \in rows : f.id = <<x.id[1], 1>>) \in rows
    BY <2>1
  <2> QED
    BY <1>2, <2>2 DEF docOf, Row, Docs
<1> QED
  BY <1>1, <1>2

\* Printing a row again changes its document and nothing else.
LEMMA NewDoc ==
  ASSUME NEW x \in Row, NEW d \in Docs
  PROVE  LET z == [x EXCEPT !.pdf = d]
         IN z \in Row /\ z.id = x.id /\ z.part = x.part /\ z.text = x.text
  BY DEF Row

\* The steps that leave the rows, the draws and the counter alone.
LEMMA QuietStep ==
  ASSUME IInv, NEW r \in Requests, NEW l \in PCs, Goto(r, l),
         pc[r] # "done", pc[r] # "idle", l \notin {"idle", "check", "insert"},
         l = "draw" => pc[r] = "check",
         l \in {"update", "advance", "reread", "reprint"}
           => edit[r] \in [id : Ids, text : Texts],
         seen' \in [Requests -> Docs],
         UNCHANGED <<counter, rows, kind, subj, year, lo, edit>>
  PROVE  IInv'
<1> USE DEF IInv, Goto
<1>1. TypeOK'
  BY DEF TypeOK
<1>2. \A q \in Requests : (Drew(q) <=> Drew(q)') /\ hi(q) = hi(q)' /\ count(kind[q]) = count(kind[q])'
  BY DEF Drew, hi
<1>3. DrawOK' /\ DrawnBelowCounter' /\ NumberDrawnOnce'
  BY <1>2 DEF DrawOK, DrawnBelowCounter, NumberDrawnOnce, TypeOK
<1>4. RowOrigin'
  BY <1>2 DEF RowOrigin, TypeOK, Row, Ids
<1>5. RowKeys' /\ FinalHasFirst' /\ EditOK'
  BY DEF RowKeys, FinalHasFirst, EditOK, TypeOK
<1> QED
  BY <1>1, <1>3, <1>4, <1>5

\* next_invoice_numbers: the new block lies above every other of its year.
LEMMA DrawStep ==
  ASSUME IInv, NEW r \in Requests, next_invoice_numbers(r)
  PROVE  IInv'
<1> USE DEF IInv, next_invoice_numbers, Goto
<1> DEFINE k == count(kind[r])
<1>0. k \in {1, 2} /\ year[r] \in Years /\ counter[year[r]] \in Nat
  BY CountIs DEF TypeOK
<1>1. TypeOK'
  <2>1. counter[year[r]] + k \in 0..MaxNum /\ counter[year[r]] + 1 \in 0..MaxNum
    BY <1>0, NumbersAssumption
  <2> QED
    BY <2>1 DEF TypeOK, PCs, Unfinished
<1>2. ~Drew(r)
  BY DEF DrawOK
<1>3. /\ lo'[r] = counter[year[r]] + 1
      /\ hi(r)' = counter'[year[r]]
      /\ Drew(r)'
  BY CountIs DEF TypeOK, hi, Drew
<1>4. \A q \in Requests \ {r} : (Drew(q) <=> Drew(q)') /\ hi(q)' = hi(q) /\ lo'[q] = lo[q]
  BY DEF Drew, hi, TypeOK
<1>5. \A y \in Years : counter[y] <= counter'[y]
  BY CountIs DEF TypeOK
<1>6. DrawOK'
  BY <1>0, <1>1, <1>3, <1>4 DEF DrawOK, TypeOK
<1>7. DrawnBelowCounter'
  <2> SUFFICES ASSUME ~MayRewind, NEW q \in Requests, Drew(q)'
               PROVE  hi(q)' <= counter'[year[q]]
    BY DEF DrawnBelowCounter
  <2>1. CASE q = r
    BY <1>0, <1>1, <1>3, <2>1 DEF TypeOK
  <2>2. CASE q # r
    <3>1. hi(q) <= counter[year[q]] /\ hi(q)' = hi(q) /\ hi(q) \in Int
      BY <1>4, <2>2, CountIs DEF DrawnBelowCounter, hi, TypeOK
    <3>2. counter[year[q]] \in Int /\ counter'[year[q]] \in Int
      BY <1>1 DEF TypeOK
    <3> QED
      BY <1>5, <3>1, <3>2 DEF TypeOK
  <2> QED
    BY <2>1, <2>2
<1>8. NumberDrawnOnce'
  <2> SUFFICES ASSUME ~MayRewind, NEW p \in Requests, NEW q \in Requests,
                      p # q, Drew(p)', Drew(q)', year[p] = year[q]
               PROVE  hi(p)' < lo'[q] \/ hi(q)' < lo'[p]
    BY DEF NumberDrawnOnce
  <2>1. \A o \in Requests \ {r} : Drew(o)' /\ year[o] = year[r] => hi(o)' < lo'[r]
    BY <1>3, <1>4, CountIs DEF DrawnBelowCounter, TypeOK, hi
  <2>2. CASE p # r /\ q # r
    BY <1>4, <2>2 DEF NumberDrawnOnce
  <2> QED
    BY <2>1, <2>2
<1>9. RowOrigin' /\ RowKeys' /\ FinalHasFirst' /\ EditOK'
  BY <1>4 DEF RowOrigin, RowKeys, FinalHasFirst, EditOK, TypeOK, Row, Ids
<1> QED
  BY <1>1, <1>6, <1>7, <1>8, <1>9

\* Rows that keep their keys and parts, whatever else of them is rewritten.
LEMMA RowsRewritten ==
  ASSUME IInv, rows' \subseteq Row,
         \A z \in rows' : \E x \in rows : z.id = x.id /\ z.part = x.part,
         \A x \in rows : \E z \in rows' : z.id = x.id,
         RowKeys',
         NEW r \in Requests, NEW l \in {"done", "skipped", "failed", "advance", "reread"},
         Goto(r, l), pc[r] \in {"check", "update", "reprint"},
         l \in {"advance", "reread"} => pc[r] = "update",
         UNCHANGED <<counter, kind, subj, year, lo, edit, seen>>
  PROVE  IInv'
<1> USE DEF IInv, Goto
<1>1. TypeOK'
  BY DEF TypeOK, PCs, Unfinished
<1>2. \A q \in Requests : (Drew(q) <=> Drew(q)') /\ hi(q) = hi(q)' /\ count(kind[q]) = count(kind[q])'
  BY DEF Drew, hi
<1>3. DrawOK' /\ DrawnBelowCounter' /\ NumberDrawnOnce'
  BY <1>2 DEF DrawOK, DrawnBelowCounter, NumberDrawnOnce, TypeOK
<1>4. RowOrigin'
  <2> SUFFICES ASSUME NEW z \in rows'
               PROVE  /\ pc'[z.id[1]] = "done"
                      /\ Drew(z.id[1])'
                      /\ z.id[2] <= count(kind'[z.id[1]])
    BY DEF RowOrigin
  <2>1. PICK x \in rows : z.id = x.id
    OBVIOUS
  <2>2. x.id[1] \in Requests /\ x.id[1] # r
    BY DEF RowOrigin, TypeOK, Row, Ids
  <2> QED
    BY <1>2, <2>1, <2>2 DEF RowOrigin, TypeOK
<1>5. FinalHasFirst'
  <2> SUFFICES ASSUME NEW z \in rows', z.part = "final"
               PROVE  \E f \in rows' : f.id = <<z.id[1], 1>>
    BY DEF FinalHasFirst
  <2>1. PICK x \in rows : z.id = x.id /\ x.part = "final"
    OBVIOUS
  <2>2. PICK f \in rows : f.id = <<x.id[1], 1>>
    BY <2>1 DEF FinalHasFirst
  <2> QED
    BY <2>1, <2>2
<1>6. EditOK'
  BY DEF EditOK, TypeOK
<1> QED
  BY <1>1, <1>3, <1>4, <1>5, <1>6

\* A create call that starts has drawn nothing and left no rows.
LEMMA BeginStep ==
  ASSUME IInv, NEW r \in Requests, NEW k \in Kinds, NEW s \in Inquiries \union Periods,
         NEW y \in Years, Begin(r, k, s, y)
  PROVE  IInv'
<1> USE DEF IInv, Begin, Goto
<1>1. TypeOK'
  BY NumbersAssumption DEF TypeOK, PCs, Unfinished
<1>2. ~Drew(r) /\ ~Drew(r)'
  BY DEF DrawOK, Drew
<1>3. \A q \in Requests \ {r} : /\ (Drew(q) <=> Drew(q)') /\ hi(q) = hi(q)'
                               /\ count(kind[q]) = count(kind[q])' /\ year'[q] = year[q]
                               /\ kind'[q] = kind[q] /\ pc'[q] = pc[q]
  BY DEF Drew, hi, TypeOK
<1>4. DrawOK'
  BY <1>2, <1>3 DEF DrawOK, TypeOK
<1>5. DrawnBelowCounter' /\ NumberDrawnOnce'
  BY <1>2, <1>3 DEF DrawnBelowCounter, NumberDrawnOnce
<1>6. RowOrigin'
  BY <1>2, <1>3 DEF RowOrigin, TypeOK, Row, Ids
<1>7. RowKeys' /\ FinalHasFirst' /\ EditOK'
  BY DEF RowKeys, FinalHasFirst, EditOK, TypeOK
<1> QED
  BY <1>1, <1>4, <1>5, <1>6, <1>7

\* An overwrite that starts has drawn nothing and left no rows.
LEMMA BeginRenumberStep ==
  ASSUME IInv, NEW r \in Requests, NEW x \in rows, NEW t \in Texts, BeginRenumber(r, x, t)
  PROVE  IInv'
<1> USE DEF IInv, BeginRenumber, Goto
<1>1. TypeOK'
  BY NumbersAssumption DEF TypeOK, PCs, Unfinished, AllKinds, Row
<1>2. ~Drew(r) /\ ~Drew(r)'
  BY DEF DrawOK, Drew
<1>3. \A q \in Requests \ {r} : /\ (Drew(q) <=> Drew(q)') /\ hi(q) = hi(q)'
                               /\ count(kind[q]) = count(kind[q])'
                               /\ kind'[q] = kind[q] /\ pc'[q] = pc[q]
  BY DEF Drew, hi, TypeOK
<1>4. DrawOK'
  BY <1>2, <1>3 DEF DrawOK, TypeOK
<1>5. DrawnBelowCounter' /\ NumberDrawnOnce'
  BY <1>2, <1>3 DEF DrawnBelowCounter, NumberDrawnOnce
<1>6. RowOrigin'
  BY <1>2, <1>3 DEF RowOrigin, TypeOK, Row, Ids
<1>7. RowKeys' /\ FinalHasFirst'
  BY DEF RowKeys, FinalHasFirst
<1>8. EditOK'
  BY DEF EditOK, TypeOK, Row
<1> QED
  BY <1>1, <1>4, <1>5, <1>6, <1>7, <1>8

\* A counter that is moved, not below what it was unless rewinding is allowed.
LEMMA CounterStep ==
  ASSUME IInv, NEW y \in Years, NEW n \in 0..MaxNum,
         MayRewind \/ counter[y] <= n,
         counter' = [counter EXCEPT ![y] = n],
         \/ UNCHANGED pc
         \/ \E r \in Requests : pc[r] = "advance" /\ Goto(r, "reread"),
         UNCHANGED <<rows, kind, subj, year, lo, edit, seen>>
  PROVE  IInv'
<1> USE DEF IInv, Goto
<1>1. TypeOK'
  BY DEF TypeOK, PCs, Unfinished
<1>2. \A q \in Requests : (Drew(q) <=> Drew(q)') /\ hi(q) = hi(q)' /\ count(kind[q]) = count(kind[q])'
  BY DEF Drew, hi
<1>3. DrawOK' /\ NumberDrawnOnce'
  BY <1>2 DEF DrawOK, NumberDrawnOnce, TypeOK
<1>4. DrawnBelowCounter'
  <2> SUFFICES ASSUME ~MayRewind, NEW q \in Requests, Drew(q)
               PROVE  hi(q) <= counter'[year[q]]
    BY <1>2 DEF DrawnBelowCounter
  <2>1. hi(q) <= counter[year[q]] /\ hi(q) \in Int /\ counter[year[q]] \in Int
    BY CountIs DEF DrawnBelowCounter, hi, TypeOK
  <2>2. counter'[year[q]] \in Int /\ counter[year[q]] <= counter'[year[q]]
    BY DEF TypeOK
  <2> QED
    BY <2>1, <2>2
<1>5. RowOrigin'
  BY <1>2 DEF RowOrigin, TypeOK, Row, Ids
<1>6. RowKeys' /\ FinalHasFirst' /\ EditOK'
  BY DEF RowKeys, FinalHasFirst, EditOK, TypeOK
<1> QED
  BY <1>1, <1>3, <1>4, <1>5, <1>6

\* The rows of a call are new, carry its own keys, and end it.
LEMMA InsertStep ==
  ASSUME IInv, NEW r \in Requests, Insert(r)
  PROVE  IInv'
<1> USE DEF IInv
<1>1. CASE Taken(r)
  <2>1. Goto(r, "failed") /\ UNCHANGED <<counter, rows, kind, subj, year, lo, edit, seen>>
    BY <1>1 DEF Insert
  <2> QED
    BY <2>1, QuietStep DEF Insert, TypeOK, PCs, Unfinished
<1>2. CASE ~Taken(r)
  <2> DEFINE k == count(kind[r])
  <2>1. /\ pc[r] = "insert"
        /\ pc' = [pc EXCEPT ![r] = "done"]
        /\ UNCHANGED <<counter, kind, subj, year, lo, edit, seen>>
    BY <1>2 DEF Insert, Goto
  <2>2. PICK stored \in SUBSET (1..k) : rows' = rows \union NewRows(r, stored)
    BY <1>2 DEF Insert
  <2>3. Drew(r) /\ k \in {1, 2} /\ kind[r] # "renumber"
    BY <2>1, CountIs DEF DrawOK
  <2>4. \A x \in rows : x \in Row /\ x.id[1] \in Requests /\ x.id[1] # r
    BY <2>1 DEF RowOrigin, TypeOK, Row, Ids
  <2>5. \A i \in 1..k : NumberOf(r, i) \in Texts
    BY <2>3, NumbersAreTexts
  <2>6. \A z \in NewRows(r, stored) :
          /\ z \in Row
          /\ \E i \in 1..k : z.id = <<r, i>> /\ (z.part = "final" => i = 2)
    <3> SUFFICES ASSUME NEW i \in 1..k
                 PROVE  /\ NewRow(r, i, stored) \in Row
                        /\ NewRow(r, i, stored).id = <<r, i>>
                        /\ NewRow(r, i, stored).part = "final" => i = 2
      BY DEF NewRows
    <3>1. i \in 1..2 /\ <<r, i>> \in Ids
      BY <2>3 DEF Ids
    <3>2. subj[r] \in Inquiries \union Periods
      BY DEF TypeOK
    <3>3. (IF i \notin stored THEN NoDoc
           ELSE [text |-> NumberOf(r, i),
                 deposit |-> IF i = 2 THEN NumberOf(r, 1) ELSE NoText]) \in Docs
      BY <2>3, <2>5 DEF Docs, NoDoc
    <3> QED
      BY <2>3, <2>5, <3>1, <3>2, <3>3 DEF NewRow, Row, tableOf
  <2>7. \A i \in 1..k : NewRow(r, i, stored) \in NewRows(r, stored) /\ NewRow(r, i, stored).id = <<r, i>>
    BY DEF NewRows, NewRow
  <2>8. \A z, w \in NewRows(r, stored) : z.id = w.id => z = w
    BY <2>7 DEF NewRows
  <2>9. TypeOK'
    BY <2>1, <2>2, <2>4, <2>6 DEF TypeOK, PCs, Unfinished
  <2>10. \A q \in Requests : /\ (Drew(q) <=> Drew(q)') /\ hi(q) = hi(q)'
                            /\ count(kind[q]) = count(kind'[q])
    BY <2>1 DEF Drew, hi
  <2>11. DrawOK' /\ DrawnBelowCounter' /\ NumberDrawnOnce'
    BY <2>1, <2>10 DEF DrawOK, DrawnBelowCounter, NumberDrawnOnce, TypeOK
  <2>12. RowOrigin'
    <3>1. \A x \in rows : pc'[x.id[1]] = "done" /\ Drew(x.id[1])' /\ x.id[2] <= count(kind'[x.id[1]])
      BY <2>1, <2>4, <2>10 DEF RowOrigin, TypeOK
    <3>2. \A z \in NewRows(r, stored) :
            pc'[z.id[1]] = "done" /\ Drew(z.id[1])' /\ z.id[2] <= count(kind'[z.id[1]])
      BY <2>1, <2>3, <2>6, <2>10 DEF TypeOK
    <3> QED
      BY <2>2, <3>1, <3>2 DEF RowOrigin
  <2>13. RowKeys'
    BY <2>2, <2>4, <2>6, <2>8 DEF RowKeys
  <2>14. FinalHasFirst'
    <3>1. \A z \in NewRows(r, stored) : z.part = "final" =>
            \E f \in NewRows(r, stored) : f.id = <<z.id[1], 1>>
      BY <2>3, <2>6, <2>7
    <3> QED
      BY <2>2, <3>1 DEF FinalHasFirst
  <2>15. EditOK'
    BY <2>1 DEF EditOK, TypeOK
  <2> QED
    BY <2>9, <2>11, <2>12, <2>13, <2>14, <2>15
<1> QED
  BY <1>1, <1>2

\* Printing the missing documents keeps the keys and parts of the rows.
LEMMA FindExistingStep ==
  ASSUME IInv, NEW r \in Requests, FindExisting(r)
  PROVE  IInv'
<1> USE DEF IInv
<1>1. PICK healed \in SUBSET rows :
        rows' = (rows \ healed) \union {[x EXCEPT !.pdf = docOf(x)] : x \in healed}
  BY DEF FindExisting, Existing
<1>2. \A x \in rows : LET z == [x EXCEPT !.pdf = docOf(x)]
                     IN z \in Row /\ z.id = x.id /\ z.part = x.part
  BY NewDoc, DocIsDoc DEF TypeOK
<1>3. rows' \subseteq Row
  BY <1>1, <1>2 DEF TypeOK
<1>4. \A z \in rows' : \E x \in rows : z.id = x.id /\ z.part = x.part
  BY <1>1, <1>2
<1>5. \A x \in rows : \E z \in rows' : z.id = x.id
  BY <1>1, <1>2
<1>6. RowKeys'
  <2> DEFINE f(x) == IF x \in healed THEN [x EXCEPT !.pdf = docOf(x)] ELSE x
  <2>1. \A z \in rows' : \E x \in rows : z = f(x)
    BY <1>1
  <2>2. \A x \in rows : f(x).id = x.id
    BY <1>2
  <2> HIDE DEF f
  <2> QED
    BY <2>1, <2>2 DEF RowKeys
<1> QED
  BY <1>3, <1>4, <1>5, <1>6, RowsRewritten DEF FindExisting

\* Overwriting a number keeps the keys and parts of the rows.
LEMMA UpdateNumberStep ==
  ASSUME IInv, NEW r \in Requests, update_invoice_number(r)
  PROVE  IInv'
<1> USE DEF IInv
<1> DEFINE t == edit[r].text
<1>1. CASE UNCHANGED rows /\ Goto(r, "failed")
  BY <1>1, QuietStep DEF update_invoice_number, TypeOK, PCs, Unfinished
<1>2. CASE rows' = (rows \ Edited(r)) \union {[x EXCEPT !.text = t] : x \in Edited(r)}
  <2>1. t \in Texts
    BY DEF EditOK, update_invoice_number
  <2>2. \A x \in rows : LET z == [x EXCEPT !.text = t]
                       IN z \in Row /\ z.id = x.id /\ z.part = x.part
    BY <2>1 DEF TypeOK, Row
  <2> DEFINE f(x) == IF x \in Edited(r) THEN [x EXCEPT !.text = t] ELSE x
  <2>3. \A z \in rows' : \E x \in rows : z = f(x)
    BY <1>2 DEF Edited
  <2>4. \A x \in rows : f(x) \in rows' /\ f(x) \in Row /\ f(x).id = x.id /\ f(x).part = x.part
    BY <1>2, <2>2 DEF TypeOK
  <2> HIDE DEF f
  <2>5. /\ rows' \subseteq Row
        /\ \A z \in rows' : \E x \in rows : z.id = x.id /\ z.part = x.part
        /\ \A x \in rows : \E z \in rows' : z.id = x.id
        /\ RowKeys'
    BY <2>3, <2>4 DEF RowKeys
  <2>6. \E l \in {"failed", "advance", "reread"} : Goto(r, l)
    BY DEF update_invoice_number
  <2> QED
    BY <2>5, <2>6, RowsRewritten DEF update_invoice_number
<1> QED
  BY <1>1, <1>2 DEF update_invoice_number

\* Replacing a document keeps the keys and parts of the rows.
LEMMA ReprintStep ==
  ASSUME IInv, NEW r \in Requests, regenerate_invoice_pdf(r)
  PROVE  IInv'
<1> USE DEF IInv
<1>1. CASE UNCHANGED rows /\ Goto(r, "failed")
  BY <1>1, QuietStep DEF regenerate_invoice_pdf, TypeOK, PCs, Unfinished
<1>2. CASE /\ rows' = (rows \ Edited(r)) \union {[x EXCEPT !.pdf = seen[r]] : x \in Edited(r)}
           /\ Goto(r, "done")
  <2>1. seen[r] \in Docs
    BY DEF TypeOK
  <2>2. \A x \in rows : LET z == [x EXCEPT !.pdf = seen[r]]
                       IN z \in Row /\ z.id = x.id /\ z.part = x.part
    BY <2>1, NewDoc DEF TypeOK
  <2> DEFINE f(x) == IF x \in Edited(r) THEN [x EXCEPT !.pdf = seen[r]] ELSE x
  <2>3. \A z \in rows' : \E x \in rows : z = f(x)
    BY <1>2 DEF Edited
  <2>4. \A x \in rows : f(x) \in rows' /\ f(x) \in Row /\ f(x).id = x.id /\ f(x).part = x.part
    BY <1>2, <2>2 DEF TypeOK
  <2> HIDE DEF f
  <2>5. /\ rows' \subseteq Row
        /\ \A z \in rows' : \E x \in rows : z.id = x.id /\ z.part = x.part
        /\ \A x \in rows : \E z \in rows' : z.id = x.id
        /\ RowKeys'
    BY <2>3, <2>4 DEF RowKeys
  <2> QED
    BY <1>2, <2>5, RowsRewritten DEF regenerate_invoice_pdf
<1> QED
  BY <1>1, <1>2 DEF regenerate_invoice_pdf

\* Every step preserves the inductive invariant.
LEMMA StepInv == IInv /\ [Next]_vars => IInv'
<1> SUFFICES ASSUME IInv, [Next]_vars PROVE IInv'
  OBVIOUS
<1>1. CASE UNCHANGED vars
  BY <1>1 DEF vars, IInv, TypeOK, DrawOK, DrawnBelowCounter, NumberDrawnOnce, RowOrigin,
              RowKeys, FinalHasFirst, EditOK, Drew, hi
<1>2. ASSUME NEW r \in Requests, Step(r) PROVE IInv'
  <2>1. ASSUME NEW k \in Kinds, NEW s \in Inquiries \union Periods, NEW y \in Years, Begin(r, k, s, y)
        PROVE  IInv'
    BY <2>1, BeginStep
  <2>2. CASE FindExisting(r)
    BY <2>2, FindExistingStep
  <2>3. CASE FindNone(r)
    BY <2>3, QuietStep DEF FindNone, PCs, Unfinished, IInv, TypeOK
  <2>4. CASE next_invoice_numbers(r)
    BY <2>4, DrawStep
  <2>5. CASE RenderFails(r)
    BY <2>5, QuietStep DEF RenderFails, PCs, Unfinished, IInv, TypeOK
  <2>6. CASE LosePeriod(r)
    BY <2>6, QuietStep DEF LosePeriod, PCs, Unfinished, IInv, TypeOK
  <2>7. CASE Insert(r)
    BY <2>7, InsertStep
  <2>8. ASSUME NEW x \in rows, NEW y \in Years, NEW n \in 1..MaxNum, NEW f \in Forms,
               BeginRenumber(r, x, [year |-> y, seq |-> n, form |-> f])
        PROVE  IInv'
    <3>1. [year |-> y, seq |-> n, form |-> f] \in Texts
      BY NumbersAssumption DEF Texts
    <3> QED
      BY <2>8, <3>1, BeginRenumberStep
  <2>9. CASE update_invoice_number(r)
    BY <2>9, UpdateNumberStep
  <2>10. CASE advance_invoice_sequence(r)
    <3> DEFINE t == edit[r].text
               n == IF counter[t.year] < t.seq THEN t.seq ELSE counter[t.year]
    <3>1. t.year \in Years /\ t.seq \in 1..MaxNum
      BY <2>10 DEF advance_invoice_sequence, IInv, EditOK, Texts
    <3>2. n \in 0..MaxNum /\ counter[t.year] <= n /\ counter' = [counter EXCEPT ![t.year] = n]
      <4>1. counter[t.year] \in 0..MaxNum
        BY <3>1 DEF IInv, TypeOK
      <4>2. counter' = [counter EXCEPT ![t.year] = n]
        BY <2>10 DEF advance_invoice_sequence
      <4> QED
        BY <3>1, <4>1, <4>2, NumbersAssumption
    <3> QED
      BY <2>10, <3>1, <3>2, CounterStep DEF advance_invoice_sequence
  <2>11. CASE Reread(r)
    <3>1. seen' \in [Requests -> Docs]
      BY <2>11, DocIsDoc DEF Reread, Edited, IInv, TypeOK
    <3>2. edit[r] \in [id : Ids, text : Texts]
      BY <2>11 DEF Reread, IInv, EditOK
    <3> QED
      BY <2>11, <3>1, <3>2, QuietStep DEF Reread, PCs, Unfinished
  <2>12. CASE regenerate_invoice_pdf(r)
    BY <2>12, ReprintStep
  <2>13. CASE Crash(r)
    BY <2>13, QuietStep DEF Crash, PCs, Unfinished, IInv, TypeOK
  <2> QED
    BY <1>2, <2>1, <2>2, <2>3, <2>4, <2>5, <2>6, <2>7, <2>8, <2>9, <2>10, <2>11, <2>12, <2>13
       DEF Step
<1>3. ASSUME NEW y \in Years, NEW n \in 1..MaxNum, set_next_invoice_number(y, n) PROVE IInv'
  <2>1. n - 1 \in 0..MaxNum
    BY NumbersAssumption
  <2> QED
    BY <1>3, <2>1, CounterStep DEF set_next_invoice_number
<1> QED
  BY <1>1, <1>2, <1>3 DEF Next

\* The inductive invariant holds in every reachable state.
LEMMA Invariance == Spec => []IInv
  BY InitInv, StepInv, PTL DEF Spec

\* Every state is well typed: in particular no draw or overwrite takes a
\* counter or a row past the bound.
THEOREM TypeCorrect == Spec => []TypeOK
<1>1. IInv => TypeOK
  BY DEF IInv
<1> QED
  BY <1>1, Invariance, PTL

\* No number is handed out twice in a year, for any number of concurrent
\* calls (next_invoice_numbers, while the counter is not moved down).
THEOREM DrawnOnce == Spec => []NumberDrawnOnce
<1>1. IInv => NumberDrawnOnce
  BY DEF IInv
<1> QED
  BY <1>1, Invariance, PTL

\* Across invoices and storage_invoices, two rows share a number only where
\* an operator typed one of them.
THEOREM BookIsUnique == Spec => []BookUnique
<1>1. ASSUME IInv PROVE BookUnique
  <2> SUFFICES ASSUME ~MayRewind, NEW x \in rows, NEW y \in rows, x # y,
                      SameNumber(x.text, y.text), ~Overwritten(x), ~Overwritten(y)
               PROVE  FALSE
    BY DEF BookUnique
  <2> DEFINE p == x.id[1]  q == y.id[1]
  <2>1. /\ p \in Requests /\ q \in Requests /\ Drew(p) /\ Drew(q)
        /\ x.id[2] \in 1..2 /\ y.id[2] \in 1..2
        /\ x.id[2] <= count(kind[p]) /\ y.id[2] <= count(kind[q])
        /\ x.id = <<p, x.id[2]>> /\ y.id = <<q, y.id[2]>>
    BY <1>1 DEF IInv, RowOrigin, TypeOK, Row, Ids
  <2>2. /\ x.text.seq = lo[p] + x.id[2] - 1 /\ x.text.year = year[p]
        /\ y.text.seq = lo[q] + y.id[2] - 1 /\ y.text.year = year[q]
    BY DEF Overwritten, NumberOf, format
  <2>3. year[p] = year[q] /\ lo[p] + x.id[2] - 1 = lo[q] + y.id[2] - 1
    BY <2>2 DEF SameNumber
  <2>4. lo[p] \in Nat /\ lo[q] \in Nat /\ count(kind[p]) \in {1, 2} /\ count(kind[q]) \in {1, 2}
    BY <1>1, <2>1, CountIs DEF IInv, TypeOK
  <2>5. CASE p = q
    <3>1. x.id[2] = y.id[2]
      BY <2>1, <2>3, <2>4, <2>5
    <3> QED
      BY <1>1, <2>1, <2>5, <3>1 DEF IInv, RowKeys
  <2>6. CASE p # q
    <3>1. hi(p) < lo[q] \/ hi(q) < lo[p]
      BY <1>1, <2>1, <2>3, <2>6 DEF IInv, NumberDrawnOnce
    <3> QED
      BY <2>1, <2>3, <2>4, <3>1 DEF hi
  <2> QED
    BY <2>5, <2>6
<1> QED
  BY <1>1, Invariance, PTL

-----------------------------------------------------------------------------
\* An overwrite that is about to be made is of a row of the table invoices.
EditTable ==
  \A r \in Requests : pc[r] = "update" =>
    \E x \in rows : x.id = edit[r].id /\ x.table = "invoices"

TextInv == TextUnique /\ EditTable

\* What a step that writes no number does to the rows: each is one that was
\* there, with its key, table and number, and none disappears.
TextsKept ==
  /\ \A z \in rows' : \E x \in rows : z.id = x.id /\ z.table = x.table /\ z.text = x.text
  /\ \A x \in rows : \E z \in rows' : z.id = x.id /\ z.table = x.table

\* A step that writes no number keeps the numbers distinct.
LEMMA TextKeptStep ==
  ASSUME TextInv, RowKeys', TextsKept,
         \A r \in Requests : pc'[r] = "update" =>
           \/ pc[r] = "update" /\ edit'[r] = edit[r]
           \/ \E x \in rows : x.id = edit'[r].id /\ x.table = "invoices"
  PROVE  TextInv'
<1>1. TextUnique'
  <2> SUFFICES ASSUME NEW z \in rows', NEW w \in rows', z # w, z.table = w.table
               PROVE  z.text # w.text
    BY DEF TextUnique
  <2>1. z.id # w.id
    BY DEF RowKeys
  <2>2. PICK x \in rows : z.id = x.id /\ z.table = x.table /\ z.text = x.text
    BY DEF TextsKept
  <2>3. PICK y \in rows : w.id = y.id /\ w.table = y.table /\ w.text = y.text
    BY DEF TextsKept
  <2> QED
    BY <2>1, <2>2, <2>3 DEF TextInv, TextUnique
<1>2. EditTable'
  <2> SUFFICES ASSUME NEW r \in Requests, pc'[r] = "update"
               PROVE  \E z \in rows' : z.id = edit'[r].id /\ z.table = "invoices"
    BY DEF EditTable
  <2>1. PICK x \in rows : x.id = edit'[r].id /\ x.table = "invoices"
    BY DEF TextInv, EditTable
  <2> QED
    BY <2>1 DEF TextsKept
<1> QED
  BY <1>1, <1>2 DEF TextInv

\* The constraint refuses a drawn number that is on another row.
LEMMA InsertTexts ==
  ASSUME IInv, TextInv, NEW r \in Requests, Insert(r), ~Taken(r)
  PROVE  TextInv'
<1> DEFINE k == count(kind[r])
<1>1. PICK stored \in SUBSET (1..k) : rows' = rows \union NewRows(r, stored)
  BY DEF Insert
<1>2. /\ pc' = [pc EXCEPT ![r] = "done"] /\ UNCHANGED edit
  BY DEF Insert, Goto
<1>3. k \in {1, 2} /\ lo[r] \in Nat
  BY CountIs DEF IInv, TypeOK
<1>4. \A z \in NewRows(r, stored) : \E i \in 1..k :
        z = NewRow(r, i, stored) /\ z.table = tableOf(kind[r]) /\ z.text = NumberOf(r, i)
  BY DEF NewRows, NewRow
<1>5. \A x \in rows, z \in NewRows(r, stored) : x.table = z.table => x.text # z.text
  BY <1>4 DEF Taken
<1>6. \A i, j \in 1..k : NumberOf(r, i) = NumberOf(r, j) => i = j
  <2> SUFFICES ASSUME NEW i \in 1..k, NEW j \in 1..k, NumberOf(r, i) = NumberOf(r, j)
               PROVE  i = j
    OBVIOUS
  <2>1. lo[r] + i - 1 = lo[r] + j - 1
    BY DEF NumberOf, format
  <2> QED
    BY <1>3, <2>1
<1>7. \A z, w \in NewRows(r, stored) : z.text = w.text => z = w
  BY <1>4, <1>6
<1>8. TextUnique'
  BY <1>1, <1>5, <1>7 DEF TextUnique, TextInv
<1>9. EditTable'
  BY <1>1, <1>2 DEF EditTable, TextInv, IInv, TypeOK
<1> QED
  BY <1>8, <1>9 DEF TextInv

\* The check for another row with the typed text keeps them distinct.
LEMMA UpdateTexts ==
  ASSUME IInv, TextInv, NEW r \in Requests, update_invoice_number(r), rows' # rows
  PROVE  TextInv'
<1> DEFINE t == edit[r].text
           f(x) == IF x \in Edited(r) THEN [x EXCEPT !.text = t] ELSE x
<1>1. /\ rows' = (rows \ Edited(r)) \union {[x EXCEPT !.text = t] : x \in Edited(r)}
      /\ \A x \in rows : x.table = "invoices" /\ x.text = t => x.id = edit[r].id
      /\ UNCHANGED edit
      /\ \A q \in Requests : pc'[q] = "update" => pc[q] = "update"
  BY DEF update_invoice_number, Goto, IInv, TypeOK
<1>2. \A x \in Edited(r) : x \in rows /\ x.id = edit[r].id /\ x.table = "invoices"
  BY DEF Edited, TextInv, EditTable, IInv, RowKeys, update_invoice_number
<1>3. \A x, y \in Edited(r) : x = y
  BY <1>2 DEF IInv, RowKeys
<1>4. \A x \in rows : LET z == [x EXCEPT !.text = t]
                      IN z.id = x.id /\ z.table = x.table /\ z.text = t
  BY DEF IInv, TypeOK, Row
<1>5. \A x \in rows : /\ f(x).id = x.id /\ f(x).table = x.table
                      /\ f(x).text = IF x \in Edited(r) THEN t ELSE x.text
  BY <1>4
<1>6. \A z \in rows' : \E x \in rows : z = f(x)
  BY <1>1, <1>2
<1>7. \A x \in rows : f(x) \in rows'
  BY <1>1
<1> HIDE DEF f
<1>8. TextUnique'
  <2> SUFFICES ASSUME NEW x \in rows, NEW y \in rows, f(x) # f(y), f(x).table = f(y).table,
                      f(x).text = f(y).text
               PROVE  FALSE
    BY <1>6 DEF TextUnique
  <2>1. x # y /\ x.table = y.table
    BY <1>5
  <2>2. CASE x \in Edited(r)
    BY <1>1, <1>2, <1>3, <1>5, <2>1, <2>2 DEF Edited
  <2>3. CASE y \in Edited(r)
    BY <1>1, <1>2, <1>3, <1>5, <2>1, <2>3 DEF Edited
  <2>4. CASE x \notin Edited(r) /\ y \notin Edited(r)
    BY <1>5, <2>1, <2>4 DEF TextInv, TextUnique
  <2> QED
    BY <2>2, <2>3, <2>4
<1>9. EditTable'
  <2> SUFFICES ASSUME NEW q \in Requests, pc'[q] = "update"
               PROVE  \E z \in rows' : z.id = edit'[q].id /\ z.table = "invoices"
    BY DEF EditTable
  <2>1. PICK x \in rows : x.id = edit[q].id /\ x.table = "invoices"
    BY <1>1 DEF TextInv, EditTable
  <2> QED
    BY <1>1, <1>5, <1>7, <2>1
<1> QED
  BY <1>8, <1>9 DEF TextInv

\* Every step keeps the numbers of a table distinct.
LEMMA TextStep == IInv /\ IInv' /\ TextInv /\ [Next]_vars => TextInv'
<1> SUFFICES ASSUME IInv, IInv', TextInv, [Next]_vars PROVE TextInv'
  OBVIOUS
<1> RowKeys'
  BY DEF IInv
<1>1. ASSUME UNCHANGED rows,
             \A r \in Requests : pc'[r] = "update" => pc[r] = "update" /\ edit'[r] = edit[r]
      PROVE  TextInv'
  BY <1>1, TextKeptStep DEF TextsKept
<1>2. ASSUME NEW r \in Requests, Step(r) PROVE TextInv'
  <2> USE DEF Goto, IInv, TypeOK
  <2>1. ASSUME NEW k \in Kinds, NEW s \in Inquiries \union Periods, NEW y \in Years, Begin(r, k, s, y)
        PROVE  TextInv'
    BY <1>1, <2>1 DEF Begin
  <2>2. CASE FindExisting(r)
    <3>1. PICK healed \in SUBSET rows :
            rows' = (rows \ healed) \union {[x EXCEPT !.pdf = docOf(x)] : x \in healed}
      BY <2>2 DEF FindExisting, Existing
    <3> DEFINE f(x) == IF x \in healed THEN [x EXCEPT !.pdf = docOf(x)] ELSE x
    <3>2. \A x \in rows : f(x).id = x.id /\ f(x).table = x.table /\ f(x).text = x.text
      BY DEF Row
    <3>3. (\A z \in rows' : \E x \in rows : z = f(x)) /\ \A x \in rows : f(x) \in rows'
      BY <3>1
    <3> HIDE DEF f
    <3>4. TextsKept
      BY <3>2, <3>3 DEF TextsKept
    <3> QED
      BY <2>2, <3>4, TextKeptStep DEF FindExisting
  <2>3. CASE next_invoice_numbers(r) \/ FindNone(r) \/ RenderFails(r) \/ LosePeriod(r) \/ Crash(r)
    BY <1>1, <2>3 DEF next_invoice_numbers, FindNone, RenderFails, LosePeriod, Crash
  <2>4. CASE advance_invoice_sequence(r) \/ Reread(r)
    BY <1>1, <2>4 DEF advance_invoice_sequence, Reread
  <2>5. CASE Insert(r)
    <3>1. CASE Taken(r)
      BY <1>1, <2>5, <3>1 DEF Insert
    <3> QED
      BY <2>5, <3>1, InsertTexts
  <2>6. ASSUME NEW x \in rows, NEW y \in Years, NEW n \in 1..MaxNum, NEW f \in Forms,
               BeginRenumber(r, x, [year |-> y, seq |-> n, form |-> f])
        PROVE  TextInv'
    <3>1. TextsKept
      BY <2>6 DEF BeginRenumber, TextsKept
    <3>2. \A q \in Requests : pc'[q] = "update" =>
            \/ pc[q] = "update" /\ edit'[q] = edit[q]
            \/ \E z \in rows : z.id = edit'[q].id /\ z.table = "invoices"
      BY <2>6 DEF BeginRenumber
    <3> QED
      BY <3>1, <3>2, TextKeptStep
  <2>7. CASE update_invoice_number(r)
    <3>1. CASE UNCHANGED rows
      BY <1>1, <2>7, <3>1 DEF update_invoice_number
    <3> QED
      BY <2>7, <3>1, UpdateTexts
  <2>8. CASE regenerate_invoice_pdf(r)
    <3> DEFINE f(x) == IF x \in Edited(r) /\ rows' # rows THEN [x EXCEPT !.pdf = seen[r]] ELSE x
    <3>1. \A x \in rows : f(x).id = x.id /\ f(x).table = x.table /\ f(x).text = x.text
      BY DEF Row
    <3>2. (\A z \in rows' : \E x \in rows : z = f(x)) /\ \A x \in rows : f(x) \in rows'
      BY <2>8 DEF regenerate_invoice_pdf, Edited
    <3> HIDE DEF f
    <3>3. TextsKept
      BY <3>1, <3>2 DEF TextsKept
    <3> QED
      BY <2>8, <3>3, TextKeptStep DEF regenerate_invoice_pdf
  <2> QED
    BY <1>2, <2>1, <2>2, <2>3, <2>4, <2>5, <2>6, <2>7, <2>8 DEF Step
<1>3. ASSUME NEW y \in Years, NEW n \in 1..MaxNum, set_next_invoice_number(y, n) PROVE TextInv'
  BY <1>1, <1>3 DEF set_next_invoice_number
<1>4. CASE UNCHANGED vars
  BY <1>1, <1>4 DEF vars
<1> QED
  BY <1>2, <1>3, <1>4 DEF Next

\* No two rows of a table carry the same number, whatever the operator types
\* and however the counter is set: a number drawn again is a failed call.
THEOREM TextsDistinct == Spec => []TextUnique
<1>1. Init => TextInv
  BY DEF Init, TextInv, TextUnique, EditTable
<1>2. TextInv => TextUnique
  BY DEF TextInv
<1> QED
  BY <1>1, <1>2, Invariance, TextStep, PTL DEF Spec
-----------------------------------------------------------------------------
\* The draw hands out one block that the book allows; no other step touches
\* the blocks handed out.
LEMMA BookStep ==
  ASSUME ~MayRewind, IInv, [Next]_vars
  PROVE  [Book!Next]_Given
<1>1. ASSUME NEW r \in Requests, next_invoice_numbers(r) PROVE Book!Next
  <2> DEFINE b == [by |-> r, year |-> year[r], lo |-> lo[r]', hi |-> hi(r)']
  <2>1. /\ r \in Requests /\ year[r] \in Years /\ count(kind[r]) \in {1, 2}
        /\ counter[year[r]] \in Nat /\ ~Drew(r)
    BY <1>1, CountIs DEF next_invoice_numbers, IInv, TypeOK, DrawOK
  <2>2. /\ lo'[r] = counter[year[r]] + 1
        /\ hi(r)' = counter[year[r]] + count(kind[r])
        /\ UNCHANGED <<year, kind>>
        /\ \A q \in Requests \ {r} : lo'[q] = lo[q]
        /\ Drew(r)'
    BY <1>1, <2>1 DEF next_invoice_numbers, hi, Drew, IInv, TypeOK
  <2>3. \A q \in Requests \ {r} : (Drew(q) <=> Drew(q)') /\ hi(q)' = hi(q)
    BY <2>2 DEF Drew, hi
  <2>4. Given' = Given \union {b}
    BY <2>1, <2>2, <2>3 DEF Given
  <2>5. b \in Book!Block /\ b.lo <= b.hi
    BY <2>1, <2>2 DEF Book!Block
  <2>6. \A g \in Given : g.year = b.year => g.hi < b.lo
    <3> SUFFICES ASSUME NEW q \in Requests, Drew(q), year[q] = year[r]
                 PROVE  hi(q) < lo'[r]
      BY DEF Given
    <3>1. hi(q) <= counter[year[r]] /\ hi(q) \in Int
      BY CountIs DEF IInv, DrawnBelowCounter, TypeOK, hi
    <3> QED
      BY <2>1, <2>2, <3>1
  <2>7. \A g \in Given : g.by # b.by
    BY <2>1 DEF Given
  <2>8. Book!Give(b)
    BY <2>4, <2>5, <2>6, <2>7 DEF Book!Give
  <2> QED
    BY <2>4, <2>8 DEF Book!Next
<1>2. ASSUME NEW r \in Requests, Step(r), ~next_invoice_numbers(r) PROVE UNCHANGED Given
  <2>1. ASSUME NEW q \in Requests, Drew(q) \/ Drew(q)'
        PROVE  lo'[q] = lo[q] /\ year'[q] = year[q] /\ kind'[q] = kind[q]
    <3>1. lo' = lo
      BY <1>2 DEF Step, Begin, FindExisting, FindNone, RenderFails, LosePeriod, Insert,
                  BeginRenumber, update_invoice_number, advance_invoice_sequence, Reread,
                  regenerate_invoice_pdf, Crash
    <3>2. pc[q] # "idle"
      BY <2>1, <3>1 DEF Drew, IInv, DrawOK
    <3>3. \/ UNCHANGED <<year, kind>>
          \/ \E k \in Kinds, s \in Inquiries \union Periods, y \in Years : Begin(r, k, s, y)
          \/ \E x \in rows, y \in Years, n \in 1..MaxNum, f \in Forms :
               BeginRenumber(r, x, [year |-> y, seq |-> n, form |-> f])
      BY <1>2 DEF Step, FindExisting, FindNone, RenderFails, LosePeriod, Insert,
                  update_invoice_number, advance_invoice_sequence, Reread,
                  regenerate_invoice_pdf, Crash
    <3> QED
      BY <3>1, <3>2, <3>3 DEF Begin, BeginRenumber, IInv, TypeOK
  <2>2. \A q \in Requests : (Drew(q) <=> Drew(q)') /\ (Drew(q) => hi(q)' = hi(q) /\ year'[q] = year[q] /\ lo'[q] = lo[q])
    BY <2>1 DEF Drew, hi
  <2> QED
    BY <2>2 DEF Given
<1>3. ASSUME NEW y \in Years, NEW n \in 1..MaxNum, set_next_invoice_number(y, n)
      PROVE  UNCHANGED Given
  BY <1>3 DEF set_next_invoice_number, Given, Drew, hi
<1>4. ASSUME UNCHANGED vars PROVE UNCHANGED Given
  BY <1>4 DEF vars, Given, Drew, hi
<1> QED
  BY <1>1, <1>2, <1>3, <1>4 DEF Next

\* While the operator does not move the counter down, the allocator is the
\* abstract book: each draw hands out one block of consecutive numbers above
\* everything its year has handed out.
THEOREM ImplementsBook == ASSUME ~MayRewind PROVE Spec => BookSpec
<1>1. Init => Book!Init
  BY DEF Init, Book!Init, Given, Drew
<1>2. IInv /\ [Next]_vars => [Book!Next]_Given
  BY BookStep
<1> QED
  BY <1>1, <1>2, Invariance, PTL DEF Spec, BookSpec, Book!Spec
-----------------------------------------------------------------------------
\* A row stays for good, with its key, its table and what it bills.
LEMMA RowsStay ==
  ASSUME IInv, [Next]_vars, NEW x \in rows
  PROVE  \E z \in rows' : z.id = x.id /\ z.table = x.table /\ z.subj = x.subj
<1> DEFINE Stays == \E z \in rows' : z.id = x.id /\ z.table = x.table /\ z.subj = x.subj
<1>1. x \in Row
  BY DEF IInv, TypeOK
<1>2. ASSUME NEW d PROVE LET z == [x EXCEPT !.pdf = d]
                         IN z.id = x.id /\ z.table = x.table /\ z.subj = x.subj
  BY <1>1 DEF Row
<1>3. ASSUME NEW t PROVE LET z == [x EXCEPT !.text = t]
                         IN z.id = x.id /\ z.table = x.table /\ z.subj = x.subj
  BY <1>1 DEF Row
<1>4. ASSUME NEW r \in Requests, Step(r) PROVE Stays
  <2>1. CASE FindExisting(r)
    <3>1. PICK healed \in SUBSET rows :
            rows' = (rows \ healed) \union {[y EXCEPT !.pdf = docOf(y)] : y \in healed}
      BY <2>1 DEF FindExisting, Existing
    <3>2. x \in rows' \/ [x EXCEPT !.pdf = docOf(x)] \in rows'
      BY <3>1
    <3> QED
      BY <1>2, <3>2
  <2>2. CASE Insert(r)
    BY <2>2 DEF Insert
  <2>3. CASE update_invoice_number(r)
    <3>1. x \in rows' \/ [x EXCEPT !.text = edit[r].text] \in rows'
      BY <2>3 DEF update_invoice_number
    <3> QED
      BY <1>3, <3>1
  <2>4. CASE regenerate_invoice_pdf(r)
    <3>1. x \in rows' \/ [x EXCEPT !.pdf = seen[r]] \in rows'
      BY <2>4 DEF regenerate_invoice_pdf
    <3> QED
      BY <1>2, <3>1
  <2>5. CASE UNCHANGED rows
    BY <2>5
  <2> QED
    BY <1>4, <2>1, <2>2, <2>3, <2>4, <2>5
       DEF Step, Begin, FindNone, next_invoice_numbers, RenderFails, LosePeriod,
           BeginRenumber, advance_invoice_sequence, Reread, Crash
<1> QED
  BY <1>4 DEF Next, set_next_invoice_number, vars

\* Where a request that drew stands: NumberAccounted with the rows by their
\* keys in place of their number.
Accounted ==
  \A r \in Requests : Drew(r) =>
    \/ pc[r] \in {"insert", "failed", "crashed"}
    \/ pc[r] = "done" /\ \A i \in 1..count(kind[r]) : \E x \in rows : x.id = <<r, i>>
    \/ pc[r] = "skipped" /\ kind[r] = "storage" /\ Existing(r) # {}

\* A call that takes no step stays accounted for, because rows stay.
LEMMA AccountedStays ==
  ASSUME IInv, Accounted, [Next]_vars, NEW q \in Requests, Drew(q)',
         UNCHANGED <<lo[q], pc[q], kind[q], subj[q]>>
  PROVE  \/ pc'[q] \in {"insert", "failed", "crashed"}
         \/ pc'[q] = "done" /\ \A i \in 1..count(kind[q])' : \E x \in rows' : x.id = <<q, i>>
         \/ pc'[q] = "skipped" /\ kind'[q] = "storage" /\ Existing(q)' # {}
<1>1. Drew(q)
  BY DEF Drew
<1>2. CASE pc[q] \in {"insert", "failed", "crashed"}
  BY <1>2
<1>3. CASE pc[q] = "done"
  <2>1. \A i \in 1..count(kind[q]) : \E x \in rows : x.id = <<q, i>>
    BY <1>1, <1>3 DEF Accounted
  <2>2. \A i \in 1..count(kind[q]) : \E x \in rows' : x.id = <<q, i>>
    BY <2>1, RowsStay
  <2>3. count(kind[q])' = count(kind[q])
    OBVIOUS
  <2> QED
    BY <1>3, <2>2, <2>3
<1>4. CASE pc[q] = "skipped"
  <2>1. kind[q] = "storage" /\ \E x \in rows : x.table = tableOf(kind[q]) /\ x.subj = subj[q]
    BY <1>1, <1>4 DEF Accounted, Existing
  <2>2. \E z \in rows' : z.table = tableOf(kind[q]) /\ z.subj = subj[q]
    BY <2>1, RowsStay
  <2> QED
    BY <1>4, <2>1, <2>2 DEF Existing, tableOf
<1> QED
  BY <1>1, <1>2, <1>3, <1>4 DEF Accounted

\* Every step of a call accounts for what it drew.
LEMMA AccountedStep == IInv /\ Accounted /\ [Next]_vars => Accounted'
<1> SUFFICES ASSUME IInv, Accounted, [Next]_vars, NEW q \in Requests, Drew(q)'
             PROVE  \/ pc'[q] \in {"insert", "failed", "crashed"}
                    \/ pc'[q] = "done" /\ \A i \in 1..count(kind[q])' : \E x \in rows' : x.id = <<q, i>>
                    \/ pc'[q] = "skipped" /\ kind'[q] = "storage" /\ Existing(q)' # {}
  BY DEF Accounted
<1>1. ASSUME NEW r \in Requests, Step(r), r # q PROVE UNCHANGED <<lo[q], pc[q], kind[q], subj[q]>>
  BY <1>1 DEF Step, Begin, FindExisting, FindNone, next_invoice_numbers, RenderFails, LosePeriod,
              Insert, BeginRenumber, update_invoice_number, advance_invoice_sequence, Reread,
              regenerate_invoice_pdf, Crash, Goto, IInv, TypeOK
<1>2. CASE Step(q)
  <2> USE DEF Goto
  <2>0. Drew(q) => pc[q] \in {"insert", "failed", "crashed", "done", "skipped"}
    BY DEF Accounted
  <2>1. ASSUME UNCHANGED lo, pc[q] \notin {"insert", "failed", "crashed", "done", "skipped"}
        PROVE  FALSE
    BY <2>0, <2>1 DEF Drew
  <2>2. CASE next_invoice_numbers(q)
    BY <2>2 DEF next_invoice_numbers, IInv, TypeOK
  <2>3. CASE RenderFails(q) \/ Crash(q)
    BY <2>3 DEF RenderFails, Crash, IInv, TypeOK
  <2>4. CASE LosePeriod(q)
    <3>1. pc'[q] = "skipped" /\ kind'[q] = "storage" /\ UNCHANGED <<rows, kind, subj>>
      BY <2>4 DEF LosePeriod, IInv, TypeOK
    <3>2. Existing(q)' = Existing(q) /\ Existing(q) # {}
      BY <2>4, <3>1 DEF Existing, LosePeriod
    <3> QED
      BY <3>1, <3>2
  <2>5. CASE Insert(q)
    <3>1. CASE Taken(q)
      BY <2>5, <3>1 DEF Insert, IInv, TypeOK
    <3>2. CASE ~Taken(q)
      <4>1. PICK stored : rows' = rows \union NewRows(q, stored)
        BY <2>5, <3>2 DEF Insert
      <4>2. pc'[q] = "done" /\ count(kind[q])' = count(kind[q])
        BY <2>5, <3>2 DEF Insert, IInv, TypeOK
      <4>3. \A i \in 1..count(kind[q]) :
              NewRow(q, i, stored) \in rows' /\ NewRow(q, i, stored).id = <<q, i>>
        BY <4>1 DEF NewRows, NewRow
      <4> QED
        BY <4>2, <4>3
    <3> QED
      BY <3>1, <3>2
  <2> QED
    BY <1>2, <2>1, <2>2, <2>3, <2>4, <2>5
       DEF Step, Begin, FindExisting, FindNone, BeginRenumber, update_invoice_number,
           advance_invoice_sequence, Reread, regenerate_invoice_pdf
<1>3. CASE UNCHANGED vars \/ \E y \in Years, n \in 1..MaxNum : set_next_invoice_number(y, n)
  BY <1>3, AccountedStays DEF vars, set_next_invoice_number
<1> QED
  BY <1>1, <1>2, <1>3, AccountedStays DEF Next

\* As many rows as keys: a call's rows have keys of their own.
LEMMA RowsAreCounted ==
  ASSUME IInv, NEW r \in Requests,
         \A i \in 1..count(kind[r]) : \E x \in rows : x.id = <<r, i>>
  PROVE  Cardinality(RowsOf(r)) = count(kind[r])
<1> DEFINE k == count(kind[r])
<1>1. k \in {1, 2}
  BY CountIs
<1>2. \A x \in RowsOf(r) : x.id[2] \in 1..k /\ x.id = <<r, x.id[2]>>
  BY <1>1 DEF RowsOf, IInv, RowOrigin, TypeOK, Row, Ids
<1>3. \A x, y \in RowsOf(r) : x.id[2] = y.id[2] => x = y
  BY <1>2 DEF RowsOf, IInv, RowKeys
<1>4. \A x \in rows, i \in 1..k : x.id = <<r, i>> => x \in RowsOf(r) /\ x.id[2] = i
  BY DEF RowsOf
<1>5. PICK x \in RowsOf(r) : x.id[2] = 1
  BY <1>1, <1>4
<1>6. CASE k = 1
  <2>1. RowsOf(r) = {x}
    BY <1>2, <1>3, <1>5, <1>6
  <2> QED
    BY <1>6, <2>1, FS_Singleton
<1>7. CASE k = 2
  <2>1. PICK y \in RowsOf(r) : y.id[2] = 2
    BY <1>4, <1>7
  <2> DEFINE S == {x}
  <2>2. RowsOf(r) = S \union {y} /\ y \notin S
    BY <1>2, <1>3, <1>5, <1>7, <2>1
  <2>3. IsFiniteSet(S) /\ Cardinality(S) = 1
    BY FS_Singleton
  <2> HIDE DEF S
  <2>4. Cardinality(S \union {y}) = Cardinality(S) + 1
    BY <2>2, <2>3, FS_AddElement
  <2> QED
    BY <1>7, <2>2, <2>3, <2>4
<1> QED
  BY <1>1, <1>6, <1>7

\* A drawn number is never silently thrown away: it is on a row, its insert
\* is still to come, its call ended in an error or a crash, or the storage
\* period went to another row.
THEOREM NumbersAccounted == Spec => []NumberAccounted
<1>1. Init => Accounted
  BY DEF Init, Accounted, Drew
<1>2. IInv /\ Accounted => NumberAccounted
  BY RowsAreCounted DEF Accounted, NumberAccounted
<1> QED
  BY <1>1, <1>2, Invariance, AccountedStep, PTL DEF Spec
-----------------------------------------------------------------------------
\* What covers a row: the counter, or an overwrite between its statements.
CoveredBy(id, text) ==
  \/ text.seq <= counter[text.year]
  \/ \E r \in Requests : pc[r] \in {"advance", "crashed"} /\ edit[r] = [id |-> id, text |-> text]

\* A counter that moves up and overwrites that stand still cover what they
\* covered.
LEMMA CoverStays ==
  ASSUME TypeOK, TypeOK', NEW id, NEW text \in Texts, CoveredBy(id, text),
         \A y \in Years : counter[y] <= counter'[y],
         \A q \in Requests : pc[q] \in {"advance", "crashed"} =>
           \/ pc'[q] \in {"advance", "crashed"} /\ edit'[q] = edit[q]
           \/ edit[q].text.seq <= counter'[edit[q].text.year]
  PROVE  CoveredBy(id, text)'
<1>1. text.year \in Years /\ text.seq \in Int
  BY DEF Texts
<1>2. counter[text.year] \in Int /\ counter'[text.year] \in Int
  BY <1>1 DEF TypeOK
<1>3. CASE text.seq <= counter[text.year]
  BY <1>1, <1>2, <1>3 DEF CoveredBy
<1>4. ASSUME NEW r \in Requests, pc[r] \in {"advance", "crashed"}, edit[r] = [id |-> id, text |-> text]
      PROVE  CoveredBy(id, text)'
  BY <1>4 DEF CoveredBy
<1> QED
  BY <1>3, <1>4 DEF CoveredBy

\* Rows that keep key and number stay covered.
LEMMA CoverKept ==
  ASSUME TypeOK, TypeOK', ~MayRewind, CounterCovers,
         \A z \in rows' : \E x \in rows : z.id = x.id /\ z.text = x.text,
         \A y \in Years : counter[y] <= counter'[y],
         \A q \in Requests : pc[q] \in {"advance", "crashed"} =>
           \/ pc'[q] \in {"advance", "crashed"} /\ edit'[q] = edit[q]
           \/ edit[q].text.seq <= counter'[edit[q].text.year]
  PROVE  CounterCovers'
<1> SUFFICES ASSUME NEW z \in rows', parses(z.text) PROVE CoveredBy(z.id, z.text)'
  BY DEF CounterCovers, CoveredBy
<1>1. PICK x \in rows : z.id = x.id /\ z.text = x.text
  OBVIOUS
<1>2. CoveredBy(x.id, x.text) /\ x.text \in Texts
  BY <1>1 DEF CounterCovers, CoveredBy, TypeOK, Row
<1>3. CoveredBy(z.id, z.text) /\ z.text \in Texts
  BY <1>1, <1>2
<1> QED
  BY <1>3, CoverStays

\* Every step keeps the rows covered.
LEMMA CoverStep == IInv /\ IInv' /\ CounterCovers /\ [Next]_vars => CounterCovers'
<1> SUFFICES ASSUME IInv, IInv', ~MayRewind, CounterCovers, [Next]_vars PROVE CounterCovers'
  BY DEF CounterCovers
<1>0. TypeOK /\ TypeOK' /\ \A y \in Years : counter[y] \in Int
  BY DEF IInv, TypeOK
<1>1. ASSUME NEW r \in Requests, Step(r) PROVE CounterCovers'
  <2> DEFINE Others == \A q \in Requests \ {r} : pc'[q] = pc[q] /\ edit'[q] = edit[q]
  <2>0. Others
    BY <1>1 DEF Step, Begin, FindExisting, FindNone, next_invoice_numbers, RenderFails, LosePeriod,
                Insert, BeginRenumber, update_invoice_number, advance_invoice_sequence, Reread,
                regenerate_invoice_pdf, Crash, Goto, IInv, TypeOK
  <2>1. ASSUME UNCHANGED counter, pc[r] \notin {"advance", "crashed"},
               \A z \in rows' : \E x \in rows : z.id = x.id /\ z.text = x.text
        PROVE  CounterCovers'
    BY <1>0, <2>0, <2>1, CoverKept
  <2>2. CASE FindExisting(r)
    <3>1. PICK healed \in SUBSET rows :
            rows' = (rows \ healed) \union {[x EXCEPT !.pdf = docOf(x)] : x \in healed}
      BY <2>2 DEF FindExisting, Existing
    <3> DEFINE f(x) == IF x \in healed THEN [x EXCEPT !.pdf = docOf(x)] ELSE x
    <3>2. \A x \in rows : f(x).id = x.id /\ f(x).text = x.text
      BY <1>0 DEF TypeOK, Row
    <3>3. \A z \in rows' : \E x \in rows : z = f(x)
      BY <3>1
    <3> HIDE DEF f
    <3> QED
      BY <2>1, <2>2, <3>2, <3>3 DEF FindExisting
  <2>3. CASE next_invoice_numbers(r)
    <3>1. \A y \in Years : counter[y] <= counter'[y]
      BY <1>0, <2>3, CountIs DEF next_invoice_numbers, TypeOK
    <3> QED
      BY <1>0, <2>0, <2>3, <3>1, CoverKept DEF next_invoice_numbers
  <2>4. CASE Insert(r)
    <3>1. CASE Taken(r)
      BY <2>1, <2>4, <3>1 DEF Insert
    <3>2. CASE ~Taken(r)
      <4>1. PICK stored : rows' = rows \union NewRows(r, stored)
        BY <2>4, <3>2 DEF Insert
      <4>2. Drew(r) /\ pc[r] = "insert" /\ UNCHANGED counter /\ year[r] \in Years /\ lo[r] \in Nat
        BY <2>4 DEF Insert, IInv, DrawOK, TypeOK
      <4>3. ASSUME NEW i \in 1..count(kind[r])
            PROVE  NumberOf(r, i).seq <= counter[NumberOf(r, i).year]
        <5>1. hi(r) <= counter[year[r]]
          BY <4>2 DEF IInv, DrawnBelowCounter
        <5>2. lo[r] + i - 1 <= hi(r) /\ hi(r) \in Int
          BY <4>2, CountIs DEF hi
        <5>3. lo[r] + i - 1 <= counter[year[r]]
          BY <1>0, <4>2, <5>1, <5>2
        <5> QED
          BY <5>3 DEF NumberOf, format
      <4>4. \A z \in NewRows(r, stored) : z.text.seq <= counter'[z.text.year]
        BY <4>2, <4>3 DEF NewRows, NewRow
      <4>5. \A x \in rows : parses(x.text) => CoveredBy(x.id, x.text)
        BY DEF CounterCovers, CoveredBy
      <4>6. \A x \in rows : parses(x.text) => CoveredBy(x.id, x.text)'
        <5>1. ASSUME NEW x \in rows, parses(x.text) PROVE CoveredBy(x.id, x.text)'
          <6>1. CoveredBy(x.id, x.text) /\ x.text \in Texts
            BY <1>0, <4>5, <5>1 DEF TypeOK, Row
          <6>2. \A q \in Requests : pc[q] \in {"advance", "crashed"} =>
                  pc'[q] \in {"advance", "crashed"} /\ edit'[q] = edit[q]
            BY <2>0, <4>2
          <6> QED
            BY <1>0, <4>2, <6>1, <6>2, CoverStays
        <5> QED
          BY <5>1
      <4> QED
        BY <4>1, <4>4, <4>6 DEF CounterCovers, CoveredBy
    <3> QED
      BY <3>1, <3>2
  <2>5. CASE update_invoice_number(r)
    <3>1. CASE UNCHANGED rows
      BY <2>1, <2>5, <3>1 DEF update_invoice_number
    <3>2. CASE ~UNCHANGED rows
      <4>1. PICK id \in Ids, t \in Texts : edit[r] = [id |-> id, text |-> t]
        BY <2>5 DEF update_invoice_number, IInv, EditOK
      <4>2. /\ rows' = (rows \ Edited(r)) \union {[x EXCEPT !.text = t] : x \in Edited(r)}
            /\ parses(t) => pc'[r] = "advance"
            /\ UNCHANGED <<counter, edit>> /\ pc[r] = "update"
        BY <1>0, <2>5, <3>2, <4>1 DEF update_invoice_number, Goto, TypeOK
      <4>3. \A x \in Edited(r) : [x EXCEPT !.text = t].id = id /\ [x EXCEPT !.text = t].text = t
        BY <1>0, <4>1 DEF Edited, TypeOK, Row
      <4>4. parses(t) => CoveredBy(id, t)'
        BY <4>1, <4>2 DEF CoveredBy
      <4>5. \A x \in rows : parses(x.text) => CoveredBy(x.id, x.text)
        BY DEF CounterCovers, CoveredBy
      <4>6. \A x \in rows : parses(x.text) => CoveredBy(x.id, x.text)'
        BY <2>0, <4>2, <4>5 DEF CoveredBy
      <4>7. ASSUME NEW z \in rows', parses(z.text) PROVE CoveredBy(z.id, z.text)'
        <5>1. CASE z \in rows
          BY <4>6, <4>7, <5>1
        <5>2. CASE z \notin rows
          <6>1. z.id = id /\ z.text = t
            BY <4>2, <4>3, <5>2
          <6> QED
            BY <4>4, <4>7, <6>1
        <5> QED
          BY <5>1, <5>2
      <4> QED
        BY <4>7 DEF CounterCovers, CoveredBy
    <3> QED
      BY <3>1, <3>2
  <2>6. CASE advance_invoice_sequence(r)
    <3> DEFINE t == edit[r].text
    <3>1. t.year \in Years /\ t.seq \in Int
      BY <2>6 DEF advance_invoice_sequence, IInv, EditOK, Texts
    <3>2. counter' = [counter EXCEPT ![t.year] = IF @ < t.seq THEN t.seq ELSE @]
      BY <2>6 DEF advance_invoice_sequence
    <3>3. t.seq <= counter'[t.year] /\ \A y \in Years : counter[y] <= counter'[y]
      BY <1>0, <3>1, <3>2 DEF TypeOK
    <3> QED
      BY <1>0, <2>0, <2>6, <3>3, CoverKept DEF advance_invoice_sequence
  <2>7. CASE regenerate_invoice_pdf(r)
    <3> DEFINE f(x) == IF x \in Edited(r) /\ rows' # rows THEN [x EXCEPT !.pdf = seen[r]] ELSE x
    <3>1. \A x \in rows : f(x).id = x.id /\ f(x).text = x.text
      BY <1>0 DEF TypeOK, Row
    <3>2. \A z \in rows' : \E x \in rows : z = f(x)
      BY <2>7 DEF regenerate_invoice_pdf, Edited
    <3> HIDE DEF f
    <3> QED
      BY <2>1, <2>7, <3>1, <3>2 DEF regenerate_invoice_pdf
  <2>8. CASE Crash(r)
    <3>1. UNCHANGED <<rows, counter, edit>> /\ pc'[r] = "crashed"
      BY <1>0, <2>8 DEF Crash, Goto, TypeOK
    <3> QED
      BY <1>0, <2>0, <3>1, CoverKept
  <2> QED
    BY <1>1, <2>1, <2>2, <2>3, <2>4, <2>5, <2>6, <2>7, <2>8
       DEF Step, Begin, FindNone, RenderFails, LosePeriod, BeginRenumber, Reread
<1>2. ASSUME NEW y \in Years, NEW n \in 1..MaxNum, set_next_invoice_number(y, n) PROVE CounterCovers'
  <2>1. \A u \in Years : counter[u] <= counter'[u]
    BY <1>0, <1>2 DEF set_next_invoice_number, TypeOK
  <2> QED
    BY <1>0, <1>2, <2>1, CoverKept DEF set_next_invoice_number
<1>3. CASE UNCHANGED vars
  BY <1>0, <1>3, CoverKept DEF vars
<1> QED
  BY <1>1, <1>2, <1>3 DEF Next

\* While the counter is not moved down it is at or past every number on a
\* row, except where an overwrite stands between its two statements.
THEOREM CounterIsAhead == Spec => []CounterCovers
<1>1. Init => CounterCovers
  BY DEF Init, CounterCovers
<1> QED
  BY <1>1, Invariance, CoverStep, PTL DEF Spec
=============================================================================
