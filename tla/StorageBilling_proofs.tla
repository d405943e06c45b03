------------------------ MODULE StorageBilling_proofs ------------------------
(***************************************************************************)
(* Proofs about StorageBilling, for any number of contracts, generators    *)
(* and decisions that run at once, any calendar and any number of          *)
(* restarts.                                                               *)
(***************************************************************************)
EXTENDS StorageBilling, FiniteSetTheorems, TLAPS

USE DEF faults

\* A generator at work has a slot.
Aimed == \A g \in Gens : pc[g] \in {"check", "draw", "insert", "render"} => at[g] \in Slots

\* A row whose document is being rendered has none yet and was never mailed.
RenderFresh ==
  \A g \in Gens : pc[g] = "render" =>
    \A x \in rows : IdOf(x) = <<at[g], g>> => x.doc = "none" /\ x.mails = 0

\* A decision that is about to mail is about a row with a PDF, and one that
\* is about to mark is about a row that was mailed.
DecidesOn ==
  \A d \in Deciders : pc[d] \in {"smtp", "mark"} =>
    \E x \in rows : IdOf(x) = target[d] /\ x.doc = "pdf" /\ (pc[d] = "mark" => x.mails > 0)

\* The inductive invariant.
IInv == TypeOK /\ BilledOncePerMonth /\ SentWasMailed /\ Aimed /\ RenderFresh /\ DecidesOn

\* The inductive invariant holds before the first contract.
LEMMA InitInv == Init => IInv
<1> SUFFICES ASSUME Init PROVE IInv
  OBVIOUS
<1> USE StorageAssumption DEF Init
<1>1. TypeOK
  BY DEF TypeOK, Days, Terms, PCs, Slots
<1>2. BilledOncePerMonth /\ SentWasMailed /\ Aimed /\ RenderFresh /\ DecidesOn
  BY DEF BilledOncePerMonth, SentWasMailed, Aimed, RenderFresh, DecidesOn
<1> QED
  BY <1>1, <1>2 DEF IInv

\* A step that leaves the rows alone, and moves a process only where nothing
\* is claimed of a row.
LEMMA RowsKept ==
  ASSUME IInv, TypeOK', Aimed', UNCHANGED rows,
         \A g \in Gens : pc'[g] = "render" => pc[g] = "render" /\ at'[g] = at[g],
         \A d \in Deciders : pc'[d] \in {"smtp", "mark"} => pc'[d] = pc[d] /\ target'[d] = target[d]
  PROVE  IInv'
<1> USE DEF IInv
<1>1. BilledOncePerMonth' /\ SentWasMailed'
  BY DEF BilledOncePerMonth, SentWasMailed
<1>2. RenderFresh'
  BY DEF RenderFresh, IdOf
<1>3. DecidesOn'
  BY DEF DecidesOn, IdOf
<1> QED
  BY <1>1, <1>2, <1>3

\* One row is replaced by one with its key, that does not lose its PDF and is
\* mailed as often or more; a document that is being rendered is not touched.
LEMMA RowReplaced ==
  ASSUME IInv, TypeOK', Aimed', NEW x \in rows, NEW y, Put(x, y),
         IdOf(y) = IdOf(x), y.slot = x.slot, y.mails \in Nat, y.mails >= x.mails,
         x.doc = "pdf" => y.doc = "pdf",
         y.mails > 0 => y.doc = "pdf",
         y.status = "sent" => y.mails > 0,
         \/ x.doc = "pdf"
         \/ y.doc = x.doc /\ y.mails = x.mails
         \/ \A g \in Gens : pc'[g] = "render" => IdOf(x) # <<at[g], g>>,
         \A g \in Gens : pc'[g] = "render" => pc[g] = "render" /\ at'[g] = at[g],
         \A d \in Deciders : pc'[d] \in {"smtp", "mark"} =>
           \/ pc[d] = pc'[d] /\ target'[d] = target[d]
           \/ target'[d] = IdOf(x) /\ y.doc = "pdf" /\ y.mails > 0
  PROVE  IInv'
<1> USE DEF IInv, Put
<1>1. \A z \in rows : z.mails \in Nat
  BY DEF TypeOK, Row
<1>2. \A z \in rows' : z = y \/ (z \in rows /\ z # x)
  OBVIOUS
<1>3. BilledOncePerMonth'
  BY <1>2 DEF BilledOncePerMonth
<1>4. SentWasMailed'
  BY <1>2 DEF SentWasMailed
<1>5. RenderFresh'
  <2> SUFFICES ASSUME NEW g \in Gens, pc'[g] = "render", NEW z \in rows', IdOf(z) = <<at[g], g>>
               PROVE  z.doc = "none" /\ z.mails = 0
    BY DEF RenderFresh, IdOf
  <2> QED
    BY <1>1, <1>2 DEF RenderFresh
<1>6. DecidesOn'
  <2> SUFFICES ASSUME NEW d \in Deciders, pc'[d] \in {"smtp", "mark"}
               PROVE  \E z \in rows' : /\ IdOf(z) = target'[d] /\ z.doc = "pdf"
                                       /\ pc'[d] = "mark" => z.mails > 0
    BY DEF DecidesOn, IdOf
  <2>1. CASE target'[d] = IdOf(x) /\ y.doc = "pdf" /\ y.mails > 0
    BY <2>1
  <2>2. CASE pc[d] = pc'[d] /\ target'[d] = target[d]
    <3>1. PICK z \in rows : IdOf(z) = target[d] /\ z.doc = "pdf" /\ (pc[d] = "mark" => z.mails > 0)
      BY <2>2 DEF DecidesOn
    <3>2. CASE z = x
      BY <1>1, <2>2, <3>1, <3>2
    <3>3. CASE z # x
      BY <2>2, <3>1, <3>3
    <3> QED
      BY <3>2, <3>3
  <2> QED
    BY <2>1, <2>2
<1> QED
  BY <1>3, <1>4, <1>5, <1>6

\* A generator that is through with its slot.
LEMMA FinishGoes ==
  ASSUME TypeOK, NEW g \in Gens, Finish(g)
  PROVE  \E l \in {"next", "done"} : Goto(g, l)
  BY DEF Finish

\* A process that goes on keeps pc typed.
LEMMA GotoTyped ==
  ASSUME TypeOK, NEW p \in Gens \union Deciders, NEW l \in PCs, Goto(p, l)
  PROVE  pc' \in [Gens \union Deciders -> PCs]
  BY DEF TypeOK, Goto

\* A generator that goes on and writes no row.
LEMMA GenGoes ==
  ASSUME IInv, NEW g \in Gens, NEW l \in {"next", "done", "idle", "draw", "insert"}, Goto(g, l),
         drawn' \in [Slots -> 0..MaxDraws], failed' \in [Slots -> 0..MaxFailures],
         l \in {"draw", "insert"} => at[g] \in Slots,
         UNCHANGED <<day, contract, rows, todo, at, target, crashes>>
  PROVE  IInv'
<1>1. l \in PCs
  BY DEF PCs, Generating
<1>2. TypeOK'
  BY <1>1, GotoTyped DEF IInv, TypeOK
<1>3. Aimed'
  BY DEF IInv, Aimed, Goto, TypeOK
<1> QED
  BY <1>2, <1>3, RowsKept DEF IInv, TypeOK, Goto
-----------------------------------------------------------------------------
\* The unique key of a period lets a row in only where there is none.
LEMMA InsertStep ==
  ASSUME IInv, NEW g \in Gens, insert_invoice(g)
  PROVE  IInv'
<1>1. CASE UNCHANGED rows /\ Finish(g)
  <2>1. failed' \in [Slots -> 0..MaxFailures]
    <3>1. CASE UNCHANGED failed
      BY <3>1 DEF IInv, TypeOK
    <3>2. CASE /\ g = Tick => failed[at[g]] < MaxFailures
               /\ failed' = [failed EXCEPT ![at[g]] = IF g = Tick THEN @ + 1 ELSE @]
      <4>1. failed \in [Slots -> 0..MaxFailures] /\ at[g] \in Slots
        BY DEF insert_invoice, IInv, TypeOK, Aimed
      <4>2. PICK n : n = IF g = Tick THEN failed[at[g]] + 1 ELSE failed[at[g]]
        OBVIOUS
      <4>3. n \in 0..MaxFailures
        BY <3>2, <4>1, <4>2, StorageAssumption
      <4>4. failed' = [failed EXCEPT ![at[g]] = n]
        BY <3>2, <4>2
      <4> QED
        BY <4>1, <4>3, <4>4
    <3> QED
      BY <3>1, <3>2 DEF insert_invoice
  <2> QED
    BY <1>1, <2>1, FinishGoes, GenGoes DEF insert_invoice, IInv, TypeOK
<1>2. CASE /\ In(at[g]) = {} /\ rows' = rows \union {NewRow(g)} /\ Goto(g, "render")
           /\ UNCHANGED failed
  <2>1. at[g] \in Slots /\ UNCHANGED <<day, contract, drawn, todo, at, target, faults>>
    BY <1>2 DEF insert_invoice, IInv, Aimed
  <2>2. /\ NewRow(g) \in Row
        /\ NewRow(g).slot = at[g] /\ IdOf(NewRow(g)) = <<at[g], g>>
        /\ NewRow(g).doc = "none" /\ NewRow(g).mails = 0 /\ NewRow(g).status # "sent"
    BY <2>1 DEF NewRow, Row, IdOf
  <2>3. \A x \in rows : x.slot # at[g] /\ x.mails \in Nat
    BY <1>2 DEF In, IInv, TypeOK, Row
  <2>4. TypeOK'
    BY <1>2, <2>1, <2>2, GotoTyped DEF IInv, TypeOK, PCs, Generating
  <2>5. Aimed'
    BY <1>2, <2>1 DEF IInv, Aimed, Goto, TypeOK
  <2>6. BilledOncePerMonth'
    BY <1>2, <2>2, <2>3 DEF IInv, BilledOncePerMonth
  <2>7. SentWasMailed'
    BY <1>2, <2>2 DEF IInv, SentWasMailed
  <2>8. RenderFresh'
    <3> SUFFICES ASSUME NEW h \in Gens, pc'[h] = "render", NEW x \in rows', IdOf(x) = <<at[h], h>>
                 PROVE  x.doc = "none" /\ x.mails = 0
      BY <2>1 DEF RenderFresh, IdOf
    <3>1. CASE x = NewRow(g)
      BY <2>2, <3>1
    <3>2. CASE x \in rows
      <4>1. h # g
        BY <2>3, <3>2 DEF IdOf
      <4> QED
        BY <1>2, <3>2, <4>1 DEF IInv, RenderFresh, Goto, TypeOK
    <3> QED
      BY <1>2, <3>1, <3>2
  <2>9. DecidesOn'
    BY <1>2, <2>1 DEF IInv, DecidesOn, IdOf, Goto, TypeOK
  <2> QED
    BY <2>4, <2>5, <2>6, <2>7, <2>8, <2>9 DEF IInv
<1> QED
  BY <1>1, <1>2 DEF insert_invoice

\* Rendering gives the fresh row its document.
LEMMA RenderStep ==
  ASSUME IInv, NEW g \in Gens, render_pdf(g)
  PROVE  IInv'
<1>1. PICK x \in At(<<at[g], g>>), d \in {"none", "pdf", "xlsx"} : Put(x, [x EXCEPT !.doc = d])
  BY DEF render_pdf
<1>2. /\ x \in rows /\ IdOf(x) = <<at[g], g>> /\ x.doc = "none" /\ x.mails = 0 /\ x \in Row
      /\ x.status # "sent"
  BY <1>1 DEF At, render_pdf, IInv, RenderFresh, TypeOK, SentWasMailed
<1>3. PICK y \in Row : y = [x EXCEPT !.doc = d]
  BY <1>2 DEF Row
<1>4. /\ y.slot = x.slot /\ IdOf(y) = IdOf(x) /\ y.mails = 0 /\ y.status # "sent"
  BY <1>2, <1>3 DEF IdOf, Row
<1>5. Put(x, y)
  BY <1>1, <1>3
<1>6. PICK l \in {"next", "done"} : Goto(g, l)
  BY FinishGoes DEF render_pdf, IInv
<1>7. UNCHANGED <<day, contract, drawn, todo, at, target, faults>>
  BY DEF render_pdf
<1>8. TypeOK'
  BY <1>2, <1>5, <1>6, <1>7, GotoTyped DEF IInv, TypeOK, Put, PCs, Generating
<1>9. Aimed'
  BY <1>6, <1>7 DEF IInv, Aimed, Goto, TypeOK
<1>10. \A h \in Gens : pc'[h] = "render" => pc[h] = "render" /\ IdOf(x) # <<at[h], h>>
  BY <1>2, <1>6 DEF Goto, IInv, TypeOK
<1>11. \A e \in Deciders : pc'[e] \in {"smtp", "mark"} => pc[e] = pc'[e]
  BY <1>6 DEF Goto, IInv, TypeOK
<1> QED
  BY <1>2, <1>4, <1>5, <1>7, <1>8, <1>9, <1>10, <1>11, RowReplaced

\* The steps of a generator.
LEMMA GenStepInv ==
  ASSUME IInv, NEW g \in Gens, GenStep(g)
  PROVE  IInv'
<1>1. CASE period_billed(g)
  <2>1. PICK l \in {"next", "done", "draw"} : Goto(g, l)
    BY <1>1, FinishGoes DEF period_billed, IInv
  <2> QED
    BY <1>1, <2>1, GenGoes DEF period_billed, IInv, TypeOK, Aimed
<1>2. CASE next_invoice_number(g)
  <2>1. drawn \in [Slots -> 0..MaxDraws] /\ at[g] \in Slots
    BY <1>2 DEF next_invoice_number, IInv, TypeOK, Aimed
  <2>2. drawn[at[g]] + 1 \in 0..MaxDraws
    BY <1>2, <2>1, StorageAssumption DEF next_invoice_number
  <2>3. drawn' \in [Slots -> 0..MaxDraws]
    BY <1>2, <2>1, <2>2 DEF next_invoice_number
  <2> QED
    BY <1>2, <2>1, <2>3, GenGoes DEF next_invoice_number, IInv, TypeOK
<1> QED
  BY <1>1, <1>2, InsertStep, RenderStep DEF GenStep

\* The steps of the tick that write no row.
LEMMA TickInv ==
  ASSUME IInv, list_active_contracts \/ NextListed
  PROVE  IInv'
<1>1. CASE list_active_contracts
  <2>1. todo' \subseteq Slots
    BY <1>1 DEF list_active_contracts, Slots, IInv, TypeOK
  <2>2. TypeOK'
    BY <1>1, <2>1, GotoTyped DEF list_active_contracts, IInv, TypeOK, PCs, Generating, Gens
  <2>3. Aimed'
    BY <1>1 DEF list_active_contracts, IInv, Aimed, Goto, TypeOK
  <2> QED
    BY <1>1, <2>2, <2>3, RowsKept DEF list_active_contracts, IInv, TypeOK, Goto
<1>2. CASE NextListed
  <2>1. PICK l \in {"check", "idle"}, s \in Slots \union {NoSlot} :
          /\ Goto(Tick, l) /\ at' = [at EXCEPT ![Tick] = s] /\ todo' \subseteq Slots
          /\ l = "check" => s \in Slots
    BY <1>2 DEF NextListed, IInv, TypeOK
  <2>2. TypeOK'
    BY <1>2, <2>1, GotoTyped DEF NextListed, IInv, TypeOK, PCs, Generating, Gens
  <2>3. Aimed'
    BY <1>2, <2>1 DEF IInv, Aimed, Goto, TypeOK
  <2>4. pc[Tick] = "next" /\ UNCHANGED <<rows, target>>
    BY <1>2 DEF NextListed
  <2> QED
    BY <2>1, <2>2, <2>3, <2>4, RowsKept DEF IInv, TypeOK, Goto
<1> QED
  BY <1>1, <1>2

\* Contracts and the calendar change nothing that is claimed of rows.
LEMMA ContractInv ==
  ASSUME IInv, TypeOK', UNCHANGED <<rows, pc, at, target>>
  PROVE  IInv'
<1>1. Aimed'
  BY DEF IInv, Aimed
<1> QED
  BY <1>1, RowsKept DEF IInv

\* Overwriting a contract.
LEMMA UpdateInv ==
  ASSUME IInv, NEW c \in Contracts, NEW s \in {"active", "ended", "cancelled"}, NEW t \in Dates,
         insert_contract(c, t[1], t[2]) \/ update_contract(c, s, t[1], t[2])
  PROVE  IInv'
<1>1. PICK k \in Terms : contract' = [contract EXCEPT ![c] = k]
  BY StorageAssumption DEF insert_contract, update_contract, Terms, Days
<1>2. TypeOK'
  BY <1>1 DEF insert_contract, update_contract, IInv, TypeOK
<1> QED
  BY <1>2, ContractInv DEF insert_contract, update_contract

\* Deleting a contract.
LEMMA DeleteInv ==
  ASSUME IInv, NEW c \in Contracts, delete_contract(c)
  PROVE  IInv'
<1>1. contract[c] \in Terms
  BY DEF IInv, TypeOK
<1>2. PICK k \in Terms : k = [contract[c] EXCEPT !.status = "deleted"]
  BY <1>1 DEF Terms
<1>3. contract' = [contract EXCEPT ![c] = k]
  BY <1>2 DEF delete_contract
<1>4. TypeOK'
  BY <1>3 DEF delete_contract, IInv, TypeOK
<1> QED
  BY <1>4, ContractInv DEF delete_contract
-----------------------------------------------------------------------------
\* A decision that starts.
LEMMA DecisionStarts ==
  ASSUME IInv, NEW d \in Deciders, NEW x \in rows, NEW l \in {"smtp", "cancel"}, Goto(d, l),
         l = "smtp" => x.doc = "pdf",
         target' = [target EXCEPT ![d] = IdOf(x)],
         UNCHANGED <<day, contract, rows, drawn, todo, at, faults>>
  PROVE  IInv'
<1>1. IdOf(x) \in Ids
  BY DEF IInv, TypeOK, Row, IdOf, Ids
<1>2. TypeOK'
  BY <1>1, GotoTyped DEF IInv, TypeOK, PCs, Deciding
<1>3. Aimed'
  BY DEF IInv, Aimed, Goto, TypeOK
<1>4. BilledOncePerMonth' /\ SentWasMailed' /\ RenderFresh'
  BY DEF IInv, BilledOncePerMonth, SentWasMailed, RenderFresh, IdOf, Goto, TypeOK
<1>5. DecidesOn'
  BY DEF IInv, DecidesOn, IdOf, Goto, TypeOK
<1> QED
  BY <1>2, <1>3, <1>4, <1>5 DEF IInv

\* A decision, or the register, writes the row it is about.
LEMMA DecisionWrites ==
  ASSUME IInv, NEW x \in rows, NEW y \in Row, Put(x, y),
         y.slot = x.slot, y.by = x.by, y.doc = x.doc, y.mails >= x.mails,
         y.mails # x.mails => x.doc = "pdf",
         y.status = "sent" => y.mails > 0,
         \/ UNCHANGED pc
         \/ \E d \in Deciders : \/ Goto(d, "done")
                                \/ Goto(d, "mark") /\ target[d] = IdOf(x) /\ y.mails > x.mails,
         UNCHANGED <<day, contract, drawn, todo, at, target, faults>>
  PROVE  IInv'
<1>1. x \in Row /\ IdOf(y) = IdOf(x) /\ y.mails \in Nat /\ x.mails \in Nat
  BY DEF IInv, TypeOK, Row, IdOf
<1>2. pc' \in [Gens \union Deciders -> PCs]
  BY GotoTyped DEF IInv, TypeOK, PCs, Deciding
<1>3. TypeOK'
  BY <1>2 DEF IInv, TypeOK, Put
<1>4. Aimed'
  BY DEF IInv, Aimed, Goto, TypeOK
<1>5. \A g \in Gens : pc'[g] = "render" => pc[g] = "render"
  BY DEF IInv, Goto, TypeOK
<1>6. y.mails > 0 => y.doc = "pdf"
  BY <1>1 DEF IInv, SentWasMailed
<1>7. \A d \in Deciders : pc'[d] \in {"smtp", "mark"} =>
        pc[d] = pc'[d] \/ (target[d] = IdOf(x) /\ y.doc = "pdf" /\ y.mails > 0)
  BY <1>1, <1>6 DEF IInv, Goto, TypeOK
<1> QED
  BY <1>1, <1>3, <1>4, <1>5, <1>6, <1>7, RowReplaced

\* A process that stops changes nothing.
LEMMA DecisionEnds ==
  ASSUME IInv, NEW d \in Deciders, Goto(d, "done"),
         UNCHANGED <<day, contract, rows, drawn, todo, at, target, faults>>
  PROVE  IInv'
<1>1. TypeOK'
  BY GotoTyped DEF IInv, TypeOK, PCs
<1>2. Aimed'
  BY DEF IInv, Aimed, Goto, TypeOK
<1> QED
  BY <1>1, <1>2, RowsKept DEF IInv, Goto, TypeOK

\* The steps of a decision.
LEMMA DecideInv ==
  ASSUME IInv, NEW d \in Deciders, Decide(d)
  PROVE  IInv'
<1>1. ASSUME NEW x \in rows, approve_and_send(d, x) PROVE IInv'
  BY <1>1, DecisionStarts DEF approve_and_send
<1>2. ASSUME NEW x \in rows, reject(d, x) PROVE IInv'
  BY <1>2, DecisionStarts DEF reject
<1>3. CASE Smtp(d)
  <2>1. ASSUME NEW x \in At(target[d]), Put(x, [x EXCEPT !.mails = @ + 1]), Goto(d, "mark")
        PROVE  IInv'
    <3>1. x \in rows /\ x \in Row /\ x.mails \in Nat /\ IdOf(x) = target[d]
      BY DEF At, IInv, TypeOK, Row
    <3>2. x.doc = "pdf"
      BY <1>3, <3>1 DEF Smtp, IInv, DecidesOn, BilledOncePerMonth, IdOf
    <3>3. PICK y \in Row : y = [x EXCEPT !.mails = @ + 1]
      <4>1. PICK n \in Nat : n = x.mails + 1
        BY <3>1
      <4>2. [x EXCEPT !.mails = n] \in Row
        BY <3>1 DEF Row
      <4> QED
        BY <4>1, <4>2
    <3>4. /\ y.slot = x.slot /\ y.by = x.by /\ y.doc = x.doc /\ y.status = x.status
          /\ y.mails = x.mails + 1
      BY <3>1, <3>3 DEF Row
    <3>5. Put(x, y)
      BY <2>1, <3>3
    <3>6. y.mails > x.mails /\ y.mails > 0 /\ y.mails >= x.mails
      BY <3>1, <3>4
    <3> QED
      BY <1>3, <2>1, <3>1, <3>2, <3>4, <3>5, <3>6, DecisionWrites DEF Smtp
  <2>2. CASE UNCHANGED rows /\ Goto(d, "done")
    BY <1>3, <2>2, DecisionEnds DEF Smtp
  <2> QED
    BY <1>3, <2>1, <2>2 DEF Smtp
<1>4. CASE mark_invoice_approved_sent(d)
  <2>1. PICK x \in At(target[d]) : Put(x, [x EXCEPT !.status = "sent"])
    BY <1>4 DEF mark_invoice_approved_sent
  <2>2. x \in rows /\ x \in Row /\ x.mails \in Nat /\ IdOf(x) = target[d]
    BY DEF At, IInv, TypeOK, Row
  <2>3. x.mails > 0
    BY <1>4, <2>2 DEF mark_invoice_approved_sent, IInv, DecidesOn, BilledOncePerMonth, IdOf
  <2>4. PICK y \in Row : y = [x EXCEPT !.status = "sent"]
    BY <2>2 DEF Row
  <2>5. y.slot = x.slot /\ y.by = x.by /\ y.doc = x.doc /\ y.mails = x.mails
    BY <2>2, <2>4 DEF Row
  <2>6. Put(x, y) /\ y.mails >= x.mails
    BY <2>1, <2>2, <2>4, <2>5
  <2> QED
    BY <1>4, <2>2, <2>3, <2>5, <2>6, DecisionWrites DEF mark_invoice_approved_sent
<1>5. CASE mark_invoice_rejected(d)
  <2>1. PICK x \in At(target[d]) : Put(x, [x EXCEPT !.status = "cancelled"])
    BY <1>5 DEF mark_invoice_rejected
  <2>2. x \in rows /\ x \in Row /\ x.mails \in Nat
    BY DEF At, IInv, TypeOK, Row
  <2>3. PICK y \in Row : y = [x EXCEPT !.status = "cancelled"]
    BY <2>2 DEF Row
  <2>4. /\ y.slot = x.slot /\ y.by = x.by /\ y.doc = x.doc /\ y.mails = x.mails
        /\ y.status # "sent"
    BY <2>2, <2>3 DEF Row
  <2>5. Put(x, y) /\ y.mails >= x.mails
    BY <2>1, <2>2, <2>3, <2>4
  <2> QED
    BY <1>5, <2>2, <2>4, <2>5, DecisionWrites DEF mark_invoice_rejected
<1> QED
  BY <1>1, <1>2, <1>3, <1>4, <1>5 DEF Decide
-----------------------------------------------------------------------------
\* Every step preserves the inductive invariant.
LEMMA StepInv == IInv /\ [Next]_vars => IInv'
<1> SUFFICES ASSUME IInv, [Next]_vars PROVE IInv'
  OBVIOUS
<1>1. CASE NextDay
  <2>1. TypeOK'
    BY <1>1, StorageAssumption DEF NextDay, IInv, TypeOK, Days
  <2> QED
    BY <1>1, <2>1, ContractInv DEF NextDay
<1>2. CASE Crash
  <2>1. \A p \in Gens \union Deciders : pc'[p] \in PCs
    BY <1>2 DEF Crash, IInv, TypeOK, PCs
  <2>2. TypeOK'
    <3>1. pc' \in [Gens \union Deciders -> PCs]
      BY <1>2, <2>1 DEF Crash
    <3>2. crashes' \in 0..MaxCrashes
      BY <1>2, StorageAssumption DEF Crash, IInv, TypeOK
    <3>3. at' \in [Gens -> Slots \union {NoSlot}] /\ todo' \subseteq Slots
      BY <1>2 DEF Crash, IInv, TypeOK
    <3> QED
      BY <1>2, <3>1, <3>2, <3>3 DEF Crash, IInv, TypeOK
  <2>3. \A p \in Gens \union Deciders : pc'[p] \notin Generating \union Deciding
    BY <1>2 DEF Crash, Generating, Deciding
  <2>4. Aimed'
    BY <2>3 DEF Aimed, Generating
  <2> QED
    BY <1>2, <2>2, <2>3, <2>4, RowsKept DEF Crash, Generating, Deciding
<1>3. CASE TickStep
  BY <1>3, TickInv, GenStepInv DEF TickStep, Gens
<1>4. ASSUME NEW c \in Contracts, NEW t \in Dates, NEW s \in {"active", "ended", "cancelled"},
             insert_contract(c, t[1], t[2]) \/ update_contract(c, s, t[1], t[2])
      PROVE  IInv'
  BY <1>4, UpdateInv
<1>5. ASSUME NEW c \in Contracts, delete_contract(c) PROVE IInv'
  BY <1>5, DeleteInv
<1>6. ASSUME NEW c \in Contracts, NEW g \in Manual, generate_for_contract(g, c) PROVE IInv'
  <2>1. <<c, monthOf(day)>> \in Slots /\ g \in Gens
    BY DEF Slots, IInv, TypeOK, Gens
  <2>2. TypeOK'
    BY <1>6, <2>1, GotoTyped DEF generate_for_contract, IInv, TypeOK, PCs, Generating
  <2>3. Aimed'
    BY <1>6, <2>1 DEF generate_for_contract, IInv, Aimed, Goto, TypeOK
  <2> QED
    BY <1>6, <2>2, <2>3, RowsKept DEF generate_for_contract, IInv, TypeOK, Goto
<1>7. ASSUME NEW g \in Manual, GenStep(g) PROVE IInv'
  BY <1>7, GenStepInv DEF Gens
<1>8. ASSUME NEW d \in Deciders, Decide(d) PROVE IInv'
  BY <1>8, DecideInv
<1>9. ASSUME NEW x \in rows, mark_invoice_paid(x) PROVE IInv'
  <2>1. x \in Row /\ x.mails \in Nat
    BY DEF IInv, TypeOK, Row
  <2>2. PICK y \in Row : y = [x EXCEPT !.status = "paid", !.paid = TRUE]
    BY <2>1 DEF Row
  <2>3. /\ y.slot = x.slot /\ y.by = x.by /\ y.doc = x.doc /\ y.mails = x.mails
        /\ y.status # "sent"
    BY <2>1, <2>2 DEF Row
  <2>4. Put(x, y) /\ y.mails >= x.mails
    BY <1>9, <2>1, <2>2, <2>3 DEF mark_invoice_paid
  <2> QED
    BY <1>9, <2>3, <2>4, DecisionWrites DEF mark_invoice_paid
<1>10. CASE UNCHANGED vars
  <2>1. TypeOK'
    BY <1>10 DEF vars, IInv, TypeOK
  <2> QED
    BY <1>10, <2>1, ContractInv DEF vars
<1> QED
  BY <1>1, <1>2, <1>3, <1>4, <1>5, <1>6, <1>7, <1>8, <1>9, <1>10 DEF Next

\* The inductive invariant holds of every reachable state.
LEMMA Invariance == Spec => []IInv
  BY InitInv, StepInv, PTL DEF Spec

\* Every reachable state of the storage billing is well typed.
THEOREM TypeCorrect == Spec => []TypeOK
<1>1. IInv => TypeOK
  BY DEF IInv
<1> QED
  BY <1>1, Invariance, PTL

\* A contract is billed at most once a month, whatever ticks and calls run at
\* once and wherever the process restarts.
THEOREM OncePerMonth == Spec => []BilledOncePerMonth
<1>1. IInv => BilledOncePerMonth
  BY DEF IInv
<1> QED
  BY <1>1, Invariance, PTL

\* Only a mailed invoice reads sent and only a PDF is mailed, also where
\* decisions overlap.
THEOREM SentIsMailed == Spec => []SentWasMailed
<1>1. IInv => SentWasMailed
  BY DEF IInv
<1> QED
  BY <1>1, Invariance, PTL
-----------------------------------------------------------------------------
(* Payments.                                                               *)

\* Decisions are taken one at a time, the one under way is not about a paid
\* invoice, and what is paid reads paid.
Payments ==
  /\ \A d, e \in Deciders : pc[d] \in Deciding /\ pc[e] \in Deciding => d = e
  /\ \A d \in Deciders : pc[d] \in Deciding => \A x \in rows : IdOf(x) = target[d] => ~x.paid
  /\ \A x \in rows : x.paid => x.status = "paid"

\* What the step says of payments.
Stands == \A x \in rows : x.paid => \E y \in rows' : IdOf(y) = IdOf(x) /\ y.status = "paid"

\* No process takes up a decision.
Settling == \A d \in Deciders : pc'[d] \in Deciding => pc[d] \in Deciding /\ target'[d] = target[d]

\* A generator, and a decision that ends, takes up none.
LEMMA Settles ==
  ASSUME TypeOK, NEW p \in Gens \union Deciders, NEW l \in PCs, Goto(p, l),
         l \in Deciding => pc[p] \in Deciding, UNCHANGED target
  PROVE  Settling
  BY DEF Settling, Goto, TypeOK

\* Rows stay as they are, or an unpaid one is added.
LEMMA RowsGrow ==
  ASSUME Payments, Settling, rows \subseteq rows', \A y \in rows' \ rows : ~y.paid
  PROVE  Payments' /\ Stands
<1>1. Stands
  BY DEF Payments, Stands
<1>2. \A x \in rows' : x.paid => x.status = "paid"
  BY DEF Payments
<1>3. \A d, e \in Deciders : pc'[d] \in Deciding /\ pc'[e] \in Deciding => d = e
  BY DEF Payments, Settling
<1>4. \A d \in Deciders : pc'[d] \in Deciding => \A x \in rows' : IdOf(x) = target'[d] => ~x.paid
  BY DEF Payments, Settling
<1> QED
  BY <1>1, <1>2, <1>3, <1>4 DEF Payments, IdOf

\* A row is written, and no payment booked or taken back.
LEMMA RowWritten ==
  ASSUME Payments, Settling, NEW x \in rows, NEW y, Put(x, y), IdOf(y) = IdOf(x),
         y.paid = x.paid, x.paid => y.status = "paid"
  PROVE  Payments' /\ Stands
<1>1. \A z \in rows' : z = y \/ z \in rows
  BY DEF Put
<1>2. y \in rows' /\ \A z \in rows : z = x \/ z \in rows'
  BY DEF Put
<1>3. Stands
  BY <1>2 DEF Payments, Stands
<1>4. \A z \in rows' : z.paid => z.status = "paid"
  BY <1>1 DEF Payments
<1>5. \A d, e \in Deciders : pc'[d] \in Deciding /\ pc'[e] \in Deciding => d = e
  BY DEF Payments, Settling
<1>6. \A d \in Deciders : pc'[d] \in Deciding => \A z \in rows' : IdOf(z) = target'[d] => ~z.paid
  BY <1>1 DEF Payments, Settling
<1> QED
  BY <1>3, <1>4, <1>5, <1>6 DEF Payments, IdOf

\* The steps of a generator.
LEMMA GenPays ==
  ASSUME IInv, Payments, NEW g \in Gens, GenStep(g)
  PROVE  Payments' /\ Stands
<1>1. CASE period_billed(g) \/ next_invoice_number(g)
  <2>1. \E l \in {"next", "done", "draw", "insert"} : Goto(g, l)
    BY <1>1, FinishGoes DEF period_billed, next_invoice_number, IInv
  <2>2. Settling
    BY <1>1, <2>1, Settles DEF period_billed, next_invoice_number, IInv, PCs, Generating, Deciding
  <2> QED
    BY <1>1, <2>2, RowsGrow DEF period_billed, next_invoice_number
<1>2. CASE insert_invoice(g)
  <2>1. \E l \in {"next", "done", "render"} : Goto(g, l)
    BY <1>2, FinishGoes DEF insert_invoice, IInv
  <2>2. Settling
    BY <1>2, <2>1, Settles DEF insert_invoice, IInv, PCs, Generating, Deciding
  <2>3. rows \subseteq rows' /\ \A y \in rows' \ rows : ~y.paid
    BY <1>2 DEF insert_invoice, NewRow
  <2> QED
    BY <2>2, <2>3, RowsGrow
<1>3. CASE render_pdf(g)
  <2>1. PICK x \in rows, d \in {"none", "pdf", "xlsx"} : Put(x, [x EXCEPT !.doc = d])
    BY <1>3 DEF render_pdf, At
  <2>2. x \in Row
    BY DEF IInv, TypeOK
  <2>3. PICK y : y = [x EXCEPT !.doc = d]
    OBVIOUS
  <2>4. IdOf(y) = IdOf(x) /\ y.paid = x.paid /\ y.status = x.status
    BY <2>2, <2>3 DEF IdOf, Row
  <2>5. \E l \in {"next", "done"} : Goto(g, l)
    BY <1>3, FinishGoes DEF render_pdf, IInv
  <2>6. Settling
    BY <1>3, <2>5, Settles DEF render_pdf, IInv, PCs, Generating, Deciding
  <2> QED
    BY <2>1, <2>3, <2>4, <2>6, RowWritten DEF Payments
<1> QED
  BY <1>1, <1>2, <1>3 DEF GenStep

\* A decision starts when no other is under way and its invoice is not paid.
LEMMA StartPays ==
  ASSUME IInv, Payments, NEW d \in Deciders, NEW x \in rows, NEW l \in Deciding, Goto(d, l),
         \A e \in Deciders : pc[e] \notin Deciding, x.status # "paid",
         target' = [target EXCEPT ![d] = IdOf(x)], UNCHANGED rows
  PROVE  Payments' /\ Stands
<1>1. \A e \in Deciders : pc'[e] \in Deciding => e = d
  BY DEF IInv, TypeOK, Goto
<1>2. target'[d] = IdOf(x)
  BY DEF IInv, TypeOK
<1>3. \A z \in rows : IdOf(z) = IdOf(x) => z = x
  BY DEF IInv, BilledOncePerMonth, IdOf
<1>4. ~x.paid
  BY DEF Payments
<1> QED
  BY <1>1, <1>2, <1>3, <1>4 DEF Payments, Stands, IdOf

\* The steps of a decision.
LEMMA DecidePays ==
  ASSUME IInv, Payments, Serial, NEW d \in Deciders, Decide(d)
  PROVE  Payments' /\ Stands
<1>1. ASSUME NEW x \in rows, approve_and_send(d, x) \/ reject(d, x) PROVE Payments' /\ Stands
  <2>1. PICK l \in Deciding : Goto(d, l)
    BY <1>1 DEF approve_and_send, reject, Deciding
  <2> QED
    BY <1>1, <2>1, StartPays DEF approve_and_send, reject, Alone
<1>2. CASE Smtp(d) \/ mark_invoice_approved_sent(d) \/ mark_invoice_rejected(d)
  <2>1. pc[d] \in Deciding /\ UNCHANGED target /\ \E l \in {"mark", "done"} : Goto(d, l)
    BY <1>2 DEF Smtp, mark_invoice_approved_sent, mark_invoice_rejected, Deciding
  <2>2. Settling
    BY <2>1, Settles DEF IInv, PCs, Deciding
  <2>3. CASE UNCHANGED rows
    BY <2>2, <2>3, RowsGrow
  <2>4. ASSUME NEW x \in At(target[d]), NEW y, Put(x, y),
               \/ y = [x EXCEPT !.mails = @ + 1]
               \/ \E s \in {"sent", "cancelled"} : y = [x EXCEPT !.status = s]
        PROVE  Payments' /\ Stands
    <3>1. x \in rows /\ x \in Row /\ ~x.paid
      BY <2>1 DEF At, IInv, TypeOK, Payments
    <3>2. IdOf(y) = IdOf(x) /\ y.paid = x.paid
      BY <2>4, <3>1 DEF IdOf, Row
    <3> QED
      BY <2>2, <2>4, <3>1, <3>2, RowWritten
  <2> QED
    BY <1>2, <2>3, <2>4 DEF Smtp, mark_invoice_approved_sent, mark_invoice_rejected
<1> QED
  BY <1>1, <1>2 DEF Decide

\* The register books a payment when no decision is under way.
LEMMA RegisterPays ==
  ASSUME IInv, Payments, Serial, NEW x \in rows, mark_invoice_paid(x)
  PROVE  Payments' /\ Stands
<1>1. x \in Row
  BY DEF IInv, TypeOK
<1>2. PICK y : y = [x EXCEPT !.status = "paid", !.paid = TRUE]
  OBVIOUS
<1>3. IdOf(y) = IdOf(x) /\ y.status = "paid"
  BY <1>1, <1>2 DEF IdOf, Row
<1>4. /\ \A z \in rows' : z = y \/ z \in rows
      /\ y \in rows' /\ \A z \in rows : z = x \/ z \in rows'
  BY <1>2 DEF mark_invoice_paid, Put
<1>5. \A d \in Deciders : pc'[d] \notin Deciding
  BY DEF mark_invoice_paid, Alone
<1>6. Stands
  BY <1>3, <1>4 DEF Payments, Stands
<1>7. \A z \in rows' : z.paid => z.status = "paid"
  BY <1>3, <1>4 DEF Payments
<1> QED
  BY <1>5, <1>6, <1>7 DEF Payments

\* Every step keeps what is said of payments.
LEMMA PaysStep ==
  ASSUME IInv, Payments, Serial, [Next]_vars
  PROVE  Payments' /\ Stands
<1>1. ASSUME UNCHANGED rows, Settling PROVE Payments' /\ Stands
  BY <1>1, RowsGrow
<1>2. CASE NextDay \/ UNCHANGED vars
  BY <1>1, <1>2 DEF NextDay, vars, Settling
<1>3. CASE Crash
  <2>1. \A p \in Gens \union Deciders : pc'[p] \notin Deciding
    BY <1>3 DEF Crash, Generating, Deciding
  <2> QED
    BY <1>1, <1>3, <2>1 DEF Crash, Settling
<1>4. CASE TickStep
  <2>1. CASE list_active_contracts \/ NextListed
    <3>1. UNCHANGED <<rows, target>> /\ \E l \in {"next", "check", "idle"} : Goto(Tick, l)
      BY <2>1 DEF list_active_contracts, NextListed
    <3> QED
      BY <1>1, <3>1, Settles DEF IInv, PCs, Generating, Deciding, Gens
  <2> QED
    BY <1>4, <2>1, GenPays DEF TickStep, Gens
<1>5. ASSUME NEW c \in Contracts,
             \/ delete_contract(c)
             \/ \E t \in Dates :
                  \/ insert_contract(c, t[1], t[2])
                  \/ \E s \in {"active", "ended", "cancelled"} : update_contract(c, s, t[1], t[2])
      PROVE  Payments' /\ Stands
  BY <1>1, <1>5 DEF delete_contract, insert_contract, update_contract, Settling
<1>6. ASSUME NEW c \in Contracts, NEW g \in Manual, generate_for_contract(g, c)
      PROVE  Payments' /\ Stands
  BY <1>1, <1>6, Settles DEF generate_for_contract, IInv, PCs, Generating, Deciding, Gens
<1>7. ASSUME NEW g \in Manual, GenStep(g) PROVE Payments' /\ Stands
  BY <1>7, GenPays DEF Gens
<1>8. ASSUME NEW d \in Deciders, Decide(d) PROVE Payments' /\ Stands
  BY <1>8, DecidePays
<1>9. ASSUME NEW x \in rows, mark_invoice_paid(x) PROVE Payments' /\ Stands
  BY <1>9, RegisterPays
<1> QED
  BY <1>2, <1>3, <1>4, <1>5, <1>6, <1>7, <1>8, <1>9 DEF Next

\* While decisions are taken one at a time, a booked payment stands, whatever
\* ticks and calls run beside them and wherever the process restarts.
THEOREM PaymentsStand == Spec => PaymentStands
<1>1. Init => (Serial => Payments)
  BY DEF Init, Payments, Deciding
<1>2. IInv /\ (Serial => Payments) /\ [Next]_vars => (Serial => Payments)'
  BY PaysStep
<1>3. IInv /\ (Serial => Payments) /\ [Next]_vars =>
        [Serial => \A x \in rows : x.paid => \E y \in rows' : IdOf(y) = IdOf(x) /\ y.status = "paid"]_vars
  BY PaysStep DEF Stands
<1> QED
  BY <1>1, <1>2, <1>3, Invariance, PTL DEF Spec, PaymentStands
-----------------------------------------------------------------------------
(* Numbers.                                                                *)

\* The calls that have drawn a number for a slot, or ended without one.
Drew(s) == {g \in Manual : at[g] = s /\ pc[g] \notin {"idle", "check", "draw"}}

\* A number of a slot is paid for by a call, a restart or a failure; one may
\* be the tick's, until it finds the slot billed.
Spent(s) == crashes + failed[s] + Cardinality(Drew(s))
Closed(s) == In(s) # {} \/ contract[s[1]].status = "deleted"
TickAt(s, l) == at[Tick] = s /\ pc[Tick] = l
BurnedIn(s) ==
  /\ drawn[s] <= 1 + Spent(s)
  /\ drawn[s] <= Spent(s) \/ Closed(s) \/ TickAt(s, "insert")
  /\ s \in todo \/ TickAt(s, "check") => drawn[s] <= Spent(s) \/ In(s) # {}
  /\ TickAt(s, "draw") => drawn[s] <= Spent(s)
  /\ TickAt(s, "check") \/ TickAt(s, "draw") => s \notin todo
Burned == \A s \in Slots : BurnedIn(s)

\* Calls that have drawn are finitely many.
LEMMA SpentIsNat ==
  ASSUME IsFiniteSet(Manual), TypeOK, NEW s \in Slots
  PROVE  IsFiniteSet(Drew(s)) /\ Cardinality(Drew(s)) \in Nat /\ Spent(s) \in Nat
<1>1. Drew(s) \subseteq Manual
  BY DEF Drew
<1>2. IsFiniteSet(Drew(s)) /\ Cardinality(Drew(s)) \in Nat
  BY <1>1, FS_Subset, FS_CardinalityType
<1> QED
  BY <1>2, StorageAssumption DEF Spent, TypeOK

\* No call forgets that it has drawn, and no restart or failure is taken back.
Remembers ==
  /\ \A g \in Manual : pc[g] \notin {"idle", "check", "draw"} =>
       at'[g] = at[g] /\ pc'[g] \notin {"idle", "check", "draw"}
  /\ crashes' >= crashes
  /\ \A s \in Slots : failed'[s] >= failed[s]

\* What is spent on a slot is not gained back.
LEMMA SpentGrows ==
  ASSUME IsFiniteSet(Manual), TypeOK, TypeOK', Remembers, NEW s \in Slots
  PROVE  /\ Spent(s)' >= Spent(s)
         /\ crashes' > crashes \/ failed'[s] > failed[s] => Spent(s)' >= Spent(s) + 1
<1>1. Drew(s) \subseteq Drew(s)'
  BY DEF Drew, Remembers
<1>2. IsFiniteSet(Drew(s)') /\ Cardinality(Drew(s)') \in Nat /\ Cardinality(Drew(s)) \in Nat
  <2>1. Drew(s)' \subseteq Manual
    BY DEF Drew
  <2> QED
    BY <2>1, SpentIsNat, FS_Subset, FS_CardinalityType
<1>3. Cardinality(Drew(s)) <= Cardinality(Drew(s)')
  BY <1>1, <1>2, FS_Subset
<1>4. /\ crashes \in Nat /\ crashes' \in Nat /\ crashes' >= crashes
      /\ failed[s] \in Nat /\ failed'[s] \in Nat /\ failed'[s] >= failed[s]
  BY StorageAssumption DEF TypeOK, Remembers
<1> QED
  BY <1>2, <1>3, <1>4 DEF Spent

\* Billed slots stay billed and deleted contracts deleted.
StaysClosed ==
  /\ \A s \in Slots : In(s) # {} => In(s)' # {}
  /\ \A s \in Slots : contract[s[1]].status = "deleted" => contract'[s[1]].status = "deleted"

\* The tick moves on from a slot only by what it found there.
TickMoves(s) ==
  /\ TickAt(s, "insert") => TickAt(s, "insert")' \/ Closed(s)' \/ crashes' > crashes \/ failed'[s] > failed[s]
  /\ TickAt(s, "check")' => (TickAt(s, "check") \/ s \in todo) /\ s \notin todo'
  /\ TickAt(s, "draw")' => (TickAt(s, "draw") \/ (TickAt(s, "check") /\ In(s) = {})) /\ s \notin todo'

\* A step that draws no number.
LEMMA BurnedKept ==
  ASSUME IsFiniteSet(Manual), TypeOK, TypeOK', Burned, UNCHANGED drawn, Remembers, StaysClosed,
         todo' \subseteq todo, NEW s \in Slots, TickMoves(s)
  PROVE  BurnedIn(s)'
<1>1. drawn[s] \in Nat /\ Spent(s) \in Nat /\ Spent(s)' \in Int
  <2>1. drawn[s] \in Nat /\ crashes' \in Nat /\ failed'[s] \in Nat
    BY StorageAssumption DEF TypeOK
  <2>2. Cardinality(Drew(s)') \in Nat
    <3>1. Drew(s)' \subseteq Manual
      BY DEF Drew
    <3> QED
      BY <3>1, FS_Subset, FS_CardinalityType
  <2> QED
    BY <2>1, <2>2, SpentIsNat DEF Spent
<1>2. /\ Spent(s)' >= Spent(s)
      /\ crashes' > crashes \/ failed'[s] > failed[s] => Spent(s)' >= Spent(s) + 1
  BY SpentGrows
<1>3. BurnedIn(s)
  BY DEF Burned
<1>4. (Closed(s) => Closed(s)') /\ (In(s) # {} => In(s)' # {})
  BY DEF StaysClosed, Closed
<1>5. drawn'[s] <= 1 + Spent(s)'
  BY <1>1, <1>2, <1>3 DEF BurnedIn
<1>6. drawn'[s] <= Spent(s)' \/ Closed(s)' \/ TickAt(s, "insert")'
  BY <1>1, <1>2, <1>3, <1>4 DEF BurnedIn, TickMoves
<1>7. s \in todo' \/ TickAt(s, "check")' => drawn'[s] <= Spent(s)' \/ In(s)' # {}
  BY <1>1, <1>2, <1>3, <1>4 DEF BurnedIn, TickMoves
<1>8. TickAt(s, "draw")' => drawn'[s] <= Spent(s)'
  BY <1>1, <1>2, <1>3, <1>4 DEF BurnedIn, TickMoves
<1> QED
  BY <1>5, <1>6, <1>7, <1>8 DEF BurnedIn, TickMoves

\* A step of a call, a contract or a decision that leaves the tick alone and
\* draws no number.
LEMMA AsideBurned ==
  ASSUME IsFiniteSet(Manual), TypeOK, TypeOK', Burned, UNCHANGED drawn, Remembers, StaysClosed,
         UNCHANGED <<todo, at[Tick], pc[Tick]>>
  PROVE  Burned'
<1> SUFFICES ASSUME NEW s \in Slots PROVE BurnedIn(s)'
  BY DEF Burned
<1>1. TickAt(s, "check") \/ TickAt(s, "draw") => s \notin todo
  BY DEF Burned, BurnedIn
<1>2. /\ TickAt(s, "insert") => TickAt(s, "insert")'
      /\ TickAt(s, "check")' => TickAt(s, "check")
      /\ TickAt(s, "draw")' => TickAt(s, "draw")
      /\ s \in todo' => s \in todo
  BY DEF TickAt
<1>3. TickMoves(s)
  BY <1>1, <1>2 DEF TickMoves
<1> QED
  BY <1>3, BurnedKept

\* A generator draws a number: the tick's is the one that may be lost, a
\* call's is the one it may draw.
LEMMA DrawBurned ==
  ASSUME IsFiniteSet(Manual), IInv, TypeOK', Burned, NEW g \in Gens, next_invoice_number(g)
  PROVE  Burned'
<1> USE DEF IInv
<1> SUFFICES ASSUME NEW s \in Slots PROVE BurnedIn(s)'
  BY DEF Burned
<1>1. /\ pc[g] = "draw" /\ pc' = [pc EXCEPT ![g] = "insert"]
      /\ drawn' = [drawn EXCEPT ![at[g]] = @ + 1]
      /\ UNCHANGED <<contract, rows, todo, at, faults>>
  BY DEF next_invoice_number, Goto
<1>2. drawn[s] \in Nat /\ Spent(s) \in Nat /\ crashes \in Nat /\ failed[s] \in Nat
  BY SpentIsNat, StorageAssumption DEF TypeOK
<1>3. pc'[g] = "insert" /\ \A h \in Gens \ {g} : pc'[h] = pc[h]
  BY <1>1 DEF TypeOK
<1>4. drawn'[s] = IF s = at[g] THEN drawn[s] + 1 ELSE drawn[s]
  BY <1>1 DEF TypeOK
<1>5. (Closed(s)' <=> Closed(s)) /\ (In(s)' = In(s))
  BY <1>1 DEF Closed, In
<1>6. BurnedIn(s)
  BY DEF Burned
<1>7. CASE g = Tick
  <2>1. Drew(s)' = Drew(s)
    BY <1>1, <1>3, <1>7, StorageAssumption DEF Drew, Gens
  <2>2. Spent(s)' = Spent(s)
    BY <1>1, <2>1 DEF Spent
  <2>3. ~TickAt(s, "check")' /\ ~TickAt(s, "draw")' /\ (TickAt(s, "insert")' <=> s = at[g])
    BY <1>1, <1>3, <1>7 DEF TickAt
  <2>4. ~TickAt(s, "insert") /\ (TickAt(s, "draw") <=> s = at[g])
    BY <1>1, <1>7 DEF TickAt
  <2>5. CASE s = at[g]
    BY <1>1, <1>2, <1>4, <1>5, <1>6, <2>2, <2>3, <2>4, <2>5 DEF BurnedIn
  <2>6. CASE s # at[g]
    BY <1>1, <1>2, <1>4, <1>5, <1>6, <2>2, <2>3, <2>4, <2>6 DEF BurnedIn
  <2> QED
    BY <2>5, <2>6
<1>8. CASE g # Tick
  <2>1. g \in Manual /\ Tick \in Gens
    BY <1>8 DEF Gens
  <2>2. Drew(s)' = IF s = at[g] THEN Drew(s) \cup {g} ELSE Drew(s)
    BY <1>1, <1>3, <2>1 DEF Drew, Gens
  <2>3. g \notin Drew(s)
    BY <1>1 DEF Drew
  <2>4. Spent(s)' = IF s = at[g] THEN Spent(s) + 1 ELSE Spent(s)
    <3>1. IsFiniteSet(Drew(s)) /\ Cardinality(Drew(s)) \in Nat
      BY SpentIsNat
    <3>2. Cardinality(Drew(s)') = IF s = at[g] THEN Cardinality(Drew(s)) + 1 ELSE Cardinality(Drew(s))
      BY <2>2, <2>3, <3>1, FS_AddElement
    <3> QED
      BY <1>1, <1>2, <3>1, <3>2 DEF Spent
  <2>5. \A l : TickAt(s, l)' <=> TickAt(s, l)
    BY <1>1, <1>3, <1>8, <2>1 DEF TickAt
  <2> HIDE DEF IInv
  <2>6. CASE s = at[g]
    BY <1>1, <1>2, <1>4, <1>5, <1>6, <2>4, <2>5, <2>6 DEF BurnedIn
  <2>7. CASE s # at[g]
    BY <1>1, <1>2, <1>4, <1>5, <1>6, <2>4, <2>5, <2>7 DEF BurnedIn
  <2> QED
    BY <2>6, <2>7
<1> QED
  BY <1>7, <1>8

\* A generator that goes on without drawing, or writes its row or document.
LEMMA GenBurned ==
  ASSUME IsFiniteSet(Manual), IInv, TypeOK', Burned, NEW g \in Gens, GenStep(g)
  PROVE  Burned'
<1>1. CASE next_invoice_number(g)
  BY <1>1, DrawBurned
<1>2. CASE period_billed(g) \/ insert_invoice(g) \/ render_pdf(g)
  <2>1. UNCHANGED <<contract, drawn, todo, at, crashes>>
    BY <1>2 DEF period_billed, insert_invoice, render_pdf
  <2>0. /\ \A s \in Slots : failed'[s] >= failed[s]
        /\ g # Tick => UNCHANGED failed
        /\ \/ UNCHANGED failed
           \/ insert_invoice(g) /\ (g = Tick => failed'[at[g]] = failed[at[g]] + 1)
    <3>1. failed \in [Slots -> 0..MaxFailures] /\ \A s \in Slots : failed[s] \in Nat
      BY StorageAssumption DEF IInv, TypeOK
    <3>2. CASE UNCHANGED failed
      BY <3>1, <3>2
    <3>3. CASE /\ insert_invoice(g) /\ at[g] \in Slots
               /\ failed' = [failed EXCEPT ![at[g]] = IF g = Tick THEN @ + 1 ELSE @]
      <4>1. CASE g = Tick
        BY <3>1, <3>3, <4>1
      <4>2. CASE g # Tick
        BY <3>1, <3>3, <4>2
      <4> QED
        BY <4>1, <4>2
    <3> QED
      BY <1>2, <3>2, <3>3 DEF period_billed, insert_invoice, render_pdf, IInv, Aimed
  <2>2. PICK l \in {"next", "done", "draw", "render"} :
          /\ Goto(g, l)
          /\ l = "draw" => pc[g] = "check" /\ In(at[g]) = {}
          /\ l = "render" => rows' = rows \union {NewRow(g)}
    BY <1>2, FinishGoes DEF period_billed, insert_invoice, render_pdf, IInv
  <2>3. /\ pc[g] \in {"check", "insert", "render"} /\ pc'[g] = l
        /\ \A h \in Gens \ {g} : pc'[h] = pc[h]
    BY <1>2, <2>2 DEF period_billed, insert_invoice, render_pdf, IInv, TypeOK, Goto
  <2>4. Remembers
    BY <2>0, <2>1, <2>2, <2>3, StorageAssumption DEF Remembers, IInv, TypeOK, Gens
  <2>5. StaysClosed
    <3>1. \A x \in rows : \E y \in rows' : y.slot = x.slot
      <4>1. CASE period_billed(g) \/ insert_invoice(g)
        BY <4>1 DEF period_billed, insert_invoice
      <4>2. CASE render_pdf(g)
        <5>1. PICK x \in rows, d \in {"none", "pdf", "xlsx"} : Put(x, [x EXCEPT !.doc = d])
          BY <4>2 DEF render_pdf, At
        <5>2. PICK y : y = [x EXCEPT !.doc = d]
          OBVIOUS
        <5>3. y.slot = x.slot /\ rows' = (rows \ {x}) \union {y}
          BY <5>1, <5>2 DEF IInv, TypeOK, Row, Put
        <5> QED
          BY <5>3
      <4> QED
        BY <1>2, <4>1, <4>2
    <3> QED
      BY <2>1, <3>1 DEF StaysClosed, In
  <2>6. ASSUME g = Tick, NEW s \in Slots PROVE BurnedIn(s)'
    <3>1. TickAt(s, "insert") => Closed(s)' \/ failed'[s] > failed[s]
      <4>1. SUFFICES ASSUME TickAt(s, "insert"), ~(failed'[s] > failed[s]) PROVE Closed(s)'
        OBVIOUS
      <4>2. insert_invoice(g) /\ at[g] = s /\ failed[s] \in Nat
        BY <1>2, <2>6, <4>1, StorageAssumption DEF TickAt, period_billed, render_pdf, IInv, TypeOK
      <4>3. \/ In(s) # {} \/ contract[s[1]].status = "deleted"
            \/ rows' = rows \union {NewRow(g)}
        BY <2>6, <4>1, <4>2 DEF insert_invoice, IInv, TypeOK
      <4>4. CASE Closed(s)
        BY <2>5, <4>4 DEF Closed, StaysClosed
      <4>5. CASE rows' = rows \union {NewRow(g)}
        <5>1. PICK y : y = NewRow(g)
          OBVIOUS
        <5>2. y \in rows' /\ y.slot = s
          BY <4>2, <4>5, <5>1 DEF NewRow
        <5> QED
          BY <5>2 DEF Closed, In
      <4> QED
        BY <4>3, <4>4, <4>5 DEF Closed
    <3>2. ~TickAt(s, "check")'
      BY <2>2, <2>3, <2>6 DEF TickAt
    <3>3. TickAt(s, "draw")' => TickAt(s, "check") /\ In(s) = {} /\ s \notin todo
      BY <2>1, <2>2, <2>3, <2>6 DEF TickAt, Burned, BurnedIn
    <3>4. TickMoves(s)
      BY <2>1, <3>1, <3>2, <3>3 DEF TickMoves
    <3> QED
      BY <2>1, <2>4, <2>5, <3>4, BurnedKept DEF IInv
  <2>7. CASE g # Tick
    BY <2>1, <2>3, <2>4, <2>5, <2>7, AsideBurned DEF IInv, Gens
  <2> QED
    BY <2>6, <2>7 DEF Burned
<1> QED
  BY <1>1, <1>2 DEF GenStep

\* The tick lists the contracts, takes the next one or sleeps.
LEMMA TickBurned ==
  ASSUME IsFiniteSet(Manual), IInv, TypeOK', Burned, list_active_contracts \/ NextListed
  PROVE  Burned'
<1> SUFFICES ASSUME NEW s \in Slots PROVE BurnedIn(s)'
  BY DEF Burned
<1>1. UNCHANGED <<contract, rows, drawn, faults>>
  BY DEF list_active_contracts, NextListed
<1>2. \A g \in Manual : pc'[g] = pc[g] /\ at'[g] = at[g]
  BY StorageAssumption DEF list_active_contracts, NextListed, Goto, IInv, TypeOK, Gens
<1>3. Remembers /\ StaysClosed
  BY <1>1, <1>2, StorageAssumption DEF Remembers, StaysClosed, In, IInv, TypeOK
<1>4. CASE list_active_contracts
  <2>1. pc[Tick] = "idle" /\ pc'[Tick] = "next" /\ at' = at
    BY <1>4 DEF list_active_contracts, Goto, IInv, TypeOK, Gens
  <2>2. \A l \in {"check", "draw", "insert"} : ~TickAt(s, l) /\ ~TickAt(s, l)'
    BY <2>1 DEF TickAt
  <2>3. s \in todo' => contract[s[1]].status # "deleted"
    BY <1>4 DEF list_active_contracts, DueNow
  <2>4. Spent(s)' = Spent(s) /\ Closed(s)' = Closed(s) /\ In(s)' = In(s)
    <3>1. Drew(s)' = Drew(s)
      BY <1>2 DEF Drew
    <3> QED
      BY <1>1, <3>1 DEF Spent, Closed, In
  <2>5. BurnedIn(s)
    BY DEF Burned
  <2>6. drawn[s] <= Spent(s) \/ Closed(s)
    BY <2>2, <2>5 DEF BurnedIn
  <2>7. s \in todo' => drawn[s] <= Spent(s) \/ In(s) # {}
    BY <2>3, <2>6 DEF Closed
  <2> QED
    BY <1>1, <2>2, <2>4, <2>5, <2>6, <2>7 DEF BurnedIn
<1>5. CASE NextListed
  <2>1. PICK r \in Slots \union {NoSlot}, l \in {"check", "idle"} :
          /\ at' = [at EXCEPT ![Tick] = r] /\ Goto(Tick, l)
          /\ l = "check" => r \in todo /\ todo' = todo \ {r}
          /\ l = "idle" => todo' = todo
    BY <1>5 DEF NextListed, IInv, TypeOK
  <2>2. pc[Tick] = "next" /\ pc'[Tick] = l /\ at'[Tick] = r
    BY <1>5, <2>1 DEF NextListed, Goto, IInv, TypeOK, Gens
  <2>3. ~TickAt(s, "insert") /\ ~TickAt(s, "draw")' /\ todo' \subseteq todo
    BY <2>1, <2>2 DEF TickAt
  <2>4. TickAt(s, "check")' => s \in todo /\ s \notin todo'
    BY <2>1, <2>2 DEF TickAt
  <2>5. TickMoves(s)
    BY <2>3, <2>4 DEF TickMoves
  <2> QED
    BY <1>1, <1>3, <2>3, <2>5, BurnedKept DEF IInv
<1> QED
  BY <1>4, <1>5

\* The process restarts: a number the tick had drawn is paid for by it.
LEMMA CrashBurned ==
  ASSUME IsFiniteSet(Manual), IInv, TypeOK', Burned, Crash
  PROVE  Burned'
<1> SUFFICES ASSUME NEW s \in Slots PROVE BurnedIn(s)'
  BY DEF Burned
<1>1. UNCHANGED <<contract, rows, drawn, failed>> /\ todo' = {} /\ crashes' = crashes + 1
  BY DEF Crash
<1>2. crashes' > crashes /\ crashes' >= crashes
  BY <1>1, StorageAssumption DEF IInv, TypeOK
<1>3. /\ \A g \in Manual : at'[g] = at[g]
      /\ \A p \in Gens : pc[p] = "idle" => pc'[p] = "idle"
      /\ \A p \in Gens : pc[p] # "idle" => pc'[p] \notin Generating
      /\ \A g \in Manual : pc[g] # "idle" => pc'[g] \notin {"idle", "check", "draw"}
  BY StorageAssumption DEF Crash, Generating, Deciding, IInv, TypeOK, Gens
<1>4. Remembers /\ StaysClosed
  BY <1>1, <1>2, <1>3, StorageAssumption DEF Remembers, StaysClosed, In, IInv, TypeOK
<1>5. ~TickAt(s, "check")' /\ ~TickAt(s, "draw")'
  BY <1>3 DEF TickAt, Generating, Gens
<1>6. TickMoves(s)
  BY <1>2, <1>5 DEF TickMoves
<1> QED
  BY <1>1, <1>4, <1>6, BurnedKept DEF IInv

\* Every step keeps what is said of numbers.
LEMMA BurnedStep ==
  ASSUME IsFiniteSet(Manual), IInv, TypeOK', Burned, [Next]_vars
  PROVE  Burned'
<1>1. ASSUME UNCHANGED <<drawn, todo, at, pc, faults>>, StaysClosed PROVE Burned'
  <2>1. Remembers
    BY <1>1, StorageAssumption DEF Remembers, IInv, TypeOK
  <2> QED
    BY <1>1, <2>1, AsideBurned DEF IInv
<1>2. CASE NextDay \/ UNCHANGED vars
  BY <1>1, <1>2 DEF NextDay, vars, StaysClosed, In
<1>3. CASE Crash
  BY <1>3, CrashBurned
<1>4. CASE TickStep
  BY <1>4, TickBurned, GenBurned DEF TickStep, Gens
<1>5. ASSUME NEW c \in Contracts,
             \/ delete_contract(c)
             \/ \E t \in Dates :
                  \/ insert_contract(c, t[1], t[2])
                  \/ \E s \in {"active", "ended", "cancelled"} : update_contract(c, s, t[1], t[2])
      PROVE  Burned'
  <2>1. UNCHANGED <<rows, drawn, todo, at, pc, faults>>
    BY <1>5 DEF delete_contract, insert_contract, update_contract
  <2>2. \A k \in Contracts : contract[k].status = "deleted" => contract'[k].status = "deleted"
    BY <1>5 DEF delete_contract, insert_contract, update_contract, Exists, IInv, TypeOK, Terms
  <2>3. StaysClosed
    BY <2>1, <2>2 DEF StaysClosed, In, Slots
  <2> QED
    BY <1>1, <2>1, <2>3
<1>6. ASSUME NEW c \in Contracts, NEW g \in Manual, generate_for_contract(g, c) PROVE Burned'
  <2>1. /\ UNCHANGED <<contract, rows, drawn, todo, faults>> /\ pc[g] = "idle"
        /\ \A h \in Gens \ {g} : pc'[h] = pc[h] /\ at'[h] = at[h]
    BY <1>6 DEF generate_for_contract, Goto, IInv, TypeOK
  <2>2. Remembers
    BY <2>1, StorageAssumption DEF Remembers, IInv, TypeOK, Gens
  <2>3. StaysClosed
    BY <2>1 DEF StaysClosed, In
  <2>4. UNCHANGED <<at[Tick], pc[Tick]>>
    BY <2>1, StorageAssumption DEF Gens
  <2> QED
    BY <2>1, <2>2, <2>3, <2>4, AsideBurned DEF IInv
<1>7. ASSUME NEW g \in Manual, GenStep(g) PROVE Burned'
  BY <1>7, GenBurned DEF Gens
<1>8. ASSUME NEW d \in Deciders, Decide(d) PROVE Burned'
  <2>1. /\ UNCHANGED <<contract, drawn, todo, at, faults>>
        /\ pc[d] \in {"idle", "smtp", "mark", "cancel"}
        /\ \E l \in {"smtp", "cancel", "mark", "done"} : Goto(d, l)
    BY <1>8 DEF Decide, approve_and_send, reject, Smtp, mark_invoice_approved_sent, mark_invoice_rejected
  <2>2. Remembers
    BY <2>1, StorageAssumption DEF Remembers, Goto, IInv, TypeOK, Gens
  <2>3. StaysClosed
    <3>1. CASE UNCHANGED rows
      BY <2>1, <3>1 DEF StaysClosed, In
    <3>2. ASSUME NEW x \in At(target[d]), NEW y, Put(x, y),
                 \/ y = [x EXCEPT !.mails = @ + 1]
                 \/ \E s \in {"sent", "cancelled"} : y = [x EXCEPT !.status = s]
          PROVE  StaysClosed
      <4>1. x \in Row /\ y.slot = x.slot
        BY <3>2 DEF At, IInv, TypeOK, Row
      <4> QED
        BY <2>1, <3>2, <4>1 DEF StaysClosed, In, Put
    <3> QED
      BY <1>8, <3>1, <3>2 DEF Decide, approve_and_send, reject, Smtp, mark_invoice_approved_sent, mark_invoice_rejected
  <2>4. pc'[Tick] \in {"check", "draw"} \/ pc[Tick] = "insert" => pc'[Tick] = pc[Tick]
    BY <2>1 DEF Goto, IInv, TypeOK, Gens
  <2>5. ASSUME NEW s \in Slots PROVE BurnedIn(s)'
    <3>1. TickAt(s, "check") \/ TickAt(s, "draw") => s \notin todo
      BY DEF Burned, BurnedIn
    <3>2. /\ TickAt(s, "insert") => TickAt(s, "insert")'
          /\ TickAt(s, "check")' => TickAt(s, "check")
          /\ TickAt(s, "draw")' => TickAt(s, "draw")
          /\ s \in todo' => s \in todo
      BY <2>1, <2>4 DEF TickAt
    <3>3. TickMoves(s)
      BY <3>1, <3>2 DEF TickMoves
    <3> QED
      BY <2>1, <2>2, <2>3, <3>3, BurnedKept DEF IInv
  <2> QED
    BY <2>5 DEF Burned
<1>9. ASSUME NEW x \in rows, mark_invoice_paid(x) PROVE Burned'
  <2>1. UNCHANGED <<contract, drawn, todo, at, pc, faults>>
    BY <1>9 DEF mark_invoice_paid
  <2>2. PICK y : y = [x EXCEPT !.status = "paid", !.paid = TRUE]
    OBVIOUS
  <2>3. y.slot = x.slot /\ Put(x, y)
    BY <1>9, <2>2 DEF mark_invoice_paid, IInv, TypeOK, Row
  <2>4. StaysClosed
    BY <2>1, <2>3 DEF StaysClosed, In, Put
  <2> QED
    BY <1>1, <2>1, <2>4
<1> QED
  BY <1>2, <1>3, <1>4, <1>5, <1>6, <1>7, <1>8, <1>9 DEF Next

\* A month burns one number for each "jetzt erzeugen" call, one for all the
\* ticks and one for each restart and each failing INSERT of theirs, however
\* they run.
THEOREM BurnedBounded ==
  ASSUME IsFiniteSet(Manual)
  PROVE  Spec => []NumbersBurned
<1>1. Init => Burned
  <2> SUFFICES ASSUME Init, NEW s \in Slots PROVE BurnedIn(s)
    BY DEF Burned
  <2>1. drawn[s] = 0 /\ todo = {} /\ pc[Tick] = "idle"
    BY DEF Init, Gens
  <2>2. Spent(s) \in Nat
    BY InitInv, SpentIsNat DEF IInv
  <2> QED
    BY <2>1, <2>2 DEF BurnedIn, TickAt
<1>2. IInv /\ IInv' /\ Burned /\ [Next]_vars => Burned'
  BY BurnedStep DEF IInv
<1>3. IInv /\ Burned => NumbersBurned
  <2> SUFFICES ASSUME IInv, Burned, NEW s \in Slots
               PROVE  drawn[s] <= 1 + crashes + failed[s] + Cardinality({g \in Manual : at[g] = s})
    BY DEF NumbersBurned
  <2>1. /\ IsFiniteSet({g \in Manual : at[g] = s})
        /\ Cardinality({g \in Manual : at[g] = s}) \in Nat
    BY FS_Subset, FS_CardinalityType
  <2>2. Drew(s) \subseteq {g \in Manual : at[g] = s}
    BY DEF Drew
  <2>3. Cardinality(Drew(s)) <= Cardinality({g \in Manual : at[g] = s})
    BY <2>1, <2>2, FS_Subset
  <2>4. drawn[s] <= 1 + Spent(s)
    BY DEF Burned, BurnedIn
  <2>5. drawn[s] \in Nat /\ crashes \in Nat /\ failed[s] \in Nat /\ Cardinality(Drew(s)) \in Nat
    BY SpentIsNat, StorageAssumption DEF IInv, TypeOK
  <2> QED
    BY <2>1, <2>3, <2>4, <2>5 DEF Spent
<1> QED
  BY <1>1, <1>2, <1>3, Invariance, PTL DEF Spec
=============================================================================
