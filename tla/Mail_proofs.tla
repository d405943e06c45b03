---------------------------- MODULE Mail_proofs ----------------------------
(***************************************************************************)
(* Proofs about the e-mail agent: MailDrafts, for any set of drafts and of *)
(* send requests, any bounds and any choice of faults, and MailIntake, for *)
(* any customers, facts and letters.                                       *)
(***************************************************************************)
EXTENDS MailDrafts, MailIntake, SequenceTheorems, FiniteSetTheorems, WellFoundedInduction, TLAPS

\* Who is at work works on one draft, and the agent lets go of the copy it
\* mails.
AtWork ==
  /\ \A s \in Senders : spc[s] = "idle" <=> sdraft[s] = NoDraft
  /\ apc = "idle" <=> acur = NoDraft
  /\ apc # "idle" => held[acur] = "no"

\* A row is marked after a mail.
MarksMailed ==
  /\ \A s \in Senders : spc[s] = "mark" => mails[sdraft[s]] > 0
  /\ apc = "mark" => mails[acur] > 0

\* An untouched draft has one actor, who has what the row has.
OneActor(d) ==
  /\ AgentOn(d) => \A s \in Senders : sdraft[s] # d
  /\ \A s, t \in Senders : sdraft[s] = d /\ sdraft[t] = d => s = t

\* The agent's copy is what the row says, unless an edit did not reach the row,
\* and was not mailed before.
CopyIsRow(d) ==
  /\ AgentOn(d) => row[d] \in {"none", "draft"}
  /\ AgentOn(d) /\ row[d] = "draft" => copy[d] = text[d] \/ d \in unwritten
  /\ AgentOn(d) /\ ~(acur = d /\ apc = "mark") => mails[d] = 0
  /\ acur = d /\ apc = "mark" => mails[d] = 1 /\ letter[d] = copy[d]

\* What a request read is what the row says, and was not mailed before.
ReadIsRow(d) ==
  \A s \in Senders : sdraft[s] = d =>
    /\ row[d] = "draft" /\ stext[s] = text[d]
    /\ spc[s] = "send" => mails[d] = 0
    /\ spc[s] = "mark" => mails[d] = 1 /\ letter[d] = stext[s]

\* A row nobody is at says what was mailed.
RestIsMailed(d) ==
  /\ row[d] = "sent" => mails[d] = 1 /\ (letter[d] = text[d] \/ d \in unwritten)
  /\ Idle(d) /\ row[d] # "sent" => mails[d] = 0

Sound(d) == OneActor(d) /\ CopyIsRow(d) /\ ReadIsRow(d) /\ RestIsMailed(d)
Untouched == \A d \in Drafts \ (touched \union cut) : Sound(d)

\* The inductive invariant.
IInv ==
  /\ TypeOK
  /\ AtWork
  /\ MarksMailed
  /\ SentWasMailed
  /\ Untouched

\* The inductive invariant holds of no draft.
LEMMA InitInv == Init => IInv
<1> SUFFICES ASSUME Init PROVE IInv
  OBVIOUS
<1> USE DraftsAssumption, NoDraftAssumption DEF Init
<1>1. TypeOK
  BY DEF TypeOK
<1>2. AtWork /\ MarksMailed /\ SentWasMailed
  BY DEF AtWork, MarksMailed, SentWasMailed
<1>3. Untouched
  BY DEF Untouched, Sound, OneActor, CopyIsRow, ReadIsRow, RestIsMailed, AgentOn
<1> QED
  BY <1>1, <1>2, <1>3 DEF IInv

\* Every step keeps the types.
LEMMA TypeStep == TypeOK /\ AtWork /\ [Next]_vars => TypeOK'
<1> SUFFICES ASSUME TypeOK, AtWork, [Next]_vars PROVE TypeOK'
  OBVIOUS
<1> USE DraftsAssumption, NoDraftAssumption
        DEF TypeOK, AtWork, NewText, DashboardTouches, AgentTouches, Ends,
            table, agent, requests, outgoing, history
<1>1. ASSUME NEW d \in Drafts, insert_reply_draft(d) \/ update_draft(d) \/ discard_draft(d) PROVE TypeOK'
  BY <1>1 DEF insert_reply_draft, update_draft, discard_draft
<1>2. ASSUME NEW d \in Drafts, generate_offer_email_draft(d) PROVE TypeOK'
  BY <1>2 DEF generate_offer_email_draft
<1>3. ASSUME NEW d \in Drafts, submit_draft_for_approval(d) PROVE TypeOK'
  BY <1>3 DEF submit_draft_for_approval
<1>4. ASSUME NEW d \in Drafts, AwaitingEditInstructions(d) \/ handle_edit_instructions(d) PROVE TypeOK'
  BY <1>4 DEF AwaitingEditInstructions, handle_edit_instructions, Resubmitted
<1>5. ASSUME NEW d \in Drafts, Approve(d) \/ Deny(d) PROVE TypeOK'
  BY <1>5 DEF Approve, Deny
<1>6. ASSUME NEW d \in Drafts, NEW s \in Senders, fetch_draft_for_send(s, d) PROVE TypeOK'
  BY <1>6 DEF fetch_draft_for_send
<1>7. ASSUME NEW s \in Senders, send_email(s) PROVE TypeOK'
  BY <1>7 DEF send_email, Mailed
<1>8. ASSUME NEW s \in Senders, mark_message_sent(s) PROVE TypeOK'
  BY <1>8 DEF mark_message_sent
<1>9. CASE send_approved_email
  BY <1>9 DEF send_approved_email, Mailed
<1>10. CASE AgentMark
  BY <1>10 DEF AgentMark
<1>11. CASE Restart
  BY <1>11 DEF Restart
<1>12. CASE UNCHANGED vars
  BY <1>12 DEF vars
<1> QED
  BY <1>1, <1>2, <1>3, <1>4, <1>5, <1>6, <1>7, <1>8, <1>9, <1>10, <1>11, <1>12 DEF Next

\* Every step keeps who is at work apart, and marks only what was mailed.
LEMMA WorkStep ==
  TypeOK /\ AtWork /\ MarksMailed /\ SentWasMailed /\ [Next]_vars
    => AtWork' /\ MarksMailed' /\ SentWasMailed'
<1> DEFINE Good == AtWork /\ MarksMailed /\ SentWasMailed
<1> SUFFICES ASSUME TypeOK, Good, [Next]_vars PROVE Good'
  OBVIOUS
<1> USE DraftsAssumption, NoDraftAssumption
        DEF TypeOK, AtWork, MarksMailed, SentWasMailed, Ends, NewText, Fresh, AgentOn,
            table, agent, requests, outgoing, history
<1>1. ASSUME NEW d \in Drafts, insert_reply_draft(d) \/ update_draft(d) \/ discard_draft(d) PROVE Good'
  BY <1>1 DEF insert_reply_draft, update_draft, discard_draft
<1>2. ASSUME NEW d \in Drafts, generate_offer_email_draft(d) PROVE Good'
  BY <1>2 DEF generate_offer_email_draft
<1>3. ASSUME NEW d \in Drafts, submit_draft_for_approval(d) PROVE Good'
  BY <1>3 DEF submit_draft_for_approval
<1>4. ASSUME NEW d \in Drafts, AwaitingEditInstructions(d) \/ handle_edit_instructions(d) PROVE Good'
  BY <1>4 DEF AwaitingEditInstructions, handle_edit_instructions, Resubmitted
<1>5. ASSUME NEW d \in Drafts, Approve(d) \/ Deny(d) PROVE Good'
  BY <1>5 DEF Approve, Deny
<1>6. ASSUME NEW d \in Drafts, NEW s \in Senders, fetch_draft_for_send(s, d) PROVE Good'
  BY <1>6 DEF fetch_draft_for_send
<1>7. ASSUME NEW s \in Senders, send_email(s) PROVE Good'
  BY <1>7 DEF send_email, Mailed
<1>8. ASSUME NEW s \in Senders, mark_message_sent(s) PROVE Good'
  BY <1>8 DEF mark_message_sent
<1>9. CASE send_approved_email
  BY <1>9 DEF send_approved_email, Mailed
<1>10. CASE AgentMark
  BY <1>10 DEF AgentMark
<1>11. CASE Restart
  BY <1>11 DEF Restart
<1>12. CASE UNCHANGED vars
  BY <1>12 DEF vars
<1> QED
  BY <1>1, <1>2, <1>3, <1>4, <1>5, <1>6, <1>7, <1>8, <1>9, <1>10, <1>11, <1>12 DEF Next

\* A draft that stays untouched stays sound.
LEMMA UntouchedStep == IInv /\ [Next]_vars => Untouched'
<1> SUFFICES ASSUME IInv, [Next]_vars,
                    NEW c \in Drafts, c \notin touched', c \notin cut'
             PROVE  Sound(c)'
  BY DEF Untouched
<1> USE DraftsAssumption, NoDraftAssumption
        DEF TypeOK, AtWork, Ends, NewText, Fresh, AgentOn, Idle, SendersOn,
            DashboardTouches, AgentTouches, table, agent, requests, outgoing, history,
            Sound, OneActor, CopyIsRow, ReadIsRow, RestIsMailed
<1>0. TypeOK /\ AtWork /\ (c \notin touched /\ c \notin cut => Sound(c))
  BY DEF IInv, Untouched
<1>1. ASSUME NEW d \in Drafts, insert_reply_draft(d) \/ update_draft(d) \/ discard_draft(d) PROVE Sound(c)'
  BY <1>0, <1>1 DEF insert_reply_draft, update_draft, discard_draft
<1>2. ASSUME NEW d \in Drafts, generate_offer_email_draft(d) PROVE Sound(c)'
  BY <1>0, <1>2 DEF generate_offer_email_draft
<1>3. ASSUME NEW d \in Drafts, submit_draft_for_approval(d) PROVE Sound(c)'
  BY <1>0, <1>3 DEF submit_draft_for_approval
<1>4. ASSUME NEW d \in Drafts, AwaitingEditInstructions(d) PROVE Sound(c)'
  BY <1>0, <1>4 DEF AwaitingEditInstructions, Resubmitted
<1>5. ASSUME NEW d \in Drafts, handle_edit_instructions(d) PROVE Sound(c)'
  BY <1>0, <1>5 DEF handle_edit_instructions, Resubmitted
<1>6. ASSUME NEW d \in Drafts, Approve(d) \/ Deny(d) PROVE Sound(c)'
  BY <1>0, <1>6 DEF Approve, Deny
<1>7. ASSUME NEW d \in Drafts, NEW s \in Senders, fetch_draft_for_send(s, d) PROVE Sound(c)'
  BY <1>0, <1>7 DEF fetch_draft_for_send
<1>8. ASSUME NEW s \in Senders, send_email(s) PROVE Sound(c)'
  BY <1>0, <1>8 DEF send_email, Mailed
<1>9. ASSUME NEW s \in Senders, mark_message_sent(s) PROVE Sound(c)'
  BY <1>0, <1>9 DEF mark_message_sent
<1>10. CASE send_approved_email
  BY <1>0, <1>10 DEF send_approved_email, Mailed
<1>11. CASE AgentMark
  BY <1>0, <1>11 DEF AgentMark
<1>12. CASE Restart
  BY <1>0, <1>12 DEF Restart
<1>13. CASE UNCHANGED vars
  BY <1>0, <1>13 DEF vars
<1> QED
  BY <1>1, <1>2, <1>3, <1>4, <1>5, <1>6, <1>7, <1>8, <1>9, <1>10, <1>11, <1>12, <1>13 DEF Next

\* The inductive invariant holds in every reachable state.
LEMMA Invariance == Spec => []IInv
<1>1. IInv /\ [Next]_vars => IInv'
  BY TypeStep, WorkStep, UntouchedStep DEF IInv
<1> QED
  BY <1>1, InitInv, PTL DEF Spec

\* Every state is well typed.
THEOREM TypeCorrect == Spec => []TypeOK
<1>1. IInv => TypeOK
  BY DEF IInv
<1> QED
  BY <1>1, Invariance, PTL

\* A row that says 'sent' was mailed.
THEOREM SentIsMailed == Spec => []SentWasMailed
<1>1. IInv => SentWasMailed
  BY DEF IInv
<1> QED
  BY <1>1, Invariance, PTL

\* A draft with one actor at a time is mailed at most once, with its row's
\* text unless the agent's edit did not reach the row, and never after it was
\* discarded.
THEOREM UntouchedSound == Spec => []UntouchedIsSound
<1>1. IInv => UntouchedIsSound
  <2> SUFFICES ASSUME IInv, NEW d \in Drafts, d \notin touched, d \notin cut
               PROVE  /\ mails[d] <= 1
                      /\ row[d] = "sent" => letter[d] = text[d] \/ d \in unwritten
                      /\ row[d] = "discarded" => mails[d] = 0
                      /\ Idle(d) /\ mails[d] > 0 => row[d] = "sent"
    BY DEF UntouchedIsSound
  <2>1. Sound(d) /\ mails[d] \in Nat /\ AtWork /\ \A s \in Senders : spc[s] \in {"idle", "send", "mark"}
    BY DraftsAssumption DEF IInv, Untouched, TypeOK
  <2>2. CASE Idle(d)
    BY <2>1, <2>2 DEF Sound, RestIsMailed
  <2>3. CASE AgentOn(d)
    BY <2>1, <2>3 DEF Sound, CopyIsRow, Idle
  <2>4. ASSUME NEW s \in Senders, sdraft[s] = d
        PROVE  row[d] = "draft" /\ mails[d] <= 1 /\ ~Idle(d)
    BY <2>1, <2>4, NoDraftAssumption DEF Sound, ReadIsRow, Idle, SendersOn, AtWork
  <2> QED
    BY <2>2, <2>3, <2>4 DEF Idle, SendersOn
<1> QED
  BY <1>1, Invariance, PTL

\* A final row that nobody is at is never written, mailed or read for sending
\* again.
THEOREM FinalStaysFinal == Spec => FinalIsFinal
<1> DEFINE Quiet(d) == row[d] \in {"sent", "discarded"} /\ Idle(d)
           Kept(d) == row'[d] = row[d] /\ text'[d] = text[d] /\ mails'[d] = mails[d] /\ Idle(d)'
<1>1. ASSUME TypeOK, AtWork, [Next]_vars, NEW c \in Drafts, Quiet(c) PROVE Kept(c)
  <2> USE <1>1, NoDraftAssumption
          DEF TypeOK, AtWork, Ends, NewText, Fresh, AgentOn, Idle, SendersOn,
              table, agent, requests, outgoing, history
  <2>1. ASSUME NEW d \in Drafts, insert_reply_draft(d) \/ update_draft(d) \/ discard_draft(d) PROVE Kept(c)
    BY <2>1 DEF insert_reply_draft, update_draft, discard_draft
  <2>2. ASSUME NEW d \in Drafts, generate_offer_email_draft(d) \/ submit_draft_for_approval(d) PROVE Kept(c)
    BY <2>2 DEF generate_offer_email_draft, submit_draft_for_approval
  <2>3. ASSUME NEW d \in Drafts, AwaitingEditInstructions(d) \/ handle_edit_instructions(d) PROVE Kept(c)
    BY <2>3 DEF AwaitingEditInstructions, handle_edit_instructions, Resubmitted
  <2>4. ASSUME NEW d \in Drafts, Approve(d) \/ Deny(d) PROVE Kept(c)
    BY <2>4 DEF Approve, Deny
  <2>5. ASSUME NEW d \in Drafts, NEW s \in Senders, fetch_draft_for_send(s, d) PROVE Kept(c)
    BY <2>5 DEF fetch_draft_for_send
  <2>6. ASSUME NEW s \in Senders, send_email(s) \/ mark_message_sent(s) PROVE Kept(c)
    BY <2>6 DEF send_email, Mailed, mark_message_sent
  <2>7. CASE send_approved_email \/ AgentMark
    BY <2>7 DEF send_approved_email, Mailed, AgentMark
  <2>8. CASE Restart
    BY <2>8 DEF Restart
  <2>9. CASE UNCHANGED vars
    BY <2>9 DEF vars
  <2> QED
    BY <2>1, <2>2, <2>3, <2>4, <2>5, <2>6, <2>7, <2>8, <2>9 DEF Next
<1>2. IInv /\ [Next]_vars => [\A d \in Drafts : Quiet(d) => Kept(d)]_vars
  BY <1>1 DEF IInv
<1> QED
  BY <1>2, Invariance, PTL DEF Spec, FinalIsFinal
-----------------------------------------------------------------------------
(***************************************************************************)
(* The mailbox, for any customers, facts and letters and any bounds.       *)
(***************************************************************************)
Inquiries == [facts : SUBSET Facts, from : SUBSET Arrived]
SentInquiries == [key : Addresses, from : SUBSET Arrived]

\* What the agent and the channel hold of the mails that arrived.
IntakeTypeOK ==
  /\ mail \in Seq(Letters) /\ Len(mail) <= MaxLetters
  /\ seen \subseteq Arrived /\ batch \subseteq Arrived \ seen
  /\ pc \in {"poll", "store", "answer", "flag"} /\ (pc = "poll" <=> batch = {})
  /\ open \in [Addresses -> Inquiries]
  /\ sent \in Seq(SentInquiries) /\ taken \in 0..Len(sent)
  /\ rows \in [Numbers -> Nat] /\ again \in [Numbers -> Nat]
  /\ told \in [Addresses -> SUBSET Facts]

\* Whether the latest pass over a mail has stored it, and taken it for what it is.
Kept(m) == m \in seen \/ (pc \in {"answer", "flag"} /\ m = Current)
Merged(m) == m \in seen \/ (pc = "flag" /\ m = Current)

\* A mail has a row for each pass that did not flag it, and one more for this.
RowOnce ==
  \A m \in Numbers : rows[m] <= again[m] + 1 /\ (~Kept(m) => rows[m] <= again[m])

\* It is part of an open inquiry or of sent ones.
SentWith(m) == {i \in 1..Len(sent) : m \in sent[i].from}
InOpen(m) == \E k \in Addresses : m \in open[k].from
Uses(m) == Cardinality(SentWith(m)) + (IF InOpen(m) THEN 1 ELSE 0)

UsedOnce ==
  \A m \in Numbers : Uses(m) <= again[m] + 1 /\ (~Merged(m) => Uses(m) <= again[m])

\* The mails of an inquiry have its address.
OneAddress ==
  /\ \A k \in Addresses : \A m \in open[k].from : inquiry_key(m) = k
  /\ \A i \in 1..Len(sent) : \A m \in sent[i].from : inquiry_key(m) = sent[i].key

\* Nothing is lost but by a failure or a restart: what was told is known until the
\* inquiry is complete, and then it is sent, received and written.
MadeOrBroken == \A i \in 1..taken : i \in made \/ sent[i].key \in broken
WasSent(k) == \E i \in 1..Len(sent) : sent[i].key = k
ToldIsKnown == \A k \in Addresses \ broken : WasSent(k) \/ told[k] = open[k].facts
OpenIsIncomplete == \A k \in Addresses : open[k].facts # Facts

\* The inductive invariant of the mailbox.
IntakeInv ==
  /\ IntakeTypeOK
  /\ RowOnce /\ UsedOnce /\ OneAddress
  /\ MadeOrBroken /\ ToldIsKnown /\ OpenIsIncomplete

\* The agent is always at the oldest mail of its batch.
LEMMA HasOldest ==
  ASSUME NEW S \in SUBSET Nat, S # {}
  PROVE  \E m \in S : \A n \in S : m <= n
<1> DEFINE R == OpToRel(<, Nat)
<1>1. IsWellFoundedOn(R, Nat)
  BY NatLessThanWellFounded
<1>2. \A x, y \in Nat : x < y => <<x, y>> \in R
  BY DEF OpToRel
<1> HIDE DEF R
<1>3. PICK x \in S : \A y \in S : ~ (<<y, x>> \in R)
  BY <1>1, WFMin
<1>4. \A y \in S : x <= y
  <2> TAKE y \in S
  <2>1. x \in Nat /\ y \in Nat
    OBVIOUS
  <2>2. ~ (y < x)
    BY <1>2, <1>3, <2>1
  <2> QED
    BY <2>1, <2>2
<1> QED
  BY <1>4

LEMMA CurrentOfBatch ==
  ASSUME IntakeTypeOK, pc # "poll"
  PROVE  Current \in batch /\ Current \in Arrived /\ Current \notin seen /\ Current \in Numbers
<1>1. Len(mail) \in Nat /\ Arrived \subseteq Numbers
  BY IntakeAssumption DEF IntakeTypeOK, Arrived, Numbers
<1>2. batch \in SUBSET Nat /\ batch # {}
  BY <1>1 DEF IntakeTypeOK, Arrived
<1>3. \E m \in batch : \A n \in batch : m <= n
  BY <1>2, HasOldest
<1>4. Current \in batch
  BY <1>3 DEF Current, Oldest
<1> QED
  BY <1>1, <1>4 DEF IntakeTypeOK

\* What a mail can add to an inquiry.
LEMMA LetterAdds ==
  ASSUME IntakeTypeOK, NEW m \in Arrived
  PROVE  inquiry_key(m) \in Addresses /\ \A found \in Extracted(m) : found \subseteq Facts
<1>1. mail[m] \in Letters
  BY DEF IntakeTypeOK, Arrived
<1>2. mail[m].writer \in Customers /\ mail[m].says \subseteq Facts
  BY <1>1, IntakeAssumption
<1> QED
  BY <1>2 DEF inquiry_key, Extracted, Addresses

\* The sent inquiries with a mail can be counted.
LEMMA SentCounted ==
  ASSUME IntakeTypeOK, NEW m
  PROVE  IsFiniteSet(SentWith(m)) /\ Cardinality(SentWith(m)) \in Nat
<1>1. Len(sent) \in Nat
  BY DEF IntakeTypeOK
<1>2. IsFiniteSet(1..Len(sent)) /\ SentWith(m) \subseteq 1..Len(sent)
  BY <1>1, FS_Interval DEF SentWith
<1> QED
  BY <1>2, FS_Subset, FS_CardinalityType

\* What run_intake does for the mail the agent is at.
LEMMA Intake ==
  ASSUME IntakeTypeOK, run_intake
  PROVE  \E found \in SUBSET Facts : \E k \in Addresses :
           LET inquiry == [facts |-> open[k].facts \union found,
                           from |-> open[k].from \union {Current}]
           IN /\ k = inquiry_key(Current) /\ inquiry \in Inquiries
              /\ \/ /\ inquiry.facts = Facts
                    /\ sent' = Append(sent, [key |-> k, from |-> inquiry.from])
                    /\ open' = [open EXCEPT ![k] = Empty]
                 \/ /\ inquiry.facts # Facts
                    /\ sent' = sent /\ open' = [open EXCEPT ![k] = inquiry]
              /\ told' = [told EXCEPT ![k] = @ \union found]
<1>1. Current \in Arrived
  BY CurrentOfBatch DEF run_intake
<1> DEFINE k == inquiry_key(Current)
<1>2. PICK found \in Extracted(Current) :
        LET inquiry == merge_inquiry(open[k], Current, found) IN
        /\ \/ /\ is_complete(inquiry)
              /\ sent' = Append(sent, [key |-> k, from |-> inquiry.from])
              /\ open' = [open EXCEPT ![k] = Empty]
           \/ /\ ~is_complete(inquiry)
              /\ open' = [open EXCEPT ![k] = inquiry]
              /\ UNCHANGED sent
        /\ told' = [told EXCEPT ![k] = @ \union found]
  BY DEF run_intake
<1>3. k \in Addresses /\ found \in SUBSET Facts
  BY <1>1, LetterAdds
<1> HIDE DEF k
<1>4. open[k] \in Inquiries
  BY <1>3 DEF IntakeTypeOK
<1> DEFINE inquiry == [facts |-> open[k].facts \union found,
                       from |-> open[k].from \union {Current}]
<1>5. inquiry \in Inquiries
  BY <1>1, <1>3, <1>4 DEF Inquiries
<1>6. inquiry = merge_inquiry(open[k], Current, found)
  BY DEF merge_inquiry
<1>7. /\ \/ /\ inquiry.facts = Facts
            /\ sent' = Append(sent, [key |-> k, from |-> inquiry.from])
            /\ open' = [open EXCEPT ![k] = Empty]
         \/ /\ inquiry.facts # Facts
            /\ sent' = sent /\ open' = [open EXCEPT ![k] = inquiry]
      /\ told' = [told EXCEPT ![k] = @ \union found]
  BY <1>2, <1>6 DEF is_complete
<1>8. k = inquiry_key(Current)
  BY DEF k
<1> HIDE DEF inquiry
<1> QED
  BY <1>3, <1>5, <1>7, <1>8 DEF inquiry

\* The mailbox's invariant holds of an empty one.
LEMMA IntakeInitInv == IntakeInit => IntakeInv
<1> SUFFICES ASSUME IntakeInit PROVE IntakeInv
  OBVIOUS
<1>1. IntakeTypeOK
  BY IntakeAssumption DEF IntakeInit, IntakeTypeOK, Arrived, Inquiries, SentInquiries, Empty
<1>2. RowOnce
  BY DEF IntakeInit, RowOnce
<1>3. UsedOnce
  <2>1. \A m : SentWith(m) = {} /\ ~InOpen(m)
    BY DEF IntakeInit, SentWith, InOpen, Empty
  <2>2. \A m : Uses(m) = 0
    BY <2>1, FS_EmptySet DEF Uses
  <2> QED
    BY <2>2 DEF IntakeInit, UsedOnce
<1>4. OneAddress /\ MadeOrBroken /\ ToldIsKnown /\ OpenIsIncomplete
  BY IntakeAssumption
  DEF IntakeInit, OneAddress, MadeOrBroken, ToldIsKnown, OpenIsIncomplete, Empty
<1> QED
  BY <1>1, <1>2, <1>3, <1>4 DEF IntakeInv

\* The types survive every step.
LEMMA IntakeTypeStep == IntakeTypeOK /\ [IntakeNext]_intakeVars => IntakeTypeOK'
<1> SUFFICES ASSUME IntakeTypeOK, [IntakeNext]_intakeVars PROVE IntakeTypeOK'
  OBVIOUS
<1> USE DEF server, memory, channel, database, tally
<1>1. ASSUME NEW l \in Letters, Arrive(l) PROVE IntakeTypeOK'
  <2>1. mail' = Append(mail, l) /\ Len(mail) < MaxLetters
    BY <1>1 DEF Arrive
  <2>2. mail' \in Seq(Letters) /\ Len(mail') = Len(mail) + 1 /\ Len(mail) \in Nat
    BY <2>1 DEF IntakeTypeOK
  <2>3. Len(mail') <= MaxLetters
    BY <2>1, <2>2, IntakeAssumption
  <2>4. Arrived \subseteq Arrived'
    BY <2>2 DEF Arrived
  <2>5. Inquiries \subseteq Inquiries' /\ SentInquiries \subseteq SentInquiries'
    BY <2>4 DEF Inquiries, SentInquiries
  <2>6. sent \in Seq(SentInquiries')
    BY <2>5 DEF IntakeTypeOK
  <2>7. open \in [Addresses -> Inquiries']
    BY <2>5 DEF IntakeTypeOK
  <2>8. UNCHANGED <<seen, batch, pc, open, sent, taken, rows, again, told>>
    BY <1>1 DEF Arrive
  <2> QED
    BY <2>2, <2>3, <2>4, <2>6, <2>7, <2>8 DEF IntakeTypeOK
<1>2. ASSUME UNCHANGED mail PROVE UNCHANGED <<Arrived, Inquiries, SentInquiries>>
  BY <1>2 DEF Arrived, Inquiries, SentInquiries
<1>3. CASE fetch_unread
  <2>1. UNCHANGED <<mail, open, sent, taken, rows, again, told>>
    BY <1>3 DEF fetch_unread
  <2>2. /\ seen' \subseteq Arrived /\ batch' \subseteq Arrived \ seen'
        /\ pc' = IF batch' = {} THEN "poll" ELSE "store"
    <3>1. PICK lost \in SUBSET OldestUnseen :
            /\ batch' = {m \in OldestUnseen \ lost : Readable(m)}
            /\ seen' = seen \union {m \in OldestUnseen \ lost : ~Readable(m)}
      BY <1>3 DEF fetch_unread
    <3>2. OldestUnseen \subseteq Arrived \ seen
      BY DEF OldestUnseen, Unseen
    <3>3. pc' = IF batch' = {} THEN "poll" ELSE "store"
      BY <1>3 DEF fetch_unread
    <3> QED
      BY <3>1, <3>2, <3>3 DEF IntakeTypeOK
  <2> QED
    BY <1>2, <2>1, <2>2 DEF IntakeTypeOK
<1>4. CASE store_inbound_email
  <2>1. UNCHANGED <<mail, seen, batch, open, sent, taken, again, told>> /\ pc = "store"
        /\ pc' = "answer"
    BY <1>4 DEF store_inbound_email
  <2>2. Current \in Numbers
    BY <2>1, CurrentOfBatch
  <2>3. rows' = rows \/ rows' = [rows EXCEPT ![Current] = @ + 1]
    BY <1>4 DEF store_inbound_email
  <2>4. rows' \in [Numbers -> Nat]
    BY <2>2, <2>3 DEF IntakeTypeOK
  <2> QED
    BY <1>2, <2>1, <2>4 DEF IntakeTypeOK
<1>5. CASE run_intake
  <2>1. /\ UNCHANGED <<mail, seen, batch, taken, rows, again>>
        /\ pc = "answer" /\ pc' = "flag"
    BY <1>5 DEF run_intake
  <2>2. PICK found \in SUBSET Facts, k \in Addresses, inquiry \in Inquiries :
          /\ \/ /\ sent' = Append(sent, [key |-> k, from |-> inquiry.from])
                /\ open' = [open EXCEPT ![k] = Empty]
             \/ sent' = sent /\ open' = [open EXCEPT ![k] = inquiry]
          /\ told' = [told EXCEPT ![k] = @ \union found]
    BY <1>5, Intake
  <2>3. Empty \in Inquiries /\ [key |-> k, from |-> inquiry.from] \in SentInquiries
    BY DEF Empty, Inquiries, SentInquiries
  <2>4. open' \in [Addresses -> Inquiries]
    BY <2>2, <2>3 DEF IntakeTypeOK
  <2>5. sent' \in Seq(SentInquiries) /\ taken \in 0..Len(sent')
    <3>1. CASE sent' = sent
      BY <3>1 DEF IntakeTypeOK
    <3>2. CASE sent' = Append(sent, [key |-> k, from |-> inquiry.from])
      <4>1. sent \in Seq(SentInquiries) /\ taken \in 0..Len(sent) /\ Len(sent) \in Nat
        BY DEF IntakeTypeOK
      <4>2. sent' \in Seq(SentInquiries) /\ Len(sent') = Len(sent) + 1
        BY <2>3, <3>2, <4>1
      <4> QED
        BY <4>1, <4>2
    <3> QED
      BY <2>2, <3>1, <3>2
  <2>6. told' \in [Addresses -> SUBSET Facts]
    BY <2>2 DEF IntakeTypeOK
  <2> QED
    BY <1>2, <2>1, <2>4, <2>5, <2>6 DEF IntakeTypeOK
<1>6. CASE Answered
  BY <1>2, <1>6 DEF Answered, IntakeTypeOK
<1>7. CASE mark_uid_as_read
  <2>1. /\ UNCHANGED <<mail, open, sent, taken, rows, told>> /\ pc = "flag"
        /\ pc' = IF batch' = {} THEN "poll" ELSE "store"
        /\ batch' = batch \ {Current}
        /\ \/ seen' = seen \union {Current} /\ again' = again
           \/ seen' = seen /\ again' = [again EXCEPT ![Current] = @ + 1]
    BY <1>7 DEF mark_uid_as_read
  <2>2. Current \in Numbers /\ Current \in Arrived
    BY <2>1, CurrentOfBatch
  <2>3. seen' \subseteq Arrived /\ batch' \subseteq Arrived \ seen'
    BY <2>1, <2>2 DEF IntakeTypeOK
  <2>4. again' \in [Numbers -> Nat]
    <3>1. again \in [Numbers -> Nat]
      BY DEF IntakeTypeOK
    <3>2. again' = again \/ again' = [again EXCEPT ![Current] = @ + 1]
      BY <2>1
    <3> QED
      BY <2>2, <3>1, <3>2
  <2> QED
    BY <1>2, <2>1, <2>3, <2>4 DEF IntakeTypeOK
<1>8. CASE handle_complete_inquiry
  <2>1. /\ UNCHANGED <<mail, seen, batch, pc, open, sent, rows, told, again>>
        /\ taken < Len(sent) /\ taken' = taken + 1
    BY <1>8 DEF handle_complete_inquiry
  <2>2. taken' \in 0..Len(sent)
    BY <2>1 DEF IntakeTypeOK
  <2> QED
    BY <1>2, <2>1, <2>2 DEF IntakeTypeOK
<1>9. CASE AgentRestarts
  <2>1. /\ UNCHANGED <<mail, seen, sent, rows, told>>
        /\ batch' = {} /\ pc' = "poll" /\ taken' = Len(sent)
        /\ open' = [k \in Addresses |-> Empty]
        /\ again' = IF pc \in {"answer", "flag"} THEN [again EXCEPT ![Current] = @ + 1] ELSE again
    BY <1>9 DEF AgentRestarts
  <2>2. again' \in [Numbers -> Nat]
    <3>1. pc # "poll" => Current \in Numbers
      BY CurrentOfBatch
    <3>2. again \in [Numbers -> Nat]
      BY DEF IntakeTypeOK
    <3>3. again' = again \/ (Current \in Numbers /\ again' = [again EXCEPT ![Current] = @ + 1])
      BY <2>1, <3>1
    <3> QED
      BY <3>2, <3>3
  <2>3. Empty \in Inquiries
    BY DEF Empty, Inquiries
  <2>4. taken' \in 0..Len(sent)
    BY <2>1 DEF IntakeTypeOK
  <2> QED
    BY <1>2, <2>1, <2>2, <2>3, <2>4 DEF IntakeTypeOK
<1>10. CASE UNCHANGED intakeVars
  BY <1>2, <1>10 DEF intakeVars, IntakeTypeOK
<1> QED
  BY <1>1, <1>3, <1>4, <1>5, <1>6, <1>7, <1>8, <1>9, <1>10
  DEF IntakeNext, process_incoming_email

\* One row for a pass.
LEMMA RowStep ==
  IntakeTypeOK /\ RowOnce /\ [IntakeNext]_intakeVars => RowOnce'
<1> SUFFICES ASSUME IntakeTypeOK, RowOnce, [IntakeNext]_intakeVars,
                    NEW m \in Numbers
             PROVE  rows'[m] <= again'[m] + 1 /\ (~Kept(m)' => rows'[m] <= again'[m])
  BY DEF RowOnce
<1> USE DEF server, memory, channel, database, tally
<1>0. /\ rows[m] \in Nat /\ again[m] \in Nat
      /\ rows[m] <= again[m] + 1 /\ (~Kept(m) => rows[m] <= again[m])
  BY DEF IntakeTypeOK, RowOnce
<1>1. ASSUME UNCHANGED <<rows, again>>, Kept(m) => Kept(m)'
      PROVE  rows'[m] <= again'[m] + 1 /\ (~Kept(m)' => rows'[m] <= again'[m])
  BY <1>0, <1>1
<1>2. ASSUME UNCHANGED batch PROVE Current' = Current
  BY <1>2 DEF Current
<1>3. CASE \/ \E l \in Letters : Arrive(l)
           \/ run_intake \/ Answered \/ handle_complete_inquiry \/ UNCHANGED intakeVars
  <2>1. /\ UNCHANGED <<rows, again, batch, seen>>
        /\ pc' = pc \/ (pc = "answer" /\ pc' = "flag")
    BY <1>3 DEF Arrive, run_intake, Answered, handle_complete_inquiry, intakeVars
  <2> QED
    BY <1>1, <1>2, <2>1 DEF Kept
<1>4. CASE fetch_unread
  <2>1. UNCHANGED <<rows, again>> /\ pc = "poll" /\ seen \subseteq seen'
    BY <1>4 DEF fetch_unread
  <2> QED
    BY <1>1, <2>1 DEF Kept
<1>5. CASE store_inbound_email
  <2>1. /\ UNCHANGED <<batch, seen, again>> /\ pc = "store" /\ pc' = "answer"
        /\ rows' = rows \/ rows' = [rows EXCEPT ![Current] = @ + 1]
    BY <1>5 DEF store_inbound_email
  <2>2. Current \in Numbers /\ ~Kept(Current) /\ (m = Current => Kept(m)')
    BY <1>2, <2>1, CurrentOfBatch DEF Kept
  <2>3. rows \in [Numbers -> Nat]
    BY DEF IntakeTypeOK
  <2>4. CASE m = Current
    <3>1. rows'[m] <= rows[m] + 1 /\ rows[m] <= again[m] /\ rows'[m] \in Nat
      BY <1>0, <2>1, <2>2, <2>3, <2>4
    <3> QED
      BY <1>0, <2>1, <2>2, <2>4, <3>1
  <2>5. CASE m # Current
    <3>1. rows'[m] = rows[m] /\ again'[m] = again[m] /\ (Kept(m) => Kept(m)')
      BY <1>2, <2>1, <2>3, <2>5 DEF Kept
    <3> QED
      BY <1>0, <3>1
  <2> QED
    BY <2>4, <2>5
<1>6. CASE mark_uid_as_read \/ AgentRestarts
  <2>1. /\ rows' = rows /\ seen \subseteq seen'
        /\ again' = again \/ again' = [again EXCEPT ![Current] = @ + 1]
        /\ pc \in {"answer", "flag"} => Current \in seen' \/ again'[Current] = again[Current] + 1
    <3>1. again \in [Numbers -> Nat] /\ (pc # "poll" => Current \in Numbers)
      BY CurrentOfBatch DEF IntakeTypeOK
    <3>2. CASE mark_uid_as_read
      BY <3>1, <3>2 DEF mark_uid_as_read
    <3>3. CASE AgentRestarts
      BY <3>1, <3>3 DEF AgentRestarts
    <3> QED
      BY <1>6, <3>2, <3>3
  <2>2. again'[m] \in Nat /\ again[m] <= again'[m]
    <3>1. again \in [Numbers -> Nat]
      BY DEF IntakeTypeOK
    <3>2. again'[m] = again[m] \/ again'[m] = again[m] + 1
      BY <2>1, <3>1
    <3> QED
      BY <1>0, <3>2
  <2>3. ~Kept(m)' => m \notin seen'
    BY DEF Kept
  <2>4. CASE Kept(m) /\ m \notin seen'
    <3>1. m = Current /\ pc \in {"answer", "flag"}
      BY <2>1, <2>4 DEF Kept
    <3> QED
      BY <1>0, <2>1, <2>2, <2>4, <3>1
  <2> QED
    BY <1>0, <2>1, <2>2, <2>3, <2>4
<1> QED
  BY <1>3, <1>4, <1>5, <1>6 DEF IntakeNext, process_incoming_email

\* A step that leaves the inquiries alone leaves the uses of every mail.
LEMMA SameUses ==
  ASSUME UNCHANGED <<open, sent>>, NEW m PROVE Uses(m)' = Uses(m)
BY DEF Uses, SentWith, InOpen

\* What run_intake adds to the uses of a mail.
LEMMA IntakeUses ==
  ASSUME IntakeTypeOK, OneAddress, run_intake, NEW m \in Numbers
  PROVE  Uses(m)' <= Uses(m) + (IF m = Current THEN 1 ELSE 0) /\ Uses(m)' \in Nat
<1>1. PICK found \in SUBSET Facts, k \in Addresses :
        LET inquiry == [facts |-> open[k].facts \union found,
                        from |-> open[k].from \union {Current}]
        IN /\ k = inquiry_key(Current) /\ inquiry \in Inquiries
           /\ \/ /\ inquiry.facts = Facts
                 /\ sent' = Append(sent, [key |-> k, from |-> inquiry.from])
                 /\ open' = [open EXCEPT ![k] = Empty]
              \/ /\ inquiry.facts # Facts
                 /\ sent' = sent /\ open' = [open EXCEPT ![k] = inquiry]
  BY Intake
<1> DEFINE from == open[k].from \union {Current}
<1>2. /\ open \in [Addresses -> Inquiries] /\ sent \in Seq(SentInquiries)
      /\ Len(sent) \in Nat /\ from \subseteq Arrived
  BY <1>1 DEF IntakeTypeOK, Inquiries
<1>3. IsFiniteSet(SentWith(m)) /\ Cardinality(SentWith(m)) \in Nat
  BY SentCounted
<1>4. CASE /\ sent' = sent
           /\ \E facts : open' = [open EXCEPT ![k] = [facts |-> facts, from |-> from]]
  <2>1. SentWith(m)' = SentWith(m)
    BY <1>4 DEF SentWith
  <2>2. m # Current /\ InOpen(m)' => InOpen(m)
    <3>1. SUFFICES ASSUME m # Current, NEW j \in Addresses, m \in open'[j].from
                   PROVE  m \in open[j].from
      BY DEF InOpen
    <3> QED
      BY <1>2, <1>4, <3>1
  <2> QED
    BY <1>3, <2>1, <2>2 DEF Uses
<1>5. CASE /\ sent' = Append(sent, [key |-> k, from |-> from])
           /\ open' = [open EXCEPT ![k] = Empty]
  <2>1. /\ Len(sent') = Len(sent) + 1 /\ sent'[Len(sent) + 1].from = from
        /\ \A i \in 1..Len(sent) : sent'[i] = sent[i]
    BY <1>2, <1>5
  <2>2. SentWith(m)' = SentWith(m) \union (IF m \in from THEN {Len(sent) + 1} ELSE {})
    <3>1. \A i : i \in 1..Len(sent') <=> i \in 1..Len(sent) \/ i = Len(sent) + 1
      BY <1>2, <2>1
    <3> QED
      BY <2>1, <3>1 DEF SentWith
  <2>3. Len(sent) + 1 \notin SentWith(m)
    BY <1>2 DEF SentWith
  <2>4. Cardinality(SentWith(m)') = Cardinality(SentWith(m)) + (IF m \in from THEN 1 ELSE 0)
    <3>1. CASE m \in from
      BY <1>3, <2>2, <2>3, <3>1, FS_AddElement
    <3>2. CASE m \notin from
      BY <1>3, <2>2, <3>2
    <3> QED
      BY <3>1, <3>2
  <2>5. InOpen(m)' => InOpen(m) /\ m \notin from
    <3>1. SUFFICES ASSUME NEW j \in Addresses, m \in open'[j].from
                   PROVE  m \in open[j].from /\ m \notin from
      BY DEF InOpen
    <3>2. j # k /\ m \in open[j].from
      BY <1>2, <1>5, <3>1 DEF Empty
    <3>3. inquiry_key(m) = j
      BY <3>2 DEF OneAddress
    <3>4. m # Current /\ m \notin open[k].from
      BY <1>1, <3>2, <3>3 DEF OneAddress
    <3> QED
      BY <3>2, <3>4
  <2>6. m \in from /\ m # Current => InOpen(m)
    BY DEF InOpen
  <2>7. Uses(m)' = Cardinality(SentWith(m)') + (IF InOpen(m)' THEN 1 ELSE 0)
    BY DEF Uses
  <2> QED
    BY <1>3, <2>4, <2>5, <2>6, <2>7 DEF Uses
<1> QED
  BY <1>1, <1>4, <1>5

\* One use for a pass.
LEMMA UseStep ==
  IntakeTypeOK /\ OneAddress /\ UsedOnce /\ [IntakeNext]_intakeVars => UsedOnce'
<1> SUFFICES ASSUME IntakeTypeOK, OneAddress, UsedOnce, [IntakeNext]_intakeVars,
                    NEW m \in Numbers
             PROVE  Uses(m)' <= again'[m] + 1 /\ (~Merged(m)' => Uses(m)' <= again'[m])
  BY DEF UsedOnce
<1> USE DEF server, memory, channel, database, tally
<1>0. /\ Uses(m) \in Nat /\ again[m] \in Nat
      /\ Uses(m) <= again[m] + 1 /\ (~Merged(m) => Uses(m) <= again[m])
  BY SentCounted DEF IntakeTypeOK, UsedOnce, Uses
<1>1. ASSUME UNCHANGED <<open, sent, again>>, Merged(m) => Merged(m)'
      PROVE  Uses(m)' <= again'[m] + 1 /\ (~Merged(m)' => Uses(m)' <= again'[m])
  BY <1>0, <1>1, SameUses
<1>2. ASSUME UNCHANGED batch PROVE Current' = Current
  BY <1>2 DEF Current
<1>3. CASE \/ \E l \in Letters : Arrive(l)
           \/ Answered \/ store_inbound_email \/ handle_complete_inquiry
           \/ UNCHANGED intakeVars
  <2>1. /\ UNCHANGED <<open, sent, again, batch, seen>>
        /\ pc # "flag" \/ pc' = pc
    BY <1>3 DEF Arrive, Answered, store_inbound_email, handle_complete_inquiry, intakeVars
  <2> QED
    BY <1>1, <1>2, <2>1 DEF Merged
<1>4. CASE fetch_unread
  <2>1. UNCHANGED <<open, sent, again>> /\ pc = "poll" /\ seen \subseteq seen'
    BY <1>4 DEF fetch_unread
  <2> QED
    BY <1>1, <2>1 DEF Merged
<1>5. CASE run_intake
  <2>1. UNCHANGED <<batch, seen, again>> /\ pc = "answer" /\ pc' = "flag"
    BY <1>5 DEF run_intake
  <2>2. Uses(m)' <= Uses(m) + (IF m = Current THEN 1 ELSE 0) /\ Uses(m)' \in Nat
    BY <1>5, IntakeUses
  <2>3. CASE m = Current
    <3>1. ~Merged(m) /\ Merged(m)'
      BY <1>2, <2>1, <2>3, CurrentOfBatch DEF Merged
    <3> QED
      BY <1>0, <2>1, <2>2, <2>3, <3>1
  <2>4. CASE m # Current
    <3>1. Merged(m)' <=> Merged(m)
      BY <1>2, <2>1, <2>4 DEF Merged
    <3> QED
      BY <1>0, <2>1, <2>2, <2>4, <3>1
  <2> QED
    BY <2>3, <2>4
<1>6. CASE mark_uid_as_read \/ AgentRestarts
  <2>1. /\ sent' = sent /\ seen \subseteq seen'
        /\ open' = open \/ open' = [k \in Addresses |-> Empty]
        /\ again' = again \/ again' = [again EXCEPT ![Current] = @ + 1]
        /\ pc = "flag" => Current \in seen' \/ again'[Current] = again[Current] + 1
    <3>1. again \in [Numbers -> Nat] /\ (pc # "poll" => Current \in Numbers)
      BY CurrentOfBatch DEF IntakeTypeOK
    <3>2. CASE mark_uid_as_read
      BY <3>1, <3>2 DEF mark_uid_as_read
    <3>3. CASE AgentRestarts
      BY <3>1, <3>3 DEF AgentRestarts
    <3> QED
      BY <1>6, <3>2, <3>3
  <2>2. again'[m] \in Nat /\ again[m] <= again'[m]
    <3>1. again \in [Numbers -> Nat]
      BY DEF IntakeTypeOK
    <3>2. again'[m] = again[m] \/ again'[m] = again[m] + 1
      BY <2>1, <3>1
    <3> QED
      BY <1>0, <3>2
  <2>3. Uses(m)' \in Nat /\ Uses(m)' <= Uses(m)
    <3>1. SentWith(m)' = SentWith(m)
      BY <2>1 DEF SentWith
    <3>2. InOpen(m)' => InOpen(m)
      BY <2>1 DEF InOpen, Empty
    <3>3. Cardinality(SentWith(m)) \in Nat
      BY SentCounted
    <3>4. Uses(m)' = Cardinality(SentWith(m)') + (IF InOpen(m)' THEN 1 ELSE 0)
      BY DEF Uses
    <3> QED
      BY <3>1, <3>2, <3>3, <3>4 DEF Uses
  <2>4. ~Merged(m)' => m \notin seen'
    BY DEF Merged
  <2>5. CASE Merged(m) /\ m \notin seen'
    <3>1. m = Current /\ pc = "flag"
      BY <2>1, <2>5 DEF Merged
    <3> QED
      BY <1>0, <2>1, <2>2, <2>3, <2>5, <3>1
  <2> QED
    BY <1>0, <2>2, <2>3, <2>4, <2>5
<1> QED
  BY <1>3, <1>4, <1>5, <1>6 DEF IntakeNext, process_incoming_email

\* The mails of an inquiry keep its address.
LEMMA AddressStep ==
  IntakeTypeOK /\ OneAddress /\ [IntakeNext]_intakeVars => OneAddress'
<1> SUFFICES ASSUME IntakeTypeOK, OneAddress, [IntakeNext]_intakeVars PROVE OneAddress'
  OBVIOUS
<1> USE DEF server, memory, channel, database, tally
<1>1. ASSUME NEW m \in Arrived PROVE inquiry_key(m)' = inquiry_key(m)
  <2>1. mail'[m] = mail[m]
    <3>1. ASSUME NEW l \in Letters, Arrive(l) PROVE mail'[m] = mail[m]
      BY <3>1 DEF Arrive, IntakeTypeOK, Arrived
    <3>2. CASE ~(\E l \in Letters : Arrive(l))
      BY <3>2 DEF IntakeNext, fetch_unread, process_incoming_email, store_inbound_email,
         run_intake, Answered, mark_uid_as_read, handle_complete_inquiry, AgentRestarts,
         intakeVars
    <3> QED
      BY <3>1, <3>2
  <2> QED
    BY <2>1 DEF inquiry_key
<1>2. /\ open \in [Addresses -> Inquiries] /\ sent \in Seq(SentInquiries) /\ Len(sent) \in Nat
      /\ \A k \in Addresses : open[k].from \subseteq Arrived
      /\ \A i \in 1..Len(sent) : sent[i].from \subseteq Arrived
  <2>1. open \in [Addresses -> Inquiries] /\ sent \in Seq(SentInquiries) /\ Len(sent) \in Nat
    BY DEF IntakeTypeOK
  <2>2. \A i \in 1..Len(sent) : sent[i] \in SentInquiries
    BY <2>1
  <2> QED
    BY <2>1, <2>2 DEF Inquiries, SentInquiries
<1>3. CASE run_intake
  <2>1. PICK found \in SUBSET Facts, k \in Addresses :
          LET inquiry == [facts |-> open[k].facts \union found,
                          from |-> open[k].from \union {Current}]
          IN /\ k = inquiry_key(Current) /\ inquiry \in Inquiries
             /\ \/ /\ inquiry.facts = Facts
                   /\ sent' = Append(sent, [key |-> k, from |-> inquiry.from])
                   /\ open' = [open EXCEPT ![k] = Empty]
                \/ /\ inquiry.facts # Facts
                   /\ sent' = sent /\ open' = [open EXCEPT ![k] = inquiry]
    BY <1>3, Intake
  <2> DEFINE from == open[k].from \union {Current}
  <2>2. from \subseteq Arrived /\ \A m \in from : inquiry_key(m)' = k
    <3>1. Current \in Arrived
      BY <1>3, CurrentOfBatch DEF run_intake
    <3> QED
      BY <1>1, <1>2, <2>1, <3>1 DEF OneAddress
  <2>3. ASSUME NEW j \in Addresses, NEW m \in open'[j].from PROVE inquiry_key(m)' = j
    <3>1. CASE j = k
      BY <1>2, <2>1, <2>2, <3>1 DEF Empty
    <3>2. CASE j # k
      <4>1. m \in open[j].from
        BY <1>2, <2>1, <3>2
      <4> QED
        BY <1>1, <1>2, <4>1 DEF OneAddress
    <3> QED
      BY <3>1, <3>2
  <2>4. ASSUME NEW i \in 1..Len(sent'), NEW m \in sent'[i].from
        PROVE  inquiry_key(m)' = sent'[i].key
    <3>1. CASE sent' = sent
      BY <1>1, <1>2, <2>4, <3>1 DEF OneAddress
    <3>2. CASE sent' = Append(sent, [key |-> k, from |-> from])
      <4>1. /\ i \in 1..Len(sent) \/ i = Len(sent) + 1
            /\ sent'[Len(sent) + 1] = [key |-> k, from |-> from]
            /\ \A j \in 1..Len(sent) : sent'[j] = sent[j]
        BY <1>2, <3>2
      <4>2. CASE i = Len(sent) + 1
        BY <2>2, <2>4, <4>1, <4>2
      <4>3. CASE i \in 1..Len(sent)
        BY <1>1, <1>2, <2>4, <4>1, <4>3 DEF OneAddress
      <4> QED
        BY <4>1, <4>2, <4>3
    <3> QED
      BY <2>1, <3>1, <3>2
  <2> QED
    BY <2>3, <2>4 DEF OneAddress
<1>4. CASE ~run_intake
  <2>1. sent' = sent /\ (open' = open \/ open' = [k \in Addresses |-> Empty])
    BY <1>4 DEF IntakeNext, Arrive, fetch_unread, process_incoming_email, store_inbound_email,
       Answered, mark_uid_as_read, handle_complete_inquiry, AgentRestarts, intakeVars
  <2>2. \A k \in Addresses : \A m \in open'[k].from : m \in open[k].from
    BY <2>1 DEF Empty
  <2> QED
    BY <1>1, <1>2, <2>1, <2>2 DEF OneAddress
<1> QED
  BY <1>3, <1>4

\* What was told stays known, until it is sent, received and written, or lost to a
\* failure or a restart.
LEMMA KnownStep ==
  /\ IntakeTypeOK /\ MadeOrBroken /\ ToldIsKnown /\ OpenIsIncomplete
  /\ [IntakeNext]_intakeVars
  => MadeOrBroken' /\ ToldIsKnown' /\ OpenIsIncomplete'
<1> SUFFICES ASSUME IntakeTypeOK, MadeOrBroken, ToldIsKnown, OpenIsIncomplete,
                    [IntakeNext]_intakeVars
             PROVE  MadeOrBroken' /\ ToldIsKnown' /\ OpenIsIncomplete'
  OBVIOUS
<1> USE DEF server, memory, channel, database, tally
<1>1. /\ open \in [Addresses -> Inquiries] /\ told \in [Addresses -> SUBSET Facts]
      /\ sent \in Seq(SentInquiries) /\ Len(sent) \in Nat /\ taken \in 0..Len(sent)
  BY DEF IntakeTypeOK
<1>2. CASE run_intake
  <2>1. PICK found \in SUBSET Facts, k \in Addresses :
          LET inquiry == [facts |-> open[k].facts \union found,
                          from |-> open[k].from \union {Current}]
          IN /\ inquiry \in Inquiries
             /\ \/ /\ inquiry.facts = Facts
                   /\ sent' = Append(sent, [key |-> k, from |-> inquiry.from])
                   /\ open' = [open EXCEPT ![k] = Empty]
                \/ /\ inquiry.facts # Facts
                   /\ sent' = sent /\ open' = [open EXCEPT ![k] = inquiry]
             /\ told' = [told EXCEPT ![k] = @ \union found]
    BY <1>2, Intake
  <2>2. UNCHANGED <<taken, made, broken>>
    BY <1>2 DEF run_intake
  <2>3. /\ \A i \in 1..Len(sent) : i \in 1..Len(sent') /\ sent'[i] = sent[i]
        /\ sent' # sent => Len(sent') \in 1..Len(sent') /\ sent'[Len(sent')].key = k
    BY <1>1, <2>1
  <2>4. MadeOrBroken'
    BY <1>1, <2>2, <2>3 DEF MadeOrBroken
  <2>5. ASSUME NEW j \in Addresses PROVE open'[j].facts # Facts
    BY <1>1, <2>1, IntakeAssumption DEF OpenIsIncomplete, Empty
  <2>6. ASSUME NEW j \in Addresses \ broken PROVE WasSent(j)' \/ told'[j] = open'[j].facts
    <3>1. WasSent(j) => WasSent(j)'
      BY <2>3 DEF WasSent
    <3>2. j = k /\ sent' # sent => WasSent(j)'
      BY <2>3 DEF WasSent
    <3>3. sent' = sent => open'[k].facts = open[k].facts \union found
      <4>1. \A x \in SentInquiries : Append(sent, x) # sent
        BY <1>1
      <4>2. [key |-> k, from |-> open[k].from \union {Current}] \in SentInquiries
        BY <2>1 DEF Inquiries, SentInquiries
      <4> QED
        BY <1>1, <2>1, <4>1, <4>2
    <3>4. j # k => open'[j] = open[j] /\ told'[j] = told[j]
      BY <1>1, <2>1
    <3>5. told'[k] = told[k] \union found
      BY <1>1, <2>1
    <3>6. WasSent(j) \/ told[j] = open[j].facts
      BY DEF ToldIsKnown
    <3>7. CASE j = k /\ sent' = sent
      BY <3>1, <3>3, <3>5, <3>6, <3>7
    <3>8. CASE j # k
      BY <3>1, <3>4, <3>6, <3>8
    <3> QED
      BY <3>2, <3>7, <3>8
  <2> QED
    BY <2>2, <2>4, <2>5, <2>6 DEF ToldIsKnown, OpenIsIncomplete
<1>3. CASE handle_complete_inquiry
  <2>1. /\ UNCHANGED <<open, sent, told>> /\ taken < Len(sent) /\ taken' = taken + 1
        /\ \/ made' = made \union {taken + 1} /\ broken' = broken
           \/ made' = made /\ broken' = broken \union {sent[taken + 1].key}
    BY <1>3 DEF handle_complete_inquiry
  <2>2. \A i \in 1..taken' : i \in 1..taken \/ i = taken + 1
    BY <1>1, <2>1
  <2>3. MadeOrBroken'
    BY <2>1, <2>2 DEF MadeOrBroken
  <2> QED
    BY <2>1, <2>3 DEF ToldIsKnown, WasSent, OpenIsIncomplete
<1>4. CASE AgentRestarts
  <2>1. /\ UNCHANGED <<sent, told, made>> /\ taken' = Len(sent)
        /\ open' = [k \in Addresses |-> Empty]
        /\ broken' = broken \union {k \in Addresses : open[k] # Empty}
                            \union {sent[i].key : i \in (taken + 1)..Len(sent)}
    BY <1>4 DEF AgentRestarts
  <2>2. \A i \in 1..taken' : i \in 1..taken \/ i \in (taken + 1)..Len(sent)
    BY <1>1, <2>1
  <2>3. MadeOrBroken'
    BY <2>1, <2>2 DEF MadeOrBroken
  <2>4. \A k \in Addresses \ broken' : k \notin broken /\ open[k] = Empty /\ open'[k] = Empty
    BY <2>1
  <2>5. ToldIsKnown'
    BY <2>1, <2>4 DEF ToldIsKnown, WasSent
  <2>6. OpenIsIncomplete'
    BY <2>1, IntakeAssumption DEF OpenIsIncomplete, Empty
  <2> QED
    BY <2>3, <2>5, <2>6
<1>5. CASE ~(run_intake \/ handle_complete_inquiry \/ AgentRestarts)
  <2>1. UNCHANGED <<open, sent, taken, told, made, broken>>
    BY <1>5 DEF IntakeNext, Arrive, fetch_unread, process_incoming_email, store_inbound_email,
       Answered, mark_uid_as_read, intakeVars
  <2> QED
    BY <2>1 DEF MadeOrBroken, ToldIsKnown, WasSent, OpenIsIncomplete
<1> QED
  BY <1>2, <1>3, <1>4, <1>5

LEMMA IntakeInvariance == IntakeSpec => []IntakeInv
<1>1. IntakeInv /\ [IntakeNext]_intakeVars => IntakeInv'
  BY IntakeTypeStep, RowStep, UseStep, AddressStep, KnownStep DEF IntakeInv
<1> QED
  BY <1>1, IntakeInitInv, PTL DEF IntakeSpec

\* However often the polls meet a mail, whatever fails and whenever the process
\* restarts, it has a row and is in an inquiry once for each pass that did not flag
\* it and once more, and no inquiry mixes a writer who gave an address with another.
THEOREM MailsTakenOnce == IntakeSpec => []EachMailOnce
<1>1. ASSUME IntakeInv PROVE EachMailOnce
  <2>1. /\ Arrived \subseteq Numbers
        /\ \A i \in 1..Len(sent) : sent[i].from \subseteq Arrived
    <3>1. Len(mail) \in Nat /\ Len(mail) <= MaxLetters /\ sent \in Seq(SentInquiries)
      BY <1>1 DEF IntakeInv, IntakeTypeOK
    <3>2. \A i \in 1..Len(sent) : sent[i] \in SentInquiries
      BY <3>1
    <3> QED
      BY <3>1, <3>2, IntakeAssumption DEF Arrived, Numbers, SentInquiries
  <2>2. ASSUME NEW m \in Arrived
        PROVE  rows[m] <= 1 + again[m] /\ Cardinality(SentWith(m)) <= 1 + again[m]
    <3>1. /\ m \in Numbers /\ again[m] \in Nat /\ rows[m] \in Nat
          /\ Cardinality(SentWith(m)) \in Nat
      BY <1>1, <2>1, SentCounted DEF IntakeInv, IntakeTypeOK
    <3>2. rows[m] <= again[m] + 1 /\ Uses(m) <= again[m] + 1
      BY <1>1, <3>1 DEF IntakeInv, RowOnce, UsedOnce
    <3> QED
      BY <3>1, <3>2 DEF Uses
  <2>3. ASSUME NEW i \in 1..Len(sent), NEW m \in sent[i].from, NEW n \in sent[i].from,
               mail[m].states
        PROVE  mail[n].writer = mail[m].writer
    <3>1. m \in Arrived /\ n \in Arrived
      BY <2>1
    <3>2. mail[m] \in Letters
      BY <1>1, <3>1 DEF IntakeInv, IntakeTypeOK, Arrived
    <3>3. inquiry_key(n) = inquiry_key(m)
      BY <1>1 DEF IntakeInv, OneAddress
    <3>4. inquiry_key(m) = mail[m].writer /\ mail[m].writer # Office
      BY <2>3, <3>2, IntakeAssumption DEF inquiry_key
    <3> QED
      BY <3>3, <3>4 DEF inquiry_key
  <2> QED
    BY <2>2, <2>3 DEF EachMailOnce, SentWith
<1> QED
  BY <1>1, IntakeInvariance, PTL

\* A customer who told everything has an inquiry once the channel is empty, unless a
\* failure or a restart lost it.
THEOREM CompleteIsMade == IntakeSpec => []CompleteBecomesInquiry
<1>1. ASSUME IntakeInv PROVE CompleteBecomesInquiry
  <2>1. SUFFICES ASSUME taken = Len(sent), NEW k \in Addresses \ broken, told[k] = Facts
                 PROVE  \E i \in made : sent[i].key = k
    BY DEF CompleteBecomesInquiry
  <2>2. PICK i \in 1..Len(sent) : sent[i].key = k
    BY <1>1, <2>1 DEF IntakeInv, ToldIsKnown, OpenIsIncomplete, WasSent
  <2> QED
    BY <1>1, <2>1, <2>2 DEF IntakeInv, MadeOrBroken
<1> QED
  BY <1>1, IntakeInvariance, PTL
=============================================================================
