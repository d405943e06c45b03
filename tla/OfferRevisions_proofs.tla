----------------------- MODULE OfferRevisions_proofs -----------------------
(***************************************************************************)
(* Proofs about OfferRevisions, for any number of revisions and restarts   *)
(* and any choice of faults.                                               *)
(***************************************************************************)
EXTENDS OfferRevisions, FiniteSetTheorems, TLAPS

\* Where a run is and what it works on; an offer is there once its run wrote.
Shape ==
  /\ \A r \in Runs : target[r] # None => status[target[r]] # "none" /\ rpc[r] # "idle"
  /\ \A o \in Runs : status[o] # "none" => rpc[o] = "done" /\ target[o] = None /\ key[o] # None
  /\ \A o \in Runs : status[o] = "none" => num[o] = 0 /\ by[o] = None /\ key[o] = None
  /\ mpc # "idle" => moffer \in Runs /\ status[moffer] # "none"
  /\ cpc # "idle" => coffer \in Runs /\ status[coffer] # "none" /\ cstatus \in {"draft", "sent"}

\* At most one offer is active.
OneActive == \A o, p \in Runs : IsActive(o) /\ IsActive(p) => o = p

\* A drawn number that the counter was not set back over is on one run, or on
\* the one row that took it from there.
Printing(r) == target[r] = None /\ rpc[r] \in {"upload", "write"}
Numbers ==
  /\ \A o \in Runs : num[o] <= drawn \/ num[o] \in reissued
  /\ \A r \in Runs : Printing(r) /\ rnum[r] \notin reissued =>
       rnum[r] <= drawn /\ \A o \in Runs : num[o] # rnum[r]
  /\ \A r, s \in Runs : Printing(r) /\ Printing(s) /\ rnum[r] = rnum[s] => r = s \/ rnum[r] \in reissued
  /\ NumbersDistinct

\* A key is the row's own or that of a run that inserted no row.
Keys ==
  \A o \in Runs : key[o] \notin {None, o} =>
    status[key[o]] = "none" /\ rpc[key[o]] = "done" /\ target[key[o]] = None

\* A run without a target is alone with the document it uploaded.
OwnDocument ==
  \A r \in Runs : target[r] = None /\ rpc[r] = "write" => fnum[r] = rnum[r] /\ fby[r] = r

\* An offer whose revisions in place never met another.
Single(o) ==
  /\ \A r \in Revising(o) : rnum[r] = num[o]
  /\ \A r \in Halfway(o) : fnum[o] = num[o] /\ fby[o] = r
  /\ Halfway(o) = {} => fnum[key[o]] = num[o] /\ fby[key[o]] = by[o]
Documented == \A o \in Runs \ overlapped : status[o] # "none" => Single(o)

\* The inductive invariant of the documents.
IInv == TypeOK /\ Shape /\ OneActive /\ Numbers /\ Keys /\ OwnDocument /\ Documented

\* The invariant holds of no offer.
LEMMA InitInv == Init => IInv
<1> SUFFICES ASSUME Init PROVE IInv
  OBVIOUS
<1> USE RevisionsAssumption, NoneAssumption DEF Init
<1>1. TypeOK
  BY DEF TypeOK, Statuses, Documents, Nothing
<1>2. Shape /\ OneActive /\ Numbers /\ Keys /\ OwnDocument /\ Documented
  BY DEF Shape, OneActive, IsActive, Numbers, Printing, NumbersDistinct, Keys, OwnDocument, Documented
<1> QED
  BY <1>1, <1>2 DEF IInv

\* Every step keeps the types.
LEMMA TypeStep == TypeOK /\ Shape /\ [Next]_vars => TypeOK'
<1> SUFFICES ASSUME TypeOK, Shape, [Next]_vars PROVE TypeOK'
  OBVIOUS
<1> USE RevisionsAssumption, NoneAssumption
        DEF TypeOK, Shape, Statuses, Documents, GotoR, Meets, Races, MailEnds, AnswerEnds, GotoM,
            rows, files, counter, revisions, mail, answer, history
<1>1. ASSUME NEW r \in Runs, next_offer_number(r) PROVE TypeOK'
  BY <1>1 DEF next_offer_number
<1>0. ASSUME NEW n \in 1..MaxSet, set_next_offer(n) PROVE TypeOK'
  BY <1>0 DEF set_next_offer
<1>2. ASSUME NEW r \in Runs, NEW o \in Runs, fetch_offer_number(r, o) PROVE TypeOK'
  BY <1>2 DEF fetch_offer_number
<1>3. ASSUME NEW r \in Runs, Upload(r) \/ UploadFails(r) PROVE TypeOK'
  <2>1. CASE Upload(r)
    BY <2>1 DEF Upload
  <2>2. CASE UploadFails(r)
    BY <2>2 DEF UploadFails
  <2> QED
    BY <1>3, <2>1, <2>2
<1>4. ASSUME NEW r \in Runs, update_returning(r) PROVE TypeOK'
  BY <1>4 DEF update_returning
<1>5. ASSUME NEW r \in Runs, insert_or_adopt(r) PROVE TypeOK'
  BY <1>5 DEF insert_or_adopt, Active
<1>6. ASSUME NEW r \in Runs, WriteFails(r) PROVE TypeOK'
  BY <1>6 DEF WriteFails
<1>7. ASSUME NEW o \in Runs, fetch_draft_for_send(o) \/ fetch_active_offer_with_status(o) PROVE TypeOK'
  <2>1. CASE fetch_draft_for_send(o)
    BY <2>1 DEF fetch_draft_for_send
  <2>2. CASE fetch_active_offer_with_status(o)
    BY <2>2 DEF fetch_active_offer_with_status
  <2> QED
    BY <1>7, <2>1, <2>2
<1>8. ASSUME NEW o \in Runs, mark_offer_accepted(o) \/ handle_offer_denial(o) PROVE TypeOK'
  <2>1. CASE mark_offer_accepted(o)
    <3>1. agreed' \in [Runs -> Statuses]
      BY <2>1 DEF mark_offer_accepted
    <3> QED
      BY <2>1, <3>1 DEF mark_offer_accepted
  <2>2. CASE handle_offer_denial(o)
    BY <2>2 DEF handle_offer_denial
  <2> QED
    BY <1>8, <2>1, <2>2
<1>9. CASE Download
  <2>1. moffer \in Runs /\ key[moffer] \in Runs
    BY <1>9 DEF Download
  <2> QED
    BY <1>9, <2>1 DEF Download
<1>10. CASE send_email \/ mark_offer_sent
  <2>1. moffer \in Runs
    BY <1>10 DEF send_email, mark_offer_sent
  <2>2. CASE send_email
    <3>1. \/ mailed' = [mailed EXCEPT ![moffer] = mdoc]
          \/ mailed' = mailed
      BY <2>2 DEF send_email
    <3>2. PICK D : D = [num : Nat, by : Runs \union {None}]
      OBVIOUS
    <3>3. mailed \in [Runs -> D] /\ mdoc \in D
      BY ONLY TypeOK, <3>2 DEF TypeOK, Documents
    <3>4. mailed' \in [Runs -> D]
      BY ONLY <2>1, <3>1, <3>3
    <3>5. mailed' \in [Runs -> [num : Nat, by : Runs \union {None}]]
      BY ONLY <3>2, <3>4
    <3> QED
      BY <2>2, <3>5 DEF send_email
  <2>3. CASE mark_offer_sent
    BY <2>1, <2>3 DEF mark_offer_sent
  <2> QED
    BY <1>10, <2>2, <2>3
<1>11. CASE accept_inquiry \/ reject_inquiry
  <2>1. CASE accept_inquiry
    BY <2>1 DEF accept_inquiry
  <2>2. CASE reject_inquiry
    BY <2>2 DEF reject_inquiry
  <2> QED
    BY <1>11, <2>1, <2>2
<1>12. CASE Restart
  BY <1>12 DEF Restart
<1>13. CASE UNCHANGED vars
  BY <1>13 DEF vars
<1> QED
  BY <1>0, <1>1, <1>2, <1>3, <1>4, <1>5, <1>6, <1>7, <1>8, <1>9, <1>10, <1>11, <1>12, <1>13 DEF Next, Revise

\* Every step keeps the documents in order.
LEMMA DocumentsStep == IInv /\ [Next]_vars => (Shape /\ OneActive /\ Numbers /\ Keys /\ OwnDocument /\ Documented)'
<1> DEFINE Good == Shape /\ OneActive /\ Numbers /\ Keys /\ OwnDocument /\ Documented
<1> SUFFICES ASSUME IInv, [Next]_vars PROVE Good'
  OBVIOUS
<1> USE RevisionsAssumption, NoneAssumption
        DEF IInv, TypeOK, Shape, OneActive, IsActive, Admitted, Active, Numbers, Printing, NumbersDistinct, Keys,
            OwnDocument, Documented, Single, Revising, Halfway, Statuses,
            GotoR, Meets, MailEnds, AnswerEnds, GotoM, rows, files, counter, revisions, mail, answer, history
<1>1. ASSUME NEW r \in Runs, next_offer_number(r) PROVE Good'
  BY <1>1 DEF next_offer_number
<1>0. ASSUME NEW n \in 1..MaxSet, set_next_offer(n) PROVE Good'
  BY <1>0 DEF set_next_offer
<1>2. ASSUME NEW r \in Runs, NEW o \in Runs, fetch_offer_number(r, o) PROVE Good'
  BY <1>2 DEF fetch_offer_number
<1>3. ASSUME NEW r \in Runs, Upload(r) PROVE Good'
  BY <1>3 DEF Upload
<1>4. ASSUME NEW r \in Runs, update_returning(r) PROVE Good'
  BY <1>4 DEF update_returning
<1>5. ASSUME NEW r \in Runs, insert_or_adopt(r) PROVE Good'
  BY <1>5 DEF insert_or_adopt
<1>6. ASSUME NEW r \in Runs, UploadFails(r) \/ WriteFails(r) PROVE Good'
  BY <1>6 DEF UploadFails, WriteFails
<1>7. ASSUME NEW o \in Runs, fetch_draft_for_send(o) \/ fetch_active_offer_with_status(o) PROVE Good'
  BY <1>7 DEF fetch_draft_for_send, fetch_active_offer_with_status
<1>8. ASSUME NEW o \in Runs, mark_offer_accepted(o) \/ handle_offer_denial(o) PROVE Good'
  <2>1. CASE handle_offer_denial(o)
    BY <2>1 DEF handle_offer_denial
  <2>2. CASE mark_offer_accepted(o) /\ UNCHANGED status
    BY <2>2 DEF mark_offer_accepted
  <2>3. CASE mark_offer_accepted(o) /\ Admitted(o) /\ status' = [status EXCEPT ![o] = "accepted"]
    BY <2>3 DEF mark_offer_accepted
  <2> QED
    BY <1>8, <2>1, <2>2, <2>3 DEF mark_offer_accepted
<1>9. CASE Download \/ send_email
  BY <1>9 DEF Download, send_email
<1>10. CASE mark_offer_sent
  <2>1. CASE UNCHANGED status
    BY <1>10, <2>1 DEF mark_offer_sent
  <2>2. CASE Admitted(moffer) /\ status' = [status EXCEPT ![moffer] = "sent"]
    BY <1>10, <2>2 DEF mark_offer_sent
  <2> QED
    BY <1>10, <2>1, <2>2 DEF mark_offer_sent
<1>11. CASE accept_inquiry \/ reject_inquiry
  BY <1>11 DEF accept_inquiry, reject_inquiry
<1>12. CASE Restart
  BY <1>12 DEF Restart
<1>13. CASE UNCHANGED vars
  BY <1>13 DEF vars
<1> QED
  BY Zenon, <1>0, <1>1, <1>2, <1>3, <1>4, <1>5, <1>6, <1>7, <1>8, <1>9, <1>10, <1>11, <1>12, <1>13 DEF Next, Revise

\* The invariant holds in every reachable state.
LEMMA Invariance == Spec => []IInv
<1>1. IInv /\ [Next]_vars => IInv'
  BY TypeStep, DocumentsStep DEF IInv
<1> QED
  BY <1>1, InitInv, PTL DEF Spec

\* Every state is well typed.
THEOREM TypeCorrect == Spec => []TypeOK
<1>1. IInv => TypeOK
  BY DEF IInv
<1> QED
  BY <1>1, Invariance, PTL

\* Revisions, denials, mails and answers at once leave at most one active
\* offer (offers_inquiry_active_unique, and the lock of the insert).
THEOREM AtMostOneActive == Spec => []OneActiveOffer
<1>1. IInv => OneActiveOffer
  <2> SUFFICES ASSUME IInv PROVE OneActiveOffer
    OBVIOUS
  <2>1. CASE Active = {}
    BY <2>1, FS_EmptySet DEF OneActiveOffer
  <2>2. ASSUME NEW o \in Active PROVE Active = {o}
    BY DEF IInv, OneActive, Active
  <2>3. ASSUME NEW o \in Active PROVE Cardinality(Active) = 1
    BY <2>2, <2>3, FS_Singleton
  <2> QED
    BY <2>1, <2>3 DEF OneActiveOffer
<1> QED
  BY <1>1, Invariance, PTL

\* The document of an active offer shows its number and its prices unless a
\* revision in place met another one or was cut.
THEOREM DocumentsMatch == Spec => []DocumentMatchesRow
<1>1. IInv => DocumentMatchesRow
  BY DEF IInv, Documented, Single, DocumentMatchesRow, Active, IsActive
<1> QED
  BY <1>1, Invariance, PTL

\* No two offers carry one number unless an operator set the counter back over
\* it, also when numbers move to adopted rows.
THEOREM NumbersAreDistinct == Spec => []NumbersDistinct
<1>1. IInv => NumbersDistinct
  BY DEF IInv, Numbers
<1> QED
  BY <1>1, Invariance, PTL

\* What the mail under way has read is what the row shows.
MailHasRow ==
  mpc # "idle" /\ moffer \notin overlapped \union raced =>
    /\ Halfway(moffer) = {}
    /\ mpc = "send" => mdoc = [num |-> num[moffer], by |-> by[moffer]]
    /\ mpc = "mark" => mailed[moffer] = [num |-> num[moffer], by |-> by[moffer]]

\* A customer who is answering a sent offer has it as the row shows it.
AnswerHasRow ==
  cpc # "idle" /\ cstatus = "sent" /\ coffer \notin overlapped \union raced =>
    mailed[coffer] = [num |-> num[coffer], by |-> by[coffer]]

\* The customer has what the rows show.
LEMMA MailInit == Init => MailHasRow /\ AnswerHasRow /\ SentShowsTheMail
BY DEF Init, MailHasRow, AnswerHasRow, SentShowsTheMail

LEMMA MailStep ==
  IInv /\ MailHasRow /\ AnswerHasRow /\ SentShowsTheMail /\ [Next]_vars
    => (MailHasRow /\ AnswerHasRow /\ SentShowsTheMail)'
<1> DEFINE Good == MailHasRow /\ AnswerHasRow /\ SentShowsTheMail
<1> SUFFICES ASSUME IInv, Good, [Next]_vars PROVE Good'
  OBVIOUS
<1> USE RevisionsAssumption, NoneAssumption
        DEF IInv, TypeOK, Shape, Documented, Single, Revising, Halfway, Handled, MailHasRow, AnswerHasRow, SentShowsTheMail,
            GotoR, Meets, Races, MailEnds, AnswerEnds, GotoM, rows, files, counter, revisions, mail, answer, history
<1>1. ASSUME NEW r \in Runs, next_offer_number(r) PROVE Good'
  BY <1>1 DEF next_offer_number
<1>0. ASSUME NEW n \in 1..MaxSet, set_next_offer(n) PROVE Good'
  BY <1>0 DEF set_next_offer
<1>2. ASSUME NEW r \in Runs, NEW o \in Runs, fetch_offer_number(r, o) PROVE Good'
  BY <1>2 DEF fetch_offer_number
<1>3. ASSUME NEW r \in Runs, Upload(r) PROVE Good'
  BY <1>3 DEF Upload
<1>4. ASSUME NEW r \in Runs, update_returning(r) PROVE Good'
  BY <1>4 DEF update_returning
<1>5. ASSUME NEW r \in Runs, insert_or_adopt(r) PROVE Good'
  BY <1>5 DEF insert_or_adopt, Active
<1>6. ASSUME NEW r \in Runs, UploadFails(r) \/ WriteFails(r) PROVE Good'
  BY <1>6 DEF UploadFails, WriteFails
<1>7. ASSUME NEW o \in Runs, fetch_draft_for_send(o) \/ fetch_active_offer_with_status(o) PROVE Good'
  BY <1>7 DEF fetch_draft_for_send, fetch_active_offer_with_status, IsActive
<1>8. ASSUME NEW o \in Runs, mark_offer_accepted(o) \/ handle_offer_denial(o) PROVE Good'
  BY <1>8 DEF mark_offer_accepted, handle_offer_denial
<1>9. CASE Download
  BY <1>9 DEF Download
<1>10. CASE send_email
  BY <1>10 DEF send_email
<1>11. CASE mark_offer_sent
  BY <1>11 DEF mark_offer_sent
<1>12. CASE accept_inquiry \/ reject_inquiry
  BY <1>12 DEF accept_inquiry, reject_inquiry
<1>13. CASE Restart
  BY <1>13 DEF Restart
<1>14. CASE UNCHANGED vars
  BY <1>14 DEF vars
<1> QED
  BY <1>0, <1>1, <1>2, <1>3, <1>4, <1>5, <1>6, <1>7, <1>8, <1>9, <1>10, <1>11, <1>12, <1>13, <1>14 DEF Next, Revise

\* A sent offer, or one accepted from there, is what the customer was mailed,
\* unless it was revised while it was mailed or answered.
THEOREM SentIsTheMail == Spec => []SentShowsTheMail
  BY MailInit, MailStep, Invariance, PTL DEF Spec
=============================================================================
