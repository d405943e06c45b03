--------------------------- MODULE OfferRevisions ---------------------------
(***************************************************************************)
(* The offers of one inquiry: how a revision writes the document and the   *)
(* row, how the document is mailed, and how an offer is accepted.          *)
(*                                                                         *)
(* build_offer_with_overrides renders a document, uploads it under the     *)
(* offer's key and only then writes the row.  The dashboard and Telegram   *)
(* revise an offer they name, in place; the intake and the assistant name  *)
(* none and insert a row, or adopt the active one they find.  Everything   *)
(* runs at once and the process may restart between any two steps.         *)
(*                                                                         *)
(* A revision is named by its run, an offer by the run that inserted it.   *)
(* What a revision computes (price, crew, lines) is its name: two          *)
(* documents or rows show the same when they are by the same run.  The     *)
(* status of the inquiry, which each step also writes, is not read here.   *)
(***************************************************************************)
EXTENDS Integers, FiniteSets

CONSTANTS
  Runs,          \* runs of build_offer_with_overrides
  MaxRestarts,   \* bound: restarts of the process
  MaxSet,        \* bound: the highest number an operator makes the next
  Faults         \* which of AllFaults may happen

AllFaults == {"upload", "smtp", "write"}
ASSUME RevisionsAssumption == MaxRestarts \in Nat /\ MaxSet \in Nat /\ Faults \subseteq AllFaults

None == "none"
ASSUME NoneAssumption == None \notin Runs

VARIABLES
  status,     \* of each offer
  num,        \* its number
  by,         \* the revision its row shows
  key,        \* the offer under whose key its document is
  fnum,       \* the number on the document under each offer's key
  fby,        \* the revision that document shows
  drawn,      \* the last value of the offer numbers' counter
  reissued,   \* the numbers an operator set the counter back over
  rpc,        \* where each run is
  target,     \* the offer it revises in place, if any
  rnum,       \* the number it prints
  mpc,        \* where the mail is
  moffer,     \* the offer that goes with it
  mdoc,       \* number and revision of the document it read
  mailed,     \* number and revision of the document last mailed, of each offer
  cpc,        \* where the customer's answer is
  coffer,     \* the offer it found active
  cstatus,    \* the status it found
  agreed,     \* the status each accepted offer was accepted from
  overlapped, \* offers whose revision in place met another one, or was cut
  raced,      \* offers revised while they were mailed or answered
  restarts    \* restarts so far

rows == <<status, num, by, key>>
files == <<fnum, fby>>
counter == <<drawn, reissued>>
revisions == <<counter, rpc, target, rnum>>
mail == <<mpc, moffer, mdoc, mailed>>
answer == <<cpc, coffer, cstatus, agreed>>
history == <<overlapped, raced>>
vars == <<rows, files, revisions, mail, answer, history, restarts>>

Statuses == {"none", "draft", "sent", "accepted", "rejected"}
Nothing == [num |-> 0, by |-> None]

IsActive(o) == status[o] \in {"draft", "sent", "accepted"}
Active == {o \in Runs : IsActive(o)}
\* offers_inquiry_active_unique: o may be active beside the others.
Admitted(o) == Active \subseteq {o}

Fails(f) == f \in Faults
GotoR(r, l) == rpc' = [rpc EXCEPT ![r] = l]

\* The runs that revise o in place, and those that uploaded already.
Revising(o) == {r \in Runs : target[r] = o /\ rpc[r] \in {"upload", "write"}}
Halfway(o) == {r \in Revising(o) : rpc[r] = "write"}
Handled(o) == (mpc # "idle" /\ moffer = o) \/ (cpc # "idle" /\ coffer = o)
Meets(o, others) == overlapped' = IF others = {} THEN overlapped ELSE overlapped \union {o}
Races(o) == raced' = IF Handled(o) THEN raced \union {o} ELSE raced
-----------------------------------------------------------------------------
Init ==
  /\ status = [o \in Runs |-> "none"]
  /\ num = [o \in Runs |-> 0] /\ by = [o \in Runs |-> None] /\ key = [o \in Runs |-> None]
  /\ fnum = [o \in Runs |-> 0] /\ fby = [o \in Runs |-> None]
  /\ drawn = 0 /\ reissued = {}
  /\ rpc = [r \in Runs |-> "idle"]
  /\ target = [r \in Runs |-> None]
  /\ rnum = [r \in Runs |-> 0]
  /\ mpc = "idle" /\ moffer = None /\ mdoc = Nothing
  /\ mailed = [o \in Runs |-> Nothing]
  /\ cpc = "idle" /\ coffer = None /\ cstatus = "none"
  /\ agreed = [o \in Runs |-> "none"]
  /\ overlapped = {} /\ raced = {}
  /\ restarts = 0

(***************************************************************************)
(* A revision                                                              *)
(***************************************************************************)

\* Bug: the number is one more than the highest on a row.
NextAfterRows(r) ==
  /\ rpc[r] = "idle"
  /\ \E n \in {num[o] : o \in Runs} :
       (\A o \in Runs : num[o] <= n) /\ rnum' = [rnum EXCEPT ![r] = n + 1]
  /\ GotoR(r, "upload")
  /\ UNCHANGED <<rows, files, counter, target, mail, answer, history, restarts>>

\* No offer is named: a number is drawn.
next_offer_number(r) ==
  /\ rpc[r] = "idle"
  /\ drawn' = drawn + 1
  /\ rnum' = [rnum EXCEPT ![r] = drawn + 1]
  /\ GotoR(r, "upload")
  /\ UNCHANGED <<rows, files, reissued, target, mail, answer, history, restarts>>

\* An operator makes n the next number, also one that was drawn before;
\* nothing compares it with the numbers on the offers.
set_next_offer(n) ==
  /\ drawn' = n - 1
  /\ reissued' = reissued \union n..drawn
  /\ UNCHANGED <<rows, files, rpc, target, rnum, mail, answer, history, restarts>>

\* The offer is named, the active one on the dashboard or any in Telegram:
\* its number is read.
fetch_offer_number(r, o) ==
  /\ rpc[r] = "idle"
  /\ status[o] # "none"
  /\ target' = [target EXCEPT ![r] = o]
  /\ rnum' = [rnum EXCEPT ![r] = num[o]]
  /\ GotoR(r, "upload")
  /\ UNCHANGED <<rows, files, counter, mail, answer, history, restarts>>

\* The rendered document goes under the key of the offer.
Upload(r) ==
  /\ rpc[r] = "upload"
  /\ LET k == IF target[r] = None THEN r ELSE target[r] IN
       /\ fnum' = [fnum EXCEPT ![k] = rnum[r]]
       /\ fby' = [fby EXCEPT ![k] = r]
       /\ IF target[r] = None THEN UNCHANGED history ELSE Meets(k, Halfway(k)) /\ Races(k)
  /\ GotoR(r, "write")
  /\ UNCHANGED <<rows, counter, target, rnum, mail, answer, restarts>>

UploadFails(r) ==
  /\ rpc[r] = "upload" /\ Fails("upload")
  /\ GotoR(r, "failed")
  /\ UNCHANGED <<rows, files, counter, target, rnum, mail, answer, history, restarts>>

\* Bug: a revision in place takes its run's key.
UpdateOwnKey(r) ==
  LET o == target[r] IN
  /\ rpc[r] = "write" /\ o # None
  /\ Admitted(o)
  /\ status' = [status EXCEPT ![o] = "draft"]
  /\ by' = [by EXCEPT ![o] = r] /\ key' = [key EXCEPT ![o] = r]
  /\ GotoR(r, "done")
  /\ Meets(o, Halfway(o) \ {r}) /\ Races(o)
  /\ UNCHANGED <<num, files, counter, target, rnum, mail, answer, restarts>>

\* update_returning: the row is a draft again and keeps its number.
update_returning(r) ==
  LET o == target[r] IN
  /\ rpc[r] = "write" /\ o # None
  /\ Admitted(o)
  /\ status' = [status EXCEPT ![o] = "draft"]
  /\ by' = [by EXCEPT ![o] = r] /\ key' = [key EXCEPT ![o] = o]
  /\ GotoR(r, "done")
  /\ Meets(o, Halfway(o) \ {r}) /\ Races(o)
  /\ UNCHANGED <<num, files, counter, target, rnum, mail, answer, restarts>>

\* Bug: neither the lock nor the lookup, and the index is missing.
InsertBlindly(r) ==
  /\ rpc[r] = "write" /\ target[r] = None
  /\ status' = [status EXCEPT ![r] = "draft"]
  /\ num' = [num EXCEPT ![r] = rnum[r]]
  /\ by' = [by EXCEPT ![r] = r] /\ key' = [key EXCEPT ![r] = r]
  /\ GotoR(r, "done")
  /\ UNCHANGED <<files, counter, target, rnum, mail, answer, history, restarts>>

\* Under the inquiry's lock: the active offer is adopted with the number and
\* the key of this document; without one a row is inserted.
insert_or_adopt(r) ==
  /\ rpc[r] = "write" /\ target[r] = None
  /\ \E o \in (IF Active = {} THEN {r} ELSE Active) :
       /\ status' = [status EXCEPT ![o] = "draft"]
       /\ num' = [num EXCEPT ![o] = rnum[r]]
       /\ by' = [by EXCEPT ![o] = r] /\ key' = [key EXCEPT ![o] = r]
       /\ Meets(o, Revising(o)) /\ Races(o)
  /\ GotoR(r, "done")
  /\ UNCHANGED <<files, counter, target, rnum, mail, answer, restarts>>

\* The row is refused by the index, or the database fails.
WriteFails(r) ==
  /\ rpc[r] = "write"
  /\ Fails("write") \/ (target[r] # None /\ ~Admitted(target[r]))
  /\ overlapped' = IF target[r] = None THEN overlapped ELSE overlapped \union {target[r]}
  /\ GotoR(r, "failed")
  /\ UNCHANGED <<rows, files, counter, target, rnum, mail, answer, raced, restarts>>

(***************************************************************************)
(* Mailing: send_draft of a draft in the inquiry's thread                  *)
(***************************************************************************)

GotoM(l) == mpc' = l
MailEnds == mpc' = "idle" /\ moffer' = None

\* The thread's active offer goes with the mail.
fetch_draft_for_send(o) ==
  /\ mpc = "idle" /\ IsActive(o)
  /\ moffer' = o
  /\ GotoM("download")
  /\ raced' = IF Halfway(o) = {} THEN raced ELSE raced \union {o}
  /\ UNCHANGED <<rows, files, revisions, mdoc, mailed, answer, overlapped, restarts>>

\* The document under the key the row had then, as it is now.
Download ==
  /\ mpc = "download"
  /\ mdoc' = [num |-> fnum[key[moffer]], by |-> fby[key[moffer]]]
  /\ GotoM("send")
  /\ UNCHANGED <<rows, files, revisions, moffer, mailed, answer, history, restarts>>

\* Bug: the offer is marked although the server refused the mail.
SendOrMark ==
  /\ mpc = "send"
  /\ \/ mailed' = [mailed EXCEPT ![moffer] = mdoc]
     \/ Fails("smtp") /\ UNCHANGED mailed
  /\ GotoM("mark")
  /\ UNCHANGED <<rows, files, revisions, moffer, mdoc, answer, history, restarts>>

send_email ==
  /\ mpc = "send"
  /\ \/ mailed' = [mailed EXCEPT ![moffer] = mdoc] /\ GotoM("mark") /\ UNCHANGED moffer
     \/ Fails("smtp") /\ MailEnds /\ UNCHANGED mailed
  /\ UNCHANGED <<rows, files, revisions, mdoc, answer, history, restarts>>

\* The offer is 'sent', whatever it was; the index may refuse it.
mark_offer_sent ==
  /\ mpc = "mark"
  /\ \/ /\ Admitted(moffer)
        /\ status' = [status EXCEPT ![moffer] = "sent"]
     \/ (Fails("write") \/ ~Admitted(moffer)) /\ UNCHANGED status
  /\ MailEnds
  /\ UNCHANGED <<num, by, key, files, revisions, mdoc, mailed, answer, history, restarts>>

(***************************************************************************)
(* The customer's answer, and the owner's                                  *)
(***************************************************************************)

\* accept_inquiry finds the active offer, a draft or a sent one.
fetch_active_offer_with_status(o) ==
  /\ cpc = "idle"
  /\ status[o] \in {"draft", "sent"}
  /\ cpc' = "answer" /\ coffer' = o /\ cstatus' = status[o]
  /\ raced' = IF Halfway(o) = {} THEN raced ELSE raced \union {o}
  /\ UNCHANGED <<rows, files, revisions, mail, agreed, overlapped, restarts>>

AnswerEnds == cpc' = "idle" /\ coffer' = None /\ UNCHANGED cstatus

\* Accepting and rejecting write the status without looking again.
accept_inquiry ==
  /\ cpc = "answer"
  /\ \/ /\ Admitted(coffer)
        /\ status' = [status EXCEPT ![coffer] = "accepted"]
        /\ agreed' = [agreed EXCEPT ![coffer] = cstatus]
     \/ ~Admitted(coffer) /\ UNCHANGED <<status, agreed>>
  /\ AnswerEnds
  /\ UNCHANGED <<num, by, key, files, revisions, mail, history, restarts>>

reject_inquiry ==
  /\ cpc = "answer"
  /\ status' = [status EXCEPT ![coffer] = "rejected"]
  /\ AnswerEnds
  /\ UNCHANGED <<num, by, key, files, revisions, mail, agreed, history, restarts>>

\* The assistant's tool accepts the active offer.
mark_offer_accepted(o) ==
  /\ status[o] \in {"draft", "sent", "accepted"}
  /\ status' = [status EXCEPT ![o] = "accepted"]
  /\ agreed' = [agreed EXCEPT ![o] = IF status[o] = "accepted" THEN @ ELSE status[o]]
  /\ UNCHANGED <<num, by, key, files, revisions, mail, cpc, coffer, cstatus, history, restarts>>

\* The owner denies an offer in Telegram, whatever its status; the tool
\* rejects the active one.
handle_offer_denial(o) ==
  /\ status[o] # "none"
  /\ status' = [status EXCEPT ![o] = "rejected"]
  /\ UNCHANGED <<num, by, key, files, revisions, mail, answer, history, restarts>>

\* What was under way is gone.
Restart ==
  /\ restarts < MaxRestarts
  /\ restarts' = restarts + 1
  /\ rpc' = [r \in Runs |-> IF rpc[r] \in {"upload", "write"} THEN "failed" ELSE rpc[r]]
  /\ overlapped' = overlapped \union {o \in Runs : Halfway(o) # {}}
  /\ MailEnds /\ AnswerEnds
  /\ UNCHANGED <<rows, files, counter, target, rnum, mdoc, mailed, agreed, raced>>

Revise(r) ==
  \/ next_offer_number(r) \/ \E o \in Runs : fetch_offer_number(r, o)
  \/ Upload(r) \/ UploadFails(r)
  \/ update_returning(r) \/ insert_or_adopt(r) \/ WriteFails(r)

Next ==
  \/ \E r \in Runs : Revise(r)
  \/ \E n \in 1..MaxSet : set_next_offer(n)
  \/ \E o \in Runs : \/ fetch_draft_for_send(o) \/ fetch_active_offer_with_status(o)
                     \/ mark_offer_accepted(o) \/ handle_offer_denial(o)
  \/ Download \/ send_email \/ mark_offer_sent
  \/ accept_inquiry \/ reject_inquiry
  \/ Restart

Spec == Init /\ [][Next]_vars
-----------------------------------------------------------------------------
(***************************************************************************)
(* Properties                                                              *)
(***************************************************************************)

Documents == [num : Nat, by : Runs \union {None}]
TypeOK ==
  /\ status \in [Runs -> Statuses]
  /\ num \in [Runs -> Nat] /\ by \in [Runs -> Runs \union {None}]
  /\ key \in [Runs -> Runs \union {None}]
  /\ fnum \in [Runs -> Nat] /\ fby \in [Runs -> Runs \union {None}]
  /\ drawn \in Nat /\ reissued \subseteq Nat
  /\ rpc \in [Runs -> {"idle", "upload", "write", "done", "failed"}]
  /\ target \in [Runs -> Runs \union {None}]
  /\ rnum \in [Runs -> Nat]
  /\ mpc \in {"idle", "download", "send", "mark"} /\ moffer \in Runs \union {None}
  /\ mdoc \in Documents /\ mailed \in [Runs -> Documents]
  /\ cpc \in {"idle", "answer"} /\ coffer \in Runs \union {None} /\ cstatus \in Statuses
  /\ agreed \in [Runs -> Statuses]
  /\ overlapped \subseteq Runs /\ raced \subseteq Runs
  /\ restarts \in 0..MaxRestarts

\* Two runs that both found no offer, a denied offer that is revised, mailed
\* or accepted after all: the inquiry never has two active offers.
OneActiveOffer == Cardinality(Active) <= 1

\* The document a row points to shows the row's number and prices, however
\* many runs insert and adopt at once; only a revision in place that met
\* another one, or was cut between upload and row, may leave another.
DocumentMatchesRow ==
  \A o \in Active \ overlapped :
    Halfway(o) = {} => fnum[key[o]] = num[o] /\ fby[key[o]] = by[o]

\* A number is on two offers only if an operator set the counter back over it:
\* an adopted row takes the number of the run that adopts it, which then
\* inserts none, and the numbers beyond those set back over stay distinct.
NumbersDistinct ==
  \A o, p \in Runs : num[o] = num[p] /\ num[o] # 0 => o = p \/ num[o] \in reissued

\* An offer that is 'sent', or was accepted from there, went to the customer
\* as the row shows it, unless it was revised while it was mailed or
\* answered.
SentShowsTheMail ==
  \A o \in Runs \ (overlapped \union raced) :
    status[o] = "sent" \/ (status[o] = "accepted" /\ agreed[o] = "sent") =>
      mailed[o] = [num |-> num[o], by |-> by[o]]
=============================================================================
