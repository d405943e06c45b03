----------------------------- MODULE MailIntake -----------------------------
(***************************************************************************)
(* The e-mail agent's mailbox: the poll, the intake of new requests and    *)
(* the inquiries the orchestrator makes of them.                           *)
(*                                                                         *)
(* A poll fetches the oldest unread mails, at most Batch, and takes one    *)
(* after the other: the mail is stored as a row, answered or, when it is a *)
(* new request, merged into the sender's open inquiry, and flagged read on *)
(* the server.  An open inquiry is kept in memory only; a complete one     *)
(* goes through an unbounded channel to a second task, which writes it.    *)
(* The server keeps the mails and their flags, the database the rows and   *)
(* the inquiries; a restart loses the rest.                                *)
(*                                                                         *)
(* Mails are numbered as the mailbox numbers them.  What is drafted in     *)
(* answer to a mail is the matter of MailDrafts.                           *)
(***************************************************************************)
EXTENDS Integers, Sequences, FiniteSets

CONSTANTS
  Customers,
  Office,      \* the company's own address, the sender of every web form
  Facts,       \* what a complete inquiry needs
  Letters,     \* the mails people write
  Batch,       \* mails fetched by one poll: 25
  MaxLetters,  \* bound: mails that arrive
  MaxMishaps   \* bound: failing calls and restarts

Kinds == {"quote", "contact", "mail", "unreadable"}

\* A form states its writer's address, or the field was left out.
ASSUME IntakeAssumption ==
  /\ Office \notin Customers /\ Facts # {}
  /\ Letters \subseteq [writer : Customers, kind : Kinds, states : BOOLEAN, says : SUBSET Facts]
  /\ Batch \in Nat \ {0} /\ MaxLetters \in Nat /\ MaxMishaps \in Nat

VARIABLES
  mail,       \* the mails of INBOX, oldest first
  seen,       \* those flagged \Seen
  batch,      \* mails fetched and not done with
  pc,         \* where the agent is with the oldest of them
  stored,     \* whether its row was written
  open,       \* the open inquiry of each address: what is known, from which mails
  sent,       \* complete inquiries sent to the orchestrator
  taken,      \* how many of them it has received
  rows,       \* rows of email_messages for each mail
  made,       \* the sent inquiries that were written, by number
  told,       \* what the intake was told for each address
  again,      \* how often each mail was processed and not flagged
  broken,     \* addresses whose inquiry was lost to a failure or a restart
  mishaps     \* mishaps so far

server == <<mail, seen>>
memory == <<batch, pc, stored, open>>
channel == <<sent, taken>>
database == <<rows, made>>
tally == <<told, again, broken>>
intakeVars == <<server, memory, channel, database, tally, mishaps>>

Addresses == Customers \union {Office}
Numbers == 1..MaxLetters
Arrived == 1..Len(mail)
Empty == [facts |-> {}, from |-> {}]
Readable(m) == mail[m].kind # "unreadable"

Oldest(S) == CHOOSE m \in S : \A n \in S : m <= n
Current == Oldest(batch)

Fine == UNCHANGED mishaps
Mishap == mishaps < MaxMishaps /\ mishaps' = mishaps + 1
-----------------------------------------------------------------------------
IntakeInit ==
  /\ mail = <<>> /\ seen = {}
  /\ batch = {} /\ pc = "poll" /\ stored = FALSE
  /\ open = [k \in Addresses |-> Empty]
  /\ sent = <<>> /\ taken = 0
  /\ rows = [m \in Numbers |-> 0] /\ made = {}
  /\ told = [k \in Addresses |-> {}]
  /\ again = [m \in Numbers |-> 0] /\ broken = {}
  /\ mishaps = 0

Arrive(letter) ==
  /\ Len(mail) < MaxLetters
  /\ mail' = Append(mail, letter)
  /\ UNCHANGED <<seen, memory, channel, database, tally, mishaps>>

Unseen == Arrived \ seen
OldestUnseen == {m \in Unseen : Cardinality({n \in Unseen : n < m}) < Batch}

\* A mail whose fetch fails is left out.  What the parser rejects is flagged
\* read at once, or the flag fails.
fetch_unread ==
  /\ pc = "poll" /\ Unseen # {}
  /\ \E lost \in SUBSET OldestUnseen :
       /\ \/ lost = {} /\ Fine
          \/ Cardinality(lost) = 1 /\ Mishap
       /\ batch' = {m \in OldestUnseen \ lost : Readable(m)}
       /\ seen' = seen \union {m \in OldestUnseen \ lost : ~Readable(m)}
  /\ pc' = IF batch' = {} THEN "poll" ELSE "store"
  /\ UNCHANGED <<mail, stored, open, channel, database, tally>>

\* The row is written, or the INSERT fails; either way the mail goes on.
store_inbound_email ==
  /\ pc = "store"
  /\ \/ Fine /\ rows' = [rows EXCEPT ![Current] = @ + 1] /\ stored' = TRUE
     \/ Mishap /\ stored' = FALSE /\ UNCHANGED rows
  /\ pc' = "answer"
  /\ UNCHANGED <<server, batch, open, channel, made, tally>>

\* Bug: every form is the sender's, the company's own inbox.
SenderKey(m) == IF mail[m].kind = "mail" THEN mail[m].writer ELSE Office

\* The address the inquiry is kept under: the one a form states, else the
\* sender's.
inquiry_key(m) ==
  IF mail[m].kind = "mail" \/ mail[m].states THEN mail[m].writer ELSE Office

\* A form is parsed; of a free text the language model finds what it finds.
Extracted(m) == IF mail[m].kind = "mail" THEN SUBSET mail[m].says ELSE {mail[m].says}

\* Bug: the mail's facts take the place of what was known.
Replace(target, m, found) == [facts |-> found, from |-> target.from \union {m}]

\* Only empty fields are filled.
merge_inquiry(target, m, found) ==
  [facts |-> target.facts \union found, from |-> target.from \union {m}]

is_complete(inquiry) == inquiry.facts = Facts

\* A complete inquiry is sent on and forgotten.
run_intake ==
  /\ pc = "answer"
  /\ \E found \in Extracted(Current) :
       LET k == inquiry_key(Current)
           inquiry == merge_inquiry(open[k], Current, found) IN
       /\ \/ /\ is_complete(inquiry)
             /\ sent' = Append(sent, [key |-> k, from |-> inquiry.from])
             /\ open' = [open EXCEPT ![k] = Empty]
          \/ /\ ~is_complete(inquiry)
             /\ open' = [open EXCEPT ![k] = inquiry]
             /\ UNCHANGED sent
       /\ told' = [told EXCEPT ![k] = @ \union found]
  /\ pc' = "flag"
  /\ UNCHANGED <<server, batch, stored, taken, database, again, broken, mishaps>>

\* Not a new request, or its customer has a job: a reply is drafted at most.
\* A quote form always is a new request.
Answered ==
  /\ pc = "answer" /\ mail[Current].kind # "quote"
  /\ pc' = "flag"
  /\ UNCHANGED <<server, batch, stored, open, channel, database, tally, mishaps>>

\* Bug: the mail is flagged whether or not it was stored.
FlagAnyway ==
  /\ pc = "flag"
  /\ seen' = seen \union {Current}
  /\ batch' = batch \ {Current}
  /\ pc' = IF batch' = {} THEN "poll" ELSE "store"
  /\ UNCHANGED <<mail, stored, open, channel, database, tally, mishaps>>

\* Only a mail that was stored is flagged; a flag that fails is logged.
mark_uid_as_read ==
  /\ pc = "flag"
  /\ \/ stored /\ Fine /\ seen' = seen \union {Current} /\ UNCHANGED again
     \/ stored /\ Mishap /\ again' = [again EXCEPT ![Current] = @ + 1] /\ UNCHANGED seen
     \/ ~stored /\ Fine /\ again' = [again EXCEPT ![Current] = @ + 1] /\ UNCHANGED seen
  /\ batch' = batch \ {Current}
  /\ pc' = IF batch' = {} THEN "poll" ELSE "store"
  /\ UNCHANGED <<mail, stored, open, channel, database, told, broken>>

\* The orchestrator's task: one transaction, or an error that is logged.
handle_complete_inquiry ==
  /\ taken < Len(sent)
  /\ taken' = taken + 1
  /\ \/ Fine /\ made' = made \union {taken + 1} /\ UNCHANGED broken
     \/ Mishap /\ broken' = broken \union {sent[taken + 1].key} /\ UNCHANGED made
  /\ UNCHANGED <<server, memory, sent, rows, told, again>>

AgentRestarts ==
  /\ Mishap
  /\ batch' = {} /\ pc' = "poll"
  /\ open' = [k \in Addresses |-> Empty]
  /\ taken' = Len(sent)
  /\ broken' = broken \union {k \in Addresses : open[k] # Empty}
                \union {sent[i].key : i \in (taken + 1)..Len(sent)}
  /\ again' = IF pc \in {"answer", "flag"} THEN [again EXCEPT ![Current] = @ + 1] ELSE again
  /\ UNCHANGED <<server, stored, sent, database, told>>

process_incoming_email == store_inbound_email \/ run_intake \/ Answered \/ mark_uid_as_read

IntakeNext ==
  \/ \E letter \in Letters : Arrive(letter)
  \/ fetch_unread \/ process_incoming_email \/ handle_complete_inquiry
  \/ AgentRestarts

IntakeSpec == IntakeInit /\ [][IntakeNext]_intakeVars

\* The agent polls for ever and finishes the mail it is at; so does the
\* orchestrator's task.
IntakeFairSpec ==
  /\ IntakeSpec
  /\ WF_intakeVars(fetch_unread) /\ WF_intakeVars(process_incoming_email)
  /\ WF_intakeVars(handle_complete_inquiry)
-----------------------------------------------------------------------------
(***************************************************************************)
(* Properties                                                              *)
(***************************************************************************)

\* A mail is taken for what it is once, however often the poll meets it: it
\* has one row, and is part of one inquiry, for each time it was processed
\* without being flagged, and one more.  And a mail that says who wrote it
\* is in no inquiry with a mail of somebody else.
EachMailOnce ==
  /\ \A m \in Arrived :
       /\ rows[m] <= 1 + again[m]
       /\ Cardinality({i \in 1..Len(sent) : m \in sent[i].from}) <= 1 + again[m]
  /\ \A i \in 1..Len(sent) : \A m, n \in sent[i].from :
       mail[m].states => mail[n].writer = mail[m].writer

\* A customer who told the intake everything, over however many mails, has
\* an inquiry as soon as the orchestrator has emptied its channel, unless it
\* was lost to a failure or a restart.
CompleteBecomesInquiry ==
  taken = Len(sent) =>
    \A k \in Addresses \ broken : told[k] = Facts => \E i \in made : sent[i].key = k

\* Whatever fails on the way, every mail ends up flagged, and every readable
\* one is in the database by then: none is lost and none blocks the others.
EveryMailArrives ==
  <>[](\A m \in Arrived : m \in seen /\ (Readable(m) => rows[m] > 0))
=============================================================================
