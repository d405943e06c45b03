----------------------------- MODULE MailDrafts -----------------------------
(***************************************************************************)
(* Drafts of e-mails: rows of email_messages in status 'draft'.            *)
(*                                                                         *)
(* The dashboard and the assistant's tools work on the rows: each request  *)
(* reads a draft, talks to the mail server and then writes the row.  The   *)
(* e-mail agent writes its answers as rows too, but keeps a copy in memory *)
(* and works on the copy: approved in Telegram it mails the copy, edited   *)
(* there it writes the copy over the row.  The agent is one task; requests *)
(* run at once; the process may restart between any two steps.             *)
(*                                                                         *)
(* The drafts are those of one thread.  A text stands for subject, body,   *)
(* recipients and attachments and is a number; a new one is a new number.  *)
(***************************************************************************)
EXTENDS Integers, FiniteSets

CONSTANTS
  Drafts,        \* the drafts that may be written
  Senders,       \* send requests that may run at once
  MaxTexts,      \* bound: texts that are written
  MaxMails,      \* bound: mails of one draft
  MaxRestarts,   \* bound: restarts of the process
  Faults         \* which of AllFaults may happen

AllFaults == {"insert", "post", "smtp", "mark", "llm", "edit"}
ASSUME DraftsAssumption ==
  MaxTexts \in Nat /\ MaxMails \in Nat /\ MaxRestarts \in Nat /\ Faults \subseteq AllFaults

NoDraft == "no draft"
ASSUME NoDraftAssumption == NoDraft \notin Drafts

VARIABLES
  row,        \* status of each draft's row
  text,       \* the text in it
  llm,        \* the rows with llm_generated
  held,       \* whether the agent has a copy: in pending_drafts, in editing_draft, no
  copy,       \* the text of the copy
  apc,        \* where the agent is with the copy it is mailing
  acur,       \* that draft
  spc,        \* where each send request is
  sdraft,     \* the draft it sends
  stext,      \* the text it read
  mails,      \* how many mails went out for each draft
  letter,     \* the text of the latest
  texts,      \* texts written so far
  touched,    \* drafts somebody worked on while somebody else was at it
  cut,        \* drafts whose mail went out and whose row was not written then
  unwritten,  \* drafts whose copy's latest text did not reach the row
  restarts    \* restarts so far

table == <<row, text, llm>>
agent == <<held, copy, apc, acur>>
requests == <<spc, sdraft, stext>>
outgoing == <<mails, letter>>
history == <<touched, cut, unwritten>>
vars == <<table, agent, requests, outgoing, texts, history, restarts>>

Fails(f) == f \in Faults

\* Who is at work on a draft.
AgentOn(d) == held[d] # "no" \/ acur = d
SendersOn(d) == {s \in Senders : sdraft[s] = d}
Idle(d) == ~AgentOn(d) /\ SendersOn(d) = {}

\* The dashboard or a tool, and the agent, meet another one at a draft.
DashboardTouches(d) == touched' = IF Idle(d) THEN touched ELSE touched \union {d}
AgentTouches(S) == touched' = touched \union {d \in S : SendersOn(d) # {}}

NewText == texts < MaxTexts /\ texts' = texts + 1
-----------------------------------------------------------------------------
Init ==
  /\ row = [d \in Drafts |-> "none"]
  /\ text = [d \in Drafts |-> 0]
  /\ llm = {}
  /\ held = [d \in Drafts |-> "no"]
  /\ copy = [d \in Drafts |-> 0]
  /\ apc = "idle" /\ acur = NoDraft
  /\ spc = [s \in Senders |-> "idle"]
  /\ sdraft = [s \in Senders |-> NoDraft]
  /\ stext = [s \in Senders |-> 0]
  /\ mails = [d \in Drafts |-> 0]
  /\ letter = [d \in Drafts |-> 0]
  /\ texts = 0
  /\ touched = {} /\ cut = {} /\ unwritten = {}
  /\ restarts = 0

Fresh(d) == row[d] = "none" /\ ~AgentOn(d) /\ mails[d] = 0

(***************************************************************************)
(* The dashboard and the tools                                             *)
(***************************************************************************)

\* A reply or a new mail is written as a draft.
insert_reply_draft(d) ==
  /\ Fresh(d) /\ NewText
  /\ row' = [row EXCEPT ![d] = "draft"]
  /\ text' = [text EXCEPT ![d] = texts + 1]
  /\ UNCHANGED <<llm, agent, requests, outgoing, history, restarts>>

\* Only a draft is edited.
update_draft(d) ==
  /\ row[d] = "draft" /\ NewText
  /\ text' = [text EXCEPT ![d] = texts + 1]
  /\ DashboardTouches(d)
  /\ UNCHANGED <<row, llm, agent, requests, outgoing, cut, unwritten, restarts>>

\* Only a draft is discarded.
discard_draft(d) ==
  /\ row[d] = "draft"
  /\ row' = [row EXCEPT ![d] = "discarded"]
  /\ DashboardTouches(d)
  /\ UNCHANGED <<text, llm, agent, requests, outgoing, texts, cut, unwritten, restarts>>

\* A new document of the offer: the thread's generated drafts are discarded
\* and a new one is written.
generate_offer_email_draft(d) ==
  LET stale == {e \in llm : row[e] = "draft"} IN
  /\ Fresh(d) /\ NewText
  /\ row' = [e \in Drafts |-> IF e = d THEN "draft" ELSE IF e \in stale THEN "discarded" ELSE row[e]]
  /\ text' = [text EXCEPT ![d] = texts + 1]
  /\ llm' = llm \union {d}
  /\ touched' = touched \union {e \in stale : ~Idle(e)}
  /\ UNCHANGED <<agent, requests, outgoing, cut, unwritten, restarts>>

\* Bug: the row is read whatever its status.
FetchAny(s, d) ==
  /\ spc[s] = "idle"
  /\ row[d] # "none"
  /\ spc' = [spc EXCEPT ![s] = "send"]
  /\ sdraft' = [sdraft EXCEPT ![s] = d]
  /\ stext' = [stext EXCEPT ![s] = text[d]]
  /\ DashboardTouches(d)
  /\ UNCHANGED <<table, agent, outgoing, texts, cut, unwritten, restarts>>

\* send_draft reads the draft.  Without a recipient, a document or an
\* attachment it ends as if the mail server had refused.
fetch_draft_for_send(s, d) ==
  /\ spc[s] = "idle"
  /\ row[d] = "draft"
  /\ spc' = [spc EXCEPT ![s] = "send"]
  /\ sdraft' = [sdraft EXCEPT ![s] = d]
  /\ stext' = [stext EXCEPT ![s] = text[d]]
  /\ DashboardTouches(d)
  /\ UNCHANGED <<table, agent, outgoing, texts, cut, unwritten, restarts>>

Mailed(d, t) ==
  /\ mails[d] < MaxMails
  /\ mails' = [mails EXCEPT ![d] = @ + 1]
  /\ letter' = [letter EXCEPT ![d] = t]

Ends(s) ==
  /\ spc' = [spc EXCEPT ![s] = "idle"]
  /\ sdraft' = [sdraft EXCEPT ![s] = NoDraft]
  /\ UNCHANGED stext

send_email(s) ==
  /\ spc[s] = "send"
  /\ \/ Mailed(sdraft[s], stext[s]) /\ spc' = [spc EXCEPT ![s] = "mark"] /\ UNCHANGED <<sdraft, stext>>
     \/ Fails("smtp") /\ Ends(s) /\ UNCHANGED outgoing
  /\ UNCHANGED <<table, agent, texts, history, restarts>>

\* The row becomes 'sent', whatever it is by now; or the UPDATE fails.
mark_message_sent(s) ==
  /\ spc[s] = "mark"
  /\ \/ row' = [row EXCEPT ![sdraft[s]] = "sent"] /\ UNCHANGED cut
     \/ Fails("mark") /\ cut' = cut \union {sdraft[s]} /\ UNCHANGED row
  /\ Ends(s)
  /\ UNCHANGED <<text, llm, agent, outgoing, texts, touched, unwritten, restarts>>

(***************************************************************************)
(* The agent                                                               *)
(***************************************************************************)

\* An answer is written as a row, unless the INSERT fails, and posted; what
\* cannot be posted is not kept.
submit_draft_for_approval(d) ==
  /\ apc = "idle" /\ Fresh(d) /\ NewText
  /\ \/ /\ row' = [row EXCEPT ![d] = "draft"]
        /\ text' = [text EXCEPT ![d] = texts + 1]
        /\ llm' = llm \union {d}
     \/ Fails("insert") /\ UNCHANGED table
  /\ \/ held' = [held EXCEPT ![d] = "pending"] /\ copy' = [copy EXCEPT ![d] = texts + 1]
     \/ Fails("post") /\ UNCHANGED <<held, copy>>
  /\ UNCHANGED <<apc, acur, requests, outgoing, history, restarts>>

\* The copy's text goes over the row's, whatever the row's status, and an error
\* of that is dropped; then the copy is posted again, and what cannot be
\* posted is not kept.
Resubmitted(d, t, others) ==
  /\ \/ /\ text' = IF row[d] = "none" THEN text ELSE [text EXCEPT ![d] = t]
        /\ unwritten' = unwritten \ {d}
     \/ /\ Fails("edit") /\ row[d] # "none"
        /\ unwritten' = unwritten \union {d}
        /\ UNCHANGED text
  /\ copy' = [copy EXCEPT ![d] = t]
  /\ \/ held' = [others EXCEPT ![d] = "pending"]
     \/ Fails("post") /\ held' = [others EXCEPT ![d] = "no"]

\* "Bearbeiten": the draft waits for instructions; one that waited before
\* goes back to Telegram.
AwaitingEditInstructions(d) ==
  LET next == [held EXCEPT ![d] = "editing"]
      before == {e \in Drafts : held[e] = "editing"} IN
  /\ apc = "idle" /\ held[d] = "pending"
  /\ \/ before = {} /\ held' = next /\ UNCHANGED <<text, copy, unwritten>>
     \/ \E e \in before : Resubmitted(e, copy[e], next)
  /\ AgentTouches(before)
  /\ UNCHANGED <<row, llm, apc, acur, requests, outgoing, texts, cut, restarts>>

\* The language model writes a new text, which replaces the copy's.
handle_edit_instructions(d) ==
  /\ apc = "idle" /\ held[d] = "editing" /\ NewText
  /\ \/ Resubmitted(d, texts + 1, held) /\ AgentTouches({d})
     \/ Fails("llm") /\ UNCHANGED <<text, copy, held, touched, unwritten>>
  /\ UNCHANGED <<row, llm, apc, acur, requests, outgoing, cut, restarts>>

\* Bug: the copy stays in pending_drafts until the mail is out.
ApproveAndKeep(d) ==
  /\ apc = "idle" /\ held[d] = "pending"
  /\ apc' = "send" /\ acur' = d
  /\ AgentTouches({d})
  /\ UNCHANGED <<table, held, copy, requests, outgoing, texts, cut, unwritten, restarts>>

\* "Senden": the copy leaves pending_drafts and is mailed as it is.
Approve(d) ==
  /\ apc = "idle" /\ held[d] = "pending"
  /\ held' = [held EXCEPT ![d] = "no"]
  /\ apc' = "send" /\ acur' = d
  /\ AgentTouches({d})
  /\ UNCHANGED <<table, copy, requests, outgoing, texts, cut, unwritten, restarts>>

send_approved_email ==
  /\ apc = "send"
  /\ \/ Mailed(acur, copy[acur]) /\ apc' = "mark" /\ UNCHANGED acur
     \/ Fails("smtp") /\ apc' = "idle" /\ acur' = NoDraft /\ UNCHANGED outgoing
  /\ UNCHANGED <<table, held, copy, requests, texts, history, restarts>>

\* The row becomes 'sent', or is written now if there is none; an error is
\* dropped.
AgentMark ==
  /\ apc = "mark"
  /\ \/ /\ row' = [row EXCEPT ![acur] = "sent"]
        /\ text' = IF row[acur] = "none" THEN [text EXCEPT ![acur] = copy[acur]] ELSE text
        /\ llm' = llm \union {acur}
        /\ UNCHANGED cut
     \/ Fails("mark") /\ cut' = cut \union {acur} /\ UNCHANGED table
  /\ apc' = "idle" /\ acur' = NoDraft
  /\ UNCHANGED <<held, copy, requests, outgoing, texts, touched, unwritten, restarts>>

\* "Verwerfen": the row becomes 'discarded', whatever its status; an error of
\* that is dropped.
Deny(d) ==
  /\ apc = "idle" /\ held[d] = "pending"
  /\ held' = [held EXCEPT ![d] = "no"]
  /\ \/ row' = IF row[d] = "none" THEN row ELSE [row EXCEPT ![d] = "discarded"]
     \/ Fails("edit") /\ row[d] # "none" /\ UNCHANGED row
  /\ AgentTouches({d})
  /\ UNCHANGED <<text, llm, copy, apc, acur, requests, outgoing, texts, cut, unwritten, restarts>>

\* The copies and the requests are gone.
Restart ==
  /\ restarts < MaxRestarts
  /\ restarts' = restarts + 1
  /\ held' = [d \in Drafts |-> "no"]
  /\ apc' = "idle" /\ acur' = NoDraft
  /\ spc' = [s \in Senders |-> "idle"]
  /\ sdraft' = [s \in Senders |-> NoDraft]
  /\ cut' = cut \union {sdraft[s] : s \in {t \in Senders : spc[t] = "mark"}}
                \union (IF apc = "mark" THEN {acur} ELSE {})
  /\ UNCHANGED <<table, copy, stext, outgoing, texts, touched, unwritten>>

Next ==
  \/ \E d \in Drafts :
       \/ insert_reply_draft(d) \/ update_draft(d) \/ discard_draft(d)
       \/ generate_offer_email_draft(d)
       \/ submit_draft_for_approval(d) \/ AwaitingEditInstructions(d) \/ handle_edit_instructions(d)
       \/ Approve(d) \/ Deny(d)
       \/ \E s \in Senders : fetch_draft_for_send(s, d)
  \/ \E s \in Senders : send_email(s) \/ mark_message_sent(s)
  \/ send_approved_email \/ AgentMark
  \/ Restart

Spec == Init /\ [][Next]_vars
-----------------------------------------------------------------------------
(***************************************************************************)
(* Properties                                                              *)
(***************************************************************************)

TypeOK ==
  /\ row \in [Drafts -> {"none", "draft", "sent", "discarded"}]
  /\ text \in [Drafts -> 0..MaxTexts]
  /\ llm \subseteq Drafts
  /\ held \in [Drafts -> {"no", "pending", "editing"}]
  /\ copy \in [Drafts -> 0..MaxTexts]
  /\ apc \in {"idle", "send", "mark"} /\ acur \in Drafts \union {NoDraft}
  /\ spc \in [Senders -> {"idle", "send", "mark"}]
  /\ sdraft \in [Senders -> Drafts \union {NoDraft}]
  /\ stext \in [Senders -> 0..MaxTexts]
  /\ mails \in [Drafts -> 0..MaxMails]
  /\ letter \in [Drafts -> 0..MaxTexts]
  /\ texts \in 0..MaxTexts
  /\ touched \subseteq Drafts /\ cut \subseteq Drafts /\ unwritten \subseteq Drafts
  /\ restarts \in 0..MaxRestarts

\* "Sent" is never a lie, whoever else worked on the draft meanwhile.
SentWasMailed == \A d \in Drafts : row[d] = "sent" => mails[d] > 0

\* A draft that nobody touched while another was at it, and whose mail was
\* not cut off before the row was written, went out at most once, with the
\* text its row keeps unless the agent's edit did not reach the row, and not
\* at all when it was discarded; and when nobody is at it any more the row
\* says which.
UntouchedIsSound ==
  \A d \in Drafts \ (touched \union cut) :
    /\ mails[d] <= 1
    /\ row[d] = "sent" => letter[d] = text[d] \/ d \in unwritten
    /\ row[d] = "discarded" => mails[d] = 0
    /\ Idle(d) /\ mails[d] > 0 => row[d] = "sent"

\* A row that is sent or discarded and that nobody is at stays as it is for
\* good, and no mail goes out for it any more.
FinalIsFinal ==
  [][\A d \in Drafts :
       row[d] \in {"sent", "discarded"} /\ Idle(d) =>
         row'[d] = row[d] /\ text'[d] = text[d] /\ mails'[d] = mails[d] /\ Idle(d)']_vars
=============================================================================
