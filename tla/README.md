# TLA+ models of the AUST backend

Specifications, model-checking configurations and machine-checked proofs for
the parts of this repository where several actors write the same rows: the
numbering of invoices, their sending, payment and dunning, the monthly storage
invoices, the outbox of domain events, the approval of automatically drafted
offers, the revision and mailing of offers, the mailbox and its intake, drafts of
e-mails, the assistant's confirmations, the estimation of volumes, and the dates and crews of jobs.

Run inside this directory:

    tlc -workers 2 -config numbers_book.cfg MCInvoiceNumbers   # a run
    tlapm InvoiceNumbers_proofs.tla                            # the proofs of a module

`PROJECT.json` lists the components, the runs, the theorems, the hazards, a
mutation for every checked property, and for each definition the source lines
it stands for.


## 1. The system

One binary (`src/src/main.rs`) serves the HTTP API (axum, `crates/api`), polls
an IMAP mailbox, runs a Telegram bot with an LLM assistant (`crates/assistant`)
and a handful of background tasks. They share one PostgreSQL database and
little memory that matters (the queue of taps, the mail agent's copies of its
drafts and its open inquiries, the semaphore of the vision service): **nearly every interaction is a
row**. Most handlers are a sequence of single statements on a connection pool,
without a transaction, with slow work (rendering, S3 upload, SMTP, Telegram,
vision) between them. So the unit of interleaving is the SQL statement, the
failure that matters is the process dying or a call erroring between two of
them, and what holds the data together are unique constraints, `ON CONFLICT`, a
few conditional updates and one advisory lock.

### Inventory

| Component | State | Operations | What is hard | What makes it correct |
|---|---|---|---|---|
| Invoice numbering: `routes/invoices.rs`, `invoice_repo.rs`, `bridge/invoice_service_impl.rs`, `invoice_number.rs`, `settings_repo.rs` | `invoice_number_counters`, `invoices`, `storage_invoices`, PDFs in S3 | create full / Anzahlung + Schlussrechnung, assistant's create, storage billing's draw, overwrite a number, set the counter | draw and insert are separate statements of four callers; overwrite is four statements; two tables, two spellings | no number twice, none silently lost, counter above what is used |
| Sending, paying, dunning: `routes/invoices.rs`, `invoice_repo.rs`, `invoice_reminder_repo.rs`, `billing_reminder_service.rs`, the bridge | `invoices.status/paid_at`, `invoice_reminders`, `inquiries.status` | send, PATCH paid, register's mark paid, record payment, dun, snooze, raw status | mail first and bookkeeping after; unconditional updates; four ways to pay | what a handler settled is paid and what it billed was mailed, the ladder climbs in order and ends with the payment |
| Storage billing: `storage_billing_service.rs`, `storage_repo.rs`, `orchestrator.rs`, `main.rs` | `storage_contracts`, `storage_invoices` | hourly tick, generate now, approve, reject, mark paid, edit a contract | tick against generate-now, two approvals, restart in an SMTP dialogue, missed days | once a month, in its month, sent only if mailed, a payment stands |
| Domain events: `core/events`, `assistant/events/consumer.rs`, `retention.rs` | `domain_events`, `domain_events_archive` | emit, poll, mark, dispatch, sweep | at-most-once over a restart, mark that fails, sweep against consumer | handled at most once, missed only by restart, backlog drains |
| Automatic offers: `offer_pipeline.rs`, `offer_builder.rs`, `events/handlers.rs` | `offers`, `approval_owner`, the flag `agent_owns_approval`, the event | try to generate, persist under the lock, emit, stamp, post | event consumed before the stamp, two runs at once, a flag that flips | the owner asked, and asked once |
| Offer drafting and revision: `offer_builder.rs`, `offer_repo.rs`, `inquiry_actions.rs`, `telegram_service.rs` | `offers`, the document under each offer's key | insert or adopt under the lock, revise in place, mail, accept, reject, deny | document and row written in different orders; adoption of whatever is active; mail and mark apart | one active offer; number, document and mail agree |
| Assistant confirmations: `confirmation.rs`, `driver.rs`, `confirm_dispatcher.rs` | `pending_actions`, the queue of taps, the session's notes | enqueue, post the keyboard, tap, claim, execute, note, cancel, edit, expire, sweep | two taps, expiry against confirmation, restart after the claim, a keyboard that never arrives | run at most once and only when approved, the session tells the truth, every action ends |
| E-mail drafts: `email_drafts.rs`, `email_dispatch.rs`, `admin_repo.rs`, `processor.rs` | `email_messages`, the agent's copies | draft, edit, discard, send; the agent's post, edit, approve, deny | dashboard and Telegram at once; a copy in memory beside the row; mail and mark apart | sent means mailed; undisturbed drafts go out once with their text; final rows stay |
| E-mail agent (IMAP, parser, responder): `imap_client.rs`, `processor.rs`, `parser.rs` | the mailbox's flags, rows, open inquiries in memory, the channel to the orchestrator | poll, store, intake, flag, make the inquiry | a mail processed again after a failure or crash, a poll with a limit, requests of many people under few senders | no mail lost, each taken once, a complete request becomes an inquiry (its drafts: above) |
| Volume estimation: `estimates.rs`, `submissions.rs`, `vision.rs`, clean-up in `main.rs` | `volume_estimations`, `inquiries.estimated_volume_m3`, the semaphore | submit in eleven ways, poll, retry, delete, edit, clean up | late answer after clean-up or retry, clips that end in any order, deletion against a job, one permit | the volume adds up results that exist, each once; every estimation ends |
| Crew and dates of jobs: `inquiry_repo.rs`, `calendar_repo.rs`, `calendar_item_*`, `employee_repo.rs`, `calendar_service_impl.rs` | `scheduled_date/end_date`, the assignment rows and their hours, payroll overrides | move, resize, assign, remove, write the whole crew, enter hours, clean up a month | the crew is shifted row by row over recorded rows; lists read earlier than written | the crew travels with its job, no ghosts, recorded hours stay |
| Inquiry status: `inquiry_update.rs`, `inquiry.rs` | `inquiries` | update, transitions | side effects of a status | (partly in billing, crew, estimations) |
| Login codes: `otp_service.rs` | OTP rows, sessions | request, verify | attempts and expiry checked before written | one use per code |
| Briefings and reminders: `hooks/briefing.rs`, `hooks/reminders.rs` | slot claims | claim, post | restart after the claim | one briefing a slot |
| Calendar reads, capacity, additional appointments | calendar rows | single-statement CRUD | - | capacity is shown, not enforced |
| Retention of other tables | - | DELETE by age | - | - |
| Documents, pricing, profit, clients, vision service, tenants, flash contact, assistant dialogue | - | pure output, arithmetic, reads, thin clients | - | not modelled, see section 8 |

### How they interact

- *Numbering* is the only state that invoices and storage billing share: both
  call `next_invoice_number(s)` (`invoice_repo.rs:169`). `InvoiceNumbers`
  contains the storage path as one kind of request; `StorageBilling` counts the
  numbers it draws.
- *Billing* writes `inquiries.status`; the dashboard writes it too, unguarded.
- *Estimations* end in `try_auto_generate_offer`, the first step of
  `OfferRouting`; the job waits for it (most with the permit), so it is one fair
  step of `Estimations`.
- *Automatic offers* hand their events to the *outbox*; `OfferRouting` EXTENDS
  `EventOutbox` and composes the runs with its consumer. What a run does between
  its lookup and its row is one step there and is taken apart in
  `OfferRevisions`, beside the other writers of an offer.
- *Offers* go out as the attachment of a draft: `send_draft` is in `MailDrafts`
  with all that happens to the draft, and in `OfferRevisions` with all that
  happens to the offer.
- The *mail agent* is in two modules: `MailIntake` ends where it drafts an answer,
  `MailDrafts` begins there. A complete inquiry reaches the orchestrator over a
  channel; the offer it then makes is `OfferRouting`.
- *Confirmations* run a tool, which is a call of one of the other services; a
  tool is an action with three outcomes there.
- Storage, mail, Telegram, the converter, the vision service and the language
  model are external: each call is a choice between success and failure.


## 2. Modules

| Module | Models | Lines of code it stands for |
|---|---|---|
| `InvoiceNumbers` | every path that draws, writes, overwrites or prints an invoice number | `routes/invoices.rs` (create, overwrite), `invoice_repo.rs`, the bridge, `storage_billing_service.rs` |
| `NumberBook` | abstract: blocks of consecutive numbers, each above all before | - |
| `InvoiceBilling` | send, payment, dunning, status of one job's invoices | `routes/invoices.rs` (send, patch), repositories, `billing_reminder_service.rs` |
| `PaymentLedger` | abstract: payments only add up, the system settles a job when all are there, only the operator settles or reopens it otherwise | - |
| `StorageBilling` | contracts, tick, generate-now, approve, reject, pay | `storage_billing_service.rs`, `storage_repo.rs`, `main.rs` |
| `EventOutbox` | emit, poll, mark, dispatch, the retention sweep, restart | `core/events/mod.rs`, `consumer.rs`, `retention.rs` |
| `AtMostOnce` | abstract: an event is recorded, taken once, handled at most once | - |
| `OfferRouting` | automatic offers and who asks the owner, over the outbox | `offer_pipeline.rs`, `offer_builder.rs`, `handlers.rs` |
| `OfferRevisions` | the offers of one inquiry: row, document, mail, answers | `offer_builder.rs`, `offer_repo.rs`, `inquiry_actions.rs`, `telegram_service.rs` |
| `PendingActions` | the assistant's confirmations from the proposal to the note | `confirmation.rs`, `driver.rs`, `confirm_dispatcher.rs`, `retention.rs` |
| `Approval` | abstract: proposed, approved or dropped, executed once | - |
| `MailDrafts` | drafts of e-mails on the dashboard, in tools and in the agent | `email_drafts.rs`, `email_dispatch.rs`, `admin_repo.rs`, `processor.rs` |
| `MailIntake` | the mailbox: poll, row, intake, flag, the inquiry made of it | `imap_client.rs`, `processor.rs`, `parser.rs`, `models/inquiry.rs`, `orchestrator.rs` |
| `Estimations` | the estimations of one inquiry and their jobs | `estimates.rs`, `submissions.rs`, `vision.rs`, `estimation_repo.rs`, `main.rs` |
| `CrewSchedule` | the days of one job and its crew | `inquiry_repo.rs`, `calendar_repo.rs`, `calendar_item_update.rs`, `calendar_service_impl.rs`, `employee_repo.rs` |
| `MC...` | the small instances TLC checks | - |
| `..._proofs` | the theorems, section 6 | - |

Conventions: an action carries the name of the function whose statement it is
(`next_invoice_numbers`, `mark_sent`, `sweep_copy`), capitalised when the code
has no function of its own for that step (`Smtp`, `Insert`, `Crash`). A process
is one call of a handler; its `pc` says which statement comes next and its other
variables are the values it read and carries on. An action is one statement with
the reads of unshared data in front of it. A definition commented `Bug:` (in
`Estimations`, the section of plausible bugs) is a mistake one could make in the
action under it; nothing in the specification uses it, the mutation list of
`PROJECT.json` does.

Some properties hold except where the code itself lets two requests meet. What
met is then kept in a variable that no action of the code reads (`touched` and
`cut` in `MailDrafts`, `overlapped` and `raced` in `OfferRevisions`, `cleaned`,
`raced` and `missed` in `Estimations`, `stray` in `CrewSchedule`, `broken` and
`again` in `MailIntake`), and the
property names it as its exception. That says exactly which overlap the code
leaves open, and that there is no other. The same is done for a statement whose
error the code drops or only logs (`unwritten` in `MailDrafts`, `uncanceled` in
`PendingActions`, `failed` in `StorageBilling`), and for what an operator may
write by hand over what the handlers keep (`hand` in `InvoiceBilling`, `reissued`
in `OfferRevisions`).

### InvoiceNumbers

`counter` is `invoice_number_counters.last_value` per year; `rows` both invoice
tables; a *request* is a call of `create_invoice` (`full`, `partial`), of the
assistant's create (`bridge`), of the storage billing (`storage`) or of
`update_invoice_number` (`renumber`). A number is `[year, seq, form]`: the form
is what `invoice_number::parse` tells apart (canonical, zero-padded, free
text), because uniqueness in the database is on the text while the book is about
the number. The document of a row is a record of the two numbers printed on it.
A create call goes `check -> draw -> insert`; the uploads in between only decide
which rows have a document (`Insert` chooses any subset, since an upload that
fails is logged). An overwrite goes `update -> advance -> reread -> reprint`.
`set_next_invoice_number` is the operator's counter setting. Left out: prices,
line items, due dates.

### InvoiceBilling

One job, its invoices (`Part` says whether it is a full invoice, an Anzahlung or
a Schlussrechnung), and calls of five handlers: `send` (`smtp -> mark_sent ->
to_invoiced -> remind`), `patch`, `register` and `record` (the three ways to
book a payment: `mark_paid`, then `close`, `count`, `settle` as far as each
handler goes) and `dun` (`dun_mail -> advance`). `mailed` and `dunned` are what
the customer got; the code does not store them, the properties need them.
`update_status` is the assistant's raw status of an invoice (any but 'paid', which
it hands to `mark_paid`), `update_inquiry` the operator's status of the job: any
one, 'paid' included, since `can_transition_to` allows every change. `hand` keeps
whether the operator ever wrote the job's status, and whether no handler wrote it
after (`Transition` is the UPDATE of the two handlers, which changes nothing
where the status does not match).
Left out: amounts, cash details, Teilzahlungen, extra services, the review
request sent after a settlement.

### StorageBilling

Days are numbered, months are `DaysPerMonth` long, a billing slot is a contract
and a month. Generators are the tick (which loops over the listing it read once)
and calls of generate-now; both run `period_billed -> draw -> insert -> render`.
Decisions are calls of approve and reject, each a read, an optional mail and an
unconditional write. A row carries how often it was mailed. With `Serial` a
decision is only taken when no other is under way, which is how one owner with
one phone uses it; without it they overlap. An INSERT may fail after its number
was drawn, for another row's number or an error of the database: the tick logs it
and draws again an hour later, `MaxFailures` times for a slot here.

### EventOutbox and OfferRouting

An event is its place in the order of `created_at`. The sweep is one transaction
of two statements under READ COMMITTED: `sweep_copy` fixes the cutoff and what
is copied, `sweep_delete` evaluates the condition again and commits. `Restart`
empties everything that is memory. `OfferRouting` adds the runs of
`try_auto_generate_offer`: the lookup, the persisting under the advisory lock
(one action, since the lock covers it), the spawned task that records the event,
the read of the flag, the stamp, the post.

### OfferRevisions

An offer is named by the run of `build_offer_with_overrides` that inserted it,
and a run's name stands for everything it computes: two rows or documents by one
run show the same. A run names an offer (`fetch_offer_number`: the dashboard's
regeneration, an edit in Telegram) or none (`next_offer_number`: intake and
assistant), uploads the document under the offer's key (`Upload`) and then
writes the row: in place, where the number stays (`update_returning`), or under
the inquiry's lock, where an active offer is adopted with the new number and key
(`insert_or_adopt`). The partial unique index is `Admitted`: a write that would
make a second offer active fails. The number comes from a counter that an operator
may set to anything (`set_next_offer`), and the table does not
refuse a second row with a number; `reissued` keeps the numbers the counter was
set back over. The mail with the offer reads row, document
and server one after the other and then marks the row; the customer's answer is
a lookup and a write; denial and the assistant's acceptance are single writes.
Left out: the status of the inquiry, which each step writes too and none reads,
and the fallback that stores a spreadsheet under its own key when the
conversion fails.

### PendingActions

A turn of the assistant is one step up to the row it inserts (`enqueue`), then
the keyboard is posted or the error logged. Taps wait in a queue in memory; one
task takes them in order: it reads the row (`handle_callback_query`), claims it
by the conditional UPDATE (`resume_confirmed`), runs the tool, which is done,
refuses or fails (`execute`), writes the note into the session
(`record_resolution`) and gives the assistant another turn, which may propose
the next action. Cancel and edit write row and note; an error of the first is
logged and the note written all the same (`uncanceled`), an error of the claim
ends the tap. Beside it an hour passes
(`BecomeDue`), the expiry loop and the retention sweep write the same rows, and
a restart empties queue and task. Left out: chats (a keyboard is posted in the
chat that queued its action) and the arguments of an action.

### MailDrafts

The drafts of one thread. A text stands for subject, body, recipients and
attachments and is a number, so that "the mail shows what the row shows" is an
equation. Requests of the dashboard and the tools write, edit and discard rows
in single guarded statements; sending is a read, the SMTP dialogue and an
unguarded mark. A new document of an offer discards the thread's generated
drafts and writes a new one. The e-mail agent is one task that works on copies:
it writes a row and keeps the copy, posts it, hands it to the language model for
an edit (`AwaitingEditInstructions`, `handle_edit_instructions`: the new text
goes over the row's), mails it (`Approve`, `send_approved_email`, `AgentMark`)
or discards it (`Deny`), all without looking at the row and without looking at the
error of its UPDATE; `unwritten` keeps the drafts whose edited text did not reach
the row. A restart loses the
copies.

### MailIntake

Mails are numbered as the mailbox does and carry who wrote them, whether they are
a quote form, a contact form or a free text, whether a form states its writer's
address, and which facts they tell. The agent is one task: `fetch_unread` takes
the oldest unread mails up to `Batch` and flags what the parser rejects; each mail
then goes `store -> answer -> flag`. An INSERT that fails does not stop it: the
mail is answered and not flagged, so that the next poll takes it again.
`run_intake` merges a new request into the open inquiry of its `inquiry_key`
(`merge_inquiry` fills empty fields only), sends a complete one to the channel and
forgets it; whether a contact form or a free text is a new request, and what the
language model finds in a text, is a choice. `handle_complete_inquiry` is the
orchestrator's task up to the commit of its transaction. A restart empties batch,
open inquiries and channel. `told`, `again` and `broken` are history. A poll that
fails as a whole changes nothing and is no step. Left out: threads, attachments,
the capacity question, what is drafted.

### Estimations

A row is made in one of eleven ways, grouped by what their jobs do: *photo*
(a submission's photos), *keyed* and *video* (uploads whose keys are or are not
stored), *ar*, *retry*, *clip* (the route that estimates several videos of a
request) and *now* (results that are stored at once: depth sensor, inventory
form, stated volume, items). A queued job goes `upload -> wait -> vision -> found
-> stored -> offer`, the middle of it under the semaphore, and stores by an
upsert; a clip goes `vision -> found -> marked -> counted -> summed -> offer`:
it counts the rows still processing, and the last adds all up. The volume is the
set of estimations it adds up. Beside the jobs: the retry of a failed row, the
deletion in four statements, the edit of the latest row in two, the clean-up of
rows that are 'processing' for half an hour, and restarts. A failure, a restart,
a deletion and an edit each use up one of `MaxMishaps`. Left out: the results
themselves, the storage's bytes; videos of one submission are independent jobs.
The job of the app's AR submission gives the permit back once it has its result,
the other queued jobs when they end. The inquiry's status is written as the code
writes it, and no property is about it.

### CrewSchedule

One job, an inquiry's move or a Termin (`kind`), whose tables and handlers
mirror each other: its first and last day (0 is NULL, also of a Termin, whose
list of crew is then refused when its date is read), the rows of crew
(employee and day), which of them carry recorded hours (`work`) and hours the
worker entered (`punch`), and the payroll overrides. A request that reads first
and writes in a transaction of its own is two steps, and what it read is in
`open[r]`; the statements of one transaction are one step. `Moves` is
`update_fields`: with a new start the rows without recorded hours shift by the
difference, those that would land on a recorded row or outside merge or drop;
otherwise what lies outside the new days is dropped. `PutsList` and `WritesCrew`
write a whole crew, `reassign_termin` does it in three statements that each
commit, `cleanup_hours_adjustments` applies the overrides it read before. Left
out: the status of the job, the active flag of an employee, requests that fail
before anything was committed. The payroll month is the whole calendar, with one
override at a time.


## 3. The runs

Deadlock checking is off in all of them because every model stops when its
bounded number of calls, days, texts or events is used up.

| Run | Instance | What it shows |
|---|---|---|
| `numbers_book` | 3 calls of any kind, 1 inquiry, 1 storage period, 1 year, numbers up to 4, all three spellings; 838 000 states | A drawn number is on a row or its call ended visibly (`NumberAccounted`); the counter is above every number in use except while an overwrite stands between its statements (`CounterCovers`); no text twice in a table (`TextUnique`); the allocator implements `NumberBook` (`BookSpec`) |
| `billing_concurrent` | 3 calls of any of the five handlers at once on an Anzahlung and its Schlussrechnung, raw status `void`, crashes, an operator who writes 'completed' or 'paid' on the job; 443 000 states | Paying both halves at once never loses the settlement (`AllPaidSettles`), and the handlers implement `PaymentLedger` (`LedgerSpec`) |
| `billing_serial` | 5 calls one after the other on one invoice, crashes, an operator who moves the job back; 123 000 states | The customer is dunned in order, levels repeat only after a crash (`LadderInOrder`), and a payment booked by the register ends the ladder (`PaidIsQuiet`) |
| `storage_billing` | 1 contract, the tick and one generate-now, 2 decisions one at a time, 3 days of which 2 make a month, edits of the contract, 1 restart, 1 failing INSERT, fair tick; 419 000 states | Once a month (`BilledOncePerMonth`), at most one number burnt per racer, restart and failed INSERT (`NumbersBurned`), sent means mailed and only PDFs are mailed (`SentWasMailed`), a payment stands (`PaymentStands`), and what is due is billed in its month (`DueIsBilled`) |
| `outbox_delivery` | 4 events, batches of 2, 2 restarts, fair consumer; 43 000 states | At most one event missed per restart (`MissedOnlyByRestart`), the sweep spares what was not seen (`UnseenIsKept`), the outbox implements `AtMostOnce` (`DeliverySpec`), the backlog drains (`BacklogDrains`) |
| `routing_concurrent` | 2 runs, 2 events, every fault, a flag that flips, 1 restart; 108 000 states | An offer written by one run is posted at most once (`NeverAskedTwice`), and with the agent off the owner is always asked (`AskedWithoutAgent`) |
| `confirm_actions` | 2 actions, 1 waiting tap beside the one in hand, every fault, 1 restart, fair task and expiry; 1.0 million states | What the session says of an action is what happened, a cancel that did not reach the row excepted (`NotesAreTrue`), an approved action is lost only by a restart, one for each (`LostOnlyByRestart`), the rows implement `Approval` (`ApprovalSpec`), and no action waits for ever (`EveryActionEnds`) |
| `mail_drafts` | 2 drafts, 2 send requests at once, the agent, 3 texts, 2 mails of a draft, every fault, 1 restart; 6.2 million states | A draft nobody met another at goes out at most once, with its row's text unless the agent's edit did not reach the row, and its row says so (`UntouchedIsSound`); a final row that nobody is at stays (`FinalIsFinal`) |
| `offer_revisions` | 3 runs of any kind, the mail, the answers, every fault, 1 restart, a counter set back to 1 at any time; 2.8 million states | One active offer (`OneActiveOffer`); row and document agree outside overlapping revisions in place (`DocumentMatchesRow`); no number on two offers unless the counter was set back over it (`NumbersDistinct`); what is 'sent' is what the customer has (`SentShowsTheMail`) |
| `mail_intake` | 3 mails of 2 people out of 7 (three kinds, with and without an address, one unreadable), polls of 2, 2 facts, 2 mishaps, fair agent and orchestrator; 1.7 million states | A mail has one row and is in one inquiry for each time it was processed, and is mixed with nobody else's (`EachMailOnce`); who told everything has an inquiry (`CompleteBecomesInquiry`); every mail ends up flagged and, if readable, stored (`EveryMailArrives`) |
| `estimation_jobs` | 2 estimations made in any way, deletion and edit, 1 mishap, fair jobs and clean-up; 702 000 states | The volume adds up completed rows (`VolumeIsBacked`), each medium once (`OneResultPerMedium`), clips add up in whatever order they end (`ClipsAddUp`), a result is not taken back (`CompletedStays`), and every estimation comes to rest (`EstimationEnds`) |
| `crew_schedule` | 1 employee, 2 open requests, 3 days, 4 requests; 2.2 million states | The crew lies on the job's days (`CrewInSpan`), recorded hours stay (`RecordedStays`), the crew travels with a move (`CrewTravels`) |

### Bounds, and why they are enough

- *Three requests* in `numbers_book`: two that race and one that overwrites or
  wins a period between them; every property relates at most two rows or a row
  and the counter. One year and one inquiry: years do not interact (the counter
  is per year), and two inquiries are two requests that do not find each other.
  Numbers up to 4 let a pair and two single draws happen and an operator type a
  number above or below the counter. `MayRewind` is off there because the
  properties are about an operator who does not move the counter down; the
  theorem `TextsDistinct` covers the other case.
- *Three calls, two invoices* in `billing_concurrent`: both halves paid at once
  and a send or a dunning beside them; the operator writes 'paid' over open
  invoices and 'completed' over a settled job. *Five calls* in `billing_serial`: send,
  three levels of the ladder, and a payment anywhere.
- *Three days, months of two days*: a contract that starts on the first or the
  last day of a month, an outage over a billing day, and a change of month. The
  contract ends on day 2 or never. One failing INSERT and one restart of a slot,
  and draws enough for both and for generate-now.
- *Four events, batches of two*: a backlog of two batches with a failing mark in
  each. Two restarts: one can repeat what the other did.
- *Two runs, one inquiry* in `routing_concurrent`: an offer belongs to an
  inquiry, nothing is shared across inquiries; the advisory lock makes a third
  run repeat the second.
- *Two actions, one waiting tap*: the tap in hand and the one behind it are a
  double tap, a tap on each of two buttons, or a confirmation after a cancel that
  failed; and a second action is proposed by the turn after the first. One restart
  at every place; the theorems cover more.
- *Two drafts, two senders, three texts*: two sends and the agent at one draft,
  a draft that waits for an edit while the next is opened, an edit between read
  and mark. Two mails of one draft are what the properties forbid.
- *Three runs* in `offer_revisions`: two revisions of an offer that a third
  inserted, or three that insert and adopt. The counter set back to the start (`MaxSet` is
  the highest number it is set to) before, between or after their draws; that it is
  set to other numbers is covered by the theorems.
- *Two estimations*: a row and its retry, two clips, a job and a deletion. One
  mishap, anywhere: `ClipsAddUp` is about runs without one, and the other safety
  properties of the run are theorems for any number of estimations and mishaps.
- *Three mails, polls of two*: a request spread over two mails with another
  person's between them, and a mail left for the next poll by the limit. Two
  mishaps: a mail not stored and then not flagged, a restart and a lost event.
- *One employee, three days*: rows of different employees never meet in a
  statement. Three days let a job of two days move by one over itself, onto a
  recorded row, and out of its window. Four requests, two at once: a crew, its
  hours, and two requests that overlap.
- `MaxDraws`, `MaxCrashes`, `MaxFailures`, `MaxSet`, `MaxRestarts`, `MaxEvents`,
  `LastDay`, `MaxNum`,
  `MaxTaps`, `MaxTexts`, `MaxMails`, `MaxMishaps`, `MaxDay` and `MaxEdits` are
  the only caps, each a guard of the action that counts.
- Symmetry is only used for what is interchangeable (calls, drafts, runs, rows,
  requests) and in runs without liveness.

### Fairness

- `StorageBilling!FairSpec`: weak fairness of the tick's next step. `main.rs`
  runs the tick from an interval timer in an endless loop and every error is
  logged and skipped. Nothing is assumed of calls or of the owner. `DueIsBilled`
  rests on finitely many failing INSERTs (`MaxFailures`): where every hour's fails,
  the month is not billed.
- `EventOutbox!FairSpec`: the poll loop goes on, a handler returns (it is awaited
  with its errors logged), and the next event of a batch is marked or the mark
  fails. Strong fairness of each mark says only that the database does not
  refuse the same statement forever; without it `BacklogDrains` is false. The
  sweep and the restarts are not fair.
- `PendingActions!FairSpec`: the task that handles taps goes on while the process
  is up, an hour passes, and the expiry loop runs every five minutes. The owner
  need not tap, the keyboard need not arrive, the sweep need not run.
- `MailIntake!IntakeFairSpec`: the poll loop goes on and each mail of a batch is
  finished, and the orchestrator's task takes the next event. Both loops are
  endless and log every error. `imap_client.rs` sets no time limit, so this
  assumes that the mail server answers or the connection breaks; and finitely many
  of its answers are errors (`MaxMishaps`).
- `Estimations!FairSpec`: weak fairness of a job's next step (uploads, polls and
  statements have time limits and return), of a deletion's, and of the clean-up,
  which runs for as long as the process does. Strong fairness of `acquire`:
  tokio's semaphore queues its waiters in order, so a job that waits gets the
  permit although others come and go. Nothing is assumed of requests or retries.


## 4. Hazards

`PROJECT.json` lists them with their lines and the properties that catch them.
The families: numbers drawn in one statement and used in a later one; a mail
sent before the row that records it; a status read before a slow call and
overwritten after it; several ways to do one thing that each do other parts of
it; a transaction of two statements that see different snapshots; an event that
overtakes the row it is about; a document uploaded before the row it belongs to;
a claim made before the work it is for; a copy in memory beside the row; jobs
that end in any order and count each other; rows moved onto rows that stay.


## 5. What reading found beside the runs

Behaviours the models contain and that no run shows as a counterexample: a
property names them as its exception, or no property can hold for them, or they
are what the code intends.

Invoices, storage, events:

- Two creates at once for one inquiry both find no invoice and both insert
  (`routes/invoices.rs:264` calls it idempotent).
- An overwrite can take a number that exists in the other table or under the
  other spelling: the check is by text and by table (`routes/invoices.rs:511`,
  `:535`). `BookUnique` therefore excepts numbers an operator typed.
- Two overwrites of one row print over the same storage key in the order their
  uploads end; the document may show the older number (`:500`, `:554`). A
  Schlussrechnung keeps quoting a deposit's number that was overwritten
  (`invoice_repo.rs:235`).
- An invoice that is paid and sent again reads 'sent' and has reminders again, so
  it is dunned (`invoice_repo.rs:680` against `invoice_reminder_repo.rs:26`,
  "must never be dunned again").
- The assistant's `record_payment` neither settles the job nor closes the ladder
  (`bridge/invoice_service_impl.rs:426` against `routes/invoices.rs:667`).
  `AllPaidSettles` and `PaidIsQuiet` leave that call out.
- `send_dunning` checks that a step is pending and the invoice not paid, not
  that it is due or that the invoice still reads sent
  (`billing_reminder_service.rs:103`); a stale button duns a voided invoice.
- The operator may write 'paid' on a job with open invoices, and anything over a
  settled one (`inquiry_update.rs:92`, `models/inquiry.rs:46`). `SettledMeansPaid`,
  `BilledMeansMailed` and `AllPaidSettles` are about statuses the handlers wrote, and
  the ledger has a step for the hand (`Override`).
- A storage invoice's INSERT that fails after the draw, for a number that is taken
  or an error of the database, is logged and drawn for again at the next tick
  (`storage_billing_service.rs:46`): a number every hour while it goes on.
- Sending an Anzahlung moves the job to `invoiced` from any earlier status, also
  before the move took place (`invoice_repo.rs:697`).
- Two approvals of a storage invoice that both pass the status check mail it
  twice (`storage_billing_service.rs:230` says idempotent); a rejection that
  passed its check cancels an invoice a concurrent approval has just mailed
  (`:310`). Hence `Serial` in the properties about decisions.
- The sweep of the outbox deletes an old event without a copy when it is marked
  between the INSERT and the DELETE (`retention.rs:348`).
- The consumer may read an offer before it is stamped, and the run then leaves
  the post to the agent: nobody asks (`offer_pipeline.rs:116`, `:131`). Two runs
  that draft one inquiry at once adopt one offer and both ask for it (`:21`,
  `:40`); `NeverAskedTwice` is about offers of one run.

Offers:

- Adoption may meet any active offer, also one that was sent or accepted, and
  makes it a draft with a new number; the comment at `offer_builder.rs:671` has
  it that only a row of the same request can be there, but intake and assistant
  name no offer. Number, row and document agree after it, which is what
  `DocumentMatchesRow` and `NumbersDistinct` say.
- A revision in place uploads before it writes; two of one offer, or one cut off
  by a failure, leave a document of one revision and a row of another
  (`overlapped`).
- The counter of offers can be set to any number from 1 (`settings_repo.rs:212`,
  `routes/admin.rs:3382`) and `offers.offer_number` has no unique constraint: set
  back over numbers in use, it numbers two offers alike. `NumbersDistinct` excepts
  exactly those numbers (`reissued`).
- Marking an offer sent, accepting and denying it are unconditional
  (`telegram_service.rs`, `inquiry_actions.rs`): an accepted offer reads 'sent'
  after a mail that was under way. The customer accepts by the inquiry, whatever
  revision the active offer shows by then (`raced`).

Drafts of e-mails:

- Two sends at once of one draft mail it twice; an edit between read and mark
  leaves a row with another text than the mail (`email_drafts.rs:30`).
- The agent mails its copy although the dashboard edited, sent or discarded the
  row (`admin_emails.rs:290`: discarding "Prevents accidental sends of stale
  drafts"), writes an edited text over a sent row, and turns a sent row
  'discarded'. A copy whose mail or post failed is dropped.
- The agent drops the error of its UPDATEs (`processor.rs:868`, `:1131`): after an
  edit that did not reach the row, the customer gets another text than the row shows
  (`unwritten`), and a denied draft may stay on the dashboard.

Mailbox:

- A mail whose INSERT or flag keeps failing is answered again at every poll: a new
  draft, a notification, another call of the language model, another inquiry
  (`processor.rs:632`; the comment at `:640` describes it for a mail without
  Message-ID). `again` counts these passes.
- The limit takes the oldest unread mails, so `MAX_MESSAGES_PER_POLL` mails that
  can never be fetched would keep every later one out; `EveryMailArrives` holds
  because failures end.
- Web forms without an address share one open inquiry under the company's own
  (`parser.rs:249`, `processor.rs:506`): the facts of several people can make one
  inquiry. `EachMailOnce` is about mails that state who wrote them.
- Open inquiries and the channel are memory: a restart loses what was told so far,
  though the mails are flagged, and an inquiry whose transaction fails is logged
  and gone (`broken`).
- A later mail that corrects a fact is not heard: `merge_inquiry` fills empty
  fields only, as its comment says.

Confirmations:

- The note that an action was not executed is written although the UPDATE may
  have found the row resolved; it is true nevertheless, because one task handles
  all taps (`NotesAreTrue`). It is also written when the UPDATE failed
  (`telegram_input.rs:545`, `:574`): the action is then still pending, a later
  confirmation runs its tool, and the session has it as not executed (`uncanceled`).
- The claim precedes the tool, so a restart between them loses an approved action
  for good (`LostOnlyByRestart`). The expiry is not looked at when the tap is
  handled: an action that is due and not yet expired by the loop can be
  confirmed.

Estimations:

- Clips: when the last job to end fails, nobody adds up the results and no offer
  is made (`estimates.rs:611`); a sum that cannot be read counts as 0 and makes
  the inquiry 'pending'. Clips do not queue for the semaphore.
- Queued jobs make their own total the volume, whatever the other rows say: a
  retry of one of several rows leaves only its own.
- A retry makes its row before it looks for the keys: without keys the request
  fails and the row is 'processing' until the clean-up. Rows made by the app's
  frames, by the dashboard's video upload and by submissions of videos have no
  keys a retry reads. An AR submission drops the permit before it stores its
  result (`submissions.rs:522`), so two such jobs store at once. A submission's job marks no row failed and leaves that to
  the clean-up.
- The upsert completes a row that the clean-up failed meanwhile (and a retry of
  it counts the medium a second time: `cleaned`), and makes a deleted row again.
- The edit of the item list replaces the result of the latest row also while it
  is processing or failed (`raced`).

Crew:

- A whole-crew save on a Termin without a date fails, because the date is read as
  one that must be there (`calendar_items.rs:464`).
- The assistant's replacement of a crew goes on booking when its deletion of old
  rows failed (`calendar_service_impl.rs:502`).
- The deletions of rows outside the job's days look at the recorded hours only:
  what the worker entered for a day is lost when the day is dropped or its row
  lands on a recorded one. Writing the crew for the job (`set_inquiry_crew`,
  `reassign_termin`) drops recorded rows of employees who are not named.
- A whole-crew save deletes rows that were added after the client read its list.
- An override added between the read and the transaction of the payroll clean-up
  is deleted without being applied (`employee_repo.rs:2140`).
- Two moves at once: the second shifts the crew by the difference to a date that
  is no longer the job's; hence `open[r].old = start` in `CrewTravels`. A crew
  may be written for days the job has left, or for a day given explicitly
  (`stray`).


## 6. What is proved

For every value of the constants (any number of calls, invoices, contracts,
events, actions, drafts, runs, estimations, any bounds), by `tlapm`:

| Theorem | Statement | Assumption |
|---|---|---|
| `InvoiceNumbers_proofs!TypeCorrect` | types, and no draw passes the bound | - |
| `DrawnOnce` | `[]NumberDrawnOnce`: no number is handed out twice | in the property: counter not moved down |
| `BookIsUnique` | `[]BookUnique`: no two rows share a number unless an operator typed it | the same |
| `TextsDistinct` | `[]TextUnique`, also where the counter was moved down | - |
| `NumbersAccounted` | `[]NumberAccounted`: a drawn number is on its rows, or its call still has to insert, failed, died or lost its period | - |
| `CounterIsAhead` | `[]CounterCovers` | in the property: counter not moved down |
| `ImplementsBook` | `Spec => BookSpec` | `~MayRewind` |
| `InvoiceBilling_proofs!TypeCorrect` | types | - |
| `SettledIsPaid` | `[]SettledMeansPaid`: a settled job has a payment date on every invoice | in the property: the operator did not write the status last |
| `BilledIsMailed` | `[]BilledMeansMailed` | in the property: the operator did not write the status last |
| `PaymentsSettle` | `[]AllPaidSettles` | in the property: no call died, none is the assistant's, no status set by hand |
| `DunnedInOrder` | `[]LadderInOrder`, also over crashes | `Serial` |
| `PaidLeftAlone` | `[]PaidIsQuiet` | `Serial`, operations among send, register, dun |
| `ImplementsLedger` | `Spec => LedgerSpec`, where a status written by hand is a step of the ledger's own | - |
| `StorageBilling_proofs!TypeCorrect` | types | - |
| `OncePerMonth` | `[]BilledOncePerMonth` | - |
| `SentIsMailed` | `[]SentWasMailed`, also where decisions overlap | - |
| `PaymentsStand` | `PaymentStands`, a property of steps | in the property: decisions one at a time |
| `BurnedBounded` | `[]NumbersBurned`: one number for each call, restart and failed INSERT, and one for the ticks | `Manual` is finite |
| `OfferRouting_proofs!TypeCorrect` (of `EventOutbox`) | types | - |
| `AtMostOnceHandled` | `[]HandledAtMostOnce` | - |
| `SweepSparesUnseen` | `[]UnseenIsKept` | - |
| `MissedByRestart` | `[]MissedOnlyByRestart` | - |
| `ImplementsDelivery` | `Spec => DeliverySpec` | - |
| `RoutingRunsOnOutbox` | `RoutingSpec => Spec` of the outbox | - |
| `AskedOnce` | `[]NeverAskedTwice` | `Runs` is finite |
| `DraftsAreAsked` | `[]AskedWithoutAgent` | - |
| `PendingActions_proofs!TypeCorrect` | types | - |
| `NotesTrue` | `[]NotesAreTrue` | in the property: the cancel's UPDATE did not fail |
| `LostByRestart` | `[]LostOnlyByRestart` | - |
| `ImplementsApproval` | `Spec => ApprovalSpec` | - |
| `Mail_proofs!TypeCorrect` (of `MailDrafts`) | types | - |
| `SentIsMailed` | `[]SentWasMailed` | - |
| `UntouchedSound` | `[]UntouchedIsSound` | in the property, for the text: the agent's edit reached the row |
| `FinalStaysFinal` | `FinalIsFinal`, a property of steps | - |
| `MailsTakenOnce` | `[]EachMailOnce` | - |
| `CompleteIsMade` | `[]CompleteBecomesInquiry` | - |
| `OfferRevisions_proofs!TypeCorrect` | types | - |
| `AtMostOneActive` | `[]OneActiveOffer` | - |
| `DocumentsMatch` | `[]DocumentMatchesRow` | - |
| `NumbersAreDistinct` | `[]NumbersDistinct` | in the property: the counter was not set back over the number |
| `SentIsTheMail` | `[]SentShowsTheMail` | - |
| `Inquiry_proofs!TypeCorrect` (of `Estimations`) | types | - |
| `VolumeBacked` | `[]VolumeIsBacked` | - |
| `OneResult` | `[]OneResultPerMedium` | `Estimations` is finite |
| `ResultsStay` | `CompletedStays`, a property of steps | - |
| `ClipsSummed` | `[]ClipsAddUp` | - |
| `CrewOnItsDays` | `[]CrewInSpan` | - |
| `RecordedHoursStay` | `RecordedStays`, a property of steps | - |
| `CrewGoesAlong` | `CrewTravels`, a property of steps | - |

`BillingAssumption` leaves one status out of what the assistant writes on an invoice:
`update_status` hands 'paid' to `mark_paid` (`invoice_service_impl.rs:308`). The
operator's statuses of a job are any.

The modules' named assumptions about constants (`NumbersAssumption`,
`BillingAssumption`, `StorageAssumption`, `OutboxAssumption`,
`ConfirmAssumption`, `DraftsAssumption`, `RevisionsAssumption`,
`EstimationsAssumption`, `RoutingAssumption`, `CrewAssumption`, `IntakeAssumption`,
and those that keep `NoAction`, `NoDraft`, `None` and
`NoOne` apart from the sets they are no member of) are the only others; TLC
evaluates them on every run.

The arguments:

- **InvoiceNumbers.** `NumberDrawnOnce` alone is not inductive: a draw could hand
  out a block that overlaps unless the counter is above every block of its year
  (`DrawnBelowCounter`). `BookUnique` follows because a row comes from a finished
  call and carries one of its numbers (`RowOrigin`), rows have distinct keys
  (`RowKeys`), and the blocks are disjoint. `TextUnique` needs that an overwrite
  under way is of a row of `invoices` (`EditTable`), since its check looks at
  that table only. The refinement maps a draw to `Give` and all else to a
  stutter. `NumberAccounted` counts the rows of a call by their keys (`Accounted`):
  an insert writes one row for each number of the block, and no step removes one
  or changes its key. `CounterCovers` holds of a drawn number because the counter
  stands at the end of its block and only moves up (`CoverStays`), and of an
  overwritten one because `advance_invoice_sequence` raises the counter before the
  call goes on.
- **InvoiceBilling.** `count_unpaid` looks at the statuses and the settlement
  comes one statement later, so the invariant must remember what was seen: a
  call about to settle saw every invoice paid, and paid implies a payment date
  that nothing removes (`PaidHasDate`, `SettlesPaid`), although `mark_sent` may
  have overwritten the status since. What the operator wrote is told apart by `hand`,
  which a handler's own UPDATE sets back; the refinement maps job and hand to open,
  settled by the system, settled by hand, reopened. `BilledMeansMailed` needs that a call past
  its mail has mailed (`MailedFirst`) and that a dunning call is about an
  invoice with a ladder (`DunsLadder`).
  `AllPaidSettles` speaks of states where nothing runs; `SettlePending` says what
  holds before: where every invoice reads paid, the job is settled or a payment has
  its count still ahead of it. It survives a call that counts and finds one unpaid,
  because the call that pays that one counts later (`OpKnown` says which calls are
  payments). `LadderInOrder` and `PaidIsQuiet` are about one call at a time
  (`OneRunning`), which is what their run checks. `Serial` is needed: without it
  TLC finds a call that read the first level and mails it after another one mailed
  the second, and a payment booked during a send whose ladder stays open. The
  ladder stands at the level last mailed or one above it (`LevelsMeet`), and a call mails the level the row has and advances from that one
  (`DunsAtLevel`). A call that bills or duns is about an unpaid invoice
  (`AboutUnpaid`), and the ladder of a paid one is closed or its call about to close
  it (`PaidCloses`); `PaidLeftAlone` leaves out `patch` and `record`, which book the
  payment and not the ladder (`OpKnown`), as its run does.
- **StorageBilling.** A decision about to mail is about a row with a PDF and one
  about to mark about a row that was mailed (`DecidesOn`); that survives other
  decisions because nothing takes a document or a mail away, and survives
  `render_pdf` because a row being rendered was never mailed (`RenderFresh`).
  Both need that a key names one row, which is `BilledOncePerMonth` itself.
  `PaymentStands` follows from `Payments`: one decision is under way, never about
  a paid invoice, and what is paid reads paid. For `NumbersBurned` a number of a
  slot is charged to a call that drew it, a restart or a failed INSERT (`Spent`); at most one
  more is the tick's, and once it has it the slot is billed, its contract deleted
  or the tick about to insert (`Burned`), so no later tick draws another.
- **EventOutbox.** The batch holds no marked event (`BatchUnmarked`), handlers
  ran only for marked ones (`RunsAfterMark`), what the sweep copied was seen
  (`CopiedSeen`). Each restart adds at most one marked event without a run,
  because at most one is between its mark and its handler.
- **OfferRouting.** Every step of the routing is a step of the outbox or leaves
  it alone, so the outbox's invariant comes for free (`RoutingRunsOnOutbox`).
  `NeverAskedTwice` is about an offer one run holds (`Sole`): it has at most one
  event (`EventOnce`), its stamp is that run's decision (`Stamped`), and so either
  the run posts it or the handler of the event does, which runs once (`PostedOnce`).
  Until its run is done a drafted offer still has its post ahead, unless the run was
  cut off or left it to the agent (`AskPending`). That "one run" is a cardinality
  needs `Runs` finite.
- **PendingActions.** `Phases` says what the task's place implies about the row
  it works on: between the look and the claim only the expiry loop can have
  written it, so a cancel that finds it resolved finds it expired, and its note
  is true; a cancel that failed is in `uncanceled`. What ran was approved (`RanAfterApproval`), what is noted has ended
  (`NotesAfterEnd`). A restart adds at most the one action that stood before its
  tool. In the refinement an expiry drops a whole set of actions at once, which
  is why `Approval` has `Drop(S)`.
- **MailDrafts.** `SentWasMailed` holds for all drafts because a mark follows a
  mail in the same process (`MarksMailed`). The rest is about drafts outside
  `touched` and `cut`: such a draft has at most one process at it (`OneActor`),
  which has read what the row still says (`CopyIsRow`, `ReadIsRow`), so mail and
  row agree when it lets go (`RestIsMailed`), unless the text is in `unwritten`, which the
  agent's next write that reaches the row takes it out of. `FinalIsFinal` is a property of
  steps: what changes a final row or mails it would have to be at it before.
- **MailIntake.** A pass over a mail that ends without the flag is in `again`; the
  pass that flags is the last. So a mail not kept by the pass under way has at most
  `again` rows (`RowOnce`), and one not merged by it has at most `again` uses, where
  a use is a sent inquiry or the open one it is part of (`UsedOnce`): sending turns
  the open use into a sent one, and merging again into the same open inquiry adds
  none, because the address of an inquiry is that of all its mails (`OneAddress`).
  From that also follows that a writer who gave an address is not mixed with
  another. What a customer told is what the open inquiry knows, until one is sent
  (`ToldIsKnown`), which happens as soon as nothing is missing (`OpenIsIncomplete`),
  and what was received was written or its address is in `broken` (`MadeOrBroken`).
  That the agent's current mail is in its batch rests on the library's theorem that
  `<` is well-founded on the naturals. The proof showed that `Facts` must not be
  empty, which `IntakeAssumption` now says: `missing_fields` asks for several.
- **OfferRevisions.** `OneActiveOffer` follows from the index, except that an
  adopted offer must be the active one. A drawn number is on one run that still
  has to write or on the one row that took it (`Numbers`): the counter is at or past every
  number outside `reissued`, which is what setting it back adds to. A row's key is its own
  or that of a run that inserted no row (`Keys`), so no other run uploads there;
  a run without a target is alone with its document (`OwnDocument`); and an
  offer outside `overlapped` has at most one revision between upload and row,
  whose document is the one in place (`Single`). `SentShowsTheMail` adds that the
  mail and the answer under way have read what the row shows (`MailHasRow`,
  `AnswerHasRow`), unless a revision met them (`raced`).
- **Estimations.** What the volume adds up is completed or named by a request
  that is about to take it out or put it in (`Backing`); the same holds of the
  sums that jobs and deletions carry, because a row that leaves 'completed'
  while somebody is writing is in `raced`. `CompletedStays` needs that a stated
  volume inserts a row that is not there yet (`Shape`). `OneResultPerMedium` rests
  on `Retried`: of two rows of one medium one was retried, which it only is once
  its row has failed, and a failed row whose job has ended stays failed, unless
  the clean-up failed it under its job (`cleaned`) or it was retried before.
  `ClipsAddUp` speaks of the end; before it, as long as only clips were posted and
  nothing failed or was missed (`Undisturbed`), every row still processing has a job
  that will complete it (`ClipJobs`), and the volume is the sum or some job will
  still write it (`SumComes`): the one that counts no row processing is followed by
  a sum no other job can make out of date without being in `missed`.
- **CrewSchedule.** An open request is bound by what it read (`HoldsOK`): its list
  is of days of the job as it was, its crew and days are real, an override is either
  off or paid. A new day range comes with the rows on it (`KeepInsideStep`,
  `MoveCrewStep`), because end and start move together and never cross (`DatesOK`,
  `NewDates`), and rows are booked for exactly the days of the job
  (`SeriesOfDays`). Whatever is written from an older range is in `stray`.
  `RecordedStays` goes through the handlers: only a list, another crew, a clean-up
  and a removal touch a row with hours (`HandlersSpareHours`), and hours are only on
  rows that exist (`RowsOK`). In `CrewTravels` a changed start can only come from
  that request's own move (`OnlyMovesMove`); with the length kept every row lands on
  the new days (`RowsLand`).

Only model-checked: the liveness properties (`DueIsBilled`, `BacklogDrains`,
`EveryActionEnds`, `EstimationEnds`, `EveryMailArrives`; liveness under fairness
and ENABLED are out of the prover's reach). Every invariant, step property and
refinement a run checks is also a theorem. Conversely `TypeOK`, `NumberDrawnOnce`,
`BookUnique`, `SettledMeansPaid`, `BilledMeansMailed`, `HandledAtMostOnce` and
`MailDrafts!SentWasMailed` are proved and not part of a run; `OfferRouting`,
`CrewSchedule` and `MailIntake` have their types in the inductive invariants
(`RoutingTypeOK`, `RowsOK` with `DatesOK`, `IntakeTypeOK`). None of the modules
uses a RECURSIVE operator, which the prover could not handle, and no property
needs an induction over data.


## 7. Plan

What is left, in the order of what the business loses when it goes wrong:

1. Proofs: an abstract specification of the estimations (what the volume promises)
   and of the drafts, with the refinements `Estimations` and `MailDrafts` owe.
2. `MailIntake` composed with `MailDrafts`: the draft each pass over a mail leaves,
   and the threads mails are sorted into.
3. The additional appointments of an inquiry with their own crews, and the
   deletion of a job, in `CrewSchedule`; there also the interleaving of
   statements inside transactions that READ COMMITTED allows, which are one step
   now.
4. Briefings and reminders: the claim of a slot over restarts.
5. The side effects of a status change of an inquiry.


## 8. Not modelled, and why

- Documents, spreadsheets, PDF conversion: output without state.
- Pricing: floating-point arithmetic over many inputs, covered by golden tests.
- Profit and accounting views, calendar reads, capacity, flash contact: reads or
  single statements that nothing interleaves with. Employees, customers,
  settings and vehicles are single-row CRUD; much of the large route and
  repository files is that.
- Briefings: one INSERT by a unique key claims the slot, one call posts it; at
  most once by construction, lost when the process dies between.
- Login codes and sessions: authentication is left to a review of its own.
- Row-level security and tenants: PostgreSQL policies; the modules describe one
  tenant.
- The LLM dialogue, memory and parsing of free text: not a transition system one
  can write down; what they do to the database goes through the services above.
- Clients of S3, the LLM providers, the router, and the Python vision service:
  their failures are choices in the models that call them.
