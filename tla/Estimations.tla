---------------------------- MODULE Estimations ----------------------------
(***************************************************************************)
(* The volume estimations of one inquiry and the jobs that make them.      *)
(*                                                                         *)
(* A request stores a row of volume_estimations as 'processing' and spawns *)
(* a job.  The jobs of submissions, uploads and retries queue for a        *)
(* semaphore of one permit, store their result by an upsert and make their *)
(* own total the inquiry's volume.  The jobs of estimates.rs ("clips") do  *)
(* not queue, update the row they find and, the last one, make the sum of  *)
(* the completed rows the volume.  Other requests store a completed row at *)
(* once.  A row can be retried, deleted and edited at any time; a clean-up *)
(* fails rows that stay 'processing'; the process may restart.             *)
(*                                                                         *)
(* The inquiry's volume is modelled as the set of estimations it adds up.  *)
(***************************************************************************)
EXTENDS Integers, FiniteSets, Sequences

CONSTANTS
  Estimations,   \* the rows that may be made
  Interventions, \* what the dashboard does to rows, of {"delete", "edit"}
  MaxMishaps     \* bound: failed calls, restarts, deletions and edits, together

ASSUME EstimationsAssumption ==
  MaxMishaps \in Nat /\ Interventions \subseteq {"delete", "edit"}

NoOne == "no one"
ASSUME NoOneAssumption == NoOne \notin Estimations

VARIABLES
  row,       \* status of each row
  way,       \* the kind of request that made it
  of,        \* the row whose media it estimates: its own or the one it retries
  media,     \* rows with storage keys that a retry reads
  made,      \* the rows in the order of created_at
  job,       \* where the job of each row is
  permit,    \* the job that holds the semaphore
  csum,      \* the rows the job of a clip added up
  del,       \* where the deletion of each row is
  dsum,      \* the rows the deletion added up
  editing,   \* the row whose items a request edits
  posting,   \* whether a request is still storing clips
  volume,    \* the estimations estimated_volume_m3 adds up
  status,    \* the inquiry's status
  cleaned,   \* rows the clean-up failed while their job was running
  raced,     \* rows that stopped backing a volume somebody was writing
  missed,    \* whether a sum of clips was not read, not written or out of date
  mishaps    \* how often a call failed, the process restarted, an admin stepped in

rows == <<row, way, of, media, made>>
jobs == <<job, permit, csum>>
deletion == <<del, dsum>>
inquiry == <<volume, status>>
history == <<cleaned, raced, missed>>
vars == <<rows, jobs, deletion, editing, posting, inquiry, history, mishaps>>

\* A call may fail and somebody may step in as long as the bound allows.
Mishap == mishaps < MaxMishaps /\ mishaps' = mishaps + 1
Fine == UNCHANGED mishaps

Fresh(e) == way[e] = "none"      \* not used yet
Exists(e) == row[e] \in {"processing", "completed", "failed"}
Completed == {e \in Estimations : row[e] = "completed"}
Queued(e) == way[e] # "clip"     \* its job queues for the semaphore

Statuses == {"none", "processing", "completed", "failed", "deleted"}
Ways == {"none", "photo", "keyed", "video", "ar", "clip", "retry", "now"}
Phases == {"none", "upload", "wait", "vision", "found", "failing",
           "marked", "counted", "summed", "stored", "insert", "offer"}

TypeOK ==
  /\ row \in [Estimations -> Statuses]
  /\ way \in [Estimations -> Ways]
  /\ of \in [Estimations -> Estimations]
  /\ media \subseteq Estimations
  /\ made \in Seq(Estimations)
  /\ job \in [Estimations -> Phases]
  /\ permit \in Estimations \cup {NoOne}
  /\ csum \in [Estimations -> SUBSET Estimations]
  /\ del \in [Estimations -> {"none", "files", "gone", "summed"}]
  /\ dsum \in [Estimations -> SUBSET Estimations]
  /\ editing \in Estimations \cup {NoOne}
  /\ posting \in BOOLEAN /\ missed \in BOOLEAN
  /\ volume \subseteq Estimations
  /\ status \in {"pending", "estimating", "estimated"}
  /\ cleaned \subseteq Estimations /\ raced \subseteq Estimations
  /\ mishaps \in 0 .. MaxMishaps

Init ==
  /\ row = [e \in Estimations |-> "none"]
  /\ way = [e \in Estimations |-> "none"]
  /\ of = [e \in Estimations |-> e]
  /\ media = {} /\ made = <<>>
  /\ job = [e \in Estimations |-> "none"]
  /\ permit = NoOne
  /\ csum = [e \in Estimations |-> {}]
  /\ del = [e \in Estimations |-> "none"]
  /\ dsum = [e \in Estimations |-> {}]
  /\ editing = NoOne /\ posting = FALSE
  /\ volume = {} /\ status = "pending"
  /\ cleaned = {} /\ raced = {} /\ missed = FALSE
  /\ mishaps = 0
-----------------------------------------------------------------------------
(* Plausible bugs, for checking that the properties notice them.           *)

\* A failed job fails its row whatever the row is.
FailAny(e) ==
  /\ job[e] = "failing"
  /\ job' = [job EXCEPT ![e] = "none"]
  /\ row' = [row EXCEPT ![e] = "failed"]
  /\ UNCHANGED <<way, of, media, made, permit, csum, deletion, editing, posting, inquiry, history, mishaps>>

\* Any row can be retried.
RetryAny(e, f) ==
  /\ Exists(e) /\ Fresh(f)
  /\ row' = [row EXCEPT ![f] = "processing"]
  /\ way' = [way EXCEPT ![f] = "retry"]
  /\ of' = [of EXCEPT ![f] = of[e]]
  /\ made' = Append(made, f)
  /\ media' = IF e \in media THEN media \cup {f} ELSE media
  /\ job' = [job EXCEPT ![f] = IF e \in media THEN "upload" ELSE "none"]
  /\ UNCHANGED <<permit, csum, deletion, editing, posting, inquiry, history, mishaps>>

\* The volume is added up before the row is deleted.
SumWithDeleted(e) ==
  /\ del[e] = "gone"
  /\ del' = [del EXCEPT ![e] = "summed"]
  /\ dsum' = [dsum EXCEPT ![e] = Completed \cup {e}]
  /\ UNCHANGED <<rows, jobs, editing, posting, inquiry, history, mishaps>>

\* A clip counts its own row among those still processing.
CountBeforeMark(e) ==
  /\ job[e] = "found" /\ ~Queued(e)
  /\ row' = IF Exists(e) THEN [row EXCEPT ![e] = "completed"] ELSE row
  /\ job' = [job EXCEPT ![e] = IF \E f \in Estimations : row[f] = "processing"
                               THEN "none" ELSE "counted"]
  /\ UNCHANGED <<way, of, media, made, permit, csum, deletion, editing, posting, inquiry, history, mishaps>>

\* A failed job keeps the permit.
KeepPermit(e) == permit
-----------------------------------------------------------------------------
(* Requests that make a row and spawn its job.                             *)

\* A new row of one of the ways, and where its job starts.
NewRow(e, w, s, phase) ==
  /\ Fresh(e)
  /\ row' = [row EXCEPT ![e] = s]
  /\ way' = [way EXCEPT ![e] = w]
  /\ made' = Append(made, e)
  /\ job' = [job EXCEPT ![e] = phase]

create_processing(e, w) == NewRow(e, w, "processing", "upload")

\* Photos of a customer; frames of the app; the videos of a customer.
handle_submission(e) ==
  /\ create_processing(e, "photo")
  /\ UNCHANGED <<of, media, permit, csum, deletion, editing, posting, inquiry, history, mishaps>>

handle_ar_submission(e) ==
  /\ create_processing(e, "ar")
  /\ UNCHANGED <<of, media, permit, csum, deletion, editing, posting, inquiry, history, mishaps>>

video_inquiry(e) ==
  /\ create_processing(e, "keyed")
  /\ UNCHANGED <<of, media, permit, csum, deletion, editing, posting, inquiry, history, mishaps>>

\* The dashboard's uploads for an inquiry that exists set its status first.
trigger_estimate_upload(e) ==
  /\ create_processing(e, "keyed")
  /\ status' = "estimating"
  /\ UNCHANGED <<of, media, permit, csum, deletion, editing, posting, volume, history, mishaps>>

trigger_video_upload(e) ==
  /\ create_processing(e, "video")
  /\ status' = "estimating"
  /\ UNCHANGED <<of, media, permit, csum, deletion, editing, posting, volume, history, mishaps>>

\* The media go to the storage and their keys into the row.  A failed upload
\* stops a dashboard video and a retry (whose download it is) and leaves their
\* row 'processing'; the others go on without keys.  A dashboard video never
\* stores its key and the app's frames are stored under other names.  Frames
\* measured on the device need no estimation.
StoresKeys(e) == way[e] \in {"photo", "keyed"}

upload_images_to_s3(e) ==
  /\ job[e] = "upload"
  /\ \/ /\ Fine
        /\ job' = [job EXCEPT ![e] = "wait"]
        /\ media' = IF StoresKeys(e) /\ Exists(e) THEN media \cup {e} ELSE media
     \/ /\ Fine
        /\ way[e] = "ar"
        /\ job' = [job EXCEPT ![e] = "found"]
        /\ UNCHANGED media
     \/ /\ Mishap
        /\ job' = [job EXCEPT ![e] = IF way[e] \in {"video", "retry"} THEN "none" ELSE "wait"]
        /\ UNCHANGED media
  /\ UNCHANGED <<row, way, of, made, permit, csum, deletion, editing, posting, inquiry, history>>

\* A failed row is estimated again in a new row, made before the keys are looked
\* at: without keys the request fails and the new row stays.
retry_estimation(e, f) ==
  /\ row[e] = "failed" /\ Fresh(f)
  /\ row' = [row EXCEPT ![f] = "processing"]
  /\ way' = [way EXCEPT ![f] = "retry"]
  /\ of' = [of EXCEPT ![f] = of[e]]
  /\ made' = Append(made, f)
  /\ media' = IF e \in media THEN media \cup {f} ELSE media
  /\ job' = [job EXCEPT ![f] = IF e \in media THEN "upload" ELSE "none"]
  /\ UNCHANGED <<permit, csum, deletion, editing, posting, inquiry, history, mishaps>>

\* The clips of one request: each is uploaded, stored and its job spawned; the
\* status follows once, after the last, unless an upload failed.
video_estimate(e) ==
  /\ NewRow(e, "clip", "processing", "vision")
  /\ media' = media \cup {e}
  /\ posting' = TRUE
  /\ UNCHANGED <<of, permit, csum, deletion, editing, inquiry, history, mishaps>>

update_inquiry_processing ==
  /\ posting
  /\ posting' = FALSE
  /\ \/ Fine /\ status' = "estimating"
     \/ Mishap /\ UNCHANGED status
  /\ UNCHANGED <<rows, jobs, deletion, editing, volume, history>>

\* Estimates made while the request waits: the row is stored as completed, then
\* the volume.
vision_estimate(e) ==
  /\ NewRow(e, "now", "completed", "stored")
  /\ media' = media \cup {e}
  /\ UNCHANGED <<of, permit, csum, deletion, editing, posting, inquiry, history, mishaps>>

inventory_estimate(e) ==
  /\ NewRow(e, "now", "completed", "stored")
  /\ UNCHANGED <<of, media, permit, csum, deletion, editing, posting, inquiry, history, mishaps>>

depth_sensor_estimate(e) == vision_estimate(e)
trigger_estimate(e) == inventory_estimate(e)

\* A volume the customer states: the inquiry's volume first, then the row.
manual_inquiry(e) ==
  /\ Fresh(e)
  /\ way' = [way EXCEPT ![e] = "now"]
  /\ job' = [job EXCEPT ![e] = "insert"]
  /\ volume' = {e} /\ status' = "estimated"
  /\ UNCHANGED <<row, of, media, made, permit, csum, deletion, editing, posting, history, mishaps>>

insert_no_return(e) ==
  /\ job[e] = "insert"
  /\ job' = [job EXCEPT ![e] = "none"]
  /\ \/ /\ Fine
        /\ row' = [row EXCEPT ![e] = "completed"]
        /\ made' = Append(made, e)
        /\ UNCHANGED raced
     \/ /\ Mishap
        /\ raced' = raced \cup {e}
        /\ UNCHANGED <<row, made>>
  /\ UNCHANGED <<way, of, media, permit, csum, deletion, editing, posting, inquiry, cleaned, missed>>
-----------------------------------------------------------------------------
(* The jobs.                                                               *)

\* One job at a time is with the vision service.
acquire(e) ==
  /\ job[e] = "wait" /\ permit = NoOne
  /\ permit' = e
  /\ job' = [job EXCEPT ![e] = "vision"]
  /\ UNCHANGED <<rows, csum, deletion, editing, posting, inquiry, history, mishaps>>

\* A job that fails returns; with that its permit is free.
Released(e) == IF permit = e THEN NoOne ELSE permit

\* The vision service is asked and polled until it answers, or too often; the
\* app's frames need the permit no longer then.
ask_vision(e) ==
  /\ job[e] = "vision"
  /\ \/ /\ Fine
        /\ job' = [job EXCEPT ![e] = "found"]
        /\ permit' = IF way[e] = "ar" THEN Released(e) ELSE permit
     \/ /\ Mishap
        /\ job' = [job EXCEPT ![e] = "failing"]
        /\ permit' = Released(e)
  /\ UNCHANGED <<rows, csum, deletion, editing, posting, inquiry, history>>

\* The result of a queued job: an upsert, so it completes a row the clean-up
\* failed and makes a deleted one again.
upsert(e) ==
  /\ job[e] = "found" /\ Queued(e)
  /\ \/ /\ Fine
        /\ row' = [row EXCEPT ![e] = "completed"]
        /\ job' = [job EXCEPT ![e] = "stored"]
        /\ UNCHANGED permit
     \/ /\ Mishap
        /\ job' = [job EXCEPT ![e] = "failing"]
        /\ permit' = Released(e)
        /\ UNCHANGED row
  /\ UNCHANGED <<way, of, media, made, csum, deletion, editing, posting, inquiry, history>>

\* Its total becomes the inquiry's volume, whatever the volume was.
update_volume_and_status(e) ==
  /\ job[e] = "stored"
  /\ \/ /\ Fine
        /\ volume' = {e} /\ status' = "estimated"
        /\ job' = [job EXCEPT ![e] = "offer"]
        /\ UNCHANGED permit
     \/ /\ Mishap
        /\ job' = [job EXCEPT ![e] = "failing"]
        /\ permit' = Released(e)
        /\ UNCHANGED inquiry
  /\ UNCHANGED <<rows, csum, deletion, editing, posting, history>>

\* The offer is made while the job still holds its permit, if it had one to keep.
try_auto_generate_offer(e) ==
  /\ job[e] = "offer"
  /\ job' = [job EXCEPT ![e] = "none"]
  /\ permit' = Released(e)
  /\ UNCHANGED <<rows, csum, deletion, editing, posting, inquiry, history, mishaps>>

\* What a failed job leaves: only a row still 'processing' is failed, and the
\* job of a photo submission fails none.
mark_failed(e) ==
  /\ job[e] = "failing"
  /\ job' = [job EXCEPT ![e] = "none"]
  /\ row' = IF row[e] = "processing" /\ way[e] # "photo"
            THEN [row EXCEPT ![e] = "failed"] ELSE row
  /\ UNCHANGED <<way, of, media, made, permit, csum, deletion, editing, posting, inquiry, history, mishaps>>

\* A clip's result: an update of whatever row there is; an error is dropped.
mark_completed(e) ==
  /\ job[e] = "found" /\ ~Queued(e)
  /\ job' = [job EXCEPT ![e] = "marked"]
  /\ \/ Fine /\ row' = IF Exists(e) THEN [row EXCEPT ![e] = "completed"] ELSE row
     \/ Mishap /\ UNCHANGED row
  /\ UNCHANGED <<way, of, media, made, permit, csum, deletion, editing, posting, inquiry, history>>

\* While another row of the inquiry is processing the volume is left to its job.
count_processing(e) ==
  /\ job[e] = "marked"
  /\ \/ Fine /\ job' = [job EXCEPT ![e] = IF \E f \in Estimations : row[f] = "processing"
                                  THEN "none" ELSE "counted"]
     \/ Mishap /\ job' = [job EXCEPT ![e] = "counted"]
  /\ UNCHANGED <<rows, permit, csum, deletion, editing, posting, inquiry, history>>

\* An unreadable sum counts as 0.
sum_completed_volume(e) ==
  /\ job[e] = "counted"
  /\ job' = [job EXCEPT ![e] = "summed"]
  /\ \/ Fine /\ csum' = [csum EXCEPT ![e] = Completed] /\ UNCHANGED missed
     \/ Mishap /\ csum' = [csum EXCEPT ![e] = {}] /\ missed' = TRUE
  /\ UNCHANGED <<rows, permit, deletion, editing, posting, inquiry, cleaned, raced>>

write_sum(e) ==
  /\ job[e] = "summed"
  /\ job' = [job EXCEPT ![e] = "offer"]
  /\ csum' = [csum EXCEPT ![e] = {}]
  /\ \/ /\ Fine
        /\ volume' = csum[e] /\ status' = "estimated"
        /\ missed' = (missed \/ csum[e] # Completed)
     \/ Mishap /\ missed' = TRUE /\ UNCHANGED inquiry
  /\ UNCHANGED <<rows, permit, deletion, editing, posting, cleaned, raced>>
-----------------------------------------------------------------------------
(* What happens to a row meanwhile.                                        *)

\* Every five minutes rows that are 'processing' for half an hour are failed,
\* with or without a job.
cleanup(e) ==
  /\ row[e] = "processing"
  /\ row' = [row EXCEPT ![e] = "failed"]
  /\ cleaned' = IF job[e] = "none" THEN cleaned ELSE cleaned \cup {e}
  /\ UNCHANGED <<way, of, media, made, jobs, deletion, editing, posting, inquiry, raced, missed, mishaps>>

\* Somebody is about to write a volume that contains e.
BeingWritten(e) ==
  \/ job[e] = "stored"
  \/ editing = e
  \/ \E f \in Estimations : e \in csum[f] \cup dsum[f]

\* The deletion of a row: it is read, its files deleted, then the row, then the
\* rest is added up and becomes the volume.
delete_estimate(e) ==
  /\ "delete" \in Interventions /\ Mishap
  /\ Exists(e) /\ del[e] = "none"
  /\ del' = [del EXCEPT ![e] = "files"]
  /\ UNCHANGED <<rows, jobs, dsum, editing, posting, inquiry, history>>

delete_by_id(e) ==
  /\ del[e] = "files"
  /\ del' = [del EXCEPT ![e] = "gone"]
  /\ row' = [row EXCEPT ![e] = "deleted"]
  /\ raced' = IF BeingWritten(e) THEN raced \cup {e} ELSE raced
  /\ UNCHANGED <<way, of, media, made, jobs, dsum, editing, posting, inquiry, cleaned, missed, mishaps>>

delete_sum(e) ==
  /\ del[e] = "gone"
  /\ del' = [del EXCEPT ![e] = "summed"]
  /\ \/ Fine /\ dsum' = [dsum EXCEPT ![e] = Completed]
     \/ Mishap /\ dsum' = [dsum EXCEPT ![e] = {}]
  /\ UNCHANGED <<rows, jobs, editing, posting, inquiry, history>>

update_inquiry_volume_status(e) ==
  /\ del[e] = "summed"
  /\ del' = [del EXCEPT ![e] = "none"]
  /\ dsum' = [dsum EXCEPT ![e] = {}]
  /\ \/ /\ Fine
        /\ volume' = dsum[e]
        /\ status' = IF dsum[e] # {} THEN "estimated" ELSE "pending"
        /\ UNCHANGED raced
     \/ Mishap /\ raced' = raced \cup {e} /\ UNCHANGED inquiry
  /\ UNCHANGED <<rows, jobs, editing, posting, cleaned, missed>>

\* The item list of the dashboard replaces the result and total of the latest
\* row, whatever its status, and the inquiry's volume; without a row a completed
\* one is made.
IsLatest(e) ==
  \E i \in DOMAIN made :
    /\ made[i] = e /\ Exists(e)
    /\ \A j \in DOMAIN made : j > i => ~Exists(made[j])

update_inquiry_items(e) ==
  /\ "edit" \in Interventions /\ Mishap
  /\ editing = NoOne
  /\ editing' = e
  /\ \/ IsLatest(e) /\ UNCHANGED rows
     \/ /\ Fresh(e) /\ \A f \in Estimations : ~Exists(f)
        /\ row' = [row EXCEPT ![e] = "completed"]
        /\ way' = [way EXCEPT ![e] = "now"]
        /\ made' = Append(made, e)
        /\ UNCHANGED <<of, media>>
  /\ UNCHANGED <<jobs, deletion, posting, inquiry, history>>

update_results ==
  /\ editing # NoOne
  /\ volume' = {editing}
  /\ raced' = IF row[editing] = "completed" THEN raced ELSE raced \cup {editing}
  /\ editing' = NoOne
  /\ UNCHANGED <<rows, jobs, deletion, posting, status, cleaned, missed, mishaps>>

\* A restart ends every job and request; what they were about to write is not
\* written.
Unwritten == {e \in Estimations : job[e] = "insert" \/ del[e] \in {"gone", "summed"}}

Restart ==
  /\ Mishap
  /\ job' = [e \in Estimations |-> "none"] /\ permit' = NoOne
  /\ csum' = [e \in Estimations |-> {}]
  /\ del' = [e \in Estimations |-> "none"]
  /\ dsum' = [e \in Estimations |-> {}]
  /\ editing' = NoOne /\ posting' = FALSE
  /\ raced' = raced \cup Unwritten
  /\ UNCHANGED <<rows, inquiry, cleaned, missed>>

\* The ways a row is made, and the steps of the job of one.
Make(e) ==
  \/ handle_submission(e) \/ handle_ar_submission(e) \/ video_inquiry(e)
  \/ trigger_estimate_upload(e) \/ trigger_video_upload(e) \/ video_estimate(e)
  \/ vision_estimate(e) \/ depth_sensor_estimate(e)
  \/ inventory_estimate(e) \/ trigger_estimate(e) \/ manual_inquiry(e)

Work(e) ==
  \/ upload_images_to_s3(e) \/ insert_no_return(e)
  \/ ask_vision(e) \/ upsert(e) \/ update_volume_and_status(e)
  \/ try_auto_generate_offer(e) \/ mark_failed(e)
  \/ mark_completed(e) \/ count_processing(e) \/ sum_completed_volume(e) \/ write_sum(e)

Delete(e) ==
  \/ delete_by_id(e) \/ delete_sum(e) \/ update_inquiry_volume_status(e)

Next ==
  \/ \E e \in Estimations :
       \/ Make(e) \/ acquire(e) \/ Work(e) \/ cleanup(e)
       \/ delete_estimate(e) \/ Delete(e) \/ update_inquiry_items(e)
       \/ \E f \in Estimations : retry_estimation(e, f)
  \/ update_inquiry_processing \/ update_results \/ Restart

Spec == Init /\ [][Next]_vars

\* Calls end: uploads, polls and statements have time limits.  The semaphore of
\* tokio is fair, so a job that waits gets its permit.  The clean-up runs for as
\* long as the process does.
FairSpec ==
  /\ Spec
  /\ \A e \in Estimations :
       /\ WF_vars(Work(e)) /\ WF_vars(Delete(e)) /\ WF_vars(cleanup(e))
       /\ SF_vars(acquire(e))
-----------------------------------------------------------------------------
\* The volume of the inquiry adds up completed rows: a row that failed or was
\* deleted is not in it, except while the request that takes it out or in is
\* under way, or where its row went while somebody was writing that volume.
VolumeIsBacked ==
  \A e \in volume \ raced :
    row[e] = "completed" \/ job[e] = "insert" \/ del[e] # "none"

\* A medium is not counted twice: of the rows of one medium only one is
\* completed, unless one of them was failed while its job was running or one was
\* retried more than once.
Siblings(e) == {f \in Estimations : row[f] # "none" /\ of[f] = of[e]}
OneResultPerMedium ==
  \A e \in Estimations :
    Cardinality(Siblings(e) \cap Completed) > 1 =>
      Siblings(e) \cap cleaned # {} \/ Cardinality(Siblings(e)) > 2

\* The clips of an inquiry add up however their jobs end: once all have ended
\* and nothing failed, was deleted or edited, the volume is the sum of them all,
\* unless a sum could not be read or written or was out of date when written.
OnlyClips ==
  \A e \in Estimations :
    \/ Fresh(e)
    \/ way[e] = "clip" /\ row[e] = "completed" /\ job[e] = "none"
ClipsAddUp ==
  OnlyClips /\ mishaps = 0 /\ ~missed => volume = Completed

\* A completed row stays completed until it is deleted: neither a job that fails
\* later nor the clean-up takes a result back.
CompletedStays ==
  [][\A e \in Estimations :
       row[e] = "completed" => (row[e])' \in {"completed", "deleted"}]_vars

\* Finitely many estimations are made: whatever is deleted, retried or edited,
\* whatever fails and whenever the process restarts, every one comes to rest.
\* No row stays 'processing' and no job waits for the permit for ever.
EstimationEnds ==
  <>[](\A e \in Estimations : job[e] = "none" /\ row[e] # "processing")
=============================================================================
