-------------------------- MODULE Inquiry_proofs --------------------------
(***************************************************************************)
(* Proofs about the two parts of an inquiry that requests and jobs write   *)
(* at once: its volume (Estimations), for any number of rows and mishaps,  *)
(* and its crew (CrewSchedule), for any number of employees, requests and  *)
(* days.                                                                   *)
(***************************************************************************)
EXTENDS Estimations, CrewSchedule, SequenceTheorems, FiniteSetTheorems, TLAPS

\* A row that is not made has nothing; a job that has yet to insert has no row.
Shape ==
  \A e \in Estimations :
    /\ Fresh(e) => row[e] = "none" /\ job[e] = "none" /\ del[e] = "none"
    /\ job[e] = "insert" => row[e] = "none" /\ del[e] = "none"

\* What the volume adds up, and what jobs and deletions are about to write.
Backed(e) == row[e] = "completed" \/ e \in raced
Backing ==
  /\ \A e \in volume : Backed(e) \/ job[e] = "insert" \/ del[e] \in {"gone", "summed"}
  /\ \A e \in Estimations : job[e] = "stored" => Backed(e)
  /\ \A e, f \in Estimations : e \in csum[f] \cup dsum[f] => Backed(e)

\* The inductive invariant.
IInv == TypeOK /\ Shape /\ Backing

\* The invariant holds of no rows.
LEMMA InitInv == Init => IInv
<1> SUFFICES ASSUME Init PROVE IInv
  OBVIOUS
<1>1. posting \in BOOLEAN /\ missed \in BOOLEAN
  BY DEF Init
<1>2. made \in Seq(Estimations)
  BY EmptySeq DEF Init
<1>3. TypeOK
  BY <1>1, <1>2, EstimationsAssumption DEF Init, TypeOK, Statuses, Ways, Phases
<1>4. Shape /\ Backing
  BY DEF Init, Shape, Fresh, Backing, Backed
<1> QED
  BY <1>3, <1>4 DEF IInv

\* What a new row changes is well typed.
LEMMA NewRowTypes ==
  ASSUME TypeOK, NEW e \in Estimations, NEW w \in Ways, NEW s \in Statuses, NEW p \in Phases,
         NewRow(e, w, s, p)
  PROVE  /\ row' \in [Estimations -> Statuses]
         /\ way' \in [Estimations -> Ways]
         /\ made' \in Seq(Estimations)
         /\ job' \in [Estimations -> Phases]
<1>1. Append(made, e) \in Seq(Estimations)
  BY AppendProperties DEF TypeOK
<1> QED
  BY <1>1 DEF TypeOK, NewRow

\* Every step keeps the types.
LEMMA TypeStep == TypeOK /\ [Next]_vars => TypeOK'
<1> SUFFICES ASSUME TypeOK, [Next]_vars PROVE TypeOK'
  OBVIOUS
<1> USE EstimationsAssumption, NoOneAssumption
        DEF TypeOK, Statuses, Ways, Phases, Exists, Completed, Queued, Mishap, Fine, Released,
            rows, jobs, deletion, inquiry, history
<1>1. ASSUME NEW e \in Estimations, handle_submission(e)
      PROVE  TypeOK'
  <2>1. NewRow(e, "photo", "processing", "upload")
    BY <1>1 DEF handle_submission, create_processing
  <2>2. /\ row' \in [Estimations -> Statuses] /\ way' \in [Estimations -> Ways]
        /\ made' \in Seq(Estimations) /\ job' \in [Estimations -> Phases]
    BY <2>1, NewRowTypes
  <2> QED
    BY <1>1, <2>2 DEF handle_submission, create_processing
<1>2. ASSUME NEW e \in Estimations, handle_ar_submission(e)
      PROVE  TypeOK'
  <2>1. NewRow(e, "ar", "processing", "upload")
    BY <1>2 DEF handle_ar_submission, create_processing
  <2>2. /\ row' \in [Estimations -> Statuses] /\ way' \in [Estimations -> Ways]
        /\ made' \in Seq(Estimations) /\ job' \in [Estimations -> Phases]
    BY <2>1, NewRowTypes
  <2> QED
    BY <1>2, <2>2 DEF handle_ar_submission, create_processing
<1>3. ASSUME NEW e \in Estimations, video_inquiry(e)
      PROVE  TypeOK'
  <2>1. NewRow(e, "keyed", "processing", "upload")
    BY <1>3 DEF video_inquiry, create_processing
  <2>2. /\ row' \in [Estimations -> Statuses] /\ way' \in [Estimations -> Ways]
        /\ made' \in Seq(Estimations) /\ job' \in [Estimations -> Phases]
    BY <2>1, NewRowTypes
  <2> QED
    BY <1>3, <2>2 DEF video_inquiry, create_processing
<1>4. ASSUME NEW e \in Estimations, trigger_estimate_upload(e)
      PROVE  TypeOK'
  <2>1. NewRow(e, "keyed", "processing", "upload")
    BY <1>4 DEF trigger_estimate_upload, create_processing
  <2>2. /\ row' \in [Estimations -> Statuses] /\ way' \in [Estimations -> Ways]
        /\ made' \in Seq(Estimations) /\ job' \in [Estimations -> Phases]
    BY <2>1, NewRowTypes
  <2> QED
    BY <1>4, <2>2 DEF trigger_estimate_upload, create_processing
<1>5. ASSUME NEW e \in Estimations, trigger_video_upload(e)
      PROVE  TypeOK'
  <2>1. NewRow(e, "video", "processing", "upload")
    BY <1>5 DEF trigger_video_upload, create_processing
  <2>2. /\ row' \in [Estimations -> Statuses] /\ way' \in [Estimations -> Ways]
        /\ made' \in Seq(Estimations) /\ job' \in [Estimations -> Phases]
    BY <2>1, NewRowTypes
  <2> QED
    BY <1>5, <2>2 DEF trigger_video_upload, create_processing
<1>6. ASSUME NEW e \in Estimations, video_estimate(e)
      PROVE  TypeOK'
  <2>1. NewRow(e, "clip", "processing", "vision")
    BY <1>6 DEF video_estimate
  <2>2. /\ row' \in [Estimations -> Statuses] /\ way' \in [Estimations -> Ways]
        /\ made' \in Seq(Estimations) /\ job' \in [Estimations -> Phases]
    BY <2>1, NewRowTypes
  <2>3. posting' \in BOOLEAN
    BY <1>6 DEF video_estimate
  <2> QED
    BY <1>6, <2>2, <2>3 DEF video_estimate
<1>7. ASSUME NEW e \in Estimations, vision_estimate(e)
      PROVE  TypeOK'
  <2>1. NewRow(e, "now", "completed", "stored")
    BY <1>7 DEF vision_estimate
  <2>2. /\ row' \in [Estimations -> Statuses] /\ way' \in [Estimations -> Ways]
        /\ made' \in Seq(Estimations) /\ job' \in [Estimations -> Phases]
    BY <2>1, NewRowTypes
  <2> QED
    BY <1>7, <2>2 DEF vision_estimate
<1>8. ASSUME NEW e \in Estimations, inventory_estimate(e)
      PROVE  TypeOK'
  <2>1. NewRow(e, "now", "completed", "stored")
    BY <1>8 DEF inventory_estimate
  <2>2. /\ row' \in [Estimations -> Statuses] /\ way' \in [Estimations -> Ways]
        /\ made' \in Seq(Estimations) /\ job' \in [Estimations -> Phases]
    BY <2>1, NewRowTypes
  <2> QED
    BY <1>8, <2>2 DEF inventory_estimate
<1>9. ASSUME NEW e \in Estimations, manual_inquiry(e)
      PROVE  TypeOK'
  BY <1>9 DEF manual_inquiry
<1>10. ASSUME NEW e \in Estimations, upload_images_to_s3(e)
      PROVE  TypeOK'
  BY <1>10 DEF upload_images_to_s3
<1>11. ASSUME NEW e \in Estimations, insert_no_return(e)
      PROVE  TypeOK'
  <2>1. Append(made, e) \in Seq(Estimations)
    BY AppendProperties
  <2>2. made' \in Seq(Estimations)
    BY ONLY TypeOK, <1>11, <2>1 DEF insert_no_return, TypeOK
  <2>3. row' \in [Estimations -> Statuses] /\ job' \in [Estimations -> Phases]
    BY <1>11 DEF insert_no_return
  <2>4. raced' \subseteq Estimations /\ mishaps' \in 0 .. MaxMishaps
    BY <1>11 DEF insert_no_return
  <2> QED
    BY <1>11, <2>2, <2>3, <2>4 DEF insert_no_return
<1>12. ASSUME NEW e \in Estimations, acquire(e)
      PROVE  TypeOK'
  BY <1>12 DEF acquire
<1>13. ASSUME NEW e \in Estimations, ask_vision(e)
      PROVE  TypeOK'
  BY <1>13 DEF ask_vision
<1>14. ASSUME NEW e \in Estimations, upsert(e)
      PROVE  TypeOK'
  BY <1>14 DEF upsert
<1>15. ASSUME NEW e \in Estimations, update_volume_and_status(e)
      PROVE  TypeOK'
  BY <1>15 DEF update_volume_and_status
<1>16. ASSUME NEW e \in Estimations, try_auto_generate_offer(e)
      PROVE  TypeOK'
  BY <1>16 DEF try_auto_generate_offer
<1>17. ASSUME NEW e \in Estimations, mark_failed(e)
      PROVE  TypeOK'
  BY <1>17 DEF mark_failed
<1>18. ASSUME NEW e \in Estimations, mark_completed(e)
      PROVE  TypeOK'
  <2>1. row' \in [Estimations -> Statuses]
    <3>1. CASE Fine
      BY <1>18, <3>1 DEF mark_completed
    <3>2. CASE Mishap /\ UNCHANGED row
      BY <3>2
    <3> QED
      BY <1>18, <3>1, <3>2 DEF mark_completed
  <2>2. mishaps' \in 0 .. MaxMishaps
    BY <1>18 DEF mark_completed
  <2> QED
    BY ONLY TypeOK, <1>18, <2>1, <2>2 DEF mark_completed, TypeOK, Phases, deletion, inquiry, history
<1>19. ASSUME NEW e \in Estimations, count_processing(e)
      PROVE  TypeOK'
  BY <1>19 DEF count_processing
<1>20. ASSUME NEW e \in Estimations, sum_completed_volume(e)
      PROVE  TypeOK'
  <2>1. missed' \in BOOLEAN
    BY <1>20 DEF sum_completed_volume
  <2> QED
    BY <1>20, <2>1 DEF sum_completed_volume
<1>21. ASSUME NEW e \in Estimations, write_sum(e)
      PROVE  TypeOK'
  <2>1. missed' \in BOOLEAN
    BY <1>21 DEF write_sum
  <2> QED
    BY <1>21, <2>1 DEF write_sum
<1>22. ASSUME NEW e \in Estimations, cleanup(e)
      PROVE  TypeOK'
  BY <1>22 DEF cleanup
<1>23. ASSUME NEW e \in Estimations, delete_estimate(e)
      PROVE  TypeOK'
  BY <1>23 DEF delete_estimate
<1>24. ASSUME NEW e \in Estimations, delete_by_id(e)
      PROVE  TypeOK'
  BY <1>24 DEF delete_by_id, BeingWritten
<1>25. ASSUME NEW e \in Estimations, delete_sum(e)
      PROVE  TypeOK'
  BY <1>25 DEF delete_sum
<1>26. ASSUME NEW e \in Estimations, update_inquiry_volume_status(e)
      PROVE  TypeOK'
  BY <1>26 DEF update_inquiry_volume_status
<1>27. ASSUME NEW e \in Estimations, update_inquiry_items(e)
      PROVE  TypeOK'
  <2>1. Append(made, e) \in Seq(Estimations)
    BY AppendProperties
  <2>2. made' \in Seq(Estimations)
    BY <1>27, <2>1 DEF update_inquiry_items
  <2> QED
    BY <1>27, <2>2 DEF update_inquiry_items
<1>28. ASSUME NEW e \in Estimations, NEW f \in Estimations, retry_estimation(e, f)
      PROVE  TypeOK'
  BY <1>28 DEF retry_estimation
<1>29. CASE update_inquiry_processing
  <2>1. posting' \in BOOLEAN
    BY <1>29 DEF update_inquiry_processing
  <2> QED
    BY <1>29, <2>1 DEF update_inquiry_processing
<1>30. CASE update_results
  BY <1>30 DEF update_results
<1>31. CASE Restart
  <2>1. posting' \in BOOLEAN
    BY <1>31 DEF Restart
  <2> QED
    BY <1>31, <2>1 DEF Restart, Unwritten
<1>32. CASE UNCHANGED vars
  BY <1>32 DEF vars
<1> QED
  BY <1>1, <1>2, <1>3, <1>4, <1>5, <1>6, <1>7, <1>8, <1>9, <1>10, <1>11, <1>12,
     <1>13, <1>14, <1>15, <1>16, <1>17, <1>18, <1>19, <1>20, <1>21, <1>22, <1>23, <1>24,
     <1>25, <1>26, <1>27, <1>28, <1>29, <1>30, <1>31, <1>32
     DEF Next, Make, Work, Delete, depth_sensor_estimate, trigger_estimate

\* Every step keeps what backs the volume.
LEMMA BackingStep == IInv /\ [Next]_vars => (Shape /\ Backing)'
<1> SUFFICES ASSUME IInv, [Next]_vars PROVE (Shape /\ Backing)'
  OBVIOUS
<1> USE EstimationsAssumption, NoOneAssumption
        DEF IInv, TypeOK, Shape, Fresh, Backing, Backed, Statuses, Ways, Phases, Exists, Completed, Queued, Mishap, Fine, Released,
            rows, jobs, deletion, inquiry, history
<1>1. ASSUME NEW e \in Estimations, handle_submission(e)
      PROVE  (Shape /\ Backing)'
  BY <1>1 DEF handle_submission, create_processing, NewRow
<1>2. ASSUME NEW e \in Estimations, handle_ar_submission(e)
      PROVE  (Shape /\ Backing)'
  BY <1>2 DEF handle_ar_submission, create_processing, NewRow
<1>3. ASSUME NEW e \in Estimations, video_inquiry(e)
      PROVE  (Shape /\ Backing)'
  BY <1>3 DEF video_inquiry, create_processing, NewRow
<1>4. ASSUME NEW e \in Estimations, trigger_estimate_upload(e)
      PROVE  (Shape /\ Backing)'
  BY <1>4 DEF trigger_estimate_upload, create_processing, NewRow
<1>5. ASSUME NEW e \in Estimations, trigger_video_upload(e)
      PROVE  (Shape /\ Backing)'
  BY <1>5 DEF trigger_video_upload, create_processing, NewRow
<1>6. ASSUME NEW e \in Estimations, video_estimate(e)
      PROVE  (Shape /\ Backing)'
  BY <1>6 DEF video_estimate, NewRow
<1>7. ASSUME NEW e \in Estimations, vision_estimate(e)
      PROVE  (Shape /\ Backing)'
  BY <1>7 DEF vision_estimate, NewRow
<1>8. ASSUME NEW e \in Estimations, inventory_estimate(e)
      PROVE  (Shape /\ Backing)'
  BY <1>8 DEF inventory_estimate, NewRow
<1>9. ASSUME NEW e \in Estimations, manual_inquiry(e)
      PROVE  (Shape /\ Backing)'
  BY <1>9 DEF manual_inquiry
<1>10. ASSUME NEW e \in Estimations, upload_images_to_s3(e)
      PROVE  (Shape /\ Backing)'
  BY <1>10 DEF upload_images_to_s3
<1>11. ASSUME NEW e \in Estimations, insert_no_return(e)
      PROVE  (Shape /\ Backing)'
  BY <1>11 DEF insert_no_return
<1>12. ASSUME NEW e \in Estimations, acquire(e)
      PROVE  (Shape /\ Backing)'
  BY <1>12 DEF acquire
<1>13. ASSUME NEW e \in Estimations, ask_vision(e)
      PROVE  (Shape /\ Backing)'
  BY <1>13 DEF ask_vision
<1>14. ASSUME NEW e \in Estimations, upsert(e)
      PROVE  (Shape /\ Backing)'
  <2>1. \A x \in Estimations : Backed(x) => Backed(x)'
    BY <1>14 DEF upsert
  <2>2. Shape'
    BY <1>14 DEF upsert
  <2>3. \A x \in Estimations : (job[x] = "stored")' => Backed(x)'
    BY <1>14, <2>1 DEF upsert
  <2> QED
    BY ONLY IInv, <1>14, <2>1, <2>2, <2>3 DEF IInv, TypeOK, Backing, upsert, deletion, inquiry, history
<1>15. ASSUME NEW e \in Estimations, update_volume_and_status(e)
      PROVE  (Shape /\ Backing)'
  BY <1>15 DEF update_volume_and_status
<1>16. ASSUME NEW e \in Estimations, try_auto_generate_offer(e)
      PROVE  (Shape /\ Backing)'
  BY <1>16 DEF try_auto_generate_offer
<1>17. ASSUME NEW e \in Estimations, mark_failed(e)
      PROVE  (Shape /\ Backing)'
  BY <1>17 DEF mark_failed
<1>18. ASSUME NEW e \in Estimations, mark_completed(e)
      PROVE  (Shape /\ Backing)'
  BY <1>18 DEF mark_completed
<1>19. ASSUME NEW e \in Estimations, count_processing(e)
      PROVE  (Shape /\ Backing)'
  BY <1>19 DEF count_processing
<1>20. ASSUME NEW e \in Estimations, sum_completed_volume(e)
      PROVE  (Shape /\ Backing)'
  BY <1>20 DEF sum_completed_volume
<1>21. ASSUME NEW e \in Estimations, write_sum(e)
      PROVE  (Shape /\ Backing)'
  BY <1>21 DEF write_sum
<1>22. ASSUME NEW e \in Estimations, cleanup(e)
      PROVE  (Shape /\ Backing)'
  BY <1>22 DEF cleanup
<1>23. ASSUME NEW e \in Estimations, delete_estimate(e)
      PROVE  (Shape /\ Backing)'
  BY <1>23 DEF delete_estimate
<1>24. ASSUME NEW e \in Estimations, delete_by_id(e)
      PROVE  (Shape /\ Backing)'
  <2>1. \A x \in Estimations : Backed(x) /\ x # e => Backed(x)'
    BY <1>24 DEF delete_by_id
  <2>2. BeingWritten(e) => Backed(e)'
    BY <1>24 DEF delete_by_id
  <2>3. Shape'
    BY <1>24 DEF delete_by_id
  <2>4. \A x \in volume' : Backed(x)' \/ job'[x] = "insert" \/ del'[x] \in {"gone", "summed"}
    BY <1>24, <2>1 DEF delete_by_id
  <2> QED
    BY ONLY IInv, <1>24, <2>1, <2>2, <2>3, <2>4
       DEF IInv, TypeOK, Backing, BeingWritten, delete_by_id, jobs
<1>25. ASSUME NEW e \in Estimations, delete_sum(e)
      PROVE  (Shape /\ Backing)'
  BY <1>25 DEF delete_sum
<1>26. ASSUME NEW e \in Estimations, update_inquiry_volume_status(e)
      PROVE  (Shape /\ Backing)'
  BY <1>26 DEF update_inquiry_volume_status
<1>27. ASSUME NEW e \in Estimations, update_inquiry_items(e)
      PROVE  (Shape /\ Backing)'
  BY <1>27 DEF update_inquiry_items
<1>28. ASSUME NEW e \in Estimations, NEW f \in Estimations, retry_estimation(e, f)
      PROVE  (Shape /\ Backing)'
  BY <1>28 DEF retry_estimation
<1>29. CASE update_inquiry_processing
  BY <1>29 DEF update_inquiry_processing
<1>30. CASE update_results
  BY <1>30 DEF update_results
<1>31. CASE Restart
  BY <1>31 DEF Restart, Unwritten
<1>32. CASE UNCHANGED vars
  BY <1>32 DEF vars
<1> QED
  BY <1>1, <1>2, <1>3, <1>4, <1>5, <1>6, <1>7, <1>8, <1>9, <1>10, <1>11, <1>12,
     <1>13, <1>14, <1>15, <1>16, <1>17, <1>18, <1>19, <1>20, <1>21, <1>22, <1>23, <1>24,
     <1>25, <1>26, <1>27, <1>28, <1>29, <1>30, <1>31, <1>32
     DEF Next, Make, Work, Delete, depth_sensor_estimate, trigger_estimate

\* The invariant holds in every reachable state.
LEMMA Invariance == Spec => []IInv
<1>1. IInv /\ [Next]_vars => IInv'
  BY TypeStep, BackingStep DEF IInv
<1> QED
  BY <1>1, InitInv, PTL DEF Spec

\* Every state is well typed.
THEOREM TypeCorrect == Spec => []TypeOK
<1>1. IInv => TypeOK
  BY DEF IInv
<1> QED
  BY <1>1, Invariance, PTL

\* The inquiry's volume adds up completed rows, whatever is retried, deleted,
\* edited or cleaned up meanwhile, but for rows that went while somebody wrote it.
THEOREM VolumeBacked == Spec => []VolumeIsBacked
<1>1. IInv => VolumeIsBacked
  BY DEF IInv, Backing, Backed, VolumeIsBacked, TypeOK
<1> QED
  BY <1>1, Invariance, PTL

\* No step takes back a result.
LEMMA CompletedStep == IInv /\ [Next]_vars => \A x \in Estimations : row[x] = "completed" => (row[x])' \in {"completed", "deleted"}
<1> SUFFICES ASSUME IInv, [Next]_vars PROVE \A x \in Estimations : row[x] = "completed" => (row[x])' \in {"completed", "deleted"}
  OBVIOUS
<1> USE EstimationsAssumption, NoOneAssumption
        DEF IInv, TypeOK, Shape, Fresh, Statuses, Ways, Phases, Exists, Completed, Queued, Mishap, Fine, Released,
            rows, jobs, deletion, inquiry, history
<1>1. ASSUME NEW e \in Estimations, handle_submission(e)
      PROVE  \A x \in Estimations : row[x] = "completed" => (row[x])' \in {"completed", "deleted"}
  BY <1>1 DEF handle_submission, create_processing, NewRow
<1>2. ASSUME NEW e \in Estimations, handle_ar_submission(e)
      PROVE  \A x \in Estimations : row[x] = "completed" => (row[x])' \in {"completed", "deleted"}
  BY <1>2 DEF handle_ar_submission, create_processing, NewRow
<1>3. ASSUME NEW e \in Estimations, video_inquiry(e)
      PROVE  \A x \in Estimations : row[x] = "completed" => (row[x])' \in {"completed", "deleted"}
  BY <1>3 DEF video_inquiry, create_processing, NewRow
<1>4. ASSUME NEW e \in Estimations, trigger_estimate_upload(e)
      PROVE  \A x \in Estimations : row[x] = "completed" => (row[x])' \in {"completed", "deleted"}
  BY <1>4 DEF trigger_estimate_upload, create_processing, NewRow
<1>5. ASSUME NEW e \in Estimations, trigger_video_upload(e)
      PROVE  \A x \in Estimations : row[x] = "completed" => (row[x])' \in {"completed", "deleted"}
  BY <1>5 DEF trigger_video_upload, create_processing, NewRow
<1>6. ASSUME NEW e \in Estimations, video_estimate(e)
      PROVE  \A x \in Estimations : row[x] = "completed" => (row[x])' \in {"completed", "deleted"}
  BY <1>6 DEF video_estimate, NewRow
<1>7. ASSUME NEW e \in Estimations, vision_estimate(e)
      PROVE  \A x \in Estimations : row[x] = "completed" => (row[x])' \in {"completed", "deleted"}
  BY <1>7 DEF vision_estimate, NewRow
<1>8. ASSUME NEW e \in Estimations, inventory_estimate(e)
      PROVE  \A x \in Estimations : row[x] = "completed" => (row[x])' \in {"completed", "deleted"}
  BY <1>8 DEF inventory_estimate, NewRow
<1>9. ASSUME NEW e \in Estimations, manual_inquiry(e)
      PROVE  \A x \in Estimations : row[x] = "completed" => (row[x])' \in {"completed", "deleted"}
  BY <1>9 DEF manual_inquiry
<1>10. ASSUME NEW e \in Estimations, upload_images_to_s3(e)
      PROVE  \A x \in Estimations : row[x] = "completed" => (row[x])' \in {"completed", "deleted"}
  BY <1>10 DEF upload_images_to_s3
<1>11. ASSUME NEW e \in Estimations, insert_no_return(e)
      PROVE  \A x \in Estimations : row[x] = "completed" => (row[x])' \in {"completed", "deleted"}
  BY <1>11 DEF insert_no_return
<1>12. ASSUME NEW e \in Estimations, acquire(e)
      PROVE  \A x \in Estimations : row[x] = "completed" => (row[x])' \in {"completed", "deleted"}
  BY <1>12 DEF acquire
<1>13. ASSUME NEW e \in Estimations, ask_vision(e)
      PROVE  \A x \in Estimations : row[x] = "completed" => (row[x])' \in {"completed", "deleted"}
  BY <1>13 DEF ask_vision
<1>14. ASSUME NEW e \in Estimations, upsert(e)
      PROVE  \A x \in Estimations : row[x] = "completed" => (row[x])' \in {"completed", "deleted"}
  BY <1>14 DEF upsert
<1>15. ASSUME NEW e \in Estimations, update_volume_and_status(e)
      PROVE  \A x \in Estimations : row[x] = "completed" => (row[x])' \in {"completed", "deleted"}
  BY <1>15 DEF update_volume_and_status
<1>16. ASSUME NEW e \in Estimations, try_auto_generate_offer(e)
      PROVE  \A x \in Estimations : row[x] = "completed" => (row[x])' \in {"completed", "deleted"}
  BY <1>16 DEF try_auto_generate_offer
<1>17. ASSUME NEW e \in Estimations, mark_failed(e)
      PROVE  \A x \in Estimations : row[x] = "completed" => (row[x])' \in {"completed", "deleted"}
  BY <1>17 DEF mark_failed
<1>18. ASSUME NEW e \in Estimations, mark_completed(e)
      PROVE  \A x \in Estimations : row[x] = "completed" => (row[x])' \in {"completed", "deleted"}
  BY <1>18 DEF mark_completed
<1>19. ASSUME NEW e \in Estimations, count_processing(e)
      PROVE  \A x \in Estimations : row[x] = "completed" => (row[x])' \in {"completed", "deleted"}
  BY <1>19 DEF count_processing
<1>20. ASSUME NEW e \in Estimations, sum_completed_volume(e)
      PROVE  \A x \in Estimations : row[x] = "completed" => (row[x])' \in {"completed", "deleted"}
  BY <1>20 DEF sum_completed_volume
<1>21. ASSUME NEW e \in Estimations, write_sum(e)
      PROVE  \A x \in Estimations : row[x] = "completed" => (row[x])' \in {"completed", "deleted"}
  BY <1>21 DEF write_sum
<1>22. ASSUME NEW e \in Estimations, cleanup(e)
      PROVE  \A x \in Estimations : row[x] = "completed" => (row[x])' \in {"completed", "deleted"}
  BY <1>22 DEF cleanup
<1>23. ASSUME NEW e \in Estimations, delete_estimate(e)
      PROVE  \A x \in Estimations : row[x] = "completed" => (row[x])' \in {"completed", "deleted"}
  BY <1>23 DEF delete_estimate
<1>24. ASSUME NEW e \in Estimations, delete_by_id(e)
      PROVE  \A x \in Estimations : row[x] = "completed" => (row[x])' \in {"completed", "deleted"}
  BY <1>24 DEF delete_by_id, BeingWritten
<1>25. ASSUME NEW e \in Estimations, delete_sum(e)
      PROVE  \A x \in Estimations : row[x] = "completed" => (row[x])' \in {"completed", "deleted"}
  BY <1>25 DEF delete_sum
<1>26. ASSUME NEW e \in Estimations, update_inquiry_volume_status(e)
      PROVE  \A x \in Estimations : row[x] = "completed" => (row[x])' \in {"completed", "deleted"}
  BY <1>26 DEF update_inquiry_volume_status
<1>27. ASSUME NEW e \in Estimations, update_inquiry_items(e)
      PROVE  \A x \in Estimations : row[x] = "completed" => (row[x])' \in {"completed", "deleted"}
  BY <1>27 DEF update_inquiry_items
<1>28. ASSUME NEW e \in Estimations, NEW f \in Estimations, retry_estimation(e, f)
      PROVE  \A x \in Estimations : row[x] = "completed" => (row[x])' \in {"completed", "deleted"}
  BY <1>28 DEF retry_estimation
<1>29. CASE update_inquiry_processing
  BY <1>29 DEF update_inquiry_processing
<1>30. CASE update_results
  BY <1>30 DEF update_results
<1>31. CASE Restart
  BY <1>31 DEF Restart, Unwritten
<1>32. CASE UNCHANGED vars
  BY <1>32 DEF vars
<1> QED
  BY <1>1, <1>2, <1>3, <1>4, <1>5, <1>6, <1>7, <1>8, <1>9, <1>10, <1>11, <1>12,
     <1>13, <1>14, <1>15, <1>16, <1>17, <1>18, <1>19, <1>20, <1>21, <1>22, <1>23, <1>24,
     <1>25, <1>26, <1>27, <1>28, <1>29, <1>30, <1>31, <1>32
     DEF Next, Make, Work, Delete, depth_sensor_estimate, trigger_estimate

\* A completed row stays completed until it is deleted: a job that fails late and
\* the clean-up fail only rows that are still 'processing'.
THEOREM ResultsStay == Spec => CompletedStays
<1>1. IInv /\ [Next]_vars =>
        [\A e \in Estimations : row[e] = "completed" => (row[e])' \in {"completed", "deleted"}]_vars
  BY CompletedStep
<1> QED
  BY <1>1, Invariance, PTL DEF Spec, CompletedStays
-----------------------------------------------------------------------------
(* Retries.                                                                *)

\* The row of a retry points at the row that was uploaded, which has failed for
\* good unless the clean-up failed it under its job, or was retried before.
Retried ==
  /\ \A e \in Estimations :
       /\ row[e] = "none" => of[e] = e
       /\ row[e] = "failed" => job[e] = "none" \/ e \in cleaned
  /\ \A f \in Estimations :
       row[f] # "none" /\ of[f] # f =>
         /\ of[of[f]] = of[f] /\ row[of[f]] # "none"
         /\ \/ of[f] \in cleaned
            \/ row[of[f]] # "completed" /\ job[of[f]] = "none"
            \/ \E h \in Estimations \ {f, of[f]} : row[h] # "none" /\ of[h] = of[f]

\* What every step but a retry does: rows stay, and one without a job is not
\* completed any more.
Keeps ==
  /\ of' = of
  /\ cleaned \subseteq cleaned'
  /\ \A x \in Estimations :
       /\ row[x] # "none" => (row[x])' # "none"
       /\ row[x] # "none" /\ job[x] = "none" =>
            (job[x])' = "none" /\ ((row[x])' = "completed" => row[x] = "completed")
       /\ (row[x])' = "failed" => (job[x])' = "none" \/ x \in cleaned'

\* Every step but a retry keeps rows and results.
LEMMA KeepsStep ==
  IInv /\ Retried /\ [Next]_vars =>
    Keeps \/ \E e, f \in Estimations : retry_estimation(e, f)
<1> SUFFICES ASSUME IInv, Retried, [Next]_vars,
                      ~\E e, f \in Estimations : retry_estimation(e, f)
               PROVE  Keeps
  OBVIOUS
<1> USE EstimationsAssumption, NoOneAssumption
        DEF IInv, TypeOK, Shape, Fresh, Statuses, Ways, Phases, Exists, Completed, Queued, Mishap, Fine, Released,
            Keeps, Retried, rows, jobs, deletion, inquiry, history
<1>1. ASSUME NEW e \in Estimations, handle_submission(e)
      PROVE  Keeps
  BY <1>1 DEF handle_submission, create_processing, NewRow
<1>2. ASSUME NEW e \in Estimations, handle_ar_submission(e)
      PROVE  Keeps
  BY <1>2 DEF handle_ar_submission, create_processing, NewRow
<1>3. ASSUME NEW e \in Estimations, video_inquiry(e)
      PROVE  Keeps
  BY <1>3 DEF video_inquiry, create_processing, NewRow
<1>4. ASSUME NEW e \in Estimations, trigger_estimate_upload(e)
      PROVE  Keeps
  BY <1>4 DEF trigger_estimate_upload, create_processing, NewRow
<1>5. ASSUME NEW e \in Estimations, trigger_video_upload(e)
      PROVE  Keeps
  BY <1>5 DEF trigger_video_upload, create_processing, NewRow
<1>6. ASSUME NEW e \in Estimations, video_estimate(e)
      PROVE  Keeps
  BY <1>6 DEF video_estimate, NewRow
<1>7. ASSUME NEW e \in Estimations, vision_estimate(e)
      PROVE  Keeps
  BY <1>7 DEF vision_estimate, NewRow
<1>8. ASSUME NEW e \in Estimations, inventory_estimate(e)
      PROVE  Keeps
  BY <1>8 DEF inventory_estimate, NewRow
<1>9. ASSUME NEW e \in Estimations, manual_inquiry(e)
      PROVE  Keeps
  BY <1>9 DEF manual_inquiry
<1>10. ASSUME NEW e \in Estimations, upload_images_to_s3(e)
      PROVE  Keeps
  BY <1>10 DEF upload_images_to_s3
<1>11. ASSUME NEW e \in Estimations, insert_no_return(e)
      PROVE  Keeps
  BY <1>11 DEF insert_no_return
<1>12. ASSUME NEW e \in Estimations, acquire(e)
      PROVE  Keeps
  BY <1>12 DEF acquire
<1>13. ASSUME NEW e \in Estimations, ask_vision(e)
      PROVE  Keeps
  BY <1>13 DEF ask_vision
<1>14. ASSUME NEW e \in Estimations, upsert(e)
      PROVE  Keeps
  BY <1>14 DEF upsert
<1>15. ASSUME NEW e \in Estimations, update_volume_and_status(e)
      PROVE  Keeps
  BY <1>15 DEF update_volume_and_status
<1>16. ASSUME NEW e \in Estimations, try_auto_generate_offer(e)
      PROVE  Keeps
  BY <1>16 DEF try_auto_generate_offer
<1>17. ASSUME NEW e \in Estimations, mark_failed(e)
      PROVE  Keeps
  BY <1>17 DEF mark_failed
<1>18. ASSUME NEW e \in Estimations, mark_completed(e)
      PROVE  Keeps
  BY <1>18 DEF mark_completed
<1>19. ASSUME NEW e \in Estimations, count_processing(e)
      PROVE  Keeps
  BY <1>19 DEF count_processing
<1>20. ASSUME NEW e \in Estimations, sum_completed_volume(e)
      PROVE  Keeps
  BY <1>20 DEF sum_completed_volume
<1>21. ASSUME NEW e \in Estimations, write_sum(e)
      PROVE  Keeps
  BY <1>21 DEF write_sum
<1>22. ASSUME NEW e \in Estimations, cleanup(e)
      PROVE  Keeps
  BY <1>22 DEF cleanup
<1>23. ASSUME NEW e \in Estimations, delete_estimate(e)
      PROVE  Keeps
  BY <1>23 DEF delete_estimate
<1>24. ASSUME NEW e \in Estimations, delete_by_id(e)
      PROVE  Keeps
  BY <1>24 DEF delete_by_id, BeingWritten
<1>25. ASSUME NEW e \in Estimations, delete_sum(e)
      PROVE  Keeps
  BY <1>25 DEF delete_sum
<1>26. ASSUME NEW e \in Estimations, update_inquiry_volume_status(e)
      PROVE  Keeps
  BY <1>26 DEF update_inquiry_volume_status
<1>27. ASSUME NEW e \in Estimations, update_inquiry_items(e)
      PROVE  Keeps
  BY <1>27 DEF update_inquiry_items
<1>29. CASE update_inquiry_processing
  BY <1>29 DEF update_inquiry_processing
<1>30. CASE update_results
  BY <1>30 DEF update_results
<1>31. CASE Restart
  BY <1>31 DEF Restart, Unwritten
<1>32. CASE UNCHANGED vars
  BY <1>32 DEF vars
<1> QED
  BY <1>1, <1>2, <1>3, <1>4, <1>5, <1>6, <1>7, <1>8, <1>9, <1>10, <1>11, <1>12,
     <1>13, <1>14, <1>15, <1>16, <1>17, <1>18, <1>19, <1>20, <1>21, <1>22, <1>23, <1>24,
     <1>25, <1>26, <1>27, <1>29, <1>30, <1>31, <1>32
     DEF Next, Make, Work, Delete, depth_sensor_estimate, trigger_estimate

\* Such a step keeps what is known of retries.
LEMMA KeptRetried ==
  ASSUME TypeOK, Retried, Keeps
  PROVE  Retried'
<1>1. \A e \in Estimations : (row[e])' = "none" => (of[e])' = e
  BY DEF Retried, Keeps, TypeOK
<1>2. \A e \in Estimations : (row[e])' = "failed" => (job[e])' = "none" \/ e \in cleaned'
  BY DEF Keeps
<1>3. ASSUME NEW f \in Estimations, (row[f])' # "none", (of[f])' # f
      PROVE  /\ (of[of[f]])' = (of[f])' /\ (row[of[f]])' # "none"
             /\ \/ (of[f])' \in cleaned'
                \/ (row[of[f]])' # "completed" /\ (job[of[f]])' = "none"
                \/ \E h \in Estimations \ {f, (of[f])'} : (row[h])' # "none" /\ (of[h])' = (of[f])'
  <2> DEFINE g == of[f]
  <2>1. of' = of /\ cleaned \subseteq cleaned' /\ g \in Estimations
    BY DEF Keeps, TypeOK
  <2>2. row[f] # "none" /\ of[f] # f
    BY <1>3, <2>1 DEF Retried
  <2>3. /\ of[g] = g /\ row[g] # "none"
        /\ \/ g \in cleaned
           \/ row[g] # "completed" /\ job[g] = "none"
           \/ \E h \in Estimations \ {f, g} : row[h] # "none" /\ of[h] = g
    BY <2>2 DEF Retried
  <2>4. /\ (row[g])' # "none"
        /\ job[g] = "none" => (job[g])' = "none" /\ ((row[g])' = "completed" => row[g] = "completed")
    BY <2>1, <2>3 DEF Keeps
  <2>5. \A h \in Estimations : row[h] # "none" => (row[h])' # "none"
    BY DEF Keeps
  <2> QED
    BY <2>1, <2>3, <2>4, <2>5
<1> QED
  BY <1>1, <1>2, <1>3 DEF Retried

\* So does a retry: the row it retries has failed, and is the uploaded row or a
\* retry of it.
LEMMA RetryRetried ==
  ASSUME IInv, Retried, NEW e \in Estimations, NEW f \in Estimations, retry_estimation(e, f)
  PROVE  Retried'
<1>1. /\ row[e] = "failed" /\ row[f] = "none" /\ e # f
      /\ row' = [row EXCEPT ![f] = "processing"]
      /\ of' = [of EXCEPT ![f] = of[e]]
      /\ \A x \in Estimations \ {f} : (job[x])' = job[x]
      /\ cleaned' = cleaned
  BY DEF retry_estimation, IInv, Shape, history, TypeOK
<1>2. of[e] \in Estimations /\ (row[f])' = "processing" /\ (of[f])' = of[e]
      /\ \A x \in Estimations \ {f} : (row[x])' = row[x] /\ (of[x])' = of[x]
  BY <1>1 DEF IInv, TypeOK
<1>3. \A x \in Estimations : (row[x])' = "none" => (of[x])' = x
  BY <1>2 DEF Retried
<1>4. \A x \in Estimations : (row[x])' = "failed" => (job[x])' = "none" \/ x \in cleaned'
  BY <1>1, <1>2 DEF Retried
<1>5. \A x \in Estimations : row[x] # "none" => of[x] # f
  BY <1>1 DEF Retried
<1>6. of[of[e]] = of[e] /\ row[of[e]] # "none"
  BY <1>1 DEF Retried
<1>7. /\ of[of[e]] = of[e] /\ row[of[e]] # "none"
      /\ \/ of[e] \in cleaned
         \/ row[of[e]] # "completed" /\ job[of[e]] = "none"
         \/ \E h \in Estimations \ {f, of[e]} : row[h] # "none" /\ of[h] = of[e]
  BY <1>1, <1>6 DEF Retried
<1>8. ASSUME NEW x \in Estimations, (row[x])' # "none", (of[x])' # x
      PROVE  /\ (of[of[x]])' = (of[x])' /\ (row[of[x]])' # "none"
             /\ \/ (of[x])' \in cleaned'
                \/ (row[of[x]])' # "completed" /\ (job[of[x]])' = "none"
                \/ \E h \in Estimations \ {x, (of[x])'} : (row[h])' # "none" /\ (of[h])' = (of[x])'
  <2>1. CASE x = f
    <3>1. of[e] # f
      BY <1>1, <1>5
    <3>2. of'[of[e]] = of[e] /\ row'[of[e]] = row[of[e]] /\ job'[of[e]] = job[of[e]]
      BY <1>1, <1>2, <1>7, <3>1
    <3>3. \A h \in Estimations : row[h] # "none" => row'[h] # "none" /\ (h # f => of'[h] = of[h])
      BY <1>1, <1>2
    <3>4. \A h \in Estimations \ {f, of[e]} :
            row[h] # "none" /\ of[h] = of[e] => row'[h] # "none" /\ of'[h] = of[e]
      BY <3>3
    <3> QED
      BY <2>1, <1>1, <1>2, <1>7, <3>2, <3>4
  <2>2. CASE x # f
    <3> DEFINE g == of[x]
    <3>1. row[x] # "none" /\ of[x] # x /\ of'[x] = g /\ g \in Estimations
      BY <2>2, <1>2, <1>8 DEF IInv, TypeOK
    <3>2. /\ of[g] = g /\ row[g] # "none"
          /\ \/ g \in cleaned
             \/ row[g] # "completed" /\ job[g] = "none"
             \/ \E h \in Estimations \ {x, g} : row[h] # "none" /\ of[h] = g
      BY <3>1 DEF Retried
    <3>3. g # f
      BY <3>2, <1>1
    <3>4. of'[g] = g /\ row'[g] = row[g] /\ job'[g] = job[g]
      BY <1>1, <1>2, <3>1, <3>2, <3>3
    <3>5. \A h \in Estimations \ {x, g} :
            row[h] # "none" /\ of[h] = g => row'[h] # "none" /\ of'[h] = g
      BY <1>1, <1>2
    <3> QED
      BY <3>1, <3>2, <3>4, <3>5, <1>1
  <2> QED
    BY <2>1, <2>2
<1> QED
  BY <1>3, <1>4, <1>8 DEF Retried

\* A set of more than one member has two.
LEMMA TwoMembers ==
  ASSUME NEW T, IsFiniteSet(T), Cardinality(T) \in Nat, Cardinality(T) > 1
  PROVE  \E x, y \in T : x # y
<1>1. Cardinality(T) # 0 /\ Cardinality(T) # 1
  OBVIOUS
<1>2. T # {} /\ ~ \E x : T = {x}
  BY <1>1, FS_EmptySet, FS_Singleton, Zenon
<1> QED
  BY <1>2

\* Three members are three.
LEMMA ThreeMembers ==
  ASSUME NEW a, NEW b, NEW c, a # b, b # c, a # c
  PROVE  Cardinality(({a} \cup {b}) \cup {c}) = 3
<1>1. IsFiniteSet({a}) /\ Cardinality({a}) = 1
  BY FS_Singleton
<1>2. b \notin {a} /\ c \notin {a} \cup {b}
  OBVIOUS
<1>3. IsFiniteSet({a} \cup {b}) /\ Cardinality({a} \cup {b}) = 1 + 1
  BY <1>1, <1>2, FS_AddElement
<1> QED
  BY <1>2, <1>3, FS_AddElement

\* Two results of one medium show a clean-up or a third row.
LEMMA ResultsApart ==
  ASSUME IsFiniteSet(Estimations), TypeOK, Retried
  PROVE  OneResultPerMedium
<1> SUFFICES ASSUME NEW e \in Estimations,
                    Cardinality(Siblings(e) \cap Completed) > 1,
                    Siblings(e) \cap cleaned = {},
                    ~(Cardinality(Siblings(e)) > 2)
             PROVE  FALSE
  BY DEF OneResultPerMedium
<1> DEFINE S == Siblings(e)
           g == of[e]
<1>1. S \subseteq Estimations /\ IsFiniteSet(S) /\ Cardinality(S) \in Nat
  BY FS_Subset, FS_CardinalityType DEF Siblings
<1>2. IsFiniteSet(S \cap Completed) /\ Cardinality(S \cap Completed) \in Nat
  BY <1>1, FS_Subset, FS_CardinalityType
<1>3. PICK x, y \in S \cap Completed : x # y
  BY <1>2, TwoMembers
<1>4. \A a, b, c \in S : a = b \/ b = c \/ a = c
  <2> SUFFICES ASSUME NEW a \in S, NEW b \in S, NEW c \in S, a # b, b # c, a # c
               PROVE  FALSE
    OBVIOUS
  <2> DEFINE T == ({a} \cup {b}) \cup {c}
  <2>1. Cardinality(T) = 3
    BY ThreeMembers
  <2>2. T \in SUBSET S
    OBVIOUS
  <2>3. Cardinality(T) <= Cardinality(S)
    BY <1>1, <2>2, FS_Subset
  <2> HIDE DEF T
  <2> QED
    BY <1>1, <2>1, <2>3
<1>5. \A z \in S \cap Completed : z # g => /\ g \in S
                                       /\ g \notin Completed
  <2> SUFFICES ASSUME NEW z \in S \cap Completed, z # g
               PROVE  g \in S /\ g \notin Completed
    OBVIOUS
  <2>1. z \in Estimations /\ row[z] # "none" /\ of[z] = g /\ of[z] # z /\ g \in Estimations
    BY DEF Siblings, Completed, TypeOK
  <2>2. /\ of[g] = g /\ row[g] # "none"
        /\ \/ g \in cleaned
           \/ row[g] # "completed" /\ job[g] = "none"
           \/ \E h \in Estimations \ {z, g} : row[h] # "none" /\ of[h] = g
    BY <2>1 DEF Retried
  <2>3. g \in S
    BY <2>1, <2>2 DEF Siblings
  <2>4. g \notin cleaned
    BY <2>3
  <2>5. ~ \E h \in Estimations \ {z, g} : row[h] # "none" /\ of[h] = g
    BY <1>4, <2>1, <2>3 DEF Siblings
  <2> QED
    BY <2>2, <2>3, <2>4, <2>5 DEF Completed
<1> QED
  BY <1>3, <1>4, <1>5

\* However often jobs fail, are cleaned up, deleted and retried, two rows of one
\* medium are completed only where the clean-up failed one under its running job
\* or the medium was retried more than once.
THEOREM OneResult ==
  ASSUME IsFiniteSet(Estimations)
  PROVE  Spec => []OneResultPerMedium
<1>1. Init => Retried
  BY DEF Init, Retried
<1>2. IInv /\ Retried /\ [Next]_vars => Retried'
  BY KeepsStep, KeptRetried, RetryRetried DEF IInv
<1>3. IInv /\ Retried => OneResultPerMedium
  BY ResultsApart DEF IInv
<1> QED
  BY <1>1, <1>2, <1>3, Invariance, PTL DEF Spec
-----------------------------------------------------------------------------
(* Clips.                                                                  *)

AllClips == \A e \in Estimations : Fresh(e) \/ way[e] = "clip"

\* Only clips were posted, nothing failed, was deleted or edited, and no sum was
\* out of date.
Undisturbed == AllClips /\ mishaps = 0 /\ ~missed

\* Then a row that is still processing has a job that will complete it, and no
\* job is at a place of another way.
ClipJobs ==
  \A e \in Estimations :
    /\ row[e] = "processing" => job[e] \in {"vision", "found"}
    /\ job[e] \in {"none", "vision", "found", "marked", "counted", "summed", "offer"}
    /\ del[e] = "none"

\* The volume is the sum, or a job that will write it is under way.
Summing == {"vision", "found", "marked", "counted", "summed"}
SumComes == volume = Completed \/ \E e \in Estimations : job[e] \in Summing

ClipsInv == Undisturbed => ClipJobs /\ SumComes /\ editing = NoOne

\* A clip does not become anything else, and what failed or was missed stays so.
LEMMA StaysUndisturbed ==
  ASSUME IInv, [Next]_vars, Undisturbed'
  PROVE  Undisturbed
<1> USE EstimationsAssumption
        DEF IInv, TypeOK, Undisturbed, AllClips, Fresh, Mishap, Fine, rows, jobs, deletion, inquiry, history
<1>1. ASSUME NEW e \in Estimations,
             \/ handle_submission(e) \/ handle_ar_submission(e) \/ video_inquiry(e)
             \/ trigger_estimate_upload(e) \/ trigger_video_upload(e)
      PROVE  Undisturbed
  BY <1>1 DEF handle_submission, handle_ar_submission, video_inquiry,
              trigger_estimate_upload, trigger_video_upload, create_processing, NewRow
<1>2. ASSUME NEW e \in Estimations,
             \/ video_estimate(e) \/ vision_estimate(e) \/ inventory_estimate(e)
             \/ manual_inquiry(e)
      PROVE  Undisturbed
  BY <1>2 DEF video_estimate, vision_estimate, inventory_estimate, manual_inquiry,
              NewRow
<1>3. ASSUME NEW e \in Estimations,
             \/ upload_images_to_s3(e) \/ insert_no_return(e) \/ acquire(e)
             \/ ask_vision(e) \/ upsert(e)
      PROVE  Undisturbed
  BY <1>3 DEF upload_images_to_s3, insert_no_return, acquire, ask_vision, upsert
<1>4. ASSUME NEW e \in Estimations,
             \/ update_volume_and_status(e) \/ try_auto_generate_offer(e)
             \/ mark_failed(e) \/ mark_completed(e)
      PROVE  Undisturbed
  BY <1>4 DEF update_volume_and_status, try_auto_generate_offer, mark_failed,
              mark_completed
<1>5. ASSUME NEW e \in Estimations,
             \/ count_processing(e) \/ sum_completed_volume(e) \/ write_sum(e)
             \/ cleanup(e)
      PROVE  Undisturbed
  BY <1>5 DEF count_processing, sum_completed_volume, write_sum, cleanup
<1>6. ASSUME NEW e \in Estimations,
             \/ delete_estimate(e) \/ delete_by_id(e) \/ delete_sum(e)
             \/ update_inquiry_volume_status(e) \/ update_inquiry_items(e)
      PROVE  Undisturbed
  BY <1>6 DEF delete_estimate, delete_by_id, delete_sum, update_inquiry_volume_status,
              update_inquiry_items
<1>7. ASSUME NEW e \in Estimations, NEW f \in Estimations, retry_estimation(e, f)
      PROVE  Undisturbed
  BY <1>7 DEF retry_estimation
<1>8. CASE update_inquiry_processing \/ update_results \/ Restart
  BY <1>8 DEF update_inquiry_processing, update_results, Restart
<1>9. CASE UNCHANGED vars
  BY <1>9 DEF vars
<1> QED
  BY <1>1, <1>2, <1>3, <1>4, <1>5, <1>6, <1>7, <1>8, <1>9
     DEF Next, Make, Work, Delete, depth_sensor_estimate, trigger_estimate

\* Every step keeps that the sum is written or comes.
LEMMA ClipsStep == IInv /\ ClipsInv /\ [Next]_vars => ClipsInv'
<1> SUFFICES ASSUME IInv, ClipsInv, [Next]_vars, Undisturbed'
             PROVE  ClipJobs' /\ SumComes' /\ editing' = NoOne
  BY DEF ClipsInv, NoOne
<1> DEFINE Goal == ClipJobs' /\ SumComes' /\ editing' = NoOne
<1>0. Undisturbed /\ ClipJobs /\ SumComes /\ editing = NoOne
  BY StaysUndisturbed DEF ClipsInv
<1> USE EstimationsAssumption, NoOneAssumption, <1>0
        DEF IInv, TypeOK, Shape, Undisturbed, AllClips, Fresh, Exists, Completed, Queued, Mishap, Fine,
            ClipJobs, SumComes, Summing, rows, jobs, deletion, inquiry, history
<1>1. ASSUME NEW e \in Estimations, video_estimate(e) PROVE Goal
  BY <1>1 DEF video_estimate, NewRow
<1>2. ASSUME NEW e \in Estimations, ask_vision(e) PROVE Goal
  <2>1. UNCHANGED <<row, volume, del, editing>> /\ job' = [job EXCEPT ![e] = "found"] /\ job[e] = "vision"
    BY <1>2 DEF ask_vision
  <2> QED
    BY <2>1
<1>3. ASSUME NEW e \in Estimations, try_auto_generate_offer(e) PROVE Goal
  BY <1>3 DEF try_auto_generate_offer
<1>4. ASSUME NEW e \in Estimations, mark_completed(e) PROVE Goal
  <2>1. /\ UNCHANGED <<volume, del, editing>> /\ job' = [job EXCEPT ![e] = "marked"]
        /\ row' = IF Exists(e) THEN [row EXCEPT ![e] = "completed"] ELSE row
    BY <1>4 DEF mark_completed
  <2>2. row'[e] # "processing" /\ \A f \in Estimations \ {e} : row'[f] = row[f]
    <3>1. CASE Exists(e)
      BY <2>1, <3>1
    <3>2. CASE ~Exists(e)
      BY <2>1, <3>2
    <3> QED
      BY <3>1, <3>2
  <2>3. job'[e] = "marked" /\ \A f \in Estimations \ {e} : job'[f] = job[f]
    BY <2>1
  <2>4. ClipJobs'
    BY <2>1, <2>2, <2>3
  <2>5. SumComes'
    BY <2>3
  <2> QED
    BY <2>1, <2>4, <2>5
<1>5. ASSUME NEW e \in Estimations, count_processing(e) PROVE Goal
  <2>1. /\ UNCHANGED <<row, volume, del, editing>> /\ job[e] = "marked"
        /\ job' = [job EXCEPT ![e] = IF \E f \in Estimations : row[f] = "processing"
                                     THEN "none" ELSE "counted"]
    BY <1>5 DEF count_processing
  <2>2. CASE \E f \in Estimations : row[f] = "processing"
    <3>1. PICK f \in Estimations : row[f] = "processing"
      BY <2>2
    <3>2. f # e /\ job[f] \in {"vision", "found"}
      BY <2>1, <3>1
    <3> QED
      BY <2>1, <2>2, <3>1, <3>2
  <2>3. CASE ~\E f \in Estimations : row[f] = "processing"
    BY <2>1, <2>3
  <2> QED
    BY <2>2, <2>3
<1>6. ASSUME NEW e \in Estimations, sum_completed_volume(e) PROVE Goal
  BY <1>6 DEF sum_completed_volume
<1>7. ASSUME NEW e \in Estimations, write_sum(e) PROVE Goal
  <2>1. /\ UNCHANGED <<row, del, editing>> /\ job' = [job EXCEPT ![e] = "offer"]
        /\ volume' = Completed /\ Completed' = Completed /\ job[e] = "summed"
    BY <1>7 DEF write_sum
  <2>2. ClipJobs'
    BY <2>1
  <2>3. SumComes'
    BY <2>1
  <2> QED
    BY <2>1, <2>2, <2>3
<1>8. ASSUME NEW e \in Estimations, cleanup(e) PROVE Goal
  <2>1. /\ UNCHANGED <<job, volume, del, editing>> /\ row[e] = "processing"
        /\ row' = [row EXCEPT ![e] = "failed"]
    BY <1>8 DEF cleanup
  <2>2. Completed' = Completed
    BY <2>1
  <2> QED
    BY <2>1, <2>2
<1>9. CASE update_inquiry_processing
  BY <1>9 DEF update_inquiry_processing
<1>10. CASE UNCHANGED vars
  BY <1>10 DEF vars
<1>11. ASSUME NEW e \in Estimations,
              \/ handle_submission(e) \/ handle_ar_submission(e) \/ video_inquiry(e)
              \/ trigger_estimate_upload(e) \/ trigger_video_upload(e)
       PROVE  FALSE
  BY <1>11 DEF handle_submission, handle_ar_submission, video_inquiry,
               trigger_estimate_upload, trigger_video_upload, create_processing, NewRow
<1>12. ASSUME NEW e \in Estimations,
              vision_estimate(e) \/ inventory_estimate(e) \/ manual_inquiry(e)
       PROVE  FALSE
  BY <1>12 DEF vision_estimate, inventory_estimate, manual_inquiry, NewRow
<1>13. ASSUME NEW e \in Estimations,
              \/ upload_images_to_s3(e) \/ insert_no_return(e) \/ acquire(e)
              \/ upsert(e)
       PROVE  FALSE
  BY <1>13 DEF upload_images_to_s3, insert_no_return, acquire, upsert
<1>14. ASSUME NEW e \in Estimations,
              update_volume_and_status(e) \/ mark_failed(e) \/ delete_estimate(e)
       PROVE  FALSE
  BY <1>14 DEF update_volume_and_status, mark_failed, delete_estimate
<1>15. ASSUME NEW e \in Estimations,
              \/ delete_by_id(e) \/ delete_sum(e) \/ update_inquiry_volume_status(e)
              \/ update_inquiry_items(e)
       PROVE  FALSE
  BY <1>15 DEF delete_by_id, delete_sum, update_inquiry_volume_status,
               update_inquiry_items
<1>16. ASSUME NEW e \in Estimations, NEW f \in Estimations, retry_estimation(e, f)
       PROVE  FALSE
  BY <1>16 DEF retry_estimation
<1>17. ~update_results /\ ~Restart
  BY DEF update_results, Restart
<1> QED
  BY <1>1, <1>2, <1>3, <1>4, <1>5, <1>6, <1>7, <1>8, <1>9, <1>10, <1>11, <1>12, <1>13, <1>14,
     <1>15, <1>16, <1>17 DEF Next, Make, Work, Delete, depth_sensor_estimate, trigger_estimate

\* Clips posted in any number, whose jobs end in any order and are cleaned up
\* meanwhile: once all have ended the volume is the sum of them all, unless a sum
\* was out of date when it was written.
THEOREM ClipsSummed == Spec => []ClipsAddUp
<1>1. Init => ClipsInv
  BY DEF Init, ClipsInv, ClipJobs, SumComes, Completed
<1>2. IInv /\ ClipsInv /\ [Next]_vars => ClipsInv'
  BY ClipsStep
<1>3. IInv /\ ClipsInv => ClipsAddUp
  BY DEF IInv, Shape, ClipsInv, ClipsAddUp, OnlyClips, Undisturbed, AllClips, SumComes, Summing
<1> QED
  BY <1>1, <1>2, <1>3, Invariance, PTL DEF Spec
-----------------------------------------------------------------------------
(***************************************************************************)
(* The crew of the inquiry's days.                                         *)
(***************************************************************************)

\* What a request that moved the job may still have to do.
Staffings == [op : {"staff"}, day : Days, crew : SUBSET Employees]
Crewings == [op : {"replace", "prune", "book"}, crew : SUBSET Employees]
Followups == {Closed} \union Staffings \union Crewings

\* What an open request holds of what it read and was told.
HoldsOK(q) ==
  /\ q.op = "move" =>
       /\ q.old \in 0..MaxDay /\ q.new \in 0..MaxDay
       /\ q.end \in {Keep} \union 0..MaxDay /\ q.next \in Followups
  /\ q.op = "staff" => q \in Staffings
  /\ q.op \in {"replace", "prune", "book"} => q \in Crewings
  /\ q.op = "put" =>
       /\ q.list \subseteq Rows /\ q.hours \subseteq q.list
       /\ q.span = {} \/ \A w \in q.list : w[2] \in q.span
  /\ q.op = "crew" => q.crew \subseteq Employees /\ q.days \subseteq Days
  /\ q.op = "cleanup" => q.off \cap q.paid = {}

OpensOK == DOMAIN open = Requests /\ \A r \in Requests : HoldsOK(open[r])

DatesOK ==
  /\ start \in 0..MaxDay /\ finish \in 0..MaxDay
  /\ start # 0 /\ finish # 0 => start <= finish

\* Only rows that are there have hours.
RowsOK == crew \subseteq Rows /\ work \subseteq crew

CrewInv == DatesOK /\ RowsOK /\ OpensOK /\ CrewInSpan

\* The job's days, and those a new crew member is booked for, are days.
LEMMA SpanDays ==
  ASSUME NEW s \in 0..MaxDay, NEW f \in 0..MaxDay
  PROVE  /\ Span(s, f) \subseteq Days
         /\ \A d \in Span(s, f) : s # 0 /\ s <= d /\ d <= Last(s, f)
         /\ s # 0 => \A d \in Days : s <= d /\ d <= Last(s, f) => d \in Span(s, f)
         /\ Last(s, f) \in 0..MaxDay /\ (s # 0 => Last(s, f) # 0)
         /\ s # 0 /\ (f # 0 => s <= f) => s \in Span(s, f)
BY CrewAssumption DEF Span, Last, Days

LEMMA SeriesOfDays ==
  ASSUME DatesOK
  PROVE  /\ SeriesDays \subseteq Days
         /\ start # 0 => SeriesDays = Span(start, finish)
BY CrewAssumption DEF DatesOK, SeriesDays, Span, Last, Days, Created

\* A request that stops or goes on to its next part.
LEMMA FollowupHolds == \A q \in Followups : HoldsOK(q)
BY DEF Followups, Staffings, Crewings, Closed, HoldsOK

LEMMA GoesOK ==
  ASSUME OpensOK, NEW r \in Requests, NEW q, HoldsOK(q), Goes(r, q)
  PROVE  OpensOK'
<1>1. DOMAIN open' = Requests /\ \A t \in Requests : open'[t] = IF t = r THEN q ELSE open[t]
  BY DEF Goes, OpensOK
<1> QED
  BY <1>1 DEF OpensOK, HoldsOK

\* The crew invariant holds before any request.
LEMMA CrewInitInv == CrewInit => CrewInv
<1> SUFFICES ASSUME CrewInit PROVE CrewInv
  OBVIOUS
<1>1. DatesOK
  BY CrewAssumption DEF CrewInit, DatesOK
<1>2. RowsOK /\ CrewInSpan
  BY DEF CrewInit, RowsOK, CrewInSpan
<1>3. OpensOK
  BY FollowupHolds DEF CrewInit, OpensOK, Followups
<1> QED
  BY <1>1, <1>2, <1>3 DEF CrewInv

\* A step that writes neither dates nor rows keeps the crew invariant.
LEMMA OnlyOpens ==
  ASSUME CrewInv, OpensOK', UNCHANGED <<start, finish, crew, work, stray>>
  PROVE  CrewInv'
BY DEF CrewInv, DatesOK, RowsOK, CrewInSpan

LEMMA OpeningStep ==
  ASSUME CrewInv, NEW r \in Requests, NEW q, HoldsOK(q), Opens(r, q),
         UNCHANGED <<dates, assignments, stray>>
  PROVE  CrewInv'
<1>1. OpensOK'
  BY GoesOK DEF Opens, Goes, CrewInv
<1> QED
  BY <1>1, OnlyOpens DEF dates, assignments

\* A request that is going to move the job holds days and what follows.
LEMMA MoveHolds ==
  ASSUME CrewInv, NEW r \in Requests, NEW s \in 0..MaxDay, NEW f \in {Keep, 0} \union Days,
         NEW next \in Followups, ReadsDate(r, s, f, next),
         UNCHANGED <<dates, assignments, stray>>
  PROVE  CrewInv'
<1> DEFINE q == [op |-> "move", old |-> IF s = 0 THEN 0 ELSE start, new |-> s, end |-> f,
                 next |-> next]
<1>1. HoldsOK(q)
  BY CrewAssumption DEF HoldsOK, Days, CrewInv, DatesOK
<1>2. Opens(r, q)
  BY DEF ReadsDate
<1> HIDE DEF q
<1> QED
  BY <1>1, <1>2, OpeningStep

\* Dropping the rows outside the days leaves the crew on them.
LEMMA KeepInsideStep ==
  ASSUME RowsOK, NEW s \in 0..MaxDay, NEW f \in 0..MaxDay, KeepInside(s, f)
  PROVE  /\ crew' \subseteq Rows /\ work' = work /\ work' \subseteq crew'
         /\ s # 0 => \A w \in crew' \ work' : w[2] \in Span(s, f)
<1>1. crew' = Inside(s, f) /\ work' = work
  BY DEF KeepInside
<1>2. crew' \subseteq Rows /\ work' \subseteq crew'
  BY <1>1 DEF Inside, RowsOK
<1>3. ASSUME s # 0, NEW w \in crew' \ work' PROVE w[2] \in Span(s, f)
  <2>1. w[2] \in Days
    BY <1>2 DEF Rows
  <2>2. w[2] >= s /\ w[2] <= Last(s, f)
    BY <1>1, <1>3, SpanDays DEF Inside
  <2>3. s <= w[2]
    BY <2>1, <2>2 DEF Days
  <2> QED
    BY <1>3, <2>1, <2>2, <2>3, SpanDays
<1> QED
  BY <1>1, <1>2, <1>3

\* So does moving them with it.
LEMMA MoveCrewStep ==
  ASSUME RowsOK, NEW n \in Int, NEW window \in SUBSET Days, MoveCrew(n, window)
  PROVE  /\ crew' \subseteq Rows /\ work' = work /\ work' \subseteq crew'
         /\ \A w \in crew' \ work' : w[2] \in window
<1> DEFINE landed == {w \in Shifted(crew, n) : w[2] \in window}
<1>1. crew' = work \union landed /\ work' = work
  BY DEF MoveCrew
<1>2. ASSUME NEW w \in landed PROVE w \in Rows /\ w[2] \in window
  <2>1. PICK v \in crew \ work : w = <<v[1], v[2] + n>>
    BY DEF Shifted
  <2>2. v[1] \in Employees
    BY DEF RowsOK, Rows
  <2> QED
    BY <2>1, <2>2 DEF Rows
<1> QED
  BY <1>1, <1>2 DEF RowsOK

\* The days a move gives the job are in order.
LEMMA NewDates ==
  ASSUME CrewInv, NEW q, HoldsOK(q), q.op = "move",
         NewFinish(q) <= MaxDay,
         NewStart(q) # 0 /\ NewFinish(q) # 0 => NewStart(q) <= NewFinish(q)
  PROVE  NewStart(q) \in 0..MaxDay /\ NewFinish(q) \in 0..MaxDay
<1>1. NewStart(q) \in 0..MaxDay
  BY DEF NewStart, HoldsOK, CrewInv, DatesOK
<1>2. NewFinish(q) \in Int /\ NewFinish(q) >= 0
  BY CrewAssumption DEF NewFinish, Keep, HoldsOK, CrewInv, DatesOK
<1> QED
  BY <1>1, <1>2, CrewAssumption

\* Moving or resizing the job.
LEMMA MovesStep ==
  ASSUME CrewInv, NEW r \in Requests, Moves(r)
  PROVE  CrewInv'
<1> DEFINE q == open[r]
           s == NewStart(q)
           f == NewFinish(q)
<1>1. HoldsOK(q) /\ q.op = "move"
  BY DEF Moves, CrewInv, OpensOK
<1>2. /\ f <= MaxDay /\ (s # 0 /\ f # 0 => s <= f)
      /\ start' = s /\ finish' = f
      /\ \/ MoveCrew(q.new - q.old, Span(s, f))
         \/ KeepInside(s, f)
  BY DEF Moves, update_fields
<1>3. s \in 0..MaxDay /\ f \in 0..MaxDay
  BY <1>1, <1>2, NewDates
<1> HIDE DEF s, f
<1>4. OpensOK'
  BY <1>1, FollowupHolds, GoesOK DEF Moves, HoldsOK, CrewInv
<1>5. DatesOK'
  BY <1>2, <1>3 DEF DatesOK
<1>6. RowsOK' /\ \A w \in crew' \ work' : s # 0 => w[2] \in Span(s, f)
  <2>1. CASE KeepInside(s, f)
    BY <1>3, <2>1, KeepInsideStep DEF RowsOK, CrewInv
  <2>2. CASE MoveCrew(q.new - q.old, Span(s, f))
    <3>1. q.new - q.old \in Int
      BY <1>1, CrewAssumption DEF HoldsOK
    <3>2. Span(s, f) \in SUBSET Days
      BY <1>3, SpanDays
    <3> QED
      BY <2>2, <3>1, <3>2, MoveCrewStep DEF RowsOK, CrewInv
  <2> QED
    BY <1>2, <2>1, <2>2
<1>7. CrewInSpan'
  BY <1>2, <1>6 DEF CrewInSpan, Span, Last
<1> QED
  BY <1>4, <1>5, <1>6, <1>7 DEF CrewInv

\* A move that is about to be asked for: the date is read, the rest follows.
LEMMA AsksToMove ==
  ASSUME CrewInv, NEW r \in Requests,
         \/ update_inquiry(r) \/ update_item(r) \/ schedule_inquiry(r) \/ reassign_termin(r)
  PROVE  CrewInv'
<1>1. UNCHANGED <<dates, assignments, stray>>
  BY DEF update_inquiry, update_item, schedule_inquiry, reassign_termin
<1>2. CASE update_inquiry(r) \/ update_item(r)
  <2>1. PICK s \in 0..MaxDay, f \in {Keep, 0} \union Days : ReadsDate(r, s, f, Closed)
    BY <1>2 DEF update_inquiry, update_item
  <2>2. Closed \in Followups
    BY DEF Followups
  <2> QED
    BY <1>1, <2>1, <2>2, MoveHolds
<1>3. CASE schedule_inquiry(r)
  <2>1. PICK d \in Days, c \in SUBSET Employees :
          ReadsDate(r, d, Keep, [op |-> "staff", day |-> d, crew |-> c])
    BY <1>3 DEF schedule_inquiry
  <2>2. [op |-> "staff", day |-> d, crew |-> c] \in Followups /\ d \in 0..MaxDay
    BY DEF Followups, Staffings, Days
  <2> QED
    BY <1>1, <2>1, <2>2, MoveHolds
<1>4. CASE reassign_termin(r)
  <2>1. PICK c \in SUBSET Employees :
          LET next == [op |-> "replace", crew |-> c]
          IN (\E d \in Days : ReadsDate(r, d, Keep, next)) \/ Opens(r, next)
    BY <1>4 DEF reassign_termin
  <2> DEFINE next == [op |-> "replace", crew |-> c]
  <2>2. next \in Followups /\ HoldsOK(next)
    BY FollowupHolds DEF Followups, Crewings
  <2>3. \A d \in Days : d \in 0..MaxDay
    BY DEF Days
  <2>4. CASE \E d \in Days : ReadsDate(r, d, Keep, next)
    <3>1. PICK d \in Days : ReadsDate(r, d, Keep, next)
      BY <2>4
    <3> QED
      BY <1>1, <2>2, <2>3, <3>1, MoveHolds
  <2>5. CASE Opens(r, next)
    BY <1>1, <2>2, <2>5, OpeningStep
  <2> QED
    BY <2>1, <2>4, <2>5
<1> QED
  BY <1>2, <1>3, <1>4

\* A list, a crew, hours or a clean-up that is about to be written.
LEMMA AsksToWrite ==
  ASSUME CrewInv, NEW r \in Requests,
         \/ \E e \in Employees : assigned_days(r, e) \/ fetch_hours_adjustments(r, e)
         \/ put_inquiry_employees(r) \/ put_item_employees(r) \/ set_inquiry_crew(r)
  PROVE  CrewInv'
<1>1. UNCHANGED <<dates, assignments, stray>>
  BY DEF assigned_days, fetch_hours_adjustments, put_inquiry_employees, put_item_employees,
         set_inquiry_crew
<1>2. ASSUME NEW e \in Employees, assigned_days(r, e) PROVE CrewInv'
  <2>1. PICK days : Opens(r, [op |-> "hours", who |-> e, days |-> days])
    BY <1>2 DEF assigned_days
  <2>2. HoldsOK([op |-> "hours", who |-> e, days |-> days])
    BY DEF HoldsOK
  <2> QED
    BY <1>1, <2>1, <2>2, OpeningStep
<1>3. ASSUME NEW e \in Employees, fetch_hours_adjustments(r, e) PROVE CrewInv'
  <2> DEFINE q == [op |-> "cleanup", who |-> e,
                   off |-> {w \in Rows : w[1] = e /\ adj[w] = "off"},
                   paid |-> {w \in Rows : w[1] = e /\ adj[w] = "paid"}]
  <2>1. Opens(r, q)
    BY <1>3 DEF fetch_hours_adjustments
  <2>2. HoldsOK(q)
    BY DEF HoldsOK
  <2> QED
    BY <1>1, <2>1, <2>2, OpeningStep
<1>4. CASE put_inquiry_employees(r) \/ put_item_employees(r)
  <2>1. ReadsSpan(r)
    BY <1>4 DEF put_inquiry_employees, put_item_employees
  <2>2. PICK list \in SUBSET (IF start = 0 THEN Rows
                              ELSE Rows \cap (Employees \X Span(start, finish))) :
          \E hours \in {{}, list} :
            Opens(r, [op |-> "put", list |-> list, hours |-> hours,
                      span |-> Span(start, finish)])
    BY <2>1 DEF ReadsSpan
  <2>3. PICK hours \in {{}, list} :
          Opens(r, [op |-> "put", list |-> list, hours |-> hours,
                    span |-> Span(start, finish)])
    BY <2>2
  <2>4. list \subseteq Rows /\ hours \subseteq list
    BY <2>2, <2>3
  <2>5. Span(start, finish) = {} \/ \A w \in list : w[2] \in Span(start, finish)
    BY <2>2 DEF Span
  <2>6. HoldsOK([op |-> "put", list |-> list, hours |-> hours, span |-> Span(start, finish)])
    BY <2>4, <2>5 DEF HoldsOK
  <2> QED
    BY <1>1, <2>3, <2>6, OpeningStep
<1>5. CASE set_inquiry_crew(r)
  <2>1. PICK c, days, told :
          /\ Opens(r, [op |-> "crew", crew |-> c, days |-> days, told |-> told])
          /\ c \subseteq Employees
          /\ days = Span(start, finish) \/ \E d \in Days : days = {d}
    BY <1>5 DEF set_inquiry_crew
  <2>2. days \subseteq Days
    <3>1. Span(start, finish) \subseteq Days
      BY SpanDays DEF CrewInv, DatesOK
    <3> QED
      BY <2>1, <3>1
  <2>3. HoldsOK([op |-> "crew", crew |-> c, days |-> days, told |-> told])
    BY <2>1, <2>2 DEF HoldsOK
  <2> QED
    BY <1>1, <2>1, <2>3, OpeningStep
<1> QED
  BY <1>2, <1>3, <1>4, <1>5

\* Writing rows on the days of the job, rows that were there, or strays.
LEMMA RowsWritten ==
  ASSUME CrewInv, OpensOK', UNCHANGED dates, crew' \subseteq Rows, work' \subseteq crew',
         stray \subseteq stray',
         \A w \in crew' \ work' :
           start # 0 => w \in crew \ work \/ w[2] \in Span(start, finish) \/ w \in stray'
  PROVE  CrewInv'
<1>1. start' = start /\ finish' = finish
  BY DEF dates
<1>2. DatesOK' /\ RowsOK'
  BY <1>1 DEF CrewInv, DatesOK, RowsOK
<1>3. CrewInSpan'
  <2>1. SUFFICES ASSUME start # 0, NEW w \in crew' \ work'
                 PROVE  w[2] \in Span(start, finish) \/ w \in stray'
    BY <1>1 DEF CrewInSpan
  <2> QED
    BY <2>1 DEF CrewInv, CrewInSpan
<1> QED
  BY <1>2, <1>3 DEF CrewInv

\* One of the crew on the day it was told.
LEMMA StaffsDayStep ==
  ASSUME CrewInv, NEW r \in Requests, StaffsDay(r)
  PROVE  CrewInv'
<1>1. open[r] \in Staffings
  BY DEF StaffsDay, CrewInv, OpensOK, HoldsOK
<1>2. PICK e \in open[r].crew :
        /\ crew' = crew \union {<<e, open[r].day>>}
        /\ stray' = IF open[r].day \in Span(start, finish) THEN stray
                    ELSE stray \union {<<e, open[r].day>>}
        /\ Goes(r, [open[r] EXCEPT !.crew = @ \ {e}])
  BY DEF StaffsDay
<1>3. e \in Employees /\ open[r].day \in Days
  BY <1>1, <1>2 DEF Staffings
<1>4. [open[r] EXCEPT !.crew = @ \ {e}] \in Staffings
  BY <1>1 DEF Staffings
<1>5. OpensOK'
  BY <1>2, <1>4, FollowupHolds, GoesOK DEF Followups, CrewInv
<1>6. crew' \subseteq Rows /\ work' = work /\ work' \subseteq crew' /\ UNCHANGED dates
  BY <1>2, <1>3 DEF StaffsDay, CrewInv, RowsOK, Rows, dates
<1>7. stray \subseteq stray'
  BY <1>2
<1>8. \A w \in crew' \ work' :
        w \in crew \ work \/ w[2] \in Span(start, finish) \/ w \in stray'
  BY <1>2, <1>6
<1> QED
  BY <1>5, <1>6, <1>7, <1>8, RowsWritten

\* The parts of a request that gives a Termin another crew.
LEMMA CrewingStep ==
  ASSUME CrewInv, NEW r \in Requests,
         ReplacesCrew(r) \/ PrunesStale(r) \/ BooksDays(r)
  PROVE  CrewInv'
<1>1. open[r] \in Crewings
  BY DEF ReplacesCrew, PrunesStale, BooksDays, CrewInv, OpensOK, HoldsOK
<1>2. UNCHANGED dates /\ stray \subseteq stray'
  BY DEF ReplacesCrew, PrunesStale, BooksDays
<1>3. CASE ReplacesCrew(r)
  <2>1. [open[r] EXCEPT !.op = "prune"] \in Crewings
    BY <1>1 DEF Crewings
  <2>2. OpensOK'
    BY <1>3, <2>1, FollowupHolds, GoesOK DEF ReplacesCrew, Followups, CrewInv
  <2>3. crew' \subseteq crew /\ work' = work \cap crew'
    BY <1>3 DEF ReplacesCrew, RowsOf
  <2>4. crew' \subseteq Rows /\ work' \subseteq crew' /\ crew' \ work' \subseteq crew \ work
    BY <2>3 DEF CrewInv, RowsOK
  <2> QED
    BY <1>2, <2>2, <2>4, RowsWritten
<1>4. CASE PrunesStale(r)
  <2>1. [open[r] EXCEPT !.op = "book"] \in Crewings
    BY <1>1 DEF Crewings
  <2>2. OpensOK'
    BY <1>4, <2>1, FollowupHolds, GoesOK DEF PrunesStale, Followups, CrewInv
  <2>3. CASE UNCHANGED assignments
    <3>1. crew' = crew /\ work' = work
      BY <2>3 DEF assignments
    <3>2. crew' \subseteq Rows /\ work' \subseteq crew' /\ crew' \ work' \subseteq crew \ work
      BY <3>1 DEF CrewInv, RowsOK
    <3> QED
      BY <1>2, <2>2, <3>2, RowsWritten
  <2>4. CASE KeepInside(start, finish)
    <3>1. /\ crew' \subseteq Rows /\ work' \subseteq crew'
          /\ start # 0 => \A w \in crew' \ work' : w[2] \in Span(start, finish)
      BY <2>4, KeepInsideStep DEF CrewInv, DatesOK
    <3> QED
      BY <1>2, <2>2, <3>1, RowsWritten
  <2> QED
    BY <1>4, <2>3, <2>4 DEF PrunesStale
<1>5. CASE BooksDays(r)
  <2>1. PICK e \in open[r].crew :
          /\ crew' = crew \union ({e} \X SeriesDays)
          /\ Goes(r, [open[r] EXCEPT !.crew = @ \ {e}])
    BY <1>5 DEF BooksDays
  <2>2. [open[r] EXCEPT !.crew = @ \ {e}] \in Crewings /\ e \in Employees
    BY <1>1 DEF Crewings
  <2>3. OpensOK'
    BY <2>1, <2>2, FollowupHolds, GoesOK DEF Followups, CrewInv
  <2>4. /\ SeriesDays \subseteq Days
        /\ start # 0 => SeriesDays = Span(start, finish)
    BY SeriesOfDays DEF CrewInv
  <2>5. work' = work
    BY <1>5 DEF BooksDays
  <2>6. crew' \subseteq Rows /\ work' \subseteq crew'
    BY <2>1, <2>2, <2>4, <2>5 DEF CrewInv, RowsOK, Rows
  <2>7. \A w \in crew' \ work' :
          start # 0 => w \in crew \ work \/ w[2] \in Span(start, finish)
    BY <2>1, <2>4, <2>5
  <2> QED
    BY <1>2, <2>3, <2>6, <2>7, RowsWritten
<1> QED
  BY <1>3, <1>4, <1>5

\* The writes that end a request.
LEMMA WritesStep ==
  ASSUME CrewInv, NEW r \in Requests,
         \/ set_employee_schedule(r) \/ PutsList(r) \/ WritesCrew(r)
         \/ cleanup_hours_adjustments(r)
  PROVE  CrewInv'
<1>1. UNCHANGED dates /\ stray \subseteq stray'
  BY DEF set_employee_schedule, PutsList, WritesCrew, cleanup_hours_adjustments
<1>2. OpensOK'
  <2>1. HoldsOK(Closed)
    BY FollowupHolds DEF Followups
  <2> QED
    BY <2>1, GoesOK
    DEF set_employee_schedule, PutsList, WritesCrew, cleanup_hours_adjustments, CrewInv
<1>3. HoldsOK(open[r]) /\ crew \subseteq Rows /\ work \subseteq crew
  BY DEF CrewInv, OpensOK, RowsOK
<1>4. CASE set_employee_schedule(r)
  <2>1. crew' = crew /\ work \subseteq work' /\ work' \subseteq crew
    BY <1>3, <1>4 DEF set_employee_schedule
  <2> QED
    BY <1>1, <1>2, <1>3, <2>1, RowsWritten
<1>5. CASE PutsList(r)
  <2> DEFINE q == open[r]
  <2>1. /\ q.list \subseteq Rows /\ q.hours \subseteq q.list
        /\ q.span = {} \/ \A w \in q.list : w[2] \in q.span
    BY <1>3, <1>5 DEF PutsList, HoldsOK
  <2>2. crew' = q.list /\ work' \subseteq q.list
    BY <1>5, <2>1 DEF PutsList
  <2>3. start # 0 => Span(start, finish) # {}
    <3>1. start # 0 => start \in Span(start, finish)
      BY SpanDays DEF CrewInv, DatesOK
    <3> QED
      BY <3>1
  <2>4. \A w \in crew' : start # 0 => w[2] \in Span(start, finish) \/ w \in stray'
    <3>1. CASE q.span = Span(start, finish)
      BY <2>1, <2>2, <2>3, <3>1
    <3>2. CASE q.span # Span(start, finish)
      BY <1>5, <2>2, <3>2 DEF PutsList, Outside
    <3> QED
      BY <3>1, <3>2
  <2> QED
    BY <1>1, <1>2, <2>1, <2>2, <2>4, RowsWritten
<1>6. CASE WritesCrew(r)
  <2> DEFINE q == open[r]
             booked == q.crew \X q.days
  <2>1. q.crew \subseteq Employees /\ q.days \subseteq Days
    BY <1>3, <1>6 DEF WritesCrew, HoldsOK
  <2>2. booked \subseteq Rows
    BY <2>1 DEF Rows
  <2>3. /\ crew' = (RowsOf(q.crew) \cap work) \union booked
        /\ stray' = IF ~q.told /\ q.days = Span(start, finish) THEN stray
                    ELSE stray \union Outside(booked)
        /\ work' = work \cap crew'
    BY <1>6 DEF WritesCrew
  <2>4. crew' \subseteq Rows /\ work' \subseteq crew'
    BY <1>3, <2>2, <2>3
  <2>5. \A w \in booked : w[2] \in Span(start, finish) \/ w \in stray'
    <3>1. CASE ~q.told /\ q.days = Span(start, finish)
      BY <3>1
    <3>2. CASE ~(~q.told /\ q.days = Span(start, finish))
      BY <2>3, <3>2 DEF Outside
    <3> QED
      BY <3>1, <3>2
  <2>6. crew' \ work' \subseteq booked
    BY <2>3
  <2> QED
    BY <1>1, <1>2, <2>4, <2>5, <2>6, RowsWritten
<1>7. CASE cleanup_hours_adjustments(r)
  <2>1. open[r].off \cap open[r].paid = {}
    BY <1>3, <1>7 DEF cleanup_hours_adjustments, HoldsOK
  <2>2. /\ crew' = crew \ open[r].off
        /\ work' = (work \ open[r].off) \union (open[r].paid \cap crew)
    BY <1>7 DEF cleanup_hours_adjustments
  <2>3. crew' \subseteq Rows /\ work' \subseteq crew' /\ crew' \ work' \subseteq crew \ work
    BY <1>3, <2>1, <2>2
  <2> QED
    BY <1>1, <1>2, <2>3, RowsWritten
<1> QED
  BY <1>4, <1>5, <1>6, <1>7

\* One employee put on the job or taken off it, and hours.
LEMMA AtOnceStep ==
  ASSUME CrewInv, NEW e \in Employees, AtOnce(e)
  PROVE  CrewInv'
<1>1. UNCHANGED dates /\ stray \subseteq stray' /\ UNCHANGED open
  BY DEF AtOnce, insert_employee_assignment, insert_item_employee,
         delete_employee_assignment, delete_item_employee, update_employee_assignment,
         update_item_employee, update_clock_times, update_item_clock_times,
         upsert_hours_adjustments
<1>2. OpensOK'
  BY <1>1 DEF CrewInv, OpensOK, HoldsOK
<1>3. crew \subseteq Rows /\ work \subseteq crew
  BY DEF CrewInv, RowsOK
<1>4. CASE insert_employee_assignment(e) \/ insert_item_employee(e)
  <2>1. crew' = crew \union ({e} \X SeriesDays) /\ work' = work
    BY <1>4 DEF insert_employee_assignment, insert_item_employee
  <2>2. /\ SeriesDays \subseteq Days
        /\ start # 0 => SeriesDays = Span(start, finish)
    BY SeriesOfDays DEF CrewInv
  <2>3. crew' \subseteq Rows /\ work' \subseteq crew'
    BY <1>3, <2>1, <2>2 DEF Rows
  <2>4. \A w \in crew' \ work' :
          start # 0 => w \in crew \ work \/ w[2] \in Span(start, finish)
    BY <2>1, <2>2
  <2> QED
    BY <1>1, <1>2, <2>3, <2>4, RowsWritten
<1>5. CASE delete_employee_assignment(e) \/ delete_item_employee(e)
  <2>1. crew' \subseteq crew /\ work' = work \cap crew'
    BY <1>5 DEF delete_employee_assignment, delete_item_employee, Removed
  <2>2. crew' \subseteq Rows /\ work' \subseteq crew' /\ crew' \ work' \subseteq crew \ work
    BY <1>3, <2>1
  <2> QED
    BY <1>1, <1>2, <2>2, RowsWritten
<1>6. CASE update_employee_assignment(e) \/ update_item_employee(e)
  <2>1. PICK d \in DaysOf(e) : work' = work \union {<<e, d>>}
    BY <1>6 DEF update_employee_assignment, update_item_employee
  <2>2. crew' = crew
    BY <1>6 DEF update_employee_assignment, update_item_employee
  <2>3. <<e, d>> \in crew
    BY <2>1 DEF DaysOf
  <2>4. crew' \subseteq Rows /\ work' \subseteq crew' /\ crew' \ work' \subseteq crew \ work
    BY <1>3, <2>1, <2>2, <2>3
  <2> QED
    BY <1>1, <1>2, <2>4, RowsWritten
<1>7. CASE update_clock_times(e) \/ update_item_clock_times(e) \/ upsert_hours_adjustments(e)
  <2>1. crew' = crew /\ work' = work
    BY <1>7 DEF update_clock_times, update_item_clock_times, upsert_hours_adjustments,
                assignments
  <2> QED
    BY <1>1, <1>2, <1>3, <2>1, RowsWritten
<1> QED
  BY <1>4, <1>5, <1>6, <1>7 DEF AtOnce

\* The crew invariant survives every step.
LEMMA CrewStep == CrewInv /\ [CrewNext]_crewVars => CrewInv'
<1> SUFFICES ASSUME CrewInv, [CrewNext]_crewVars PROVE CrewInv'
  OBVIOUS
<1>1. CASE UNCHANGED crewVars
  <2>1. UNCHANGED <<start, finish, crew, work, stray, open>>
    BY <1>1 DEF crewVars, dates, assignments
  <2>2. OpensOK'
    BY <2>1 DEF CrewInv, OpensOK, HoldsOK
  <2> QED
    BY <2>1, <2>2, OnlyOpens
<1>2. ASSUME NEW r \in Requests, Answers(r) \/ Fails(r) PROVE CrewInv'
  <2>1. UNCHANGED <<start, finish, crew, work, stray>> /\ Goes(r, Closed)
    BY <1>2 DEF Answers, Fails, dates, assignments
  <2>2. OpensOK'
    BY <2>1, FollowupHolds, GoesOK DEF Followups, CrewInv
  <2> QED
    BY <2>1, <2>2, OnlyOpens
<1>3. ASSUME NEW r \in Requests, Handle(r) PROVE CrewInv'
  BY <1>2, <1>3, AsksToMove, AsksToWrite, MovesStep, StaffsDayStep, CrewingStep, WritesStep
  DEF Handle
<1> QED
  BY <1>1, <1>3, AtOnceStep DEF CrewNext

LEMMA CrewInvariance == CrewSpec => []CrewInv
<1> QED
  BY CrewInitInv, CrewStep, PTL DEF CrewSpec

\* Whatever was moved, resized, added and written in between, a row without recorded
\* hours lies on a day of the job, or a request wrote it from days it had read
\* before, or for a day it was told.
THEOREM CrewOnItsDays == CrewSpec => []CrewInSpan
<1>1. CrewInv => CrewInSpan
  BY DEF CrewInv
<1> QED
  BY <1>1, CrewInvariance, PTL

\* What becomes of a row with recorded hours in one step.
HoursStay(w) ==
  \/ w \in work'
  \/ \E r \in Requests : TakesAway(r, w)
  \/ open' = open /\ \A v \in crew' : v[1] # w[1]

\* A handler takes recorded hours away only from whom it was told to.
LEMMA HandlersSpareHours ==
  ASSUME CrewInv, NEW r \in Requests, Handle(r), NEW w \in work
  PROVE  HoursStay(w)
<1>1. DOMAIN open = Requests /\ w \in crew
  BY DEF CrewInv, OpensOK, RowsOK
<1>2. ASSUME NEW q, Goes(r, q) PROVE open'[r] = q
  BY <1>1, <1>2 DEF Goes
<1>3. CASE ReplacesCrew(r)
  <2>1. open'[r] = [open[r] EXCEPT !.op = "prune"] /\ open[r].op = "replace"
    BY <1>2, <1>3 DEF ReplacesCrew
  <2>2. open[r] \in Crewings
    BY <2>1 DEF CrewInv, OpensOK, HoldsOK
  <2>3. open'[r].op = "prune"
    BY <2>1, <2>2 DEF Crewings
  <2>4. open'[r] # open[r]
    BY <2>1, <2>3
  <2>5. w \in work' \/ w[1] \notin open[r].crew
    BY <1>1, <1>3 DEF ReplacesCrew, RowsOf
  <2> QED
    BY <2>1, <2>4, <2>5 DEF HoursStay, TakesAway
<1>4. CASE PutsList(r) \/ WritesCrew(r) \/ cleanup_hours_adjustments(r)
  <2>1. open'[r] = Closed /\ open[r].op # "none"
    BY <1>2, <1>4 DEF PutsList, WritesCrew, cleanup_hours_adjustments
  <2>2. open'[r] # open[r]
    BY <2>1 DEF Closed
  <2>3. CASE PutsList(r)
    BY <2>2, <2>3 DEF PutsList, HoursStay, TakesAway
  <2>4. CASE WritesCrew(r)
    BY <1>1, <2>2, <2>4 DEF WritesCrew, RowsOf, HoursStay, TakesAway
  <2>5. CASE cleanup_hours_adjustments(r)
    BY <2>2, <2>5 DEF cleanup_hours_adjustments, HoursStay, TakesAway
  <2> QED
    BY <1>4, <2>3, <2>4, <2>5
<1>5. CASE Moves(r) \/ PrunesStale(r)
  BY <1>5 DEF Moves, update_fields, PrunesStale, MoveCrew, KeepInside, assignments, HoursStay
<1>6. CASE set_employee_schedule(r)
  BY <1>6 DEF set_employee_schedule, HoursStay
<1>7. CASE \/ update_inquiry(r) \/ update_item(r) \/ schedule_inquiry(r) \/ reassign_termin(r)
           \/ put_inquiry_employees(r) \/ put_item_employees(r) \/ set_inquiry_crew(r)
           \/ StaffsDay(r) \/ BooksDays(r) \/ Answers(r) \/ Fails(r)
  <2>1. work' = work
    BY <1>7 DEF update_inquiry, update_item, schedule_inquiry, reassign_termin,
       put_inquiry_employees, put_item_employees, set_inquiry_crew, StaffsDay, BooksDays,
       Answers, Fails, assignments
  <2> QED
    BY <2>1 DEF HoursStay
<1>8. CASE \E e \in Employees : assigned_days(r, e) \/ fetch_hours_adjustments(r, e)
  <2>1. work' = work
    BY <1>8 DEF assigned_days, fetch_hours_adjustments, assignments
  <2> QED
    BY <2>1 DEF HoursStay
<1> QED
  BY <1>3, <1>4, <1>5, <1>6, <1>7, <1>8 DEF Handle

LEMMA OfficeSparesHours ==
  ASSUME CrewInv, NEW e \in Employees, AtOnce(e), NEW w \in work
  PROVE  HoursStay(w)
<1>1. CASE delete_employee_assignment(e) \/ delete_item_employee(e)
  <2>1. open' = open /\ crew' = {v \in crew : v[1] # e} /\ work' = work \cap crew'
    BY <1>1 DEF delete_employee_assignment, delete_item_employee, Removed
  <2>2. w \in crew
    BY DEF CrewInv, RowsOK
  <2> QED
    BY <2>1, <2>2 DEF HoursStay
<1>2. CASE ~(delete_employee_assignment(e) \/ delete_item_employee(e))
  <2>1. w \in work'
    BY <1>2 DEF AtOnce, insert_employee_assignment, insert_item_employee,
       update_employee_assignment, update_item_employee, update_clock_times,
       update_item_clock_times, upsert_hours_adjustments, assignments
  <2> QED
    BY <2>1 DEF HoursStay
<1> QED
  BY <1>1, <1>2

\* Recorded hours survive every move, resize, list and crew, except those of a row or
\* an employee the office takes away.
THEOREM RecordedHoursStay == CrewSpec => RecordedStays
<1>1. ASSUME CrewInv, [CrewNext]_crewVars
      PROVE  [\A w \in work :
                \/ w \in work'
                \/ \E r \in Requests : TakesAway(r, w)
                \/ open' = open /\ \A v \in crew' : v[1] # w[1]]_crewVars
  <2>1. CASE UNCHANGED crewVars
    BY <2>1
  <2>2. CASE CrewNext
    <3>1. \A w \in work : HoursStay(w)
      BY <1>1, <2>2, HandlersSpareHours, OfficeSparesHours DEF CrewNext
    <3> QED
      BY <3>1 DEF HoursStay
  <2> QED
    BY <1>1, <2>1, <2>2
<1> QED
  BY <1>1, CrewInvariance, PTL DEF CrewSpec, RecordedStays

\* Only a move changes the first day, and only its own request with it.
LEMMA OnlyMovesMove ==
  ASSUME CrewInv, CrewNext, start' # start, NEW r \in Requests, open'[r] # open[r]
  PROVE  Moves(r)
<1>1. ASSUME NEW e \in Employees, AtOnce(e) PROVE start' = start
  BY <1>1 DEF AtOnce, insert_employee_assignment, insert_item_employee,
     delete_employee_assignment, delete_item_employee, update_employee_assignment,
     update_item_employee, update_clock_times, update_item_clock_times,
     upsert_hours_adjustments, dates
<1>2. PICK t \in Requests : Handle(t)
  BY <1>1 DEF CrewNext
<1>3. Moves(t)
  BY <1>2 DEF Handle, update_inquiry, update_item, schedule_inquiry, StaffsDay,
     reassign_termin, ReplacesCrew, PrunesStale, BooksDays, Answers, assigned_days,
     set_employee_schedule, put_inquiry_employees, put_item_employees, PutsList,
     set_inquiry_crew, WritesCrew, fetch_hours_adjustments, cleanup_hours_adjustments,
     Fails, dates
<1>4. t = r
  <2>1. t # r => open'[r] = open[r]
    BY <1>3 DEF Moves, Goes, CrewInv, OpensOK
  <2> QED
    BY <2>1
<1> QED
  BY <1>3, <1>4

\* Rows that move by n days with the job land on its days.
LEMMA RowsLand ==
  ASSUME CrewInv, NEW n \in Int, NEW s \in 1..MaxDay, NEW f \in 0..MaxDay, start # 0,
         s = start + n, Last(s, f) - s = Last(start, finish) - start,
         MoveCrew(n, Span(s, f)),
         NEW w \in crew \ work, w[2] \in Span(start, finish)
  PROVE  /\ <<w[1], w[2] + n>> \in crew'
         /\ w \in punch => <<w[1], w[2] + n>> \in punch' \/ <<w[1], w[2] + n>> \in work
<1> DEFINE to == <<w[1], w[2] + n>>
           landed == {v \in Shifted(crew, n) : v[2] \in Span(s, f)}
<1>1. w[2] \in Int /\ start <= w[2] /\ w[2] <= Last(start, finish)
  BY SpanDays DEF CrewInv, RowsOK, Rows, Days, DatesOK
<1>2. to[2] \in Span(s, f)
  <2>1. start \in Int /\ Last(start, finish) \in Int /\ Last(s, f) \in Int
    BY SpanDays, CrewAssumption DEF CrewInv, DatesOK
  <2>2. s <= w[2] + n /\ w[2] + n <= Last(s, f)
    BY <1>1, <2>1
  <2> QED
    BY <1>1, <2>1, <2>2 DEF Span
<1>3. to \in landed
  BY <1>2 DEF Shifted
<1>4. /\ crew' = work \union landed
      /\ punch' = (punch \cap work) \union ((Shifted(punch, n) \cap landed) \ work)
  BY DEF MoveCrew
<1>5. w \in punch => to \in Shifted(punch, n)
  BY DEF Shifted
<1> QED
  BY <1>3, <1>4, <1>5

\* The move of a request that read the start as it is takes the rows along.
LEMMA MoveTravels ==
  ASSUME CrewInv, NEW r \in Requests, Moves(r), start # 0, start' # start,
         open[r].old = start,
         Last(start', finish') - start' = Last(start, finish) - start,
         NEW w \in crew \ work, w[2] \in Span(start, finish)
  PROVE  LET to == <<w[1], w[2] + (start' - start)>>
         IN to \in crew' /\ (w \in punch => to \in punch' \/ to \in work)
<1> DEFINE q == open[r]
           s == NewStart(q)
           f == NewFinish(q)
<1>1. HoldsOK(q) /\ q.op = "move"
  BY DEF Moves, CrewInv, OpensOK
<1>2. /\ f <= MaxDay /\ (s # 0 /\ f # 0 => s <= f)
      /\ start' = s /\ finish' = f
      /\ IF q.new # 0 /\ q.old # 0 /\ q.new # q.old
         THEN MoveCrew(q.new - q.old, Span(s, f))
         ELSE KeepInside(s, f)
  BY DEF Moves, update_fields
<1>3. s \in 0..MaxDay /\ f \in 0..MaxDay
  BY <1>1, <1>2, NewDates
<1>4. s = q.new /\ q.new # 0
  BY <1>2 DEF NewStart
<1> HIDE DEF f
<1>5. MoveCrew(s - start, Span(s, f))
  BY <1>2, <1>4
<1>6. s \in 1..MaxDay /\ start \in Int /\ s - start \in Int /\ s = start + (s - start)
  BY <1>3, <1>4, CrewAssumption DEF CrewInv, DatesOK
<1>7. Last(s, f) - s = Last(start, finish) - start
  BY <1>2
<1> HIDE DEF s
<1>8. LET to == <<w[1], w[2] + (s - start)>>
      IN to \in crew' /\ (w \in punch => to \in punch' \/ to \in work)
  BY <1>3, <1>5, <1>6, <1>7, RowsLand
<1> QED
  BY <1>2, <1>8

\* A move of the whole job, by a request that read its start as it is, takes along
\* every row of its days without recorded hours, and what the worker reported in it.
THEOREM CrewGoesAlong == CrewSpec => CrewTravels
<1>1. ASSUME CrewInv, [CrewNext]_crewVars
      PROVE  [\A r \in Requests :
                (/\ open[r].op = "move" /\ start # 0 /\ start' # start
                 /\ open[r].old = start /\ open'[r] # open[r]
                 /\ Last(start', finish') - start' = Last(start, finish) - start)
                => \A w \in crew \ work :
                     w[2] \in Span(start, finish) =>
                       LET to == <<w[1], w[2] + (start' - start)>>
                       IN to \in crew' /\ (w \in punch => to \in punch' \/ to \in work)]_crewVars
  <2>1. CASE UNCHANGED crewVars
    BY <2>1
  <2>2. CASE CrewNext
    BY <2>2, <1>1, OnlyMovesMove, MoveTravels
  <2> QED
    BY <1>1, <2>1, <2>2
<1> QED
  BY <1>1, CrewInvariance, PTL DEF CrewSpec, CrewTravels
=============================================================================
