----------------------------- MODULE JobAnswers -----------------------------
(***************************************************************************)
(* What a client is told of its jobs while the service works on them:      *)
(* GET /v1/jobs/{job_id} and the answers of create_job and cancel_job read *)
(* one row, GET /v1/jobs reads those of a status up to a limit, and each   *)
(* asks the store for the places in the queue afterwards.                  *)
(*                                                                         *)
(* Abstractions.  Any rows may be asked for, whatever the filter and the   *)
(* limit.  A place of 0 is null.  One client is enough: an answer depends  *)
(* on no other, and changes nothing.                                       *)
(***************************************************************************)
EXTENDS JobService

VARIABLES
  next,   \* the read the request makes next: "rows", "places"
  rows,   \* the status of each job it has read
  places  \* the place of each in its last answer

answerVars == <<next, rows, places>>

Place(j) == IF j \in Waiting THEN QueuePosition(j) ELSE 0

\* db.get of one job, or db.list_jobs.
ReadRows ==
  /\ svc = "up" /\ next = "rows"
  /\ \E S \in SUBSET {j \in Ids : Present(j)} : rows' = [j \in S |-> status[j]]
  /\ next' = "places" /\ places' = <<>>
  /\ UNCHANGED vars

\* db.queue_position, or db.waiting_jobs numbered from 1; and the answer.
ReadPlaces ==
  /\ svc = "up" /\ next = "places"
  /\ places' = [j \in DOMAIN rows |-> Place(j)]
  /\ next' = "rows"
  /\ UNCHANGED <<vars, rows>>

AnswerInit == Init /\ next = "rows" /\ rows = <<>> /\ places = <<>>

\* A step of the service.  A shutdown waits for the request, a death of the
\* process ends it.
ServiceStep ==
  /\ Next
  /\ svc = "up" /\ svc' = "stopping" => next = "rows"
  /\ next' = IF svc' = "down" THEN "rows" ELSE next
  /\ UNCHANGED <<rows, places>>

AnswerNext == ServiceStep \/ ReadRows \/ ReadPlaces

AnswerSpec == AnswerInit /\ [][AnswerNext]_<<vars, answerVars>>

\* api.md:247, of queue_position: "1-based; null unless queued or paused".  Not
\* so: a job may change between the two reads, and an answer says of a job that
\* it runs and what its place in the queue is.
PlacedIsWaiting ==
  \A j \in DOMAIN places : places[j] # 0 => rows[j] \in Runnable

=============================================================================
