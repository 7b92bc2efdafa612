------------------------------ MODULE QueueView -----------------------------
(***************************************************************************)
(* The queue as the API shows it, over the store as the service drives it: *)
(* waiting_jobs in the order of one SELECT, queue_position as a COUNT of   *)
(* its own, claim_next and the preemption predicate as two more queries.   *)
(* The four have to agree, and nothing in the code makes them.             *)
(*                                                                         *)
(* The steps on the store are all those the service takes, and more: a     *)
(* claim apart, a write comes upon any status, for the handlers and the    *)
(* worker write on the strength of a status read before.  JobService       *)
(* implements them (JobProperties: QueueSpec).  Beside them there is       *)
(* GET /v1/queue, which reads the store three times and may see three      *)
(* states of it.                                                           *)
(*                                                                         *)
(* A definition whose comment begins with "Variant" is a faulty form of    *)
(* the one that follows it, kept to test the properties with.              *)
(***************************************************************************)
EXTENDS JobStore, Ordering, SequencesExt

VARIABLES
  step,     \* the read get_queue makes next: "running", "yielding" or "waiting"
  shown,    \* the jobs it has shown so far, or showed in its last answer
  claimed   \* history: the jobs the worker has claimed during this answer

requestVars == <<step, shown>>
vars == <<storeVars, requestVars, claimed>>

\* waiting_jobs: the rows in the order the worker will run them.
WaitingJobs == Sorted(Waiting, {p \in Waiting \X Waiting : Before(p[1], p[2])})

Submit(j) == \E r \in Ranks, n \in Intervals, t \in 0..MaxClock : Insert(j, r, n, t)

\* The worker is serial: it claims only when it runs nothing.
Claim(j) ==
  /\ InterruptedJobs = {} /\ ClaimNext(j)
  /\ claimed' = IF step = "running" THEN claimed ELSE claimed \union {j}

\* db.update with the status of a job put back, by the worker when it yields or
\* stops or by the recovery.
Pause(j) == Present(j) /\ SetStatus(j, "paused")

\* db.update with a final status, by the worker, the recovery or cancel_job.
End(j) == Present(j) /\ \E s \in Terminal : SetStatus(j, s)

Delete(j) == Present(j) /\ DeleteRow(j)

StoreStep ==
  /\ \E j \in Ids :
       \/ Claim(j)
       \/ /\ Submit(j) \/ Pause(j) \/ End(j) \/ Delete(j)
          /\ UNCHANGED claimed
  /\ UNCHANGED requestVars

\* running_job(): at most one row.
ReadRunning ==
  /\ step = "running"
  /\ step' = IF InterruptedJobs = {} THEN "waiting" ELSE "yielding"
  /\ shown' = InterruptedJobs
  /\ UNCHANGED <<storeVars, claimed>>

\* higher_priority_waiting() for that row, an answer shown as it is.
ReadYielding ==
  /\ step = "yielding"
  /\ step' = "waiting"
  /\ UNCHANGED <<storeVars, shown, claimed>>

\* waiting_jobs(), and the answer.
ReadWaiting ==
  /\ step = "waiting"
  /\ step' = "running"
  /\ shown' = shown \union ToSet(WaitingJobs) /\ claimed' = {}
  /\ UNCHANGED storeVars

\* Variant: the waiting jobs are read before the running one.
GetQueueWaitingFirst ==
  \/ /\ step = "running" /\ step' = "waiting"
     /\ shown' = Waiting
     /\ UNCHANGED <<storeVars, claimed>>
  \/ /\ step = "waiting" /\ step' = "running"
     /\ shown' = shown \union InterruptedJobs /\ claimed' = {}
     /\ UNCHANGED storeVars

GetQueue == ReadRunning \/ ReadYielding \/ ReadWaiting

QueueInit == StoreInit /\ step = "running" /\ shown = {} /\ claimed = {}

QueueSpec == QueueInit /\ [][StoreStep \/ GetQueue]_vars

-----------------------------------------------------------------------------
(* Properties *)

\* The position queue_position counts for a job is its index in the list
\* waiting_jobs returns (GET /v1/jobs/{id} uses the first, GET /v1/jobs and
\* GET /v1/queue the second), and the job the list shows first is the one and
\* only job claim_next would take.
ViewsAgree ==
  LET listed == WaitingJobs
  IN  /\ \A i \in DOMAIN listed : QueuePosition(listed[i]) = i
      /\ \A j \in Ids : IsHead(j) <=> Waiting # {} /\ j = listed[1]

\* Yielding pays: whenever the predicate the training loop consults holds of
\* the running job, putting that job back on the queue leaves a strictly more
\* urgent job at its head, so two jobs of one priority never trade the GPU.
YieldHandsOver ==
  \A j \in InterruptedJobs : HigherWaiting(rank[j]) =>
    \A k \in Waiting \union {j} :
      (\A l \in (Waiting \union {j}) \ {k} : Before(k, l)) => rank[k] > rank[j]

Unfinished == Waiting \union InterruptedJobs

\* A job that is ahead of another stays ahead of it until one of them ends,
\* whatever is submitted, claimed, preempted, cancelled or deleted meanwhile:
\* a preempted job goes back to its own place, not to the end of its priority.
NoOvertaking ==
  [][\A j, k \in Unfinished \intersect Unfinished' :
       Before(j, k) => Before(j, k)']_storeVars

\* An answer of GET /v1/queue, whatever happens between its reads, leaves out
\* no job that is unfinished when it is given, but one that the worker claimed
\* meanwhile and still runs.
NoneLost ==
  [][step = "waiting" /\ step' = "running" =>
       \A j \in Unfinished :
         j \in shown' \/ (j \in claimed /\ status[j] = "running")]_vars

=============================================================================
