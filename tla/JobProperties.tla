---------------------------- MODULE JobProperties ---------------------------
(***************************************************************************)
(* What JobService is to satisfy.                                          *)
(*                                                                         *)
(* Four histories name the jobs of which some properties say nothing, and  *)
(* how a job gets there is part of what is checked:                        *)
(*   raced     cancel_job or delete_job changed a job that the worker had  *)
(*             taken or ended since the handler read its status;           *)
(*   torn      the process died inside a create or a delete, or a create   *)
(*             failed after its try: the row and the directory are apart;  *)
(*   littered  the process died between a final status and its purge, or   *)
(*             the recovery failed a job and left its temporary file;      *)
(*   stale     an attempt that began again from scratch has saved fewer    *)
(*             epochs than the column says, and not come to record them.   *)
(* The second part states what the documentation and the comments say of   *)
(* every job, without these exceptions; each is refuted by a run.          *)
(***************************************************************************)
EXTENDS JobService

Sound == Ids \ (raced \union torn)

-----------------------------------------------------------------------------
(* Properties that hold *)

\* One job at a time (worker.py: "the worker is deliberately serial"; db.py,
\* running_job: "At most one"), whatever the handlers do meanwhile.
AtMostOneRunning ==
  \A j, k \in InterruptedJobs : j = k

\* A row that says running is the job in the worker's hands: no handler, no
\* crash and no recovery leaves a job running that nobody runs, except with a
\* worker thread that has died on it.
RunningIsOwned ==
  \A j \in InterruptedJobs : Working => cur = j /\ pc \in Owing \union {"dead", "mute"}

\* Conversely the worker never trains a job whose row says something else,
\* unless a handler acted on a stale status.
OwnedIsRunning ==
  Working /\ pc \in Owing /\ cur \notin raced => status[cur] = "running"

\* The worker thread survives every job but one whose directory was deleted
\* under it: no other exception leaves _run_job, but one over a log that cannot
\* be opened or written ("mute").
DiesOnlyOnLostJob ==
  pc = "dead" => cur \in raced \union torn

\* A row always has the uploads it was created with: create_job inserts it
\* last and delete_job's row goes next when the directory is gone.
RowHasInputs ==
  \A j \in Ids \ torn : Present(j) /\ "inputs" \notin disk[j] => Pending("delete_row", j)

\* A job reported succeeded has its tarball (download_artifact's 410 is only
\* for files removed by hand), whatever raced with it.
SucceededHasArtifact ==
  \A j \in Ids \ torn :
    status[j] = "succeeded" /\ "artifact" \notin disk[j] => Pending("delete_row", j)

\* A job in a final status keeps no checkpoint and no partial one once the
\* purge that follows the status has run (operations.md: Disk usage), whatever
\* crashes it has been through, unless it is littered.
FinalHasNoCheckpoint ==
  \A j \in Sound \ littered :
    /\ status[j] \in Terminal
    /\ ~Pending("cancel_purge", j)
    /\ ~(cur = j /\ pc \in Purging \union {"recover_purge"})
    => ckpt[j] = 0 /\ "tmp" \notin disk[j]

\* A directory without a row belongs to a create_job that is still running.
NoOrphanDirectory ==
  \A j \in Sound :
    disk[j] # {} /\ ~Present(j) => Pending("create", j) \/ Pending("commit", j)

\* epochs_completed never promises a waiting job more than its checkpoint
\* holds (schemas.py: "Epochs finished and checkpointed"), wherever between save,
\* rename and record a crash has struck, unless it is stale.
EpochsAreCheckpointed ==
  \A j \in (Waiting \intersect Sound) \ stale :
    epochs[j] <= ckpt[j] \/ Pending("delete_row", j)

\* A job that yields has lost nothing (training.py: "Yielding forces a write
\* even off-interval, so no work is lost").
YieldLosesNothing ==
  Working /\ pc = "pause" /\ yielding /\ cur \in Sound =>
    ckpt[cur] = epoch /\ epochs[cur] = epoch

\* A checkpointing job is never a full interval ahead of its checkpoint when it
\* begins an epoch, nor when it is interrupted: that is all a stop can cost.
LossIsBounded ==
  Working /\ pc \in {"batch", "pause"} /\ cur \in Sound /\ every[cur] > 0 =>
    epoch - ckpt[cur] < every[cur]

\* Once a cancel request has been accepted for a job that is then preempted or
\* interrupted, the job may run again but never succeeds.
CancelSticks ==
  [](\A j \in Ids : status[j] = "paused" /\ cancel[j] => [](status[j] # "succeeded"))

\* The lifecycle of docs/architecture.md, for every job that did not race:
\* its statuses follow one another as drawn there, one job runs at a time, and
\* a final status gives way only to the deletion of the job, or, where the line
\* after success cannot be logged, to "failed", before the next job is claimed.
Phase == [j \in Ids |-> IF j \in raced /\ Present(j) THEN "lost" ELSE status[j]]

Lifecycle == INSTANCE JobLifecycle WITH Jobs <- Ids, phase <- Phase

LifecycleSpec == Lifecycle!Spec

\* The queue that GET /v1/queue reads is the one the service drives: every step
\* of the handlers, the worker and the recovery is one QueueView lets happen, a
\* claim takes the head of the queue, and only when no row says running.  What
\* is checked there of the order and of the answers holds here.
Queue == INSTANCE QueueView WITH
  cancel <- [j \in Ids |-> FALSE], epochs <- [j \in Ids |-> 0],
  step <- "running", shown <- {}, claimed <- {}

QueueSpec == Queue!QueueSpec

\* If jobs cease to arrive, and the worker thread is not dead for good, every job
\* ends: preempted, interrupted and crashed jobs are taken up again, and none is
\* lost sight of.  While more urgent jobs keep arriving a job may wait for ever
\* (operations.md:157, "Expected while higher-priority work is waiting"), and so
\* may all behind a dead thread (operations.md:169, "Jobs stuck in queued").
EveryJobEnds ==
  /\ <>[][\A j \in Ids : ~Present(j) => ~Present(j)']_status
  /\ <>[](pc \notin {"dead", "mute"})
  => \A j \in Ids : <>[](status[j] \in Terminal \union {"absent"})

\* A shutdown completes and the service comes back, whatever the worker was at.
ComesBack ==
  svc # "up" ~> svc = "up"

-----------------------------------------------------------------------------
(* What the documentation says of every job; each refuted by the code. *)

\* architecture.md:61: "`succeeded`, `failed` and `cancelled` are terminal."
TerminalIsFinal ==
  [][\A j \in Ids : status[j] \in Terminal => status'[j] \in {status[j], "absent"}]_vars

\* development.md:132: "Uncaught exceptions inside `_run_job` are trapped and
\* recorded on the job".
WorkerSurvives ==
  pc # "dead"

=============================================================================
