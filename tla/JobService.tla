----------------------------- MODULE JobService -----------------------------
(***************************************************************************)
(* The tuning service: the API handlers that change a job (create, cancel, *)
(* delete), the worker thread that runs jobs one at a time, the start-up   *)
(* recovery, the shutdown, and the crashes between any two of their steps. *)
(* They share the job store (JobStore) and the job directories on disk.    *)
(*                                                                         *)
(* Each database call is one step and each change to the disk is one step; *)
(* what a thread does between two of them is private to it.  A handler     *)
(* runs on a thread of the server's pool: op[c] is the step it will take   *)
(* next.  pc is the step the worker (or, at start-up, the recovery) will   *)
(* take next on job cur.                                                   *)
(*                                                                         *)
(* Abstractions.  Every job has Epochs epochs.  The batches of one epoch   *)
(* are one step: a cancel or stop that comes between two of them takes     *)
(* effect as one that comes at the last.  rmtree is one step.  An          *)
(* exception in the body of _run_job may come at any of its steps.         *)
(*                                                                         *)
(* A definition whose comment begins with "Variant" is a faulty form of    *)
(* the one that follows it, kept to test the properties with; no action    *)
(* of Next uses it.                                                        *)
(***************************************************************************)
EXTENDS JobStore

CONSTANTS
  Clients,     \* concurrent requests
  Ops,         \* the requests clients make
  Epochs,      \* epochs of every job
  Faults,      \* the failures that may happen
  MaxRestarts  \* bound: how often the process stops or crashes

ASSUME EpochsAssumption == Epochs \in Nat \ {0}
ASSUME RestartsAssumption == MaxRestarts \in Nat
ASSUME OpsAssumption == Ops \subseteq {"create", "cancel", "delete"}

VARIABLES
  disk,      \* what each job directory holds
  ckpt,      \* epochs in the job's checkpoint.pt, 0 where there is none
  svc,       \* the process: "down", "starting", "up", "stopping" (_stop is set)
  pc,        \* the worker's next step; "off" before start(), and after the thread
             \* has ended "done", "dead" (by an exception) or "mute" (by one over its log)
  cur,       \* the job the worker (or the recovery) is at
  epoch,     \* epochs the training loop has completed
  yielding,  \* the local of training.run
  op,        \* the next step of each request
  on,        \* the job of each request
  issued,    \* ids uuid4 has handed out
  restarts,  \* how often the process went down
  raced,     \* history: jobs on which a step acted upon a status no longer true
  torn,      \* history: jobs whose row and directory a step cut short has left apart
  littered,  \* history: jobs that have ended and whose purge will never come
  stale      \* history: jobs whose latest checkpoint is behind the column, for an
             \* attempt from scratch has saved it and not yet recorded it

diskVars == <<disk, ckpt>>
workerVars == <<pc, cur, epoch, yielding>>
clientVars == <<op, on, issued>>
procVars == <<svc, restarts>>
leftVars == <<torn, littered, stale>>
histVars == <<raced, leftVars>>
vars == <<storeVars, diskVars, procVars, workerVars, clientVars, histVars>>

NoJob == 0

Files == {"dir", "inputs", "tmp", "output", "artifact"}

\* Steps inside the try of _run_job.
Body == {"load", "resume", "batch", "boundary", "save_tmp", "rename", "record",
         "save_model", "tar", "succeed"}
\* Steps at which the worker still owes cur a status.
Owing == Body \union {"log", "pause", "cancelled", "failed"}
Purging == {"purge_ok", "purge"}
WorkerSteps ==
  {"off", "top", "claim", "undo", "done", "dead", "mute", "recover_purge"}
    \union Owing \union Purging

HandlerSteps == {"create", "commit", "cancel_now", "cancel_purge", "cancel_flag",
                 "delete_dir", "delete_row"}

TypeOK ==
  /\ StoreTypeOK
  /\ disk \in [Ids -> SUBSET Files]
  /\ ckpt \in [Ids -> 0..Epochs]
  /\ svc \in {"down", "starting", "up", "stopping"}
  /\ pc \in WorkerSteps
  /\ cur \in Ids \union {NoJob}
  /\ epoch \in 0..Epochs
  /\ yielding \in BOOLEAN
  /\ op \in [Clients -> HandlerSteps \union {"idle"}]
  /\ on \in [Clients -> Ids \union {NoJob}]
  /\ issued \subseteq Ids
  /\ restarts \in 0..MaxRestarts
  /\ raced \subseteq Ids
  /\ torn \subseteq Ids
  /\ littered \subseteq Ids
  /\ stale \subseteq Ids

Init ==
  /\ StoreInit
  /\ disk = [j \in Ids |-> {}]
  /\ ckpt = [j \in Ids |-> 0]
  /\ svc = "down"
  /\ pc = "off"
  /\ cur = NoJob
  /\ epoch = 0
  /\ yielding = FALSE
  /\ op = [c \in Clients |-> "idle"]
  /\ on = [c \in Clients |-> NoJob]
  /\ issued = {}
  /\ restarts = 0
  /\ raced = {}
  /\ torn = {}
  /\ littered = {}
  /\ stale = {}

\* Is some request about to take step o on job j?
Pending(o, j) == \E c \in Clients : op[c] = o /\ on[c] = j

-----------------------------------------------------------------------------
(* Helpers *)

Begin(c, o, j) ==
  /\ svc = "up"
  /\ op[c] = "idle"
  /\ op' = [op EXCEPT ![c] = o]
  /\ on' = [on EXCEPT ![c] = j]

Continue(c, from, to) ==
  /\ op[c] = from
  /\ op' = [op EXCEPT ![c] = to]
  /\ UNCHANGED <<on, issued>>

Return(c, from) ==
  /\ op[c] = from
  /\ op' = [op EXCEPT ![c] = "idle"]
  /\ on' = [on EXCEPT ![c] = NoJob]
  /\ UNCHANGED issued

\* shutil.rmtree(job_dir(j), ignore_errors=True)
PurgeJob(j) ==
  /\ disk' = [disk EXCEPT ![j] = {}]
  /\ ckpt' = [ckpt EXCEPT ![j] = 0]

\* shutil.rmtree(checkpoint_dir(j), ignore_errors=True)
PurgeCheckpoint(j) ==
  /\ disk' = [disk EXCEPT ![j] = @ \ {"tmp"}]
  /\ ckpt' = [ckpt EXCEPT ![j] = 0]

-----------------------------------------------------------------------------
(* POST /v1/jobs *)

\* A fresh id and its directory.
CreateBegin(c, j) ==
  /\ "create" \in Ops
  /\ Begin(c, "create", j)
  /\ j \notin issued
  /\ issued' = issued \union {j}
  /\ disk' = [disk EXCEPT ![j] = {"dir"}]
  /\ UNCHANGED <<storeVars, ckpt, procVars, workerVars, histVars>>

\* The uploads are saved and valid ...
CreateSave(c) ==
  /\ Continue(c, "create", "commit")
  /\ disk' = [disk EXCEPT ![on[c]] = @ \union {"inputs"}]
  /\ UNCHANGED <<storeVars, ckpt, procVars, workerVars, histVars>>

\* Variant: the directory of a refused upload is kept.
CreateRejectKeeping(c) ==
  /\ Return(c, "create")
  /\ UNCHANGED <<storeVars, diskVars, procVars, workerVars, histVars>>

\* ... or one of them is refused and the directory is purged.
CreateReject(c) ==
  /\ Return(c, "create")
  /\ PurgeJob(on[c])
  /\ UNCHANGED <<storeVars, procVars, workerVars, histVars>>

\* Variant: the row is inserted before the uploads are saved.
CreateCommitEarly(c) ==
  /\ Return(c, "create")
  /\ \E r \in Ranks, n \in Intervals, t \in 0..MaxClock : Insert(on[c], r, n, t)
  /\ UNCHANGED <<diskVars, procVars, workerVars, histVars>>

CreateCommit(c) ==
  /\ Return(c, "commit")
  /\ \E r \in Ranks, n \in Intervals, t \in 0..MaxClock : Insert(on[c], r, n, t)
  /\ UNCHANGED <<diskVars, procVars, workerVars, histVars>>

\* config.json or the INSERT fails: these two lines are outside the try.
CreateFail(c) ==
  /\ "disk_full" \in Faults
  /\ Return(c, "commit")
  /\ torn' = torn \union {on[c]}
  /\ UNCHANGED <<storeVars, diskVars, procVars, workerVars, raced, littered, stale>>

-----------------------------------------------------------------------------
(* POST /v1/jobs/{job_id}/cancel: the status is read first, acted on later. *)

CancelRead(c, j) ==
  /\ "cancel" \in Ops
  /\ \/ status[j] \in Runnable /\ Begin(c, "cancel_now", j)
     \/ status[j] = "running" /\ Begin(c, "cancel_flag", j)
  /\ UNCHANGED <<storeVars, diskVars, procVars, workerVars, histVars, issued>>

CancelNow(c) ==
  /\ Continue(c, "cancel_now", "cancel_purge")
  /\ SetStatus(on[c], "cancelled")
  /\ raced' = IF status[on[c]] \in {"running", "succeeded", "failed"}
              THEN raced \union {on[c]} ELSE raced
  /\ UNCHANGED <<diskVars, procVars, workerVars, leftVars>>

CancelPurge(c) ==
  /\ Return(c, "cancel_purge")
  /\ PurgeCheckpoint(on[c])
  /\ UNCHANGED <<storeVars, procVars, workerVars, histVars>>

\* Variant: a running job is marked cancelled at once, not flagged.
CancelFlagDirect(c) ==
  /\ Return(c, "cancel_flag")
  /\ SetStatus(on[c], "cancelled")
  /\ UNCHANGED <<diskVars, procVars, workerVars, histVars>>

CancelFlag(c) ==
  /\ Return(c, "cancel_flag")
  /\ RequestCancel(on[c])
  /\ UNCHANGED <<diskVars, procVars, workerVars, histVars>>

-----------------------------------------------------------------------------
(* DELETE /v1/jobs/{job_id}: the directory goes first, then the row. *)

DeleteRead(c, j) ==
  /\ "delete" \in Ops
  /\ Present(j) /\ status[j] # "running"
  /\ Begin(c, "delete_dir", j)
  /\ UNCHANGED <<storeVars, diskVars, procVars, workerVars, histVars, issued>>

DeleteDir(c) ==
  /\ Continue(c, "delete_dir", "delete_row")
  /\ PurgeJob(on[c])
  /\ raced' = IF status[on[c]] = "running" THEN raced \union {on[c]} ELSE raced
  /\ UNCHANGED <<storeVars, procVars, workerVars, leftVars>>

DeleteRowStep(c) ==
  /\ Return(c, "delete_row")
  /\ DeleteRow(on[c])
  /\ UNCHANGED <<diskVars, procVars, workerVars, histVars>>

Handler(c) ==
  \/ CreateSave(c) \/ CreateReject(c) \/ CreateCommit(c) \/ CreateFail(c)
  \/ CancelNow(c) \/ CancelPurge(c) \/ CancelFlag(c)
  \/ DeleteDir(c) \/ DeleteRowStep(c)

Request(c) == \E j \in Ids : CreateBegin(c, j) \/ CancelRead(c, j) \/ DeleteRead(c, j)

-----------------------------------------------------------------------------
(* Start-up: lifespan runs the recovery before it accepts requests. *)

Start ==
  /\ svc = "down"
  /\ svc' = "starting"
  /\ UNCHANGED <<storeVars, diskVars, restarts, workerVars, clientVars, histVars>>

Recovering(j) == svc = "starting" /\ pc = "off" /\ j \in InterruptedJobs

RecoverCancelled(j) ==
  /\ Recovering(j)
  /\ cancel[j]
  /\ SetStatus(j, "cancelled")
  /\ pc' = "recover_purge" /\ cur' = j
  /\ UNCHANGED <<diskVars, procVars, epoch, yielding, clientVars, histVars>>

\* Variant: the recovery keeps the checkpoint of a cancelled job.
RecoverPurgeNothing ==
  /\ pc = "recover_purge"
  /\ pc' = "off" /\ cur' = NoJob
  /\ UNCHANGED <<storeVars, diskVars, procVars, epoch, yielding, clientVars, histVars>>

RecoverPurge ==
  /\ pc = "recover_purge"
  /\ PurgeCheckpoint(cur)
  /\ pc' = "off" /\ cur' = NoJob
  /\ UNCHANGED <<storeVars, procVars, epoch, yielding, clientVars, histVars>>

RecoverPaused(j) ==
  /\ Recovering(j)
  /\ ~cancel[j] /\ ckpt[j] > 0
  /\ SetStatus(j, "paused")
  /\ UNCHANGED <<diskVars, procVars, workerVars, clientVars, histVars>>

\* Variant: a job without a checkpoint is queued again.
RecoverRequeued(j) ==
  /\ Recovering(j)
  /\ ~cancel[j] /\ ckpt[j] = 0
  /\ SetStatus(j, "queued")
  /\ UNCHANGED <<diskVars, procVars, workerVars, clientVars, histVars>>

\* Nothing is purged: a temporary file would stay.
RecoverFailed(j) ==
  /\ Recovering(j)
  /\ ~cancel[j] /\ ckpt[j] = 0
  /\ SetStatus(j, "failed")
  /\ littered' = IF "tmp" \in disk[j] THEN littered \union {j} ELSE littered
  /\ UNCHANGED <<diskVars, procVars, workerVars, clientVars, raced, torn, stale>>

\* Variant: the service does not wait for the recovery.
ServeUnrecovered ==
  /\ svc = "starting" /\ pc = "off"
  /\ svc' = "up" /\ pc' = "top"
  /\ UNCHANGED <<storeVars, diskVars, restarts, cur, epoch, yielding, clientVars, histVars>>

\* Every row left running is reconciled: start the worker, accept requests.
Serve ==
  /\ svc = "starting" /\ pc = "off" /\ InterruptedJobs = {}
  /\ svc' = "up" /\ pc' = "top"
  /\ UNCHANGED <<storeVars, diskVars, restarts, cur, epoch, yielding, clientVars, histVars>>

Recovery == \/ \E j \in Ids : RecoverCancelled(j) \/ RecoverPaused(j) \/ RecoverFailed(j)
            \/ RecoverPurge
            \/ Serve

-----------------------------------------------------------------------------
(* The worker thread: _loop, _run_job and training.run.  pc is read only    *)
(* while the thread exists, and each step leaves store and disk alone       *)
(* unless it says otherwise.                                                *)

Working == svc \in {"up", "stopping"}
Stopped == svc = "stopping"

At(from) == Working /\ pc = from
Goto(from, to) == At(from) /\ pc' = to /\ UNCHANGED <<cur, epoch, yielding>>

\* The end of _run_job.  Its finally writes to the log too: where that fails,
\* the thread ends after the job.
Finish(from) ==
  /\ At(from)
  /\ \/ pc' = "top"
     \/ "log" \in Faults /\ pc' = "mute"
  /\ cur' = NoJob /\ epoch' = 0 /\ yielding' = FALSE

NotWorker == <<procVars, clientVars>>

\* Variant: the loop does not look at _stop.
LoopTestForever ==
  /\ Goto("top", "claim")
  /\ UNCHANGED <<storeVars, diskVars, NotWorker, histVars>>

\* while not _stop.is_set()
LoopTest ==
  /\ Goto("top", IF Stopped THEN "done" ELSE "claim")
  /\ UNCHANGED <<storeVars, diskVars, NotWorker, histVars>>

\* claim_next() returned None: wait, and look again.
FindNothing ==
  /\ Waiting = {}
  /\ Goto("claim", "top")
  /\ UNCHANGED <<storeVars, diskVars, NotWorker, histVars>>

\* Variant: the query has no ORDER BY.
ClaimUnordered(j) ==
  /\ At("claim")
  /\ j \in Waiting
  /\ status' = [status EXCEPT ![j] = "running"]
  /\ pc' = "log" /\ cur' = j
  /\ UNCHANGED <<rowVars, cancel, epochs, diskVars, NotWorker, epoch, yielding, histVars>>

Claim(j) ==
  /\ At("claim")
  /\ ClaimNext(j)
  /\ pc' = "log" /\ cur' = j
  /\ raced' = IF Pending("delete_row", j) THEN raced \union {j} ELSE raced
  /\ UNCHANGED <<diskVars, NotWorker, epoch, yielding, leftVars>>

\* The log is opened before the try: without the directory the thread dies.
OpenLog ==
  /\ Goto("log", IF "dir" \in disk[cur] THEN "load" ELSE "dead")
  /\ UNCHANGED <<storeVars, diskVars, NotWorker, histVars>>

\* data.parse reads the uploads; a missing file is an exception.
Load ==
  /\ Goto("load", IF "inputs" \in disk[cur] THEN "resume" ELSE "failed")
  /\ UNCHANGED <<storeVars, diskVars, NotWorker, histVars>>

\* Variant: the checkpoint is loaded before the try, like the log.
ResumeBeforeTry ==
  /\ At("resume")
  /\ \/ epoch' = ckpt[cur] /\ pc' = "batch"
     \/ "unreadable" \in Faults /\ epoch' = 0 /\ pc' = "dead"
  /\ UNCHANGED <<storeVars, diskVars, NotWorker, cur, yielding, histVars>>

\* _load_checkpoint: where the last one left off, or from scratch.
Resume ==
  /\ At("resume")
  /\ \/ epoch' = ckpt[cur]
     \/ "unreadable" \in Faults /\ epoch' = 0
  /\ pc' = "batch"
  /\ UNCHANGED <<storeVars, diskVars, NotWorker, cur, yielding, histVars>>

CancelSeen == Present(cur) /\ cancel[cur]

BatchCancelled ==
  /\ Goto("batch", "cancelled")
  /\ CancelSeen
  /\ UNCHANGED <<storeVars, diskVars, NotWorker, histVars>>

BatchInterrupted ==
  /\ Goto("batch", "pause")
  /\ ~CancelSeen /\ Stopped
  /\ UNCHANGED <<storeVars, diskVars, NotWorker, histVars>>

\* Variant: should_cancel is not consulted.
BatchesUnasked ==
  /\ At("batch")
  /\ ~Stopped
  /\ pc' = "boundary" /\ epoch' = epoch + 1
  /\ UNCHANGED <<storeVars, diskVars, NotWorker, cur, yielding, histVars>>

\* The batches up to the end of the epoch.
Batches ==
  /\ At("batch")
  /\ ~CancelSeen /\ ~Stopped
  /\ pc' = "boundary" /\ epoch' = epoch + 1
  /\ UNCHANGED <<storeVars, diskVars, NotWorker, cur, yielding, histVars>>

CanCheckpoint == every[cur] > 0 /\ epoch < Epochs

\* Variant: the first interval is skipped.
DueLate == CanCheckpoint /\ epoch > every[cur] /\ epoch % every[cur] = 0

Due == CanCheckpoint /\ epoch % every[cur] = 0
Yield == CanCheckpoint /\ HigherWaiting(rank[cur])

\* Variant: off by one in the test for the last step.
BoundaryLate ==
  /\ At("boundary")
  /\ pc' = IF epoch > Epochs THEN "save_model" ELSE IF Due \/ Yield THEN "save_tmp" ELSE "batch"
  /\ yielding' = Yield
  /\ UNCHANGED <<storeVars, diskVars, NotWorker, cur, epoch, histVars>>

\* Variant: on_checkpoint is called before the checkpoint is saved.
BoundaryRecords ==
  /\ At("boundary")
  /\ pc' = IF epoch = Epochs THEN "save_model" ELSE IF Due \/ Yield THEN "save_tmp" ELSE "batch"
  /\ yielding' = Yield
  /\ SetEpochs(cur, epoch)
  /\ UNCHANGED <<diskVars, NotWorker, cur, epoch, histVars>>

\* Variant: yielding does not force a write off the interval.
BoundaryUnsaved ==
  /\ At("boundary")
  /\ pc' = IF epoch = Epochs THEN "save_model" ELSE
           IF Due THEN "save_tmp" ELSE IF Yield THEN "pause" ELSE "batch"
  /\ yielding' = Yield
  /\ UNCHANGED <<storeVars, diskVars, NotWorker, cur, epoch, histVars>>

\* The end of an epoch: training is over, or a checkpoint is written, or not.
Boundary ==
  /\ At("boundary")
  /\ pc' = IF epoch = Epochs THEN "save_model" ELSE IF Due \/ Yield THEN "save_tmp" ELSE "batch"
  /\ yielding' = Yield
  /\ UNCHANGED <<storeVars, diskVars, NotWorker, cur, epoch, histVars>>

\* _save_checkpoint: mkdir(parents=True), then the temporary file ...
SaveTmp ==
  /\ Goto("save_tmp", "rename")
  /\ disk' = [disk EXCEPT ![cur] = @ \union {"dir", "tmp"}]
  /\ UNCHANGED <<storeVars, ckpt, NotWorker, histVars>>

\* ... then the rename, which fails if the temporary file has been purged.
Rename ==
  /\ At("rename")
  /\ IF "tmp" \in disk[cur]
       THEN /\ Goto("rename", "record")
            /\ disk' = [disk EXCEPT ![cur] = @ \ {"tmp"}]
            /\ ckpt' = [ckpt EXCEPT ![cur] = epoch]
            /\ stale' = IF epochs[cur] > epoch THEN stale \union {cur} ELSE stale
       ELSE Goto("rename", "failed") /\ UNCHANGED <<diskVars, stale>>
  /\ UNCHANGED <<storeVars, NotWorker, raced, torn, littered>>

\* Variant: on_checkpoint counts the epoch to come.
RecordNext ==
  /\ Goto("record", IF yielding THEN "pause" ELSE "batch")
  /\ SetEpochs(cur, epoch + 1)
  /\ stale' = stale \ {cur}
  /\ UNCHANGED <<diskVars, NotWorker, raced, torn, littered>>

\* on_checkpoint, then on with the next epoch or raise Preempted.
Record ==
  /\ Goto("record", IF yielding THEN "pause" ELSE "batch")
  /\ SetEpochs(cur, epoch)
  /\ stale' = stale \ {cur}
  /\ UNCHANGED <<diskVars, NotWorker, raced, torn, littered>>

\* Evaluation and out_dir.mkdir(parents=True), save_pretrained.
SaveModel ==
  /\ Goto("save_model", "tar")
  /\ disk' = [disk EXCEPT ![cur] = @ \union {"dir", "output"}]
  /\ UNCHANGED <<storeVars, ckpt, NotWorker, histVars>>

Tar ==
  /\ At("tar")
  /\ IF "output" \in disk[cur]
       THEN /\ Goto("tar", "succeed")
            /\ disk' = [disk EXCEPT ![cur] = @ \union {"artifact"}]
       ELSE Goto("tar", "failed") /\ UNCHANGED disk
  /\ UNCHANGED <<storeVars, ckpt, NotWorker, histVars>>

\* artifact.stat() is an argument of the update: without the file it fails.
Succeed ==
  /\ At("succeed")
  /\ IF "artifact" \in disk[cur]
       THEN Goto("succeed", "purge_ok") /\ SetStatus(cur, "succeeded")
       ELSE Goto("succeed", "failed") /\ UNCHANGED storeVars
  /\ UNCHANGED <<diskVars, NotWorker, histVars>>

\* Variant: the status of a paused job is not written.
PauseUnrecorded ==
  /\ Finish("pause")
  /\ UNCHANGED <<storeVars, diskVars, NotWorker, histVars>>

\* Variant: a paused job is written back as queued.
PauseRequeued ==
  /\ Finish("pause")
  /\ SetStatus(cur, "queued")
  /\ UNCHANGED <<diskVars, NotWorker, histVars>>

\* Preempted or Interrupted: the checkpoint is kept.
Pause ==
  /\ Finish("pause")
  /\ SetStatus(cur, "paused")
  /\ UNCHANGED <<diskVars, NotWorker, histVars>>

Cancelled ==
  /\ Goto("cancelled", "purge")
  /\ SetStatus(cur, "cancelled")
  /\ UNCHANGED <<diskVars, NotWorker, histVars>>

Failed ==
  /\ Goto("failed", "purge")
  /\ SetStatus(cur, "failed")
  /\ UNCHANGED <<diskVars, NotWorker, histVars>>

\* Variant: the checkpoint of a failed or cancelled job is kept.
PurgeNothing ==
  /\ Finish("purge")
  /\ UNCHANGED <<storeVars, diskVars, NotWorker, histVars>>

Purge ==
  /\ Finish("purge")
  /\ PurgeCheckpoint(cur)
  /\ UNCHANGED <<storeVars, NotWorker, histVars>>

\* Variant: purge instead of purge_checkpoint.
PurgeSucceededAll ==
  /\ Finish("purge_ok")
  /\ PurgeJob(cur)
  /\ UNCHANGED <<storeVars, NotWorker, histVars>>

\* The purge after success is inside the try, and so is the log line after it.
PurgeSucceeded ==
  /\ Finish("purge_ok")
  /\ PurgeCheckpoint(cur)
  /\ UNCHANGED <<storeVars, NotWorker, histVars>>

\* That line cannot be written: the handler for exceptions runs on the job
\* that has just succeeded ...
LogFailsAfterSuccess ==
  /\ "log" \in Faults
  /\ Goto("purge_ok", "undo")
  /\ PurgeCheckpoint(cur)
  /\ UNCHANGED <<storeVars, NotWorker, histVars>>

\* ... and records a failure.
Undo ==
  /\ Goto("undo", "purge")
  /\ SetStatus(cur, "failed")
  /\ UNCHANGED <<diskVars, NotWorker, histVars>>

\* The log cannot be opened, or the first line of an exception handler cannot
\* be written: the exception leaves _run_job and ends the thread.
LogFails ==
  /\ "log" \in Faults
  /\ pc \in {"log", "pause", "cancelled", "failed", "undo"}
  /\ Goto(pc, "mute")
  /\ UNCHANGED <<storeVars, diskVars, NotWorker, histVars>>

\* Variant: the exceptions of the body are not caught.
RaiseUncaught ==
  /\ "train" \in Faults
  /\ pc \in Body
  /\ Goto(pc, "dead")
  /\ UNCHANGED <<storeVars, diskVars, NotWorker, histVars>>

\* Any exception in the body of the try.
Raise ==
  /\ "train" \in Faults
  /\ pc \in Body
  /\ Goto(pc, "failed")
  /\ UNCHANGED <<storeVars, diskVars, NotWorker, histVars>>

Worker ==
  \/ LoopTest \/ FindNothing \/ \E j \in Ids : Claim(j)
  \/ OpenLog \/ Load \/ Resume
  \/ BatchCancelled \/ BatchInterrupted \/ Batches \/ Boundary
  \/ SaveTmp \/ Rename \/ Record
  \/ SaveModel \/ Tar \/ Succeed
  \/ Pause \/ Cancelled \/ Failed \/ Undo \/ Purge \/ PurgeSucceeded

Fault == LogFailsAfterSuccess \/ LogFails \/ Raise

\* The thread has ended.
Ended == pc \in {"done", "dead", "mute"}

-----------------------------------------------------------------------------
(* The process stops, and is started again. *)

Down ==
  /\ svc' = "down"
  /\ pc' = "off" /\ cur' = NoJob /\ epoch' = 0 /\ yielding' = FALSE

\* The server lets the requests in flight finish before it runs the shutdown.
Shutdown ==
  /\ svc = "up"
  /\ \A c \in Clients : op[c] = "idle"
  /\ restarts < MaxRestarts
  /\ svc' = "stopping" /\ restarts' = restarts + 1
  /\ UNCHANGED <<storeVars, diskVars, workerVars, clientVars, histVars>>

\* join() returned: the thread has ended.
Exit ==
  /\ svc = "stopping" /\ Ended
  /\ Down
  /\ UNCHANGED <<storeVars, diskVars, restarts, clientVars, histVars>>

\* What a death of the process at this moment leaves half done: a directory
\* without its row, or the reverse; and a purge that was due and will not come.
Apart == {j \in Ids : Pending("create", j) \/ Pending("commit", j) \/ Pending("delete_row", j)}

Unpurged ==
  {j \in Ids : /\ ckpt[j] > 0 \/ "tmp" \in disk[j]
               /\ \/ Pending("cancel_purge", j)
                  \/ cur = j /\ pc \in Purging \union {"recover_purge"}}

Leave ==
  /\ torn' = torn \union Apart
  /\ littered' = littered \union Unpurged
  /\ UNCHANGED <<raced, stale>>

\* join() timed out: the thread is abandoned and dies with the process.
Abandon ==
  /\ "timeout" \in Faults
  /\ svc = "stopping" /\ ~Ended
  /\ Down
  /\ Leave
  /\ UNCHANGED <<storeVars, diskVars, restarts, clientVars>>

Crash ==
  /\ "crash" \in Faults
  /\ svc # "down"
  /\ restarts < MaxRestarts
  /\ Down
  /\ restarts' = restarts + 1
  /\ op' = [c \in Clients |-> "idle"]
  /\ on' = [c \in Clients |-> NoJob]
  /\ Leave
  /\ UNCHANGED <<storeVars, diskVars, issued>>

-----------------------------------------------------------------------------

Next ==
  \/ \E c \in Clients : Request(c) \/ Handler(c)
  \/ Start \/ Recovery
  \/ Worker \/ Fault
  \/ Shutdown \/ Exit \/ Abandon \/ Crash

Spec == Init /\ [][Next]_vars

\* The threads are scheduled, and systemd restarts the process: Restart=always.
Fairness ==
  /\ \A c \in Clients : WF_vars(Handler(c))
  /\ WF_vars(Start)
  /\ WF_vars(Recovery)
  /\ WF_vars(Worker)
  /\ WF_vars(Exit)

FairSpec == Spec /\ Fairness

=============================================================================
