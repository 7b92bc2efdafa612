# Formal models of deberta-tuner

TLA+ models of the fine-tuning service under `src/app`, model-checked with TLC
and, for the core, proved with TLAPS. This document says what the system's
parts are, which module models which, what the runs and the proofs show, and
what is left.

## 1. The system

| Component | Source | State | Operations |
|---|---|---|---|
| Job store | `db.py` | the `jobs` table | `create`, `update`, `claim_next`, `request_cancel`, `delete`, and reads; each under one lock and connection |
| Queue views | `db.py`, `main.py` | none | `waiting_jobs`, `queue_position`, `higher_priority_waiting`, `GET /v1/queue`, `GET /v1/jobs`, `GET /v1/jobs/{id}` |
| Job handlers | `main.py` | locals of a request | `create_job`, `cancel_job`, `delete_job`, on threads of the server's pool |
| Worker | `worker.py` | `_stop`, `_thread`, locals of `_loop` and `_run_job`, the job directories | `_loop`, `_run_job`, `recover_interrupted`, `start`, `shutdown`, `purge`, `purge_checkpoint` |
| Training loop | `training.py` | model, optimizer, scheduler, random generator, `epoch`, `step`, `done`; `checkpoint.pt` | `run`, `_save_checkpoint`, `_load_checkpoint` |
| GPU arbitration | `worker.py` | `holding`, `idle_since`; the co-tenant systemd unit | `_stop_cotenant`, `_start_cotenant`, the `finally` of `_loop` |
| Training data | `data.py` | none | `parse`, `split`, `merge_labels`, called by `create_job` and again at every attempt |
| Metrics, tokenisation | `training.py` | tensors | datasets, collation, evaluation, `_metrics` |
| Schemas, configuration | `schemas.py`, `config.py` | none | validation |
| Deployment | `deploy/` | none | the systemd unit |

**Interaction.** Handlers and worker share the store, the job directories and
nothing else: a handler never calls the worker. A cancel of a running job is a
column the training loop polls at every batch; a preemption is a query the
training loop makes at the end of every epoch; a shutdown is the event `_stop`,
polled at every batch and before every claim. `lifespan` runs
`recover_interrupted` before it starts the worker and accepts requests, and
`worker.shutdown` when the requests in flight are done.

**What is hard.** The lock of `db.py` makes each query atomic and nothing more:
`cancel_job` and `delete_job` read a status and act on it later, while the
worker claims and finishes jobs. A status and the files that belong to it are
changed by two writes, and the process can die between them. A job's exception
handler can itself fail. A job is the sum of its attempts, each of which parses,
splits and loads again what it goes on from. The queue order is written down three times. Whether
the co-tenant is owed a restart is a local variable. `PROJECT.json` lists the
hazards, each at its line, with the properties that are about it.

**What makes each part correct.** *Store and views*: the queries over the queue
agree, and preemption reorders no jobs. *Handlers
and worker*: one job at a time; a running row is the worker's job and the
reverse; a row has its files and files have a row; a final status is final, and
leaves no checkpoint; every job ends once nothing more urgent arrives. *Training loop*: what the store says of a
checkpoint is true, a yield loses nothing, an interruption less than one
interval, and the attempts of a job amount to one uninterrupted run. *Data*: no
row is trained on and evaluated on, none is lost, every label has an output, and
each word is scored once, by its own tag. *GPU*: no job trains beside the
co-tenant, and it is given back.

## 2. The modules

    Ordering          lists in order: what sorted() and ORDER BY return
    OrderingProofs    EXTENDS Ordering, for TLAPS: lemmas
    JobStore          the jobs table, its queries and updates
    QueueView         EXTENDS JobStore, Ordering: the queue as the API shows it
    QueueProofs       EXTENDS QueueView, OrderingProofs, for TLAPS
    JobLifecycle      abstract: the statuses of a job and how they may change
    JobService        EXTENDS JobStore: handlers, worker, recovery, crashes
    JobProperties     EXTENDS JobService: its properties, and the refinement
                      mappings to JobLifecycle and to QueueView
    JobAnswers        EXTENDS JobService: what a client is told of its jobs
    MCJobService      EXTENDS JobProperties, for TLC
    JobProofs         EXTENDS JobProperties, for TLAPS
    ServiceProofs     EXTENDS JobProofs, for TLAPS
    TrainingData      the data of a job, as functions: parsing, splitting,
                      labels, alignment, padding, true sequences
    TrainingDataProofs EXTENDS TrainingData, OrderingProofs, for TLAPS
    ResumableRun      abstract: one run of `total` steps, with checkpoints
    Training          EXTENDS TrainingData: one job over all its attempts, its
                      properties, and the refinement mapping to ResumableRun
    MCTraining        EXTENDS Training, for TLC
    TrainingProofs    EXTENDS Training, TrainingDataProofs, for TLAPS
    GpuArbitration    the drain loop and the co-tenant
    GpuProofs         EXTENDS GpuArbitration, for TLAPS

**JobStore.** A column is a variable indexed by job id, `"absent"` the status of
a missing row. Each function of `db.py` is one operator: `Insert`, `ClaimNext`,
`SetStatus`/`SetEpochs` (`update`), `RequestCancel`, `DeleteRow`, and the reads
`Waiting`, `IsHead`, `HigherWaiting`, `QueuePosition`, `InterruptedJobs`. As in
SQL, an update of a missing row does nothing. Ids are numbers, since the code
orders by them, but *which* id a job gets is a free choice, as with `uuid4`.
`created_at` is a whole second that never goes back, since `create` reads the
clock under the lock.

**Ordering.** A sorted list is defined by what it is, the list of all elements
of a set in which earlier ones come first in the order, and not by a way to
compute it, so that it can be reasoned about.

**QueueView.** The steps the service takes on the store (`StoreStep`): a row is
created, the head of the queue is claimed when no row says running, and a row
is paused, ended or deleted whatever its status is, since handlers act on what
they have read. That is more than the service does, so that what holds here
holds of it: `JobService` implements this module (`QueueSpec`), with the columns
no query of the queue reads, and the client, forgotten. Beside them there is one
client of `GET /v1/queue`, which reads the running job, then the predicate that
would preempt it, then the waiting jobs: `step` is its next read, `shown` what
its answer contains so far. The store changes between the reads. `claimed` is
history.

**JobService.** `op[c]` is the step request `c` takes next, on job `on[c]`: a
handler is cut at each database call and each change to the disk, so that other
threads run between them, and its guard is taken on the state it *read*
(`CancelRead`, `DeleteRead`), not on the state it *acts* in. `pc` is the
worker's next step on job `cur`; `epoch` and `yielding` are the locals of
`training.run`. `disk[j]` says which of the directory, the uploads, the
temporary checkpoint, the model and the tarball exist, `ckpt[j]` how many epochs
`checkpoint.pt` holds. `svc` is the process. The worker's path through a job is

    claim -> log -> load -> resume -> batch -> boundary -+-> save_model -> tar -> succeed -> purge_ok
                              ^                |         |
                              |                |         +-> save_tmp -> rename -> record -+-> pause
                              +----------------+-----------------------------------------+
    batch -> cancelled -> purge     batch -> pause     any step of the try -> failed -> purge
    purge_ok -> undo -> purge       the job fails over the last line of its log

and the thread ends `dead`, by the exception of a missing directory that leaves
`_run_job`, or `mute`, by one over the log. Failures are
drawn from `Faults`: `"crash"` (at any step), `"timeout"` (`join` gave up),
`"train"` (any exception in the body), `"log"` (the job's log cannot be opened,
for want of space or of descriptors, or a line of it cannot be written: after
success, at the start of an exception handler, or in the `finally`), `"disk_full"` (`create_job` after its `try`), `"unreadable"` (a
checkpoint that does not load).

Four history variables say for which jobs some properties make an exception, and
how a job gets there is part of what is checked. `raced`: a request changed a job
that the worker had taken or ended since the request read its status. `torn`: the
process died inside a create or a delete, or a create failed after its `try`, so
that row and directory are apart. `littered`: the process died between a final
status and its purge, or the recovery failed a job and left its temporary file.
`stale`: an attempt that began again from scratch has saved fewer epochs than
the column says and not come to record them. Each step that adds to one of them
is a place where the code has no answer, and is on the list of hazards without a
property, or is shown by a `Finding*` run; a crash anywhere else must end well.

**JobAnswers.** One client of `GET /v1/jobs` or `GET /v1/jobs/{id}`, or of the
answer of a create or a cancel: it reads rows (`ReadRows`) and asks for their
places in the queue afterwards (`ReadPlaces`), while the service of `JobService`
runs.

**TrainingData.** Functions without state. A line of a file is a record with an
identity, one boolean for the checks of its own syntax, the number of its
tokens, its tags, and the list of the pieces the tokenizer makes of the tokens,
each given by the token it comes from. `KeptPieces` is what truncation leaves of
it. `Accepts` is when `parse`
raises nothing, `Labels` and `MergeLabels` give the lists in the code's order,
`Split` the held-out slice, given the seeded permutation, `Prepare` what
`_run_job` makes of it all. `WordIds`, `Align`, `Pad` (the collation and the
evaluation both pad with it), `Gold` and `TrueSeqs` follow the labels of
token classification from a row to the scorer.

**Training.** One job, from `create_job` to its end. `pc` is the next step of
`run`, or what the store says of the job:

    submitted -> queued | rejected
    queued, paused -> load -> epoch -> batch ... batch -> boundary -> [save -> record ->] epoch
                                |                                                |
                                +-> evaluate -> succeeded | failed               +-> paused

`parts` says of the model, the optimizer, the scheduler and the random generator
how many steps of an uninterrupted run each is the result of; `epoch`, `batch`,
`step`, `done` and `yielding` are the locals of `run`, `ckpt` is
`checkpoint.pt`, `column` and `progress` are the two columns it reports to. Each
call of a callback is a step. `EpochTest` is the head of the outer loop,
`Boundary` what follows the inner one, with any answer of `should_yield`.
`Resume`, `StartFresh`, `Unreadable` and `Incompatible` are the returns of
`_load_checkpoint`; in `Incompatible` the first k of four loads have been
carried out. `data` is computed again by each attempt.
JobService has the same worker seen from the queue, an epoch at a time; here the
queue is the environment, which may cancel, stop or preempt whenever the loop
asks. The two share the boundary, the order of save and record, and what the
recovery makes of a crash.

**ResumableRun.** What the attempts promise together: a run takes its steps one
after the other, a checkpoint keeps the first few, a new attempt goes on from
those or from nothing, and only a run with all its steps is finished. `Training`
maps a job to it that has succeeded as finished, and one that has ended otherwise
as dropped only where its history `cut` says that a refusal, a cancel, an
exception or a crash has ended it: a job that ends for no such reason refines
nothing. Jobs of every task end as finished in the run, among them regression
jobs that are evaluated on rows of a value no training row has.

**GpuArbitration.** Of the jobs only their number is kept. `holding` and `idle`
are the locals of `_loop`; each systemctl call is a step. An exception may come before
any step of the loop has had its effect (`Die`), after the stop and before
`holding` is assigned (`DieSettling`), and after a start and before `holding` is
reset (`DieStarted`). `owed` records that the thread has stopped the unit and
that no start of it has succeeded since; `lost` that since that stop a start has
failed, of which the loop takes no notice, or an exception has cut
`_stop_cotenant` short; `quiet` how long no job has been claimed, `slipped` that
a stop failed or that the operator started the unit since. No guard reads any of
them. `lost` is the exception of three properties; without it they are false,
and the code has no answer to either case.

**Faulty forms.** Definitions whose comment begins with "Variant" are the
plausible bugs the properties are tested with: each property of a passing run is
violated when the named definition is replaced by its variant (`mutants` in
`PROJECT.json`).

## 3. The runs

| Run | Question | Bounds | Distinct states |
|---|---|---|---|
| `QueueView` | Do the four queries agree; does a yield pay; does a preempted job keep its place; can `GET /v1/queue` lose a job? | 3 jobs, 2 priorities, 2 seconds, one client | 1.2 million |
| `JobServiceRaces` | What can two requests at a time do to each other and to the worker, and what do exceptions in a job and in a create leave? | 2 jobs, 2 requests, 2 epochs, no restart | 5.3 million |
| `JobServiceCrash` | What does a death of the process, or of the worker thread, leave, what does the recovery make of it, and what do preemption and interruption cost a job? Is the queue driven as `QueueView` has it? | 2 jobs, 1 request, 3 epochs, interval 0 or 2, 1 restart | 5.1 million |
| `JobServiceLiveness` | Does every job end, does a cancel stick, does the service come back? | 2 jobs, 1 request, 2 epochs, interval 1, 1 crash or shutdown | 1.3 million |
| `GpuArbitration` | Is the co-tenant down while a job trains, and given back, not too early, whatever fails? | 3 jobs waiting, delay 3, 2 starts | 6 thousand |
| `Training` | Are the attempts of a job one run, on one set of rows, and are its words scored once? Does it end? | every small file; 5 rows, batch 1, 2 or 4, 1/2 to 7/2 epochs, interval 0 to 3; 2 setbacks | 191 thousand |

**Why the bounds are enough.** Two jobs and two requests let every pair of
handler steps meet on one job while the worker is at the other or at the same
one; the store's operations compare two jobs at a time. Three jobs are needed
where order is transitive (`QueueView`); two priorities and two seconds give
each pair of them every outcome of the comparison, and every tie. Two epochs
give a boundary with and a boundary without a checkpoint; three with an interval
of 2 give a boundary off the interval, a stale checkpoint and a resumption in
the middle. One restart gives one recovery from every state; a second recovery
starts from a state that the first run of the process could be in as well, and
the proofs below put no bound on any of these. `MaxRestarts`, `MaxClock`,
`MaxQueue`, `MaxStarts` and `MaxSetbacks` are the only bounds in guards.

The jobs of `Training` are of two families (`MCTraining`). *Uploads* are files
of up to one row, with and without an evaluation file, of six kinds of row: one
piece, many pieces, a token that vanishes, a row that truncation cuts, one with
too few tags, an empty one; evaluation files of up to three rows, so that
batches of unequal width meet; and files of four rows, from which a slice is
held out at 0, 50 and 89 percent. *Shapes* are trainings of
five rows, one of which is held out: 4, 2 or 1 batches an epoch, whole and half
epochs, so that the budget ends at the boundary and inside an epoch, and
intervals that divide the epochs, do not, and are never reached. Preemption is
free at each boundary; the second of two setbacks falls on an attempt that has
resumed.

Each run uses the smallest set of faults its question needs; between them all
faults occur. `CHECK_DEADLOCK FALSE` stands where the system may really stop: a
worker thread that has died, or a model that has used up its ids or restarts and
whose jobs have all been deleted or ended with no restart left.

**Fairness.** `JobServiceLiveness` assumes weak fairness of each request's
handler, of the worker thread, of the recovery, of the exit of a process whose
worker has ended, and of `Start`: threads are scheduled, and systemd restarts
the process (`Restart=always`). Nothing is assumed of crashes or
errors, but `EveryJobEnds` is a statement about executions in which jobs cease to
arrive and the worker thread is not dead for good. Both premises are needed:
operations.md:157 calls it expected that a paused job waits while more urgent
work does, and more can always arrive; and behind a thread that has died all jobs
wait (operations.md:169), as one does here when a job is deleted under the claim.
What the property says is that nothing else keeps a job from its end: not a
preemption, a restart, a crash, a race or an unreadable checkpoint. A thread that
ends over its log is left to `JobServiceCrash`: the premise excludes it as it does
a dead one. The worker is one sequential thread, so weak fairness of all its steps together
is what scheduling it means. `Training` assumes weak fairness of the same thread for one job,
and that a waiting job is claimed in the end: that is an assumption of its own,
that the queue ahead of the job drains and the thread lives, under which the
service has `EveryJobEnds`; a yield, which the environment decides, may come at every boundary, and
`Terminates` holds because each attempt that yields has saved an epoch more. Its
bound on setbacks is an assumption there: a service that is stopped in every
first epoch never ends a job. `GpuArbitration` assumes weak fairness of the
loop and of the exit; that `RunJob` is part of the loop says that no training
runs for ever: a job has finitely many epochs, and `_run_job` returns from each.

**Refuted statements.** These runs show a behaviour of the code against a
sentence of its documentation; the findings in `PROJECT.json` quote it.

| Run | What TLC shows |
|---|---|
| `FindingTerminal` | a cancel read before the claim and written after the end turns `succeeded` into `cancelled` |
| `FindingWorkerDies` | a delete under a claim ends the worker thread for good |
| `FindingCrash` | a killed process leaves the co-tenant down, and no later process starts it |
| `FindingStopFails` | a failed stop counts as a stop |
| `FindingScratch` | a checkpoint that fails to load in the middle starts "from scratch" with the weights it has loaded |
| `FindingPlaces` | a job preempted between the two reads of an answer is shown as running, and with a place in the queue |

Other sentences that the models contradict, without a run of their own, because
the code is what one would want and the sentence is loose or out of date:
operations.md:77 says that a restart fails the running job, which is paused and
resumed (`Pause`, `RecoverPaused`); api.md:286 that a paused job retains its
checkpoint, which it has only if one was written (`BatchInterrupted`);
architecture.md:147 that an arrival cancels the pending restart, which it does
not after the last poll (`Poll`, `RestartUnit`); api.md:182 that a flagged job
unwinds within seconds, when it may yield and wait first (`Boundary`);
db.py:54 that ties go to the job waiting longest, when within one second they
go by a random id (`Before`); operations.md:193 that checkpoints are deleted the
moment a job ends, when a crash between the status and the purge leaves one for
good (the exception `littered` of `FinalHasNoCheckpoint`); api.md:116 that any
failure of a create purges the directory, when one after its `try` does not
(`CreateFail`); main.py:142 that a paused job resumes where its progress says,
when an interrupted one resumes at its checkpoint (`BatchInterrupted`);
schemas.py:110 that epochs_completed above 0 means it will not start over, when
its checkpoint may not load (`Unreadable`); schemas.py:141 that a running job
will yield, when it has no checkpoints or is in its last epoch
(`CanCheckpoint`); worker.py:318 and architecture.md:156 that a loop that died
gives the GPU back, when an exception after the stop comes before `holding` is
assigned (`DieSettling`) and a failed start is not tried again
(`SystemctlStart`); architecture.md:61 once more, when the last line of the log
cannot be written and a job that succeeded fails (`Undo`); schemas.py:110
("Epochs finished and checkpointed"), while an attempt that began again from
scratch is between its rename and its record (`stale`).

## 4. The proofs

`JobProofs` proves, for any number of jobs, requests, epochs and restarts and
any combination of faults, from the assumptions on the constants alone (ids are
positive numbers, ranks are 0 to 2, intervals and bounds are natural numbers,
there is at least one epoch, requests are of the three kinds):

| Theorem | States |
|---|---|
| `Inductive` | `Spec => []IInv` |
| `TypeCorrect` | `TypeOK` |
| `Serial` | `AtMostOneRunning` |
| `RowsAreOwned` | `RunningIsOwned` |
| `Ownership` | `OwnedIsRunning` |
| `FilesKept` | `RowHasInputs` |
| `ArtifactsKept` | `SucceededHasArtifact` |
| `WorkerDeaths` | `DiesOnlyOnLostJob` |
| `NothingLeft` | `NoOrphanDirectory` |
| `CheckpointsPurged` | `FinalHasNoCheckpoint` |
| `YieldKeepsEpochs` | `YieldLosesNothing` |
| `LossBound` | `LossIsBounded` |
| `EpochsKept` | `EpochsAreCheckpointed` |
| `Implements` | `Spec => LifecycleSpec`, the refinement of `JobLifecycle` |

**The argument.** None of these is inductive. `IInv` is built in layers, each
preserved given those before it. `TypeInv` adds to the types which epochs a
step can be at (`Batches` needs `epoch < Epochs`). `RunInv` is one-way
ownership: a running row is the worker's, which holds because a row becomes
running only at the claim, when there is none, and because `Serve` waits for the
recovery. `IssuedInv` says that a job being created is nobody else's, since its
id is fresh and has no row; it keeps cancel and delete away from
`CreateCommit`. `OwnInv` is the other direction, and needs that a delete whose
directory is gone finds its job running only if it raced. With it `FilesInv`
(a row has its directory, so that `OpenLog` finds it for a sound job), `PurgeInv`
(what a request has purged stays so until it returns, and a job that has
succeeded stays so until the worker leaves it) and `CkptInv` (a
checkpoint or its temporary file belongs to a waiting or running job, to a purge
about to happen or to a job that is littered; the column promises no more than
it, even while the job runs, unless the job is stale) go through.
`YieldInv` says that `yielding` is only set on the way from a boundary through
save, rename and record to the pause. `LossInv` says which epochs the checkpoint
holds at each step of the loop: with a lemma on multiples, at most one interval
less one epoch is lost. The refinement proof shows that each step
changes the `Phase` of at most one job, and in a way the lifecycle allows; `Run`
needs `AtMostOneRunning`, and `Relapse`, the failure over the last line of the
log, that the worker still has the job that succeeded, so that none is running.

`GpuProofs` proves, for any delay, any number of jobs and restarts and any
faults, from the assumptions that the bounds are natural numbers: `TypeOK`
(`GpuTypeCorrect`), `TrainsAlone` (`Arbitration`), `StoppedIsHeld`
(`HoldsWhatItStopped`), `EndsRestored` (`GivesBackAtTheEnd`) and
`RestartsAfterDelay` (`RestartsLate`), from `GpuInductive`. `StoppedIsHeld` and `EndsRestored` are about a
unit of which no start has succeeded, whether or not one was issued. Its invariant says
that `holding` is false from a claim that checks the unit until
`_stop_cotenant` returns, that a loop which holds the unit finds it down unless
it slipped (so that a claim may skip the check), and that `idle` is at most the
time since the last claim, because a claim resets both.

`QueueProofs` proves, for any number of jobs and any clock:

| Theorem | States |
|---|---|
| `StoreTypes` | the types of the columns |
| `YieldsToTheUrgent` | `YieldHandsOver` |
| `PlacesAreKept` | `NoOvertaking` |
| `QueriesAgree` | `ViewsAgree` |
| `QueueAnswersAreWhole` | `NoneLost` |

The three columns that order two jobs are written only by `Insert`, so that what
is left of the first two is that the order is the same before and after each
step. `QueriesAgree` needs two facts. The table is finite in every state,
whatever the set of ids, because a step adds one row. And a finite set with a
strict total order has one sorted list, in which the place of an element is one
more than the number of the smaller ones: `OrderingProofs` shows it by taking
the least number at which it would fail, where an induction would be out of
reach. `QueueAnswersAreWhole` says of each read where a job that is unfinished
all along has been or is still to be seen: it waits until the worker claims it,
and waiting jobs are read last.

`ServiceProofs` proves, from the invariant of `JobProofs`:

| Theorem | States |
|---|---|
| `DrivesTheQueue` | `Spec => QueueSpec`, the refinement of `QueueView` |
| `NobodyOvertakes` | `NoOvertaking` of the whole service |
| `CancelsStick` | `CancelSticks` |

`DrivesTheQueue` maps each step of a handler, of the worker, of the recovery and
of the process to one step on the queue or to a stutter; the claim needs
`RunInv`, since `claim_next` itself looks at no running row, and the deletion of
a missing row the types. `NobodyOvertakes` then says of restarts and crashes too
what `QueueView` says of a queue. `CancelsStick` is a statement about pairs of
states: a job that has been put back with its flag set never succeeds later.
`HeldInv` says that a job in the worker's hands does not wait, so a job that is
put back has left its hands; from there on `Doomed(j)` is an invariant of that
job: nothing takes its flag away, and the worker, should it claim it again, sees
the flag at the first batch, or finds that the row has been deleted.

`TrainingDataProofs` is about the functions of `TrainingData`. Its lemmas say
what the sorted label lists contain, that `labels.index` finds the first
place of a label, what a maximum, a concatenation and a padding are. They lead to
`ScoredRow`: for any row whose pieces are in the order of its tokens, any labels
that contain its tags, any maximal length and any batch, the alignment, the
padding of the collation, the padding of the evaluation and the mask leave of
the row the tags of the words that survive truncation, each once and in order. The
first pieces of the words and the words correspond one to one; that both lists
are in order makes them the same list.

`TrainingProofs` proves, for any jobs that satisfy the assumptions of `Training`
(any files whose lines have names and whose pieces come in the order of the
tokens, any permutation, any maximal length the schema admits, any batch size,
interval and number of epochs, whole or not), any number of setbacks and any
faults:

| Theorem | States |
|---|---|
| `TrainingInductive` | `Spec => []IInv` |
| `TrainingTypes` | `TypeOK` |
| `AttemptsAreOneRun` | `OneRun` |
| `EpochsAreNotRedone` | `NothingRedone` |
| `PreemptionKeepsAll` | `PreemptedKeepsAll` |
| `AttemptsImplementOneRun` | `RunSpec`, the refinement of `ResumableRun` |
| `EvalCountBounds` | a split leaves a row on either side |
| `RowsAreApart` | `NoLeak` |
| `LabelsAreKnown` | `LabelsKnown` |
| `WordsAreScoredOnce` | `WordsScoredOnce` |

It begins with arithmetic: `Budget` says that the step budget
`ceil(batches * epochs)` runs out in the last of the `ceil(epochs)` epochs,
neither before nor after it (`LastEpoch`), which is why the loop ends with
`done` and never for want of epochs, and why no checkpoint is written of the
last epoch. `Place` then says where in its run an attempt stands at each step of
the loop: as long as it is not `done`, `step = epoch * batches + batch`. `Kept`
says what is in the checkpoint and the columns: a checkpoint stands at an epoch
boundary below the budget and carries the labels this job always has, so that
the next attempt does not ignore it. `Together` says that all parts of the state
stand at the same step. In the refinement a job that waits or loads stands at
its checkpoint, so that the end of an attempt, or a load that fails, is a set
back, and a load that succeeds is a stutter; a job that succeeds has `done` set,
and each step by which it ends otherwise sets `cut`. `DataInv` follows the rows: what
was trained on is what `Prepare` gives, in every attempt; `SplitIds` says that a
permutation cut in two loses no row and doubles none, and `EvalCountBounds` that
something is left to train on. `Given` adds that what an attempt holds are the
data and the labels `Prepare` gives, which `LabelsAreKnown` follows through both
branches of it, and that a submitted upload was accepted; with `ScoredRow` this
is `WordsAreScoredOnce`.

**Only model-checked.** The liveness properties `EveryJobEnds`, `ComesBack`,
`GivesBack`, `StopCompletes` and `Terminates`: fairness and `ENABLED` are out of
the prover's reach. Every other property of the passing runs is proved.

## 5. Abstractions

- In `JobService` all jobs have the same number of epochs, `ceil(cfg.epochs)`,
  and the batches of an epoch are one step; a cancel or a stop seen between two
  batches is seen, with the same effect, before the first batch of the next. The
  `done` flag coincides with the last epoch: `Training`, where both are apart,
  shows that they do (`Budget`).
- Any exception of the body may come at any of its steps, before the step's
  effect. Database calls are assumed to succeed, except the `INSERT` of a create;
  one that fails in a handler of `_run_job` or in the loop ends the thread, as a
  log that cannot be written does.
- `rmtree` is one step, and never fails (`ignore_errors`).
- The server finishes the requests in flight before the shutdown runs; uvicorn
  is started without a graceful timeout.
- In `JobService` a checkpoint that does not load (`"unreadable"`) restarts from
  epoch 0; `Training` has what `_load_checkpoint` has restored by then.
- In `Training` the state of the model, the optimizer, the scheduler and the
  random generator is a number of steps: two runs that took the same steps are
  the same. (Of the generators the code saves torch's on the CPU and no other:
  what the GPU draws, for dropout, is not restored.) `epochs` is a number of
  halves in the run, of `1/Unit` in general; `progress` is in steps, without the
  rounding of the column. A checkpoint of 0 epochs stands for none. The save and
  its rename are one step, a cancel that is flagged while the job waits comes
  with the next attempt, and the end of `_run_job` after the evaluation is one
  step: `JobService` has these apart. The locals of an attempt that has ended
  keep their values, which nothing reads.
- In `TrainingData` `eval_split` is a whole percentage, and the product with the
  number of rows is exact; the code multiplies floating-point numbers, so that
  its slice may be one row smaller where the product is a whole number (0.29 of
  100 rows is 28). The bounds the proofs use, at least one row and not all, are
  the code's own tests. Blank lines are left out of a file, and the
  tokenizer puts one special token at either end.
- In `QueueView` an id is reused after its row is gone, standing for a fresh one
  with the same place in the order of ids.
- `GpuArbitration` counts time in polls, and the memory of the GPU is left out:
  `_stop_cotenant` goes on after 30 seconds whatever it reads.

## 6. Not modelled

- The arithmetic of `training.py`: losses, gradients, the learning-rate factor,
  the scores of `_metrics`, `_softmax` and the ROC curves. They are functions of
  tensors of floating-point numbers.
- The choice and the check of the base model (`reinit_head`,
  `_check_load_report`): they depend on what a library reports of its file, and
  keep no state.
- The Pydantic schemas (their ranges are the sets `Training.Configs` and the
  constants of `JobStore`), the configuration (read once; its values are
  CONSTANTS), the read-only endpoints `healthz`, `base-models`, `logs` and
  `artifact` (they format what the store and the disk hold, of which
  `SucceededHasArtifact` and `RowHasInputs` speak), the migration of old
  databases, and the deployment scripts: none keeps state the rest depends on.

## 7. Plan

Done: all the modules above. Next, in order of importance:

1. `GpuService`: `GpuArbitration` composed with an abstraction of the jobs, to
   show that the two loops are one.
2. `Training` composed with the queue: several jobs, each with its own epochs,
   instead of an environment that preempts at will.
3. Proofs about these, and that the epochs of `JobService` are those of
   `Training`.
