------------------------------ MODULE Training ------------------------------
(***************************************************************************)
(* One job from create_job to its last attempt: training.run step by step, *)
(* over the attempts that preemptions, shutdowns and crashes make of it,   *)
(* with the data it is given (TrainingData).  JobService has the same      *)
(* worker seen from the queue, an epoch at a time; here the queue is the   *)
(* environment, which may cancel, stop or preempt the job whenever the     *)
(* loop asks.                                                              *)
(*                                                                         *)
(* Abstractions.  The state of the model, of the optimizer, of the         *)
(* scheduler and of the random generator is the number of steps of one     *)
(* uninterrupted run that it is the result of.  epochs is a number of      *)
(* 1/Unit.  A checkpoint of 0 epochs stands for no checkpoint.  The locals *)
(* of an attempt that has ended keep their values, which nothing reads.    *)
(*                                                                         *)
(* A definition whose comment begins with "Variant" is a faulty form of    *)
(* the one that follows it, kept to test the properties with.              *)
(***************************************************************************)
EXTENDS TrainingData

CONSTANTS
  Jobs,        \* the jobs that may be submitted: uploads and configuration
  Unit,        \* the denominator of the numbers of epochs
  Faults,      \* "unreadable", "incompatible", "stop", "crash", "error"
  MaxSetbacks  \* bound: how often a fault or a shutdown may cost work

Lines == [id : Nat, ok : BOOLEAN, tokens : Nat, pieces : Seq(Nat \ {0}), tags : Seq(Nat)]
Configs == [task : Tasks, train : Seq(Lines), eval : Seq(Lines), order : Seq(Nat \ {0}),
            split : 0..89, batch : Nat \ {0}, evalBatch : Nat \ {0}, maxLength : Nat \ 0..7,
            epochs : Nat \ {0}, every : Nat]

ASSUME JobsAssumption == Jobs \subseteq Configs
\* An id names one line of one file; the seeded shuffle permutes the rows.
ASSUME LinesAssumption == \A j \in Jobs :
  /\ \A i, k \in DOMAIN j.train : j.train[i].id = j.train[k].id => i = k
  /\ \A i \in DOMAIN j.train, k \in DOMAIN j.eval : j.train[i].id # j.eval[k].id
ASSUME OrderAssumption == \A j \in Jobs : j.eval = <<>> =>
  /\ j.order \in [DOMAIN j.train -> DOMAIN j.train] /\ IsInjective(j.order)
  /\ \A i \in DOMAIN j.train : \E k \in DOMAIN j.train : j.order[k] = i

\* The tokenizer makes its pieces of the tokens in their order.
ASSUME PiecesAssumption == \A j \in Jobs : \A row \in ToSet(j.train) \union ToSet(j.eval) :
  \A p, q \in DOMAIN row.pieces :
    row.pieces[p] <= row.tokens /\ (p <= q => row.pieces[p] <= row.pieces[q])

ASSUME UnitAssumption == Unit \in Nat \ {0}
ASSUME SetbacksAssumption == MaxSetbacks \in Nat

VARIABLES
  job,       \* the upload and its configuration
  pc,        \* where the job is; a step of run, or what the store says of it
  data,      \* train_ds, eval_ds and labels of the attempt
  parts,     \* the steps behind each part of the state in memory
  epoch,     \* epochs completed, for the attempt
  batch,     \* batches of the epoch under way
  step,      \* the local of run
  done,      \* the local of run
  yielding,  \* the local of run
  ckpt,      \* checkpoint.pt
  column,    \* the epochs_completed column
  progress,  \* the progress column, in steps
  scored,    \* the tags the model was scored on, by row
  setbacks,  \* how often a fault or a shutdown has cost work
  refused,   \* history: a fault made this attempt refuse its checkpoint
  mixed,     \* history: some attempt kept a part of the one it refused
  trained,   \* history: the rows some attempt has trained on
  cut        \* history: a refusal, a cancel, an exception or a crash has ended the job

memory == <<parts, epoch, batch, step, done, yielding>>
columns == <<column, progress>>
history == <<refused, mixed, trained, cut>>
vars == <<job, pc, data, memory, ckpt, columns, scored, setbacks, history>>

Parts == {"model", "optimizer", "scheduler", "torch_rng"}
Order == <<"model", "optimizer", "scheduler", "torch_rng">>
Fresh == [p \in Parts |-> 0]
NoCkpt == [epochs |-> 0, step |-> 0, labels |-> <<>>, parts |-> Fresh]

Loop == {"epoch", "batch", "boundary", "save", "record", "evaluate"}
Running == Loop \union {"load"}
Waiting == {"queued", "paused"}
Ended == {"rejected", "succeeded", "failed", "cancelled"}

Ceil(a, b) == (a + b - 1) \div b

\* len(train_ds), len(train_loader), total_steps, and the number of epochs that
\* range counts to.
TrainRows ==
  IF job.eval # <<>> THEN Len(job.train) ELSE Len(Split(job.train, job.split, job.order).train)
BatchesPerEpoch == Ceil(TrainRows, job.batch)
TotalSteps == LET t == Ceil(BatchesPerEpoch * job.epochs, Unit) IN IF t < 1 THEN 1 ELSE t
EpochLimit == Ceil(job.epochs, Unit)

Init ==
  /\ job \in Jobs
  /\ pc = "submitted"
  /\ data = [train |-> <<>>, eval |-> <<>>, labels |-> <<>>]
  /\ parts = Fresh
  /\ epoch = 0 /\ batch = 0 /\ step = 0
  /\ done = FALSE /\ yielding = FALSE
  /\ ckpt = NoCkpt
  /\ column = 0 /\ progress = 0
  /\ scored = <<>>
  /\ setbacks = 0
  /\ refused = FALSE /\ mixed = FALSE /\ trained = {} /\ cut = FALSE

Fault(f) == f \in Faults /\ setbacks < MaxSetbacks /\ setbacks' = setbacks + 1

-----------------------------------------------------------------------------
(* create_job, and the start of an attempt in _run_job *)

Submit ==
  /\ pc = "submitted"
  /\ pc' = IF /\ Accepts(job.train, job.task)
              /\ job.eval # <<>> => Accepts(job.eval, job.task)
           THEN "queued" ELSE "rejected"
  /\ cut' = (pc' = "rejected")
  /\ UNCHANGED <<job, data, memory, ckpt, columns, scored, setbacks, refused, mixed, trained>>

Attempt ==
  /\ pc \in Waiting
  /\ pc' = "load"
  /\ parts' = Fresh
  /\ epoch' = 0 /\ batch' = 0 /\ step' = 0
  /\ done' = FALSE /\ yielding' = FALSE /\ refused' = FALSE
  /\ trained' = trained \union {data'.train[i].id : i \in DOMAIN data'.train}
  /\ UNCHANGED <<job, ckpt, columns, scored, setbacks, mixed, cut>>

\* Variant: the labels come in the order of a set, another in each process.
BeginUnsorted ==
  /\ \E labels \in SetToSeqs(ToSet(Prepare(job).labels)) :
       data' = [Prepare(job) EXCEPT !.labels = labels]
  /\ Attempt

\* Variant: the shuffle that splits is not seeded.
BeginUnseeded ==
  /\ \E shuffle \in {job.order, Reverse(job.order)} :
       data' = Prepare([job EXCEPT !.order = shuffle])
  /\ Attempt

Begin ==
  /\ data' = Prepare(job)
  /\ Attempt

-----------------------------------------------------------------------------
(* _load_checkpoint *)

HasCheckpoint == ckpt.epochs > 0

\* No checkpoint, or another list of labels.
StartFresh ==
  /\ pc = "load"
  /\ ~HasCheckpoint \/ ckpt.labels # data.labels
  /\ pc' = "epoch"
  /\ UNCHANGED <<job, data, memory, ckpt, columns, scored, setbacks, history>>

\* torch.load raises.
Unreadable ==
  /\ pc = "load" /\ HasCheckpoint
  /\ Fault("unreadable")
  /\ pc' = "epoch" /\ refused' = TRUE
  /\ UNCHANGED <<job, data, memory, ckpt, columns, scored, mixed, trained, cut>>

\* Variant: the scheduler is not restored.
ResumeUnscheduled ==
  /\ pc = "load" /\ HasCheckpoint /\ ckpt.labels = data.labels
  /\ pc' = "epoch"
  /\ parts' = [ckpt.parts EXCEPT !["scheduler"] = 0]
  /\ epoch' = ckpt.epochs /\ step' = ckpt.step
  /\ progress' = step'
  /\ UNCHANGED <<job, data, batch, done, yielding, ckpt, column, scored, setbacks, history>>

Resume ==
  /\ pc = "load" /\ HasCheckpoint /\ ckpt.labels = data.labels
  /\ pc' = "epoch"
  /\ parts' = ckpt.parts
  /\ epoch' = ckpt.epochs /\ step' = ckpt.step
  /\ progress' = IF step' < TotalSteps THEN step' ELSE TotalSteps
  /\ UNCHANGED <<job, data, batch, done, yielding, ckpt, column, scored, setbacks, history>>

\* The k-th load raises, perhaps with its part already copied (as
\* load_state_dict of a model does); start_epoch and step stay 0.
Incompatible ==
  /\ pc = "load" /\ HasCheckpoint /\ ckpt.labels = data.labels
  /\ Fault("incompatible")
  /\ pc' = "epoch" /\ refused' = TRUE
  /\ \E k \in 0..3 :
       parts' = [p \in Parts |-> IF \E i \in 1..k : Order[i] = p THEN ckpt.parts[p] ELSE 0]
  /\ mixed' = (mixed \/ parts' # Fresh)
  /\ UNCHANGED <<job, data, epoch, batch, step, done, yielding, ckpt, columns, scored,
                 trained, cut>>

Load == StartFresh \/ Unreadable \/ Resume \/ Incompatible

-----------------------------------------------------------------------------
(* run: the two loops *)

\* Variant: range stops at the whole epochs.
EpochTestFloor ==
  /\ pc = "epoch"
  /\ pc' = IF epoch >= job.epochs \div Unit \/ done THEN "evaluate" ELSE "batch"
  /\ UNCHANGED <<job, data, memory, ckpt, columns, scored, setbacks, history>>

EpochTest ==
  /\ pc = "epoch"
  /\ pc' = IF epoch >= EpochLimit \/ done THEN "evaluate" ELSE "batch"
  /\ UNCHANGED <<job, data, memory, ckpt, columns, scored, setbacks, history>>

\* should_cancel() before a batch; the checkpoint is purged with the status.
BatchCancelled ==
  /\ pc = "batch"
  /\ pc' = "cancelled" /\ ckpt' = NoCkpt /\ cut' = TRUE
  /\ UNCHANGED <<job, data, memory, columns, scored, setbacks, refused, mixed, trained>>

\* should_stop() before a batch.
BatchInterrupted ==
  /\ pc = "batch"
  /\ Fault("stop")
  /\ pc' = "paused"
  /\ UNCHANGED <<job, data, memory, ckpt, columns, scored, history>>

Batch ==
  /\ pc = "batch"
  /\ parts' = [p \in Parts |-> parts[p] + 1]
  /\ step' = step + 1
  /\ progress' = step'
  /\ batch' = batch + 1
  /\ done' = (step' >= TotalSteps)
  /\ pc' = IF done' \/ batch' >= BatchesPerEpoch THEN "boundary" ELSE "batch"
  /\ UNCHANGED <<job, data, epoch, yielding, ckpt, column, scored, setbacks, history>>

\* Variant: an exhausted budget does not rule a checkpoint out.
CanCheckpointDone == job.every > 0

CanCheckpoint == job.every > 0 /\ ~done

\* Variant: a yield off the interval writes no checkpoint.
BoundaryUnforced ==
  /\ pc = "boundary"
  /\ epoch' = epoch + 1 /\ batch' = 0
  /\ \E wanted \in BOOLEAN : yielding' = (CanCheckpoint /\ wanted)
  /\ pc' = IF CanCheckpoint /\ epoch' % job.every = 0 THEN "save"
           ELSE IF yielding' THEN "paused" ELSE "epoch"
  /\ UNCHANGED <<job, data, parts, step, done, ckpt, columns, scored, setbacks, history>>

\* wanted is the answer of should_yield().
Boundary ==
  /\ pc = "boundary"
  /\ epoch' = epoch + 1 /\ batch' = 0
  /\ \E wanted \in BOOLEAN : yielding' = (CanCheckpoint /\ wanted)
  /\ pc' = IF yielding' \/ (CanCheckpoint /\ epoch' % job.every = 0) THEN "save" ELSE "epoch"
  /\ UNCHANGED <<job, data, parts, step, done, ckpt, columns, scored, setbacks, history>>

Save ==
  /\ pc = "save"
  /\ ckpt' = [epochs |-> epoch, step |-> step, labels |-> data.labels, parts |-> parts]
  /\ pc' = "record"
  /\ UNCHANGED <<job, data, memory, columns, scored, setbacks, history>>

\* on_checkpoint, and Preempted.
Record ==
  /\ pc = "record"
  /\ column' = epoch
  /\ pc' = IF yielding THEN "paused" ELSE "epoch"
  /\ UNCHANGED <<job, data, memory, ckpt, progress, scored, setbacks, history>>

\* label2id has the labels of the rows that are scored; the one label of a
\* regression row is a number, and is looked up nowhere.
Known ==
  job.task = "regression" \/
  \A i \in DOMAIN data.eval : ToSet(data.eval[i].tags) \subseteq ToSet(data.labels)

\* Evaluation, the model on disk, and the end of _run_job; a label that is not
\* in label2id is a KeyError.
Evaluate ==
  /\ pc = "evaluate"
  /\ ckpt' = NoCkpt
  /\ IF Known
     THEN /\ pc' = "succeeded" /\ progress' = TotalSteps
          /\ scored' = IF job.task # "token" \/ data.eval = <<>> THEN <<>>
                       ELSE TrueSeqs(Gold(data.eval, data.labels, job.maxLength, job.evalBatch),
                                     data.labels)
     ELSE pc' = "failed" /\ UNCHANGED <<progress, scored>>
  /\ UNCHANGED <<job, data, memory, column, setbacks, history>>

Run == EpochTest \/ BatchCancelled \/ Batch \/ Boundary \/ Save \/ Record \/ Evaluate

-----------------------------------------------------------------------------
(* What else may end an attempt *)

\* Any exception: _run_job records a failure and purges the checkpoint.
Raise ==
  /\ "error" \in Faults
  /\ pc \in Running
  /\ pc' = "failed" /\ ckpt' = NoCkpt /\ cut' = TRUE
  /\ UNCHANGED <<job, data, memory, columns, scored, setbacks, refused, mixed, trained>>

\* The process dies; recover_interrupted decides when it is back.
Crash ==
  /\ pc \in Running
  /\ Fault("crash")
  /\ pc' = IF HasCheckpoint THEN "paused" ELSE "failed"
  /\ yielding' = FALSE /\ cut' = (cut \/ ~HasCheckpoint)
  /\ UNCHANGED <<job, data, parts, epoch, batch, step, done, ckpt, columns, scored,
                 refused, mixed, trained>>

Finished == pc \in Ended /\ UNCHANGED vars

Next == Submit \/ Begin \/ Load \/ Run \/ BatchInterrupted \/ Raise \/ Crash \/ Finished

\* The worker thread is scheduled, and a waiting job is claimed in the end: an
\* assumption, that more urgent jobs do not arrive for ever and that the thread
\* is alive.  Under it JobProperties has EveryJobEnds.
Spec == Init /\ [][Next]_vars /\ WF_vars(Submit \/ Begin \/ Load \/ Run)
-----------------------------------------------------------------------------
(* Properties *)

TypeOK ==
  /\ job \in Jobs
  /\ pc \in Running \union Waiting \union Ended \union {"submitted"}
  /\ parts \in [Parts -> Nat]
  /\ epoch \in 0..EpochLimit
  /\ batch \in 0..BatchesPerEpoch
  /\ step \in 0..TotalSteps
  /\ done \in BOOLEAN /\ yielding \in BOOLEAN
  /\ ckpt.epochs \in 0..(EpochLimit - 1)
  /\ ckpt.step \in 0..(TotalSteps - 1)
  /\ ckpt.parts \in [Parts -> Nat]
  /\ column \in 0..(EpochLimit - 1)
  /\ progress \in 0..TotalSteps
  /\ setbacks \in 0..MaxSetbacks
  /\ refused \in BOOLEAN /\ mixed \in BOOLEAN /\ cut \in BOOLEAN

\* The point of an uninterrupted run at which e epochs and b batches are over.
Point(e, b) ==
  LET p == e * BatchesPerEpoch + b IN IF p < TotalSteps THEN p ELSE TotalSteps

\* Model, optimizer, learning-rate schedule, random generator, step counter and
\* epoch are all at the same point of one run, in memory and in the checkpoint,
\* however many attempts it took (training.py: an epoch boundary "is where a
\* checkpoint is coherent"; architecture.md: "Resuming restores model,
\* optimizer, scheduler, and RNG").
OneRun ==
  /\ pc \in Loop =>
       step = (IF done THEN TotalSteps ELSE Point(epoch, batch))
  /\ HasCheckpoint => ckpt.step = Point(ckpt.epochs, 0)
  /\ ~mixed =>
       \A p \in Parts : /\ pc \in Loop => parts[p] = step
                        /\ HasCheckpoint => ckpt.parts[p] = ckpt.step

\* No attempt trains an epoch again that a checkpoint on disk has, unless that
\* checkpoint failed to load: the labels, above all, come out the same way in
\* every process, or the checkpoint would be ignored.
NothingRedone ==
  pc \in Loop /\ ~refused => epoch >= ckpt.epochs

\* A preempted job waits with its last epoch in the checkpoint and both columns
\* true (architecture.md: "keeps its checkpoint, progress and
\* epochs_completed"), whatever its interval.
PreemptedKeepsAll ==
  pc = "paused" /\ yielding =>
    ckpt.epochs = epoch /\ column = epoch /\ ckpt.step = progress

\* Whatever label the training or the evaluation rows carry, the model has an
\* output for it, unless it is the number of a regression (data-formats.md: a
\* label that appears only in eval "will not crash scoring"); O is the first
\* output where tokens are classified.
LabelsKnown ==
  /\ \A i \in DOMAIN data.train : ToSet(data.train[i].tags) \subseteq ToSet(data.labels)
                                 \/ job.task = "regression"
  /\ Known
  /\ job.task = "token" /\ Outside \in ToSet(data.labels) => data.labels[1] = Outside

\* No row is both trained on and evaluated on, in whichever attempts, and none
\* of the file is dropped; a job that evaluates also trains.
NoLeak ==
  LET eval == {data.eval[i].id : i \in DOMAIN data.eval}
  IN  /\ trained \intersect eval = {}
      /\ pc \in Loop => trained \union eval = {r.id : r \in ToSet(job.train) \union ToSet(job.eval)}
      /\ pc \in Loop => data.train # <<>>

\* The words of a row of which truncation leaves a piece.
SeenWords(row) == Ascending(ToSet(KeptPieces(row, job.maxLength)))

\* Every word the model saw is scored once, by its own tag, and nothing else is:
\* neither special tokens, nor further pieces, nor the padding of a batch or of
\* the whole set (data-formats.md: "excluded from both loss and metrics").
WordsScoredOnce ==
  pc = "succeeded" /\ job.task = "token" =>
    scored = [r \in DOMAIN data.eval |->
               LET seen == SeenWords(data.eval[r])
               IN  [i \in DOMAIN seen |-> data.eval[r].tags[seen[i]]]]

\* The attempts together are one run of total_steps steps (ResumableRun).  A
\* job that waits or loads stands at its checkpoint.  A job that ends is finished,
\* or something has cut it short: "failed" is no phase of a run.
RunPhase ==
  IF mixed THEN "spoiled"
  ELSE IF pc \notin Ended THEN "going"
  ELSE IF pc = "succeeded" THEN "finished"
  ELSE IF cut THEN "dropped" ELSE "failed"

Ours == RunPhase = "going"

OneJob == INSTANCE ResumableRun WITH
  total <- TotalSteps,
  done <- IF ~Ours THEN 0 ELSE IF pc \in Loop THEN parts["model"] ELSE ckpt.step,
  saved <- IF Ours THEN ckpt.step ELSE 0,
  phase <- RunPhase

RunSpec == OneJob!Spec

\* A job ends however often it is preempted: every attempt that yields has
\* taken the epoch it yields after to the checkpoint (configuration.md: a job
\* with a longer interval is still preempted).
Terminates == <>(pc \in Ended)

-----------------------------------------------------------------------------
(* What a log line of the code says of every attempt; refuted by the code. *)

\* training.py:132: "checkpoint incompatible (...); starting from scratch".
StartsFromScratch ==
  pc \in Loop /\ refused => \A p \in Parts : parts[p] = step

=============================================================================
