--------------------------- MODULE TrainingProofs ---------------------------
(***************************************************************************)
(* Proofs about Training, for any jobs, any number of rows, batches and    *)
(* epochs, whole or not, any number of setbacks and any combination of     *)
(* faults.                                                                 *)
(*                                                                         *)
(* The arithmetic comes first: the steps of a run end in its last epoch,   *)
(* neither before nor after it.  The inductive invariant then says where   *)
(* an attempt stands in its run at each step of the loop (Place), what the *)
(* checkpoint and the columns keep of it (Kept), and that all parts of the *)
(* state stand there together (Together); from it follows, step by step,   *)
(* that the attempts implement ResumableRun.  DataInv, apart, follows the  *)
(* rows.                                                                   *)
(***************************************************************************)
EXTENDS Training, TrainingDataProofs, TLAPS

-----------------------------------------------------------------------------
(* Arithmetic *)

\* Rounding up.
LEMMA CeilBounds ==
  ASSUME NEW a \in Nat, NEW b \in Nat \ {0}
  PROVE  /\ Ceil(a, b) \in Nat
         /\ a <= b * Ceil(a, b)
         /\ b * Ceil(a, b) < a + b
  BY DEF Ceil

\* Multiplying by a positive number keeps a strict order ...
LEMMA Cancel ==
  ASSUME NEW x \in Nat, NEW y \in Nat, NEW u \in Nat \ {0}, u * x < u * y
  PROVE  x < y
  <1>1. SUFFICES ASSUME x >= y PROVE FALSE
    OBVIOUS
  <1>2. PICK d \in Nat : x = y + d
    BY <1>1
  <1>3. u * x = u * y + u * d
    BY <1>2
  <1>4. u * d >= 0
    OBVIOUS
  <1>. QED
    BY <1>3, <1>4

\* ... and a weak one.
LEMMA Scale ==
  ASSUME NEW x \in Nat, NEW y \in Nat, NEW u \in Nat, x <= y
  PROVE  u * x <= u * y
  <1>1. PICK d \in Nat : y = x + d
    OBVIOUS
  <1>2. u * y = u * x + u * d /\ u * d >= 0
    BY <1>1
  <1>. QED
    BY <1>2

\* A positive number has a positive rounding up.
LEMMA CeilPositive ==
  ASSUME NEW a \in Nat \ {0}, NEW b \in Nat \ {0}
  PROVE  Ceil(a, b) >= 1
  <1>1. a <= b * Ceil(a, b) /\ Ceil(a, b) \in Nat
    BY CeilBounds
  <1>2. CASE Ceil(a, b) = 0
    BY <1>1, <1>2
  <1>. QED
    BY <1>1, <1>2

\* The steps of n/u epochs of l batches fill the last epoch that range counts
\* to, in part or whole, and every epoch before it whole.
LEMMA LastEpoch ==
  ASSUME NEW l \in Nat \ {0}, NEW n \in Nat \ {0}, NEW u \in Nat \ {0}
  PROVE  /\ Ceil(l * n, u) <= l * Ceil(n, u)
         /\ \A e \in Nat : e < Ceil(n, u) => l * e < Ceil(l * n, u)
  <1> DEFINE m == Ceil(n, u)
             t == Ceil(l * n, u)
  <1>1. m \in Nat /\ n <= u * m /\ u * m < n + u
    BY CeilBounds
  <1>2. l * n \in Nat
    OBVIOUS
  <1>3. t \in Nat /\ l * n <= u * t /\ u * t < l * n + u
    BY <1>2, CeilBounds
  <1> HIDE DEF m, t
  <1>4. t <= l * m
    <2>1. l * n <= l * (u * m)
      BY <1>1, Scale
    <2>2. l * (u * m) = u * (l * m)
      BY <1>1
    <2>3. u * t < u * (l * m) + u
      BY <1>1, <1>2, <1>3, <2>1, <2>2
    <2>4. u * t < u * (l * m + 1)
      BY <1>1, <1>3, <2>3
    <2>5. t < l * m + 1
      BY <1>1, <1>3, <2>4, Cancel
    <2>. QED
      BY <1>1, <1>3, <2>5
  <1>5. ASSUME NEW e \in Nat, e < m PROVE l * e < t
    <2>1. u * (e + 1) <= u * m
      BY <1>1, <1>5, Scale
    <2>2. u * e < n
      BY <1>1, <2>1
    <2>3. l * (u * e) < l * n
      <3>1. PICK d \in Nat \ {0} : n = u * e + d
        BY <2>2
      <3>2. l * n = l * (u * e) + l * d
        BY <3>1
      <3>3. l * d > 0
        OBVIOUS
      <3>. QED
        BY <3>2, <3>3
    <2>4. l * (u * e) = u * (l * e)
      OBVIOUS
    <2>5. u * (l * e) < u * t
      BY <1>2, <1>3, <2>3, <2>4
    <2>. QED
      BY <1>3, <2>5, Cancel
  <1>. QED
    BY <1>4, <1>5 DEF m, t

-----------------------------------------------------------------------------
(* The rows and the steps of a job *)

\* Some rows are held out, and some are not.
THEOREM EvalCountBounds ==
  ASSUME NEW n \in Nat, n >= 4, NEW percent \in 1..89
  PROVE  EvalCount(n, percent) \in 1..(n - 1)
  <1> DEFINE k == (n * percent) \div 100
  <1>1. n * percent \in Nat
    OBVIOUS
  <1>2. k \in Nat /\ 100 * k <= n * percent
    BY <1>1
  <1>3. n * percent <= n * 89
    BY Scale
  <1>4. 100 * k <= n * 89
    BY <1>1, <1>2, <1>3
  <1> HIDE DEF k
  <1>5. k <= n - 1
    BY <1>2, <1>4
  <1>6. EvalCount(n, percent) = IF k < 1 THEN 1 ELSE k
    BY DEF EvalCount, k
  <1>. QED
    BY <1>2, <1>5, <1>6

\* A function on 1..m is a sequence of m elements.
LEMMA LenOfSlice ==
  ASSUME NEW m \in Nat, NEW f, f = [i \in 1..m |-> f[i]]
  PROVE  Len(f) = m
  <1>1. f \in [1..m -> {f[i] : i \in 1..m}]
    OBVIOUS
  <1>2. f \in Seq({f[i] : i \in 1..m})
    BY <1>1
  <1>. QED
    BY <1>1, <1>2

\* A split leaves rows to train on.
LEMMA SplitTrains ==
  ASSUME NEW S, NEW rows \in Seq(S), NEW percent \in 0..89, NEW order
  PROVE  /\ Len(Split(rows, percent, order).train) \in Nat
         /\ rows # <<>> => Len(Split(rows, percent, order).train) >= 1
  <1> DEFINE n == Len(rows)
             k == EvalCount(n, percent)
             f == [i \in 1..(n - k) |-> rows[order[k + i]]]
  <1>1. n \in Nat /\ (rows # <<>> => n >= 1)
    OBVIOUS
  <1>2. CASE percent = 0 \/ n < 4 \/ n - k < 1
    BY <1>1, <1>2 DEF Split
  <1>3. CASE ~(percent = 0 \/ n < 4 \/ n - k < 1)
    <2>0. percent \in 1..89 /\ n >= 4
      BY <1>1, <1>3
    <2>1. k \in 1..(n - 1)
      BY <1>1, <2>0, EvalCountBounds
    <2>2. Split(rows, percent, order).train = f
      BY <1>3 DEF Split
    <2> HIDE DEF k
    <2>3. n - k \in Nat /\ n - k >= 1
      BY <1>1, <2>1
    <2>4. f = [i \in 1..(n - k) |-> f[i]]
      OBVIOUS
    <2> HIDE DEF f
    <2>5. Len(f) = n - k
      BY <2>3, <2>4, LenOfSlice
    <2>. QED
      BY <2>2, <2>3, <2>5
  <1>. QED
    BY <1>2, <1>3

\* The types of a job's configuration.
LEMMA JobTypes ==
  ASSUME job \in Jobs
  PROVE  /\ job.epochs \in Nat \ {0} /\ job.every \in Nat /\ job.batch \in Nat \ {0}
         /\ TrainRows \in Nat
         /\ job.train # <<>> => TrainRows >= 1
  <1>1. job \in Configs
    BY JobsAssumption
  <1>2. /\ job.epochs \in Nat \ {0} /\ job.every \in Nat /\ job.batch \in Nat \ {0}
        /\ job.split \in 0..89
    BY <1>1 DEF Configs
  <1>3. PICK S : job.train \in Seq(S)
    BY <1>1 DEF Configs
  <1>4. /\ Len(Split(job.train, job.split, job.order).train) \in Nat
        /\ job.train # <<>> => Len(Split(job.train, job.split, job.order).train) >= 1
    BY <1>2, <1>3, SplitTrains
  <1>5. Len(job.train) \in Nat /\ (job.train # <<>> => Len(job.train) >= 1)
    BY <1>3
  <1>. QED
    BY <1>2, <1>4, <1>5 DEF TrainRows

\* total_steps is reached in the last epoch, and not before.
LEMMA Budget ==
  ASSUME job \in Jobs
  PROVE  /\ BatchesPerEpoch \in Nat
         /\ TotalSteps \in Nat \ {0}
         /\ EpochLimit \in Nat \ {0}
         /\ TrainRows >= 1 =>
              /\ BatchesPerEpoch >= 1
              /\ \A e \in Nat : e * BatchesPerEpoch < TotalSteps <=> e < EpochLimit
  <1> DEFINE l == BatchesPerEpoch
             n == job.epochs
  <1>1. n \in Nat \ {0} /\ job.batch \in Nat \ {0} /\ TrainRows \in Nat
    BY JobTypes
  <1>2. l \in Nat
    BY <1>1, CeilBounds DEF BatchesPerEpoch
  <1>3. l * n \in Nat
    BY <1>1, <1>2
  <1>4. Ceil(l * n, Unit) \in Nat
    BY <1>3, UnitAssumption, CeilBounds
  <1>5. TotalSteps = IF Ceil(l * n, Unit) < 1 THEN 1 ELSE Ceil(l * n, Unit)
    BY DEF TotalSteps
  <1>6. EpochLimit = Ceil(n, Unit) /\ EpochLimit \in Nat /\ EpochLimit >= 1
    BY <1>1, UnitAssumption, CeilBounds, CeilPositive DEF EpochLimit
  <1>7. ASSUME TrainRows >= 1
        PROVE  l >= 1 /\ \A e \in Nat : e * l < TotalSteps <=> e < EpochLimit
    <2>1. l >= 1
      BY <1>1, <1>7, CeilPositive DEF BatchesPerEpoch
    <2> HIDE DEF l, n
    <2>2. l * n >= 1
      BY <1>1, <1>2, <2>1
    <2>3. TotalSteps = Ceil(l * n, Unit)
      BY <1>3, <1>4, <1>5, <2>2, UnitAssumption, CeilPositive
    <2>4. l \in Nat \ {0} /\ n \in Nat \ {0} /\ Unit \in Nat \ {0}
      BY <1>1, <1>2, <2>1, UnitAssumption
    <2>5. /\ Ceil(l * n, Unit) <= l * Ceil(n, Unit)
          /\ \A e \in Nat : e < Ceil(n, Unit) => l * e < Ceil(l * n, Unit)
      BY ONLY <2>4, LastEpoch
    <2>6. /\ TotalSteps <= l * EpochLimit
          /\ \A e \in Nat : e < EpochLimit => l * e < TotalSteps
      BY <1>6, <2>3, <2>5
    <2>7. ASSUME NEW e \in Nat, e >= EpochLimit PROVE ~(e * l < TotalSteps)
      <3>1. l * EpochLimit <= l * e
        BY <1>2, <1>6, <2>7, Scale
      <3>. QED
        BY <1>2, <1>4, <1>6, <2>3, <2>6, <3>1
    <2>. QED
      BY <1>2, <1>6, <2>1, <2>6, <2>7
  <1>. QED
    BY <1>2, <1>4, <1>5, <1>6, <1>7

\* None of these changes, since the job does not.
LEMMA SameJob ==
  ASSUME job' = job
  PROVE  /\ TrainRows' = TrainRows /\ BatchesPerEpoch' = BatchesPerEpoch
         /\ TotalSteps' = TotalSteps /\ EpochLimit' = EpochLimit
  BY DEF TrainRows, BatchesPerEpoch, TotalSteps, EpochLimit

-----------------------------------------------------------------------------
(* The inductive invariant *)

TypeInv ==
  /\ job \in Jobs
  /\ pc \in Running \union Waiting \union Ended \union {"submitted"}
  /\ parts \in [Parts -> Nat]
  /\ epoch \in Nat /\ batch \in Nat /\ step \in Nat
  /\ done \in BOOLEAN /\ yielding \in BOOLEAN
  /\ ckpt.epochs \in Nat /\ ckpt.step \in Nat /\ ckpt.parts \in [Parts -> Nat]
  /\ column \in Nat /\ progress \in Nat
  /\ setbacks \in 0..MaxSetbacks
  /\ refused \in BOOLEAN /\ mixed \in BOOLEAN /\ cut \in BOOLEAN
  /\ pc \notin {"submitted", "rejected"} => TrainRows >= 1

\* Where an attempt stands in the run.
Place ==
  /\ pc = "load" =>
       /\ parts = Fresh /\ epoch = 0 /\ batch = 0 /\ step = 0
       /\ ~done /\ ~yielding /\ ~refused
  /\ pc \in Loop =>
       /\ done => step = TotalSteps
       /\ ~done => step = epoch * BatchesPerEpoch + batch /\ step < TotalSteps
       /\ yielding => pc \in {"save", "record"}
  /\ pc \in {"batch", "save", "record"} => ~done
  /\ pc = "evaluate" => done
  /\ pc \in {"epoch", "save", "record", "evaluate"} => batch = 0
  /\ pc = "batch" => batch < BatchesPerEpoch
  /\ pc = "boundary" => epoch < EpochLimit /\ (done \/ batch = BatchesPerEpoch)
  /\ pc \in {"save", "record"} => epoch > 0
  /\ epoch <= EpochLimit /\ batch <= BatchesPerEpoch /\ step <= TotalSteps

\* What the checkpoint and the columns keep of the run.
Kept ==
  /\ ~HasCheckpoint => ckpt.step = 0
  /\ HasCheckpoint =>
       /\ pc # "submitted"
       /\ ckpt.step = ckpt.epochs * BatchesPerEpoch
       /\ ckpt.step < TotalSteps
       /\ ckpt.labels = Prepare(job).labels
  /\ ckpt.epochs < EpochLimit
  /\ pc \in Running => data = Prepare(job)
  /\ pc \in Loop /\ ~refused => epoch >= ckpt.epochs
  /\ column < EpochLimit
  /\ progress <= TotalSteps
  /\ pc \in {"boundary", "save", "record"} => progress = step
  /\ pc = "record" => ckpt.epochs = epoch /\ ckpt.step = step
  /\ PreemptedKeepsAll

\* All parts of the state stand at one point.
Together ==
  ~mixed => \A p \in Parts : /\ pc \in Loop => parts[p] = step
                            /\ ckpt.parts[p] = ckpt.step

IInv == TypeInv /\ Place /\ Kept /\ Together

-----------------------------------------------------------------------------
(* Types *)

\* The initial state is typed.
LEMMA InitTypeInv == Init => TypeInv
  <1> SUFFICES ASSUME Init PROVE TypeInv
    OBVIOUS
  <1>1. parts \in [Parts -> Nat]
    BY DEF Init, Fresh
  <1>2. ckpt.epochs \in Nat /\ ckpt.step \in Nat /\ ckpt.parts \in [Parts -> Nat]
    <2>1. Fresh \in [Parts -> Nat]
      BY DEF Fresh
    <2>. QED
      BY <2>1 DEF Init, NoCkpt
  <1>3. setbacks \in 0..MaxSetbacks
    BY SetbacksAssumption DEF Init
  <1>. QED
    BY <1>1, <1>2, <1>3 DEF Init, TypeInv

\* Every step keeps the types; a job that is accepted has rows.
LEMMA NextTypeInv == TypeInv /\ [Next]_vars => TypeInv'
  <1> SUFFICES ASSUME TypeInv, [Next]_vars PROVE TypeInv'
    OBVIOUS
  <1> USE DEF TypeInv, Running, Loop, Waiting, Ended
  <1>0. job' = job
    BY DEF Next, Load, Run, Submit, Begin, Attempt, StartFresh, Unreadable, Resume, Incompatible,
       EpochTest, BatchCancelled, Batch, Boundary, Save, Record, Evaluate, BatchInterrupted,
       Raise, Crash, Finished, vars
  <1>1. TrainRows' = TrainRows
    BY <1>0, SameJob
  <1>2. \A f : Fault(f) => setbacks' \in 0..MaxSetbacks
    BY SetbacksAssumption DEF Fault
  <1>3. TotalSteps \in Nat
    BY Budget
  <1>4. Fresh \in [Parts -> Nat]
    BY DEF Fresh
  <1>5. NoCkpt.epochs \in Nat /\ NoCkpt.step \in Nat /\ NoCkpt.parts \in [Parts -> Nat]
    BY DEF NoCkpt, Fresh
  <1>6. CASE Submit
    BY <1>6, <1>0, <1>1, JobTypes DEF Submit, Accepts, memory, columns, history
  <1>7. CASE Begin
    BY <1>7, <1>0, <1>1, <1>4 DEF Begin, Attempt, columns
  <1>8. CASE StartFresh
    BY <1>8, <1>1 DEF StartFresh, memory, columns, history
  <1>9. CASE Unreadable
    BY <1>9, <1>1, <1>2 DEF Unreadable, memory, columns
  <1>10. CASE Resume
    BY <1>10, <1>1, <1>3 DEF Resume, history
  <1>11. CASE EpochTest
    BY <1>11, <1>1 DEF EpochTest, memory, columns, history
  <1>12. CASE BatchCancelled
    BY <1>12, <1>1, <1>5 DEF BatchCancelled, memory, columns, history
  <1>13. CASE Batch
    BY <1>13, <1>1 DEF Batch, history
  <1>14. CASE Boundary
    BY <1>14, <1>1 DEF Boundary, columns, history
  <1>15. CASE Save
    BY <1>15, <1>1 DEF Save, memory, columns, history
  <1>16. CASE Record
    BY <1>16, <1>1 DEF Record, memory, history
  <1>17. CASE Evaluate
    BY <1>17, <1>1, <1>3, <1>5 DEF Evaluate, memory, history
  <1>18. CASE BatchInterrupted
    BY <1>18, <1>1, <1>2 DEF BatchInterrupted, memory, columns, history
  <1>19. CASE Raise
    BY <1>19, <1>1, <1>5 DEF Raise, memory, columns, history
  <1>20. CASE Crash
    BY <1>20, <1>1, <1>2 DEF Crash, columns, history
  <1>21. CASE Finished
    BY <1>21, <1>1 DEF Finished, vars, memory, columns, history
  <1>22. CASE Incompatible
    <2>1. parts' \in [Parts -> Nat] /\ mixed' \in BOOLEAN
      BY <1>22 DEF Incompatible
    <2>. QED
      BY <1>22, <1>1, <1>2, <2>1 DEF Incompatible, columns
  <1>23. CASE UNCHANGED vars
    BY <1>23, <1>1 DEF vars, memory, columns, history
  <1>. QED
    BY <1>6, <1>7, <1>8, <1>9, <1>10, <1>11, <1>12, <1>13, <1>14, <1>15, <1>16, <1>17, <1>18,
       <1>19, <1>20, <1>21, <1>22, <1>23 DEF Next, Load, Run

-----------------------------------------------------------------------------
(* The invariant is inductive *)

\* A job that has not run stands nowhere and has kept nothing.
LEMMA InitRest == Init => Place /\ Kept /\ Together
  <1> SUFFICES ASSUME Init PROVE Place /\ Kept /\ Together
    OBVIOUS
  <1>1. /\ BatchesPerEpoch \in Nat /\ TotalSteps \in Nat \ {0} /\ EpochLimit \in Nat \ {0}
    BY Budget DEF Init
  <1>2. ckpt.epochs = 0 /\ ckpt.step = 0 /\ \A p \in Parts : ckpt.parts[p] = 0
    BY DEF Init, NoCkpt, Fresh
  <1>3. Place
    BY <1>1 DEF Init, Place, Loop
  <1>4. Kept
    BY <1>1, <1>2 DEF Init, Kept, HasCheckpoint, Running, Loop, PreemptedKeepsAll
  <1>5. Together
    BY <1>2 DEF Init, Together, Loop
  <1>. QED
    BY <1>3, <1>4, <1>5

\* Facts about the job of which every step needs some.
LEMMA StepFacts ==
  ASSUME TypeInv, [Next]_vars
  PROVE  /\ BatchesPerEpoch \in Nat /\ TotalSteps \in Nat \ {0} /\ EpochLimit \in Nat \ {0}
         /\ pc \in Running \union Waiting =>
              /\ BatchesPerEpoch >= 1
              /\ \A e \in Nat : e * BatchesPerEpoch < TotalSteps <=> e < EpochLimit
         /\ job' = job /\ BatchesPerEpoch' = BatchesPerEpoch
         /\ TotalSteps' = TotalSteps /\ EpochLimit' = EpochLimit
  <1>1. job' = job
    BY DEF Next, Load, Run, Submit, Begin, Attempt, StartFresh, Unreadable, Resume, Incompatible,
       EpochTest, BatchCancelled, Batch, Boundary, Save, Record, Evaluate, BatchInterrupted,
       Raise, Crash, Finished, vars
  <1>2. pc \in Running \union Waiting => TrainRows >= 1
    BY DEF TypeInv, Running, Loop, Waiting
  <1>. QED
    BY <1>1, <1>2, Budget, SameJob DEF TypeInv

\* Every step leaves an attempt where it stands in its run.
LEMMA NextPlace == TypeInv /\ Place /\ Kept /\ [Next]_vars => Place'
  <1> SUFFICES ASSUME TypeInv, Place, Kept, [Next]_vars PROVE Place'
    OBVIOUS
  <1>1. /\ BatchesPerEpoch \in Nat /\ TotalSteps \in Nat \ {0} /\ EpochLimit \in Nat \ {0}
        /\ pc \in Running \union Waiting => BatchesPerEpoch >= 1
        /\ job' = job /\ BatchesPerEpoch' = BatchesPerEpoch
        /\ TotalSteps' = TotalSteps /\ EpochLimit' = EpochLimit
    BY StepFacts
  <1>2. /\ epoch \in Nat /\ batch \in Nat /\ step \in Nat /\ column \in Nat /\ progress \in Nat
        /\ ckpt.epochs \in Nat /\ ckpt.step \in Nat
        /\ done \in BOOLEAN /\ yielding \in BOOLEAN /\ refused \in BOOLEAN /\ mixed \in BOOLEAN
    BY DEF TypeInv
  <1>3. ASSUME NEW e \in Nat, pc \in Running
       PROVE  e * BatchesPerEpoch < TotalSteps <=> e < EpochLimit
    BY <1>3, StepFacts
  <1> USE DEF Place, Running, Loop, Waiting, Ended
  <1>4. CASE Submit
    BY <1>4, <1>1, <1>2 DEF Submit, memory, columns, history
  <1>5. CASE Begin
    BY <1>5, <1>1, <1>2 DEF Begin, Attempt, columns
  <1>6. CASE StartFresh
    BY <1>6, <1>1, <1>2 DEF StartFresh, memory, columns, history
  <1>7. CASE Unreadable
    BY <1>7, <1>1, <1>2 DEF Unreadable, memory, columns
  <1>8. CASE Resume
    BY <1>8, <1>1, <1>2 DEF Resume, history, Kept, HasCheckpoint
  <1>9. CASE Incompatible
    BY <1>9, <1>1, <1>2 DEF Incompatible, columns
  <1>10. CASE EpochTest
    <2>1. ~done => epoch < EpochLimit
      BY <1>10, <1>1, <1>2, <1>3 DEF EpochTest
    <2>. QED
      BY <1>10, <1>1, <1>2, <2>1 DEF EpochTest, memory, columns, history
  <1>11. CASE BatchCancelled
    BY <1>11, <1>1, <1>2 DEF BatchCancelled, memory, columns, history
  <1>12. CASE Batch
    <2>1. epoch < EpochLimit /\ ~done /\ ~yielding
      BY <1>12, <1>1, <1>2, <1>3 DEF Batch
    <2>2. step = epoch * BatchesPerEpoch + batch /\ step < TotalSteps /\ step' = step + 1
      BY <1>12, <1>1, <1>2, <2>1 DEF Batch
    <2>3. done' <=> step' >= TotalSteps
      BY <1>12 DEF Batch
    <2>4. done' => step' = TotalSteps
      BY <1>1, <1>2, <2>2, <2>3
    <2>5. ~done' => step' = epoch * BatchesPerEpoch + batch' /\ step' < TotalSteps
      BY <1>12, <1>1, <1>2, <2>2, <2>3 DEF Batch
    <2>6. step' <= TotalSteps /\ batch' \in Nat /\ batch' <= BatchesPerEpoch
      BY <1>12, <1>1, <1>2, <2>2 DEF Batch
    <2>. QED
      BY <1>12, <1>1, <1>2, <2>1, <2>4, <2>5, <2>6 DEF Batch, history
  <1>13. CASE Boundary
    <2>1. (epoch + 1) * BatchesPerEpoch = epoch * BatchesPerEpoch + BatchesPerEpoch
      BY <1>1, <1>2
    <2>2. ~done => step = (epoch + 1) * BatchesPerEpoch
      BY <1>13, <1>1, <1>2, <2>1 DEF Boundary
    <2>. QED
      BY <1>13, <1>1, <1>2, <2>2 DEF Boundary, columns, history, CanCheckpoint
  <1>14. CASE Save
    BY <1>14, <1>1, <1>2 DEF Save, memory, columns, history
  <1>15. CASE Record
    BY <1>15, <1>1, <1>2 DEF Record, memory, history
  <1>16. CASE Evaluate
    BY <1>16, <1>1, <1>2 DEF Evaluate, memory, history
  <1>17. CASE BatchInterrupted
    BY <1>17, <1>1, <1>2 DEF BatchInterrupted, memory, columns, history
  <1>18. CASE Raise
    BY <1>18, <1>1, <1>2 DEF Raise, memory, columns, history
  <1>19. CASE Crash
    BY <1>19, <1>1, <1>2 DEF Crash, columns, history
  <1>20. CASE Finished
    BY <1>20, <1>1, <1>2 DEF Finished, vars, memory, columns, history
  <1>21. CASE UNCHANGED vars
    BY <1>21, <1>1, <1>2 DEF vars, memory, columns, history
  <1>. QED
    BY <1>4, <1>5, <1>6, <1>7, <1>8, <1>9, <1>10, <1>11, <1>12,
       <1>13, <1>14, <1>15, <1>16, <1>17, <1>18, <1>19, <1>20, <1>21 DEF Next, Load, Run

\* Every step keeps the checkpoint and the columns true.
LEMMA NextKept == TypeInv /\ Place /\ Kept /\ [Next]_vars => Kept'
  <1> SUFFICES ASSUME TypeInv, Place, Kept, [Next]_vars PROVE Kept'
    OBVIOUS
  <1>1. /\ BatchesPerEpoch \in Nat /\ TotalSteps \in Nat \ {0} /\ EpochLimit \in Nat \ {0}
        /\ pc \in Running \union Waiting => BatchesPerEpoch >= 1
        /\ job' = job /\ BatchesPerEpoch' = BatchesPerEpoch
        /\ TotalSteps' = TotalSteps /\ EpochLimit' = EpochLimit
    BY StepFacts
  <1>2. /\ epoch \in Nat /\ batch \in Nat /\ step \in Nat /\ column \in Nat /\ progress \in Nat
        /\ ckpt.epochs \in Nat /\ ckpt.step \in Nat
        /\ done \in BOOLEAN /\ yielding \in BOOLEAN /\ refused \in BOOLEAN /\ mixed \in BOOLEAN
    BY DEF TypeInv
  <1>3. ASSUME NEW e \in Nat, pc \in Running
       PROVE  e * BatchesPerEpoch < TotalSteps <=> e < EpochLimit
    BY <1>3, StepFacts
  <1>4. NoCkpt.epochs = 0 /\ NoCkpt.step = 0
    BY DEF NoCkpt
  <1> USE DEF Kept, HasCheckpoint, PreemptedKeepsAll, Running, Loop, Waiting, Ended
  <1>5. CASE Submit
    BY <1>5, <1>1, <1>2 DEF Submit, memory, columns, history
  <1>6. CASE Begin
    BY <1>6, <1>1, <1>2 DEF Begin, Attempt, columns
  <1>7. CASE StartFresh
    BY <1>7, <1>1, <1>2 DEF StartFresh, memory, columns, history, Place
  <1>8. CASE Unreadable
    BY <1>8, <1>1, <1>2 DEF Unreadable, memory, columns, Fault
  <1>9. CASE Resume
    BY <1>9, <1>1, <1>2 DEF Resume, history
  <1>10. CASE Incompatible
    BY <1>10, <1>1, <1>2 DEF Incompatible, columns, Fault
  <1>11. CASE EpochTest
    BY <1>11, <1>1, <1>2 DEF EpochTest, memory, columns, history
  <1>12. CASE BatchCancelled
    BY <1>12, <1>1, <1>2, <1>4 DEF BatchCancelled, memory, columns, history
  <1>13. CASE Batch
    BY <1>13, <1>1, <1>2 DEF Batch, history, Place
  <1>14. CASE Boundary
    BY <1>14, <1>1, <1>2 DEF Boundary, columns, history, Place, CanCheckpoint
  <1>15. CASE Save
    <2>1. /\ ckpt'.epochs = epoch /\ ckpt'.step = step /\ ckpt'.labels = Prepare(job).labels
          /\ pc' = "record"
      BY <1>15 DEF Save
    <2>2. ~done /\ step = epoch * BatchesPerEpoch /\ step < TotalSteps /\ epoch < EpochLimit
      BY <1>15, <1>1, <1>2, <1>3 DEF Save, Place
    <2>. QED
      BY <1>15, <1>1, <1>2, <2>1, <2>2 DEF Save, memory, columns, history
  <1>16. CASE Record
    BY <1>16, <1>1, <1>2 DEF Record, memory, history, Place
  <1>17. CASE Evaluate
    BY <1>17, <1>1, <1>2, <1>4 DEF Evaluate, memory, history
  <1>18. CASE BatchInterrupted
    BY <1>18, <1>1, <1>2 DEF BatchInterrupted, memory, columns, history, Fault, Place
  <1>19. CASE Raise
    BY <1>19, <1>1, <1>2, <1>4 DEF Raise, memory, columns, history
  <1>20. CASE Crash
    BY <1>20, <1>1, <1>2 DEF Crash, columns, history, Fault
  <1>21. CASE Finished
    BY <1>21, <1>1, <1>2 DEF Finished, vars, memory, columns, history
  <1>22. CASE UNCHANGED vars
    BY <1>22, <1>1, <1>2 DEF vars, memory, columns, history
  <1>. QED
    BY <1>5, <1>6, <1>7, <1>8, <1>9, <1>10, <1>11, <1>12, <1>13,
       <1>14, <1>15, <1>16, <1>17, <1>18, <1>19, <1>20, <1>21, <1>22 DEF Next, Load, Run

\* Every step keeps the parts of the state together.
LEMMA NextTogether == TypeInv /\ Place /\ Together /\ [Next]_vars => Together'
  <1> SUFFICES ASSUME TypeInv, Place, Together, [Next]_vars PROVE Together'
    OBVIOUS
  <1>1. /\ BatchesPerEpoch \in Nat /\ TotalSteps \in Nat \ {0} /\ EpochLimit \in Nat \ {0}
        /\ pc \in Running \union Waiting => BatchesPerEpoch >= 1
        /\ job' = job /\ BatchesPerEpoch' = BatchesPerEpoch
        /\ TotalSteps' = TotalSteps /\ EpochLimit' = EpochLimit
    BY StepFacts
  <1>2. /\ epoch \in Nat /\ batch \in Nat /\ step \in Nat /\ column \in Nat /\ progress \in Nat
        /\ ckpt.epochs \in Nat /\ ckpt.step \in Nat
        /\ done \in BOOLEAN /\ yielding \in BOOLEAN /\ refused \in BOOLEAN /\ mixed \in BOOLEAN
    BY DEF TypeInv
  <1>3. ASSUME NEW e \in Nat, pc \in Running
       PROVE  e * BatchesPerEpoch < TotalSteps <=> e < EpochLimit
    BY <1>3, StepFacts
  <1>4. NoCkpt.step = 0 /\ \A p \in Parts : NoCkpt.parts[p] = 0 /\ Fresh[p] = 0
    BY DEF NoCkpt, Fresh
  <1> USE DEF Together, Running, Loop, Waiting, Ended
  <1>5. CASE Submit
    BY <1>5, <1>1, <1>2 DEF Submit, memory, columns, history
  <1>6. CASE Begin
    BY <1>6, <1>1, <1>2 DEF Begin, Attempt, columns
  <1>7. CASE StartFresh
    BY <1>7, <1>1, <1>2, <1>4 DEF StartFresh, memory, columns, history, Place
  <1>8. CASE Unreadable
    BY <1>8, <1>1, <1>2, <1>4 DEF Unreadable, memory, columns, Place
  <1>9. CASE Resume
    BY <1>9, <1>1, <1>2 DEF Resume, history
  <1>10. CASE Incompatible
    BY <1>10, <1>1, <1>2, <1>4 DEF Incompatible, columns, Place
  <1>11. CASE EpochTest
    BY <1>11, <1>1, <1>2 DEF EpochTest, memory, columns, history
  <1>12. CASE BatchCancelled
    BY <1>12, <1>1, <1>2, <1>4 DEF BatchCancelled, memory, columns, history
  <1>13. CASE Batch
    BY <1>13, <1>1, <1>2, <1>4 DEF Batch, history, TypeInv
  <1>14. CASE Boundary
    BY <1>14, <1>1, <1>2 DEF Boundary, columns, history
  <1>15. CASE Save
    BY <1>15, <1>1, <1>2 DEF Save, memory, columns, history
  <1>16. CASE Record
    BY <1>16, <1>1, <1>2 DEF Record, memory, history
  <1>17. CASE Evaluate
    BY <1>17, <1>1, <1>2, <1>4 DEF Evaluate, memory, history
  <1>18. CASE BatchInterrupted
    BY <1>18, <1>1, <1>2 DEF BatchInterrupted, memory, columns, history
  <1>19. CASE Raise
    BY <1>19, <1>1, <1>2, <1>4 DEF Raise, memory, columns, history
  <1>20. CASE Crash
    BY <1>20, <1>1, <1>2 DEF Crash, columns, history
  <1>21. CASE Finished
    BY <1>21, <1>1, <1>2 DEF Finished, vars, memory, columns, history
  <1>22. CASE UNCHANGED vars
    BY <1>22, <1>1, <1>2 DEF vars, memory, columns, history
  <1>. QED
    BY <1>5, <1>6, <1>7, <1>8, <1>9, <1>10, <1>11, <1>12, <1>13,
       <1>14, <1>15, <1>16, <1>17, <1>18, <1>19, <1>20, <1>21, <1>22 DEF Next, Load, Run

-----------------------------------------------------------------------------
(* Training rows and evaluation rows *)

LineIds(rows) == {rows[i].id : i \in DOMAIN rows}

\* The two slices of a split have the lines of the file, and no line is in both.
LEMMA SplitIds ==
  ASSUME job \in Jobs, job.eval = <<>>
  PROVE  LET h == Split(job.train, job.split, job.order)
         IN  /\ LineIds(h.train) \intersect LineIds(h.eval) = {}
             /\ LineIds(h.train) \union LineIds(h.eval) = LineIds(job.train)
  <1> DEFINE rows == job.train
             order == job.order
             n == Len(rows)
             k == EvalCount(n, job.split)
             h == Split(rows, job.split, order)
  <1>1. /\ order \in [DOMAIN rows -> DOMAIN rows] /\ IsInjective(order)
        /\ \A i \in DOMAIN rows : \E m \in DOMAIN rows : order[m] = i
    BY OrderAssumption
  <1>2. \A i, m \in DOMAIN rows : rows[i].id = rows[m].id => i = m
    BY LinesAssumption
  <1>3. job.split \in 0..89 /\ n \in Nat /\ DOMAIN rows = 1..n
    <2>1. PICK S : job.train \in Seq(S)
      BY JobsAssumption DEF Configs
    <2>. QED
      BY <2>1, JobsAssumption DEF Configs
  <1>4. CASE job.split = 0 \/ n < 4 \/ n - k < 1
    <2>1. h.train = rows /\ h.eval = <<>>
      BY <1>4 DEF Split
    <2>. QED
      BY <2>1 DEF LineIds
  <1>5. CASE ~(job.split = 0 \/ n < 4 \/ n - k < 1)
    <2>1. job.split \in 1..89 /\ n >= 4
      BY <1>3, <1>5
    <2>2. k \in 1..(n - 1)
      BY <1>3, <2>1, EvalCountBounds
    <2>3. /\ h.train = [i \in 1..(n - k) |-> rows[order[k + i]]]
          /\ h.eval = [i \in 1..k |-> rows[order[i]]]
      BY <1>5 DEF Split
    <2> HIDE DEF k, h
    <2>4. LineIds(h.train) = {rows[order[i]].id : i \in (k + 1)..n}
      <3>1. LineIds(h.train) = {rows[order[k + i]].id : i \in 1..(n - k)}
        BY <2>3 DEF LineIds
      <3>2. ASSUME NEW i \in (k + 1)..n PROVE i - k \in 1..(n - k) /\ k + (i - k) = i
        BY <1>3, <2>2
      <3>3. ASSUME NEW i \in 1..(n - k) PROVE k + i \in (k + 1)..n
        BY <1>3, <2>2
      <3>. QED
        BY <3>1, <3>2, <3>3
    <2>5. LineIds(h.eval) = {rows[order[i]].id : i \in 1..k}
      BY <2>3 DEF LineIds
    <2>6. \A i \in 1..n : order[i] \in 1..n
      BY <1>1, <1>3
    <2>7. \A i, m \in 1..n : rows[order[i]].id = rows[order[m]].id => i = m
      <3> SUFFICES ASSUME NEW i \in 1..n, NEW m \in 1..n, rows[order[i]].id = rows[order[m]].id
                   PROVE  i = m
        OBVIOUS
      <3>1. order[i] = order[m]
        BY <1>2, <1>3, <2>6
      <3>. QED
        BY <1>1, <1>3, <3>1 DEF IsInjective
    <2>8. LineIds(rows) = {rows[order[i]].id : i \in 1..n}
      BY <1>1, <1>3, <2>6 DEF LineIds
    <2>9. 1..n = 1..k \union (k + 1)..n /\ 1..k \intersect (k + 1)..n = {}
      BY <1>3, <2>2
    <2>10. LineIds(h.train) \intersect LineIds(h.eval) = {}
      BY <2>4, <2>5, <2>7, <2>9
    <2>11. LineIds(h.train) \union LineIds(h.eval) = LineIds(rows)
      BY <2>4, <2>5, <2>8, <2>9
    <2>. QED
      BY <2>10, <2>11 DEF h
  <1>. QED
    BY <1>4, <1>5

\* The same of the two sets an attempt is given, of which the first has rows.
LEMMA PrepareIds ==
  ASSUME job \in Jobs
  PROVE  LET p == Prepare(job)
         IN  /\ LineIds(p.train) \intersect LineIds(p.eval) = {}
             /\ LineIds(p.train) \union LineIds(p.eval) = LineIds(job.train) \union LineIds(job.eval)
             /\ TrainRows >= 1 => p.train # <<>>
  <1>1. CASE job.eval # <<>>
    <2>1. Prepare(job).train = job.train /\ Prepare(job).eval = job.eval
      BY <1>1 DEF Prepare
    <2>2. TrainRows = Len(job.train)
      BY <1>1 DEF TrainRows
    <2>3. LineIds(job.train) \intersect LineIds(job.eval) = {}
      BY LinesAssumption DEF LineIds
    <2>. QED
      BY <2>1, <2>2, <2>3
  <1>2. CASE job.eval = <<>>
    <2> DEFINE h == Split(job.train, job.split, job.order)
    <2>1. Prepare(job).train = h.train /\ Prepare(job).eval = h.eval
      BY <1>2 DEF Prepare
    <2>2. TrainRows = Len(h.train)
      BY <1>2 DEF TrainRows
    <2>3. /\ LineIds(h.train) \intersect LineIds(h.eval) = {}
          /\ LineIds(h.train) \union LineIds(h.eval) = LineIds(job.train)
      BY <1>2, SplitIds
    <2>4. LineIds(job.eval) = {}
      BY <1>2 DEF LineIds
    <2> HIDE DEF h
    <2>. QED
      BY <2>1, <2>2, <2>3, <2>4
  <1>. QED
    BY <1>1, <1>2

\* What the attempts have trained on: the first set, and all of it once one has
\* begun.
DataInv ==
  /\ data # Prepare(job) => LineIds(data.train) = {} /\ LineIds(data.eval) = {}
  /\ trained \subseteq LineIds(Prepare(job).train)
  /\ pc \in Running => data = Prepare(job) /\ trained = LineIds(Prepare(job).train)

\* Nothing has been trained on at first.
LEMMA InitData == Init => DataInv
  BY DEF Init, DataInv, LineIds, Running, Loop

\* Every attempt is given the same two sets.
LEMMA NextData == DataInv /\ [Next]_vars => DataInv'
  <1> SUFFICES ASSUME DataInv, [Next]_vars PROVE DataInv'
    OBVIOUS
  <1>1. job' = job
    BY DEF Next, Load, Run, Submit, Begin, Attempt, StartFresh, Unreadable, Resume, Incompatible,
       EpochTest, BatchCancelled, Batch, Boundary, Save, Record, Evaluate, BatchInterrupted,
       Raise, Crash, Finished, vars
  <1>2. Prepare(job)' = Prepare(job)
    BY <1>1
  <1>3. CASE Begin
    <2>1. data' = Prepare(job) /\ trained' = trained \union LineIds(data'.train)
      BY <1>3 DEF Begin, Attempt, LineIds
    <2>2. trained' = LineIds(Prepare(job).train)
      BY <2>1 DEF DataInv
    <2>. QED
      BY <1>2, <2>1, <2>2 DEF DataInv
  <1>4. CASE ~Begin
    <2>1. data' = data /\ trained' = trained
      BY <1>4 DEF Next, Load, Run, Submit, StartFresh, Unreadable, Resume, Incompatible,
         EpochTest, BatchCancelled, Batch, Boundary, Save, Record, Evaluate, BatchInterrupted,
         Raise, Crash, Finished, vars, history
    <2>2. pc' \in Running => pc \in Running
      BY <1>4 DEF Next, Load, Run, Submit, StartFresh, Unreadable, Resume, Incompatible,
         EpochTest, BatchCancelled, Batch, Boundary, Save, Record, Evaluate, BatchInterrupted,
         Raise, Crash, Finished, vars, Running, Loop, Ended
    <2>. QED
      BY <1>2, <2>1, <2>2 DEF DataInv
  <1>. QED
    BY <1>3, <1>4

-----------------------------------------------------------------------------
(* Labels and scores *)

\* The types of a job's uploads.
LEMMA UploadTypes ==
  ASSUME job \in Jobs
  PROVE  /\ job.train \in Seq(Lines) /\ job.eval \in Seq(Lines) /\ job.task \in Tasks
         /\ job.maxLength \in Nat /\ job.maxLength >= 2
         /\ job.evalBatch \in Nat \ {0} /\ job.split \in 0..89
         /\ \A row \in Lines : row.tags \in Seq(Nat) /\ row.pieces \in Seq(Nat \ {0})
  <1>1. job \in Configs
    BY JobsAssumption
  <1>2. job.maxLength \in Nat \ 0..7
    BY <1>1 DEF Configs
  <1>3. job.maxLength >= 2
    BY <1>2
  <1>4. \A row \in Lines : row.tags \in Seq(Nat) /\ row.pieces \in Seq(Nat \ {0})
    BY DEF Lines
  <1>. QED
    BY <1>1, <1>2, <1>3, <1>4 DEF Configs

\* The two slices of a split are rows of the file.
LEMMA SplitRows ==
  ASSUME job \in Jobs, job.eval = <<>>
  PROVE  LET h == Split(job.train, job.split, job.order)
         IN  /\ h.train \in Seq(Lines) /\ h.eval \in Seq(Lines)
             /\ ToSet(h.train) \union ToSet(h.eval) \subseteq ToSet(job.train)
  <1> DEFINE rows == job.train
             order == job.order
             n == Len(rows)
             k == EvalCount(n, job.split)
             h == Split(rows, job.split, order)
             f == [i \in 1..(n - k) |-> rows[order[k + i]]]
             g == [i \in 1..k |-> rows[order[i]]]
  <1>1. /\ rows \in Seq(Lines) /\ n \in Nat /\ DOMAIN rows = 1..n /\ job.split \in 0..89
        /\ <<>> \in Seq(Lines) /\ ToSet(<<>>) = {}
    BY UploadTypes DEF ToSet
  <1>2. \A i \in 1..n : order[i] \in 1..n
    BY <1>1, OrderAssumption
  <1>3. \A i \in 1..n : rows[i] \in Lines /\ rows[i] \in ToSet(rows)
    BY <1>1 DEF ToSet
  <1>4. CASE job.split = 0 \/ n < 4 \/ n - k < 1
    <2>1. h.train = rows /\ h.eval = <<>>
      BY <1>4 DEF Split
    <2>. QED
      BY <1>1, <2>1
  <1>5. CASE ~(job.split = 0 \/ n < 4 \/ n - k < 1)
    <2>0. n >= 4 /\ job.split \in 1..89
      BY <1>1, <1>5
    <2>1. k \in 1..(n - 1)
      BY <1>1, <2>0, EvalCountBounds
    <2>2. h.train = f /\ h.eval = g
      BY <1>5 DEF Split
    <2> HIDE DEF k, h, rows, order, n
    <2>3. f \in [1..(n - k) -> Lines] /\ \A i \in 1..(n - k) : f[i] \in ToSet(rows)
      BY <1>1, <1>2, <1>3, <2>1
    <2>4. g \in [1..k -> Lines] /\ \A i \in 1..k : g[i] \in ToSet(rows)
      BY <1>1, <1>2, <1>3, <2>1
    <2>5. n - k \in Nat /\ k \in Nat
      BY <1>1, <2>1
    <2> HIDE DEF f, g
    <2>6. f \in Seq(Lines) /\ g \in Seq(Lines)
      BY <2>3, <2>4, <2>5
    <2>7. DOMAIN f = 1..(n - k) /\ DOMAIN g = 1..k
      BY <2>3, <2>4
    <2>8. ToSet(f) \subseteq ToSet(rows) /\ ToSet(g) \subseteq ToSet(rows)
      BY <2>3, <2>4, <2>7 DEF ToSet
    <2>. QED
      BY <2>2, <2>6, <2>8 DEF h, rows, order
  <1>. QED
    BY <1>4, <1>5

\* The rows an attempt is given are rows of the uploads.
LEMMA PrepareRows ==
  ASSUME job \in Jobs
  PROVE  /\ Prepare(job).train \in Seq(Lines) /\ Prepare(job).eval \in Seq(Lines)
         /\ ToSet(Prepare(job).train) \subseteq ToSet(job.train)
         /\ ToSet(Prepare(job).eval) \subseteq
              IF job.eval = <<>> THEN ToSet(job.train) ELSE ToSet(job.eval)
  <1>1. CASE job.eval # <<>>
    <2>1. Prepare(job).train = job.train /\ Prepare(job).eval = job.eval
      BY <1>1 DEF Prepare
    <2>. QED
      BY <1>1, <2>1, UploadTypes
  <1>2. CASE job.eval = <<>>
    <2> DEFINE h == Split(job.train, job.split, job.order)
    <2>1. Prepare(job).train = h.train /\ Prepare(job).eval = h.eval
      BY <1>2 DEF Prepare
    <2>2. /\ h.train \in Seq(Lines) /\ h.eval \in Seq(Lines)
          /\ ToSet(h.train) \union ToSet(h.eval) \subseteq ToSet(job.train)
      BY <1>2, SplitRows
    <2> HIDE DEF h
    <2>. QED
      BY <1>2, <2>1, <2>2
  <1>. QED
    BY <1>1, <1>2

\* The labels an attempt is given are those of all rows of the uploads, with the
\* outside tag first.
LEMMA PrepareLabels ==
  ASSUME job \in Jobs, job.task # "regression"
  PROVE  /\ Prepare(job).labels \in Seq(Nat)
         /\ ToSet(Prepare(job).labels) = LabelSet(job.train) \union LabelSet(job.eval)
         /\ job.task = "token" /\ Outside \in ToSet(Prepare(job).labels) =>
              Prepare(job).labels[1] = Outside
  <1> DEFINE T == LabelSet(job.train)
             E == LabelSet(job.eval)
             U == T \union E
             In(X) == InOrder(X, job.task)
  <1>1. T \in SUBSET Nat /\ IsFiniteSet(T) /\ E \in SUBSET Nat /\ IsFiniteSet(E)
    BY UploadTypes, LabelSetFacts
  <1>2. U \in SUBSET Nat /\ IsFiniteSet(U)
    BY <1>1, FS_Union
  <1>3. Labels(job.train, job.task) = In(T) /\ Labels(job.eval, job.task) = In(E)
    BY DEF Labels
  <1>4. ToSet(In(T)) = T /\ ToSet(In(E)) = E
    BY <1>1, InOrderFacts
  <1>5. /\ MergeLabels(In(T), In(E), job.task) = In(U)
        /\ MergeLabels(In(T), In(T), job.task) = In(T)
    BY <1>4 DEF MergeLabels
  <1>6. job.eval = <<>> => U = T
    BY DEF LabelSet
  <1>7. Prepare(job).labels = In(U)
    <2>1. CASE job.eval # <<>>
      BY <1>3, <1>5, <2>1 DEF Prepare
    <2>2. CASE job.eval = <<>>
      <3>1. Prepare(job).labels = In(T)
        BY <1>3, <1>5, <2>2 DEF Prepare
      <3>. QED
        BY <1>6, <2>2, <3>1
    <2>. QED
      BY <2>1, <2>2
  <1> HIDE DEF T, E, U
  <1>8. /\ ToSet(In(U)) = U /\ In(U) \in Seq(U)
        /\ job.task = "token" /\ Outside \in U => In(U)[1] = Outside
    BY <1>2, InOrderFacts
  <1>9. In(U) \in Seq(Nat)
    <2>1. U \subseteq Nat
      BY <1>2
    <2>. QED
      BY <1>8, <2>1, SeqMonotonic
  <1>. QED
    BY <1>7, <1>8, <1>9 DEF U, T, E

\* Every tag of a row has its place among them.
LEMMA PrepareKnows ==
  ASSUME job \in Jobs, job.task # "regression",
         NEW rows \in {Prepare(job).train, Prepare(job).eval}, NEW i \in DOMAIN rows
  PROVE  ToSet(rows[i].tags) \subseteq ToSet(Prepare(job).labels)
  <1>1. rows[i] \in ToSet(job.train) \union ToSet(job.eval)
    <2>1. ToSet(rows) \subseteq ToSet(job.train) \union ToSet(job.eval)
      BY PrepareRows
    <2>2. rows[i] \in ToSet(rows)
      BY DEF ToSet
    <2>. QED
      BY <2>1, <2>2
  <1>2. ToSet(rows[i].tags) \subseteq LabelSet(job.train) \union LabelSet(job.eval)
    BY <1>1 DEF LabelSet, ToSet
  <1>. QED
    BY <1>2, PrepareLabels

\* What an attempt is given, and what its success reports.
Reported ==
  IF data.eval = <<>> THEN <<>>
  ELSE TrueSeqs(Gold(data.eval, data.labels, job.maxLength, job.evalBatch), data.labels)

Given ==
  /\ data = Prepare(job) \/ (data.train = <<>> /\ data.eval = <<>> /\ data.labels = <<>>)
  /\ pc \in Running \union {"succeeded"} => data = Prepare(job)
  /\ pc \notin {"submitted", "rejected"} =>
       /\ Accepts(job.train, job.task)
       /\ job.eval # <<>> => Accepts(job.eval, job.task)
  /\ pc = "succeeded" /\ job.task = "token" => scored = Reported

\* Nothing is given at first.
LEMMA InitGiven == Init => Given
  BY DEF Init, Given, Running, Loop

\* Every attempt is given the same, and its success reports no other.
LEMMA NextGiven == Given /\ [Next]_vars => Given'
  <1> SUFFICES ASSUME Given, [Next]_vars PROVE Given'
    OBVIOUS
  <1>1. job' = job
    BY DEF Next, Load, Run, Submit, Begin, Attempt, StartFresh, Unreadable, Resume, Incompatible,
       EpochTest, BatchCancelled, Batch, Boundary, Save, Record, Evaluate, BatchInterrupted,
       Raise, Crash, Finished, vars
  <1>2. Prepare(job)' = Prepare(job)
    BY <1>1
  <1>3. CASE Submit
    BY <1>1, <1>2, <1>3 DEF Given, Submit, Running, Loop
  <1>4. CASE Begin
    BY <1>1, <1>2, <1>4 DEF Given, Begin, Attempt, Waiting
  <1>5. CASE Evaluate
    <2>1. data' = data /\ data = Prepare(job) /\ pc' \in {"succeeded", "failed"} /\ pc = "evaluate"
      BY <1>5 DEF Given, Evaluate, Running, Loop
    <2>2. pc' = "succeeded" /\ job.task = "token" => scored' = Reported
      BY <1>5 DEF Evaluate, Reported
    <2>3. Reported' = Reported
      BY <1>1, <2>1 DEF Reported
    <2>. QED
      BY <1>1, <1>2, <2>1, <2>2, <2>3 DEF Given
  <1>6. CASE Load \/ EpochTest \/ BatchCancelled \/ Batch \/ Boundary \/ Save \/ Record
               \/ BatchInterrupted \/ Raise \/ Crash
    <2>1. data' = data /\ scored' = scored
      BY <1>6 DEF Load, StartFresh, Unreadable, Resume, Incompatible, EpochTest, BatchCancelled,
         Batch, Boundary, Save, Record, BatchInterrupted, Raise, Crash
    <2>2. pc \in Running /\ pc' \notin {"submitted", "rejected", "succeeded"}
      BY <1>6 DEF Load, StartFresh, Unreadable, Resume, Incompatible, EpochTest, BatchCancelled,
         Batch, Boundary, Save, Record, BatchInterrupted, Raise, Crash, Running, Loop
    <2>. QED
      BY <1>1, <1>2, <2>1, <2>2 DEF Given, Running, Loop
  <1>7. CASE Finished \/ UNCHANGED vars
    <2>1. data' = data /\ scored' = scored /\ pc' = pc
      BY <1>7 DEF Finished, vars
    <2>2. Reported' = Reported
      BY <1>1, <2>1 DEF Reported
    <2>. QED
      BY <1>1, <1>2, <2>1, <2>2 DEF Given
  <1>. QED
    BY <1>3, <1>4, <1>5, <1>6, <1>7 DEF Next, Run

\* A row that is evaluated is one that alignment and scoring can rely on.
LEMMA EvalRowsAreProper ==
  ASSUME job \in Jobs, job.task = "token",
         Accepts(job.train, job.task), job.eval # <<>> => Accepts(job.eval, job.task),
         NEW i \in DOMAIN Prepare(job).eval
  PROVE  Proper(Prepare(job).eval[i], Prepare(job).labels)
  <1> DEFINE rows == Prepare(job).eval
             row == rows[i]
             file == IF job.eval = <<>> THEN job.train ELSE job.eval
  <1>1. row \in ToSet(rows) /\ row \in Lines
    BY PrepareRows DEF ToSet
  <1>2. row \in ToSet(file)
    BY <1>1, PrepareRows
  <1>3. row \in ToSet(job.train) \union ToSet(job.eval)
    BY <1>2
  <1>4. row.tokens = Len(row.tags)
    <2>1. Accepts(file, job.task)
      OBVIOUS
    <2> HIDE DEF file, row
    <2>2. PICK l \in DOMAIN file : file[l] = row
      BY <1>2 DEF ToSet
    <2>. QED
      BY <2>1, <2>2 DEF Accepts, LineAccepted
  <1>5. ToSet(row.tags) \subseteq ToSet(Prepare(job).labels)
    BY PrepareKnows
  <1>6. \A p, q \in DOMAIN row.pieces :
          row.pieces[p] <= row.tokens /\ (p <= q => row.pieces[p] <= row.pieces[q])
    BY <1>3, PiecesAssumption
  <1>7. row.tags \in Seq(Nat) /\ row.pieces \in Seq(Nat \ {0})
    BY <1>1, UploadTypes
  <1> HIDE DEF row
  <1>8. Proper(row, Prepare(job).labels)
    BY <1>4, <1>5, <1>6, <1>7 DEF Proper
  <1>. QED
    BY <1>8 DEF row

-----------------------------------------------------------------------------
(* The attempts are one run *)

\* A run that has not begun.
LEMMA InitRun == Init => OneJob!Init
  <1> SUFFICES ASSUME Init PROVE OneJob!Init
    OBVIOUS
  <1>1. TotalSteps \in Nat \ {0}
    BY Budget DEF Init
  <1>2. RunPhase = "going" /\ pc \notin Loop /\ ckpt.step = 0
    BY DEF Init, RunPhase, Ended, Loop, NoCkpt
  <1>. QED
    BY <1>1, <1>2 DEF OneJob!Init, Ours

\* The steps behind the model of a run that is going.
Now == IF pc \in Loop THEN parts["model"] ELSE ckpt.step

\* What a step does to a run that is going: nothing that shows, one of the
\* steps of ResumableRun, or its end.
LEMMA GoingStep ==
  ASSUME job' = job, RunPhase = "going"
  PROVE  /\ RunPhase' = "going" /\ ckpt'.step = ckpt.step /\ Now' = Now
              => UNCHANGED OneJob!vars
         /\ RunPhase' = "going" /\ ckpt'.step = ckpt.step /\ Now' \in {0, ckpt.step}
              => OneJob!Next
         /\ RunPhase' = "going" /\ ckpt'.step = ckpt.step /\ Now < TotalSteps /\ Now' = Now + 1
              => OneJob!Next
         /\ RunPhase' = "going" /\ 0 < Now /\ Now < TotalSteps /\ ckpt'.step = Now /\ Now' = Now
              => OneJob!Next
         /\ RunPhase' \in {"dropped", "spoiled"} => OneJob!Next
         /\ RunPhase' = "finished" /\ Now = TotalSteps => OneJob!Next
  <1>1. TotalSteps' = TotalSteps
    BY SameJob
  <1>. QED
    BY <1>1 DEF Now, Ours, OneJob!vars, OneJob!Next, OneJob!Going, OneJob!End, OneJob!Advance,
       OneJob!Save, OneJob!SetBack

\* Nothing is promised of a run that has ended or is spoiled.
LEMMA EndedStep ==
  ASSUME job' = job, RunPhase # "going", RunPhase' = RunPhase
  PROVE  UNCHANGED OneJob!vars
  <1>1. TotalSteps' = TotalSteps
    BY SameJob
  <1>. QED
    BY <1>1 DEF Ours, OneJob!vars

\* Every step of the attempts is a step of the one run, or does not show.
LEMMA NextRun == IInv /\ [Next]_vars => [OneJob!Next]_(OneJob!vars)
  <1> SUFFICES ASSUME TypeInv, Place, Kept, Together, [Next]_vars
               PROVE  OneJob!Next \/ UNCHANGED OneJob!vars
    BY DEF IInv
  <1>1. /\ job' = job /\ TotalSteps' = TotalSteps /\ TotalSteps \in Nat \ {0}
        /\ BatchesPerEpoch \in Nat /\ (pc \in Running \union Waiting => BatchesPerEpoch >= 1)
    BY StepFacts
  <1>2. /\ epoch \in Nat /\ step \in Nat /\ ckpt.step \in Nat /\ parts \in [Parts -> Nat]
        /\ "model" \in Parts
    BY DEF TypeInv, Parts
  <1>3. CASE mixed
    <2>1. mixed'
      BY <1>3 DEF Next, Load, Run, Submit, Begin, Attempt, StartFresh, Unreadable, Resume,
         Incompatible, EpochTest, BatchCancelled, Batch, Boundary, Save, Record, Evaluate,
         BatchInterrupted, Raise, Crash, Finished, vars, history
    <2>. QED
      BY <1>1, <1>3, <2>1, EndedStep DEF RunPhase
  <1>4. CASE ~mixed /\ pc \in Ended
    <2>1. UNCHANGED vars
      BY <1>4 DEF Next, Load, Run, Submit, Begin, Attempt, StartFresh, Unreadable, Resume,
         Incompatible, EpochTest, BatchCancelled, Batch, Boundary, Save, Record, Evaluate,
         BatchInterrupted, Raise, Crash, Finished, Ended, Running, Loop, Waiting
    <2>2. RunPhase' = RunPhase /\ RunPhase # "going"
      BY <1>4, <2>1 DEF vars, history, RunPhase
    <2>. QED
      BY <1>1, <2>2, EndedStep
  <1>5. CASE ~mixed /\ pc \notin Ended
    <2>1. RunPhase = "going"
      BY <1>5 DEF RunPhase, Ended
    <2>2. pc \in Loop => parts["model"] = step
      BY <1>2, <1>5 DEF Together
    <2>3. ckpt.parts["model"] = ckpt.step
      BY <1>2, <1>5 DEF Together
    <2> USE DEF RunPhase, Now, Loop, Running, Waiting, Ended
    <2>4. CASE Submit
      BY <1>1, <1>5, <2>1, <2>4, GoingStep DEF Submit, memory, history
    <2>5. CASE Begin
      BY <1>1, <1>5, <2>1, <2>5, GoingStep DEF Begin, Attempt
    <2>6. CASE StartFresh
      <3>1. pc' = "epoch" /\ parts'["model"] = 0
        BY <1>2, <2>6 DEF StartFresh, Place, Fresh, memory
      <3>. QED
        BY <1>1, <1>5, <2>1, <2>6, <3>1, GoingStep DEF StartFresh, history
    <2>7. CASE Unreadable
      <3>1. pc' = "epoch" /\ parts'["model"] = 0
        BY <1>2, <2>7 DEF Unreadable, Place, Fresh, memory
      <3>. QED
        BY <1>1, <1>5, <2>1, <2>7, <3>1, GoingStep DEF Unreadable
    <2>8. CASE Resume
      BY <1>1, <1>5, <2>1, <2>8, <2>3, GoingStep DEF Resume, history
    <2>9. CASE Incompatible
      <3>1. CASE mixed'
        BY <1>1, <2>1, <3>1, GoingStep
      <3>2. CASE ~mixed'
        <4>1. parts' = Fresh /\ pc' = "epoch" /\ ckpt' = ckpt
          BY <2>9, <3>2 DEF Incompatible
        <4>2. parts'["model"] = 0
          BY <1>2, <4>1 DEF Fresh
        <4>. QED
          BY <1>1, <2>1, <3>2, <4>1, <4>2, GoingStep
      <3>. QED
        BY <3>1, <3>2
    <2>10. CASE EpochTest
      BY <1>1, <1>5, <2>1, <2>10, GoingStep DEF EpochTest, memory, history
    <2>11. CASE BatchCancelled
      BY <1>1, <1>5, <2>1, <2>11, GoingStep DEF BatchCancelled, history
    <2>12. CASE Batch
      <3>1. parts'["model"] = parts["model"] + 1 /\ pc' \in Loop
        BY <1>2, <2>12 DEF Batch
      <3>2. step < TotalSteps
        BY <2>12 DEF Batch, Place
      <3>. QED
        BY <1>1, <1>5, <2>1, <2>2, <2>12, <3>1, <3>2, GoingStep DEF Batch, history
    <2>13. CASE Boundary
      BY <1>1, <1>5, <2>1, <2>13, GoingStep DEF Boundary, history
    <2>14. CASE Save
      <3>1. /\ ckpt'.step = step /\ pc' = "record" /\ pc = "save"
            /\ parts' = parts /\ mixed' = mixed
        BY <2>14 DEF Save, memory, history
      <3>2. step = epoch * BatchesPerEpoch /\ step < TotalSteps /\ epoch >= 1
        BY <1>1, <1>2, <2>14 DEF Save, Place
      <3>3. epoch * BatchesPerEpoch >= 1
        BY <1>1, <1>2, <2>14, <3>2 DEF Save
      <3>. QED
        BY <1>1, <1>5, <2>1, <2>2, <3>1, <3>2, <3>3, GoingStep
    <2>15. CASE Record
      BY <1>1, <1>5, <2>1, <2>15, <2>2, GoingStep DEF Record, Kept, memory, history
    <2>16. CASE Evaluate
      <3>1. Now = TotalSteps
        BY <2>2, <2>16 DEF Evaluate, Place
      <3>2. Known
        BY <2>16, PrepareKnows DEF Evaluate, Kept, TypeInv, Known
      <3>. QED
        BY <1>1, <1>5, <2>1, <2>16, <3>1, <3>2, GoingStep DEF Evaluate, history
    <2>17. CASE BatchInterrupted
      BY <1>1, <1>5, <2>1, <2>17, GoingStep DEF BatchInterrupted, history
    <2>18. CASE Raise
      BY <1>1, <1>5, <2>1, <2>18, GoingStep DEF Raise, history
    <2>19. CASE Crash
      BY <1>1, <1>5, <2>1, <2>19, GoingStep DEF Crash, history
    <2>20. CASE Finished
      BY <1>1, <1>5, <2>1, <2>20, GoingStep DEF Finished
    <2>21. CASE UNCHANGED vars
      BY <1>1, <1>5, <2>1, <2>21, GoingStep DEF vars, memory, history
    <2>. QED
      BY <2>4, <2>5, <2>6, <2>7, <2>8, <2>9, <2>10, <2>11, <2>12,
         <2>13, <2>14, <2>15, <2>16, <2>17, <2>18, <2>19, <2>20, <2>21 DEF Next, Load, Run
  <1>. QED
    BY <1>3, <1>4, <1>5

-----------------------------------------------------------------------------
(* The theorems *)

\* The parts together are an invariant of a job's attempts.
THEOREM TrainingInductive == Spec => []IInv
  <1>1. Init => IInv
    BY InitTypeInv, InitRest DEF IInv
  <1>2. IInv /\ [Next]_vars => IInv'
    BY NextTypeInv, NextPlace, NextKept, NextTogether DEF IInv
  <1>. QED
    BY <1>1, <1>2, PTL DEF Spec

\* Every variable keeps its type: total_steps is never passed, however the
\* number of epochs is rounded, and no checkpoint is of the last step.
THEOREM TrainingTypes == Spec => []TypeOK
  <1>1. ASSUME IInv PROVE TypeOK
    <2>1. /\ BatchesPerEpoch \in Nat /\ TotalSteps \in Nat \ {0} /\ EpochLimit \in Nat \ {0}
      BY <1>1, Budget DEF IInv, TypeInv
    <2>2. ckpt.step \in 0..(TotalSteps - 1)
      BY <1>1, <2>1 DEF IInv, TypeInv, Kept
    <2>3. /\ epoch \in 0..EpochLimit /\ batch \in 0..BatchesPerEpoch /\ step \in 0..TotalSteps
          /\ ckpt.epochs \in 0..(EpochLimit - 1) /\ column \in 0..(EpochLimit - 1)
          /\ progress \in 0..TotalSteps
      BY <1>1, <2>1 DEF IInv, TypeInv, Place, Kept
    <2>. QED
      BY <1>1, <2>2, <2>3 DEF IInv, TypeInv, TypeOK
  <1>. QED
    BY <1>1, TrainingInductive, PTL

\* Model, optimizer, scheduler, generator, step and epoch are at one point of
\* one run, in memory and in the checkpoint (training.py:81-134, 464-528).
THEOREM AttemptsAreOneRun == Spec => []OneRun
  <1>1. ASSUME IInv PROVE OneRun
    <2>1. /\ BatchesPerEpoch \in Nat /\ TotalSteps \in Nat
          /\ epoch \in Nat /\ batch \in Nat /\ ckpt.epochs \in Nat
      BY <1>1, Budget DEF IInv, TypeInv
    <2>2. pc \in Loop => step = (IF done THEN TotalSteps ELSE Point(epoch, batch))
      BY <1>1, <2>1 DEF IInv, Place, Point
    <2>3. HasCheckpoint => ckpt.step = Point(ckpt.epochs, 0)
      <3>1. ckpt.epochs * BatchesPerEpoch + 0 = ckpt.epochs * BatchesPerEpoch
        BY <2>1
      <3>. QED
        BY <1>1, <2>1, <3>1 DEF IInv, Kept, Point
    <2>. QED
      BY <1>1, <2>2, <2>3 DEF IInv, Together, OneRun
  <1>. QED
    BY <1>1, TrainingInductive, PTL

\* No attempt repeats an epoch that is in a checkpoint it could load, because
\* parse, split and merge_labels give each attempt the labels of the last.
THEOREM EpochsAreNotRedone == Spec => []NothingRedone
  <1>1. IInv => NothingRedone
    BY DEF IInv, Kept, NothingRedone
  <1>. QED
    BY <1>1, TrainingInductive, PTL

\* A preemption loses nothing (training.py:506-528).
THEOREM PreemptionKeepsAll == Spec => []PreemptedKeepsAll
  <1>1. IInv => PreemptedKeepsAll
    BY DEF IInv, Kept
  <1>. QED
    BY <1>1, TrainingInductive, PTL

\* The attempts of a job, whatever interrupts them, implement one resumable run:
\* the model that a succeeded job leaves has taken every step of it once, and a
\* job ends without success only by a refused upload, a cancel, an exception, or
\* a crash before its first checkpoint, for every task.
THEOREM AttemptsImplementOneRun == Spec => RunSpec
  <1>1. Spec => OneJob!Init /\ [][OneJob!Next]_(OneJob!vars)
    BY InitRun, NextRun, TrainingInductive, PTL DEF Spec
  <1>. QED
    BY <1>1 DEF RunSpec, OneJob!Spec

\* No row is trained on and evaluated on, in whichever attempts, none is
\* dropped, and some are trained on (data.py:122-136, worker.py:193-198).
THEOREM RowsAreApart == Spec => []NoLeak
  <1>1. ASSUME IInv, DataInv PROVE NoLeak
    <2>1. job \in Jobs /\ (pc \in Loop => TrainRows >= 1)
      BY <1>1 DEF IInv, TypeInv, Loop
    <2>2. {data.eval[i].id : i \in DOMAIN data.eval} = LineIds(data.eval)
      BY DEF LineIds
    <2>3. {r.id : r \in ToSet(job.train) \union ToSet(job.eval)}
            = LineIds(job.train) \union LineIds(job.eval)
      BY DEF LineIds, ToSet
    <2>4. trained \intersect LineIds(data.eval) = {}
      BY <1>1, <2>1, PrepareIds DEF DataInv
    <2>5. pc \in Loop => data = Prepare(job) /\ trained = LineIds(Prepare(job).train)
      BY <1>1 DEF DataInv, Running
    <2>6. pc \in Loop =>
            /\ trained \union LineIds(data.eval) = LineIds(job.train) \union LineIds(job.eval)
            /\ data.train # <<>>
      BY <2>1, <2>5, PrepareIds
    <2>. QED
      BY <2>2, <2>3, <2>4, <2>6 DEF NoLeak
  <1>2. Spec => []DataInv
    BY InitData, NextData, PTL DEF Spec
  <1>. QED
    BY <1>1, <1>2, TrainingInductive, PTL

\* Whatever file a label is in, the model has an output for it, and O is the
\* first where tokens are classified (data.py:73-113, 139-146).
THEOREM LabelsAreKnown == Spec => []LabelsKnown
  <1>1. ASSUME IInv, Given PROVE LabelsKnown
    <2>1. job \in Jobs
      BY <1>1 DEF IInv, TypeInv
    <2>2. CASE data = Prepare(job)
      <3>1. CASE job.task = "regression"
        BY <3>1 DEF LabelsKnown, Known
      <3>2. CASE job.task # "regression"
        <4>1. \A i \in DOMAIN data.train : ToSet(data.train[i].tags) \subseteq ToSet(data.labels)
          BY <2>1, <2>2, <3>2, PrepareKnows
        <4>2. Known
          BY <2>1, <2>2, <3>2, PrepareKnows DEF Known
        <4>. QED
          BY <2>1, <2>2, <3>2, <4>1, <4>2, PrepareLabels DEF LabelsKnown
      <3>. QED
        BY <3>1, <3>2
    <2>3. CASE data.train = <<>> /\ data.eval = <<>> /\ data.labels = <<>>
      <3>1. ToSet(data.labels) = {}
        BY <2>3 DEF ToSet
      <3>. QED
        BY <2>3, <3>1 DEF LabelsKnown, Known
    <2>. QED
      BY <1>1, <2>2, <2>3 DEF Given
  <1>2. Spec => []Given
    BY InitGiven, NextGiven, PTL DEF Spec
  <1>. QED
    BY <1>1, <1>2, TrainingInductive, PTL

\* The model is scored on every word it saw, once, by the word's own tag, and on
\* nothing else, whatever the lengths of the rows and the batches
\* (training.py:195-213, 225-232, 328-336, 540-548).
THEOREM WordsAreScoredOnce == Spec => []WordsScoredOnce
  <1>1. ASSUME IInv, Given PROVE WordsScoredOnce
    <2> SUFFICES ASSUME pc = "succeeded", job.task = "token"
                 PROVE  scored = [r \in DOMAIN data.eval |->
                          LET seen == SeenWords(data.eval[r])
                          IN  [i \in DOMAIN seen |-> data.eval[r].tags[seen[i]]]]
      BY DEF WordsScoredOnce
    <2> DEFINE rows == data.eval
               labels == data.labels
               gold == Gold(rows, labels, job.maxLength, job.evalBatch)
               Tags(r) == LET seen == SeenWords(rows[r])
                          IN  [i \in DOMAIN seen |-> rows[r].tags[seen[i]]]
    <2>1. /\ job \in Jobs /\ data = Prepare(job) /\ scored = Reported
          /\ Accepts(job.train, job.task) /\ (job.eval # <<>> => Accepts(job.eval, job.task))
      BY <1>1 DEF IInv, TypeInv, Given
    <2>2. CASE rows = <<>>
      BY <2>1, <2>2 DEF Reported
    <2>3. CASE rows # <<>>
      <3>1. /\ rows \in Seq(Lines) /\ labels \in Seq(Nat)
            /\ job.maxLength \in Nat /\ job.maxLength >= 2 /\ job.evalBatch \in Nat \ {0}
        BY <2>1, PrepareRows, PrepareLabels, UploadTypes
      <3>2. \A i \in DOMAIN rows : Proper(rows[i], labels)
        BY <2>1, EvalRowsAreProper
      <3> HIDE DEF rows, labels
      <3>3. ASSUME NEW r \in DOMAIN rows PROVE TrueSeqs(gold, labels)[r] = Tags(r)
        <4>1. Tags(r) = LET seen == Ascending(ToSet(KeptPieces(rows[r], job.maxLength)))
                        IN  [i \in DOMAIN seen |-> rows[r].tags[seen[i]]]
          BY DEF SeenWords
        <4> HIDE DEF Tags
        <4>. QED
          BY ONLY <3>1, <3>2, <3>3, <4>1, ScoredRow
      <3>4. DOMAIN gold = DOMAIN rows
        BY DEF Gold
      <3>5. TrueSeqs(gold, labels) = [r \in DOMAIN rows |-> TrueSeqs(gold, labels)[r]]
        BY <3>4 DEF TrueSeqs
      <3>6. scored = TrueSeqs(gold, labels)
        BY <2>1, <2>3 DEF Reported, rows, labels
      <3> HIDE DEF gold, Tags
      <3>7. scored = [r \in DOMAIN rows |-> Tags(r)]
        BY <3>3, <3>5, <3>6
      <3>. QED
        BY <3>7 DEF Tags, rows
    <2>. QED
      BY <2>2, <2>3
  <1>2. Spec => []Given
    BY InitGiven, NextGiven, PTL DEF Spec
  <1>. QED
    BY <1>1, <1>2, TrainingInductive, PTL

=============================================================================
