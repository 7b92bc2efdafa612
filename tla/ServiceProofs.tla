---------------------------- MODULE ServiceProofs ---------------------------
(***************************************************************************)
(* What follows from the invariant of JobProofs, for all values of the     *)
(* constants.                                                              *)
(*                                                                         *)
(* The queue of QueueView is the queue JobService drives: each step of the *)
(* service maps to one step on that queue or to none.  The mapping forgets *)
(* the flags and the counts of epochs, which no query of the queue reads,  *)
(* and the answer under way.                                               *)
(*                                                                         *)
(* A cancel sticks: from the moment a flagged job is put back there is an  *)
(* invariant of that job (Doomed) which keeps it from succeeding.          *)
(***************************************************************************)
EXTENDS JobProofs

QueueStep == [Queue!StoreStep \/ Queue!GetQueue]_(Queue!vars)

\* A step that writes none of the columns the queue is made of is none of its.
LEMMA SameQueue == UNCHANGED <<status, rank, created, clock, every>> => QueueStep
  BY DEF QueueStep, Queue!vars, Queue!storeVars, Queue!requestVars

\* A job that is created comes to the queue.
LEMMA InsertIsSubmit ==
  ASSUME NEW j \in Ids, NEW r \in Ranks, NEW n \in Intervals, NEW t \in 0..MaxClock,
         Insert(j, r, n, t)
  PROVE  QueueStep
  <1>1. Queue!Insert(j, r, n, t)
    BY DEF Insert, Queue!Insert, Present, Queue!Present
  <1>2. Queue!Submit(j)
    BY <1>1 DEF Queue!Submit
  <1>. QED
    BY <1>2 DEF QueueStep, Queue!StoreStep, Queue!requestVars

\* A status other than running is written the way the queue expects it.
LEMMA WriteIsPauseOrEnd ==
  ASSUME NEW j \in Ids, NEW s \in Terminal \union {"paused"}, SetStatus(j, s)
  PROVE  QueueStep
  <1>1. CASE ~Present(j)
    BY <1>1, SameQueue DEF SetStatus, rowVars
  <1>2. CASE Present(j)
    <2>1. Queue!Present(j) /\ Queue!SetStatus(j, s)
      BY <1>2 DEF SetStatus, Queue!SetStatus, rowVars, Queue!rowVars, Present, Queue!Present
    <2>2. Queue!Pause(j) \/ Queue!End(j)
      BY <2>1 DEF Queue!Pause, Queue!End, Terminal, Queue!Terminal
    <2>. QED
      BY <2>2 DEF QueueStep, Queue!StoreStep, Queue!requestVars
  <1>. QED
    BY <1>1, <1>2

\* A row is deleted whatever its status.
LEMMA DeleteIsDelete ==
  ASSUME TypeInv, NEW j \in Ids, DeleteRow(j)
  PROVE  QueueStep
  <1>1. CASE ~Present(j)
    <2>1. status' = status
      BY <1>1 DEF DeleteRow, Present, TypeInv, TypeOK, StoreTypeOK
    <2>. QED
      BY <2>1, SameQueue DEF DeleteRow, rowVars
  <1>2. CASE Present(j)
    <2>1. Queue!Delete(j)
      BY <1>2 DEF DeleteRow, Queue!DeleteRow, rowVars, Queue!rowVars, Present, Queue!Present,
         Queue!Delete
    <2>. QED
      BY <2>1 DEF QueueStep, Queue!StoreStep, Queue!requestVars
  <1>. QED
    BY <1>1, <1>2

\* The worker claims the head of the queue, when no row says running.
LEMMA ClaimIsClaim ==
  ASSUME RunInv, NEW j \in Ids, Claim(j)
  PROVE  QueueStep
  <1>1. InterruptedJobs = {}
    BY DEF Claim, At, RunInv, RunningIsOwned, Owing, Body
  <1>2. Queue!ClaimNext(j) /\ Queue!InterruptedJobs = {}
    BY <1>1 DEF Claim, ClaimNext, Queue!ClaimNext, IsHead, Queue!IsHead, Waiting, Queue!Waiting,
       Runnable, Queue!Runnable, Before, Queue!Before, rowVars, Queue!rowVars,
       InterruptedJobs, Queue!InterruptedJobs
  <1>3. Queue!Claim(j)
    BY <1>2 DEF Queue!Claim
  <1>. QED
    BY <1>3 DEF QueueStep, Queue!StoreStep, Queue!requestVars

\* The queue is empty when the service is first started.
LEMMA InitQueue == Init => Queue!QueueInit
  BY DEF Init, StoreInit, Queue!QueueInit, Queue!StoreInit

\* Every step of the service is a step of the queue, or none.
LEMMA NextQueue == TypeInv /\ RunInv /\ [Next]_vars => QueueStep
  <1> SUFFICES ASSUME TypeInv, RunInv, [Next]_vars PROVE QueueStep
    OBVIOUS
  <1> /\ \A c \in Clients : op[c] # "idle" => on[c] \in Ids
      /\ pc \in Owing \union Purging \union {"recover_purge", "undo"} => cur \in Ids
    BY DEF TypeInv
  <1> USE DEF Owing, Body, Purging, Terminal, At, NotWorker, Goto, storeVars, rowVars, diskVars,
              workerVars, clientVars, procVars, histVars, leftVars
  <1>1. ASSUME NEW c \in Clients, Request(c) PROVE QueueStep
    BY <1>1, SameQueue DEF Request, CreateBegin, CancelRead, DeleteRead
  <1>2. ASSUME NEW c \in Clients, Handler(c) PROVE QueueStep
    <2>1. CASE CreateSave(c) \/ CreateReject(c) \/ CreateFail(c) \/ CancelPurge(c) \/ DeleteDir(c)
      BY <2>1, SameQueue DEF CreateSave, CreateReject, CreateFail, CancelPurge, DeleteDir
    <2>2. CASE CreateCommit(c)
      BY <2>2, InsertIsSubmit DEF CreateCommit, Return
    <2>3. CASE CancelNow(c)
      BY <2>3, WriteIsPauseOrEnd DEF CancelNow, Continue
    <2>4. CASE CancelFlag(c)
      BY <2>4, SameQueue DEF CancelFlag, RequestCancel
    <2>5. CASE DeleteRowStep(c)
      BY <2>5, DeleteIsDelete DEF DeleteRowStep, Return
    <2>. QED
      BY <1>2, <2>1, <2>2, <2>3, <2>4, <2>5 DEF Handler
  <1>3. CASE Recovery
    <2>1. ASSUME NEW j \in Ids, RecoverCancelled(j) \/ RecoverPaused(j) \/ RecoverFailed(j)
          PROVE  QueueStep
      BY <2>1, WriteIsPauseOrEnd DEF RecoverCancelled, RecoverPaused, RecoverFailed
    <2>2. CASE RecoverPurge \/ Serve
      BY <2>2, SameQueue DEF RecoverPurge, Serve
    <2>. QED
      BY <1>3, <2>1, <2>2 DEF Recovery
  <1>4. CASE Worker
    <2>1. ASSUME NEW j \in Ids, Claim(j) PROVE QueueStep
      BY <2>1, ClaimIsClaim
    <2>2. CASE LoopTest \/ FindNothing \/ OpenLog \/ Load \/ Resume
      BY <2>2, SameQueue DEF LoopTest, FindNothing, OpenLog, Load, Resume
    <2>3. CASE BatchCancelled \/ BatchInterrupted \/ Batches \/ Boundary
      BY <2>3, SameQueue DEF BatchCancelled, BatchInterrupted, Batches, Boundary
    <2>4. CASE SaveTmp \/ Rename \/ SaveModel \/ Tar \/ Purge \/ PurgeSucceeded
      BY <2>4, SameQueue DEF SaveTmp, Rename, SaveModel, Tar, Purge, PurgeSucceeded
    <2>5. CASE Record
      BY <2>5, SameQueue DEF Record, SetEpochs
    <2>6. CASE Succeed
      <3>1. CASE "artifact" \in disk[cur]
        BY <2>6, <3>1, WriteIsPauseOrEnd DEF Succeed
      <3>2. CASE "artifact" \notin disk[cur]
        BY <2>6, <3>2, SameQueue DEF Succeed
      <3>. QED
        BY <3>1, <3>2
    <2>7. CASE Pause
      BY <2>7, WriteIsPauseOrEnd DEF Pause, Finish
    <2>8. CASE Cancelled \/ Failed \/ Undo
      BY <2>8, WriteIsPauseOrEnd DEF Cancelled, Failed, Undo
    <2>. QED
      BY <1>4, <2>1, <2>2, <2>3, <2>4, <2>5, <2>6, <2>7, <2>8 DEF Worker
  <1>5. CASE Fault
    BY <1>5, SameQueue DEF Fault, LogFailsAfterSuccess, LogFails, Raise
  <1>6. CASE Start \/ Shutdown \/ Exit \/ Abandon \/ Crash
    BY <1>6, SameQueue DEF Start, Shutdown, Exit, Abandon, Crash
  <1>7. CASE UNCHANGED vars
    BY <1>7, SameQueue DEF vars
  <1>. QED
    BY <1>1, <1>2, <1>3, <1>4, <1>5, <1>6, <1>7 DEF Next

\* The service drives the queue of QueueView (db.py, with all that main.py and
\* worker.py write to it): it claims in the order of the queue and one job at a
\* time, across handlers, crashes and recoveries.
THEOREM DrivesTheQueue == Spec => QueueSpec
  <1>1. IInv /\ [Next]_vars => [Queue!StoreStep \/ Queue!GetQueue]_(Queue!vars)
    BY NextQueue DEF IInv, QueueStep
  <1>2. Spec => Queue!QueueInit /\ [][Queue!StoreStep \/ Queue!GetQueue]_(Queue!vars)
    BY <1>1, InitQueue, Inductive, PTL DEF Spec
  <1>. QED
    BY <1>2 DEF QueueSpec, Queue!QueueSpec

\* While a row lasts, so do the columns the order is made of.
LEMMA OrderIsKept ==
  ASSUME TypeInv, QueueStep, NEW j \in Ids, Queue!Present(j), Queue!Present(j)'
  PROVE  rank'[j] = rank[j] /\ created'[j] = created[j]
  <1> USE DEF TypeInv, TypeOK, StoreTypeOK
  <1>1. ASSUME NEW k \in Ids, Queue!Submit(k) PROVE rank'[j] = rank[j] /\ created'[j] = created[j]
    BY <1>1 DEF Queue!Submit, Queue!Insert, Queue!Present
  <1>2. ASSUME NEW k \in Ids, Queue!Claim(k) \/ Queue!Pause(k) \/ Queue!End(k) \/ Queue!Delete(k)
        PROVE  rank'[j] = rank[j] /\ created'[j] = created[j]
    BY <1>2 DEF Queue!Claim, Queue!ClaimNext, Queue!Pause, Queue!End, Queue!SetStatus,
       Queue!Delete, Queue!DeleteRow, Queue!rowVars
  <1>3. CASE Queue!GetQueue
    BY <1>3 DEF Queue!GetQueue, Queue!ReadRunning, Queue!ReadYielding, Queue!ReadWaiting,
       Queue!storeVars
  <1>4. CASE UNCHANGED Queue!vars
    BY <1>4 DEF Queue!vars, Queue!storeVars
  <1>. QED
    BY <1>1, <1>2, <1>3, <1>4 DEF QueueStep, Queue!StoreStep

\* No job of the service overtakes another while neither of them ends: not by a
\* preemption, a restart or a crash (db.py: priority and created_at are written
\* once; worker.recover_interrupted puts a job back where it was).
THEOREM NobodyOvertakes == Spec => Queue!NoOvertaking
  <1> DEFINE U == Queue!Unfinished
  <1>1. ASSUME IInv, [Next]_vars, NEW j \in U \intersect U', NEW k \in U \intersect U',
               Queue!Before(j, k)
        PROVE  Queue!Before(j, k)'
    <2>1. /\ j \in Ids /\ Queue!Present(j) /\ Queue!Present(j)'
          /\ k \in Ids /\ Queue!Present(k) /\ Queue!Present(k)'
      BY DEF Queue!Unfinished, Queue!Waiting, Queue!InterruptedJobs, Queue!Runnable, Queue!Present
    <2>2. TypeInv /\ QueueStep
      BY <1>1, NextQueue DEF IInv
    <2>3. /\ rank'[j] = rank[j] /\ created'[j] = created[j]
          /\ rank'[k] = rank[k] /\ created'[k] = created[k]
      BY <2>1, <2>2, OrderIsKept
    <2>. QED
      BY <1>1, <2>3 DEF Queue!Before
  <1>2. IInv /\ [Next]_vars =>
          [\A j, k \in U \intersect U' : Queue!Before(j, k) => Queue!Before(j, k)']_(Queue!storeVars)
    BY <1>1
  <1>. QED
    BY <1>2, Inductive, PTL DEF Spec, Queue!NoOvertaking

-----------------------------------------------------------------------------
(* A cancel sticks *)

\* The steps of a job that should_cancel has let pass for the last time.
Late == {"boundary", "save_tmp", "rename", "record", "save_model", "tar", "succeed"}

\* The job the worker is at does not wait for it, whatever raced with it.
HeldInv == pc \in Owing \union Purging \union {"undo"} => status[cur] \notin Runnable

\* The worker is at no job at first.
LEMMA InitHeldInv == Init => HeldInv
  BY DEF Init, HeldInv, Owing, Body, Purging

\* A job comes to wait by its create, by a pause, which lets go of it, and by the
\* recovery, when no worker runs.
LEMMA NextHeldInv == TypeInv /\ RunInv /\ IssuedInv /\ HeldInv /\ [Next]_vars => HeldInv'
  <1> SUFFICES ASSUME TypeInv, RunInv, IssuedInv, HeldInv, [Next]_vars PROVE HeldInv'
    OBVIOUS
  <1> /\ status \in [Ids -> Statuses \union {"absent"}]
      /\ \A c \in Clients : op[c] # "idle" => on[c] \in Ids
      /\ pc \in Owing \union Purging \union {"recover_purge", "undo"} => cur \in Ids
    BY DEF TypeInv, TypeOK, StoreTypeOK
  <1> \A c \in Clients : op[c] \in {"create", "commit"} => on[c] # cur
    BY DEF IssuedInv, Creating
  <1> svc = "starting" => pc \in {"off", "recover_purge"}
    BY DEF RunInv
  <1> USE DEF HeldInv, Owing, Body, Purging, Runnable, Terminal, Statuses, Present, At, Goto,
              NotWorker, storeVars, rowVars, diskVars, workerVars, clientVars, procVars, histVars, leftVars
  <1>1. ASSUME NEW c \in Clients, Request(c) PROVE HeldInv'
    BY <1>1 DEF Request, CreateBegin, CancelRead, DeleteRead
  <1>2. ASSUME NEW c \in Clients, Handler(c) PROVE HeldInv'
    <2>1. CASE CreateSave(c) \/ CreateReject(c) \/ CreateFail(c) \/ CancelPurge(c) \/ DeleteDir(c)
      BY <2>1 DEF CreateSave, CreateReject, CreateFail, CancelPurge, DeleteDir
    <2>2. CASE CreateCommit(c)
      BY <2>2 DEF CreateCommit, Return, Insert
    <2>3. CASE CancelNow(c)
      BY <2>3 DEF CancelNow, Continue, SetStatus
    <2>4. CASE CancelFlag(c)
      BY <2>4 DEF CancelFlag, RequestCancel
    <2>5. CASE DeleteRowStep(c)
      BY <2>5 DEF DeleteRowStep, Return, DeleteRow
    <2>. QED
      BY <1>2, <2>1, <2>2, <2>3, <2>4, <2>5 DEF Handler
  <1>3. CASE Recovery
    <2>1. ASSUME NEW j \in Ids, RecoverCancelled(j) \/ RecoverPaused(j) \/ RecoverFailed(j)
          PROVE  HeldInv'
      BY <2>1 DEF RecoverCancelled, RecoverPaused, RecoverFailed, Recovering
    <2>2. CASE RecoverPurge \/ Serve
      BY <2>2 DEF RecoverPurge, Serve
    <2>. QED
      BY <1>3, <2>1, <2>2 DEF Recovery
  <1>4. CASE Worker
    <2>1. ASSUME NEW j \in Ids, Claim(j) PROVE HeldInv'
      BY <2>1 DEF Claim, ClaimNext
    <2>2. CASE LoopTest \/ FindNothing \/ OpenLog \/ Load \/ Resume
      BY <2>2 DEF LoopTest, FindNothing, OpenLog, Load, Resume
    <2>3. CASE BatchCancelled \/ BatchInterrupted \/ Batches \/ Boundary
      BY <2>3 DEF BatchCancelled, BatchInterrupted, Batches, Boundary
    <2>4. CASE SaveTmp \/ Rename \/ Record \/ SaveModel \/ Tar
      BY <2>4 DEF SaveTmp, Rename, Record, SetEpochs, SaveModel, Tar
    <2>5. CASE Succeed
      BY <2>5 DEF Succeed, SetStatus
    <2>6. CASE Pause \/ Purge \/ PurgeSucceeded
      BY <2>6 DEF Pause, Purge, PurgeSucceeded, Finish
    <2>7. CASE Cancelled \/ Failed \/ Undo
      BY <2>7 DEF Cancelled, Failed, Undo, SetStatus
    <2>. QED
      BY <1>4, <2>1, <2>2, <2>3, <2>4, <2>5, <2>6, <2>7 DEF Worker
  <1>5. CASE Fault
    BY <1>5 DEF Fault, LogFailsAfterSuccess, LogFails, Raise
  <1>6. CASE Start \/ Shutdown \/ Exit \/ Abandon \/ Crash
    BY <1>6 DEF Start, Shutdown, Exit, Abandon, Crash, Down
  <1>7. CASE UNCHANGED vars
    BY <1>7 DEF vars
  <1>. QED
    BY <1>1, <1>2, <1>3, <1>4, <1>5, <1>6, <1>7 DEF Next

\* Job j has a cancel coming: the flag is set, no create can clear it, and the
\* worker is past its last look at it only if the row is gone.
Doomed(j) ==
  /\ j \in issued /\ cancel[j] /\ status[j] # "succeeded"
  /\ \A c \in Clients : on[c] = j => op[c] \notin {"create", "commit"}
  /\ cur = j /\ pc \in Late => ~Present(j)

\* A job that is put back with its flag set has one coming.
LEMMA PausedIsDoomed ==
  ASSUME TypeInv, RunInv, IssuedInv, HeldInv, NEW j \in Ids, status[j] = "paused", cancel[j]
  PROVE  Doomed(j)
  <1>1. j \in issued
    BY DEF IssuedInv, Present
  <1>2. \A c \in Clients : on[c] = j => op[c] \notin {"create", "commit"}
    BY DEF IssuedInv, Creating, Present
  <1>3. ~(cur = j /\ pc \in Late)
    BY DEF HeldInv, Late, Owing, Body, Runnable
  <1>. QED
    BY <1>1, <1>2, <1>3 DEF Doomed

\* Nothing keeps it from coming.
LEMMA DoomedStays ==
  ASSUME TypeInv, IssuedInv, [Next]_vars, NEW j \in Ids, Doomed(j)
  PROVE  Doomed(j)'
  <1> /\ status \in [Ids -> Statuses \union {"absent"}]
      /\ cancel \in [Ids -> BOOLEAN]
      /\ op \in [Clients -> HandlerSteps \union {"idle"}]
      /\ on \in [Clients -> Ids \union {NoJob}]
      /\ \A c \in Clients : op[c] # "idle" => on[c] \in Ids
      /\ pc \in Owing \union Purging \union {"recover_purge", "undo"} => cur \in Ids
    BY DEF TypeInv, TypeOK, StoreTypeOK
  <1> NoJob # j
    BY IdsAssumption DEF NoJob
  <1> USE DEF Doomed, Late, Owing, Body, Purging, Present, At, Goto, NotWorker,
              storeVars, rowVars, diskVars, workerVars, clientVars, procVars, histVars, leftVars
  <1>1. ASSUME NEW c \in Clients, Request(c) PROVE Doomed(j)'
    <2>1. ASSUME NEW k \in Ids, CreateBegin(c, k) PROVE Doomed(j)'
      BY <2>1 DEF CreateBegin, Begin
    <2>2. ASSUME NEW k \in Ids, CancelRead(c, k) \/ DeleteRead(c, k) PROVE Doomed(j)'
      BY <2>2 DEF CancelRead, DeleteRead, Begin
    <2>. QED
      BY <1>1, <2>1, <2>2 DEF Request
  <1>2. ASSUME NEW c \in Clients, Handler(c) PROVE Doomed(j)'
    <2>1. CASE CreateSave(c) \/ CreateReject(c) \/ CreateFail(c)
      BY <2>1 DEF CreateSave, CreateReject, CreateFail, Continue, Return
    <2>2. CASE CreateCommit(c)
      BY <2>2 DEF CreateCommit, Return, Insert
    <2>3. CASE CancelNow(c)
      BY <2>3 DEF CancelNow, Continue, SetStatus
    <2>4. CASE CancelPurge(c) \/ DeleteDir(c)
      BY <2>4 DEF CancelPurge, DeleteDir, Continue, Return
    <2>5. CASE CancelFlag(c)
      BY <2>5 DEF CancelFlag, Return, RequestCancel
    <2>6. CASE DeleteRowStep(c)
      BY <2>6 DEF DeleteRowStep, Return, DeleteRow
    <2>. QED
      BY <1>2, <2>1, <2>2, <2>3, <2>4, <2>5, <2>6 DEF Handler
  <1>3. CASE Recovery
    <2>1. ASSUME NEW k \in Ids, RecoverCancelled(k) \/ RecoverPaused(k) \/ RecoverFailed(k)
          PROVE  Doomed(j)'
      BY <2>1 DEF RecoverCancelled, RecoverPaused, RecoverFailed, Recovering, SetStatus,
         InterruptedJobs
    <2>2. CASE RecoverPurge \/ Serve
      BY <2>2 DEF RecoverPurge, Serve
    <2>. QED
      BY <1>3, <2>1, <2>2 DEF Recovery
  <1>4. CASE Worker
    <2>1. ASSUME NEW k \in Ids, Claim(k) PROVE Doomed(j)'
      BY <2>1 DEF Claim, ClaimNext
    <2>2. CASE LoopTest \/ FindNothing \/ OpenLog \/ Load \/ Resume
      BY <2>2 DEF LoopTest, FindNothing, OpenLog, Load, Resume
    <2>3. CASE BatchCancelled \/ BatchInterrupted
      BY <2>3 DEF BatchCancelled, BatchInterrupted
    <2>4. CASE Batches
      BY <2>4 DEF Batches, CancelSeen
    <2>5. CASE Boundary
      BY <2>5 DEF Boundary
    <2>6. CASE SaveTmp \/ Rename \/ Record \/ SaveModel \/ Tar
      BY <2>6 DEF SaveTmp, Rename, Record, SetEpochs, SaveModel, Tar
    <2>7. CASE Succeed
      BY <2>7 DEF Succeed, SetStatus
    <2>8. CASE Pause \/ Purge \/ PurgeSucceeded
      BY <2>8 DEF Pause, Purge, PurgeSucceeded, Finish, SetStatus
    <2>9. CASE Cancelled \/ Failed \/ Undo
      BY <2>9 DEF Cancelled, Failed, Undo, SetStatus
    <2>. QED
      BY <1>4, <2>1, <2>2, <2>3, <2>4, <2>5, <2>6, <2>7, <2>8, <2>9 DEF Worker
  <1>5. CASE Fault
    BY <1>5 DEF Fault, LogFailsAfterSuccess, LogFails, Raise
  <1>6. CASE Start \/ Shutdown \/ Exit \/ Abandon
    BY <1>6 DEF Start, Shutdown, Exit, Abandon, Down
  <1>7. CASE Crash
    BY <1>7 DEF Crash, Down
  <1>8. CASE UNCHANGED vars
    BY <1>8 DEF vars
  <1>. QED
    BY <1>1, <1>2, <1>3, <1>4, <1>5, <1>6, <1>7, <1>8 DEF Next

\* A job that is preempted or interrupted with a cancel accepted never succeeds
\* afterwards, through any number of attempts, restarts and crashes (main.py,
\* cancel_job; training.py, should_cancel; worker.py, recover_interrupted).
THEOREM CancelsStick == Spec => CancelSticks
  <1>1. Spec => []HeldInv
    <2>1. IInv /\ HeldInv /\ [Next]_vars => HeldInv'
      BY NextHeldInv DEF IInv
    <2>. QED
      BY <2>1, InitHeldInv, Inductive, PTL DEF Spec
  <1>2. ASSUME []IInv, []HeldInv, [][Next]_vars
        PROVE  [](\A j \in Ids : status[j] = "paused" /\ cancel[j] => [](status[j] # "succeeded"))
    <2>1. ASSUME NEW j \in Ids
          PROVE  status[j] = "paused" /\ cancel[j] => [](status[j] # "succeeded")
      <3>1. IInv /\ HeldInv /\ (status[j] = "paused" /\ cancel[j]) => Doomed(j)
        BY PausedIsDoomed DEF IInv
      <3>2. IInv /\ Doomed(j) /\ [Next]_vars => Doomed(j)'
        BY DoomedStays DEF IInv
      <3>3. Doomed(j) => status[j] # "succeeded"
        BY DEF Doomed
      <3>. QED
        BY <1>2, <3>1, <3>2, <3>3, PTL
    <2>2. \A j \in Ids : status[j] = "paused" /\ cancel[j] => [](status[j] # "succeeded")
      BY <2>1
    <2>. QED
      BY <2>2, PTL
  <1>. QED
    BY <1>1, <1>2, Inductive, PTL DEF Spec, CancelSticks

=============================================================================
