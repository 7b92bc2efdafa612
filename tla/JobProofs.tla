------------------------------ MODULE JobProofs -----------------------------
(***************************************************************************)
(* Proofs about JobService, for all values of its constants: any number of *)
(* jobs, requests, epochs and restarts, and any combination of faults.     *)
(*                                                                         *)
(* The inductive invariant is a conjunction of parts, each proved by a     *)
(* lemma from the parts before it:                                         *)
(*   TypeInv    the types, and which epochs each worker step can be at;    *)
(*   RunInv     a running row is in the worker's hands;                    *)
(*   IssuedInv  a job that is being created is nobody else's;              *)
(*   OwnInv     a job in the worker's hands is a running row;              *)
(*   FilesInv   a row has its directory, a succeeded one its artifact;     *)
(*   PurgeInv   what a request purges stays purged;                        *)
(*   CkptInv    the checkpoint, its temporary file and epochs_completed;   *)
(*   YieldInv   the local yielding is set only on the way to a pause;      *)
(*   LossInv    the epochs at which a checkpoint was due are in it.        *)
(***************************************************************************)
EXTENDS JobProperties, TLAPS

-----------------------------------------------------------------------------
(* Types *)

\* A request under way has a job, and so has a worker that is at one.
TypeInv ==
  /\ TypeOK
  /\ \A c \in Clients : op[c] # "idle" => on[c] \in Ids
  /\ pc \in Owing \union Purging \union {"recover_purge", "undo"} => cur \in Ids
  /\ pc \in {"batch", "save_tmp", "rename", "record"} => epoch < Epochs
  /\ \A j \in Ids : ckpt[j] < Epochs

\* The initial state is typed.
LEMMA InitTypeInv == Init => TypeInv
  <1> SUFFICES ASSUME Init PROVE TypeInv
    OBVIOUS
  <1>1. yielding \in BOOLEAN /\ cancel \in [Ids -> BOOLEAN]
    BY DEF Init, StoreInit
  <1>2. QED
    BY <1>1, EpochsAssumption, RestartsAssumption, ClockAssumption
  DEF Init, StoreInit, TypeInv, TypeOK, StoreTypeOK, NoJob, Owing, Body, Purging,
      WorkerSteps, Statuses, Runnable, Terminal

\* Every step keeps the types, and training.run never passes its last epoch.
LEMMA NextTypeInv == TypeInv /\ [Next]_vars => TypeInv'
  <1> SUFFICES ASSUME TypeInv, [Next]_vars PROVE TypeInv'
    OBVIOUS
  <1> USE EpochsAssumption, RestartsAssumption, ClockAssumption, RanksAssumption,
          IntervalsAssumption
      DEF TypeInv, TypeOK, StoreTypeOK, Owing, Body, Purging, WorkerSteps, HandlerSteps,
          Statuses, Runnable, Terminal, Files, storeVars, rowVars, diskVars, workerVars,
          clientVars, procVars, histVars, leftVars, NoJob, Present
  <1>1. ASSUME NEW c \in Clients, Request(c) PROVE TypeInv'
    <2>1. ASSUME NEW j \in Ids, CreateBegin(c, j) PROVE TypeInv'
      BY <2>1 DEF CreateBegin, Begin
    <2>2. ASSUME NEW j \in Ids, CancelRead(c, j) PROVE TypeInv'
      BY <2>2 DEF CancelRead, Begin
    <2>3. ASSUME NEW j \in Ids, DeleteRead(c, j) PROVE TypeInv'
      BY <2>3 DEF DeleteRead, Begin
    <2>4. QED
      BY <1>1, <2>1, <2>2, <2>3 DEF Request
  <1>2. ASSUME NEW c \in Clients, Handler(c) PROVE TypeInv'
    <2> USE DEF Continue, Return, PurgeJob, PurgeCheckpoint, SetStatus
    <2>1. CASE CreateSave(c)
      BY <2>1 DEF CreateSave
    <2>2. CASE CreateReject(c)
      BY <2>2 DEF CreateReject
    <2>3. CASE CreateCommit(c)
      BY <2>3 DEF CreateCommit, Insert
    <2>4. CASE CreateFail(c)
      BY <2>4 DEF CreateFail
    <2>5. CASE CancelNow(c)
      BY <2>5 DEF CancelNow
    <2>6. CASE CancelPurge(c)
      BY <2>6 DEF CancelPurge
    <2>7. CASE CancelFlag(c)
      BY <2>7 DEF CancelFlag, RequestCancel
    <2>8. CASE DeleteDir(c)
      BY <2>8 DEF DeleteDir
    <2>9. CASE DeleteRowStep(c)
      BY <2>9 DEF DeleteRowStep, DeleteRow
    <2>10. QED
      BY <1>2, <2>1, <2>2, <2>3, <2>4, <2>5, <2>6, <2>7, <2>8, <2>9 DEF Handler
  <1>3. CASE Start
    BY <1>3 DEF Start
  <1>4. CASE Recovery
    <2> USE DEF Recovering, SetStatus, InterruptedJobs
    <2>1. ASSUME NEW j \in Ids, RecoverCancelled(j) PROVE TypeInv'
      BY <2>1 DEF RecoverCancelled
    <2>2. ASSUME NEW j \in Ids, RecoverPaused(j) PROVE TypeInv'
      BY <2>2 DEF RecoverPaused
    <2>3. ASSUME NEW j \in Ids, RecoverFailed(j) PROVE TypeInv'
      BY <2>3 DEF RecoverFailed
    <2>4. CASE RecoverPurge
      BY <2>4 DEF RecoverPurge, PurgeCheckpoint
    <2>5. CASE Serve
      BY <2>5 DEF Serve
    <2>6. QED
      BY <1>4, <2>1, <2>2, <2>3, <2>4, <2>5 DEF Recovery
  <1>5. CASE Worker
    <2> USE DEF Goto, At, Finish, NotWorker, SetStatus
    <2>1. CASE LoopTest
      BY <2>1 DEF LoopTest
    <2>2. CASE FindNothing
      BY <2>2 DEF FindNothing
    <2>3. ASSUME NEW j \in Ids, Claim(j) PROVE TypeInv'
      BY <2>3 DEF Claim, ClaimNext
    <2>4. CASE OpenLog
      BY <2>4 DEF OpenLog
    <2>5. CASE Load
      BY <2>5 DEF Load
    <2>6. CASE Resume
      BY <2>6 DEF Resume
    <2>7. CASE BatchCancelled
      BY <2>7 DEF BatchCancelled
    <2>8. CASE BatchInterrupted
      BY <2>8 DEF BatchInterrupted
    <2>9. CASE Batches
      BY <2>9 DEF Batches
    <2>10. CASE Boundary
      BY <2>10 DEF Boundary, Yield, Due, CanCheckpoint
    <2>11. CASE SaveTmp
      BY <2>11 DEF SaveTmp
    <2>12. CASE Rename
      BY <2>12 DEF Rename
    <2>13. CASE Record
      BY <2>13 DEF Record, SetEpochs
    <2>14. CASE SaveModel
      BY <2>14 DEF SaveModel
    <2>15. CASE Tar
      BY <2>15 DEF Tar
    <2>16. CASE Succeed
      BY <2>16 DEF Succeed
    <2>17. CASE Pause
      <3>1. yielding' \in BOOLEAN
        BY <2>17 DEF Pause
      <3>2. QED
        BY <2>17, <3>1 DEF Pause
    <2>18. CASE Cancelled
      BY <2>18 DEF Cancelled
    <2>19. CASE Failed
      BY <2>19 DEF Failed
    <2>20. CASE Purge
      <3>1. yielding' \in BOOLEAN
        BY <2>20 DEF Purge
      <3>2. QED
        BY <2>20, <3>1 DEF Purge, PurgeCheckpoint
    <2>21. CASE PurgeSucceeded
      <3>1. yielding' \in BOOLEAN
        BY <2>21 DEF PurgeSucceeded
      <3>2. QED
        BY <2>21, <3>1 DEF PurgeSucceeded, PurgeCheckpoint
    <2>22. CASE Undo
      BY <2>22 DEF Undo
    <2>23. QED
      BY <1>5, <2>1, <2>2, <2>3, <2>4, <2>5, <2>6, <2>7, <2>8, <2>9, <2>10, <2>11, <2>12,
         <2>13, <2>14, <2>15, <2>16, <2>17, <2>18, <2>19, <2>20, <2>21, <2>22 DEF Worker
  <1>6. CASE Fault
    <2> USE DEF Goto, At
    <2>1. CASE LogFailsAfterSuccess
      BY <2>1 DEF LogFailsAfterSuccess, PurgeCheckpoint, NotWorker
    <2>2. CASE LogFails
      BY <2>2 DEF LogFails, NotWorker
    <2>3. CASE Raise
      BY <2>3 DEF Raise, NotWorker
    <2>4. QED
      BY <1>6, <2>1, <2>2, <2>3 DEF Fault
  <1>7. CASE Shutdown
    BY <1>7 DEF Shutdown
  <1>8. CASE Exit
    <2>1. yielding' \in BOOLEAN
      BY <1>8 DEF Exit, Down, Ended
    <2>2. QED
      BY <1>8, <2>1 DEF Exit, Down, Ended
  <1>9. CASE Abandon
    <2>1. yielding' \in BOOLEAN
      BY <1>9 DEF Abandon, Down
    <2>2. QED
      BY <1>9, <2>1 DEF Abandon, Down, Ended, Leave, Apart, Unpurged
  <1>10. CASE Crash
    <2>1. yielding' \in BOOLEAN
      BY <1>10 DEF Crash, Down
    <2>2. QED
      BY <1>10, <2>1 DEF Crash, Down, Leave, Apart, Unpurged
  <1>11. CASE UNCHANGED vars
    BY <1>11 DEF vars
  <1>12. QED
    BY <1>1, <1>2, <1>3, <1>4, <1>5, <1>6, <1>7, <1>8, <1>9, <1>10, <1>11 DEF Next

-----------------------------------------------------------------------------
(* A running row is in the worker's hands *)

RunInv ==
  /\ svc = "down" => pc = "off"
  /\ svc = "starting" => pc \in {"off", "recover_purge"}
  /\ Working => pc \notin {"off", "recover_purge"}
  /\ RunningIsOwned
  /\ AtMostOneRunning

\* No row is running at first.
LEMMA InitRunInv == Init => RunInv
  BY DEF Init, StoreInit, RunInv, RunningIsOwned, AtMostOneRunning, InterruptedJobs, Working

\* Only Claim makes a row running, and it is taken when the worker is at no
\* job; the worker leaves a job only by writing another status, or dead.
LEMMA NextRunInv == TypeInv /\ RunInv /\ [Next]_vars => RunInv'
  <1> SUFFICES ASSUME TypeInv, RunInv, [Next]_vars PROVE RunInv'
    OBVIOUS
  <1> status \in [Ids -> Statuses \union {"absent"}]
    BY DEF TypeInv, TypeOK, StoreTypeOK
  <1> USE DEF RunInv, RunningIsOwned, AtMostOneRunning, InterruptedJobs, Working, Waiting,
              Present,
              Owing, Body, Purging, Statuses, Runnable, Terminal, At, NotWorker,
              storeVars, rowVars, diskVars, workerVars, clientVars, procVars
  <1>1. ASSUME NEW c \in Clients, Request(c) PROVE RunInv'
    <2>1. ASSUME NEW j \in Ids, CreateBegin(c, j) PROVE RunInv'
      BY <2>1 DEF CreateBegin, Begin
    <2>2. ASSUME NEW j \in Ids, CancelRead(c, j) PROVE RunInv'
      BY <2>2 DEF CancelRead, Begin
    <2>3. ASSUME NEW j \in Ids, DeleteRead(c, j) PROVE RunInv'
      BY <2>3 DEF DeleteRead, Begin
    <2>4. QED
      BY <1>1, <2>1, <2>2, <2>3 DEF Request
  <1>2. ASSUME NEW c \in Clients, Handler(c) PROVE RunInv'
    <2>1. CASE CreateSave(c)
      BY <2>1 DEF CreateSave, Continue
    <2>2. CASE CreateReject(c)
      BY <2>2 DEF CreateReject, Return, PurgeJob
    <2>3. CASE CreateCommit(c)
      BY <2>3 DEF CreateCommit, Return, Insert
    <2>4. CASE CreateFail(c)
      BY <2>4 DEF CreateFail, Return
    <2>5. CASE CancelNow(c)
      BY <2>5 DEF CancelNow, Continue, SetStatus
    <2>6. CASE CancelPurge(c)
      BY <2>6 DEF CancelPurge, Return, PurgeCheckpoint
    <2>7. CASE CancelFlag(c)
      BY <2>7 DEF CancelFlag, Return, RequestCancel
    <2>8. CASE DeleteDir(c)
      BY <2>8 DEF DeleteDir, Continue, PurgeJob
    <2>9. CASE DeleteRowStep(c)
      BY <2>9 DEF DeleteRowStep, Return, DeleteRow
    <2>10. QED
      BY <1>2, <2>1, <2>2, <2>3, <2>4, <2>5, <2>6, <2>7, <2>8, <2>9 DEF Handler
  <1>3. CASE Start
    BY <1>3 DEF Start
  <1>4. CASE Recovery
    <2>1. ASSUME NEW j \in Ids, RecoverCancelled(j) PROVE RunInv'
      BY <2>1 DEF RecoverCancelled, Recovering, SetStatus
    <2>2. ASSUME NEW j \in Ids, RecoverPaused(j) PROVE RunInv'
      BY <2>2 DEF RecoverPaused, Recovering, SetStatus
    <2>3. ASSUME NEW j \in Ids, RecoverFailed(j) PROVE RunInv'
      BY <2>3 DEF RecoverFailed, Recovering, SetStatus
    <2>4. CASE RecoverPurge
      BY <2>4 DEF RecoverPurge, PurgeCheckpoint
    <2>5. CASE Serve
      BY <2>5 DEF Serve
    <2>6. QED
      BY <1>4, <2>1, <2>2, <2>3, <2>4, <2>5 DEF Recovery
  <1>5. CASE Worker
    <2>1. CASE LoopTest
      BY <2>1 DEF LoopTest, Goto
    <2>2. CASE FindNothing
      BY <2>2 DEF FindNothing, Goto
    <2>3. ASSUME NEW j \in Ids, Claim(j) PROVE RunInv'
      BY <2>3 DEF Claim, ClaimNext, IsHead
    <2>4. CASE OpenLog
      BY <2>4 DEF OpenLog, Goto
    <2>5. CASE Load
      BY <2>5 DEF Load, Goto
    <2>6. CASE Resume
      BY <2>6 DEF Resume
    <2>7. CASE BatchCancelled
      BY <2>7 DEF BatchCancelled, Goto
    <2>8. CASE BatchInterrupted
      BY <2>8 DEF BatchInterrupted, Goto
    <2>9. CASE Batches
      BY <2>9 DEF Batches
    <2>10. CASE Boundary
      BY <2>10 DEF Boundary
    <2>11. CASE SaveTmp
      BY <2>11 DEF SaveTmp, Goto
    <2>12. CASE Rename
      BY <2>12 DEF Rename, Goto
    <2>13. CASE Record
      BY <2>13 DEF Record, Goto, SetEpochs
    <2>14. CASE SaveModel
      BY <2>14 DEF SaveModel, Goto
    <2>15. CASE Tar
      BY <2>15 DEF Tar, Goto
    <2>16. CASE Succeed
      BY <2>16 DEF Succeed, Goto, SetStatus
    <2>17. CASE Pause
      BY <2>17 DEF Pause, Finish, SetStatus
    <2>18. CASE Cancelled
      BY <2>18 DEF Cancelled, Goto, SetStatus
    <2>19. CASE Failed
      BY <2>19 DEF Failed, Goto, SetStatus
    <2>20. CASE Purge
      BY <2>20 DEF Purge, Finish, PurgeCheckpoint
    <2>21. CASE PurgeSucceeded
      BY <2>21 DEF PurgeSucceeded, Finish, PurgeCheckpoint
    <2>22. CASE Undo
      BY <2>22 DEF Undo, Goto, SetStatus
    <2>23. QED
      BY <1>5, <2>1, <2>2, <2>3, <2>4, <2>5, <2>6, <2>7, <2>8, <2>9, <2>10, <2>11, <2>12,
         <2>13, <2>14, <2>15, <2>16, <2>17, <2>18, <2>19, <2>20, <2>21, <2>22 DEF Worker
  <1>6. CASE Fault
    <2>1. CASE LogFailsAfterSuccess
      BY <2>1 DEF LogFailsAfterSuccess, Goto, PurgeCheckpoint
    <2>2. CASE LogFails
      BY <2>2 DEF LogFails, Goto
    <2>3. CASE Raise
      BY <2>3 DEF Raise, Goto
    <2>4. QED
      BY <1>6, <2>1, <2>2, <2>3 DEF Fault
  <1>7. CASE Shutdown
    BY <1>7 DEF Shutdown
  <1>8. CASE Exit
    BY <1>8 DEF Exit, Down, Ended
  <1>9. CASE Abandon
    BY <1>9 DEF Abandon, Down, Ended, Leave, Apart, Unpurged
  <1>10. CASE Crash
    BY <1>10 DEF Crash, Down, Leave, Apart, Unpurged
  <1>11. CASE UNCHANGED vars
    BY <1>11 DEF vars
  <1>12. QED
    BY <1>1, <1>2, <1>3, <1>4, <1>5, <1>6, <1>7, <1>8, <1>9, <1>10, <1>11 DEF Next

-----------------------------------------------------------------------------
(* A job that is being created is nobody else's *)

Creating == {"create", "commit"}

IssuedInv ==
  /\ \A j \in Ids : Present(j) => j \in issued
  /\ raced \subseteq issued
  /\ cur \in Ids => cur \in issued
  /\ \A c \in Clients : op[c] # "idle" => on[c] \in issued
  /\ \A c \in Clients :
       op[c] \in Creating => ~Present(on[c]) /\ on[c] \notin raced /\ on[c] # cur
  /\ \A c, d \in Clients : c # d /\ op[c] \in Creating /\ op[d] # "idle" => on[d] # on[c]

\* No request is under way at first.
LEMMA InitIssuedInv == Init => IssuedInv
  BY IdsAssumption DEF Init, StoreInit, IssuedInv, Present, Creating, NoJob

\* No other request and no worker reaches a job that create_job is still making.
LEMMA NextIssuedInv == TypeInv /\ IssuedInv /\ [Next]_vars => IssuedInv'
  <1> SUFFICES ASSUME TypeInv, IssuedInv, [Next]_vars PROVE IssuedInv'
    OBVIOUS
  <1> /\ status \in [Ids -> Statuses \union {"absent"}]
      /\ op \in [Clients -> HandlerSteps \union {"idle"}]
      /\ on \in [Clients -> Ids \union {NoJob}]
      /\ \A c \in Clients : op[c] # "idle" => on[c] \in Ids
      /\ pc \in Owing \union Purging \union {"recover_purge", "undo"} => cur \in Ids
      /\ NoJob \notin Ids
    BY IdsAssumption DEF TypeInv, TypeOK, StoreTypeOK, NoJob
  <1> USE DEF IssuedInv, Creating, InterruptedJobs, Working, Waiting, Present, Owing, Body,
              Purging, Statuses, Runnable, Terminal, HandlerSteps, At, NotWorker,
              storeVars, rowVars, diskVars, workerVars, clientVars, procVars, histVars, leftVars
  <1>1. ASSUME NEW c \in Clients, Request(c) PROVE IssuedInv'
    <2>1. ASSUME NEW j \in Ids, CreateBegin(c, j) PROVE IssuedInv'
      BY <2>1 DEF CreateBegin, Begin
    <2>2. ASSUME NEW j \in Ids, CancelRead(c, j) PROVE IssuedInv'
      BY <2>2 DEF CancelRead, Begin
    <2>3. ASSUME NEW j \in Ids, DeleteRead(c, j) PROVE IssuedInv'
      BY <2>3 DEF DeleteRead, Begin
    <2>4. QED
      BY <1>1, <2>1, <2>2, <2>3 DEF Request
  <1>2. ASSUME NEW c \in Clients, Handler(c) PROVE IssuedInv'
    <2>1. CASE CreateSave(c)
      BY <2>1 DEF CreateSave, Continue
    <2>2. CASE CreateReject(c)
      BY <2>2 DEF CreateReject, Return, PurgeJob
    <2>3. CASE CreateCommit(c)
      BY <2>3 DEF CreateCommit, Return, Insert
    <2>4. CASE CreateFail(c)
      BY <2>4 DEF CreateFail, Return
    <2>5. CASE CancelNow(c)
      BY <2>5 DEF CancelNow, Continue, SetStatus
    <2>6. CASE CancelPurge(c)
      BY <2>6 DEF CancelPurge, Return, PurgeCheckpoint
    <2>7. CASE CancelFlag(c)
      BY <2>7 DEF CancelFlag, Return, RequestCancel
    <2>8. CASE DeleteDir(c)
      BY <2>8 DEF DeleteDir, Continue, PurgeJob
    <2>9. CASE DeleteRowStep(c)
      BY <2>9 DEF DeleteRowStep, Return, DeleteRow
    <2>10. QED
      BY <1>2, <2>1, <2>2, <2>3, <2>4, <2>5, <2>6, <2>7, <2>8, <2>9 DEF Handler
  <1>3. CASE Start
    BY <1>3 DEF Start
  <1>4. CASE Recovery
    <2>1. ASSUME NEW j \in Ids, RecoverCancelled(j) PROVE IssuedInv'
      BY <2>1 DEF RecoverCancelled, Recovering, SetStatus
    <2>2. ASSUME NEW j \in Ids, RecoverPaused(j) PROVE IssuedInv'
      BY <2>2 DEF RecoverPaused, Recovering, SetStatus
    <2>3. ASSUME NEW j \in Ids, RecoverFailed(j) PROVE IssuedInv'
      BY <2>3 DEF RecoverFailed, Recovering, SetStatus
    <2>4. CASE RecoverPurge
      BY <2>4 DEF RecoverPurge, PurgeCheckpoint
    <2>5. CASE Serve
      BY <2>5 DEF Serve
    <2>6. QED
      BY <1>4, <2>1, <2>2, <2>3, <2>4, <2>5 DEF Recovery
  <1>5. CASE Worker
    <2>1. CASE LoopTest
      BY <2>1 DEF LoopTest, Goto
    <2>2. CASE FindNothing
      BY <2>2 DEF FindNothing, Goto
    <2>3. ASSUME NEW j \in Ids, Claim(j) PROVE IssuedInv'
      BY <2>3 DEF Claim, ClaimNext, IsHead
    <2>4. CASE OpenLog
      BY <2>4 DEF OpenLog, Goto
    <2>5. CASE Load
      BY <2>5 DEF Load, Goto
    <2>6. CASE Resume
      BY <2>6 DEF Resume
    <2>7. CASE BatchCancelled
      BY <2>7 DEF BatchCancelled, Goto
    <2>8. CASE BatchInterrupted
      BY <2>8 DEF BatchInterrupted, Goto
    <2>9. CASE Batches
      BY <2>9 DEF Batches
    <2>10. CASE Boundary
      BY <2>10 DEF Boundary
    <2>11. CASE SaveTmp
      BY <2>11 DEF SaveTmp, Goto
    <2>12. CASE Rename
      BY <2>12 DEF Rename, Goto
    <2>13. CASE Record
      BY <2>13 DEF Record, Goto, SetEpochs
    <2>14. CASE SaveModel
      BY <2>14 DEF SaveModel, Goto
    <2>15. CASE Tar
      BY <2>15 DEF Tar, Goto
    <2>16. CASE Succeed
      BY <2>16 DEF Succeed, Goto, SetStatus
    <2>17. CASE Pause
      BY <2>17 DEF Pause, Finish, SetStatus
    <2>18. CASE Cancelled
      BY <2>18 DEF Cancelled, Goto, SetStatus
    <2>19. CASE Failed
      BY <2>19 DEF Failed, Goto, SetStatus
    <2>20. CASE Purge
      BY <2>20 DEF Purge, Finish, PurgeCheckpoint
    <2>21. CASE PurgeSucceeded
      BY <2>21 DEF PurgeSucceeded, Finish, PurgeCheckpoint
    <2>22. CASE Undo
      BY <2>22 DEF Undo, Goto, SetStatus
    <2>23. QED
      BY <1>5, <2>1, <2>2, <2>3, <2>4, <2>5, <2>6, <2>7, <2>8, <2>9, <2>10, <2>11, <2>12,
         <2>13, <2>14, <2>15, <2>16, <2>17, <2>18, <2>19, <2>20, <2>21, <2>22 DEF Worker
  <1>6. CASE Fault
    <2>1. CASE LogFailsAfterSuccess
      BY <2>1 DEF LogFailsAfterSuccess, Goto, PurgeCheckpoint
    <2>2. CASE LogFails
      BY <2>2 DEF LogFails, Goto
    <2>3. CASE Raise
      BY <2>3 DEF Raise, Goto
    <2>4. QED
      BY <1>6, <2>1, <2>2, <2>3 DEF Fault
  <1>7. CASE Shutdown
    BY <1>7 DEF Shutdown
  <1>8. CASE Exit
    BY <1>8 DEF Exit, Down, Ended
  <1>9. CASE Abandon
    BY <1>9 DEF Abandon, Down, Ended, Leave, Apart, Unpurged
  <1>10. CASE Crash
    BY <1>10 DEF Crash, Down, Leave, Apart, Unpurged
  <1>11. CASE UNCHANGED vars
    BY <1>11 DEF vars
  <1>12. QED
    BY <1>1, <1>2, <1>3, <1>4, <1>5, <1>6, <1>7, <1>8, <1>9, <1>10, <1>11 DEF Next

-----------------------------------------------------------------------------
(* A job in the worker's hands is a running row *)

\* The second part is why a delete that lost the race does not make the worker
\* train a job without a row: the job is then in raced.
OwnInv ==
  /\ OwnedIsRunning
  /\ \A c \in Clients : op[c] = "delete_row" /\ status[on[c]] = "running" => on[c] \in raced

\* The worker has no job at first.
LEMMA InitOwnInv == Init => OwnInv
  BY DEF Init, StoreInit, OwnInv, OwnedIsRunning, Working

\* A request that takes the worker's job away from it marks it as raced.
LEMMA NextOwnInv == TypeInv /\ RunInv /\ OwnInv /\ [Next]_vars => OwnInv'
  <1> SUFFICES ASSUME TypeInv, RunInv, OwnInv, [Next]_vars PROVE OwnInv'
    OBVIOUS
  <1> /\ status \in [Ids -> Statuses \union {"absent"}]
      /\ op \in [Clients -> HandlerSteps \union {"idle"}]
      /\ on \in [Clients -> Ids \union {NoJob}]
      /\ \A c \in Clients : op[c] # "idle" => on[c] \in Ids
      /\ pc \in Owing \union Purging \union {"recover_purge", "undo"} => cur \in Ids
      /\ svc \in {"down", "starting", "up", "stopping"}
    BY DEF TypeInv, TypeOK, StoreTypeOK
  <1> /\ svc = "starting" => pc \in {"off", "recover_purge"}
      /\ svc = "down" => pc = "off"
      /\ Working => pc \notin {"off", "recover_purge"}
    BY DEF RunInv
  <1> USE DEF OwnInv, OwnedIsRunning, InterruptedJobs, Working, Waiting, Present, Pending,
              Owing, Body,
              Purging, Statuses, Runnable, Terminal, HandlerSteps, At, NotWorker,
              storeVars, rowVars, diskVars, workerVars, clientVars, procVars, histVars, leftVars
  <1>1. ASSUME NEW c \in Clients, Request(c) PROVE OwnInv'
    <2>1. ASSUME NEW j \in Ids, CreateBegin(c, j) PROVE OwnInv'
      BY <2>1 DEF CreateBegin, Begin
    <2>2. ASSUME NEW j \in Ids, CancelRead(c, j) PROVE OwnInv'
      BY <2>2 DEF CancelRead, Begin
    <2>3. ASSUME NEW j \in Ids, DeleteRead(c, j) PROVE OwnInv'
      BY <2>3 DEF DeleteRead, Begin
    <2>4. QED
      BY <1>1, <2>1, <2>2, <2>3 DEF Request
  <1>2. ASSUME NEW c \in Clients, Handler(c) PROVE OwnInv'
    <2>1. CASE CreateSave(c)
      BY <2>1 DEF CreateSave, Continue
    <2>2. CASE CreateReject(c)
      BY <2>2 DEF CreateReject, Return, PurgeJob
    <2>3. CASE CreateCommit(c)
      BY <2>3 DEF CreateCommit, Return, Insert
    <2>4. CASE CreateFail(c)
      BY <2>4 DEF CreateFail, Return
    <2>5. CASE CancelNow(c)
      BY <2>5 DEF CancelNow, Continue, SetStatus
    <2>6. CASE CancelPurge(c)
      BY <2>6 DEF CancelPurge, Return, PurgeCheckpoint
    <2>7. CASE CancelFlag(c)
      BY <2>7 DEF CancelFlag, Return, RequestCancel
    <2>8. CASE DeleteDir(c)
      BY <2>8 DEF DeleteDir, Continue, PurgeJob
    <2>9. CASE DeleteRowStep(c)
      BY <2>9 DEF DeleteRowStep, Return, DeleteRow
    <2>10. QED
      BY <1>2, <2>1, <2>2, <2>3, <2>4, <2>5, <2>6, <2>7, <2>8, <2>9 DEF Handler
  <1>3. CASE Start
    BY <1>3 DEF Start
  <1>4. CASE Recovery
    <2>1. ASSUME NEW j \in Ids, RecoverCancelled(j) PROVE OwnInv'
      BY <2>1 DEF RecoverCancelled, Recovering, SetStatus
    <2>2. ASSUME NEW j \in Ids, RecoverPaused(j) PROVE OwnInv'
      BY <2>2 DEF RecoverPaused, Recovering, SetStatus
    <2>3. ASSUME NEW j \in Ids, RecoverFailed(j) PROVE OwnInv'
      BY <2>3 DEF RecoverFailed, Recovering, SetStatus
    <2>4. CASE RecoverPurge
      BY <2>4 DEF RecoverPurge, PurgeCheckpoint
    <2>5. CASE Serve
      BY <2>5 DEF Serve
    <2>6. QED
      BY <1>4, <2>1, <2>2, <2>3, <2>4, <2>5 DEF Recovery
  <1>5. CASE Worker
    <2>1. CASE LoopTest
      BY <2>1 DEF LoopTest, Goto
    <2>2. CASE FindNothing
      BY <2>2 DEF FindNothing, Goto
    <2>3. ASSUME NEW j \in Ids, Claim(j) PROVE OwnInv'
      BY <2>3 DEF Claim, ClaimNext, IsHead
    <2>4. CASE OpenLog
      BY <2>4 DEF OpenLog, Goto
    <2>5. CASE Load
      BY <2>5 DEF Load, Goto
    <2>6. CASE Resume
      BY <2>6 DEF Resume
    <2>7. CASE BatchCancelled
      BY <2>7 DEF BatchCancelled, Goto
    <2>8. CASE BatchInterrupted
      BY <2>8 DEF BatchInterrupted, Goto
    <2>9. CASE Batches
      BY <2>9 DEF Batches
    <2>10. CASE Boundary
      BY <2>10 DEF Boundary
    <2>11. CASE SaveTmp
      BY <2>11 DEF SaveTmp, Goto
    <2>12. CASE Rename
      BY <2>12 DEF Rename, Goto
    <2>13. CASE Record
      BY <2>13 DEF Record, Goto, SetEpochs
    <2>14. CASE SaveModel
      BY <2>14 DEF SaveModel, Goto
    <2>15. CASE Tar
      BY <2>15 DEF Tar, Goto
    <2>16. CASE Succeed
      BY <2>16 DEF Succeed, Goto, SetStatus
    <2>17. CASE Pause
      BY <2>17 DEF Pause, Finish, SetStatus
    <2>18. CASE Cancelled
      BY <2>18 DEF Cancelled, Goto, SetStatus
    <2>19. CASE Failed
      BY <2>19 DEF Failed, Goto, SetStatus
    <2>20. CASE Purge
      BY <2>20 DEF Purge, Finish, PurgeCheckpoint
    <2>21. CASE PurgeSucceeded
      BY <2>21 DEF PurgeSucceeded, Finish, PurgeCheckpoint
    <2>22. CASE Undo
      BY <2>22 DEF Undo, Goto, SetStatus
    <2>23. QED
      BY <1>5, <2>1, <2>2, <2>3, <2>4, <2>5, <2>6, <2>7, <2>8, <2>9, <2>10, <2>11, <2>12,
         <2>13, <2>14, <2>15, <2>16, <2>17, <2>18, <2>19, <2>20, <2>21, <2>22 DEF Worker
  <1>6. CASE Fault
    <2>1. CASE LogFailsAfterSuccess
      BY <2>1 DEF LogFailsAfterSuccess, Goto, PurgeCheckpoint
    <2>2. CASE LogFails
      BY <2>2 DEF LogFails, Goto
    <2>3. CASE Raise
      BY <2>3 DEF Raise, Goto
    <2>4. QED
      BY <1>6, <2>1, <2>2, <2>3 DEF Fault
  <1>7. CASE Shutdown
    BY <1>7 DEF Shutdown
  <1>8. CASE Exit
    BY <1>8 DEF Exit, Down, Ended
  <1>9. CASE Abandon
    BY <1>9 DEF Abandon, Down, Ended, Leave, Apart, Unpurged
  <1>10. CASE Crash
    BY <1>10 DEF Crash, Down, Leave, Apart, Unpurged
  <1>11. CASE UNCHANGED vars
    BY <1>11 DEF vars
  <1>12. QED
    BY <1>1, <1>2, <1>3, <1>4, <1>5, <1>6, <1>7, <1>8, <1>9, <1>10, <1>11 DEF Next

-----------------------------------------------------------------------------
(* A row has its files *)

FilesInv ==
  /\ \A c \in Clients : op[c] = "commit" => {"dir", "inputs"} \subseteq disk[on[c]]
  /\ \A c \in Clients : op[c] = "create" => "dir" \in disk[on[c]]
  /\ \A j \in Ids \ torn :
       Present(j) /\ ~({"dir", "inputs"} \subseteq disk[j]) => Pending("delete_row", j)
  /\ SucceededHasArtifact
  /\ DiesOnlyOnLostJob

\* There are no rows at first.
LEMMA InitFilesInv == Init => FilesInv
  BY DEF Init, StoreInit, FilesInv, SucceededHasArtifact, DiesOnlyOnLostJob, Present

\* The worker dies only for want of the directory, which its job has unless a
\* delete is about to remove the row, and by OwnInv the job is then in raced.
LEMMA NextFilesInv ==
  TypeInv /\ RunInv /\ IssuedInv /\ OwnInv /\ FilesInv /\ [Next]_vars => FilesInv'
  <1> SUFFICES ASSUME TypeInv, RunInv, IssuedInv, OwnInv, FilesInv, [Next]_vars PROVE FilesInv'
    OBVIOUS
  <1> /\ status \in [Ids -> Statuses \union {"absent"}]
      /\ disk \in [Ids -> SUBSET Files]
      /\ op \in [Clients -> HandlerSteps \union {"idle"}]
      /\ on \in [Clients -> Ids \union {NoJob}]
      /\ \A c \in Clients : op[c] # "idle" => on[c] \in Ids
      /\ pc \in Owing \union Purging \union {"recover_purge", "undo"} => cur \in Ids
    BY DEF TypeInv, TypeOK, StoreTypeOK
  <1> /\ \A c \in Clients : op[c] \in Creating => ~Present(on[c]) /\ on[c] # cur
      /\ \A c, d \in Clients : c # d /\ op[c] \in Creating /\ op[d] # "idle" => on[d] # on[c]
      /\ \A j \in Ids : Present(j) => j \in issued
      /\ \A c \in Clients : op[c] # "idle" => on[c] \in issued
    BY DEF IssuedInv
  <1> USE DEF FilesInv, SucceededHasArtifact, DiesOnlyOnLostJob, Creating, InterruptedJobs,
              Working, Waiting, Present, Pending, Owing, Body, Purging, Statuses, Runnable, Terminal,
              HandlerSteps, Files, At, NotWorker,
              storeVars, rowVars, diskVars, workerVars, clientVars, procVars, histVars, leftVars
  <1>1. ASSUME NEW c \in Clients, Request(c) PROVE FilesInv'
    <2>1. ASSUME NEW j \in Ids, CreateBegin(c, j) PROVE FilesInv'
      BY <2>1 DEF CreateBegin, Begin
    <2>2. ASSUME NEW j \in Ids, CancelRead(c, j) PROVE FilesInv'
      BY <2>2 DEF CancelRead, Begin
    <2>3. ASSUME NEW j \in Ids, DeleteRead(c, j) PROVE FilesInv'
      BY <2>3 DEF DeleteRead, Begin
    <2>4. QED
      BY <1>1, <2>1, <2>2, <2>3 DEF Request
  <1>2. ASSUME NEW c \in Clients, Handler(c) PROVE FilesInv'
    <2>1. CASE CreateSave(c)
      BY <2>1 DEF CreateSave, Continue
    <2>2. CASE CreateReject(c)
      BY <2>2 DEF CreateReject, Return, PurgeJob
    <2>3. CASE CreateCommit(c)
      BY <2>3 DEF CreateCommit, Return, Insert
    <2>4. CASE CreateFail(c)
      BY <2>4 DEF CreateFail, Return
    <2>5. CASE CancelNow(c)
      BY <2>5 DEF CancelNow, Continue, SetStatus
    <2>6. CASE CancelPurge(c)
      BY <2>6 DEF CancelPurge, Return, PurgeCheckpoint
    <2>7. CASE CancelFlag(c)
      BY <2>7 DEF CancelFlag, Return, RequestCancel
    <2>8. CASE DeleteDir(c)
      BY <2>8 DEF DeleteDir, Continue, PurgeJob
    <2>9. CASE DeleteRowStep(c)
      BY <2>9 DEF DeleteRowStep, Return, DeleteRow
    <2>10. QED
      BY <1>2, <2>1, <2>2, <2>3, <2>4, <2>5, <2>6, <2>7, <2>8, <2>9 DEF Handler
  <1>3. CASE Start
    BY <1>3 DEF Start
  <1>4. CASE Recovery
    <2>1. ASSUME NEW j \in Ids, RecoverCancelled(j) PROVE FilesInv'
      BY <2>1 DEF RecoverCancelled, Recovering, SetStatus
    <2>2. ASSUME NEW j \in Ids, RecoverPaused(j) PROVE FilesInv'
      BY <2>2 DEF RecoverPaused, Recovering, SetStatus
    <2>3. ASSUME NEW j \in Ids, RecoverFailed(j) PROVE FilesInv'
      BY <2>3 DEF RecoverFailed, Recovering, SetStatus
    <2>4. CASE RecoverPurge
      BY <2>4 DEF RecoverPurge, PurgeCheckpoint
    <2>5. CASE Serve
      BY <2>5 DEF Serve
    <2>6. QED
      BY <1>4, <2>1, <2>2, <2>3, <2>4, <2>5 DEF Recovery
  <1>5. CASE Worker
    <2>1. CASE LoopTest
      BY <2>1 DEF LoopTest, Goto
    <2>2. CASE FindNothing
      BY <2>2 DEF FindNothing, Goto
    <2>3. ASSUME NEW j \in Ids, Claim(j) PROVE FilesInv'
      BY <2>3 DEF Claim, ClaimNext, IsHead
    <2>4. CASE OpenLog
      <3>1. cur \in raced \union torn \/ "dir" \in disk[cur]
        BY <2>4 DEF OpenLog, Goto, OwnInv, OwnedIsRunning
      <3>2. QED
        BY <2>4, <3>1 DEF OpenLog, Goto
    <2>5. CASE Load
      BY <2>5 DEF Load, Goto
    <2>6. CASE Resume
      BY <2>6 DEF Resume
    <2>7. CASE BatchCancelled
      BY <2>7 DEF BatchCancelled, Goto
    <2>8. CASE BatchInterrupted
      BY <2>8 DEF BatchInterrupted, Goto
    <2>9. CASE Batches
      BY <2>9 DEF Batches
    <2>10. CASE Boundary
      BY <2>10 DEF Boundary
    <2>11. CASE SaveTmp
      BY <2>11 DEF SaveTmp, Goto
    <2>12. CASE Rename
      BY <2>12 DEF Rename, Goto
    <2>13. CASE Record
      BY <2>13 DEF Record, Goto, SetEpochs
    <2>14. CASE SaveModel
      BY <2>14 DEF SaveModel, Goto
    <2>15. CASE Tar
      BY <2>15 DEF Tar, Goto
    <2>16. CASE Succeed
      BY <2>16 DEF Succeed, Goto, SetStatus
    <2>17. CASE Pause
      BY <2>17 DEF Pause, Finish, SetStatus
    <2>18. CASE Cancelled
      BY <2>18 DEF Cancelled, Goto, SetStatus
    <2>19. CASE Failed
      BY <2>19 DEF Failed, Goto, SetStatus
    <2>20. CASE Purge
      BY <2>20 DEF Purge, Finish, PurgeCheckpoint
    <2>21. CASE PurgeSucceeded
      BY <2>21 DEF PurgeSucceeded, Finish, PurgeCheckpoint
    <2>22. CASE Undo
      BY <2>22 DEF Undo, Goto, SetStatus
    <2>23. QED
      BY <1>5, <2>1, <2>2, <2>3, <2>4, <2>5, <2>6, <2>7, <2>8, <2>9, <2>10, <2>11, <2>12,
         <2>13, <2>14, <2>15, <2>16, <2>17, <2>18, <2>19, <2>20, <2>21, <2>22 DEF Worker
  <1>6. CASE Fault
    <2>1. CASE LogFailsAfterSuccess
      BY <2>1 DEF LogFailsAfterSuccess, Goto, PurgeCheckpoint
    <2>2. CASE LogFails
      BY <2>2 DEF LogFails, Goto
    <2>3. CASE Raise
      BY <2>3 DEF Raise, Goto
    <2>4. QED
      BY <1>6, <2>1, <2>2, <2>3 DEF Fault
  <1>7. CASE Shutdown
    BY <1>7 DEF Shutdown
  <1>8. CASE Exit
    BY <1>8 DEF Exit, Down, Ended
  <1>9. CASE Abandon
    BY <1>9 DEF Abandon, Down, Ended, Leave, Apart, Unpurged
  <1>10. CASE Crash
    BY <1>10 DEF Crash, Down, Leave, Apart, Unpurged
  <1>11. CASE UNCHANGED vars
    BY <1>11 DEF vars
  <1>12. QED
    BY <1>1, <1>2, <1>3, <1>4, <1>5, <1>6, <1>7, <1>8, <1>9, <1>10, <1>11 DEF Next

-----------------------------------------------------------------------------
(* Directories and checkpoints end with their jobs *)

\* A directory that a delete has removed stays removed, and a job keeps its final
\* status while its checkpoint is being purged.
PurgeInv ==
  /\ NoOrphanDirectory
  /\ \A c \in Clients : op[c] = "delete_row" /\ on[c] \in Sound => disk[on[c]] = {}
  /\ \A c \in Clients : op[c] = "cancel_purge" /\ on[c] \in Sound =>
       status[on[c]] \in {"cancelled", "absent"}
  /\ pc \in Purging \union {"recover_purge"} /\ cur \in Sound =>
       status[cur] \in Terminal \union {"absent"}
  /\ pc \in {"purge_ok", "undo"} /\ cur \notin raced => status[cur] \in {"succeeded", "absent"}

\* There are no directories at first.
LEMMA InitPurgeInv == Init => PurgeInv
  BY DEF Init, StoreInit, PurgeInv, NoOrphanDirectory, Sound, Purging

\* Only a step that marks its job as raced or torn undoes what a request purges.
LEMMA NextPurgeInv ==
  TypeInv /\ RunInv /\ IssuedInv /\ OwnInv /\ PurgeInv /\ [Next]_vars => PurgeInv'
  <1> SUFFICES ASSUME TypeInv, RunInv, IssuedInv, OwnInv, PurgeInv, [Next]_vars PROVE PurgeInv'
    OBVIOUS
  <1> /\ status \in [Ids -> Statuses \union {"absent"}]
      /\ disk \in [Ids -> SUBSET Files]
      /\ ckpt \in [Ids -> 0..Epochs]
      /\ epochs \in [Ids -> Nat]
      /\ epoch \in 0..Epochs
      /\ op \in [Clients -> HandlerSteps \union {"idle"}]
      /\ on \in [Clients -> Ids \union {NoJob}]
      /\ \A c \in Clients : op[c] # "idle" => on[c] \in Ids
      /\ pc \in Owing \union Purging \union {"recover_purge", "undo"} => cur \in Ids
      /\ svc \in {"down", "starting", "up", "stopping"}
    BY EpochsAssumption DEF TypeInv, TypeOK, StoreTypeOK
  <1> /\ svc = "starting" => pc \in {"off", "recover_purge"}
      /\ svc = "down" => pc = "off"
      /\ Working => pc \notin {"off", "recover_purge"}
    BY DEF RunInv
  <1> /\ \A c \in Clients : op[c] \in Creating => ~Present(on[c]) /\ on[c] # cur
      /\ \A c, d \in Clients : c # d /\ op[c] \in Creating /\ op[d] # "idle" => on[d] # on[c]
      /\ \A j \in Ids : Present(j) => j \in issued
      /\ \A c \in Clients : op[c] # "idle" => on[c] \in issued
    BY DEF IssuedInv
  <1> /\ Working /\ pc \in Owing /\ cur \notin raced => status[cur] = "running"
      /\ \A c \in Clients : op[c] = "delete_row" /\ status[on[c]] = "running" => on[c] \in raced
    BY DEF OwnInv, OwnedIsRunning
  <1> USE DEF PurgeInv, NoOrphanDirectory, Sound, Creating, InterruptedJobs, Working,
              Waiting, Present, Pending,
              Owing, Body, Purging, Statuses, Runnable, Terminal, HandlerSteps, Files, At,
              NotWorker, storeVars, rowVars, diskVars, workerVars, clientVars, procVars,
              histVars, leftVars
  <1>1. ASSUME NEW c \in Clients, Request(c) PROVE PurgeInv'
    <2>1. ASSUME NEW j \in Ids, CreateBegin(c, j) PROVE PurgeInv'
      BY <2>1 DEF CreateBegin, Begin
    <2>2. ASSUME NEW j \in Ids, CancelRead(c, j) PROVE PurgeInv'
      BY <2>2 DEF CancelRead, Begin
    <2>3. ASSUME NEW j \in Ids, DeleteRead(c, j) PROVE PurgeInv'
      BY <2>3 DEF DeleteRead, Begin
    <2>4. QED
      BY <1>1, <2>1, <2>2, <2>3 DEF Request
  <1>2. ASSUME NEW c \in Clients, Handler(c) PROVE PurgeInv'
    <2>1. CASE CreateSave(c)
      BY <2>1 DEF CreateSave, Continue
    <2>2. CASE CreateReject(c)
      BY <2>2 DEF CreateReject, Return, PurgeJob
    <2>3. CASE CreateCommit(c)
      BY <2>3 DEF CreateCommit, Return, Insert
    <2>4. CASE CreateFail(c)
      BY <2>4 DEF CreateFail, Return
    <2>5. CASE CancelNow(c)
      BY <2>5 DEF CancelNow, Continue, SetStatus
    <2>6. CASE CancelPurge(c)
      BY <2>6 DEF CancelPurge, Return, PurgeCheckpoint
    <2>7. CASE CancelFlag(c)
      BY <2>7 DEF CancelFlag, Return, RequestCancel
    <2>8. CASE DeleteDir(c)
      BY <2>8 DEF DeleteDir, Continue, PurgeJob
    <2>9. CASE DeleteRowStep(c)
      BY <2>9 DEF DeleteRowStep, Return, DeleteRow
    <2>10. QED
      BY <1>2, <2>1, <2>2, <2>3, <2>4, <2>5, <2>6, <2>7, <2>8, <2>9 DEF Handler
  <1>3. CASE Start
    BY <1>3 DEF Start
  <1>4. CASE Recovery
    <2>1. ASSUME NEW j \in Ids, RecoverCancelled(j) PROVE PurgeInv'
      BY <2>1 DEF RecoverCancelled, Recovering, SetStatus
    <2>2. ASSUME NEW j \in Ids, RecoverPaused(j) PROVE PurgeInv'
      BY <2>2 DEF RecoverPaused, Recovering, SetStatus
    <2>3. ASSUME NEW j \in Ids, RecoverFailed(j) PROVE PurgeInv'
      BY <2>3 DEF RecoverFailed, Recovering, SetStatus
    <2>4. CASE RecoverPurge
      BY <2>4 DEF RecoverPurge, PurgeCheckpoint
    <2>5. CASE Serve
      BY <2>5 DEF Serve
    <2>6. QED
      BY <1>4, <2>1, <2>2, <2>3, <2>4, <2>5 DEF Recovery
  <1>5. CASE Worker
    <2>1. CASE LoopTest
      BY <2>1 DEF LoopTest, Goto
    <2>2. CASE FindNothing
      BY <2>2 DEF FindNothing, Goto
    <2>3. ASSUME NEW j \in Ids, Claim(j) PROVE PurgeInv'
      BY <2>3 DEF Claim, ClaimNext, IsHead
    <2>4. CASE OpenLog
      BY <2>4 DEF OpenLog, Goto
    <2>5. CASE Load
      BY <2>5 DEF Load, Goto
    <2>6. CASE Resume
      BY <2>6 DEF Resume
    <2>7. CASE BatchCancelled
      BY <2>7 DEF BatchCancelled, Goto
    <2>8. CASE BatchInterrupted
      BY <2>8 DEF BatchInterrupted, Goto
    <2>9. CASE Batches
      BY <2>9 DEF Batches
    <2>10. CASE Boundary
      BY <2>10 DEF Boundary
    <2>11. CASE SaveTmp
      BY <2>11 DEF SaveTmp, Goto
    <2>12. CASE Rename
      BY <2>12 DEF Rename, Goto
    <2>13. CASE Record
      BY <2>13 DEF Record, Goto, SetEpochs
    <2>14. CASE SaveModel
      BY <2>14 DEF SaveModel, Goto
    <2>15. CASE Tar
      BY <2>15 DEF Tar, Goto
    <2>16. CASE Succeed
      BY <2>16 DEF Succeed, Goto, SetStatus
    <2>17. CASE Pause
      BY <2>17 DEF Pause, Finish, SetStatus
    <2>18. CASE Cancelled
      BY <2>18 DEF Cancelled, Goto, SetStatus
    <2>19. CASE Failed
      BY <2>19 DEF Failed, Goto, SetStatus
    <2>20. CASE Purge
      BY <2>20 DEF Purge, Finish, PurgeCheckpoint
    <2>21. CASE PurgeSucceeded
      BY <2>21 DEF PurgeSucceeded, Finish, PurgeCheckpoint
    <2>22. CASE Undo
      BY <2>22 DEF Undo, Goto, SetStatus
    <2>23. QED
      BY <1>5, <2>1, <2>2, <2>3, <2>4, <2>5, <2>6, <2>7, <2>8, <2>9, <2>10, <2>11, <2>12,
         <2>13, <2>14, <2>15, <2>16, <2>17, <2>18, <2>19, <2>20, <2>21, <2>22 DEF Worker
  <1>6. CASE Fault
    <2>1. CASE LogFailsAfterSuccess
      BY <2>1 DEF LogFailsAfterSuccess, Goto, PurgeCheckpoint
    <2>2. CASE LogFails
      BY <2>2 DEF LogFails, Goto
    <2>3. CASE Raise
      BY <2>3 DEF Raise, Goto
    <2>4. QED
      BY <1>6, <2>1, <2>2, <2>3 DEF Fault
  <1>7. CASE Shutdown
    BY <1>7 DEF Shutdown
  <1>8. CASE Exit
    BY <1>8 DEF Exit, Down, Ended
  <1>9. CASE Abandon
    BY <1>9 DEF Abandon, Down, Ended, Leave, Apart, Unpurged
  <1>10. CASE Crash
    BY <1>10 DEF Crash, Down, Leave, Apart, Unpurged
  <1>11. CASE UNCHANGED vars
    BY <1>11 DEF vars
  <1>12. QED
    BY <1>1, <1>2, <1>3, <1>4, <1>5, <1>6, <1>7, <1>8, <1>9, <1>10, <1>11 DEF Next

\* The column promises no more than the checkpoint while the job runs, either:
\* the step that would make it so marks the job as stale.
CkptInv ==
  /\ FinalHasNoCheckpoint
  /\ pc = "record" /\ cur \in Sound => ckpt[cur] = epoch
  /\ \A j \in Sound \ stale : status[j] \in Runnable \union {"running"} =>
       epochs[j] <= ckpt[j] \/ Pending("delete_row", j)

\* There are no checkpoints at first.
LEMMA InitCkptInv == Init => CkptInv
  BY DEF Init, StoreInit, CkptInv, FinalHasNoCheckpoint, Sound, Runnable, Terminal

\* A checkpoint and epochs_completed change together, up to the step the worker
\* is at, and only while the job runs.
LEMMA NextCkptInv ==
  TypeInv /\ RunInv /\ IssuedInv /\ OwnInv /\ PurgeInv /\ CkptInv /\ [Next]_vars => CkptInv'
  <1> SUFFICES ASSUME TypeInv, RunInv, IssuedInv, OwnInv, PurgeInv, CkptInv, [Next]_vars
               PROVE  CkptInv'
    OBVIOUS
  <1> /\ status \in [Ids -> Statuses \union {"absent"}]
      /\ disk \in [Ids -> SUBSET Files]
      /\ ckpt \in [Ids -> 0..Epochs]
      /\ epochs \in [Ids -> Nat]
      /\ epoch \in 0..Epochs
      /\ op \in [Clients -> HandlerSteps \union {"idle"}]
      /\ on \in [Clients -> Ids \union {NoJob}]
      /\ \A c \in Clients : op[c] # "idle" => on[c] \in Ids
      /\ pc \in Owing \union Purging \union {"recover_purge", "undo"} => cur \in Ids
      /\ svc \in {"down", "starting", "up", "stopping"}
    BY EpochsAssumption DEF TypeInv, TypeOK, StoreTypeOK
  <1> /\ svc = "starting" => pc \in {"off", "recover_purge"}
      /\ svc = "down" => pc = "off"
      /\ Working => pc \notin {"off", "recover_purge"}
    BY DEF RunInv
  <1> /\ \A c \in Clients : op[c] \in Creating => ~Present(on[c]) /\ on[c] # cur
      /\ \A c, d \in Clients : c # d /\ op[c] \in Creating /\ op[d] # "idle" => on[d] # on[c]
      /\ \A j \in Ids : Present(j) => j \in issued
      /\ \A c \in Clients : op[c] # "idle" => on[c] \in issued
    BY DEF IssuedInv
  <1> /\ Working /\ pc \in Owing /\ cur \notin raced => status[cur] = "running"
      /\ \A c \in Clients : op[c] = "delete_row" /\ status[on[c]] = "running" => on[c] \in raced
    BY DEF OwnInv, OwnedIsRunning
  <1> /\ \A c \in Clients : op[c] = "cancel_purge" /\ on[c] \in Sound =>
           status[on[c]] \in {"cancelled", "absent"}
      /\ pc \in Purging \union {"recover_purge"} /\ cur \in Sound =>
           status[cur] \in Terminal \union {"absent"}
      /\ pc \in {"purge_ok", "undo"} /\ cur \notin raced => status[cur] \in {"succeeded", "absent"}
    BY DEF PurgeInv
  <1> USE DEF CkptInv, FinalHasNoCheckpoint, Sound, Creating, InterruptedJobs, Working,
              Waiting, Present, Pending,
              Owing, Body, Purging, Statuses, Runnable, Terminal, HandlerSteps, Files, At,
              NotWorker, storeVars, rowVars, diskVars, workerVars, clientVars, procVars,
              histVars, leftVars
  <1>1. ASSUME NEW c \in Clients, Request(c) PROVE CkptInv'
    <2>1. ASSUME NEW j \in Ids, CreateBegin(c, j) PROVE CkptInv'
      BY <2>1 DEF CreateBegin, Begin
    <2>2. ASSUME NEW j \in Ids, CancelRead(c, j) PROVE CkptInv'
      BY <2>2 DEF CancelRead, Begin
    <2>3. ASSUME NEW j \in Ids, DeleteRead(c, j) PROVE CkptInv'
      BY <2>3 DEF DeleteRead, Begin
    <2>4. QED
      BY <1>1, <2>1, <2>2, <2>3 DEF Request
  <1>2. ASSUME NEW c \in Clients, Handler(c) PROVE CkptInv'
    <2>1. CASE CreateSave(c)
      BY <2>1 DEF CreateSave, Continue
    <2>2. CASE CreateReject(c)
      BY <2>2 DEF CreateReject, Return, PurgeJob
    <2>3. CASE CreateCommit(c)
      BY <2>3 DEF CreateCommit, Return, Insert
    <2>4. CASE CreateFail(c)
      BY <2>4 DEF CreateFail, Return
    <2>5. CASE CancelNow(c)
      BY <2>5 DEF CancelNow, Continue, SetStatus
    <2>6. CASE CancelPurge(c)
      BY <2>6 DEF CancelPurge, Return, PurgeCheckpoint
    <2>7. CASE CancelFlag(c)
      BY <2>7 DEF CancelFlag, Return, RequestCancel
    <2>8. CASE DeleteDir(c)
      BY <2>8 DEF DeleteDir, Continue, PurgeJob
    <2>9. CASE DeleteRowStep(c)
      BY <2>9 DEF DeleteRowStep, Return, DeleteRow
    <2>10. QED
      BY <1>2, <2>1, <2>2, <2>3, <2>4, <2>5, <2>6, <2>7, <2>8, <2>9 DEF Handler
  <1>3. CASE Start
    BY <1>3 DEF Start
  <1>4. CASE Recovery
    <2>1. ASSUME NEW j \in Ids, RecoverCancelled(j) PROVE CkptInv'
      BY <2>1 DEF RecoverCancelled, Recovering, SetStatus
    <2>2. ASSUME NEW j \in Ids, RecoverPaused(j) PROVE CkptInv'
      BY <2>2 DEF RecoverPaused, Recovering, SetStatus
    <2>3. ASSUME NEW j \in Ids, RecoverFailed(j) PROVE CkptInv'
      BY <2>3 DEF RecoverFailed, Recovering, SetStatus
    <2>4. CASE RecoverPurge
      BY <2>4 DEF RecoverPurge, PurgeCheckpoint
    <2>5. CASE Serve
      BY <2>5 DEF Serve
    <2>6. QED
      BY <1>4, <2>1, <2>2, <2>3, <2>4, <2>5 DEF Recovery
  <1>5. CASE Worker
    <2>1. CASE LoopTest
      BY <2>1 DEF LoopTest, Goto
    <2>2. CASE FindNothing
      BY <2>2 DEF FindNothing, Goto
    <2>3. ASSUME NEW j \in Ids, Claim(j) PROVE CkptInv'
      BY <2>3 DEF Claim, ClaimNext, IsHead
    <2>4. CASE OpenLog
      BY <2>4 DEF OpenLog, Goto
    <2>5. CASE Load
      BY <2>5 DEF Load, Goto
    <2>6. CASE Resume
      BY <2>6 DEF Resume
    <2>7. CASE BatchCancelled
      BY <2>7 DEF BatchCancelled, Goto
    <2>8. CASE BatchInterrupted
      BY <2>8 DEF BatchInterrupted, Goto
    <2>9. CASE Batches
      BY <2>9 DEF Batches
    <2>10. CASE Boundary
      BY <2>10 DEF Boundary
    <2>11. CASE SaveTmp
      BY <2>11 DEF SaveTmp, Goto
    <2>12. CASE Rename
      BY <2>12 DEF Rename, Goto
    <2>13. CASE Record
      BY <2>13 DEF Record, Goto, SetEpochs
    <2>14. CASE SaveModel
      BY <2>14 DEF SaveModel, Goto
    <2>15. CASE Tar
      BY <2>15 DEF Tar, Goto
    <2>16. CASE Succeed
      BY <2>16 DEF Succeed, Goto, SetStatus
    <2>17. CASE Pause
      BY <2>17 DEF Pause, Finish, SetStatus
    <2>18. CASE Cancelled
      BY <2>18 DEF Cancelled, Goto, SetStatus
    <2>19. CASE Failed
      BY <2>19 DEF Failed, Goto, SetStatus
    <2>20. CASE Purge
      BY <2>20 DEF Purge, Finish, PurgeCheckpoint
    <2>21. CASE PurgeSucceeded
      BY <2>21 DEF PurgeSucceeded, Finish, PurgeCheckpoint
    <2>22. CASE Undo
      BY <2>22 DEF Undo, Goto, SetStatus
    <2>23. QED
      BY <1>5, <2>1, <2>2, <2>3, <2>4, <2>5, <2>6, <2>7, <2>8, <2>9, <2>10, <2>11, <2>12,
         <2>13, <2>14, <2>15, <2>16, <2>17, <2>18, <2>19, <2>20, <2>21, <2>22 DEF Worker
  <1>6. CASE Fault
    <2>1. CASE LogFailsAfterSuccess
      BY <2>1 DEF LogFailsAfterSuccess, Goto, PurgeCheckpoint
    <2>2. CASE LogFails
      BY <2>2 DEF LogFails, Goto
    <2>3. CASE Raise
      BY <2>3 DEF Raise, Goto
    <2>4. QED
      BY <1>6, <2>1, <2>2, <2>3 DEF Fault
  <1>7. CASE Shutdown
    BY <1>7 DEF Shutdown
  <1>8. CASE Exit
    BY <1>8 DEF Exit, Down, Ended
  <1>9. CASE Abandon
    BY <1>9 DEF Abandon, Down, Ended, Leave, Apart, Unpurged
  <1>10. CASE Crash
    BY <1>10 DEF Crash, Down, Leave, Apart, Unpurged
  <1>11. CASE UNCHANGED vars
    BY <1>11 DEF vars
  <1>12. QED
    BY <1>1, <1>2, <1>3, <1>4, <1>5, <1>6, <1>7, <1>8, <1>9, <1>10, <1>11 DEF Next

-----------------------------------------------------------------------------
(* Yielding *)

YieldInv ==
  /\ pc \in {"off", "recover_purge", "top", "claim", "log", "load", "resume",
           "batch"} => ~yielding
  /\ YieldLosesNothing

\* yielding is not set at first.
LEMMA InitYieldInv == Init => YieldInv
  BY DEF Init, YieldInv, YieldLosesNothing, Working

\* Preempted is raised only after the checkpoint of this epoch was saved and
\* recorded.
LEMMA NextYieldInv ==
  TypeInv /\ RunInv /\ IssuedInv /\ OwnInv /\ PurgeInv /\ CkptInv /\ YieldInv /\ [Next]_vars
    => YieldInv'
  <1> SUFFICES ASSUME TypeInv, RunInv, IssuedInv, OwnInv, PurgeInv, CkptInv, YieldInv,
           [Next]_vars
               PROVE  YieldInv'
    OBVIOUS
  <1> /\ status \in [Ids -> Statuses \union {"absent"}]
      /\ disk \in [Ids -> SUBSET Files]
      /\ ckpt \in [Ids -> 0..Epochs]
      /\ epochs \in [Ids -> Nat]
      /\ epoch \in 0..Epochs
      /\ op \in [Clients -> HandlerSteps \union {"idle"}]
      /\ on \in [Clients -> Ids \union {NoJob}]
      /\ \A c \in Clients : op[c] # "idle" => on[c] \in Ids
      /\ pc \in Owing \union Purging \union {"recover_purge", "undo"} => cur \in Ids
      /\ svc \in {"down", "starting", "up", "stopping"}
    BY EpochsAssumption DEF TypeInv, TypeOK, StoreTypeOK
  <1> /\ svc = "starting" => pc \in {"off", "recover_purge"}
      /\ svc = "down" => pc = "off"
      /\ Working => pc \notin {"off", "recover_purge"}
    BY DEF RunInv
  <1> /\ \A c \in Clients : op[c] \in Creating => ~Present(on[c]) /\ on[c] # cur
      /\ \A c, d \in Clients : c # d /\ op[c] \in Creating /\ op[d] # "idle" => on[d] # on[c]
      /\ \A j \in Ids : Present(j) => j \in issued
      /\ \A c \in Clients : op[c] # "idle" => on[c] \in issued
    BY DEF IssuedInv
  <1> /\ Working /\ pc \in Owing /\ cur \notin raced => status[cur] = "running"
      /\ \A c \in Clients : op[c] = "delete_row" /\ status[on[c]] = "running" => on[c] \in raced
    BY DEF OwnInv, OwnedIsRunning
  <1> /\ \A c \in Clients : op[c] = "cancel_purge" /\ on[c] \in Sound =>
           status[on[c]] \in {"cancelled", "absent"}
      /\ pc = "record" /\ cur \in Sound => ckpt[cur] = epoch
    BY DEF PurgeInv, CkptInv
  <1> USE DEF YieldInv, YieldLosesNothing, Sound, Creating, InterruptedJobs, Working,
              Waiting, Present, Pending,
              Owing, Body, Purging, Statuses, Runnable, Terminal, HandlerSteps, Files, At,
              NotWorker, storeVars, rowVars, diskVars, workerVars, clientVars, procVars,
              histVars, leftVars
  <1>1. ASSUME NEW c \in Clients, Request(c) PROVE YieldInv'
    <2>1. ASSUME NEW j \in Ids, CreateBegin(c, j) PROVE YieldInv'
      BY <2>1 DEF CreateBegin, Begin
    <2>2. ASSUME NEW j \in Ids, CancelRead(c, j) PROVE YieldInv'
      BY <2>2 DEF CancelRead, Begin
    <2>3. ASSUME NEW j \in Ids, DeleteRead(c, j) PROVE YieldInv'
      BY <2>3 DEF DeleteRead, Begin
    <2>4. QED
      BY <1>1, <2>1, <2>2, <2>3 DEF Request
  <1>2. ASSUME NEW c \in Clients, Handler(c) PROVE YieldInv'
    <2>1. CASE CreateSave(c)
      BY <2>1 DEF CreateSave, Continue
    <2>2. CASE CreateReject(c)
      BY <2>2 DEF CreateReject, Return, PurgeJob
    <2>3. CASE CreateCommit(c)
      BY <2>3 DEF CreateCommit, Return, Insert
    <2>4. CASE CreateFail(c)
      BY <2>4 DEF CreateFail, Return
    <2>5. CASE CancelNow(c)
      BY <2>5 DEF CancelNow, Continue, SetStatus
    <2>6. CASE CancelPurge(c)
      BY <2>6 DEF CancelPurge, Return, PurgeCheckpoint
    <2>7. CASE CancelFlag(c)
      BY <2>7 DEF CancelFlag, Return, RequestCancel
    <2>8. CASE DeleteDir(c)
      BY <2>8 DEF DeleteDir, Continue, PurgeJob
    <2>9. CASE DeleteRowStep(c)
      BY <2>9 DEF DeleteRowStep, Return, DeleteRow
    <2>10. QED
      BY <1>2, <2>1, <2>2, <2>3, <2>4, <2>5, <2>6, <2>7, <2>8, <2>9 DEF Handler
  <1>3. CASE Start
    BY <1>3 DEF Start
  <1>4. CASE Recovery
    <2>1. ASSUME NEW j \in Ids, RecoverCancelled(j) PROVE YieldInv'
      BY <2>1 DEF RecoverCancelled, Recovering, SetStatus
    <2>2. ASSUME NEW j \in Ids, RecoverPaused(j) PROVE YieldInv'
      BY <2>2 DEF RecoverPaused, Recovering, SetStatus
    <2>3. ASSUME NEW j \in Ids, RecoverFailed(j) PROVE YieldInv'
      BY <2>3 DEF RecoverFailed, Recovering, SetStatus
    <2>4. CASE RecoverPurge
      BY <2>4 DEF RecoverPurge, PurgeCheckpoint
    <2>5. CASE Serve
      BY <2>5 DEF Serve
    <2>6. QED
      BY <1>4, <2>1, <2>2, <2>3, <2>4, <2>5 DEF Recovery
  <1>5. CASE Worker
    <2>1. CASE LoopTest
      BY <2>1 DEF LoopTest, Goto
    <2>2. CASE FindNothing
      BY <2>2 DEF FindNothing, Goto
    <2>3. ASSUME NEW j \in Ids, Claim(j) PROVE YieldInv'
      BY <2>3 DEF Claim, ClaimNext, IsHead
    <2>4. CASE OpenLog
      BY <2>4 DEF OpenLog, Goto
    <2>5. CASE Load
      BY <2>5 DEF Load, Goto
    <2>6. CASE Resume
      BY <2>6 DEF Resume
    <2>7. CASE BatchCancelled
      BY <2>7 DEF BatchCancelled, Goto
    <2>8. CASE BatchInterrupted
      BY <2>8 DEF BatchInterrupted, Goto
    <2>9. CASE Batches
      BY <2>9 DEF Batches
    <2>10. CASE Boundary
      BY <2>10 DEF Boundary
    <2>11. CASE SaveTmp
      BY <2>11 DEF SaveTmp, Goto
    <2>12. CASE Rename
      BY <2>12 DEF Rename, Goto
    <2>13. CASE Record
      BY <2>13 DEF Record, Goto, SetEpochs
    <2>14. CASE SaveModel
      BY <2>14 DEF SaveModel, Goto
    <2>15. CASE Tar
      BY <2>15 DEF Tar, Goto
    <2>16. CASE Succeed
      BY <2>16 DEF Succeed, Goto, SetStatus
    <2>17. CASE Pause
      BY <2>17 DEF Pause, Finish, SetStatus
    <2>18. CASE Cancelled
      BY <2>18 DEF Cancelled, Goto, SetStatus
    <2>19. CASE Failed
      BY <2>19 DEF Failed, Goto, SetStatus
    <2>20. CASE Purge
      BY <2>20 DEF Purge, Finish, PurgeCheckpoint
    <2>21. CASE PurgeSucceeded
      BY <2>21 DEF PurgeSucceeded, Finish, PurgeCheckpoint
    <2>22. CASE Undo
      BY <2>22 DEF Undo, Goto, SetStatus
    <2>23. QED
      BY <1>5, <2>1, <2>2, <2>3, <2>4, <2>5, <2>6, <2>7, <2>8, <2>9, <2>10, <2>11, <2>12,
         <2>13, <2>14, <2>15, <2>16, <2>17, <2>18, <2>19, <2>20, <2>21, <2>22 DEF Worker
  <1>6. CASE Fault
    <2>1. CASE LogFailsAfterSuccess
      BY <2>1 DEF LogFailsAfterSuccess, Goto, PurgeCheckpoint
    <2>2. CASE LogFails
      BY <2>2 DEF LogFails, Goto
    <2>3. CASE Raise
      BY <2>3 DEF Raise, Goto
    <2>4. QED
      BY <1>6, <2>1, <2>2, <2>3 DEF Fault
  <1>7. CASE Shutdown
    BY <1>7 DEF Shutdown
  <1>8. CASE Exit
    BY <1>8 DEF Exit, Down, Ended
  <1>9. CASE Abandon
    BY <1>9 DEF Abandon, Down, Ended, Leave, Apart, Unpurged
  <1>10. CASE Crash
    BY <1>10 DEF Crash, Down, Leave, Apart, Unpurged
  <1>11. CASE UNCHANGED vars
    BY <1>11 DEF vars
  <1>12. QED
    BY <1>1, <1>2, <1>3, <1>4, <1>5, <1>6, <1>7, <1>8, <1>9, <1>10, <1>11 DEF Next

-----------------------------------------------------------------------------
(* The interval *)

\* The last epoch, up to e, after which a checkpoint was due every n epochs.
LastDue(e, n) == e - (e % n)

\* It is less than an interval ago.
LEMMA LastDueBounds ==
  ASSUME NEW e \in Nat, NEW n \in Nat \ {0}
  PROVE  LastDue(e, n) \in Nat /\ LastDue(e, n) <= e /\ e < LastDue(e, n) + n
  <1> DEFINE r == e % n
  <1>1. r \in 0..(n - 1)
    OBVIOUS
  <1>2. r <= e
    OBVIOUS
  <1>3. LastDue(e, n) = e - r
    BY DEF LastDue
  <1> HIDE DEF r
  <1>. QED
    BY <1>1, <1>2, <1>3

\* It is the same for the next epoch, where none is due after that one.
LEMMA LastDueStep ==
  ASSUME NEW e \in Nat, NEW n \in Nat \ {0}, (e + 1) % n # 0
  PROVE  LastDue(e + 1, n) = LastDue(e, n)
  <1> DEFINE q == e \div n
             r == e % n
             t == (e + 1) \div n
             u == (e + 1) % n
  <1>1. /\ q \in Nat /\ r \in 0..(n - 1) /\ e = n * q + r
        /\ t \in Nat /\ u \in 1..(n - 1) /\ e + 1 = n * t + u
    OBVIOUS
  <1> HIDE DEF q, r, t, u
  <1>2. n * q + r + 1 = n * t + u
    BY <1>1
  <1>3. ASSUME NEW a \in Nat, NEW b \in Nat, a < b PROVE n * a + n <= n * b
    <2>1. PICK d \in Nat : b = a + 1 + d
      BY <1>3
    <2>2. n * b = n * a + n + n * d /\ n * d >= 0
      BY <2>1
    <2>. QED
      BY <2>2
  <1>4. ~(q < t)
    <2>1. SUFFICES ASSUME q < t PROVE FALSE
      OBVIOUS
    <2>2. n * q + n <= n * t
      BY <1>1, <1>3, <2>1
    <2>. QED
      BY <1>1, <1>2, <2>2
  <1>5. ~(t < q)
    <2>1. SUFFICES ASSUME t < q PROVE FALSE
      OBVIOUS
    <2>2. n * t + n <= n * q
      BY <1>1, <1>3, <2>1
    <2>. QED
      BY <1>1, <1>2, <2>2
  <1>6. q = t
    BY <1>1, <1>4, <1>5
  <1>7. u = r + 1
    BY <1>1, <1>2, <1>6
  <1>. QED
    BY <1>1, <1>7 DEF LastDue, r, u

\* Every epoch after which a checkpoint was due is in the checkpoint.
LossInv ==
  Working /\ cur \in Sound /\ every[cur] > 0 =>
    /\ pc \in {"batch", "pause"} => LastDue(epoch, every[cur]) <= ckpt[cur]
    /\ pc = "boundary" => epoch > 0 /\ LastDue(epoch - 1, every[cur]) <= ckpt[cur]

\* No epoch has been trained at first.
LEMMA InitLossInv == Init => LossInv
  BY DEF Init, LossInv, Working

\* The loop passes no epoch after which a checkpoint is due without writing it.
LEMMA NextLossInv ==
  TypeInv /\ RunInv /\ IssuedInv /\ OwnInv /\ PurgeInv /\ CkptInv /\ LossInv /\ [Next]_vars
    => LossInv'
  <1> SUFFICES ASSUME TypeInv, RunInv, IssuedInv, OwnInv, PurgeInv, CkptInv, LossInv,
           [Next]_vars
               PROVE  LossInv'
    OBVIOUS
  <1> /\ status \in [Ids -> Statuses \union {"absent"}]
      /\ disk \in [Ids -> SUBSET Files]
      /\ ckpt \in [Ids -> 0..Epochs]
      /\ epochs \in [Ids -> Nat]
      /\ epoch \in 0..Epochs
      /\ op \in [Clients -> HandlerSteps \union {"idle"}]
      /\ on \in [Clients -> Ids \union {NoJob}]
      /\ \A c \in Clients : op[c] # "idle" => on[c] \in Ids
      /\ pc \in Owing \union Purging \union {"recover_purge", "undo"} => cur \in Ids
      /\ svc \in {"down", "starting", "up", "stopping"}
    BY EpochsAssumption DEF TypeInv, TypeOK, StoreTypeOK
  <1> /\ svc = "starting" => pc \in {"off", "recover_purge"}
      /\ svc = "down" => pc = "off"
      /\ Working => pc \notin {"off", "recover_purge"}
    BY DEF RunInv
  <1> /\ \A c \in Clients : op[c] \in Creating => ~Present(on[c]) /\ on[c] # cur
      /\ \A c, d \in Clients : c # d /\ op[c] \in Creating /\ op[d] # "idle" => on[d] # on[c]
      /\ \A j \in Ids : Present(j) => j \in issued
      /\ \A c \in Clients : op[c] # "idle" => on[c] \in issued
    BY DEF IssuedInv
  <1> /\ Working /\ pc \in Owing /\ cur \notin raced => status[cur] = "running"
      /\ \A c \in Clients : op[c] = "delete_row" /\ status[on[c]] = "running" => on[c] \in raced
    BY DEF OwnInv, OwnedIsRunning
  <1> /\ \A c \in Clients : op[c] = "cancel_purge" /\ on[c] \in Sound =>
           status[on[c]] \in {"cancelled", "absent"}
      /\ pc = "record" /\ cur \in Sound => ckpt[cur] = epoch
    BY DEF PurgeInv, CkptInv
  <1> /\ \A e \in Nat, n \in Nat \ {0} :
           /\ LastDue(e, n) \in Nat /\ LastDue(e, n) <= e
           /\ (e + 1) % n # 0 => LastDue(e + 1, n) = LastDue(e, n)
      /\ every \in [Ids -> Nat]
    BY LastDueBounds, LastDueStep DEF TypeInv, TypeOK, StoreTypeOK
  <1> USE DEF LossInv, Sound, Creating, InterruptedJobs, Working,
              Waiting, Present, Pending,
              Owing, Body, Purging, Statuses, Runnable, Terminal, HandlerSteps, Files, At,
              NotWorker, storeVars, rowVars, diskVars, workerVars, clientVars, procVars,
              histVars, leftVars
  <1>1. ASSUME NEW c \in Clients, Request(c) PROVE LossInv'
    <2>1. ASSUME NEW j \in Ids, CreateBegin(c, j) PROVE LossInv'
      BY <2>1 DEF CreateBegin, Begin
    <2>2. ASSUME NEW j \in Ids, CancelRead(c, j) PROVE LossInv'
      BY <2>2 DEF CancelRead, Begin
    <2>3. ASSUME NEW j \in Ids, DeleteRead(c, j) PROVE LossInv'
      BY <2>3 DEF DeleteRead, Begin
    <2>4. QED
      BY <1>1, <2>1, <2>2, <2>3 DEF Request
  <1>2. ASSUME NEW c \in Clients, Handler(c) PROVE LossInv'
    <2>1. CASE CreateSave(c)
      BY <2>1 DEF CreateSave, Continue
    <2>2. CASE CreateReject(c)
      BY <2>2 DEF CreateReject, Return, PurgeJob
    <2>3. CASE CreateCommit(c)
      BY <2>3 DEF CreateCommit, Return, Insert
    <2>4. CASE CreateFail(c)
      BY <2>4 DEF CreateFail, Return
    <2>5. CASE CancelNow(c)
      BY <2>5 DEF CancelNow, Continue, SetStatus
    <2>6. CASE CancelPurge(c)
      BY <2>6 DEF CancelPurge, Return, PurgeCheckpoint
    <2>7. CASE CancelFlag(c)
      BY <2>7 DEF CancelFlag, Return, RequestCancel
    <2>8. CASE DeleteDir(c)
      BY <2>8 DEF DeleteDir, Continue, PurgeJob
    <2>9. CASE DeleteRowStep(c)
      BY <2>9 DEF DeleteRowStep, Return, DeleteRow
    <2>10. QED
      BY <1>2, <2>1, <2>2, <2>3, <2>4, <2>5, <2>6, <2>7, <2>8, <2>9 DEF Handler
  <1>3. CASE Start
    BY <1>3 DEF Start
  <1>4. CASE Recovery
    <2>1. ASSUME NEW j \in Ids, RecoverCancelled(j) PROVE LossInv'
      BY <2>1 DEF RecoverCancelled, Recovering, SetStatus
    <2>2. ASSUME NEW j \in Ids, RecoverPaused(j) PROVE LossInv'
      BY <2>2 DEF RecoverPaused, Recovering, SetStatus
    <2>3. ASSUME NEW j \in Ids, RecoverFailed(j) PROVE LossInv'
      BY <2>3 DEF RecoverFailed, Recovering, SetStatus
    <2>4. CASE RecoverPurge
      BY <2>4 DEF RecoverPurge, PurgeCheckpoint
    <2>5. CASE Serve
      BY <2>5 DEF Serve
    <2>6. QED
      BY <1>4, <2>1, <2>2, <2>3, <2>4, <2>5 DEF Recovery
  <1>5. CASE Worker
    <2>1. CASE LoopTest
      BY <2>1 DEF LoopTest, Goto
    <2>2. CASE FindNothing
      BY <2>2 DEF FindNothing, Goto
    <2>3. ASSUME NEW j \in Ids, Claim(j) PROVE LossInv'
      BY <2>3 DEF Claim, ClaimNext, IsHead
    <2>4. CASE OpenLog
      BY <2>4 DEF OpenLog, Goto
    <2>5. CASE Load
      BY <2>5 DEF Load, Goto
    <2>6. CASE Resume
      BY <2>6 DEF Resume
    <2>7. CASE BatchCancelled
      BY <2>7 DEF BatchCancelled, Goto
    <2>8. CASE BatchInterrupted
      BY <2>8 DEF BatchInterrupted, Goto
    <2>9. CASE Batches
      BY <2>9 DEF Batches
    <2>10. CASE Boundary
      <3> SUFFICES ASSUME cur \in Sound, every[cur] > 0, pc' = "batch"
                   PROVE  LastDue(epoch, every[cur]) <= ckpt[cur]
        BY <2>10 DEF Boundary
      <3>1. epoch \in Nat \ {0} /\ LastDue(epoch - 1, every[cur]) <= ckpt[cur]
        BY <2>10 DEF Boundary
      <3>2. CanCheckpoint /\ ~Due
        <4>1. pc' = IF epoch = Epochs THEN "save_model" ELSE IF Due \/ Yield THEN "save_tmp" ELSE "batch"
          BY <2>10 DEF Boundary
        <4>. QED
          BY <4>1, EpochsAssumption DEF CanCheckpoint
      <3>3. every[cur] \in Nat \ {0} /\ epoch % every[cur] # 0
        BY <3>2 DEF Due, CanCheckpoint
      <3>4. epoch - 1 \in Nat /\ (epoch - 1) + 1 = epoch
        BY <3>1
      <3>5. LastDue(epoch, every[cur]) = LastDue(epoch - 1, every[cur])
        BY <3>3, <3>4, LastDueStep
      <3>. QED
        BY <3>1, <3>5
    <2>11. CASE SaveTmp
      BY <2>11 DEF SaveTmp, Goto
    <2>12. CASE Rename
      BY <2>12 DEF Rename, Goto
    <2>13. CASE Record
      BY <2>13 DEF Record, Goto, SetEpochs
    <2>14. CASE SaveModel
      BY <2>14 DEF SaveModel, Goto
    <2>15. CASE Tar
      BY <2>15 DEF Tar, Goto
    <2>16. CASE Succeed
      BY <2>16 DEF Succeed, Goto, SetStatus
    <2>17. CASE Pause
      BY <2>17 DEF Pause, Finish, SetStatus
    <2>18. CASE Cancelled
      BY <2>18 DEF Cancelled, Goto, SetStatus
    <2>19. CASE Failed
      BY <2>19 DEF Failed, Goto, SetStatus
    <2>20. CASE Purge
      BY <2>20 DEF Purge, Finish, PurgeCheckpoint
    <2>21. CASE PurgeSucceeded
      BY <2>21 DEF PurgeSucceeded, Finish, PurgeCheckpoint
    <2>22. CASE Undo
      BY <2>22 DEF Undo, Goto, SetStatus
    <2>23. QED
      BY <1>5, <2>1, <2>2, <2>3, <2>4, <2>5, <2>6, <2>7, <2>8, <2>9, <2>10, <2>11, <2>12,
         <2>13, <2>14, <2>15, <2>16, <2>17, <2>18, <2>19, <2>20, <2>21, <2>22 DEF Worker
  <1>6. CASE Fault
    <2>1. CASE LogFailsAfterSuccess
      BY <2>1 DEF LogFailsAfterSuccess, Goto, PurgeCheckpoint
    <2>2. CASE LogFails
      BY <2>2 DEF LogFails, Goto
    <2>3. CASE Raise
      BY <2>3 DEF Raise, Goto
    <2>4. QED
      BY <1>6, <2>1, <2>2, <2>3 DEF Fault
  <1>7. CASE Shutdown
    BY <1>7 DEF Shutdown
  <1>8. CASE Exit
    BY <1>8 DEF Exit, Down, Ended
  <1>9. CASE Abandon
    BY <1>9 DEF Abandon, Down, Ended, Leave, Apart, Unpurged
  <1>10. CASE Crash
    BY <1>10 DEF Crash, Down, Leave, Apart, Unpurged
  <1>11. CASE UNCHANGED vars
    BY <1>11 DEF vars
  <1>12. QED
    BY <1>1, <1>2, <1>3, <1>4, <1>5, <1>6, <1>7, <1>8, <1>9, <1>10, <1>11 DEF Next

-----------------------------------------------------------------------------
(* The service implements the lifecycle *)

\* The status changes the lifecycle allows besides Run and Relapse.
Follows(from, to) ==
  \/ to = from
  \/ from = "absent" /\ to = "queued"
  \/ from = "running" /\ to \in {"paused", "succeeded", "failed"}
  \/ from \in {"queued", "paused", "running"} /\ to = "cancelled"
  \/ from \in {"queued", "paused", "lost", "succeeded", "failed", "cancelled"} /\ to = "absent"
  \/ from \in Statuses \union {"lost"} /\ to = "lost"

\* The refinement mapping is a function on the jobs.
LEMMA PhaseIsFunction ==
  /\ DOMAIN Phase = Ids /\ Phase = [j \in Ids |-> Phase[j]]
  /\ DOMAIN Phase' = Ids /\ Phase' = [j \in Ids |-> Phase'[j]]
  BY DEF Phase

\* A step that leaves the statuses and the races alone is a stutter of the
\* lifecycle.
LEMMA SamePhase == UNCHANGED <<status, raced>> => [Lifecycle!Next]_Phase
  BY DEF Phase, Present

\* A step that changes the phase of one job the way an action of the lifecycle
\* does is a step of the lifecycle.
LEMMA MoveOneJob ==
  ASSUME NEW j \in Ids,
         \A k \in Ids \ {j} : Phase'[k] = Phase[k],
         Follows(Phase[j], Phase'[j])
  PROVE  [Lifecycle!Next]_Phase
  <1>1. Phase' = [Phase EXCEPT ![j] = Phase'[j]]
    BY PhaseIsFunction
  <1>2. CASE Phase'[j] = Phase[j]
    BY <1>2, PhaseIsFunction
  <1>3. CASE Phase[j] = "absent" /\ Phase'[j] = "queued"
    BY <1>1, <1>3 DEF Lifecycle!Next, Lifecycle!Submit, Lifecycle!Move
  <1>4. CASE Phase[j] = "running" /\ Phase'[j] = "paused"
    BY <1>1, <1>4 DEF Lifecycle!Next, Lifecycle!Pause, Lifecycle!Move
  <1>5. CASE Phase[j] = "running" /\ Phase'[j] = "succeeded"
    BY <1>1, <1>5 DEF Lifecycle!Next, Lifecycle!Succeed, Lifecycle!Move
  <1>6. CASE Phase[j] = "running" /\ Phase'[j] = "failed"
    BY <1>1, <1>6 DEF Lifecycle!Next, Lifecycle!Fail, Lifecycle!Move
  <1>7. CASE Phase[j] \in {"queued", "paused", "running"} /\ Phase'[j] = "cancelled"
    BY <1>1, <1>7 DEF Lifecycle!Next, Lifecycle!Cancel, Lifecycle!Move
  <1>8. CASE /\ Phase[j] \in {"queued", "paused", "lost", "succeeded", "failed", "cancelled"}
             /\ Phase'[j] = "absent"
    BY <1>1, <1>8 DEF Lifecycle!Next, Lifecycle!Delete, Lifecycle!Move, Lifecycle!Final
  <1>9. CASE Phase[j] \in Statuses \union {"lost"} /\ Phase'[j] = "lost"
    BY <1>1, <1>9 DEF Lifecycle!Next, Lifecycle!Lose, Lifecycle!Move, Lifecycle!Phases,
       Lifecycle!Final, Statuses, Runnable, Terminal
  <1>10. QED
    BY <1>2, <1>3, <1>4, <1>5, <1>6, <1>7, <1>8, <1>9 DEF Follows

\* The service starts where the lifecycle starts.
LEMMA InitLifecycle == Init => Lifecycle!Init
  BY DEF Init, StoreInit, Lifecycle!Init, Phase, Present

\* Every step of the service is a step of the lifecycle, or a stutter.
LEMMA NextLifecycle ==
  TypeInv /\ RunInv /\ IssuedInv /\ OwnInv /\ PurgeInv /\ [Next]_vars
    => [Lifecycle!Next]_Phase
  <1> SUFFICES ASSUME TypeInv, RunInv, IssuedInv, OwnInv, PurgeInv, [Next]_vars
               PROVE  [Lifecycle!Next]_Phase
    OBVIOUS
  <1> /\ status \in [Ids -> Statuses \union {"absent"}]
      /\ op \in [Clients -> HandlerSteps \union {"idle"}]
      /\ on \in [Clients -> Ids \union {NoJob}]
      /\ \A c \in Clients : op[c] # "idle" => on[c] \in Ids
      /\ pc \in Owing \union Purging \union {"recover_purge", "undo"} => cur \in Ids
    BY DEF TypeInv, TypeOK, StoreTypeOK
  <1> \A c \in Clients : op[c] \in Creating => ~Present(on[c]) /\ on[c] \notin raced
    BY DEF IssuedInv
  <1> USE DEF Phase, Creating, InterruptedJobs, Working, Waiting, Present, Owing, Body, Purging,
              Statuses, Runnable, Terminal, HandlerSteps, At, NotWorker,
              storeVars, rowVars, diskVars, workerVars, clientVars, procVars, histVars, leftVars
  <1>1. ASSUME NEW c \in Clients, Request(c) PROVE [Lifecycle!Next]_Phase
    <2>1. ASSUME NEW j \in Ids, CreateBegin(c, j) PROVE [Lifecycle!Next]_Phase
      BY <2>1, SamePhase DEF CreateBegin
    <2>2. ASSUME NEW j \in Ids, CancelRead(c, j) PROVE [Lifecycle!Next]_Phase
      BY <2>2, SamePhase DEF CancelRead
    <2>3. ASSUME NEW j \in Ids, DeleteRead(c, j) PROVE [Lifecycle!Next]_Phase
      BY <2>3, SamePhase DEF DeleteRead
    <2>4. QED
      BY <1>1, <2>1, <2>2, <2>3 DEF Request
  <1>2. ASSUME NEW c \in Clients, Handler(c) PROVE [Lifecycle!Next]_Phase
    <2>1. CASE CreateSave(c)
      BY <2>1, SamePhase DEF CreateSave
    <2>2. CASE CreateReject(c)
      BY <2>2, SamePhase DEF CreateReject
    <2>3. CASE CreateCommit(c)
      <3>1. on[c] \in Ids
        BY <2>3 DEF CreateCommit, Return, Insert
      <3>2. \A k \in Ids \ {on[c]} : Phase'[k] = Phase[k]
        BY <2>3, <3>1 DEF CreateCommit, Return, Insert
      <3>3. Follows(Phase[on[c]], Phase'[on[c]])
        BY <2>3, <3>1 DEF CreateCommit, Return, Insert, Follows, OwnInv, OwnedIsRunning
      <3>4. QED
        BY <3>1, <3>2, <3>3, MoveOneJob
    <2>4. CASE CreateFail(c)
      BY <2>4, SamePhase DEF CreateFail
    <2>5. CASE CancelNow(c)
      <3>1. on[c] \in Ids
        BY <2>5 DEF CancelNow, Continue, SetStatus
      <3>2. \A k \in Ids \ {on[c]} : Phase'[k] = Phase[k]
        BY <2>5, <3>1 DEF CancelNow, Continue, SetStatus
      <3>3. Follows(Phase[on[c]], Phase'[on[c]])
        BY <2>5, <3>1 DEF CancelNow, Continue, SetStatus, Follows, OwnInv, OwnedIsRunning
      <3>4. QED
        BY <3>1, <3>2, <3>3, MoveOneJob
    <2>6. CASE CancelPurge(c)
      BY <2>6, SamePhase DEF CancelPurge
    <2>7. CASE CancelFlag(c)
      BY <2>7, SamePhase DEF CancelFlag, RequestCancel
    <2>8. CASE DeleteDir(c)
      <3>1. on[c] \in Ids
        BY <2>8 DEF DeleteDir, Continue, PurgeJob
      <3>2. \A k \in Ids \ {on[c]} : Phase'[k] = Phase[k]
        BY <2>8, <3>1 DEF DeleteDir, Continue, PurgeJob
      <3>3. Follows(Phase[on[c]], Phase'[on[c]])
        BY <2>8, <3>1 DEF DeleteDir, Continue, PurgeJob, Follows, OwnInv, OwnedIsRunning
      <3>4. QED
        BY <3>1, <3>2, <3>3, MoveOneJob
    <2>9. CASE DeleteRowStep(c)
      <3>1. on[c] \in Ids
        BY <2>9 DEF DeleteRowStep, Return, DeleteRow
      <3>2. \A k \in Ids \ {on[c]} : Phase'[k] = Phase[k]
        BY <2>9, <3>1 DEF DeleteRowStep, Return, DeleteRow
      <3>3. Follows(Phase[on[c]], Phase'[on[c]])
        BY <2>9, <3>1 DEF DeleteRowStep, Return, DeleteRow, Follows, OwnInv, OwnedIsRunning
      <3>4. QED
        BY <3>1, <3>2, <3>3, MoveOneJob
    <2>10. QED
      BY <1>2, <2>1, <2>2, <2>3, <2>4, <2>5, <2>6, <2>7, <2>8, <2>9 DEF Handler
  <1>3. CASE Start
    BY <1>3, SamePhase DEF Start
  <1>4. CASE Recovery
    <2>1. ASSUME NEW j \in Ids, RecoverCancelled(j) PROVE [Lifecycle!Next]_Phase
      <3>1. \A k \in Ids \ {j} : Phase'[k] = Phase[k]
        BY <2>1 DEF RecoverCancelled, Recovering, SetStatus
      <3>2. Follows(Phase[j], Phase'[j])
        BY <2>1 DEF RecoverCancelled, Recovering, SetStatus, Follows
      <3>3. QED
        BY <3>1, <3>2, MoveOneJob
    <2>2. ASSUME NEW j \in Ids, RecoverPaused(j) PROVE [Lifecycle!Next]_Phase
      <3>1. \A k \in Ids \ {j} : Phase'[k] = Phase[k]
        BY <2>2 DEF RecoverPaused, Recovering, SetStatus
      <3>2. Follows(Phase[j], Phase'[j])
        BY <2>2 DEF RecoverPaused, Recovering, SetStatus, Follows
      <3>3. QED
        BY <3>1, <3>2, MoveOneJob
    <2>3. ASSUME NEW j \in Ids, RecoverFailed(j) PROVE [Lifecycle!Next]_Phase
      <3>1. \A k \in Ids \ {j} : Phase'[k] = Phase[k]
        BY <2>3 DEF RecoverFailed, Recovering, SetStatus
      <3>2. Follows(Phase[j], Phase'[j])
        BY <2>3 DEF RecoverFailed, Recovering, SetStatus, Follows
      <3>3. QED
        BY <3>1, <3>2, MoveOneJob
    <2>4. CASE RecoverPurge
      BY <2>4, SamePhase DEF RecoverPurge
    <2>5. CASE Serve
      BY <2>5, SamePhase DEF Serve
    <2>6. QED
      BY <1>4, <2>1, <2>2, <2>3, <2>4, <2>5 DEF Recovery
  <1>5. CASE Worker
    <2>1. CASE LoopTest
      BY <2>1, SamePhase DEF LoopTest, Goto
    <2>2. CASE FindNothing
      BY <2>2, SamePhase DEF FindNothing, Goto
    <2>3. ASSUME NEW j \in Ids, Claim(j) PROVE [Lifecycle!Next]_Phase
      <3>1. /\ \A k \in Ids \ {j} : Phase'[k] = Phase[k]
           /\ \A k \in Ids : Phase[k] # "running"
           /\ Phase[j] \in {"queued", "paused", "lost"}
           /\ Phase'[j] = IF Phase[j] = "lost" \/ Pending("delete_row", j)
                          THEN "lost" ELSE "running"
        BY <2>3 DEF Claim, ClaimNext, IsHead, RunInv, RunningIsOwned, InterruptedJobs
      <3>2. CASE Phase'[j] = "running"
        <4>1. Phase[j] \in {"queued", "paused"}
          BY <3>1, <3>2
        <4>2. Phase' = [Phase EXCEPT ![j] = "running"]
          BY <3>1, <3>2, PhaseIsFunction
        <4>3. QED
          BY <3>1, <4>1, <4>2 DEF Lifecycle!Next, Lifecycle!Run, Lifecycle!Move
      <3>3. CASE Phase'[j] = "lost"
        BY <3>1, <3>3, MoveOneJob DEF Follows
      <3>4. QED
        BY <3>1, <3>2, <3>3
    <2>4. CASE OpenLog
      BY <2>4, SamePhase DEF OpenLog, Goto
    <2>5. CASE Load
      BY <2>5, SamePhase DEF Load, Goto
    <2>6. CASE Resume
      BY <2>6, SamePhase DEF Resume
    <2>7. CASE BatchCancelled
      BY <2>7, SamePhase DEF BatchCancelled, Goto
    <2>8. CASE BatchInterrupted
      BY <2>8, SamePhase DEF BatchInterrupted, Goto
    <2>9. CASE Batches
      BY <2>9, SamePhase DEF Batches
    <2>10. CASE Boundary
      BY <2>10, SamePhase DEF Boundary
    <2>11. CASE SaveTmp
      BY <2>11, SamePhase DEF SaveTmp, Goto
    <2>12. CASE Rename
      BY <2>12, SamePhase DEF Rename, Goto
    <2>13. CASE Record
      BY <2>13, SamePhase DEF Record, Goto, SetEpochs
    <2>14. CASE SaveModel
      BY <2>14, SamePhase DEF SaveModel, Goto
    <2>15. CASE Tar
      BY <2>15, SamePhase DEF Tar, Goto
    <2>16. CASE Succeed
      <3>1. cur \in Ids
        BY <2>16 DEF Succeed, Goto, SetStatus
      <3>2. \A k \in Ids \ {cur} : Phase'[k] = Phase[k]
        BY <2>16, <3>1 DEF Succeed, Goto, SetStatus
      <3>3. Follows(Phase[cur], Phase'[cur])
        BY <2>16, <3>1 DEF Succeed, Goto, SetStatus, Follows, OwnInv, OwnedIsRunning
      <3>4. QED
        BY <3>1, <3>2, <3>3, MoveOneJob
    <2>17. CASE Pause
      <3>1. cur \in Ids
        BY <2>17 DEF Pause, Finish, SetStatus
      <3>2. \A k \in Ids \ {cur} : Phase'[k] = Phase[k]
        BY <2>17, <3>1 DEF Pause, Finish, SetStatus
      <3>3. Follows(Phase[cur], Phase'[cur])
        BY <2>17, <3>1 DEF Pause, Finish, SetStatus, Follows, OwnInv, OwnedIsRunning
      <3>4. QED
        BY <3>1, <3>2, <3>3, MoveOneJob
    <2>18. CASE Cancelled
      <3>1. cur \in Ids
        BY <2>18 DEF Cancelled, Goto, SetStatus
      <3>2. \A k \in Ids \ {cur} : Phase'[k] = Phase[k]
        BY <2>18, <3>1 DEF Cancelled, Goto, SetStatus
      <3>3. Follows(Phase[cur], Phase'[cur])
        BY <2>18, <3>1 DEF Cancelled, Goto, SetStatus, Follows, OwnInv, OwnedIsRunning
      <3>4. QED
        BY <3>1, <3>2, <3>3, MoveOneJob
    <2>19. CASE Failed
      <3>1. cur \in Ids
        BY <2>19 DEF Failed, Goto, SetStatus
      <3>2. \A k \in Ids \ {cur} : Phase'[k] = Phase[k]
        BY <2>19, <3>1 DEF Failed, Goto, SetStatus
      <3>3. Follows(Phase[cur], Phase'[cur])
        BY <2>19, <3>1 DEF Failed, Goto, SetStatus, Follows, OwnInv, OwnedIsRunning
      <3>4. QED
        BY <3>1, <3>2, <3>3, MoveOneJob
    <2>20. CASE Purge
      BY <2>20, SamePhase DEF Purge, Finish
    <2>21. CASE PurgeSucceeded
      BY <2>21, SamePhase DEF PurgeSucceeded, Finish
    <2>22. CASE Undo
      <3>1. /\ cur \in Ids
            /\ \A k \in Ids \ {cur} : Phase'[k] = Phase[k]
            /\ \A k \in Ids : Phase[k] # "running"
        BY <2>22 DEF Undo, Goto, SetStatus, RunInv, RunningIsOwned
      <3>2. CASE cur \in raced \/ ~Present(cur)
        BY <2>22, <3>1, <3>2, MoveOneJob DEF Undo, Goto, SetStatus, Follows
      <3>3. CASE cur \notin raced /\ Present(cur)
        <4>1. Phase[cur] = "succeeded"
          BY <2>22, <3>1, <3>3 DEF Undo, Goto, PurgeInv
        <4>2. Phase'[cur] = "failed"
          BY <2>22, <3>1, <3>3 DEF Undo, Goto, SetStatus
        <4>3. Phase' = [Phase EXCEPT ![cur] = "failed"]
          BY <3>1, <4>2, PhaseIsFunction
        <4>. QED
          BY <3>1, <4>1, <4>3 DEF Lifecycle!Next, Lifecycle!Relapse, Lifecycle!Move
      <3>4. QED
        BY <3>2, <3>3
    <2>23. QED
      BY <1>5, <2>1, <2>2, <2>3, <2>4, <2>5, <2>6, <2>7, <2>8, <2>9, <2>10, <2>11, <2>12,
         <2>13, <2>14, <2>15, <2>16, <2>17, <2>18, <2>19, <2>20, <2>21, <2>22 DEF Worker
  <1>6. CASE Fault
    <2>1. CASE LogFailsAfterSuccess
      BY <2>1, SamePhase DEF LogFailsAfterSuccess, Goto, PurgeCheckpoint
    <2>2. CASE LogFails
      BY <2>2, SamePhase DEF LogFails, Goto
    <2>3. CASE Raise
      BY <2>3, SamePhase DEF Raise, Goto
    <2>4. QED
      BY <1>6, <2>1, <2>2, <2>3 DEF Fault
  <1>7. CASE Shutdown
    BY <1>7, SamePhase DEF Shutdown
  <1>8. CASE Exit
    BY <1>8, SamePhase DEF Exit, Down, Ended
  <1>9. CASE Abandon
    BY <1>9, SamePhase DEF Abandon, Down, Leave
  <1>10. CASE Crash
    BY <1>10, SamePhase DEF Crash, Down, Leave
  <1>11. CASE UNCHANGED vars
    BY <1>11 DEF vars
  <1>12. QED
    BY <1>1, <1>2, <1>3, <1>4, <1>5, <1>6, <1>7, <1>8, <1>9, <1>10, <1>11 DEF Next

-----------------------------------------------------------------------------
(* The theorems *)

IInv ==
  TypeInv /\ RunInv /\ IssuedInv /\ OwnInv /\ FilesInv /\ PurgeInv /\ CkptInv /\ YieldInv
  /\ LossInv

\* The parts together are an invariant of the service.
THEOREM Inductive == Spec => []IInv
  <1>1. Init => IInv
    BY InitTypeInv, InitRunInv, InitIssuedInv, InitOwnInv, InitFilesInv,
       InitPurgeInv, InitCkptInv, InitYieldInv, InitLossInv DEF IInv
  <1>2. IInv /\ [Next]_vars => IInv'
    BY NextTypeInv, NextRunInv, NextIssuedInv, NextOwnInv, NextFilesInv,
       NextPurgeInv, NextCkptInv, NextYieldInv, NextLossInv DEF IInv
  <1>3. QED
    BY <1>1, <1>2, PTL DEF Spec

\* Every variable keeps its type: in particular the training loop never runs
\* past the last epoch (training.run's total_steps).
THEOREM TypeCorrect == Spec => []TypeOK
  <1>1. IInv => TypeOK
    BY DEF IInv, TypeInv
  <1>2. QED
    BY <1>1, Inductive, PTL

\* At most one row says running: nothing between the handlers, the recovery and
\* the crashes breaks the serial execution that db.running_job relies on.
THEOREM Serial == Spec => []AtMostOneRunning
  <1>1. IInv => AtMostOneRunning
    BY DEF IInv, RunInv
  <1>2. QED
    BY <1>1, Inductive, PTL

\* While the service is up, the row that says running is the job the worker
\* thread is at (worker.py, and recover_interrupted after a crash).
THEOREM RowsAreOwned == Spec => []RunningIsOwned
  <1>1. IInv => RunningIsOwned
    BY DEF IInv, RunInv
  <1>2. QED
    BY <1>1, Inductive, PTL

\* The worker trains a job whose row says running, except after a cancel or a
\* delete that acted on a stale status (main.py:232-242, 265-271).
THEOREM Ownership == Spec => []OwnedIsRunning
  <1>1. IInv => OwnedIsRunning
    BY DEF IInv, OwnInv
  <1>2. QED
    BY <1>1, Inductive, PTL

\* The uploads of a row are on the disk, except while a delete is between its
\* two steps or was cut there (create_job, delete_job).
THEOREM FilesKept == Spec => []RowHasInputs
  <1>1. IInv => RowHasInputs
    BY DEF IInv, FilesInv, RowHasInputs
  <1>2. QED
    BY <1>1, Inductive, PTL

\* So is the artifact of a job that succeeded (_run_job, delete_job).
THEOREM ArtifactsKept == Spec => []SucceededHasArtifact
  <1>1. IInv => SucceededHasArtifact
    BY DEF IInv, FilesInv
  <1>2. QED
    BY <1>1, Inductive, PTL

\* Only a job deleted under it, or a log that cannot be written, ends the worker
\* thread (the exception handler of _run_job).
THEOREM WorkerDeaths == Spec => []DiesOnlyOnLostJob
  <1>1. IInv => DiesOnlyOnLostJob
    BY DEF IInv, FilesInv
  <1>2. QED
    BY <1>1, Inductive, PTL

\* No create, delete or recovery leaves a directory without a row, except where
\* the process died between the two writes or the job raced.
THEOREM NothingLeft == Spec => []NoOrphanDirectory
  <1>1. IInv => NoOrphanDirectory
    BY DEF IInv, PurgeInv
  <1>2. QED
    BY <1>1, Inductive, PTL

\* Nor does a cancel, a failure, a success or a recovery leave a checkpoint that
\* no job could resume from.
THEOREM CheckpointsPurged == Spec => []FinalHasNoCheckpoint
  <1>1. IInv => FinalHasNoCheckpoint
    BY DEF IInv, CkptInv
  <1>2. QED
    BY <1>1, Inductive, PTL

\* A job that yields has all its epochs in its checkpoint (training.py, the end
\* of an epoch).
THEOREM YieldKeepsEpochs == Spec => []YieldLosesNothing
  <1>1. IInv => YieldLosesNothing
    BY DEF IInv, YieldInv
  <1>2. QED
    BY <1>1, Inductive, PTL

\* A stop or a crash costs a job that checkpoints less than its interval
\* (training.py, the end of an epoch).
THEOREM LossBound == Spec => []LossIsBounded
  <1>1. IInv => LossIsBounded
    <2> SUFFICES ASSUME IInv, Working, pc \in {"batch", "pause"}, cur \in Sound, every[cur] > 0
                 PROVE  epoch - ckpt[cur] < every[cur]
      BY DEF LossIsBounded
    <2>1. LastDue(epoch, every[cur]) <= ckpt[cur]
      BY DEF IInv, LossInv
    <2>2. /\ epoch \in Nat /\ every[cur] \in Nat \ {0} /\ ckpt[cur] \in Nat
      BY EpochsAssumption DEF IInv, TypeInv, TypeOK, StoreTypeOK, Sound
    <2>3. LastDue(epoch, every[cur]) \in Nat /\ epoch < LastDue(epoch, every[cur]) + every[cur]
      BY <2>2, LastDueBounds
    <2>. QED
      BY <2>1, <2>2, <2>3
  <1>2. QED
    BY <1>1, Inductive, PTL

\* What epochs_completed says of a waiting job is in its checkpoint.
THEOREM EpochsKept == Spec => []EpochsAreCheckpointed
  <1>1. IInv => EpochsAreCheckpointed
    BY DEF IInv, CkptInv, EpochsAreCheckpointed, Waiting, Sound
  <1>2. QED
    BY <1>1, Inductive, PTL

\* The service implements the lifecycle of docs/architecture.md for the jobs
\* that did not race: the statuses follow one another as drawn there, and a
\* final status gives way to nothing but the deletion of the job.
THEOREM Implements == Spec => LifecycleSpec
  <1>1. IInv /\ [Next]_vars => [Lifecycle!Next]_Phase
    BY NextLifecycle DEF IInv
  <1>2. Spec => Lifecycle!Init /\ [][Lifecycle!Next]_Phase
    BY <1>1, InitLifecycle, Inductive, PTL DEF Spec
  <1>3. QED
    BY <1>2 DEF LifecycleSpec, Lifecycle!Spec

=============================================================================
