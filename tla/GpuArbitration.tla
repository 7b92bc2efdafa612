--------------------------- MODULE GpuArbitration ---------------------------
(***************************************************************************)
(* The drain loop of the worker thread, app/worker.py _loop, as it takes   *)
(* the GPU from a co-tenant systemd unit and gives it back.                *)
(*                                                                         *)
(* Of the jobs only their number counts here: what the loop claims is in   *)
(* JobService.  The unit, systemctl and the operator are external and are  *)
(* modelled from the calls the loop makes.  idle is the time since the     *)
(* first empty poll, in polls of two seconds; Delay is the number of polls *)
(* in GPU_IDLE_RESTART_SECONDS.  GPU memory is left out: _stop_cotenant    *)
(* goes on after 30 seconds whatever nvidia-smi says.                      *)
(*                                                                         *)
(* A definition whose comment begins with "Variant" is a faulty form of    *)
(* the one that follows it, kept to test the properties with.              *)
(***************************************************************************)
EXTENDS Integers

CONSTANTS
  Managed,   \* SGLANG_CONTROL is on and the unit is installed
  Delay,     \* polls until the co-tenant is restarted
  Faults,    \* "stop_fails", "start_fails", "die", "crash", "timeout", "operator"
  MaxQueue,  \* bound: jobs waiting at a time
  MaxStarts  \* bound: how often the process is started

ASSUME ManagedAssumption == Managed \in BOOLEAN
ASSUME DelayAssumption == Delay \in Nat
ASSUME QueueAssumption == MaxQueue \in Nat
ASSUME StartsAssumption == MaxStarts \in Nat

VARIABLES
  unit,     \* the co-tenant unit: "active" or "inactive"
  queue,    \* jobs waiting in the store
  svc,      \* the process: "down", "up", "stopping" (_stop is set)
  pc,       \* the next step of the loop; "off" without a thread, "over" after it
  holding,  \* the local of _loop
  idle,     \* time since idle_since, NotIdle for None
  starts,   \* how often the process was started
  owed,     \* history: this thread has stopped the unit and no start of it has
            \* succeeded since
  lost,     \* history: since that stop a start has failed, or an exception has
            \* cut _stop_cotenant short
  slipped,  \* history: the unit may be up against the loop's will
  quiet     \* history: waits since the last job was claimed, up to Delay

vars == <<unit, queue, svc, pc, holding, idle, starts, owed, lost, slipped, quiet>>

NotIdle == -1
Steps == {"off", "test", "claim", "check", "stop", "settle", "run", "poll", "start",
          "wait", "finally", "over"}

TypeOK ==
  /\ unit \in {"active", "inactive"}
  /\ queue \in 0..MaxQueue
  /\ svc \in {"down", "up", "stopping"}
  /\ pc \in Steps
  /\ holding \in BOOLEAN
  /\ idle \in {NotIdle} \union 0..Delay
  /\ starts \in 0..MaxStarts
  /\ owed \in BOOLEAN
  /\ lost \in BOOLEAN
  /\ slipped \in BOOLEAN
  /\ quiet \in 0..Delay

Init ==
  /\ unit \in {"active", "inactive"}
  /\ queue = 0
  /\ svc = "down"
  /\ pc = "off"
  /\ holding = FALSE
  /\ idle = NotIdle
  /\ starts = 0
  /\ owed = FALSE
  /\ lost = FALSE
  /\ slipped = FALSE
  /\ quiet = 0

-----------------------------------------------------------------------------
(* The world: requests, systemd, the operator *)

Arrive ==
  /\ svc = "up" /\ queue < MaxQueue
  /\ queue' = queue + 1
  /\ UNCHANGED <<unit, svc, pc, holding, idle, starts, owed, lost, slipped, quiet>>

\* A waiting job is cancelled or deleted.
Depart ==
  /\ svc = "up" /\ queue > 0
  /\ queue' = queue - 1
  /\ UNCHANGED <<unit, svc, pc, holding, idle, starts, owed, lost, slipped, quiet>>

Operator ==
  /\ "operator" \in Faults
  /\ unit' \in {"active", "inactive"} \ {unit}
  /\ slipped' = (slipped \/ unit = "inactive")
  /\ UNCHANGED <<queue, svc, pc, holding, idle, starts, owed, lost, quiet>>

Start ==
  /\ svc = "down" /\ starts < MaxStarts
  /\ svc' = "up" /\ starts' = starts + 1
  /\ pc' = "test" /\ holding' = FALSE /\ idle' = NotIdle
  /\ owed' = FALSE /\ lost' = FALSE /\ quiet' = 0
  /\ UNCHANGED <<unit, queue, slipped>>

Shutdown ==
  /\ svc = "up" /\ starts < MaxStarts
  /\ svc' = "stopping"
  /\ UNCHANGED <<unit, queue, pc, holding, idle, starts, owed, lost, slipped, quiet>>

Exit ==
  /\ svc = "stopping" /\ pc = "over"
  /\ svc' = "down" /\ pc' = "off"
  /\ UNCHANGED <<unit, queue, holding, idle, starts, owed, lost, slipped, quiet>>

\* The process is killed, or join() has timed out: no finally runs.
Kill ==
  /\ \/ "crash" \in Faults /\ svc # "down"
     \/ "timeout" \in Faults /\ svc = "stopping"
  /\ starts < MaxStarts
  /\ svc' = "down" /\ pc' = "off"
  /\ UNCHANGED <<unit, queue, holding, idle, starts, owed, lost, slipped, quiet>>

-----------------------------------------------------------------------------
(* The loop *)

Goto(from, to) == pc = from /\ pc' = to

\* systemctl stop and start; a failure is logged, and nobody reads the result.
SystemctlStop ==
  \/ unit' = "inactive" /\ owed' = TRUE /\ lost' = FALSE /\ slipped' = FALSE
  \/ "stop_fails" \in Faults /\ slipped' = TRUE /\ UNCHANGED <<unit, owed, lost>>

SystemctlStart ==
  /\ \/ unit' = "active" /\ owed' = FALSE /\ lost' = FALSE
     \/ "start_fails" \in Faults /\ lost' = TRUE /\ UNCHANGED <<unit, owed>>
  /\ UNCHANGED slipped

\* Variant: the loop does not look at _stop.
LoopTestForever ==
  /\ Goto("test", "claim")
  /\ UNCHANGED <<unit, queue, svc, holding, idle, starts, owed, lost, slipped, quiet>>

LoopTest ==
  /\ Goto("test", IF svc = "stopping" THEN "finally" ELSE "claim")
  /\ UNCHANGED <<unit, queue, svc, holding, idle, starts, owed, lost, slipped, quiet>>

\* Variant: the idle timer survives a job.
ClaimKeepsTimer ==
  /\ queue > 0
  /\ Goto("claim", IF holding THEN "run" ELSE "check")
  /\ queue' = queue - 1 /\ quiet' = 0
  /\ UNCHANGED <<unit, svc, holding, idle, starts, owed, lost, slipped>>

\* Variant: _stop_cotenant is called for every job.
ClaimAlwaysChecks ==
  /\ queue > 0
  /\ Goto("claim", "check")
  /\ queue' = queue - 1 /\ idle' = NotIdle /\ quiet' = 0
  /\ UNCHANGED <<unit, svc, holding, starts, owed, lost, slipped>>

\* Variant: the loop does not ask whether claim_next returned a job.
ClaimNothing ==
  /\ Goto("claim", IF holding THEN "run" ELSE "check")
  /\ queue' = queue - 1 /\ idle' = NotIdle /\ quiet' = 0
  /\ UNCHANGED <<unit, svc, holding, starts, owed, lost, slipped>>

Claim ==
  /\ queue > 0
  /\ Goto("claim", IF holding THEN "run" ELSE "check")
  /\ queue' = queue - 1 /\ idle' = NotIdle /\ quiet' = 0
  /\ UNCHANGED <<unit, svc, holding, starts, owed, lost, slipped>>

FindNothing ==
  /\ queue = 0
  /\ Goto("claim", "poll")
  /\ UNCHANGED <<unit, queue, svc, holding, idle, starts, owed, lost, slipped, quiet>>

\* _stop_cotenant returns False: there is nothing to stop.
CheckNothing ==
  /\ Goto("check", "run")
  /\ Managed => unit = "inactive"
  /\ holding' = FALSE
  /\ UNCHANGED <<unit, queue, svc, idle, starts, owed, lost, slipped, quiet>>

CheckActive ==
  /\ Goto("check", "stop")
  /\ Managed /\ unit = "active"
  /\ UNCHANGED <<unit, queue, svc, holding, idle, starts, owed, lost, slipped, quiet>>

StopUnit ==
  /\ Goto("stop", "settle")
  /\ SystemctlStop
  /\ UNCHANGED <<queue, svc, holding, idle, starts, quiet>>

\* The driver reclaims the memory, or 30 seconds pass: returns True.
Settle ==
  /\ Goto("settle", "run")
  /\ holding' = TRUE
  /\ UNCHANGED <<unit, queue, svc, idle, starts, owed, lost, slipped, quiet>>

\* _run_job returns; a paused job is back in the queue.
RunJob ==
  /\ Goto("run", "test")
  /\ queue' \in {queue} \union (IF queue < MaxQueue THEN {queue + 1} ELSE {})
  /\ UNCHANGED <<unit, svc, holding, idle, starts, owed, lost, slipped, quiet>>

\* Steps at which an exception may come before the step has had its effect.
Raising == {"claim", "check", "stop", "run", "poll", "start"}

\* Variant: an exception ends the thread at once.
DieAtOnce ==
  /\ "die" \in Faults
  /\ pc \in Raising
  /\ Goto(pc, "over")
  /\ UNCHANGED <<unit, queue, svc, holding, idle, starts, owed, lost, slipped, quiet>>

\* An exception leaves claim_next, _stop_cotenant or _run_job (JobService,
\* step "dead"), or a line of the journal cannot be written.
Die ==
  /\ "die" \in Faults
  /\ pc \in Raising
  /\ Goto(pc, "finally")
  /\ UNCHANGED <<unit, queue, svc, holding, idle, starts, owed, lost, slipped, quiet>>

\* An exception leaves _stop_cotenant after the stop: holding is not assigned.
DieSettling ==
  /\ "die" \in Faults
  /\ Goto("settle", "finally")
  /\ lost' = TRUE
  /\ UNCHANGED <<unit, queue, svc, holding, idle, starts, owed, slipped, quiet>>

\* An exception leaves _start_cotenant after the start: holding is not reset.
DieStarted ==
  /\ "die" \in Faults
  /\ Goto("start", "finally")
  /\ SystemctlStart
  /\ UNCHANGED <<queue, svc, holding, idle, starts, quiet>>

\* Variant: every empty poll restarts the timer.
PollRestartsTimer ==
  /\ Goto("poll", IF holding /\ idle >= Delay THEN "start" ELSE "wait")
  /\ idle' = IF holding THEN 0 ELSE idle
  /\ UNCHANGED <<unit, queue, svc, holding, starts, owed, lost, slipped, quiet>>

Poll ==
  /\ Goto("poll", IF holding /\ idle >= Delay THEN "start" ELSE "wait")
  /\ idle' = IF holding /\ idle = NotIdle THEN 0 ELSE idle
  /\ UNCHANGED <<unit, queue, svc, holding, starts, owed, lost, slipped, quiet>>

\* Variant: holding is not reset.
RestartUnitHeld ==
  /\ Goto("start", "wait")
  /\ SystemctlStart
  /\ idle' = NotIdle
  /\ UNCHANGED <<queue, svc, holding, starts, quiet>>

RestartUnit ==
  /\ Goto("start", "wait")
  /\ SystemctlStart
  /\ holding' = FALSE /\ idle' = NotIdle
  /\ UNCHANGED <<queue, svc, starts, quiet>>

\* _stop.wait(2.0)
Wait ==
  /\ Goto("wait", "test")
  /\ idle' = IF idle \in 0..(Delay - 1) THEN idle + 1 ELSE idle
  /\ quiet' = IF quiet < Delay THEN quiet + 1 ELSE quiet
  /\ UNCHANGED <<unit, queue, svc, holding, starts, owed, lost, slipped>>

Finally ==
  /\ Goto("finally", "over")
  /\ IF holding THEN SystemctlStart ELSE UNCHANGED <<unit, owed, lost, slipped>>
  /\ UNCHANGED <<queue, svc, holding, idle, starts, quiet>>

Loop ==
  \/ LoopTest \/ Claim \/ FindNothing
  \/ CheckNothing \/ CheckActive \/ StopUnit \/ Settle
  \/ RunJob \/ Poll \/ RestartUnit \/ Wait \/ Finally

Next ==
  \/ Loop \/ Die \/ DieSettling \/ DieStarted
  \/ Arrive \/ Depart \/ Operator
  \/ Start \/ Shutdown \/ Exit \/ Kill

Spec == Init /\ [][Next]_vars

\* The thread is scheduled, no training runs for ever, and the process exits
\* once the thread has ended.
FairSpec == Spec /\ WF_vars(Loop) /\ WF_vars(Exit)

-----------------------------------------------------------------------------
(* Properties that hold *)

\* No job trains beside the co-tenant: the unit is down whenever a job runs,
\* after crashes, failed restarts and dead threads too, unless its stop failed
\* or the operator started it again.
TrainsAlone ==
  Managed /\ pc = "run" => unit = "inactive" \/ slipped

\* The loop remembers a unit it has stopped, through jobs, idle polls and dying
\* jobs, until a start of it succeeds, whatever the operator does.  There are
\* two exceptions, lost: a failed start is forgotten (worker.py:312-313 does not
\* read its result), and an exception that leaves _stop_cotenant after the stop
\* comes before holding is assigned (worker.py:290).
StoppedIsHeld ==
  pc \notin {"off", "settle", "over"} /\ owed => holding \/ lost

\* A thread that ends by itself, at a shutdown or by an exception at any step,
\* has started the unit it stopped, with the same two exceptions.
EndsRestored ==
  pc = "over" /\ owed => lost

\* The unit is restarted only after the queue was found empty for the whole
\* delay: no job was claimed in that time (architecture.md:150,
\* "Restarting between back-to-back jobs is pure waste").
RestartsAfterDelay ==
  [][pc = "start" /\ pc' = "wait" => quiet = Delay]_vars

\* If the jobs stop coming, the unit is started again, with success, unless the
\* process that stopped it is killed first (CrashRestores), a start fails, which
\* is never tried again, or an exception cuts _stop_cotenant short.
GivesBack ==
  <>[](queue = 0) => []<>(owed /\ ~lost => svc = "down")

\* A shutdown completes, whatever the loop is at: deep in a job, in the 30
\* seconds after a stop, or dead.
StopCompletes ==
  svc = "stopping" ~> svc = "down"

-----------------------------------------------------------------------------
(* What the documentation says; each refuted by the code. *)

\* worker.py:11: "The restore is guarded by a finally so a crash never leaves
\* the co-tenant down."
CrashRestores ==
  svc = "down" => ~owed

\* architecture.md:159: "`_stop_cotenant()` returns `True` only if it actually
\* stopped a running unit, so the tuner never starts a co-tenant it did not
\* stop."
HoldsOnlyWhatItStopped ==
  holding => owed

=============================================================================
