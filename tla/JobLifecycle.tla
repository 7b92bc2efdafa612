----------------------------- MODULE JobLifecycle ---------------------------
(***************************************************************************)
(* What the service promises of a job, as the lifecycle diagram of         *)
(* docs/architecture.md draws it and schemas.JobStatus names it: the       *)
(* statuses a job may take, one job running at a time, and three final     *)
(* statuses from which a job can only be deleted.                          *)
(*                                                                         *)
(* "lost" is not in the diagram: it is the status of a job on which a      *)
(* request acted upon a status that was no longer true (see JobService).   *)
(* Nothing is promised of such a job, except that the others keep theirs.  *)
(* Nor is Relapse in the diagram, which calls a final status terminal.     *)
(***************************************************************************)
CONSTANT Jobs

VARIABLE phase

Final == {"succeeded", "failed", "cancelled"}
Phases == {"absent", "queued", "running", "paused", "lost"} \union Final

Move(j, from, to) == phase[j] \in from /\ phase' = [phase EXCEPT ![j] = to]

Submit(j) == Move(j, {"absent"}, "queued")

Run(j) ==
  /\ \A k \in Jobs : phase[k] # "running"
  /\ Move(j, {"queued", "paused"}, "running")

Pause(j) == Move(j, {"running"}, "paused")

Succeed(j) == Move(j, {"running"}, "succeeded")

Fail(j) == Move(j, {"running"}, "failed")

Cancel(j) == Move(j, {"queued", "paused", "running"}, "cancelled")

Delete(j) == Move(j, {"queued", "paused", "lost"} \union Final, "absent")

\* The one way back from a final status: a job fails over the last line of its
\* log, after it has succeeded and before another job runs.
Relapse(j) ==
  /\ \A k \in Jobs : phase[k] # "running"
  /\ Move(j, {"succeeded"}, "failed")

Lose(j) == Move(j, Phases \ {"absent"}, "lost")

Init == phase = [j \in Jobs |-> "absent"]

Next ==
  \E j \in Jobs :
    \/ Submit(j)
    \/ Run(j)
    \/ Pause(j)
    \/ Succeed(j)
    \/ Fail(j)
    \/ Cancel(j)
    \/ Delete(j)
    \/ Relapse(j)
    \/ Lose(j)

Spec == Init /\ [][Next]_phase

=============================================================================
