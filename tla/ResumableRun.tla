---------------------------- MODULE ResumableRun ----------------------------
(***************************************************************************)
(* What training.run promises over all the attempts of one job: total      *)
(* optimisation steps, taken one after the other, of which a checkpoint    *)
(* keeps the first few.  A new attempt goes on from what was saved or from *)
(* nothing; the job is finished only by a model that has taken every step, *)
(* and unless it is finished it ends only by being dropped from outside.   *)
(*                                                                         *)
(* "spoiled" is a run whose attempt kept a part of a checkpoint it had     *)
(* refused (see Training); nothing is promised of it.                      *)
(***************************************************************************)
EXTENDS Integers

VARIABLES
  total,  \* the steps of an uninterrupted run
  done,   \* the steps behind the model
  saved,  \* the steps behind the checkpoint, 0 where there is none
  phase   \* "going", "finished", "dropped" or "spoiled"

vars == <<total, done, saved, phase>>

Init ==
  /\ total \in Nat \ {0}
  /\ done = 0 /\ saved = 0
  /\ phase = "going"

Advance ==
  /\ done < total
  /\ done' = done + 1
  /\ UNCHANGED saved

\* A checkpoint of a finished run would only be deleted.
Save ==
  /\ 0 < done /\ done < total
  /\ saved' = done
  /\ UNCHANGED done

SetBack ==
  /\ done' \in {0, saved}
  /\ UNCHANGED saved

Going == phase = "going" /\ UNCHANGED <<total, phase>> /\ (Advance \/ Save \/ SetBack)

End ==
  /\ phase = "going"
  /\ \/ done = total /\ phase' = "finished"
     \/ phase' \in {"dropped", "spoiled"}
  /\ done' = 0 /\ saved' = 0
  /\ UNCHANGED total

Next == Going \/ End

Spec == Init /\ [][Next]_vars

=============================================================================
