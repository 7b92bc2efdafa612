------------------------------ MODULE JobStore ------------------------------
(***************************************************************************)
(* The SQLite job store, app/db.py.                                        *)
(*                                                                         *)
(* Every function of db.py holds the module lock and one connection, so    *)
(* each is one atomic action (a write) or one operator (a read).  The      *)
(* columns are variables, indexed by job id; status "absent" stands for a  *)
(* missing row.  A deleted row's other columns keep their last value,      *)
(* which nothing reads; Insert sets all of them.                           *)
(*                                                                         *)
(* Abstractions.  A job id is a positive integer whose order is the text   *)
(* order of the hex ids.  A time is a whole second, as now() formats it;   *)
(* MaxClock bounds the seconds that pass.  The columns no decision reads   *)
(* (name, task, metrics, error, ...) are left out, and so are started_at   *)
(* and preempted_count.                                                    *)
(*                                                                         *)
(* A definition whose comment begins with "Variant" is a faulty form of    *)
(* the one that follows it, kept to test the properties with.              *)
(***************************************************************************)
EXTENDS Integers, FiniteSets

CONSTANTS
  Ids,        \* the job ids uuid4 may hand out
  Ranks,      \* the priority ranks callers submit with
  Intervals,  \* the values of checkpoint_every_epochs callers submit with
  MaxClock    \* bound: the last second at which a job can be created

ASSUME IdsAssumption == Ids \subseteq Nat \ {0}
ASSUME RanksAssumption == Ranks \subseteq 0..2
ASSUME IntervalsAssumption == Intervals \subseteq Nat
ASSUME ClockAssumption == MaxClock \in Nat

VARIABLES
  status,   \* the status column, "absent" where there is no row
  rank,     \* the priority column
  created,  \* the created_at column
  clock,    \* the second of the latest creation
  cancel,   \* the cancel_requested column
  epochs,   \* the epochs_completed column
  every     \* checkpoint_every_epochs in the config column

storeVars == <<status, rank, created, clock, cancel, epochs, every>>
rowVars == <<rank, created, clock, every>>

\* Variant: paused jobs are not claimed.
RunnableFresh == {"queued"}

Runnable == {"queued", "paused"}
Terminal == {"succeeded", "failed", "cancelled"}
Statuses == Runnable \union Terminal \union {"running"}

StoreTypeOK ==
  /\ status \in [Ids -> Statuses \union {"absent"}]
  /\ rank \in [Ids -> 0..2]
  /\ created \in [Ids -> 0..MaxClock]
  /\ clock \in 0..MaxClock
  /\ cancel \in [Ids -> BOOLEAN]
  /\ epochs \in [Ids -> Nat]
  /\ every \in [Ids -> Nat]

StoreInit ==
  /\ status = [j \in Ids |-> "absent"]
  /\ rank = [j \in Ids |-> 0]
  /\ created = [j \in Ids |-> 0]
  /\ clock = 0
  /\ cancel = [j \in Ids |-> FALSE]
  /\ epochs = [j \in Ids |-> 0]
  /\ every = [j \in Ids |-> 0]

-----------------------------------------------------------------------------
(* Reads *)

Present(j) == status[j] # "absent"

Waiting == {j \in Ids : status[j] \in Runnable}

\* _QUEUE_ORDER: priority DESC, created_at, id.
Before(j, k) ==
  \/ rank[j] > rank[k]
  \/ rank[j] = rank[k] /\ created[j] < created[k]
  \/ rank[j] = rank[k] /\ created[j] = created[k] /\ j < k

\* The row the ordered SELECT ... LIMIT 1 of claim_next returns.
IsHead(j) == j \in Waiting /\ \A k \in Waiting \ {j} : Before(j, k)

\* Variant: an equal priority preempts.
HigherWaitingSlip(r) == \E j \in Waiting : rank[j] >= r

HigherWaiting(r) == \E j \in Waiting : rank[j] > r

\* Variant: the id is left out of the tie-break.
QueuePositionSlip(j) ==
  1 + Cardinality({k \in Waiting :
        \/ rank[k] > rank[j]
        \/ rank[k] = rank[j] /\ created[k] < created[j]})

\* 1-based; the COUNT(*) of queue_position, for a job in Waiting.
QueuePosition(j) ==
  1 + Cardinality({k \in Waiting :
        \/ rank[k] > rank[j]
        \/ /\ rank[k] = rank[j]
           /\ \/ created[k] < created[j]
              \/ created[k] = created[j] /\ k < j})

InterruptedJobs == {j \in Ids : status[j] = "running"}

-----------------------------------------------------------------------------
(* Writes.  UPDATE and DELETE of a missing row change nothing. *)

Insert(j, r, n, t) ==
  /\ ~Present(j)
  /\ t \in clock..MaxClock
  /\ clock' = t
  /\ status' = [status EXCEPT ![j] = "queued"]
  /\ rank' = [rank EXCEPT ![j] = r]
  /\ created' = [created EXCEPT ![j] = t]
  /\ cancel' = [cancel EXCEPT ![j] = FALSE]
  /\ epochs' = [epochs EXCEPT ![j] = 0]
  /\ every' = [every EXCEPT ![j] = n]

ClaimNext(j) ==
  /\ IsHead(j)
  /\ status' = [status EXCEPT ![j] = "running"]
  /\ UNCHANGED <<rowVars, cancel, epochs>>

\* Variant: a paused job is stamped as if it had just come.
SetStatusRestamped(j, s) ==
  /\ status' = IF Present(j) THEN [status EXCEPT ![j] = s] ELSE status
  /\ created' = IF s = "paused" THEN [created EXCEPT ![j] = clock] ELSE created
  /\ UNCHANGED <<rank, clock, every, cancel, epochs>>

SetStatus(j, s) ==
  /\ status' = IF Present(j) THEN [status EXCEPT ![j] = s] ELSE status
  /\ UNCHANGED <<rowVars, cancel, epochs>>

SetEpochs(j, e) ==
  /\ epochs' = IF Present(j) THEN [epochs EXCEPT ![j] = e] ELSE epochs
  /\ UNCHANGED <<rowVars, status, cancel>>

RequestCancel(j) ==
  /\ cancel' = IF Present(j) THEN [cancel EXCEPT ![j] = TRUE] ELSE cancel
  /\ UNCHANGED <<rowVars, status, epochs>>

DeleteRow(j) ==
  /\ status' = [status EXCEPT ![j] = "absent"]
  /\ UNCHANGED <<rowVars, cancel, epochs>>

=============================================================================
