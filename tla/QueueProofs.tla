----------------------------- MODULE QueueProofs ----------------------------
(***************************************************************************)
(* Proofs about QueueView, for any number of jobs, priorities and seconds. *)
(* What is proved of the order of the queue needs no more of the reachable *)
(* states than the types of the columns and that the rows are finitely     *)
(* many, though the ids need not be; what is proved of GET /v1/queue needs *)
(* to know what it has shown when it reads on (Accounted).                 *)
(***************************************************************************)
EXTENDS QueueView, OrderingProofs, TLAPS

\* The columns are typed at first.
LEMMA InitStoreTypes == QueueInit => StoreTypeOK
  BY ClockAssumption DEF QueueInit, StoreInit, StoreTypeOK, Statuses, Runnable, Terminal

\* They stay so, and a job that has a row before and after a step keeps its
\* priority and its time of creation.
LEMMA NextStoreTypes ==
  ASSUME StoreTypeOK, [StoreStep \/ GetQueue]_vars
  PROVE  /\ StoreTypeOK'
         /\ \A j \in Ids : Present(j) /\ Present(j)' =>
              rank'[j] = rank[j] /\ created'[j] = created[j]
  <1> USE DEF StoreTypeOK, Statuses, Runnable, Terminal, Present
  <1>1. ASSUME NEW j \in Ids, Submit(j)
        PROVE  /\ StoreTypeOK'
               /\ \A k \in Ids : Present(k) /\ Present(k)' =>
                    rank'[k] = rank[k] /\ created'[k] = created[k]
    BY <1>1, RanksAssumption, IntervalsAssumption, ClockAssumption DEF Submit, Insert
  <1>2. ASSUME NEW j \in Ids, Claim(j)
        PROVE  /\ StoreTypeOK'
               /\ \A k \in Ids : Present(k) /\ Present(k)' =>
                    rank'[k] = rank[k] /\ created'[k] = created[k]
    BY <1>2 DEF Claim, ClaimNext, rowVars
  <1>3. ASSUME NEW j \in Ids, Pause(j) \/ End(j)
        PROVE  /\ StoreTypeOK'
               /\ \A k \in Ids : Present(k) /\ Present(k)' =>
                    rank'[k] = rank[k] /\ created'[k] = created[k]
    BY <1>3 DEF Pause, End, SetStatus, rowVars
  <1>4. ASSUME NEW j \in Ids, Delete(j)
        PROVE  /\ StoreTypeOK'
               /\ \A k \in Ids : Present(k) /\ Present(k)' =>
                    rank'[k] = rank[k] /\ created'[k] = created[k]
    BY <1>4 DEF Delete, DeleteRow, rowVars
  <1>5. CASE GetQueue
    BY <1>5 DEF GetQueue, ReadRunning, ReadYielding, ReadWaiting, storeVars
  <1>6. CASE UNCHANGED vars
    BY <1>6 DEF vars, storeVars
  <1>. QED
    BY <1>1, <1>2, <1>3, <1>4, <1>5, <1>6 DEF StoreStep

\* The columns keep their types.
THEOREM StoreTypes == QueueSpec => []StoreTypeOK
  BY InitStoreTypes, NextStoreTypes, PTL DEF QueueSpec

\* A waiting job that is more urgent than the running one is ahead of it.
LEMMA UrgentIsAhead == ASSUME StoreTypeOK PROVE YieldHandsOver
  <1> SUFFICES ASSUME NEW j \in InterruptedJobs, HigherWaiting(rank[j]),
                      NEW k \in Waiting \union {j},
                      \A l \in (Waiting \union {j}) \ {k} : Before(k, l)
               PROVE  rank[k] > rank[j]
    BY DEF YieldHandsOver
  <1>1. PICK w \in Waiting : rank[w] > rank[j]
    BY DEF HigherWaiting
  <1>2. /\ rank[j] \in Int /\ rank[k] \in Int /\ rank[w] \in Int
    BY DEF StoreTypeOK, InterruptedJobs, Waiting
  <1>3. CASE w = k
    BY <1>1, <1>3
  <1>4. CASE w # k
    <2>1. rank[k] >= rank[w]
      BY <1>2, <1>4 DEF Before
    <2>. QED
      BY <1>1, <1>2, <2>1
  <1>. QED
    BY <1>3, <1>4

\* When the training loop is told to yield, whoever is at the head of the queue
\* once the job is back on it is more urgent (db.py: _QUEUE_ORDER,
\* higher_priority_waiting).
THEOREM YieldsToTheUrgent == QueueSpec => []YieldHandsOver
  BY UrgentIsAhead, StoreTypes, PTL

\* A job ahead of another is ahead of it after a step that ends neither.
LEMMA PlaceIsKept ==
  ASSUME StoreTypeOK, [StoreStep \/ GetQueue]_vars,
         NEW j \in Unfinished \intersect Unfinished', NEW k \in Unfinished \intersect Unfinished',
         Before(j, k)
  PROVE  Before(j, k)'
  <1>1. /\ j \in Ids /\ Present(j) /\ Present(j)'
        /\ k \in Ids /\ Present(k) /\ Present(k)'
    BY DEF Unfinished, Waiting, InterruptedJobs, Runnable, Present
  <1>2. /\ rank'[j] = rank[j] /\ created'[j] = created[j]
        /\ rank'[k] = rank[k] /\ created'[k] = created[k]
    BY <1>1, NextStoreTypes
  <1>. QED
    BY <1>2 DEF Before

\* No job overtakes another while neither of them ends, however often they are
\* preempted (db.py: priority and created_at are written once).
THEOREM PlacesAreKept == QueueSpec => NoOvertaking
  <1>1. StoreTypeOK /\ [StoreStep \/ GetQueue]_vars =>
          [\A j, k \in Unfinished \intersect Unfinished' : Before(j, k) => Before(j, k)']_storeVars
    BY PlaceIsKept
  <1>2. QueueSpec => [][\A j, k \in Unfinished \intersect Unfinished' :
                          Before(j, k) => Before(j, k)']_storeVars
    BY <1>1, StoreTypes, PTL DEF QueueSpec
  <1>. QED
    BY <1>2 DEF NoOvertaking

-----------------------------------------------------------------------------
(* The list of waiting jobs *)

Rows == {j \in Ids : Present(j)}
FiniteRows == IsFiniteSet(Rows)

\* There are no rows at first, and a step adds one at most.
LEMMA RowsAreFinite == QueueSpec => []FiniteRows
  <1>1. QueueInit => FiniteRows
    <2>1. QueueInit => Rows = {}
      BY DEF QueueInit, StoreInit, Rows, Present
    <2>. QED
      BY <2>1, FS_EmptySet DEF FiniteRows
  <1>2. ASSUME StoreTypeOK, FiniteRows, [StoreStep \/ GetQueue]_vars PROVE FiniteRows'
    <2>1. PICK j : Rows' \subseteq Rows \union {j}
      <3>1. ASSUME NEW j \in Ids,
                   Submit(j) \/ Claim(j) \/ Pause(j) \/ End(j) \/ Delete(j)
            PROVE  Rows' \subseteq Rows \union {j}
        <4>1. \A k \in Ids \ {j} : status'[k] = status[k]
          BY <1>2, <3>1 DEF StoreTypeOK, Submit, Insert, Claim, ClaimNext, Pause, End,
             SetStatus, Delete, DeleteRow
        <4>. QED
          BY <4>1 DEF Rows, Present
      <3>3. CASE GetQueue \/ UNCHANGED vars
        BY <3>3 DEF GetQueue, ReadRunning, ReadYielding, ReadWaiting, vars, storeVars, Rows, Present
      <3>. QED
        BY <1>2, <3>1, <3>3 DEF StoreStep
    <2>2. IsFiniteSet(Rows \union {j})
      BY <1>2, FS_AddElement DEF FiniteRows
    <2>. QED
      BY <2>1, <2>2, FS_Subset DEF FiniteRows
  <1>. QED
    BY <1>1, <1>2, StoreTypes, PTL DEF QueueSpec

QueueOrder == {p \in Waiting \X Waiting : Before(p[1], p[2])}

\* No two waiting jobs are level: the id decides in the end.
LEMMA QueueIsOrdered ==
  ASSUME StoreTypeOK, FiniteRows
  PROVE  IsFiniteSet(Waiting) /\ IsOrder(QueueOrder, Waiting)
  <1>1. IsFiniteSet(Waiting)
    <2>1. Waiting \subseteq Rows
      BY DEF Waiting, Rows, Runnable, Present
    <2>. QED
      BY <2>1, FS_Subset DEF FiniteRows
  <1>2. ASSUME NEW j \in Waiting PROVE j \in Int /\ rank[j] \in Int /\ created[j] \in Int
    BY IdsAssumption, ClockAssumption DEF StoreTypeOK, Waiting
  <1>3. \A j \in Waiting : ~Before(j, j)
    BY <1>2 DEF Before
  <1>4. \A j, k, l \in Waiting : Before(j, k) /\ Before(k, l) => Before(j, l)
    BY <1>2 DEF Before
  <1>5. \A j, k \in Waiting : j # k => Before(j, k) \/ Before(k, j)
    BY <1>2 DEF Before
  <1>. QED
    BY <1>1, <1>3, <1>4, <1>5 DEF IsOrder, QueueOrder

\* What the list is, by its places.
LEMMA WaitingList ==
  ASSUME StoreTypeOK, FiniteRows
  PROVE  /\ Cardinality(Waiting) \in Nat
         /\ DOMAIN WaitingJobs = 1..Cardinality(Waiting)
         /\ \A i \in DOMAIN WaitingJobs : WaitingJobs[i] \in Waiting
         /\ \A i, k \in DOMAIN WaitingJobs : i < k => Before(WaitingJobs[i], WaitingJobs[k])
         /\ \A j \in Waiting : \E i \in DOMAIN WaitingJobs : WaitingJobs[i] = j
         /\ \A i \in DOMAIN WaitingJobs :
              Cardinality({k \in Waiting : Before(k, WaitingJobs[i])}) = i - 1
  <1>1. WaitingJobs = Sorted(Waiting, QueueOrder)
    BY DEF WaitingJobs, QueueOrder
  <1>2. IsFiniteSet(Waiting) /\ IsOrder(QueueOrder, Waiting)
    BY QueueIsOrdered
  <1>3. /\ Cardinality(Waiting) \in Nat
        /\ WaitingJobs \in [1..Cardinality(Waiting) -> Waiting]
        /\ InOrderOf(WaitingJobs, QueueOrder)
        /\ \A j \in Waiting : \E i \in 1..Cardinality(Waiting) : WaitingJobs[i] = j
    BY <1>1, <1>2, SortedProperties
  <1>4. DOMAIN WaitingJobs = 1..Cardinality(Waiting)
    BY <1>3
  <1>5. \A i, k \in DOMAIN WaitingJobs : i < k => Before(WaitingJobs[i], WaitingJobs[k])
    BY <1>3 DEF InOrderOf, QueueOrder
  <1>6. ASSUME NEW i \in DOMAIN WaitingJobs
        PROVE  Cardinality({k \in Waiting : Before(k, WaitingJobs[i])}) = i - 1
    <2>1. Cardinality({k \in Waiting : <<k, WaitingJobs[i]>> \in QueueOrder}) = i - 1
      <3> DEFINE S == Waiting
                 R == QueueOrder
      <3>1. i \in 1..Cardinality(S) /\ IsFiniteSet(S) /\ IsOrder(R, S)
        BY <1>2, <1>4
      <3> HIDE DEF S, R
      <3>2. Cardinality({k \in S : <<k, Sorted(S, R)[i]>> \in R}) = i - 1
        BY <3>1, SortedRank
      <3>. QED
        BY <1>1, <3>2 DEF S, R
    <2>2. WaitingJobs[i] \in Waiting
      BY <1>3, <1>4
    <2>3. {k \in Waiting : <<k, WaitingJobs[i]>> \in QueueOrder}
            = {k \in Waiting : Before(k, WaitingJobs[i])}
      BY <2>2 DEF QueueOrder
    <2>. QED
      BY <2>1, <2>3
  <1>. QED
    BY <1>3, <1>4, <1>5, <1>6

\* A list in the order of the queue has each job at its place.
LEMMA ListIsQueue == ASSUME StoreTypeOK, FiniteRows PROVE ViewsAgree
  <1> DEFINE W == WaitingJobs
             n == Cardinality(Waiting)
  <1>1. /\ n \in Nat /\ DOMAIN W = 1..n
        /\ \A i \in DOMAIN W : W[i] \in Waiting
        /\ \A i, k \in DOMAIN W : i < k => Before(W[i], W[k])
        /\ \A j \in Waiting : \E i \in DOMAIN W : W[i] = j
        /\ \A i \in DOMAIN W : Cardinality({k \in Waiting : Before(k, W[i])}) = i - 1
    BY WaitingList
  <1>2. IsOrder(QueueOrder, Waiting)
    BY QueueIsOrdered
  <1> HIDE DEF W, n
  <1>3. ASSUME NEW i \in DOMAIN W PROVE QueuePosition(W[i]) = i
    <2>1. QueuePosition(W[i]) = 1 + Cardinality({k \in Waiting : Before(k, W[i])})
      <3>1. {k \in Waiting : Before(k, W[i])}
             = {k \in Waiting :
                 \/ rank[k] > rank[W[i]]
                 \/ /\ rank[k] = rank[W[i]]
                    /\ \/ created[k] < created[W[i]]
                       \/ created[k] = created[W[i]] /\ k < W[i]}
        BY DEF Before
      <3>. QED
        BY <3>1 DEF QueuePosition
    <2>2. i \in Int
      BY <1>1, <1>3
    <2>. QED
      BY <1>1, <1>3, <2>1, <2>2
  <1>4. ASSUME NEW j \in Waiting, IsHead(j) PROVE j = W[1]
    <2>1. PICK i \in DOMAIN W : W[i] = j
      BY <1>1
    <2>2. SUFFICES ASSUME i # 1 PROVE FALSE
      BY <2>1
    <2>3. 1 \in DOMAIN W /\ 1 < i
      BY <1>1, <2>2
    <2>4. W[1] \in Waiting /\ Before(W[1], j)
      BY <1>1, <2>1, <2>3
    <2>5. <<W[1], j>> \in QueueOrder /\ W[1] # j
      BY <1>2, <2>4 DEF QueueOrder, IsOrder
    <2>6. <<j, W[1]>> \in QueueOrder
      BY <1>4, <2>4, <2>5 DEF IsHead, QueueOrder
    <2>. QED
      BY <1>2, <2>4, <2>5, <2>6 DEF IsOrder
  <1>5. ASSUME Waiting # {} PROVE W[1] \in Waiting /\ IsHead(W[1])
    <2>1. 1 \in DOMAIN W
      BY <1>1, <1>5
    <2>2. ASSUME NEW k \in Waiting \ {W[1]} PROVE Before(W[1], k)
      <3>1. PICK i \in DOMAIN W : W[i] = k
        BY <1>1
      <3>2. i # 1
        BY <3>1
      <3>3. 1 < i
        BY <1>1, <3>2
      <3>. QED
        BY <1>1, <2>1, <3>1, <3>3
    <2>. QED
      BY <1>1, <2>1, <2>2 DEF IsHead
  <1>6. \A j \in Ids : IsHead(j) <=> Waiting # {} /\ j = W[1]
    BY <1>4, <1>5 DEF IsHead
  <1>. QED
    BY <1>3, <1>6 DEF ViewsAgree, W

\* The list, the position counted for each job, and the claim agree, for as many
\* jobs as there may be (db.py: waiting_jobs, queue_position, claim_next).
THEOREM QueriesAgree == QueueSpec => []ViewsAgree
  BY ListIsQueue, StoreTypes, RowsAreFinite, PTL

-----------------------------------------------------------------------------
(* GET /v1/queue, read by read *)

\* Between its reads, the answer has shown every job that runs, or the worker
\* has claimed it since the first read.
Accounted ==
  step \in {"yielding", "waiting"} => \A j \in InterruptedJobs : j \in shown \/ j \in claimed

\* Nothing runs at first, and a job comes to run by a claim only.
LEMMA RunningIsAccounted == QueueSpec => []Accounted
  <1>1. QueueInit => Accounted
    BY DEF QueueInit, Accounted
  <1>2. ASSUME StoreTypeOK, Accounted, [StoreStep \/ GetQueue]_vars PROVE Accounted'
    <2> USE DEF Accounted, InterruptedJobs, requestVars
    <2>1. ASSUME NEW j \in Ids, Claim(j), UNCHANGED requestVars PROVE Accounted'
      <3>1. InterruptedJobs' \subseteq InterruptedJobs \union {j}
        BY <1>2, <2>1 DEF Claim, ClaimNext, StoreTypeOK
      <3>. QED
        BY <1>2, <2>1, <3>1 DEF Claim
    <2>2. ASSUME NEW j \in Ids, Submit(j) \/ Pause(j) \/ End(j) \/ Delete(j),
                 UNCHANGED requestVars, UNCHANGED claimed
          PROVE  Accounted'
      <3>1. InterruptedJobs' \subseteq InterruptedJobs
        BY <1>2, <2>2 DEF Submit, Insert, Pause, End, SetStatus, Terminal,
           Delete, DeleteRow, StoreTypeOK
      <3>. QED
        BY <1>2, <2>2, <3>1
    <2>3. CASE ReadRunning
      BY <2>3 DEF ReadRunning, storeVars
    <2>4. CASE ReadYielding
      BY <1>2, <2>4 DEF ReadYielding, storeVars
    <2>5. CASE ReadWaiting
      BY <2>5 DEF ReadWaiting
    <2>6. CASE UNCHANGED vars
      BY <1>2, <2>6 DEF vars, storeVars
    <2>. QED
      BY <1>2, <2>1, <2>2, <2>3, <2>4, <2>5, <2>6 DEF StoreStep, GetQueue
  <1>. QED
    BY <1>1, <1>2, StoreTypes, PTL DEF QueueSpec

\* GET /v1/queue reads the running job before the waiting ones, and so shows
\* every unfinished job but one that is claimed between its reads
\* (main.py:106-155).
THEOREM QueueAnswersAreWhole == QueueSpec => NoneLost
  <1> DEFINE Whole ==
        step = "waiting" /\ step' = "running" =>
          \A j \in Unfinished :
            j \in shown' \/ (j \in claimed /\ status[j] = "running")
  <1>1. ASSUME StoreTypeOK, FiniteRows, Accounted, [StoreStep \/ GetQueue]_vars
        PROVE  [Whole]_vars
    <2>1. SUFFICES ASSUME step = "waiting", step' = "running", NEW j \in Unfinished
                   PROVE  j \in shown' \/ (j \in claimed /\ status[j] = "running")
      OBVIOUS
    <2>2. ReadWaiting
      BY <1>1, <2>1 DEF StoreStep, requestVars, GetQueue, ReadRunning, ReadYielding, vars
    <2>3. shown' = shown \union ToSet(WaitingJobs)
      BY <2>2 DEF ReadWaiting
    <2>4. CASE j \in Waiting
      <3>1. j \in ToSet(WaitingJobs)
        BY <1>1, <2>4, WaitingList DEF ToSet
      <3>. QED
        BY <2>3, <3>1
    <2>5. CASE j \in InterruptedJobs
      BY <1>1, <2>1, <2>3, <2>5 DEF Accounted, InterruptedJobs
    <2>. QED
      BY <2>4, <2>5 DEF Unfinished
  <1>2. QueueSpec => [][Whole]_vars
    BY <1>1, StoreTypes, RowsAreFinite, RunningIsAccounted, PTL DEF QueueSpec
  <1>. QED
    BY <1>2 DEF NoneLost

=============================================================================
