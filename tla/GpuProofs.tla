------------------------------ MODULE GpuProofs -----------------------------
(***************************************************************************)
(* Proofs about GpuArbitration, for every delay, every number of jobs and  *)
(* of restarts, and any combination of faults.                             *)
(*                                                                         *)
(* The inductive invariant adds to the types what each step of the loop    *)
(* knows of its locals: holding is false from the claim to the return of   *)
(* _stop_cotenant, a thread that holds the unit finds it down unless it    *)
(* slipped, and idle never runs ahead of the time since the last claim.    *)
(***************************************************************************)
EXTENDS GpuArbitration, TLAPS

\* The steps between a claim and the return of _stop_cotenant.
Stopping == {"check", "stop", "settle"}

HoldInv ==
  /\ svc = "down" => pc = "off"
  /\ pc \in Stopping => ~holding
  /\ StoppedIsHeld
  /\ EndsRestored

DownInv ==
  /\ TrainsAlone
  /\ pc = "settle" \/ (pc \notin {"off", "finally", "over"} /\ holding)
     => unit = "inactive" \/ slipped

TimerInv ==
  /\ idle # NotIdle => idle <= quiet
  /\ pc = "start" => idle = Delay

GpuInv == TypeOK /\ HoldInv /\ DownInv /\ TimerInv

\* The loop has not begun.
LEMMA InitGpuInv == Init => GpuInv
  <1> SUFFICES ASSUME Init PROVE GpuInv
    OBVIOUS
  <1>1. holding \in BOOLEAN /\ owed \in BOOLEAN /\ lost \in BOOLEAN /\ slipped \in BOOLEAN
    BY DEF Init
  <1>2. TypeOK
    BY <1>1, DelayAssumption, QueueAssumption, StartsAssumption DEF Init, TypeOK, Steps, NotIdle
  <1>3. QED
    BY <1>2 DEF Init, GpuInv, HoldInv, DownInv, TimerInv, StoppedIsHeld, EndsRestored,
                TrainsAlone, Stopping, NotIdle

\* Every step keeps the types.
LEMMA NextTypes == TypeOK /\ [Next]_vars => TypeOK'
  <1> SUFFICES ASSUME TypeOK, [Next]_vars PROVE TypeOK'
    OBVIOUS
  <1> USE DelayAssumption, QueueAssumption, StartsAssumption DEF TypeOK, Steps, NotIdle, Goto
  <1>1. CASE Arrive
    BY <1>1 DEF Arrive
  <1>2. CASE Depart
    BY <1>2 DEF Depart
  <1>3. CASE Operator
    BY <1>3 DEF Operator
  <1>4. CASE Start
    <2>1. holding' \in BOOLEAN /\ owed' \in BOOLEAN /\ lost' \in BOOLEAN
      BY <1>4 DEF Start
    <2>2. QED
      BY <1>4, <2>1 DEF Start
  <1>5. CASE Shutdown
    BY <1>5 DEF Shutdown
  <1>6. CASE Exit
    BY <1>6 DEF Exit
  <1>7. CASE Kill
    BY <1>7 DEF Kill
  <1>8. CASE Die
    BY <1>8 DEF Die, Raising
  <1>9. CASE Loop
    <2>1. CASE LoopTest
      BY <2>1 DEF LoopTest
    <2>2. CASE Claim
      BY <2>2 DEF Claim
    <2>3. CASE FindNothing
      BY <2>3 DEF FindNothing
    <2>4. CASE CheckNothing
      BY <2>4 DEF CheckNothing
    <2>5. CASE CheckActive
      BY <2>5 DEF CheckActive
    <2>6. CASE StopUnit
      BY <2>6 DEF StopUnit, SystemctlStop
    <2>7. CASE Settle
      BY <2>7 DEF Settle
    <2>8. CASE RunJob
      BY <2>8 DEF RunJob
    <2>9. CASE Poll
      BY <2>9 DEF Poll
    <2>10. CASE RestartUnit
      BY <2>10 DEF RestartUnit, SystemctlStart
    <2>11. CASE Wait
      BY <2>11 DEF Wait
    <2>12. CASE Finally
      BY <2>12 DEF Finally, SystemctlStart
    <2>13. QED
      BY <1>9, <2>1, <2>2, <2>3, <2>4, <2>5, <2>6, <2>7, <2>8, <2>9, <2>10, <2>11, <2>12
      DEF Loop
  <1>10. CASE DieSettling
    BY <1>10 DEF DieSettling
  <1>11. CASE DieStarted
    BY <1>11 DEF DieStarted, SystemctlStart
  <1>12. CASE UNCHANGED vars
    BY <1>12 DEF vars
  <1>13. QED
    BY <1>1, <1>2, <1>3, <1>4, <1>5, <1>6, <1>7, <1>8, <1>9, <1>10, <1>11, <1>12 DEF Next

\* Every step keeps what the loop knows of its locals.
LEMMA NextLocals ==
  TypeOK /\ HoldInv /\ DownInv /\ TimerInv /\ [Next]_vars => HoldInv' /\ DownInv' /\ TimerInv'
  <1> SUFFICES ASSUME TypeOK, HoldInv, DownInv, TimerInv, [Next]_vars
               PROVE  HoldInv' /\ DownInv' /\ TimerInv'
    OBVIOUS
  <1> USE DelayAssumption
      DEF TypeOK, Steps, NotIdle, Goto, HoldInv, DownInv, TimerInv, StoppedIsHeld,
          EndsRestored, TrainsAlone, Stopping
  <1>1. CASE Arrive
    BY <1>1 DEF Arrive
  <1>2. CASE Depart
    BY <1>2 DEF Depart
  <1>3. CASE Operator
    BY <1>3 DEF Operator
  <1>4. CASE Start
    BY <1>4 DEF Start
  <1>5. CASE Shutdown
    BY <1>5 DEF Shutdown
  <1>6. CASE Exit
    BY <1>6 DEF Exit
  <1>7. CASE Kill
    BY <1>7 DEF Kill
  <1>8. CASE Die
    BY <1>8 DEF Die, Raising
  <1>9. CASE Loop
    <2>1. CASE LoopTest
      BY <2>1 DEF LoopTest
    <2>2. CASE Claim
      BY <2>2 DEF Claim
    <2>3. CASE FindNothing
      BY <2>3 DEF FindNothing
    <2>4. CASE CheckNothing
      BY <2>4 DEF CheckNothing
    <2>5. CASE CheckActive
      BY <2>5 DEF CheckActive
    <2>6. CASE StopUnit
      BY <2>6 DEF StopUnit, SystemctlStop
    <2>7. CASE Settle
      BY <2>7 DEF Settle
    <2>8. CASE RunJob
      BY <2>8 DEF RunJob
    <2>9. CASE Poll
      BY <2>9 DEF Poll
    <2>10. CASE RestartUnit
      BY <2>10 DEF RestartUnit, SystemctlStart
    <2>11. CASE Wait
      BY <2>11 DEF Wait
    <2>12. CASE Finally
      BY <2>12 DEF Finally, SystemctlStart
    <2>13. QED
      BY <1>9, <2>1, <2>2, <2>3, <2>4, <2>5, <2>6, <2>7, <2>8, <2>9, <2>10, <2>11, <2>12
      DEF Loop
  <1>10. CASE DieSettling
    BY <1>10 DEF DieSettling
  <1>11. CASE DieStarted
    BY <1>11 DEF DieStarted, SystemctlStart
  <1>12. CASE UNCHANGED vars
    BY <1>12 DEF vars
  <1>13. QED
    BY <1>1, <1>2, <1>3, <1>4, <1>5, <1>6, <1>7, <1>8, <1>9, <1>10, <1>11, <1>12 DEF Next

-----------------------------------------------------------------------------

\* The parts together are an invariant of the drain loop.
THEOREM GpuInductive == Spec => []GpuInv
  <1>1. GpuInv /\ [Next]_vars => GpuInv'
    BY NextTypes, NextLocals DEF GpuInv
  <1>2. QED
    BY InitGpuInv, <1>1, PTL DEF Spec

\* Every variable keeps its type.
THEOREM GpuTypeCorrect == Spec => []TypeOK
  <1>1. GpuInv => TypeOK
    BY DEF GpuInv
  <1>2. QED
    BY GpuInductive, <1>1, PTL

\* No job trains beside a co-tenant whose stop succeeded (worker.py: _stop_cotenant, _loop).
THEOREM Arbitration == Spec => []TrainsAlone
  <1>1. GpuInv => TrainsAlone
    BY DEF GpuInv, DownInv
  <1>2. QED
    BY GpuInductive, <1>1, PTL

\* The drain loop forgets a unit it has stopped in two ways only: the start of it
\* fails, or an exception leaves _stop_cotenant after the stop.
THEOREM HoldsWhatItStopped == Spec => []StoppedIsHeld
  <1>1. GpuInv => StoppedIsHeld
    BY DEF GpuInv, HoldInv
  <1>2. QED
    BY GpuInductive, <1>1, PTL

\* Whatever step an exception or a shutdown finds it at, its finally clause starts
\* the unit it has stopped, unless it was lost in one of these ways.
THEOREM GivesBackAtTheEnd == Spec => []EndsRestored
  <1>1. GpuInv => EndsRestored
    BY DEF GpuInv, HoldInv
  <1>2. QED
    BY GpuInductive, <1>1, PTL

\* A restart comes only when no job was claimed for the whole delay.
THEOREM RestartsLate == Spec => RestartsAfterDelay
  <1>1. GpuInv => (pc = "start" /\ pc' = "wait" => quiet = Delay)
    BY DelayAssumption DEF GpuInv, TypeOK, TimerInv, NotIdle
  <1>2. Spec => [][pc = "start" /\ pc' = "wait" => quiet = Delay]_vars
    BY GpuInductive, <1>1, PTL
  <1>3. QED
    BY <1>2 DEF RestartsAfterDelay

=============================================================================
