--------------------------- MODULE PmSystemProofs ---------------------------
(***************************************************************************)
(* The proofs about the two pm_ tests on one system, for any set of wakeup *)
(* sources, any number of events and runs, and any failing calls.          *)
(***************************************************************************)
EXTENDS PmSystem, FiniteSetTheorems, TLAPS

-----------------------------------------------------------------------------
(* The inductive invariant.                                                *)

\* Every event in progress still fits into the count.
CountFits ==
  /\ IsFiniteSet(active)
  /\ cnt + Cardinality(active) <= MaxEvents

\* The locks that pm_wakelock holds before each of its calls.  An earlier run may
\* have left some behind, so the first calls promise nothing.
LocksAtCalls ==
  /\ call \in {"lock2", "autosleep", "unlock1"} => wakelock1 \in active
  /\ call \in {"autosleep", "unlock1", "unlock2"} => wakelock2 \in active
  /\ call = "unlock2" => wakelock1 \notin active
  /\ call \in {"unlock1", "unlock2"} => autosleep

\* From its save to its suspend the worker is protected by the check, because
\* autosleep is never switched off and keeps pm_wakeup_count from interfering.
WorkerChecked ==
  worker = "suspend" => autosleep /\ checking /\ ~asleep

\* Once pm_wakeup_count has written its count back, the check compares with that
\* count for as long as autosleep is off.  Without autosleep the system sleeps only
\* after the last step of the program.
CountChecked ==
  /\ ret = "ok" => pc \in {"while", "state", "exit"}
  /\ pc = "state" => ret # "error"
  /\ ret = "ok" /\ pc # "exit" /\ ~autosleep => checking /\ saved = buf
  /\ asleep /\ ~autosleep => pc = "exit"

IInv == TypeOK /\ CountFits /\ LocksAtCalls /\ WorkerChecked /\ CountChecked /\ LocksHold
-----------------------------------------------------------------------------
(* The accounting of the kernel.                                           *)

\* Beginning an event keeps the count of finished and running events within its bound.
LEMMA ActivateFits ==
  ASSUME NEW s \in Sources, PmTypeOK, CountFits, Activate(s)
  PROVE  CountFits' /\ cnt' = cnt
<1>1. IsFiniteSet(active \cup {s}) /\ Cardinality(active \cup {s}) = Cardinality(active) + 1
  BY FS_AddElement DEF Activate, CountFits
<1>2. Cardinality(active) \in Nat /\ cnt \in Nat /\ MaxEvents \in Nat
  BY FS_CardinalityType, MaxEventsAssumption DEF CountFits, PmTypeOK
<1> QED
  BY <1>1, <1>2 DEF Activate, CountFits, PmTypeOK

\* The end of an event moves it from the running to the finished ones.
LEMMA DeactivateFits ==
  ASSUME NEW s, PmTypeOK, CountFits, Deactivate(s)
  PROVE  cnt' \in 0..MaxEvents /\ CountFits'
<1>1. IsFiniteSet(active \ {s}) /\ Cardinality(active \ {s}) = Cardinality(active) - 1
  BY FS_RemoveElement DEF Deactivate, CountFits
<1>2. /\ Cardinality(active) \in Nat /\ Cardinality(active \ {s}) \in Nat
      /\ cnt \in Nat /\ MaxEvents \in Nat
  BY <1>1, FS_CardinalityType, MaxEventsAssumption DEF CountFits, PmTypeOK
<1> QED
  BY <1>1, <1>2 DEF Deactivate, CountFits

-----------------------------------------------------------------------------
(* The invariant holds initially and every step keeps it.                  *)

\* Nothing has happened before the two programs start.
LEMMA InitInv == Init => IInv
<1> SUFFICES ASSUME Init
             PROVE  IInv
  OBVIOUS
<1> USE MaxEventsAssumption, WakelockAssumption DEF Init, PmInit, CountInit, LockInit
<1>1. TypeOK
  <2>0. 0 \in 0..MaxEvents
    OBVIOUS
  <2>1. PmTypeOK
    BY <2>0, Zenon DEF PmTypeOK
  <2>2. CountTypeOK
    BY <2>0, Zenon DEF CountTypeOK
  <2>3. LockTypeOK
    BY DEF LockTypeOK
  <2> QED
    BY <2>1, <2>2, <2>3 DEF TypeOK
<1>2. CountFits
  BY FS_EmptySet DEF CountFits
<1> QED
  BY <1>1, <1>2 DEF IInv, LocksAtCalls, WorkerChecked, CountChecked, LocksHold,
                    NoSleepWhileLocked, LeakMeansFailed

\* pm_wakeup_count: it runs only while the system is awake, and touches the accounting
\* only with an accepted write-back and with its suspend request.
LEMMA CountStepInv ==
  ASSUME IInv, CountStep
  PROVE  IInv'
<1> USE MaxEventsAssumption DEF IInv, CountStep, lockVars, pmVars, eventVars, CountAt
<1>1. CASE Open \/ Read \/ ReadInterrupted \/ TestRead \/ While
  <2>1. /\ UNCHANGED <<pmVars, lockVars, ret>> /\ ~asleep
        /\ pc \notin {"state", "exit"} /\ (pc' = "state" => ret # "error")
        /\ (ret = "ok" => pc' = "state" /\ buf' = buf)
    BY <1>1 DEF Open, Read, ReadInto, ReadInterrupted, TestRead, TestThen, While, CountChecked,
                TypeOK, CountTypeOK
  <2>2. CountTypeOK'
    <3>1. CASE While
      <4>1. pc' \in {"state", "read"}
        BY <3>1 DEF While
      <4> QED
        BY <3>1, <4>1 DEF While, TypeOK, CountTypeOK
    <3>2. CASE Open \/ Read \/ ReadInterrupted \/ TestRead
      BY <3>2 DEF Open, Read, ReadInto, ReadInterrupted, TestRead, TestThen, TypeOK, PmTypeOK,
                  CountTypeOK
    <3> QED
      BY <1>1, <3>1, <3>2
  <2> QED
    BY <2>1, <2>2 DEF TypeOK, PmTypeOK, LockTypeOK, CountFits, LocksAtCalls, WorkerChecked,
                      CountChecked, LocksHold, NoSleepWhileLocked, LeakMeansFailed
<1>2. CASE WriteBack
  <2> USE <1>2 DEF WriteBack, SaveCount, Acceptable
  <2>1. TypeOK'
    BY DEF TypeOK, PmTypeOK, CountTypeOK, LockTypeOK
  <2>2. CountFits' /\ LocksAtCalls' /\ WorkerChecked'
    BY DEF CountFits, LocksAtCalls, WorkerChecked
  <2>3. CountChecked' /\ LocksHold'
    BY DEF CountChecked, LocksHold, NoSleepWhileLocked, LeakMeansFailed
  <2> QED
    BY <2>1, <2>2, <2>3
<1>3. CASE EnterState
  <2> USE <1>3 DEF EnterState, Suspend, Pending
  <2>1. TypeOK'
    BY DEF TypeOK, PmTypeOK, CountTypeOK, LockTypeOK
  <2>2. CountFits' /\ LocksAtCalls' /\ WorkerChecked' /\ CountChecked'
    BY DEF CountFits, LocksAtCalls, WorkerChecked, CountChecked
  <2>3. LocksHold'
    BY DEF CountChecked, LocksAtCalls, LocksHold, NoSleepWhileLocked, LeakMeansFailed, TypeOK,
           CountTypeOK
  <2> QED
    BY <2>1, <2>2, <2>3
<1> QED
  BY <1>1, <1>2, <1>3 DEF CountProgram

\* pm_wakelock: each call leaves the locks that the next one relies on, also when an
\* earlier run left some behind.
LEMMA LockStepInv ==
  ASSUME IInv, LockStep \/ StartStep
  PROVE  IInv'
<1> USE MaxEventsAssumption, WakelockAssumption
    DEF IInv, LockStep, StartStep, countVars, pmVars, eventVars, LockAt, Calls, Locks
<1>1. CASE Start /\ UNCHANGED countVars
  BY <1>1 DEF Start, TypeOK, PmTypeOK, CountTypeOK, LockTypeOK, CountFits, LocksAtCalls,
              WorkerChecked, CountChecked, LocksHold, NoSleepWhileLocked, LeakMeansFailed
<1>2. CASE OpenNodes /\ UNCHANGED countVars
  BY <1>2 DEF OpenNodes, Continue, TypeOK, PmTypeOK, CountTypeOK, LockTypeOK, CountFits,
              LocksAtCalls, WorkerChecked, CountChecked, LocksHold, NoSleepWhileLocked,
              LeakMeansFailed
<1>3. CASE (\E step \in LockFaults : Fail(step)) /\ UNCHANGED countVars
  BY <1>3 DEF Fail, TypeOK, PmTypeOK, CountTypeOK, LockTypeOK, CountFits,
              LocksAtCalls, WorkerChecked, CountChecked, LocksHold, NoSleepWhileLocked,
              LeakMeansFailed
<1>4. CASE EnableAutosleep /\ UNCHANGED countVars
  BY <1>4 DEF EnableAutosleep, WriteAutosleep, Continue, TypeOK, PmTypeOK, CountTypeOK,
              LockTypeOK, CountFits, LocksAtCalls, WorkerChecked, CountChecked, LocksHold,
              NoSleepWhileLocked, LeakMeansFailed
<1>5. ASSUME NEW lock \in Sources, NEW step, NEW next \in Calls, next # "exit",
             WakeLock(step, lock, next), UNCHANGED countVars
      PROVE  /\ TypeOK' /\ CountFits' /\ WorkerChecked' /\ CountChecked' /\ LocksHold'
             /\ active' = active \cup {lock}
  <2> USE <1>5 DEF WakeLock, Continue
  <2>1. /\ active' = active \cup {lock} /\ cnt' = cnt /\ CountFits' /\ asleep' = FALSE
        /\ ~asleep /\ UNCHANGED <<autosleep, worker, saved, checking, countVars, runs, result>>
    <3>1. CASE lock \in active
      BY <3>1 DEF CountFits, TypeOK, PmTypeOK
    <3>2. CASE lock \notin active
      BY <3>2, ActivateFits DEF TypeOK, PmTypeOK, Activate
    <3> QED
      BY <3>1, <3>2
  <2>2. TypeOK'
    <3>1. PmTypeOK'
      BY <2>1 DEF TypeOK, PmTypeOK
    <3>2. CountTypeOK' /\ LockTypeOK'
      BY <2>1 DEF TypeOK, CountTypeOK, LockTypeOK
    <3> QED
      BY <3>1, <3>2 DEF TypeOK
  <2> QED
    BY <2>1, <2>2 DEF WorkerChecked, CountChecked, LocksHold, NoSleepWhileLocked,
                      LeakMeansFailed
<1>6. CASE Lock1 /\ UNCHANGED countVars
  <2>1. /\ TypeOK' /\ CountFits' /\ WorkerChecked' /\ CountChecked' /\ LocksHold'
        /\ active' = active \cup {wakelock1}
    BY <1>5, <1>6 DEF Lock1
  <2> QED
    BY <1>6, <2>1 DEF Lock1, WakeLock, Continue, LocksAtCalls
<1>7. CASE Lock2 /\ UNCHANGED countVars
  <2>1. /\ TypeOK' /\ CountFits' /\ WorkerChecked' /\ CountChecked' /\ LocksHold'
        /\ active' = active \cup {wakelock2}
    BY <1>5, <1>7 DEF Lock2
  <2> QED
    BY <1>7, <2>1 DEF Lock2, WakeLock, Continue, LocksAtCalls
<1>8. ASSUME NEW lock \in Sources, NEW step, NEW next \in Calls \cup {"exit"},
             WakeUnlock(step, lock, next), UNCHANGED countVars
      PROVE  /\ TypeOK' /\ CountFits' /\ WorkerChecked' /\ CountChecked' /\ ~asleep'
             /\ active' = active \ {lock} /\ call = step /\ call' = next
             /\ autosleep' = autosleep
  <2> USE <1>8 DEF WakeUnlock, Continue
  <2>1. /\ active' = active \ {lock} /\ cnt' \in 0..MaxEvents /\ CountFits' /\ asleep' = asleep
        /\ ~asleep /\ UNCHANGED <<autosleep, worker, saved, checking, countVars, runs>>
    BY DeactivateFits DEF TypeOK, Deactivate
  <2>2. TypeOK'
    <3>1. PmTypeOK'
      BY <2>1 DEF TypeOK, PmTypeOK
    <3>2. CountTypeOK' /\ LockTypeOK'
      BY <2>1 DEF TypeOK, CountTypeOK, LockTypeOK
    <3> QED
      BY <3>1, <3>2 DEF TypeOK
  <2> QED
    BY <2>1, <2>2 DEF WorkerChecked, CountChecked
<1>9. CASE Unlock1 /\ UNCHANGED countVars
  <2>1. /\ TypeOK' /\ CountFits' /\ WorkerChecked' /\ CountChecked' /\ ~asleep'
        /\ active' = active \ {wakelock1} /\ call = "unlock1" /\ call' = "unlock2"
        /\ autosleep' = autosleep
    BY <1>8, <1>9 DEF Unlock1
  <2> QED
    BY <2>1 DEF LocksAtCalls, LocksHold, NoSleepWhileLocked, LeakMeansFailed
<1>10. CASE Unlock2 /\ UNCHANGED countVars
  <2>1. /\ TypeOK' /\ CountFits' /\ WorkerChecked' /\ CountChecked' /\ ~asleep'
        /\ active' = active \ {wakelock2} /\ call = "unlock2" /\ call' = "exit"
        /\ autosleep' = autosleep
    BY <1>8, <1>10 DEF Unlock2
  <2> QED
    BY <2>1 DEF LocksAtCalls, LocksHold, NoSleepWhileLocked, LeakMeansFailed
<1> QED
  BY <1>1, <1>2, <1>3, <1>4, <1>6, <1>7, <1>9, <1>10 DEF LockProgram

\* The autosleep worker.
LEMMA WorkerInv ==
  ASSUME IInv, Worker
  PROVE  IInv'
<1> USE DEF IInv, Worker, countVars, lockVars
<1>1. CASE WorkerSave
  BY <1>1 DEF WorkerSave, SaveCount, TypeOK, PmTypeOK, CountTypeOK, LockTypeOK, CountFits,
              LocksAtCalls, WorkerChecked, CountChecked, LocksHold, NoSleepWhileLocked,
              LeakMeansFailed
<1>2. CASE WorkerSuspend
  <2> USE <1>2 DEF WorkerSuspend, Suspend, Pending
  <2>1. TypeOK'
    BY DEF TypeOK, PmTypeOK, CountTypeOK, LockTypeOK
  <2>2. CountFits' /\ LocksAtCalls' /\ WorkerChecked' /\ CountChecked'
    BY DEF CountFits, LocksAtCalls, WorkerChecked, CountChecked
  <2>3. LocksHold'
    BY DEF LocksAtCalls, WorkerChecked, LocksHold, NoSleepWhileLocked, LeakMeansFailed
  <2> QED
    BY <2>1, <2>2, <2>3
<1> QED
  BY <1>1, <1>2

\* The devices: their events come and go without a lock.
LEMMA DeviceInv ==
  ASSUME IInv, NEW s \in Sources \ Locks, Begin(s) \/ End(s)
  PROVE  IInv'
<1> USE WakelockAssumption DEF IInv, Locks, countVars, lockVars
<1>1. CASE Begin(s)
  <2> USE <1>1 DEF Begin
  <2>1. /\ active' = active \cup {s} /\ cnt' = cnt /\ CountFits' /\ asleep' = FALSE
        /\ checking' = (checking /\ ~asleep)
        /\ UNCHANGED <<saved, autosleep, worker, countVars, lockVars>>
    BY ActivateFits DEF TypeOK, Activate
  <2>2. TypeOK'
    <3>1. PmTypeOK'
      BY <2>1 DEF TypeOK, PmTypeOK
    <3>2. CountTypeOK' /\ LockTypeOK'
      BY <2>1 DEF TypeOK, CountTypeOK, LockTypeOK
    <3> QED
      BY <3>1, <3>2 DEF TypeOK
  <2>3. ~asleep /\ checking => checking'
    BY <2>1
  <2>4. WorkerChecked' /\ CountChecked'
    BY <2>1, <2>3 DEF WorkerChecked, CountChecked
  <2>5. LocksAtCalls' /\ LocksHold'
    BY <2>1 DEF LocksAtCalls, LocksHold, NoSleepWhileLocked, LeakMeansFailed
  <2> QED
    BY <2>1, <2>2, <2>4, <2>5
<1>2. CASE End(s)
  <2> USE <1>2 DEF End
  <2>1. /\ active' = active \ {s} /\ cnt' \in 0..MaxEvents /\ CountFits'
        /\ UNCHANGED <<saved, checking, asleep, autosleep, worker, countVars, lockVars>>
    BY DeactivateFits DEF TypeOK, Deactivate
  <2>2. TypeOK'
    <3>1. PmTypeOK'
      BY <2>1 DEF TypeOK, PmTypeOK
    <3>2. CountTypeOK' /\ LockTypeOK'
      BY <2>1 DEF TypeOK, CountTypeOK, LockTypeOK
    <3> QED
      BY <3>1, <3>2 DEF TypeOK
  <2> QED
    BY <2>1, <2>2 DEF LocksAtCalls, WorkerChecked, CountChecked, LocksHold,
                      NoSleepWhileLocked, LeakMeansFailed
<1> QED
  BY <1>1, <1>2

\* The invariant holds in every state of the two programs and the kernel.
LEMMA Invariance == Spec => []IInv
<1>1. IInv /\ [Next]_vars => IInv'
  <2> SUFFICES ASSUME IInv, [Next]_vars
               PROVE  IInv'
    OBVIOUS
  <2>1. CASE Next
    BY <2>1, CountStepInv, LockStepInv, WorkerInv, DeviceInv DEF Next
  <2>2. CASE UNCHANGED vars
    BY <2>2 DEF vars, pmVars, eventVars, countVars, lockVars, IInv, TypeOK, PmTypeOK,
                CountTypeOK, LockTypeOK, CountFits, LocksAtCalls, WorkerChecked, CountChecked,
                LocksHold, NoSleepWhileLocked, LeakMeansFailed
  <2> QED
    BY <2>1, <2>2
<1> QED
  BY InitInv, <1>1, PTL DEF Spec

\* Type correctness, the bound on the count of wakeup events among it.
THEOREM TypeCorrect == Spec => []TypeOK
<1>1. IInv => TypeOK
  BY DEF IInv
<1> QED
  BY Invariance, <1>1, PTL

\* pm_wakelock.c: no sleep between the switch to autosleep and the second release, no
\* sleep over a lock but by an unchecked request of pm_wakeup_count, and no lock left
\* behind by a run that succeeded.
THEOREM LocksKept == Spec => []LocksHold
<1>1. IInv => LocksHold
  BY DEF IInv
<1> QED
  BY Invariance, <1>1, PTL

\* pm_wakeup_count.c: the suspend request after a successful write-back puts the system
\* to sleep only if no event came since the read.
THEOREM NoEventLost == Spec => NoEventSleptOver
<1>1. ASSUME IInv, Next, pc = "state", pc' = "exit", asleep'
      PROVE  ret = "uninit" \/ (cnt = buf /\ active = {})
  <2>1. EnterState
    BY <1>1 DEF Next, CountStep, CountProgram, LockStep, StartStep, Worker, Begin, End, countVars,
                Open, Read, ReadInto, ReadInterrupted, TestRead, TestThen, WriteBack, While,
                CountAt
  <2>2. ~autosleep /\ ~Pending
    BY <1>1, <2>1 DEF EnterState, CountAt, Suspend, pmVars, eventVars
  <2>3. ret = "uninit" \/ (checking /\ saved = buf)
    BY <1>1, <2>2 DEF IInv, CountChecked, TypeOK, CountTypeOK
  <2> QED
    BY <2>2, <2>3 DEF Pending
<1>2. IInv /\ [Next]_vars =>
        [pc = "state" /\ pc' = "exit" /\ asleep' =>
           ret = "uninit" \/ (cnt = buf /\ active = {})]_vars
  BY <1>1
<1> QED
  BY Invariance, <1>2, PTL DEF Spec, NoEventSleptOver

=============================================================================
