------------------------------ MODULE PmSystem ------------------------------
(***************************************************************************)
(* Both pm_ tests on one system: they share the wakeup accounting, so a    *)
(* lock taken by pm_wakelock blocks the read of pm_wakeup_count, and       *)
(* autosleep makes the kernel refuse its writes.                           *)
(***************************************************************************)
EXTENDS PmWakeupCount, PmWakelock

vars == <<pmVars, countVars, lockVars>>

TypeOK == PmTypeOK /\ CountTypeOK /\ LockTypeOK

Init == PmInit /\ CountInit /\ LockInit

CountStep == CountProgram /\ UNCHANGED lockVars
LockStep == LockProgram /\ UNCHANGED countVars
StartStep == Start /\ UNCHANGED countVars
Worker == (WorkerSave \/ WorkerSuspend) /\ UNCHANGED <<countVars, lockVars>>

\* Devices raise wakeup events at any time. (The locks are nobody else's.)
Begin(s) == Activate(s) /\ UNCHANGED <<autosleep, worker, countVars, lockVars>>
End(s) == Deactivate(s) /\ UNCHANGED <<autosleep, worker, countVars, lockVars>>

Next ==
  \/ CountStep \/ LockStep \/ StartStep \/ Worker
  \/ \E s \in Sources \ Locks : Begin(s) \/ End(s)

Spec == Init /\ [][Next]_vars

\* Programs and worker are scheduled, events of devices end, and signals do not
\* interrupt every read.
FairSpec ==
  /\ Spec
  /\ WF_vars(CountStep)
  /\ SF_vars(Read /\ UNCHANGED lockVars)
  /\ WF_vars(LockStep)
  /\ WF_vars(Worker)
  /\ \A s \in Sources \ Locks : WF_vars(End(s))

-----------------------------------------------------------------------------
(* Properties.                                                             *)

\* pm_wakeup_count never puts the system to sleep over an event that came after
\* its successful read (line 40), however the events interleave with the
\* write-back.
NoEventSleptOver ==
  [][pc = "state" /\ pc' = "exit" /\ asleep' =>
       ret = "uninit" \/ (cnt = buf /\ active = {})]_vars

\* pm_wakelock.c lines 67 and 70: between the switch to autosleep and the second
\* release the system does not sleep, in whatever state an earlier run left the
\* locks and autosleep, and whatever pm_wakeup_count does.  It sleeps over a lock
\* only before the switch, and only by the one suspend request that
\* pm_wakeup_count makes unchecked when its first read has failed.
NoSleepWhileLocked ==
  asleep =>
    /\ call \notin {"unlock1", "unlock2"}
    /\ active \cap Locks # {} => ~autosleep /\ pc = "exit" /\ ret = "uninit"

\* A lock outlives pm_wakelock only when its run failed: the error returns leave
\* the locks behind.
LeakMeansFailed ==
  call = "exit" /\ active \cap Locks # {} => result = "failed"

\* The locks do what they are for and are not left behind by a run that succeeds.
LocksHold == NoSleepWhileLocked /\ LeakMeansFailed

\* Line 78: after both releases the system sleeps (unless the user is back first).
SleepsAfterRelease ==
  (call = "exit" /\ result = "ok") ~> (asleep \/ call # "exit")

\* The loop of pm_wakeup_count ends unless a write-back was refused, a lock that
\* was left behind blocks its read, or the system sleeps for good.
EndsUnlessRefused ==
  <>(pc = "exit" \/ refused) \/ <>[](active \cap Locks # {}) \/ <>[]asleep

\* Neither program waits for ever on the other: the system sleeps once the locks are
\* released, and the loop of pm_wakeup_count ends.
BothProgress == SleepsAfterRelease /\ EndsUnlessRefused

=============================================================================
