----------------------------- MODULE PmWakelock -----------------------------
(***************************************************************************)
(* pm_wakelock/pm_wakelock.c: take two wake locks, switch autosleep on,    *)
(* release the locks one by one; the kernel's autosleep worker is to       *)
(* suspend the system after the second release and not before.             *)
(***************************************************************************)
EXTENDS PmCore

CONSTANTS wakelock1, wakelock2,  \* the two locks, wakeup sources like any other
          LockFaults,            \* the calls that may fail
          MaxRuns                \* bound on the runs of the program

Calls == {"open", "lock1", "lock2", "autosleep", "unlock1", "unlock2"}

ASSUME WakelockAssumption ==
  /\ wakelock1 \in Sources /\ wakelock2 \in Sources /\ wakelock1 # wakelock2
  /\ LockFaults \subseteq Calls
  /\ MaxRuns \in Nat

VARIABLES
  call,    \* the next system call of main(), or "exit"
  result,  \* what main() returned
  runs     \* runs of the program started so far

lockVars == <<call, result, runs>>

LockTypeOK ==
  /\ call \in Calls \cup {"exit"}
  /\ result \in {"none", "ok", "failed"}
  /\ runs \in 0..MaxRuns

LockInit ==
  /\ call = "exit"
  /\ result = "none"
  /\ runs = 0

Locks == {wakelock1, wakelock2}

LockAt(step) == call = step /\ ~asleep

\* The user starts the program, again and again.
Start ==
  /\ LockAt("exit")
  /\ runs < MaxRuns
  /\ runs' = runs + 1
  /\ call' = "open"
  /\ result' = "none"
  /\ UNCHANGED pmVars

Continue(next) ==
  /\ call' = next
  /\ result' = IF next = "exit" THEN "ok" ELSE result
  /\ UNCHANGED runs

\* ret < 0: return -1, with the locks and autosleep as they are.
Fail(step) ==
  /\ LockAt(step)
  /\ call' = "exit"
  /\ result' = "failed"
  /\ UNCHANGED <<pmVars, runs>>

OpenNodes ==
  /\ LockAt("open")
  /\ Continue("lock1")
  /\ UNCHANGED pmVars

\* Writing a name to wake_lock activates its source, again if it is active.
WakeLock(step, lock, next) ==
  /\ LockAt(step)
  /\ Continue(next)
  /\ IF lock \in active THEN UNCHANGED eventVars ELSE Activate(lock)
  /\ UNCHANGED <<autosleep, worker>>

Lock1 == WakeLock("lock1", wakelock1, "lock2")

\* Mutant: the first name is written twice.
Lock2Same == WakeLock("lock2", wakelock1, "autosleep")

Lock2 == WakeLock("lock2", wakelock2, "autosleep")

WriteAutosleep(mem) ==
  /\ LockAt("autosleep")
  /\ Continue("unlock1")
  /\ autosleep' = mem
  /\ UNCHANGED <<eventVars, worker>>

\* Mutant: "off" is written.
WriteAutosleepOff == WriteAutosleep(FALSE)

EnableAutosleep == WriteAutosleep(TRUE)

\* Writing a name to wake_unlock ends its event.
WakeUnlock(step, lock, next) ==
  /\ LockAt(step)
  /\ Continue(next)
  /\ Deactivate(lock)
  /\ UNCHANGED <<autosleep, worker>>

\* Mutant: main() returns after the first release.
Unlock1Returns == WakeUnlock("unlock1", wakelock1, "exit")

Unlock1 == WakeUnlock("unlock1", wakelock1, "unlock2")

Unlock2 == WakeUnlock("unlock2", wakelock2, "exit")

LockProgram ==
  \/ OpenNodes \/ Lock1 \/ Lock2 \/ EnableAutosleep \/ Unlock1 \/ Unlock2
  \/ \E step \in LockFaults : Fail(step)

=============================================================================
