------------------------------ MODULE GpioUser ------------------------------
(***************************************************************************)
(* The three user-space gpio programs side by side: sysfs and cdev         *)
(* processes compete for one line, uio processes share one interrupt.      *)
(***************************************************************************)
EXTENDS GpioSysfs, GpioCdev, GpioUio

vars == <<line, pc, mode, val, reported, pending, hung, history, uioVars>>

TypeOK == LineTypeOK /\ UioTypeOK

Init == LineInit /\ UioInit

-----------------------------------------------------------------------------
SysfsRunning == {p \in Procs : pc[p] \in SysfsSteps}

\* A program is started: its options select mode and value, getopt errors and a
\* missing mode end it at once and change nothing.
Start(p, first, m) ==
  /\ Goto(p, "off", first)
  /\ mode' = [mode EXCEPT ![p] = m]
  /\ \E v \in (IF m \in {"write", "set"} THEN Levels ELSE {"low"}) : val' = [val EXCEPT ![p] = v]
  /\ met' = IF edge THEN met \cup {p} ELSE met
  /\ UNCHANGED <<line, reported, pending, hung>>

StartSysfs(p) ==
  /\ \E m \in SysfsModes : Start(p, "access", m)
  /\ crossed' = IF SysfsRunning = {} THEN crossed
                                     ELSE crossed \cup SysfsRunning \cup {p}
  /\ UNCHANGED uioVars

StartCdev(p) ==
  /\ \E m \in CdevModes : Start(p, "request", m)
  /\ UNCHANGED <<crossed, uioVars>>

\* open() of the uio device takes the current count as seen.
StartUio(p) ==
  /\ \E m \in UioModes : Start(p, "unmask", m)
  /\ seen' = [seen EXCEPT ![p] = count]
  /\ UNCHANGED <<crossed, unmasked, count, i>>

\* The user interrupts a program; the kernel closes its files, which releases a
\* handle but not an export.
Kill(p) ==
  /\ pc[p] \notin Ended
  /\ pc' = [pc EXCEPT ![p] = "killed"]
  /\ owner' = IF owner = p THEN "free" ELSE owner
  /\ UNCHANGED <<dir, level, edge, mode, val, reported, pending, hung, history, uioVars>>

Program(p) == (Sysfs(p) /\ UNCHANGED uioVars) \/ (Cdev(p) /\ UNCHANGED uioVars) \/ Uio(p)

Next ==
  \/ \E p \in Procs :
       StartSysfs(p) \/ StartCdev(p) \/ StartUio(p) \/ Program(p) \/ Kill(p)
  \/ Edge /\ UNCHANGED uioVars
  \/ Irq

Spec == Init /\ [][Next]_vars

\* A process whose call does not block is scheduled.
FairSpec == Spec /\ \A p \in Procs : WF_vars(Program(p))

-----------------------------------------------------------------------------
(* Properties.                                                             *)

\* An export outlives the sysfs programs only if one of them failed or was
\* interrupted: gpio_edge_int() and every exit(-1) leave the pin exported.  The other
\* programs never leave one.
LeakExplained ==
  owner = "sysfs" =>
    \E p \in Procs : /\ mode[p] \in SysfsModes
                     /\ pc[p] \in SysfsSteps \cup {"failed", "killed"}

\* From its write of the value to its unexport, gpio_write() of the sysfs program has
\* the line driven at the value it was told to write, whatever cdev programs do; what
\* it prints is that value, unless another sysfs process ran beside it or the pad did
\* not read back what is driven.  (readme.txt:30-34 of the program shows -w 1 printing
\* "gpio_write value: 0": of a single run, only such a pad explains it.)  The same
\* holds of the value printed by gpio_write() of the cdev program.
WrittenIsReported ==
  \A p \in Procs \ crossed :
    /\ mode[p] = "write" /\ pc[p] \in {"get", "unexport"} =>
         owner = "sysfs" /\ dir = "out" /\ level = val[p]
    /\ mode[p] \in {"write", "set"} /\ pc[p] = "done" /\ p \notin met =>
         reported[p] = val[p]

\* A sysfs process fails only on an error of its own calls, a line that a handle
\* holds, an edge that an interrupted -i run left armed (gpiolib then refuses
\* "out", and the program writes direction before edge), or another sysfs
\* process at the same time (access-then-export, unexport under its feet).
FailureExplained == \A p \in Procs : pc[p] = "failed" => p \in met \cup crossed

\* What a process of the sysfs program leaves behind, and what it fails on, has a
\* cause in the lines above.
OutcomesExplained == LeakExplained /\ FailureExplained

\* A uio process never waits for an interrupt that is masked, with nothing to
\* read: each round unmasks before it waits, and an interrupt that comes between
\* the two is not lost, whoever else unmasks.
UioNoLostInterrupt ==
  \A p \in Procs :
    pc[p] \in {"uiowait", "uiopoll"} => unmasked \/ count # seen[p]

\* A full queue is read: the event loops acknowledge what poll() or read() told.
QueueDrains ==
  \A p \in Procs :
    /\ (pc[p] \in {"chread", "chpoll"} /\ pending[p] = Fifo) ~>
         (pc[p] \in Ended \/ pending[p] < Fifo)
    /\ (pc[p] \in {"poll", "reread"} /\ pending[p] > 0) ~>
         (pc[p] \in Ended \/ pending[p] = 0)

\* Every program in a mode without a wait loop ends.
OneShotEnds ==
  \A p \in Procs : mode[p] \in {"list", "get", "set", "read", "write"} /\ pc[p] # "off" ~> pc[p] \in Ended

\* No program stalls: the waiting ones take what they wait for, the others end.
ProgramsProgress == QueueDrains /\ OneShotEnds

=============================================================================
