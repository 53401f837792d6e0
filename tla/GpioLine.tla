------------------------------ MODULE GpioLine ------------------------------
(***************************************************************************)
(* One gpio line and the processes of the user-space gpio tests that work  *)
(* on it.  The line, its sysfs node and its character-device handle belong *)
(* to the kernel's gpiolib and are modelled as the programs use them.      *)
(***************************************************************************)
EXTENDS Naturals

CONSTANTS Procs,   \* processes that run one of the gpio programs
          Faults,  \* calls that may fail: "export", "config", "request", "io", "uio",
                   \* and "pad": an output may read back another level than it drives
          Fifo     \* events gpiolib keeps for a reader

ASSUME FifoAssumption == Fifo \in Nat \ {0}
ASSUME ProcsAssumption == Procs \cap {"free", "sysfs"} = {}

VARIABLES
  owner,     \* "free", "sysfs" (exported), or the process that holds the handle
  dir,       \* "in", "out"
  level,     \* level driven when dir = "out"
  edge,      \* the sysfs attribute edge is not "none"
  pc,        \* where each process is
  mode,      \* the mode option of each process
  val,       \* the value option of each process
  reported,  \* the value each process printed last
  pending,   \* events not yet read, per process
  hung,      \* processes whose value file belongs to a removed node
  crossed,   \* history: sysfs processes that ran beside another one
  met        \* history: processes that met a fault, a line taken by a handle, an
             \* edge left armed by an earlier process, or an output that reads back
             \* another level than it drives

line == <<owner, dir, level, edge>>
history == <<crossed, met>>

Levels == {"low", "high"}
Ended == {"off", "done", "failed", "killed"}
SysfsSteps == {"access", "export", "direction", "active_low", "edge", "value", "get",
               "unexport", "open", "poll", "reread"}
CdevSteps == {"request", "chdata", "chclose", "chread", "chpoll"}
UioSteps == {"unmask", "uiowait", "uiopoll", "uioread"}

\* The mode options of the three programs.
SysfsModes == {"read", "write", "int"}
CdevModes == {"list", "get", "set", "event", "eventpoll"}
UioModes == {"irq", "irqpoll"}

LineTypeOK ==
  /\ owner \in {"free", "sysfs"} \cup Procs
  /\ dir \in {"in", "out"}
  /\ level \in Levels
  /\ edge \in BOOLEAN
  /\ pc \in [Procs -> Ended \cup SysfsSteps \cup CdevSteps \cup UioSteps]
  /\ mode \in [Procs -> SysfsModes \cup CdevModes \cup UioModes]
  /\ val \in [Procs -> Levels]
  /\ reported \in [Procs -> Levels \cup {"none"}]
  /\ pending \in [Procs -> 0..Fifo]
  /\ hung \subseteq Procs
  /\ crossed \subseteq Procs
  /\ met \subseteq Procs

LineInit ==
  /\ owner = "free"
  /\ dir = "in"
  /\ level = "low"
  /\ edge = FALSE
  /\ pc = [p \in Procs |-> "off"]
  /\ mode = [p \in Procs |-> "read"]
  /\ val = [p \in Procs |-> "low"]
  /\ reported = [p \in Procs |-> "none"]
  /\ pending = [p \in Procs |-> 0]
  /\ hung = {}
  /\ crossed = {}
  /\ met = {}

Goto(p, from, to) ==
  /\ pc[p] = from
  /\ pc' = [pc EXCEPT ![p] = to]

\* A call that may fail for reasons of its own.
Outcomes(call) == IF call \in Faults THEN BOOLEAN ELSE {TRUE}
Met(p, ok) == met' = IF ok THEN met ELSE met \cup {p}

\* What a read of the line gives: the level of the pad.  That of an output is the
\* level driven, unless something else holds the pad or the controller reads back
\* another signal; which it does is the driver's and the board's affair.
Sensed == IF dir = "out" /\ "pad" \notin Faults THEN {level} ELSE Levels

\* An edge on the pad: gpiolib notifies the value files of an armed line and
\* queues an event for the holder of an event handle, if there is room.
Notified(p) ==
  \/ owner = "sysfs" /\ edge /\ pc[p] \in {"poll", "reread"} /\ p \notin hung
     /\ pending[p] = 0
  \/ owner = p /\ pc[p] \in {"chread", "chpoll"} /\ pending[p] < Fifo

Edge ==
  /\ dir = "in"
  /\ \E p \in Procs : Notified(p)
  /\ pending' = [p \in Procs |-> IF Notified(p) THEN pending[p] + 1 ELSE pending[p]]
  /\ UNCHANGED <<line, pc, mode, val, reported, hung, history>>

=============================================================================
