------------------------------- MODULE GpioUio ------------------------------
(***************************************************************************)
(* gpio/user/uio/gpio-uio-test.c: unmask the interrupt, wait for it, and   *)
(* again.  The UIO driver (external) masks the interrupt when it fires,    *)
(* counts it, and lets a read return when the count differs from the one   *)
(* the reader saw last.                                                    *)
(***************************************************************************)
EXTENDS GpioLine

CONSTANTS Interrupts,  \* interrupts gpio_int() waits for: 10 in the code
          MaxIrqs      \* bound on the interrupts of the device

ASSUME UioAssumption == Interrupts \in Nat \ {0} /\ MaxIrqs \in Nat

VARIABLES
  unmasked,  \* the interrupt is enabled
  count,     \* interrupts so far
  seen,      \* count at the last read of each process
  i          \* loop counter of gpio_int() in each process

uioVars == <<unmasked, count, seen, i>>

UioTypeOK ==
  /\ unmasked \in BOOLEAN
  /\ count \in 0..MaxIrqs
  /\ seen \in [Procs -> 0..MaxIrqs]
  /\ i \in [Procs -> 0..Interrupts]

UioInit ==
  /\ unmasked = TRUE
  /\ count = 0
  /\ seen = [p \in Procs |-> 0]
  /\ i = [p \in Procs |-> 0]

others == <<line, mode, val, reported, pending, hung, crossed>>

\* write() of 1; a failure closes and exits.
UnmaskWith(p, on) ==
  \E ok \in Outcomes("uio") :
    /\ Goto(p, "unmask", IF ~ok THEN "failed"
                         ELSE IF mode[p] = "irq" THEN "uiowait" ELSE "uiopoll")
    /\ Met(p, ok)
    /\ unmasked' = IF ok THEN on ELSE unmasked
    /\ UNCHANGED <<others, count, seen, i>>

\* Mutant: 0 is written, which masks.
UnmaskZero(p) == UnmaskWith(p, FALSE)

Unmask(p) == UnmaskWith(p, TRUE)

\* read(): blocks until the count moved, which it takes.  Its failure prints nothing
\* and is not acted on.
TakeCount(p) ==
  \E ok \in Outcomes("uio") :
    /\ ok => count # seen[p]
    /\ Met(p, ok)
    /\ seen' = IF ok THEN [seen EXCEPT ![p] = count] ELSE seen

\* gpio_int(): the round counts whether its read() took an interrupt or failed; after
\* the last one the file is closed, and once more by main().
WaitUpTo(p, last) ==
  /\ TakeCount(p)
  /\ i' = [i EXCEPT ![p] = @ + 1]
  /\ Goto(p, "uiowait", IF i'[p] = last THEN "done" ELSE "unmask")
  /\ UNCHANGED <<others, unmasked, count>>

\* Mutant: i <= 10.
WaitOneMore(p) == WaitUpTo(p, Interrupts + 1)

Wait(p) == WaitUpTo(p, Interrupts)

\* gpio_int_poll(): poll() without a timeout; its failure closes and exits.
PollUio(p) ==
  \E ok \in Outcomes("uio") :
    /\ Goto(p, "uiopoll", IF ok THEN "uioread" ELSE "failed")
    /\ ok => count # seen[p]
    /\ Met(p, ok)
    /\ UNCHANGED <<others, uioVars>>

ReadUio(p) ==
  /\ Goto(p, "uioread", "unmask")
  /\ TakeCount(p)
  /\ UNCHANGED <<others, unmasked, count, i>>

Uio(p) == Unmask(p) \/ Wait(p) \/ PollUio(p) \/ ReadUio(p)

\* The device interrupts.
Irq ==
  /\ unmasked
  /\ count < MaxIrqs
  /\ count' = count + 1
  /\ unmasked' = FALSE
  /\ UNCHANGED <<others, pc, met, seen, i>>

=============================================================================
