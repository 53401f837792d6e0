----------------------------- MODULE SystemTimer ----------------------------
(***************************************************************************)
(* system_timer/main.c: read a timerfd until it has expired often enough.  *)
(* The first expiration is at once (the absolute time armed is the present *)
(* one), the others follow at the interval; an interval of 0 has no other. *)
(***************************************************************************)
EXTENDS Program

CONSTANTS Intervals, Repeats,  \* arguments of the program
          MaxElapsed           \* bound on the time that passes

ASSUME SystemTimerAssumption ==
  Intervals \subseteq Nat /\ Repeats \subseteq Nat /\ MaxElapsed \in Nat

VARIABLES
  interval, max_exp,  \* argv[1] and argv[2]
  elapsed,            \* time since timerfd_settime()
  taken,              \* expirations that reads have returned
  exp, tot_exp

stVars == <<interval, max_exp, elapsed, taken, exp, tot_exp>>

StTypeOK ==
  /\ interval \in Nat /\ max_exp \in Nat
  /\ elapsed \in 0..MaxElapsed
  /\ taken \in Nat /\ exp \in Nat /\ tot_exp \in Nat

StInit ==
  /\ interval = 0 /\ max_exp = 0 /\ elapsed = 0
  /\ taken = 0 /\ exp = 0 /\ tot_exp = 0

\* Expirations of the timer up to now.
Expired == IF interval = 0 THEN 1 ELSE 1 + elapsed \div interval

\* A wrong argc, or a timerfd that cannot be made or armed, ends the program.
Arm ==
  /\ At("system_timer", "start")
  /\ \/ interval' \in Intervals /\ max_exp' \in Repeats /\ Go("loop")
     \/ Fail("exit") /\ UNCHANGED <<interval, max_exp>>
  /\ UNCHANGED <<elapsed, taken, exp, tot_exp>>

\* read() blocks until the timer has expired since the last one.
ReadAdding(n) ==
  /\ At("system_timer", "loop")
  /\ tot_exp < max_exp
  /\ Expired > taken
  /\ exp' = Expired - taken
  /\ taken' = Expired
  /\ tot_exp' = tot_exp + n
  /\ Go("loop")
  /\ UNCHANGED <<interval, max_exp, elapsed>>

\* Mutant: every read is taken for one expiration.
ReadTimerOnce == ReadAdding(1)

ReadTimer == ReadAdding(exp')

\* The result of read() is not looked at: when it fails, exp is added once more.
ReadTimerFails ==
  /\ At("system_timer", "loop")
  /\ tot_exp < max_exp
  /\ tot_exp' = tot_exp + exp
  /\ Fail("loop")
  /\ UNCHANGED <<interval, max_exp, elapsed, taken, exp>>

LoopEnds ==
  /\ At("system_timer", "loop")
  /\ tot_exp >= max_exp
  /\ Go("exit")
  /\ UNCHANGED stVars

StProgram == Arm \/ ReadTimer \/ LoopEnds

Elapse ==
  /\ prog = "system_timer" /\ pc = "loop"
  /\ elapsed < MaxElapsed
  /\ elapsed' = elapsed + 1
  /\ UNCHANGED <<progVars, interval, max_exp, taken, exp, tot_exp>>

-----------------------------------------------------------------------------
(* Properties.                                                             *)

\* Expirations that came together are all counted, and none twice: the program
\* has counted what the timer delivered, and does not end before its repeat count
\* has passed at the given interval, unless a read failed.
ExpirationsCounted ==
  prog = "system_timer" /\ ~broke =>
    /\ tot_exp = taken
    /\ pc = "exit" /\ max_exp > 0 => elapsed >= (max_exp - 1) * interval

=============================================================================
