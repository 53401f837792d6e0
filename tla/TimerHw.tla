------------------------------ MODULE TimerHw -------------------------------
(***************************************************************************)
(* timer_hw/realtek-timer-test.c: module init programs a hardware timer    *)
(* from a module parameter, its interrupt prints the time that passed.     *)
(* Nanoseconds are counted in units of 100000, so the factors 1000000 and  *)
(* 1000 of the code are 10 and 1/100; an int holds Word such units.        *)
(***************************************************************************)
EXTENDS Program

CONSTANTS Params,    \* module parameters: records of unit ("ms", "us", "no") and n
          Clocks,    \* system times at which the module may be loaded
          Word,      \* number of values of an int
          TimerSlack \* bound on the time an interrupt is late

ASSUME TimerHwAssumption ==
  /\ Params \subseteq [unit : {"ms", "us", "no"}, n : Nat]
  /\ Clocks \subseteq Nat
  /\ Word \in Nat \ {0} /\ Word % 2 = 0 /\ TimerSlack \in Nat

VARIABLES
  param,         \* set_timer_ms or set_timer_us
  set_time,      \* the period, as int
  clock,         \* the system time
  fires,         \* when the timer interrupt is due, or Off
  start_time,
  result,        \* what the callback printed
  begun, stored  \* history: when the timer was started and start_time stored, or Off

timVars == <<param, set_time, clock, fires, start_time, result, begun, stored>>

Off == -1
ToInt(n) == ((n + Word \div 2) % Word) - Word \div 2
Ints == (0 - Word \div 2)..(Word \div 2 - 1)
Nanoseconds(p) == IF p.unit = "ms" THEN p.n * 10 ELSE p.n \div 100

TimTypeOK ==
  /\ param \in Params \cup {[unit |-> "no", n |-> 0]}
  /\ set_time \in Ints /\ start_time \in Ints /\ result \in Ints
  /\ clock \in Nat
  /\ fires \in Nat \cup {Off}
  /\ begun \in Nat \cup {Off} /\ stored \in Nat \cup {Off}

TimInit ==
  /\ param = [unit |-> "no", n |-> 0]
  /\ set_time = 0 /\ start_time = 0 /\ result = 0
  /\ clock = 0
  /\ fires = Off /\ begun = Off /\ stored = Off

-----------------------------------------------------------------------------
\* rtk_timer_test_init() up to its checks.
SetTime(p) ==
  /\ At("timer_hw", "start")
  /\ param' = p
  /\ clock' \in Clocks
  /\ set_time' = ToInt(Nanoseconds(p))
  /\ IF p.unit = "no" \/ p.n = 0 \/ (p.unit = "us" /\ set_time' < 2)
       THEN Fail("exit")
       ELSE Go("init")
  /\ UNCHANGED <<fires, start_time, result, begun, stored>>

\* rtk_gtimer_dynamic_init(); what it makes of a negative period is its own matter.
DynamicInit ==
  /\ At("timer_hw", "init")
  /\ Go("arm") \/ Fail("exit")
  /\ UNCHANGED timVars

\* rtk_gtimer_start() after the period and the interrupt were set.
StartTimer ==
  /\ At("timer_hw", "arm")
  /\ fires' = clock + (set_time % Word)
  /\ begun' = clock
  /\ Go("started")
  /\ UNCHANGED <<param, set_time, clock, start_time, result, stored>>

\* The start time is read after the timer was started.
StoreStart ==
  /\ At("timer_hw", "started")
  /\ start_time' = ToInt(clock)
  /\ stored' = clock
  /\ Go("loaded")
  /\ UNCHANGED <<param, set_time, clock, fires, result, begun>>

\* rtk_timer_test_callback(): the timer is stopped, the difference printed.  It may
\* interrupt rtk_timer_test_init() before the start time is stored.
CallbackSince(start) ==
  /\ prog = "timer_hw"
  /\ fires # Off /\ clock >= fires
  /\ fires' = Off
  /\ result' = ToInt(ToInt(clock) - start)
  /\ said' = "pass"
  /\ UNCHANGED <<prog, pc, broke, param, set_time, clock, start_time, begun, stored>>

\* Mutant: the time since the period was set instead of since the start.
CallbackNoStart == CallbackSince(set_time)

Callback == CallbackSince(start_time)

\* rmmod: interrupt cleared, timer given back.
TimerExit ==
  /\ At("timer_hw", "loaded")
  /\ fires' = Off
  /\ Go("exit")
  /\ UNCHANGED <<param, set_time, clock, start_time, result, begun, stored>>

TimProgram == (\E p \in Params : SetTime(p)) \/ DynamicInit \/ StartTimer \/ StoreStart

\* Time passes, at most TimerSlack beyond a due interrupt.
Pass ==
  /\ prog = "timer_hw" /\ fires # Off
  /\ clock < fires + TimerSlack
  /\ clock' = clock + 1
  /\ UNCHANGED <<progVars, param, set_time, fires, start_time, result, begun, stored>>

-----------------------------------------------------------------------------
(* Properties.                                                             *)

\* The interval the callback prints is the one that passed since start_time was
\* stored, whatever the 32-bit clock did meanwhile: not below the one asked for less
\* the time rtk_timer_test_init() took to store start_time, and not above it by more
\* than the interrupt was late.  It is not so for a period that an int does not
\* hold, and for an interrupt that came before start_time was stored.
IntervalTrue ==
  LET asked == Nanoseconds(param)
  IN At("timer_hw", "loaded") /\ said = "pass" =>
       \/ asked + TimerSlack >= Word \div 2
       \/ stored - begun >= asked
       \/ result \in (asked - (stored - begun))..(asked + TimerSlack)

=============================================================================
