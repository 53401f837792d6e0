--------------------------- MODULE GpioKernelTest ---------------------------
(***************************************************************************)
(* gpio/kernel/realtek-gpio-test.c: one test case runs inside probe();     *)
(* the interrupt cases share a completion with the interrupt handler, and  *)
(* every case takes pins (and an irq) it must give back on every path.     *)
(***************************************************************************)
EXTENDS Naturals

CONSTANTS TestCases, \* values of the module parameter test_case to explore
          Waits,     \* interrupts awaited by a case (5 in the code)
          Toggles,   \* toggles of the in-out case (10 in the code)
          MaxIrqs,   \* bound on the interrupts of one case
          Faults     \* calls into the GPIO and irq core that may fail

FaultKinds == {"busy", "request_irq", "debounce", "direction", "pin"}

ASSUME TestCasesAssumption == TestCases \subseteq 0..9
ASSUME WaitsAssumption == Waits \in Nat \ {0}
ASSUME TogglesAssumption == Toggles \in Nat \ {0, 1}
ASSUME MaxIrqsAssumption == MaxIrqs \in Nat
ASSUME FaultsAssumption == Faults \subseteq FaultKinds

IrqCases == 0..4
Level == {0, 1}

\* rtk_test_case[].trigger: the causes that raise the interrupt of a case.
TriggerOf == [c \in IrqCases |->
  CASE c = 0 -> {"high"}
    [] c = 1 -> {"low"}
    [] c = 2 -> {"fall"}
    [] c = 3 -> {"rise"}
    [] c = 4 -> {"fall", "rise"}]

VARIABLES
  test_case,  \* module parameter, fixed at insmod
  pc,         \* where the probing thread is
  ret,        \* what the case returns, TRUE for 0
  verdict,    \* what probe() printed
  data,       \* rtk_gtest_data is allocated
  wake,       \* the device has a wake irq
  inPin, outPin, \* owners of the two pins
  irq,        \* the handler is registered
  done,       \* completion count
  i,          \* loop counter of the case
  handled,    \* history: interrupts handled since reinit_completion()
  line,       \* level of the pin under test
  set_value,  \* level driven by the test on the output pin
  saw,        \* history: levels the case has read back
  latched,    \* causes the interrupt controller has latched
  cause       \* history: cause of the last interrupt handled

vars == <<test_case, pc, ret, verdict, data, wake, inPin, outPin, irq, done, i,
          handled, line, set_value, saw, latched, cause>>

pins == <<inPin, outPin>>
irqVars == <<irq, done, handled, latched, cause>>
caseVars == <<i, set_value, saw>>
frame == <<test_case, verdict, data, wake>>

Owners == {"free", "test", "other"}
PCs == {"unbound", "bound", "oops", "report",
        "irq_gpio", "irq_request", "irq_debounce", "irq_wait", "irq_free",
        "re_first", "re_second", "out_request", "out_direction", "out_high",
        "out_low", "in_request", "in_direction", "io_in", "io_in_direction",
        "io_out", "io_out_direction", "io_toggle", "io_free", "gpio_free"}
Causes == {"high", "low", "fall", "rise"}

TypeOK ==
  /\ test_case \in TestCases
  /\ pc \in PCs
  /\ ret \in BOOLEAN
  /\ verdict \in {"none", "pass", "fail"}
  /\ data \in BOOLEAN
  /\ wake \in BOOLEAN
  /\ inPin \in Owners /\ outPin \in Owners
  /\ irq \in BOOLEAN
  /\ done \in 0..MaxIrqs
  /\ i \in 0..(Waits + Toggles)
  /\ handled \in 0..MaxIrqs
  /\ line \in Level /\ set_value \in Level
  /\ saw \subseteq Level
  /\ latched \subseteq {"fall", "rise"}
  /\ cause \in Causes \cup {"none"}

Init ==
  /\ test_case \in TestCases
  /\ pc = "unbound"
  /\ ret = TRUE
  /\ verdict = "none"
  /\ data = FALSE /\ wake = FALSE
  /\ inPin \in {"free"} \cup (IF "busy" \in Faults THEN {"other"} ELSE {})
  /\ outPin \in {"free"} \cup (IF "busy" \in Faults THEN {"other"} ELSE {})
  /\ irq = FALSE
  /\ done = 0 /\ i = 0 /\ handled = 0
  /\ line \in Level
  /\ set_value = 0
  /\ saw = {} /\ latched = {} /\ cause = "none"

-----------------------------------------------------------------------------
(* probe() and remove().                                                   *)

Entry(c) ==
  CASE c \in IrqCases -> "irq_gpio"
    [] c = 5 -> "re_first"
    [] c = 6 -> "out_request"
    [] c = 7 -> "in_request"
    [] c = 8 -> "io_in"
    [] OTHER -> "oops"   \* rtk_test_case[] is indexed without a check

\* rtk_gpio_test_probe(): allocate, take the wake irq of an interrupt case on a
\* wakeup-source node, call the case.
Probe ==
  /\ pc = "unbound"
  /\ pc' = Entry(test_case)
  /\ data' = TRUE
  /\ wake' \in {w \in BOOLEAN : w => test_case <= 4}
  /\ ret' = TRUE
  /\ verdict' = "none"
  /\ done' = 0 /\ i' = 0 /\ set_value' = 0 /\ saw' = {}
  /\ UNCHANGED <<test_case, pins, irq, handled, latched, cause, line>>

\* The result is printed; probe() returns 0 whatever it is.
Report ==
  /\ pc = "report"
  /\ pc' = "bound"
  /\ verdict' = IF ret THEN "pass" ELSE "fail"
  /\ UNCHANGED <<test_case, ret, data, wake, pins, irqVars, caseVars, line>>

\* rtk_gpio_test_remove(); the data was allocated with devm_kzalloc().
Remove ==
  /\ pc = "bound"
  /\ pc' = "unbound"
  /\ data' = FALSE
  /\ wake' = IF test_case <= 4 THEN FALSE ELSE wake
  /\ UNCHANGED <<test_case, ret, verdict, pins, irqVars, caseVars, line>>

-----------------------------------------------------------------------------
(* Calls shared by the cases.  A failed call is ret' = FALSE and a jump.   *)

MayFail(fault) == IF fault \in Faults THEN BOOLEAN ELSE {TRUE}

\* gpio_request(index): refused while the pin has an owner.
RequestIn(at, next) ==
  /\ pc = at
  /\ IF inPin = "free"
       THEN inPin' = "test" /\ pc' = next /\ UNCHANGED ret
       ELSE pc' = "report" /\ ret' = FALSE /\ UNCHANGED inPin
  /\ UNCHANGED <<frame, outPin, irqVars, caseVars, line>>

\* gpio_direction_input() and gpio_direction_output().
Direction(at, next, fail) ==
  /\ pc = at
  /\ ret' \in MayFail("direction")
  /\ pc' = IF ret' THEN next ELSE fail
  /\ UNCHANGED <<frame, pins, irqVars, caseVars, line>>

\* gpio_free(index), the last call of every case.
FreeIn ==
  /\ pc = "gpio_free"
  /\ pc' = "report"
  /\ inPin' = "free"
  /\ UNCHANGED <<frame, ret, outPin, irqVars, caseVars, line>>

-----------------------------------------------------------------------------
(* Cases 0 to 4: rtk_gpio_irq_test().                                      *)

\* reinit_completion(), then gpio_request().
IrqGpio ==
  /\ pc = "irq_gpio"
  /\ done' = 0
  /\ handled' = 0
  /\ IF inPin = "free"
       THEN inPin' = "test" /\ pc' = "irq_request" /\ UNCHANGED ret
       ELSE pc' = "report" /\ ret' = FALSE /\ UNCHANGED inPin
  /\ UNCHANGED <<frame, outPin, irq, latched, cause, caseVars, line>>

\* request_irq() with the trigger of the case.
RequestIrq ==
  /\ pc = "irq_request"
  /\ ret' \in MayFail("request_irq")
  /\ irq' = ret'
  /\ latched' = {}
  /\ pc' = IF ret' THEN "irq_debounce" ELSE "gpio_free"
  /\ UNCHANGED <<frame, pins, done, handled, cause, caseVars, line>>

\* rtk_gpio_set_debounce(), when the node enables it.
SetDebounce(fail) ==
  /\ pc = "irq_debounce"
  /\ ret' \in MayFail("debounce")
  /\ pc' = IF ret' THEN "irq_wait" ELSE fail
  /\ UNCHANGED <<frame, pins, irqVars, caseVars, line>>

\* Mutant: goto fail_gpio instead of faill_irq.
DebounceKeepsIrq == SetDebounce("gpio_free")

Debounce == SetDebounce("irq_free")

\* wait_for_completion_timeout() returns because the count is positive.
WaitDone(n) ==
  /\ pc = "irq_wait"
  /\ done > 0
  /\ done' = done - 1
  /\ i' = i + 1
  /\ pc' = IF i' < n THEN "irq_wait" ELSE "irq_free"
  /\ UNCHANGED <<frame, ret, pins, irq, handled, latched, cause, set_value, saw,
                 line>>

\* Mutant: the loop does not stop.
WaitOnAndOn == WaitDone(Waits + Toggles + 1)

WaitForCompletion == WaitDone(Waits)

\* Mutants: the return value 0 is not checked; the wait has no timeout.
WaitUnchecked ==
  /\ pc = "irq_wait"
  /\ done = 0
  /\ i' = i + 1
  /\ pc' = IF i' < Waits THEN "irq_wait" ELSE "irq_free"
  /\ UNCHANGED <<frame, ret, pins, irqVars, set_value, saw, line>>
WaitForEver == pc = "irq_wait" /\ UNCHANGED vars

\* ... or because 60 s have passed with none.
WaitTimeout ==
  /\ pc = "irq_wait"
  /\ done = 0
  /\ ret' = FALSE
  /\ pc' = "irq_free"
  /\ UNCHANGED <<frame, pins, irqVars, caseVars, line>>

\* free_irq() waits for a running handler.
FreeIrq ==
  /\ pc = "irq_free"
  /\ irq' = FALSE
  /\ pc' = "gpio_free"
  /\ UNCHANGED <<frame, ret, pins, done, handled, latched, cause, caseVars, line>>

\* The pin changes level under the control of whoever tests the board.
LineChange ==
  /\ test_case \in IrqCases
  /\ line' = 1 - line
  /\ latched' = IF irq
                  THEN latched \cup ({IF line = 0 THEN "rise" ELSE "fall"}
                                       \cap TriggerOf[test_case])
                  ELSE latched
  /\ UNCHANGED <<test_case, pc, ret, verdict, data, wake, pins, irq, done,
                 handled, cause, caseVars>>

\* rtk_gpio_irq_handler(): complete() for a latched edge or an active level.
IrqHandler ==
  /\ irq
  /\ handled < MaxIrqs
  /\ \E c \in latched \cup ({IF line = 1 THEN "high" ELSE "low"}
                              \cap TriggerOf[test_case]) :
       /\ cause' = c
       /\ latched' = latched \ {c}
  /\ done' = done + 1
  /\ handled' = handled + 1
  /\ UNCHANGED <<frame, pc, ret, pins, irq, caseVars, line>>

-----------------------------------------------------------------------------
(* Cases 5 to 8.                                                           *)

\* rtk_gpio_re_request(): the second request of a held pin must be refused;
\* gpiolib accepts it only when it is broken.
ReFirst == RequestIn("re_first", "re_second")

ReSecond ==
  /\ pc = "re_second"
  /\ ret' \in MayFail("pin")
  /\ pc' = "gpio_free"
  /\ UNCHANGED <<frame, pins, irqVars, caseVars, line>>

\* A pin reads back what is driven, unless it is stuck or not wired.
ReadBack(driven) == {driven} \cup (IF "pin" \in Faults THEN Level ELSE {})

\* rtk_gpio_output_test(): 1 and then 0 must read back; the 100 pulses that
\* follow are not checked.
OutRequest == RequestIn("out_request", "out_direction")
OutDirection == Direction("out_direction", "out_high", "gpio_free")

DriveAndRead(at, level, next) ==
  /\ pc = at
  /\ line' \in ReadBack(level)
  /\ saw' = saw \cup {line'}
  /\ ret' = (line' = level)
  /\ pc' = IF ret' THEN next ELSE "gpio_free"
  /\ UNCHANGED <<frame, pins, irqVars, i, set_value>>

OutHigh == DriveAndRead("out_high", 1, "out_low")
OutLow == DriveAndRead("out_low", 0, "gpio_free")

\* rtk_gpio_input_test(): the ten values read are printed, never checked.
InRequest == RequestIn("in_request", "in_direction")
InDirection == Direction("in_direction", "gpio_free", "gpio_free")

\* rtk_gpio_inout_test(): the two pins are wired to each other.
IoIn == RequestIn("io_in", "io_in_direction")
IoInDirection == Direction("io_in_direction", "io_out", "gpio_free")

IoOut ==
  /\ pc = "io_out"
  /\ IF outPin = "free"
       THEN outPin' = "test" /\ pc' = "io_out_direction" /\ UNCHANGED ret
       ELSE pc' = "gpio_free" /\ ret' = FALSE /\ UNCHANGED outPin
  /\ UNCHANGED <<frame, inPin, irqVars, caseVars, line>>

IoOutDirection == Direction("io_out_direction", "io_toggle", "io_free")

\* One iteration: toggle, drive, read the other pin, compare.
IoToggle ==
  /\ pc = "io_toggle"
  /\ set_value' = 1 - set_value
  /\ line' \in ReadBack(set_value')
  /\ saw' = saw \cup {line'}
  /\ ret' = (line' = set_value')
  /\ i' = i + 1
  /\ pc' = IF ret' /\ i' < Toggles THEN "io_toggle" ELSE "io_free"
  /\ UNCHANGED <<frame, pins, irqVars>>

\* fail_out: gpio_free(out_index).
IoFreeOut ==
  /\ pc = "io_free"
  /\ outPin' = "free"
  /\ pc' = "gpio_free"
  /\ UNCHANGED <<frame, ret, inPin, irqVars, caseVars, line>>

-----------------------------------------------------------------------------
Thread ==
  \/ IrqGpio \/ RequestIrq \/ Debounce \/ WaitForCompletion \/ WaitTimeout \/ FreeIrq
  \/ ReFirst \/ ReSecond
  \/ OutRequest \/ OutDirection \/ OutHigh \/ OutLow
  \/ InRequest \/ InDirection
  \/ IoIn \/ IoInDirection \/ IoOut \/ IoOutDirection \/ IoToggle \/ IoFreeOut
  \/ FreeIn \/ Report

Next == Probe \/ Remove \/ Thread \/ LineChange \/ IrqHandler

Spec == Init /\ [][Next]_vars

\* The kernel runs the probing thread; nothing makes the pin move.
FairSpec == Spec /\ WF_vars(Thread)

-----------------------------------------------------------------------------
(* Properties.                                                             *)

InIrqTest == pc \in {"irq_request", "irq_debounce", "irq_wait", "irq_free"}

\* complete() and wait_for_completion_timeout() lose and invent nothing: the
\* waits that succeeded and the count left add up to the interrupts handled.
CompletionsBalance == InIrqTest => i + done = handled

\* A PASS is earned: an interrupt case passes only if the handler ran once per
\* wait since the completion was reinitialised, the output and the in-out case
\* only if both levels were read back.
PassIsEarned ==
  verdict = "pass" => /\ test_case \in IrqCases => handled >= Waits
                      /\ test_case \in {6, 8} => saw = Level

\* Outside the case neither pin is held and no handler is registered, whichever
\* of the goto labels the case left through; the handler and the wake irq never
\* outlive the rtk_gtest_data that the handler dereferences.
AllReleased ==
  /\ pc \in {"unbound", "bound", "report"} => inPin # "test" /\ outPin # "test" /\ ~irq
  /\ irq \/ wake => data

\* Every case reports: each of its waits has a timeout.
EveryCaseReports == (pc \in {Entry(c) : c \in 0..8}) ~> (pc = "bound")

=============================================================================
