------------------------ MODULE GpioKernelTestProofs ------------------------
(* The safety properties of GpioKernelTest, for every number of waits, of    *)
(* toggles and of interrupts, and every set of faults.                       *)
EXTENDS GpioKernelTest, TLAPS

IrqSteps == {"irq_gpio", "irq_request", "irq_debounce", "irq_wait", "irq_free"}
OutSteps == {"out_request", "out_direction", "out_high", "out_low"}
IoSteps == {"io_in", "io_in_direction", "io_out", "io_out_direction", "io_toggle",
            "io_free"}

\* A program point belongs to one case; the labels at the end are shared.
CaseAt ==
  /\ pc \in IrqSteps => test_case \in IrqCases
  /\ pc \in {"re_first", "re_second"} => test_case = 5
  /\ pc \in OutSteps => test_case = 6
  /\ pc \in {"in_request", "in_direction"} => test_case = 7
  /\ pc \in IoSteps => test_case = 8

\* What the thread holds at each of its program points.
Holding ==
  /\ inPin = "test" <=> pc \in {"irq_request", "irq_debounce", "irq_wait", "irq_free",
       "re_second", "out_direction", "out_high", "out_low", "in_direction",
       "io_in_direction", "io_out", "io_out_direction", "io_toggle", "io_free",
       "gpio_free"}
  /\ outPin = "test" <=> pc \in {"io_out_direction", "io_toggle", "io_free"}
  /\ irq => pc \in {"irq_debounce", "irq_wait", "irq_free"}
  /\ pc # "unbound" => data
  /\ wake => data /\ test_case <= 4

\* How far the loop of the case is.
Counting ==
  /\ pc \in {"irq_gpio", "irq_request", "irq_debounce", "out_request", "out_direction",
             "out_high", "io_in", "io_in_direction", "io_out", "io_out_direction"}
       => i = 0 /\ set_value = 0
  /\ pc = "irq_request" => done = 0 /\ handled = 0
  /\ pc = "irq_wait" => i < Waits
  /\ pc = "io_toggle" => i < Toggles
  /\ CompletionsBalance

\* What a case that is still successful has seen.
Progress ==
  /\ pc = "out_low" => 1 \in saw
  /\ pc = "io_toggle" => /\ i = 0 => set_value = 0
                         /\ i = 1 => set_value = 1 /\ 1 \in saw
                         /\ i > 1 => saw = Level
  /\ pc = "io_free" /\ ret => saw = Level
  /\ pc = "irq_free" /\ ret => i >= Waits
  /\ (pc \in {"gpio_free", "report"} /\ ret) \/ verdict = "pass" =>
       /\ test_case \in IrqCases => handled >= Waits
       /\ test_case \in {6, 8} => saw = Level
  /\ verdict # "none" => pc \in {"bound", "unbound"}

\* The inductive invariant.
IInv == TypeOK /\ CaseAt /\ Holding /\ Counting /\ Progress

USE TestCasesAssumption, WaitsAssumption, TogglesAssumption, MaxIrqsAssumption
USE DEF IrqCases, Level, Owners, PCs, Causes, IrqSteps, OutSteps, IoSteps
USE DEF pins, irqVars, caseVars, frame

\* The module is loaded and nothing has run.
LEMMA InitIInv == Init => IInv
<1> SUFFICES ASSUME Init PROVE IInv
  OBVIOUS
<1> USE DEF Init
<1>1. TypeOK
  <2>1. inPin \in Owners /\ outPin \in Owners
    OBVIOUS
  <2>2. done \in 0..MaxIrqs /\ handled \in 0..MaxIrqs /\ i \in 0..(Waits + Toggles)
    OBVIOUS
  <2> QED
    BY <2>1, <2>2 DEF TypeOK
<1>2. CaseAt /\ Holding
  BY DEF CaseAt, Holding
<1>3. Counting /\ Progress
  BY DEF Counting, Progress, CompletionsBalance, InIrqTest
<1> QED
  BY <1>1, <1>2, <1>3 DEF IInv

\* Every step of the thread, the line and the handler keeps the invariant.
LEMMA Step == IInv /\ [Next]_vars => IInv'
<1> SUFFICES ASSUME IInv, [Next]_vars
             PROVE  IInv'
  OBVIOUS
<1> USE DEF IInv, TypeOK, CaseAt, Holding, Counting, Progress, CompletionsBalance,
            InIrqTest
<1>1. CASE IrqGpio
  <2>1. TypeOK'
    <3>1. done' \in 0..MaxIrqs /\ handled' \in 0..MaxIrqs
      BY <1>1 DEF IrqGpio
    <3>2. pc' \in PCs /\ inPin' \in Owners /\ ret' \in BOOLEAN
      BY <1>1 DEF IrqGpio
    <3> QED
      BY <1>1, <3>1, <3>2 DEF IrqGpio
  <2>2. CaseAt' /\ Holding'
    BY <1>1 DEF IrqGpio
  <2>3. Counting'
    BY <1>1 DEF IrqGpio
  <2>4. Progress'
    BY <1>1 DEF IrqGpio
  <2> QED
    BY <2>1, <2>2, <2>3, <2>4 DEF IInv
<1>2. CASE RequestIrq
  BY <1>2 DEF RequestIrq, MayFail
<1>3. CASE Debounce
  <2>1. TypeOK'
    BY <1>3 DEF Debounce, SetDebounce, MayFail
  <2>2. CaseAt' /\ Holding'
    BY <1>3 DEF Debounce, SetDebounce, MayFail
  <2>3. Counting'
    BY <1>3 DEF Debounce, SetDebounce, MayFail
  <2>4. Progress'
    BY <1>3 DEF Debounce, SetDebounce, MayFail
  <2> QED
    BY <2>1, <2>2, <2>3, <2>4 DEF IInv
<1>4. CASE WaitForCompletion
  BY <1>4 DEF WaitForCompletion, WaitDone
<1>5. CASE WaitTimeout
  BY <1>5 DEF WaitTimeout
<1>6. CASE FreeIrq
  <2>1. TypeOK'
    BY <1>6 DEF FreeIrq
  <2>2. CaseAt' /\ Holding'
    BY <1>6 DEF FreeIrq
  <2>3. Counting'
    BY <1>6 DEF FreeIrq
  <2>4. Progress'
    BY <1>6 DEF FreeIrq
  <2> QED
    BY <2>1, <2>2, <2>3, <2>4 DEF IInv
<1>7. CASE ReFirst
  <2>1. TypeOK'
    BY <1>7 DEF ReFirst, RequestIn
  <2>2. CaseAt' /\ Holding'
    BY <1>7 DEF ReFirst, RequestIn
  <2>3. Counting'
    BY <1>7 DEF ReFirst, RequestIn
  <2>4. Progress'
    BY <1>7 DEF ReFirst, RequestIn
  <2> QED
    BY <2>1, <2>2, <2>3, <2>4 DEF IInv
<1>8. CASE ReSecond
  <2>1. TypeOK'
    BY <1>8 DEF ReSecond, MayFail
  <2>2. CaseAt' /\ Holding'
    BY <1>8 DEF ReSecond, MayFail
  <2>3. Counting'
    BY <1>8 DEF ReSecond, MayFail
  <2>4. Progress'
    BY <1>8 DEF ReSecond, MayFail
  <2> QED
    BY <2>1, <2>2, <2>3, <2>4 DEF IInv
<1>9. CASE OutRequest
  BY <1>9 DEF OutRequest, RequestIn
<1>10. CASE OutDirection
  BY <1>10 DEF OutDirection, Direction, MayFail
<1>11. CASE OutHigh
  BY <1>11 DEF OutHigh, DriveAndRead, ReadBack
<1>12. CASE OutLow
  <2>1. TypeOK'
    BY <1>12 DEF OutLow, DriveAndRead, ReadBack
  <2>2. CaseAt' /\ Holding'
    BY <1>12 DEF OutLow, DriveAndRead, ReadBack
  <2>3. Counting'
    BY <1>12 DEF OutLow, DriveAndRead, ReadBack
  <2>4. Progress'
    <3>1. 1 \in saw /\ saw \subseteq Level /\ saw' = saw \cup {line'} /\ line' \in Level
      BY <1>12 DEF OutLow, DriveAndRead, ReadBack
    <3>2. ret' => saw' = Level
      BY <1>12, <3>1 DEF OutLow, DriveAndRead
    <3> QED
      BY <1>12, <3>2 DEF OutLow, DriveAndRead
  <2> QED
    BY <2>1, <2>2, <2>3, <2>4 DEF IInv
<1>13. CASE InRequest
  <2>1. TypeOK'
    BY <1>13 DEF InRequest, RequestIn
  <2>2. CaseAt' /\ Holding'
    BY <1>13 DEF InRequest, RequestIn
  <2>3. Counting'
    BY <1>13 DEF InRequest, RequestIn
  <2>4. Progress'
    BY <1>13 DEF InRequest, RequestIn
  <2> QED
    BY <2>1, <2>2, <2>3, <2>4 DEF IInv
<1>14. CASE InDirection
  <2>1. TypeOK'
    BY <1>14 DEF InDirection, Direction, MayFail
  <2>2. CaseAt' /\ Holding'
    BY <1>14 DEF InDirection, Direction, MayFail
  <2>3. Counting'
    BY <1>14 DEF InDirection, Direction, MayFail
  <2>4. Progress'
    BY <1>14 DEF InDirection, Direction, MayFail
  <2> QED
    BY <2>1, <2>2, <2>3, <2>4 DEF IInv
<1>15. CASE IoIn
  BY <1>15 DEF IoIn, RequestIn
<1>16. CASE IoInDirection
  BY <1>16 DEF IoInDirection, Direction, MayFail
<1>17. CASE IoOut
  BY <1>17 DEF IoOut
<1>18. CASE IoOutDirection
  <2>1. TypeOK'
    BY <1>18 DEF IoOutDirection, Direction, MayFail
  <2>2. CaseAt' /\ Holding'
    BY <1>18 DEF IoOutDirection, Direction, MayFail
  <2>3. Counting'
    BY <1>18 DEF IoOutDirection, Direction, MayFail
  <2>4. Progress'
    BY <1>18 DEF IoOutDirection, Direction, MayFail
  <2> QED
    BY <2>1, <2>2, <2>3, <2>4 DEF IInv
<1>19. CASE IoToggle
  <2>1. TypeOK'
    BY <1>19 DEF IoToggle, ReadBack
  <2>2. CaseAt' /\ Holding'
    BY <1>19 DEF IoToggle, ReadBack
  <2>3. Counting'
    BY <1>19 DEF IoToggle, ReadBack
  <2>4. Progress'
    <3>1. saw \subseteq Level /\ saw' = saw \cup {line'} /\ line' \in Level /\ i \in Nat
      BY <1>19 DEF IoToggle, ReadBack
    <3>2. ret' /\ i = 0 => set_value' = 1 /\ 1 \in saw'
      BY <1>19, <3>1 DEF IoToggle
    <3>3. ret' /\ i > 0 => saw' = Level
      <4>1. CASE i = 1
        <5>1. 1 \in saw /\ set_value' = 0
          BY <1>19, <4>1 DEF IoToggle
        <5>2. ret' => line' = 0
          BY <1>19, <5>1 DEF IoToggle
        <5> QED
          BY <3>1, <5>1, <5>2
      <4>2. CASE i > 1
        BY <1>19, <3>1, <4>2 DEF IoToggle
      <4> QED
        BY <3>1, <4>1, <4>2
    <3>4. /\ pc' \in {"io_toggle", "io_free"} /\ i' = i + 1
          /\ pc' = "io_toggle" => ret'
          /\ pc' = "io_free" /\ ret' => i > 0
      BY <1>19, <3>1 DEF IoToggle
    <3>5. verdict' = verdict /\ verdict = "none"
      BY <1>19 DEF IoToggle
    <3> QED
      BY <3>1, <3>2, <3>3, <3>4, <3>5
  <2> QED
    BY <2>1, <2>2, <2>3, <2>4 DEF IInv
<1>20. CASE IoFreeOut
  BY <1>20 DEF IoFreeOut
<1>21. CASE FreeIn
  BY <1>21 DEF FreeIn
<1>22. CASE Report
  BY <1>22 DEF Report
<1>23. CASE Remove
  <2>1. TypeOK'
    BY <1>23 DEF Remove
  <2>2. CaseAt' /\ Holding'
    BY <1>23 DEF Remove
  <2>3. Counting'
    BY <1>23 DEF Remove
  <2>4. Progress'
    BY <1>23 DEF Remove
  <2> QED
    BY <2>1, <2>2, <2>3, <2>4 DEF IInv
<1>24. CASE Probe
  BY <1>24 DEF Probe, Entry
<1>25. CASE LineChange
  <2>1. TypeOK'
    <3>1. line' \in Level
      BY <1>25 DEF LineChange
    <3>2. latched' \subseteq {"fall", "rise"}
      BY <1>25 DEF LineChange
    <3> QED
      BY <1>25, <3>1, <3>2 DEF LineChange
  <2>2. CaseAt' /\ Holding'
    BY <1>25 DEF LineChange
  <2>3. Counting'
    BY <1>25 DEF LineChange
  <2>4. Progress'
    BY <1>25 DEF LineChange
  <2> QED
    BY <2>1, <2>2, <2>3, <2>4 DEF IInv
<1>26. CASE IrqHandler
  BY <1>26 DEF IrqHandler
<1>27. CASE UNCHANGED vars
  BY <1>27 DEF vars
<1> QED
  BY <1>1, <1>2, <1>3, <1>4, <1>5, <1>6, <1>7, <1>8, <1>9, <1>10, <1>11, <1>12, <1>13,
     <1>14, <1>15, <1>16, <1>17, <1>18, <1>19, <1>20, <1>21, <1>22, <1>23, <1>24, <1>25,
     <1>26, <1>27 DEF Next, Thread

\* The invariant holds in every behaviour.
LEMMA Invariance == Spec => []IInv
<1>1. Init => IInv
  BY InitIInv
<1>2. IInv /\ [Next]_vars => IInv'
  BY Step
<1> QED
  BY <1>1, <1>2, PTL DEF Spec

\* Every variable keeps its type: no interleaving of the handler with the waits takes
\* the completion or the loop counter out of its range.
THEOREM TypeCorrect == Spec => []TypeOK
<1>1. IInv => TypeOK
  BY DEF IInv
<1> QED
  BY <1>1, Invariance, PTL

\* complete() in rtk_gpio_irq_handler() and the waits of rtk_gpio_irq_test() lose and
\* invent no interrupt, for any number of waits and interrupts.
THEOREM CompletionsAreBalanced == Spec => []CompletionsBalance
<1>1. IInv => CompletionsBalance
  BY DEF IInv, Counting
<1> QED
  BY <1>1, Invariance, PTL

\* The PASS that probe() prints was earned by the interrupts and levels of this case.
THEOREM PassHasCause == Spec => []PassIsEarned
<1>1. IInv => PassIsEarned
  BY DEF IInv, Progress, PassIsEarned
<1> QED
  BY <1>1, Invariance, PTL

\* Whichever goto label a case leaves through, pins and handler are given back, and
\* handler and wake irq never outlive the data that remove() frees.
THEOREM EverythingIsReleased == Spec => []AllReleased
<1>1. IInv => AllReleased
  BY DEF IInv, Holding, AllReleased
<1> QED
  BY <1>1, Invariance, PTL

=============================================================================
