------------------------------ MODULE TestBench -----------------------------
(***************************************************************************)
(* The board with one of the single-device tests on it: which one is       *)
(* chosen at the start, and its device and its user act beside it.         *)
(***************************************************************************)
EXTENDS Rtc, Watchdog, TimerHw, SystemTimer, Voltage, Uart, CdcAcm, Spi, Pwm, Clk,
        OneShot, DmacMulti, Kms, VblTest

CONSTANTS Programs  \* programs that may be started

ASSUME BenchAssumption ==
  Programs \subseteq OneShots \cup KmsProgs \cup
    {"rtc", "watchdog", "timer_hw", "system_timer", "voltage", "uart", "cdc_acm", "spi",
     "pwm", "clk", "dmac_multi", "vbltest"}

vars == <<progVars, rtcVars, wdgVars, timVars, stVars, volVars, uartVars, cdcVars,
          spiVars, pwmVars, clkVars, oneVars, mulVars, kmsVars, vblVars>>

TypeOK ==
  /\ prog \in Programs
  /\ said \in {"none", "pass", "fail"} /\ broke \in BOOLEAN
  /\ RtcTypeOK /\ WdgTypeOK /\ TimTypeOK /\ StTypeOK /\ VolTypeOK /\ UartTypeOK
  /\ CdcTypeOK /\ SpiTypeOK /\ PwmTypeOK /\ ClkTypeOK /\ OneTypeOK /\ MulTypeOK
  /\ KmsTypeOK /\ VblTypeOK

Init ==
  /\ prog \in Programs /\ pc = "start" /\ said = "none" /\ broke = FALSE
  /\ RtcInit /\ WdgInit /\ TimInit /\ StInit /\ VolInit /\ UartInit /\ CdcInit
  /\ SpiInit /\ PwmInit /\ ClkInit /\ OneInit /\ MulInit /\ KmsInit /\ VblInit

-----------------------------------------------------------------------------
(* Each program with what acts beside it; the others' variables rest.      *)

RestBut(v) ==
  /\ v # "rtc" => UNCHANGED rtcVars
  /\ v # "watchdog" => UNCHANGED wdgVars
  /\ v # "timer_hw" => UNCHANGED timVars
  /\ v # "system_timer" => UNCHANGED stVars
  /\ v # "voltage" => UNCHANGED volVars
  /\ v # "uart" => UNCHANGED uartVars
  /\ v # "cdc_acm" => UNCHANGED cdcVars
  /\ v # "spi" => UNCHANGED spiVars
  /\ v # "pwm" => UNCHANGED pwmVars
  /\ v # "clk" => UNCHANGED clkVars
  /\ v # "one_shot" => UNCHANGED oneVars
  /\ v # "dmac_multi" => UNCHANGED mulVars
  /\ v # "kms" => UNCHANGED kmsVars
  /\ v # "vbltest" => UNCHANGED vblVars

\* Steps of the program under test.
Runs ==
  \/ RtcProgram /\ RestBut("rtc")
  \/ WdgProgram /\ RestBut("watchdog")
  \/ TimProgram /\ RestBut("timer_hw")
  \/ StProgram /\ RestBut("system_timer")
  \/ VolProgram /\ RestBut("voltage")
  \/ UartProgram /\ RestBut("uart")
  \/ CdcProgram /\ RestBut("cdc_acm")
  \/ (\E r \in Roles : SpiProgram(r)) /\ RestBut("spi")
  \/ PwmProgram /\ RestBut("pwm")
  \/ ClkProgram /\ RestBut("clk")
  \/ OneProgram /\ RestBut("one_shot")
  \/ MulProgram /\ RestBut("dmac_multi")
  \/ KmsProgram /\ RestBut("kms")
  \/ VblProgram /\ RestBut("vbltest")

\* Time, clocks and devices, which go on by themselves.
Device ==
  \/ (Ring \/ Tick) /\ RestBut("rtc")
  \/ Second /\ RestBut("watchdog")
  \/ (Callback \/ Pass) /\ RestBut("timer_hw")
  \/ Elapse /\ RestBut("system_timer")
  \/ LoopBack /\ RestBut("cdc_acm")
  \/ Clock /\ RestBut("spi")
  \/ (CopyWord \/ CompareFirst \/ CompareSecond) /\ RestBut("dmac_multi")
  \/ Vblank /\ RestBut("vbltest")

\* What the operator may or may not do.
Operator ==
  \/ TimerExit /\ RestBut("timer_hw")
  \/ Type /\ RestBut("uart")
  \/ UnplugAcm /\ RestBut("cdc_acm")
  \/ (PwmStart \/ PwmKill) /\ RestBut("pwm")
  \/ (Bind \/ RemoveClks) /\ RestBut("clk")
  \/ KeyPressed /\ RestBut("kms")
  \/ VblKey /\ RestBut("vbltest")

\* Errors of calls that otherwise wait.
Error ==
  \/ AlarmReadFails /\ RestBut("rtc")
  \/ ReadTimerFails /\ RestBut("system_timer")
  \/ CdcWriteFails /\ RestBut("cdc_acm")

Next == Runs \/ Device \/ Operator \/ Error

Spec == Init /\ [][Next]_vars

\* A program that can run does, and time and devices go on; the two processes of the
\* SPI test are scheduled each for itself.  A call that waits need not fail, and the
\* operator need not act, and neither need a board that is sent to sleep.
FairSpec ==
  /\ Spec
  /\ WF_vars(Runs /\ prog # "spi")
  /\ \A r \in Roles : WF_vars(SpiProgram(r) /\ RestBut("spi"))
  /\ WF_vars(Ring /\ RestBut("rtc")) /\ WF_vars(Tick /\ RestBut("rtc"))
  /\ WF_vars(Callback /\ RestBut("timer_hw")) /\ WF_vars(Pass /\ RestBut("timer_hw"))
  /\ WF_vars(Device /\ prog \notin {"rtc", "timer_hw", "dmac_multi"})

-----------------------------------------------------------------------------
(* Properties.                                                             *)

\* Time is kept: the alarm of rtc.c, the feeding of watchdog.c, the interval printed
\* by the timer module, the expirations of system_timer and the frequency of vbltest.
TimeKept ==
  AlarmTenAhead /\ FedInTime /\ IntervalTrue /\ ExpirationsCounted /\ FrequencyNearTrue

\* What is sent comes back: the echo of uart.c and the answers usbh_cdc_acm.c awaits.
EchoKept == EchoIsFaithful /\ AnswerPending

\* PASS of voltage.c, the last message of the one-shot programs and the verdicts of
\* the two processes of spi.c are earned.
VerdictsEarned == PassMeansChanged /\ MessageIsEarned /\ SpiVerdictIsMutual

\* What pwm.c, the clock driver, dmac_multi and the kms programs take is given back.
NothingLeftBehind == PwmRefusalExplained /\ ClocksBalance /\ MultiContained /\ KmsSound

\* Where a program may rest: it has ended, waits for something that is not its
\* device's to give, or is back at the start of a loop that the code does not bound
\* (voltage.c:129, misc.c:57 and the reads of captouch).  misc/readme.txt:22 shows
\* "Misc test PASS", which stands behind that loop and is never printed.
AtRest ==
  \/ pc \in Ended
  \/ prog = "rtc" /\ ticks = RtcTicks /\ now < alarm
  \/ prog = "watchdog" /\ behind = "i"
  \/ prog = "timer_hw" /\ pc = "loaded" /\ fires = Off
  \/ prog = "system_timer" /\ (broke \/ (interval = 0 /\ max_exp > 1))
  \/ prog = "voltage" /\ pc = "get"
  \/ prog = "uart" /\ pc = "read" /\ got = Len(sent)
  \/ prog = "cdc_acm" /\ ((pc = "write" /\ out + StringLen <= TtyRoom) \/ ~plugged \/ broke)
  \/ prog = "spi" /\ at["MASTER"] \in SpiEnded /\ at["SLAVE"] \in SpiEnded \cup {"armed"}
  \/ prog = "pwm" /\ pc = "start"
  \/ prog = "clk" /\ pc \in {"start", "bound"}
  \/ prog \in OneShots /\ LoopFrom[prog] # 0
  \/ prog \in KmsProgs /\ pc = "loop"
  \/ prog = "vbltest" /\ pc = "loop" /\ (vbl_count = 0 \/ broke)

\* Every program gets to its end, or again and again to a place where it may rest: no
\* order of its own steps and of its device's leaves it stuck on the way.  The retry of
\* voltage.c ends with the first round in which the board really slept; nothing makes
\* it sleep.
ProgramsEnd ==
  /\ []<>AtRest
  /\ At("voltage", "check") /\ slept ~> pc = "exit"

=============================================================================
