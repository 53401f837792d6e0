--------------------------- MODULE TestBenchProofs ---------------------------
(****************************************************************************)
(* The safety properties of TestBench, one program after the other.  Each   *)
(* program has an invariant of its own, about its variables and, while it   *)
(* is the one that runs, its program point; a step of another program       *)
(* cannot disturb it.                                                       *)
(****************************************************************************)
EXTENDS TestBench, FiniteSetTheorems, SequenceTheorems, WellFoundedInduction, TLAPS

-----------------------------------------------------------------------------
(* Who moves.                                                              *)

RtcNext == RtcProgram \/ AlarmReadFails \/ Ring \/ Tick
WdgNext == WdgProgram \/ Second
TimNext == TimProgram \/ Callback \/ Pass \/ TimerExit
StNext == StProgram \/ Elapse \/ ReadTimerFails
UartNext == UartProgram \/ Type
CdcNext == CdcProgram \/ LoopBack \/ UnplugAcm \/ CdcWriteFails
SpiNext == (\E r \in Roles : SpiProgram(r)) \/ Clock
PwmNext == PwmProgram \/ PwmStart \/ PwmKill
ClkNext == ClkProgram \/ Bind \/ RemoveClks
MulNext == MulProgram \/ CopyWord \/ CompareFirst \/ CompareSecond
KmsNext == KmsProgram \/ KeyPressed
VblNext == VblProgram \/ VblKey \/ Vblank

\* A step of the program p, which prints a verdict or none and fails or not.
StepOf(p) ==
  /\ prog = p /\ prog' = prog
  /\ said' \in {said, "none", "pass", "fail"}
  /\ broke' \in {broke, TRUE, FALSE}

LEMMA RtcMoves == ASSUME RtcNext PROVE StepOf("rtc")
<1> USE DEF StepOf, At, Go, Fail, Say, progVars
<1>1. ASSUME RtcOpen \/ GetOpt \/ RtcRead \/ RtcWrite PROVE StepOf("rtc")
  BY <1>1 DEF RtcOpen, GetOpt, RtcRead, RtcWrite
<1>2. ASSUME RdTime \/ AlmSet \/ AlmRead \/ AieOn \/ AlarmRead PROVE StepOf("rtc")
  BY <1>2 DEF RdTime, AlmSet, AlmRead, AieOn, AieTo, AlarmRead
<1>3. ASSUME AlarmReadFails \/ Ring \/ Tick PROVE StepOf("rtc")
  BY <1>3 DEF AlarmReadFails, Ring, Tick
<1> QED
  BY <1>1, <1>2, <1>3 DEF RtcNext, RtcProgram

LEMMA WdgMoves == ASSUME WdgNext PROVE StepOf("watchdog")
  BY DEF StepOf, At, Go, Fail, Say, progVars, WdgNext, WdgProgram, WdgOpen, WdgReturns,
         GetTimeout, Sleep, SleepFor, Feed, Second

LEMMA TimMoves == ASSUME TimNext PROVE StepOf("timer_hw")
  BY DEF StepOf, At, Go, Fail, Say, progVars, TimNext, TimProgram, SetTime, DynamicInit,
         StartTimer, StoreStart, Callback, CallbackSince, Pass, TimerExit

LEMMA StMoves == ASSUME StNext PROVE StepOf("system_timer")
  BY DEF StepOf, At, Go, Fail, Say, progVars, StNext, StProgram, Arm, ReadTimer, ReadAdding,
         LoopEnds, Elapse, ReadTimerFails

LEMMA VolMoves == ASSUME VolProgram PROVE StepOf("voltage")
  BY DEF StepOf, At, Go, Fail, Say, progVars, VolProgram, SetFrequency, GetBefore, SetVoltage,
         Sleeps, StaysAwake, Asleep, Check, CheckAgainst

LEMMA UartMoves == ASSUME UartNext PROVE StepOf("uart")
  BY DEF StepOf, At, Go, Fail, Say, progVars, UartNext, UartProgram, Setup, Greet, Read,
         ReadTerminated, Echo, EchoClearing, Type

LEMMA CdcMoves == ASSUME CdcNext PROVE StepOf("cdc_acm")
  BY DEF StepOf, At, Go, Fail, Say, progVars, CdcNext, CdcProgram, CdcSetup, CdcWrite, CdcRead,
         LoopBack, UnplugAcm, CdcWriteFails

LEMMA SpiMoves == ASSUME SpiNext PROVE StepOf("spi")
  BY DEF StepOf, Move, progVars, SpiNext, SpiProgram, ParseOpts, OpenDevice, Select, Message,
         WriteOutput, Compare, CompareIf, Clock

LEMMA PwmMoves == ASSUME PwmNext PROVE StepOf("pwm")
  BY DEF StepOf, At, Go, Fail, Say, progVars, PwmNext, PwmProgram, PwmCall, PwmStart, ExportPwm,
         OpenPwmNodes, SetPeriod, SetDuty, EnablePwm, DisablePwm, UnexportPwm, UnexportTo, PwmKill

LEMMA ClkMoves == ASSUME ClkNext PROVE StepOf("clk")
  BY DEF StepOf, At, Go, Fail, Say, progVars, ClkNext, ClkProgram, Bind, ClkFail, ClkGet,
         ClkEnable, ClkEnableElse, SetParent, SetRate, RemoveClks

LEMMA MulMoves == ASSUME MulNext PROVE StepOf("dmac_multi")
<1> USE DEF StepOf, At, Go, Fail, Say, progVars
<1>1. ASSUME MulProgram PROVE StepOf("dmac_multi")
  BY <1>1 DEF MulProgram, PrepareMulti, ConfigMulti, Overwrite, EndRound, EndRoundAt, Pause,
              PauseTo, Resume, MultiEnd
<1>2. ASSUME CopyWord \/ CompareFirst \/ CompareSecond PROVE StepOf("dmac_multi")
  BY <1>2 DEF CopyWord, CompareFirst, CompareSecond
<1> QED
  BY <1>1, <1>2 DEF MulNext

LEMMA VblMoves == ASSUME VblNext PROVE StepOf("vbltest")
  BY DEF StepOf, At, Go, Fail, Say, progVars, VblNext, VblProgram, VblOpen, CreateFb, SetCrtc,
         QueueEvent, TakeEvent, AskAgain, CountEvent, CountFrom, HandleFails, VblKey, Timed,
         Vblank

LEMMA OneMoves == ASSUME OneProgram PROVE prog \in OneShots /\ StepOf(prog)
  BY DEF StepOf, Go, Fail, Say, OneProgram, OneArgs, OneOpen, OneUse, OneClose, OnePass

LEMMA KmsMoves == ASSUME KmsNext PROVE prog \in KmsProgs /\ StepOf(prog)
<1> USE DEF StepOf, At, Go, Fail, Say, Universal, KmsProgs
<1>1. ASSUME KmsOpen \/ ProbeScreens \/ ProbeCrtcs \/ ProbePlanes
      PROVE  prog \in KmsProgs /\ StepOf(prog)
  BY <1>1 DEF KmsOpen, ProbeScreens, ProbeCrtcs, ProbePlanes
<1>2. ASSUME Verbose \/ \E k \in Blocks : FindPlane(k) \/ CreateFramebuffer(k) \/ Show(k)
      PROVE  prog \in KmsProgs /\ StepOf(prog)
  BY <1>2 DEF Verbose, FindPlane, CreateFramebuffer, Show
<1>3. ASSUME FreeFramebuffers \/ KmsClose \/ StealCrtc \/ KeyPressed
      PROVE  prog \in KmsProgs /\ StepOf(prog)
  BY <1>3 DEF FreeFramebuffers, FreeOnly, KmsClose, StealCrtc, KeyPressed
<1> QED
  BY <1>1, <1>2, <1>3 DEF KmsNext, KmsProgram

LEMMA OneShotsAre ==
  OneShots = {"sdioh", "ir", "adc", "thermal", "audio_pll", "misc", "captouch", "kmstest"}
  BY DEF OneShots, Script

\* A step is one of the program that was chosen, and leaves the others' variables alone.
LEMMA WhoMoves ==
  ASSUME Next
  PROVE  /\ StepOf(prog)
         /\ RtcNext \/ (prog # "rtc" /\ UNCHANGED rtcVars)
         /\ WdgNext \/ (prog # "watchdog" /\ UNCHANGED wdgVars)
         /\ TimNext \/ (prog # "timer_hw" /\ UNCHANGED timVars)
         /\ StNext \/ (prog # "system_timer" /\ UNCHANGED stVars)
         /\ VolProgram \/ (prog # "voltage" /\ UNCHANGED volVars)
         /\ UartNext \/ (prog # "uart" /\ UNCHANGED uartVars)
         /\ CdcNext \/ (prog # "cdc_acm" /\ UNCHANGED cdcVars)
         /\ SpiNext \/ (prog # "spi" /\ UNCHANGED spiVars)
         /\ PwmNext \/ (prog # "pwm" /\ UNCHANGED pwmVars)
         /\ ClkNext \/ (prog # "clk" /\ UNCHANGED clkVars)
         /\ OneProgram \/ (prog \notin OneShots /\ UNCHANGED oneVars)
         /\ MulNext \/ (prog # "dmac_multi" /\ UNCHANGED mulVars)
         /\ KmsNext \/ (prog \notin KmsProgs /\ UNCHANGED kmsVars)
         /\ VblNext \/ (prog # "vbltest" /\ UNCHANGED vblVars)
<1> USE OneShotsAre DEF RestBut, KmsProgs
<1>1. CASE RtcNext /\ RestBut("rtc")
  <2>1. StepOf("rtc")
    BY <1>1, RtcMoves
  <2> QED
    BY <1>1, <2>1 DEF StepOf
<1>2. CASE WdgNext /\ RestBut("watchdog")
  <2>1. StepOf("watchdog")
    BY <1>2, WdgMoves
  <2> QED
    BY <1>2, <2>1 DEF StepOf
<1>3. CASE TimNext /\ RestBut("timer_hw")
  <2>1. StepOf("timer_hw")
    BY <1>3, TimMoves
  <2> QED
    BY <1>3, <2>1 DEF StepOf
<1>4. CASE StNext /\ RestBut("system_timer")
  <2>1. StepOf("system_timer")
    BY <1>4, StMoves
  <2> QED
    BY <1>4, <2>1 DEF StepOf
<1>5. CASE VolProgram /\ RestBut("voltage")
  <2>1. StepOf("voltage")
    BY <1>5, VolMoves
  <2> QED
    BY <1>5, <2>1 DEF StepOf
<1>6. CASE UartNext /\ RestBut("uart")
  <2>1. StepOf("uart")
    BY <1>6, UartMoves
  <2> QED
    BY <1>6, <2>1 DEF StepOf
<1>7. CASE CdcNext /\ RestBut("cdc_acm")
  <2>1. StepOf("cdc_acm")
    BY <1>7, CdcMoves
  <2> QED
    BY <1>7, <2>1 DEF StepOf
<1>8. CASE SpiNext /\ RestBut("spi")
  <2>1. StepOf("spi")
    BY <1>8, SpiMoves
  <2> QED
    BY <1>8, <2>1 DEF StepOf
<1>9. CASE PwmNext /\ RestBut("pwm")
  <2>1. StepOf("pwm")
    BY <1>9, PwmMoves
  <2> QED
    BY <1>9, <2>1 DEF StepOf
<1>10. CASE ClkNext /\ RestBut("clk")
  <2>1. StepOf("clk")
    BY <1>10, ClkMoves
  <2> QED
    BY <1>10, <2>1 DEF StepOf
<1>11. CASE OneProgram /\ RestBut("one_shot")
  <2>1. prog \in OneShots /\ StepOf(prog)
    BY <1>11, OneMoves
  <2> QED
    BY <1>11, <2>1
<1>12. CASE MulNext /\ RestBut("dmac_multi")
  <2>1. StepOf("dmac_multi")
    BY <1>12, MulMoves
  <2> QED
    BY <1>12, <2>1 DEF StepOf
<1>13. CASE KmsNext /\ RestBut("kms")
  <2>1. prog \in KmsProgs /\ StepOf(prog)
    BY <1>13, KmsMoves
  <2> QED
    BY <1>13, <2>1
<1>14. CASE VblNext /\ RestBut("vbltest")
  <2>1. StepOf("vbltest")
    BY <1>14, VblMoves
  <2> QED
    BY <1>14, <2>1 DEF StepOf
<1> QED
  <2>1. \/ (RtcNext /\ RestBut("rtc")) \/ (WdgNext /\ RestBut("watchdog"))
        \/ (TimNext /\ RestBut("timer_hw")) \/ (StNext /\ RestBut("system_timer"))
        \/ (VolProgram /\ RestBut("voltage")) \/ (UartNext /\ RestBut("uart"))
        \/ (CdcNext /\ RestBut("cdc_acm")) \/ (SpiNext /\ RestBut("spi"))
        \/ (PwmNext /\ RestBut("pwm")) \/ (ClkNext /\ RestBut("clk"))
        \/ (OneProgram /\ RestBut("one_shot")) \/ (MulNext /\ RestBut("dmac_multi"))
        \/ (KmsNext /\ RestBut("kms")) \/ (VblNext /\ RestBut("vbltest"))
    BY DEF Next, Runs, Device, Operator, Error, RtcNext, WdgNext, TimNext, StNext, UartNext,
           CdcNext, SpiNext, PwmNext, ClkNext, MulNext, KmsNext, VblNext
  <2> QED
    BY <1>1, <1>2, <1>3, <1>4, <1>5, <1>6, <1>7, <1>8, <1>9, <1>10, <1>11, <1>12, <1>13,
       <1>14, <2>1

-----------------------------------------------------------------------------
(* Arithmetic and least members.                                           *)

\* Quotient and remainder.
LEMMA Division ==
  ASSUME NEW x \in Int, NEW c \in Nat \ {0}
  PROVE  \E q \in Int, r \in Int : q = x \div c /\ r = x % c /\ x = q * c + r /\ 0 <= r /\ r < c
<1>1. PICK q \in Int, r \in Int : q = x \div c /\ r = x % c
  BY SMT
<1>2. x = q * c + r
  BY <1>1, SMT
<1>3. 0 <= r /\ r < c
  BY <1>1, SMT
<1> QED
  BY <1>1, <1>2, <1>3, SMT

LEMMA SmallMod ==
  ASSUME NEW c \in Nat \ {0}, NEW s \in 0..(c - 1)
  PROVE  s % c = s
  BY SMT

\* Multiplication keeps an order.
LEMMA Monotone ==
  ASSUME NEW a \in Int, NEW b \in Int, NEW i \in Nat, a <= b
  PROVE  a * i <= b * i
  BY SMT

\* A set of numbers that is not empty has a least member.
LEMMA LeastMember ==
  ASSUME NEW S \in SUBSET Nat, S # {}
  PROVE  Min(S) \in S /\ \A k \in S : Min(S) <= k
<1> DEFINE Below(x) == {k \in S : k <= x}
           T == {Below(x) : x \in S}
<1>1. ASSUME NEW x \in S
      PROVE  Below(x) \in FiniteSubsetsOf(Nat)
  <2>1. IsFiniteSet(Below(x))
    BY FS_BoundedSetOfNaturals
  <2> QED
    BY <2>1 DEF FiniteSubsetsOf
<1>2. T \subseteq FiniteSubsetsOf(Nat) /\ T # {}
  BY <1>1
<1> HIDE DEF T
<1>3. PICK t \in T : \A u \in T : ~(<<u, t>> \in StrictSubsetOrdering(Nat))
  BY <1>2, WFMin, FS_StrictSubsetOrderingWellFounded
<1>4. PICK x \in S : t = Below(x)
  BY DEF T
<1>5. ASSUME NEW y \in S, y < x
      PROVE  FALSE
  <2>1. Below(y) \in T
    BY DEF T
  <2>2. x \in Nat /\ y \in Nat /\ \A k \in S : k \in Nat
    OBVIOUS
  <2>3. (\A k \in S : k <= y => k <= x) /\ x <= x /\ ~(x <= y)
    BY <1>5, <2>2
  <2>4. <<Below(y), Below(x)>> \in StrictSubsetOrdering(Nat)
    <3>1. Below(y) \subseteq Below(x) /\ x \in Below(x) /\ x \notin Below(y)
      BY <2>3, Zenon
    <3> QED
      BY <3>1 DEF StrictSubsetOrdering
  <2> QED
    BY <1>3, <1>4, <2>1, <2>4
<1>6. \A y \in S : x <= y
  BY <1>5
<1> QED
  BY <1>6 DEF Min

\* What the loops that look for the first entry find.
LEMMA LeastIs ==
  ASSUME NEW A \in SUBSET Int, NEW x \in A, \A j \in A : x <= j
  PROVE  (CHOOSE i \in A : \A j \in A : i <= j) = x
<1>1. \A i \in A : (\A j \in A : i <= j) => i = x
  OBVIOUS
<1> QED
  BY <1>1

-----------------------------------------------------------------------------
(* rtc: the arithmetic of rtc_set_alarm(), for every time at which the     *)
(* clock is read and every time at which the ioctl reaches the driver.     *)
(* Times are written as day, hour, minute and second.                      *)

HMS(h, m, s) == [hour |-> h, min |-> m, sec |-> s]

\* Second x is h:m:s on day d.
IsTime(x, d, h, m, s) ==
  /\ 0 <= d /\ 0 <= h /\ h < 24 /\ 0 <= m /\ m < 60 /\ 0 <= s /\ s < 60
  /\ x = 86400 * d + 3600 * h + 60 * m + s

\* The length of a day, as one number for the provers.
LEMMA DayIs == Day = 86400
  BY DEF Day

\* What the driver reports for a second of some day is the time of day of that second.
LEMMA TimeOfDayExact ==
  ASSUME NEW d \in Int, NEW h \in Int, NEW m \in Int, NEW s \in Int,
         NEW x \in Int, IsTime(x, d, h, m, s)
  PROVE  TimeOfDay(x) = HMS(h, m, s)
<1> USE DEF IsTime
<1>1. PICK y \in Int : y = 3600 * h + 60 * m + s
  OBVIOUS
<1>2. PICK z \in Int : z = 60 * m + s
  OBVIOUS
<1>3. x % 86400 = y
  BY <1>1
<1>4. y \div 3600 = h
  BY <1>1
<1>5. x % 3600 = z
  BY <1>2
<1>6. z \div 60 = m
  BY <1>2
<1>7. x % 60 = s
  OBVIOUS
<1> QED
  BY <1>3, <1>4, <1>5, <1>6, <1>7, DayIs DEF TimeOfDay, HMS

\* The three carries of rtc_set_alarm(): the result is again a time of day, ten
\* seconds on, or those ten seconds round midnight.
LEMMA CarryExact ==
  ASSUME NEW h \in Int, NEW m \in Int, NEW s \in Int,
         0 <= h, h < 24, 0 <= m, m < 60, 0 <= s, s < 60,
         NEW y \in Int, y = 3600 * h + 60 * m + s
  PROVE  /\ Valid(Carry(HMS(h, m, s)))
         /\ Seconds(Carry(HMS(h, m, s))) = IF y + 10 < 86400 THEN y + 10 ELSE y + 10 - 86400
<1> USE DEF HMS, Carry, CarryFrom, Valid, Seconds
<1>1. CASE s < 50
  BY <1>1
<1>2. CASE s >= 50
  <2>1. (s + 10) % 60 = s - 50
    BY <1>2
  <2>2. CASE m < 59
    BY <1>2, <2>1, <2>2
  <2>3. CASE m = 59 /\ h < 23
    BY <1>2, <2>1, <2>3
  <2>4. CASE m = 59 /\ h = 23
    BY <1>2, <2>1, <2>4
  <2> QED
    BY <2>2, <2>3, <2>4
<1> QED
  BY <1>1, <1>2

\* The driver's date: at any moment of the following 24 hours, the next occurrence of
\* that time of day.
LEMMA NextExact ==
  ASSUME NEW d \in Int, NEW y \in Int, NEW n \in Int, now = n, NEW c,
         0 <= d, 0 <= y, y < 86400,
         86400 * d + y <= n, n < 86400 * d + y + 86400,
         Seconds(c) = IF y + 10 < 86400 THEN y + 10 ELSE y + 10 - 86400
  PROVE  NextOccurrence(c) =
           86400 * d + y + 10 + (IF n > 86400 * d + y + 10 THEN 86400 ELSE 0)
<1>1. CASE n < 86400 * d + 86400
  <2>1. n \div 86400 = d
    BY <1>1
  <2> QED
    BY <1>1, <2>1, DayIs DEF NextOccurrence
<1>2. CASE n >= 86400 * d + 86400
  <2>1. n \div 86400 = d + 1
    BY <1>2
  <2> QED
    BY <1>2, <2>1, DayIs DEF NextOccurrence
<1> QED
  BY <1>1, <1>2

\* RTC_RD_TIME reads the time x, which is h:m:s on day d.  What is handed to
\* RTC_ALM_SET is valid, and the alarm that the driver sets at any moment of the
\* following 24 hours is ten seconds after x, or a whole day after that if the ten
\* seconds have passed before the ioctl.
THEOREM AlarmIsTenAhead ==
  ASSUME NEW d \in Int, NEW h \in Int, NEW m \in Int, NEW s \in Int,
         NEW x \in Int, IsTime(x, d, h, m, s),
         now \in Int, x <= now, now < x + 86400
  PROVE  /\ Valid(Carry(TimeOfDay(x)))
         /\ NextOccurrence(Carry(TimeOfDay(x))) = x + 10 + (IF now > x + 10 THEN Day ELSE 0)
<1>1. PICK y \in Int : y = 3600 * h + 60 * m + s
  OBVIOUS
<1>2. TimeOfDay(x) = HMS(h, m, s)
  BY TimeOfDayExact
<1> USE DEF IsTime
<1> DEFINE c == Carry(HMS(h, m, s))
<1>3. Valid(c) /\ Seconds(c) = IF y + 10 < 86400 THEN y + 10 ELSE y + 10 - 86400
  BY <1>1, CarryExact
<1>4. 0 <= y /\ y < 86400 /\ x = 86400 * d + y
  BY <1>1
<1>5. PICK n \in Int : now = n /\ 86400 * d + y <= n /\ n < 86400 * d + y + 86400
  BY <1>4
<1> HIDE DEF c
<1>6. NextOccurrence(c) = 86400 * d + y + 10 + (IF n > 86400 * d + y + 10 THEN 86400 ELSE 0)
  BY <1>3, <1>4, <1>5, NextExact
<1>7. NextOccurrence(c) = x + 10 + (IF now > x + 10 THEN Day ELSE 0)
  BY <1>4, <1>5, <1>6, DayIs
<1> QED
  BY <1>2, <1>3, <1>7 DEF c

\* Every second is one of some day.
LEMMA HasTime ==
  ASSUME NEW x \in Nat
  PROVE  \E d \in Int, h \in Int, m \in Int, s \in Int : IsTime(x, d, h, m, s)
<1>1. PICK d \in Int, y \in Int : x = 86400 * d + y /\ 0 <= y /\ y < 86400
  <2>1. PICK q \in Int, r \in Int : q = x \div 86400 /\ r = x % 86400
    BY SMT
  <2>2. x = 86400 * q + r /\ 0 <= r /\ r < 86400
    BY <2>1, SMT
  <2> QED
    BY <2>2, SMT
<1>2. PICK h \in Int, z \in Int : y = 3600 * h + z /\ 0 <= z /\ z < 3600
  <2>1. PICK q \in Int, r \in Int : q = y \div 3600 /\ r = y % 3600
    BY SMT
  <2>2. y = 3600 * q + r /\ 0 <= r /\ r < 3600
    BY <2>1, SMT
  <2> QED
    BY <2>2, SMT
<1>3. PICK m \in Int, s \in Int : z = 60 * m + s /\ 0 <= s /\ s < 60
  <2>1. PICK q \in Int, r \in Int : q = z \div 60 /\ r = z % 60
    BY SMT
  <2>2. z = 60 * q + r /\ 0 <= r /\ r < 60
    BY <2>1, SMT
  <2> QED
    BY <2>2, SMT
<1>4. IsTime(x, d, h, m, s)
  BY <1>1, <1>2, <1>3, SMT DEF IsTime
<1> QED
  BY <1>4, SMT

LEMMA TimesOfDay ==
  ASSUME NEW x \in Nat
  PROVE  TimeOfDay(x) \in Times /\ Carry(TimeOfDay(x)) \in Times
<1>1. PICK d \in Int, h \in Int, m \in Int, s \in Int : IsTime(x, d, h, m, s)
  BY HasTime
<1>2. TimeOfDay(x) = HMS(h, m, s)
  BY <1>1, TimeOfDayExact
<1>3. h \in 0..23 /\ m \in 0..59 /\ s \in 0..59
  BY <1>1 DEF IsTime
<1>4. s + 10 \in 10..69 /\ (s >= 50 => (s + 10) % 60 = s - 50)
  BY <1>3
<1> QED
  BY <1>2, <1>3, <1>4 DEF HMS, Times, Carry, CarryFrom

\* Between RTC_RD_TIME and RTC_ALM_SET the program holds the time it read, ten seconds
\* on, and less than a day passes.
RtcInv ==
  /\ RtcTypeOK
  /\ At("rtc", "almset") =>
       tm = Carry(TimeOfDay(readAt)) /\ readAt <= now /\ now <= readAt + ticks
  /\ AlarmTenAhead

LEMMA RtcTicksAre == RtcTicks \in Int /\ 0 <= RtcTicks /\ RtcTicks < 86400
<1>1. RtcTicks \in 0..(Day - 1)
  BY RtcAssumption
<1>2. Day \in Int
  BY DayIs, SMT
<1>3. RtcTicks \in Int /\ RtcTicks <= Day - 1 /\ 0 <= RtcTicks
  BY <1>1, <1>2, SMT
<1> QED
  BY <1>3, DayIs, SMT

LEMMA AlarmAsSet ==
  ASSUME readAt \in Nat, now \in Nat, ticks \in 0..RtcTicks,
         readAt <= now, now <= readAt + ticks, tm = Carry(TimeOfDay(readAt))
  PROVE  /\ NextOccurrence(tm) = readAt + 10 + (IF now > readAt + 10 THEN Day ELSE 0)
         /\ NextOccurrence(tm) \in Nat
<1>1. now < readAt + 86400
  BY RtcTicksAre, SMT
<1>2. PICK d \in Int, h \in Int, m \in Int, s \in Int : IsTime(readAt, d, h, m, s)
  BY HasTime, SMT
<1>3. NextOccurrence(tm) = readAt + 10 + (IF now > readAt + 10 THEN Day ELSE 0)
  BY <1>1, <1>2, AlarmIsTenAhead, SMT
<1> QED
  BY <1>3, DayIs, SMT

LEMMA RtcStep == ASSUME RtcInv, RtcNext PROVE RtcInv'
<1> USE RtcAssumption DEF RtcInv, RtcTypeOK, AlarmTenAhead, At, Go, Fail, Say, progVars, rtcVars
<1>1. CASE RtcOpen
  BY <1>1, SMT DEF RtcOpen
<1>2. CASE GetOpt
  <2>1. /\ pc = "getopt" /\ prog' = "rtc"
        /\ \/ pc' = "exit" /\ UNCHANGED args
           \/ args # << >> /\ pc' = Head(args) /\ args' = Tail(args)
        /\ UNCHANGED <<now, ticks, tm, alarm, aie, data, readAt, setAt>>
    BY <1>2, SMT DEF GetOpt
  <2>2. args # << >> => Head(args) \in {"r", "w", "s", "?"}
                        /\ Tail(args) \in Seq({"r", "w", "s", "?"})
    BY SMT
  <2>3. args' \in Seq({"r", "w", "s", "?"}) /\ pc' \in {"exit", "r", "w", "s", "?"}
    BY <2>1, <2>2, SMT
  <2> QED
    BY <2>1, <2>3, SMT
<1>3. CASE RtcRead
  <2>1. TimeOfDay(now) \in Times
    BY TimesOfDay, SMT
  <2> QED
    BY <1>3, <2>1, SMT DEF RtcRead
<1>4. CASE RtcWrite
  <2>1. tm' = [hour |-> 8, min |-> 8, sec |-> 8]
    BY <1>4, SMT DEF RtcWrite
  <2>2. tm' \in Times /\ Seconds(tm)' \in Nat
    BY <2>1, SMT DEF Times, Seconds
  <2> QED
    BY <1>4, <2>2, SMT DEF RtcWrite, Seconds
<1>5. CASE RdTime
  <2>1. Carry(TimeOfDay(now)) \in Times
    BY TimesOfDay, SMT
  <2>2. CASE tm' = Carry(TimeOfDay(now)) /\ readAt' = now /\ Go("almset")
    <3>1. PICK d \in Int, h \in Int, m \in Int, s \in Int : IsTime(now, d, h, m, s)
      BY HasTime, SMT
    <3>2. Valid(Carry(TimeOfDay(now)))
      BY <3>1, AlarmIsTenAhead, SMT
    <3>3. UNCHANGED <<now, ticks, args, alarm, aie, data, setAt>>
      BY <1>5, SMT DEF RdTime
    <3> QED
      BY <2>1, <2>2, <3>2, <3>3, SMT
  <2> QED
    BY <1>5, <2>2, SMT DEF RdTime
<1>6. CASE AlmSet
  <2>1. CASE Go("almread")
    <3>1. At("rtc", "almset") /\ now \in Nat /\ readAt \in Nat /\ ticks \in 0..RtcTicks
      BY <1>6, Zenon DEF AlmSet
    <3>2. readAt <= now /\ now <= readAt + ticks /\ tm = Carry(TimeOfDay(readAt))
      BY <3>1, Zenon
    <3>3. /\ NextOccurrence(tm) = readAt + 10 + (IF now > readAt + 10 THEN Day ELSE 0)
          /\ NextOccurrence(tm) \in Nat
      BY <3>1, <3>2, AlarmAsSet, Zenon
    <3>4. /\ alarm' = NextOccurrence(tm) /\ setAt' = now /\ aie' = FALSE
          /\ UNCHANGED <<now, ticks, args, tm, data, readAt>>
      BY <1>6, <2>1, SMT DEF AlmSet
    <3>5. RtcTypeOK'
      BY <2>1, <3>3, <3>4, Zenon
    <3>6. alarm' = readAt' + 10 + (IF setAt' > readAt' + 10 THEN Day ELSE 0)
      BY <3>3, <3>4, Zenon
    <3> QED
      BY <2>1, <3>5, <3>6, Zenon
  <2> QED
    BY <1>6, <2>1, SMT DEF AlmSet
<1>7. CASE AlmRead
  <2>1. TimeOfDay(alarm) \in Times
    BY TimesOfDay, SMT
  <2> QED
    BY <1>7, <2>1, SMT DEF AlmRead
<1>8. CASE AieOn
  BY <1>8, Zenon DEF AieOn, AieTo
<1>9. CASE AlarmRead
  BY <1>9, Zenon DEF AlarmRead
<1>10. CASE AlarmReadFails
  BY <1>10, Zenon DEF AlarmReadFails
<1>11. CASE Ring
  BY <1>11, Zenon DEF Ring
<1>12. CASE Tick
  BY <1>12, SMT DEF Tick
<1> QED
  BY <1>1, <1>2, <1>3, <1>4, <1>5, <1>6, <1>7, <1>8, <1>9, <1>10, <1>11, <1>12
     DEF RtcNext, RtcProgram

LEMMA RtcKept == ASSUME RtcInv, Next PROVE RtcInv'
<1>1. CASE RtcNext
  BY <1>1, RtcStep
<1>2. CASE prog # "rtc" /\ UNCHANGED rtcVars
  <2>1. prog' = prog
    BY WhoMoves DEF StepOf
  <2> QED
    BY <1>2, <2>1 DEF RtcInv, RtcTypeOK, AlarmTenAhead, At, rtcVars
<1> QED
  BY <1>1, <1>2, WhoMoves

LEMMA RtcStart == ASSUME Init PROVE RtcInv
<1>1. /\ now = 0 /\ ticks = 0 /\ args = << >> /\ tm = TimeOfDay(0) /\ alarm = 0
      /\ aie = FALSE /\ data = FALSE /\ readAt = 0 /\ setAt = 0 /\ pc = "start"
  BY DEF Init, RtcInit
<1>2. TimeOfDay(0) \in Times
  BY TimesOfDay
<1>3. 0 \in 0..RtcTicks /\ << >> \in Seq({"r", "w", "s", "?"})
  BY RtcAssumption
<1>4. 0 \in Nat
  OBVIOUS
<1> QED
  BY <1>1, <1>2, <1>3, <1>4, Zenon DEF RtcInv, RtcTypeOK, AlarmTenAhead, At

-----------------------------------------------------------------------------
(* watchdog                                                                *)

\* The device counts, below its time-out, from the opening to the reset; of the count,
\* what was not delay was slept, and what is left of the sleep is left up to the margin.
WdgInv ==
  /\ WdgTypeOK
  /\ prog = "watchdog" =>
       /\ pc \in {"start", "gettimeout", "sleep", "asleep", "stop", "exit", "reset"}
       /\ pc = "start" => ~counting /\ count = 0 /\ delay = 0 /\ feeds = 0
       /\ pc \in {"gettimeout", "sleep", "asleep", "stop"} => counting /\ timeout \in Timeouts
       /\ counting /\ pc # "reset" => count < timeout
       /\ pc = "exit" => broke
       /\ pc \in {"gettimeout", "sleep"} => count = delay
       /\ behind = "nothing" /\ timeout >= 3 /\ pc = "asleep" => left + count = timeout - 3 + delay
       /\ behind = "nothing" =>
            /\ pc \in {"gettimeout", "sleep", "asleep"} => feeds < 4
            /\ pc = "stop" => feeds = 4
  /\ FedInTime

LEMMA WdgStep == ASSUME WdgInv, WdgNext PROVE WdgInv'
<1> USE WatchdogAssumption
    DEF WdgInv, WdgTypeOK, FedInTime, At, Go, Fail, progVars, wdgVars, WDG_FEED_COUNT,
        WDG_FEED_PRE_TIMEOUT, Neighbours, WdgReturns
<1>1. CASE WdgOpen
  <2>1. /\ prog = "watchdog" /\ prog' = prog /\ behind' \in Neighbours
        /\ counting = FALSE /\ count' = 0 /\ delay' = 0 /\ feeds' = 0 /\ UNCHANGED left
    BY <1>1 DEF WdgOpen
  <2>2. CASE timeout' \in Timeouts /\ counting' = TRUE /\ Go("gettimeout")
    BY <2>1, <2>2
  <2>3. CASE Fail("exit") /\ UNCHANGED <<timeout, counting>>
    <3>1. 0 \in 0..timeout /\ 0 \in 0..0
      OBVIOUS
    <3> QED
      BY <2>1, <2>3, <3>1
  <2> QED
    BY <1>1, <2>2, <2>3 DEF WdgOpen
<1>2. CASE GetTimeout
  BY <1>2 DEF GetTimeout
<1>3. CASE Sleep
  <2>1. /\ prog = "watchdog" /\ pc = "sleep" /\ pc' = "asleep"
        /\ UNCHANGED <<prog, said, broke, timeout, feeds, behind, counting, count, delay>>
        /\ left' \in IF behind = "timeout" THEN 0..(Unsigned - 1) ELSE {(timeout - 3) % Unsigned}
    BY <1>3 DEF Sleep, SleepFor
  <2>2. timeout \in Nat /\ timeout < Unsigned
    BY <2>1
  <2>3. PICK s \in Int : s = timeout - 3
    BY <2>2
  <2>4. Unsigned \in Nat \ {0}
    BY Zenon
  <2>5. PICK q \in Int, r \in Int : /\ r = s % Unsigned
                                    /\ s = q * Unsigned + r /\ 0 <= r /\ r < Unsigned
    BY <2>4, Division, Zenon
  <2>6. left' \in 0..(Unsigned - 1)
    BY <2>1, <2>5, <2>3
  <2>7. timeout >= 3 => r = timeout - 3
    <3>1. CASE timeout >= 3
      <4>1. s \in 0..(Unsigned - 1)
        BY <2>2, <2>3, <2>4, <3>1
      <4>2. s % Unsigned = s
        BY <2>4, <4>1, SmallMod, Zenon
      <4> QED
        BY <2>5, <2>3, <4>2
    <3> QED
      BY <3>1
  <2>8. behind = "nothing" => left' = r
    BY <2>1, <2>5, <2>3
  <2> QED
    BY <2>1, <2>6, <2>7, <2>8
<1>4. CASE Feed
  <2>1. /\ prog = "watchdog" /\ pc = "asleep" /\ left = 0
        /\ UNCHANGED <<prog, said, timeout, behind, left>>
    BY <1>4 DEF Feed
  <2>2. counting = TRUE /\ timeout \in Timeouts /\ timeout \in Nat /\ timeout > 0
    BY <2>1
  <2>3. CASE /\ count' = 0 /\ delay' = 0
             /\ feeds' = IF feeds < WDG_FEED_COUNT THEN feeds + 1 ELSE feeds
             /\ \E stop \in IF behind = "i" THEN BOOLEAN ELSE {feeds' = WDG_FEED_COUNT} :
                  Go(IF stop THEN "stop" ELSE "sleep")
             /\ UNCHANGED counting
    <3>1. /\ pc' \in {"stop", "sleep"} /\ UNCHANGED <<broke, counting>>
          /\ behind = "nothing" => pc' = IF feeds' = 4 THEN "stop" ELSE "sleep"
      BY <2>3
    <3> QED
      BY <2>1, <2>2, <2>3, <3>1
  <2>4. CASE WdgReturns /\ UNCHANGED <<feeds, count, delay>>
    BY <2>1, <2>2, <2>4
  <2> QED
    BY <1>4, <2>3, <2>4 DEF Feed
<1>5. CASE Second
  BY <1>5 DEF Second
<1> QED
  BY <1>1, <1>2, <1>3, <1>4, <1>5 DEF WdgNext, WdgProgram

LEMMA WdgKept == ASSUME WdgInv, Next PROVE WdgInv'
<1>1. CASE WdgNext
  BY <1>1, WdgStep
<1>2. CASE prog # "watchdog" /\ UNCHANGED wdgVars
  <2>1. prog' = prog
    BY WhoMoves DEF StepOf
  <2> QED
    BY <1>2, <2>1 DEF WdgInv, WdgTypeOK, FedInTime, wdgVars
<1> QED
  BY <1>1, <1>2, WhoMoves

LEMMA WdgStart == ASSUME Init PROVE WdgInv
<1>1. /\ timeout = 0 /\ feeds = 0 /\ behind = "nothing" /\ left = 0 /\ counting = FALSE
      /\ count = 0 /\ delay = 0 /\ pc = "start"
  BY DEF Init, WdgInit
<1>2. 0 \in 0..4 /\ 0 \in 0..(Unsigned - 1) /\ 0 \in 0..0 /\ 0 # 4
  BY WatchdogAssumption
<1> QED
  BY <1>1, <1>2, Zenon DEF WdgInv, WdgTypeOK, FedInTime, Neighbours, WDG_FEED_COUNT

-----------------------------------------------------------------------------
(* timer_hw                                                                *)

LEMMA HalfWord == \E H \in Nat \ {0} : Word = 2 * H /\ Word \div 2 = H
<1>1. Word \in Nat \ {0} /\ Word % 2 = 0
  BY TimerHwAssumption
<1>2. PICK q \in Int, r \in Int : q = Word \div 2 /\ r = Word % 2 /\ Word = q * 2 + r
  BY <1>1, Division
<1>3. q \in Nat \ {0} /\ Word = 2 * q
  BY <1>1, <1>2
<1> QED
  BY <1>2, <1>3

\* An int is what was converted to it, some Words away.
LEMMA Wrapped ==
  ASSUME NEW n \in Int
  PROVE  ToInt(n) \in Ints /\ \E k \in Int : ToInt(n) = n - k * Word
<1>1. PICK H \in Nat \ {0} : Word = 2 * H /\ Word \div 2 = H
  BY HalfWord
<1>2. PICK m \in Int : m = n + H
  BY <1>1
<1>3. Word \in Nat \ {0}
  BY TimerHwAssumption
<1>4. PICK q \in Int, r \in Int : r = m % Word /\ m = q * Word + r /\ 0 <= r /\ r < Word
  BY <1>3, Division, Zenon
<1>5. ToInt(n) = r - H
  BY <1>1, <1>2, <1>4 DEF ToInt
<1>6. Ints = (0 - H)..(H - 1)
  BY <1>1 DEF Ints
<1>7. ToInt(n) \in Ints
  BY <1>1, <1>4, <1>5, <1>6
<1>8. ToInt(n) = n - q * Word
  BY <1>1, <1>2, <1>3, <1>4, <1>5
<1> QED
  BY <1>7, <1>8

\* Two values of an int some Words apart are the same.
LEMMA OneValue ==
  ASSUME NEW a \in Ints, NEW b \in Ints, NEW k \in Int, a = b - k * Word
  PROVE  a = b
<1>1. PICK H \in Nat \ {0} : Word = 2 * H /\ Word \div 2 = H
  BY HalfWord
<1>2. a \in (0 - H)..(H - 1) /\ b \in (0 - H)..(H - 1)
  BY <1>1 DEF Ints
<1>3. PICK w \in Int : w = k * Word
  BY <1>1
<1>4. CASE 1 <= k
  <2>1. 1 * Word <= k * Word
    BY <1>1, <1>4, Monotone
  <2> QED
    BY <1>1, <1>2, <1>3, <2>1
<1>5. CASE k <= 0 - 1
  <2>1. k * Word <= (0 - 1) * Word
    BY <1>1, <1>5, Monotone
  <2> QED
    BY <1>1, <1>2, <1>3, <2>1
<1>6. CASE k = 0
  BY <1>1, <1>2, <1>6
<1> QED
  BY <1>4, <1>5, <1>6

LEMMA FitsInt ==
  ASSUME NEW n \in Nat, n < Word \div 2
  PROVE  ToInt(n) = n /\ n % Word = n
<1>1. PICK H \in Nat \ {0} : Word = 2 * H /\ Word \div 2 = H
  BY HalfWord
<1>2. n \in Ints /\ n \in 0..(Word - 1) /\ Word \in Nat \ {0}
  BY <1>1 DEF Ints
<1>3. PICK k \in Int : ToInt(n) = n - k * Word
  BY Wrapped
<1>4. ToInt(n) \in Ints
  BY Wrapped
<1> QED
  BY <1>2, <1>3, <1>4, OneValue, SmallMod

\* A difference that an int holds survives the conversion of its terms.
LEMMA DifferenceFits ==
  ASSUME NEW c \in Nat, NEW s \in Nat, s <= c, c - s < Word \div 2
  PROVE  ToInt(ToInt(c) - ToInt(s)) = c - s
<1>1. PICK H \in Nat \ {0} : Word = 2 * H /\ Word \div 2 = H
  BY HalfWord
<1>2. PICK i \in Int : ToInt(c) = c - i * Word
  BY Wrapped
<1>3. PICK j \in Int : ToInt(s) = s - j * Word
  BY Wrapped
<1>4. PICK d \in Int : d = ToInt(c) - ToInt(s)
  BY <1>1, <1>2, <1>3
<1>5. PICK k \in Int : ToInt(d) = d - k * Word
  BY Wrapped
<1>6. ToInt(d) \in Ints
  BY Wrapped
<1>7. PICK e \in Int : e = c - s
  OBVIOUS
<1>8. e \in Ints
  BY <1>1, <1>7 DEF Ints
<1>9. PICK l \in Int : l = i - j + k
  OBVIOUS
<1>10. ToInt(d) = e - l * Word
  BY <1>1, <1>2, <1>3, <1>4, <1>5, <1>7, <1>9
<1>11. ToInt(d) = e
  BY <1>6, <1>8, <1>10, OneValue
<1> QED
  BY <1>4, <1>7, <1>11

\* The timer is due a period after it was started, and fires once; what start_time
\* holds is the time at which it was stored, as an int.
Asked == Nanoseconds(param)
Period == set_time % Word

TimInv ==
  /\ TimTypeOK
  /\ prog = "timer_hw" =>
       /\ pc \in {"start", "init", "arm", "started", "loaded", "exit"}
       /\ pc \in {"start", "init", "arm"} => fires = Off /\ said # "pass"
       /\ pc \in {"init", "arm", "started", "loaded"} => set_time = ToInt(Asked)
       /\ pc \in {"started", "loaded"} =>
            /\ begun \in Nat /\ begun <= clock
            /\ fires # Off => /\ fires = begun + Period
                              /\ clock <= fires + TimerSlack /\ said # "pass"
            /\ pc = "started" /\ fires = Off => clock >= begun + Period
       /\ pc = "loaded" =>
            stored \in Nat /\ begun <= stored /\ stored <= clock /\ start_time = ToInt(stored)
  /\ IntervalTrue

LEMMA PeriodIs ==
  ASSUME NEW p \in Params \cup {[unit |-> "no", n |-> 0]}
  PROVE  Nanoseconds(p) \in Nat
<1>1. p.n \in Nat
  BY TimerHwAssumption
<1>2. PICK n \in Nat : n = p.n
  BY <1>1
<1>3. n \div 100 \in Nat /\ n * 10 \in Nat
  BY SMT
<1> QED
  BY <1>2, <1>3 DEF Nanoseconds

LEMMA TimStep == ASSUME TimInv, TimNext PROVE TimInv'
<1>1. /\ Word \in Nat \ {0} /\ TimerSlack \in Nat /\ set_time \in Int /\ Clocks \subseteq Nat
      /\ Params \subseteq [unit : {"ms", "us", "no"}, n : Nat]
  BY TimerHwAssumption DEF TimInv, TimTypeOK, Ints
<1>2. Asked \in Nat /\ Period \in Nat /\ clock \in Nat /\ Off \notin Nat
  <2>1. Period \in Nat
    BY <1>1 DEF Period
  <2> QED
    BY <2>1, PeriodIs DEF TimInv, TimTypeOK, Off, Asked
<1>3. Asked + TimerSlack < Word \div 2 /\ set_time = ToInt(Asked) => Period = Asked
  <2>1. CASE Asked + TimerSlack < Word \div 2 /\ set_time = ToInt(Asked)
    <3>1. PICK H \in Nat : Word \div 2 = H
      BY HalfWord
    <3>2. Asked < Word \div 2
      BY <1>1, <1>2, <2>1, <3>1
    <3> QED
      BY <1>2, <2>1, <3>2, FitsInt DEF Period
  <2> QED
    BY <2>1
<1>4. ASSUME NEW p \in Params, SetTime(p) PROVE TimInv'
  <2>1. ToInt(Nanoseconds(p)) \in Ints
    BY PeriodIs, Wrapped
  <2> QED
    BY <1>1, <1>4, <2>1 DEF Asked, SetTime, TimInv, TimTypeOK, IntervalTrue, At, Go, Fail
<1>5. CASE DynamicInit
  BY <1>5 DEF DynamicInit, TimInv, TimTypeOK, Asked, Period, IntervalTrue, At, Go, Fail, timVars
<1>6. CASE StartTimer
  <2>1. /\ prog = "timer_hw" /\ pc = "arm" /\ fires' = clock + Period /\ begun' = clock
        /\ pc' = "started" /\ UNCHANGED <<prog, said, param, set_time, clock, start_time, result, stored>>
    BY <1>6 DEF StartTimer, At, Go, Period
  <2>2. TimTypeOK'
    BY <1>2, <2>1 DEF TimInv, TimTypeOK
  <2>3. /\ begun' \in Nat /\ begun' <= clock' /\ fires' # Off /\ fires' = begun' + Period'
        /\ clock' <= fires' + TimerSlack /\ said' # "pass" /\ set_time' = ToInt(Asked')
    BY <1>1, <1>2, <2>1 DEF TimInv, Asked, Period
  <2> QED
    BY <2>1, <2>2, <2>3 DEF TimInv, IntervalTrue, At
<1>7. CASE StoreStart
  <2>1. /\ prog = "timer_hw" /\ pc = "started" /\ start_time' = ToInt(clock) /\ stored' = clock
        /\ pc' = "loaded" /\ UNCHANGED <<prog, said, param, set_time, clock, fires, result, begun>>
    BY <1>7 DEF StoreStart, At, Go
  <2>2. /\ begun \in Nat /\ begun <= clock /\ set_time = ToInt(Asked)
        /\ fires # Off => fires = begun + Period /\ clock <= fires + TimerSlack /\ said # "pass"
        /\ fires = Off => clock >= begun + Period
    BY <2>1 DEF TimInv
  <2>3. TimTypeOK'
    BY <1>2, <2>1, Wrapped DEF TimInv, TimTypeOK
  <2>4. IntervalTrue'
    <3>1. SUFFICES ASSUME said = "pass", ~(Asked + TimerSlack >= Word \div 2)
                   PROVE  stored' - begun' >= Asked'
      BY <2>1 DEF IntervalTrue, At, Asked
    <3>2. PICK H \in Nat : Word \div 2 = H
      BY HalfWord
    <3>3. Period = Asked
      BY <1>1, <1>2, <1>3, <2>2, <3>1, <3>2
    <3>4. clock >= begun + Asked
      BY <2>2, <3>1, <3>3
    <3>5. stored' - begun' >= Asked
      BY <1>2, <2>1, <2>2, <3>4
    <3> QED
      BY <2>1, <3>5 DEF Asked
  <2>5. set_time' = ToInt(Asked')
    BY <2>1, <2>2 DEF Asked
  <2>6. fires' # Off => /\ fires' = begun' + Period'
                        /\ clock' <= fires' + TimerSlack /\ said' # "pass"
    BY <2>1, <2>2 DEF Period
  <2>7. begun' \in Nat /\ begun' <= clock' /\ stored' \in Nat /\ begun' <= stored' /\ stored' <= clock'
        /\ start_time' = ToInt(stored')
    BY <1>2, <2>1, <2>2
  <2> QED
    BY <2>1, <2>3, <2>4, <2>5, <2>6, <2>7 DEF TimInv
<1>8. CASE Callback
  <2>1. /\ prog = "timer_hw" /\ fires # Off /\ clock >= fires /\ fires' = Off
        /\ result' = ToInt(ToInt(clock) - start_time) /\ said' = "pass"
        /\ UNCHANGED <<prog, pc, param, set_time, clock, start_time, begun, stored>>
    BY <1>8 DEF Callback, CallbackSince
  <2>2. pc \in {"started", "loaded", "exit"} /\ TimTypeOK
    BY <2>1 DEF TimInv
  <2>3. fires \in Nat /\ start_time \in Int /\ ToInt(clock) \in Int
    BY <1>1, <1>2, <2>1, <2>2, Wrapped, TimerHwAssumption DEF TimTypeOK, Ints
  <2>4. TimTypeOK'
    <3>1. PICK d \in Int : d = ToInt(clock) - start_time
      BY <2>3
    <3>2. ToInt(d) \in Ints
      BY Wrapped
    <3> QED
      BY <2>1, <2>2, <3>1, <3>2 DEF TimTypeOK
  <2>5. IntervalTrue'
    <3>1. SUFFICES ASSUME pc = "loaded", ~(Asked + TimerSlack >= Word \div 2)
                   PROVE  result' \in (Asked - (stored - begun))..(Asked + TimerSlack)
      BY <2>1 DEF IntervalTrue, At, Asked
    <3>2. /\ begun \in Nat /\ begun <= clock /\ set_time = ToInt(Asked)
          /\ fires = begun + Period /\ clock <= fires + TimerSlack
          /\ stored \in Nat /\ begun <= stored /\ stored <= clock /\ start_time = ToInt(stored)
      BY <2>1, <3>1 DEF TimInv
    <3>3. PICK H \in Nat : Word \div 2 = H
      BY HalfWord
    <3>4. Period = Asked
      BY <1>1, <1>2, <1>3, <3>1, <3>2, <3>3
    <3>5. /\ clock - stored < Word \div 2
          /\ Asked - (stored - begun) <= clock - stored /\ clock - stored <= Asked + TimerSlack
      BY <1>1, <1>2, <2>1, <2>3, <3>1, <3>2, <3>3, <3>4
    <3>6. result' = clock - stored
      BY <1>2, <2>1, <3>2, <3>5, DifferenceFits
    <3> QED
      BY <1>1, <1>2, <3>2, <3>5, <3>6
  <2>6. pc = "started" => clock' >= begun' + Period'
    BY <1>2, <2>1, <2>3 DEF TimInv, Period
  <2> QED
    BY <2>1, <2>2, <2>4, <2>5, <2>6 DEF TimInv, Asked, Period
<1>9. CASE TimerExit
  BY <1>9 DEF TimerExit, TimInv, TimTypeOK, IntervalTrue, At, Go, Asked, Period
<1>10. CASE Pass
  <2>1. /\ prog = "timer_hw" /\ fires # Off /\ clock < fires + TimerSlack /\ clock' = clock + 1
        /\ UNCHANGED <<prog, pc, said, param, set_time, fires, start_time, result, begun, stored>>
    BY <1>10 DEF Pass, progVars
  <2>2. pc \in {"started", "loaded", "exit"} /\ TimTypeOK
    BY <2>1 DEF TimInv
  <2>3. TimTypeOK' /\ fires \in Nat
    BY <1>2, <2>1, <2>2 DEF TimTypeOK
  <2>4. IntervalTrue'
    BY <2>1 DEF TimInv, IntervalTrue, At
  <2>5. clock' <= fires' + TimerSlack /\ clock <= clock'
    BY <1>1, <1>2, <2>1, <2>3
  <2>6. /\ \A x \in Nat : x <= clock => x <= clock'
        /\ pc = "loaded" => stored <= clock'
        /\ pc \in {"started", "loaded"} => begun <= clock'
    BY <1>2, <2>1 DEF TimInv
  <2> QED
    BY <2>1, <2>2, <2>3, <2>4, <2>5, <2>6 DEF TimInv, Asked, Period
<1> QED
  BY <1>4, <1>5, <1>6, <1>7, <1>8, <1>9, <1>10 DEF TimNext, TimProgram

LEMMA TimKept == ASSUME TimInv, Next PROVE TimInv'
<1>1. CASE TimNext
  BY <1>1, TimStep
<1>2. CASE prog # "timer_hw" /\ UNCHANGED timVars
  <2>1. prog' = prog
    BY WhoMoves DEF StepOf
  <2> QED
    BY <1>2, <2>1 DEF TimInv, TimTypeOK, IntervalTrue, At, Asked, Period, timVars
<1> QED
  BY <1>1, <1>2, WhoMoves

LEMMA TimStart == ASSUME Init PROVE TimInv
<1>1. /\ param = [unit |-> "no", n |-> 0] /\ set_time = 0 /\ start_time = 0 /\ result = 0
      /\ clock = 0 /\ fires = Off /\ begun = Off /\ stored = Off
      /\ pc = "start" /\ said = "none"
  BY DEF Init, TimInit
<1>2. PICK H \in Nat \ {0} : Word = 2 * H /\ Word \div 2 = H
  BY HalfWord
<1>3. 0 \in Ints /\ 0 \in Nat
  BY <1>2 DEF Ints
<1> QED
  BY <1>1, <1>3, Zenon DEF TimInv, TimTypeOK, IntervalTrue, At

-----------------------------------------------------------------------------
(* system_timer                                                            *)

\* Reads have returned no expiration before its time; what was counted is what they
\* returned, and the program ends only with its repeat count.
StInv ==
  /\ StTypeOK
  /\ prog = "system_timer" =>
       /\ pc \in {"start", "loop", "exit"}
       /\ pc = "start" => taken = 0 /\ tot_exp = 0 /\ ~broke
       /\ taken > 0 => (taken - 1) * interval <= elapsed
       /\ ~broke => tot_exp = taken
       /\ pc = "exit" /\ ~broke => tot_exp >= max_exp

LEMMA ExpiredInTime ==
  ASSUME StTypeOK
  PROVE  Expired \in Nat \ {0} /\ (Expired - 1) * interval <= elapsed
<1>1. interval \in Nat /\ elapsed \in Nat
  BY SystemTimerAssumption DEF StTypeOK
<1>2. CASE interval = 0
  BY <1>1, <1>2 DEF Expired
<1>3. CASE interval # 0
  <2>1. PICK q \in Int, r \in Int : /\ q = elapsed \div interval
                                    /\ elapsed = q * interval + r /\ 0 <= r /\ r < interval
    BY <1>1, <1>3, Division
  <2>2. Expired = 1 + q
    BY <1>3, <2>1 DEF Expired
  <2>3. q >= 0
    <3>1. CASE q <= 0 - 1
      <4>1. q * interval <= (0 - 1) * interval
        BY <1>1, <3>1, Monotone
      <4> QED
        BY <1>1, <2>1, <4>1
    <3> QED
      BY <2>1, <3>1
  <2> QED
    BY <1>1, <2>1, <2>2, <2>3
<1> QED
  BY <1>2, <1>3

LEMMA StStep == ASSUME StInv, StNext PROVE StInv'
<1> USE SystemTimerAssumption DEF StInv, StTypeOK, At, Go, Fail, progVars, stVars
<1>1. CASE Arm
  <2>1. /\ prog = "system_timer" /\ prog' = prog
        /\ taken' = 0 /\ tot_exp' = 0 /\ ~broke /\ UNCHANGED <<elapsed, exp>>
        /\ pc' \in {"loop", "exit"} /\ (pc' = "exit" => broke')
        /\ interval' \in Nat /\ max_exp' \in Nat
    BY <1>1 DEF Arm
  <2> QED
    BY <2>1
<1>2. CASE ReadTimer
  <2>1. /\ prog = "system_timer" /\ pc = "loop" /\ UNCHANGED progVars
        /\ Expired > taken /\ exp' = Expired - taken /\ taken' = Expired
        /\ tot_exp' = tot_exp + exp'
        /\ UNCHANGED <<interval, max_exp, elapsed>>
    BY <1>2 DEF ReadTimer, ReadAdding
  <2>2. Expired \in Nat \ {0} /\ (Expired - 1) * interval <= elapsed
    BY ExpiredInTime
  <2>3. StTypeOK'
    BY <2>1, <2>2
  <2>4. (taken' - 1) * interval' <= elapsed'
    BY <2>1, <2>2
  <2>5. ~broke' => tot_exp' = taken'
    BY <2>1, <2>2
  <2> QED
    BY <2>1, <2>3, <2>4, <2>5
<1>3. CASE ReadTimerFails
  BY <1>3 DEF ReadTimerFails
<1>4. CASE LoopEnds
  BY <1>4 DEF LoopEnds
<1>5. CASE Elapse
  BY <1>5 DEF Elapse
<1> QED
  BY <1>1, <1>2, <1>3, <1>4, <1>5 DEF StNext, StProgram

LEMMA StGives == ASSUME StInv PROVE ExpirationsCounted
<1>1. SUFFICES ASSUME prog = "system_timer", ~broke, pc = "exit", max_exp > 0
               PROVE  elapsed >= (max_exp - 1) * interval
  BY DEF StInv, ExpirationsCounted
<1>2. /\ taken \in Nat /\ max_exp \in Nat /\ interval \in Nat /\ elapsed \in Nat
      /\ taken >= max_exp /\ (taken > 0 => (taken - 1) * interval <= elapsed)
  BY <1>1, SystemTimerAssumption DEF StInv, StTypeOK
<1>3. (max_exp - 1) * interval <= (taken - 1) * interval
  BY <1>2, Monotone
<1> QED
  BY <1>1, <1>2, <1>3

LEMMA StKept == ASSUME StInv, Next PROVE StInv'
<1>1. CASE StNext
  BY <1>1, StStep
<1>2. CASE prog # "system_timer" /\ UNCHANGED stVars
  <2>1. prog' = prog
    BY WhoMoves DEF StepOf
  <2> QED
    BY <1>2, <2>1 DEF StInv, StTypeOK, stVars
<1> QED
  BY <1>1, <1>2, WhoMoves

LEMMA StStart == ASSUME Init PROVE StInv
<1>1. /\ interval = 0 /\ max_exp = 0 /\ elapsed = 0 /\ taken = 0 /\ exp = 0 /\ tot_exp = 0
      /\ pc = "start" /\ broke = FALSE
  BY DEF Init, StInit
<1>2. 0 \in Nat /\ 0 \in 0..MaxElapsed /\ ~(0 > 0)
  BY SystemTimerAssumption
<1> QED
  BY <1>1, <1>2, Zenon DEF StInv, StTypeOK

-----------------------------------------------------------------------------
(* vbltest                                                                 *)

\* The program is at one of some points.
VblAt(L) == prog = "vbltest" /\ pc \in L

\* No event is under way before the first request, nor between taking one and asking
\* again; once asked for, it is lost only by a failure; and the blanks exceed the events
\* by no more than the bound.
VblInv ==
  /\ VblTypeOK
  /\ VblAt({"start", "create", "setcrtc", "queue", "again"}) => event = "none"
  /\ VblAt({"count", "loop"}) /\ event = "none" => broke
  /\ Timed => vbl_count < Batch /\ frames <= Events + MaxLate
  /\ FrequencyNearTrue

LEMMA VblStep == ASSUME VblInv, VblNext PROVE VblInv'
<1> USE VblAssumption
    DEF VblInv, VblTypeOK, VblAt, FrequencyNearTrue, Events, Timed, At, Go, Fail, progVars,
        vblVars
<1>1. CASE VblOpen
  BY <1>1 DEF VblOpen
<1>2. CASE CreateFb
  BY <1>2 DEF CreateFb
<1>3. CASE SetCrtc
  BY <1>3 DEF SetCrtc
<1>4. CASE QueueEvent
  BY <1>4 DEF QueueEvent
<1>5. CASE TakeEvent
  BY <1>5 DEF TakeEvent
<1>6. CASE AskAgain
  BY <1>6 DEF AskAgain
<1>7. CASE CountEvent
  BY <1>7 DEF CountEvent, CountFrom
<1>8. CASE HandleFails
  BY <1>8 DEF HandleFails
<1>9. CASE VblKey
  BY <1>9 DEF VblKey
<1>10. CASE Vblank
  BY <1>10 DEF Vblank
<1> QED
  BY <1>1, <1>2, <1>3, <1>4, <1>5, <1>6, <1>7, <1>8, <1>9, <1>10 DEF VblNext, VblProgram

LEMMA VblKept == ASSUME VblInv, Next PROVE VblInv'
<1>1. CASE VblNext
  BY <1>1, VblStep
<1>2. CASE prog # "vbltest" /\ UNCHANGED vblVars
  <2>1. prog' = prog
    BY WhoMoves DEF StepOf
  <2> QED
    BY <1>2, <2>1 DEF VblInv, VblTypeOK, VblAt, FrequencyNearTrue, Timed, vblVars
<1> QED
  BY <1>1, <1>2, WhoMoves

LEMMA VblStart == ASSUME Init PROVE VblInv
<1>1. event = "none" /\ vbl_count = 0 /\ fb_handle = FALSE /\ frames = 0 /\ pc = "start"
  BY DEF Init, VblInit
<1>2. 0 \in 0..Batch /\ 0 \in 0..(Batch + MaxLate + 1)
  BY VblAssumption
<1> QED
  BY <1>1, <1>2 DEF VblInv, VblTypeOK, VblAt, FrequencyNearTrue, Timed

-----------------------------------------------------------------------------
(* uart                                                                    *)

\* The members of a prefix.
LEMMA PrefixIs ==
  ASSUME NEW S, NEW s \in Seq(S), NEW t \in Seq(S)
  PROVE  IsPrefix(s, t) <=> Len(s) <= Len(t) /\ \A k \in 1..Len(s) : s[k] = t[k]
<1>1. Len(s) \in Nat /\ Len(t) \in Nat
  BY LenProperties
<1>2. SubSeq(s, 1, Len(s)) = [k \in 1..Len(s) |-> s[k]]
  BY <1>1
<1>3. ASSUME Len(s) <= Len(t)
      PROVE  SubSeq(t, 1, Len(s)) = [k \in 1..Len(s) |-> t[k]]
  BY <1>1, <1>3
<1> QED
  BY <1>1, <1>2, <1>3 DEF IsPrefix

\* strlen() of the echo buffer: up to the first '\0', or to the end of what is modelled.
LEMMA StrlenIs ==
  ASSUME NEW b \in [Cells -> Bytes]
  PROVE  /\ b \in Seq(Bytes) /\ Len(b) = BufferSize + 2
         /\ Strlen(b) \in 0..(BufferSize + 2)
         /\ \A c \in 1..Strlen(b) : b[c] # Nul
         /\ Strlen(b) < BufferSize + 2 => b[Strlen(b) + 1] = Nul
<1> USE UartAssumption DEF Cells
<1>1. b \in Seq(Bytes) /\ Len(b) = BufferSize + 2
  OBVIOUS
<1> DEFINE e == b \o <<Nul>>
<1> DEFINE I == {k \in 1..Len(e) : e[k] = Nul}
<1>2. /\ Len(e) = BufferSize + 3 /\ e[BufferSize + 3] = Nul
      /\ \A k \in 1..(BufferSize + 2) : e[k] = b[k]
  BY <1>1
<1> HIDE DEF e
<1>3. I \in SUBSET Nat /\ I # {}
  BY <1>2
<1>4. Min(I) \in I /\ \A k \in I : Min(I) <= k
  BY <1>3, LeastMember
<1>5. Strlen(b) = Min(I) - 1
  BY <1>3 DEF Strlen, SelectInSeq, e
<1>6. Min(I) \in 1..(BufferSize + 3) /\ e[Min(I)] = Nul
      /\ \A k \in 1..(BufferSize + 3) : e[k] = Nul => Min(I) <= k
  BY <1>2, <1>4
<1> HIDE DEF I
<1> QED
  BY <1>1, <1>2, <1>5, <1>6

\* So far nothing happened that EchoIsFaithful excepts.
Undisturbed == prog = "uart" /\ ~damaged /\ Nul \notin ToSet(sent)

\* The buffer holds the last n characters that were read, and nothing else.
Held(n) ==
  /\ n <= got /\ Len(echoed) = got - n
  /\ \A c \in 1..n : buffer[c] = sent[got - n + c]
  /\ \A c \in (n + 1)..BufferSize : buffer[c] = Nul

\* The memset() of strlen() bytes clears all that was read: the terminator that is
\* stored one byte too far falls on a byte that is 0 already.
UartInv ==
  /\ UartTypeOK
  /\ prog = "uart" /\ pc \in {"start", "greet"} => got = 0 /\ echoed = << >>
  /\ Undisturbed =>
       /\ pc \in {"start", "greet", "read"} => \A c \in 1..BufferSize : buffer[c] = Nul
       /\ pc = "echo" => \E n \in 1..(BufferSize - 1) : Held(n)
  /\ EchoIsFaithful

LEMMA UartTypes ==
  ASSUME UartTypeOK
  PROVE  /\ BufferSize \in Nat /\ BufferSize > 0 /\ got \in Nat
         /\ sent \in Seq(Bytes) /\ Len(sent) \in Nat /\ Len(echoed) \in Nat
         /\ Nul \notin ToSet(sent) <=> \A k \in 1..Len(sent) : sent[k] # Nul
<1>1. sent \in Seq(Chars) /\ Len(sent) \in Nat /\ echoed \in Seq(Bytes) /\ Len(echoed) \in Nat
  BY LenProperties DEF UartTypeOK
<1>2. DOMAIN sent = 1..Len(sent) /\ \A k \in 1..Len(sent) : sent[k] \in Chars
  BY <1>1
<1>3. sent \in Seq(Bytes)
  BY <1>1 DEF Bytes
<1>4. Nul \notin ToSet(sent) <=> \A k \in 1..Len(sent) : sent[k] # Nul
  BY <1>2 DEF ToSet
<1> QED
  BY <1>1, <1>3, <1>4, UartAssumption DEF UartTypeOK

LEMMA SetupStep == ASSUME UartInv, Setup \/ Greet PROVE UartInv'
<1> USE DEF UartInv, At, Go, Fail
<1>1. CASE Setup
  <2> USE <1>1, UartAssumption DEF Setup
  <2>1. buffer \in [Cells -> Bytes] /\ BufferSize + 1 \in Cells /\ BufferSize + 2 \in Cells
        /\ Nul \in Bytes /\ Stack \in Bytes
    BY DEF UartTypeOK, Cells, Bytes
  <2>2. buffer' \in [Cells -> Bytes] /\ \A c \in 1..BufferSize : buffer'[c] = buffer[c]
    BY <2>1 DEF Cells
  <2>3. UartTypeOK'
    BY <2>2 DEF UartTypeOK, Bytes
  <2>4. pc' \in {"greet", "exit"} /\ UNCHANGED <<prog, sent, got, echoed, damaged>>
    OBVIOUS
  <2> QED
    BY <2>2, <2>3, <2>4 DEF Undisturbed, EchoIsFaithful
<1>2. CASE Greet
  <2>1. UartTypeOK'
    BY <1>2 DEF Greet, UartTypeOK, uartVars
  <2>2. Len(<< >>) = 0
    OBVIOUS
  <2> QED
    BY <1>2, <2>1, <2>2 DEF Greet, uartVars, Undisturbed, EchoIsFaithful
<1> QED
  BY <1>1, <1>2

LEMMA ReadStep == ASSUME UartInv, NEW n \in 1..BufferSize, Read(n) PROVE UartInv'
<1> USE DEF UartInv, Read, ReadTerminated, At, Go
<1>0. /\ BufferSize \in Nat /\ BufferSize > 0 /\ got \in Nat /\ Len(sent) \in Nat /\ n \in Nat
      /\ Len(echoed) \in Nat /\ got + n <= Len(sent) /\ got' = got + n
      /\ n <= BufferSize /\ prog = "uart" /\ pc = "read" /\ prog' = prog /\ pc' = "echo"
  BY UartTypes
<1>1. UartTypeOK'
  <2>1. \A c \in 1..n : sent[got + c] \in Chars
    BY <1>0 DEF UartTypeOK
  <2>2. \A c \in Cells : c <= n => c \in 1..n
    BY <1>0 DEF Cells
  <2>3. buffer' \in [Cells -> Bytes]
    BY <2>1, <2>2 DEF UartTypeOK, Bytes
  <2>4. got' \in 0..Len(sent)
    BY <1>0
  <2> QED
    BY <2>3, <2>4 DEF UartTypeOK
<1>2. ASSUME Undisturbed'
      PROVE  Held(n)' /\ n \in 1..(BufferSize - 1)
  <2>1. ~damaged /\ Nul \notin ToSet(sent) /\ ~(n + 2 > BufferSize)
    BY <1>2 DEF Undisturbed
  <2>2. Undisturbed
    BY <1>0, <2>1 DEF Undisturbed
  <2>3. \A c \in 1..BufferSize : buffer[c] = Nul
    BY <1>0, <2>2
  <2>4. Len(echoed) = got
    BY <1>0, <2>2 DEF EchoIsFaithful, Undisturbed
  <2>5. \A c \in 1..BufferSize :
          c \in Cells /\ buffer'[c] = IF c <= n THEN sent[got + c] ELSE Nul
    BY <1>0, <2>1, <2>3 DEF Cells
  <2>6. \A c \in 1..n : got' - n + c = got + c
    BY <1>0
  <2>7. \A c \in 1..n : c \in 1..BufferSize /\ c <= n
    BY <1>0
  <2>8. \A c \in (n + 1)..BufferSize : c \in 1..BufferSize /\ ~(c <= n)
    BY <1>0
  <2>9. \A c \in 1..n : buffer'[c] = sent[got' - n + c]
    BY <2>5, <2>6, <2>7
  <2>10. \A c \in (n + 1)..BufferSize : buffer'[c] = Nul
    BY <2>5, <2>8
  <2>11. n <= got' /\ Len(echoed) = got' - n /\ n \in 1..(BufferSize - 1)
    BY <1>0, <2>1, <2>4
  <2> QED
    BY <2>9, <2>10, <2>11 DEF Held
<1>3. EchoIsFaithful'
  BY <1>0 DEF EchoIsFaithful
<1> QED
  BY <1>0, <1>1, <1>2, <1>3

\* The first k bytes of the buffer follow what was echoed before.
LEMMA EchoGrows ==
  ASSUME UartTypeOK, NEW k \in Nat, k <= BufferSize + 2
  PROVE  LET e == echoed \o SubSeq(buffer, 1, k)
         IN /\ e \in Seq(Bytes) /\ Len(e) = Len(echoed) + k
            /\ \A c \in 1..Len(echoed) : e[c] = echoed[c]
            /\ \A c \in 1..k : e[Len(echoed) + c] = buffer[c]
<1>1. buffer \in Seq(Bytes) /\ Len(buffer) = BufferSize + 2
  BY StrlenIs DEF UartTypeOK
<1>2. BufferSize \in Nat /\ Len(echoed) \in Nat /\ echoed \in Seq(Bytes)
  BY UartTypes DEF UartTypeOK
<1> DEFINE b == SubSeq(buffer, 1, k)
<1>3. b \in Seq(Bytes) /\ Len(b) = k /\ \A c \in 1..k : b[c] = buffer[c]
  BY <1>1, <1>2
<1> HIDE DEF b
<1>4. /\ echoed \o b \in Seq(Bytes) /\ Len(echoed \o b) = Len(echoed) + k
      /\ \A c \in 1..Len(echoed) : (echoed \o b)[c] = echoed[c]
      /\ \A c \in 1..k : (echoed \o b)[Len(echoed) + c] = b[c]
  BY <1>2, <1>3
<1> QED
  BY <1>3, <1>4 DEF b

\* Of the characters held, the first k are echoed.
LEMMA EchoKeepsPrefix ==
  ASSUME UartInv, Undisturbed, NEW n \in Nat, Held(n), NEW k \in Nat, k <= n, n <= BufferSize
  PROVE  IsPrefix(echoed \o SubSeq(buffer, 1, k), sent)
<1> DEFINE e == echoed \o SubSeq(buffer, 1, k)
<1>1. /\ BufferSize \in Nat /\ got \in Nat /\ Len(echoed) \in Nat /\ Len(sent) \in Nat
      /\ sent \in Seq(Bytes) /\ echoed \in Seq(Bytes) /\ got <= Len(sent)
  BY UartTypes DEF UartInv, UartTypeOK
<1>2. /\ e \in Seq(Bytes) /\ Len(e) = Len(echoed) + k
      /\ \A c \in 1..Len(echoed) : e[c] = echoed[c]
      /\ \A c \in 1..k : e[Len(echoed) + c] = buffer[c]
  BY <1>1, EchoGrows DEF UartInv
<1> HIDE DEF e
<1>3. IsPrefix(echoed, sent)
  BY DEF UartInv, EchoIsFaithful, Undisturbed
<1>4. \A c \in 1..Len(echoed) : echoed[c] = sent[c]
  BY <1>1, <1>3, PrefixIs
<1>5. \A c \in 1..k : buffer[c] = sent[Len(echoed) + c]
  BY <1>1 DEF Held
<1>6. ASSUME NEW c \in 1..Len(e)
      PROVE  e[c] = sent[c]
  <2>1. CASE c <= Len(echoed)
    BY <1>1, <1>2, <1>4, <2>1
  <2>2. CASE c > Len(echoed)
    <3>1. PICK j \in 1..k : c = Len(echoed) + j
      <4>1. c - Len(echoed) \in 1..k /\ c = Len(echoed) + (c - Len(echoed))
        BY <1>1, <1>2, <2>2
      <4> QED
        BY <4>1
    <3> QED
      BY <1>2, <1>5, <3>1
  <2> QED
    BY <1>1, <1>2, <2>1, <2>2
<1>7. Len(e) <= Len(sent)
  BY <1>1, <1>2 DEF Held
<1> QED
  BY <1>1, <1>2, <1>6, <1>7, PrefixIs DEF e

LEMMA EchoStep == ASSUME UartInv, Echo PROVE UartInv'
<1> DEFINE n == Strlen(buffer)
<1>0. /\ BufferSize \in Nat /\ BufferSize > 0 /\ got \in Nat /\ Len(sent) \in Nat
      /\ Len(echoed) \in Nat /\ UartTypeOK
  BY UartTypes DEF UartInv
<1>1. /\ n \in 0..(BufferSize + 2)
      /\ \A c \in 1..n : buffer[c] # Nul
      /\ n < BufferSize + 2 => buffer[n + 1] = Nul
  BY <1>0, StrlenIs DEF UartTypeOK
<1>2. /\ prog = "uart" /\ pc = "echo" /\ prog' = prog /\ UNCHANGED <<sent, got>>
      /\ \/ /\ echoed' = echoed \o SubSeq(buffer, 1, n)
            /\ buffer' = [c \in Cells |-> IF c <= n THEN Nul ELSE buffer[c]]
            /\ damaged' = (damaged \/ n > BufferSize)
            /\ pc' = "read"
         \/ /\ \E k \in 0..(n - 1) : echoed' = echoed \o SubSeq(buffer, 1, k)
            /\ pc' = "exit"
            /\ UNCHANGED <<buffer, damaged>>
  BY DEF Echo, EchoClearing, At, Go, Fail
<1> HIDE DEF n
<1>3. ASSUME Undisturbed
      PROVE  Held(n) /\ n <= BufferSize
  <2>1. PICK m \in 1..(BufferSize - 1) : Held(m)
    BY <1>2, <1>3 DEF UartInv
  <2>2. buffer[m + 1] = Nul
    <3>1. m + 1 \in (m + 1)..BufferSize
      BY <1>0
    <3> QED
      BY <2>1, <3>1 DEF Held
  <2>3. ASSUME NEW c \in 1..m
        PROVE  buffer[c] # Nul
    <3>1. got - m + c \in 1..Len(sent)
      BY <1>0, <2>1 DEF Held, UartTypeOK
    <3> QED
      BY <1>0, <1>3, <2>1, <3>1, UartTypes DEF Held, Undisturbed
  <2>4. m \in Nat /\ m < BufferSize
    BY <1>0
  <2>5. ~(n < m)
    <3>1. SUFFICES ASSUME n < m PROVE FALSE
      OBVIOUS
    <3>2. n + 1 \in 1..m /\ n < BufferSize + 2
      BY <1>0, <1>1, <2>4, <3>1
    <3> QED
      BY <1>1, <2>3, <3>2
  <2>6. ~(n > m)
    <3>1. SUFFICES ASSUME n > m PROVE FALSE
      OBVIOUS
    <3>2. m + 1 \in 1..n
      BY <1>0, <1>1, <2>4, <3>1
    <3> QED
      BY <1>1, <2>2, <3>2
  <2>7. n = m
    BY <1>1, <2>4, <2>5, <2>6
  <2> QED
    BY <1>0, <2>1, <2>4, <2>7
<1>4. CASE /\ echoed' = echoed \o SubSeq(buffer, 1, n)
           /\ buffer' = [c \in Cells |-> IF c <= n THEN Nul ELSE buffer[c]]
           /\ damaged' = (damaged \/ n > BufferSize)
           /\ pc' = "read"
  <2>1. n \in Nat /\ n <= BufferSize + 2
    BY <1>0, <1>1
  <2>2. echoed' \in Seq(Bytes) /\ Len(echoed') = Len(echoed) + n
    BY <1>0, <1>4, <2>1, EchoGrows
  <2>3. buffer' \in [Cells -> Bytes]
    BY <1>0, <1>4 DEF UartTypeOK, Bytes
  <2>4. damaged' \in BOOLEAN
    BY <1>4
  <2>5. UartTypeOK'
    BY <1>0, <1>2, <2>2, <2>3, <2>4 DEF UartTypeOK
  <2>6. ASSUME Undisturbed'
        PROVE  /\ \A c \in 1..BufferSize : buffer'[c] = Nul
               /\ IsPrefix(echoed', sent) /\ Len(echoed') = got
    <3>1. Undisturbed
      BY <1>2, <1>4, <2>6 DEF Undisturbed
    <3>2. Held(n) /\ n <= BufferSize
      BY <1>3, <3>1
    <3>3. \A c \in 1..BufferSize : c \in Cells /\ (c <= n \/ c \in (n + 1)..BufferSize)
      BY <1>0, <2>1 DEF Cells
    <3>4. \A c \in 1..BufferSize : buffer'[c] = Nul
      BY <1>4, <3>2, <3>3 DEF Held
    <3>5. IsPrefix(echoed', sent)
      BY <1>4, <2>1, <3>1, <3>2, EchoKeepsPrefix
    <3>6. Len(echoed') = got
      BY <1>0, <2>1, <2>2, <3>2 DEF Held
    <3> QED
      BY <3>4, <3>5, <3>6
  <2>7. EchoIsFaithful'
    BY <1>2, <2>6 DEF EchoIsFaithful, Undisturbed
  <2> QED
    BY <1>4, <2>5, <2>6, <2>7 DEF UartInv
<1>5. CASE /\ \E k \in 0..(n - 1) : echoed' = echoed \o SubSeq(buffer, 1, k)
           /\ pc' = "exit"
           /\ UNCHANGED <<buffer, damaged>>
  <2>1. PICK k \in 0..(n - 1) : echoed' = echoed \o SubSeq(buffer, 1, k)
    BY <1>5
  <2>2. k \in Nat /\ k <= BufferSize + 2 /\ k <= n /\ n \in Nat
    BY <1>0, <1>1
  <2>3. echoed' \in Seq(Bytes)
    BY <1>0, <2>1, <2>2, EchoGrows
  <2>4. UartTypeOK'
    BY <1>0, <1>2, <1>5, <2>3 DEF UartTypeOK
  <2>5. Undisturbed' => Undisturbed
    BY <1>2, <1>5 DEF Undisturbed
  <2>6. Undisturbed' => IsPrefix(echoed', sent)
    BY <1>3, <2>1, <2>2, <2>5, EchoKeepsPrefix
  <2>7. EchoIsFaithful'
    BY <1>2, <1>5, <2>6 DEF EchoIsFaithful, Undisturbed
  <2> QED
    BY <1>5, <2>4, <2>7 DEF UartInv
<1> QED
  BY <1>2, <1>4, <1>5

LEMMA TypeStep == ASSUME UartInv, Type PROVE UartInv'
<1>1. PICK x \in Chars : sent' = Append(sent, x)
  BY DEF Type
<1>2. /\ prog = "uart" /\ pc \in {"read", "echo"} /\ Len(sent) < MaxSent
      /\ UNCHANGED <<prog, pc, got, buffer, echoed, damaged>>
  BY DEF Type, progVars
<1>3. UartTypeOK /\ sent \in Seq(Chars) /\ got \in Nat /\ Len(sent) \in Nat /\ got <= Len(sent)
      /\ sent \in Seq(Bytes) /\ echoed \in Seq(Bytes) /\ Len(echoed) \in Nat
  BY UartTypes DEF UartInv, UartTypeOK
<1>4. /\ sent' \in Seq(Chars) /\ Len(sent') = Len(sent) + 1
      /\ \A k \in 1..Len(sent) : sent'[k] = sent[k]
  BY <1>1, <1>3
<1>5. UartTypeOK'
  BY <1>2, <1>3, <1>4, UartAssumption DEF UartTypeOK
<1>6. Undisturbed' => Undisturbed
  <2>1. (Nul \notin ToSet(sent))' => \A k \in 1..Len(sent') : sent'[k] # Nul
    <3>1. DOMAIN sent' = 1..Len(sent')
      BY <1>4
    <3> QED
      BY <3>1 DEF ToSet
  <2>2. \A k \in 1..Len(sent) : k \in 1..Len(sent')
    BY <1>3, <1>4
  <2>3. (Nul \notin ToSet(sent))' => Nul \notin ToSet(sent)
    BY <1>3, <1>4, <2>1, <2>2, UartTypes
  <2> QED
    BY <1>2, <2>3 DEF Undisturbed
<1>7. ASSUME NEW n \in 1..(BufferSize - 1), Held(n)
      PROVE  Held(n)'
  <2>1. \A c \in 1..n : got - n + c \in 1..Len(sent)
    BY <1>3, <1>7, UartAssumption DEF Held
  <2> QED
    BY <1>2, <1>4, <1>7, <2>1 DEF Held
<1>8. IsPrefix(echoed, sent) => IsPrefix(echoed, sent')
  <2>1. sent' \in Seq(Bytes)
    BY <1>4 DEF Bytes
  <2>2. IsPrefix(echoed, sent) =>
          Len(echoed) <= Len(sent') /\ \A k \in 1..Len(echoed) : echoed[k] = sent'[k]
    BY <1>3, <1>4, PrefixIs
  <2> QED
    BY <1>3, <2>1, <2>2, PrefixIs
<1>9. EchoIsFaithful'
  BY <1>2, <1>6, <1>8 DEF EchoIsFaithful, Undisturbed, UartInv
<1> QED
  BY <1>2, <1>5, <1>6, <1>7, <1>9 DEF UartInv

LEMMA UartKept == ASSUME UartInv, Next PROVE UartInv'
<1>1. CASE UartNext
  <2>1. \/ Setup \/ Greet \/ (\E n \in 1..BufferSize : Read(n)) \/ Echo \/ Type
    BY <1>1 DEF UartNext, UartProgram
  <2> QED
    BY <2>1, SetupStep, ReadStep, EchoStep, TypeStep
<1>2. CASE prog # "uart" /\ UNCHANGED uartVars
  <2>1. prog' = prog
    BY WhoMoves DEF StepOf
  <2> QED
    BY <1>2, <2>1 DEF UartInv, UartTypeOK, EchoIsFaithful, Undisturbed, uartVars
<1> QED
  BY <1>1, <1>2, WhoMoves

LEMMA UartStart == ASSUME Init PROVE UartInv
<1> USE UartAssumption DEF Init, UartInit
<1>1. << >> \in Seq(Chars) /\ << >> \in Seq(Bytes) /\ Len(<< >>) = 0
  OBVIOUS
<1>2. 0 \in 0..Len(<< >>) /\ buffer \in [Cells -> Bytes]
  BY <1>1 DEF Bytes
<1>3. UartTypeOK
  <2>1. Len(<< >>) <= MaxSent
    BY <1>1
  <2> QED
    BY <1>1, <1>2, <2>1, Zenon DEF UartTypeOK
<1>4. \A c \in 1..BufferSize : buffer[c] = Nul
  BY DEF Cells
<1>5. IsPrefix(echoed, sent)
  BY <1>1 DEF IsPrefix
<1> QED
  BY <1>1, <1>3, <1>4, <1>5 DEF UartInv, EchoIsFaithful, Undisturbed

-----------------------------------------------------------------------------
(* usbh_cdc_acm                                                            *)

CdcInv == CdcTypeOK /\ AnswerPending

LEMMA CdcStep == ASSUME CdcInv, CdcNext PROVE CdcInv'
<1> USE CdcAcmAssumption DEF CdcInv, CdcTypeOK, AnswerPending, At, Go, Fail, progVars, cdcVars
<1>1. CASE CdcSetup
  BY <1>1 DEF CdcSetup
<1>2. CASE CdcWrite
  BY <1>2 DEF CdcWrite
<1>3. CASE CdcRead
  BY <1>3 DEF CdcRead
<1>4. CASE LoopBack
  BY <1>4 DEF LoopBack
<1>5. CASE UnplugAcm \/ CdcWriteFails
  BY <1>5 DEF UnplugAcm, CdcWriteFails
<1> QED
  BY <1>1, <1>2, <1>3, <1>4, <1>5 DEF CdcNext, CdcProgram

LEMMA CdcKept == ASSUME CdcInv, Next PROVE CdcInv'
<1>1. CASE CdcNext
  BY <1>1, CdcStep
<1>2. CASE prog # "cdc_acm" /\ UNCHANGED cdcVars
  <2>1. prog' = prog
    BY WhoMoves DEF StepOf
  <2> QED
    BY <1>2, <2>1 DEF CdcInv, CdcTypeOK, AnswerPending, At, cdcVars
<1> QED
  BY <1>1, <1>2, WhoMoves

LEMMA CdcStart == ASSUME Init PROVE CdcInv
  BY CdcAcmAssumption DEF Init, CdcInit, CdcInv, CdcTypeOK, AnswerPending, At

-----------------------------------------------------------------------------
(* voltage                                                                 *)

\* The voltage changes only while the board sleeps, and then to the other one.
VolInv ==
  /\ VolTypeOK
  /\ prog = "voltage" =>
       /\ said = "pass" => pc = "exit"
       /\ pc \in {"set", "sleep"} => vol = vol_before /\ ~slept
       /\ pc \in {"sleep", "check"} => target # vol_before
       /\ pc = "check" => vol = IF slept THEN target ELSE vol_before
  /\ PassMeansChanged

LEMMA VolStep == ASSUME VolInv, VolProgram PROVE VolInv'
<1> USE DEF VolInv, VolTypeOK, PassMeansChanged, At, Go, Fail, Say, Voltages, VOL_09, VOL_10,
            Unknown, volVars
<1>1. CASE SetFrequency
  BY <1>1 DEF SetFrequency
<1>2. CASE GetBefore
  <2>1. \/ vol_before' = vol /\ Go("set")
        \/ vol_before' \in {vol_before, Unknown} /\ Fail("exit")
    BY <1>2 DEF GetBefore, Reading
  <2>2. /\ prog = "voltage" /\ pc = "get" /\ slept' = FALSE
        /\ UNCHANGED <<vol, target, val>>
    BY <1>2 DEF GetBefore
  <2>3. VolTypeOK'
    BY <2>1, <2>2
  <2>4. said' # "pass" /\ prog' = prog
    BY <2>1, <2>2
  <2> QED
    BY <2>1, <2>2, <2>3, <2>4
<1>3. CASE SetVoltage
  BY <1>3 DEF SetVoltage
<1>4. CASE Sleeps
  BY <1>4 DEF Sleeps, Asleep
<1>5. CASE StaysAwake
  BY <1>5 DEF StaysAwake, Asleep
<1>6. CASE Check
  BY <1>6 DEF Check, CheckAgainst, Reading
<1> QED
  BY <1>1, <1>2, <1>3, <1>4, <1>5, <1>6 DEF VolProgram

LEMMA VolKept == ASSUME VolInv, Next PROVE VolInv'
<1>1. CASE VolProgram
  BY <1>1, VolStep
<1>2. CASE prog # "voltage" /\ UNCHANGED volVars
  <2>1. prog' = prog
    BY WhoMoves DEF StepOf
  <2> QED
    BY <1>2, <2>1 DEF VolInv, VolTypeOK, PassMeansChanged, volVars
<1> QED
  BY <1>1, <1>2, WhoMoves

LEMMA VolStart == ASSUME Init PROVE VolInv
  BY DEF Init, VolInit, VolInv, VolTypeOK, PassMeansChanged, Voltages, VOL_09, VOL_10, Unknown

-----------------------------------------------------------------------------
(* The one-shot programs                                                   *)

Call(p, k) == Script[p][k].call
Uses(p, k) == Call(p, k) \notin {"args", "open", "close", "pass"}
Careless == {"audio_pll", "captouch"}           \* do not look at open()
Strict == {"sdioh", "ir", "adc", "thermal"}     \* look at every call that may fail

\* What the scripts have in common, call by call: a use of the descriptor follows a
\* checked open or another use; strict programs leave only close and the message
\* unchecked, and nothing that may fail follows the message; a script that ends
\* ends closed.
ScriptOK(p, k) ==
  /\ k + 1 <= Len(Script[p]) /\ Uses(p, k + 1) /\ p \notin Careless =>
       Uses(p, k) \/ (Call(p, k) = "open" /\ Script[p][k].checked)
  /\ LoopFrom[p] # 0 => p \in {"misc", "captouch"} /\ Uses(p, LoopFrom[p])
  /\ LoopFrom[p] # 0 /\ k = Len(Script[p]) => Uses(p, k)
  /\ p \in Strict => Script[p][k].checked \/ Call(p, k) \in {"close", "pass"}
  /\ p \in Strict /\ k + 1 <= Len(Script[p]) /\ Call(p, k) = "pass" =>
       k + 1 = Len(Script[p]) /\ Call(p, k + 1) = "close"
  /\ p \in {"misc", "captouch"} => Call(p, k) # "pass"
  /\ k + 1 = Len(Script[p]) /\ Call(p, k + 1) = "pass" /\ p # "kmstest" => Call(p, k) = "close"
  /\ k = Len(Script[p]) /\ LoopFrom[p] = 0 => Call(p, k) \in {"close", "pass"}
  /\ Call(p, k) = "args" => Script[p][k].checked /\ k + 1 <= Len(Script[p])
  /\ Call(p, k) = "fill" => p = "thermal"

LEMMA ShortScripts ==
  ASSUME NEW p \in OneShots \ {"adc"}
  PROVE  /\ Len(Script[p]) \in 2..7 /\ LoopFrom[p] \in 0..Len(Script[p])
         /\ Call(p, 1) \in {"args", "open"}
         /\ \A k \in 1..Len(Script[p]) : ScriptOK(p, k)
<1> USE DEF ScriptOK, Call, Uses, Careless, Strict, Checked, Ignored
<1>1. LoopFrom[p] = CASE p = "misc" -> 4 [] p = "captouch" -> 2 [] OTHER -> 0
  BY DEF LoopFrom
<1>2. CASE p = "sdioh"
  <2>1. Script[p] = SdiohScript
    BY <1>2 DEF Script
  <2> QED
    BY <1>1, <1>2, <2>1 DEF SdiohScript
<1>3. CASE p = "ir"
  <2>1. Script[p] = IrScript
    BY <1>3 DEF Script
  <2> QED
    BY <1>1, <1>3, <2>1 DEF IrScript
<1>4. CASE p = "thermal"
  <2>1. Script[p] = ThermalScript
    BY <1>4 DEF Script
  <2> QED
    BY <1>1, <1>4, <2>1 DEF ThermalScript, ThermalWith
<1>5. CASE p = "audio_pll"
  <2>1. Script[p] = AudioPllScript
    BY <1>5 DEF Script
  <2> QED
    BY <1>1, <1>5, <2>1 DEF AudioPllScript
<1>6. CASE p = "misc"
  <2>1. Script[p] = MiscScript
    BY <1>6 DEF Script
  <2> QED
    BY <1>1, <1>6, <2>1 DEF MiscScript
<1>7. CASE p = "captouch"
  <2>1. Script[p] = CaptouchScript
    BY <1>7 DEF Script
  <2> QED
    BY <1>1, <1>7, <2>1 DEF CaptouchScript
<1>8. CASE p = "kmstest"
  <2>1. Script[p] = KmstestScript
    BY <1>8 DEF Script
  <2> QED
    BY <1>1, <1>8, <2>1 DEF KmstestScript
<1> QED
  BY <1>2, <1>3, <1>4, <1>5, <1>6, <1>7, <1>8, OneShotsAre

LEMMA AdcScriptIs ==
  /\ Len(AdcScript) = 11
  /\ AdcScript[1] = Checked("args")
  /\ \A k \in {2, 5, 8} : AdcScript[k] = Checked("open") /\ AdcScript[k + 1] = Checked("read")
                          /\ AdcScript[k + 2] = Ignored("close")
  /\ AdcScript[11] = Ignored("pass")
  BY DEF AdcScript

LEMMA Scripts ==
  ASSUME NEW p \in OneShots
  PROVE  /\ Len(Script[p]) \in 2..11 /\ LoopFrom[p] \in 0..Len(Script[p])
         /\ Call(p, 1) \in {"args", "open"}
         /\ \A k \in 1..Len(Script[p]) : ScriptOK(p, k)
<1>1. CASE p # "adc"
  BY <1>1, ShortScripts
<1>2. CASE p = "adc"
  <2>1. Script[p] = AdcScript /\ LoopFrom[p] = 0
    BY <1>2 DEF Script, LoopFrom, OneShots
  <2>2. ASSUME NEW k \in 1..11
        PROVE  ScriptOK(p, k)
    <3>1. \/ k = 1 \/ k \in {2, 5, 8} \/ k \in {3, 6, 9} \/ k \in {4, 7} \/ k = 10 \/ k = 11
      OBVIOUS
    <3> QED
      BY <1>2, <2>1, <3>1, AdcScriptIs
         DEF ScriptOK, Call, Uses, Careless, Strict, Checked, Ignored
  <2> QED
    BY <2>1, <2>2, AdcScriptIs DEF Call, Checked
<1> QED
  BY <1>1, <1>2

\* A use finds the descriptor open; a strict program goes on only while nothing has
\* failed, and after its message has nothing left but to close.
OneInv ==
  /\ OneTypeOK
  /\ prog \in OneShots =>
       /\ step \in 1..Len(Script[prog])
       /\ pc \in {"start", "exit", "fault"}
       /\ pc = "start" /\ Uses(prog, step) /\ prog \notin Careless => fd = "open"
       /\ pc = "start" /\ prog \in Strict => ~broke
       /\ pc = "start" /\ prog \in Strict /\ said = "pass" =>
            step = Len(Script[prog]) /\ Call(prog, step) = "close"
       /\ pc = "start" /\ step = Len(Script[prog]) /\ Call(prog, step) = "pass"
            /\ prog # "kmstest" => fd = "closed"
       /\ prog \in {"misc", "captouch"} => said # "pass"
  /\ MessageIsEarned

LEMMA OneStep == ASSUME OneInv, OneProgram PROVE OneInv'
<1> DEFINE n == Len(Script[prog])
           c == Call(prog, step)
           chk == Script[prog][step].checked
           on == step < n \/ LoopFrom[prog] # 0
           last == step' = n
           next == Call(prog, step')
           uses == Uses(prog, step) /\ prog \notin Careless
           usesNext == Uses(prog, step') /\ prog \notin Careless
<1>1. prog \in OneShots /\ pc = "start" /\ prog' = prog
  BY DEF OneProgram, OneArgs, OneOpen, OneUse, OneClose, OnePass, Go, Fail, Say
<1>2. n \in 2..11 /\ step \in 1..n /\ LoopFrom[prog] \in 0..n /\ ScriptOK(prog, step)
  BY <1>1, Scripts DEF OneInv
<1>3. step' = IF step < n THEN step + 1 ELSE IF LoopFrom[prog] # 0 THEN LoopFrom[prog] ELSE step
  BY DEF OneProgram, OneArgs, OneOpen, OneUse, OneClose, OnePass, Advance
<1>4. /\ Follow(prog, TRUE) = IF chk \/ ~on THEN "exit" ELSE "start"
      /\ Follow(prog, FALSE) = IF on THEN "start" ELSE "exit"
  BY DEF Follow
<1>5. /\ on /\ usesNext => uses \/ (c = "open" /\ chk)
      /\ on /\ last /\ next = "pass" /\ prog # "kmstest" => c = "close"
      /\ prog \in Strict => chk \/ c \in {"close", "pass"}
      /\ prog \in Strict /\ on /\ c = "pass" => last /\ next = "close"
      /\ prog \in Strict /\ on => step # n
      /\ prog \in {"misc", "captouch"} => c # "pass"
      /\ ~on => c \in {"close", "pass"} /\ step = n
      /\ c = "args" => chk /\ on
      /\ c = "fill" => prog = "thermal"
  <2>1. CASE step < n
    <3>1. step' = step + 1 /\ step + 1 <= n /\ step # n /\ on
      BY <1>2, <1>3, <2>1
    <3> QED
      BY <1>2, <3>1 DEF ScriptOK
  <2>2. CASE step = n /\ LoopFrom[prog] # 0
    <3>1. step' = LoopFrom[prog]
      BY <1>2, <1>3, <2>2
    <3> QED
      BY <1>2, <2>2, <3>1 DEF ScriptOK, Strict, Uses
  <2>3. CASE step = n /\ LoopFrom[prog] = 0
    BY <1>2, <2>3 DEF ScriptOK
  <2> QED
    BY <1>2, <2>1, <2>2, <2>3
<1>6. Uses(prog, step) <=> c \notin {"args", "open", "close", "pass"}
  BY DEF Uses
<1>7. step' \in 1..n /\ step' \in 1..11
  <2> HIDE DEF n
  <2> QED
    BY <1>2, <1>3
<1>8. /\ misuse \in BOOLEAN /\ fd \in {"none", "open", "bad", "closed"}
      /\ uses => fd = "open"
      /\ prog \in Strict => ~broke
      /\ prog \in Strict /\ said = "pass" => step = n /\ c = "close"
      /\ step = n /\ c = "pass" /\ prog # "kmstest" => fd = "closed"
      /\ prog \in {"misc", "captouch"} => said # "pass"
      /\ said = "pass" /\ broke => prog \in {"audio_pll", "kmstest"}
      /\ misuse => prog \in {"audio_pll", "captouch"}
  BY <1>1 DEF OneInv, OneTypeOK, MessageIsEarned
<1>9. SUFFICES /\ misuse' \in BOOLEAN /\ fd' \in {"none", "open", "bad", "closed"}
               /\ pc' \in {"start", "exit", "fault"}
               /\ pc' = "start" /\ usesNext => fd' = "open"
               /\ pc' = "start" /\ prog \in Strict => ~broke'
               /\ pc' = "start" /\ prog \in Strict /\ said' = "pass" => last /\ next = "close"
               /\ pc' = "start" /\ last /\ next = "pass" /\ prog # "kmstest" => fd' = "closed"
               /\ prog \in {"misc", "captouch"} => said' # "pass"
               /\ said' = "pass" /\ broke' => prog \in {"audio_pll", "kmstest"}
               /\ misuse' => prog \in {"audio_pll", "captouch"}
               /\ pc' = "fault" => prog \in {"audio_pll", "thermal"}
               /\ pc' = "exit" /\ ~broke' => fd' = "closed" \/ prog = "kmstest"
  <2>1. Call(prog, step)' = next /\ Uses(prog, step)' = Uses(prog, step')
    BY <1>1 DEF Call, Uses
  <2> QED
    BY <1>1, <1>7, <2>1 DEF OneInv, OneTypeOK, MessageIsEarned
<1>10. Script[prog][step].call = c
  BY DEF Call
<1>11. OneShots = {"sdioh", "ir", "adc", "thermal", "audio_pll", "misc", "captouch", "kmstest"}
  BY OneShotsAre
<1> HIDE DEF n, c, chk, on, last, next, uses, usesNext
<1>12. (uses <=> Uses(prog, step) /\ prog \notin {"audio_pll", "captouch"}) /\ (on \/ ~on)
  BY DEF uses, Careless
<1> USE <1>1, <1>4, <1>5, <1>6, <1>8, <1>10, <1>11, <1>12 DEF Go, Fail, Say, Strict
<1>13. CASE OneArgs
  BY <1>13 DEF OneArgs
<1>14. CASE OneOpen
  <2>1. c = "open" /\ UNCHANGED <<misuse, said>> /\ on
    BY <1>14 DEF OneOpen
  <2>2. CASE fd' = "open" /\ Go(Follow(prog, FALSE))
    <3>1. pc' = "start" /\ (broke' <=> broke)
      BY <2>1, <2>2
    <3> QED
      BY <2>1, <2>2, <3>1
  <2>3. CASE fd' = "bad" /\ Fail(Follow(prog, TRUE))
    <3>1. broke' = TRUE /\ pc' = IF chk THEN "exit" ELSE "start"
      BY <2>1, <2>3
    <3>2. said = "pass" => prog \notin Strict
      BY <2>1
    <3> QED
      BY <2>1, <2>3, <3>1, <3>2
  <2> QED
    BY <1>14, <2>2, <2>3 DEF OneOpen
<1>15. CASE OneUse
  <2>1. /\ c \notin {"args", "open", "close", "pass"} /\ UNCHANGED <<fd, said>> /\ on
        /\ misuse' = (misuse \/ fd # "open")
    BY <1>15 DEF OneUse
  <2>2. misuse' \in BOOLEAN /\ (misuse' => prog \in {"audio_pll", "captouch"})
    BY <2>1
  <2>3. CASE fd = "open" /\ Go(Follow(prog, FALSE))
    <3>1. pc' = "start" /\ (broke' <=> broke)
      BY <2>1, <2>3
    <3> QED
      BY <2>1, <2>2, <2>3, <3>1
  <2>4. CASE Fail(Follow(prog, TRUE))
    <3>1. broke' = TRUE /\ pc' = IF chk THEN "exit" ELSE "start"
      BY <2>1, <2>4
    <3>2. said = "pass" => prog \notin Strict
      BY <2>1
    <3> QED
      BY <2>1, <2>2, <2>4, <3>1, <3>2
  <2>5. CASE c = "fill" /\ Go("fault")
    <3>1. pc' = "fault" /\ (broke' <=> broke) /\ prog = "thermal"
      BY <2>1, <2>5
    <3> QED
      BY <2>1, <2>2, <2>5, <3>1
  <2> QED
    BY <1>15, <2>3, <2>4, <2>5 DEF OneUse
<1>16. CASE OneClose
  <2>1. /\ c = "close" /\ fd' = "closed" /\ UNCHANGED <<misuse, said, broke>>
        /\ pc' = IF on THEN "start" ELSE "exit"
    BY <1>16 DEF OneClose
  <2>2. usesNext => ~on
    BY <2>1
  <2>3. prog \in Strict /\ said = "pass" => ~on
    BY <2>1
  <2> QED
    BY <2>1, <2>2, <2>3
<1>17. CASE OnePass
  BY <1>17 DEF OnePass
<1> QED
  BY <1>13, <1>14, <1>15, <1>16, <1>17 DEF OneProgram

LEMMA OneKept == ASSUME OneInv, Next PROVE OneInv'
<1>1. CASE OneProgram
  BY <1>1, OneStep
<1>2. CASE prog \notin OneShots /\ UNCHANGED oneVars
  <2>1. prog' = prog
    BY WhoMoves DEF StepOf
  <2> QED
    BY <1>2, <2>1 DEF OneInv, OneTypeOK, MessageIsEarned, oneVars
<1> QED
  BY <1>1, <1>2, WhoMoves

LEMMA OneStart == ASSUME Init PROVE OneInv
<1>1. /\ step = 1 /\ fd = "none" /\ misuse = FALSE
      /\ pc = "start" /\ said = "none" /\ broke = FALSE
  BY DEF Init, OneInit
<1>2. OneTypeOK
  <2>1. 1 \in 1..11
    OBVIOUS
  <2> QED
    BY <1>1, <2>1, Zenon DEF OneTypeOK
<1>3. ASSUME prog \in OneShots
      PROVE  step \in 1..Len(Script[prog]) /\ ~Uses(prog, step) /\ step # Len(Script[prog])
  <2>1. Len(Script[prog]) \in 2..11 /\ Call(prog, 1) \in {"args", "open"}
    BY <1>3, Scripts
  <2>2. ~Uses(prog, 1)
    BY <2>1 DEF Uses
  <2> QED
    <3>1. 1 \in 1..Len(Script[prog]) /\ 1 # Len(Script[prog])
      <4>1. \A n \in 2..11 : 1 \in 1..n /\ 1 # n
        OBVIOUS
      <4> QED
        BY <2>1, <4>1, Zenon
    <3> QED
      BY <1>1, <2>2, <3>1, Zenon
<1> QED
  BY <1>1, <1>2, <1>3 DEF OneInv, MessageIsEarned

-----------------------------------------------------------------------------
(* spi                                                                     *)

\* Where a process may be once the master has clocked its message.
Served == {"output", "compare", "done", "error"}

\* What a process that receives has in its buffer then.
Heard(r) ==
  IF clean[r] /\ SameData(r) THEN OnWire(Peer(r)) ELSE Junk

\* What a process promises: the word it printed agrees with its buffer, and the buffer
\* with the exchange.  An exchange over a clean wire met an armed peer.
SpiAt(r) ==
  /\ at[r] \in {"message", "armed"} \cup Served => opt[r].source \in Sources
  /\ word[r] = "success" => at[r] = "done" /\ (opt[r].type = TRANSFER_TX_ONLY
                                                \/ rx[r] = opt[r].source)
  /\ word[r] = "error" => at[r] = "error" /\ (opt[r].type = TRANSFER_TX_ONLY
                                               \/ rx[r] # opt[r].source)
  /\ at[r] \in Served /\ opt[r].type # TRANSFER_TX_ONLY => rx[r] = Heard(r)
  /\ clean[r] => at[r] \in Served \cup {"abort"}
  /\ clean[r] => at[Peer(r)] \in Served \cup {"abort", "armed"}

\* The slave has its message only after the master has clocked.
ClockedByMaster ==
  clean["SLAVE"] \/ at["SLAVE"] \in Served => at["MASTER"] \in Served \cup {"abort"}

SpiInv == SpiTypeOK /\ (\A r \in Roles : SpiAt(r)) /\ ClockedByMaster

LEMMA PeerIs ==
  ASSUME NEW r \in Roles
  PROVE  /\ Peer(r) \in Roles /\ Peer(r) # r /\ Peer(Peer(r)) = r
         /\ \A q \in Roles : q = r \/ q = Peer(r)
  BY DEF Roles, Peer

LEMMA SourcesAre == Sources = {"p", "i", "l", "d"}
  BY DEF Sources

\* The fields of an option record.
LEMMA OptionFields ==
  ASSUME NEW o \in SpiOptions
  PROVE  o.type \in Types /\ o.source \in Sources \cup {"p+i"} /\ o.len \in Nat
  BY SpiAssumption

\* The verdicts follow from what is in the buffers.
LEMMA VerdictsFollow == ASSUME SpiInv PROVE SpiVerdictIsMutual
<1> SUFFICES ASSUME NEW r \in Roles
             PROVE  LET mine == opt[r]
                        peer == opt[Peer(r)]
                        heard == clean[r] /\ SameData(r) /\ peer.type # TRANSFER_RX_ONLY
                        duplex == mine.type = TRANSFER_FULL_DUPLEX
                                  /\ peer.type = TRANSFER_FULL_DUPLEX
                    IN /\ word[r] = "success" /\ mine.type # TRANSFER_TX_ONLY => heard
                       /\ word[r] = "error" => mine.type = TRANSFER_TX_ONLY \/ ~heard
                       /\ word[r] = "error" /\ word[Peer(r)] = "success" /\ duplex =>
                            ~clean[r] \/ mine.len > peer.len
  BY DEF SpiVerdictIsMutual
<1>1. Peer(r) \in Roles /\ Peer(Peer(r)) = r
  BY PeerIs
<1>2. SpiAt(r) /\ SpiAt(Peer(r))
  BY <1>1 DEF SpiInv
<1>3. \A s \in Sources : s # "zero" /\ s # Junk
  BY SourcesAre DEF Junk
<1>4. opt[r].len \in Nat /\ opt[Peer(r)].len \in Nat
  BY <1>1, OptionFields DEF SpiInv, SpiTypeOK
<1> USE DEF TRANSFER_FULL_DUPLEX, TRANSFER_TX_ONLY, TRANSFER_RX_ONLY
<1>5. ASSUME word[r] = "success", opt[r].type # TRANSFER_TX_ONLY
      PROVE  clean[r] /\ SameData(r) /\ opt[Peer(r)].type # TRANSFER_RX_ONLY
  BY <1>2, <1>3, <1>5 DEF SpiAt, Heard, OnWire, Served
<1>6. ASSUME word[r] = "error", opt[r].type # TRANSFER_TX_ONLY, clean[r], SameData(r)
      PROVE  opt[Peer(r)].type = TRANSFER_RX_ONLY
  BY <1>2, <1>6 DEF SpiAt, Heard, OnWire, Served, SameData
<1>7. ASSUME word[Peer(r)] = "success", opt[Peer(r)].type # TRANSFER_TX_ONLY
      PROVE  opt[r].source = opt[Peer(r)].source
  BY <1>1, <1>2, <1>3, <1>7 DEF SpiAt, Heard, OnWire, Served, SameData
<1>8. ~(opt[r].len <= opt[Peer(r)].len) => opt[r].len > opt[Peer(r)].len
  BY <1>4
<1> QED
  BY <1>5, <1>6, <1>7, <1>8 DEF SameData

LEMMA SpiParse == ASSUME SpiInv, NEW r \in Roles, ParseOpts(r) PROVE SpiInv'
<1> DEFINE q == Peer(r)
<1>0. q \in Roles /\ q # r /\ Peer(q) = r /\ \A s \in Roles : s = r \/ s = q
  BY PeerIs
<1>1. PICK o \in SpiOptions :
        /\ opt' = [opt EXCEPT ![r] = o]
        /\ rx' = [rx EXCEPT ![r] = IF o.source = "d" THEN "zero" ELSE Junk]
  BY DEF ParseOpts
<1>2. at[r] = "off" /\ at' = [at EXCEPT ![r] = "open"] /\ UNCHANGED <<word, clean>>
  BY DEF ParseOpts, Move
<1> HIDE DEF q
<1>3. SpiTypeOK'
  BY <1>1, <1>2 DEF SpiInv, SpiTypeOK
<1>4. /\ at'[r] = "open" /\ at'[q] = at[q] /\ opt'[q] = opt[q] /\ rx'[q] = rx[q]
      /\ word' = word /\ clean' = clean
  BY <1>0, <1>1, <1>2 DEF SpiInv, SpiTypeOK
<1>5. SpiAt(r) /\ SpiAt(q)
  BY <1>0 DEF SpiInv
<1>6. ~clean[r] /\ ~clean[q] /\ word[r] # "success" /\ word[r] # "error"
  BY <1>0, <1>2, <1>5 DEF SpiAt, Served, q
<1>7. SpiAt(r)'
  BY <1>4, <1>6 DEF SpiAt, Served
<1>8. Heard(q)' = Heard(q)
  BY <1>4, <1>6 DEF Heard
<1>9. SpiAt(q)'
  BY <1>4, <1>5, <1>6, <1>8 DEF SpiAt
<1>10. ClockedByMaster'
  BY <1>0, <1>2, <1>4 DEF SpiInv, ClockedByMaster, Served, Roles
<1> QED
  BY <1>0, <1>3, <1>7, <1>9, <1>10 DEF SpiInv

\* A process moves on and may print its word; buffers, options and wire are left alone.
LEMMA SpiGoesOn ==
  ASSUME SpiInv, NEW r \in Roles, UNCHANGED <<opt, rx, clean>>,
         NEW x, at' = [at EXCEPT ![r] = x],
         NEW w \in {"none", "success", "error"}, word' = [word EXCEPT ![r] = w],
         \/ at[r] \notin Served \cup {"armed"} /\ word[r] = w
              /\ x \in {"select", "message", "armed", "abort", "fault"}
         \/ at[r] = "output" /\ x \in {"compare", "abort"} /\ word[r] = w
         \/ at[r] = "compare" /\ x = "done" /\ w = "none"
         \/ at[r] = "compare" /\ x = "done" /\ w = "success"
              /\ (opt[r].type = TRANSFER_TX_ONLY \/ rx[r] = opt[r].source)
         \/ at[r] = "compare" /\ x = "error" /\ w = "error"
              /\ (opt[r].type = TRANSFER_TX_ONLY \/ rx[r] # opt[r].source),
         x \in {"message", "armed"} => opt[r].source \in Sources,
         at[r] = "abort" => x = "abort"
  PROVE  SpiInv'
<1> DEFINE q == Peer(r)
<1>0. q \in Roles /\ q # r /\ Peer(q) = r /\ \A s \in Roles : s = r \/ s = q
  BY PeerIs
<1>1. SpiTypeOK'
  BY DEF SpiInv, SpiTypeOK, SpiEnded
<1>2. /\ at'[r] = x /\ at'[q] = at[q] /\ word'[r] = w /\ word'[q] = word[q]
      /\ opt' = opt /\ rx' = rx /\ clean' = clean
  BY <1>0 DEF SpiInv, SpiTypeOK
<1> HIDE DEF q
<1>3. SpiAt(r) /\ SpiAt(q)
  BY <1>0 DEF SpiInv
<1>4. Heard(r)' = Heard(r) /\ Heard(q)' = Heard(q)
  BY <1>2 DEF Heard, OnWire, SameData
<1>5. SpiAt(r)'
  BY <1>0, <1>2, <1>3, <1>4 DEF SpiAt, Served, q
<1>6. SpiAt(q)'
  BY <1>0, <1>2, <1>3, <1>4 DEF SpiAt, Served
<1>7. ClockedByMaster'
  BY <1>0, <1>2, <1>3 DEF SpiInv, ClockedByMaster, SpiAt, Served, Roles
<1> QED
  BY <1>0, <1>1, <1>5, <1>6, <1>7 DEF SpiInv

LEMMA SpiProgramStep == ASSUME SpiInv, NEW r \in Roles, SpiProgram(r) PROVE SpiInv'
<1>0. /\ word[r] \in {"none", "success", "error"}
      /\ word = [word EXCEPT ![r] = word[r]]
      /\ opt[r].source \in Sources \cup {"p+i"} /\ SpiAt(r)
  BY OptionFields DEF SpiInv, SpiTypeOK
<1>1. CASE ParseOpts(r)
  BY <1>1, SpiParse
<1>2. CASE OpenDevice(r)
  <2>1. \E x \in {"select", "abort"} : at[r] = "open" /\ at' = [at EXCEPT ![r] = x]
    BY <1>2 DEF OpenDevice, Move
  <2>2. UNCHANGED <<opt, rx, clean>> /\ word' = [word EXCEPT ![r] = word[r]]
    BY <1>0, <1>2 DEF OpenDevice
  <2> QED
    BY <1>0, <2>1, <2>2, SpiGoesOn DEF Served
<1>3. CASE Select(r)
  <2>1. \E x \in {"abort", "fault", "message"} :
          /\ at[r] = "select" /\ at' = [at EXCEPT ![r] = x]
          /\ x = "message" => opt[r].source # "p+i"
    BY <1>3 DEF Select, Move, Unescape
  <2>2. UNCHANGED <<opt, rx, clean>> /\ word' = [word EXCEPT ![r] = word[r]]
    BY <1>0, <1>3 DEF Select
  <2>3. opt[r].source # "p+i" => opt[r].source \in Sources
    BY <1>0
  <2> QED
    BY <1>0, <2>1, <2>2, <2>3, SpiGoesOn DEF Served
<1>4. CASE Message(r)
  <2>1. \E x \in {"armed", "abort"} : at[r] = "message" /\ at' = [at EXCEPT ![r] = x]
    BY <1>4 DEF Message, Move
  <2>2. UNCHANGED <<opt, rx, clean>> /\ word' = [word EXCEPT ![r] = word[r]]
    BY <1>0, <1>4 DEF Message
  <2>3. opt[r].source \in Sources
    BY <1>0, <2>1 DEF SpiAt
  <2> QED
    BY <1>0, <2>1, <2>2, <2>3, SpiGoesOn DEF Served
<1>5. CASE WriteOutput(r)
  <2>1. \E x \in {"compare", "abort"} : at[r] = "output" /\ at' = [at EXCEPT ![r] = x]
    BY <1>5 DEF WriteOutput, Move
  <2>2. UNCHANGED <<opt, rx, clean>> /\ word' = [word EXCEPT ![r] = word[r]]
    BY <1>0, <1>5 DEF WriteOutput
  <2> QED
    BY <1>0, <2>1, <2>2, SpiGoesOn
<1>6. CASE Compare(r)
  <2>1. UNCHANGED <<opt, rx, clean>> /\ at[r] = "compare"
    BY <1>6 DEF Compare, CompareIf, Move
  <2>2. word[r] = "none"
    BY <1>0, <2>1 DEF SpiAt
  <2>3. PICK x \in {"done", "error"}, w \in {"none", "success", "error"} :
          /\ at' = [at EXCEPT ![r] = x] /\ word' = [word EXCEPT ![r] = w]
          /\ \/ x = "done" /\ w = "none"
             \/ /\ x = "done" /\ w = "success"
                /\ opt[r].type = TRANSFER_TX_ONLY \/ rx[r] = opt[r].source
             \/ x = "error" /\ w = "error" /\ rx[r] # opt[r].source
    <3>1. word' = word => word' = [word EXCEPT ![r] = "none"]
      BY <1>0, <2>2
    <3> QED
      BY <1>6, <3>1 DEF Compare, CompareIf, Move
  <2> QED
    BY <2>1, <2>3, SpiGoesOn
<1> QED
  BY <1>1, <1>2, <1>3, <1>4, <1>5, <1>6 DEF SpiProgram

\* The master clocks: with an armed slave whose message is not longer, both are served;
\* otherwise only the master is.  Each hears its own wire.
LEMMA SpiClock == ASSUME SpiInv, Clock PROVE SpiInv'
<1> DEFINE M == "MASTER"
           S == "SLAVE"
<1>0. /\ M \in Roles /\ S \in Roles /\ Peer(M) = S /\ Peer(S) = M /\ M # S
      /\ \A r \in Roles : r = M \/ r = S
  BY DEF Roles, Peer
<1> DEFINE armed == at[S] = "armed"
           both == armed /\ opt[S].len <= opt[M].len
<1>1. PICK noise \in SUBSET Roles :
        LET served == {M} \cup {r \in {S} : armed /\ opt[r].len <= opt[M].len}
        IN /\ at' = [r \in Roles |-> IF r \in served THEN "output" ELSE at[r]]
           /\ rx' = [r \in Roles |-> IF r \in served THEN Received(r, r \in noise \/ ~armed)
                                     ELSE rx[r]]
           /\ clean' = [r \in Roles |-> IF r \in served THEN armed /\ r \notin noise
                                        ELSE clean[r]]
  BY DEF Clock
<1>2. at[M] = "armed" /\ UNCHANGED <<opt, word>>
  BY DEF Clock
<1>3. SpiTypeOK /\ SpiAt(M) /\ SpiAt(S) /\ ClockedByMaster
  BY <1>0 DEF SpiInv
<1>4. /\ at'[M] = "output" /\ rx'[M] = Received(M, M \in noise \/ ~armed)
      /\ clean'[M] = (armed /\ M \notin noise)
      /\ at'[S] = IF both THEN "output" ELSE at[S]
      /\ rx'[S] = IF both THEN Received(S, S \in noise \/ ~armed) ELSE rx[S]
      /\ clean'[S] = IF both THEN armed /\ S \notin noise ELSE clean[S]
  BY <1>0, <1>1
<1>5. /\ opt[M].source \in Sources /\ word[M] = "none" /\ ~clean[S] /\ at[S] \notin Served
      /\ word[S] = "none" /\ (armed => opt[S].source \in Sources)
  BY <1>0, <1>2, <1>3 DEF SpiAt, ClockedByMaster, Served, SpiTypeOK
<1>7. /\ rx[M] \in Sources \cup {"zero", Junk} /\ rx[S] \in Sources \cup {"zero", Junk}
      /\ at[S] \in {"off", "open", "select", "message", "armed", "output", "compare"} \cup SpiEnded
  BY <1>0, <1>3 DEF SpiTypeOK
<1>8. /\ Received(M, M \in noise \/ ~armed) \in Sources \cup {"zero", Junk}
      /\ both => Received(S, S \in noise \/ ~armed) \in Sources \cup {"zero", Junk}
  BY <1>0, <1>5, <1>7 DEF Received, OnWire, SameData
<1> HIDE DEF both
<1>9. both => armed
  BY DEF both
<1>10. SpiTypeOK'
  <2>1. at' \in [Roles -> {"off", "open", "select", "message", "armed", "output", "compare"}
                          \cup SpiEnded]
    BY <1>0, <1>1, <1>4, <1>7
  <2>2. rx' \in [Roles -> Sources \cup {"zero", Junk}]
    BY <1>0, <1>1, <1>4, <1>7, <1>8
  <2>3. clean' \in [Roles -> BOOLEAN]
    BY <1>1, <1>3 DEF SpiTypeOK
  <2> QED
    BY <1>2, <1>3, <2>1, <2>2, <2>3 DEF SpiTypeOK
<1>11. SpiAt(M)'
  BY <1>0, <1>2, <1>4, <1>5, <1>9 DEF SpiAt, Served, Heard, Received, OnWire, SameData
<1>12. SpiAt(S)'
  BY <1>0, <1>2, <1>3, <1>4, <1>5, <1>9 DEF SpiAt, Served, Heard, Received, OnWire, SameData
<1>13. ClockedByMaster'
  BY <1>4 DEF ClockedByMaster, Served
<1> QED
  BY <1>0, <1>10, <1>11, <1>12, <1>13 DEF SpiInv

LEMMA SpiKept == ASSUME SpiInv, Next PROVE SpiInv'
<1>1. CASE SpiNext
  BY <1>1, SpiProgramStep, SpiClock DEF SpiNext
<1>2. CASE prog # "spi" /\ UNCHANGED spiVars
  BY <1>2 DEF SpiInv, SpiTypeOK, SpiAt, Heard, OnWire, SameData, ClockedByMaster, spiVars
<1> QED
  BY <1>1, <1>2, WhoMoves

LEMMA SpiStart == ASSUME Init PROVE SpiInv
<1> USE DEF Init, SpiInit
<1>1. (CHOOSE o \in SpiOptions : TRUE) \in SpiOptions
  BY SpiAssumption
<1>2. SpiTypeOK
  BY <1>1 DEF SpiTypeOK
<1>3. \A r \in Roles : SpiAt(r)
  BY DEF SpiAt, Served
<1>4. ClockedByMaster
  BY DEF ClockedByMaster, Served, Roles
<1> QED
  BY <1>2, <1>3, <1>4 DEF SpiInv

-----------------------------------------------------------------------------
(* pwm                                                                     *)

\* What the run has set so far, and that it has said nothing before its end.
PwmInv ==
  /\ PwmTypeOK
  /\ prog = "pwm" =>
       /\ pc \in {"start", "export", "nodes", "period", "duty", "enable", "running",
                  "unexport", "exit"}
       /\ pc # "exit" => said = "none"
       /\ pc = "export" => stale = exported
       /\ pc \in {"export", "nodes", "period", "duty"} => duty = oldDuty
       /\ pc \in {"duty", "enable", "running"} => period = arg.period
       /\ pc \in {"enable", "running"} => duty = arg.duty
       /\ pc = "running" => enabled
       /\ pc = "unexport" => ~enabled
  /\ PwmRefusalExplained

LEMMA PwmStep == ASSUME PwmInv, PwmNext PROVE PwmInv'
<1> USE PwmAssumption
    DEF PwmInv, PwmTypeOK, PwmRefusalExplained, At, Go, Fail, Say, PwmCall, pwmVars
<1>1. CASE PwmStart
  BY <1>1 DEF PwmStart
<1>2. CASE ExportPwm
  BY <1>2 DEF ExportPwm
<1>3. CASE OpenPwmNodes
  BY <1>3 DEF OpenPwmNodes
<1>4. CASE SetPeriod
  BY <1>4 DEF SetPeriod
<1>5. CASE SetDuty
  BY <1>5 DEF SetDuty
<1>6. CASE EnablePwm
  BY <1>6 DEF EnablePwm
<1>7. CASE DisablePwm
  BY <1>7 DEF DisablePwm
<1>8. CASE UnexportPwm
  BY <1>8 DEF UnexportPwm, UnexportTo
<1>9. CASE PwmKill
  BY <1>9 DEF PwmKill
<1> QED
  BY <1>1, <1>2, <1>3, <1>4, <1>5, <1>6, <1>7, <1>8, <1>9 DEF PwmNext, PwmProgram

LEMMA PwmKept == ASSUME PwmInv, Next PROVE PwmInv'
<1>1. CASE PwmNext
  BY <1>1, PwmStep
<1>2. CASE prog # "pwm" /\ UNCHANGED pwmVars
  <2>1. prog' = prog
    BY WhoMoves DEF StepOf
  <2> QED
    BY <1>2, <2>1 DEF PwmInv, PwmTypeOK, PwmRefusalExplained, pwmVars
<1> QED
  BY <1>1, <1>2, WhoMoves

LEMMA PwmBegin == ASSUME Init PROVE PwmInv
<1>1. /\ arg = [period |-> 0, duty |-> 0] /\ runs = 0 /\ exported = FALSE /\ enabled = FALSE
      /\ stale = FALSE /\ period = 0 /\ duty = 0 /\ oldDuty = 0 /\ pc = "start" /\ said = "none"
  BY DEF Init, PwmInit
<1>2. 0 \in Nat /\ 0 \in 0..PwmRuns
  BY PwmAssumption
<1> QED
  BY <1>1, <1>2, Zenon DEF PwmInv, PwmTypeOK, PwmRefusalExplained

-----------------------------------------------------------------------------
(* clk                                                                     *)

Probing == {"gate", "enable_gate", "gate_fen", "enable_gate_fen", "mux", "mux_parent",
            "set_parent", "div", "set_rate"}

\* Clocks that probe() holds at l.
Got ==
  [l \in Probing |->
     CASE l = "gate" -> {}
       [] l \in {"enable_gate", "gate_fen"} -> {"gate"}
       [] l \in {"enable_gate_fen", "mux"} -> {"gate", "gate_fen"}
       [] l = "mux_parent" -> {"gate", "gate_fen", "mux"}
       [] l \in {"set_parent", "div"} -> {"gate", "gate_fen", "mux", "mux_parent"}
       [] l = "set_rate" -> Clks]

\* Clocks that it has enabled.
Enabled ==
  [l \in Probing |->
     CASE l \in {"gate", "enable_gate"} -> {}
       [] l \in {"gate_fen", "enable_gate_fen"} -> {"gate"}
       [] OTHER -> {"gate", "gate_fen"}]

\* A clock that runs is got; one that was freed was so by an earlier binding.
ClkInv ==
  /\ ClkTypeOK
  /\ prog = "clk" =>
       /\ pc \in Probing \cup {"start", "bound", "exit", "fault"}
       /\ pc \in {"start", "exit"} => running = {}
       /\ pc \in Probing => /\ said = "none" /\ running = Enabled[pc]
                            /\ \A c \in Got[pc] : clk[c] = "live"
                            /\ asked = Got[pc]
       /\ pc = "bound" => /\ said \in {"pass", "fail"}
                          /\ \A c \in running : clk[c] = "live"
                          /\ "gate" \in asked
                          /\ \A c \in asked : clk[c] # "freed"
                          /\ said = "pass" => /\ running = {"gate", "gate_fen"}
                                              /\ \A c \in Clks : clk[c] = "live"
       /\ pc \notin {"exit", "fault"} => ~warned
       /\ pc # "start" => binds > 0
       /\ binds < 2 /\ pc # "exit" => \A c \in Clks : clk[c] # "freed"
  /\ ClocksBalance

LEMMA ClkGets == ASSUME ClkInv, NEW c \in Clks, ClkGet(c) PROVE ClkInv'
<1>1. /\ prog = "clk" /\ pc = c /\ prog' = prog /\ asked' = asked \cup {c}
      /\ UNCHANGED <<running, settings, binds, warned>>
      /\ pc \in Probing
  BY DEF ClkGet, At, Go, ClkFail, Clks, Probing
<1>2. /\ said = "none" /\ running = Enabled[pc] /\ asked = Got[pc]
      /\ \A d \in Got[pc] : clk[d] = "live"
      /\ ~warned /\ binds > 0 /\ (binds < 2 => \A d \in Clks : clk[d] # "freed") /\ ClkTypeOK
  BY <1>1 DEF ClkInv, Probing
<1>3. CASE clk' = [clk EXCEPT ![c] = "live"] /\ Go(AfterGet[c])
  <2>1. pc' = AfterGet[c] /\ UNCHANGED said
    BY <1>3 DEF Go
  <2>2. pc' \in Probing /\ Got[pc'] = Got[pc] \cup {c} /\ Enabled[pc'] = Enabled[pc]
    BY <1>1, <2>1 DEF AfterGet, Probing, Got, Enabled, Clks
  <2>3. ClkTypeOK' /\ \A d \in Clks : clk'[d] = IF d = c THEN "live" ELSE clk[d]
    BY <1>1, <1>2, <1>3 DEF ClkTypeOK
  <2>4. Got[pc'] \subseteq Clks
    BY <2>2 DEF Got, Probing, Clks
  <2>5. pc' \notin {"start", "exit", "bound", "fault"}
    BY <2>2 DEF Probing
  <2> QED
    BY <1>1, <1>2, <2>1, <2>2, <2>3, <2>4, <2>5 DEF ClkInv, ClocksBalance
<1>4. CASE clk' = [clk EXCEPT ![c] = "err"] /\ ClkFail
  <2>1. pc' = "bound" /\ said' = "fail"
    BY <1>4 DEF ClkFail
  <2>2. ClkTypeOK' /\ \A d \in Clks : clk'[d] = IF d = c THEN "err" ELSE clk[d]
    BY <1>1, <1>2, <1>4 DEF ClkTypeOK
  <2>3. /\ Got[pc] \subseteq Clks /\ Enabled[pc] \subseteq Got[pc] /\ c \notin Got[pc]
        /\ "gate" \in Got[pc] \cup {c}
    BY <1>1 DEF Got, Enabled, Probing, Clks
  <2>4. \A d \in running' : clk'[d] = "live"
    BY <1>1, <1>2, <2>2, <2>3
  <2>5. "gate" \in asked' /\ \A d \in asked' : clk'[d] # "freed"
    BY <1>1, <1>2, <2>2, <2>3
  <2>6. "bound" \notin Probing
    BY DEF Probing
  <2> QED
    BY <1>1, <1>2, <2>1, <2>2, <2>4, <2>5, <2>6 DEF ClkInv, ClocksBalance
<1> QED
  BY <1>3, <1>4 DEF ClkGet

LEMMA ClkStep == ASSUME ClkInv, ClkNext PROVE ClkInv'
<1> USE ClkAssumption DEF ClkInv, ClkTypeOK, ClocksBalance, At, Go, Fail, Say, ClkFail, clkVars
<1>1. CASE Bind
  <2>1. /\ prog = "clk" /\ pc \in {"start", "exit"} /\ binds < Binds /\ binds' = binds + 1
        /\ pc' = "gate" /\ said' = "none" /\ warned' = FALSE /\ asked' = {} /\ settings' = {}
        /\ UNCHANGED <<prog, clk, running>> /\ running = {}
    BY <1>1 DEF Bind
  <2>2. Enabled["gate"] = {} /\ Got["gate"] = {} /\ "gate" \in Probing
    BY DEF Enabled, Got, Probing
  <2>3. binds' < 2 => \A c \in Clks : clk[c] # "freed"
    BY <2>1
  <2>4. ClkTypeOK'
    <3>1. binds' \in 0..Binds
      BY <2>1
    <3> QED
      BY <2>1, <3>1, Zenon
  <2> QED
    BY <2>1, <2>2, <2>3, <2>4
<1>2. ASSUME NEW c \in Clks, ClkGet(c) PROVE ClkInv'
  BY <1>2, ClkGets
<1>3. CASE ClkEnable("gate", "gate_fen")
  BY <1>3 DEF ClkEnable, ClkEnableElse, AfterGet, Probing, Got, Enabled, Clks
<1>4. CASE ClkEnable("gate_fen", "mux")
  BY <1>4 DEF ClkEnable, ClkEnableElse, AfterGet, Probing, Got, Enabled, Clks
<1>5. CASE SetParent
  BY <1>5 DEF SetParent, Probing, Got, Enabled, Clks
<1>6. CASE SetRate
  BY <1>6 DEF SetRate, Probing, Got, Enabled, Clks
<1>7. CASE RemoveClks
  <2>1. /\ prog = "clk" /\ pc = "bound" /\ prog' = prog /\ UNCHANGED <<said, settings, binds, asked>>
    BY <1>7 DEF RemoveClks
  <2>2. /\ said \in {"pass", "fail"} /\ \A c \in running : clk[c] = "live"
        /\ "gate" \in asked /\ \A c \in asked : clk[c] # "freed"
        /\ said = "pass" => running = {"gate", "gate_fen"} /\ \A c \in Clks : clk[c] = "live"
        /\ ~warned /\ binds > 0 /\ (binds < 2 => \A c \in Clks : clk[c] # "freed")
    BY <2>1
  <2>3. CASE \E c \in {"gate", "gate_fen"} : clk[c] = "freed"
    <3>1. pc' = "fault" /\ UNCHANGED <<clk, running, warned>>
      BY <1>7, <2>3 DEF RemoveClks
    <3>2. clk["gate_fen"] = "freed" /\ "gate_fen" \notin asked /\ said = "fail" /\ ~(binds < 2)
      BY <2>2, <2>3 DEF Clks
    <3> QED
      BY <2>1, <2>2, <3>1, <3>2 DEF Probing
  <2>4. CASE ~\E c \in {"gate", "gate_fen"} : clk[c] = "freed"
    <3>1. /\ running' = {c \in running : clk[c] # "live"}
          /\ warned' = (\/ \E c \in {"gate", "gate_fen"} : clk[c] = "live" /\ c \notin running
                        \/ \E c \in Clks : clk[c] # "live")
          /\ clk' = [c \in Clks |-> IF clk[c] = "live" THEN "freed" ELSE clk[c]]
          /\ pc' = "exit"
      BY <1>7, <2>4 DEF RemoveClks
    <3>2. running' = {} /\ (warned' => said = "fail")
      BY <2>2, <3>1
    <3>3. ClkTypeOK'
      BY <2>1, <3>1, <3>2
    <3> QED
      BY <2>1, <2>2, <3>1, <3>2, <3>3 DEF Probing
  <2> QED
    BY <2>3, <2>4
<1> QED
  BY <1>1, <1>2, <1>3, <1>4, <1>5, <1>6, <1>7 DEF ClkNext, ClkProgram

LEMMA ClkKept == ASSUME ClkInv, Next PROVE ClkInv'
<1>1. CASE ClkNext
  BY <1>1, ClkStep
<1>2. CASE prog # "clk" /\ UNCHANGED clkVars
  <2>1. prog' = prog
    BY WhoMoves DEF StepOf
  <2> QED
    BY <1>2, <2>1 DEF ClkInv, ClkTypeOK, ClocksBalance, clkVars
<1> QED
  BY <1>1, <1>2, WhoMoves

LEMMA ClkStart == ASSUME Init PROVE ClkInv
<1>1. /\ clk = [c \in Clks |-> "null"] /\ running = {} /\ settings = {} /\ binds = 0
      /\ warned = FALSE /\ asked = {} /\ pc = "start" /\ said = "none"
  BY DEF Init, ClkInit
<1>2. 0 \in 0..Binds
  BY ClkAssumption
<1>3. ClkTypeOK
  BY <1>1, <1>2 DEF ClkTypeOK
<1>4. \A c \in Clks : clk[c] # "freed"
  BY <1>1
<1> QED
  BY <1>1, <1>3, <1>4 DEF ClkInv, ClocksBalance, Probing

-----------------------------------------------------------------------------
(* dmac_multi                                                              *)

\* The engine runs between the configuration and the end, and is paused, unless a call
\* failed, while the thread overwrites the destination for the second time.
MulInv ==
  /\ MulTypeOK
  /\ prog = "dmac_multi" =>
       /\ pc \in {"start", "config", "round", "endround", "pause", "revert", "show", "end",
                  "exit", "fault"}
       /\ pc \in {"start", "config", "exit", "fault"} => engine = "idle"
       /\ pc \in {"start", "config"} => cb = "none"
       /\ pc \notin {"round", "revert"} => cell = 1
       /\ pc \in {"start", "config", "round", "endround"} => round <= 5
       /\ pc \in {"pause", "revert", "show"} => round = 2
       /\ pc \notin {"start", "exit", "fault"} => holds = {"channel", "buffers"}
       /\ pc \in {"revert", "show"} /\ ~broke => engine = "paused"
       /\ pc = "revert" /\ cell = 2 /\ ~broke => dst[1] = "ff"
  /\ MultiContained

LEMMA MulStep == ASSUME MulInv, MulNext PROVE MulInv'
<1> USE DEF MulInv, MulTypeOK, MultiContained, At, Go, Fail, Say, progVars, Words, LAST_ROUND,
            PAUSE_ROUND
<1>1. CASE PrepareMulti
  BY <1>1 DEF PrepareMulti
<1>2. CASE ConfigMulti
  BY <1>2 DEF ConfigMulti
<1>3. CASE Overwrite("round", "endround")
  BY <1>3 DEF Overwrite
<1>4. CASE EndRound
  BY <1>4 DEF EndRound, EndRoundAt
<1>5. CASE Pause
  BY <1>5 DEF Pause, PauseTo
<1>6. CASE Overwrite("revert", "show")
  BY <1>6 DEF Overwrite
<1>7. CASE Resume
  BY <1>7 DEF Resume
<1>8. CASE MultiEnd
  BY <1>8 DEF MultiEnd
<1>9. CASE CopyWord
  BY <1>9 DEF CopyWord
<1>10. CASE CompareFirst
  BY <1>10 DEF CompareFirst
<1>11. CASE CompareSecond
  BY <1>11 DEF CompareSecond
<1> QED
  BY <1>1, <1>2, <1>3, <1>4, <1>5, <1>6, <1>7, <1>8, <1>9, <1>10, <1>11 DEF MulNext, MulProgram

LEMMA MulKept == ASSUME MulInv, Next PROVE MulInv'
<1>1. CASE MulNext
  BY <1>1, MulStep
<1>2. CASE prog # "dmac_multi" /\ UNCHANGED mulVars
  <2>1. prog' = prog
    BY WhoMoves DEF StepOf
  <2> QED
    BY <1>2, <2>1 DEF MulInv, MulTypeOK, MultiContained, mulVars
<1> QED
  BY <1>1, <1>2, WhoMoves

LEMMA MulStart == ASSUME Init PROVE MulInv
<1>1. /\ round = 0 /\ cell = 1 /\ dst = [w \in Words |-> "old"] /\ engine = "idle"
      /\ next_word = 1 /\ cb = "none" /\ match = FALSE /\ holds = {} /\ outlives = FALSE
      /\ pc = "start"
  BY DEF Init, MulInit
<1>2. 0 \in 0..6 /\ 0 <= 5 /\ 5 + 1 = 6
  OBVIOUS
<1> QED
  BY <1>1, <1>2 DEF MulInv, MulTypeOK, MultiContained, Words, LAST_ROUND

-----------------------------------------------------------------------------
(* The kms programs                                                        *)

LEMMA NumIs ==
  ASSUME NEW N \in Nat, NEW a, DOMAIN a = 1..N
  PROVE  Num(a) \in 0..N /\ (Num(a) = N => \A i \in 1..N : a[i] # Nil)
<1> DEFINE T == {i \in DOMAIN a : a[i] # Nil}
<1>1. IsFiniteSet(1..N) /\ Cardinality(1..N) = N
  BY FS_Interval
<1>2. T \in SUBSET (1..N)
  OBVIOUS
<1>3. IsFiniteSet(T) /\ Cardinality(T) <= N /\ (Cardinality(T) = N => T = 1..N)
  <2> HIDE DEF T
  <2>1. /\ IsFiniteSet(T) /\ Cardinality(T) <= Cardinality(1..N)
        /\ Cardinality(1..N) = Cardinality(T) => 1..N = T
    BY <1>1, <1>2, FS_Subset, Zenon
  <2> QED
    BY <1>1, <2>1
<1>4. Cardinality(T) \in Nat
  BY <1>3, FS_CardinalityType
<1>5. Num(a) = Cardinality(T)
  BY DEF Num
<1>6. T = 1..N => \A i \in 1..N : a[i] # Nil
  OBVIOUS
<1> HIDE DEF T
<1> QED
  BY <1>3, <1>4, <1>5, <1>6

LEMMA WhenComplete ==
  ASSUME KmsTypeOK
  PROVE  /\ \A i \in 1..Num(planes) : i \in DOMAIN planes
         /\ Complete => /\ screens[1] # Nil /\ crtcs[1] # Nil
                        /\ ~MeetsHole(screens) /\ ~MeetsHole(planes)
<1>1. /\ KmsPipes \in Nat \ {0} /\ DOMAIN screens = 1..KmsPipes /\ DOMAIN crtcs = 1..KmsPipes
      /\ Len(KmsPlaneTypes) \in Nat /\ DOMAIN planes = 1..Len(KmsPlaneTypes)
  BY KmsAssumption DEF KmsTypeOK
<1>2. Num(planes) \in 0..Len(KmsPlaneTypes)
  BY <1>1, NumIs
<1>3. \A i \in 1..Num(planes) : i \in DOMAIN planes
  BY <1>1, <1>2
<1>4. ASSUME Complete
      PROVE  \A i \in 1..KmsPipes : screens[i] # Nil /\ crtcs[i] # Nil
  BY <1>1, <1>4, NumIs DEF Complete
<1>5. 1 \in 1..KmsPipes
  BY <1>1
<1>6. Complete => Num(screens) = KmsPipes
  BY DEF Complete
<1> QED
  BY <1>3, <1>4, <1>5, <1>6 DEF Complete, MeetsHole

\* The blocks come in the order c, o, p.
LEMMA NextBlockIs ==
  /\ NextBlock("v") = IF "c" \in options THEN "c" ELSE IF "o" \in options THEN "o"
                      ELSE IF "p" \in options THEN "p" ELSE "loop"
  /\ NextBlock("c") = IF "o" \in options THEN "o" ELSE IF "p" \in options THEN "p" ELSE "loop"
  /\ NextBlock("p") = "loop"
<1> DEFINE order == <<"c", "o", "p">>
           after(k) == {i \in 1..3 : order[i] \in options /\ \A j \in 1..3 : order[j] = k => i > j}
           first(A) == CHOOSE i \in A : \A j \in A : i <= j
<1>1. \A k : NextBlock(k) = IF after(k) = {} THEN "loop" ELSE order[first(after(k))]
  BY DEF NextBlock
<1>2. order[1] = "c" /\ order[2] = "o" /\ order[3] = "p"
  OBVIOUS
<1>3. /\ after("v") = {i \in {1, 2, 3} : order[i] \in options}
      /\ after("c") = {i \in {2, 3} : order[i] \in options}
      /\ after("p") = {}
  BY <1>2
<1>4. ASSUME NEW A \in SUBSET {1, 2, 3}
      PROVE  /\ 1 \in A => first(A) = 1
             /\ 1 \notin A /\ 2 \in A => first(A) = 2
             /\ A = {3} => first(A) = 3
  <2>1. A \in SUBSET Int
    OBVIOUS
  <2>2. ASSUME 1 \in A PROVE first(A) = 1
    <3>1. \A j \in A : 1 <= j
      OBVIOUS
    <3> QED
      BY <2>1, <2>2, <3>1, LeastIs
  <2>3. ASSUME 1 \notin A, 2 \in A PROVE first(A) = 2
    <3>1. \A j \in A : 2 <= j
      BY <2>3
    <3> QED
      BY <2>1, <2>3, <3>1, LeastIs
  <2>4. ASSUME A = {3} PROVE first(A) = 3
    <3>1. 3 \in A /\ \A j \in A : 3 <= j
      BY <2>4
    <3> QED
      BY <2>1, <3>1, LeastIs
  <2> QED
    BY <2>2, <2>3, <2>4
<1> HIDE DEF first, after
<1>5. NextBlock("p") = "loop"
  BY <1>1, <1>3
<1>6. NextBlock("c") = IF "o" \in options THEN "o" ELSE IF "p" \in options THEN "p" ELSE "loop"
  <2>1. after("c") \in SUBSET {1, 2, 3} /\ 1 \notin after("c")
    BY <1>3
  <2>2. CASE "o" \in options
    <3>1. 2 \in after("c")
      BY <1>2, <1>3, <2>2
    <3> QED
      BY <1>1, <1>2, <1>4, <2>1, <2>2, <3>1
  <2>3. CASE "o" \notin options /\ "p" \in options
    <3>1. after("c") = {3}
      BY <1>2, <1>3, <2>3
    <3> QED
      BY <1>1, <1>2, <1>4, <2>1, <2>3, <3>1
  <2>4. CASE "o" \notin options /\ "p" \notin options
    <3>1. after("c") = {}
      BY <1>2, <1>3, <2>4
    <3> QED
      BY <1>1, <2>4, <3>1
  <2> QED
    BY <2>2, <2>3, <2>4
<1>7. NextBlock("v") = IF "c" \in options THEN "c" ELSE IF "o" \in options THEN "o"
                       ELSE IF "p" \in options THEN "p" ELSE "loop"
  <2>1. after("v") \in SUBSET {1, 2, 3}
    BY <1>3
  <2>2. CASE "c" \in options
    <3>1. 1 \in after("v")
      BY <1>2, <1>3, <2>2
    <3> QED
      BY <1>1, <1>2, <1>4, <2>1, <2>2, <3>1
  <2>3. CASE "c" \notin options /\ "o" \in options
    <3>1. 1 \notin after("v") /\ 2 \in after("v")
      BY <1>2, <1>3, <2>3
    <3> QED
      BY <1>1, <1>2, <1>4, <2>1, <2>3, <3>1
  <2>4. CASE "c" \notin options /\ "o" \notin options /\ "p" \in options
    <3>1. after("v") = {3}
      BY <1>2, <1>3, <2>4
    <3> QED
      BY <1>1, <1>2, <1>4, <2>1, <2>4, <3>1
  <2>5. CASE "c" \notin options /\ "o" \notin options /\ "p" \notin options
    <3>1. after("v") = {}
      BY <1>2, <1>3, <2>5
    <3> QED
      BY <1>1, <2>5, <3>1
  <2> QED
    BY <2>2, <2>3, <2>4, <2>5
<1> QED
  BY <1>5, <1>6, <1>7

\* The framebuffers that exist at each block, and the plane that the block has chosen.
KmsInv ==
  /\ KmsTypeOK
  /\ prog \in KmsProgs =>
       /\ said = "pass" => pc = "exit"
       /\ pc \in {"start", "screens", "crtcs", "planes", "verbose", "steal", "close"} => fbs = {}
       /\ pc \notin {"start", "exit"} => drmFd
       /\ pc \in {"c", "create_c", "show_c"} =>
            "c" \in options /\ fbs = IF pc = "show_c" THEN {"c"} ELSE {}
       /\ pc \in {"o", "create_o", "show_o"} => "o" \in options
       /\ pc \in {"p", "create_p", "show_p"} =>
            /\ "p" \in options /\ "o" \notin options
            /\ fbs = (options \cap {"c"}) \cup (IF pc = "show_p" THEN {"p"} ELSE {})
       /\ pc \in {"create_c", "create_o", "create_p", "show_c", "show_o", "show_p"} =>
            chosen \in DOMAIN planes
  /\ KmsSound

LEMMA PlaneResultsAre ==
  ASSUME NEW t \in {"cursor", "overlay", "primary"}
  PROVE  PlaneResults(t) \subseteq [type : {"nil", "overlay", "primary", "cursor"},
                                    formats : BOOLEAN, crtc : BOOLEAN]
<1> DEFINE R == [type : {"nil", "overlay", "primary", "cursor"}, formats : BOOLEAN, crtc : BOOLEAN]
<1>1. PICK b \in BOOLEAN : b = (crtcs[1] # Nil)
  OBVIOUS
<1>2. PlaneResults(t) = {Nil, Bare} \cup [type : {"overlay", t}, formats : BOOLEAN, crtc : {b}]
  BY <1>1 DEF PlaneResults
<1>3. Nil \in R /\ Bare \in R
  BY DEF Nil, Bare
<1>4. [type : {"overlay", t}, formats : BOOLEAN, crtc : {b}] \subseteq R
  OBVIOUS
<1> QED
  BY <1>2, <1>3, <1>4

LEMMA KmsProbeStep ==
  ASSUME KmsInv, KmsOpen \/ ProbeScreens \/ ProbeCrtcs \/ ProbePlanes
  PROVE  KmsInv'
<1> USE DEF KmsInv, KmsSound, At, Go, Fail
<1>1. CASE KmsOpen
  <2>1. prog \in KmsProgs /\ prog' = prog /\ pc' \in {"screens", "exit"} /\ fbs' = {}
        /\ UNCHANGED <<said, screens, crtcs, planes, chosen>> /\ pc = "start"
        /\ (pc' = "screens" => drmFd')
    BY <1>1 DEF KmsOpen
  <2>2. options' \in KmsOptions \cup {{}} /\ drmFd' \in BOOLEAN
    BY <1>1 DEF KmsOpen, KmsTypeOK
  <2>3. KmsTypeOK'
    BY <2>1, <2>2 DEF KmsTypeOK
  <2> QED
    BY <2>1, <2>3
<1>2. CASE ProbeScreens
  BY <1>2 DEF ProbeScreens, Probed, KmsTypeOK
<1>3. CASE ProbeCrtcs
  BY <1>3 DEF ProbeCrtcs, Probed, KmsTypeOK
<1>4. CASE ProbePlanes
  <2>1. /\ prog \in KmsProgs /\ prog' = prog /\ pc = "planes" /\ fbs' = {} /\ drmFd'
        /\ UNCHANGED <<said, options, screens, crtcs, chosen, fbs, drmFd>>
        /\ pc' \in {"fault", "steal", "verbose"}
        /\ pc' = "fault" => crtcs[1] = Nil /\ UNCHANGED planes
    BY <1>4 DEF ProbePlanes
  <2>2. planes' \in [DOMAIN KmsPlaneTypes -> [type : {"nil", "overlay", "primary", "cursor"},
                                             formats : BOOLEAN, crtc : BOOLEAN]]
    <3>1. ASSUME NEW t \in {"cursor", "overlay", "primary"}
          PROVE  PlaneResults(t) \subseteq [type : {"nil", "overlay", "primary", "cursor"},
                                            formats : BOOLEAN, crtc : BOOLEAN]
      BY PlaneResultsAre
    <3>2. {PlaneOf[k] : k \in Blocks} = {"cursor", "overlay", "primary"}
      BY DEF PlaneOf, Blocks
    <3>3. DOMAIN planes = DOMAIN KmsPlaneTypes
      BY DEF KmsTypeOK
    <3>4. \/ planes' = planes
          \/ planes' \in [DOMAIN planes -> UNION {PlaneResults(t) : t \in {"cursor", "overlay", "primary"}}]
      BY <1>4, <3>2 DEF ProbePlanes
    <3> QED
      BY <3>1, <3>3, <3>4 DEF KmsTypeOK
  <2>3. KmsTypeOK'
    BY <2>1, <2>2 DEF KmsTypeOK
  <2>4. pc' = "fault" => ~Complete'
    <3>1. SUFFICES ASSUME pc' = "fault" PROVE ~Complete'
      OBVIOUS
    <3>2. UNCHANGED <<screens, crtcs, planes>> /\ ~Complete
      BY <2>1, <3>1, WhenComplete
    <3> QED
      BY <3>2 DEF Complete, Num
  <2> QED
    BY <2>1, <2>3, <2>4
<1> QED
  BY <1>1, <1>2, <1>3, <1>4

LEMMA VerboseStep == ASSUME KmsInv, Verbose PROVE KmsInv'
<1>1. prog = "universal_planes" /\ pc = "verbose" /\ UNCHANGED <<prog, said, kmsVars>>
  BY DEF Verbose, Universal, At, Go
<1>2. prog \in KmsProgs /\ prog' \in KmsProgs
  BY <1>1 DEF KmsProgs
<1>3. KmsTypeOK /\ fbs = {} /\ drmFd /\ said # "pass"
  BY <1>1, <1>2 DEF KmsInv
<1>4. KmsTypeOK' /\ Complete' = Complete
  BY <1>1, <1>3 DEF KmsTypeOK, Complete, Num, kmsVars
<1>5. CASE pc' = "fault"
  <2>1. ~Complete
    <3>1. pc' # NextBlock("v")
      BY <1>5, NextBlockIs
    <3>2. MeetsHole(screens) \/ MeetsHole(planes) \/ \E i \in 1..Num(planes) : ~planes[i].crtc
      BY <3>1 DEF Verbose, Go
    <3> QED
      BY <1>3, <3>2, WhenComplete DEF Complete
  <2> QED
    BY <1>1, <1>2, <1>3, <1>4, <1>5, <2>1 DEF KmsInv, KmsSound, kmsVars
<1>6. CASE pc' = NextBlock("v")
  <2>1. pc' \in {"c", "o", "p", "loop"}
        /\ (pc' = "c" => "c" \in options) /\ (pc' = "o" => "o" \in options)
        /\ (pc' = "p" => "p" \in options /\ options \cap {"c"} = {} /\ "o" \notin options)
        /\ (pc' = "loop" => options \cap {"c", "o", "p"} = {} /\ "o" \notin options)
    BY <1>6, NextBlockIs
  <2>2. Blocks = {"c", "o", "p"}
    BY DEF Blocks, PlaneOf
  <2> QED
    BY <1>1, <1>2, <1>3, <1>4, <2>1, <2>2 DEF KmsInv, KmsSound, kmsVars
<1> QED
  BY <1>5, <1>6 DEF Verbose, Go

LEMMA FindPlaneStep ==
  ASSUME KmsInv, NEW k \in {"c", "o", "p"}, FindPlane(k)
  PROVE  KmsInv'
<1> DEFINE counted == 1..Num(planes)
           suits   == {i \in counted : planes[i].type = PlaneOf[k]}
           first   == CHOOSE i \in suits : \A j \in suits : i <= j
           hole    == \E i \in counted : planes[i] = Nil /\ \A j \in suits : i < j
<1>1. /\ prog = "universal_planes" /\ pc = k
      /\ UNCHANGED <<prog, said, options, screens, crtcs, planes, fbs, drmFd>>
  BY DEF FindPlane, Universal, At, Go, Fail
<1>2. prog \in KmsProgs /\ prog' \in KmsProgs
  BY <1>1 DEF KmsProgs
<1>3. /\ KmsTypeOK /\ drmFd /\ said # "pass"
      /\ k = "c" => "c" \in options /\ fbs = {}
      /\ k = "o" => "o" \in options
      /\ k = "p" => "p" \in options /\ "o" \notin options /\ fbs = options \cap {"c"}
  BY <1>1, <1>2 DEF KmsInv
<1>4. \A i \in counted : i \in DOMAIN planes /\ i \in Nat
  BY <1>3, WhenComplete, KmsAssumption DEF KmsTypeOK
<1>5. Complete' = Complete
  BY <1>1 DEF Complete, Num
<1>6. CASE hole
  <2>1. pc' = "fault" /\ UNCHANGED chosen
    BY <1>6 DEF FindPlane, Go
  <2>2. ~Complete
    BY <1>4, <1>6 DEF Complete
  <2>3. KmsTypeOK'
    BY <1>1, <1>3, <2>1 DEF KmsTypeOK
  <2> QED
    BY <1>1, <1>2, <1>3, <1>5, <2>1, <2>2, <2>3 DEF KmsInv, KmsSound
<1>7. CASE ~hole /\ pc' = "exit" /\ UNCHANGED chosen
  <2>1. KmsTypeOK'
    BY <1>1, <1>3, <1>7 DEF KmsTypeOK
  <2> QED
    BY <1>1, <1>2, <1>3, <1>7, <2>1 DEF KmsInv, KmsSound
<1>8. CASE ~hole /\ suits # {} /\ pc' = CreateOf[k] /\ chosen' = first
  <2>1. suits \in SUBSET Nat
    BY <1>4
  <2>2. first \in suits
    <3>1. Min(suits) = first
      BY DEF Min
    <3> HIDE DEF suits, first
    <3> QED
      BY <1>8, <2>1, <3>1, LeastMember
  <2>3. chosen' \in DOMAIN planes'
    BY <1>1, <1>4, <1>8, <2>2
  <2>4. KmsTypeOK'
    BY <1>1, <1>3, <2>3 DEF KmsTypeOK
  <2>5. pc' = IF k = "c" THEN "create_c" ELSE IF k = "o" THEN "create_o" ELSE "create_p"
    BY <1>8 DEF CreateOf
  <2> QED
    BY <1>1, <1>2, <1>3, <2>3, <2>4, <2>5 DEF KmsInv, KmsSound
<1> QED
  BY <1>6, <1>7, <1>8 DEF FindPlane, Go, Fail

LEMMA CreateStep ==
  ASSUME KmsInv, NEW k \in {"c", "o", "p"}, CreateFramebuffer(k)
  PROVE  KmsInv'
<1> DEFINE here == IF k = "c" THEN "create_c" ELSE IF k = "o" THEN "create_o" ELSE "create_p"
           there == IF k = "c" THEN "show_c" ELSE IF k = "o" THEN "show_o" ELSE "show_p"
<1>1. CreateOf[k] = here /\ ShowOf[k] = there
  BY DEF CreateOf, ShowOf
<1>2. /\ prog = "universal_planes" /\ pc = here
      /\ UNCHANGED <<prog, said, options, screens, crtcs, planes, chosen, drmFd>>
      /\ (fbs' = fbs \cup {k} /\ pc' = there) \/ (pc' = "exit" /\ UNCHANGED fbs)
  BY <1>1 DEF CreateFramebuffer, Universal, At, Go, Fail
<1>3. prog \in KmsProgs /\ prog' \in KmsProgs
  BY <1>2 DEF KmsProgs
<1>4. Blocks = {"c", "o", "p"}
  BY DEF Blocks, PlaneOf
<1>5. KmsTypeOK'
  BY <1>2, <1>4 DEF KmsInv, KmsTypeOK
<1>6. /\ drmFd /\ said # "pass" /\ chosen \in DOMAIN planes
      /\ k = "c" => "c" \in options /\ fbs = {}
      /\ k = "o" => "o" \in options
      /\ k = "p" => "p" \in options /\ "o" \notin options /\ fbs = options \cap {"c"}
  BY <1>2, <1>3 DEF KmsInv
<1> QED
  BY <1>2, <1>3, <1>5, <1>6 DEF KmsInv, KmsSound

LEMMA ShowStep ==
  ASSUME KmsInv, NEW k \in {"c", "o", "p"}, Show(k)
  PROVE  KmsInv'
<1> DEFINE here == IF k = "c" THEN "show_c" ELSE IF k = "o" THEN "show_o" ELSE "show_p"
<1>1. ShowOf[k] = here
  BY DEF ShowOf
<1>2. prog = "universal_planes" /\ pc = here /\ UNCHANGED <<prog, said, kmsVars>>
  BY <1>1 DEF Show, Universal, At, Go, Fail
<1>3. prog \in KmsProgs /\ prog' \in KmsProgs
  BY <1>2 DEF KmsProgs
<1>4. Blocks = {"c", "o", "p"}
  BY DEF Blocks, PlaneOf
<1>5. KmsTypeOK /\ KmsTypeOK' /\ Complete' = Complete
  BY <1>2 DEF KmsInv, KmsTypeOK, Complete, Num, kmsVars
<1>6. /\ drmFd /\ said # "pass" /\ chosen \in DOMAIN planes
      /\ k = "c" => "c" \in options /\ fbs = {"c"}
      /\ k = "o" => "o" \in options
      /\ k = "p" => "p" \in options /\ "o" \notin options /\ fbs = (options \cap {"c"}) \cup {"p"}
  BY <1>2, <1>3 DEF KmsInv
<1>7. /\ pc' \in {"fault", "exit", NextBlock(k)}
      /\ pc' # "fault" => k # "o"
      /\ pc' = "fault" => k = "o" \/ ~Complete
  <2>1. k # "o" => NextBlock(k) # "fault"
    BY NextBlockIs
  <2> QED
    BY <1>5, <1>6, <2>1, WhenComplete DEF Show, Go, Fail, Complete
<1>8. CASE pc' = "fault"
  BY <1>2, <1>3, <1>5, <1>6, <1>7, <1>8 DEF KmsInv, KmsSound, kmsVars
<1>9. CASE pc' = "exit"
  BY <1>2, <1>3, <1>5, <1>6, <1>9 DEF KmsInv, KmsSound, kmsVars
<1>10. CASE k = "c" /\ pc' = NextBlock("c")
  <2>1. /\ pc' \in {"o", "p", "loop"} /\ (pc' = "o" => "o" \in options)
        /\ pc' = "p" => "p" \in options /\ "o" \notin options
        /\ pc' = "loop" => "o" \notin options /\ "p" \notin options
    BY <1>10, NextBlockIs
  <2>2. /\ fbs = {"c"} /\ options \cap {"c"} = {"c"} /\ "c" \in options
        /\ pc' = "loop" => fbs = options \cap Blocks
    BY <1>4, <1>6, <1>10, <2>1
  <2> QED
    BY <1>2, <1>3, <1>5, <1>6, <2>1, <2>2 DEF KmsInv, KmsSound, kmsVars
<1>11. CASE k = "p" /\ pc' = NextBlock("p")
  <2>1. pc' = "loop"
    BY <1>11, NextBlockIs
  <2>2. fbs = options \cap Blocks
    BY <1>4, <1>6, <1>11
  <2> QED
    BY <1>2, <1>3, <1>5, <1>6, <1>11, <2>1, <2>2 DEF KmsInv, KmsSound, kmsVars
<1> QED
  BY <1>7, <1>8, <1>9, <1>10, <1>11

LEMMA KmsEndStep ==
  ASSUME KmsInv, KeyPressed \/ FreeFramebuffers \/ KmsClose \/ StealCrtc
  PROVE  KmsInv'
<1> USE DEF KmsInv, KmsSound, KmsProgs, At, Go, Fail, Say, Universal
<1>1. CASE KeyPressed
  BY <1>1 DEF KeyPressed, KmsTypeOK, kmsVars
<1>2. CASE FreeFramebuffers
  <2>1. /\ prog = "universal_planes" /\ pc = "free" /\ pc' = "close" /\ fbs' = fbs \ Blocks
        /\ UNCHANGED <<prog, said, options, screens, crtcs, planes, chosen, drmFd>>
    BY <1>2 DEF FreeFramebuffers, FreeOnly
  <2>2. fbs' = {}
    BY <2>1 DEF KmsTypeOK
  <2>3. KmsTypeOK'
    BY <2>1, <2>2 DEF KmsTypeOK
  <2> QED
    BY <2>1, <2>2, <2>3
<1>3. CASE KmsClose
  BY <1>3 DEF KmsClose, KmsTypeOK
<1>4. CASE StealCrtc
  <2>1. /\ prog = "steal_crtc" /\ pc = "steal" /\ UNCHANGED <<prog, said, kmsVars>>
        /\ pc' \in {"close", "fault", "exit"} /\ (pc' = "fault" => screens[1] = Nil)
    BY <1>4 DEF StealCrtc
  <2>2. KmsTypeOK' /\ Complete' = Complete
    BY <2>1 DEF KmsTypeOK, Complete, Num, kmsVars
  <2>3. pc' = "fault" => ~Complete
    BY <2>1, WhenComplete
  <2>4. fbs = {} /\ drmFd /\ said # "pass"
    BY <2>1
  <2> QED
    BY <2>1, <2>2, <2>3, <2>4 DEF kmsVars
<1> QED
  BY <1>1, <1>2, <1>3, <1>4

LEMMA KmsKept == ASSUME KmsInv, Next PROVE KmsInv'
<1>1. CASE KmsNext
  <2>1. Blocks = {"c", "o", "p"}
    BY DEF Blocks, PlaneOf
  <2> QED
    BY <1>1, <2>1, KmsProbeStep, VerboseStep, FindPlaneStep, CreateStep, ShowStep, KmsEndStep
       DEF KmsNext, KmsProgram
<1>2. CASE prog \notin KmsProgs /\ UNCHANGED kmsVars
  <2>1. prog' = prog
    BY WhoMoves DEF StepOf
  <2> QED
    BY <1>2, <2>1 DEF KmsInv, KmsTypeOK, KmsSound, kmsVars
<1> QED
  BY <1>1, <1>2, WhoMoves

LEMMA KmsStart == ASSUME Init PROVE KmsInv
<1>1. /\ options = {} /\ chosen = 1 /\ fbs = {} /\ drmFd = FALSE /\ pc = "start" /\ said = "none"
      /\ screens = [i \in 1..KmsPipes |-> Nil] /\ crtcs = [i \in 1..KmsPipes |-> Nil]
      /\ planes = [i \in DOMAIN KmsPlaneTypes |-> Nil]
  BY DEF Init, KmsInit
<1>2. Nil \in [type : {"nil", "overlay", "primary", "cursor"}, formats : BOOLEAN, crtc : BOOLEAN]
  BY DEF Nil
<1>3. KmsTypeOK
  BY <1>1, <1>2 DEF KmsTypeOK
<1> QED
  BY <1>1, <1>3 DEF KmsInv, KmsSound

-----------------------------------------------------------------------------
(* The bench                                                               *)

BenchInv ==
  /\ prog \in Programs /\ said \in {"none", "pass", "fail"} /\ broke \in BOOLEAN
  /\ RtcInv /\ WdgInv /\ TimInv /\ StInv /\ VolInv /\ UartInv /\ CdcInv /\ SpiInv
  /\ PwmInv /\ ClkInv /\ OneInv /\ MulInv /\ KmsInv /\ VblInv

LEMMA BenchStart == ASSUME Init PROVE BenchInv
<1>1. prog \in Programs /\ said \in {"none", "pass", "fail"} /\ broke \in BOOLEAN
  BY DEF Init
<1> QED
  BY <1>1, RtcStart, WdgStart, TimStart, StStart, VolStart, UartStart, CdcStart, SpiStart,
     PwmBegin, ClkStart, OneStart, MulStart, KmsStart, VblStart DEF BenchInv

LEMMA BenchStep == ASSUME BenchInv, Next PROVE BenchInv'
<1>1. prog' \in Programs /\ said' \in {"none", "pass", "fail"} /\ broke' \in BOOLEAN
  BY WhoMoves DEF BenchInv, StepOf
<1>2. RtcInv' /\ WdgInv' /\ TimInv' /\ StInv' /\ VolInv'
  BY RtcKept, WdgKept, TimKept, StKept, VolKept DEF BenchInv
<1>3. UartInv' /\ CdcInv' /\ SpiInv' /\ PwmInv' /\ ClkInv'
  BY UartKept, CdcKept, SpiKept, PwmKept, ClkKept DEF BenchInv
<1>4. OneInv' /\ MulInv' /\ KmsInv' /\ VblInv'
  BY OneKept, MulKept, KmsKept, VblKept DEF BenchInv
<1> QED
  BY <1>1, <1>2, <1>3, <1>4 DEF BenchInv

LEMMA BenchRests == ASSUME BenchInv, UNCHANGED vars PROVE BenchInv'
<1>1. UNCHANGED <<prog, pc, said, broke>>
  BY DEF vars, progVars
<1> USE <1>1 DEF vars, At
<1>2. ASSUME RtcInv PROVE RtcInv'
  BY <1>2 DEF RtcInv, RtcTypeOK, AlarmTenAhead, rtcVars
<1>3. ASSUME WdgInv PROVE WdgInv'
  BY <1>3 DEF WdgInv, WdgTypeOK, FedInTime, wdgVars
<1>4. ASSUME TimInv PROVE TimInv'
  BY <1>4 DEF TimInv, TimTypeOK, IntervalTrue, Asked, Period, timVars
<1>5. ASSUME StInv PROVE StInv'
  BY <1>5 DEF StInv, StTypeOK, stVars
<1>6. ASSUME VolInv PROVE VolInv'
  BY <1>6 DEF VolInv, VolTypeOK, PassMeansChanged, volVars
<1>7. ASSUME UartInv PROVE UartInv'
  BY <1>7 DEF UartInv, UartTypeOK, EchoIsFaithful, Undisturbed, Held, uartVars
<1>8. ASSUME CdcInv PROVE CdcInv'
  BY <1>8 DEF CdcInv, CdcTypeOK, AnswerPending, cdcVars
<1>9. ASSUME SpiInv PROVE SpiInv'
  BY <1>9 DEF SpiInv, SpiTypeOK, SpiAt, Heard, OnWire, SameData, ClockedByMaster, spiVars
<1>10. ASSUME PwmInv PROVE PwmInv'
  BY <1>10 DEF PwmInv, PwmTypeOK, PwmRefusalExplained, pwmVars
<1>11. ASSUME ClkInv PROVE ClkInv'
  BY <1>11 DEF ClkInv, ClkTypeOK, ClocksBalance, clkVars
<1>12. ASSUME OneInv PROVE OneInv'
  BY <1>12 DEF OneInv, OneTypeOK, MessageIsEarned, Call, Uses, oneVars
<1>13. ASSUME MulInv PROVE MulInv'
  BY <1>13 DEF MulInv, MulTypeOK, MultiContained, mulVars
<1>14. ASSUME KmsInv PROVE KmsInv'
  BY <1>14 DEF KmsInv, KmsTypeOK, KmsSound, Complete, Num, kmsVars
<1>15. ASSUME VblInv PROVE VblInv'
  BY <1>15 DEF VblInv, VblTypeOK, VblAt, FrequencyNearTrue, Events, Timed, vblVars
<1>16. prog' \in Programs /\ said' \in {"none", "pass", "fail"} /\ broke' \in BOOLEAN
  BY DEF BenchInv
<1> QED
  BY <1>2, <1>3, <1>4, <1>5, <1>6, <1>7, <1>8, <1>9, <1>10, <1>11, <1>12, <1>13, <1>14, <1>15,
     <1>16 DEF BenchInv

LEMMA BenchHolds == Spec => []BenchInv
<1>1. Init => BenchInv
  BY BenchStart
<1>2. BenchInv /\ [Next]_vars => BenchInv'
  BY BenchStep, BenchRests
<1> QED
  BY <1>1, <1>2, PTL DEF Spec

\* Every variable of every program keeps its type, whatever the number of runs, ticks,
\* bindings, planes and characters: echo buffers, counters and time-outs in bounds.
THEOREM TypeCorrect == Spec => []TypeOK
<1>1. BenchInv => TypeOK
  BY DEF BenchInv, TypeOK, RtcInv, WdgInv, TimInv, StInv, VolInv, UartInv, CdcInv, SpiInv,
         PwmInv, ClkInv, OneInv, MulInv, KmsInv, VblInv
<1> QED
  BY <1>1, BenchHolds, PTL

\* The alarm of rtc.c is ten seconds ahead, watchdog.c feeds in time, the timer module
\* prints the interval that passed, system_timer counts every expiration once, and
\* vbltest prints a frequency that is at most one event too high.
THEOREM TimeIsKept == Spec => []TimeKept
<1>1. BenchInv => TimeKept
  BY StGives DEF BenchInv, TimeKept, RtcInv, WdgInv, TimInv, VblInv
<1> QED
  BY <1>1, BenchHolds, PTL

\* What uart.c echoes is what was typed, until a read comes within a byte of filling the
\* buffer or a NUL is typed, and an answer that usbh_cdc_acm.c waits for is on its way.
THEOREM EchoIsKept == Spec => []EchoKept
<1>1. BenchInv => EchoKept
  BY DEF BenchInv, EchoKept, UartInv, CdcInv
<1> QED
  BY <1>1, BenchHolds, PTL

\* PASS of voltage.c, the last message of the one-shot programs and the verdicts of the
\* two processes of spi.c, whatever their lengths and with noise on either wire, are
\* earned.
THEOREM VerdictsAreEarned == Spec => []VerdictsEarned
<1>1. BenchInv => VerdictsEarned
  BY VerdictsFollow DEF BenchInv, VerdictsEarned, VolInv, OneInv
<1> QED
  BY <1>1, BenchHolds, PTL

\* What pwm.c, the clock driver, dmac_multi and the kms programs take is given back, and
\* where it is not, the cause is one that the property names.
THEOREM NothingIsLeftBehind == Spec => []NothingLeftBehind
<1>1. BenchInv => NothingLeftBehind
  BY DEF BenchInv, NothingLeftBehind, PwmInv, ClkInv, MulInv, KmsInv
<1> QED
  BY <1>1, BenchHolds, PTL

=============================================================================
