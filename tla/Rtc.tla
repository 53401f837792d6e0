-------------------------------- MODULE Rtc ---------------------------------
(***************************************************************************)
(* rtc/rtc.c: options -r, -w and -s in the order given, over one           *)
(* descriptor, against a clock that ticks on its own.  now counts seconds  *)
(* from midnight of day 0; the alarm ioctls carry a time of day.           *)
(***************************************************************************)
EXTENDS Program

CONSTANTS RtcStarts,   \* times at which the program may be started
          RtcArgs,     \* option strings
          RtcTicks     \* bound on the ticks of the clock

Day == 24 * 60 * 60

\* The program is not kept from running for a whole day.
ASSUME RtcAssumption ==
  /\ RtcStarts \subseteq Nat
  /\ RtcArgs \subseteq Seq({"r", "w", "s", "?"})
  /\ RtcTicks \in 0..(Day - 1)

VARIABLES
  now,           \* the clock
  ticks,         \* ticks so far
  args,          \* options that getopt() has not returned yet
  tm,            \* tm of main()
  alarm,         \* the driver's alarm, in seconds as now
  aie, data,     \* alarm interrupt enabled; alarm not yet read
  readAt, setAt  \* history: the clock at RTC_RD_TIME and at RTC_ALM_SET

rtcVars == <<now, ticks, args, tm, alarm, aie, data, readAt, setAt>>

TimeOfDay(s) == [hour |-> (s % Day) \div 3600, min |-> (s % 3600) \div 60, sec |-> s % 60]
Seconds(t) == t.hour * 3600 + t.min * 60 + t.sec
Valid(t) == t.hour < 24 /\ t.min < 60 /\ t.sec < 60
Times == [hour : 0..24, min : 0..60, sec : 0..69]

RtcTypeOK ==
  /\ now \in Nat /\ alarm \in Nat /\ readAt \in Nat /\ setAt \in Nat
  /\ ticks \in 0..RtcTicks
  /\ args \in Seq({"r", "w", "s", "?"})
  /\ tm \in Times
  /\ aie \in BOOLEAN /\ data \in BOOLEAN

RtcInit ==
  /\ now = 0 /\ ticks = 0 /\ args = << >>
  /\ tm = TimeOfDay(0)
  /\ alarm = 0 /\ aie = FALSE /\ data = FALSE
  /\ readAt = 0 /\ setAt = 0

-----------------------------------------------------------------------------
(* main().                                                                 *)

RtcOpen ==
  /\ At("rtc", "start")
  /\ \/ \E a \in RtcArgs, s \in RtcStarts :
          args' = a /\ now' = s /\ Go("getopt")
     \/ Fail("exit") /\ UNCHANGED <<now, args>>
  /\ UNCHANGED <<ticks, tm, alarm, aie, data, readAt, setAt>>

\* What the option functions return is not looked at, so a failed one only prints.
GetOpt ==
  /\ At("rtc", "getopt")
  /\ IF args = << >> \/ Head(args) = "?"
       THEN Go("exit") /\ UNCHANGED args
       ELSE Go(Head(args)) /\ args' = Tail(args)
  /\ UNCHANGED <<now, ticks, tm, alarm, aie, data, readAt, setAt>>

RtcRead ==
  /\ At("rtc", "r")
  /\ \/ tm' = TimeOfDay(now) /\ Go("getopt")
     \/ Fail("getopt") /\ UNCHANGED tm
  /\ UNCHANGED <<now, ticks, args, alarm, aie, data, readAt, setAt>>

\* RTC_SET_TIME to 08:08:08.
RtcWrite ==
  /\ At("rtc", "w")
  /\ tm' = [hour |-> 8, min |-> 8, sec |-> 8]
  /\ \/ now' = Seconds(tm') /\ Go("getopt")
     \/ Fail("getopt") /\ UNCHANGED now
  /\ UNCHANGED <<ticks, args, alarm, aie, data, readAt, setAt>>

-----------------------------------------------------------------------------
(* rtc_set_alarm().                                                        *)

\* Ten seconds later: the three carries, none of which touches the date.
CarryFrom(t, full) ==
  LET s == t.sec + 10
      m == IF s >= full THEN t.min + 1 ELSE t.min
      h == IF m = 60 THEN t.hour + 1 ELSE t.hour
  IN [hour |-> IF h = 24 THEN 0 ELSE h,
      min  |-> IF m = 60 THEN 0 ELSE m,
      sec  |-> IF s >= full THEN s % 60 ELSE s]

\* Mutant: if (tm_sec > 60).
CarryLate(t) == CarryFrom(t, 61)

Carry(t) == CarryFrom(t, 60)

RdTime ==
  /\ At("rtc", "s")
  /\ \/ /\ tm' = Carry(TimeOfDay(now))
        /\ readAt' = now
        /\ Go("almset")
     \/ Fail("getopt") /\ UNCHANGED <<tm, readAt>>
  /\ UNCHANGED <<now, ticks, args, alarm, aie, data, setAt>>

\* The driver supplies the date: today, or tomorrow if that time has passed.
NextOccurrence(t) ==
  LET today == (now \div Day) * Day + Seconds(t)
  IN IF today < now THEN today + Day ELSE today

\* RTC_ALM_SET; an alarm that was enabled is taken out.
AlmSet ==
  /\ At("rtc", "almset")
  /\ \/ /\ Valid(tm)
        /\ alarm' = NextOccurrence(tm)
        /\ setAt' = now
        /\ aie' = FALSE
        /\ Go("almread")
     \/ Fail("getopt") /\ UNCHANGED <<alarm, setAt, aie>>
  /\ UNCHANGED <<now, ticks, args, tm, data, readAt>>

AlmRead ==
  /\ At("rtc", "almread")
  /\ \/ tm' = TimeOfDay(alarm) /\ Go("aieon")
     \/ Fail("getopt") /\ UNCHANGED tm
  /\ UNCHANGED <<now, ticks, args, alarm, aie, data, readAt, setAt>>

AieTo(enabled) ==
  /\ At("rtc", "aieon")
  /\ \/ aie' = enabled /\ Go("wait")
     \/ Fail("getopt") /\ UNCHANGED aie
  /\ UNCHANGED <<now, ticks, args, tm, alarm, data, readAt, setAt>>

\* Mutant: RTC_AIE_OFF.
AieOff == AieTo(FALSE)

AieOn == AieTo(TRUE)

\* read() blocks until the alarm has rung.
AlarmRead ==
  /\ At("rtc", "wait")
  /\ data /\ data' = FALSE
  /\ Say("pass", "getopt")
  /\ UNCHANGED <<now, ticks, args, tm, alarm, aie, readAt, setAt>>

\* A signal or the driver ends the wait with an error.
AlarmReadFails ==
  /\ At("rtc", "wait")
  /\ Fail("getopt")
  /\ UNCHANGED rtcVars

RtcProgram ==
  \/ RtcOpen \/ GetOpt \/ RtcRead \/ RtcWrite
  \/ RdTime \/ AlmSet \/ AlmRead \/ AieOn \/ AlarmRead

-----------------------------------------------------------------------------
(* The clock.                                                              *)

Ring ==
  /\ prog = "rtc"
  /\ aie /\ now >= alarm
  /\ data' = TRUE /\ aie' = FALSE
  /\ UNCHANGED <<progVars, now, ticks, args, tm, alarm, readAt, setAt>>

Tick ==
  /\ prog = "rtc" /\ pc # "start"
  /\ ticks < RtcTicks
  /\ ticks' = ticks + 1 /\ now' = now + 1
  /\ UNCHANGED <<progVars, args, tm, alarm, aie, data, readAt, setAt>>

-----------------------------------------------------------------------------
(* Properties.                                                             *)

\* What rtc_set_alarm() hands to the driver is a time of day, and the alarm it waits
\* for is ten seconds after the time it read, through the carries into minute, hour
\* and the day it does not carry into; only if those ten seconds pass before
\* RTC_ALM_SET is it a day late.
AlarmTenAhead ==
  prog = "rtc" =>
    /\ pc = "almset" => Valid(tm)
    /\ pc \in {"almread", "aieon", "wait"} =>
         alarm = readAt + 10 + (IF setAt > readAt + 10 THEN Day ELSE 0)

=============================================================================
