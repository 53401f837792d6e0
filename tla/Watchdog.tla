------------------------------ MODULE Watchdog ------------------------------
(***************************************************************************)
(* watchdog/watchdog.c: feed the watchdog four times, each time three      *)
(* seconds before it would expire, then wait for the reset.  The device    *)
(* counts seconds whatever the program does.  clock_gettime() is given an  *)
(* int to fill, so that each call also writes to what lies behind it.      *)
(***************************************************************************)
EXTENDS Program

CONSTANTS Timeouts,   \* time-outs, in seconds, the device may be set to
          Unsigned    \* sleep() takes its argument modulo this

ASSUME WatchdogAssumption ==
  /\ Timeouts \subseteq Nat \ {0}
  /\ Unsigned \in Nat \ {0} /\ \A t \in Timeouts : t < Unsigned

WDG_FEED_PRE_TIMEOUT == 3
WDG_FEED_COUNT == 4

VARIABLES
  timeout,   \* timeout of main(), and of the device
  feeds,     \* i of main()
  behind,    \* what the build has laid behind gettime0 and gettime1
  left,      \* seconds of sleep() left
  counting,  \* the device runs
  count,     \* seconds since it was last fed
  delay      \* history: of these, the ones in which the program could have run

wdgVars == <<timeout, feeds, behind, left, counting, count, delay>>

\* "nothing" stands for a variable that is set again before it is used.
Neighbours == {"nothing", "timeout", "i", "fd"}

WdgTypeOK ==
  /\ timeout \in Timeouts \cup {0}
  /\ feeds \in 0..WDG_FEED_COUNT
  /\ behind \in Neighbours
  /\ left \in 0..(Unsigned - 1)
  /\ counting \in BOOLEAN
  /\ count \in 0..timeout
  /\ delay \in 0..count

WdgInit ==
  /\ timeout = 0 /\ feeds = 0 /\ behind = "nothing" /\ left = 0
  /\ counting = FALSE /\ count = 0 /\ delay = 0

-----------------------------------------------------------------------------
\* Opening the device starts it.
WdgOpen ==
  /\ At("watchdog", "start")
  /\ behind' \in Neighbours
  /\ \/ timeout' \in Timeouts /\ counting' = TRUE /\ Go("gettimeout")
     \/ Fail("exit") /\ UNCHANGED <<timeout, counting>>
  /\ UNCHANGED <<feeds, left, count, delay>>

\* Every error return closes the device without the magic character: it goes on
\* counting, unless the driver stops on any close.
WdgReturns == Fail("exit") /\ counting' \in BOOLEAN

GetTimeout ==
  /\ At("watchdog", "gettimeout")
  /\ \/ Go("sleep") /\ UNCHANGED counting
     \/ WdgReturns
  /\ UNCHANGED <<timeout, feeds, behind, left, count, delay>>

\* Where the time-out was overwritten by clock_gettime(), the sleep is arbitrary.
SleepFor(s) ==
  /\ At("watchdog", "sleep")
  /\ left' \in IF behind = "timeout" THEN 0..(Unsigned - 1) ELSE {s % Unsigned}
  /\ Go("asleep")
  /\ UNCHANGED <<timeout, feeds, behind, counting, count, delay>>

\* Mutant: sleep(timeout).
SleepTooLong == SleepFor(timeout)

Sleep == SleepFor(timeout - WDG_FEED_PRE_TIMEOUT)

\* An overwritten descriptor cannot be fed; an overwritten i ends the feeding at any
\* time or never.
Feed ==
  /\ At("watchdog", "asleep")
  /\ left = 0
  /\ \/ /\ behind # "fd"
        /\ count' = 0 /\ delay' = 0
        /\ feeds' = IF feeds < WDG_FEED_COUNT THEN feeds + 1 ELSE feeds
        /\ \E stop \in IF behind = "i" THEN BOOLEAN ELSE {feeds' = WDG_FEED_COUNT} :
             Go(IF stop THEN "stop" ELSE "sleep")
        /\ UNCHANGED counting
     \/ WdgReturns /\ UNCHANGED <<feeds, count, delay>>
  /\ UNCHANGED <<timeout, behind, left>>

WdgProgram == WdgOpen \/ GetTimeout \/ Sleep \/ Feed

\* A second passes; the board is reset when the count is up.  In state "stop" the
\* program only prints, once a second.
Second ==
  /\ prog = "watchdog" /\ counting /\ pc # "reset"
  /\ count' = count + 1
  /\ left' = IF left > 0 THEN left - 1 ELSE 0
  /\ delay' = IF pc = "asleep" /\ left > 0 THEN delay ELSE delay + 1
  /\ IF count' = timeout THEN Go("reset") ELSE UNCHANGED progVars
  /\ UNCHANGED <<timeout, feeds, behind, counting>>

-----------------------------------------------------------------------------
(* Properties.                                                             *)

\* A board that is reset before the fourth feed had a time-out below the margin
\* (timeout - 3 is then a sleep of almost 2^32 seconds), a program that was kept
\* from running for three seconds, or one that returned on an error; and the fourth
\* feed is the last.  It is so where the build keeps clear of the variables that
\* the misdirected clock_gettime() calls reach.
FedInTime ==
  prog = "watchdog" /\ behind = "nothing" =>
    /\ pc = "reset" /\ feeds < WDG_FEED_COUNT =>
         broke \/ timeout < WDG_FEED_PRE_TIMEOUT \/ delay >= WDG_FEED_PRE_TIMEOUT
    /\ pc = "stop" <=> feeds = WDG_FEED_COUNT /\ pc \notin {"exit", "reset"}

=============================================================================
