------------------------------- MODULE Voltage ------------------------------
(***************************************************************************)
(* pm_voltage/voltage.c: ask for the other core voltage, sleep, and see    *)
(* after the wake-up whether it changed; if not, try again.                *)
(***************************************************************************)
EXTENDS Program

VARIABLES
  vol,         \* the core voltage: 9 (0.9 V) or 10 (1.0 V)
  target,      \* what the firmware will set at the next wake-up
  vol_before,  \* what the first VOLTAGE_GET of the round returned
  val,         \* what the second one returned
  slept        \* history: the board has slept in this round

volVars == <<vol, target, vol_before, val, slept>>

VOL_09 == 9
VOL_10 == 10
Unknown == 0  \* the misc driver could not read the voltage
Voltages == {VOL_09, VOL_10}

VolTypeOK ==
  /\ vol \in Voltages /\ target \in Voltages
  /\ vol_before \in Voltages \cup {Unknown} /\ val \in Voltages \cup {Unknown}
  /\ slept \in BOOLEAN

VolInit ==
  /\ vol \in Voltages /\ target = vol
  /\ vol_before = Unknown /\ val = Unknown /\ slept = FALSE

\* Step 1: both cpus are set to 660 MHz and checked, then the device is opened;
\* popen(), a frequency or the device may fail.
SetFrequency ==
  /\ At("voltage", "start")
  /\ Go("get") \/ Fail("exit")
  /\ UNCHANGED volVars

\* What VOLTAGE_GET may answer when it does not fail.
Reading == {vol, Unknown}

GetBefore ==
  /\ At("voltage", "get")
  /\ \/ \E v \in Reading :
          /\ vol_before' = v
          /\ IF v = Unknown THEN Fail("exit") ELSE Go("set")
     \/ Fail("exit") /\ UNCHANGED vol_before
  /\ slept' = FALSE
  /\ UNCHANGED <<vol, target, val>>

\* Step 2: the other voltage, from the next wake-up on.
SetVoltage ==
  /\ At("voltage", "set")
  /\ \/ target' = (IF vol_before = VOL_10 THEN VOL_09 ELSE VOL_10) /\ Go("sleep")
     \/ Fail("exit") /\ UNCHANGED target
  /\ UNCHANGED <<vol, vol_before, val, slept>>

\* Steps 3 and 4: what the shell commands return is not looked at; a board that a
\* wake lock or a device keeps awake does not sleep.
Asleep == At("voltage", "sleep") /\ Go("check") /\ UNCHANGED <<target, vol_before, val>>
Sleeps == Asleep /\ vol' = target /\ slept' = TRUE
StaysAwake == Asleep /\ UNCHANGED <<vol, slept>>

\* Steps 5 and 6: the second answer is compared with the first but not with 0.
CheckAgainst(before) ==
  /\ At("voltage", "check")
  /\ \/ /\ val' \in Reading
        /\ IF val' # before THEN Say("pass", "exit") ELSE Go("get")
     \/ Fail("exit") /\ UNCHANGED val
  /\ UNCHANGED <<vol, target, vol_before, slept>>

\* Mutant: the second answer is compared with the value asked for.
CheckTarget == CheckAgainst(target)

Check == CheckAgainst(vol_before)

VolProgram == SetFrequency \/ GetBefore \/ SetVoltage \/ Sleeps \/ StaysAwake \/ Check

-----------------------------------------------------------------------------
(* Properties.                                                             *)

\* PASS means that the board slept with the other voltage requested and woke with
\* it, or that the second reading was 0, which the code takes for a change.
PassMeansChanged ==
  prog = "voltage" /\ said = "pass" =>
    val = Unknown \/ (slept /\ vol = target /\ vol # vol_before)

=============================================================================
