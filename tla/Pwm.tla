--------------------------------- MODULE Pwm --------------------------------
(***************************************************************************)
(* pwm/pwm.c: export a channel, set it up, let it run for ten seconds, and *)
(* take it back.  The channel outlives the program, so the operator runs   *)
(* it again and again, and may interrupt it.                               *)
(***************************************************************************)
EXTENDS Program

CONSTANTS PwmArgs,  \* arguments: records of period and duty
          PwmRuns   \* bound on the runs

ASSUME PwmAssumption == PwmArgs \subseteq [period : Nat, duty : Nat] /\ PwmRuns \in Nat

VARIABLES
  arg,                \* arguments of this run
  runs,               \* runs so far
  exported, enabled,  \* the channel: its sysfs node, its output
  period, duty,       \* its settings, which the kernel keeps
  stale,              \* history: an earlier run ended without unexporting
  oldDuty             \* history: the duty cycle when this run began

pwmVars == <<arg, runs, exported, enabled, period, duty, stale, oldDuty>>

PwmTypeOK ==
  /\ arg \in PwmArgs \cup {[period |-> 0, duty |-> 0]}
  /\ runs \in 0..PwmRuns
  /\ exported \in BOOLEAN /\ enabled \in BOOLEAN /\ stale \in BOOLEAN
  /\ period \in Nat /\ duty \in Nat /\ oldDuty \in Nat

PwmInit ==
  /\ arg = [period |-> 0, duty |-> 0] /\ runs = 0
  /\ exported = FALSE /\ enabled = FALSE /\ stale = FALSE
  /\ period = 0 /\ duty = 0 /\ oldDuty = 0

-----------------------------------------------------------------------------
\* One call: what the kernel refuses ends the program, as does any other error.
PwmCall(l, accepted, next) ==
  /\ At("pwm", l)
  /\ \/ accepted /\ Go(next)
     \/ Fail("exit")
     \/ ~accepted /\ Say("fail", "exit")

PwmStart ==
  /\ At("pwm", "start") \/ At("pwm", "exit")
  /\ runs < PwmRuns
  /\ runs' = runs + 1
  /\ arg' \in PwmArgs
  /\ oldDuty' = duty
  /\ stale' = exported
  /\ pc' = "export" /\ said' = "none" /\ broke' = FALSE
  /\ UNCHANGED <<prog, exported, enabled, period, duty>>

\* The kernel refuses to export a channel twice.
ExportPwm ==
  /\ PwmCall("export", ~exported, "nodes")
  /\ exported' = (exported \/ pc' = "nodes")
  /\ UNCHANGED <<arg, runs, enabled, period, duty, stale, oldDuty>>

OpenPwmNodes ==
  /\ PwmCall("nodes", TRUE, "period")
  /\ UNCHANGED pwmVars

\* A period of 0, or below the duty cycle the channel has, is refused.
SetPeriod ==
  /\ PwmCall("period", arg.period > 0 /\ duty <= arg.period, "duty")
  /\ period' = IF pc' = "duty" THEN arg.period ELSE period
  /\ UNCHANGED <<arg, runs, exported, enabled, duty, stale, oldDuty>>

SetDuty ==
  /\ PwmCall("duty", arg.duty <= period, "enable")
  /\ duty' = IF pc' = "enable" THEN arg.duty ELSE duty
  /\ UNCHANGED <<arg, runs, exported, enabled, period, stale, oldDuty>>

EnablePwm ==
  /\ PwmCall("enable", TRUE, "running")
  /\ enabled' = (enabled \/ pc' = "running")
  /\ UNCHANGED <<arg, runs, exported, period, duty, stale, oldDuty>>

\* After sleep(10).
DisablePwm ==
  /\ PwmCall("running", TRUE, "unexport")
  /\ enabled' = (enabled /\ pc' # "unexport")
  /\ UNCHANGED <<arg, runs, exported, period, duty, stale, oldDuty>>

UnexportTo(still) ==
  /\ At("pwm", "unexport")
  /\ \/ Say("pass", "exit") /\ exported' = still
     \/ Fail("exit") /\ UNCHANGED exported
  /\ UNCHANGED <<arg, runs, enabled, period, duty, stale, oldDuty>>

\* Mutant: the node is closed but not unexported.
UnexportPwmNot == UnexportTo(TRUE)

UnexportPwm == UnexportTo(FALSE)

PwmProgram ==
  \/ ExportPwm \/ OpenPwmNodes \/ SetPeriod \/ SetDuty \/ EnablePwm
  \/ DisablePwm \/ UnexportPwm

\* The user interrupts the program.
PwmKill ==
  /\ prog = "pwm" /\ pc \notin {"start", "exit"}
  /\ Fail("exit")
  /\ UNCHANGED pwmVars

-----------------------------------------------------------------------------
(* Properties.                                                             *)

\* A run that gets to its end leaves the channel neither exported nor enabled, and
\* while it sleeps the output is the one asked for.  A run that the kernel refuses
\* was given impossible arguments, or meets what an earlier one left: a node, which
\* no later run ever removes, or a duty cycle above the new period, which is set first.
PwmRefusalExplained ==
  prog = "pwm" =>
    /\ said = "pass" => ~exported /\ ~enabled
    /\ pc = "running" => enabled /\ period = arg.period /\ duty = arg.duty
    /\ said = "fail" => \/ stale \/ arg.period = 0 \/ arg.duty > arg.period
                        \/ oldDuty > arg.period

=============================================================================
