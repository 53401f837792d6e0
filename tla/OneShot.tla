------------------------------- MODULE OneShot ------------------------------
(***************************************************************************)
(* The programs that make a fixed sequence of calls on one descriptor:     *)
(* sdioh, ir, adc, thermal, audio_pll, misc, captouch and drm/kmstest.     *)
(* Each is a script; what differs between them, and matters, is which      *)
(* results they look at.                                                   *)
(***************************************************************************)
EXTENDS Program

VARIABLES
  step,   \* number of the call to be made next
  fd,     \* "none", "open", "bad" (open() failed) or "closed"
  misuse  \* history: a call was made on a descriptor that is not open

oneVars == <<step, fd, misuse>>

\* A call, and whether the program looks at its result; in Endless programs the last
\* calls are repeated for ever.
Checked(c) == [call |-> c, checked |-> TRUE]
Ignored(c) == [call |-> c, checked |-> FALSE]

SdiohScript ==
  <<Checked("open"), Checked("write"), Checked("lseek"), Checked("read"),
    Ignored("close"), Ignored("pass")>>

IrScript ==
  <<Checked("open"), Checked("ioctl"), Checked("write"), Ignored("close"), Ignored("pass")>>

\* Raw count, offset and scale, for a single channel or a pair.
AdcScript ==
  <<Checked("args"),
    Checked("open"), Checked("read"), Ignored("close"),
    Checked("open"), Checked("read"), Ignored("close"),
    Checked("open"), Checked("read"), Ignored("close"), Ignored("pass")>>

\* The type is read into type[20] and terminated at type[ret], behind the array if the
\* read fills it.
ThermalWith(read) ==
  <<Checked("open"), read, Ignored("close"),
    Checked("open"), Checked("read"), Ignored("pass"), Ignored("close")>>

\* Mutant: the first read of thermal is not checked.
ThermalUnchecked == ThermalWith(Ignored("fill"))

ThermalScript == ThermalWith(Checked("fill"))

AudioPllScript ==
  <<Checked("args"), Ignored("open"), Ignored("ioctl"), Ignored("ioctl"), Ignored("ioctl"),
    Ignored("close"), Ignored("pass")>>

\* Two queries, then auto gating off and on.
MiscScript ==
  <<Checked("open"), Checked("ioctl"), Checked("ioctl"), Ignored("ioctl"), Ignored("ioctl")>>

CaptouchScript == <<Ignored("open"), Ignored("read")>>

\* kms_create(), kms_bo_create(), kms_bo_destroy(); kms_destroy() on both ways out.
KmstestScript ==
  <<Checked("open"), Checked("ioctl"), Checked("ioctl"), Ignored("ioctl"), Ignored("pass")>>

Script ==
  [sdioh |-> SdiohScript, ir |-> IrScript, adc |-> AdcScript, thermal |-> ThermalScript,
   audio_pll |-> AudioPllScript, misc |-> MiscScript, captouch |-> CaptouchScript,
   kmstest |-> KmstestScript]
OneShots == DOMAIN Script

\* The first call of the endless loop.
LoopFrom == [p \in OneShots |-> CASE p = "misc" -> 4 [] p = "captouch" -> 2 [] OTHER -> 0]

OneTypeOK ==
  /\ step \in 1..11
  /\ fd \in {"none", "open", "bad", "closed"}
  /\ misuse \in BOOLEAN

OneInit == step = 1 /\ fd = "none" /\ misuse = FALSE

-----------------------------------------------------------------------------
\* Where the program goes after a call: on, round its loop, or out.
Follow(p, failed) ==
  IF failed /\ Script[p][step].checked THEN "exit"
  ELSE IF step < Len(Script[p]) \/ LoopFrom[p] # 0 THEN "start" ELSE "exit"

Advance == step' = IF step < Len(Script[prog]) THEN step + 1
                   ELSE IF LoopFrom[prog] # 0 THEN LoopFrom[prog] ELSE step

\* The arguments are refused, or taken; audio_pll looks one beyond an option that is
\* the last of them.
OneArgs ==
  /\ prog \in OneShots /\ pc = "start"
  /\ Script[prog][step].call = "args"
  /\ \/ Go("start")
     \/ Fail("exit")
     \/ prog = "audio_pll" /\ Go("fault")
  /\ Advance
  /\ UNCHANGED <<fd, misuse>>

OneOpen ==
  /\ prog \in OneShots /\ pc = "start"
  /\ Script[prog][step].call = "open"
  /\ \/ fd' = "open" /\ Go(Follow(prog, FALSE))
     \/ fd' = "bad" /\ Fail(Follow(prog, TRUE))
  /\ Advance
  /\ UNCHANGED misuse

\* A call on the descriptor.  One that fills its buffer and is terminated behind it goes
\* on or ends there.
OneUse ==
  /\ prog \in OneShots /\ pc = "start"
  /\ Script[prog][step].call \notin {"args", "open", "close", "pass"}
  /\ misuse' = (misuse \/ fd # "open")
  /\ \/ fd = "open" /\ Go(Follow(prog, FALSE))
     \/ Fail(Follow(prog, TRUE))
     \/ fd = "open" /\ Script[prog][step].call = "fill" /\ Go("fault")
  /\ Advance
  /\ UNCHANGED fd

OneClose ==
  /\ prog \in OneShots /\ pc = "start"
  /\ Script[prog][step].call = "close"
  /\ fd' = "closed"
  /\ Go(Follow(prog, FALSE))
  /\ Advance
  /\ UNCHANGED misuse

\* The last message of the program.
OnePass ==
  /\ prog \in OneShots /\ pc = "start"
  /\ Script[prog][step].call = "pass"
  /\ Say("pass", Follow(prog, FALSE))
  /\ Advance
  /\ UNCHANGED <<fd, misuse>>

OneProgram == OneArgs \/ OneOpen \/ OneUse \/ OneClose \/ OnePass

-----------------------------------------------------------------------------
(* Properties.                                                             *)

\* The final message is printed only if every call before it succeeded, save by
\* audio_pll, which looks at none, and by kmstest's last; no program but audio_pll and
\* captouch uses a descriptor it did not get, none but audio_pll and thermal reads or
\* writes beyond an array, and a run without errors closes its own descriptor.
MessageIsEarned ==
  prog \in OneShots =>
    /\ said = "pass" /\ broke => prog \in {"audio_pll", "kmstest"}
    /\ misuse => prog \in {"audio_pll", "captouch"}
    /\ pc = "fault" => prog \in {"audio_pll", "thermal"}
    /\ pc = "exit" /\ ~broke => fd = "closed" \/ prog = "kmstest"

=============================================================================
