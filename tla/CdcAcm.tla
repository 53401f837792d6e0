------------------------------- MODULE CdcAcm -------------------------------
(***************************************************************************)
(* usbh_cdc_acm/usbh_cdc_acm.c: send a string to an ACM device in loopback *)
(* mode, wait for the first bytes that come back, send the next string.    *)
(* Bytes are counted; the device may be unplugged.                         *)
(***************************************************************************)
EXTENDS Program

CONSTANTS StringLen,  \* length of a string sent
          TtyRoom     \* bytes the tty takes before write() blocks

ASSUME CdcAcmAssumption == StringLen \in Nat \ {0} /\ TtyRoom \in Nat /\ StringLen <= TtyRoom

VARIABLES
  out,     \* bytes written that the device has not taken
  back,    \* bytes that have come back and were not read
  plugged

cdcVars == <<out, back, plugged>>

CdcTypeOK == out \in 0..TtyRoom /\ back \in Nat /\ plugged \in BOOLEAN

CdcInit == out = 0 /\ back = 0 /\ plugged = TRUE

\* open(), tcgetattr() and tcsetattr(); the input queue is flushed.
CdcSetup ==
  /\ At("cdc_acm", "start")
  /\ Go("write") \/ Fail("exit")
  /\ UNCHANGED cdcVars

\* write() blocks while the tty has no room.
CdcWrite ==
  /\ At("cdc_acm", "write")
  /\ plugged /\ out + StringLen <= TtyRoom
  /\ out' = out + StringLen
  /\ Go("read")
  /\ UNCHANGED <<back, plugged>>

\* What it returns is not looked at, so the program waits for an answer to a string
\* it could not send.
CdcWriteFails ==
  /\ At("cdc_acm", "write")
  /\ Fail("read")
  /\ UNCHANGED cdcVars

\* read() returns what there is, up to 512 bytes; while it returns 0 or an error it
\* is called again, without a pause and without a way out.
CdcRead ==
  /\ At("cdc_acm", "read")
  /\ back > 0
  /\ back' = 0
  /\ Go("write")
  /\ UNCHANGED <<out, plugged>>

CdcProgram == CdcSetup \/ CdcWrite \/ CdcRead

\* The device sends back what it receives.
LoopBack ==
  /\ prog = "cdc_acm"
  /\ plugged /\ out > 0
  /\ out' = out - 1 /\ back' = back + 1
  /\ UNCHANGED <<progVars, plugged>>

UnplugAcm ==
  /\ prog = "cdc_acm"
  /\ plugged /\ plugged' = FALSE
  /\ UNCHANGED <<progVars, out, back>>

-----------------------------------------------------------------------------
(* Properties.                                                             *)

\* An answer to the last string is on its way whenever the program waits for one,
\* unless the device was unplugged or a write failed: the strings may run ahead of
\* their answers but never fall behind.
AnswerPending == At("cdc_acm", "read") /\ plugged /\ ~broke => out + back > 0

=============================================================================
