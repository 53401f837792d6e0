------------------------------- MODULE I2cBus -------------------------------
(***************************************************************************)
(* i2c/i2c.c, the master program, run again and again against the slave    *)
(* module of I2cSlave over a bus that may fail in the middle of a transfer *)
(* and may lose the STOP event.                                            *)
(***************************************************************************)
EXTENDS I2cSlave

CONSTANTS MaxLen,     \* bound on the size given with -l
          U16,        \* number of values of i2c_msg.len: 65536
          MsgLimit,   \* the longest message I2C_RDWR accepts
          DefaultTx,  \* default_tx[] of the program
          FileTx,     \* content of the file given with -i
          Faults      \* which calls, transfers and events may go wrong

ASSUME MaxLenAssumption == MaxLen \in Nat
ASSUME ContentAssumption == DefaultTx \in Seq(Bytes) /\ FileTx \in Seq(Bytes)
ASSUME U16Assumption == U16 \in Nat \ {0} /\ MsgLimit \in Nat
ASSUME FaultsAssumption == Faults \subseteq {"register", "abort", "stop", "load", "output"}

VARIABLES
  mpc,            \* where the master program is
  transfer_type,  \* "none", "RX" (-R) or "TX" (-W)
  tx,             \* the buffer to send
  rx,             \* what has been received
  len,            \* i2c_msg.len: what is left of the buffer's length in a __u16
  sent,           \* bytes clocked out of tx
  loaded          \* a read byte waits in the slave's shift register

masterVars == <<mpc, transfer_type, tx, rx, len, sent, loaded>>
vars == <<slaveVars, masterVars>>

TypeOK ==
  /\ SlaveTypeOK
  /\ mpc \in {"shell", "main", "ready", "transfer", "report", "done", "aborted"}
  /\ transfer_type \in {"none", "RX", "TX"}
  /\ tx \in Seq(Bytes)
  /\ rx \in Seq(Bytes)
  /\ len \in Nat
  /\ sent \in 0..len
  /\ loaded \in BOOLEAN

Init ==
  /\ SlaveInit
  /\ mpc = "shell"
  /\ transfer_type = "none"
  /\ tx = <<>> /\ rx = <<>> /\ len = 0 /\ sent = 0
  /\ loaded = FALSE

-----------------------------------------------------------------------------
(* The master program.                                                     *)

\* transfer_buf(): tx[i] = i, cut to a u8.
Incremental(n) == [k \in 1..n |-> (k - 1) % Byte]

\* The buffers the options can select: a size, a file, or the default.
Contents == {Incremental(n) : n \in 1..MaxLen} \cup {DefaultTx, FileTx}

\* parse_opts(): -R and -W set the type once; a second one aborts the program,
\* and so does main() when neither is given.
ParseOpts(opts) ==
  /\ mpc \in {"shell", "done", "aborted"}
  /\ transfer_type' = IF opts = {"R"} THEN "RX" ELSE IF opts = {"W"} THEN "TX" ELSE "none"
  /\ mpc' = IF transfer_type' = "none" THEN "aborted" ELSE "main"
  /\ tx' = <<>> /\ rx' = <<>> /\ len' = 0 /\ sent' = 0
  /\ loaded' = FALSE
  /\ UNCHANGED slaveVars

\* The device is opened and a buffer of the length asked for is allocated and
\* filled; any of these calls may fail, which aborts the program.
LoadFails ==
  /\ mpc = "main"
  /\ "load" \in Faults
  /\ mpc' = "aborted"
  /\ UNCHANGED <<slaveVars, transfer_type, tx, rx, len, sent, loaded>>

\* The message is set up: a length that does not fit its __u16 is cut.
Load ==
  /\ mpc = "main"
  /\ \E c \in Contents :
       /\ tx' = c
       /\ len' = Len(c) % U16
  /\ mpc' = "ready"
  /\ UNCHANGED <<slaveVars, transfer_type, rx, sent, loaded>>

\* transfer(): ioctl(I2C_RDWR) addresses the slave; without an answer, or with a
\* message too long for it, it fails and the program aborts.
NoAnswerThen(next) ==
  /\ mpc = "ready"
  /\ ~registered \/ len > MsgLimit
  /\ mpc' = next
  /\ UNCHANGED <<slaveVars, transfer_type, tx, rx, len, sent, loaded>>

\* Mutant: the transfer is retried.
NoAnswerRetries == NoAnswerThen("ready")

NoAnswer == NoAnswerThen("aborted")

AddressRead ==
  /\ mpc = "ready" /\ len <= MsgLimit
  /\ transfer_type = "RX"
  /\ ReadRequested
  /\ mpc' = "transfer"
  /\ loaded' = TRUE
  /\ UNCHANGED <<transfer_type, tx, rx, len, sent>>

AddressWrite ==
  /\ mpc = "ready" /\ len <= MsgLimit
  /\ transfer_type = "TX"
  /\ WriteRequested
  /\ mpc' = "transfer"
  /\ loaded' = FALSE
  /\ UNCHANGED <<transfer_type, tx, rx, len, sent>>

-----------------------------------------------------------------------------
(* The wire (outside the repository).                                      *)

ClockIn ==
  /\ mpc = "transfer" /\ transfer_type = "RX"
  /\ loaded /\ Len(rx) < len
  /\ rx' = Append(rx, data)
  /\ loaded' = FALSE
  /\ UNCHANGED <<slaveVars, mpc, transfer_type, tx, len, sent>>

\* The slave's driver asks for the next byte, also after the last one.
Refill ==
  /\ mpc = "transfer" /\ transfer_type = "RX"
  /\ ~loaded
  /\ ReadProcessed
  /\ loaded' = TRUE
  /\ UNCHANGED <<mpc, transfer_type, tx, rx, len, sent>>

ClockOut ==
  /\ mpc = "transfer" /\ transfer_type = "TX"
  /\ sent < len
  /\ WriteReceived(tx[sent + 1])
  /\ sent' = sent + 1
  /\ UNCHANGED <<mpc, transfer_type, tx, rx, len, loaded>>

\* The event reaches the slave, or is lost.
StopEvent == Stop \/ ("stop" \in Faults /\ UNCHANGED slaveVars)

\* ioctl() returns 1.
Finish ==
  /\ mpc = "transfer"
  /\ IF transfer_type = "RX" THEN Len(rx) = len ELSE sent = len
  /\ StopEvent
  /\ mpc' = "report"
  /\ UNCHANGED <<transfer_type, tx, rx, len, sent, loaded>>

\* Arbitration is lost or the controller times out: pabort().
Abort ==
  /\ mpc = "transfer"
  /\ "abort" \in Faults
  /\ StopEvent
  /\ mpc' = "aborted"
  /\ UNCHANGED <<transfer_type, tx, rx, len, sent, loaded>>

\* What was read goes to the file given with -o, which may not be opened or take
\* all of it: pabort(), with the transfer done.
Report ==
  /\ mpc = "report"
  /\ mpc' \in {"done"} \cup
        (IF "output" \in Faults /\ transfer_type = "RX" THEN {"aborted"} ELSE {})
  /\ UNCHANGED <<slaveVars, transfer_type, tx, rx, len, sent, loaded>>

\* insmod and rmmod of the slave module.
Insmod ==
  /\ \E a \in (IF "register" \in Faults THEN BOOLEAN ELSE {TRUE}) : SlaveProbe(a)
  /\ UNCHANGED masterVars

\* A transfer in progress loses its slave and fails.
Rmmod ==
  /\ SlaveRemove
  /\ mpc' = IF mpc = "transfer" THEN "aborted" ELSE mpc
  /\ UNCHANGED <<transfer_type, tx, rx, len, sent, loaded>>

Next ==
  \/ Insmod \/ Rmmod
  \/ \E opts \in SUBSET {"R", "W"} : ParseOpts(opts)
  \/ LoadFails \/ Load \/ NoAnswer \/ AddressRead \/ AddressWrite
  \/ ClockIn \/ Refill \/ ClockOut \/ Finish \/ Abort \/ Report

Spec == Init /\ [][Next]_vars

\* The program is scheduled and the controller finishes what it started.
FairSpec ==
  Spec /\ WF_vars(LoadFails \/ Load \/ NoAnswer \/ AddressRead \/ AddressWrite
                    \/ ClockIn \/ Refill \/ ClockOut \/ Finish \/ Abort \/ Report)

-----------------------------------------------------------------------------
(* Properties.                                                             *)

\* Whatever transfers were cut short before, and whether or not their STOP was
\* seen, a read returns 0, 1, 2, ... modulo 256.
ReadIsIncremental == \A k \in DOMAIN rx : rx[k] = (k - 1) % Byte

\* During a write the slave's listing is what has been sent, and the total it
\* prints is its length, whatever happened to the STOP of earlier transfers.
WriteListing ==
  transfer_type = "TX" /\ mpc = "transfer" =>
    /\ got = SubSeq(tx, 1, sent)
    /\ recv_index = sent

\* A transfer the program reports as done moved the whole buffer, unless its
\* length did not fit i2c_msg.len: the rest of the dump is then not what the wire
\* carried.
DoneIsWhole ==
  mpc = "done" /\ Len(tx) < U16 =>
    /\ transfer_type = "RX" => Len(rx) = Len(tx)
    /\ transfer_type = "TX" => got = tx

\* Nothing of an aborted transfer or a lost STOP shows in the next transfer, in
\* either direction, and none is reported that is not complete.
TransfersExact == ReadIsIncremental /\ WriteListing /\ DoneIsWhole

\* Every run of the program ends, the slave's removal included.
ProgramEnds == (mpc = "main") ~> (mpc \in {"done", "aborted"})

\* The transcripts of both readmes: a read begins with the byte 0x23, the slave's
\* address ("RX | 23 01 02 03 ...").
ReadmeFirstByte == rx # <<>> => rx[1] = 35

=============================================================================
