--------------------------------- MODULE Spi --------------------------------
(***************************************************************************)
(* spi/spi.c run twice, as MASTER and as SLAVE, on two spidev devices that *)
(* are wired together (rtk_spi_test.sh starts them a second apart).  What  *)
(* is sent is named by the option it comes from: -p, -i, -l or none of     *)
(* them ("d", default_tx); two processes with the same source start with   *)
(* the same bytes, but -l may give them different lengths.                 *)
(***************************************************************************)
EXTENDS Program

CONSTANTS SpiOptions  \* records of type, source, len, output and string

TRANSFER_FULL_DUPLEX == 0
TRANSFER_TX_ONLY == 1
TRANSFER_RX_ONLY == 2
Types == {TRANSFER_FULL_DUPLEX, TRANSFER_TX_ONLY, TRANSFER_RX_ONLY}

Roles == {"MASTER", "SLAVE"}
Peer(r) == IF r = "MASTER" THEN "SLAVE" ELSE "MASTER"
Sources == {"p", "i", "l", "d"}
Junk == "junk"
SpiEnded == {"done", "error", "abort", "fault"}

ASSUME SpiAssumption ==
  /\ SpiOptions # {}
  /\ SpiOptions \subseteq [type : Types, source : Sources \cup {"p+i"}, len : Nat,
                           output : BOOLEAN, string : {"plain", "escaped", "short", "malformed"}]

VARIABLES
  at,     \* where each of the two processes is
  opt,    \* its options
  rx,     \* its receive buffer: a source, "zero" or Junk
  word,   \* what it printed: "none", "success" or "error"
  clean   \* history: its transfer met an armed peer, and no noise on the wire it hears

spiVars == <<at, opt, rx, word, clean>>

SpiTypeOK ==
  /\ at \in [Roles -> {"off", "open", "select", "message", "armed", "output", "compare"}
                      \cup SpiEnded]
  /\ opt \in [Roles -> SpiOptions]
  /\ rx \in [Roles -> Sources \cup {"zero", Junk}]
  /\ word \in [Roles -> {"none", "success", "error"}]
  /\ clean \in [Roles -> BOOLEAN]

SpiInit ==
  /\ at = [r \in Roles |-> "off"]
  /\ opt = [r \in Roles |-> CHOOSE o \in SpiOptions : TRUE]
  /\ rx = [r \in Roles |-> Junk]
  /\ word = [r \in Roles |-> "none"]
  /\ clean = [r \in Roles |-> FALSE]

Move(r, l, m) ==
  /\ prog = "spi" /\ at[r] = l
  /\ at' = [at EXCEPT ![r] = m]
  /\ UNCHANGED progVars

-----------------------------------------------------------------------------
(* The program.                                                            *)

\* parse_opts(); default_rx is zero, the other buffers are malloc()ed.
ParseOpts(r) ==
  /\ Move(r, "off", "open")
  /\ \E o \in SpiOptions :
       /\ opt' = [opt EXCEPT ![r] = o]
       /\ rx' = [rx EXCEPT ![r] = IF o.source = "d" THEN "zero" ELSE Junk]
  /\ UNCHANGED <<word, clean>>

\* open() and the six ioctl()s for mode, word size and speed.
OpenDevice(r) ==
  /\ Move(r, "open", "select") \/ Move(r, "open", "abort")
  /\ UNCHANGED <<opt, rx, word, clean>>

\* unescape(): each escape is skipped as four characters after at least one digit
\* was seen, so a last escape with one digit runs over the end of the string.
Unescape(s) == IF s = "malformed" THEN {"abort"}
               ELSE IF s = "short" THEN {"fault"} ELSE {"message"}

\* Buffers are allocated and filled from the string, the file or the pattern.
Select(r) ==
  /\ \/ Move(r, "select", "abort")  \* no memory, or a file that cannot be read
     \/ /\ opt[r].source # "p+i"
        /\ \E l \in (IF opt[r].source = "p" THEN Unescape(opt[r].string) ELSE {"message"}) :
             Move(r, "select", l)
  /\ UNCHANGED <<opt, rx, word, clean>>

\* transfer(): SPI_IOC_MESSAGE waits in the driver for the clock.
Message(r) ==
  /\ Move(r, "message", "armed") \/ Move(r, "message", "abort")
  /\ UNCHANGED <<opt, rx, word, clean>>

\* transfer() after the ioctl: the output file is written unless nothing was received.
WriteOutput(r) ==
  /\ IF opt[r].output /\ opt[r].type # TRANSFER_TX_ONLY
       THEN Move(r, "output", "compare") \/ Move(r, "output", "abort")
       ELSE Move(r, "output", "compare")
  /\ UNCHANGED <<opt, rx, word, clean>>

\* transfer_buf() and the default transfer compare what was received; the string
\* and the file are compared even if nothing was, against memory as malloc() left it.
Compared(o) == o.type # TRANSFER_TX_ONLY \/ o.source \in {"p", "i"}

CompareIf(r, compared) ==
  /\ \/ ~compared /\ Move(r, "compare", "done") /\ UNCHANGED word
     \/ /\ compared
        /\ \E found \in {rx[r]} \cup (IF opt[r].type = TRANSFER_TX_ONLY
                                        THEN {opt[r].source} ELSE {}) :
             IF found = opt[r].source
               THEN Move(r, "compare", "done") /\ word' = [word EXCEPT ![r] = "success"]
               ELSE Move(r, "compare", "error") /\ word' = [word EXCEPT ![r] = "error"]
  /\ UNCHANGED <<opt, rx, clean>>

\* Mutant: a receive-only transfer is not compared and taken for a success.
CompareFullOnly(r) ==
  IF opt[r].type = TRANSFER_RX_ONLY
    THEN /\ Move(r, "compare", "done") /\ word' = [word EXCEPT ![r] = "success"]
         /\ UNCHANGED <<opt, rx, clean>>
    ELSE CompareIf(r, Compared(opt[r]))

Compare(r) == CompareIf(r, Compared(opt[r]))

SpiProgram(r) ==
  \/ ParseOpts(r) \/ OpenDevice(r) \/ Select(r) \/ Message(r)
  \/ WriteOutput(r) \/ Compare(r)

-----------------------------------------------------------------------------
(* The wire.                                                               *)

\* What a process puts on the wire: zeros if it only receives.
OnWire(r) == IF opt[r].type = TRANSFER_RX_ONLY THEN "zero" ELSE opt[r].source

\* What a process hears is what it would send itself: the data come from the same
\* source, and the peer has not run out of them.
SameData(r) == opt[r].source = opt[Peer(r)].source /\ opt[r].len <= opt[Peer(r)].len

\* What a process finds in its receive buffer after an exchange.
Received(r, disturbed) ==
  IF opt[r].type = TRANSFER_TX_ONLY THEN rx[r]
  ELSE IF disturbed \/ ~SameData(r) THEN Junk ELSE OnWire(Peer(r))

\* The master clocks its whole message.  An armed slave whose message is not longer
\* is served by it; otherwise the slave goes on waiting.  MOSI and MISO are two wires,
\* and noise may be on either.
Clock ==
  /\ prog = "spi" /\ at["MASTER"] = "armed"
  /\ \E noise \in SUBSET Roles :
       LET armed  == at["SLAVE"] = "armed"
           served == {"MASTER"} \cup
                     {r \in {"SLAVE"} : armed /\ opt[r].len <= opt["MASTER"].len}
       IN /\ at' = [r \in Roles |-> IF r \in served THEN "output" ELSE at[r]]
          /\ rx' = [r \in Roles |-> IF r \in served THEN Received(r, r \in noise \/ ~armed)
                                    ELSE rx[r]]
          /\ clean' = [r \in Roles |-> IF r \in served THEN armed /\ r \notin noise
                                       ELSE clean[r]]
  /\ UNCHANGED <<progVars, opt, word>>

-----------------------------------------------------------------------------
(* Properties.                                                             *)

\* "transfer success" of a receiving process means that its peer was armed and sent it
\* the same data, as many bytes at least, over a clean wire.  An error has a cause:
\* noise on the wire it hears, a peer that was not armed, sent other data, fewer bytes
\* or none, or the compare of a send-only run.  So two duplex processes disagree only
\* over noise on one of the two wires, or if the one that prints the error was given
\* the longer -l.
SpiVerdictIsMutual ==
  \A r \in Roles :
    LET mine == opt[r]
        peer == opt[Peer(r)]
        heard == clean[r] /\ SameData(r) /\ peer.type # TRANSFER_RX_ONLY
        duplex == mine.type = TRANSFER_FULL_DUPLEX /\ peer.type = TRANSFER_FULL_DUPLEX
    IN /\ word[r] = "success" /\ mine.type # TRANSFER_TX_ONLY => heard
       /\ word[r] = "error" => mine.type = TRANSFER_TX_ONLY \/ ~heard
       /\ word[r] = "error" /\ word[Peer(r)] = "success" /\ duplex =>
            ~clean[r] \/ mine.len > peer.len

=============================================================================
