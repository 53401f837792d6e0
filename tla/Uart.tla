-------------------------------- MODULE Uart --------------------------------
(***************************************************************************)
(* uart/uart.c: write a greeting, then echo for ever what the tty receives *)
(* from the PC at the other end.  The echo loop treats its buffer as a C   *)
(* string, so the model keeps the buffer byte by byte, with the two bytes  *)
(* of the stack behind it.                                                 *)
(***************************************************************************)
EXTENDS Program, SequencesExt

CONSTANTS Chars,       \* what the PC may send
          Nul,         \* '\0'
          BufferSize,  \* size of buffer[]
          MaxSent      \* bound on the characters sent

ASSUME UartAssumption == BufferSize \in Nat \ {0} /\ MaxSent \in Nat

Stack == "stack"  \* a byte of the stack that is not '\0'

VARIABLES
  sent,     \* what the PC has sent
  got,      \* how much of it the program has read
  buffer,   \* buffer[0..BufferSize+1], indexed from 1
  echoed,   \* what came back to the PC
  damaged   \* history: a byte behind the buffer has been overwritten

uartVars == <<sent, got, buffer, echoed, damaged>>

Bytes == Chars \cup {Nul, Stack}
Cells == 1..(BufferSize + 2)

UartTypeOK ==
  /\ sent \in Seq(Chars) /\ Len(sent) <= MaxSent
  /\ got \in 0..Len(sent)
  /\ buffer \in [Cells -> Bytes]
  /\ echoed \in Seq(Bytes)
  /\ damaged \in BOOLEAN

UartInit ==
  /\ sent = << >> /\ got = 0 /\ echoed = << >>
  /\ buffer = [c \in Cells |-> Nul]
  /\ damaged = FALSE

-----------------------------------------------------------------------------
\* Opening and setting up the tty.  The input queue is flushed here; the PC is
\* started later.  What lies behind the buffer is arbitrary.
Setup ==
  /\ At("uart", "start")
  /\ \/ /\ \E x, y \in {Nul, Stack} :
             buffer' = [buffer EXCEPT ![BufferSize + 1] = x, ![BufferSize + 2] = y]
        /\ Go("greet")
     \/ Fail("exit") /\ UNCHANGED buffer
  /\ UNCHANGED <<sent, got, echoed, damaged>>

Greet ==
  /\ At("uart", "greet")
  /\ Go("read") \/ Fail("exit")
  /\ UNCHANGED uartVars

\* strlen(): beyond the cells that are modelled a '\0' is found.
Strlen(b) == SelectInSeq(b \o <<Nul>>, LAMBDA x : x = Nul) - 1

\* read() of whatever is there, up to the size of the buffer, and the terminator
\* one byte too far.  (VMIN and VTIME are 0: read() of an empty queue returns 0 at
\* once and the loop turns.)
ReadTerminated(n, end) ==
  /\ At("uart", "read")
  /\ n \in 1..(Len(sent) - got) /\ n <= BufferSize
  /\ buffer' = [c \in Cells |-> IF c = end THEN Nul
                                ELSE IF c <= n THEN sent[got + c] ELSE buffer[c]]
  /\ got' = got + n
  /\ damaged' = (damaged \/ end > BufferSize)
  /\ Go("echo")
  /\ UNCHANGED <<sent, echoed>>

\* Mutant: buffer[nByte-1] = '\0'.
ReadShort(n) == ReadTerminated(n, n)

Read(n) == ReadTerminated(n, n + 2)

\* write() and the memset(), both of strlen() bytes; a short write ends the program.
EchoClearing(cleared) ==
  /\ At("uart", "echo")
  /\ LET n == Strlen(buffer)
     IN \/ /\ echoed' = echoed \o SubSeq(buffer, 1, n)
           /\ buffer' = [c \in Cells |-> IF c <= n /\ cleared THEN Nul ELSE buffer[c]]
           /\ damaged' = (damaged \/ n > BufferSize)
           /\ Go("read")
        \/ /\ \E k \in 0..(n - 1) : echoed' = echoed \o SubSeq(buffer, 1, k)
           /\ Fail("exit")
           /\ UNCHANGED <<buffer, damaged>>
  /\ UNCHANGED <<sent, got>>

\* Mutant: no memset().
EchoKeeping == EchoClearing(FALSE)

Echo == EchoClearing(TRUE)

UartProgram == Setup \/ Greet \/ (\E n \in 1..BufferSize : Read(n)) \/ Echo

\* The PC types a character.
Type ==
  /\ prog = "uart" /\ pc \in {"read", "echo"}
  /\ Len(sent) < MaxSent
  /\ \E c \in Chars : sent' = Append(sent, c)
  /\ UNCHANGED <<progVars, got, buffer, echoed, damaged>>

-----------------------------------------------------------------------------
(* Properties.                                                             *)

\* Before a '\0' is received, and before a read returns so much that its terminator
\* falls behind the buffer (the last two sizes, 511 and 512 bytes), the echo is what was
\* sent, in order, nothing lost, added or doubled: a read that is shorter than the one
\* before it finds nothing of that one, because the memset() of line 116 cleared it.
EchoIsFaithful ==
  prog = "uart" /\ ~damaged /\ Nul \notin ToSet(sent) =>
    /\ IsPrefix(echoed, sent)
    /\ pc = "read" => Len(echoed) = got

\* readme.txt: "send any characters to UART2, UART2 will echo back".
EchoesAnyCharacters ==
  prog = "uart" => IsPrefix(echoed, sent) /\ (pc = "read" => Len(echoed) = got)

=============================================================================
