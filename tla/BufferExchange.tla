--------------------------- MODULE BufferExchange ---------------------------
(***************************************************************************)
(* What the streaming I/O of usbh_uvc.c promises, without queues, indices  *)
(* or a program counter: buffers go round between the program and the      *)
(* driver one owner at a time, the driver writes only what it was given,   *)
(* and the program takes every frame once, in the order of capture.        *)
(***************************************************************************)
EXTENDS Integers

CONSTANTS Buffer  \* the buffers

VARIABLES
  owner,    \* "program", "driver", "camera" (being written) or "ready" (filled)
  content,  \* the frame in each buffer, 0 if none or torn
  shot,     \* frames captured so far
  taken     \* the frame the program took last

exchange == <<owner, content, shot, taken>>

Init ==
  /\ owner = [b \in Buffer |-> "program"]
  /\ content = [b \in Buffer |-> 0]
  /\ shot = 0 /\ taken = 0

Hand(b, from, to) == owner[b] = from /\ owner' = [owner EXCEPT ![b] = to]

\* The program gives a buffer away.
Give(b) ==
  /\ Hand(b, "program", "driver")
  /\ UNCHANGED <<content, shot, taken>>

\* The camera writes one buffer at a time.
Begin(b) ==
  /\ \A c \in Buffer : owner[c] # "camera"
  /\ Hand(b, "driver", "camera")
  /\ content' = [content EXCEPT ![b] = 0]
  /\ UNCHANGED <<shot, taken>>

Finish(b) ==
  /\ Hand(b, "camera", "ready")
  /\ shot' = shot + 1
  /\ content' = [content EXCEPT ![b] = shot']
  /\ UNCHANGED taken

\* The program takes the oldest frame that is ready: no later than the next one.
Take(b) ==
  /\ Hand(b, "ready", "program")
  /\ content[b] = taken + 1
  /\ taken' = content[b]
  /\ UNCHANGED <<content, shot>>

Next == \E b \in Buffer : Give(b) \/ Begin(b) \/ Finish(b) \/ Take(b)

Spec == Init /\ [][Next]_exchange

=============================================================================
