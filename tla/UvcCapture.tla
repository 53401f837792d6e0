----------------------------- MODULE UvcCapture -----------------------------
(***************************************************************************)
(* usbh_uvc/usbh_uvc.c: map the driver's video buffers, queue them, and    *)
(* for ever take a filled one, save it and queue it again, while the       *)
(* camera fills the queued ones and may be unplugged.  A frame is its      *)
(* number; a buffer that the camera is writing holds frame Torn.           *)
(***************************************************************************)
EXTENDS Integers, Sequences, FiniteSets, SequencesExt

CONSTANTS Granted,    \* buffer counts that REQBUFS may grant
          MaxGranted, \* the most a driver ever grants (VIDEO_MAX_FRAME)
          MaxFrames,  \* bound on the frames of the camera
          Faults      \* "init": a call of video_device_init(); "mmap"; "fopen"

ASSUME UvcAssumption ==
  /\ MaxGranted \in Nat \ {0}
  /\ Granted \subseteq 1..MaxGranted
  /\ MaxFrames \in Nat
  /\ Faults \subseteq {"init", "mmap", "fopen"}

IMAGE_BUFFERS == 4  \* elements of image_buffer[]
Torn == 0
None == -1

VARIABLES
  pc,            \* where main() is
  count,         \* req_buff.count
  i,             \* loop counter of video_device_init()
  image_buffer,  \* the driver's buffer that each slot is mapped to, or None
  index,         \* video_buffer.index, or None while never written
  queued, done,  \* the driver's two queues
  filling,       \* the buffer the camera is writing, or None
  mem,           \* frame in each buffer of the driver
  frame,         \* frames so far
  gone,          \* the camera has been unplugged
  want, saved    \* history: the frame dequeued last, and the one in its file

vars == <<pc, count, i, image_buffer, index, queued, done, filling, mem, frame, gone,
          want, saved>>
driver == <<queued, done, filling, mem, frame, gone>>

\* What image_buffer[] is indexed with: its elements and what lies behind them.
Slots == 0..(MaxGranted - 1)
Buffers == 0..(count - 1)
Frames == 0..MaxFrames

TypeOK ==
  /\ pc \in {"init", "map", "queue", "streamon", "poll", "dqbuf", "save", "qbuf",
             "exit", "fault"}
  /\ count \in Granted \cup {0}
  /\ i \in 0..count
  /\ image_buffer \in [Slots -> Slots \cup {None}]
  /\ index \in Buffers \cup {None}
  /\ queued \in Seq(Buffers) /\ done \in Seq(Buffers)
  /\ filling \in Buffers \cup {None}
  /\ mem \in [Slots -> Frames]
  /\ frame \in Frames
  /\ gone \in BOOLEAN
  /\ want \in Frames /\ saved \in Frames

Init ==
  /\ pc = "init"
  /\ count = 0
  /\ i = 0
  /\ image_buffer = [b \in Slots |-> None]
  /\ index = None
  /\ queued = << >> /\ done = << >>
  /\ filling = None
  /\ mem = [b \in Slots |-> Torn]
  /\ frame = 0
  /\ gone = FALSE
  /\ want = Torn /\ saved = Torn

-----------------------------------------------------------------------------
(* video_device_init().                                                    *)

\* A failed call: main() returns -1 and the kernel closes the device.
InitFails ==
  /\ pc \in {"init", "map", "queue", "streamon"}
  /\ "init" \in Faults \/ gone
  /\ pc' = "exit"
  /\ UNCHANGED <<count, i, image_buffer, index, driver, want, saved>>

\* Format, frame rate and REQBUFS, which may grant another count than 4.
Configure ==
  /\ pc = "init"
  /\ ~gone
  /\ count' \in Granted
  /\ pc' = "map"
  /\ UNCHANGED <<i, image_buffer, index, driver, want, saved>>

\* QUERYBUF and mmap() of one slot.  buff_info.index is never set in this loop, so
\* the driver describes its buffer 0 every time.  mmap() fails with MAP_FAILED,
\* which is not the NULL the code tests for.  A fifth address is stored behind the
\* array: over padding, where it stays; over uvc_video_fd, so that the next call
\* fails and main() returns; or the program dies.
MapUpTo(last) ==
  /\ pc = "map"
  /\ ~gone
  /\ i <= last
  /\ \E b \in {0} \cup (IF "mmap" \in Faults THEN {None} ELSE {}) :
       image_buffer' = [image_buffer EXCEPT ![i] = b]
  /\ i' = i + 1
  /\ pc' \in IF i < IMAGE_BUFFERS THEN {"map"} ELSE {"map", "exit", "fault"}
  /\ UNCHANGED <<count, index, driver, want, saved>>

\* Mutant: i <= req_buff.count.
MapOneMore == MapUpTo(count)

Map == MapUpTo(count - 1)

Mapped ==
  /\ pc = "map"
  /\ i >= count
  /\ i' = 0
  /\ pc' = "queue"
  /\ UNCHANGED <<count, image_buffer, index, driver, want, saved>>

\* QBUF of one buffer, with its index this time.
Queue ==
  /\ pc = "queue"
  /\ ~gone
  /\ i < count
  /\ queued' = Append(queued, i)
  /\ i' = i + 1
  /\ pc' = IF i' = count THEN "streamon" ELSE pc
  /\ UNCHANGED <<count, image_buffer, index, done, filling, mem, frame, gone, want,
                 saved>>

StreamOn ==
  /\ pc = "streamon"
  /\ ~gone
  /\ pc' = "poll"
  /\ UNCHANGED <<count, i, image_buffer, index, driver, want, saved>>

-----------------------------------------------------------------------------
(* The loop of main().                                                     *)

\* poll() without a timeout; a device that has gone is always ready.
PollFor(ready) ==
  /\ pc = "poll"
  /\ ready \/ gone
  /\ pc' = "dqbuf"
  /\ UNCHANGED <<count, i, image_buffer, index, driver, want, saved>>

\* Mutant: POLLOUT instead of POLLIN.
PollOut == PollFor(FALSE)

Poll == PollFor(done # << >>)

\* DQBUF.  Its status is not looked at: if it fails, index stays what it was.
Dequeue ==
  /\ pc = "dqbuf"
  /\ IF gone THEN UNCHANGED <<index, done, want>>
     ELSE /\ index' = Head(done)
          /\ done' = Tail(done)
          /\ want' = mem[index']
  /\ pc' = "save"
  /\ UNCHANGED <<count, i, image_buffer, queued, filling, mem, frame, gone, saved>>

\* fopen() and fwrite() of the slot: a NULL file, a slot that is not mapped and an
\* index that was never written are undefined.
SaveOr(unopened) ==
  /\ pc = "save"
  /\ \E ok \in (IF "fopen" \in Faults THEN BOOLEAN ELSE {TRUE}) :
       IF ok /\ index # None /\ image_buffer[index] # None
         THEN pc' = "qbuf" /\ saved' = mem[image_buffer[index]]
         ELSE pc' \in (IF ok THEN {"fault", "qbuf"} ELSE {unopened}) /\ UNCHANGED saved
  /\ UNCHANGED <<count, i, image_buffer, index, driver, want>>

\* Mutant: a file that cannot be opened is passed over.
SaveSkips == SaveOr("qbuf")

Save == SaveOr("fault")

\* QBUF of the buffer just saved.
RequeueOnto(q) ==
  /\ pc = "qbuf"
  /\ queued' = IF gone THEN queued ELSE q
  /\ pc' = "poll"
  /\ UNCHANGED <<count, i, image_buffer, index, done, filling, mem, frame, gone, want,
                 saved>>

\* Mutant: the index is left at 0.
RequeueZero == RequeueOnto(Append(queued, 0))

Requeue == RequeueOnto(Append(queued, index))

Program ==
  \/ InitFails \/ Configure \/ Map \/ Mapped \/ Queue \/ StreamOn
  \/ Poll \/ Dequeue \/ Save \/ Requeue

-----------------------------------------------------------------------------
(* The camera and its driver.                                              *)

Streaming == pc \in {"poll", "dqbuf", "save", "qbuf"} /\ ~gone

FillStart ==
  /\ Streaming
  /\ filling = None /\ queued # << >> /\ frame < MaxFrames
  /\ filling' = Head(queued)
  /\ queued' = Tail(queued)
  /\ mem' = [mem EXCEPT ![filling'] = Torn]
  /\ UNCHANGED <<pc, count, i, image_buffer, index, done, frame, gone, want, saved>>

FillEnd ==
  /\ Streaming
  /\ filling # None
  /\ frame' = frame + 1
  /\ mem' = [mem EXCEPT ![filling] = frame']
  /\ done' = Append(done, filling)
  /\ filling' = None
  /\ UNCHANGED <<pc, count, i, image_buffer, index, queued, gone, want, saved>>

Unplug ==
  /\ ~gone
  /\ gone' = TRUE
  /\ UNCHANGED <<pc, count, i, image_buffer, index, queued, done, filling, mem, frame,
                 want, saved>>

Next == Program \/ FillStart \/ FillEnd \/ Unplug

Spec == Init /\ [][Next]_vars

\* The program is scheduled.
FairSpec == Spec /\ WF_vars(Program)

-----------------------------------------------------------------------------
(* Properties.                                                             *)

\* The places a buffer is in.  What the program has, or never queued, is in none.
Places(b) ==
  {p \in {"driver", "camera", "ready"} :
     \/ p = "driver" /\ b \in ToSet(queued)
     \/ p = "camera" /\ b = filling
     \/ p = "ready" /\ b \in ToSet(done)}

Owner(b) ==
  IF Places(b) = {} THEN "program"
  ELSE IF Cardinality(Places(b)) = 1 /\ IsInjective(queued \o done) THEN CHOOSE p \in Places(b) : TRUE
  ELSE "contested"

Exchange ==
  INSTANCE BufferExchange WITH
    Buffer <- Slots, owner <- [b \in Slots |-> Owner(b)], content <- mem, shot <- frame,
    taken <- want

\* The program and the driver implement the exchange of buffers: one owner at a time,
\* no buffer given back that was not taken, none written while the program has it,
\* frames taken in order without a gap, through failing calls and an unplugged camera.
ImplementsExchange == Exchange!Spec

\* The file of a frame captured into buffer 0 holds that frame, not torn and not a
\* later one: the program saves before it queues again.  (All slots are mapped to
\* buffer 0, so files of the other buffers hold whatever buffer 0 holds then.)
BufferZeroIsSaved ==
  pc = "qbuf" /\ ~gone /\ index = 0 /\ image_buffer[0] # None => saved = want

\* readme.txt: the captured images are saved.
SavedIsCaptured ==
  pc = "qbuf" /\ ~gone /\ image_buffer[index] # None => saved = want

\* Filled buffers are taken: the loop does not stall while the camera is there.
CaptureGoesOn == (Len(done) > 1) ~> (Len(done) <= 1 \/ gone \/ pc = "fault")

=============================================================================
