---------------------------- MODULE UsbHostProofs ----------------------------
(***************************************************************************)
(* The proofs about the two USB host programs.  usbh_uvc.c: for every      *)
(* count of buffers the driver may grant, every bound on the frames and    *)
(* every set of failing calls, the capture program and the driver          *)
(* implement the exchange of buffers.  testusb.c, in the second half: for  *)
(* any devices and any number of cases, the exit status is explained.      *)
(***************************************************************************)
EXTENDS UvcCapture, TestUsb, FiniteSetTheorems, SequenceTheorems, TLAPS

-----------------------------------------------------------------------------
(* The inductive invariant.                                                *)

Capturing == {"poll", "dqbuf", "save", "qbuf"}
Setup == {"init", "map", "queue", "streamon"}

\* How far video_device_init() has come.
SetupInv ==
  /\ pc = "init" => count = 0
  /\ pc \notin {"init", "exit"} => count \in Granted
  /\ pc = "init" => i = 0
  /\ pc = "queue" => i < count /\ \A b \in ToSet(queued) : b < i
  /\ pc \in {"init", "map"} => queued = << >>
  /\ pc \in Setup => done = << >> /\ filling = None /\ index = None
  /\ image_buffer \in [Slots -> {0, None}]

\* A buffer is in one place at a time, and in one position there.
PlaceInv ==
  /\ IsInjective(queued) /\ IsInjective(done)
  /\ ToSet(queued) \cap ToSet(done) = {}
  /\ filling \notin ToSet(queued) \cup ToSet(done)

\* The buffer that the program is saving or about to queue is in none of them.
TakenInv ==
  /\ pc = "dqbuf" /\ ~gone => done # << >>
  /\ pc \in {"save", "qbuf"} /\ ~gone =>
       /\ index \in Buffers
       /\ index \notin ToSet(queued) \cup ToSet(done) \cup {filling}
       /\ mem[index] = want

\* The filled buffers hold the frames after the one taken last, in order.
FrameInv ==
  /\ frame = want + Len(done)
  /\ \A k \in 1..Len(done) : mem[done[k]] = want + k
  /\ filling # None => frame < MaxFrames

IInv == TypeOK /\ SetupInv /\ PlaceInv /\ TakenInv /\ FrameInv /\ BufferZeroIsSaved
-----------------------------------------------------------------------------
(* Queues of distinct elements.                                            *)

\* Queueing a buffer that is not in the queue.
LEMMA AppendDistinct ==
  ASSUME NEW S, NEW s \in Seq(S), NEW x \in S
  PROVE  /\ Append(s, x) \in Seq(S)
         /\ Len(Append(s, x)) = Len(s) + 1
         /\ ToSet(Append(s, x)) = ToSet(s) \cup {x}
         /\ \A k \in 1..Len(s) : Append(s, x)[k] = s[k]
         /\ Append(s, x)[Len(s) + 1] = x
         /\ IsInjective(s) /\ x \notin ToSet(s) => IsInjective(Append(s, x))
<1> DEFINE t == Append(s, x)
<1>1. /\ t \in Seq(S) /\ Len(t) = Len(s) + 1
      /\ \A k \in 1..Len(s) : t[k] = s[k]
      /\ t[Len(s) + 1] = x
  BY AppendProperties
<1>2. DOMAIN t = 1..(Len(s) + 1) /\ DOMAIN s = 1..Len(s) /\ Len(s) \in Nat
  BY <1>1
<1> HIDE DEF t
<1>3. ToSet(t) = ToSet(s) \cup {x}
  BY <1>1, <1>2 DEF ToSet
<1>4. ASSUME IsInjective(s), x \notin ToSet(s)
      PROVE  IsInjective(t)
  BY <1>1, <1>2, <1>4 DEF IsInjective, ToSet
<1> QED
  BY <1>1, <1>3, <1>4 DEF t

\* Taking the head of a queue.
LEMMA TailDistinct ==
  ASSUME NEW S, NEW s \in Seq(S), s # << >>, IsInjective(s)
  PROVE  /\ Head(s) \in S /\ Head(s) \in ToSet(s) /\ Head(s) = s[1]
         /\ Tail(s) \in Seq(S)
         /\ Len(s) > 0 /\ Len(Tail(s)) = Len(s) - 1
         /\ \A k \in 1..Len(Tail(s)) : Tail(s)[k] = s[k + 1]
         /\ ToSet(Tail(s)) = ToSet(s) \ {Head(s)}
         /\ IsInjective(Tail(s))
<1> DEFINE t == Tail(s)
<1>1. /\ Head(s) \in S /\ Head(s) = s[1] /\ t \in Seq(S)
      /\ Len(s) \in Nat /\ Len(s) > 0 /\ Len(t) = Len(s) - 1
      /\ \A k \in 1..Len(t) : t[k] = s[k + 1]
  BY HeadTailProperties, EmptySeq, LenProperties
<1>2. DOMAIN t = 1..(Len(s) - 1) /\ DOMAIN s = 1..Len(s)
  BY <1>1
<1> HIDE DEF t
<1>3. Head(s) \in ToSet(s)
  BY <1>1, <1>2 DEF ToSet
<1>4. ToSet(t) \subseteq ToSet(s) \ {Head(s)}
  BY <1>1, <1>2 DEF ToSet, IsInjective
<1>5. ASSUME NEW y \in ToSet(s), y # Head(s)
      PROVE  y \in ToSet(t)
  <2>1. PICK k \in 1..Len(s) : y = s[k]
    BY <1>2 DEF ToSet
  <2>2. k # 1
    BY <2>1, <1>1, <1>5
  <2>3. k - 1 \in 1..Len(t) /\ t[k - 1] = y
    BY <2>1, <2>2, <1>1
  <2> QED
    BY <2>3, <1>1, <1>2 DEF ToSet
<1>6. IsInjective(t)
  BY <1>1, <1>2 DEF IsInjective
<1> QED
  BY <1>1, <1>3, <1>4, <1>5, <1>6 DEF t

\* Two queues with nothing in common are distinct as one.
LEMMA ConcatDistinct ==
  ASSUME NEW S, NEW s \in Seq(S), NEW t \in Seq(S), IsInjective(s), IsInjective(t),
         ToSet(s) \cap ToSet(t) = {}
  PROVE  IsInjective(s \o t)
<1> DEFINE u == s \o t
<1>1. /\ u \in Seq(S) /\ Len(u) = Len(s) + Len(t) /\ Len(s) \in Nat /\ Len(t) \in Nat
      /\ \A k \in 1..Len(s) : u[k] = s[k]
      /\ \A k \in 1..Len(t) : u[Len(s) + k] = t[k]
  BY ConcatProperties, LenProperties
<1>2. DOMAIN u = 1..(Len(s) + Len(t)) /\ DOMAIN s = 1..Len(s) /\ DOMAIN t = 1..Len(t)
  BY <1>1
<1> HIDE DEF u
<1>3. ASSUME NEW k \in DOMAIN u
      PROVE  \/ k \in 1..Len(s) /\ u[k] = s[k] /\ u[k] \in ToSet(s)
             \/ k - Len(s) \in 1..Len(t) /\ u[k] = t[k - Len(s)] /\ u[k] \in ToSet(t)
  <2>1. CASE k <= Len(s)
    BY <1>1, <1>2, <2>1 DEF ToSet
  <2>2. CASE k > Len(s)
    <3>1. k - Len(s) \in 1..Len(t)
      BY <1>1, <1>2, <2>2
    <3>2. u[Len(s) + (k - Len(s))] = t[k - Len(s)]
      BY <1>1, <3>1
    <3> QED
      BY <1>1, <1>2, <3>1, <3>2 DEF ToSet
  <2> QED
    BY <2>1, <2>2, <1>1, <1>2
<1>4. ASSUME NEW a \in DOMAIN u, NEW b \in DOMAIN u, u[a] = u[b]
      PROVE  a = b
  <2>1. CASE a \in 1..Len(s) /\ u[a] = s[a] /\ u[a] \in ToSet(s)
    <3>1. b \in 1..Len(s) /\ u[b] = s[b]
      BY <2>1, <1>3, <1>4
    <3> QED
      BY <2>1, <3>1, <1>2, <1>4 DEF IsInjective
  <2>2. CASE a - Len(s) \in 1..Len(t) /\ u[a] = t[a - Len(s)] /\ u[a] \in ToSet(t)
    <3>1. b - Len(s) \in 1..Len(t) /\ u[b] = t[b - Len(s)]
      BY <2>2, <1>3, <1>4
    <3>2. a - Len(s) = b - Len(s)
      BY <2>2, <3>1, <1>2, <1>4 DEF IsInjective
    <3> QED
      BY <3>2, <1>1, <1>2
  <2> QED
    BY <2>1, <2>2, <1>3
<1> QED
  BY <1>4 DEF IsInjective, u

-----------------------------------------------------------------------------
(* The invariant holds initially and every step keeps it.                  *)

\* Before main() there is no buffer, and the invariant holds.
LEMMA InitInv == Init => IInv
<1> SUFFICES ASSUME Init
             PROVE  IInv
  OBVIOUS
<1> USE DEF Init
<1>1. TypeOK
  <2>1. Torn \in Frames /\ frame \in Frames /\ i \in 0..count
    BY UvcAssumption DEF Frames, Torn
  <2>2. queued \in Seq(Buffers) /\ done \in Seq(Buffers)
    OBVIOUS
  <2>3. mem \in [Slots -> Frames] /\ image_buffer \in [Slots -> Slots \cup {None}]
    BY <2>1
  <2> QED
    BY <2>1, <2>2, <2>3, Zenon DEF TypeOK
<1>2. ToSet(queued) = {} /\ ToSet(done) = {} /\ IsInjective(queued) /\ IsInjective(done)
  BY DEF ToSet, IsInjective
<1>3. SetupInv
  BY UvcAssumption DEF SetupInv, Capturing, Setup, Slots, None
<1>4. PlaceInv
  BY <1>2 DEF PlaceInv
<1>5. TakenInv /\ FrameInv /\ BufferZeroIsSaved
  BY DEF TakenInv, FrameInv, BufferZeroIsSaved, Torn
<1> QED
  BY <1>1, <1>3, <1>4, <1>5 DEF IInv

\* Every buffer has a slot, in the array or behind it.
LEMMA HasSlot ==
  ASSUME IInv
  PROVE  /\ ToSet(queued) \subseteq Buffers /\ ToSet(done) \subseteq Buffers
         /\ Buffers \subseteq Slots
         /\ count \in Nat /\ MaxFrames \in Nat
<1> USE DEF IInv, TypeOK
<1>1. ToSet(queued) \subseteq Buffers /\ ToSet(done) \subseteq Buffers
  BY ElementOfSeq, LenProperties DEF ToSet
<1>2. count \in Nat /\ MaxFrames \in Nat
  BY UvcAssumption
<1> QED
  BY <1>1, <1>2, UvcAssumption DEF Buffers, Slots

\* The steps of the program that leave the driver alone.
LEMMA SetupStep ==
  ASSUME IInv, InitFails \/ Configure \/ Map \/ Mapped \/ StreamOn
  PROVE  IInv'
<1> USE UvcAssumption, HasSlot DEF IInv, driver
<1>1. CASE InitFails
  BY <1>1 DEF InitFails, TypeOK, SetupInv, PlaceInv, TakenInv, FrameInv, BufferZeroIsSaved,
              Buffers, Setup, Capturing
<1>2. CASE Configure
  <2>1. TypeOK'
    BY <1>2 DEF Configure, TypeOK, SetupInv, Setup, Buffers
  <2> QED
    BY <1>2, <2>1 DEF Configure, TypeOK, SetupInv, PlaceInv, TakenInv, FrameInv,
              BufferZeroIsSaved, Buffers, Setup, Capturing
<1>3. CASE Map
  <2> USE DEF Map, MapUpTo
  <2>1. TypeOK'
    BY <1>3 DEF TypeOK, SetupInv, Setup, Buffers, Slots, None
  <2>2. SetupInv'
    BY <1>3, <2>1 DEF TypeOK, SetupInv, Setup, Capturing, Buffers, Slots, None
  <2>3. (PlaceInv /\ TakenInv /\ FrameInv /\ BufferZeroIsSaved)'
    BY <1>3 DEF TypeOK, PlaceInv, TakenInv, FrameInv, BufferZeroIsSaved
  <2> QED
    BY <2>1, <2>2, <2>3
<1>4. CASE Mapped
  <2> USE DEF Mapped
  <2>0. ToSet(<< >>) = {}
    BY DEF ToSet
  <2>1. TypeOK'
    BY <1>4 DEF TypeOK, Buffers
  <2>2. SetupInv'
    BY <1>4, <2>0, <2>1 DEF TypeOK, SetupInv, Setup, Capturing, Buffers
  <2>3. (PlaceInv /\ TakenInv /\ FrameInv /\ BufferZeroIsSaved)'
    BY <1>4 DEF TypeOK, PlaceInv, TakenInv, FrameInv, BufferZeroIsSaved
  <2> QED
    BY <2>1, <2>2, <2>3
<1>5. CASE StreamOn
  BY <1>5 DEF StreamOn, TypeOK, SetupInv, PlaceInv, TakenInv, FrameInv, BufferZeroIsSaved,
              Buffers, Setup, Capturing
<1> QED
  BY <1>1, <1>2, <1>3, <1>4, <1>5

\* The first queueing of a buffer: those queued before it have lower indices.
LEMMA QueueStep ==
  ASSUME IInv, Queue
  PROVE  IInv'
<1> USE UvcAssumption, HasSlot DEF IInv, Queue
<1>1. i \in Buffers /\ queued \in Seq(Buffers) /\ i \notin ToSet(queued)
  BY DEF TypeOK, SetupInv, Buffers
<1>2. /\ queued' \in Seq(Buffers) /\ ToSet(queued') = ToSet(queued) \cup {i}
      /\ IsInjective(queued')
  BY <1>1, AppendDistinct DEF PlaceInv
<1>3. TypeOK'
  BY <1>1, <1>2 DEF TypeOK, Buffers
<1>4. SetupInv'
  BY <1>1, <1>2 DEF TypeOK, SetupInv, Setup, Capturing, Buffers
<1>5. PlaceInv'
  <2>1. ToSet(done) = {} /\ filling \notin Buffers
    BY DEF SetupInv, Setup, ToSet, Buffers, None
  <2> QED
    BY <1>1, <1>2, <2>1 DEF PlaceInv
<1>6. (TakenInv /\ FrameInv /\ BufferZeroIsSaved)'
  BY DEF TypeOK, TakenInv, FrameInv, BufferZeroIsSaved
<1> QED
  BY <1>3, <1>4, <1>5, <1>6

\* The loop of main().
LEMMA LoopStep ==
  ASSUME IInv, Poll \/ Dequeue \/ Save \/ Requeue
  PROVE  IInv'
<1> USE UvcAssumption, HasSlot DEF IInv, driver
<1>1. CASE Poll
  BY <1>1 DEF Poll, PollFor, TypeOK, SetupInv, PlaceInv, TakenInv, FrameInv,
              BufferZeroIsSaved, Buffers, Setup, Capturing
<1>2. CASE Dequeue /\ gone
  BY <1>2 DEF Dequeue, TypeOK, SetupInv, PlaceInv, TakenInv, FrameInv,
              BufferZeroIsSaved, Buffers, Setup, Capturing
<1>3. CASE Dequeue /\ ~gone
  <2> USE <1>3 DEF Dequeue
  <2>1. done # << >> /\ done \in Seq(Buffers) /\ IsInjective(done)
    BY DEF TypeOK, TakenInv, PlaceInv
  <2>2. /\ Head(done) \in Buffers /\ Head(done) \in ToSet(done) /\ Head(done) = done[1]
        /\ Tail(done) \in Seq(Buffers)
        /\ Len(done) > 0 /\ Len(Tail(done)) = Len(done) - 1
        /\ \A k \in 1..Len(Tail(done)) : Tail(done)[k] = done[k + 1]
        /\ ToSet(Tail(done)) = ToSet(done) \ {Head(done)}
        /\ IsInjective(Tail(done)) /\ Len(done) \in Nat
    BY <2>1, TailDistinct, LenProperties
  <2>3. Buffers \subseteq Slots
    BY <2>1
  <2>4. mem[Head(done)] \in Frames /\ mem[Head(done)] = want + 1
    BY <2>2, <2>3 DEF TypeOK, FrameInv
  <2>5. TypeOK'
    BY <2>2, <2>4 DEF TypeOK, Buffers
  <2>6. SetupInv'
    BY <2>2, <2>3 DEF TypeOK, SetupInv, Setup, Capturing, Buffers
  <2>7. PlaceInv'
    BY <2>2 DEF PlaceInv
  <2>8. TakenInv'
    BY <2>2 DEF TakenInv, PlaceInv, Buffers
  <2>9. FrameInv'
    <3>1. want \in Int /\ frame \in Int
      BY DEF TypeOK, Frames
    <3>2. want' = want + 1 /\ mem' = mem /\ done' = Tail(done)
      BY <2>4
    <3>3. ASSUME NEW k \in 1..Len(done')
          PROVE  mem'[done'[k]] = want' + k
      <4>1. k + 1 \in 1..Len(done) /\ done'[k] = done[k + 1]
        BY <2>2, <3>2
      <4>2. mem[done[k + 1]] = want + (k + 1)
        BY <4>1 DEF FrameInv
      <4> QED
        BY <4>1, <4>2, <3>1, <3>2, <2>2
    <3> QED
      BY <3>1, <3>2, <3>3, <2>2 DEF FrameInv
  <2> QED
    BY <2>5, <2>6, <2>7, <2>8, <2>9 DEF BufferZeroIsSaved
<1>4. CASE Save
  <2> USE <1>4 DEF Save, SaveOr
  <2>1. TypeOK'
    BY DEF TypeOK, Buffers, SetupInv, None, Slots
  <2>2. (SetupInv /\ PlaceInv /\ TakenInv /\ FrameInv)'
    BY DEF TypeOK, SetupInv, PlaceInv, TakenInv, FrameInv, Buffers, Setup, Capturing
  <2>3. BufferZeroIsSaved'
    BY DEF BufferZeroIsSaved, TakenInv, SetupInv, None, Slots
  <2> QED
    BY <2>1, <2>2, <2>3
<1>5. CASE Requeue
  <2> USE <1>5 DEF Requeue, RequeueOnto
  <2>1. CASE gone
    BY <2>1 DEF TypeOK, SetupInv, PlaceInv, TakenInv, FrameInv,
              BufferZeroIsSaved, Buffers, Setup, Capturing
  <2>2. CASE ~gone
    <3>1. /\ index \in Buffers /\ index \notin ToSet(queued) \cup ToSet(done) \cup {filling}
          /\ queued \in Seq(Buffers) /\ IsInjective(queued)
      BY <2>2 DEF TypeOK, TakenInv, PlaceInv
    <3>2. /\ queued' \in Seq(Buffers) /\ ToSet(queued') = ToSet(queued) \cup {index}
          /\ IsInjective(queued')
      BY <2>2, <3>1, AppendDistinct
    <3>3. TypeOK'
      BY <3>2 DEF TypeOK, Buffers
    <3>4. SetupInv'
      BY DEF SetupInv, Setup, Capturing
    <3>5. PlaceInv'
      BY <3>1, <3>2 DEF PlaceInv
    <3>6. (TakenInv /\ FrameInv /\ BufferZeroIsSaved)'
      BY DEF TakenInv, FrameInv, BufferZeroIsSaved
    <3> QED
      BY <3>3, <3>4, <3>5, <3>6
  <2> QED
    BY <2>1, <2>2
<1> QED
  BY <1>1, <1>2, <1>3, <1>4, <1>5

\* The camera and its driver, and the cable.
LEMMA CameraStep ==
  ASSUME IInv, FillStart \/ FillEnd \/ Unplug
  PROVE  IInv'
<1> USE UvcAssumption, HasSlot DEF IInv
<1>1. CASE FillStart
  <2> USE <1>1 DEF FillStart, Streaming
  <2>1. queued # << >> /\ queued \in Seq(Buffers) /\ IsInjective(queued)
    BY DEF TypeOK, PlaceInv
  <2>2. /\ Head(queued) \in Buffers /\ Head(queued) \in ToSet(queued)
        /\ Tail(queued) \in Seq(Buffers)
        /\ ToSet(Tail(queued)) = ToSet(queued) \ {Head(queued)}
        /\ IsInjective(Tail(queued))
    BY <2>1, TailDistinct
  <2>3. Buffers \subseteq Slots
    BY <2>1
  <2>4. TypeOK'
    BY <2>2, <2>3 DEF TypeOK, Buffers, Frames, Torn
  <2>5. SetupInv'
    BY <2>2 DEF TypeOK, SetupInv, Setup, Capturing, Buffers
  <2>6. PlaceInv'
    BY <2>2 DEF PlaceInv
  <2>7. TakenInv'
    BY <2>2, <2>3 DEF TypeOK, TakenInv, PlaceInv, Buffers
  <2>8. FrameInv'
    <3>1. \A k \in 1..Len(done) : done[k] \in ToSet(done)
      BY DEF ToSet, TypeOK
    <3> QED
      BY <2>2, <2>3, <3>1 DEF TypeOK, FrameInv, PlaceInv
  <2>9. BufferZeroIsSaved'
    BY DEF BufferZeroIsSaved
  <2> QED
    BY <2>4, <2>5, <2>6, <2>7, <2>8, <2>9
<1>2. CASE FillEnd
  <2> USE <1>2 DEF FillEnd, Streaming
  <2>1. filling \in Buffers /\ done \in Seq(Buffers) /\ filling \notin ToSet(done)
    BY DEF TypeOK, PlaceInv
  <2>2. /\ done' \in Seq(Buffers) /\ Len(done') = Len(done) + 1
        /\ ToSet(done') = ToSet(done) \cup {filling}
        /\ \A k \in 1..Len(done) : done'[k] = done[k]
        /\ done'[Len(done) + 1] = filling /\ IsInjective(done') /\ Len(done) \in Nat
    BY <2>1, AppendDistinct, LenProperties DEF PlaceInv
  <2>3. Buffers \subseteq Slots
    BY <2>1
  <2>4. frame \in Nat /\ frame' = frame + 1 /\ frame' \in Frames /\ want \in Nat
    BY DEF TypeOK, Frames, FrameInv
  <2>5. TypeOK'
    BY <2>2, <2>3, <2>4 DEF TypeOK, Buffers
  <2>6. SetupInv'
    BY <2>2, <2>1 DEF TypeOK, SetupInv, Setup, Capturing, Buffers, None
  <2>7. PlaceInv'
    <3>1. None \notin Buffers
      BY DEF None, Buffers
    <3> QED
      BY <2>1, <2>2, <3>1 DEF PlaceInv
  <2>8. TakenInv'
    <3>1. done' # << >>
      BY <2>2
    <3>2. index \in Buffers /\ index # filling => index # None /\ mem'[index] = mem[index]
      BY <2>1, <2>3 DEF TypeOK, Buffers, None
    <3> QED
      BY <2>1, <2>2, <3>1, <3>2 DEF TakenInv, Buffers
  <2>9. FrameInv'
    <3>1. \A k \in 1..Len(done) : done[k] \in ToSet(done) /\ done[k] \in Buffers
      BY DEF ToSet, TypeOK
    <3>2. \A k \in 1..Len(done) : mem'[done'[k]] = want + k
      BY <2>1, <2>2, <2>3, <3>1 DEF TypeOK, FrameInv
    <3>3. mem'[done'[Len(done) + 1]] = want + Len(done) + 1
      BY <2>1, <2>2, <2>3, <2>4 DEF TypeOK, FrameInv
    <3>4. \A k \in 1..Len(done') : mem'[done'[k]] = want + k
      <4>1. \A k \in 1..Len(done') : k \in 1..Len(done) \/ k = Len(done) + 1
        BY <2>2
      <4>2. want + Len(done) + 1 = want + (Len(done) + 1)
        BY <2>2, UvcAssumption DEF TypeOK, Frames
      <4> QED
        BY <4>1, <4>2, <3>2, <3>3
    <3> QED
      BY <2>2, <2>4, <3>4 DEF FrameInv
  <2>10. BufferZeroIsSaved'
    BY DEF BufferZeroIsSaved
  <2> QED
    BY <2>5, <2>6, <2>7, <2>8, <2>9, <2>10
<1>3. CASE Unplug
  BY <1>3 DEF Unplug, TypeOK, SetupInv, PlaceInv, TakenInv, FrameInv, BufferZeroIsSaved,
              Buffers
<1> QED
  BY <1>1, <1>2, <1>3

\* The invariant holds in every state of the program, the driver and the camera.
LEMMA Invariance == Spec => []IInv
<1>1. IInv /\ [Next]_vars => IInv'
  <2> SUFFICES ASSUME IInv, [Next]_vars
               PROVE  IInv'
    OBVIOUS
  <2>1. CASE Next
    BY <2>1, SetupStep, QueueStep, LoopStep, CameraStep DEF Next, Program
  <2>2. CASE UNCHANGED vars
    BY <2>2 DEF vars, IInv, TypeOK, SetupInv, PlaceInv, TakenInv, FrameInv,
                BufferZeroIsSaved, Buffers
  <2> QED
    BY <2>1, <2>2
<1> QED
  BY InitInv, <1>1, PTL DEF Spec

\* Type correctness: indices stay within the buffers granted, however many they are.
THEOREM TypeCorrect == Spec => []TypeOK
<1>1. IInv => TypeOK
  BY DEF IInv
<1> QED
  BY Invariance, <1>1, PTL

\* The file of a frame captured into buffer 0 holds that frame: nothing writes the
\* buffer between DQBUF and the QBUF after fwrite().
THEOREM BufferZeroSaved == Spec => []BufferZeroIsSaved
<1>1. IInv => BufferZeroIsSaved
  BY DEF IInv
<1> QED
  BY Invariance, <1>1, PTL

-----------------------------------------------------------------------------
(* The refinement.                                                         *)

\* In a state of the invariant no buffer is contested: its owner is where it is.
LEMMA OwnerIs ==
  ASSUME IInv, NEW b
  PROVE  Owner(b) = IF b \in ToSet(queued) THEN "driver"
                    ELSE IF b = filling THEN "camera"
                    ELSE IF b \in ToSet(done) THEN "ready" ELSE "program"
<1>1. IsInjective(queued \o done)
  <2>1. /\ queued \in Seq(Buffers) /\ done \in Seq(Buffers)
        /\ IsInjective(queued) /\ IsInjective(done) /\ ToSet(queued) \cap ToSet(done) = {}
    BY DEF IInv, TypeOK, PlaceInv
  <2> QED
    BY <2>1, ConcatDistinct
<1>2. ASSUME NEW p, Places(b) = {p}
      PROVE  Owner(b) = p
  <2>1. Cardinality(Places(b)) = 1
    BY <1>2, FS_Singleton
  <2> QED
    BY <1>1, <1>2, <2>1 DEF Owner
<1>3. CASE b \in ToSet(queued)
  <2>1. Places(b) = {"driver"}
    BY <1>3 DEF Places, IInv, PlaceInv
  <2> QED
    BY <1>2, <1>3, <2>1
<1>4. CASE b \notin ToSet(queued) /\ b = filling
  <2>1. Places(b) = {"camera"}
    BY <1>4 DEF Places, IInv, PlaceInv
  <2> QED
    BY <1>2, <1>4, <2>1
<1>5. CASE b \notin ToSet(queued) /\ b # filling /\ b \in ToSet(done)
  <2>1. Places(b) = {"ready"}
    BY <1>5 DEF Places
  <2> QED
    BY <1>2, <1>5, <2>1
<1>6. CASE b \notin ToSet(queued) /\ b # filling /\ b \notin ToSet(done)
  <2>1. Places(b) = {}
    BY <1>6 DEF Places
  <2> QED
    BY <1>6, <2>1 DEF Owner
<1> QED
  BY <1>3, <1>4, <1>5, <1>6

\* Where the buffers are, and what the exchange sees of the state.
Whereabouts ==
  [b \in Slots |-> IF b \in ToSet(queued) THEN "driver"
                   ELSE IF b = filling THEN "camera"
                   ELSE IF b \in ToSet(done) THEN "ready" ELSE "program"]

Owners == [b \in Slots |-> Owner(b)]

OwnersAreKnown == Owners = Whereabouts

\* In a state of the invariant the owner that the exchange sees is where the buffer is.
LEMMA OwnersAre == IInv => OwnersAreKnown
  BY OwnerIs DEF OwnersAreKnown, Owners, Whereabouts

\* The same in the state after a step.
LEMMA OwnersAreNext == IInv' => OwnersAreKnown'
  BY OwnersAre, PTL

\* The program starts with all buffers, none of them filled.
LEMMA InitRefines == Init => Exchange!Init
<1> SUFFICES ASSUME Init
             PROVE  Exchange!Init
  OBVIOUS
<1>1. Owners = Whereabouts
  BY InitInv, OwnersAre DEF OwnersAreKnown
<1>2. ToSet(queued) = {} /\ ToSet(done) = {} /\ None \notin Slots
  BY DEF Init, ToSet, None, Slots
<1>3. Owners = [b \in Slots |-> "program"]
  BY <1>1, <1>2 DEF Whereabouts, Init
<1> QED
  BY <1>3 DEF Owners, Init, Exchange!Init, Torn

\* A step that leaves the queues, the buffers and the history alone is a stutter.
LEMMA Stutter ==
  ASSUME IInv, IInv', UNCHANGED <<queued, done, filling, mem, frame, want>>
  PROVE  UNCHANGED Exchange!exchange
<1>1. Owners = Whereabouts /\ Owners' = Whereabouts'
  BY OwnersAre, OwnersAreNext DEF OwnersAreKnown
<1>2. Whereabouts' = Whereabouts
  BY DEF Whereabouts
<1>3. Owners' = Owners
  BY <1>1, <1>2
<1> QED
  BY <1>3 DEF Exchange!exchange, Owners

\* QBUF, before the stream is on and in the loop, gives a buffer away.
LEMMA GiveStep ==
  ASSUME IInv, IInv', Queue \/ (Requeue /\ ~gone)
  PROVE  Exchange!Next
<1>1. PICK x \in Slots : /\ x \notin ToSet(queued) \cup ToSet(done) \cup {filling}
                         /\ ToSet(queued') = ToSet(queued) \cup {x}
                         /\ UNCHANGED <<done, filling, mem, frame, want>>
  <2>1. CASE Queue
    <3>0. i \in Buffers /\ queued \in Seq(Buffers)
      BY <2>1, HasSlot DEF Queue, IInv, TypeOK, SetupInv, Buffers
    <3>1. i \in Buffers /\ queued \in Seq(Buffers) /\ i \in Slots
      BY <3>0, HasSlot
    <3>2. i \notin ToSet(queued)
      BY <2>1, <3>1 DEF Queue, IInv, SetupInv, Buffers
    <3>3. ToSet(done) = {} /\ filling # i
      BY <2>1, <3>1 DEF Queue, IInv, SetupInv, Setup, ToSet, None, Buffers
    <3> QED
      BY <2>1, <3>1, <3>2, <3>3, AppendDistinct DEF Queue
  <2>2. CASE Requeue /\ ~gone
    <3>1. index \in Buffers /\ queued \in Seq(Buffers) /\ index # None
      BY <2>2 DEF Requeue, RequeueOnto, IInv, TypeOK, TakenInv, Buffers, None
    <3>2. index \in Slots
      BY <3>1, HasSlot
    <3>3. index \notin ToSet(queued) \cup ToSet(done) \cup {filling}
      BY <2>2 DEF Requeue, RequeueOnto, IInv, TakenInv
    <3> QED
      BY <2>2, <3>1, <3>2, <3>3, AppendDistinct DEF Requeue, RequeueOnto
  <2> QED
    BY <2>1, <2>2
<1>2. Owners = Whereabouts /\ Owners' = Whereabouts'
  BY OwnersAre, OwnersAreNext DEF OwnersAreKnown
<1>3. Owners[x] = "program" /\ Owners' = [Owners EXCEPT ![x] = "driver"]
  BY <1>1, <1>2 DEF Whereabouts
<1>4. Exchange!Give(x)
  BY <1>1, <1>3 DEF Exchange!Give, Exchange!Hand, Owners
<1> QED
  BY <1>4 DEF Exchange!Next

\* The camera begins a buffer that the driver has, and no other is being written.
LEMMA BeginStep ==
  ASSUME IInv, IInv', FillStart
  PROVE  Exchange!Next
<1> DEFINE x == Head(queued)
<1>1. queued # << >> /\ queued \in Seq(Buffers) /\ IsInjective(queued) /\ filling = None
  BY DEF FillStart, IInv, TypeOK, PlaceInv
<1>2. /\ x \in ToSet(queued) /\ x \in Slots
      /\ ToSet(queued') = ToSet(queued) \ {x}
  BY <1>1, TailDistinct, HasSlot DEF FillStart
<1>3. filling' = x /\ mem' = [mem EXCEPT ![x] = 0] /\ UNCHANGED <<done, frame, want>>
  BY DEF FillStart, Torn
<1>4. x \notin ToSet(done) /\ None \notin Slots
  BY <1>2 DEF IInv, PlaceInv, None, Slots
<1> HIDE DEF x
<1>5. Owners = Whereabouts /\ Owners' = Whereabouts'
  BY OwnersAre, OwnersAreNext DEF OwnersAreKnown
<1>6. Owners[x] = "driver" /\ \A c \in Slots : Owners[c] # "camera"
  BY <1>1, <1>2, <1>4, <1>5 DEF Whereabouts
<1>7. Owners' = [Owners EXCEPT ![x] = "camera"]
  BY <1>1, <1>2, <1>3, <1>4, <1>5 DEF Whereabouts
<1>8. Exchange!Begin(x)
  BY <1>3, <1>6, <1>7 DEF Exchange!Begin, Exchange!Hand, Owners
<1> QED
  BY <1>2, <1>8 DEF Exchange!Next

\* The camera finishes the buffer it was writing.
LEMMA FinishStep ==
  ASSUME IInv, IInv', FillEnd
  PROVE  Exchange!Next
<1> DEFINE x == filling
<1>1. x \in Buffers /\ done \in Seq(Buffers) /\ x \notin ToSet(queued) \cup ToSet(done)
  BY DEF FillEnd, IInv, TypeOK, PlaceInv
<1>2. x \in Slots /\ ToSet(done') = ToSet(done) \cup {x} /\ None \notin Slots
  BY <1>1, AppendDistinct, HasSlot DEF FillEnd, None, Slots
<1>3. /\ filling' = None /\ frame' = frame + 1 /\ mem' = [mem EXCEPT ![x] = frame']
      /\ UNCHANGED <<queued, want>>
  BY DEF FillEnd
<1>4. Owners = Whereabouts /\ Owners' = Whereabouts'
  BY OwnersAre, OwnersAreNext DEF OwnersAreKnown
<1>5. Owners[x] = "camera" /\ Owners' = [Owners EXCEPT ![x] = "ready"]
  BY <1>1, <1>2, <1>3, <1>4 DEF Whereabouts
<1>6. Exchange!Finish(x)
  BY <1>3, <1>5 DEF Exchange!Finish, Exchange!Hand, Owners
<1> QED
  BY <1>2, <1>6 DEF Exchange!Next

\* DQBUF takes the frame after the one taken last.
LEMMA TakeStep ==
  ASSUME IInv, IInv', Dequeue, ~gone
  PROVE  Exchange!Next
<1> DEFINE x == Head(done)
<1>1. done # << >> /\ done \in Seq(Buffers) /\ IsInjective(done)
  BY DEF Dequeue, IInv, TypeOK, PlaceInv, TakenInv
<1>2. /\ x \in ToSet(done) /\ x \in Slots /\ x = done[1] /\ 1 \in 1..Len(done)
      /\ ToSet(done') = ToSet(done) \ {x}
  <2>1. /\ x \in ToSet(done) /\ x = done[1] /\ Len(done) > 0
        /\ ToSet(Tail(done)) = ToSet(done) \ {x}
    BY <1>1, TailDistinct
  <2>2. Len(done) \in Nat
    BY <1>1, LenProperties
  <2>3. x \in Slots
    BY <1>1, <2>1, HasSlot
  <2>4. done' = Tail(done)
    BY DEF Dequeue
  <2> QED
    BY <2>1, <2>2, <2>3, <2>4
<1>3. want' = mem[x] /\ UNCHANGED <<queued, filling, mem, frame>>
  BY DEF Dequeue
<1>4. mem[x] = want + 1
  BY <1>2 DEF IInv, FrameInv
<1>5. x \notin ToSet(queued) /\ x # filling
  BY <1>2 DEF IInv, PlaceInv
<1> HIDE DEF x
<1>6. Owners = Whereabouts /\ Owners' = Whereabouts'
  BY OwnersAre, OwnersAreNext DEF OwnersAreKnown
<1>7. Owners[x] = "ready" /\ Owners' = [Owners EXCEPT ![x] = "program"]
  BY <1>2, <1>3, <1>5, <1>6 DEF Whereabouts
<1>8. Exchange!Take(x)
  BY <1>3, <1>4, <1>7 DEF Exchange!Take, Exchange!Hand, Owners
<1> QED
  BY <1>2, <1>8 DEF Exchange!Next

\* The program, the driver and the camera implement the exchange of buffers, whatever
\* count REQBUFS grants, whichever calls fail and whenever the camera is unplugged.
THEOREM Refinement == Spec => ImplementsExchange
<1>1. IInv /\ IInv' /\ [Next]_vars => [Exchange!Next]_(Exchange!exchange)
  <2> SUFFICES ASSUME IInv, IInv', [Next]_vars
               PROVE  Exchange!Next \/ UNCHANGED Exchange!exchange
    OBVIOUS
  <2>1. CASE Queue \/ (Requeue /\ ~gone)
    BY <2>1, GiveStep
  <2>2. CASE FillStart
    BY <2>2, BeginStep
  <2>3. CASE FillEnd
    BY <2>3, FinishStep
  <2>4. CASE Dequeue /\ ~gone
    BY <2>4, TakeStep
  <2>5. CASE InitFails \/ Configure \/ Map \/ Mapped \/ StreamOn \/ Poll \/ Save \/ Unplug
    <3>1. UNCHANGED <<queued, done, filling, mem, frame, want>>
      BY <2>5 DEF InitFails, Configure, Map, MapUpTo, Mapped, StreamOn, Poll, PollFor, Save,
                  SaveOr, Unplug, driver
    <3> QED
      BY <3>1, Stutter
  <2>6. CASE (Dequeue \/ Requeue) /\ gone
    <3>1. UNCHANGED <<queued, done, filling, mem, frame, want>>
      BY <2>6 DEF Dequeue, Requeue, RequeueOnto
    <3> QED
      BY <3>1, Stutter
  <2>7. CASE UNCHANGED vars
    <3>1. UNCHANGED <<queued, done, filling, mem, frame, want>>
      BY <2>7 DEF vars
    <3> QED
      BY <3>1, Stutter
  <2>8. \/ (Queue \/ (Requeue /\ ~gone))
        \/ FillStart
        \/ FillEnd
        \/ Dequeue /\ ~gone
        \/ (InitFails \/ Configure \/ Map \/ Mapped \/ StreamOn \/ Poll \/ Save \/ Unplug)
        \/ (Dequeue \/ Requeue) /\ gone
        \/ UNCHANGED vars
    BY DEF Next, Program
  <2> QED
    BY <2>1, <2>2, <2>3, <2>4, <2>5, <2>6, <2>7, <2>8
<1> QED
  BY InitRefines, Invariance, <1>1, PTL DEF Spec, ImplementsExchange, Exchange!Spec

-----------------------------------------------------------------------------
(* testusb: lists that are built at and walked from their head.            *)

\* Putting an element that is not in the list in front of it.
LEMMA ConsDistinct ==
  ASSUME NEW S, NEW s \in Seq(S), NEW x \in S, IsInjective(s), x \notin ToSet(s)
  PROVE  /\ <<x>> \o s \in Seq(S)
         /\ ToSet(<<x>> \o s) = ToSet(s) \cup {x}
         /\ IsInjective(<<x>> \o s)
<1> DEFINE t == <<x>> \o s
<1>1. <<x>> \in Seq(S) /\ Len(<<x>>) = 1 /\ <<x>>[1] = x
  OBVIOUS
<1>2. /\ t \in Seq(S) /\ Len(t) = 1 + Len(s) /\ Len(s) \in Nat
      /\ \A k \in 1..1 : t[k] = <<x>>[k]
      /\ \A k \in 1..Len(s) : t[1 + k] = s[k]
  BY <1>1, ConcatProperties, LenProperties
<1>3. DOMAIN t = 1..(Len(s) + 1) /\ DOMAIN s = 1..Len(s) /\ t[1] = x
  BY <1>1, <1>2
<1> HIDE DEF t
<1>4. ASSUME NEW k \in DOMAIN t, k # 1
      PROVE  k - 1 \in DOMAIN s /\ t[k] = s[k - 1]
  <2>1. k - 1 \in 1..Len(s) /\ k = 1 + (k - 1)
    BY <1>2, <1>3, <1>4
  <2> QED
    BY <1>2, <1>3, <2>1
<1>5. ToSet(t) \subseteq ToSet(s) \cup {x}
  BY <1>3, <1>4 DEF ToSet
<1>6. x \in ToSet(t)
  BY <1>2, <1>3 DEF ToSet
<1>7. ASSUME NEW y \in ToSet(s)
      PROVE  y \in ToSet(t)
  <2>1. PICK k \in 1..Len(s) : y = s[k]
    BY <1>3 DEF ToSet
  <2>2. 1 + k \in DOMAIN t /\ t[1 + k] = y
    BY <1>2, <1>3, <2>1
  <2> QED
    BY <2>2 DEF ToSet
<1>8. ASSUME NEW a \in DOMAIN t, NEW b \in DOMAIN t, t[a] = t[b]
      PROVE  a = b
  <2>1. \A k \in DOMAIN s : s[k] \in ToSet(s)
    BY DEF ToSet
  <2>2. a = 1 <=> b = 1
    BY <1>3, <1>4, <1>8, <2>1
  <2>3. CASE a # 1
    <3>1. a - 1 = b - 1
      BY <1>4, <1>8, <2>2, <2>3 DEF IsInjective
    <3> QED
      BY <3>1, <1>2, <1>3
  <2> QED
    BY <2>2, <2>3
<1> QED
  BY <1>2, <1>5, <1>6, <1>7, <1>8 DEF t, IsInjective

\* What is left of a list that is walked from its head.
EndOf(s, t) ==
  /\ Len(s) <= Len(t)
  /\ \A k \in 1..Len(s) : s[k] = t[(Len(t) - Len(s)) + k]

LEMMA EndIsSuffix ==
  ASSUME NEW S, NEW s \in Seq(S), NEW t \in Seq(S), EndOf(s, t)
  PROVE  IsSuffix(s, t) /\ ToSet(s) \subseteq ToSet(t)
<1> DEFINE n == Len(s)
           m == Len(t)
           rs == [k \in 1..Len(s) |-> s[(Len(s) - k) + 1]]
           rt == [k \in 1..Len(t) |-> t[(Len(t) - k) + 1]]
<1>1. n \in Nat /\ m \in Nat /\ n <= m /\ DOMAIN s = 1..n /\ DOMAIN t = 1..m
  BY LenProperties DEF EndOf
<1>2. rs \in Seq(S) /\ Len(rs) = n
  <2>1. \A k \in 1..n : (n - k) + 1 \in 1..n
    BY <1>1
  <2>2. \A k \in 1..n : s[(n - k) + 1] \in S
    BY <2>1, ElementOfSeq
  <2>3. rs \in [1..n -> S]
    BY <2>2
  <2> QED
    BY <1>1, <2>3
<1>3. rt \in Seq(S) /\ Len(rt) = m
  <2>1. \A k \in 1..m : (m - k) + 1 \in 1..m
    BY <1>1
  <2>2. \A k \in 1..m : t[(m - k) + 1] \in S
    BY <2>1, ElementOfSeq
  <2>3. rt \in [1..m -> S]
    BY <2>2
  <2> QED
    BY <1>1, <2>3
<1>4. ASSUME NEW k \in 1..n
      PROVE  rs[k] = rt[k]
  <2>1. k \in 1..m /\ (n - k) + 1 \in 1..n /\ (m - n) + ((n - k) + 1) = (m - k) + 1
    BY <1>1
  <2>2. s[(n - k) + 1] = t[(m - n) + ((n - k) + 1)]
    BY <2>1 DEF EndOf
  <2> QED
    BY <2>1, <2>2
<1>5. \A k \in 1..n : s[k] \in ToSet(t)
  <2>1. \A k \in 1..n : (m - n) + k \in DOMAIN t
    BY <1>1
  <2> QED
    BY <2>1 DEF EndOf, ToSet
<1>6. IsPrefix(rs, rt)
  <2> HIDE DEF rs, rt, n, m
  <2>1. SubSeq(rs, 1, n) = [k \in 1..n |-> rs[k]] /\ SubSeq(rt, 1, n) = [k \in 1..n |-> rt[k]]
    BY <1>1, <1>2, <1>3
  <2>2. SubSeq(rs, 1, n) = SubSeq(rt, 1, n)
    BY <1>4, <2>1
  <2> QED
    BY <1>1, <1>2, <1>3, <2>2 DEF IsPrefix
<1>7. ToSet(s) \subseteq ToSet(t)
  BY <1>1, <1>5 DEF ToSet
<1>8. IsSuffix(s, t)
  BY <1>6 DEF IsSuffix, Reverse
<1> QED
  BY <1>7, <1>8

-----------------------------------------------------------------------------
(* The inductive invariant of testusb.                                     *)

\* The list and what is left of it.  The scan sees every device once, so no device is
\* entered twice.
ListInv ==
  /\ testdevs \in Seq(Known) /\ IsInjective(testdevs)
  /\ entry \in Seq(Devices)
  /\ mpc = "opts" => testdevs = << >>
  /\ mpc = "scan" => IsInjective(entry) /\ ToSet(entry) \cap ToSet(testdevs) = {}
  /\ mpc # "scan" => EndOf(entry, testdevs) /\ IsInjective(entry)

\* Who tests which device: main() the one that is named, a thread each of the others, and
\* the threads that main() has passed in its loop of joins are done.
ThreadInv ==
  /\ created \subseteq ToSet(testdevs)
  /\ \A d \in created : thread[d] # "none"
  /\ device # All => created = {} /\ device \in Devices
  /\ mpc \in {"opts", "scan"} => created = {}
  /\ mpc \in {"opts", "scan"} \/ (mpc = "create" /\ device # All) =>
       \A d \in Devices : thread[d] = "none"
  /\ mpc = "create" => \A d \in ToSet(entry) : d \in Devices /\ thread[d] = "none"
  /\ mpc = "single" => device # All
  /\ mpc = "join" => /\ device = All
                     /\ \A d \in created \ ToSet(entry) : thread[d] \in {"end", "failed"}

\* The cases that a test has dealt with are the selected ones below its counter.
CaseInv ==
  \A d \in Devices :
    /\ ran[d] \cup skipped[d] = {n \in Selected : n < turn[d]}
    /\ thread[d] \in {"none", "open", "failed"} => turn[d] = 0
    /\ thread[d] = "end" => turn[d] = TEST_CASES

\* There is a status once main() has returned.
StatusInv == (mpc # "exit" => status = "none") /\ ExitIsExplained

UsbInv == UsbTypeOK /\ ListInv /\ ThreadInv /\ CaseInv /\ StatusInv

LEMMA UsbStarts == UsbInit => UsbInv
<1> SUFFICES ASSUME UsbInit
             PROVE  UsbInv
  OBVIOUS
<1> USE TestUsbAssumption DEF UsbInit
<1>1. /\ << >> \in Seq(Known) /\ << >> \in Seq(Devices) /\ ToSet(<< >>) = {}
      /\ IsInjective(<< >>) /\ EndOf(<< >>, << >>)
  BY DEF ToSet, IsInjective, EndOf
<1>2. IsSuffix(<< >>, << >>)
  BY <1>1, EndIsSuffix
<1>3. UsbTypeOK
  <2>1. 0 \in 0..TEST_CASES /\ Every \in 0..Every
    BY DEF Every
  <2>2. ToSet(<< >>) \subseteq Known
    BY <1>1
  <2> QED
    BY <1>1, <1>2, <2>1, <2>2, Zenon DEF UsbTypeOK
<1>4. ListInv /\ ThreadInv
  BY <1>1 DEF ListInv, ThreadInv
<1>5. CaseInv
  BY DEF CaseInv, Selected
<1>6. StatusInv
  BY DEF StatusInv, ExitIsExplained
<1> QED
  BY <1>3, <1>4, <1>5, <1>6 DEF UsbInv

\* The walk over the bus visits every device that is there once.
LEMMA WalkIs ==
  ASSUME NEW S \in SUBSET Devices, NEW s \in SetToSeqs(S)
  PROVE  s \in Seq(Devices) /\ IsInjective(s)
<1>1. IsFiniteSet(Devices)
  BY TestUsbAssumption, FS_Union DEF Devices
<1>2. Cardinality(S) \in Nat
  BY <1>1, FS_Subset, FS_CardinalityType
<1>3. /\ s \in [1..Cardinality(S) -> S]
      /\ \A a, b \in 1..Cardinality(S) : a # b => s[a] # s[b]
  BY DEF SetToSeqs
<1>4. s \in Seq(S) /\ DOMAIN s = 1..Cardinality(S)
  BY <1>2, <1>3
<1>5. s \in Seq(Devices)
  BY <1>2, <1>3
<1> QED
  BY <1>3, <1>4, <1>5 DEF IsInjective

\* Nothing is found or tested before the options are read.
LEMMA ParseOptsStep == ASSUME UsbInv, ParseOpts PROVE UsbInv'
<1> USE DEF UsbInv, options, tests
<1>1. CASE mpc' = "exit"
  <2>1. /\ mpc = "opts" /\ status' = "1"
        /\ UNCHANGED <<device, not, test, testdevs, entry, plugged, thread, turn, ran, skipped,
                       created>>
    BY <1>1 DEF ParseOpts, Return
  <2>2. UsbTypeOK' /\ ListInv'
    BY <1>1, <2>1 DEF UsbTypeOK, ListInv
  <2>3. ThreadInv'
    BY <1>1, <2>1 DEF ThreadInv
  <2>4. CaseInv' /\ StatusInv'
    BY <1>1, <2>1 DEF CaseInv, StatusInv, Selected, ExitIsExplained
  <2> QED
    BY <2>2, <2>3, <2>4
<1>2. CASE mpc' # "exit"
  <2>1. /\ mpc = "opts" /\ mpc' = "scan" /\ device' \in Devices \cup {All} /\ not' \in BOOLEAN
        /\ test' \in 0..Every /\ entry' \in SetToSeqs(plugged)
        /\ UNCHANGED <<testdevs, plugged, thread, turn, ran, skipped, created, status>>
    BY <1>2 DEF ParseOpts, Return
  <2>2. entry' \in Seq(Devices) /\ IsInjective(entry')
    BY <2>1, WalkIs DEF UsbTypeOK
  <2>3. ToSet(testdevs) = {}
    BY <2>1 DEF ListInv, ToSet
  <2>4. UsbTypeOK'
    BY <2>1 DEF UsbTypeOK
  <2>5. ListInv'
    BY <2>1, <2>2, <2>3 DEF ListInv
  <2>6. ThreadInv'
    BY <2>1 DEF ThreadInv
  <2>7. \A d \in Devices : ran[d] \cup skipped[d] = {} /\ turn[d] = 0
    BY <2>1, TestUsbAssumption DEF CaseInv, ThreadInv, Selected
  <2>8. CaseInv'
    BY <2>1, <2>7, TestUsbAssumption DEF CaseInv, ThreadInv, Selected
  <2>9. StatusInv'
    BY <2>1 DEF StatusInv, ExitIsExplained
  <2> QED
    BY <2>4, <2>5, <2>6, <2>8, <2>9
<1> QED
  BY <1>1, <1>2

LEMMA FindTestdevStep == ASSUME UsbInv, FindTestdev PROVE UsbInv'
<1> USE DEF UsbInv, options, tests
<1> DEFINE h == Head(entry)
<1>1. /\ mpc = "scan" /\ entry # << >> /\ entry' = Tail(entry)
      /\ \/ UNCHANGED testdevs
         \/ h \in Known /\ testdevs' = <<h>> \o testdevs
      /\ UNCHANGED <<mpc, device, not, test, plugged, thread, turn, ran, skipped, created, status>>
  BY DEF FindTestdev, IsTestdev
<1>2. /\ Tail(entry) \in Seq(Devices) /\ IsInjective(Tail(entry)) /\ h \in ToSet(entry)
      /\ ToSet(Tail(entry)) = ToSet(entry) \ {h}
  BY <1>1, TailDistinct DEF ListInv
<1>3. /\ testdevs' \in Seq(Known) /\ IsInjective(testdevs')
      /\ ToSet(testdevs') \subseteq ToSet(testdevs) \cup {h}
      /\ ToSet(testdevs) \subseteq ToSet(testdevs')
      /\ ToSet(testdevs') \subseteq Known
  <2>1. CASE UNCHANGED testdevs
    BY <2>1 DEF ListInv, UsbTypeOK
  <2>2. CASE h \in Known /\ testdevs' = <<h>> \o testdevs
    <3>1. h \notin ToSet(testdevs)
      BY <1>1, <1>2 DEF ListInv
    <3> HIDE DEF h
    <3> QED
      BY <2>2, <3>1, ConsDistinct DEF ListInv, UsbTypeOK
  <2> QED
    BY <1>1, <2>1, <2>2
<1>4. ListInv'
  BY <1>1, <1>2, <1>3 DEF ListInv
<1>5. UsbTypeOK'
  BY <1>1, <1>3 DEF UsbTypeOK
<1>6. ThreadInv'
  BY <1>1, <1>3 DEF ThreadInv
<1>7. CaseInv' /\ StatusInv'
  BY <1>1 DEF CaseInv, StatusInv, Selected, ExitIsExplained
<1> QED
  BY <1>4, <1>5, <1>6, <1>7

LEMMA DecideStep == ASSUME UsbInv, Decide PROVE UsbInv'
<1> USE DEF UsbInv, options, tests
<1>1. /\ mpc = "scan" /\ entry = << >>
      /\ UNCHANGED <<not, test, testdevs, plugged, thread, turn, ran, skipped, created>>
  BY DEF Decide
<1>2. CASE mpc' = "exit"
  <2>1. /\ status' \in {"-1", "0"} /\ (status' = "0" => not)
        /\ UNCHANGED <<device, entry>>
    BY <1>2 DEF Decide, Return
  <2>2. EndOf(<< >>, testdevs) /\ << >> \in Seq(Known) /\ IsInjective(<< >>)
    BY LenProperties DEF ListInv, EndOf, IsInjective
  <2>3. IsSuffix(<< >>, testdevs)
    BY <2>2, EndIsSuffix DEF ListInv
  <2>4. UsbTypeOK'
    BY <1>1, <1>2, <2>1, <2>3 DEF UsbTypeOK
  <2>5. ListInv'
    BY <1>1, <1>2, <2>1, <2>2 DEF ListInv
  <2>6. ThreadInv'
    BY <1>1, <1>2, <2>1 DEF ThreadInv
  <2>7. CaseInv' /\ StatusInv'
    BY <1>1, <1>2, <2>1 DEF CaseInv, StatusInv, Selected, ExitIsExplained
  <2> QED
    BY <2>4, <2>5, <2>6, <2>7
<1>3. CASE mpc' # "exit"
  <2>1. /\ mpc' = "create" /\ entry' = testdevs /\ UNCHANGED status
        /\ device' = IF Len(testdevs) = 1 /\ device = All THEN testdevs[1] ELSE device
    BY <1>3 DEF Decide, Return
  <2>2. EndOf(testdevs, testdevs) /\ testdevs \in Seq(Devices)
    BY LenProperties DEF ListInv, EndOf, Devices
  <2>3. IsSuffix(testdevs, testdevs)
    BY <2>2, EndIsSuffix DEF ListInv
  <2>4. device' = device \/ device' \in Devices
    <3>1. ASSUME Len(testdevs) = 1
          PROVE  testdevs[1] \in Known
      <4>1. testdevs \in Seq(Known) /\ 1 \in 1..Len(testdevs)
        BY <3>1 DEF ListInv
      <4> HIDE DEF UsbInv
      <4> QED
        BY <4>1, ElementOfSeq
    <3> QED
      BY <2>1, <3>1 DEF Devices
  <2>5. UsbTypeOK'
    BY <1>1, <2>1, <2>3, <2>4 DEF UsbTypeOK
  <2>6. ListInv'
    BY <1>1, <2>1, <2>2 DEF ListInv
  <2>7. ThreadInv'
    BY <1>1, <2>1, <2>4 DEF ThreadInv, UsbTypeOK, Devices
  <2>8. CaseInv' /\ StatusInv'
    BY <1>1, <2>1 DEF CaseInv, StatusInv, Selected, ExitIsExplained
  <2> QED
    BY <2>5, <2>6, <2>7, <2>8
<1> QED
  BY <1>2, <1>3

\* The loops over the list take one entry after the other.
LEMMA NextEntry ==
  ASSUME UsbInv, mpc # "scan", entry # << >>
  PROVE  /\ Head(entry) \in ToSet(entry) /\ Head(entry) \in ToSet(testdevs)
         /\ Tail(entry) \in Seq(Devices) /\ IsInjective(Tail(entry))
         /\ ToSet(Tail(entry)) = ToSet(entry) \ {Head(entry)}
         /\ EndOf(Tail(entry), testdevs) /\ IsSuffix(Tail(entry), testdevs)
<1>1. /\ testdevs \in Seq(Devices) /\ entry \in Seq(Devices) /\ IsInjective(entry)
      /\ EndOf(entry, testdevs) /\ Len(testdevs) \in Nat /\ Len(entry) \in Nat
  BY LenProperties DEF UsbInv, ListInv, Devices
<1>2. /\ Head(entry) \in ToSet(entry)
      /\ Tail(entry) \in Seq(Devices) /\ IsInjective(Tail(entry))
      /\ ToSet(Tail(entry)) = ToSet(entry) \ {Head(entry)}
      /\ Len(entry) > 0 /\ Len(Tail(entry)) = Len(entry) - 1
      /\ \A k \in 1..Len(Tail(entry)) : Tail(entry)[k] = entry[k + 1]
  BY <1>1, TailDistinct
<1>3. ToSet(entry) \subseteq ToSet(testdevs)
  BY <1>1, EndIsSuffix
<1>4. EndOf(Tail(entry), testdevs)
  <2> DEFINE t == Tail(entry)
             n == Len(t)
             m == Len(testdevs)
  <2>1. n = Len(entry) - 1 /\ n \in Nat /\ n <= m
    BY <1>1, <1>2 DEF EndOf
  <2>2. ASSUME NEW k \in 1..n
        PROVE  t[k] = testdevs[(m - n) + k]
    <3>1. k + 1 \in 1..Len(entry) /\ (m - Len(entry)) + (k + 1) = (m - n) + k
      BY <1>1, <2>1
    <3>2. entry[k + 1] = testdevs[(m - Len(entry)) + (k + 1)]
      BY <1>1, <3>1 DEF EndOf
    <3> QED
      BY <1>2, <3>1, <3>2
  <2> QED
    BY <2>1, <2>2 DEF EndOf
<1>5. IsSuffix(Tail(entry), testdevs)
  BY <1>1, <1>2, <1>4, EndIsSuffix
<1> QED
  BY <1>2, <1>3, <1>4, <1>5

LEMMA CreateStep == ASSUME UsbInv, Create PROVE UsbInv'
<1> USE DEF UsbInv, options
<1> DEFINE h == Head(entry)
<1>1. /\ mpc = "create" /\ entry # << >> /\ entry' = Tail(entry)
      /\ UNCHANGED <<device, not, test, testdevs, plugged, turn, ran, skipped, status>>
  BY DEF Create
<1>2. /\ h \in ToSet(testdevs) /\ h \in ToSet(entry)
      /\ ToSet(Tail(entry)) = ToSet(entry) \ {h} /\ h \in Known /\ h \in Devices
      /\ Tail(entry) \in Seq(Devices) /\ IsInjective(Tail(entry))
      /\ EndOf(Tail(entry), testdevs) /\ IsSuffix(Tail(entry), testdevs)
  BY <1>1, NextEntry DEF UsbTypeOK, Devices
<1>3. \/ UNCHANGED <<mpc, thread, created>>
      \/ /\ device # All /\ h = device /\ mpc' = "single" /\ UNCHANGED created
         /\ thread' = [thread EXCEPT ![h] = "open"]
      \/ /\ device = All /\ UNCHANGED mpc /\ created' = created \cup {h}
         /\ thread' = [thread EXCEPT ![h] = "open"]
  BY <1>1 DEF Create
<1> HIDE DEF h
<1>4. UsbTypeOK'
  BY <1>1, <1>2, <1>3 DEF UsbTypeOK
<1>5. ListInv'
  BY <1>1, <1>2, <1>3 DEF ListInv
<1>6. ThreadInv'
  <2>1. CASE UNCHANGED <<mpc, thread, created>>
    BY <1>1, <1>2, <2>1 DEF ThreadInv
  <2>2. CASE /\ device # All /\ h = device /\ mpc' = "single" /\ UNCHANGED created
             /\ thread' = [thread EXCEPT ![h] = "open"]
    BY <1>1, <1>2, <2>2 DEF ThreadInv
  <2>3. CASE /\ device = All /\ UNCHANGED mpc /\ created' = created \cup {h}
             /\ thread' = [thread EXCEPT ![h] = "open"]
    BY <1>1, <1>2, <2>3 DEF ThreadInv, UsbTypeOK, Devices
  <2> QED
    BY <1>3, <2>1, <2>2, <2>3
<1>7. CaseInv'
  <2>1. turn[h] = 0 \/ UNCHANGED thread
    BY <1>1, <1>2, <1>3 DEF CaseInv, ThreadInv
  <2> QED
    BY <1>1, <1>2, <1>3, <2>1 DEF CaseInv, Selected, UsbTypeOK
<1>8. StatusInv'
  BY <1>1, <1>3 DEF StatusInv, ExitIsExplained
<1> QED
  BY <1>4, <1>5, <1>6, <1>7, <1>8

LEMMA CreatedStep == ASSUME UsbInv, Created PROVE UsbInv'
<1> USE DEF UsbInv, options
<1>1. /\ mpc = "create" /\ entry = << >>
      /\ UNCHANGED <<device, not, test, testdevs, plugged, turn, ran, skipped, created, status>>
  BY DEF Created
<1>2. CASE device # All
  <2>1. /\ mpc' = "single" /\ thread' = [thread EXCEPT ![device] = "open"] /\ UNCHANGED entry
    BY <1>2 DEF Created
  <2>2. device \in Devices /\ thread[device] = "none" /\ turn[device] = 0
    BY <1>1, <1>2 DEF ThreadInv, CaseInv
  <2>3. UsbTypeOK' /\ ListInv'
    BY <1>1, <2>1, <2>2 DEF UsbTypeOK, ListInv
  <2>4. ThreadInv'
    BY <1>1, <1>2, <2>1, <2>2 DEF ThreadInv, UsbTypeOK
  <2>5. CaseInv'
    BY <1>1, <2>1, <2>2 DEF CaseInv, Selected, UsbTypeOK
  <2>6. StatusInv'
    BY <1>1, <2>1 DEF StatusInv, ExitIsExplained
  <2> QED
    BY <2>3, <2>4, <2>5, <2>6
<1>3. CASE device = All
  <2>1. mpc' = "join" /\ entry' = testdevs /\ UNCHANGED thread
    BY <1>3 DEF Created
  <2>2. EndOf(testdevs, testdevs) /\ testdevs \in Seq(Devices)
    BY LenProperties DEF ListInv, EndOf, Devices
  <2>3. IsSuffix(testdevs, testdevs)
    BY <2>2, EndIsSuffix DEF ListInv
  <2>4. UsbTypeOK'
    BY <1>1, <2>1, <2>3 DEF UsbTypeOK
  <2>5. ListInv'
    BY <1>1, <2>1, <2>2 DEF ListInv
  <2>6. ThreadInv'
    BY <1>1, <1>3, <2>1 DEF ThreadInv
  <2>7. CaseInv' /\ StatusInv'
    BY <1>1, <2>1 DEF CaseInv, StatusInv, Selected, ExitIsExplained
  <2> QED
    BY <2>4, <2>5, <2>6, <2>7
<1> QED
  BY <1>2, <1>3

\* A test that has come to its end has dealt with every case that was selected.
LEMMA EndMeansAll ==
  ASSUME UsbInv, NEW d \in Devices, thread[d] = "end"
  PROVE  ran[d] \cup skipped[d] = Selected
<1>1. ran[d] \cup skipped[d] = {n \in Selected : n < turn[d]} /\ turn[d] = TEST_CASES
  BY DEF UsbInv, CaseInv
<1>2. \A n \in Selected : n < TEST_CASES
  BY TestUsbAssumption DEF Selected
<1> QED
  BY <1>1, <1>2

LEMMA SingleStep == ASSUME UsbInv, Single PROVE UsbInv'
<1> USE DEF UsbInv, options, tests
<1>1. /\ mpc = "single" /\ mpc' = "exit" /\ status' \in {"0", "1"}
      /\ status' = "0" => thread[device] = "end"
      /\ UNCHANGED <<device, not, test, testdevs, entry, plugged, thread, turn, ran, skipped,
                     created>>
  BY DEF Single, Return
<1>2. device # All /\ device \in Devices /\ created = {}
  BY <1>1 DEF ThreadInv
<1>3. UsbTypeOK' /\ ListInv'
  BY <1>1 DEF UsbTypeOK, ListInv
<1>4. ThreadInv' /\ CaseInv'
  BY <1>1 DEF ThreadInv, CaseInv, Selected
<1>5. status' = "0" => ran[device] \cup skipped[device] = Selected
  BY <1>1, <1>2, EndMeansAll
<1>6. Selected' = Selected
  BY <1>1 DEF Selected
<1>7. StatusInv'
  BY <1>1, <1>2, <1>5, <1>6 DEF StatusInv, ExitIsExplained
<1> QED
  BY <1>3, <1>4, <1>7

LEMMA JoinStep == ASSUME UsbInv, Join PROVE UsbInv'
<1> USE DEF UsbInv, options, tests
<1> DEFINE h == Head(entry)
<1>1. /\ mpc = "join" /\ entry # << >> /\ entry' = Tail(entry)
      /\ \/ h \in created /\ thread[h] \in {"end", "failed"} /\ UNCHANGED <<mpc, status>>
         \/ h \notin created /\ UNCHANGED <<mpc, status>>
         \/ h \notin created /\ mpc' = "exit" /\ status' = "crash"
      /\ UNCHANGED <<device, not, test, testdevs, plugged, thread, turn, ran, skipped, created>>
  BY DEF Join, JoinWhen, Return
<1>2. /\ h \in ToSet(testdevs) /\ ToSet(Tail(entry)) = ToSet(entry) \ {h}
      /\ Tail(entry) \in Seq(Devices) /\ IsInjective(Tail(entry))
      /\ EndOf(Tail(entry), testdevs) /\ IsSuffix(Tail(entry), testdevs)
  BY <1>1, NextEntry
<1> HIDE DEF h
<1>3. UsbTypeOK' /\ ListInv'
  BY <1>1, <1>2 DEF UsbTypeOK, ListInv
<1>4. ThreadInv'
  BY <1>1, <1>2 DEF ThreadInv
<1>5. CaseInv'
  BY <1>1 DEF CaseInv, Selected
<1>6. StatusInv'
  BY <1>1, <1>2 DEF StatusInv, ExitIsExplained, Selected
<1> QED
  BY <1>3, <1>4, <1>5, <1>6

LEMMA JoinedStep == ASSUME UsbInv, Joined PROVE UsbInv'
<1> USE DEF UsbInv, options, tests
<1>1. /\ mpc = "join" /\ entry = << >> /\ mpc' = "exit" /\ status' = "0"
      /\ UNCHANGED <<device, not, test, testdevs, entry, plugged, thread, turn, ran, skipped,
                     created>>
  BY DEF Joined, Return
<1>2. UsbTypeOK' /\ ListInv'
  BY <1>1 DEF UsbTypeOK, ListInv
<1>3. ThreadInv' /\ CaseInv'
  BY <1>1 DEF ThreadInv, CaseInv, Selected
<1>4. ToSet(entry) = {}
  BY <1>1 DEF ToSet
<1>5. \A d \in created : d \in Devices /\ thread[d] \in {"end", "failed"}
  BY <1>1, <1>4 DEF ThreadInv, UsbTypeOK, Devices
<1>6. \A d \in created : thread[d] = "failed" \/ ran[d] \cup skipped[d] = Selected
  BY <1>5, EndMeansAll
<1>7. device = All /\ Selected' = Selected
  BY <1>1 DEF ThreadInv, Selected
<1>8. StatusInv'
  BY <1>1, <1>6, <1>7 DEF StatusInv, ExitIsExplained
<1> QED
  BY <1>2, <1>3, <1>8

\* A step of a test leaves main() alone: the list stays, and so do the status, which is
\* still open, and the joins that main() has made, for the test has not ended.
LEMMA WorkerStep == ASSUME UsbInv, NEW d \in Devices, Worker(d) PROVE UsbInv'
<1> USE DEF UsbInv, options
<1>1. /\ mpc # "exit" /\ thread[d] \in {"open", "test"}
      /\ UNCHANGED <<mpc, device, not, test, testdevs, entry, plugged, created, status>>
  BY DEF Worker, OpenDev, Case, CaseUpTo, FinishTest, FinishAt, Live
<1>2. ListInv' /\ Selected' = Selected
  BY <1>1 DEF ListInv, Selected
<1>3. StatusInv'
  BY <1>1 DEF StatusInv, ExitIsExplained
<1>4. /\ thread' \in [Devices -> {"none", "open", "test", "end", "failed"}]
      /\ \A e \in Devices : e # d => thread'[e] = thread[e]
      /\ thread'[d] \in {"test", "end", "failed"}
  BY <1>1 DEF Worker, OpenDev, Case, CaseUpTo, FinishTest, FinishAt, Live, UsbTypeOK
<1>5. ThreadInv'
  <2>1. \A e \in created : e \in Devices
    BY DEF UsbTypeOK, Devices
  <2> QED
    BY <1>1, <1>4, <2>1 DEF ThreadInv
<1>6. CASE OpenDev(d)
  <2>1. /\ thread[d] = "open" /\ turn' = [turn EXCEPT ![d] = 0] /\ UNCHANGED <<ran, skipped>>
        /\ thread'[d] \in {"test", "failed"}
    BY <1>6 DEF OpenDev, Live, UsbTypeOK
  <2>2. UNCHANGED turn
    BY <2>1 DEF CaseInv, UsbTypeOK
  <2>3. UsbTypeOK'
    BY <1>1, <1>4, <2>1, <2>2 DEF UsbTypeOK
  <2>4. CaseInv'
    BY <1>1, <1>2, <1>4, <2>1, <2>2 DEF CaseInv
  <2> QED
    BY <1>2, <1>3, <1>5, <2>3, <2>4
<1>7. CASE Case(d)
  <2> DEFINE n == turn[d]
  <2>1. /\ thread[d] = "test" /\ turn[d] <= TEST_CASES - 1 /\ turn' = [turn EXCEPT ![d] = @ + 1]
        /\ UNCHANGED thread
    BY <1>7 DEF Case, CaseUpTo, Live
  <2>2. n \in 0..(TEST_CASES - 1) /\ n + 1 \in 0..TEST_CASES
    BY <2>1, TestUsbAssumption DEF UsbTypeOK
  <2>3. \/ n \notin Selected /\ UNCHANGED <<ran, skipped>>
        \/ /\ n \in Selected /\ ran' = [ran EXCEPT ![d] = @ \cup {n}] /\ UNCHANGED skipped
        \/ /\ n \in Selected /\ skipped' = [skipped EXCEPT ![d] = @ \cup {n}] /\ UNCHANGED ran
    BY <1>7, <2>2 DEF Case, CaseUpTo, Selected
  <2>4. UsbTypeOK'
    <3> HIDE DEF n
    <3>1. turn' \in [Devices -> 0..TEST_CASES]
      BY <2>1, <2>2 DEF UsbTypeOK, n
    <3>2. /\ ran' \in [Devices -> SUBSET (0..(TEST_CASES - 1))]
          /\ skipped' \in [Devices -> SUBSET (0..(TEST_CASES - 1))]
      BY <2>2, <2>3 DEF UsbTypeOK
    <3> QED
      BY <1>1, <1>4, <3>1, <3>2 DEF UsbTypeOK
  <2>5. {m \in Selected : m < n + 1} = {m \in Selected : m < n} \cup ({n} \cap Selected)
    <3>1. \A m \in Selected : m \in Nat
      BY TestUsbAssumption DEF Selected
    <3>2. n \in Nat
      BY <2>2, TestUsbAssumption
    <3> HIDE DEF n
    <3> QED
      BY <3>1, <3>2
  <2>6. ran'[d] \cup skipped'[d] = ran[d] \cup skipped[d] \cup ({n} \cap Selected)
    BY <2>3 DEF UsbTypeOK
  <2>7. turn'[d] = n + 1
    BY <2>1 DEF UsbTypeOK
  <2>8. \A e \in Devices : e # d => ran'[e] = ran[e] /\ skipped'[e] = skipped[e] /\ turn'[e] = turn[e]
    BY <2>1, <2>3 DEF UsbTypeOK
  <2>9. CaseInv'
    <3>1. ran'[d] \cup skipped'[d] = {m \in Selected : m < turn'[d]}
      BY <2>5, <2>6, <2>7 DEF CaseInv
    <3> QED
      BY <1>2, <2>1, <2>8, <3>1 DEF CaseInv
  <2> QED
    BY <1>2, <1>3, <1>5, <2>4, <2>9
<1>8. CASE FinishTest(d)
  <2>1. /\ thread[d] = "test" /\ turn[d] = TEST_CASES /\ thread'[d] = "end"
        /\ UNCHANGED <<turn, ran, skipped>>
    BY <1>8 DEF FinishTest, FinishAt, Live, UsbTypeOK
  <2>2. UsbTypeOK'
    BY <1>1, <1>4, <2>1 DEF UsbTypeOK
  <2>3. CaseInv'
    BY <1>2, <1>4, <2>1 DEF CaseInv
  <2> QED
    BY <1>2, <1>3, <1>5, <2>2, <2>3
<1> QED
  BY <1>6, <1>7, <1>8 DEF Worker

\* Unplugging and stuttering: at most the bus changes.
LEMMA RestStep ==
  ASSUME UsbInv, plugged' \subseteq plugged,
         UNCHANGED <<mpc, device, not, test, testdevs, entry, thread, turn, ran, skipped, created,
                     status>>
  PROVE  UsbInv'
  BY DEF UsbInv, UsbTypeOK, ListInv, ThreadInv, CaseInv, StatusInv, ExitIsExplained, Selected

LEMMA UsbInvariance == UsbSpec => []UsbInv
<1>1. UsbInv /\ [UsbNext]_usbVars => UsbInv'
  <2> SUFFICES ASSUME UsbInv, [UsbNext]_usbVars
               PROVE  UsbInv'
    OBVIOUS
  <2>1. CASE MainStep
    BY <2>1, ParseOptsStep, FindTestdevStep, DecideStep, CreateStep, CreatedStep, SingleStep,
       JoinStep, JoinedStep DEF MainStep
  <2>2. ASSUME NEW d \in Devices, Worker(d)
        PROVE  UsbInv'
    BY <2>2, WorkerStep
  <2>3. ASSUME NEW d \in Devices, UnplugDev(d)
        PROVE  UsbInv'
    BY <2>3, RestStep DEF UnplugDev, options, tests
  <2>4. CASE UNCHANGED usbVars
    BY <2>4, RestStep DEF usbVars
  <2> QED
    BY <2>1, <2>2, <2>3, <2>4 DEF UsbNext
<1> QED
  BY <1>1, UsbStarts, PTL DEF UsbSpec

\* testusb: main(), the tests and the history keep their types, for any devices, number of
\* cases and faults; no device is entered twice in the list.
THEOREM TestUsbTypeCorrect == UsbSpec => []UsbTypeOK
<1>1. UsbInv => UsbTypeOK
  BY DEF UsbInv
<1> QED
  BY <1>1, UsbInvariance, PTL

\* testusb: a process that returns 0 has tried every selected case on every device that a
\* thread took on and could open, and on the device it was told to test; it crashes only
\* in the join of a thread that could not be created.
THEOREM ExitHasCause == UsbSpec => []ExitIsExplained
<1>1. UsbInv => ExitIsExplained
  BY DEF UsbInv, StatusInv
<1> QED
  BY <1>1, UsbInvariance, PTL

=============================================================================
