---------------------------- MODULE I2cBusProofs ----------------------------
(***************************************************************************)
(* The proofs about the I2C master program and the slave backend, for any  *)
(* width of a byte (256 values on the wire), any length and content of the *)
(* transfers and any faults of the bus.                                    *)
(***************************************************************************)
EXTENDS I2cBus, SequenceTheorems, TLAPS

-----------------------------------------------------------------------------
(* The inductive invariant.                                                *)

\* The master's message: the length of the buffer as far as it fits, nothing
\* transferred before the slave has answered, and a slave that answers for as long as
\* the transfer goes on.  Only a bound driver's client is registered.
MessageInv ==
  /\ registered => bound
  /\ len = Len(tx) % U16
  /\ mpc \in {"main", "ready"} => rx = << >> /\ sent = 0
  /\ mpc = "transfer" => registered /\ transfer_type \in {"RX", "TX"}

\* The slave's counter keeps step with the master's buffer: it is the position of the
\* byte in the shift register, or of the byte clocked in last.
CounterInv ==
  mpc = "transfer" /\ transfer_type = "RX" =>
    /\ loaded => send_index = Len(rx) /\ data = Len(rx) % Byte
    /\ ~loaded => send_index + 1 = Len(rx)

\* What the program has when the transfer is over: all of the message.
OverInv ==
  mpc \in {"report", "done"} =>
    /\ transfer_type = "RX" => Len(rx) = len
    /\ transfer_type = "TX" => sent = len /\ got = SubSeq(tx, 1, sent)

IInv == /\ TypeOK /\ MessageInv /\ CounterInv /\ OverInv
        /\ ReadIsIncremental /\ WriteListing

-----------------------------------------------------------------------------
(* Bytes and buffers.                                                      *)

\* A counter cut to a u8 is a byte, and 0 is the byte of a new counter.
LEMMA ByteOf ==
  /\ 0 \in Bytes /\ 0 % Byte = 0
  /\ << >> \in Seq(Bytes) /\ << 0 >> \in Seq(Bytes)
  /\ \A n \in Nat : n % Byte \in Bytes
<1>1. 0 \in Bytes /\ 0 % Byte = 0
  BY ByteAssumption DEF Bytes
<1>2. ASSUME NEW n \in Nat
      PROVE  n % Byte \in Bytes
  BY ByteAssumption DEF Bytes
<1>3. << >> \in Seq(Bytes) /\ << 0 >> \in Seq(Bytes)
  BY <1>1
<1> QED
  BY <1>1, <1>2, <1>3

\* Every buffer that the options select is a sequence of bytes.
LEMMA ContentsAreBytes == \A c \in Contents : c \in Seq(Bytes)
<1>1. ASSUME NEW n \in 1..MaxLen
      PROVE  Incremental(n) \in Seq(Bytes)
  <2>1. n \in Nat
    BY MaxLenAssumption
  <2>2. ASSUME NEW k \in 1..n
        PROVE  (k - 1) % Byte \in Bytes
    <3>1. k - 1 \in Nat
      OBVIOUS
    <3> QED
      BY <3>1, ByteOf
  <2>3. Incremental(n) \in [1..n -> Bytes]
    BY <2>2 DEF Incremental
  <2> QED
    BY <2>1, <2>3, SeqDef
<1> QED
  BY <1>1, ContentAssumption DEF Contents

\* One more byte of a buffer sent.
LEMMA PrefixGrows ==
  ASSUME NEW S, NEW s \in Seq(S), NEW n \in Nat, n < Len(s)
  PROVE  /\ s[n + 1] \in S
         /\ Append(SubSeq(s, 1, n), s[n + 1]) = SubSeq(s, 1, n + 1)
<1>1. Len(s) \in Nat /\ n + 1 \in 1..Len(s)
  BY LenProperties
<1>2. s[n + 1] \in S
  BY <1>1, ElementOfSeq
<1>3. \A k \in 1..(n + 1) : s[k] \in S
  BY <1>1, ElementOfSeq
<1> DEFINE p == SubSeq(s, 1, n)
           q == SubSeq(s, 1, n + 1)
           a == Append(p, s[n + 1])
<1>4. /\ p \in Seq(S) /\ Len(p) = n
      /\ \A k \in 1..n : p[k] = s[k]
  <2>1. \A k \in 1..n : s[k] \in S
    BY <1>3
  <2>2. /\ p \in Seq(S) /\ Len(p) = IF 1 <= n THEN n - 1 + 1 ELSE 0
        /\ \A k \in 1..(n - 1 + 1) : p[k] = s[1 + k - 1]
    BY <2>1, SubSeqProperties
  <2> QED
    BY <2>2
<1>5. /\ q \in Seq(S) /\ Len(q) = n + 1
      /\ \A k \in 1..(n + 1) : q[k] = s[k]
  <2>1. n + 1 \in Int
    OBVIOUS
  <2>2. /\ q \in Seq(S) /\ Len(q) = IF 1 <= n + 1 THEN (n + 1) - 1 + 1 ELSE 0
        /\ \A k \in 1..((n + 1) - 1 + 1) : q[k] = s[1 + k - 1]
    BY <1>3, <2>1, SubSeqProperties
  <2> QED
    BY <2>2
<1>6. /\ a \in Seq(S) /\ Len(a) = n + 1
      /\ \A k \in 1..n : a[k] = p[k]
      /\ a[n + 1] = s[n + 1]
  <2> HIDE DEF p
  <2> QED
    BY <1>2, <1>4, AppendProperties
<1> HIDE DEF p, q, a
<1>7. \A k \in 1..Len(a) : a[k] = q[k]
  <2>1. \A k \in 1..(n + 1) : k \in 1..n \/ k = n + 1
    OBVIOUS
  <2> QED
    BY <2>1, <1>4, <1>5, <1>6
<1>8. a = q
  BY <1>5, <1>6, <1>7, SeqEqual
<1> QED
  BY <1>2, <1>8 DEF a, p, q

\* Cutting a length to a __u16 never makes it longer, and keeps one that fits.
LEMMA CutLength ==
  ASSUME NEW n \in Nat
  PROVE  n % U16 \in 0..n /\ (n < U16 => n % U16 = n)
<1>1. U16 \in Nat \ {0}
  BY U16Assumption
<1> QED
  BY <1>1

-----------------------------------------------------------------------------
(* The invariant holds initially and every step keeps it.                  *)

\* Nothing is transferred before the slave module is loaded.
LEMMA InitInv == Init => IInv
<1> SUFFICES ASSUME Init
             PROVE  IInv
  OBVIOUS
<1> USE DEF Init, SlaveInit
<1>1. TypeOK
  <2>1. SlaveTypeOK
    BY ByteOf, Zenon DEF SlaveTypeOK
  <2>2. sent \in 0..len /\ len \in Nat
    OBVIOUS
  <2> QED
    BY <2>1, <2>2, ByteOf, Zenon DEF TypeOK
<1> QED
  BY <1>1, CutLength DEF IInv, MessageInv, CounterInv, OverInv, ReadIsIncremental, WriteListing

\* Loading and removing the slave module.  Only the removal can meet a transfer, and
\* then the transfer is over.
LEMMA ModuleStep ==
  ASSUME IInv, Insmod \/ Rmmod
  PROVE  IInv'
<1> USE DEF IInv, masterVars
<1>1. CASE Insmod
  <2>1. PICK a \in BOOLEAN : SlaveProbe(a)
    BY <1>1 DEF Insmod
  <2>2. TypeOK'
    BY <1>1, <2>1 DEF Insmod, SlaveProbe, TypeOK, SlaveTypeOK
  <2> QED
    BY <1>1, <2>1, <2>2 DEF Insmod, SlaveProbe, MessageInv, CounterInv, OverInv,
                            ReadIsIncremental, WriteListing
<1>2. CASE Rmmod
  BY <1>2 DEF Rmmod, SlaveRemove, TypeOK, SlaveTypeOK, MessageInv, CounterInv, OverInv,
              ReadIsIncremental, WriteListing
<1> QED
  BY <1>1, <1>2

\* The program up to its transfer: parse_opts() sets up an empty receive buffer, and the
\* request event sets the slave's counter, whatever the last transfer left in it.
LEMMA ProgramStep ==
  ASSUME IInv, NEW opts \in SUBSET {"R", "W"},
         ParseOpts(opts) \/ LoadFails \/ Load \/ NoAnswer \/ AddressRead \/ AddressWrite
  PROVE  IInv'
<1> USE DEF IInv, slaveVars
<1>1. CASE ParseOpts(opts)
  <2> USE <1>1 DEF ParseOpts
  <2>1. tx' = << >> /\ rx' = << >> /\ Len(tx') = 0 /\ 0 % U16 = 0
    BY CutLength
  <2>2. TypeOK'
    <3>1. SlaveTypeOK'
      BY DEF TypeOK, SlaveTypeOK
    <3>2. sent' \in 0..len' /\ len' \in Nat
      OBVIOUS
    <3>3. mpc' \in {"main", "aborted"} /\ transfer_type' \in {"none", "RX", "TX"}
      OBVIOUS
    <3> QED
      BY <3>1, <3>2, <3>3, ByteOf DEF TypeOK
  <2> QED
    BY <2>1, <2>2 DEF MessageInv, CounterInv, OverInv, ReadIsIncremental, WriteListing
<1>5. CASE LoadFails
  BY <1>5 DEF LoadFails, TypeOK, SlaveTypeOK, MessageInv, CounterInv, OverInv,
              ReadIsIncremental, WriteListing
<1>6. CASE Load
  <2> USE <1>6 DEF Load
  <2>1. tx' \in Seq(Bytes) /\ len' = Len(tx') % U16 /\ len' \in Nat /\ sent' = 0
    BY ContentsAreBytes, LenProperties, CutLength DEF MessageInv
  <2>2. TypeOK'
    <3>1. SlaveTypeOK'
      BY DEF TypeOK, SlaveTypeOK
    <3>2. sent' \in 0..len'
      BY <2>1
    <3> QED
      BY <2>1, <3>1, <3>2 DEF TypeOK
  <2> QED
    BY <2>1, <2>2 DEF MessageInv, CounterInv, OverInv, ReadIsIncremental, WriteListing
<1>2. CASE NoAnswer
  BY <1>2 DEF NoAnswer, NoAnswerThen, TypeOK, SlaveTypeOK, MessageInv, CounterInv,
              OverInv, ReadIsIncremental, WriteListing
<1>3. CASE AddressRead
  <2> USE <1>3 DEF AddressRead, ReadRequested, ReadRequestedFrom
  <2>1. TypeOK'
    BY ByteOf DEF TypeOK, SlaveTypeOK
  <2>2. rx' = << >> /\ Len(rx') = 0
    BY DEF MessageInv
  <2> QED
    BY <2>1, <2>2, ByteOf DEF MessageInv, CounterInv, OverInv, ReadIsIncremental,
                              WriteListing
<1>4. CASE AddressWrite
  <2> USE <1>4 DEF AddressWrite, WriteRequested, WriteRequestedFrom
  <2>1. TypeOK'
    BY ByteOf DEF TypeOK, SlaveTypeOK
  <2>2. got' = SubSeq(tx', 1, sent') /\ recv_index' = sent'
    BY SubSeqEmpty DEF MessageInv
  <2> QED
    BY <2>1, <2>2 DEF MessageInv, CounterInv, OverInv, ReadIsIncremental,
                      WriteListing
<1> QED
  BY <1>1, <1>2, <1>3, <1>4, <1>5, <1>6

\* A byte read: the byte in the shift register is the next of the sequence.
LEMMA ReadStep ==
  ASSUME IInv, ClockIn \/ Refill
  PROVE  IInv'
<1> USE DEF IInv, slaveVars
<1>1. CASE ClockIn
  <2> USE <1>1 DEF ClockIn
  <2>1. rx \in Seq(Bytes) /\ data \in Bytes /\ Len(rx) \in Nat
    BY LenProperties DEF TypeOK, SlaveTypeOK
  <2>2. /\ rx' \in Seq(Bytes) /\ Len(rx') = Len(rx) + 1
        /\ \A k \in 1..Len(rx) : rx'[k] = rx[k]
        /\ rx'[Len(rx) + 1] = data
    BY <2>1, AppendProperties
  <2>3. DOMAIN rx' = 1..(Len(rx) + 1) /\ DOMAIN rx = 1..Len(rx)
    BY <2>1, <2>2
  <2>4. send_index = Len(rx) /\ data = Len(rx) % Byte
    BY DEF CounterInv
  <2>5. TypeOK'
    BY <2>2 DEF TypeOK, SlaveTypeOK
  <2>6. CounterInv'
    BY <2>1, <2>2, <2>4 DEF CounterInv
  <2>7. ReadIsIncremental'
    <3>1. ASSUME NEW k \in 1..(Len(rx) + 1)
          PROVE  rx'[k] = (k - 1) % Byte
      <4>1. CASE k \in 1..Len(rx)
        BY <4>1, <2>2, <2>3 DEF OverInv, ReadIsIncremental
      <4>2. CASE k = Len(rx) + 1
        <5>1. k - 1 = Len(rx)
          BY <4>2, <2>1
        <5> QED
          BY <4>2, <5>1, <2>2, <2>4
      <4> QED
        BY <4>1, <4>2, <2>1
    <3> QED
      BY <3>1, <2>3 DEF ReadIsIncremental
  <2> QED
    BY <2>5, <2>6, <2>7 DEF MessageInv, OverInv, WriteListing
<1>2. CASE Refill
  <2> USE <1>2 DEF Refill, ReadProcessed, ReadProcessedMod
  <2>1. send_index + 1 = Len(rx) /\ send_index + 1 \in Nat
    BY DEF CounterInv, TypeOK, SlaveTypeOK
  <2>2. data' \in Bytes /\ given' \in Seq(Bytes)
    BY <2>1, ByteOf, AppendProperties DEF TypeOK, SlaveTypeOK
  <2>3. TypeOK'
    BY <2>1, <2>2 DEF TypeOK, SlaveTypeOK
  <2>4. CounterInv'
    BY <2>1 DEF CounterInv
  <2> QED
    BY <2>3, <2>4 DEF MessageInv, OverInv, ReadIsIncremental, WriteListing
<1> QED
  BY <1>1, <1>2

\* A byte written is the next of the buffer.
LEMMA WriteStep ==
  ASSUME IInv, ClockOut
  PROVE  IInv'
<1> USE DEF IInv, ClockOut, WriteReceived
<1>1. tx \in Seq(Bytes) /\ sent \in Nat /\ sent < Len(tx) /\ Len(tx) \in Nat
  BY LenProperties, CutLength DEF TypeOK, MessageInv
<1>2. /\ tx[sent + 1] \in Bytes
      /\ Append(SubSeq(tx, 1, sent), tx[sent + 1]) = SubSeq(tx, 1, sent + 1)
  BY <1>1, PrefixGrows
<1>3. TypeOK'
  <2>1. got' \in Seq(Bytes)
    BY <1>2, AppendProperties DEF TypeOK, SlaveTypeOK
  <2>2. sent' \in 0..len'
    BY <1>1 DEF MessageInv, TypeOK
  <2> QED
    BY <2>1, <2>2 DEF TypeOK, SlaveTypeOK
<1>4. WriteListing'
  BY <1>2 DEF WriteListing
<1> QED
  BY <1>3, <1>4 DEF MessageInv, CounterInv, OverInv, ReadIsIncremental

\* The end of a transfer, with its STOP or without, and of the program.
LEMMA EndStep ==
  ASSUME IInv, Finish \/ Abort \/ Report
  PROVE  IInv'
<1> USE DEF IInv, slaveVars
<1>1. /\ mpc' \in {"report", "done", "aborted"}
      /\ UNCHANGED <<transfer_type, tx, rx, len, sent, loaded>>
      /\ UNCHANGED <<bound, registered, data, given, got>>
      /\ send_index' \in Nat /\ recv_index' \in Nat
  BY DEF Finish, Abort, Report, StopEvent, Stop, TypeOK, SlaveTypeOK
<1>2. TypeOK'
  BY <1>1 DEF TypeOK, SlaveTypeOK
<1>3. OverInv'
  BY <1>1 DEF Finish, Abort, Report, OverInv, WriteListing
<1> QED
  BY <1>1, <1>2, <1>3 DEF MessageInv, CounterInv, ReadIsIncremental, WriteListing

\* The invariant holds in every state of the program, the wire and the slave.
LEMMA Invariance == Spec => []IInv
<1>1. IInv /\ [Next]_vars => IInv'
  <2> SUFFICES ASSUME IInv, [Next]_vars
               PROVE  IInv'
    OBVIOUS
  <2>1. CASE Next
    BY <2>1, ModuleStep, ProgramStep, ReadStep, WriteStep, EndStep DEF Next
  <2>2. CASE UNCHANGED vars
    BY <2>2 DEF vars, slaveVars, masterVars, IInv, TypeOK, SlaveTypeOK, MessageInv, CounterInv,
                OverInv, ReadIsIncremental, WriteListing
  <2> QED
    BY <2>1, <2>2
<1> QED
  BY InitInv, <1>1, PTL DEF Spec

\* Type correctness: what goes over the wire are bytes, however far the counters run.
THEOREM TypeCorrect == Spec => []TypeOK
<1>1. IInv => TypeOK
  BY DEF IInv
<1> QED
  BY Invariance, <1>1, PTL

\* Nothing of an aborted transfer or a lost STOP shows in the next transfer: a read is
\* 0, 1, 2, ..., a write arrives as it was sent, and a transfer reported as done is
\* complete if its length fits the message.
THEOREM TransfersAreExact == Spec => []TransfersExact
<1>1. IInv => TransfersExact
  <2> SUFFICES ASSUME IInv, mpc = "done", Len(tx) < U16
               PROVE  /\ transfer_type = "RX" => Len(rx) = Len(tx)
                      /\ transfer_type = "TX" => got = tx
    BY DEF IInv, TransfersExact, DoneIsWhole
  <2>1. tx \in Seq(Bytes) /\ Len(tx) \in Nat
    BY LenProperties DEF IInv, TypeOK
  <2>2. len = Len(tx)
    BY <2>1, CutLength DEF IInv, MessageInv
  <2>3. SubSeq(tx, 1, Len(tx)) = tx
    BY <2>1, SubSeqFull
  <2> QED
    BY <2>2, <2>3 DEF IInv, OverInv
<1> QED
  BY Invariance, <1>1, PTL

=============================================================================
