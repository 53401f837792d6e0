------------------------------ MODULE I2cSlave ------------------------------
(***************************************************************************)
(* i2c-slave/i2c-slave.c: the slave backend.  The bus driver calls         *)
(* i2c_slave_callback_example() once per bus event; the two counters are   *)
(* statics of the module, shared by every slave node.                      *)
(***************************************************************************)
EXTENDS Integers, Sequences

CONSTANT Byte  \* number of values of a u8: 256 on the wire

ASSUME ByteAssumption == Byte \in Nat \ {0, 1}

Bytes == 0..(Byte - 1)

VARIABLES
  bound,       \* the driver is bound to the slave node
  registered,  \* i2c_slave_register() has accepted the client
  send_index, recv_index,
  data,        \* *data: the byte the next clock of a read shifts out
  given, got   \* history: bytes handed out, received since the last request

slaveVars == <<bound, registered, send_index, recv_index, data, given, got>>

SlaveTypeOK ==
  /\ bound \in BOOLEAN
  /\ registered \in BOOLEAN
  /\ send_index \in Nat
  /\ recv_index \in Nat
  /\ data \in Bytes
  /\ given \in Seq(Bytes)
  /\ got \in Seq(Bytes)

SlaveInit ==
  /\ bound = FALSE
  /\ registered = FALSE
  /\ send_index = 0
  /\ recv_index = 0
  /\ data = 0
  /\ given = <<>>
  /\ got = <<>>

\* insmod and probe(): the statics are new; the result of i2c_slave_register()
\* is not looked at, so the device is bound either way.
SlaveProbe(accepted) ==
  /\ ~bound
  /\ bound' = TRUE
  /\ registered' = accepted
  /\ send_index' = 0
  /\ recv_index' = 0
  /\ UNCHANGED <<data, given, got>>

\* remove(): i2c_slave_unregister(), called for a client that was refused, too.
SlaveRemove ==
  /\ bound
  /\ bound' = FALSE
  /\ registered' = FALSE
  /\ UNCHANGED <<send_index, recv_index, data, given, got>>

\* I2C_SLAVE_READ_REQUESTED: the first byte is 0.
ReadRequestedFrom(first) ==
  /\ registered
  /\ send_index' = first
  /\ data' = 0
  /\ given' = <<0>>
  /\ UNCHANGED <<bound, registered, recv_index, got>>

\* Mutant: the counter is left to STOP to reset.
ReadRequestedNoReset == ReadRequestedFrom(send_index)

ReadRequested == ReadRequestedFrom(0)

\* I2C_SLAVE_READ_PROCESSED: the next byte is the counter, cut to a u8.
ReadProcessedMod(m) ==
  /\ registered
  /\ send_index' = send_index + 1
  /\ data' = (send_index + 1) % m
  /\ given' = Append(given, data')
  /\ UNCHANGED <<bound, registered, recv_index, got>>

\* Mutant: the byte is wider than a u8.
ReadProcessedWide == ReadProcessedMod(2 * Byte)

ReadProcessed == ReadProcessedMod(Byte)

\* I2C_SLAVE_WRITE_REQUESTED.
WriteRequestedFrom(first) ==
  /\ registered
  /\ recv_index' = first
  /\ got' = <<>>
  /\ UNCHANGED <<bound, registered, send_index, data, given>>

\* Mutant: the counter is left to STOP to reset.
WriteRequestedNoReset == WriteRequestedFrom(recv_index)

WriteRequested == WriteRequestedFrom(0)

\* I2C_SLAVE_WRITE_RECEIVED.
WriteReceived(b) ==
  /\ registered
  /\ recv_index' = recv_index + 1
  /\ got' = Append(got, b)
  /\ UNCHANGED <<bound, registered, send_index, data, given>>

\* I2C_SLAVE_STOP.
Stop ==
  /\ registered
  /\ send_index' = 0
  /\ recv_index' = 0
  /\ UNCHANGED <<bound, registered, data, given, got>>

=============================================================================
