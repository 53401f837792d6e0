----------------------------- MODULE MC_I2cBus -----------------------------
(* Instance of I2cBus for TLC: bytes of two bits, so that a transfer of five  *)
(* wraps.                                                                     *)
EXTENDS I2cBus

MCDefaultTx == <<3, 3, 0, 2>>
MCFileTx == <<1, 3>>

============================================================================
