----------------------------- MODULE MCSerialRx -----------------------------
(* Instance for TLC: RX_BUFF_SIZE = 7, the bounds of the driver.             *)
EXTENDS SerialRx
=============================================================================
