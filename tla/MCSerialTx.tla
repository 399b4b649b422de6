----------------------------- MODULE MCSerialTx -----------------------------
(* Instance for TLC: TX_BUFF_SIZE = 7; frames with a header, with data and   *)
(* with both, the last of which takes the whole buffer.                      *)
EXTENDS SerialTx

MCFrames == {[headerlen |-> 1, datalen |-> 0], [headerlen |-> 0, datalen |-> 2],
             [headerlen |-> 2, datalen |-> 1]}
=============================================================================
