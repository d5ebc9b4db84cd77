------------------------------- MODULE MCMqSend -------------------------------
(* MqSend with values for its constants: blocks of four bytes.  Of the     *)
(* sizes up to 14 some fill the last read, some the last block, and from   *)
(* 13 the buffer has a round in which it need not grow.                    *)
EXTENDS MqSend

MCSizes == 0..14
===============================================================================
