--------------------------- MODULE MCSerialToNet ---------------------------
(* A ring for three bytes, a send buffer for three, a delimiter and another*)
(* byte on the line, and the packing options one by one and together; the  *)
(* sizes are below the buffer's, the buffer's own and one never reached.   *)
EXTENDS SerialToNet

CONSTANTS D, X

MCByte == {D, X}
MCOption == {[time |-> 0, size |-> 0, delim |-> NoDelim],
             [time |-> 1, size |-> 0, delim |-> NoDelim],
             [time |-> 0, size |-> 2, delim |-> NoDelim],
             [time |-> 0, size |-> 0, delim |-> D],
             [time |-> 1, size |-> 2, delim |-> D],
             [time |-> 0, size |-> 3, delim |-> D],
             [time |-> 1, size |-> 4, delim |-> D]}
MCDelimiter == {[time |-> 0, size |-> 0, delim |-> D]}
=============================================================================
