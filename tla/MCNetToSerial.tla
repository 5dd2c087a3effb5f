--------------------------- MODULE MCNetToSerial ---------------------------
(* A chip that holds two segments, the password and one other segment, both *)
(* modes with and without password and flow control.                        *)
EXTENDS NetToSerial

CONSTANTS Pw, X

MCItem == {Pw, X}
MCOption == [server : BOOLEAN, pw : BOOLEAN, xonxoff : BOOLEAN, dsr : {FALSE}]
              \cup [server : {TRUE}, pw : BOOLEAN, xonxoff : {FALSE},
                    dsr : {TRUE}]
MCPlain == [server : {FALSE}, pw : {FALSE}, xonxoff : {FALSE}, dsr : {FALSE}]
MCXonXoff == [server : {FALSE}, pw : {FALSE}, xonxoff : {TRUE}, dsr : {FALSE}]
=============================================================================
