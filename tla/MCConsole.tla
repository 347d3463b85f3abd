----------------------------- MODULE MCConsole -----------------------------
(* Numbers of seven bits in buffers of four digits: base four is enough for *)
(* them all, and base three for those below 81.  Four bytes of three        *)
(* values, and an index that the longest area exceeds.                      *)
EXTENDS Console

MCByte == -1 .. 1
=============================================================================
