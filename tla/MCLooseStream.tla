--------------------------- MODULE MCLooseStream ---------------------------
(* A small instance of LooseStream: objects of no byte up to more than two *)
(* buffers.  A header grows by a byte with the second digit of the size.   *)
EXTENDS LooseStream

CONSTANT MaxSize

MCSizes     == 0 .. MaxSize
MCHeaderLen == [s \in MCSizes |-> IF s < 10 THEN 2 ELSE 3]
=============================================================================
