------------------------------ MODULE MCAdler32 -------------------------------
(* The checksum at half its width: sums of sixteen bits, the greatest prime   *)
(* below 2^8, bytes of four bits and the longest batches that then fit.       *)
EXTENDS Adler32

MCBlocks ==
  {[k \in Lane |-> 15], [k \in Lane |-> 0], [k \in Lane |-> k], [k \in Lane |-> IF k = 5 THEN 9 ELSE 0]}
=============================================================================
