------------------------------ MODULE MCWasmScan ------------------------------
(* Buffers of up to two blocks that hold one byte of any value, or two bytes  *)
(* of interest, anywhere among harmless ones, between bytes that a kernel     *)
(* reading too far would take notice of.  With a greatest i32 of 63 two       *)
(* blocks of ones wrap popcount's lanes, and fewer its total.                 *)
EXTENDS WasmScan

Src == 19
MCAddresses == 0..90

\* The bytes at p and q among others.
Mem(inside, outside, p, v, q, w) ==
  [a \in MCAddresses |->
     IF a = Src + p THEN v ELSE IF a = Src + q THEN w
     ELSE IF a \in Src..(Src + 31) THEN inside ELSE outside]

Two(inside, outside, values) ==
  {Mem(inside, outside, at[1], v, at[2], w) :
     at \in {x \in (0..31) \X (0..31) : x[2] \in {x[1], x[1] + 1, x[1] + 16, 31}}, v, w \in values}
One(inside, outside) == {Mem(inside, outside, p, v, p, v) : p \in {0, 1, 7, 8, 15, 16, 17, 30, 31}, v \in Byte}

MCMemories ==
  [k \in Kernels |->
     CASE k = "memchr" -> Two(8, 7, {7, 135})
       [] k = "indexany4" -> Two(72, 8, {7, 8, 200})
       [] k = "isascii" -> Two(65, 200, {0, 127, 128})
       [] k = "json_clean" -> One(65, 34)
       [] k = "utf8len" -> One(65, 128)
       [] k = "popcount" -> One(254, 255) \cup One(255, 0) \cup One(1, 255)
       [] k = "matchlen16" -> {[a \in MCAddresses |-> IF a = p THEN 1 ELSE 0] : p \in MCAddresses}]

MCCalls ==
  [kernel : Kernels \ {"matchlen16"}, src : {Src}, other : {0}, len : 0..2,
   needles : {<<263, 7, 8, 200>>}]
  \cup
  [kernel : {"matchlen16"}, src : {Src}, other : {Src + 1, Src + 16, Src + 22},
   len : {0, 1, 15, 16, 17, 32, 33, 47}, needles : {<<0, 0, 0, 0>>}]
=============================================================================
