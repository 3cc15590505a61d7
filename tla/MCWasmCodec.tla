------------------------------ MODULE MCWasmCodec -----------------------------
(* Up to two blocks of input, one byte of any value in any lane of the first  *)
(* among bytes of the value 0, 255 or a letter's, and a second block of its   *)
(* own; every kernel alone or in a chain that ends with the input, decoded    *)
(* in place or elsewhere.                                                     *)
EXTENDS WasmCodec

A == 3
B == 40
C == 108
MCAddresses == 0..146

Call(kernel, dst, src, nBlocks) == [kernel |-> kernel, dst |-> dst, src |-> src, nBlocks |-> nBlocks]

MCPrograms ==
  UNION {
    {<<Call("toupper", dst, A, n)>> : dst \in {A, B}}
    \cup
    {<<Call("hex_encode", B, A, n), Call("hex_decode", dst, B, 2 * n)>> : dst \in {B, C}}
    \cup
    {<<Call("hex_encode", B, A, n), Call("toupper", B, B, 2 * n), Call("hex_decode", C, B, 2 * n)>>}
    \cup
    {<<Call("base64_encode", B, A, n), Call("base64_decode", dst, B, n)>> : dst \in {B, C}}
    : n \in 1..2}

Mem(p, v, other) ==
  [a \in MCAddresses |->
     IF a = A + p THEN v ELSE IF a \in A..(A + 11) THEN other ELSE (37 * a) % 256]

\* Any value in each byte of a group of three, and in every lane the ends of
\* what the kernels tell apart.
MCMemories ==
  {Mem(p, v, other) : p \in {0, 1, 11}, v \in Byte, other \in {0, 255}}
  \cup
  {Mem(p, v, other) : p \in 0..11, v \in {96, 97, 122, 123, 128, 225}, other \in {255}}

\* What the theorems about chains take of the programs holds of these.
ASSUME ChainedAssumption == \A p \in MCPrograms : Chained(p)
=============================================================================
