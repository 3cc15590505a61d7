------------------------------ MODULE WasmCodec -------------------------------
(***************************************************************************)
(* The kernels of examples/wasm that write what they compute: toupper,     *)
(* hex_encode, hex_decode, base64_encode and base64_decode.  The loop is   *)
(* the same in all five: sixteen bytes are loaded at a stride, transformed *)
(* and stored at another stride.  A caller runs them one after the other,  *)
(* the output of one being the input of the next, in place where the       *)
(* output is no longer than the input.                                     *)
(***************************************************************************)
EXTENDS WasmSimd, Sequences

CONSTANTS
  Programs,  \* sequences of calls [kernel, dst, src, nBlocks]
  Memories,  \* what a program may find in memory
  Addresses

Kernels == {"toupper", "hex_encode", "hex_decode", "base64_encode", "base64_decode"}

VARIABLES
  program,
  calls,    \* how many of its calls have returned
  mem,
  i,        \* the block the running call is at
  input,    \* the memory that call found
  read,     \* the addresses it loaded from
  written   \* the addresses it stored to

vars == <<program, calls, mem, i, input, read, written>>

-----------------------------------------------------------------------------
(***************************************************************************)
(* What each kernel stores for the sixteen bytes it loads.                 *)
(***************************************************************************)
InRange(v, low, high) == And(GeS(v, Splat(low)), LeS(v, Splat(high)))

toupper(bytes) == Sub(bytes, And(InRange(bytes, 97, 122), Splat(32)))

Digits == [k \in Lane |-> IF k < 10 THEN 48 + k ELSE 87 + k]
shuffleLo == <<0, 16, 1, 17, 2, 18, 3, 19, 4, 20, 5, 21, 6, 22, 7, 23>>
shuffleHi == <<8, 24, 9, 25, 10, 26, 11, 27, 12, 28, 13, 29, 14, 30, 15, 31>>

hex_encode(bytes) ==
  LET hiCh == Swizzle(Digits, And(ShrU(bytes, 4), Splat(15)))
      loCh == Swizzle(Digits, And(bytes, Splat(15)))
      out0 == Shuffle(hiCh, loCh, shuffleLo)
      out1 == Shuffle(hiCh, loCh, shuffleHi)
  IN  [k \in 0..31 |-> IF k < 16 THEN out0[k] ELSE out1[k - 16]]

shufHi == <<0, 2, 4, 6, 8, 10, 12, 14, 0, 0, 0, 0, 0, 0, 0, 0>>
shufLo == <<1, 3, 5, 7, 9, 11, 13, 15, 0, 0, 0, 0, 0, 0, 0, 0>>

\* The nibbles gathered in pairs; v128.store64_lane stores the low half.
PackNibbles(nibbles) ==
  LET packed == Or(Shl(Shuffle(nibbles, nibbles, shufHi), 4), Shuffle(nibbles, nibbles, shufLo))
  IN  [k \in 0..7 |-> packed[k]]

\* Slip: lower case taken for the only case.
hex_decodeLower(chars) ==
  PackNibbles(Sub(chars, Or(And(InRange(chars, 48, 57), Splat(48)),
                            And(InRange(chars, 97, 102), Splat(87)))))
hex_decode(chars) ==
  PackNibbles(Sub(chars, Or(Or(And(InRange(chars, 48, 57), Splat(48)),
                               And(InRange(chars, 65, 70), Splat(55))),
                            And(InRange(chars, 97, 102), Splat(87)))))

-----------------------------------------------------------------------------
(* base64: four characters for three bytes. *)
shuf == <<1, 0, 2, 1, 4, 3, 5, 4, 7, 6, 8, 7, 10, 9, 11, 10>>
repU32(b) == [k \in Lane |-> b[(k % 4) + 1]]

\* The sixteen indexes of six bits, by multiplications that shift the even
\* ones right and the odd ones left.
Indexes(bytes) ==
  LET triplets == Shuffle(bytes, bytes, shuf)
      masked == And(triplets, repU32(<<0, 252, 192, 15>>))
      mulhi == repU32(<<64, 0, 0, 4>>)
      hi == I16x8Narrow(I32x4ShrU(I32x4Extmul(masked, mulhi, 0), 16),
                        I32x4ShrU(I32x4Extmul(masked, mulhi, 4), 16))
      lo == I16x8Mul(And(triplets, repU32(<<240, 3, 63, 0>>)), repU32(<<16, 0, 0, 1>>))
  IN  Or(hi, lo)

ToChars(idx, slash) ==
  Add(Add(Add(Add(Add(idx, Splat(65)),
                  And(GtU(idx, Splat(25)), Splat(6))),
              And(GtU(idx, Splat(51)), Splat(181))),
          And(Eq(idx, Splat(62)), Splat(241))),
      And(Eq(idx, Splat(63)), Splat(slash)))

\* Slip: 63 moved by 16, not by 12.
base64_encodeBySixteen(bytes) == ToChars(Indexes(bytes), 240)
base64_encode(bytes) == ToChars(Indexes(bytes), 244)

FromChars(chars) ==
  Sub(chars,
      Or(Or(Or(Or(And(InRange(chars, 48, 57), Splat(252)),
                  And(InRange(chars, 65, 90), Splat(65))),
               And(InRange(chars, 97, 122), Splat(71))),
            And(Eq(chars, Splat(43)), Splat(237))),
         And(Eq(chars, Splat(47)), Splat(240))))

patLeft23 == <<0, 17, 0, 4, 21, 0, 8, 25, 0, 12, 29, 0, 0, 0, 0, 0>>
patLeft6 == <<0, 1, 18, 3, 4, 22, 6, 7, 26, 9, 10, 30, 0, 0, 0, 0>>
patRight24 == <<1, 18, 0, 5, 22, 0, 9, 26, 0, 13, 30, 0, 0, 0, 0, 0>>
patRight0 == <<0, 1, 19, 3, 4, 23, 6, 7, 27, 9, 10, 31, 0, 0, 0, 0>>

\* Twelve bytes, and four of no meaning.
base64_decode(chars) ==
  LET idx == FromChars(chars)
      left23 == Shuffle(Shl(idx, 2), Shl(idx, 4), patLeft23)
      right24 == Shuffle(ShrU(idx, 4), ShrU(idx, 2), patRight24)
  IN  Or(Shuffle(left23, Shl(idx, 6), patLeft6), Shuffle(right24, idx, patRight0))

Output(kernel, bytes) ==
  CASE kernel = "toupper" -> toupper(bytes)
    [] kernel = "hex_encode" -> hex_encode(bytes)
    [] kernel = "hex_decode" -> hex_decode(bytes)
    [] kernel = "base64_encode" -> base64_encode(bytes)
    [] kernel = "base64_decode" -> base64_decode(bytes)

\* How far the loop advances in the source and in the destination.
InStride(kernel) == IF kernel = "base64_encode" THEN 12 ELSE 16
\* Slip: the four meaningless bytes kept.
OutStrideOfStore(kernel) ==
  CASE kernel = "hex_encode" -> 32
    [] kernel = "hex_decode" -> 8
    [] OTHER -> 16
OutStride(kernel) ==
  CASE kernel = "hex_encode" -> 32
    [] kernel = "hex_decode" -> 8
    [] kernel = "base64_decode" -> 12
    [] OTHER -> 16

\* What a caller expects and provides: bytes in and out for each block, and
\* beyond the last (base64_encode/main.go:45, base64_decode/main.go:47).
Consumed ==
  [kernel \in Kernels |-> IF kernel = "base64_encode" THEN 12 ELSE 16]
Produced ==
  [kernel \in Kernels |->
     CASE kernel = "hex_encode" -> 2 * 16
       [] kernel = "hex_decode" -> 16 \div 2
       [] kernel = "base64_decode" -> (16 * 3) \div 4
       [] OTHER -> 16]
ReadPast(kernel) == IF kernel = "base64_encode" THEN 4 ELSE 0
WritePast(kernel) == IF kernel = "base64_decode" THEN 4 ELSE 0

-----------------------------------------------------------------------------
(***************************************************************************)
(* The loop, and the caller.                                               *)
(***************************************************************************)
Source(c) == {c.src + k : k \in 0..(c.nBlocks * Consumed[c.kernel] + ReadPast(c.kernel) - 1)}
Destination(c) == {c.dst + k : k \in 0..(c.nBlocks * Produced[c.kernel] + WritePast(c.kernel) - 1)}

\* A caller has both buffers, apart or, of a kernel that does not expand, the
\* same.
ASSUME CodecAssumption ==
  /\ Memories \subseteq [Addresses -> Byte]
  /\ \A p \in Programs :
       /\ p \in Seq({p[n] : n \in DOMAIN p})
       /\ \A c \in {p[n] : n \in DOMAIN p} :
            /\ c.kernel \in Kernels
            /\ c.src \in Nat /\ c.dst \in Nat /\ c.nBlocks \in Nat
            /\ Source(c) \cup Destination(c) \subseteq Addresses
            /\ \/ Source(c) \cap Destination(c) = {}
               \/ c.src = c.dst /\ Produced[c.kernel] <= Consumed[c.kernel]

\* A program that encodes goes on to decode what it wrote, its hexadecimal
\* digits in upper case or not, and writes on none of the bytes it encoded.
Chained(p) ==
  \/ Len(p) >= 1 /\ \A n \in 1..Len(p) : p[n].kernel = "toupper"
  \/ /\ Len(p) >= 2
     /\ \/ /\ p[1].kernel = "hex_encode" /\ p[Len(p)].kernel = "hex_decode"
           /\ \A n \in 2..(Len(p) - 1) : p[n].kernel = "toupper"
        \/ p[1].kernel = "base64_encode" /\ Len(p) = 2 /\ p[2].kernel = "base64_decode"
     /\ \A n \in 2..Len(p) :
          /\ p[n].src = p[n - 1].dst
          /\ p[n].nBlocks * Consumed[p[n].kernel] = p[n - 1].nBlocks * Produced[p[n - 1].kernel]
          /\ Destination(p[n])
               \cap {p[1].src + k : k \in 0..(p[1].nBlocks * Consumed[p[1].kernel] - 1)} = {}

Init ==
  /\ program \in Programs
  /\ calls = 0
  /\ mem \in Memories
  /\ i = 0
  /\ input = mem
  /\ read = {}
  /\ written = {}

Running == calls < Len(program)
call == program[calls + 1]

\* Slip: one block too many.
AtBlockUpTo == Running /\ i <= call.nBlocks
AtBlock == Running /\ i < call.nBlocks

Store(m, to, out) == [a \in Addresses |-> IF a - to \in DOMAIN out THEN out[a - to] ELSE m[a]]

Block ==
  LET from == call.src + i * InStride(call.kernel)
      to == call.dst + i * OutStride(call.kernel)
  IN  /\ AtBlock
      /\ \E out \in {Output(call.kernel, Load(mem, from))} :
           /\ mem' = Store(mem, to, out)
           /\ written' = written \cup {to + k : k \in DOMAIN out}
      /\ read' = read \cup {from + k : k \in Lane}
      /\ i' = i + 1
      /\ UNCHANGED <<program, calls, input>>

\* The kernel returns, and the caller goes on with the next.
Return ==
  /\ Running /\ ~AtBlock
  /\ calls' = calls + 1
  /\ i' = 0
  /\ input' = mem
  /\ read' = {}
  /\ written' = {}
  /\ UNCHANGED <<program, mem>>

Next == Block \/ Return

Spec == Init /\ [][Next]_vars

-----------------------------------------------------------------------------
(***************************************************************************)
(* The encodings the kernels stand for, byte by byte.                      *)
(***************************************************************************)
ToUpper(b) == IF b \in 97..122 THEN b - 32 ELSE b

HexChar(n) == IF n < 10 THEN 48 + n ELSE 87 + n
HexValue(c) == CHOOSE n \in 0..15 : c = HexChar(n) \/ c = ToUpper(HexChar(n))

Base64Char(n) ==
  CASE n < 26 -> 65 + n
    [] n \in 26..51 -> 71 + n
    [] n \in 52..61 -> n - 4
    [] n = 62 -> 43
    [] n = 63 -> 47
Base64Value(c) == CHOOSE n \in 0..63 : c = Base64Char(n)

\* Byte k of what a kernel makes of the bytes at In.
Reference(kernel, In(_), k) ==
  CASE kernel = "toupper" -> ToUpper(In(k))
    [] kernel = "hex_encode" ->
         HexChar(IF k % 2 = 0 THEN In(k \div 2) \div 16 ELSE In(k \div 2) % 16)
    [] kernel = "hex_decode" -> 16 * HexValue(In(2 * k)) + HexValue(In(2 * k + 1))
    [] kernel = "base64_encode" ->
         LET g == 3 * (k \div 4)
             bits == 65536 * In(g) + 256 * In(g + 1) + In(g + 2)
         IN  Base64Char((bits \div 64^(3 - (k % 4))) % 64)
    [] kernel = "base64_decode" ->
         LET g == 4 * (k \div 3)
             bits == 262144 * Base64Value(In(g)) + 4096 * Base64Value(In(g + 1))
                       + 64 * Base64Value(In(g + 2)) + Base64Value(In(g + 3))
         IN  (bits \div 256^(2 - (k % 3))) % 256

-----------------------------------------------------------------------------
\* Every variable has its type; the loop stops at the last block.
TypeOK ==
  /\ program \in Programs
  /\ calls \in 0..Len(program)
  /\ mem \in [Addresses -> Byte] /\ input \in [Addresses -> Byte]
  /\ i \in Nat /\ (Running => i <= call.nBlocks)
  /\ read \subseteq Addresses /\ written \subseteq Addresses

\* After every block, the output so far is the encoding of the input so far,
\* though stores overlap, the multiplications and shuffles only amount to
\* it, and in place the input is being overwritten.
OutputIsReference ==
  Running =>
    LET In(k) == input[call.src + k]
    IN  \A k \in 0..(i * Produced[call.kernel] - 1) :
          mem[call.dst + k] = Reference(call.kernel, In, k)

\* An encoding decoded again, in whichever case its digits have become, is
\* the bytes it was made of.
RoundTrip ==
  (~Running /\ program[1].kernel # "toupper") =>
    \A k \in 0..(program[1].nBlocks * Consumed[program[1].kernel] - 1) :
      mem[program[Len(program)].dst + k] = mem[program[1].src + k]

\* A kernel loads and stores only in its buffers, the four bytes past the end
\* that base64_encode reads (main.go:45) and base64_decode writes (main.go:47)
\* included, and in place it never loads what it has stored.
StaysInside ==
  Running =>
    /\ read \subseteq Source(call) /\ written \subseteq Destination(call)
    /\ i < call.nBlocks =>
         written \cap {call.src + k : k \in
                         (i * Consumed[call.kernel])..(call.nBlocks * Consumed[call.kernel] - 1)} = {}

=============================================================================
