--------------------------- MODULE WasmCodec_proofs ---------------------------
(***************************************************************************)
(* No kernel loads or stores outside its buffers, or loads what it has     *)
(* overwritten in place; its output is the encoding its tables and         *)
(* multiplications stand for, byte by byte; and what is encoded and        *)
(* decoded again is what it was: for programs of any calls on buffers of   *)
(* any length.                                                             *)
(***************************************************************************)
EXTENDS WasmCodec, TLAPS

-----------------------------------------------------------------------------
(* The strides, and the bytes a block stores. *)

LEMMA Strides ==
  ASSUME NEW kernel \in Kernels
  PROVE  /\ InStride(kernel) = Consumed[kernel] /\ OutStride(kernel) = Produced[kernel]
         /\ Consumed[kernel] \in Nat /\ Produced[kernel] \in Nat
         /\ ReadPast(kernel) \in Nat /\ WritePast(kernel) \in Nat
         /\ Consumed[kernel] + ReadPast(kernel) = 16
         /\ Produced[kernel] <= Consumed[kernel] =>
              Produced[kernel] + WritePast(kernel) <= Consumed[kernel]
<1>1. (16 \div 2) = 8 /\ (16 * 3) \div 4 = 12 /\ 2 * 16 = 32
  OBVIOUS
<1>2. /\ Consumed[kernel] = IF kernel = "base64_encode" THEN 12 ELSE 16
      /\ Produced[kernel] = CASE kernel = "hex_encode" -> 32
                              [] kernel = "hex_decode" -> 8
                              [] kernel = "base64_decode" -> 12
                              [] OTHER -> 16
  BY <1>1 DEF Consumed, Produced
<1>3. QED  BY <1>2 DEF InStride, OutStride, ReadPast, WritePast, Kernels

LEMMA OutputDomain ==
  ASSUME NEW kernel \in Kernels, NEW bytes
  PROVE  DOMAIN Output(kernel, bytes) = 0..(Produced[kernel] + WritePast(kernel) - 1)
<1>1. (16 \div 2) = 8 /\ (16 * 3) \div 4 = 12 /\ 2 * 16 = 32
  OBVIOUS
<1>2. CASE kernel = "toupper"
  <2>1. DOMAIN toupper(bytes) = 0..15
    BY DEF toupper, Sub, Lane
  <2>2. QED  BY <1>2, <2>1 DEF Output, Produced, WritePast, Kernels
<1>3. CASE kernel = "hex_encode"
  <2>1. DOMAIN hex_encode(bytes) = 0..31
    BY DEF hex_encode
  <2>2. QED  BY <1>1, <1>3, <2>1 DEF Output, Produced, WritePast, Kernels
<1>4. CASE kernel = "hex_decode"
  <2>1. DOMAIN hex_decode(bytes) = 0..7
    BY DEF hex_decode, PackNibbles
  <2>2. QED  BY <1>1, <1>4, <2>1 DEF Output, Produced, WritePast, Kernels
<1>5. CASE kernel = "base64_encode"
  <2>1. DOMAIN base64_encode(bytes) = 0..15
    BY DEF base64_encode, ToChars, Add, Lane
  <2>2. QED  BY <1>5, <2>1 DEF Output, Produced, WritePast, Kernels
<1>6. CASE kernel = "base64_decode"
  <2>1. DOMAIN base64_decode(bytes) = 0..15
    BY DEF base64_decode, Or, Lane
  <2>2. QED  BY <1>1, <1>6, <2>1 DEF Output, Produced, WritePast, Kernels
<1>7. QED  BY <1>2, <1>3, <1>4, <1>5, <1>6 DEF Kernels

\* Block j of n at a stride, and what it goes past it.
LEMMA WithinStride ==
  ASSUME NEW j \in Nat, NEW n \in Nat, j < n, NEW s \in Nat, NEW past \in Nat,
         NEW k \in 0..(s + past - 1)
  PROVE  j * s + k \in 0..(n * s + past - 1) /\ j * s + k \in 0..((j + 1) * s + past - 1)
<1>1. j * s \in Nat /\ (j + 1) * s = j * s + s
  OBVIOUS
<1>2. n * s \in Nat /\ n * s >= (j + 1) * s
  <2>1. PICK d \in Nat : n = j + 1 + d
    <3>1. n - (j + 1) \in Nat /\ n = j + 1 + (n - (j + 1))
      OBVIOUS
    <3>2. QED  BY <3>1
  <2>2. n * s = (j + 1) * s + d * s /\ d * s \in Nat
    BY <2>1
  <2>3. QED  BY <1>1, <2>2
<1>3. QED  BY <1>1, <1>2

-----------------------------------------------------------------------------
(***************************************************************************)
(* The inductive invariant: what a running call has written ends with the  *)
(* block it is at, and the four bytes base64_decode adds.                  *)
(***************************************************************************)
Written(j) ==
  {call.dst + k : k \in 0..(j * Produced[call.kernel] + WritePast(call.kernel) - 1)}

CInv ==
  /\ program \in Programs
  /\ calls \in Nat
  /\ i \in Nat
  /\ Running =>
       /\ i <= call.nBlocks
       /\ read \subseteq Source(call)
       /\ written \subseteq Written(i)
       /\ i = 0 => written = {}

LEMMA CallFacts ==
  ASSUME CInv, Running
  PROVE  /\ call.kernel \in Kernels
         /\ call.src \in Nat /\ call.dst \in Nat /\ call.nBlocks \in Nat
         /\ \/ Source(call) \cap Destination(call) = {}
            \/ call.src = call.dst /\ Produced[call.kernel] <= Consumed[call.kernel]
<1>1. program \in Seq({program[n] : n \in DOMAIN program})
  BY CodecAssumption DEF CInv
<1>2. calls + 1 \in DOMAIN program
  BY <1>1 DEF CInv, Running
<1>3. call \in {program[n] : n \in DOMAIN program}
  BY <1>2 DEF call
<1>4. program \in Programs
  BY DEF CInv
<1>5. QED  BY <1>3, <1>4, CodecAssumption

LEMMA Initially == Init => CInv
<1> SUFFICES ASSUME Init PROVE CInv
  OBVIOUS
<1>1. program \in Seq({program[n] : n \in DOMAIN program})
  BY CodecAssumption DEF Init
<1>2. Running => call \in {program[n] : n \in DOMAIN program}
  BY <1>1 DEF Init, Running, call
<1>3. Running => call.nBlocks \in Nat
  BY <1>2, CodecAssumption DEF Init
<1>4. QED  BY <1>3 DEF Init, CInv

LEMMA BlockStep == CInv /\ Block => CInv'
<1> SUFFICES ASSUME CInv, Block PROVE CInv'
  OBVIOUS
<1> DEFINE w == Produced[call.kernel]
           past == WritePast(call.kernel)
           from == call.src + i * InStride(call.kernel)
           to == call.dst + i * OutStride(call.kernel)
           out == Output(call.kernel, Load(mem, from))
<1>1. /\ Running /\ i < call.nBlocks
      /\ written' = written \cup {to + k : k \in DOMAIN out}
      /\ read' = read \cup {from + k : k \in Lane}
      /\ i' = i + 1 /\ UNCHANGED <<program, calls>>
  BY DEF Block, AtBlock
<1>2. /\ call.kernel \in Kernels /\ call.src \in Nat /\ call.dst \in Nat /\ call.nBlocks \in Nat
      /\ i \in Nat /\ read \subseteq Source(call) /\ written \subseteq Written(i)
  BY <1>1, CallFacts DEF CInv
<1>3. /\ InStride(call.kernel) = Consumed[call.kernel] /\ OutStride(call.kernel) = w
      /\ Consumed[call.kernel] \in Nat /\ w \in Nat /\ past \in Nat
      /\ ReadPast(call.kernel) \in Nat /\ Consumed[call.kernel] + ReadPast(call.kernel) = 16
  BY <1>2, Strides
<1>4. {from + k : k \in Lane} \subseteq Source(call)
  <2> SUFFICES ASSUME NEW k \in Lane PROVE from + k \in Source(call)
    OBVIOUS
  <2>1. k \in 0..(Consumed[call.kernel] + ReadPast(call.kernel) - 1)
    BY <1>3 DEF Lane
  <2>2. i * Consumed[call.kernel] + k \in 0..(call.nBlocks * Consumed[call.kernel] + ReadPast(call.kernel) - 1)
    BY <1>1, <1>2, <1>3, <2>1, WithinStride
  <2>3. from + k = call.src + (i * Consumed[call.kernel] + k)
    <3>1. i * Consumed[call.kernel] \in Nat /\ k \in Nat
      BY <1>2, <1>3, <2>1
    <3>2. QED  BY <1>2, <1>3, <3>1
  <2>4. QED  BY <2>2, <2>3 DEF Source
<1>5. {to + k : k \in DOMAIN out} \subseteq Written(i + 1)
  <2> SUFFICES ASSUME NEW k \in DOMAIN out PROVE to + k \in Written(i + 1)
    OBVIOUS
  <2>1. k \in 0..(w + past - 1)
    BY <1>2, OutputDomain
  <2>2. i * w + k \in 0..((i + 1) * w + past - 1)
    BY <1>1, <1>2, <1>3, <2>1, WithinStride
  <2>3. to + k = call.dst + (i * w + k)
    <3>1. i * w \in Nat /\ k \in Nat
      BY <1>2, <1>3, <2>1
    <3>2. QED  BY <1>2, <1>3, <3>1
  <2>4. QED  BY <2>2, <2>3 DEF Written
<1>6. Written(i) \subseteq Written(i + 1)
  <2> SUFFICES ASSUME NEW k \in 0..(i * w + past - 1)
               PROVE  k \in 0..((i + 1) * w + past - 1)
    BY DEF Written
  <2>1. (i + 1) * w = i * w + w /\ i * w \in Nat
    BY <1>2, <1>3
  <2>2. QED  BY <1>3, <2>1
<1>7. call' = call /\ (Running' <=> Running) /\ Source(call)' = Source(call)
      /\ Written(i)' = Written(i + 1)
  BY <1>1 DEF call, Running, Source, Written
<1> HIDE DEF from, to, out, w, past
<1>8. i' <= call'.nBlocks /\ i' \in Nat /\ i' # 0
  BY <1>1, <1>2, <1>7
<1>9. read' \subseteq Source(call)' /\ written' \subseteq Written(i)'
  BY <1>1, <1>2, <1>4, <1>5, <1>6, <1>7
<1>10. QED  BY <1>1, <1>8, <1>9 DEF CInv

LEMMA ReturnStep == CInv /\ Return => CInv'
<1> SUFFICES ASSUME CInv, Return PROVE CInv'
  OBVIOUS
<1>1. program \in Programs /\ calls \in Nat
  BY DEF CInv
<1>2. /\ calls' = calls + 1 /\ i' = 0 /\ read' = {} /\ written' = {} /\ program' = program
  BY DEF Return
<1>3. program \in Seq({program[n] : n \in DOMAIN program})
  BY <1>1, CodecAssumption
<1>4. Running' => call' \in {program[n] : n \in DOMAIN program}
  BY <1>1, <1>2, <1>3 DEF Running, call
<1>5. Running' => call'.nBlocks \in Nat
  BY <1>1, <1>4, CodecAssumption
<1>6. QED  BY <1>1, <1>2, <1>5 DEF CInv

LEMMA Step == CInv /\ [Next]_vars => CInv'
<1>1. ASSUME CInv, UNCHANGED vars PROVE CInv'
  BY <1>1 DEF vars, CInv, Running, call, Source, Written
<1>2. QED  BY <1>1, BlockStep, ReturnStep DEF Next

\* The invariant holds in every reachable state.
THEOREM Invariance == Spec => []CInv
<1>1. QED  BY Initially, Step, PTL DEF Spec

LEMMA InvImpliesInside == CInv => StaysInside
<1> SUFFICES ASSUME CInv, Running
             PROVE  /\ read \subseteq Source(call) /\ written \subseteq Destination(call)
                    /\ i < call.nBlocks =>
                         written \cap {call.src + k : k \in
                           (i * Consumed[call.kernel])..(call.nBlocks * Consumed[call.kernel] - 1)} = {}
  BY DEF StaysInside
<1> DEFINE w == Produced[call.kernel]
           s == Consumed[call.kernel]
           past == WritePast(call.kernel)
           ahead == {call.src + k : k \in (i * s)..(call.nBlocks * s - 1)}
<1>1. /\ call.kernel \in Kernels /\ call.src \in Nat /\ call.dst \in Nat /\ call.nBlocks \in Nat
      /\ \/ Source(call) \cap Destination(call) = {}
         \/ call.src = call.dst /\ w <= s
  BY CallFacts
<1>2. /\ s \in Nat /\ w \in Nat /\ past \in Nat /\ ReadPast(call.kernel) \in Nat
      /\ w <= s => w + past <= s
  BY <1>1, Strides
<1>3. /\ i \in Nat /\ i <= call.nBlocks /\ read \subseteq Source(call)
      /\ written \subseteq Written(i) /\ (i = 0 => written = {})
  BY DEF CInv
<1> HIDE DEF w, s, past
<1>4. ASSUME NEW j \in Nat, NEW n \in Nat, j <= n, NEW x \in Nat
      PROVE  j * x <= n * x /\ j * x \in Nat /\ n * x \in Nat
  <2>1. PICK d \in Nat : n = j + d
    <3>1. n - j \in Nat /\ n = j + (n - j)
      BY <1>4
    <3>2. QED  BY <3>1
  <2>2. n * x = j * x + d * x /\ d * x \in Nat /\ j * x \in Nat
    BY <2>1
  <2>3. QED  BY <2>2
<1>5. written \subseteq Destination(call)
  <2>1. i * w <= call.nBlocks * w /\ i * w \in Nat /\ call.nBlocks * w \in Nat
    BY <1>1, <1>2, <1>3, <1>4
  <2>2. 0..(i * w + past - 1) \subseteq 0..(call.nBlocks * w + past - 1)
    BY <1>2, <2>1
  <2>3. Written(i) \subseteq Destination(call)
    BY <2>2 DEF Written, Destination, w, past
  <2>4. QED  BY <1>3, <2>3
<1>6. i < call.nBlocks => written \cap ahead = {}
  <2>1. CASE Source(call) \cap Destination(call) = {}
    <3>1. i * s \in Nat /\ call.nBlocks * s \in Nat
      BY <1>1, <1>2, <1>3, <1>4
    <3>2. (i * s)..(call.nBlocks * s - 1) \subseteq 0..(call.nBlocks * s + ReadPast(call.kernel) - 1)
      BY <1>2, <3>1
    <3>3. ahead \subseteq Source(call)
      BY <3>2 DEF Source, s
    <3>4. QED  BY <1>5, <2>1, <3>3
  <2>2. CASE call.src = call.dst /\ w <= s /\ i # 0
    <3>1. i * w + past <= i * s /\ i * w \in Nat /\ i * s \in Nat
      <4>1. w + past <= s /\ i >= 1
        BY <1>2, <1>3, <2>2
      <4>2. PICK d \in Nat : s = w + past + d
        <5>1. s - (w + past) \in Nat /\ s = w + past + (s - (w + past))
          BY <1>2, <4>1
        <5>2. QED  BY <5>1
      <4>3. i * s = i * w + i * past + i * d /\ i * d \in Nat /\ i * w \in Nat
        BY <1>2, <1>3, <4>2
      <4>4. i * past >= past /\ i * past \in Nat
        <5>1. 1 * past <= i * past /\ i * past \in Nat
          BY <1>2, <1>3, <1>4, <4>1
        <5>2. QED  BY <1>2, <5>1
      <4>5. QED  BY <1>2, <4>3, <4>4
    <3>2. ASSUME NEW x \in written, x \in ahead PROVE FALSE
      <4>1. PICK k \in 0..(i * w + past - 1) : x = call.dst + k
        BY <1>3 DEF Written, w, past
      <4>2. PICK j \in (i * s)..(call.nBlocks * s - 1) : x = call.src + j
        BY <3>2
      <4>3. call.nBlocks * s \in Nat
        BY <1>1, <1>2
      <4>4. QED  BY <1>1, <1>2, <2>2, <3>1, <4>1, <4>2, <4>3
    <3>3. QED  BY <3>2
  <2>3. CASE i = 0
    BY <1>3, <2>3
  <2>4. QED  BY <1>1, <2>1, <2>2, <2>3
<1>7. QED  BY <1>3, <1>5, <1>6 DEF s

\* Every load and store of every kernel is in its buffers, with the four bytes
\* base64_encode reads and base64_decode writes past them, and a kernel that
\* runs in place never loads what it has overwritten.
THEOREM Inside == Spec => []StaysInside
<1>1. QED  BY InvImpliesInside, Invariance, PTL

-----------------------------------------------------------------------------
(***************************************************************************)
(* Types: whatever bytes a kernel loads, what it stores are bytes.         *)
(***************************************************************************)
Bytes16 == [Lane -> Byte]

\* A product of bits is no more than either, and no less than their sum less 1.
LEMMA NibbleBounds ==
  ASSUME NEW x \in 0..15, NEW y \in 0..15
  PROVE  /\ NibbleAnd(x, y) \in 0..15
         /\ NibbleAnd(x, y) <= x /\ NibbleAnd(x, y) <= y /\ x + y - NibbleAnd(x, y) <= 15
<1>1. ASSUME NEW a \in 0..1, NEW b \in 0..1
      PROVE  a * b \in 0..1 /\ a * b <= a /\ a * b <= b /\ a + b - a * b <= 1
  OBVIOUS
<1> DEFINE x1 == Bit(x, 1)  x2 == Bit(x, 2)  x4 == Bit(x, 4)  x8 == Bit(x, 8)
           y1 == Bit(y, 1)  y2 == Bit(y, 2)  y4 == Bit(y, 4)  y8 == Bit(y, 8)
<1>2. /\ x1 \in 0..1 /\ x2 \in 0..1 /\ x4 \in 0..1 /\ x8 \in 0..1
      /\ x = x1 + 2 * x2 + 4 * x4 + 8 * x8
  BY DEF Bit
<1>3. /\ y1 \in 0..1 /\ y2 \in 0..1 /\ y4 \in 0..1 /\ y8 \in 0..1
      /\ y = y1 + 2 * y2 + 4 * y4 + 8 * y8
  BY DEF Bit
<1>4. NibbleAnd(x, y) = x1 * y1 + 2 * (x2 * y2) + 4 * (x4 * y4) + 8 * (x8 * y8)
  BY DEF NibbleAnd
<1> DEFINE p1 == x1 * y1  p2 == x2 * y2  p4 == x4 * y4  p8 == x8 * y8
<1>5. /\ p1 \in 0..1 /\ p1 <= x1 /\ p1 <= y1 /\ x1 + y1 - p1 <= 1
      /\ p2 \in 0..1 /\ p2 <= x2 /\ p2 <= y2 /\ x2 + y2 - p2 <= 1
      /\ p4 \in 0..1 /\ p4 <= x4 /\ p4 <= y4 /\ x4 + y4 - p4 <= 1
      /\ p8 \in 0..1 /\ p8 <= x8 /\ p8 <= y8 /\ x8 + y8 - p8 <= 1
  BY <1>1, <1>2, <1>3
<1>6. NibbleAnd(x, y) = p1 + 2 * p2 + 4 * p4 + 8 * p8
  BY <1>4
<1> HIDE DEF p1, p2, p4, p8, x1, x2, x4, x8, y1, y2, y4, y8
<1>7. QED  BY <1>2, <1>3, <1>5, <1>6

LEMMA ByteBounds ==
  ASSUME NEW x \in Byte, NEW y \in Byte
  PROVE  ByteAnd(x, y) \in Byte /\ ByteOr(x, y) \in Byte
<1> DEFINE xh == x \div 16  xl == x % 16  yh == y \div 16  yl == y % 16
<1>1. /\ xh \in 0..15 /\ xl \in 0..15 /\ x = 16 * xh + xl
      /\ yh \in 0..15 /\ yl \in 0..15 /\ y = 16 * yh + yl
  BY DEF Byte
<1> DEFINE h == NibbleAnd(xh, yh)  l == NibbleAnd(xl, yl)
<1>2. ByteAnd(x, y) = 16 * h + l
  BY DEF ByteAnd
<1> HIDE DEF xh, xl, yh, yl
<1>3. /\ h \in 0..15 /\ h <= xh /\ h <= yh /\ xh + yh - h <= 15
      /\ l \in 0..15 /\ l <= xl /\ l <= yl /\ xl + yl - l <= 15
  BY <1>1, NibbleBounds
<1> HIDE DEF h, l
<1>4. ByteAnd(x, y) \in Byte
  BY <1>2, <1>3 DEF Byte
<1> DEFINE a == xh + yh - h  b == xl + yl - l
<1>5. a \in 0..15 /\ b \in 0..15
  BY <1>1, <1>3
<1>6. ByteOr(x, y) = 16 * a + b
  <2>1. ByteOr(x, y) = x + y - (16 * h + l)
    BY <1>2 DEF ByteOr
  <2>2. h \in Int /\ l \in Int /\ xh \in Int /\ xl \in Int /\ yh \in Int /\ yl \in Int
    BY <1>1, <1>3
  <2>3. x + y - (16 * h + l) = 16 * (xh + yh - h) + (xl + yl - l)
    BY <1>1, <2>2
  <2>4. QED  BY <2>1, <2>3
<1> HIDE DEF a, b
<1>7. ByteOr(x, y) \in Byte
  BY <1>5, <1>6 DEF Byte
<1>8. QED  BY <1>4, <1>7

LEMMA LaneOps ==
  ASSUME NEW v \in Bytes16, NEW w \in Bytes16
  PROVE  /\ And(v, w) \in Bytes16 /\ Or(v, w) \in Bytes16
         /\ Add(v, w) \in Bytes16 /\ Sub(v, w) \in Bytes16
         /\ Swizzle(v, w) \in Bytes16
<1>1. \A k \in Lane : v[k] \in Byte /\ w[k] \in Byte
  BY DEF Bytes16
<1>2. And(v, w) \in Bytes16 /\ Or(v, w) \in Bytes16
  BY <1>1, ByteBounds DEF And, Or, Bytes16
<1>3. \A x, y \in Byte : (x + y) % 256 \in Byte /\ (x - y) % 256 \in Byte
  BY DEF Byte
<1>4. Add(v, w) \in Bytes16 /\ Sub(v, w) \in Bytes16
  BY <1>1, <1>3 DEF Add, Sub, Bytes16
<1>5. Swizzle(v, w) \in Bytes16
  <2> SUFFICES ASSUME NEW k \in Lane PROVE (IF w[k] < 16 THEN v[w[k]] ELSE 0) \in Byte
    BY DEF Swizzle, Bytes16
  <2>1. CASE w[k] < 16
    <3>1. w[k] \in Byte
      BY <1>1
    <3>2. w[k] \in Lane
      BY <2>1, <3>1 DEF Lane, Byte
    <3>3. QED  BY <1>1, <2>1, <3>2
  <2>2. CASE ~(w[k] < 16)
    BY <2>2 DEF Byte
  <2>3. QED  BY <2>1, <2>2
<1>6. QED  BY <1>2, <1>4, <1>5

LEMMA Splats ==
  ASSUME NEW b \in Int
  PROVE  Splat(b) \in Bytes16
<1>1. b % 256 \in Byte
  BY DEF Byte
<1>2. QED  BY <1>1 DEF Splat, Bytes16

LEMMA Comparisons ==
  ASSUME NEW v, NEW w
  PROVE  /\ Eq(v, w) \in Bytes16 /\ GeS(v, w) \in Bytes16
         /\ LeS(v, w) \in Bytes16 /\ GtU(v, w) \in Bytes16
<1>1. Test(TRUE) \in Byte /\ Test(FALSE) \in Byte
  BY DEF Test, Byte
<1>2. \A h \in BOOLEAN : Test(h) \in Byte
  BY <1>1
<1>3. QED  BY <1>1, <1>2 DEF Eq, GeS, LeS, GtU, Bytes16, Test, Byte

LEMMA Shifts ==
  ASSUME NEW v \in Bytes16, NEW n \in {2, 4, 6}
  PROVE  Shl(v, n) \in Bytes16 /\ ShrU(v, n) \in Bytes16
<1>1. 2^n \in {4, 16, 64}
  <2>1. 2^2 = 4 /\ 2^4 = 16 /\ 2^6 = 64
    OBVIOUS
  <2>2. QED  BY <2>1
<1>2. \A x \in Byte : \A d \in {4, 16, 64} : (x * d) % 256 \in Byte /\ x \div d \in Byte
  BY DEF Byte
<1>3. \A k \in Lane : v[k] \in Byte
  BY DEF Bytes16
<1>4. QED  BY <1>1, <1>2, <1>3 DEF Shl, ShrU, Bytes16

LEMMA Shuffles ==
  ASSUME NEW v \in Bytes16, NEW w \in Bytes16, NEW at \in [1..16 -> 0..31]
  PROVE  Shuffle(v, w, at) \in Bytes16
<1> SUFFICES ASSUME NEW k \in Lane
             PROVE  (IF at[k + 1] < 16 THEN v[at[k + 1]] ELSE w[at[k + 1] - 16]) \in Byte
  BY DEF Shuffle, Bytes16
<1>1. k + 1 \in 1..16
  BY DEF Lane
<1>2. at[k + 1] \in 0..31
  BY <1>1
<1>3. /\ at[k + 1] < 16 => at[k + 1] \in Lane
      /\ ~(at[k + 1] < 16) => at[k + 1] - 16 \in Lane
  BY <1>2 DEF Lane
<1>4. QED  BY <1>3 DEF Bytes16

LEMMA Patterns ==
  /\ shuffleLo \in [1..16 -> 0..31] /\ shuffleHi \in [1..16 -> 0..31]
  /\ shufHi \in [1..16 -> 0..31] /\ shufLo \in [1..16 -> 0..31]
  /\ shuf \in [1..16 -> 0..31]
  /\ patLeft23 \in [1..16 -> 0..31] /\ patLeft6 \in [1..16 -> 0..31]
  /\ patRight24 \in [1..16 -> 0..31] /\ patRight0 \in [1..16 -> 0..31]
<1>1. shuffleLo \in [1..16 -> 0..31]  BY DEF shuffleLo
<1>2. shuffleHi \in [1..16 -> 0..31]  BY DEF shuffleHi
<1>3. shufHi \in [1..16 -> 0..31]  BY DEF shufHi
<1>4. shufLo \in [1..16 -> 0..31]  BY DEF shufLo
<1>5. shuf \in [1..16 -> 0..31]  BY DEF shuf
<1>6. patLeft23 \in [1..16 -> 0..31]  BY DEF patLeft23
<1>7. patLeft6 \in [1..16 -> 0..31]  BY DEF patLeft6
<1>8. patRight24 \in [1..16 -> 0..31]  BY DEF patRight24
<1>9. patRight0 \in [1..16 -> 0..31]  BY DEF patRight0
<1>10. QED  BY <1>1, <1>2, <1>3, <1>4, <1>5, <1>6, <1>7, <1>8, <1>9

LEMMA Ranges ==
  ASSUME NEW v \in Bytes16, NEW low \in Int, NEW high \in Int
  PROVE  InRange(v, low, high) \in Bytes16
BY Comparisons, LaneOps DEF InRange

-----------------------------------------------------------------------------
(* One lemma for the output of each kernel. *)

LEMMA UpperBytes ==
  ASSUME NEW bytes \in Bytes16
  PROVE  toupper(bytes) \in Bytes16
<1>1. InRange(bytes, 97, 122) \in Bytes16 /\ Splat(32) \in Bytes16
  BY Ranges, Splats
<1>2. And(InRange(bytes, 97, 122), Splat(32)) \in Bytes16
  BY <1>1, LaneOps
<1>3. QED  BY <1>2, LaneOps DEF toupper

LEMMA HexBytes ==
  ASSUME NEW bytes \in Bytes16
  PROVE  hex_encode(bytes) \in [0..31 -> Byte]
<1> DEFINE hiCh == Swizzle(Digits, And(ShrU(bytes, 4), Splat(15)))
           loCh == Swizzle(Digits, And(bytes, Splat(15)))
           out0 == Shuffle(hiCh, loCh, shuffleLo)
           out1 == Shuffle(hiCh, loCh, shuffleHi)
<1>1. Digits \in Bytes16
  BY DEF Digits, Bytes16, Lane, Byte
<1>2. ShrU(bytes, 4) \in Bytes16 /\ Splat(15) \in Bytes16
  BY Shifts, Splats
<1>3. And(ShrU(bytes, 4), Splat(15)) \in Bytes16 /\ And(bytes, Splat(15)) \in Bytes16
  BY <1>2, LaneOps
<1>4. hiCh \in Bytes16 /\ loCh \in Bytes16
  BY <1>1, <1>3, LaneOps
<1> HIDE DEF hiCh, loCh
<1>5. out0 \in Bytes16 /\ out1 \in Bytes16
  BY <1>4, Patterns, Shuffles
<1>6. hex_encode(bytes) = [k \in 0..31 |-> IF k < 16 THEN out0[k] ELSE out1[k - 16]]
  BY DEF hex_encode, hiCh, loCh
<1> HIDE DEF out0, out1
<1>7. \A k \in 0..31 : (k < 16 => k \in Lane) /\ (~(k < 16) => k - 16 \in Lane)
  BY DEF Lane
<1>8. QED  BY <1>5, <1>6, <1>7 DEF Bytes16

LEMMA Packed ==
  ASSUME NEW nibbles \in Bytes16
  PROVE  PackNibbles(nibbles) \in [0..7 -> Byte]
<1> DEFINE packed == Or(Shl(Shuffle(nibbles, nibbles, shufHi), 4), Shuffle(nibbles, nibbles, shufLo))
<1>1. Shuffle(nibbles, nibbles, shufHi) \in Bytes16 /\ Shuffle(nibbles, nibbles, shufLo) \in Bytes16
  BY Patterns, Shuffles
<1>2. Shl(Shuffle(nibbles, nibbles, shufHi), 4) \in Bytes16
  BY <1>1, Shifts
<1>3. packed \in Bytes16
  BY <1>1, <1>2, LaneOps
<1>4. PackNibbles(nibbles) = [k \in 0..7 |-> packed[k]]
  BY DEF PackNibbles
<1> HIDE DEF packed
<1>5. \A k \in 0..7 : k \in Lane
  BY DEF Lane
<1>6. QED  BY <1>3, <1>4, <1>5 DEF Bytes16

LEMMA UnhexBytes ==
  ASSUME NEW chars \in Bytes16
  PROVE  hex_decode(chars) \in [0..7 -> Byte]
<1> DEFINE d == And(InRange(chars, 48, 57), Splat(48))
           u == And(InRange(chars, 65, 70), Splat(55))
           l == And(InRange(chars, 97, 102), Splat(87))
<1>1. d \in Bytes16 /\ u \in Bytes16 /\ l \in Bytes16
  BY Ranges, Splats, LaneOps
<1>2. hex_decode(chars) = PackNibbles(Sub(chars, Or(Or(d, u), l)))
  BY DEF hex_decode
<1> HIDE DEF d, u, l
<1>3. Or(d, u) \in Bytes16
  BY <1>1, LaneOps
<1>4. Or(Or(d, u), l) \in Bytes16
  BY <1>1, <1>3, LaneOps
<1>5. Sub(chars, Or(Or(d, u), l)) \in Bytes16
  BY <1>4, LaneOps
<1>6. QED  BY <1>2, <1>5, Packed

-----------------------------------------------------------------------------
(* base64: halfwords, and the multiplications on them. *)

LEMMA Repeats ==
  ASSUME NEW b \in [1..4 -> Byte]
  PROVE  repU32(b) \in Bytes16
<1>1. \A k \in Lane : (k % 4) + 1 \in 1..4
  BY DEF Lane
<1>2. QED  BY <1>1 DEF repU32, Bytes16

HalfWord == {n \in Nat : n < 65536}

LEMMA Halves ==
  ASSUME NEW v \in Bytes16, NEW k \in 0..7
  PROVE  Half(v, k) \in HalfWord
<1>1. 2 * k \in Lane /\ 2 * k + 1 \in Lane
  BY DEF Lane
<1>2. v[2 * k] \in 0..255 /\ v[2 * k + 1] \in 0..255
  BY <1>1 DEF Bytes16, Byte
<1>3. v[2 * k] + 256 * v[2 * k + 1] \in HalfWord
  <2>1. \A x, y \in 0..255 : x + 256 * y \in HalfWord
    BY DEF HalfWord
  <2>2. QED  BY <1>2, <2>1, Zenon
<1>4. QED  BY <1>3 DEF Half

LEMMA OfHalves ==
  ASSUME NEW h \in [0..7 -> HalfWord]
  PROVE  FromHalves(h) \in Bytes16
<1>1. \A k \in Lane : k \div 2 \in 0..7
  BY DEF Lane
<1>2. \A x \in HalfWord : x % 256 \in Byte /\ x \div 256 \in Byte
  BY DEF Byte, HalfWord
<1>3. \A k \in Lane : h[k \div 2] \in HalfWord
  BY <1>1
<1>4. QED  BY <1>2, <1>3 DEF FromHalves, Bytes16

LEMMA Products ==
  ASSUME NEW x \in Nat, NEW y \in Nat
  PROVE  x * y \in Nat
OBVIOUS

LEMMA LowProducts ==
  ASSUME NEW v \in Bytes16, NEW w \in Bytes16
  PROVE  I16x8Mul(v, w) \in Bytes16
<1> DEFINE h == [k \in 0..7 |-> (Half(v, k) * Half(w, k)) % 65536]
<1>1. \A k \in 0..7 : Half(v, k) * Half(w, k) \in Nat
  BY Halves, Products DEF HalfWord
<1>2. \A n \in Nat : n % 65536 \in HalfWord
  BY DEF HalfWord
<1>3. h \in [0..7 -> HalfWord]
  BY <1>1, <1>2
<1>4. QED  BY <1>3, OfHalves DEF I16x8Mul

LEMMA HighProducts ==
  ASSUME NEW v \in Bytes16, NEW w \in Bytes16, NEW first \in {0, 4}
  PROVE  I32x4ShrU(I32x4Extmul(v, w, first), 16) \in [0..3 -> Nat]
<1> DEFINE m == I32x4Extmul(v, w, first)
<1>1. \A k \in 0..3 : m[k] \in Nat
  <2> SUFFICES ASSUME NEW k \in 0..3 PROVE m[k] \in Nat
    OBVIOUS
  <2>1. first + k \in 0..7
    OBVIOUS
  <2>2. Half(v, first + k) \in Nat /\ Half(w, first + k) \in Nat
    BY <2>1, Halves DEF HalfWord
  <2>3. m[k] = Half(v, first + k) * Half(w, first + k)
    BY DEF I32x4Extmul
  <2>4. QED  BY <2>2, <2>3, Products
<1> HIDE DEF m
<1>2. 2^16 = 65536
  OBVIOUS
<1>3. \A n \in Nat : n \div 65536 \in Nat
  OBVIOUS
<1>4. I32x4ShrU(m, 16) = [k \in 0..3 |-> m[k] \div 65536]
  BY <1>2 DEF I32x4ShrU
<1>5. I32x4ShrU(m, 16) \in [0..3 -> Nat]
  BY <1>1, <1>3, <1>4
<1>6. QED  BY <1>5 DEF m

LEMMA Narrows ==
  ASSUME NEW v \in [0..3 -> Nat], NEW w \in [0..3 -> Nat]
  PROVE  I16x8Narrow(v, w) \in Bytes16
<1> DEFINE Saturate(x) == IF x > 65535 THEN 65535 ELSE x
           h == [k \in 0..7 |-> Saturate(IF k < 4 THEN v[k] ELSE w[k - 4])]
<1>1. \A n \in Nat : Saturate(n) \in HalfWord
  BY DEF HalfWord
<1>2. \A k \in 0..7 : (IF k < 4 THEN v[k] ELSE w[k - 4]) \in Nat
  OBVIOUS
<1> HIDE DEF Saturate
<1>3. h \in [0..7 -> HalfWord]
  BY <1>1, <1>2
<1>4. FromHalves(h) \in Bytes16
  BY <1>3, OfHalves
<1>5. QED  BY <1>4 DEF I16x8Narrow, Saturate

LEMMA IndexBytes ==
  ASSUME NEW bytes \in Bytes16
  PROVE  Indexes(bytes) \in Bytes16
<1> DEFINE triplets == Shuffle(bytes, bytes, shuf)
           masked == And(triplets, repU32(<<0, 252, 192, 15>>))
           mulhi == repU32(<<64, 0, 0, 4>>)
           hi == I16x8Narrow(I32x4ShrU(I32x4Extmul(masked, mulhi, 0), 16),
                             I32x4ShrU(I32x4Extmul(masked, mulhi, 4), 16))
           lo == I16x8Mul(And(triplets, repU32(<<240, 3, 63, 0>>)), repU32(<<16, 0, 0, 1>>))
<1>1. /\ <<0, 252, 192, 15>> \in [1..4 -> Byte] /\ <<64, 0, 0, 4>> \in [1..4 -> Byte]
      /\ <<240, 3, 63, 0>> \in [1..4 -> Byte] /\ <<16, 0, 0, 1>> \in [1..4 -> Byte]
  BY DEF Byte
<1>2. /\ repU32(<<0, 252, 192, 15>>) \in Bytes16 /\ mulhi \in Bytes16
      /\ repU32(<<240, 3, 63, 0>>) \in Bytes16 /\ repU32(<<16, 0, 0, 1>>) \in Bytes16
  BY <1>1, Repeats
<1>3. triplets \in Bytes16
  BY Patterns, Shuffles
<1>4. masked \in Bytes16 /\ And(triplets, repU32(<<240, 3, 63, 0>>)) \in Bytes16
  BY <1>2, <1>3, LaneOps
<1>5. lo \in Bytes16
  BY <1>2, <1>4, LowProducts
<1>6. hi \in Bytes16
  <2> HIDE DEF masked, mulhi
  <2>1. /\ I32x4ShrU(I32x4Extmul(masked, mulhi, 0), 16) \in [0..3 -> Nat]
        /\ I32x4ShrU(I32x4Extmul(masked, mulhi, 4), 16) \in [0..3 -> Nat]
    BY <1>2, <1>4, HighProducts
  <2>2. QED  BY <2>1, Narrows
<1>7. Indexes(bytes) = Or(hi, lo)
  BY DEF Indexes
<1> HIDE DEF hi, lo
<1>8. QED  BY <1>5, <1>6, <1>7, LaneOps

LEMMA EncodedBytes ==
  ASSUME NEW bytes \in Bytes16
  PROVE  base64_encode(bytes) \in Bytes16
<1> DEFINE idx == Indexes(bytes)
           a == Add(idx, Splat(65))
           b == Add(a, And(GtU(idx, Splat(25)), Splat(6)))
           c == Add(b, And(GtU(idx, Splat(51)), Splat(181)))
           d == Add(c, And(Eq(idx, Splat(62)), Splat(241)))
           e == Add(d, And(Eq(idx, Splat(63)), Splat(244)))
<1>1. base64_encode(bytes) = e
  BY DEF base64_encode, ToChars
<1>2. idx \in Bytes16
  BY IndexBytes
<1>3. /\ And(GtU(idx, Splat(25)), Splat(6)) \in Bytes16
      /\ And(GtU(idx, Splat(51)), Splat(181)) \in Bytes16
      /\ And(Eq(idx, Splat(62)), Splat(241)) \in Bytes16
      /\ And(Eq(idx, Splat(63)), Splat(244)) \in Bytes16
      /\ Splat(65) \in Bytes16
  BY Comparisons, Splats, LaneOps
<1> HIDE DEF idx
<1>4. a \in Bytes16  BY <1>2, <1>3, LaneOps
<1> HIDE DEF a
<1>5. b \in Bytes16  BY <1>3, <1>4, LaneOps
<1> HIDE DEF b
<1>6. c \in Bytes16  BY <1>3, <1>5, LaneOps
<1> HIDE DEF c
<1>7. d \in Bytes16  BY <1>3, <1>6, LaneOps
<1> HIDE DEF d
<1>8. e \in Bytes16  BY <1>3, <1>7, LaneOps
<1> HIDE DEF e
<1>9. QED  BY <1>1, <1>8

LEMMA ValueBytes ==
  ASSUME NEW chars \in Bytes16
  PROVE  FromChars(chars) \in Bytes16
<1> DEFINE a == And(InRange(chars, 48, 57), Splat(252))
           b == Or(a, And(InRange(chars, 65, 90), Splat(65)))
           c == Or(b, And(InRange(chars, 97, 122), Splat(71)))
           d == Or(c, And(Eq(chars, Splat(43)), Splat(237)))
           e == Or(d, And(Eq(chars, Splat(47)), Splat(240)))
<1>1. FromChars(chars) = Sub(chars, e)
  BY DEF FromChars
<1>2. /\ a \in Bytes16
      /\ And(InRange(chars, 65, 90), Splat(65)) \in Bytes16
      /\ And(InRange(chars, 97, 122), Splat(71)) \in Bytes16
      /\ And(Eq(chars, Splat(43)), Splat(237)) \in Bytes16
      /\ And(Eq(chars, Splat(47)), Splat(240)) \in Bytes16
  BY Ranges, Comparisons, Splats, LaneOps
<1> HIDE DEF a
<1>3. b \in Bytes16  BY <1>2, LaneOps
<1> HIDE DEF b
<1>4. c \in Bytes16  BY <1>2, <1>3, LaneOps
<1> HIDE DEF c
<1>5. d \in Bytes16  BY <1>2, <1>4, LaneOps
<1> HIDE DEF d
<1>6. e \in Bytes16  BY <1>2, <1>5, LaneOps
<1> HIDE DEF e
<1>7. QED  BY <1>1, <1>6, LaneOps

LEMMA DecodedBytes ==
  ASSUME NEW chars \in Bytes16
  PROVE  base64_decode(chars) \in Bytes16
<1> DEFINE idx == FromChars(chars)
           left23 == Shuffle(Shl(idx, 2), Shl(idx, 4), patLeft23)
           right24 == Shuffle(ShrU(idx, 4), ShrU(idx, 2), patRight24)
           left == Shuffle(left23, Shl(idx, 6), patLeft6)
           right == Shuffle(right24, idx, patRight0)
<1>1. base64_decode(chars) = Or(left, right)
  BY DEF base64_decode
<1>2. idx \in Bytes16
  BY ValueBytes
<1> HIDE DEF idx
<1>3. /\ Shl(idx, 2) \in Bytes16 /\ Shl(idx, 4) \in Bytes16 /\ Shl(idx, 6) \in Bytes16
      /\ ShrU(idx, 4) \in Bytes16 /\ ShrU(idx, 2) \in Bytes16
  BY <1>2, Shifts
<1>4. left23 \in Bytes16 /\ right24 \in Bytes16
  BY <1>3, Patterns, Shuffles
<1> HIDE DEF left23, right24
<1>5. left \in Bytes16 /\ right \in Bytes16
  BY <1>2, <1>3, <1>4, Patterns, Shuffles
<1> HIDE DEF left, right
<1>6. QED  BY <1>1, <1>5, LaneOps

LEMMA OutputBytes ==
  ASSUME NEW kernel \in Kernels, NEW bytes \in Bytes16
  PROVE  \A k \in DOMAIN Output(kernel, bytes) : Output(kernel, bytes)[k] \in Byte
<1>1. CASE kernel = "toupper"
  <2>1. Output(kernel, bytes) = toupper(bytes)
    BY <1>1 DEF Output
  <2>2. QED  BY <2>1, UpperBytes DEF Bytes16
<1>2. CASE kernel = "hex_encode"
  <2>1. Output(kernel, bytes) = hex_encode(bytes)
    BY <1>2 DEF Output
  <2>2. QED  BY <2>1, HexBytes
<1>3. CASE kernel = "hex_decode"
  <2>1. Output(kernel, bytes) = hex_decode(bytes)
    BY <1>3 DEF Output
  <2>2. QED  BY <2>1, UnhexBytes
<1>4. CASE kernel = "base64_encode"
  <2>1. Output(kernel, bytes) = base64_encode(bytes)
    BY <1>4 DEF Output
  <2>2. QED  BY <2>1, EncodedBytes DEF Bytes16
<1>5. CASE kernel = "base64_decode"
  <2>1. Output(kernel, bytes) = base64_decode(bytes)
    BY <1>5 DEF Output
  <2>2. QED  BY <2>1, DecodedBytes DEF Bytes16
<1>6. QED  BY <1>1, <1>2, <1>3, <1>4, <1>5 DEF Kernels

-----------------------------------------------------------------------------
TInv ==
  /\ calls \in 0..Len(program)
  /\ mem \in [Addresses -> Byte] /\ input \in [Addresses -> Byte]

LEMMA ProgramLength ==
  ASSUME CInv
  PROVE  Len(program) \in Nat
<1>1. program \in Seq({program[n] : n \in DOMAIN program})
  BY CodecAssumption DEF CInv
<1>2. QED  BY <1>1

LEMMA InAddresses ==
  ASSUME CInv, Running
  PROVE  Source(call) \cup Destination(call) \subseteq Addresses
<1>1. program \in Seq({program[n] : n \in DOMAIN program})
  BY CodecAssumption DEF CInv
<1>2. calls + 1 \in DOMAIN program
  BY <1>1 DEF CInv, Running
<1>3. call \in {program[n] : n \in DOMAIN program}
  BY <1>2 DEF call
<1>4. program \in Programs
  BY DEF CInv
<1>5. QED  BY <1>3, <1>4, CodecAssumption

LEMMA TInitially == Init => TInv
<1> SUFFICES ASSUME Init PROVE TInv
  OBVIOUS
<1>1. Len(program) \in Nat
  BY Initially, ProgramLength
<1>2. QED  BY <1>1, CodecAssumption DEF Init, TInv

\* Every byte a block loads is in memory, so what it stores is made of bytes.
LEMMA TBlock == CInv /\ TInv /\ Block => TInv'
<1> SUFFICES ASSUME CInv, TInv, Block PROVE TInv'
  OBVIOUS
<1> DEFINE from == call.src + i * InStride(call.kernel)
           to == call.dst + i * OutStride(call.kernel)
           out == Output(call.kernel, Load(mem, from))
<1>1. /\ Running /\ i < call.nBlocks /\ mem' = Store(mem, to, out)
      /\ UNCHANGED <<program, calls, input>>
  BY DEF Block, AtBlock
<1>2. /\ call.kernel \in Kernels /\ call.src \in Nat /\ call.dst \in Nat /\ call.nBlocks \in Nat
      /\ i \in Nat
  BY <1>1, CallFacts DEF CInv
<1>3. /\ InStride(call.kernel) = Consumed[call.kernel] /\ Consumed[call.kernel] \in Nat
      /\ ReadPast(call.kernel) \in Nat /\ Consumed[call.kernel] + ReadPast(call.kernel) = 16
  BY <1>2, Strides
<1>4. \A k \in Lane : from + k \in Addresses
  <2> SUFFICES ASSUME NEW k \in Lane PROVE from + k \in Source(call)
    BY <1>1, InAddresses
  <2>1. k \in 0..(Consumed[call.kernel] + ReadPast(call.kernel) - 1)
    BY <1>3 DEF Lane
  <2>2. i * Consumed[call.kernel] + k \in 0..(call.nBlocks * Consumed[call.kernel] + ReadPast(call.kernel) - 1)
    BY <1>1, <1>2, <1>3, <2>1, WithinStride
  <2>3. from + k = call.src + (i * Consumed[call.kernel] + k)
    <3>1. i * Consumed[call.kernel] \in Nat /\ k \in Nat
      BY <1>2, <1>3, <2>1
    <3>2. QED  BY <1>2, <1>3, <3>1
  <2>4. QED  BY <2>2, <2>3 DEF Source
<1> HIDE DEF from
<1>5. Load(mem, from) \in Bytes16
  BY <1>4 DEF TInv, Load, Bytes16
<1>6. \A k \in DOMAIN out : out[k] \in Byte
  BY <1>2, <1>5, OutputBytes
<1> HIDE DEF out, to
<1>7. Store(mem, to, out) \in [Addresses -> Byte]
  BY <1>6 DEF Store, TInv
<1>8. QED  BY <1>1, <1>7 DEF TInv

LEMMA TStep == CInv /\ TInv /\ [Next]_vars => TInv'
<1> SUFFICES ASSUME CInv, TInv, [Next]_vars PROVE TInv'
  OBVIOUS
<1>1. CASE Block
  BY <1>1, TBlock
<1>2. CASE Return
  <2>1. Len(program) \in Nat /\ calls \in Nat
    BY ProgramLength DEF CInv
  <2>2. calls < Len(program) /\ calls' = calls + 1 /\ input' = mem /\ UNCHANGED <<program, mem>>
    BY <1>2 DEF Return, Running
  <2>3. calls + 1 \in 0..Len(program)
    BY <2>1, <2>2
  <2>4. QED  BY <2>2, <2>3 DEF TInv
<1>3. CASE UNCHANGED vars
  BY <1>3 DEF vars, TInv
<1>4. QED  BY <1>1, <1>2, <1>3 DEF Next

LEMMA TypedFromInvariants == CInv /\ TInv /\ (~Running => read = {} /\ written = {}) => TypeOK
<1> SUFFICES ASSUME CInv, TInv, ~Running => read = {} /\ written = {} PROVE TypeOK
  OBVIOUS
<1>1. Running => read \subseteq Source(call) /\ written \subseteq Destination(call)
  BY InvImpliesInside DEF StaysInside
<1>2. read \subseteq Addresses /\ written \subseteq Addresses
  BY <1>1, InAddresses
<1>3. QED  BY <1>2 DEF TypeOK, CInv, TInv

LEMMA IdleInit == Init => (~Running => read = {} /\ written = {})
BY DEF Init

LEMMA IdleStep ==
  (~Running => read = {} /\ written = {}) /\ [Next]_vars => (~Running => read = {} /\ written = {})'
<1> SUFFICES ASSUME ~Running => read = {} /\ written = {}, [Next]_vars, ~Running'
             PROVE  read' = {} /\ written' = {}
  OBVIOUS
<1>1. CASE Block
  BY <1>1 DEF Block, AtBlock, Running
<1>2. CASE Return
  BY <1>2 DEF Return
<1>3. CASE UNCHANGED vars
  BY <1>3 DEF vars, Running
<1>4. QED  BY <1>1, <1>2, <1>3 DEF Next

\* Memory and the input of the call hold bytes, at every step of every program.
THEOREM TypedMemory == Spec => []TInv
BY Invariance, TInitially, TStep, PTL DEF Spec

\* Memory holds bytes whatever bytes a program found there, whichever kernels
\* it runs and however long its buffers: no lane's arithmetic leaves 0..255,
\* the sixteen- and thirty-two-bit products of base64 included, and no load or
\* store leaves memory (base64_encode/main.go:45, base64_decode/main.go:47).
THEOREM TypeCorrect == Spec => []TypeOK
<1>1. Spec => [](~Running => read = {} /\ written = {})
  BY IdleInit, IdleStep, PTL DEF Spec
<1>2. QED  BY <1>1, TypedMemory, Invariance, TypedFromInvariants, PTL

-----------------------------------------------------------------------------
(* The masks, tests and constants of the kernels, lane by lane. *)

\* A nibble is its bits.
LEMMA BitsOf ==
  ASSUME NEW x \in 0..15
  PROVE  /\ Bit(x, 1) \in 0..1 /\ Bit(x, 2) \in 0..1 /\ Bit(x, 4) \in 0..1 /\ Bit(x, 8) \in 0..1
         /\ x = Bit(x, 1) + 2 * Bit(x, 2) + 4 * Bit(x, 4) + 8 * Bit(x, 8)
BY DEF Bit

\* The masks of a nibble that the kernels' constants are made of.
LEMMA NibbleMasks ==
  ASSUME NEW x \in 0..15
  PROVE  /\ NibbleAnd(x, 0) = 0 /\ NibbleAnd(x, 15) = x
         /\ NibbleAnd(x, 3) = x % 4 /\ NibbleAnd(x, 12) = x - (x % 4)
         /\ NibbleAnd(15, x) = x /\ NibbleAnd(0, x) = 0
<1> DEFINE a == Bit(x, 1)  b == Bit(x, 2)  c == Bit(x, 4)  d == Bit(x, 8)
<1>1. /\ a \in 0..1 /\ b \in 0..1 /\ c \in 0..1 /\ d \in 0..1
      /\ x = a + 2 * b + 4 * c + 8 * d
  BY BitsOf
<1>2. /\ Bit(0, 1) = 0 /\ Bit(0, 2) = 0 /\ Bit(0, 4) = 0 /\ Bit(0, 8) = 0
      /\ Bit(15, 1) = 1 /\ Bit(15, 2) = 1 /\ Bit(15, 4) = 1 /\ Bit(15, 8) = 1
      /\ Bit(3, 1) = 1 /\ Bit(3, 2) = 1 /\ Bit(3, 4) = 0 /\ Bit(3, 8) = 0
      /\ Bit(12, 1) = 0 /\ Bit(12, 2) = 0 /\ Bit(12, 4) = 1 /\ Bit(12, 8) = 1
  BY DEF Bit
<1>3. /\ NibbleAnd(x, 0) = a * 0 + 2 * (b * 0) + 4 * (c * 0) + 8 * (d * 0)
      /\ NibbleAnd(0, x) = 0 * a + 2 * (0 * b) + 4 * (0 * c) + 8 * (0 * d)
  BY <1>2 DEF NibbleAnd
<1>4. /\ NibbleAnd(x, 15) = a * 1 + 2 * (b * 1) + 4 * (c * 1) + 8 * (d * 1)
      /\ NibbleAnd(15, x) = 1 * a + 2 * (1 * b) + 4 * (1 * c) + 8 * (1 * d)
  BY <1>2 DEF NibbleAnd
<1>5. /\ NibbleAnd(x, 3) = a * 1 + 2 * (b * 1) + 4 * (c * 0) + 8 * (d * 0)
      /\ NibbleAnd(x, 12) = a * 0 + 2 * (b * 0) + 4 * (c * 1) + 8 * (d * 1)
  BY <1>2 DEF NibbleAnd
<1> HIDE DEF a, b, c, d
<1>6. x % 4 = a + 2 * b
  BY <1>1
<1>7. QED  BY <1>1, <1>3, <1>4, <1>5, <1>6

\* Every mask of a byte in the codec kernels keeps the bits above or the bits
\* below a line (0x0f in hex_encode, 0x3f and 0x03f0 in base64_encode).
LEMMA ByteMasks ==
  ASSUME NEW x \in Byte
  PROVE  /\ ByteAnd(x, 0) = 0 /\ ByteAnd(0, x) = 0
         /\ ByteAnd(x, 255) = x /\ ByteAnd(255, x) = x
         /\ ByteAnd(x, 15) = x % 16 /\ ByteAnd(x, 240) = x - (x % 16)
         /\ ByteAnd(x, 3) = x % 4 /\ ByteAnd(x, 252) = x - (x % 4)
         /\ ByteAnd(x, 63) = x % 64 /\ ByteAnd(x, 192) = x - (x % 64)
<1> DEFINE h == x \div 16  l == x % 16
<1>1. h \in 0..15 /\ l \in 0..15 /\ x = 16 * h + l
  BY DEF Byte
<1>2. /\ 0 \div 16 = 0 /\ 0 % 16 = 0 /\ 255 \div 16 = 15 /\ 255 % 16 = 15
      /\ 15 \div 16 = 0 /\ 15 % 16 = 15 /\ 240 \div 16 = 15 /\ 240 % 16 = 0
      /\ 3 \div 16 = 0 /\ 3 % 16 = 3 /\ 252 \div 16 = 15 /\ 252 % 16 = 12
      /\ 63 \div 16 = 3 /\ 63 % 16 = 15 /\ 192 \div 16 = 12 /\ 192 % 16 = 0
  OBVIOUS
<1>3. /\ ByteAnd(x, 0) = 16 * NibbleAnd(h, 0) + NibbleAnd(l, 0)
      /\ ByteAnd(0, x) = 16 * NibbleAnd(0, h) + NibbleAnd(0, l)
      /\ ByteAnd(x, 255) = 16 * NibbleAnd(h, 15) + NibbleAnd(l, 15)
      /\ ByteAnd(255, x) = 16 * NibbleAnd(15, h) + NibbleAnd(15, l)
  BY <1>2 DEF ByteAnd
<1>4. /\ ByteAnd(x, 15) = 16 * NibbleAnd(h, 0) + NibbleAnd(l, 15)
      /\ ByteAnd(x, 240) = 16 * NibbleAnd(h, 15) + NibbleAnd(l, 0)
      /\ ByteAnd(x, 3) = 16 * NibbleAnd(h, 0) + NibbleAnd(l, 3)
      /\ ByteAnd(x, 252) = 16 * NibbleAnd(h, 15) + NibbleAnd(l, 12)
      /\ ByteAnd(x, 63) = 16 * NibbleAnd(h, 3) + NibbleAnd(l, 15)
      /\ ByteAnd(x, 192) = 16 * NibbleAnd(h, 12) + NibbleAnd(l, 0)
  BY <1>2 DEF ByteAnd
<1> HIDE DEF h, l
<1>5. /\ NibbleAnd(h, 0) = 0 /\ NibbleAnd(h, 15) = h /\ NibbleAnd(h, 3) = h % 4
      /\ NibbleAnd(h, 12) = h - (h % 4) /\ NibbleAnd(15, h) = h /\ NibbleAnd(0, h) = 0
  BY <1>1, NibbleMasks
<1>6. /\ NibbleAnd(l, 0) = 0 /\ NibbleAnd(l, 15) = l /\ NibbleAnd(l, 3) = l % 4
      /\ NibbleAnd(l, 12) = l - (l % 4) /\ NibbleAnd(15, l) = l /\ NibbleAnd(0, l) = 0
  BY <1>1, NibbleMasks
<1>7. x % 16 = l /\ x % 4 = l % 4 /\ x % 64 = 16 * (h % 4) + l
  BY <1>1
<1>8. ByteAnd(x, 0) = 0 /\ ByteAnd(0, x) = 0 /\ ByteAnd(x, 255) = x /\ ByteAnd(255, x) = x
  BY <1>1, <1>3, <1>5, <1>6
<1>9. /\ ByteAnd(x, 15) = l /\ ByteAnd(x, 240) = 16 * h /\ ByteAnd(x, 3) = l % 4
      /\ ByteAnd(x, 252) = 16 * h + (l - (l % 4))
      /\ ByteAnd(x, 63) = 16 * (h % 4) + l /\ ByteAnd(x, 192) = 16 * (h - (h % 4))
  <2>1. l % 4 \in Nat /\ h % 4 \in Nat /\ l \in Nat /\ h \in Nat
    BY <1>1
  <2> DEFINE lm == l % 4  hm == h % 4
  <2>2. l % 4 = lm /\ h % 4 = hm
    OBVIOUS
  <2> HIDE DEF lm, hm
  <2>3. /\ ByteAnd(x, 15) = 16 * 0 + l /\ ByteAnd(x, 240) = 16 * h + 0
        /\ ByteAnd(x, 3) = 16 * 0 + lm
        /\ ByteAnd(x, 252) = 16 * h + (l - lm)
        /\ ByteAnd(x, 63) = 16 * hm + l /\ ByteAnd(x, 192) = 16 * (h - hm) + 0
    BY <1>4, <1>5, <1>6, <2>2
  <2>4. QED  BY <2>1, <2>2, <2>3
<1>10. /\ x % 16 = l /\ x - (x % 16) = 16 * h /\ x % 4 = l % 4
       /\ x - (x % 4) = 16 * h + (l - (l % 4))
       /\ x % 64 = 16 * (h % 4) + l /\ x - (x % 64) = 16 * (h - (h % 4))
  BY <1>1, <1>7
<1>11. QED  BY <1>8, <1>9, <1>10

\* A lane a test cleared adds nothing to what it is or'ed with.
LEMMA OrZero ==
  ASSUME NEW x \in Byte
  PROVE  ByteOr(x, 0) = x /\ ByteOr(0, x) = x
<1>1. ByteOr(x, 0) = x + 0 - 0 /\ ByteOr(0, x) = 0 + x - 0
  BY ByteMasks DEF ByteOr
<1>2. QED  BY <1>1 DEF Byte

\* Nibbles with no bit in common.
LEMMA NibbleApart ==
  ASSUME NEW x \in 0..15, NEW y \in 0..15, x % 4 = 0, y < 4
  PROVE  NibbleAnd(x, y) = 0
<1>1. Bit(x, 1) = 0 /\ Bit(x, 2) = 0 /\ Bit(y, 4) = 0 /\ Bit(y, 8) = 0
  BY DEF Bit
<1>2. NibbleAnd(x, y) = 0 * Bit(y, 1) + 2 * (0 * Bit(y, 2)) + 4 * (Bit(x, 4) * 0) + 8 * (Bit(x, 8) * 0)
  BY <1>1 DEF NibbleAnd
<1>3. Bit(y, 1) \in 0..1 /\ Bit(y, 2) \in 0..1 /\ Bit(x, 4) \in 0..1 /\ Bit(x, 8) \in 0..1
  BY BitsOf
<1>4. QED  BY <1>2, <1>3

\* An or of bits apart is a sum.
LEMMA OrApart ==
  ASSUME NEW x \in Byte, NEW y \in Byte,
         \/ x % 4 = 0 /\ y < 4
         \/ x % 16 = 0 /\ y < 16
         \/ x % 64 = 0 /\ y < 64
  PROVE  ByteOr(x, y) = x + y
<1> DEFINE xh == x \div 16  xl == x % 16  yh == y \div 16  yl == y % 16
<1>1. /\ xh \in 0..15 /\ xl \in 0..15 /\ x = 16 * xh + xl
      /\ yh \in 0..15 /\ yl \in 0..15 /\ y = 16 * yh + yl
  BY DEF Byte
<1>2. ByteAnd(x, y) = 16 * NibbleAnd(xh, yh) + NibbleAnd(xl, yl)
  BY DEF ByteAnd
<1> HIDE DEF xh, xl, yh, yl
<1>3. \/ yh = 0 /\ xl % 4 = 0 /\ yl < 4
      \/ yh = 0 /\ xl = 0
      \/ xh % 4 = 0 /\ yh < 4 /\ xl = 0
  <2>1. CASE x % 4 = 0 /\ y < 4  BY <1>1, <2>1
  <2>2. CASE x % 16 = 0 /\ y < 16  BY <1>1, <2>2
  <2>3. CASE x % 64 = 0 /\ y < 64  BY <1>1, <2>3
  <2>4. QED  BY <2>1, <2>2, <2>3
<1>4. NibbleAnd(xh, yh) = 0
  BY <1>1, <1>3, NibbleMasks, NibbleApart
<1>5. NibbleAnd(xl, yl) = 0
  BY <1>1, <1>3, NibbleMasks, NibbleApart
<1>6. ByteAnd(x, y) = 0
  BY <1>2, <1>4, <1>5
<1>7. QED  BY <1>6 DEF ByteOr, Byte

\* The operations of a vector, lane by lane.
LEMMA AndLane ==
  ASSUME NEW v, NEW w, NEW k \in Lane
  PROVE  /\ And(v, w)[k] = ByteAnd(v[k], w[k]) /\ Or(v, w)[k] = ByteOr(v[k], w[k])
         /\ Add(v, w)[k] = (v[k] + w[k]) % 256 /\ Sub(v, w)[k] = (v[k] - w[k]) % 256
         /\ Eq(v, w)[k] = Test(v[k] = w[k]) /\ GtU(v, w)[k] = Test(v[k] > w[k])
BY DEF And, Or, Add, Sub, Eq, GtU

\* A constant broadcast to all lanes.
LEMMA SplatLane ==
  ASSUME NEW b \in Byte, NEW k \in Lane
  PROVE  Splat(b)[k] = b
<1>1. b % 256 = b
  BY DEF Byte
<1>2. QED  BY <1>1 DEF Splat

\* The bounds of the letters' and digits' ranges, which compare as signed.
Ascii == 0..127

\* What a test of a range contributes to a lane.
Within(x, low, high, b) == IF x \in low..high THEN b ELSE 0

\* A signed range test anded with a constant: the constant in the range, and
\* nothing outside it or in a byte of 128 and more, which is negative.
LEMMA RangeLane ==
  ASSUME NEW v \in Bytes16, NEW low \in Ascii, NEW high \in Ascii, NEW b \in Byte, NEW k \in Lane
  PROVE  And(InRange(v, low, high), Splat(b))[k] = Within(v[k], low, high, b)
<1>1. low \in Byte /\ high \in Byte /\ v[k] \in Byte
  BY DEF Byte, Bytes16, Ascii
<1>2. /\ GeS(v, Splat(low))[k] = Test(AsSigned(v[k]) >= AsSigned(low))
      /\ LeS(v, Splat(high))[k] = Test(AsSigned(v[k]) <= AsSigned(high))
  BY <1>1, SplatLane DEF GeS, LeS
<1>3. AsSigned(low) = low /\ AsSigned(high) = high
  BY DEF AsSigned, Ascii
<1> DEFINE ge == AsSigned(v[k]) >= low
           le == AsSigned(v[k]) <= high
<1>4. (ge /\ le) <=> v[k] \in low..high
  BY <1>1 DEF AsSigned, Byte, Ascii
<1> HIDE DEF ge, le
<1>5. InRange(v, low, high)[k] = ByteAnd(Test(ge), Test(le))
  BY <1>2, <1>3, AndLane DEF InRange, ge, le
<1>6. ByteAnd(Test(ge), Test(le)) = IF ge /\ le THEN 255 ELSE 0
  <2>1. 255 \in Byte /\ 0 \in Byte
    BY DEF Byte
  <2>2. QED  BY <2>1, ByteMasks DEF Test
<1>7. And(InRange(v, low, high), Splat(b))[k] = ByteAnd(IF ge /\ le THEN 255 ELSE 0, b)
  BY <1>5, <1>6, AndLane, SplatLane
<1>8. QED  BY <1>4, <1>7, ByteMasks DEF Within

\* An equality or an unsigned comparison anded with a constant.
LEMMA TestLane ==
  ASSUME NEW v \in Bytes16, NEW c \in Byte, NEW b \in Byte, NEW k \in Lane
  PROVE  /\ And(Eq(v, Splat(c)), Splat(b))[k] = IF v[k] = c THEN b ELSE 0
         /\ And(GtU(v, Splat(c)), Splat(b))[k] = IF v[k] > c THEN b ELSE 0
<1>1. /\ And(Eq(v, Splat(c)), Splat(b))[k] = ByteAnd(Test(v[k] = c), b)
      /\ And(GtU(v, Splat(c)), Splat(b))[k] = ByteAnd(Test(v[k] > c), b)
  BY AndLane, SplatLane
<1>2. QED  BY <1>1, ByteMasks DEF Test

\* toupper is the upper case of every byte, those above 127 included.
LEMMA UpperExact ==
  ASSUME NEW bytes \in Bytes16, NEW k \in Lane
  PROVE  toupper(bytes)[k] = ToUpper(bytes[k])
<1>1. And(InRange(bytes, 97, 122), Splat(32))[k] = Within(bytes[k], 97, 122, 32)
  <2>1. 97 \in Ascii /\ 122 \in Ascii /\ 32 \in Byte
    BY DEF Byte, Ascii
  <2>2. QED  BY <2>1, RangeLane
<1>2. toupper(bytes)[k] = (bytes[k] - Within(bytes[k], 97, 122, 32)) % 256
  BY <1>1, AndLane DEF toupper
<1>3. bytes[k] \in 0..255
  BY DEF Bytes16, Byte
<1>4. QED  BY <1>2, <1>3 DEF ToUpper, Within

-----------------------------------------------------------------------------
(* Hexadecimal. *)

\* hex_encode's two shuffles take the high and the low digits in turns.
LEMMA HexShuffles ==
  ASSUME NEW k \in Lane
  PROVE  /\ shuffleLo[k + 1] = IF k % 2 = 0 THEN k \div 2 ELSE 16 + (k \div 2)
         /\ shuffleHi[k + 1] = IF k % 2 = 0 THEN 8 + (k \div 2) ELSE 24 + (k \div 2)
<1>1. k \in {0, 1, 2, 3, 4, 5, 6, 7, 8, 9, 10, 11, 12, 13, 14, 15}
  BY DEF Lane
<1>2. shuffleLo[k + 1] = IF k % 2 = 0 THEN k \div 2 ELSE 16 + (k \div 2)
  BY <1>1 DEF shuffleLo
<1>3. shuffleHi[k + 1] = IF k % 2 = 0 THEN 8 + (k \div 2) ELSE 24 + (k \div 2)
  BY <1>1 DEF shuffleHi
<1>4. QED  BY <1>2, <1>3

\* hex_decode's two shuffles take the even and the odd digits.
LEMMA PackShuffles ==
  ASSUME NEW k \in 0..7
  PROVE  shufHi[k + 1] = 2 * k /\ shufLo[k + 1] = 2 * k + 1
<1>1. k \in {0, 1, 2, 3, 4, 5, 6, 7}
  OBVIOUS
<1>2. shufHi[k + 1] = 2 * k
  BY <1>1 DEF shufHi
<1>3. shufLo[k + 1] = 2 * k + 1
  BY <1>1 DEF shufLo
<1>4. QED  BY <1>2, <1>3

\* The table of digits that hex_encode swizzles by.
LEMMA DigitLane ==
  ASSUME NEW n \in Lane
  PROVE  Digits[n] = HexChar(n)
BY DEF Digits, HexChar

\* Nibble k of a vector, the high one of each byte first.
HexDigitOf(bytes, k) == IF k % 2 = 0 THEN bytes[k \div 2] \div 16 ELSE bytes[k \div 2] % 16

\* hex_encode makes of sixteen bytes their thirty-two digits.
LEMMA HexExact ==
  ASSUME NEW bytes \in Bytes16, NEW k \in 0..31
  PROVE  hex_encode(bytes)[k] = HexChar(HexDigitOf(bytes, k))
<1> DEFINE hiCh == Swizzle(Digits, And(ShrU(bytes, 4), Splat(15)))
           loCh == Swizzle(Digits, And(bytes, Splat(15)))
           out0 == Shuffle(hiCh, loCh, shuffleLo)
           out1 == Shuffle(hiCh, loCh, shuffleHi)
<1>1. ASSUME NEW n \in Lane
      PROVE  hiCh[n] = HexChar(bytes[n] \div 16) /\ loCh[n] = HexChar(bytes[n] % 16)
  <2>1. bytes[n] \in Byte /\ 15 \in Byte
    BY DEF Bytes16, Byte
  <2>2. bytes[n] \div 16 \in Lane /\ bytes[n] % 16 \in Lane /\ bytes[n] \div 16 \in Byte
        /\ (bytes[n] \div 16) % 16 = bytes[n] \div 16
    BY <2>1 DEF Lane, Byte
  <2>3. ShrU(bytes, 4)[n] = bytes[n] \div 16
    <3>1. 2^4 = 16
      OBVIOUS
    <3>2. QED  BY <3>1 DEF ShrU
  <2>4. And(ShrU(bytes, 4), Splat(15))[n] = bytes[n] \div 16
    BY <2>1, <2>2, <2>3, AndLane, SplatLane, ByteMasks
  <2>5. And(bytes, Splat(15))[n] = bytes[n] % 16
    BY <2>1, AndLane, SplatLane, ByteMasks
  <2>6. \A x \in Lane : x < 16
    BY DEF Lane
  <2>7. hiCh[n] = Digits[bytes[n] \div 16] /\ loCh[n] = Digits[bytes[n] % 16]
    BY <2>2, <2>4, <2>5, <2>6 DEF Swizzle
  <2>8. QED  BY <2>2, <2>7, DigitLane
<1>2. hex_encode(bytes) = [j \in 0..31 |-> IF j < 16 THEN out0[j] ELSE out1[j - 16]]
  BY DEF hex_encode
<1> HIDE DEF hiCh, loCh
<1>3. ASSUME NEW j \in Lane
      PROVE  /\ out0[j] = IF j % 2 = 0 THEN hiCh[j \div 2] ELSE loCh[j \div 2]
             /\ out1[j] = IF j % 2 = 0 THEN hiCh[8 + (j \div 2)] ELSE loCh[8 + (j \div 2)]
  <2>1. j \in 0..15 /\ j \div 2 \in 0..7
    BY DEF Lane
  <2>2. /\ shuffleLo[j + 1] = IF j % 2 = 0 THEN j \div 2 ELSE 16 + (j \div 2)
        /\ shuffleHi[j + 1] = IF j % 2 = 0 THEN 8 + (j \div 2) ELSE 24 + (j \div 2)
    BY HexShuffles
  <2>3. out0[j] = IF j % 2 = 0 THEN hiCh[j \div 2] ELSE loCh[j \div 2]
    <3>1. out0[j] = IF shuffleLo[j + 1] < 16 THEN hiCh[shuffleLo[j + 1]] ELSE loCh[shuffleLo[j + 1] - 16]
      BY DEF Shuffle
    <3>2. CASE j % 2 = 0
      BY <2>1, <2>2, <3>1, <3>2
    <3>3. CASE j % 2 # 0
      <4>1. ~(16 + (j \div 2) < 16) /\ (16 + (j \div 2)) - 16 = j \div 2
        BY <2>1
      <4>2. QED  BY <2>2, <3>1, <3>3, <4>1
    <3>4. QED  BY <3>2, <3>3
  <2>4. out1[j] = IF j % 2 = 0 THEN hiCh[8 + (j \div 2)] ELSE loCh[8 + (j \div 2)]
    <3>1. out1[j] = IF shuffleHi[j + 1] < 16 THEN hiCh[shuffleHi[j + 1]] ELSE loCh[shuffleHi[j + 1] - 16]
      BY DEF Shuffle
    <3>2. CASE j % 2 = 0
      BY <2>1, <2>2, <3>1, <3>2
    <3>3. CASE j % 2 # 0
      <4>1. ~(24 + (j \div 2) < 16) /\ (24 + (j \div 2)) - 16 = 8 + (j \div 2)
        BY <2>1
      <4>2. QED  BY <2>2, <3>1, <3>3, <4>1
    <3>4. QED  BY <3>2, <3>3
  <2>5. QED  BY <2>3, <2>4
<1> HIDE DEF out0, out1
<1>4. CASE k < 16
  <2>1. k \in Lane /\ k \div 2 \in Lane
    BY <1>4 DEF Lane
  <2>2. hex_encode(bytes)[k] = out0[k]
    BY <1>2, <1>4
  <2>3. QED  BY <1>1, <1>3, <2>1, <2>2 DEF HexDigitOf
<1>5. CASE ~(k < 16)
  <2>1. /\ k - 16 \in Lane /\ k \div 2 \in Lane /\ (k - 16) % 2 = k % 2
        /\ 8 + ((k - 16) \div 2) = k \div 2
    BY <1>5 DEF Lane
  <2>2. hex_encode(bytes)[k] = out1[k - 16]
    BY <1>2, <1>5
  <2>3. out1[k - 16] = IF k % 2 = 0 THEN hiCh[k \div 2] ELSE loCh[k \div 2]
    BY <1>3, <2>1
  <2>4. QED  BY <1>1, <2>1, <2>2, <2>3 DEF HexDigitOf
<1>6. QED  BY <1>4, <1>5

\* The digit c, in either case, stands for n.
Stands(c, n) == c = HexChar(n) \/ c = ToUpper(HexChar(n))

\* The digits a decoder takes.
HexDigits == {c \in Byte : \E n \in 0..15 : Stands(c, n)}

\* A digit stands for one value, which its range gives by a subtraction.
LEMMA HexValues ==
  ASSUME NEW c, NEW n \in 0..15, Stands(c, n)
  PROVE  /\ HexValue(c) = n
         /\ c \in 48..57 => n = c - 48
         /\ c \in 65..70 => n = c - 55
         /\ c \in 97..102 => n = c - 87
         /\ c \in 48..57 \/ c \in 65..70 \/ c \in 97..102
<1>1. ASSUME NEW m \in 0..15, Stands(c, m)
      PROVE  \/ c \in 48..57 /\ m = c - 48
             \/ c \in 65..70 /\ m = c - 55
             \/ c \in 97..102 /\ m = c - 87
  BY <1>1 DEF Stands, HexChar, ToUpper
<1>2. \A m \in 0..15 : Stands(c, m) => m = n
  BY <1>1
<1>3. HexValue(c) = CHOOSE m \in 0..15 : Stands(c, m)
  BY DEF HexValue, Stands
<1>4. HexValue(c) = n
  BY <1>2, <1>3
<1>5. QED  BY <1>1, <1>4

\* The three ranges' constants or'ed: at most one is not zero, and it takes a
\* digit to its value (hex_decode/main.go).
LEMMA Nibble ==
  ASSUME NEW chars \in Bytes16, NEW k \in Lane, NEW n \in 0..15, Stands(chars[k], n)
  PROVE  Sub(chars, Or(Or(And(InRange(chars, 48, 57), Splat(48)),
                          And(InRange(chars, 65, 70), Splat(55))),
                       And(InRange(chars, 97, 102), Splat(87))))[k] = n
<1> DEFINE d == And(InRange(chars, 48, 57), Splat(48))
           u == And(InRange(chars, 65, 70), Splat(55))
           l == And(InRange(chars, 97, 102), Splat(87))
           c == chars[k]
<1>1. /\ {48, 57, 65, 70, 97, 102} \subseteq Ascii
      /\ {0, 48, 55, 87} \subseteq Byte
  BY DEF Ascii, Byte
<1>2. /\ d[k] = Within(c, 48, 57, 48) /\ u[k] = Within(c, 65, 70, 55) /\ l[k] = Within(c, 97, 102, 87)
  BY <1>1, RangeLane
<1>3. c \in 0..255
  BY DEF Bytes16, Byte
<1> HIDE DEF d, u, l
<1>4. Sub(chars, Or(Or(d, u), l))[k] = (c - ByteOr(ByteOr(d[k], u[k]), l[k])) % 256
  BY AndLane
<1>5. /\ ByteOr(48, 0) = 48 /\ ByteOr(0, 55) = 55 /\ ByteOr(55, 0) = 55
      /\ ByteOr(0, 0) = 0 /\ ByteOr(0, 87) = 87
  BY <1>1, OrZero
<1>6. CASE c \in 48..57
  <2>1. d[k] = 48 /\ u[k] = 0 /\ l[k] = 0
    BY <1>2, <1>6 DEF Within
  <2>2. ByteOr(ByteOr(d[k], u[k]), l[k]) = 48
    BY <1>5, <2>1
  <2>3. n = c - 48
    BY <1>6, HexValues
  <2>4. QED  BY <1>4, <1>6, <2>2, <2>3 DEF d, u, l
<1>7. CASE c \in 65..70
  <2>1. d[k] = 0 /\ u[k] = 55 /\ l[k] = 0
    BY <1>2, <1>7 DEF Within
  <2>2. ByteOr(ByteOr(d[k], u[k]), l[k]) = 55
    BY <1>5, <2>1
  <2>3. n = c - 55
    BY <1>7, HexValues
  <2>4. QED  BY <1>4, <1>7, <2>2, <2>3 DEF d, u, l
<1>8. CASE c \in 97..102
  <2>1. d[k] = 0 /\ u[k] = 0 /\ l[k] = 87
    BY <1>2, <1>8 DEF Within
  <2>2. ByteOr(ByteOr(d[k], u[k]), l[k]) = 87
    BY <1>5, <2>1
  <2>3. n = c - 87
    BY <1>8, HexValues
  <2>4. QED  BY <1>4, <1>8, <2>2, <2>3 DEF d, u, l
<1>9. QED  BY <1>6, <1>7, <1>8, HexValues

\* Two vectors of nibbles packed into bytes.
LEMMA PackExact ==
  ASSUME NEW nib \in Bytes16, NEW k \in 0..7, nib[2 * k] < 16, nib[2 * k + 1] < 16
  PROVE  PackNibbles(nib)[k] = 16 * nib[2 * k] + nib[2 * k + 1]
<1>1. k \in Lane /\ 2 * k \in Lane /\ 2 * k + 1 \in Lane /\ 2 * k < 16 /\ 2 * k + 1 < 16
  BY DEF Lane
<1> DEFINE a == Shuffle(nib, nib, shufHi)
           b == Shuffle(nib, nib, shufLo)
           h == nib[2 * k]
           l == nib[2 * k + 1]
<1>2. a[k] = h /\ b[k] = l
  BY <1>1, PackShuffles DEF Shuffle
<1>3. PackNibbles(nib)[k] = Or(Shl(a, 4), b)[k]
  BY DEF PackNibbles
<1>4. h \in 0..255 /\ l \in 0..255
  BY <1>1 DEF Bytes16, Byte
<1> HIDE DEF a, b, h, l
<1>5. Shl(a, 4)[k] = 16 * h
  <2>1. 2^4 = 16
    OBVIOUS
  <2>2. Shl(a, 4)[k] = (h * 16) % 256
    BY <1>1, <1>2, <2>1 DEF Shl
  <2>3. h < 16
    BY DEF h
  <2>4. QED  BY <1>4, <2>2, <2>3
<1>6. Or(Shl(a, 4), b)[k] = ByteOr(16 * h, l)
  BY <1>1, <1>2, <1>5, AndLane
<1> DEFINE x == 16 * h
<1>7. x \in Byte /\ l \in Byte /\ x % 16 = 0 /\ l < 16
  <2>1. h < 16 /\ l < 16
    BY DEF h, l
  <2>2. QED  BY <1>4, <2>1 DEF Byte
<1> HIDE DEF x
<1>8. ByteOr(x, l) = x + l
  BY <1>7, OrApart
<1>9. QED  BY <1>3, <1>6, <1>8 DEF x, h, l

\* hex_decode makes of sixteen digits, of either case, the eight bytes they
\* stand for.
LEMMA UnhexExact ==
  ASSUME NEW chars \in Bytes16, \A j \in Lane : chars[j] \in HexDigits, NEW k \in 0..7
  PROVE  hex_decode(chars)[k] = 16 * HexValue(chars[2 * k]) + HexValue(chars[2 * k + 1])
<1> DEFINE nib == Sub(chars, Or(Or(And(InRange(chars, 48, 57), Splat(48)),
                                   And(InRange(chars, 65, 70), Splat(55))),
                                And(InRange(chars, 97, 102), Splat(87))))
<1>1. nib \in Bytes16
  <2> DEFINE d == And(InRange(chars, 48, 57), Splat(48))
             u == And(InRange(chars, 65, 70), Splat(55))
             l == And(InRange(chars, 97, 102), Splat(87))
  <2>1. d \in Bytes16 /\ u \in Bytes16 /\ l \in Bytes16
    BY Ranges, Splats, LaneOps
  <2> HIDE DEF d, u, l
  <2>2. Or(d, u) \in Bytes16
    BY <2>1, LaneOps
  <2>3. Or(Or(d, u), l) \in Bytes16
    BY <2>1, <2>2, LaneOps
  <2>4. Sub(chars, Or(Or(d, u), l)) \in Bytes16
    BY <2>3, LaneOps
  <2>5. QED  BY <2>4 DEF d, u, l
<1>2. ASSUME NEW j \in Lane PROVE nib[j] = HexValue(chars[j]) /\ nib[j] < 16
  <2>1. PICK n \in 0..15 : Stands(chars[j], n)
    BY DEF HexDigits
  <2>2. nib[j] = n
    BY <2>1, Nibble
  <2>3. HexValue(chars[j]) = n
    BY <2>1, HexValues
  <2>4. QED  BY <2>2, <2>3
<1>3. hex_decode(chars) = PackNibbles(nib)
  BY DEF hex_decode
<1> HIDE DEF nib
<1>4. 2 * k \in Lane /\ 2 * k + 1 \in Lane
  BY DEF Lane
<1>5. QED  BY <1>1, <1>2, <1>3, <1>4, PackExact

-----------------------------------------------------------------------------
(* base64: three bytes and their four indexes. *)

\* The q-th index of three bytes.
Sextet(b0, b1, b2, q) ==
  CASE q = 0 -> b0 \div 4
    [] q = 1 -> 16 * (b0 % 4) + (b1 \div 16)
    [] q = 2 -> 4 * (b1 % 16) + (b2 \div 64)
    [] q = 3 -> b2 % 64

\* The same, of the three bytes as a number of twenty-four bits.
SextetBits(b0, b1, b2, q) == ((65536 * b0 + 256 * b1 + b2) \div 64^(3 - q)) % 64

\* The index by divisions of each byte is the index by a division of the whole.
LEMMA SextetsAre ==
  ASSUME NEW b0 \in Byte, NEW b1 \in Byte, NEW b2 \in Byte, NEW q \in 0..3
  PROVE  /\ SextetBits(b0, b1, b2, q) = Sextet(b0, b1, b2, q)
         /\ Sextet(b0, b1, b2, q) \in 0..63
<1> SUFFICES /\ ((65536 * b0 + 256 * b1 + b2) \div 64^(3 - q)) % 64 = Sextet(b0, b1, b2, q)
             /\ Sextet(b0, b1, b2, q) \in 0..63
  BY SMT DEF SextetBits
<1>1. b0 \in 0..255 /\ b1 \in 0..255 /\ b2 \in 0..255
  BY DEF Byte
<1> DEFINE bits == 65536 * b0 + 256 * b1 + b2
<1>2. CASE q = 0
  <2>1. 64^(3 - q) = 262144
    <3>1. 3 - q = 3
      BY <1>2
    <3>2. 64^(3 - q) = 64^3
      BY <3>1, Zenon
    <3>3. 64^3 = 262144
      BY SMT
    <3>4. QED  BY <3>2, <3>3, SMT
  <2>2. (bits \div 262144) % 64 = b0 \div 4 /\ b0 \div 4 \in 0..63
    BY <1>1
  <2>3. QED  BY <1>2, <2>1, <2>2 DEF Sextet
<1>3. CASE q = 1
  <2>1. 64^(3 - q) = 4096
    <3>1. 3 - q = 2
      BY <1>3
    <3>2. 64^(3 - q) = 64^2
      BY <3>1, Zenon
    <3>3. 64^2 = 4096
      BY SMT
    <3>4. QED  BY <3>2, <3>3, SMT
  <2>2. (bits \div 4096) % 64 = 16 * (b0 % 4) + (b1 \div 16) /\ 16 * (b0 % 4) + (b1 \div 16) \in 0..63
    <3> DEFINE x == b0 \div 4  y == b0 % 4  u == b1 \div 16  z == b1 % 16
               m == 64 * x + 16 * y + u
               r == 256 * z + b2
    <3>1. /\ x \in 0..63 /\ y \in 0..3 /\ u \in 0..15 /\ z \in 0..15
          /\ b0 = 4 * x + y /\ b1 = 16 * u + z
      BY <1>1, SMT
    <3> HIDE DEF x, y, u, z
    <3>2. bits = 4096 * m + r /\ r \in 0..4095 /\ m \in Nat
      BY <1>1, <3>1, SMT
    <3>3. m % 64 = 16 * y + u /\ 16 * y + u \in 0..63
      BY <3>1, SMT
    <3> HIDE DEF m, r, bits
    <3>4. bits \div 4096 = m
      BY <3>2, SMT
    <3>5. y = b0 % 4 /\ u = b1 \div 16
      BY DEF y, u
    <3>6. QED  BY <3>3, <3>4, <3>5, SMT
  <2>3. QED  BY <1>3, <2>1, <2>2 DEF Sextet
<1>4. CASE q = 2
  <2>1. 64^(3 - q) = 64
    <3>1. 3 - q = 1
      BY <1>4
    <3>2. 64^(3 - q) = 64^1
      BY <3>1, Zenon
    <3>3. 64^1 = 64
      BY SMT
    <3>4. QED  BY <3>2, <3>3, SMT
  <2>2. (bits \div 64) % 64 = 4 * (b1 % 16) + (b2 \div 64) /\ 4 * (b1 % 16) + (b2 \div 64) \in 0..63
    BY <1>1
  <2>3. QED  BY <1>4, <2>1, <2>2 DEF Sextet
<1>5. CASE q = 3
  <2>1. 64^(3 - q) = 1
    <3>1. 3 - q = 0
      BY <1>5
    <3>2. 64^(3 - q) = 64^0
      BY <3>1, Zenon
    <3>3. 64^0 = 1
      BY SMT
    <3>4. QED  BY <3>2, <3>3, SMT
  <2>2. (bits \div 1) % 64 = b2 % 64 /\ b2 % 64 \in 0..63
    BY <1>1
  <2>3. QED  BY <1>5, <2>1, <2>2 DEF Sextet
<1>6. QED  BY <1>2, <1>3, <1>4, <1>5

\* base64_encode's shuffle repeats the middle byte of each three.
LEMMA Triplets ==
  ASSUME NEW bytes, NEW g \in 0..3
  PROVE  LET t == Shuffle(bytes, bytes, shuf)
         IN /\ t[4 * g] = bytes[3 * g + 1] /\ t[4 * g + 1] = bytes[3 * g]
            /\ t[4 * g + 2] = bytes[3 * g + 2] /\ t[4 * g + 3] = bytes[3 * g + 1]
<1> DEFINE t == Shuffle(bytes, bytes, shuf)
<1>1. g \in {0, 1, 2, 3}
  OBVIOUS
<1>2. /\ shuf[4 * g + 1] = 3 * g + 1 /\ shuf[4 * g + 2] = 3 * g
      /\ shuf[4 * g + 3] = 3 * g + 2 /\ shuf[4 * g + 4] = 3 * g + 1
  BY <1>1 DEF shuf
<1>3. ASSUME NEW n \in Lane, NEW m \in 0..15, shuf[n + 1] = m
      PROVE  t[n] = bytes[m]
  BY <1>3 DEF Shuffle
<1> HIDE DEF t
<1>4. t[4 * g] = bytes[3 * g + 1]
  <2>1. 4 * g \in Lane /\ 3 * g + 1 \in 0..15
    BY DEF Lane
  <2>2. QED  BY <1>2, <1>3, <2>1
<1>5. t[4 * g + 1] = bytes[3 * g]
  <2>1. 4 * g + 1 \in Lane /\ 3 * g \in 0..15 /\ (4 * g + 1) + 1 = 4 * g + 2
    BY DEF Lane
  <2>2. QED  BY <1>2, <1>3, <2>1
<1>6. t[4 * g + 2] = bytes[3 * g + 2]
  <2>1. 4 * g + 2 \in Lane /\ 3 * g + 2 \in 0..15 /\ (4 * g + 2) + 1 = 4 * g + 3
    BY DEF Lane
  <2>2. QED  BY <1>2, <1>3, <2>1
<1>7. t[4 * g + 3] = bytes[3 * g + 1]
  <2>1. 4 * g + 3 \in Lane /\ 3 * g + 1 \in 0..15 /\ (4 * g + 3) + 1 = 4 * g + 4
    BY DEF Lane
  <2>2. QED  BY <1>2, <1>3, <2>1
<1>8. QED  BY <1>4, <1>5, <1>6, <1>7 DEF t

\* The lanes of the halfwords.
LEMMA HalvesLane ==
  ASSUME NEW h, NEW k \in 0..7
  PROVE  /\ FromHalves(h)[2 * k] = h[k] % 256 /\ FromHalves(h)[2 * k + 1] = h[k] \div 256
         /\ 2 * k \in Lane /\ 2 * k + 1 \in Lane
<1>1. /\ 2 * k \in Lane /\ (2 * k) % 2 = 0 /\ (2 * k) \div 2 = k
      /\ 2 * k + 1 \in Lane /\ (2 * k + 1) % 2 = 1 /\ (2 * k + 1) \div 2 = k
  BY DEF Lane
<1>2. QED  BY <1>1 DEF FromHalves

\* The upper halves of the products that i32x4.extmul makes, shifted and
\* narrowed: the narrowing saturates nothing (base64_encode).
LEMMA HighHalf ==
  ASSUME NEW v \in Bytes16, NEW w \in Bytes16, NEW k \in 0..7, NEW p,
         p = (Half(v, k) * Half(w, k)) \div 65536, p \in Byte
  PROVE  LET hi == I16x8Narrow(I32x4ShrU(I32x4Extmul(v, w, 0), 16), I32x4ShrU(I32x4Extmul(v, w, 4), 16))
         IN hi[2 * k] = p /\ hi[2 * k + 1] = 0
<1> DEFINE a == I32x4ShrU(I32x4Extmul(v, w, 0), 16)
           b == I32x4ShrU(I32x4Extmul(v, w, 4), 16)
           h == [j \in 0..7 |-> LET x == IF j < 4 THEN a[j] ELSE b[j - 4]
                                IN IF x > 65535 THEN 65535 ELSE x]
<1>1. I16x8Narrow(a, b) = FromHalves(h)
  BY DEF I16x8Narrow
<1>2. 2^16 = 65536
  OBVIOUS
<1>3. h[k] = p
  <2>1. CASE k < 4
    <3>1. k \in 0..3 /\ 0 + k = k
      BY <2>1
    <3>2. a[k] = p
      BY <1>2, <3>1 DEF I32x4ShrU, I32x4Extmul
    <3>3. QED  BY <2>1, <3>2 DEF Byte
  <2>2. CASE ~(k < 4)
    <3>1. k - 4 \in 0..3 /\ 4 + (k - 4) = k
      BY <2>2
    <3>2. b[k - 4] = p
      BY <1>2, <3>1 DEF I32x4ShrU, I32x4Extmul
    <3>3. QED  BY <2>2, <3>2 DEF Byte
  <2>3. QED  BY <2>1, <2>2
<1> HIDE DEF a, b, h
<1>4. p % 256 = p /\ p \div 256 = 0
  BY DEF Byte
<1>5. I16x8Narrow(a, b)[2 * k] = p /\ I16x8Narrow(a, b)[2 * k + 1] = 0
  BY <1>1, <1>3, <1>4, HalvesLane
<1>6. QED  BY <1>5 DEF a, b

\* The lower halves of the products that i16x8.mul makes.
LEMMA LowHalf ==
  ASSUME NEW v, NEW w, NEW k \in 0..7, NEW p,
         256 * p = (Half(v, k) * Half(w, k)) % 65536, p \in Byte
  PROVE  I16x8Mul(v, w)[2 * k] = 0 /\ I16x8Mul(v, w)[2 * k + 1] = p
<1> DEFINE h == [j \in 0..7 |-> (Half(v, j) * Half(w, j)) % 65536]
<1>1. I16x8Mul(v, w) = FromHalves(h)
  BY DEF I16x8Mul
<1>2. h[k] = 256 * p
  OBVIOUS
<1> HIDE DEF h
<1>3. (256 * p) % 256 = 0 /\ (256 * p) \div 256 = p
  BY DEF Byte
<1>4. QED  BY <1>1, <1>2, <1>3, HalvesLane

\* A mask of four bytes, repeated, on the triplets; and the halfwords of it.
LEMMA MaskedTriplets ==
  ASSUME NEW bytes \in Bytes16, NEW g \in 0..3, NEW b,
         NEW m0 \in Byte, NEW m1 \in Byte, NEW m2 \in Byte, NEW m3 \in Byte,
         b = <<m0, m1, m2, m3>>
  PROVE  LET v == And(Shuffle(bytes, bytes, shuf), repU32(b))
         IN /\ Half(v, 2 * g) = ByteAnd(bytes[3 * g + 1], m0) + 256 * ByteAnd(bytes[3 * g], m1)
            /\ Half(v, 2 * g + 1) = ByteAnd(bytes[3 * g + 2], m2) + 256 * ByteAnd(bytes[3 * g + 1], m3)
<1> DEFINE t == Shuffle(bytes, bytes, shuf)
           v == And(t, repU32(b))
<1>1. /\ t[4 * g] = bytes[3 * g + 1] /\ t[4 * g + 1] = bytes[3 * g]
      /\ t[4 * g + 2] = bytes[3 * g + 2] /\ t[4 * g + 3] = bytes[3 * g + 1]
  BY Triplets
<1> HIDE DEF t
<1>2. b[1] = m0 /\ b[2] = m1 /\ b[3] = m2 /\ b[4] = m3
  OBVIOUS
<1>3. /\ v[4 * g] = ByteAnd(bytes[3 * g + 1], m0)
      /\ v[4 * g + 1] = ByteAnd(bytes[3 * g], m1)
      /\ v[4 * g + 2] = ByteAnd(bytes[3 * g + 2], m2)
      /\ v[4 * g + 3] = ByteAnd(bytes[3 * g + 1], m3)
  <2>1. /\ repU32(b)[4 * g] = b[1] /\ repU32(b)[4 * g + 1] = b[2]
        /\ repU32(b)[4 * g + 2] = b[3] /\ repU32(b)[4 * g + 3] = b[4]
    <3>1. /\ 4 * g \in Lane /\ 4 * g + 1 \in Lane /\ 4 * g + 2 \in Lane /\ 4 * g + 3 \in Lane
          /\ (4 * g) % 4 = 0 /\ (4 * g + 1) % 4 = 1 /\ (4 * g + 2) % 4 = 2 /\ (4 * g + 3) % 4 = 3
      BY DEF Lane
    <3>2. QED  BY <3>1 DEF repU32
  <2>2. 4 * g \in Lane /\ 4 * g + 1 \in Lane /\ 4 * g + 2 \in Lane /\ 4 * g + 3 \in Lane
    BY DEF Lane
  <2>3. QED  BY <1>1, <1>2, <2>1, <2>2, AndLane
<1> HIDE DEF v
<1>4. 2 * (2 * g) = 4 * g /\ 2 * (2 * g + 1) = 4 * g + 2 /\ (4 * g + 2) + 1 = 4 * g + 3
  OBVIOUS
<1>5. /\ Half(v, 2 * g) = v[4 * g] + 256 * v[4 * g + 1]
      /\ Half(v, 2 * g + 1) = v[4 * g + 2] + 256 * v[4 * g + 3]
  BY <1>4 DEF Half
<1>6. QED  BY <1>3, <1>5 DEF v, t

\* The halfwords of a vector that repeats four bytes.
LEMMA RepeatHalves ==
  ASSUME NEW g \in 0..3, NEW b, NEW m0 \in Byte, NEW m1 \in Byte, NEW m2 \in Byte, NEW m3 \in Byte,
         b = <<m0, m1, m2, m3>>
  PROVE  Half(repU32(b), 2 * g) = m0 + 256 * m1 /\ Half(repU32(b), 2 * g + 1) = m2 + 256 * m3
<1>1. /\ 4 * g \in Lane /\ 4 * g + 1 \in Lane /\ 4 * g + 2 \in Lane /\ 4 * g + 3 \in Lane
      /\ (4 * g) % 4 = 0 /\ (4 * g + 1) % 4 = 1 /\ (4 * g + 2) % 4 = 2 /\ (4 * g + 3) % 4 = 3
  BY DEF Lane
<1>2. /\ repU32(b)[4 * g] = m0 /\ repU32(b)[4 * g + 1] = m1
      /\ repU32(b)[4 * g + 2] = m2 /\ repU32(b)[4 * g + 3] = m3
  BY <1>1 DEF repU32
<1>3. 2 * (2 * g) = 4 * g /\ 2 * (2 * g + 1) = 4 * g + 2 /\ (4 * g + 2) + 1 = 4 * g + 3
  OBVIOUS
<1>4. /\ Half(repU32(b), 2 * g) = repU32(b)[4 * g] + 256 * repU32(b)[4 * g + 1]
      /\ Half(repU32(b), 2 * g + 1) = repU32(b)[4 * g + 2] + 256 * repU32(b)[4 * g + 3]
  BY <1>3 DEF Half
<1>5. QED  BY <1>2, <1>4

\* The products move the indexes to their bytes.
LEMMA SextetProducts ==
  ASSUME NEW b0 \in Byte, NEW b1 \in Byte, NEW b2 \in Byte
  PROVE  /\ ((0 + 256 * (b0 - (b0 % 4))) * (64 + 256 * 0)) \div 65536 = Sextet(b0, b1, b2, 0)
         /\ (((b1 - (b1 % 16)) + 256 * (b0 % 4)) * (16 + 256 * 0)) % 65536 = 256 * Sextet(b0, b1, b2, 1)
         /\ (((b2 - (b2 % 64)) + 256 * (b1 % 16)) * (0 + 256 * 4)) \div 65536 = Sextet(b0, b1, b2, 2)
         /\ (((b2 % 64) + 256 * 0) * (0 + 256 * 1)) % 65536 = 256 * Sextet(b0, b1, b2, 3)
<1> DEFINE x0 == b0 \div 4  y0 == b0 % 4  x1 == b1 \div 16  y1 == b1 % 16
           x2 == b2 \div 64  y2 == b2 % 64
<1>1. /\ x0 \in 0..63 /\ y0 \in 0..3 /\ b0 = 4 * x0 + y0
      /\ x1 \in 0..15 /\ y1 \in 0..15 /\ b1 = 16 * x1 + y1
      /\ x2 \in 0..3 /\ y2 \in 0..63 /\ b2 = 64 * x2 + y2
  BY SMT DEF Byte
<1>2. /\ Sextet(b0, b1, b2, 0) = x0 /\ Sextet(b0, b1, b2, 1) = 16 * y0 + x1
      /\ Sextet(b0, b1, b2, 2) = 4 * y1 + x2 /\ Sextet(b0, b1, b2, 3) = y2
  BY SMT DEF Sextet
<1>3. b0 % 4 = y0 /\ b1 % 16 = y1 /\ b2 % 64 = y2
  OBVIOUS
<1> HIDE DEF x0, y0, x1, y1, x2, y2
<1>4. /\ (0 + 256 * (b0 - y0)) * (64 + 256 * 0) = 65536 * x0
      /\ ((b1 - y1) + 256 * y0) * (16 + 256 * 0) = 256 * (16 * y0 + x1)
      /\ ((b2 - y2) + 256 * y1) * (0 + 256 * 4) = 65536 * (4 * y1 + x2)
      /\ (y2 + 256 * 0) * (0 + 256 * 1) = 256 * y2
  BY <1>1, SMT
<1>5. /\ (65536 * x0) \div 65536 = x0
      /\ (256 * (16 * y0 + x1)) % 65536 = 256 * (16 * y0 + x1)
      /\ (65536 * (4 * y1 + x2)) \div 65536 = 4 * y1 + x2
      /\ (256 * y2) % 65536 = 256 * y2
  BY <1>1, SMT
<1>6. QED  BY <1>2, <1>3, <1>4, <1>5, SMT

\* The masks, products and narrowings of base64_encode amount to the four
\* indexes of each three bytes.
LEMMA IndexLane ==
  ASSUME NEW bytes \in Bytes16, NEW g \in 0..3, NEW q \in 0..3
  PROVE  Indexes(bytes)[4 * g + q] = Sextet(bytes[3 * g], bytes[3 * g + 1], bytes[3 * g + 2], q)
<1> DEFINE masked == And(Shuffle(bytes, bytes, shuf), repU32(<<0, 252, 192, 15>>))
           mulhi == repU32(<<64, 0, 0, 4>>)
           masklo == And(Shuffle(bytes, bytes, shuf), repU32(<<240, 3, 63, 0>>))
           mullo == repU32(<<16, 0, 0, 1>>)
           hi == I16x8Narrow(I32x4ShrU(I32x4Extmul(masked, mulhi, 0), 16),
                             I32x4ShrU(I32x4Extmul(masked, mulhi, 4), 16))
           lo == I16x8Mul(masklo, mullo)
           b0 == bytes[3 * g]
           b1 == bytes[3 * g + 1]
           b2 == bytes[3 * g + 2]
           s(n) == Sextet(b0, b1, b2, n)
<1>1. Indexes(bytes) = Or(hi, lo)
  BY DEF Indexes
<1>2. /\ 0 \in Byte /\ 252 \in Byte /\ 192 \in Byte /\ 15 \in Byte /\ 64 \in Byte /\ 4 \in Byte
      /\ 240 \in Byte /\ 3 \in Byte /\ 63 \in Byte /\ 16 \in Byte /\ 1 \in Byte
  BY DEF Byte
<1>3. b0 \in Byte /\ b1 \in Byte /\ b2 \in Byte
  <2>1. 3 * g \in Lane /\ 3 * g + 1 \in Lane /\ 3 * g + 2 \in Lane
    BY DEF Lane
  <2>2. QED  BY <2>1 DEF Bytes16
<1>4. masked \in Bytes16 /\ mulhi \in Bytes16
  <2>1. <<0, 252, 192, 15>> \in [1..4 -> Byte] /\ <<64, 0, 0, 4>> \in [1..4 -> Byte]
    BY DEF Byte
  <2>2. mulhi \in Bytes16 /\ repU32(<<0, 252, 192, 15>>) \in Bytes16
    BY <2>1, Repeats
  <2>3. Shuffle(bytes, bytes, shuf) \in Bytes16
    BY Patterns, Shuffles
  <2>4. QED  BY <2>2, <2>3, LaneOps
<1>5. /\ Half(masked, 2 * g) = ByteAnd(b1, 0) + 256 * ByteAnd(b0, 252)
      /\ Half(masked, 2 * g + 1) = ByteAnd(b2, 192) + 256 * ByteAnd(b1, 15)
  BY <1>2, MaskedTriplets
<1>6. /\ Half(masklo, 2 * g) = ByteAnd(b1, 240) + 256 * ByteAnd(b0, 3)
      /\ Half(masklo, 2 * g + 1) = ByteAnd(b2, 63) + 256 * ByteAnd(b1, 0)
  BY <1>2, MaskedTriplets
<1>7. Half(mulhi, 2 * g) = 64 + 256 * 0 /\ Half(mulhi, 2 * g + 1) = 0 + 256 * 4
  BY <1>2, RepeatHalves
<1>8. Half(mullo, 2 * g) = 16 + 256 * 0 /\ Half(mullo, 2 * g + 1) = 0 + 256 * 1
  BY <1>2, RepeatHalves
<1> HIDE DEF masked, mulhi, masklo, mullo, b0, b1, b2
<1>9. /\ (Half(masked, 2 * g) * Half(mulhi, 2 * g)) \div 65536 = s(0)
      /\ (Half(masked, 2 * g + 1) * Half(mulhi, 2 * g + 1)) \div 65536 = s(2)
  <2>1. /\ Half(masked, 2 * g) = 0 + 256 * (b0 - (b0 % 4))
        /\ Half(masked, 2 * g + 1) = (b2 - (b2 % 64)) + 256 * (b1 % 16)
    BY <1>3, <1>5, ByteMasks
  <2>2. QED  BY <1>3, <1>7, <2>1, SextetProducts, SMT
<1>10. /\ 256 * s(1) = (Half(masklo, 2 * g) * Half(mullo, 2 * g)) % 65536
       /\ 256 * s(3) = (Half(masklo, 2 * g + 1) * Half(mullo, 2 * g + 1)) % 65536
  <2>1. /\ Half(masklo, 2 * g) = (b1 - (b1 % 16)) + 256 * (b0 % 4)
        /\ Half(masklo, 2 * g + 1) = (b2 % 64) + 256 * 0
    BY <1>3, <1>6, ByteMasks
  <2>2. QED  BY <1>3, <1>8, <2>1, SextetProducts, SMT
<1>11. /\ s(0) \in Byte /\ s(1) \in Byte /\ s(2) \in Byte /\ s(3) \in Byte
  <2>1. \A n \in 0..3 : s(n) \in 0..63
    BY <1>3, SextetsAre
  <2>2. \A x \in 0..63 : x \in Byte
    BY DEF Byte
  <2>3. QED  BY <2>1, <2>2
<1> DEFINE k0 == 2 * g
           k1 == 2 * g + 1
           s0 == s(0)  s1 == s(1)  s2 == s(2)  s3 == s(3)
<1>12. k0 \in 0..7 /\ k1 \in 0..7
  OBVIOUS
<1>13. /\ s0 = (Half(masked, k0) * Half(mulhi, k0)) \div 65536
       /\ s2 = (Half(masked, k1) * Half(mulhi, k1)) \div 65536
       /\ 256 * s1 = (Half(masklo, k0) * Half(mullo, k0)) % 65536
       /\ 256 * s3 = (Half(masklo, k1) * Half(mullo, k1)) % 65536
       /\ s0 \in Byte /\ s1 \in Byte /\ s2 \in Byte /\ s3 \in Byte
  BY <1>9, <1>10, <1>11
<1>14. 2 * k0 = 4 * g /\ 2 * k0 + 1 = 4 * g + 1 /\ 2 * k1 = 4 * g + 2 /\ 2 * k1 + 1 = 4 * g + 3
  OBVIOUS
<1> HIDE DEF k0, k1, s0, s1, s2, s3
<1>15. hi[2 * k0] = s0 /\ hi[2 * k0 + 1] = 0
  BY <1>4, <1>12, <1>13, HighHalf, SMT
<1>16. hi[2 * k1] = s2 /\ hi[2 * k1 + 1] = 0
  BY <1>4, <1>12, <1>13, HighHalf, SMT
<1>17. lo[2 * k0] = 0 /\ lo[2 * k0 + 1] = s1
  BY <1>12, <1>13, LowHalf, SMT
<1>18. lo[2 * k1] = 0 /\ lo[2 * k1 + 1] = s3
  BY <1>12, <1>13, LowHalf, SMT
<1> HIDE DEF hi, lo
<1>19. /\ 4 * g \in Lane /\ 4 * g + 1 \in Lane /\ 4 * g + 2 \in Lane /\ 4 * g + 3 \in Lane
  BY DEF Lane
<1>20. /\ Or(hi, lo)[4 * g] = s0 /\ Or(hi, lo)[4 * g + 1] = s1
       /\ Or(hi, lo)[4 * g + 2] = s2 /\ Or(hi, lo)[4 * g + 3] = s3
  BY <1>13, <1>14, <1>15, <1>16, <1>17, <1>18, <1>19, AndLane, OrZero
<1>21. Or(hi, lo)[4 * g + q] = s(q)
  <2>1. q = 0 \/ q = 1 \/ q = 2 \/ q = 3
    OBVIOUS
  <2>2. 4 * g + 0 = 4 * g
    OBVIOUS
  <2>3. QED  BY <1>20, <2>1, <2>2 DEF s0, s1, s2, s3
<1>22. QED  BY <1>1, <1>21 DEF b0, b1, b2

\* The offset base64_encode adds, modulo 256, is that of the index's range.
LEMMA CharLane ==
  ASSUME NEW idx \in Bytes16, NEW k \in Lane, idx[k] \in 0..63
  PROVE  ToChars(idx, 244)[k] = Base64Char(idx[k])
<1> DEFINE a == Add(idx, Splat(65))
           b == Add(a, And(GtU(idx, Splat(25)), Splat(6)))
           c == Add(b, And(GtU(idx, Splat(51)), Splat(181)))
           d == Add(c, And(Eq(idx, Splat(62)), Splat(241)))
           e == Add(d, And(Eq(idx, Splat(63)), Splat(244)))
           n == idx[k]
<1>1. /\ 65 \in Byte /\ 25 \in Byte /\ 6 \in Byte /\ 51 \in Byte /\ 181 \in Byte
      /\ 62 \in Byte /\ 241 \in Byte /\ 63 \in Byte /\ 244 \in Byte
  BY DEF Byte
<1>2. ToChars(idx, 244) = e
  BY DEF ToChars
<1>3. a[k] = (n + 65) % 256
  BY <1>1, AndLane, SplatLane
<1>4. b[k] = (a[k] + IF n > 25 THEN 6 ELSE 0) % 256
  <2>1. And(GtU(idx, Splat(25)), Splat(6))[k] = IF n > 25 THEN 6 ELSE 0
    BY <1>1, TestLane
  <2> HIDE DEF a
  <2>2. QED  BY <2>1, AndLane
<1>5. c[k] = (b[k] + IF n > 51 THEN 181 ELSE 0) % 256
  <2>1. And(GtU(idx, Splat(51)), Splat(181))[k] = IF n > 51 THEN 181 ELSE 0
    BY <1>1, TestLane
  <2> HIDE DEF b
  <2>2. QED  BY <2>1, AndLane
<1>6. d[k] = (c[k] + IF n = 62 THEN 241 ELSE 0) % 256
  <2>1. And(Eq(idx, Splat(62)), Splat(241))[k] = IF n = 62 THEN 241 ELSE 0
    BY <1>1, TestLane
  <2> HIDE DEF c
  <2>2. QED  BY <2>1, AndLane
<1>7. e[k] = (d[k] + IF n = 63 THEN 244 ELSE 0) % 256
  <2>1. And(Eq(idx, Splat(63)), Splat(244))[k] = IF n = 63 THEN 244 ELSE 0
    BY <1>1, TestLane
  <2> HIDE DEF d
  <2>2. QED  BY <2>1, AndLane
<1> HIDE DEF a, b, c, d, e
<1>8. n \in 0..63
  OBVIOUS
<1> HIDE DEF n
<1>9. e[k] = Base64Char(n)
  <2>1. CASE n \in 0..25
    BY <1>3, <1>4, <1>5, <1>6, <1>7, <2>1, SMT DEF Base64Char
  <2>2. CASE n \in 26..51
    BY <1>3, <1>4, <1>5, <1>6, <1>7, <2>2, SMT DEF Base64Char
  <2>3. CASE n \in 52..61
    BY <1>3, <1>4, <1>5, <1>6, <1>7, <2>3, SMT DEF Base64Char
  <2>4. CASE n = 62
    BY <1>3, <1>4, <1>5, <1>6, <1>7, <2>4, SMT DEF Base64Char
  <2>5. CASE n = 63
    BY <1>3, <1>4, <1>5, <1>6, <1>7, <2>5, SMT DEF Base64Char
  <2>6. QED  BY <1>8, <2>1, <2>2, <2>3, <2>4, <2>5
<1>10. QED  BY <1>2, <1>9 DEF n

\* base64_encode makes of twelve bytes, whatever the four it reads past them,
\* the sixteen characters of their encoding.
LEMMA EncodeExact ==
  ASSUME NEW bytes \in Bytes16, NEW g \in 0..3, NEW q \in 0..3
  PROVE  base64_encode(bytes)[4 * g + q]
           = Base64Char(Sextet(bytes[3 * g], bytes[3 * g + 1], bytes[3 * g + 2], q))
<1>1. 4 * g + q \in Lane /\ 3 * g \in Lane /\ 3 * g + 1 \in Lane /\ 3 * g + 2 \in Lane
  BY DEF Lane
<1>2. bytes[3 * g] \in Byte /\ bytes[3 * g + 1] \in Byte /\ bytes[3 * g + 2] \in Byte
  BY <1>1 DEF Bytes16
<1>3. Sextet(bytes[3 * g], bytes[3 * g + 1], bytes[3 * g + 2], q) \in 0..63
  BY <1>2, SextetsAre
<1>4. Indexes(bytes)[4 * g + q] = Sextet(bytes[3 * g], bytes[3 * g + 1], bytes[3 * g + 2], q)
  BY IndexLane
<1>5. Indexes(bytes) \in Bytes16
  BY IndexBytes
<1>6. ToChars(Indexes(bytes), 244)[4 * g + q] = Base64Char(Indexes(bytes)[4 * g + q])
  BY <1>1, <1>3, <1>4, <1>5, CharLane
<1>7. QED  BY <1>4, <1>6 DEF base64_encode

-----------------------------------------------------------------------------
(* base64: four characters and their three bytes. *)

\* The characters base64_decode takes.
Base64Chars == {c \in Byte : \E n \in 0..63 : c = Base64Char(n)}

\* A character stands for one index, which its range gives by an addition.
LEMMA CharValues ==
  ASSUME NEW n \in 0..63
  PROVE  /\ Base64Value(Base64Char(n)) = n
         /\ \/ Base64Char(n) \in 65..90 /\ n = Base64Char(n) - 65
            \/ Base64Char(n) \in 97..122 /\ n = Base64Char(n) - 71
            \/ Base64Char(n) \in 48..57 /\ n = Base64Char(n) + 4
            \/ Base64Char(n) = 43 /\ n = 62
            \/ Base64Char(n) = 47 /\ n = 63
<1>1. ASSUME NEW m \in 0..63
      PROVE  \/ Base64Char(m) \in 65..90 /\ m = Base64Char(m) - 65
             \/ Base64Char(m) \in 97..122 /\ m = Base64Char(m) - 71
             \/ Base64Char(m) \in 48..57 /\ m = Base64Char(m) + 4
             \/ Base64Char(m) = 43 /\ m = 62
             \/ Base64Char(m) = 47 /\ m = 63
  <2>1. CASE m \in 0..25   BY <2>1 DEF Base64Char
  <2>2. CASE m \in 26..51  BY <2>2 DEF Base64Char
  <2>3. CASE m \in 52..61  BY <2>3 DEF Base64Char
  <2>4. CASE m = 62        BY <2>4 DEF Base64Char
  <2>5. CASE m = 63        BY <2>5 DEF Base64Char
  <2>6. QED  BY <2>1, <2>2, <2>3, <2>4, <2>5
<1> DEFINE c == Base64Char(n)
<1>2. \A m \in 0..63 : c = Base64Char(m) => m = n
  <2> SUFFICES ASSUME NEW m \in 0..63, c = Base64Char(m) PROVE m = n
    OBVIOUS
  <2>1. \/ c \in 65..90 /\ m = c - 65
        \/ c \in 97..122 /\ m = c - 71
        \/ c \in 48..57 /\ m = c + 4
        \/ c = 43 /\ m = 62
        \/ c = 47 /\ m = 63
    BY <1>1, SMTT(30)
  <2>2. \/ c \in 65..90 /\ n = c - 65
        \/ c \in 97..122 /\ n = c - 71
        \/ c \in 48..57 /\ n = c + 4
        \/ c = 43 /\ n = 62
        \/ c = 47 /\ n = 63
    BY <1>1, SMTT(30)
  <2> HIDE DEF c
  <2>3. QED  BY <2>1, <2>2
<1>3. Base64Value(c) = CHOOSE m \in 0..63 : c = Base64Char(m)
  BY DEF Base64Value
<1>4. Base64Value(c) = n
  BY <1>2, <1>3
<1>5. QED  BY <1>1, <1>4

\* The offsets base64_decode adds take a character to its index.
LEMMA ValueLane ==
  ASSUME NEW chars \in Bytes16, NEW k \in Lane, NEW n \in 0..63, chars[k] = Base64Char(n)
  PROVE  FromChars(chars)[k] = n
<1> DEFINE d == And(InRange(chars, 48, 57), Splat(252))
           u == And(InRange(chars, 65, 90), Splat(65))
           l == And(InRange(chars, 97, 122), Splat(71))
           p == And(Eq(chars, Splat(43)), Splat(237))
           s == And(Eq(chars, Splat(47)), Splat(240))
           c == chars[k]
<1>1. /\ {48, 57, 65, 90, 97, 122} \subseteq Ascii
      /\ {0, 252, 65, 71, 43, 237, 47, 240} \subseteq Byte
  BY DEF Ascii, Byte
<1>2. /\ d[k] = Within(c, 48, 57, 252) /\ u[k] = Within(c, 65, 90, 65) /\ l[k] = Within(c, 97, 122, 71)
  BY <1>1, RangeLane, SMTT(30)
<1>3. /\ p[k] = IF c = 43 THEN 237 ELSE 0
      /\ s[k] = IF c = 47 THEN 240 ELSE 0
  BY <1>1, TestLane
<1>4. FromChars(chars) = Sub(chars, Or(Or(Or(Or(d, u), l), p), s))
  BY DEF FromChars
<1>5. c \in 0..255
  BY DEF Bytes16, Byte
<1> DEFINE offset == ByteOr(ByteOr(ByteOr(ByteOr(d[k], u[k]), l[k]), p[k]), s[k])
<1> HIDE DEF d, u, l, p, s
<1>6. FromChars(chars)[k] = (c - offset) % 256
  BY <1>4, AndLane
<1>7. /\ ByteOr(252, 0) = 252 /\ ByteOr(0, 65) = 65 /\ ByteOr(65, 0) = 65
      /\ ByteOr(0, 0) = 0 /\ ByteOr(0, 71) = 71 /\ ByteOr(71, 0) = 71
      /\ ByteOr(0, 237) = 237 /\ ByteOr(237, 0) = 237 /\ ByteOr(0, 240) = 240
  BY <1>1, OrZero
<1>8. CASE c \in 48..57 /\ n = c + 4
  <2>1. d[k] = 252 /\ u[k] = 0 /\ l[k] = 0 /\ p[k] = 0 /\ s[k] = 0
    BY <1>2, <1>3, <1>8 DEF Within
  <2>2. offset = 252
    BY <1>7, <2>1
  <2>3. QED  BY <1>6, <1>8, <2>2
<1>9. CASE c \in 65..90 /\ n = c - 65
  <2>1. d[k] = 0 /\ u[k] = 65 /\ l[k] = 0 /\ p[k] = 0 /\ s[k] = 0
    BY <1>2, <1>3, <1>9 DEF Within
  <2>2. offset = 65
    BY <1>7, <2>1
  <2>3. QED  BY <1>6, <1>9, <2>2
<1>10. CASE c \in 97..122 /\ n = c - 71
  <2>1. d[k] = 0 /\ u[k] = 0 /\ l[k] = 71 /\ p[k] = 0 /\ s[k] = 0
    BY <1>2, <1>3, <1>10 DEF Within
  <2>2. offset = 71
    BY <1>7, <2>1
  <2>3. QED  BY <1>6, <1>10, <2>2
<1>11. CASE c = 43 /\ n = 62
  <2>1. d[k] = 0 /\ u[k] = 0 /\ l[k] = 0 /\ p[k] = 237 /\ s[k] = 0
    BY <1>2, <1>3, <1>11 DEF Within
  <2>2. offset = 237
    BY <1>7, <2>1
  <2>3. \A x \in 0..100 : (x - 237) % 256 = x + 19
    OBVIOUS
  <2>4. (c - 237) % 256 = c + 19 /\ c + 19 = n
    BY <1>11, <2>3
  <2>5. QED  BY <1>6, <2>2, <2>4, Zenon
<1>12. CASE c = 47 /\ n = 63
  <2>1. d[k] = 0 /\ u[k] = 0 /\ l[k] = 0 /\ p[k] = 0 /\ s[k] = 240
    BY <1>2, <1>3, <1>12 DEF Within
  <2>2. offset = 240
    BY <1>7, <2>1
  <2>3. \A x \in 0..100 : (x - 240) % 256 = x + 16
    OBVIOUS
  <2>4. (c - 240) % 256 = c + 16 /\ c + 16 = n
    BY <1>12, <2>3
  <2>5. QED  BY <1>6, <2>2, <2>4, Zenon
<1>13. /\ c = Base64Char(n)
       /\ \/ Base64Char(n) \in 65..90 /\ n = Base64Char(n) - 65
          \/ Base64Char(n) \in 97..122 /\ n = Base64Char(n) - 71
          \/ Base64Char(n) \in 48..57 /\ n = Base64Char(n) + 4
          \/ Base64Char(n) = 43 /\ n = 62
          \/ Base64Char(n) = 47 /\ n = 63
  BY CharValues
<1> HIDE DEF c
<1>14. QED  BY <1>8, <1>9, <1>10, <1>11, <1>12, <1>13

\* The three bytes of a group of four indexes.
OfSextets(i0, i1, i2, i3, j) ==
  CASE j = 0 -> 4 * i0 + (i1 \div 16)
    [] j = 1 -> 16 * (i1 % 16) + (i2 \div 4)
    [] j = 2 -> 64 * (i2 % 4) + i3

\* Four indexes, one to a character.
AreIndexes(i0, i1, i2, i3) == i0 \in 0..63 /\ i1 \in 0..63 /\ i2 \in 0..63 /\ i3 \in 0..63

\* The same byte, of the four indexes as a number of twenty-four bits.
OctetBits(i0, i1, i2, i3, j) == ((262144 * i0 + 4096 * i1 + 64 * i2 + i3) \div 256^(2 - j)) % 256

\* The byte by divisions of each index is the byte by a division of the whole.
LEMMA OctetsAre ==
  ASSUME NEW i0, NEW i1, NEW i2, NEW i3, AreIndexes(i0, i1, i2, i3), NEW j \in 0..2
  PROVE  OctetBits(i0, i1, i2, i3, j) = OfSextets(i0, i1, i2, i3, j)
<1> SUFFICES ((262144 * i0 + 4096 * i1 + 64 * i2 + i3) \div 256^(2 - j)) % 256 = OfSextets(i0, i1, i2, i3, j)
  BY SMT DEF OctetBits
<1> DEFINE bits == 262144 * i0 + 4096 * i1 + 64 * i2 + i3
           x == i1 \div 16  y == i1 % 16  u == i2 \div 4  z == i2 % 4
<1>1. /\ i0 \in 0..63 /\ i3 \in 0..63
      /\ x \in 0..3 /\ y \in 0..15 /\ u \in 0..15 /\ z \in 0..3
      /\ i1 = 16 * x + y /\ i2 = 4 * u + z
  BY SMT DEF AreIndexes
<1> DEFINE b0 == 4 * i0 + x
           b1 == 16 * y + u
           b2 == 64 * z + i3
<1>2. OfSextets(i0, i1, i2, i3, j) = IF j = 0 THEN b0 ELSE IF j = 1 THEN b1 ELSE b2
  <2>1. j = 0 \/ j = 1 \/ j = 2
    OBVIOUS
  <2>2. QED  BY <2>1, SMT DEF OfSextets
<1> HIDE DEF x, y, u, z
<1>3. bits = 65536 * b0 + 256 * b1 + b2 /\ b0 \in 0..255 /\ b1 \in 0..255 /\ b2 \in 0..255
  BY <1>1, SMT
<1> HIDE DEF bits, b0, b1, b2
<1>4. CASE j = 0
  <2>1. 256^(2 - j) = 65536
    <3>1. 2 - j = 2
      BY <1>4
    <3>2. 256^(2 - j) = 256^2
      BY <3>1, Zenon
    <3>3. 256^2 = 65536
      BY SMT
    <3>4. QED  BY <3>2, <3>3, SMT
  <2>2. bits \div 65536 = b0 /\ b0 % 256 = b0
    BY <1>3, SMT
  <2>3. QED  BY <1>2, <1>4, <2>1, <2>2, SMT DEF bits
<1>5. CASE j = 1
  <2>1. 256^(2 - j) = 256
    <3>1. 2 - j = 1
      BY <1>5
    <3>2. 256^(2 - j) = 256^1
      BY <3>1, Zenon
    <3>3. 256^1 = 256
      BY SMT
    <3>4. QED  BY <3>2, <3>3, SMT
  <2>2. bits \div 256 = 256 * b0 + b1 /\ (256 * b0 + b1) % 256 = b1
    BY <1>3, SMT
  <2>3. QED  BY <1>2, <1>5, <2>1, <2>2, SMT DEF bits
<1>6. CASE j = 2
  <2>1. 256^(2 - j) = 1
    <3>1. 2 - j = 0
      BY <1>6
    <3>2. 256^(2 - j) = 256^0
      BY <3>1, Zenon
    <3>3. 256^0 = 1
      BY SMT
    <3>4. QED  BY <3>2, <3>3, SMT
  <2>2. bits \div 1 = bits /\ bits % 256 = b2
    BY <1>3, SMT
  <2>3. QED  BY <1>2, <1>6, <2>1, <2>2, SMT DEF bits
<1>7. QED  BY <1>4, <1>5, <1>6

\* Where the four shuffles of base64_decode take the bytes of a group.
LEMMA GroupPatterns ==
  ASSUME NEW g \in 0..3
  PROVE  /\ patLeft23[3 * g + 1] = 4 * g /\ patLeft23[3 * g + 2] = 16 + (4 * g + 1)
         /\ patLeft6[3 * g + 1] = 3 * g /\ patLeft6[3 * g + 2] = 3 * g + 1
         /\ patLeft6[3 * g + 3] = 16 + (4 * g + 2)
         /\ patRight24[3 * g + 1] = 4 * g + 1 /\ patRight24[3 * g + 2] = 16 + (4 * g + 2)
         /\ patRight0[3 * g + 1] = 3 * g /\ patRight0[3 * g + 2] = 3 * g + 1
         /\ patRight0[3 * g + 3] = 16 + (4 * g + 3)
<1>1. g \in {0, 1, 2, 3}
  OBVIOUS
<1>2. patLeft23[3 * g + 1] = 4 * g /\ patLeft23[3 * g + 2] = 16 + (4 * g + 1)
  BY <1>1 DEF patLeft23
<1>3. /\ patLeft6[3 * g + 1] = 3 * g /\ patLeft6[3 * g + 2] = 3 * g + 1
      /\ patLeft6[3 * g + 3] = 16 + (4 * g + 2)
  BY <1>1 DEF patLeft6
<1>4. patRight24[3 * g + 1] = 4 * g + 1 /\ patRight24[3 * g + 2] = 16 + (4 * g + 2)
  BY <1>1 DEF patRight24
<1>5. /\ patRight0[3 * g + 1] = 3 * g /\ patRight0[3 * g + 2] = 3 * g + 1
      /\ patRight0[3 * g + 3] = 16 + (4 * g + 3)
  BY <1>1 DEF patRight0
<1>6. QED  BY <1>2, <1>3, <1>4, <1>5

\* A shuffle takes a lane of its first or of its second operand.
LEMMA ShuffleLane ==
  ASSUME NEW v, NEW w, NEW at, NEW k \in Lane, NEW n \in Lane
  PROVE  /\ at[k + 1] = n => Shuffle(v, w, at)[k] = v[n]
         /\ at[k + 1] = 16 + n => Shuffle(v, w, at)[k] = w[n]
<1>1. n < 16 /\ ~(16 + n < 16) /\ (16 + n) - 16 = n
  BY DEF Lane
<1>2. QED  BY <1>1 DEF Shuffle

\* The shifts of an index, which lose the bits above the byte.
LEMMA ShiftLane ==
  ASSUME NEW v, NEW k \in Lane, v[k] \in 0..63
  PROVE  /\ Shl(v, 2)[k] = 4 * v[k] /\ Shl(v, 4)[k] = 16 * (v[k] % 16) /\ Shl(v, 6)[k] = 64 * (v[k] % 4)
         /\ ShrU(v, 4)[k] = v[k] \div 16 /\ ShrU(v, 2)[k] = v[k] \div 4
<1>1. 2^2 = 4 /\ 2^4 = 16 /\ 2^6 = 64
  OBVIOUS
<1>2. /\ Shl(v, 2)[k] = (v[k] * 4) % 256 /\ Shl(v, 4)[k] = (v[k] * 16) % 256
      /\ Shl(v, 6)[k] = (v[k] * 64) % 256
      /\ ShrU(v, 4)[k] = v[k] \div 16 /\ ShrU(v, 2)[k] = v[k] \div 4
  BY <1>1 DEF Shl, ShrU
<1> DEFINE x == v[k]
<1>3. x \in 0..63
  OBVIOUS
<1> HIDE DEF x
<1>4. (x * 4) % 256 = 4 * x /\ (x * 16) % 256 = 16 * (x % 16) /\ (x * 64) % 256 = 64 * (x % 4)
  BY <1>3
<1>5. QED  BY <1>2, <1>4 DEF x

\* base64_decode makes of sixteen characters, among those it takes, the twelve
\* bytes they stand for.
LEMMA DecodeExact ==
  ASSUME NEW chars \in Bytes16, \A k \in Lane : chars[k] \in Base64Chars, NEW g \in 0..3, NEW j \in 0..2
  PROVE  base64_decode(chars)[3 * g + j]
           = OfSextets(Base64Value(chars[4 * g]), Base64Value(chars[4 * g + 1]),
                       Base64Value(chars[4 * g + 2]), Base64Value(chars[4 * g + 3]), j)
<1> DEFINE idx == FromChars(chars)
           left23 == Shuffle(Shl(idx, 2), Shl(idx, 4), patLeft23)
           right24 == Shuffle(ShrU(idx, 4), ShrU(idx, 2), patRight24)
           left == Shuffle(left23, Shl(idx, 6), patLeft6)
           right == Shuffle(right24, idx, patRight0)
<1>1. base64_decode(chars) = Or(left, right)
  BY DEF base64_decode
<1>2. ASSUME NEW k \in Lane PROVE idx[k] = Base64Value(chars[k]) /\ idx[k] \in 0..63
  <2>1. PICK n \in 0..63 : chars[k] = Base64Char(n)
    BY DEF Base64Chars
  <2>2. idx[k] = n
    BY <2>1, ValueLane
  <2>3. Base64Value(chars[k]) = n
    <3>1. Base64Value(Base64Char(n)) = n
      BY CharValues, Zenon
    <3>2. QED  BY <2>1, <3>1
  <2>4. QED  BY <2>2, <2>3
<1> HIDE DEF idx
<1>3. 4 * g \in Lane /\ 4 * g + 1 \in Lane /\ 4 * g + 2 \in Lane /\ 4 * g + 3 \in Lane
      /\ 3 * g \in Lane /\ 3 * g + 1 \in Lane /\ 3 * g + 2 \in Lane
  BY DEF Lane
<1> DEFINE i0 == idx[4 * g]  i1 == idx[4 * g + 1]  i2 == idx[4 * g + 2]  i3 == idx[4 * g + 3]
           t == 3 * g
<1>4. t \in Lane /\ t + 1 \in Lane /\ t + 2 \in Lane /\ (t + 1) + 1 = t + 2 /\ (t + 2) + 1 = t + 3
  BY <1>3
<1>5. /\ i0 \in 0..63 /\ i1 \in 0..63 /\ i2 \in 0..63 /\ i3 \in 0..63
      /\ Shl(idx, 2)[4 * g] = 4 * i0 /\ Shl(idx, 4)[4 * g + 1] = 16 * (i1 % 16)
      /\ Shl(idx, 6)[4 * g + 2] = 64 * (i2 % 4)
      /\ ShrU(idx, 4)[4 * g + 1] = i1 \div 16 /\ ShrU(idx, 2)[4 * g + 2] = i2 \div 4
  BY <1>2, <1>3, ShiftLane
<1>6. /\ patLeft23[t + 1] = 4 * g /\ patLeft23[t + 2] = 16 + (4 * g + 1)
      /\ patLeft6[t + 1] = t /\ patLeft6[t + 2] = t + 1
      /\ patLeft6[t + 3] = 16 + (4 * g + 2)
      /\ patRight24[t + 1] = 4 * g + 1 /\ patRight24[t + 2] = 16 + (4 * g + 2)
      /\ patRight0[t + 1] = t /\ patRight0[t + 2] = t + 1
      /\ patRight0[t + 3] = 16 + (4 * g + 3)
  BY GroupPatterns
<1> HIDE DEF t, i0, i1, i2, i3
<1>7. left23[t] = 4 * i0 /\ left23[t + 1] = 16 * (i1 % 16)
  BY <1>3, <1>4, <1>5, <1>6, ShuffleLane
<1>8. right24[t] = i1 \div 16 /\ right24[t + 1] = i2 \div 4
  BY <1>3, <1>4, <1>5, <1>6, ShuffleLane
<1> HIDE DEF left23, right24
<1>9. left[t] = 4 * i0 /\ left[t + 1] = 16 * (i1 % 16) /\ left[t + 2] = 64 * (i2 % 4)
  BY <1>3, <1>4, <1>5, <1>6, <1>7, ShuffleLane
<1>10. right[t] = i1 \div 16 /\ right[t + 1] = i2 \div 4 /\ right[t + 2] = i3
  BY <1>3, <1>4, <1>5, <1>6, <1>8, ShuffleLane DEF i3
<1> HIDE DEF left, right
<1>11. /\ Or(left, right)[t] = ByteOr(4 * i0, i1 \div 16)
       /\ Or(left, right)[t + 1] = ByteOr(16 * (i1 % 16), i2 \div 4)
       /\ Or(left, right)[t + 2] = ByteOr(64 * (i2 % 4), i3)
  BY <1>4, <1>9, <1>10, AndLane
<1>12. ByteOr(4 * i0, i1 \div 16) = 4 * i0 + (i1 \div 16)
  <2> DEFINE a == 4 * i0  b == i1 \div 16
  <2>1. a \in Byte /\ b \in Byte /\ a % 4 = 0 /\ b < 4
    BY <1>5 DEF Byte
  <2> HIDE DEF a, b
  <2>2. ByteOr(a, b) = a + b
    BY <2>1, OrApart
  <2>3. QED  BY <2>2 DEF a, b
<1>13. ByteOr(16 * (i1 % 16), i2 \div 4) = 16 * (i1 % 16) + (i2 \div 4)
  <2> DEFINE a == 16 * (i1 % 16)  b == i2 \div 4
  <2>1. a \in Byte /\ b \in Byte /\ a % 16 = 0 /\ b < 16
    BY <1>5 DEF Byte
  <2> HIDE DEF a, b
  <2>2. ByteOr(a, b) = a + b
    BY <2>1, OrApart
  <2>3. QED  BY <2>2 DEF a, b
<1>14. ByteOr(64 * (i2 % 4), i3) = 64 * (i2 % 4) + i3
  <2> DEFINE a == 64 * (i2 % 4)
  <2>1. a \in Byte /\ i3 \in Byte /\ a % 64 = 0 /\ i3 < 64
    BY <1>5 DEF Byte
  <2> HIDE DEF a
  <2>2. ByteOr(a, i3) = a + i3
    BY <2>1, OrApart
  <2>3. QED  BY <2>2 DEF a
<1>15. Or(left, right)[t + j] = OfSextets(i0, i1, i2, i3, j)
  <2>1. j = 0 \/ j = 1 \/ j = 2
    OBVIOUS
  <2>2. t + 0 = t
    BY <1>4 DEF Lane
  <2>3. QED  BY <1>11, <1>12, <1>13, <1>14, <2>1, <2>2 DEF OfSextets
<1>16. /\ i0 = Base64Value(chars[4 * g]) /\ i1 = Base64Value(chars[4 * g + 1])
       /\ i2 = Base64Value(chars[4 * g + 2]) /\ i3 = Base64Value(chars[4 * g + 3])
  BY <1>2, <1>3 DEF i0, i1, i2, i3
<1>17. QED  BY <1>1, <1>15, <1>16 DEF t

-----------------------------------------------------------------------------
(* A block of a kernel is a block of its reference. *)

\* The reference, of the bytes of a memory m from s on.
RefAt(kernel, m, s, k) == LET In(j) == m[s + j] IN Reference(kernel, In, k)

\* Nibble j of the bytes of m from s on.
HexDigitAt(m, s, j) == IF j % 2 = 0 THEN m[s + (j \div 2)] \div 16 ELSE m[s + (j \div 2)] % 16

\* The references that need no grouping.
LEMMA RefCases ==
  ASSUME NEW m, NEW s, NEW k
  PROVE  /\ RefAt("toupper", m, s, k) = ToUpper(m[s + k])
         /\ RefAt("hex_encode", m, s, k) = HexChar(HexDigitAt(m, s, k))
         /\ RefAt("hex_decode", m, s, k) = 16 * HexValue(m[s + 2 * k]) + HexValue(m[s + (2 * k + 1)])
<1>1. RefAt("toupper", m, s, k) = ToUpper(m[s + k])
  BY DEF RefAt, Reference
<1>2. RefAt("hex_encode", m, s, k) = HexChar(HexDigitAt(m, s, k))
  BY DEF RefAt, Reference, HexDigitAt
<1>3. RefAt("hex_decode", m, s, k) = 16 * HexValue(m[s + 2 * k]) + HexValue(m[s + (2 * k + 1)])
  BY DEF RefAt, Reference
<1>4. QED  BY <1>1, <1>2, <1>3

\* Group g of the bytes of m from s on holds bytes.
ThreeBytes(m, s, g) ==
  m[s + 3 * g] \in Byte /\ m[s + (3 * g + 1)] \in Byte /\ m[s + (3 * g + 2)] \in Byte

\* The reference of base64_encode, by groups of three bytes.
LEMMA RefEncode ==
  ASSUME NEW m, NEW s, NEW g \in Nat, NEW q \in 0..3, ThreeBytes(m, s, g)
  PROVE  RefAt("base64_encode", m, s, 4 * g + q)
           = Base64Char(Sextet(m[s + 3 * g], m[s + (3 * g + 1)], m[s + (3 * g + 2)], q))
<1> DEFINE k == 4 * g + q
           F(x, r) == Base64Char(SextetBits(m[s + 3 * x], m[s + (3 * x + 1)], m[s + (3 * x + 2)], r))
<1>1. k \div 4 = g /\ k % 4 = q
  BY SMT
<1>2. RefAt("base64_encode", m, s, k) = F(k \div 4, k % 4)
  BY SMT DEF RefAt, Reference, SextetBits
<1>3. F(g, q) = Base64Char(Sextet(m[s + 3 * g], m[s + (3 * g + 1)], m[s + (3 * g + 2)], q))
  BY SextetsAre, Zenon DEF ThreeBytes
<1> HIDE DEF k, F
<1>4. F(k \div 4, k % 4) = F(g, q)
  BY <1>1, Zenon
<1>5. QED  BY <1>2, <1>3, <1>4, Zenon DEF k

\* The reference of base64_decode, by groups of four characters.
LEMMA RefDecode ==
  ASSUME NEW m, NEW s, NEW g \in Nat, NEW j \in 0..2,
         m[s + 4 * g] \in Base64Chars, m[s + (4 * g + 1)] \in Base64Chars,
         m[s + (4 * g + 2)] \in Base64Chars, m[s + (4 * g + 3)] \in Base64Chars
  PROVE  RefAt("base64_decode", m, s, 3 * g + j)
           = OfSextets(Base64Value(m[s + 4 * g]), Base64Value(m[s + (4 * g + 1)]),
                       Base64Value(m[s + (4 * g + 2)]), Base64Value(m[s + (4 * g + 3)]), j)
<1> DEFINE k == 3 * g + j
           v(n) == Base64Value(m[s + n])
           F(x, r) == OctetBits(v(4 * x), v(4 * x + 1), v(4 * x + 2), v(4 * x + 3), r)
<1>1. k \div 3 = g /\ k % 3 = j
  BY SMT
<1>2. RefAt("base64_decode", m, s, k) = F(k \div 3, k % 3)
  BY SMT DEF RefAt, Reference, OctetBits
<1>3. \A c \in Base64Chars : Base64Value(c) \in 0..63
  BY CharValues DEF Base64Chars
<1>4. v(4 * g) \in 0..63 /\ v(4 * g + 1) \in 0..63 /\ v(4 * g + 2) \in 0..63 /\ v(4 * g + 3) \in 0..63
  BY <1>3
<1> HIDE DEF v
<1>5. F(g, j) = OfSextets(v(4 * g), v(4 * g + 1), v(4 * g + 2), v(4 * g + 3), j)
  <2> DEFINE i0 == v(4 * g)  i1 == v(4 * g + 1)  i2 == v(4 * g + 2)  i3 == v(4 * g + 3)
  <2>1. AreIndexes(i0, i1, i2, i3)
    BY <1>4 DEF AreIndexes
  <2> HIDE DEF i0, i1, i2, i3
  <2>2. OctetBits(i0, i1, i2, i3, j) = OfSextets(i0, i1, i2, i3, j)
    BY <2>1, OctetsAre, Zenon
  <2>3. QED  BY <2>2, Zenon DEF i0, i1, i2, i3
<1> HIDE DEF k, F
<1>6. F(k \div 3, k % 3) = F(g, j)
  BY <1>1, Zenon
<1>7. QED  BY <1>2, <1>5, <1>6, Zenon DEF k, v

\* What a kernel accepts: the decoders' callers validate (hex_decode/main.go:27,
\* base64_decode/main.go:45).
Alphabet(kernel) ==
  CASE kernel = "hex_decode" -> HexDigits
    [] kernel = "base64_decode" -> Base64Chars
    [] OTHER -> Byte

\* Block b of toupper is block b of its reference.
LEMMA UpperBlock ==
  ASSUME NEW bytes \in Bytes16, NEW m, NEW s \in Nat, NEW b \in Nat,
         \A k \in 0..15 : m[s + (b * 16 + k)] = bytes[k],
         NEW j \in 0..15
  PROVE  toupper(bytes)[j] = RefAt("toupper", m, s, b * 16 + j)
<1>1. toupper(bytes)[j] = ToUpper(bytes[j])
  BY UpperExact DEF Lane
<1>2. RefAt("toupper", m, s, b * 16 + j) = ToUpper(m[s + (b * 16 + j)])
  BY RefCases
<1>3. QED  BY <1>1, <1>2

\* Block b of hex_encode is block b of its reference.
LEMMA HexBlock ==
  ASSUME NEW bytes \in Bytes16, NEW m, NEW s \in Nat, NEW b \in Nat,
         \A k \in 0..15 : m[s + (b * 16 + k)] = bytes[k],
         NEW j \in 0..31
  PROVE  hex_encode(bytes)[j] = RefAt("hex_encode", m, s, b * 32 + j)
<1>1. hex_encode(bytes)[j] = HexChar(HexDigitOf(bytes, j))
  BY HexExact
<1>2. (b * 32 + j) % 2 = j % 2 /\ (b * 32 + j) \div 2 = b * 16 + (j \div 2) /\ j \div 2 \in 0..15
  OBVIOUS
<1>3. m[s + (b * 16 + (j \div 2))] = bytes[j \div 2]
  BY <1>2
<1> DEFINE k == b * 32 + j
<1>4. k % 2 = j % 2 /\ m[s + (k \div 2)] = bytes[j \div 2]
  BY <1>2, <1>3
<1> HIDE DEF k
<1>5. RefAt("hex_encode", m, s, k) = HexChar(HexDigitAt(m, s, k))
  BY RefCases
<1>6. HexDigitAt(m, s, k) = HexDigitOf(bytes, j)
  BY <1>4 DEF HexDigitOf, HexDigitAt
<1>7. QED  BY <1>1, <1>5, <1>6 DEF k

\* Block b of hex_decode is block b of its reference.
LEMMA UnhexBlock ==
  ASSUME NEW bytes \in Bytes16, \A k \in Lane : bytes[k] \in HexDigits,
         NEW m, NEW s \in Nat, NEW b \in Nat,
         \A k \in 0..15 : m[s + (b * 16 + k)] = bytes[k],
         NEW j \in 0..7
  PROVE  hex_decode(bytes)[j] = RefAt("hex_decode", m, s, b * 8 + j)
<1>1. hex_decode(bytes)[j] = 16 * HexValue(bytes[2 * j]) + HexValue(bytes[2 * j + 1])
  BY UnhexExact
<1>2. /\ 2 * (b * 8 + j) = b * 16 + 2 * j /\ 2 * (b * 8 + j) + 1 = b * 16 + (2 * j + 1)
      /\ 2 * j \in 0..15 /\ 2 * j + 1 \in 0..15
  OBVIOUS
<1>3. /\ m[s + 2 * (b * 8 + j)] = bytes[2 * j]
      /\ m[s + (2 * (b * 8 + j) + 1)] = bytes[2 * j + 1]
  BY <1>2
<1> DEFINE k == b * 8 + j
<1> HIDE DEF k
<1>4. RefAt("hex_decode", m, s, k) = 16 * HexValue(m[s + 2 * k]) + HexValue(m[s + (2 * k + 1)])
  BY RefCases
<1>5. QED  BY <1>1, <1>3, <1>4 DEF k

\* Block b of base64_encode is block b of its reference.
LEMMA EncodeBlock ==
  ASSUME NEW bytes \in Bytes16, NEW m, NEW s \in Nat, NEW b \in Nat,
         \A k \in 0..11 : m[s + (b * 12 + k)] = bytes[k],
         NEW j \in 0..15
  PROVE  base64_encode(bytes)[j] = RefAt("base64_encode", m, s, b * 16 + j)
<1> DEFINE g == j \div 4  q == j % 4  h == 4 * b + g
<1>1. g \in 0..3 /\ q \in 0..3 /\ j = 4 * g + q /\ h \in Nat /\ b * 16 + j = 4 * h + q
  OBVIOUS
<1>2. /\ 3 * h = b * 12 + 3 * g /\ 3 * h + 1 = b * 12 + (3 * g + 1) /\ 3 * h + 2 = b * 12 + (3 * g + 2)
  BY <1>1
<1> HIDE DEF g, q, h
<1>3. /\ m[s + 3 * h] = bytes[3 * g] /\ m[s + (3 * h + 1)] = bytes[3 * g + 1]
      /\ m[s + (3 * h + 2)] = bytes[3 * g + 2]
  <2>1. 3 * g \in 0..11 /\ 3 * g + 1 \in 0..11 /\ 3 * g + 2 \in 0..11
    BY <1>1
  <2>2. QED  BY <1>2, <2>1
<1>4. bytes[3 * g] \in Byte /\ bytes[3 * g + 1] \in Byte /\ bytes[3 * g + 2] \in Byte
  <2>1. 3 * g \in Lane /\ 3 * g + 1 \in Lane /\ 3 * g + 2 \in Lane
    BY <1>1 DEF Lane
  <2>2. QED  BY <2>1 DEF Bytes16
<1>5. base64_encode(bytes)[4 * g + q] = Base64Char(Sextet(bytes[3 * g], bytes[3 * g + 1], bytes[3 * g + 2], q))
  BY <1>1, EncodeExact
<1>6. RefAt("base64_encode", m, s, 4 * h + q)
        = Base64Char(Sextet(m[s + 3 * h], m[s + (3 * h + 1)], m[s + (3 * h + 2)], q))
  <2>1. ThreeBytes(m, s, h)
    BY <1>3, <1>4 DEF ThreeBytes
  <2>2. h \in Nat /\ q \in 0..3
    BY <1>1
  <2>3. QED  BY <2>1, <2>2, RefEncode
<1>7. QED  BY <1>1, <1>3, <1>5, <1>6

\* Block b of base64_decode is block b of its reference.
LEMMA DecodeBlock ==
  ASSUME NEW bytes \in Bytes16, \A k \in Lane : bytes[k] \in Base64Chars,
         NEW m, NEW s \in Nat, NEW b \in Nat,
         \A k \in 0..15 : m[s + (b * 16 + k)] = bytes[k],
         NEW j \in 0..11
  PROVE  base64_decode(bytes)[j] = RefAt("base64_decode", m, s, b * 12 + j)
<1> DEFINE g == j \div 3  q == j % 3  h == 4 * b + g
<1>1. g \in 0..3 /\ q \in 0..2 /\ j = 3 * g + q /\ h \in Nat /\ b * 12 + j = 3 * h + q
  OBVIOUS
<1>2. /\ 4 * h = b * 16 + 4 * g /\ 4 * h + 1 = b * 16 + (4 * g + 1)
      /\ 4 * h + 2 = b * 16 + (4 * g + 2) /\ 4 * h + 3 = b * 16 + (4 * g + 3)
  BY <1>1
<1> HIDE DEF g, q, h
<1>3. 4 * g \in 0..15 /\ 4 * g + 1 \in 0..15 /\ 4 * g + 2 \in 0..15 /\ 4 * g + 3 \in 0..15
  BY <1>1
<1>4. /\ m[s + 4 * h] = bytes[4 * g] /\ m[s + (4 * h + 1)] = bytes[4 * g + 1]
      /\ m[s + (4 * h + 2)] = bytes[4 * g + 2] /\ m[s + (4 * h + 3)] = bytes[4 * g + 3]
  BY <1>2, <1>3
<1>5. /\ bytes[4 * g] \in Base64Chars /\ bytes[4 * g + 1] \in Base64Chars
      /\ bytes[4 * g + 2] \in Base64Chars /\ bytes[4 * g + 3] \in Base64Chars
  BY <1>3 DEF Lane
<1>6. base64_decode(bytes)[3 * g + q]
        = OfSextets(Base64Value(bytes[4 * g]), Base64Value(bytes[4 * g + 1]),
                    Base64Value(bytes[4 * g + 2]), Base64Value(bytes[4 * g + 3]), q)
  BY <1>1, DecodeExact
<1>7. RefAt("base64_decode", m, s, 3 * h + q)
        = OfSextets(Base64Value(m[s + 4 * h]), Base64Value(m[s + (4 * h + 1)]),
                    Base64Value(m[s + (4 * h + 2)]), Base64Value(m[s + (4 * h + 3)]), q)
  BY <1>1, <1>4, <1>5, RefDecode
<1>8. QED  BY <1>1, <1>4, <1>6, <1>7

\* Block b of m from s on is bytes, and the kernel accepts it.
IsBlock(kernel, m, s, b, bytes) ==
  \A k \in 0..(Consumed[kernel] - 1) :
    m[s + (b * Consumed[kernel] + k)] = bytes[k] /\ bytes[k] \in Alphabet(kernel)

\* The kernel makes of bytes that block of the reference.
MakesBlock(kernel, m, s, b, bytes) ==
  \A j \in 0..(Produced[kernel] - 1) :
    Output(kernel, bytes)[j] = RefAt(kernel, m, s, b * Produced[kernel] + j)

\* Of a block it accepts, any kernel makes that block of its reference.
LEMMA OutputBlock ==
  ASSUME NEW kernel \in Kernels, NEW bytes \in Bytes16, NEW m, NEW s \in Nat, NEW b \in Nat,
         IsBlock(kernel, m, s, b, bytes)
  PROVE  MakesBlock(kernel, m, s, b, bytes)
<1> SUFFICES ASSUME NEW j \in 0..(Produced[kernel] - 1)
             PROVE  Output(kernel, bytes)[j] = RefAt(kernel, m, s, b * Produced[kernel] + j)
  BY DEF MakesBlock
<1>0. \A k \in 0..(Consumed[kernel] - 1) :
        m[s + (b * Consumed[kernel] + k)] = bytes[k] /\ bytes[k] \in Alphabet(kernel)
  BY DEF IsBlock
<1>1. (16 \div 2) = 8 /\ (16 * 3) \div 4 = 12 /\ 2 * 16 = 32
  OBVIOUS
<1>2. Lane = 0..15
  BY DEF Lane
<1>3. CASE kernel = "toupper"
  <2>1. Consumed[kernel] - 1 = 15 /\ Consumed[kernel] = 16 /\ Produced[kernel] = 16
    BY <1>3 DEF Consumed, Produced, Kernels
  <2>2. Output(kernel, bytes) = toupper(bytes)
    BY <1>3 DEF Output
  <2>3. j \in 0..15 /\ \A k \in 0..15 : m[s + (b * 16 + k)] = bytes[k]
    BY <1>0, <2>1
  <2>4. toupper(bytes)[j] = RefAt("toupper", m, s, b * 16 + j)
    BY <2>3, UpperBlock, ZenonT(40)
  <2>5. QED  BY <1>3, <2>1, <2>2, <2>4
<1>4. CASE kernel = "hex_encode"
  <2>1. Consumed[kernel] - 1 = 15 /\ Consumed[kernel] = 16 /\ Produced[kernel] = 32
    BY <1>1, <1>4 DEF Consumed, Produced, Kernels
  <2>2. Output(kernel, bytes) = hex_encode(bytes)
    BY <1>4 DEF Output
  <2>3. j \in 0..31 /\ \A k \in 0..15 : m[s + (b * 16 + k)] = bytes[k]
    BY <1>0, <2>1
  <2>4. hex_encode(bytes)[j] = RefAt("hex_encode", m, s, b * 32 + j)
    BY <2>3, HexBlock, ZenonT(40)
  <2>5. QED  BY <1>4, <2>1, <2>2, <2>4
<1>5. CASE kernel = "hex_decode"
  <2>1. Consumed[kernel] - 1 = 15 /\ Consumed[kernel] = 16 /\ Produced[kernel] = 8
    BY <1>1, <1>5 DEF Consumed, Produced, Kernels
  <2>2. Output(kernel, bytes) = hex_decode(bytes) /\ Alphabet(kernel) = HexDigits
    BY <1>5 DEF Output, Alphabet
  <2>3. /\ j \in 0..7 /\ \A k \in 0..15 : m[s + (b * 16 + k)] = bytes[k]
        /\ \A k \in Lane : bytes[k] \in HexDigits
    BY <1>0, <1>2, <2>1, <2>2
  <2>4. hex_decode(bytes)[j] = RefAt("hex_decode", m, s, b * 8 + j)
    BY <2>3, UnhexBlock, ZenonT(40)
  <2>5. QED  BY <1>5, <2>1, <2>2, <2>4
<1>6. CASE kernel = "base64_encode"
  <2>1. Consumed[kernel] - 1 = 11 /\ Consumed[kernel] = 12 /\ Produced[kernel] = 16
    BY <1>6 DEF Consumed, Produced, Kernels
  <2>2. Output(kernel, bytes) = base64_encode(bytes)
    BY <1>6 DEF Output
  <2>3. j \in 0..15 /\ \A k \in 0..11 : m[s + (b * 12 + k)] = bytes[k]
    BY <1>0, <2>1
  <2>4. base64_encode(bytes)[j] = RefAt("base64_encode", m, s, b * 16 + j)
    BY <2>3, EncodeBlock, ZenonT(40)
  <2>5. QED  BY <1>6, <2>1, <2>2, <2>4
<1>7. CASE kernel = "base64_decode"
  <2>1. Consumed[kernel] - 1 = 15 /\ Consumed[kernel] = 16 /\ Produced[kernel] = 12
    BY <1>1, <1>7 DEF Consumed, Produced, Kernels
  <2>2. Output(kernel, bytes) = base64_decode(bytes) /\ Alphabet(kernel) = Base64Chars
    BY <1>7 DEF Output, Alphabet
  <2>3. /\ j \in 0..11 /\ \A k \in 0..15 : m[s + (b * 16 + k)] = bytes[k]
        /\ \A k \in Lane : bytes[k] \in Base64Chars
    BY <1>0, <1>2, <2>1, <2>2
  <2>4. base64_decode(bytes)[j] = RefAt("base64_decode", m, s, b * 12 + j)
    BY <2>3, DecodeBlock, ZenonT(40)
  <2>5. QED  BY <1>7, <2>1, <2>2, <2>4
<1>8. QED  BY <1>3, <1>4, <1>5, <1>6, <1>7 DEF Kernels

-----------------------------------------------------------------------------
(* The loop: the blocks done are the reference of what the call found. *)

\* The running call was passed only what its kernel accepts.
Decodable ==
  Running =>
    \A k \in 0..(call.nBlocks * Consumed[call.kernel] - 1) :
      input[call.src + k] \in Alphabet(call.kernel)

\* The blocks done are the reference of the input.
OutputSoFar ==
  \A k \in 0..(i * Produced[call.kernel] - 1) :
    mem[call.dst + k] = RefAt(call.kernel, input, call.src, k)

\* What the loop has yet to load is as the call found it, though stores reach
\* past the block and, in place, over what was loaded.
SourceAhead ==
  \A k \in (i * Consumed[call.kernel])..(call.nBlocks * Consumed[call.kernel] - 1) :
    mem[call.src + k] = input[call.src + k]

\* A call changes nothing outside its destination.
OthersKept == \A a \in (Addresses \cap Nat) \ Destination(call) : mem[a] = input[a]

\* The inductive invariant of the loop.
OInv == Running => OutputSoFar /\ SourceAhead /\ OthersKept

\* The invariant gives the property.
LEMMA OutputFromInvariant == OInv => OutputIsReference
<1> DEFINE In(k) == input[call.src + k]
           Ref(k) == Reference(call.kernel, In, k)
<1>1. \A k : RefAt(call.kernel, input, call.src, k) = Ref(k)
  <2> TAKE k
  <2>1. QED  BY SMT DEF RefAt, Reference
<1>2. OutputIsReference = (Running => \A k \in 0..(i * Produced[call.kernel] - 1) : mem[call.dst + k] = Ref(k))
  BY SMT DEF OutputIsReference, Reference
<1> HIDE DEF Ref
<1>3. QED  BY <1>1, <1>2 DEF OInv, OutputSoFar

\* No block is done, and memory is the input.
LEMMA OInitially == Init => OInv
<1> SUFFICES ASSUME Init, Running PROVE OutputSoFar /\ SourceAhead /\ OthersKept
  BY DEF OInv
<1>1. i = 0 /\ input = mem
  BY DEF Init
<1>2. call.kernel \in Kernels
  BY Initially, CallFacts
<1>3. Produced[call.kernel] \in Nat /\ i * Produced[call.kernel] = 0
  BY <1>1, <1>2, Strides
<1>4. QED  BY <1>1, <1>3 DEF OutputSoFar, SourceAhead, OthersKept

\* Where the stores of block j of n fall, for strides s and w and a store that
\* reaches past bytes beyond its block: on no block before it, on the whole of
\* its own, on nothing that is still to be loaded, and within the destination.
BlockFalls(j, n, s, w, past, dst) ==
  /\ \A k \in 0..(j * w - 1) : (dst + k) - (dst + j * w) \notin 0..(w + past - 1)
  /\ \A k \in (j * w)..((j + 1) * w - 1) :
       /\ k - j * w \in 0..(w - 1) /\ j * w + (k - j * w) = k
       /\ (dst + k) - (dst + j * w) = k - j * w
  /\ \A k \in 0..((j + 1) * w - 1) : k \in 0..(n * w + past - 1) /\ k \in Nat
  /\ w + past <= s =>
       \A k \in ((j + 1) * s)..(n * s - 1) : (dst + k) - (dst + j * w) \notin 0..(w + past - 1)
  /\ \A k \in ((j + 1) * s)..(n * s - 1) : k \in (j * s)..(n * s - 1) /\ k \in Nat
  /\ \A a \in Int : a - (dst + j * w) \in 0..(w + past - 1) =>
       \E k \in 0..(n * w + past - 1) : a = dst + k

\* They do, whatever the number of blocks and the strides.
LEMMA BlockPlaces ==
  ASSUME NEW j \in Nat, NEW n \in Nat, j < n, NEW s \in Nat, NEW w \in Nat, NEW past \in Nat,
         NEW dst \in Nat
  PROVE  BlockFalls(j, n, s, w, past, dst)
<1>1. j * w \in Nat /\ (j + 1) * w = j * w + w /\ j * s \in Nat /\ (j + 1) * s = j * s + s
  OBVIOUS
<1>2. ASSUME NEW x \in Nat PROVE (j + 1) * x <= n * x /\ n * x \in Nat
  <2>1. PICK d \in Nat : n = j + 1 + d
    <3>1. n - (j + 1) \in Nat /\ n = j + 1 + (n - (j + 1))
      OBVIOUS
    <3>2. QED  BY <3>1
  <2>2. n * x = (j + 1) * x + d * x /\ d * x \in Nat /\ (j + 1) * x \in Nat
    BY <2>1
  <2>3. QED  BY <2>2
<1>3. (j + 1) * w <= n * w /\ n * w \in Nat /\ (j + 1) * s <= n * s /\ n * s \in Nat
  BY <1>2
<1>4. w + past <= s => j * w <= j * s
  <2> SUFFICES ASSUME w + past <= s PROVE j * w <= j * s
    OBVIOUS
  <2>1. PICK d \in Nat : s = w + d
    <3>1. s - w \in Nat /\ s = w + (s - w)
      OBVIOUS
    <3>2. QED  BY <3>1
  <2>2. j * s = j * w + j * d /\ j * d \in Nat
    BY <2>1
  <2>3. QED  BY <1>1, <2>2
<1> DEFINE jw == j * w  jw1 == (j + 1) * w  nw == n * w  js == j * s  js1 == (j + 1) * s  ns == n * s
<1>5. /\ jw \in Nat /\ jw1 = jw + w /\ js \in Nat /\ js1 = js + s
      /\ jw1 <= nw /\ nw \in Nat /\ js1 <= ns /\ ns \in Nat
      /\ w + past <= s => jw <= js
  BY <1>1, <1>3, <1>4
<1> HIDE DEF BlockFalls, jw, jw1, nw, js, js1, ns
<1>6. \A k \in 0..(jw - 1) : (dst + k) - (dst + jw) \notin 0..(w + past - 1)
  BY <1>5
<1>7. \A k \in jw..(jw1 - 1) :
        k - jw \in 0..(w - 1) /\ jw + (k - jw) = k /\ (dst + k) - (dst + jw) = k - jw
  BY <1>5
<1>8. \A k \in 0..(jw1 - 1) : k \in 0..(nw + past - 1) /\ k \in Nat
  BY <1>5
<1>9. w + past <= s => \A k \in js1..(ns - 1) : (dst + k) - (dst + jw) \notin 0..(w + past - 1)
  BY <1>5
<1>10. \A k \in js1..(ns - 1) : k \in js..(ns - 1) /\ k \in Nat
  BY <1>5
<1>11. \A a \in Int : a - (dst + jw) \in 0..(w + past - 1) => \E k \in 0..(nw + past - 1) : a = dst + k
  <2> SUFFICES ASSUME NEW a \in Int, a - (dst + jw) \in 0..(w + past - 1)
               PROVE  \E k \in 0..(nw + past - 1) : a = dst + k
    OBVIOUS
  <2>1. a - dst \in 0..(nw + past - 1) /\ a = dst + (a - dst)
    BY <1>5
  <2>2. QED  BY <2>1
<1>12. QED  BY <1>6, <1>7, <1>8, <1>9, <1>10, <1>11 DEF BlockFalls, jw, jw1, nw, js, js1, ns

\* A block loads sixteen bytes of memory.
LEMMA LoadedBytes ==
  ASSUME CInv, TInv, AtBlock
  PROVE  Load(mem, call.src + i * Consumed[call.kernel]) \in Bytes16
<1> DEFINE from == call.src + i * Consumed[call.kernel]
<1>1. Running /\ i < call.nBlocks
  BY DEF AtBlock
<1>2. /\ call.kernel \in Kernels /\ call.src \in Nat /\ call.dst \in Nat /\ call.nBlocks \in Nat
      /\ i \in Nat
  BY <1>1, CallFacts DEF CInv
<1>3. /\ Consumed[call.kernel] \in Nat
      /\ ReadPast(call.kernel) \in Nat /\ Consumed[call.kernel] + ReadPast(call.kernel) = 16
  BY <1>2, Strides
<1>4. \A k \in Lane : from + k \in Addresses
  <2> SUFFICES ASSUME NEW k \in Lane PROVE from + k \in Source(call)
    BY <1>1, InAddresses
  <2>1. k \in 0..(Consumed[call.kernel] + ReadPast(call.kernel) - 1)
    BY <1>3 DEF Lane
  <2>2. i * Consumed[call.kernel] + k \in 0..(call.nBlocks * Consumed[call.kernel] + ReadPast(call.kernel) - 1)
    BY <1>1, <1>2, <1>3, <2>1, WithinStride
  <2>3. from + k = call.src + (i * Consumed[call.kernel] + k)
    <3>1. i * Consumed[call.kernel] \in Nat /\ k \in Nat
      BY <1>2, <1>3, <2>1
    <3>2. QED  BY <1>2, <1>3, <3>1
  <2>4. QED  BY <2>2, <2>3 DEF Source
<1> HIDE DEF from
<1>5. Load(mem, from) \in Bytes16
  BY <1>4 DEF TInv, Load, Bytes16
<1>6. QED  BY <1>5 DEF from

\* A block adds its part of the reference and keeps the rest.
LEMMA OBlock == CInv /\ TInv /\ Decodable /\ OInv /\ Block => OInv'
<1> SUFFICES ASSUME CInv, TInv, Decodable, OInv, Block PROVE OInv'
  OBVIOUS
<1> DEFINE kernel == call.kernel
           src == call.src
           dst == call.dst
           n == call.nBlocks
           s == Consumed[kernel]
           w == Produced[kernel]
           past == WritePast(kernel)
           from == src + i * s
           to == dst + i * w
           bytes == Load(mem, from)
           out == Output(kernel, bytes)
<1>1. /\ AtBlock /\ Running /\ i < n /\ i' = i + 1
      /\ UNCHANGED <<program, calls, input>>
  BY DEF Block, AtBlock
<1>2. /\ kernel \in Kernels /\ src \in Nat /\ dst \in Nat /\ n \in Nat /\ i \in Nat
      /\ \/ Source(call) \cap Destination(call) = {}
         \/ src = dst /\ w <= s
  BY <1>1, CallFacts DEF CInv
<1>3. /\ InStride(kernel) = s /\ OutStride(kernel) = w
      /\ s \in Nat /\ w \in Nat /\ past \in Nat /\ ReadPast(kernel) \in Nat
      /\ s + ReadPast(kernel) = 16 /\ (w <= s => w + past <= s)
  BY <1>2, Strides
<1>4. mem' = Store(mem, to, out)
  BY <1>3 DEF Block
<1>5. call' = call /\ Running' /\ Destination(call)' = Destination(call)
  BY <1>1 DEF call, Running, Destination
<1>6. OutputSoFar /\ SourceAhead /\ OthersKept
  BY <1>1 DEF OInv
<1>7. \A k \in 0..(n * s - 1) : input[src + k] \in Alphabet(kernel)
  BY <1>1 DEF Decodable
<1>8. Source(call) \cup Destination(call) \subseteq Addresses
  BY <1>1, InAddresses
<1>9. bytes \in Bytes16
  BY <1>1, LoadedBytes
<1>10. DOMAIN out = 0..(w + past - 1)
  BY <1>2, OutputDomain
<1> HIDE DEF out
<1>11. ASSUME NEW a \in Addresses
       PROVE  /\ a - to \in 0..(w + past - 1) => mem'[a] = out[a - to]
              /\ a - to \notin 0..(w + past - 1) => mem'[a] = mem[a]
  BY <1>4, <1>10 DEF Store
<1>12. ASSUME NEW k \in 0..(s - 1)
       PROVE  bytes[k] = input[src + (i * s + k)] /\ bytes[k] \in Alphabet(kernel)
  <2>1. k \in Lane /\ k \in Nat
    BY <1>3 DEF Lane
  <2>2. i * s \in Nat /\ from + k = src + (i * s + k)
    BY <1>2, <1>3, <2>1
  <2>3. i * s + k \in 0..(n * s - 1)
    <3>1. k \in 0..(s + 0 - 1) /\ 0 \in Nat
      BY <1>3
    <3>2. i * s + k \in 0..(n * s + 0 - 1)
      BY <1>1, <1>2, <1>3, <3>1, WithinStride
    <3>3. n * s \in Nat
      BY <1>2, <1>3
    <3>4. QED  BY <3>2, <3>3
  <2>4. i * s + k \in (i * s)..(n * s - 1)
    <3>1. n * s \in Nat
      BY <1>2, <1>3
    <3>2. QED  BY <2>1, <2>2, <2>3, <3>1
  <2>5. mem[src + (i * s + k)] = input[src + (i * s + k)]
    BY <1>6, <2>4 DEF SourceAhead
  <2>6. bytes[k] = mem[from + k]
    BY <2>1 DEF Load
  <2>7. QED  BY <1>7, <2>2, <2>3, <2>5, <2>6
<1> HIDE DEF bytes
<1>13. ASSUME NEW j \in 0..(w - 1) PROVE out[j] = RefAt(kernel, input, src, i * w + j)
  <2>1. IsBlock(kernel, input, src, i, bytes)
    BY <1>12 DEF IsBlock
  <2>2. kernel \in Kernels /\ src \in Nat /\ i \in Nat
    BY <1>2
  <2>3. MakesBlock(kernel, input, src, i, bytes)
    BY <1>9, <2>1, <2>2, OutputBlock
  <2>4. QED  BY <2>3 DEF MakesBlock, out
<1>14. /\ \A k \in 0..(i * w - 1) : (dst + k) - to \notin 0..(w + past - 1)
       /\ \A k \in (i * w)..((i + 1) * w - 1) :
              /\ k - i * w \in 0..(w - 1) /\ i * w + (k - i * w) = k
              /\ (dst + k) - to = k - i * w
       /\ \A k \in 0..((i + 1) * w - 1) : k \in 0..(n * w + past - 1) /\ k \in Nat
       /\ w + past <= s =>
              \A k \in ((i + 1) * s)..(n * s - 1) : (dst + k) - to \notin 0..(w + past - 1)
       /\ \A k \in ((i + 1) * s)..(n * s - 1) : k \in (i * s)..(n * s - 1) /\ k \in Nat
       /\ \A a \in Int : a - to \in 0..(w + past - 1) =>
              \E k \in 0..(n * w + past - 1) : a = dst + k
  <2>1. BlockFalls(i, n, s, w, past, dst)
    BY <1>1, <1>2, <1>3, BlockPlaces
  <2>2. QED  BY <2>1 DEF BlockFalls
<1>15. ASSUME NEW a \in Int, a - to \in 0..(w + past - 1) PROVE a \in Destination(call)
  BY <1>14, <1>15 DEF Destination
<1>16. OutputSoFar'
  <2> SUFFICES ASSUME NEW k \in 0..((i + 1) * w - 1)
               PROVE  mem'[dst + k] = RefAt(kernel, input, src, k)
    BY <1>1, <1>5 DEF OutputSoFar
  <2>1. dst + k \in Addresses
    <3>1. k \in 0..(n * w + past - 1)
      BY <1>14
    <3>2. dst + k \in Destination(call)
      BY <3>1 DEF Destination
    <3>3. QED  BY <1>8, <3>2
  <2>2. CASE k \in 0..(i * w - 1)
    <3>1. mem[dst + k] = RefAt(kernel, input, src, k)
      BY <1>6, <2>2 DEF OutputSoFar
    <3>2. (dst + k) - to \notin 0..(w + past - 1)
      BY <1>14, <2>2
    <3>3. QED  BY <1>11, <2>1, <3>1, <3>2
  <2>3. CASE k \in (i * w)..((i + 1) * w - 1)
    <3>1. /\ k - i * w \in 0..(w - 1) /\ i * w + (k - i * w) = k
          /\ (dst + k) - to = k - i * w
      BY <1>14, <2>3
    <3>2. (dst + k) - to \in 0..(w + past - 1)
      BY <1>3, <3>1
    <3>3. mem'[dst + k] = out[k - i * w]
      BY <1>11, <2>1, <3>1, <3>2
    <3>4. out[k - i * w] = RefAt(kernel, input, src, i * w + (k - i * w))
      BY <1>13, <3>1
    <3>5. QED  BY <3>1, <3>3, <3>4
  <2>4. k \in 0..(i * w - 1) \/ k \in (i * w)..((i + 1) * w - 1)
    <3>1. i * w \in Nat /\ (i + 1) * w \in Nat
      BY <1>2, <1>3
    <3>2. QED  BY <3>1
  <2>5. QED  BY <2>2, <2>3, <2>4
<1>17. SourceAhead'
  <2> SUFFICES ASSUME NEW k \in ((i + 1) * s)..(n * s - 1)
               PROVE  mem'[src + k] = input[src + k]
    BY <1>1, <1>5 DEF SourceAhead
  <2>1. k \in (i * s)..(n * s - 1) /\ k \in Nat
    BY <1>14
  <2>2. mem[src + k] = input[src + k]
    BY <1>6, <2>1 DEF SourceAhead
  <2>3. src + k \in Source(call)
    <3>1. n * s \in Nat
      BY <1>2, <1>3
    <3>2. k \in 0..(n * s + ReadPast(kernel) - 1)
      BY <1>3, <2>1, <3>1
    <3>3. QED  BY <3>2 DEF Source
  <2>4. (src + k) - to \notin 0..(w + past - 1)
    <3>1. CASE Source(call) \cap Destination(call) = {}
      <4>1. src + k \in Int
        BY <1>2, <2>1
      <4>2. QED  BY <1>15, <2>3, <3>1, <4>1
    <3>2. CASE src = dst /\ w <= s
      <4>1. w + past <= s
        BY <1>3, <3>2
      <4>2. (dst + k) - to \notin 0..(w + past - 1)
        BY <1>14, <4>1
      <4>3. QED  BY <3>2, <4>2
    <3>3. QED  BY <1>2, <3>1, <3>2
  <2>5. QED  BY <1>8, <1>11, <2>2, <2>3, <2>4
<1>18. OthersKept'
  <2> SUFFICES ASSUME NEW a \in (Addresses \cap Nat) \ Destination(call)
               PROVE  mem'[a] = input[a]
    BY <1>1, <1>5 DEF OthersKept
  <2>1. mem[a] = input[a]
    BY <1>6 DEF OthersKept
  <2>2. a \in Int /\ a \in Addresses
    OBVIOUS
  <2>3. a - to \notin 0..(w + past - 1)
    BY <1>15, <2>2
  <2>4. QED  BY <1>11, <2>1, <2>2, <2>3
<1>19. QED  BY <1>16, <1>17, <1>18 DEF OInv

\* The next call's input is memory as the last one left it.
LEMMA OReturn == CInv /\ CInv' /\ Return => OInv'
<1> SUFFICES ASSUME CInv, CInv', Return, Running'
             PROVE  OutputSoFar' /\ SourceAhead' /\ OthersKept'
  BY DEF OInv
<1>1. i' = 0 /\ input' = mem /\ mem' = mem
  BY DEF Return
<1>2. call'.kernel \in Kernels
  <2>1. program' \in Programs /\ program' \in Seq({program'[n] : n \in DOMAIN program'}) /\ calls' \in Nat
    BY CodecAssumption DEF CInv
  <2>2. calls' + 1 \in DOMAIN program'
    BY <2>1 DEF Running
  <2>3. call' \in {program'[n] : n \in DOMAIN program'}
    BY <2>2 DEF call
  <2>4. QED  BY <2>1, <2>3, CodecAssumption
<1>3. i' * Produced[call'.kernel] = 0
  BY <1>1, <1>2, Strides
<1>4. QED  BY <1>1, <1>3 DEF OutputSoFar, SourceAhead, OthersKept

\* Every step preserves the loop's invariant.
LEMMA OStep == CInv /\ CInv' /\ TInv /\ Decodable /\ OInv /\ [Next]_vars => OInv'
<1>1. ASSUME OInv, UNCHANGED vars PROVE OInv'
  BY <1>1 DEF vars, OInv, OutputSoFar, SourceAhead, OthersKept, Running, call, Destination
<1>2. QED  BY <1>1, OBlock, OReturn DEF Next

\* While every call is passed what its kernel accepts, the loop's invariant holds.
THEOREM OutputInvariance == Spec /\ []Decodable => []OInv
<1>1. QED  BY Invariance, TypedMemory, OInitially, OStep, PTL DEF Spec

\* For any programs, buffers of any length and any bytes in them: while every call
\* is passed what its kernel accepts, what the blocks done so far have stored is the
\* encoding, byte by byte, of what the call found.
THEOREM OutputWhileDecodable == Spec /\ []Decodable => []OutputIsReference
<1>1. QED  BY OutputInvariance, OutputFromInvariant, PTL

-----------------------------------------------------------------------------
(* The chain: what was encoded is what the decoder makes of it. *)

\* The two digits of a byte, in either case, stand for it.
LEMMA HexRound ==
  ASSUME NEW b \in Byte, NEW c, NEW d, Stands(c, b \div 16), Stands(d, b % 16)
  PROVE  16 * HexValue(c) + HexValue(d) = b
<1>1. b \div 16 \in 0..15 /\ b % 16 \in 0..15 /\ b = 16 * (b \div 16) + (b % 16)
  BY DEF Byte
<1>2. HexValue(c) = b \div 16 /\ HexValue(d) = b % 16
  BY <1>1, HexValues
<1>3. QED  BY <1>1, <1>2

\* The upper case of a digit stands for the same.
LEMMA StandsByte ==
  ASSUME NEW n \in 0..15, NEW c, Stands(c, n)
  PROVE  c \in HexDigits /\ Stands(ToUpper(c), n)
<1>1. HexChar(n) \in 48..57 \/ HexChar(n) \in 97..102
  BY DEF HexChar
<1>2. c \in Byte
  BY <1>1 DEF Stands, ToUpper, Byte
<1>3. ToUpper(c) = ToUpper(HexChar(n))
  BY <1>1 DEF Stands, ToUpper
<1>4. QED  BY <1>2, <1>3 DEF HexDigits, Stands

\* The three bytes of the four indexes of three bytes are those bytes.
LEMMA SextetsRound ==
  ASSUME NEW b0 \in Byte, NEW b1 \in Byte, NEW b2 \in Byte, NEW j \in 0..2
  PROVE  OfSextets(Sextet(b0, b1, b2, 0), Sextet(b0, b1, b2, 1),
                   Sextet(b0, b1, b2, 2), Sextet(b0, b1, b2, 3), j)
           = IF j = 0 THEN b0 ELSE IF j = 1 THEN b1 ELSE b2
<1> DEFINE x0 == b0 \div 4  y0 == b0 % 4  x1 == b1 \div 16  y1 == b1 % 16
           x2 == b2 \div 64  y2 == b2 % 64
<1>1. /\ x0 \in 0..63 /\ y0 \in 0..3 /\ b0 = 4 * x0 + y0
      /\ x1 \in 0..15 /\ y1 \in 0..15 /\ b1 = 16 * x1 + y1
      /\ x2 \in 0..3 /\ y2 \in 0..63 /\ b2 = 64 * x2 + y2
  BY DEF Byte
<1>2. /\ Sextet(b0, b1, b2, 0) = x0 /\ Sextet(b0, b1, b2, 1) = 16 * y0 + x1
      /\ Sextet(b0, b1, b2, 2) = 4 * y1 + x2 /\ Sextet(b0, b1, b2, 3) = y2
  BY DEF Sextet
<1> HIDE DEF x0, y0, x1, y1, x2, y2
<1>3. /\ (16 * y0 + x1) \div 16 = y0 /\ (16 * y0 + x1) % 16 = x1
      /\ (4 * y1 + x2) \div 4 = y1 /\ (4 * y1 + x2) % 4 = x2
  BY <1>1
<1>4. OfSextets(x0, 16 * y0 + x1, 4 * y1 + x2, y2, j)
        = IF j = 0 THEN 4 * x0 + y0 ELSE IF j = 1 THEN 16 * x1 + y1 ELSE 64 * x2 + y2
  <2>1. j = 0 \/ j = 1 \/ j = 2
    OBVIOUS
  <2>2. QED  BY <1>3, <2>1 DEF OfSextets
<1>5. QED  BY <1>1, <1>2, <1>4

\* The first call of a program, the bytes it encodes, and the digits it makes.
First == program[1]
Encoded == First.nBlocks * Consumed[First.kernel]
DigitCount == First.nBlocks * Produced[First.kernel]

\* c is digit j of what the call f encoded.
IsDigit(f, c, m, j) ==
  /\ f.kernel = "hex_encode" => Stands(c, HexDigitAt(m, f.src, j))
  /\ f.kernel = "base64_encode" => c = RefAt("base64_encode", m, f.src, j)

\* The running call was passed the digits of what the first call encoded, which is
\* still where the first call read it.
Digitised ==
  /\ call.nBlocks * Consumed[call.kernel] = DigitCount
  /\ \A j \in 0..(DigitCount - 1) : IsDigit(First, input[call.src + j], input, j)

\* The inductive invariant of a chain.
RInv ==
  /\ First.kernel # "toupper" /\ Running /\ calls >= 1 => Digitised
  /\ RoundTrip

\* The program is a chain that begins with an encoder.
Encodes == CInv /\ Chained(program) /\ First.kernel # "toupper"

\* An encoder expands: its buffers are apart, so it keeps what it encodes.
LEMMA FirstFacts ==
  ASSUME Encodes
  PROVE  /\ Len(program) \in Nat /\ Len(program) >= 2
         /\ First.src \in Nat /\ First.dst \in Nat /\ First.nBlocks \in Nat
         /\ \/ First.kernel = "hex_encode" /\ Encoded = First.nBlocks * 16 /\ DigitCount = First.nBlocks * 32
            \/ First.kernel = "base64_encode" /\ Encoded = First.nBlocks * 12 /\ DigitCount = First.nBlocks * 16
         /\ \A k \in 0..(Encoded - 1) :
              First.src + k \in Addresses /\ First.src + k \in Nat /\ First.src + k \notin Destination(First)
<1>1. program \in Programs /\ Chained(program) /\ First.kernel # "toupper"
  BY DEF Encodes, CInv
<1>2. program \in Seq({program[n] : n \in DOMAIN program})
  BY <1>1, CodecAssumption
<1>3. Len(program) \in Nat /\ DOMAIN program = 1..Len(program)
  BY <1>2
<1>4. /\ Len(program) >= 2
      /\ First.kernel = "hex_encode" \/ First.kernel = "base64_encode"
  BY <1>1, <1>3 DEF Chained, First
<1>5. First \in {program[n] : n \in DOMAIN program}
  BY <1>3, <1>4 DEF First
<1>6. /\ First.kernel \in Kernels /\ First.src \in Nat /\ First.dst \in Nat /\ First.nBlocks \in Nat
      /\ Source(First) \cup Destination(First) \subseteq Addresses
      /\ \/ Source(First) \cap Destination(First) = {}
         \/ First.src = First.dst /\ Produced[First.kernel] <= Consumed[First.kernel]
  BY <1>1, <1>5, CodecAssumption
<1>7. 2 * 16 = 32
  OBVIOUS
<1>8. /\ First.kernel = "hex_encode" => Consumed[First.kernel] = 16 /\ Produced[First.kernel] = 32
      /\ First.kernel = "base64_encode" => Consumed[First.kernel] = 12 /\ Produced[First.kernel] = 16
  BY <1>7 DEF Consumed, Produced, Kernels
<1>9. Source(First) \cap Destination(First) = {}
  BY <1>4, <1>6, <1>8
<1>10. \A k \in 0..(Encoded - 1) : First.src + k \in Source(First) /\ First.src + k \in Nat
  <2> SUFFICES ASSUME NEW k \in 0..(Encoded - 1) PROVE First.src + k \in Source(First) /\ First.src + k \in Nat
    OBVIOUS
  <2>1. Encoded \in Nat /\ ReadPast(First.kernel) \in Nat
    <3>1. ReadPast(First.kernel) \in Nat /\ Consumed[First.kernel] \in Nat
      BY <1>6, Strides, Zenon
    <3>2. First.nBlocks * Consumed[First.kernel] \in Nat
      BY <1>6, <3>1
    <3>3. QED  BY <3>1, <3>2 DEF Encoded
  <2>2. k \in 0..(Encoded + ReadPast(First.kernel) - 1) /\ k \in Nat
    BY <2>1
  <2>3. QED  BY <1>6, <2>2 DEF Source, Encoded
<1>11. QED  BY <1>3, <1>4, <1>6, <1>8, <1>9, <1>10 DEF Encoded, DigitCount

\* No later call writes on what was encoded, and which kernels those are.
LEMMA LaterFacts ==
  ASSUME Encodes, Running, calls >= 1
  PROVE  /\ \A k \in 0..(Encoded - 1) : First.src + k \notin Destination(call)
         /\ \/ /\ calls + 1 < Len(program) /\ First.kernel = "hex_encode" /\ call.kernel = "toupper"
            \/ /\ calls + 1 = Len(program)
               /\ First.kernel = "hex_encode" => call.kernel = "hex_decode"
               /\ First.kernel = "base64_encode" => call.kernel = "base64_decode"
<1>1. Chained(program) /\ First.kernel # "toupper" /\ calls \in Nat
  BY DEF Encodes, CInv
<1>2. Len(program) \in Nat /\ Len(program) >= 2
  BY FirstFacts
<1>3. calls + 1 \in 2..Len(program)
  BY <1>1, <1>2 DEF Running
<1>4. /\ \/ /\ First.kernel = "hex_encode" /\ program[Len(program)].kernel = "hex_decode"
            /\ \A n \in 2..(Len(program) - 1) : program[n].kernel = "toupper"
         \/ First.kernel = "base64_encode" /\ Len(program) = 2 /\ program[2].kernel = "base64_decode"
      /\ \A n \in 2..Len(program) : Destination(program[n]) \cap {First.src + k : k \in 0..(Encoded - 1)} = {}
  <2>1. 1 \in 1..Len(program)
    BY <1>2
  <2>2. ~(\A n \in 1..Len(program) : program[n].kernel = "toupper")
    BY <1>1, <2>1 DEF First
  <2>3. /\ \/ /\ First.kernel = "hex_encode" /\ program[Len(program)].kernel = "hex_decode"
              /\ \A n \in 2..(Len(program) - 1) : program[n].kernel = "toupper"
           \/ First.kernel = "base64_encode" /\ Len(program) = 2 /\ program[2].kernel = "base64_decode"
    BY <1>1, <2>2, Zenon DEF Chained, First
  <2>4. \A n \in 2..Len(program) : Destination(program[n]) \cap {First.src + k : k \in 0..(Encoded - 1)} = {}
    BY <1>1, <2>2, Zenon DEF Chained, First, Encoded
  <2>5. QED  BY <2>3, <2>4
<1>5. \A k \in 0..(Encoded - 1) : First.src + k \notin Destination(call)
  BY <1>3, <1>4 DEF call
<1>6. CASE calls + 1 = Len(program)
  BY <1>4, <1>5, <1>6 DEF call
<1>7. CASE calls + 1 # Len(program)
  <2>1. calls + 1 < Len(program) /\ calls + 1 \in 2..(Len(program) - 1) /\ Len(program) # 2
    BY <1>1, <1>2, <1>3, <1>7
  <2>2. QED  BY <1>4, <1>5, <2>1 DEF call
<1>8. QED  BY <1>6, <1>7

\* The call after the running one takes up what this one writes.
LEMMA NextFacts ==
  ASSUME Encodes, Running, calls + 1 < Len(program)
  PROVE  /\ program[calls + 2].src = call.dst
         /\ program[calls + 2].nBlocks * Consumed[program[calls + 2].kernel] = call.nBlocks * Produced[call.kernel]
<1>1. Chained(program) /\ First.kernel # "toupper" /\ calls \in Nat
  BY DEF Encodes, CInv
<1>2. Len(program) \in Nat /\ Len(program) >= 2
  BY FirstFacts
<1>3. calls + 2 \in 2..Len(program) /\ (calls + 2) - 1 = calls + 1
  BY <1>1, <1>2
<1>4. \A n \in 2..Len(program) :
        /\ program[n].src = program[n - 1].dst
        /\ program[n].nBlocks * Consumed[program[n].kernel]
             = program[n - 1].nBlocks * Produced[program[n - 1].kernel]
  <2>1. 1 \in 1..Len(program)
    BY <1>2
  <2>2. ~(\A n \in 1..Len(program) : program[n].kernel = "toupper")
    BY <1>1, <2>1 DEF First
  <2>3. QED  BY <1>1, <2>2, Zenon DEF Chained, First
<1>5. QED  BY <1>3, <1>4 DEF call

\* What was encoded is as the running call found it.
LEMMA FirstKept ==
  ASSUME Encodes, TInv, Running, OInv, NEW k \in 0..(Encoded - 1)
  PROVE  mem[First.src + k] = input[First.src + k] /\ input[First.src + k] \in Byte
<1>1. First.src + k \in Addresses /\ First.src + k \in Nat /\ First.src + k \notin Destination(First)
  BY FirstFacts
<1>2. First.src + k \notin Destination(call)
  <2>1. CASE calls = 0
    BY <1>1, <2>1 DEF call, First
  <2>2. CASE calls >= 1
    BY <2>2, LaterFacts
  <2>3. QED  BY <2>1, <2>2 DEF Encodes, CInv
<1>3. OthersKept
  BY DEF OInv
<1>4. QED  BY <1>1, <1>2, <1>3 DEF OthersKept, TInv

\* A digit is that of any memory which agrees on what was encoded.
LEMMA DigitsKept ==
  ASSUME Encodes, NEW c, NEW m, NEW w,
         \A k \in 0..(Encoded - 1) : w[First.src + k] = m[First.src + k] /\ m[First.src + k] \in Byte,
         NEW j \in 0..(DigitCount - 1), IsDigit(First, c, m, j)
  PROVE  IsDigit(First, c, w, j)
<1> DEFINE f == First.nBlocks
           s == First.src
<1>1. f \in Nat /\ s \in Nat
  BY FirstFacts
<1>2. CASE First.kernel = "hex_encode"
  <2>1. Encoded = f * 16 /\ DigitCount = f * 32
    BY <1>2, FirstFacts
  <2> HIDE DEF f
  <2>2. j \div 2 \in 0..(Encoded - 1)
    BY <1>1, <2>1
  <2>3. w[s + (j \div 2)] = m[s + (j \div 2)]
    BY <2>2
  <2>4. HexDigitAt(w, s, j) = HexDigitAt(m, s, j)
    BY <2>3 DEF HexDigitAt
  <2>5. QED  BY <1>2, <2>4 DEF IsDigit
<1>3. CASE First.kernel = "base64_encode"
  <2>1. Encoded = f * 12 /\ DigitCount = f * 16
    BY <1>3, FirstFacts
  <2> DEFINE g == j \div 4  q == j % 4
  <2> HIDE DEF f
  <2>2. g \in Nat /\ q \in 0..3 /\ j = 4 * g + q
    BY <1>1, <2>1
  <2>3. 3 * g \in 0..(Encoded - 1) /\ 3 * g + 1 \in 0..(Encoded - 1) /\ 3 * g + 2 \in 0..(Encoded - 1)
    BY <1>1, <2>1
  <2> HIDE DEF g, q
  <2>4. /\ w[s + 3 * g] = m[s + 3 * g] /\ w[s + (3 * g + 1)] = m[s + (3 * g + 1)]
        /\ w[s + (3 * g + 2)] = m[s + (3 * g + 2)]
    BY <2>3
  <2>5. ThreeBytes(m, s, g) /\ ThreeBytes(w, s, g)
    BY <2>3, <2>4 DEF ThreeBytes
  <2>6. RefAt("base64_encode", m, s, 4 * g + q)
           = Base64Char(Sextet(m[s + 3 * g], m[s + (3 * g + 1)], m[s + (3 * g + 2)], q))
    BY <2>2, <2>5, RefEncode
  <2>7. RefAt("base64_encode", w, s, 4 * g + q)
           = Base64Char(Sextet(w[s + 3 * g], w[s + (3 * g + 1)], w[s + (3 * g + 2)], q))
    BY <2>2, <2>5, RefEncode
  <2>8. RefAt("base64_encode", w, s, j) = RefAt("base64_encode", m, s, j)
    BY <2>2, <2>4, <2>6, <2>7
  <2>9. QED  BY <1>3, <2>8 DEF IsDigit
<1>4. QED  BY <1>2, <1>3, FirstFacts

\* What the digits of the first call stand for.
LEMMA DigitBytes ==
  ASSUME Encodes, NEW m, \A k \in 0..(Encoded - 1) : m[First.src + k] \in Byte,
         NEW j \in 0..(DigitCount - 1), NEW c, IsDigit(First, c, m, j)
  PROVE  /\ First.kernel = "hex_encode" =>
              HexDigitAt(m, First.src, j) \in 0..15 /\ Stands(c, HexDigitAt(m, First.src, j))
         /\ First.kernel = "base64_encode" => c \in Base64Chars
<1> DEFINE f == First.nBlocks
           s == First.src
<1>1. f \in Nat /\ s \in Nat
  BY FirstFacts
<1>2. CASE First.kernel = "hex_encode"
  <2>1. Encoded = f * 16 /\ DigitCount = f * 32
    BY <1>2, FirstFacts
  <2> HIDE DEF f
  <2>2. j \div 2 \in 0..(Encoded - 1)
    BY <1>1, <2>1
  <2>3. m[s + (j \div 2)] \in 0..255
    BY <2>2 DEF Byte
  <2>4. HexDigitAt(m, s, j) \in 0..15
    BY <2>3 DEF HexDigitAt
  <2>5. QED  BY <1>2, <2>4 DEF IsDigit
<1>3. CASE First.kernel = "base64_encode"
  <2>1. Encoded = f * 12 /\ DigitCount = f * 16
    BY <1>3, FirstFacts
  <2> DEFINE g == j \div 4  q == j % 4
  <2> HIDE DEF f
  <2>2. g \in Nat /\ q \in 0..3 /\ j = 4 * g + q
    BY <1>1, <2>1
  <2>3. 3 * g \in 0..(Encoded - 1) /\ 3 * g + 1 \in 0..(Encoded - 1) /\ 3 * g + 2 \in 0..(Encoded - 1)
    BY <1>1, <2>1
  <2> HIDE DEF g, q
  <2>4. ThreeBytes(m, s, g)
    BY <2>3 DEF ThreeBytes
  <2> DEFINE x == Sextet(m[s + 3 * g], m[s + (3 * g + 1)], m[s + (3 * g + 2)], q)
  <2>5. RefAt("base64_encode", m, s, 4 * g + q) = Base64Char(x)
    BY <2>2, <2>4, RefEncode
  <2>6. x \in 0..63
    BY <2>2, <2>4, SextetsAre DEF ThreeBytes
  <2> HIDE DEF x
  <2>7. Base64Char(x) \in Byte
    <3>1. \/ Base64Char(x) \in 65..90 \/ Base64Char(x) \in 97..122 \/ Base64Char(x) \in 48..57
          \/ Base64Char(x) = 43 \/ Base64Char(x) = 47
      BY <2>6, CharValues
    <3>2. QED  BY <3>1 DEF Byte
  <2>8. c = Base64Char(x)
    BY <1>3, <2>2, <2>5 DEF IsDigit
  <2>9. QED  BY <1>3, <2>6, <2>7, <2>8 DEF Base64Chars
<1>4. QED  BY <1>2, <1>3, FirstFacts

\* hex_decode's reference, of the digits, is the byte they came from.
LEMMA HexDecoded ==
  ASSUME Encodes, First.kernel = "hex_encode",
         NEW m, \A k \in 0..(Encoded - 1) : m[First.src + k] \in Byte,
         NEW s \in Nat, \A j \in 0..(DigitCount - 1) : IsDigit(First, m[s + j], m, j),
         NEW k \in 0..(Encoded - 1)
  PROVE  RefAt("hex_decode", m, s, k) = m[First.src + k]
<1> DEFINE f == First.nBlocks
           b == m[First.src + k]
<1>1. f \in Nat /\ Encoded = f * 16 /\ DigitCount = f * 32
  BY FirstFacts
<1> HIDE DEF f
<1>2. 2 * k \in 0..(DigitCount - 1) /\ 2 * k + 1 \in 0..(DigitCount - 1)
  BY <1>1
<1>3. /\ (2 * k) % 2 = 0 /\ (2 * k) \div 2 = k /\ (2 * k + 1) % 2 = 1 /\ (2 * k + 1) \div 2 = k
  BY <1>1
<1>4. HexDigitAt(m, First.src, 2 * k) = b \div 16 /\ HexDigitAt(m, First.src, 2 * k + 1) = b % 16
  BY <1>3 DEF HexDigitAt
<1>5. Stands(m[s + 2 * k], b \div 16) /\ Stands(m[s + (2 * k + 1)], b % 16)
  BY <1>2, <1>4 DEF IsDigit
<1>6. b \in Byte
  OBVIOUS
<1> HIDE DEF b
<1>7. 16 * HexValue(m[s + 2 * k]) + HexValue(m[s + (2 * k + 1)]) = b
  BY <1>5, <1>6, HexRound
<1>8. QED  BY <1>7, RefCases DEF b

\* base64_decode's reference, of the characters, is the byte they came from.
LEMMA Base64Decoded ==
  ASSUME Encodes, First.kernel = "base64_encode",
         NEW m, \A k \in 0..(Encoded - 1) : m[First.src + k] \in Byte,
         NEW s \in Nat, \A j \in 0..(DigitCount - 1) : IsDigit(First, m[s + j], m, j),
         NEW k \in 0..(Encoded - 1)
  PROVE  RefAt("base64_decode", m, s, k) = m[First.src + k]
<1> DEFINE f == First.nBlocks
           g == k \div 3
           t == k % 3
           b0 == m[First.src + 3 * g]
           b1 == m[First.src + (3 * g + 1)]
           b2 == m[First.src + (3 * g + 2)]
           sextet(q) == Sextet(b0, b1, b2, q)
<1>1. f \in Nat /\ Encoded = f * 12 /\ DigitCount = f * 16
  BY FirstFacts
<1> HIDE DEF f
<1>2. /\ g \in Nat /\ t \in 0..2 /\ k = 3 * g + t
      /\ 3 * g \in 0..(Encoded - 1) /\ 3 * g + 1 \in 0..(Encoded - 1) /\ 3 * g + 2 \in 0..(Encoded - 1)
      /\ 4 * g \in 0..(DigitCount - 1) /\ 4 * g + 1 \in 0..(DigitCount - 1)
      /\ 4 * g + 2 \in 0..(DigitCount - 1) /\ 4 * g + 3 \in 0..(DigitCount - 1)
  BY <1>1
<1> HIDE DEF g, t
<1>3. b0 \in Byte /\ b1 \in Byte /\ b2 \in Byte /\ ThreeBytes(m, First.src, g)
  BY <1>2 DEF ThreeBytes
<1> HIDE DEF b0, b1, b2
<1>4. ASSUME NEW q \in 0..3, 4 * g + q \in 0..(DigitCount - 1)
      PROVE  /\ m[s + (4 * g + q)] = Base64Char(sextet(q)) /\ m[s + (4 * g + q)] \in Base64Chars
             /\ Base64Value(m[s + (4 * g + q)]) = sextet(q)
  <2>1. IsDigit(First, m[s + (4 * g + q)], m, 4 * g + q)
    BY <1>4
  <2>2. m[s + (4 * g + q)] \in Base64Chars
    BY <1>4, <2>1, DigitBytes
  <2>3. RefAt("base64_encode", m, First.src, 4 * g + q) = Base64Char(sextet(q))
    BY <1>2, <1>3, RefEncode DEF b0, b1, b2
  <2>4. m[s + (4 * g + q)] = Base64Char(sextet(q))
    BY <2>1, <2>3 DEF IsDigit
  <2>5. sextet(q) \in 0..63
    BY <1>3, SextetsAre
  <2> HIDE DEF sextet
  <2>6. Base64Value(Base64Char(sextet(q))) = sextet(q)
    BY <2>5, CharValues, Zenon
  <2>7. QED  BY <2>2, <2>4, <2>6, Zenon
<1>5. /\ m[s + 4 * g] \in Base64Chars /\ Base64Value(m[s + 4 * g]) = sextet(0)
      /\ m[s + (4 * g + 1)] \in Base64Chars /\ Base64Value(m[s + (4 * g + 1)]) = sextet(1)
      /\ m[s + (4 * g + 2)] \in Base64Chars /\ Base64Value(m[s + (4 * g + 2)]) = sextet(2)
      /\ m[s + (4 * g + 3)] \in Base64Chars /\ Base64Value(m[s + (4 * g + 3)]) = sextet(3)
  <2> HIDE DEF sextet
  <2>1. 4 * g + 0 = 4 * g
    BY <1>2
  <2>2. m[s + 4 * g] \in Base64Chars /\ Base64Value(m[s + 4 * g]) = sextet(0)
    BY <1>2, <1>4, <2>1
  <2>3. QED  BY <1>2, <1>4, <2>2
<1>6. RefAt("base64_decode", m, s, 3 * g + t)
        = OfSextets(sextet(0), sextet(1), sextet(2), sextet(3), t)
  <2> HIDE DEF sextet
  <2>1. RefAt("base64_decode", m, s, 3 * g + t)
           = OfSextets(Base64Value(m[s + 4 * g]), Base64Value(m[s + (4 * g + 1)]),
                       Base64Value(m[s + (4 * g + 2)]), Base64Value(m[s + (4 * g + 3)]), t)
    BY <1>2, <1>5, RefDecode
  <2>2. QED  BY <1>5, <2>1
<1>7. OfSextets(sextet(0), sextet(1), sextet(2), sextet(3), t)
        = IF t = 0 THEN b0 ELSE IF t = 1 THEN b1 ELSE b2
  BY <1>2, <1>3, SextetsRound
<1>8. m[First.src + k] = IF t = 0 THEN b0 ELSE IF t = 1 THEN b1 ELSE b2
  <2>1. t = 0 \/ t = 1 \/ t = 2
    BY <1>2
  <2>2. t = 0 => k = 3 * g
    BY <1>2
  <2>3. QED  BY <1>2, <2>1, <2>2 DEF b0, b1, b2
<1>9. QED  BY <1>2, <1>6, <1>7, <1>8

\* Every call of a chain is passed what its kernel accepts: an encoder or toupper any
\* bytes, and a decoder the digits of the first call.
LEMMA RImpliesDecodable ==
  ASSUME CInv, TInv, Chained(program), OInv, RInv
  PROVE  Decodable
<1> SUFFICES ASSUME Running, NEW k \in 0..(call.nBlocks * Consumed[call.kernel] - 1)
             PROVE  input[call.src + k] \in Alphabet(call.kernel)
  BY DEF Decodable
<1>1. call.kernel \in Kernels /\ call.src \in Nat /\ call.nBlocks \in Nat
  BY CallFacts
<1>2. input[call.src + k] \in Byte
  <2>1. Consumed[call.kernel] \in Nat /\ ReadPast(call.kernel) \in Nat
    BY <1>1, Strides
  <2>2. call.nBlocks * Consumed[call.kernel] \in Nat
    BY <1>1, <2>1
  <2>3. k \in 0..(call.nBlocks * Consumed[call.kernel] + ReadPast(call.kernel) - 1)
    BY <2>1, <2>2
  <2>4. call.src + k \in Addresses
    BY <2>3, InAddresses DEF Source
  <2>5. QED  BY <2>4 DEF TInv
<1>3. CASE call.kernel \notin {"hex_decode", "base64_decode"}
  BY <1>2, <1>3 DEF Alphabet
<1>4. CASE call.kernel \in {"hex_decode", "base64_decode"}
  <2>1. First.kernel # "toupper"
    <3>1. calls \in Nat /\ program \in Seq({program[n] : n \in DOMAIN program})
      BY CodecAssumption DEF CInv
    <3>2. calls + 1 \in 1..Len(program) /\ (Len(program) >= 1 => 1 \in 1..Len(program))
      BY <3>1 DEF Running
    <3>3. program[calls + 1].kernel # "toupper"
      BY <1>4 DEF call
    <3>4. ~(\A n \in 1..Len(program) : program[n].kernel = "toupper")
      BY <3>2, <3>3
    <3>5. program[1].kernel = "hex_encode" \/ program[1].kernel = "base64_encode"
      BY <3>4 DEF Chained
    <3>6. QED  BY <3>5 DEF First
  <2>2. Encodes
    BY <2>1 DEF Encodes
  <2>3. First.kernel = "hex_encode" \/ First.kernel = "base64_encode"
    BY <2>2, FirstFacts
  <2>4. calls >= 1
    <3>1. calls \in Nat /\ (calls = 0 => call = First)
      BY DEF CInv, call, First
    <3>2. QED  BY <1>4, <2>3, <3>1
  <2>5. Digitised
    BY <2>1, <2>4 DEF RInv
  <2>6. k \in 0..(DigitCount - 1) /\ IsDigit(First, input[call.src + k], input, k)
    BY <2>5 DEF Digitised
  <2>7. \A x \in 0..(Encoded - 1) : input[First.src + x] \in Byte
    BY <2>2, FirstKept
  <2>8. /\ First.kernel = "hex_encode" => call.kernel = "hex_decode"
        /\ First.kernel = "base64_encode" => call.kernel = "base64_decode"
    BY <1>4, <2>2, <2>4, LaterFacts
  <2>9. CASE First.kernel = "hex_encode"
    <3>1. HexDigitAt(input, First.src, k) \in 0..15
          /\ Stands(input[call.src + k], HexDigitAt(input, First.src, k))
      BY <2>2, <2>6, <2>7, <2>9, DigitBytes
    <3>2. input[call.src + k] \in HexDigits
      BY <3>1, StandsByte
    <3>3. QED  BY <2>8, <2>9, <3>2 DEF Alphabet
  <2>10. CASE First.kernel = "base64_encode"
    <3>1. input[call.src + k] \in Base64Chars
      BY <2>2, <2>6, <2>7, <2>10, DigitBytes
    <3>2. QED  BY <2>8, <2>10, <3>1 DEF Alphabet
  <2>11. QED  BY <2>3, <2>9, <2>10
<1>5. QED  BY <1>3, <1>4

\* A chain has begun nothing, and is not at its end.
LEMMA RInitially ==
  ASSUME \A p \in Programs : Chained(p)
  PROVE  Init => RInv
<1> SUFFICES ASSUME Init PROVE RInv
  OBVIOUS
<1>1. calls = 0 /\ program \in Programs /\ CInv
  BY Initially DEF Init
<1>2. ASSUME First.kernel # "toupper" PROVE Running
  <2>1. Len(program) \in Nat /\ Len(program) >= 2
    BY <1>1, <1>2, FirstFacts DEF Encodes
  <2>2. QED  BY <1>1, <2>1 DEF Running
<1>3. RoundTrip
  BY <1>2 DEF RoundTrip, First
<1>4. QED  BY <1>1, <1>3 DEF RInv

\* What a call that returns has written is its reference, whole.
LEMMA Finished ==
  ASSUME CInv, OInv, Return,
         NEW k \in 0..(call.nBlocks * Produced[call.kernel] - 1)
  PROVE  mem[call.dst + k] = RefAt(call.kernel, input, call.src, k)
<1>1. Running /\ ~(i < call.nBlocks) /\ i <= call.nBlocks /\ i \in Nat
  BY DEF Return, AtBlock, CInv
<1>2. call.nBlocks \in Nat
  BY <1>1, CallFacts
<1>3. i = call.nBlocks
  BY <1>1, <1>2
<1>4. QED  BY <1>1, <1>3 DEF OInv, OutputSoFar

\* The digits a call leaves are those the next one is passed.
LEMMA Handed ==
  ASSUME Encodes, TInv, OInv, Return, calls + 1 < Len(program),
         call.nBlocks * Produced[call.kernel] = DigitCount,
         \A j \in 0..(DigitCount - 1) : IsDigit(First, mem[call.dst + j], input, j)
  PROVE  RInv'
<1>1. Running /\ calls \in Nat /\ calls' = calls + 1 /\ program' = program /\ mem' = mem /\ input' = mem
  BY DEF Return, Encodes, CInv
<1>2. Running'
  BY <1>1 DEF Running
<1>3. First' = First /\ DigitCount' = DigitCount
  BY <1>1 DEF First, DigitCount
<1>4. call' = program[calls + 2]
  <2>1. (calls + 1) + 1 = calls + 2
    BY <1>1
  <2>2. QED  BY <1>1, <2>1 DEF call
<1>5. call'.src = call.dst /\ call'.nBlocks * Consumed[call'.kernel] = DigitCount
  BY <1>1, <1>4, NextFacts
<1>6. \A k \in 0..(Encoded - 1) : mem[First.src + k] = input[First.src + k] /\ input[First.src + k] \in Byte
  BY <1>1, FirstKept
<1>7. \A j \in 0..(DigitCount - 1) : IsDigit(First, mem[call.dst + j], mem, j)
  BY <1>6, DigitsKept
<1>8. Digitised'
  BY <1>1, <1>3, <1>5, <1>7 DEF Digitised
<1>9. RoundTrip'
  BY <1>2 DEF RoundTrip
<1>10. QED  BY <1>8, <1>9 DEF RInv

\* A return hands the digits on, in upper case or as they were, or ends the chain with
\* what was encoded.
LEMMA RReturn ==
  ASSUME CInv, TInv, Chained(program), OInv, RInv, Return
  PROVE  RInv'
<1>1. Running /\ calls \in Nat /\ calls' = calls + 1 /\ program' = program /\ mem' = mem /\ input' = mem
  BY DEF Return, CInv
<1>2. CASE First.kernel = "toupper"
  <2>1. First' = First
    BY <1>1 DEF First
  <2>2. QED  BY <1>2, <2>1 DEF RInv, RoundTrip, First
<1>3. CASE First.kernel # "toupper"
  <2> DEFINE n == call.nBlocks
             f == First.nBlocks
  <2>1. Encodes
    BY <1>3 DEF Encodes
  <2>2. /\ Len(program) \in Nat /\ Len(program) >= 2
        /\ First.src \in Nat /\ First.dst \in Nat /\ f \in Nat
        /\ \/ First.kernel = "hex_encode" /\ Encoded = f * 16 /\ DigitCount = f * 32
           \/ First.kernel = "base64_encode" /\ Encoded = f * 12 /\ DigitCount = f * 16
    BY <2>1, FirstFacts
  <2>3. n \in Nat /\ call.src \in Nat
    BY <1>1, CallFacts
  <2>4. \A k \in 0..(n * Produced[call.kernel] - 1) :
          mem[call.dst + k] = RefAt(call.kernel, input, call.src, k)
    BY Finished
  <2>5. \A k \in 0..(Encoded - 1) : mem[First.src + k] = input[First.src + k] /\ input[First.src + k] \in Byte
    BY <1>1, <2>1, FirstKept
  <2>6. CASE calls = 0
    <3>1. call = First /\ n * Produced[call.kernel] = DigitCount
      BY <2>6 DEF call, First, DigitCount
    <3>2. ASSUME NEW j \in 0..(DigitCount - 1) PROVE IsDigit(First, mem[call.dst + j], input, j)
      <4>1. mem[call.dst + j] = RefAt(First.kernel, input, First.src, j)
        BY <2>4, <3>1
      <4>2. RefAt("hex_encode", input, First.src, j) = HexChar(HexDigitAt(input, First.src, j))
        BY RefCases
      <4>3. QED  BY <4>1, <4>2 DEF IsDigit, Stands
    <3>3. calls + 1 < Len(program)
      BY <2>2, <2>6
    <3>4. QED  BY <2>1, <3>1, <3>2, <3>3, Handed
  <2>7. CASE calls >= 1 /\ calls + 1 < Len(program)
    <3>1. First.kernel = "hex_encode" /\ call.kernel = "toupper"
      BY <1>1, <2>1, <2>7, LaterFacts
    <3>2. n * Consumed[call.kernel] = DigitCount
          /\ \A j \in 0..(DigitCount - 1) : IsDigit(First, input[call.src + j], input, j)
      BY <1>1, <1>3, <2>7 DEF RInv, Digitised
    <3>3. Consumed[call.kernel] = 16 /\ Produced[call.kernel] = 16
      BY <3>1 DEF Consumed, Produced, Kernels
    <3>4. n * Produced[call.kernel] = DigitCount
      BY <3>2, <3>3
    <3>5. ASSUME NEW j \in 0..(DigitCount - 1) PROVE IsDigit(First, mem[call.dst + j], input, j)
      <4>1. mem[call.dst + j] = RefAt("toupper", input, call.src, j)
        BY <2>4, <3>1, <3>4
      <4>2. mem[call.dst + j] = ToUpper(input[call.src + j])
        BY <4>1, RefCases
      <4>3. HexDigitAt(input, First.src, j) \in 0..15
            /\ Stands(input[call.src + j], HexDigitAt(input, First.src, j))
        BY <2>1, <2>5, <3>1, <3>2, DigitBytes
      <4>4. Stands(mem[call.dst + j], HexDigitAt(input, First.src, j))
        BY <4>2, <4>3, StandsByte
      <4>5. QED  BY <3>1, <4>4 DEF IsDigit
    <3>6. QED  BY <2>1, <2>7, <3>4, <3>5, Handed
  <2>8. CASE calls >= 1 /\ ~(calls + 1 < Len(program))
    <3>1. /\ calls + 1 = Len(program)
          /\ First.kernel = "hex_encode" => call.kernel = "hex_decode"
          /\ First.kernel = "base64_encode" => call.kernel = "base64_decode"
      BY <1>1, <2>1, <2>8, LaterFacts
    <3>2. n * Consumed[call.kernel] = DigitCount
          /\ \A j \in 0..(DigitCount - 1) : IsDigit(First, input[call.src + j], input, j)
      BY <1>1, <1>3, <2>8 DEF RInv, Digitised
    <3>3. (16 \div 2) = 8 /\ (16 * 3) \div 4 = 12
      OBVIOUS
    <3>4. /\ call.kernel = "hex_decode" => Consumed[call.kernel] = 16 /\ Produced[call.kernel] = 8
          /\ call.kernel = "base64_decode" => Consumed[call.kernel] = 16 /\ Produced[call.kernel] = 12
      BY <3>3 DEF Consumed, Produced, Kernels
    <3> DEFINE made == n * Produced[call.kernel]
    <3>5. made = Encoded
      <4>1. CASE First.kernel = "hex_encode"
        <5>1. n * 16 = f * 32 /\ made = n * 8 /\ Encoded = f * 16
          BY <2>2, <3>1, <3>2, <3>4, <4>1
        <5> HIDE DEF n, f, made
        <5>2. QED  BY <2>2, <2>3, <5>1
      <4>2. CASE First.kernel = "base64_encode"
        <5>1. n * 16 = f * 16 /\ made = n * 12 /\ Encoded = f * 12
          BY <2>2, <3>1, <3>2, <3>4, <4>2
        <5> HIDE DEF n, f, made
        <5>2. QED  BY <2>2, <2>3, <5>1
      <4>3. QED  BY <2>2, <4>1, <4>2
    <3>6. ASSUME NEW k \in 0..(Encoded - 1) PROVE mem[call.dst + k] = mem[First.src + k]
      <4>1. mem[call.dst + k] = RefAt(call.kernel, input, call.src, k)
        BY <2>4, <3>5
      <4>2. RefAt(call.kernel, input, call.src, k) = input[First.src + k]
        <5>1. CASE First.kernel = "hex_encode"
          BY <2>1, <2>3, <2>5, <3>1, <3>2, <5>1, HexDecoded
        <5>2. CASE First.kernel = "base64_encode"
          BY <2>1, <2>3, <2>5, <3>1, <3>2, <5>2, Base64Decoded
        <5>3. QED  BY <2>2, <5>1, <5>2
      <4>3. QED  BY <2>5, <4>1, <4>2
    <3>7. ~Running'
      BY <1>1, <2>2, <3>1 DEF Running
    <3>8. program[Len(program)] = call
      BY <3>1 DEF call
    <3>9. RoundTrip'
      BY <1>1, <3>6, <3>8 DEF RoundTrip, First, Encoded
    <3>10. QED  BY <3>7, <3>9 DEF RInv
  <2>9. QED  BY <1>1, <2>6, <2>7, <2>8
<1>4. QED  BY <1>2, <1>3

\* A block changes neither the input nor which call runs.
LEMMA RBlock ==
  ASSUME RInv, Block
  PROVE  RInv'
<1>1. Running /\ UNCHANGED <<program, calls, input>>
  BY DEF Block, AtBlock
<1>2. /\ First' = First /\ call' = call /\ Running' /\ DigitCount' = DigitCount
  BY <1>1 DEF First, call, Running, DigitCount
<1>3. RoundTrip'
  BY <1>2 DEF RoundTrip
<1>4. Digitised => Digitised'
  BY <1>1, <1>2 DEF Digitised
<1>5. QED  BY <1>1, <1>2, <1>3, <1>4 DEF RInv

\* Every step preserves the chain's invariant.
LEMMA RStep == CInv /\ TInv /\ Chained(program) /\ OInv /\ RInv /\ [Next]_vars => RInv'
<1>1. ASSUME RInv, UNCHANGED vars PROVE RInv'
  <2>1. UNCHANGED <<program, calls, mem, input>>
    BY <1>1 DEF vars
  <2>2. First' = First /\ call' = call /\ Running' = Running /\ DigitCount' = DigitCount
    BY <2>1 DEF First, call, Running, DigitCount
  <2>3. Digitised' = Digitised
    BY <2>1, <2>2 DEF Digitised
  <2>4. RoundTrip' = RoundTrip
    BY <2>1, <2>2 DEF RoundTrip
  <2>5. QED  BY <1>1, <2>1, <2>2, <2>3, <2>4 DEF RInv
<1>2. QED  BY <1>1, RBlock, RReturn DEF Next

\* If every program is a chain, whatever its length, its buffers' and the bytes in them,
\* each call's output and the digits it was passed are as the two invariants say.
THEOREM ChainInvariance ==
  ASSUME \A p \in Programs : Chained(p)
  PROVE  Spec => [](OInv /\ RInv)
<1>1. CInv => Chained(program)
  BY DEF CInv
<1>2. Init => OInv /\ RInv
  BY OInitially, RInitially
<1>3. CInv /\ CInv' /\ TInv /\ (OInv /\ RInv) /\ [Next]_vars => (OInv /\ RInv)'
  BY <1>1, OStep, RStep, RImpliesDecodable
<1>4. QED  BY <1>2, <1>3, Invariance, TypedMemory, PTL DEF Spec

\* If every program is a chain, then every kernel's output is its reference after every
\* block; no assumption is left on the bytes a decoder meets.
THEOREM OutputCorrect ==
  ASSUME \A p \in Programs : Chained(p)
  PROVE  Spec => []OutputIsReference
<1>1. QED  BY ChainInvariance, OutputFromInvariant, PTL

\* If every program is a chain, what the last call decodes is what the first encoded,
\* whatever the bytes and however many (hex_encode and hex_decode with any number of
\* toupper between them, base64_encode and base64_decode).
THEOREM RoundTrips ==
  ASSUME \A p \in Programs : Chained(p)
  PROVE  Spec => []RoundTrip
<1>1. RInv => RoundTrip
  BY DEF RInv
<1>2. QED  BY <1>1, ChainInvariance, PTL
=============================================================================
