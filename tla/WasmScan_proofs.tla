---------------------------- MODULE WasmScan_proofs ---------------------------
(***************************************************************************)
(* The searches, the verdicts, the counts and matchlen16 answer exactly,   *)
(* and no kernel reads outside its buffers, for buffers of any length and  *)
(* contents.                                                               *)
(***************************************************************************)
EXTENDS WasmScan, FiniteSetTheorems, TLAPS

-----------------------------------------------------------------------------
(* Bytes. *)

LEMMA OrOfTests ==
  ASSUME NEW x \in {0, 255}, NEW y \in {0, 255}
  PROVE  ByteOr(x, y) = IF x = 255 \/ y = 255 THEN 255 ELSE 0
<1>1. NibbleAnd(0, 0) = 0 /\ NibbleAnd(0, 15) = 0 /\ NibbleAnd(15, 0) = 0 /\ NibbleAnd(15, 15) = 15
  <2>1. /\ Bit(0, 1) = 0 /\ Bit(0, 2) = 0 /\ Bit(0, 4) = 0 /\ Bit(0, 8) = 0
        /\ Bit(15, 1) = 1 /\ Bit(15, 2) = 1 /\ Bit(15, 4) = 1 /\ Bit(15, 8) = 1
    BY DEF Bit
  <2>2. QED  BY <2>1 DEF NibbleAnd
<1>2. /\ 0 \div 16 = 0 /\ 0 % 16 = 0 /\ 255 \div 16 = 15 /\ 255 % 16 = 15
  OBVIOUS
<1>3. /\ ByteAnd(0, 0) = 0 /\ ByteAnd(0, 255) = 0 /\ ByteAnd(255, 0) = 0 /\ ByteAnd(255, 255) = 255
  BY <1>1, <1>2 DEF ByteAnd
<1>4. QED  BY <1>3 DEF ByteOr

\* No bit above the low five: what json_clean takes for a control character.
LEMMA LowFive ==
  ASSUME NEW b \in Byte
  PROVE  ByteAnd(b, 224) \in Int /\ (ByteAnd(b, 224) = 0 <=> b < 32)
<1> DEFINE h == b \div 16
           l == b % 16
<1>1. h \in 0..15 /\ l \in 0..15 /\ b = 16 * h + l
  BY DEF Byte
<1>2. 224 \div 16 = 14 /\ 224 % 16 = 0
  OBVIOUS
<1>3. /\ Bit(0, 1) = 0 /\ Bit(0, 2) = 0 /\ Bit(0, 4) = 0 /\ Bit(0, 8) = 0
      /\ Bit(14, 1) = 0 /\ Bit(14, 2) = 1 /\ Bit(14, 4) = 1 /\ Bit(14, 8) = 1
  BY DEF Bit
<1>4. \A n \in 0..15 : /\ Bit(n, 1) \in 0..1 /\ Bit(n, 2) \in 0..1
                       /\ Bit(n, 4) \in 0..1 /\ Bit(n, 8) \in 0..1
  BY DEF Bit
<1> HIDE DEF h, l
<1>5. NibbleAnd(l, 0) = 0
  BY <1>1, <1>3, <1>4 DEF NibbleAnd
<1>6. NibbleAnd(h, 14) = 2 * Bit(h, 2) + 4 * Bit(h, 4) + 8 * Bit(h, 8)
  BY <1>1, <1>3, <1>4 DEF NibbleAnd
<1>7. Bit(h, 2) = 0 /\ Bit(h, 4) = 0 /\ Bit(h, 8) = 0 <=> h < 2
  BY <1>1 DEF Bit
<1>8. ByteAnd(b, 224) = 16 * NibbleAnd(h, 14) + NibbleAnd(l, 0)
  BY <1>2 DEF ByteAnd, h, l
<1>9. QED  BY <1>1, <1>4, <1>5, <1>6, <1>7, <1>8

-----------------------------------------------------------------------------
(* Vectors whose lanes are all ones or all zeros. *)
Tests == [Lane -> {0, 255}]

LEMMA EqTests ==
  ASSUME NEW v, NEW w
  PROVE  Eq(v, w) \in Tests /\ \A k \in Lane : Eq(v, w)[k] = 255 <=> v[k] = w[k]
BY DEF Eq, Test, Tests

LEMMA OrTests ==
  ASSUME NEW v \in Tests, NEW w \in Tests
  PROVE  /\ Or(v, w) \in Tests
         /\ \A k \in Lane : Or(v, w)[k] = 255 <=> v[k] = 255 \/ w[k] = 255
<1>1. \A k \in Lane : v[k] \in {0, 255} /\ w[k] \in {0, 255}
  BY DEF Tests
<1>2. \A k \in Lane : ByteOr(v[k], w[k]) = IF v[k] = 255 \/ w[k] = 255 THEN 255 ELSE 0
  BY <1>1, OrOfTests
<1>3. QED  BY <1>2 DEF Or, Tests

LEMMA BitmaskOfTests ==
  ASSUME NEW v \in Tests
  PROVE  Bitmask(v) = {k \in Lane : v[k] = 255}
<1>1. \A k \in Lane : v[k] >= 128 <=> v[k] = 255
  BY DEF Tests
<1>2. QED  BY <1>1 DEF Bitmask

\* The first one bit.
LEMMA CtzIsFirst ==
  ASSUME NEW S \in SUBSET Lane, S # {}
  PROVE  Ctz(S) \in S /\ \A j \in S : Ctz(S) <= j
<1> DEFINE First(k) == k \in S /\ \A j \in S : k <= j
<1>1. \E k \in S : First(k)
  <2> SUFFICES ASSUME ~ \E k \in S : First(k) PROVE FALSE
    OBVIOUS
  <2>0. \A x \in S : x \in Nat /\ x <= 15
    BY DEF Lane
  <2>1. ASSUME NEW k \in Nat, \A x \in S : k <= x
        PROVE  \A x \in S : k + 1 <= x
    <3>1. k \notin S
      BY <2>1
    <3>2. ASSUME NEW x \in S PROVE k + 1 <= x
      <4>1. x \in Nat /\ k <= x /\ k # x
        BY <2>0, <2>1, <3>1
      <4>2. QED  BY <4>1
    <3>3. QED  BY <3>2
  <2> DEFINE Above(k) == \A x \in S : k <= x
  <2>2. Above(0)
    BY <2>0
  <2>3. Above(1)
    BY <2>1, <2>2
  <2>4. Above(2)
    BY <2>1, <2>3
  <2>5. Above(3)
    BY <2>1, <2>4
  <2>6. Above(4)
    BY <2>1, <2>5
  <2>7. Above(5)
    BY <2>1, <2>6
  <2>8. Above(6)
    BY <2>1, <2>7
  <2>9. Above(7)
    BY <2>1, <2>8
  <2>10. Above(8)
    BY <2>1, <2>9
  <2>11. Above(9)
    BY <2>1, <2>10
  <2>12. Above(10)
    BY <2>1, <2>11
  <2>13. Above(11)
    BY <2>1, <2>12
  <2>14. Above(12)
    BY <2>1, <2>13
  <2>15. Above(13)
    BY <2>1, <2>14
  <2>16. Above(14)
    BY <2>1, <2>15
  <2>17. Above(15)
    BY <2>1, <2>16
  <2>18. Above(16)
    BY <2>1, <2>17
  <2>19. QED  BY <2>0, <2>18
<1>2. QED  BY <1>1 DEF Ctz

-----------------------------------------------------------------------------
(* What the mask of a block is. *)
Scanning == call \in Calls /\ mem \in [Addresses -> Byte]

LEMMA CallFacts ==
  ASSUME Scanning
  PROVE  /\ call.kernel \in Kernels
         /\ call.src \in Nat /\ call.other \in Nat /\ call.len \in Nat
         /\ call.needles \in [1..4 -> Int]
         /\ MaxInt \in Nat /\ Bytes(call) + 16 <= MaxInt
         /\ \A k \in 0..(Bytes(call) - 1) :
              /\ call.src + k \in Addresses
              /\ call.kernel = "matchlen16" => call.other + k \in Addresses
BY ScanAssumption DEF Scanning

LEMMA BlockFacts ==
  ASSUME Scanning, i \in Nat, call.kernel # "matchlen16", i < call.len
  PROVE  /\ Bytes(call) = 16 * call.len
         /\ \A k \in Lane : 16 * i + k \in 0..(Bytes(call) - 1)
         /\ Block \in [Lane -> Byte]
         /\ \A k \in Lane : Block[k] = At(16 * i + k)
<1>1. Bytes(call) = 16 * call.len /\ call.len \in Nat /\ call.src \in Nat
  BY CallFacts DEF Bytes
<1>2. \A k \in Lane : k \in 0..15 /\ 16 * i + k \in 0..(Bytes(call) - 1)
  BY <1>1 DEF Lane
<1>3. \A k \in Lane : call.src + (16 * i + k) \in Addresses
  BY <1>2, CallFacts
<1>4. \A k \in Lane : call.src + 16 * i + k = call.src + (16 * i + k)
  BY <1>1, <1>2
<1>5. \A k \in Lane : mem[call.src + (16 * i + k)] \in Byte
  BY <1>3 DEF Scanning
<1>6. QED
  BY <1>1, <1>2, <1>4, <1>5 DEF Block, Load, At

LEMMA MaskIsWanted ==
  ASSUME NEW bytes \in [Lane -> Byte], Scanning, call.kernel \in Searches \cup Verdicts
  PROVE  Mask(bytes) = {k \in Lane : Wanted(bytes[k])}
<1>1. \A k \in Lane : bytes[k] \in Byte
  OBVIOUS
<1>2. \A b \in Int : \A k \in Lane : Splat(b)[k] = b % 256
  BY DEF Splat
<1>3. call.needles[1] \in Int /\ call.needles[2] \in Int /\ call.needles[3] \in Int /\ call.needles[4] \in Int
  BY CallFacts
<1>4. CASE call.kernel = "memchr"
  <2> DEFINE v == Eq(bytes, Splat(call.needles[1]))
  <2>1. Mask(bytes) = {k \in Lane : v[k] = 255}
    BY <1>4, EqTests, BitmaskOfTests DEF Mask, memchr
  <2>2. \A k \in Lane : v[k] = 255 <=> Wanted(bytes[k])
    BY <1>2, <1>3, <1>4, EqTests DEF Wanted
  <2>3. QED  BY <2>1, <2>2
<1>5. CASE call.kernel = "indexany4"
  <2> DEFINE v1 == Eq(bytes, Splat(call.needles[1]))
             v2 == Eq(bytes, Splat(call.needles[2]))
             v3 == Eq(bytes, Splat(call.needles[3]))
             v4 == Eq(bytes, Splat(call.needles[4]))
             v == Or(Or(Or(v1, v2), v3), v4)
  <2>1. /\ v1 \in Tests /\ v2 \in Tests /\ v3 \in Tests /\ v4 \in Tests
        /\ \A k \in Lane : /\ v1[k] = 255 <=> bytes[k] = call.needles[1] % 256
                           /\ v2[k] = 255 <=> bytes[k] = call.needles[2] % 256
                           /\ v3[k] = 255 <=> bytes[k] = call.needles[3] % 256
                           /\ v4[k] = 255 <=> bytes[k] = call.needles[4] % 256
    BY <1>2, <1>3, EqTests
  <2>2. Mask(bytes) = Bitmask(v)
    BY <1>5 DEF Mask, indexany4
  <2> HIDE DEF v1, v2, v3, v4
  <2>3. v \in Tests /\ \A k \in Lane : v[k] = 255 <=> (v1[k] = 255 \/ v2[k] = 255 \/ v3[k] = 255 \/ v4[k] = 255)
    BY <2>1, OrTests
  <2> HIDE DEF v
  <2>4. \A k \in Lane : v[k] = 255 <=> Wanted(bytes[k])
    <3>1. \A b : Wanted(b) <=> \E n \in 1..4 : b = call.needles[n] % 256
      BY <1>5 DEF Wanted
    <3>2. QED  BY <2>1, <2>3, <3>1
  <2>5. QED  BY <2>2, <2>3, <2>4, BitmaskOfTests
<1>6. CASE call.kernel = "isascii"
  BY <1>6 DEF Mask, isascii, Bitmask, Wanted
<1>7. CASE call.kernel = "json_clean"
  <2> DEFINE v1 == Eq(bytes, Splat(34))
             v2 == Eq(bytes, Splat(92))
             v3 == Eq(And(bytes, Splat(224)), Splat(0))
             v == Or(Or(v1, v2), v3)
  <2>1. \A k \in Lane : And(bytes, Splat(224))[k] = ByteAnd(bytes[k], 224)
    BY <1>2 DEF And
  <2>2. /\ v1 \in Tests /\ v2 \in Tests /\ v3 \in Tests
        /\ \A k \in Lane : /\ v1[k] = 255 <=> bytes[k] = 34
                           /\ v2[k] = 255 <=> bytes[k] = 92
                           /\ v3[k] = 255 <=> ByteAnd(bytes[k], 224) = 0
    BY <1>2, <2>1, EqTests
  <2>3. Mask(bytes) = Bitmask(v)
    BY <1>7 DEF Mask, json_clean
  <2> HIDE DEF v1, v2, v3
  <2>4. v \in Tests /\ \A k \in Lane : v[k] = 255 <=> (v1[k] = 255 \/ v2[k] = 255 \/ v3[k] = 255)
    BY <2>2, OrTests
  <2> HIDE DEF v
  <2>5. \A k \in Lane : v[k] = 255 <=> Wanted(bytes[k])
    <3>1. \A b : Wanted(b) <=> (b < 32 \/ b = 34 \/ b = 92)
      BY <1>7 DEF Wanted
    <3>2. QED  BY <1>1, <2>2, <2>4, <3>1, LowFive
  <2>6. QED  BY <2>3, <2>4, <2>5, BitmaskOfTests
<1>8. QED  BY <1>4, <1>5, <1>6, <1>7 DEF Searches, Verdicts

-----------------------------------------------------------------------------
(***************************************************************************)
(* The inductive invariant: the blocks behind the loop hold nothing that   *)
(* is looked for, what matchlen16 has matched is equal, and what has been  *)
(* returned is exact.                                                      *)
(***************************************************************************)
BlockLoop ==
  call.kernel # "matchlen16" =>
    /\ pc # "bytes"
    /\ i <= call.len
    /\ pc = "blocks" => \A k \in 0..(16 * i - 1) : ~Wanted(At(k))

MatchLoop ==
  call.kernel = "matchlen16" =>
    /\ matched <= call.len
    /\ pc = "blocks" => i = matched
    /\ \A k \in 0..(matched - 1) : At(k) = mem[call.other + k]

SInv ==
  /\ Scanning
  /\ i \in Nat /\ matched \in Nat
  /\ BlockLoop
  /\ MatchLoop
  /\ ReadsOnlyTheBuffer
  /\ SearchIsExact

LEMMA Initially == Init => SInv
<1> SUFFICES ASSUME Init PROVE SInv
  OBVIOUS
<1>1. Scanning
  BY ScanAssumption DEF Init, Scanning
<1>2. BlockLoop /\ MatchLoop
  BY <1>1, CallFacts DEF Init, BlockLoop, MatchLoop
<1>3. QED
  BY <1>1, <1>2 DEF Init, SInv, ReadsOnlyTheBuffer, SearchIsExact

\* A block's bytes are read in the buffer.
LEMMA BlockRead ==
  ASSUME SInv, AtBlock, ReadsBlock, UNCHANGED <<call, mem>>
  PROVE  ReadsOnlyTheBuffer'
<1>1. \A k \in Lane : k \in 0..15 /\ 16 * i + k \in Buffer
  BY BlockFacts DEF SInv, AtBlock, Buffer, Lane
<1>2. call.src \in Nat /\ i \in Nat
  BY CallFacts DEF SInv
<1>3. Chunk(call.src + 16 * i) \subseteq {call.src + k : k \in Buffer}
  <2> SUFFICES ASSUME NEW k \in Lane PROVE call.src + 16 * i + k \in {call.src + n : n \in Buffer}
    BY DEF Chunk
  <2>1. call.src + 16 * i + k = call.src + (16 * i + k)
    BY <1>1, <1>2
  <2>2. QED  BY <1>1, <2>1
<1>4. read' = read \cup Chunk(call.src + 16 * i)
  BY DEF ReadsBlock, Reads
<1>5. Buffer' = Buffer
  BY DEF Buffer, Bytes
<1>6. QED  BY <1>3, <1>4, <1>5 DEF SInv, ReadsOnlyTheBuffer

\* A block without a wanted byte extends the clean part of the buffer.
LEMMA CleanBlock ==
  ASSUME SInv, AtBlock, pc = "blocks",
         call.kernel \in Searches \cup Verdicts => Mask(Block) = {}
  PROVE  \A k \in 0..(16 * (i + 1) - 1) : ~Wanted(At(k))
<1> SUFFICES ASSUME NEW k \in 0..(16 * (i + 1) - 1) PROVE ~Wanted(At(k))
  OBVIOUS
<1>1. i \in Nat /\ \A n \in 0..(16 * i - 1) : ~Wanted(At(n))
  BY DEF SInv, BlockLoop, AtBlock
<1>2. CASE k < 16 * i
  BY <1>1, <1>2
<1>3. CASE k >= 16 * i /\ call.kernel \in Searches \cup Verdicts
  <2>1. k - 16 * i \in Lane /\ k = 16 * i + (k - 16 * i)
    BY <1>1, <1>3 DEF Lane
  <2>2. Block[k - 16 * i] = At(k) /\ Block \in [Lane -> Byte]
    BY <2>1, BlockFacts DEF SInv, AtBlock
  <2>3. QED  BY <1>3, <2>1, <2>2, MaskIsWanted DEF SInv
<1>4. CASE call.kernel \notin Searches \cup Verdicts
  BY <1>4 DEF Wanted, Searches, Verdicts
<1>5. QED  BY <1>1, <1>2, <1>3, <1>4

\* A block's first wanted byte.
LEMMA DirtyBlock ==
  ASSUME SInv, AtBlock, call.kernel \in Searches \cup Verdicts, Mask(Block) # {}
  PROVE  \E p \in Buffer : /\ p = 16 * i + Ctz(Mask(Block))
                           /\ Wanted(At(p))
                           /\ \A k \in 0..(p - 1) : ~Wanted(At(k))
<1> DEFINE S == Mask(Block)
           f == Ctz(S)
<1>1. /\ i \in Nat /\ \A n \in 0..(16 * i - 1) : ~Wanted(At(n))
      /\ Block \in [Lane -> Byte]
      /\ \A k \in Lane : Block[k] = At(16 * i + k) /\ 16 * i + k \in Buffer
  BY BlockFacts DEF SInv, BlockLoop, AtBlock, Buffer
<1>2. S = {k \in Lane : Wanted(Block[k])}
  BY <1>1, MaskIsWanted DEF SInv
<1>3. f \in S /\ \A j \in S : f <= j
  BY <1>2, CtzIsFirst
<1> HIDE DEF f, S
<1>4. f \in Lane /\ f \in 0..15 /\ Wanted(At(16 * i + f)) /\ 16 * i + f \in Buffer
  BY <1>1, <1>2, <1>3 DEF Lane
<1>5. ASSUME NEW k \in 0..(16 * i + f - 1) PROVE ~Wanted(At(k))
  <2>1. CASE k < 16 * i
    BY <1>1, <2>1
  <2>2. CASE k >= 16 * i
    <3>1. k - 16 * i \in Lane /\ k = 16 * i + (k - 16 * i) /\ ~(f <= k - 16 * i)
      BY <1>1, <1>4, <2>2 DEF Lane
    <3>2. k - 16 * i \notin S
      BY <1>3, <3>1
    <3>3. QED  BY <1>1, <1>2, <3>1, <3>2
  <2>3. QED  BY <1>1, <1>4, <2>1, <2>2
<1>6. \E p \in Buffer : p = 16 * i + f /\ Wanted(At(p)) /\ \A k \in 0..(p - 1) : ~Wanted(At(k))
  <2>1. 16 * i + f \in Int
    BY <1>1, <1>4
  <2>2. ASSUME NEW p \in Int, p = 16 * i + f
        PROVE  Wanted(At(p)) /\ \A k \in 0..(p - 1) : ~Wanted(At(k))
    <3>1. Wanted(At(p))
      BY <1>4, <2>2
    <3>2. \A k \in 0..(p - 1) : ~Wanted(At(k))
      BY <1>1, <1>4, <1>5, <2>2
    <3>3. QED  BY <3>1, <3>2
  <2>3. QED  BY <1>4, <2>1, <2>2
<1>7. QED  BY <1>6 DEF f, S

-----------------------------------------------------------------------------
(* The steps of the block loop. *)

LEMMA FoundStep == SInv /\ Found => SInv'
<1> SUFFICES ASSUME SInv, Found PROVE SInv'
  OBVIOUS
<1>0. AtBlock /\ call.kernel \in Searches \cup Verdicts /\ Mask(Block) # {}
  BY DEF Found
<1>1. PICK p \in Buffer : /\ p = 16 * i + Ctz(Mask(Block))
                          /\ Wanted(At(p))
                          /\ \A k \in 0..(p - 1) : ~Wanted(At(k))
  BY <1>0, DirtyBlock
<1>2. pc' = "returned" /\ result' = p /\ UNCHANGED <<call, mem, i, matched>>
  BY <1>1 DEF Found, Return
<1>3. ReadsOnlyTheBuffer'
  BY BlockRead DEF Found
<1>4. /\ Buffer' = Buffer /\ \A k : At(k)' = At(k) /\ \A b : Wanted(b)' = Wanted(b)
  BY <1>2 DEF Buffer, Bytes, At, Wanted
<1>5. SearchIsExact'
  BY <1>1, <1>2, <1>4 DEF SearchIsExact, Found, Searches, Verdicts
<1>6. Scanning' /\ i' \in Nat /\ matched' \in Nat /\ BlockLoop' /\ MatchLoop'
  BY <1>2 DEF SInv, Scanning, BlockLoop, MatchLoop, Found, AtBlock, At
<1>7. QED  BY <1>3, <1>5, <1>6 DEF SInv

LEMMA RefusedStep == SInv /\ Refused => SInv'
<1> SUFFICES ASSUME SInv, Refused PROVE SInv'
  OBVIOUS
<1>0. AtBlock /\ call.kernel \in Searches \cup Verdicts /\ Mask(Block) # {}
  BY DEF Refused
<1>1. \E k \in Buffer : Wanted(At(k))
  BY <1>0, DirtyBlock
<1>2. pc' = "returned" /\ result' = 0 /\ UNCHANGED <<call, mem, i, matched>>
  BY DEF Refused, Return
<1>3. ReadsOnlyTheBuffer'
  BY <1>0, <1>2, BlockRead DEF Refused
<1>4. /\ Buffer' = Buffer /\ \A k : At(k)' = At(k) /\ \A b : Wanted(b)' = Wanted(b)
  BY <1>2 DEF Buffer, Bytes, At, Wanted
<1>5. SearchIsExact'
  BY <1>1, <1>2, <1>4 DEF SearchIsExact, Refused, Searches, Verdicts
<1>6. Scanning' /\ i' \in Nat /\ matched' \in Nat /\ BlockLoop' /\ MatchLoop'
  BY <1>2 DEF SInv, Scanning, BlockLoop, MatchLoop, Refused, AtBlock, At
<1>7. QED  BY <1>3, <1>5, <1>6 DEF SInv

\* The three actions that go on to the next block.
LEMMA NextBlockStep ==
  ASSUME SInv, AtBlock, ReadsBlock,
         call.kernel \in Searches \cup Verdicts => Mask(Block) = {},
         i' = i + 1, UNCHANGED <<call, mem, pc, matched>>
  PROVE  SInv'
<1>1. pc = "blocks" /\ call.kernel # "matchlen16" /\ i < call.len /\ i \in Nat
  BY DEF AtBlock, SInv
<1>2. \A k \in 0..(16 * (i + 1) - 1) : ~Wanted(At(k))
  BY <1>1, CleanBlock
<1>3. ReadsOnlyTheBuffer'
  BY BlockRead
<1>4. \A k : At(k)' = At(k) /\ \A b : Wanted(b)' = Wanted(b)
  BY DEF At, Wanted
<1>5. call.len \in Nat
  BY CallFacts DEF SInv
<1>6. BlockLoop'
  BY <1>1, <1>2, <1>4, <1>5 DEF BlockLoop
<1>7. Scanning' /\ i' \in Nat /\ matched' \in Nat /\ MatchLoop' /\ SearchIsExact'
  BY <1>1 DEF SInv, Scanning, MatchLoop, SearchIsExact
<1>8. QED  BY <1>3, <1>6, <1>7 DEF SInv

LEMMA DoneStep == SInv /\ Done => SInv'
<1> SUFFICES ASSUME SInv, Done PROVE SInv'
  OBVIOUS
<1>1. /\ pc = "blocks" /\ call.kernel # "matchlen16" /\ i = call.len /\ i \in Nat
      /\ Bytes(call) = 16 * i
  BY CallFacts DEF Done, AtBlock, SInv, BlockLoop, Bytes
<1>2. \A k \in Buffer : ~Wanted(At(k))
  BY <1>1 DEF SInv, BlockLoop, Buffer
<1>3. /\ pc' = "returned" /\ UNCHANGED <<call, mem, i, matched, read>>
      /\ call.kernel \in Searches => result' = -1
      /\ call.kernel \in Verdicts => result' = 1
  BY DEF Done, Return, Searches, Verdicts
<1>4. /\ Buffer' = Buffer /\ \A k : At(k)' = At(k) /\ \A b : Wanted(b)' = Wanted(b)
  BY <1>3 DEF Buffer, Bytes, At, Wanted
<1>5. SearchIsExact'
  BY <1>1, <1>2, <1>3, <1>4 DEF SearchIsExact
<1>6. ReadsOnlyTheBuffer'
  BY <1>3, <1>4 DEF SInv, ReadsOnlyTheBuffer
<1>7. Scanning' /\ i' \in Nat /\ matched' \in Nat /\ BlockLoop' /\ MatchLoop'
  BY <1>1, <1>3 DEF SInv, Scanning, BlockLoop, MatchLoop
<1>8. QED  BY <1>5, <1>6, <1>7 DEF SInv

-----------------------------------------------------------------------------
(* The steps of matchlen16. *)

\* The sixteen bytes at offset m of both buffers, when they lie in them.
LEMMA ChunkInside ==
  ASSUME SInv, call.kernel = "matchlen16", NEW m \in Nat, NEW w \in Nat, m + w <= call.len
  PROVE  /\ \A k \in 0..(w - 1) : m + k \in Buffer
         /\ {call.src + m + k : k \in 0..(w - 1)} \subseteq {call.src + k : k \in Buffer}
         /\ {call.other + m + k : k \in 0..(w - 1)} \subseteq {call.other + k : k \in Buffer}
<1>1. call.src \in Nat /\ call.other \in Nat /\ call.len \in Nat /\ Bytes(call) = call.len
  BY CallFacts DEF SInv, Bytes
<1>2. \A k \in 0..(w - 1) : m + k \in Buffer
  BY <1>1 DEF Buffer
<1>3. \A k \in 0..(w - 1) : /\ call.src + m + k = call.src + (m + k)
                            /\ call.other + m + k = call.other + (m + k)
  BY <1>1
<1>4. QED  BY <1>2, <1>3

\* A step of matchlen16 that stays in it keeps the invariant's frame.
LEMMA ChunkFitsMeans ==
  ASSUME SInv, call.kernel = "matchlen16", pc = "blocks"
  PROVE  ChunkFits <=> i + 16 <= call.len
<1>1. i \in Nat /\ call.len \in Nat /\ MaxInt \in Nat /\ call.len + 16 <= MaxInt /\ i <= call.len
  BY CallFacts DEF SInv, MatchLoop, Bytes
<1>2. QED  BY <1>1 DEF ChunkFits, I32Add

LEMMA ChunksRead ==
  ASSUME SInv, call.kernel = "matchlen16", pc = "blocks", ChunkFits, ReadsChunks,
         UNCHANGED <<call, mem>>
  PROVE  ReadsOnlyTheBuffer'
<1>1. i \in Nat /\ i + 16 <= call.len
  BY ChunkFitsMeans DEF SInv
<1>2. /\ Chunk(call.src + i) \subseteq {call.src + k : k \in Buffer}
      /\ Chunk(call.other + i) \subseteq {call.other + k : k \in Buffer}
  <2>1. 16 \in Nat /\ 16 - 1 = 15
    OBVIOUS
  <2>2. QED  BY <1>1, <2>1, ChunkInside DEF Chunk, Lane
<1>3. read' = read \cup (Chunk(call.src + i) \cup Chunk(call.other + i))
  BY DEF ReadsChunks, Reads
<1>4. Buffer' = Buffer
  BY DEF Buffer, Bytes
<1>5. QED  BY <1>2, <1>3, <1>4 DEF SInv, ReadsOnlyTheBuffer

LEMMA MatchChunkStep == SInv /\ MatchChunk => SInv'
<1> SUFFICES ASSUME SInv, MatchChunk PROVE SInv'
  OBVIOUS
<1>1. /\ call.kernel = "matchlen16" /\ pc = "blocks" /\ ChunkFits /\ ReadsChunks /\ ChunksEqual
      /\ matched' = matched + 16 /\ i' = i + 16 /\ UNCHANGED <<call, mem, pc>>
  BY DEF MatchChunk
<1>2. /\ i \in Nat /\ matched = i /\ i + 16 <= call.len /\ call.len \in Nat
      /\ call.src \in Nat /\ call.other \in Nat
      /\ \A k \in 0..(matched - 1) : At(k) = mem[call.other + k]
  BY <1>1, ChunkFitsMeans, CallFacts DEF SInv, MatchLoop
<1>3. ReadsOnlyTheBuffer'
  BY <1>1, ChunksRead
<1>4. \A k \in Lane : mem[call.src + i + k] = mem[call.other + i + k]
  BY <1>1 DEF ChunksEqual, AllTrue, Eq, Test, Load
<1>5. ASSUME NEW k \in 0..(matched + 16 - 1) PROVE At(k) = mem[call.other + k]
  <2>1. CASE k < matched
    BY <1>2, <2>1
  <2>2. CASE k >= matched
    <3>1. /\ k - i \in Lane /\ call.src + i + (k - i) = call.src + k
          /\ call.other + i + (k - i) = call.other + k
      BY <1>2, <2>2 DEF Lane
    <3>2. QED  BY <1>4, <3>1 DEF At
  <2>3. QED  BY <1>2, <2>1, <2>2
<1>6. MatchLoop'
  BY <1>1, <1>2, <1>5 DEF MatchLoop, At
<1>7. Scanning' /\ i' \in Nat /\ matched' \in Nat /\ BlockLoop' /\ SearchIsExact'
  BY <1>1, <1>2 DEF SInv, Scanning, BlockLoop, SearchIsExact
<1>8. QED  BY <1>3, <1>6, <1>7 DEF SInv

LEMMA ChunksDoneStep == SInv /\ ChunksDone => SInv'
<1> SUFFICES ASSUME SInv, ChunksDone PROVE SInv'
  OBVIOUS
<1>1. /\ call.kernel = "matchlen16" /\ pc = "blocks" /\ pc' = "bytes"
      /\ UNCHANGED <<call, mem, i, matched>>
      /\ IF ChunkFits THEN ReadsChunks ELSE UNCHANGED read
  BY DEF ChunksDone
<1>2. ReadsOnlyTheBuffer'
  <2>1. CASE ChunkFits
    BY <1>1, <2>1, ChunksRead
  <2>2. CASE ~ChunkFits
    BY <1>1, <2>2 DEF SInv, ReadsOnlyTheBuffer, Buffer, Bytes
  <2>3. QED  BY <2>1, <2>2
<1>3. QED
  BY <1>1, <1>2 DEF SInv, Scanning, BlockLoop, MatchLoop, SearchIsExact, At

LEMMA BytesRead ==
  ASSUME SInv, call.kernel = "matchlen16", matched < call.len, ReadsBytes,
         UNCHANGED <<call, mem>>
  PROVE  ReadsOnlyTheBuffer'
<1>1. matched \in Buffer
  BY CallFacts DEF SInv, Buffer, Bytes
<1>2. read' = read \cup {call.src + matched, call.other + matched}
  BY DEF ReadsBytes, Reads
<1>3. Buffer' = Buffer
  BY DEF Buffer, Bytes
<1>4. QED  BY <1>1, <1>2, <1>3 DEF SInv, ReadsOnlyTheBuffer

LEMMA MatchByteStep == SInv /\ MatchByte => SInv'
<1> SUFFICES ASSUME SInv, MatchByte PROVE SInv'
  OBVIOUS
<1>1. /\ pc = "bytes" /\ matched < call.len /\ ReadsBytes /\ SameByte
      /\ matched' = matched + 1 /\ UNCHANGED <<call, mem, pc, i>>
  BY DEF MatchByte
<1>2. call.kernel = "matchlen16" /\ matched \in Nat /\ call.len \in Nat
  BY <1>1, CallFacts DEF SInv, BlockLoop
<1>3. ReadsOnlyTheBuffer'
  BY <1>1, <1>2, BytesRead
<1>4. MatchLoop'
  BY <1>1, <1>2 DEF SInv, MatchLoop, SameByte, At
<1>5. QED
  BY <1>1, <1>2, <1>3, <1>4 DEF SInv, Scanning, BlockLoop, SearchIsExact

LEMMA BytesDoneStep == SInv /\ BytesDone => SInv'
<1> SUFFICES ASSUME SInv, BytesDone PROVE SInv'
  OBVIOUS
<1>1. /\ pc = "bytes" /\ pc' = "returned" /\ result' = matched
      /\ UNCHANGED <<call, mem, i, matched>>
      /\ IF matched < call.len THEN ReadsBytes /\ ~SameByte ELSE UNCHANGED read
  BY DEF BytesDone, Return
<1>2. call.kernel = "matchlen16" /\ matched \in Nat /\ call.len \in Nat
  BY <1>1, CallFacts DEF SInv, BlockLoop
<1>3. ReadsOnlyTheBuffer'
  <2>1. CASE matched < call.len
    BY <1>1, <1>2, <2>1, BytesRead
  <2>2. CASE ~(matched < call.len)
    BY <1>1, <2>2 DEF SInv, ReadsOnlyTheBuffer, Buffer, Bytes
  <2>3. QED  BY <2>1, <2>2
<1>4. MatchLoop' /\ BlockLoop' /\ Scanning' /\ i' \in Nat /\ matched' \in Nat
  BY <1>1, <1>2 DEF SInv, Scanning, BlockLoop, MatchLoop, At
<1>5. SearchIsExact'
  <2>1. matched <= call.len /\ \A k \in 0..(matched - 1) : At(k) = mem[call.other + k]
    BY <1>2 DEF SInv, MatchLoop
  <2>2. matched < call.len => At(matched) # mem[call.other + matched]
    BY <1>1 DEF SameByte, At
  <2>3. QED
    BY <1>1, <1>2, <2>1, <2>2 DEF SearchIsExact, Searches, Verdicts, At
<1>6. QED  BY <1>3, <1>4, <1>5 DEF SInv

-----------------------------------------------------------------------------
LEMMA Step == SInv /\ [Next]_vars => SInv'
<1> SUFFICES ASSUME SInv, [Next]_vars PROVE SInv'
  OBVIOUS
<1>1. CASE Found \/ Refused \/ Done
  BY <1>1, FoundStep, RefusedStep, DoneStep
<1>2. CASE NextBlock
  BY <1>2, NextBlockStep DEF NextBlock
<1>3. CASE CountRunes
  <2>1. call.kernel \notin Searches \cup Verdicts
    BY <1>3 DEF CountRunes, Searches, Verdicts
  <2>2. QED  BY <1>3, <2>1, NextBlockStep DEF CountRunes
<1>4. CASE CountBits
  <2>1. call.kernel \notin Searches \cup Verdicts
    BY <1>4 DEF CountBits, Searches, Verdicts
  <2>2. QED  BY <1>4, <2>1, NextBlockStep DEF CountBits
<1>5. CASE MatchChunk \/ ChunksDone \/ MatchByte \/ BytesDone
  BY <1>5, MatchChunkStep, ChunksDoneStep, MatchByteStep, BytesDoneStep
<1>6. CASE UNCHANGED vars
  BY <1>6 DEF vars, SInv, Scanning, BlockLoop, MatchLoop, ReadsOnlyTheBuffer, SearchIsExact,
     Buffer, Bytes, At, Wanted
<1>7. QED  BY <1>1, <1>2, <1>3, <1>4, <1>5, <1>6 DEF Next

\* The invariant holds in every reachable state, for every call and memory.
THEOREM Invariance == Spec => []SInv
<1>1. QED  BY Initially, Step, PTL DEF Spec

\* The searches return the first offset and the verdicts and matchlen16 the
\* exact answer, for every buffer, needle and length (memchr/main.go:32,
\* json_clean/main.go:26, matchlen/main.go:97).
THEOREM Exact == Spec => []SearchIsExact
<1>1. SInv => SearchIsExact
  BY DEF SInv
<1>2. QED  BY <1>1, Invariance, PTL

\* No kernel reads a byte outside its buffers, for every buffer and length
\* that leaves matchlen16's limit room to add 16.
THEOREM ReadsInside == Spec => []ReadsOnlyTheBuffer
<1>1. SInv => ReadsOnlyTheBuffer
  BY DEF SInv
<1>2. QED  BY <1>1, Invariance, PTL

-----------------------------------------------------------------------------
(***************************************************************************)
(* Types: a block adds at most sixteen runes, and at most thirty-two bits  *)
(* to each of popcount's lanes, so the counts keep within their blocks.    *)
(***************************************************************************)
LEMMA LanesCounted ==
  ASSUME NEW S \in SUBSET Lane
  PROVE  I32Popcnt(S) \in 0..16
<1>1. IsFiniteSet(Lane) /\ Cardinality(Lane) = 16
  <2>1. \A a, b \in Int : /\ IsFiniteSet(a..b)
                         /\ Cardinality(a..b) = IF a > b THEN 0 ELSE b - a + 1
    BY FS_Interval
  <2>2. 0 \in Int /\ 15 \in Int /\ ~(0 > 15) /\ 15 - 0 + 1 = 16
    OBVIOUS
  <2>3. IsFiniteSet(0..15) /\ Cardinality(0..15) = IF 0 > 15 THEN 0 ELSE 15 - 0 + 1
    BY <2>1, <2>2, Zenon
  <2>4. QED  BY <2>2, <2>3 DEF Lane
<1>2. Cardinality(S) \in Nat /\ Cardinality(S) <= 16
  BY <1>1, FS_Subset, FS_CardinalityType
<1>3. QED  BY <1>2 DEF I32Popcnt

LEMMA BitsCounted ==
  ASSUME NEW S \in SUBSET BitValues
  PROVE  Cardinality(S) \in 0..8
<1>1. IsFiniteSet({1}) /\ Cardinality({1}) = 1
  BY FS_Singleton
<1>2. IsFiniteSet({1, 2}) /\ Cardinality({1, 2}) = 2
  BY <1>1, FS_AddElement, {1, 2} = {1} \cup {2}
<1>3. IsFiniteSet({1, 2, 4}) /\ Cardinality({1, 2, 4}) = 3
  BY <1>2, FS_AddElement, {1, 2, 4} = {1, 2} \cup {4}
<1>4. IsFiniteSet({1, 2, 4, 8}) /\ Cardinality({1, 2, 4, 8}) = 4
  BY <1>3, FS_AddElement, {1, 2, 4, 8} = {1, 2, 4} \cup {8}
<1>5. IsFiniteSet({1, 2, 4, 8, 16}) /\ Cardinality({1, 2, 4, 8, 16}) = 5
  BY <1>4, FS_AddElement, {1, 2, 4, 8, 16} = {1, 2, 4, 8} \cup {16}
<1>6. IsFiniteSet({1, 2, 4, 8, 16, 32}) /\ Cardinality({1, 2, 4, 8, 16, 32}) = 6
  BY <1>5, FS_AddElement, {1, 2, 4, 8, 16, 32} = {1, 2, 4, 8, 16} \cup {32}
<1>7. IsFiniteSet({1, 2, 4, 8, 16, 32, 64}) /\ Cardinality({1, 2, 4, 8, 16, 32, 64}) = 7
  BY <1>6, FS_AddElement, {1, 2, 4, 8, 16, 32, 64} = {1, 2, 4, 8, 16, 32} \cup {64}
<1>8. IsFiniteSet(BitValues) /\ Cardinality(BitValues) = 8
  BY <1>7, FS_AddElement, BitValues = {1, 2, 4, 8, 16, 32, 64} \cup {128} DEF BitValues
<1>9. Cardinality(S) \in Nat /\ Cardinality(S) <= 8
  BY <1>8, FS_Subset, FS_CardinalityType
<1>10. QED  BY <1>9

\* Two rounds of sums of neighbours: each lane has the bits of four bytes.
LEMMA LaneBits ==
  ASSUME NEW bytes, NEW q \in 0..3
  PROVE  popcount(bytes)[q] \in 0..32
<1> DEFINE P == Popcnt(bytes)
           H == ExtaddPairwise(P, 8)
<1>1. \A k \in 0..15 : P[k] \in 0..8
  <2> SUFFICES ASSUME NEW k \in 0..15 PROVE P[k] \in 0..8
    OBVIOUS
  <2>1. P[k] = Cardinality({p \in BitValues : Bit(bytes[k], p) = 1})
    BY DEF Popcnt, Lane
  <2>2. {p \in BitValues : Bit(bytes[k], p) = 1} \in SUBSET BitValues
    OBVIOUS
  <2>3. QED  BY <2>1, <2>2, BitsCounted
<1> HIDE DEF P
<1>2. \A k \in 0..7 : H[k] \in 0..16
  <2> SUFFICES ASSUME NEW k \in 0..7 PROVE H[k] \in 0..16
    OBVIOUS
  <2>1. H[k] = P[2 * k] + P[2 * k + 1]
    BY DEF ExtaddPairwise
  <2>2. 2 * k \in 0..15 /\ 2 * k + 1 \in 0..15
    OBVIOUS
  <2>3. P[2 * k] \in 0..8 /\ P[2 * k + 1] \in 0..8
    BY <1>1, <2>2
  <2> HIDE DEF H
  <2>4. QED  BY <2>1, <2>3
<1>3. popcount(bytes)[q] = H[2 * q] + H[2 * q + 1]
  BY DEF popcount, P, ExtaddPairwise
<1> HIDE DEF H
<1>4. 2 * q \in 0..7 /\ 2 * q + 1 \in 0..7
  OBVIOUS
<1>5. H[2 * q] \in 0..16 /\ H[2 * q + 1] \in 0..16
  BY <1>2, <1>4
<1>6. QED  BY <1>3, <1>5

\* A lane of a block's count fits an i32.
LEMMA LaneFits ==
  ASSUME MaxInt \in Nat, 32 <= MaxInt, NEW q \in 0..3, NEW bytes
  PROVE  popcount(bytes)[q] \in I32
<1>1. popcount(bytes)[q] \in 0..32
  BY LaneBits
<1>2. QED  BY <1>1 DEF I32

Rounds == i <= Bytes(call) /\ (call.kernel # "matchlen16" => matched = 0)
Runes == count \in Nat /\ (count = 0 \/ (call.kernel = "utf8len" /\ count <= 16 * i))
Sums == acc \in [0..3 -> I32]

TInv ==
  /\ pc \in {"blocks", "bytes", "returned"}
  /\ Rounds
  /\ Runes
  /\ Sums
  /\ result \in I32

\* The i32s: those from -1 to two more than the bytes of a buffer among them.
LEMMA SmallFits ==
  ASSUME Scanning
  PROVE  /\ MaxInt \in Nat /\ Bytes(call) \in Nat /\ Bytes(call) + 16 <= MaxInt
         /\ (-1)..(Bytes(call) + 16) \subseteq I32
<1>1. MaxInt \in Nat /\ Bytes(call) \in Nat /\ Bytes(call) + 16 <= MaxInt
  BY CallFacts DEF Bytes
<1>2. QED  BY <1>1 DEF I32

\* What utf8len adds and takes away stays within an i32 while its sum does.
LEMMA CountFits ==
  ASSUME MaxInt \in Nat, NEW x \in Nat, x + 16 <= MaxInt, NEW c \in 0..16
  PROVE  I32Add(I32Add(x, 16), -c) = x + 16 - c
<1>1. I32Add(x, 16) = x + 16
  BY DEF I32Add
<1>2. x + 16 + (-c) = x + 16 - c /\ x + 16 - c <= MaxInt /\ x + 16 - c >= 0
  OBVIOUS
<1>3. I32Add(x + 16, -c) = x + 16 + (-c)
  BY <1>2 DEF I32Add
<1>4. QED  BY <1>1, <1>2, <1>3

\* An addition of i32s is that of the integers, up to one turn.
LEMMA AddWraps ==
  ASSUME MaxInt \in Nat, NEW x \in I32, NEW y \in I32
  PROVE  /\ I32Add(x, y) \in I32
         /\ \/ I32Add(x, y) = x + y
            \/ I32Add(x, y) = x + y - Wrap
            \/ I32Add(x, y) = x + y + Wrap
<1>1. /\ x \in Int /\ y \in Int /\ -(MaxInt + 1) <= x /\ x <= MaxInt
      /\ -(MaxInt + 1) <= y /\ y <= MaxInt
  BY DEF I32
<1>2. CASE x + y > MaxInt
  <2>1. I32Add(x, y) = x + y - Wrap
    BY <1>2 DEF I32Add
  <2>2. QED  BY <1>1, <1>2, <2>1 DEF Wrap, I32
<1>3. CASE x + y < -(MaxInt + 1)
  <2>1. I32Add(x, y) = x + y + Wrap
    BY <1>1, <1>3 DEF I32Add
  <2>2. QED  BY <1>1, <1>3, <2>1 DEF Wrap, I32
<1>4. CASE ~(x + y > MaxInt) /\ ~(x + y < -(MaxInt + 1))
  <2>1. I32Add(x, y) = x + y
    BY <1>4 DEF I32Add
  <2>2. QED  BY <1>1, <1>4, <2>1 DEF I32
<1>5. QED  BY <1>2, <1>3, <1>4

LEMMA TInitially == Init => TInv
<1> SUFFICES ASSUME Init PROVE TInv
  OBVIOUS
<1>1. Scanning
  BY Initially DEF SInv
<1>2. Bytes(call) \in Nat
  BY <1>1, CallFacts DEF Bytes
<1>3. 0 \in I32
  BY <1>1, <1>2, SmallFits
<1>4. QED  BY <1>2, <1>3 DEF Init, TInv, Rounds, Runes, Sums

LEMMA TStep == SInv /\ SInv' /\ TInv /\ [Next]_vars => TInv'
<1> SUFFICES ASSUME SInv, SInv', TInv, [Next]_vars PROVE TInv'
  OBVIOUS
<1>0. /\ i \in Nat /\ matched \in Nat /\ call.len \in Nat /\ Bytes(call) \in Nat
      /\ call.kernel # "matchlen16" => Bytes(call) = 16 * call.len /\ i <= call.len
      /\ call.kernel = "matchlen16" => Bytes(call) = call.len /\ matched <= call.len
  BY CallFacts DEF SInv, BlockLoop, MatchLoop, Bytes
<1>a. /\ MaxInt \in Nat /\ Bytes(call) + 16 <= MaxInt
      /\ (-1)..(Bytes(call) + 16) \subseteq I32
  BY SmallFits DEF SInv
<1>1. CASE Found
  <2>1. PICK p \in Buffer : p = 16 * i + Ctz(Mask(Block))
    BY <1>1, DirtyBlock DEF Found
  <2>2. result' = p /\ pc' = "returned" /\ UNCHANGED <<call, i, matched, count, acc>>
    BY <1>1, <2>1 DEF Found, Return
  <2>3. p \in 0..(Bytes(call) - 1)
    BY DEF Buffer
  <2>4. result' \in I32
    BY <1>0, <1>a, <2>2, <2>3
  <2>5. QED  BY <2>2, <2>4 DEF TInv, Rounds, Runes, Sums, Bytes
<1>2. CASE Refused
  <2>1. 0 \in I32
    BY <1>0, <1>a
  <2>2. QED  BY <1>2, <2>1 DEF Refused, Return, TInv, Rounds, Runes, Sums, Bytes
<1>3. CASE NextBlock
  <2>1. i' = i + 1 /\ i < call.len /\ call.kernel # "matchlen16" /\ UNCHANGED <<call, pc, matched, count, acc, result>>
    BY <1>3 DEF NextBlock, AtBlock
  <2>2. Rounds'
    BY <1>0, <2>1 DEF TInv, Rounds, Bytes
  <2>3. Runes' /\ Sums'
    BY <1>0, <2>1, <1>3 DEF NextBlock, TInv, Runes, Sums, Searches, Verdicts
  <2>4. QED  BY <2>1, <2>2, <2>3 DEF TInv, Bytes
<1>4. CASE CountRunes
  <2>1. /\ i' = i + 1 /\ i < call.len /\ call.kernel = "utf8len"
        /\ count' = I32Add(I32Add(count, 16), -I32Popcnt(Mask(Block)))
        /\ UNCHANGED <<call, pc, matched, acc, result>>
    BY <1>4 DEF CountRunes, AtBlock
  <2>2. Rounds' /\ Sums'
    BY <1>0, <2>1 DEF TInv, Rounds, Sums, Bytes
  <2>3. I32Popcnt(Mask(Block)) \in 0..16
    <3>1. Mask(Block) = utf8len(Block)
      BY <2>1 DEF Mask
    <3>2. Mask(Block) \in SUBSET Lane
      BY <3>1 DEF utf8len, Bitmask
    <3>3. QED  BY <3>2, LanesCounted
  <2>4. count \in 0..(16 * i)
    BY <1>0 DEF TInv, Runes
  <2>5. Runes'
    <3> DEFINE c == I32Popcnt(Mask(Block))
    <3>1. MaxInt \in Nat /\ count + 16 <= MaxInt /\ count \in Nat /\ c \in 0..16
      BY <1>0, <1>a, <2>1, <2>3, <2>4
    <3>2. count' = I32Add(I32Add(count, 16), -c)
      BY <2>1
    <3> HIDE DEF c
    <3>3. count' = count + 16 - c
      BY <3>1, <3>2, CountFits
    <3>4. count' \in 0..(16 * (i + 1))
      BY <1>0, <2>4, <3>1, <3>3
    <3>5. QED  BY <2>1, <3>4 DEF Runes
  <2>6. QED  BY <2>1, <2>2, <2>5 DEF TInv, Bytes
<1>5. CASE CountBits
  <2>1. /\ i' = i + 1 /\ i < call.len /\ call.kernel = "popcount"
        /\ acc' = [q \in 0..3 |-> I32Add(acc[q], popcount(Block)[q])]
        /\ UNCHANGED <<call, pc, matched, count, result>>
    BY <1>5 DEF CountBits, AtBlock
  <2>2. Rounds' /\ Runes'
    BY <1>0, <2>1 DEF TInv, Rounds, Runes, Bytes
  <2>3. ASSUME NEW q \in 0..3 PROVE I32Add(acc[q], popcount(Block)[q]) \in I32
    <3>1. acc[q] \in I32
      BY DEF TInv, Sums
    <3>2. popcount(Block)[q] \in I32
      BY <1>0, <1>a, <2>1, LaneFits
    <3>3. QED  BY <1>a, <3>1, <3>2, AddWraps
  <2>4. Sums'
    BY <2>1, <2>3 DEF Sums
  <2>5. QED  BY <2>1, <2>2, <2>4 DEF TInv, Bytes
<1>6. CASE Done
  <2>1. /\ pc' = "returned" /\ UNCHANGED <<call, i, matched, count, acc>> /\ call.kernel # "matchlen16"
        /\ result' \in {-1, 1, count, I32Add(I32Add(I32Add(acc[0], acc[1]), acc[2]), acc[3])}
    BY <1>6 DEF Done, Return
  <2>2. count \in 0..Bytes(call)
    BY <1>0, <2>1 DEF TInv, Runes
  <2>3. acc[0] \in I32 /\ acc[1] \in I32 /\ acc[2] \in I32 /\ acc[3] \in I32
    BY DEF TInv, Sums
  <2>4. I32Add(I32Add(I32Add(acc[0], acc[1]), acc[2]), acc[3]) \in I32
    BY <1>a, <2>3, AddWraps
  <2>5. -1 \in I32 /\ 1 \in I32 /\ count \in I32
    BY <1>0, <1>a, <2>2
  <2>6. result' \in I32
    BY <2>1, <2>4, <2>5
  <2>7. QED  BY <2>1, <2>6 DEF TInv, Rounds, Runes, Sums, Bytes
<1>7. CASE MatchChunk
  <2>1. /\ i' = i + 16 /\ matched' = matched + 16 /\ call.kernel = "matchlen16" /\ pc = "blocks"
        /\ UNCHANGED <<call, pc, count, acc, result>>
    BY <1>7 DEF MatchChunk
  <2>2. i = matched /\ matched' <= call.len
    BY <2>1 DEF SInv, MatchLoop
  <2>3. Rounds'
    BY <1>0, <2>1, <2>2 DEF Rounds, Bytes
  <2>4. Runes' /\ Sums'
    BY <2>1 DEF TInv, Runes, Sums
  <2>5. QED  BY <2>1, <2>3, <2>4 DEF TInv, Bytes
<1>8. CASE ChunksDone
  BY <1>8 DEF ChunksDone, TInv, Rounds, Runes, Sums, Bytes
<1>9. CASE MatchByte
  <2>1. call.kernel = "matchlen16" /\ UNCHANGED <<call, pc, i, count, acc, result>>
    BY <1>9 DEF MatchByte, SInv, BlockLoop
  <2>2. QED  BY <2>1 DEF TInv, Rounds, Runes, Sums, Bytes
<1>10. CASE BytesDone
  <2>1. /\ call.kernel = "matchlen16" /\ pc' = "returned" /\ result' = matched
        /\ UNCHANGED <<call, i, matched, count, acc>>
    BY <1>10 DEF BytesDone, Return, SInv, BlockLoop
  <2>2. result' \in I32
    BY <1>0, <1>a, <2>1
  <2>3. QED  BY <2>1, <2>2 DEF TInv, Rounds, Runes, Sums, Bytes
<1>11. CASE UNCHANGED vars
  BY <1>11 DEF vars, TInv, Rounds, Runes, Sums, Bytes
<1>12. QED
  BY <1>1, <1>2, <1>3, <1>4, <1>5, <1>6, <1>7, <1>8, <1>9, <1>10, <1>11 DEF Next

LEMMA TypedFromInvariants == SInv /\ TInv => TypeOK
<1> SUFFICES ASSUME SInv, TInv PROVE TypeOK
  OBVIOUS
<1>0. /\ i \in Nat /\ matched \in Nat /\ call.len \in Nat /\ Bytes(call) \in Nat
      /\ call.kernel # "matchlen16" => Bytes(call) = 16 * call.len /\ i <= call.len
      /\ call.kernel = "matchlen16" => Bytes(call) = call.len /\ matched <= call.len
  BY CallFacts DEF SInv, BlockLoop, MatchLoop, Bytes
<1>1. call \in Calls /\ call.kernel \in Kernels
  BY CallFacts DEF SInv, Scanning
<1>2. i \in 0..Bytes(call) /\ matched \in 0..Bytes(call)
  BY <1>0 DEF TInv, Rounds
<1>3. count \in 0..Bytes(call)
  <2>1. CASE count = 0
    BY <1>0, <2>1
  <2>2. CASE call.kernel = "utf8len" /\ count <= 16 * i
    BY <1>0, <2>2 DEF TInv, Runes
  <2>3. QED  BY <2>1, <2>2 DEF TInv, Runes
<1>4. acc \in [0..3 -> I32]
  BY DEF TInv, Sums
<1>5. read \subseteq Addresses
  <2>1. \A k \in Buffer : call.src + k \in Addresses /\ (call.kernel = "matchlen16" => call.other + k \in Addresses)
    BY CallFacts DEF SInv, Buffer
  <2>2. QED  BY <2>1 DEF SInv, ReadsOnlyTheBuffer
<1>6. QED  BY <1>1, <1>2, <1>3, <1>4, <1>5 DEF TypeOK, TInv

\* The loops never pass the end of the buffer, utf8len's count stays within what
\* the blocks done can give and popcount's lanes within i32, and every read is of
\* memory, for every buffer and length (utf8len/main.go:23, popcount/main.go).
THEOREM TypeCorrect == Spec => []TypeOK
<1>1. Spec => []TInv
  BY Invariance, TInitially, TStep, PTL DEF Spec
<1>2. QED  BY <1>1, Invariance, TypedFromInvariants, PTL

-----------------------------------------------------------------------------
(***************************************************************************)
(* Exact counts: what utf8len and popcount hold after i blocks is the size *)
(* of a set, the heads or the one bits of the bytes before 16 * i.         *)
(***************************************************************************)
Ones(b) == {p \in BitValues : Bit(b, p) = 1}
HeadsBefore(n) == {k \in 0..(n - 1) : At(k) \notin 128..191}
BitsBefore(n) == {p \in (0..(n - 1)) \X BitValues : Bit(At(p[1]), p[2]) = 1}

LEMMA Interval ==
  ASSUME NEW a \in Int, NEW b \in Int
  PROVE  /\ IsFiniteSet(a..b)
         /\ a <= b => Cardinality(a..b) = b - a + 1
         /\ a > b => Cardinality(a..b) = 0
<1>1. \A x, y \in Int : /\ IsFiniteSet(x..y)
                       /\ Cardinality(x..y) = IF x > y THEN 0 ELSE y - x + 1
  BY FS_Interval
<1>2. IsFiniteSet(a..b) /\ Cardinality(a..b) = IF a > b THEN 0 ELSE b - a + 1
  BY <1>1, Zenon
<1>3. QED  BY <1>2

\* Two sets with nothing in common.
LEMMA Disjoint ==
  ASSUME NEW S, NEW T, IsFiniteSet(S), IsFiniteSet(T), S \cap T = {}
  PROVE  /\ IsFiniteSet(S \cup T)
         /\ Cardinality(S \cup T) = Cardinality(S) + Cardinality(T)
<1>1. /\ IsFiniteSet(S \cup T)
      /\ Cardinality(S \cup T) = Cardinality(S) + Cardinality(T) - Cardinality(S \cap T)
  BY FS_Union
<1>2. Cardinality(S \cap T) = 0
  BY FS_EmptySet
<1>3. Cardinality(S) \in Nat /\ Cardinality(T) \in Nat
  BY FS_CardinalityType
<1>4. QED  BY <1>1, <1>2, <1>3

LEMMA Shifted ==
  ASSUME NEW c \in Int, NEW S \in SUBSET Int, IsFiniteSet(S)
  PROVE  /\ IsFiniteSet({c + k : k \in S})
         /\ Cardinality({c + k : k \in S}) = Cardinality(S)
<1> DEFINE T == {c + k : k \in S}
           f == [k \in S |-> c + k]
<1>1. f \in Bijection(S, T)
  <2>1. f \in [S -> T]
    OBVIOUS
  <2>2. \A x, y \in S : f[x] = f[y] => x = y
    OBVIOUS
  <2>3. \A t \in T : \E s \in S : f[s] = t
    OBVIOUS
  <2>4. QED  BY <2>1, <2>2, <2>3 DEF Bijection, Injection, Surjection, IsInjective
<1>2. ExistsBijection(S, T)
  BY <1>1 DEF ExistsBijection
<1>3. QED  BY <1>2, FS_Bijection

\* The pairs of n and a member of S.
LEMMA Paired ==
  ASSUME NEW n, NEW S, IsFiniteSet(S)
  PROVE  /\ IsFiniteSet({n} \X S)
         /\ Cardinality({n} \X S) = Cardinality(S)
<1> DEFINE T == {n} \X S
           f == [k \in S |-> <<n, k>>]
<1>1. f \in Bijection(S, T)
  <2>1. f \in [S -> T]
    OBVIOUS
  <2>2. \A x, y \in S : f[x] = f[y] => x = y
    OBVIOUS
  <2>3. \A t \in T : \E s \in S : f[s] = t
    OBVIOUS
  <2>4. QED  BY <2>1, <2>2, <2>3 DEF Bijection, Injection, Surjection, IsInjective
<1>2. ExistsBijection(S, T)
  BY <1>1 DEF ExistsBijection
<1>3. QED  BY <1>2, FS_Bijection

-----------------------------------------------------------------------------
(* utf8len. *)

\* 10xxxxxx are the bytes 128..191.
LEMMA Continuation ==
  ASSUME NEW b \in Byte
  PROVE  ByteAnd(b, 192) = 128 <=> b \in 128..191
<1> DEFINE h == b \div 16
           l == b % 16
<1>1. h \in 0..15 /\ l \in 0..15 /\ b = 16 * h + l
  BY DEF Byte
<1>2. 192 \div 16 = 12 /\ 192 % 16 = 0
  OBVIOUS
<1>3. /\ Bit(0, 1) = 0 /\ Bit(0, 2) = 0 /\ Bit(0, 4) = 0 /\ Bit(0, 8) = 0
      /\ Bit(12, 1) = 0 /\ Bit(12, 2) = 0 /\ Bit(12, 4) = 1 /\ Bit(12, 8) = 1
  BY DEF Bit
<1>4. \A n \in 0..15 : /\ Bit(n, 1) \in 0..1 /\ Bit(n, 2) \in 0..1
                       /\ Bit(n, 4) \in 0..1 /\ Bit(n, 8) \in 0..1
  BY DEF Bit
<1> HIDE DEF h, l
<1>5. NibbleAnd(l, 0) = 0
  BY <1>1, <1>3, <1>4 DEF NibbleAnd
<1>6. NibbleAnd(h, 12) = 4 * Bit(h, 4) + 8 * Bit(h, 8)
  BY <1>1, <1>3, <1>4 DEF NibbleAnd
<1>7. Bit(h, 4) = 0 /\ Bit(h, 8) = 1 <=> h \in 8..11
  BY <1>1 DEF Bit
<1>8. ByteAnd(b, 192) = 16 * NibbleAnd(h, 12) + NibbleAnd(l, 0)
  BY <1>2 DEF ByteAnd, h, l
<1>9. QED  BY <1>1, <1>4, <1>5, <1>6, <1>7, <1>8

LEMMA ContinuationMask ==
  ASSUME NEW bytes \in [Lane -> Byte]
  PROVE  utf8len(bytes) = {k \in Lane : bytes[k] \in 128..191}
<1>1. \A k \in Lane : Splat(192)[k] = 192 /\ Splat(128)[k] = 128
  BY DEF Splat
<1>2. \A k \in Lane : And(bytes, Splat(192))[k] = ByteAnd(bytes[k], 192)
  BY <1>1 DEF And
<1>3. utf8len(bytes) = {k \in Lane : And(bytes, Splat(192))[k] = Splat(128)[k]}
  BY EqTests, BitmaskOfTests DEF utf8len
<1>4. QED  BY <1>1, <1>2, <1>3, Continuation

LEMMA HeadsOfBlock ==
  ASSUME Scanning, i \in Nat, call.kernel = "utf8len", i < call.len
  PROVE  /\ IsFiniteSet(HeadsBefore(16 * i))
         /\ Cardinality(HeadsBefore(16 * (i + 1)))
              = Cardinality(HeadsBefore(16 * i)) + 16 - I32Popcnt(Mask(Block))
<1> DEFINE C == Mask(Block)
           H == Lane \ C
           New == {16 * i + k : k \in H}
<1>1. /\ Block \in [Lane -> Byte]
      /\ \A k \in Lane : Block[k] = At(16 * i + k)
  BY BlockFacts
<1>2. C = {k \in Lane : At(16 * i + k) \in 128..191}
  BY <1>1, ContinuationMask DEF Mask
<1> HIDE DEF C
<1>3. IsFiniteSet(Lane) /\ Cardinality(Lane) = 16
  <2>1. IsFiniteSet(0..15) /\ (0 <= 15 => Cardinality(0..15) = 15 - 0 + 1)
    BY Interval, 0 \in Int, 15 \in Int, Zenon
  <2>2. QED  BY <2>1 DEF Lane
<1>4. /\ IsFiniteSet(C) /\ IsFiniteSet(H)
      /\ Cardinality(C) \in Nat /\ Cardinality(H) \in Nat
      /\ Cardinality(C) + Cardinality(H) = 16
  <2>1. C \in SUBSET Lane /\ H \in SUBSET Lane /\ C \cap H = {} /\ C \cup H = Lane
    BY <1>2
  <2>2. IsFiniteSet(C) /\ IsFiniteSet(H)
    BY <2>1, <1>3, FS_Subset
  <2>3. QED  BY <2>1, <2>2, <1>3, Disjoint, FS_CardinalityType
<1>5. IsFiniteSet(HeadsBefore(16 * i)) /\ Cardinality(HeadsBefore(16 * i)) \in Nat
  <2>1. IsFiniteSet(0..(16 * i - 1))
    BY Interval
  <2>2. HeadsBefore(16 * i) \in SUBSET (0..(16 * i - 1))
    BY DEF HeadsBefore
  <2>3. QED  BY <2>1, <2>2, FS_Subset, FS_CardinalityType
<1>6. IsFiniteSet(New) /\ Cardinality(New) = Cardinality(H)
  <2>1. H \in SUBSET Int /\ 16 * i \in Int
    BY DEF Lane
  <2> HIDE DEF H
  <2>2. QED  BY <2>1, <1>4, Shifted
<1>7. HeadsBefore(16 * (i + 1)) = HeadsBefore(16 * i) \cup New
  <2>1. ASSUME NEW x PROVE x \in HeadsBefore(16 * (i + 1)) => x \in HeadsBefore(16 * i) \cup New
    <3> SUFFICES ASSUME x \in HeadsBefore(16 * (i + 1)), x \notin HeadsBefore(16 * i)
                 PROVE  x \in New
      OBVIOUS
    <3>1. x \in 0..(16 * (i + 1) - 1) /\ At(x) \notin 128..191 /\ x \notin 0..(16 * i - 1)
      BY DEF HeadsBefore
    <3>2. x - 16 * i \in Lane /\ x = 16 * i + (x - 16 * i)
      BY <3>1 DEF Lane
    <3>3. x - 16 * i \in H
      BY <3>1, <3>2, <1>2
    <3> HIDE DEF H
    <3>4. QED  BY <3>2, <3>3
  <2>2. ASSUME NEW x \in HeadsBefore(16 * i) PROVE x \in HeadsBefore(16 * (i + 1))
    BY DEF HeadsBefore
  <2>3. ASSUME NEW k \in H PROVE 16 * i + k \in HeadsBefore(16 * (i + 1))
    <3>1. k \in 0..15 /\ At(16 * i + k) \notin 128..191
      BY <1>2 DEF Lane
    <3>2. 16 * i + k \in 0..(16 * (i + 1) - 1)
      BY <3>1
    <3>3. QED  BY <3>1, <3>2 DEF HeadsBefore
  <2> HIDE DEF H
  <2>4. QED  BY <2>1, <2>2, <2>3
<1>8. HeadsBefore(16 * i) \cap New = {}
  BY DEF HeadsBefore, Lane
<1>9. Cardinality(HeadsBefore(16 * (i + 1))) = Cardinality(HeadsBefore(16 * i)) + Cardinality(New)
  BY <1>5, <1>6, <1>7, <1>8, Disjoint
<1> HIDE DEF H, New
<1>10. Cardinality(HeadsBefore(16 * (i + 1))) = Cardinality(HeadsBefore(16 * i)) + 16 - Cardinality(C)
  BY <1>4, <1>5, <1>6, <1>9
<1>11. QED  BY <1>5, <1>10 DEF C, I32Popcnt

-----------------------------------------------------------------------------
(* popcount. *)

LEMMA FiniteBits ==
  ASSUME NEW n \in Nat
  PROVE  IsFiniteSet(BitsBefore(n)) /\ Cardinality(BitsBefore(n)) \in Nat
<1>1. IsFiniteSet(BitValues)
  <2>1. BitValues \in SUBSET (1..128)
    BY DEF BitValues
  <2>2. IsFiniteSet(1..128)
    BY Interval, 1 \in Int, 128 \in Int, Zenon
  <2>3. QED  BY <2>1, <2>2, FS_Subset
<1>2. IsFiniteSet(0..(n - 1))
  BY Interval
<1>3. IsFiniteSet((0..(n - 1)) \X BitValues)
  BY <1>1, <1>2, FS_Product
<1>4. BitsBefore(n) \in SUBSET ((0..(n - 1)) \X BitValues)
  BY DEF BitsBefore
<1>5. QED  BY <1>3, <1>4, FS_Subset, FS_CardinalityType

LEMMA BitsOfByte ==
  ASSUME NEW n \in Nat
  PROVE  Cardinality(BitsBefore(n + 1)) = Cardinality(BitsBefore(n)) + Cardinality(Ones(At(n)))
<1> DEFINE New == {n} \X Ones(At(n))
<1>1. IsFiniteSet(Ones(At(n)))
  <2>1. Ones(At(n)) \in SUBSET (1..128)
    BY DEF Ones, BitValues
  <2>2. IsFiniteSet(1..128)
    BY Interval, 1 \in Int, 128 \in Int, Zenon
  <2>3. QED  BY <2>1, <2>2, FS_Subset
<1>2. IsFiniteSet(New) /\ Cardinality(New) = Cardinality(Ones(At(n)))
  BY <1>1, Paired
<1>3. BitsBefore(n + 1) = BitsBefore(n) \cup New
  <2>0. 0..(n + 1 - 1) = (0..(n - 1)) \cup {n}
    OBVIOUS
  <2>1. QED  BY <2>0 DEF BitsBefore, Ones
<1>4. BitsBefore(n) \cap New = {}
  <2>1. n \notin 0..(n - 1)
    OBVIOUS
  <2>2. QED  BY <2>1 DEF BitsBefore
<1> HIDE DEF New
<1>5. QED  BY <1>2, <1>3, <1>4, FiniteBits, Disjoint

\* The sixteen bytes of a block, one at a time.
LEMMA BitsOfSixteen ==
  ASSUME NEW n \in Nat, NEW P \in [Lane -> Nat],
         \A k \in Lane : P[k] = Cardinality(Ones(At(n + k)))
  PROVE  Cardinality(BitsBefore(n + 16)) =
           Cardinality(BitsBefore(n))
             + (((P[0] + P[1]) + (P[2] + P[3])) + ((P[4] + P[5]) + (P[6] + P[7])))
             + (((P[8] + P[9]) + (P[10] + P[11])) + ((P[12] + P[13]) + (P[14] + P[15])))
<1> DEFINE C(m) == Cardinality(BitsBefore(m))
<1>1. \A m \in Nat : C(m) \in Nat
  BY FiniteBits
<1>2. \A k \in Lane : C(n + k + 1) = C(n + k) + P[k]
  <2> SUFFICES ASSUME NEW k \in Lane PROVE C(n + k + 1) = C(n + k) + P[k]
    OBVIOUS
  <2>1. n + k \in Nat
    BY DEF Lane
  <2>2. QED  BY <2>1, BitsOfByte
<1>3. \A k \in Lane : P[k] \in Nat
  OBVIOUS
<1> HIDE DEF C
<1>4. C(n + 4) = C(n) + ((P[0] + P[1]) + (P[2] + P[3]))
  <2>1. C(n + 0) = C(n) /\ C(n + 0 + 1) = C(n + 1) /\ C(n + 1 + 1) = C(n + 2)
        /\ C(n + 2 + 1) = C(n + 3) /\ C(n + 3 + 1) = C(n + 4)
    OBVIOUS
  <2>2. QED  BY <1>1, <1>2, <1>3, <2>1 DEF Lane
<1>5. C(n + 8) = C(n + 4) + ((P[4] + P[5]) + (P[6] + P[7]))
  <2>1. C(n + 4 + 1) = C(n + 5) /\ C(n + 5 + 1) = C(n + 6)
        /\ C(n + 6 + 1) = C(n + 7) /\ C(n + 7 + 1) = C(n + 8)
    OBVIOUS
  <2>2. QED  BY <1>1, <1>2, <1>3, <2>1 DEF Lane
<1>6. C(n + 12) = C(n + 8) + ((P[8] + P[9]) + (P[10] + P[11]))
  <2>1. C(n + 8 + 1) = C(n + 9) /\ C(n + 9 + 1) = C(n + 10)
        /\ C(n + 10 + 1) = C(n + 11) /\ C(n + 11 + 1) = C(n + 12)
    OBVIOUS
  <2>2. QED  BY <1>1, <1>2, <1>3, <2>1 DEF Lane
<1>7. C(n + 16) = C(n + 12) + ((P[12] + P[13]) + (P[14] + P[15]))
  <2>1. C(n + 12 + 1) = C(n + 13) /\ C(n + 13 + 1) = C(n + 14)
        /\ C(n + 14 + 1) = C(n + 15) /\ C(n + 15 + 1) = C(n + 16)
    OBVIOUS
  <2>2. QED  BY <1>1, <1>2, <1>3, <2>1 DEF Lane
<1>8. C(n) \in Nat /\ C(n + 4) \in Nat /\ C(n + 8) \in Nat /\ C(n + 12) \in Nat
  BY <1>1
<1>9. /\ (P[0] + P[1]) + (P[2] + P[3]) \in Nat /\ (P[4] + P[5]) + (P[6] + P[7]) \in Nat
      /\ (P[8] + P[9]) + (P[10] + P[11]) \in Nat /\ (P[12] + P[13]) + (P[14] + P[15]) \in Nat
  BY <1>3 DEF Lane
<1>10. C(n + 16) = C(n) + (((P[0] + P[1]) + (P[2] + P[3])) + ((P[4] + P[5]) + (P[6] + P[7])))
             + (((P[8] + P[9]) + (P[10] + P[11])) + ((P[12] + P[13]) + (P[14] + P[15])))
  BY <1>4, <1>5, <1>6, <1>7, <1>8, <1>9
<1>11. QED  BY <1>10 DEF C

LEMMA BitsOfBlock ==
  ASSUME Scanning, i \in Nat, call.kernel = "popcount", i < call.len
  PROVE  Cardinality(BitsBefore(16 * (i + 1))) =
           Cardinality(BitsBefore(16 * i))
             + (popcount(Block)[0] + popcount(Block)[1])
             + (popcount(Block)[2] + popcount(Block)[3])
<1> DEFINE P == Popcnt(Block)
<1>1. \A k \in Lane : Block[k] = At(16 * i + k)
  BY BlockFacts
<1>2. \A k \in Lane : P[k] = Cardinality(Ones(At(16 * i + k)))
  BY <1>1 DEF Popcnt, Ones
<1>3. P \in [Lane -> Nat]
  <2>1. \A k \in Lane : Ones(Block[k]) \in SUBSET BitValues
    BY DEF Ones
  <2>2. \A k \in Lane : Cardinality(Ones(Block[k])) \in 0..8
    BY <2>1, BitsCounted
  <2>3. QED  BY <2>2 DEF Popcnt, Ones
<1>4. /\ popcount(Block)[0] = (P[0] + P[1]) + (P[2] + P[3])
      /\ popcount(Block)[1] = (P[4] + P[5]) + (P[6] + P[7])
      /\ popcount(Block)[2] = (P[8] + P[9]) + (P[10] + P[11])
      /\ popcount(Block)[3] = (P[12] + P[13]) + (P[14] + P[15])
  <2> HIDE DEF P
  <2>1. popcount(Block) = ExtaddPairwise(ExtaddPairwise(P, 8), 4)
    BY DEF popcount, P
  <2>2. QED  BY <2>1 DEF ExtaddPairwise
<1>5. 16 * i \in Nat /\ 16 * (i + 1) = 16 * i + 16
  OBVIOUS
<1> HIDE DEF P
<1>6. QED  BY <1>2, <1>3, <1>4, <1>5, BitsOfSixteen

-----------------------------------------------------------------------------
(***************************************************************************)
(* The invariant.                                                          *)
(***************************************************************************)
\* x and y are the same but for turns of i32.
Congruent(x, y) == \E w \in Int : x = y + w * Wrap

Counted ==
  pc = "blocks" =>
    /\ call.kernel = "utf8len" => count = Cardinality(HeadsBefore(16 * i))
    /\ call.kernel = "popcount" =>
         /\ Congruent(acc[0] + acc[1] + acc[2] + acc[3], Cardinality(BitsBefore(16 * i)))
         /\ Cardinality(BitsBefore(16 * i)) <= 128 * i

CInv == Counted /\ CountIsExact

LEMMA WrapInt == MaxInt \in Nat /\ Wrap \in Int /\ Wrap = 2 * MaxInt + 2
<1>1. MaxInt \in Nat
  BY ScanAssumption
<1>2. QED  BY <1>1 DEF Wrap

LEMMA CongruentSum ==
  ASSUME NEW x \in Int, NEW y \in Int, NEW u \in Int, NEW v \in Int,
         Congruent(x, y), Congruent(u, v)
  PROVE  Congruent(x + u, y + v)
<1>1. PICK a \in Int : x = y + a * Wrap
  BY DEF Congruent
<1>2. PICK b \in Int : u = v + b * Wrap
  BY DEF Congruent
<1>3. (a + b) * Wrap = a * Wrap + b * Wrap /\ a * Wrap \in Int /\ b * Wrap \in Int
  BY WrapInt
<1>4. x + u = (y + v) + (a + b) * Wrap /\ a + b \in Int
  BY <1>1, <1>2, <1>3
<1>5. QED  BY <1>4 DEF Congruent

LEMMA CongruentTo ==
  ASSUME NEW x \in Int, NEW y \in Int, NEW z \in Int, Congruent(x, y), Congruent(y, z)
  PROVE  Congruent(x, z)
<1>1. PICK a \in Int : x = y + a * Wrap
  BY DEF Congruent
<1>2. PICK b \in Int : y = z + b * Wrap
  BY DEF Congruent
<1>3. (a + b) * Wrap = a * Wrap + b * Wrap /\ a * Wrap \in Int /\ b * Wrap \in Int
  BY WrapInt
<1>4. x = z + (a + b) * Wrap /\ a + b \in Int
  BY <1>1, <1>2, <1>3
<1>5. QED  BY <1>4 DEF Congruent

LEMMA CongruentSelf == ASSUME NEW x \in Int PROVE Congruent(x, x)
<1>1. x = x + 0 * Wrap
  BY WrapInt
<1>2. QED  BY <1>1 DEF Congruent

LEMMA AddCongruent ==
  ASSUME NEW x \in I32, NEW y \in I32
  PROVE  I32Add(x, y) \in I32 /\ Congruent(I32Add(x, y), x + y)
<1>1. /\ I32Add(x, y) \in I32
      /\ \/ I32Add(x, y) = x + y
         \/ I32Add(x, y) = x + y - Wrap
         \/ I32Add(x, y) = x + y + Wrap
  BY AddWraps, WrapInt
<1>2. x \in Int /\ y \in Int /\ x + y \in Int
  BY DEF I32
<1>3. CASE I32Add(x, y) = x + y
  BY <1>1, <1>2, <1>3, CongruentSelf
<1>4. CASE I32Add(x, y) = x + y - Wrap
  <2>1. x + y - Wrap = x + y + (0 - 1) * Wrap
    <3>1. Wrap \in Int
      BY WrapInt
    <3>2. (0 - 1) * Wrap = 0 - Wrap
      BY <3>1
    <3>3. QED  BY <1>2, <3>1, <3>2
  <2>2. Congruent(x + y - Wrap, x + y)
    BY <2>1 DEF Congruent
  <2>3. QED  BY <1>1, <1>4, <2>2
<1>5. CASE I32Add(x, y) = x + y + Wrap
  <2>1. x + y + Wrap = x + y + 1 * Wrap
    BY <1>2, WrapInt
  <2>2. Congruent(x + y + Wrap, x + y)
    BY <2>1 DEF Congruent
  <2>3. QED  BY <1>1, <1>5, <2>2
<1>6. QED  BY <1>1, <1>3, <1>4, <1>5

\* The lanes b after a block that adds p to the lanes a.
LEMMA LanesCongruent ==
  ASSUME NEW a, NEW p, NEW b, NEW n \in Int,
         \A q \in 0..3 : /\ a[q] \in Int /\ p[q] \in Int /\ b[q] \in Int
                        /\ Congruent(b[q], a[q] + p[q]),
         Congruent(a[0] + a[1] + a[2] + a[3], n)
  PROVE  Congruent(b[0] + b[1] + b[2] + b[3], n + (p[0] + p[1]) + (p[2] + p[3]))
<1> DEFINE a0 == a[0]
           a1 == a[1]
           a2 == a[2]
           a3 == a[3]
           p0 == p[0]
           p1 == p[1]
           p2 == p[2]
           p3 == p[3]
           b0 == b[0]
           b1 == b[1]
           b2 == b[2]
           b3 == b[3]
<1>1. /\ a0 \in Int /\ a1 \in Int /\ a2 \in Int /\ a3 \in Int
      /\ p0 \in Int /\ p1 \in Int /\ p2 \in Int /\ p3 \in Int
      /\ b0 \in Int /\ b1 \in Int /\ b2 \in Int /\ b3 \in Int
  OBVIOUS
<1>2. /\ Congruent(b0, a0 + p0) /\ Congruent(b1, a1 + p1) /\ Congruent(b2, a2 + p2)
      /\ Congruent(b3, a3 + p3) /\ Congruent(a0 + a1 + a2 + a3, n)
  OBVIOUS
<1> SUFFICES Congruent(b0 + b1 + b2 + b3, n + (p0 + p1) + (p2 + p3))
  OBVIOUS
<1> HIDE DEF a0, a1, a2, a3, p0, p1, p2, p3, b0, b1, b2, b3
<1>3. PICK w0 \in Int : b0 = a0 + p0 + w0 * Wrap
  BY <1>2 DEF Congruent
<1>4. PICK w1 \in Int : b1 = a1 + p1 + w1 * Wrap
  BY <1>2 DEF Congruent
<1>5. PICK w2 \in Int : b2 = a2 + p2 + w2 * Wrap
  BY <1>2 DEF Congruent
<1>6. PICK w3 \in Int : b3 = a3 + p3 + w3 * Wrap
  BY <1>2 DEF Congruent
<1>7. PICK w \in Int : a0 + a1 + a2 + a3 = n + w * Wrap
  BY <1>2 DEF Congruent
<1> DEFINE all == w0 + w1 + w2 + w3 + w
           t0 == w0 * Wrap
           t1 == w1 * Wrap
           t2 == w2 * Wrap
           t3 == w3 * Wrap
           t == w * Wrap
<1>8. t0 \in Int /\ t1 \in Int /\ t2 \in Int /\ t3 \in Int /\ t \in Int
  BY WrapInt
<1>9. all * Wrap = t0 + t1 + t2 + t3 + t /\ all \in Int
  BY WrapInt
<1>10. /\ b0 = a0 + p0 + t0 /\ b1 = a1 + p1 + t1 /\ b2 = a2 + p2 + t2
      /\ b3 = a3 + p3 + t3 /\ a0 + a1 + a2 + a3 = n + t
  BY <1>3, <1>4, <1>5, <1>6, <1>7
<1> HIDE DEF all, t0, t1, t2, t3, t
<1>11. b0 + b1 + b2 + b3 = n + (p0 + p1) + (p2 + p3) + (t0 + t1 + t2 + t3 + t)
  BY <1>8, <1>10, <1>1
<1>12. b0 + b1 + b2 + b3 = n + (p0 + p1) + (p2 + p3) + all * Wrap
  BY <1>9, <1>11
<1>13. QED  BY <1>9, <1>12 DEF Congruent

LEMMA I32IsInt == I32 \subseteq Int
BY DEF I32

\* popcount's horizontal sum.
LEMMA TotalCongruent ==
  ASSUME NEW a \in I32, NEW b \in I32, NEW c \in I32, NEW d \in I32
  PROVE  /\ I32Add(I32Add(I32Add(a, b), c), d) \in I32
         /\ Congruent(I32Add(I32Add(I32Add(a, b), c), d), a + b + c + d)
<1> DEFINE x == I32Add(a, b)
           y == I32Add(x, c)
           z == I32Add(y, d)
<1>1. x \in I32 /\ Congruent(x, a + b)
  BY AddCongruent
<1> HIDE DEF x
<1>2. y \in I32 /\ Congruent(y, x + c)
  BY <1>1, AddCongruent
<1> HIDE DEF y
<1>3. z \in I32 /\ Congruent(z, y + d)
  BY <1>2, AddCongruent
<1> HIDE DEF z
<1>4. a \in Int /\ b \in Int /\ c \in Int /\ d \in Int /\ x \in Int /\ y \in Int /\ z \in Int
  BY <1>1, <1>2, <1>3, I32IsInt
<1>5. Congruent(x + c, a + b + c)
  BY <1>1, <1>4, CongruentSelf, CongruentSum
<1>6. Congruent(y, a + b + c)
  BY <1>2, <1>4, <1>5, CongruentTo
<1>7. Congruent(y + d, a + b + c + d)
  BY <1>4, <1>6, CongruentSelf, CongruentSum
<1>8. Congruent(z, a + b + c + d)
  BY <1>3, <1>4, <1>7, CongruentTo
<1>9. QED  BY <1>3, <1>8 DEF x, y, z

\* A total within i32 of at most eight bits a byte differs from it by at most
\* four turns, and not at all while the total is an i32.
LEMMA TurnsBounded ==
  ASSUME NEW x \in I32, NEW ones \in Nat, ones <= 8 * MaxInt, Congruent(x, ones)
  PROVE  /\ ones <= MaxInt => x = ones
         /\ \E wraps \in 0..4 : x = ones - wraps * Wrap
<1>1. PICK w \in Int : x = ones + w * Wrap
  BY DEF Congruent
<1>2. /\ x \in Int /\ -(MaxInt + 1) <= x /\ x <= MaxInt
  BY WrapInt DEF I32
<1>3. w <= 0
  <2> SUFFICES ASSUME w >= 1 PROVE FALSE
    OBVIOUS
  <2>1. (w - 1) * Wrap >= 0 /\ (w - 1) * Wrap = w * Wrap - Wrap /\ w * Wrap \in Int
    BY WrapInt
  <2>2. QED  BY <1>1, <1>2, <2>1, WrapInt
<1>4. w >= -4
  <2> SUFFICES ASSUME w <= -5 PROVE FALSE
    OBVIOUS
  <2>1. (-w - 5) * Wrap >= 0 /\ (-w - 5) * Wrap = -(w * Wrap) - 5 * Wrap /\ w * Wrap \in Int
    BY WrapInt
  <2>2. QED  BY <1>1, <1>2, <2>1, WrapInt
<1>5. w \in {-4, -3, -2, -1, 0}
  BY <1>3, <1>4
<1>6. ones <= MaxInt => x = ones
  BY <1>1, <1>2, <1>5, WrapInt
<1>7. -w \in 0..4 /\ x = ones - (-w) * Wrap
  BY <1>1, <1>5, WrapInt
<1>8. QED  BY <1>6, <1>7

LEMMA CInitially == Init => CInv
<1> SUFFICES ASSUME Init PROVE CInv
  OBVIOUS
<1>1. pc = "blocks" /\ i = 0 /\ count = 0 /\ acc[0] + acc[1] + acc[2] + acc[3] = 0
  BY DEF Init
<1>2. 16 * i = 0 /\ 0..(0 - 1) = {}
  BY <1>1
<1>3. HeadsBefore(16 * i) = {} /\ BitsBefore(16 * i) = {}
  BY <1>2 DEF HeadsBefore, BitsBefore
<1>4. Cardinality({}) = 0
  BY FS_EmptySet
<1>5. Congruent(0, 0)
  BY CongruentSelf
<1>6. QED  BY <1>1, <1>3, <1>4, <1>5 DEF CInv, Counted, CountIsExact

LEMMA CStep == SInv /\ TInv /\ CInv /\ [Next]_vars => CInv'
<1> SUFFICES ASSUME SInv, TInv, CInv, [Next]_vars PROVE CInv'
  OBVIOUS
<1>0. i \in Nat /\ Scanning /\ call.len \in Nat
  BY CallFacts DEF SInv
<1>1. CASE CountRunes
  <2>1. /\ pc = "blocks" /\ call.kernel = "utf8len" /\ i < call.len
        /\ count' = I32Add(I32Add(count, 16), -I32Popcnt(Mask(Block)))
        /\ i' = i + 1 /\ UNCHANGED <<call, mem, pc>>
    BY <1>1 DEF CountRunes, AtBlock
  <2>0. MaxInt \in Nat /\ count \in Nat /\ count + 16 <= MaxInt
    <3>1. count \in 0..(16 * i)
      BY <1>0 DEF TInv, Runes
    <3>2. MaxInt \in Nat /\ 16 * call.len + 16 <= MaxInt
      BY <1>0, <2>1, SmallFits DEF Bytes
    <3>3. QED  BY <1>0, <2>1, <3>1, <3>2
  <2>2. HeadsBefore(16 * i)' = HeadsBefore(16 * (i + 1))
    BY <2>1 DEF HeadsBefore, At
  <2>3. count' = Cardinality(HeadsBefore(16 * (i + 1)))
    <3>1. count = Cardinality(HeadsBefore(16 * i))
      BY <2>1 DEF CInv, Counted
    <3>2. Cardinality(HeadsBefore(16 * (i + 1)))
            = Cardinality(HeadsBefore(16 * i)) + 16 - I32Popcnt(Mask(Block))
      BY <1>0, <2>1, HeadsOfBlock
    <3> DEFINE c == I32Popcnt(Mask(Block))
    <3>3. count' = count + 16 - c
      <4>1. count' = I32Add(I32Add(count, 16), -c)
        BY <2>1
      <4>2. c \in 0..16
        <5>1. Mask(Block) \in SUBSET Lane
          BY <2>1 DEF Mask, utf8len, Bitmask
        <5>2. QED  BY <5>1, LanesCounted
      <4> HIDE DEF c
      <4>3. QED  BY <2>0, <4>1, <4>2, CountFits
    <3>4. QED  BY <3>1, <3>2, <3>3
  <2>4. QED  BY <2>1, <2>2, <2>3 DEF CInv, Counted, CountIsExact
<1>2. CASE CountBits
  <2>1. /\ pc = "blocks" /\ call.kernel = "popcount" /\ i < call.len
        /\ acc' = [q \in 0..3 |-> I32Add(acc[q], popcount(Block)[q])]
        /\ i' = i + 1 /\ UNCHANGED <<call, mem, pc>>
    BY <1>2 DEF CountBits, AtBlock
  <2>2. BitsBefore(16 * i)' = BitsBefore(16 * (i + 1))
    BY <2>1 DEF BitsBefore, At
  <2> DEFINE P(q) == popcount(Block)[q]
             ones == Cardinality(BitsBefore(16 * i))
  <2>3. Congruent(acc[0] + acc[1] + acc[2] + acc[3], ones) /\ ones <= 128 * i
    BY <2>1 DEF CInv, Counted
  <2>4. ASSUME NEW q \in 0..3
        PROVE  /\ acc[q] \in Int /\ P(q) \in 0..32 /\ acc'[q] \in Int
               /\ Congruent(acc'[q], acc[q] + P(q))
    <3>1. acc[q] \in I32
      BY DEF TInv, Sums
    <3>2. MaxInt \in Nat /\ 16 * call.len + 16 <= MaxInt
      BY <1>0, <2>1, SmallFits DEF Bytes
    <3>3. P(q) \in 0..32 /\ P(q) \in I32
      BY <1>0, <2>1, <3>2, LaneBits, LaneFits
    <3>4. acc'[q] = I32Add(acc[q], P(q))
      BY <2>1
    <3>5. QED  BY <3>1, <3>3, <3>4, AddCongruent, I32IsInt
  <2>5. Cardinality(BitsBefore(16 * (i + 1))) = ones + (P(0) + P(1)) + (P(2) + P(3)) /\ ones \in Nat
    BY <1>0, <2>1, BitsOfBlock, FiniteBits
  <2> DEFINE p0 == P(0)
             p1 == P(1)
             p2 == P(2)
             p3 == P(3)
  <2>7. p0 \in 0..32 /\ p1 \in 0..32 /\ p2 \in 0..32 /\ p3 \in 0..32
    BY <2>4
  <2>9. Congruent(acc'[0] + acc'[1] + acc'[2] + acc'[3], ones + (p0 + p1) + (p2 + p3))
    <3>1. Congruent(acc[0] + acc[1] + acc[2] + acc[3], ones) /\ ones \in Int
      BY <2>3, <2>5
    <3> DEFINE p == popcount(Block)
    <3>2. \A q \in 0..3 : /\ acc[q] \in Int /\ p[q] \in Int /\ acc'[q] \in Int
                         /\ Congruent(acc'[q], acc[q] + p[q])
      BY <2>4
    <3> HIDE DEF ones, p
    <3>3. Congruent(acc'[0] + acc'[1] + acc'[2] + acc'[3], ones + (p[0] + p[1]) + (p[2] + p[3]))
      BY <3>1, <3>2, LanesCongruent
    <3>4. QED  BY <3>3 DEF p
  <2>10. ones + (p0 + p1) + (p2 + p3) <= 128 * (i + 1)
    <3>1. ones \in Nat /\ ones <= 128 * i
      BY <2>3, <2>5
    <3> HIDE DEF P, ones, p0, p1, p2, p3
    <3>2. QED  BY <1>0, <2>7, <3>1
  <2>11. QED  BY <2>1, <2>2, <2>5, <2>9, <2>10 DEF CInv, Counted, CountIsExact
<1>3. CASE Done
  <2>1. /\ pc = "blocks" /\ pc' = "returned" /\ UNCHANGED <<call, mem, i>>
        /\ call.kernel = "utf8len" => result' = count
        /\ call.kernel = "popcount" =>
             result' = I32Add(I32Add(I32Add(acc[0], acc[1]), acc[2]), acc[3])
    BY <1>3 DEF Done, Return, Searches, Verdicts
  <2>2. call.kernel # "matchlen16" /\ i = call.len /\ Bytes(call) = 16 * i
    BY <1>0, <1>3 DEF Done, AtBlock, SInv, BlockLoop, Bytes
  <2>3. /\ HeadsBefore(16 * i) = {k \in Buffer : At(k) \notin 128..191}
        /\ BitsBefore(16 * i) = {p \in Buffer \X BitValues : Bit(At(p[1]), p[2]) = 1}
    BY <2>2 DEF HeadsBefore, BitsBefore, Buffer
  <2> DEFINE ones == Cardinality(BitsBefore(16 * i))
  <2>4. call.kernel = "utf8len" =>
             result' = Cardinality({k \in Buffer : At(k) \notin 128..191})
    BY <2>1, <2>3 DEF CInv, Counted
  <2>5. ASSUME call.kernel = "popcount"
        PROVE  /\ ones <= MaxInt => result' = ones
               /\ \E wraps \in 0..4 : result' = ones - wraps * Wrap
    <3>1. acc[0] \in I32 /\ acc[1] \in I32 /\ acc[2] \in I32 /\ acc[3] \in I32
      BY DEF TInv, Sums
    <3>2. result' \in I32 /\ Congruent(result', acc[0] + acc[1] + acc[2] + acc[3])
      BY <2>1, <2>5, <3>1, TotalCongruent
    <3>3. Congruent(acc[0] + acc[1] + acc[2] + acc[3], ones) /\ ones <= 128 * i /\ ones \in Nat
      BY <1>0, <2>1, <2>5, FiniteBits DEF CInv, Counted
    <3>4. acc[0] + acc[1] + acc[2] + acc[3] \in Int
      <4>1. acc[0] \in Int /\ acc[1] \in Int /\ acc[2] \in Int /\ acc[3] \in Int
        BY <3>1, I32IsInt
      <4>2. QED  BY <4>1
    <3> HIDE DEF ones
    <3>5. Congruent(result', ones)
      BY <3>2, <3>3, <3>4, CongruentTo, I32IsInt
    <3>6. ones <= 8 * MaxInt
      <4>1. MaxInt \in Nat /\ Bytes(call) \in Nat /\ Bytes(call) <= MaxInt
        BY <1>0, SmallFits
      <4>2. ones <= 128 * i /\ ones \in Nat /\ i \in Nat
        BY <1>0, <3>3
      <4>3. 16 * i = Bytes(call)
        BY <2>2
      <4>4. 128 * i = 8 * Bytes(call)
        BY <4>2, <4>3
      <4>5. QED  BY <4>1, <4>2, <4>4
    <3>7. QED  BY <3>2, <3>3, <3>5, <3>6, TurnsBounded
  <2>6. CountIsExact'
    <3> DEFINE heads == {k \in Buffer : At(k) \notin 128..191}
               bits == {p \in Buffer \X BitValues : Bit(At(p[1]), p[2]) = 1}
    <3>1. call' = call /\ Buffer' = Buffer
      BY <2>1 DEF Buffer, Bytes
    <3>2. heads' = heads /\ bits' = bits
      BY <2>1, <3>1 DEF At
    <3>3. call.kernel = "utf8len" => result' = Cardinality(heads')
      BY <2>4, <3>2
    <3>4. ones = Cardinality(bits')
      BY <2>3, <3>2
    <3>5. call.kernel = "popcount" =>
            /\ Cardinality(bits') <= MaxInt => result' = Cardinality(bits')
            /\ \E wraps \in 0..4 : result' = Cardinality(bits') - wraps * Wrap
      BY <2>5, <3>4
    <3> HIDE DEF heads, bits, ones
    <3>6. QED  BY <3>1, <3>3, <3>5 DEF CountIsExact, heads, bits
  <2>7. QED  BY <2>1, <2>6 DEF CInv, Counted
<1>4. CASE Found \/ Refused \/ NextBlock \/ MatchChunk \/ ChunksDone \/ MatchByte \/ BytesDone
  <2>1. call.kernel \notin Counts /\ call' = call
    BY <1>4 DEF Found, Refused, NextBlock, MatchChunk, ChunksDone, MatchByte, BytesDone,
       Searches, Verdicts, Counts, SInv, BlockLoop
  <2>2. QED  BY <2>1 DEF CInv, Counted, CountIsExact, Counts
<1>5. CASE UNCHANGED vars
  BY <1>5 DEF vars, CInv, Counted, CountIsExact, HeadsBefore, BitsBefore, Buffer, Bytes, At
<1>6. QED  BY <1>1, <1>2, <1>3, <1>4, <1>5 DEF Next

\* utf8len returns the number of bytes that are no continuation bytes, and
\* popcount the number of one bits while that is an i32 and else the i32 it
\* wraps to, of the whole buffer, for every buffer and length
\* (utf8len/main.go:23, popcount/main.go:102-128).
THEOREM CountsExact == Spec => []CountIsExact
<1>1. CInv => CountIsExact
  BY DEF CInv
<1>2. Spec => []TInv
  BY Invariance, TInitially, TStep, PTL DEF Spec
<1>3. Spec => []CInv
  BY <1>2, Invariance, CInitially, CStep, PTL DEF Spec
<1>4. QED  BY <1>1, <1>3, PTL

=============================================================================
