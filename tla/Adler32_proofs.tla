---------------------------- MODULE Adler32_proofs ----------------------------
(***************************************************************************)
(* The unreduced sums of the Adler-32 kernel, for every modulus, word and  *)
(* batch that meet the assumption, and that Adler-32's own constants do:   *)
(* they fit their words, and reduced they are Adler-32 of the bytes.       *)
(***************************************************************************)
EXTENDS Adler32, TLAPS

-----------------------------------------------------------------------------
(* A block adds at most sixteen greatest bytes, weighted 16 to 1. *)

LEMMA DeltaBound ==
  ASSUME NEW m \in Nat, NEW bytes \in [Lane -> 0..m]
  PROVE  DeltaA(bytes) \in 0..(16 * m)
<1>1. \A k \in 0..15 : bytes[k] \in 0..m
  BY DEF Lane
<1>2. DeltaA(bytes) =
        bytes[0] + bytes[1] + (bytes[2] + bytes[3])
        + (bytes[4] + bytes[5] + (bytes[6] + bytes[7]))
        + (bytes[8] + bytes[9] + (bytes[10] + bytes[11]))
        + (bytes[12] + bytes[13] + (bytes[14] + bytes[15]))
  BY <1>1 DEF DeltaA, HorizontalSum, ExtaddPairwise
<1>3. QED  BY <1>1, <1>2

LEMMA WeightedBound ==
  ASSUME NEW m \in Nat, NEW bytes \in [Lane -> 0..m]
  PROVE  Weighted(bytes) \in 0..(136 * m)
<1>1. \A k \in 0..15 : bytes[k] \in 0..m
  BY DEF Lane
<1>2. \A k \in 0..15 : coef[k] = 16 - k
  BY DEF coef, Lane
<1> DEFINE P(k) == bytes[k] * (16 - k)
           low == I16x8Extmul(bytes, coef, 0)
           high == I16x8Extmul(bytes, coef, 8)
<1>3. \A k \in 0..7 : low[k] = P(k) /\ high[k] = P(8 + k)
  BY <1>1, <1>2 DEF I16x8Extmul
<1>4. Weighted(bytes) =
        (low[0] + low[1] + (high[0] + high[1])) + (low[2] + low[3] + (high[2] + high[3]))
        + (low[4] + low[5] + (high[4] + high[5])) + (low[6] + low[7] + (high[6] + high[7]))
  <2> HIDE DEF low, high
  <2> SUFFICES HorizontalSum([k \in 0..3 |-> ExtaddPairwise(low, 4)[k] + ExtaddPairwise(high, 4)[k]])
               = (low[0] + low[1] + (high[0] + high[1])) + (low[2] + low[3] + (high[2] + high[3]))
        + (low[4] + low[5] + (high[4] + high[5])) + (low[6] + low[7] + (high[6] + high[7]))
    BY DEF Weighted, low, high
  <2> QED  BY DEF HorizontalSum, ExtaddPairwise
<1>5. \A k \in 0..15 : P(k) \in 0..((16 - k) * m)
  <2> SUFFICES ASSUME NEW k \in 0..15 PROVE bytes[k] * (16 - k) \in 0..((16 - k) * m)
    OBVIOUS
  <2>1. bytes[k] \in 0..m
    BY <1>1
  <2>2. ASSUME NEW x \in Nat, x <= m, NEW w \in Nat PROVE x * w \in Nat /\ x * w <= w * m
    BY <2>2
  <2>3. QED  BY <2>1, <2>2
<1>6. /\ low[0] \in 0..(16 * m) /\ low[1] \in 0..(15 * m) /\ low[2] \in 0..(14 * m)
      /\ low[3] \in 0..(13 * m) /\ low[4] \in 0..(12 * m) /\ low[5] \in 0..(11 * m)
      /\ low[6] \in 0..(10 * m) /\ low[7] \in 0..(9 * m)
  BY <1>3, <1>5
<1>7. /\ high[0] \in 0..(8 * m) /\ high[1] \in 0..(7 * m) /\ high[2] \in 0..(6 * m)
      /\ high[3] \in 0..(5 * m) /\ high[4] \in 0..(4 * m) /\ high[5] \in 0..(3 * m)
      /\ high[6] \in 0..(2 * m) /\ high[7] \in 0..m
  BY <1>3, <1>5
<1> HIDE DEF low, high
<1>8. QED  BY <1>4, <1>6, <1>7

-----------------------------------------------------------------------------
(* What the greatest sums grow by. *)

LEMMA GrowA ==
  ASSUME NEW m \in Nat, NEW p \in Nat, NEW k \in Nat
  PROVE  p - 1 + 16 * m * (k + 1) = (p - 1 + 16 * m * k) + 16 * m
  OBVIOUS

LEMMA GrowB ==
  ASSUME NEW m \in Nat, NEW p \in Nat, NEW k \in Nat
  PROVE  p - 1 + 16 * (p - 1) * (k + 1) + 8 * m * ((k + 1) * (16 * (k + 1) + 1))
         = (p - 1 + 16 * (p - 1) * k + 8 * m * (k * (16 * k + 1)))
             + 16 * (p - 1 + 16 * m * k) + 136 * m
  OBVIOUS

\* Sixteen bytes of m: each counts 16, 15, .. 1 times.
LEMMA BlockOf ==
  ASSUME NEW m \in Nat, NEW bytes, bytes = [k \in Lane |-> m]
  PROVE  DeltaA(bytes) = 16 * m /\ Weighted(bytes) = 136 * m
<1>1. \A k \in 0..15 : bytes[k] = m /\ coef[k] = 16 - k
  BY DEF coef, Lane
<1>2. DeltaA(bytes) = 16 * m
  BY <1>1 DEF DeltaA, HorizontalSum, ExtaddPairwise
<1> DEFINE low == I16x8Extmul(bytes, coef, 0)
           high == I16x8Extmul(bytes, coef, 8)
<1>3. /\ low[0] = m * 16 /\ low[1] = m * 15 /\ low[2] = m * 14 /\ low[3] = m * 13
      /\ low[4] = m * 12 /\ low[5] = m * 11 /\ low[6] = m * 10 /\ low[7] = m * 9
  BY <1>1 DEF I16x8Extmul
<1>4. /\ high[0] = m * 8 /\ high[1] = m * 7 /\ high[2] = m * 6 /\ high[3] = m * 5
      /\ high[4] = m * 4 /\ high[5] = m * 3 /\ high[6] = m * 2 /\ high[7] = m
  BY <1>1 DEF I16x8Extmul
<1>5. Weighted(bytes) =
        (low[0] + low[1] + (high[0] + high[1])) + (low[2] + low[3] + (high[2] + high[3]))
        + (low[4] + low[5] + (high[4] + high[5])) + (low[6] + low[7] + (high[6] + high[7]))
  <2> HIDE DEF low, high
  <2> SUFFICES HorizontalSum([k \in 0..3 |-> ExtaddPairwise(low, 4)[k] + ExtaddPairwise(high, 4)[k]])
               = (low[0] + low[1] + (high[0] + high[1])) + (low[2] + low[3] + (high[2] + high[3]))
        + (low[4] + low[5] + (high[4] + high[5])) + (low[6] + low[7] + (high[6] + high[7]))
    BY DEF Weighted, low, high
  <2> QED  BY DEF HorizontalSum, ExtaddPairwise
<1> HIDE DEF low, high
<1>6. QED  BY <1>2, <1>3, <1>4, <1>5

-----------------------------------------------------------------------------
(* The constants of the program: sums reduced modulo 65521 in words of 32    *)
(* bits, bytes up to 255, 347 blocks in a call (adler32/main.go:53).         *)

\* With them the greatest sums after every block of a batch fit their words.
THEOREM BatchFits ==
  ASSUME Modulus = 65521, MaxByte = 255, Word = 4294967296, NEW k \in 0..347
  PROVE  GreatestA(k) < Word /\ GreatestB(k) < Word
<1>1. k * (16 * k + 1) \in Nat /\ k * (16 * k + 1) <= 347 * 5553
  <2>1. k \in Nat /\ k <= 347 /\ 16 * k + 1 \in Nat /\ 16 * k + 1 <= 5553
    OBVIOUS
  <2>2. ASSUME NEW x \in Nat, NEW y \in Nat, x <= 347, y <= 5553
        PROVE  x * y \in Nat /\ x * y <= 347 * 5553
    <3>1. x * y <= 347 * y
      BY <2>2
    <3>2. QED  BY <2>2, <3>1
  <2>3. QED  BY <2>1, <2>2
<1>2. QED  BY <1>1 DEF GreatestA, GreatestB

LEMMA GreatestB347 ==
  ASSUME Modulus = 65521, MaxByte = 255
  PROVE  GreatestB(347) = 4294690200 /\ GreatestB(348) = 4318425360
<1>1. Modulus - 1 = 65520 /\ 347 * (16 * 347 + 1) = 1926891 /\ 348 * (16 * 348 + 1) = 1938012
  OBVIOUS
<1>2. 16 * 65520 * 347 = 363767040 /\ 16 * 65520 * 348 = 364815360
  OBVIOUS
<1>3. 8 * 255 * 1926891 = 3930857640 /\ 8 * 255 * 1938012 = 3953544480
  OBVIOUS
<1>4. QED  BY <1>1, <1>2, <1>3 DEF GreatestB

\* And no longer batch would do: where the caller hands over the greatest
\* residues and every byte is 255, each block takes the kernel's sums from the
\* greatest to the greatest, and the block after the 347th wraps b
\* (adler32/main.go:53).
THEOREM BatchIsLongest ==
  ASSUME Modulus = 65521, MaxByte = 255, Word = 4294967296,
         Blocks = {[l \in Lane |-> MaxByte]},
         NEW k \in 0..347, a = GreatestA(k), b = GreatestB(k), Block
  PROVE  /\ GreatestA(0) = Modulus - 1 /\ GreatestB(0) = Modulus - 1
         /\ k < 347 => a' = GreatestA(k + 1) /\ b' = GreatestB(k + 1)
         /\ k = 347 => b' < b
<1>1. GreatestA(0) = Modulus - 1 /\ GreatestB(0) = Modulus - 1
  BY DEF GreatestA, GreatestB
<1>2. PICK bytes \in Blocks :
        /\ b' = (b + 16 * a + Weighted(bytes)) % Word
        /\ a' = (a + DeltaA(bytes)) % Word
  BY DEF Block
<1>3. DeltaA(bytes) = 16 * MaxByte /\ Weighted(bytes) = 136 * MaxByte
  BY BlockOf
<1>4. GreatestA(k + 1) = GreatestA(k) + 16 * MaxByte
  BY GrowA DEF GreatestA
<1>5. GreatestB(k + 1) = GreatestB(k) + 16 * GreatestA(k) + 136 * MaxByte
  BY GrowB DEF GreatestA, GreatestB
<1>6. GreatestA(k) \in Nat /\ GreatestB(k) \in Nat
  BY DEF GreatestA, GreatestB
<1>7. b' = GreatestB(k + 1) % Word /\ a' = GreatestA(k + 1) % Word
  BY <1>2, <1>3, <1>4, <1>5, <1>6
<1>8. GreatestA(k + 1) \in Nat /\ GreatestB(k + 1) \in Nat
  BY <1>4, <1>5, <1>6
<1>9. k < 347 => a' = GreatestA(k + 1) /\ b' = GreatestB(k + 1)
  <2> SUFFICES ASSUME k < 347 PROVE a' = GreatestA(k + 1) /\ b' = GreatestB(k + 1)
    OBVIOUS
  <2>1. k + 1 \in 0..347
    OBVIOUS
  <2>2. GreatestA(k + 1) < Word /\ GreatestB(k + 1) < Word
    BY <2>1, BatchFits
  <2>3. QED  BY <1>7, <1>8, <2>2
<1>10. k = 347 => b' < b
  <2> SUFFICES ASSUME k = 347 PROVE b' < b
    OBVIOUS
  <2>1. k + 1 = 348
    OBVIOUS
  <2>2. b = 4294690200 /\ GreatestB(k + 1) = 4318425360
    BY <2>1, GreatestB347
  <2>3. b' = 4318425360 % 4294967296
    BY <1>7, <2>2
  <2>4. QED  BY <2>2, <2>3
<1>11. QED  BY <1>1, <1>9, <1>10

-----------------------------------------------------------------------------
(***************************************************************************)
(* The inductive invariant: in a call, the sums are at most the greatest   *)
(* ones after as many blocks.                                              *)
(***************************************************************************)
IInv ==
  /\ TypeOK
  /\ pc = "kernel" => a <= GreatestA(i) /\ b <= GreatestB(i)

\* What a block does while the sums are within their bounds.
LEMMA BlockStep ==
  ASSUME IInv, pc = "kernel", More, NEW bytes \in Blocks
  PROVE  /\ b + 16 * a + Weighted(bytes) \in b..GreatestB(i + 1)
         /\ a + DeltaA(bytes) \in a..GreatestA(i + 1)
         /\ i + 1 \in 0..nBlocks /\ i + 1 \in 0..MaxBlocks
         /\ GreatestA(i + 1) < Word /\ GreatestB(i + 1) < Word
<1>1. /\ Modulus \in Nat /\ MaxByte \in Nat /\ MaxBlocks \in Nat /\ Word \in Nat
      /\ bytes \in [Lane -> 0..MaxByte]
      /\ \A k \in 0..MaxBlocks : GreatestA(k) < Word /\ GreatestB(k) < Word
  BY AdlerAssumption
<1>2. /\ i \in Nat /\ a \in Nat /\ b \in Nat /\ nBlocks \in 0..MaxBlocks
      /\ i < nBlocks
      /\ a <= GreatestA(i) /\ b <= GreatestB(i)
  BY <1>1 DEF IInv, TypeOK, More
<1>3. i + 1 \in 0..nBlocks /\ i + 1 \in 0..MaxBlocks
  BY <1>1, <1>2
<1>4. DeltaA(bytes) \in 0..(16 * MaxByte) /\ Weighted(bytes) \in 0..(136 * MaxByte)
  BY <1>1, DeltaBound, WeightedBound
<1>5. GreatestA(i + 1) = GreatestA(i) + 16 * MaxByte
  BY <1>1, <1>2, GrowA DEF GreatestA
<1>6. GreatestB(i + 1) = GreatestB(i) + 16 * GreatestA(i) + 136 * MaxByte
  BY <1>1, <1>2, GrowB DEF GreatestA, GreatestB
<1>7. GreatestA(i) \in Int /\ GreatestB(i) \in Int
  BY <1>1, <1>2 DEF GreatestA, GreatestB
<1>8. QED
  BY <1>1, <1>2, <1>3, <1>4, <1>5, <1>6, <1>7

LEMMA Initially == Init => IInv
<1>1. Modulus \in Nat \ {0, 1} /\ MaxBlocks \in Nat /\ MaxCalls \in Nat /\ Word \in Nat
      /\ MaxByte \in Nat /\ GreatestA(0) < Word
  BY AdlerAssumption
<1>2. GreatestA(0) = Modulus - 1
  BY <1>1 DEF GreatestA
<1>3. QED  BY <1>1, <1>2 DEF Init, IInv, TypeOK

LEMMA Step == IInv /\ [Next]_vars => IInv'
<1> SUFFICES ASSUME IInv, [Next]_vars PROVE IInv'
  OBVIOUS
<1>1. /\ Modulus \in Nat \ {0, 1} /\ MaxByte \in Nat /\ MaxBlocks \in Nat
      /\ MaxCalls \in Nat /\ Word \in Nat
      /\ \A k \in 0..MaxBlocks : GreatestA(k) < Word /\ GreatestB(k) < Word
  BY AdlerAssumption
<1>2. CASE CallKernel
  <2>1. /\ a' \in 0..(Modulus - 1) /\ b' \in 0..(Modulus - 1)
    BY <1>1, <1>2 DEF CallKernel, IInv, TypeOK
  <2>2. GreatestA(0) = Modulus - 1 /\ GreatestB(0) = Modulus - 1
    BY <1>1 DEF GreatestA, GreatestB
  <2>3. Modulus - 1 < Word
    BY <1>1, <2>2
  <2>4. TypeOK'
    BY <1>1, <1>2, <2>1, <2>3 DEF CallKernel, Batches, IInv, TypeOK
  <2>5. a' <= GreatestA(i') /\ b' <= GreatestB(i')
    <3>1. i' = 0
      BY <1>2 DEF CallKernel
    <3>2. QED  BY <1>1, <2>1, <2>2, <3>1
  <2>6. QED  BY <2>4, <2>5 DEF IInv, GreatestA, GreatestB
<1>3. CASE Block
  <2>1. PICK bytes \in Blocks :
          /\ b' = (b + 16 * a + Weighted(bytes)) % Word
          /\ a' = (a + DeltaA(bytes)) % Word
    BY <1>3 DEF Block
  <2>2. /\ b + 16 * a + Weighted(bytes) \in b..GreatestB(i + 1)
        /\ a + DeltaA(bytes) \in a..GreatestA(i + 1)
        /\ i + 1 \in 0..nBlocks /\ i + 1 \in 0..MaxBlocks
        /\ GreatestA(i + 1) < Word /\ GreatestB(i + 1) < Word
    BY <1>3, BlockStep DEF Block
  <2>3. GreatestA(i + 1) \in Int /\ GreatestB(i + 1) \in Int
    BY <1>1, <2>2 DEF GreatestA, GreatestB
  <2>4. a \in Nat /\ b \in Nat
    BY <1>1 DEF IInv, TypeOK
  <2>5. b' = b + 16 * a + Weighted(bytes) /\ a' = a + DeltaA(bytes)
    BY <1>1, <2>1, <2>2, <2>3, <2>4
  <2>6. a' \in 0..(Word - 1) /\ b' \in 0..(Word - 1) /\ a' <= GreatestA(i + 1) /\ b' <= GreatestB(i + 1)
    BY <1>1, <2>2, <2>3, <2>4, <2>5
  <2>7. i' = i + 1 /\ UNCHANGED <<pc, calls, nBlocks, aOut, bOut>>
    BY <1>3 DEF Block
  <2>8. TypeOK'
    BY <2>2, <2>6, <2>7 DEF IInv, TypeOK
  <2>9. QED  BY <2>6, <2>7, <2>8 DEF IInv, GreatestA, GreatestB
<1>4. CASE Return
  BY <1>4 DEF Return, IInv, TypeOK
<1>5. CASE UNCHANGED vars
  BY <1>5 DEF vars, IInv, TypeOK, GreatestA, GreatestB
<1>6. QED  BY <1>2, <1>3, <1>4, <1>5 DEF Next

\* The bound of the sums holds in every reachable state.
THEOREM Invariance == Spec => []IInv
<1>1. QED  BY Initially, Step, PTL DEF Spec

\* The kernel's state keeps its type, its sums within their word.
THEOREM TypeCorrect == Spec => []TypeOK
<1>1. IInv => TypeOK
  BY DEF IInv
<1>2. QED  BY <1>1, Invariance, PTL

\* In a call of at most MaxBlocks blocks no sum ever wraps around its word,
\* whatever the bytes (adler32/main.go:20).
THEOREM NoWrap == Spec => NeverWraps
<1>1. IInv /\ [Next]_vars => [pc = "kernel" => a' >= a /\ b' >= b]_vars
  <2> SUFFICES ASSUME IInv, Next, pc = "kernel" PROVE a' >= a /\ b' >= b
    OBVIOUS
  <2>1. Modulus \in Nat /\ MaxByte \in Nat /\ Word \in Nat
    BY AdlerAssumption
  <2>2. a \in Nat /\ b \in Nat
    BY <2>1 DEF IInv, TypeOK
  <2>3. CASE Block
    <3>1. PICK bytes \in Blocks :
            /\ b' = (b + 16 * a + Weighted(bytes)) % Word
            /\ a' = (a + DeltaA(bytes)) % Word
      BY <2>3 DEF Block
    <3>2. /\ b + 16 * a + Weighted(bytes) \in b..GreatestB(i + 1)
          /\ a + DeltaA(bytes) \in a..GreatestA(i + 1)
          /\ i + 1 \in Nat
          /\ GreatestA(i + 1) < Word /\ GreatestB(i + 1) < Word
      BY <2>3, BlockStep DEF Block
    <3>3. GreatestA(i + 1) \in Int /\ GreatestB(i + 1) \in Int
      BY <2>1, <3>2 DEF GreatestA, GreatestB
    <3>4. QED  BY <2>1, <2>2, <3>1, <3>2, <3>3
  <2>4. CASE Return
    BY <2>2, <2>4 DEF Return
  <2>5. QED  BY <2>3, <2>4 DEF Next, CallKernel
<1>2. QED  BY <1>1, Invariance, PTL DEF Spec, NeverWraps

-----------------------------------------------------------------------------
(* Reducing, and when it may be left for later.                            *)

\* What the remainder is.
LEMMA ModIs ==
  ASSUME NEW m \in Nat \ {0}, NEW q \in Int, NEW t \in 0..(m - 1)
  PROVE  (q * m + t) % m = t
<1> DEFINE x == q * m + t
           p == x \div m
<1>1. x \in Int /\ p \in Int /\ x % m \in 0..(m - 1) /\ x = m * p + (x % m)
  OBVIOUS
<1>2. (q - p) * m = (x % m) - t
  BY <1>1
<1>3. CASE q = p
  BY <1>1, <1>2, <1>3
<1>4. CASE q > p
  <2>1. \A d \in Nat \ {0} : d * m >= m
    OBVIOUS
  <2>2. (q - p) * m >= m
    BY <1>1, <1>4, <2>1
  <2> HIDE DEF x, p
  <2> QED BY <1>1, <1>2, <2>2
<1>5. CASE q < p
  <2>1. \A d \in Nat \ {0} : d * m >= m
    OBVIOUS
  <2>2. (p - q) * m >= m
    BY <1>1, <1>5, <2>1
  <2>3. (q - p) * m = -((p - q) * m)
    BY <1>1
  <2> HIDE DEF x, p
  <2> QED BY <1>1, <1>2, <2>2, <2>3
<1> QED BY <1>1, <1>3, <1>4, <1>5

\* Reducing a term first changes nothing.
Reduces(m, x, y) == ((x % m) + y) % m = (x + y) % m
LEMMA ModAdd ==
  ASSUME NEW m \in Nat \ {0}, NEW x \in Int, NEW y \in Int
  PROVE  Reduces(m, x, y)
<1> DEFINE z == (x % m) + y
<1>1. z \in Int /\ x = m * (x \div m) + (x % m) /\ x \div m \in Int
  OBVIOUS
<1>2. z = m * (z \div m) + (z % m) /\ z \div m \in Int /\ z % m \in 0..(m - 1)
  BY <1>1
<1>3. x + y = ((x \div m) + (z \div m)) * m + (z % m)
  BY <1>1, <1>2
<1>4. ((x \div m) + (z \div m)) \in Int
  BY <1>1, <1>2
<1> HIDE DEF z
<1>5. (x + y) % m = z % m
  BY <1>2, <1>3, <1>4, ModIs
<1> QED BY <1>5 DEF z, Reduces

Reduces16(m, x, z) == (16 * (x % m) + z) % m = (16 * x + z) % m

LEMMA ModAdd16 ==
  ASSUME NEW m \in Nat \ {0}, NEW x \in Int, NEW z \in Int
  PROVE  Reduces16(m, x, z)
<1> DEFINE d == x \div m
           y == 16 * (x % m) + z
           e == y \div m
           t == y % m
<1>1. d \in Int /\ x % m \in Int /\ x = m * d + (x % m)
  OBVIOUS
<1>2. y \in Int
  BY <1>1
<1>3. e \in Int /\ t \in 0..(m - 1) /\ y = m * e + t
  BY <1>2
<1>4. 16 * x + z = (16 * d + e) * m + t
  <2> DEFINE p == m * d
             q == m * e
  <2>1. p \in Int /\ q \in Int /\ (16 * d + e) * m = 16 * p + q
    BY <1>1, <1>3
  <2>2. x = p + (x % m) /\ y = q + t
    BY <1>1, <1>3
  <2> HIDE DEF p, q, d, e, t
  <2> QED BY <1>1, <1>3, <2>1, <2>2
<1>5. 16 * d + e \in Int
  BY <1>1, <1>3
<1> HIDE DEF d, e, t, y
<1>6. (16 * x + z) % m = t
  BY <1>3, <1>4, <1>5, ModIs
<1> QED BY <1>6 DEF t, y, Reduces16

-----------------------------------------------------------------------------
(* A block of sixteen bytes, byte after byte and at once.                  *)

\* The sum of the first k bytes, and of the sums of the first 1, 2, .. k: each
\* byte four at a time, as far as it counts.
Upto(f, k, j) == IF k > j THEN f[j] ELSE 0
Upto4(f, k, j) == Upto(f, k, j) + Upto(f, k, j + 1) + Upto(f, k, j + 2) + Upto(f, k, j + 3)
Sums(f, k) == Upto4(f, k, 0) + Upto4(f, k, 4) + Upto4(f, k, 8) + Upto4(f, k, 12)
Times(f, k, j) == IF k > j THEN (k - j) * f[j] ELSE 0
Times4(f, k, j) ==
  Times(f, k, j) + Times(f, k, j + 1) + Times(f, k, j + 2) + Times(f, k, j + 3)
SumsOfSums(f, k) == Times4(f, k, 0) + Times4(f, k, 4) + Times4(f, k, 8) + Times4(f, k, 12)

\* What one more byte adds.
LEMMA UptoStep ==
  ASSUME NEW f \in [Lane -> Nat], NEW k \in 0..15, NEW j \in 0..15
  PROVE  /\ Upto(f, k, j) \in Nat /\ Times(f, k, j) \in Nat
         /\ Upto(f, k + 1, j) = Upto(f, k, j) + (IF j = k THEN f[k] ELSE 0)
         /\ Times(f, k + 1, j) = Times(f, k, j) + Upto(f, k + 1, j)
<1>1. f[j] \in Nat
  BY DEF Lane
<1>2. \A d \in Nat : d * f[j] \in Nat /\ (d + 1) * f[j] = d * f[j] + f[j]
  BY <1>1
<1>3. CASE k > j
  <2>1. k - j \in Nat /\ k + 1 - j = (k - j) + 1 /\ k + 1 > j
    BY <1>3
  <2>2. (k - j) * f[j] \in Nat /\ ((k - j) + 1) * f[j] = (k - j) * f[j] + f[j]
    BY <1>2, <2>1
  <2>3. (k + 1 - j) * f[j] = (k - j) * f[j] + f[j]
    BY <2>1, <2>2
  <2> DEFINE p == (k - j) * f[j]
             q == (k + 1 - j) * f[j]
  <2>4. /\ Upto(f, k, j) = f[j] /\ Upto(f, k + 1, j) = f[j]
        /\ Times(f, k, j) = p /\ Times(f, k + 1, j) = q /\ j # k
    BY <1>3, <2>1 DEF Upto, Times
  <2>5. p \in Nat /\ q = p + f[j]
    BY <2>2, <2>3
  <2> HIDE DEF p, q
  <2> QED BY <1>1, <2>4, <2>5
<1>4. CASE k = j
  <2>1. k + 1 - j = 1 /\ k + 1 > j /\ ~(k > j)
    BY <1>4
  <2> QED BY <1>1, <1>4, <2>1 DEF Upto, Times
<1>5. CASE k < j
  <2>1. ~(k + 1 > j) /\ ~(k > j)
    BY <1>5
  <2> QED BY <1>1, <1>5, <2>1 DEF Upto, Times
<1> QED BY <1>3, <1>4, <1>5

LEMMA Upto4Step ==
  ASSUME NEW f \in [Lane -> Nat], NEW k \in 0..15, NEW j \in {0, 4, 8, 12}
  PROVE  /\ Upto4(f, k, j) \in Nat /\ Times4(f, k, j) \in Nat
         /\ Upto4(f, k + 1, j) = Upto4(f, k, j) + (IF k \in j..(j + 3) THEN f[k] ELSE 0)
         /\ Times4(f, k + 1, j) = Times4(f, k, j) + Upto4(f, k + 1, j)
<1> DEFINE u(l) == Upto(f, k, l)
           v(l) == Upto(f, k + 1, l)
           s(l) == Times(f, k, l)
           t(l) == Times(f, k + 1, l)
           e(l) == IF l = k THEN f[k] ELSE 0
<1>1. ASSUME NEW l \in 0..15
      PROVE  u(l) \in Nat /\ s(l) \in Nat /\ v(l) = u(l) + e(l) /\ t(l) = s(l) + v(l)
  BY UptoStep
<1>2. f[k] \in Nat
  BY DEF Lane
<1>3. j \in 0..15 /\ j + 1 \in 0..15 /\ j + 2 \in 0..15 /\ j + 3 \in 0..15
  OBVIOUS
<1>4. /\ e(j) + e(j + 1) + e(j + 2) + e(j + 3) = (IF k \in j..(j + 3) THEN f[k] ELSE 0)
      /\ e(j) \in Nat /\ e(j + 1) \in Nat /\ e(j + 2) \in Nat /\ e(j + 3) \in Nat
  BY <1>2
<1>5. /\ Upto4(f, k, j) = u(j) + u(j + 1) + u(j + 2) + u(j + 3)
      /\ Upto4(f, k + 1, j) = v(j) + v(j + 1) + v(j + 2) + v(j + 3)
      /\ Times4(f, k, j) = s(j) + s(j + 1) + s(j + 2) + s(j + 3)
      /\ Times4(f, k + 1, j) = t(j) + t(j + 1) + t(j + 2) + t(j + 3)
  BY DEF Upto4, Times4
<1> HIDE DEF u, v, s, t, e
<1>6. /\ u(j) \in Nat /\ s(j) \in Nat /\ v(j) = u(j) + e(j) /\ t(j) = s(j) + v(j)
      /\ u(j + 1) \in Nat /\ s(j + 1) \in Nat /\ v(j + 1) = u(j + 1) + e(j + 1)
      /\ t(j + 1) = s(j + 1) + v(j + 1)
      /\ u(j + 2) \in Nat /\ s(j + 2) \in Nat /\ v(j + 2) = u(j + 2) + e(j + 2)
      /\ t(j + 2) = s(j + 2) + v(j + 2)
      /\ u(j + 3) \in Nat /\ s(j + 3) \in Nat /\ v(j + 3) = u(j + 3) + e(j + 3)
      /\ t(j + 3) = s(j + 3) + v(j + 3)
  BY <1>1, <1>3
<1> QED BY <1>4, <1>5, <1>6

LEMMA SumsStep ==
  ASSUME NEW f \in [Lane -> Nat], NEW k \in 0..15
  PROVE  /\ Sums(f, k) \in Nat /\ SumsOfSums(f, k) \in Nat
         /\ Sums(f, k + 1) \in Nat /\ SumsOfSums(f, k + 1) \in Nat
         /\ Sums(f, k + 1) = Sums(f, k) + f[k]
         /\ SumsOfSums(f, k + 1) = SumsOfSums(f, k) + Sums(f, k + 1)
<1> DEFINE e(j) == IF k \in j..(j + 3) THEN f[k] ELSE 0
<1>1. \A j \in {0, 4, 8, 12} :
        /\ Upto4(f, k, j) \in Nat /\ Times4(f, k, j) \in Nat
        /\ Upto4(f, k + 1, j) = Upto4(f, k, j) + e(j)
        /\ Times4(f, k + 1, j) = Times4(f, k, j) + Upto4(f, k + 1, j)
  BY Upto4Step
<1>2. f[k] \in Nat
  BY DEF Lane
<1>3. /\ e(0) + e(4) + e(8) + e(12) = f[k]
      /\ e(0) \in Nat /\ e(4) \in Nat /\ e(8) \in Nat /\ e(12) \in Nat
  BY <1>2
<1> HIDE DEF e
<1> QED BY <1>1, <1>2, <1>3 DEF Sums, SumsOfSums

\* All sixteen of them are what the kernel's arithmetic gives.
LEMMA SumsEnds ==
  ASSUME NEW f \in [Lane -> Nat]
  PROVE  /\ Sums(f, 0) = 0 /\ SumsOfSums(f, 0) = 0
         /\ Sums(f, 16) = DeltaA(f) /\ SumsOfSums(f, 16) = Weighted(f)
<1>1. \A j \in 0..15 : f[j] \in Nat
  BY DEF Lane
<1>2. Sums(f, 0) = 0 /\ SumsOfSums(f, 0) = 0
  BY DEF Sums, SumsOfSums, Upto4, Times4, Upto, Times
<1>3. Sums(f, 16) = f[0] + f[1] + f[2] + f[3] + f[4] + f[5] + f[6] + f[7] + f[8] + f[9] + f[10]
                      + f[11] + f[12] + f[13] + f[14] + f[15]
  BY <1>1 DEF Sums, Upto4, Upto
<1> DEFINE p(k) == f[k] * (16 - k)
<1>4. \A j \in {0, 4, 8, 12} : Times4(f, 16, j) = p(j) + p(j + 1) + p(j + 2) + p(j + 3)
  <2> SUFFICES ASSUME NEW j \in {0, 4, 8, 12}
               PROVE  Times4(f, 16, j) = p(j) + p(j + 1) + p(j + 2) + p(j + 3)
    OBVIOUS
  <2>1. ASSUME NEW l \in 0..15 PROVE Times(f, 16, l) = p(l)
    BY <1>1 DEF Times
  <2>2. j \in 0..15 /\ j + 1 \in 0..15 /\ j + 2 \in 0..15 /\ j + 3 \in 0..15
    OBVIOUS
  <2> QED BY <2>1, <2>2 DEF Times4
<1>5. DeltaA(f) =
        f[0] + f[1] + (f[2] + f[3]) + (f[4] + f[5] + (f[6] + f[7]))
        + (f[8] + f[9] + (f[10] + f[11])) + (f[12] + f[13] + (f[14] + f[15]))
  BY <1>1 DEF DeltaA, HorizontalSum, ExtaddPairwise
<1>6. Weighted(f) =
        (p(0) + p(1) + (p(8) + p(9))) + (p(2) + p(3) + (p(10) + p(11)))
        + (p(4) + p(5) + (p(12) + p(13))) + (p(6) + p(7) + (p(14) + p(15)))
  <2>1. \A k \in 0..15 : coef[k] = 16 - k
    BY DEF coef, Lane
  <2> DEFINE low == I16x8Extmul(f, coef, 0)
             high == I16x8Extmul(f, coef, 8)
  <2>2. \A k \in 0..7 : low[k] = p(k) /\ high[k] = p(8 + k)
    BY <1>1, <2>1 DEF I16x8Extmul
  <2>3. Weighted(f) =
          (low[0] + low[1] + (high[0] + high[1])) + (low[2] + low[3] + (high[2] + high[3]))
          + (low[4] + low[5] + (high[4] + high[5])) + (low[6] + low[7] + (high[6] + high[7]))
    <3> HIDE DEF low, high
    <3> SUFFICES HorizontalSum([k \in 0..3 |-> ExtaddPairwise(low, 4)[k] + ExtaddPairwise(high, 4)[k]])
                 = (low[0] + low[1] + (high[0] + high[1])) + (low[2] + low[3] + (high[2] + high[3]))
          + (low[4] + low[5] + (high[4] + high[5])) + (low[6] + low[7] + (high[6] + high[7]))
      BY DEF Weighted, low, high
    <3> QED  BY DEF HorizontalSum, ExtaddPairwise
  <2> HIDE DEF low, high, p
  <2> QED BY <2>2, <2>3
<1>7. /\ f[0] \in Nat /\ f[1] \in Nat /\ f[2] \in Nat /\ f[3] \in Nat
      /\ f[4] \in Nat /\ f[5] \in Nat /\ f[6] \in Nat /\ f[7] \in Nat
      /\ f[8] \in Nat /\ f[9] \in Nat /\ f[10] \in Nat /\ f[11] \in Nat
      /\ f[12] \in Nat /\ f[13] \in Nat /\ f[14] \in Nat /\ f[15] \in Nat
  BY <1>1
<1>8. Sums(f, 16) = DeltaA(f)
  BY <1>3, <1>5, <1>7
<1>9. SumsOfSums(f, 16) = Weighted(f)
  <2>1. \A k \in 0..15 : p(k) \in Nat
    BY <1>1
  <2> HIDE DEF p
  <2>2. /\ Times4(f, 16, 0) = p(0) + p(1) + p(2) + p(3)
        /\ Times4(f, 16, 4) = p(4) + p(5) + p(6) + p(7)
        /\ Times4(f, 16, 8) = p(8) + p(9) + p(10) + p(11)
        /\ Times4(f, 16, 12) = p(12) + p(13) + p(14) + p(15)
    BY <1>4
  <2> QED BY <1>6, <2>1, <2>2 DEF SumsOfSums
<1> QED BY <1>2, <1>8, <1>9

\* One byte more, reduced.
OneMore(s, byte) == LET t == (s[1] + byte) % Modulus IN <<t, (s[2] + t) % Modulus>>
\* Byte after byte, reducing at each, as Adler does: sums that are so defined.
ByByte(x, y, f, sums) ==
  sums = [k \in 0..16 |->
            IF k = 0 THEN <<x, y>>
            ELSE OneMore(sums[k - 1], f[k - 1])]
AtOnce(x, y, f, k) ==
  <<(x + Sums(f, k)) % Modulus, (y + k * x + SumsOfSums(f, k)) % Modulus>>

LEMMA AtOnceStep ==
  ASSUME NEW x \in Nat, NEW y \in Nat, NEW f \in [Lane -> Nat], NEW k \in 0..15
  PROVE  OneMore(AtOnce(x, y, f, k), f[k]) = AtOnce(x, y, f, k + 1)
<1> DEFINE s == AtOnce(x, y, f, k)
           t == (s[1] + f[k]) % Modulus
           m == Modulus
           p == x + Sums(f, k)
           q == y + k * x + SumsOfSums(f, k)
           p1 == x + Sums(f, k + 1)
           q1 == y + (k + 1) * x + SumsOfSums(f, k + 1)
<1>1. m \in Nat \ {0}
  BY AdlerAssumption
<1>2. f[k] \in Nat
  BY DEF Lane
<1>3. p \in Nat /\ q \in Nat /\ p1 \in Nat /\ q1 \in Nat /\ p1 = p + f[k] /\ q1 = q + p1
  <2>1. k * x \in Nat /\ (k + 1) * x = k * x + x
    OBVIOUS
  <2> DEFINE kx == k * x
             k1x == (k + 1) * x
  <2>2. kx \in Nat /\ k1x = kx + x
    BY <2>1
  <2>3. q = y + kx + SumsOfSums(f, k) /\ q1 = y + k1x + SumsOfSums(f, k + 1)
    OBVIOUS
  <2> HIDE DEF kx, k1x, q, q1
  <2> QED BY <1>2, <2>2, <2>3, SumsStep
<1>4. s[1] = p % m /\ s[2] = q % m /\ t = (s[1] + f[k]) % m
  BY DEF AtOnce
<1>5. AtOnce(x, y, f, k + 1) = <<p1 % m, q1 % m>>
  BY DEF AtOnce
<1> HIDE DEF m, p, q, p1, q1, s, t
<1> DEFINE v == f[k]
<1>0. /\ m \in Nat \ {0} /\ v \in Int /\ p \in Int /\ q \in Int /\ p1 \in Int
      /\ p1 % m \in Int
  BY <1>1, <1>2, <1>3
<1> HIDE DEF v
<1>6. t = p1 % m
  <2>1. t = ((p % m) + f[k]) % m
    BY <1>4
  <2>2. Reduces(m, p, v)
    BY <1>0, ModAdd
  <2> QED BY <1>3, <2>1, <2>2 DEF Reduces, v
<1>7. (s[2] + t) % m = q1 % m
  <2>1. (s[2] + t) % m = ((q % m) + (p1 % m)) % m
    BY <1>4, <1>6
  <2>2. p1 % m \in Int /\ q % m \in Int
    BY <1>1, <1>3
  <2> DEFINE w == p1 % m
  <2> HIDE DEF w
  <2>6. Reduces(m, q, w)
    BY <1>0, ModAdd DEF w
  <2>3. ((q % m) + (p1 % m)) % m = (q + (p1 % m)) % m
    BY <2>6 DEF Reduces, w
  <2>4. q + (p1 % m) = (p1 % m) + q /\ p1 + q = q1
    BY <1>3, <2>2
  <2>7. Reduces(m, p1, q)
    BY <1>0, ModAdd
  <2>5. ((p1 % m) + q) % m = (p1 + q) % m
    BY <2>7 DEF Reduces
  <2> QED BY <2>1, <2>3, <2>4, <2>5
<1> QED BY <1>5, <1>6, <1>7 DEF m, s, t, OneMore

LEMMA AtOnceFirst ==
  ASSUME NEW x \in 0..(Modulus - 1), NEW y \in 0..(Modulus - 1), NEW f \in [Lane -> Nat]
  PROVE  AtOnce(x, y, f, 0) = <<x, y>>
<1>1. Modulus \in Nat \ {0}
  BY AdlerAssumption
<1>2. Sums(f, 0) = 0 /\ SumsOfSums(f, 0) = 0
  BY SumsEnds
<1>3. x + Sums(f, 0) = x /\ y + 0 * x + SumsOfSums(f, 0) = y
  BY <1>1, <1>2
<1>4. x % Modulus = x /\ y % Modulus = y
  BY <1>1
<1> QED BY <1>3, <1>4 DEF AtOnce

\* Adler-32 of a block reduced at every byte is that reduced once.
LEMMA AdlerIs ==
  ASSUME NEW x \in 0..(Modulus - 1), NEW y \in 0..(Modulus - 1), NEW f \in [Lane -> Nat]
  PROVE  Adler(x, y, f) =
           <<(x + DeltaA(f)) % Modulus, (y + 16 * x + Weighted(f)) % Modulus>>
<1>1. Modulus \in Nat \ {0} /\ x \in Nat /\ y \in Nat
  BY AdlerAssumption
<1> DEFINE g == [k \in 0..16 |-> AtOnce(x, y, f, k)]
           sums == CHOOSE s : ByByte(x, y, f, s)
<1>2. ByByte(x, y, f, g)
  <2>1. ASSUME NEW k \in 0..16, k # 0
        PROVE  OneMore(g[k - 1], f[k - 1]) = AtOnce(x, y, f, k)
    <3>1. k - 1 \in 0..15 /\ k = (k - 1) + 1 /\ g[k - 1] = AtOnce(x, y, f, k - 1)
      BY <2>1
    <3> HIDE DEF g
    <3> DEFINE l == k - 1
    <3>2. l \in 0..15 /\ k = l + 1
      BY <3>1
    <3> HIDE DEF l
    <3>3. OneMore(AtOnce(x, y, f, l), f[l]) = AtOnce(x, y, f, l + 1)
      BY <1>1, <3>2, AtOnceStep
    <3> QED BY <3>1, <3>2, <3>3 DEF l
  <2>2. AtOnce(x, y, f, 0) = <<x, y>>
    BY AtOnceFirst
  <2> QED BY <2>1, <2>2 DEF ByByte
<1>3. ByByte(x, y, f, sums)
  BY <1>2
<1>4. Adler(x, y, f) = sums[16]
  BY DEF Adler, ByByte, OneMore
<1> HIDE DEF sums
<1> DEFINE Same(k) == sums[k] = AtOnce(x, y, f, k)
<1>5. Same(0)
  BY <1>3, AtOnceFirst DEF ByByte
<1>6. ASSUME NEW k \in 0..15, Same(k) PROVE Same(k + 1)
  <2>1. k + 1 \in 0..16 /\ k + 1 # 0 /\ (k + 1) - 1 = k
    OBVIOUS
  <2>2. sums[k + 1] = OneMore(sums[k], f[k])
    BY <1>3, <2>1 DEF ByByte
  <2>3. sums[k] = AtOnce(x, y, f, k)
    BY <1>6
  <2>4. OneMore(AtOnce(x, y, f, k), f[k]) = AtOnce(x, y, f, k + 1)
    BY <1>1, AtOnceStep
  <2> QED BY <2>2, <2>3, <2>4
<1> HIDE DEF Same
<1>7. Same(8)
  <2>1. \A k \in 0..15 : Same(k) => Same(k + 1)
    BY <1>6
  <2>2. Same(1) /\ Same(2) /\ Same(3) /\ Same(4)
    BY <1>5, <2>1
  <2> QED BY <2>1, <2>2
<1>8. Same(16)
  <2>1. \A k \in 0..15 : Same(k) => Same(k + 1)
    BY <1>6
  <2>2. Same(9) /\ Same(10) /\ Same(11) /\ Same(12)
    BY <1>7, <2>1
  <2> QED BY <2>1, <2>2
<1>9. Sums(f, 16) = DeltaA(f) /\ SumsOfSums(f, 16) = Weighted(f)
  BY SumsEnds
<1> QED BY <1>4, <1>8, <1>9 DEF Same, AtOnce

-----------------------------------------------------------------------------
(* The sums, reduced, are Adler-32.                                        *)

\* What the sums are of the bytes so far, in a call and between calls.
AdlerInv ==
  /\ IInv
  /\ sumA \in 0..(Modulus - 1) /\ sumB \in 0..(Modulus - 1)
  /\ pc = "kernel" => a % Modulus = sumA /\ b % Modulus = sumB
  /\ IsAdler

\* A block keeps the sums those of the bytes, up to reducing.
LEMMA BlockSums ==
  ASSUME AdlerInv, Block
  PROVE  /\ sumA' \in 0..(Modulus - 1) /\ sumB' \in 0..(Modulus - 1)
         /\ a' % Modulus = sumA' /\ b' % Modulus = sumB'
<1> DEFINE m == Modulus
<1>1. m \in Nat \ {0} /\ MaxByte \in Nat
      /\ \A bytes \in Blocks : bytes \in [Lane -> 0..MaxByte]
  BY AdlerAssumption
<1>2. PICK f \in Blocks :
        /\ b' = (b + 16 * a + Weighted(f)) % Word /\ a' = (a + DeltaA(f)) % Word
        /\ sumA' = Adler(sumA, sumB, f)[1] /\ sumB' = Adler(sumA, sumB, f)[2]
  BY DEF Block
<1>3. f \in [Lane -> 0..MaxByte] /\ f \in [Lane -> Nat]
  BY <1>1
<1>4. /\ a \in Nat /\ b \in Nat
      /\ sumA \in 0..(m - 1) /\ sumB \in 0..(m - 1) /\ a % m = sumA /\ b % m = sumB
  BY AdlerAssumption DEF AdlerInv, IInv, TypeOK, Block
<1> DEFINE d == DeltaA(f)
           w == Weighted(f)
<1>5. d \in Nat /\ w \in Nat
  BY <1>1, <1>3, DeltaBound, WeightedBound
<1>6. a' = a + d /\ b' = b + 16 * a + w
  <2>1. /\ b + 16 * a + w \in b..GreatestB(i + 1)
        /\ a + d \in a..GreatestA(i + 1)
        /\ i + 1 \in Nat /\ GreatestA(i + 1) < Word /\ GreatestB(i + 1) < Word
    BY <1>2, BlockStep DEF Block, AdlerInv
  <2>2. GreatestA(i + 1) \in Int /\ GreatestB(i + 1) \in Int /\ Word \in Nat
    BY <2>1, AdlerAssumption DEF GreatestA, GreatestB
  <2> HIDE DEF d, w
  <2>3. a + d \in 0..(Word - 1) /\ b + 16 * a + w \in 0..(Word - 1)
    BY <1>4, <1>5, <2>1, <2>2
  <2>4. a' = (a + d) % Word /\ b' = (b + 16 * a + w) % Word
    BY <1>2 DEF d, w
  <2> QED BY <2>2, <2>3, <2>4
<1>7. sumA' = (sumA + d) % m /\ sumB' = (sumB + 16 * sumA + w) % m
  BY <1>2, <1>3, <1>4, AdlerIs
<1> HIDE DEF m, d, w
<1>8. sumA' \in 0..(m - 1) /\ sumB' \in 0..(m - 1)
  BY <1>1, <1>4, <1>5, <1>7
<1>9. a' % m = sumA'
  <2>1. a \in Int /\ d \in Int
    BY <1>4, <1>5
  <2>2. Reduces(m, a, d)
    BY <1>1, <2>1, ModAdd
  <2> QED BY <1>4, <1>6, <1>7, <2>2 DEF Reduces
<1>10. b' % m = sumB'
  <2> DEFINE y == 16 * a + w
             z == sumB + w
  <2>1. a \in Int /\ b \in Int /\ y \in Int /\ z \in Int
    BY <1>1, <1>4, <1>5
  <2>2. b' = b + y /\ sumB + y = 16 * a + z /\ sumB + 16 * sumA + w = 16 * sumA + z
    BY <1>1, <1>4, <1>5, <1>6
  <2> HIDE DEF y, z
  <2>3. Reduces(m, b, y) /\ Reduces16(m, a, z)
    BY <1>1, <2>1, ModAdd, ModAdd16
  <2>4. (b + y) % m = (sumB + y) % m
    BY <1>4, <2>3 DEF Reduces
  <2>5. (16 * a + z) % m = (16 * sumA + z) % m
    BY <1>4, <2>3 DEF Reduces16
  <2> QED BY <1>7, <2>2, <2>4, <2>5
<1> QED BY <1>8, <1>9, <1>10 DEF m

LEMMA AdlerStep == AdlerInv /\ [Next]_vars => AdlerInv'
<1> SUFFICES ASSUME AdlerInv, [Next]_vars PROVE AdlerInv'
  OBVIOUS
<1>1. IInv'
  BY Step DEF AdlerInv
<1>2. Modulus \in Nat \ {0} /\ aOut \in Nat /\ bOut \in Nat
  BY AdlerAssumption DEF AdlerInv, IInv, TypeOK
<1>3. CASE CallKernel
  <2>1. \A t \in 0..(Modulus - 1) : t % Modulus = t
    BY <1>2
  <2>2. /\ a' = aOut % Modulus /\ b' = bOut % Modulus /\ pc' = "kernel"
        /\ aOut % Modulus = sumA /\ bOut % Modulus = sumB /\ sumA' = sumA /\ sumB' = sumB
    BY <1>3 DEF CallKernel, AdlerInv, IsAdler
  <2>3. a' % Modulus = sumA' /\ b' % Modulus = sumB'
    BY <2>1, <2>2 DEF AdlerInv
  <2> QED BY <1>1, <2>2, <2>3 DEF AdlerInv, IsAdler
<1>4. CASE Block
  <2>1. pc' = "kernel"
    BY <1>4 DEF Block
  <2> QED BY <1>1, <1>4, <2>1, BlockSums DEF AdlerInv, IsAdler
<1>5. CASE Return
  BY <1>1, <1>5 DEF Return, AdlerInv, IsAdler
<1>6. CASE UNCHANGED vars
  BY <1>1, <1>6 DEF vars, AdlerInv, IsAdler
<1> QED BY <1>3, <1>4, <1>5, <1>6 DEF Next

\* Adding sixteen bytes at a time without reducing, and reducing once a call,
\* gives what reducing at every byte gives, for every run of calls, every block
\* of bytes and every modulus, word and batch that meet the assumption
\* (adler32/main.go:10).
THEOREM ChecksumIsAdler == Spec => []IsAdler
<1>1. Init => AdlerInv
  <2> SUFFICES ASSUME Init PROVE AdlerInv
    OBVIOUS
  <2>1. Modulus \in Nat \ {0, 1}
    BY AdlerAssumption
  <2>2. 1 % Modulus = 1 /\ 0 % Modulus = 0
    BY <2>1
  <2> QED BY <2>1, <2>2, Initially DEF Init, AdlerInv, IsAdler
<1>2. AdlerInv => IsAdler
  BY DEF AdlerInv
<1> QED BY <1>1, <1>2, AdlerStep, PTL DEF Spec

=============================================================================
