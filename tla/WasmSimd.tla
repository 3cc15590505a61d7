------------------------------- MODULE WasmSimd -------------------------------
(***************************************************************************)
(* The WebAssembly instructions the kernels of examples/wasm are made of,  *)
(* on vectors of sixteen bytes, each lane 0..255.  What i8x16.bitmask      *)
(* leaves in an i32 is the set of its one bits.                            *)
(***************************************************************************)
EXTENDS Integers, FiniteSets

Lane == 0..15
Byte == 0..255

Splat(b) == [k \in Lane |-> b % 256]
Load(m, addr) == [k \in Lane |-> m[addr + k]]

-----------------------------------------------------------------------------
(* Lane by lane. *)
AsSigned(b) == IF b < 128 THEN b ELSE b - 256
Test(holds) == IF holds THEN 255 ELSE 0

Eq(v, w) == [k \in Lane |-> Test(v[k] = w[k])]
GeS(v, w) == [k \in Lane |-> Test(AsSigned(v[k]) >= AsSigned(w[k]))]
LeS(v, w) == [k \in Lane |-> Test(AsSigned(v[k]) <= AsSigned(w[k]))]
GtU(v, w) == [k \in Lane |-> Test(v[k] > w[k])]

BitValues == {1, 2, 4, 8, 16, 32, 64, 128}
\* The bit of x whose value is p, a power of two.
Bit(x, p) == (x \div p) % 2
NibbleAnd(x, y) ==
  Bit(x, 1) * Bit(y, 1) + 2 * (Bit(x, 2) * Bit(y, 2))
    + 4 * (Bit(x, 4) * Bit(y, 4)) + 8 * (Bit(x, 8) * Bit(y, 8))
ByteAnd(x, y) == 16 * NibbleAnd(x \div 16, y \div 16) + NibbleAnd(x % 16, y % 16)

And(v, w) == [k \in Lane |-> ByteAnd(v[k], w[k])]
ByteOr(x, y) == x + y - ByteAnd(x, y)
Or(v, w) == [k \in Lane |-> ByteOr(v[k], w[k])]
Add(v, w) == [k \in Lane |-> (v[k] + w[k]) % 256]
Sub(v, w) == [k \in Lane |-> (v[k] - w[k]) % 256]
Shl(v, n) == [k \in Lane |-> (v[k] * 2^n) % 256]
ShrU(v, n) == [k \in Lane |-> v[k] \div 2^n]

-----------------------------------------------------------------------------
(* Across lanes. *)
Shuffle(v, w, at) == [k \in Lane |-> IF at[k + 1] < 16 THEN v[at[k + 1]] ELSE w[at[k + 1] - 16]]
Swizzle(v, w) == [k \in Lane |-> LET n == w[k] IN IF n < 16 THEN v[n] ELSE 0]

Bitmask(v) == {k \in Lane : v[k] >= 128}
AllTrue(v) == \A k \in Lane : v[k] # 0
Ctz(bits) == CHOOSE k \in bits : \A j \in bits : k <= j
I32Popcnt(bits) == Cardinality(bits)

Popcnt(v) == [k \in Lane |-> Cardinality({p \in BitValues : Bit(v[k], p) = 1})]

-----------------------------------------------------------------------------
(* Wider lanes: lane k of a vector of halfwords is its bytes 2k and 2k + 1. *)
Half(v, k) == v[2 * k] + 256 * v[2 * k + 1]
FromHalves(h) == [k \in Lane |-> IF k % 2 = 0 THEN h[k \div 2] % 256 ELSE h[k \div 2] \div 256]

I16x8Mul(v, w) == FromHalves([k \in 0..7 |-> (Half(v, k) * Half(w, k)) % 65536])
\* The products of four halfwords, the low ones or the high ones.
I32x4Extmul(v, w, first) == [k \in 0..3 |-> Half(v, first + k) * Half(w, first + k)]
I32x4ShrU(v, n) == [k \in 0..3 |-> v[k] \div 2^n]
\* Narrowing saturates.
I16x8Narrow(v, w) ==
  LET Saturate(x) == IF x > 65535 THEN 65535 ELSE x
  IN  FromHalves([k \in 0..7 |-> Saturate(IF k < 4 THEN v[k] ELSE w[k - 4])])

\* The products of eight bytes, the low ones or the high ones.
I16x8Extmul(v, w, first) == [k \in 0..7 |-> v[first + k] * w[first + k]]

\* Sums of neighbours in lanes of twice the width.
ExtaddPairwise(v, lanes) == [k \in 0..(lanes - 1) |-> v[2 * k] + v[2 * k + 1]]

=============================================================================
