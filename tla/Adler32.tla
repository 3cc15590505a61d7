------------------------------- MODULE Adler32 --------------------------------
(***************************************************************************)
(* The kernel examples/wasm/adler32 and its caller: the kernel adds up     *)
(* whole blocks of sixteen bytes without reducing its sums, and the caller *)
(* gives it no more blocks at a time than the word of the sums can take,   *)
(* and reduces them before each call.                                      *)
(***************************************************************************)
EXTENDS WasmSimd

CONSTANTS
  Modulus,    \* 65521
  Word,       \* 2^32
  MaxByte,    \* 255
  MaxBlocks,  \* 347 in a call: 5552 bytes
  Blocks,     \* the blocks that may come
  MaxCalls    \* the calls of a run

\* The greatest sums after k blocks.
GreatestA(k) == Modulus - 1 + 16 * MaxByte * k
GreatestB(k) == Modulus - 1 + 16 * (Modulus - 1) * k + 8 * MaxByte * (k * (16 * k + 1))

ASSUME AdlerAssumption ==
  /\ Modulus \in Nat \ {0, 1}
  /\ MaxByte \in Nat /\ MaxBlocks \in Nat /\ MaxCalls \in Nat
  /\ Word \in Nat
  /\ \A k \in 0..MaxBlocks : GreatestA(k) < Word /\ GreatestB(k) < Word
  /\ \A bytes \in Blocks : bytes \in [Lane -> 0..MaxByte]

VARIABLES
  pc,          \* who runs: the "caller" or the "kernel"
  calls,
  nBlocks,
  i,
  a, b,        \* the kernel's sums
  aOut, bOut,  \* the words it leaves them in
  sumA, sumB   \* Adler-32 of all the bytes so far

vars == <<pc, calls, nBlocks, i, a, b, aOut, bOut, sumA, sumB>>

-----------------------------------------------------------------------------
(* Adler-32, byte after byte. *)
Adler(x, y, bytes) ==
  LET sums[k \in 0..16] ==
        IF k = 0 THEN <<x, y>>
        ELSE LET s == sums[k - 1]
                 t == (s[1] + bytes[k - 1]) % Modulus
             IN  <<t, (s[2] + t) % Modulus>>
  IN  sums[16]

-----------------------------------------------------------------------------
(* The kernel's arithmetic. *)
HorizontalSum(v) == v[0] + v[1] + v[2] + v[3]

DeltaA(bytes) == HorizontalSum(ExtaddPairwise(ExtaddPairwise(bytes, 8), 4))

\* Slip: the weights of the sums before the byte is added.
coefFrom15 == [k \in Lane |-> 15 - k]
coef == [k \in Lane |-> 16 - k]

Weighted(bytes) ==
  LET low == ExtaddPairwise(I16x8Extmul(bytes, coef, 0), 4)
      high == ExtaddPairwise(I16x8Extmul(bytes, coef, 8), 4)
  IN  HorizontalSum([k \in 0..3 |-> low[k] + high[k]])

-----------------------------------------------------------------------------
Init ==
  /\ pc = "caller"
  /\ calls = 0
  /\ nBlocks = 0 /\ i = 0
  /\ a = 0 /\ b = 0
  /\ aOut = 1 /\ bOut = 0
  /\ sumA = 1 /\ sumB = 0

\* Slip: a block more than the sums can take.
BatchesTooLong == 0..(MaxBlocks + 1)
Batches == 0..MaxBlocks

CallKernel ==
  /\ pc = "caller"
  /\ calls < MaxCalls
  /\ calls' = calls + 1
  /\ pc' = "kernel"
  /\ nBlocks' \in Batches
  /\ i' = 0
  /\ a' = aOut % Modulus
  /\ b' = bOut % Modulus
  /\ UNCHANGED <<aOut, bOut, sumA, sumB>>

\* Slip: one block too many.
MoreOrOne == i <= nBlocks
More == i < nBlocks

Block ==
  /\ pc = "kernel"
  /\ More
  /\ \E bytes \in Blocks :
       /\ b' = (b + 16 * a + Weighted(bytes)) % Word
       /\ a' = (a + DeltaA(bytes)) % Word
       /\ sumA' = Adler(sumA, sumB, bytes)[1]
       /\ sumB' = Adler(sumA, sumB, bytes)[2]
  /\ i' = i + 1
  /\ UNCHANGED <<pc, calls, nBlocks, aOut, bOut>>

Return ==
  /\ pc = "kernel"
  /\ ~More
  /\ aOut' = a
  /\ bOut' = b
  /\ pc' = "caller"
  /\ UNCHANGED <<calls, nBlocks, i, a, b, sumA, sumB>>

Next == CallKernel \/ Block \/ Return

Spec == Init /\ [][Next]_vars

-----------------------------------------------------------------------------
\* Every variable has its type, the sums fit their word, and the loop stops at
\* the last block.
TypeOK ==
  /\ pc \in {"caller", "kernel"}
  /\ calls \in 0..MaxCalls
  /\ nBlocks \in 0..MaxBlocks /\ i \in 0..nBlocks
  /\ a \in 0..(Word - 1) /\ b \in 0..(Word - 1)
  /\ aOut \in 0..(Word - 1) /\ bOut \in 0..(Word - 1)

\* What the kernel leaves, reduced, is Adler-32 of every byte so far: reducing
\* once a call, and adding sixteen bytes at a time, are the same as reducing
\* at every byte (adler32/main.go:10).
IsAdler ==
  pc = "caller" => aOut % Modulus = sumA /\ bOut % Modulus = sumB

\* In a call the sums never exceed their word, whatever the bytes and whatever
\* the sums it started with: a sum that wraps is smaller than it was
\* (adler32/main.go:20).
NeverWraps == [][pc = "kernel" => a' >= a /\ b' >= b]_vars

=============================================================================
