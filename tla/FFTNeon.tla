------------------------------- MODULE FFTNeon -------------------------------
(***************************************************************************)
(* The pass kernels of fft/arm64: values deinterleaved into a register of  *)
(* real parts and one of imaginary parts, value y in the registers y and   *)
(* y+1, two points in float64 and four in float32; the points left at the  *)
(* end of a stream in smaller groups.  A group of g points runs on g       *)
(* lanes: the dummy lanes above them are not modelled.  The record e of a  *)
(* call, one block of a pass or all blocks of a final one:                 *)
(*   r, inverse   the radix and the direction                              *)
(*   single       float32                                                  *)
(*   n            a stream's points (the blocks, in a final pass)          *)
(*   inS, outS    block-split input and output                             *)
(*   notw         the batched row of point 0                               *)
(* and of a step: kind, "pass", "batch", "last", or "alone" (one block of  *)
(* a final pass); g, its points; first, whether lane 0 is the point i = 0. *)
(***************************************************************************)
EXTENDS Vectors

Step(kind, g, first) == [kind |-> kind, g |-> g, first |-> first]

In(e, j) == M("in", 2 * e.n * j)
Out(e, j) == M("out", 2 * e.n * j)
im(place, g) == M(place[1], place[2] + g)
load(e, t, j) == IF e.inS THEN <<mov(2 * j, In(e, j)), mov(2 * j + 1, im(In(e, j), t.g))>> ELSE ld2(2 * j, In(e, j))
store(e, t, y, j) ==
  CASE t.kind = "alone" -> <<stx(y, Out(e, j), 1), stx(y + 1, im(Out(e, j), 1), 1)>>
    [] t.kind # "alone" /\ e.outS -> <<st(y, Out(e, j)), st(y + 1, im(Out(e, j), t.g))>>
    [] OTHER -> <<st2(y, Out(e, j))>>

\* The constants the butterfly reads, kept in registers.  float32 radix 8
\* loads them again in every iteration of its final pass, whose loads use 18.
skConsts(r) ==
  CASE r = 3 -> <<mov(24, KHalf), mov(25, KSin(1, 3))>>
    [] r = 5 -> <<mov(24, KCos(1, 5)), mov(25, KCos(2, 5)), mov(26, KSin(1, 5)), mov(27, KSin(2, 5))>>
    [] r = 8 -> <<mov(18, KCos(1, 8))>>
    [] OTHER -> <<>>

\* The next twiddle: split in a pass's table, where a lone float64 point has
\* the room of two, or one for every line of a batch.
twLoad(e, t, j) ==
  IF t.kind = "batch" THEN ld2r(28, M("tw", 2 * (j - 1)))
  ELSE LET room == IF e.single THEN t.g ELSE 2
       IN <<mov(28, M("tw", 2 * room * (j - 1))), mov(29, M("tw", 2 * room * (j - 1) + room))>>

\* Output j from the registers y and y+1, multiplied by its twiddle.
out(e, t, j, y) ==
  IF j = 0 \/ t.kind \in {"last", "alone"} \/ e.notw THEN store(e, t, y, j)
  ELSE twLoad(e, t, j)
         \o <<mul(30, y, V(28)), fnma(30, y + 1, V(29))>>
         \o (IF e.r = 2 THEN <<mul(31, y, V(29)), fma(31, y + 1, V(28))>>
             ELSE <<mul(31, y + 1, V(28)), fma(31, y, V(29))>>)
         \o (IF t.first THEN <<blend(30, y, 1), blend(31, y + 1, 1)>> ELSE <<>>)
         \o store(e, t, 30, j)

-----------------------------------------------------------------------------
(* The butterflies, on x_j in 2j and 2j+1. *)

\* d = a - s*z and a + s*z, s the direction's sign.
aMinusSz(e, d, a, z) == IF e.inverse THEN sub(d, a, z) ELSE add(d, a, z)
aPlusSz(e, d, a, z) == aMinusSz([e EXCEPT !.inverse = ~@], d, a, z)
\* d = a + rotS(z), a - rotS(z).
plusRot(e, d, a, z) == <<aMinusSz(e, d, a, z + 1), aPlusSz(e, d + 1, a + 1, z)>>
minusRot(e, d, a, z) == <<aPlusSz(e, d, a, z + 1), aMinusSz(e, d + 1, a + 1, z)>>
cadd(d, a, b) == <<add(d, a, b), add(d + 1, a + 1, b + 1)>>
csub(d, a, b) == <<sub(d, a, b), sub(d + 1, a + 1, b + 1)>>

bfly2(e, t) == cadd(4, 0, 2) \o out(e, t, 0, 4) \o csub(4, 0, 2) \o out(e, t, 1, 4)

bfly3(e, t) ==
  Code(<<cadd(6, 2, 4), csub(2, 2, 4), cadd(8, 0, 6), out(e, t, 0, 8),
         <<fnma(0, 6, V(24)), fnma(1, 7, V(24)), mul(2, 2, V(25)), mul(3, 3, V(25))>>,
         plusRot(e, 10, 0, 2), out(e, t, 1, 10), minusRot(e, 10, 0, 2), out(e, t, 2, 10)>>)

bfly4(e, t) ==
  Code(<<cadd(8, 0, 4), csub(10, 0, 4), cadd(12, 2, 6), csub(14, 2, 6), cadd(16, 8, 12), out(e, t, 0, 16),
         plusRot(e, 0, 10, 14), out(e, t, 1, 0), csub(16, 8, 12), out(e, t, 2, 16),
         minusRot(e, 0, 10, 14), out(e, t, 3, 0)>>)

bfly5(e, t) ==
  Code(<<cadd(10, 2, 8), csub(2, 2, 8), cadd(12, 4, 6), csub(4, 4, 6), cadd(14, 0, 10), cadd(14, 14, 12),
         out(e, t, 0, 14),
         For(2, LAMBDA k : <<mul(16 + k, 12 + k, V(25)), fma(16 + k, 10 + k, V(24)), add(16 + k, k, 16 + k),
                             mul(18 + k, 12 + k, V(24)), fma(18 + k, 10 + k, V(25)), add(18 + k, k, 18 + k),
                             mul(20 + k, 4 + k, V(27)), fma(20 + k, 2 + k, V(26)),
                             mul(22 + k, 2 + k, V(27)), fnma(22 + k, 4 + k, V(26))>>),
         plusRot(e, 0, 16, 20), out(e, t, 1, 0), plusRot(e, 0, 18, 22), out(e, t, 2, 0),
         minusRot(e, 0, 18, 22), out(e, t, 3, 0), minusRot(e, 0, 16, 20), out(e, t, 4, 0)>>)

\* The rotations by odd multiples of 45 degrees are left unscaled, as P, Q in
\* 2, 3 and R, T in 6, 7, and their factor goes into the last sum.
scaled(d, z) == <<fma(d, z, V(18)), fma(d + 1, z + 1, V(18))>>
unscaled(d, z) == <<fnma(d, z, V(18)), fnma(d + 1, z + 1, V(18))>>
copy(d, a) == <<mov(d, V(a)), mov(d + 1, V(a + 1))>>
bfly8(e, t) ==
  Code(<<cadd(16, 2, 10), csub(2, 2, 10), cadd(28, 6, 14), csub(6, 6, 14), cadd(20, 16, 28), csub(16, 16, 28),
         plusRot(e, 22, 2, 6), minusRot(e, 24, 2, 6), <<aMinusSz(e, 2, 22, 23), aPlusSz(e, 3, 23, 22)>>,
         IF e.inverse THEN <<neg(6, 24), sub(6, 6, 25), sub(7, 24, 25)>> ELSE <<sub(6, 25, 24), neg(7, 25), sub(7, 7, 24)>>,
         cadd(22, 0, 8), csub(0, 0, 8), cadd(24, 4, 12), csub(4, 4, 12), cadd(26, 22, 24), csub(22, 22, 24),
         plusRot(e, 8, 0, 4), minusRot(e, 10, 0, 4), cadd(12, 26, 20), out(e, t, 0, 12),
         copy(14, 8), scaled(14, 2), out(e, t, 1, 14), plusRot(e, 14, 22, 16), out(e, t, 2, 14),
         copy(14, 10), scaled(14, 6), out(e, t, 3, 14), csub(14, 26, 20), out(e, t, 4, 14),
         unscaled(8, 2), out(e, t, 5, 8), minusRot(e, 14, 22, 16), out(e, t, 6, 14),
         unscaled(10, 6), out(e, t, 7, 10)>>)

bfly(e, t) ==
  CASE e.r = 2 -> bfly2(e, t) [] e.r = 3 -> bfly3(e, t) [] e.r = 4 -> bfly4(e, t)
    [] e.r = 5 -> bfly5(e, t) [] e.r = 8 -> bfly8(e, t)

-----------------------------------------------------------------------------
(* A block of a pass, and a row of a batch: groups of points. *)

passStep(e, t) == For(e.r, LAMBDA j : load(e, t, j)) \o bfly(e, t)

\* The groups of a stream's points in order: fours and a two, or twos, and a
\* lone point; [size, first] each.  The loops that count them are FFTPass's.
Full(e) == IF e.single THEN 4 ELSE 2
groups(e) ==
  [i \in 1..e.n \div Full(e) |-> <<Full(e), i = 1>>]
    \o (IF e.single /\ (e.n \div 2) % 2 = 1 THEN << <<2, e.n < 4>> >> ELSE <<>>)
    \o (IF e.n % 2 = 1 THEN << <<1, FALSE>> >> ELSE <<>>)

rows(e, kind) ==
  <<Entry(4, skConsts(e.r), <<>>, 0)>>
    \o [i \in DOMAIN groups(e) |->
          LET g == groups(e)[i][1]
          IN Block(0, FALSE, g, passStep(e, Step(kind, g, kind = "pass" /\ groups(e)[i][2])),
                   [in |-> 2 * g, out |-> 2 * g,
                    tw |-> IF kind = "batch" THEN 0 ELSE 2 * (IF e.single THEN g ELSE 2) * (e.r - 1)])]
Pass(e) == rows(e, "pass")
Batch(e) == rows(e, "batch")

-----------------------------------------------------------------------------
(* The final passes: two blocks of r points (four in float32) an iteration,   *)
(* and in float64 one alone at the end.                                       *)

\* n registers from d on, loaded as they lie, from the register's place on.
lie(d, n, from) == [i \in 1..n |-> mov(d + i - 1, M("in", 2 * (from + i - 1)))]
\* Points j of two registers a and c: their real and their imaginary parts.
zip(d, a, c) == <<unpcklo(d, a, c), unpckhi(d + 1, a, c)>>
\* Block-split, point j is a lane of the pairs a and c of registers.
zipSplit(d, j, a, c) ==
  IF j % 2 = 0 THEN <<unpcklo(d, a, c), unpcklo(d + 1, a + 1, c + 1)>> ELSE <<unpckhi(d, a, c), unpckhi(d + 1, a + 1, c + 1)>>

lastTemps(r) == IF r \in {3, 5} THEN 10 ELSE 20
lastLoad(e) ==
  LET t == lastTemps(e.r)
  IN lie(t, 2 * e.r, 0) \o For(e.r, LAMBDA j : zip(2 * j, t + j, t + e.r + j))
\* Radix 8 in halves, the second into the registers the first has left.
compLastLoad8(e) ==
  lie(20, 12, 0) \o For(4, LAMBDA j : zip(2 * j, 20 + j, 28 + j))
    \o lie(20, 4, 12) \o For(4, LAMBDA j : zip(8 + 2 * j, 24 + j, 20 + j))
splitLastLoad(e) ==
  lie(20, 2 * e.r, 0)
    \o For(e.r, LAMBDA j : zipSplit(2 * j, j, 20 + 2 * (j \div 2), 20 + 2 * (e.r \div 2 + j \div 2)))
compSplitLoad8(e) ==
  lie(20, 12, 0) \o For(4, LAMBDA j : zipSplit(2 * j, j, 20 + 2 * (j \div 2), 28 + 2 * (j \div 2)))
    \o lie(20, 4, 12) \o For(4, LAMBDA j : zipSplit(8 + 2 * j, j, 24 + 2 * (j \div 2), 20 + 2 * (j \div 2)))

\* One block: both lanes hold its points.
compLastTail(e) ==
  LET t == lastTemps(e.r)
  IN lie(t, e.r, 0) \o For(e.r, LAMBDA j : zip(2 * j, t + j, t + j)) \o bfly(e, Step("alone", 2, FALSE))
compSplitTail(e) ==
  lie(20, e.r, 0) \o For(e.r, LAMBDA j : zipSplit(2 * j, j, 20 + 2 * (j \div 2), 20 + 2 * (j \div 2)))
    \o bfly(e, Step("alone", 2, FALSE))

LoadPair(e) ==
  CASE e.r = 8 -> IF e.inS THEN compSplitLoad8(e) ELSE compLastLoad8(e)
    [] OTHER -> IF e.inS THEN splitLastLoad(e) ELSE lastLoad(e)

LastBlocks(e) ==
  <<Entry(2, skConsts(e.r), <<>>, e.n \div 2),
    Block(1, TRUE, 2, LoadPair(e) \o bfly(e, Step("last", 2, FALSE)), [in |-> 4 * e.r, out |-> 4])>>
    \o IF e.n % 2 = 0 THEN <<>>
       ELSE <<Block(0, FALSE, 2, IF e.inS THEN compSplitTail(e) ELSE compLastTail(e), <<>>)>>

\* A pair of float32 points as one lane of 64 bits.  ldn: n registers from
\* points from on, point i + n*q in lane q of register i (VLD2, VLD3, VLD4).
ldn(d, n, from) ==
  For(n, LAMBDA i : <<movx(d + i, M("in", 2 * (from + i)), 2), ins(d + i, M("in", 2 * (from + n + i)), 2, 1)>>)
f32simdUzp(p, q, d) == <<uzphi(d + 1, p, q), uzplo(d, p, q)>>

\* Five points of two blocks, from the registers t[1] .. t[5].
pairs5(t, e1, e3) ==
  <<halves(e1, t[1], 1, t[4], 0), halves(e3, t[2], 1, t[5], 0),
    halves(t[1], t[1], 0, t[3], 1), halves(t[2], t[2], 0, t[4], 1), halves(t[3], t[3], 0, t[5], 1)>>
f32simdLastLoad(e) ==
  CASE e.r \in {2, 3, 4} ->
         ldn(16, e.r, 0) \o ldn(20, e.r, 2 * e.r) \o For(e.r, LAMBDA j : f32simdUzp(16 + j, 20 + j, 2 * j))
    [] e.r = 8 ->
         For(4, LAMBDA q : ldn(16 + 4 * q, 4, 8 * q))
           \o For(4, LAMBDA i :
                <<halves(2 * i, 16 + i, 0, 20 + i, 0), halves(8 + 2 * i, 16 + i, 1, 20 + i, 1),
                  halves(16 + i, 24 + i, 0, 28 + i, 0), halves(20 + i, 24 + i, 1, 28 + i, 1)>>
                  \o f32simdUzp(2 * i, 16 + i, 2 * i) \o f32simdUzp(8 + 2 * i, 20 + i, 8 + 2 * i))
    [] e.r = 5 ->
         LET load1(d, p) == mov(d, M("in", 2 * p))
         IN [i \in 1..8 |-> load1(15 + i, 2 * (i - 1))] \o <<load1(28, 16), load1(29, 18)>>
              \o pairs5(<<16, 17, 18, 19, 20>>, 10, 11) \o pairs5(<<21, 22, 23, 28, 29>>, 12, 13)
              \o For(5, LAMBDA j : f32simdUzp(<<16, 10, 17, 11, 18>>[j + 1], <<21, 12, 22, 13, 23>>[j + 1], 2 * j))

Last32(e) ==
  <<Entry(4, IF e.r = 8 THEN <<>> ELSE skConsts(e.r), <<>>, e.n \div 4),
    Block(1, TRUE, 4,
          f32simdLastLoad(e) \o (IF e.r = 8 THEN skConsts(8) ELSE <<>>) \o bfly(e, Step("last", 4, FALSE)),
          [in |-> 8 * e.r, out |-> 8])>>
=============================================================================
