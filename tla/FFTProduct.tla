------------------------------ MODULE FFTProduct ------------------------------
(***************************************************************************)
(* The pointwise complex products a[i] *= b[i], and the SSE2 kernels of a  *)
(* whole radix-2 or radix-4 stage.  Stream out is a, in is b (or dst and a *)
(* of CMulAVX2, whose b is tw).  The record e of a call: n, the elements;  *)
(* span, the distance of a stage's points; s, its direction.               *)
(***************************************************************************)
EXTENDS Vectors

\* X7 = [sign, 0]: the real lane's sign.
signMask == <<mov(6, KOne), mov(7, KNeg), blend(6, 7, 1), mov(7, V(6))>>

\* The SSE2 product of a in 0 and b in 1, into 2.
sseProduct ==
  <<mov(2, V(0)), dupre(2, V(2)), mov(3, V(0)), dupim(3, V(3)), mov(4, V(1)), swap(4, 4),
    mul(2, 2, V(1)), mul(3, 3, V(4)), flip(3, V(7)), add(2, 2, 3)>>
scmul(x, y, d) == <<mov(0, x), mov(1, y)>> \o sseProduct \o <<mov(d, V(2))>>

CMulSSE2(e) ==
  <<Entry(2, signMask, <<>>, e.n),
    Block(1, TRUE, 2, <<mov(0, M("out", 0)), mov(1, M("in", 0))>> \o sseProduct \o <<st(2, M("out", 0))>>,
          [out |-> 2, in |-> 2])>>

-----------------------------------------------------------------------------
(* One stage: the groups of r*span points, and the span positions of each.    *)
(* The streams restart at every group, the twiddles at their first.           *)

Stage(e, r, body) ==
  <<Entry(2, signMask, <<>>, 0)>>
    \o For((e.n + r * e.span - 1) \div (r * e.span), LAMBDA g :
         <<Entry(2, <<>>, [out |-> g * r * e.span * 2], e.span),
           Block(1, TRUE, 2, body, [out |-> 2, tw |-> 2])>>)

Radix2SSE2(e) ==
  LET lo == M("out", 0)
      hi == M("out", 2 * e.span)
  IN Stage(e, 2, scmul(hi, M("tw", 0), 5)
                   \o <<mov(0, lo), mov(1, V(0)), add(0, 0, 5), sub(1, 1, 5), st(0, lo), st(1, hi)>>)

Radix4SSE2(e) ==
  LET b(j) == M("out", 2 * e.span * j)
      w(j) == M("tw", 2 * e.span * (j - 1))
      put(j, t, op) == <<mov(0, V(t)), op, st(0, b(j))>>
  IN Stage(e, 4,
       scmul(b(1), w(1), 8) \o scmul(b(2), w(2), 9) \o scmul(b(3), w(3), 10)
         \o <<mov(11, b(0)), mov(12, V(11)), add(11, 11, 9), sub(12, 12, 9),
              mov(13, V(8)), mov(14, V(8)), add(13, 13, 10), sub(14, 14, 10), mov(15, V(14)), swap(15, 15)>>
         \o (IF e.s = 1 THEN <<flip(15, V(7))>> ELSE <<mov(6, V(7)), swap(6, 6), flip(15, V(6))>>)
         \o put(0, 11, add(0, 0, 13)) \o put(2, 11, sub(0, 0, 13)) \o put(1, 12, add(0, 0, 15)) \o put(3, 12, sub(0, 0, 15)))

-----------------------------------------------------------------------------

\* Four points an iteration, in two registers; dst may be a.
CMulAVX2(e) ==
  <<Entry(4, <<>>, <<>>, e.n \div 4),
    Block(1, TRUE, 4,
          <<mov(0, M("in", 0)), mov(1, M("in", 4)), dupre(4, M("tw", 0)), dupre(5, M("tw", 4)),
            dupim(2, M("tw", 0)), dupim(3, M("tw", 4)), mul(4, 4, V(0)), mul(5, 5, V(1)), swap(0, 0), swap(1, 1),
            mul(0, 0, V(2)), mul(1, 1, V(3)), addsub(4, 4, 0), addsub(5, 5, 1), st(4, M("out", 0)), st(5, M("out", 4))>>,
          [in |-> 8, tw |-> 8, out |-> 8])>>

\* The product of (re, im) = (x, y) and (z, u), into d and e.
fused(x, y, z, u, d, e) == <<mul(d, x, V(z)), fnma(d, y, V(u)), mul(e, x, V(u)), fma(e, y, V(z))>>
scalars(x, y, z, u) == <<mov(x, M("out", 0)), mov(y, M("out", 1)), mov(z, M("in", 0)), mov(u, M("in", 1))>>
Both(n) == [out |-> n, in |-> n]

CMulNEON(e) ==
  <<Entry(2, <<>>, <<>>, e.n),
    Block(2, TRUE, 2, ld2(0, M("out", 0)) \o ld2(2, M("in", 0)) \o fused(0, 1, 2, 3, 4, 5) \o <<st2(4, M("out", 0))>>, Both(4)),
    Block(1, FALSE, 1, scalars(0, 1, 2, 3) \o fused(0, 1, 2, 3, 4, 5) \o <<st(4, M("out", 0)), st(5, M("out", 1))>>, <<>>)>>

CMulVX(e) ==
  <<Entry(2, <<>>, <<>>, e.n),
    Block(2, TRUE, 2,
          <<mov(0, M("out", 0)), mov(1, M("out", 2)), mov(2, M("in", 0)), mov(3, M("in", 2)),
            unpcklo(4, 0, 1), unpckhi(5, 0, 1), unpcklo(6, 2, 3), unpckhi(7, 2, 3),
            mul(16, 5, V(7)), fms4(17, 4, 6, 16), mul(18, 5, V(6)), fma4(19, 4, 7, 18),
            unpcklo(20, 17, 19), unpckhi(21, 17, 19), st(20, M("out", 0)), st(21, M("out", 2))>>, Both(4)),
    Block(1, FALSE, 1,
          scalars(0, 1, 2, 3)
            \o <<mov(4, V(1)), mul(1, 1, V(3)), fms(1, 0, V(2)), st(1, M("out", 0)),
                 mul(2, 2, V(4)), fma(2, 0, V(3)), st(2, M("out", 1))>>, <<>>)>>

\* Strip-mined: the processor chooses the lanes of every iteration.
CMulRVV(e) ==
  <<Entry(0, <<>>, <<>>, e.n),
    Block(1, TRUE, 0, ld2(8, M("out", 0)) \o ld2(10, M("in", 0)) \o fused(8, 9, 10, 11, 12, 13) \o <<st2(12, M("out", 0))>>, Both(2))>>
=============================================================================
