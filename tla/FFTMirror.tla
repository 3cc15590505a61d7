------------------------------ MODULE FFTMirror ------------------------------
(***************************************************************************)
(* The real-FFT untangle kernels and their inverses (retangle): bins k and *)
(* m-k of the output from bins k and m-k of the input, w/2 consecutive k   *)
(* per register, the mirrored ones loaded and stored in reverse.  Streams: *)
(* in and out ascend from bin 1, inb and outb descend from the last bins.  *)
(* The record e of a call: inverse, m, pairs (float64) or quads, both for  *)
(* the 512-bit kernel.                                                     *)
(***************************************************************************)
EXTENDS Vectors

\* The steps of one iteration, their instructions interleaved one by one.
Interleaved(steps) == Code([i \in 1..Len(steps[1]) |-> [j \in 1..Len(steps) |-> steps[j][i]]])
Steps(n, Step(_)) == Interleaved([j \in 1..n |-> Step(j - 1)])

\* The four cursors, given the bin the arrays start at, m of the rest and the
\* bins of a step; bins are two lanes.  advance: past n lanes.
Cursors(from, m, bins) ==
  LET up == 2 * (from + 1)  down == 2 * (from + m - bins)
  IN [in |-> up, inb |-> down, out |-> up, outb |-> down, tw |-> up]
advance(n) == [in |-> n, inb |-> -n, out |-> n, outb |-> -n, tw |-> n]

-----------------------------------------------------------------------------
(* amd64, float64.  Registers 15, 13 and 12 hold the signs of the imaginary   *)
(* lanes, of the real lanes and of both, 14 holds 0.5 or h; step j has the    *)
(* registers 4*j .. 4*j+3.  512 bits have no addsub.                          *)

subtractReal(w, d, a, b) == IF w = 8 THEN <<flip(b, V(13)), add(d, a, b)>> ELSE <<addsub(d, a, b)>>

smallUntangleStep(w, inverse, j) ==
  LET a == 4 * j  b == a + 1  c == a + 2  d == a + 3  o == w * j
      twiddles(re, part) == <<dupre(re, M("tw", o)), dupre(part, M("tw", o + 1))>>
  IN <<mov(a, M("in", o)), mov(b, M("inb", -o)), rev(b, b), add(c, a, b), sub(d, a, b),
       blendim(a, c, d), mul(a, a, V(14)), blendre(b, c, d)>>
       \o IF ~inverse
          THEN <<flip(b, V(13)), mul(b, b, V(14))>> \o twiddles(c, d)
                 \o <<mul(d, d, V(b)), swap(b, b), mul(c, c, V(b))>> \o subtractReal(w, c, c, d)
                 \o <<add(b, a, c), sub(d, a, c), flip(d, V(15)), rev(d, d),
                      st(b, M("out", o)), st(d, M("outb", -o))>>
          ELSE <<mul(b, b, V(14))>> \o twiddles(d, c)
                 \o <<flip(c, V(12)), mul(d, d, V(b)), swap(b, b), mul(c, c, V(b))>> \o subtractReal(w, d, d, c)
                 \o <<swap(b, d), flip(b, V(15)), sub(c, a, b), add(d, a, b), flip(d, V(15)), rev(d, d),
                      st(c, M("out", o)), st(d, M("outb", -o))>>

masks(inverse) ==
  <<mov(15, KSign), swap(13, 15), either(12, 15, 13), IF inverse THEN bcast4(14, M("h", 0)) ELSE mov(14, KHalf)>>

\* Three steps while as many are left, then one at a time.
smallUntangleSteps == 3
untangleLoops(w, inverse) ==
  <<Block(3, TRUE, w, Steps(smallUntangleSteps, LAMBDA j : smallUntangleStep(w, inverse, j)), advance(3 * w)),
    Block(1, TRUE, w, smallUntangleStep(w, inverse, 0), advance(w))>>

UntangleFrom(e, from, m, pairs) ==
  <<Entry(4, masks(e.inverse), Cursors(from, m, 2), pairs)>> \o untangleLoops(4, e.inverse)
Untangle(e) == UntangleFrom(e, 0, e.m, e.pairs)

clUntangleStep512(e) == <<Entry(8, masks(e.inverse), Cursors(0, e.m, 4), e.quads)>> \o untangleLoops(8, e.inverse)
\* Slip: the 256-bit kernel told of all the bins.
Untangle512WholeM(e) ==
  LET rest == e.pairs - 2 * e.quads
  IN (IF e.quads = 0 THEN <<>> ELSE clUntangleStep512(e))
       \o (IF rest = 0 THEN <<>> ELSE UntangleFrom(e, 4 * e.quads, e.m, rest))
\* Four bins a step, nothing for no quads; the pairs left go to the 256-bit
\* kernel, with arguments 4*quads bins further on.
Untangle512(e) ==
  LET rest == e.pairs - 2 * e.quads
  IN (IF e.quads = 0 THEN <<>> ELSE clUntangleStep512(e))
       \o (IF rest = 0 THEN <<>> ELSE UntangleFrom(e, 4 * e.quads, e.m - 8 * e.quads, rest))

-----------------------------------------------------------------------------
(* amd64, float32: four bins a step, one step at a time. *)

mirrorLoads32 ==
  <<mov(0, M("in", 0)), mov(1, M("inb", 0)), rev(1, 1), add(2, 0, 1), sub(3, 0, 1), blendim(4, 2, 3)>>
mirrorStores32(up, down, sign) ==
  <<flip(down, V(sign)), rev(down, down), st(up, M("out", 0)), st(down, M("outb", 0))>>

Untangle32(e) ==
  <<Entry(8, <<mov(12, KSign), mov(13, KHalf)>>, Cursors(0, e.m, 4), e.quads),
    Block(1, TRUE, 8,
          mirrorLoads32
            \o <<mul(4, 4, V(13)), blendre(5, 2, 3), swap(5, 5), flip(5, V(12)), mul(5, 5, V(13)),
                 dupre(7, M("tw", 0)), dupim(8, M("tw", 0)), swap(9, 5), mul(7, 7, V(5)), mul(8, 8, V(9)),
                 addsub(7, 7, 8), add(10, 4, 7), sub(11, 4, 7)>>
            \o mirrorStores32(10, 11, 12),
          advance(8))>>
Retangle32(e) ==
  <<Entry(8, <<mov(12, M("h", 0)), mov(13, KSign)>>, Cursors(0, e.m, 4), e.quads),
    Block(1, TRUE, 8,
          mirrorLoads32
            \o <<mul(4, 4, V(12)), blendre(5, 2, 3), mul(5, 5, V(12)), mov(6, M("tw", 0)), flip(6, V(13)),
                 dupre(7, V(6)), dupim(8, V(6)), swap(9, 5), mul(7, 7, V(5)), mul(8, 8, V(9)), addsub(7, 7, 8),
                 swap(8, 7), flip(8, V(13)), sub(10, 4, 8), add(11, 4, 8)>>
            \o mirrorStores32(10, 11, 13),
          advance(8))>>

-----------------------------------------------------------------------------
(* arm64.  Real and imaginary parts in registers of their own, 31 holds 0.5   *)
(* or h.  In: a in 0, 1 and b in 2, 3, the twiddles in 4, 5, s.re in 6 and    *)
(* d.im in 7.                                                                 *)

sums == <<add(6, 0, 2), sub(7, 1, 3)>>
untangled(xor, xoi, tr, ti, mr, mi) ==
  <<add(8, 1, 3), sub(9, 0, 2), mul(xor, 8, V(31)), mul(xoi, 9, V(31)), neg(xoi, xoi),
    mul(tr, xor, V(4)), fnma(tr, 5, V(xoi)), mul(ti, xoi, V(4)), fma(ti, 5, V(xor)),
    neg(mr, tr), fma(mr, 6, V(31)), fma(tr, 6, V(31)), neg(mi, ti), fma(mi, 7, V(31)), neg(mi, mi),
    fma(ti, 7, V(31))>>
retangled(kr, xor, xoi, mi) ==
  <<sub(8, 0, 2), mul(8, 8, V(31)), add(9, 1, 3), mul(9, 9, V(31)), mul(xor, 8, V(4)), fma(xor, 9, V(5)),
    mul(xoi, 9, V(4)), fnma(xoi, 8, V(5)), neg(kr, xoi), fma(kr, 6, V(31)), fma(xoi, 6, V(31)),
    neg(mi, xor), fma(mi, 7, V(31)), neg(mi, mi), fma(xor, 7, V(31))>>
constant(e) == <<IF e.inverse THEN bcast(31, M("h", 0)) ELSE mov(31, KHalf)>>

\* A step in the registers 0 .. 9, moved up by 10 for each step before it.
armrealStep(inverse, j) ==
  LET lanes(s) == <<mov(s[2], M(s[1], s[4])), mov(s[3], M(s[1], s[4] + 2))>>
      shift(o) == IF o[1] # "v" \/ o[2] = 31 THEN o ELSE V(o[2] + 10 * j)
      step ==
        Code(<<lanes(<<"in", 6, 7, 4 * j>>), <<unpcklo(0, 6, 7), unpckhi(1, 6, 7)>>,
               lanes(<<"inb", 8, 9, -4 * j>>), lanes(<<"tw", 4, 5, 4 * j>>), <<unpcklo(2, 9, 8), unpckhi(3, 9, 8)>>,
               sums, IF inverse THEN retangled(2, 3, 0, 1) ELSE untangled(0, 1, 2, 3, 8, 9)>>)
      mr == IF inverse THEN 0 ELSE 8
      stores ==
        <<unpcklo(6, 2, 3), unpckhi(7, 2, 3), st(6, M("out", 4 * j)), st(7, M("out", 4 * j + 2)),
          unpckhi(4, mr, mr + 1), unpcklo(5, mr, mr + 1), st(4, M("outb", -4 * j)), st(5, M("outb", 2 - 4 * j))>>
  IN [i \in 1..Len(step \o stores) |->
        LET x == (step \o stores)[i] IN [x EXCEPT !.d = shift(@), !.s = [k \in DOMAIN @ |-> shift(@[k])]]]

\* Three interleaved steps, then two or one.
armrealUnroll == 3
armUntangle(e) ==
  LET steps(n, loop) == Block(n, loop, 2, Steps(n, LAMBDA j : armrealStep(e.inverse, j)), advance(4 * n))
  IN <<Entry(2, constant(e), [Cursors(0, e.m, 2) EXCEPT !.tw = 2], e.pairs), steps(armrealUnroll, TRUE),
       steps(2, FALSE), steps(1, FALSE)>>

f32rRev(n) == <<swap(n, n), ext(n, n)>>
armUntangle32(e) ==
  <<Entry(4, constant(e), Cursors(0, e.m, 4), e.quads),
    Block(1, TRUE, 4,
          Code(<<ld2(0, M("in", 0)), ld2(2, M("inb", 0)), ld2(4, M("tw", 0)), f32rRev(2), f32rRev(3), sums,
                 IF e.inverse THEN retangled(12, 13, 14, 15) ELSE untangled(10, 11, 12, 13, 14, 15),
                 f32rRev(14), f32rRev(15), <<st2(12, M("out", 0)), st2(14, M("outb", 0))>>>>),
          advance(8))>>
=============================================================================
