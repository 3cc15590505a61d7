------------------------------ MODULE FFTSplit ------------------------------
(***************************************************************************)
(* The bodies of the split-layout pass kernels of fft/amd64: a group of w  *)
(* points is w real parts and then w imaginary parts, in one register      *)
(* each, so a value z is a pair of registers.  What an emitter knows is    *)
(* the record e:                                                           *)
(*   r            the radix: 3, 4, 5, 8 or 32                              *)
(*   w            lanes of a register: 4 (Split), 8 (Split512, wide)       *)
(*   inS, outS    whether the input and the output are split               *)
(*   first        whether lane 0 is the point i = 0                        *)
(*   fma, s       a fused kernel; the direction, compiled in               *)
(*   frame        radix 32: the values between the stages in the frame     *)
(***************************************************************************)
EXTENDS Vectors

H == KCos(1, 8)
Half == KHalf
Sin120 == KSin(1, 3)
C51 == KCos(1, 5)
C52 == KCos(2, 5)
S51 == KSin(1, 5)
S52 == KSin(2, 5)

In(e, j) == <<"in", 2 * e.w * j>>
Out(e, j) == <<"out", 2 * e.w * j>>
im(e, place) == M(place[1], place[2] + e.w)
\* The four spilled registers of radix 8, after radix 32's counters.
sp(e, q) == M("sp", (IF e.r = 32 THEN 2 ELSE 0) + q * e.w)

loadAt(e, place, split, z, t) ==
  IF split THEN <<mov(z[1], place), mov(z[2], im(e, place))>>
  ELSE <<mov(t[1], place), mov(t[2], im(e, place)), unpcklo(z[1], t[1], t[2]), unpckhi(z[2], t[1], t[2])>>
storeAt(e, place, split, z, t) ==
  IF split THEN <<st(z[1], place), st(z[2], im(e, place))>>
  ELSE <<unpcklo(t[1], z[1], z[2]), unpckhi(t[2], z[1], z[2]), st(t[1], place), st(t[2], im(e, place))>>
load(e, j, z, t) == loadAt(e, In(e, j), e.inS, z, t)
store(e, j, z, t) == storeAt(e, Out(e, j), e.outS, z, t)

cadd(d, a, b) == <<add(d[1], a[1], b[1]), add(d[2], a[2], b[2])>>
csub(d, a, b) == <<sub(d[1], a[1], b[1]), sub(d[2], a[2], b[2])>>
\* p, m = a + b, a - b, part by part: m may be a, or b's other part p.
pm(p, m, a, b) == <<add(p[1], a[1], b[1]), sub(m[1], a[1], b[1]), add(p[2], a[2], b[2]), sub(m[2], a[2], b[2])>>
\* p, m = a + rotS(b), a - rotS(b).
rotAdd(e, p, m, a, b) ==
  IF e.s < 0 THEN <<add(p[1], a[1], b[2]), sub(p[2], a[2], b[1]), sub(m[1], a[1], b[2]), add(m[2], a[2], b[1])>>
  ELSE <<sub(p[1], a[1], b[2]), add(p[2], a[2], b[1]), add(m[1], a[1], b[2]), sub(m[2], a[2], b[1])>>

\* z times twiddle j, stored to output j.
twStore(e, z, j, t) ==
  LET put(d) == IF e.first THEN <<blend(d[1], z[1], 1), blend(d[2], z[2], 1)>> ELSE <<>>
  IN <<mov(t[1], M("tw", (j - 1) * 2 * e.w)), mov(t[2], M("tw", (j - 1) * 2 * e.w + e.w))>>
       \o IF e.fma
          THEN <<mul(t[3], z[2], V(t[2])), fms(t[3], z[1], V(t[1])), mul(t[4], z[1], V(t[2])),
                 fma(t[4], z[2], V(t[1]))>>
                 \o put(<<t[3], t[4]>>) \o store(e, j, <<t[3], t[4]>>, <<t[1], t[2]>>)
          ELSE <<mul(t[3], z[1], V(t[1])), mul(t[4], z[2], V(t[2])), sub(t[3], t[3], t[4]),
                 mul(t[1], z[2], V(t[1])), mul(t[2], z[1], V(t[2])), add(t[1], t[1], t[2])>>
                 \o put(<<t[3], t[1]>>) \o store(e, j, <<t[3], t[1]>>, <<t[2], t[4]>>)

-----------------------------------------------------------------------------
(* Radices 3, 4 and 5. *)

body3(e) ==
  Code(<<load(e, 1, <<2, 3>>, <<12, 13>>), load(e, 2, <<4, 5>>, <<12, 13>>), pm(<<6, 7>>, <<2, 3>>, <<2, 3>>, <<4, 5>>),
         load(e, 0, <<0, 1>>, <<12, 13>>), cadd(<<8, 9>>, <<0, 1>>, <<6, 7>>), store(e, 0, <<8, 9>>, <<12, 13>>),
         <<mul(10, 6, Half), sub(10, 0, 10), mul(11, 7, Half), sub(11, 1, 11), mul(2, 2, Sin120), mul(3, 3, Sin120)>>,
         rotAdd(e, <<4, 5>>, <<6, 7>>, <<10, 11>>, <<2, 3>>),
         twStore(e, <<4, 5>>, 1, <<0, 1, 2, 3>>), twStore(e, <<6, 7>>, 2, <<0, 1, 2, 3>>)>>)

\* bfly4 of the pairs (0,1) .. (6,7), into (6,7), (4,5), (8,9) and (0,1).
\* y0 is stored by first(..) as soon as it is formed.
r4out == <<<<6, 7>>, <<4, 5>>, <<8, 9>>, <<0, 1>>>>
bfly4(e, stored) ==
  Code(<<pm(<<8, 9>>, <<0, 1>>, <<0, 1>>, <<4, 5>>), pm(<<4, 5>>, <<2, 3>>, <<2, 3>>, <<6, 7>>),
         cadd(<<6, 7>>, <<8, 9>>, <<4, 5>>), stored, csub(<<8, 9>>, <<8, 9>>, <<4, 5>>),
         rotAdd(e, <<4, 5>>, <<0, 1>>, <<0, 1>>, <<2, 3>>)>>)
body4(e) ==
  For(4, LAMBDA j : load(e, j, <<2 * j, 2 * j + 1>>, <<12, 13>>)) \o bfly4(e, store(e, 0, <<6, 7>>, <<10, 11>>))
    \o For(3, LAMBDA j : twStore(e, r4out[j + 2], j + 1, <<10, 11, 12, 13>>))

\* d = x + (ka*a + kb*b), through u.
affine(d, u, x, a, ka, b, kb) == <<mul(d, a, ka), mul(u, b, kb), add(d, d, u), add(d, x, d)>>
body5(e) ==
  Code(<<load(e, 1, <<0, 1>>, <<12, 13>>), load(e, 4, <<2, 3>>, <<12, 13>>), pm(<<4, 5>>, <<0, 1>>, <<0, 1>>, <<2, 3>>),
         load(e, 2, <<2, 3>>, <<12, 13>>), load(e, 3, <<6, 7>>, <<12, 13>>), pm(<<8, 9>>, <<2, 3>>, <<2, 3>>, <<6, 7>>),
         load(e, 0, <<6, 7>>, <<10, 11>>),
         <<add(10, 6, 4), add(10, 10, 8), add(11, 7, 5), add(11, 11, 9)>>, store(e, 0, <<10, 11>>, <<12, 13>>),
         affine(10, 12, 6, 4, C51, 8, C52), affine(11, 12, 7, 5, C51, 9, C52),
         affine(12, 14, 6, 4, C52, 8, C51), affine(13, 14, 7, 5, C52, 9, C51),
         <<mul(4, 0, S51), mul(8, 2, S52), add(4, 4, 8), mul(5, 1, S51), mul(9, 3, S52), add(5, 5, 9),
           mul(6, 0, S52), mul(8, 2, S51), sub(6, 6, 8), mul(7, 1, S52), mul(9, 3, S51), sub(7, 7, 9)>>,
         rotAdd(e, <<0, 1>>, <<2, 3>>, <<10, 11>>, <<4, 5>>), rotAdd(e, <<8, 9>>, <<14, 15>>, <<12, 13>>, <<6, 7>>),
         twStore(e, <<0, 1>>, 1, <<4, 5, 6, 7>>), twStore(e, <<8, 9>>, 2, <<4, 5, 6, 7>>),
         twStore(e, <<14, 15>>, 3, <<4, 5, 6, 7>>), twStore(e, <<2, 3>>, 4, <<4, 5, 6, 7>>)>>)

-----------------------------------------------------------------------------
(* Radix 8, and the first stage of radix 32: input n1 of the butterfly n2 is  *)
(* stream n2 + 4*n1, and its outputs go to the slots between the stages.      *)

hpm(e, plus, a, s) ==
  IF e.fma THEN <<mov(plus, V(a)), fma(plus, s, H), fnma(a, s, H)>> ELSE <<add(plus, a, s), sub(a, a, s)>>
negate(n) == <<flip(n, KNeg)>>

\* W32^ex = cs*C_p + ss*C_q*i, C_k = cos(k*Pi/16).
r32Trig(ex) ==
  IF ex < 8 THEN <<ex, 1, 8 - ex, 1>> ELSE IF ex < 16 THEN <<16 - ex, -1, ex - 8, 1>> ELSE <<ex - 16, -1, 24 - ex, -1>>
\* Where z * W32^ex is: in place but exchanged for ex = 8, else in t.
twiddle32Out(z, ex, t) == IF ex = 0 THEN z ELSE IF ex = 8 THEN <<z[2], z[1]>> ELSE <<t[1], t[2]>>
twiddle32(e, z, ex, t) ==
  LET g == r32Trig(ex)
      kp == KCos(g[1], 32)
      kq == KCos(g[3], 32)
      ss == e.s * g[4]
      re == CASE g[2] = 1 /\ ss = 1 -> fms(t[1], z[1], kp) [] g[2] = 1 /\ ss = -1 -> fma(t[1], z[1], kp)
              [] g[2] = -1 /\ ss = 1 -> fnms(t[1], z[1], kp) [] OTHER -> fnma(t[1], z[1], kp)
      part == CASE g[2] = 1 /\ ss = 1 -> fma(t[2], z[2], kp) [] g[2] = 1 /\ ss = -1 -> fms(t[2], z[2], kp)
                [] g[2] = -1 /\ ss = 1 -> fnma(t[2], z[2], kp) [] OTHER -> fnms(t[2], z[2], kp)
  IN CASE ex = 0 -> <<>>
       [] ex = 8 -> negate(IF e.s < 0 THEN z[1] ELSE z[2])
       [] OTHER -> <<mul(t[1], z[2], kq), re, mul(t[2], z[1], kq), part>>

\* Slot k1 + 8*n2 between the stages: in the frame, or in the output.
slot(e, j) == IF e.frame THEN M("sp", 2 + 4 * e.w + 2 * e.w * j) ELSE Out(e, j)

\* What becomes of output j of the radix-8 butterfly n2.
out8(e, n2, z, j, t) ==
  IF e.r = 32 THEN twiddle32(e, z, n2 * j, t) \o storeAt(e, slot(e, j + 8 * n2), TRUE, twiddle32Out(z, n2 * j, t), t)
  ELSE IF j = 0 THEN store(e, 0, z, <<5, 6>>) ELSE twStore(e, z, j, t)

oddHalf(e, n2) ==
  LET x(j, z) == load(e, IF e.r = 8 THEN j ELSE n2 + 4 * j, z, <<12, 13>>)
  IN Code(<<x(1, <<0, 1>>), x(5, <<2, 3>>), <<add(4, 0, 2), sub(0, 0, 2), add(2, 1, 3), sub(1, 1, 3)>>,
            x(3, <<3, 5>>), x(7, <<6, 7>>), <<add(8, 3, 6), sub(3, 3, 6), add(6, 5, 7), sub(5, 5, 7)>>,
            <<add(7, 4, 8), sub(4, 4, 8), add(8, 2, 6), sub(2, 2, 6),
              st(7, sp(e, 0)), st(8, sp(e, 1)), st(4, sp(e, 2)), st(2, sp(e, 3))>>,
            rotAdd(e, <<6, 9>>, <<0, 1>>, <<0, 1>>, <<3, 5>>),
            IF e.s < 0 THEN <<add(3, 6, 9), sub(5, 9, 6), sub(6, 1, 0)>> \o negate(0) \o <<sub(0, 0, 1)>>
            ELSE <<sub(3, 6, 9), add(5, 9, 6), sub(2, 0, 1)>> \o negate(1) \o <<sub(6, 1, 0), mov(0, V(2))>>,
            IF e.fma THEN <<>> ELSE <<mul(3, 3, H), mul(5, 5, H), mul(6, 6, H), mul(0, 0, H)>>>>)

evenHalf(e, n2) ==
  LET x(j, z) == load(e, IF e.r = 8 THEN j ELSE n2 + 4 * j, z, <<13, 14>>)
      y(z, j, t) == out8(e, n2, z, j, t)
  IN Code(<<x(0, <<1, 2>>), x(4, <<4, 7>>), <<add(8, 1, 4), sub(1, 1, 4), add(4, 2, 7), sub(2, 2, 7)>>,
            x(2, <<7, 9>>), x(6, <<10, 11>>), <<add(12, 7, 10), sub(7, 7, 10), add(10, 9, 11), sub(9, 9, 11),
                                              add(11, 8, 12), sub(8, 8, 12), add(12, 4, 10), sub(4, 4, 10)>>,
            rotAdd(e, <<10, 13>>, <<1, 2>>, <<1, 2>>, <<7, 9>>), hpm(e, 7, 10, 3), hpm(e, 9, 13, 5),
            y(<<7, 9>>, 1, <<3, 5, 14, 15>>), y(<<10, 13>>, 5, <<3, 5, 14, 15>>), hpm(e, 7, 1, 6), hpm(e, 9, 2, 0),
            y(<<7, 9>>, 3, <<3, 5, 10, 13>>), y(<<1, 2>>, 7, <<3, 5, 10, 13>>),
            <<addm(7, 11, sp(e, 0)), subm(11, 11, sp(e, 0)), addm(9, 12, sp(e, 1)), subm(12, 12, sp(e, 1))>>,
            y(<<7, 9>>, 0, <<0, 1, 2, 3>>), y(<<11, 12>>, 4, <<0, 1, 2, 3>>),
            <<mov(6, sp(e, 2)), mov(0, sp(e, 3))>>, rotAdd(e, <<7, 9>>, <<8, 4>>, <<8, 4>>, <<6, 0>>),
            y(<<7, 9>>, 2, <<1, 2, 3, 5>>), y(<<8, 4>>, 6, <<1, 2, 3, 5>>)>>)

body8(e) == oddHalf(e, 0) \o evenHalf(e, 0)

\* The values between the stages come back as eight bfly4.
body32(e) ==
  For(4, LAMBDA n2 : oddHalf(e, n2) \o evenHalf(e, n2))
    \o For(8, LAMBDA k1 :
         For(4, LAMBDA n2 : loadAt(e, slot(e, k1 + 8 * n2), TRUE, <<2 * n2, 2 * n2 + 1>>, <<0, 0>>))
           \o bfly4(e, <<>>)
           \o For(4, LAMBDA k2 : LET j == k1 + 8 * k2
                                 IN IF j > 0 THEN twStore(e, r4out[k2 + 1], j, <<10, 11, 12, 13>>)
                                    ELSE store(e, 0, r4out[1], <<10, 11>>)))

Body(e) ==
  CASE e.r = 3 -> body3(e) [] e.r = 4 -> body4(e) [] e.r = 5 -> body5(e) [] e.r = 8 -> body8(e) [] e.r = 32 -> body32(e)
\* The 512-bit kernels' bodies are the same, in registers of eight.
Split512Body(e) == Body([e EXCEPT !.w = 8])
=============================================================================
