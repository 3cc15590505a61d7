----------------------------- MODULE FFTButterfly -----------------------------
(***************************************************************************)
(* The bodies of the interleaved pass kernels of fft/amd64: the            *)
(* instructions between two moves of the streams.  What an emitter knows   *)
(* is the record e:                                                        *)
(*   r            the radix                                                *)
(*   w            lanes of a register: 8 (Z), 4 (Y), 2 (X)                 *)
(*   last         a final pass, whose registers hold blocks                *)
(*   g, half      the twiddle group and the half of it the points are in   *)
(*   first        whether the first lane pair is the point i = 0           *)
(*   notw, bcast  a batched pass: no twiddle, or one for every lane        *)
(*   dup          the table holds duplicated parts                         *)
(*   fma          a fused kernel                                           *)
(*   single       the float32 emitter, whose registers hold 8, 4 or 2      *)
(*                lanes of half the size; its bodies are the same          *)
(* Streams lie one register apart.                                         *)
(***************************************************************************)
EXTENDS Vectors

Stream(e, j) == M("in", j * e.w)
Output(e, j) == M("out", j * e.w)
TwAt(e, j) == M("tw", (j - 1) * 2 * e.g + 4 * e.half)
TwDupAt(e, j) == M("tw", (j - 1) * 4 * e.g + 4 * e.half)
TwDupIm(e, j) == M("tw", (j - 1) * 4 * e.g + 4 * e.half + 2 * e.g)
Slot(n) == M("sp", 4 * n)   \* 32-byte slots of the frame

\* A final pass of float32 gathers through register 15.
f32in(e, d, j) ==
  LET x(q) == M("in", 2 * (q * e.r + j))
  IN <<movx(d, x(0), 2)>>
       \o (IF e.w > 2 THEN <<ins(d, x(1), 2, 1)>> ELSE <<>>)
       \o (IF e.w = 8 THEN <<movx(15, x(2), 2), ins(15, x(3), 2, 1), ins(d, V(15), 4, 1)>> ELSE <<>>)

in(e, d, j) ==
  IF e.last /\ e.single THEN f32in(e, d, j)
  ELSE IF ~e.last THEN <<mov(d, Stream(e, j))>>
  ELSE <<movx(d, M("in", 2 * j), 2)>>
         \o [q \in 1..(e.w \div 2) - 1 |-> ins(d, M("in", 2 * (q * e.r + j)), 2, q)]

\* The rows of the constants table (Consts).
Half == KHalf
Sin120 == KSin(1, 3)
C51 == KCos(1, 5)
C52 == KCos(2, 5)
S51 == KSin(1, 5)
S52 == KSin(2, 5)
H == KCos(1, 8)

hpm(e, plus, a, s) ==
  IF e.fma THEN <<mov(plus, V(a)), fma(plus, s, H), fnma(a, s, H)>>
  ELSE <<add(plus, a, s), sub(a, a, s)>>

rot(d, a) == <<swap(d, a), flip(d, KSign)>>

fmaProduct(y, wr, wi, sw, d) == <<mul(d, sw, wi), fmaddsub(d, y, wr)>>

\* The product left in d: from duplicated halves in memory, in registers
\* broadcast from memory, or made from the twiddle by a shuffle.
product(e, y, j, t1, t2, t3, d) ==
  LET load == IF e.bcast THEN <<bcast(t1, M("tw", (j - 1) * 2)), bcast(t2, M("tw", (j - 1) * 2 + 1))>>
              ELSE <<dupre(t1, TwAt(e, j)), dupim(t2, TwAt(e, j))>>
      multiply == IF e.dup THEN <<mul(t1, y, TwDupAt(e, j)), mul(t2, t3, TwDupIm(e, j))>>
                  ELSE <<mul(t1, t1, V(y)), mul(t2, t2, V(t3))>>
      sum == IF e.w = 8 THEN <<flip(t2, KAddSub), add(d, t1, t2)>> ELSE <<addsub(d, t1, t2)>>
  IN (IF e.dup THEN <<>> ELSE load) \o <<swap(t3, y)>>
       \o (IF ~e.fma THEN multiply \o sum
           ELSE IF e.dup THEN fmaProduct(y, TwDupAt(e, j), TwDupIm(e, j), t3, d)
           ELSE fmaProduct(y, V(t1), V(t2), t3, d))

\* Float32: a lone point's twiddle is duplicated in registers.
f32product(e, y, j, t1, t2, t3, d) ==
  (CASE e.bcast -> <<bcast(t1, M("tw", (j - 1) * 2)), bcast(t2, M("tw", (j - 1) * 2 + 1))>>
     [] ~e.bcast /\ e.w = 2 -> <<movx(t1, TwAt(e, j), 2), dupim(t2, V(t1)), dupre(t1, V(t1))>>
     [] OTHER -> <<dupre(t1, TwAt(e, j)), dupim(t2, TwAt(e, j))>>)
    \o <<swap(t3, y), mul(t1, t1, V(y)), mul(t2, t2, V(t3)), addsub(d, t1, t2)>>

twStore(e, y, j, t1, t2, t3, d) ==
  IF e.last \/ e.notw THEN <<st(y, Output(e, j))>>
  ELSE (IF e.single THEN f32product(e, y, j, t1, t2, t3, d) ELSE product(e, y, j, t1, t2, t3, d))
         \o (IF e.first /\ ~e.bcast THEN <<blend(d, y, 2)>> ELSE <<>>)
         \o <<st(d, Output(e, j))>>

body2(e) ==
  in(e, 0, 0) \o in(e, 1, 1) \o <<add(2, 0, 1), st(2, Output(e, 0)), sub(3, 0, 1)>>
    \o twStore(e, 3, 1, 5, 6, 7, 4)

body3(e) ==
  in(e, 0, 0) \o in(e, 1, 1) \o in(e, 2, 2)
    \o <<add(3, 1, 2), sub(4, 1, 2), add(5, 0, 3), st(5, Output(e, 0)),
         mul(6, 3, Half), sub(6, 0, 6), mul(7, 4, Sin120)>> \o rot(7, 7)
    \o <<add(1, 6, 7), sub(2, 6, 7)>>
    \o twStore(e, 1, 1, 9, 10, 11, 8) \o twStore(e, 2, 2, 9, 10, 11, 8)

body4(e) ==
  For(4, LAMBDA j : in(e, j, j))
    \o <<add(4, 0, 2), sub(5, 0, 2), add(6, 1, 3), sub(7, 1, 3)>> \o rot(7, 7)
    \o <<add(0, 4, 6), st(0, Output(e, 0)), add(1, 5, 7), sub(2, 4, 6), sub(3, 5, 7)>>
    \o For(3, LAMBDA j : twStore(e, j + 1, j + 1, 9, 10, 11, 8))

\* r1 and r2, and i1 and i2 of radix 5, from t1 in 3, t2 in 4, t3 in 5, t4 in 6.
sums5 ==
  <<mul(8, 3, C51), mul(9, 5, C52), add(8, 8, 9), add(8, 0, 8),
    mul(9, 3, C52), mul(10, 5, C51), add(9, 9, 10), add(9, 0, 9),
    mul(10, 4, S51), mul(11, 6, S52), add(10, 10, 11)>> \o rot(10, 10)
    \o <<mul(11, 4, S52), mul(12, 6, S51), sub(11, 11, 12)>> \o rot(11, 11)
    \o <<add(1, 8, 10), sub(4, 8, 10), add(2, 9, 11), sub(3, 9, 11)>>

body5(e) ==
  in(e, 0, 0) \o in(e, 1, 1) \o in(e, 2, 4) \o <<add(3, 1, 2), sub(4, 1, 2)>>
    \o in(e, 1, 2) \o in(e, 2, 3) \o <<add(5, 1, 2), sub(6, 1, 2), add(7, 0, 3), add(7, 7, 5),
                                       st(7, Output(e, 0))>> \o sums5
    \o For(4, LAMBDA j : twStore(e, j + 1, j + 1, 12, 13, 14, 15))

\* The radix-8 butterfly of the whole input, or of every fourth stream from
\* n2 on (radix 32); it leaves y0 .. y7 in the registers r8out.
r8out == <<4, 10, 12, 8, 0, 3, 1, 2>>
bfly8(e, n2) ==
  LET x(d, n1) == in(e, d, IF e.r = 8 THEN n1 ELSE n2 + 4 * n1)
      scale(n) == IF e.fma THEN <<>> ELSE <<mul(n, n, H)>>
      y0 == IF e.r = 8 THEN <<st(4, Output(e, 0))>> ELSE <<>>
  IN Code(<<x(1, 1), x(5, 5), <<add(8, 1, 5), sub(9, 1, 5)>>,
            x(3, 3), x(7, 7), <<add(10, 3, 7), sub(11, 3, 7), add(12, 8, 10), sub(10, 8, 10)>>,
            rot(10, 10), rot(11, 11), <<add(8, 9, 11), sub(9, 9, 11)>>,
            rot(11, 8), <<add(8, 8, 11)>>, scale(8), rot(11, 9), <<sub(9, 11, 9)>>, scale(9),
            x(0, 0), x(4, 4), <<add(1, 0, 4), sub(2, 0, 4)>>,
            x(0, 2), x(4, 6), <<add(3, 0, 4), sub(5, 0, 4), add(0, 1, 3), sub(1, 1, 3)>>,
            rot(5, 5), <<add(3, 2, 5), sub(2, 2, 5), add(4, 0, 12)>>, y0,
            <<sub(0, 0, 12), add(12, 1, 10), sub(1, 1, 10)>>, hpm(e, 10, 3, 8), hpm(e, 8, 2, 9)>>)

body8(e) == bfly8(e, 0) \o For(7, LAMBDA j : twStore(e, r8out[j + 2], j + 1, 13, 14, 15, 4))

-----------------------------------------------------------------------------
(* Radix 9: three bfly3, the internal twiddles, three bfly3. *)

rotC(e, d, a, kc, ks, ta, tb) ==
  IF e.fma THEN <<swap(tb, a), mul(tb, tb, ks), fma(tb, a, kc), mov(d, V(tb))>>
  ELSE <<mul(ta, a, kc), swap(tb, a), mul(tb, tb, ks), add(d, ta, tb)>>

csRot9(e, d, a, ex, ta, tb) ==
  rotC(e, d, a, KCos(ex, 9), KTurn(ex, 9), ta, tb)

\* A bfly3 of x, a and b: its sum to y0, ca and cb to 14 and 15.
csBfly3(x, a, b, y0) ==
  <<add(12, a, b), sub(13, a, b), add(y0, x, 12), mul(14, 12, Half), sub(14, x, 14),
    mul(15, 13, Sin120)>> \o rot(15, 15)

csStage2(e, k1) ==
  csBfly3(k1, 3 + k1, 6 + k1, 9)
    \o <<add(10, 14, 15), sub(11, 14, 15)>>
    \o (IF k1 = 0 THEN <<st(9, Output(e, 0))>> ELSE twStore(e, 9, k1, 12, 13, 14, 15))
    \o twStore(e, 10, k1 + 3, 12, 13, 14, 15) \o twStore(e, 11, k1 + 6, 12, 13, 14, 15)

csStage1(e, n2) ==
  LET d == 3 * n2
  IN in(e, 9, n2) \o in(e, 10, n2 + 3) \o in(e, 11, n2 + 6) \o csBfly3(9, 10, 11, d)
       \o IF n2 = 0 THEN <<add(d + 1, 14, 15), sub(d + 2, 14, 15)>>
          ELSE <<add(10, 14, 15), sub(11, 14, 15)>>
                 \o csRot9(e, d + 1, 10, n2, 12, 13) \o csRot9(e, d + 2, 11, 2 * n2, 12, 13)

csBody9(e) == For(3, LAMBDA n2 : csStage1(e, n2)) \o For(3, LAMBDA k1 : csStage2(e, k1))

-----------------------------------------------------------------------------
(* Radix 12: four bfly3 over n1, three bfly4 over n2; eight values spilled. *)

comp12In == <<<<0, 4, 8>>, <<3, 7, 11>>, <<6, 10, 2>>, <<9, 1, 5>>>>
comp12Out == <<<<0, 9, 6, 3>>, <<4, 1, 10, 7>>, <<8, 5, 2, 11>>>>
comp12Slot(n2, k1) == Slot(4 * (k1 - 1) + n2)

comp12Bfly3(x, y, t) ==
  <<add(t[1], x[2], x[3]), sub(t[2], x[2], x[3]), add(y[1], x[1], t[1]),
    mul(t[3], t[1], Half), sub(t[3], x[1], t[3]), mul(t[2], t[2], Sin120)>>
    \o rot(t[2], t[2]) \o <<add(y[2], t[3], t[2]), sub(y[3], t[3], t[2])>>

bfly4r(x, t, z) ==
  <<add(t[1], x[1], x[3]), sub(t[2], x[1], x[3]), add(t[3], x[2], x[4]), sub(t[4], x[2], x[4])>>
    \o rot(t[4], t[4])
    \o <<add(z[1], t[1], t[3]), add(z[2], t[2], t[4]), sub(z[3], t[1], t[3]), sub(z[4], t[2], t[4])>>

storeOrTw(e, z, j, t) ==
  IF j = 0 THEN <<st(z, Output(e, 0))>> ELSE twStore(e, z, j, t[1], t[2], t[3], t[4])

\* Slip: one register too far.
ScratchFrom13 == <<13, 14, 15, 16>>
Scratch == <<12, 13, 14, 15>>

comp12Body(e) ==
  For(4, LAMBDA n2 : For(3, LAMBDA q : in(e, q, comp12In[n2 + 1][q + 1]))
                       \o comp12Bfly3(<<0, 1, 2>>, <<8 + n2, 3, 4>>, <<5, 6, 7>>)
                       \o <<st(3, comp12Slot(n2, 1)), st(4, comp12Slot(n2, 2))>>)
    \o For(3, LAMBDA k1 :
         LET z == IF k1 = 0 THEN <<4, 5, 6, 7>> ELSE <<8, 9, 10, 11>>
         IN (IF k1 = 0 THEN bfly4r(<<8, 9, 10, 11>>, <<0, 1, 2, 3>>, z)
             ELSE [n \in 1..4 |-> mov(n - 1, comp12Slot(n - 1, k1))]
                    \o bfly4r(<<0, 1, 2, 3>>, <<4, 5, 6, 7>>, z))
              \o For(4, LAMBDA k2 : storeOrTw(e, z[k2 + 1], comp12Out[k1 + 1][k2 + 1], Scratch)))

-----------------------------------------------------------------------------
(* Radix 16: four bfly4, the internal twiddles, four bfly4; the values of     *)
(* k1 = 2 and 3 spilled.                                                      *)

\* Slip: the kept rows three registers apart.
r16keepPacked(n2, k1) == 8 + 3 * k1 + n2
r16keep(n2, k1) == 8 + 4 * k1 + n2
r16slot(n2, k1) == Slot(4 * (k1 - 2) + n2)

\* The rows of the constants table for W16^ex, ex in {1, 2, 3, 6, 9}.
R16SSH == KTurn(2, 16)
rot16(e, d, a, ex, ta, tb) ==
  LET row == CASE ex = 1 -> <<KCos(1, 16), KTurn(1, 16)>> [] ex = 2 -> <<H, R16SSH>>
               [] ex = 3 -> <<KSin(1, 16), KTurn(3, 16)>> [] ex = 6 -> <<KCos(6, 16), R16SSH>>
               [] ex = 9 -> <<KCos(9, 16), KTurn(9, 16)>>
  IN rotC(e, d, a, row[1], row[2], ta, tb)

\* The internal twiddle of stage-1 value (n2, k1), from register k1 - 1 to
\* where stage 2 finds it.
r16Twiddle(e, n2, k1) ==
  LET ex == n2 * k1
      y == k1 - 1
      d == IF ex = 0 THEN y ELSE IF k1 = 1 THEN r16keep(n2, 1) ELSE 5
  IN (CASE ex = 0 -> IF k1 = 1 THEN <<mov(r16keep(n2, 1), V(y))>> ELSE <<>>
        [] ex = 4 -> rot(d, y)
        [] OTHER -> rot16(e, d, y, ex, 3, 4))
       \o IF k1 >= 2 THEN <<st(d, r16slot(n2, k1))>> ELSE <<>>

body16(e) ==
  For(4, LAMBDA n2 :
        For(4, LAMBDA q : in(e, q, n2 + 4 * q))
          \o bfly4r(<<0, 1, 2, 3>>, <<4, 5, 6, 7>>, <<r16keep(n2, 0), 0, 1, 2>>)
          \o For(3, LAMBDA k : r16Twiddle(e, n2, k + 1)))
    \o For(4, LAMBDA k1 :
         LET four(n) == [i \in 1..4 |-> n + i - 1]
             kept == k1 < 2
             z == IF kept THEN four(4) ELSE four(8)
         IN (IF kept THEN bfly4r(four(r16keep(0, k1)), four(0), z)
             ELSE [n \in 1..4 |-> mov(n - 1, r16slot(n - 1, k1))] \o bfly4r(four(0), four(4), z))
              \o For(4, LAMBDA k2 : storeOrTw(e, z[k2 + 1], k1 + 4 * k2, IF kept THEN four(8) ELSE four(12))))

-----------------------------------------------------------------------------
(* Radix 10, 15 and 20: q bfly5 over n1, five radix-q butterflies over n2;    *)
(* every stage-1 value goes through the frame.                                *)

comp2In(q, n2, n1) == (q * n1 + 5 * n2) % (5 * q)
comp2Out(q, k1, k2) ==
  LET a == CHOOSE x \in 0..5 * q - 1 : x % 5 = 1 /\ x % q = 0
      b == CHOOSE x \in 0..5 * q - 1 : x % 5 = 0 /\ x % q = 1
  IN (a * k1 + b * k2) % (5 * q)
comp2Slot(q, n2, k1) == Slot(q * k1 + n2)

comp2Bfly5(e, q, n2) ==
  LET x(d, n1) == in(e, d, comp2In(q, n2, n1))
  IN Code(<<x(0, 0), x(1, 1), x(2, 4), <<add(3, 1, 2), sub(4, 1, 2)>>, x(1, 2), x(2, 3),
            <<add(5, 1, 2), sub(6, 1, 2), add(7, 0, 3), add(7, 7, 5)>>, sums5>>)

\* The radix-q butterfly of registers 0 .. q-1, and where its outputs are.
comp2Stage2(q) ==
  CASE q = 2 -> <<add(2, 0, 1), sub(3, 0, 1)>>
    [] q = 3 -> comp12Bfly3(<<0, 1, 2>>, <<3, 4, 5>>, <<6, 7, 8>>)
    [] q = 4 -> bfly4r(<<0, 1, 2, 3>>, <<4, 5, 6, 7>>, <<8, 9, 10, 11>>)
comp2Z(q) == CASE q = 2 -> 2 [] q = 3 -> 3 [] q = 4 -> 8

comp2Body(e) ==
  LET q == e.r \div 5
  IN For(q, LAMBDA n2 : comp2Bfly5(e, q, n2)
                          \o [k \in 1..5 |-> st(<<7, 1, 2, 3, 4>>[k], comp2Slot(q, n2, k - 1))])
       \o For(5, LAMBDA k1 : [n \in 1..q |-> mov(n - 1, comp2Slot(q, n - 1, k1))] \o comp2Stage2(q)
                               \o For(q, LAMBDA k2 : storeOrTw(e, comp2Z(q) + k2, comp2Out(q, k1, k2), Scratch)))

-----------------------------------------------------------------------------
(* The final pass of radix 32: four radix-8 butterflies over the inputs       *)
(* n2 + 4*n1, the internal twiddles, eight bfly4.  The values between the     *)
(* stages lie in the output: V[n2][k1] in slot k1 + 8*n2, where the           *)
(* butterfly of k1 reads it and writes its own outputs.                       *)

r32Twiddle(e, y, ex) ==
  IF ex = 0 THEN <<>> ELSE IF ex = 8 THEN rot(y, y) ELSE rotC(e, y, y, KCos(ex, 32), KTurn(ex, 32), 13, 14)

r32Last(e) ==
  For(4, LAMBDA n2 : bfly8(e, n2)
           \o For(8, LAMBDA k1 : r32Twiddle(e, r8out[k1 + 1], n2 * k1)
                                    \o <<st(r8out[k1 + 1], Output(e, k1 + 8 * n2))>>))
    \o For(8, LAMBDA k1 : [n2 \in 1..4 |-> mov(n2 - 1, Output(e, k1 + 8 * (n2 - 1)))]
                             \o bfly4r(<<0, 1, 2, 3>>, <<4, 5, 6, 7>>, <<8, 9, 10, 11>>)
                             \o [k2 \in 1..4 |-> st(7 + k2, Output(e, k1 + 8 * (k2 - 1)))])

Body(e) ==
  CASE e.r = 2 -> body2(e) [] e.r = 3 -> body3(e) [] e.r = 4 -> body4(e) [] e.r = 5 -> body5(e)
    [] e.r = 8 -> body8(e) [] e.r = 9 -> csBody9(e) [] e.r = 12 -> comp12Body(e)
    [] e.r = 16 -> body16(e) [] e.r = 32 -> r32Last(e) [] OTHER -> comp2Body(e)

\* The float32 passes run the same bodies, operation for operation.
f32Body(e) == Body([e EXCEPT !.single = TRUE])
=============================================================================
