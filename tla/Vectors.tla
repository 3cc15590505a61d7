------------------------------- MODULE Vectors -------------------------------
(***************************************************************************)
(* The processors the FFT kernels run on, as far as the kernels use them:  *)
(* registers of lanes, the lane operations of AVX, AVX-512, NEON, RVV and  *)
(* the s390x vector facility, and the operands of an instruction.          *)
(*                                                                         *)
(* A lane holds an element of the field of Prime elements in place of a    *)
(* float: what a kernel computes is then exact, and equal to its           *)
(* definition or not.  The field has every root of unity of order 1440,    *)
(* so a sine, a cosine and i are elements of it.  Rounding is not          *)
(* modelled.                                                               *)
(***************************************************************************)
EXTENDS Integers, Sequences, SequencesExt

CONSTANTS Prime, Omega   \* Omega is a primitive root of unity of order 1440

\* Products of two elements stay below 2^31, TLC's integers.
ASSUME PrimeAssumption == Prime \in Nat /\ 3 <= Prime /\ Prime <= 46340 /\ Omega \in 2..Prime-1

-----------------------------------------------------------------------------
(* The field, and the angles 2*Pi*k/n for the n that divide 1440. *)

Times(x, y) == (x * y) % Prime
Power[n \in Nat] ==
  IF n = 0 THEN 1
  ELSE LET h == Power[n \div 2]
       IN Times(Times(h, h), IF n % 2 = 1 THEN Omega ELSE 1)
Powers == [k \in 0..1439 |-> Power[k]]
Root(k, n) == Powers[(k * (1440 \div n)) % 1440]
OneHalf == (Prime + 1) \div 2
Cos(k, n) == Times(OneHalf, Root(k, n) + Root(-k, n))
Sin(k, n) == Times(Times(OneHalf, Root(-1, 4)), Root(k, n) - Root(-k, n))

\* Complex numbers are pairs.
CAdd(x, y) == <<(x[1] + y[1]) % Prime, (x[2] + y[2]) % Prime>>
CMul(x, y) ==
  <<(Times(x[1], y[1]) - Times(x[2], y[2])) % Prime, (Times(x[1], y[2]) + Times(x[2], y[1])) % Prime>>
Conj(x) == <<x[1], (-x[2]) % Prime>>

\* e^(s*2*Pi*i*k/n): s = -1 is the forward direction.
Unit(s, k, n) == <<Cos(k, n), (s * Sin(k, n)) % Prime>>

-----------------------------------------------------------------------------
(***************************************************************************)
(* Instructions.  An operand is a register V(n), a place in memory, or a   *)
(* row of a table of constants.  A place is a stream, which a base         *)
(* register addresses, and a distance from it in lanes.  The destination   *)
(* comes first; x is an immediate.                                         *)
(***************************************************************************)
V(n) == <<"v", n>>
M(stream, disp) == <<stream, disp>>
KCos(k, n) == <<"cos", k, n>>   \* cos(2*Pi*k/n) in every lane
KSin(k, n) == <<"sin", k, n>>
KTurn(k, n) == <<"turn", k, n>> \* [-ss, ss], ss = s*sin(2*Pi*k/n)
KSign == <<"sign">>             \* the rotation's signs [-s, s]
KAddSub == <<"addsub">>         \* [-1, 1]
KNeg == <<"neg">>
KHalf == <<"half">>
KOne == <<"one">>               \* no sign at all: a register of zero bits, as a mask
Tables == {"cos", "sin", "turn", "sign", "addsub", "neg", "half", "one"}

Ins(op, d, s, x) == [op |-> op, d |-> d, s |-> s, x |-> x]

mov(d, a) == Ins("mov", V(d), <<a>>, 0)             \* a load, or a copy
st(a, m) == Ins("mov", m, <<V(a)>>, 0)              \* a store
add(d, a, b) == Ins("add", V(d), <<V(a), V(b)>>, 0)
sub(d, a, b) == Ins("sub", V(d), <<V(a), V(b)>>, 0)
addm(d, a, m) == Ins("add", V(d), <<V(a), m>>, 0)
subm(d, a, m) == Ins("sub", V(d), <<V(a), m>>, 0)
mul(d, a, m) == Ins("mul", V(d), <<V(a), m>>, 0)
\* XOR by a row of signs, which a register holds as 1 and -1.
flip(d, row) == Ins("mul", V(d), <<V(d), row>>, 0)
either(d, a, b) == Ins("or", V(d), <<V(a), V(b)>>, 0)        \* OR of two rows of signs
neg(d, a) == Ins("neg", V(d), <<V(a)>>, 0)
fma(d, a, m) == Ins("fma", V(d), <<V(a), m, V(d)>>, 0)       \*  a*m + d
fnma(d, a, m) == Ins("fnma", V(d), <<V(a), m, V(d)>>, 0)     \* -a*m + d
fms(d, a, m) == Ins("fms", V(d), <<V(a), m, V(d)>>, 0)       \*  a*m - d
fnms(d, a, m) == Ins("fnms", V(d), <<V(a), m, V(d)>>, 0)     \* -a*m - d
fma4(d, a, b, c) == Ins("fma", V(d), <<V(a), V(b), V(c)>>, 0)
fms4(d, a, b, c) == Ins("fms", V(d), <<V(a), V(b), V(c)>>, 0)
fmaddsub(d, a, m) == Ins("fmaddsub", V(d), <<V(a), m, V(d)>>, 0)
addsub(d, a, b) == Ins("addsub", V(d), <<V(a), V(b)>>, 0)
swap(d, a) == Ins("swap", V(d), <<V(a)>>, 0)
dupre(d, m) == Ins("dupre", V(d), <<m>>, 0)
dupim(d, m) == Ins("dupim", V(d), <<m>>, 0)
bcast(d, m) == Ins("bcast", V(d), <<m>>, 0)
blend(d, a, n) == Ins("blend", V(d), <<V(d), V(a)>>, n)      \* the first n lanes of a
movx(d, m, n) == Ins("movx", V(d), <<m>>, n)                 \* the first n lanes only
ins(d, m, n, q) == Ins("ins", V(d), <<V(d), m>>, <<n, q>>)   \* n lanes at place q
unpcklo(d, a, b) == Ins("unpcklo", V(d), <<V(a), V(b)>>, 0)
unpckhi(d, a, b) == Ins("unpckhi", V(d), <<V(a), V(b)>>, 0)
blendre(d, a, b) == Ins("blendre", V(d), <<V(a), V(b)>>, 0)  \* a, its real lanes from b
blendim(d, a, b) == Ins("blendim", V(d), <<V(a), V(b)>>, 0)
rev(d, a) == Ins("rev", V(d), <<V(a)>>, 0)                   \* the pairs of lanes, reversed
ext(d, a) == Ins("ext", V(d), <<V(a)>>, 0)                   \* the halves exchanged
bcast4(d, m) == Ins("bcast4", V(d), <<m>>, 0)                \* four lanes, again and again
\* Loads and stores that separate or join alternate elements: VLD2, VST2.
ld2(d, m) == <<Ins("even", V(d), <<m>>, 0), Ins("odd", V(d + 1), <<m>>, 0)>>
ld2r(d, m) == <<Ins("bcast", V(d), <<m>>, 0), Ins("bcast", V(d + 1), <<M(m[1], m[2] + 1)>>, 0)>>
uzplo(d, a, b) == Ins("uzplo", V(d), <<V(a), V(b)>>, 0)      \* every other lane of a and b
uzphi(d, a, b) == Ins("uzphi", V(d), <<V(a), V(b)>>, 0)
halves(d, a, p, b, q) == Ins("halves", V(d), <<V(a), V(b)>>, <<p, q>>)  \* half p of a, half q of b
stx(a, m, n) == Ins("movx", m, <<V(a)>>, n)                  \* the first n lanes only
st2(a, m) == Ins("join", m, <<V(a), V(a + 1)>>, 0)

\* Which operand the op reads at which lane, for the ops that only move lanes.
Real(i) == i % 2 = 1
Other(i) == IF Real(i) THEN i + 1 ELSE i - 1
\* Lane i of the result of op on operands a, whose lanes start at 1.
Lane(op, x, a, i) ==
  CASE op = "mov" -> a[1][i]
    [] op = "add" -> (a[1][i] + a[2][i]) % Prime
    [] op = "sub" -> (a[1][i] - a[2][i]) % Prime
    [] op = "mul" -> Times(a[1][i], a[2][i])
    [] op = "or" -> IF a[1][i] = 1 THEN a[2][i] ELSE a[1][i]
    [] op = "neg" -> (-a[1][i]) % Prime
    [] op = "fma" -> (Times(a[1][i], a[2][i]) + a[3][i]) % Prime
    [] op = "fnma" -> (a[3][i] - Times(a[1][i], a[2][i])) % Prime
    [] op = "fms" -> (Times(a[1][i], a[2][i]) - a[3][i]) % Prime
    [] op = "fnms" -> (-Times(a[1][i], a[2][i]) - a[3][i]) % Prime
    [] op = "fmaddsub" ->
         LET p == Times(a[1][i], a[2][i])
         IN (IF Real(i) THEN p - a[3][i] ELSE p + a[3][i]) % Prime
    [] op = "addsub" -> (IF Real(i) THEN a[1][i] - a[2][i] ELSE a[1][i] + a[2][i]) % Prime
    [] op = "swap" -> a[1][Other(i)]
    [] op = "dupre" -> a[1][IF Real(i) THEN i ELSE i - 1]
    [] op = "dupim" -> a[1][IF Real(i) THEN i + 1 ELSE i]
    [] op = "bcast" -> a[1][1]
    [] op = "blend" -> IF i <= x THEN a[2][i] ELSE a[1][i]
    [] op = "movx" -> a[1][i]
    [] op = "ins" -> IF (i - 1) \div x[1] = x[2] THEN a[2][((i - 1) % x[1]) + 1] ELSE a[1][i]
    [] op = "unpcklo" -> IF Real(i) THEN a[1][i] ELSE a[2][i - 1]
    [] op = "unpckhi" -> IF Real(i) THEN a[1][i + 1] ELSE a[2][i]
    [] op = "blendre" -> a[IF Real(i) THEN 2 ELSE 1][i]
    [] op = "blendim" -> a[IF Real(i) THEN 1 ELSE 2][i]
    [] op = "rev" -> a[1][Len(a[1]) - Other(i) + 1]
    [] op = "ext" -> a[1][((i + (Len(a[1]) \div 2) - 1) % Len(a[1])) + 1]
    [] op = "bcast4" -> a[1][((i - 1) % 4) + 1]
    [] op = "even" -> a[1][2 * i - 1]
    [] op = "odd" -> a[1][2 * i]
    [] op = "uzplo" -> (a[1] \o a[2])[2 * i - 1]
    [] op = "uzphi" -> (a[1] \o a[2])[2 * i]
    [] op = "halves" ->
         LET h == Len(a[1]) \div 2 IN IF i <= h THEN a[1][i + h * x[1]] ELSE a[2][i - h + h * x[2]]
    [] op = "join" -> a[IF Real(i) THEN 1 ELSE 2][(i + 1) \div 2]

\* How many lanes the op reads of operand k, and writes, on registers of w.
Reads(i, w, k) ==
  CASE i.op = "bcast" -> 1
    [] i.op = "bcast4" -> 4
    [] i.op = "dupre" /\ w = 2 -> 1
    [] i.op = "movx" -> i.x
    [] i.op = "ins" /\ k = 2 -> i.x[1]
    [] i.op \in {"even", "odd"} -> 2 * w
    [] OTHER -> w
Writes(i, w) == CASE i.op = "movx" -> i.x [] i.op = "join" -> 2 * w [] OTHER -> w

-----------------------------------------------------------------------------
(***************************************************************************)
(* Code is the concatenation of pieces; a loop of an emitter is a piece    *)
(* for each of its values.                                                 *)
(*                                                                         *)
(* A kernel is a sequence of blocks.  A block is run when at least need    *)
(* units of work are left; it takes them, moves the streams by step, and   *)
(* runs again if it is a loop.  An entry sets the streams and the work.    *)
(* With w = 0 the code is strip-mined: as many lanes as it asked for.      *)
(***************************************************************************)
Code(pieces) == FlattenSeq(pieces)
For(n, Piece(_)) == FlattenSeq([i \in 1..n |-> Piece(i - 1)])

Block(need, loop, w, code, step) ==
  [kind |-> "block", need |-> need, loop |-> loop, w |-> w, code |-> code, step |-> step, work |-> 0]
Entry(w, code, streams, work) ==
  [kind |-> "entry", need |-> 0, loop |-> FALSE, w |-> w, code |-> code, step |-> streams, work |-> work]
\* RET, after the last block of every kernel.
Ret == [kind |-> "ret", need |-> 0, loop |-> FALSE, w |-> 0, code |-> <<>>, step |-> <<>>, work |-> 0]
\* The kernels that run once: all streams at the start of their arrays.
Straight(w, code) == <<Block(0, FALSE, w, code, <<>>)>>
=============================================================================
