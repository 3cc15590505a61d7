----------------------------- MODULE FFTProcessor -----------------------------
(***************************************************************************)
(* A processor that runs the kernels of fft/: a program is executed one    *)
(* instruction at a time, on registers that hold leftovers, and what lies  *)
(* in memory when it returns is compared with the mathematical definition  *)
(* of what was asked for.                                                  *)
(***************************************************************************)
EXTENDS Vectors

\* Calls are records [unit, e, seed]: a kernel, what its emitter and its
\* caller know, and its data.  Program gives the code that its emitter writes.
CONSTANTS Calls, Program(_)

VARIABLES
  call,       \* the kernel that runs
  block, pc,  \* the next instruction
  left,       \* the work left, in the units of the loop
  vl,         \* the vector length, of a strip-mined loop
  at,         \* where each stream is, in lanes
  v, mem      \* registers and memory

vars == <<call, block, pc, left, vl, at, v, mem>>

-----------------------------------------------------------------------------
(* The kernels, and the arrays of a call: in, out, the twiddles tw, the       *)
(* frame's scratch space sp, the scale h.                                     *)

Product == INSTANCE FFTProduct

\* The code of the pointwise products.
ProductUnits == {"cmul sse2", "cmul avx2", "cmul neon", "cmul vx", "cmul rvv"}
ProductProgram(c) ==
  CASE c.unit = "cmul sse2" -> Product!CMulSSE2(c.e)
    [] c.unit = "cmul avx2" -> Product!CMulAVX2(c.e)
    [] c.unit = "cmul neon" -> Product!CMulNEON(c.e)
    [] c.unit = "cmul vx" -> Product!CMulVX(c.e)
    [] c.unit = "cmul rvv" -> Product!CMulRVV(c.e)
ASSUME ProgramAssumption == \A c \in Calls : c.unit \in ProductUnits => Program(c) = ProductProgram(c)

Programs == [c \in Calls |-> Append(Program(c), Ret)]

SplitPasses == {"split", "split512"}
NeonPasses == {"neon pass", "neon batch", "neon last", "neon last32"}
Passes == {"pass", "pass32"} \union SplitPasses \union NeonPasses
NeonMirrors == {"neon untangle", "neon untangle32"}
Mirrors == {"untangle", "untangle512", "untangle32"} \union NeonMirrors
InPlace(c) == c.unit = "stage" \/ (c.unit \notin Passes \union Mirrors /\ ~(c.unit = "cmul avx2" /\ c.e.dst))

-----------------------------------------------------------------------------
(* Where part p (0 real, 1 imaginary) of a value lies, in lanes: point q of   *)
(* stream j of a pass.  Split groups hold their points in the order VUNPCK    *)
(* leaves them in, NEON's pairs in their own.                                 *)

Points(c) == CASE c.unit \in NeonPasses -> c.e.n [] c.unit \in SplitPasses -> c.e.w [] OTHER -> c.e.w \div 2
SplitLane(w, q) == IF q < w \div 2 THEN 2 * q ELSE 2 * (q - w \div 2) + 1
Spot(split, w, q, p) == IF split THEN SplitLane(w, q) + p * w ELSE 2 * q + p
PairSpot(split, i, p) == IF split THEN 4 * (i \div 2) + (i % 2) + 2 * p ELSE 2 * i + p
Final(c) == IF c.unit \in NeonPasses THEN c.unit \in {"neon last", "neon last32"} ELSE c.unit \notin SplitPasses /\ c.e.last

InAt(c, j, q, p) ==
  CASE c.unit \in NeonPasses -> PairSpot(c.e.inS, IF Final(c) THEN c.e.r * q + j ELSE c.e.n * j + q, p)
    [] c.unit \in SplitPasses -> 2 * c.e.w * j + Spot(c.e.inS, c.e.w, q, p)
    [] OTHER -> IF c.e.last THEN 2 * (q * c.e.r + j) + p ELSE c.e.w * j + 2 * q + p
OutAt(c, j, q, p) ==
  CASE c.unit \in NeonPasses -> PairSpot(c.e.outS, c.e.n * j + q, p)
    [] c.unit \in SplitPasses -> 2 * c.e.w * j + Spot(c.e.outS, c.e.w, q, p)
    [] OTHER -> c.e.w * j + 2 * q + p

\* Which outputs are multiplied: the point i = 0 never is.
HasTwiddle(c, j, q) ==
  j > 0 /\ CASE c.unit = "neon batch" -> ~c.e.notw
             [] c.unit \in NeonPasses -> ~Final(c) /\ q > 0
             [] c.unit \in SplitPasses -> ~(c.e.first /\ q = 0)
             [] OTHER -> ~c.e.last /\ ~c.e.notw /\ (c.e.bcast \/ ~(c.e.first /\ q = 0))

\* The group of point q in the float32 table of NEON: its start and its size.
Group32(n, q) ==
  CASE q < n - (n % 4) -> <<q - (q % 4), 4>> [] q >= n - (n % 4) /\ q < n - (n % 2) -> <<n - (n % 4), 2>> [] OTHER -> <<n - 1, 1>>
TwAt(c, j, q, p) ==
  LET e == c.e IN
  CASE c.unit = "neon batch" -> 2 * (j - 1) + p
    [] c.unit = "neon pass" ->
         LET g == IF e.single THEN Group32(e.n, q) ELSE <<q - (q % 2), 2>>
         IN 2 * (e.r - 1) * g[1] + 2 * g[2] * (j - 1) + q - g[1] + g[2] * p
    [] c.unit \in SplitPasses -> (j - 1) * 2 * e.w + Spot(TRUE, e.w, q, p)
    [] e.bcast -> 2 * (j - 1) + p
    [] e.dup -> 4 * (j - 1) * e.g + 4 * e.half + 2 * q + 2 * e.g * p
    [] OTHER -> 2 * (j - 1) * e.g + 4 * e.half + 2 * q + p

Bins(e) == IF e.single THEN 4 * e.quads ELSE 2 * e.pairs
\* arm64's float64 table is split, a pair of bins after another from bin 1.
MirrorTwAt(c, k, p) == IF c.unit = "neon untangle" THEN 2 + PairSpot(TRUE, k - 1, p) ELSE 2 * k + p

\* The lanes the caller provides.
InSize(c) ==
  CASE c.unit \in Passes -> 2 * c.e.r * Points(c)
    [] c.unit \in Mirrors -> 2 * (c.e.m + 1)
    [] OTHER -> IF c.unit \in {"stage"} \/ (c.unit = "cmul avx2" /\ InPlace(c)) THEN 0 ELSE 2 * c.e.n
OutSize(c) == CASE c.unit \in Passes \union Mirrors -> InSize(c) [] OTHER -> 2 * c.e.n
TwSize(c) ==
  LET e == c.e IN
  CASE Final(c) -> 0
    [] c.unit = "neon batch" -> 2 * (e.r - 1)
    [] c.unit = "neon pass" -> 2 * (e.r - 1) * (IF e.single THEN e.n ELSE e.n + (e.n % 2))
    [] c.unit \in SplitPasses -> 2 * (e.r - 1) * e.w
    [] OTHER -> IF e.bcast THEN 2 * (e.r - 1) ELSE (e.r - 1) * (IF e.dup THEN 4 ELSE 2) * e.g
\* The float64 kernels of amd64 read the real part after the last bin they use.
MirrorTwSize(c) == IF c.unit \in {"untangle", "untangle512"} THEN 2 * Bins(c.e) + 3 ELSE 2 * Bins(c.e) + 2
Twiddles(c) ==
  CASE c.unit \in Passes -> TwSize(c)
    [] c.unit \in Mirrors -> MirrorTwSize(c)
    [] c.unit = "stage" -> 2 * (c.e.r - 1) * c.e.span
    [] c.unit = "cmul avx2" -> 2 * c.e.n
    [] OTHER -> 0
Spill(c) ==
  CASE c.unit \in SplitPasses ->
         CASE c.e.r = 8 -> 4 * c.e.w [] c.e.r = 32 -> 2 + 4 * c.e.w + (IF c.e.frame THEN 64 * c.e.w ELSE 0) [] OTHER -> 0
    [] c.unit \in {"pass", "pass32"} ->
         CASE c.e.r \in {12, 16} -> 32 [] c.e.r \in {10, 15, 20} -> 4 * c.e.r [] OTHER -> 0
    [] OTHER -> 0

-----------------------------------------------------------------------------
(* What a call is given, and what it has to produce. *)

Junk == 77
Sample(seed, i) == ((i + 3) * (i + 17 * seed + 5) + 911 * i * (seed + 1)) % Prime
Samples(n, seed) == [i \in 0..n-1 |-> Sample(seed, i)]
Filled(n) == [i \in 0..n-1 |-> Junk]
Dup(c) == c.unit = "pass" /\ c.e.dup   \* the table holds each part twice
Scale(c) == IF c.unit \in Mirrors /\ c.e.inverse THEN IF c.unit \in NeonMirrors THEN 1 ELSE 8 ELSE 0

Given(c) ==
  [in |-> Samples(InSize(c), c.seed),
   out |-> IF InPlace(c) THEN Samples(OutSize(c), c.seed + 2) ELSE Filled(OutSize(c)),
   tw |-> [i \in 0..Twiddles(c) - 1 |-> Sample(c.seed + 1, IF Dup(c) THEN i - (i % 2) ELSE i)],
   sp |-> Filled(Spill(c)),
   h |-> [i \in 0..Scale(c) - 1 |-> Sample(c.seed, 5)]]

Complex(f, i) == <<f[i], f[i + 1]>>
Half(z) == <<Times(z[1], OneHalf), Times(z[2], OneHalf)>>
CSub(x, y) == <<(x[1] - y[1]) % Prime, (x[2] - y[2]) % Prime>>
\* The lanes of value z at point i of an interleaved array.
At(i, z) == {<<2 * i, z[1]>>, <<2 * i + 1, z[2]>>}

\* Output j of the discrete Fourier transform of x[0] .. x[r-1].
Transform(x, s, r, j) ==
  LET sum[n \in 0..r] == IF n = r THEN <<0, 0>> ELSE CAdd(CMul(x[n], Unit(s, j * n, r)), sum[n + 1])
  IN sum[0]

PassDue(c, m) ==
  LET e == c.e
      y(q) == LET x == [j \in 0..e.r - 1 |-> <<m.in[InAt(c, j, q, 0)], m.in[InAt(c, j, q, 1)]>>]
              IN [j \in 0..e.r - 1 |->
                    LET w == IF HasTwiddle(c, j, q) THEN <<m.tw[TwAt(c, j, q, 0)], m.tw[TwAt(c, j, q, 1)]>> ELSE <<1, 0>>
                    IN CMul(Transform(x, e.s, e.r, j), w)]
      ys == [q \in 0..Points(c) - 1 |-> y(q)]
  IN {<<OutAt(c, j, q, p), ys[q][j][p + 1]>> : j \in 0..e.r - 1, q \in 0..Points(c) - 1, p \in {0, 1}}

\* Bins k and m-k.  Forward: the spectrum of a real input from the transform Z
\* of its even and odd halves; inverse: Z, scaled by h.
MirrorDue(c, m) ==
  LET I == <<0, 1>>
      W(k) == <<m.tw[MirrorTwAt(c, k, 0)], m.tw[MirrorTwAt(c, k, 1)]>>
      scale(z) == IF c.e.inverse THEN CMul(z, <<m.h[0], 0>>) ELSE Half(z)
      even(k) == scale(CAdd(Complex(m.in, 2 * k), Conj(Complex(m.in, 2 * (c.e.m - k)))))
      diff(k) == scale(CSub(Complex(m.in, 2 * k), Conj(Complex(m.in, 2 * (c.e.m - k)))))
      odd(k) == IF c.e.inverse THEN CMul(I, CMul(Conj(W(k)), diff(k))) ELSE CMul(W(k), CMul(<<0, -1>>, diff(k)))
  IN UNION {At(k, CAdd(even(k), odd(k))) \union At(c.e.m - k, Conj(CSub(even(k), odd(k)))) : k \in 1..Bins(c.e)}

ProductDue(c, m) ==
  LET a == IF InPlace(c) THEN m.out ELSE m.in
      b == IF c.unit = "cmul avx2" THEN m.tw ELSE m.in
  IN UNION {At(i, CMul(Complex(a, 2 * i), Complex(b, 2 * i))) : i \in 0..c.e.n - 1}

\* Radix-r butterflies of points span apart, the inputs multiplied.
StageDue(c, m) ==
  LET r == c.e.r
      span == c.e.span
      x(i) == [j \in 0..r - 1 |->
                 LET z == Complex(m.out, 2 * (i + j * span))
                 IN IF j = 0 THEN z ELSE CMul(z, Complex(m.tw, 2 * ((j - 1) * span + (i % span))))]
  IN UNION {At(i + j * span, Transform(x(i), c.e.s, r, j)) :
              i \in {b \in 0..c.e.n - 1 : b % (r * span) < span}, j \in 0..r - 1}

\* Which lanes of the output are to have which value.
Due(c) ==
  CASE c.unit \in Passes -> PassDue(c, Given(c))
    [] c.unit \in Mirrors -> MirrorDue(c, Given(c))
    [] c.unit = "stage" -> StageDue(c, Given(c))
    [] OTHER -> ProductDue(c, Given(c))
Expected ==
  [c \in Calls |-> LET due == Due(c) IN [i \in {d[1] : d \in due} |-> (CHOOSE d \in due : d[1] = i)[2]]]

-----------------------------------------------------------------------------
(* The processor. *)

Registers(c) ==
  IF c.unit \in NeonPasses \union NeonMirrors \union {"cmul neon", "cmul vx", "cmul rvv"} THEN 0..31 ELSE 0..15

Streams == {"in", "inb", "out", "outb", "tw", "sp", "h"}
Array(stream) ==
  CASE stream \in {"in", "inb"} -> IF call.unit = "cmul avx2" /\ InPlace(call) THEN "out" ELSE "in"
    [] stream \in {"out", "outb"} -> "out"
    [] OTHER -> stream

Init ==
  /\ call \in Calls
  /\ block = 1 /\ pc = 1
  /\ left = 0 /\ vl = 0
  /\ at = [s \in Streams |-> 0]
  /\ v = [n \in 0..31 |-> <<Junk, Junk, Junk, Junk, Junk, Junk, Junk, Junk>>]
  /\ mem = Given(call)

\* The block b of the program that pc is in.
Now == Programs[call][block]
Returned(b) == b.kind = "ret"
Running(b) == ~Returned(b) /\ (pc > 1 \/ vl > 0 \/ left >= b.need)
StripMined(b) == b.w = 0
Width(b) == IF StripMined(b) THEN vl ELSE b.w
\* An instruction is left, and a strip-mined loop has its lanes.
Executing(b) == Running(b) /\ pc <= Len(b.code) /\ (StripMined(b) => vl > 0)
Place(o) == at[o[1]] + o[2]
InMemory(o) == o[1] \in Streams
Lanes(o, n) == Place(o)..Place(o) + n - 1

Constant(o, i) ==
  CASE o[1] = "cos" -> Cos(o[2], o[3])
    [] o[1] = "sin" -> Sin(o[2], o[3])
    [] o[1] = "turn" -> (IF Real(i) THEN -call.e.s ELSE call.e.s) * Sin(o[2], o[3])
    [] o[1] = "sign" -> IF Real(i) THEN -call.e.s ELSE call.e.s
    [] o[1] = "addsub" -> IF Real(i) THEN -1 ELSE 1
    [] o[1] = "neg" -> -1
    [] o[1] = "half" -> OneHalf
    [] o[1] = "one" -> 1

Operand(o, n) ==
  CASE InMemory(o) -> LET m == mem[Array(o[1])]
                      IN [i \in 1..n |-> LET p == Place(o) + i - 1 IN IF p \in DOMAIN m THEN m[p] ELSE Junk]
    [] o[1] = "v" -> [i \in 1..n |-> IF i <= Len(v[o[2]]) THEN v[o[2]][i] ELSE 0]
    [] OTHER -> [i \in 1..n |-> Constant(o, i)]

Results(i, w) ==
  LET a == [k \in DOMAIN i.s |-> Operand(i.s[k], Reads(i, w, k))]
  IN [k \in 1..Writes(i, w) |-> Lane(i.op, i.x, a, k)]

Write(d, result) ==
  IF InMemory(d)
  THEN /\ mem' = [mem EXCEPT ![Array(d[1])] =
                    [i \in DOMAIN @ |-> IF i \in Lanes(d, Len(result)) THEN result[i - Place(d) + 1] ELSE @[i]]]
       /\ UNCHANGED v
  ELSE v' = [v EXCEPT ![d[2]] = result] /\ UNCHANGED mem

Execute ==
  /\ \E b \in {Now} :
       /\ Executing(b)
       /\ \E result \in {Results(b.code[pc], Width(b))} : Write(b.code[pc].d, result)
  /\ pc' = pc + 1
  /\ UNCHANGED <<call, block, left, vl, at>>

\* VSETVLI: the processor chooses the length of an iteration.
AskLength ==
  /\ \E b \in {Now} : Running(b) /\ StripMined(b) /\ b.kind = "block"
  /\ pc = 1 /\ vl = 0
  /\ LET max == call.e.vlmax IN
     vl' \in CASE left <= max -> {left}
               [] left > max /\ left < 2 * max -> (left + 1) \div 2..max
               [] OTHER -> {max}
  /\ UNCHANGED <<call, block, pc, left, at, v, mem>>

EndBlock ==
  /\ \E b \in {Now} :
       LET units == IF StripMined(b) THEN vl ELSE 1
           step(s) == IF s \in DOMAIN b.step THEN b.step[s] ELSE 0
       IN /\ Running(b)
          /\ pc > Len(b.code)
          /\ IF b.kind = "entry"
             THEN left' = b.work /\ at' = [s \in Streams |-> step(s)]
             ELSE left' = left - units * b.need /\ at' = [s \in Streams |-> at[s] + units * step(s)]
          /\ block' = IF b.loop THEN block ELSE block + 1
  /\ pc' = 1
  /\ vl' = 0
  /\ UNCHANGED <<call, v, mem>>

Skip ==
  /\ \E b \in {Now} : ~Returned(b) /\ ~Running(b)
  /\ block' = block + 1
  /\ UNCHANGED <<call, pc, left, vl, at, v, mem>>

Next == Execute \/ AskLength \/ EndBlock \/ Skip
Spec == Init /\ [][Next]_vars

-----------------------------------------------------------------------------
(* Properties. *)

\* A call of a pointwise product as its callers make it: CMulAVX2 is passed a
\* number of quads and has no remainder.
ProductCall(c) ==
  /\ c.unit \in ProductUnits /\ c.e.n \in Nat /\ c.seed \in Int
  /\ c.unit = "cmul avx2" => c.e.dst \in BOOLEAN /\ c.e.n % 4 = 0
  /\ c.unit = "cmul rvv" => c.e.vlmax \in Nat \ {0}

\* The state has its type, and a kernel leaves the registers its processor
\* lacks alone: no more than sixteen are free for an amd64 kernel's values,
\* scratch and twiddles, whatever its radix (the frames of fft/amd64 spill the
\* rest).
TypeOK ==
  /\ call \in Calls
  /\ block \in Nat
  /\ pc \in Nat
  /\ left \in Nat
  /\ vl \in Nat
  /\ at \in [Streams -> Int]
  /\ \A n \in DOMAIN v : n \notin Registers(call) => v[n] = <<Junk, Junk, Junk, Junk, Junk, Junk, Junk, Junk>>

\* When a kernel returns, every output it was to write holds the value the
\* definition of its transform, of the untangling or of the product gives,
\* to the last element: no value was overwritten in a register or a spill
\* slot before its last use, no lane exchanged, no point multiplied by
\* another's twiddle, none left out by the loops and their remainders.
\* The rest of the output, the input and the table are as they were.
OutputIsDefinition ==
  Returned(Now) =>
    /\ LET due == Expected[call]
       IN mem.out = [i \in DOMAIN mem.out |-> IF i \in DOMAIN due THEN due[i] ELSE Given(call).out[i]]
    /\ mem.in = Given(call).in
    /\ mem.tw = Given(call).tw

\* A kernel reads only inside its arrays and spill slots, and writes only the
\* outputs of this call and its slots: bins that another kernel has still to
\* read, or has written already, are not touched.
AccessesInside ==
  \A b \in {Now} :
    Executing(b) =>
      LET i == b.code[pc] IN
      /\ \A k \in DOMAIN i.s :
           InMemory(i.s[k]) => Lanes(i.s[k], Reads(i, Width(b), k)) \subseteq DOMAIN mem[Array(i.s[k][1])]
      /\ InMemory(i.d) =>
           Lanes(i.d, Writes(i, Width(b))) \subseteq
             IF i.d[1] = "sp" THEN DOMAIN mem.sp ELSE DOMAIN Expected[call]
=============================================================================
