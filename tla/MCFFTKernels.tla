---------------------------- MODULE MCFFTKernels ----------------------------
(***************************************************************************)
(* Every kernel body of fft/ once or more: each radix with and without a   *)
(* twiddle, a lone point and a fused product, both directions, every       *)
(* register width and layout, and work that leaves every remainder.        *)
(***************************************************************************)
EXTENDS FFTKernels

MCPrime == 41761
MCOmega == 37915   \* of order 1440

Run(unit, e) == [unit |-> unit, e |-> e, seed |-> 1]

\* amd64: pairs of a first group, of a second half, a fused lone point, final
\* passes at every width.
First(r) ==
  [r |-> r, w |-> 4, last |-> FALSE, g |-> 4, half |-> 0, first |-> TRUE, notw |-> FALSE, bcast |-> FALSE,
   dup |-> r = 16, fma |-> FALSE, single |-> FALSE, s |-> -1]
Final2(r) == [First(r) EXCEPT !.last = TRUE, !.first = FALSE]
PassBodies(r) ==
  LET e == First(r)
  IN {e, [e EXCEPT !.half = 1, !.first = FALSE, !.s = 1], [e EXCEPT !.g = 1, !.w = 2, !.fma = TRUE, !.s = 1],
      Final2(r), [Final2(r) EXCEPT !.w = 2, !.s = 1, !.fma = TRUE]}
Wide(r) ==
  {[First(r) EXCEPT !.w = 8], [First(r) EXCEPT !.w = 8, !.fma = TRUE, !.first = FALSE, !.s = 1], [Final2(r) EXCEPT !.w = 8]}
Batched(r) ==
  {[First(r) EXCEPT !.bcast = TRUE], [First(r) EXCEPT !.bcast = TRUE, !.fma = TRUE, !.w = 2, !.s = 1],
   [First(r) EXCEPT !.notw = TRUE]}
Float32(r) ==
  LET e == [First(r) EXCEPT !.w = 8, !.single = TRUE]
  IN {e, [e EXCEPT !.w = 2, !.first = FALSE, !.s = 1, !.g = 1], [e EXCEPT !.w = 4, !.bcast = TRUE],
      [e EXCEPT !.last = TRUE, !.first = FALSE, !.s = 1], [e EXCEPT !.last = TRUE, !.first = FALSE, !.w = 4]}
Last32s == {[Final2(32) EXCEPT !.fma = TRUE, !.w = w] : w \in {2, 4, 8}}

\* Split: in from interleaved, out to it, fused, in the frame.
SplitIn(r) == [r |-> r, w |-> 4, inS |-> FALSE, outS |-> TRUE, first |-> TRUE, fma |-> r = 32, s |-> -1, frame |-> FALSE]
SplitOut(r) == [SplitIn(r) EXCEPT !.inS = TRUE, !.outS = FALSE, !.s = 1, !.first = FALSE]
Fused(e) == [e EXCEPT !.fma = TRUE]
InFrame(e) == [e EXCEPT !.frame = e.r = 32, !.w = 8]

\* arm64: every group, and a last block alone.
Neon64(r, n, inverse) ==
  [r |-> r, n |-> n, single |-> FALSE, inverse |-> inverse, s |-> IF inverse THEN 1 ELSE -1,
   inS |-> FALSE, outS |-> FALSE, notw |-> FALSE]
Neon32(r, n, inverse) == [Neon64(r, n, inverse) EXCEPT !.single = TRUE]
NeonCalls(r) ==
  {Run("neon pass", Neon64(r, 5, FALSE)), Run("neon pass", Neon64(r, 2, TRUE)), Run("neon pass", Neon32(r, 7, FALSE)),
   Run("neon pass", Neon32(r, 3, TRUE)), Run("neon batch", Neon64(r, 3, TRUE)), Run("neon batch", Neon32(r, 7, FALSE)),
   Run("neon batch", [Neon64(r, 1, FALSE) EXCEPT !.notw = TRUE]), Run("neon last", Neon64(r, 3, FALSE)),
   Run("neon last", Neon64(r, 1, TRUE)), Run("neon last32", Neon32(r, 8, TRUE)), Run("neon last32", Neon32(r, 4, FALSE)),
   Run("neon pass", [Neon64(r, 4, FALSE) EXCEPT !.outS = TRUE]),
   Run("neon pass", [Neon64(r, 4, TRUE) EXCEPT !.inS = TRUE, !.outS = TRUE])}
    \union IF r \in {2, 4, 8} THEN {Run("neon last", [Neon64(r, 5, inverse) EXCEPT !.inS = TRUE]) : inverse \in BOOLEAN} ELSE {}

\* The mirrors: no work to four pairs, in as many bins as there are or more.
MirrorOf(inverse, pairs, quads, single, more) ==
  [inverse |-> inverse, m |-> 2 * (IF single THEN 4 * quads ELSE 2 * pairs) + 1 + more, pairs |-> pairs, quads |-> quads,
   single |-> single, s |-> -1]
MirrorCalls ==
  {Run(unit, MirrorOf(inverse, pairs, 0, FALSE, pairs % 2)) :
     unit \in {"untangle", "neon untangle"}, inverse \in BOOLEAN, pairs \in {0, 2, 4}}
    \union {Run("untangle512", MirrorOf(inverse, work[1], work[2], FALSE, 1)) :
              inverse \in BOOLEAN, work \in {<<1, 0>>, <<9, 4>>, <<6, 3>>, <<8, 2>>}}
    \union {Run(unit, MirrorOf(inverse, 0, quads, TRUE, quads - 1)) :
              unit \in {"untangle32", "neon untangle32"}, inverse \in BOOLEAN, quads \in 1..2}

\* The products: an empty one, odd lengths; stages of every span.
ProductOf(n, dst) == [n |-> n, dst |-> dst, vlmax |-> 3, s |-> -1]
ProductCalls ==
  {Run(unit, ProductOf(n, FALSE)) : unit \in {"cmul sse2", "cmul neon", "cmul vx", "cmul rvv"}, n \in {0, 1, 7}}
    \union {Run("cmul avx2", ProductOf(n, dst)) : n \in {0, 8}, dst \in BOOLEAN}
    \union {Run("stage", [r |-> r, n |-> 8 * (r \div 2), span |-> span, s |-> s]) :
              r \in {2, 4}, span \in {1, 2}, s \in {1, -1}}

MCCalls ==
  {Run("pass", e) : e \in UNION {PassBodies(r) : r \in {2, 3, 4, 5, 8, 9, 10, 12, 15, 16, 20}}
                            \union UNION {Wide(r) : r \in {2, 4, 8}} \union UNION {Batched(r) : r \in {2, 3, 4, 5, 8}} \union Last32s}
    \union {Run("pass32", e) : e \in UNION {Float32(r) : r \in {2, 3, 4, 5, 8}}}
    \union {Run("split", e) : e \in UNION {{SplitIn(r), SplitOut(r), Fused(SplitIn(r))} : r \in {3, 4, 5, 8, 32}}}
    \union {Run("split512", InFrame(e)) : e \in UNION {{SplitIn(r), Fused(SplitOut(r))} : r \in {4, 8, 32}}}
    \union UNION {NeonCalls(r) : r \in {2, 3, 4, 5, 8}} \union MirrorCalls \union ProductCalls

\* The theorems about products are about calls that are made: the run's
\* products are as their callers make them, and there are some of each.
ASSUME ProductAssumption ==
  /\ \A c \in MCCalls : c.unit \in ProductUnits => ProductCall(c)
  /\ ProductUnits \subseteq {c.unit : c \in MCCalls}
=============================================================================
