------------------------------ MODULE MCFFTPass -------------------------------
(* Every pass kernel at every radix it is emitted for, on few points: every    *)
(* remainder of the groups, one group and two, one block and two.              *)
EXTENDS FFTPass

MCPlain(kernel, radices, idos, l1s) ==
  {[kernel |-> kernel, r |-> q, ido |-> n, l1 |-> l, sin |-> 0, sout |-> 0, bin |-> 0,
    bout |-> 0, dtw |-> 0, bf |-> FALSE, br |-> FALSE, w |-> 0, i0 |-> 0, whole |-> {}] :
     q \in radices, n \in idos, l \in l1s}

MCPasses ==
  MCPlain("Pass", {2, 3, 4, 5, 8}, 2..9, {1, 2})
    \cup MCPlain("Pass", {9, 10, 12, 15, 16, 20}, 2..6, {2})
    \cup MCPlain("Pass512", {2, 4, 8}, 4..9, {1, 2})
    \cup MCPlain("Pass32", {2, 3, 4, 5, 8}, 2..9, {2})
    \cup MCPlain("Split", {3, 4, 5, 8}, {4, 8}, {1, 2})
    \cup MCPlain("Split512", {4, 8}, {8, 16}, {2})
    \cup MCPlain("SplitR32", {32}, {4, 8}, {2})
    \cup MCPlain("SplitR32Wide", {32}, {8}, {2})
    \cup MCPlain("PassNeon", {2, 3, 4, 5, 8}, 2..6, {2})
    \cup MCPlain("PassSplitNeon", {2, 3, 4, 5, 8}, {2, 4, 6}, {2})
    \cup MCPlain("Pass32Neon", {2, 3, 4, 5, 8}, 2..9, {2})

MCLasts ==
  MCPlain("Last", {2, 3, 4, 5, 8, 9, 10, 12, 15, 16, 20}, {1}, 1..5)
    \cup MCPlain("Last512", {2, 4, 8}, {1}, 1..9)
    \cup MCPlain("Last32", {2, 3, 4, 5, 8}, {1}, 1..9)
    \cup MCPlain("LastR32", {32}, {1}, 1..3)
    \cup MCPlain("LastR32Wide", {32}, {1}, {1, 3, 6})
    \cup MCPlain("LastNeon", {2, 3, 4, 5, 8}, {1}, 1..5)
    \cup MCPlain("LastSplitNeon", {2, 4, 8}, {1}, 1..5)
    \cup MCPlain("Last32Neon", {2, 3, 4, 5, 8}, {1}, {4, 8})

\* Strided: pieces of a pass of two blocks, and blocks through a buffer, each
\* with twiddles of its own.
MCPieces ==
  {[c EXCEPT !.ido = p[2], !.sin = c.ido, !.sout = c.l1 * c.ido, !.bin = c.r * c.ido,
             !.bout = c.ido, !.bf = p[1] = 0, !.br = p[1] = 0, !.i0 = p[1],
             !.whole = {[c EXCEPT !.kernel = "Pass"]}] :
     c \in MCPlain("Strided", {4, 8}, {8, 9, 12}, {2})
             \cup MCPlain("Strided512", {4, 8}, {8, 9, 12}, {2}),
     p \in {<<0, 4>>, <<0, 8>>, <<4, 4>>}}   \* the first point, and how many

MCBuffered ==
  {[c EXCEPT !.sin = c.ido + 3, !.sout = c.ido, !.bin = 1, !.bout = c.r * c.ido,
             !.dtw = (c.r - 1) * c.ido, !.bf = TRUE, !.br = FALSE] :
     c \in MCPlain("Strided", {4, 8}, {4, 8}, {3})
             \cup MCPlain("Strided512", {4, 8}, {4, 8}, {3})}

\* LastRun: runs of ido points, and the one run that is Last.
MCRuns ==
  {[c EXCEPT !.sout = c.l1 * (c.ido + 1), !.bout = c.ido + 1] :
     c \in MCPlain("LastRun", {2, 4, 8}, {2, 4, 6}, {1, 2, 3})
             \cup MCPlain("LastRun512", {2, 4, 8}, {4, 8}, {1, 2, 3})}
    \cup {[c EXCEPT !.sout = c.ido, !.bout = c.ido,
                    !.whole = {[c EXCEPT !.kernel = "Last", !.ido = 1, !.l1 = c.ido]}] :
            c \in MCPlain("LastRun", {2, 4, 8}, {4}, {1})
                    \cup MCPlain("LastRun512", {2, 4, 8}, {8}, {1})}

\* Batch: rows of w lines, w + 1 apart on input or on output.
MCBatches ==
  {[c EXCEPT !.w = w, !.bin = w + a, !.bout = w + 1 - a, !.sin = c.ido * (w + a),
             !.sout = c.l1 * c.ido * (w + 1 - a)] :
     c \in MCPlain("Batch", {2, 3, 4, 5, 8}, {1, 3}, {2})
             \cup MCPlain("BatchNeon", {2, 3, 4, 5, 8}, {1, 3}, {2})
             \cup MCPlain("Batch32", {2, 3, 4, 5, 8}, {1, 3}, {2}),
     w \in {1, 2, 3, 7}, a \in {0, 1}}

MCCalls == MCPasses \cup MCLasts \cup MCPieces \cup MCBuffered \cup MCRuns \cup MCBatches
=============================================================================
