---------------------------- MODULE FFTPass_proofs ----------------------------
(***************************************************************************)
(* Every pass kernel of fft/amd64 and fft/arm64, at every radix it is      *)
(* emitted for and for every call its comments allow, writes a Stockham    *)
(* pass: nothing that is not due at any time, and all that is due when it  *)
(* returns.                                                                *)
(*                                                                         *)
(* The kernels are one loop with different numbers in it.  Shaped says     *)
(* what the numbers have in common (a base and the strides past it reach   *)
(* every stream; the next block lies a radix of strides on), one lemma a   *)
(* kernel.  The invariant says, of every line, at which point of which     *)
(* block the kernel stands, and that the streams, the twiddle cursor and   *)
(* what is written all stand there.  BodyStep is its heart: a body whose   *)
(* cursor is right writes the next points.  Each action has a lemma of     *)
(* its own.  The writes of all blocks are the Stockham formula's           *)
(* (PassOfBlocks).                                                         *)
(***************************************************************************)
EXTENDS FFTPass, TLAPS

-----------------------------------------------------------------------------
-----------------------------------------------------------------------------
(*****************************************************************************)
(* The shapes of the kernels.                                                *)
(*****************************************************************************)
\* What the proofs need of a kernel's numbers, at radix q.
FitsWith(loop, group, width, tail, span, bases, from, skip, q) ==
  /\ loop \in {"pass", "strided", "last", "run", "batch"}
  /\ \/ group = 2 /\ width = 2
     \/ group = 4 /\ width \in {2, 4}
     \/ group = 8 /\ width = 8 /\ ~tail
  /\ span \in Nat \ {0} /\ bases \in Nat \ {0} /\ q <= span * bases
  /\ from \in 0..(bases - 1) /\ skip \in Nat
\* How a block leads to the next.
ChainsWith(loop, short, tail, neon, pairs, width, group, span, from, skip, q) ==
  /\ loop = "pass" /\ ~neon => from * span + skip + 1 = q
  /\ loop = "pass" /\ neon => skip = q
  /\ loop = "pass" /\ short => group = 4 /\ tail
  /\ loop = "batch" => from = 0 /\ skip + 1 = q /\ width \in {2, 4} /\ (neon => width = 2)
  /\ loop \in {"strided", "run"} => ~tail /\ ~neon
  /\ pairs => loop = "last" /\ q \in {2, 4, 8}
Shaped(k, q) ==
  /\ FitsWith(k.loop, k.group, k.width, k.tail, k.span, k.bases, k.from, k.skip, q)
  /\ ChainsWith(k.loop, k.short, k.tail, k.neon, k.pairs, k.width, k.group, k.span,
                k.from, k.skip, q)
  /\ {k.short, k.tail, k.neon, k.dup, k.pairs} \subseteq BOOLEAN

\* A kernel's numbers and its kinds, named one by one.
Numbers(k, group, width, span, bases, from, skip) ==
  /\ k.group = group /\ k.width = width /\ k.span = span /\ k.bases = bases
  /\ k.from = from /\ k.skip = skip
Kinds(k, loop, short, tail, neon, dup, pairs) ==
  /\ k.loop = loop /\ (k.short <=> short) /\ (k.tail <=> tail) /\ (k.neon <=> neon)
  /\ (k.dup <=> dup) /\ (k.pairs <=> pairs)
  /\ {k.short, k.tail, k.neon, k.dup, k.pairs} \subseteq BOOLEAN

\* skNextBlock is what its name says at every radix: one stride short of the
\* radix, for the stream that stands there already.
LEMMA Skips == \A q \in {2, 3, 4, 5, 8} : skNextBlock(q) = q - 1
BY DEF skNextBlock

\* A kernel with these numbers has a shape the proofs can use.
LEMMA Shapes ==
  ASSUME NEW k, NEW q \in {2, 3, 4, 5, 8, 9, 10, 12, 15, 16, 20, 32},
         NEW group, NEW width, NEW span, NEW bases, NEW from, NEW skip,
         Numbers(k, group, width, span, bases, from, skip),
         NEW loop, NEW short \in BOOLEAN, NEW tail \in BOOLEAN, NEW neon \in BOOLEAN,
         NEW dup \in BOOLEAN, NEW pairs \in BOOLEAN,
         Kinds(k, loop, short, tail, neon, dup, pairs),
         FitsWith(loop, group, width, tail, span, bases, from, skip, q),
         ChainsWith(loop, short, tail, neon, pairs, width, group, span, from, skip, q)
  PROVE  Shaped(k, q)
BY DEF Numbers, Kinds, FitsWith, ChainsWith, Shaped

\* pass.
LEMMA PlainShape ==
  ASSUME NEW q \in {2, 3, 4, 5, 8} PROVE Shaped(pass(q), q)
<1>1. Numbers(pass(q), 4, 2, 4, 2, 0, q - 1)
  BY Skips DEF pass, Numbers
<1>2. Kinds(pass(q), "pass", TRUE, TRUE, FALSE, FALSE, FALSE)
  BY DEF pass, Kinds
<1>3. FitsWith("pass", 4, 2, TRUE, 4, 2, 0, q - 1, q)
  BY DEF FitsWith
<1>4. ChainsWith("pass", TRUE, TRUE, FALSE, FALSE, 2, 4, 4, 0, q - 1, q)
  BY DEF ChainsWith
<1> QED BY <1>1, <1>2, <1>3, <1>4, Shapes

\* Pass9.
LEMMA Pass9Shape ==
  Shaped(pass9, 9)
<1>1. Numbers(pass9, 4, 2, 4, 3, 0, 8)
  BY DEF pass, pass9, Numbers
<1>2. Kinds(pass9, "pass", TRUE, TRUE, FALSE, FALSE, FALSE)
  BY DEF pass, pass9, Kinds
<1>3. FitsWith("pass", 4, 2, TRUE, 4, 3, 0, 8, 9)
  BY DEF FitsWith
<1>4. ChainsWith("pass", TRUE, TRUE, FALSE, FALSE, 2, 4, 4, 0, 8, 9)
  BY DEF ChainsWith
<1> QED BY <1>1, <1>2, <1>3, <1>4, Shapes

\* Pass12.
LEMMA Pass12Shape ==
  Shaped(pass12, 12)
<1>1. Numbers(pass12, 4, 2, 4, 3, 0, 11)
  BY DEF pass, pass12, Numbers
<1>2. Kinds(pass12, "pass", TRUE, TRUE, FALSE, FALSE, FALSE)
  BY DEF pass, pass12, Kinds
<1>3. FitsWith("pass", 4, 2, TRUE, 4, 3, 0, 11, 12)
  BY DEF FitsWith
<1>4. ChainsWith("pass", TRUE, TRUE, FALSE, FALSE, 2, 4, 4, 0, 11, 12)
  BY DEF ChainsWith
<1> QED BY <1>1, <1>2, <1>3, <1>4, Shapes

\* Pass16.
LEMMA Pass16Shape ==
  Shaped(pass16, 16)
<1>1. Numbers(pass16, 4, 2, 4, 4, 0, 15)
  BY DEF pass, pass16, Numbers
<1>2. Kinds(pass16, "pass", TRUE, TRUE, FALSE, TRUE, FALSE)
  BY DEF pass, pass16, Kinds
<1>3. FitsWith("pass", 4, 2, TRUE, 4, 4, 0, 15, 16)
  BY DEF FitsWith
<1>4. ChainsWith("pass", TRUE, TRUE, FALSE, FALSE, 2, 4, 4, 0, 15, 16)
  BY DEF ChainsWith
<1> QED BY <1>1, <1>2, <1>3, <1>4, Shapes

\* PassPFA.
LEMMA PassPFAShape ==
  ASSUME NEW q \in {10, 15, 20} PROVE Shaped(passPFA(q \div 5), q)
<1>1. Numbers(passPFA(q \div 5), 4, 2, 5, q \div 5, (q \div 5) - 1, 4)
  BY DEF pass, passPFA, Numbers
<1>2. Kinds(passPFA(q \div 5), "pass", TRUE, TRUE, FALSE, FALSE, FALSE)
  BY DEF pass, passPFA, Kinds
<1>3. FitsWith("pass", 4, 2, TRUE, 5, q \div 5, (q \div 5) - 1, 4, q)
  BY DEF FitsWith
<1>4. ChainsWith("pass", TRUE, TRUE, FALSE, FALSE, 2, 4, 5, (q \div 5) - 1, 4, q)
  BY DEF ChainsWith
<1> QED BY <1>1, <1>2, <1>3, <1>4, Shapes

\* Pass512.
LEMMA Pass512Shape ==
  ASSUME NEW q \in {2, 4, 8} PROVE Shaped(Pass512(q), q)
<1>1. Numbers(Pass512(q), 4, 4, 4, 2, 0, q - 1)
  BY Skips DEF pass, Pass512, Numbers
<1>2. Kinds(Pass512(q), "pass", FALSE, TRUE, FALSE, FALSE, FALSE)
  BY DEF pass, Pass512, Kinds
<1>3. FitsWith("pass", 4, 4, TRUE, 4, 2, 0, q - 1, q)
  BY DEF FitsWith
<1>4. ChainsWith("pass", FALSE, TRUE, FALSE, FALSE, 4, 4, 4, 0, q - 1, q)
  BY DEF ChainsWith
<1> QED BY <1>1, <1>2, <1>3, <1>4, Shapes

\* Pass32.
LEMMA Pass32Shape ==
  ASSUME NEW q \in {2, 3, 4, 5, 8} PROVE Shaped(Pass32(q), q)
<1>1. Numbers(Pass32(q), 4, 4, 4, 2, 0, q - 1)
  BY Skips DEF pass, Pass32, Numbers
<1>2. Kinds(Pass32(q), "pass", TRUE, TRUE, FALSE, FALSE, FALSE)
  BY DEF pass, Pass32, Kinds
<1>3. FitsWith("pass", 4, 4, TRUE, 4, 2, 0, q - 1, q)
  BY DEF FitsWith
<1>4. ChainsWith("pass", TRUE, TRUE, FALSE, FALSE, 4, 4, 4, 0, q - 1, q)
  BY DEF ChainsWith
<1> QED BY <1>1, <1>2, <1>3, <1>4, Shapes

\* Split.
LEMMA SplitShape ==
  ASSUME NEW q \in {3, 4, 5, 8} PROVE Shaped(Split(q), q)
<1>1. Numbers(Split(q), 4, 4, 4, (IF q > 4 THEN 2 ELSE 1), 0, q - 1)
  BY Skips DEF pass, Split, Numbers
<1>2. Kinds(Split(q), "pass", FALSE, FALSE, FALSE, FALSE, FALSE)
  BY DEF pass, Split, Kinds
<1>3. FitsWith("pass", 4, 4, FALSE, 4, (IF q > 4 THEN 2 ELSE 1), 0, q - 1, q)
  BY DEF FitsWith
<1>4. ChainsWith("pass", FALSE, FALSE, FALSE, FALSE, 4, 4, 4, 0, q - 1, q)
  BY DEF ChainsWith
<1> QED BY <1>1, <1>2, <1>3, <1>4, Shapes

\* Split512.
LEMMA Split512Shape ==
  ASSUME NEW q \in {4, 8} PROVE Shaped(Split512(q), q)
<1>1. Numbers(Split512(q), 8, 8, 4, (IF q > 4 THEN 2 ELSE 1), 0, q - 1)
  BY Skips DEF pass, Split, Split512, Numbers
<1>2. Kinds(Split512(q), "pass", FALSE, FALSE, FALSE, FALSE, FALSE)
  BY DEF pass, Split, Split512, Kinds
<1>3. FitsWith("pass", 8, 8, FALSE, 4, (IF q > 4 THEN 2 ELSE 1), 0, q - 1, q)
  BY DEF FitsWith
<1>4. ChainsWith("pass", FALSE, FALSE, FALSE, FALSE, 8, 8, 4, 0, q - 1, q)
  BY DEF ChainsWith
<1> QED BY <1>1, <1>2, <1>3, <1>4, Shapes

\* SplitR32.
LEMMA SplitR32Shape ==
  Shaped(splitR32(FALSE), 32)
<1>1. Numbers(splitR32(FALSE), 4, 4, 32, 1, 0, 31)
  BY DEF pass, Split, splitR32, Numbers
<1>2. Kinds(splitR32(FALSE), "pass", FALSE, FALSE, FALSE, FALSE, FALSE)
  BY DEF pass, Split, splitR32, Kinds
<1>3. FitsWith("pass", 4, 4, FALSE, 32, 1, 0, 31, 32)
  BY DEF FitsWith
<1>4. ChainsWith("pass", FALSE, FALSE, FALSE, FALSE, 4, 4, 32, 0, 31, 32)
  BY DEF ChainsWith
<1> QED BY <1>1, <1>2, <1>3, <1>4, Shapes

\* SplitR32Wide.
LEMMA SplitR32WideShape ==
  Shaped(splitR32(TRUE), 32)
<1>1. Numbers(splitR32(TRUE), 8, 8, 32, 1, 0, 31)
  BY DEF pass, Split, splitR32, Numbers
<1>2. Kinds(splitR32(TRUE), "pass", FALSE, FALSE, FALSE, FALSE, FALSE)
  BY DEF pass, Split, splitR32, Kinds
<1>3. FitsWith("pass", 8, 8, FALSE, 32, 1, 0, 31, 32)
  BY DEF FitsWith
<1>4. ChainsWith("pass", FALSE, FALSE, FALSE, FALSE, 8, 8, 32, 0, 31, 32)
  BY DEF ChainsWith
<1> QED BY <1>1, <1>2, <1>3, <1>4, Shapes

\* Strided.
LEMMA StridedShape ==
  ASSUME NEW q \in {4, 8} PROVE Shaped(strided(q, FALSE), q)
<1>1. Numbers(strided(q, FALSE), 4, 2, 4, 2, 0, q - 1)
  BY Skips DEF pass, strided, Numbers
<1>2. Kinds(strided(q, FALSE), "strided", FALSE, FALSE, FALSE, FALSE, FALSE)
  BY DEF pass, strided, Kinds
<1>3. FitsWith("strided", 4, 2, FALSE, 4, 2, 0, q - 1, q)
  BY DEF FitsWith
<1>4. ChainsWith("strided", FALSE, FALSE, FALSE, FALSE, 2, 4, 4, 0, q - 1, q)
  BY DEF ChainsWith
<1> QED BY <1>1, <1>2, <1>3, <1>4, Shapes

\* Strided512.
LEMMA Strided512Shape ==
  ASSUME NEW q \in {4, 8} PROVE Shaped(strided(q, TRUE), q)
<1>1. Numbers(strided(q, TRUE), 4, 4, 4, 2, 0, q - 1)
  BY Skips DEF pass, strided, Numbers
<1>2. Kinds(strided(q, TRUE), "strided", FALSE, FALSE, FALSE, FALSE, FALSE)
  BY DEF pass, strided, Kinds
<1>3. FitsWith("strided", 4, 4, FALSE, 4, 2, 0, q - 1, q)
  BY DEF FitsWith
<1>4. ChainsWith("strided", FALSE, FALSE, FALSE, FALSE, 4, 4, 4, 0, q - 1, q)
  BY DEF ChainsWith
<1> QED BY <1>1, <1>2, <1>3, <1>4, Shapes

\* LastPlain.
LEMMA LastPlainShape ==
  ASSUME NEW q \in {2, 3, 4, 5, 8} PROVE Shaped(last, q)
<1>1. Numbers(last, 2, 2, 4, 2, 0, 1)
  BY DEF pass, last, skNextBlock, Numbers
<1>2. Kinds(last, "last", TRUE, TRUE, FALSE, FALSE, FALSE)
  BY DEF pass, last, skNextBlock, Kinds
<1>3. FitsWith("last", 2, 2, TRUE, 4, 2, 0, 1, q)
  BY DEF FitsWith
<1>4. ChainsWith("last", TRUE, TRUE, FALSE, FALSE, 2, 2, 4, 0, 1, q)
  BY DEF ChainsWith
<1> QED BY <1>1, <1>2, <1>3, <1>4, Shapes

\* Last9.
LEMMA Last9Shape ==
  Shaped(last9, 9)
<1>1. Numbers(last9, 2, 2, 4, 3, 0, 1)
  BY DEF pass, last, last9, skNextBlock, Numbers
<1>2. Kinds(last9, "last", TRUE, TRUE, FALSE, FALSE, FALSE)
  BY DEF pass, last, last9, skNextBlock, Kinds
<1>3. FitsWith("last", 2, 2, TRUE, 4, 3, 0, 1, 9)
  BY DEF FitsWith
<1>4. ChainsWith("last", TRUE, TRUE, FALSE, FALSE, 2, 2, 4, 0, 1, 9)
  BY DEF ChainsWith
<1> QED BY <1>1, <1>2, <1>3, <1>4, Shapes

\* Last12.
LEMMA Last12Shape ==
  Shaped(last12, 12)
<1>1. Numbers(last12, 2, 2, 4, 3, 0, 1)
  BY DEF pass, last, last12, skNextBlock, Numbers
<1>2. Kinds(last12, "last", TRUE, TRUE, FALSE, FALSE, FALSE)
  BY DEF pass, last, last12, skNextBlock, Kinds
<1>3. FitsWith("last", 2, 2, TRUE, 4, 3, 0, 1, 12)
  BY DEF FitsWith
<1>4. ChainsWith("last", TRUE, TRUE, FALSE, FALSE, 2, 2, 4, 0, 1, 12)
  BY DEF ChainsWith
<1> QED BY <1>1, <1>2, <1>3, <1>4, Shapes

\* Last16.
LEMMA Last16Shape ==
  Shaped(last16, 16)
<1>1. Numbers(last16, 2, 2, 4, 4, 0, 1)
  BY DEF pass, last, last16, skNextBlock, Numbers
<1>2. Kinds(last16, "last", TRUE, TRUE, FALSE, FALSE, FALSE)
  BY DEF pass, last, last16, skNextBlock, Kinds
<1>3. FitsWith("last", 2, 2, TRUE, 4, 4, 0, 1, 16)
  BY DEF FitsWith
<1>4. ChainsWith("last", TRUE, TRUE, FALSE, FALSE, 2, 2, 4, 0, 1, 16)
  BY DEF ChainsWith
<1> QED BY <1>1, <1>2, <1>3, <1>4, Shapes

\* LastPFA.
LEMMA LastPFAShape ==
  ASSUME NEW q \in {10, 15, 20} PROVE Shaped(lastPFA(q \div 5), q)
<1>1. Numbers(lastPFA(q \div 5), 2, 2, 5, q \div 5, 0, 1)
  BY DEF pass, last, lastPFA, skNextBlock, Numbers
<1>2. Kinds(lastPFA(q \div 5), "last", TRUE, TRUE, FALSE, FALSE, FALSE)
  BY DEF pass, last, lastPFA, skNextBlock, Kinds
<1>3. FitsWith("last", 2, 2, TRUE, 5, q \div 5, 0, 1, q)
  BY DEF FitsWith
<1>4. ChainsWith("last", TRUE, TRUE, FALSE, FALSE, 2, 2, 5, 0, 1, q)
  BY DEF ChainsWith
<1> QED BY <1>1, <1>2, <1>3, <1>4, Shapes

\* Last512.
LEMMA Last512Shape ==
  ASSUME NEW q \in {2, 4, 8} PROVE Shaped(Last512, q)
<1>1. Numbers(Last512, 4, 4, 4, 2, 0, 1)
  BY DEF pass, last, Last512, skNextBlock, Numbers
<1>2. Kinds(Last512, "last", TRUE, TRUE, FALSE, FALSE, FALSE)
  BY DEF pass, last, Last512, skNextBlock, Kinds
<1>3. FitsWith("last", 4, 4, TRUE, 4, 2, 0, 1, q)
  BY DEF FitsWith
<1>4. ChainsWith("last", TRUE, TRUE, FALSE, FALSE, 4, 4, 4, 0, 1, q)
  BY DEF ChainsWith
<1> QED BY <1>1, <1>2, <1>3, <1>4, Shapes

\* Last32.
LEMMA Last32Shape ==
  ASSUME NEW q \in {2, 3, 4, 5, 8} PROVE Shaped(Last32, q)
<1>1. Numbers(Last32, 4, 4, 4, 2, 0, 1)
  BY DEF pass, last, Last32, skNextBlock, Numbers
<1>2. Kinds(Last32, "last", TRUE, TRUE, FALSE, FALSE, FALSE)
  BY DEF pass, last, Last32, skNextBlock, Kinds
<1>3. FitsWith("last", 4, 4, TRUE, 4, 2, 0, 1, q)
  BY DEF FitsWith
<1>4. ChainsWith("last", TRUE, TRUE, FALSE, FALSE, 4, 4, 4, 0, 1, q)
  BY DEF ChainsWith
<1> QED BY <1>1, <1>2, <1>3, <1>4, Shapes

\* LastR32.
LEMMA LastR32Shape ==
  Shaped(LastR32(FALSE), 32)
<1>1. Numbers(LastR32(FALSE), 2, 2, 32, 1, 0, 1)
  BY DEF pass, last, LastR32, skNextBlock, Numbers
<1>2. Kinds(LastR32(FALSE), "last", TRUE, TRUE, FALSE, FALSE, FALSE)
  BY DEF pass, last, LastR32, skNextBlock, Kinds
<1>3. FitsWith("last", 2, 2, TRUE, 32, 1, 0, 1, 32)
  BY DEF FitsWith
<1>4. ChainsWith("last", TRUE, TRUE, FALSE, FALSE, 2, 2, 32, 0, 1, 32)
  BY DEF ChainsWith
<1> QED BY <1>1, <1>2, <1>3, <1>4, Shapes

\* LastR32Wide.
LEMMA LastR32WideShape ==
  Shaped(LastR32(TRUE), 32)
<1>1. Numbers(LastR32(TRUE), 4, 4, 32, 1, 0, 1)
  BY DEF pass, last, Last512, LastR32, skNextBlock, Numbers
<1>2. Kinds(LastR32(TRUE), "last", TRUE, TRUE, FALSE, FALSE, FALSE)
  BY DEF pass, last, Last512, LastR32, skNextBlock, Kinds
<1>3. FitsWith("last", 4, 4, TRUE, 32, 1, 0, 1, 32)
  BY DEF FitsWith
<1>4. ChainsWith("last", TRUE, TRUE, FALSE, FALSE, 4, 4, 32, 0, 1, 32)
  BY DEF ChainsWith
<1> QED BY <1>1, <1>2, <1>3, <1>4, Shapes

\* LastRun.
LEMMA LastRunShape ==
  ASSUME NEW q \in {2, 4, 8} PROVE Shaped(lastRun(FALSE), q)
<1>1. Numbers(lastRun(FALSE), 2, 2, 4, 2, 0, 1)
  BY DEF pass, last, lastRun, skNextBlock, Numbers
<1>2. Kinds(lastRun(FALSE), "run", TRUE, FALSE, FALSE, FALSE, FALSE)
  BY DEF pass, last, lastRun, skNextBlock, Kinds
<1>3. FitsWith("run", 2, 2, FALSE, 4, 2, 0, 1, q)
  BY DEF FitsWith
<1>4. ChainsWith("run", TRUE, FALSE, FALSE, FALSE, 2, 2, 4, 0, 1, q)
  BY DEF ChainsWith
<1> QED BY <1>1, <1>2, <1>3, <1>4, Shapes

\* LastRun512.
LEMMA LastRun512Shape ==
  ASSUME NEW q \in {2, 4, 8} PROVE Shaped(lastRun(TRUE), q)
<1>1. Numbers(lastRun(TRUE), 4, 4, 4, 2, 0, 1)
  BY DEF pass, last, lastRun, skNextBlock, Numbers
<1>2. Kinds(lastRun(TRUE), "run", TRUE, FALSE, FALSE, FALSE, FALSE)
  BY DEF pass, last, lastRun, skNextBlock, Kinds
<1>3. FitsWith("run", 4, 4, FALSE, 4, 2, 0, 1, q)
  BY DEF FitsWith
<1>4. ChainsWith("run", TRUE, FALSE, FALSE, FALSE, 4, 4, 4, 0, 1, q)
  BY DEF ChainsWith
<1> QED BY <1>1, <1>2, <1>3, <1>4, Shapes

\* Batch.
LEMMA BatchShape ==
  ASSUME NEW q \in {2, 3, 4, 5, 8} PROVE Shaped(Batch(q), q)
<1>1. Numbers(Batch(q), 4, 2, 4, 2, 0, q - 1)
  BY Skips DEF pass, Batch, Numbers
<1>2. Kinds(Batch(q), "batch", TRUE, TRUE, FALSE, FALSE, FALSE)
  BY DEF pass, Batch, Kinds
<1>3. FitsWith("batch", 4, 2, TRUE, 4, 2, 0, q - 1, q)
  BY DEF FitsWith
<1>4. ChainsWith("batch", TRUE, TRUE, FALSE, FALSE, 2, 4, 4, 0, q - 1, q)
  BY DEF ChainsWith
<1> QED BY <1>1, <1>2, <1>3, <1>4, Shapes

\* Batch32.
LEMMA Batch32Shape ==
  ASSUME NEW q \in {2, 3, 4, 5, 8} PROVE Shaped(Batch32(q), q)
<1>1. Numbers(Batch32(q), 4, 4, 4, 2, 0, q - 1)
  BY Skips DEF pass, Batch, Batch32, Numbers
<1>2. Kinds(Batch32(q), "batch", TRUE, TRUE, FALSE, FALSE, FALSE)
  BY DEF pass, Batch, Batch32, Kinds
<1>3. FitsWith("batch", 4, 4, TRUE, 4, 2, 0, q - 1, q)
  BY DEF FitsWith
<1>4. ChainsWith("batch", TRUE, TRUE, FALSE, FALSE, 4, 4, 4, 0, q - 1, q)
  BY DEF ChainsWith
<1> QED BY <1>1, <1>2, <1>3, <1>4, Shapes

\* PassNeon.
LEMMA PassNeonShape ==
  ASSUME NEW q \in {2, 3, 4, 5, 8} PROVE Shaped(PassNeon(q), q)
<1>1. Numbers(PassNeon(q), 2, 2, 1, q, 0, q)
  BY DEF pass, PassNeon, Numbers
<1>2. Kinds(PassNeon(q), "pass", FALSE, TRUE, TRUE, FALSE, FALSE)
  BY DEF pass, PassNeon, Kinds
<1>3. FitsWith("pass", 2, 2, TRUE, 1, q, 0, q, q)
  BY DEF FitsWith
<1>4. ChainsWith("pass", FALSE, TRUE, TRUE, FALSE, 2, 2, 1, 0, q, q)
  BY DEF ChainsWith
<1> QED BY <1>1, <1>2, <1>3, <1>4, Shapes

\* PassSplitNeon.
LEMMA PassSplitNeonShape ==
  ASSUME NEW q \in {2, 3, 4, 5, 8} PROVE Shaped(PassSplitNeon(q), q)
<1>1. Numbers(PassSplitNeon(q), 2, 2, 1, q, 0, q)
  BY DEF pass, PassNeon, PassSplitNeon, Numbers
<1>2. Kinds(PassSplitNeon(q), "pass", FALSE, FALSE, TRUE, FALSE, FALSE)
  BY DEF pass, PassNeon, PassSplitNeon, Kinds
<1>3. FitsWith("pass", 2, 2, FALSE, 1, q, 0, q, q)
  BY DEF FitsWith
<1>4. ChainsWith("pass", FALSE, FALSE, TRUE, FALSE, 2, 2, 1, 0, q, q)
  BY DEF ChainsWith
<1> QED BY <1>1, <1>2, <1>3, <1>4, Shapes

\* Pass32Neon.
LEMMA Pass32NeonShape ==
  ASSUME NEW q \in {2, 3, 4, 5, 8} PROVE Shaped(Pass32Neon(q), q)
<1>1. Numbers(Pass32Neon(q), 4, 4, 1, q, 0, q)
  BY DEF pass, PassNeon, Pass32Neon, Numbers
<1>2. Kinds(Pass32Neon(q), "pass", TRUE, TRUE, TRUE, FALSE, FALSE)
  BY DEF pass, PassNeon, Pass32Neon, Kinds
<1>3. FitsWith("pass", 4, 4, TRUE, 1, q, 0, q, q)
  BY DEF FitsWith
<1>4. ChainsWith("pass", TRUE, TRUE, TRUE, FALSE, 4, 4, 1, 0, q, q)
  BY DEF ChainsWith
<1> QED BY <1>1, <1>2, <1>3, <1>4, Shapes

\* LastNeon.
LEMMA LastNeonShape ==
  ASSUME NEW q \in {2, 3, 4, 5, 8} PROVE Shaped(LastNeon(q), q)
<1>1. Numbers(LastNeon(q), 2, 2, 1, q, 0, q)
  BY DEF pass, PassNeon, LastNeon, Numbers
<1>2. Kinds(LastNeon(q), "last", FALSE, TRUE, TRUE, FALSE, FALSE)
  BY DEF pass, PassNeon, LastNeon, Kinds
<1>3. FitsWith("last", 2, 2, TRUE, 1, q, 0, q, q)
  BY DEF FitsWith
<1>4. ChainsWith("last", FALSE, TRUE, TRUE, FALSE, 2, 2, 1, 0, q, q)
  BY DEF ChainsWith
<1> QED BY <1>1, <1>2, <1>3, <1>4, Shapes

\* LastSplitNeon.
LEMMA LastSplitNeonShape ==
  ASSUME NEW q \in {2, 4, 8} PROVE Shaped(LastSplitNeon(q), q)
<1>1. Numbers(LastSplitNeon(q), 2, 2, 1, q, 0, q)
  BY DEF pass, PassNeon, LastNeon, LastSplitNeon, Numbers
<1>2. Kinds(LastSplitNeon(q), "last", FALSE, TRUE, TRUE, FALSE, TRUE)
  BY DEF pass, PassNeon, LastNeon, LastSplitNeon, Kinds
<1>3. FitsWith("last", 2, 2, TRUE, 1, q, 0, q, q)
  BY DEF FitsWith
<1>4. ChainsWith("last", FALSE, TRUE, TRUE, TRUE, 2, 2, 1, 0, q, q)
  BY DEF ChainsWith
<1> QED BY <1>1, <1>2, <1>3, <1>4, Shapes

\* Last32Neon.
LEMMA Last32NeonShape ==
  ASSUME NEW q \in {2, 3, 4, 5, 8} PROVE Shaped(Last32Neon(q), q)
<1>1. Numbers(Last32Neon(q), 4, 4, 1, q, 0, q)
  BY DEF pass, PassNeon, Pass32Neon, Last32Neon, Numbers
<1>2. Kinds(Last32Neon(q), "last", TRUE, FALSE, TRUE, FALSE, FALSE)
  BY DEF pass, PassNeon, Pass32Neon, Last32Neon, Kinds
<1>3. FitsWith("last", 4, 4, FALSE, 1, q, 0, q, q)
  BY DEF FitsWith
<1>4. ChainsWith("last", TRUE, FALSE, TRUE, FALSE, 4, 4, 1, 0, q, q)
  BY DEF ChainsWith
<1> QED BY <1>1, <1>2, <1>3, <1>4, Shapes

\* BatchNeon.
LEMMA BatchNeonShape ==
  ASSUME NEW q \in {2, 3, 4, 5, 8} PROVE Shaped(BatchNeon(q), q)
<1>1. Numbers(BatchNeon(q), 2, 2, 1, q, 0, q - 1)
  BY DEF pass, PassNeon, BatchNeon, Numbers
<1>2. Kinds(BatchNeon(q), "batch", FALSE, TRUE, TRUE, FALSE, FALSE)
  BY DEF pass, PassNeon, BatchNeon, Kinds
<1>3. FitsWith("batch", 2, 2, TRUE, 1, q, 0, q - 1, q)
  BY DEF FitsWith
<1>4. ChainsWith("batch", FALSE, TRUE, TRUE, FALSE, 2, 2, 1, 0, q - 1, q)
  BY DEF ChainsWith
<1> QED BY <1>1, <1>2, <1>3, <1>4, Shapes

-----------------------------------------------------------------------------
(***************************************************************************)
(* Where a kernel stands, as functions of its call.                        *)
(***************************************************************************)
\* The kernel of a call.
Ker(c) == Kernel(c.kernel, c.r)
Packed(c) == Ker(c).loop \in {"last", "run"}
NeonPass(c) == Ker(c).neon /\ Ker(c).loop = "pass"
InStride(c) == IF Ker(c).loop = "pass" THEN c.ido ELSE c.sin
OutStride(c) ==
  CASE Ker(c).loop = "pass" -> c.l1 * c.ido
    [] Ker(c).loop = "last" -> c.l1
    [] OTHER -> c.sout
Points(c) == IF Ker(c).loop = "last" THEN c.l1 ELSE c.ido
Blocks(c) == IF Ker(c).loop = "last" THEN 1 ELSE c.l1

\* Where block b starts: its input, its output, its twiddles; and whether its
\* first point is point 0.
InStart(c, b) ==
  CASE Ker(c).loop \in {"pass", "run"} -> (c.r * c.ido) * b
    [] Ker(c).loop = "last" -> 0
    [] Ker(c).loop = "strided" -> c.bin * b
    [] Ker(c).loop = "batch" -> (c.r * c.sin) * b
OutStart(c, b) ==
  CASE Ker(c).loop = "pass" -> c.ido * b
    [] Ker(c).loop = "last" -> 0
    [] Ker(c).loop \in {"strided", "run"} -> c.bout * b
    [] Ker(c).loop = "batch" -> (c.ido * c.bout) * b
TwStart(c, b) == IF Ker(c).loop = "strided" THEN c.dtw * b ELSE 0
FirstOf(c, b) ==
  CASE Ker(c).loop \in {"pass", "batch"} -> TRUE
    [] Ker(c).loop = "strided" -> (IF b = 0 THEN c.bf ELSE c.br)
    [] OTHER -> FALSE

\* The streams lie at x in the input and at y in the output.
Lined(f, x, step, n) == \A j \in 0..(n - 1) : f[j] = x + j * step
Placed(c, in, out, x, y) ==
  /\ IF Packed(c) THEN in[0] = x
     ELSE Lined(in, x, Ker(c).span * InStride(c), Ker(c).bases)
  /\ Lined(out, y, Ker(c).span * OutStride(c), Ker(c).bases)

\* How far input and output have moved past d points.
InPast(c, d) == IF Packed(c) THEN c.r * d ELSE d

\* Output j of point i of block b, and of line l of row i of block b.
PointTw(c, b, i, j) == IF Packed(c) THEN NoTw ELSE TwEntry(c, TwStart(c, b), i, j)
InStep(c) == IF Packed(c) THEN 1 ELSE InStride(c)
PointWrite(c, b, i, j) ==
  Write(c, (OutStart(c, b) + i) + j * OutStride(c), j, InStart(c, b) + InPast(c, i),
        InStep(c), PointTw(c, b, i, j), i = 0 /\ FirstOf(c, b))
LineTw(c, i, j) ==
  IF i = 0 THEN NoTw ELSE <<(i - 1) * (c.r - 1) + (j - 1), (i - 1) * (c.r - 1) + (j - 1)>>
LineWrite(c, b, i, l, j) ==
  Write(c, ((OutStart(c, b) + i * c.bout) + l) + j * OutStride(c), j,
        (InStart(c, b) + i * c.bin) + l, InStride(c), LineTw(c, i, j), FALSE)

\* What is written when d points of block b are done, or l lines of its row i.
PointsDone(c, b, d) ==
  {PointWrite(c, k, i, j) : k \in 0..(b - 1), i \in 0..(Points(c) - 1), j \in 0..(c.r - 1)}
    \cup {PointWrite(c, b, i, j) : i \in 0..(d - 1), j \in 0..(c.r - 1)}
LinesDone(c, b, i, l) ==
  {LineWrite(c, k, m, p, j) : k \in 0..(b - 1), m \in 0..(c.ido - 1), p \in 0..(c.w - 1),
                              j \in 0..(c.r - 1)}
    \cup {LineWrite(c, b, m, p, j) : m \in 0..(i - 1), p \in 0..(c.w - 1), j \in 0..(c.r - 1)}
    \cup {LineWrite(c, b, i, p, j) : p \in 0..(l - 1), j \in 0..(c.r - 1)}
BlocksDone(c, b) ==
  IF Ker(c).loop = "batch" THEN LinesDone(c, b, 0, 0) ELSE PointsDone(c, b, 0)

-----------------------------------------------------------------------------
-----------------------------------------------------------------------------
(*****************************************************************************)
(* The inductive invariant.                                                  *)
(*****************************************************************************)
B == Blocks(call) - blocks      \* the block the kernel is in
Runs(c) == (c.r - 1) * (IF Ker(c).dup THEN 2 ELSE 1)   \* table entries a point

\* What a block holds from its start to its end.
Kept ==
  /\ blocks \in 0..Blocks(call)
  /\ twBase = TwStart(call, B)
  /\ NeonPass(call) => block = <<InStart(call, B), OutStart(call, B)>>
  /\ pc \notin {"kloop", "done"} => blocks >= 1

\* At kloop: every block before is done, and the streams are at the next.
AtBlock ==
  /\ part = 0
  /\ ch = BlocksDone(call, B)
  /\ Ker(call).loop = "strided" /\ blocks >= 1 => (first <=> FirstOf(call, B))
  /\ ~NeonPass(call) => inb[0] = InStart(call, B) /\ outb[0] = OutStart(call, B)

\* Somewhere in a block, d points done; the twiddles t points on.
InBlock(d, t) ==
  /\ Ker(call).loop # "batch"
  /\ Placed(call, inb, outb, InStart(call, B) + InPast(call, d), OutStart(call, B) + d)
  /\ ch = PointsDone(call, B, d)
  /\ first <=> (d = 0 /\ FirstOf(call, B))
  /\ tw = TwStart(call, B) + Runs(call) * t

\* The points of the groups done when m are left; in a group, at the tail's
\* pair (alone in its block or after groups), at the odd point.
Grouped(g, m) == g * ((Points(call) \div g) - m)
AtGroup ==
  /\ part \in 0..(Ker(call).group - 1) /\ part % Ker(call).width = 0
  /\ groups = 0 => part = 0
  /\ groups \in 0..(Points(call) \div Ker(call).group)
  /\ InBlock(Grouped(Ker(call).group, groups) + part, Grouped(Ker(call).group, groups))
AtFirstPair ==
  /\ part = 0
  /\ Ker(call).group = 4 /\ Ker(call).tail /\ Points(call) \in {2, 3}
  /\ InBlock(0, 0)
AtPair ==
  /\ part = 0
  /\ Ker(call).group = 4 /\ Ker(call).tail
  /\ InBlock(4 * (Points(call) \div 4), 4 * (Points(call) \div 4))
AtSingle ==
  /\ part = 0
  /\ Ker(call).group \in {2, 4} /\ Ker(call).tail
  /\ InBlock(2 * (Points(call) \div 2), 2 * (Points(call) \div 2))

\* In row i of a batch, part lines done.  A lone line has not moved arm64's streams.
PastLines == IF Ker(call).neon THEN 2 * (part \div 2) ELSE part
Row == call.ido - groups
AtRow ==
  /\ Ker(call).loop = "batch"
  /\ groups \in 1..call.ido
  /\ part \in 0..call.w
  /\ Ker(call).neon /\ part < call.w => part % 2 = 0
  /\ Placed(call, inb, outb, InStart(call, B) + Row * call.bin + PastLines,
            OutStart(call, B) + Row * call.bout + PastLines)
  /\ first <=> Row = 0
  /\ tw = IF Row = 0 THEN 0 ELSE (Row - 1) * (call.r - 1)
  /\ ch = LinesDone(call, B, Row, part)

\* After a block: it is done, and the streams stand past its end.
AtNext ==
  /\ part = 0
  /\ Ker(call).loop # "last"
  /\ ch = BlocksDone(call, B + 1)
  /\ ~NeonPass(call) =>
       IF Ker(call).loop = "batch"
       THEN Placed(call, inb, outb, InStart(call, B) + call.ido * call.bin,
                   OutStart(call, B) + call.ido * call.bout)
       ELSE Placed(call, inb, outb, InStart(call, B) + InPast(call, call.ido),
                   OutStart(call, B) + call.ido)

\* When it returns: everything is done.
AtEnd == ch = BlocksDone(call, Blocks(call))

\* The inductive invariant.
PassInv ==
  /\ TypeOK
  /\ Kept
  /\ pc = "kloop" => AtBlock
  /\ pc = "group" => AtGroup
  /\ pc = "firstpair" => AtFirstPair
  /\ pc = "pair" => AtPair
  /\ pc = "single" => AtSingle
  /\ pc = "row" => AtRow
  /\ pc = "knext" => AtNext
  /\ pc = "done" => AtEnd

\* The radices there are kernels for.
AllRadices == {2, 3, 4, 5, 8, 9, 10, 12, 15, 16, 20, 32}

\* amd64's Pass, at every radix it is emitted for.
LEMMA PassShape ==
  ASSUME NEW q \in {2, 3, 4, 5, 8, 9, 10, 12, 15, 16, 20}
  PROVE  Shaped(Pass(q), q)
<1>1. CASE q \in {2, 3, 4, 5, 8} BY <1>1, PlainShape DEF Pass
<1>2. CASE q = 9 BY <1>2, Pass9Shape DEF Pass
<1>3. CASE q = 12 BY <1>3, Pass12Shape DEF Pass
<1>4. CASE q = 16 BY <1>4, Pass16Shape DEF Pass
<1>5. CASE q \in {10, 15, 20} BY <1>5, PassPFAShape DEF Pass
<1> QED BY <1>1, <1>2, <1>3, <1>4, <1>5

\* amd64's Last, at every radix it is emitted for.
LEMMA LastShape ==
  ASSUME NEW q \in {2, 3, 4, 5, 8, 9, 10, 12, 15, 16, 20}
  PROVE  Shaped(Last(q), q)
<1>1. CASE q \in {2, 3, 4, 5, 8} BY <1>1, LastPlainShape DEF Last
<1>2. CASE q = 9 BY <1>2, Last9Shape DEF Last
<1>3. CASE q = 12 BY <1>3, Last12Shape DEF Last
<1>4. CASE q = 16 BY <1>4, Last16Shape DEF Last
<1>5. CASE q \in {10, 15, 20} BY <1>5, LastPFAShape DEF Last
<1> QED BY <1>1, <1>2, <1>3, <1>4, <1>5

\* Every kernel that is emitted, at every radix, has such a shape.
LEMMA KernelShaped ==
  ASSUME NEW name, NEW q \in Radices(name)
  PROVE  Shaped(Kernel(name, q), q) /\ q \in AllRadices
<1>0. name \in {"Pass", "Last", "Pass512", "Last512", "LastRun", "LastRun512", "LastSplitNeon",
                "Strided", "Strided512", "Split512", "Split", "SplitR32", "SplitR32Wide",
                "LastR32", "LastR32Wide", "Pass32", "Last32", "Batch", "Batch32", "PassNeon",
                "PassSplitNeon", "Pass32Neon", "LastNeon", "Last32Neon", "BatchNeon"}
  BY DEF Radices
<1>1. CASE name = "Pass"
  BY <1>1, PassShape DEF Kernel, Radices, AllRadices
<1>2. CASE name = "Last"
  BY <1>2, LastShape DEF Kernel, Radices, AllRadices
<1>3. CASE name = "Pass512"
  BY <1>3, Pass512Shape DEF Kernel, Radices, AllRadices
<1>4. CASE name = "Last512"
  BY <1>4, Last512Shape DEF Kernel, Radices, AllRadices
<1>5. CASE name = "LastRun"
  BY <1>5, LastRunShape DEF Kernel, Radices, AllRadices
<1>6. CASE name = "LastRun512"
  BY <1>6, LastRun512Shape DEF Kernel, Radices, AllRadices
<1>7. CASE name = "LastSplitNeon"
  BY <1>7, LastSplitNeonShape DEF Kernel, Radices, AllRadices
<1>8. CASE name = "Strided"
  BY <1>8, StridedShape DEF Kernel, Radices, AllRadices
<1>9. CASE name = "Strided512"
  BY <1>9, Strided512Shape DEF Kernel, Radices, AllRadices
<1>10. CASE name = "Split512"
  BY <1>10, Split512Shape DEF Kernel, Radices, AllRadices
<1>11. CASE name = "Split"
  BY <1>11, SplitShape DEF Kernel, Radices, AllRadices
<1>12. CASE name = "SplitR32"
  BY <1>12, SplitR32Shape DEF Kernel, Radices, AllRadices
<1>13. CASE name = "SplitR32Wide"
  BY <1>13, SplitR32WideShape DEF Kernel, Radices, AllRadices
<1>14. CASE name = "LastR32"
  BY <1>14, LastR32Shape DEF Kernel, Radices, AllRadices
<1>15. CASE name = "LastR32Wide"
  BY <1>15, LastR32WideShape DEF Kernel, Radices, AllRadices
<1>16. CASE name = "Pass32"
  BY <1>16, Pass32Shape DEF Kernel, Radices, AllRadices
<1>17. CASE name = "Last32"
  BY <1>17, Last32Shape DEF Kernel, Radices, AllRadices
<1>18. CASE name = "Batch"
  BY <1>18, BatchShape DEF Kernel, Radices, AllRadices
<1>19. CASE name = "Batch32"
  BY <1>19, Batch32Shape DEF Kernel, Radices, AllRadices
<1>20. CASE name = "PassNeon"
  BY <1>20, PassNeonShape DEF Kernel, Radices, AllRadices
<1>21. CASE name = "PassSplitNeon"
  BY <1>21, PassSplitNeonShape DEF Kernel, Radices, AllRadices
<1>22. CASE name = "Pass32Neon"
  BY <1>22, Pass32NeonShape DEF Kernel, Radices, AllRadices
<1>23. CASE name = "LastNeon"
  BY <1>23, LastNeonShape DEF Kernel, Radices, AllRadices
<1>24. CASE name = "Last32Neon"
  BY <1>24, Last32NeonShape DEF Kernel, Radices, AllRadices
<1>25. CASE name = "BatchNeon"
  BY <1>25, BatchNeonShape DEF Kernel, Radices, AllRadices
<1> QED
  BY <1>0, <1>1, <1>2, <1>3, <1>4, <1>5, <1>6, <1>7, <1>8, <1>9, <1>10, <1>11, <1>12, <1>13,
     <1>14, <1>15, <1>16, <1>17, <1>18, <1>19, <1>20, <1>21, <1>22, <1>23, <1>24, <1>25

\* What every call a plan makes may be taken to be.
Sized(c) ==
  /\ Shaped(Ker(c), c.r)
  /\ c.r \in AllRadices
  /\ c.ido \in Nat /\ c.l1 \in Nat \ {0} /\ c.sin \in Nat /\ c.sout \in Nat
  /\ c.bin \in Nat /\ c.bout \in Nat /\ c.dtw \in Nat /\ c.w \in Nat
  /\ c.bf \in BOOLEAN /\ c.br \in BOOLEAN
  /\ Ker(c).loop = "pass" => c.ido >= 2 /\ (Ker(c).short \/ c.ido >= Ker(c).group)
  /\ Ker(c).loop # "batch" /\ ~Ker(c).tail => Points(c) % Ker(c).group = 0
  /\ Ker(c).loop = "batch" => /\ c.ido >= 1 /\ c.w >= 1 /\ c.sin = c.ido * c.bin
                              /\ c.bin >= c.w /\ c.bout >= c.w
                              /\ c.sout = c.l1 * c.ido * c.bout

\* What the kernels' comments ask of a caller is all the proofs need.
LEMMA CallSized ==
  ASSUME NEW c \in Calls PROVE Sized(c)
<1>1. Legal(c)
  BY CallsAssumption
<1>2. Shaped(Ker(c), c.r) /\ c.r \in AllRadices
  BY <1>1, KernelShaped DEF Legal, Ker
<1>3. /\ c.ido \in Nat /\ c.l1 \in Nat \ {0} /\ c.sin \in Nat /\ c.sout \in Nat
      /\ c.bin \in Nat /\ c.bout \in Nat /\ c.dtw \in Nat /\ c.w \in Nat
      /\ c.bf \in BOOLEAN /\ c.br \in BOOLEAN
  BY <1>1 DEF Legal
<1>4. Ker(c).loop = "pass" => c.ido >= 2 /\ (Ker(c).short \/ c.ido >= Ker(c).group)
  BY <1>1 DEF Legal, Ker
<1>5. Ker(c).loop \in {"pass", "strided", "last", "run", "batch"}
      /\ (Ker(c).loop = "strided" => ~Ker(c).tail) /\ (Ker(c).loop = "run" => ~Ker(c).tail)
  BY <1>2 DEF Shaped, FitsWith, ChainsWith
<1>6. Ker(c).loop # "batch" /\ ~Ker(c).tail => Points(c) % Ker(c).group = 0
  <2>1. CASE Ker(c).loop = "pass"
    BY <1>1, <2>1 DEF Legal, Ker, Points
  <2>2. CASE Ker(c).loop \in {"strided", "run"}
    BY <1>1, <2>2 DEF Legal, Ker, Points
  <2>3. CASE Ker(c).loop = "last"
    BY <1>1, <2>3 DEF Legal, Ker, Points
  <2> QED BY <2>1, <2>2, <2>3, <1>5
<1>7. Ker(c).loop = "batch" => /\ c.ido >= 1 /\ c.w >= 1 /\ c.sin = c.ido * c.bin
                              /\ c.bin >= c.w /\ c.bout >= c.w
                              /\ c.sout = c.l1 * c.ido * c.bout
  BY <1>1 DEF Legal, Ker
<1> QED BY <1>2, <1>3, <1>4, <1>6, <1>7 DEF Sized

\* Addresses count from the stream a base serves.
Serves(j, span, bases) ==
  /\ j \div span \in 0..(bases - 1)
  /\ j % span \in Nat
  /\ j = span * (j \div span) + (j % span)

\* A base and the strides past it find every stream of the radix.
LEMMA Serving ==
  ASSUME NEW span \in Nat \ {0}, NEW bases \in Nat \ {0}, NEW q \in Nat, q <= span * bases,
         NEW j \in 0..(q - 1)
  PROVE  Serves(j, span, bases)
<1> DEFINE a == j \div span
           m == j % span
<1>1. a \in Int /\ m \in 0..(span - 1) /\ j = span * a + m
  OBVIOUS
<1> HIDE DEF a, m
<1>2. a >= 0
  <2> SUFFICES ASSUME a <= -1 PROVE FALSE
    BY <1>1
  <2>1. span * a <= span * (-1)
    BY <1>1
  <2> QED BY <1>1, <2>1
<1>3. a < bases
  <2> SUFFICES ASSUME a >= bases PROVE FALSE
    BY <1>1
  <2>1. span * a >= span * bases
    BY <1>1
  <2> QED BY <1>1, <2>1
<1> QED BY <1>1, <1>2, <1>3 DEF Serves, a, m

\* Strides past a base are strides past the first stream.
LEMMA Spread ==
  ASSUME NEW x \in Int, NEW a \in Int, NEW m \in Int, NEW span \in Int, NEW s \in Int
  PROVE  (x + a * (span * s)) + m * s = x + (span * a + m) * s
<1>1. a * (span * s) = (span * a) * s
  OBVIOUS
<1>2. (span * a + m) * s = (span * a) * s + m * s
  OBVIOUS
<1> QED BY <1>1, <1>2

\* Stream j of streams s apart lies j strides on.
StreamAt(f, span, j, s, x) == f[j \div span] + (j % span) * s = x + j * s

\* Every stream reached from its base is where it would be from the first.
LEMMA Streams ==
  ASSUME NEW span \in Nat \ {0}, NEW bases \in Nat \ {0}, NEW q \in Nat, q <= span * bases,
         NEW j \in 0..(q - 1), NEW f, NEW x \in Int, NEW s \in Int,
         NEW t, t = span * s, Lined(f, x, t, bases)
  PROVE  StreamAt(f, span, j, s, x)
<1>1. Serves(j, span, bases)
  BY Serving
<1> DEFINE a == j \div span
           m == j % span
<1>2. a \in 0..(bases - 1) /\ a \in Int /\ m \in Int /\ j = span * a + m
  BY <1>1 DEF Serves
<1>3. f[a] = x + a * (span * s)
  BY <1>2 DEF Lined
<1> HIDE DEF a, m
<1>4. f[a] + m * s = (x + a * (span * s)) + m * s
  BY <1>3
<1>5. f[a] + m * s = x + j * s
  BY <1>2, <1>4, Spread
<1> QED BY <1>5 DEF a, m, StreamAt

\* Radix 32's addressing forms cover the 32 streams, in and out.
LEMMA Radix32Streams ==
  ASSUME NEW j \in 0..31 PROVE r32In(j) = j /\ r32Slot2(j) = j
<1>1. r32In(j) = j
  BY DEF r32In
<1>2. r32Slot2(j) = j
  BY DEF r32Slot2
<1> QED BY <1>1, <1>2

\* The lane of a point among a block's pairs.
LEMMA PairLanes ==
  ASSUME NEW q \in {2, 4, 8}, NEW j \in 0..(q - 1), NEW l \in Nat
  PROVE  2 * ((l * (q \div 2)) + (j \div 2)) + (j % 2) = j + l * q
<1>1. CASE q = 2 BY <1>1
<1>2. CASE q = 4 BY <1>2
<1>3. CASE q = 8 BY <1>3
<1> QED BY <1>1, <1>2, <1>3

-----------------------------------------------------------------------------
-----------------------------------------------------------------------------
(*****************************************************************************)
(* The streams.                                                              *)
(*****************************************************************************)
\* The kernel's own names for what its call says.
LEMMA Named ==
  /\ K = Ker(call) /\ r = call.r /\ S = InStride(call) /\ OS = OutStride(call)
  /\ Count = Points(call) /\ (Contiguous <=> Packed(call))
BY DEF K, Ker, r, S, InStride, OS, OutStride, Count, Points, Contiguous, Packed

\* What a body reads and writes: input n and output j of its point l.
InHolds(c, x, j, l) == In(j, l) = (x + InPast(c, l)) + j * InStep(c)
OutHolds(c, y, j, l) == StreamOut(j) + l = (y + l) + j * OutStride(c)

\* The numbers of a call are numbers.
LEMMA Strides ==
  ASSUME NEW c, Sized(c)
  PROVE  /\ InStride(c) \in Nat /\ OutStride(c) \in Nat /\ Points(c) \in Nat
         /\ Blocks(c) \in Nat \ {0} /\ InStep(c) \in Nat
         /\ Ker(c).span \in Nat \ {0} /\ Ker(c).bases \in Nat \ {0}
         /\ c.r <= Ker(c).span * Ker(c).bases /\ c.r \in Nat /\ c.r >= 2
         /\ Ker(c).group \in {2, 4, 8} /\ Ker(c).width \in {2, 4, 8}
         /\ Ker(c).loop \in {"pass", "strided", "last", "run", "batch"}
<1>1. c.l1 * c.ido \in Nat
  BY DEF Sized
<1> QED BY <1>1 DEF Sized, InStride, OutStride, Points, Blocks, InStep, AllRadices, Shaped, FitsWith

\* A body stores output j one output stride past output j - 1.
LEMMA OutStreams ==
  ASSUME NEW x \in Int, NEW y \in Int, Sized(call), Placed(call, inb, outb, x, y),
         NEW j \in 0..(call.r - 1), NEW l \in Nat
  PROVE  OutHolds(call, y, j, l)
<1> DEFINE s == OutStride(call)
<1>0. s \in Nat /\ j \in Int /\ j * s \in Int
  BY Strides DEF Sized, AllRadices
<1>1. StreamOut(j) = y + j * s
  <2>1. Lined(outb, y, Ker(call).span * s, Ker(call).bases)
    BY DEF Placed
  <2>2. CASE r = 32
    <3>1. outb[0] = y + 0 * (Ker(call).span * s)
      BY <2>1, Strides, <1>0 DEF Lined
    <3>2. outb[0] = y
      BY <3>1, Strides, <1>0
    <3>3. j \in 0..31
      BY <2>2 DEF r
    <3>4. StreamOut(j) = outb[0] + r32Slot2(j) * OS
      BY <2>2 DEF StreamOut
    <3> QED BY <3>2, <3>3, <3>4, Radix32Streams, Named
  <2>3. CASE r # 32
    <3>1. StreamOut(j) = outb[j \div Ker(call).span] + (j % Ker(call).span) * s
      BY <2>3, Named DEF StreamOut
    <3> DEFINE t == Ker(call).span * s
    <3>a. t = Ker(call).span * s /\ Lined(outb, y, t, Ker(call).bases)
      BY <2>1
    <3>b. Ker(call).span \in Nat \ {0} /\ Ker(call).bases \in Nat \ {0}
          /\ call.r \in Nat /\ call.r <= Ker(call).span * Ker(call).bases /\ s \in Int
      BY Strides, <1>0
    <3> HIDE DEF s, t
    <3>2. StreamAt(outb, Ker(call).span, j, s, y)
      BY <3>a, <3>b, Streams
    <3> QED BY <3>1, <3>2 DEF StreamAt
  <2> QED BY <2>2, <2>3
<1> HIDE DEF s
<1>2. StreamOut(j) + l = (y + l) + j * s
  BY <1>0, <1>1
<1> QED BY <1>2 DEF OutHolds, s

\* A body loads input j where the block's input j is.
LEMMA InStreams ==
  ASSUME NEW x \in Int, NEW y \in Int, Sized(call), Placed(call, inb, outb, x, y),
         NEW j \in 0..(call.r - 1), NEW l \in Nat
  PROVE  InHolds(call, x, j, l)
<1>r. r = call.r /\ call.r \in Nat /\ j \in Nat
  BY Named, Strides DEF Sized
<1>1. CASE Packed(call)
  <2>1. inb[0] = x /\ InStep(call) = 1 /\ InPast(call, l) = call.r * l
    BY <1>1 DEF Placed, InStep, InPast
  <2>2. CASE K.pairs
    <3>1. call.r \in {2, 4, 8}
      BY <2>2, Named DEF Sized, Shaped, ChainsWith
    <3>2. InPair(j, l) = j + l * call.r
      BY <3>1, <1>r, PairLanes DEF InPair
    <3>3. In(j, l) = inb[0] + InPair(j, l)
      BY <2>2 DEF In
    <3>4. l * call.r = call.r * l /\ call.r * l \in Int
      BY <1>r
    <3>5. In(j, l) = (x + call.r * l) + j * 1
      BY <2>1, <3>2, <3>3, <3>4, <1>r
    <3> QED BY <2>1, <3>5 DEF InHolds
  <2>3. CASE ~K.pairs
    <3>1. In(j, l) = inb[0] + l * call.r + j
      BY <2>3, <1>1, Named DEF In
    <3>2. l * call.r = call.r * l /\ call.r * l \in Int
      BY <1>r
    <3>3. In(j, l) = (x + call.r * l) + j * 1
      BY <2>1, <3>1, <3>2, <1>r
    <3> QED BY <2>1, <3>3 DEF InHolds
  <2> QED BY <2>2, <2>3
<1>2. CASE ~Packed(call)
  <2> DEFINE s == InStride(call)
  <2>0. s \in Nat /\ j \in Int /\ j * s \in Int
    BY <1>r, Strides
  <2>1. Lined(inb, x, Ker(call).span * s, Ker(call).bases)
    BY <1>2 DEF Placed
  <2>2. ~K.pairs
    BY <1>2, Named DEF Packed, Sized, Shaped, ChainsWith
  <2>3. In(j, l) = StreamIn(j) + l
    BY <1>2, <2>2, Named DEF In
  <2>4. StreamIn(j) = x + j * s
    <3>2. CASE r = 32
      <4>1. inb[0] = x + 0 * (Ker(call).span * s)
        BY <2>1, Strides, <2>0 DEF Lined
      <4>2. inb[0] = x
        BY <4>1, Strides, <2>0
      <4>3. j \in 0..31
        BY <3>2 DEF r
      <4>4. StreamIn(j) = inb[0] + r32In(j) * S
        BY <3>2 DEF StreamIn
      <4> QED BY <4>2, <4>3, <4>4, Radix32Streams, Named
    <3>3. CASE r # 32
      <4>1. StreamIn(j) = inb[j \div Ker(call).span] + (j % Ker(call).span) * s
        BY <3>3, Named DEF StreamIn
      <4> DEFINE t == Ker(call).span * s
      <4>a. t = Ker(call).span * s /\ Lined(inb, x, t, Ker(call).bases)
        BY <2>1
      <4>b. Ker(call).span \in Nat \ {0} /\ Ker(call).bases \in Nat \ {0}
            /\ call.r \in Nat /\ call.r <= Ker(call).span * Ker(call).bases /\ s \in Int
        BY Strides, <2>0
      <4> HIDE DEF s, t
      <4>2. StreamAt(inb, Ker(call).span, j, s, x)
        BY <4>a, <4>b, Streams
      <4> QED BY <4>1, <4>2 DEF StreamAt
    <3> QED BY <3>2, <3>3
  <2>5. InPast(call, l) = l /\ InStep(call) = s
    BY <1>2 DEF InPast, InStep
  <2> HIDE DEF s
  <2>6. In(j, l) = (x + l) + j * s
    BY <2>0, <2>3, <2>4
  <2> QED BY <2>5, <2>6 DEF InHolds
<1> QED BY <1>1, <1>2

-----------------------------------------------------------------------------
-----------------------------------------------------------------------------
(*****************************************************************************)
(* One body.                                                                 *)
(*****************************************************************************)
\* Output j of point l of a body at x and y.
BodyWrite(c, x, y, W, keep, j, l) ==
  Write(c, (y + l) + j * OutStride(c), j, x + InPast(c, l), InStep(c), W[j][l], keep /\ l = 0)

\* What a body stores, by where its streams are.
LEMMA BodyWrites ==
  ASSUME NEW x \in Int, NEW y \in Int, Sized(call), Placed(call, inb, outb, x, y),
         NEW n \in Nat, NEW W, NEW keep \in BOOLEAN
  PROVE  Outputs(n, W, keep)
           = {BodyWrite(call, x, y, W, keep, j, l) : j \in 0..(call.r - 1), l \in 0..(n - 1)}
<1> DEFINE Out(j, l) == [at |-> StreamOut(j) + l, y |-> j, x |-> [m \in 0..r-1 |-> In(m, l)],
                         w |-> IF j = 0 THEN NoTw ELSE W[j][l], keep |-> keep /\ l = 0 /\ j > 0]
           Due(j, l) == BodyWrite(call, x, y, W, keep, j, l)
           Got == {Out(j, l) : j \in 0..(call.r - 1), l \in 0..(n - 1)}
           Whole == {Due(j, l) : j \in 0..(call.r - 1), l \in 0..(n - 1)}
<1>1. ASSUME NEW j \in 0..(call.r - 1), NEW l \in 0..(n - 1)
      PROVE  Out(j, l) = Due(j, l)
  <2>0. l \in Nat /\ call.r \in Nat /\ r = call.r
    BY Strides, Named
  <2>1. StreamOut(j) + l = (y + l) + j * OutStride(call)
    BY <2>0, OutStreams DEF OutHolds
  <2>2. [m \in 0..r-1 |-> In(m, l)]
          = [m \in 0..call.r-1 |-> (x + InPast(call, l)) + m * InStep(call)]
    <3>1. \A m \in 0..(call.r - 1) : In(m, l) = (x + InPast(call, l)) + m * InStep(call)
      BY <2>0, InStreams DEF InHolds
    <3> QED BY <2>0, <3>1
  <2>3. (keep /\ l = 0 /\ j > 0) = ((keep /\ l = 0) /\ j > 0)
    OBVIOUS
  <2> QED BY <2>1, <2>2, <2>3 DEF Write, BodyWrite
<1>2. Outputs(n, W, keep) = Got
  BY Named DEF Outputs
<1> HIDE DEF Out, Due
<1>3. Got = Whole
  BY <1>1
<1> HIDE DEF Got, Whole
<1>4. Outputs(n, W, keep) = Whole
  BY <1>2, <1>3
<1> QED BY <1>4 DEF Whole, Due

\* How far a body of n points moves the streams.
Passed(c, n) == IF n = 1 /\ (Ker(c).neon \/ Ker(c).loop = "last") THEN 0 ELSE n

\* A packed input moves r points for each point of output.
LEMMA Counts ==
  ASSUME NEW c, Sized(c), NEW d \in Nat
  PROVE  InPast(c, d) \in Nat
<1>1. c.r * d \in Nat
  BY Strides
<1> QED BY <1>1 DEF InPast

\* Moving in two parts.
Adds(c, d, l) == InPast(c, d) + InPast(c, l) = InPast(c, d + l) /\ InPast(c, d) \in Int

\* Moving past d points and then past l is moving past d + l.
LEMMA Adding ==
  ASSUME NEW c, Sized(c), NEW d \in Int, NEW l \in Int
  PROVE  Adds(c, d, l)
<1>1. c.r \in Int /\ c.r * d \in Int /\ c.r * l \in Int /\ c.r * (d + l) = c.r * d + c.r * l
  BY Strides
<1> QED BY <1>1 DEF InPast, Adds

\* Base registers.
Bases(f) == f \in [0..(Ker(call).bases - 1) -> Nat]

\* A body moves every stream past its points alike.
LEMMA BodyMoves ==
  ASSUME NEW x \in Int, NEW y \in Int, Sized(call), Placed(call, inb, outb, x, y),
         NEW n \in Nat, Advance(n), call' = call, Bases(inb), Bases(outb)
  PROVE  /\ Placed(call, inb', outb', x + InPast(call, Passed(call, n)), y + Passed(call, n))
         /\ Bases(inb') /\ Bases(outb')
<1> DEFINE s == Passed(call, n)
           k == Ker(call).bases
           si == Ker(call).span * InStride(call)
           so == Ker(call).span * OutStride(call)
<1>0. s \in Nat /\ k \in Nat \ {0} /\ si \in Int /\ so \in Int
  BY Strides DEF Passed
<1>1. inb' = IF Packed(call) THEN [inb EXCEPT ![0] = @ + s * call.r]
             ELSE [b \in DOMAIN inb |-> inb[b] + s]
  BY Named DEF Advance, Passed
<1>2. outb' = [b \in DOMAIN outb |-> outb[b] + s]
  BY Named DEF Advance, Passed
<1>3. Lined(outb, y, so, k)
  BY DEF Placed
<1>a. DOMAIN inb = 0..(k - 1) /\ DOMAIN outb = 0..(k - 1)
      /\ (\A b \in 0..(k - 1) : inb[b] \in Nat /\ outb[b] \in Nat)
  BY DEF Bases
<1>b. Bases(inb) <=> inb \in [0..(k - 1) -> Nat]
  BY DEF Bases
<1> HIDE DEF s, k, si, so
<1>4. Lined(outb', y + s, so, k)
  <2> SUFFICES ASSUME NEW j \in 0..(k - 1) PROVE outb'[j] = (y + s) + j * so
    BY DEF Lined
  <2>1. j * so \in Int /\ outb[j] = y + j * so
    BY <1>0, <1>3 DEF Lined
  <2>2. outb'[j] = outb[j] + s
    BY <1>2, <1>a
  <2> QED BY <1>0, <2>1, <2>2
<1>5. outb' \in [0..(k - 1) -> Nat]
  BY <1>0, <1>2, <1>a
<1>6. CASE Packed(call)
  <2>0. call.r \in Nat /\ s * call.r \in Nat /\ s * call.r = call.r * s
        /\ InPast(call, s) = call.r * s
    BY <1>0, <1>6, Strides DEF InPast
  <2>1. inb' = [inb EXCEPT ![0] = @ + s * call.r]
    BY <1>1, <1>6
  <2>2. inb[0] = x /\ 0 \in 0..(k - 1)
    BY <1>0, <1>6 DEF Placed
  <2>3. inb'[0] = inb[0] + s * call.r
    BY <2>1, <2>2, <1>a
  <2>4. inb' \in [0..(k - 1) -> Nat]
    BY <1>b, <2>0, <2>1, <2>2, <1>a
  <2>5. inb'[0] = x + InPast(call, s)
    BY <2>0, <2>2, <2>3
  <2> QED BY <1>4, <1>5, <1>6, <2>4, <2>5 DEF Placed, Bases, s, k, so
<1>7. CASE ~Packed(call)
  <2>1. inb' = [b \in DOMAIN inb |-> inb[b] + s]
    BY <1>1, <1>7
  <2>2. Lined(inb, x, si, k)
    BY <1>7 DEF Placed, si, k
  <2>3. Lined(inb', x + s, si, k)
    <3> SUFFICES ASSUME NEW j \in 0..(k - 1) PROVE inb'[j] = (x + s) + j * si
      BY DEF Lined
    <3>1. j * si \in Int /\ inb[j] = x + j * si
      BY <1>0, <2>2 DEF Lined
    <3>2. inb'[j] = inb[j] + s
      BY <2>1, <1>a
    <3> QED BY <1>0, <3>1, <3>2
  <2>4. inb' \in [0..(k - 1) -> Nat]
    BY <1>0, <2>1, <1>a
  <2>5. InPast(call, s) = s
    BY <1>7 DEF InPast
  <2> QED BY <1>4, <1>5, <1>7, <2>3, <2>4, <2>5 DEF Placed, Bases, s, k, so, si
<1> QED BY <1>6, <1>7

-----------------------------------------------------------------------------
-----------------------------------------------------------------------------
(*****************************************************************************)
(* What is written, by points and by lines.                                  *)
(*****************************************************************************)
\* n more points of a block, and n more lines of a row.
MorePoints(c, b, d, n) == {PointWrite(c, b, d + l, j) : j \in 0..(c.r - 1), l \in 0..(n - 1)}
PointsGrow(c, b, d, n) ==
  PointsDone(c, b, d + n) = PointsDone(c, b, d) \cup MorePoints(c, b, d, n)

\* n points more of a block.
LEMMA PointsAdded ==
  ASSUME NEW c, NEW b \in Nat, NEW d \in Nat, NEW n \in Nat
  PROVE  PointsGrow(c, b, d, n)
<1> DEFINE J == 0..(c.r - 1)
           Before == {PointWrite(c, k, i, j) : k \in 0..(b - 1), i \in 0..(Points(c) - 1), j \in J}
           Upto(m) == {PointWrite(c, b, i, j) : i \in 0..(m - 1), j \in J}
           New == {PointWrite(c, b, d + l, j) : j \in J, l \in 0..(n - 1)}
<1> HIDE DEF J
<1>1. Upto(d + n) \subseteq Upto(d) \cup New
  <2> SUFFICES ASSUME NEW i \in 0..(d + n - 1), NEW j \in J
               PROVE  PointWrite(c, b, i, j) \in Upto(d) \cup New
    OBVIOUS
  <2>1. CASE i < d BY <2>1
  <2>2. CASE i >= d
    <3>1. i - d \in 0..(n - 1) /\ i = d + (i - d)
      BY <2>2
    <3> QED BY <3>1
  <2> QED BY <2>1, <2>2
<1>2. Upto(d) \subseteq Upto(d + n)
  OBVIOUS
<1>3. New \subseteq Upto(d + n)
  <2> SUFFICES ASSUME NEW l \in 0..(n - 1), NEW j \in J
               PROVE  PointWrite(c, b, d + l, j) \in Upto(d + n)
    OBVIOUS
  <2>1. d + l \in 0..(d + n - 1)
    OBVIOUS
  <2> QED BY <2>1
<1>4. PointsDone(c, b, d + n) = Before \cup Upto(d + n) /\ PointsDone(c, b, d) = Before \cup Upto(d)
  BY DEF PointsDone, J
<1> HIDE DEF Before, Upto, New
<1>5. PointsDone(c, b, d + n) = PointsDone(c, b, d) \cup New
  BY <1>1, <1>2, <1>3, <1>4
<1> QED BY <1>5 DEF New, J, MorePoints, PointsGrow

MoreLines(c, b, i, d, n) == {LineWrite(c, b, i, d + l, j) : j \in 0..(c.r - 1), l \in 0..(n - 1)}
LinesGrow(c, b, i, d, n) ==
  LinesDone(c, b, i, d + n) = LinesDone(c, b, i, d) \cup MoreLines(c, b, i, d, n)

\* n lines more of a row.
LEMMA LinesAdded ==
  ASSUME NEW c, NEW b \in Nat, NEW i \in Nat, NEW d \in Nat, NEW n \in Nat
  PROVE  LinesGrow(c, b, i, d, n)
<1> DEFINE J == 0..(c.r - 1)
           Before == {LineWrite(c, k, m, p, j) : k \in 0..(b - 1), m \in 0..(c.ido - 1),
                                                 p \in 0..(c.w - 1), j \in J}
                       \cup {LineWrite(c, b, m, p, j) : m \in 0..(i - 1), p \in 0..(c.w - 1),
                                                        j \in J}
           Upto(m) == {LineWrite(c, b, i, p, j) : p \in 0..(m - 1), j \in J}
           New == {LineWrite(c, b, i, d + l, j) : j \in J, l \in 0..(n - 1)}
<1> HIDE DEF J
<1>1. Upto(d + n) \subseteq Upto(d) \cup New
  <2> SUFFICES ASSUME NEW p \in 0..(d + n - 1), NEW j \in J
               PROVE  LineWrite(c, b, i, p, j) \in Upto(d) \cup New
    OBVIOUS
  <2>1. CASE p < d BY <2>1
  <2>2. CASE p >= d
    <3>1. p - d \in 0..(n - 1) /\ p = d + (p - d)
      BY <2>2
    <3> QED BY <3>1
  <2> QED BY <2>1, <2>2
<1>2. Upto(d) \subseteq Upto(d + n)
  OBVIOUS
<1>3. New \subseteq Upto(d + n)
  <2> SUFFICES ASSUME NEW l \in 0..(n - 1), NEW j \in J
               PROVE  LineWrite(c, b, i, d + l, j) \in Upto(d + n)
    OBVIOUS
  <2>1. d + l \in 0..(d + n - 1)
    OBVIOUS
  <2> QED BY <2>1
<1>4. LinesDone(c, b, i, d + n) = Before \cup Upto(d + n)
      /\ LinesDone(c, b, i, d) = Before \cup Upto(d)
  BY DEF LinesDone, J
<1> HIDE DEF Before, Upto, New
<1>5. LinesDone(c, b, i, d + n) = LinesDone(c, b, i, d) \cup New
  BY <1>1, <1>2, <1>3, <1>4
<1> QED BY <1>5 DEF New, J, MoreLines, LinesGrow

\* A row with all its lines done is the next with none.
LEMMA RowFull ==
  ASSUME NEW c, NEW b \in Nat, NEW i \in Nat, c.w \in Nat
  PROVE  LinesDone(c, b, i, c.w) = LinesDone(c, b, i + 1, 0)
<1> DEFINE J == 0..(c.r - 1)
           P == 0..(c.w - 1)
           Before == {LineWrite(c, k, m, p, j) : k \in 0..(b - 1), m \in 0..(c.ido - 1),
                                                 p \in P, j \in J}
           Rows(m0) == {LineWrite(c, b, m, p, j) : m \in 0..(m0 - 1), p \in P, j \in J}
           This == {LineWrite(c, b, i, p, j) : p \in P, j \in J}
           None == {LineWrite(c, b, i + 1, p, j) : p \in 0..(0 - 1), j \in J}
<1>0. LinesDone(c, b, i, c.w) = Before \cup Rows(i) \cup This
      /\ LinesDone(c, b, i + 1, 0) = Before \cup Rows(i + 1) \cup None
  BY DEF LinesDone
<1> HIDE DEF J, P
<1>1. Rows(i + 1) \subseteq Rows(i) \cup This
  <2> SUFFICES ASSUME NEW m \in 0..(i + 1 - 1), NEW p \in P, NEW j \in J
               PROVE  LineWrite(c, b, m, p, j) \in Rows(i) \cup This
    OBVIOUS
  <2>1. m \in 0..(i - 1) \/ m = i
    OBVIOUS
  <2> QED BY <2>1
<1>2. Rows(i) \subseteq Rows(i + 1) /\ This \subseteq Rows(i + 1)
  <2>1. i \in 0..(i + 1 - 1) /\ 0..(i - 1) \subseteq 0..(i + 1 - 1)
    OBVIOUS
  <2> QED BY <2>1
<1>3. None = {}
  OBVIOUS
<1> HIDE DEF Before, Rows, This, None
<1> QED BY <1>0, <1>1, <1>2, <1>3

\* A block with all its rows done is the next with none.
LEMMA RowsFull ==
  ASSUME NEW c, NEW b \in Nat, c.ido \in Nat
  PROVE  LinesDone(c, b, c.ido, 0) = LinesDone(c, b + 1, 0, 0)
<1> DEFINE J == 0..(c.r - 1)
           P == 0..(c.w - 1)
           I == 0..(c.ido - 1)
           Before(k0) == {LineWrite(c, k, m, p, j) : k \in 0..(k0 - 1), m \in I, p \in P, j \in J}
           This == {LineWrite(c, b, m, p, j) : m \in I, p \in P, j \in J}
           None == {LineWrite(c, b, c.ido, p, j) : p \in 0..(0 - 1), j \in J}
           NoRow == {LineWrite(c, b + 1, m, p, j) : m \in 0..(0 - 1), p \in P, j \in J}
           NoLine == {LineWrite(c, b + 1, 0, p, j) : p \in 0..(0 - 1), j \in J}
<1>0. LinesDone(c, b, c.ido, 0) = Before(b) \cup This \cup None
      /\ LinesDone(c, b + 1, 0, 0) = Before(b + 1) \cup NoRow \cup NoLine
  BY DEF LinesDone
<1> HIDE DEF J, P, I
<1>1. Before(b + 1) \subseteq Before(b) \cup This
  <2> SUFFICES ASSUME NEW k \in 0..(b + 1 - 1), NEW m \in I, NEW p \in P, NEW j \in J
               PROVE  LineWrite(c, k, m, p, j) \in Before(b) \cup This
    OBVIOUS
  <2>1. k \in 0..(b - 1) \/ k = b
    OBVIOUS
  <2> QED BY <2>1
<1>2. Before(b) \subseteq Before(b + 1) /\ This \subseteq Before(b + 1)
  <2>1. b \in 0..(b + 1 - 1) /\ 0..(b - 1) \subseteq 0..(b + 1 - 1)
    OBVIOUS
  <2> QED BY <2>1
<1>3. None = {} /\ NoRow = {} /\ NoLine = {}
  OBVIOUS
<1> HIDE DEF Before, This, None, NoRow, NoLine
<1> QED BY <1>0, <1>1, <1>2, <1>3

\* A block with all its points done is the next with none.
LEMMA PointsFull ==
  ASSUME NEW c, NEW b \in Nat, Points(c) \in Nat
  PROVE  PointsDone(c, b, Points(c)) = PointsDone(c, b + 1, 0)
<1> DEFINE J == 0..(c.r - 1)
           I == 0..(Points(c) - 1)
           Before(k0) == {PointWrite(c, k, i, j) : k \in 0..(k0 - 1), i \in I, j \in J}
           This == {PointWrite(c, b, i, j) : i \in I, j \in J}
           None == {PointWrite(c, b + 1, i, j) : i \in 0..(0 - 1), j \in J}
<1>0. PointsDone(c, b, Points(c)) = Before(b) \cup This
      /\ PointsDone(c, b + 1, 0) = Before(b + 1) \cup None
  BY DEF PointsDone
<1> HIDE DEF J, I
<1>1. Before(b + 1) \subseteq Before(b) \cup This
  <2> SUFFICES ASSUME NEW k \in 0..(b + 1 - 1), NEW i \in I, NEW j \in J
               PROVE  PointWrite(c, k, i, j) \in Before(b) \cup This
    OBVIOUS
  <2>1. k \in 0..(b - 1) \/ k = b
    OBVIOUS
  <2> QED BY <2>1
<1>2. Before(b) \subseteq Before(b + 1) /\ This \subseteq Before(b + 1)
  <2>1. b \in 0..(b + 1 - 1) /\ 0..(b - 1) \subseteq 0..(b + 1 - 1)
    OBVIOUS
  <2> QED BY <2>1
<1>3. None = {}
  OBVIOUS
<1> HIDE DEF Before, This, None
<1> QED BY <1>0, <1>1, <1>2, <1>3

\* Part of what is written is part of what will be.
LEMMA PointsWithin ==
  ASSUME NEW c, NEW n \in Nat, NEW b \in Nat, NEW d \in Nat, Points(c) \in Nat,
         b <= n, d <= Points(c), d = 0 \/ b < n
  PROVE  PointsDone(c, b, d) \subseteq PointsDone(c, n, 0)
<1> DEFINE J == 0..(c.r - 1)
           I == 0..(Points(c) - 1)
           Before(k0) == {PointWrite(c, k, i, j) : k \in 0..(k0 - 1), i \in I, j \in J}
           This == {PointWrite(c, b, i, j) : i \in 0..(d - 1), j \in J}
<1>0. PointsDone(c, b, d) = Before(b) \cup This /\ Before(n) \subseteq PointsDone(c, n, 0)
  BY DEF PointsDone
<1> HIDE DEF J
<1>1. Before(b) \subseteq Before(n)
  <2>1. 0..(b - 1) \subseteq 0..(n - 1)
    OBVIOUS
  <2> QED BY <2>1
<1>2. This \subseteq Before(n)
  <2> SUFFICES ASSUME NEW i \in 0..(d - 1), NEW j \in J
               PROVE  PointWrite(c, b, i, j) \in Before(n)
    OBVIOUS
  <2>1. i \in I /\ b \in 0..(n - 1)
    OBVIOUS
  <2> QED BY <2>1
<1> HIDE DEF Before, This
<1> QED BY <1>0, <1>1, <1>2

\* The same of the lines of a batch.
LEMMA LinesWithin ==
  ASSUME NEW c, NEW n \in Nat, NEW b \in Nat, NEW i \in Nat, NEW l \in Nat, c.ido \in Nat,
         c.w \in Nat, b <= n, i <= c.ido, l <= c.w, i < c.ido \/ l = 0, (i = 0 /\ l = 0) \/ b < n
  PROVE  LinesDone(c, b, i, l) \subseteq LinesDone(c, n, 0, 0)
<1> DEFINE J == 0..(c.r - 1)
           P == 0..(c.w - 1)
           I == 0..(c.ido - 1)
           Before(k0) == {LineWrite(c, k, m, p, j) : k \in 0..(k0 - 1), m \in I, p \in P, j \in J}
           Rows == {LineWrite(c, b, m, p, j) : m \in 0..(i - 1), p \in P, j \in J}
           This == {LineWrite(c, b, i, p, j) : p \in 0..(l - 1), j \in J}
<1>0. LinesDone(c, b, i, l) = Before(b) \cup Rows \cup This
      /\ Before(n) \subseteq LinesDone(c, n, 0, 0)
  BY DEF LinesDone
<1> HIDE DEF J, P, I
<1>1. Before(b) \subseteq Before(n)
  <2>1. 0..(b - 1) \subseteq 0..(n - 1)
    OBVIOUS
  <2> QED BY <2>1
<1>2. Rows \subseteq Before(n)
  <2> SUFFICES ASSUME NEW m \in 0..(i - 1), NEW p \in P, NEW j \in J
               PROVE  LineWrite(c, b, m, p, j) \in Before(n)
    OBVIOUS
  <2>1. m \in I /\ b \in 0..(n - 1)
    BY DEF I
  <2> QED BY <2>1
<1>3. This \subseteq Before(n)
  <2> SUFFICES ASSUME NEW p \in 0..(l - 1), NEW j \in J
               PROVE  LineWrite(c, b, i, p, j) \in Before(n)
    OBVIOUS
  <2>1. i \in I /\ b \in 0..(n - 1) /\ p \in P
    BY DEF I, P
  <2> QED BY <2>1
<1> HIDE DEF Before, Rows, This
<1> QED BY <1>0, <1>1, <1>2, <1>3

-----------------------------------------------------------------------------
-----------------------------------------------------------------------------
(*****************************************************************************)
(* What a pass writes, block by block.                                       *)
(*****************************************************************************)
\* The writes of a pass, loop by loop.
PassDue(c, i, k, j) ==
  Write(c, i + c.ido * (k + c.l1 * j), j, i + c.ido * c.r * k, c.ido, TwEntry(c, 0, i, j),
        i = 0)
StridedDue(c, i, b, j) ==
  Write(c, b * c.bout + i + j * c.sout, j, b * c.bin + i, c.sin, TwEntry(c, b * c.dtw, i, j),
        i = 0 /\ IF b = 0 THEN c.bf ELSE c.br)
LastDue(c, k, j) ==
  Write(c, k + c.l1 * j, j, c.r * k, 1, NoTw, FALSE)
RunDue(c, i, b, j) ==
  Write(c, b * c.bout + i + c.sout * j, j, c.r * (b * c.ido + i), 1, NoTw, FALSE)
BatchDue(c, i, k, j, l) ==
  Write(c, (i + c.ido * (k + c.l1 * j)) * c.bout + l, j, (i + c.ido * c.r * k) * c.bin + l,
        c.ido * c.bin,
        IF i = 0 THEN NoTw ELSE LET e == (i - 1) * (c.r - 1) + j - 1 IN <<e, e>>, FALSE)

\* Each is where PointWrite and LineWrite say.
LEMMA PassPoint ==
  ASSUME NEW c, Sized(c), Ker(c).loop = "pass",
         NEW i \in Nat, NEW k \in Nat, NEW j \in 0..(c.r - 1)
  PROVE  PointWrite(c, k, i, j)
           = PassDue(c, i, k, j)
<1>0. c.ido \in Nat /\ c.l1 \in Nat /\ c.r \in Nat /\ j \in Nat
  BY Strides DEF Sized
<1>1. OutStart(c, k) = c.ido * k /\ InStart(c, k) = (c.r * c.ido) * k
  BY DEF OutStart, InStart
<1>2. ~Packed(c) /\ InStep(c) = c.ido /\ OutStride(c) = c.l1 * c.ido /\ InPast(c, i) = i
  BY DEF Packed, InStep, InStride, OutStride, InPast
<1>3. PointTw(c, k, i, j) = TwEntry(c, 0, i, j)
  BY <1>2 DEF PointTw, TwStart
<1>4. FirstOf(c, k) = TRUE
  BY DEF FirstOf
<1>5. (c.ido * k + i) + j * (c.l1 * c.ido) = i + c.ido * (k + c.l1 * j)
  <2>1. j * (c.l1 * c.ido) = c.ido * (c.l1 * j)
    BY <1>0
  <2>2. c.ido * (k + c.l1 * j) = c.ido * k + c.ido * (c.l1 * j)
    BY <1>0
  <2>3. c.ido * k \in Nat /\ c.ido * (c.l1 * j) \in Nat
    BY <1>0
  <2> QED BY <1>0, <2>1, <2>2, <2>3
<1>6. (c.r * c.ido) * k + i = i + c.ido * c.r * k
  <2>1. (c.r * c.ido) * k = c.ido * c.r * k /\ c.ido * c.r * k \in Nat
    BY <1>0
  <2> QED BY <1>0, <2>1
<1>7. (i = 0 /\ FirstOf(c, k)) = (i = 0)
  BY <1>4
<1> QED BY <1>1, <1>2, <1>3, <1>5, <1>6, <1>7 DEF PointWrite, PassDue

\* A point of a strided call.
LEMMA StridedPoint ==
  ASSUME NEW c, Sized(c), Ker(c).loop = "strided",
         NEW i \in Nat, NEW b \in Nat, NEW j \in 0..(c.r - 1)
  PROVE  PointWrite(c, b, i, j)
           = StridedDue(c, i, b, j)
<1>0. c.bout \in Nat /\ c.bin \in Nat /\ c.dtw \in Nat
  BY DEF Sized
<1>1. OutStart(c, b) = b * c.bout /\ InStart(c, b) = b * c.bin /\ TwStart(c, b) = b * c.dtw
  BY <1>0 DEF OutStart, InStart, TwStart
<1>2. ~Packed(c) /\ InStep(c) = c.sin /\ OutStride(c) = c.sout /\ InPast(c, i) = i
  BY DEF Packed, InStep, InStride, OutStride, InPast
<1>3. PointTw(c, b, i, j) = TwEntry(c, b * c.dtw, i, j)
  BY <1>1, <1>2 DEF PointTw
<1>4. FirstOf(c, b) = IF b = 0 THEN c.bf ELSE c.br
  BY DEF FirstOf
<1> QED BY <1>1, <1>2, <1>3, <1>4 DEF PointWrite, StridedDue

\* A block of a final pass: each block is one point of the loop.
LEMMA LastPoint ==
  ASSUME NEW c, Sized(c), Ker(c).loop = "last",
         NEW k \in Nat, NEW b \in Nat, NEW j \in 0..(c.r - 1)
  PROVE  PointWrite(c, b, k, j)
           = LastDue(c, k, j)
<1>0. c.l1 \in Nat /\ c.r \in Nat /\ j \in Nat /\ c.r * k \in Nat /\ c.l1 * j = j * c.l1
  BY Strides DEF Sized
<1>1. OutStart(c, b) = 0 /\ InStart(c, b) = 0
  BY DEF OutStart, InStart
<1>2. Packed(c) /\ InStep(c) = 1 /\ OutStride(c) = c.l1 /\ InPast(c, k) = c.r * k
  BY DEF Packed, InStep, OutStride, InPast
<1>3. PointTw(c, b, k, j) = NoTw
  BY <1>2 DEF PointTw
<1>4. FirstOf(c, b) = FALSE
  BY DEF FirstOf
<1>5. (0 + k) + j * c.l1 = k + c.l1 * j /\ 0 + c.r * k = c.r * k
  BY <1>0
<1>6. (k = 0 /\ FirstOf(c, b)) = FALSE
  BY <1>4
<1> QED BY <1>1, <1>2, <1>3, <1>5, <1>6 DEF PointWrite, LastDue

\* A point of a run.
LEMMA RunPoint ==
  ASSUME NEW c, Sized(c), Ker(c).loop = "run",
         NEW i \in Nat, NEW b \in Nat, NEW j \in 0..(c.r - 1)
  PROVE  PointWrite(c, b, i, j)
           = RunDue(c, i, b, j)
<1>0. c.ido \in Nat /\ c.bout \in Nat /\ c.sout \in Nat /\ c.r \in Nat /\ j \in Nat
  BY Strides DEF Sized
<1>1. OutStart(c, b) = b * c.bout /\ InStart(c, b) = (c.r * c.ido) * b
  BY <1>0 DEF OutStart, InStart
<1>2. Packed(c) /\ InStep(c) = 1 /\ OutStride(c) = c.sout /\ InPast(c, i) = c.r * i
  BY DEF Packed, InStep, OutStride, InPast
<1>3. PointTw(c, b, i, j) = NoTw
  BY <1>2 DEF PointTw
<1>4. (i = 0 /\ FirstOf(c, b)) = FALSE
  BY DEF FirstOf
<1>5. j * c.sout = c.sout * j
  BY <1>0
<1>6. (c.r * c.ido) * b + c.r * i = c.r * (b * c.ido + i)
  <2>1. c.r * (b * c.ido + i) = c.r * (b * c.ido) + c.r * i
    BY <1>0
  <2>2. c.r * (b * c.ido) = (c.r * c.ido) * b
    BY <1>0
  <2> QED BY <2>1, <2>2
<1> QED BY <1>1, <1>2, <1>3, <1>4, <1>5, <1>6 DEF PointWrite, RunDue

\* A line of a batch, whose rows lie a stride apart.
LEMMA BatchLine ==
  ASSUME NEW c, Sized(c), Ker(c).loop = "batch",
         NEW i \in Nat, NEW k \in Nat, NEW l \in Nat, NEW j \in 0..(c.r - 1)
  PROVE  LineWrite(c, k, i, l, j)
           = BatchDue(c, i, k, j, l)
<1>0. c.ido \in Nat /\ c.l1 \in Nat /\ c.bin \in Nat /\ c.bout \in Nat /\ c.r \in Nat /\ j \in Nat
      /\ c.sin = c.ido * c.bin /\ c.sout = c.l1 * c.ido * c.bout
  BY Strides DEF Sized
<1>1. OutStart(c, k) = (c.ido * c.bout) * k /\ InStart(c, k) = (c.r * c.sin) * k
  BY DEF OutStart, InStart
<1>2. InStride(c) = c.ido * c.bin /\ OutStride(c) = c.l1 * c.ido * c.bout
  BY <1>0 DEF InStride, OutStride
<1>3. (((c.ido * c.bout) * k + i * c.bout) + l) + j * (c.l1 * c.ido * c.bout)
        = (i + c.ido * (k + c.l1 * j)) * c.bout + l
  <2>1. (i + c.ido * (k + c.l1 * j)) * c.bout
          = i * c.bout + (c.ido * (k + c.l1 * j)) * c.bout
    BY <1>0
  <2>2. (c.ido * (k + c.l1 * j)) * c.bout = (c.ido * c.bout) * k + (c.ido * c.bout) * (c.l1 * j)
    BY <1>0
  <2>3. (c.ido * c.bout) * (c.l1 * j) = j * (c.l1 * c.ido * c.bout)
    BY <1>0
  <2>4. i * c.bout \in Nat /\ (c.ido * c.bout) * k \in Nat /\ j * (c.l1 * c.ido * c.bout) \in Nat
    BY <1>0
  <2> QED BY <2>1, <2>2, <2>3, <2>4
<1>4. ((c.r * c.sin) * k + i * c.bin) + l = (i + c.ido * c.r * k) * c.bin + l
  <2>1. (i + c.ido * c.r * k) * c.bin = i * c.bin + (c.ido * c.r * k) * c.bin
    BY <1>0
  <2>2. (c.ido * c.r * k) * c.bin = (c.r * (c.ido * c.bin)) * k
    BY <1>0
  <2>3. i * c.bin \in Nat /\ (c.r * (c.ido * c.bin)) * k \in Nat
    BY <1>0
  <2> QED BY <1>0, <2>1, <2>2, <2>3
<1>5. LineTw(c, i, j) = IF i = 0 THEN NoTw
                        ELSE LET e == (i - 1) * (c.r - 1) + j - 1 IN <<e, e>>
  <2>1. (i - 1) * (c.r - 1) \in Int
    BY <1>0
  <2>2. (i - 1) * (c.r - 1) + (j - 1) = (i - 1) * (c.r - 1) + j - 1
    BY <1>0, <2>1
  <2> QED BY <2>2 DEF LineTw
<1> QED BY <1>1, <1>2, <1>3, <1>4, <1>5 DEF LineWrite, BatchDue

\* A kernel that has not begun has written nothing.
LEMMA NoBlocksDone ==
  ASSUME NEW c PROVE BlocksDone(c, 0) = {}
<1>1. PointsDone(c, 0, 0) = {}
  BY DEF PointsDone
<1>2. LinesDone(c, 0, 0, 0) = {}
  BY DEF LinesDone
<1> QED BY <1>1, <1>2 DEF BlocksDone

\* The blocks together are the pass.
LEMMA PassOfBlocks ==
  ASSUME NEW c, Sized(c)
  PROVE  BlocksDone(c, Blocks(c)) = Stockham(c)
<1> DEFINE J == 0..(c.r - 1)
           L1 == 0..(c.l1 - 1)
           Ido == 0..(c.ido - 1)
           P == 0..(c.w - 1)
<1>0. c.ido \in Nat /\ c.l1 \in Nat /\ c.w \in Nat /\ c.r \in Nat
  BY Strides DEF Sized
<1>1. CASE Ker(c).loop = "pass"
  <2> DEFINE Due(i, k, j) == PassDue(c, i, k, j)
  <2>1. Stockham(c) = {Due(i, k, j) : i \in Ido, k \in L1, j \in J}
    BY <1>1 DEF Stockham, Ker, PassDue
  <2>2. BlocksDone(c, Blocks(c)) = {PointWrite(c, k, i, j) : k \in L1, i \in Ido, j \in J}
    BY <1>1 DEF BlocksDone, Blocks, Points, PointsDone
  <2>3. \A i \in Ido, k \in L1, j \in J : PointWrite(c, k, i, j) = Due(i, k, j)
    BY <1>0, <1>1, PassPoint
  <2> HIDE DEF Due, J, L1, Ido
  <2> QED BY <2>1, <2>2, <2>3
<1>2. CASE Ker(c).loop = "strided"
  <2> DEFINE Due(i, b, j) == StridedDue(c, i, b, j)
  <2>1. Stockham(c) = {Due(i, b, j) : i \in Ido, b \in L1, j \in J}
    BY <1>2 DEF Stockham, Ker, StridedDue
  <2>2. BlocksDone(c, Blocks(c)) = {PointWrite(c, k, i, j) : k \in L1, i \in Ido, j \in J}
    BY <1>2 DEF BlocksDone, Blocks, Points, PointsDone
  <2>3. \A i \in Ido, k \in L1, j \in J : PointWrite(c, k, i, j) = Due(i, k, j)
    BY <1>0, <1>2, StridedPoint
  <2> HIDE DEF Due, J, L1, Ido
  <2> QED BY <2>1, <2>2, <2>3
<1>3. CASE Ker(c).loop = "last"
  <2> DEFINE Due(k, j) == LastDue(c, k, j)
  <2>1. Stockham(c) = {Due(k, j) : k \in L1, j \in J}
    BY <1>3 DEF Stockham, Ker, LastDue
  <2>2. BlocksDone(c, Blocks(c)) = {PointWrite(c, b, k, j) : b \in {0}, k \in L1, j \in J}
    BY <1>3 DEF BlocksDone, Blocks, Points, PointsDone
  <2>3. \A k \in L1, j \in J : PointWrite(c, 0, k, j) = Due(k, j)
    BY <1>0, <1>3, LastPoint
  <2> HIDE DEF Due, J, L1, Ido
  <2> QED BY <2>1, <2>2, <2>3
<1>4. CASE Ker(c).loop = "run"
  <2> DEFINE Due(i, b, j) == RunDue(c, i, b, j)
  <2>1. Stockham(c) = {Due(i, b, j) : b \in L1, i \in Ido, j \in J}
    BY <1>4 DEF Stockham, Ker, RunDue
  <2>2. BlocksDone(c, Blocks(c)) = {PointWrite(c, k, i, j) : k \in L1, i \in Ido, j \in J}
    BY <1>4 DEF BlocksDone, Blocks, Points, PointsDone
  <2>3. \A i \in Ido, k \in L1, j \in J : PointWrite(c, k, i, j) = Due(i, k, j)
    BY <1>0, <1>4, RunPoint
  <2> HIDE DEF Due, J, L1, Ido
  <2> QED BY <2>1, <2>2, <2>3
<1>5. CASE Ker(c).loop = "batch"
  <2> DEFINE Due(i, k, j, l) == BatchDue(c, i, k, j, l)
  <2>1. Stockham(c) = {Due(i, k, j, l) : i \in Ido, k \in L1, j \in J, l \in P}
    BY <1>5 DEF Stockham, Ker, BatchDue
  <2>2. BlocksDone(c, Blocks(c))
          = {LineWrite(c, k, i, l, j) : k \in L1, i \in Ido, l \in P, j \in J}
    BY <1>5 DEF BlocksDone, Blocks, Points, LinesDone
  <2>3. \A i \in Ido, k \in L1, j \in J, l \in P : LineWrite(c, k, i, l, j) = Due(i, k, j, l)
    BY <1>0, <1>5, BatchLine
  <2> HIDE DEF Due, J, L1, Ido, P
  <2> QED BY <2>1, <2>2, <2>3
<1> QED BY <1>1, <1>2, <1>3, <1>4, <1>5, Strides

-----------------------------------------------------------------------------
-----------------------------------------------------------------------------
(*****************************************************************************)
(* The twiddle table and its cursor.                                         *)
(*****************************************************************************)
\* Point i is in the group of g that starts at a.
Grouping(n, group, i, a, g) == TwGroup(n, group, i) = <<a, g>>

\* The points of a whole group.
LEMMA WholeGroup ==
  ASSUME NEW n \in Nat, NEW g \in {2, 4, 8}, NEW m \in Nat, NEW q \in 0..(g - 1),
         m < n \div g
  PROVE  Grouping(n, g, g * m + q, g * m, g)
<1> DEFINE i == g * m + q
<1>1. CASE g = 2
  <2>1. i \div 2 = m /\ 2 * (i \div 2) = 2 * m
    BY <1>1
  <2> QED BY <1>1, <2>1 DEF Grouping, TwGroup
<1>2. CASE g = 4
  <2>1. i \in Nat /\ 4 * (i \div 4) = 4 * m /\ i < 4 * (n \div 4)
    BY <1>2
  <2> HIDE DEF i
  <2>2. TwGroup(n, 4, i) = <<4 * (i \div 4), 4>>
    BY <2>1 DEF TwGroup
  <2>3. TwGroup(n, 4, i) = <<4 * m, 4>>
    BY <2>1, <2>2
  <2> QED BY <1>2, <2>3 DEF Grouping, i
<1>3. CASE g = 8
  <2>1. i \div 8 = m /\ 8 * (i \div 8) = 8 * m
    BY <1>3
  <2> QED BY <1>3, <2>1 DEF Grouping, TwGroup
<1> QED BY <1>1, <1>2, <1>3

\* The two points that fill no group of four.
LEMMA PairGroup ==
  ASSUME NEW n \in Nat, (n \div 2) % 2 = 1, NEW q \in {0, 1}
  PROVE  Grouping(n, 4, 4 * (n \div 4) + q, 4 * (n \div 4), 2)
<1> DEFINE whole == 4 * (n \div 4)
<1>1. whole \in Nat /\ whole + q >= whole /\ whole + q < 2 * (n \div 2)
  OBVIOUS
<1> HIDE DEF whole
<1>2. TwGroup(n, 4, whole + q) = <<whole, 2>>
  BY <1>1 DEF TwGroup, whole
<1> QED BY <1>2 DEF Grouping, whole

\* The odd point; arm64's float64 table pads its group to a pair.
LEMMA SingleGroup ==
  ASSUME NEW n \in Nat, n % 2 = 1, NEW g \in {2, 4}
  PROVE  /\ 2 * (n \div 2) = n - 1
         /\ Grouping(n, g, n - 1, n - 1, IF g = 2 THEN 2 ELSE 1)
<1>1. 2 * (n \div 2) = n - 1
  OBVIOUS
<1>2. CASE g = 2
  <2>1. 2 * ((n - 1) \div 2) = n - 1
    OBVIOUS
  <2>2. TwGroup(n, 2, n - 1) = <<2 * ((n - 1) \div 2), 2>>
    BY DEF TwGroup
  <2> QED BY <1>1, <1>2, <2>1, <2>2 DEF Grouping
<1>3. CASE g = 4
  <2>1. n - 1 >= 4 * (n \div 4) /\ n - 1 >= 2 * (n \div 2)
    OBVIOUS
  <2>2. TwGroup(n, 4, n - 1) = <<n - 1, 1>>
    BY <2>1 DEF TwGroup
  <2> QED BY <1>1, <1>3, <2>2 DEF Grouping
<1> QED BY <1>2, <1>3

\* The cursor finds twiddle j of the point l points into what the body has left.
TwFound(g, p, j, l, base, i) == Tw(g, p, j, l) = TwEntry(call, base, i, j)

\* In a group that starts at point a, where the cursor stands, the body finds
\* each point's own entries: the table is laid out as the loop walks it
\* (pass.go:124).
LEMMA TwCursor ==
  ASSUME Sized(call), NEW base \in Int, NEW a \in Int, NEW g \in Int, NEW p \in Int,
         NEW l \in Int, NEW j \in Int, NEW i \in Int, i = (a + p) + l,
         tw = base + Runs(call) * a, Grouping(call.ido, Ker(call).group, i, a, g)
  PROVE  TwFound(g, p, j, l, base, i)
<1> DEFINE runs == IF Ker(call).dup THEN 2 ELSE 1
           q == call.r - 1
<1>0. runs \in Int /\ q \in Int /\ Runs(call) = q * runs
  BY Strides DEF Runs
<1>1. TwGroup(call.ido, Ker(call).group, i) = <<a, g>>
  BY DEF Grouping
<1>2. TwEntry(call, base, i, j)
        = LET e == base + runs * (q * a + (j - 1) * g) + i - a
          IN <<e, IF Ker(call).dup THEN e + g ELSE e>>
  BY <1>1 DEF TwEntry, Ker
<1>3. Tw(g, p, j, l)
        = LET e == tw + runs * (j - 1) * g + p + l
          IN <<e, IF Ker(call).dup THEN e + g ELSE e>>
  BY Named DEF Tw
<1> HIDE DEF runs, q
<1>4. base + runs * (q * a + (j - 1) * g) + i - a = tw + runs * (j - 1) * g + p + l
  <2>1. runs * (q * a + (j - 1) * g) = runs * (q * a) + runs * ((j - 1) * g)
    BY <1>0
  <2>2. runs * (q * a) = (q * runs) * a /\ runs * ((j - 1) * g) = runs * (j - 1) * g
    BY <1>0
  <2>3. (q * runs) * a \in Int /\ runs * (j - 1) * g \in Int
    BY <1>0
  <2>4. tw = base + (q * runs) * a
    BY <1>0
  <2> QED BY <2>1, <2>2, <2>3, <2>4
<1>5. TwEntry(call, base, i, j) = Tw(g, p, j, l)
  BY <1>2, <1>3, <1>4
<1> QED BY <1>5 DEF TwFound

-----------------------------------------------------------------------------
-----------------------------------------------------------------------------
(*****************************************************************************)
(* A body of a block.                                                        *)
(*****************************************************************************)
\* The starts of block b are of their types.
Starts(c, b) == InStart(c, b) \in Nat /\ OutStart(c, b) \in Nat /\ TwStart(c, b) \in Nat
                /\ FirstOf(c, b) \in BOOLEAN

\* The starts of a block are addresses.
LEMMA Started ==
  ASSUME NEW c, Sized(c), NEW b \in Nat
  PROVE  Starts(c, b)
<1>0. c.ido \in Nat /\ c.bin \in Nat /\ c.bout \in Nat /\ c.dtw \in Nat /\ c.sin \in Nat
      /\ c.r \in Nat
  BY Strides DEF Sized
<1>1. c.r * c.ido \in Nat /\ c.r * c.sin \in Nat /\ c.ido * c.bout \in Nat /\ c.bin * b \in Nat
      /\ c.ido * b \in Nat /\ c.bout * b \in Nat /\ c.dtw * b \in Nat
  BY <1>0
<1>2. (c.r * c.ido) * b \in Nat /\ (c.r * c.sin) * b \in Nat /\ (c.ido * c.bout) * b \in Nat
  BY <1>1
<1>3. InStart(c, b) \in Nat
  BY <1>1, <1>2, Strides DEF InStart
<1>4. OutStart(c, b) \in Nat
  BY <1>1, <1>2, Strides DEF OutStart
<1>5. TwStart(c, b) \in Nat /\ FirstOf(c, b) \in BOOLEAN
  BY <1>1, Strides DEF TwStart, FirstOf, Sized
<1> QED BY <1>3, <1>4, <1>5 DEF Starts

\* What a body of n points that starts at point d of block b leaves.
LeftAt(b, d, n) ==
  /\ ch' = PointsDone(call, b, d + n)
  /\ Placed(call, inb', outb', InStart(call, b) + InPast(call, d + Passed(call, n)),
            OutStart(call, b) + (d + Passed(call, n)))
  /\ first' = FALSE
  /\ Bases(inb') /\ Bases(outb')

\* A body of n points whose cursor is right writes the next n points of its
\* block, point 0 kept if it is among them, and moves its streams past them.
LEMMA BodyStep ==
  ASSUME Sized(call), call' = call, NEW b \in Nat, NEW d \in Nat, NEW n \in Nat, NEW g, NEW p,
         Bases(inb), Bases(outb), first \in BOOLEAN,
         Placed(call, inb, outb, InStart(call, b) + InPast(call, d), OutStart(call, b) + d),
         ch = PointsDone(call, b, d), first <=> (d = 0 /\ FirstOf(call, b)),
         Body(n, g, p),
         ~Packed(call) => \A j \in 1..(call.r - 1), l \in 0..(n - 1) :
                            TwFound(g, p, j, l, TwStart(call, b), d + l)
  PROVE  LeftAt(b, d, n)
<1> DEFINE x == InStart(call, b) + InPast(call, d)
           y == OutStart(call, b) + d
           W == [j \in 1..r-1 |-> [l \in 0..n-1 |-> IF Contiguous THEN NoTw ELSE Tw(g, p, j, l)]]
           s == Passed(call, n)
<1>0. /\ InStart(call, b) \in Nat /\ OutStart(call, b) \in Nat
      /\ FirstOf(call, b) \in BOOLEAN /\ InPast(call, d) \in Nat /\ x \in Nat /\ y \in Nat
  BY Started, Counts DEF Starts
<1>1. ch' = ch \cup Outputs(n, W, first) /\ Advance(n) /\ first' = FALSE
  BY DEF Body
<1>2. \A j \in 0..(call.r - 1), l \in 0..(n - 1) :
        BodyWrite(call, x, y, W, first, j, l) = PointWrite(call, b, d + l, j)
  <2> SUFFICES ASSUME NEW j \in 0..(call.r - 1), NEW l \in 0..(n - 1)
               PROVE  BodyWrite(call, x, y, W, first, j, l) = PointWrite(call, b, d + l, j)
    OBVIOUS
  <2>0. j \in Nat /\ l \in Nat /\ j * OutStride(call) \in Int /\ call.r \in Nat
    BY Strides
  <2>1. (y + l) + j * OutStride(call) = (OutStart(call, b) + (d + l)) + j * OutStride(call)
    BY <1>0, <2>0
  <2>2. x + InPast(call, l) = InStart(call, b) + InPast(call, d + l)
    <3>1. Adds(call, d, l) /\ InPast(call, l) \in Nat
      BY <2>0, Adding, Counts
    <3> QED BY <1>0, <3>1 DEF Adds
  <2>3. j # 0 => W[j][l] = PointTw(call, b, d + l, j)
    <3> SUFFICES ASSUME j # 0 PROVE W[j][l] = PointTw(call, b, d + l, j)
      OBVIOUS
    <3>1. j \in 1..(call.r - 1) /\ r = call.r
      BY <2>0, Named
    <3>2. W[j][l] = IF Contiguous THEN NoTw ELSE Tw(g, p, j, l)
      BY <3>1
    <3>3. CASE Packed(call)
      BY <3>2, <3>3, Named DEF PointTw
    <3>4. CASE ~Packed(call)
      <4>1. TwFound(g, p, j, l, TwStart(call, b), d + l)
        BY <3>1, <3>4
      <4> QED BY <3>2, <3>4, <4>1, Named DEF PointTw, TwFound
    <3> QED BY <3>3, <3>4
  <2>4. ((first /\ l = 0) /\ j > 0) <=> ((d + l = 0 /\ FirstOf(call, b)) /\ j > 0)
    BY <2>0
  <2>5. ((first /\ l = 0) /\ j > 0) = ((d + l = 0 /\ FirstOf(call, b)) /\ j > 0)
    BY <2>4
  <2>6. (IF j = 0 THEN NoTw ELSE W[j][l]) = (IF j = 0 THEN NoTw ELSE PointTw(call, b, d + l, j))
    BY <2>3
  <2> HIDE DEF x, y, W
  <2> QED BY <2>1, <2>2, <2>5, <2>6 DEF BodyWrite, PointWrite, Write
<1>3. Outputs(n, W, first) = {BodyWrite(call, x, y, W, first, j, l) : j \in 0..(call.r - 1),
                                                                   l \in 0..(n - 1)}
  <2> HIDE DEF W
  <2>1. x \in Int /\ y \in Int
    BY <1>0
  <2> HIDE DEF x, y
  <2>2. Placed(call, inb, outb, x, y)
    BY DEF x, y
  <2> QED BY <2>1, <2>2, BodyWrites
<1> HIDE DEF W, x, y
<1>4. Outputs(n, W, first) = MorePoints(call, b, d, n)
  BY <1>2, <1>3 DEF MorePoints
<1>5. ch' = PointsDone(call, b, d + n)
  <2>1. PointsGrow(call, b, d, n)
    BY PointsAdded
  <2> QED BY <1>1, <1>4, <2>1 DEF PointsGrow
<1>6. Placed(call, inb', outb', x + InPast(call, s), y + s) /\ Bases(inb') /\ Bases(outb')
  <2>1. x \in Int /\ y \in Int /\ Placed(call, inb, outb, x, y)
    BY <1>0 DEF x, y
  <2> QED BY <1>1, <2>1, BodyMoves
<1>7. s \in Nat
  BY DEF Passed
<1> HIDE DEF s
<1>8. x + InPast(call, s) = InStart(call, b) + InPast(call, d + s)
      /\ y + s = OutStart(call, b) + (d + s)
  <2>1. Adds(call, d, s) /\ InPast(call, s) \in Nat
    BY <1>7, Adding, Counts
  <2> QED BY <1>0, <1>7, <2>1 DEF x, y, Adds
<1> QED BY <1>1, <1>5, <1>6, <1>8 DEF LeftAt, s

-----------------------------------------------------------------------------
-----------------------------------------------------------------------------
(*****************************************************************************)
(* Types, and the end of a block.                                            *)
(*****************************************************************************)
\* TypeOK in the call's own terms.
Typed ==
  /\ call \in Calls
  /\ pc \in {"kloop", "group", "firstpair", "pair", "single", "row", "knext", "done"}
  /\ Bases(inb) /\ Bases(outb)
  /\ block \in Nat \X Nat
  /\ tw \in Nat /\ twBase \in Nat
  /\ blocks \in 0..call.l1
  /\ groups \in 0..Points(call)
  /\ part \in 0..Points(call) + call.w
  /\ first \in BOOLEAN

\* The two say the same.
LEMMA TypedIs == TypeOK <=> Typed
BY Named DEF TypeOK, Typed, Bases

\* And they do after a step.
LEMMA TypedWillBe == ASSUME Typed' PROVE TypeOK'
BY DEF TypeOK, Typed, Bases, K, Ker, Count, Points

\* The block a kernel is in is one of the call's.
LEMMA InSome ==
  ASSUME PassInv
  PROVE  /\ Typed /\ Sized(call) /\ Kept
         /\ B \in 0..Blocks(call) /\ Blocks(call) \in 1..call.l1
         /\ Starts(call, B)
         /\ pc \notin {"kloop", "done"} => B < Blocks(call)
<1>1. Typed /\ Kept
  BY TypedIs DEF PassInv
<1>2. Sized(call)
  BY <1>1, CallSized DEF Typed
<1>3. Blocks(call) \in 1..call.l1
  BY <1>2 DEF Blocks, Sized
<1>4. B \in 0..Blocks(call) /\ (pc \notin {"kloop", "done"} => B < Blocks(call))
  BY <1>1, <1>3 DEF Kept, B
<1>5. Starts(call, B)
  BY <1>2, <1>4, Started
<1> QED BY <1>1, <1>2, <1>3, <1>4, <1>5

\* A block done point by point, or row by row, is a block done.
LEMMA EndOfBlock ==
  ASSUME NEW c, Sized(c), NEW b \in Nat
  PROVE  /\ Ker(c).loop # "batch" => PointsDone(c, b, Points(c)) = BlocksDone(c, b + 1)
         /\ Ker(c).loop = "batch" => LinesDone(c, b, c.ido, 0) = BlocksDone(c, b + 1)
<1>1. Points(c) \in Nat /\ c.ido \in Nat
  BY Strides DEF Sized
<1>2. PointsDone(c, b, Points(c)) = PointsDone(c, b + 1, 0)
  BY <1>1, PointsFull
<1>3. LinesDone(c, b, c.ido, 0) = LinesDone(c, b + 1, 0, 0)
  BY <1>1, RowsFull
<1> QED BY <1>2, <1>3 DEF BlocksDone

\* What stays as it is while a kernel is inside a block.
Steady == UNCHANGED <<call, block, twBase, blocks>>

\* Inside a block the block's own state stays right.
LEMMA SteadyKept ==
  ASSUME Kept, Steady, blocks >= 1
  PROVE  Kept' /\ B' = B
<1>1. B' = B
  BY DEF Steady, B
<1> QED BY <1>1 DEF Kept, Steady

\* Every point of a block done.
LEMMA TailDone ==
  ASSUME PassInv, Steady, pc \notin {"kloop", "done"}, Ker(call).loop # "batch",
         ch' = PointsDone(call, B, Points(call)), pc' = AfterTail, part' = 0,
         Bases(inb'), Bases(outb'), tw' \in Nat, groups' \in 0..Points(call), first' \in BOOLEAN,
         Ker(call).loop # "last" /\ ~NeonPass(call) =>
           Placed(call, inb', outb', InStart(call, B) + InPast(call, Points(call)),
                  OutStart(call, B) + Points(call))
  PROVE  PassInv'
<1>0. call' = call /\ B \in Nat /\ blocks >= 1 /\ Sized(call) /\ Typed /\ Kept
  BY InSome DEF Steady, Kept
<1>1. Kept' /\ B' = B
  BY <1>0, SteadyKept
<1>2. ch' = BlocksDone(call, B + 1)
  BY <1>0, EndOfBlock
<1>3. Typed'
  <2>1. pc' \in {"knext", "done"}
    BY DEF AfterTail
  <2>2. part' \in 0..Points(call) + call.w
    BY <1>0, Strides DEF Sized
  <2> QED BY <1>0, <2>1, <2>2 DEF Typed, Bases, Steady
<1>4. CASE Ker(call).loop = "last"
  <2>1. pc' = "done"
    BY <1>4, Named DEF AfterTail
  <2>2. B + 1 = Blocks(call)
    BY <1>0, <1>4 DEF B, Blocks, Kept
  <2>3. AtEnd'
    BY <1>0, <1>2, <2>2 DEF AtEnd
  <2> QED BY <1>1, <1>3, <2>1, <2>3, TypedWillBe DEF PassInv
<1>5. CASE Ker(call).loop # "last"
  <2>1. pc' = "knext"
    BY <1>5, Named DEF AfterTail
  <2>2. Points(call) = call.ido
    BY <1>5 DEF Points
  <2>3. AtNext'
    BY <1>0, <1>1, <1>2, <1>5, <2>2 DEF AtNext
  <2> QED BY <1>1, <1>3, <2>1, <2>3, TypedWillBe DEF PassInv
<1> QED BY <1>4, <1>5

-----------------------------------------------------------------------------
-----------------------------------------------------------------------------
(*****************************************************************************)
(* BlockStart and Done.                                                      *)
(*****************************************************************************)
\* A base is whole strides past the first.
LEMMA BaseAnew ==
  ASSUME NEW x \in Nat, NEW span \in Nat, NEW s \in Nat, NEW b \in Nat
  PROVE  x + b * span * s = x + b * (span * s) /\ x + b * span * s \in Nat
<1>1. b * span * s = b * (span * s)
  OBVIOUS
<1>2. b * (span * s) \in Nat
  OBVIOUS
<1> QED BY <1>1, <1>2

\* Bases set one after the other make streams in line.
LEMMA LinedAnew ==
  ASSUME NEW x \in Nat, NEW span \in Nat, NEW s \in Nat, NEW n \in Nat, NEW g,
         \A b \in 0..(n - 1) : g[b] = x + b * span * s,
         NEW t, t = span * s
  PROVE  Lined(g, x, t, n) /\ \A b \in 0..(n - 1) : g[b] \in Nat
<1>1. \A b \in 0..(n - 1) : b \in Nat
  OBVIOUS
<1> QED BY <1>1, BaseAnew DEF Lined

\* kloop sets the bases of every stream from the block's, and enters the loop
\* over its groups, its only pair or its rows.
LEMMA BlockStarts ==
  ASSUME PassInv, BlockStart
  PROVE  PassInv'
<1> DEFINE x == InStart(call, B)
           y == OutStart(call, B)
           si == Ker(call).span * InStride(call)
           so == Ker(call).span * OutStride(call)
           n == Ker(call).bases
           whole == Points(call) \div Ker(call).group
<1>0. /\ Typed /\ Sized(call) /\ Kept /\ B \in 0..Blocks(call) /\ Starts(call, B)
      /\ pc = "kloop" /\ blocks > 0 /\ call' = call /\ Steady /\ AtBlock
      /\ blocks \in Nat
  BY InSome DEF BlockStart, Steady, PassInv, Kept, Typed
<1>s. /\ InStride(call) \in Nat /\ OutStride(call) \in Nat /\ Points(call) \in Nat
      /\ Ker(call).span \in Nat \ {0} /\ n \in Nat \ {0} /\ Ker(call).group \in {2, 4, 8}
      /\ Ker(call).loop \in {"pass", "strided", "last", "run", "batch"}
  BY <1>0, Strides
<1>1. Kept' /\ B' = B
  BY <1>0, SteadyKept
<1>2. x \in Nat /\ y \in Nat /\ TwStart(call, B) \in Nat /\ FirstOf(call, B) \in BOOLEAN
  BY <1>0 DEF Starts
<1>3. /\ ~Packed(call) => inb' = [b \in DOMAIN inb |-> x + b * Ker(call).span * InStride(call)]
      /\ Packed(call) => inb' = inb /\ inb[0] = x
      /\ outb' = [b \in DOMAIN outb |-> y + b * Ker(call).span * OutStride(call)]
  <2>1. CASE NeonPass(call)
    <3>1. block[1] = x /\ block[2] = y /\ ~Packed(call)
      BY <1>0, <2>1 DEF Kept, Packed, NeonPass
    <3> QED BY <2>1, <3>1, Named DEF BlockStart, NeonPass
  <2>2. CASE ~NeonPass(call)
    <3>1. inb[0] = x /\ outb[0] = y
      BY <1>0, <2>2 DEF AtBlock
    <3> QED BY <2>2, <3>1, Named DEF BlockStart, NeonPass
  <2> QED BY <2>1, <2>2
<1>4. Placed(call, inb', outb', x, y) /\ Bases(inb') /\ Bases(outb')
  <2>1. DOMAIN inb = 0..(n - 1) /\ DOMAIN outb = 0..(n - 1) /\ Bases(inb)
    BY <1>0 DEF Typed, Bases
  <2>a. si = Ker(call).span * InStride(call)
    OBVIOUS
  <2>b. so = Ker(call).span * OutStride(call)
    OBVIOUS
  <2>c. Ker(call).span \in Nat /\ n \in Nat /\ InStride(call) \in Nat /\ OutStride(call) \in Nat
    BY <1>s
  <2> HIDE DEF x, y, n, si, so
  <2>2. Lined(outb', y, so, n) /\ outb' \in [0..(n - 1) -> Nat]
    <3>1. \A b \in 0..(n - 1) : outb'[b] = y + b * Ker(call).span * OutStride(call)
      BY <1>3, <2>1
    <3>2. Lined(outb', y, so, n) /\ \A b \in 0..(n - 1) : outb'[b] \in Nat
      BY <3>1, <1>2, <2>b, <2>c, LinedAnew
    <3>3. outb' = [b \in 0..(n - 1) |-> outb'[b]]
      BY <1>3, <2>1
    <3> QED BY <3>2, <3>3
  <2>3. CASE Packed(call)
    BY <1>3, <2>1, <2>2, <2>3 DEF Placed, Bases, n, so
  <2>4. CASE ~Packed(call)
    <3>1. Lined(inb', x, si, n) /\ inb' \in [0..(n - 1) -> Nat]
      <4>1. \A b \in 0..(n - 1) : inb'[b] = x + b * Ker(call).span * InStride(call)
        BY <1>3, <2>1, <2>4
      <4>2. Lined(inb', x, si, n) /\ \A b \in 0..(n - 1) : inb'[b] \in Nat
        BY <4>1, <1>2, <2>a, <2>c, LinedAnew
      <4>3. inb' = [b \in 0..(n - 1) |-> inb'[b]]
        BY <1>3, <2>1, <2>4
      <4> QED BY <4>2, <4>3
    <3> QED BY <2>2, <2>4, <3>1 DEF Placed, Bases, n, si, so
  <2> QED BY <2>3, <2>4
<1>5. /\ tw' = TwStart(call, B) /\ part' = 0 /\ part = 0 /\ ch' = ch
      /\ groups' = IF Ker(call).loop = "batch" THEN call.ido ELSE whole
      /\ pc' = CASE Ker(call).loop = "batch" -> "row"
                 [] Ker(call).short /\ Ker(call).loop = "pass" /\ groups' = 0 -> "firstpair"
                 [] OTHER -> "group"
  BY <1>0, Named DEF BlockStart, AtBlock, Kept
<1>6. (first' <=> FirstOf(call, B)) /\ first' \in BOOLEAN
  <2>0. first' = CASE Ker(call).loop \in {"pass", "batch"} -> TRUE
                   [] Ker(call).loop = "strided" -> first
                   [] OTHER -> FALSE
    BY Named DEF BlockStart
  <2>1. CASE Ker(call).loop \in {"pass", "batch"}
    <3>1. first' = TRUE /\ FirstOf(call, B) = TRUE
      BY <2>0, <2>1 DEF FirstOf
    <3> QED BY <3>1
  <2>2. CASE Ker(call).loop = "strided"
    <3>1. first' = first /\ (first <=> FirstOf(call, B)) /\ first \in BOOLEAN
      BY <1>0, <2>0, <2>2 DEF AtBlock, Typed
    <3> QED BY <3>1
  <2>3. CASE Ker(call).loop \in {"last", "run"}
    <3>1. first' = FALSE /\ FirstOf(call, B) = FALSE
      BY <2>0, <2>3 DEF FirstOf
    <3> QED BY <3>1
  <2> QED BY <1>s, <2>1, <2>2, <2>3
<1>w. whole \in 0..Points(call)
  <2>1. CASE Ker(call).group = 2 BY <1>s, <2>1
  <2>2. CASE Ker(call).group = 4 BY <1>s, <2>2
  <2>3. CASE Ker(call).group = 8 BY <1>s, <2>3
  <2> QED BY <1>s, <2>1, <2>2, <2>3
<1> HIDE DEF x, y, whole, n
<1>7. Typed'
  <2>1. pc' \in {"row", "firstpair", "group"}
    BY <1>5
  <2>2. groups' \in 0..Points(call)
    BY <1>0, <1>5, <1>w DEF Points, Sized
  <2>3. part' \in 0..Points(call) + call.w
    BY <1>0, <1>5, <1>s DEF Sized
  <2> QED BY <1>0, <1>2, <1>4, <1>5, <1>6, <2>1, <2>2, <2>3 DEF Typed, Bases, Steady
<1>8. CASE Ker(call).loop = "batch"
  <2>1. pc' = "row" /\ groups' = call.ido /\ call.ido \in Nat /\ call.ido >= 1 /\ call.w \in Nat
        /\ call.bin \in Nat /\ call.bout \in Nat
    BY <1>0, <1>5, <1>8 DEF Sized
  <2>2. Row' = 0 /\ PastLines' = 0
    BY <1>0, <1>5, <2>1 DEF Row, PastLines
  <2>3. Placed(call, inb', outb', (x + 0 * call.bin) + 0, (y + 0 * call.bout) + 0)
    BY <1>2, <1>4, <2>1
  <2>4. TwStart(call, B) = 0 /\ FirstOf(call, B) = TRUE
    BY <1>8 DEF TwStart, FirstOf
  <2>5. ch = LinesDone(call, B, 0, 0)
    BY <1>0, <1>8 DEF AtBlock, BlocksDone
  <2>6. AtRow'
    BY <1>0, <1>1, <1>5, <1>6, <1>8, <2>1, <2>2, <2>3, <2>4, <2>5 DEF AtRow, x, y
  <2> QED BY <1>1, <1>7, <2>1, <2>6, TypedWillBe DEF PassInv
<1>9. CASE Ker(call).loop # "batch"
  <2>1. ch' = PointsDone(call, B, 0)
    BY <1>0, <1>5, <1>9 DEF AtBlock, BlocksDone
  <2>2. groups' = whole
    BY <1>5, <1>9
  <2>3. ASSUME NEW d, d = 0 PROVE InBlock(d, d)'
    <3>1. InPast(call, d) = 0 /\ Runs(call) * d = 0
      BY <1>0, <2>3, Strides DEF InPast, Runs
    <3>2. Placed(call, inb', outb', x + InPast(call, d), y + d)
      BY <1>2, <1>4, <2>3, <3>1
    <3>3. tw' = TwStart(call, B) + Runs(call) * d
      BY <1>2, <1>5, <3>1
    <3> QED BY <1>0, <1>1, <1>6, <1>9, <2>1, <2>3, <3>2, <3>3 DEF InBlock, x, y
  <2>4. CASE pc' = "firstpair"
    <3>1. Ker(call).short /\ Ker(call).loop = "pass" /\ whole = 0
      BY <1>5, <1>9, <2>2, <2>4
    <3>2. Ker(call).group = 4 /\ Ker(call).tail
      BY <1>0, <3>1 DEF Sized, Shaped, ChainsWith
    <3>3. Points(call) \in {2, 3}
      <4>1. Points(call) >= 2 /\ Points(call) \div 4 = 0
        BY <1>0, <3>1, <3>2 DEF Points, Sized, whole
      <4> QED BY <1>s, <4>1
    <3>4. AtFirstPair'
      BY <1>0, <1>5, <2>3, <3>2, <3>3 DEF AtFirstPair
    <3> QED BY <1>1, <1>7, <2>4, <3>4, TypedWillBe DEF PassInv
  <2>5. CASE pc' = "group"
    <3>1. Grouped(Ker(call).group, whole) + 0 = 0 /\ Grouped(Ker(call).group, whole) = 0
      BY <1>s, <1>w DEF Grouped, whole
    <3>2. InBlock(Grouped(Ker(call).group, groups) + part, Grouped(Ker(call).group, groups))'
      BY <1>0, <1>5, <2>2, <2>3, <3>1 DEF Grouped
    <3>3. 0 % Ker(call).width = 0 /\ 0 \in 0..(Ker(call).group - 1)
      BY <1>0, <1>s, Strides
    <3>4. AtGroup'
      BY <1>0, <1>5, <1>w, <2>2, <3>2, <3>3 DEF AtGroup, whole
    <3> QED BY <1>1, <1>7, <2>5, <3>4, TypedWillBe DEF PassInv
  <2> QED BY <1>5, <1>9, <2>4, <2>5
<1> QED BY <1>8, <1>9

\* A kernel returns when every block is done.
LEMMA Finishes ==
  ASSUME PassInv, Done
  PROVE  PassInv'
<1>0. Typed /\ Kept /\ pc = "kloop" /\ blocks = 0 /\ AtBlock /\ Steady /\ Sized(call)
  BY InSome DEF Done, Steady, PassInv
<1>1. Typed'
  BY <1>0 DEF Done, Typed, Bases
<1>2. Kept'
  BY <1>0 DEF Done, Kept, B
<1>3. B = Blocks(call)
  BY <1>0, Strides DEF B
<1>4. AtEnd'
  BY <1>0, <1>3 DEF AtEnd, AtBlock, Done
<1>5. pc' = "done"
  BY DEF Done
<1> QED BY <1>1, <1>2, <1>4, <1>5, TypedWillBe DEF PassInv

-----------------------------------------------------------------------------
-----------------------------------------------------------------------------
(*****************************************************************************)
(* GroupBody.                                                                *)
(*****************************************************************************)
\* The n points of a body belong to the group of g that starts at point a, p in.
OneGroup(a, p, n, g) ==
  \A l \in 0..(n - 1) : Grouping(Points(call), Ker(call).group, (a + p) + l, a, g)

\* A body in a group writes the group's next points.
LEMMA GroupStep ==
  ASSUME PassInv, Steady, pc \notin {"kloop", "done"},
         NEW a \in Nat, NEW p \in Nat, NEW n \in Nat, NEW g \in Nat, n >= 1,
         NEW d \in Nat, d = a + p, InBlock(d, a), Body(n, g, p), OneGroup(a, p, n, g)
  PROVE  LeftAt(B, d, n)
<1>0. /\ Typed /\ Sized(call) /\ Kept /\ B \in Nat /\ Starts(call, B) /\ call' = call
      /\ Bases(inb) /\ Bases(outb) /\ first \in BOOLEAN
  BY InSome DEF Steady, Typed
<1>1. TwStart(call, B) \in Int
  BY <1>0 DEF Starts
<1>2. ASSUME ~Packed(call), NEW j \in 1..(call.r - 1), NEW l \in 0..(n - 1)
      PROVE  TwFound(g, p, j, l, TwStart(call, B), d + l)
  <2>1. Points(call) = call.ido
    BY <1>2 DEF Points, Packed
  <2>2. Grouping(call.ido, Ker(call).group, d + l, a, g)
    BY <2>1 DEF OneGroup
  <2>3. tw = TwStart(call, B) + Runs(call) * a
    BY DEF InBlock
  <2>4. j \in Int /\ l \in Int /\ call.r \in Int
    BY <1>0, Strides
  <2> DEFINE base == TwStart(call, B)
             i == d + l
  <2>5. base \in Int /\ i \in Int /\ i = (a + p) + l /\ tw = base + Runs(call) * a
        /\ Grouping(call.ido, Ker(call).group, i, a, g)
    BY <1>1, <2>2, <2>3, <2>4
  <2> HIDE DEF base, i
  <2>6. TwFound(g, p, j, l, base, i)
    BY <1>0, <2>4, <2>5, TwCursor
  <2> QED BY <2>6 DEF base, i
<1>3. /\ Placed(call, inb, outb, InStart(call, B) + InPast(call, d), OutStart(call, B) + d)
      /\ ch = PointsDone(call, B, d)
      /\ first <=> (d = 0 /\ FirstOf(call, B))
  BY DEF InBlock
<1> QED BY <1>0, <1>2, <1>3, BodyStep

\* The cursor's arithmetic.
LEMMA Tabled ==
  ASSUME NEW base \in Int, NEW runs \in Int, NEW a \in Int, NEW g \in Int
  PROVE  (base + runs * a) + runs * g = base + runs * (a + g)
<1>1. runs * (a + g) = runs * a + runs * g
  OBVIOUS
<1>2. runs * a \in Int /\ runs * g \in Int
  OBVIOUS
<1> QED BY <1>1, <1>2

\* Past a whole group of g the cursor has passed the twiddles of g points.
LEMMA CursorMoves ==
  ASSUME Sized(call), Starts(call, B), NEW a \in Nat, NEW g \in Nat,
         tw = TwStart(call, B) + Runs(call) * a
  PROVE  tw + TwSize(g) = TwStart(call, B) + Runs(call) * (a + g)
<1> DEFINE base == TwStart(call, B)
           runs == Runs(call)
           dup == IF Ker(call).dup THEN 2 ELSE 1
<1>1. base \in Int /\ call.r \in Int /\ dup \in Int /\ runs = (call.r - 1) * dup
  BY Strides DEF Starts, Runs
<1>2. TwSize(g) = (call.r - 1) * g * dup
  BY Named DEF TwSize
<1> HIDE DEF base, dup, runs
<1>3. runs \in Int /\ (call.r - 1) * g * dup = runs * g
  BY <1>1
<1>4. tw + TwSize(g) = (base + runs * a) + runs * g
  BY <1>2, <1>3 DEF base, runs
<1>5. (base + runs * a) + runs * g = base + runs * (a + g)
  BY <1>1, <1>3, Tabled
<1> QED BY <1>4, <1>5 DEF base, runs

\* The state a body leaves, d points done.
Landed(d, t) ==
  /\ Ker(call).loop # "batch"
  /\ Placed(call, inb', outb', InStart(call, B) + InPast(call, d), OutStart(call, B) + d)
  /\ ch' = PointsDone(call, B, d)
  /\ first' <=> (d = 0 /\ FirstOf(call, B))
  /\ tw' = TwStart(call, B) + Runs(call) * t

\* A body of more than a lone point leaves the kernel n points further on.
LEMMA BodyLands ==
  ASSUME Ker(call).loop # "batch", NEW d \in Nat, NEW n \in Nat, n >= 1, Passed(call, n) = n,
         LeftAt(B, d, n), NEW e, e = d + n,
         NEW t, tw' = TwStart(call, B) + Runs(call) * t
  PROVE  Landed(e, t)
<1>1. e # 0
  OBVIOUS
<1>2. /\ ch' = PointsDone(call, B, e) /\ first' = FALSE
      /\ Placed(call, inb', outb', InStart(call, B) + InPast(call, e), OutStart(call, B) + e)
  BY DEF LeftAt
<1> QED BY <1>1, <1>2 DEF Landed

\* The cursor is an address.
LEMMA CursorIn ==
  ASSUME Sized(call), Starts(call, B), NEW t \in Nat
  PROVE  TwStart(call, B) + Runs(call) * t \in Nat
<1>1. call.r - 1 \in Nat
  BY Strides
<1>2. Runs(call) \in Nat
  BY <1>1 DEF Runs
<1>3. Runs(call) * t \in Nat
  BY <1>2
<1> QED BY <1>3 DEF Starts

\* A body more stays within its group.
LEMMA Parts ==
  ASSUME NEW g \in {2, 4, 8}, NEW w \in {2, 4, 8}, g % w = 0, NEW p \in 0..(g - 1), p % w = 0
  PROVE  p + w <= g /\ (p + w) % w = 0
<1>1. CASE w = 2 BY <1>1
<1>2. CASE w = 4 BY <1>2
<1>3. CASE w = 8 BY <1>3
<1> QED BY <1>1, <1>2, <1>3

\* The points before group k from the end.
LEMMA GroupCounts ==
  ASSUME NEW g \in {2, 4, 8}, NEW k \in Nat, k >= 1, Points(call) \in Nat,
         k <= Points(call) \div g
  PROVE  /\ Grouped(g, k) = g * ((Points(call) \div g) - k) /\ Grouped(g, k) \in Nat
         /\ Grouped(g, k - 1) = Grouped(g, k) + g
         /\ (Points(call) \div g) - k \in Nat /\ (Points(call) \div g) - k < Points(call) \div g
<1>1. Points(call) \div g \in Nat
  <2>1. CASE g = 2 BY <2>1
  <2>2. CASE g = 4 BY <2>2
  <2>3. CASE g = 8 BY <2>3
  <2> QED BY <2>1, <2>2, <2>3
<1> DEFINE n == Points(call) \div g
<1> HIDE DEF n
<1>2. CASE g = 2 BY <1>1, <1>2 DEF Grouped, n
<1>3. CASE g = 4 BY <1>1, <1>3 DEF Grouped, n
<1>4. CASE g = 8 BY <1>1, <1>4 DEF Grouped, n
<1> QED BY <1>2, <1>3, <1>4

\* GroupBody writes the next points of its group, and the group's last body
\* leaves the cursor at the next group.
LEMMA GroupBodies ==
  ASSUME PassInv, GroupBody
  PROVE  PassInv'
<1> DEFINE g == Ker(call).group
           w == Ker(call).width
           a == Grouped(g, groups)
<1>0. /\ Typed /\ Sized(call) /\ Kept /\ B \in Nat /\ Starts(call, B) /\ pc = "group"
      /\ groups > 0 /\ Steady /\ call' = call /\ AtGroup /\ blocks >= 1 /\ pc' = "group"
  BY InSome DEF GroupBody, Steady, PassInv, Kept
<1>1. /\ g \in {2, 4, 8} /\ w \in {2, 4, 8} /\ g % w = 0 /\ Points(call) \in Nat /\ w <= g
  BY <1>0, Strides DEF Sized, Shaped, FitsWith
<1>2. /\ part \in 0..(g - 1) /\ part % w = 0 /\ groups \in Nat /\ groups >= 1
      /\ groups <= Points(call) \div g /\ groups \in 0..(Points(call) \div g)
      /\ InBlock(a + part, a)
  BY <1>0 DEF AtGroup, Typed
<1>3. part + w <= g /\ (part + w) % w = 0
  BY <1>1, <1>2, Parts
<1> DEFINE m == (Points(call) \div g) - groups
<1>4. /\ a = g * m /\ a \in Nat /\ Grouped(g, groups - 1) = a + g
      /\ m \in Nat /\ m < Points(call) \div g
  BY <1>1, <1>2, GroupCounts
<1>5. Body(w, g, part)
  BY Named DEF GroupBody
<1> HIDE DEF a, m, g, w
<1>6. \A l \in 0..(w - 1) : Grouping(Points(call), g, (a + part) + l, a, g)
  <2> SUFFICES ASSUME NEW l \in 0..(w - 1)
               PROVE  Grouping(Points(call), g, (a + part) + l, a, g)
    OBVIOUS
  <2> DEFINE q == part + l
             n == Points(call)
  <2>1. q \in 0..(g - 1) /\ (a + part) + l = a + q
    BY <1>1, <1>2, <1>3, <1>4
  <2>2. n \in Nat /\ m < n \div g
    BY <1>1, <1>4
  <2> HIDE DEF q, n
  <2>3. Grouping(n, g, g * m + q, g * m, g)
    BY <1>1, <1>4, <2>1, <2>2, WholeGroup
  <2>4. Grouping(n, g, a + q, a, g)
    BY <1>4, <2>3
  <2> QED BY <2>1, <2>4 DEF n
<1> DEFINE d == a + part
<1>9. d \in Nat /\ d + w = a + (part + w) /\ part \in Nat /\ w \in Nat /\ w >= 1 /\ g \in Nat
  BY <1>1, <1>2, <1>4
<1>d. d = a + part /\ InBlock(d, a)
  BY <1>2
<1> HIDE DEF d
<1>7. LeftAt(B, d, w)
  <2>1. OneGroup(a, part, w, g)
    BY <1>6 DEF OneGroup, g
  <2> QED BY <1>0, <1>4, <1>5, <1>9, <1>d, <2>1, GroupStep
<1>8. Passed(call, w) = w
  BY <1>1 DEF Passed
<1>k. Kept' /\ B' = B
  BY <1>0, SteadyKept
<1>t. tw = TwStart(call, B) + Runs(call) * a
  BY <1>2 DEF InBlock
<1>b. Bases(inb') /\ Bases(outb') /\ first' = FALSE
  BY <1>7 DEF LeftAt
<1>l. Ker(call).loop # "batch"
  BY <1>2 DEF InBlock
<1>10. CASE part + w = g
  <2>1. part' = 0 /\ tw' = tw + TwSize(g) /\ groups' = groups - 1
    BY <1>10, Named DEF GroupBody, g, w
  <2>2. tw' = TwStart(call, B) + Runs(call) * (a + g)
    <3>1. tw + TwSize(g) = TwStart(call, B) + Runs(call) * (a + g)
      BY <1>0, <1>1, <1>4, <1>t, CursorMoves
    <3> QED BY <2>1, <3>1
  <2> DEFINE e == a + g
  <2>3. e = d + w /\ e = Grouped(g, groups - 1) /\ e \in Nat /\ e + 0 = e
    BY <1>1, <1>4, <1>9, <1>10
  <2>4. Landed(e, e)
    <3>1. tw' = TwStart(call, B) + Runs(call) * e
      BY <2>2
    <3> HIDE DEF e
    <3> QED BY <1>7, <1>8, <1>9, <1>l, <2>3, <3>1, BodyLands
  <2> HIDE DEF e
  <2>5. groups' \in 0..(Points(call) \div g) /\ 0 % w = 0 /\ 0 \in 0..(g - 1)
    BY <1>1, <1>2, <2>1
  <2>6. AtGroup'
    <3>1. Grouped(g, groups)' = e /\ part' = 0 /\ g' = g /\ w' = w /\ Points(call)' = Points(call)
      BY <1>0, <2>1, <2>3 DEF g, w, Grouped
    <3>2. InBlock(Grouped(g, groups) + part, Grouped(g, groups))'
      BY <1>0, <1>k, <2>3, <2>4, <3>1 DEF InBlock, Landed
    <3> QED BY <2>5, <3>1, <3>2 DEF AtGroup, g, w
  <2>7. Typed'
    <3>1. groups' \in 0..Points(call) /\ part' \in 0..Points(call) + call.w
      BY <1>0, <1>1, <1>2, <2>1 DEF Typed, Sized
    <3>2. tw' \in Nat
      BY <1>0, <2>3, <2>4, CursorIn DEF Landed
    <3> QED BY <1>0, <1>b, <3>1, <3>2 DEF Typed, Bases, Steady
  <2> QED BY <1>0, <1>k, <2>6, <2>7, TypedWillBe DEF PassInv
<1>11. CASE part + w # g
  <2>1. part' = part + w /\ tw' = tw /\ groups' = groups
    BY <1>11, Named DEF GroupBody, g, w
  <2> DEFINE e == d + w
  <2>3. e = a + part' /\ e = d + w /\ tw' = TwStart(call, B) + Runs(call) * a
    BY <1>9, <1>t, <2>1
  <2> HIDE DEF e
  <2>4. Landed(e, a)
    BY <1>7, <1>8, <1>9, <1>l, <2>3, BodyLands
  <2>5. part' \in 0..(g - 1) /\ part' % w = 0 /\ groups' # 0
    BY <1>1, <1>2, <1>3, <1>11, <2>1
  <2>6. AtGroup'
    <3>1. Grouped(g, groups)' = a /\ g' = g /\ w' = w /\ Points(call)' = Points(call)
      BY <1>0, <2>1 DEF g, w, Grouped, a
    <3>2. InBlock(Grouped(g, groups) + part, Grouped(g, groups))'
      BY <1>0, <1>k, <2>3, <2>4, <3>1 DEF InBlock, Landed
    <3> QED BY <1>2, <2>1, <2>5, <3>1, <3>2 DEF AtGroup, g, w
  <2>7. Typed'
    <3>1. part' \in 0..Points(call) + call.w
      <4>1. part' <= Points(call)
        <5>1. g <= Points(call)
          <6>1. CASE g = 2 BY <1>1, <1>2, <6>1
          <6>2. CASE g = 4 BY <1>1, <1>2, <6>2
          <6>3. CASE g = 8 BY <1>1, <1>2, <6>3
          <6> QED BY <1>1, <6>1, <6>2, <6>3
        <5> QED BY <1>1, <1>2, <2>5, <5>1
      <4> QED BY <1>0, <1>1, <1>2, <2>5, <4>1 DEF Sized
    <3> QED BY <1>0, <1>b, <2>1, <3>1 DEF Typed, Bases, Steady
  <2> QED BY <1>0, <1>k, <2>6, <2>7, TypedWillBe DEF PassInv
<1> QED BY <1>10, <1>11

-----------------------------------------------------------------------------
-----------------------------------------------------------------------------
(*****************************************************************************)
(* GroupsDone, Pair and Single.                                              *)
(*****************************************************************************)
\* Groups of four and a pair are the pairs, and pairs and a single are all.
LEMMA Halves ==
  ASSUME NEW n \in Nat
  PROVE  /\ 4 * (n \div 4) \in Nat /\ 2 * (n \div 2) \in Nat
         /\ (n \div 2) % 2 = 1 => 2 * (n \div 2) = 4 * (n \div 4) + 2
         /\ (n \div 2) % 2 # 1 => 2 * (n \div 2) = 4 * (n \div 4)
         /\ n % 2 # 1 => 2 * (n \div 2) = n
         /\ n \in {2, 3} => 4 * (n \div 4) = 0 /\ (n \div 2) % 2 = 1
OBVIOUS

\* With no group left, every point that fills one is done.
LEMMA LastGroup ==
  ASSUME NEW g \in {2, 4, 8}, Points(call) \in Nat
  PROVE  /\ Grouped(g, 0) = g * (Points(call) \div g) /\ Grouped(g, 0) \in Nat
         /\ Points(call) % g = 0 => Grouped(g, 0) = Points(call)
<1>1. CASE g = 2 BY <1>1 DEF Grouped
<1>2. CASE g = 4 BY <1>2 DEF Grouped
<1>3. CASE g = 8 BY <1>3 DEF Grouped
<1> QED BY <1>1, <1>2, <1>3

\* A step that only moves on leaves what it found.
Untouched == UNCHANGED <<call, inb, outb, block, tw, twBase, blocks, groups, part, first, ch>>

\* Such a step keeps the types.
LEMMA UntouchedTyped ==
  ASSUME Typed, Untouched, pc' \in {"pair", "single", "knext", "done"}
  PROVE  Typed'
BY DEF Typed, Untouched, Bases

\* After the last group the tail begins, if the kernel has one and needs it.
LEMMA GroupsAreDone ==
  ASSUME PassInv, GroupsDone
  PROVE  PassInv'
<1> DEFINE g == Ker(call).group
           d == Grouped(g, 0)
<1>0. /\ Typed /\ Sized(call) /\ Kept /\ B \in Nat /\ pc = "group" /\ groups = 0 /\ Untouched
      /\ Steady /\ call' = call /\ AtGroup /\ blocks >= 1
  BY InSome DEF GroupsDone, Untouched, Steady, PassInv, Kept
<1>1. g \in {2, 4, 8} /\ Points(call) \in Nat /\ (g = 8 => ~Ker(call).tail)
  BY <1>0, Strides DEF Sized, Shaped, FitsWith
<1>2. d \in Nat /\ d = g * (Points(call) \div g) /\ (Points(call) % g = 0 => d = Points(call))
  BY <1>1, LastGroup
<1>3. part = 0 /\ InBlock(d, d) /\ Ker(call).loop # "batch"
  <2>1. part = 0
    BY <1>0 DEF AtGroup
  <2>2. InBlock(d + 0, d)
    BY <1>0, <2>1 DEF AtGroup
  <2>3. d + 0 = d
    BY <1>2
  <2> HIDE DEF d
  <2> QED BY <2>1, <2>2, <2>3 DEF InBlock
<1>4. pc' = CASE ~Ker(call).tail -> AfterTail
              [] Ker(call).tail /\ g = 4 -> "pair"
              [] OTHER -> "single"
  BY Named DEF GroupsDone
<1>k. Kept' /\ B' = B
  BY <1>0, SteadyKept
<1> HIDE DEF d, g
<1>5. CASE ~Ker(call).tail
  <2>1. d = Points(call) /\ pc' = AfterTail
    BY <1>0, <1>2, <1>3, <1>4, <1>5 DEF Sized, g
  <2>2. /\ ch' = PointsDone(call, B, Points(call)) /\ part' = 0
        /\ Bases(inb') /\ Bases(outb') /\ tw' \in Nat /\ groups' \in 0..Points(call)
        /\ first' \in BOOLEAN
        /\ Placed(call, inb', outb', InStart(call, B) + InPast(call, Points(call)),
                  OutStart(call, B) + Points(call))
    BY <1>0, <1>3, <2>1 DEF InBlock, Untouched, Typed
  <2>3. pc \notin {"kloop", "done"}
    BY <1>0
  <2> QED BY <1>0, <1>3, <2>1, <2>2, <2>3, TailDone
<1>6. CASE Ker(call).tail
  <2>l. Landed(d, d)
    BY <1>0, <1>3 DEF InBlock, Landed, Untouched
  <2>1. CASE g = 4
    <3>1. pc' = "pair"
      BY <1>4, <1>6, <2>1
    <3>2. d = 4 * (Points(call) \div 4)
      BY <1>2, <2>1
    <3>3. InBlock(4 * (Points(call) \div 4), 4 * (Points(call) \div 4))'
      BY <1>0, <1>k, <2>l, <3>2 DEF InBlock, Landed, Points
    <3>4. AtPair'
      BY <1>0, <1>3, <1>6, <2>1, <3>3 DEF AtPair, Untouched, g
    <3>5. Typed'
      BY <1>0, <3>1, UntouchedTyped
    <3> QED BY <1>k, <3>1, <3>4, <3>5, TypedWillBe DEF PassInv
  <2>2. CASE g = 2
    <3>1. pc' = "single"
      BY <1>4, <1>6, <2>2
    <3>2. d = 2 * (Points(call) \div 2)
      BY <1>2, <2>2
    <3>3. InBlock(2 * (Points(call) \div 2), 2 * (Points(call) \div 2))'
      BY <1>0, <1>k, <2>l, <3>2 DEF InBlock, Landed, Points
    <3>4. AtSingle'
      BY <1>0, <1>3, <1>6, <2>2, <3>3 DEF AtSingle, Untouched, g
    <3>5. Typed'
      BY <1>0, <3>1, UntouchedTyped
    <3> QED BY <1>k, <3>1, <3>4, <3>5, TypedWillBe DEF PassInv
  <2> QED BY <1>1, <1>6, <2>1, <2>2
<1> QED BY <1>5, <1>6

\* Pair writes the two points that fill no group, with a table of their own.
LEMMA Pairs ==
  ASSUME PassInv, Pair
  PROVE  PassInv'
<1> DEFINE n == Points(call)
           a == 4 * (n \div 4)
<1>0. /\ Typed /\ Sized(call) /\ Kept /\ B \in Nat /\ Starts(call, B)
      /\ pc \in {"pair", "firstpair"} /\ blocks >= 1
      /\ Steady /\ call' = call /\ pc \notin {"kloop", "done"}
  BY InSome DEF Pair, Steady, Kept
<1>1. n \in Nat
  BY <1>0, Strides
<1>2. /\ Ker(call).group = 4 /\ Ker(call).tail /\ part = 0 /\ InBlock(a, a)
      /\ (n \div 2) % 2 = 1
  <2>1. CASE pc = "pair"
    BY <2>1, Named DEF PassInv, AtPair, Pair, HasPair
  <2>2. CASE pc = "firstpair"
    <3>1. AtFirstPair
      BY <2>2 DEF PassInv
    <3>2. a = 0 /\ (n \div 2) % 2 = 1
      BY <3>1, <1>1, Halves DEF AtFirstPair
    <3> HIDE DEF a
    <3> QED BY <3>1, <3>2 DEF AtFirstPair
  <2> QED BY <1>0, <2>1, <2>2
<1>3. a \in Nat /\ a + 0 = a /\ a + 2 = 2 * (n \div 2)
  BY <1>1, <1>2, Halves
<1>4. OneGroup(a, 0, 2, 2)
  <2> SUFFICES ASSUME NEW l \in 0..(2 - 1) PROVE Grouping(n, 4, (a + 0) + l, a, 2)
    BY <1>2 DEF OneGroup
  <2>1. l \in {0, 1}
    OBVIOUS
  <2>2. Grouping(n, 4, 4 * (n \div 4) + l, 4 * (n \div 4), 2)
    BY <1>1, <1>2, <2>1, PairGroup
  <2> QED BY <1>3, <2>2
<1> HIDE DEF a
<1>5. LeftAt(B, a, 2)
  <2>1. Body(2, 2, 0)
    BY DEF Pair
  <2> QED BY <1>0, <1>2, <1>3, <1>4, <2>1, GroupStep
<1>6. Ker(call).loop # "batch" /\ tw = TwStart(call, B) + Runs(call) * a
  BY <1>2 DEF InBlock
<1> DEFINE e == a + 2
<1>7. tw' = TwStart(call, B) + Runs(call) * e
  <2>1. tw + TwSize(2) = TwStart(call, B) + Runs(call) * (a + 2)
    BY <1>0, <1>3, <1>6, CursorMoves
  <2> QED BY <2>1 DEF Pair
<1>8. e = a + 2 /\ e \in Nat /\ e = 2 * (n \div 2) /\ Passed(call, 2) = 2
  BY <1>3 DEF Passed
<1> HIDE DEF e
<1>9. Landed(e, e)
  BY <1>3, <1>5, <1>6, <1>7, <1>8, BodyLands
<1>k. Kept' /\ B' = B
  BY <1>0, SteadyKept
<1>10. InBlock(2 * (Points(call) \div 2), 2 * (Points(call) \div 2))'
  BY <1>0, <1>k, <1>8, <1>9 DEF InBlock, Landed, Points
<1>11. AtSingle'
  BY <1>0, <1>2, <1>10 DEF AtSingle, Pair
<1>12. Typed'
  <2>1. tw' \in Nat
    BY <1>0, <1>7, <1>8, CursorIn
  <2>2. Bases(inb') /\ Bases(outb') /\ first' = FALSE
    BY <1>5 DEF LeftAt
  <2> QED BY <1>0, <2>1, <2>2 DEF Typed, Bases, Pair
<1> QED BY <1>k, <1>11, <1>12, TypedWillBe DEF PassInv, Pair

\* NoPair: no two points are left.
LEMMA PairsLeftOut ==
  ASSUME PassInv, NoPair
  PROVE  PassInv'
<1> DEFINE n == Points(call)
<1>0. /\ Typed /\ Sized(call) /\ Kept /\ B \in Nat /\ pc = "pair" /\ Untouched /\ blocks >= 1
      /\ Steady /\ call' = call /\ AtPair /\ n \in Nat
  BY InSome, Strides DEF NoPair, Steady, PassInv, Untouched, Kept
<1>1. 2 * (n \div 2) = 4 * (n \div 4)
  BY <1>0, Halves, Named DEF NoPair, HasPair
<1>k. Kept' /\ B' = B
  BY <1>0, SteadyKept
<1> DEFINE d == 4 * (n \div 4)
<1>2. d = 2 * (n \div 2) /\ InBlock(d, d)
  BY <1>0, <1>1 DEF AtPair
<1> HIDE DEF d
<1>3. Landed(d, d)
  BY <1>0, <1>2 DEF InBlock, Landed, Untouched
<1>4. InBlock(2 * (Points(call) \div 2), 2 * (Points(call) \div 2))'
  BY <1>0, <1>k, <1>2, <1>3 DEF InBlock, Landed, Points
<1>5. AtSingle'
  BY <1>0, <1>4 DEF AtSingle, AtPair, Untouched
<1>6. Typed'
  BY <1>0, UntouchedTyped DEF NoPair
<1> QED BY <1>k, <1>5, <1>6, TypedWillBe DEF PassInv, NoPair

\* Single writes the odd point, the last of its block; the streams it does not
\* move are not used again.
LEMMA Singles ==
  ASSUME PassInv, Single
  PROVE  PassInv'
<1> DEFINE n == Points(call)
           g == IF Ker(call).group = 2 THEN 2 ELSE 1
           d == 2 * (n \div 2)
<1>0. /\ Typed /\ Sized(call) /\ Kept /\ B \in Nat /\ Starts(call, B) /\ pc = "single"
      /\ blocks >= 1 /\ Steady /\ call' = call /\ pc \notin {"kloop", "done"}
      /\ AtSingle /\ n \in Nat
  BY InSome, Strides DEF Single, Steady, PassInv, Kept
<1>1. n % 2 = 1 /\ Body(1, g, 0)
  BY Named DEF Single
<1>2. part = 0 /\ InBlock(d, d) /\ Ker(call).group \in {2, 4} /\ Ker(call).loop # "batch"
  BY <1>0 DEF AtSingle, InBlock
<1>3. d \in Nat /\ d = n - 1 /\ d + 1 = n /\ g \in Nat /\ Grouping(n, Ker(call).group, d, d, g)
  BY <1>0, <1>1, <1>2, SingleGroup
<1>4. OneGroup(d, 0, 1, g)
  <2> HIDE DEF d, g
  <2>1. \A l \in 0..(1 - 1) : (d + 0) + l = d
    BY <1>3
  <2> QED BY <1>3, <2>1 DEF OneGroup
<1> HIDE DEF d, g
<1>5. LeftAt(B, d, 1)
  <2>1. d = d + 0
    BY <1>3
  <2> QED BY <1>0, <1>1, <1>2, <1>3, <1>4, <2>1, GroupStep
<1>6. ch' = PointsDone(call, B, n) /\ Bases(inb') /\ Bases(outb') /\ first' = FALSE
  BY <1>3, <1>5 DEF LeftAt
<1>7. Ker(call).loop # "last" /\ ~NeonPass(call) =>
        Placed(call, inb', outb', InStart(call, B) + InPast(call, n), OutStart(call, B) + n)
  <2> SUFFICES ASSUME Ker(call).loop # "last", ~NeonPass(call)
               PROVE  Placed(call, inb', outb', InStart(call, B) + InPast(call, n),
                             OutStart(call, B) + n)
    OBVIOUS
  <2>1. ~Ker(call).neon
    BY <1>0, <1>2, Strides DEF NeonPass, Sized, Shaped, ChainsWith
  <2>2. Passed(call, 1) = 1
    BY <2>1 DEF Passed
  <2> QED BY <1>3, <1>5, <2>2 DEF LeftAt
<1>8. tw' \in Nat
  <2>1. tw = TwStart(call, B) + Runs(call) * d
    BY <1>2 DEF InBlock
  <2>2. Ker(call).group \in Nat
    BY <1>2
  <2> DEFINE f == d + Ker(call).group
  <2>3. tw + TwSize(Ker(call).group) = TwStart(call, B) + Runs(call) * f
    BY <1>0, <1>3, <2>1, <2>2, CursorMoves
  <2>4. f \in Nat
    BY <1>3, <2>2
  <2> HIDE DEF f
  <2>5. tw + TwSize(Ker(call).group) \in Nat
    BY <1>0, <2>3, <2>4, CursorIn
  <2> QED BY <1>0, <2>5, Named DEF Single, Typed
<1>9. pc' = AfterTail /\ part' = 0 /\ groups' \in 0..Points(call)
  BY <1>0, <1>2 DEF Single, Typed
<1> QED BY <1>0, <1>2, <1>6, <1>7, <1>8, <1>9, TailDone

\* NoSingle: no point is left.
LEMMA SinglesLeftOut ==
  ASSUME PassInv, NoSingle
  PROVE  PassInv'
<1> DEFINE n == Points(call)
           d == 2 * (n \div 2)
<1>0. /\ Typed /\ Sized(call) /\ pc = "single" /\ Untouched
      /\ Steady /\ call' = call /\ AtSingle /\ n \in Nat /\ pc \notin {"kloop", "done"}
  BY InSome, Strides DEF NoSingle, Steady, PassInv, Untouched
<1>1. d = n
  BY <1>0, Halves, Named DEF NoSingle
<1>2. part = 0 /\ InBlock(d, d) /\ Ker(call).loop # "batch"
  BY <1>0 DEF AtSingle, InBlock
<1> HIDE DEF d
<1>3. /\ ch' = PointsDone(call, B, Points(call)) /\ part' = 0
      /\ Bases(inb') /\ Bases(outb') /\ tw' \in Nat /\ groups' \in 0..Points(call)
      /\ first' \in BOOLEAN
      /\ Placed(call, inb', outb', InStart(call, B) + InPast(call, Points(call)),
                OutStart(call, B) + Points(call))
  BY <1>0, <1>1, <1>2 DEF InBlock, Untouched, Typed
<1>4. pc' = AfterTail
  BY DEF NoSingle
<1> QED BY <1>0, <1>2, <1>3, <1>4, TailDone

-----------------------------------------------------------------------------
-----------------------------------------------------------------------------
(*****************************************************************************)
(* RowBody.                                                                  *)
(*****************************************************************************)
\* How many lines the next body of a row takes, and how far the streams move.
LineMoves(neon, past, n, w) ==
  /\ n \in {1, 2, 4} /\ past + n <= w
  /\ neon => n # 4 /\ (n = 1 => past + 1 = w)
  /\ neon /\ past + n < w => (past + n) % 2 = 0
  /\ neon => 2 * ((past + n) \div 2) = past + (IF n = 1 THEN 0 ELSE n)

\* The lines a row's next body takes: a whole body, a pair, or on its own the
\* last line, which arm64's streams do not move past.
LEMMA NextLines ==
  ASSUME NEW neon \in BOOLEAN, NEW past \in Nat, NEW w \in Nat, past < w,
         neon => past % 2 = 0, NEW width \in {2, 4}, neon => width = 2
  PROVE  LineMoves(neon, past,
                   IF w - past >= width THEN width ELSE IF w - past >= 2 THEN 2 ELSE 1, w)
<1> DEFINE n == IF w - past >= width THEN width ELSE IF w - past >= 2 THEN 2 ELSE 1
<1>1. n \in {1, 2, 4} /\ past + n <= w
  OBVIOUS
<1>2. neon => n # 4 /\ (n = 1 => past + 1 = w)
  OBVIOUS
<1> HIDE DEF n
<1>3. neon /\ past + n < w => (past + n) % 2 = 0
  <2> SUFFICES ASSUME neon, past + n < w PROVE (past + n) % 2 = 0
    OBVIOUS
  <2>1. n = 2
    BY <1>1, <1>2
  <2> QED BY <2>1
<1>4. neon => 2 * ((past + n) \div 2) = past + (IF n = 1 THEN 0 ELSE n)
  <2> SUFFICES ASSUME neon PROVE 2 * ((past + n) \div 2) = past + (IF n = 1 THEN 0 ELSE n)
    OBVIOUS
  <2>1. CASE n = 1 BY <2>1
  <2>2. CASE n = 2 BY <2>2
  <2> QED BY <1>1, <1>2, <2>1, <2>2
<1>5. LineMoves(neon, past, n, w)
  BY <1>1, <1>2, <1>3, <1>4 DEF LineMoves
<1> QED BY <1>5 DEF n

\* What a row's place comes to.
RowPlaced(i) ==
  /\ call.bin \in Nat /\ call.bout \in Nat /\ call.w \in Nat \ {0} /\ call.ido \in Nat
  /\ i \in 0..(call.ido - 1)
  /\ i * call.bin \in Nat /\ i * call.bout \in Nat
  /\ (i + 1) * call.bin = i * call.bin + call.bin
  /\ (i + 1) * call.bout = i * call.bout + call.bout

\* Where a row stands.
LEMMA Rows ==
  ASSUME Typed, Sized(call), AtRow
  PROVE  /\ RowPlaced(Row) /\ Row = call.ido - groups /\ groups \in 1..call.ido
         /\ part \in Nat /\ part <= call.w
         /\ Ker(call).width \in {2, 4} /\ (Ker(call).neon => Ker(call).width = 2)
         /\ Ker(call).neon \in BOOLEAN /\ ~Packed(call) /\ ~NeonPass(call)
         /\ Ker(call).loop = "batch"
<1>1. Ker(call).loop = "batch" /\ groups \in 1..call.ido /\ part \in 0..call.w
  BY DEF AtRow
<1>2. /\ call.bin \in Nat /\ call.bout \in Nat /\ call.w \in Nat \ {0} /\ call.ido \in Nat
  BY <1>1 DEF Sized
<1> DEFINE i == Row
<1>3. i \in 0..(call.ido - 1) /\ i \in Nat
  BY <1>1, <1>2 DEF Row
<1> HIDE DEF i
<1>4. i * call.bin \in Nat /\ i * call.bout \in Nat
  BY <1>2, <1>3
<1>5. /\ (i + 1) * call.bin = i * call.bin + call.bin
      /\ (i + 1) * call.bout = i * call.bout + call.bout
  BY <1>2, <1>3
<1>6. RowPlaced(Row)
  BY <1>2, <1>3, <1>4, <1>5 DEF RowPlaced, i
<1>7. Ker(call).width \in {2, 4} /\ (Ker(call).neon => Ker(call).width = 2)
      /\ Ker(call).neon \in BOOLEAN
  BY <1>1 DEF Sized, Shaped, ChainsWith
<1> QED BY <1>1, <1>2, <1>6, <1>7 DEF Packed, NeonPass, Row

\* RowBody writes the row's next lines with the twiddles of its point.
LEMMA RowBodies ==
  ASSUME PassInv, RowBody
  PROVE  PassInv'
<1> DEFINE i == Row
           n == Lines(call.w - part)
           W == [j \in 1..r-1 |->
                  [l \in 0..n-1 |-> IF first THEN NoTw ELSE <<tw + (j - 1), tw + (j - 1)>>]]
           x0 == InStart(call, B) + i * call.bin
           y0 == OutStart(call, B) + i * call.bout
           x == x0 + part
           y == y0 + part
           neon == Ker(call).neon
           s == Passed(call, n)
<1>0. /\ Typed /\ Sized(call) /\ Kept /\ B \in Nat /\ Starts(call, B) /\ pc = "row"
      /\ blocks >= 1 /\ Steady /\ call' = call /\ AtRow /\ call.w - part > 0 /\ pc' = "row"
      /\ groups' = groups /\ first' = first /\ tw' = tw
  BY InSome DEF RowBody, Steady, PassInv, Kept
<1>1. /\ RowPlaced(i) /\ i = call.ido - groups /\ groups \in 1..call.ido
      /\ part \in Nat /\ part < call.w
      /\ Ker(call).width \in {2, 4} /\ (neon => Ker(call).width = 2)
      /\ neon \in BOOLEAN /\ ~Packed(call) /\ ~NeonPass(call) /\ Ker(call).loop = "batch"
  <2>1. call.w \in Nat
    BY <1>0 DEF Sized
  <2> QED BY <1>0, <2>1, Rows
<1>2. i \in Nat /\ x0 \in Nat /\ y0 \in Nat /\ x \in Int /\ y \in Int
  BY <1>0, <1>1 DEF RowPlaced, Starts
<1>3. LineMoves(neon, part, n, call.w)
  <2>1. neon => part % 2 = 0
    BY <1>0, <1>1 DEF AtRow
  <2>2. n = IF call.w - part >= Ker(call).width THEN Ker(call).width
            ELSE IF call.w - part >= 2 THEN 2 ELSE 1
    BY Named DEF Lines
  <2>3. call.w \in Nat
    BY <1>0 DEF Sized
  <2> HIDE DEF n
  <2> QED BY <1>1, <2>1, <2>2, <2>3, NextLines
<1>4. /\ ch' = ch \cup Outputs(n, W, FALSE) /\ Advance(n) /\ part' = part + n
  BY DEF RowBody
<1> HIDE DEF n
<1>5. n \in Nat /\ n >= 1 /\ n \in {1, 2, 4} /\ part + n <= call.w /\ part + n \in Nat
  BY <1>1, <1>3 DEF LineMoves
<1>6. Placed(call, inb, outb, x, y)
  <2>1. PastLines = part
    BY <1>0, <1>1 DEF PastLines, AtRow
  <2> QED BY <1>0, <2>1 DEF AtRow
<1>7. Outputs(n, W, FALSE) = MoreLines(call, B, i, part, n)
  <2> DEFINE keep == FALSE
             Body1(j, l) == BodyWrite(call, x, y, W, keep, j, l)
             Line1(j, l) == LineWrite(call, B, i, part + l, j)
             Bodies == {Body1(j, l) : j \in 0..(call.r - 1), l \in 0..(n - 1)}
             Lines1 == {Line1(j, l) : j \in 0..(call.r - 1), l \in 0..(n - 1)}
  <2>1. Outputs(n, W, keep) = Bodies
    <3>1. keep \in BOOLEAN
      OBVIOUS
    <3> HIDE DEF W, x, y, keep
    <3> QED BY <3>1, <1>0, <1>2, <1>5, <1>6, BodyWrites
  <2>2. ASSUME NEW j \in 0..(call.r - 1), NEW l \in 0..(n - 1)
        PROVE  Body1(j, l) = Line1(j, l)
    <3>0. j \in Nat /\ l \in Nat /\ call.r \in Nat /\ r = call.r
      BY <1>0, <1>5, Strides, Named
    <3>1. y + l = y0 + (part + l) /\ x + l = x0 + (part + l)
      BY <1>1, <1>2, <3>0
    <3>2. InPast(call, l) = l /\ InStep(call) = InStride(call)
      BY <1>1 DEF InPast, InStep
    <3>3. (IF j = 0 THEN NoTw ELSE W[j][l]) = (IF j = 0 THEN NoTw ELSE LineTw(call, i, j))
      <4>1. CASE j = 0 BY <4>1
      <4>2. CASE j # 0
        <5>1. j \in 1..(r - 1)
          BY <3>0, <4>2
        <5>2. W[j][l] = IF first THEN NoTw ELSE <<tw + (j - 1), tw + (j - 1)>>
          BY <5>1
        <5>3. (first <=> i = 0) /\ (i # 0 => tw = (i - 1) * (call.r - 1))
          BY <1>0 DEF AtRow
        <5> HIDE DEF W, i
        <5> QED BY <5>2, <5>3 DEF LineTw
      <4> QED BY <4>1, <4>2
    <3>4. ((FALSE /\ l = 0) /\ j > 0) = (FALSE /\ j > 0)
      OBVIOUS
    <3> HIDE DEF x, y, W
    <3> QED BY <3>1, <3>2, <3>3, <3>4 DEF BodyWrite, LineWrite, Write
  <2> HIDE DEF W, x, y, i, keep, Body1, Line1
  <2>3. Bodies = Lines1
    BY <2>2
  <2> HIDE DEF Bodies, Lines1
  <2>4. Outputs(n, W, keep) = Lines1
    BY <2>1, <2>3
  <2>5. Lines1 = MoreLines(call, B, i, part, n)
    BY DEF Lines1, Line1, MoreLines
  <2> QED BY <2>4, <2>5 DEF keep
<1>8. ch' = LinesDone(call, B, i, part + n)
  <2>1. LinesGrow(call, B, i, part, n)
    BY <1>0, <1>1, <1>2, <1>5, LinesAdded
  <2>2. ch = LinesDone(call, B, i, part)
    BY <1>0 DEF AtRow
  <2> HIDE DEF i
  <2> QED BY <1>4, <1>7, <2>1, <2>2 DEF LinesGrow
<1>9. Placed(call, inb', outb', x + s, y + s) /\ Bases(inb') /\ Bases(outb')
  <2>1. InPast(call, s) = s
    BY <1>1 DEF InPast
  <2>2. Bases(inb) /\ Bases(outb)
    BY <1>0 DEF Typed
  <2> HIDE DEF x, y, s
  <2>3. Placed(call, inb', outb', x + InPast(call, s), y + s) /\ Bases(inb') /\ Bases(outb')
    BY <1>0, <1>2, <1>4, <1>5, <1>6, <2>2, BodyMoves DEF s
  <2> QED BY <2>1, <2>3
<1> DEFINE past == IF neon THEN 2 * ((part + n) \div 2) ELSE part + n
<1>10. s = (IF n = 1 /\ neon THEN 0 ELSE n) /\ past = part + s /\ s \in Nat
  BY <1>1, <1>3, <1>5 DEF Passed, LineMoves
<1>11. x + s = x0 + past /\ y + s = y0 + past
  <2> HIDE DEF x0, y0, s, past
  <2> QED BY <1>1, <1>2, <1>10
<1>k. Kept' /\ B' = B
  BY <1>0, <1>1, SteadyKept
<1>12. AtRow'
  <2>1. Row' = i /\ part' = part + n
    BY <1>0, <1>4 DEF Row
  <2>2. PastLines' = past
    BY <1>0, <1>4 DEF PastLines
  <2>3. Placed(call, inb', outb', x0 + past, y0 + past)
    BY <1>9, <1>11
  <2>4. Ker(call).neon /\ part' < call.w => part' % 2 = 0
    BY <1>3, <1>4 DEF LineMoves
  <2>5. part' \in 0..call.w
    BY <1>1, <1>4, <1>5
  <2>6. first <=> i = 0
    BY <1>0 DEF AtRow
  <2>7. tw = IF i = 0 THEN 0 ELSE (i - 1) * (call.r - 1)
    BY <1>0 DEF AtRow
  <2> HIDE DEF i, past
  <2> QED BY <1>0, <1>1, <1>8, <1>k, <2>1, <2>2, <2>3, <2>4, <2>5, <2>6, <2>7 DEF AtRow, x0, y0
<1>13. Typed'
  <2>0. Points(call) \in Nat /\ call.w \in Nat
    BY <1>0, <1>1, Strides DEF RowPlaced
  <2>1. part' \in 0..Points(call) + call.w
    BY <1>1, <1>4, <1>5, <2>0
  <2> QED BY <1>0, <1>9, <2>1 DEF Typed, Bases, Steady
<1> QED BY <1>0, <1>k, <1>12, <1>13, TypedWillBe DEF PassInv

-----------------------------------------------------------------------------
-----------------------------------------------------------------------------
(*****************************************************************************)
(* RowEnd.                                                                   *)
(*****************************************************************************)
\* Pairs leave out the odd line.
LEMMA EvenPart ==
  ASSUME NEW n \in Nat
  PROVE  2 * (n \div 2) = n - (n % 2) /\ 2 * (n \div 2) \in Nat
OBVIOUS

\* Streams in line are addresses.
LEMMA LinedNat ==
  ASSUME NEW x \in Nat, NEW t \in Nat, NEW n \in Nat, NEW g, Lined(g, x, t, n)
  PROVE  \A j \in 0..(n - 1) : g[j] \in Nat
<1> SUFFICES ASSUME NEW j \in 0..(n - 1) PROVE g[j] \in Nat
  OBVIOUS
<1>1. g[j] = x + j * t /\ j * t \in Nat
  BY DEF Lined
<1> QED BY <1>1

\* RowEnd takes the streams to the next row, one stride past the start of this
\* one however many lines moved them, and the cursor to the next point's
\* twiddles.
LEMMA RowEnds ==
  ASSUME PassInv, RowEnd
  PROVE  PassInv'
<1> DEFINE i == Row
           x0 == InStart(call, B) + i * call.bin
           y0 == OutStart(call, B) + i * call.bout
           x1 == InStart(call, B) + (i + 1) * call.bin
           y1 == OutStart(call, B) + (i + 1) * call.bout
           past == PastLines
           ti == Ker(call).span * InStride(call)
           to == Ker(call).span * OutStride(call)
           k == Ker(call).bases
<1>0. /\ Typed /\ Sized(call) /\ Kept /\ B \in Nat /\ Starts(call, B) /\ pc = "row"
      /\ blocks >= 1 /\ Steady /\ call' = call /\ AtRow /\ part = call.w /\ part' = 0
      /\ groups' = groups - 1 /\ first' = FALSE /\ ch' = ch
      /\ B < Blocks(call)
  BY InSome DEF RowEnd, Steady, PassInv, Kept
<1>1. /\ RowPlaced(i) /\ i = call.ido - groups /\ groups \in 1..call.ido
      /\ Ker(call).neon \in BOOLEAN /\ ~Packed(call) /\ ~NeonPass(call)
      /\ Ker(call).loop = "batch"
  BY <1>0, Rows
<1>2. /\ i \in Nat /\ x0 \in Nat /\ y0 \in Nat /\ x1 \in Nat /\ y1 \in Nat
      /\ x1 = x0 + call.bin /\ y1 = y0 + call.bout /\ call.bin \in Nat /\ call.bout \in Nat
      /\ call.w \in Nat
  <2>s. InStart(call, B) \in Nat /\ OutStart(call, B) \in Nat
    BY <1>0 DEF Starts
  <2> HIDE DEF i
  <2>1. i \in Nat /\ call.bin \in Nat /\ call.bout \in Nat /\ call.w \in Nat
    BY <1>1 DEF RowPlaced
  <2> DEFINE p == i * call.bin
             q == i * call.bout
             p1 == (i + 1) * call.bin
             q1 == (i + 1) * call.bout
  <2>2. p \in Nat /\ q \in Nat /\ p1 = p + call.bin /\ q1 = q + call.bout
    BY <1>1 DEF RowPlaced
  <2> HIDE DEF p, q, p1, q1
  <2>3. x0 = InStart(call, B) + p /\ y0 = OutStart(call, B) + q
        /\ x1 = InStart(call, B) + p1 /\ y1 = OutStart(call, B) + q1
    BY DEF p, q, p1, q1
  <2> HIDE DEF x0, y0, x1, y1
  <2> QED BY <2>s, <2>1, <2>2, <2>3
<1>3. past \in Nat /\ Adj(call.bin) = call.bin - past /\ Adj(call.bout) = call.bout - past
  <2>1. CASE Ker(call).neon
    <3>1. 2 * (call.w \div 2) = call.w - (call.w % 2) /\ 2 * (call.w \div 2) \in Nat
      BY <1>2, EvenPart
    <3>2. past = 2 * (call.w \div 2)
      BY <1>0, <2>1 DEF PastLines
    <3> HIDE DEF past
    <3> QED BY <2>1, <3>1, <3>2, Named DEF Adj
  <2>2. CASE ~Ker(call).neon
    BY <1>0, <1>2, <2>2, Named DEF Adj, PastLines
  <2> QED BY <2>1, <2>2
<1>4. /\ k \in Nat \ {0} /\ ti \in Nat /\ to \in Nat /\ Bases(inb) /\ Bases(outb)
      /\ Lined(inb, x0 + past, ti, k) /\ Lined(outb, y0 + past, to, k)
  BY <1>0, <1>1, Strides DEF AtRow, Placed, Typed
<1>5. /\ inb' = [b \in DOMAIN inb |-> inb[b] + Adj(call.bin)]
      /\ outb' = [b \in DOMAIN outb |-> outb[b] + Adj(call.bout)]
  BY DEF RowEnd
<1>b. DOMAIN inb = 0..(k - 1) /\ DOMAIN outb = 0..(k - 1)
  BY <1>4 DEF Bases
<1>6. Placed(call, inb', outb', x1, y1) /\ Bases(inb') /\ Bases(outb')
  <2>e. Placed(call, inb', outb', x1, y1) <=> Lined(inb', x1, ti, k) /\ Lined(outb', y1, to, k)
    BY <1>1 DEF Placed
  <2>f. (Bases(inb') <=> inb' \in [0..(k - 1) -> Nat])
        /\ (Bases(outb') <=> outb' \in [0..(k - 1) -> Nat])
    BY DEF Bases
  <2> DEFINE ai == Adj(call.bin)
             ao == Adj(call.bout)
             xp == x0 + past
             yp == y0 + past
  <2>1. ai \in Int /\ ao \in Int /\ x1 = xp + ai /\ y1 = yp + ao /\ xp \in Int /\ yp \in Int
    BY <1>2, <1>3
  <2>2. Lined(inb, xp, ti, k) /\ Lined(outb, yp, to, k)
    BY <1>4
  <2>p. (\A b \in 0..(k - 1) : inb'[b] = inb[b] + ai)
        /\ (\A b \in 0..(k - 1) : outb'[b] = outb[b] + ao)
    BY <1>5, <1>b
  <2> HIDE DEF x1, y1, ti, to, k, ai, ao, xp, yp
  <2>3. Lined(inb', x1, ti, k)
    <3> SUFFICES ASSUME NEW j \in 0..(k - 1) PROVE inb'[j] = x1 + j * ti
      BY DEF Lined
    <3>1. inb[j] = xp + j * ti /\ inb'[j] = inb[j] + ai
      BY <2>p, <2>2 DEF Lined
    <3>2. j * ti \in Int
      BY <1>4
    <3> QED BY <2>1, <3>1, <3>2
  <2>4. Lined(outb', y1, to, k)
    <3> SUFFICES ASSUME NEW j \in 0..(k - 1) PROVE outb'[j] = y1 + j * to
      BY DEF Lined
    <3>1. outb[j] = yp + j * to /\ outb'[j] = outb[j] + ao
      BY <2>p, <2>2 DEF Lined
    <3>2. j * to \in Int
      BY <1>4
    <3> QED BY <2>1, <3>1, <3>2
  <2>5. inb' \in [0..(k - 1) -> Nat]
    <3>1. \A j \in 0..(k - 1) : inb'[j] \in Nat
      BY <1>2, <1>4, <2>3, LinedNat
    <3> QED BY <1>5, <1>b, <3>1
  <2>6. outb' \in [0..(k - 1) -> Nat]
    <3>1. \A j \in 0..(k - 1) : outb'[j] \in Nat
      BY <1>2, <1>4, <2>4, LinedNat
    <3> QED BY <1>5, <1>b, <3>1
  <2> QED BY <2>3, <2>4, <2>5, <2>6, <2>e, <2>f
<1>7. ch' = LinesDone(call, B, i + 1, 0)
  <2>1. ch = LinesDone(call, B, i, call.w)
    BY <1>0 DEF AtRow
  <2> HIDE DEF i
  <2> QED BY <1>0, <1>2, <2>1, RowFull
<1>k. Kept' /\ B' = B
  BY <1>0, SteadyKept
<1>8. (first <=> i = 0) /\ (tw = IF i = 0 THEN 0 ELSE (i - 1) * (call.r - 1))
  BY <1>0 DEF AtRow
<1>9. tw' = ((i + 1) - 1) * (call.r - 1)
  <2>1. call.r - 1 \in Int /\ r = call.r
    BY <1>0, Strides, Named
  <2>2. tw' = IF first THEN tw ELSE tw + (r - 1)
    BY DEF RowEnd
  <2>3. CASE i = 0
    BY <1>8, <2>1, <2>2, <2>3
  <2>4. CASE i # 0
    <3> DEFINE q == call.r - 1
    <3> HIDE DEF q, i
    <3>1. tw' = (i - 1) * q + q
      BY <1>8, <2>1, <2>2, <2>4 DEF q
    <3>2. (i - 1) * q + q = ((i + 1) - 1) * q
      <4>1. (i - 1) * q = i * q - q /\ i * q \in Int
        BY <1>2, <2>1 DEF q
      <4>2. (i + 1) - 1 = i
        BY <1>2
      <4> QED BY <2>1, <4>1, <4>2 DEF q
    <3> QED BY <3>1, <3>2 DEF q
  <2> QED BY <2>3, <2>4
<1>t. tw' \in Nat
  <2>1. call.r - 1 \in Nat /\ (i + 1) - 1 \in Nat
    BY <1>0, <1>2, Strides
  <2> DEFINE q == call.r - 1
             m == (i + 1) - 1
  <2> HIDE DEF q, m
  <2>2. m * q \in Nat
    BY <2>1 DEF q, m
  <2> QED BY <1>9, <2>2 DEF q, m
<1>10. Typed'
  <2>1. groups' \in 0..Points(call)
    BY <1>0, <1>1 DEF Points, Sized
  <2>2. part' \in 0..Points(call) + call.w
    BY <1>0, <1>2, Strides
  <2>3. pc' \in {"knext", "row"}
    BY DEF RowEnd
  <2> QED BY <1>0, <1>6, <1>t, <2>1, <2>2, <2>3 DEF Typed, Bases, Steady
<1>11. CASE groups = 1
  <2>1. pc' = "knext" /\ i + 1 = call.ido
    BY <1>1, <1>11 DEF RowEnd, RowPlaced
  <2>2. ch' = BlocksDone(call, B + 1)
    BY <1>0, <1>1, <1>7, <2>1, EndOfBlock
  <2>3. Placed(call, inb', outb', InStart(call, B) + call.ido * call.bin,
               OutStart(call, B) + call.ido * call.bout)
    BY <1>6, <2>1
  <2>4. AtNext'
    BY <1>0, <1>1, <1>k, <2>2, <2>3 DEF AtNext
  <2> QED BY <1>0, <1>k, <1>10, <2>1, <2>4, TypedWillBe DEF PassInv
<1>12. CASE groups # 1
  <2>0. call.ido \in Nat
    BY <1>1 DEF RowPlaced
  <2>z. i + 1 # 0
    <3> HIDE DEF i
    <3> QED BY <1>2
  <2>1. pc' = "row" /\ groups' \in 1..call.ido /\ i + 1 # 0
    BY <1>0, <1>1, <2>0, <2>z, <1>12 DEF RowEnd
  <2>2. Row' = i + 1
    BY <1>0, <1>1, <1>2 DEF Row, RowPlaced
  <2>3. PastLines' = 0
    BY <1>0 DEF PastLines
  <2>4. Placed(call, inb', outb', x1 + 0, y1 + 0)
    BY <1>2, <1>6
  <2>5. part' \in 0..call.w /\ part' % 2 = 0
    BY <1>0, <1>2
  <2> HIDE DEF i
  <2>6. AtRow'
    BY <1>0, <1>1, <1>7, <1>9, <1>k, <2>1, <2>2, <2>3, <2>4, <2>5 DEF AtRow, x1, y1
  <2> QED BY <1>k, <1>10, <2>1, <2>6, TypedWillBe DEF PassInv
<1> QED BY <1>11, <1>12

-----------------------------------------------------------------------------
-----------------------------------------------------------------------------
(*****************************************************************************)
(* BlockNext.                                                                *)
(*****************************************************************************)
\* What lies between the starts of two blocks.
InGap(c) ==
  CASE Ker(c).loop \in {"pass", "run"} -> c.r * c.ido
    [] Ker(c).loop = "strided" -> c.bin
    [] Ker(c).loop = "batch" -> c.r * c.sin
OutGap(c) ==
  CASE Ker(c).loop = "pass" -> c.ido
    [] Ker(c).loop \in {"strided", "run"} -> c.bout
    [] Ker(c).loop = "batch" -> c.ido * c.bout
TwGap(c) == IF Ker(c).loop = "strided" THEN c.dtw ELSE 0

\* A block more.
LEMMA OneMore ==
  ASSUME NEW a \in Nat, NEW b \in Nat PROVE a * (b + 1) = a * b + a /\ a * b \in Nat
OBVIOUS

\* A block starts a gap after the one before.
LEMMA NextStart ==
  ASSUME NEW c, Sized(c), Ker(c).loop # "last", NEW b \in Nat
  PROVE  /\ InStart(c, b + 1) = InStart(c, b) + InGap(c)
         /\ OutStart(c, b + 1) = OutStart(c, b) + OutGap(c)
         /\ TwStart(c, b + 1) = TwStart(c, b) + TwGap(c)
         /\ InGap(c) \in Nat /\ OutGap(c) \in Nat /\ TwGap(c) \in Nat
<1>0. c.ido \in Nat /\ c.bin \in Nat /\ c.bout \in Nat /\ c.dtw \in Nat /\ c.sin \in Nat
      /\ c.r \in Nat
      /\ Ker(c).loop \in {"pass", "strided", "last", "run", "batch"}
  BY Strides DEF Sized
<1>1. c.r * c.ido \in Nat /\ c.r * c.sin \in Nat /\ c.ido * c.bout \in Nat
  BY <1>0
<1>2. InGap(c) \in Nat /\ OutGap(c) \in Nat /\ TwGap(c) \in Nat
  BY <1>0, <1>1 DEF InGap, OutGap, TwGap
<1>3. InStart(c, b) = InGap(c) * b /\ InStart(c, b + 1) = InGap(c) * (b + 1)
  BY <1>0 DEF InStart, InGap
<1>4. OutStart(c, b) = OutGap(c) * b /\ OutStart(c, b + 1) = OutGap(c) * (b + 1)
  BY <1>0 DEF OutStart, OutGap
<1>5. TwStart(c, b) = TwGap(c) * b /\ TwStart(c, b + 1) = TwGap(c) * (b + 1)
  <2>1. CASE Ker(c).loop = "strided" BY <2>1 DEF TwStart, TwGap
  <2>2. CASE Ker(c).loop # "strided" BY <2>2 DEF TwStart, TwGap
  <2> QED BY <2>1, <2>2
<1> QED BY <1>2, <1>3, <1>4, <1>5, OneMore

\* The streams that a block leaves behind, and the strides that reach the next.
LEMMA Chained ==
  ASSUME NEW x \in Nat, NEW d \in Nat, NEW s \in Nat, NEW span \in Nat, NEW from \in Nat,
         NEW skip \in Nat, NEW q \in Nat, from * span + skip + 1 = q,
         NEW f, f = (x + d) + from * (span * s), d = s
  PROVE  f + skip * s = x + q * s
<1>1. from * (span * s) = (from * span) * s /\ (from * span) * s \in Nat /\ from * span \in Nat
  OBVIOUS
<1> DEFINE m == from * span
<1>2. m \in Nat /\ m + skip + 1 = q /\ f = (x + s) + m * s
  BY <1>1
<1> HIDE DEF m
<1>3. q * s = m * s + skip * s + s /\ m * s \in Nat /\ skip * s \in Nat
  <2>1. q = (m + skip) + 1 /\ m + skip \in Nat
    BY <1>2
  <2>2. ((m + skip) + 1) * s = (m + skip) * s + s
    BY <2>1
  <2>3. (m + skip) * s = m * s + skip * s
    BY <1>2
  <2> QED BY <1>2, <2>1, <2>2, <2>3
<1> QED BY <1>2, <1>3

\* BlockNext takes the streams from the end of a block to the start of the
\* next, whatever base serves the last stream.
LEMMA BasesReach ==
  ASSUME Typed, Sized(call), AtNext, Starts(call, B), B \in Nat, ~NeonPass(call)
  PROVE  /\ NextIn = InStart(call, B) + InGap(call)
         /\ NextOut = OutStart(call, B) + OutGap(call)
<1> DEFINE x == InStart(call, B)
           y == OutStart(call, B)
           k == Ker(call).bases
           ti == Ker(call).span * InStride(call)
           to == Ker(call).span * OutStride(call)
<1>0. /\ call.ido \in Nat /\ call.bin \in Nat /\ call.bout \in Nat /\ call.sin \in Nat
      /\ call.r \in Nat /\ InStride(call) \in Nat /\ OutStride(call) \in Nat
      /\ Ker(call).span \in Nat \ {0} /\ k \in Nat \ {0}
      /\ Ker(call).loop \in {"pass", "strided", "last", "run", "batch"}
  BY Strides DEF Sized
<1>1. x \in Nat /\ y \in Nat /\ Ker(call).loop # "last" /\ ti \in Nat /\ to \in Nat
      /\ call.r * call.ido \in Nat /\ call.ido * call.bout \in Nat /\ call.ido * call.bin \in Nat
  BY <1>0 DEF Starts, AtNext
<1>2. ASSUME NEW f, NEW z \in Nat, NEW t \in Nat, Lined(f, z, t, k)
      PROVE  f[0] = z
  <2>1. f[0] = z + 0 * t
    BY <1>0, <1>2 DEF Lined
  <2> QED BY <1>2, <2>1
<1>3. CASE Ker(call).loop = "strided"
  <2>1. ~Packed(call) /\ InPast(call, call.ido) = call.ido
    BY <1>3 DEF Packed, InPast
  <2>2. Lined(inb, x + call.ido, ti, k) /\ Lined(outb, y + call.ido, to, k)
    BY <1>3, <2>1 DEF AtNext, Placed
  <2> HIDE DEF x, y, ti, to, k
  <2>3. inb[0] = x + call.ido /\ outb[0] = y + call.ido
    BY <1>0, <1>1, <1>2, <2>2
  <2>4. NextIn = inb[0] + (call.bin - call.ido) /\ NextOut = outb[0] + (call.bout - call.ido)
    BY <1>3, Named DEF NextIn, NextOut
  <2>5. InGap(call) = call.bin /\ OutGap(call) = call.bout
    BY <1>3 DEF InGap, OutGap
  <2>6. (x + call.ido) + (call.bin - call.ido) = x + call.bin
        /\ (y + call.ido) + (call.bout - call.ido) = y + call.bout
    BY <1>0, <1>1
  <2> QED BY <2>3, <2>4, <2>5, <2>6 DEF x, y
<1>4. CASE Ker(call).loop = "run"
  <2>1. Packed(call) /\ InPast(call, call.ido) = call.r * call.ido
    BY <1>4 DEF Packed, InPast
  <2>2. inb[0] = x + call.r * call.ido /\ Lined(outb, y + call.ido, to, k)
    BY <1>4, <2>1 DEF AtNext, Placed
  <2> HIDE DEF x, y, to, k
  <2>3. outb[0] = y + call.ido
    BY <1>0, <1>1, <1>2, <2>2
  <2>4. NextIn = inb[0] /\ NextOut = outb[0] + (call.bout - call.ido)
    BY <1>4, Named DEF NextIn, NextOut
  <2>5. InGap(call) = call.r * call.ido /\ OutGap(call) = call.bout
    BY <1>4 DEF InGap, OutGap
  <2>6. (y + call.ido) + (call.bout - call.ido) = y + call.bout
    BY <1>0, <1>1
  <2> QED BY <2>2, <2>3, <2>4, <2>5, <2>6 DEF x, y
<1>5. CASE Ker(call).loop = "pass"
  <2>1. ~Packed(call) /\ InPast(call, call.ido) = call.ido /\ InStride(call) = call.ido
    BY <1>5 DEF Packed, InPast, InStride
  <2>2. Lined(inb, x + call.ido, ti, k) /\ Lined(outb, y + call.ido, to, k)
    BY <1>5, <2>1 DEF AtNext, Placed
  <2> DEFINE from == Ker(call).from
             skip == Ker(call).skip
             span == Ker(call).span
  <2>3. from \in 0..(k - 1) /\ skip \in Nat /\ from * span + skip + 1 = call.r
    BY <1>5 DEF Sized, Shaped, FitsWith, ChainsWith, NeonPass
  <2>4. NextIn = inb[from] + skip * call.ido /\ NextOut = outb[0]
    BY <1>5, <2>1, Named DEF NextIn, NextOut
  <2>5. InGap(call) = call.r * call.ido /\ OutGap(call) = call.ido
    BY <1>5 DEF InGap, OutGap
  <2>6. from \in Nat
    BY <1>0, <2>3
  <2>7. inb[from] = (x + call.ido) + from * (span * call.ido)
    BY <2>1, <2>2, <2>3 DEF Lined
  <2> HIDE DEF x, y, ti, to, k, from, skip
  <2>8. outb[0] = y + call.ido
    BY <1>0, <1>1, <1>2, <2>2
  <2>9. inb[from] + skip * call.ido = x + call.r * call.ido
    BY <1>0, <1>1, <2>3, <2>6, <2>7, Chained
  <2> QED BY <2>4, <2>5, <2>8, <2>9 DEF x, y
<1>6. CASE Ker(call).loop = "batch"
  <2>1. ~Packed(call) /\ InStride(call) = call.sin /\ call.sin = call.ido * call.bin
    BY <1>6 DEF Packed, InStride, Sized
  <2>2. Lined(inb, x + call.ido * call.bin, ti, k) /\ Lined(outb, y + call.ido * call.bout, to, k)
    BY <1>6, <2>1 DEF AtNext, Placed
  <2> DEFINE skip == Ker(call).skip
  <2>3. Ker(call).from = 0 /\ skip \in Nat /\ skip + 1 = call.r
    BY <1>6 DEF Sized, Shaped, FitsWith, ChainsWith
  <2>4. NextIn = inb[0] + skip * call.sin /\ NextOut = outb[0]
    BY <1>6, <2>1, <2>3, Named DEF NextIn, NextOut
  <2>5. InGap(call) = call.r * call.sin /\ OutGap(call) = call.ido * call.bout
    BY <1>6 DEF InGap, OutGap
  <2> HIDE DEF x, y, ti, to, k, skip
  <2>6. inb[0] = x + call.ido * call.bin /\ outb[0] = y + call.ido * call.bout
    BY <1>0, <1>1, <1>2, <2>2
  <2>7. call.r * call.sin = skip * call.sin + call.sin /\ skip * call.sin \in Nat
    BY <1>0, <2>3
  <2>8. inb[0] = x + call.sin
    BY <2>1, <2>6
  <2>9. inb[0] + skip * call.sin = x + call.r * call.sin
    BY <1>0, <1>1, <2>7, <2>8
  <2> QED BY <2>4, <2>5, <2>6, <2>9 DEF x, y
<1> QED BY <1>0, <1>1, <1>3, <1>4, <1>5, <1>6

\* BlockNext leaves the kernel at the start of the next block.
LEMMA BlocksFollow ==
  ASSUME PassInv, BlockNext
  PROVE  PassInv'
<1> DEFINE b == B + 1
<1>0. /\ Typed /\ Sized(call) /\ Kept /\ B \in Nat /\ Starts(call, B) /\ pc = "knext"
      /\ blocks >= 1 /\ call' = call /\ AtNext /\ blocks' = blocks - 1 /\ pc' = "kloop"
      /\ tw' = tw /\ groups' = groups /\ part' = part /\ ch' = ch /\ blocks \in Nat
      /\ B < Blocks(call) /\ Blocks(call) \in Nat /\ blocks \in 0..Blocks(call)
      /\ Blocks(call) <= call.l1 /\ call.l1 \in Nat
  <2>1. /\ pc = "knext" /\ call' = call /\ blocks' = blocks - 1 /\ pc' = "kloop"
        /\ tw' = tw /\ groups' = groups /\ part' = part /\ ch' = ch
    BY DEF BlockNext
  <2>2. Typed /\ Sized(call) /\ Kept /\ Starts(call, B) /\ Blocks(call) \in 1..call.l1
        /\ B \in 0..Blocks(call) /\ B < Blocks(call)
    BY <2>1, InSome
  <2>3. blocks >= 1 /\ blocks \in 0..Blocks(call)
    BY <2>1, <2>2 DEF Kept
  <2>4. AtNext
    BY <2>1 DEF PassInv
  <2>5. call.l1 \in Nat
    BY <2>2 DEF Sized
  <2>6. Blocks(call) \in Nat /\ Blocks(call) <= call.l1
    BY <2>2, <2>5
  <2>7. B \in Nat /\ blocks \in Nat
    BY <2>2, <2>3, <2>6
  <2> QED BY <2>1, <2>2, <2>3, <2>4, <2>5, <2>6, <2>7
<1>1. B' = b /\ b \in Nat /\ b # 0
  BY <1>0, Strides DEF B
<1>2. Starts(call, b)
  BY <1>0, <1>1, Started
<1>l. Ker(call).loop # "last"
  BY <1>0 DEF AtNext
<1>3. /\ InStart(call, b) = InStart(call, B) + InGap(call)
      /\ OutStart(call, b) = OutStart(call, B) + OutGap(call)
      /\ TwStart(call, b) = TwStart(call, B) + TwGap(call)
  BY <1>0, <1>l, NextStart
<1> HIDE DEF b
<1>4. ~NeonPass(call) =>
        /\ inb' = [inb EXCEPT ![0] = InStart(call, b)]
        /\ outb' = [outb EXCEPT ![0] = OutStart(call, b)]
        /\ block' = block
  BY <1>0, <1>3, BasesReach, Named DEF BlockNext, NeonPass
<1>5. NeonPass(call) => /\ inb' = inb /\ outb' = outb
                        /\ block' = <<InStart(call, b), OutStart(call, b)>>
  <2> SUFFICES ASSUME NeonPass(call)
               PROVE  inb' = inb /\ outb' = outb
                      /\ block' = <<InStart(call, b), OutStart(call, b)>>
    OBVIOUS
  <2>1. Ker(call).loop = "pass" /\ Ker(call).neon
    BY DEF NeonPass
  <2>2. Ker(call).skip = call.r /\ InStride(call) = call.ido
    BY <1>0, <2>1 DEF Sized, Shaped, ChainsWith, InStride
  <2>3. block[1] = InStart(call, B) /\ block[2] = OutStart(call, B)
    BY <1>0 DEF Kept
  <2>4. InGap(call) = call.r * call.ido /\ OutGap(call) = call.ido
    BY <2>1 DEF InGap, OutGap
  <2>5. inb' = inb /\ outb' = outb
        /\ block' = <<block[1] + Ker(call).skip * InStride(call), block[2] + InStride(call)>>
    BY <2>1, Named DEF BlockNext
  <2> QED BY <1>3, <2>2, <2>3, <2>4, <2>5
<1>6. twBase' = TwStart(call, b)
  <2>1. twBase = TwStart(call, B) /\ TwStart(call, B) \in Nat
    BY <1>0 DEF Kept, Starts
  <2>2. CASE Ker(call).loop = "strided"
    BY <1>3, <2>1, <2>2, Named DEF BlockNext, TwGap
  <2>3. CASE Ker(call).loop # "strided"
    BY <1>3, <2>1, <2>3, Named DEF BlockNext, TwGap
  <2> QED BY <2>2, <2>3
<1>7. first' \in BOOLEAN /\ (Ker(call).loop = "strided" => (first' <=> FirstOf(call, b)))
  <2>1. CASE Ker(call).loop = "strided"
    <3>1. first' = call.br /\ FirstOf(call, b) = call.br /\ call.br \in BOOLEAN
      BY <1>0, <1>1, <2>1, Named DEF BlockNext, FirstOf, Sized
    <3> QED BY <3>1
  <2>2. CASE Ker(call).loop # "strided"
    <3>1. first' = first /\ first \in BOOLEAN
      BY <1>0, <2>2, Named DEF BlockNext, Typed
    <3> QED BY <2>2, <3>1
  <2> QED BY <2>1, <2>2
<1>8. Bases(inb') /\ Bases(outb') /\ block' \in Nat \X Nat
  <2>1. InStart(call, b) \in Nat /\ OutStart(call, b) \in Nat
    BY <1>2 DEF Starts
  <2>2. Bases(inb) /\ Bases(outb) /\ block \in Nat \X Nat
    BY <1>0 DEF Typed
  <2>3. CASE NeonPass(call)
    BY <1>5, <2>1, <2>2, <2>3
  <2>4. CASE ~NeonPass(call)
    BY <1>4, <2>1, <2>2, <2>4 DEF Bases
  <2> QED BY <2>3, <2>4
<1>9. Kept'
  <2>1. blocks' \in 0..Blocks(call)
    BY <1>0
  <2>2. NeonPass(call) => block' = <<InStart(call, b), OutStart(call, b)>>
    BY <1>5
  <2> QED BY <1>0, <1>1, <1>6, <2>1, <2>2 DEF Kept
<1>10. AtBlock'
  <2>1. ch = BlocksDone(call, b) /\ part = 0
    BY <1>0 DEF AtNext, b
  <2>2. ~NeonPass(call) => inb'[0] = InStart(call, b) /\ outb'[0] = OutStart(call, b)
    <3>1. 0 \in DOMAIN inb /\ 0 \in DOMAIN outb
      BY <1>0, Strides DEF Typed, Bases
    <3> QED BY <1>4, <3>1
  <2> QED BY <1>0, <1>1, <1>7, <2>1, <2>2 DEF AtBlock
<1>11. Typed'
  <2>1. blocks' \in 0..call.l1 /\ twBase' \in Nat
    BY <1>0, <1>2, <1>6 DEF Starts
  <2> QED BY <1>0, <1>7, <1>8, <2>1 DEF Typed, Bases
<1> QED BY <1>0, <1>9, <1>10, <1>11, TypedWillBe DEF PassInv

-----------------------------------------------------------------------------
-----------------------------------------------------------------------------
(*****************************************************************************)
(* The theorems.                                                             *)
(*****************************************************************************)
\* A kernel begins at block 0 with nothing written.
LEMMA Begins ==
  ASSUME Init PROVE PassInv
<1>0. /\ call \in Calls /\ pc = "kloop" /\ block = <<0, 0>> /\ tw = 0 /\ twBase = 0
      /\ groups = 0 /\ part = 0 /\ first = call.bf /\ ch = {}
      /\ blocks = Blocks(call)
  BY Named DEF Init, Blocks
<1>1. Sized(call)
  BY <1>0, CallSized
<1>2. /\ Blocks(call) \in 0..call.l1 /\ Blocks(call) \in Nat \ {0} /\ Points(call) \in Nat
      /\ Ker(call).bases \in Nat \ {0} /\ call.w \in Nat /\ call.bf \in BOOLEAN
  BY <1>1, Strides DEF Blocks, Sized
<1>3. B = 0
  BY <1>0, <1>2 DEF B
<1>4. InStart(call, 0) = 0 /\ OutStart(call, 0) = 0 /\ TwStart(call, 0) = 0
  <2>1. /\ call.ido \in Nat /\ call.bin \in Nat /\ call.bout \in Nat /\ call.dtw \in Nat
        /\ call.sin \in Nat /\ call.r \in Nat
    BY <1>1, Strides DEF Sized
  <2>2. Ker(call).loop \in {"pass", "strided", "last", "run", "batch"}
    BY <1>1, Strides
  <2>3. call.r * call.ido \in Nat /\ call.r * call.sin \in Nat /\ call.ido * call.bout \in Nat
    BY <2>1
  <2>4. \A a \in Nat : a * 0 = 0
    OBVIOUS
  <2>5. InStart(call, 0) = 0
    BY <2>1, <2>2, <2>3, <2>4 DEF InStart
  <2>6. OutStart(call, 0) = 0
    BY <2>1, <2>2, <2>3, <2>4 DEF OutStart
  <2>7. TwStart(call, 0) = 0
    BY <2>1, <2>2, <2>3, <2>4 DEF TwStart
  <2> QED BY <2>5, <2>6, <2>7
<1>5. /\ inb = [b \in 0..(Ker(call).bases - 1) |-> 0]
      /\ outb = [b \in 0..(Ker(call).bases - 1) |-> 0]
  BY Named DEF Init
<1>6. Bases(inb) /\ Bases(outb) /\ inb[0] = 0 /\ outb[0] = 0
  BY <1>2, <1>5 DEF Bases
<1>7. Typed
  BY <1>0, <1>2, <1>6 DEF Typed
<1>8. Kept
  BY <1>0, <1>2, <1>3, <1>4 DEF Kept
<1>9. AtBlock
  <2>1. ch = BlocksDone(call, B)
    BY <1>0, <1>3, NoBlocksDone
  <2>2. Ker(call).loop = "strided" => FirstOf(call, 0) = call.bf
    BY DEF FirstOf
  <2> QED BY <1>0, <1>3, <1>4, <1>6, <2>1, <2>2 DEF AtBlock
<1> QED BY <1>0, <1>7, <1>8, <1>9, TypedIs DEF PassInv

\* A step that changes nothing keeps the invariant.
LEMMA Stutters ==
  ASSUME PassInv, UNCHANGED vars PROVE PassInv'
<1>0. Steady /\ pc' = pc /\ inb' = inb /\ outb' = outb /\ tw' = tw /\ groups' = groups
      /\ part' = part /\ first' = first /\ ch' = ch /\ call' = call /\ Typed /\ Kept
  BY InSome DEF vars, Steady
<1>1. B' = B /\ Row' = Row /\ PastLines' = PastLines
  BY <1>0 DEF Steady, B, Row, PastLines
<1>2. Typed'
  BY <1>0 DEF Typed, Steady, Bases
<1>3. Kept'
  BY <1>0, <1>1 DEF Kept, Steady
<1>4. AtBlock => AtBlock'
  BY <1>0, <1>1 DEF AtBlock, Steady
<1>5. ASSUME NEW d, NEW t, InBlock(d, t) PROVE InBlock(d, t)'
  BY <1>0, <1>1, <1>5 DEF InBlock
<1>6. AtGroup => AtGroup'
  BY <1>0, <1>1, <1>5 DEF AtGroup, Grouped
<1>7. AtFirstPair => AtFirstPair'
  BY <1>0, <1>1, <1>5 DEF AtFirstPair
<1>8. AtPair => AtPair'
  BY <1>0, <1>1, <1>5 DEF AtPair
<1>9. AtSingle => AtSingle'
  BY <1>0, <1>1, <1>5 DEF AtSingle
<1>10. AtRow => AtRow'
  BY <1>0, <1>1 DEF AtRow
<1>11. AtNext => AtNext'
  BY <1>0, <1>1 DEF AtNext
<1>12. AtEnd => AtEnd'
  BY <1>0 DEF AtEnd
<1> QED
  BY <1>0, <1>2, <1>3, <1>4, <1>6, <1>7, <1>8, <1>9, <1>10, <1>11, <1>12, TypedWillBe DEF PassInv

\* At every line the streams, the twiddle cursor and the counters stand at one
\* point of one block, and what is written is what comes before it.
THEOREM PassInvariance == Spec => []PassInv
<1>1. ASSUME PassInv, [Next]_vars PROVE PassInv'
  <2>1. CASE BlockStart BY <1>1, <2>1, BlockStarts
  <2>2. CASE Done BY <1>1, <2>2, Finishes
  <2>3. CASE GroupBody BY <1>1, <2>3, GroupBodies
  <2>4. CASE GroupsDone BY <1>1, <2>4, GroupsAreDone
  <2>5. CASE Pair BY <1>1, <2>5, Pairs
  <2>6. CASE NoPair BY <1>1, <2>6, PairsLeftOut
  <2>7. CASE Single BY <1>1, <2>7, Singles
  <2>8. CASE NoSingle BY <1>1, <2>8, SinglesLeftOut
  <2>9. CASE RowBody BY <1>1, <2>9, RowBodies
  <2>10. CASE RowEnd BY <1>1, <2>10, RowEnds
  <2>11. CASE BlockNext BY <1>1, <2>11, BlocksFollow
  <2>12. CASE UNCHANGED vars BY <1>1, <2>12, Stutters
  <2> QED
    BY <1>1, <2>1, <2>2, <2>3, <2>4, <2>5, <2>6, <2>7, <2>8, <2>9, <2>10, <2>11, <2>12 DEF Next
<1> QED BY <1>1, Begins, PTL DEF Spec

\* Every variable keeps its type; no base, cursor or counter passes zero
\* (pass.go:445-517, and the same loop elsewhere).
THEOREM PassTyped == Spec => []TypeOK
<1>1. PassInv => TypeOK
  BY DEF PassInv
<1> QED BY <1>1, PassInvariance, PTL

\* What is done of a block's points is part of the pass.
LEMMA PointsDue ==
  ASSUME Sized(call), B \in 0..Blocks(call), NEW d \in Nat, d <= Points(call),
         d = 0 \/ B < Blocks(call), Ker(call).loop # "batch"
  PROVE  PointsDone(call, B, d) \subseteq Stockham(call)
<1>1. Points(call) \in Nat /\ Blocks(call) \in Nat
  BY Strides
<1>2. B \in Nat /\ B <= Blocks(call)
  BY <1>1
<1>3. PointsDone(call, B, d) \subseteq PointsDone(call, Blocks(call), 0)
  BY <1>1, <1>2, PointsWithin
<1>4. PointsDone(call, Blocks(call), 0) = Stockham(call)
  BY PassOfBlocks DEF BlocksDone
<1> QED BY <1>3, <1>4

\* What is done of a block's rows is part of the pass.
LEMMA LinesDue ==
  ASSUME Sized(call), B \in 0..Blocks(call), NEW i \in Nat, NEW l \in Nat, Ker(call).loop = "batch",
         i <= call.ido, l <= call.w, i < call.ido \/ l = 0, (i = 0 /\ l = 0) \/ B < Blocks(call)
  PROVE  LinesDone(call, B, i, l) \subseteq Stockham(call)
<1>1. Blocks(call) \in Nat /\ call.ido \in Nat /\ call.w \in Nat
  BY Strides DEF Sized
<1>2. B \in Nat /\ B <= Blocks(call)
  BY <1>1
<1>3. LinesDone(call, B, i, l) \subseteq LinesDone(call, Blocks(call), 0, 0)
  BY <1>1, <1>2, LinesWithin
<1>4. LinesDone(call, Blocks(call), 0, 0) = Stockham(call)
  BY PassOfBlocks DEF BlocksDone
<1> QED BY <1>3, <1>4

\* Whole blocks are part of the pass.
LEMMA BlocksDue ==
  ASSUME NEW c, Sized(c), NEW b \in Nat, b <= Blocks(c)
  PROVE  BlocksDone(c, b) \subseteq Stockham(c)
<1>1. /\ Points(c) \in Nat /\ Blocks(c) \in Nat /\ c.ido \in Nat /\ c.w \in Nat
  BY Strides DEF Sized
<1>2. PointsDone(c, b, 0) \subseteq PointsDone(c, Blocks(c), 0)
  BY <1>1, PointsWithin
<1>3. LinesDone(c, b, 0, 0) \subseteq LinesDone(c, Blocks(c), 0, 0)
  BY <1>1, LinesWithin
<1>4. BlocksDone(c, b) \subseteq BlocksDone(c, Blocks(c))
  BY <1>2, <1>3 DEF BlocksDone
<1> QED BY <1>4, PassOfBlocks

\* Pairs and groups of four are within the points.
LEMMA SomeOfPoints ==
  ASSUME NEW n \in Nat
  PROVE  2 * (n \div 2) \in 0..n /\ 4 * (n \div 4) \in 0..n
OBVIOUS

\* So are the groups done and the points done of the next.
LEMMA SomeOfGroups ==
  ASSUME NEW n \in Nat, NEW g \in {2, 4, 8}, NEW m \in 0..(n \div g), NEW p \in 0..(g - 1),
         m = 0 => p = 0
  PROVE  g * ((n \div g) - m) + p \in 0..n
<1>1. CASE g = 2 BY <1>1
<1>2. CASE g = 4 BY <1>2
<1>3. CASE g = 8 BY <1>3
<1> QED BY <1>1, <1>2, <1>3

\* What the invariant says is written is due.
LEMMA DueWithin ==
  ASSUME PassInv PROVE EveryWriteIsDue
<1>0. /\ Typed /\ Sized(call) /\ B \in 0..Blocks(call)
      /\ pc \notin {"kloop", "done"} => B < Blocks(call)
  BY InSome
<1>1. Points(call) \in Nat /\ Blocks(call) \in Nat /\ Ker(call).group \in {2, 4, 8}
      /\ call.ido \in Nat /\ call.w \in Nat /\ B \in Nat /\ B <= Blocks(call)
  BY <1>0, Strides DEF Sized
<1>2. CASE pc = "kloop"
  BY <1>0, <1>1, <1>2, BlocksDue DEF PassInv, AtBlock, EveryWriteIsDue
<1>3. CASE pc = "done"
  BY <1>0, <1>3, PassOfBlocks DEF PassInv, AtEnd, EveryWriteIsDue
<1>4. CASE pc = "knext"
  <2>1. B + 1 \in Nat /\ B + 1 <= Blocks(call)
    BY <1>0, <1>1, <1>4
  <2> QED BY <1>0, <1>4, <2>1, BlocksDue DEF PassInv, AtNext, EveryWriteIsDue
<1>5. ASSUME NEW d \in 0..Points(call), NEW t, InBlock(d, t), pc \notin {"kloop", "done"}
      PROVE  EveryWriteIsDue
  BY <1>0, <1>1, <1>5, PointsDue DEF InBlock, EveryWriteIsDue
<1>6. CASE pc = "group"
  <2> DEFINE a == Grouped(Ker(call).group, groups)
  <2>1. AtGroup
    BY <1>6 DEF PassInv
  <2>2. a + part \in 0..Points(call)
    BY <1>1, <2>1, SomeOfGroups DEF AtGroup, Grouped
  <2>3. InBlock(a + part, a)
    BY <2>1 DEF AtGroup
  <2> HIDE DEF a
  <2> QED BY <1>5, <1>6, <2>2, <2>3
<1>7. CASE pc = "firstpair"
  <2>1. InBlock(0, 0) /\ 0 \in 0..Points(call)
    BY <1>1, <1>7 DEF PassInv, AtFirstPair
  <2> QED BY <1>5, <1>7, <2>1
<1>8. CASE pc = "pair"
  <2> DEFINE a == 4 * (Points(call) \div 4)
  <2>1. InBlock(a, a) /\ a \in 0..Points(call)
    BY <1>1, <1>8, SomeOfPoints DEF PassInv, AtPair
  <2> HIDE DEF a
  <2> QED BY <1>5, <1>8, <2>1
<1>9. CASE pc = "single"
  <2> DEFINE a == 2 * (Points(call) \div 2)
  <2>1. InBlock(a, a) /\ a \in 0..Points(call)
    BY <1>1, <1>9, SomeOfPoints DEF PassInv, AtSingle
  <2> HIDE DEF a
  <2> QED BY <1>5, <1>9, <2>1
<1>10. CASE pc = "row"
  <2>1. /\ Ker(call).loop = "batch" /\ groups \in 1..call.ido /\ part \in 0..call.w
        /\ ch = LinesDone(call, B, Row, part)
    BY <1>10 DEF PassInv, AtRow
  <2>2. Row \in Nat /\ Row < call.ido /\ part \in Nat
    BY <1>1, <2>1 DEF Row
  <2> QED BY <1>0, <1>1, <1>10, <2>1, <2>2, LinesDue DEF EveryWriteIsDue
<1> QED
  BY <1>0, <1>2, <1>3, <1>4, <1>6, <1>7, <1>8, <1>9, <1>10 DEF Typed

\* Whatever a pass kernel has stored so far is right: the butterfly's output for
\* the inputs a Stockham pass takes it from, by that output's entries of the
\* table, point 0 alone kept (pass.go:13-27).
THEOREM WritesDue == Spec => []EveryWriteIsDue
BY PassInvariance, DueWithin, PTL

\* What the invariant says is written at the end is all of it.
LEMMA WholeAtEnd ==
  ASSUME PassInv PROVE PassIsComplete
<1>1. Sized(call) /\ (pc = "done" => ch = BlocksDone(call, Blocks(call)))
  BY InSome DEF PassInv, AtEnd
<1> QED BY <1>1, PassOfBlocks DEF PassIsComplete

\* When a pass kernel returns it has stored every output of the pass, whatever
\* the number of points leaves over from its groups (pass.go:16-18).
THEOREM PassDone == Spec => []PassIsComplete
BY PassInvariance, WholeAtEnd, PTL

-----------------------------------------------------------------------------
-----------------------------------------------------------------------------
(*****************************************************************************)
(* Pieces of a pass.                                                         *)
(*****************************************************************************)
\* The entries of point i of the piece c are those of point i + c.i0 of d.
PieceTw(c, d, i, j) ==
  TwEntry(d, 0, i + c.i0, j)
    = <<TwEntry(c, 0, i, j)[1] + (c.r - 1) * c.i0, TwEntry(c, 0, i, j)[2] + (c.r - 1) * c.i0>>
  /\ TwEntry(c, 0, i, j) # NoTw

\* A slice that starts where a group does holds whole groups of the table.
LEMMA SliceGroups ==
  ASSUME NEW m \in Nat, NEW n \in Nat, NEW i0 \in Nat, i0 % 4 = 0, m % 4 = 0, i0 + m <= n,
         NEW i \in 0..(m - 1), NEW a, a = 4 * (i \div 4)
  PROVE  /\ Grouping(m, 4, i, a, 4) /\ Grouping(n, 4, i + i0, a + i0, 4)
         /\ a \in Nat /\ a <= i
<1>1. a \in Nat /\ a <= i /\ i < 4 * (m \div 4) /\ i + i0 < 4 * (n \div 4)
      /\ 4 * ((i + i0) \div 4) = a + i0
  OBVIOUS
<1>2. TwGroup(m, 4, i) = <<4 * (i \div 4), 4>>
  BY <1>1 DEF TwGroup
<1>3. TwGroup(n, 4, i + i0) = <<4 * ((i + i0) \div 4), 4>>
  BY <1>1 DEF TwGroup
<1> QED BY <1>1, <1>2, <1>3 DEF Grouping

\* Its entries lie the radix's other factors further on for each point left out.
LEMMA SliceEntry ==
  ASSUME NEW q \in Nat, NEW a \in Nat, NEW i0 \in Nat, NEW j \in Nat, j >= 1,
         NEW i \in Nat, a <= i
  PROVE  /\ 0 + 1 * (q * a + (j - 1) * 4) + i - a \in Nat
         /\ 0 + 1 * (q * (a + i0) + (j - 1) * 4) + (i + i0) - (a + i0)
              = (0 + 1 * (q * a + (j - 1) * 4) + i - a) + q * i0
<1>1. q * (a + i0) = q * a + q * i0 /\ q * a \in Nat /\ q * i0 \in Nat
  OBVIOUS
<1> DEFINE s == q * a
           t == q * i0
           u == q * (a + i0)
<1> HIDE DEF s, t, u
<1>2. u = s + t /\ s \in Nat /\ t \in Nat
  BY <1>1 DEF s, t, u
<1>3. /\ 0 + 1 * (s + (j - 1) * 4) + i - a \in Nat
      /\ 0 + 1 * (u + (j - 1) * 4) + (i + i0) - (a + i0)
           = (0 + 1 * (s + (j - 1) * 4) + i - a) + t
  BY <1>2
<1> QED BY <1>3 DEF s, t, u

\* Where that entry is.
PlainAt(c, i, j, a, e) == e = 0 + 1 * ((c.r - 1) * a + (j - 1) * 4) + i - a

\* An entry of a table of groups of four, kept once.
LEMMA PlainEntry ==
  ASSUME NEW c, NEW i, NEW j, NEW a, Ker(c).group = 4, ~Ker(c).dup,
         Grouping(c.ido, 4, i, a, 4),
         NEW e, PlainAt(c, i, j, a, e)
  PROVE  TwEntry(c, 0, i, j) = <<e, e>>
<1> DEFINE g == TwGroup(c.ido, Ker(c).group, i)
<1>1. g[1] = a /\ g[2] = 4
  BY DEF Grouping
<1>2. TwEntry(c, 0, i, j)
        = LET x == 0 + (IF Ker(c).dup THEN 2 ELSE 1) * ((c.r - 1) * g[1] + (j - 1) * g[2])
                     + i - g[1]
          IN <<x, IF Ker(c).dup THEN x + g[2] ELSE x>>
  BY DEF TwEntry, Ker
<1> HIDE DEF g
<1>3. (IF Ker(c).dup THEN 2 ELSE 1) = 1
  OBVIOUS
<1> QED BY <1>1, <1>2, <1>3 DEF PlainAt

\* The strided kernels' tables are the plain pass's.
LEMMA PieceKernels ==
  ASSUME NEW q \in {4, 8}
  PROVE  /\ pass(q).group = 4 /\ ~pass(q).dup /\ Pass(q) = pass(q)
         /\ \A wide \in BOOLEAN :
              /\ strided(q, wide).group = 4 /\ ~strided(q, wide).dup
              /\ strided(q, wide).loop = "strided" /\ ~strided(q, wide).tail
<1>1. pass(q).group = 4 /\ ~pass(q).dup
  BY DEF pass
<1>2. Pass(q) = pass(q)
  BY DEF Pass
<1>3. ASSUME NEW wide \in BOOLEAN
      PROVE  /\ strided(q, wide).group = 4 /\ ~strided(q, wide).dup
             /\ strided(q, wide).loop = "strided" /\ ~strided(q, wide).tail
  <2>1. strided(q, wide).group = 4
    BY DEF strided, pass
  <2>2. ~strided(q, wide).dup
    BY DEF strided, pass
  <2>3. strided(q, wide).loop = "strided"
    BY DEF strided, pass
  <2>4. ~strided(q, wide).tail
    BY DEF strided, pass
  <2> QED BY <2>1, <2>2, <2>3, <2>4
<1> QED BY <1>1, <1>2, <1>3

\* A strided piece finds its points' entries in its slice of the table.
LEMMA PieceTwiddles ==
  ASSUME NEW c, NEW d, Sized(c), IsPiece(c, d), c.kernel \in {"Strided", "Strided512"},
         c.r \in {4, 8},
         NEW i \in 0..(c.ido - 1), NEW j \in 1..(c.r - 1)
  PROVE  PieceTw(c, d, i, j)
<1>1. /\ Ker(c).group = 4 /\ ~Ker(c).dup /\ Ker(d).group = 4 /\ ~Ker(d).dup
      /\ Ker(c).loop = "strided" /\ ~Ker(c).tail
  <2>1. Ker(d) = Pass(c.r)
    BY DEF IsPiece, Ker, Kernel
  <2>2. CASE c.kernel = "Strided"
    <3>1. Ker(c) = strided(c.r, FALSE)
      BY <2>2 DEF Ker, Kernel
    <3> QED BY <2>1, <3>1, PieceKernels
  <2>3. CASE c.kernel = "Strided512"
    <3>1. Ker(c) = strided(c.r, TRUE)
      BY <2>3 DEF Ker, Kernel
    <3> QED BY <2>1, <3>1, PieceKernels
  <2> QED BY <2>2, <2>3
<1>2. /\ c.ido \in Nat /\ d.ido \in Nat /\ c.i0 \in Nat /\ c.r \in Nat /\ d.r = c.r
      /\ c.i0 % 4 = 0 /\ c.ido % 4 = 0 /\ c.i0 + c.ido <= d.ido
  BY <1>1 DEF IsPiece, Sized, Points
<1> DEFINE a == 4 * (i \div 4)
           q == c.r - 1
<1>3. /\ Grouping(c.ido, 4, i, a, 4) /\ Grouping(d.ido, 4, i + c.i0, a + c.i0, 4)
      /\ a \in Nat /\ a <= i
  BY <1>2, SliceGroups
<1> DEFINE e == 0 + 1 * (q * a + (j - 1) * 4) + i - a
           f == 0 + 1 * (q * (a + c.i0) + (j - 1) * 4) + (i + c.i0) - (a + c.i0)
<1>4. TwEntry(c, 0, i, j) = <<e, e>>
  <2> HIDE DEF a
  <2>1. PlainAt(c, i, j, a, e)
    BY DEF PlainAt
  <2> HIDE DEF e
  <2> QED BY <1>1, <1>3, <2>1, PlainEntry
<1>5. TwEntry(d, 0, i + c.i0, j) = <<f, f>>
  <2>1. d.r - 1 = q
    BY <1>2
  <2> HIDE DEF a
  <2>2. PlainAt(d, i + c.i0, j, a + c.i0, f)
    BY <2>1 DEF PlainAt
  <2> HIDE DEF f
  <2> QED BY <1>1, <1>3, <2>2, PlainEntry
<1>6. q \in Nat /\ j \in Nat /\ j >= 1 /\ i \in Nat
  BY <1>2
<1> HIDE DEF a, q
<1>7. e \in Nat /\ f = e + q * c.i0
  BY <1>2, <1>3, <1>6, SliceEntry
<1> HIDE DEF e, f
<1>8. <<e, e>> # NoTw
  BY <1>7 DEF NoTw
<1> QED BY <1>4, <1>5, <1>7, <1>8 DEF PieceTw, q

\* v is the entry w counted from the start of the whole table; and the writes
\* of the two points correspond.
Slid(c, w, v, i0) ==
  v = IF w = NoTw THEN NoTw ELSE <<w[1] + (c.r - 1) * i0, w[2] + (c.r - 1) * i0>>
MovesTo(d, at, j, x0, dx, w, v, keep, i0, b, y0) ==
  Moved(Write(call, at, j, x0, dx, w, keep), i0) = Write(d, b, j, y0, dx, v, keep)

\* A write moved is the write of the point it is moved to.
LEMMA MovedWrite ==
  ASSUME NEW d, call.r \in Nat, d.r = call.r, NEW at, NEW j, NEW x0 \in Int, NEW dx \in Int,
         NEW w, NEW v, NEW keep, NEW i0 \in Int,
         j # 0 => Slid(call, w, v, i0), NEW b, b = at + i0, NEW y0, y0 = x0 + i0
  PROVE  MovesTo(d, at, j, x0, dx, w, v, keep, i0, b, y0)
<1> DEFINE u == IF j = 0 THEN NoTw ELSE w
           f == [n \in 0..call.r-1 |-> x0 + n * dx]
           k == keep /\ j > 0
           W == [at |-> at, y |-> j, x |-> f, w |-> u, keep |-> k]
           g == [n \in 0..call.r-1 |-> y0 + n * dx]
           t == IF j = 0 THEN NoTw ELSE v
<1>1. Write(call, at, j, x0, dx, w, keep) = W
  BY DEF Write
<1>2. Write(d, b, j, y0, dx, v, keep) = [at |-> b, y |-> j, x |-> g, w |-> t, keep |-> k]
  BY DEF Write
<1>3. [n \in DOMAIN f |-> f[n] + i0] = g
  <2>1. DOMAIN f = 0..call.r-1
    OBVIOUS
  <2>2. ASSUME NEW n \in 0..call.r-1 PROVE f[n] + i0 = y0 + n * dx
    <3>1. f[n] = x0 + n * dx /\ n * dx \in Int
      OBVIOUS
    <3> HIDE DEF f
    <3> QED BY <3>1
  <2> HIDE DEF f
  <2> QED BY <2>1, <2>2
<1>4. t = IF u = NoTw THEN NoTw ELSE <<u[1] + (call.r - 1) * i0, u[2] + (call.r - 1) * i0>>
  <2>1. CASE j = 0 BY <2>1
  <2>2. CASE j # 0 BY <2>2 DEF Slid
  <2> QED BY <2>1, <2>2
<1> HIDE DEF u, f, k, g, t
<1>5. Moved(W, i0)
        = [at |-> W.at + i0, y |-> W.y, x |-> [n \in DOMAIN W.x |-> W.x[n] + i0],
           keep |-> W.keep,
           w |-> IF W.w = NoTw THEN NoTw
                 ELSE <<W.w[1] + (call.r - 1) * i0, W.w[2] + (call.r - 1) * i0>>]
  BY DEF Moved, r
<1>6. W.at = at /\ W.y = j /\ W.x = f /\ W.w = u /\ W.keep = k
  OBVIOUS
<1> HIDE DEF W
<1>7. Moved(W, i0) = [at |-> b, y |-> j, x |-> g, w |-> t, keep |-> k]
  BY <1>3, <1>4, <1>5, <1>6
<1> QED BY <1>1, <1>2, <1>7 DEF MovesTo

\* A strided call's point is the plain pass's, i0 points further on.
LEMMA StridedPiece ==
  ASSUME NEW d, Sized(call), IsPiece(call, d), call.kernel \in {"Strided", "Strided512"},
         call.r \in {4, 8}, Ker(call).loop = "strided", Ker(d).loop = "pass",
         NEW i \in 0..(call.ido - 1), NEW b \in 0..(call.l1 - 1), NEW j \in 0..(call.r - 1)
  PROVE  Moved(StridedDue(call, i, b, j), call.i0) = PassDue(d, i + call.i0, b, j)
<1> DEFINE c == call
<1>1. /\ d.r = c.r /\ c.r \in Nat /\ c.i0 \in Nat /\ d.ido \in Nat /\ d.l1 \in Nat
      /\ c.l1 = d.l1 /\ c.sin = d.ido /\ c.sout = d.l1 * d.ido
      /\ c.bin = d.r * d.ido /\ c.bout = d.ido /\ c.dtw = 0
      /\ (c.bf <=> c.i0 = 0) /\ (c.br <=> c.i0 = 0) /\ c.bf \in BOOLEAN /\ c.br \in BOOLEAN
      /\ c.ido \in Nat
  BY DEF IsPiece, Sized
<1>2. i \in Nat /\ b \in Nat /\ j \in Nat
  BY <1>1
<1> DEFINE at == b * c.bout + i + j * c.sout
           x0 == b * c.bin + i
           w == TwEntry(c, 0, i, j)
           v == TwEntry(d, 0, i + c.i0, j)
           keep == i = 0 /\ c.i0 = 0
           to == (i + c.i0) + d.ido * (b + d.l1 * j)
           y0 == (i + c.i0) + d.ido * d.r * b
<1>3. x0 \in Int /\ y0 = x0 + c.i0
  <2>1. b * (d.r * d.ido) = d.ido * d.r * b /\ d.ido * d.r * b \in Nat
    BY <1>1, <1>2
  <2> QED BY <1>1, <1>2, <2>1
<1>4. to = at + c.i0
  <2>1. d.ido * (b + d.l1 * j) = b * d.ido + j * (d.l1 * d.ido)
    <3>1. d.ido * (b + d.l1 * j) = d.ido * b + d.ido * (d.l1 * j)
      BY <1>1, <1>2
    <3>2. d.ido * (d.l1 * j) = j * (d.l1 * d.ido) /\ d.ido * b = b * d.ido
      BY <1>1, <1>2
    <3> QED BY <3>1, <3>2
  <2>2. b * d.ido \in Nat /\ j * (d.l1 * d.ido) \in Nat
    BY <1>1, <1>2
  <2> QED BY <1>1, <1>2, <2>1, <2>2
<1>5. j # 0 => Slid(c, w, v, c.i0)
  <2> SUFFICES ASSUME j # 0
               PROVE  v = <<w[1] + (c.r - 1) * c.i0, w[2] + (c.r - 1) * c.i0>> /\ w # NoTw
    BY DEF Slid
  <2>1. j \in 1..(c.r - 1)
    BY <1>1
  <2> QED BY <2>1, PieceTwiddles DEF PieceTw
<1>6. StridedDue(c, i, b, j) = Write(c, at, j, x0, d.ido, w, keep)
  <2>1. b * c.dtw = 0
    BY <1>1, <1>2
  <2>2. (i = 0 /\ IF b = 0 THEN c.bf ELSE c.br) = keep
    BY <1>1
  <2> QED BY <1>1, <2>1, <2>2 DEF StridedDue
<1>7. PassDue(d, i + c.i0, b, j) = Write(d, to, j, y0, d.ido, v, keep)
  <2>1. (i + c.i0 = 0) = keep
    BY <1>1, <1>2
  <2> QED BY <2>1 DEF PassDue
<1> HIDE DEF at, x0, w, v, keep, to, y0
<1>8. MovesTo(d, at, j, x0, d.ido, w, v, keep, c.i0, to, y0)
  <2>1. call.r \in Nat /\ d.r = call.r /\ x0 \in Int /\ d.ido \in Int /\ call.i0 \in Int
        /\ to = at + call.i0 /\ y0 = x0 + call.i0
    BY <1>1, <1>3, <1>4
  <2>2. j # 0 => Slid(call, w, v, call.i0)
    BY <1>5
  <2> QED BY <2>1, <2>2, MovedWrite
<1> QED BY <1>6, <1>7, <1>8 DEF MovesTo

\* A point of one run is a block of the final pass.
LEMMA RunPiece ==
  ASSUME NEW d, Sized(call), IsPiece(call, d), call.kernel \in {"LastRun", "LastRun512"},
         NEW i \in 0..(call.ido - 1), NEW j \in 0..(call.r - 1)
  PROVE  Moved(RunDue(call, i, 0, j), call.i0) = LastDue(d, i, j)
<1>1. /\ d.r = call.r /\ call.r \in Nat /\ call.i0 = 0 /\ d.l1 = call.ido /\ call.sout = call.ido
      /\ call.ido \in Nat /\ call.bout \in Nat
  BY Strides DEF IsPiece, Sized
<1>2. i \in Nat /\ j \in Nat
  BY <1>1
<1> DEFINE at == 0 * call.bout + i + call.sout * j
           x0 == call.r * (0 * call.ido + i)
           to == i + d.l1 * j
           y0 == d.r * i
           keep == FALSE
<1>3. x0 \in Int /\ y0 = x0 + 0 /\ to = at + 0
  <2>1. 0 * call.bout = 0 /\ 0 * call.ido + i = i /\ call.ido * j \in Nat /\ call.r * i \in Nat
    BY <1>1, <1>2
  <2> QED BY <1>1, <1>2, <2>1
<1>4. RunDue(call, i, 0, j) = Write(call, at, j, x0, 1, NoTw, keep)
  BY DEF RunDue
<1>5. LastDue(d, i, j) = Write(d, to, j, y0, 1, NoTw, keep)
  BY DEF LastDue
<1> HIDE DEF at, x0, to, y0, keep
<1>6. MovesTo(d, at, j, x0, 1, NoTw, NoTw, keep, 0, to, y0)
  <2>1. Slid(call, NoTw, NoTw, 0)
    BY DEF Slid
  <2>2. 0 \in Int /\ 1 \in Int
    OBVIOUS
  <2> QED BY <1>1, <1>3, <2>1, <2>2, MovedWrite
<1> QED BY <1>1, <1>4, <1>5, <1>6 DEF MovesTo

\* What a call writes, moved to where its piece lies, is part of the whole pass.
LEMMA PiecesFit ==
  ASSUME NEW d, call \in Calls, d \in call.whole
  PROVE  {Moved(w, call.i0) : w \in Stockham(call)} \subseteq Stockham(d)
<1>1. Sized(call) /\ IsPiece(call, d) /\ Legal(call)
  BY CallSized, PiecesAssumption, CallsAssumption
<1>2. /\ call.ido \in Nat /\ call.l1 \in Nat /\ d.ido \in Nat /\ d.l1 \in Nat /\ d.r = call.r
      /\ call.r \in Nat /\ call.i0 \in Nat
  BY <1>1, Strides DEF Sized, IsPiece
<1>3. CASE call.kernel \in {"Strided", "Strided512"}
  <2>1. call.r \in {4, 8}
    BY <1>1, <1>3 DEF Legal, Radices
  <2>2. Ker(call).loop = "strided" /\ Ker(d).loop = "pass"
    <3>1. Ker(d) = pass(call.r)
      BY <1>1, <1>3, <2>1, PieceKernels DEF IsPiece, Ker, Kernel
    <3>2. pass(call.r).loop = "pass"
      BY DEF pass
    <3>3. CASE call.kernel = "Strided"
      <4>1. Ker(call) = strided(call.r, FALSE)
        BY <3>3 DEF Ker, Kernel
      <4> QED BY <2>1, <3>1, <3>2, <4>1, PieceKernels
    <3>4. CASE call.kernel = "Strided512"
      <4>1. Ker(call) = strided(call.r, TRUE)
        BY <3>4 DEF Ker, Kernel
      <4> QED BY <2>1, <3>1, <3>2, <4>1, PieceKernels
    <3> QED BY <1>3, <3>3, <3>4
  <2>3. Stockham(call) = {StridedDue(call, i, b, j) : i \in 0..(call.ido - 1),
                             b \in 0..(call.l1 - 1), j \in 0..(call.r - 1)}
    BY <2>2 DEF Stockham, Ker, StridedDue
  <2>4. Stockham(d) = {PassDue(d, i, k, j) : i \in 0..(d.ido - 1), k \in 0..(d.l1 - 1),
                          j \in 0..(d.r - 1)}
    BY <2>2 DEF Stockham, Ker, PassDue
  <2>5. ASSUME NEW i \in 0..(call.ido - 1), NEW b \in 0..(call.l1 - 1),
               NEW j \in 0..(call.r - 1)
        PROVE  Moved(StridedDue(call, i, b, j), call.i0) \in Stockham(d)
    <3>1. Moved(StridedDue(call, i, b, j), call.i0) = PassDue(d, i + call.i0, b, j)
      BY <1>1, <1>3, <2>1, <2>2, StridedPiece
    <3>2. i + call.i0 \in 0..(d.ido - 1) /\ b \in 0..(d.l1 - 1) /\ j \in 0..(d.r - 1)
      BY <1>1, <1>2, <1>3 DEF IsPiece
    <3> QED BY <2>4, <3>1, <3>2
  <2> QED BY <2>3, <2>5
<1>4. CASE call.kernel \in {"LastRun", "LastRun512"}
  <2>1. Ker(call).loop = "run" /\ Ker(d).loop = "last" /\ call.l1 = 1 /\ d.l1 = call.ido
    <3>1. Ker(call).loop = "run"
      <4>1. lastRun(FALSE).loop = "run" /\ lastRun(TRUE).loop = "run"
        BY DEF lastRun, last, pass
      <4> QED BY <1>4, <4>1 DEF Ker, Kernel
    <3>2. call.r \in {2, 4, 8}
      BY <1>1, <1>4 DEF Legal, Radices
    <3>3. Ker(d) = last
      <4>1. Ker(d) = Last(call.r)
        BY <1>1, <1>4 DEF IsPiece, Ker, Kernel
      <4>2. Last(2) = last /\ Last(4) = last /\ Last(8) = last
        BY DEF Last
      <4> QED BY <3>2, <4>1, <4>2
    <3>4. last.loop = "last"
      BY DEF last, pass
    <3> QED BY <1>1, <1>4, <3>1, <3>3, <3>4 DEF IsPiece
  <2>2. Stockham(call) = {RunDue(call, i, b, j) : b \in 0..(call.l1 - 1), i \in 0..(call.ido - 1),
                             j \in 0..(call.r - 1)}
    BY <2>1 DEF Stockham, Ker, RunDue
  <2>3. Stockham(d) = {LastDue(d, k, j) : k \in 0..(d.l1 - 1), j \in 0..(d.r - 1)}
    BY <2>1 DEF Stockham, Ker, LastDue
  <2>4. ASSUME NEW b \in 0..(call.l1 - 1), NEW i \in 0..(call.ido - 1),
               NEW j \in 0..(call.r - 1)
        PROVE  Moved(RunDue(call, i, b, j), call.i0) \in Stockham(d)
    <3>1. b = 0
      BY <2>1
    <3>2. Moved(RunDue(call, i, 0, j), call.i0) = LastDue(d, i, j)
      BY <1>1, <1>4, RunPiece
    <3> QED BY <1>2, <2>1, <2>3, <3>1, <3>2
  <2> QED BY <2>2, <2>4
<1> QED BY <1>1, <1>3, <1>4 DEF IsPiece

\* A strided call over some points of a pass writes what the pass writes for
\* them, from a slice of its table; and LastRun with one run is Last
\* (pass.go:748-755, 694-695).
THEOREM PiecesDone == Spec => []PieceOfPass
<1>1. PassInv => PieceOfPass
  <2> SUFFICES ASSUME PassInv, pc = "done", NEW d \in call.whole
               PROVE  {Moved(w, call.i0) : w \in ch} \subseteq Stockham(d)
    BY DEF PieceOfPass
  <2>1. call \in Calls /\ Sized(call)
    BY InSome DEF Typed
  <2>2. ch = Stockham(call)
    BY <2>1, PassOfBlocks DEF PassInv, AtEnd
  <2> QED BY <2>1, <2>2, PiecesFit
<1> QED BY <1>1, PassInvariance, PTL
=============================================================================
