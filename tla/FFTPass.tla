------------------------------- MODULE FFTPass -------------------------------
(***************************************************************************)
(* The pass kernels of fft/amd64 and fft/arm64: the loops that run one     *)
(* Stockham pass over an array, point group by point group, block by       *)
(* block, as the emitted code does.  The state is the code's: the base     *)
(* registers its streams are addressed from, the twiddle cursor and the    *)
(* counters.  A point is one complex number, whatever its width; addresses *)
(* count points from the start of the array they lie in.                   *)
(*                                                                         *)
(* What a butterfly computes is FFTButterfly's subject.  Here it stands    *)
(* for itself: an output point holds which output of which inputs it is,   *)
(* and by which table entries it was multiplied.                           *)
(***************************************************************************)
EXTENDS Integers

CONSTANT Calls   \* the calls a plan makes

VARIABLES
  call,
  pc,       \* where the kernel is
  inb,      \* the bases of the input streams: AX, SI, R8, R9 on amd64
  outb,     \* the bases of the output streams: BX, DI, R11, R15
  block,    \* the block's input and output where they are kept apart (arm64)
  tw,       \* the twiddle cursor, R10
  twBase,   \* the twiddles of the block, R15
  blocks,   \* blocks (or runs) left, R8
  groups,   \* groups (batched: points) left in the block, R9
  part,     \* points of the group (batched: lines of the row) already done
  first,    \* whether the group holds the untwiddled point i = 0
  ch        \* the output written so far

vars == <<call, pc, inb, outb, block, tw, twBase, blocks, groups, part, first, ch>>

-----------------------------------------------------------------------------
(***************************************************************************)
(* The kernels.  All are one loop with different numbers in it:            *)
(*   loop   how blocks follow each other                                   *)
(*   group  the points walked together, which share a twiddle group        *)
(*   width  the points one body computes                                   *)
(*   short  whether a block may hold no whole group                        *)
(*   span   the streams addressed from one base, of bases bases           *)
(*   from, skip  the next block lies skip strides after base from          *)
(*   neon   streams move past a point as they load it                      *)
(*   dup    the table holds each twiddle's parts duplicated                *)
(*   pairs  a contiguous block is read as split pairs of points            *)
(***************************************************************************)

\* Slip: radix 8 forgets the three strides of R12.
skNextBlockShort(r) == IF r = 8 THEN 4 ELSE r - 1
skNextBlock(r) ==
  CASE r = 2 -> 1 [] r = 3 -> 2 [] r = 4 -> 3 [] r = 5 -> 4 [] r = 8 -> 4 + 3

pass(r) ==
  [loop |-> "pass", group |-> 4, width |-> 2, short |-> TRUE, tail |-> TRUE,
   span |-> 4, bases |-> 2, from |-> 0, skip |-> skNextBlock(r),
   neon |-> FALSE, dup |-> FALSE, pairs |-> FALSE]
pass9 == [pass(2) EXCEPT !.bases = 3, !.skip = 8]
pass12 == [pass(2) EXCEPT !.bases = 3, !.skip = 8 + 3]
pass16 == [pass(2) EXCEPT !.bases = 4, !.skip = 8 + 4 + 3, !.dup = TRUE]
passPFA(q) == [pass(2) EXCEPT !.span = 5, !.bases = q, !.from = q - 1, !.skip = 4]
Pass(r) ==
  CASE r = 9 -> pass9 [] r \in {10, 15, 20} -> passPFA(r \div 5)
    [] r = 12 -> pass12 [] r = 16 -> pass16 [] OTHER -> pass(r)

Pass512(r) == [pass(r) EXCEPT !.width = 4, !.short = FALSE]
Pass32(r) == [pass(r) EXCEPT !.width = 4]
\* Split: whole groups only; SI and DI only where they are needed.
Split(r) ==
  [pass(r) EXCEPT !.bases = IF r > 4 THEN 2 ELSE 1, !.width = 4, !.short = FALSE,
                  !.tail = FALSE]
Split512(r) == [Split(r) EXCEPT !.group = 8, !.width = 8]
splitR32(wide) ==
  LET points == IF wide THEN 8 ELSE 4
  IN [Split(4) EXCEPT !.span = 32, !.skip = 32 - 1, !.group = points, !.width = points]
strided(r, wide) ==
  [pass(r) EXCEPT !.loop = "strided", !.width = IF wide THEN 4 ELSE 2,
                  !.short = FALSE, !.tail = FALSE]

\* A final pass walks blocks instead of points, in groups of one register.
last == [pass(2) EXCEPT !.loop = "last", !.group = 2]
last9 == [last EXCEPT !.bases = 3]
last12 == [last EXCEPT !.bases = 3]
last16 == [last EXCEPT !.bases = 4]
lastPFA(q) == [last EXCEPT !.span = 5, !.bases = q]
Last(r) ==
  CASE r = 9 -> last9 [] r \in {10, 15, 20} -> lastPFA(r \div 5)
    [] r = 12 -> last12 [] r = 16 -> last16 [] OTHER -> last
Last512 == [last EXCEPT !.group = 4, !.width = 4]
Last32 == [last EXCEPT !.group = 4, !.width = 4]
LastR32(wide) == [IF wide THEN Last512 ELSE last EXCEPT !.span = 32, !.bases = 1]
lastRun(wide) ==
  LET step == IF wide THEN 4 ELSE 2
  IN [last EXCEPT !.loop = "run", !.group = step, !.width = step, !.tail = FALSE]

\* A batched pass walks rows of lines; a point is a row.
Batch(r) == [pass(r) EXCEPT !.loop = "batch"]
Batch32(r) == [Batch(r) EXCEPT !.width = 4]

\* arm64: a register per stream.
PassNeon(r) ==
  [pass(2) EXCEPT !.group = 2, !.short = FALSE, !.span = 1, !.bases = r, !.skip = r,
                  !.neon = TRUE]
PassSplitNeon(r) == [PassNeon(r) EXCEPT !.tail = FALSE]
Pass32Neon(r) == [PassNeon(r) EXCEPT !.group = 4, !.width = 4, !.short = TRUE]
LastNeon(r) == [PassNeon(r) EXCEPT !.loop = "last"]
LastSplitNeon(r) == [LastNeon(r) EXCEPT !.pairs = TRUE]
Last32Neon(r) == [Pass32Neon(r) EXCEPT !.loop = "last", !.tail = FALSE]
BatchNeon(r) ==
  [PassNeon(r) EXCEPT !.loop = "batch",
     !.skip = CASE r = 2 -> 1 [] r = 3 -> 2 [] r = 4 -> 2 + 1 [] r = 5 -> 4 [] r = 8 -> 8 - 1]

Kernel(name, r) ==
  CASE name = "Pass" -> Pass(r) [] name = "Pass512" -> Pass512(r)
    [] name = "Pass32" -> Pass32(r) [] name = "Split" -> Split(r)
    [] name = "Split512" -> Split512(r)
    [] name = "SplitR32" -> splitR32(FALSE) [] name = "SplitR32Wide" -> splitR32(TRUE)
    [] name = "LastR32" -> LastR32(FALSE) [] name = "LastR32Wide" -> LastR32(TRUE)
    [] name = "Strided" -> strided(r, FALSE) [] name = "Strided512" -> strided(r, TRUE)
    [] name = "Last" -> Last(r) [] name = "Last512" -> Last512 [] name = "Last32" -> Last32
    [] name = "LastRun" -> lastRun(FALSE) [] name = "LastRun512" -> lastRun(TRUE)
    [] name = "Batch" -> Batch(r) [] name = "Batch32" -> Batch32(r)
    [] name = "PassNeon" -> PassNeon(r) [] name = "PassSplitNeon" -> PassSplitNeon(r)
    [] name = "Pass32Neon" -> Pass32Neon(r) [] name = "LastNeon" -> LastNeon(r)
    [] name = "LastSplitNeon" -> LastSplitNeon(r)
    [] name = "Last32Neon" -> Last32Neon(r) [] name = "BatchNeon" -> BatchNeon(r)

-----------------------------------------------------------------------------
(***************************************************************************)
(* A call: kernel, r, ido, l1 and, where the kernel takes them, the        *)
(* strides between its streams (sin, sout), between blocks, runs or rows   *)
(* (bin, bout), the twiddles of a block (dtw), whether the first and the   *)
(* other blocks begin with point 0 (bf, br), and the lines of a row (w).   *)
(* LastRun's runs, run and gap are l1, ido and bout.                       *)
(***************************************************************************)
Radices(name) ==
  CASE name \in {"Pass", "Last"} -> {2, 3, 4, 5, 8, 9, 10, 12, 15, 16, 20}
    [] name \in {"Pass512", "Last512", "LastRun", "LastRun512", "LastSplitNeon"} -> {2, 4, 8}
    [] name \in {"Strided", "Strided512", "Split512"} -> {4, 8}
    [] name = "Split" -> {3, 4, 5, 8}
    [] name \in {"SplitR32", "SplitR32Wide", "LastR32", "LastR32Wide"} -> {32}
    [] name \in {"Pass32", "Last32", "Batch", "Batch32", "PassNeon", "PassSplitNeon",
                  "Pass32Neon", "LastNeon", "Last32Neon", "BatchNeon"} -> {2, 3, 4, 5, 8}
    [] OTHER -> {}

\* What the kernels' comments ask of their callers.
Legal(c) ==
  LET k == Kernel(c.kernel, c.r)
  IN /\ c.r \in Radices(c.kernel)
     /\ {c.ido, c.l1, c.sin, c.sout, c.bin, c.bout, c.dtw, c.w} \subseteq Nat
     /\ {c.bf, c.br} \subseteq BOOLEAN
     /\ c.l1 >= 1
     /\ k.loop = "pass" => /\ c.ido >= 2
                           /\ k.short \/ c.ido >= k.group
                           /\ k.tail \/ c.ido % k.group = 0
     /\ k.loop \in {"strided", "run"} => c.ido >= 1 /\ c.ido % k.group = 0
     /\ k.loop = "last" => k.tail \/ c.l1 % k.group = 0
     /\ k.loop = "batch" => /\ c.ido >= 1 /\ c.w >= 1
                            /\ c.bin >= c.w /\ c.sin = c.ido * c.bin
                            /\ c.bout >= c.w /\ c.sout = c.l1 * c.ido * c.bout

ASSUME CallsAssumption == \A c \in Calls : Legal(c)

\* The call c stands for ido points from i0 on of the plain pass d: a strided
\* piece starts where a group of the table does, and one run is a final pass.
IsPiece(c, d) ==
  /\ d.r = c.r
  /\ {c.i0, d.ido, d.l1} \subseteq Nat
  /\ \/ /\ c.kernel \in {"Strided", "Strided512"} /\ d.kernel = "Pass"
        /\ c.i0 % 4 = 0 /\ c.i0 + c.ido <= d.ido
        /\ c.l1 = d.l1 /\ c.sin = d.ido /\ c.sout = d.l1 * d.ido
        /\ c.bin = d.r * d.ido /\ c.bout = d.ido /\ c.dtw = 0
        /\ (c.bf <=> c.i0 = 0) /\ (c.br <=> c.i0 = 0)
     \/ /\ c.kernel \in {"LastRun", "LastRun512"} /\ d.kernel = "Last"
        /\ c.i0 = 0 /\ c.l1 = 1 /\ d.l1 = c.ido /\ c.sout = c.ido

ASSUME PiecesAssumption == \A c \in Calls : \A d \in c.whole : IsPiece(c, d)

K == Kernel(call.kernel, call.r)
r == call.r

Contiguous == K.loop \in {"last", "run"}   \* input r points a block
S == IF K.loop = "pass" THEN call.ido ELSE call.sin
OS ==
  CASE K.loop = "pass" -> call.l1 * call.ido
    [] K.loop = "last" -> call.l1
    [] OTHER -> call.sout
\* What the groups of a block are made of.
Count == IF K.loop = "last" THEN call.l1 ELSE call.ido

\* Radix 32's streams: input n2 + 4*n1 from base n2, output k1 + 8*k2 from k1.
r32In(j) == (j % 4) + <<0, 4, 8, 3 * 4, 16, 16 + 4, 3 * 8, 16 + 3 * 4>>[(j \div 4) + 1]
r32Slot2(j) == (j % 8) + <<0, 8, 16, 3 * 8>>[(j \div 8) + 1]
StreamIn(j) ==
  IF r = 32 THEN inb[0] + r32In(j) * S
  ELSE inb[j \div K.span] + (j % K.span) * S
StreamOut(j) ==
  IF r = 32 THEN outb[0] + r32Slot2(j) * OS
  ELSE outb[j \div K.span] + (j % K.span) * OS
\* LastSplit's zips: point j of block l is a lane of a pair of the block.
InPair(j, l) == 2 * ((l * (r \div 2)) + (j \div 2)) + (j % 2)
In(j, l) ==
  CASE K.pairs -> inb[0] + InPair(j, l)
    [] Contiguous /\ ~K.pairs -> inb[0] + l * r + j
    [] OTHER -> StreamIn(j) + l

\* The table entries that hold the parts of a twiddle.
NoTw == <<-1, -1>>
\* Slip: the second pair of a group reads the twiddles of the first.
TwSameHalf(g, p, j, l) ==
  LET at == tw + (IF K.dup THEN 2 ELSE 1) * (j - 1) * g + l
  IN <<at, IF K.dup THEN at + g ELSE at>>
Tw(g, p, j, l) ==
  LET at == tw + (IF K.dup THEN 2 ELSE 1) * (j - 1) * g + p + l
  IN <<at, IF K.dup THEN at + g ELSE at>>
TwSize(g) == (r - 1) * g * (IF K.dup THEN 2 ELSE 1)

\* One body: n points, every output stored once; W[j][l] is output j's twiddle.
Outputs(n, W, keep) ==
  {[at |-> StreamOut(j) + l, y |-> j, x |-> [m \in 0..r-1 |-> In(m, l)],
    w |-> IF j = 0 THEN NoTw ELSE W[j][l], keep |-> keep /\ l = 0 /\ j > 0] :
     j \in 0..r-1, l \in 0..n-1}

\* The streams move past n points; a lone point is the last.
Advance(n) ==
  LET step == IF n = 1 /\ (K.neon \/ K.loop = "last") THEN 0 ELSE n
  IN /\ inb' = IF Contiguous THEN [inb EXCEPT ![0] = @ + step * r]
               ELSE [b \in DOMAIN inb |-> inb[b] + step]
     /\ outb' = [b \in DOMAIN outb |-> outb[b] + step]

Body(n, g, p) ==
  LET W == [j \in 1..r-1 |-> [l \in 0..n-1 |-> IF Contiguous THEN NoTw ELSE Tw(g, p, j, l)]]
  IN /\ ch' = ch \cup Outputs(n, W, first)
     /\ Advance(n)
     /\ first' = FALSE

-----------------------------------------------------------------------------
Init ==
  /\ call \in Calls
  /\ pc = "kloop"
  /\ inb = [b \in 0..K.bases-1 |-> 0]
  /\ outb = [b \in 0..K.bases-1 |-> 0]
  /\ block = <<0, 0>>
  /\ tw = 0
  /\ twBase = 0
  /\ blocks = IF K.loop = "last" THEN 1 ELSE call.l1
  /\ groups = 0
  /\ part = 0
  /\ first = call.bf
  /\ ch = {}

\* kloop: the bases of the block's streams, its twiddles, its groups.
BlockStart ==
  LET start == IF K.neon /\ K.loop = "pass" THEN block ELSE <<inb[0], outb[0]>>
      whole == IF K.loop = "batch" THEN call.ido ELSE Count \div K.group
  IN /\ pc = "kloop"
     /\ blocks > 0
     /\ inb' = IF Contiguous THEN inb
               ELSE [b \in DOMAIN inb |-> start[1] + b * K.span * S]
     /\ outb' = [b \in DOMAIN outb |-> start[2] + b * K.span * OS]
     /\ tw' = twBase
     /\ groups' = whole
     /\ first' = CASE K.loop \in {"pass", "batch"} -> TRUE
                   [] K.loop = "strided" -> first
                   [] OTHER -> FALSE
     /\ pc' = CASE K.loop = "batch" -> "row"
                [] K.short /\ K.loop = "pass" /\ whole = 0 -> "firstpair"
                [] OTHER -> "group"
     /\ UNCHANGED <<call, block, twBase, blocks, part, ch>>

Done ==
  /\ pc = "kloop"
  /\ blocks = 0
  /\ pc' = "done"
  /\ UNCHANGED <<call, inb, outb, block, tw, twBase, blocks, groups, part, first, ch>>

\* One body of a group; the group's last moves the twiddle cursor.
GroupBody ==
  /\ pc = "group"
  /\ groups > 0
  /\ Body(K.width, K.group, part)
  /\ IF part + K.width = K.group
     THEN part' = 0 /\ tw' = tw + TwSize(K.group) /\ groups' = groups - 1
     ELSE part' = part + K.width /\ UNCHANGED <<tw, groups>>
  /\ UNCHANGED <<call, pc, block, twBase, blocks>>

AfterTail == IF K.loop = "last" THEN "done" ELSE "knext"

GroupsDone ==
  /\ pc = "group"
  /\ groups = 0
  /\ pc' = CASE ~K.tail -> AfterTail [] K.tail /\ K.group = 4 -> "pair"
             [] OTHER -> "single"
  /\ UNCHANGED <<call, inb, outb, block, tw, twBase, blocks, groups, part, first, ch>>

\* Slip: two points taken for one.
HasPairOdd == Count % 2 = 1
HasPair == (Count \div 2) % 2 = 1

\* The two points (or blocks) that fill no group: a group of their own.
Pair ==
  /\ pc \in {"pair", "firstpair"}
  /\ pc = "firstpair" \/ HasPair
  /\ Body(2, 2, 0)
  /\ tw' = tw + TwSize(2)
  /\ pc' = "single"
  /\ UNCHANGED <<call, block, twBase, blocks, groups, part>>

NoPair ==
  /\ pc = "pair"
  /\ ~HasPair
  /\ pc' = "single"
  /\ UNCHANGED <<call, inb, outb, block, tw, twBase, blocks, groups, part, first, ch>>

\* The odd point.  arm64's float64 table pads its twiddles to a pair.
Single ==
  /\ pc = "single"
  /\ Count % 2 = 1
  /\ Body(1, IF K.group = 2 THEN 2 ELSE 1, 0)
  /\ tw' = IF K.neon THEN tw + TwSize(K.group) ELSE tw
  /\ pc' = AfterTail
  /\ UNCHANGED <<call, block, twBase, blocks, groups, part>>

NoSingle ==
  /\ pc = "single"
  /\ Count % 2 = 0
  /\ pc' = AfterTail
  /\ UNCHANGED <<call, inb, outb, block, tw, twBase, blocks, groups, part, first, ch>>

\* How many of the lines left of a row the next body takes.
\* Slip: the odd line taken for a pair.
LinesByPairs(left) == IF left >= K.width THEN K.width ELSE 2
Lines(left) == IF left >= K.width THEN K.width ELSE IF left >= 2 THEN 2 ELSE 1

\* A batched row: the lines of one point, which share its twiddles; point 0
\* has none.
RowBody ==
  LET left == call.w - part
      n == Lines(left)
      W == [j \in 1..r-1 |->
             [l \in 0..n-1 |-> IF first THEN NoTw ELSE <<tw + (j - 1), tw + (j - 1)>>]]
  IN /\ pc = "row"
     /\ left > 0
     /\ ch' = ch \cup Outputs(n, W, FALSE)
     /\ Advance(n)
     /\ part' = part + n
     /\ UNCHANGED <<call, pc, block, tw, twBase, blocks, groups, first>>

\* adjin and adjout: the rest of the stride to the next row.  On arm64 a lone
\* line has not moved the streams.
\* Slip: a lone line counted as moved past.
AdjAsPairs(stride) == stride - (IF K.neon THEN call.w + (call.w % 2) ELSE call.w)
Adj(stride) == stride - (IF K.neon THEN call.w - (call.w % 2) ELSE call.w)

RowEnd ==
  /\ pc = "row"
  /\ part = call.w
  /\ inb' = [b \in DOMAIN inb |-> inb[b] + Adj(call.bin)]
  /\ outb' = [b \in DOMAIN outb |-> outb[b] + Adj(call.bout)]
  /\ part' = 0
  /\ groups' = groups - 1
  /\ first' = FALSE
  /\ tw' = IF first THEN tw ELSE tw + (r - 1)
  /\ pc' = IF groups = 1 THEN "knext" ELSE "row"
  /\ UNCHANGED <<call, block, twBase, blocks, ch>>

NextIn ==
  CASE K.loop = "strided" -> inb[0] + (call.bin - call.ido)
    [] K.loop = "run" -> inb[0]
    [] OTHER -> inb[K.from] + K.skip * S
\* Slip: the whole stride added to a base that has moved already.
NextOutWhole ==
  CASE K.loop \in {"strided", "run"} -> outb[0] + call.bout
    [] OTHER -> outb[0]
NextOut ==
  CASE K.loop = "strided" -> outb[0] + (call.bout - call.ido)
    [] K.loop = "run" -> outb[0] + (call.bout - call.ido)
    [] OTHER -> outb[0]

BlockNext ==
  /\ pc = "knext"
  /\ IF K.neon /\ K.loop = "pass"
     THEN block' = <<block[1] + K.skip * S, block[2] + S>> /\ UNCHANGED <<inb, outb>>
     ELSE /\ inb' = [inb EXCEPT ![0] = NextIn]
          /\ outb' = [outb EXCEPT ![0] = NextOut]
          /\ UNCHANGED block
  /\ twBase' = IF K.loop = "strided" THEN twBase + call.dtw ELSE twBase
  /\ first' = IF K.loop = "strided" THEN call.br ELSE first
  /\ blocks' = blocks - 1
  /\ pc' = "kloop"
  /\ UNCHANGED <<call, tw, groups, part, ch>>

Next ==
  \/ BlockStart \/ Done \/ GroupBody \/ GroupsDone \/ Pair \/ NoPair
  \/ Single \/ NoSingle \/ RowBody \/ RowEnd \/ BlockNext

Spec == Init /\ [][Next]_vars /\ WF_vars(Next)

-----------------------------------------------------------------------------
(***************************************************************************)
(* What a pass is: which point every output is, of which inputs and by     *)
(* which twiddle, from the formulas of the comments (pass.go:13-17,        *)
(* 687-695, 742-752, 830-843) and the order of the tables (pass.go:124).   *)
(***************************************************************************)

\* The group of point i among n, in a table of groups of g: where it starts
\* and its size.  Points in no whole group are a pair and a single; arm64's
\* float64 table has pairs only, the last one padded.
TwGroup(n, g, i) ==
  LET whole == 4 * (n \div 4)
  IN CASE g \in {2, 8} -> <<g * (i \div g), g>>
       [] g = 4 /\ i < whole -> <<4 * (i \div 4), 4>>
       [] g = 4 /\ i >= whole /\ i < 2 * (n \div 2) -> <<whole, 2>>
       [] OTHER -> <<n - 1, 1>>

\* The entries of twiddle j of point i in the table from base on.
TwEntry(c, base, i, j) ==
  LET k == Kernel(c.kernel, c.r)
      at == TwGroup(c.ido, k.group, i)
      runs == IF k.dup THEN 2 ELSE 1
      entry == base + runs * ((c.r - 1) * at[1] + (j - 1) * at[2]) + i - at[1]
  IN <<entry, IF k.dup THEN entry + at[2] ELSE entry>>

Write(c, at, j, x0, dx, w, keep) ==
  [at |-> at, y |-> j, x |-> [n \in 0..c.r-1 |-> x0 + n * dx],
   w |-> IF j = 0 THEN NoTw ELSE w, keep |-> keep /\ j > 0]

Stockham(c) ==
  LET J == 0..c.r-1
      L1 == 0..c.l1-1
      Ido == 0..c.ido-1
      loop == Kernel(c.kernel, c.r).loop
  IN CASE loop = "pass" ->
            {Write(c, i + c.ido * (k + c.l1 * j), j, i + c.ido * c.r * k, c.ido,
                   TwEntry(c, 0, i, j), i = 0) : i \in Ido, k \in L1, j \in J}
       [] loop = "strided" ->
            {Write(c, b * c.bout + i + j * c.sout, j, b * c.bin + i, c.sin,
                   TwEntry(c, b * c.dtw, i, j), i = 0 /\ IF b = 0 THEN c.bf ELSE c.br) :
               i \in Ido, b \in L1, j \in J}
       [] loop = "last" ->
            {Write(c, k + c.l1 * j, j, c.r * k, 1, NoTw, FALSE) : k \in L1, j \in J}
       [] loop = "run" ->
            {Write(c, b * c.bout + i + c.sout * j, j, c.r * (b * c.ido + i), 1, NoTw, FALSE) :
               b \in L1, i \in Ido, j \in J}
       [] loop = "batch" ->
            {Write(c, (i + c.ido * (k + c.l1 * j)) * c.bout + l, j,
                   (i + c.ido * c.r * k) * c.bin + l, c.ido * c.bin,
                   IF i = 0 THEN NoTw
                   ELSE LET e == (i - 1) * (c.r - 1) + j - 1 IN <<e, e>>, FALSE) :
               i \in Ido, k \in L1, j \in J, l \in 0..c.w-1}

-----------------------------------------------------------------------------
\* Every variable has its type; the counters never pass zero.
TypeOK ==
  /\ call \in Calls
  /\ pc \in {"kloop", "group", "firstpair", "pair", "single", "row", "knext", "done"}
  /\ inb \in [0..K.bases-1 -> Nat] /\ outb \in [0..K.bases-1 -> Nat]
  /\ block \in Nat \X Nat
  /\ tw \in Nat /\ twBase \in Nat
  /\ blocks \in 0..call.l1
  /\ groups \in 0..Count
  /\ part \in 0..Count + call.w
  /\ first \in BOOLEAN

\* Whatever the kernel has stored so far is right: each output point is the
\* butterfly's output for the inputs a Stockham pass takes it from, multiplied
\* by that output's entry of the table, point 0 alone kept unmultiplied
\* (pass.go:13-27).
EveryWriteIsDue == ch \subseteq Stockham(call)

\* When the kernel returns it has stored every output of the pass, whatever
\* the number of points leaves over from the groups (pass.go:16-18).
PassIsComplete == pc = "done" => Stockham(call) \subseteq ch

\* A strided call over some points of a pass writes what the pass writes for
\* them, from a slice of its table; and LastRun with one run is Last
\* (pass.go:748-755, 694-695).
Moved(w, i0) ==
  [at |-> w.at + i0, y |-> w.y, x |-> [n \in DOMAIN w.x |-> w.x[n] + i0], keep |-> w.keep,
   w |-> IF w.w = NoTw THEN NoTw ELSE <<w.w[1] + (r - 1) * i0, w.w[2] + (r - 1) * i0>>]
PieceOfPass ==
  pc = "done" => \A c \in call.whole : {Moved(w, call.i0) : w \in ch} \subseteq Stockham(c)

\* Every kernel returns.
Terminates == <>(pc = "done")
=============================================================================
