--------------------------- MODULE FFTFrames_proofs ---------------------------
(***************************************************************************)
(* TwoPass and ThreePass leave in ch the composition of their passes, for  *)
(* every number of points, every position of the frame and of the stacks,  *)
(* every choice of arrays and every move of the stack below a kernel but   *)
(* one: a first pass of ThreePass that grows the stack while x is kept in  *)
(* the frame.  They keep the caller's frame and, out of place, its input,  *)
(* and no pass runs in place, that case or not.                            *)
(*                                                                         *)
(* The invariant says, of every line, what the registers, the argument     *)
(* slots and the buffers hold.  Each action has a lemma of its own, which  *)
(* rests on the places of things (Geometry), and on one lemma for the      *)
(* steps of a kind: those that write no word (QuietRest), those that write *)
(* a slot (SlotWrite), a kernel's points (PointsFar), a move of the stack  *)
(* (Moved).                                                                *)
(***************************************************************************)
EXTENDS FFTFrames, SequenceTheorems, TLAPS

-----------------------------------------------------------------------------
(*****************************************************************************)
(* The inductive invariant.                                                  *)
(*****************************************************************************)

\* What the caller passed.
Args ==
  /\ which \in {"two", "three"}
  /\ n \in 1..max
  /\ DOMAIN args = {Names(which)[j] : j \in DOMAIN Names(which)}
  /\ args["cc"] = AddrOf(CC)
  /\ args["ch"] \in {AddrOf(CC), AddrOf(CH)}
  /\ which = "three" => \/ args["x"] = AddrOf(0)
                        \/ args["x"] = AddrOf(CH) /\ args["ch"] = AddrOf(CH)
  /\ \A name \in DOMAIN args \ {"cc", "ch", "x"} : args[name] = V(name, 0, <<>>)

\* The frame is on the one stack or the other.
OnStack(base) == \E o \in StackOffsets : sp = base + o
Placed == OnStack(Stack) \/ OnStack(NewStack)

\* The first buffer, and what x should name.
B == Buf(sp, which)
X == IF args["x"] = AddrOf(0) THEN B + 16 * max ELSE args["x"].num

\* No move of the stack can leave x behind.
Steady == which = "three" /\ args["x"] = AddrOf(0) => "p0" \notin Growing

\* The x saved in the frame is the array meant, unless the stack has moved and
\* left it behind: no pointer map declares that word.
XKept(v) ==
  \/ v = AddrOf(X)
  \/ ~Steady /\ OnStack(NewStack) /\ v = AddrOf(X - (NewStack - Stack))

\* The passes, named by the lines that call them: the kernel each runs, where
\* it reads and writes, and its other parameters.
Calls == IF which = "two" THEN {13, 23} ELSE {17, 31, 41}
Entry(c) == CASE c = 13 -> "pass" [] c = 23 -> "last" [] c = 17 -> "p0" [] c = 31 -> "p1" [] OTHER -> "p2"
Src(c) == CASE c \in {13, 17} -> CC [] c = 31 -> X [] OTHER -> B
Dst(c) == CASE c \in {13, 31} -> B [] c = 17 -> X [] OTHER -> args["ch"].num
Of(c) ==
  CASE c = 13 -> Parameters(<<"tw", "k0", "ido", "1">>)
    [] c = 23 -> Parameters(<<"k1", "l1">>)
    [] c = 17 -> Parameters(<<"tw0", "k0", "ido0", "1">>)
    [] c = 31 -> Parameters(<<"tw1", "k1", "ido1", "l1b">>)
    [] OTHER -> Parameters(<<"k2", "l1c">>)

\* What each pass is to read and to leave.
Input == [j \in 1..n |-> V("input", j, <<>>)]
AfterOne == IF which = "two" THEN Transform("pass", Of(13), Input) ELSE Transform("p0", Of(17), Input)
AfterTwo == Transform("p1", Of(31), AfterOne)
In(c) == CASE c \in {13, 17} -> Input [] c \in {23, 31} -> AfterOne [] OTHER -> AfterTwo
Out(c) == Transform(Entry(c), Of(c), In(c))

\* The passes whose result is right even so: those before x is read back.
Right(c) == c \in {31, 41} => Steady

\* The pass has not ended; and the pass that reads what it leaves.
Before(c) == ip <= c \/ (ip = c + 1 /\ kernel.phase # "none")
User(c) == CASE c = 13 -> 23 [] c = 17 -> 31 [] c = 31 -> 41 [] OTHER -> 100

\* The kernel running is the one its call names, with that call's arguments.
Kernel ==
  /\ DOMAIN kernel = DOMAIN NoKernel
  /\ kernel.phase = "none" => kernel = NoKernel
  /\ kernel.phase # "none" => ip - 1 \in Calls /\ kernel.entry = Entry(ip - 1)
  /\ kernel.phase = "entered" =>
       kernel = [NoKernel EXCEPT !.phase = "entered", !.entry = Entry(ip - 1)]
  /\ kernel.phase = "running" =>
       /\ kernel.left \subseteq 1..n
       /\ kernel.of = Of(ip - 1)
       /\ kernel.dst = Dst(ip - 1)
       /\ IF ip = 32 THEN XKept(AddrOf(kernel.src)) ELSE kernel.src = Src(ip - 1)

Phase == kernel.phase \in {"none", "entered", "running"}

\* What the line before has left in a register for this one.
Loaded ==
  ip > 1 /\ kernel.phase = "none" =>
     /\ Code[ip - 1].op = "arg" => regs[Code[ip - 1].reg] = args[Code[ip - 1].name]
     /\ Code[ip - 1].op = "buf" => regs["AX"] = AddrOf(B)
     /\ which = "three" =>
          /\ ip \in {3, 4} => args["x"] = AddrOf(0)
          /\ ip \in 5..8 => regs["AX"] = AddrOf(X)
          /\ ip = 19 => XKept(regs["AX"])

\* From the line that stores it until the kernel starts, an argument slot of a
\* call holds what that call is to be given.
Held(off, v, from, call) ==
  (from < ip /\ ip <= call) \/ (ip = call + 1 /\ kernel.phase = "entered") => mem[sp + off] = v

Slots ==
  /\ which = "two" =>
       /\ Held(0, AddrOf(CC), 2, 13)
       /\ Held(8, AddrOf(B), 4, 13)
       /\ Held(16, args["tw"], 6, 13)
       /\ Held(24, args["k0"], 8, 13)
       /\ Held(32, args["ido"], 10, 13)
       /\ Held(40, IntOf(1), 11, 13)
       /\ Held(0, AddrOf(B), 15, 23)
       /\ Held(8, args["ch"], 17, 23)
       /\ Held(16, args["k1"], 19, 23)
       /\ Held(24, args["l1"], 21, 23)
  /\ which = "three" =>
       /\ ip \in 6..18 => XKept(mem[sp + 48])
       /\ Held(0, AddrOf(CC), 7, 17)
       /\ Held(8, AddrOf(X), 8, 17)
       /\ Held(16, args["tw0"], 10, 17)
       /\ Held(24, args["k0"], 12, 17)
       /\ Held(32, args["ido0"], 14, 17)
       /\ Held(40, IntOf(1), 15, 17)
       /\ ip \in 20..31 \/ (ip = 32 /\ kernel.phase = "entered") => XKept(mem[sp])
       /\ Held(8, AddrOf(B), 21, 31)
       /\ Held(16, args["tw1"], 23, 31)
       /\ Held(24, args["k1"], 25, 31)
       /\ Held(32, args["ido1"], 27, 31)
       /\ Held(40, args["l1b"], 29, 31)
       /\ Held(0, AddrOf(B), 33, 41)
       /\ Held(8, args["ch"], 35, 41)
       /\ Held(16, args["k2"], 37, 41)
       /\ Held(24, args["l1c"], 39, 41)

\* The words at a hold the points s.
Points(a, s) == \A j \in 1..n : PointAt(mem, a + 16 * (j - 1)) = s[j]

\* The input is there as long as it is needed, or is not to be overwritten;
\* the result of a pass, until its reader has ended; of the pass that runs,
\* the points that are done.
InputThere ==
  args["ch"] # args["cc"] \/ Before(IF which = "two" THEN 13 ELSE 17) => Points(CC, Input)

ResultsThere ==
  \A c \in Calls : Right(c) /\ ~Before(c) /\ Before(User(c)) => Points(Dst(c), Out(c))

PointsThere ==
  kernel.phase = "running" /\ Right(ip - 1) =>
    \A j \in (1..n) \ kernel.left :
       PointAt(mem, kernel.dst + 16 * (j - 1)) = Out(ip - 1)[j]

Data == InputThere /\ ResultsThere /\ PointsThere

\* All but the registers.
Rest ==
  /\ Args /\ Placed
  /\ ip \in 1..(Len(Code) + 1)
  /\ DOMAIN mem = Memory
  /\ CallerFrameIntact
  /\ Kernel /\ Slots /\ Data

IInv == Rest /\ Loaded /\ DOMAIN regs = Registers /\ Phase

-----------------------------------------------------------------------------
(*****************************************************************************)
(* The emitted lines, one by one.                                            *)
(*****************************************************************************)

\* Every line is one of these.
LineSet ==
  [op : {"arg", "store", "imm", "buf", "add", "load", "jnz", "call"},
   name : {"none", "cc", "ch", "x", "tw", "tw0", "tw1", "k0", "k1", "k2", "ido", "ido0", "ido1",
           "l1", "l1b", "l1c", "pass", "last", "p0", "p1", "p2"},
   reg : {"none", "AX", "BX"},
   num : Int]

\* t is s, of m lines, and then one line more, or two.
Grown1(t, s, m, a) ==
  /\ t \in Seq(LineSet) /\ Len(t) = m + 1
  /\ t[m + 1] = a
  /\ \A i \in 1..m : t[i] = s[i]
Grown2(t, s, m, a, b) ==
  /\ t \in Seq(LineSet) /\ Len(t) = m + 2
  /\ t[m + 1] = a /\ t[m + 2] = b
  /\ \A i \in 1..m : t[i] = s[i]

\* A sequence of lines and one more.
LEMMA OneMore ==
  \A s \in Seq(LineSet), a \in LineSet : Grown1(s \o <<a>>, s, Len(s), a)
<1> SUFFICES ASSUME NEW s \in Seq(LineSet), NEW a \in LineSet
             PROVE  Grown1(s \o <<a>>, s, Len(s), a)
  OBVIOUS
<1>1. <<a>> \in Seq(LineSet) /\ Len(<<a>>) = 1 /\ <<a>>[1] = a
  OBVIOUS
<1>2. Len(s) \in Nat
  BY LenProperties
<1> QED  BY <1>1, <1>2, ConcatProperties DEF Grown1

\* A sequence of lines and two more.
LEMMA TwoMore ==
  \A s \in Seq(LineSet), a, b \in LineSet : Grown2(s \o <<a, b>>, s, Len(s), a, b)
<1> SUFFICES ASSUME NEW s \in Seq(LineSet), NEW a \in LineSet, NEW b \in LineSet
             PROVE  Grown2(s \o <<a, b>>, s, Len(s), a, b)
  OBVIOUS
<1>1. <<a, b>> \in Seq(LineSet) /\ Len(<<a, b>>) = 2 /\ <<a, b>>[1] = a /\ <<a, b>>[2] = b
  OBVIOUS
<1>2. Len(s) \in Nat
  BY LenProperties
<1> QED  BY <1>1, <1>2, ConcatProperties DEF Grown2

\* The lines of TwoPass.
LEMMA TwoPassLines ==
  /\ Len(TwoPass) = 23
  /\ TwoPass[1] = L("arg", "cc", "AX", 0) /\ TwoPass[2] = L("store", "none", "AX", 0)
  /\ TwoPass[3] = L("buf", "none", "AX", 0) /\ TwoPass[4] = L("store", "none", "AX", 8)
  /\ TwoPass[5] = L("arg", "tw", "AX", 0) /\ TwoPass[6] = L("store", "none", "AX", 16)
  /\ TwoPass[7] = L("arg", "k0", "AX", 0) /\ TwoPass[8] = L("store", "none", "AX", 24)
  /\ TwoPass[9] = L("arg", "ido", "AX", 0) /\ TwoPass[10] = L("store", "none", "AX", 32)
  /\ TwoPass[11] = L("imm", "none", "none", 40) /\ TwoPass[12] = L("arg", "pass", "AX", 0)
  /\ TwoPass[13] = L("call", "none", "AX", 0) /\ TwoPass[14] = L("buf", "none", "AX", 0)
  /\ TwoPass[15] = L("store", "none", "AX", 0) /\ TwoPass[16] = L("arg", "ch", "AX", 0)
  /\ TwoPass[17] = L("store", "none", "AX", 8) /\ TwoPass[18] = L("arg", "k1", "AX", 0)
  /\ TwoPass[19] = L("store", "none", "AX", 16) /\ TwoPass[20] = L("arg", "l1", "AX", 0)
  /\ TwoPass[21] = L("store", "none", "AX", 24) /\ TwoPass[22] = L("arg", "last", "AX", 0)
  /\ TwoPass[23] = L("call", "none", "AX", 0)
<1> DEFINE P1 == Pass("cc", "AX", 0)
           P2 == P1 \o PassBuf(8)
           P3 == P2 \o Pass("tw", "AX", 16)
           P4 == P3 \o Pass("k0", "AX", 24)
           P5 == P4 \o Pass("ido", "AX", 32)
           P6 == P5 \o <<L("imm", "none", "none", 40)>>
           P7 == P6 \o Call("pass")
           P8 == P7 \o PassBuf(0)
           P9 == P8 \o FinalOutput
           P10 == P9 \o Pass("k1", "AX", 16)
           P11 == P10 \o Pass("l1", "AX", 24)
           P12 == P11 \o Call("last")
<1>1. P1 \in Seq(LineSet) /\ Len(P1) = 2
      /\ P1[1] = L("arg", "cc", "AX", 0)
      /\ P1[2] = L("store", "none", "AX", 0)
  BY FramesAssumption DEF Pass, L, LineSet
<1>2. Grown2(P2, P1, 2, L("buf", "none", "AX", 0), L("store", "none", "AX", 8))
  <2> HIDE DEF P1
  <2>1. L("buf", "none", "AX", 0) \in LineSet /\ L("store", "none", "AX", 8) \in LineSet
    BY DEF L, LineSet
  <2> QED  BY <1>1, <2>1, TwoMore DEF PassBuf
<1>3. Grown2(P3, P2, 4, L("arg", "tw", "AX", 0), L("store", "none", "AX", 16))
  <2> HIDE DEF P1, P2
  <2>1. L("arg", "tw", "AX", 0) \in LineSet /\ L("store", "none", "AX", 16) \in LineSet
    BY DEF L, LineSet
  <2>2. P2 \in Seq(LineSet) /\ Len(P2) = 4
    BY <1>2 DEF Grown2
  <2> QED  BY <2>2, <2>1, TwoMore DEF Pass
<1>4. Grown2(P4, P3, 6, L("arg", "k0", "AX", 0), L("store", "none", "AX", 24))
  <2> HIDE DEF P1, P2, P3
  <2>1. L("arg", "k0", "AX", 0) \in LineSet /\ L("store", "none", "AX", 24) \in LineSet
    BY DEF L, LineSet
  <2>2. P3 \in Seq(LineSet) /\ Len(P3) = 6
    BY <1>3 DEF Grown2
  <2> QED  BY <2>2, <2>1, TwoMore DEF Pass
<1>5. Grown2(P5, P4, 8, L("arg", "ido", "AX", 0), L("store", "none", "AX", 32))
  <2> HIDE DEF P1, P2, P3, P4
  <2>1. L("arg", "ido", "AX", 0) \in LineSet /\ L("store", "none", "AX", 32) \in LineSet
    BY DEF L, LineSet
  <2>2. P4 \in Seq(LineSet) /\ Len(P4) = 8
    BY <1>4 DEF Grown2
  <2> QED  BY <2>2, <2>1, TwoMore DEF Pass
<1>6. Grown1(P6, P5, 10, L("imm", "none", "none", 40))
  <2> HIDE DEF P1, P2, P3, P4, P5
  <2>1. L("imm", "none", "none", 40) \in LineSet
    BY DEF L, LineSet
  <2>2. P5 \in Seq(LineSet) /\ Len(P5) = 10
    BY <1>5 DEF Grown2
  <2> QED  BY <2>2, <2>1, OneMore
<1>7. Grown2(P7, P6, 11, L("arg", "pass", "AX", 0), L("call", "none", "AX", 0))
  <2> HIDE DEF P1, P2, P3, P4, P5, P6
  <2>1. L("arg", "pass", "AX", 0) \in LineSet /\ L("call", "none", "AX", 0) \in LineSet
    BY DEF L, LineSet
  <2>2. P6 \in Seq(LineSet) /\ Len(P6) = 11
    BY <1>6 DEF Grown1
  <2> QED  BY <2>2, <2>1, TwoMore DEF Call
<1>8. Grown2(P8, P7, 13, L("buf", "none", "AX", 0), L("store", "none", "AX", 0))
  <2> HIDE DEF P1, P2, P3, P4, P5, P6, P7
  <2>1. L("buf", "none", "AX", 0) \in LineSet /\ L("store", "none", "AX", 0) \in LineSet
    BY DEF L, LineSet
  <2>2. P7 \in Seq(LineSet) /\ Len(P7) = 13
    BY <1>7 DEF Grown2
  <2> QED  BY <2>2, <2>1, TwoMore DEF PassBuf
<1>9. Grown2(P9, P8, 15, L("arg", "ch", "AX", 0), L("store", "none", "AX", 8))
  <2> HIDE DEF P1, P2, P3, P4, P5, P6, P7, P8
  <2>1. L("arg", "ch", "AX", 0) \in LineSet /\ L("store", "none", "AX", 8) \in LineSet
    BY DEF L, LineSet
  <2>2. P8 \in Seq(LineSet) /\ Len(P8) = 15
    BY <1>8 DEF Grown2
  <2> QED  BY <2>2, <2>1, TwoMore DEF FinalOutput, Pass
<1>10. Grown2(P10, P9, 17, L("arg", "k1", "AX", 0), L("store", "none", "AX", 16))
  <2> HIDE DEF P1, P2, P3, P4, P5, P6, P7, P8, P9
  <2>1. L("arg", "k1", "AX", 0) \in LineSet /\ L("store", "none", "AX", 16) \in LineSet
    BY DEF L, LineSet
  <2>2. P9 \in Seq(LineSet) /\ Len(P9) = 17
    BY <1>9 DEF Grown2
  <2> QED  BY <2>2, <2>1, TwoMore DEF Pass
<1>11. Grown2(P11, P10, 19, L("arg", "l1", "AX", 0), L("store", "none", "AX", 24))
  <2> HIDE DEF P1, P2, P3, P4, P5, P6, P7, P8, P9, P10
  <2>1. L("arg", "l1", "AX", 0) \in LineSet /\ L("store", "none", "AX", 24) \in LineSet
    BY DEF L, LineSet
  <2>2. P10 \in Seq(LineSet) /\ Len(P10) = 19
    BY <1>10 DEF Grown2
  <2> QED  BY <2>2, <2>1, TwoMore DEF Pass
<1>12. Grown2(P12, P11, 21, L("arg", "last", "AX", 0), L("call", "none", "AX", 0))
  <2> HIDE DEF P1, P2, P3, P4, P5, P6, P7, P8, P9, P10, P11
  <2>1. L("arg", "last", "AX", 0) \in LineSet /\ L("call", "none", "AX", 0) \in LineSet
    BY DEF L, LineSet
  <2>2. P11 \in Seq(LineSet) /\ Len(P11) = 21
    BY <1>11 DEF Grown2
  <2> QED  BY <2>2, <2>1, TwoMore DEF Call
<1>13. TwoPass = P12
  BY DEF TwoPass
<1> HIDE DEF P1, P2, P3, P4, P5, P6, P7, P8, P9, P10, P11, P12
<1> QED
  BY <1>1, <1>2, <1>3, <1>4, <1>5, <1>6, <1>7, <1>8, <1>9, <1>10, <1>11, <1>12, <1>13 DEF Grown1, Grown2

\* The lines of ThreePass.
LEMMA ThreePassLines ==
  /\ Len(ThreePass) = 41
  /\ ThreePass[1] = L("arg", "x", "AX", 0) /\ ThreePass[2] = L("jnz", "none", "AX", 2)
  /\ ThreePass[3] = L("buf", "none", "AX", 0) /\ ThreePass[4] = L("add", "none", "AX", 16 * max)
  /\ ThreePass[5] = L("store", "none", "AX", 48) /\ ThreePass[6] = L("arg", "cc", "BX", 0)
  /\ ThreePass[7] = L("store", "none", "BX", 0) /\ ThreePass[8] = L("store", "none", "AX", 8)
  /\ ThreePass[9] = L("arg", "tw0", "BX", 0) /\ ThreePass[10] = L("store", "none", "BX", 16)
  /\ ThreePass[11] = L("arg", "k0", "BX", 0) /\ ThreePass[12] = L("store", "none", "BX", 24)
  /\ ThreePass[13] = L("arg", "ido0", "BX", 0) /\ ThreePass[14] = L("store", "none", "BX", 32)
  /\ ThreePass[15] = L("imm", "none", "none", 40) /\ ThreePass[16] = L("arg", "p0", "AX", 0)
  /\ ThreePass[17] = L("call", "none", "AX", 0) /\ ThreePass[18] = L("load", "none", "AX", 48)
  /\ ThreePass[19] = L("store", "none", "AX", 0) /\ ThreePass[20] = L("buf", "none", "AX", 0)
  /\ ThreePass[21] = L("store", "none", "AX", 8) /\ ThreePass[22] = L("arg", "tw1", "AX", 0)
  /\ ThreePass[23] = L("store", "none", "AX", 16) /\ ThreePass[24] = L("arg", "k1", "AX", 0)
  /\ ThreePass[25] = L("store", "none", "AX", 24) /\ ThreePass[26] = L("arg", "ido1", "AX", 0)
  /\ ThreePass[27] = L("store", "none", "AX", 32) /\ ThreePass[28] = L("arg", "l1b", "AX", 0)
  /\ ThreePass[29] = L("store", "none", "AX", 40) /\ ThreePass[30] = L("arg", "p1", "AX", 0)
  /\ ThreePass[31] = L("call", "none", "AX", 0) /\ ThreePass[32] = L("buf", "none", "AX", 0)
  /\ ThreePass[33] = L("store", "none", "AX", 0) /\ ThreePass[34] = L("arg", "ch", "AX", 0)
  /\ ThreePass[35] = L("store", "none", "AX", 8) /\ ThreePass[36] = L("arg", "k2", "AX", 0)
  /\ ThreePass[37] = L("store", "none", "AX", 16) /\ ThreePass[38] = L("arg", "l1c", "AX", 0)
  /\ ThreePass[39] = L("store", "none", "AX", 24) /\ ThreePass[40] = L("arg", "p2", "AX", 0)
  /\ ThreePass[41] = L("call", "none", "AX", 0)
<1> DEFINE P1 == SelectX
           P2 == P1 \o Pass("cc", "BX", 0)
           P3 == P2 \o <<L("store", "none", "AX", 8)>>
           P4 == P3 \o Pass("tw0", "BX", 16)
           P5 == P4 \o Pass("k0", "BX", 24)
           P6 == P5 \o Pass("ido0", "BX", 32)
           P7 == P6 \o <<L("imm", "none", "none", 40)>>
           P8 == P7 \o Call("p0")
           P9 == P8 \o SecondSource
           P10 == P9 \o PassBuf(8)
           P11 == P10 \o Pass("tw1", "AX", 16)
           P12 == P11 \o Pass("k1", "AX", 24)
           P13 == P12 \o Pass("ido1", "AX", 32)
           P14 == P13 \o SecondL1
           P15 == P14 \o Call("p1")
           P16 == P15 \o PassBuf(0)
           P17 == P16 \o FinalOutput
           P18 == P17 \o Pass("k2", "AX", 16)
           P19 == P18 \o Pass("l1c", "AX", 24)
           P20 == P19 \o Call("p2")
<1>1. P1 \in Seq(LineSet) /\ Len(P1) = 5
      /\ P1[1] = L("arg", "x", "AX", 0)
      /\ P1[2] = L("jnz", "none", "AX", 2)
      /\ P1[3] = L("buf", "none", "AX", 0)
      /\ P1[4] = L("add", "none", "AX", 16 * max)
      /\ P1[5] = L("store", "none", "AX", 48)
  BY FramesAssumption DEF SelectX, L, LineSet
<1>2. Grown2(P2, P1, 5, L("arg", "cc", "BX", 0), L("store", "none", "BX", 0))
  <2> HIDE DEF P1
  <2>1. L("arg", "cc", "BX", 0) \in LineSet /\ L("store", "none", "BX", 0) \in LineSet
    BY DEF L, LineSet
  <2> QED  BY <1>1, <2>1, TwoMore DEF Pass
<1>3. Grown1(P3, P2, 7, L("store", "none", "AX", 8))
  <2> HIDE DEF P1, P2
  <2>1. L("store", "none", "AX", 8) \in LineSet
    BY DEF L, LineSet
  <2>2. P2 \in Seq(LineSet) /\ Len(P2) = 7
    BY <1>2 DEF Grown2
  <2> QED  BY <2>2, <2>1, OneMore
<1>4. Grown2(P4, P3, 8, L("arg", "tw0", "BX", 0), L("store", "none", "BX", 16))
  <2> HIDE DEF P1, P2, P3
  <2>1. L("arg", "tw0", "BX", 0) \in LineSet /\ L("store", "none", "BX", 16) \in LineSet
    BY DEF L, LineSet
  <2>2. P3 \in Seq(LineSet) /\ Len(P3) = 8
    BY <1>3 DEF Grown1
  <2> QED  BY <2>2, <2>1, TwoMore DEF Pass
<1>5. Grown2(P5, P4, 10, L("arg", "k0", "BX", 0), L("store", "none", "BX", 24))
  <2> HIDE DEF P1, P2, P3, P4
  <2>1. L("arg", "k0", "BX", 0) \in LineSet /\ L("store", "none", "BX", 24) \in LineSet
    BY DEF L, LineSet
  <2>2. P4 \in Seq(LineSet) /\ Len(P4) = 10
    BY <1>4 DEF Grown2
  <2> QED  BY <2>2, <2>1, TwoMore DEF Pass
<1>6. Grown2(P6, P5, 12, L("arg", "ido0", "BX", 0), L("store", "none", "BX", 32))
  <2> HIDE DEF P1, P2, P3, P4, P5
  <2>1. L("arg", "ido0", "BX", 0) \in LineSet /\ L("store", "none", "BX", 32) \in LineSet
    BY DEF L, LineSet
  <2>2. P5 \in Seq(LineSet) /\ Len(P5) = 12
    BY <1>5 DEF Grown2
  <2> QED  BY <2>2, <2>1, TwoMore DEF Pass
<1>7. Grown1(P7, P6, 14, L("imm", "none", "none", 40))
  <2> HIDE DEF P1, P2, P3, P4, P5, P6
  <2>1. L("imm", "none", "none", 40) \in LineSet
    BY DEF L, LineSet
  <2>2. P6 \in Seq(LineSet) /\ Len(P6) = 14
    BY <1>6 DEF Grown2
  <2> QED  BY <2>2, <2>1, OneMore
<1>8. Grown2(P8, P7, 15, L("arg", "p0", "AX", 0), L("call", "none", "AX", 0))
  <2> HIDE DEF P1, P2, P3, P4, P5, P6, P7
  <2>1. L("arg", "p0", "AX", 0) \in LineSet /\ L("call", "none", "AX", 0) \in LineSet
    BY DEF L, LineSet
  <2>2. P7 \in Seq(LineSet) /\ Len(P7) = 15
    BY <1>7 DEF Grown1
  <2> QED  BY <2>2, <2>1, TwoMore DEF Call
<1>9. Grown2(P9, P8, 17, L("load", "none", "AX", 48), L("store", "none", "AX", 0))
  <2> HIDE DEF P1, P2, P3, P4, P5, P6, P7, P8
  <2>1. L("load", "none", "AX", 48) \in LineSet /\ L("store", "none", "AX", 0) \in LineSet
    BY DEF L, LineSet
  <2>2. P8 \in Seq(LineSet) /\ Len(P8) = 17
    BY <1>8 DEF Grown2
  <2> QED  BY <2>2, <2>1, TwoMore DEF SecondSource
<1>10. Grown2(P10, P9, 19, L("buf", "none", "AX", 0), L("store", "none", "AX", 8))
  <2> HIDE DEF P1, P2, P3, P4, P5, P6, P7, P8, P9
  <2>1. L("buf", "none", "AX", 0) \in LineSet /\ L("store", "none", "AX", 8) \in LineSet
    BY DEF L, LineSet
  <2>2. P9 \in Seq(LineSet) /\ Len(P9) = 19
    BY <1>9 DEF Grown2
  <2> QED  BY <2>2, <2>1, TwoMore DEF PassBuf
<1>11. Grown2(P11, P10, 21, L("arg", "tw1", "AX", 0), L("store", "none", "AX", 16))
  <2> HIDE DEF P1, P2, P3, P4, P5, P6, P7, P8, P9, P10
  <2>1. L("arg", "tw1", "AX", 0) \in LineSet /\ L("store", "none", "AX", 16) \in LineSet
    BY DEF L, LineSet
  <2>2. P10 \in Seq(LineSet) /\ Len(P10) = 21
    BY <1>10 DEF Grown2
  <2> QED  BY <2>2, <2>1, TwoMore DEF Pass
<1>12. Grown2(P12, P11, 23, L("arg", "k1", "AX", 0), L("store", "none", "AX", 24))
  <2> HIDE DEF P1, P2, P3, P4, P5, P6, P7, P8, P9, P10, P11
  <2>1. L("arg", "k1", "AX", 0) \in LineSet /\ L("store", "none", "AX", 24) \in LineSet
    BY DEF L, LineSet
  <2>2. P11 \in Seq(LineSet) /\ Len(P11) = 23
    BY <1>11 DEF Grown2
  <2> QED  BY <2>2, <2>1, TwoMore DEF Pass
<1>13. Grown2(P13, P12, 25, L("arg", "ido1", "AX", 0), L("store", "none", "AX", 32))
  <2> HIDE DEF P1, P2, P3, P4, P5, P6, P7, P8, P9, P10, P11, P12
  <2>1. L("arg", "ido1", "AX", 0) \in LineSet /\ L("store", "none", "AX", 32) \in LineSet
    BY DEF L, LineSet
  <2>2. P12 \in Seq(LineSet) /\ Len(P12) = 25
    BY <1>12 DEF Grown2
  <2> QED  BY <2>2, <2>1, TwoMore DEF Pass
<1>14. Grown2(P14, P13, 27, L("arg", "l1b", "AX", 0), L("store", "none", "AX", 40))
  <2> HIDE DEF P1, P2, P3, P4, P5, P6, P7, P8, P9, P10, P11, P12, P13
  <2>1. L("arg", "l1b", "AX", 0) \in LineSet /\ L("store", "none", "AX", 40) \in LineSet
    BY DEF L, LineSet
  <2>2. P13 \in Seq(LineSet) /\ Len(P13) = 27
    BY <1>13 DEF Grown2
  <2> QED  BY <2>2, <2>1, TwoMore DEF SecondL1, Pass
<1>15. Grown2(P15, P14, 29, L("arg", "p1", "AX", 0), L("call", "none", "AX", 0))
  <2> HIDE DEF P1, P2, P3, P4, P5, P6, P7, P8, P9, P10, P11, P12, P13, P14
  <2>1. L("arg", "p1", "AX", 0) \in LineSet /\ L("call", "none", "AX", 0) \in LineSet
    BY DEF L, LineSet
  <2>2. P14 \in Seq(LineSet) /\ Len(P14) = 29
    BY <1>14 DEF Grown2
  <2> QED  BY <2>2, <2>1, TwoMore DEF Call
<1>16. Grown2(P16, P15, 31, L("buf", "none", "AX", 0), L("store", "none", "AX", 0))
  <2> HIDE DEF P1, P2, P3, P4, P5, P6, P7, P8, P9, P10, P11, P12, P13, P14, P15
  <2>1. L("buf", "none", "AX", 0) \in LineSet /\ L("store", "none", "AX", 0) \in LineSet
    BY DEF L, LineSet
  <2>2. P15 \in Seq(LineSet) /\ Len(P15) = 31
    BY <1>15 DEF Grown2
  <2> QED  BY <2>2, <2>1, TwoMore DEF PassBuf
<1>17. Grown2(P17, P16, 33, L("arg", "ch", "AX", 0), L("store", "none", "AX", 8))
  <2> HIDE DEF P1, P2, P3, P4, P5, P6, P7, P8, P9, P10, P11, P12, P13, P14, P15, P16
  <2>1. L("arg", "ch", "AX", 0) \in LineSet /\ L("store", "none", "AX", 8) \in LineSet
    BY DEF L, LineSet
  <2>2. P16 \in Seq(LineSet) /\ Len(P16) = 33
    BY <1>16 DEF Grown2
  <2> QED  BY <2>2, <2>1, TwoMore DEF FinalOutput, Pass
<1>18. Grown2(P18, P17, 35, L("arg", "k2", "AX", 0), L("store", "none", "AX", 16))
  <2> HIDE DEF P1, P2, P3, P4, P5, P6, P7, P8, P9, P10, P11, P12, P13, P14, P15, P16, P17
  <2>1. L("arg", "k2", "AX", 0) \in LineSet /\ L("store", "none", "AX", 16) \in LineSet
    BY DEF L, LineSet
  <2>2. P17 \in Seq(LineSet) /\ Len(P17) = 35
    BY <1>17 DEF Grown2
  <2> QED  BY <2>2, <2>1, TwoMore DEF Pass
<1>19. Grown2(P19, P18, 37, L("arg", "l1c", "AX", 0), L("store", "none", "AX", 24))
  <2> HIDE DEF P1, P2, P3, P4, P5, P6, P7, P8, P9, P10, P11, P12, P13, P14, P15, P16, P17, P18
  <2>1. L("arg", "l1c", "AX", 0) \in LineSet /\ L("store", "none", "AX", 24) \in LineSet
    BY DEF L, LineSet
  <2>2. P18 \in Seq(LineSet) /\ Len(P18) = 37
    BY <1>18 DEF Grown2
  <2> QED  BY <2>2, <2>1, TwoMore DEF Pass
<1>20. Grown2(P20, P19, 39, L("arg", "p2", "AX", 0), L("call", "none", "AX", 0))
  <2> HIDE DEF P1, P2, P3, P4, P5, P6, P7, P8, P9, P10, P11, P12, P13, P14, P15, P16, P17, P18, P19
  <2>1. L("arg", "p2", "AX", 0) \in LineSet /\ L("call", "none", "AX", 0) \in LineSet
    BY DEF L, LineSet
  <2>2. P19 \in Seq(LineSet) /\ Len(P19) = 39
    BY <1>19 DEF Grown2
  <2> QED  BY <2>2, <2>1, TwoMore DEF Call
<1>21. ThreePass = P20
  BY DEF ThreePass
<1> HIDE DEF P1, P2, P3, P4, P5, P6, P7, P8, P9, P10, P11, P12, P13, P14, P15, P16, P17, P18, P19, P20
<1> QED
  BY <1>1, <1>2, <1>3, <1>4, <1>5, <1>6, <1>7, <1>8, <1>9, <1>10, <1>11, <1>12, <1>13, <1>14, <1>15, <1>16, <1>17, <1>18, <1>19, <1>20, <1>21 DEF Grown1, Grown2

\* Which lines of TwoPass do what.
LEMMA TwoText ==
  which = "two" =>
    /\ Code = TwoPass /\ Len(Code) = 23
    /\ \A k \in 1..23 :
         /\ Code[k].op = "arg" <=> k \in {1, 5, 7, 9, 12, 16, 18, 20, 22}
         /\ Code[k].op = "store" <=> k \in {2, 4, 6, 8, 10, 15, 17, 19, 21}
         /\ Code[k].op = "imm" <=> k \in {11}
         /\ Code[k].op = "buf" <=> k \in {3, 14}
         /\ Code[k].op # "add"
         /\ Code[k].op # "load"
         /\ Code[k].op # "jnz"
         /\ Code[k].op = "call" <=> k \in {13, 23}
<1> SUFFICES ASSUME which = "two", NEW k \in 1..23
             PROVE  /\ Code = TwoPass /\ Len(Code) = 23
                    /\ Code[k].op = "arg" <=> k \in {1, 5, 7, 9, 12, 16, 18, 20, 22}
                    /\ Code[k].op = "store" <=> k \in {2, 4, 6, 8, 10, 15, 17, 19, 21}
                    /\ Code[k].op = "imm" <=> k \in {11}
                    /\ Code[k].op = "buf" <=> k \in {3, 14}
                    /\ Code[k].op # "add"
                    /\ Code[k].op # "load"
                    /\ Code[k].op # "jnz"
                    /\ Code[k].op = "call" <=> k \in {13, 23}
  BY TwoPassLines DEF Code
<1>1. Code = TwoPass /\ Len(Code) = 23
  BY TwoPassLines DEF Code
<1>2. k = 1 \/ k = 2 \/ k = 3 \/ k = 4 \/ k = 5 \/ k = 6 \/ k = 7 \/ k = 8 \/ k = 9
      \/ k = 10 \/ k = 11 \/ k = 12 \/ k = 13 \/ k = 14 \/ k = 15 \/ k = 16 \/ k = 17
      \/ k = 18 \/ k = 19 \/ k = 20 \/ k = 21 \/ k = 22 \/ k = 23
  OBVIOUS
<1>3. ASSUME k \in {1, 5, 7, 9, 12, 16, 18, 20, 22} PROVE Code[k].op = "arg"
  BY <1>1, <1>3, TwoPassLines DEF L
<1>4. ASSUME k \in {2, 4, 6, 8, 10, 15, 17, 19, 21} PROVE Code[k].op = "store"
  BY <1>1, <1>4, TwoPassLines DEF L
<1>5. ASSUME k \in {11} PROVE Code[k].op = "imm"
  BY <1>1, <1>5, TwoPassLines DEF L
<1>6. ASSUME k \in {3, 14} PROVE Code[k].op = "buf"
  BY <1>1, <1>6, TwoPassLines DEF L
<1>7. ASSUME k \in {13, 23} PROVE Code[k].op = "call"
  BY <1>1, <1>7, TwoPassLines DEF L
<1> QED
  BY <1>1, <1>2, <1>3, <1>4, <1>5, <1>6, <1>7

\* What line k of ThreePass does.
ThreeKind(k) ==
  /\ Code[k].op = "arg" <=> k \in {1, 6, 9, 11, 13, 16, 22, 24, 26, 28, 30, 34, 36, 38, 40}
  /\ Code[k].op = "store" <=> k \in {5, 7, 8, 10, 12, 14, 19, 21, 23, 25, 27, 29, 33, 35, 37, 39}
  /\ Code[k].op = "imm" <=> k \in {15}
  /\ Code[k].op = "buf" <=> k \in {3, 20, 32}
  /\ Code[k].op = "add" <=> k \in {4}
  /\ Code[k].op = "load" <=> k \in {18}
  /\ Code[k].op = "jnz" <=> k \in {2}
  /\ Code[k].op = "call" <=> k \in {17, 31, 41}

\* Which lines of ThreePass do what.
LEMMA ThreeText ==
  which = "three" =>
    /\ Code = ThreePass /\ Len(Code) = 41
    /\ \A k \in 1..41 :
         /\ Code[k].op = "arg" <=> k \in {1, 6, 9, 11, 13, 16, 22, 24, 26, 28, 30, 34, 36, 38, 40}
         /\ Code[k].op = "store" <=> k \in {5, 7, 8, 10, 12, 14, 19, 21, 23, 25, 27, 29, 33, 35, 37, 39}
         /\ Code[k].op = "imm" <=> k \in {15}
         /\ Code[k].op = "buf" <=> k \in {3, 20, 32}
         /\ Code[k].op = "add" <=> k \in {4}
         /\ Code[k].op = "load" <=> k \in {18}
         /\ Code[k].op = "jnz" <=> k \in {2}
         /\ Code[k].op = "call" <=> k \in {17, 31, 41}
<1> SUFFICES ASSUME which = "three"
             PROVE  Code = ThreePass /\ Len(Code) = 41 /\ \A k \in 1..41 : ThreeKind(k)
  BY DEF ThreeKind
<1>1. Code = ThreePass /\ Len(Code) = 41
  BY ThreePassLines DEF Code
<1> SUFFICES ASSUME NEW k \in 1..41 PROVE ThreeKind(k)
  BY <1>1
<1>2. k = 1 \/ k = 2 \/ k = 3 \/ k = 4 \/ k = 5 \/ k = 6 \/ k = 7 \/ k = 8 \/ k = 9
      \/ k = 10 \/ k = 11 \/ k = 12 \/ k = 13 \/ k = 14 \/ k = 15 \/ k = 16 \/ k = 17
      \/ k = 18 \/ k = 19 \/ k = 20 \/ k = 21 \/ k = 22 \/ k = 23 \/ k = 24 \/ k = 25
      \/ k = 26 \/ k = 27 \/ k = 28 \/ k = 29 \/ k = 30 \/ k = 31 \/ k = 32 \/ k = 33
      \/ k = 34 \/ k = 35 \/ k = 36 \/ k = 37 \/ k = 38 \/ k = 39 \/ k = 40 \/ k = 41
  OBVIOUS
<1>3. ASSUME k \in {1, 6, 9, 11, 13, 16, 22, 24, 26, 28, 30, 34, 36, 38, 40} PROVE Code[k].op = "arg"
  BY <1>1, <1>3, ThreePassLines DEF L
<1>4. ASSUME k \in {5, 7, 8, 10, 12, 14, 19, 21, 23, 25, 27, 29, 33, 35, 37, 39} PROVE Code[k].op = "store"
  BY <1>1, <1>4, ThreePassLines DEF L
<1>5. ASSUME k \in {15} PROVE Code[k].op = "imm"
  BY <1>1, <1>5, ThreePassLines DEF L
<1>6. ASSUME k \in {3, 20, 32} PROVE Code[k].op = "buf"
  BY <1>1, <1>6, ThreePassLines DEF L
<1>7. ASSUME k \in {4} PROVE Code[k].op = "add"
  BY <1>1, <1>7, ThreePassLines DEF L
<1>8. ASSUME k \in {18} PROVE Code[k].op = "load"
  BY <1>1, <1>8, ThreePassLines DEF L
<1>9. ASSUME k \in {2} PROVE Code[k].op = "jnz"
  BY <1>1, <1>9, ThreePassLines DEF L
<1>10. ASSUME k \in {17, 31, 41} PROVE Code[k].op = "call"
  BY <1>1, <1>10, ThreePassLines DEF L
<1> QED
  BY <1>2, <1>3, <1>4, <1>5, <1>6, <1>7, <1>8, <1>9, <1>10 DEF ThreeKind

-----------------------------------------------------------------------------
(*****************************************************************************)
(* Where everything lies.                                                    *)
(*****************************************************************************)

\* Rounding down to 64 after adding 63 gives the boundary at or above.
LEMMA RoundUp64 ==
  ASSUME NEW x \in Nat
  PROVE  /\ RoundDown(x + 63, 64) \in Nat
         /\ RoundDown(x + 63, 64) % 64 = 0
         /\ x <= RoundDown(x + 63, 64)
         /\ RoundDown(x + 63, 64) <= x + 63
BY SMT DEF RoundDown

-----------------------------------------------------------------------------
\* How large the frames are.
LEMMA Sizes ==
  ASSUME NEW w \in {"two", "three"}
  PROVE  /\ 16 * max \in Nat /\ 16 <= 16 * max
         /\ Fixed(w) \in {48, 56} /\ (w = "three" => Fixed(w) = 56) /\ (w = "two" => Fixed(w) = 48)
         /\ 16 * max * Buffers(w) = IF w = "two" THEN 16 * max ELSE 32 * max
         /\ FrameSize(w) \in Nat /\ FrameSize(w) % 8 = 0
         /\ Fixed(w) + 63 + 16 * max * Buffers(w) <= FrameSize(w)
         /\ Len(Names(w)) = IF w = "two" THEN 9 ELSE 15
         /\ Room \in Nat
         /\ FrameSize(w) + 16 + 8 * Len(Names(w)) + 64 <= Room
<1> DEFINE M == 16 * max
<1>1. M \in Nat /\ 16 <= M
  BY FramesAssumption
<1>2. Len(Names("two")) = 9 /\ Len(Names("three")) = 15
  BY DEF Names
<1>3. Fixed("two") = 48 /\ Fixed("three") = 56
  BY DEF Fixed
<1>4. 16 * max * Buffers("two") = M /\ 16 * max * Buffers("three") = M + M /\ 32 * max = M + M
  BY FramesAssumption DEF Buffers
<1> HIDE DEF M
<1>5. /\ FrameSize("two") = RoundDown(48 + 63 + M + 7, 8)
      /\ FrameSize("three") = RoundDown(56 + 63 + (M + M) + 7, 8)
  BY <1>3, <1>4 DEF FrameSize
<1>6. /\ FrameSize("two") \in Nat /\ FrameSize("two") % 8 = 0 /\ 48 + 63 + M <= FrameSize("two")
      /\ FrameSize("three") \in Nat /\ FrameSize("three") % 8 = 0 /\ 56 + 63 + (M + M) <= FrameSize("three")
      /\ FrameSize("two") <= FrameSize("three")
  BY <1>1, <1>5 DEF RoundDown
<1>7. Room = 64 + FrameSize("three") + 16 + 8 * 15
  BY <1>2 DEF Room, Top
<1> DEFINE D == 16 * max * Buffers(w)
<1>8. D = IF w = "two" THEN M ELSE 32 * max
  BY <1>4
<1> HIDE DEF D
<1>9. /\ M \in Nat /\ 16 <= M
      /\ Fixed(w) \in {48, 56} /\ (w = "three" => Fixed(w) = 56) /\ (w = "two" => Fixed(w) = 48)
      /\ D = IF w = "two" THEN M ELSE 32 * max
      /\ FrameSize(w) \in Nat /\ FrameSize(w) % 8 = 0
      /\ Fixed(w) + 63 + D <= FrameSize(w)
      /\ Len(Names(w)) = IF w = "two" THEN 9 ELSE 15
      /\ Room \in Nat
      /\ FrameSize(w) + 16 + 8 * Len(Names(w)) + 64 <= Room
  <2>1. CASE w = "two"
    <3> DEFINE f == FrameSize("two")
    <3>1. Len(Names(w)) = 9 /\ Fixed(w) = 48 /\ D = M /\ FrameSize(w) = f
      BY <1>2, <1>3, <1>4, <1>8, <2>1
    <3>2. /\ f \in Nat /\ f % 8 = 0 /\ 48 + 63 + (M) <= f
          /\ Room \in Nat /\ f + 16 + 8 * 9 + 64 <= Room
      BY <1>1, <1>6, <1>7
    <3> HIDE DEF f
    <3> QED  BY <1>1, <1>8, <2>1, <3>1, <3>2
  <2>2. CASE w = "three"
    <3> DEFINE f == FrameSize("three")
    <3>1. Len(Names(w)) = 15 /\ Fixed(w) = 56 /\ D = M + M /\ FrameSize(w) = f
      BY <1>2, <1>3, <1>4, <1>8, <2>2
    <3>2. /\ f \in Nat /\ f % 8 = 0 /\ 56 + 63 + (M + M) <= f
          /\ Room \in Nat /\ f + 16 + 8 * 15 + 64 <= Room
      BY <1>1, <1>6, <1>7
    <3> HIDE DEF f
    <3> QED  BY <1>1, <1>8, <2>2, <3>1, <3>2
  <2> QED  BY <2>1, <2>2
<1> QED  BY <1>9 DEF D, M

\* Where everything lies.
LEMMA Geometry ==
  ASSUME Args, Placed
  PROVE  /\ sp \in Nat /\ sp % 8 = 0
         /\ n \in Nat /\ max \in Nat /\ 16 * n <= 16 * max
         /\ B \in Nat /\ B % 8 = 0
         /\ sp + (IF which = "two" THEN 48 ELSE 56) <= B
         /\ FrameSize(which) \in Nat /\ FrameSize(which) % 8 = 0
         /\ B + (IF which = "two" THEN 16 * max ELSE 32 * max) <= sp + FrameSize(which)
         /\ Top(sp, which) = sp + FrameSize(which) + 16 + (IF which = "two" THEN 72 ELSE 120)
         /\ CC \in Nat /\ CH \in Nat
         /\ Apart(CC, CH, 16 * max, 16 * max)
         /\ CC + 16 * max <= sp \/ Top(sp, which) <= CC
         /\ CH + 16 * max <= sp \/ Top(sp, which) <= CH
         /\ \A a \in Nat : sp <= a /\ a < Top(sp, which) /\ a % 8 = 0 => a \in Memory
<1> DEFINE M == 16 * max
           F == FrameSize(which)
           T == 16 + 8 * Len(Names(which))
<1>1. which \in {"two", "three"} /\ n \in 1..max
  BY DEF Args
<1>2. PICK o \in StackOffsets, s \in {Stack, NewStack} : sp = s + o
  BY DEF Placed, OnStack
<1>3. /\ o \in 0..63 /\ o % 8 = 0 /\ s \in Nat /\ s % 64 = 0
      /\ CC \in Nat /\ CH \in Nat /\ max \in Nat
      /\ Apart(s, CC, Room, M) /\ Apart(s, CH, Room, M) /\ Apart(CC, CH, M, M)
  BY FramesAssumption
<1>4. n \in Nat /\ 16 * n <= M
  BY <1>1, <1>3
<1>5. /\ M \in Nat /\ 16 <= M /\ F \in Nat /\ F % 8 = 0 /\ Room \in Nat
      /\ T = 16 + (IF which = "two" THEN 72 ELSE 120)
      /\ F + T + 64 <= Room
      /\ Fixed(which) = IF which = "two" THEN 48 ELSE 56
      /\ Fixed(which) + 63 + (IF which = "two" THEN M ELSE 32 * max) <= F
  <2> DEFINE D == 16 * max * Buffers(which)
             N == Len(Names(which))
  <2>1. /\ M \in Nat /\ 16 <= M
        /\ (which = "three" => Fixed(which) = 56) /\ (which = "two" => Fixed(which) = 48)
        /\ D = IF which = "two" THEN M ELSE 32 * max
        /\ F \in Nat /\ F % 8 = 0
        /\ Fixed(which) + 63 + D <= F
        /\ N = IF which = "two" THEN 9 ELSE 15
        /\ Room \in Nat
        /\ F + 16 + 8 * N + 64 <= Room
    BY <1>1, Sizes
  <2>2. T = 16 + 8 * N
    OBVIOUS
  <2> HIDE DEF D, N, M, F, T
  <2> QED  BY <1>1, <2>1, <2>2
<1>6. Top(sp, which) = sp + F + T
  BY <1>2, <1>3, <1>5 DEF Top
<1>7. sp \in Nat /\ sp % 8 = 0
  BY <1>2, <1>3
<1> HIDE DEF F, T, M
<1>8. /\ B \in Nat /\ B % 64 = 0 /\ sp + Fixed(which) <= B /\ B <= sp + Fixed(which) + 63
  <2>1. sp + Fixed(which) \in Nat
    BY <1>5, <1>7
  <2>2. B = RoundDown(sp + Fixed(which) + 63, 64)
    BY DEF B, Buf
  <2> QED  BY <2>1, <2>2, RoundUp64
<1>9. B % 8 = 0
  BY <1>8
<1>10. B + (IF which = "two" THEN M ELSE 32 * max) <= sp + F
  <2>1. 32 * max \in Nat
    BY <1>3
  <2> QED  BY <2>1, <1>5, <1>7, <1>8
<1>11. s <= sp /\ sp + F + T <= s + Room
  BY <1>2, <1>3, <1>5
<1>12. /\ CC + M <= sp \/ sp + F + T <= CC
       /\ CH + M <= sp \/ sp + F + T <= CH
  BY <1>3, <1>5, <1>7, <1>11 DEF Apart
<1>13. ASSUME NEW a \in Nat, sp <= a, a < sp + F + T, a % 8 = 0
       PROVE  a \in Memory
  <2>1. s <= a /\ a <= s + Room - 1
    BY <1>3, <1>5, <1>7, <1>11, <1>13
  <2>2. CASE s = Stack
    BY <1>3, <1>5, <1>13, <2>1, <2>2 DEF Memory, StackWords
  <2>3. CASE s = NewStack
    <3>1. Stack \in Nat /\ Stack % 64 = 0
      BY FramesAssumption
    <3>2. a - NewStack + Stack \in Int /\ (a - NewStack + Stack) % 8 = 0
      BY <1>3, <1>13, <2>3, <3>1
    <3>3. a - NewStack + Stack \in StackWords
      BY <1>3, <1>5, <1>13, <2>1, <2>3, <3>1, <3>2 DEF StackWords
    <3>4. a = (a - NewStack + Stack) + NewStack - Stack
      BY <1>3, <1>13, <2>3, <3>1
    <3> QED  BY <3>3, <3>4 DEF Memory
  <2> QED  BY <2>2, <2>3
<1>14. T = 16 + (IF which = "two" THEN 72 ELSE 120) /\ sp + F + T = sp + F + 16 + (IF which = "two" THEN 72 ELSE 120)
  BY <1>5, <1>7
<1> QED
  BY <1>1, <1>3, <1>4, <1>5, <1>6, <1>7, <1>8, <1>9, <1>10, <1>12, <1>13, <1>14 DEF M, F

\* The arguments lie above the return address, within the frame's room.
LEMMA ArgPlace ==
  ASSUME Args, Placed, NEW name \in DOMAIN args
  PROVE  /\ FP(sp, which, name) \in Nat /\ FP(sp, which, name) % 8 = 0
         /\ sp + FrameSize(which) + 16 <= FP(sp, which, name)
         /\ FP(sp, which, name) + 8 <= Top(sp, which)
         /\ FP(sp, which, name) \in Memory
<1> DEFINE j == CHOOSE i \in DOMAIN Names(which) : Names(which)[i] = name
           F == FrameSize(which)
           N == Len(Names(which))
           T == Top(sp, which)
           fp == FP(sp, which, name)
<1>1. which \in {"two", "three"}
  BY DEF Args
<1>2. DOMAIN Names(which) = 1..N /\ N \in {9, 15} /\ N = IF which = "two" THEN 9 ELSE 15
  <2>1. CASE which = "two"
    BY <2>1, LenProperties DEF Names
  <2>2. CASE which = "three"
    BY <2>2, LenProperties DEF Names
  <2> QED  BY <1>1, <2>1, <2>2
<1>3. \E i \in DOMAIN Names(which) : Names(which)[i] = name
  BY DEF Args
<1>4. j \in 1..N
  BY <1>2, <1>3
<1>5. /\ sp \in Nat /\ sp % 8 = 0 /\ F \in Nat /\ F % 8 = 0
      /\ T = sp + F + 16 + (IF which = "two" THEN 72 ELSE 120)
      /\ \A a \in Nat : sp <= a /\ a < T /\ a % 8 = 0 => a \in Memory
  BY Geometry
<1>6. fp = sp + F + 16 + 8 * (j - 1)
  BY DEF FP
<1> HIDE DEF j, F, N, T, fp
<1>7. j \in Int /\ 1 <= j /\ j <= (IF which = "two" THEN 9 ELSE 15)
  BY <1>2, <1>4
<1>8. fp \in Nat /\ fp % 8 = 0 /\ sp + F + 16 <= fp /\ fp + 8 <= T
  BY <1>5, <1>6, <1>7
<1> QED
  BY <1>5, <1>8 DEF F, T, fp

\* The slots lie at the bottom of the frame.
LEMMA SlotPlace ==
  ASSUME Args, Placed
  PROVE  /\ sp \in Nat /\ FrameSize(which) \in Nat
         /\ (IF which = "two" THEN 48 ELSE 56) <= FrameSize(which)
         /\ \A o \in {0, 8, 16, 24, 32, 40, 48} : sp + o \in Memory
         /\ Memory \subseteq Int
<1> DEFINE F == FrameSize(which)
           T == Top(sp, which)
           M == IF which = "two" THEN 16 * max ELSE 32 * max
<1>1. sp \in Nat /\ sp % 8 = 0 /\ F \in Nat /\ B \in Nat /\ max \in Nat
  BY Geometry
<1>2. sp + (IF which = "two" THEN 48 ELSE 56) <= B /\ B + M <= sp + F
  BY Geometry
<1>3. T = sp + F + 16 + (IF which = "two" THEN 72 ELSE 120)
  BY Geometry
<1>4. \A a \in Nat : sp <= a /\ a < T /\ a % 8 = 0 => a \in Memory
  BY Geometry
<1>5. M \in Nat
  BY <1>1
<1> HIDE DEF F, T, M
<1>6. (IF which = "two" THEN 48 ELSE 56) <= F
  BY <1>1, <1>2, <1>5
<1>7. ASSUME NEW o \in {0, 8, 16, 24, 32, 40, 48} PROVE sp + o \in Memory
  <2>1. sp + o \in Nat /\ sp <= sp + o /\ (sp + o) % 8 = 0 /\ sp + o < T
    BY <1>1, <1>3, <1>6
  <2> QED  BY <1>4, <2>1
<1>8. Memory \subseteq Int
  BY FramesAssumption DEF Memory, StackWords, Area
<1> QED  BY <1>1, <1>6, <1>7, <1>8 DEF F

\* Two arguments of the same address are one.
LEMMA ArgApart ==
  ASSUME Args, Placed, NEW a \in DOMAIN args, NEW b \in DOMAIN args,
         FP(sp, which, a) = FP(sp, which, b)
  PROVE  a = b
<1> DEFINE i(name) == CHOOSE k \in DOMAIN Names(which) : Names(which)[k] = name
<1>1. which \in {"two", "three"}
  BY DEF Args
<1>2. DOMAIN Names(which) \subseteq Nat
  <2>1. CASE which = "two"
    BY <2>1 DEF Names
  <2>2. CASE which = "three"
    BY <2>2 DEF Names
  <2> QED  BY <1>1, <2>1, <2>2
<1>3. \A name \in DOMAIN args : i(name) \in DOMAIN Names(which) /\ Names(which)[i(name)] = name
  BY DEF Args
<1>4. sp \in Nat /\ FrameSize(which) \in Nat
  BY Geometry
<1>5. \A name \in DOMAIN args : FP(sp, which, name) = sp + FrameSize(which) + 16 + 8 * (i(name) - 1)
  BY DEF FP
<1> HIDE DEF i
<1>6. i(a) \in Nat /\ i(b) \in Nat
  BY <1>2, <1>3
<1>7. i(a) = i(b)
  BY <1>4, <1>5, <1>6
<1> QED  BY <1>3, <1>7

\* Every word of an array is in memory.
LEMMA ArrayWords ==
  ASSUME NEW b \in Nat, n \in Nat, max \in Nat, n <= max, NEW j \in 1..n
  PROVE  b + 16 * (j - 1) \in Area(b, max) /\ b + 16 * (j - 1) + 8 \in Area(b, max)
<1>1. 2 * (j - 1) \in 0..(2 * max - 1) /\ 2 * (j - 1) + 1 \in 0..(2 * max - 1)
  OBVIOUS
<1>2. b + 16 * (j - 1) = b + 8 * (2 * (j - 1)) /\ b + 16 * (j - 1) + 8 = b + 8 * (2 * (j - 1) + 1)
  OBVIOUS
<1> QED  BY <1>1, <1>2 DEF Area

\* The word at a holds a point's half, and is none of the frame's own words.
Clear(a) ==
  /\ a \in Int /\ a \in Memory
  /\ a < sp \/ sp + (IF which = "two" THEN 48 ELSE 56) <= a
  /\ a < sp + FrameSize(which) \/ Top(sp, which) <= a
AllClear(b) == \A j \in 1..n : Clear(b + 16 * (j - 1)) /\ Clear(b + 16 * (j - 1) + 8)

\* The caller's arrays are outside the frame.
LEMMA ArraysClear ==
  ASSUME Args, Placed
  PROVE  AllClear(CC) /\ AllClear(CH)
<1>1. SUFFICES ASSUME NEW b \in {CC, CH}, NEW j \in 1..n
               PROVE  Clear(b + 16 * (j - 1)) /\ Clear(b + 16 * (j - 1) + 8)
  BY DEF AllClear
<1> DEFINE F == FrameSize(which)
           T == Top(sp, which)
           a == b + 16 * (j - 1)
           M == 16 * max
<1>2. /\ b \in Nat /\ sp \in Nat /\ F \in Nat
      /\ n \in Nat /\ max \in Nat /\ 16 * n <= M
      /\ T = sp + F + 16 + (IF which = "two" THEN 72 ELSE 120)
      /\ b + M <= sp \/ T <= b
      /\ B \in Nat
      /\ sp + (IF which = "two" THEN 48 ELSE 56) <= B
      /\ B <= sp + F
  <2>1. 16 * max \in Nat /\ 32 * max \in Nat
    BY Geometry
  <2> QED  BY <2>1, Geometry, SMTT(20)
<1>3. n <= max /\ M \in Nat
  BY <1>2
<1>4. a \in Memory /\ a + 8 \in Memory
  BY <1>2, <1>3, ArrayWords DEF Memory
<1>5. a \in Nat /\ b <= a /\ a + 16 <= b + M
  BY <1>2, SMTT(20)
<1> HIDE DEF F, T, a, M
<1>6. /\ a < sp \/ T <= a
      /\ a + 8 < sp \/ T <= a + 8
      /\ T \in Nat /\ sp + (IF which = "two" THEN 48 ELSE 56) <= T
  BY <1>2, <1>3, <1>5
<1>7. /\ a < sp \/ sp + (IF which = "two" THEN 48 ELSE 56) <= a
      /\ a + 8 < sp \/ sp + (IF which = "two" THEN 48 ELSE 56) <= a + 8
      /\ a < sp + F \/ T <= a
      /\ a + 8 < sp + F \/ T <= a + 8
  BY <1>2, <1>5, <1>6
<1> QED  BY <1>4, <1>5, <1>7 DEF F, T, a, Clear

\* The buffers are above the slots and below the return address.
LEMMA BuffersClear ==
  ASSUME Args, Placed
  PROVE  AllClear(B) /\ (which = "three" => AllClear(B + 16 * max))
<1>1. SUFFICES ASSUME NEW d \in {0, 16 * max}, d = 0 \/ which = "three", NEW j \in 1..n
               PROVE  Clear(B + d + 16 * (j - 1)) /\ Clear(B + d + 16 * (j - 1) + 8)
  <2>1. B = B + 0 /\ B \in Nat
    BY Geometry
  <2> QED  BY <1>1, <2>1 DEF AllClear
<1> DEFINE F == FrameSize(which)
           T == Top(sp, which)
           a == B + d + 16 * (j - 1)
           M == 16 * max
<1>2. /\ sp \in Nat /\ sp % 8 = 0 /\ F \in Nat
      /\ n \in Nat /\ max \in Nat /\ 16 * n <= M
      /\ T = sp + F + 16 + (IF which = "two" THEN 72 ELSE 120)
      /\ B \in Nat /\ B % 8 = 0
      /\ sp + (IF which = "two" THEN 48 ELSE 56) <= B
      /\ B + (IF which = "two" THEN M ELSE 32 * max) <= sp + F
      /\ \A x \in Nat : sp <= x /\ x < T /\ x % 8 = 0 => x \in Memory
  BY Geometry
<1>3. M \in Nat /\ M % 8 = 0 /\ 32 * max = M + M /\ d \in Nat /\ d % 8 = 0
  BY <1>2
<1>4. d + M <= (IF which = "two" THEN M ELSE 32 * max)
  <2>1. d \in {0, M}
    OBVIOUS
  <2> HIDE DEF M
  <2> QED  BY <1>1, <1>3, <2>1
<1>5. a \in Nat /\ a % 8 = 0 /\ B <= a /\ a + 16 <= B + d + M
  BY <1>2, <1>3
<1> HIDE DEF F, T, a, M
<1>6. a + 16 <= sp + F
  BY <1>2, <1>3, <1>4, <1>5
<1>7. /\ a < sp \/ sp + (IF which = "two" THEN 48 ELSE 56) <= a
      /\ a + 8 < sp \/ sp + (IF which = "two" THEN 48 ELSE 56) <= a + 8
      /\ a < sp + F /\ a + 8 < sp + F /\ a + 8 < T /\ sp <= a
  BY <1>2, <1>5, <1>6
<1>8. a \in Memory /\ a + 8 \in Memory
  <2>1. a + 8 \in Nat /\ (a + 8) % 8 = 0 /\ sp <= a + 8 /\ a < T
    BY <1>2, <1>5, <1>7
  <2> QED  BY <1>2, <1>5, <1>7, <2>1
<1> QED  BY <1>5, <1>7, <1>8 DEF F, T, a, Clear

\* Where a pass may read or write: the arrays, the buffers of the frame.
Areas == IF which = "two" THEN {CC, CH, B} ELSE {CC, CH, B, X}

\* Arrays of n points at a and at b do not overlap.
Far(a, b) == a + 16 * n <= b \/ b + 16 * n <= a

\* No array or buffer overlaps the frame's own words.
LEMMA AreasClear ==
  ASSUME Args, Placed
  PROVE  \A b \in Areas : b \in Nat /\ AllClear(b)
<1>1. which \in {"two", "three"}
  BY DEF Args
<1>2. CC \in Nat /\ CH \in Nat /\ B \in Nat /\ B + 16 * max \in Nat
  BY Geometry
<1>3. which = "three" => X \in {CH, B + 16 * max}
  BY DEF Args, X, AddrOf, V
<1> QED  BY <1>1, <1>2, <1>3, ArraysClear, BuffersClear DEF Areas

\* The buffers and the arrays lie apart.
LEMMA AreasFar ==
  ASSUME Args, Placed
  PROVE  /\ Far(CC, CH) /\ Far(CC, B) /\ Far(CH, B)
         /\ which = "three" => Far(X, CC) /\ Far(X, B)
<1> DEFINE M == 16 * max
           N == 16 * n
           F == FrameSize(which)
           T == Top(sp, which)
<1>1. /\ sp \in Nat /\ F \in Nat
      /\ n \in Nat /\ max \in Nat /\ N <= M
      /\ T = sp + F + 16 + (IF which = "two" THEN 72 ELSE 120)
      /\ B \in Nat
      /\ sp + (IF which = "two" THEN 48 ELSE 56) <= B
      /\ B + (IF which = "two" THEN M ELSE 32 * max) <= sp + F
      /\ CC \in Nat /\ CH \in Nat
      /\ Apart(CC, CH, M, M)
      /\ CC + M <= sp \/ T <= CC
      /\ CH + M <= sp \/ T <= CH
  BY Geometry
<1>2. M \in Nat /\ N \in Nat /\ 32 * max = M + M
  BY <1>1
<1>3. which \in {"two", "three"}
  BY DEF Args
<1> HIDE DEF M, N, F, T
<1>4. /\ CC + N <= CH \/ CH + N <= CC
      /\ CC + N <= B \/ B + N <= CC
      /\ CH + N <= B \/ B + N <= CH
  BY <1>1, <1>2 DEF Apart
<1>5. CASE which = "three" /\ args["x"] = AddrOf(CH) /\ args["ch"] = AddrOf(CH)
  <2>1. X = CH
    <3>1. CH # 0
      BY FramesAssumption
    <3> QED  BY <1>5, <3>1 DEF X, AddrOf, V
  <2> QED  BY <1>4, <2>1 DEF Far, N
<1>6. CASE which = "three" /\ args["x"] = AddrOf(0)
  <2>1. X = B + M
    BY <1>6 DEF X, M
  <2>2. /\ X + N <= CC \/ CC + N <= X
        /\ X + N <= B \/ B + N <= X
    BY <1>1, <1>2, <1>6, <2>1
  <2> QED  BY <1>4, <2>2 DEF Far, N
<1> QED  BY <1>3, <1>4, <1>5, <1>6 DEF Far, N, Args

-----------------------------------------------------------------------------
(*****************************************************************************)
(* What the steps that do not move the stack keep.                           *)
(*****************************************************************************)

\* What a step keeps when the stack does not move.
SameFrame == which' = which /\ args' = args /\ n' = n /\ sp' = sp

\* The frame is where it was.
LEMMA FrameKept ==
  ASSUME SameFrame
  PROVE  /\ Args' = Args /\ Placed' = Placed /\ OnStack(NewStack)' = OnStack(NewStack)
         /\ B' = B /\ X' = X /\ Steady' = Steady /\ Calls' = Calls /\ Code' = Code
         /\ Areas' = Areas
<1>1. /\ Args' = Args /\ B' = B /\ X' = X /\ Steady' = Steady
      /\ Calls' = Calls /\ Code' = Code
  BY DEF SameFrame, Args, B, X, Steady, Calls, Code
<1>2. /\ OnStack(Stack)' = OnStack(Stack) /\ OnStack(NewStack)' = OnStack(NewStack)
  BY DEF SameFrame, OnStack
<1>3. Placed' = Placed
  BY <1>2 DEF Placed
<1> QED  BY <1>1, <1>2, <1>3 DEF SameFrame, Areas

\* So is what x may be,
LEMMA XKeptKept ==
  ASSUME SameFrame, NEW v
  PROVE  XKept(v)' = XKept(v)
BY FrameKept DEF XKept

\* and the passes are the same ones.
LEMMA PassesKept ==
  ASSUME SameFrame, NEW c
  PROVE  /\ Src(c)' = Src(c) /\ Dst(c)' = Dst(c) /\ Of(c)' = Of(c)
         /\ In(c)' = In(c) /\ Out(c)' = Out(c) /\ Right(c)' = Right(c)
<1>1. Src(c)' = Src(c) /\ Dst(c)' = Dst(c) /\ Right(c)' = Right(c)
  BY FrameKept DEF SameFrame, Src, Dst, Right
<1>2. ASSUME NEW d PROVE Of(d)' = Of(d)
  BY DEF SameFrame, Of, Parameters
<1>3. ASSUME NEW e, NEW of, NEW i PROVE Transform(e, of, i)' = Transform(e, of, i)
  BY DEF SameFrame, Transform
<1>4. Input' = Input
  BY DEF SameFrame, Input
<1>5. AfterOne' = AfterOne
  BY <1>2, <1>4 DEF SameFrame, AfterOne, Transform
<1>6. AfterTwo' = AfterTwo
  BY <1>2, <1>5 DEF SameFrame, AfterTwo, Transform
<1>7. In(c)' = In(c)
  BY <1>4, <1>5, <1>6 DEF In
<1>8. Out(c)' = Out(c)
  BY <1>2, <1>7 DEF SameFrame, Out, Transform
<1> QED  BY <1>1, <1>2, <1>7, <1>8

\* An area none of whose words changes holds the same points.
LEMMA PointsKept ==
  ASSUME SameFrame, NEW a, NEW s, Points(a, s), AllClear(a),
         \A w \in Memory : Clear(w) => mem'[w] = mem[w]
  PROVE  Points(a, s)'
<1>1. ASSUME NEW j \in 1..n
      PROVE  PointAt(mem', a + 16 * (j - 1)) = s[j]
  <2>1. /\ mem'[a + 16 * (j - 1)] = mem[a + 16 * (j - 1)]
        /\ mem'[a + 16 * (j - 1) + 8] = mem[a + 16 * (j - 1) + 8]
    BY DEF AllClear, Clear
  <2>2. PointAt(mem, a + 16 * (j - 1)) = s[j]
    BY DEF Points
  <2> QED  BY <2>1, <2>2 DEF PointAt
<1> QED  BY <1>1 DEF Points, SameFrame

\* Every pass reads and writes an array or a buffer.
LEMMA DstArea ==
  ASSUME Args, Placed, NEW c \in Calls
  PROVE  Dst(c) \in Areas /\ Src(c) \in Areas
<1>1. which \in {"two", "three"} /\ args["ch"].num \in {CC, CH}
  BY DEF Args, AddrOf, V
<1> QED  BY <1>1 DEF Dst, Src, Calls, Areas

\* What the steps that write no area, and end no pass, keep.
LEMMA DataKept ==
  ASSUME Args, Placed, InputThere, ResultsThere, SameFrame,
         \A w \in Memory : Clear(w) => mem'[w] = mem[w],
         \A c \in Calls \cup {100} : Before(c)' = Before(c)
  PROVE  InputThere' /\ ResultsThere'
<1>1. \A b \in Areas : AllClear(b)
  BY AreasClear
<1>2. which \in {"two", "three"} /\ Calls' = Calls /\ which' = which /\ args' = args
  BY FrameKept DEF Args, SameFrame
<1>3. InputThere'
  <2>1. SUFFICES ASSUME args["ch"] # args["cc"] \/ Before(IF which = "two" THEN 13 ELSE 17)'
                 PROVE  Points(CC, Input)'
    BY <1>2 DEF InputThere
  <2>2. Before(IF which = "two" THEN 13 ELSE 17)' = Before(IF which = "two" THEN 13 ELSE 17)
    <3>1. CASE which = "two"
      <4>1. Before(13)' = Before(13)
        BY <3>1 DEF Calls
      <4> QED  BY <1>2, <3>1, <4>1
    <3>2. CASE which = "three"
      <4>1. Before(17)' = Before(17)
        BY <3>2 DEF Calls
      <4> QED  BY <1>2, <3>2, <4>1
    <3> QED  BY <1>2, <3>1, <3>2
  <2>3. Points(CC, Input)
    BY <2>1, <2>2 DEF InputThere
  <2>4. AllClear(CC)
    BY <1>1 DEF Areas
  <2>5. Input' = Input
    BY DEF SameFrame, Input
  <2> DEFINE s == Input
  <2>6. Points(CC, s)
    BY <2>3
  <2>7. \A t : Points(CC, t) => Points(CC, t)'
    BY <2>4, PointsKept
  <2> QED  BY <2>3, <2>5, <2>7 DEF Points
<1>4. ASSUME NEW c \in Calls, Right(c)', ~Before(c)', Before(User(c))'
      PROVE  Points(Dst(c), Out(c))'
  <2>1. Right(c) /\ Dst(c)' = Dst(c) /\ Out(c)' = Out(c)
    BY <1>4, PassesKept
  <2>2. User(c) \in Calls \cup {100}
    BY DEF User, Calls
  <2>3. ~Before(c) /\ Before(User(c))
    BY <1>4, <2>2 DEF User
  <2>4. Points(Dst(c), Out(c))
    BY <2>1, <2>3 DEF ResultsThere
  <2>5. AllClear(Dst(c))
    BY <1>1, DstArea
  <2>6. \A a, t : AllClear(a) /\ Points(a, t) => Points(a, t)'
    BY PointsKept
  <2> QED  BY <2>1, <2>4, <2>5, <2>6 DEF Points
<1> QED  BY <1>2, <1>3, <1>4 DEF ResultsThere

\* The caller's frame stays if no word above the frame is written.
LEMMA CallerKept ==
  ASSUME Args, Placed, CallerFrameIntact, SameFrame,
         \A w \in Memory : sp + FrameSize(which) <= w /\ w < Top(sp, which) => mem'[w] = mem[w]
  PROVE  CallerFrameIntact'
<1> DEFINE F == FrameSize(which)
           T == Top(sp, which)
<1>1. /\ sp \in Nat /\ sp % 8 = 0 /\ F \in Nat /\ F % 8 = 0
      /\ T = sp + F + 16 + (IF which = "two" THEN 72 ELSE 120)
      /\ \A a \in Nat : sp <= a /\ a < T /\ a % 8 = 0 => a \in Memory
  BY Geometry
<1>2. ASSUME NEW o \in {F, F + 8} PROVE mem'[sp + o] = Caller(o)
  <2>1. mem[sp + o] = Caller(o)
    BY <1>2 DEF CallerFrameIntact
  <2> HIDE DEF F, T
  <2>2. sp + o \in Nat /\ (sp + o) % 8 = 0 /\ sp <= sp + o /\ sp + o < T /\ sp + F <= sp + o
    BY <1>1, <1>2
  <2>3. sp + o \in Memory
    BY <1>1, <2>2
  <2> QED  BY <2>1, <2>2, <2>3 DEF F, T
<1>3. ASSUME NEW name \in DOMAIN args
      PROVE  mem'[FP(sp, which, name)] = args[name]
  <2> DEFINE a == FP(sp, which, name)
  <2>1. a \in Nat /\ sp + F + 16 <= a /\ a + 8 <= T /\ a \in Memory
    BY ArgPlace
  <2>2. mem[a] = args[name]
    BY DEF CallerFrameIntact
  <2> HIDE DEF F, T, a
  <2>3. sp + F <= a /\ a < T
    BY <1>1, <2>1
  <2> QED  BY <2>1, <2>2, <2>3 DEF F, T, a
<1> QED  BY <1>2, <1>3 DEF CallerFrameIntact, SameFrame

\* How many lines there are.
LEMMA CodeLength ==
  ASSUME Args
  PROVE  /\ which \in {"two", "three"} /\ Len(Code) \in {23, 41}
         /\ Len(Code) = IF which = "two" THEN 23 ELSE 41
         /\ \A k \in 1..Len(Code) : k \in 1..41
<1>1. which \in {"two", "three"}
  BY DEF Args
<1>2. Len(Code) = IF which = "two" THEN 23 ELSE 41
  BY <1>1, TwoText, ThreeText
<1> QED  BY <1>1, <1>2

\* The slot holds the value after the step as well.
HeldNext(off, v, from, call) ==
  (from < ip' /\ ip' <= call) \/ (ip' = call + 1 /\ kernel'.phase = "entered") => mem'[sp + off] = v

\* A line that calls nothing ends no pass.
LEMMA QuietBefore ==
  ASSUME Args, ip \in 1..Len(Code), ip \notin Calls, kernel.phase = "none",
         kernel'.phase = "none", SameFrame,
         ip' = ip + 1 \/ (ip = 2 /\ which = "three" /\ ip' = 5)
  PROVE  \A c \in Calls \cup {100} : Before(c)' = Before(c)
<1>1. ip \in 1..41
  BY CodeLength
<1>2. SUFFICES ASSUME NEW c \in Calls \cup {100} PROVE Before(c)' = Before(c)
  OBVIOUS
<1>3. c \in {13, 23, 17, 31, 41, 100} /\ ip # c
  BY <1>1 DEF Calls
<1>4. which = "three" => c \in {17, 31, 41, 100}
  BY DEF Calls
<1>5. ip' <= c <=> ip <= c
  BY <1>1, <1>3, <1>4
<1> QED  BY <1>5 DEF Before

\* A line that is neither a store nor a call leaves the argument slots as they are.
LEMMA QuietSlots ==
  ASSUME Args, Slots, SameFrame, ip \in 1..Len(Code), kernel.phase = "none",
         Code[ip].op \notin {"store", "imm", "call"},
         mem' = mem, kernel' = kernel,
         ip' = ip + 1 \/ (ip = 2 /\ which = "three" /\ ip' = 5)
  PROVE  Slots'
<1>1. which' = which /\ args' = args /\ sp' = sp /\ B' = B /\ X' = X
  BY FrameKept DEF SameFrame
<1>2. CASE which = "two"
  <2>1. /\ ip \in 1..23 /\ ip' = ip + 1
        /\ ip \notin {2, 4, 6, 8, 10, 15, 17, 19, 21, 11, 13, 23}
    <3>1. ip \in 1..23
      BY <1>2, CodeLength
    <3> DEFINE op == Code[ip].op
    <3>2. /\ op = "store" <=> ip \in {2, 4, 6, 8, 10, 15, 17, 19, 21}
          /\ op = "imm" <=> ip \in {11}
          /\ op = "call" <=> ip \in {13, 23}
      BY <1>2, <3>1, TwoText
    <3>3. op # "store" /\ op # "imm" /\ op # "call"
      OBVIOUS
    <3> HIDE DEF op
    <3> QED  BY <1>2, <3>1, <3>2, <3>3
  <2>2. /\ Held(0, AddrOf(CC), 2, 13)
        /\ Held(8, AddrOf(B), 4, 13)
        /\ Held(16, args["tw"], 6, 13)
        /\ Held(24, args["k0"], 8, 13)
        /\ Held(32, args["ido"], 10, 13)
        /\ Held(40, IntOf(1), 11, 13)
        /\ Held(0, AddrOf(B), 15, 23)
        /\ Held(8, args["ch"], 17, 23)
        /\ Held(16, args["k1"], 19, 23)
        /\ Held(24, args["l1"], 21, 23)
    BY <1>2 DEF Slots
  <2>3. ASSUME NEW off, NEW v, NEW from \in {2, 4, 6, 8, 10, 15, 17, 19, 21, 11}, NEW call \in {13, 23},
               Held(off, v, from, call)
        PROVE  HeldNext(off, v, from, call)
    <3>1. from < ip' /\ ip' <= call => from < ip /\ ip <= call
      <4>1. from # ip
        BY <2>1
      <4>2. from \in Int /\ call \in Int /\ ip \in Int /\ ip' = ip + 1
        BY <2>1
      <4> QED  BY <4>1, <4>2
    <3> QED  BY <1>1, <2>1, <2>3, <3>1 DEF Held, HeldNext
  <2>4. /\ HeldNext(0, AddrOf(CC), 2, 13)
        /\ HeldNext(8, AddrOf(B), 4, 13)
        /\ HeldNext(16, args["tw"], 6, 13)
        /\ HeldNext(24, args["k0"], 8, 13)
        /\ HeldNext(32, args["ido"], 10, 13)
        /\ HeldNext(40, IntOf(1), 11, 13)
        /\ HeldNext(0, AddrOf(B), 15, 23)
        /\ HeldNext(8, args["ch"], 17, 23)
        /\ HeldNext(16, args["k1"], 19, 23)
        /\ HeldNext(24, args["l1"], 21, 23)
    BY <2>2, <2>3
  <2> QED  BY <1>1, <1>2, <2>4 DEF Slots, Held, HeldNext
<1>3. CASE which = "three"
  <2>1. /\ ip \in 1..41 /\ (ip' = ip + 1 \/ (ip = 2 /\ ip' = 5))
        /\ ip \notin {5, 7, 8, 10, 12, 14, 15, 19, 21, 23, 25, 27, 29, 33, 35, 37, 39, 17, 31, 41}
    <3>1. ip \in 1..41
      BY <1>3, CodeLength
    <3> DEFINE op == Code[ip].op
    <3>2. /\ op = "store" <=> ip \in {5, 7, 8, 10, 12, 14, 19, 21, 23, 25, 27, 29, 33, 35, 37, 39}
          /\ op = "imm" <=> ip \in {15}
          /\ op = "call" <=> ip \in {17, 31, 41}
      BY <1>3, <3>1, ThreeText
    <3>3. op # "store" /\ op # "imm" /\ op # "call"
      OBVIOUS
    <3> HIDE DEF op
    <3> QED  BY <1>3, <3>1, <3>2, <3>3
  <2>2. /\ ip \in 6..18 => XKept(mem[sp + 48])
        /\ Held(0, AddrOf(CC), 7, 17)
        /\ Held(8, AddrOf(X), 8, 17)
        /\ Held(16, args["tw0"], 10, 17)
        /\ Held(24, args["k0"], 12, 17)
        /\ Held(32, args["ido0"], 14, 17)
        /\ Held(40, IntOf(1), 15, 17)
        /\ ip \in 20..31 \/ (ip = 32 /\ kernel.phase = "entered") => XKept(mem[sp])
        /\ Held(8, AddrOf(B), 21, 31)
        /\ Held(16, args["tw1"], 23, 31)
        /\ Held(24, args["k1"], 25, 31)
        /\ Held(32, args["ido1"], 27, 31)
        /\ Held(40, args["l1b"], 29, 31)
        /\ Held(0, AddrOf(B), 33, 41)
        /\ Held(8, args["ch"], 35, 41)
        /\ Held(16, args["k2"], 37, 41)
        /\ Held(24, args["l1c"], 39, 41)
    BY <1>3 DEF Slots
  <2>3. ASSUME NEW off, NEW v, NEW from \in {7, 8, 10, 12, 14, 15, 21, 23, 25, 27, 29, 33, 35, 37, 39},
               NEW call \in {17, 31, 41}, Held(off, v, from, call)
        PROVE  HeldNext(off, v, from, call)
    <3>1. from < ip' /\ ip' <= call => from < ip /\ ip <= call
      <4>1. from # ip
        BY <2>1
      <4>2. from \in Int /\ 7 <= from /\ call \in Int /\ ip \in Int /\ (ip' = ip + 1 \/ (ip = 2 /\ ip' = 5))
        BY <2>1
      <4> QED  BY <4>1, <4>2
    <3> QED  BY <1>1, <2>1, <2>3, <3>1 DEF Held, HeldNext
  <2>4. ASSUME ip' \in 6..18 PROVE XKept(mem[sp + 48])'
    <3>1. ip \in 6..18
      BY <2>1, <2>4
    <3> QED  BY <1>1, <2>2, <3>1, FrameKept DEF XKept
  <2>5. ASSUME ip' \in 20..31 \/ (ip' = 32 /\ kernel'.phase = "entered") PROVE XKept(mem[sp])'
    <3>1. ip \in 20..31
      BY <2>1, <2>5
    <3> QED  BY <1>1, <2>2, <3>1, FrameKept DEF XKept
  <2>6. /\ HeldNext(0, AddrOf(CC), 7, 17)
        /\ HeldNext(8, AddrOf(X), 8, 17)
        /\ HeldNext(16, args["tw0"], 10, 17)
        /\ HeldNext(24, args["k0"], 12, 17)
        /\ HeldNext(32, args["ido0"], 14, 17)
        /\ HeldNext(40, IntOf(1), 15, 17)
        /\ HeldNext(8, AddrOf(B), 21, 31)
        /\ HeldNext(16, args["tw1"], 23, 31)
        /\ HeldNext(24, args["k1"], 25, 31)
        /\ HeldNext(32, args["ido1"], 27, 31)
        /\ HeldNext(40, args["l1b"], 29, 31)
        /\ HeldNext(0, AddrOf(B), 33, 41)
        /\ HeldNext(8, args["ch"], 35, 41)
        /\ HeldNext(16, args["k2"], 37, 41)
        /\ HeldNext(24, args["l1c"], 39, 41)
    BY <2>2, <2>3
  <2> QED  BY <1>1, <1>3, <2>4, <2>5, <2>6 DEF Slots, Held, HeldNext
<1> QED  BY <1>2, <1>3 DEF Args

-----------------------------------------------------------------------------
(*****************************************************************************)
(* The lines that set a register, and the jump.                              *)
(*****************************************************************************)

\* Every argument the lines name was passed.
LEMMA ArgNames ==
  ASSUME Args
  PROVE  /\ which = "two" =>
              {"cc", "ch", "tw", "k0", "k1", "ido", "l1", "pass", "last"} \subseteq DOMAIN args
         /\ which = "three" =>
              {"cc", "ch", "x", "tw0", "tw1", "k0", "k1", "k2", "ido0", "ido1",
               "l1b", "l1c", "p0", "p1", "p2"} \subseteq DOMAIN args
<1>1. CASE which = "two"
  <2> DEFINE N == <<"cc", "ch", "tw", "k0", "k1", "ido", "l1", "pass", "last">>
  <2>1. /\ \A j \in 1..9 : j \in DOMAIN N
        /\ N[1] = "cc" /\ N[2] = "ch" /\ N[3] = "tw" /\ N[4] = "k0" /\ N[5] = "k1"
        /\ N[6] = "ido" /\ N[7] = "l1" /\ N[8] = "pass" /\ N[9] = "last"
    OBVIOUS
  <2>2. DOMAIN args = {N[j] : j \in DOMAIN N}
    BY <1>1 DEF Args, Names
  <2> HIDE DEF N
  <2>3. \A j \in 1..9 : N[j] \in DOMAIN args
    BY <2>1, <2>2
  <2>4. 1 \in 1..9 /\ 2 \in 1..9 /\ 3 \in 1..9 /\ 4 \in 1..9 /\ 5 \in 1..9 /\ 6 \in 1..9
        /\ 7 \in 1..9 /\ 8 \in 1..9 /\ 9 \in 1..9
    OBVIOUS
  <2> QED  BY <1>1, <2>1, <2>3, <2>4
<1>2. CASE which = "three"
  <2> DEFINE N == <<"cc", "ch", "x", "tw0", "tw1", "k0", "k1", "k2",
                    "ido0", "ido1", "l1b", "l1c", "p0", "p1", "p2">>
  <2>1. /\ \A j \in 1..15 : j \in DOMAIN N
        /\ N[1] = "cc" /\ N[2] = "ch" /\ N[3] = "x" /\ N[4] = "tw0" /\ N[5] = "tw1"
        /\ N[6] = "k0" /\ N[7] = "k1" /\ N[8] = "k2" /\ N[9] = "ido0" /\ N[10] = "ido1"
        /\ N[11] = "l1b" /\ N[12] = "l1c" /\ N[13] = "p0" /\ N[14] = "p1" /\ N[15] = "p2"
    OBVIOUS
  <2>2. DOMAIN args = {N[j] : j \in DOMAIN N}
    BY <1>2 DEF Args, Names
  <2> HIDE DEF N
  <2>3. \A j \in 1..15 : N[j] \in DOMAIN args
    BY <2>1, <2>2
  <2>4. 1 \in 1..15 /\ 2 \in 1..15 /\ 3 \in 1..15 /\ 4 \in 1..15 /\ 5 \in 1..15
        /\ 6 \in 1..15 /\ 7 \in 1..15 /\ 8 \in 1..15 /\ 9 \in 1..15 /\ 10 \in 1..15
        /\ 11 \in 1..15 /\ 12 \in 1..15 /\ 13 \in 1..15 /\ 14 \in 1..15 /\ 15 \in 1..15
    OBVIOUS
  <2> QED  BY <1>2, <2>1, <2>3, <2>4
<1> QED  BY <1>1, <1>2 DEF Args

\* The argument lines load a register from an argument the caller passed.
LEMMA ArgLines ==
  ASSUME Args, NEW k \in 1..Len(Code), Code[k].op = "arg"
  PROVE  /\ Code[k].reg \in Registers /\ Code[k].name \in DOMAIN args
         /\ which = "three" /\ k = 6 => Code[k].reg = "BX"
         /\ which = "three" => k \notin {2, 3, 4, 5, 7, 8, 18}
         /\ which = "three" /\ k = 1 => Code[k].reg = "AX" /\ Code[k].name = "x"
<1>1. CASE which = "two"
  <2>1. k \in 1..23 /\ Code = TwoPass
    BY <1>1, CodeLength, TwoText
  <2>2. k \in {1, 5, 7, 9, 12, 16, 18, 20, 22}
    BY <1>1, <2>1, TwoText
  <2>3. /\ k = 1 => Code[k] = L("arg", "cc", "AX", 0)
        /\ k = 5 => Code[k] = L("arg", "tw", "AX", 0)
        /\ k = 7 => Code[k] = L("arg", "k0", "AX", 0)
        /\ k = 9 => Code[k] = L("arg", "ido", "AX", 0)
        /\ k = 12 => Code[k] = L("arg", "pass", "AX", 0)
        /\ k = 16 => Code[k] = L("arg", "ch", "AX", 0)
        /\ k = 18 => Code[k] = L("arg", "k1", "AX", 0)
        /\ k = 20 => Code[k] = L("arg", "l1", "AX", 0)
        /\ k = 22 => Code[k] = L("arg", "last", "AX", 0)
    BY <2>1, TwoPassLines
  <2>4. /\ Code[k].reg = "AX"
        /\ Code[k].name \in {"cc", "ch", "tw", "k0", "k1", "ido", "l1", "pass", "last"}
    BY <2>2, <2>3 DEF L
  <2> QED  BY <1>1, <2>4, ArgNames DEF Registers
<1>2. CASE which = "three"
  <2>1. k \in 1..41 /\ Code = ThreePass
    BY <1>2, CodeLength, ThreeText
  <2>2. k \in {1, 6, 9, 11, 13, 16, 22, 24, 26, 28, 30, 34, 36, 38, 40}
    BY <1>2, <2>1, ThreeText
  <2>3. /\ k = 1 => Code[k] = L("arg", "x", "AX", 0)
        /\ k = 6 => Code[k] = L("arg", "cc", "BX", 0)
        /\ k = 9 => Code[k] = L("arg", "tw0", "BX", 0)
        /\ k = 11 => Code[k] = L("arg", "k0", "BX", 0)
        /\ k = 13 => Code[k] = L("arg", "ido0", "BX", 0)
        /\ k = 16 => Code[k] = L("arg", "p0", "AX", 0)
        /\ k = 22 => Code[k] = L("arg", "tw1", "AX", 0)
        /\ k = 24 => Code[k] = L("arg", "k1", "AX", 0)
        /\ k = 26 => Code[k] = L("arg", "ido1", "AX", 0)
        /\ k = 28 => Code[k] = L("arg", "l1b", "AX", 0)
        /\ k = 30 => Code[k] = L("arg", "p1", "AX", 0)
        /\ k = 34 => Code[k] = L("arg", "ch", "AX", 0)
        /\ k = 36 => Code[k] = L("arg", "k2", "AX", 0)
        /\ k = 38 => Code[k] = L("arg", "l1c", "AX", 0)
        /\ k = 40 => Code[k] = L("arg", "p2", "AX", 0)
    BY <2>1, ThreePassLines
  <2>4. /\ Code[k].reg \in {"AX", "BX"} /\ (k = 6 => Code[k].reg = "BX")
        /\ Code[k].name \in
              {"cc", "ch", "x", "tw0", "tw1", "k0", "k1", "k2", "ido0", "ido1",
               "l1b", "l1c", "p0", "p1", "p2"}
        /\ k = 1 => Code[k].reg = "AX" /\ Code[k].name = "x"
    BY <2>2, <2>3 DEF L
  <2>5. {"cc", "ch", "x", "tw0", "tw1", "k0", "k1", "k2", "ido0", "ido1",
         "l1b", "l1c", "p0", "p1", "p2"} \subseteq DOMAIN args
    BY <1>2, ArgNames
  <2>6. Code[k].name \in DOMAIN args /\ Code[k].reg \in Registers
    BY <2>4, <2>5 DEF Registers
  <2> QED  BY <1>2, <2>2, <2>4, <2>6, SMTT(20)
<1> QED  BY <1>1, <1>2 DEF Args

\* The other lines that set a register.
LEMMA RegLines ==
  ASSUME Args, NEW k \in 1..Len(Code)
  PROVE  /\ Code[k].op = "buf" => Code[k].reg = "AX" /\ (which = "three" => k \in {3, 20, 32})
         /\ Code[k].op = "add" =>
              which = "three" /\ k = 4 /\ Code[k].reg = "AX" /\ Code[k].num = 16 * max
         /\ Code[k].op = "load" =>
              which = "three" /\ k = 18 /\ Code[k].reg = "AX" /\ Code[k].num = 48
         /\ Code[k].op = "jnz" =>
              which = "three" /\ k = 2 /\ Code[k].reg = "AX" /\ Code[k].num = 2
<1> DEFINE op == Code[k].op
<1>1. CASE which = "two"
  <2>1. k \in 1..23 /\ Code = TwoPass
    BY <1>1, CodeLength, TwoText
  <2>2. (op = "buf" <=> k \in {3, 14}) /\ op # "add" /\ op # "load" /\ op # "jnz"
    BY <1>1, <2>1, TwoText
  <2>3. (k = 3 => Code[k].reg = "AX") /\ (k = 14 => Code[k].reg = "AX")
    BY <2>1, TwoPassLines DEF L
  <2> QED  BY <1>1, <2>2, <2>3
<1>2. CASE which = "three"
  <2>1. k \in 1..41 /\ Code = ThreePass
    BY <1>2, CodeLength, ThreeText
  <2>2. /\ op = "buf" <=> k \in {3, 20, 32}
        /\ op = "add" <=> k \in {4}
        /\ op = "load" <=> k \in {18}
        /\ op = "jnz" <=> k \in {2}
    BY <1>2, <2>1, ThreeText
  <2>3. /\ k = 3 => Code[k].reg = "AX"
        /\ k = 20 => Code[k].reg = "AX"
        /\ k = 32 => Code[k].reg = "AX"
        /\ k = 4 => Code[k].reg = "AX" /\ Code[k].num = 16 * max
        /\ k = 18 => Code[k].reg = "AX" /\ Code[k].num = 48
        /\ k = 2 => Code[k].reg = "AX" /\ Code[k].num = 2
    BY <2>1, ThreePassLines DEF L
  <2> QED  BY <1>2, <2>2, <2>3
<1> QED  BY <1>1, <1>2 DEF Args

\* A line that only sets registers, or jumps, keeps all but the registers.
LEMMA QuietRest ==
  ASSUME Rest, SameFrame, kernel.phase = "none", mem' = mem, kernel' = kernel,
         ip <= Len(Code), Code[ip].op \notin {"store", "imm", "call"},
         ip' = ip + 1 \/ (ip = 2 /\ which = "three" /\ ip' = 5)
  PROVE  Rest'
<1>1. ip \in 1..Len(Code) /\ ip \in 1..41 /\ Len(Code) \in {23, 41} /\ (which = "three" => Len(Code) = 41)
  BY CodeLength DEF Rest
<1>2. ip \notin Calls
  <2> DEFINE op == Code[ip].op
  <2>1. which = "two" => (op = "call" <=> ip \in {13, 23})
    BY <1>1, CodeLength, TwoText DEF Rest
  <2>2. which = "three" => (op = "call" <=> ip \in {17, 31, 41})
    BY <1>1, CodeLength, ThreeText DEF Rest
  <2>3. op # "call"
    OBVIOUS
  <2> HIDE DEF op
  <2> QED  BY <2>1, <2>2, <2>3 DEF Calls, Rest, Args
<1>3. Args' /\ Placed' /\ Code' = Code
  BY FrameKept DEF Rest
<1>4. ip' \in 1..(Len(Code) + 1)
  <2> DEFINE N == Len(Code)
  <2>1. N \in Nat /\ ip \in 1..N /\ (which = "three" => N = 41)
    BY <1>1
  <2> HIDE DEF N
  <2>2. ip' \in 1..(N + 1)
    BY <2>1
  <2> QED  BY <2>2 DEF N
<1>5. Slots'
  BY <1>1, QuietSlots DEF Rest
<1>6. \A c \in Calls \cup {100} : Before(c)' = Before(c)
  BY <1>1, <1>2, QuietBefore DEF Rest
<1>7. Data'
  BY <1>6, DataKept DEF Rest, Data, PointsThere
<1>8. CallerFrameIntact'
  BY CallerKept DEF Rest
<1>9. Kernel'
  BY DEF Rest, Kernel, NoKernel
<1>10. (DOMAIN mem = Memory)'
  BY DEF Rest, Memory, StackWords, Area
<1> QED  BY <1>3, <1>4, <1>5, <1>7, <1>8, <1>9, <1>10 DEF Rest

LEMMA LoadArgStep ==
  ASSUME Rest, Loaded, DOMAIN regs = Registers, LoadArg
  PROVE  Rest' /\ Loaded' /\ (DOMAIN regs = Registers)'
<1> DEFINE k == ip
           name == Code[ip].name
           reg == Code[ip].reg
<1>1. /\ kernel.phase = "none" /\ ip <= Len(Code) /\ Code[ip].op = "arg" /\ ip' = ip + 1
      /\ SameFrame /\ mem' = mem /\ kernel' = kernel
      /\ regs' = [regs EXCEPT ![reg] = mem[FP(sp, which, name)]]
  BY DEF LoadArg, Running, SetReg, Line, SameFrame
<1>2. Rest'
  BY <1>1, QuietRest
<1>3. ip \in 1..Len(Code) /\ ip \in 1..41
  BY <1>1, CodeLength DEF Rest
<1>4. /\ reg \in Registers /\ name \in DOMAIN args
      /\ which = "three" /\ ip = 6 => reg = "BX"
      /\ which = "three" => ip \notin {2, 3, 4, 5, 7, 8, 18}
  BY <1>1, <1>3, ArgLines DEF Rest
<1>5. regs'[reg] = args[name] /\ DOMAIN regs' = Registers
  BY <1>1, <1>4 DEF Rest, CallerFrameIntact
<1>6. Code' = Code /\ args' = args /\ which' = which /\ B' = B /\ X' = X
  BY <1>1, FrameKept DEF SameFrame
<1>7. Code[ip' - 1] = Code[ip]
  BY <1>1, <1>3
<1>8. ASSUME which = "three"
      PROVE  /\ ip' \in {3, 4} => args["x"] = AddrOf(0)
             /\ ip' \in 5..8 => regs'["AX"] = AddrOf(X)
             /\ ip' # 19
  <2>1. ip' \notin {3, 4, 5, 6, 8, 9, 19}
    BY <1>1, <1>3, <1>4, <1>8
  <2>2. ip' = 7 => regs'["AX"] = AddrOf(X)
    <3>1. SUFFICES ASSUME ip' = 7 PROVE regs'["AX"] = AddrOf(X)
      OBVIOUS
    <3>2. ip = 6
      BY <1>1, <1>3, <3>1
    <3>3. regs["AX"] = AddrOf(X)
      BY <1>1, <1>8, <3>2 DEF Loaded
    <3> QED  BY <1>1, <1>4, <1>8, <3>2, <3>3
  <2> QED  BY <1>1, <1>3, <2>1, <2>2
<1>9. Loaded'
  BY <1>1, <1>5, <1>6, <1>7, <1>8 DEF Loaded
<1> QED  BY <1>2, <1>5, <1>9

LEMMA LoadBufStep ==
  ASSUME Rest, Loaded, DOMAIN regs = Registers, LoadBuf
  PROVE  Rest' /\ Loaded' /\ (DOMAIN regs = Registers)'
<1> DEFINE reg == Code[ip].reg
<1>1. /\ kernel.phase = "none" /\ ip <= Len(Code) /\ Code[ip].op = "buf" /\ ip' = ip + 1
      /\ SameFrame /\ mem' = mem /\ kernel' = kernel
      /\ regs' = [regs EXCEPT ![reg] = AddrOf(B)]
  BY DEF LoadBuf, Running, SetReg, Line, SameFrame, B
<1>2. Rest'
  BY <1>1, QuietRest
<1>3. ip \in 1..Len(Code) /\ ip \in 1..41
  BY <1>1, CodeLength DEF Rest
<1>4. reg = "AX" /\ (which = "three" => ip \in {3, 20, 32})
  BY <1>1, <1>3, RegLines DEF Rest
<1>5. regs'["AX"] = AddrOf(B) /\ DOMAIN regs' = Registers
  BY <1>1, <1>4 DEF Registers
<1>6. Code' = Code /\ args' = args /\ which' = which /\ B' = B /\ X' = X
  BY <1>1, FrameKept DEF SameFrame
<1>7. Code[ip' - 1] = Code[ip]
  BY <1>1, <1>3
<1>8. ASSUME which = "three"
      PROVE  /\ ip' \in {3, 4} => args["x"] = AddrOf(0)
             /\ ip' \notin 5..8 /\ ip' # 19
  <2>1. ip = 3 => args["x"] = AddrOf(0)
    BY <1>1, <1>8 DEF Loaded
  <2>2. ip' \in {4, 21, 33}
    BY <1>1, <1>3, <1>4, <1>8
  <2> QED  BY <1>1, <1>3, <2>1, <2>2
<1>9. Loaded'
  BY <1>1, <1>5, <1>6, <1>7, <1>8 DEF Loaded
<1> QED  BY <1>2, <1>5, <1>9

LEMMA AddStep ==
  ASSUME Rest, Loaded, DOMAIN regs = Registers, AddToReg
  PROVE  Rest' /\ Loaded' /\ (DOMAIN regs = Registers)'
<1>1. /\ kernel.phase = "none" /\ ip <= Len(Code) /\ Code[ip].op = "add" /\ ip' = ip + 1
      /\ SameFrame /\ mem' = mem /\ kernel' = kernel
      /\ regs' = [regs EXCEPT ![Code[ip].reg] = [regs[Code[ip].reg] EXCEPT !.num = @ + Code[ip].num]]
  BY DEF AddToReg, Running, SetReg, Line, SameFrame
<1>2. Rest'
  BY <1>1, QuietRest
<1>3. ip \in 1..Len(Code)
  BY <1>1 DEF Rest
<1>4. which = "three" /\ ip = 4 /\ Code[ip].reg = "AX" /\ Code[ip].num = 16 * max
  BY <1>1, <1>3, RegLines DEF Rest
<1>5. args["x"] = AddrOf(0) /\ regs["AX"] = AddrOf(B)
  <2>1. Code[3].op = "buf"
    BY <1>4, ThreeText
  <2> QED  BY <1>1, <1>4, <2>1 DEF Loaded
<1>6. regs'["AX"] = AddrOf(X) /\ DOMAIN regs' = Registers
  BY <1>1, <1>4, <1>5 DEF Registers, AddrOf, V, X
<1>7. /\ Code' = Code /\ args' = args /\ which' = which /\ B' = B /\ X' = X
      /\ ip' = 5 /\ Code[ip' - 1] = Code[ip]
  BY <1>1, <1>4, FrameKept DEF SameFrame
<1>8. Loaded'
  BY <1>1, <1>6, <1>7 DEF Loaded
<1> QED  BY <1>2, <1>6, <1>8

LEMMA LoadWordStep ==
  ASSUME Rest, Loaded, DOMAIN regs = Registers, LoadWord
  PROVE  Rest' /\ Loaded' /\ (DOMAIN regs = Registers)'
<1>1. /\ kernel.phase = "none" /\ ip <= Len(Code) /\ Code[ip].op = "load" /\ ip' = ip + 1
      /\ SameFrame /\ mem' = mem /\ kernel' = kernel
      /\ regs' = [regs EXCEPT ![Code[ip].reg] = mem[sp + Code[ip].num]]
  BY DEF LoadWord, Running, SetReg, Line, SameFrame
<1>2. Rest'
  BY <1>1, QuietRest
<1>3. ip \in 1..Len(Code)
  BY <1>1 DEF Rest
<1>4. which = "three" /\ ip = 18 /\ Code[ip].reg = "AX" /\ Code[ip].num = 48
  BY <1>1, <1>3, RegLines DEF Rest
<1>5. XKept(mem[sp + 48])
  BY <1>4 DEF Rest, Slots
<1>6. regs'["AX"] = mem[sp + 48] /\ DOMAIN regs' = Registers
  BY <1>1, <1>4 DEF Registers
<1>7. /\ Code' = Code /\ args' = args /\ which' = which
      /\ ip' = 19 /\ Code[ip' - 1] = Code[ip]
  BY <1>1, <1>4, FrameKept DEF SameFrame
<1>8. XKept(regs["AX"])'
  BY <1>1, <1>5, <1>6, FrameKept DEF XKept
<1>9. Loaded'
  BY <1>1, <1>7, <1>8 DEF Loaded
<1> QED  BY <1>2, <1>6, <1>9

\* With x passed, the jump goes past the lines that choose the second buffer.
LEMMA SkipStep ==
  ASSUME Rest, Loaded, DOMAIN regs = Registers, SkipIfNotNil
  PROVE  Rest' /\ Loaded' /\ (DOMAIN regs = Registers)'
<1>1. /\ kernel.phase = "none" /\ ip <= Len(Code) /\ Code[ip].op = "jnz"
      /\ SameFrame /\ mem' = mem /\ kernel' = kernel /\ regs' = regs
      /\ ip' = IF regs[Code[ip].reg] # AddrOf(0) THEN ip + 1 + Code[ip].num ELSE ip + 1
  BY DEF SkipIfNotNil, Line, SameFrame
<1>2. ip \in 1..Len(Code)
  BY <1>1 DEF Rest
<1>3. which = "three" /\ ip = 2 /\ Code[ip].reg = "AX" /\ Code[ip].num = 2
  BY <1>1, <1>2, RegLines DEF Rest
<1>4. regs["AX"] = args["x"]
  <2>1. 1 \in 1..Len(Code) /\ Code[1].op = "arg"
    <3>1. Len(Code) = 41 /\ Code = ThreePass
      BY <1>3, ThreeText
    <3>2. 1 \in 1..41
      OBVIOUS
    <3> QED  BY <3>1, <3>2, ThreePassLines DEF L
  <2>2. Code[1].reg = "AX" /\ Code[1].name = "x"
    BY <1>3, <2>1, ArgLines DEF Rest
  <2> QED  BY <1>1, <1>3, <2>1, <2>2 DEF Loaded
<1>5. ip' = IF args["x"] # AddrOf(0) THEN 5 ELSE 3
  BY <1>1, <1>3, <1>4
<1>6. ip' = ip + 1 \/ (ip = 2 /\ which = "three" /\ ip' = 5)
  BY <1>3, <1>5
<1>7. Rest'
  BY <1>1, <1>6, QuietRest
<1>8. Code' = Code /\ args' = args /\ which' = which /\ B' = B /\ X' = X
  BY <1>1, FrameKept DEF SameFrame
<1>9. /\ Code[2].op \notin {"arg", "buf"}
      /\ Code[4].op \notin {"arg", "buf"}
  BY <1>3, ThreeText
<1>10. args["x"] # AddrOf(0) => args["x"] = AddrOf(X)
  BY <1>3 DEF Rest, Args, X, AddrOf, V
<1>11. Loaded'
  <2>1. CASE args["x"] # AddrOf(0)
    <3>1. ip' = 5 /\ regs'["AX"] = AddrOf(X)
      BY <1>1, <1>4, <1>5, <1>10, <2>1
    <3> QED  BY <1>8, <1>9, <3>1 DEF Loaded
  <2>2. CASE args["x"] = AddrOf(0)
    <3>1. ip' = 3
      BY <1>5, <2>2
    <3> QED  BY <1>8, <1>9, <2>2, <3>1 DEF Loaded
  <2> QED  BY <2>1, <2>2
<1> QED  BY <1>1, <1>7, <1>11

-----------------------------------------------------------------------------
(*****************************************************************************)
(* The lines that store a word in an argument slot.                          *)
(*****************************************************************************)

\* The word at off of the frame has been written.
Wrote(off, v) == mem' = [mem EXCEPT ![sp + off] = v]

\* What each store writes, and where.
StoresTwo ==
  \/ ip = 2 /\ Wrote(0, AddrOf(CC))
  \/ ip = 4 /\ Wrote(8, AddrOf(B))
  \/ ip = 6 /\ Wrote(16, args["tw"])
  \/ ip = 8 /\ Wrote(24, args["k0"])
  \/ ip = 10 /\ Wrote(32, args["ido"])
  \/ ip = 11 /\ Wrote(40, IntOf(1))
  \/ ip = 15 /\ Wrote(0, AddrOf(B))
  \/ ip = 17 /\ Wrote(8, args["ch"])
  \/ ip = 19 /\ Wrote(16, args["k1"])
  \/ ip = 21 /\ Wrote(24, args["l1"])

StoresThree ==
  \/ ip = 5 /\ Wrote(48, AddrOf(X))
  \/ ip = 7 /\ Wrote(0, AddrOf(CC))
  \/ ip = 8 /\ Wrote(8, AddrOf(X))
  \/ ip = 10 /\ Wrote(16, args["tw0"])
  \/ ip = 12 /\ Wrote(24, args["k0"])
  \/ ip = 14 /\ Wrote(32, args["ido0"])
  \/ ip = 15 /\ Wrote(40, IntOf(1))
  \/ ip = 19 /\ \E v : XKept(v) /\ Wrote(0, v)
  \/ ip = 21 /\ Wrote(8, AddrOf(B))
  \/ ip = 23 /\ Wrote(16, args["tw1"])
  \/ ip = 25 /\ Wrote(24, args["k1"])
  \/ ip = 27 /\ Wrote(32, args["ido1"])
  \/ ip = 29 /\ Wrote(40, args["l1b"])
  \/ ip = 33 /\ Wrote(0, AddrOf(B))
  \/ ip = 35 /\ Wrote(8, args["ch"])
  \/ ip = 37 /\ Wrote(16, args["k2"])
  \/ ip = 39 /\ Wrote(24, args["l1c"])

\* What a store of TwoPass writes.
LEMMA StoresTwoStep ==
  ASSUME Args, Loaded, which = "two", ip \in 1..Len(Code), kernel.phase = "none",
         \/ Code[ip].op = "store" /\ mem' = [mem EXCEPT ![sp + Code[ip].num] = regs[Code[ip].reg]]
         \/ Code[ip].op = "imm" /\ mem' = [mem EXCEPT ![sp + Code[ip].num] = IntOf(1)]
  PROVE  StoresTwo
<1> DEFINE op == Code[ip].op
           off == Code[ip].num
           v == regs[Code[ip].reg]
<1>1. ip \in 1..23 /\ Code = TwoPass
  BY CodeLength, TwoText
<1>2. /\ op = "store" <=> ip \in {2, 4, 6, 8, 10, 15, 17, 19, 21}
      /\ op = "imm" <=> ip \in {11}
  BY <1>1, TwoText
<1>3. CASE op = "imm"
  <2>1. ip = 11 /\ Code[ip] = L("imm", "none", "none", 40)
    BY <1>1, <1>2, <1>3, TwoPassLines
  <2> QED  BY <1>3, <2>1 DEF StoresTwo, Wrote, L
<1>4. CASE op = "store"
  <2>1. Wrote(off, v)
    BY <1>4 DEF Wrote
  <2>2. ip \in {2, 4, 6, 8, 10, 15, 17, 19, 21}
    BY <1>2, <1>4
  <2>3. /\ ip = 2 => off = 0 /\ v = AddrOf(CC)
        /\ ip = 4 => off = 8 /\ v = AddrOf(B)
        /\ ip = 6 => off = 16 /\ v = args["tw"]
        /\ ip = 8 => off = 24 /\ v = args["k0"]
        /\ ip = 10 => off = 32 /\ v = args["ido"]
        /\ ip = 15 => off = 0 /\ v = AddrOf(B)
        /\ ip = 17 => off = 8 /\ v = args["ch"]
        /\ ip = 19 => off = 16 /\ v = args["k1"]
        /\ ip = 21 => off = 24 /\ v = args["l1"]
    <3>1. /\ ip > 1 => (TwoPass[ip - 1].op = "arg" => regs[TwoPass[ip - 1].reg] = args[TwoPass[ip - 1].name])
          /\ ip > 1 => (TwoPass[ip - 1].op = "buf" => regs["AX"] = AddrOf(B))
      BY <1>1 DEF Loaded
    <3>2. args["cc"] = AddrOf(CC)
      BY DEF Args
    <3>3. ASSUME ip = 2 PROVE off = 0 /\ v = AddrOf(CC)
      BY <1>1, <3>1, <3>2, <3>3, TwoPassLines DEF L
    <3>4. ASSUME ip = 4 PROVE off = 8 /\ v = AddrOf(B)
      BY <1>1, <3>1, <3>4, TwoPassLines DEF L
    <3>5. ASSUME ip = 6 PROVE off = 16 /\ v = args["tw"]
      BY <1>1, <3>1, <3>5, TwoPassLines DEF L
    <3>6. ASSUME ip = 8 PROVE off = 24 /\ v = args["k0"]
      BY <1>1, <3>1, <3>6, TwoPassLines DEF L
    <3>7. ASSUME ip = 10 PROVE off = 32 /\ v = args["ido"]
      BY <1>1, <3>1, <3>7, TwoPassLines DEF L
    <3>8. ASSUME ip = 15 PROVE off = 0 /\ v = AddrOf(B)
      BY <1>1, <3>1, <3>8, TwoPassLines DEF L
    <3>9. ASSUME ip = 17 PROVE off = 8 /\ v = args["ch"]
      BY <1>1, <3>1, <3>9, TwoPassLines DEF L
    <3>10. ASSUME ip = 19 PROVE off = 16 /\ v = args["k1"]
      BY <1>1, <3>1, <3>10, TwoPassLines DEF L
    <3>11. ASSUME ip = 21 PROVE off = 24 /\ v = args["l1"]
      BY <1>1, <3>1, <3>11, TwoPassLines DEF L
    <3> QED  BY <3>3, <3>4, <3>5, <3>6, <3>7, <3>8, <3>9, <3>10, <3>11
  <2> HIDE DEF off, v
  <2> QED  BY <2>1, <2>2, <2>3 DEF StoresTwo
<1> QED  BY <1>3, <1>4

\* What a store of ThreePass writes.
LEMMA StoresThreeStep ==
  ASSUME Args, Loaded, which = "three", ip \in 1..Len(Code), kernel.phase = "none",
         \/ Code[ip].op = "store" /\ mem' = [mem EXCEPT ![sp + Code[ip].num] = regs[Code[ip].reg]]
         \/ Code[ip].op = "imm" /\ mem' = [mem EXCEPT ![sp + Code[ip].num] = IntOf(1)]
  PROVE  StoresThree
<1> DEFINE op == Code[ip].op
           off == Code[ip].num
           v == regs[Code[ip].reg]
<1>1. ip \in 1..41 /\ Code = ThreePass
  BY CodeLength, ThreeText
<1>2. /\ op = "store" <=> ip \in {5, 7, 8, 10, 12, 14, 19, 21, 23, 25, 27, 29, 33, 35, 37, 39}
      /\ op = "imm" <=> ip \in {15}
  BY <1>1, ThreeText
<1>3. CASE op = "imm"
  <2>1. ip = 15 /\ Code[ip] = L("imm", "none", "none", 40)
    BY <1>1, <1>2, <1>3, ThreePassLines
  <2> QED  BY <1>3, <2>1 DEF StoresThree, Wrote, L
<1>4. CASE op = "store"
  <2>1. Wrote(off, v)
    BY <1>4 DEF Wrote
  <2>2. ip \in {5, 7, 8, 10, 12, 14, 19, 21, 23, 25, 27, 29, 33, 35, 37, 39}
    BY <1>2, <1>4
  <2>3. /\ ip = 5 => off = 48 /\ v = AddrOf(X)
        /\ ip = 7 => off = 0 /\ v = AddrOf(CC)
        /\ ip = 8 => off = 8 /\ v = AddrOf(X)
        /\ ip = 10 => off = 16 /\ v = args["tw0"]
        /\ ip = 12 => off = 24 /\ v = args["k0"]
        /\ ip = 14 => off = 32 /\ v = args["ido0"]
        /\ ip = 19 => off = 0 /\ XKept(v)
        /\ ip = 21 => off = 8 /\ v = AddrOf(B)
        /\ ip = 23 => off = 16 /\ v = args["tw1"]
        /\ ip = 25 => off = 24 /\ v = args["k1"]
        /\ ip = 27 => off = 32 /\ v = args["ido1"]
        /\ ip = 29 => off = 40 /\ v = args["l1b"]
        /\ ip = 33 => off = 0 /\ v = AddrOf(B)
        /\ ip = 35 => off = 8 /\ v = args["ch"]
        /\ ip = 37 => off = 16 /\ v = args["k2"]
        /\ ip = 39 => off = 24 /\ v = args["l1c"]
    <3>1. /\ ip > 1 => (ThreePass[ip - 1].op = "arg" => regs[ThreePass[ip - 1].reg] = args[ThreePass[ip - 1].name])
          /\ ip > 1 => (ThreePass[ip - 1].op = "buf" => regs["AX"] = AddrOf(B))
          /\ ip \in 5..8 => regs["AX"] = AddrOf(X)
          /\ ip = 19 => XKept(regs["AX"])
      BY <1>1 DEF Loaded
    <3>2. args["cc"] = AddrOf(CC)
      BY DEF Args
    <3>3. ASSUME ip = 5 PROVE off = 48 /\ v = AddrOf(X)
      BY <1>1, <3>1, <3>3, ThreePassLines DEF L
    <3>4. ASSUME ip = 7 PROVE off = 0 /\ v = AddrOf(CC)
      BY <1>1, <3>1, <3>2, <3>4, ThreePassLines DEF L
    <3>5. ASSUME ip = 8 PROVE off = 8 /\ v = AddrOf(X)
      BY <1>1, <3>1, <3>5, ThreePassLines DEF L
    <3>6. ASSUME ip = 10 PROVE off = 16 /\ v = args["tw0"]
      BY <1>1, <3>1, <3>6, ThreePassLines DEF L
    <3>7. ASSUME ip = 12 PROVE off = 24 /\ v = args["k0"]
      BY <1>1, <3>1, <3>7, ThreePassLines DEF L
    <3>8. ASSUME ip = 14 PROVE off = 32 /\ v = args["ido0"]
      BY <1>1, <3>1, <3>8, ThreePassLines DEF L
    <3>9. ASSUME ip = 19 PROVE off = 0 /\ XKept(v)
      BY <1>1, <3>1, <3>9, ThreePassLines DEF L
    <3>10. ASSUME ip = 21 PROVE off = 8 /\ v = AddrOf(B)
      BY <1>1, <3>1, <3>10, ThreePassLines DEF L
    <3>11. ASSUME ip = 23 PROVE off = 16 /\ v = args["tw1"]
      BY <1>1, <3>1, <3>11, ThreePassLines DEF L
    <3>12. ASSUME ip = 25 PROVE off = 24 /\ v = args["k1"]
      BY <1>1, <3>1, <3>12, ThreePassLines DEF L
    <3>13. ASSUME ip = 27 PROVE off = 32 /\ v = args["ido1"]
      BY <1>1, <3>1, <3>13, ThreePassLines DEF L
    <3>14. ASSUME ip = 29 PROVE off = 40 /\ v = args["l1b"]
      BY <1>1, <3>1, <3>14, ThreePassLines DEF L
    <3>15. ASSUME ip = 33 PROVE off = 0 /\ v = AddrOf(B)
      BY <1>1, <3>1, <3>15, ThreePassLines DEF L
    <3>16. ASSUME ip = 35 PROVE off = 8 /\ v = args["ch"]
      BY <1>1, <3>1, <3>16, ThreePassLines DEF L
    <3>17. ASSUME ip = 37 PROVE off = 16 /\ v = args["k2"]
      BY <1>1, <3>1, <3>17, ThreePassLines DEF L
    <3>18. ASSUME ip = 39 PROVE off = 24 /\ v = args["l1c"]
      BY <1>1, <3>1, <3>18, ThreePassLines DEF L
    <3> QED  BY <3>3, <3>4, <3>5, <3>6, <3>7, <3>8, <3>9, <3>10, <3>11, <3>12,
                <3>13, <3>14, <3>15, <3>16, <3>17, <3>18
  <2> HIDE DEF off, v
  <2>4. CASE ip = 19
    <3>1. XKept(v) /\ Wrote(0, v)
      BY <2>1, <2>3, <2>4
    <3>2. \E u : XKept(u) /\ Wrote(0, u)
      BY <3>1
    <3> QED  BY <2>4, <3>2 DEF StoresThree
  <2>5. CASE ip # 19
    BY <2>1, <2>2, <2>3, <2>5 DEF StoresThree
  <2> QED  BY <2>4, <2>5
<1> QED  BY <1>3, <1>4

\* A store to one slot leaves the others alone.
Slotted(o, u) ==
  /\ mem'[sp + 0] = IF o = 0 THEN u ELSE mem[sp + 0]
  /\ mem'[sp + 8] = IF o = 8 THEN u ELSE mem[sp + 8]
  /\ mem'[sp + 16] = IF o = 16 THEN u ELSE mem[sp + 16]
  /\ mem'[sp + 24] = IF o = 24 THEN u ELSE mem[sp + 24]
  /\ mem'[sp + 32] = IF o = 32 THEN u ELSE mem[sp + 32]
  /\ mem'[sp + 40] = IF o = 40 THEN u ELSE mem[sp + 40]
  /\ mem'[sp + 48] = IF o = 48 THEN u ELSE mem[sp + 48]

\* A store keeps every slot but its own, and fills that.
LEMMA SlotWrite ==
  ASSUME Args, Placed, DOMAIN mem = Memory,
         NEW o \in {0, 8, 16, 24, 32, 40, 48}, NEW u, Wrote(o, u)
  PROVE  /\ Slotted(o, u)
         /\ \A w \in Memory : w # sp + o => mem'[w] = mem[w]
         /\ DOMAIN mem' = Memory
<1>1. /\ sp \in Nat
      /\ \A off \in {0, 8, 16, 24, 32, 40, 48} : sp + off \in Memory
  BY SlotPlace
<1>2. sp + o \in Memory
  BY <1>1
<1>3. \A off \in {0, 8, 16, 24, 32, 40, 48} : off # o => sp + off # sp + o
  BY <1>1
<1>4. mem' = [mem EXCEPT ![sp + o] = u]
  BY DEF Wrote
<1> HIDE DEF Memory
<1>5. mem'[sp + o] = u /\ DOMAIN mem' = Memory
  BY <1>2, <1>4
<1>6. \A w \in Memory : w # sp + o => mem'[w] = mem[w]
  BY <1>4
<1>7. ASSUME NEW off \in {0, 8, 16, 24, 32, 40, 48}, off # o
      PROVE  mem'[sp + off] = mem[sp + off]
  <2>1. sp + off \in Memory
    BY <1>1
  <2> QED  BY <1>3, <1>6, <1>7, <2>1
<1> QED  BY <1>5, <1>6, <1>7 DEF Slotted

\* The slots of TwoPass after a store,
LEMMA SlotsTwo ==
  ASSUME Args, Placed, DOMAIN mem = Memory, Slots, SameFrame, which = "two",
         StoresTwo, ip' = ip + 1, kernel.phase = "none", kernel' = kernel
  PROVE  /\ HeldNext(0, AddrOf(CC), 2, 13)
         /\ HeldNext(8, AddrOf(B), 4, 13)
         /\ HeldNext(16, args["tw"], 6, 13)
         /\ HeldNext(24, args["k0"], 8, 13)
         /\ HeldNext(32, args["ido"], 10, 13)
         /\ HeldNext(40, IntOf(1), 11, 13)
         /\ HeldNext(0, AddrOf(B), 15, 23)
         /\ HeldNext(8, args["ch"], 17, 23)
         /\ HeldNext(16, args["k1"], 19, 23)
         /\ HeldNext(24, args["l1"], 21, 23)
<1>1. /\ Held(0, AddrOf(CC), 2, 13)
      /\ Held(8, AddrOf(B), 4, 13)
      /\ Held(16, args["tw"], 6, 13)
      /\ Held(24, args["k0"], 8, 13)
      /\ Held(32, args["ido"], 10, 13)
      /\ Held(40, IntOf(1), 11, 13)
      /\ Held(0, AddrOf(B), 15, 23)
      /\ Held(8, args["ch"], 17, 23)
      /\ Held(16, args["k1"], 19, 23)
      /\ Held(24, args["l1"], 21, 23)
  BY DEF Slots
<1>2. \A o \in {0, 8, 16, 24, 32, 40, 48} : \A u : Wrote(o, u) => Slotted(o, u)
  BY SlotWrite
<1>3. CASE ip = 2 /\ Wrote(0, AddrOf(CC))
  <2>1. Slotted(0, AddrOf(CC))
    BY <1>2, <1>3
  <2> QED  BY <1>1, <1>3, <2>1 DEF Slotted, Held, HeldNext
<1>4. CASE ip = 4 /\ Wrote(8, AddrOf(B))
  <2>1. Slotted(8, AddrOf(B))
    BY <1>2, <1>4
  <2> QED  BY <1>1, <1>4, <2>1 DEF Slotted, Held, HeldNext
<1>5. CASE ip = 6 /\ Wrote(16, args["tw"])
  <2>1. Slotted(16, args["tw"])
    BY <1>2, <1>5
  <2> QED  BY <1>1, <1>5, <2>1 DEF Slotted, Held, HeldNext
<1>6. CASE ip = 8 /\ Wrote(24, args["k0"])
  <2>1. Slotted(24, args["k0"])
    BY <1>2, <1>6
  <2> QED  BY <1>1, <1>6, <2>1 DEF Slotted, Held, HeldNext
<1>7. CASE ip = 10 /\ Wrote(32, args["ido"])
  <2>1. Slotted(32, args["ido"])
    BY <1>2, <1>7
  <2> QED  BY <1>1, <1>7, <2>1 DEF Slotted, Held, HeldNext
<1>8. CASE ip = 11 /\ Wrote(40, IntOf(1))
  <2>1. Slotted(40, IntOf(1))
    BY <1>2, <1>8
  <2> QED  BY <1>1, <1>8, <2>1 DEF Slotted, Held, HeldNext
<1>9. CASE ip = 15 /\ Wrote(0, AddrOf(B))
  <2>1. Slotted(0, AddrOf(B))
    BY <1>2, <1>9
  <2> QED  BY <1>1, <1>9, <2>1 DEF Slotted, Held, HeldNext
<1>10. CASE ip = 17 /\ Wrote(8, args["ch"])
  <2>1. Slotted(8, args["ch"])
    BY <1>2, <1>10
  <2> QED  BY <1>1, <1>10, <2>1 DEF Slotted, Held, HeldNext
<1>11. CASE ip = 19 /\ Wrote(16, args["k1"])
  <2>1. Slotted(16, args["k1"])
    BY <1>2, <1>11
  <2> QED  BY <1>1, <1>11, <2>1 DEF Slotted, Held, HeldNext
<1>12. CASE ip = 21 /\ Wrote(24, args["l1"])
  <2>1. Slotted(24, args["l1"])
    BY <1>2, <1>12
  <2> QED  BY <1>1, <1>12, <2>1 DEF Slotted, Held, HeldNext
<1> QED  BY <1>3, <1>4, <1>5, <1>6, <1>7, <1>8, <1>9, <1>10, <1>11, <1>12 DEF StoresTwo

\* those of ThreePass's callees,
LEMMA SlotsThree ==
  ASSUME Args, Placed, DOMAIN mem = Memory, Slots, SameFrame, which = "three",
         StoresThree, ip' = ip + 1, kernel.phase = "none", kernel' = kernel
  PROVE  /\ HeldNext(0, AddrOf(CC), 7, 17)
         /\ HeldNext(8, AddrOf(X), 8, 17)
         /\ HeldNext(16, args["tw0"], 10, 17)
         /\ HeldNext(24, args["k0"], 12, 17)
         /\ HeldNext(32, args["ido0"], 14, 17)
         /\ HeldNext(40, IntOf(1), 15, 17)
         /\ HeldNext(8, AddrOf(B), 21, 31)
         /\ HeldNext(16, args["tw1"], 23, 31)
         /\ HeldNext(24, args["k1"], 25, 31)
         /\ HeldNext(32, args["ido1"], 27, 31)
         /\ HeldNext(40, args["l1b"], 29, 31)
         /\ HeldNext(0, AddrOf(B), 33, 41)
         /\ HeldNext(8, args["ch"], 35, 41)
         /\ HeldNext(16, args["k2"], 37, 41)
         /\ HeldNext(24, args["l1c"], 39, 41)
<1>1. /\ Held(0, AddrOf(CC), 7, 17)
      /\ Held(8, AddrOf(X), 8, 17)
      /\ Held(16, args["tw0"], 10, 17)
      /\ Held(24, args["k0"], 12, 17)
      /\ Held(32, args["ido0"], 14, 17)
      /\ Held(40, IntOf(1), 15, 17)
      /\ Held(8, AddrOf(B), 21, 31)
      /\ Held(16, args["tw1"], 23, 31)
      /\ Held(24, args["k1"], 25, 31)
      /\ Held(32, args["ido1"], 27, 31)
      /\ Held(40, args["l1b"], 29, 31)
      /\ Held(0, AddrOf(B), 33, 41)
      /\ Held(8, args["ch"], 35, 41)
      /\ Held(16, args["k2"], 37, 41)
      /\ Held(24, args["l1c"], 39, 41)
  BY DEF Slots
<1>2. \A o \in {0, 8, 16, 24, 32, 40, 48} : \A u : Wrote(o, u) => Slotted(o, u)
  BY SlotWrite
<1>3. CASE ip = 5 /\ Wrote(48, AddrOf(X))
  <2>1. Slotted(48, AddrOf(X))
    BY <1>2, <1>3
  <2> QED  BY <1>1, <1>3, <2>1 DEF Slotted, Held, HeldNext
<1>4. CASE ip = 7 /\ Wrote(0, AddrOf(CC))
  <2>1. Slotted(0, AddrOf(CC))
    BY <1>2, <1>4
  <2> QED  BY <1>1, <1>4, <2>1 DEF Slotted, Held, HeldNext
<1>5. CASE ip = 8 /\ Wrote(8, AddrOf(X))
  <2>1. Slotted(8, AddrOf(X))
    BY <1>2, <1>5
  <2> QED  BY <1>1, <1>5, <2>1 DEF Slotted, Held, HeldNext
<1>6. CASE ip = 10 /\ Wrote(16, args["tw0"])
  <2>1. Slotted(16, args["tw0"])
    BY <1>2, <1>6
  <2> QED  BY <1>1, <1>6, <2>1 DEF Slotted, Held, HeldNext
<1>7. CASE ip = 12 /\ Wrote(24, args["k0"])
  <2>1. Slotted(24, args["k0"])
    BY <1>2, <1>7
  <2> QED  BY <1>1, <1>7, <2>1 DEF Slotted, Held, HeldNext
<1>8. CASE ip = 14 /\ Wrote(32, args["ido0"])
  <2>1. Slotted(32, args["ido0"])
    BY <1>2, <1>8
  <2> QED  BY <1>1, <1>8, <2>1 DEF Slotted, Held, HeldNext
<1>9. CASE ip = 15 /\ Wrote(40, IntOf(1))
  <2>1. Slotted(40, IntOf(1))
    BY <1>2, <1>9
  <2> QED  BY <1>1, <1>9, <2>1 DEF Slotted, Held, HeldNext
<1>10. CASE ip = 19 /\ \E v : XKept(v) /\ Wrote(0, v)
  <2>1. PICK v : Slotted(0, v)
    BY <1>2, <1>10
  <2> QED  BY <1>1, <1>10, <2>1 DEF Slotted, Held, HeldNext
<1>11. CASE ip = 21 /\ Wrote(8, AddrOf(B))
  <2>1. Slotted(8, AddrOf(B))
    BY <1>2, <1>11
  <2> QED  BY <1>1, <1>11, <2>1 DEF Slotted, Held, HeldNext
<1>12. CASE ip = 23 /\ Wrote(16, args["tw1"])
  <2>1. Slotted(16, args["tw1"])
    BY <1>2, <1>12
  <2> QED  BY <1>1, <1>12, <2>1 DEF Slotted, Held, HeldNext
<1>13. CASE ip = 25 /\ Wrote(24, args["k1"])
  <2>1. Slotted(24, args["k1"])
    BY <1>2, <1>13
  <2> QED  BY <1>1, <1>13, <2>1 DEF Slotted, Held, HeldNext
<1>14. CASE ip = 27 /\ Wrote(32, args["ido1"])
  <2>1. Slotted(32, args["ido1"])
    BY <1>2, <1>14
  <2> QED  BY <1>1, <1>14, <2>1 DEF Slotted, Held, HeldNext
<1>15. CASE ip = 29 /\ Wrote(40, args["l1b"])
  <2>1. Slotted(40, args["l1b"])
    BY <1>2, <1>15
  <2> QED  BY <1>1, <1>15, <2>1 DEF Slotted, Held, HeldNext
<1>16. CASE ip = 33 /\ Wrote(0, AddrOf(B))
  <2>1. Slotted(0, AddrOf(B))
    BY <1>2, <1>16
  <2> QED  BY <1>1, <1>16, <2>1 DEF Slotted, Held, HeldNext
<1>17. CASE ip = 35 /\ Wrote(8, args["ch"])
  <2>1. Slotted(8, args["ch"])
    BY <1>2, <1>17
  <2> QED  BY <1>1, <1>17, <2>1 DEF Slotted, Held, HeldNext
<1>18. CASE ip = 37 /\ Wrote(16, args["k2"])
  <2>1. Slotted(16, args["k2"])
    BY <1>2, <1>18
  <2> QED  BY <1>1, <1>18, <2>1 DEF Slotted, Held, HeldNext
<1>19. CASE ip = 39 /\ Wrote(24, args["l1c"])
  <2>1. Slotted(24, args["l1c"])
    BY <1>2, <1>19
  <2> QED  BY <1>1, <1>19, <2>1 DEF Slotted, Held, HeldNext
<1> QED  BY <1>3, <1>4, <1>5, <1>6, <1>7, <1>8, <1>9, <1>10, <1>11, <1>12, <1>13, <1>14, <1>15, <1>16, <1>17, <1>18, <1>19 DEF StoresThree

\* A store writes one of the slots its program has.
LEMMA StoreWrites ==
  ASSUME Args, (StoresTwo /\ which = "two") \/ (StoresThree /\ which = "three")
  PROVE  \E o \in {0, 8, 16, 24, 32, 40, 48} : \E u : Wrote(o, u) /\ (o = 48 => which = "three")
<1>1. CASE StoresTwo /\ which = "two"
  BY <1>1 DEF StoresTwo
<1>2. CASE StoresThree /\ which = "three"
  BY <1>2 DEF StoresThree
<1> QED  BY <1>1, <1>2

\* and the saved x.
LEMMA SlotsThreeX ==
  ASSUME Args, Placed, DOMAIN mem = Memory, Slots, SameFrame, which = "three",
         StoresThree, ip' = ip + 1, kernel.phase = "none", kernel' = kernel, ip \in 1..41
  PROVE  /\ ip' \in 6..18 => XKept(mem'[sp + 48])
         /\ ip' \in 20..31 \/ (ip' = 32 /\ kernel'.phase = "entered") => XKept(mem'[sp])
<1>1. /\ ip \in 6..18 => XKept(mem[sp + 48])
      /\ ip \in 20..31 => XKept(mem[sp])
  BY DEF Slots
<1>2. sp + 0 = sp
  BY Geometry
<1>3. \A o \in {0, 8, 16, 24, 32, 40, 48} : \A u : Wrote(o, u) => Slotted(o, u)
  BY SlotWrite
<1>4. XKept(AddrOf(X))
  BY DEF XKept
<1>5. ASSUME ip' \in 6..18 PROVE XKept(mem'[sp + 48])
  <2>1. CASE ip = 5
    <3>1. Slotted(48, AddrOf(X))
      BY <1>3, <2>1 DEF StoresThree
    <3> QED  BY <1>4, <3>1 DEF Slotted
  <2>2. CASE ip # 5
    <3>1. ip \in 6..18
      BY <1>5, <2>2
    <3>2. \E o \in {0, 8, 16, 24, 32, 40} : \E u : Wrote(o, u)
      BY <3>1 DEF StoresThree
    <3>3. \E o \in {0, 8, 16, 24, 32, 40} : \E u : Slotted(o, u)
      BY <1>3, <3>2
    <3> QED  BY <1>1, <3>1, <3>3 DEF Slotted
  <2> QED  BY <2>1, <2>2
<1>6. ASSUME ip' \in 20..31 PROVE XKept(mem'[sp + 0])
  <2>1. CASE ip = 19
    <3>1. \E v : XKept(v) /\ Wrote(0, v)
      BY <2>1 DEF StoresThree
    <3>2. \E v : XKept(v) /\ Slotted(0, v)
      BY <1>3, <3>1
    <3> QED  BY <3>2 DEF Slotted
  <2>2. CASE ip # 19
    <3>1. ip \in 20..30
      BY <1>6, <2>2
    <3>2. \E o \in {8, 16, 24, 32, 40} : \E u : Wrote(o, u)
      BY <3>1 DEF StoresThree
    <3>3. \E o \in {8, 16, 24, 32, 40} : \E u : Slotted(o, u)
      BY <1>3, <3>2
    <3> QED  BY <1>1, <1>2, <3>1, <3>3 DEF Slotted
  <2> QED  BY <2>1, <2>2
<1> QED  BY <1>2, <1>5, <1>6

LEMMA StoreStep ==
  ASSUME Rest, Loaded, DOMAIN regs = Registers, StoreWord \/ StoreOne
  PROVE  Rest' /\ Loaded' /\ (DOMAIN regs = Registers)'
<1>1. /\ kernel.phase = "none" /\ ip <= Len(Code) /\ ip' = ip + 1
      /\ SameFrame /\ regs' = regs /\ kernel' = kernel
      /\ \/ Code[ip].op = "store" /\ mem' = [mem EXCEPT ![sp + Code[ip].num] = regs[Code[ip].reg]]
         \/ Code[ip].op = "imm" /\ mem' = [mem EXCEPT ![sp + Code[ip].num] = IntOf(1)]
  BY DEF StoreWord, StoreOne, Running, SetWord, Line, SameFrame
<1>2. /\ Args /\ Placed /\ DOMAIN mem = Memory /\ CallerFrameIntact
      /\ Kernel /\ Slots /\ Data
  BY DEF Rest
<1>3. /\ ip \in 1..Len(Code) /\ ip \in 1..41 /\ Len(Code) \in {23, 41}
      /\ which \in {"two", "three"}
  BY <1>1, CodeLength DEF Rest
<1>4. (StoresTwo /\ which = "two") \/ (StoresThree /\ which = "three")
  BY <1>1, <1>2, <1>3, StoresTwoStep, StoresThreeStep
<1>5. PICK o \in {0, 8, 16, 24, 32, 40, 48} : (\E u : Wrote(o, u)) /\ (o = 48 => which = "three")
  BY <1>2, <1>4, StoreWrites
<1>6. /\ DOMAIN mem' = Memory
      /\ \A w \in Memory : w # sp + o => mem'[w] = mem[w]
  BY <1>2, <1>5, SlotWrite
<1>7. /\ sp \in Nat /\ FrameSize(which) \in Nat
      /\ sp + (IF which = "two" THEN 48 ELSE 56) <= sp + FrameSize(which)
  BY <1>2, SlotPlace
<1>8. \A w \in Memory : Clear(w) => mem'[w] = mem[w]
  BY <1>5, <1>6, <1>7 DEF Clear
<1>9. \A w \in Memory : sp + FrameSize(which) <= w /\ w < Top(sp, which) => mem'[w] = mem[w]
  BY <1>5, <1>6, <1>7
<1>10. ip \notin Calls
  <2> DEFINE op == Code[ip].op
  <2>1. which = "two" => (op = "call" <=> ip \in {13, 23})
    BY <1>3, CodeLength, TwoText, <1>2
  <2>2. which = "three" => (op = "call" <=> ip \in {17, 31, 41})
    BY <1>3, CodeLength, ThreeText, <1>2
  <2>3. op # "call"
    BY <1>1
  <2> HIDE DEF op
  <2> QED  BY <1>3, <2>1, <2>2, <2>3 DEF Calls
<1>11. /\ Args' /\ Placed' /\ Code' = Code /\ args' = args /\ which' = which
       /\ sp' = sp /\ B' = B /\ X' = X
  BY <1>1, <1>2, FrameKept DEF SameFrame
<1>12. (ip \in 1..(Len(Code) + 1))'
  BY <1>1, <1>3, <1>11
<1>13. CallerFrameIntact'
  BY <1>1, <1>2, <1>9, CallerKept
<1>14. Kernel'
  BY <1>1, <1>2 DEF Kernel, NoKernel
<1>15. Slots'
  <2>1. CASE which = "two"
    <3>1. /\ HeldNext(0, AddrOf(CC), 2, 13)
          /\ HeldNext(8, AddrOf(B), 4, 13)
          /\ HeldNext(16, args["tw"], 6, 13)
          /\ HeldNext(24, args["k0"], 8, 13)
          /\ HeldNext(32, args["ido"], 10, 13)
          /\ HeldNext(40, IntOf(1), 11, 13)
          /\ HeldNext(0, AddrOf(B), 15, 23)
          /\ HeldNext(8, args["ch"], 17, 23)
          /\ HeldNext(16, args["k1"], 19, 23)
          /\ HeldNext(24, args["l1"], 21, 23)
      BY <1>1, <1>2, <1>4, <2>1, SlotsTwo
    <3> QED  BY <1>11, <2>1, <3>1 DEF Slots, Held, HeldNext
  <2>2. CASE which = "three"
    <3>1. /\ HeldNext(0, AddrOf(CC), 7, 17)
          /\ HeldNext(8, AddrOf(X), 8, 17)
          /\ HeldNext(16, args["tw0"], 10, 17)
          /\ HeldNext(24, args["k0"], 12, 17)
          /\ HeldNext(32, args["ido0"], 14, 17)
          /\ HeldNext(40, IntOf(1), 15, 17)
          /\ HeldNext(8, AddrOf(B), 21, 31)
          /\ HeldNext(16, args["tw1"], 23, 31)
          /\ HeldNext(24, args["k1"], 25, 31)
          /\ HeldNext(32, args["ido1"], 27, 31)
          /\ HeldNext(40, args["l1b"], 29, 31)
          /\ HeldNext(0, AddrOf(B), 33, 41)
          /\ HeldNext(8, args["ch"], 35, 41)
          /\ HeldNext(16, args["k2"], 37, 41)
          /\ HeldNext(24, args["l1c"], 39, 41)
      BY <1>1, <1>2, <1>4, <2>2, SlotsThree
    <3>2. /\ ip' \in 6..18 => XKept(mem'[sp + 48])
          /\ ip' \in 20..31 \/ (ip' = 32 /\ kernel'.phase = "entered") => XKept(mem'[sp])
      BY <1>1, <1>2, <1>3, <1>4, <2>2, SlotsThreeX
    <3>3. /\ ip' \in 6..18 => XKept(mem[sp + 48])'
          /\ ip' \in 20..31 \/ (ip' = 32 /\ kernel'.phase = "entered") => XKept(mem[sp])'
      BY <1>1, <1>11, <3>2, FrameKept DEF XKept
    <3> QED  BY <1>11, <2>2, <3>1, <3>3 DEF Slots, Held, HeldNext
  <2> QED  BY <1>3, <2>1, <2>2
<1>16. Data'
  <2>1. \A c \in Calls \cup {100} : Before(c)' = Before(c)
    BY <1>1, <1>2, <1>3, <1>10, QuietBefore
  <2> QED  BY <1>1, <1>2, <1>8, <2>1, DataKept DEF Data, PointsThere
<1>17. (DOMAIN mem = Memory)'
  BY <1>6 DEF Memory, StackWords, Area
<1>18. Rest'
  BY <1>11, <1>12, <1>13, <1>14, <1>15, <1>16, <1>17 DEF Rest
<1>19. Loaded'
  <2>1. Code[ip' - 1] = Code[ip]
    BY <1>1, <1>3
  <2>2. Code[ip].op \notin {"arg", "buf"}
    BY <1>1
  <2>3. ASSUME which = "three"
        PROVE  /\ ip' \notin {3, 4} /\ ip' # 19
               /\ ip' \in 5..8 => regs["AX"] = AddrOf(X)
    <3>1. ip \in {5, 7, 8, 10, 12, 14, 15, 19, 21, 23, 25, 27, 29, 33, 35, 37, 39}
      BY <1>3, <1>4, <2>3 DEF StoresThree
    <3>2. ip \in 5..8 => regs["AX"] = AddrOf(X)
      BY <1>1, <2>3 DEF Loaded
    <3> QED  BY <1>1, <3>1, <3>2
  <2> QED  BY <1>1, <1>11, <2>1, <2>2, <2>3 DEF Loaded
<1> QED  BY <1>1, <1>18, <1>19

-----------------------------------------------------------------------------
(*****************************************************************************)
(* The kernels: the call, the start, the points and the return.              *)
(*****************************************************************************)

\* A call line calls the kernel its argument line has just loaded.
LEMMA CallLines ==
  ASSUME Args, Loaded, kernel.phase = "none", ip \in 1..Len(Code), Code[ip].op = "call"
  PROVE  ip \in Calls /\ regs[Code[ip].reg].tag = Entry(ip)
<1>1. ASSUME NEW name \in {"pass", "last"}, which = "two" PROVE args[name].tag = name
  <2>1. name \in DOMAIN args \ {"cc", "ch", "x"}
    BY <1>1, ArgNames
  <2>2. args[name] = V(name, 0, <<>>)
    BY <2>1 DEF Args
  <2>3. V(name, 0, <<>>).tag = name
    BY DEF V
  <2> QED  BY <2>2, <2>3
<1>2. ASSUME NEW name \in {"p0", "p1", "p2"}, which = "three" PROVE args[name].tag = name
  <2>1. name \in DOMAIN args \ {"cc", "ch", "x"}
    BY <1>2, ArgNames
  <2>2. args[name] = V(name, 0, <<>>)
    BY <2>1 DEF Args
  <2>3. V(name, 0, <<>>).tag = name
    BY DEF V
  <2> QED  BY <2>2, <2>3
<1>3. CASE which = "two"
  <2>1. ip \in 1..23 /\ Code = TwoPass
    BY <1>3, CodeLength, TwoText
  <2>2. ip \in {13, 23}
    BY <1>3, <2>1, TwoText
  <2>3. TwoPass[ip - 1].op = "arg" => regs[TwoPass[ip - 1].reg] = args[TwoPass[ip - 1].name]
    BY <2>1, <2>2 DEF Loaded
  <2>4. ASSUME ip = 13 PROVE regs[Code[ip].reg] = args["pass"]
    BY <2>1, <2>3, <2>4, TwoPassLines DEF L
  <2>5. ASSUME ip = 23 PROVE regs[Code[ip].reg] = args["last"]
    BY <2>1, <2>3, <2>5, TwoPassLines DEF L
  <2> QED  BY <1>1, <1>3, <2>2, <2>4, <2>5 DEF Calls, Entry
<1>4. CASE which = "three"
  <2>1. ip \in 1..41 /\ Code = ThreePass
    BY <1>4, CodeLength, ThreeText
  <2>2. ip \in {17, 31, 41}
    BY <1>4, <2>1, ThreeText
  <2>3. ThreePass[ip - 1].op = "arg" => regs[ThreePass[ip - 1].reg] = args[ThreePass[ip - 1].name]
    BY <2>1, <2>2 DEF Loaded
  <2>4. ASSUME ip = 17 PROVE regs[Code[ip].reg] = args["p0"]
    BY <2>1, <2>3, <2>4, ThreePassLines DEF L
  <2>5. ASSUME ip = 31 PROVE regs[Code[ip].reg] = args["p1"]
    BY <2>1, <2>3, <2>5, ThreePassLines DEF L
  <2>6. ASSUME ip = 41 PROVE regs[Code[ip].reg] = args["p2"]
    BY <2>1, <2>3, <2>6, ThreePassLines DEF L
  <2> QED  BY <1>2, <1>4, <2>2, <2>4, <2>5, <2>6 DEF Calls, Entry
<1> QED  BY <1>3, <1>4 DEF Args

LEMMA CallStep ==
  ASSUME Rest, Loaded, DOMAIN regs = Registers, CallKernel
  PROVE  Rest' /\ Loaded' /\ (DOMAIN regs = Registers)'
<1>1. /\ kernel.phase = "none" /\ ip <= Len(Code) /\ Code[ip].op = "call" /\ ip' = ip + 1
      /\ SameFrame /\ mem' = mem /\ regs' = regs
      /\ kernel' = [NoKernel EXCEPT !.phase = "entered", !.entry = regs[Code[ip].reg].tag]
  BY DEF CallKernel, Running, Line, SameFrame
<1>2. /\ Args /\ Placed /\ DOMAIN mem = Memory /\ CallerFrameIntact
      /\ Kernel /\ Slots /\ Data
  BY DEF Rest
<1>3. ip \in 1..Len(Code) /\ ip \in 1..41 /\ which \in {"two", "three"} /\ Len(Code) \in {23, 41}
  BY <1>1, CodeLength DEF Rest
<1>4. ip \in Calls /\ regs[Code[ip].reg].tag = Entry(ip)
  BY <1>1, <1>2, <1>3, CallLines
<1>5. /\ Args' /\ Placed' /\ Code' = Code /\ args' = args /\ which' = which
      /\ sp' = sp /\ B' = B /\ X' = X /\ Calls' = Calls
  BY <1>1, <1>2, FrameKept DEF SameFrame
<1>6. kernel'.phase = "entered"
  BY <1>1 DEF NoKernel
<1>7. (ip \in 1..(Len(Code) + 1))'
  BY <1>1, <1>3, <1>5
<1>8. CallerFrameIntact'
  BY <1>1, <1>2, CallerKept
<1>9. Kernel'
  <2>1. ip' - 1 = ip
    BY <1>1, <1>3
  <2>2. kernel' = [NoKernel EXCEPT !.phase = "entered", !.entry = Entry(ip)]
    BY <1>1, <1>4
  <2>3. kernel'.entry = Entry(ip)
    BY <2>2 DEF NoKernel
  <2>4. Entry(ip') = Entry(ip)' /\ Entry(ip - 1)' = Entry(ip)
    BY <2>1 DEF Entry
  <2>5. DOMAIN kernel' = DOMAIN NoKernel
    BY <1>1 DEF NoKernel
  <2>6. NoKernel' = NoKernel
    BY DEF NoKernel
  <2> QED  BY <1>4, <1>5, <1>6, <2>1, <2>2, <2>3, <2>4, <2>5, <2>6 DEF Kernel
<1>10. Slots'
  <2>1. CASE which = "two"
    <3>1. ip \in {13, 23}
      BY <1>4, <2>1 DEF Calls
    <3>2. ip' \in {14, 24} /\ (ip' = 14 <=> ip = 13)
      BY <1>1, <3>1
    <3> QED  BY <1>1, <1>2, <1>5, <1>6, <2>1, <3>1, <3>2 DEF Slots, Held
  <2>2. CASE which = "three"
    <3>1. ip \in {17, 31, 41}
      BY <1>4, <2>2 DEF Calls
    <3>2. ip' \in {18, 32, 42} /\ (ip' = 18 <=> ip = 17) /\ (ip' = 32 <=> ip = 31)
      BY <1>1, <3>1
    <3>3. /\ ip' \in 6..18 => XKept(mem[sp + 48])'
          /\ ip' \in 20..31 \/ (ip' = 32 /\ kernel'.phase = "entered") => XKept(mem[sp])'
      <4>1. /\ ip \in 6..18 => XKept(mem[sp + 48])
            /\ ip \in 20..31 => XKept(mem[sp])
        BY <1>2, <2>2 DEF Slots
      <4>2. /\ ip' \in 6..18 => XKept(mem[sp + 48])
            /\ ip' \in 20..32 => XKept(mem[sp])
        BY <3>1, <3>2, <4>1
      <4> QED  BY <1>1, <1>5, <4>2, FrameKept DEF XKept
    <3>4. ASSUME ip = 17
          PROVE  /\ mem[sp + 0] = AddrOf(CC) /\ mem[sp + 8] = AddrOf(X)
                 /\ mem[sp + 16] = args["tw0"] /\ mem[sp + 24] = args["k0"]
                 /\ mem[sp + 32] = args["ido0"] /\ mem[sp + 40] = IntOf(1)
      BY <1>2, <2>2, <3>4 DEF Slots, Held
    <3>5. ASSUME ip = 31
          PROVE  /\ mem[sp + 8] = AddrOf(B)
                 /\ mem[sp + 16] = args["tw1"] /\ mem[sp + 24] = args["k1"]
                 /\ mem[sp + 32] = args["ido1"] /\ mem[sp + 40] = args["l1b"]
      BY <1>2, <2>2, <3>5 DEF Slots, Held
    <3>6. ASSUME ip = 41
          PROVE  /\ mem[sp + 0] = AddrOf(B) /\ mem[sp + 8] = args["ch"]
                 /\ mem[sp + 16] = args["k2"] /\ mem[sp + 24] = args["l1c"]
      BY <1>2, <2>2, <3>6 DEF Slots, Held
    <3>7. CASE ip = 17
      BY <1>1, <1>5, <1>6, <2>2, <3>2, <3>3, <3>4, <3>7 DEF Slots, Held
    <3>8. CASE ip = 31
      BY <1>1, <1>5, <1>6, <2>2, <3>2, <3>3, <3>5, <3>8 DEF Slots, Held
    <3>9. CASE ip = 41
      BY <1>1, <1>5, <1>6, <2>2, <3>2, <3>3, <3>6, <3>9 DEF Slots, Held
    <3> QED  BY <3>1, <3>7, <3>8, <3>9
  <2> QED  BY <1>3, <2>1, <2>2
<1>11. Data'
  <2>1. ASSUME NEW c \in Calls \cup {100} PROVE Before(c)' = Before(c)
    <3>1. c \in {13, 23, 17, 31, 41, 100}
      BY DEF Calls
    <3>2. (ip' <= c \/ ip' = c + 1) <=> ip <= c
      BY <1>1, <1>3, <3>1
    <3> QED  BY <1>1, <1>6, <3>2 DEF Before
  <2>2. InputThere' /\ ResultsThere'
    BY <1>1, <1>2, <2>1, DataKept DEF Data
  <2> QED  BY <1>6, <2>2 DEF Data, PointsThere
<1>12. (DOMAIN mem = Memory)'
  BY <1>1, <1>2 DEF Memory, StackWords, Area
<1>13. Rest'
  BY <1>5, <1>7, <1>8, <1>9, <1>10, <1>11, <1>12 DEF Rest
<1>14. Loaded'
  BY <1>6 DEF Loaded
<1> QED  BY <1>1, <1>13, <1>14

\* What the calls are.
LEMMA CallsAre ==
  ASSUME Args
  PROVE  /\ which \in {"two", "three"}
         /\ which = "two" => Calls = {13, 23} /\ Len(Code) = 23
         /\ which = "three" => Calls = {17, 31, 41} /\ Len(Code) = 41
         /\ \A c \in Calls : c \in Nat /\ c <= Len(Code)
<1>1. which \in {"two", "three"} /\ Len(Code) = IF which = "two" THEN 23 ELSE 41
  BY CodeLength
<1>2. /\ which = "two" => Calls = {13, 23} /\ Len(Code) = 23
      /\ which = "three" => Calls = {17, 31, 41} /\ Len(Code) = 41
  BY <1>1 DEF Calls
<1>3. ASSUME NEW c \in Calls PROVE c \in Nat /\ c <= Len(Code)
  <2>1. CASE which = "two"
    <3>1. c \in {13, 23} /\ Len(Code) = 23
      BY <1>2, <1>3, <2>1
    <3> QED  BY <3>1
  <2>2. CASE which = "three"
    BY <1>2, <1>3, <2>2
  <2> QED  BY <1>1, <2>1, <2>2
<1> QED  BY <1>1, <1>2, <1>3

\* A kernel is entered with its call's arguments in the slots.
LEMMA Entered ==
  ASSUME Args, Placed, Kernel, Slots, kernel.phase = "entered", ip \in Nat
  PROVE  /\ ip - 1 \in Calls
         /\ [j \in 1..(IF kernel.entry \in FinalPass THEN 2 ELSE 4) |-> mem[sp + 8 + 8 * j]]
              = Of(ip - 1)
         /\ mem[sp + 8] = AddrOf(Dst(ip - 1))
         /\ IF ip = 32 THEN XKept(mem[sp]) ELSE mem[sp] = AddrOf(Src(ip - 1))
<1> DEFINE c == ip - 1
           slots(w) == [j \in 1..w |-> mem[sp + 8 + 8 * j]]
           words == IF kernel.entry \in FinalPass THEN 2 ELSE 4
<1>1. c \in Calls /\ kernel.entry = Entry(c)
  BY DEF Kernel
<1>2. args["ch"] = AddrOf(args["ch"].num)
  BY DEF Args, AddrOf, V
<1>3. ip = c + 1 /\ c \in Int
  OBVIOUS
<1>4. sp \in Nat /\ sp + 0 = sp
  BY Geometry
<1>5. SUFFICES /\ slots(words) = Of(c)
               /\ mem[sp + 8] = AddrOf(Dst(c))
               /\ IF c = 31 THEN XKept(mem[sp]) ELSE mem[sp] = AddrOf(Src(c))
  BY <1>1, <1>3
<1> HIDE DEF c, slots, words
<1>6. CASE which = "two" /\ c = 13
  <2>1. /\ mem[sp + 0] = AddrOf(CC) /\ mem[sp + 8] = AddrOf(B)
        /\ mem[sp + 16] = args["tw"] /\ mem[sp + 24] = args["k0"]
        /\ mem[sp + 32] = args["ido"] /\ mem[sp + 40] = IntOf(1)
    BY <1>3, <1>6 DEF Slots, Held
  <2>2. slots(4) = Parameters(<<"tw", "k0", "ido", "1">>)
    <3>1. \A j \in 1..4 : j = 1 \/ j = 2 \/ j = 3 \/ j = 4
      OBVIOUS
    <3>2. /\ sp + 8 + 8 * 1 = sp + 16
          /\ sp + 8 + 8 * 2 = sp + 24
          /\ sp + 8 + 8 * 3 = sp + 32
          /\ sp + 8 + 8 * 4 = sp + 40
      BY <1>4
    <3>3. DOMAIN <<"tw", "k0", "ido", "1">> = 1..4
      OBVIOUS
    <3>4. ASSUME NEW j \in 1..4
          PROVE  mem[sp + 8 + 8 * j] = IF <<"tw", "k0", "ido", "1">>[j] = "1" THEN IntOf(1) ELSE args[<<"tw", "k0", "ido", "1">>[j]]
      BY <2>1, <3>1, <3>2
    <3> QED  BY <3>3, <3>4 DEF Parameters, slots
  <2>3. Of(c) = Parameters(<<"tw", "k0", "ido", "1">>)
    BY <1>6 DEF Of
  <2>4. words = 4
    BY <1>1, <1>6 DEF Entry, FinalPass, words
  <2>5. mem[sp + 8] = AddrOf(Dst(c))
    BY <1>2, <1>6, <2>1 DEF Dst
  <2>6. IF c = 31 THEN XKept(mem[sp]) ELSE mem[sp] = AddrOf(Src(c))
    BY <1>4, <1>6, <2>1 DEF Src
  <2> QED  BY <2>2, <2>3, <2>4, <2>5, <2>6
<1>7. CASE which = "two" /\ c = 23
  <2>1. /\ mem[sp + 0] = AddrOf(B) /\ mem[sp + 8] = args["ch"]
        /\ mem[sp + 16] = args["k1"] /\ mem[sp + 24] = args["l1"]
    BY <1>3, <1>7 DEF Slots, Held
  <2>2. slots(2) = Parameters(<<"k1", "l1">>)
    <3>1. \A j \in 1..2 : j = 1 \/ j = 2
      OBVIOUS
    <3>2. /\ sp + 8 + 8 * 1 = sp + 16
          /\ sp + 8 + 8 * 2 = sp + 24
      BY <1>4
    <3>3. DOMAIN <<"k1", "l1">> = 1..2
      OBVIOUS
    <3>4. ASSUME NEW j \in 1..2
          PROVE  mem[sp + 8 + 8 * j] = IF <<"k1", "l1">>[j] = "1" THEN IntOf(1) ELSE args[<<"k1", "l1">>[j]]
      BY <2>1, <3>1, <3>2
    <3> QED  BY <3>3, <3>4 DEF Parameters, slots
  <2>3. Of(c) = Parameters(<<"k1", "l1">>)
    BY <1>7 DEF Of
  <2>4. words = 2
    BY <1>1, <1>7 DEF Entry, FinalPass, words
  <2>5. mem[sp + 8] = AddrOf(Dst(c))
    BY <1>2, <1>7, <2>1 DEF Dst
  <2>6. IF c = 31 THEN XKept(mem[sp]) ELSE mem[sp] = AddrOf(Src(c))
    BY <1>4, <1>7, <2>1 DEF Src
  <2> QED  BY <2>2, <2>3, <2>4, <2>5, <2>6
<1>8. CASE which = "three" /\ c = 17
  <2>1. /\ mem[sp + 0] = AddrOf(CC) /\ mem[sp + 8] = AddrOf(X)
        /\ mem[sp + 16] = args["tw0"] /\ mem[sp + 24] = args["k0"]
        /\ mem[sp + 32] = args["ido0"] /\ mem[sp + 40] = IntOf(1)
    BY <1>3, <1>8 DEF Slots, Held
  <2>2. slots(4) = Parameters(<<"tw0", "k0", "ido0", "1">>)
    <3>1. \A j \in 1..4 : j = 1 \/ j = 2 \/ j = 3 \/ j = 4
      OBVIOUS
    <3>2. /\ sp + 8 + 8 * 1 = sp + 16
          /\ sp + 8 + 8 * 2 = sp + 24
          /\ sp + 8 + 8 * 3 = sp + 32
          /\ sp + 8 + 8 * 4 = sp + 40
      BY <1>4
    <3>3. DOMAIN <<"tw0", "k0", "ido0", "1">> = 1..4
      OBVIOUS
    <3>4. ASSUME NEW j \in 1..4
          PROVE  mem[sp + 8 + 8 * j] = IF <<"tw0", "k0", "ido0", "1">>[j] = "1" THEN IntOf(1) ELSE args[<<"tw0", "k0", "ido0", "1">>[j]]
      BY <2>1, <3>1, <3>2
    <3> QED  BY <3>3, <3>4 DEF Parameters, slots
  <2>3. Of(c) = Parameters(<<"tw0", "k0", "ido0", "1">>)
    BY <1>8 DEF Of
  <2>4. words = 4
    BY <1>1, <1>8 DEF Entry, FinalPass, words
  <2>5. mem[sp + 8] = AddrOf(Dst(c))
    BY <1>2, <1>8, <2>1 DEF Dst
  <2>6. IF c = 31 THEN XKept(mem[sp]) ELSE mem[sp] = AddrOf(Src(c))
    BY <1>4, <1>8, <2>1 DEF Src
  <2> QED  BY <2>2, <2>3, <2>4, <2>5, <2>6
<1>9. CASE which = "three" /\ c = 31
  <2>1. /\ XKept(mem[sp]) /\ mem[sp + 8] = AddrOf(B)
        /\ mem[sp + 16] = args["tw1"] /\ mem[sp + 24] = args["k1"]
        /\ mem[sp + 32] = args["ido1"] /\ mem[sp + 40] = args["l1b"]
    BY <1>3, <1>9 DEF Slots, Held
  <2>2. slots(4) = Parameters(<<"tw1", "k1", "ido1", "l1b">>)
    <3>1. \A j \in 1..4 : j = 1 \/ j = 2 \/ j = 3 \/ j = 4
      OBVIOUS
    <3>2. /\ sp + 8 + 8 * 1 = sp + 16
          /\ sp + 8 + 8 * 2 = sp + 24
          /\ sp + 8 + 8 * 3 = sp + 32
          /\ sp + 8 + 8 * 4 = sp + 40
      BY <1>4
    <3>3. DOMAIN <<"tw1", "k1", "ido1", "l1b">> = 1..4
      OBVIOUS
    <3>4. ASSUME NEW j \in 1..4
          PROVE  mem[sp + 8 + 8 * j] = IF <<"tw1", "k1", "ido1", "l1b">>[j] = "1" THEN IntOf(1) ELSE args[<<"tw1", "k1", "ido1", "l1b">>[j]]
      BY <2>1, <3>1, <3>2
    <3> QED  BY <3>3, <3>4 DEF Parameters, slots
  <2>3. Of(c) = Parameters(<<"tw1", "k1", "ido1", "l1b">>)
    BY <1>9 DEF Of
  <2>4. words = 4
    BY <1>1, <1>9 DEF Entry, FinalPass, words
  <2>5. mem[sp + 8] = AddrOf(Dst(c))
    BY <1>2, <1>9, <2>1 DEF Dst
  <2>6. IF c = 31 THEN XKept(mem[sp]) ELSE mem[sp] = AddrOf(Src(c))
    BY <1>4, <1>9, <2>1 DEF Src
  <2> QED  BY <2>2, <2>3, <2>4, <2>5, <2>6
<1>10. CASE which = "three" /\ c = 41
  <2>1. /\ mem[sp + 0] = AddrOf(B) /\ mem[sp + 8] = args["ch"]
        /\ mem[sp + 16] = args["k2"] /\ mem[sp + 24] = args["l1c"]
    BY <1>3, <1>10 DEF Slots, Held
  <2>2. slots(2) = Parameters(<<"k2", "l1c">>)
    <3>1. \A j \in 1..2 : j = 1 \/ j = 2
      OBVIOUS
    <3>2. /\ sp + 8 + 8 * 1 = sp + 16
          /\ sp + 8 + 8 * 2 = sp + 24
      BY <1>4
    <3>3. DOMAIN <<"k2", "l1c">> = 1..2
      OBVIOUS
    <3>4. ASSUME NEW j \in 1..2
          PROVE  mem[sp + 8 + 8 * j] = IF <<"k2", "l1c">>[j] = "1" THEN IntOf(1) ELSE args[<<"k2", "l1c">>[j]]
      BY <2>1, <3>1, <3>2
    <3> QED  BY <3>3, <3>4 DEF Parameters, slots
  <2>3. Of(c) = Parameters(<<"k2", "l1c">>)
    BY <1>10 DEF Of
  <2>4. words = 2
    BY <1>1, <1>10 DEF Entry, FinalPass, words
  <2>5. mem[sp + 8] = AddrOf(Dst(c))
    BY <1>2, <1>10, <2>1 DEF Dst
  <2>6. IF c = 31 THEN XKept(mem[sp]) ELSE mem[sp] = AddrOf(Src(c))
    BY <1>4, <1>10, <2>1 DEF Src
  <2> QED  BY <2>2, <2>3, <2>4, <2>5, <2>6
<1> QED  BY <1>1, <1>6, <1>7, <1>8, <1>9, <1>10, CallsAre

LEMMA StartStep ==
  ASSUME Rest, Loaded, DOMAIN regs = Registers, KernelStarts
  PROVE  Rest' /\ Loaded' /\ (DOMAIN regs = Registers)'
<1> DEFINE c == ip - 1
           words == IF kernel.entry \in FinalPass THEN 2 ELSE 4
           of == [j \in 1..words |-> mem[sp + 8 + 8 * j]]
<1>1. /\ kernel.phase = "entered" /\ SameFrame /\ mem' = mem /\ regs' = regs /\ ip' = ip
      /\ kernel' = [kernel EXCEPT !.phase = "running", !.src = mem[sp].num,
                      !.dst = mem[sp + 8].num, !.left = 1..n, !.of = of]
  BY DEF KernelStarts, SameFrame
<1>2. /\ Args /\ Placed /\ DOMAIN mem = Memory /\ CallerFrameIntact
      /\ Kernel /\ Slots /\ Data /\ ip \in 1..(Len(Code) + 1)
  BY DEF Rest
<1>3. /\ Args' /\ Placed' /\ Code' = Code /\ args' = args /\ which' = which /\ n' = n
      /\ sp' = sp /\ B' = B /\ X' = X /\ Calls' = Calls
  BY <1>1, <1>2, FrameKept DEF SameFrame
<1>4. /\ c \in Calls /\ of = Of(c) /\ mem[sp + 8] = AddrOf(Dst(c))
      /\ IF ip = 32 THEN XKept(mem[sp]) ELSE mem[sp] = AddrOf(Src(c))
  <2>1. ip \in Nat
    BY <1>2, CodeLength
  <2> QED  BY <1>1, <1>2, <2>1, Entered
<1> HIDE DEF of
<1>5. kernel = [NoKernel EXCEPT !.phase = "entered", !.entry = Entry(c)]
  BY <1>1, <1>2 DEF Kernel
<1>6. /\ kernel'.phase = "running" /\ kernel'.entry = Entry(c) /\ kernel'.left = 1..n
      /\ kernel'.of = Of(c) /\ kernel'.dst = Dst(c)
      /\ IF ip = 32 THEN XKept(AddrOf(kernel'.src)) ELSE kernel'.src = Src(c)
  <2>1. /\ kernel'.phase = "running" /\ kernel'.entry = Entry(c) /\ kernel'.left = 1..n
        /\ kernel'.of = Of(c) /\ kernel'.src = mem[sp].num /\ kernel'.dst = mem[sp + 8].num
    BY <1>1, <1>4, <1>5 DEF NoKernel
  <2>2. XKept(mem[sp]) => mem[sp] = AddrOf(mem[sp].num)
    BY DEF XKept, AddrOf, V
  <2>3. mem[sp] = AddrOf(Src(c)) => mem[sp].num = Src(c)
    BY DEF AddrOf, V
  <2>4. mem[sp + 8].num = Dst(c)
    BY <1>4 DEF AddrOf, V
  <2> QED  BY <1>4, <2>1, <2>2, <2>3, <2>4
<1>7. Kernel'
  <2>1. /\ Dst(ip - 1)' = Dst(c) /\ Src(ip - 1)' = Src(c) /\ Of(ip - 1)' = Of(c)
        /\ Entry(ip - 1)' = Entry(c)
    BY <1>1, FrameKept DEF Dst, Src, Of, Entry, SameFrame, Parameters
  <2>2. ip' = 32 => XKept(AddrOf(kernel.src))'
    BY <1>1, <1>3, <1>6, FrameKept DEF XKept
  <2>3. DOMAIN kernel' = DOMAIN NoKernel /\ NoKernel' = NoKernel
    BY <1>1, <1>5 DEF NoKernel
  <2> QED  BY <1>1, <1>3, <1>4, <1>6, <2>1, <2>2, <2>3 DEF Kernel
<1>8. Slots'
  <2>1. \A off, v, from, call : Held(off, v, from, call) =>
           ((from < ip /\ ip <= call) \/ (ip = call + 1 /\ kernel'.phase = "entered") => mem[sp + off] = v)
    BY <1>6 DEF Held
  <2>2. /\ ip \in 6..18 => XKept(mem[sp + 48])' = XKept(mem[sp + 48])
        /\ XKept(mem[sp])' = XKept(mem[sp])
    BY <1>1, <1>3, FrameKept DEF XKept
  <2>3. CASE which = "two"
    BY <1>1, <1>2, <1>3, <1>6, <2>3 DEF Slots, Held
  <2>4. CASE which = "three"
    BY <1>1, <1>2, <1>3, <1>6, <2>2, <2>4, SMTT(30) DEF Slots, Held
  <2> QED  BY <1>2, <2>3, <2>4 DEF Args
<1>9. Data'
  <2>1. \A b \in Calls \cup {100} : Before(b)' = Before(b)
    BY <1>1, <1>6 DEF Before
  <2>2. InputThere' /\ ResultsThere'
    BY <1>1, <1>2, <2>1, DataKept DEF Data
  <2>3. PointsThere'
    BY <1>3, <1>6 DEF PointsThere
  <2> QED  BY <2>2, <2>3 DEF Data
<1>10. CallerFrameIntact'
  BY <1>1, <1>2, CallerKept
<1>11. (DOMAIN mem = Memory)'
  BY <1>1, <1>2 DEF Memory, StackWords, Area
<1>12. Rest'
  BY <1>1, <1>2, <1>3, <1>7, <1>8, <1>9, <1>10, <1>11 DEF Rest
<1>13. Loaded'
  BY <1>6 DEF Loaded
<1> QED  BY <1>1, <1>12, <1>13

LEMMA ReturnStep ==
  ASSUME Rest, Loaded, DOMAIN regs = Registers, KernelReturns
  PROVE  Rest' /\ Loaded' /\ (DOMAIN regs = Registers)'
<1> DEFINE c == ip - 1
<1>1. /\ kernel.phase = "running" /\ kernel.left = {} /\ SameFrame /\ ip' = ip
      /\ kernel' = NoKernel
      /\ regs' = [r \in Registers |-> Garbage]
      /\ mem' = [a \in DOMAIN mem |-> IF sp <= a /\ a < sp + 48 THEN Garbage ELSE mem[a]]
  BY DEF KernelReturns, SameFrame
<1>2. /\ Args /\ Placed /\ DOMAIN mem = Memory /\ CallerFrameIntact
      /\ Kernel /\ Slots /\ Data /\ ip \in 1..(Len(Code) + 1)
  BY DEF Rest
<1>3. /\ Args' /\ Placed' /\ Code' = Code /\ args' = args /\ which' = which /\ n' = n
      /\ sp' = sp /\ B' = B /\ X' = X /\ Calls' = Calls
  BY <1>1, <1>2, FrameKept DEF SameFrame
<1>4. /\ c \in Calls /\ kernel.dst = Dst(c) /\ ip = c + 1 /\ ip \in Nat
      /\ which \in {"two", "three"}
  <2>1. ip \in Nat
    BY <1>2, CodeLength
  <2> QED  BY <1>1, <1>2, <2>1 DEF Kernel, Args
<1> HIDE DEF c
<1>5. c \in {13, 23, 17, 31, 41} /\ (which = "two" => c \in {13, 23}) /\ (which = "three" => c \in {17, 31, 41})
  BY <1>2, <1>4, CallsAre
<1>6. /\ sp \in Nat
      /\ sp + (IF which = "two" THEN 48 ELSE 56) <= sp + FrameSize(which)
      /\ sp + 48 \in Memory
  <2> DEFINE F == FrameSize(which)
  <2>1. sp \in Nat /\ F \in Nat /\ (IF which = "two" THEN 48 ELSE 56) <= F
    BY <1>2, SlotPlace
  <2>2. sp + 48 \in Memory
    BY <1>2, SlotPlace
  <2> HIDE DEF F
  <2>3. sp + (IF which = "two" THEN 48 ELSE 56) <= sp + F
    BY <2>1
  <2> QED  BY <2>1, <2>2, <2>3 DEF F
<1>7. \A w \in Memory : ~(sp <= w /\ w < sp + 48) => mem'[w] = mem[w]
  BY <1>1, <1>2
<1>8. \A w \in Memory : Clear(w) => mem'[w] = mem[w]
  BY <1>6, <1>7 DEF Clear
<1>9. \A w \in Memory : w \in Int /\ sp + FrameSize(which) <= w /\ w < Top(sp, which) => mem'[w] = mem[w]
  <2> DEFINE F == FrameSize(which)
  <2>1. F \in Nat /\ 48 <= F
    BY <1>2, <1>4, SlotPlace
  <2> HIDE DEF F
  <2>2. \A w \in Int : sp + F <= w => ~(sp <= w /\ w < sp + 48)
    BY <1>6, <2>1
  <2> QED  BY <1>7, <2>2 DEF F
<1>10. Memory \subseteq Int
  BY <1>2, SlotPlace
<1>11. CallerFrameIntact'
  BY <1>1, <1>2, <1>9, <1>10, CallerKept
<1>12. Kernel'
  BY <1>1 DEF Kernel, NoKernel
<1>13. Slots'
  <2>1. kernel'.phase = "none"
    BY <1>1 DEF NoKernel
  <2>2. CASE which = "two"
    <3>1. ip' \in {14, 24}
      BY <1>1, <1>4, <1>5, <2>2
    <3> QED  BY <1>3, <2>1, <2>2, <3>1 DEF Slots, Held
  <2>3. CASE which = "three"
    <3>1. ip' \in {18, 32, 42} /\ ip' = ip
      BY <1>1, <1>4, <1>5, <2>3
    <3>2. ip' \in 6..18 => XKept(mem[sp + 48])'
      <4>1. SUFFICES ASSUME ip' \in 6..18 PROVE XKept(mem[sp + 48])'
        OBVIOUS
      <4>2. XKept(mem[sp + 48])
        BY <1>1, <1>2, <2>3, <4>1 DEF Slots
      <4>3. mem'[sp + 48] = mem[sp + 48]
        BY <1>6, <1>7
      <4> QED  BY <1>1, <1>3, <4>2, <4>3, FrameKept DEF XKept
    <3> QED  BY <1>3, <2>1, <2>3, <3>1, <3>2 DEF Slots, Held
  <2> QED  BY <1>4, <2>2, <2>3
<1>14. InputThere' /\ ResultsThere'
  <2>1. \A b \in Areas : AllClear(b)
    BY <1>2, AreasClear
  <2>2. ASSUME NEW b \in Calls \cup {100} PROVE Before(b)' => Before(b)
    BY <1>1, <1>4, <1>5 DEF Before, NoKernel
  <2>3. InputThere'
    <3>1. SUFFICES ASSUME args["ch"] # args["cc"] \/ Before(IF which = "two" THEN 13 ELSE 17)'
                   PROVE  Points(CC, Input)'
      BY <1>3 DEF InputThere
    <3>2. Before(IF which = "two" THEN 13 ELSE 17)' => Before(IF which = "two" THEN 13 ELSE 17)
      <4>1. CASE which = "two"
        <5>1. Before(13)' => Before(13)
          BY <2>2, <4>1 DEF Calls
        <5> QED  BY <1>3, <4>1, <5>1
      <4>2. CASE which = "three"
        <5>1. Before(17)' => Before(17)
          BY <2>2, <4>2 DEF Calls
        <5> QED  BY <1>3, <4>2, <5>1
      <4> QED  BY <1>4, <4>1, <4>2
    <3>3. Points(CC, Input)
      BY <1>2, <3>1, <3>2 DEF Data, InputThere
    <3>4. AllClear(CC)
      BY <2>1 DEF Areas
    <3>5. Input' = Input
      BY <1>1 DEF SameFrame, Input
    <3>6. \A t : Points(CC, t) => Points(CC, t)'
      BY <1>1, <1>8, <3>4, PointsKept
    <3> QED  BY <3>3, <3>5, <3>6 DEF Points
  <2>4. ASSUME NEW b \in Calls, Right(b)', ~Before(b)', Before(User(b))'
        PROVE  Points(Dst(b), Out(b))'
    <3>1. Right(b) /\ Dst(b)' = Dst(b) /\ Out(b)' = Out(b)
      BY <1>1, <2>4, PassesKept
    <3>2. AllClear(Dst(b))
      BY <1>2, <2>1, DstArea
    <3>3. \A a, t : AllClear(a) /\ Points(a, t) => Points(a, t)'
      BY <1>1, <1>8, PointsKept
    <3>4. Points(Dst(b), Out(b))
      <4>1. CASE b = c
        <5>1. ip - 1 = c
          BY <1>4, <1>5
        <5>2. \A j \in 1..n : PointAt(mem, Dst(c) + 16 * (j - 1)) = Out(c)[j]
          BY <1>1, <1>2, <1>4, <3>1, <4>1, <5>1 DEF Data, PointsThere
        <5> QED  BY <4>1, <5>2 DEF Points
      <4>2. CASE b # c
        <5>1. ~Before(b)
          <6>1. b \in {13, 23, 17, 31, 41} /\ ip # b + 1
            <7>1. b \in {13, 23, 17, 31, 41}
              BY DEF Calls
            <7> QED  BY <1>4, <1>5, <4>2, <7>1
          <6> QED  BY <1>1, <2>4, <6>1 DEF Before, NoKernel
        <5>2. User(b) \in Calls \cup {100} /\ Before(User(b))'
          BY <2>4 DEF User, Calls
        <5>3. Before(User(b))
          BY <2>2, <5>2 DEF User
        <5> QED  BY <1>2, <3>1, <5>1, <5>3 DEF Data, ResultsThere
      <4> QED  BY <4>1, <4>2
    <3> QED  BY <3>1, <3>2, <3>3, <3>4 DEF Points
  <2> QED  BY <1>3, <2>3, <2>4 DEF ResultsThere
<1>15. Data'
  BY <1>1, <1>14 DEF Data, PointsThere, NoKernel
<1>16. (DOMAIN mem = Memory)'
  BY <1>1, <1>2 DEF Memory, StackWords, Area
<1>17. Rest'
  BY <1>1, <1>2, <1>3, <1>11, <1>12, <1>13, <1>15, <1>16 DEF Rest
<1>18. Loaded'
  <2>1. Code[c].op = "call"
    <3>1. CASE which = "two"
      BY <1>5, <3>1, TwoText
    <3>2. CASE which = "three"
      BY <1>5, <3>2, ThreeText
    <3> QED  BY <1>4, <3>1, <3>2
  <2>2. ip' - 1 = c
    BY <1>1, <1>4, <1>5
  <2>3. ip' \notin {3, 4, 5, 6, 7, 8, 19} /\ ip' \notin 5..8
    BY <1>1, <1>4, <1>5
  <2> QED  BY <1>3, <2>1, <2>2, <2>3 DEF Loaded
<1> QED  BY <1>1, <1>17, <1>18

\* What a call reads and writes lie apart, and so does what is still to be read.
LEMMA CallsApart ==
  ASSUME Args, Placed, NEW c \in Calls
  PROVE  /\ Dst(c) \in Areas /\ Src(c) \in Areas
         /\ Far(Src(c), Dst(c))
         /\ args["ch"] # args["cc"] \/ c \in {13, 17} => Far(CC, Dst(c))
         /\ \A b \in Calls : User(b) = c => Dst(b) = Src(c)
<1>1. /\ Far(CC, CH) /\ Far(CC, B) /\ Far(CH, B)
      /\ which = "three" => Far(X, CC) /\ Far(X, B)
  BY AreasFar
<1>2. \A a, b : Far(a, b) <=> Far(b, a)
  BY DEF Far
<1>3. /\ args["ch"].num \in {CC, CH} /\ which \in {"two", "three"}
      /\ args["ch"] # args["cc"] => args["ch"].num = CH
  BY DEF Args, AddrOf, V
<1>4. Dst(c) \in Areas /\ Src(c) \in Areas
  BY DstArea
<1>5. Far(Src(c), Dst(c))
  BY <1>1, <1>2, <1>3 DEF Src, Dst, Calls
<1>6. args["ch"] # args["cc"] \/ c \in {13, 17} => Far(CC, Dst(c))
  BY <1>1, <1>2, <1>3 DEF Dst, Calls
<1>7. \A b \in Calls : User(b) = c => Dst(b) = Src(c)
  BY <1>3 DEF Dst, Src, User, Calls
<1> QED  BY <1>4, <1>5, <1>6, <1>7

\* A running pass finds its input where it reads.
LEMMA Reading ==
  ASSUME Args, Placed, Kernel, InputThere, ResultsThere, kernel.phase = "running", ip \in Nat,
         Right(ip - 1)
  PROVE  PointsAt(mem, kernel.src) = In(ip - 1)
<1> DEFINE c == ip - 1
<1>1. /\ c \in Calls /\ ip = c + 1
      /\ IF ip = 32 THEN XKept(AddrOf(kernel.src)) ELSE kernel.src = Src(c)
  BY DEF Kernel
<1>2. which \in {"two", "three"} /\ (which = "two" => c \in {13, 23}) /\ (which = "three" => c \in {17, 31, 41})
  BY <1>1, CallsAre
<1> HIDE DEF c
<1>3. kernel.src = Src(c)
  <2>1. CASE c = 31
    <3>1. XKept(AddrOf(kernel.src)) /\ Steady
      BY <1>1, <2>1 DEF Right
    <3>2. AddrOf(kernel.src) = AddrOf(X)
      BY <3>1 DEF XKept
    <3> QED  BY <2>1, <3>2 DEF Src, AddrOf, V
  <2>2. CASE c # 31
    <3>1. ip # 32
      BY <1>1, <1>2, <2>2
    <3> QED  BY <1>1, <3>1
  <2> QED  BY <2>1, <2>2
<1>4. Points(Src(c), In(c))
  <2>1. CASE which = "two" /\ c = 13
    <3>1. Before(13)
      BY <1>1, <2>1 DEF Before
    <3> QED  BY <2>1, <3>1 DEF InputThere, Src, In
  <2>2. CASE which = "three" /\ c = 17
    <3>1. Before(17)
      BY <1>1, <2>2 DEF Before
    <3> QED  BY <2>2, <3>1 DEF InputThere, Src, In
  <2>3. CASE which = "two" /\ c = 23
    <3>1. ~Before(13) /\ Before(User(13)) /\ 13 \in Calls /\ Right(13)
      BY <1>1, <2>3 DEF Before, User, Calls, Right
    <3>2. Points(Dst(13), Out(13))
      BY <3>1 DEF ResultsThere
    <3> QED  BY <2>3, <3>2 DEF Dst, Out, Src, In, AfterOne, Entry
  <2>4. CASE which = "three" /\ c = 31
    <3>1. ~Before(17) /\ Before(User(17)) /\ 17 \in Calls /\ Right(17)
      BY <1>1, <2>4 DEF Before, User, Calls, Right
    <3>2. Points(Dst(17), Out(17))
      BY <3>1 DEF ResultsThere
    <3> QED  BY <2>4, <3>2 DEF Dst, Out, Src, In, AfterOne, Entry
  <2>5. CASE which = "three" /\ c = 41
    <3>1. ~Before(31) /\ Before(User(31)) /\ 31 \in Calls /\ Right(31)
      BY <1>1, <2>5 DEF c, Before, User, Calls, Right
    <3>2. Points(Dst(31), Out(31))
      BY <3>1 DEF ResultsThere
    <3> QED  BY <2>5, <3>2 DEF Dst, Out, Src, In, AfterTwo, Entry
  <2> QED  BY <1>2, <2>1, <2>2, <2>3, <2>4, <2>5
<1>5. In(c) = [j \in 1..n |-> In(c)[j]]
  <2> DEFINE OfPoints(f) == f = [j \in 1..n |-> f[j]]
  <2>1. \A e, of, i : OfPoints(Transform(e, of, i))
    BY DEF Transform
  <2>2. OfPoints(Input)
    BY DEF Input
  <2> HIDE DEF OfPoints
  <2>3. OfPoints(AfterOne)
    BY <2>1 DEF AfterOne
  <2>4. OfPoints(AfterTwo)
    BY <2>1 DEF AfterTwo
  <2>5. OfPoints(In(c))
    BY <2>2, <2>3, <2>4 DEF In
  <2> QED  BY <2>5 DEF OfPoints
<1>6. \A j \in 1..n : PointAt(mem, Src(c) + 16 * (j - 1)) = In(c)[j]
  BY <1>4 DEF Points
<1> QED  BY <1>3, <1>5, <1>6 DEF PointsAt, c

\* A point written leaves the areas apart from the pass's output alone.
Touched(d, w) == d <= w /\ w < d + 16 * n

\* A point written leaves the arrays that lie apart as they were.
LEMMA PointsFar ==
  ASSUME SameFrame, NEW a \in Nat, NEW d \in Nat, NEW s, Points(a, s), AllClear(a), Far(a, d),
         n \in Nat,
         \A w \in Memory : ~Touched(d, w) => mem'[w] = mem[w]
  PROVE  Points(a, s)'
<1>1. ASSUME NEW j \in 1..n
      PROVE  PointAt(mem', a + 16 * (j - 1)) = s[j]
  <2>1. /\ a + 16 * (j - 1) \in Memory /\ a + 16 * (j - 1) + 8 \in Memory
    BY DEF AllClear, Clear
  <2>2. ~Touched(d, a + 16 * (j - 1)) /\ ~Touched(d, a + 16 * (j - 1) + 8)
    BY DEF Far, Touched
  <2>3. /\ mem'[a + 16 * (j - 1)] = mem[a + 16 * (j - 1)]
        /\ mem'[a + 16 * (j - 1) + 8] = mem[a + 16 * (j - 1) + 8]
    BY <2>1, <2>2
  <2>4. PointAt(mem, a + 16 * (j - 1)) = s[j]
    BY DEF Points
  <2> QED  BY <2>3, <2>4 DEF PointAt
<1> QED  BY <1>1 DEF Points, SameFrame

\* A word that is not Clear is none of an area's.
LEMMA TouchedClear ==
  ASSUME Args, Placed, NEW d \in Areas, NEW j \in 1..n, NEW w \in Int,
         w \in {d + 16 * (j - 1), d + 16 * (j - 1) + 8}
  PROVE  Clear(w) /\ Touched(d, w)
<1>1. d \in Nat /\ AllClear(d)
  BY AreasClear
<1>2. n \in Nat
  BY Geometry
<1>3. Touched(d, w)
  BY <1>1, <1>2 DEF Touched
<1> QED  BY <1>1, <1>3 DEF AllClear

LEMMA PointStep ==
  ASSUME Rest, Loaded, DOMAIN regs = Registers, NEW p \in 1..n, KernelPoint(p)
  PROVE  Rest' /\ Loaded' /\ (DOMAIN regs = Registers)'
<1> DEFINE c == ip - 1
           d == kernel.dst
           a == d + 16 * (p - 1)
           v == V(kernel.entry, p, kernel.of \o PointsAt(mem, kernel.src))
<1>1. /\ kernel.phase = "running" /\ p \in kernel.left /\ SameFrame /\ ip' = ip /\ regs' = regs
      /\ kernel' = [kernel EXCEPT !.left = @ \ {p}]
      /\ mem' = [mem EXCEPT ![a] = v, ![a + 8] = v]
  BY DEF KernelPoint, SameFrame
<1>2. /\ Args /\ Placed /\ DOMAIN mem = Memory /\ CallerFrameIntact
      /\ Kernel /\ Slots /\ Data /\ ip \in 1..(Len(Code) + 1)
  BY DEF Rest
<1>3. /\ Args' /\ Placed' /\ Code' = Code /\ args' = args /\ which' = which /\ n' = n
      /\ sp' = sp /\ B' = B /\ X' = X /\ Calls' = Calls
  BY <1>1, <1>2, FrameKept DEF SameFrame
<1>4. /\ c \in Calls /\ kernel.dst = Dst(c) /\ ip = c + 1 /\ ip \in Nat
      /\ which \in {"two", "three"} /\ kernel.entry = Entry(c) /\ kernel.of = Of(c)
      /\ kernel.left \subseteq 1..n
      /\ IF ip = 32 THEN XKept(AddrOf(kernel.src)) ELSE kernel.src = Src(c)
  <2>1. ip \in Nat
    BY <1>2, CodeLength
  <2> QED  BY <1>1, <1>2, <2>1 DEF Kernel, Args
<1>5. c \in {13, 23, 17, 31, 41} /\ (which = "two" => c \in {13, 23}) /\ (which = "three" => c \in {17, 31, 41})
  BY <1>2, <1>4, CallsAre
<1>6. /\ d \in Areas /\ d \in Nat /\ n \in Nat /\ AllClear(d)
  BY <1>2, <1>4, CallsApart, AreasClear, Geometry
<1>7. /\ kernel'.phase = "running" /\ kernel'.entry = Entry(c) /\ kernel'.left = kernel.left \ {p}
      /\ kernel'.of = Of(c) /\ kernel'.dst = d /\ kernel'.src = kernel.src
  <2>1. DOMAIN kernel = {"phase", "entry", "src", "dst", "of", "left"}
    BY <1>2 DEF Kernel, NoKernel
  <2> QED  BY <1>1, <1>4, <2>1
<1>8. /\ a \in Memory /\ a + 8 \in Memory /\ Clear(a) /\ Clear(a + 8)
      /\ Touched(d, a) /\ Touched(d, a + 8)
  <2>1. /\ a \in Int /\ a + 8 \in Int
    BY <1>6
  <2>2. Clear(a) /\ Clear(a + 8) /\ Touched(d, a) /\ Touched(d, a + 8)
    BY <1>2, <1>6, <2>1, TouchedClear
  <2> QED  BY <2>2 DEF Clear
<1> HIDE DEF c, d, a, v
<1>9. /\ DOMAIN mem' = Memory
      /\ mem'[a] = v /\ mem'[a + 8] = v
      /\ \A w \in Memory : w # a /\ w # a + 8 => mem'[w] = mem[w]
  BY <1>1, <1>2, <1>8
<1>10. \A w \in Memory : ~Clear(w) => mem'[w] = mem[w]
  BY <1>8, <1>9
<1>11. \A w \in Memory : ~Touched(d, w) => mem'[w] = mem[w]
  BY <1>8, <1>9
<1>12. CallerFrameIntact'
  <2>1. sp \in Nat /\ FrameSize(which) \in Nat /\ Memory \subseteq Int
    BY <1>2, SlotPlace
  <2>2. \A w \in Memory : sp + FrameSize(which) <= w /\ w < Top(sp, which) => ~Clear(w)
    <3> DEFINE F == FrameSize(which)
               T == Top(sp, which)
    <3>1. T = sp + F + 16 + (IF which = "two" THEN 72 ELSE 120) /\ F \in Nat /\ sp \in Nat
      BY <1>2, Geometry
    <3> HIDE DEF F, T
    <3>2. \A w \in Int : sp + F <= w /\ w < T => ~(w < sp + F \/ T <= w)
      BY <3>1
    <3> QED  BY <2>1, <3>2 DEF Clear, F, T
  <2> QED  BY <1>1, <1>2, <1>10, <2>2, CallerKept
<1>13. \A o \in {0, 8, 16, 24, 32, 40} : mem'[sp + o] = mem[sp + o]
  <2>1. ASSUME NEW o \in {0, 8, 16, 24, 32, 40} PROVE ~Clear(sp + o) /\ sp + o \in Memory
    <3>1. sp \in Nat /\ sp + o \in Memory
      BY <1>2, SlotPlace
    <3> QED  BY <3>1 DEF Clear
  <2> QED  BY <1>10, <2>1
<1>14. which = "three" => mem'[sp + 48] = mem[sp + 48]
  <2>1. ASSUME which = "three" PROVE ~Clear(sp + 48) /\ sp + 48 \in Memory
    <3>1. sp \in Nat /\ sp + 48 \in Memory
      BY <1>2, SlotPlace
    <3> QED  BY <2>1, <3>1 DEF Clear
  <2> QED  BY <1>10, <2>1
<1>15. Kernel'
  <2>1. /\ Dst(ip - 1)' = Dst(c) /\ Src(ip - 1)' = Src(c) /\ Of(ip - 1)' = Of(c)
        /\ Entry(ip - 1)' = Entry(c)
    BY <1>1, FrameKept DEF c, Dst, Src, Of, Entry, SameFrame, Parameters
  <2>2. ip' = 32 => XKept(AddrOf(kernel.src))'
    BY <1>1, <1>3, <1>4, <1>7, FrameKept DEF XKept
  <2>3. DOMAIN kernel' = DOMAIN NoKernel /\ NoKernel' = NoKernel
    BY <1>1, <1>2 DEF Kernel, NoKernel
  <2>4. ip' - 1 = c
    BY <1>1 DEF c
  <2> QED  BY <1>1, <1>3, <1>4, <1>7, <2>1, <2>2, <2>3, <2>4 DEF Kernel
<1>16. Slots'
  <2>1. CASE which = "two"
    <3>1. ip' \in {14, 24}
      BY <1>1, <1>4, <1>5, <2>1
    <3> QED  BY <1>3, <1>7, <2>1, <3>1 DEF Slots, Held
  <2>2. CASE which = "three"
    <3>1. ip' \in {18, 32, 42} /\ ip' = ip
      BY <1>1, <1>4, <1>5, <2>2
    <3>2. ip' \in 6..18 => XKept(mem[sp + 48])'
      <4>1. SUFFICES ASSUME ip' \in 6..18 PROVE XKept(mem[sp + 48])'
        OBVIOUS
      <4>2. XKept(mem[sp + 48])
        BY <1>1, <1>2, <2>2, <4>1 DEF Slots
      <4> QED  BY <1>1, <1>3, <1>14, <2>2, <4>2, FrameKept DEF XKept
    <3> QED  BY <1>3, <1>7, <2>2, <3>1, <3>2 DEF Slots, Held
  <2> QED  BY <1>4, <2>1, <2>2
<1>17. InputThere'
  <2>1. SUFFICES ASSUME args["ch"] # args["cc"] \/ Before(IF which = "two" THEN 13 ELSE 17)'
                 PROVE  Points(CC, Input)'
    BY <1>3 DEF InputThere
  <2>2. Before(IF which = "two" THEN 13 ELSE 17)' = Before(IF which = "two" THEN 13 ELSE 17)
    BY <1>1, <1>3, <1>7 DEF Before
  <2>3. Points(CC, Input)
    BY <1>2, <2>1, <2>2 DEF Data, InputThere
  <2>4. args["ch"] # args["cc"] \/ c \in {13, 17}
    BY <1>3, <1>1, <1>4, <1>5, <2>1 DEF Before
  <2>5. Far(CC, d) /\ CC \in Nat /\ AllClear(CC)
    <3>1. CC \in Areas
      BY DEF Areas
    <3> QED  BY <1>2, <1>4, <2>4, <3>1, CallsApart, AreasClear DEF d
  <2>6. \A t : Points(CC, t) => Points(CC, t)'
    BY <1>1, <1>6, <1>11, <2>5, PointsFar
  <2>7. Input' = Input
    BY <1>1 DEF SameFrame, Input
  <2> QED  BY <2>3, <2>6, <2>7 DEF Points
<1>18. ResultsThere'
  <2>1. SUFFICES ASSUME NEW b \in Calls, Right(b)', ~Before(b)', Before(User(b))'
                 PROVE  Points(Dst(b), Out(b))'
    BY <1>3 DEF ResultsThere
  <2>2. Right(b) /\ Dst(b)' = Dst(b) /\ Out(b)' = Out(b)
    BY <1>1, <2>1, PassesKept
  <2>3. ~Before(b) /\ Before(User(b))
    BY <1>1, <1>7, <2>1 DEF Before, User
  <2>4. Points(Dst(b), Out(b))
    BY <1>2, <2>2, <2>3 DEF Data, ResultsThere
  <2>5. User(b) = c
    <3>1. CASE which = "two"
      BY <1>1, <1>4, <1>5, <2>3, <3>1 DEF Before, User, Calls
    <3>2. CASE which = "three"
      BY <1>1, <1>4, <1>5, <2>3, <3>2 DEF Before, User, Calls
    <3> QED  BY <1>4, <3>1, <3>2
  <2>6. Dst(b) \in Nat /\ Far(Dst(b), d) /\ AllClear(Dst(b))
    <3>1. Dst(b) = Src(c) /\ Far(Src(c), Dst(c)) /\ Src(c) \in Areas
      BY <1>2, <1>4, <2>5, CallsApart
    <3> QED  BY <1>2, <1>4, <3>1, AreasClear DEF d
  <2>7. \A t : Points(Dst(b), t) => Points(Dst(b), t)'
    <3>1. \A e \in Nat : \A t : AllClear(e) /\ Far(e, d) /\ Points(e, t) => Points(e, t)'
      BY <1>1, <1>6, <1>11, PointsFar
    <3> QED  BY <2>2, <2>6, <3>1 DEF Points
  <2> QED  BY <2>2, <2>4, <2>7 DEF Points
<1>19. PointsThere'
  <2>1. SUFFICES ASSUME Right(c)', NEW j \in (1..n) \ kernel'.left
                 PROVE  PointAt(mem', d + 16 * (j - 1)) = Out(c)[j]
    <3>1. ip' - 1 = c /\ Out(ip - 1)' = Out(c) /\ (Right(ip - 1)' <=> Right(c)')
      BY <1>1, PassesKept DEF c, Right
    <3> QED  BY <1>3, <1>7, <3>1 DEF PointsThere
  <2>2. Right(c)
    BY <1>1, <2>1, FrameKept DEF Right, c
  <2>3. CASE j = p
    <3>1. v = V(Entry(c), p, Of(c) \o In(c))
      BY <1>1, <1>2, <1>4, <2>2, Reading DEF v, c, Data
    <3>2. Out(c)[p] = v
      BY <3>1 DEF Out, Transform
    <3> QED  BY <1>9, <2>3, <3>2 DEF PointAt, a
  <2>4. CASE j # p
    <3>1. j \notin kernel.left
      BY <1>7, <2>1, <2>4
    <3>2. PointAt(mem, d + 16 * (j - 1)) = Out(c)[j]
      BY <1>1, <1>2, <2>2, <3>1 DEF Data, PointsThere, d, c
    <3> DEFINE e == d + 16 * (j - 1)
    <3>3. e \in Memory /\ e + 8 \in Memory
      BY <1>6 DEF AllClear, Clear
    <3>4. e # a /\ e # a + 8 /\ e + 8 # a /\ e + 8 # a + 8
      BY <1>6, <2>4 DEF a
    <3>5. mem'[e] = mem[e] /\ mem'[e + 8] = mem[e + 8]
      BY <1>9, <3>3, <3>4
    <3> QED  BY <3>2, <3>5 DEF PointAt
  <2> QED  BY <2>3, <2>4
<1>20. (DOMAIN mem = Memory)'
  BY <1>9 DEF Memory, StackWords, Area
<1>21. Rest'
  BY <1>1, <1>2, <1>3, <1>12, <1>15, <1>16, <1>17, <1>18, <1>19, <1>20 DEF Rest, Data
<1>22. Loaded'
  BY <1>7 DEF Loaded
<1> QED  BY <1>1, <1>21, <1>22

-----------------------------------------------------------------------------
(*****************************************************************************)
(* The move of the stack.                                                    *)
(*****************************************************************************)

\* How far the stack moves, which words of it are pointers into it, and what
\* is copied.
Shift == NewStack - Stack
Inside(v) == v.tag = "addr" /\ v.num >= sp /\ v.num < Top(sp, which)
Adjusted(a) == IF a < sp + 32 /\ Inside(mem[a]) THEN AddrOf(mem[a].num + Shift) ELSE mem[a]
InOld(a) == sp <= a /\ a < Top(sp, which)

\* The frame and what lies above it are within the stack's room.
LEMMA WithinRoom ==
  ASSUME Args, NEW o \in StackOffsets, sp = Stack + o
  PROVE  /\ Stack \in Nat /\ NewStack \in Nat /\ Room \in Nat /\ sp \in Nat
         /\ Stack % 64 = 0 /\ NewStack % 64 = 0
         /\ Top(sp, which) \in Nat
         /\ Stack <= sp /\ Top(sp, which) <= Stack + Room
<1> DEFINE F == FrameSize(which)
           N == Len(Names(which))
<1>1. /\ o \in 0..63 /\ Stack \in Nat /\ NewStack \in Nat /\ Stack % 64 = 0 /\ NewStack % 64 = 0
  BY FramesAssumption
<1>2. which \in {"two", "three"}
  BY DEF Args
<1>3. F \in Nat /\ Room \in Nat /\ F + 16 + 8 * N + 64 <= Room /\ N = IF which = "two" THEN 9 ELSE 15
  BY <1>2, Sizes
<1>4. Top(sp, which) = sp + F + 16 + 8 * N
  BY DEF Top
<1> HIDE DEF F, N
<1>5. N \in Nat
  BY <1>3
<1> QED  BY <1>1, <1>3, <1>4, <1>5

\* Where the words are after the stack has moved.
LEMMA Moved ==
  ASSUME Args, Placed, DOMAIN mem = Memory, StackGrows
  PROVE  /\ sp' = sp + Shift /\ which' = which /\ args' = args /\ n' = n /\ ip' = ip
         /\ regs' = regs /\ kernel' = kernel
         /\ kernel.phase = "entered" /\ kernel.entry \in Growing
         /\ OnStack(Stack) /\ OnStack(NewStack)' /\ ~OnStack(NewStack)
         /\ DOMAIN mem' = Memory
         /\ \A w \in Nat : InOld(w) /\ w % 8 = 0 => mem'[w + Shift] = Adjusted(w)
         /\ \A w \in Area(CC, max) \cup Area(CH, max) : mem'[w] = mem[w]
<1> DEFINE T == Top(sp, which)
           o == sp - Stack
           M == 16 * max
<1>1. /\ sp' = sp + Shift /\ which' = which /\ args' = args /\ n' = n /\ ip' = ip
      /\ regs' = regs /\ kernel' = kernel
      /\ kernel.phase = "entered" /\ kernel.entry \in Growing
      /\ o \in StackOffsets
  BY DEF StackGrows, Shift
<1>2. mem' = [a \in DOMAIN mem |->
                IF a \in {b \in DOMAIN mem : InOld(b)} THEN Garbage
                ELSE IF a - Shift \in {b \in DOMAIN mem : InOld(b)} THEN Adjusted(a - Shift) ELSE mem[a]]
  BY DEF StackGrows, InOld, Adjusted, Inside, Shift
<1>3. /\ Stack \in Nat /\ NewStack \in Nat /\ o \in 0..63
      /\ \A q \in StackOffsets : q \in 0..63
  BY <1>1, FramesAssumption
<1>4. sp \in Nat
  BY Geometry
<1>5. sp = Stack + o
  BY <1>3, <1>4
<1>6. T \in Nat /\ Room \in Nat /\ Stack <= sp /\ T <= Stack + Room
  BY <1>1, <1>5, WithinRoom
<1>7. /\ Apart(Stack, NewStack, Room, Room)
      /\ \A c \in {CC, CH} : c \in Nat /\ Apart(Stack, c, Room, M) /\ Apart(NewStack, c, Room, M)
      /\ M \in Nat /\ max \in Nat
  BY FramesAssumption
<1>8. OnStack(Stack)
  BY <1>1, <1>5 DEF OnStack
<1>9. OnStack(NewStack)'
  <2>1. sp' = NewStack + o
    BY <1>1, <1>3, <1>5 DEF Shift
  <2> QED  BY <1>1, <2>1 DEF OnStack
<1> HIDE DEF o, T, M
<1>10. ~OnStack(NewStack)
  <2>1. SUFFICES ASSUME NEW q \in StackOffsets, sp = NewStack + q PROVE FALSE
    BY DEF OnStack
  <2>2. q \in 0..63
    BY <1>3
  <2>3. Room >= 64
    <3>1. /\ FrameSize("three") \in Nat /\ Len(Names("three")) \in Nat
          /\ FrameSize("three") + 16 + 8 * Len(Names("three")) + 64 <= Room
      BY Sizes
    <3> DEFINE f == FrameSize("three")
               k == Len(Names("three"))
    <3> HIDE DEF f, k
    <3> QED  BY <1>6, <3>1 DEF f, k
  <2> QED  BY <1>3, <1>5, <1>6, <1>7, <2>1, <2>2, <2>3 DEF Apart
<1>11. ASSUME NEW w \in Nat, InOld(w), w % 8 = 0
       PROVE  mem'[w + Shift] = Adjusted(w)
  <2>1. w \in Memory
    BY <1>11, Geometry DEF InOld
  <2>2. w + Shift \in Memory
    <3>1. w \in StackWords
      BY <1>3, <1>4, <1>6, <1>11 DEF StackWords, InOld, T
    <3>2. w + Shift = w + NewStack - Stack
      BY <1>3 DEF Shift
    <3> QED  BY <3>1, <3>2 DEF Memory
  <2>3. ~InOld(w + Shift)
    BY <1>3, <1>4, <1>6, <1>7, <1>11 DEF InOld, T, Shift, Apart
  <2>4. (w + Shift) - Shift = w
    BY <1>3 DEF Shift
  <2> QED  BY <1>2, <1>11, <2>1, <2>2, <2>3, <2>4
<1>12. ASSUME NEW w \in Area(CC, max) \cup Area(CH, max)
       PROVE  mem'[w] = mem[w]
  <2>1. PICK c \in {CC, CH} : w \in Area(c, max)
    OBVIOUS
  <2>2. w \in Nat /\ c <= w /\ w < c + M
    <3>1. PICK j \in 0..(2 * max - 1) : w = c + 8 * j
      BY <2>1 DEF Area
    <3>2. c \in Nat /\ 2 * max \in Nat
      BY <1>7
    <3>3. 8 * j < 16 * max /\ j \in Nat
      BY <1>7, <3>1, <3>2
    <3> QED  BY <1>7, <3>1, <3>2, <3>3 DEF M
  <2>3. w \in Memory
    BY <1>12 DEF Memory
  <2>4. ~InOld(w)
    BY <1>3, <1>4, <1>6, <1>7, <2>2 DEF InOld, T, Apart
  <2>5. ~InOld(w - Shift)
    BY <1>3, <1>4, <1>6, <1>7, <2>2 DEF InOld, T, Apart, Shift
  <2> QED  BY <1>2, <2>3, <2>4, <2>5
<1>13. DOMAIN mem' = Memory
  BY <1>2
<1> QED  BY <1>1, <1>8, <1>9, <1>10, <1>11, <1>12, <1>13

\* How the frame moves.
LEMMA MovedFrame ==
  ASSUME Args, Placed, DOMAIN mem = Memory, StackGrows
  PROVE  /\ Args' /\ Placed'
         /\ Shift \in Int /\ Shift % 64 = 0
         /\ sp' = sp + Shift /\ B' = B + Shift
         /\ X' = IF args["x"] = AddrOf(0) THEN X + Shift ELSE X
         /\ Calls' = Calls /\ Code' = Code /\ Steady' = Steady
         /\ FrameSize(which)' = FrameSize(which)
         /\ \A name \in DOMAIN args : FP(sp, which, name)' = FP(sp, which, name) + Shift
<1>1. /\ sp' = sp + Shift /\ which' = which /\ args' = args /\ n' = n
      /\ OnStack(NewStack)'
  BY Moved
<1>2. Stack \in Nat /\ NewStack \in Nat /\ Stack % 64 = 0 /\ NewStack % 64 = 0
  BY FramesAssumption
<1>3. Shift \in Int /\ Shift % 64 = 0
  BY <1>2 DEF Shift
<1>4. sp \in Nat /\ FrameSize(which) \in Nat /\ B \in Nat /\ max \in Nat
  BY Geometry
<1>5. B' = B + Shift
  <2> DEFINE y == sp + Fixed(which) + 63
             z == sp' + Fixed(which) + 63
  <2>1. B = RoundDown(y, 64) /\ B' = RoundDown(z, 64)
    BY <1>1 DEF B, Buf
  <2>2. Fixed(which) \in Nat
    BY DEF Fixed
  <2>3. y \in Int /\ z = y + Shift
    BY <1>1, <1>3, <1>4, <2>2
  <2> HIDE DEF y, z
  <2>4. z % 64 = y % 64
    BY <1>3, <2>3
  <2> QED  BY <1>3, <2>1, <2>3, <2>4 DEF RoundDown
<1>6. X' = IF args["x"] = AddrOf(0) THEN X + Shift ELSE X
  <2>1. CASE args["x"] = AddrOf(0)
    <3>1. X = B + 16 * max /\ X' = B' + 16 * max
      BY <1>1, <2>1 DEF X
    <3>2. 16 * max \in Nat
      BY <1>4
    <3> QED  BY <1>3, <1>4, <1>5, <2>1, <3>1, <3>2
  <2>2. CASE args["x"] # AddrOf(0)
    BY <1>1, <2>2 DEF X
  <2> QED  BY <2>1, <2>2
<1>7. Args' /\ Placed'
  BY <1>1 DEF Args, Placed
<1>8. Calls' = Calls /\ Code' = Code /\ Steady' = Steady
  BY <1>1 DEF Calls, Code, Steady
<1>9. FrameSize(which)' = FrameSize(which)
  BY <1>1
<1>10. ASSUME NEW name \in DOMAIN args PROVE FP(sp, which, name)' = FP(sp, which, name) + Shift
  <2> DEFINE i == CHOOSE j \in DOMAIN Names(which) : Names(which)[j] = name
  <2>1. /\ FP(sp, which, name) = sp + FrameSize(which) + 16 + 8 * (i - 1)
        /\ FP(sp, which, name)' = sp' + FrameSize(which) + 16 + 8 * (i - 1)
    BY <1>1 DEF FP
  <2>2. i \in DOMAIN Names(which)
    BY DEF Args
  <2>3. DOMAIN Names(which) \subseteq Nat
    <3>1. which = "two" \/ which = "three"
      BY DEF Args
    <3> QED  BY <3>1 DEF Names
  <2> HIDE DEF i
  <2>4. i \in Nat
    BY <2>2, <2>3
  <2> QED  BY <1>1, <1>3, <1>4, <2>1, <2>4
<1> QED  BY <1>1, <1>3, <1>5, <1>6, <1>7, <1>8, <1>9, <1>10

\* The words of the frame above the callees' pointers are copied as they are.
LEMMA Copied ==
  ASSUME Args, Placed, DOMAIN mem = Memory, StackGrows,
         NEW w \in Nat, sp + 32 <= w, w < Top(sp, which), w % 8 = 0
  PROVE  mem'[w + Shift] = mem[w]
<1>1. sp \in Nat
  BY Geometry
<1>2. InOld(w) /\ ~(w < sp + 32)
  BY <1>1 DEF InOld
<1> QED  BY <1>2, Moved DEF Adjusted

\* What becomes of a word of the arguments' slots.
LEMMA SlotMoves ==
  ASSUME Args, Placed, DOMAIN mem = Memory, StackGrows
  PROVE  /\ \A o \in {0, 8, 16, 24} :
              /\ mem[sp + o] = AddrOf(B) => mem'[sp' + o] = AddrOf(B')
              /\ which = "three" /\ mem[sp + o] = AddrOf(X) => mem'[sp' + o] = AddrOf(X')
              /\ \A c \in {CC, CH} : mem[sp + o] = AddrOf(c) => mem'[sp' + o] = AddrOf(c)
              /\ mem[sp + o].tag # "addr" => mem'[sp' + o] = mem[sp + o]
         /\ \A o \in {32, 40} : mem'[sp' + o] = mem[sp + o]
         /\ which = "three" => mem'[sp' + 48] = mem[sp + 48]
<1> DEFINE T == Top(sp, which)
           F == FrameSize(which)
           M == 16 * max
<1>1. /\ sp \in Nat /\ sp % 8 = 0 /\ B \in Nat /\ F \in Nat /\ max \in Nat
      /\ sp + (IF which = "two" THEN 48 ELSE 56) <= B
      /\ B + (IF which = "two" THEN M ELSE 32 * max) <= sp + F
      /\ T = sp + F + 16 + (IF which = "two" THEN 72 ELSE 120)
      /\ CC \in Nat /\ CH \in Nat
      /\ CC + M <= sp \/ T <= CC
      /\ CH + M <= sp \/ T <= CH
  <2>1. 16 * max \in Nat
    BY Geometry
  <2> QED  BY <2>1, Geometry
<1>2. /\ sp' = sp + Shift
      /\ \A w \in Nat : InOld(w) /\ w % 8 = 0 => mem'[w + Shift] = Adjusted(w)
  BY Moved
<1>3. /\ Shift \in Int /\ B' = B + Shift
      /\ X' = IF args["x"] = AddrOf(0) THEN X + Shift ELSE X
  BY MovedFrame
<1>4. M \in Nat /\ 16 <= M /\ 32 * max = M + M
  BY <1>1, FramesAssumption
<1>5. which = "three" => IF args["x"] = AddrOf(0) THEN X = B + M ELSE X = CH
  BY DEF Args, X, AddrOf, V
<1>6. which \in {"two", "three"}
  BY DEF Args
<1> HIDE DEF T, F, M
<1>7. /\ sp <= B /\ B < T
      /\ ~(sp <= CC /\ CC < T) /\ ~(sp <= CH /\ CH < T)
      /\ which = "three" => sp <= B + M /\ B + M < T
  BY <1>1, <1>4, <1>6
<1>8. ASSUME NEW o \in {0, 8, 16, 24, 32, 40, 48}, o < 48 \/ which = "three"
      PROVE  mem'[sp' + o] = Adjusted(sp + o)
  <2>1. sp + o \in Nat /\ (sp + o) % 8 = 0 /\ sp <= sp + o /\ sp + o < T
    BY <1>1, <1>4, <1>6, <1>8
  <2>2. (sp + o) + Shift = sp' + o
    BY <1>1, <1>2, <1>3
  <2> QED  BY <1>2, <2>1, <2>2 DEF InOld, T
<1>9. ASSUME NEW o \in {0, 8, 16, 24}
      PROVE  mem'[sp' + o] = IF Inside(mem[sp + o]) THEN AddrOf(mem[sp + o].num + Shift) ELSE mem[sp + o]
  <2>1. sp + o < sp + 32
    BY <1>1
  <2> QED  BY <1>8, <2>1 DEF Adjusted
<1>10. ASSUME NEW o \in {32, 40, 48}, o < 48 \/ which = "three"
       PROVE  mem'[sp' + o] = mem[sp + o]
  <2>1. ~(sp + o < sp + 32)
    BY <1>1
  <2> QED  BY <1>8, <1>10, <2>1 DEF Adjusted
<1>11. ASSUME NEW a PROVE AddrOf(a).tag = "addr" /\ AddrOf(a).num = a
  BY DEF AddrOf, V
<1>12. /\ Inside(AddrOf(B)) /\ ~Inside(AddrOf(CC)) /\ ~Inside(AddrOf(CH))
       /\ which = "three" => Inside(AddrOf(B + M))
  BY <1>1, <1>4, <1>7, <1>11 DEF Inside, T
<1>13. ASSUME NEW o \in {0, 8, 16, 24}
       PROVE  /\ mem[sp + o] = AddrOf(B) => mem'[sp' + o] = AddrOf(B')
              /\ which = "three" /\ mem[sp + o] = AddrOf(X) => mem'[sp' + o] = AddrOf(X')
              /\ \A c \in {CC, CH} : mem[sp + o] = AddrOf(c) => mem'[sp' + o] = AddrOf(c)
              /\ mem[sp + o].tag # "addr" => mem'[sp' + o] = mem[sp + o]
  <2>1. mem[sp + o] = AddrOf(B) => mem'[sp' + o] = AddrOf(B')
    BY <1>3, <1>9, <1>11, <1>12
  <2>2. ASSUME which = "three", mem[sp + o] = AddrOf(X) PROVE mem'[sp' + o] = AddrOf(X')
    <3>1. CASE args["x"] = AddrOf(0)
      BY <1>3, <1>5, <1>9, <1>11, <1>12, <2>2, <3>1
    <3>2. CASE args["x"] # AddrOf(0)
      BY <1>3, <1>5, <1>9, <1>12, <2>2, <3>2
    <3> QED  BY <3>1, <3>2
  <2>3. \A c \in {CC, CH} : mem[sp + o] = AddrOf(c) => mem'[sp' + o] = AddrOf(c)
    BY <1>9, <1>12
  <2>4. mem[sp + o].tag # "addr" => mem'[sp' + o] = mem[sp + o]
    BY <1>9 DEF Inside
  <2> QED  BY <2>1, <2>2, <2>3, <2>4
<1>14. \A o \in {32, 40} : mem'[sp' + o] = mem[sp + o]
  BY <1>10
<1>15. which = "three" => mem'[sp' + 48] = mem[sp + 48]
  BY <1>10
<1> QED  BY <1>13, <1>14, <1>15

\* A buffer moves with the frame.
LEMMA BufferMoves ==
  ASSUME Args, Placed, DOMAIN mem = Memory, StackGrows,
         NEW d \in {0, 16 * max}, d = 0 \/ which = "three", NEW j \in 1..n
  PROVE  PointAt(mem', B' + d + 16 * (j - 1)) = PointAt(mem, B + d + 16 * (j - 1))
<1> DEFINE T == Top(sp, which)
           F == FrameSize(which)
           M == 16 * max
           a == B + d + 16 * (j - 1)
<1>1. /\ sp \in Nat /\ sp % 8 = 0 /\ F \in Nat
      /\ n \in Nat /\ max \in Nat /\ 16 * n <= M
      /\ T = sp + F + 16 + (IF which = "two" THEN 72 ELSE 120)
      /\ B \in Nat /\ B % 8 = 0
      /\ sp + (IF which = "two" THEN 48 ELSE 56) <= B
      /\ B + (IF which = "two" THEN M ELSE 32 * max) <= sp + F
  BY Geometry
<1>2. M \in Nat /\ M % 8 = 0 /\ 32 * max = M + M /\ d \in Nat /\ d % 8 = 0
  BY <1>1
<1>3. d + M <= (IF which = "two" THEN M ELSE 32 * max)
  <2>1. d \in {0, M}
    OBVIOUS
  <2> HIDE DEF M
  <2> QED  BY <1>2, <2>1
<1>4. a \in Nat /\ a % 8 = 0 /\ B <= a /\ a + 16 <= B + d + M
  BY <1>1, <1>2
<1>5. Shift \in Int /\ B' = B + Shift
  BY MovedFrame
<1>6. a + Shift = B' + d + 16 * (j - 1)
  BY <1>1, <1>2, <1>5
<1> HIDE DEF F, T, M, a
<1>7. sp + 32 <= a /\ a + 8 < T
  BY <1>1, <1>2, <1>3, <1>4
<1>8. mem'[a + Shift] = mem[a]
  BY <1>1, <1>4, <1>7, Copied DEF T
<1>9. mem'[(a + 8) + Shift] = mem[a + 8]
  <2>1. a + 8 \in Nat /\ (a + 8) % 8 = 0 /\ sp + 32 <= a + 8
    BY <1>1, <1>4, <1>7
  <2> QED  BY <1>7, <2>1, Copied DEF T
<1>10. (a + 8) + Shift = (a + Shift) + 8
  BY <1>4, <1>5
<1>11. PointAt(mem', a + Shift) = PointAt(mem, a)
  BY <1>8, <1>9, <1>10 DEF PointAt
<1> QED  BY <1>6, <1>11 DEF a

\* An array stays where it is.
LEMMA ArrayStays ==
  ASSUME Args, Placed, DOMAIN mem = Memory, StackGrows, NEW b \in {CC, CH}, NEW j \in 1..n
  PROVE  PointAt(mem', b + 16 * (j - 1)) = PointAt(mem, b + 16 * (j - 1))
<1>1. b \in Nat /\ n \in Nat /\ max \in Nat /\ n <= max
  BY FramesAssumption DEF Args
<1>2. b + 16 * (j - 1) \in Area(b, max) /\ b + 16 * (j - 1) + 8 \in Area(b, max)
  BY <1>1, ArrayWords
<1>3. \A w \in Area(b, max) : mem'[w] = mem[w]
  BY Moved
<1> QED  BY <1>2, <1>3 DEF PointAt

\* Where the passes read and write, after the stack has moved.
LEMMA AreaMoves ==
  ASSUME Args, Placed, DOMAIN mem = Memory, StackGrows, NEW c \in Calls, NEW s, Points(Dst(c), s)
  PROVE  \A j \in 1..n : PointAt(mem', Dst(c)' + 16 * (j - 1)) = s[j]
<1>1. SUFFICES ASSUME NEW j \in 1..n
               PROVE  PointAt(mem', Dst(c)' + 16 * (j - 1)) = PointAt(mem, Dst(c) + 16 * (j - 1))
  BY DEF Points
<1>2. args' = args /\ which' = which
  BY Moved
<1>3. /\ B' \in Int /\ B \in Nat /\ max \in Nat
      /\ X' = IF args["x"] = AddrOf(0) THEN B' + 16 * max ELSE X
      /\ args["x"] = AddrOf(0) => X = B + 16 * max
  BY <1>2, MovedFrame, Geometry DEF X
<1>4. /\ which = "three" /\ args["x"] # AddrOf(0) => X = CH
      /\ args["ch"].num \in {CC, CH} /\ which \in {"two", "three"}
  BY DEF Args, X, AddrOf, V
<1>5. CASE c \in {13, 31}
  <2>1. Dst(c) = B /\ Dst(c)' = B'
    BY <1>5 DEF Dst
  <2>2. B \in Nat /\ B' \in Int
    BY <1>3
  <2>3. \A x \in Int : x + 0 = x
    OBVIOUS
  <2>4. B + 0 = B /\ B' + 0 = B'
    <3>1. B \in Int
      BY <2>2
    <3> QED  BY <2>2, <2>3, <3>1, Zenon
  <2>5. \A d \in {0, 16 * max} : d = 0 =>
          PointAt(mem', B' + d + 16 * (j - 1)) = PointAt(mem, B + d + 16 * (j - 1))
    BY BufferMoves
  <2>6. PointAt(mem', B' + 0 + 16 * (j - 1)) = PointAt(mem, B + 0 + 16 * (j - 1))
    BY <2>5
  <2> QED  BY <2>1, <2>4, <2>6
<1>6. CASE c = 17
  <2>1. Dst(c) = X /\ Dst(c)' = X' /\ which = "three"
    BY <1>4, <1>6 DEF Dst, Calls
  <2>2. CASE args["x"] = AddrOf(0)
    BY <1>3, <2>1, <2>2, BufferMoves
  <2>3. CASE args["x"] # AddrOf(0)
    BY <1>3, <1>4, <2>1, <2>3, ArrayStays
  <2> QED  BY <2>2, <2>3
<1>7. CASE c \notin {13, 17, 31}
  <2>1. Dst(c) = args["ch"].num /\ Dst(c)' = args["ch"].num
    BY <1>2, <1>7 DEF Dst
  <2> QED  BY <1>4, <2>1, ArrayStays
<1> QED  BY <1>5, <1>6, <1>7

\* The passes are the same ones wherever the stack is.
LEMMA PassesMoved ==
  ASSUME Args, Placed, DOMAIN mem = Memory, StackGrows, NEW c
  PROVE  /\ Of(c)' = Of(c) /\ Out(c)' = Out(c) /\ Right(c)' = Right(c)
         /\ Before(c)' = Before(c) /\ Input' = Input
<1>1. /\ which' = which /\ args' = args /\ n' = n /\ ip' = ip /\ kernel' = kernel
      /\ Steady' = Steady
  BY Moved, MovedFrame
<1>2. ASSUME NEW d PROVE Of(d)' = Of(d)
  BY <1>1 DEF Of, Parameters
<1>3. Input' = Input
  BY <1>1 DEF Input
<1>4. AfterOne' = AfterOne
  BY <1>1, <1>2, <1>3 DEF AfterOne, Transform
<1>5. AfterTwo' = AfterTwo
  BY <1>1, <1>2, <1>4 DEF AfterTwo, Transform
<1>6. In(c)' = In(c)
  BY <1>3, <1>4, <1>5 DEF In
<1>7. Out(c)' = Out(c)
  BY <1>1, <1>2, <1>6 DEF Out, Transform
<1>8. Right(c)' = Right(c) /\ Before(c)' = Before(c)
  BY <1>1 DEF Right, Before
<1> QED  BY <1>2, <1>3, <1>7, <1>8

\* The caller's frame moves as it is.
LEMMA CallerMoves ==
  ASSUME Args, Placed, DOMAIN mem = Memory, StackGrows, CallerFrameIntact
  PROVE  CallerFrameIntact'
<1> DEFINE F == FrameSize(which)
           T == Top(sp, which)
<1>1. /\ sp \in Nat /\ sp % 8 = 0 /\ F \in Nat /\ F % 8 = 0 /\ B \in Nat
      /\ T = sp + F + 16 + (IF which = "two" THEN 72 ELSE 120)
  BY Geometry
<1>2. sp' = sp + Shift /\ args' = args /\ which' = which
  BY Moved
<1>3. Shift \in Int /\ F' = F
  BY MovedFrame
<1>4. 48 <= F
  BY SlotPlace
<1>5. ASSUME NEW o \in {F, F + 8} PROVE mem'[sp' + o] = Caller(o)
  <2>1. mem[sp + o] = Caller(o)
    BY <1>5 DEF CallerFrameIntact
  <2> HIDE DEF F, T
  <2>2. sp + o \in Nat /\ (sp + o) % 8 = 0 /\ sp + 32 <= sp + o /\ sp + o < T
    BY <1>1, <1>4, <1>5
  <2>3. mem'[(sp + o) + Shift] = mem[sp + o]
    BY <2>2, Copied DEF T
  <2>4. (sp + o) + Shift = sp' + o
    BY <1>1, <1>2, <1>3, <1>5
  <2> QED  BY <2>1, <2>3, <2>4
<1>6. ASSUME NEW name \in DOMAIN args PROVE mem'[FP(sp, which, name)'] = args[name]
  <2> DEFINE a == FP(sp, which, name)
  <2>1. a \in Nat /\ a % 8 = 0 /\ sp + F + 16 <= a /\ a + 8 <= T
    BY ArgPlace
  <2>2. mem[a] = args[name]
    BY DEF CallerFrameIntact
  <2>3. FP(sp, which, name)' = a + Shift
    BY MovedFrame
  <2> HIDE DEF F, T, a
  <2>4. sp + 32 <= a /\ a < T
    BY <1>1, <1>4, <2>1
  <2>5. mem'[a + Shift] = mem[a]
    BY <2>1, <2>4, Copied DEF T
  <2> QED  BY <2>2, <2>3, <2>5
<1>7. FrameSize(which') = F
  BY <1>2
<1>8. \A name : FP(sp, which, name)' = FP(sp', which', name)
  BY DEF FP
<1> QED  BY <1>2, <1>3, <1>5, <1>6, <1>7, <1>8 DEF CallerFrameIntact

LEMMA KernelMoves ==
  ASSUME Args, Placed, DOMAIN mem = Memory, StackGrows, Kernel
  PROVE  Kernel'
<1>1. /\ n' = n /\ ip' = ip /\ kernel' = kernel /\ kernel.phase = "entered"
      /\ Calls' = Calls
  BY Moved, MovedFrame
<1> QED  BY <1>1 DEF Kernel, NoKernel

\* The buffers move with their points, the arrays stay.
LEMMA DataMoves ==
  ASSUME Args, Placed, DOMAIN mem = Memory, StackGrows, Data
  PROVE  Data'
<1>1. /\ which' = which /\ args' = args /\ n' = n /\ ip' = ip /\ kernel' = kernel
      /\ Calls' = Calls /\ kernel.phase = "entered"
  BY Moved, MovedFrame
<1>2. \A c : Out(c)' = Out(c) /\ Right(c)' = Right(c) /\ Before(c)' = Before(c) /\ Input' = Input
  BY PassesMoved
<1>3. InputThere'
  <2>1. SUFFICES ASSUME args["ch"] # args["cc"] \/ Before(IF which = "two" THEN 13 ELSE 17)
                 PROVE  Points(CC, Input)'
    BY <1>1, <1>2 DEF InputThere
  <2>2. Points(CC, Input)
    BY <2>1 DEF Data, InputThere
  <2> QED  BY <1>1, <1>2, <2>2, ArrayStays DEF Points
<1>4. ResultsThere'
  <2>1. SUFFICES ASSUME NEW c \in Calls, Right(c), ~Before(c), Before(User(c))
                 PROVE  Points(Dst(c), Out(c))'
    BY <1>1, <1>2 DEF ResultsThere, User
  <2>2. Points(Dst(c), Out(c))
    BY <2>1 DEF Data, ResultsThere
  <2> DEFINE s == Out(c)
  <2>3. Points(Dst(c), s)
    BY <2>2
  <2>4. \A t : Points(Dst(c), t) => \A j \in 1..n : PointAt(mem', Dst(c)' + 16 * (j - 1)) = t[j]
    BY AreaMoves
  <2> QED  BY <1>1, <1>2, <2>3, <2>4 DEF Points
<1>5. PointsThere'
  BY <1>1 DEF PointsThere
<1> QED  BY <1>3, <1>4, <1>5 DEF Data

\* The argument slots of the kernel entered hold what they should, moved.
LEMMA SlotsMove ==
  ASSUME Args, Placed, DOMAIN mem = Memory, StackGrows, Kernel, Slots, ip \in Nat
  PROVE  Slots'
<1>1. /\ which' = which /\ args' = args /\ ip' = ip /\ kernel' = kernel
      /\ kernel.phase = "entered" /\ kernel.entry \in Growing
      /\ OnStack(NewStack)' /\ ~OnStack(NewStack)
  BY Moved
<1>2. /\ Steady' = Steady /\ Shift \in Int
      /\ X' = IF args["x"] = AddrOf(0) THEN X + Shift ELSE X
  BY MovedFrame
<1>3. ip - 1 \in Calls /\ kernel.entry = Entry(ip - 1)
  BY <1>1 DEF Kernel
<1>4. \/ which = "two" /\ (ip = 14 \/ ip = 24)
      \/ which = "three" /\ (ip = 18 \/ ip = 32 \/ ip = 42)
  BY <1>3, CallsAre
<1>5. /\ \A o \in {0, 8, 16, 24} :
           /\ mem[sp + o] = AddrOf(B) => mem'[sp' + o] = AddrOf(B')
           /\ which = "three" /\ mem[sp + o] = AddrOf(X) => mem'[sp' + o] = AddrOf(X')
           /\ \A c \in {CC, CH} : mem[sp + o] = AddrOf(c) => mem'[sp' + o] = AddrOf(c)
           /\ mem[sp + o].tag # "addr" => mem'[sp' + o] = mem[sp + o]
      /\ \A o \in {32, 40} : mem'[sp' + o] = mem[sp + o]
      /\ which = "three" => mem'[sp' + 48] = mem[sp + 48]
  BY SlotMoves
<1>6. /\ args["ch"] \in {AddrOf(CC), AddrOf(CH)}
      /\ which = "two" => args["tw"].tag # "addr" /\ args["k0"].tag # "addr" /\ args["k1"].tag # "addr" /\ args["l1"].tag # "addr"
      /\ which = "three" => args["tw0"].tag # "addr" /\ args["k0"].tag # "addr" /\ args["tw1"].tag # "addr" /\ args["k1"].tag # "addr" /\ args["k2"].tag # "addr" /\ args["l1c"].tag # "addr"
  <2>1. \A name \in DOMAIN args \ {"cc", "ch", "x"} : args[name].tag = name
    <3>1. \A name \in DOMAIN args \ {"cc", "ch", "x"} : args[name] = V(name, 0, <<>>)
      BY DEF Args
    <3>2. ASSUME NEW t PROVE V(t, 0, <<>>).tag = t
      BY DEF V
    <3> QED  BY <3>1, <3>2
  <2>2. CASE which = "two"
    <3>1. {"tw", "k0", "k1", "l1"} \subseteq DOMAIN args
      BY <2>2, ArgNames
    <3> QED  BY <2>1, <2>2, <3>1 DEF Args
  <2>3. CASE which = "three"
    <3>1. {"tw0", "k0", "tw1", "k1", "k2", "l1c"} \subseteq DOMAIN args
      BY <2>3, ArgNames
    <3> QED  BY <2>1, <2>3, <3>1 DEF Args
  <2> QED  BY <2>2, <2>3 DEF Args
<1>7. CASE which = "two" /\ ip = 14
  <2>1. /\ mem[sp + 0] = AddrOf(CC)
        /\ mem[sp + 8] = AddrOf(B)
        /\ mem[sp + 16] = args["tw"]
        /\ mem[sp + 24] = args["k0"]
        /\ mem[sp + 32] = args["ido"]
        /\ mem[sp + 40] = IntOf(1)
    BY <1>1, <1>7 DEF Slots, Held
  <2>2. /\ mem'[sp' + 0] = AddrOf(CC)
        /\ mem'[sp' + 8] = AddrOf(B')
        /\ mem'[sp' + 16] = args["tw"]
        /\ mem'[sp' + 24] = args["k0"]
        /\ mem'[sp' + 32] = args["ido"]
        /\ mem'[sp' + 40] = IntOf(1)
    BY <1>5, <1>6, <1>7, <2>1
  <2> QED  BY <1>1, <1>7, <2>2 DEF Slots, Held
<1>8. CASE which = "two" /\ ip = 24
  <2>1. /\ mem[sp + 0] = AddrOf(B)
        /\ mem[sp + 8] = args["ch"]
        /\ mem[sp + 16] = args["k1"]
        /\ mem[sp + 24] = args["l1"]
    BY <1>1, <1>8 DEF Slots, Held
  <2>2. /\ mem'[sp' + 0] = AddrOf(B')
        /\ mem'[sp' + 8] = args["ch"]
        /\ mem'[sp' + 16] = args["k1"]
        /\ mem'[sp' + 24] = args["l1"]
    BY <1>5, <1>6, <1>8, <2>1
  <2> QED  BY <1>1, <1>8, <2>2 DEF Slots, Held
<1>9. CASE which = "three" /\ ip = 18
  <2>1. /\ mem[sp + 0] = AddrOf(CC)
        /\ mem[sp + 8] = AddrOf(X)
        /\ mem[sp + 16] = args["tw0"]
        /\ mem[sp + 24] = args["k0"]
        /\ mem[sp + 32] = args["ido0"]
        /\ mem[sp + 40] = IntOf(1)
    BY <1>1, <1>9 DEF Slots, Held
  <2>2. /\ mem'[sp' + 0] = AddrOf(CC)
        /\ mem'[sp' + 8] = AddrOf(X')
        /\ mem'[sp' + 16] = args["tw0"]
        /\ mem'[sp' + 24] = args["k0"]
        /\ mem'[sp' + 32] = args["ido0"]
        /\ mem'[sp' + 40] = IntOf(1)
    BY <1>5, <1>6, <1>9, <2>1
  <2>3. XKept(mem[sp + 48])'
    <3>1. XKept(mem[sp + 48])
      BY <1>9 DEF Slots
    <3>2. mem'[sp' + 48] = AddrOf(X)
      BY <1>1, <1>5, <1>9, <3>1 DEF XKept
    <3>3. CASE args["x"] = AddrOf(0)
      <4>1. ~Steady
        BY <1>1, <1>3, <1>9, <3>3 DEF Steady, Entry
      <4>2. X \in Nat
        BY <1>9, AreasClear DEF Areas
      <4>3. X' - (NewStack - Stack) = X
        BY <1>2, <3>3, <4>2 DEF Shift
      <4> QED  BY <1>1, <1>2, <3>2, <4>1, <4>3 DEF XKept
    <3>4. CASE args["x"] # AddrOf(0)
      BY <1>2, <3>2, <3>4 DEF XKept
    <3> QED  BY <3>3, <3>4
  <2> QED  BY <1>1, <1>9, <2>2, <2>3 DEF Slots, Held
<1>10. CASE which = "three" /\ ip = 32
  <2>1. /\ mem[sp + 8] = AddrOf(B)
        /\ mem[sp + 16] = args["tw1"]
        /\ mem[sp + 24] = args["k1"]
        /\ mem[sp + 32] = args["ido1"]
        /\ mem[sp + 40] = args["l1b"]
    BY <1>1, <1>10 DEF Slots, Held
  <2>2. /\ mem'[sp' + 8] = AddrOf(B')
        /\ mem'[sp' + 16] = args["tw1"]
        /\ mem'[sp' + 24] = args["k1"]
        /\ mem'[sp' + 32] = args["ido1"]
        /\ mem'[sp' + 40] = args["l1b"]
    BY <1>5, <1>6, <1>10, <2>1
  <2>3. XKept(mem[sp])'
    <3>1. XKept(mem[sp])
      BY <1>1, <1>10 DEF Slots
    <3>2. mem[sp] = AddrOf(X)
      BY <1>1, <3>1 DEF XKept
    <3>3. sp \in Nat /\ sp' = sp + Shift
      BY Geometry, Moved
    <3>4. sp + 0 = sp
      BY <3>3
    <3>5. sp' + 0 = sp'
      BY <1>2, <3>3
    <3>6. mem'[sp'] = AddrOf(X')
      BY <1>5, <1>10, <3>2, <3>4, <3>5
    <3> QED  BY <3>6 DEF XKept
  <2> QED  BY <1>1, <1>10, <2>2, <2>3 DEF Slots, Held
<1>11. CASE which = "three" /\ ip = 42
  <2>1. /\ mem[sp + 0] = AddrOf(B)
        /\ mem[sp + 8] = args["ch"]
        /\ mem[sp + 16] = args["k2"]
        /\ mem[sp + 24] = args["l1c"]
    BY <1>1, <1>11 DEF Slots, Held
  <2>2. /\ mem'[sp' + 0] = AddrOf(B')
        /\ mem'[sp' + 8] = args["ch"]
        /\ mem'[sp' + 16] = args["k2"]
        /\ mem'[sp' + 24] = args["l1c"]
    BY <1>5, <1>6, <1>11, <2>1
  <2> QED  BY <1>1, <1>11, <2>2 DEF Slots, Held
<1> QED  BY <1>4, <1>7, <1>8, <1>9, <1>10, <1>11

\* The move of the stack keeps the invariant.
LEMMA GrowStep ==
  ASSUME Rest, Loaded, DOMAIN regs = Registers, StackGrows
  PROVE  Rest' /\ Loaded' /\ (DOMAIN regs = Registers)'
<1>1. /\ Args /\ Placed /\ DOMAIN mem = Memory /\ CallerFrameIntact
      /\ Kernel /\ Slots /\ Data /\ ip \in 1..(Len(Code) + 1)
  BY DEF Rest
<1>2. /\ ip' = ip /\ regs' = regs /\ kernel' = kernel /\ kernel.phase = "entered"
      /\ DOMAIN mem' = Memory /\ Args' /\ Placed' /\ Code' = Code
  BY <1>1, Moved, MovedFrame
<1>3. ip \in Nat
  BY <1>1, CodeLength
<1>4. CallerFrameIntact' /\ Kernel' /\ Data' /\ Slots'
  BY <1>1, <1>3, CallerMoves, KernelMoves, DataMoves, SlotsMove
<1>5. Loaded'
  BY <1>2 DEF Loaded
<1> QED  BY <1>1, <1>2, <1>4, <1>5 DEF Rest, Memory, StackWords

-----------------------------------------------------------------------------
(*****************************************************************************)
(* The invariant holds from the start and is kept.                           *)
(*****************************************************************************)

\* What a caller passes.
LEMMA ArgsInit == Init => Args
<1> SUFFICES ASSUME Init PROVE Args
  OBVIOUS
<1>1. which \in {"two", "three"} /\ n \in 1..max
  BY DEF Init
<1>2. PICK p \in Arrays :
        /\ p.x # 0 => which = "three" /\ p.ch = CH
        /\ args = [name \in {Names(which)[j] : j \in DOMAIN Names(which)} |->
                     IF name \in {"cc", "ch", "x"} THEN AddrOf(p[name]) ELSE V(name, 0, <<>>)]
  BY DEF Init
<1>3. p["cc"] = CC /\ p["ch"] \in {CC, CH} /\ p["x"] \in {0, CH}
  BY DEF Arrays
<1>4. DOMAIN args = {Names(which)[j] : j \in DOMAIN Names(which)}
  BY <1>2
<1>5. {"cc", "ch"} \subseteq DOMAIN args /\ (which = "three" => "x" \in DOMAIN args)
  <2>1. CASE which = "two"
    <3>1. /\ 1 \in DOMAIN Names(which) /\ Names(which)[1] = "cc"
          /\ 2 \in DOMAIN Names(which) /\ Names(which)[2] = "ch"
      BY <2>1 DEF Names
    <3>2. Names(which)[1] \in DOMAIN args /\ Names(which)[2] \in DOMAIN args
      BY <1>4, <3>1
    <3> QED  BY <2>1, <3>1, <3>2
  <2>2. CASE which = "three"
    <3>1. /\ 1 \in DOMAIN Names(which) /\ Names(which)[1] = "cc"
          /\ 2 \in DOMAIN Names(which) /\ Names(which)[2] = "ch"
          /\ 3 \in DOMAIN Names(which) /\ Names(which)[3] = "x"
      BY <2>2 DEF Names
    <3>2. /\ Names(which)[1] \in DOMAIN args /\ Names(which)[2] \in DOMAIN args
          /\ Names(which)[3] \in DOMAIN args
      BY <1>4, <3>1
    <3> QED  BY <2>2, <3>1, <3>2
  <2> QED  BY <1>1, <2>1, <2>2
<1>6. ASSUME NEW name \in DOMAIN args
      PROVE  args[name] = IF name \in {"cc", "ch", "x"} THEN AddrOf(p[name]) ELSE V(name, 0, <<>>)
  BY <1>2, <1>4
<1>7. args["cc"] = AddrOf(CC) /\ args["ch"] \in {AddrOf(CC), AddrOf(CH)}
  BY <1>3, <1>5, <1>6
<1>8. which = "three" =>
        args["x"] = AddrOf(0) \/ (args["x"] = AddrOf(CH) /\ args["ch"] = AddrOf(CH))
  <2>1. SUFFICES ASSUME which = "three", p["x"] # 0
                 PROVE  args["x"] = AddrOf(CH) /\ args["ch"] = AddrOf(CH)
    BY <1>5, <1>6
  <2>2. p["x"] = CH /\ p["ch"] = CH
    BY <1>2, <1>3, <2>1
  <2> QED  BY <1>5, <1>6, <2>1, <2>2
<1>9. \A name \in DOMAIN args \ {"cc", "ch", "x"} : args[name] = V(name, 0, <<>>)
  BY <1>6
<1> QED  BY <1>1, <1>4, <1>7, <1>8, <1>9 DEF Args

\* The words of the caller's frame and of its array are there at the start.
LEMMA MemoryInit == Init => CallerFrameIntact /\ Points(CC, Input)
<1> SUFFICES ASSUME Init PROVE CallerFrameIntact /\ Points(CC, Input)
  OBVIOUS
<1> DEFINE F == FrameSize(which)
           T == Top(sp, which)
           M == 16 * max
<1>1. Args /\ mem = [a \in Memory |-> InitialWord(a)]
  BY ArgsInit DEF Init
<1>2. Placed
  BY DEF Init, Placed, OnStack
<1>3. /\ sp \in Nat /\ sp % 8 = 0 /\ F \in Nat /\ F % 8 = 0
      /\ n \in Nat /\ max \in Nat /\ 16 * n <= M
      /\ T = sp + F + 16 + (IF which = "two" THEN 72 ELSE 120)
      /\ CC \in Nat
      /\ CC + M <= sp \/ T <= CC
      /\ \A a \in Nat : sp <= a /\ a < T /\ a % 8 = 0 => a \in Memory
  BY <1>1, <1>2, Geometry
<1>4. ASSUME NEW name \in DOMAIN args
      PROVE  /\ FP(sp, which, name) \in Nat /\ sp + F + 16 <= FP(sp, which, name)
             /\ FP(sp, which, name) + 8 <= T /\ FP(sp, which, name) \in Memory
  BY <1>1, <1>2, ArgPlace
<1>5. ASSUME NEW name \in DOMAIN args PROVE mem[FP(sp, which, name)] = args[name]
  <2> DEFINE a == FP(sp, which, name)
             c == CHOOSE nm \in DOMAIN args : a = FP(sp, which, nm)
  <2>1. c \in DOMAIN args /\ a = FP(sp, which, c)
    OBVIOUS
  <2>2. c = name
    BY <1>1, <1>2, <2>1, ArgApart
  <2>3. InitialWord(a) = args[c]
    BY DEF InitialWord
  <2> QED  BY <1>1, <1>4, <2>2, <2>3
<1> HIDE DEF F, T, M
<1>6. ASSUME NEW o \in {F, F + 8} PROVE mem[sp + o] = Caller(o)
  <2>1. /\ sp + o \in Nat /\ (sp + o) % 8 = 0 /\ sp <= sp + o /\ sp + o < T
        /\ sp + o < sp + F + 16
    BY <1>3
  <2>2. \A name \in DOMAIN args : sp + o # FP(sp, which, name)
    BY <1>3, <1>4, <2>1
  <2> DEFINE a == sp + o
  <2>3. InitialWord(a) = Caller(a - sp)
    <3>1. a \in {sp + F, sp + F + 8}
      BY <1>3, <1>6
    <3> HIDE DEF a
    <3>2. ~(\E name \in DOMAIN args : a = FP(sp, which, name))
      BY <2>2 DEF a
    <3> QED  BY <3>1, <3>2 DEF InitialWord, F
  <2>4. (sp + o) - sp = o
    BY <1>3
  <2> QED  BY <1>1, <1>3, <2>1, <2>3, <2>4
<1>7. ASSUME NEW j \in 1..n, NEW a, a = CC + 16 * (j - 1) \/ a = CC + 16 * (j - 1) + 8
      PROVE  mem[a] = V("input", j, <<>>)
  <2>1. a \in Area(CC, max)
    <3>1. n <= max
      BY <1>3 DEF M
    <3> QED  BY <1>3, <1>7, <3>1, ArrayWords
  <2>2. a \in Nat /\ CC <= a /\ a + 8 <= CC + M
    <3>1. M \in Nat
      BY <1>3 DEF M
    <3>2. 16 * (j - 1) + 16 <= 16 * n /\ 16 * (j - 1) \in Nat
      BY <1>3
    <3> QED  BY <1>3, <1>7, <3>1, <3>2
  <2>3. 1 + (a - CC) \div 16 = j
    BY <1>3, <1>7
  <2>8. M \in Nat /\ T \in Nat
    BY <1>3 DEF M
  <2>9. a + 8 <= sp \/ T <= a
    BY <1>3, <2>2, <2>8
  <2>4. ASSUME NEW name \in DOMAIN args PROVE a # FP(sp, which, name)
    BY <1>3, <1>4, <2>2, <2>8, <2>9
  <2>5. a # sp + F /\ a # sp + F + 8
    BY <1>3, <2>2, <2>8, <2>9
  <2>6. InitialWord(a) = V("input", 1 + (a - CC) \div 16, <<>>)
    BY <2>1, <2>4, <2>5 DEF InitialWord, F
  <2>7. a \in Memory
    BY <2>1 DEF Memory
  <2> QED  BY <1>1, <2>3, <2>6, <2>7
<1>8. Points(CC, Input)
  <2>1. SUFFICES ASSUME NEW j \in 1..n PROVE PointAt(mem, CC + 16 * (j - 1)) = V("input", j, <<>>)
    BY DEF Points, Input
  <2>2. /\ mem[CC + 16 * (j - 1)] = V("input", j, <<>>)
        /\ mem[CC + 16 * (j - 1) + 8] = V("input", j, <<>>)
    BY <1>7
  <2> QED  BY <2>2 DEF PointAt
<1> QED  BY <1>5, <1>6, <1>8 DEF CallerFrameIntact, F

LEMMA IInvInit == Init => IInv
<1> SUFFICES ASSUME Init PROVE IInv
  OBVIOUS
<1>1. Args /\ CallerFrameIntact /\ Points(CC, Input)
  BY ArgsInit, MemoryInit
<1>2. ip = 1 /\ kernel = NoKernel /\ DOMAIN mem = Memory /\ DOMAIN regs = Registers
  BY DEF Init
<1>3. kernel.phase = "none"
  BY <1>2 DEF NoKernel
<1>4. Placed
  BY DEF Init, Placed, OnStack
<1>5. ip \in 1..(Len(Code) + 1)
  BY <1>1, <1>2, CodeLength
<1>6. Kernel /\ Loaded /\ Phase
  BY <1>2, <1>3 DEF Kernel, Loaded, Phase
<1>7. Slots
  BY <1>2, <1>3 DEF Slots, Held
<1>8. Data
  <2>1. \A c \in Calls : Before(c)
    BY <1>1, <1>2, CallsAre DEF Before
  <2> QED  BY <1>1, <1>3, <2>1 DEF Data, InputThere, ResultsThere, PointsThere
<1> QED  BY <1>1, <1>2, <1>4, <1>5, <1>6, <1>7, <1>8 DEF IInv, Rest

\* A kernel is entered, then runs, then returns.
LEMMA PhaseStep == Kernel /\ Phase /\ Next => Phase'
<1> SUFFICES ASSUME Kernel, Phase, Next PROVE Phase'
  OBVIOUS
<1>1. DOMAIN kernel = DOMAIN NoKernel
  BY DEF Kernel
<1>2. CASE kernel' = kernel
  BY <1>2 DEF Phase
<1>3. CASE CallKernel
  BY <1>3 DEF CallKernel, NoKernel, Phase
<1>4. CASE KernelStarts
  BY <1>1, <1>4 DEF KernelStarts, NoKernel, Phase
<1>5. CASE KernelReturns
  BY <1>5 DEF KernelReturns, NoKernel, Phase
<1>6. ASSUME NEW j \in 1..n, KernelPoint(j) PROVE Phase'
  BY <1>1, <1>6 DEF KernelPoint, NoKernel, Phase
<1>7. \/ kernel' = kernel \/ CallKernel \/ KernelStarts \/ KernelReturns
      \/ \E j \in 1..n : KernelPoint(j)
  BY DEF Next, LoadArg, LoadWord, StoreWord, StoreOne, LoadBuf, AddToReg, SkipIfNotNil,
         StackGrows, SetReg, SetWord
<1> QED  BY <1>2, <1>3, <1>4, <1>5, <1>6, <1>7

\* A step that changes nothing.
LEMMA IdleStep ==
  ASSUME Rest, Loaded, DOMAIN regs = Registers, SameFrame,
         mem' = mem, kernel' = kernel, ip' = ip, regs' = regs
  PROVE  Rest' /\ Loaded' /\ (DOMAIN regs = Registers)'
<1>1. /\ Args /\ Placed /\ DOMAIN mem = Memory /\ CallerFrameIntact
      /\ Kernel /\ Slots /\ Data /\ ip \in 1..(Len(Code) + 1)
  BY DEF Rest
<1>2. /\ Args' /\ Placed' /\ Code' = Code /\ args' = args /\ which' = which /\ n' = n
      /\ sp' = sp /\ B' = B /\ X' = X /\ Calls' = Calls
      /\ OnStack(NewStack)' = OnStack(NewStack) /\ Steady' = Steady
  BY <1>1, FrameKept DEF SameFrame
<1>3. \A v : XKept(v)' = XKept(v)
  BY XKeptKept
<1>4. \A c : /\ Src(c)' = Src(c) /\ Dst(c)' = Dst(c) /\ Of(c)' = Of(c) /\ Out(c)' = Out(c)
             /\ Right(c)' = Right(c) /\ Before(c)' = Before(c)
  BY PassesKept DEF Before
<1>5. Kernel'
  BY <1>1, <1>2, <1>3, <1>4 DEF Kernel, NoKernel
<1>6. Loaded'
  BY <1>2, <1>3 DEF Loaded
<1>7. Slots'
  BY <1>1, <1>2, <1>3 DEF Slots, Held
<1>8. CallerFrameIntact'
  BY <1>1, CallerKept
<1>9. InputThere' /\ ResultsThere'
  BY <1>1, <1>4, DataKept DEF Data
<1>10. PointsThere'
  BY <1>1, <1>2, <1>4 DEF Data, PointsThere
<1> QED
  BY <1>1, <1>2, <1>5, <1>6, <1>7, <1>8, <1>9, <1>10 DEF Rest, Data, Memory, StackWords

LEMMA IInvStep == IInv /\ [Next]_vars => IInv'
<1> SUFFICES ASSUME IInv, [Next]_vars PROVE IInv'
  OBVIOUS
<1>1. Rest /\ Loaded /\ DOMAIN regs = Registers /\ Phase /\ Kernel
  BY DEF IInv, Rest
<1>2. CASE LoadArg
  BY <1>1, <1>2, LoadArgStep, PhaseStep DEF IInv, Next
<1>3. CASE LoadWord
  BY <1>1, <1>3, LoadWordStep, PhaseStep DEF IInv, Next
<1>4. CASE StoreWord
  BY <1>1, <1>4, StoreStep, PhaseStep DEF IInv, Next
<1>5. CASE StoreOne
  BY <1>1, <1>5, StoreStep, PhaseStep DEF IInv, Next
<1>6. CASE LoadBuf
  BY <1>1, <1>6, LoadBufStep, PhaseStep DEF IInv, Next
<1>7. CASE AddToReg
  BY <1>1, <1>7, AddStep, PhaseStep DEF IInv, Next
<1>8. CASE SkipIfNotNil
  BY <1>1, <1>8, SkipStep, PhaseStep DEF IInv, Next
<1>9. CASE CallKernel
  BY <1>1, <1>9, CallStep, PhaseStep DEF IInv, Next
<1>10. CASE StackGrows
  BY <1>1, <1>10, GrowStep, PhaseStep DEF IInv, Next
<1>11. CASE KernelStarts
  BY <1>1, <1>11, StartStep, PhaseStep DEF IInv, Next
<1>12. CASE KernelReturns
  BY <1>1, <1>12, ReturnStep, PhaseStep DEF IInv, Next
<1>13. ASSUME NEW j \in 1..n, KernelPoint(j) PROVE IInv'
  BY <1>1, <1>13, PointStep, PhaseStep DEF IInv, Next
<1>14. CASE UNCHANGED vars
  <2>1. /\ SameFrame /\ mem' = mem /\ kernel' = kernel /\ ip' = ip /\ regs' = regs
    BY <1>14 DEF vars, SameFrame
  <2> QED  BY <1>1, <2>1, IdleStep DEF IInv, Phase
<1> QED
  BY <1>2, <1>3, <1>4, <1>5, <1>6, <1>7, <1>8, <1>9, <1>10, <1>11, <1>12, <1>13, <1>14 DEF Next

-----------------------------------------------------------------------------
(*****************************************************************************)
(* What follows from it.                                                     *)
(*****************************************************************************)

LEMMA Always == Spec => []IInv
BY IInvInit, IInvStep, PTL DEF Spec

LEMMA Typed == IInv => TypeOK
<1> SUFFICES ASSUME IInv PROVE TypeOK
  OBVIOUS
<1>1. /\ Args /\ Placed /\ DOMAIN mem = Memory /\ Kernel /\ Slots
      /\ ip \in 1..(Len(Code) + 1) /\ DOMAIN regs = Registers /\ Phase
  BY DEF IInv, Rest
<1>2. sp \in Nat /\ sp % 8 = 0
  BY <1>1, Geometry
<1>3. kernel.left \subseteq 1..n
  <2>1. CASE kernel.phase = "none"
    <3>1. kernel = NoKernel
      BY <1>1, <2>1 DEF Kernel
    <3> QED  BY <3>1 DEF NoKernel
  <2>2. CASE kernel.phase = "entered"
    <3>1. kernel = [NoKernel EXCEPT !.phase = "entered", !.entry = Entry(ip - 1)]
      BY <1>1, <2>2 DEF Kernel
    <3>2. kernel.left = {}
      BY <3>1 DEF NoKernel
    <3> QED  BY <3>2
  <2>3. CASE kernel.phase = "running"
    BY <1>1, <2>3 DEF Kernel
  <2> QED  BY <1>1, <2>1, <2>2, <2>3 DEF Phase
<1>4. ASSUME kernel.phase = "entered" PROVE mem[sp].tag = "addr" /\ mem[sp + 8].tag = "addr"
  <2>1. ip \in Nat
    BY <1>1, CodeLength
  <2>2. /\ mem[sp + 8] = AddrOf(Dst(ip - 1))
        /\ IF ip = 32 THEN XKept(mem[sp]) ELSE mem[sp] = AddrOf(Src(ip - 1))
    BY <1>1, <1>4, <2>1, Entered
  <2>3. \A a : AddrOf(a).tag = "addr"
    BY DEF AddrOf, V
  <2>4. XKept(mem[sp]) => mem[sp].tag = "addr"
    BY <2>3 DEF XKept
  <2> QED  BY <2>2, <2>3, <2>4
<1> QED  BY <1>1, <1>2, <1>3, <1>4 DEF TypeOK, Args, Phase

\* Every variable has its type throughout, and a kernel is entered with
\* pointers in its first two argument slots, on either stack.
THEOREM FramesTyped == Spec => []TypeOK
BY Always, Typed, PTL

LEMMA Safe == IInv => InputKept /\ CallerFrameIntact /\ BuffersInFrame
<1> SUFFICES ASSUME IInv PROVE InputKept /\ CallerFrameIntact /\ BuffersInFrame
  OBVIOUS
<1>1. Args /\ Placed /\ CallerFrameIntact /\ InputThere
  BY DEF IInv, Rest, Data
<1>2. InputKept
  BY <1>1 DEF InputThere, InputKept, Points, Input
<1>3. BuffersInFrame
  <2> DEFINE f == Fixed(which)
             d == 16 * max * Buffers(which)
             F == FrameSize(which)
  <2>1. which \in {"two", "three"}
    BY <1>1 DEF Args
  <2>2. f \in Nat
    BY DEF Fixed
  <2>3. d \in Nat
    BY FramesAssumption DEF Buffers
  <2>4. f + 63 + d <= F /\ F \in Nat
    BY <2>1, Sizes
  <2>5. sp \in Nat
    BY <1>1, Geometry
  <2>6. /\ Buf(sp, which) \in Nat /\ Buf(sp, which) % 64 = 0
        /\ sp + f <= Buf(sp, which) /\ Buf(sp, which) <= sp + f + 63
    BY <2>2, <2>5, RoundUp64 DEF Buf
  <2> HIDE DEF f, d, F
  <2>7. Buf(sp, which) + d <= sp + F
    BY <2>2, <2>3, <2>4, <2>5, <2>6
  <2> QED  BY <2>6, <2>7 DEF BuffersInFrame, f, d, F
<1> QED  BY <1>1, <1>2, <1>3

\* A transform that is not in place leaves its input alone, whatever the frame
\* overwrites and wherever the stack goes.
THEOREM InputUntouched == Spec => []InputKept
BY Always, Safe, PTL

\* The return address, the caller's frame pointer and the caller's arguments
\* stay as they were, through every store, every pass and every move.
THEOREM CallerUntouched == Spec => []CallerFrameIntact
BY Always, Safe, PTL

\* The buffer of TwoPass and the two of ThreePass start on a 64-byte boundary
\* and lie wholly in the frame, above the callees' arguments, for every max
\* and wherever the stack is or is moved to (frames.go:20).
THEOREM BuffersSafe == Spec => []BuffersInFrame
BY Always, Safe, PTL

\* The array a saved pointer names after the stack has moved, if the pointer
\* did not move with it, lies in the old stack.
LEMMA LeftBehind ==
  ASSUME Args, OnStack(NewStack), which = "three", args["x"] = AddrOf(0)
  PROVE  Far(X - Shift, B)
<1> DEFINE F == FrameSize(which)
           M == 16 * max
           N == 16 * n
<1>1. PICK o \in StackOffsets : sp = NewStack + o
  BY DEF OnStack
<1>2. Placed
  BY DEF Placed
<1>3. /\ sp \in Nat /\ B \in Nat /\ F \in Nat /\ n \in Nat /\ max \in Nat /\ N <= M
      /\ sp + (IF which = "two" THEN 48 ELSE 56) <= B
      /\ B + (IF which = "two" THEN M ELSE 32 * max) <= sp + F
  <2>1. 16 * max \in Nat
    BY <1>2, Geometry
  <2> QED  BY <1>2, <2>1, Geometry
<1>4. /\ o \in 0..63 /\ Stack \in Nat /\ NewStack \in Nat
      /\ Apart(Stack, NewStack, Room, Room)
  BY FramesAssumption
<1>5. M \in Nat /\ N \in Nat /\ 32 * max = M + M
  BY <1>3
<1>6. X = B + M
  BY DEF X
<1>7. Room \in Nat /\ F + 64 <= Room
  <2> DEFINE L8 == 8 * Len(Names(which))
  <2>1. Room \in Nat /\ F + 16 + L8 + 64 <= Room /\ L8 \in Nat
    BY Sizes
  <2> HIDE DEF L8, F
  <2> QED  BY <1>3, <2>1
<1> HIDE DEF F, M, N
<1>8. sp <= B /\ B + M + M <= sp + F
  BY <1>3, <1>5
<1>9. B + N <= X - Shift \/ (X - Shift) + N <= B
  BY <1>1, <1>3, <1>4, <1>5, <1>6, <1>7, <1>8 DEF Apart, Shift
<1> QED  BY <1>9 DEF Far, N

\* Source and destination of the pass that runs lie apart, the one left
\* behind too.
LEMMA OutOfPlace == IInv => PassesOutOfPlace
<1> SUFFICES ASSUME IInv, kernel.phase = "running"
             PROVE  Far(kernel.src, kernel.dst)
  BY DEF PassesOutOfPlace, Far
<1> DEFINE c == ip - 1
<1>1. /\ Args /\ Placed /\ Kernel /\ ip \in 1..(Len(Code) + 1)
  BY DEF IInv, Rest
<1>2. ip \in Nat
  BY <1>1, CodeLength
<1>3. /\ c \in Calls /\ kernel.dst = Dst(c)
      /\ IF ip = 32 THEN XKept(AddrOf(kernel.src)) ELSE kernel.src = Src(c)
  BY <1>1 DEF Kernel
<1>4. ip = 32 <=> c = 31
  BY <1>2
<1>5. /\ Far(CC, CH) /\ Far(CC, B) /\ Far(CH, B)
      /\ which = "three" => Far(X, CC) /\ Far(X, B)
  BY <1>1, AreasFar
<1>6. args["ch"].num \in {CC, CH}
  BY <1>1 DEF Args, AddrOf, V
<1>7. \A a, b : Far(a, b) => Far(b, a)
  BY DEF Far
<1> HIDE DEF c
<1>8. /\ which = "two" => c \in {13, 23}
      /\ which = "three" => c \in {17, 31, 41}
      /\ which \in {"two", "three"}
  BY <1>1, <1>3, CallsAre
<1>9. CASE c = 13
  BY <1>3, <1>4, <1>5, <1>9 DEF Src, Dst
<1>10. CASE c = 17
  <2>1. Src(c) = CC /\ Dst(c) = X /\ which = "three"
    BY <1>8, <1>10 DEF Src, Dst
  <2>2. kernel.src = Src(c)
    BY <1>3, <1>4, <1>10
  <2> QED  BY <1>3, <1>5, <1>7, <2>1, <2>2
<1>11. CASE c \in {23, 41}
  <2>1. Src(c) = B /\ Dst(c) = args["ch"].num
    BY <1>11 DEF Src, Dst
  <2>2. kernel.src = Src(c)
    BY <1>3, <1>4, <1>11
  <2> QED  BY <1>3, <1>5, <1>6, <1>7, <2>1, <2>2
<1>12. CASE c = 31
  <2>1. Dst(c) = B /\ which = "three"
    BY <1>8, <1>12 DEF Dst
  <2>2. XKept(AddrOf(kernel.src))
    BY <1>3, <1>4, <1>12
  <2>3. \A a, b : AddrOf(a) = AddrOf(b) => a = b
    BY DEF AddrOf, V
  <2>4. \/ kernel.src = X
        \/ ~Steady /\ OnStack(NewStack) /\ kernel.src = X - Shift
    BY <2>2, <2>3 DEF XKept, Shift
  <2>5. ~Steady => args["x"] = AddrOf(0)
    BY DEF Steady
  <2>6. ~Steady /\ OnStack(NewStack) => Far(X - Shift, B)
    BY <1>1, <2>1, <2>5, LeftBehind
  <2> QED  BY <1>3, <1>5, <2>1, <2>4, <2>6
<1> QED  BY <1>8, <1>9, <1>10, <1>11, <1>12

\* No pass of a transform writes over the input it is still reading, whatever
\* the arrays, the frame's position and the moves of the stack: not even the
\* pass whose source was left behind when the stack moved (frames.go:102).
THEOREM NoPassInPlace == Spec => []PassesOutOfPlace
BY Always, OutOfPlace, PTL

\* When the last pass has returned, its result is in ch.
LEMMA Composed == IInv /\ Steady => ResultIsComposition
<1> SUFFICES ASSUME IInv, Steady, Returned
             PROVE  PointsAt(mem, args["ch"].num) = Expected
  BY DEF ResultIsComposition
<1> DEFINE c == IF which = "two" THEN 23 ELSE 41
<1>1. Args /\ ResultsThere
  BY DEF IInv, Rest, Data
<1>2. /\ which \in {"two", "three"} /\ Len(Code) = c /\ c \in Calls /\ ip = c + 1
      /\ kernel.phase = "none"
  BY <1>1, CallsAre DEF Returned
<1>3. Right(c) /\ ~Before(c) /\ Before(User(c))
  BY <1>2 DEF Right, Before, User
<1>4. Points(Dst(c), Out(c))
  BY <1>1, <1>2, <1>3 DEF ResultsThere
<1>5. Dst(c) = args["ch"].num
  BY <1>2 DEF Dst
<1>6. Out(c) = Expected
  <2>1. CASE which = "two"
    BY <2>1 DEF Expected, Out, Entry, In, Of, AfterOne, Input
  <2>2. CASE which = "three"
    BY <2>2 DEF Expected, Out, Entry, In, Of, AfterOne, AfterTwo, Input
  <2> QED  BY <1>2, <2>1, <2>2
<1>7. DOMAIN Out(c) = 1..n /\ Out(c) = [j \in 1..n |-> Out(c)[j]]
  BY DEF Out, Transform
<1> HIDE DEF c
<1>8. PointsAt(mem, Dst(c)) = Out(c)
  BY <1>4, <1>7 DEF PointsAt, Points
<1> QED  BY <1>5, <1>6, <1>8

\* A call of TwoPass or ThreePass ends with ch holding the passes applied one
\* after the other, for every max, n, stack position and choice of arrays, and
\* every move of the stack below a kernel, as long as the first pass is one
\* that cannot grow the stack when ThreePass is to keep x in its own frame.
THEOREM ResultWhileSteady == Spec => [](Steady => ResultIsComposition)
BY Always, Composed, PTL

\* Where no first pass of ThreePass may grow the stack, the result is always
\* the composition of the passes.
COROLLARY ResultComposed ==
  ASSUME "p0" \notin Growing
  PROVE  Spec => []ResultIsComposition
<1>1. Steady
  BY DEF Steady
<1>2. IInv => ResultIsComposition
  BY <1>1, Composed
<1> QED  BY <1>2, Always, PTL

=============================================================================
