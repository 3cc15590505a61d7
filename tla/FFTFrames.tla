------------------------------- MODULE FFTFrames -------------------------------
(***************************************************************************)
(* TwoPass and ThreePass (fft/amd64/frames.go): the functions that run the *)
(* two or three passes of a Stockham transform in one call, with the       *)
(* buffers between the passes in their own stack frame.  They run here     *)
(* line by line on a word-addressed memory; a pass kernel runs point by    *)
(* point, in any order.  A kernel that is not NOSPLIT (SplitR32InFrame)    *)
(* may find the stack too small: the Go runtime then copies it elsewhere,  *)
(* and adjusts the pointers into it that the kernel's own argument map     *)
(* declares, but none in a frame marked NO_LOCAL_POINTERS.                 *)
(***************************************************************************)
EXTENDS Integers, Sequences

CONSTANTS
  max,           \* the points a buffer holds
  StackOffsets,  \* where in the stack the frame may begin
  Growing,       \* the kernels that are not NOSPLIT
  Stack,         \* where the stack is
  NewStack,      \* and where the runtime moves it
  CC, CH         \* the caller's arrays

VARIABLES
  which,    \* "two" or "three"
  args,     \* what the caller passed, by name
  n,        \* the points of the transform
  sp,       \* the hardware stack pointer, once the frame is allocated
  ip,       \* the line to run
  regs,
  mem,      \* the stacks, cc and ch, in words
  kernel    \* the pass running, or NoKernel

vars == <<which, args, n, sp, ip, regs, mem, kernel>>

-----------------------------------------------------------------------------
(***************************************************************************)
(* Values and memory.  A value says what it is: an address, an integer, a  *)
(* kernel's entry point, an input point or what a pass computed from its   *)
(* operands.                                                               *)
(***************************************************************************)
V(tag, num, of) == [tag |-> tag, num |-> num, of |-> of]
AddrOf(a) == V("addr", a, <<>>)
IntOf(v) == V("int", v, <<>>)
Garbage == V("garbage", 0, <<>>)
Caller(a) == V("caller", a, <<>>)

Registers == {"AX", "BX"}

\* An array of points at a, and the point at a: two words of equal value here.
Area(a, points) == {a + 8 * j : j \in 0..(2 * points - 1)}
PointAt(m, a) == IF m[a] = m[a + 8] THEN m[a] ELSE Garbage
PointsAt(m, a) == [j \in 1..n |-> PointAt(m, a + 16 * (j - 1))]

RoundDown(x, to) == x - (x % to)

-----------------------------------------------------------------------------
(***************************************************************************)
(* The frames.                                                             *)
(***************************************************************************)
Names(w) ==
  IF w = "two" THEN <<"cc", "ch", "tw", "k0", "k1", "ido", "l1", "pass", "last">>
  ELSE <<"cc", "ch", "x", "tw0", "tw1", "k0", "k1", "k2",
         "ido0", "ido1", "l1b", "l1c", "p0", "p1", "p2">>

\* Below the buffers lie the callees' arguments and, in ThreePass, x.
Fixed(w) == IF w = "two" THEN 48 ELSE 56
Buffers(w) == IF w = "two" THEN 1 ELSE 2

\* Slip: no room for the alignment.
FrameSizeUnaligned(w) == RoundDown(Fixed(w) + 16 * max * Buffers(w) + 7, 8)
FrameSize(w) == RoundDown(Fixed(w) + 63 + 16 * max * Buffers(w) + 7, 8)

\* Slip: the address not rounded.
BufAtOnce(s, w) == s + Fixed(w)
\* The first 64-byte boundary above the fixed part.
Buf(s, w) == RoundDown(s + Fixed(w) + 63, 64)

\* The return address and the caller's frame pointer lie between the frame
\* and the arguments, which are all eight bytes wide.
FP(s, w, name) ==
  s + FrameSize(w) + 16 + 8 * ((CHOOSE j \in DOMAIN Names(w) : Names(w)[j] = name) - 1)
Top(s, w) == s + FrameSize(w) + 16 + 8 * Len(Names(w))

\* What a stack holds: the deeper frame, wherever it begins.
Room == Top(64, "three")

Apart(a, b, below, above) == a + below <= b \/ b + above <= a

\* The frame begins anywhere within 64 bytes.  Stacks are aligned to their
\* size; the stacks and the arrays lie apart, and nothing lies at nil.
ASSUME FramesAssumption ==
  /\ max \in Nat \ {0}
  /\ \A o \in StackOffsets : o \in 0..63 /\ o % 8 = 0
  /\ Stack \in Nat /\ Stack % 64 = 0 /\ NewStack \in Nat /\ NewStack % 64 = 0
  /\ CC \in Nat \ {0} /\ CH \in Nat \ {0}
  /\ Apart(Stack, NewStack, Room, Room)
  /\ Apart(CC, CH, 16 * max, 16 * max)
  /\ \A s \in {Stack, NewStack}, c \in {CC, CH} : Apart(s, c, Room, 16 * max)

-----------------------------------------------------------------------------
(***************************************************************************)
(* The emitted lines.                                                      *)
(***************************************************************************)
L(op, name, reg, num) == [op |-> op, name |-> name, reg |-> reg, num |-> num]

\* An argument of the caller's into a callee's argument slot.
Pass(name, reg, off) == <<L("arg", name, reg, 0), L("store", "none", reg, off)>>
PassBuf(off) == <<L("buf", "none", "AX", 0), L("store", "none", "AX", off)>>
Call(name) == <<L("arg", name, "AX", 0), L("call", "none", "AX", 0)>>

\* Slip: the final pass writes where the transform began.
FinalOutputCC == Pass("cc", "AX", 8)
FinalOutput == Pass("ch", "AX", 8)

TwoPass ==
  Pass("cc", "AX", 0) \o PassBuf(8) \o Pass("tw", "AX", 16) \o Pass("k0", "AX", 24)
    \o Pass("ido", "AX", 32) \o <<L("imm", "none", "none", 40)>> \o Call("pass")
    \o PassBuf(0) \o FinalOutput \o Pass("k1", "AX", 16) \o Pass("l1", "AX", 24)
    \o Call("last")

\* Slip: the first buffer when x is nil.
SelectXFirst ==
  <<L("arg", "x", "AX", 0), L("jnz", "none", "AX", 1), L("buf", "none", "AX", 0),
    L("store", "none", "AX", 48)>>
\* x, or the second buffer when x is nil.
SelectX ==
  <<L("arg", "x", "AX", 0), L("jnz", "none", "AX", 2), L("buf", "none", "AX", 0),
    L("add", "none", "AX", 16 * max), L("store", "none", "AX", 48)>>

\* Slip: the l1 of the first pass left in its slot.
SecondL1Kept == <<>>
SecondL1 == Pass("l1b", "AX", 40)

\* Slip: x taken from AX after the first pass has clobbered it.
SecondSourceInAX == <<L("store", "none", "AX", 0)>>
SecondSource == <<L("load", "none", "AX", 48), L("store", "none", "AX", 0)>>

ThreePass ==
  SelectX
    \o Pass("cc", "BX", 0) \o <<L("store", "none", "AX", 8)>> \o Pass("tw0", "BX", 16)
    \o Pass("k0", "BX", 24) \o Pass("ido0", "BX", 32) \o <<L("imm", "none", "none", 40)>> \o Call("p0")
    \o SecondSource \o PassBuf(8) \o Pass("tw1", "AX", 16) \o Pass("k1", "AX", 24)
    \o Pass("ido1", "AX", 32) \o SecondL1 \o Call("p1")
    \o PassBuf(0) \o FinalOutput \o Pass("k2", "AX", 16) \o Pass("l1c", "AX", 24)
    \o Call("p2")

Code == IF which = "two" THEN TwoPass ELSE ThreePass

Running(op) ==
  /\ kernel.phase = "none"
  /\ ip <= Len(Code)
  /\ Code[ip].op = op
  /\ ip' = ip + 1
  /\ UNCHANGED <<which, args, n, sp>>

Line == Code[ip]

SetReg(v) == regs' = [regs EXCEPT ![Line.reg] = v] /\ UNCHANGED <<mem, kernel>>
SetWord(off, v) == mem' = [mem EXCEPT ![sp + off] = v] /\ UNCHANGED <<regs, kernel>>

LoadArg == Running("arg") /\ SetReg(mem[FP(sp, which, Line.name)])
LoadWord == Running("load") /\ SetReg(mem[sp + Line.num])
StoreWord == Running("store") /\ SetWord(Line.num, regs[Line.reg])
StoreOne == Running("imm") /\ SetWord(Line.num, IntOf(1))
LoadBuf == Running("buf") /\ SetReg(AddrOf(Buf(sp, which)))
AddToReg == Running("add") /\ SetReg([regs[Line.reg] EXCEPT !.num = @ + Line.num])

SkipIfNotNil ==
  /\ kernel.phase = "none"
  /\ ip <= Len(Code)
  /\ Line.op = "jnz"
  /\ ip' = IF regs[Line.reg] # AddrOf(0) THEN ip + 1 + Line.num ELSE ip + 1
  /\ UNCHANGED <<which, args, n, sp, regs, mem, kernel>>

-----------------------------------------------------------------------------
(***************************************************************************)
(* The pass kernels, and the runtime below them.                           *)
(***************************************************************************)
NoKernel == [phase |-> "none", entry |-> "none", src |-> 0, dst |-> 0, of |-> <<>>, left |-> {}]

FinalPass == {"last", "p2"}

CallKernel ==
  /\ Running("call")
  /\ kernel' = [NoKernel EXCEPT !.phase = "entered", !.entry = regs[Line.reg].tag]
  /\ UNCHANGED <<regs, mem>>

\* The stack is too small: it moves, by a multiple of its alignment.
StackGrows ==
  /\ kernel.phase = "entered"
  /\ kernel.entry \in Growing
  /\ sp - Stack \in StackOffsets
  /\ LET shift == NewStack - Stack
         Old == {a \in DOMAIN mem : sp <= a /\ a < Top(sp, which)}
         Inside(v) == v.tag = "addr" /\ v.num >= sp /\ v.num < Top(sp, which)
         \* the kernel's pointer arguments: cc, ch, tw and k
         Adjusted(a) == IF a < sp + 32 /\ Inside(mem[a])
                        THEN AddrOf(mem[a].num + shift) ELSE mem[a]
     IN  /\ sp' = sp + shift
         /\ mem' = [a \in DOMAIN mem |->
                      IF a \in Old THEN Garbage
                      ELSE IF a - shift \in Old THEN Adjusted(a - shift) ELSE mem[a]]
  /\ UNCHANGED <<which, args, n, ip, regs, kernel>>

KernelStarts ==
  /\ kernel.phase = "entered"
  /\ LET words == IF kernel.entry \in FinalPass THEN 2 ELSE 4
     IN  kernel' = [kernel EXCEPT !.phase = "running", !.src = mem[sp].num,
                      !.dst = mem[sp + 8].num, !.left = 1..n,
                      !.of = [j \in 1..words |-> mem[sp + 8 + 8 * j]]]
  /\ UNCHANGED <<which, args, n, sp, ip, regs, mem>>

\* A point of the output is computed from every point of the input.
KernelPoint(j) ==
  /\ kernel.phase = "running"
  /\ j \in kernel.left
  /\ LET a == kernel.dst + 16 * (j - 1)
         v == V(kernel.entry, j, kernel.of \o PointsAt(mem, kernel.src))
     IN  mem' = [mem EXCEPT ![a] = v, ![a + 8] = v]
  /\ kernel' = [kernel EXCEPT !.left = @ \ {j}]
  /\ UNCHANGED <<which, args, n, sp, ip, regs>>

\* The kernel may have clobbered every register and its own arguments.
KernelReturns ==
  /\ kernel.phase = "running"
  /\ kernel.left = {}
  /\ kernel' = NoKernel
  /\ regs' = [r \in Registers |-> Garbage]
  /\ mem' = [a \in DOMAIN mem |-> IF sp <= a /\ a < sp + 48 THEN Garbage ELSE mem[a]]
  /\ UNCHANGED <<which, args, n, sp, ip>>

-----------------------------------------------------------------------------

StackWords == {a \in Stack..(Stack + Room - 1) : a % 8 = 0}
Memory == StackWords \cup {a + NewStack - Stack : a \in StackWords}
            \cup Area(CC, max) \cup Area(CH, max)

InitialWord(a) ==
  IF \E name \in DOMAIN args : a = FP(sp, which, name)
  THEN args[CHOOSE name \in DOMAIN args : a = FP(sp, which, name)]
  ELSE IF a \in {sp + FrameSize(which), sp + FrameSize(which) + 8} THEN Caller(a - sp)
  ELSE IF a \in Area(CC, max) THEN V("input", 1 + (a - CC) \div 16, <<>>)
  ELSE Garbage

\* The arrays the caller may pass: ch is cc in place, and x is ch, unless that
\* is cc, or nil.
Arrays == [cc : {CC}, ch : {CC, CH}, x : {0, CH}]

Init ==
  /\ which \in {"two", "three"}
  /\ \E p \in Arrays :
       /\ p.x # 0 => which = "three" /\ p.ch = CH
       /\ args = [name \in {Names(which)[j] : j \in DOMAIN Names(which)} |->
                    IF name \in {"cc", "ch", "x"} THEN AddrOf(p[name]) ELSE V(name, 0, <<>>)]
  /\ n \in 1..max
  /\ sp \in {Stack + o : o \in StackOffsets}
  /\ ip = 1
  /\ regs = [r \in Registers |-> Garbage]
  /\ mem = [a \in Memory |-> InitialWord(a)]
  /\ kernel = NoKernel

Next ==
  \/ LoadArg \/ LoadWord \/ StoreWord \/ StoreOne \/ LoadBuf \/ AddToReg
  \/ SkipIfNotNil \/ CallKernel
  \/ StackGrows \/ KernelStarts \/ KernelReturns
  \/ \E j \in 1..n : KernelPoint(j)

Spec == Init /\ [][Next]_vars

-----------------------------------------------------------------------------
(***************************************************************************)
(* Correctness.                                                            *)
(***************************************************************************)
Returned == ip = Len(Code) + 1 /\ kernel.phase = "none"

\* What a pass computes from its parameters and the points of its input.
Transform(entry, of, input) == [j \in 1..n |-> V(entry, j, of \o input)]

Parameters(names) == [j \in DOMAIN names |-> IF names[j] = "1" THEN IntOf(1) ELSE args[names[j]]]

Expected ==
  LET input == [j \in 1..n |-> V("input", j, <<>>)]
  IN  IF which = "two"
      THEN Transform("last", Parameters(<<"k1", "l1">>),
             Transform("pass", Parameters(<<"tw", "k0", "ido", "1">>), input))
      ELSE Transform("p2", Parameters(<<"k2", "l1c">>),
             Transform("p1", Parameters(<<"tw1", "k1", "ido1", "l1b">>),
               Transform("p0", Parameters(<<"tw0", "k0", "ido0", "1">>), input)))

\* Every variable has its type; the stack pointer keeps its alignment, and a
\* kernel is entered with pointers in its first two argument slots.
TypeOK ==
  /\ which \in {"two", "three"}
  /\ n \in 1..max
  /\ sp \in Nat /\ sp % 8 = 0
  /\ ip \in 1..(Len(Code) + 1)
  /\ DOMAIN mem = Memory
  /\ DOMAIN regs = Registers
  /\ kernel.phase \in {"none", "entered", "running"}
  /\ kernel.left \subseteq 1..n
  /\ kernel.phase = "entered" => mem[sp].tag = "addr" /\ mem[sp + 8].tag = "addr"

\* Whatever the frame's alignment, ch ends with the passes applied one after
\* the other with the arguments a plan would give each, in place too
\* (frames.go:22, "the result is the same bits").
ResultIsComposition == Returned => PointsAt(mem, args["ch"].num) = Expected

\* A transform that is not in place leaves its input alone.
InputKept ==
  args["ch"] # args["cc"] =>
    \A j \in 1..n : PointAt(mem, CC + 16 * (j - 1)) = V("input", j, <<>>)

\* No pass writes over the input it is still reading (frames.go:102).
PassesOutOfPlace ==
  kernel.phase = "running" => kernel.src + 16 * n <= kernel.dst \/ kernel.dst + 16 * n <= kernel.src

\* The return address, the caller's frame pointer and the arguments above the
\* frame are never written.
CallerFrameIntact ==
  /\ \A o \in {FrameSize(which), FrameSize(which) + 8} : mem[sp + o] = Caller(o)
  /\ \A name \in DOMAIN args : mem[FP(sp, which, name)] = args[name]

\* "The buffer starts on a 64-byte boundary and holds up to max points"
\* (frames.go:20): the buffers lie in the frame, above the callees' arguments
\* and the saved x, wherever the stack is.
BuffersInFrame ==
  /\ Buf(sp, which) % 64 = 0
  /\ sp + Fixed(which) <= Buf(sp, which)
  /\ Buf(sp, which) + 16 * max * Buffers(which) <= sp + FrameSize(which)

=============================================================================
