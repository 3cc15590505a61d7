----------------------------- MODULE FeatureProbe -----------------------------
(***************************************************************************)
(* amd64.FeatureProbe and amd64.VendorProbe (amd64/feature.go): the        *)
(* functions they emit, run instruction by instruction on any processor    *)
(* under any operating system, and the kernel that the answer lets through.*)
(*                                                                         *)
(* A 32-bit value is the set of its bits that are one, so a mask is a set, *)
(* ANDL an intersection and a leaf number 7 the set {0, 1, 2}.             *)
(***************************************************************************)
EXTENDS Integers, Sequences

CONSTANTS
  CPUs,       \* the machines the probe may run on
  Requests,   \* the calls of FeatureProbe and VendorProbe
  Garbage     \* what a register or a result slot holds before it is written

Bits == 0..31
Registers == {"AX", "BX", "CX", "DX"}

(***************************************************************************)
(* A machine: its highest basic CPUID leaf and its vendor (leaf 0), ECX of *)
(* leaf 1, EBX of leaf 7, what CPUID puts everywhere else, the state       *)
(* components XCR0 enables when the probe is called, and those the OS adds *)
(* on first use (Darwin's ZMM state).  A character is the set of its bits. *)
(***************************************************************************)
Vendors == [1..12 -> SUBSET (0..7)]
Machines == [maxLeaf : SUBSET Bits, vendor : Vendors, one : SUBSET Bits,
             seven : SUBSET Bits, other : SUBSET Bits,
             xcr0 : SUBSET Bits, lazy : SUBSET Bits]

ASSUME MachinesAssumption ==
  /\ CPUs \subseteq Machines
  /\ Requests \subseteq [feature : STRING, vendor : Seq(SUBSET (0..7))]
  /\ Garbage \subseteq Bits

Features == {"AVX2", "POPCNT", "AVX512F", "FMA"}

VARIABLES
  asks,    \* the call: a feature's name, or "vendor" and the vendor string
  cpu,     \* the machine
  mode,    \* "emit", "panicked", "probe", "returned", "ran" or "fault"
  seg,     \* the piece of the function being run; one past the last is RET
  ip,      \* the instruction of that piece to run
  regs,
  less,    \* the flags the conditional jumps read
  zero,
  ret,     \* the result slot
  xcr0,    \* the state components enabled now
  able     \* whether the feature could be used when the probe was called

vars == <<asks, cpu, mode, seg, ip, regs, less, zero, ret, xcr0, able>>

-----------------------------------------------------------------------------
(***************************************************************************)
(* The emitted functions.  Each is "answer no", a few checks that jump to  *)
(* the RET when they fail, "answer yes", and the RET.                      *)
(***************************************************************************)
One == {0}
Seven == {0, 1, 2}

I(op, reg, imm) == [op |-> op, reg |-> reg, imm |-> imm]
Piece(kind, mask) == [kind |-> kind, mask |-> mask, vendor |-> <<>>]

\* Four characters of a vendor string as a little-endian word.
word(v, at) == UNION {{8 * b + t : t \in v[at + b + 1]} : b \in 0..3}

\* Slip: the registers in their usual order.
VendorCodeInOrder(v) ==
  <<I("XORL", "AX", {}), I("CPUID", "none", {}),
    I("CMPL", "BX", word(v, 0)), I("JNE", "none", {}),
    I("CMPL", "CX", word(v, 4)), I("JNE", "none", {}),
    I("CMPL", "DX", word(v, 8)), I("JNE", "none", {})>>

VendorCode(v) ==
  <<I("XORL", "AX", {}), I("CPUID", "none", {}),
    I("CMPL", "BX", word(v, 0)), I("JNE", "none", {}),
    I("CMPL", "DX", word(v, 4)), I("JNE", "none", {}),
    I("CMPL", "CX", word(v, 8)), I("JNE", "none", {})>>

Code(p) ==
  CASE p.kind = "no" -> <<I("MOVB", "none", {})>>
    [] p.kind = "maxLeaf" ->
         <<I("XORL", "AX", {}), I("CPUID", "none", {}), I("CMPL", "AX", p.mask), I("JL", "none", {})>>
    [] p.kind = "leaf1All" ->
         <<I("MOVL", "AX", One), I("CPUID", "none", {}),
           I("ANDL", "CX", p.mask), I("CMPL", "CX", p.mask), I("JNE", "none", {})>>
    [] p.kind = "leaf1Bit" ->
         <<I("MOVL", "AX", One), I("CPUID", "none", {}), I("TESTL", "CX", p.mask), I("JZ", "none", {})>>
    [] p.kind = "xcr0" ->
         <<I("XORL", "CX", {}), I("XGETBV", "none", {}),
           I("ANDL", "AX", p.mask), I("CMPL", "AX", p.mask), I("JNE", "none", {})>>
    [] p.kind = "leaf7Bit" ->
         <<I("MOVL", "AX", Seven), I("XORL", "CX", {}), I("CPUID", "none", {}),
           I("TESTL", "BX", p.mask), I("JZ", "none", {})>>
    [] p.kind = "vendor" -> VendorCode(p.vendor)
    [] p.kind = "yes" -> <<I("MOVB", "none", One)>>

No == Piece("no", {})
Yes == Piece("yes", {})

\* The XCR0 components of XMM and YMM, and with them those of the opmask
\* registers and of ZMM.
YMMState == {1, 2}
\* Slip: AVX-512 gated on the state AVX needs.
ZMMStateOfAVX == YMMState
ZMMState == {1, 2, 5, 6, 7}

\* Slip: the check of the highest leaf copied from AVX2, though FMA's bit is
\* in leaf 1.
FMAPiecesLeaf7 ==
  <<No, Piece("maxLeaf", Seven), Piece("leaf1All", {12, 27, 28}),
    Piece("xcr0", YMMState), Yes>>
FMAPieces == <<No, Piece("leaf1All", {12, 27, 28}), Piece("xcr0", YMMState), Yes>>

FeaturePieces(f) ==
  CASE f = "POPCNT" -> <<No, Piece("leaf1Bit", {23}), Yes>>
    [] f = "AVX2" -> <<No, Piece("maxLeaf", Seven), Piece("leaf1All", {27, 28}),
                       Piece("xcr0", YMMState), Piece("leaf7Bit", {5}), Yes>>
    [] f = "AVX512F" -> <<No, Piece("maxLeaf", Seven), Piece("leaf1All", {27, 28}),
                          Piece("xcr0", ZMMState), Piece("leaf7Bit", {16}), Yes>>
    [] f = "FMA" -> FMAPieces
    [] OTHER -> <<>>

VendorPieces(v) == <<No, [kind |-> "vendor", mask |-> {}, vendor |-> v], Yes>>

Pieces ==
  IF asks.feature = "vendor" THEN VendorPieces(asks.vendor) ELSE FeaturePieces(asks.feature)

\* Slip: the label placed after the RET.
DoneLate == Len(Pieces) + 2

\* The label done: the RET.
Done == Len(Pieces) + 1

-----------------------------------------------------------------------------
(***************************************************************************)
(* The processor.                                                          *)
(***************************************************************************)

\* The order of unsigned numbers, that of leaf numbers.
Below(a, b) == \E x \in b \ a : \A y \in a \ b : y < x

\* The flags JL reads after CMPL a, b: the order of signed numbers, where bit 31
\* is the sign.
Less(a, b) ==
  \/ 31 \in a /\ 31 \notin b
  \/ (31 \in a <=> 31 \in b) /\ Below(a, b)

\* The four registers CPUID writes.
Regs(a, b, c, d) ==
  [r \in Registers |-> IF r = "AX" THEN a ELSE IF r = "BX" THEN b ELSE IF r = "CX" THEN c ELSE d]

\* Leaf 0 and leaf 1 always exist.  Beyond the highest leaf, or at another
\* sub-leaf of 7, CPUID answers something else.
Cpuid(leaf, sub) ==
  IF leaf = {}
  THEN Regs(cpu.maxLeaf, word(cpu.vendor, 0), word(cpu.vendor, 8), word(cpu.vendor, 4))
  ELSE IF leaf = One THEN Regs(cpu.other, cpu.other, cpu.one, cpu.other)
  ELSE IF leaf = Seven /\ sub = {} /\ ~Below(cpu.maxLeaf, Seven)
       THEN Regs(cpu.other, cpu.seven, cpu.other, cpu.other)
  ELSE Regs(cpu.other, cpu.other, cpu.other, cpu.other)

\* The OS has set CR4.OSXSAVE and saves these state components.
Saves(components) == 27 \in cpu.one /\ components \subseteq xcr0

\* Instructions of the feature execute, and what they write to survives a
\* context switch.
Usable(f) ==
  CASE f = "POPCNT" -> 23 \in cpu.one
    [] f = "AVX2" -> /\ ~Below(cpu.maxLeaf, Seven) /\ 5 \in cpu.seven
                     /\ 28 \in cpu.one /\ Saves({1, 2})
    [] f = "AVX512F" -> /\ ~Below(cpu.maxLeaf, Seven) /\ 16 \in cpu.seven
                        /\ 28 \in cpu.one /\ Saves({1, 2, 5, 6, 7})
    [] f = "FMA" -> {12, 28} \subseteq cpu.one /\ Saves({1, 2})
    [] OTHER -> TRUE

Init ==
  /\ asks \in Requests
  /\ cpu \in CPUs
  /\ mode = "emit"
  /\ seg = 1
  /\ ip = 1
  /\ regs = [r \in Registers |-> Garbage]
  /\ less = FALSE
  /\ zero = FALSE
  /\ ret = Garbage
  /\ xcr0 = cpu.xcr0
  /\ able = FALSE

\* The generator panics on a Feature it does not know and on a vendor string
\* that is not 12 bytes long.
Emittable ==
  IF asks.feature = "vendor" THEN Len(asks.vendor) = 12 ELSE asks.feature \in Features

EmitPanics ==
  /\ mode = "emit"
  /\ ~Emittable
  /\ mode' = "panicked"
  /\ UNCHANGED <<asks, cpu, seg, ip, regs, less, zero, ret, xcr0, able>>

\* The function is emitted, and a caller calls it.
EmitAndCall ==
  /\ mode = "emit"
  /\ Emittable
  /\ mode' = "probe"
  /\ able' = Usable(asks.feature)
  /\ UNCHANGED <<asks, cpu, seg, ip, regs, less, zero, ret, xcr0>>

Current == Code(Pieces[seg])[ip]

At(op) == mode = "probe" /\ seg # Done /\ Current.op = op

Advance ==
  /\ IF ip < Len(Code(Pieces[seg])) THEN seg' = seg /\ ip' = ip + 1
                                    ELSE seg' = seg + 1 /\ ip' = 1
  /\ UNCHANGED <<asks, cpu, mode, xcr0, able>>

MOVB == At("MOVB") /\ ret' = Current.imm /\ Advance /\ UNCHANGED <<regs, less, zero>>

MOVL ==
  /\ At("MOVL")
  /\ regs' = [regs EXCEPT ![Current.reg] = Current.imm]
  /\ Advance /\ UNCHANGED <<less, zero, ret>>

\* A register exclusive-ored with itself.
XORL ==
  /\ At("XORL")
  /\ regs' = [regs EXCEPT ![Current.reg] = {}]
  /\ less' = FALSE /\ zero' = TRUE
  /\ Advance /\ UNCHANGED ret

CPUID ==
  /\ At("CPUID")
  /\ regs' = Cpuid(regs["AX"], regs["CX"])
  /\ Advance /\ UNCHANGED <<less, zero, ret>>

ANDL ==
  /\ At("ANDL")
  /\ regs' = [regs EXCEPT ![Current.reg] = @ \cap Current.imm]
  /\ less' = FALSE /\ zero' = (regs[Current.reg] \cap Current.imm = {})
  /\ Advance /\ UNCHANGED ret

TESTL ==
  /\ At("TESTL")
  /\ less' = FALSE /\ zero' = (regs[Current.reg] \cap Current.imm = {})
  /\ Advance /\ UNCHANGED <<regs, ret>>

CMPL ==
  /\ At("CMPL")
  /\ less' = Less(regs[Current.reg], Current.imm)
  /\ zero' = (regs[Current.reg] = Current.imm)
  /\ Advance /\ UNCHANGED <<regs, ret>>

\* XGETBV is an invalid instruction unless the OS has set CR4.OSXSAVE, and
\* reads XCR0 for ECX = 0 only.
XGETBV ==
  /\ At("XGETBV")
  /\ IF 27 \in cpu.one /\ regs["CX"] = {}
     THEN regs' = Regs(xcr0, regs["BX"], regs["CX"], {}) /\ Advance
     ELSE mode' = "fault" /\ UNCHANGED <<asks, cpu, seg, ip, regs, xcr0, able>>
  /\ UNCHANGED <<less, zero, ret>>

Taken == CASE Current.op = "JL" -> less
           [] Current.op = "JNE" -> ~zero
           [] Current.op = "JZ" -> zero

Jump ==
  /\ At("JL") \/ At("JNE") \/ At("JZ")
  /\ IF Taken
     THEN seg' = Done /\ ip' = 1 /\ UNCHANGED <<asks, cpu, mode, xcr0, able>>
     ELSE Advance
  /\ UNCHANGED <<regs, less, zero, ret>>

RET ==
  /\ mode = "probe"
  /\ seg = Done
  /\ mode' = "returned"
  /\ UNCHANGED <<asks, cpu, seg, ip, regs, less, zero, ret, xcr0, able>>

\* The caller dispatches to the kernel when the answer is yes.
RunKernel ==
  /\ mode = "returned"
  /\ ret # {}
  /\ mode' = IF Usable(asks.feature) THEN "ran" ELSE "fault"
  /\ UNCHANGED <<asks, cpu, seg, ip, regs, less, zero, ret, xcr0, able>>

\* Another thread of the process uses state that the OS enables lazily.
EnableLazily ==
  /\ mode \in {"probe", "returned"}
  /\ 27 \in cpu.one
  /\ ~(cpu.lazy \subseteq xcr0)
  /\ xcr0' = xcr0 \cup cpu.lazy
  /\ UNCHANGED <<asks, cpu, mode, seg, ip, regs, less, zero, ret, able>>

Instruction ==
  MOVB \/ MOVL \/ XORL \/ CPUID \/ ANDL \/ TESTL \/ CMPL \/ XGETBV \/ Jump

Next ==
  \/ EmitPanics
  \/ EmitAndCall
  \/ Instruction
  \/ RET
  \/ RunKernel
  \/ EnableLazily

Spec == Init /\ [][Next]_vars

-----------------------------------------------------------------------------
(***************************************************************************)
(* Correctness.                                                            *)
(***************************************************************************)

\* Every variable has its type; while the probe runs, seg and ip stand at an
\* instruction of the function.
TypeOK ==
  /\ asks \in Requests
  /\ cpu \in CPUs
  /\ mode \in {"emit", "panicked", "probe", "returned", "ran", "fault"}
  /\ mode = "probe" => /\ Emittable
                       /\ seg \in 1..(Len(Pieces) + 1)
                       /\ seg <= Len(Pieces) => ip \in 1..Len(Code(Pieces[seg]))
  /\ regs \in [Registers -> SUBSET Bits]
  /\ less \in BOOLEAN /\ zero \in BOOLEAN
  /\ ret \subseteq Bits
  /\ xcr0 \subseteq Bits
  /\ able \in BOOLEAN

\* No machine makes the probe or the kernel it lets through fault: XGETBV is
\* reached only where it is legal, and a yes means that both the processor
\* and the OS support the feature (feature.go:15-18).
NeverFaults == mode # "fault"

\* JL compares signed, so a highest leaf with bit 31 set reads as negative and
\* the probes that need leaf 7 stop at it.
DeniedBySign == asks.feature \in {"AVX2", "AVX512F"} /\ 31 \in cpu.maxLeaf

\* A feature probe returns yes, or no where the feature could not be used when
\* it was called: no machine is denied a kernel it could run, and no path
\* leaves the caller's leftovers in the slot.  The one exception is a highest
\* leaf JL reads as negative (feature.go:107-108 and 137-138): there the answer
\* is no whatever the machine has.
NoMeansUnusable ==
  mode = "returned" /\ asks.feature # "vendor" =>
    /\ ret \in {{}, One}
    /\ ret = {} => ~able \/ DeniedBySign
    /\ DeniedBySign => ret = {}

\* The result slot holds a bool on every way out: "no path can fall through
\* leaving the slot untouched" (feature.go:88).
AnswerIsBool == mode \in {"returned", "ran"} => ret \in {{}, One}

\* VendorProbe writes yes on processors of that vendor and no on every other.
VendorExact ==
  mode = "returned" /\ asks.feature = "vendor" => ret = IF cpu.vendor = asks.vendor THEN One ELSE {}

=============================================================================
