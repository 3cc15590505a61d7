------------------------------- MODULE AbiCall -------------------------------
(***************************************************************************)
(* A Builder at work and the function it emits at work.  The layout is     *)
(* computed first (AbiLayout, to pc = "done"); then the Builder of one of  *)
(* the six architecture packages appends lines; then a Go caller fills the *)
(* frame, and the emitted lines run on it one by one.                      *)
(*                                                                         *)
(* Memory is a function from addresses to bytes.  The frame lies at 0 and  *)
(* the one object a pointer argument may point to lies below it, at Heap.  *)
(* The bytes a caller leaves at nearby addresses differ, so a register     *)
(* shows where its bytes came from; their top bit is set when the caller   *)
(* passes values whose sign bits are set.  A register holds a value's 8    *)
(* bytes, least significant first.                                         *)
(***************************************************************************)
EXTENDS AbiLayout, MoveTables

CONSTANTS
  IndirectTypes,  \* the types LoadIndirect and StoreIndirect are called with
  IntRegs,        \* the registers the caller of the Builder names
  FloatRegs,
  MaxLines        \* bound: the most lines emitted before RET

\* The types of Go values: its floats are 4 or 8 bytes wide.
GoTypes == {t \in Type : t.float => t.size \in {4, 8}}

\* FP is the assembler's name for the frame, not a register.
ASSUME CallAssumption ==
  /\ \A a \in ArgKinds : /\ ~a.agg => a.type \in GoTypes \cup {ZeroType}
                         /\ \A j \in DOMAIN a.fields : a.fields[j].type \in GoTypes
  /\ IndirectTypes \subseteq GoTypes
  /\ "FP" \notin IntRegs
  /\ MaxLines \in Nat

VARIABLES
  arch,      \* which package's Builder
  mode,      \* "layout", "build", "run", "returned" or "panicked"
  body,      \* the lines appended to the function
  ip,        \* the index of the line to run
  negative,  \* whether the caller's values have their sign bits set
  mem,       \* memory, once the function is called
  regs,      \* registers, once the function is called
  results    \* for each result stored so far, the register value stored

callVars == <<arch, mode, body, ip, negative, mem, regs, results>>
allVars == <<vars, callVars>>

Regs == IntRegs \cup FloatRegs

-----------------------------------------------------------------------------
(* The Builder.                                                            *)

AnyName == {slots[p].name : p \in DOMAIN slots}

\* The Params of that name in sig.Rets (ret is TRUE) or sig.Args.
Named(ret, name) == {p \in DOMAIN slots : (slots[p].ret <=> ret) /\ slots[p].name = name}

\* The first of them; there is one.
lookup(ret, name) ==
  slots[CHOOSE p \in Named(ret, name) : \A q \in Named(ret, name) : p <= q]

\* A line that moves between a register and memory: an FP-relative access
\* names its slot and offset, an indirect one the register with the address.
Line(op, mnemonic, reg, name, offset, ptrReg, t) ==
  [op |-> op, mnemonic |-> mnemonic, reg |-> reg, name |-> name, off |-> offset,
   ptr |-> ptrReg, type |-> t]

FileOf(t) == IF t.float THEN FloatRegs ELSE IntRegs

Emit(line) ==
  /\ Len(body) < MaxLines
  /\ body' = Append(body, line)
  /\ UNCHANGED <<vars, arch, mode, ip, negative, mem, regs, results>>

LoadArg(name, reg) ==
  /\ mode = "build"
  /\ Named(FALSE, name) # {}
  /\ LET p == lookup(FALSE, name)
     IN  /\ reg \in FileOf(p.type)
         /\ Emit(Line("load", loadMnemonic(arch, p.type), reg, name, p.off, "FP", p.type))

\* Slip: the name looked up among the arguments, as LoadArg does.
StoreRetToArg(reg, name) ==
  /\ mode = "build"
  /\ Named(FALSE, name) # {}
  /\ LET p == lookup(FALSE, name)
     IN  /\ reg \in FileOf(p.type)
         /\ Emit(Line("store", storeMnemonic(arch, p.type), reg, name, p.off, "FP", p.type))

StoreRet(reg, name) ==
  /\ mode = "build"
  /\ Named(TRUE, name) # {}
  /\ LET p == lookup(TRUE, name)
     IN  /\ reg \in FileOf(p.type)
         /\ Emit(Line("store", storeMnemonic(arch, p.type), reg, name, p.off, "FP", p.type))

LoadIndirect(ptrReg, t, reg) ==
  /\ mode = "build"
  /\ reg \in FileOf(t)
  /\ Emit(Line("load", loadMnemonic(arch, t), reg, <<>>, 0, ptrReg, t))

StoreIndirect(reg, ptrReg, t) ==
  /\ mode = "build"
  /\ reg \in FileOf(t)
  /\ Emit(Line("store", storeMnemonic(arch, t), reg, <<>>, 0, ptrReg, t))

\* lookup panics on a name that is not an argument's (LoadArg) or not a
\* result's (StoreRet); nothing is appended.
UnknownParam(name) ==
  /\ mode = "build"
  /\ Named(FALSE, name) = {} \/ Named(TRUE, name) = {}
  /\ mode' = "panicked"
  /\ UNCHANGED <<vars, arch, body, ip, negative, mem, regs, results>>

-----------------------------------------------------------------------------
(* The call.                                                               *)

Heap == -8
Addresses == Heap..(ArgsSize - 1)
CallerByte(a, neg) == 1 + (a % 127) + (IF neg THEN 128 ELSE 0)
Garbage == [j \in 1..8 |-> 250]

\* The bytes at a, of a value w bytes wide, least significant first.
ValueAt(m, a, w) == [j \in 1..w |-> IF BigEndian(arch) THEN m[a + w - j] ELSE m[a + j - 1]]

\* m after the low w bytes of value v are stored at a.
StoredAt(m, a, w, v) ==
  [x \in DOMAIN m |-> IF a <= x /\ x < a + w
                      THEN v[IF BigEndian(arch) THEN a + w - x ELSE x - a + 1]
                      ELSE m[x]]

\* v, w bytes wide, as a register holds it: zeros or copies of its sign above.
Zero == 0
Ones == 255
Extended(v, w, signed) ==
  [j \in 1..8 |-> IF j <= w THEN v[j] ELSE IF signed /\ v[w] >= 128 THEN Ones ELSE Zero]

\* Ret ends the function; a caller writes the arguments and calls it.
Call ==
  /\ mode = "build"
  /\ mode' = "run"
  /\ ip' = 1
  /\ negative' \in BOOLEAN
  /\ mem' = [a \in Addresses |-> CallerByte(a, negative')]
  /\ regs' = [r \in Regs |-> Garbage]
  /\ UNCHANGED <<vars, arch, body, results>>

\* The registers that hold a pointer argument as the caller passed it.
PointsToHeap(r) ==
  \E p \in DOMAIN slots :
    LET s == slots[p]
    IN  ~s.ret /\ ~s.type.float /\ ~s.type.signed /\ s.type.size = 8
        /\ regs[r] = ValueAt([a \in Addresses |-> CallerByte(a, negative)], s.off, 8)

Address(line) == IF line.ptr = "FP" THEN line.off ELSE Heap

\* A line runs when the register it goes through, if any, holds a pointer.
Runs(line) ==
  /\ mode = "run"
  /\ ip <= Len(body)
  /\ body[ip] = line
  /\ line.ptr # "FP" => PointsToHeap(line.ptr)
  /\ ip' = ip + 1
  /\ UNCHANGED <<vars, arch, mode, body, negative>>

RunLoad(line) ==
  /\ line.op = "load"
  /\ Runs(line)
  /\ LET m == Meaning(arch, line.mnemonic)
         v == ValueAt(mem, Address(line), m.width)
         r == Extended(v, m.width, m.ext = "sign")
     IN  regs' = [regs EXCEPT ![line.reg] =
                    IF m.ext = "keep" THEN [j \in 1..8 |-> IF j <= m.width THEN v[j] ELSE @[j]]
                    ELSE r]
  /\ UNCHANGED <<mem, results>>

RunStore(line) ==
  /\ line.op = "store"
  /\ Runs(line)
  /\ LET m == Meaning(arch, line.mnemonic)
     IN  mem' = StoredAt(mem, Address(line), m.width, regs[line.reg])
  /\ results' = IF line.ptr # "FP" THEN results
                ELSE [n \in DOMAIN results \cup {line.name} |->
                        IF n = line.name THEN regs[line.reg] ELSE results[n]]
  /\ UNCHANGED regs

Return ==
  /\ mode = "run"
  /\ ip = Len(body) + 1
  /\ mode' = "returned"
  /\ UNCHANGED <<vars, arch, body, ip, negative, mem, regs, results>>

-----------------------------------------------------------------------------

\* The parameters and results of a Go function have distinct names.
DistinctNames ==
  LET all == in.args \o in.rets
  IN  \A p, q \in DOMAIN all : p # q => all[p].name # all[q].name

CallInit ==
  /\ Init
  /\ DistinctNames
  /\ arch \in Arches
  /\ mode = "layout"
  /\ body = <<>>
  /\ ip = 0
  /\ negative = FALSE
  /\ mem = <<>>
  /\ regs = <<>>
  /\ results = <<>>

LayoutStep ==
  /\ mode = "layout"
  /\ Next
  /\ mode' = IF pc' = "done" THEN "build" ELSE mode
  /\ UNCHANGED <<arch, body, ip, negative, mem, regs, results>>

CallNext ==
  \/ LayoutStep
  \/ \E name \in AnyName, reg \in Regs :
       \/ LoadArg(name, reg)
       \/ StoreRet(reg, name)
  \/ \E ptrReg \in IntRegs, t \in IndirectTypes, reg \in Regs :
       \/ LoadIndirect(ptrReg, t, reg)
       \/ StoreIndirect(reg, ptrReg, t)
  \/ \E name \in AnyName : UnknownParam(name)
  \/ Call
  \/ \E j \in DOMAIN body : RunLoad(body[j]) \/ RunStore(body[j])
  \/ Return

CallSpec == CallInit /\ [][CallNext]_allVars

-----------------------------------------------------------------------------
(***************************************************************************)
(* Correctness.                                                            *)
(***************************************************************************)

Called == mode \in {"run", "returned"}

\* Every variable has its type.
CallTypeOK ==
  /\ arch \in Arches
  /\ mode \in {"layout", "build", "run", "returned", "panicked"}
  /\ ip \in 0..(MaxLines + 1)
  /\ negative \in BOOLEAN
  /\ Called => /\ mem \in [Addresses -> 0..255]
               /\ regs \in [Regs -> [1..8 -> 0..255]]
  /\ \A n \in DOMAIN results : results[n] \in [1..8 -> 0..255]
  /\ \A j \in DOMAIN body : \E m \in ISA(arch) : body[j].mnemonic = m.name

\* Whatever the function stores to its results, on whichever architecture,
\* its arguments read as the caller wrote them: a move wider than its slot, or
\* a slot misplaced, would show in a neighbour (amd64.go:89, "Stores write
\* exactly the type's width").
ArgsIntact ==
  Called => \A p \in DOMAIN slots :
    ~slots[p].ret => \A a \in slots[p].off..(End(slots[p]) - 1) : mem[a] = CallerByte(a, negative)

\* The caller finds in each result the low bytes of the register last stored
\* to it, however many other results were stored since.
ResultsReadBack ==
  Called => \A p \in DOMAIN slots :
    slots[p].ret /\ slots[p].name \in DOMAIN results =>
      ValueAt(mem, slots[p].off, slots[p].type.size)
        = SubSeq(results[slots[p].name], 1, slots[p].type.size)

\* A load leaves in the whole register the Go value of its type: sign- or
\* zero-extended as the type is (amd64.go:56), from the one argument of that
\* name, or from the object pointed to.
LoadsGoValue ==
  [][\A j \in DOMAIN body :
       LET line == body[j]
           from == IF line.ptr # "FP" THEN Heap
                   ELSE slots[CHOOSE p \in DOMAIN slots : slots[p].name = line.name].off
       IN  ip = j /\ ip' = j + 1 /\ line.op = "load" =>
             regs'[line.reg] = Extended(ValueAt(mem, from, line.type.size),
                                        line.type.size,
                                        line.type.signed /\ ~line.type.float)]_allVars

\* No line reaches past the argument size the TEXT line declares, which is
\* what asmdecl checks of hand-written assembly.
AccessesInFrame ==
  \A j \in DOMAIN body :
    body[j].ptr = "FP" => body[j].off + Meaning(arch, body[j].mnemonic).width <= ArgsSize

=============================================================================
