------------------------------ MODULE AbiLayout ------------------------------
(***************************************************************************)
(* abi.LayoutArgs (abi/abi.go): the FP-relative offset of every argument   *)
(* and result of a Go function under ABI0.  LayoutArgs runs the closure    *)
(* place over the arguments, word-aligns the running offset, runs place    *)
(* over the results, and takes the offset reached as ArgsSize.  One step   *)
(* of this module is one turn of one of place's two loops, so a state      *)
(* holds exactly the locals the next turn reads.                           *)
(*                                                                         *)
(* A name is the sequence of the parts that "_" joins: the field len of s  *)
(* and a scalar called s_len both have the name <<"s", "len">>.            *)
(***************************************************************************)
EXTENDS Integers, Sequences

CONSTANTS
  ArgKinds,   \* the abi.Arg values a caller may pass
  MaxArgs,    \* bound: the most arguments of a signature
  MaxRets     \* bound: the most results of a signature

(***************************************************************************)
(* The types of abi.go.  An Arg whose Fields is nil is a scalar: agg is    *)
(* FALSE.  Struct(name), called with no field, leaves Fields nil as well   *)
(* and Type zero, which is the scalar of size 0 allowed here.  elem is the *)
(* size of the element type given to Array, and 1 in a struct, slice or    *)
(* string: an Arg does not have it (Array keeps one Field per element and  *)
(* no more), so no action reads it, but Go aligns an array by it.          *)
(***************************************************************************)
Sizes == {1, 2, 4, 8}
Type  == [size : Sizes, float : BOOLEAN, signed : BOOLEAN]
ZeroType == [size |-> 0, float |-> FALSE, signed |-> FALSE]
Field == [name : STRING, type : Type]
Scalars == [name : Seq(STRING), agg : {FALSE}, type : Type, fields : {<<>>}]
Aggregates == [name : Seq(STRING), agg : {TRUE}, type : {ZeroType}, fields : Seq(Field),
               elem : Sizes]
EmptyStructs == [name : Seq(STRING), agg : {FALSE}, type : {ZeroType}, fields : {<<>>}]

ASSUME KindsAssumption ==
  /\ ArgKinds \subseteq Scalars \cup Aggregates \cup EmptyStructs
  /\ \A a \in ArgKinds :
       a.agg /\ a.fields # <<>> => \E j \in DOMAIN a.fields : a.elem <= a.fields[j].type.size
  /\ MaxArgs \in Nat
  /\ MaxRets \in Nat

WordSize == 8

\* x &^ (to - 1).  For to = 0 the mask is -1, which clears every bit.
ClearLow(x, to) == IF to = 0 THEN 0 ELSE x - (x % to)

\* Slip: rounding down.
AlignDown(n, to) == ClearLow(n, to)
Align(n, to) == ClearLow(n + to - 1, to)

\* The widest field, 1 when there is none.
aggregateAlign(fields) ==
  LET widths == {1} \cup {fields[j].type.size : j \in DOMAIN fields}
  IN  CHOOSE w \in widths : \A v \in widths : v <= w

VARIABLES
  in,         \* the two lists the caller passed: [args, rets]
  pc,         \* "args" or "rets" while place runs over that list, then "done"
  i,          \* the index of the next Arg of the list
  k,          \* inside an aggregate, the index of its next field; else 0
  fieldOff,   \* inside an aggregate, the running offset of its fields
  off,        \* the running offset; at "done" it is ArgsSize
  slots       \* sig.Args followed by sig.Rets

vars == <<in, pc, i, k, fieldOff, off, slots>>

Signatures(n) == UNION {[1..m -> ArgKinds] : m \in 0..n}

\* A laid-out abi.Param; ret tells sig.Rets from sig.Args, arg which Arg it
\* came from.
Param(name, type, offset) ==
  [name |-> name, type |-> type, off |-> offset, ret |-> pc = "rets", arg |-> i]

End(s) == s.off + s.type.size

\* Slip: the frame counted in whole words.
ArgsSizeInWords == ClearLow(off, WordSize)
ArgsSize == off

\* The machine word an offset lies in.
Word(o) == o \div WordSize

(***************************************************************************)
(* Behaviour.                                                              *)
(***************************************************************************)
Init ==
  /\ in \in [args : Signatures(MaxArgs), rets : Signatures(MaxRets)]
  /\ pc = "args"
  /\ i = 1
  /\ k = 0
  /\ fieldOff = 0
  /\ off = 0
  /\ slots = <<>>

Current == IF pc = "args" THEN in.args ELSE in.rets

\* The loop over the list stands at an Arg, with no aggregate half placed.
AtArg == pc # "done" /\ k = 0 /\ i <= Len(Current)

PlaceScalar ==
  /\ AtArg
  /\ ~Current[i].agg
  /\ LET a == Current[i]
         o == Align(off, a.type.size)
     IN  /\ slots' = Append(slots, Param(a.name, a.type, o))
         /\ off' = o + a.type.size
  /\ i' = i + 1
  /\ UNCHANGED <<in, pc, k, fieldOff>>

\* Slip: an aggregate placed like its first field.
OpenAggregateUnaligned ==
  /\ AtArg
  /\ Current[i].agg
  /\ k' = 1
  /\ fieldOff' = 0
  /\ UNCHANGED <<in, pc, i, off, slots>>

OpenAggregate ==
  /\ AtArg
  /\ Current[i].agg
  /\ off' = Align(off, aggregateAlign(Current[i].fields))
  /\ k' = 1
  /\ fieldOff' = 0
  /\ UNCHANGED <<in, pc, i, slots>>

PlaceField ==
  /\ k > 0
  /\ k <= Len(Current[i].fields)
  /\ LET f == Current[i].fields[k]
         o == Align(fieldOff, f.type.size)
     IN  /\ slots' = Append(slots,
                            Param(Append(Current[i].name, f.name), f.type, off + o))
         /\ fieldOff' = o + f.type.size
  /\ k' = k + 1
  /\ UNCHANGED <<in, pc, i, off>>

\* Slip: an aggregate's size without its trailing padding.
CloseAggregateUnpadded ==
  /\ k > 0
  /\ k > Len(Current[i].fields)
  /\ off' = off + fieldOff
  /\ fieldOff' = 0
  /\ k' = 0
  /\ i' = i + 1
  /\ UNCHANGED <<in, pc, slots>>

CloseAggregate ==
  /\ k > 0
  /\ k > Len(Current[i].fields)
  /\ off' = off + Align(fieldOff, aggregateAlign(Current[i].fields))
  /\ fieldOff' = 0
  /\ k' = 0
  /\ i' = i + 1
  /\ UNCHANGED <<in, pc, slots>>

\* Slip: the results continue where the arguments end.
StartResultsUnaligned ==
  /\ pc = "args" /\ k = 0 /\ i > Len(in.args)
  /\ pc' = "rets"
  /\ i' = 1
  /\ UNCHANGED <<in, k, fieldOff, off, slots>>

\* Slip: the cursor of the argument list kept for the result list.
StartResultsCursor ==
  /\ pc = "args" /\ k = 0 /\ i > Len(in.args)
  /\ off' = Align(off, WordSize)
  /\ pc' = "rets"
  /\ UNCHANGED <<in, i, k, fieldOff, slots>>

StartResults ==
  /\ pc = "args" /\ k = 0 /\ i > Len(in.args)
  /\ off' = Align(off, WordSize)
  /\ pc' = "rets"
  /\ i' = 1
  /\ UNCHANGED <<in, k, fieldOff, slots>>

Finish ==
  /\ pc = "rets" /\ k = 0 /\ i > Len(in.rets)
  /\ pc' = "done"
  /\ UNCHANGED <<in, i, k, fieldOff, off, slots>>

Next ==
  \/ PlaceScalar
  \/ OpenAggregate
  \/ PlaceField
  \/ CloseAggregate
  \/ StartResults
  \/ Finish

Spec == Init /\ [][Next]_vars

-----------------------------------------------------------------------------
(***************************************************************************)
(* Correctness.                                                            *)
(***************************************************************************)

\* Every variable has its type; the two list cursors stay within the list
\* that place (abi.go:156) is running over.
TypeOK ==
  /\ in.args \in Seq(ArgKinds) /\ in.rets \in Seq(ArgKinds)
  /\ pc \in {"args", "rets", "done"}
  /\ i \in Nat \ {0}
  /\ k \in Nat
  /\ fieldOff \in Nat
  /\ off \in Nat
  /\ slots \in Seq([name : Seq(STRING), type : Type \cup {ZeroType}, off : Nat,
                    ret : BOOLEAN, arg : Nat \ {0}])
  /\ pc # "done" => i <= Len(Current) + 1
  /\ k > 0 => /\ pc # "done" /\ i <= Len(Current) /\ Current[i].agg
              /\ k <= Len(Current[i].fields) + 1

\* The slots of a frame follow one another without sharing a byte, whatever
\* scalars and aggregates, arguments and results, they came from: a store to
\* one can never be seen through another (abi.go:77, "occupies a contiguous
\* region").
SlotsDisjoint ==
  \A p, q \in DOMAIN slots : p < q => End(slots[p]) <= slots[q].off

\* Every slot is aligned to its own size from the frame's start, the fields
\* of an aggregate too, though place aligns those from the aggregate's start.
SlotsAligned ==
  \A p \in DOMAIN slots :
    slots[p].type.size > 0 => slots[p].off % slots[p].type.size = 0

\* No machine word holds a byte of an argument and a byte of a result
\* (abi.go:178): writing a result word whole loses no argument.
ResultsInOwnWords ==
  \A p, q \in DOMAIN slots :
    ~slots[p].ret /\ slots[q].ret /\ slots[p].type.size > 0
      => Word(End(slots[p]) - 1) < Word(slots[q].off)

\* The size the TEXT line declares covers every slot the function may touch.
FrameCoversSlots ==
  pc = "done" => \A p \in DOMAIN slots : End(slots[p]) <= ArgsSize

\* "the frame is sized to the end of the last slot with no further rounding"
\* (abi.go:151).
ArgsSizeIsEndOfLastSlot ==
  pc = "done" /\ slots # <<>> => ArgsSize = End(slots[Len(slots)])

\* The slots of the arguments already placed whole.
WholeSlots == SubSeq(slots, 1, Len(slots) - (IF k = 0 THEN 0 ELSE k - 1))

\* Where the last argument ends, padding included.
EndOfArgs ==
  IF slots = <<>> THEN 0
  ELSE LET s == slots[Len(slots)]
           a == in.args[s.arg]
       IN  IF a.agg THEN Align(End(s), aggregateAlign(a.fields)) ELSE End(s)

\* The end of the frame as Go has it: the running offset, except that Go does
\* not round it up for results that are not there.
GoEnd == IF pc # "args" /\ in.rets = <<>> THEN EndOfArgs ELSE off

Go == INSTANCE GoFrame WITH area <- pc, n <- i - 1, end <- GoEnd, frame <- WholeSlots

\* place's running offsets, kept relative to the aggregate while inside one,
\* give every slot the place that Go's layout rules give it value by value
\* (abi.go:77), and with a result they give the size of the frame.  Without
\* one the size is a word's multiple where Go's is not (ArgsSizeIsEndOfLastSlot);
\* and an empty array of a type wider than a byte, which place cannot tell
\* from one of bytes, is not among the ArgKinds this holds for.
FollowsGoRules == Go!Spec

=============================================================================
