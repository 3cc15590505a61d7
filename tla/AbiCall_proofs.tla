---------------------------- MODULE AbiCall_proofs ----------------------------
(***************************************************************************)
(* Proofs about the layout of a signature, then about the function that is *)
(* emitted for it, for every set of argument kinds, every length of        *)
(* signature and body and every set of registers.                          *)
(*                                                                         *)
(* The layout.  No Struct is built with no field (NoEmptyStruct): that one *)
(* has size 0 without being an aggregate, and Align(off, 0) takes the      *)
(* running offset back to 0.  That the layout is Go's also needs an empty  *)
(* array to be one of bytes (NarrowEmptyArrays): Go aligns [0]int64 to     *)
(* eight, and Array loses the type.                                        *)
(*                                                                         *)
(* The function keeps its arguments, stays in its frame, returns what it   *)
(* stored and loads what its types say, on every architecture.  The        *)
(* invariant is about the lines already appended: each names a slot of the *)
(* layout with its offset and type, or goes through a register, and its    *)
(* mnemonic is the one the table gives for that type, whose move has the   *)
(* type's width (LineMoves).  Slots do not overlap (Disjoint), so a line   *)
(* writes the slot it names and no byte of another.  That the slot a line  *)
(* names is the one a reader of the name finds needs names that stay apart *)
(* once they are flattened (PlainNames).                                   *)
(***************************************************************************)
EXTENDS AbiCall, WellFoundedInduction, SequenceTheorems, TLAPS

NoEmptyStruct == ArgKinds \subseteq Scalars \cup Aggregates
NarrowEmptyArrays == \A a \in ArgKinds : a.agg /\ a.fields = <<>> => a.elem = 1

-----------------------------------------------------------------------------
(* The operators place is built from.                                      *)

\* abi.Align returns the least multiple of to at or past n.
LEMMA AlignLeast ==
  ASSUME NEW n \in Nat, NEW to \in Sizes
  PROVE  /\ Align(n, to) \in Nat
         /\ n <= Align(n, to)
         /\ Align(n, to) < n + to
         /\ Align(n, to) % to = 0
<1>1. CASE to = 1  BY <1>1 DEF Align, ClearLow
<1>2. CASE to = 2  BY <1>2 DEF Align, ClearLow
<1>3. CASE to = 4  BY <1>3 DEF Align, ClearLow
<1>4. CASE to = 8  BY <1>4 DEF Align, ClearLow
<1> QED  BY <1>1, <1>2, <1>3, <1>4 DEF Sizes

\* aggregateAlign returns a power of two no field is wider than.
LEMMA AggregateAlignWidest ==
  ASSUME NEW fields \in Seq(Field)
  PROVE  /\ aggregateAlign(fields) \in Sizes
         /\ \A j \in DOMAIN fields : fields[j].type.size <= aggregateAlign(fields)
<1> DEFINE W == {1} \cup {fields[j].type.size : j \in DOMAIN fields}
<1>1. W \subseteq Sizes
  <2>1. \A j \in DOMAIN fields : fields[j] \in Field
    BY ElementOfSeq
  <2> QED  BY <2>1 DEF Field, Type, Sizes
<1>2. 1 \in W /\ \A j \in DOMAIN fields : fields[j].type.size \in W
  OBVIOUS
<1>3. aggregateAlign(fields) = CHOOSE w \in W : \A v \in W : v <= w
  BY DEF aggregateAlign
<1> HIDE DEF W
<1>4. \A v \in W : v \in {1, 2, 4, 8}
  BY <1>1 DEF Sizes
<1>5. \E w \in W : \A v \in W : v <= w
  <2>1. CASE 8 \in W  BY <1>4, <2>1
  <2>2. CASE 8 \notin W /\ 4 \in W  BY <1>4, <2>2
  <2>3. CASE 8 \notin W /\ 4 \notin W /\ 2 \in W  BY <1>4, <2>3
  <2>4. CASE 8 \notin W /\ 4 \notin W /\ 2 \notin W  BY <1>2, <1>4, <2>4
  <2> QED  BY <2>1, <2>2, <2>3, <2>4
<1>6. aggregateAlign(fields) \in W /\ \A v \in W : v <= aggregateAlign(fields)
  BY <1>3, <1>5
<1> QED  BY <1>1, <1>2, <1>6

\* What is aligned to s within an aggregate is aligned to s in the frame, when
\* the aggregate is aligned at least as strictly.
LEMMA AlignedInAggregate ==
  ASSUME NEW base \in Nat, NEW o \in Nat, NEW al \in Sizes, NEW s \in Sizes,
         s <= al, base % al = 0, o % s = 0
  PROVE  (base + o) % s = 0
<1>1. CASE al = 1  BY <1>1 DEF Sizes
<1>2. CASE al = 2  BY <1>2 DEF Sizes
<1>3. CASE al = 4  BY <1>3 DEF Sizes
<1>4. CASE al = 8  BY <1>4 DEF Sizes
<1> QED  BY <1>1, <1>2, <1>3, <1>4 DEF Sizes

\* The words of the frame.
LEMMA WordIsInt == ASSUME NEW o \in Int PROVE Word(o) \in Int
BY DEF Word, WordSize

LEMMA WordMonotone ==
  ASSUME NEW a \in Int, NEW b \in Int, a <= b PROVE Word(a) <= Word(b)
BY DEF Word, WordSize

LEMMA WordBoundary ==
  ASSUME NEW a \in Nat, NEW b \in Nat, a <= b, b % WordSize = 0
  PROVE  Word(a - 1) < Word(b)
BY DEF Word, WordSize

-----------------------------------------------------------------------------
(***************************************************************************)
(* The inductive invariant: besides the properties themselves, that every  *)
(* slot ends by the running offset, that an open aggregate starts at its   *)
(* own alignment, and that once the results have begun the running offset  *)
(* is in a later word than every argument.                                 *)
(***************************************************************************)
Slot == [name : Seq(STRING), type : Type \cup {ZeroType}, off : Nat,
         ret : BOOLEAN, arg : Nat \ {0}]

Sized == \A p \in DOMAIN slots : slots[p].type \in Type
Closed == k = 0 => fieldOff = 0
OpenAligned == k > 0 => off % aggregateAlign(Current[i].fields) = 0
Frontier == \A p \in DOMAIN slots : End(slots[p]) <= off + fieldOff
NoResultYet == pc = "args" => \A p \in DOMAIN slots : ~slots[p].ret
ArgsInEarlierWords ==
  pc # "args" => \A p \in DOMAIN slots :
                   ~slots[p].ret => Word(End(slots[p]) - 1) < Word(off)

IInv ==
  /\ TypeOK
  /\ Sized
  /\ Closed
  /\ OpenAligned
  /\ Frontier
  /\ NoResultYet
  /\ ArgsInEarlierWords
  /\ SlotsDisjoint
  /\ SlotsAligned
  /\ ResultsInOwnWords

\* What appending one slot at or past the running offset does to the part of
\* the invariant that is about slots.
LEMMA AppendSlot ==
  ASSUME IInv, pc # "done", NEW s \in Slot, s.type \in Type,
         off + fieldOff <= s.off, s.off % s.type.size = 0, s.ret = (pc = "rets"),
         off' \in Nat, fieldOff' \in Nat, off <= off',
         End(s) <= off' + fieldOff', pc' = pc, slots' = Append(slots, s)
  PROVE  /\ slots' \in Seq(Slot)
         /\ Sized' /\ Frontier' /\ NoResultYet' /\ ArgsInEarlierWords'
         /\ SlotsDisjoint' /\ SlotsAligned' /\ ResultsInOwnWords'
<1> DEFINE n == Len(slots)
<1>1. slots \in Seq(Slot) /\ off \in Nat /\ fieldOff \in Nat /\ pc \in {"args", "rets", "done"}
  BY DEF IInv, TypeOK, Slot
<1>2. /\ slots' \in Seq(Slot)
      /\ n \in Nat
      /\ DOMAIN slots = 1..n
      /\ DOMAIN slots' = 1..(n + 1)
      /\ slots'[n + 1] = s
      /\ \A p \in 1..n : slots'[p] = slots[p]
  BY <1>1
<1> HIDE DEF n
<1>3. \A p \in 1..n : slots[p] \in Slot /\ slots[p].type \in Type
  <2>1. \A p \in DOMAIN slots : slots[p] \in Slot
    BY <1>1
  <2>2. \A p \in DOMAIN slots : slots[p].type \in Type
    BY Zenon DEF IInv, Sized
  <2>3. QED  BY <1>2, <2>1, <2>2, Zenon
<1>4. \A t \in Slot : t.type \in Type => /\ t.type.size \in Sizes /\ t.off \in Nat
                                         /\ t.ret \in BOOLEAN /\ End(t) \in Nat
                                         /\ t.off < End(t) /\ t.type.size > 0
  <2> TAKE t \in Slot
  <2> HAVE t.type \in Type
  <2>1. t.off \in Nat /\ t.ret \in BOOLEAN
    BY DEF Slot
  <2>2. t.type.size \in Sizes
    BY DEF Type
  <2>3. ASSUME NEW z \in Sizes, NEW o \in Nat PROVE o + z \in Nat /\ o < o + z /\ z > 0
    BY DEF Sizes
  <2> QED
    BY <2>1, <2>2, <2>3 DEF End
<1>5. \A p \in 1..n : /\ slots[p].off \in Nat /\ slots[p].ret \in BOOLEAN
                       /\ End(slots[p]) \in Nat /\ slots[p].type.size > 0
                       /\ slots[p].off < End(slots[p])
  BY <1>3, <1>4
<1>6. s.off \in Nat /\ s.ret \in BOOLEAN /\ End(s) \in Nat /\ s.off < End(s)
  BY <1>4
<1>17. (slots'[n + 1]).ret <=> pc = "rets"
  BY <1>2
<1>7. \A p \in 1..n : End(slots[p]) <= off + fieldOff
  BY <1>2 DEF IInv, Frontier
<1>8. Sized'
  BY <1>2, <1>3 DEF Sized
<1>9. Frontier'
  <2>1. \A p \in 1..n : End(slots[p]) <= off' + fieldOff'
    BY <1>1, <1>5, <1>6, <1>7
  <2> QED  BY <1>2, <2>1 DEF Frontier, End
<1>10. NoResultYet'
  BY <1>2, <1>17 DEF IInv, NoResultYet
<1>11. SlotsDisjoint'
  <2>1. \A p \in 1..n : End(slots[p]) <= s.off
    BY <1>1, <1>5, <1>6, <1>7
  <2>2. \A p, q \in 1..n : p < q => End(slots[p]) <= slots[q].off
    BY <1>2 DEF IInv, SlotsDisjoint
  <2> QED  BY <1>2, <2>1, <2>2 DEF SlotsDisjoint, End
<1>12. SlotsAligned'
  BY <1>2 DEF IInv, SlotsAligned
<1>13. \A p \in 1..n : pc = "rets" /\ ~slots[p].ret => Word(End(slots[p]) - 1) < Word(off)
  BY <1>2 DEF IInv, ArgsInEarlierWords
<1>14. \A p \in 1..n : /\ Word(End(slots[p]) - 1) \in Int
                        /\ Word(slots[p].off) \in Int
  <2> SUFFICES ASSUME NEW p \in 1..n
               PROVE  Word(End(slots[p]) - 1) \in Int /\ Word(slots[p].off) \in Int
    OBVIOUS
  <2>1. End(slots[p]) - 1 \in Int /\ slots[p].off \in Int
    BY <1>5
  <2> QED  BY <2>1, WordIsInt
<1>15. /\ Word(off) <= Word(off') /\ Word(off) <= Word(s.off)
       /\ Word(off) \in Int /\ Word(off') \in Int /\ Word(s.off) \in Int
  <2>1. off \in Int /\ off' \in Int /\ s.off \in Int /\ off <= s.off
    BY <1>1, <1>6
  <2> QED  BY <2>1, WordMonotone, WordIsInt
<1>16. ArgsInEarlierWords'
  <2> SUFFICES ASSUME pc' # "args", NEW p \in 1..(n + 1), ~slots'[p].ret
               PROVE  Word(End(slots'[p]) - 1) < Word(off')
    BY <1>2 DEF ArgsInEarlierWords, End
  <2>1. pc = "rets" /\ p \in 1..n /\ slots'[p] = slots[p]
    BY <1>1, <1>2, <1>17
  <2>2. Word(End(slots[p]) - 1) < Word(off)
    BY <1>13, <2>1
  <2>3. Word(End(slots[p]) - 1) \in Int
    BY <1>14, <2>1
  <2>4. Word(End(slots[p]) - 1) < Word(off')
    BY <1>15, <2>2, <2>3
  <2> QED  BY <2>1, <2>4
<1>18. ResultsInOwnWords'
  <2> SUFFICES ASSUME NEW p \in 1..(n + 1), NEW q \in 1..(n + 1),
                      ~slots'[p].ret, slots'[q].ret
               PROVE  Word(End(slots'[p]) - 1) < Word(slots'[q].off)
    BY <1>2 DEF ResultsInOwnWords, End
  <2>1. pc = "rets"
    <3>1. CASE q = n + 1  BY <1>1, <1>17, <3>1
    <3>2. CASE q \in 1..n  BY <1>1, <1>2, <3>2 DEF IInv, NoResultYet
    <3> QED  BY <1>2, <3>1, <3>2
  <2>2. p \in 1..n /\ slots'[p] = slots[p]
    BY <1>2, <1>17, <2>1
  <2>3. CASE q = n + 1
    <3>1. slots'[q] = s
      BY <1>2, <2>3
    <3>2. Word(End(slots[p]) - 1) < Word(off)
      BY <1>13, <2>1, <2>2
    <3>3. Word(End(slots[p]) - 1) < Word(s.off)
      <4>1. Word(End(slots[p]) - 1) \in Int
        BY <1>14, <2>2
      <4>2. QED  BY <1>15, <3>2, <4>1
    <3> QED  BY <2>2, <3>1, <3>3
  <2>4. CASE q \in 1..n
    <3>1. slots'[q] = slots[q]
      BY <1>2, <2>4
    <3>2. Word(End(slots[p]) - 1) < Word(slots[q].off)
      BY <1>2, <1>5, <2>2, <2>4, <3>1 DEF IInv, ResultsInOwnWords
    <3> QED  BY <2>2, <3>1, <3>2
  <2>5. q \in 1..n \/ q = n + 1
    BY <1>2
  <2> QED  BY <2>3, <2>4, <2>5
<1> QED  BY <1>2, <1>8, <1>9, <1>10, <1>11, <1>12, <1>16, <1>18

\* What a step that places no slot does to the same part.
LEMMA NoSlot ==
  ASSUME IInv, off' \in Nat, fieldOff' \in Nat, off <= off',
         off + fieldOff <= off' + fieldOff', slots' = slots,
         pc = "args" => (pc' = "args" \/ (off' % WordSize = 0 /\ fieldOff' = 0)),
         pc # "args" => pc' # "args"
  PROVE  /\ Sized' /\ Frontier' /\ NoResultYet' /\ ArgsInEarlierWords'
         /\ SlotsDisjoint' /\ SlotsAligned' /\ ResultsInOwnWords'
<1> DEFINE D == DOMAIN slots
<1>1. off \in Nat /\ fieldOff \in Nat /\ slots \in Seq(Slot)
  BY DEF IInv, TypeOK, Slot
<1>2. \A p \in D : slots[p] \in Slot /\ slots[p].type \in Type
  BY <1>1, ElementOfSeq DEF IInv, Sized
<1>3. \A p \in D : End(slots[p]) \in Nat /\ slots[p].off < End(slots[p])
  <2>1. \A p \in D : slots[p].off \in Nat /\ slots[p].type.size \in Sizes
    BY <1>2 DEF Slot, Type
  <2>2. \A z \in Sizes : z \in Nat /\ z > 0
    BY DEF Sizes
  <2> QED
    BY <2>1, <2>2 DEF End
<1>4. Sized' /\ NoResultYet' /\ SlotsDisjoint' /\ SlotsAligned' /\ ResultsInOwnWords'
  BY DEF IInv, Sized, NoResultYet, SlotsDisjoint, SlotsAligned, ResultsInOwnWords, End
<1>5. Frontier'
  BY <1>1, <1>3 DEF IInv, Frontier, End
<1>6. ArgsInEarlierWords'
  <2> SUFFICES ASSUME pc' # "args", NEW p \in D, ~slots[p].ret
               PROVE  Word(End(slots[p]) - 1) < Word(off')
    BY DEF ArgsInEarlierWords, End
  <2>1. CASE pc = "args"
    <3>1. off' % WordSize = 0 /\ fieldOff' = 0
      BY <2>1
    <3>2. End(slots[p]) <= off + fieldOff
      BY DEF IInv, Frontier
    <3>3. End(slots[p]) <= off'
      BY <1>1, <1>3, <3>1, <3>2
    <3> QED  BY <1>3, <3>1, <3>3, WordBoundary
  <2>2. CASE pc # "args"
    <3>1. Word(End(slots[p]) - 1) < Word(off)
      BY <2>2 DEF IInv, ArgsInEarlierWords
    <3>2. End(slots[p]) - 1 \in Int
      BY <1>3
    <3>3. off \in Int /\ off' \in Int /\ off <= off'
      BY <1>1
    <3>4. Word(off) <= Word(off') /\ Word(off) \in Int /\ Word(off') \in Int
      BY <3>3, WordIsInt, WordMonotone
    <3>5. Word(End(slots[p]) - 1) \in Int
      BY <3>2, WordIsInt
    <3> QED  BY <3>1, <3>4, <3>5
  <2> QED  BY <2>1, <2>2
<1> QED  BY <1>4, <1>5, <1>6

-----------------------------------------------------------------------------
(* The actions, one lemma each.                                            *)

\* What the assumption says of the next Arg.
LEMMA CurrentArg ==
  ASSUME NoEmptyStruct, TypeOK, pc # "done", i <= Len(Current)
  PROVE  /\ Current \in Seq(ArgKinds)
         /\ Current[i] \in Scalars \cup Aggregates
         /\ Current[i].name \in Seq(STRING)
         /\ Current[i].agg => Current[i].fields \in Seq(Field)
         /\ ~Current[i].agg => Current[i].type \in Type
<1>1. Current \in Seq(ArgKinds) /\ i \in 1..Len(Current)
  BY DEF TypeOK, Current
<1>2. Current[i] \in ArgKinds
  BY <1>1, ElementOfSeq
<1>3. Current[i] \in Scalars \cup Aggregates
  BY <1>2 DEF NoEmptyStruct
<1> QED  BY <1>1, <1>3 DEF Scalars, Aggregates

LEMMA InitIInv == Init => IInv
<1> SUFFICES ASSUME Init PROVE IInv
  OBVIOUS
<1>1. \A n \in Nat : Signatures(n) \subseteq Seq(ArgKinds)
  BY DEF Signatures
<1>2. in.args \in Seq(ArgKinds) /\ in.rets \in Seq(ArgKinds)
  BY <1>1, KindsAssumption DEF Init
<1>3. TypeOK
  BY <1>2 DEF Init, TypeOK, Current
<1> QED
  BY <1>3 DEF Init, IInv, Sized, Closed, OpenAligned, Frontier, NoResultYet,
              ArgsInEarlierWords, SlotsDisjoint, SlotsAligned, ResultsInOwnWords

LEMMA PlaceScalarIInv ==
  ASSUME NoEmptyStruct, IInv, PlaceScalar PROVE IInv'
<1> DEFINE a == Current[i]
           o == Align(off, a.type.size)
           s == Param(a.name, a.type, o)
<1>1. TypeOK /\ Closed
  BY DEF IInv
<1>2. pc # "done" /\ k = 0 /\ i <= Len(Current) /\ ~a.agg
  BY DEF PlaceScalar, AtArg
<1>3. a.type \in Type /\ a.name \in Seq(STRING) /\ a.type.size \in Sizes
  BY <1>1, <1>2, CurrentArg DEF Type
<1>4. o \in Nat /\ off <= o /\ o % a.type.size = 0
  BY <1>1, <1>3, AlignLeast DEF TypeOK
<1>5. s \in Slot /\ s.type = a.type /\ s.off = o /\ s.ret = (pc = "rets")
  BY <1>1, <1>3, <1>4 DEF Param, Slot, TypeOK
<1>6. /\ slots' = Append(slots, s) /\ off' = o + a.type.size /\ i' = i + 1
      /\ in' = in /\ pc' = pc /\ k' = k /\ fieldOff' = fieldOff
  BY DEF PlaceScalar
<1>7. fieldOff = 0 /\ off \in Nat
  BY <1>1, <1>2 DEF Closed, TypeOK
<1> HIDE DEF s, o
<1>8. off' \in Nat /\ fieldOff' \in Nat /\ off <= off' /\ End(s) <= off' + fieldOff'
      /\ off + fieldOff <= s.off
  <2>1. a.type.size \in Nat /\ End(s) = o + a.type.size
    BY <1>3, <1>5 DEF End, Sizes
  <2> QED  BY <1>4, <1>5, <1>6, <1>7, <2>1
<1>9. /\ slots' \in Seq(Slot)
      /\ Sized' /\ Frontier' /\ NoResultYet' /\ ArgsInEarlierWords'
      /\ SlotsDisjoint' /\ SlotsAligned' /\ ResultsInOwnWords'
  BY <1>2, <1>3, <1>4, <1>5, <1>6, <1>8, AppendSlot
<1>10. TypeOK'
  BY <1>1, <1>2, <1>6, <1>8, <1>9 DEF TypeOK, Current, Slot
<1>11. Closed' /\ OpenAligned'
  BY <1>2, <1>6, <1>7 DEF Closed, OpenAligned
<1> QED  BY <1>9, <1>10, <1>11 DEF IInv

LEMMA OpenAggregateIInv ==
  ASSUME NoEmptyStruct, IInv, OpenAggregate PROVE IInv'
<1> DEFINE al == aggregateAlign(Current[i].fields)
<1>1. TypeOK /\ Closed
  BY DEF IInv
<1>2. pc # "done" /\ k = 0 /\ i <= Len(Current) /\ Current[i].agg
  BY DEF OpenAggregate, AtArg
<1>3. Current[i].fields \in Seq(Field) /\ al \in Sizes
  BY <1>1, <1>2, CurrentArg, AggregateAlignWidest
<1>4. /\ off' = Align(off, al) /\ k' = 1 /\ fieldOff' = 0
      /\ in' = in /\ pc' = pc /\ i' = i /\ slots' = slots
  BY DEF OpenAggregate
<1>5. off \in Nat /\ fieldOff = 0
  BY <1>1, <1>2 DEF TypeOK, Closed
<1>6. off' \in Nat /\ off <= off' /\ off' % al = 0
  BY <1>3, <1>4, <1>5, AlignLeast
<1> HIDE DEF al
<1>7. /\ Sized' /\ Frontier' /\ NoResultYet' /\ ArgsInEarlierWords'
      /\ SlotsDisjoint' /\ SlotsAligned' /\ ResultsInOwnWords'
  BY <1>4, <1>5, <1>6, NoSlot
<1>8. Current' = Current
  BY <1>4 DEF Current
<1>9. TypeOK'
  BY <1>1, <1>2, <1>3, <1>4, <1>6, <1>8 DEF TypeOK
<1>10. Closed' /\ OpenAligned'
  BY <1>4, <1>6, <1>8 DEF Closed, OpenAligned, al
<1> QED  BY <1>7, <1>9, <1>10 DEF IInv

LEMMA PlaceFieldIInv ==
  ASSUME NoEmptyStruct, IInv, PlaceField PROVE IInv'
<1> DEFINE fields == Current[i].fields
           f == fields[k]
           o == Align(fieldOff, f.type.size)
           s == Param(Append(Current[i].name, f.name), f.type, off + o)
<1>1. TypeOK /\ OpenAligned
  BY DEF IInv
<1>2. /\ k > 0 /\ k <= Len(fields) /\ k' = k + 1
      /\ slots' = Append(slots, s) /\ fieldOff' = o + f.type.size
      /\ in' = in /\ pc' = pc /\ i' = i /\ off' = off
  BY DEF PlaceField
<1>3. pc # "done" /\ i <= Len(Current) /\ Current[i].agg
  BY <1>1, <1>2 DEF TypeOK
<1>4. fields \in Seq(Field) /\ Current[i].name \in Seq(STRING)
  BY <1>1, <1>3, CurrentArg
<1>5. k \in DOMAIN fields /\ k \in Nat /\ off \in Nat /\ fieldOff \in Nat
      /\ pc \in {"args", "rets", "done"} /\ i \in Nat \ {0}
  BY <1>1, <1>2, <1>4 DEF TypeOK
<1>6. f \in Field
  BY <1>4, <1>5, ElementOfSeq
<1>7. f.type \in Type /\ f.type.size \in Sizes /\ f.name \in STRING
  BY <1>6 DEF Field, Type
<1>8. o \in Nat /\ fieldOff <= o /\ o % f.type.size = 0
  BY <1>5, <1>7, AlignLeast
<1>9. /\ aggregateAlign(fields) \in Sizes
      /\ f.type.size <= aggregateAlign(fields)
      /\ off % aggregateAlign(fields) = 0
  BY <1>1, <1>2, <1>4, <1>5, AggregateAlignWidest DEF OpenAligned
<1>10. (off + o) % f.type.size = 0
  BY <1>5, <1>7, <1>8, <1>9, AlignedInAggregate
<1>11. Append(Current[i].name, f.name) \in Seq(STRING)
  BY <1>4, <1>7
<1>12. off + o \in Nat
  BY <1>5, <1>8
<1>13. s \in Slot /\ s.type = f.type /\ s.off = off + o /\ s.ret = (pc = "rets")
  BY <1>5, <1>7, <1>11, <1>12 DEF Param, Slot
<1> HIDE DEF s, o, f
<1>14. /\ off' \in Nat /\ fieldOff' \in Nat /\ off <= off'
       /\ End(s) <= off' + fieldOff' /\ off + fieldOff <= s.off
  <2>1. f.type.size \in Nat /\ End(s) = off + o + f.type.size /\ s.off = off + o
    BY <1>7, <1>13 DEF End, Sizes
  <2>2. fieldOff' = o + f.type.size /\ off' = off
    BY <1>2
  <2> QED  BY <1>5, <1>8, <2>1, <2>2
<1>15. s.type \in Type /\ s.off % s.type.size = 0
  BY <1>7, <1>10, <1>13
<1>16. /\ slots' \in Seq(Slot)
       /\ Sized' /\ Frontier' /\ NoResultYet' /\ ArgsInEarlierWords'
       /\ SlotsDisjoint' /\ SlotsAligned' /\ ResultsInOwnWords'
  BY <1>2, <1>3, <1>13, <1>14, <1>15, AppendSlot
<1>17. Current' = Current
  BY <1>2 DEF Current
<1>18. TypeOK'
  BY <1>1, <1>2, <1>3, <1>5, <1>14, <1>16, <1>17 DEF TypeOK, Slot
<1>19. Closed' /\ OpenAligned'
  BY <1>2, <1>5, <1>9, <1>17 DEF Closed, OpenAligned
<1> QED  BY <1>16, <1>18, <1>19 DEF IInv

LEMMA CloseAggregateIInv ==
  ASSUME NoEmptyStruct, IInv, CloseAggregate PROVE IInv'
<1> DEFINE size == Align(fieldOff, aggregateAlign(Current[i].fields))
<1>1. TypeOK
  BY DEF IInv
<1>2. /\ k > 0 /\ off' = off + size /\ fieldOff' = 0 /\ k' = 0 /\ i' = i + 1
      /\ in' = in /\ pc' = pc /\ slots' = slots
  BY DEF CloseAggregate
<1>3. pc # "done" /\ i <= Len(Current) /\ Current[i].agg
  BY <1>1, <1>2 DEF TypeOK
<1>4. aggregateAlign(Current[i].fields) \in Sizes
  BY <1>1, <1>3, CurrentArg, AggregateAlignWidest
<1>5. off \in Nat /\ fieldOff \in Nat
  BY <1>1 DEF TypeOK
<1>6. size \in Nat /\ fieldOff <= size
  BY <1>4, <1>5, AlignLeast
<1> HIDE DEF size
<1>7. /\ Sized' /\ Frontier' /\ NoResultYet' /\ ArgsInEarlierWords'
      /\ SlotsDisjoint' /\ SlotsAligned' /\ ResultsInOwnWords'
  BY <1>2, <1>5, <1>6, NoSlot
<1>8. TypeOK'
  BY <1>1, <1>2, <1>3, <1>5, <1>6 DEF TypeOK, Current
<1>9. Closed' /\ OpenAligned'
  BY <1>2 DEF Closed, OpenAligned
<1> QED  BY <1>7, <1>8, <1>9 DEF IInv

LEMMA StartResultsIInv ==
  ASSUME IInv, StartResults PROVE IInv'
<1>1. TypeOK /\ Closed
  BY DEF IInv
<1>2. /\ pc = "args" /\ k = 0 /\ off' = Align(off, WordSize) /\ pc' = "rets" /\ i' = 1
      /\ in' = in /\ k' = k /\ fieldOff' = fieldOff /\ slots' = slots
  BY DEF StartResults
<1>3. off \in Nat /\ fieldOff = 0 /\ WordSize \in Sizes
  BY <1>1, <1>2 DEF TypeOK, Closed, WordSize, Sizes
<1>4. off' \in Nat /\ off <= off' /\ off' % WordSize = 0
  BY <1>2, <1>3, AlignLeast
<1>5. /\ Sized' /\ Frontier' /\ NoResultYet' /\ ArgsInEarlierWords'
      /\ SlotsDisjoint' /\ SlotsAligned' /\ ResultsInOwnWords'
  BY <1>2, <1>3, <1>4, NoSlot
<1>6. TypeOK'
  BY <1>1, <1>2, <1>3, <1>4 DEF TypeOK, Current
<1>7. Closed' /\ OpenAligned'
  BY <1>2, <1>3 DEF Closed, OpenAligned
<1> QED  BY <1>5, <1>6, <1>7 DEF IInv

LEMMA FinishIInv ==
  ASSUME IInv, Finish PROVE IInv'
<1>1. TypeOK /\ Closed
  BY DEF IInv
<1>2. /\ pc = "rets" /\ k = 0 /\ pc' = "done"
      /\ in' = in /\ i' = i /\ k' = k /\ fieldOff' = fieldOff /\ off' = off /\ slots' = slots
  BY DEF Finish
<1>3. off \in Nat /\ fieldOff \in Nat
  BY <1>1 DEF TypeOK
<1>4. /\ Sized' /\ Frontier' /\ NoResultYet' /\ ArgsInEarlierWords'
      /\ SlotsDisjoint' /\ SlotsAligned' /\ ResultsInOwnWords'
  BY <1>2, <1>3, NoSlot
<1>5. TypeOK'
  BY <1>1, <1>2 DEF TypeOK
<1>6. Closed' /\ OpenAligned'
  BY <1>1, <1>2 DEF Closed, OpenAligned
<1> QED  BY <1>4, <1>5, <1>6 DEF IInv

LEMMA StepIInv ==
  ASSUME NoEmptyStruct PROVE IInv /\ [Next]_vars => IInv'
<1>1. ASSUME IInv, UNCHANGED vars PROVE IInv'
  BY <1>1 DEF vars, IInv, TypeOK, Sized, Closed, OpenAligned, Frontier, NoResultYet,
              ArgsInEarlierWords, SlotsDisjoint, SlotsAligned, ResultsInOwnWords,
              Current, End
<1> QED
  BY <1>1, PlaceScalarIInv, OpenAggregateIInv, PlaceFieldIInv, CloseAggregateIInv,
     StartResultsIInv, FinishIInv DEF Next

-----------------------------------------------------------------------------
(* The theorems.                                                           *)

\* IInv holds throughout every run of LayoutArgs (abi.go:153).
THEOREM Invariance == ASSUME NoEmptyStruct PROVE Spec => []IInv
<1>1. IInv /\ [Next]_vars => IInv'
  BY StepIInv
<1> QED  BY <1>1, InitIInv, PTL DEF Spec

\* The cursors and offsets of place stay well typed and in range (abi.go:156).
THEOREM TypeCorrect == ASSUME NoEmptyStruct PROVE Spec => []TypeOK
<1>1. IInv => TypeOK
  BY DEF IInv
<1> QED  BY <1>1, Invariance, PTL

\* No two slots of a frame share a byte, whatever the signature.
THEOREM Disjoint == ASSUME NoEmptyStruct PROVE Spec => []SlotsDisjoint
<1>1. IInv => SlotsDisjoint
  BY DEF IInv
<1> QED  BY <1>1, Invariance, PTL

\* Every slot is aligned to its size from the start of the frame.
THEOREM Aligned == ASSUME NoEmptyStruct PROVE Spec => []SlotsAligned
<1>1. IInv => SlotsAligned
  BY DEF IInv
<1> QED  BY <1>1, Invariance, PTL

\* No word of the frame holds both an argument's byte and a result's.
THEOREM ResultsApart == ASSUME NoEmptyStruct PROVE Spec => []ResultsInOwnWords
<1>1. IInv => ResultsInOwnWords
  BY DEF IInv
<1> QED  BY <1>1, Invariance, PTL

\* The declared argument size covers every slot: fieldOff is 0 once place is
\* between arguments, so the frontier is ArgsSize itself.
THEOREM FrameCovers == ASSUME NoEmptyStruct PROVE Spec => []FrameCoversSlots
<1>1. IInv => FrameCoversSlots
  <2> SUFFICES ASSUME IInv, pc = "done", NEW p \in DOMAIN slots
               PROVE  End(slots[p]) <= ArgsSize
    BY DEF FrameCoversSlots
  <2>1. k = 0 /\ fieldOff = 0 /\ off \in Nat
    BY DEF IInv, TypeOK, Closed
  <2>2. End(slots[p]) <= off + fieldOff
    BY DEF IInv, Frontier
  <2> QED  BY <2>1, <2>2 DEF ArgsSize
<1> QED  BY <1>1, Invariance, PTL


-----------------------------------------------------------------------------
(***************************************************************************)
(* place implements Go's rules, which count every offset from the start of *)
(* the frame.  Inside an aggregate place counts from the aggregate's start *)
(* instead; OpenFrame says of each field placed so far what the rules will *)
(* ask of it when the aggregate is put as a whole, and ArgsEnd that before *)
(* the results begin the running offset is where the last argument ends.   *)
(***************************************************************************)

\* Where the slots of the open aggregate begin, less one.
Before == Len(slots) - (k - 1)

\* What the rules say of field j of the open aggregate.
FieldFollows(j) ==
  LET s == slots[Before + j]
  IN  /\ s.type = Current[i].fields[j].type
      /\ s.ret = (pc = "rets")
      /\ Go!LeastMultiple(s.off, IF j = 1 THEN off ELSE End(slots[Before + j - 1]), s.type.size)

OpenFrame ==
  k > 0 => /\ Before \in Nat
           /\ \A j \in 1..(k - 1) : FieldFollows(j)
           /\ k = 1 => fieldOff = 0
           /\ k > 1 => /\ off + fieldOff = End(slots[Len(slots)])
                       /\ slots[Len(slots)].arg = i

ArgsEnd == pc = "args" /\ (k = 0 \/ Current[i].fields = <<>>) => off = EndOfArgs

LEMMA SizeIsPositive == ASSUME NEW s \in Sizes PROVE s \in Nat \ {0}
BY DEF Sizes

\* abi.Align is the rules' least multiple, and the only one.
LEMMA AlignIsLeast ==
  ASSUME NEW e \in Nat, NEW al \in Sizes
  PROVE  Go!LeastMultiple(Align(e, al), e, al)
BY AlignLeast DEF Go!LeastMultiple

\* A least multiple counted from the aggregate's start is one counted from the
\* frame's.
LEMMA LeastFromFrame ==
  ASSUME NEW base \in Nat, NEW e \in Nat, NEW al \in Sizes, NEW s \in Sizes,
         s <= al, base % al = 0
  PROVE  Go!LeastMultiple(base + Align(e, s), base + e, s)
<1> DEFINE o == Align(e, s)
<1>1. o \in Nat /\ e <= o /\ o < e + s /\ o % s = 0
  BY AlignLeast
<1>2. s \in Nat
  BY DEF Sizes
<1> HIDE DEF o
<1>3. (base + o) % s = 0
  BY <1>1, AlignedInAggregate
<1>4. base + e <= base + o /\ base + o < base + e + s
  BY <1>1, <1>2
<1> QED
  BY <1>3, <1>4 DEF Go!LeastMultiple, o

\* What is aligned to begin with is its own least multiple.
LEMMA LeastOfMultiple ==
  ASSUME NEW e \in Nat, NEW o \in Nat, NEW s \in Sizes, e % s = 0, Go!LeastMultiple(o, e, s)
  PROVE  o = e
<1>1. o % s = 0 /\ e <= o /\ o < e + s
  BY DEF Go!LeastMultiple
<1>2. CASE s = 1  BY <1>1, <1>2
<1>3. CASE s = 2  BY <1>1, <1>3
<1>4. CASE s = 4  BY <1>1, <1>4
<1>5. CASE s = 8  BY <1>1, <1>5
<1> QED  BY <1>2, <1>3, <1>4, <1>5 DEF Sizes

\* There is one least multiple.
LEMMA LeastIsUnique ==
  ASSUME NEW o \in Nat, NEW p \in Nat, NEW e \in Nat, NEW s \in Sizes,
         Go!LeastMultiple(o, e, s), Go!LeastMultiple(p, e, s)
  PROVE  o = p
<1>1. o % s = 0 /\ e <= o /\ o < e + s /\ p % s = 0 /\ e <= p /\ p < e + s
  BY DEF Go!LeastMultiple
<1>2. CASE s = 1  BY <1>1, <1>2
<1>3. CASE s = 2  BY <1>1, <1>3
<1>4. CASE s = 4  BY <1>1, <1>4
<1>5. CASE s = 8  BY <1>1, <1>5
<1> QED  BY <1>2, <1>3, <1>4, <1>5 DEF Sizes

\* aggregateAlign is the alignment the rules give an aggregate, unless that is
\* an empty array of something wider than a byte.
LEMMA AlignmentOfFields ==
  ASSUME NEW v, v.agg, v.fields \in Seq(Field), v.elem \in Sizes,
         v.fields = <<>> => v.elem = 1,
         v.fields # <<>> => \E j \in DOMAIN v.fields : v.elem <= v.fields[j].type.size
  PROVE  Go!IsAlignment(aggregateAlign(v.fields), v)
<1> DEFINE fields == v.fields
           W == {1} \cup {fields[j].type.size : j \in DOMAIN fields}
           al == aggregateAlign(fields)
           leaves == Go!Leaves(v)
<1>1. al \in W
  <2>1. W \subseteq {1, 2, 4, 8}
    <3>1. \A j \in DOMAIN fields : fields[j] \in Field
      BY ElementOfSeq
    <3> QED  BY <3>1 DEF Field, Type, Sizes
  <2>2. al = CHOOSE w \in W : \A u \in W : u <= w
    BY DEF aggregateAlign
  <2>3. 1 \in W
    OBVIOUS
  <2> HIDE DEF W, al
  <2>4. \E w \in W : \A u \in W : u <= w
    <3>1. CASE 8 \in W  BY <2>1, <3>1
    <3>2. CASE 8 \notin W /\ 4 \in W  BY <2>1, <3>2
    <3>3. CASE 8 \notin W /\ 4 \notin W /\ 2 \in W  BY <2>1, <3>3
    <3>4. CASE 8 \notin W /\ 4 \notin W /\ 2 \notin W  BY <2>1, <2>3, <3>4
    <3> QED  BY <3>1, <3>2, <3>3, <3>4
  <2> QED  BY <2>2, <2>4
<1>2. al \in Sizes /\ \A j \in DOMAIN fields : fields[j].type.size <= al
  BY AggregateAlignWidest
<1>3. leaves = [j \in DOMAIN fields |-> fields[j].type]
  BY DEF Go!Leaves
<1>4. \A j \in DOMAIN fields : fields[j].type.size \in Sizes
  <2>1. \A j \in DOMAIN fields : fields[j] \in Field
    BY ElementOfSeq
  <2> QED  BY <2>1 DEF Field, Type
<1> DEFINE V == Go!Widths(v)
<1>5. V = {fields[j].type.size : j \in DOMAIN fields} \cup {v.elem}
  BY <1>3 DEF Go!Widths
<1> HIDE DEF al, leaves, V
<1> SUFFICES Go!IsAlignment(al, v)
  BY DEF al
<1>6. CASE fields = <<>>
  <2>1. DOMAIN fields = {}
    BY <1>6
  <2>2. W = {1} /\ V = {1}
    BY <1>5, <1>6, <2>1
  <2>3. al = 1
    BY <1>1, <2>2
  <2> QED  BY <2>2, <2>3 DEF Go!IsAlignment, V
<1>7. CASE fields # <<>>
  <2>1. PICK j \in DOMAIN fields : v.elem <= fields[j].type.size
    BY <1>7
  <2>2. v.elem \in {1, 2, 4, 8} /\ fields[j].type.size \in {1, 2, 4, 8} /\ al \in {1, 2, 4, 8}
        /\ fields[j].type.size <= al
    BY <1>2, <1>4, <2>1 DEF Sizes
  <2>3. v.elem <= al
    BY <2>1, <2>2
  <2>4. \A w \in V : w <= al
    BY <1>2, <1>5, <2>3
  <2>5. al \in V
    <3>1. CASE al = 1
      <4>1. fields[j].type.size = 1
        BY <2>2, <3>1
      <4> QED  BY <1>5, <3>1, <4>1
    <3>2. CASE al # 1
      BY <1>1, <1>5, <3>2
    <3> QED  BY <3>1, <3>2
  <2> QED  BY <2>4, <2>5 DEF Go!IsAlignment, V
<1> QED  BY <1>6, <1>7

LEMMA AlignmentOfCurrent ==
  ASSUME NoEmptyStruct, NarrowEmptyArrays, TypeOK, pc # "done", i <= Len(Current),
         Current[i].agg
  PROVE  Go!IsAlignment(aggregateAlign(Current[i].fields), Current[i])
<1> DEFINE v == Current[i]
<1>1. v \in ArgKinds
  <2>1. Current \in Seq(ArgKinds) /\ i \in 1..Len(Current)
    BY DEF TypeOK, Current
  <2> QED  BY <2>1, ElementOfSeq
<1>2. v.fields \in Seq(Field) /\ v \in Aggregates
  BY CurrentArg DEF Scalars
<1>3. v.elem \in Sizes
  BY <1>2 DEF Aggregates
<1>4. v.fields = <<>> => v.elem = 1
  BY <1>1 DEF NarrowEmptyArrays
<1>5. v.fields # <<>> => \E j \in DOMAIN v.fields : v.elem <= v.fields[j].type.size
  BY <1>1, KindsAssumption
<1> QED  BY <1>2, <1>3, <1>4, <1>5, AlignmentOfFields

LEMMA AlignmentOfScalar ==
  ASSUME NEW v, ~v.agg, v.type \in Type PROVE Go!IsAlignment(v.type.size, v)
<1>1. v.type.size \in Nat
  BY DEF Type, Sizes
<1>2. Go!Leaves(v) = <<v.type>>
  BY DEF Go!Leaves
<1>3. Go!Widths(v) = {v.type.size}
  BY <1>2 DEF Go!Widths
<1> QED  BY <1>1, <1>3 DEF Go!IsAlignment

LEMMA AlignmentOfNothing == aggregateAlign(<<>>) = 1
<1>1. DOMAIN <<>> = {}
  OBVIOUS
<1> QED  BY <1>1 DEF aggregateAlign

-----------------------------------------------------------------------------
(* OpenFrame holds throughout.                                             *)

LEMMA PlaceFieldOpen ==
  ASSUME NoEmptyStruct, IInv, OpenFrame, PlaceField PROVE OpenFrame'
<1> DEFINE fields == Current[i].fields
           f == fields[k]
           o == Align(fieldOff, f.type.size)
           s == Param(Append(Current[i].name, f.name), f.type, off + o)
           n == Len(slots)
           al == aggregateAlign(fields)
<1>1. TypeOK /\ OpenAligned
  BY DEF IInv
<1>2. /\ k > 0 /\ k <= Len(fields) /\ k' = k + 1
      /\ slots' = Append(slots, s) /\ fieldOff' = o + f.type.size
      /\ in' = in /\ pc' = pc /\ i' = i /\ off' = off
  BY DEF PlaceField
<1>3. pc # "done" /\ i <= Len(Current) /\ Current[i].agg
  BY <1>1, <1>2 DEF TypeOK
<1>4. fields \in Seq(Field)
  BY <1>1, <1>3, CurrentArg
<1>5. k \in DOMAIN fields /\ k \in Nat /\ off \in Nat /\ fieldOff \in Nat /\ slots \in Seq(Slot)
  BY <1>1, <1>2, <1>4 DEF TypeOK, Slot
<1>6. f \in Field
  BY <1>4, <1>5, ElementOfSeq
<1>7. f.type \in Type /\ f.type.size \in Sizes
  BY <1>6 DEF Field, Type
<1>8. al \in Sizes /\ f.type.size <= al /\ off % al = 0
  BY <1>1, <1>2, <1>4, <1>5, AggregateAlignWidest DEF OpenAligned
<1>9. Go!LeastMultiple(off + o, off + fieldOff, f.type.size)
  BY <1>5, <1>7, <1>8, LeastFromFrame
<1>10. s.type = f.type /\ s.off = off + o /\ s.ret = (pc = "rets")
  BY DEF Param
<1>11. Current' = Current
  BY <1>2 DEF Current
<1>12. /\ n \in Nat /\ Len(slots') = n + 1 /\ slots'[n + 1] = s
       /\ \A p \in 1..n : slots'[p] = slots[p]
  BY <1>2, <1>5
<1>13. Before' = Before /\ Before \in Nat /\ Before + k = n + 1
  BY <1>2, <1>5, <1>12 DEF Before, OpenFrame
<1>14. o \in Nat /\ f.type.size \in Nat
  BY <1>5, <1>7, AlignLeast, SizeIsPositive
<1> DEFINE b == Before
<1>15. \A j \in 1..(k - 1) : FieldFollows(j)
  BY <1>2 DEF OpenFrame
<1>20. (pc' = "rets") = (pc = "rets")
  BY <1>2
<1>16. \A j \in 1..(k' - 1) : FieldFollows(j)'
  <2> SUFFICES ASSUME NEW j \in 1..k PROVE FieldFollows(j)'
    BY <1>2, <1>5
  <2>1. CASE j < k
    <3>1. FieldFollows(j)
      BY <1>5, <1>15, <2>1
    <3>2. b + j \in 1..n /\ (j # 1 => b + j - 1 \in 1..n)
      BY <1>5, <1>13, <2>1
    <3>3. slots'[b + j] = slots[b + j]
      BY <1>12, <3>2
    <3>4. j # 1 => slots'[b + j - 1] = slots[b + j - 1]
      BY <1>12, <3>2
    <3> QED
      BY <3>1, <3>3, <3>4, <1>2, <1>11, <1>13, <1>20 DEF FieldFollows, End
  <2>2. CASE j = k
    <3>1. slots'[b + j] = s
      BY <1>12, <1>13, <2>2
    <3>2. j = 1 => fieldOff = 0
      BY <1>2, <2>2 DEF OpenFrame
    <3>3. j # 1 => off + fieldOff = End(slots[n]) /\ slots'[b + j - 1] = slots[n]
      <4>1. j # 1 => k > 1 /\ b + j - 1 = n /\ n \in 1..n
        BY <1>5, <1>12, <1>13, <2>2
      <4> QED
        BY <4>1, <1>2, <1>12 DEF OpenFrame
    <3>4. Go!LeastMultiple(s.off, IF j = 1 THEN off ELSE End(slots'[b + j - 1]), s.type.size)
      <4>1. CASE j = 1
        <5>1. off + fieldOff = off
          BY <3>2, <4>1, <1>5
        <5> QED
          BY <4>1, <5>1, <1>9, <1>10
      <4>2. CASE j # 1
        BY <4>2, <3>3, <1>9, <1>10
      <4> QED
        BY <4>1, <4>2
    <3> HIDE DEF s
    <3>5. (slots'[b + j]).type = Current[i].fields[j].type
      BY <3>1, <1>10, <2>2
    <3> QED
      BY <3>1, <3>4, <3>5, <1>2, <1>10, <1>11, <1>13, <1>20 DEF FieldFollows, End
  <2> QED
    BY <1>5, <2>1, <2>2
<1>21. slots'[Len(slots')].arg = i'
  BY <1>2, <1>12 DEF Param
<1>17. off' + fieldOff' = End(slots'[Len(slots')])
  <2>1. End(s) = off + o + f.type.size
    BY <1>10 DEF End
  <2> HIDE DEF s, o, f
  <2> QED
    BY <2>1, <1>2, <1>5, <1>12, <1>14
<1>18. k' # 1
  BY <1>2, <1>5
<1> QED
  BY <1>13, <1>16, <1>17, <1>18, <1>21 DEF OpenFrame, End

LEMMA OpenAggregateOpen ==
  ASSUME IInv, OpenAggregate PROVE OpenFrame'
<1>1. k' = 1 /\ fieldOff' = 0 /\ slots' = slots
  BY DEF OpenAggregate
<1>2. Len(slots) \in Nat
  BY DEF IInv, TypeOK
<1>3. Before' \in Nat
  BY <1>1, <1>2 DEF Before
<1>4. k' - 1 = 0
  BY <1>1
<1> QED
  BY <1>1, <1>3, <1>4 DEF OpenFrame

LEMMA StepOpen ==
  ASSUME NoEmptyStruct PROVE IInv /\ OpenFrame /\ [Next]_vars => OpenFrame'
<1>1. ASSUME OpenFrame, UNCHANGED vars PROVE OpenFrame'
  <2>1. /\ UNCHANGED <<in, pc, i, k, fieldOff, off, slots>> /\ Current' = Current
        /\ Before' = Before
    BY <1>1 DEF vars, Current, Before
  <2>2. ASSUME NEW j, FieldFollows(j) PROVE FieldFollows(j)'
    BY <2>1, <2>2 DEF FieldFollows, End
  <2> QED
    BY <1>1, <2>1, <2>2 DEF OpenFrame, End
<1>2. ASSUME IInv, PlaceScalar PROVE OpenFrame'
  BY <1>2 DEF PlaceScalar, AtArg, OpenFrame
<1>3. ASSUME IInv, CloseAggregate PROVE OpenFrame'
  BY <1>3 DEF CloseAggregate, OpenFrame
<1>4. ASSUME IInv, StartResults PROVE OpenFrame'
  BY <1>4 DEF StartResults, OpenFrame
<1>5. ASSUME IInv, Finish PROVE OpenFrame'
  BY <1>5 DEF Finish, OpenFrame
<1> QED
  BY <1>1, <1>2, <1>3, <1>4, <1>5, PlaceFieldOpen, OpenAggregateOpen DEF Next

-----------------------------------------------------------------------------
(* ArgsEnd holds throughout.                                               *)

LEMMA PlaceScalarEnd ==
  ASSUME NoEmptyStruct, IInv, PlaceScalar PROVE ArgsEnd'
<1> DEFINE a == Current[i]
           o == Align(off, a.type.size)
           s == Param(a.name, a.type, o)
<1>1. /\ ~a.agg /\ slots' = Append(slots, s) /\ off' = o + a.type.size
      /\ in' = in /\ pc' = pc
  BY DEF PlaceScalar
<1>2. slots \in Seq(Slot)
  BY DEF IInv, TypeOK, Slot
<1>3. slots' # <<>> /\ slots'[Len(slots')] = s
  BY <1>1, <1>2
<1>4. s.arg = i /\ End(s) = off'
  BY <1>1 DEF Param, End
<1> HIDE DEF s, o
<1>5. pc = "args" => EndOfArgs' = off'
  BY <1>1, <1>3, <1>4 DEF EndOfArgs, Current, End
<1> QED  BY <1>1, <1>5 DEF ArgsEnd

LEMMA OpenAggregateEnd ==
  ASSUME IInv, ArgsEnd, OpenAggregate PROVE ArgsEnd'
<1>1. /\ k = 0 /\ off' = Align(off, aggregateAlign(Current[i].fields)) /\ k' = 1
      /\ in' = in /\ pc' = pc /\ i' = i /\ slots' = slots
  BY DEF OpenAggregate, AtArg
<1>2. Current' = Current /\ EndOfArgs' = EndOfArgs
  BY <1>1 DEF Current, EndOfArgs
<1>3. Current[i].fields = <<>> => off' = off
  <2> SUFFICES ASSUME Current[i].fields = <<>> PROVE off' = off
    OBVIOUS
  <2>1. off' = Align(off, 1) /\ off \in Nat
    BY <1>1, AlignmentOfNothing DEF IInv, TypeOK
  <2> QED  BY <2>1 DEF Align, ClearLow
<1> QED  BY <1>1, <1>2, <1>3 DEF ArgsEnd

LEMMA CloseAggregateEnd ==
  ASSUME NoEmptyStruct, IInv, OpenFrame, ArgsEnd, CloseAggregate PROVE ArgsEnd'
<1> DEFINE fields == Current[i].fields
           al == aggregateAlign(fields)
           s == slots[Len(slots)]
<1>1. TypeOK /\ OpenAligned
  BY DEF IInv
<1>2. /\ k > 0 /\ k > Len(fields) /\ off' = off + Align(fieldOff, al) /\ k' = 0
      /\ in' = in /\ pc' = pc /\ slots' = slots
  BY DEF CloseAggregate
<1>3. pc # "done" /\ i <= Len(Current) /\ Current[i].agg /\ k <= Len(fields) + 1
  BY <1>1, <1>2 DEF TypeOK
<1>4. fields \in Seq(Field)
  BY <1>1, <1>3, CurrentArg
<1>5. off \in Nat /\ fieldOff \in Nat /\ k \in Nat /\ slots \in Seq(Slot) /\ Len(fields) \in Nat
  BY <1>1, <1>4 DEF TypeOK, Slot
<1>6. al \in Sizes /\ off % al = 0
  BY <1>1, <1>2, <1>4, AggregateAlignWidest DEF OpenAligned
<1>7. EndOfArgs' = EndOfArgs
  BY <1>2 DEF EndOfArgs
<1> SUFFICES ASSUME pc = "args" PROVE off' = EndOfArgs
  BY <1>2, <1>7 DEF ArgsEnd
<1>8. CASE fields = <<>>
  <2>1. k = 1
    <3>1. Len(fields) = 0
      BY <1>8
    <3> HIDE DEF fields
    <3> QED  BY <1>2, <1>3, <1>5, <3>1
  <2>2. fieldOff = 0
    BY <1>2, <2>1 DEF OpenFrame
  <2>3. al = 1
    BY <1>8, AlignmentOfNothing
  <2>4. off' = off
    BY <1>2, <1>5, <2>2, <2>3 DEF Align, ClearLow
  <2> QED  BY <1>8, <2>4 DEF ArgsEnd
<1>9. CASE fields # <<>>
  <2>1. Len(fields) > 0 /\ k > 1
    <3>1. Len(fields) > 0
      BY <1>4, <1>9
    <3> HIDE DEF fields
    <3> QED  BY <1>2, <1>5, <3>1
  <2>2. off + fieldOff = End(s) /\ s.arg = i /\ slots # <<>>
    <3>1. off + fieldOff = End(s) /\ s.arg = i /\ Before \in Nat
      BY <1>2, <2>1 DEF OpenFrame
    <3>2. Len(slots) \in Nat /\ Len(slots) > 0
      BY <3>1, <2>1, <1>5 DEF Before
    <3> QED  BY <3>1, <3>2
  <2>3. EndOfArgs = Align(off + fieldOff, al)
    BY <1>3, <2>2 DEF EndOfArgs, Current
  <2>4. off + fieldOff \in Nat /\ Align(off + fieldOff, al) \in Nat /\ off' \in Nat
    <3> HIDE DEF al
    <3>1. off + fieldOff \in Nat
      BY <1>5
    <3>2. Align(fieldOff, al) \in Nat /\ Align(off + fieldOff, al) \in Nat
      BY <1>5, <1>6, <3>1, AlignLeast
    <3> QED  BY <1>2, <1>5, <3>1, <3>2
  <2>5. Go!LeastMultiple(Align(off + fieldOff, al), off + fieldOff, al)
    BY <1>6, <2>4, AlignIsLeast
  <2>6. Go!LeastMultiple(off', off + fieldOff, al)
    <3>1. al <= al
      BY <1>6, SizeIsPositive
    <3> QED  BY <1>2, <1>5, <1>6, <3>1, LeastFromFrame
  <2> HIDE DEF al, fields
  <2> QED  BY <1>6, <2>3, <2>4, <2>5, <2>6, LeastIsUnique
<1> QED  BY <1>8, <1>9

LEMMA StepEnd ==
  ASSUME NoEmptyStruct PROVE IInv /\ OpenFrame /\ ArgsEnd /\ [Next]_vars => ArgsEnd'
<1>1. ASSUME ArgsEnd, UNCHANGED vars PROVE ArgsEnd'
  <2>1. UNCHANGED <<in, pc, i, k, off, slots>>
    BY <1>1 DEF vars
  <2>2. Current' = Current /\ EndOfArgs' = EndOfArgs
    BY <2>1 DEF Current, EndOfArgs
  <2> QED  BY <1>1, <2>1, <2>2 DEF ArgsEnd
<1>2. ASSUME IInv, PlaceField PROVE ArgsEnd'
  <2>1. /\ k > 0 /\ k <= Len(Current[i].fields) /\ k' = k + 1 /\ in' = in /\ pc' = pc /\ i' = i
    BY <1>2 DEF PlaceField
  <2>2. k \in Nat /\ Current' = Current
    BY <1>2, <2>1 DEF IInv, TypeOK, Current
  <2>3. Current[i].fields # <<>>
    <3>1. ASSUME Current[i].fields = <<>> PROVE FALSE
      <4>1. Len(Current[i].fields) = 0
        BY <3>1
      <4> QED  BY <2>1, <2>2, <4>1
    <3> QED  BY <3>1
  <2> QED  BY <2>1, <2>2, <2>3 DEF ArgsEnd
<1>3. ASSUME StartResults PROVE ArgsEnd'
  BY <1>3 DEF StartResults, ArgsEnd
<1>4. ASSUME Finish PROVE ArgsEnd'
  BY <1>4 DEF Finish, ArgsEnd
<1> QED
  BY <1>1, <1>2, <1>3, <1>4, PlaceScalarEnd, OpenAggregateEnd, CloseAggregateEnd DEF Next

-----------------------------------------------------------------------------
(* Each step of place is a step of the rules, or none.                     *)

\* While there is something to place, the end of the rules' frame is the
\* running offset.
LEMMA PlacingEnd ==
  ASSUME TypeOK, pc # "done", i <= Len(Current), in' = in, pc' = pc
  PROVE  GoEnd = off /\ GoEnd' = off'
<1>1. pc # "args" => in.rets # <<>>
  <2> SUFFICES ASSUME pc # "args", in.rets = <<>> PROVE FALSE
    OBVIOUS
  <2>1. Len(Current) = 0 /\ i \in Nat \ {0}
    BY DEF TypeOK, Current
  <2> QED  BY <2>1
<1> QED  BY <1>1 DEF GoEnd

LEMMA WholeWhenClosed ==
  ASSUME TypeOK, k = 0 PROVE WholeSlots = slots
<1>1. slots \in Seq(Slot)
  BY DEF TypeOK, Slot
<1>2. Len(slots) - 0 = Len(slots)
  BY <1>1
<1>3. SubSeq(slots, 1, Len(slots)) = slots
  BY <1>1
<1> QED
  BY <1>2, <1>3 DEF WholeSlots

\* f is the frame of b slots with the slots of v's leaves put after them, up to
\* the end e, as the rules ask.
Puts(v, leaves, b, f, e) ==
  /\ Len(f) = b + Len(leaves)
  /\ SubSeq(f, 1, b) = WholeSlots
  /\ \A j \in DOMAIN leaves :
       LET t == f[b + j]
       IN  /\ t.type = leaves[j]
           /\ t.ret = (pc = "rets")
           /\ Go!LeastMultiple(t.off, IF j = 1 THEN off ELSE Go!SlotEnd(f[b + j - 1]), t.type.size)
  /\ \E al \in {1, 2, 4, 8} :
       /\ Go!IsAlignment(al, v)
       /\ leaves = <<>> => off % al = 0 /\ e = off
       /\ leaves # <<>> =>
            f[b + 1].off % al = 0 /\ Go!LeastMultiple(e, Go!SlotEnd(f[b + Len(leaves)]), al)

LEMMA PutFrom ==
  ASSUME NEW v, NEW leaves, NEW b, NEW f, NEW e, b = Len(WholeSlots), f = WholeSlots',
         e = GoEnd', off = GoEnd,
         pc \in {"args", "rets"}, i - 1 < Len(Go!Values), (i - 1)' = (i - 1) + 1,
         Go!Values[(i - 1) + 1] = v, Go!Leaves(v) = leaves, Puts(v, leaves, b, f, e),
         in' = in, pc' = pc
  PROVE  Go!Put
BY Zenon DEF Go!Put, Puts

LEMMA PlaceScalarPuts ==
  ASSUME NoEmptyStruct, IInv, PlaceScalar PROVE Go!Put
<1> DEFINE a == Current[i]
           o == Align(off, a.type.size)
           s == Param(a.name, a.type, o)
           n == Len(slots)
<1>1. TypeOK /\ IInv'
  BY PlaceScalarIInv DEF IInv
<1>2. pc # "done" /\ k = 0 /\ i <= Len(Current) /\ ~a.agg
  BY DEF PlaceScalar, AtArg
<1>3. a.type \in Type /\ a.type.size \in Sizes
  BY <1>1, <1>2, CurrentArg DEF Type
<1>4. /\ slots' = Append(slots, s) /\ off' = o + a.type.size /\ i' = i + 1
      /\ in' = in /\ pc' = pc /\ k' = k
  BY DEF PlaceScalar
<1>5. slots \in Seq(Slot) /\ slots' \in Seq(Slot) /\ off \in Nat /\ i \in Nat \ {0}
  BY <1>1 DEF TypeOK, Slot, IInv
<1>6. WholeSlots = slots /\ WholeSlots' = slots'
  <2>1. TypeOK' /\ k' = 0
    BY <1>1, <1>2, <1>4 DEF IInv
  <2>2. (Len(slots))' - 0 = Len(slots') /\ SubSeq(slots', 1, Len(slots')) = slots'
    BY <1>5
  <2> QED
    BY <1>1, <1>2, <2>1, <2>2, WholeWhenClosed DEF WholeSlots
<1>7. s.type = a.type /\ s.off = o /\ s.ret = (pc = "rets")
  BY DEF Param
<1>8. /\ n \in Nat /\ Len(slots') = n + 1 /\ slots'[n + 1] = s
      /\ SubSeq(slots', 1, n) = slots
  <2>1. n \in Nat /\ Len(slots') = n + 1 /\ slots'[n + 1] = s
    BY <1>4, <1>5
  <2>2. \A p \in 1..n : slots'[p] = slots[p]
    BY <1>4, <1>5
  <2>3. SubSeq(slots', 1, n) = slots
    BY <1>5, <2>1, <2>2
  <2> QED
    BY <2>1, <2>3
<1>9. Go!Values[(i - 1) + 1] = a /\ i - 1 < Len(Go!Values)
  <2>1. Go!Values = Current /\ (i - 1) + 1 = i /\ Len(Current) \in Nat
    BY <1>1, <1>2, <1>5 DEF Go!Values, Current, TypeOK
  <2> QED
    BY <2>1, <1>2, <1>5
<1>10. Go!Leaves(a) = <<a.type>>
  BY <1>2 DEF Go!Leaves
<1>11. o \in Nat /\ o % a.type.size = 0 /\ a.type.size \in Nat \ {0}
  BY <1>3, <1>5, AlignLeast, SizeIsPositive
<1>12. Go!LeastMultiple(o, off, a.type.size)
  BY <1>3, <1>5, AlignIsLeast
<1>13. Go!LeastMultiple(off', Go!SlotEnd(s), a.type.size)
  <2>1. Go!SlotEnd(s) = o + a.type.size
    BY <1>7 DEF Go!SlotEnd
  <2> DEFINE z == a.type.size
  <2> HIDE DEF o, s, a
  <2>2. (o + z) % z = 0
    <3>1. z \in Sizes /\ o \in Nat /\ o % z = 0
      BY <1>3, <1>11
    <3> HIDE DEF z
    <3>2. CASE z = 1  BY <3>1, <3>2
    <3>3. CASE z = 2  BY <3>1, <3>3
    <3>4. CASE z = 4  BY <3>1, <3>4
    <3>5. CASE z = 8  BY <3>1, <3>5
    <3> QED  BY <3>1, <3>2, <3>3, <3>4, <3>5 DEF Sizes
  <2>3. off' = o + z /\ Go!SlotEnd(s) = o + z /\ o \in Nat /\ z \in Nat \ {0}
    BY <2>1, <1>4, <1>11
  <2> HIDE DEF z
  <2>4. off' % z = 0
    BY <2>2, <2>3
  <2>5. Go!SlotEnd(s) <= off' /\ off' < Go!SlotEnd(s) + z
    BY <2>3
  <2>6. Go!LeastMultiple(off', Go!SlotEnd(s), z)
    BY <2>4, <2>5 DEF Go!LeastMultiple
  <2> QED
    BY <2>6 DEF z
<1>14. Go!IsAlignment(a.type.size, a) /\ a.type.size \in {1, 2, 4, 8}
  BY <1>2, <1>3, AlignmentOfScalar DEF Sizes
<1>26. GoEnd = off /\ GoEnd' = off'
  BY <1>1, <1>2, <1>4, PlacingEnd
<1> HIDE DEF s, o, a
<1>15. (i - 1)' = (i - 1) + 1
  BY <1>4, <1>5
<1>16. pc \in {"args", "rets"}
  BY <1>1, <1>2 DEF TypeOK
<1> DEFINE leaves == <<a.type>>
<1>17. Len(leaves) = 1 /\ DOMAIN leaves = {1} /\ leaves[1] = a.type /\ leaves # <<>>
  OBVIOUS
<1> HIDE DEF leaves
<1>18. Go!Values[(i - 1) + 1] = a /\ Go!Leaves(a) = leaves
  BY <1>9, <1>10 DEF leaves
<1>19. Len(slots) + Len(leaves) = n + 1
  BY <1>8, <1>17
<1>20. \A j \in DOMAIN leaves :
         LET t == slots'[n + j]
         IN  /\ t.type = leaves[j]
             /\ t.ret = (pc = "rets")
             /\ Go!LeastMultiple(t.off, IF j = 1 THEN off ELSE Go!SlotEnd(slots'[n + j - 1]), t.type.size)
  BY <1>7, <1>8, <1>12, <1>17
<1>21. /\ (slots'[n + 1]).off % a.type.size = 0
       /\ Go!LeastMultiple(off', Go!SlotEnd(slots'[n + 1]), a.type.size)
  BY <1>7, <1>8, <1>11, <1>13
<1>22. n = Len(WholeSlots) /\ slots' = WholeSlots'
       /\ Len(slots') = n + Len(leaves) /\ SubSeq(slots', 1, n) = WholeSlots
  BY <1>6, <1>8, <1>17
<1>23. \E al \in {1, 2, 4, 8} :
         /\ Go!IsAlignment(al, a)
         /\ leaves = <<>> => off % al = 0 /\ off' = off
         /\ leaves # <<>> => /\ slots'[n + 1].off % al = 0
                             /\ Go!LeastMultiple(off', Go!SlotEnd(slots'[n + Len(leaves)]), al)
  BY <1>14, <1>17, <1>19, <1>21
<1>24. i - 1 < Len(Go!Values) /\ UNCHANGED <<in, pc>>
  BY <1>4, <1>9
<1> HIDE DEF n
<1>25. Puts(a, leaves, n, slots', off')
  BY <1>20, <1>22, <1>23 DEF Puts
<1> QED
  BY <1>15, <1>16, <1>18, <1>22, <1>24, <1>25, <1>26, PutFrom

LEMMA OpenAggregatePads ==
  ASSUME NoEmptyStruct, NarrowEmptyArrays, IInv, OpenAggregate PROVE Go!Pad
<1> DEFINE al == aggregateAlign(Current[i].fields)
<1>1. TypeOK
  BY DEF IInv
<1>2. pc # "done" /\ k = 0 /\ i <= Len(Current) /\ Current[i].agg
  BY DEF OpenAggregate, AtArg
<1>3. Current[i].fields \in Seq(Field) /\ al \in Sizes
  BY <1>1, <1>2, CurrentArg, AggregateAlignWidest
<1>4. /\ off' = Align(off, al) /\ k' = 1
      /\ in' = in /\ pc' = pc /\ i' = i /\ slots' = slots
  BY DEF OpenAggregate
<1>5. off \in Nat /\ i \in Nat \ {0} /\ slots \in Seq(Slot) /\ pc \in {"args", "rets"}
  BY <1>1, <1>2 DEF TypeOK, Slot
<1>6. Go!LeastMultiple(off', off, al)
  BY <1>3, <1>4, <1>5, AlignIsLeast
<1>7. Go!Values[(i - 1) + 1] = Current[i] /\ i - 1 < Len(Go!Values)
  <2>1. Go!Values = Current /\ (i - 1) + 1 = i /\ Len(Current) \in Nat
    BY <1>1, <1>2, <1>5 DEF Go!Values, Current, TypeOK
  <2> QED
    BY <2>1, <1>2, <1>5
<1>8. Go!IsAlignment(al, Current[i])
  BY <1>1, <1>2, AlignmentOfCurrent
<1>12. GoEnd = off /\ GoEnd' = off'
  BY <1>1, <1>2, <1>4, PlacingEnd
<1>9. WholeSlots' = WholeSlots
  <2>1. Len(slots) - (1 - 1) = Len(slots) - 0
    BY <1>5
  <2> QED
    BY <2>1, <1>2, <1>4 DEF WholeSlots
<1>10. (i - 1)' = i - 1
  BY <1>4
<1>11. al \in {1, 2, 4, 8}
  BY <1>3 DEF Sizes
<1> HIDE DEF al
<1> QED
  BY <1>4, <1>5, <1>6, <1>7, <1>8, <1>9, <1>10, <1>11, <1>12 DEF Go!Pad

LEMMA PlaceFieldStutters ==
  ASSUME NoEmptyStruct, IInv, OpenFrame, PlaceField PROVE UNCHANGED Go!vars
<1>1. TypeOK /\ TypeOK'
  BY PlaceFieldIInv DEF IInv
<1>2. /\ k > 0 /\ k' = k + 1 /\ in' = in /\ pc' = pc /\ i' = i /\ off' = off
      /\ \E s : slots' = Append(slots, s)
  BY DEF PlaceField
<1>3. slots \in Seq(Slot) /\ slots' \in Seq(Slot) /\ k \in Nat
  BY <1>1 DEF TypeOK, Slot
<1>4. Before \in Nat /\ Before <= Len(slots)
  BY <1>2, <1>3 DEF OpenFrame, Before
<1>5. WholeSlots = SubSeq(slots, 1, Before)
  BY <1>2, <1>3 DEF WholeSlots, Before
<1>6. WholeSlots' = SubSeq(slots', 1, Before)
  <2>1. Len(slots') = Len(slots) + 1 /\ Len(slots) \in Nat
    BY <1>2, <1>3
  <2>2. Len(slots') - (k' - 1) = Before /\ k' # 0
    BY <2>1, <1>2, <1>3 DEF Before
  <2> QED
    BY <2>2 DEF WholeSlots
<1>7. SubSeq(slots', 1, Before) = SubSeq(slots, 1, Before)
  <2>1. \A p \in 1..Before : slots'[p] = slots[p]
    BY <1>2, <1>3, <1>4
  <2>2. Before <= Len(slots')
    BY <1>2, <1>3, <1>4
  <2> QED
    BY <2>1, <2>2, <1>3, <1>4
<1>8. GoEnd' = GoEnd
  <2>1. pc # "done" /\ i <= Len(Current)
    BY <1>1, <1>2 DEF TypeOK
  <2> QED
    BY <1>1, <1>2, <2>1, PlacingEnd
<1> QED
  BY <1>2, <1>5, <1>6, <1>7, <1>8 DEF Go!vars

LEMMA CloseAggregatePuts ==
  ASSUME NoEmptyStruct, NarrowEmptyArrays, IInv, OpenFrame, CloseAggregate PROVE Go!Put
<1> DEFINE fields == Current[i].fields
           al == aggregateAlign(fields)
           leaves == [j \in DOMAIN fields |-> fields[j].type]
           m == Len(fields)
           b == Before
<1>1. TypeOK /\ OpenAligned /\ TypeOK' /\ Sized
  BY CloseAggregateIInv DEF IInv
<1>2. /\ k > 0 /\ k > m /\ off' = off + Align(fieldOff, al) /\ k' = 0 /\ i' = i + 1
      /\ in' = in /\ pc' = pc /\ slots' = slots
  BY DEF CloseAggregate
<1>3. pc # "done" /\ i <= Len(Current) /\ Current[i].agg /\ k <= m + 1
  BY <1>1, <1>2 DEF TypeOK
<1>4. fields \in Seq(Field)
  BY <1>1, <1>3, CurrentArg
<1>5. /\ off \in Nat /\ fieldOff \in Nat /\ i \in Nat \ {0} /\ k \in Nat /\ slots \in Seq(Slot)
      /\ pc \in {"args", "rets"} /\ m \in Nat /\ DOMAIN fields = 1..m
  <2>1. /\ off \in Nat /\ fieldOff \in Nat /\ i \in Nat \ {0} /\ k \in Nat /\ slots \in Seq(Slot)
        /\ pc \in {"args", "rets", "done"}
    BY <1>1, Zenon DEF TypeOK, Slot
  <2>2. m \in Nat /\ DOMAIN fields = 1..m
    BY <1>4
  <2>3. QED  BY <1>3, <2>1, <2>2, Zenon
<1>6. k - 1 = m
  <2>1. k \in Nat /\ m \in Nat /\ k > m /\ k <= m + 1
    BY <1>2, <1>3, <1>5
  <2> HIDE DEF m
  <2> QED
    BY <2>1
<1>7. al \in Sizes /\ off % al = 0 /\ \A j \in 1..m : fields[j].type.size <= al
  BY <1>1, <1>2, <1>4, <1>5, AggregateAlignWidest DEF OpenAligned
<1>8. b \in Nat /\ Len(slots) = b + m /\ b <= Len(slots)
  <2>1. b \in Nat /\ b = Len(slots) - (k - 1)
    BY <1>2 DEF OpenFrame, Before
  <2>2. Len(slots) \in Nat /\ m \in Nat
    BY <1>5
  <2> HIDE DEF b, m
  <2>3. b \in Nat /\ b = Len(slots) - m
    BY <2>1, <1>6
  <2> DEFINE n == Len(slots)
  <2>4. n \in Nat /\ m \in Nat /\ b \in Nat /\ b = n - m
    BY <2>2, <2>3
  <2> HIDE DEF n
  <2>5. n = b + m /\ b <= n
    BY <2>4
  <2> QED
    BY <2>3, <2>5 DEF n
<1>9. \A j \in 1..m : FieldFollows(j)
  BY <1>2, <1>6 DEF OpenFrame
<1>10. WholeSlots = SubSeq(slots, 1, b) /\ Len(WholeSlots) = b
  <2>1. WholeSlots = SubSeq(slots, 1, b)
    BY <1>2, <1>5 DEF WholeSlots, Before
  <2> HIDE DEF b
  <2> QED
    BY <2>1, <1>5, <1>8
<1>11. WholeSlots' = slots
  <2>1. Len(slots) - 0 = Len(slots) /\ SubSeq(slots, 1, Len(slots)) = slots
    BY <1>5
  <2> QED
    BY <2>1, <1>2 DEF WholeSlots
<1>12. Go!Values[(i - 1) + 1] = Current[i] /\ i - 1 < Len(Go!Values)
  <2>1. Go!Values = Current /\ (i - 1) + 1 = i /\ Len(Current) \in Nat
    BY <1>1, <1>3, <1>5 DEF Go!Values, Current, TypeOK
  <2> QED
    BY <2>1, <1>3, <1>5
<1>13. Go!Leaves(Current[i]) = leaves
  BY <1>3 DEF Go!Leaves
<1>14. Go!IsAlignment(al, Current[i]) /\ al \in {1, 2, 4, 8}
  BY <1>1, <1>3, <1>7, AlignmentOfCurrent DEF Sizes
<1>31. GoEnd = off /\ GoEnd' = off'
  BY <1>1, <1>2, <1>3, PlacingEnd
<1>15. Len(leaves) = m /\ DOMAIN leaves = 1..m /\ leaves \in Seq(Type)
       /\ (leaves = <<>> <=> m = 0)
  <2>1. \A j \in 1..m : fields[j].type \in Type
    <3>1. \A j \in 1..m : fields[j] \in Field
      BY <1>4, <1>5, ElementOfSeq
    <3> QED
      BY <3>1 DEF Field
  <2>2. leaves \in [1..m -> Type]
    BY <1>5, <2>1
  <2> HIDE DEF leaves, m
  <2> QED
    BY <2>2, <1>5
<1>16. Go!LeastMultiple(off', off + fieldOff, al)
  <2>1. al <= al
    BY <1>7, SizeIsPositive
  <2>2. Go!LeastMultiple(off + Align(fieldOff, al), off + fieldOff, al)
    BY <2>1, <1>5, <1>7, LeastFromFrame
  <2> QED
    BY <2>2, <1>2
<1>17. m = 0 => off' = off
  <2> SUFFICES ASSUME m = 0 PROVE off' = off
    OBVIOUS
  <2>1. k = 1
    BY <1>5, <1>6
  <2>2. fieldOff = 0
    BY <1>2, <2>1 DEF OpenFrame
  <2>3. off + fieldOff = off
    BY <2>2, <1>5
  <2>4. off' \in Nat
    BY <1>1 DEF TypeOK
  <2> QED
    BY <2>3, <2>4, <1>5, <1>7, <1>16, LeastOfMultiple
<1>18. m # 0 => /\ off + fieldOff = Go!SlotEnd(slots[b + m])
                /\ slots[b + 1].off % al = 0
  <2> SUFFICES ASSUME m # 0
               PROVE  /\ off + fieldOff = Go!SlotEnd(slots[b + m])
                      /\ slots[b + 1].off % al = 0
    OBVIOUS
  <2>1. k > 1
    BY <1>5, <1>6
  <2>2. off + fieldOff = End(slots[b + m])
    BY <1>2, <1>8, <2>1 DEF OpenFrame
  <2>3. 1 \in 1..m
    BY <1>5
  <2>4. Go!LeastMultiple(slots[b + 1].off, off, slots[b + 1].type.size)
        /\ slots[b + 1].type = fields[1].type
    BY <1>9, <2>3 DEF FieldFollows
  <2>5. b + 1 \in 1..Len(slots)
    BY <1>8, <2>3
  <2>6. slots[b + 1] \in Slot /\ slots[b + 1].type \in Type
    BY <1>1, <1>5, <2>5, ElementOfSeq DEF Sized
  <2> DEFINE z == slots[b + 1].type.size
             e == slots[b + 1].off
  <2>7. e \in Nat /\ z \in Sizes /\ z <= al /\ Go!LeastMultiple(e, off, z)
    BY <2>3, <2>4, <2>6, <1>7 DEF Slot, Type
  <2> HIDE DEF z, e
  <2>8. off % z = 0
    <3>1. (off + 0) % z = 0
      <4>1. 0 % z = 0
        BY <2>7 DEF Sizes
      <4> QED
        BY <4>1, <2>7, <1>5, <1>7, AlignedInAggregate
    <3> QED
      BY <3>1, <1>5
  <2>9. e = off
    BY <2>7, <2>8, <1>5, LeastOfMultiple
  <2> QED
    BY <2>2, <2>9, <1>7 DEF Go!SlotEnd, End, e
<1>19. \A j \in 1..m :
         LET t == slots[b + j]
         IN  /\ t.type = leaves[j]
             /\ t.ret = (pc = "rets")
             /\ Go!LeastMultiple(t.off, IF j = 1 THEN off ELSE Go!SlotEnd(slots[b + j - 1]), t.type.size)
  BY <1>5, <1>9 DEF FieldFollows, Go!SlotEnd, End
<1>20. (i - 1)' = (i - 1) + 1
  BY <1>2, <1>5
<1>21. SubSeq(slots, 1, b) = WholeSlots
  BY <1>10
<1> HIDE DEF leaves, al, m, b, fields
<1>22. leaves = <<>> => off' = off
  BY <1>15, <1>17
<1>23. leaves # <<>> => /\ slots[b + 1].off % al = 0
                        /\ Go!LeastMultiple(off', Go!SlotEnd(slots[b + m]), al)
  BY <1>15, <1>16, <1>18
<1>24. Go!Values[(i - 1) + 1] = Current[i] /\ Go!Leaves(Current[i]) = leaves
  BY <1>12, <1>13
<1>25. Len(WholeSlots) = b /\ Len(WholeSlots) + Len(leaves) = b + m /\ Len(slots) = b + m
  BY <1>8, <1>10, <1>15
<1>26. b = Len(WholeSlots) /\ slots = WholeSlots'
       /\ Len(slots) = b + Len(leaves) /\ SubSeq(slots, 1, b) = WholeSlots
  BY <1>11, <1>15, <1>21, <1>25
<1>27. \E al0 \in {1, 2, 4, 8} :
         /\ Go!IsAlignment(al0, Current[i])
         /\ leaves = <<>> => off % al0 = 0 /\ off' = off
         /\ leaves # <<>> =>
              /\ slots[b + 1].off % al0 = 0
              /\ Go!LeastMultiple(off', Go!SlotEnd(slots[b + Len(leaves)]), al0)
  BY <1>7, <1>14, <1>15, <1>22, <1>23
<1>28. \A j \in DOMAIN leaves :
         LET t == slots[b + j]
         IN  /\ t.type = leaves[j]
             /\ t.ret = (pc = "rets")
             /\ Go!LeastMultiple(t.off, IF j = 1 THEN off ELSE Go!SlotEnd(slots[b + j - 1]), t.type.size)
  BY <1>15, <1>19
<1>29. i - 1 < Len(Go!Values) /\ UNCHANGED <<in, pc>> /\ pc \in {"args", "rets"}
  BY <1>2, <1>5, <1>12
<1>30. Puts(Current[i], leaves, b, slots, off')
  BY <1>26, <1>27, <1>28 DEF Puts
<1> QED
  BY <1>20, <1>24, <1>26, <1>29, <1>30, <1>31, PutFrom

LEMMA StartResultsStarts ==
  ASSUME IInv, ArgsEnd, StartResults PROVE Go!StartResults
<1>1. /\ pc = "args" /\ k = 0 /\ i > Len(in.args) /\ off' = Align(off, WordSize) /\ pc' = "rets"
      /\ i' = 1 /\ in' = in /\ k' = k /\ slots' = slots
  BY DEF StartResults
<1>2. TypeOK
  BY DEF IInv
<1>3. /\ i <= Len(in.args) + 1 /\ i \in Nat \ {0} /\ Len(in.args) \in Nat /\ off \in Nat
  BY <1>1, <1>2 DEF TypeOK, Current
<1>4. i - 1 = Len(in.args) /\ (i - 1)' = 0
  BY <1>1, <1>3
<1>5. Go!LeastMultiple(off', off, 8)
  BY <1>1, <1>3, AlignIsLeast DEF WordSize, Sizes
<1>6. WholeSlots' = WholeSlots
  BY <1>1 DEF WholeSlots
<1>7. GoEnd = off
  BY <1>1 DEF GoEnd
<1>8. CASE in.rets = <<>>
  <2>1. GoEnd' = EndOfArgs' /\ EndOfArgs' = EndOfArgs
    BY <1>1, <1>8 DEF GoEnd, EndOfArgs
  <2>2. GoEnd' = GoEnd
    BY <1>1, <1>7, <2>1 DEF ArgsEnd
  <2> QED
    BY <1>1, <1>4, <1>6, <1>8, <2>2 DEF Go!StartResults
<1>9. CASE in.rets # <<>>
  <2>1. GoEnd' = off'
    BY <1>1, <1>9 DEF GoEnd
  <2> QED
    BY <1>1, <1>4, <1>5, <1>6, <1>7, <1>9, <2>1 DEF Go!StartResults
<1> QED
  BY <1>8, <1>9

LEMMA FinishReturns ==
  ASSUME IInv, Finish PROVE Go!Return
<1>1. /\ pc = "rets" /\ k = 0 /\ i > Len(in.rets) /\ pc' = "done"
      /\ in' = in /\ i' = i /\ k' = k /\ off' = off /\ slots' = slots
  BY DEF Finish
<1>2. i <= Len(in.rets) + 1 /\ i \in Nat \ {0} /\ Len(in.rets) \in Nat
  BY <1>1 DEF IInv, TypeOK, Current
<1>3. i - 1 = Len(in.rets)
  BY <1>1, <1>2
<1>4. WholeSlots' = WholeSlots /\ (i - 1)' = i - 1
  BY <1>1 DEF WholeSlots
<1>5. GoEnd' = GoEnd
  BY <1>1 DEF GoEnd, EndOfArgs
<1> QED
  BY <1>1, <1>3, <1>4, <1>5 DEF Go!Return

\* LayoutArgs, which keeps running offsets relative to the aggregate it is in
\* and aligns with masks, gives every slot of every signature the place Go's
\* rules give it (abi.go:77), and the frame of a signature with results Go's
\* size, unless an argument is a struct with no field or an empty array of
\* something wider than a byte.
THEOREM Refinement ==
  ASSUME NoEmptyStruct, NarrowEmptyArrays PROVE Spec => FollowsGoRules
<1>1. Init => Go!Init
  <2> SUFFICES ASSUME Init PROVE Go!Init
    OBVIOUS
  <2>1. pc = "args" /\ i - 1 = 0 /\ off = 0 /\ slots = <<>> /\ k = 0
    BY DEF Init
  <2>2. WholeSlots = <<>>
    <3>1. Len(slots) - 0 = 0 /\ SubSeq(slots, 1, 0) = <<>>
      BY <2>1
    <3> QED
      BY <2>1, <3>1 DEF WholeSlots
  <2>3. GoEnd = 0
    BY <2>1 DEF GoEnd
  <2> QED
    BY <2>1, <2>2, <2>3 DEF Go!Init
<1>2. Init => OpenFrame /\ ArgsEnd
  BY DEF Init, OpenFrame, ArgsEnd, EndOfArgs
<1>3. IInv /\ OpenFrame /\ ArgsEnd /\ [Next]_vars => [Go!Next]_(Go!vars)
  <2> SUFFICES ASSUME IInv, OpenFrame, ArgsEnd, [Next]_vars
               PROVE  Go!Next \/ UNCHANGED Go!vars
    OBVIOUS
  <2>1. ASSUME UNCHANGED vars PROVE UNCHANGED Go!vars
    BY <2>1 DEF vars, Go!vars, WholeSlots, GoEnd, EndOfArgs
  <2> QED
    BY <2>1, PlaceScalarPuts, OpenAggregatePads, PlaceFieldStutters, CloseAggregatePuts,
       StartResultsStarts, FinishReturns DEF Next, Go!Next
<1>4. IInv /\ OpenFrame /\ ArgsEnd /\ [Next]_vars => OpenFrame' /\ ArgsEnd'
  BY StepOpen, StepEnd
<1> QED
  BY <1>1, <1>2, <1>3, <1>4, Invariance, PTL DEF Spec, FollowsGoRules, Go!Spec

-----------------------------------------------------------------------------
(* What each architecture's moves do: a mnemonic of MoveTables names one move of *)
(* the instruction set model.                                              *)

\* Every move of that name has this width and extension, and there is one.
Does(arc, name, width, ext) ==
  /\ \E m \in ISA(arc) : m.name = name
  /\ \A m \in ISA(arc) : m.name = name => m.width = width /\ m.ext = ext

LEMMA MeaningOf ==
  ASSUME NEW arc, NEW name, NEW width, NEW ext, Does(arc, name, width, ext)
  PROVE  Meaning(arc, name).width = width /\ Meaning(arc, name).ext = ext
BY DEF Does, Meaning

LEMMA MoveIs ==
  \A n, w, e, f :
    Move(n, w, e, f).name = n /\ Move(n, w, e, f).width = w /\ Move(n, w, e, f).ext = e
BY DEF Move

\* The moves each architecture's table names.
LEMMA AmdMoves ==
  /\ Does("amd64", "MOVSS", 4, "zero") /\ Does("amd64", "MOVSD", 8, "zero")
  /\ Does("amd64", "MOVBQSX", 1, "sign") /\ Does("amd64", "MOVBQZX", 1, "zero")
  /\ Does("amd64", "MOVWQSX", 2, "sign") /\ Does("amd64", "MOVWQZX", 2, "zero")
  /\ Does("amd64", "MOVLQSX", 4, "sign") /\ Does("amd64", "MOVLQZX", 4, "zero")
  /\ Does("amd64", "MOVB", 1, "keep") /\ Does("amd64", "MOVW", 2, "keep")
  /\ Does("amd64", "MOVL", 4, "zero") /\ Does("amd64", "MOVQ", 8, "zero")
<1>1. ISA("amd64") =
         {Move("MOVBQSX", 1, "sign", "int"), Move("MOVBQZX", 1, "zero", "int"),
          Move("MOVWQSX", 2, "sign", "int"), Move("MOVWQZX", 2, "zero", "int"),
          Move("MOVLQSX", 4, "sign", "int"), Move("MOVLQZX", 4, "zero", "int"),
          Move("MOVB", 1, "keep", "int"), Move("MOVW", 2, "keep", "int"),
          Move("MOVL", 4, "zero", "int"), Move("MOVQ", 8, "zero", "int"),
          Move("MOVSS", 4, "zero", "float"), Move("MOVSD", 8, "zero", "float")}
  BY DEF ISA
<1> QED BY <1>1, MoveIs DEF Does

LEMMA ArmMoves ==
  /\ Does("arm64", "FMOVS", 4, "zero") /\ Does("arm64", "FMOVD", 8, "zero")
  /\ Does("arm64", "MOVB", 1, "sign") /\ Does("arm64", "MOVBU", 1, "zero")
  /\ Does("arm64", "MOVH", 2, "sign") /\ Does("arm64", "MOVHU", 2, "zero")
  /\ Does("arm64", "MOVW", 4, "sign") /\ Does("arm64", "MOVWU", 4, "zero")
  /\ Does("arm64", "MOVD", 8, "zero")
<1>1. ISA("arm64") = RiscMoves \cup UnsignedU \cup FMoves \cup {Move("MOVD", 8, "zero", "int")}
  BY DEF ISA
<1> QED BY <1>1, MoveIs DEF Does, RiscMoves, UnsignedU, FMoves

LEMMA RiscvMoves ==
  ASSUME NEW arc \in {"riscv64", "loong64"}
  PROVE  /\ Does(arc, "MOVF", 4, "zero") /\ Does(arc, "MOVD", 8, "zero")
         /\ Does(arc, "MOVB", 1, "sign") /\ Does(arc, "MOVBU", 1, "zero")
         /\ Does(arc, "MOVH", 2, "sign") /\ Does(arc, "MOVHU", 2, "zero")
         /\ Does(arc, "MOVW", 4, "sign") /\ Does(arc, "MOVWU", 4, "zero")
         /\ Does(arc, IF arc = "riscv64" THEN "MOV" ELSE "MOVV", 8, "zero")
<1> DEFINE word == IF arc = "riscv64" THEN "MOV" ELSE "MOVV"
<1>1. ISA(arc) = RiscMoves \cup UnsignedU
           \cup {Move("MOVF", 4, "zero", "float"), Move("MOVD", 8, "zero", "float"),
                 Move(word, 8, "zero", "int")}
  BY DEF ISA
<1>2. word \in {"MOV", "MOVV"}
  OBVIOUS
<1> HIDE DEF word
<1>3. /\ Does(arc, "MOVF", 4, "zero") /\ Does(arc, "MOVD", 8, "zero")
      /\ Does(arc, "MOVB", 1, "sign") /\ Does(arc, "MOVBU", 1, "zero")
      /\ Does(arc, "MOVH", 2, "sign") /\ Does(arc, "MOVHU", 2, "zero")
      /\ Does(arc, "MOVW", 4, "sign") /\ Does(arc, "MOVWU", 4, "zero")
      /\ Does(arc, word, 8, "zero")
  BY <1>1, <1>2, MoveIs DEF Does, RiscMoves, UnsignedU
<1> QED BY <1>3 DEF word

LEMMA PowerMoves ==
  ASSUME NEW arc \in {"ppc64", "s390x"}
  PROVE  /\ Does(arc, "FMOVS", 4, "zero") /\ Does(arc, "FMOVD", 8, "zero")
         /\ Does(arc, "MOVB", 1, "sign") /\ Does(arc, "MOVBZ", 1, "zero")
         /\ Does(arc, "MOVH", 2, "sign") /\ Does(arc, "MOVHZ", 2, "zero")
         /\ Does(arc, "MOVW", 4, "sign") /\ Does(arc, "MOVWZ", 4, "zero")
         /\ Does(arc, "MOVD", 8, "zero")
<1>1. ISA(arc) = RiscMoves \cup UnsignedZ \cup FMoves \cup {Move("MOVD", 8, "zero", "int")}
  BY DEF ISA
<1> QED BY <1>1, MoveIs DEF Does, RiscMoves, UnsignedZ, FMoves

Fits(arc, name, width) == \E ext : Does(arc, name, width, ext)

\* A table's columns do what their heading says.
TableRight(arc, T) ==
  /\ Does(arc, T.f4, 4, "zero") /\ Does(arc, T.f8, 8, "zero") /\ Does(arc, T.w, 8, "zero")
  /\ Does(arc, T.s1, 1, "sign") /\ Does(arc, T.u1, 1, "zero")
  /\ Does(arc, T.s2, 2, "sign") /\ Does(arc, T.u2, 2, "zero")
  /\ Does(arc, T.s4, 4, "sign") /\ Does(arc, T.u4, 4, "zero")
  /\ Fits(arc, T.t1, 1) /\ Fits(arc, T.t2, 2) /\ Fits(arc, T.t4, 4)

LEMMA TablesRight == ASSUME NEW arc \in Arches PROVE TableRight(arc, Table(arc))
<1>1. CASE arc = "amd64"
  <2>1. Table("amd64") = amd64
    BY DEF Table
  <2>2. TableRight("amd64", amd64)
    <3> DEFINE T == amd64
    <3>1. /\ Does("amd64", T.f4, 4, "zero") /\ Does("amd64", T.f8, 8, "zero")
          /\ Does("amd64", T.w, 8, "zero")
          /\ Does("amd64", T.s1, 1, "sign") /\ Does("amd64", T.u1, 1, "zero")
          /\ Does("amd64", T.s2, 2, "sign") /\ Does("amd64", T.u2, 2, "zero")
          /\ Does("amd64", T.s4, 4, "sign") /\ Does("amd64", T.u4, 4, "zero")
      BY AmdMoves DEF amd64
    <3>2. Fits("amd64", T.t1, 1) /\ Fits("amd64", T.t2, 2) /\ Fits("amd64", T.t4, 4)
      BY AmdMoves DEF amd64, Fits
    <3> QED BY <3>1, <3>2 DEF TableRight
  <2> QED BY <1>1, <2>1, <2>2
<1>2. CASE arc = "arm64"
  <2>1. Table("arm64") = arm64
    BY DEF Table
  <2>2. TableRight("arm64", arm64)
    <3> DEFINE T == arm64
    <3>1. /\ Does("arm64", T.f4, 4, "zero") /\ Does("arm64", T.f8, 8, "zero")
          /\ Does("arm64", T.w, 8, "zero")
          /\ Does("arm64", T.s1, 1, "sign") /\ Does("arm64", T.u1, 1, "zero")
          /\ Does("arm64", T.s2, 2, "sign") /\ Does("arm64", T.u2, 2, "zero")
          /\ Does("arm64", T.s4, 4, "sign") /\ Does("arm64", T.u4, 4, "zero")
      BY ArmMoves DEF arm64
    <3>2. Fits("arm64", T.t1, 1) /\ Fits("arm64", T.t2, 2) /\ Fits("arm64", T.t4, 4)
      BY ArmMoves DEF arm64, Fits
    <3> QED BY <3>1, <3>2 DEF TableRight
  <2> QED BY <1>2, <2>1, <2>2
<1>3. CASE arc = "riscv64"
  <2>1. Table("riscv64") = riscv64
    BY DEF Table
  <2>2. TableRight("riscv64", riscv64)
    <3> DEFINE T == riscv64
    <3>1. /\ Does("riscv64", T.f4, 4, "zero") /\ Does("riscv64", T.f8, 8, "zero")
          /\ Does("riscv64", T.w, 8, "zero")
          /\ Does("riscv64", T.s1, 1, "sign") /\ Does("riscv64", T.u1, 1, "zero")
          /\ Does("riscv64", T.s2, 2, "sign") /\ Does("riscv64", T.u2, 2, "zero")
          /\ Does("riscv64", T.s4, 4, "sign") /\ Does("riscv64", T.u4, 4, "zero")
      BY RiscvMoves DEF riscv64
    <3>2. Fits("riscv64", T.t1, 1) /\ Fits("riscv64", T.t2, 2) /\ Fits("riscv64", T.t4, 4)
      BY RiscvMoves DEF riscv64, Fits
    <3> QED BY <3>1, <3>2 DEF TableRight
  <2> QED BY <1>3, <2>1, <2>2
<1>4. CASE arc = "loong64"
  <2>1. Table("loong64") = loong64
    BY DEF Table
  <2>2. TableRight("loong64", loong64)
    <3> DEFINE T == loong64
    <3>1. /\ Does("loong64", T.f4, 4, "zero") /\ Does("loong64", T.f8, 8, "zero")
          /\ Does("loong64", T.w, 8, "zero")
          /\ Does("loong64", T.s1, 1, "sign") /\ Does("loong64", T.u1, 1, "zero")
          /\ Does("loong64", T.s2, 2, "sign") /\ Does("loong64", T.u2, 2, "zero")
          /\ Does("loong64", T.s4, 4, "sign") /\ Does("loong64", T.u4, 4, "zero")
      BY RiscvMoves DEF loong64
    <3>2. Fits("loong64", T.t1, 1) /\ Fits("loong64", T.t2, 2) /\ Fits("loong64", T.t4, 4)
      BY RiscvMoves DEF loong64, Fits
    <3> QED BY <3>1, <3>2 DEF TableRight
  <2> QED BY <1>4, <2>1, <2>2
<1>5. CASE arc = "ppc64"
  <2>1. Table("ppc64") = ppc64
    BY DEF Table
  <2>2. TableRight("ppc64", ppc64)
    <3> DEFINE T == ppc64
    <3>1. /\ Does("ppc64", T.f4, 4, "zero") /\ Does("ppc64", T.f8, 8, "zero")
          /\ Does("ppc64", T.w, 8, "zero")
          /\ Does("ppc64", T.s1, 1, "sign") /\ Does("ppc64", T.u1, 1, "zero")
          /\ Does("ppc64", T.s2, 2, "sign") /\ Does("ppc64", T.u2, 2, "zero")
          /\ Does("ppc64", T.s4, 4, "sign") /\ Does("ppc64", T.u4, 4, "zero")
      BY PowerMoves DEF ppc64
    <3>2. Fits("ppc64", T.t1, 1) /\ Fits("ppc64", T.t2, 2) /\ Fits("ppc64", T.t4, 4)
      BY PowerMoves DEF ppc64, Fits
    <3> QED BY <3>1, <3>2 DEF TableRight
  <2> QED BY <1>5, <2>1, <2>2
<1>6. CASE arc = "s390x"
  <2>1. Table("s390x") = s390x
    BY DEF Table
  <2>2. TableRight("s390x", s390x)
    <3> DEFINE T == s390x
    <3>1. /\ Does("s390x", T.f4, 4, "zero") /\ Does("s390x", T.f8, 8, "zero")
          /\ Does("s390x", T.w, 8, "zero")
          /\ Does("s390x", T.s1, 1, "sign") /\ Does("s390x", T.u1, 1, "zero")
          /\ Does("s390x", T.s2, 2, "sign") /\ Does("s390x", T.u2, 2, "zero")
          /\ Does("s390x", T.s4, 4, "sign") /\ Does("s390x", T.u4, 4, "zero")
      BY PowerMoves DEF s390x
    <3>2. Fits("s390x", T.t1, 1) /\ Fits("s390x", T.t2, 2) /\ Fits("s390x", T.t4, 4)
      BY PowerMoves DEF s390x, Fits
    <3> QED BY <3>1, <3>2 DEF TableRight
  <2> QED BY <1>6, <2>1, <2>2
<1> QED BY <1>1, <1>2, <1>3, <1>4, <1>5, <1>6 DEF Arches

\* How a load of that type is to extend.
LoadExt(t) == IF t.signed /\ ~t.float /\ t.size # 8 THEN "sign" ELSE "zero"

\* loadMnemonic gives a load of the type's width that extends as it should,
\* storeMnemonic a store of its width (amd64.go:56, amd64.go:90, arm64.go:62).
LEMMA LoadDoes ==
  ASSUME NEW arc \in Arches, NEW t \in GoTypes
  PROVE  Does(arc, loadMnemonic(arc, t), t.size, LoadExt(t))
<1> DEFINE T == Table(arc)
<1>1. TableRight(arc, T)
  BY TablesRight
<1>2. t.size \in {1, 2, 4, 8} /\ t.float \in BOOLEAN /\ t.signed \in BOOLEAN
      /\ (t.float => t.size \in {4, 8})
  BY DEF GoTypes, Type, Sizes
<1> HIDE DEF T
<1>3. CASE t.float
  BY <1>1, <1>2, <1>3 DEF TableRight, loadMnemonic, T, LoadExt
<1>4. CASE ~t.float /\ t.size = 1
  BY <1>1, <1>2, <1>4 DEF TableRight, loadMnemonic, T, LoadExt
<1>5. CASE ~t.float /\ t.size = 2
  BY <1>1, <1>2, <1>5 DEF TableRight, loadMnemonic, T, LoadExt
<1>6. CASE ~t.float /\ t.size = 4
  BY <1>1, <1>2, <1>6 DEF TableRight, loadMnemonic, T, LoadExt
<1>7. CASE ~t.float /\ t.size = 8
  BY <1>1, <1>2, <1>7 DEF TableRight, loadMnemonic, T, LoadExt
<1> QED BY <1>2, <1>3, <1>4, <1>5, <1>6, <1>7

LEMMA StoreFits ==
  ASSUME NEW arc \in Arches, NEW t \in GoTypes
  PROVE  Fits(arc, storeMnemonic(arc, t), t.size)
<1> DEFINE T == Table(arc)
<1>1. TableRight(arc, T)
  BY TablesRight
<1>2. t.size \in {1, 2, 4, 8} /\ t.float \in BOOLEAN /\ t.signed \in BOOLEAN
      /\ (t.float => t.size \in {4, 8})
  BY DEF GoTypes, Type, Sizes
<1> HIDE DEF T
<1>3. CASE t.float
  BY <1>1, <1>2, <1>3 DEF TableRight, storeMnemonic, T, Fits
<1>4. CASE ~t.float
  BY <1>1, <1>2, <1>4 DEF TableRight, storeMnemonic, T, Fits
<1> QED BY <1>2, <1>3, <1>4

\* What a line's move does.
LEMMA LineMoves ==
  ASSUME NEW arc \in Arches, NEW t \in GoTypes
  PROVE  /\ Meaning(arc, loadMnemonic(arc, t)).width = t.size
         /\ Meaning(arc, loadMnemonic(arc, t)).ext = LoadExt(t)
         /\ Meaning(arc, storeMnemonic(arc, t)).width = t.size
BY LoadDoes, StoreFits, MeaningOf DEF Fits

-----------------------------------------------------------------------------
(* Slots keep apart: their flattened names, their types.                   *)

\* A name is not itself the flattening of others (as the name s_l beside a slice
\* s is, abi.go:170), and the fields of a struct have distinct names.
PlainNames ==
  \A a \in ArgKinds :
    /\ Len(a.name) = 1
    /\ \A j, l \in DOMAIN a.fields : a.fields[j].name = a.fields[l].name => j = l

Area(ret) == IF ret THEN in.rets ELSE in.args

\* A slot's name begins with that of the parameter it comes from.
Origins ==
  \A p \in DOMAIN slots :
    /\ slots[p].arg \in DOMAIN Area(slots[p].ret)
    /\ slots[p].name[1] = Area(slots[p].ret)[slots[p].arg].name[1]

\* A slot comes from an earlier parameter, or is a field already placed.
Placed(s, a, at, n) ==
  \/ s.arg < at
  \/ s.arg = at /\ \E j \in 1..n : s.name = Append(a.name, a.fields[j].name)

Behind ==
  pc # "done" =>
    \A p \in DOMAIN slots :
      (slots[p].ret <=> pc = "rets") => Placed(slots[p], Current[i], i, k - 1)
NamesApart == \A p, q \in DOMAIN slots : slots[p].name = slots[q].name => p = q

NameInv ==
  /\ DistinctNames
  /\ Origins
  /\ Behind
  /\ NamesApart

LEMMA KindIs ==
  ASSUME NEW a \in ArgKinds
  PROVE  a.name \in Seq(STRING) /\ a.fields \in Seq(Field)
<1>1. <<>> \in Seq(Field)
  OBVIOUS
<1>2. a \in Scalars \cup Aggregates \cup EmptyStructs
  BY KindsAssumption
<1> QED BY <1>1, <1>2 DEF Scalars, Aggregates, EmptyStructs

LEMMA SameNames == ASSUME DistinctNames, in' = in PROVE DistinctNames'
<1> DEFINE all == in.args \o in.rets
<1>1. all' = all
  OBVIOUS
<1>2. \A p, q \in DOMAIN all : p # q => all[p].name # all[q].name
  BY DEF DistinctNames
<1>3. DistinctNames' <=> (\A p, q \in DOMAIN all : p # q => all[p].name # all[q].name)'
  BY DEF DistinctNames
<1> HIDE DEF all
<1> QED BY <1>1, <1>2, <1>3

\* Slots of two parameters have names that begin differently.
LEMMA FirstApart ==
  ASSUME PlainNames, TypeOK, DistinctNames, NEW r \in BOOLEAN, NEW u \in BOOLEAN,
         NEW j \in DOMAIN Area(r), NEW l \in DOMAIN Area(u),
         Area(r)[j].name[1] = Area(u)[l].name[1]
  PROVE  (r <=> u) /\ j = l
<1> DEFINE all == in.args \o in.rets
           n == Len(in.args)
           at(v, x) == IF v THEN n + x ELSE x
<1>1. in.args \in Seq(ArgKinds) /\ in.rets \in Seq(ArgKinds)
  BY DEF TypeOK
<1>2. /\ n \in Nat
      /\ j \in Nat \ {0} /\ l \in Nat \ {0}
      /\ ~r => j \in 1..n
      /\ ~u => l \in 1..n
  BY <1>1 DEF Area
<1>3. /\ at(r, j) \in DOMAIN all /\ all[at(r, j)] = Area(r)[j]
      /\ at(u, l) \in DOMAIN all /\ all[at(u, l)] = Area(u)[l]
  <2>1. \A x \in 1..(n + Len(in.rets)) :
           all[x] = IF x <= n THEN in.args[x] ELSE in.rets[x - n]
    BY <1>1, ConcatProperties
  <2>2. DOMAIN all = 1..(n + Len(in.rets)) /\ Len(in.rets) \in Nat
    BY <1>1, ConcatProperties
  <2>3. DOMAIN in.args = 1..n /\ DOMAIN in.rets = 1..Len(in.rets)
    BY <1>1
  <2> HIDE DEF all, n
  <2>4. \A v \in BOOLEAN : \A x \in DOMAIN Area(v) :
           at(v, x) \in DOMAIN all /\ all[at(v, x)] = Area(v)[x]
    <3> SUFFICES ASSUME NEW v \in BOOLEAN, NEW x \in DOMAIN Area(v)
                 PROVE  at(v, x) \in DOMAIN all /\ all[at(v, x)] = Area(v)[x]
      OBVIOUS
    <3>1. CASE v
      <4>1. x \in 1..Len(in.rets) /\ at(v, x) = n + x /\ Area(v)[x] = in.rets[x]
        BY <2>3, <3>1 DEF Area
      <4>2. n + x \in 1..(n + Len(in.rets)) /\ ~(n + x <= n) /\ (n + x) - n = x
        BY <1>2, <2>2, <4>1
      <4> QED BY <2>1, <2>2, <4>1, <4>2
    <3>2. CASE ~v
      <4>1. x \in 1..n /\ at(v, x) = x /\ Area(v)[x] = in.args[x]
        BY <2>3, <3>2 DEF Area
      <4> QED BY <1>2, <2>1, <2>2, <4>1
    <3> QED BY <3>1, <3>2
  <2> QED BY <2>4
<1>4. Area(r)[j] \in ArgKinds /\ Area(u)[l] \in ArgKinds
  BY <1>1, ElementOfSeq DEF Area
<1>5. /\ Area(r)[j].name \in Seq(STRING) /\ Len(Area(r)[j].name) = 1
      /\ Area(u)[l].name \in Seq(STRING) /\ Len(Area(u)[l].name) = 1
  BY <1>4, KindIs DEF PlainNames
<1>6. /\ Area(r)[j].name = [x \in 1..1 |-> Area(r)[j].name[1]]
      /\ Area(u)[l].name = [x \in 1..1 |-> Area(u)[l].name[1]]
  BY <1>5
<1>7. Area(r)[j].name = Area(u)[l].name
  BY <1>6
<1>8. at(r, j) = at(u, l)
  BY <1>3, <1>7 DEF DistinctNames
<1> QED BY <1>2, <1>8

\* What a new slot of the current Arg does to Origins and NamesApart.
LEMMA AppendNamed ==
  ASSUME IInv, NameInv, NEW s \in Slot, slots' = Append(slots, s), in' = in,
         s.arg \in DOMAIN Area(s.ret), s.name[1] = Area(s.ret)[s.arg].name[1],
         \A p \in DOMAIN slots : slots[p].name # s.name
  PROVE  DistinctNames' /\ Origins' /\ NamesApart'
<1> DEFINE n == Len(slots)
<1>1. slots \in Seq(Slot)
  BY DEF IInv, TypeOK, Slot
<1>2. /\ n \in Nat /\ DOMAIN slots = 1..n /\ DOMAIN slots' = 1..(n + 1)
      /\ slots'[n + 1] = s
      /\ \A p \in 1..n : slots'[p] = slots[p]
  BY <1>1
<1>3. Origins'
  BY <1>2 DEF NameInv, Origins, Area
<1>4. NamesApart'
  BY <1>2 DEF NameInv, NamesApart
<1> QED BY <1>3, <1>4, SameNames DEF NameInv

LEMMA FirstOfAppend ==
  ASSUME NEW name \in Seq(STRING), Len(name) = 1, NEW part \in STRING
  PROVE  /\ Append(name, part) \in Seq(STRING) /\ Append(name, part)[1] = name[1]
         /\ Append(name, part)[2] = part
<1>1. /\ Append(name, part) \in Seq(STRING)
      /\ \A x \in 1..Len(name) : Append(name, part)[x] = name[x]
      /\ Append(name, part)[Len(name) + 1] = part
  BY AppendProperties, SMTT(30)
<1>2. 1 \in 1..Len(name) /\ Len(name) + 1 = 2
  OBVIOUS
<1> QED BY <1>1, <1>2

LEMMA SlotIs ==
  ASSUME TypeOK
  PROVE  /\ slots \in Seq(Slot) /\ Len(slots) \in Nat /\ DOMAIN slots = 1..Len(slots)
         /\ \A p \in DOMAIN slots :
              /\ slots[p] \in Slot
              /\ slots[p].name \in Seq(STRING) /\ slots[p].off \in Nat
              /\ slots[p].ret \in BOOLEAN /\ slots[p].arg \in Nat \ {0}
<1>1. slots \in Seq(Slot)
  BY DEF TypeOK, Slot
<1>2. Len(slots) \in Nat /\ DOMAIN slots = 1..Len(slots)
  BY <1>1
<1>3. \A p \in DOMAIN slots : slots[p] \in Slot
  BY <1>1, <1>2, ElementOfSeq
<1> QED BY <1>1, <1>2, <1>3 DEF Slot

LEMMA AppendIs ==
  ASSUME TypeOK, NEW s \in Slot, slots' = Append(slots, s)
  PROVE  /\ DOMAIN slots' = 1..(Len(slots) + 1)
         /\ slots'[Len(slots) + 1] = s
         /\ \A p \in 1..Len(slots) : slots'[p] = slots[p]
<1>1. slots \in Seq(Slot)
  BY SlotIs
<1> QED BY <1>1

\* What place appends for one parameter keeps names apart.
LEMMA PlaceScalarNames ==
  ASSUME NoEmptyStruct, PlainNames, IInv, NameInv, PlaceScalar PROVE NameInv'
<1> DEFINE a == Current[i]
           o == Align(off, a.type.size)
           s == Param(a.name, a.type, o)
<1>1. TypeOK
  BY DEF IInv
<1>2. pc # "done" /\ k = 0 /\ i <= Len(Current) /\ ~a.agg
  BY DEF PlaceScalar, AtArg
<1>3. a.type \in Type /\ a.name \in Seq(STRING) /\ a.type.size \in Sizes
  BY <1>1, <1>2, CurrentArg DEF Type
<1>4. o \in Nat
  BY <1>1, <1>3, AlignLeast DEF TypeOK
<1>5. s \in Slot /\ s.name = a.name /\ s.arg = i /\ (s.ret <=> pc = "rets")
  BY <1>1, <1>3, <1>4 DEF Param, Slot, TypeOK
<1>6. /\ slots' = Append(slots, s) /\ i' = i + 1 /\ in' = in /\ pc' = pc /\ k' = k
  BY DEF PlaceScalar
<1>7. Area(s.ret) = Current /\ i \in DOMAIN Current /\ i \in Nat /\ Area(s.ret)[i] = a
  BY <1>1, <1>2, <1>5 DEF Area, Current, TypeOK
<1> HIDE DEF s, o, a
<1>8. \A p \in DOMAIN slots : slots[p].name # s.name
  <2> SUFFICES ASSUME NEW p \in DOMAIN slots, slots[p].name = s.name PROVE FALSE
    OBVIOUS
  <2>1. slots[p].ret \in BOOLEAN /\ s.ret \in BOOLEAN
    BY <1>1, <1>5, SlotIs DEF Slot
  <2>2. /\ slots[p].arg \in DOMAIN Area(slots[p].ret)
        /\ slots[p].name[1] = Area(slots[p].ret)[slots[p].arg].name[1]
    BY DEF NameInv, Origins
  <2>3. (slots[p].ret <=> s.ret) /\ slots[p].arg = i
    BY <1>1, <1>5, <1>7, <2>1, <2>2, FirstApart DEF NameInv
  <2> QED BY <1>2, <1>5, <1>7, <2>3 DEF NameInv, Behind, Placed
<1>9. DistinctNames' /\ Origins' /\ NamesApart'
  BY <1>5, <1>6, <1>7, <1>8, AppendNamed
<1>10. Behind'
  <2>2. /\ Len(slots) \in Nat /\ DOMAIN slots = 1..Len(slots) /\ DOMAIN slots' = 1..(Len(slots) + 1)
        /\ slots'[Len(slots) + 1] = s
        /\ \A p \in 1..Len(slots) : slots'[p] = slots[p] /\ slots[p].arg \in Nat
    BY <1>1, <1>5, <1>6, SlotIs, AppendIs
  <2>3. \A p \in 1..Len(slots) : (slots[p].ret <=> pc = "rets") => slots[p].arg < i
    BY <1>2, <2>2 DEF NameInv, Behind, Placed
  <2> QED BY <1>5, <1>6, <1>7, <2>2, <2>3 DEF Behind, Placed
<1> QED BY <1>9, <1>10 DEF NameInv

LEMMA PlaceFieldNames ==
  ASSUME NoEmptyStruct, PlainNames, IInv, NameInv, PlaceField PROVE NameInv'
<1> DEFINE fields == Current[i].fields
           f == fields[k]
           o == Align(fieldOff, f.type.size)
           s == Param(Append(Current[i].name, f.name), f.type, off + o)
<1>1. TypeOK
  BY DEF IInv
<1>2. /\ k > 0 /\ k <= Len(fields) /\ k' = k + 1
      /\ slots' = Append(slots, s)
      /\ in' = in /\ pc' = pc /\ i' = i
  BY DEF PlaceField
<1>3. pc # "done" /\ i <= Len(Current) /\ Current[i].agg
  BY <1>1, <1>2 DEF TypeOK
<1>4. fields \in Seq(Field) /\ Current[i].name \in Seq(STRING)
  BY <1>1, <1>3, CurrentArg
<1>5. k \in DOMAIN fields /\ k \in Nat /\ off \in Nat /\ fieldOff \in Nat
      /\ pc \in {"args", "rets", "done"} /\ i \in Nat \ {0}
  BY <1>1, <1>2, <1>4 DEF TypeOK
<1>6. f \in Field
  BY <1>4, <1>5, ElementOfSeq
<1>7. f.type \in Type /\ f.type.size \in Sizes /\ f.name \in STRING
  BY <1>6 DEF Field, Type
<1>8. o \in Nat
  BY <1>5, <1>7, AlignLeast
<1>9. Current[i] \in ArgKinds /\ i \in DOMAIN Current
  <2>1. Current \in Seq(ArgKinds)
    BY <1>1, <1>3, CurrentArg
  <2>2. i \in 1..Len(Current)
    BY <1>3, <1>5, <2>1
  <2> QED BY <2>1, <2>2, ElementOfSeq
<1>10. Len(Current[i].name) = 1
       /\ \A j \in DOMAIN fields : fields[j].name = f.name => j = k
  BY <1>5, <1>9 DEF PlainNames
<1>11. /\ Append(Current[i].name, f.name) \in Seq(STRING)
       /\ Append(Current[i].name, f.name)[1] = Current[i].name[1]
  BY <1>4, <1>7, <1>10, FirstOfAppend
<1>12. s \in Slot /\ s.name = Append(Current[i].name, f.name) /\ s.arg = i
       /\ (s.ret <=> pc = "rets")
  <2> DEFINE n == Append(Current[i].name, f.name)
             to == off + o
  <2>1. to \in Nat /\ n \in Seq(STRING)
    BY <1>5, <1>8, <1>11
  <2>2. s = [name |-> n, type |-> f.type, off |-> to, ret |-> pc = "rets", arg |-> i]
    BY DEF Param
  <2> HIDE DEF n, to, s, f
  <2>3. s \in Slot /\ s.name = n /\ s.arg = i /\ (s.ret <=> pc = "rets")
    BY <1>5, <1>7, <2>1, <2>2 DEF Slot
  <2> QED BY <2>3 DEF n
<1> HIDE DEF s
<1>13. Area(s.ret) = Current /\ s.name[1] = Current[i].name[1]
  <2>1. Area(s.ret) = Current
    BY <1>3, <1>5, <1>12 DEF Area, Current
  <2> QED BY <1>11, <1>12, <2>1
<1> HIDE DEF o, f, fields
<1>14. \A p \in DOMAIN slots : slots[p].name # s.name
  <2> SUFFICES ASSUME NEW p \in DOMAIN slots, slots[p].name = s.name PROVE FALSE
    OBVIOUS
  <2>1. slots[p].ret \in BOOLEAN /\ s.ret \in BOOLEAN
    BY <1>1, <1>12, SlotIs DEF Slot
  <2>2. /\ slots[p].arg \in DOMAIN Area(slots[p].ret)
        /\ slots[p].name[1] = Area(slots[p].ret)[slots[p].arg].name[1]
    BY DEF NameInv, Origins
  <2>3. (slots[p].ret <=> s.ret) /\ slots[p].arg = i
    BY <1>1, <1>9, <1>12, <1>13, <2>1, <2>2, FirstApart DEF NameInv
  <2>4. PICK j \in 1..(k - 1) : slots[p].name = Append(Current[i].name, fields[j].name)
    BY <1>3, <1>5, <1>12, <2>3 DEF NameInv, Behind, Placed, fields
  <2>5. j \in DOMAIN fields /\ j # k
    BY <1>4, <1>5, <2>4
  <2>6. fields[j].name \in STRING
    <3>1. fields[j] \in Field
      BY <1>4, <2>5
    <3> QED BY <3>1 DEF Field
  <2>7. /\ Append(Current[i].name, fields[j].name)[2] = fields[j].name
        /\ Append(Current[i].name, f.name)[2] = f.name
    BY <1>4, <1>7, <1>10, <2>6, FirstOfAppend
  <2> QED BY <1>10, <1>12, <2>4, <2>5, <2>7
<1>15. DistinctNames' /\ Origins' /\ NamesApart'
  BY <1>2, <1>9, <1>12, <1>13, <1>14, AppendNamed
<1>16. Behind'
  <2>2. /\ Len(slots) \in Nat /\ DOMAIN slots = 1..Len(slots) /\ DOMAIN slots' = 1..(Len(slots) + 1)
        /\ slots'[Len(slots) + 1] = s
        /\ \A p \in 1..Len(slots) : slots'[p] = slots[p]
    BY <1>1, <1>2, <1>12, SlotIs, AppendIs
  <2>3. Current' = Current
    BY <1>2 DEF Current
  <2>8. k' - 1 = k
    BY <1>2, <1>5
  <2> DEFINE a == Current[i]
  <2>9. SUFFICES ASSUME NEW p \in 1..(Len(slots) + 1), slots'[p].ret <=> pc = "rets"
                 PROVE  Placed(slots'[p], a, i, k)
    BY <1>2, <2>2, <2>3, <2>8 DEF Behind
  <2>4. CASE p = Len(slots) + 1
    BY <1>2, <1>5, <1>12, <2>2, <2>4 DEF f, fields, Placed
  <2>5. CASE p \in 1..Len(slots)
    <3>1. Placed(slots[p], a, i, k - 1)
      BY <1>3, <2>2, <2>5, <2>9 DEF NameInv, Behind
    <3>2. 1..(k - 1) \subseteq 1..k
      BY <1>5
    <3> QED BY <2>2, <2>5, <3>1, <3>2 DEF Placed
  <2> QED BY <2>2, <2>4, <2>5
<1> QED BY <1>15, <1>16 DEF NameInv

LEMMA SameSlots ==
  ASSUME NameInv, in' = in, slots' = slots PROVE DistinctNames' /\ Origins' /\ NamesApart'
<1>1. Origins' /\ NamesApart'
  BY DEF NameInv, Origins, NamesApart, Area
<1> QED BY <1>1, SameNames DEF NameInv

\* The invariant of names is kept by a step of the layout and holds initially.
LEMMA StepNames ==
  ASSUME NoEmptyStruct, PlainNames, IInv, NameInv, [Next]_vars PROVE NameInv'
<1>1. TypeOK /\ k \in Nat /\ i \in Nat
  BY DEF IInv, TypeOK
<1>2. \A p \in DOMAIN slots : slots[p].arg \in Nat /\ slots[p].ret \in BOOLEAN
  BY <1>1, SlotIs
<1>3. CASE OpenAggregate
  <2>1. in' = in /\ slots' = slots /\ pc' = pc /\ i' = i /\ k = 0 /\ k' = 1
    BY <1>3 DEF OpenAggregate, AtArg
  <2>2. Behind'
    <3>1. \A a : \A p \in DOMAIN slots : ~Placed(slots[p], a, i, k - 1) \/ slots[p].arg < i
      BY <2>1 DEF Placed
    <3> QED BY <2>1, <3>1 DEF NameInv, Behind, Placed
  <2> QED BY <2>1, <2>2, SameSlots DEF NameInv
<1>4. CASE CloseAggregate
  <2>1. in' = in /\ slots' = slots /\ pc' = pc /\ i' = i + 1
    BY <1>4 DEF CloseAggregate
  <2>2. Behind'
    <3>1. \A a : \A p \in DOMAIN slots : Placed(slots[p], a, i, k - 1) => slots[p].arg < i + 1
      BY <1>1, <1>2 DEF Placed
    <3> QED BY <2>1, <3>1 DEF NameInv, Behind, Placed
  <2> QED BY <2>1, <2>2, SameSlots DEF NameInv
<1>5. CASE StartResults
  <2>1. in' = in /\ slots' = slots /\ pc = "args" /\ pc' = "rets"
    BY <1>5 DEF StartResults
  <2>2. Behind'
    BY <2>1 DEF IInv, NoResultYet, Behind
  <2> QED BY <2>1, <2>2, SameSlots DEF NameInv
<1>6. CASE Finish
  BY <1>6, SameSlots DEF Finish, NameInv, Behind
<1>7. CASE UNCHANGED vars
  <2>1. Behind'
    BY <1>7 DEF vars, NameInv, Behind, Current
  <2> QED BY <1>7, <2>1, SameSlots DEF vars, NameInv
<1> QED
  BY <1>3, <1>4, <1>5, <1>6, <1>7, PlaceScalarNames, PlaceFieldNames DEF Next

LEMMA InitNames == ASSUME Init, DistinctNames PROVE NameInv
BY DEF Init, NameInv, Origins, Behind, NamesApart

SlotsOfGo == \A p \in DOMAIN slots : slots[p].type \in GoTypes

LEMMA AppendOfGo ==
  ASSUME TypeOK, SlotsOfGo, NEW s \in Slot, s.type \in GoTypes, slots' = Append(slots, s)
  PROVE  SlotsOfGo'
BY SlotIs, AppendIs DEF SlotsOfGo

\* place gives a slot a type the signature has.
LEMMA StepOfGo ==
  ASSUME NoEmptyStruct, IInv, SlotsOfGo, [Next]_vars PROVE SlotsOfGo'
<1>1. TypeOK /\ IInv'
  BY StepIInv DEF IInv
<1>2. ASSUME \E s \in Slot : slots' = Append(slots, s) /\ s.type \in GoTypes PROVE SlotsOfGo'
  BY <1>1, <1>2, AppendOfGo
<1>3. ASSUME NEW s, slots' = Append(slots, s) PROVE s \in Slot
  <2>1. TypeOK' /\ slots \in Seq(Slot)
    BY <1>1, SlotIs DEF IInv
  <2>2. slots' \in Seq(Slot)
    BY <2>1 DEF TypeOK, Slot
  <2>3. Len(slots) \in Nat /\ slots'[Len(slots) + 1] = s /\ Len(slots') = Len(slots) + 1
    BY <1>3, <2>1
  <2> QED BY <2>2, <2>3, ElementOfSeq
<1>4. CASE PlaceScalar
  <2> DEFINE s == Param(Current[i].name, Current[i].type, Align(off, Current[i].type.size))
  <2>1. slots' = Append(slots, s) /\ s.type = Current[i].type
    BY <1>4 DEF PlaceScalar, Param
  <2>2. i \in 1..Len(Current) /\ Current \in Seq(ArgKinds) /\ ~Current[i].agg
        /\ Current[i].type \in Type
    BY <1>1, <1>4, CurrentArg DEF PlaceScalar, AtArg, TypeOK
  <2>3. Current[i] \in ArgKinds
    BY <2>2, ElementOfSeq
  <2>4. Current[i].type \in GoTypes
    BY <2>2, <2>3, CallAssumption DEF Type, Sizes, ZeroType
  <2> QED BY <1>2, <1>3, <2>1, <2>4
<1>5. CASE PlaceField
  <2> DEFINE f == Current[i].fields[k]
             s == Param(Append(Current[i].name, f.name), f.type, off + Align(fieldOff, f.type.size))
  <2>1. slots' = Append(slots, s) /\ s.type = f.type /\ k > 0 /\ k <= Len(Current[i].fields)
    BY <1>5 DEF PlaceField, Param
  <2>2. pc # "done" /\ i \in Nat \ {0} /\ i <= Len(Current) /\ k \in Nat /\ Current[i].agg
    BY <1>1, <2>1 DEF TypeOK
  <2>3. Current \in Seq(ArgKinds) /\ Current[i].fields \in Seq(Field)
    BY <1>1, <2>2, CurrentArg
  <2>4. Current[i] \in ArgKinds
    BY <2>2, <2>3, ElementOfSeq
  <2>5. k \in DOMAIN Current[i].fields
    BY <2>1, <2>2, <2>3
  <2>6. f.type \in GoTypes
    BY <2>4, <2>5, CallAssumption
  <2> QED BY <1>2, <1>3, <2>1, <2>6
<1>6. CASE UNCHANGED slots
  BY <1>6 DEF SlotsOfGo
<1> QED
  BY <1>4, <1>5, <1>6 DEF Next, OpenAggregate, CloseAggregate, StartResults, Finish, vars

-----------------------------------------------------------------------------
(* lookup finds the first slot of a name: there is one.                    *)

LEMMA LeastNatural ==
  ASSUME NEW T, T \subseteq Nat, T # {} PROVE \E x \in T : \A y \in T : x <= y
<1> DEFINE R == OpToRel(<, Nat)
<1>1. \E x \in T : \A y \in T : ~(<<y, x>> \in R)
  BY WFMin, NatLessThanWellFounded
<1>2. \A x, y \in Nat : y < x => <<y, x>> \in R
  BY DEF OpToRel
<1> HIDE DEF R
<1>3. PICK x \in T : \A y \in T : ~(<<y, x>> \in R)
  BY <1>1
<1>4. ASSUME NEW y \in T PROVE x <= y
  <2>1. x \in Nat /\ y \in Nat /\ ~(y < x)
    BY <1>2, <1>3
  <2> QED BY <2>1
<1> QED BY <1>4

-----------------------------------------------------------------------------
(* Stores and loads of memory.                                             *)

Byte == 0..255
Register == [1..8 -> Byte]

\* s is m with the low w bytes of v at a.
Stored(s, A, m, a, w, v) ==
  /\ s \in [A -> Byte]
  /\ \A x \in A : x < a \/ a + w <= x => s[x] = m[x]
  /\ \A x \in A : a <= x /\ x < a + w =>
       s[x] = v[IF BigEndian(arch) THEN a + w - x ELSE x - a + 1]

LEMMA StoredIs ==
  ASSUME NEW A, NEW m \in [A -> Byte], NEW a \in Int, NEW w \in 1..8, NEW v \in Register,
         A \subseteq Int
  PROVE  Stored(StoredAt(m, a, w, v), A, m, a, w, v)
<1> DEFINE at(x) == IF BigEndian(arch) THEN a + w - x ELSE x - a + 1
           s == StoredAt(m, a, w, v)
<1>1. ASSUME NEW x \in A, a <= x, x < a + w
      PROVE  at(x) \in 1..8 /\ v[at(x)] \in Byte
  <2>1. a + w - x \in 1..8 /\ x - a + 1 \in 1..8
    BY <1>1
  <2>2. at(x) \in 1..8
    BY <2>1
  <2> HIDE DEF at
  <2> QED BY <2>2 DEF Register
<1>2. s = [x \in A |-> IF a <= x /\ x < a + w THEN v[at(x)] ELSE m[x]]
  BY DEF StoredAt
<1> HIDE DEF at, s
<1>3. s \in [A -> Byte]
  BY <1>1, <1>2
<1>4. \A x \in A : x < a \/ a + w <= x => s[x] = m[x]
  BY <1>2
<1>5. \A x \in A : a <= x /\ x < a + w => s[x] = v[at(x)]
  BY <1>2
<1> QED BY <1>3, <1>4, <1>5 DEF at, s, Stored

Within(A, a, w) == a..(a + w - 1) \subseteq A
Low(v, w) == [j \in 1..w |-> v[j]]
Holds(s, a, w, v) == ValueAt(s, a, w) = Low(v, w)

\* A value read where one was stored, and one read elsewhere.
LEMMA ReadBack ==
  ASSUME NEW A, NEW m, NEW s, NEW a \in Int, NEW w \in 1..8, NEW v \in Register,
         Stored(s, A, m, a, w, v), A \subseteq Int, Within(A, a, w)
  PROVE  Holds(s, a, w, v)
<1>1. ASSUME NEW j \in 1..w
      PROVE  (IF BigEndian(arch) THEN s[a + w - j] ELSE s[a + j - 1]) = v[j]
  <2>1. CASE BigEndian(arch)
    <3> DEFINE x == a + w - j
    <3>1. x \in A /\ a <= x /\ x < a + w /\ a + w - x = j
      BY DEF Within
    <3> HIDE DEF x
    <3>2. s[x] = v[a + w - x]
      BY <2>1, <3>1 DEF Stored
    <3> QED BY <2>1, <3>1, <3>2 DEF x
  <2>2. CASE ~BigEndian(arch)
    <3> DEFINE x == a + j - 1
    <3>1. x \in A /\ a <= x /\ x < a + w /\ x - a + 1 = j
      BY DEF Within
    <3> HIDE DEF x
    <3>2. s[x] = v[x - a + 1]
      BY <2>2, <3>1 DEF Stored
    <3> QED BY <2>2, <3>1, <3>2 DEF x
  <2> QED BY <2>1, <2>2
<1> QED BY <1>1 DEF ValueAt, Low, Holds

LEMMA SameBytes ==
  ASSUME NEW m, NEW n, NEW a \in Int, NEW w \in 1..8, \A x \in a..(a + w - 1) : m[x] = n[x]
  PROVE  ValueAt(m, a, w) = ValueAt(n, a, w)
<1>1. \A j \in 1..w : a + w - j \in a..(a + w - 1) /\ a + j - 1 \in a..(a + w - 1)
  OBVIOUS
<1> QED BY <1>1 DEF ValueAt

LEMMA ValueTyped ==
  ASSUME NEW m, NEW a \in Int, NEW w \in 1..8, \A x \in a..(a + w - 1) : m[x] \in Byte
  PROVE  ValueAt(m, a, w) \in [1..w -> Byte]
<1>1. \A j \in 1..w : a + w - j \in a..(a + w - 1) /\ a + j - 1 \in a..(a + w - 1)
  OBVIOUS
<1> QED BY <1>1 DEF ValueAt

LEMMA ExtendedTyped ==
  ASSUME NEW w \in 1..8, NEW v \in [1..w -> Byte], NEW signed \in BOOLEAN
  PROVE  Extended(v, w, signed) \in Register
<1>1. \A j \in 1..8 :
        (IF j <= w THEN v[j] ELSE IF signed /\ v[w] >= 128 THEN Ones ELSE Zero) \in Byte
  <2> SUFFICES ASSUME NEW j \in 1..8
               PROVE  (IF j <= w THEN v[j] ELSE IF signed /\ v[w] >= 128 THEN Ones ELSE Zero) \in Byte
    OBVIOUS
  <2>1. CASE j <= w
    <3>1. j \in 1..w
      BY <2>1
    <3>2. v[j] \in Byte
      BY <3>1
    <3> QED BY <2>1, <3>2
  <2>2. CASE ~(j <= w)
    <3>1. Ones \in Byte /\ Zero \in Byte
      BY DEF Ones, Zero, Byte
    <3> QED BY <2>2, <3>1
  <2> QED BY <2>1, <2>2
<1> QED BY <1>1 DEF Extended, Register

LEMMA LowBytes ==
  ASSUME NEW v \in Register, NEW w \in 1..8
  PROVE  SubSeq(v, 1, w) = Low(v, w)
<1>1. v \in [1..8 -> Byte]
  BY DEF Register
<1>2. v \in Seq(Byte)
  BY <1>1, SeqDef
<1>3. Len(v) = 8
  BY <1>1, <1>2
<1>4. \A j \in 1..w : j \in 1..8
  OBVIOUS
<1> QED BY <1>2, <1>3, <1>4 DEF Low

-----------------------------------------------------------------------------
(* The inductive invariant.                                                *)

Lines ==
  [op : {"load", "store"},
   mnemonic : {loadMnemonic(arch, t) : t \in GoTypes} \cup {storeMnemonic(arch, t) : t \in GoTypes},
   reg : Regs, name : Seq(STRING), off : Nat, ptr : IntRegs \cup {"FP"}, type : GoTypes]

\* The slot a line names, when it is FP-relative.
Names(line, s) ==
  /\ s.name = line.name /\ s.off = line.off /\ s.type = line.type
  /\ s.ret <=> line.op = "store"

\* The lines a Builder of this architecture can emit for this layout.
GoodLines ==
  {line \in Lines :
     /\ line.op = "load" => line.mnemonic = loadMnemonic(arch, line.type)
     /\ line.op = "store" => line.mnemonic = storeMnemonic(arch, line.type)
     /\ line.ptr = "FP" => \E p \in DOMAIN slots : Names(line, slots[p])}

\* The Builder's state.
Built ==
  /\ arch \in Arches
  /\ mode \in {"layout", "build", "run", "returned", "panicked"}
  /\ mode # "layout" => pc = "done"
  /\ body \in Seq(GoodLines) /\ Len(body) <= MaxLines
  /\ mode = "layout" => body = <<>>
  /\ ip \in 0..(Len(body) + 1)
  /\ ~Called => ip = 0 /\ results = <<>>
  /\ Called => ip > 0
  /\ negative \in BOOLEAN

\* The called function's state.
Running ==
  Called => /\ mem \in [Addresses -> Byte]
            /\ regs \in [Regs -> Register]
            /\ \A n \in DOMAIN results : results[n] \in Register

CallInv == IInv /\ SlotsOfGo /\ Built /\ Running /\ ArgsIntact

LEMMA GoSize ==
  ASSUME NEW t \in GoTypes
  PROVE  t.size \in {1, 2, 4, 8} /\ t.size \in 1..8 /\ t.signed \in BOOLEAN /\ t.float \in BOOLEAN
         /\ (t.float => t.size \in {4, 8})
BY DEF GoTypes, Type, Sizes

\* A slot lies in the frame the TEXT line declares.
LEMMA SlotInFrame ==
  ASSUME IInv, SlotsOfGo, pc = "done", NEW p \in DOMAIN slots
  PROVE  /\ ArgsSize \in Nat
         /\ slots[p].off \in Nat /\ slots[p].type \in GoTypes
         /\ slots[p].type.size \in 1..8
         /\ End(slots[p]) = slots[p].off + slots[p].type.size
         /\ End(slots[p]) <= ArgsSize
<1>1. TypeOK /\ k = 0 /\ fieldOff = 0 /\ off \in Nat
  BY DEF IInv, TypeOK, Closed
<1>2. slots[p].off \in Nat /\ slots[p].type \in GoTypes
  BY <1>1, SlotIs DEF SlotsOfGo
<1>3. slots[p].type.size \in 1..8
  BY <1>2, GoSize
<1>4. End(slots[p]) = slots[p].off + slots[p].type.size
  BY DEF End
<1>5. End(slots[p]) <= off + fieldOff
  BY DEF IInv, Frontier
<1> QED BY <1>1, <1>2, <1>3, <1>4, <1>5 DEF ArgsSize

LEMMA SlotBytes ==
  ASSUME IInv, SlotsOfGo, pc = "done", NEW p \in DOMAIN slots
  PROVE  slots[p].off..(End(slots[p]) - 1) \subseteq Addresses
BY SlotInFrame DEF Addresses, Heap

\* Where a line's access lies: in the slot it names, or in the object.
LEMMA LineReaches ==
  ASSUME CallInv, mode # "layout", NEW line \in GoodLines
  PROVE  /\ Addresses \subseteq Int
         /\ line.type \in GoTypes /\ line.type.size \in 1..8 /\ line.reg \in Regs
         /\ Address(line) \in Int
         /\ Address(line)..(Address(line) + line.type.size - 1) \subseteq Addresses
         /\ Meaning(arch, line.mnemonic).width = line.type.size
         /\ line.op = "load" => Meaning(arch, line.mnemonic).ext = LoadExt(line.type)
<1>1. /\ pc = "done" /\ IInv /\ SlotsOfGo /\ arch \in Arches
      /\ line.type \in GoTypes /\ line.reg \in Regs /\ line.op \in {"load", "store"}
  BY DEF CallInv, Built, GoodLines, Lines
<1>2. line.type.size \in 1..8
  BY <1>1, GoSize
<1>3. /\ Meaning(arch, line.mnemonic).width = line.type.size
      /\ line.op = "load" => Meaning(arch, line.mnemonic).ext = LoadExt(line.type)
  BY <1>1, LineMoves DEF GoodLines
<1>4. ArgsSize \in Nat
  BY <1>1 DEF IInv, TypeOK, ArgsSize
<1>5. Addresses \subseteq Int
  BY <1>4 DEF Addresses, Heap
<1>6. Address(line) \in Int /\ Address(line)..(Address(line) + line.type.size - 1) \subseteq Addresses
  <2>1. CASE line.ptr = "FP"
    <3>1. PICK p \in DOMAIN slots : Names(line, slots[p])
      BY <2>1 DEF GoodLines
    <3>2. slots[p].off = line.off /\ slots[p].type = line.type /\ Address(line) = line.off
      BY <2>1, <3>1 DEF Names, Address
    <3>3. slots[p].off \in Nat /\ End(slots[p]) = slots[p].off + slots[p].type.size
          /\ slots[p].off..(End(slots[p]) - 1) \subseteq Addresses
      BY <1>1, SlotInFrame, SlotBytes
    <3>4. Address(line) = slots[p].off
          /\ Address(line) + line.type.size - 1 = End(slots[p]) - 1
      BY <1>2, <3>2, <3>3
    <3> QED BY <3>3, <3>4
  <2>2. CASE line.ptr # "FP"
    BY <1>2, <1>4, <2>2 DEF Address, Addresses, Heap
  <2> QED BY <2>1, <2>2
<1> QED BY <1>1, <1>2, <1>3, <1>5, <1>6

-----------------------------------------------------------------------------
(* The steps keep it.                                                      *)

LEMMA SameLayout ==
  ASSUME NoEmptyStruct, IInv, SlotsOfGo, UNCHANGED vars
  PROVE  /\ IInv' /\ SlotsOfGo'
         /\ Addresses' = Addresses /\ pc' = pc /\ slots' = slots
<1>1. [Next]_vars
  OBVIOUS
<1> QED BY <1>1, StepIInv, StepOfGo DEF vars, Addresses, ArgsSize

LEMMA SameLines == ASSUME UNCHANGED <<arch, slots>> PROVE GoodLines' = GoodLines
BY DEF GoodLines, Lines, Names

\* Every step but a layout one leaves the layout alone, and these parts of the
\* invariant with it.
LEMMA BuildStep ==
  ASSUME NoEmptyStruct, CallInv, mode = "build", UNCHANGED <<vars, arch, negative, ip, results>>,
         mode' \in {"build", "panicked"}, body' \in Seq(GoodLines), Len(body') <= MaxLines
  PROVE  CallInv'
<1>1. IInv' /\ SlotsOfGo' /\ pc' = pc /\ slots' = slots
  BY SameLayout DEF CallInv
<1>2. GoodLines' = GoodLines
  BY <1>1, SameLines
<1>3. ip = 0 /\ results = <<>> /\ arch \in Arches /\ pc = "done" /\ negative \in BOOLEAN
  BY DEF CallInv, Built, Called
<1>4. 0 \in 0..(Len(body') + 1)
  <2>1. Len(body') \in Nat
    OBVIOUS
  <2> QED BY <2>1
<1>5. Built'
  BY <1>1, <1>2, <1>3, <1>4 DEF Built, Called
<1>6. Running' /\ ArgsIntact'
  BY DEF Running, ArgsIntact, Called
<1> QED BY <1>1, <1>5, <1>6 DEF CallInv

\* A good line may be appended.
LEMMA EmitInv ==
  ASSUME NoEmptyStruct, CallInv, mode = "build", NEW line \in GoodLines, Emit(line) PROVE CallInv'
<1>1. body \in Seq(GoodLines) /\ MaxLines \in Nat
  BY CallAssumption DEF CallInv, Built
<1>2. Len(body) < MaxLines /\ body' = Append(body, line)
      /\ UNCHANGED <<vars, arch, mode, negative, ip, results>>
  BY DEF Emit
<1>3. body' \in Seq(GoodLines) /\ Len(body') = Len(body) + 1 /\ Len(body) \in Nat
  BY <1>1, <1>2
<1>4. Len(body') <= MaxLines
  BY <1>1, <1>2, <1>3
<1> QED BY <1>2, <1>3, <1>4, BuildStep

LEMMA LookupFinds ==
  ASSUME NEW ret \in BOOLEAN, NEW name, TypeOK, Named(ret, name) # {}
  PROVE  \E p \in Named(ret, name) : lookup(ret, name) = slots[p]
<1> DEFINE S == Named(ret, name)
           first == CHOOSE p \in S : \A q \in S : p <= q
<1>1. S \subseteq Nat
  BY SlotIs DEF Named
<1>2. \E p \in S : \A q \in S : p <= q
  BY <1>1, LeastNatural
<1>3. first \in S
  BY <1>2
<1>4. lookup(ret, name) = slots[first]
  BY DEF lookup
<1> QED BY <1>3, <1>4

\* A line that names a slot found by lookup is good.
LEMMA LookupLine ==
  ASSUME CallInv, mode = "build", NEW name, NEW reg, NEW ret \in BOOLEAN,
         Named(ret, name) # {}, reg \in FileOf(lookup(ret, name).type)
  PROVE  LET p == lookup(ret, name)
         IN  /\ ~ret => Line("load", loadMnemonic(arch, p.type), reg, name, p.off, "FP", p.type)
                          \in GoodLines
             /\ ret => Line("store", storeMnemonic(arch, p.type), reg, name, p.off, "FP", p.type)
                         \in GoodLines
<1> DEFINE s == lookup(ret, name)
           l == Line("load", loadMnemonic(arch, s.type), reg, name, s.off, "FP", s.type)
           t == Line("store", storeMnemonic(arch, s.type), reg, name, s.off, "FP", s.type)
<1>1. TypeOK /\ SlotsOfGo
  BY DEF CallInv, IInv
<1>2. PICK p \in Named(ret, name) : s = slots[p]
  BY <1>1, LookupFinds
<1>3. p \in DOMAIN slots /\ s.name = name /\ (s.ret <=> ret)
  BY <1>2 DEF Named
<1>4. s.off \in Nat /\ s.name \in Seq(STRING) /\ s.type \in GoTypes
  BY <1>1, <1>2, <1>3, SlotIs DEF SlotsOfGo
<1>5. reg \in Regs
  BY DEF FileOf, Regs
<1> HIDE DEF s
<1>6. ASSUME ~ret PROVE l \in GoodLines
  <2>1. l \in Lines
    BY <1>3, <1>4, <1>5 DEF Line, Lines
  <2>2. Names(l, slots[p])
    BY <1>2, <1>3, <1>6 DEF Names, Line
  <2>3. l.op = "load" /\ l.mnemonic = loadMnemonic(arch, l.type)
    BY DEF Line
  <2> QED BY <1>3, <2>1, <2>2, <2>3 DEF GoodLines
<1>7. ASSUME ret PROVE t \in GoodLines
  <2>1. t \in Lines
    BY <1>3, <1>4, <1>5 DEF Line, Lines
  <2>2. Names(t, slots[p])
    BY <1>2, <1>3, <1>7 DEF Names, Line
  <2>3. t.op = "store" /\ t.mnemonic = storeMnemonic(arch, t.type)
    BY DEF Line
  <2> QED BY <1>3, <2>1, <2>2, <2>3 DEF GoodLines
<1> QED BY <1>6, <1>7 DEF s

LEMMA IndirectLine ==
  ASSUME NEW ptrReg \in IntRegs, NEW t \in IndirectTypes, NEW reg, reg \in FileOf(t)
  PROVE  /\ Line("load", loadMnemonic(arch, t), reg, <<>>, 0, ptrReg, t) \in GoodLines
         /\ Line("store", storeMnemonic(arch, t), reg, <<>>, 0, ptrReg, t) \in GoodLines
<1>1. t \in GoTypes /\ ptrReg # "FP" /\ reg \in Regs
  BY CallAssumption DEF FileOf, Regs
<1>2. <<>> \in Seq(STRING) /\ 0 \in Nat
  OBVIOUS
<1> QED BY <1>1, <1>2 DEF Line, Lines, GoodLines

\* The bytes of a slot a line does not name are out of its reach.
LEMMA LineMisses ==
  ASSUME CallInv, mode # "layout", NEW line \in GoodLines, NEW p \in DOMAIN slots,
         line.ptr # "FP" \/ ~Names(line, slots[p]),
         NEW a \in slots[p].off..(End(slots[p]) - 1)
  PROVE  a \in Addresses /\ (a < Address(line) \/ Address(line) + line.type.size <= a)
<1>1. pc = "done" /\ IInv /\ SlotsOfGo
  BY DEF CallInv, Built
<1>2. a \in Addresses
  BY <1>1, SlotBytes
<1>3. /\ slots[p].off \in Nat /\ slots[p].type.size \in 1..8
      /\ End(slots[p]) = slots[p].off + slots[p].type.size
  BY <1>1, SlotInFrame
<1>4. line.type.size \in 1..8
  BY LineReaches
<1>5. CASE line.ptr # "FP"
  BY <1>2, <1>3, <1>4, <1>5 DEF Address, Heap
<1>6. CASE line.ptr = "FP"
  <2>1. PICK q \in DOMAIN slots : Names(line, slots[q])
    BY <1>6 DEF GoodLines
  <2>2. q # p /\ Address(line) = slots[q].off /\ line.type = slots[q].type
    BY <1>6, <2>1 DEF Names, Address
  <2>3. /\ slots[q].off \in Nat
        /\ End(slots[q]) = slots[q].off + slots[q].type.size
    BY <1>1, SlotInFrame
  <2>4. p \in Nat /\ q \in Nat
    BY <1>1, SlotIs DEF IInv
  <2>5. End(slots[p]) <= slots[q].off \/ End(slots[q]) <= slots[p].off
    BY <1>1, <2>2, <2>4 DEF IInv, SlotsDisjoint
  <2> QED BY <1>2, <1>3, <1>4, <2>2, <2>3, <2>5
<1> QED BY <1>5, <1>6

\* A load leaves in its register the extended value, a store in memory the low
\* bytes of its register.
LEMMA LoadLeaves ==
  ASSUME CallInv, NEW line \in GoodLines, RunLoad(line)
  PROVE  LET v == ValueAt(mem, Address(line), line.type.size)
             r == Extended(v, line.type.size, LoadExt(line.type) = "sign")
         IN  /\ r \in Register
             /\ regs' = [regs EXCEPT ![line.reg] = r]
<1> DEFINE w == line.type.size
           at == Address(line)
           v == ValueAt(mem, at, w)
           r == Extended(v, w, LoadExt(line.type) = "sign")
           m == Meaning(arch, line.mnemonic)
<1>1. line.op = "load" /\ mode = "run"
  BY DEF RunLoad, Runs
<1>2. /\ Addresses \subseteq Int /\ w \in 1..8 /\ at \in Int
      /\ at..(at + w - 1) \subseteq Addresses
      /\ m.width = w /\ m.ext = LoadExt(line.type)
  BY <1>1, LineReaches
<1>3. mem \in [Addresses -> Byte]
  BY <1>1 DEF CallInv, Running, Called
<1>4. v \in [1..w -> Byte]
  <2>1. \A x \in at..(at + w - 1) : mem[x] \in Byte
    BY <1>2, <1>3
  <2> QED BY <1>2, <2>1, ValueTyped
<1>5. r \in Register
  BY <1>2, <1>4, ExtendedTyped
<1>6. m.ext # "keep"
  BY <1>2 DEF LoadExt
<1>7. regs' = [regs EXCEPT ![line.reg] = r]
  <2> DEFINE s == Extended(ValueAt(mem, at, m.width), m.width, m.ext = "sign")
  <2>1. s = r
    BY <1>2
  <2>2. regs' = [regs EXCEPT ![line.reg] = s]
    BY <1>6 DEF RunLoad
  <2> HIDE DEF s, r
  <2> QED BY <2>1, <2>2
<1> QED BY <1>5, <1>7

LEMMA StorePuts ==
  ASSUME CallInv, NEW line \in GoodLines, RunStore(line)
  PROVE  /\ Stored(mem', Addresses, mem, Address(line), line.type.size, regs[line.reg])
         /\ regs[line.reg] \in Register
<1>1. line.op = "store" /\ mode = "run"
  BY DEF RunStore, Runs
<1>2. /\ Addresses \subseteq Int /\ line.type.size \in 1..8 /\ Address(line) \in Int
      /\ Meaning(arch, line.mnemonic).width = line.type.size /\ line.reg \in Regs
  BY <1>1, LineReaches
<1>3. mem \in [Addresses -> Byte] /\ regs \in [Regs -> Register]
  BY <1>1 DEF CallInv, Running, Called
<1>4. regs[line.reg] \in Register
  BY <1>2, <1>3
<1>5. mem' = StoredAt(mem, Address(line), line.type.size, regs[line.reg])
  BY <1>2 DEF RunStore
<1> QED BY <1>2, <1>3, <1>4, <1>5, StoredIs

\* A line run moves ip on and leaves all but memory, registers and results.
LEMMA RunsBuilt ==
  ASSUME NoEmptyStruct, CallInv, NEW line, Runs(line)
  PROVE  /\ line \in GoodLines
         /\ mode = "run" /\ Called /\ Called'
         /\ IInv' /\ SlotsOfGo' /\ Built'
         /\ Addresses' = Addresses /\ slots' = slots /\ arch' = arch /\ negative' = negative
<1>1. /\ mode = "run" /\ ip \in Nat /\ ip > 0 /\ ip <= Len(body) /\ body \in Seq(GoodLines)
      /\ body[ip] = line
  BY DEF Runs, CallInv, Built, Called
<1>2. line \in GoodLines
  BY <1>1, ElementOfSeq
<1>3. UNCHANGED <<vars, arch, mode, body, negative>> /\ ip' = ip + 1
  BY DEF Runs
<1>4. /\ IInv' /\ SlotsOfGo' /\ Addresses' = Addresses /\ pc' = pc /\ slots' = slots
  BY <1>3, SameLayout DEF CallInv
<1>5. GoodLines' = GoodLines
  BY <1>3, <1>4, SameLines
<1>6. ip' \in 0..(Len(body') + 1) /\ ip' > 0
  <2>1. Len(body) \in Nat /\ body' = body
    BY <1>1, <1>3
  <2> QED BY <1>1, <1>3, <2>1
<1>7. Called /\ Called'
  BY <1>1, <1>3 DEF Called
<1>8. Built'
  BY <1>3, <1>4, <1>5, <1>6, <1>7 DEF CallInv, Built
<1> QED BY <1>1, <1>2, <1>3, <1>4, <1>7, <1>8

\* One lemma for each action.
LEMMA RunLoadInv ==
  ASSUME NoEmptyStruct, CallInv, NEW line, RunLoad(line) PROVE CallInv'
<1>1. /\ line \in GoodLines /\ Called /\ IInv' /\ SlotsOfGo' /\ Built'
      /\ Addresses' = Addresses /\ slots' = slots /\ negative' = negative
  BY RunsBuilt DEF RunLoad
<1>2. mem' = mem /\ results' = results
  BY DEF RunLoad
<1>3. \E r \in Register : regs' = [regs EXCEPT ![line.reg] = r]
  BY <1>1, LoadLeaves
<1>4. regs \in [Regs -> Register]
  BY <1>1 DEF CallInv, Running
<1>5. regs' \in [Regs -> Register]
  BY <1>3, <1>4
<1>6. Running'
  BY <1>1, <1>2, <1>5 DEF CallInv, Running
<1>7. ArgsIntact'
  BY <1>1, <1>2 DEF CallInv, ArgsIntact, CallerByte, End
<1> QED BY <1>1, <1>6, <1>7 DEF CallInv

LEMMA RunStoreInv ==
  ASSUME NoEmptyStruct, CallInv, NEW line, RunStore(line) PROVE CallInv'
<1>1. /\ line \in GoodLines /\ mode = "run" /\ Called /\ IInv' /\ SlotsOfGo' /\ Built'
      /\ Addresses' = Addresses /\ slots' = slots /\ negative' = negative
  BY RunsBuilt DEF RunStore
<1>2. regs' = regs /\ line.op = "store"
  BY DEF RunStore
<1>3. /\ Stored(mem', Addresses, mem, Address(line), line.type.size, regs[line.reg])
      /\ regs[line.reg] \in Register
  BY <1>1, StorePuts
<1>4. \A n \in DOMAIN results' : results'[n] \in Register
  <2>1. \A n \in DOMAIN results : results[n] \in Register
    BY <1>1 DEF CallInv, Running
  <2>2. CASE line.ptr # "FP"
    BY <2>1, <2>2 DEF RunStore
  <2>3. CASE line.ptr = "FP"
    <3>1. results' = [n \in DOMAIN results \cup {line.name} |->
                        IF n = line.name THEN regs[line.reg] ELSE results[n]]
      BY <2>3 DEF RunStore
    <3> QED BY <1>3, <2>1, <3>1
  <2> QED BY <2>2, <2>3
<1>5. Running'
  <2>1. mem' \in [Addresses -> Byte] /\ regs' \in [Regs -> Register]
    BY <1>1, <1>2, <1>3 DEF Stored, CallInv, Running
  <2> QED BY <1>1, <1>4, <2>1 DEF Running
<1>6. ArgsIntact'
  <2>1. ASSUME NEW p \in DOMAIN slots, ~slots[p].ret, NEW a \in slots[p].off..(End(slots[p]) - 1)
        PROVE  mem'[a] = CallerByte(a, negative)
    <3>1. ~Names(line, slots[p])
      BY <1>2, <2>1 DEF Names
    <3>2. a \in Addresses /\ (a < Address(line) \/ Address(line) + line.type.size <= a)
      BY <1>1, <2>1, <3>1, LineMisses
    <3>3. mem'[a] = mem[a]
      BY <1>3, <3>2 DEF Stored
    <3> QED BY <1>1, <2>1, <3>3 DEF CallInv, ArgsIntact
  <2> QED BY <1>1, <2>1 DEF ArgsIntact, CallerByte, End
<1> QED BY <1>1, <1>5, <1>6 DEF CallInv

LEMMA CallCallInv == ASSUME NoEmptyStruct, CallInv, Call PROVE CallInv'
<1>1. mode = "build" /\ mode' = "run" /\ ip' = 1 /\ negative' \in BOOLEAN
      /\ UNCHANGED <<vars, arch, body, results>>
      /\ mem' = [a \in Addresses |-> CallerByte(a, negative')]
      /\ regs' = [r \in Regs |-> Garbage]
  BY DEF Call
<1>2. /\ IInv' /\ SlotsOfGo' /\ Addresses' = Addresses /\ pc' = pc /\ slots' = slots
  BY <1>1, SameLayout DEF CallInv
<1>3. GoodLines' = GoodLines
  BY <1>1, <1>2, SameLines
<1>4. Called' /\ pc = "done" /\ results = <<>> /\ body \in Seq(GoodLines) /\ ArgsSize \in Nat
  <2>1. ArgsSize \in Nat
    BY DEF CallInv, IInv, TypeOK, ArgsSize
  <2> QED BY <1>1, <2>1 DEF CallInv, Built, Called
<1>5. Built'
  <2>1. Len(body) \in Nat
    BY <1>4
  <2>2. ip' \in 0..(Len(body') + 1) /\ ip' > 0
    BY <1>1, <2>1
  <2> QED BY <1>1, <1>2, <1>3, <1>4, <2>2 DEF CallInv, Built
<1>6. \A a \in Int : CallerByte(a, negative') \in Byte
  <2>1. \A a \in Int : a % 127 \in 0..126
    OBVIOUS
  <2> QED BY <1>1, <2>1 DEF CallerByte, Byte
<1>7. Addresses \subseteq Int
  BY <1>4 DEF Addresses, Heap
<1>8. mem' \in [Addresses -> Byte]
  BY <1>1, <1>6, <1>7
<1>9. regs' \in [Regs -> Register]
  <2>1. Garbage \in Register
    BY DEF Garbage, Register, Byte
  <2> QED BY <1>1, <2>1
<1>10. Running'
  BY <1>1, <1>2, <1>4, <1>8, <1>9 DEF Running
<1>11. ArgsIntact'
  <2>1. ASSUME NEW p \in DOMAIN slots, NEW a \in slots[p].off..(End(slots[p]) - 1)
        PROVE  mem'[a] = CallerByte(a, negative')
    <3>1. a \in Addresses
      BY <1>4, SlotBytes DEF CallInv
    <3> QED BY <1>1, <3>1
  <2> QED BY <1>2, <2>1 DEF ArgsIntact, CallerByte, End
<1> QED BY <1>2, <1>5, <1>10, <1>11 DEF CallInv

LEMMA ReturnInv == ASSUME NoEmptyStruct, CallInv, Return PROVE CallInv'
<1>1. mode = "run" /\ mode' = "returned"
      /\ UNCHANGED <<vars, arch, body, ip, negative, mem, regs, results>>
  BY DEF Return
<1>2. /\ IInv' /\ SlotsOfGo' /\ Addresses' = Addresses /\ pc' = pc /\ slots' = slots
  BY <1>1, SameLayout DEF CallInv
<1>3. GoodLines' = GoodLines /\ Called /\ Called'
  BY <1>1, <1>2, SameLines DEF Called
<1>4. Built'
  BY <1>1, <1>2, <1>3 DEF CallInv, Built
<1>5. Running' /\ ArgsIntact'
  BY <1>1, <1>2, <1>3 DEF CallInv, Running, ArgsIntact, CallerByte, End
<1> QED BY <1>2, <1>4, <1>5 DEF CallInv

LEMMA LayoutStepInv == ASSUME NoEmptyStruct, CallInv, LayoutStep PROVE CallInv'
<1>1. /\ mode = "layout" /\ Next /\ mode' = (IF pc' = "done" THEN "build" ELSE mode)
      /\ UNCHANGED <<arch, body, ip, negative, mem, regs, results>>
  BY DEF LayoutStep
<1>2. IInv' /\ SlotsOfGo'
  BY <1>1, StepIInv, StepOfGo DEF CallInv
<1>3. body' = <<>> /\ ip' = 0 /\ results' = <<>> /\ arch' \in Arches /\ negative' \in BOOLEAN
  BY <1>1 DEF CallInv, Built, Called
<1>4. mode' \in {"layout", "build"} /\ ~Called' /\ (mode' # "layout" => pc' = "done")
  BY <1>1 DEF Called
<1>5. Built'
  <2>1. body' \in Seq(GoodLines)' /\ Len(body') = 0
    BY <1>3
  <2>2. 0 \in 0..(Len(body') + 1) /\ Len(body') <= MaxLines
    BY <2>1, CallAssumption
  <2> QED BY <1>3, <1>4, <2>1, <2>2 DEF Built
<1> QED BY <1>2, <1>4, <1>5 DEF CallInv, Running, ArgsIntact

LEMMA InitCallInv == CallInit => CallInv
<1> SUFFICES ASSUME CallInit PROVE CallInv
  OBVIOUS
<1>1. IInv /\ SlotsOfGo
  BY InitIInv DEF CallInit, Init, SlotsOfGo
<1>2. ~Called
  BY DEF CallInit, Called
<1>3. Built
  <2>1. <<>> \in Seq(GoodLines) /\ Len(<<>>) = 0
    OBVIOUS
  <2>2. Len(<<>>) <= MaxLines /\ 0 \in 0..(Len(<<>>) + 1)
    BY <2>1, CallAssumption
  <2> QED BY <1>2, <2>1, <2>2 DEF CallInit, Built
<1> QED BY <1>1, <1>2, <1>3 DEF CallInv, Running, ArgsIntact

LEMMA BuilderInv ==
  ASSUME NoEmptyStruct, CallInv
  PROVE  /\ \A name \in AnyName, reg \in Regs :
              LoadArg(name, reg) \/ StoreRet(reg, name) => CallInv'
         /\ \A ptrReg \in IntRegs, t \in IndirectTypes, reg \in Regs :
              LoadIndirect(ptrReg, t, reg) \/ StoreIndirect(reg, ptrReg, t) => CallInv'
         /\ \A name \in AnyName : UnknownParam(name) => CallInv'
<1>1. ASSUME NEW name \in AnyName, NEW reg \in Regs, LoadArg(name, reg) PROVE CallInv'
  <2>1. mode = "build" /\ Named(FALSE, name) # {} /\ reg \in FileOf(lookup(FALSE, name).type)
    BY <1>1 DEF LoadArg
  <2> DEFINE p == lookup(FALSE, name)
             l == Line("load", loadMnemonic(arch, p.type), reg, name, p.off, "FP", p.type)
  <2>2. l \in GoodLines
    BY <2>1, LookupLine
  <2>3. Emit(l)
    BY <1>1 DEF LoadArg
  <2> QED BY <2>1, <2>2, <2>3, EmitInv
<1>2. ASSUME NEW name \in AnyName, NEW reg \in Regs, StoreRet(reg, name) PROVE CallInv'
  <2>1. mode = "build" /\ Named(TRUE, name) # {} /\ reg \in FileOf(lookup(TRUE, name).type)
    BY <1>2 DEF StoreRet
  <2> DEFINE p == lookup(TRUE, name)
             l == Line("store", storeMnemonic(arch, p.type), reg, name, p.off, "FP", p.type)
  <2>2. l \in GoodLines
    BY <2>1, LookupLine
  <2>3. Emit(l)
    BY <1>2 DEF StoreRet
  <2> QED BY <2>1, <2>2, <2>3, EmitInv
<1>3. ASSUME NEW ptrReg \in IntRegs, NEW t \in IndirectTypes, NEW reg \in Regs,
             LoadIndirect(ptrReg, t, reg)
      PROVE  CallInv'
  BY <1>3, IndirectLine, EmitInv DEF LoadIndirect
<1>4. ASSUME NEW ptrReg \in IntRegs, NEW t \in IndirectTypes, NEW reg \in Regs,
             StoreIndirect(reg, ptrReg, t)
      PROVE  CallInv'
  BY <1>4, IndirectLine, EmitInv DEF StoreIndirect
<1>5. ASSUME NEW name \in AnyName, UnknownParam(name) PROVE CallInv'
  <2>1. mode = "build" /\ mode' = "panicked" /\ body' = body
        /\ UNCHANGED <<vars, arch, negative, ip, results>>
    BY <1>5 DEF UnknownParam
  <2>2. body' \in Seq(GoodLines) /\ Len(body') <= MaxLines
    BY <2>1 DEF CallInv, Built
  <2> QED BY <2>1, <2>2, BuildStep
<1> QED BY <1>1, <1>2, <1>3, <1>4, <1>5

LEMMA StutterInv == ASSUME NoEmptyStruct, CallInv, UNCHANGED allVars PROVE CallInv'
<1>1. UNCHANGED vars /\ UNCHANGED callVars
  BY DEF allVars
<1>2. UNCHANGED <<arch, mode, body, ip, negative, mem, regs, results>>
  BY <1>1 DEF callVars
<1>3. /\ IInv' /\ SlotsOfGo' /\ Addresses' = Addresses /\ pc' = pc /\ slots' = slots
  BY <1>1, SameLayout DEF CallInv
<1>4. GoodLines' = GoodLines /\ (Called' <=> Called)
  BY <1>2, <1>3, SameLines DEF Called
<1>5. Built'
  BY <1>2, <1>3, <1>4 DEF CallInv, Built
<1>6. Running' /\ ArgsIntact'
  BY <1>2, <1>3, <1>4 DEF CallInv, Running, ArgsIntact, CallerByte, End
<1> QED BY <1>3, <1>5, <1>6 DEF CallInv

LEMMA StepCallInv ==
  ASSUME NoEmptyStruct PROVE CallInv /\ [CallNext]_allVars => CallInv'
<1> SUFFICES ASSUME CallInv, [CallNext]_allVars PROVE CallInv'
  OBVIOUS
<1>1. ASSUME NEW j \in DOMAIN body, RunLoad(body[j]) \/ RunStore(body[j]) PROVE CallInv'
  BY <1>1, RunLoadInv, RunStoreInv
<1> QED
  BY <1>1, LayoutStepInv, BuilderInv, CallCallInv, ReturnInv, StutterInv DEF CallNext

\* The invariant holds in every reachable state: every line of the body names a
\* slot of the layout, or goes through a register, with the move its type needs.
THEOREM CallInvariance == ASSUME NoEmptyStruct PROVE CallSpec => []CallInv
<1>1. CallInv /\ [CallNext]_allVars => CallInv'
  BY StepCallInv
<1> QED BY <1>1, InitCallInv, PTL DEF CallSpec

\* Whatever the function stores, on whichever architecture, its arguments read as
\* the caller wrote them, for every signature and every body (amd64.go:89).
THEOREM ArgumentsKept == ASSUME NoEmptyStruct PROVE CallSpec => []ArgsIntact
<1>1. CallInv => ArgsIntact
  BY DEF CallInv
<1> QED BY <1>1, CallInvariance, PTL

\* No line reaches past the argument size the TEXT line declares, for every
\* signature and every body: what asmdecl checks (abi.go:81).
THEOREM FrameKept == ASSUME NoEmptyStruct PROVE CallSpec => []AccessesInFrame
<1>1. CallInv => AccessesInFrame
  <2> SUFFICES ASSUME CallInv, NEW j \in DOMAIN body, body[j].ptr = "FP"
               PROVE  body[j].off + Meaning(arch, body[j].mnemonic).width <= ArgsSize
    BY DEF AccessesInFrame
  <2>1. body \in Seq(GoodLines) /\ body # <<>>
    BY DEF CallInv, Built
  <2>2. body[j] \in GoodLines /\ mode # "layout" /\ pc = "done"
    BY <2>1, ElementOfSeq DEF CallInv, Built
  <2>3. Meaning(arch, body[j].mnemonic).width = body[j].type.size
    BY <2>2, LineReaches
  <2>4. PICK p \in DOMAIN slots : Names(body[j], slots[p])
    BY <2>2 DEF GoodLines
  <2>5. End(slots[p]) = slots[p].off + slots[p].type.size /\ End(slots[p]) <= ArgsSize
    BY <2>2, SlotInFrame DEF CallInv
  <2> QED BY <2>3, <2>4, <2>5 DEF Names
<1> QED BY <1>1, CallInvariance, PTL

\* Every variable has its type: every mnemonic emitted is a move the
\* architecture has, for every type of a Go value (amd64.go:56, amd64.go:90).
THEOREM CallTyped == ASSUME NoEmptyStruct PROVE CallSpec => []CallTypeOK
<1>1. CallInv => CallTypeOK
  <2> SUFFICES ASSUME CallInv PROVE CallTypeOK
    OBVIOUS
  <2>1. body \in Seq(GoodLines) /\ Len(body) <= MaxLines /\ Len(body) \in Nat
    BY DEF CallInv, Built
  <2>2. ip \in 0..(MaxLines + 1)
    BY <2>1, CallAssumption DEF CallInv, Built
  <2>3. ASSUME NEW j \in DOMAIN body PROVE \E m \in ISA(arch) : body[j].mnemonic = m.name
    <3>1. body[j] \in GoodLines /\ arch \in Arches
      BY <2>1, <2>3, ElementOfSeq DEF CallInv, Built
    <3>2. body[j].type \in GoTypes /\ body[j].op \in {"load", "store"}
      BY <3>1 DEF GoodLines, Lines
    <3>3. \E width, ext : Does(arch, body[j].mnemonic, width, ext)
      BY <3>1, <3>2, LoadDoes, StoreFits DEF GoodLines, Fits
    <3> QED BY <3>3 DEF Does
  <2>4. ASSUME NEW n \in DOMAIN results PROVE results[n] \in [1..8 -> 0..255]
    BY <2>4 DEF CallInv, Built, Running, Register, Byte
  <2> QED BY <2>2, <2>3, <2>4 DEF CallTypeOK, CallInv, Built, Running, Register, Byte
<1> QED BY <1>1, CallInvariance, PTL

-----------------------------------------------------------------------------
(* What is stored reads back, and what is loaded is the Go value.          *)

ResultInv == CallInv /\ NameInv /\ ResultsReadBack

\* A store to one result is read back, and leaves the others be.
LEMMA StoreReadBack ==
  ASSUME NoEmptyStruct, ResultInv, NEW line, RunStore(line), NEW p \in DOMAIN slots, slots[p].ret,
         slots[p].name \in DOMAIN results'
  PROVE  ValueAt(mem', slots[p].off, slots[p].type.size)
           = SubSeq(results'[slots[p].name], 1, slots[p].type.size)
<1> DEFINE s == slots[p]
           w == slots[p].type.size
<1>1. /\ line \in GoodLines /\ mode = "run" /\ Called
      /\ CallInv /\ NameInv /\ pc = "done" /\ IInv /\ SlotsOfGo
  BY RunsBuilt DEF RunStore, ResultInv, CallInv, Built
<1>2. s.off \in Nat /\ w \in 1..8 /\ End(s) = s.off + w
  BY <1>1, SlotInFrame
<1>3. /\ Stored(mem', Addresses, mem, Address(line), line.type.size, regs[line.reg])
      /\ regs[line.reg] \in Register
  BY <1>1, StorePuts
<1>4. Addresses \subseteq Int
  BY <1>1, LineReaches
<1>5. CASE line.ptr = "FP" /\ s.name = line.name
  <2>1. PICK q \in DOMAIN slots : Names(line, slots[q])
    BY <1>1, <1>5 DEF GoodLines
  <2>2. p = q
    BY <1>1, <1>5, <2>1 DEF Names, NameInv, NamesApart
  <2>3. line.type.size = w /\ Address(line) = s.off
    BY <1>5, <2>1, <2>2 DEF Names, Address
  <2>4. results'[s.name] = regs[line.reg]
    BY <1>5 DEF RunStore
  <2>5. Within(Addresses, s.off, w)
    BY <1>1, <1>2, SlotBytes DEF Within
  <2> HIDE DEF w, s
  <2>6. ValueAt(mem', s.off, w) = Low(regs[line.reg], w)
    <3>1. Stored(mem', Addresses, mem, s.off, w, regs[line.reg])
      BY <1>3, <2>3
    <3> DEFINE value == regs[line.reg]
               first == s.off
    <3>2. first \in Int /\ w \in 1..8 /\ value \in Register
      BY <1>2, <1>3
    <3>3. Stored(mem', Addresses, mem, first, w, value) /\ Within(Addresses, first, w)
      BY <2>5, <3>1
    <3> HIDE DEF value, first
    <3>4. Holds(mem', first, w, value)
      BY <1>4, <3>2, <3>3, ReadBack
    <3> QED BY <3>4 DEF Holds, value, first
  <2>7. SubSeq(regs[line.reg], 1, w) = Low(regs[line.reg], w)
    BY <1>2, <1>3, LowBytes
  <2> QED BY <2>4, <2>6, <2>7 DEF w, s
<1>6. CASE line.ptr # "FP" \/ s.name # line.name
  <2>1. results'[s.name] = results[s.name] /\ s.name \in DOMAIN results
    BY <1>6 DEF RunStore
  <2>2. ASSUME NEW a \in s.off..(s.off + w - 1) PROVE mem'[a] = mem[a]
    <3>1. a \in s.off..(End(s) - 1)
      BY <1>2
    <3>2. line.ptr # "FP" \/ ~Names(line, s)
      BY <1>6 DEF Names
    <3>3. a \in Addresses /\ (a < Address(line) \/ Address(line) + line.type.size <= a)
      BY <1>1, <3>1, <3>2, LineMisses
    <3> QED BY <1>3, <3>3 DEF Stored
  <2>3. ValueAt(mem, s.off, w) = SubSeq(results[s.name], 1, w)
    BY <1>1, <2>1 DEF ResultInv, ResultsReadBack
  <2> HIDE DEF w, s
  <2>4. ValueAt(mem', s.off, w) = ValueAt(mem, s.off, w)
    BY <1>2, <2>2, SameBytes
  <2> QED BY <2>1, <2>3, <2>4 DEF w, s
<1> QED BY <1>5, <1>6

LEMMA SameNameInv ==
  ASSUME NameInv, UNCHANGED vars PROVE NameInv'
<1>1. in' = in /\ slots' = slots /\ pc' = pc /\ i' = i /\ k' = k
  BY DEF vars
<1>2. Behind'
  BY <1>1 DEF NameInv, Behind, Current
<1> QED BY <1>1, <1>2, SameSlots DEF NameInv

LEMMA ReadBackKept ==
  ASSUME ResultsReadBack, Called, UNCHANGED <<slots, results, mem, arch>> PROVE ResultsReadBack'
BY DEF ResultsReadBack, ValueAt

LEMMA StepResultInv ==
  ASSUME NoEmptyStruct, PlainNames PROVE ResultInv /\ [CallNext]_allVars => ResultInv'
<1> SUFFICES ASSUME ResultInv, [CallNext]_allVars PROVE ResultInv'
  OBVIOUS
<1>1. CallInv' /\ CallInv /\ NameInv
  BY StepCallInv DEF ResultInv
<1>2. CASE LayoutStep
  <2>1. NameInv'
    BY <1>1, <1>2, StepNames DEF LayoutStep, CallInv
  <2>2. ~Called'
    BY <1>2 DEF LayoutStep, Called
  <2> QED BY <1>1, <2>1, <2>2 DEF ResultInv, ResultsReadBack
<1>3. ASSUME UNCHANGED vars, mode' \in {"build", "panicked"} PROVE ResultInv'
  <2>1. ~Called'
    BY <1>3 DEF Called
  <2> QED BY <1>1, <1>3, <2>1, SameNameInv DEF ResultInv, ResultsReadBack
<1>4. CASE Call
  <2>1. UNCHANGED vars /\ results' = <<>>
    BY <1>1, <1>4 DEF Call, CallInv, Built, Called
  <2>2. ResultsReadBack'
    BY <2>1 DEF ResultsReadBack
  <2> QED BY <1>1, <2>1, <2>2, SameNameInv DEF ResultInv
<1>5. ASSUME NEW line, RunLoad(line) PROVE ResultInv'
  <2>1. UNCHANGED vars /\ Called /\ UNCHANGED <<slots, results, mem, arch>>
    BY <1>1, <1>5, RunsBuilt DEF RunLoad, Runs
  <2> QED BY <1>1, <2>1, SameNameInv, ReadBackKept DEF ResultInv
<1>6. ASSUME NEW line, RunStore(line) PROVE ResultInv'
  <2>1. UNCHANGED vars /\ slots' = slots /\ arch' = arch
    BY <1>1, <1>6, RunsBuilt DEF RunStore, Runs
  <2>2. \A p \in DOMAIN slots : slots[p].ret /\ slots[p].name \in DOMAIN results' =>
          ValueAt(mem', slots[p].off, slots[p].type.size)
            = SubSeq(results'[slots[p].name], 1, slots[p].type.size)
    BY <1>6, StoreReadBack
  <2>3. ResultsReadBack'
    BY <2>1, <2>2 DEF ResultsReadBack, ValueAt
  <2> QED BY <1>1, <2>1, <2>3, SameNameInv DEF ResultInv
<1>7. CASE Return
  <2>1. UNCHANGED vars /\ Called /\ UNCHANGED <<slots, results, mem, arch>>
    BY <1>7 DEF Return, Called, vars
  <2> QED BY <1>1, <2>1, SameNameInv, ReadBackKept DEF ResultInv
<1>8. CASE UNCHANGED allVars
  <2>1. UNCHANGED vars /\ UNCHANGED <<slots, results, mem, arch, mode>>
    BY <1>8 DEF allVars, callVars, vars
  <2>2. CASE Called
    BY <1>1, <2>1, <2>2, SameNameInv, ReadBackKept DEF ResultInv
  <2>3. CASE ~Called
    BY <1>1, <2>1, <2>3, SameNameInv DEF ResultInv, ResultsReadBack, Called
  <2> QED BY <2>2, <2>3
<1>9. ASSUME NEW line, Emit(line), mode = "build" PROVE ResultInv'
  BY <1>3, <1>9 DEF Emit
<1>10. ASSUME NEW name, UnknownParam(name) PROVE ResultInv'
  BY <1>3, <1>10 DEF UnknownParam
<1>11. ASSUME NEW name, NEW reg, LoadArg(name, reg) \/ StoreRet(reg, name) PROVE ResultInv'
  BY <1>9, <1>11 DEF LoadArg, StoreRet
<1>12. ASSUME NEW ptrReg, NEW t, NEW reg, LoadIndirect(ptrReg, t, reg) \/ StoreIndirect(reg, ptrReg, t)
       PROVE  ResultInv'
  BY <1>9, <1>12 DEF LoadIndirect, StoreIndirect
<1> QED
  BY <1>2, <1>4, <1>5, <1>6, <1>7, <1>8, <1>10, <1>11, <1>12 DEF CallNext

\* The caller finds in each result the register last stored to it, for every
\* signature whose names stay apart once flattened (abi.go:170) and every body.
THEOREM ResultsKept == ASSUME NoEmptyStruct, PlainNames PROVE CallSpec => []ResultsReadBack
<1>1. CallInit => ResultInv
  <2> SUFFICES ASSUME CallInit PROVE ResultInv
    OBVIOUS
  <2> QED BY InitCallInv, InitNames DEF CallInit, ResultInv, ResultsReadBack, Called
<1>2. ResultInv /\ [CallNext]_allVars => ResultInv'
  BY StepResultInv
<1>3. ResultInv => ResultsReadBack
  BY DEF ResultInv
<1> QED BY <1>1, <1>2, <1>3, PTL DEF CallSpec

\* What LoadsGoValue says of one line.
LoadGivesValue(line) ==
  LET from == IF line.ptr # "FP" THEN Heap
              ELSE slots[CHOOSE p \in DOMAIN slots : slots[p].name = line.name].off
  IN  regs'[line.reg] = Extended(ValueAt(mem, from, line.type.size), line.type.size,
                                 line.type.signed /\ ~line.type.float)

LEMMA RunLoadGives ==
  ASSUME NoEmptyStruct, ResultInv, NEW line, RunLoad(line) PROVE LoadGivesValue(line)
<1> DEFINE from == IF line.ptr # "FP" THEN Heap
                   ELSE slots[CHOOSE p \in DOMAIN slots : slots[p].name = line.name].off
           w == line.type.size
           v == ValueAt(mem, from, w)
<1>1. /\ line \in GoodLines /\ mode = "run" /\ Called /\ CallInv /\ NameInv
      /\ TypeOK
  BY RunsBuilt DEF RunLoad, ResultInv, CallInv, IInv
<1>2. /\ line.type \in GoTypes /\ line.reg \in Regs /\ Address(line) \in Int
      /\ Address(line)..(Address(line) + w - 1) \subseteq Addresses
  BY <1>1, LineReaches
<1>3. Address(line) = from
  <2>1. CASE line.ptr # "FP"
    BY <2>1 DEF Address
  <2>2. CASE line.ptr = "FP"
    <3>1. PICK q \in DOMAIN slots : Names(line, slots[q])
      BY <1>1, <2>2 DEF GoodLines
    <3>2. \A p \in DOMAIN slots : slots[p].name = line.name => p = q
      BY <1>1, <3>1 DEF Names, NameInv, NamesApart
    <3>3. (CHOOSE p \in DOMAIN slots : slots[p].name = line.name) = q
      BY <3>1, <3>2 DEF Names
    <3> QED BY <2>2, <3>1, <3>3 DEF Names, Address
  <2> QED BY <2>1, <2>2
<1>4. regs \in [Regs -> Register]
  BY <1>1 DEF CallInv, Running
<1> HIDE DEF from
<1>5. regs' = [regs EXCEPT ![line.reg] = Extended(v, w, LoadExt(line.type) = "sign")]
  BY <1>1, <1>3, LoadLeaves
<1>6. regs'[line.reg] = Extended(v, w, LoadExt(line.type) = "sign")
  BY <1>2, <1>4, <1>5
<1>8. CASE w = 8
  <2>1. \A signed : Extended(v, w, signed) = [j \in 1..8 |-> v[j]]
    BY <1>8 DEF Extended
  <2> HIDE DEF v, w
  <2> QED BY <1>6, <2>1 DEF LoadGivesValue, from, v, w
<1>9. CASE w # 8
  <2>1. (LoadExt(line.type) = "sign") <=> (line.type.signed /\ ~line.type.float)
    BY <1>9 DEF LoadExt
  <2>2. line.type.signed \in BOOLEAN /\ line.type.float \in BOOLEAN
    BY <1>2, GoSize
  <2>3. (LoadExt(line.type) = "sign") = (line.type.signed /\ ~line.type.float)
    BY <2>1, <2>2
  <2> HIDE DEF v, w
  <2> QED BY <1>6, <2>3 DEF LoadGivesValue, from, v, w
<1> QED BY <1>8, <1>9

LEMMA LineLoads ==
  ASSUME NoEmptyStruct, ResultInv, CallNext, NEW j \in DOMAIN body,
         ip = j, ip' = j + 1, body[j].op = "load"
  PROVE  LoadGivesValue(body[j])
<1>1. j \in Nat /\ j > 0
  BY ElementOfSeq DEF ResultInv, CallInv, Built
<1>2. ip # 0 /\ ip' # ip
  BY <1>1
<1>3. Called
  BY <1>2 DEF ResultInv, CallInv, Built
<1>4. PICK l \in DOMAIN body : RunLoad(body[l]) \/ RunStore(body[l])
  BY <1>2, <1>3 DEF CallNext, LayoutStep, LoadArg, StoreRet, LoadIndirect, StoreIndirect, Emit,
                    UnknownParam, Call, Return, Called
<1>5. body[l] = body[j]
  BY <1>4 DEF RunLoad, RunStore, Runs
<1>6. RunLoad(body[j])
  BY <1>4, <1>5 DEF RunStore
<1> QED BY <1>6, RunLoadGives

\* A load leaves in the whole register the Go value of its type, of the one
\* argument of that name or of the object pointed to, on every architecture, for
\* every signature whose names stay apart once flattened and every body.
THEOREM LoadsRight == ASSUME NoEmptyStruct, PlainNames PROVE CallSpec => LoadsGoValue
<1>1. CallInit => ResultInv
  <2> SUFFICES ASSUME CallInit PROVE ResultInv
    OBVIOUS
  <2> QED BY InitCallInv, InitNames DEF CallInit, ResultInv, ResultsReadBack, Called
<1>2. ResultInv /\ [CallNext]_allVars => ResultInv'
  BY StepResultInv
<1>3. ResultInv /\ [CallNext]_allVars =>
        [\A j \in DOMAIN body :
           LET line == body[j]
               from == IF line.ptr # "FP" THEN Heap
                       ELSE slots[CHOOSE p \in DOMAIN slots : slots[p].name = line.name].off
           IN  ip = j /\ ip' = j + 1 /\ line.op = "load" =>
                 regs'[line.reg] = Extended(ValueAt(mem, from, line.type.size),
                                            line.type.size,
                                            line.type.signed /\ ~line.type.float)]_allVars
  <2> SUFFICES ASSUME ResultInv, CallNext, NEW j \in DOMAIN body,
                      ip = j, ip' = j + 1, body[j].op = "load"
               PROVE  LoadGivesValue(body[j])
    BY Zenon DEF LoadGivesValue
  <2> QED BY LineLoads
<1> QED BY <1>1, <1>2, <1>3, PTL DEF CallSpec, LoadsGoValue
=============================================================================
