------------------------------- MODULE GoFrame -------------------------------
(***************************************************************************)
(* The ABI0 frame as Go's rules define it, one Go value at a time and with *)
(* no arithmetic on masks: each value starts at the least multiple of its  *)
(* alignment past the value before it, its fields follow in order each at  *)
(* the least multiple of its size, its own end is rounded up to its        *)
(* alignment, and the results, when there are any, start at the least      *)
(* multiple of the word.  An array is aligned as its elements are, even    *)
(* when it has none.  Offsets are all counted from the start of the frame. *)
(***************************************************************************)
EXTENDS Integers, Sequences

VARIABLES
  in,      \* the values to place: [args, rets]
  area,    \* "args", "rets", then "done"
  n,       \* how many values of the area are placed
  end,     \* the end of the last one, padding included
  frame    \* the slots placed

vars == <<in, area, n, end, frame>>

\* o is the least multiple of al that is at or past e.
LeastMultiple(o, e, al) == o % al = 0 /\ e <= o /\ o < e + al

Values == IF area = "args" THEN in.args ELSE in.rets

\* The types of a value's leaves, in order.
Leaves(v) == IF v.agg THEN [j \in DOMAIN v.fields |-> v.fields[j].type] ELSE <<v.type>>

\* The widths that align a value: those of its leaves, and of an aggregate's
\* element type, whether or not it has elements.
Widths(v) ==
  {Leaves(v)[j].size : j \in DOMAIN Leaves(v)} \cup (IF v.agg THEN {v.elem} ELSE {})

\* al is the alignment of v: its greatest width.
IsAlignment(al, v) == al \in Widths(v) /\ \A w \in Widths(v) : w <= al

SlotEnd(s) == s.off + s.type.size

Init ==
  /\ area = "args"
  /\ n = 0
  /\ end = 0
  /\ frame = <<>>

\* Padding before a value never goes past what its alignment asks for.
Pad ==
  /\ area \in {"args", "rets"}
  /\ n < Len(Values)
  /\ \E al \in {1, 2, 4, 8} :
       IsAlignment(al, Values[n + 1]) /\ LeastMultiple(end', end, al)
  /\ UNCHANGED <<in, area, n, frame>>

Put ==
  /\ area \in {"args", "rets"}
  /\ n < Len(Values)
  /\ n' = n + 1
  /\ LET leaves == Leaves(Values[n + 1])
         last == Len(frame) + Len(leaves)
         start(j) == IF j = 1 THEN end ELSE SlotEnd(frame'[Len(frame) + j - 1])
     IN  /\ Len(frame') = last
         /\ SubSeq(frame', 1, Len(frame)) = frame
         /\ \A j \in DOMAIN leaves :
              LET s == frame'[Len(frame) + j]
              IN  /\ s.type = leaves[j]
                  /\ s.ret = (area = "rets")
                  /\ LeastMultiple(s.off, start(j), s.type.size)
         /\ \E al \in {1, 2, 4, 8} :
              /\ IsAlignment(al, Values[n + 1])
              /\ leaves = <<>> => end % al = 0 /\ end' = end
              /\ leaves # <<>> => /\ frame'[Len(frame) + 1].off % al = 0
                                  /\ LeastMultiple(end', SlotEnd(frame'[last]), al)
  /\ UNCHANGED <<in, area>>

StartResults ==
  /\ area = "args" /\ n = Len(in.args)
  /\ area' = "rets" /\ n' = 0
  /\ IF in.rets = <<>> THEN end' = end ELSE LeastMultiple(end', end, 8)
  /\ UNCHANGED <<in, frame>>

Return ==
  /\ area = "rets" /\ n = Len(in.rets)
  /\ area' = "done"
  /\ UNCHANGED <<in, n, end, frame>>

Next == Pad \/ Put \/ StartResults \/ Return

Spec == Init /\ [][Next]_vars

=============================================================================
