---------------------------- MODULE MCFeatureProbe ----------------------------
(* Every combination of the feature bits a probe reads, highest leaves below, *)
(* at and just under 7 and with bit 31 set, and XCR0 with every component set *)
(* some kernel lacks.                                                         *)
EXTENDS FeatureProbe

\* A vendor string and those that differ from it in one character or by the
\* order of two of its words.
P == {0, 6}
Q == {1, 6}
Base == <<P, Q, P, P, Q, Q, P, P, P, P, Q, Q>>
Near == {[Base EXCEPT ![j] = {j % 8}] : j \in 1..12}
Swapped == {SubSeq(Base, 5, 8) \o SubSeq(Base, 1, 4) \o SubSeq(Base, 9, 12),
            SubSeq(Base, 1, 4) \o SubSeq(Base, 9, 12) \o SubSeq(Base, 5, 8)}

MCCPUs ==
  [maxLeaf : {{0}, {1, 2}, Seven}, vendor : {Base}, one : SUBSET {12, 23, 27, 28},
   seven : SUBSET {5, 16}, other : {{}, Bits},
   xcr0 : {{}, {1}, {2, 5, 6, 7}, {1, 2}, {1, 2, 6, 7}, {1, 2, 5, 6, 7}},
   lazy : {{}, {5, 6, 7}}]
  \cup
  [maxLeaf : {Seven}, vendor : Near \cup Swapped, one : {{}}, seven : {{}},
   other : {Bits}, xcr0 : {{}}, lazy : {{}}]
  \cup
  \* Highest leaves JL reads as negative.
  [maxLeaf : {{31}, Seven \cup {31}}, vendor : {Base}, one : {{}, {12, 23, 27, 28}},
   seven : {{}, {5, 16}}, other : {{}, Bits}, xcr0 : {{1, 2}, {1, 2, 5, 6, 7}}, lazy : {{}}]

Ask(f, v) == [feature |-> f, vendor |-> v]
MCRequests ==
  {Ask(f, <<>>) : f \in Features \cup {"SSE9"}}
  \cup {Ask("vendor", v) : v \in {Base, SubSeq(Base, 1, 11), Append(Base, P)}}
MCGarbage == {3, 9, 31}
=============================================================================
