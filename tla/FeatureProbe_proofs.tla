------------------------- MODULE FeatureProbe_proofs -------------------------
(***************************************************************************)
(* For every machine and every call: no fault, no answer but yes or no, no *)
(* no where the feature could be used, and the vendor told exactly.  IInv  *)
(* says what the checks passed so far have established (Established), what *)
(* the answer records of them, and, inside a check, what the registers     *)
(* hold at each of its instructions (Within).  On top of it DenialInv says *)
(* that a usable feature passes its checks, and VendorInv what the vendor  *)
(* check has compared.                                                     *)
(***************************************************************************)
EXTENDS FeatureProbe, TLAPS

Kinds == {"no", "maxLeaf", "leaf1All", "leaf1Bit", "xcr0", "leaf7Bit", "vendor", "yes"}

IsFeature == asks.feature # "vendor"

\* What a check that is passed has established.
Established(p) ==
  /\ p.kind = "maxLeaf" => ~Less(cpu.maxLeaf, Seven)
  /\ p.kind = "leaf1All" => p.mask \subseteq cpu.one
  /\ p.kind = "leaf1Bit" => p.mask \cap cpu.one # {}
  /\ p.kind = "xcr0" => p.mask \subseteq xcr0
  /\ p.kind = "leaf7Bit" => p.mask \cap cpu.seven # {}

\* What the registers hold at instruction j of a check of a feature probe.
Within(p, j) ==
  /\ p.kind = "maxLeaf" =>
       /\ j = 2 => regs["AX"] = {}
       /\ j = 3 => regs["AX"] = cpu.maxLeaf
       /\ j = 4 => less = Less(cpu.maxLeaf, Seven)
  /\ p.kind = "leaf1All" =>
       /\ j = 2 => regs["AX"] = One
       /\ j = 3 => regs["CX"] = cpu.one
       /\ j = 4 => regs["CX"] = cpu.one \cap p.mask
       /\ j = 5 => zero = (cpu.one \cap p.mask = p.mask)
  /\ p.kind = "leaf1Bit" =>
       /\ j = 2 => regs["AX"] = One
       /\ j = 3 => regs["CX"] = cpu.one
       /\ j = 4 => zero = (cpu.one \cap p.mask = {})
  /\ p.kind = "xcr0" =>
       /\ j = 2 => regs["CX"] = {}
       /\ j = 3 => regs["AX"] \subseteq xcr0
       /\ j = 4 => regs["AX"] \subseteq xcr0
       /\ j = 5 => (zero => p.mask \subseteq xcr0)
  /\ p.kind = "leaf7Bit" =>
       /\ j \in {2, 3} => regs["AX"] = Seven
       /\ j = 3 => regs["CX"] = {}
       /\ j = 4 => regs["BX"] = cpu.seven
       /\ j = 5 => zero = (cpu.seven \cap p.mask = {})

RunInv ==
  /\ IsFeature /\ (seg = Done => ret # {}) =>
       \A s \in 1..Len(Pieces) : s < seg => Established(Pieces[s])
  /\ IsFeature /\ seg # Done => Within(Pieces[seg], ip)
  /\ seg # 1 /\ seg # Done => ret = {}
  /\ seg # 1 => ret \in {{}, One}

IInv ==
  /\ TypeOK
  /\ NeverFaults
  /\ AnswerIsBool
  /\ mode = "emit" => seg = 1 /\ ip = 1
  /\ mode = "probe" => RunInv
  /\ mode = "returned" => Emittable
  /\ mode = "returned" /\ ret # {} /\ IsFeature =>
       \A s \in 1..Len(Pieces) : Established(Pieces[s])

-----------------------------------------------------------------------------
(***************************************************************************)
(* The emitted functions.                                                  *)
(***************************************************************************)

\* What the piece at s presupposes of its place in a function.
WellPlaced(ps, s) ==
  /\ ps[s].kind \in Kinds
  /\ ps[s].mask \subseteq Bits
  /\ ps[s].kind = "no" <=> s = 1
  /\ ps[s].kind = "yes" => s = Len(ps)
  /\ ps[s].kind = "maxLeaf" => ps[s].mask = Seven
  /\ ps[s].kind = "xcr0" => /\ s > 2
                            /\ ps[s - 1].kind = "leaf1All" /\ 27 \in ps[s - 1].mask
  /\ ps[s].kind = "leaf7Bit" => s > 2 /\ ps[2].kind = "maxLeaf"

WellFormed(ps) == Len(ps) \in 3..6 /\ \A s \in 1..Len(ps) : WellPlaced(ps, s)

LEMMA FeaturesWellFormed == ASSUME NEW f \in Features PROVE WellFormed(FeaturePieces(f))
<1> DEFINE ps == FeaturePieces(f)
<1> SUFFICES WellFormed(ps)
  OBVIOUS
<1>1. CASE f = "POPCNT"
  <2>1. ps = <<No, Piece("leaf1Bit", {23}), Yes>>
    BY <1>1 DEF FeaturePieces
  <2> USE DEF Piece, No, Yes
  <2> HIDE DEF ps
  <2>2. Len(ps) = 3
    BY <2>1
  <2>3. ps[1].kind = "no" /\ ps[1].mask = {}
    BY <2>1
  <2>4. ps[2].kind = "leaf1Bit" /\ ps[2].mask = {23}
    BY <2>1
  <2>5. ps[3].kind = "yes" /\ ps[3].mask = {}
    BY <2>1
  <2>11. WellPlaced(ps, 1)
    BY <2>3 DEF WellPlaced, Kinds, Bits, Seven, YMMState, ZMMState
  <2>12. WellPlaced(ps, 2)
    BY <2>4 DEF WellPlaced, Kinds, Bits, Seven, YMMState, ZMMState
  <2>13. WellPlaced(ps, 3)
    BY <2>2, <2>5, <2>4 DEF WellPlaced, Kinds, Bits, Seven, YMMState, ZMMState
  <2> QED
    BY <2>2, <2>11, <2>12, <2>13 DEF WellFormed
<1>2. CASE f = "AVX2"
  <2>1. ps = <<No, Piece("maxLeaf", Seven), Piece("leaf1All", {27, 28}), Piece("xcr0", YMMState), Piece("leaf7Bit", {5}), Yes>>
    BY <1>2 DEF FeaturePieces
  <2> USE DEF Piece, No, Yes
  <2> HIDE DEF ps
  <2>2. Len(ps) = 6
    BY <2>1
  <2>3. ps[1].kind = "no" /\ ps[1].mask = {}
    BY <2>1
  <2>4. ps[2].kind = "maxLeaf" /\ ps[2].mask = Seven
    BY <2>1
  <2>5. ps[3].kind = "leaf1All" /\ ps[3].mask = {27, 28}
    BY <2>1
  <2>6. ps[4].kind = "xcr0" /\ ps[4].mask = YMMState
    BY <2>1
  <2>7. ps[5].kind = "leaf7Bit" /\ ps[5].mask = {5}
    BY <2>1
  <2>8. ps[6].kind = "yes" /\ ps[6].mask = {}
    BY <2>1
  <2>11. WellPlaced(ps, 1)
    BY <2>3 DEF WellPlaced, Kinds, Bits, Seven, YMMState, ZMMState
  <2>12. WellPlaced(ps, 2)
    BY <2>4 DEF WellPlaced, Kinds, Bits, Seven, YMMState, ZMMState
  <2>13. WellPlaced(ps, 3)
    BY <2>5, <2>4 DEF WellPlaced, Kinds, Bits, Seven, YMMState, ZMMState
  <2>14. WellPlaced(ps, 4)
    BY <2>6, <2>5, <2>4 DEF WellPlaced, Kinds, Bits, Seven, YMMState, ZMMState
  <2>15. WellPlaced(ps, 5)
    BY <2>7, <2>6, <2>4 DEF WellPlaced, Kinds, Bits, Seven, YMMState, ZMMState
  <2>16. WellPlaced(ps, 6)
    BY <2>2, <2>8, <2>7, <2>4 DEF WellPlaced, Kinds, Bits, Seven, YMMState, ZMMState
  <2> QED
    BY <2>2, <2>11, <2>12, <2>13, <2>14, <2>15, <2>16 DEF WellFormed
<1>3. CASE f = "AVX512F"
  <2>1. ps = <<No, Piece("maxLeaf", Seven), Piece("leaf1All", {27, 28}), Piece("xcr0", ZMMState), Piece("leaf7Bit", {16}), Yes>>
    BY <1>3 DEF FeaturePieces
  <2> USE DEF Piece, No, Yes
  <2> HIDE DEF ps
  <2>2. Len(ps) = 6
    BY <2>1
  <2>3. ps[1].kind = "no" /\ ps[1].mask = {}
    BY <2>1
  <2>4. ps[2].kind = "maxLeaf" /\ ps[2].mask = Seven
    BY <2>1
  <2>5. ps[3].kind = "leaf1All" /\ ps[3].mask = {27, 28}
    BY <2>1
  <2>6. ps[4].kind = "xcr0" /\ ps[4].mask = ZMMState
    BY <2>1
  <2>7. ps[5].kind = "leaf7Bit" /\ ps[5].mask = {16}
    BY <2>1
  <2>8. ps[6].kind = "yes" /\ ps[6].mask = {}
    BY <2>1
  <2>11. WellPlaced(ps, 1)
    BY <2>3 DEF WellPlaced, Kinds, Bits, Seven, YMMState, ZMMState
  <2>12. WellPlaced(ps, 2)
    BY <2>4 DEF WellPlaced, Kinds, Bits, Seven, YMMState, ZMMState
  <2>13. WellPlaced(ps, 3)
    BY <2>5, <2>4 DEF WellPlaced, Kinds, Bits, Seven, YMMState, ZMMState
  <2>14. WellPlaced(ps, 4)
    BY <2>6, <2>5, <2>4 DEF WellPlaced, Kinds, Bits, Seven, YMMState, ZMMState
  <2>15. WellPlaced(ps, 5)
    BY <2>7, <2>6, <2>4 DEF WellPlaced, Kinds, Bits, Seven, YMMState, ZMMState
  <2>16. WellPlaced(ps, 6)
    BY <2>2, <2>8, <2>7, <2>4 DEF WellPlaced, Kinds, Bits, Seven, YMMState, ZMMState
  <2> QED
    BY <2>2, <2>11, <2>12, <2>13, <2>14, <2>15, <2>16 DEF WellFormed
<1>4. CASE f = "FMA"
  <2>1. ps = <<No, Piece("leaf1All", {12, 27, 28}), Piece("xcr0", YMMState), Yes>>
    BY <1>4 DEF FeaturePieces, FMAPieces
  <2> USE DEF Piece, No, Yes
  <2> HIDE DEF ps
  <2>2. Len(ps) = 4
    BY <2>1
  <2>3. ps[1].kind = "no" /\ ps[1].mask = {}
    BY <2>1
  <2>4. ps[2].kind = "leaf1All" /\ ps[2].mask = {12, 27, 28}
    BY <2>1
  <2>5. ps[3].kind = "xcr0" /\ ps[3].mask = YMMState
    BY <2>1
  <2>6. ps[4].kind = "yes" /\ ps[4].mask = {}
    BY <2>1
  <2>11. WellPlaced(ps, 1)
    BY <2>3 DEF WellPlaced, Kinds, Bits, Seven, YMMState, ZMMState
  <2>12. WellPlaced(ps, 2)
    BY <2>4 DEF WellPlaced, Kinds, Bits, Seven, YMMState, ZMMState
  <2>13. WellPlaced(ps, 3)
    BY <2>5, <2>4 DEF WellPlaced, Kinds, Bits, Seven, YMMState, ZMMState
  <2>14. WellPlaced(ps, 4)
    BY <2>2, <2>6, <2>5, <2>4 DEF WellPlaced, Kinds, Bits, Seven, YMMState, ZMMState
  <2> QED
    BY <2>2, <2>11, <2>12, <2>13, <2>14 DEF WellFormed
<1> QED
  BY <1>1, <1>2, <1>3, <1>4 DEF Features

LEMMA VendorWellFormed == ASSUME NEW v PROVE WellFormed(VendorPieces(v))
<1> DEFINE ps == VendorPieces(v)
           check == [kind |-> "vendor", mask |-> {}, vendor |-> v]
<1>1. Len(ps) = 3 /\ ps[1] = No /\ ps[2] = check /\ ps[3] = Yes
  BY DEF VendorPieces
<1> HIDE DEF ps
<1>2. WellPlaced(ps, 1) /\ WellPlaced(ps, 2) /\ WellPlaced(ps, 3)
  BY <1>1 DEF WellPlaced, Kinds, Bits, No, Yes, Piece, Seven
<1>3. WellFormed(ps)
  BY <1>1, <1>2 DEF WellFormed
<1> QED
  BY <1>3 DEF ps

LEMMA PiecesWellFormed == Emittable => WellFormed(Pieces)
BY FeaturesWellFormed, VendorWellFormed DEF Emittable, Pieces

\* A highest leaf that JL does not find below 7 is not, and its sign is clear.
LEMMA NotLess ==
  ASSUME ~Less(cpu.maxLeaf, Seven) PROVE ~Below(cpu.maxLeaf, Seven) /\ 31 \notin cpu.maxLeaf
<1>1. 31 \notin Seven
  BY DEF Seven
<1> QED
  BY <1>1 DEF Less

\* With the sign clear, JL finds below 7 only what is.
LEMMA LessIsBelow ==
  ASSUME 31 \notin cpu.maxLeaf, ~Below(cpu.maxLeaf, Seven) PROVE ~Less(cpu.maxLeaf, Seven)
<1>1. 31 \notin Seven
  BY DEF Seven
<1> QED
  BY <1>1 DEF Less

\* The pieces of a feature, all established, make the feature usable.
LEMMA EstablishedUsable ==
  ASSUME asks.feature \in Features, \A s \in 1..Len(Pieces) : Established(Pieces[s])
  PROVE  Usable(asks.feature)
<1> DEFINE ps == Pieces
<1>1. ps = FeaturePieces(asks.feature)
  BY DEF Pieces, Features
<1>2. \A s \in 1..Len(ps) : Established(ps[s])
  OBVIOUS
<1>3. CASE asks.feature = "POPCNT"
  <2>1. ps = <<No, Piece("leaf1Bit", {23}), Yes>>
    BY <1>3, <1>1 DEF FeaturePieces, FMAPieces
  <2> USE DEF Piece, No, Yes
  <2> HIDE DEF ps
  <2>2. Len(ps) = 3
    BY <2>1
  <2>3. ps[2].kind = "leaf1Bit" /\ ps[2].mask = {23}
    BY <2>1
  <2>4. 23 \in cpu.one
    BY <2>2, <2>3, <1>2 DEF Established, YMMState, ZMMState
  <2> QED
    BY <1>3, <2>4 DEF Usable, Saves
<1>4. CASE asks.feature = "AVX2"
  <2>1. ps = <<No, Piece("maxLeaf", Seven), Piece("leaf1All", {27, 28}), Piece("xcr0", YMMState), Piece("leaf7Bit", {5}), Yes>>
    BY <1>4, <1>1 DEF FeaturePieces, FMAPieces
  <2> USE DEF Piece, No, Yes
  <2> HIDE DEF ps
  <2>2. Len(ps) = 6
    BY <2>1
  <2>3. ps[2].kind = "maxLeaf" /\ ps[2].mask = Seven
    BY <2>1
  <2>4. ~Below(cpu.maxLeaf, Seven)
    <3>1. ~Less(cpu.maxLeaf, Seven)
      BY <2>2, <2>3, <1>2 DEF Established, YMMState, ZMMState
    <3> QED
      BY <3>1, NotLess
  <2>5. ps[3].kind = "leaf1All" /\ ps[3].mask = {27, 28}
    BY <2>1
  <2>6. 27 \in cpu.one /\ 28 \in cpu.one
    BY <2>2, <2>5, <1>2 DEF Established, YMMState, ZMMState
  <2>7. ps[4].kind = "xcr0" /\ ps[4].mask = YMMState
    BY <2>1
  <2>8. {1, 2} \subseteq xcr0
    BY <2>2, <2>7, <1>2 DEF Established, YMMState, ZMMState
  <2>9. ps[5].kind = "leaf7Bit" /\ ps[5].mask = {5}
    BY <2>1
  <2>10. 5 \in cpu.seven
    BY <2>2, <2>9, <1>2 DEF Established, YMMState, ZMMState
  <2> QED
    BY <1>4, <2>4, <2>6, <2>8, <2>10 DEF Usable, Saves
<1>5. CASE asks.feature = "AVX512F"
  <2>1. ps = <<No, Piece("maxLeaf", Seven), Piece("leaf1All", {27, 28}), Piece("xcr0", ZMMState), Piece("leaf7Bit", {16}), Yes>>
    BY <1>5, <1>1 DEF FeaturePieces, FMAPieces
  <2> USE DEF Piece, No, Yes
  <2> HIDE DEF ps
  <2>2. Len(ps) = 6
    BY <2>1
  <2>3. ps[2].kind = "maxLeaf" /\ ps[2].mask = Seven
    BY <2>1
  <2>4. ~Below(cpu.maxLeaf, Seven)
    <3>1. ~Less(cpu.maxLeaf, Seven)
      BY <2>2, <2>3, <1>2 DEF Established, YMMState, ZMMState
    <3> QED
      BY <3>1, NotLess
  <2>5. ps[3].kind = "leaf1All" /\ ps[3].mask = {27, 28}
    BY <2>1
  <2>6. 27 \in cpu.one /\ 28 \in cpu.one
    BY <2>2, <2>5, <1>2 DEF Established, YMMState, ZMMState
  <2>7. ps[4].kind = "xcr0" /\ ps[4].mask = ZMMState
    BY <2>1
  <2>8. {1, 2, 5, 6, 7} \subseteq xcr0
    BY <2>2, <2>7, <1>2 DEF Established, YMMState, ZMMState
  <2>9. ps[5].kind = "leaf7Bit" /\ ps[5].mask = {16}
    BY <2>1
  <2>10. 16 \in cpu.seven
    BY <2>2, <2>9, <1>2 DEF Established, YMMState, ZMMState
  <2> QED
    BY <1>5, <2>4, <2>6, <2>8, <2>10 DEF Usable, Saves
<1>6. CASE asks.feature = "FMA"
  <2>1. ps = <<No, Piece("leaf1All", {12, 27, 28}), Piece("xcr0", YMMState), Yes>>
    BY <1>6, <1>1 DEF FeaturePieces, FMAPieces
  <2> USE DEF Piece, No, Yes
  <2> HIDE DEF ps
  <2>2. Len(ps) = 4
    BY <2>1
  <2>3. ps[2].kind = "leaf1All" /\ ps[2].mask = {12, 27, 28}
    BY <2>1
  <2>4. {12, 28} \subseteq cpu.one /\ 27 \in cpu.one
    BY <2>2, <2>3, <1>2 DEF Established, YMMState, ZMMState
  <2>5. ps[3].kind = "xcr0" /\ ps[3].mask = YMMState
    BY <2>1
  <2>6. {1, 2} \subseteq xcr0
    BY <2>2, <2>5, <1>2 DEF Established, YMMState, ZMMState
  <2> QED
    BY <1>6, <2>4, <2>6 DEF Usable, Saves
<1> QED
  BY <1>3, <1>4, <1>5, <1>6 DEF Features

\* What an instruction is.
Is(c, op, reg, imm) == c.op = op /\ c.reg = reg /\ c.imm = imm

LEMMA NoListing ==
  ASSUME NEW p, p.kind = "no"
  PROVE  /\ Len(Code(p)) = 1
         /\ Is(Code(p)[1], "MOVB", "none", {})
<1>1. Code(p) = <<I("MOVB", "none", {})>>
  BY DEF Code
<1> QED
  BY <1>1 DEF I, Is

LEMMA MaxLeafListing ==
  ASSUME NEW p, p.kind = "maxLeaf"
  PROVE  /\ Len(Code(p)) = 4
         /\ Is(Code(p)[1], "XORL", "AX", {})
         /\ Is(Code(p)[2], "CPUID", "none", {})
         /\ Is(Code(p)[3], "CMPL", "AX", p.mask)
         /\ Is(Code(p)[4], "JL", "none", {})
<1>1. Code(p) = <<I("XORL", "AX", {}), I("CPUID", "none", {}), I("CMPL", "AX", p.mask), I("JL", "none", {})>>
  BY DEF Code
<1> QED
  BY <1>1 DEF I, Is

LEMMA Leaf1AllListing ==
  ASSUME NEW p, p.kind = "leaf1All"
  PROVE  /\ Len(Code(p)) = 5
         /\ Is(Code(p)[1], "MOVL", "AX", One)
         /\ Is(Code(p)[2], "CPUID", "none", {})
         /\ Is(Code(p)[3], "ANDL", "CX", p.mask)
         /\ Is(Code(p)[4], "CMPL", "CX", p.mask)
         /\ Is(Code(p)[5], "JNE", "none", {})
<1>1. Code(p) = <<I("MOVL", "AX", One), I("CPUID", "none", {}), I("ANDL", "CX", p.mask), I("CMPL", "CX", p.mask), I("JNE", "none", {})>>
  BY DEF Code
<1> QED
  BY <1>1 DEF I, Is

LEMMA Leaf1BitListing ==
  ASSUME NEW p, p.kind = "leaf1Bit"
  PROVE  /\ Len(Code(p)) = 4
         /\ Is(Code(p)[1], "MOVL", "AX", One)
         /\ Is(Code(p)[2], "CPUID", "none", {})
         /\ Is(Code(p)[3], "TESTL", "CX", p.mask)
         /\ Is(Code(p)[4], "JZ", "none", {})
<1>1. Code(p) = <<I("MOVL", "AX", One), I("CPUID", "none", {}), I("TESTL", "CX", p.mask), I("JZ", "none", {})>>
  BY DEF Code
<1> QED
  BY <1>1 DEF I, Is

LEMMA Xcr0Listing ==
  ASSUME NEW p, p.kind = "xcr0"
  PROVE  /\ Len(Code(p)) = 5
         /\ Is(Code(p)[1], "XORL", "CX", {})
         /\ Is(Code(p)[2], "XGETBV", "none", {})
         /\ Is(Code(p)[3], "ANDL", "AX", p.mask)
         /\ Is(Code(p)[4], "CMPL", "AX", p.mask)
         /\ Is(Code(p)[5], "JNE", "none", {})
<1>1. Code(p) = <<I("XORL", "CX", {}), I("XGETBV", "none", {}), I("ANDL", "AX", p.mask), I("CMPL", "AX", p.mask), I("JNE", "none", {})>>
  BY DEF Code
<1> QED
  BY <1>1 DEF I, Is

LEMMA Leaf7BitListing ==
  ASSUME NEW p, p.kind = "leaf7Bit"
  PROVE  /\ Len(Code(p)) = 5
         /\ Is(Code(p)[1], "MOVL", "AX", Seven)
         /\ Is(Code(p)[2], "XORL", "CX", {})
         /\ Is(Code(p)[3], "CPUID", "none", {})
         /\ Is(Code(p)[4], "TESTL", "BX", p.mask)
         /\ Is(Code(p)[5], "JZ", "none", {})
<1>1. Code(p) = <<I("MOVL", "AX", Seven), I("XORL", "CX", {}), I("CPUID", "none", {}), I("TESTL", "BX", p.mask), I("JZ", "none", {})>>
  BY DEF Code
<1> QED
  BY <1>1 DEF I, Is

LEMMA VendorListing ==
  ASSUME NEW p, p.kind = "vendor"
  PROVE  /\ Len(Code(p)) = 8
         /\ Is(Code(p)[1], "XORL", "AX", {})
         /\ Is(Code(p)[2], "CPUID", "none", {})
         /\ Is(Code(p)[3], "CMPL", "BX", word(p.vendor, 0))
         /\ Is(Code(p)[4], "JNE", "none", {})
         /\ Is(Code(p)[5], "CMPL", "DX", word(p.vendor, 4))
         /\ Is(Code(p)[6], "JNE", "none", {})
         /\ Is(Code(p)[7], "CMPL", "CX", word(p.vendor, 8))
         /\ Is(Code(p)[8], "JNE", "none", {})
<1>1. Code(p) = VendorCode(p.vendor)
  BY DEF Code
<1> QED
  BY <1>1 DEF I, Is, VendorCode

LEMMA YesListing ==
  ASSUME NEW p, p.kind = "yes"
  PROVE  /\ Len(Code(p)) = 1
         /\ Is(Code(p)[1], "MOVB", "none", One)
<1>1. Code(p) = <<I("MOVB", "none", One)>>
  BY DEF Code
<1> QED
  BY <1>1 DEF I, Is

LEMMA CodeLength == ASSUME NEW p, p.kind \in Kinds PROVE Len(Code(p)) \in 1..8
BY NoListing, MaxLeafListing, Leaf1AllListing, Leaf1BitListing, Xcr0Listing, Leaf7BitListing,
   VendorListing, YesListing DEF Kinds

-----------------------------------------------------------------------------
(***************************************************************************)
(* One instruction: the three ways on from it.                             *)
(***************************************************************************)

\* A step of the probe that leaves what the checks are about alone.
Steps ==
  /\ IInv
  /\ mode = "probe" /\ seg # Done
  /\ UNCHANGED <<asks, cpu, mode, xcr0, able>>
  /\ regs' \in [Registers -> SUBSET Bits] /\ less' \in BOOLEAN /\ zero' \in BOOLEAN

LEMMA StepFacts ==
  ASSUME Steps
  PROVE  /\ Emittable /\ WellFormed(Pieces) /\ Len(Pieces) \in 3..6
         /\ Done = Len(Pieces) + 1
         /\ seg \in 1..Len(Pieces) /\ ip \in 1..Len(Code(Pieces[seg]))
         /\ Pieces[seg].kind \in Kinds
         /\ WellPlaced(Pieces, seg)
         /\ Pieces' = Pieces /\ Done' = Done /\ Emittable'
<1>1. TypeOK /\ mode = "probe"
  BY DEF Steps, IInv
<1>2. Emittable /\ seg \in 1..(Len(Pieces) + 1)
  BY <1>1 DEF TypeOK
<1>3. WellFormed(Pieces)
  BY <1>2, PiecesWellFormed
<1>4. Len(Pieces) \in 3..6 /\ Done = Len(Pieces) + 1
  BY <1>3 DEF WellFormed, Done
<1>5. seg \in 1..Len(Pieces)
  BY <1>2, <1>4 DEF Steps
<1>6. ip \in 1..Len(Code(Pieces[seg]))
  BY <1>1, <1>5, <1>4 DEF TypeOK
<1>7. WellPlaced(Pieces, seg) /\ Pieces[seg].kind \in Kinds
  BY <1>3, <1>5 DEF WellFormed, WellPlaced
<1>8. asks' = asks
  BY DEF Steps
<1>9. Pieces' = Pieces
  BY <1>8 DEF Pieces
<1>10. Done' = Done /\ Emittable'
  BY <1>8, <1>9, <1>2 DEF Done, Emittable
<1> QED
  BY <1>2, <1>3, <1>4, <1>5, <1>6, <1>7, <1>9, <1>10

\* To the next instruction of the same piece.
LEMMA StayIInv ==
  ASSUME Steps, seg' = seg, ip' = ip + 1, ip < Len(Code(Pieces[seg])), ret' = ret,
         IsFeature => Within(Pieces[seg], ip)'
  PROVE  IInv'
<1> USE StepFacts
<1>1. TypeOK'
  <2>1. Pieces'[seg'] = Pieces[seg]
    BY StepFacts
  <2>2. Len(Code(Pieces[seg])) \in 1..8
    BY StepFacts, CodeLength
  <2>3. ip' \in 1..Len(Code(Pieces[seg]))
    BY <2>2, StepFacts
  <2> QED
    BY <2>1, <2>3, StepFacts DEF TypeOK, Steps, IInv
<1>2. RunInv'
  <2>1. RunInv
    BY DEF Steps, IInv
  <2>2. \A s \in 1..Len(Pieces) : Established(Pieces[s])' = Established(Pieces[s])
    BY StepFacts DEF Steps, Established
  <2>3. IsFeature' = IsFeature
    BY DEF Steps, IsFeature
  <2> QED
    BY <2>1, <2>2, <2>3, StepFacts DEF RunInv, Steps
<1> QED
  BY <1>1, <1>2 DEF Steps, IInv, NeverFaults, AnswerIsBool

\* To the next piece.
LEMMA PassIInv ==
  ASSUME Steps, seg' = seg + 1, ip' = 1, ret' \in {{}, One}, seg + 1 # Done => ret' = {},
         IsFeature => Established(Pieces[seg])
  PROVE  IInv'
<1>1. TypeOK'
  <2>1. CASE seg + 1 = Done
    <3>1. seg' \in 1..(Len(Pieces) + 1) /\ ~(seg' <= Len(Pieces))
      BY <2>1, StepFacts
    <3>2. ret' \subseteq Bits
      BY DEF Bits, One
    <3> QED
      BY <3>1, <3>2, StepFacts DEF TypeOK, Steps, IInv
  <2>2. CASE seg + 1 # Done
    <3>1. seg' \in 1..Len(Pieces)
      BY <2>2, StepFacts
    <3>2. Pieces[seg'].kind \in Kinds
      BY <3>1, StepFacts DEF WellFormed, WellPlaced
    <3>3. Len(Code(Pieces[seg'])) \in 1..8
      BY <3>2, CodeLength
    <3>4. ip' \in 1..Len(Code(Pieces'[seg']))
      <4>1. Pieces'[seg'] = Pieces[seg']
        BY StepFacts
      <4>2. Len(Code(Pieces'[seg'])) \in 1..8
        BY <3>3, <4>1
      <4>3. ASSUME NEW n \in 1..8 PROVE 1 \in 1..n
        OBVIOUS
      <4>4. 1 \in 1..Len(Code(Pieces'[seg']))
        BY <4>2, <4>3
      <4> QED
        BY <4>4
    <3>5. ret' \subseteq Bits
      BY DEF Bits, One
    <3> QED
      BY <3>1, <3>4, <3>5, StepFacts DEF TypeOK, Steps, IInv
  <2> QED
    BY <2>1, <2>2
<1>2. RunInv'
  <2>1. RunInv
    BY DEF Steps, IInv
  <2>2. \A s \in 1..Len(Pieces) : Established(Pieces[s])' = Established(Pieces[s])
    BY StepFacts DEF Steps, Established
  <2>3. IsFeature' = IsFeature
    BY DEF Steps, IsFeature
  <2>4. IsFeature => \A s \in 1..Len(Pieces) : s < seg' => Established(Pieces[s])
    BY <2>1, StepFacts DEF RunInv, Steps
  <2>5. IsFeature => \A s \in 1..Len(Pieces) : s < seg' => Established(Pieces[s])'
    BY <2>2, <2>4
  <2>6. Within(Pieces[seg], ip)'
    BY DEF Within
  <2> QED
    BY <2>3, <2>5, <2>6, StepFacts DEF RunInv
<1> QED
  BY <1>1, <1>2 DEF Steps, IInv, NeverFaults, AnswerIsBool

\* To the RET, with the answer no.
LEMMA FailIInv ==
  ASSUME Steps, seg' = Done, ip' = 1, ret' = ret, seg # 1
  PROVE  IInv'
<1>1. ret = {}
  BY DEF Steps, IInv, RunInv
<1>2. TypeOK'
  <2>1. seg' \in 1..(Len(Pieces) + 1) /\ ~(seg' <= Len(Pieces))
    BY StepFacts
  <2> QED
    BY <2>1, StepFacts DEF TypeOK, Steps, IInv
<1>3. RunInv'
  BY <1>1, StepFacts DEF RunInv
<1> QED
  BY <1>2, <1>3 DEF Steps, IInv, NeverFaults, AnswerIsBool

-----------------------------------------------------------------------------
(***************************************************************************)
(* What the instructions do.                                               *)
(***************************************************************************)

\* The instruction the probe stands at is the one that runs.
LEMMA WhichInstruction ==
  ASSUME Instruction
  PROVE  /\ mode = "probe" /\ seg # Done
         /\ Current.op = "MOVB" => MOVB
         /\ Current.op = "MOVL" => MOVL
         /\ Current.op = "XORL" => XORL
         /\ Current.op = "CPUID" => CPUID
         /\ Current.op = "ANDL" => ANDL
         /\ Current.op = "TESTL" => TESTL
         /\ Current.op = "CMPL" => CMPL
         /\ Current.op = "XGETBV" => XGETBV
         /\ Current.op \in {"JL", "JNE", "JZ"} => Jump
<1> DEFINE op == Current.op
<1>1. /\ MOVB => op = "MOVB" /\ mode = "probe" /\ seg # Done
      /\ MOVL => op = "MOVL" /\ mode = "probe" /\ seg # Done
      /\ XORL => op = "XORL" /\ mode = "probe" /\ seg # Done
      /\ CPUID => op = "CPUID" /\ mode = "probe" /\ seg # Done
      /\ ANDL => op = "ANDL" /\ mode = "probe" /\ seg # Done
      /\ TESTL => op = "TESTL" /\ mode = "probe" /\ seg # Done
      /\ CMPL => op = "CMPL" /\ mode = "probe" /\ seg # Done
      /\ XGETBV => op = "XGETBV" /\ mode = "probe" /\ seg # Done
      /\ Jump => op \in {"JL", "JNE", "JZ"} /\ mode = "probe" /\ seg # Done
  BY DEF At, MOVB, MOVL, XORL, CPUID, ANDL, TESTL, CMPL, XGETBV, Jump
<1> HIDE DEF op
<1>2. MOVB \/ MOVL \/ XORL \/ CPUID \/ ANDL \/ TESTL \/ CMPL \/ XGETBV \/ Jump
  BY DEF Instruction
<1>3. /\ mode = "probe" /\ seg # Done
      /\ op = "MOVB" => MOVB
      /\ op = "MOVL" => MOVL
      /\ op = "XORL" => XORL
      /\ op = "CPUID" => CPUID
      /\ op = "ANDL" => ANDL
      /\ op = "TESTL" => TESTL
      /\ op = "CMPL" => CMPL
      /\ op = "XGETBV" => XGETBV
      /\ op \in {"JL", "JNE", "JZ"} => Jump
  BY <1>1, <1>2
<1> QED
  BY <1>3 DEF op

LEMMA WordBits == ASSUME NEW v \in Vendors, NEW at \in {0, 4, 8} PROVE word(v, at) \subseteq Bits
BY DEF word, Vendors, Bits

LEMMA RegsType ==
  ASSUME NEW a \in SUBSET Bits, NEW b \in SUBSET Bits, NEW c \in SUBSET Bits, NEW d \in SUBSET Bits
  PROVE  /\ Regs(a, b, c, d) \in [Registers -> SUBSET Bits]
         /\ Regs(a, b, c, d)["AX"] = a /\ Regs(a, b, c, d)["BX"] = b
         /\ Regs(a, b, c, d)["CX"] = c
BY DEF Regs, Registers

LEMMA CpuidType ==
  ASSUME cpu \in Machines, NEW leaf, NEW sub
  PROVE  Cpuid(leaf, sub) \in [Registers -> SUBSET Bits]
<1>1. /\ cpu.maxLeaf \subseteq Bits /\ cpu.other \subseteq Bits /\ cpu.one \subseteq Bits
      /\ cpu.seven \subseteq Bits /\ cpu.vendor \in Vendors
  BY DEF Machines
<1>2. /\ word(cpu.vendor, 0) \subseteq Bits /\ word(cpu.vendor, 4) \subseteq Bits
      /\ word(cpu.vendor, 8) \subseteq Bits
  BY <1>1, WordBits
<1> QED
  BY <1>1, <1>2, RegsType DEF Cpuid

-----------------------------------------------------------------------------
(***************************************************************************)
(* What each instruction does to the registers and flags.                  *)
(***************************************************************************)
LEMMA Typed ==
  ASSUME IInv
  PROVE  /\ TypeOK /\ cpu \in Machines
         /\ regs \in [Registers -> SUBSET Bits] /\ less \in BOOLEAN /\ zero \in BOOLEAN
         /\ cpu.maxLeaf \subseteq Bits /\ cpu.one \subseteq Bits /\ cpu.seven \subseteq Bits
         /\ xcr0 \subseteq Bits /\ One \subseteq Bits /\ Seven \subseteq Bits
<1>1. TypeOK
  BY DEF IInv
<1>2. cpu \in Machines
  BY <1>1, MachinesAssumption DEF TypeOK
<1>3. /\ regs \in [Registers -> SUBSET Bits] /\ less \in BOOLEAN /\ zero \in BOOLEAN
      /\ xcr0 \subseteq Bits
  BY <1>1 DEF TypeOK
<1>4. cpu.maxLeaf \subseteq Bits /\ cpu.one \subseteq Bits /\ cpu.seven \subseteq Bits
  BY <1>2 DEF Machines
<1>5. One \subseteq Bits /\ Seven \subseteq Bits
  BY DEF One, Seven, Bits
<1> QED
  BY <1>1, <1>2, <1>3, <1>4, <1>5

LEMMA XorlStep ==
  ASSUME IInv, Instruction, NEW r \in Registers, NEW m, Is(Current, "XORL", r, m)
  PROVE  Steps /\ Advance /\ ret' = ret /\ regs' = [regs EXCEPT ![r] = {}]
<1>1. XORL /\ mode = "probe" /\ seg # Done
  BY WhichInstruction DEF Is
<1>2. regs' = [regs EXCEPT ![r] = {}] /\ less' = FALSE /\ zero' = TRUE /\ Advance /\ ret' = ret
  BY <1>1 DEF XORL, Is
<1>3. regs' \in [Registers -> SUBSET Bits]
  BY <1>2, Typed
<1> QED
  BY <1>1, <1>2, <1>3 DEF Steps, Advance

LEMMA MovlStep ==
  ASSUME IInv, Instruction, NEW r \in Registers, NEW m \in SUBSET Bits, Is(Current, "MOVL", r, m)
  PROVE  Steps /\ Advance /\ ret' = ret /\ regs' = [regs EXCEPT ![r] = m]
<1>1. MOVL /\ mode = "probe" /\ seg # Done
  BY WhichInstruction DEF Is
<1>2. regs' = [regs EXCEPT ![r] = m] /\ less' = less /\ zero' = zero /\ Advance /\ ret' = ret
  BY <1>1 DEF MOVL, Is
<1>3. regs' \in [Registers -> SUBSET Bits]
  BY <1>2, Typed
<1> QED
  BY <1>1, <1>2, <1>3, Typed DEF Steps, Advance

LEMMA AndlStep ==
  ASSUME IInv, Instruction, NEW r \in Registers, NEW m, Is(Current, "ANDL", r, m)
  PROVE  Steps /\ Advance /\ ret' = ret /\ regs' = [regs EXCEPT ![r] = @ \cap m]
<1>1. ANDL /\ mode = "probe" /\ seg # Done
  BY WhichInstruction DEF Is
<1>2. /\ regs' = [regs EXCEPT ![r] = @ \cap m]
      /\ less' \in BOOLEAN /\ zero' \in BOOLEAN /\ Advance /\ ret' = ret
  BY <1>1 DEF ANDL, Is
<1>3. regs' \in [Registers -> SUBSET Bits]
  BY <1>2, Typed
<1> QED
  BY <1>1, <1>2, <1>3 DEF Steps, Advance

LEMMA TestlStep ==
  ASSUME IInv, Instruction, NEW r \in Registers, NEW m, Is(Current, "TESTL", r, m)
  PROVE  Steps /\ Advance /\ ret' = ret /\ zero' = (regs[r] \cap m = {})
<1>1. TESTL /\ mode = "probe" /\ seg # Done
  BY WhichInstruction DEF Is
<1>2. /\ zero' = (regs[r] \cap m = {}) /\ regs' = regs
      /\ less' \in BOOLEAN /\ zero' \in BOOLEAN /\ Advance /\ ret' = ret
  BY <1>1 DEF TESTL, Is
<1> QED
  BY <1>1, <1>2, Typed DEF Steps, Advance

LEMMA CmplStep ==
  ASSUME IInv, Instruction, NEW r \in Registers, NEW m, Is(Current, "CMPL", r, m)
  PROVE  /\ Steps /\ Advance /\ ret' = ret
         /\ less' = Less(regs[r], m) /\ zero' = (regs[r] = m)
<1>1. CMPL /\ mode = "probe" /\ seg # Done
  BY WhichInstruction DEF Is
<1>2. /\ zero' = (regs[r] = m) /\ less' = Less(regs[r], m) /\ regs' = regs
      /\ less' \in BOOLEAN /\ zero' \in BOOLEAN /\ Advance /\ ret' = ret
  <2>1. Less(regs[r], m) \in BOOLEAN
    BY DEF Less, Below
  <2> QED
    BY <1>1, <2>1 DEF CMPL, Is
<1> QED
  BY <1>1, <1>2, Typed DEF Steps, Advance

LEMMA CpuidStep ==
  ASSUME IInv, Instruction, NEW r, NEW m, Is(Current, "CPUID", r, m)
  PROVE  Steps /\ Advance /\ ret' = ret /\ regs' = Cpuid(regs["AX"], regs["CX"])
<1>1. CPUID /\ mode = "probe" /\ seg # Done
  BY WhichInstruction DEF Is
<1>2. /\ regs' = Cpuid(regs["AX"], regs["CX"]) /\ less' = less /\ zero' = zero
      /\ Advance /\ ret' = ret
  BY <1>1 DEF CPUID
<1>3. regs' \in [Registers -> SUBSET Bits]
  BY <1>2, Typed, CpuidType
<1> QED
  BY <1>1, <1>2, <1>3, Typed DEF Steps, Advance

\* Where XGETBV is legal.
LEMMA XgetbvStep ==
  ASSUME IInv, Instruction, NEW r, NEW m, Is(Current, "XGETBV", r, m),
         27 \in cpu.one, regs["CX"] = {}
  PROVE  Steps /\ Advance /\ ret' = ret /\ regs'["AX"] = xcr0
<1>1. XGETBV /\ mode = "probe" /\ seg # Done
  BY WhichInstruction DEF Is
<1>2. /\ regs' = Regs(xcr0, regs["BX"], regs["CX"], {}) /\ less' = less /\ zero' = zero
      /\ Advance /\ ret' = ret
  BY <1>1 DEF XGETBV
<1>3. regs["BX"] \subseteq Bits /\ regs["CX"] \subseteq Bits
  BY Typed DEF Registers
<1>4. regs' \in [Registers -> SUBSET Bits] /\ regs'["AX"] = xcr0
  <2> DEFINE b == regs["BX"]
             c == regs["CX"]
  <2>1. xcr0 \in SUBSET Bits /\ b \in SUBSET Bits /\ c \in SUBSET Bits /\ {} \in SUBSET Bits
    BY <1>3, Typed
  <2>2. regs' = Regs(xcr0, b, c, {})
    BY <1>2
  <2> HIDE DEF b, c
  <2> QED
    BY <2>1, <2>2, RegsType
<1> QED
  BY <1>1, <1>2, <1>4, Typed DEF Steps, Advance

LEMMA MovbStep ==
  ASSUME IInv, Instruction, NEW r, NEW m, Is(Current, "MOVB", r, m)
  PROVE  Steps /\ Advance /\ ret' = m
<1>1. MOVB /\ mode = "probe" /\ seg # Done
  BY WhichInstruction DEF Is
<1> QED
  BY <1>1, Typed DEF MOVB, Is, Steps, Advance

LEMMA JumpStep ==
  ASSUME IInv, Instruction, NEW r, NEW m, NEW op \in {"JL", "JNE", "JZ"}, Is(Current, op, r, m)
  PROVE  /\ Steps /\ ret' = ret
         /\ \/ Taken /\ seg' = Done /\ ip' = 1
            \/ ~Taken /\ Advance
<1>1. Jump /\ mode = "probe" /\ seg # Done
  BY WhichInstruction DEF Is
<1>2. /\ UNCHANGED <<regs, less, zero, ret>>
      /\ UNCHANGED <<asks, cpu, mode, xcr0, able>>
      /\ \/ Taken /\ seg' = Done /\ ip' = 1
         \/ ~Taken /\ Advance
  BY <1>1 DEF Jump, Advance
<1> QED
  BY <1>1, <1>2, Typed DEF Steps

LEMMA CpuidLeaf0 == ASSUME cpu \in Machines, NEW sub PROVE Cpuid({}, sub)["AX"] = cpu.maxLeaf
BY DEF Cpuid, Regs, Registers

LEMMA CpuidLeaf1 == ASSUME cpu \in Machines, NEW sub PROVE Cpuid(One, sub)["CX"] = cpu.one
<1>1. One # {}
  BY DEF One
<1> QED
  BY <1>1 DEF Cpuid, Regs, Registers

LEMMA CpuidLeaf7 ==
  ASSUME cpu \in Machines, ~Below(cpu.maxLeaf, Seven)
  PROVE  Cpuid(Seven, {})["BX"] = cpu.seven
<1>1. Seven # {} /\ Seven # One
  BY DEF One, Seven
<1> QED
  BY <1>1 DEF Cpuid, Regs, Registers

-----------------------------------------------------------------------------
(***************************************************************************)
(* The checks, instruction by instruction.                                 *)
(***************************************************************************)
LEMMA Standing ==
  ASSUME IInv, Instruction
  PROVE  /\ mode = "probe" /\ seg # Done
         /\ WellFormed(Pieces) /\ seg \in 1..Len(Pieces) /\ Len(Pieces) \in 3..6
         /\ ip \in 1..Len(Code(Pieces[seg]))
         /\ WellPlaced(Pieces, seg) /\ Pieces[seg].kind \in Kinds
         /\ IsFeature => Within(Pieces[seg], ip)
         /\ IsFeature => \A s \in 1..Len(Pieces) : s < seg => Established(Pieces[s])
<1>1. mode = "probe" /\ seg # Done
  BY WhichInstruction
<1>2. TypeOK /\ RunInv
  BY <1>1 DEF IInv
<1>3. Emittable /\ seg \in 1..(Len(Pieces) + 1)
  BY <1>1, <1>2 DEF TypeOK
<1>4. WellFormed(Pieces)
  BY <1>3, PiecesWellFormed
<1>5. Len(Pieces) \in 3..6 /\ seg \in 1..Len(Pieces)
  BY <1>1, <1>3, <1>4 DEF WellFormed, Done
<1>6. ip \in 1..Len(Code(Pieces[seg]))
  BY <1>1, <1>2, <1>5 DEF TypeOK
<1>7. WellPlaced(Pieces, seg) /\ Pieces[seg].kind \in Kinds
  BY <1>4, <1>5 DEF WellFormed, WellPlaced
<1> QED
  BY <1>1, <1>2, <1>4, <1>5, <1>6, <1>7 DEF RunInv

LEMMA Inside ==
  ASSUME Advance, NEW n \in 1..8, Len(Code(Pieces[seg])) = n, NEW j \in 1..8, ip = j, j < n
  PROVE  seg' = seg /\ ip' = j + 1 /\ ip' = ip + 1 /\ ip < Len(Code(Pieces[seg]))
BY DEF Advance

LEMMA Across ==
  ASSUME Advance, NEW n \in 1..8, Len(Code(Pieces[seg])) = n, ip = n
  PROVE  seg' = seg + 1 /\ ip' = 1
BY DEF Advance

LEMMA MaxLeafIInv ==
  ASSUME IInv, Instruction, Pieces[seg].kind = "maxLeaf"
  PROVE  IInv'
<1> DEFINE p == Pieces[seg]
<1>1. Len(Code(p)) = 4 /\ ip \in 1..4 /\ seg # 1 /\ seg # Done
  BY MaxLeafListing, Standing DEF WellPlaced
<1>2. p.mask \subseteq Bits /\ p.kind = "maxLeaf"
  BY Standing DEF WellPlaced
<1>3. IsFeature => Within(p, ip)
  BY Standing
<1>4. p.mask = Seven
  BY Standing DEF WellPlaced
<1>5. CASE ip = 1
  <2>1. Is(Current, "XORL", "AX", {})
    BY MaxLeafListing, <1>5 DEF Current
  <2>2. /\ Steps /\ Advance /\ ret' = ret
       /\ regs' = [regs EXCEPT !["AX"] = {}]
    BY <2>1, XorlStep DEF Registers
  <2>3. seg' = seg /\ ip' = 2 /\ ip' = ip + 1 /\ ip < Len(Code(p))
    BY <1>1, <1>5, <2>2, Inside
  <2>5. IsFeature => regs'["AX"] = {}
    BY <2>2, Typed DEF Registers
  <2>6. IsFeature => Within(p, ip)'
    BY <1>2, <2>2, <2>3, <2>5, StepFacts DEF Within, Steps
  <2> QED
    BY <2>2, <2>3, <2>6, StayIInv
<1>6. CASE ip = 2
  <2>1. Is(Current, "CPUID", "none", {})
    BY MaxLeafListing, <1>6 DEF Current
  <2>2. /\ Steps /\ Advance /\ ret' = ret
       /\ regs' = Cpuid(regs["AX"], regs["CX"])
    BY <2>1, CpuidStep
  <2>3. seg' = seg /\ ip' = 3 /\ ip' = ip + 1 /\ ip < Len(Code(p))
    BY <1>1, <1>6, <2>2, Inside
  <2>4. IsFeature => regs["AX"] = {}
    BY <1>2, <1>3, <1>6 DEF Within
  <2>5. IsFeature => regs'["AX"] = cpu.maxLeaf
    BY <2>4, <2>2, Typed, CpuidLeaf0
  <2>6. IsFeature => Within(p, ip)'
    BY <1>2, <2>2, <2>3, <2>5, StepFacts DEF Within, Steps
  <2> QED
    BY <2>2, <2>3, <2>6, StayIInv
<1>7. CASE ip = 3
  <2>1. Is(Current, "CMPL", "AX", p.mask)
    BY MaxLeafListing, <1>7 DEF Current
  <2>2. /\ Steps /\ Advance /\ ret' = ret
       /\ less' = Less(regs["AX"], p.mask) /\ zero' = (regs["AX"] = p.mask)
    BY <2>1, CmplStep DEF Registers
  <2>3. seg' = seg /\ ip' = 4 /\ ip' = ip + 1 /\ ip < Len(Code(p))
    BY <1>1, <1>7, <2>2, Inside
  <2>4. IsFeature => regs["AX"] = cpu.maxLeaf
    BY <1>2, <1>3, <1>7 DEF Within
  <2>5. IsFeature => less' = Less(cpu.maxLeaf, Seven)
    BY <2>4, <2>2, Typed, <1>4
  <2>6. IsFeature => Within(p, ip)'
    BY <1>2, <2>2, <2>3, <2>5, StepFacts DEF Within, Steps
  <2> QED
    BY <2>2, <2>3, <2>6, StayIInv
<1>8. CASE ip = 4
  <2>1. Is(Current, "JL", "none", {})
    BY MaxLeafListing, <1>8 DEF Current
  <2>2. Steps /\ ret' = ret /\ ((Taken /\ seg' = Done /\ ip' = 1) \/ (~Taken /\ Advance))
    BY <2>1, JumpStep
  <2>3. CASE Taken /\ seg' = Done /\ ip' = 1
    BY <1>1, <2>2, <2>3, FailIInv
  <2>4. CASE ~Taken /\ Advance
    <3>1. seg' = seg + 1 /\ ip' = 1
      BY <1>1, <1>8, <2>4, Across
    <3>2. ret = {}
      BY <1>1, <2>2 DEF Steps, IInv, RunInv
    <3>3. ~less
      BY <2>1, <2>4 DEF Taken, Is
    <3>4. IsFeature => less = Less(cpu.maxLeaf, Seven)
      BY <1>2, <1>3, <1>8 DEF Within
    <3>5. IsFeature => Established(p)
      BY <1>2, <3>3, <3>4 DEF Established
    <3> QED
      BY <2>2, <3>1, <3>2, <3>5, PassIInv
  <2> QED
    BY <2>2, <2>3, <2>4
<1> QED
  BY <1>1, <1>5, <1>6, <1>7, <1>8

LEMMA Leaf1AllIInv ==
  ASSUME IInv, Instruction, Pieces[seg].kind = "leaf1All"
  PROVE  IInv'
<1> DEFINE p == Pieces[seg]
<1>1. Len(Code(p)) = 5 /\ ip \in 1..5 /\ seg # 1 /\ seg # Done
  BY Leaf1AllListing, Standing DEF WellPlaced
<1>2. p.mask \subseteq Bits /\ p.kind = "leaf1All"
  BY Standing DEF WellPlaced
<1>3. IsFeature => Within(p, ip)
  BY Standing
<1>4. CASE ip = 1
  <2>1. Is(Current, "MOVL", "AX", One)
    BY Leaf1AllListing, <1>4 DEF Current
  <2>2. /\ Steps /\ Advance /\ ret' = ret
       /\ regs' = [regs EXCEPT !["AX"] = One]
    BY <2>1, MovlStep, Typed DEF Registers
  <2>3. seg' = seg /\ ip' = 2 /\ ip' = ip + 1 /\ ip < Len(Code(p))
    BY <1>1, <1>4, <2>2, Inside
  <2>5. IsFeature => regs'["AX"] = One
    BY <2>2, Typed DEF Registers
  <2>6. IsFeature => Within(p, ip)'
    BY <1>2, <2>2, <2>3, <2>5, StepFacts DEF Within, Steps
  <2> QED
    BY <2>2, <2>3, <2>6, StayIInv
<1>5. CASE ip = 2
  <2>1. Is(Current, "CPUID", "none", {})
    BY Leaf1AllListing, <1>5 DEF Current
  <2>2. /\ Steps /\ Advance /\ ret' = ret
       /\ regs' = Cpuid(regs["AX"], regs["CX"])
    BY <2>1, CpuidStep
  <2>3. seg' = seg /\ ip' = 3 /\ ip' = ip + 1 /\ ip < Len(Code(p))
    BY <1>1, <1>5, <2>2, Inside
  <2>4. IsFeature => regs["AX"] = One
    BY <1>2, <1>3, <1>5 DEF Within
  <2>5. IsFeature => regs'["CX"] = cpu.one
    BY <2>4, <2>2, Typed, CpuidLeaf1
  <2>6. IsFeature => Within(p, ip)'
    BY <1>2, <2>2, <2>3, <2>5, StepFacts DEF Within, Steps
  <2> QED
    BY <2>2, <2>3, <2>6, StayIInv
<1>6. CASE ip = 3
  <2>1. Is(Current, "ANDL", "CX", p.mask)
    BY Leaf1AllListing, <1>6 DEF Current
  <2>2. /\ Steps /\ Advance /\ ret' = ret
       /\ regs' = [regs EXCEPT !["CX"] = @ \cap p.mask]
    BY <2>1, AndlStep DEF Registers
  <2>3. seg' = seg /\ ip' = 4 /\ ip' = ip + 1 /\ ip < Len(Code(p))
    BY <1>1, <1>6, <2>2, Inside
  <2>4. IsFeature => regs["CX"] = cpu.one
    BY <1>2, <1>3, <1>6 DEF Within
  <2>5. IsFeature => regs'["CX"] = cpu.one \cap p.mask
    BY <2>4, <2>2, Typed DEF Registers
  <2>6. IsFeature => Within(p, ip)'
    BY <1>2, <2>2, <2>3, <2>5, StepFacts DEF Within, Steps
  <2> QED
    BY <2>2, <2>3, <2>6, StayIInv
<1>7. CASE ip = 4
  <2>1. Is(Current, "CMPL", "CX", p.mask)
    BY Leaf1AllListing, <1>7 DEF Current
  <2>2. /\ Steps /\ Advance /\ ret' = ret
       /\ less' = Less(regs["CX"], p.mask) /\ zero' = (regs["CX"] = p.mask)
    BY <2>1, CmplStep DEF Registers
  <2>3. seg' = seg /\ ip' = 5 /\ ip' = ip + 1 /\ ip < Len(Code(p))
    BY <1>1, <1>7, <2>2, Inside
  <2>4. IsFeature => regs["CX"] = cpu.one \cap p.mask
    BY <1>2, <1>3, <1>7 DEF Within
  <2>5. IsFeature => zero' = (cpu.one \cap p.mask = p.mask)
    BY <2>4, <2>2, Typed
  <2>6. IsFeature => Within(p, ip)'
    BY <1>2, <2>2, <2>3, <2>5, StepFacts DEF Within, Steps
  <2> QED
    BY <2>2, <2>3, <2>6, StayIInv
<1>8. CASE ip = 5
  <2>1. Is(Current, "JNE", "none", {})
    BY Leaf1AllListing, <1>8 DEF Current
  <2>2. Steps /\ ret' = ret /\ ((Taken /\ seg' = Done /\ ip' = 1) \/ (~Taken /\ Advance))
    BY <2>1, JumpStep
  <2>3. CASE Taken /\ seg' = Done /\ ip' = 1
    BY <1>1, <2>2, <2>3, FailIInv
  <2>4. CASE ~Taken /\ Advance
    <3>1. seg' = seg + 1 /\ ip' = 1
      BY <1>1, <1>8, <2>4, Across
    <3>2. ret = {}
      BY <1>1, <2>2 DEF Steps, IInv, RunInv
    <3>3. zero
      BY <2>1, <2>4 DEF Taken, Is
    <3>4. IsFeature => zero = (cpu.one \cap p.mask = p.mask)
      BY <1>2, <1>3, <1>8 DEF Within
    <3>5. IsFeature => Established(p)
      BY <1>2, <3>3, <3>4 DEF Established
    <3> QED
      BY <2>2, <3>1, <3>2, <3>5, PassIInv
  <2> QED
    BY <2>2, <2>3, <2>4
<1> QED
  BY <1>1, <1>4, <1>5, <1>6, <1>7, <1>8

LEMMA Leaf1BitIInv ==
  ASSUME IInv, Instruction, Pieces[seg].kind = "leaf1Bit"
  PROVE  IInv'
<1> DEFINE p == Pieces[seg]
<1>1. Len(Code(p)) = 4 /\ ip \in 1..4 /\ seg # 1 /\ seg # Done
  BY Leaf1BitListing, Standing DEF WellPlaced
<1>2. p.mask \subseteq Bits /\ p.kind = "leaf1Bit"
  BY Standing DEF WellPlaced
<1>3. IsFeature => Within(p, ip)
  BY Standing
<1>4. CASE ip = 1
  <2>1. Is(Current, "MOVL", "AX", One)
    BY Leaf1BitListing, <1>4 DEF Current
  <2>2. /\ Steps /\ Advance /\ ret' = ret
       /\ regs' = [regs EXCEPT !["AX"] = One]
    BY <2>1, MovlStep, Typed DEF Registers
  <2>3. seg' = seg /\ ip' = 2 /\ ip' = ip + 1 /\ ip < Len(Code(p))
    BY <1>1, <1>4, <2>2, Inside
  <2>5. IsFeature => regs'["AX"] = One
    BY <2>2, Typed DEF Registers
  <2>6. IsFeature => Within(p, ip)'
    BY <1>2, <2>2, <2>3, <2>5, StepFacts DEF Within, Steps
  <2> QED
    BY <2>2, <2>3, <2>6, StayIInv
<1>5. CASE ip = 2
  <2>1. Is(Current, "CPUID", "none", {})
    BY Leaf1BitListing, <1>5 DEF Current
  <2>2. /\ Steps /\ Advance /\ ret' = ret
       /\ regs' = Cpuid(regs["AX"], regs["CX"])
    BY <2>1, CpuidStep
  <2>3. seg' = seg /\ ip' = 3 /\ ip' = ip + 1 /\ ip < Len(Code(p))
    BY <1>1, <1>5, <2>2, Inside
  <2>4. IsFeature => regs["AX"] = One
    BY <1>2, <1>3, <1>5 DEF Within
  <2>5. IsFeature => regs'["CX"] = cpu.one
    BY <2>4, <2>2, Typed, CpuidLeaf1
  <2>6. IsFeature => Within(p, ip)'
    BY <1>2, <2>2, <2>3, <2>5, StepFacts DEF Within, Steps
  <2> QED
    BY <2>2, <2>3, <2>6, StayIInv
<1>6. CASE ip = 3
  <2>1. Is(Current, "TESTL", "CX", p.mask)
    BY Leaf1BitListing, <1>6 DEF Current
  <2>2. /\ Steps /\ Advance /\ ret' = ret
       /\ zero' = (regs["CX"] \cap p.mask = {})
    BY <2>1, TestlStep DEF Registers
  <2>3. seg' = seg /\ ip' = 4 /\ ip' = ip + 1 /\ ip < Len(Code(p))
    BY <1>1, <1>6, <2>2, Inside
  <2>4. IsFeature => regs["CX"] = cpu.one
    BY <1>2, <1>3, <1>6 DEF Within
  <2>5. IsFeature => zero' = (cpu.one \cap p.mask = {})
    BY <2>4, <2>2, Typed
  <2>6. IsFeature => Within(p, ip)'
    BY <1>2, <2>2, <2>3, <2>5, StepFacts DEF Within, Steps
  <2> QED
    BY <2>2, <2>3, <2>6, StayIInv
<1>7. CASE ip = 4
  <2>1. Is(Current, "JZ", "none", {})
    BY Leaf1BitListing, <1>7 DEF Current
  <2>2. Steps /\ ret' = ret /\ ((Taken /\ seg' = Done /\ ip' = 1) \/ (~Taken /\ Advance))
    BY <2>1, JumpStep
  <2>3. CASE Taken /\ seg' = Done /\ ip' = 1
    BY <1>1, <2>2, <2>3, FailIInv
  <2>4. CASE ~Taken /\ Advance
    <3>1. seg' = seg + 1 /\ ip' = 1
      BY <1>1, <1>7, <2>4, Across
    <3>2. ret = {}
      BY <1>1, <2>2 DEF Steps, IInv, RunInv
    <3>3. ~zero
      BY <2>1, <2>4 DEF Taken, Is
    <3>4. IsFeature => zero = (cpu.one \cap p.mask = {})
      BY <1>2, <1>3, <1>7 DEF Within
    <3>5. IsFeature => Established(p)
      BY <1>2, <3>3, <3>4 DEF Established
    <3> QED
      BY <2>2, <3>1, <3>2, <3>5, PassIInv
  <2> QED
    BY <2>2, <2>3, <2>4
<1> QED
  BY <1>1, <1>4, <1>5, <1>6, <1>7

\* Only feature probes read XCR0: a vendor probe has no such check.
LEMMA XcrOfFeature == ASSUME seg \in 1..Len(Pieces), Pieces[seg].kind = "xcr0" PROVE IsFeature
<1> SUFFICES ASSUME asks.feature = "vendor" PROVE FALSE
  BY DEF IsFeature
<1>1. Pieces = VendorPieces(asks.vendor)
  BY DEF Pieces
<1>2. /\ Len(Pieces) = 3 /\ Pieces[1].kind = "no" /\ Pieces[2].kind = "vendor"
      /\ Pieces[3].kind = "yes"
  BY <1>1 DEF VendorPieces, No, Yes, Piece
<1> QED
  BY <1>2

LEMMA Xcr0IInv ==
  ASSUME IInv, Instruction, Pieces[seg].kind = "xcr0"
  PROVE  IInv'
<1> DEFINE p == Pieces[seg]
<1>1. Len(Code(p)) = 5 /\ ip \in 1..5 /\ seg # 1 /\ seg # Done
  BY Xcr0Listing, Standing DEF WellPlaced
<1>2. p.mask \subseteq Bits /\ p.kind = "xcr0"
  BY Standing DEF WellPlaced
<1>3. IsFeature => Within(p, ip)
  BY Standing
<1>4. IsFeature => 27 \in cpu.one
  <2>1. /\ seg - 1 \in 1..Len(Pieces) /\ seg - 1 < seg
        /\ Pieces[seg - 1].kind = "leaf1All" /\ 27 \in Pieces[seg - 1].mask
    BY <1>2, Standing DEF WellPlaced
  <2>2. IsFeature => Established(Pieces[seg - 1])
    BY <2>1, Standing
  <2> QED
    BY <2>1, <2>2 DEF Established
<1>5. CASE ip = 1
  <2>1. Is(Current, "XORL", "CX", {})
    BY Xcr0Listing, <1>5 DEF Current
  <2>2. /\ Steps /\ Advance /\ ret' = ret
       /\ regs' = [regs EXCEPT !["CX"] = {}]
    BY <2>1, XorlStep DEF Registers
  <2>3. seg' = seg /\ ip' = 2 /\ ip' = ip + 1 /\ ip < Len(Code(p))
    BY <1>1, <1>5, <2>2, Inside
  <2>5. IsFeature => regs'["CX"] = {}
    BY <2>2, Typed DEF Registers
  <2>6. IsFeature => Within(p, ip)'
    BY <1>2, <2>2, <2>3, <2>5, StepFacts DEF Within, Steps
  <2> QED
    BY <2>2, <2>3, <2>6, StayIInv
<1>6. CASE ip = 2
  <2>1. Is(Current, "XGETBV", "none", {})
    BY Xcr0Listing, <1>6 DEF Current
  <2> SUFFICES ASSUME IsFeature PROVE IInv'
    BY XcrOfFeature, Standing
  <2>0. 27 \in cpu.one /\ regs["CX"] = {}
    BY <1>2, <1>3, <1>4, <1>6 DEF Within
  <2>2. Steps /\ Advance /\ ret' = ret /\ regs'["AX"] = xcr0
    BY <2>0, <2>1, XgetbvStep
  <2>3. seg' = seg /\ ip' = 3 /\ ip' = ip + 1 /\ ip < Len(Code(p))
    BY <1>1, <1>6, <2>2, Inside
  <2>5. IsFeature => regs'["AX"] \subseteq xcr0
    BY <2>2, Typed
  <2>6. IsFeature => Within(p, ip)'
    BY <1>2, <2>2, <2>3, <2>5, StepFacts DEF Within, Steps
  <2> QED
    BY <2>2, <2>3, <2>6, StayIInv
<1>7. CASE ip = 3
  <2>1. Is(Current, "ANDL", "AX", p.mask)
    BY Xcr0Listing, <1>7 DEF Current
  <2>2. /\ Steps /\ Advance /\ ret' = ret
       /\ regs' = [regs EXCEPT !["AX"] = @ \cap p.mask]
    BY <2>1, AndlStep DEF Registers
  <2>3. seg' = seg /\ ip' = 4 /\ ip' = ip + 1 /\ ip < Len(Code(p))
    BY <1>1, <1>7, <2>2, Inside
  <2>4. IsFeature => regs["AX"] \subseteq xcr0
    BY <1>2, <1>3, <1>7 DEF Within
  <2>5. IsFeature => regs'["AX"] \subseteq xcr0
    BY <2>4, <2>2, Typed DEF Registers
  <2>6. IsFeature => Within(p, ip)'
    BY <1>2, <2>2, <2>3, <2>5, StepFacts DEF Within, Steps
  <2> QED
    BY <2>2, <2>3, <2>6, StayIInv
<1>8. CASE ip = 4
  <2>1. Is(Current, "CMPL", "AX", p.mask)
    BY Xcr0Listing, <1>8 DEF Current
  <2>2. /\ Steps /\ Advance /\ ret' = ret
       /\ less' = Less(regs["AX"], p.mask) /\ zero' = (regs["AX"] = p.mask)
    BY <2>1, CmplStep DEF Registers
  <2>3. seg' = seg /\ ip' = 5 /\ ip' = ip + 1 /\ ip < Len(Code(p))
    BY <1>1, <1>8, <2>2, Inside
  <2>4. IsFeature => regs["AX"] \subseteq xcr0
    BY <1>2, <1>3, <1>8 DEF Within
  <2>5. IsFeature => (zero' => p.mask \subseteq xcr0)
    BY <2>4, <2>2, Typed
  <2>6. IsFeature => Within(p, ip)'
    BY <1>2, <2>2, <2>3, <2>5, StepFacts DEF Within, Steps
  <2> QED
    BY <2>2, <2>3, <2>6, StayIInv
<1>9. CASE ip = 5
  <2>1. Is(Current, "JNE", "none", {})
    BY Xcr0Listing, <1>9 DEF Current
  <2>2. Steps /\ ret' = ret /\ ((Taken /\ seg' = Done /\ ip' = 1) \/ (~Taken /\ Advance))
    BY <2>1, JumpStep
  <2>3. CASE Taken /\ seg' = Done /\ ip' = 1
    BY <1>1, <2>2, <2>3, FailIInv
  <2>4. CASE ~Taken /\ Advance
    <3>1. seg' = seg + 1 /\ ip' = 1
      BY <1>1, <1>9, <2>4, Across
    <3>2. ret = {}
      BY <1>1, <2>2 DEF Steps, IInv, RunInv
    <3>3. zero
      BY <2>1, <2>4 DEF Taken, Is
    <3>4. IsFeature => (zero => p.mask \subseteq xcr0)
      BY <1>2, <1>3, <1>9 DEF Within
    <3>5. IsFeature => Established(p)
      BY <1>2, <3>3, <3>4 DEF Established
    <3> QED
      BY <2>2, <3>1, <3>2, <3>5, PassIInv
  <2> QED
    BY <2>2, <2>3, <2>4
<1> QED
  BY <1>1, <1>5, <1>6, <1>7, <1>8, <1>9

LEMMA Leaf7BitIInv ==
  ASSUME IInv, Instruction, Pieces[seg].kind = "leaf7Bit"
  PROVE  IInv'
<1> DEFINE p == Pieces[seg]
<1>1. Len(Code(p)) = 5 /\ ip \in 1..5 /\ seg # 1 /\ seg # Done
  BY Leaf7BitListing, Standing DEF WellPlaced
<1>2. p.mask \subseteq Bits /\ p.kind = "leaf7Bit"
  BY Standing DEF WellPlaced
<1>3. IsFeature => Within(p, ip)
  BY Standing
<1>4. IsFeature => ~Below(cpu.maxLeaf, Seven)
  <2>1. 2 \in 1..Len(Pieces) /\ 2 < seg /\ Pieces[2].kind = "maxLeaf"
    BY <1>2, Standing DEF WellPlaced
  <2>2. IsFeature => Established(Pieces[2])
    BY <2>1, Standing
  <2> QED
    BY <2>1, <2>2, NotLess DEF Established
<1>5. CASE ip = 1
  <2>1. Is(Current, "MOVL", "AX", Seven)
    BY Leaf7BitListing, <1>5 DEF Current
  <2>2. /\ Steps /\ Advance /\ ret' = ret
       /\ regs' = [regs EXCEPT !["AX"] = Seven]
    BY <2>1, MovlStep, Typed DEF Registers
  <2>3. seg' = seg /\ ip' = 2 /\ ip' = ip + 1 /\ ip < Len(Code(p))
    BY <1>1, <1>5, <2>2, Inside
  <2>5. IsFeature => regs'["AX"] = Seven
    BY <2>2, Typed DEF Registers
  <2>6. IsFeature => Within(p, ip)'
    BY <1>2, <2>2, <2>3, <2>5, StepFacts DEF Within, Steps
  <2> QED
    BY <2>2, <2>3, <2>6, StayIInv
<1>6. CASE ip = 2
  <2>1. Is(Current, "XORL", "CX", {})
    BY Leaf7BitListing, <1>6 DEF Current
  <2>2. /\ Steps /\ Advance /\ ret' = ret
       /\ regs' = [regs EXCEPT !["CX"] = {}]
    BY <2>1, XorlStep DEF Registers
  <2>3. seg' = seg /\ ip' = 3 /\ ip' = ip + 1 /\ ip < Len(Code(p))
    BY <1>1, <1>6, <2>2, Inside
  <2>4. IsFeature => regs["AX"] = Seven
    BY <1>2, <1>3, <1>6 DEF Within
  <2>5. IsFeature => regs'["AX"] = Seven /\ regs'["CX"] = {}
    BY <2>4, <2>2, Typed DEF Registers
  <2>6. IsFeature => Within(p, ip)'
    BY <1>2, <2>2, <2>3, <2>5, StepFacts DEF Within, Steps
  <2> QED
    BY <2>2, <2>3, <2>6, StayIInv
<1>7. CASE ip = 3
  <2>1. Is(Current, "CPUID", "none", {})
    BY Leaf7BitListing, <1>7 DEF Current
  <2>2. /\ Steps /\ Advance /\ ret' = ret
       /\ regs' = Cpuid(regs["AX"], regs["CX"])
    BY <2>1, CpuidStep
  <2>3. seg' = seg /\ ip' = 4 /\ ip' = ip + 1 /\ ip < Len(Code(p))
    BY <1>1, <1>7, <2>2, Inside
  <2>4. IsFeature => regs["AX"] = Seven /\ regs["CX"] = {}
    BY <1>2, <1>3, <1>7 DEF Within
  <2>5. IsFeature => regs'["BX"] = cpu.seven
    BY <2>4, <2>2, Typed, <1>4, CpuidLeaf7
  <2>6. IsFeature => Within(p, ip)'
    BY <1>2, <2>2, <2>3, <2>5, StepFacts DEF Within, Steps
  <2> QED
    BY <2>2, <2>3, <2>6, StayIInv
<1>8. CASE ip = 4
  <2>1. Is(Current, "TESTL", "BX", p.mask)
    BY Leaf7BitListing, <1>8 DEF Current
  <2>2. /\ Steps /\ Advance /\ ret' = ret
       /\ zero' = (regs["BX"] \cap p.mask = {})
    BY <2>1, TestlStep DEF Registers
  <2>3. seg' = seg /\ ip' = 5 /\ ip' = ip + 1 /\ ip < Len(Code(p))
    BY <1>1, <1>8, <2>2, Inside
  <2>4. IsFeature => regs["BX"] = cpu.seven
    BY <1>2, <1>3, <1>8 DEF Within
  <2>5. IsFeature => zero' = (cpu.seven \cap p.mask = {})
    BY <2>4, <2>2, Typed
  <2>6. IsFeature => Within(p, ip)'
    BY <1>2, <2>2, <2>3, <2>5, StepFacts DEF Within, Steps
  <2> QED
    BY <2>2, <2>3, <2>6, StayIInv
<1>9. CASE ip = 5
  <2>1. Is(Current, "JZ", "none", {})
    BY Leaf7BitListing, <1>9 DEF Current
  <2>2. Steps /\ ret' = ret /\ ((Taken /\ seg' = Done /\ ip' = 1) \/ (~Taken /\ Advance))
    BY <2>1, JumpStep
  <2>3. CASE Taken /\ seg' = Done /\ ip' = 1
    BY <1>1, <2>2, <2>3, FailIInv
  <2>4. CASE ~Taken /\ Advance
    <3>1. seg' = seg + 1 /\ ip' = 1
      BY <1>1, <1>9, <2>4, Across
    <3>2. ret = {}
      BY <1>1, <2>2 DEF Steps, IInv, RunInv
    <3>3. ~zero
      BY <2>1, <2>4 DEF Taken, Is
    <3>4. IsFeature => zero = (cpu.seven \cap p.mask = {})
      BY <1>2, <1>3, <1>9 DEF Within
    <3>5. IsFeature => Established(p)
      BY <1>2, <3>3, <3>4 DEF Established
    <3> QED
      BY <2>2, <3>1, <3>2, <3>5, PassIInv
  <2> QED
    BY <2>2, <2>3, <2>4
<1> QED
  BY <1>1, <1>5, <1>6, <1>7, <1>8, <1>9

LEMMA VendorIInv ==
  ASSUME IInv, Instruction, Pieces[seg].kind = "vendor"
  PROVE  IInv'
<1> DEFINE p == Pieces[seg]
<1>1. Len(Code(p)) = 8 /\ ip \in 1..8 /\ seg # 1 /\ seg # Done
  BY VendorListing, Standing DEF WellPlaced
<1>2. p.mask \subseteq Bits /\ p.kind = "vendor"
  BY Standing DEF WellPlaced
<1>3. IsFeature => Within(p, ip)
  BY Standing
<1>4. CASE ip = 1
  <2>1. Is(Current, "XORL", "AX", {})
    BY VendorListing, <1>4 DEF Current
  <2>2. /\ Steps /\ Advance /\ ret' = ret
       /\ regs' = [regs EXCEPT !["AX"] = {}]
    BY <2>1, XorlStep DEF Registers
  <2>3. seg' = seg /\ ip' = 2 /\ ip' = ip + 1 /\ ip < Len(Code(p))
    BY <1>1, <1>4, <2>2, Inside
  <2>6. Within(p, ip)'
    BY <1>2, <2>2, <2>3, StepFacts DEF Within
  <2> QED
    BY <2>2, <2>3, <2>6, StayIInv
<1>5. CASE ip = 2
  <2>1. Is(Current, "CPUID", "none", {})
    BY VendorListing, <1>5 DEF Current
  <2>2. /\ Steps /\ Advance /\ ret' = ret
       /\ regs' = Cpuid(regs["AX"], regs["CX"])
    BY <2>1, CpuidStep
  <2>3. seg' = seg /\ ip' = 3 /\ ip' = ip + 1 /\ ip < Len(Code(p))
    BY <1>1, <1>5, <2>2, Inside
  <2>6. Within(p, ip)'
    BY <1>2, <2>2, <2>3, StepFacts DEF Within
  <2> QED
    BY <2>2, <2>3, <2>6, StayIInv
<1>6. CASE ip = 3
  <2>1. Is(Current, "CMPL", "BX", word(p.vendor, 0))
    BY VendorListing, <1>6 DEF Current
  <2>2. /\ Steps /\ Advance /\ ret' = ret
       /\ less' = Less(regs["BX"], word(p.vendor, 0)) /\ zero' = (regs["BX"] = word(p.vendor, 0))
    BY <2>1, CmplStep DEF Registers
  <2>3. seg' = seg /\ ip' = 4 /\ ip' = ip + 1 /\ ip < Len(Code(p))
    BY <1>1, <1>6, <2>2, Inside
  <2>6. Within(p, ip)'
    BY <1>2, <2>2, <2>3, StepFacts DEF Within
  <2> QED
    BY <2>2, <2>3, <2>6, StayIInv
<1>7. CASE ip = 4
  <2>1. Is(Current, "JNE", "none", {})
    BY VendorListing, <1>7 DEF Current
  <2>2. Steps /\ ret' = ret /\ ((Taken /\ seg' = Done /\ ip' = 1) \/ (~Taken /\ Advance))
    BY <2>1, JumpStep
  <2>3. CASE Taken /\ seg' = Done /\ ip' = 1
    BY <1>1, <2>2, <2>3, FailIInv
  <2>4. CASE ~Taken /\ Advance
    <3>1. seg' = seg /\ ip' = ip + 1 /\ ip < Len(Code(p))
      BY <1>1, <1>7, <2>4, Inside
    <3>2. Within(p, ip)'
      BY <1>2, <2>2, <3>1, StepFacts DEF Within
    <3> QED
      BY <2>2, <3>1, <3>2, StayIInv
  <2> QED
    BY <2>2, <2>3, <2>4
<1>8. CASE ip = 5
  <2>1. Is(Current, "CMPL", "DX", word(p.vendor, 4))
    BY VendorListing, <1>8 DEF Current
  <2>2. /\ Steps /\ Advance /\ ret' = ret
       /\ less' = Less(regs["DX"], word(p.vendor, 4)) /\ zero' = (regs["DX"] = word(p.vendor, 4))
    BY <2>1, CmplStep DEF Registers
  <2>3. seg' = seg /\ ip' = 6 /\ ip' = ip + 1 /\ ip < Len(Code(p))
    BY <1>1, <1>8, <2>2, Inside
  <2>6. Within(p, ip)'
    BY <1>2, <2>2, <2>3, StepFacts DEF Within
  <2> QED
    BY <2>2, <2>3, <2>6, StayIInv
<1>9. CASE ip = 6
  <2>1. Is(Current, "JNE", "none", {})
    BY VendorListing, <1>9 DEF Current
  <2>2. Steps /\ ret' = ret /\ ((Taken /\ seg' = Done /\ ip' = 1) \/ (~Taken /\ Advance))
    BY <2>1, JumpStep
  <2>3. CASE Taken /\ seg' = Done /\ ip' = 1
    BY <1>1, <2>2, <2>3, FailIInv
  <2>4. CASE ~Taken /\ Advance
    <3>1. seg' = seg /\ ip' = ip + 1 /\ ip < Len(Code(p))
      BY <1>1, <1>9, <2>4, Inside
    <3>2. Within(p, ip)'
      BY <1>2, <2>2, <3>1, StepFacts DEF Within
    <3> QED
      BY <2>2, <3>1, <3>2, StayIInv
  <2> QED
    BY <2>2, <2>3, <2>4
<1>10. CASE ip = 7
  <2>1. Is(Current, "CMPL", "CX", word(p.vendor, 8))
    BY VendorListing, <1>10 DEF Current
  <2>2. /\ Steps /\ Advance /\ ret' = ret
       /\ less' = Less(regs["CX"], word(p.vendor, 8)) /\ zero' = (regs["CX"] = word(p.vendor, 8))
    BY <2>1, CmplStep DEF Registers
  <2>3. seg' = seg /\ ip' = 8 /\ ip' = ip + 1 /\ ip < Len(Code(p))
    BY <1>1, <1>10, <2>2, Inside
  <2>6. Within(p, ip)'
    BY <1>2, <2>2, <2>3, StepFacts DEF Within
  <2> QED
    BY <2>2, <2>3, <2>6, StayIInv
<1>11. CASE ip = 8
  <2>1. Is(Current, "JNE", "none", {})
    BY VendorListing, <1>11 DEF Current
  <2>2. Steps /\ ret' = ret /\ ((Taken /\ seg' = Done /\ ip' = 1) \/ (~Taken /\ Advance))
    BY <2>1, JumpStep
  <2>3. CASE Taken /\ seg' = Done /\ ip' = 1
    BY <1>1, <2>2, <2>3, FailIInv
  <2>4. CASE ~Taken /\ Advance
    <3>1. seg' = seg + 1 /\ ip' = 1
      BY <1>1, <1>11, <2>4, Across
    <3>2. ret = {}
      BY <1>1, <2>2 DEF Steps, IInv, RunInv
    <3>3. zero
      BY <2>1, <2>4 DEF Taken, Is
    <3>5. IsFeature => Established(p)
      BY <1>2 DEF Established
    <3> QED
      BY <2>2, <3>1, <3>2, <3>5, PassIInv
  <2> QED
    BY <2>2, <2>3, <2>4
<1> QED
  BY <1>1, <1>4, <1>5, <1>6, <1>7, <1>8, <1>9, <1>10, <1>11

LEMMA NoIInv ==
  ASSUME IInv, Instruction, Pieces[seg].kind = "no"
  PROVE  IInv'
<1> DEFINE n == Len(Code(Pieces[seg]))
<1>0. n = 1 /\ ip \in 1..n
  BY NoListing, Standing
<1>1. n = 1 /\ ip = 1
  <2> HIDE DEF n
  <2> QED
    BY <1>0
<1>2. Is(Current, "MOVB", "none", {})
  BY NoListing, <1>1 DEF Current
<1>3. Steps /\ Advance /\ ret' = {}
  BY <1>2, MovbStep
<1>4. seg' = seg + 1 /\ ip' = 1
  BY <1>1, <1>3, Across
<1>6. Established(Pieces[seg])
  BY DEF Established
<1> QED
  BY <1>3, <1>4, <1>6, PassIInv

LEMMA YesIInv ==
  ASSUME IInv, Instruction, Pieces[seg].kind = "yes"
  PROVE  IInv'
<1> DEFINE n == Len(Code(Pieces[seg]))
<1>0. n = 1 /\ ip \in 1..n
  BY YesListing, Standing
<1>1. n = 1 /\ ip = 1
  <2> HIDE DEF n
  <2> QED
    BY <1>0
<1>2. Is(Current, "MOVB", "none", One)
  BY YesListing, <1>1 DEF Current
<1>3. Steps /\ Advance /\ ret' = One
  BY <1>2, MovbStep
<1>4. seg' = seg + 1 /\ ip' = 1
  BY <1>1, <1>3, Across
<1>5. seg + 1 = Done
  BY Standing DEF WellPlaced, Done
<1>6. Established(Pieces[seg])
  BY DEF Established
<1> QED
  BY <1>3, <1>4, <1>5, <1>6, PassIInv

LEMMA InstructionIInv == ASSUME IInv, Instruction PROVE IInv'
BY Standing, MaxLeafIInv, Leaf1AllIInv, Leaf1BitIInv, Xcr0IInv, Leaf7BitIInv, VendorIInv, NoIInv,
   YesIInv DEF Kinds

-----------------------------------------------------------------------------
(***************************************************************************)
(* The other actions, and the theorems.                                    *)
(***************************************************************************)
LEMMA InitIInv == ASSUME Init PROVE IInv
<1>1. asks \in Requests /\ cpu \in CPUs /\ mode = "emit" /\ seg = 1 /\ ip = 1
  BY DEF Init
<1>2. cpu.xcr0 \subseteq Bits
  BY <1>1, MachinesAssumption DEF Machines
<1>3. regs \in [Registers -> SUBSET Bits] /\ ret \subseteq Bits /\ xcr0 \subseteq Bits
  BY <1>2, MachinesAssumption DEF Init
<1>4. less \in BOOLEAN /\ zero \in BOOLEAN /\ able \in BOOLEAN
  BY DEF Init
<1> QED
  BY <1>1, <1>3, <1>4 DEF IInv, TypeOK, NeverFaults, AnswerIsBool

LEMMA EmitPanicsIInv == ASSUME IInv, EmitPanics PROVE IInv'
<1>1. TypeOK'
  BY DEF IInv, TypeOK, EmitPanics
<1> QED
  BY <1>1 DEF IInv, EmitPanics, NeverFaults, AnswerIsBool

LEMMA UsableBoolean == ASSUME NEW f PROVE Usable(f) \in BOOLEAN
<1>1. CASE f = "POPCNT"
  BY <1>1 DEF Usable
<1>2. CASE f = "AVX2"
  BY <1>2 DEF Usable
<1>3. CASE f = "AVX512F"
  BY <1>3 DEF Usable
<1>4. CASE f = "FMA"
  BY <1>4 DEF Usable
<1>5. CASE f \notin {"POPCNT", "AVX2", "AVX512F", "FMA"}
  BY <1>5 DEF Usable
<1> QED
  BY <1>1, <1>2, <1>3, <1>4, <1>5

LEMMA EmitAndCallIInv == ASSUME IInv, EmitAndCall PROVE IInv'
<1>1. /\ Emittable /\ mode' = "probe" /\ seg' = 1 /\ ip' = 1
      /\ Pieces' = Pieces /\ Done' = Done /\ Emittable'
  BY DEF IInv, EmitAndCall, Emittable, Pieces, Done
<1>2. WellFormed(Pieces) /\ Len(Pieces) \in 3..6 /\ Pieces[1].kind \in Kinds
  BY <1>1, PiecesWellFormed DEF WellFormed, WellPlaced
<1>3. 1 \in 1..Len(Code(Pieces[1]))
  <2>1. Len(Code(Pieces[1])) \in 1..8
    BY <1>2, CodeLength
  <2>2. ASSUME NEW n \in 1..8 PROVE 1 \in 1..n
    OBVIOUS
  <2> QED
    BY <2>1, <2>2
<1>4. able' \in BOOLEAN
  BY UsableBoolean DEF EmitAndCall
<1>5. TypeOK'
  BY <1>1, <1>2, <1>3, <1>4 DEF IInv, TypeOK, EmitAndCall
<1>6. Within(Pieces[seg], ip)'
  BY <1>1 DEF Within
<1>7. RunInv'
  BY <1>1, <1>2, <1>6 DEF RunInv, Done
<1> QED
  BY <1>1, <1>5, <1>7 DEF IInv, NeverFaults, AnswerIsBool

LEMMA RETIInv == ASSUME IInv, RET PROVE IInv'
<1>1. /\ TypeOK /\ RunInv /\ mode = "probe" /\ mode' = "returned" /\ seg = Done
      /\ Pieces' = Pieces /\ Emittable' = Emittable /\ IsFeature' = IsFeature
      /\ UNCHANGED <<asks, cpu, seg, ip, regs, less, zero, ret, xcr0, able>>
  BY DEF IInv, RET, Pieces, Emittable, IsFeature
<1>2. Emittable
  BY <1>1 DEF TypeOK
<1>3. Len(Pieces) \in 3..6 /\ seg = Len(Pieces) + 1
  BY <1>1, <1>2, PiecesWellFormed DEF WellFormed, Done
<1>4. ret \in {{}, One}
  BY <1>1, <1>3 DEF RunInv
<1>5. ret # {} /\ IsFeature => \A s \in 1..Len(Pieces) : Established(Pieces[s])
  BY <1>1, <1>3 DEF RunInv
<1>6. \A s \in 1..Len(Pieces) : Established(Pieces[s])' = Established(Pieces[s])
  BY <1>1 DEF Established
<1>7. TypeOK'
  BY <1>1 DEF TypeOK
<1> QED
  BY <1>1, <1>2, <1>4, <1>5, <1>6, <1>7 DEF IInv, NeverFaults, AnswerIsBool

LEMMA RunKernelIInv == ASSUME IInv, RunKernel PROVE IInv'
<1>1. /\ TypeOK /\ mode = "returned" /\ ret # {} /\ Emittable /\ ret \in {{}, One}
      /\ IsFeature => \A s \in 1..Len(Pieces) : Established(Pieces[s])
  BY DEF IInv, RunKernel, AnswerIsBool
<1>2. ASSUME IsFeature PROVE Usable(asks.feature)
  <2>1. asks.feature \in Features
    BY <1>1, <1>2 DEF Emittable, IsFeature
  <2> QED
    BY <1>1, <1>2, <2>1, EstablishedUsable
<1>3. ASSUME ~IsFeature PROVE Usable(asks.feature)
  BY <1>3 DEF IsFeature, Usable
<1>4. Usable(asks.feature)
  BY <1>2, <1>3
<1>5. mode' = "ran" /\ UNCHANGED <<asks, cpu, seg, ip, regs, less, zero, ret, xcr0, able>>
  BY <1>4 DEF RunKernel
<1>6. TypeOK'
  BY <1>1, <1>5 DEF TypeOK
<1> QED
  BY <1>1, <1>5, <1>6 DEF IInv, NeverFaults, AnswerIsBool

LEMMA EnableLazilyIInv == ASSUME IInv, EnableLazily PROVE IInv'
<1>1. /\ TypeOK /\ mode \in {"probe", "returned"} /\ xcr0 \subseteq xcr0'
      /\ UNCHANGED <<asks, cpu, mode, seg, ip, regs, less, zero, ret, able>>
      /\ Pieces' = Pieces /\ Done' = Done /\ Emittable' = Emittable /\ IsFeature' = IsFeature
  BY DEF IInv, EnableLazily, Pieces, Done, Emittable, IsFeature
<1>2. xcr0' \subseteq Bits
  <2>1. cpu.lazy \subseteq Bits /\ xcr0 \subseteq Bits
    BY <1>1, MachinesAssumption DEF TypeOK, Machines
  <2> QED
    BY <2>1 DEF EnableLazily
<1>3. TypeOK'
  BY <1>1, <1>2 DEF TypeOK
<1>4. ASSUME NEW s \in 1..Len(Pieces), Established(Pieces[s]) PROVE Established(Pieces[s])'
  BY <1>1, <1>4 DEF Established
<1>5. Within(Pieces[seg], ip) => Within(Pieces[seg], ip)'
  BY <1>1 DEF Within
<1>6. RunInv => RunInv'
  BY <1>1, <1>4, <1>5 DEF RunInv
<1> QED
  BY <1>1, <1>3, <1>4, <1>6 DEF IInv, NeverFaults, AnswerIsBool

LEMMA StutterIInv == ASSUME IInv, UNCHANGED vars PROVE IInv'
<1>1. /\ TypeOK
      /\ UNCHANGED <<asks, cpu, mode, seg, ip, regs, less, zero, ret, xcr0, able>>
      /\ Pieces' = Pieces /\ Done' = Done /\ Emittable' = Emittable /\ IsFeature' = IsFeature
  BY DEF IInv, vars, Pieces, Done, Emittable, IsFeature
<1>2. TypeOK'
  BY <1>1 DEF TypeOK
<1>3. ASSUME NEW s \in 1..Len(Pieces), Established(Pieces[s]) PROVE Established(Pieces[s])'
  BY <1>1, <1>3 DEF Established
<1>4. Within(Pieces[seg], ip) => Within(Pieces[seg], ip)'
  BY <1>1 DEF Within
<1>5. RunInv => RunInv'
  BY <1>1, <1>3, <1>4 DEF RunInv
<1> QED
  BY <1>1, <1>2, <1>3, <1>5 DEF IInv, NeverFaults, AnswerIsBool

\* The invariant holds in every reachable state.
THEOREM Invariance == Spec => []IInv
<1>1. IInv /\ [Next]_vars => IInv'
  BY InstructionIInv, EmitPanicsIInv, EmitAndCallIInv, RETIInv, RunKernelIInv, EnableLazilyIInv,
     StutterIInv DEF Next
<1> QED
  BY <1>1, InitIInv, PTL DEF Spec

\* The probe is always at one of its instructions, with its registers and its
\* result slot holding values of their width.
THEOREM TypeCorrect == Spec => []TypeOK
<1>1. IInv => TypeOK
  BY DEF IInv
<1> QED
  BY <1>1, Invariance, PTL

\* On no processor and under no operating system does the probe or the kernel
\* it lets through execute an instruction that is not there, or use registers
\* that the operating system does not save.
THEOREM Safe == Spec => []NeverFaults
<1>1. IInv => NeverFaults
  BY DEF IInv
<1> QED
  BY <1>1, Invariance, PTL

\* Every way out of the probe leaves a bool in the result slot, whatever the
\* slot held before.
THEOREM AnswersBool == Spec => []AnswerIsBool
<1>1. IInv => AnswerIsBool
  BY DEF IInv
<1> QED
  BY <1>1, Invariance, PTL


-----------------------------------------------------------------------------
(***************************************************************************)
(* What a no means.  The answer is no exactly where a check failed; where  *)
(* a yes is due, every check passes, whatever the OS enables in between.   *)
(***************************************************************************)

\* Of a feature that could be used, the XCR0 read holds every component asked.
Read(p, j) ==
  /\ j = 3 => p.mask \subseteq regs["AX"]
  /\ j = 4 => regs["AX"] = p.mask
  /\ j = 5 => zero

\* The feature could be used when the probe was called, and the highest leaf
\* compares as it should.
Due == able /\ ~DeniedBySign

DenialInv ==
  /\ mode \in {"probe", "returned"} /\ IsFeature /\ Due => Usable(asks.feature)
  /\ mode = "probe" /\ IsFeature /\ Due /\ seg # Done =>
       (Pieces[seg].kind = "xcr0" => Read(Pieces[seg], ip))
  /\ mode = "probe" /\ IsFeature /\ Due /\ seg = Done => ret # {}
  /\ mode = "returned" /\ IsFeature /\ Due => ret # {}

\* The words of the processor's vendor that match those asked for.
Same(at) == word(cpu.vendor, at) = word(asks.vendor, at)
SameWords == Same(0) /\ Same(4) /\ Same(8)

\* What the registers and the flag hold at instruction j of the vendor check.
VendorWithin(j) ==
  /\ j = 2 => regs["AX"] = {}
  /\ j \in 3..8 => /\ regs["BX"] = word(cpu.vendor, 0)
                   /\ regs["DX"] = word(cpu.vendor, 4)
                   /\ regs["CX"] = word(cpu.vendor, 8)
  /\ j = 4 => (zero <=> Same(0))
  /\ j \in 5..8 => Same(0)
  /\ j = 6 => (zero <=> Same(4))
  /\ j \in 7..8 => Same(4)
  /\ j = 8 => (zero <=> Same(8))

VendorInv ==
  /\ mode = "probe" /\ ~IsFeature =>
       /\ seg = 2 => VendorWithin(ip)
       /\ seg = 3 => SameWords
       /\ seg = Done => ret = IF SameWords THEN One ELSE {}
  /\ mode = "returned" /\ ~IsFeature => ret = IF SameWords THEN One ELSE {}

-----------------------------------------------------------------------------
(***************************************************************************)
(* Steps, as both arguments need them.                                     *)
(***************************************************************************)

\* The last piece of every function answers yes.
LEMMA LastIsYes == ASSUME Emittable PROVE Pieces[Len(Pieces)].kind = "yes"
<1> DEFINE ps == Pieces
<1> USE DEF Piece, No, Yes
<1>1. CASE asks.feature = "vendor"
  BY <1>1 DEF Pieces, VendorPieces
<1>2. CASE asks.feature = "POPCNT"
  BY <1>2 DEF Pieces, FeaturePieces
<1>3. CASE asks.feature = "AVX2"
  BY <1>3 DEF Pieces, FeaturePieces
<1>4. CASE asks.feature = "AVX512F"
  BY <1>4 DEF Pieces, FeaturePieces
<1>5. CASE asks.feature = "FMA"
  BY <1>5 DEF Pieces, FeaturePieces, FMAPieces
<1> QED
  BY <1>1, <1>2, <1>3, <1>4, <1>5 DEF Emittable, Features

\* A usable feature passes each check of its probe, unless the sign denies it.
LEMMA UsableEstablished ==
  ASSUME asks.feature \in Features, Usable(asks.feature), ~DeniedBySign,
         NEW s \in 1..Len(Pieces)
  PROVE  Established(Pieces[s])
<1> DEFINE ps == Pieces
<1>0. ps = FeaturePieces(asks.feature)
  BY DEF Pieces, Features
<1> USE DEF Piece, No, Yes
<1>1. CASE asks.feature = "POPCNT"
  <2>1. ps = <<No, Piece("leaf1Bit", {23}), Yes>>
    BY <1>1, <1>0 DEF FeaturePieces, FMAPieces
  <2>2. 23 \in cpu.one
    BY <1>1 DEF Usable, Saves, YMMState, ZMMState
  <2>3. s \in 1..3
    BY <2>1
  <2>4. CASE s \in {1, 3}
    <3>1. ps[s].kind \in {"no", "yes"}
      BY <2>1, <2>4
    <3> QED
      BY <3>1 DEF Established
  <2>5. CASE s = 2
    <3>1. ps[s].kind = "leaf1Bit" /\ ps[s].mask = {23}
      BY <2>1, <2>5
    <3> QED
      BY <2>2, <3>1 DEF Established
  <2> QED
    BY <2>3, <2>4, <2>5
<1>2. CASE asks.feature = "AVX2"
  <2>1. ps = <<No, Piece("maxLeaf", Seven), Piece("leaf1All", {27, 28}), Piece("xcr0", YMMState),
               Piece("leaf7Bit", {5}), Yes>>
    BY <1>2, <1>0 DEF FeaturePieces, FMAPieces
  <2>2. /\ ~Less(cpu.maxLeaf, Seven) /\ 5 \in cpu.seven /\ 28 \in cpu.one /\ 27 \in cpu.one
        /\ YMMState \subseteq xcr0
    <3>1. /\ ~Below(cpu.maxLeaf, Seven) /\ 5 \in cpu.seven /\ 28 \in cpu.one /\ 27 \in cpu.one
          /\ YMMState \subseteq xcr0
      BY <1>2 DEF Usable, Saves, YMMState, ZMMState
    <3>2. 31 \notin cpu.maxLeaf
      BY <1>2 DEF DeniedBySign
    <3> QED
      BY <3>1, <3>2, LessIsBelow
  <2>3. s \in 1..6
    BY <2>1
  <2>4. CASE s \in {1, 6}
    <3>1. ps[s].kind \in {"no", "yes"}
      BY <2>1, <2>4
    <3> QED
      BY <3>1 DEF Established
  <2>5. CASE s = 2
    <3>1. ps[s].kind = "maxLeaf" /\ ps[s].mask = Seven
      BY <2>1, <2>5
    <3> QED
      BY <2>2, <3>1 DEF Established
  <2>6. CASE s = 3
    <3>1. ps[s].kind = "leaf1All" /\ ps[s].mask = {27, 28}
      BY <2>1, <2>6
    <3> QED
      BY <2>2, <3>1 DEF Established
  <2>7. CASE s = 4
    <3>1. ps[s].kind = "xcr0" /\ ps[s].mask = YMMState
      BY <2>1, <2>7
    <3> QED
      BY <2>2, <3>1 DEF Established
  <2>8. CASE s = 5
    <3>1. ps[s].kind = "leaf7Bit" /\ ps[s].mask = {5}
      BY <2>1, <2>8
    <3> QED
      BY <2>2, <3>1 DEF Established
  <2> QED
    BY <2>3, <2>4, <2>5, <2>6, <2>7, <2>8
<1>3. CASE asks.feature = "AVX512F"
  <2>1. ps = <<No, Piece("maxLeaf", Seven), Piece("leaf1All", {27, 28}), Piece("xcr0", ZMMState),
               Piece("leaf7Bit", {16}), Yes>>
    BY <1>3, <1>0 DEF FeaturePieces, FMAPieces
  <2>2. /\ ~Less(cpu.maxLeaf, Seven) /\ 16 \in cpu.seven /\ 28 \in cpu.one /\ 27 \in cpu.one
        /\ ZMMState \subseteq xcr0
    <3>1. /\ ~Below(cpu.maxLeaf, Seven) /\ 16 \in cpu.seven /\ 28 \in cpu.one /\ 27 \in cpu.one
          /\ ZMMState \subseteq xcr0
      BY <1>3 DEF Usable, Saves, YMMState, ZMMState
    <3>2. 31 \notin cpu.maxLeaf
      BY <1>3 DEF DeniedBySign
    <3> QED
      BY <3>1, <3>2, LessIsBelow
  <2>3. s \in 1..6
    BY <2>1
  <2>4. CASE s \in {1, 6}
    <3>1. ps[s].kind \in {"no", "yes"}
      BY <2>1, <2>4
    <3> QED
      BY <3>1 DEF Established
  <2>5. CASE s = 2
    <3>1. ps[s].kind = "maxLeaf" /\ ps[s].mask = Seven
      BY <2>1, <2>5
    <3> QED
      BY <2>2, <3>1 DEF Established
  <2>6. CASE s = 3
    <3>1. ps[s].kind = "leaf1All" /\ ps[s].mask = {27, 28}
      BY <2>1, <2>6
    <3> QED
      BY <2>2, <3>1 DEF Established
  <2>7. CASE s = 4
    <3>1. ps[s].kind = "xcr0" /\ ps[s].mask = ZMMState
      BY <2>1, <2>7
    <3> QED
      BY <2>2, <3>1 DEF Established
  <2>8. CASE s = 5
    <3>1. ps[s].kind = "leaf7Bit" /\ ps[s].mask = {16}
      BY <2>1, <2>8
    <3> QED
      BY <2>2, <3>1 DEF Established
  <2> QED
    BY <2>3, <2>4, <2>5, <2>6, <2>7, <2>8
<1>4. CASE asks.feature = "FMA"
  <2>1. ps = <<No, Piece("leaf1All", {12, 27, 28}), Piece("xcr0", YMMState), Yes>>
    BY <1>4, <1>0 DEF FeaturePieces, FMAPieces
  <2>2. 12 \in cpu.one /\ 28 \in cpu.one /\ 27 \in cpu.one /\ YMMState \subseteq xcr0
    BY <1>4 DEF Usable, Saves, YMMState, ZMMState
  <2>3. s \in 1..4
    BY <2>1
  <2>4. CASE s \in {1, 4}
    <3>1. ps[s].kind \in {"no", "yes"}
      BY <2>1, <2>4
    <3> QED
      BY <3>1 DEF Established
  <2>5. CASE s = 2
    <3>1. ps[s].kind = "leaf1All" /\ ps[s].mask = {12, 27, 28}
      BY <2>1, <2>5
    <3> QED
      BY <2>2, <3>1 DEF Established
  <2>6. CASE s = 3
    <3>1. ps[s].kind = "xcr0" /\ ps[s].mask = YMMState
      BY <2>1, <2>6
    <3> QED
      BY <2>2, <3>1 DEF Established
  <2> QED
    BY <2>3, <2>4, <2>5, <2>6
<1> QED
  BY <1>1, <1>2, <1>3, <1>4 DEF Features

\* The vendor check is in no feature's probe.
LEMMA FeatureNotVendor ==
  ASSUME asks.feature \in Features, NEW s \in 1..Len(Pieces)
  PROVE  Pieces[s].kind # "vendor"
<1>0. Pieces = FeaturePieces(asks.feature)
  BY DEF Pieces, Features
<1> USE DEF Piece, No, Yes
<1>1. CASE asks.feature = "POPCNT"
  BY <1>1, <1>0 DEF FeaturePieces
<1>2. CASE asks.feature = "AVX2"
  BY <1>2, <1>0 DEF FeaturePieces
<1>3. CASE asks.feature = "AVX512F"
  BY <1>3, <1>0 DEF FeaturePieces
<1>4. CASE asks.feature = "FMA"
  BY <1>4, <1>0 DEF FeaturePieces, FMAPieces
<1> QED
  BY <1>1, <1>2, <1>3, <1>4 DEF Features

\* An instruction is followed by the next one, or jumps to the RET.
LEMMA InstructionMoves ==
  ASSUME IInv, Instruction
  PROVE  /\ UNCHANGED <<asks, cpu, mode, xcr0, able>>
         /\ Pieces' = Pieces /\ Done' = Done /\ IsFeature' = IsFeature
         /\ \/ Advance
            \/ Jump /\ Taken /\ seg' = Done /\ ip' = 1 /\ UNCHANGED <<regs, less, zero, ret>>
<1>1. IInv'
  BY InstructionIInv
<1>2. mode = "probe" /\ mode' # "fault"
  BY <1>1, WhichInstruction DEF IInv, NeverFaults
<1>3. \/ Advance
      \/ Jump /\ Taken /\ seg' = Done /\ ip' = 1 /\ UNCHANGED <<asks, cpu, mode, xcr0, able>>
                                                 /\ UNCHANGED <<regs, less, zero, ret>>
  <2>1. MOVB \/ MOVL \/ XORL \/ CPUID \/ ANDL \/ TESTL \/ CMPL => Advance
    BY DEF MOVB, MOVL, XORL, CPUID, ANDL, TESTL, CMPL
  <2>2. XGETBV => Advance
    BY <1>2 DEF XGETBV
  <2>3. Jump => \/ Advance
                \/ Jump /\ Taken /\ seg' = Done /\ ip' = 1 /\ UNCHANGED <<asks, cpu, mode, xcr0, able>>
                                                           /\ UNCHANGED <<regs, less, zero, ret>>
    BY DEF Jump
  <2> QED
    BY <2>1, <2>2, <2>3 DEF Instruction
<1>4. UNCHANGED <<asks, cpu, mode, xcr0, able>>
  BY <1>3 DEF Advance
<1> QED
  BY <1>3, <1>4 DEF Pieces, Done, IsFeature

\* Which checks jump, and where.
LEMMA JumpPlaces ==
  ASSUME IInv, Instruction, Jump
  PROVE  LET p == Pieces[seg]
         IN  /\ p.kind \in {"maxLeaf", "leaf1All", "leaf1Bit", "xcr0", "leaf7Bit", "vendor"}
             /\ p.kind = "maxLeaf" => ip = 4 /\ Taken = less
             /\ p.kind = "leaf1All" => ip = 5 /\ Taken = ~zero
             /\ p.kind = "leaf1Bit" => ip = 4 /\ Taken = zero
             /\ p.kind = "xcr0" => ip = 5 /\ Taken = ~zero
             /\ p.kind = "leaf7Bit" => ip = 5 /\ Taken = zero
             /\ p.kind = "vendor" => ip \in {4, 6, 8} /\ Taken = ~zero
<1> DEFINE p == Pieces[seg]
<1>1. p.kind \in Kinds /\ ip \in 1..Len(Code(p))
  BY Standing
<1>2. Current = Code(p)[ip] /\ Current.op \in {"JL", "JNE", "JZ"}
  BY DEF Current, Jump, At
<1> HIDE DEF p
<1>3. p.kind \notin {"no", "yes"}
  <2>1. ASSUME p.kind = "no" PROVE FALSE
    <3>1. Len(Code(p)) = 1 /\ Is(Code(p)[1], "MOVB", "none", {})
      BY <2>1, NoListing
    <3>2. ip = 1
      BY <3>1, <1>1
    <3> QED
      BY <3>1, <3>2, <1>2 DEF Is
  <2>2. ASSUME p.kind = "yes" PROVE FALSE
    <3>1. Len(Code(p)) = 1 /\ Is(Code(p)[1], "MOVB", "none", One)
      BY <2>2, YesListing
    <3>2. ip = 1
      BY <3>1, <1>1
    <3> QED
      BY <3>1, <3>2, <1>2 DEF Is
  <2> QED
    BY <2>1, <2>2
<1>4. ASSUME p.kind = "maxLeaf" PROVE ip = 4 /\ Taken = less
  <2>1. ip \in 1..4
    BY <1>4, <1>1, MaxLeafListing
  <2>2. ip = 4 /\ Current.op = "JL"
    BY <2>1, <1>4, <1>2, MaxLeafListing DEF Is
  <2> QED
    BY <2>2 DEF Taken
<1>5. ASSUME p.kind = "leaf1All" PROVE ip = 5 /\ Taken = ~zero
  <2>1. ip \in 1..5
    BY <1>5, <1>1, Leaf1AllListing
  <2>2. ip = 5 /\ Current.op = "JNE"
    BY <2>1, <1>5, <1>2, Leaf1AllListing DEF Is
  <2> QED
    BY <2>2 DEF Taken
<1>6. ASSUME p.kind = "leaf1Bit" PROVE ip = 4 /\ Taken = zero
  <2>1. ip \in 1..4
    BY <1>6, <1>1, Leaf1BitListing
  <2>2. ip = 4 /\ Current.op = "JZ"
    BY <2>1, <1>6, <1>2, Leaf1BitListing DEF Is
  <2> QED
    BY <2>2 DEF Taken
<1>7. ASSUME p.kind = "xcr0" PROVE ip = 5 /\ Taken = ~zero
  <2>1. ip \in 1..5
    BY <1>7, <1>1, Xcr0Listing
  <2>2. ip = 5 /\ Current.op = "JNE"
    BY <2>1, <1>7, <1>2, Xcr0Listing DEF Is
  <2> QED
    BY <2>2 DEF Taken
<1>8. ASSUME p.kind = "leaf7Bit" PROVE ip = 5 /\ Taken = zero
  <2>1. ip \in 1..5
    BY <1>8, <1>1, Leaf7BitListing
  <2>2. ip = 5 /\ Current.op = "JZ"
    BY <2>1, <1>8, <1>2, Leaf7BitListing DEF Is
  <2> QED
    BY <2>2 DEF Taken
<1>9. ASSUME p.kind = "vendor" PROVE ip \in {4, 6, 8} /\ Taken = ~zero
  <2>1. ip \in 1..8
    BY <1>9, <1>1, VendorListing
  <2>2. ip \in {4, 6, 8} /\ Current.op = "JNE"
    BY <2>1, <1>9, <1>2, VendorListing DEF Is
  <2> QED
    BY <2>2 DEF Taken
<1> QED
  BY <1>1, <1>3, <1>4, <1>5, <1>6, <1>7, <1>8, <1>9 DEF Kinds, p

\* The last instruction before the RET writes yes.
LEMMA LastWritesYes ==
  ASSUME IInv, Instruction, Advance, seg' = Done
  PROVE  seg = Len(Pieces) /\ ret' = One
<1>1. Emittable /\ seg \in 1..Len(Pieces) /\ seg # Done /\ Done = Len(Pieces) + 1
  BY Standing DEF IInv, TypeOK, Done
<1>2. seg' = seg \/ seg' = seg + 1
  BY DEF Advance
<1>3. seg = Len(Pieces)
  BY <1>1, <1>2
<1>4. Pieces[seg].kind = "yes"
  BY <1>1, <1>3, LastIsYes
<1> DEFINE n == Len(Code(Pieces[seg]))
<1>5. n = 1 /\ ip \in 1..n
  BY <1>4, YesListing, Standing
<1>6. ip = 1
  <2> HIDE DEF n
  <2> QED
    BY <1>5
<1>7. Is(Current, "MOVB", "none", One)
  BY <1>4, <1>6, YesListing DEF Current
<1> QED
  BY <1>3, <1>7, MovbStep

-----------------------------------------------------------------------------
(***************************************************************************)
(* No step of the probe makes a usable feature fail a check.               *)
(***************************************************************************)
LEMMA UsableKept ==
  ASSUME UNCHANGED <<asks, cpu, able>>, xcr0 \subseteq xcr0', Usable(asks.feature)
  PROVE  Usable(asks.feature)'
<1> DEFINE f == asks.feature
<1>1. asks' = asks /\ cpu' = cpu
  OBVIOUS
<1>2. CASE f = "POPCNT"
  BY <1>1, <1>2 DEF Usable
<1>3. CASE f = "AVX2"
  BY <1>1, <1>3 DEF Usable, Saves, Below
<1>4. CASE f = "AVX512F"
  BY <1>1, <1>4 DEF Usable, Saves, Below
<1>5. CASE f = "FMA"
  BY <1>1, <1>5 DEF Usable, Saves
<1>6. CASE f \notin {"POPCNT", "AVX2", "AVX512F", "FMA"}
  BY <1>1, <1>6 DEF Usable
<1> QED
  BY <1>2, <1>3, <1>4, <1>5, <1>6

LEMMA InstructionDenial == ASSUME IInv, DenialInv, Instruction PROVE DenialInv'
<1> DEFINE p == Pieces[seg]
<1>1. /\ UNCHANGED <<asks, cpu, mode, xcr0, able>> /\ mode = "probe" /\ seg # Done
      /\ Pieces' = Pieces /\ Done' = Done /\ IsFeature' = IsFeature
      /\ p.kind \in Kinds /\ ip \in 1..Len(Code(p)) /\ seg \in 1..Len(Pieces)
  BY InstructionMoves, Standing
<1>0. Due' = Due
  BY <1>1 DEF Due, DeniedBySign
<1> SUFFICES ASSUME IsFeature, Due PROVE DenialInv'
  BY <1>0, <1>1 DEF DenialInv
<1>2. asks.feature \in Features
  BY <1>1 DEF IsFeature, IInv, TypeOK, Emittable
<1>3. Usable(asks.feature) /\ Established(p) /\ ~DeniedBySign
  BY <1>1, <1>2, UsableEstablished DEF DenialInv, Due
<1>4. Usable(asks.feature)'
  BY <1>1, <1>3, UsableKept
<1>5. p.kind = "xcr0" => Read(p, ip)
  BY <1>1 DEF DenialInv
<1>6. Within(p, ip)
  BY Standing
<1>7. CASE Jump /\ Taken
  <2>1. /\ p.kind \in {"maxLeaf", "leaf1All", "leaf1Bit", "xcr0", "leaf7Bit", "vendor"}
        /\ p.kind = "maxLeaf" => ip = 4 /\ less
        /\ p.kind = "leaf1All" => ip = 5 /\ ~zero
        /\ p.kind = "leaf1Bit" => ip = 4 /\ zero
        /\ p.kind = "xcr0" => ip = 5 /\ ~zero
        /\ p.kind = "leaf7Bit" => ip = 5 /\ zero
    BY <1>7, JumpPlaces
  <2>2. p.kind # "vendor"
    BY <1>1, <1>2, FeatureNotVendor
  <2>3. p.kind # "maxLeaf"
    BY <2>1, <1>3, <1>6 DEF Within, Established
  <2>4. p.kind # "leaf1All"
    BY <2>1, <1>3, <1>6 DEF Within, Established
  <2>5. p.kind # "leaf1Bit"
    BY <2>1, <1>3, <1>6 DEF Within, Established
  <2>6. p.kind # "leaf7Bit"
    BY <2>1, <1>3, <1>6 DEF Within, Established
  <2>7. p.kind # "xcr0"
    BY <2>1, <1>5 DEF Read
  <2> QED
    BY <2>1, <2>2, <2>3, <2>4, <2>5, <2>6, <2>7
<1>8. CASE Advance
  <2>1. seg' = Done => ret' # {}
    BY <1>8, LastWritesYes DEF One
  <2>2. seg' # Done => (Pieces[seg].kind = "xcr0" => Read(Pieces[seg], ip))'
    <3>1. CASE seg' = seg /\ ip' = ip + 1 /\ p.kind = "xcr0"
      <4>1. ip \in 1..5
        BY <3>1, <1>1, Xcr0Listing
      <4>2. p.mask \subseteq xcr0 /\ p.mask \subseteq Bits
        BY <1>3, <3>1, Standing DEF Established, WellPlaced
      <4>3. CASE ip = 2
        <5>1. Is(Current, "XGETBV", "none", {})
          BY <3>1, <4>3, Xcr0Listing DEF Current
        <5>2. regs["CX"] = {} /\ 27 \in cpu.one
          <6>1. regs["CX"] = {}
            BY <3>1, <4>3, <1>6 DEF Within
          <6>2. 27 \in cpu.one
            <7>1. /\ seg - 1 \in 1..Len(Pieces) /\ Pieces[seg - 1].kind = "leaf1All"
                  /\ 27 \in Pieces[seg - 1].mask
              BY <3>1, Standing DEF WellPlaced
            <7>2. Established(Pieces[seg - 1])
              BY <7>1, <1>1, <1>2, <1>3, UsableEstablished
            <7> QED
              BY <7>1, <7>2 DEF Established
          <6> QED
            BY <6>1, <6>2
        <5>3. regs'["AX"] = xcr0
          BY <5>1, <5>2, XgetbvStep
        <5>4. ip' = 3
          BY <3>1, <4>3
        <5> QED
          BY <5>3, <5>4, <4>2, <3>1, <1>1 DEF Read
      <4>4. CASE ip = 3
        <5>1. Is(Current, "ANDL", "AX", p.mask)
          BY <3>1, <4>4, Xcr0Listing DEF Current
        <5>2. regs' = [regs EXCEPT !["AX"] = @ \cap p.mask]
          BY <5>1, AndlStep DEF Registers
        <5>3. p.mask \subseteq regs["AX"]
          BY <4>4, <1>5, <3>1 DEF Read
        <5>4. regs'["AX"] = p.mask
          BY <5>2, <5>3, Typed DEF Registers
        <5>5. ip' = 4
          BY <3>1, <4>4
        <5> QED
          BY <5>4, <5>5, <3>1, <1>1 DEF Read
      <4>5. CASE ip = 4
        <5>1. Is(Current, "CMPL", "AX", p.mask)
          BY <3>1, <4>5, Xcr0Listing DEF Current
        <5>2. zero' = (regs["AX"] = p.mask)
          BY <5>1, CmplStep DEF Registers
        <5>3. regs["AX"] = p.mask
          BY <4>5, <1>5, <3>1 DEF Read
        <5>4. zero'
          BY <5>2, <5>3
        <5>5. ip' = 5
          BY <3>1, <4>5
        <5> QED
          BY <5>4, <5>5, <3>1, <1>1 DEF Read
      <4>6. CASE ip \in {1, 5}
        <5>1. ip' \in {2, 6}
          BY <3>1, <4>6
        <5> QED
          BY <5>1 DEF Read
      <4> QED
        BY <4>1, <4>3, <4>4, <4>5, <4>6
    <3>2. CASE seg' = seg /\ p.kind # "xcr0"
      BY <3>2, <1>1
    <3>3. CASE ip' = 1
      BY <3>3 DEF Read
    <3> QED
      BY <1>8, <3>1, <3>2, <3>3 DEF Advance
  <2> QED
    BY <1>1, <1>4, <2>1, <2>2 DEF DenialInv
<1> QED
  BY <1>7, <1>8, InstructionMoves

LEMMA EmitAndCallDenial == ASSUME IInv, EmitAndCall PROVE DenialInv'
<1>1. /\ Emittable /\ mode' = "probe" /\ seg' = 1 /\ ip' = 1
      /\ able' = Usable(asks.feature) /\ UNCHANGED <<asks, cpu, xcr0>>
  BY DEF IInv, EmitAndCall
<1>2. Len(Pieces) \in 3..6 /\ Pieces' = Pieces /\ Done' = Len(Pieces) + 1
  BY <1>1, PiecesWellFormed DEF WellFormed, Pieces, Done
<1>3. seg' # Done' /\ Read(Pieces[seg], ip)'
  BY <1>1, <1>2 DEF Read
<1>4. Due' => Usable(asks.feature)'
  <2>1. Usable(asks.feature)' = Usable(asks.feature)
    <3>1. asks' = asks /\ cpu' = cpu /\ xcr0' = xcr0
      BY <1>1
    <3> QED
      BY <3>1 DEF Usable, Saves, Below
  <2> QED
    BY <1>1, <2>1 DEF Due
<1> QED
  BY <1>1, <1>3, <1>4 DEF DenialInv

LEMMA RETDenial == ASSUME IInv, DenialInv, RET PROVE DenialInv'
<1>1. /\ UNCHANGED <<asks, cpu, seg, ip, regs, less, zero, ret, xcr0, able>>
      /\ mode = "probe" /\ mode' = "returned" /\ seg = Done /\ IsFeature' = IsFeature
      /\ Due' = Due
  BY DEF RET, IsFeature, Due, DeniedBySign
<1>2. IsFeature /\ Due => Usable(asks.feature) /\ ret # {}
  BY <1>1 DEF DenialInv
<1>3. IsFeature /\ Due => Usable(asks.feature)'
  BY <1>1, <1>2, UsableKept
<1> QED
  BY <1>1, <1>2, <1>3 DEF DenialInv

LEMMA EnableLazilyDenial == ASSUME IInv, DenialInv, EnableLazily PROVE DenialInv'
<1>1. /\ UNCHANGED <<asks, cpu, mode, seg, ip, regs, less, zero, ret, able>> /\ xcr0 \subseteq xcr0'
      /\ mode \in {"probe", "returned"}
      /\ Pieces' = Pieces /\ Done' = Done /\ IsFeature' = IsFeature /\ Due' = Due
  BY DEF EnableLazily, Pieces, Done, IsFeature, Due, DeniedBySign
<1>2. IsFeature /\ Due => Usable(asks.feature)'
  BY <1>1, UsableKept DEF DenialInv
<1>3. Read(Pieces[seg], ip)' = Read(Pieces[seg], ip)
  BY <1>1 DEF Read
<1>4. Pieces'[seg'].kind = Pieces[seg].kind
  BY <1>1
<1> QED
  BY <1>1, <1>2, <1>3, <1>4 DEF DenialInv

LEMMA StutterDenial == ASSUME DenialInv, UNCHANGED vars PROVE DenialInv'
<1>1. /\ UNCHANGED <<asks, cpu, mode, seg, ip, regs, less, zero, ret, xcr0, able>>
      /\ Pieces' = Pieces /\ Done' = Done /\ IsFeature' = IsFeature /\ Due' = Due
  BY DEF vars, Pieces, Done, IsFeature, Due, DeniedBySign
<1>2. Read(Pieces[seg], ip)' = Read(Pieces[seg], ip) /\ Pieces'[seg'].kind = Pieces[seg].kind
  BY <1>1 DEF Read
<1>3. Usable(asks.feature) => Usable(asks.feature)'
  BY <1>1, UsableKept
<1> QED
  BY <1>1, <1>2, <1>3 DEF DenialInv

\* A yes of an AVX2 or an AVX-512F probe has the sign of the highest leaf clear.
LEMMA SignIsClear ==
  ASSUME IInv, mode = "returned", IsFeature, ret # {} PROVE ~DeniedBySign
<1>1. \A t \in 1..Len(Pieces) : Established(Pieces[t])
  BY DEF IInv
<1>2. ASSUME asks.feature \in {"AVX2", "AVX512F"}
      PROVE  2 \in 1..Len(Pieces) /\ Pieces[2].kind = "maxLeaf"
  <2>1. CASE asks.feature = "AVX2"
    BY <2>1 DEF Pieces, FeaturePieces, Piece, No, Yes
  <2>2. CASE asks.feature = "AVX512F"
    BY <2>2 DEF Pieces, FeaturePieces, Piece, No, Yes
  <2> QED
    BY <1>2, <2>1, <2>2
<1>3. asks.feature \in {"AVX2", "AVX512F"} => ~Less(cpu.maxLeaf, Seven)
  BY <1>1, <1>2 DEF Established
<1> QED
  BY <1>3, NotLess DEF DeniedBySign

\* No machine that could run the feature when the probe was called is told
\* no, not even when the operating system enables state between two checks,
\* but for a highest leaf with bit 31 set: JL finds it below 7, so AVX2 and
\* AVX-512F are denied there, and never granted.
THEOREM NoIsDeserved == Spec => []NoMeansUnusable
<1>1. Init => DenialInv
  BY DEF Init, DenialInv
<1>2. IInv /\ DenialInv /\ [Next]_vars => DenialInv'
  <2>1. ASSUME EmitPanics PROVE DenialInv'
    BY <2>1 DEF EmitPanics, DenialInv
  <2>2. ASSUME RunKernel PROVE DenialInv'
    BY <2>2 DEF RunKernel, DenialInv
  <2> QED
    BY <2>1, <2>2, InstructionDenial, EmitAndCallDenial, RETDenial, EnableLazilyDenial,
       StutterDenial DEF Next
<1>3. IInv /\ DenialInv => NoMeansUnusable
  <2> SUFFICES ASSUME IInv, DenialInv, mode = "returned", IsFeature
               PROVE  /\ ret \in {{}, One}
                      /\ ret = {} => ~able \/ DeniedBySign
                      /\ DeniedBySign => ret = {}
    BY DEF NoMeansUnusable, IsFeature
  <2>1. ret \in {{}, One}
    BY DEF IInv, AnswerIsBool
  <2>2. ret = {} => ~able \/ DeniedBySign
    BY DEF DenialInv, Due
  <2>3. DeniedBySign => ret = {}
    BY SignIsClear
  <2> QED
    BY <2>1, <2>2, <2>3
<1> QED
  BY <1>1, <1>2, <1>3, Invariance, PTL DEF Spec

-----------------------------------------------------------------------------
(***************************************************************************)
(* The vendor check.                                                       *)
(***************************************************************************)

\* A word holds its four characters, bit by bit.
LEMMA WordHolds ==
  ASSUME NEW v \in Vendors, NEW at \in {0, 4, 8}, NEW b \in 0..3, NEW x \in 0..7
  PROVE  8 * b + x \in word(v, at) <=> x \in v[at + b + 1]
<1>1. ASSUME x \in v[at + b + 1] PROVE 8 * b + x \in word(v, at)
  BY <1>1 DEF word
<1>2. ASSUME 8 * b + x \in word(v, at) PROVE x \in v[at + b + 1]
  <2>1. PICK c \in 0..3 : 8 * b + x \in {8 * c + t : t \in v[at + c + 1]}
    BY <1>2 DEF word
  <2>2. PICK t \in v[at + c + 1] : 8 * b + x = 8 * c + t
    BY <2>1
  <2>3. t \in 0..7
    <3>1. at + c + 1 \in 1..12
      OBVIOUS
    <3> QED
      BY <3>1 DEF Vendors
  <2>4. b = c /\ x = t
    BY <2>2, <2>3
  <2> QED
    BY <2>4
<1> QED
  BY <1>1, <1>2

\* Vendor strings are the same when their three words are.
LEMMA VendorsByWord ==
  ASSUME NEW v \in Vendors, NEW w \in Vendors,
         \A at \in {0, 4, 8} : word(v, at) = word(w, at)
  PROVE  v = w
<1>1. ASSUME NEW i \in 1..12 PROVE v[i] = w[i]
  <2>1. PICK at \in {0, 4, 8}, b \in 0..3 : i = at + b + 1
    <3>1. CASE i \in 1..4
      <4>1. i - 1 \in 0..3 /\ i = 0 + (i - 1) + 1
        BY <3>1
      <4> QED
        BY <4>1
    <3>2. CASE i \in 5..8
      <4>1. i - 5 \in 0..3 /\ i = 4 + (i - 5) + 1
        BY <3>2
      <4> QED
        BY <4>1
    <3>3. CASE i \in 9..12
      <4>1. i - 9 \in 0..3 /\ i = 8 + (i - 9) + 1
        BY <3>3
      <4> QED
        BY <4>1
    <3> QED
      BY <3>1, <3>2, <3>3
  <2>2. v[i] \subseteq 0..7 /\ w[i] \subseteq 0..7
    BY DEF Vendors
  <2>3. ASSUME NEW x \in 0..7 PROVE x \in v[i] <=> x \in w[i]
    BY <2>1, WordHolds
  <2> QED
    BY <2>2, <2>3
<1> QED
  BY <1>1 DEF Vendors

LEMMA VendorRun ==
  ASSUME IInv, Emittable, ~IsFeature
  PROVE  /\ Len(Pieces) = 3 /\ Done = 4
         /\ Pieces[1].kind = "no" /\ Pieces[2].kind = "vendor" /\ Pieces[3].kind = "yes"
         /\ Pieces[2].vendor = asks.vendor
         /\ asks.vendor \in Vendors /\ cpu.vendor \in Vendors /\ cpu \in Machines
<1>1. Pieces = VendorPieces(asks.vendor) /\ Len(asks.vendor) = 12
  BY DEF Pieces, IsFeature, Emittable
<1>2. asks.vendor \in Seq(SUBSET (0..7))
  BY MachinesAssumption DEF IInv, TypeOK
<1>3. asks.vendor \in Vendors
  <2>1. ASSUME NEW S, NEW v \in Seq(S), Len(v) = 12 PROVE v \in [1..12 -> S]
    <3>1. v \in [1..Len(v) -> S]
      OBVIOUS
    <3> QED
      BY <2>1, <3>1
  <2> QED
    BY <1>1, <1>2, <2>1 DEF Vendors
<1>4. cpu \in Machines /\ cpu.vendor \in Vendors
  BY Typed DEF Machines
<1>5. /\ Len(Pieces) = 3
      /\ Pieces[1].kind = "no" /\ Pieces[2].kind = "vendor" /\ Pieces[3].kind = "yes"
      /\ Pieces[2].vendor = asks.vendor
  BY <1>1 DEF VendorPieces, No, Yes, Piece
<1> QED
  BY <1>3, <1>4, <1>5 DEF Done

LEMMA CpuidVendor ==
  ASSUME cpu \in Machines, NEW sub
  PROVE  /\ Cpuid({}, sub)["BX"] = word(cpu.vendor, 0)
         /\ Cpuid({}, sub)["DX"] = word(cpu.vendor, 4)
         /\ Cpuid({}, sub)["CX"] = word(cpu.vendor, 8)
BY DEF Cpuid, Regs, Registers

LEMMA VendorStep ==
  ASSUME IInv, VendorInv, Instruction, ~IsFeature, seg = 2, seg' = 2, ip' = ip + 1, Advance
  PROVE  VendorWithin(ip)'
<1>1. /\ Emittable /\ mode = "probe" /\ seg # Done
      /\ UNCHANGED <<asks, cpu, mode, xcr0, able>>
  BY InstructionMoves, Standing DEF IInv, TypeOK
<1> DEFINE p == Pieces[2]
<1>2. p.kind = "vendor" /\ p.vendor = asks.vendor /\ cpu \in Machines
  BY <1>1, VendorRun
<1>3. Len(Code(p)) = 8 /\ ip \in 1..8
  BY <1>2, VendorListing, Standing
<1>4. VendorWithin(ip)
  BY <1>1 DEF VendorInv
<1>5. Current = Code(p)[ip]
  BY DEF Current
<1>6. ip < 8
  BY <1>3 DEF Advance
<1>7. (Same(0))' = Same(0) /\ (Same(4))' = Same(4) /\ (Same(8))' = Same(8)
  BY <1>1 DEF Same, word
<1>8. /\ word(cpu.vendor, 0)' = word(cpu.vendor, 0) /\ word(cpu.vendor, 4)' = word(cpu.vendor, 4)
      /\ word(cpu.vendor, 8)' = word(cpu.vendor, 8)
  BY <1>1 DEF word
<1>9. CASE ip = 1
  <2>1. Is(Current, "XORL", "AX", {})
    BY <1>9, <1>2, <1>5, VendorListing
  <2>2. regs' = [regs EXCEPT !["AX"] = {}]
    BY <2>1, XorlStep DEF Registers
  <2>3. regs'["AX"] = {} /\ ip' = 2
    BY <2>2, <1>9, Typed DEF Registers
  <2> QED
    BY <2>3 DEF VendorWithin
<1>10. CASE ip = 2
  <2>1. Is(Current, "CPUID", "none", {})
    BY <1>10, <1>2, <1>5, VendorListing
  <2>2. regs' = Cpuid(regs["AX"], regs["CX"]) /\ regs["AX"] = {}
    BY <2>1, <1>4, <1>10, CpuidStep DEF VendorWithin
  <2>3. /\ regs'["BX"] = word(cpu.vendor, 0) /\ regs'["DX"] = word(cpu.vendor, 4)
        /\ regs'["CX"] = word(cpu.vendor, 8) /\ ip' = 3
    BY <2>2, <1>2, <1>10, CpuidVendor
  <2> QED
    BY <2>3, <1>8 DEF VendorWithin
<1>11. CASE ip \in {3, 5, 7}
  <2>1. ASSUME NEW r \in Registers, NEW m, Is(Current, "CMPL", r, m)
        PROVE  zero' = (regs[r] = m) /\ regs' = regs
    <3>1. zero' = (regs[r] = m) /\ CMPL
      BY <2>1, CmplStep, WhichInstruction DEF Is
    <3> QED
      BY <3>1 DEF CMPL
  <2>2. CASE ip = 3
    <3>1. Is(Current, "CMPL", "BX", word(asks.vendor, 0))
      BY <2>2, <1>2, <1>5, VendorListing
    <3>2. zero' = Same(0) /\ regs' = regs /\ ip' = 4
      BY <3>1, <2>1, <2>2, <1>4 DEF VendorWithin, Same, Registers
    <3> QED
      BY <3>2, <2>2, <1>4, <1>7, <1>8 DEF VendorWithin
  <2>3. CASE ip = 5
    <3>1. Is(Current, "CMPL", "DX", word(asks.vendor, 4))
      BY <2>3, <1>2, <1>5, VendorListing
    <3>2. zero' = Same(4) /\ regs' = regs /\ ip' = 6
      BY <3>1, <2>1, <2>3, <1>4 DEF VendorWithin, Same, Registers
    <3> QED
      BY <3>2, <2>3, <1>4, <1>7, <1>8 DEF VendorWithin
  <2>4. CASE ip = 7
    <3>1. Is(Current, "CMPL", "CX", word(asks.vendor, 8))
      BY <2>4, <1>2, <1>5, VendorListing
    <3>2. zero' = Same(8) /\ regs' = regs /\ ip' = 8
      BY <3>1, <2>1, <2>4, <1>4 DEF VendorWithin, Same, Registers
    <3> QED
      BY <3>2, <2>4, <1>4, <1>7, <1>8 DEF VendorWithin
  <2> QED
    BY <1>11, <2>2, <2>3, <2>4
<1>12. CASE ip \in {4, 6}
  <2>1. Is(Current, "JNE", "none", {})
    BY <1>12, <1>2, <1>5, VendorListing
  <2>2. Jump /\ regs' = regs
    BY <2>1, WhichInstruction DEF Is, Jump
  <2>3. zero
    <3>1. ~Taken
      BY <2>1, <1>1, <1>2, <1>3, JumpStep, VendorRun
    <3> QED
      BY <3>1, <2>1 DEF Taken, Is
  <2>4. CASE ip = 4
    <3>1. Same(0) /\ ip' = 5
      BY <2>3, <2>4, <1>4 DEF VendorWithin
    <3> QED
      BY <3>1, <2>2, <2>4, <1>4, <1>7, <1>8 DEF VendorWithin
  <2>5. CASE ip = 6
    <3>1. Same(0) /\ Same(4) /\ ip' = 7
      BY <2>3, <2>5, <1>4 DEF VendorWithin
    <3> QED
      BY <3>1, <2>2, <2>5, <1>4, <1>7, <1>8 DEF VendorWithin
  <2> QED
    BY <1>12, <2>4, <2>5
<1> QED
  BY <1>3, <1>6, <1>9, <1>10, <1>11, <1>12

LEMMA InstructionVendor == ASSUME IInv, VendorInv, Instruction PROVE VendorInv'
<1>1. /\ UNCHANGED <<asks, cpu, mode, xcr0, able>> /\ mode = "probe" /\ seg # Done /\ Emittable
      /\ Pieces' = Pieces /\ Done' = Done /\ IsFeature' = IsFeature
      /\ ip \in 1..Len(Code(Pieces[seg])) /\ seg \in 1..Len(Pieces)
  BY InstructionMoves, Standing DEF IInv, TypeOK
<1> SUFFICES ASSUME ~IsFeature PROVE VendorInv'
  BY <1>1 DEF VendorInv
<1>2. /\ Len(Pieces) = 3 /\ Done = 4
      /\ Pieces[1].kind = "no" /\ Pieces[2].kind = "vendor" /\ Pieces[3].kind = "yes"
  BY <1>1, VendorRun
<1>3. seg \in 1..3
  BY <1>1, <1>2
<1>4. SameWords' = SameWords /\ (Same(0))' = Same(0) /\ (Same(4))' = Same(4) /\ (Same(8))' = Same(8)
  BY <1>1 DEF SameWords, Same, word
<1>5. CASE Jump /\ Taken /\ seg' = Done /\ ip' = 1 /\ UNCHANGED <<regs, less, zero, ret>>
  <2>0. /\ Pieces[seg].kind \notin {"no", "yes"} /\ Taken
        /\ Pieces[seg].kind = "vendor" => ip \in {4, 6, 8} /\ Taken = ~zero
    BY <1>5, JumpPlaces
  <2>1. Pieces[seg].kind = "vendor" /\ ip \in {4, 6, 8} /\ ~zero
    <3>1. seg = 2
      BY <1>2, <1>3, <2>0
    <3> QED
      BY <3>1, <1>2, <2>0
  <2>2. seg = 2 /\ VendorWithin(ip)
    BY <2>1, <1>1, <1>2, <1>3 DEF VendorInv
  <2>3. ~SameWords
    BY <2>1, <2>2 DEF VendorWithin, SameWords
  <2>4. ret = {}
    BY <2>2, <1>1 DEF IInv, RunInv
  <2>5. seg' = 4 /\ ret' = {} /\ ~SameWords'
    BY <1>2, <1>4, <1>5, <2>3, <2>4
  <2> QED
    BY <2>5, <1>1, <1>2 DEF VendorInv
<1>6. CASE Advance
  <2>1. CASE seg = 1
    <3>1. Len(Code(Pieces[1])) = 1 /\ ip = 1
      <4>1. Len(Code(Pieces[1])) = 1 /\ ip \in 1..Len(Code(Pieces[1]))
        BY <1>1, <1>2, <2>1, NoListing
      <4> QED
        BY <4>1
    <3>2. seg' = 2 /\ ip' = 1
      BY <3>1, <2>1, <1>6, Across
    <3>3. VendorWithin(ip)'
      BY <3>2 DEF VendorWithin
    <3> QED
      BY <3>2, <3>3, <1>1, <1>2 DEF VendorInv
  <2>2. CASE seg = 2
    <3>0. Len(Code(Pieces[2])) = 8 /\ ip \in 1..8
      BY <1>1, <1>2, <2>2, VendorListing
    <3>1. CASE ip < 8
      <4>1. seg' = 2 /\ ip' = ip + 1
        BY <3>0, <3>1, <1>6, <2>2 DEF Advance
      <4>2. VendorWithin(ip)'
        BY <4>1, <2>2, <1>6, VendorStep
      <4> QED
        BY <4>1, <4>2, <1>1, <1>2 DEF VendorInv
    <3>2. CASE ip = 8
      <4>1. seg' = 3
        BY <3>0, <3>2, <1>6, <2>2, Across
      <4>2. Is(Current, "JNE", "none", {})
        BY <3>2, <2>2, <1>2, VendorListing DEF Current
      <4>3. ~Taken
        BY <4>1, <4>2, <1>2, JumpStep
      <4>4. zero
        BY <4>2, <4>3 DEF Taken, Is
      <4>5. VendorWithin(8)
        BY <3>2, <2>2, <1>1 DEF VendorInv
      <4>6. SameWords
        BY <4>4, <4>5 DEF VendorWithin, SameWords
      <4> QED
        BY <4>1, <4>6, <1>1, <1>2, <1>4 DEF VendorInv
    <3> QED
      BY <3>0, <3>1, <3>2
  <2>3. CASE seg = 3
    <3>1. Len(Code(Pieces[3])) = 1 /\ ip = 1
      <4>1. Len(Code(Pieces[3])) = 1 /\ ip \in 1..Len(Code(Pieces[3]))
        BY <1>1, <1>2, <2>3, YesListing
      <4> QED
        BY <4>1
    <3>2. seg' = 4
      BY <3>1, <2>3, <1>6, Across
    <3>3. ret' = One
      BY <3>2, <1>2, <1>6, LastWritesYes
    <3>4. SameWords
      BY <2>3, <1>1 DEF VendorInv
    <3> QED
      BY <3>2, <3>3, <3>4, <1>1, <1>2, <1>4 DEF VendorInv
  <2> QED
    BY <1>3, <2>1, <2>2, <2>3
<1> QED
  BY <1>5, <1>6, InstructionMoves

\* Nothing but the instructions touches what the vendor check is about.
LEMMA VendorQuiet ==
  ASSUME VendorInv, UNCHANGED <<asks, cpu, mode, seg, ip, regs, zero, ret>>
  PROVE  VendorInv'
<1>1. IsFeature' = IsFeature /\ Done' = Done
  BY DEF IsFeature, Done, Pieces
<1>2. SameWords' = SameWords
  BY DEF SameWords, Same, word
<1>3. VendorWithin(ip)' = VendorWithin(ip)
  BY DEF VendorWithin, Same, word
<1> QED
  BY <1>1, <1>2, <1>3 DEF VendorInv

LEMMA EmitAndCallVendor == ASSUME IInv, EmitAndCall PROVE VendorInv'
<1>1. Emittable /\ mode' = "probe" /\ seg' = 1 /\ ip' = 1 /\ Pieces' = Pieces
  BY DEF IInv, EmitAndCall, Pieces
<1>2. Len(Pieces) \in 3..6 /\ Done' = Len(Pieces) + 1
  BY <1>1, PiecesWellFormed DEF WellFormed, Done
<1> QED
  BY <1>1, <1>2 DEF VendorInv

LEMMA RETVendor == ASSUME IInv, VendorInv, RET PROVE VendorInv'
<1>1. /\ mode = "probe" /\ mode' = "returned" /\ seg = Done /\ ret' = ret
      /\ IsFeature' = IsFeature /\ asks' = asks /\ cpu' = cpu
  BY DEF RET, IsFeature
<1>2. SameWords' = SameWords
  BY <1>1 DEF SameWords, Same, word
<1> QED
  BY <1>1, <1>2 DEF VendorInv

\* On every processor VendorProbe answers yes exactly when the processor's
\* vendor string is the one the probe was generated for.
THEOREM VendorAnswers == Spec => []VendorExact
<1>1. Init => VendorInv
  BY DEF Init, VendorInv
<1>2. IInv /\ VendorInv /\ [Next]_vars => VendorInv'
  <2>1. ASSUME EmitPanics PROVE VendorInv'
    BY <2>1 DEF EmitPanics, VendorInv
  <2>2. ASSUME RunKernel PROVE VendorInv'
    BY <2>2 DEF RunKernel, VendorInv
  <2>3. ASSUME VendorInv, EnableLazily PROVE VendorInv'
    BY <2>3, VendorQuiet DEF EnableLazily
  <2>4. ASSUME VendorInv, UNCHANGED vars PROVE VendorInv'
    BY <2>4, VendorQuiet DEF vars
  <2> QED
    BY <2>1, <2>2, <2>3, <2>4, InstructionVendor, EmitAndCallVendor, RETVendor DEF Next
<1>3. IInv /\ VendorInv => VendorExact
  <2> SUFFICES ASSUME IInv, VendorInv, mode = "returned", asks.feature = "vendor"
               PROVE  ret = IF cpu.vendor = asks.vendor THEN One ELSE {}
    BY DEF VendorExact
  <2>1. Emittable /\ ~IsFeature
    BY DEF IInv, IsFeature
  <2>2. ret = IF SameWords THEN One ELSE {}
    BY <2>1 DEF VendorInv
  <2>3. asks.vendor \in Vendors /\ cpu.vendor \in Vendors
    BY <2>1, VendorRun
  <2>4. SameWords <=> cpu.vendor = asks.vendor
    BY <2>3, VendorsByWord DEF SameWords, Same
  <2> QED
    BY <2>2, <2>4
<1> QED
  BY <1>1, <1>2, <1>3, Invariance, PTL DEF Spec

=============================================================================
