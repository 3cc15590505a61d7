------------------------------ MODULE MoveTables ------------------------------
(***************************************************************************)
(* The moves the six builders select by type (loadMnemonic, storeMnemonic  *)
(* of each architecture package) and, as the assembler defines them, what  *)
(* those moves do.  The same word names different moves: MOVW is 2 bytes   *)
(* on amd64 and 4 elsewhere, MOVD is the integer word on arm64, ppc64 and  *)
(* s390x and the float double on riscv64 and loong64.                      *)
(***************************************************************************)
EXTENDS Integers, Sequences, FiniteSets

(***************************************************************************)
(* A builder's table: f4, f8 for floats, sN and uN for signed and unsigned *)
(* loads of N bytes, tN for stores of N bytes, w for 8-byte integers.      *)
(***************************************************************************)
amd64 == [f4 |-> "MOVSS", f8 |-> "MOVSD", s1 |-> "MOVBQSX", u1 |-> "MOVBQZX",
          s2 |-> "MOVWQSX", u2 |-> "MOVWQZX", s4 |-> "MOVLQSX", u4 |-> "MOVLQZX",
          t1 |-> "MOVB", t2 |-> "MOVW", t4 |-> "MOVL", w |-> "MOVQ"]
arm64 == [f4 |-> "FMOVS", f8 |-> "FMOVD", s1 |-> "MOVB", u1 |-> "MOVBU",
          s2 |-> "MOVH", u2 |-> "MOVHU", s4 |-> "MOVW", u4 |-> "MOVWU",
          t1 |-> "MOVB", t2 |-> "MOVH", t4 |-> "MOVW", w |-> "MOVD"]
\* Slip: arm64's table taken for riscv64's.
riscv64AsArm64 == arm64
riscv64 == [f4 |-> "MOVF", f8 |-> "MOVD", s1 |-> "MOVB", u1 |-> "MOVBU",
            s2 |-> "MOVH", u2 |-> "MOVHU", s4 |-> "MOVW", u4 |-> "MOVWU",
            t1 |-> "MOVB", t2 |-> "MOVH", t4 |-> "MOVW", w |-> "MOV"]
loong64 == [f4 |-> "MOVF", f8 |-> "MOVD", s1 |-> "MOVB", u1 |-> "MOVBU",
            s2 |-> "MOVH", u2 |-> "MOVHU", s4 |-> "MOVW", u4 |-> "MOVWU",
            t1 |-> "MOVB", t2 |-> "MOVH", t4 |-> "MOVW", w |-> "MOVV"]
ppc64 == [f4 |-> "FMOVS", f8 |-> "FMOVD", s1 |-> "MOVB", u1 |-> "MOVBZ",
          s2 |-> "MOVH", u2 |-> "MOVHZ", s4 |-> "MOVW", u4 |-> "MOVWZ",
          t1 |-> "MOVB", t2 |-> "MOVH", t4 |-> "MOVW", w |-> "MOVD"]
\* Slip: the unsigned 4-byte load left without its Z.
s390xWithoutZ == [ppc64 EXCEPT !.u4 = "MOVW"]
s390x == [f4 |-> "FMOVS", f8 |-> "FMOVD", s1 |-> "MOVB", u1 |-> "MOVBZ",
          s2 |-> "MOVH", u2 |-> "MOVHZ", s4 |-> "MOVW", u4 |-> "MOVWZ",
          t1 |-> "MOVB", t2 |-> "MOVH", t4 |-> "MOVW", w |-> "MOVD"]

Arches == {"amd64", "arm64", "riscv64", "loong64", "ppc64", "s390x"}

Table(arch) ==
  CASE arch = "amd64"   -> amd64
    [] arch = "arm64"   -> arm64
    [] arch = "riscv64" -> riscv64
    [] arch = "loong64" -> loong64
    [] arch = "ppc64"   -> ppc64
    [] arch = "s390x"   -> s390x

loadMnemonic(arch, t) ==
  LET m == Table(arch)
  IN  CASE t.float /\ t.size = 4                 -> m.f4
        [] t.float /\ t.size # 4                 -> m.f8
        [] ~t.float /\ t.size = 1 /\ t.signed    -> m.s1
        [] ~t.float /\ t.size = 1 /\ ~t.signed   -> m.u1
        [] ~t.float /\ t.size = 2 /\ t.signed    -> m.s2
        [] ~t.float /\ t.size = 2 /\ ~t.signed   -> m.u2
        [] ~t.float /\ t.size = 4 /\ t.signed    -> m.s4
        [] ~t.float /\ t.size = 4 /\ ~t.signed   -> m.u4
        [] ~t.float /\ t.size \notin {1, 2, 4}   -> m.w

\* Slip: every integer stored as a whole word.
storeMnemonicWhole(arch, t) ==
  LET m == Table(arch)
  IN  IF t.float THEN (IF t.size = 4 THEN m.f4 ELSE m.f8) ELSE m.w

storeMnemonic(arch, t) ==
  LET m == Table(arch)
  IN  CASE t.float /\ t.size = 4                -> m.f4
        [] t.float /\ t.size # 4                -> m.f8
        [] ~t.float /\ t.size = 1               -> m.t1
        [] ~t.float /\ t.size = 2               -> m.t2
        [] ~t.float /\ t.size = 4               -> m.t4
        [] ~t.float /\ t.size \notin {1, 2, 4}  -> m.w

-----------------------------------------------------------------------------
(***************************************************************************)
(* What the moves do.  A move transfers width bytes between memory and a   *)
(* register of file; a load fills the rest of the register as ext says     *)
(* ("keep" leaves it as it was).                                           *)
(***************************************************************************)
Move(name, width, ext, file) ==
  [name |-> name, width |-> width, ext |-> ext, file |-> file]

RiscMoves ==
  {Move("MOVB", 1, "sign", "int"), Move("MOVH", 2, "sign", "int"),
   Move("MOVW", 4, "sign", "int")}
UnsignedU ==
  {Move("MOVBU", 1, "zero", "int"), Move("MOVHU", 2, "zero", "int"),
   Move("MOVWU", 4, "zero", "int")}
UnsignedZ ==
  {Move("MOVBZ", 1, "zero", "int"), Move("MOVHZ", 2, "zero", "int"),
   Move("MOVWZ", 4, "zero", "int")}
FMoves == {Move("FMOVS", 4, "zero", "float"), Move("FMOVD", 8, "zero", "float")}

ISA(arch) ==
  CASE arch = "amd64" ->
         {Move("MOVBQSX", 1, "sign", "int"), Move("MOVBQZX", 1, "zero", "int"),
          Move("MOVWQSX", 2, "sign", "int"), Move("MOVWQZX", 2, "zero", "int"),
          Move("MOVLQSX", 4, "sign", "int"), Move("MOVLQZX", 4, "zero", "int"),
          Move("MOVB", 1, "keep", "int"), Move("MOVW", 2, "keep", "int"),
          Move("MOVL", 4, "zero", "int"), Move("MOVQ", 8, "zero", "int"),
          Move("MOVSS", 4, "zero", "float"), Move("MOVSD", 8, "zero", "float")}
    [] arch = "arm64" -> RiscMoves \cup UnsignedU \cup FMoves \cup {Move("MOVD", 8, "zero", "int")}
    [] arch \in {"riscv64", "loong64"} ->
         RiscMoves \cup UnsignedU
           \cup {Move("MOVF", 4, "zero", "float"), Move("MOVD", 8, "zero", "float"),
                 Move(IF arch = "riscv64" THEN "MOV" ELSE "MOVV", 8, "zero", "int")}
    [] arch \in {"ppc64", "s390x"} ->
         RiscMoves \cup UnsignedZ \cup FMoves \cup {Move("MOVD", 8, "zero", "int")}

Meaning(arch, name) == CHOOSE m \in ISA(arch) : m.name = name

\* ppc64 is the little-endian variant.
BigEndian(arch) == arch = "s390x"

=============================================================================
