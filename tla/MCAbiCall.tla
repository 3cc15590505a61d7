------------------------------ MODULE MCAbiCall ------------------------------
(* One structure holds every integer width of each signedness, one the       *)
(* floats, so that two values already give every move and every neighbour.   *)
EXTENDS AbiCall

T(size, signed) == [size |-> size, float |-> FALSE, signed |-> signed]
FT(size) == [size |-> size, float |-> TRUE, signed |-> FALSE]
Struct(name, types) ==
  [name |-> <<name>>, agg |-> TRUE, type |-> ZeroType, elem |-> 1,
   fields |-> [j \in DOMAIN types |->
                 [name |-> <<"A", "B", "C", "D", "E", "F", "G", "H">>[j], type |-> types[j]]]]
Scalar(name, t) == [name |-> <<name>>, agg |-> FALSE, type |-> t, fields |-> <<>>]

Ints == <<T(1, TRUE), T(1, FALSE), T(2, TRUE), T(2, FALSE),
          T(4, TRUE), T(4, FALSE), T(8, TRUE), T(8, FALSE)>>
Narrow == <<T(4, TRUE), T(1, FALSE), T(2, TRUE)>>

Kinds == {Struct("p", Ints), Struct("f", <<FT(4), FT(8)>>),
          Struct("r", Narrow), Scalar("g", FT(4))}
Indirect == {T(2, FALSE), T(4, TRUE), FT(8)}
=============================================================================
