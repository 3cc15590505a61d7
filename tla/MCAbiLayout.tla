----------------------------- MODULE MCAbiLayout -----------------------------
(* Small instances of AbiLayout: every scalar width, the aggregates whose    *)
(* padding differs, and the empty ones.                                      *)
EXTENDS AbiLayout

IntOf(size) == [size |-> size, float |-> FALSE, signed |-> TRUE]
Scalar(name, size) ==
  [name |-> <<name>>, agg |-> FALSE, type |-> IntOf(size), fields |-> <<>>]
F(name, size) == [name |-> name, type |-> IntOf(size)]
Aggregate(name, fields, elem) ==
  [name |-> <<name>>, agg |-> TRUE, type |-> ZeroType, fields |-> fields, elem |-> elem]
Struct(name, fields) == Aggregate(name, fields, 1)

int8  == Scalar("a", 1)
int16 == Scalar("b", 2)
int32 == Scalar("c", 4)
int64 == Scalar("d", 8)
slice == Struct("s", <<F("base", 8), F("len", 8), F("cap", 8)>>)
inner == Struct("p", <<F("A", 1), F("B", 8)>>)            \* padded inside
tail  == Struct("q", <<F("A", 4), F("B", 2), F("C", 1)>>) \* padded at its end
array == Aggregate("r", <<F("0", 2), F("1", 2), F("2", 2)>>, 2)
array0 == Aggregate("z", <<>>, 1)
emptyStruct == [name |-> <<"e">>, agg |-> FALSE, type |-> ZeroType, fields |-> <<>>]

AllKinds == {int8, int16, int32, int64, slice, inner, tail, array, array0}
ScalarKinds == {int8, int16, int32, int64}
KindsWithEmptyStruct == {int32, int64, tail, emptyStruct}
=============================================================================
