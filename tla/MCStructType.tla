----------------------------- MODULE MCStructType -----------------------------
(***************************************************************************)
(* StructType and StructCall with two structures, and a char, a float and  *)
(* a pointer to a char; two registers of each kind.                        *)
(***************************************************************************)
EXTENDS StructCall

CONSTANTS point, rect, char, float, string

MCStructs == {point, rect}
MCBaseTypes == {char, float, string}
MCIndirection == [t \in MCBaseTypes |-> IF t = string THEN 2 ELSE 1]
MCBaseSize == [t \in MCBaseTypes |-> IF t = float THEN 4 ELSE 1]
MCBaseAlignment == MCBaseSize
MCKind == [t \in MCBaseTypes |-> IF t = float THEN "float" ELSE "integer"]
=============================================================================
