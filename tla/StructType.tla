------------------------------ MODULE StructType ------------------------------
(***************************************************************************)
(* C structures (modules/Bridge/struct.js).                                *)
(*                                                                         *)
(* A structure type gets its fields one by one; each new field lays out    *)
(* all fields anew, in two loops and a final padding, as the C compiler    *)
(* would.  A field may be of a base type, a pointer, or another structure. *)
(* The first instance of a type freezes its fields.  Fields of an instance *)
(* are written in place; a byte of the instance is abstracted to the field *)
(* that was last written to it.                                            *)
(*                                                                         *)
(* The loops are steps here, so that what they establish is an invariant;  *)
(* JavaScript runs nothing between them.  Arrays (fixedLength) are left    *)
(* out: nothing in the repository makes such a type.                       *)
(***************************************************************************)
EXTENDS Integers, Sequences

CONSTANTS
  Structs,        \* the structure types
  BaseTypes,      \* the types of ref, and pointers to any type
  Indirection,    \* 1 for a value, more for a pointer
  BaseSize,       \* sizes of the types of ref
  BaseAlignment,  \* their alignments
  Pointer,        \* size and alignment of a pointer
  MaxFields,      \* bound on the fields of a structure
  NoStruct        \* no structure

Alignments == {1, 2, 4, 8, 16}

ASSUME TypesAssumption ==
  /\ Structs \cap BaseTypes = {}
  /\ NoStruct \notin Structs
  /\ NoStruct \notin BaseTypes
  /\ Indirection \in [BaseTypes -> Nat \ {0}]
  /\ BaseSize \in [BaseTypes -> Nat \ {0}]
  /\ BaseAlignment \in [BaseTypes -> Alignments]
  /\ Pointer \in Alignments
ASSUME BoundAssumption == MaxFields \in Nat

VARIABLES
  fields,     \* the types of the fields of each structure, in order
  offset,     \* their offsets
  size,       \* the size of each structure
  alignment,  \* its alignment
  created,    \* _instanceCreated
  loop,       \* the loop of recalc that runs
  struct,     \* the structure it runs for
  i,          \* the field it is at
  instance,   \* the structure of which there is an instance
  bytes,      \* the field that was last written to each byte, 0 for none
  written,    \* history: the fields that were assigned
  outgrown,   \* history: the structures with a field whose type grew afterwards
  misplaced   \* history: a structure was copied into a field not at offset 0

typeVars == <<fields, offset, size, alignment, created, outgrown>>
loopVars == <<loop, struct, i>>
instanceVars == <<instance, bytes, written, misplaced>>
vars == <<typeVars, loopVars, instanceVars>>

Types == BaseTypes \cup Structs

IsPointer(t) == t \in BaseTypes /\ Indirection[t] > 1

SizeOf(t) ==
  IF t \in Structs THEN size[t] ELSE IF IsPointer(t) THEN Pointer ELSE BaseSize[t]

AlignmentOf(t) ==
  IF t \in Structs THEN alignment[t] ELSE IF IsPointer(t) THEN Pointer ELSE BaseAlignment[t]

\* One past the last byte of field k of s.
End(s, k) == offset[s][k] + SizeOf(fields[s][k])

Occupied(s, k) == offset[s][k] .. End(s, k) - 1

\* The padding adds the remainder instead of what is missing (a faulty variant).
PaddingRemainder(o, a) == o % a

Padding(o, a) == (a - (o % a)) % a

Init ==
  /\ fields = [s \in Structs |-> <<>>]
  /\ offset = [s \in Structs |-> <<>>]
  /\ size = [s \in Structs |-> 0]
  /\ alignment = [s \in Structs |-> 0]
  /\ created = [s \in Structs |-> FALSE]
  /\ loop = "none"
  /\ struct = NoStruct
  /\ i = 1
  /\ instance = NoStruct
  /\ bytes = <<>>
  /\ written = {}
  /\ outgrown = {}
  /\ misplaced = FALSE

-----------------------------------------------------------------------------
(***************************************************************************)
(* Faulty variants of the steps below, none of them part of Next.          *)
(***************************************************************************)

\* The constructor forgets that there is an instance.
NewInstanceForgotten(s) ==
  /\ loop = "none"
  /\ size[s] > 0
  /\ instance' = s
  /\ bytes' = [b \in 0 .. size[s] - 1 |-> 0]
  /\ written' = {} /\ misplaced' = FALSE
  /\ UNCHANGED <<typeVars, loopVars>>

-----------------------------------------------------------------------------
(***************************************************************************)
(* Types.                                                                  *)
(***************************************************************************)

\* defineProperty, up to the loops of recalc.  No structure has a field of its
\* own type.
DefineProperty(s, t) ==
  /\ loop = "none"
  /\ Len(fields[s]) < MaxFields
  /\ ~created[s]
  /\ t # s /\ SizeOf(t) > 0
  /\ fields' = [fields EXCEPT ![s] = Append(@, t)]
  /\ offset' = [offset EXCEPT ![s] = Append(@, 0)]
  /\ size' = [size EXCEPT ![s] = 0]
  /\ alignment' = [alignment EXCEPT ![s] = 0]
  /\ loop' = "align" /\ struct' = s /\ i' = 1
  /\ outgrown' = (outgrown \ {s}) \cup {u \in Structs \ {s} : \E k \in DOMAIN fields[u] : fields[u][k] = s}
  /\ UNCHANGED <<created, instanceVars>>

\* The first loop of recalc: the alignment is the largest of the fields.
AlignStep ==
  /\ loop = "align"
  /\ LET a == AlignmentOf(fields[struct][i])
     IN  alignment' = [alignment EXCEPT ![struct] = IF a > @ THEN a ELSE @]
  /\ IF i = Len(fields[struct])
       THEN loop' = "add" /\ i' = 1
       ELSE loop' = loop /\ i' = i + 1
  /\ UNCHANGED <<fields, offset, size, created, outgrown, struct, instanceVars>>

\* The second loop, addType: the field goes to the next aligned offset.
AddType ==
  /\ loop = "add"
  /\ LET t == fields[struct][i]
         o == size[struct] + Padding(size[struct], AlignmentOf(t))
     IN  /\ offset' = [offset EXCEPT ![struct][i] = o]
         /\ size' = [size EXCEPT ![struct] = o + SizeOf(t)]
  /\ IF i = Len(fields[struct])
       THEN loop' = "pad" /\ i' = 1
       ELSE loop' = loop /\ i' = i + 1
  /\ UNCHANGED <<fields, alignment, created, outgrown, struct, instanceVars>>

\* The final padding, and the end of defineProperty.
FinalPadding ==
  /\ loop = "pad"
  /\ LET left == size[struct] % alignment[struct]
     IN  size' = [size EXCEPT ![struct] =
                   IF left > 0 THEN @ + (alignment[struct] - left) ELSE @]
  /\ loop' = "none" /\ struct' = NoStruct
  /\ UNCHANGED <<fields, offset, alignment, created, outgrown, i, instanceVars>>

-----------------------------------------------------------------------------
(***************************************************************************)
(* Instances.                                                              *)
(***************************************************************************)

\* new StructType() takes a Buffer with whatever is in it.
NewInstance(s) ==
  /\ loop = "none"
  /\ size[s] > 0
  /\ created' = [created EXCEPT ![s] = TRUE]
  /\ instance' = s
  /\ bytes' = [b \in 0 .. size[s] - 1 |-> 0]
  /\ written' = {} /\ misplaced' = FALSE
  /\ UNCHANGED <<fields, offset, size, alignment, outgrown, loopVars>>

Field(k) == instance # NoStruct /\ k \in DOMAIN fields[instance]

\* The slice at a field is large enough for its type.
Fits(k) == End(instance, k) <= size[instance]

\* An assignment to a field that holds no structure.
SetValue(k) ==
  /\ loop = "none"
  /\ Field(k) /\ fields[instance][k] \in BaseTypes
  /\ bytes' = [b \in DOMAIN bytes |-> IF b \in Occupied(instance, k) THEN k ELSE bytes[b]]
  /\ written' = written \cup {k}
  /\ UNCHANGED <<typeVars, loopVars, instance, misplaced>>

\* set: a plain object is written through a temporary instance on the slice,
\* here with all of its fields.
SetObject(k) ==
  /\ loop = "none"
  /\ Field(k) /\ fields[instance][k] \in Structs
  /\ Fits(k)
  /\ created' = [created EXCEPT ![fields[instance][k]] = TRUE]
  /\ bytes' = [b \in DOMAIN bytes |-> IF b \in Occupied(instance, k) THEN k ELSE bytes[b]]
  /\ written' = written \cup {k}
  /\ UNCHANGED <<fields, offset, size, alignment, outgrown, loopVars, instance, misplaced>>

\* set: an instance is copied, at the offset of the field in the slice that
\* begins at the field.
SetStruct(k) ==
  /\ loop = "none"
  /\ Field(k) /\ fields[instance][k] \in Structs
  /\ created[fields[instance][k]]
  /\ LET o == 2 * offset[instance][k]
         target == o .. o + SizeOf(fields[instance][k]) - 1
     IN  bytes' = [b \in DOMAIN bytes |-> IF b \in target THEN k ELSE bytes[b]]
  /\ written' = written \cup {k}
  /\ misplaced' = (misplaced \/ offset[instance][k] > 0)
  /\ UNCHANGED <<typeVars, loopVars, instance>>

\* get: an instance on the slice.
GetStruct(k) ==
  /\ loop = "none"
  /\ Field(k) /\ fields[instance][k] \in Structs
  /\ Fits(k)
  /\ created' = [created EXCEPT ![fields[instance][k]] = TRUE]
  /\ UNCHANGED <<fields, offset, size, alignment, outgrown, loopVars, instanceVars>>

-----------------------------------------------------------------------------

Recalc == AlignStep \/ AddType \/ FinalPadding

Next ==
  \/ \E s \in Structs : NewInstance(s) \/ \E t \in Types : DefineProperty(s, t)
  \/ Recalc
  \/ \E k \in 1 .. MaxFields : SetValue(k) \/ SetObject(k) \/ SetStruct(k) \/ GetStruct(k)

Spec == Init /\ [][Next]_vars

-----------------------------------------------------------------------------
(***************************************************************************)
(* Properties                                                              *)
(***************************************************************************)

TypeOK ==
  /\ fields \in [Structs -> Seq(Types)]
  /\ offset \in [Structs -> Seq(Nat)]
  /\ \A s \in Structs : Len(offset[s]) = Len(fields[s])
  /\ size \in [Structs -> Nat]
  /\ alignment \in [Structs -> Alignments \cup {0}]
  /\ created \in [Structs -> BOOLEAN]
  /\ loop \in {"none", "align", "add", "pad"}
  /\ struct \in Structs \cup {NoStruct}
  /\ (loop = "none") <=> (struct = NoStruct)
  /\ i \in Nat
  /\ instance \in Structs \cup {NoStruct}
  /\ written \subseteq Nat
  /\ outgrown \subseteq Structs
  /\ misplaced \in BOOLEAN

Complete(s) == s # struct /\ s \notin outgrown

\* The layout is that of C: every field is aligned, begins after the one before
\* it, and the structure ends after all of them and can follow itself in an
\* array.
LaidOutAsC ==
  \A s \in Structs : Complete(s) =>
    /\ \A k \in DOMAIN fields[s] :
         /\ offset[s][k] % AlignmentOf(fields[s][k]) = 0
         /\ alignment[s] % AlignmentOf(fields[s][k]) = 0
         /\ End(s, k) <= size[s]
         /\ \A j \in 1 .. k - 1 : End(s, j) <= offset[s][k]
    /\ fields[s] # <<>> => size[s] % alignment[s] = 0

\* No byte is lost: there is less padding before a field, and after the last
\* one, than would make room for another alignment unit.
NoSpareRoom ==
  \A s \in Structs : Complete(s) /\ fields[s] # <<>> =>
    /\ offset[s][1] = 0
    /\ \A k \in 2 .. Len(fields[s]) :
         offset[s][k] - End(s, k - 1) < AlignmentOf(fields[s][k])
    /\ size[s] - End(s, Len(fields[s])) < alignment[s]

\* recalc agrees with a C compiler: what native code reads and what struct.js
\* writes are the same bytes, and an array of the structure has the same stride.
\* Except for a structure with a field whose type has grown since (outgrown).
ExactlyAsC == LaidOutAsC /\ NoSpareRoom

\* A field that was assigned still has what was written to it, whatever was
\* assigned to other fields.  Two things break this, and they are excluded
\* here: a nested type that grew after it was used, and the copy of a structure
\* into a field that is not at offset 0.
ReadsBack ==
  instance # NoStruct /\ instance \notin outgrown /\ ~misplaced =>
    \A k \in written : \A b \in Occupied(instance, k) : b \in DOMAIN bytes /\ bytes[b] = k
=============================================================================
