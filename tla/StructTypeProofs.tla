--------------------------- MODULE StructTypeProofs ---------------------------
(***************************************************************************)
(* Proofs about StructType, for any types, sizes and alignments, and about *)
(* StructCall, for any structures that nest at most twice and any number   *)
(* of arguments and registers.                                             *)
(*                                                                         *)
(* The inductive invariant says what the two loops of recalc have          *)
(* established for the fields they have passed; a structure that no loop   *)
(* runs for is laid out completely, unless a type it contains has grown.   *)
(*                                                                         *)
(* StructCall has no state: its properties follow from that invariant.     *)
(* What libffi computes in a loop over a list is a recursive function; it  *)
(* is shown to exist (Recursion) and to have after every element what it   *)
(* should (UpTo).                                                          *)
(***************************************************************************)
EXTENDS StructCall, FiniteSetTheorems, NaturalsInduction, WellFoundedInduction, TLAPS

-----------------------------------------------------------------------------
(***************************************************************************)
(* Arithmetic of alignments.                                               *)
(***************************************************************************)

\* addType's padding is the least that aligns an offset (struct.js:122).
LEMMA PaddingAligns ==
  ASSUME NEW o \in Nat, NEW a \in Alignments
  PROVE  /\ Padding(o, a) \in Nat
         /\ Padding(o, a) < a
         /\ (o + Padding(o, a)) % a = 0
         /\ o = 0 => Padding(o, a) = 0
<1>1. CASE a = 1 BY <1>1 DEF Padding
<1>2. CASE a = 2 BY <1>2 DEF Padding
<1>3. CASE a = 4 BY <1>3 DEF Padding
<1>4. CASE a = 8 BY <1>4 DEF Padding
<1>5. CASE a = 16 BY <1>5 DEF Padding
<1> QED BY <1>1, <1>2, <1>3, <1>4, <1>5 DEF Alignments

\* The final padding of recalc makes the size a multiple (struct.js:137-140).
LEMMA SizeRoundsUp ==
  ASSUME NEW n \in Nat, NEW a \in Alignments
  PROVE  LET left == n % a
             m == IF left > 0 THEN n + (a - left) ELSE n
         IN  m \in Nat /\ n <= m /\ m - n < a /\ m % a = 0
<1>1. CASE a = 1 BY <1>1
<1>2. CASE a = 2 BY <1>2
<1>3. CASE a = 4 BY <1>3
<1>4. CASE a = 8 BY <1>4
<1>5. CASE a = 16 BY <1>5
<1> QED BY <1>1, <1>2, <1>3, <1>4, <1>5 DEF Alignments

\* The largest of several alignments is a multiple of each (struct.js:97).
LEMMA LargestIsMultiple ==
  ASSUME NEW a \in Alignments, NEW b \in Alignments, b <= a
  PROVE  a % b = 0
<1>1. CASE a = 1 BY <1>1 DEF Alignments
<1>2. CASE a = 2 BY <1>2 DEF Alignments
<1>3. CASE a = 4 BY <1>3 DEF Alignments
<1>4. CASE a = 8 BY <1>4 DEF Alignments
<1>5. CASE a = 16 BY <1>5 DEF Alignments
<1> QED BY <1>1, <1>2, <1>3, <1>4, <1>5 DEF Alignments

-----------------------------------------------------------------------------
(***************************************************************************)
(* The inductive invariant.                                                *)
(***************************************************************************)

Contains(u, s) == \E k \in DOMAIN fields[u] : fields[u][k] = s

\* Fields are of types that have a size and an alignment.
FieldTypes ==
  \A s \in Structs :
    /\ fields[s] = <<>> => size[s] = 0
    /\ s # struct /\ fields[s] # <<>> => size[s] > 0 /\ alignment[s] \in Alignments
    /\ \A k \in DOMAIN fields[s] :
         fields[s][k] \in Structs => fields[s][k] # s /\ fields[fields[s][k]] # <<>>

\* The first n fields of s are where the second loop puts them.
Placed(s, n) ==
  \A k \in 1 .. n :
    /\ offset[s][k] % AlignmentOf(fields[s][k]) = 0
    /\ End(s, k) <= size[s]
    /\ \A j \in 1 .. k - 1 : End(s, j) <= offset[s][k]
    /\ k = 1 => offset[s][k] = 0
    /\ k > 1 => offset[s][k] - End(s, k - 1) < AlignmentOf(fields[s][k])

\* The first n fields of s have been seen by the first loop.
Covered(s, n) ==
  /\ n = 0 => alignment[s] = 0
  /\ n > 0 => /\ alignment[s] \in Alignments
              /\ \E k \in 1 .. n : alignment[s] = AlignmentOf(fields[s][k])
  /\ \A k \in 1 .. n : AlignmentOf(fields[s][k]) <= alignment[s]

Finished(s) ==
  /\ Placed(s, Len(fields[s]))
  /\ Covered(s, Len(fields[s]))
  /\ fields[s] # <<>> =>
       /\ size[s] % alignment[s] = 0
       /\ size[s] - End(s, Len(fields[s])) < alignment[s]

AllFinished == \A s \in Structs : Complete(s) => Finished(s)

\* What holds of the structure a loop runs for.
InLoop ==
  loop # "none" =>
    /\ i \in 1 .. Len(fields[struct])
    /\ ~created[struct]
    /\ struct \notin outgrown
    /\ \A u \in Structs : Contains(u, struct) => u \in outgrown
    /\ loop = "align" => size[struct] = 0 /\ Covered(struct, i - 1)
    /\ loop \in {"add", "pad"} => Covered(struct, Len(fields[struct]))
    /\ loop = "add" => /\ Placed(struct, i - 1)
                       /\ size[struct] = IF i = 1 THEN 0 ELSE End(struct, i - 1)
    /\ loop = "pad" => /\ Placed(struct, Len(fields[struct]))
                       /\ size[struct] = End(struct, Len(fields[struct]))

InstanceOK ==
  instance # NoStruct =>
    /\ created[instance]
    /\ bytes = [b \in 0 .. size[instance] - 1 |-> bytes[b]]
    /\ written \subseteq DOMAIN fields[instance]

IInv == TypeOK /\ FieldTypes /\ AllFinished /\ InLoop /\ InstanceOK /\ ReadsBack

-----------------------------------------------------------------------------
(***************************************************************************)
(* Lemmas.                                                                 *)
(***************************************************************************)

\* The sizes and alignments that recalc reads (struct.js:93-96, 121-123).
LEMMA SizesAndAlignments ==
  ASSUME TypeOK, FieldTypes
  PROVE  /\ \A t \in Types : SizeOf(t) \in Nat /\ AlignmentOf(t) \in Alignments \cup {0}
         /\ \A s \in Structs : \A k \in DOMAIN fields[s] :
              /\ fields[s][k] \in Types
              /\ fields[s][k] # struct =>
                   /\ SizeOf(fields[s][k]) > 0
                   /\ AlignmentOf(fields[s][k]) \in Alignments
<1> USE TypesAssumption
<1>1. ASSUME NEW t \in Types
      PROVE  /\ SizeOf(t) \in Nat
             /\ AlignmentOf(t) \in Alignments \cup {0}
             /\ t \notin Structs => SizeOf(t) > 0 /\ AlignmentOf(t) \in Alignments
  BY DEF TypeOK, SizeOf, AlignmentOf, IsPointer, Types, Alignments
<1>2. ASSUME NEW s \in Structs, NEW k \in DOMAIN fields[s]
      PROVE  /\ fields[s][k] \in Types
             /\ fields[s][k] # struct =>
                  /\ SizeOf(fields[s][k]) > 0
                  /\ AlignmentOf(fields[s][k]) \in Alignments
  <2>1. fields[s][k] \in Types BY DEF TypeOK
  <2>2. CASE fields[s][k] \notin Structs BY <2>1, <2>2, <1>1
  <2>3. CASE fields[s][k] \in Structs
    BY <2>1, <2>3 DEF FieldTypes, SizeOf, AlignmentOf
  <2> QED BY <2>1, <2>2, <2>3
<1> QED BY <1>1, <1>2

\* A layout depends on the structure and on the types it contains only.
LEMMA FinishedKept ==
  ASSUME TypeOK, NEW u \in Structs,
         fields'[u] = fields[u], offset'[u] = offset[u],
         size'[u] = size[u], alignment'[u] = alignment[u],
         \A t \in Structs : Contains(u, t) => size'[t] = size[t] /\ alignment'[t] = alignment[t]
  PROVE  /\ Finished(u) => Finished(u)'
         /\ \A k \in DOMAIN fields[u] : Occupied(u, k)' = Occupied(u, k)
<1>1. DOMAIN fields[u] = 1 .. Len(fields[u]) /\ Len(fields[u]) \in Nat BY DEF TypeOK
<1>2. ASSUME NEW k \in DOMAIN fields[u]
      PROVE  /\ SizeOf(fields[u][k])' = SizeOf(fields[u][k])
             /\ AlignmentOf(fields[u][k])' = AlignmentOf(fields[u][k])
             /\ End(u, k)' = End(u, k)
             /\ Occupied(u, k)' = Occupied(u, k)
  <2>1. fields[u][k] \in Structs =>
          /\ size'[fields[u][k]] = size[fields[u][k]]
          /\ alignment'[fields[u][k]] = alignment[fields[u][k]]
    BY DEF Contains
  <2>2. /\ SizeOf(fields[u][k])' = SizeOf(fields[u][k])
        /\ AlignmentOf(fields[u][k])' = AlignmentOf(fields[u][k])
    BY <2>1 DEF SizeOf, AlignmentOf, IsPointer
  <2>3. End(u, k)' = End(u, k) BY <2>2 DEF End
  <2> QED BY <2>2, <2>3 DEF Occupied
<1>3. Placed(u, Len(fields[u])) => Placed(u, Len(fields[u]))'
  <2>1. ASSUME NEW k \in 1 .. Len(fields[u])
        PROVE  /\ \A j \in 1 .. k - 1 : End(u, j)' = End(u, j)
               /\ k > 1 => End(u, k - 1)' = End(u, k - 1)
               /\ End(u, k)' = End(u, k)
               /\ AlignmentOf(fields[u][k])' = AlignmentOf(fields[u][k])
    BY <1>1, <1>2
  <2> QED BY <2>1 DEF Placed
<1>4. Covered(u, Len(fields[u])) => Covered(u, Len(fields[u]))'
  BY <1>1, <1>2 DEF Covered
<1>5. fields[u] # <<>> => Len(fields[u]) \in DOMAIN fields[u] BY <1>1 DEF TypeOK
<1> QED BY <1>1, <1>2, <1>3, <1>4, <1>5 DEF Finished

\* Fields of a complete layout share no byte.
LEMMA FieldsDisjoint ==
  ASSUME TypeOK, FieldTypes, NEW s \in Structs, Finished(s),
         NEW j \in DOMAIN fields[s], NEW k \in DOMAIN fields[s], j # k
  PROVE  Occupied(s, j) \cap Occupied(s, k) = {}
<1>0. fields[s] \in Seq(Types) /\ offset[s] \in Seq(Nat) /\ Len(offset[s]) = Len(fields[s])
  BY DEF TypeOK
<1>1. DOMAIN fields[s] = 1 .. Len(fields[s]) /\ DOMAIN offset[s] = DOMAIN fields[s]
  BY <1>0
<1>2. \A n \in DOMAIN fields[s] : offset[s][n] \in Nat /\ SizeOf(fields[s][n]) \in Nat
  <2> SUFFICES ASSUME NEW n \in DOMAIN fields[s]
               PROVE  offset[s][n] \in Nat /\ SizeOf(fields[s][n]) \in Nat
    OBVIOUS
  <2>1. fields[s][n] \in Types
    BY <1>0
  <2>2. offset[s][n] \in Nat
    BY <1>0, <1>1
  <2> QED BY <2>1, <2>2, SizesAndAlignments
<1>3. \A m \in DOMAIN fields[s] : \A n \in 1 .. m - 1 : End(s, n) <= offset[s][m]
  BY <1>1 DEF Finished, Placed
<1>5. j < k => End(s, j) <= offset[s][k]
  BY <1>1, <1>3
<1>6. k < j => End(s, k) <= offset[s][j]
  BY <1>1, <1>3
<1>4. j < k \/ k < j BY <1>1
<1> QED BY <1>2, <1>4, <1>5, <1>6 DEF Occupied, End

-----------------------------------------------------------------------------
(***************************************************************************)
(* Each step preserves the invariant.                                      *)
(***************************************************************************)

LEMMA InitIInv == Init => IInv
<1> SUFFICES ASSUME Init PROVE IInv OBVIOUS
<1> USE TypesAssumption DEF Init
<1>0. <<>> \in Seq(Types) /\ <<>> \in Seq(Nat) /\ Len(<<>>) = 0 /\ DOMAIN <<>> = {} OBVIOUS
<1>a. \A s \in Structs : /\ fields[s] = <<>> /\ offset[s] = <<>> /\ size[s] = 0
                         /\ Len(fields[s]) = 0 /\ DOMAIN fields[s] = {}
  BY <1>0
<1>1. TypeOK
  <2>1. fields \in [Structs -> Seq(Types)] /\ offset \in [Structs -> Seq(Nat)]
    BY <1>0
  <2>2. \A s \in Structs : Len(offset[s]) = Len(fields[s]) BY <1>a
  <2> QED BY <2>1, <2>2 DEF TypeOK
<1>2. FieldTypes BY <1>a DEF FieldTypes
<1>3. AllFinished BY <1>a DEF AllFinished, Finished, Placed, Covered
<1>4. InLoop /\ InstanceOK /\ ReadsBack BY DEF InLoop, InstanceOK, ReadsBack
<1> QED BY <1>1, <1>2, <1>3, <1>4 DEF IInv

\* An instance, and what was assigned to it, do not change while its type and
\* the types it contains do not.
LEMMA InstanceKept ==
  ASSUME IInv, UNCHANGED <<instanceVars>>,
         \A u \in Structs : u = instance =>
           /\ created'[u]
           /\ size'[u] = size[u]
           /\ fields'[u] = fields[u]
           /\ u \notin outgrown' =>
                /\ u \notin outgrown
                /\ \A k \in DOMAIN fields[u] : Occupied(u, k)' = Occupied(u, k)
  PROVE  InstanceOK' /\ ReadsBack'
<1> USE DEF IInv, instanceVars
<1>1. CASE instance = NoStruct BY <1>1 DEF InstanceOK, ReadsBack
<1>2. CASE instance # NoStruct
  <2>1. PICK u \in Structs : u = instance BY <1>2 DEF TypeOK
  <2>2. u = instance' BY <2>1
  <2>3. InstanceOK' BY <1>2, <2>1 DEF InstanceOK
  <2>4. ASSUME u \notin outgrown', ~misplaced', NEW k \in written', NEW b \in Occupied(u, k)'
        PROVE  b \in DOMAIN bytes' /\ bytes'[b] = k
    <3>1. k \in DOMAIN fields[u] /\ b \in Occupied(u, k) /\ u \notin outgrown
      BY <1>2, <2>1, <2>4 DEF InstanceOK
    <3> QED BY <1>2, <2>1, <2>4, <3>1 DEF ReadsBack
  <2>5. ReadsBack' BY <2>2, <2>4 DEF ReadsBack
  <2> QED BY <2>3, <2>5
<1> QED BY <1>1, <1>2

\* A structure that the loop does not run for keeps its layout, and is complete
\* after the step only if it was before and does not contain the other.
LEMMA OthersKept ==
  ASSUME IInv, NEW x \in Structs, NEW u \in Structs, u # x, ~Contains(u, x),
         \A t \in Structs \ {x} : /\ fields'[t] = fields[t] /\ offset'[t] = offset[t]
                                  /\ size'[t] = size[t] /\ alignment'[t] = alignment[t]
  PROVE  /\ Finished(u) => Finished(u)'
         /\ \A k \in DOMAIN fields[u] : Occupied(u, k)' = Occupied(u, k)
<1>1. \A t \in Structs : Contains(u, t) => size'[t] = size[t] /\ alignment'[t] = alignment[t]
  OBVIOUS
<1> QED BY <1>1, FinishedKept DEF IInv

LEMMA DefinePropertyIInv ==
  ASSUME IInv, NEW s \in Structs, NEW t \in Types, DefineProperty(s, t)
  PROVE  IInv'
<1>1. TypeOK' BY TypesAssumption DEF DefineProperty, IInv, TypeOK, instanceVars
<1>2. /\ \A u \in Structs \ {s} : /\ fields'[u] = fields[u] /\ offset'[u] = offset[u]
                                  /\ size'[u] = size[u] /\ alignment'[u] = alignment[u]
      /\ fields'[s] = Append(fields[s], t)
      /\ fields[s] \in Seq(Types)
      /\ size'[s] = 0
      /\ s # NoStruct /\ struct = NoStruct
      /\ created' = created /\ ~created[s]
  BY TypesAssumption DEF DefineProperty, IInv, TypeOK
<1>3. fields'[s] # <<>> /\ Len(fields'[s]) \in Nat /\ Len(fields'[s]) >= 1 BY <1>2
<1>4. FieldTypes'
  <2>1. t \in Structs => t # s /\ fields[t] # <<>>
    BY DEF DefineProperty, IInv, FieldTypes, SizeOf
  <2>2. \A k \in DOMAIN fields'[s] :
          fields'[s][k] = t \/ (k \in DOMAIN fields[s] /\ fields'[s][k] = fields[s][k])
    BY <1>2
  <2>3. \A u \in Structs : fields[u] # <<>> => fields'[u] # <<>> BY <1>2, <1>3
  <2>4. \A k \in DOMAIN fields'[s] :
          fields'[s][k] \in Structs => fields'[s][k] # s /\ fields'[fields'[s][k]] # <<>>
    BY <2>1, <2>2, <2>3 DEF IInv, FieldTypes
  <2>5. ASSUME NEW u \in Structs \ {s}
        PROVE  /\ fields'[u] = <<>> => size'[u] = 0
               /\ fields'[u] # <<>> => size'[u] > 0 /\ alignment'[u] \in Alignments
               /\ \A k \in DOMAIN fields'[u] :
                    fields'[u][k] \in Structs => fields'[u][k] # u /\ fields'[fields'[u][k]] # <<>>
    <3>1. /\ fields'[u] = fields[u] /\ size'[u] = size[u] /\ alignment'[u] = alignment[u]
          /\ u # struct
      BY <1>2, TypesAssumption
    <3>2. /\ fields[u] = <<>> => size[u] = 0
          /\ fields[u] # <<>> => size[u] > 0 /\ alignment[u] \in Alignments
          /\ \A k \in DOMAIN fields[u] :
               fields[u][k] \in Structs => fields[u][k] # u /\ fields[fields[u][k]] # <<>>
      BY <3>1 DEF IInv, FieldTypes
    <3> QED BY <3>1, <3>2, <2>3
  <2>6. struct' = s BY DEF DefineProperty
  <2> QED BY <1>2, <1>3, <2>4, <2>5, <2>6 DEF FieldTypes
<1>5. ASSUME NEW u \in Structs, u \notin outgrown', u # s
      PROVE  u \notin outgrown /\ ~Contains(u, s)
  BY <1>5 DEF DefineProperty, Contains
<1>6. AllFinished'
  <2> SUFFICES ASSUME NEW u \in Structs, Complete(u)'
               PROVE  Finished(u)'
    BY DEF AllFinished
  <2>1. u # s /\ u \notin outgrown' BY DEF Complete, DefineProperty
  <2>2. Finished(u) BY <1>2, <1>5, <2>1, TypesAssumption DEF IInv, AllFinished, Complete
  <2> QED BY <1>2, <1>5, <2>1, <2>2, OthersKept
<1>7. InLoop'
  <2>1. \A u \in Structs : Contains(u, s)' => u \in outgrown'
    <3> SUFFICES ASSUME NEW u \in Structs, Contains(u, s)' PROVE u \in outgrown'
      OBVIOUS
    <3>1. u # s BY <1>4 DEF FieldTypes, Contains
    <3>2. Contains(u, s) BY <1>2, <3>1 DEF Contains
    <3> QED BY <3>1, <3>2 DEF DefineProperty, Contains
  <2>2. Covered(s, 0)'
    <3>1. alignment'[s] = 0 BY DEF DefineProperty, IInv, TypeOK
    <3> QED BY <3>1 DEF Covered
  <2>3. /\ struct' = s /\ loop' = "align" /\ i' = 1 /\ s \notin outgrown' /\ i' - 1 = 0
    BY DEF DefineProperty
  <2>4. i' \in 1 .. Len(fields'[s]) BY <1>3, <2>3
  <2>5. Covered(struct, i - 1)' BY <2>2, <2>3
  <2> QED BY <1>2, <2>1, <2>3, <2>4, <2>5 DEF InLoop
<1>8. InstanceOK' /\ ReadsBack'
  <2>1. ASSUME NEW u \in Structs, u = instance
        PROVE  u # s /\ created'[u] /\ size'[u] = size[u] /\ fields'[u] = fields[u]
    BY <1>2, <2>1, TypesAssumption DEF IInv, InstanceOK
  <2>2. ASSUME NEW u \in Structs, u = instance, u \notin outgrown'
        PROVE  /\ u \notin outgrown
               /\ \A k \in DOMAIN fields[u] : Occupied(u, k)' = Occupied(u, k)
    BY <1>2, <1>5, <2>1, <2>2, OthersKept
  <2>3. UNCHANGED <<instanceVars>> BY DEF DefineProperty
  <2> QED BY <2>1, <2>2, <2>3, InstanceKept
<1> QED BY <1>1, <1>4, <1>6, <1>7, <1>8 DEF IInv

\* What a step of a loop leaves alone: the other structures, the instance, and
\* the sizes and alignments of the types of the fields it lays out.
LEMMA LoopFrame ==
  ASSUME IInv, NEW x \in Structs, x = struct, loop # "none",
         fields' = fields, outgrown' = outgrown, created' = created,
         UNCHANGED <<instanceVars>>,
         \A t \in Structs \ {x} : /\ offset'[t] = offset[t]
                                  /\ size'[t] = size[t] /\ alignment'[t] = alignment[t]
  PROVE  /\ \A u \in Structs \ {x} : u \notin outgrown => Finished(u)'
         /\ InstanceOK' /\ ReadsBack'
         /\ \A k \in DOMAIN fields[x] :
              /\ SizeOf(fields[x][k])' = SizeOf(fields[x][k])
              /\ AlignmentOf(fields[x][k])' = AlignmentOf(fields[x][k])
              /\ SizeOf(fields[x][k]) \in Nat \ {0}
              /\ AlignmentOf(fields[x][k]) \in Alignments
<1>1. ASSUME NEW u \in Structs \ {x}, u \notin outgrown
      PROVE  /\ Finished(u)'
             /\ \A k \in DOMAIN fields[u] : Occupied(u, k)' = Occupied(u, k)
  <2>1. ~Contains(u, x) BY <1>1 DEF IInv, InLoop
  <2>2. Finished(u) BY <1>1 DEF IInv, AllFinished, Complete
  <2> QED BY <1>1, <2>1, <2>2, OthersKept
<1>2. \A u \in Structs : u = instance => u # x /\ created'[u]
  BY TypesAssumption DEF IInv, InstanceOK, InLoop
<1>3. InstanceOK' /\ ReadsBack' BY <1>1, <1>2, InstanceKept
<1>4. ASSUME NEW k \in DOMAIN fields[x]
      PROVE  /\ SizeOf(fields[x][k])' = SizeOf(fields[x][k])
             /\ AlignmentOf(fields[x][k])' = AlignmentOf(fields[x][k])
             /\ SizeOf(fields[x][k]) \in Nat \ {0}
             /\ AlignmentOf(fields[x][k]) \in Alignments
  <2>1. fields[x][k] \in Structs => fields[x][k] # x BY DEF IInv, FieldTypes
  <2>2. fields[x][k] \in Types /\ fields[x][k] # struct
    BY <2>1, SizesAndAlignments DEF IInv
  <2>3. /\ SizeOf(fields[x][k])' = SizeOf(fields[x][k])
        /\ AlignmentOf(fields[x][k])' = AlignmentOf(fields[x][k])
    BY <2>1 DEF SizeOf, AlignmentOf, IsPointer
  <2> QED BY <2>2, <2>3, SizesAndAlignments DEF IInv
<1> QED BY <1>1, <1>3, <1>4

LEMMA AlignStepIInv ==
  ASSUME IInv, AlignStep
  PROVE  IInv'
<1>0. PICK x \in Structs : x = struct
  BY DEF IInv, TypeOK, AlignStep
<1>1. /\ loop = "align" /\ fields' = fields /\ offset' = offset /\ size' = size
      /\ created' = created /\ outgrown' = outgrown /\ struct' = struct
      /\ UNCHANGED <<instanceVars>>
  BY DEF AlignStep
<1>n. PICK n \in Nat : n = i BY DEF IInv, TypeOK
<1> DEFINE a == AlignmentOf(fields[x][n])
<1>2. alignment' = [alignment EXCEPT ![x] = IF a > @ THEN a ELSE @]
  BY <1>0, <1>n DEF AlignStep
<1>3. /\ n \in 1 .. Len(fields[x]) /\ DOMAIN fields[x] = 1 .. Len(fields[x])
      /\ Len(fields[x]) \in Nat
      /\ alignment[x] \in Alignments \cup {0} /\ DOMAIN alignment = Structs
      /\ size[x] = 0 /\ Covered(x, n - 1)
  BY <1>0, <1>1, <1>n DEF IInv, InLoop, TypeOK
<1>4. /\ \A u \in Structs \ {x} : u \notin outgrown => Finished(u)'
      /\ InstanceOK' /\ ReadsBack'
      /\ \A k \in DOMAIN fields[x] :
           /\ AlignmentOf(fields[x][k])' = AlignmentOf(fields[x][k])
           /\ AlignmentOf(fields[x][k]) \in Alignments
  BY <1>0, <1>1, <1>2, <1>3, LoopFrame
<1>5. a \in Alignments BY <1>3, <1>4
<1> HIDE DEF a
<1>6. /\ alignment'[x] \in Alignments /\ a <= alignment'[x] /\ alignment[x] <= alignment'[x]
      /\ \A u \in Structs \ {x} : alignment'[u] = alignment[u]
  BY <1>2, <1>3, <1>5 DEF Alignments
<1>7. Covered(x, n)'
  <2>1. ASSUME NEW k \in 1 .. n
        PROVE  AlignmentOf(fields[x][k]) <= alignment'[x]
    <3>1. CASE k = n BY <3>1, <1>6 DEF a
    <3>2. CASE k # n
      <4>1. k \in 1 .. n - 1 /\ k \in DOMAIN fields[x] BY <3>2, <1>3, <2>1
      <4>2. AlignmentOf(fields[x][k]) <= alignment[x] BY <4>1, <1>3 DEF Covered
      <4> QED BY <4>1, <4>2, <1>3, <1>4, <1>6 DEF Alignments
    <3> QED BY <3>1, <3>2
  <2>2. \A k \in 1 .. n : k \in DOMAIN fields[x] BY <1>3
  <2>3. \A k \in 1 .. n : AlignmentOf(fields[x][k])' <= alignment'[x]
    BY <2>1, <2>2, <1>4
  <2>4. \E k \in 1 .. n : alignment'[x] = AlignmentOf(fields[x][k])'
    <3>1. CASE alignment'[x] = a
      <4>1. n \in 1 .. n /\ a = AlignmentOf(fields[x][n])' BY <1>3, <1>4 DEF a
      <4> QED BY <3>1, <4>1
    <3>2. CASE alignment'[x] # a
      <4>1. alignment'[x] = alignment[x] /\ alignment[x] # 0
        BY <3>2, <1>2, <1>3, <1>5 DEF Alignments
      <4>2. PICK k \in 1 .. n - 1 : alignment[x] = AlignmentOf(fields[x][k])
        BY <4>1, <1>3 DEF Covered
      <4>3. k \in 1 .. n BY <1>3
      <4> QED BY <4>1, <4>2, <4>3, <2>2, <1>4
    <3> QED BY <3>1, <3>2
  <2> QED BY <2>3, <2>4, <1>6, <1>1, <1>3 DEF Covered
<1>8. TypeOK'
  BY <1>0, <1>1, <1>2, <1>6, <1>n DEF IInv, TypeOK, AlignStep, instanceVars
<1>9. FieldTypes' BY <1>0, <1>1, <1>6 DEF IInv, FieldTypes
<1>10. AllFinished' BY <1>0, <1>1, <1>4 DEF AllFinished, Complete
<1>11. InLoop'
  <2>1. CASE n = Len(fields[x])
    <3>1. loop' = "add" /\ i' = 1 BY <2>1, <1>0, <1>n DEF AlignStep
    <3>2. Placed(x, 0)' BY DEF Placed
    <3> QED BY <3>1, <3>2, <2>1, <1>0, <1>1, <1>3, <1>7 DEF IInv, InLoop, Contains
  <2>2. CASE n # Len(fields[x])
    <3>1. loop' = "align" /\ i' = n + 1 BY <2>2, <1>0, <1>1, <1>n DEF AlignStep
    <3> QED BY <3>1, <2>2, <1>0, <1>1, <1>3, <1>7 DEF IInv, InLoop, Contains
  <2> QED BY <2>1, <2>2
<1> QED BY <1>4, <1>8, <1>9, <1>10, <1>11 DEF IInv

LEMMA AddTypeIInv ==
  ASSUME IInv, AddType
  PROVE  IInv'
<1>0. PICK x \in Structs : x = struct
  BY DEF IInv, TypeOK, AddType
<1>n. PICK n \in Nat : n = i BY DEF IInv, TypeOK
<1>1. /\ loop = "add" /\ fields' = fields /\ alignment' = alignment
      /\ created' = created /\ outgrown' = outgrown /\ struct' = struct
      /\ UNCHANGED <<instanceVars>>
  BY DEF AddType
<1> DEFINE t == fields[x][n]
<1> DEFINE o == size[x] + Padding(size[x], AlignmentOf(t))
<1>2. /\ offset' = [offset EXCEPT ![x][n] = o]
      /\ size' = [size EXCEPT ![x] = o + SizeOf(t)]
  BY <1>0, <1>n DEF AddType
<1>3. /\ n \in 1 .. Len(fields[x]) /\ DOMAIN fields[x] = 1 .. Len(fields[x])
      /\ Len(fields[x]) \in Nat
      /\ offset \in [Structs -> Seq(Nat)] /\ Len(offset[x]) = Len(fields[x])
      /\ size \in [Structs -> Nat] /\ size[x] \in Nat
      /\ Covered(x, Len(fields[x])) /\ Placed(x, n - 1)
      /\ size[x] = IF n = 1 THEN 0 ELSE End(x, n - 1)
  BY <1>0, <1>1, <1>n DEF IInv, InLoop, TypeOK
<1>4. /\ \A u \in Structs \ {x} : u \notin outgrown => Finished(u)'
      /\ InstanceOK' /\ ReadsBack'
      /\ \A k \in DOMAIN fields[x] :
           /\ SizeOf(fields[x][k])' = SizeOf(fields[x][k])
           /\ AlignmentOf(fields[x][k])' = AlignmentOf(fields[x][k])
           /\ SizeOf(fields[x][k]) \in Nat \ {0}
           /\ AlignmentOf(fields[x][k]) \in Alignments
  BY <1>0, <1>1, <1>2, <1>3, LoopFrame
<1>5. /\ o \in Nat /\ size[x] <= o /\ o - size[x] < AlignmentOf(t)
      /\ o % AlignmentOf(t) = 0
      /\ size[x] = 0 => o = 0
      /\ SizeOf(t) \in Nat \ {0} /\ AlignmentOf(t) \in Alignments
  <2>1. AlignmentOf(t) \in Alignments /\ SizeOf(t) \in Nat \ {0} BY <1>3, <1>4
  <2>2. /\ Padding(size[x], AlignmentOf(t)) \in Nat
        /\ Padding(size[x], AlignmentOf(t)) < AlignmentOf(t)
        /\ (size[x] + Padding(size[x], AlignmentOf(t))) % AlignmentOf(t) = 0
        /\ size[x] = 0 => Padding(size[x], AlignmentOf(t)) = 0
    BY <1>3, <2>1, PaddingAligns
  <2> HIDE DEF t
  <2> QED BY <1>3, <2>1, <2>2 DEF Alignments
<1> HIDE DEF o
<1>6. /\ offset'[x][n] = o
      /\ \A k \in (1 .. Len(fields[x])) \ {n} : offset'[x][k] = offset[x][k]
      /\ size'[x] = o + SizeOf(t)
      /\ \A u \in Structs \ {x} : size'[u] = size[u] /\ offset'[u] = offset[u]
      /\ \A k \in 1 .. Len(fields[x]) : offset[x][k] \in Nat
      /\ offset' \in [Structs -> Seq(Nat)] /\ Len(offset'[x]) = Len(offset[x])
      /\ size' \in [Structs -> Nat]
  <2>1. size'[x] = o + SizeOf(t) /\ size' \in [Structs -> Nat] BY <1>2, <1>3, <1>5
  <2>2. offset[x] \in Seq(Nat) /\ DOMAIN offset[x] = 1 .. Len(fields[x]) BY <1>3
  <2>3. offset'[x] = [offset[x] EXCEPT ![n] = o] BY <1>2, <1>3
  <2>4. offset'[x] \in Seq(Nat) /\ Len(offset'[x]) = Len(offset[x])
    BY <2>2, <2>3, <1>3, <1>5
  <2>5. offset' \in [Structs -> Seq(Nat)] BY <1>2, <1>3, <2>3, <2>4
  <2> QED BY <1>2, <1>3, <2>1, <2>2, <2>3, <2>4, <2>5
<1>7. /\ End(x, n)' = size'[x] /\ End(x, n)' \in Nat
      /\ \A k \in 1 .. n - 1 : /\ End(x, k)' = End(x, k) /\ End(x, k) \in Nat
                               /\ End(x, k) <= size[x]
  <2>1. End(x, n)' = o + SizeOf(t) BY <1>1, <1>3, <1>4, <1>6 DEF End
  <2>2. ASSUME NEW k \in 1 .. n - 1
        PROVE  End(x, k)' = End(x, k) /\ End(x, k) \in Nat /\ End(x, k) <= size[x]
    <3>1. k \in DOMAIN fields[x] /\ k # n BY <1>3
    <3> HIDE DEF t
    <3>2. /\ offset'[x][k] = offset[x][k] /\ offset[x][k] \in Nat
          /\ SizeOf(fields[x][k])' = SizeOf(fields[x][k]) /\ SizeOf(fields[x][k]) \in Nat
      BY <1>3, <1>4, <1>6, <3>1
    <3>3. End(x, k)' = End(x, k) /\ End(x, k) \in Nat BY <3>2 DEF End
    <3> QED BY <1>3, <3>3 DEF Placed
  <2> HIDE DEF t
  <2> QED BY <2>1, <2>2, <1>5, <1>6
<1>8. Placed(x, n)'
  <2>1. /\ o % AlignmentOf(t) = 0
        /\ AlignmentOf(t)' = AlignmentOf(t)
        /\ n = 1 => o = 0
        /\ n > 1 => o - End(x, n - 1)' < AlignmentOf(t)
        /\ \A j \in 1 .. n - 1 : End(x, j)' <= o
    <3>1. AlignmentOf(t)' = AlignmentOf(t) BY <1>3, <1>4, <1>1
    <3>2. n > 1 => n - 1 \in 1 .. n - 1 BY <1>3
    <3> HIDE DEF t
    <3> QED BY <1>3, <1>5, <1>7, <3>1, <3>2 DEF Alignments
  <2>2. ASSUME NEW k \in 1 .. n - 1
        PROVE  /\ offset'[x][k] % AlignmentOf(fields[x][k])' = 0
               /\ End(x, k)' <= size'[x]
               /\ \A j \in 1 .. k - 1 : End(x, j)' <= offset'[x][k]
               /\ k = 1 => offset'[x][k] = 0
               /\ k > 1 => offset'[x][k] - End(x, k - 1)' < AlignmentOf(fields[x][k])'
    <3>1. /\ k \in DOMAIN fields[x] /\ offset'[x][k] = offset[x][k]
          /\ AlignmentOf(fields[x][k])' = AlignmentOf(fields[x][k])
      <4>1. k \in DOMAIN fields[x] /\ k # n BY <1>3
      <4> HIDE DEF t
      <4>2. offset'[x][k] = offset[x][k] BY <1>6, <4>1
      <4>3. AlignmentOf(fields[x][k])' = AlignmentOf(fields[x][k]) BY <1>4, <4>1
      <4> QED BY <4>1, <4>2, <4>3
    <3>2. End(x, k)' <= size'[x]
      <4>1. End(x, k)' \in Nat /\ End(x, k)' <= size[x] BY <1>7
      <4>2. size'[x] = o + SizeOf(t) BY <1>6
      <4> HIDE DEF t
      <4> QED BY <1>3, <1>5, <4>1, <4>2
    <3>3. \A j \in 1 .. k - 1 : j \in 1 .. n - 1 BY <1>3
    <3>4. k > 1 => k - 1 \in 1 .. n - 1 BY <1>3
    <3> QED BY <1>3, <1>7, <3>1, <3>2, <3>3, <3>4 DEF Placed
  <2>3. End(x, n)' <= size'[x] BY <1>7
  <2>4. fields'[x][n] = t BY <1>1
  <2>5. \A k \in 1 .. n : k = n \/ k \in 1 .. n - 1 BY <1>3
  <2> HIDE DEF t
  <2>6. ASSUME NEW k \in 1 .. n
        PROVE  /\ offset'[x][k] % AlignmentOf(fields[x][k])' = 0
               /\ End(x, k)' <= size'[x]
               /\ \A j \in 1 .. k - 1 : End(x, j)' <= offset'[x][k]
               /\ k = 1 => offset'[x][k] = 0
               /\ k > 1 => offset'[x][k] - End(x, k - 1)' < AlignmentOf(fields[x][k])'
    <3>1. CASE k = n
      BY <3>1, <2>1, <2>3, <1>6 DEF t
    <3> QED BY <3>1, <2>2, <2>5
  <2> QED BY <2>6 DEF Placed
<1>9. TypeOK'
  <2>1. \A u \in Structs : Len(offset'[u]) = Len(fields'[u])
    <3>1. \A u \in Structs : Len(offset[u]) = Len(fields[u]) BY DEF IInv, TypeOK
    <3> QED BY <3>1, <1>1, <1>6
  <2>2. i' \in Nat /\ loop' \in {"add", "pad"} BY <1>1, <1>n DEF AddType
  <2>3. struct' # NoStruct /\ struct' \in Structs BY <1>0, <1>1, TypesAssumption
  <2>4. offset' \in [Structs -> Seq(Nat)] /\ size' \in [Structs -> Nat] BY <1>6
  <2>5. /\ fields' \in [Structs -> Seq(Types)] /\ alignment' \in [Structs -> Alignments \cup {0}]
        /\ created' \in [Structs -> BOOLEAN]
        /\ instance' \in Structs \cup {NoStruct} /\ written' \subseteq Nat
        /\ outgrown' \subseteq Structs /\ misplaced' \in BOOLEAN
    BY <1>1 DEF IInv, TypeOK, instanceVars
  <2>6. (loop' = "none") <=> (struct' = NoStruct) BY <2>2, <2>3
  <2> QED BY <2>1, <2>2, <2>3, <2>4, <2>5, <2>6 DEF TypeOK
<1>10. FieldTypes'
  <2>1. fields[x] # <<>> BY <1>3
  <2> QED BY <2>1, <1>0, <1>1, <1>6 DEF IInv, FieldTypes
<1>11. AllFinished' BY <1>0, <1>1, <1>4 DEF AllFinished, Complete
<1>12. Covered(x, Len(fields[x]))' BY <1>1, <1>3, <1>4 DEF Covered
<1>13. InLoop'
  <2>0. End(x, n)' = size'[x] /\ struct' = x /\ x \notin outgrown' /\ ~created'[x]
        /\ \A u \in Structs : Contains(u, struct)' => u \in outgrown'
    BY <1>0, <1>1, <1>7 DEF IInv, InLoop, Contains
  <2>1. CASE n = Len(fields[x])
    <3>1. loop' = "pad" /\ i' = 1 BY <2>1, <1>0, <1>n DEF AddType
    <3>2. Placed(x, Len(fields[x]))' /\ size'[x] = End(x, Len(fields[x]))'
      BY <1>1, <1>7, <1>8, <2>1
    <3> QED BY <3>1, <3>2, <2>0, <2>1, <1>1, <1>3, <1>12 DEF InLoop
  <2>2. CASE n # Len(fields[x])
    <3>1. loop' = "add" /\ i' = n + 1 BY <2>2, <1>0, <1>1, <1>n DEF AddType
    <3> QED BY <3>1, <2>0, <2>2, <1>1, <1>3, <1>7, <1>8, <1>12 DEF InLoop
  <2> QED BY <2>1, <2>2
<1> QED BY <1>4, <1>9, <1>10, <1>11, <1>13 DEF IInv

LEMMA FinalPaddingIInv ==
  ASSUME IInv, FinalPadding
  PROVE  IInv'
<1>0. PICK x \in Structs : x = struct
  BY DEF IInv, TypeOK, FinalPadding
<1>n. PICK n \in Nat : n = Len(fields[x]) BY DEF IInv, TypeOK
<1>1. /\ loop = "pad" /\ fields' = fields /\ offset' = offset /\ alignment' = alignment
      /\ created' = created /\ outgrown' = outgrown /\ struct' = NoStruct /\ loop' = "none"
      /\ i' = i /\ UNCHANGED <<instanceVars>>
  BY DEF FinalPadding
<1>2. /\ n >= 1 /\ DOMAIN fields[x] = 1 .. n /\ fields[x] # <<>>
      /\ size \in [Structs -> Nat] /\ size[x] \in Nat
      /\ Covered(x, n) /\ alignment[x] \in Alignments
      /\ Placed(x, n) /\ size[x] = End(x, n)
      /\ x \notin outgrown
  BY <1>0, <1>1, <1>n DEF IInv, InLoop, TypeOK, Covered
<1> DEFINE left == size[x] % alignment[x]
<1> DEFINE m == IF left > 0 THEN size[x] + (alignment[x] - left) ELSE size[x]
<1>3. size' = [size EXCEPT ![x] = m] BY <1>0 DEF FinalPadding
<1>4. m \in Nat /\ size[x] <= m /\ m - size[x] < alignment[x] /\ m % alignment[x] = 0
  BY <1>2, SizeRoundsUp
<1> HIDE DEF m
<1>5. /\ size'[x] = m /\ size' \in [Structs -> Nat]
      /\ \A u \in Structs \ {x} : size'[u] = size[u]
  BY <1>2, <1>3, <1>4
<1>6. /\ \A u \in Structs \ {x} : u \notin outgrown => Finished(u)'
      /\ InstanceOK' /\ ReadsBack'
      /\ \A k \in DOMAIN fields[x] :
           /\ SizeOf(fields[x][k])' = SizeOf(fields[x][k])
           /\ AlignmentOf(fields[x][k])' = AlignmentOf(fields[x][k])
           /\ SizeOf(fields[x][k]) \in Nat \ {0}
           /\ AlignmentOf(fields[x][k]) \in Alignments
  BY <1>0, <1>1, <1>5, LoopFrame
<1>7. \A k \in 1 .. n : /\ End(x, k)' = End(x, k) /\ End(x, k) \in Nat
                        /\ End(x, k) <= size[x]
  <2>1. \A k \in 1 .. n : offset[x][k] \in Nat
    BY <1>2, <1>n DEF IInv, TypeOK
  <2> SUFFICES ASSUME NEW k \in 1 .. n
               PROVE  End(x, k)' = End(x, k) /\ End(x, k) \in Nat /\ End(x, k) <= size[x]
    OBVIOUS
  <2>2. /\ offset'[x][k] = offset[x][k] /\ offset[x][k] \in Nat
        /\ SizeOf(fields[x][k])' = SizeOf(fields[x][k]) /\ SizeOf(fields[x][k]) \in Nat
    BY <1>1, <1>2, <1>6, <2>1
  <2>3. End(x, k)' = End(x, k) /\ End(x, k) \in Nat BY <2>2 DEF End
  <2> QED BY <1>2, <2>3 DEF Placed
<1>8. Finished(x)'
  <2>1. Placed(x, n)'
    <3> SUFFICES ASSUME NEW k \in 1 .. n
                 PROVE  /\ offset'[x][k] % AlignmentOf(fields[x][k])' = 0
                        /\ End(x, k)' <= size'[x]
                        /\ \A j \in 1 .. k - 1 : End(x, j)' <= offset'[x][k]
                        /\ k = 1 => offset'[x][k] = 0
                        /\ k > 1 => offset'[x][k] - End(x, k - 1)' < AlignmentOf(fields[x][k])'
      BY DEF Placed
    <3>1. End(x, k)' <= size'[x]
      <4>1. End(x, k)' \in Nat /\ End(x, k)' <= size[x] BY <1>7
      <4> QED BY <1>2, <1>4, <1>5, <4>1
    <3>2. /\ \A j \in 1 .. k - 1 : j \in 1 .. n
          /\ k > 1 => k - 1 \in 1 .. n
          /\ AlignmentOf(fields[x][k])' = AlignmentOf(fields[x][k])
      BY <1>2, <1>6
    <3> QED BY <1>1, <1>2, <1>7, <3>1, <3>2 DEF Placed
  <2>2. Covered(x, n)' BY <1>1, <1>2, <1>6 DEF Covered
  <2>3. size'[x] % alignment'[x] = 0 BY <1>1, <1>4, <1>5
  <2>4. size'[x] - End(x, n)' < alignment'[x]
    <3>1. End(x, n)' = size[x] BY <1>2, <1>7
    <3> QED BY <3>1, <1>1, <1>4, <1>5
  <2> QED BY <2>1, <2>2, <2>3, <2>4, <1>n, <1>1 DEF Finished
<1>9. TypeOK' BY <1>1, <1>5 DEF IInv, TypeOK, instanceVars
<1>10. FieldTypes'
  <2>1. m > 0
    <3>1. End(x, n) = offset[x][n] + SizeOf(fields[x][n]) BY DEF End
    <3>2. n \in DOMAIN fields[x] BY <1>2
    <3>3. SizeOf(fields[x][n]) \in Nat \ {0} BY <1>6, <3>2
    <3>4. offset[x][n] \in Nat BY <1>2, <1>n DEF IInv, TypeOK
    <3> QED BY <3>1, <3>3, <3>4, <1>2, <1>4
  <2> QED BY <2>1, <1>0, <1>1, <1>2, <1>5 DEF IInv, FieldTypes
<1>11. AllFinished' BY <1>0, <1>1, <1>6, <1>8 DEF AllFinished, Complete
<1>12. InLoop' BY <1>1 DEF InLoop
<1> QED BY <1>6, <1>9, <1>10, <1>11, <1>12 DEF IInv

\* Steps of an instance leave the types as they are.
LEMMA TypesKept ==
  ASSUME IInv, loop = "none", UNCHANGED <<fields, offset, size, alignment, outgrown>>,
         UNCHANGED <<loopVars>>
  PROVE  /\ FieldTypes' /\ AllFinished' /\ InLoop'
         /\ \A u \in Structs : \A k \in DOMAIN fields[u] : Occupied(u, k)' = Occupied(u, k)
<1> USE DEF IInv, loopVars
<1>1. FieldTypes' BY DEF FieldTypes
<1>2. \A u \in Structs : /\ Finished(u) => Finished(u)'
                         /\ \A k \in DOMAIN fields[u] : Occupied(u, k)' = Occupied(u, k)
  BY FinishedKept
<1>3. AllFinished' BY <1>2 DEF AllFinished, Complete
<1>4. InLoop' BY DEF InLoop
<1> QED BY <1>1, <1>2, <1>3, <1>4

LEMMA NewInstanceIInv ==
  ASSUME IInv, NEW s \in Structs, NewInstance(s)
  PROVE  IInv'
<1>1. FieldTypes' /\ AllFinished' /\ InLoop' BY TypesKept DEF NewInstance
<1>2. TypeOK' BY TypesAssumption DEF IInv, TypeOK, NewInstance, loopVars
<1>3. InstanceOK' BY DEF IInv, TypeOK, InstanceOK, NewInstance
<1>4. ReadsBack' BY DEF ReadsBack, NewInstance
<1> QED BY <1>1, <1>2, <1>3, <1>4 DEF IInv

\* An assignment to field n of the instance x: no byte of another field changes.
LEMMA AssignmentKeeps ==
  ASSUME IInv, loop = "none", NEW x \in Structs, x = instance, instance' = instance,
         NEW n \in DOMAIN fields[x],
         UNCHANGED <<fields, offset, size, alignment, outgrown>>, UNCHANGED <<loopVars>>,
         created' \in [Structs -> BOOLEAN], \A u \in Structs : created[u] => created'[u],
         bytes' = [b \in DOMAIN bytes |-> IF b \in Occupied(x, n) THEN n ELSE bytes[b]],
         written' = written \cup {n}, misplaced' = misplaced
  PROVE  IInv'
<1>1. /\ FieldTypes' /\ AllFinished' /\ InLoop'
      /\ \A k \in DOMAIN fields[x] : Occupied(x, k)' = Occupied(x, k)
  BY TypesKept
<1>2. x # NoStruct /\ DOMAIN fields[x] = 1 .. Len(fields[x])
  BY TypesAssumption DEF IInv, TypeOK
<1>3. created[x] /\ DOMAIN bytes = 0 .. size[x] - 1 /\ written \subseteq DOMAIN fields[x]
  BY <1>2 DEF IInv, InstanceOK
<1>4. TypeOK'
  <2>1. n \in Nat BY <1>2
  <2> QED BY <2>1 DEF IInv, TypeOK, loopVars
<1>5. InstanceOK' BY <1>2, <1>3 DEF InstanceOK
<1>6. ASSUME x \notin outgrown, ~misplaced, NEW k \in written', NEW b \in Occupied(x, k)
      PROVE  b \in DOMAIN bytes' /\ bytes'[b] = k
  <2>1. Finished(x)
    BY <1>6, <1>2 DEF IInv, AllFinished, Complete, TypeOK
  <2>2. k \in DOMAIN fields[x] BY <1>3
  <2>3. CASE k = n
    <3>1. offset[x][n] \in Nat BY DEF IInv, TypeOK
    <3>2. End(x, n) <= size[x] /\ End(x, n) \in Int
      <4>1. SizeOf(fields[x][n]) \in Nat BY SizesAndAlignments DEF IInv
      <4> QED BY <2>1, <3>1, <4>1, <1>2 DEF Finished, Placed, End
    <3>3. size[x] \in Nat BY DEF IInv, TypeOK
    <3>4. b \in 0 .. size[x] - 1 BY <2>3, <3>1, <3>2, <3>3 DEF Occupied
    <3> QED BY <2>3, <3>4, <1>3
  <2>4. CASE k # n
    <3>1. k \in written BY <2>4
    <3>2. b \in DOMAIN bytes /\ bytes[b] = k BY <1>2, <1>6, <3>1 DEF IInv, ReadsBack
    <3>3. b \notin Occupied(x, n) BY <2>1, <2>2, <2>4, FieldsDisjoint DEF IInv
    <3> QED BY <3>2, <3>3
  <2> QED BY <2>3, <2>4
<1>7. ReadsBack'
  <2>1. x = instance' OBVIOUS
  <2> QED BY <1>1, <1>3, <1>6, <2>1 DEF ReadsBack
<1> QED BY <1>1, <1>4, <1>5, <1>7 DEF IInv

LEMMA InstanceStepIInv ==
  ASSUME IInv, NEW k \in 1 .. MaxFields,
         SetValue(k) \/ SetObject(k) \/ SetStruct(k) \/ GetStruct(k)
  PROVE  IInv'
<1>0. PICK x \in Structs : x = instance
  BY DEF IInv, TypeOK, SetValue, SetObject, SetStruct, GetStruct, Field
<1>1. k \in DOMAIN fields[x] /\ loop = "none"
  BY <1>0 DEF SetValue, SetObject, SetStruct, GetStruct, Field
<1>2. CASE SetValue(k)
  BY <1>0, <1>1, <1>2, AssignmentKeeps DEF SetValue, typeVars, IInv, TypeOK
<1>3. CASE SetObject(k)
  <2>1. created' \in [Structs -> BOOLEAN] /\ \A u \in Structs : created[u] => created'[u]
    BY <1>3 DEF SetObject, IInv, TypeOK
  <2> QED BY <1>0, <1>1, <1>3, <2>1, AssignmentKeeps DEF SetObject
<1>4. CASE SetStruct(k)
  <2>0. /\ k \in Nat /\ offset[x][k] \in Nat
        /\ instance' = instance /\ UNCHANGED <<fields, offset, size, alignment, outgrown>>
        /\ created' = created /\ UNCHANGED <<loopVars>> /\ written' = written \cup {k}
        /\ misplaced' = (misplaced \/ offset[x][k] > 0)
    BY <1>0, <1>1, <1>4 DEF SetStruct, typeVars, IInv, TypeOK
  <2>1. CASE offset[x][k] = 0
    <3>1. bytes' = [b \in DOMAIN bytes |-> IF b \in Occupied(x, k) THEN k ELSE bytes[b]]
      <4> DEFINE o == 2 * offset[x][k]
      <4>1. o = offset[x][k] BY <2>1
      <4>2. bytes' = [b \in DOMAIN bytes |->
                       IF b \in o .. o + SizeOf(fields[x][k]) - 1 THEN k ELSE bytes[b]]
        BY <1>0, <1>4 DEF SetStruct
      <4> HIDE DEF o
      <4>3. SizeOf(fields[x][k]) \in Nat BY <1>1, SizesAndAlignments DEF IInv
      <4>4. Occupied(x, k) = o .. o + SizeOf(fields[x][k]) - 1
        BY <2>0, <4>1, <4>3 DEF Occupied, End
      <4> QED BY <4>2, <4>4
    <3>2. misplaced' = misplaced BY <2>0, <2>1 DEF IInv, TypeOK
    <3> QED BY <1>0, <1>1, <2>0, <3>1, <3>2, AssignmentKeeps DEF IInv, TypeOK
  <2>2. CASE offset[x][k] > 0
    <3>1. FieldTypes' /\ AllFinished' /\ InLoop' BY <1>1, <2>0, TypesKept
    <3>2. TypeOK' BY <2>0 DEF IInv, TypeOK, loopVars
    <3>3. DOMAIN bytes' = DOMAIN bytes /\ bytes' = [b \in DOMAIN bytes |-> bytes'[b]]
      BY <1>4 DEF SetStruct
    <3>4. InstanceOK' BY <1>0, <1>1, <2>0, <3>3 DEF IInv, InstanceOK
    <3>5. ReadsBack' BY <2>0, <2>2 DEF ReadsBack
    <3> QED BY <3>1, <3>2, <3>4, <3>5 DEF IInv
  <2> QED BY <2>0, <2>1, <2>2
<1>5. CASE GetStruct(k)
  <2>1. created' \in [Structs -> BOOLEAN] /\ \A u \in Structs : created[u] => created'[u]
    BY <1>5 DEF GetStruct, IInv, TypeOK
  <2>2. UNCHANGED <<instanceVars>> BY <1>5 DEF GetStruct
  <2>3. /\ FieldTypes' /\ AllFinished' /\ InLoop'
        /\ \A j \in DOMAIN fields[x] : Occupied(x, j)' = Occupied(x, j)
    BY <1>1, <1>5, TypesKept DEF GetStruct
  <2>4. created[x] BY <1>0, TypesAssumption DEF IInv, InstanceOK
  <2>5. InstanceOK' /\ ReadsBack'
    BY <1>0, <1>5, <2>1, <2>2, <2>3, <2>4, InstanceKept DEF GetStruct
  <2>6. TypeOK' BY <1>5, <2>1 DEF GetStruct, IInv, TypeOK, loopVars, instanceVars
  <2> QED BY <2>3, <2>5, <2>6 DEF IInv
<1> QED BY <1>2, <1>3, <1>4, <1>5

LEMMA Invariant == Spec => []IInv
<1>1. Init => IInv BY InitIInv
<1>2. IInv /\ [Next]_vars => IInv'
  <2> SUFFICES ASSUME IInv, [Next]_vars PROVE IInv' OBVIOUS
  <2>1. ASSUME NEW s \in Structs, NewInstance(s) PROVE IInv' BY <2>1, NewInstanceIInv
  <2>2. ASSUME NEW s \in Structs, NEW t \in Types, DefineProperty(s, t) PROVE IInv'
    BY <2>2, DefinePropertyIInv
  <2>3. CASE Recalc BY <2>3, AlignStepIInv, AddTypeIInv, FinalPaddingIInv DEF Recalc
  <2>4. ASSUME NEW k \in 1 .. MaxFields,
               SetValue(k) \/ SetObject(k) \/ SetStruct(k) \/ GetStruct(k)
        PROVE  IInv'
    BY <2>4, InstanceStepIInv
  <2>5. CASE UNCHANGED vars
    <3>1. UNCHANGED typeVars /\ UNCHANGED loopVars /\ UNCHANGED instanceVars
      BY <2>5 DEF vars, typeVars, loopVars, instanceVars
    <3>2. TypeOK'
      BY <3>1 DEF typeVars, loopVars, instanceVars, IInv, TypeOK
    <3>3. FieldTypes'
      BY <3>1 DEF typeVars, loopVars, IInv, FieldTypes
    <3>4. AllFinished'
      <4>1. \A u \in Structs : Finished(u) => Finished(u)'
        BY <3>1, FinishedKept DEF typeVars, loopVars, instanceVars, IInv
      <4> QED
        BY <3>1, <4>1 DEF typeVars, loopVars, instanceVars, IInv, AllFinished, Complete
    <3>5. InLoop'
      BY <3>1 DEF typeVars, loopVars, instanceVars, IInv, InLoop, Placed, Covered,
                  End, SizeOf, AlignmentOf, IsPointer, Contains
    <3>6. InstanceOK' /\ ReadsBack'
      BY <3>1 DEF typeVars, loopVars, instanceVars, IInv, InstanceOK, ReadsBack, Occupied,
                  End, SizeOf, AlignmentOf, IsPointer
    <3> QED
      BY <3>2, <3>3, <3>4, <3>5, <3>6 DEF IInv
  <2> QED BY <2>1, <2>2, <2>3, <2>4, <2>5 DEF Next
<1> QED BY <1>1, <1>2, PTL DEF Spec

-----------------------------------------------------------------------------
(***************************************************************************)
(* Theorems.                                                               *)
(***************************************************************************)

\* The variables have the types that the loops of recalc rely on; in
\* particular an alignment is never anything but a power of two.
THEOREM TypeCorrect == Spec => []TypeOK
BY Invariant, PTL DEF IInv

\* recalc lays out any sequence of fields as C does: aligned, in order, without
\* overlap, and with a size that keeps an array of structures aligned.
THEOREM LayoutIsC == Spec => []LaidOutAsC
<1>1. IInv => LaidOutAsC
  <2> SUFFICES ASSUME IInv, NEW s \in Structs, Complete(s)
               PROVE  /\ \A k \in DOMAIN fields[s] :
                           /\ offset[s][k] % AlignmentOf(fields[s][k]) = 0
                           /\ alignment[s] % AlignmentOf(fields[s][k]) = 0
                           /\ End(s, k) <= size[s]
                           /\ \A j \in 1 .. k - 1 : End(s, j) <= offset[s][k]
                      /\ fields[s] # <<>> => size[s] % alignment[s] = 0
    BY DEF LaidOutAsC
  <2>1. Finished(s) BY DEF IInv, AllFinished
  <2>2. DOMAIN fields[s] = 1 .. Len(fields[s]) /\ Len(fields[s]) \in Nat
    BY DEF IInv, TypeOK
  <2>3. ASSUME NEW k \in DOMAIN fields[s]
        PROVE  alignment[s] % AlignmentOf(fields[s][k]) = 0
    <3>1. /\ AlignmentOf(fields[s][k]) <= alignment[s] /\ alignment[s] \in Alignments
      BY <2>1, <2>2 DEF Finished, Covered
    <3>2. fields[s][k] # struct
      <4>1. CASE loop = "none"
        <5>1. fields[s][k] \in Types BY SizesAndAlignments DEF IInv
        <5> QED BY <4>1, <5>1, TypesAssumption DEF IInv, TypeOK, Types
      <4>2. CASE loop # "none"
        BY <4>2 DEF IInv, InLoop, Contains, Complete
      <4> QED BY <4>1, <4>2
    <3>3. AlignmentOf(fields[s][k]) \in Alignments BY <3>2, SizesAndAlignments DEF IInv
    <3> QED BY <3>1, <3>3, LargestIsMultiple
  <2> QED BY <2>1, <2>2, <2>3 DEF Finished, Placed
<1> QED BY <1>1, Invariant, PTL

\* recalc wastes no byte: no field could begin earlier, and no smaller size
\* would do.
THEOREM LayoutIsTight == Spec => []NoSpareRoom
<1>1. IInv => NoSpareRoom
  <2> SUFFICES ASSUME IInv, NEW s \in Structs, Complete(s), fields[s] # <<>>
               PROVE  /\ offset[s][1] = 0
                      /\ \A k \in 2 .. Len(fields[s]) :
                           offset[s][k] - End(s, k - 1) < AlignmentOf(fields[s][k])
                      /\ size[s] - End(s, Len(fields[s])) < alignment[s]
    BY DEF NoSpareRoom
  <2>1. Finished(s) BY DEF IInv, AllFinished
  <2>2. Len(fields[s]) \in Nat \ {0} BY DEF IInv, TypeOK
  <2>3. /\ 1 \in 1 .. Len(fields[s])
        /\ \A k \in 2 .. Len(fields[s]) : k \in 1 .. Len(fields[s]) /\ k > 1
    BY <2>2
  <2> QED BY <2>1, <2>3 DEF Finished, Placed
<1> QED BY <1>1, Invariant, PTL

\* recalc makes of any sequence of fields what a C compiler makes of it, but for a
\* structure with a field whose type has grown since (outgrown).
THEOREM LayoutIsExactlyC == Spec => []ExactlyAsC
BY LayoutIsC, LayoutIsTight, PTL DEF ExactlyAsC

\* Whatever is assigned to the fields of an instance, a field keeps what was
\* last written to it, unless a structure was copied to an offset counted twice
\* (misplaced) or a nested type has grown since the layout was made (outgrown):
\* ReadsBack leaves these two out.
THEOREM FieldsReadBack == Spec => []ReadsBack
BY Invariant, PTL DEF IInv

-----------------------------------------------------------------------------
(***************************************************************************)
(* prep_cif.c: what is computed from a list, and the layout of libffi.     *)
(***************************************************************************)

\* Every set of naturals has a least element.
LEMMA Least ==
  ASSUME NEW T, T \subseteq Nat, T # {}
  PROVE  \E x \in T : \A y \in T : x <= y
<1> DEFINE R == OpToRel(<, Nat)
<1>1. IsWellFoundedOn(R, Nat)
  BY NatLessThanWellFounded
<1>2. ASSUME NEW x \in Nat, NEW y \in Nat, y < x PROVE <<y, x>> \in R
  BY <1>2 DEF OpToRel
<1> HIDE DEF R
<1>3. PICK x \in T : \A y \in T : ~ (<<y, x>> \in R)
  BY <1>1, WFMin, Zenon
<1>4. \A y \in T : ~ (y < x)
  BY <1>2, <1>3
<1> QED
  BY <1>4

\* A set of places of a list that has the first, and each after the one before.
LEMMA UpTo ==
  ASSUME NEW n \in Nat, NEW S, 0 \in S, \A k \in 1 .. n : k - 1 \in S => k \in S
  PROVE  \A k \in 0 .. n : k \in S
<1> DEFINE T == {k \in 0 .. n : k \notin S}
<1> SUFFICES ASSUME T # {} PROVE FALSE
  OBVIOUS
<1>1. T \subseteq Nat
  OBVIOUS
<1>2. PICK x \in T : \A y \in T : x <= y
  BY <1>1, Least
<1>3. x \in 1 .. n /\ x - 1 \in 0 .. n /\ ~ (x <= x - 1)
  BY <1>2
<1> QED
  BY <1>2, <1>3

\* f goes through n steps F from z.
Steps(f, n, V, z, F) ==
  f \in [0 .. n -> V] /\ f[0] = z /\ \A k \in 1 .. n : f[k] = F[k][f[k - 1]]

\* What is computed from a list one element after the other exists.
LEMMA Recursion ==
  ASSUME NEW n \in Nat, NEW V, NEW z \in V, NEW F \in [1 .. n -> [V -> V]]
  PROVE  \E f : Steps(f, n, V, z, F)
<1> DEFINE P(m) == \E f \in [0 .. m -> V] :
             f[0] = z /\ \A k \in 1 .. m : f[k] = F[k][f[k - 1]]
<1> DEFINE S == {m \in 0 .. n : P(m)}
<1>1. P(0)
  <2> DEFINE f == [k \in 0 .. 0 |-> z]
  <2>1. f \in [0 .. 0 -> V] /\ f[0] = z
    OBVIOUS
  <2> HIDE DEF f
  <2>2. \A k \in 1 .. 0 : FALSE
    OBVIOUS
  <2> QED
    BY <2>1, <2>2
<1>2. ASSUME NEW m \in 1 .. n, P(m - 1) PROVE P(m)
  <2>1. PICK f \in [0 .. m - 1 -> V] :
          f[0] = z /\ \A k \in 1 .. m - 1 : f[k] = F[k][f[k - 1]]
    BY <1>2
  <2> DEFINE g == [k \in 0 .. m |-> IF k = m THEN F[m][f[m - 1]] ELSE f[k]]
  <2>2. g \in [0 .. m -> V]
    <3>1. f[m - 1] \in V
      OBVIOUS
    <3>2. F[m][f[m - 1]] \in V
      BY <3>1
    <3> QED
      BY <3>2
  <2>3. g[0] = z
    BY <2>1
  <2>4. ASSUME NEW k \in 1 .. m PROVE g[k] = F[k][g[k - 1]]
    <3>1. g[k - 1] = f[k - 1]
      OBVIOUS
    <3> QED
      BY <2>1, <3>1
  <2> HIDE DEF g
  <2> QED
    BY <2>2, <2>3, <2>4
<1> HIDE DEF P
<1>3. \A m \in 0 .. n : m \in S
  <2>1. 0 \in S
    BY <1>1
  <2>2. \A m \in 1 .. n : m - 1 \in S => m \in S
    BY <1>2
  <2> HIDE DEF S
  <2> QED
    BY <2>1, <2>2, UpTo
<1>4. P(n)
  BY <1>3
<1> QED
  BY <1>4 DEF P, Steps

\* The size and alignment of field k.
FieldType(s, k) == BaseType(fields[s][k])

\* An aligned offset that is less than an alignment unit away is reached by the
\* padding of libffi, whoever computed it (ffi_common.h:73).
LEMMA PaddingIsUnique ==
  ASSUME NEW o \in Nat, NEW p \in Nat, NEW a \in Alignments,
         o <= p, p % a = 0, p - o < a
  PROVE  Align(o, a) = p
<1> USE DEF Align, Padding
<1>1. CASE a = 1 BY <1>1
<1>2. CASE a = 2 BY <1>2
<1>3. CASE a = 4 BY <1>3
<1>4. CASE a = 8 BY <1>4
<1>5. CASE a = 16 BY <1>5
<1> QED BY <1>1, <1>2, <1>3, <1>4, <1>5 DEF Alignments

\* The loop of initialize_aggregate over elements of these types.
LEMMA ElementsAdded ==
  ASSUME NEW n \in Nat, NEW E, \A k \in 1 .. n : E[k] \in [size : Nat, alignment : Alignments]
  PROVE  \E f : f = [k \in 0 .. n |-> IF k = 0 THEN NoElements ELSE AddElement(f[k - 1], E[k])]
<1> DEFINE V == [size : Nat, alignment : Alignments \cup {0}]
           F == [k \in 1 .. n |-> [v \in V |-> AddElement(v, E[k])]]
<1>1. NoElements \in V
  BY DEF NoElements
<1>2. \A k \in 1 .. n : \A v \in V : AddElement(v, E[k]) \in V
  <2> SUFFICES ASSUME NEW k \in 1 .. n, NEW v \in V
               PROVE  AddElement(v, E[k]) \in V
    OBVIOUS
  <2>1. Padding(v.size, E[k].alignment) \in Nat
    BY PaddingAligns
  <2> QED
    BY <2>1 DEF AddElement, Align
<1>3. \A k \in 1 .. n : \A v \in V : F[k][v] = AddElement(v, E[k])
  OBVIOUS
<1>7. F \in [1 .. n -> [V -> V]]
  BY <1>2
<1> HIDE DEF V, F
<1>4. PICK f : Steps(f, n, V, NoElements, F)
  BY <1>1, <1>7, Recursion
<1>5. ASSUME NEW k \in 1 .. n PROVE f[k] = AddElement(f[k - 1], E[k])
  <2>1. f[k - 1] \in V
    BY <1>4 DEF Steps
  <2> QED
    BY <1>3, <1>4, <2>1 DEF Steps
<1>6. f = [k \in 0 .. n |-> IF k = 0 THEN NoElements ELSE AddElement(f[k - 1], E[k])]
  <2>1. f \in [0 .. n -> V]
    BY <1>4 DEF Steps
  <2>2. \A k \in 0 .. n : f[k] = IF k = 0 THEN NoElements ELSE AddElement(f[k - 1], E[k])
    BY <1>4, <1>5 DEF Steps
  <2> QED
    BY <2>1, <2>2
<1> QED
  BY <1>6

\* The fields of a complete structure have sizes and alignments.
FieldsOK(s) ==
  \A k \in DOMAIN fields[s] :
    SizeOf(fields[s][k]) \in Nat \ {0} /\ AlignmentOf(fields[s][k]) \in Alignments

\* What the loop has after each field is what recalc has.
LEMMA ElementsAsLaidOut ==
  ASSUME TypeOK, NEW s \in Structs, Finished(s), FieldsOK(s), fields[s] # <<>>,
         NEW f, f[0] = NoElements,
         \A k \in 1 .. Len(fields[s]) : f[k] = AddElement(f[k - 1], FieldType(s, k))
  PROVE  TailPadded(f[Len(fields[s])]) = [size |-> size[s], alignment |-> alignment[s]]
<1> DEFINE n == Len(fields[s])
           a(k) == AlignmentOf(fields[s][k])
           Largest(k, m) == /\ \A j \in 1 .. k : a(j) <= m
                            /\ k = 0 => m = 0
                            /\ k > 0 => \E j \in 1 .. k : m = a(j)
           S == {k \in 0 .. n :
                   /\ f[k].size = IF k = 0 THEN 0 ELSE End(s, k)
                   /\ Largest(k, f[k].alignment)
                   /\ f[k] = [size |-> f[k].size, alignment |-> f[k].alignment]}
<1>1. /\ n \in Nat \ {0} /\ DOMAIN fields[s] = 1 .. n
      /\ \A k \in 1 .. n : /\ SizeOf(fields[s][k]) \in Nat \ {0} /\ a(k) \in Alignments
                           /\ offset[s][k] \in Nat /\ End(s, k) \in Nat
                           /\ End(s, k) = offset[s][k] + SizeOf(fields[s][k])
  BY DEF TypeOK, FieldsOK, End
<1>2. /\ \A k \in 1 .. n :
           /\ offset[s][k] % a(k) = 0
           /\ k = 1 => offset[s][k] = 0
           /\ k > 1 => End(s, k - 1) <= offset[s][k] /\ offset[s][k] - End(s, k - 1) < a(k)
      /\ \A k \in 1 .. n : a(k) <= alignment[s]
      /\ \E k \in 1 .. n : alignment[s] = a(k)
      /\ size[s] % alignment[s] = 0
      /\ size[s] - End(s, n) < alignment[s] /\ End(s, n) <= size[s]
      /\ alignment[s] \in Alignments /\ size[s] \in Nat
  <2>1. \A k \in 1 .. n : k > 1 => k - 1 \in 1 .. k - 1
    BY <1>1
  <2>2. n \in 1 .. n /\ n > 0
    BY <1>1
  <2> QED
    BY <1>1, <2>1, <2>2 DEF Finished, Placed, Covered, TypeOK
<1>9. \A k \in 1 .. n : f[k] = AddElement(f[k - 1], FieldType(s, k))
  OBVIOUS
<1> HIDE DEF a, n, Largest
<1>3. 0 \in S
  <2>2. Largest(0, 0)
    BY DEF Largest
  <2> QED
    BY <2>2, <1>1 DEF NoElements
<1>4. ASSUME NEW k \in 1 .. n, k - 1 \in S PROVE k \in S
  <2>0. /\ f[k - 1].size = IF k = 1 THEN 0 ELSE End(s, k - 1)
        /\ Largest(k - 1, f[k - 1].alignment)
    BY <1>4
  <2> HIDE DEF S
  <2>1. f[k] = AddElement(f[k - 1], FieldType(s, k))
    BY <1>1, <1>9
  <2>2. /\ FieldType(s, k).alignment = a(k)
        /\ FieldType(s, k).size = SizeOf(fields[s][k])
    BY DEF FieldType, BaseType, a
  <2>3. /\ f[k].size = Align(f[k - 1].size, a(k)) + SizeOf(fields[s][k])
        /\ f[k].alignment = IF f[k - 1].alignment > a(k) THEN f[k - 1].alignment ELSE a(k)
        /\ f[k] = [size |-> f[k].size, alignment |-> f[k].alignment]
    BY <2>1, <2>2 DEF AddElement
  <2>4. f[k].size = End(s, k)
    <3>0. /\ offset[s][k] \in Nat /\ a(k) \in Alignments /\ offset[s][k] % a(k) = 0
          /\ End(s, k) = offset[s][k] + SizeOf(fields[s][k])
      BY <1>1, <1>2
    <3>1. CASE k = 1
      <4>1. f[k - 1].size = 0 /\ offset[s][k] = 0
        BY <3>1, <1>2, <2>0
      <4>2. Align(0, a(k)) = 0
        <5>1. 0 \in Nat /\ 0 <= 0 /\ 0 - 0 < a(k) /\ 0 % a(k) = 0
          BY <3>0, <4>1 DEF Alignments
        <5> QED
          BY <3>0, <5>1, PaddingIsUnique
      <4> QED
        BY <2>3, <3>0, <4>1, <4>2, <1>1
    <3>2. CASE k # 1
      <4>1. /\ f[k - 1].size = End(s, k - 1) /\ k - 1 \in 1 .. n
            /\ End(s, k - 1) <= offset[s][k] /\ offset[s][k] - End(s, k - 1) < a(k)
        BY <3>2, <1>1, <1>2, <2>0
      <4>2. Align(End(s, k - 1), a(k)) = offset[s][k]
        BY <3>0, <4>1, <1>1, PaddingIsUnique
      <4> QED
        BY <2>3, <3>0, <4>1, <4>2
    <3> QED
      BY <3>1, <3>2
  <2>5. Largest(k, f[k].alignment)
    <3> DEFINE b == f[k - 1].alignment
    <3>1. Largest(k - 1, b)
      BY <2>0
    <3> HIDE DEF b
    <3>0. \A j \in 1 .. k : a(j) \in Nat \ {0}
      <4>1. \A j \in 1 .. k : j \in 1 .. n
        BY <1>1
      <4>2. \A j \in 1 .. n : a(j) \in Alignments
        BY <1>1
      <4> QED
        BY <4>1, <4>2 DEF Alignments
    <3>2. b \in Nat /\ a(k) \in Nat /\ \A j \in 1 .. k - 1 : a(j) \in Nat
      BY <3>0, <3>1 DEF Largest
    <3>3. \A j \in 1 .. k : j = k \/ j \in 1 .. k - 1
      OBVIOUS
    <3>4. f[k].alignment = IF b > a(k) THEN b ELSE a(k)
      BY <2>3 DEF b
    <3>5. CASE b > a(k)
      <4>1. k - 1 > 0
        BY <3>0, <3>1, <3>2, <3>5 DEF Largest
      <4>2. PICK j \in 1 .. k - 1 : b = a(j)
        BY <3>1, <4>1 DEF Largest
      <4>3. \A m \in 1 .. k : a(m) <= b
        BY <3>1, <3>2, <3>3, <3>5 DEF Largest
      <4>4. f[k].alignment = b /\ k # 0 /\ j \in 1 .. k
        BY <3>4, <3>5
      <4> QED
        BY <4>2, <4>3, <4>4 DEF Largest
    <3>6. CASE ~ (b > a(k))
      <4>1. \A m \in 1 .. k : a(m) <= a(k)
        BY <3>1, <3>2, <3>3, <3>6 DEF Largest
      <4>2. f[k].alignment = a(k) /\ k # 0 /\ k \in 1 .. k
        BY <3>4, <3>6
      <4> QED
        BY <4>1, <4>2 DEF Largest
    <3> QED
      BY <3>5, <3>6
  <2> QED
    BY <2>3, <2>4, <2>5, <1>1 DEF S
<1>5. n \in S
  <2>1. \A k \in 1 .. n : k - 1 \in S => k \in S
    BY <1>4
  <2>2. n \in Nat /\ n \in 0 .. n
    BY <1>1
  <2> HIDE DEF S
  <2> QED
    BY <1>3, <2>1, <2>2, UpTo
<1>6. f[n].size = End(s, n) /\ f[n] = [size |-> f[n].size, alignment |-> f[n].alignment]
  BY <1>1, <1>5
<1>7. f[n].alignment = alignment[s]
  <2>1. Largest(n, f[n].alignment)
    BY <1>5
  <2>2. PICK j \in 1 .. n : f[n].alignment = a(j)
    BY <1>1, <2>1 DEF Largest
  <2>3. PICK k \in 1 .. n : alignment[s] = a(k)
    BY <1>2
  <2>4. a(j) <= a(k) /\ a(k) <= a(j)
    BY <1>2, <2>1, <2>2, <2>3 DEF Largest
  <2>5. a(j) \in Nat /\ a(k) \in Nat
    <3>1. a(j) \in Alignments /\ a(k) \in Alignments
      BY <1>1
    <3> QED
      BY <3>1 DEF Alignments
  <2> QED
    BY <2>2, <2>3, <2>4, <2>5
<1>8. Align(End(s, n), alignment[s]) = size[s]
  <2>1. End(s, n) \in Nat
    BY <1>1
  <2> QED
    BY <1>2, <2>1, PaddingIsUnique
<1> QED
  <2>1. f[n] = [size |-> End(s, n), alignment |-> alignment[s]]
    BY <1>6, <1>7
  <2>2. TailPadded(f[n]) = [size |-> Align(End(s, n), alignment[s]), alignment |-> alignment[s]]
    BY <2>1 DEF TailPadded
  <2> QED
    BY <1>8, <2>2 DEF n

\* The sizes and alignments of the fields are numbers.
LEMMA FieldTypesOK ==
  ASSUME TypeOK, NEW s \in Structs, FieldsOK(s)
  PROVE  /\ Len(fields[s]) \in Nat /\ DOMAIN fields[s] = 1 .. Len(fields[s])
         /\ \A k \in 1 .. Len(fields[s]) : FieldType(s, k) \in [size : Nat, alignment : Alignments]
BY DEF TypeOK, FieldsOK, FieldType, BaseType

\* A structure whose fields nest no further.
LEMMA FlatLayout ==
  ASSUME TypeOK, NEW s \in Structs, Finished(s), FieldsOK(s), fields[s] # <<>>
  PROVE  Aggregate(s, BaseType) = [size |-> size[s], alignment |-> alignment[s]]
<1> DEFINE n == Len(fields[s])
           P(g) == g = [k \in 0 .. n |->
                         IF k = 0 THEN NoElements ELSE AddElement(g[k - 1], BaseType(fields[s][k]))]
           E == [k \in 1 .. n |-> FieldType(s, k)]
           f == CHOOSE g : P(g)
<1>1. n \in Nat /\ \A k \in 1 .. n : FieldType(s, k) \in [size : Nat, alignment : Alignments]
  BY FieldTypesOK
<1>2. Aggregate(s, BaseType) = TailPadded(f[n])
  BY Zenon DEF Aggregate
<1> HIDE DEF n
<1>3. \A k \in 0 .. n : k # 0 => E[k] = BaseType(fields[s][k])
  BY <1>1 DEF FieldType
<1>4. \E g : P(g)
  <2>1. \A k \in 1 .. n : E[k] \in [size : Nat, alignment : Alignments]
    BY <1>1
  <2> HIDE DEF E
  <2>2. PICK g : g = [k \in 0 .. n |-> IF k = 0 THEN NoElements ELSE AddElement(g[k - 1], E[k])]
    BY <1>1, <2>1, ElementsAdded
  <2>3. P(g)
    BY <1>3, <2>2
  <2> QED
    BY <2>3
<1> HIDE DEF P
<1>5. P(f)
  BY <1>4
<1> HIDE DEF f
<1>6. f[0] = NoElements /\ \A k \in 1 .. n : f[k] = AddElement(f[k - 1], FieldType(s, k))
  BY <1>1, <1>5 DEF P, FieldType
<1>7. TailPadded(f[n]) = [size |-> size[s], alignment |-> alignment[s]]
  BY <1>6, ElementsAsLaidOut DEF n
<1> QED
  BY <1>2, <1>7

\* A structure with elements of which the layouts are known.
LEMMA NestedLayout ==
  ASSUME TypeOK, NEW s \in Structs, Finished(s), FieldsOK(s), fields[s] # <<>>,
         \A k \in DOMAIN fields[s] : FlatType(fields[s][k]) = BaseType(fields[s][k])
  PROVE  Aggregate(s, FlatType) = [size |-> size[s], alignment |-> alignment[s]]
<1> DEFINE n == Len(fields[s])
           P(g) == g = [k \in 0 .. n |->
                         IF k = 0 THEN NoElements ELSE AddElement(g[k - 1], FlatType(fields[s][k]))]
           E == [k \in 1 .. n |-> FieldType(s, k)]
           f == CHOOSE g : P(g)
<1>1. /\ n \in Nat /\ DOMAIN fields[s] = 1 .. n
      /\ \A k \in 1 .. n : FieldType(s, k) \in [size : Nat, alignment : Alignments]
  BY FieldTypesOK
<1>2. Aggregate(s, FlatType) = TailPadded(f[n])
  BY Zenon DEF Aggregate
<1> HIDE DEF n
<1>3. \A k \in 0 .. n : k # 0 => E[k] = FlatType(fields[s][k])
  BY <1>1 DEF FieldType
<1>4. \E g : P(g)
  <2>1. \A k \in 1 .. n : E[k] \in [size : Nat, alignment : Alignments]
    BY <1>1
  <2> HIDE DEF E
  <2>2. PICK g : g = [k \in 0 .. n |-> IF k = 0 THEN NoElements ELSE AddElement(g[k - 1], E[k])]
    BY <1>1, <2>1, ElementsAdded
  <2>3. P(g)
    BY <1>3, <2>2
  <2> QED
    BY <2>3
<1> HIDE DEF P
<1>5. P(f)
  BY <1>4
<1> HIDE DEF f
<1>6. f[0] = NoElements /\ \A k \in 1 .. n : f[k] = AddElement(f[k - 1], FieldType(s, k))
  <2>1. f[0] = NoElements /\ \A k \in 1 .. n : f[k] = AddElement(f[k - 1], FlatType(fields[s][k]))
    BY <1>1, <1>5 DEF P
  <2>2. \A k \in 1 .. n : FlatType(fields[s][k]) = FieldType(s, k)
    BY <1>1 DEF FieldType
  <2> QED
    BY <2>1, <2>2
<1>7. TailPadded(f[n]) = [size |-> size[s], alignment |-> alignment[s]]
  BY <1>6, ElementsAsLaidOut DEF n
<1> QED
  BY <1>2, <1>7

\* Between two operations every field has a size and an alignment.
LEMMA AllFieldsOK ==
  ASSUME IInv, Between
  PROVE  \A u \in Structs : FieldsOK(u)
<1> SUFFICES ASSUME NEW u \in Structs, NEW k \in DOMAIN fields[u]
             PROVE  /\ SizeOf(fields[u][k]) \in Nat \ {0}
                    /\ AlignmentOf(fields[u][k]) \in Alignments
  BY DEF FieldsOK
<1>1. fields[u][k] \in Types /\ struct = NoStruct
  BY SizesAndAlignments DEF IInv, TypeOK, Between
<1>2. fields[u][k] # struct
  BY <1>1, TypesAssumption DEF Types
<1> QED
  BY <1>1, <1>2, SizesAndAlignments DEF IInv

\* libffi and struct.js give a structure and those inside it the same layout.
LEMMA CallableLayout ==
  ASSUME IInv, Between, NEW s \in Structs, Callable(s)
  PROVE  /\ FFIType(s) = BaseType(s)
         /\ \A k \in DOMAIN fields[s] : FlatType(fields[s][k]) = BaseType(fields[s][k])
<1>1. \A u \in Structs : FieldsOK(u)
  BY AllFieldsOK
<1>2. ASSUME NEW k \in DOMAIN fields[s]
      PROVE  FlatType(fields[s][k]) = BaseType(fields[s][k])
  <2>1. CASE fields[s][k] \notin Structs
    BY <2>1 DEF FlatType
  <2>2. CASE fields[s][k] \in Structs
    <3>1. PICK u \in Structs : u = fields[s][k]
      BY <2>2
    <3>2. Complete(u) /\ fields[u] # <<>>
      BY <2>2, <3>1 DEF Callable, StructFields, IInv, FieldTypes
    <3>3. Aggregate(u, BaseType) = [size |-> size[u], alignment |-> alignment[u]]
      BY <1>1, <3>2, FlatLayout DEF IInv, AllFinished
    <3> QED
      BY <3>1, <3>3, Zenon DEF FlatType, BaseType, SizeOf, AlignmentOf
  <2> QED
    BY <2>1, <2>2
<1>3. Aggregate(s, FlatType) = [size |-> size[s], alignment |-> alignment[s]]
  BY <1>1, <1>2, NestedLayout DEF IInv, AllFinished, Callable
<1> QED
  BY <1>2, <1>3, Zenon DEF FFIType, BaseType, SizeOf, AlignmentOf

\* prep_cif.c gives every structure the size and alignment that recalc gave it.
THEOREM SameLayout == Spec => []LayoutsAgree
<1>1. IInv => LayoutsAgree
  <2> SUFFICES ASSUME IInv, Between, NEW s \in Structs, Callable(s)
               PROVE  FFIType(s) = [size |-> size[s], alignment |-> alignment[s]]
    BY DEF LayoutsAgree
  <2> QED
    BY CallableLayout DEF BaseType, SizeOf, AlignmentOf
<1> QED
  BY <1>1, Invariant, PTL

-----------------------------------------------------------------------------
(***************************************************************************)
(* ffi64.c: the classes of eightbytes.  After each element, the class of every*)
(* eightbyte is that of the scalars seen so far.                           *)
(***************************************************************************)

\* What an eightbyte may be.
WordClass == {"none"} \cup IntegerClasses \cup SseClasses

\* The scalars that begin in eightbyte w.
InWord(J, w) == {p \in J : p[1] \div 8 = w}

\* A scalar that goes in an integer register.
IsInteger(p) == Kind[p[2]] = "integer"

\* Class c is that of the scalars J, which are in one eightbyte.
Good(c, J) ==
  /\ J = {} => c = "none"
  /\ J # {} => IF \E p \in J : IsInteger(p) THEN c \in IntegerClasses ELSE c \in SseClasses
  /\ c = "sseSF" => \E p \in J : J = {p} /\ p[1] % 8 = 0

\* Classes c, if any, are those of the eightbytes from offset at that have the scalars J.
Covers(c, at, J) ==
  /\ c \in Seq(WordClass)
  /\ c # <<>> => /\ \A x \in 1 .. Len(c) : Good(c[x], InWord(J, (at \div 8) + x - 1))
                 /\ \A p \in J : (p[1] \div 8) - (at \div 8) + 1 \in 1 .. Len(c)

\* Eightbytes.
LEMMA Eighths ==
  ASSUME NEW x \in Nat
  PROVE  /\ x \div 8 \in Nat /\ x % 8 \in 0 .. 7 /\ x = 8 * (x \div 8) + (x % 8)
         /\ \A q \in Nat : (8 * q + x) \div 8 = q + (x \div 8) /\ (8 * q + x) % 8 = x % 8
OBVIOUS

\* Merging the classes of two sets of scalars gives that of both.
LEMMA MergeGood ==
  ASSUME NEW c, NEW J, NEW d, NEW K, Good(c, J), Good(d, K), ~ (c = "sseSF" /\ d = "sseSF")
  PROVE  Good(MergeClasses(c, d), J \cup K)
<1> USE DEF IntegerClasses, SseClasses
<1>1. CASE K = {}
  <2>1. d = "none" /\ J \cup K = J
    BY <1>1 DEF Good
  <2> QED
    BY <2>1 DEF MergeClasses
<1>2. CASE J = {} /\ K # {}
  <2>1. c = "none" /\ J \cup K = K /\ d # "none"
    BY <1>2 DEF Good
  <2> QED
    BY <2>1 DEF MergeClasses
<1>3. CASE J # {} /\ K # {}
  <2>1. /\ c \in IntegerClasses \cup SseClasses /\ d \in IntegerClasses \cup SseClasses
        /\ c \in IntegerClasses <=> \E p \in J : IsInteger(p)
        /\ d \in IntegerClasses <=> \E p \in K : IsInteger(p)
    BY <1>3 DEF Good
  <2>2. MergeClasses(c, d) \in IntegerClasses \cup SseClasses /\ MergeClasses(c, d) # "sseSF"
    BY <2>1 DEF MergeClasses
  <2>3. MergeClasses(c, d) \in IntegerClasses <=> c \in IntegerClasses \/ d \in IntegerClasses
    BY <2>1 DEF MergeClasses
  <2>4. (\E p \in J \cup K : IsInteger(p)) <=> c \in IntegerClasses \/ d \in IntegerClasses
    BY <2>1
  <2>5. \A x \in IntegerClasses : x \notin SseClasses
    OBVIOUS
  <2>6. J \cup K # {}
    BY <1>3
  <2> QED
    BY <2>2, <2>3, <2>4, <2>5, <2>6 DEF Good
<1> QED
  BY <1>1, <1>2, <1>3

\* The class of scalars is a class.
LEMMA GoodIsClass ==
  ASSUME NEW c, NEW J, Good(c, J)
  PROVE  c \in WordClass
BY DEF Good, WordClass

\* f goes through the loop of classify_argument.
Classing(f, n, o, at, room, sub) ==
  /\ f[0] = NoClasses(o)
  /\ \A k \in 1 .. n : f[k] = AddClasses(f[k - 1], at[k], room[k], sub[k])

\* The classes of each element are those of its scalars, which are in order.
Elements(n, q, at, sub, J) ==
  \A k \in 1 .. n : /\ Covers(sub[k], 8 * q + at[k], J[k])
                    /\ \A p \in J[k] : p[1] \in Nat
                    /\ \A j \in 1 .. k - 1 : \A p \in J[j] : \A r \in J[k] : p[1] < r[1]

\* The scalars of the first n elements.
AllOf(J, n) == UNION {J[k] : k \in 1 .. n}

\* The classes after all elements are those of all scalars.
LEMMA ClassesAdded ==
  ASSUME NEW n \in Nat, NEW o, NEW q \in Nat, NEW at \in [1 .. n -> Nat], NEW room, NEW sub, NEW J,
         NEW f, Elements(n, q, at, sub, J), Classing(f, n, o, at, room, sub), ~f[n].memory
  PROVE  \A w \in 0 .. 4 : Good(f[n].classes[w], InWord(AllOf(J, n), q + w))
<1> DEFINE All(k) == AllOf(J, k)
           S == {k \in 0 .. n : ~f[k].memory =>
                   \A w \in 0 .. 4 : Good(f[k].classes[w], InWord(All(k), q + w))}
<1>1. 0 \in S
  <2>1. All(0) = {}
    BY DEF AllOf
  <2>2. \A w \in 0 .. 4 : f[0].classes[w] = "none" /\ InWord({}, q + w) = {}
    BY DEF NoClasses, InWord, Classing
  <2>3. 0 \in 0 .. n
    OBVIOUS
  <2> HIDE DEF All
  <2> QED
    BY <2>1, <2>2, <2>3 DEF Good
<1>2. ASSUME NEW k \in 1 .. n, k - 1 \in S PROVE k \in S
  <2> SUFFICES ASSUME ~f[k].memory, NEW w \in 0 .. 4
               PROVE  Good(f[k].classes[w], InWord(All(k), q + w))
    OBVIOUS
  <2> DEFINE x == w - (at[k] \div 8) + 1
             b == f[k - 1]
             K == InWord(J[k], q + w)
             L == InWord(All(k - 1), q + w)
  <2>1. f[k] = AddClasses(b, at[k], room[k], sub[k])
    BY DEF Classing
  <2>2. /\ ~b.memory /\ sub[k] # <<>>
        /\ f[k].classes[w] = IF x \in DOMAIN sub[k] THEN MergeClasses(sub[k][x], b.classes[w])
                             ELSE b.classes[w]
    <3> HIDE DEF b
    <3>1. f[k].memory = (b.memory \/ sub[k] = <<>>)
      BY <2>1 DEF AddClasses
    <3>2. f[k].classes = [v \in 0 .. 4 |->
            IF v - (at[k] \div 8) + 1 \in DOMAIN sub[k]
            THEN MergeClasses(sub[k][v - (at[k] \div 8) + 1], b.classes[v])
            ELSE b.classes[v]]
      BY <2>1 DEF AddClasses
    <3> QED
      BY <3>1, <3>2
  <2>3. Good(b.classes[w], L)
    BY <1>2, <2>2
  <2>4. InWord(All(k), q + w) = K \cup L
    <3>1. \A j \in 1 .. k : j = k \/ j \in 1 .. k - 1
      OBVIOUS
    <3>2. \A j \in 1 .. k - 1 : j \in 1 .. k
      OBVIOUS
    <3>3. All(k) = J[k] \cup All(k - 1)
      BY <3>1, <3>2 DEF AllOf
    <3> HIDE DEF All
    <3> QED
      BY <3>3 DEF InWord
  <2>5. /\ sub[k] \in Seq(WordClass)
        /\ \A y \in 1 .. Len(sub[k]) :
             Good(sub[k][y], InWord(J[k], ((8 * q + at[k]) \div 8) + y - 1))
        /\ \A p \in J[k] : /\ (p[1] \div 8) - ((8 * q + at[k]) \div 8) + 1 \in 1 .. Len(sub[k])
                           /\ p[1] \in Nat
    BY <2>2 DEF Covers, Elements
  <2>6. (8 * q + at[k]) \div 8 = q + (at[k] \div 8) /\ at[k] \div 8 \in Nat /\ at[k] \in Nat
    <3>1. at[k] \in Nat
      OBVIOUS
    <3> QED
      BY <3>1, Eighths
  <2>7. DOMAIN sub[k] = 1 .. Len(sub[k]) /\ Len(sub[k]) \in Nat
    BY <2>5
  <2>8. \A p \in L : \A r \in K : p[1] < r[1] /\ p[1] \in Nat /\ r[1] \in Nat
    <3> SUFFICES ASSUME NEW p \in L, NEW r \in K
                 PROVE  p[1] < r[1] /\ p[1] \in Nat /\ r[1] \in Nat
      OBVIOUS
    <3>1. PICK j \in 1 .. k - 1 : p \in J[j]
      BY DEF InWord, AllOf
    <3>2. r \in J[k] /\ j \in 1 .. n
      BY DEF InWord
    <3> QED
      BY <3>1, <3>2 DEF Elements
  <2> HIDE DEF All, S
  <2>9. CASE x \in DOMAIN sub[k]
    <3>1. ((8 * q + at[k]) \div 8) + x - 1 = q + w
      <4> DEFINE y == at[k] \div 8
      <4>1. y \in Nat /\ (8 * q + at[k]) \div 8 = q + y /\ x = w - y + 1
        BY <2>6
      <4> HIDE DEF y, x
      <4> QED
        BY <4>1
    <3>2. Good(sub[k][x], K)
      BY <2>5, <2>7, <2>9, <3>1
    <3>3. ~ (sub[k][x] = "sseSF" /\ b.classes[w] = "sseSF")
      <4> SUFFICES ASSUME sub[k][x] = "sseSF", b.classes[w] = "sseSF" PROVE FALSE
        OBVIOUS
      <4>1. PICK r \in K : r[1] % 8 = 0
        BY <3>2 DEF Good
      <4>2. PICK p \in L : p[1] % 8 = 0
        BY <2>3 DEF Good
      <4>3. p[1] \div 8 = q + w /\ r[1] \div 8 = q + w
        BY DEF InWord
      <4>4. p[1] < r[1] /\ p[1] \in Nat /\ r[1] \in Nat
        BY <2>8
      <4>5. p[1] = 8 * (q + w) /\ r[1] = 8 * (q + w)
        <5>1. /\ p[1] = 8 * (p[1] \div 8) + (p[1] % 8)
              /\ r[1] = 8 * (r[1] \div 8) + (r[1] % 8)
          BY <4>4, Eighths
        <5> QED
          BY <4>1, <4>2, <4>3, <5>1
      <4> QED
        BY <4>4, <4>5
    <3> HIDE DEF K, L, x, b
    <3>4. Good(MergeClasses(sub[k][x], b.classes[w]), K \cup L)
      BY <2>3, <3>2, <3>3, MergeGood
    <3> QED
      BY <2>2, <2>4, <2>9, <3>4
  <2>10. CASE x \notin DOMAIN sub[k]
    <3>1. K = {}
      <4> SUFFICES ASSUME NEW r \in K PROVE FALSE
        OBVIOUS
      <4>1. r \in J[k] /\ r[1] \div 8 = q + w
        BY DEF InWord
      <4>2. (r[1] \div 8) - ((8 * q + at[k]) \div 8) + 1 = x
        BY <2>6, <4>1
      <4> QED
        BY <2>5, <2>7, <2>10, <4>1, <4>2
    <3>2. K \cup L = L
      BY <3>1
    <3> HIDE DEF K, L, x, b
    <3> QED
      BY <2>2, <2>3, <2>4, <2>10, <3>2
  <2> QED
    BY <2>9, <2>10
<1>3. n \in S
  <2>1. \A k \in 1 .. n : k - 1 \in S => k \in S
    BY <1>2
  <2>2. n \in 0 .. n
    OBVIOUS
  <2> HIDE DEF S
  <2> QED
    BY <1>1, <2>1, <2>2, UpTo
<1> QED
  BY <1>3

\* The sizes of what is passed in registers.
Eighth == {1, 2, 4, 8}

\* Multiples of an alignment.
LEMMA MultiplesAdd ==
  ASSUME NEW x \in Nat, NEW y \in Nat, NEW a \in Alignments, x % a = 0, y % a = 0
  PROVE  (x + y) % a = 0
<1>1. CASE a = 1 BY <1>1
<1>2. CASE a = 2 BY <1>2
<1>3. CASE a = 4 BY <1>3
<1>4. CASE a = 8 BY <1>4
<1>5. CASE a = 16 BY <1>5
<1> QED BY <1>1, <1>2, <1>3, <1>4, <1>5 DEF Alignments

\* A multiple of an alignment is one of every smaller alignment.
LEMMA MultipleOfLarger ==
  ASSUME NEW x \in Nat, NEW b \in Alignments, NEW a \in Alignments, a <= b, x % b = 0
  PROVE  x % a = 0
<1> USE DEF Alignments
<1>1. CASE b = 1 BY <1>1
<1>2. CASE b = 2 BY <1>2
<1>3. CASE b = 4 BY <1>3
<1>4. CASE b = 8 BY <1>4
<1>5. CASE b = 16 BY <1>5
<1> QED BY <1>1, <1>2, <1>3, <1>4, <1>5

\* A scalar aligned to its size lies in one eightbyte.
LEMMA MultipleInWord ==
  ASSUME NEW x \in Nat, NEW a \in Eighth, x % a = 0
  PROVE  (x % 8) % a = 0 /\ (x % 8) + a <= 8
<1>1. CASE a = 1 BY <1>1
<1>2. CASE a = 2 BY <1>2
<1>3. CASE a = 4 BY <1>3
<1>4. CASE a = 8 BY <1>4
<1> QED BY <1>1, <1>2, <1>3, <1>4 DEF Eighth

\* A base type is aligned to its size.
LEMMA BaseIsNatural ==
  ASSUME NEW t \in BaseTypes
  PROVE  /\ SizeOf(t) \in Eighth /\ AlignmentOf(t) = SizeOf(t) /\ SizeOf(t) \in Alignments
         /\ t \notin Structs
         /\ Kind[t] \in {"integer", "float", "double"}
         /\ IsPointer(t) => Kind[t] = "integer"
         /\ Kind[t] = "double" => SizeOf(t) = 8
BY CallAssumption, TypesAssumption DEF SizeOf, AlignmentOf, IsPointer, Eighth, Alignments

\* A scalar in one eightbyte.
LEMMA BaseClass ==
  ASSUME NEW t \in BaseTypes, NEW at \in Nat, at % SizeOf(t) = 0
  PROVE  /\ Covers(ClassifyBase(t, at % 8), at, {<<at, t>>})
         /\ Len(ClassifyBase(t, at % 8)) = 1
<1> DEFINE o == at % 8
           c == ClassifyBase(t, o)
           p == <<at, t>>
<1>0. o \in 0 .. 7 /\ at \div 8 \in Nat
  BY Eighths
<1>1. /\ SizeOf(t) \in Eighth /\ o + SizeOf(t) <= 8 /\ o % SizeOf(t) = 0
      /\ Kind[t] \in {"integer", "float", "double"}
      /\ IsPointer(t) => Kind[t] = "integer"
  BY BaseIsNatural, MultipleInWord
<1> HIDE DEF o
<1>2. \E d : /\ c = <<d>>
             /\ IF Kind[t] = "integer" THEN d \in IntegerClasses ELSE d \in SseClasses
             /\ d = "sseSF" => o = 0
  <2>1. CASE Kind[t] = "integer"
    <3>1. o + SizeOf(t) \in Int /\ o + SizeOf(t) <= 8
      BY <1>0, <1>1 DEF Eighth
    <3>2. c = IF o + SizeOf(t) <= 4 THEN <<"integerSI">> ELSE <<"integer">>
      BY <2>1, <3>1 DEF ClassifyBase
    <3> QED
      BY <2>1, <3>2 DEF IntegerClasses
  <2>2. CASE Kind[t] = "float"
    <3>1. o % 8 = o
      BY <1>0
    <3>2. c = <<IF o % 8 = 0 THEN "sseSF" ELSE "sse">>
      BY <2>2, <1>1 DEF ClassifyBase
    <3> QED
      BY <2>2, <3>1, <3>2 DEF SseClasses
  <2>3. CASE Kind[t] = "double"
    <3>1. c = <<"sseDF">>
      BY <2>3, <1>1 DEF ClassifyBase
    <3> QED
      BY <2>3, <3>1 DEF SseClasses
  <2> QED
    BY <1>1, <2>1, <2>2, <2>3
<1>3. PICK d : /\ c = <<d>>
               /\ IF Kind[t] = "integer" THEN d \in IntegerClasses ELSE d \in SseClasses
               /\ d = "sseSF" => o = 0
  BY <1>2
<1>4. InWord({p}, at \div 8) = {p}
  BY DEF InWord
<1>5. Good(d, {p})
  <2>1. (\E r \in {p} : IsInteger(r)) <=> Kind[t] = "integer"
    BY DEF IsInteger
  <2>2. d = "sseSF" => p[1] % 8 = 0
    BY <1>3 DEF o
  <2> HIDE DEF p
  <2> QED
    BY <1>3, <2>1, <2>2 DEF Good
<1>6. d \in WordClass
  BY <1>3 DEF WordClass
<1>7. Covers(c, at, {p})
  <2>1. c \in Seq(WordClass) /\ Len(c) = 1 /\ c[1] = d
    BY <1>3, <1>6
  <2>2. (at \div 8) + 1 - 1 = at \div 8 /\ (at \div 8) - (at \div 8) + 1 = 1
    BY <1>0
  <2>3. \A x \in 1 .. Len(c) : x = 1
    BY <2>1
  <2> HIDE DEF c
  <2>4. \A x \in 1 .. Len(c) : Good(c[x], InWord({p}, (at \div 8) + x - 1))
    BY <2>1, <2>2, <2>3, <1>4, <1>5
  <2>5. \A r \in {p} : (r[1] \div 8) - (at \div 8) + 1 \in 1 .. Len(c)
    BY <2>1, <2>2
  <2> QED
    BY <2>1, <2>4, <2>5 DEF Covers
<1> QED
  BY <1>3, <1>7 DEF o

\* The fields of s can be placed from offset o as they are from 0.
Aligned(s, o) == \A k \in 1 .. Len(fields[s]) : o % AlignmentOf(fields[s][k]) = 0

\* The next multiple of a field's alignment is where recalc has put it.
LEMMA NextOffset ==
  ASSUME TypeOK, NEW s \in Structs, Finished(s), FieldsOK(s), NEW o \in Nat, Aligned(s, o)
  PROVE  \A k \in 1 .. Len(fields[s]) :
           /\ Align(IF k = 1 THEN o ELSE o + End(s, k - 1), AlignmentOf(fields[s][k]))
                = o + offset[s][k]
           /\ o + offset[s][k] \in Nat /\ SizeOf(fields[s][k]) \in Nat \ {0}
           /\ AlignmentOf(fields[s][k]) \in Alignments
           /\ (o + offset[s][k]) + SizeOf(fields[s][k]) = o + End(s, k)
           /\ (o + offset[s][k]) % AlignmentOf(fields[s][k]) = 0
<1> DEFINE n == Len(fields[s])
           a(k) == AlignmentOf(fields[s][k])
<1>1. /\ n \in Nat
      /\ \A k \in 1 .. n : /\ SizeOf(fields[s][k]) \in Nat \ {0} /\ a(k) \in Alignments
                           /\ offset[s][k] \in Nat /\ End(s, k) \in Nat
                           /\ End(s, k) = offset[s][k] + SizeOf(fields[s][k])
  <2>1. /\ fields[s] \in Seq(Types) /\ offset[s] \in Seq(Nat) /\ Len(offset[s]) = Len(fields[s])
    BY DEF TypeOK
  <2>2. n \in Nat /\ \A k \in 1 .. n : k \in DOMAIN fields[s] /\ k \in DOMAIN offset[s]
    BY <2>1
  <2>3. \A k \in 1 .. n : offset[s][k] \in Nat
    BY <2>1, <2>2
  <2>4. \A k \in 1 .. n : SizeOf(fields[s][k]) \in Nat \ {0} /\ a(k) \in Alignments
    BY <2>2 DEF FieldsOK
  <2> HIDE DEF a, n
  <2> QED
    BY <2>1, <2>2, <2>3, <2>4 DEF End
<1>2. \A k \in 1 .. n :
        /\ offset[s][k] % a(k) = 0
        /\ o % a(k) = 0
        /\ k = 1 => offset[s][k] = 0
        /\ k > 1 => End(s, k - 1) <= offset[s][k] /\ offset[s][k] - End(s, k - 1) < a(k)
  <2>1. \A k \in 1 .. n : k > 1 => k - 1 \in 1 .. k - 1
    BY <1>1
  <2> QED
    BY <2>1 DEF Finished, Placed, Aligned
<1> HIDE DEF a, n
<1> SUFFICES ASSUME NEW k \in 1 .. n
             PROVE  /\ Align(IF k = 1 THEN o ELSE o + End(s, k - 1), a(k)) = o + offset[s][k]
                    /\ o + offset[s][k] \in Nat /\ SizeOf(fields[s][k]) \in Nat \ {0}
                    /\ a(k) \in Alignments
                    /\ (o + offset[s][k]) + SizeOf(fields[s][k]) = o + End(s, k)
                    /\ (o + offset[s][k]) % a(k) = 0
  BY DEF a, n
<1>3. /\ offset[s][k] \in Nat /\ a(k) \in Alignments /\ (o + offset[s][k]) % a(k) = 0
  BY <1>1, <1>2, MultiplesAdd
<1>4. Align(IF k = 1 THEN o ELSE o + End(s, k - 1), a(k)) = o + offset[s][k]
  <2>3. CASE k = 1
    <3>1. o + offset[s][k] = o
      BY <1>2, <2>3
    <3>2. o <= o /\ o - o < a(k) /\ o % a(k) = 0
      BY <1>2, <1>3 DEF Alignments
    <3> QED
      BY <1>3, <2>3, <3>1, <3>2, PaddingIsUnique
  <2>4. CASE k # 1
    <3> DEFINE e == o + End(s, k - 1)
               p == o + offset[s][k]
    <3>1. /\ k - 1 \in 1 .. n /\ End(s, k - 1) \in Nat
          /\ End(s, k - 1) <= offset[s][k] /\ offset[s][k] - End(s, k - 1) < a(k)
      BY <1>1, <1>2, <2>4
    <3>2. a(k) \in Nat
      BY <1>3 DEF Alignments
    <3>3. e \in Nat /\ p \in Nat /\ e <= p /\ p - e < a(k) /\ p % a(k) = 0
      BY <1>3, <3>1, <3>2
    <3> HIDE DEF e
    <3>5. Align(e, a(k)) = p
      BY <1>3, <3>3, PaddingIsUnique
    <3> QED
      BY <2>4, <3>5 DEF e
  <2> QED
    BY <2>3, <2>4
<1>5. (o + offset[s][k]) + SizeOf(fields[s][k]) = o + End(s, k)
  <2> DEFINE x == offset[s][k]
             y == SizeOf(fields[s][k])
  <2>1. x \in Nat /\ y \in Nat /\ End(s, k) = x + y
    BY <1>1
  <2> HIDE DEF x, y
  <2>2. (o + x) + y = o + End(s, k)
    BY <2>1
  <2> QED
    BY <2>2 DEF x, y
<1>6. SizeOf(fields[s][k]) \in Nat \ {0}
  BY <1>1
<1> QED
  BY <1>3, <1>4, <1>5, <1>6

\* Where a field ends, at offset o.
FieldEnds(s, o, k) ==
  /\ (o + offset[s][k]) + SizeOf(fields[s][k]) = o + End(s, k)
  /\ (o + offset[s][k]) % AlignmentOf(fields[s][k]) = 0

\* The same, of one field.
LEMMA FieldsEnd ==
  ASSUME TypeOK, NEW s \in Structs, Finished(s), FieldsOK(s), NEW o \in Nat, Aligned(s, o),
         NEW k \in 1 .. Len(fields[s])
  PROVE  FieldEnds(s, o, k)
BY NextOffset DEF FieldEnds

\* libffi's running offset comes to where recalc has put each field.
LEMMA Offsets ==
  ASSUME TypeOK, NEW s \in Structs, Finished(s), FieldsOK(s), NEW o \in Nat, Aligned(s, o),
         NEW n \in 0 .. Len(fields[s]), NEW f, f[0].offset = o,
         \A k \in 1 .. n :
           f[k].offset = Align(f[k - 1].offset, AlignmentOf(fields[s][k])) + SizeOf(fields[s][k])
  PROVE  \A k \in 1 .. n : Align(f[k - 1].offset, AlignmentOf(fields[s][k])) = o + offset[s][k]
<1> DEFINE at(k) == Align(f[k - 1].offset, AlignmentOf(fields[s][k]))
           S == {k \in 0 .. n : f[k].offset = IF k = 0 THEN o ELSE o + End(s, k)}
<1>1. n \in Nat /\ \A k \in 1 .. n : k \in 1 .. Len(fields[s])
  BY DEF TypeOK
<1>2. ASSUME NEW k \in 1 .. n, k - 1 \in S PROVE at(k) = o + offset[s][k]
  <2>1. f[k - 1].offset = IF k = 1 THEN o ELSE o + End(s, k - 1)
    BY <1>2
  <2> QED
    BY <1>1, <2>1, NextOffset
<1>3. \A k \in 0 .. n : k \in S
  <2>1. 0 \in S
    BY <1>1
  <2>2. ASSUME NEW k \in 1 .. n, k - 1 \in S PROVE k \in S
    <3>1. at(k) = o + offset[s][k]
      BY <1>2, <2>2
    <3>2. f[k].offset = at(k) + SizeOf(fields[s][k])
      OBVIOUS
    <3> HIDE DEF at
    <3>3. f[k].offset = o + End(s, k)
      BY <1>1, <3>1, <3>2, NextOffset
    <3> QED
      BY <3>3
  <2>3. \A k \in 1 .. n : k - 1 \in S => k \in S
    BY <2>2
  <2> HIDE DEF S
  <2> QED
    BY <1>1, <2>1, <2>3, UpTo
<1>4. \A k \in 1 .. n : k - 1 \in S
  <2>1. \A k \in 1 .. n : k - 1 \in 0 .. n
    BY <1>1
  <2> QED
    BY <1>3, <2>1
<1> QED
  BY <1>2, <1>4

\* Merging two classes gives a class.
LEMMA MergeIsClass ==
  ASSUME NEW c \in WordClass, NEW d \in WordClass
  PROVE  MergeClasses(c, d) \in WordClass
BY DEF MergeClasses, WordClass, IntegerClasses, SseClasses

\* The loop of classify_argument over elements of these classes.
LEMMA ClassesExist ==
  ASSUME TypeOK, NEW s \in Structs, Finished(s), FieldsOK(s), NEW o \in Nat, Aligned(s, o),
         NEW n \in Nat, n = Len(fields[s]), NEW sub \in [1 .. n -> Seq(WordClass)]
  PROVE  \E g : /\ g = [k \in 0 .. n |-> g[k]]
                /\ g[0] = NoClasses(o)
                /\ \A k \in 1 .. n :
                     /\ g[k] = AddClasses(g[k - 1], o + offset[s][k], SizeOf(fields[s][k]), sub[k])
                     /\ Align(g[k - 1].offset, AlignmentOf(fields[s][k])) = o + offset[s][k]
<1> DEFINE V == [offset : Nat, memory : BOOLEAN, classes : [0 .. 4 -> WordClass]]
           Add(k, v) == AddClasses(v, o + offset[s][k], SizeOf(fields[s][k]), sub[k])
           F == [k \in 1 .. n |-> [v \in V |-> Add(k, v)]]
<1>1. NoClasses(o) \in V
  BY DEF NoClasses, WordClass
<1>2. ASSUME NEW k \in 1 .. n, NEW v \in V PROVE Add(k, v) \in V
  <2> DEFINE at == o + offset[s][k]
             room == SizeOf(fields[s][k])
  <2>1. at \in Nat /\ room \in Nat
    BY NextOffset
  <2>2. sub[k] \in Seq(WordClass)
    OBVIOUS
  <2> HIDE DEF at, room
  <2>3. \A w \in 0 .. 4 : \A x \in DOMAIN sub[k] :
          MergeClasses(sub[k][x], v.classes[w]) \in WordClass /\ v.classes[w] \in WordClass
    BY <2>2, MergeIsClass
  <2>4. AddClasses(v, at, room, sub[k]) \in V
    <3>1. at + room \in Nat
      BY <2>1
    <3>2. [w \in 0 .. 4 |->
            IF w - (at \div 8) + 1 \in DOMAIN sub[k]
            THEN MergeClasses(sub[k][w - (at \div 8) + 1], v.classes[w])
            ELSE v.classes[w]] \in [0 .. 4 -> WordClass]
      BY <2>3
    <3>3. (v.memory \/ sub[k] = <<>>) \in BOOLEAN
      OBVIOUS
    <3> QED
      BY <3>1, <3>2, <3>3 DEF AddClasses
  <2> QED
    BY <2>4 DEF at, room
<1>3. \A k \in 1 .. n : \A v \in V : F[k][v] = Add(k, v)
  OBVIOUS
<1>4. F \in [1 .. n -> [V -> V]]
  BY <1>2
<1>5. \A v \in V : v.offset \in Nat
  OBVIOUS
<1>6. \A k \in 1 .. n : \A v \in V : Add(k, v).offset = (o + offset[s][k]) + SizeOf(fields[s][k])
  BY DEF AddClasses
<1> HIDE DEF V, F, Add
<1>7. PICK g : Steps(g, n, V, NoClasses(o), F)
  BY <1>1, <1>4, Recursion
<1>8. /\ g \in [0 .. n -> V] /\ g[0] = NoClasses(o)
      /\ \A k \in 1 .. n : g[k - 1] \in V /\ g[k] = Add(k, g[k - 1])
  <2>1. /\ g \in [0 .. n -> V] /\ g[0] = NoClasses(o)
        /\ \A k \in 1 .. n : g[k] = F[k][g[k - 1]]
    BY <1>7 DEF Steps
  <2>2. \A k \in 1 .. n : g[k - 1] \in V
    BY <2>1
  <2> QED
    BY <1>3, <2>1, <2>2
<1>9. ASSUME NEW k \in 1 .. n
      PROVE  Align(g[k - 1].offset, AlignmentOf(fields[s][k])) = o + offset[s][k]
  <2>1. g[k - 1].offset = IF k = 1 THEN o ELSE o + End(s, k - 1)
    <3>1. CASE k = 1
      BY <1>8, <3>1 DEF NoClasses
    <3>2. CASE k # 1
      <4>1. k - 1 \in 1 .. n
        BY <3>2
      <4>2. g[k - 1].offset = (o + offset[s][k - 1]) + SizeOf(fields[s][k - 1])
        BY <1>6, <1>8, <4>1
      <4> QED
        BY <3>2, <4>1, <4>2, NextOffset
    <3> QED
      BY <3>1, <3>2
  <2> QED
    BY <2>1, NextOffset
<1> QED
  BY <1>8, <1>9 DEF Add

\* What lies within a structure begins in one of its eightbytes.
LEMMA InOwnWords ==
  ASSUME NEW q \in Nat, NEW o \in 0 .. 7, NEW room \in Nat, NEW words \in Nat, NEW x \in Nat,
         NEW a \in Nat, NEW e \in Nat,
         room <= 8 * words, o = 0 \/ o + room <= 8,
         8 * q + (o + a) <= x, x < 8 * q + (o + e), e <= room
  PROVE  (x \div 8) - q + 1 \in 1 .. words
<1>1. 8 * q <= x /\ x < 8 * q + 8 * words
  OBVIOUS
<1>2. /\ x \div 8 \in Nat /\ x % 8 \in 0 .. 7
      /\ x = 8 * (x \div 8) + (x % 8)
  BY Eighths
<1> QED
  BY <1>1, <1>2

\* A function on 1 .. n is a sequence.
LEMMA FunctionIsSeq ==
  ASSUME NEW n \in Nat, NEW S, NEW c \in [1 .. n -> S]
  PROVE  c \in Seq(S) /\ Len(c) = n
OBVIOUS

\* What ends before another begins has a smaller offset.
LEMMA InOrder ==
  ASSUME NEW q \in Nat, NEW o \in Nat, NEW x \in Nat, NEW y \in Nat, NEW a \in Nat, NEW e \in Nat,
         x < 8 * q + (o + e), e <= a, 8 * q + (o + a) <= y
  PROVE  x < y
OBVIOUS

\* The eightbyte of an offset within eightbyte q.
LEMMA WordOf ==
  ASSUME NEW q \in Nat, NEW o \in 0 .. 7
  PROVE  (8 * q + o) \div 8 = q /\ (8 * q + o) % 8 = o
OBVIOUS

\* f goes through the loop of classify_argument over the fields of s, which have the
\* classes sub.
Classed(f, s, n, o, sub) ==
  /\ f = [k \in 0 .. n |-> f[k]]
  /\ f[0] = NoClasses(o)
  /\ \A k \in 1 .. n :
       /\ Align(f[k - 1].offset, AlignmentOf(fields[s][k])) = o + offset[s][k]
       /\ f[k] = AddClasses(f[k - 1], o + offset[s][k], SizeOf(fields[s][k]), sub[k])

\* The offsets that libffi goes through over the fields of s.
Running(f, s, n, o) ==
  /\ f[0].offset = o
  /\ \A k \in 1 .. n :
       f[k].offset = Align(f[k - 1].offset, AlignmentOf(fields[s][k])) + SizeOf(fields[s][k])

\* The classes of each field are those of its scalars, which lie within it.
FieldClasses(s, n, o, q, sub, J) ==
  /\ sub \in [1 .. n -> Seq(WordClass)]
  /\ \A k \in 1 .. n :
       /\ Covers(sub[k], 8 * q + (o + offset[s][k]), J[k])
       /\ \A p \in J[k] : /\ p[1] \in Nat
                          /\ 8 * q + (o + offset[s][k]) <= p[1]
                          /\ p[1] < 8 * q + (o + End(s, k))

\* The first eightbytes of b.
FirstWords(b, words) == [w \in 1 .. words |-> b.classes[w - 1]]

\* The classes of a structure's own words, in an eightbyte or from the start of one.
LEMMA ClassedWords ==
  ASSUME TypeOK, NEW s \in Structs, Finished(s), FieldsOK(s), fields[s] # <<>>,
         NEW o \in 0 .. 7, NEW q \in Nat, Aligned(s, o), o = 0 \/ o + size[s] <= 8,
         NEW n \in Nat, n = Len(fields[s]), NEW sub, NEW J, FieldClasses(s, n, o, q, sub, J),
         NEW f, Classed(f, s, n, o, sub),
         NEW words, words = (size[s] + 7) \div 8, words <= 2, ~f[n].memory
  PROVE  Covers(FirstWords(f[n], words), 8 * q + o, AllOf(J, n))
<1> DEFINE at == [k \in 1 .. n |-> o + offset[s][k]]
           room == [k \in 1 .. n |-> SizeOf(fields[s][k])]
           All == AllOf(J, n)
           c == [w \in 1 .. words |-> f[n].classes[w - 1]]
<1>16. /\ \A k \in 1 .. n :
            /\ Covers(sub[k], 8 * q + (o + offset[s][k]), J[k])
            /\ \A p \in J[k] : /\ p[1] \in Nat
                               /\ 8 * q + (o + offset[s][k]) <= p[1]
                               /\ p[1] < 8 * q + (o + End(s, k))
       /\ f[0] = NoClasses(o)
       /\ \A k \in 1 .. n :
            f[k] = AddClasses(f[k - 1], o + offset[s][k], SizeOf(fields[s][k]), sub[k])
  BY DEF FieldClasses, Classed
<1>1. \A k \in 1 .. n : o + offset[s][k] \in Nat /\ SizeOf(fields[s][k]) \in Nat \ {0}
  BY NextOffset
<1>2. \A k \in 1 .. n : /\ End(s, k) \in Nat /\ End(s, k) <= size[s]
                        /\ \A j \in 1 .. k - 1 : End(s, j) <= offset[s][k]
                        /\ offset[s][k] \in Nat
  <2>1. \A k \in 1 .. n : offset[s][k] \in Nat
    BY DEF TypeOK
  <2>2. ASSUME NEW k \in 1 .. n PROVE End(s, k) \in Nat
    <3>1. offset[s][k] \in Nat /\ SizeOf(fields[s][k]) \in Nat
      BY <1>1, <2>1
    <3>2. End(s, k) = offset[s][k] + SizeOf(fields[s][k])
      BY DEF End
    <3> QED
      BY <3>1, <3>2
  <2>3. \A k \in 1 .. n : End(s, k) <= size[s] /\ \A j \in 1 .. k - 1 : End(s, j) <= offset[s][k]
    BY Zenon DEF Finished, Placed
  <2> QED
    BY <2>1, <2>2, <2>3, Zenon
<1>15. o \in Nat
  OBVIOUS
<1>3. \A k \in 1 .. n : \A j \in 1 .. k - 1 : \A p \in J[j] : \A r \in J[k] : p[1] < r[1]
  <2> SUFFICES ASSUME NEW k \in 1 .. n, NEW j \in 1 .. k - 1, NEW p \in J[j], NEW r \in J[k]
               PROVE  p[1] < r[1]
    OBVIOUS
  <2>1. j \in 1 .. n
    OBVIOUS
  <2>2. p[1] \in Nat /\ p[1] < 8 * q + (o + End(s, j)) /\ End(s, j) \in Nat
    BY <1>2, <1>16, <2>1
  <2>3. /\ r[1] \in Nat /\ 8 * q + (o + offset[s][k]) <= r[1]
        /\ End(s, j) <= offset[s][k] /\ offset[s][k] \in Nat
    BY <1>2, <1>16
  <2> QED
    BY <1>15, <2>2, <2>3, InOrder
<1>4. at \in [1 .. n -> Nat]
  BY <1>1
<1>5. \A k \in 1 .. n : /\ Covers(sub[k], 8 * q + at[k], J[k])
                        /\ f[k] = AddClasses(f[k - 1], at[k], room[k], sub[k])
  BY <1>16
<1> HIDE DEF at, room
<1>13. Elements(n, q, at, sub, J)
  <2>1. \A k \in 1 .. n : \A p \in J[k] : p[1] \in Nat
    BY <1>16
  <2> QED
    BY <1>3, <1>5, <2>1 DEF Elements
<1>14. Classing(f, n, o, at, room, sub)
  BY <1>5, <1>16 DEF Classing
<1>6. \A w \in 0 .. 4 : Good(f[n].classes[w], InWord(All, q + w))
  BY <1>4, <1>13, <1>14, ClassesAdded DEF All
<1> HIDE DEF All
<1>7. size[s] \in Nat /\ words \in Nat /\ size[s] <= 8 * words
  <2>1. size[s] \in Nat
    BY DEF TypeOK
  <2> QED
    BY <2>1
<1>8. (8 * q + o) \div 8 = q
  BY WordOf
<1>9. ASSUME NEW p \in All
      PROVE  (p[1] \div 8) - q + 1 \in 1 .. words
  <2>1. PICK k \in 1 .. n : p \in J[k]
    BY DEF All, AllOf
  <2>2. /\ p[1] \in Nat /\ 8 * q + (o + offset[s][k]) <= p[1] /\ p[1] < 8 * q + (o + End(s, k))
        /\ End(s, k) \in Nat /\ End(s, k) <= size[s] /\ offset[s][k] \in Nat
    BY <1>2, <1>16, <2>1
  <2> QED
    BY <1>7, <2>2, InOwnWords
<1>10. ASSUME NEW w \in 1 .. words
       PROVE  w - 1 \in 0 .. 4 /\ Good(c[w], InWord(All, q + w - 1)) /\ c[w] \in WordClass
  <2>1. w - 1 \in 0 .. 4 /\ q + (w - 1) = q + w - 1 /\ c[w] = f[n].classes[w - 1]
    BY <1>7
  <2>2. Good(c[w], InWord(All, q + w - 1))
    BY <1>6, <2>1
  <2> QED
    BY <2>1, <2>2, GoodIsClass
<1>11. c \in Seq(WordClass) /\ Len(c) = words
  <2>1. c \in [1 .. words -> WordClass]
    BY <1>10
  <2> HIDE DEF c
  <2> QED
    BY <1>7, <2>1, FunctionIsSeq
<1> HIDE DEF c
<1>12. Covers(c, 8 * q + o, All)
  BY <1>8, <1>9, <1>10, <1>11 DEF Covers
<1> QED
  BY <1>12 DEF c, All, FirstWords

\* The classes that the loop computes exist.
LEMMA ClassedExists ==
  ASSUME TypeOK, NEW s \in Structs, Finished(s), FieldsOK(s), NEW o \in Nat, Aligned(s, o),
         NEW n \in Nat, n = Len(fields[s]), NEW q, NEW sub, NEW J, FieldClasses(s, n, o, q, sub, J)
  PROVE  \E g : Classed(g, s, n, o, sub)
<1>1. sub \in [1 .. n -> Seq(WordClass)]
  BY DEF FieldClasses
<1>2. PICK g : /\ g = [k \in 0 .. n |-> g[k]]
               /\ g[0] = NoClasses(o)
               /\ \A k \in 1 .. n :
                    /\ g[k] = AddClasses(g[k - 1], o + offset[s][k], SizeOf(fields[s][k]), sub[k])
                    /\ Align(g[k - 1].offset, AlignmentOf(fields[s][k])) = o + offset[s][k]
  BY <1>1, ClassesExist, Zenon
<1> QED
  BY <1>2 DEF Classed

\* The loop comes to the offsets of recalc.
LEMMA RunningOffsets ==
  ASSUME TypeOK, NEW s \in Structs, Finished(s), FieldsOK(s), NEW o \in Nat, Aligned(s, o),
         NEW n \in 0 .. Len(fields[s]), NEW f, Running(f, s, n, o)
  PROVE  \A k \in 1 .. n : Align(f[k - 1].offset, AlignmentOf(fields[s][k])) = o + offset[s][k]
<1>1. f[0].offset = o
  BY DEF Running
<1>2. \A k \in 1 .. n :
        f[k].offset = Align(f[k - 1].offset, AlignmentOf(fields[s][k])) + SizeOf(fields[s][k])
  BY DEF Running
<1> QED
  BY <1>1, <1>2, Offsets, Zenon

\* What is passed when struct u is at offset at: its fields with their offsets.
FieldsAt(u, at) == {<<at + offset[u][j], fields[u][j]>> : j \in DOMAIN fields[u]}

\* The eightbytes of a structure that nests no further, from offset at on.
LEMMA FlatClass ==
  ASSUME TypeOK, NEW u \in Structs, Finished(u), FieldsOK(u), fields[u] # <<>>,
         StructFields(u) = {}, NEW at \in Nat, at % alignment[u] = 0,
         at % 8 = 0 \/ (at % 8) + size[u] <= 8
  PROVE  Covers(ClassifyFlat(u, at % 8), at, FieldsAt(u, at))
<1> DEFINE n == Len(fields[u])
           t(k) == fields[u][k]
           o == at % 8
           q == at \div 8
           P(g) == g = [k \in 0 .. n |->
                     IF k = 0 THEN NoClasses(o)
                     ELSE LET p == Align(g[k - 1].offset, FlatType(fields[u][k]).alignment)
                          IN AddClasses(g[k - 1], p, FlatType(fields[u][k]).size,
                                        ClassifyBase(fields[u][k], p % 8))]
           f == CHOOSE g : P(g)
           words == (FlatType(u).size + 7) \div 8
           sub == [k \in 1 .. n |-> ClassifyBase(t(k), (o + offset[u][k]) % 8)]
           J == [k \in 1 .. n |-> {<<at + offset[u][k], t(k)>>}]
<1>1. /\ n \in Nat \ {0} /\ DOMAIN fields[u] = 1 .. n
      /\ \A k \in 1 .. n : /\ t(k) \in BaseTypes /\ t(k) \notin Structs
                           /\ offset[u][k] \in Nat
  BY DEF TypeOK, StructFields, Types
<1>2. o \in 0 .. 7 /\ q \in Nat /\ at = 8 * q + o
  BY Eighths
<1>3. ClassifyFlat(u, o) =
        IF FlatType(u).size > 32 \/ words > 2 \/ f[n].memory THEN <<>>
        ELSE [w \in 1 .. words |-> f[n].classes[w - 1]]
  BY Zenon DEF ClassifyFlat, ClassifyStruct
<1>4. FlatType(u).size = size[u]
  <2>1. FlatType(u) = [size |-> size[u], alignment |-> alignment[u]]
    BY FlatLayout, Zenon DEF FlatType
  <2> QED
    BY <2>1
<1>5. \A k \in 1 .. n : /\ FlatType(t(k)).size = SizeOf(t(k))
                        /\ FlatType(t(k)).alignment = AlignmentOf(t(k))
                        /\ AlignmentOf(t(k)) = SizeOf(t(k)) /\ SizeOf(t(k)) \in Eighth
                        /\ AlignmentOf(t(k)) \in Alignments
  BY <1>1, BaseIsNatural DEF FlatType, BaseType
<1> HIDE DEF t, o, q, n
<1>6. \A k \in 1 .. n : at % AlignmentOf(t(k)) = 0 /\ o % AlignmentOf(t(k)) = 0
  <2>1. alignment[u] \in Alignments /\ \A k \in 1 .. n : AlignmentOf(t(k)) <= alignment[u]
    BY <1>1 DEF Finished, Covered, n, t
  <2>2. \A k \in 1 .. n : at % AlignmentOf(t(k)) = 0
    BY <1>5, <2>1, MultipleOfLarger
  <2> QED
    BY <1>5, <2>2, MultipleInWord DEF o
<1>7. Aligned(u, o)
  BY <1>6 DEF Aligned, t, n
<1>8. ASSUME NEW k \in 1 .. n
      PROVE  /\ Covers(sub[k], 8 * q + (o + offset[u][k]), J[k])
             /\ \A p \in J[k] : /\ p[1] \in Nat
                                /\ 8 * q + (o + offset[u][k]) <= p[1]
                                /\ p[1] < 8 * q + (o + End(u, k))
             /\ sub[k] \in Seq(WordClass)
  <2> DEFINE a == o + offset[u][k]
             b == 8 * q + a
  <2>0. offset[u][k] \in Nat /\ o \in Nat /\ q \in Nat /\ at = 8 * q + o
    <3>1. offset[u][k] \in Nat
      BY <1>1, Zenon
    <3>2. \A m \in 0 .. 7 : m \in Nat
      OBVIOUS
    <3> QED
      BY <1>2, <3>1, <3>2, Zenon
  <2>1. /\ a \in Nat /\ b \in Nat /\ at + offset[u][k] = b
    BY <2>0
  <2>2. a % SizeOf(t(k)) = 0 /\ o + End(u, k) = a + SizeOf(t(k)) /\ SizeOf(t(k)) \in Nat \ {0}
    <3>1. k \in 1 .. Len(fields[u]) /\ AlignmentOf(t(k)) = SizeOf(t(k)) /\ SizeOf(t(k)) \in Eighth
      BY <1>5 DEF n
    <3>2. FieldEnds(u, o, k)
      <4>1. o \in Nat
        BY <1>2
      <4>2. k \in 1 .. Len(fields[u])
        BY <3>1
      <4> HIDE DEF a, b, f, P, sub, J, words
      <4> QED
        BY <1>7, <4>1, <4>2, FieldsEnd, Zenon
    <3>3. (o + offset[u][k]) % SizeOf(t(k)) = 0 /\ (o + offset[u][k]) + SizeOf(t(k)) = o + End(u, k)
      BY <3>1, <3>2, Zenon DEF FieldEnds, t
    <3>4. SizeOf(t(k)) \in Nat \ {0}
      BY <3>1 DEF Eighth
    <3> QED
      BY <3>3, <3>4, Zenon
  <2>3. at % SizeOf(t(k)) = 0 /\ offset[u][k] % SizeOf(t(k)) = 0
    BY <1>5, <1>6 DEF Finished, Placed, t, n
  <2>4. (at + offset[u][k]) % SizeOf(t(k)) = 0
    BY <1>1, <1>5, <2>3, MultiplesAdd
  <2>5. b % 8 = a % 8
    BY <1>2, <2>1, Eighths
  <2>6. J[k] = {<<b, t(k)>>} /\ sub[k] = ClassifyBase(t(k), a % 8)
    BY <2>1
  <2> HIDE DEF a, b
  <2>7. Covers(ClassifyBase(t(k), b % 8), b, {<<b, t(k)>>})
    BY <1>1, <2>1, <2>4, BaseClass
  <2>8. Covers(sub[k], b, J[k])
    BY <2>5, <2>6, <2>7
  <2>9. b = 8 * q + a /\ b < 8 * q + (a + SizeOf(t(k)))
    BY <1>2, <2>1, <2>2 DEF b
  <2>10. \A p \in J[k] : p[1] = b
    BY <2>6
  <2> HIDE DEF J, sub
  <2> QED
    BY <2>1, <2>2, <2>8, <2>9, <2>10 DEF a, Covers
<1>9. FieldClasses(u, n, o, q, sub, J)
  <2>1. sub = [k \in 1 .. n |-> sub[k]]
    OBVIOUS
  <2> HIDE DEF sub, J
  <2>2. sub \in [1 .. n -> Seq(WordClass)]
    BY <1>8, <2>1
  <2> QED
    BY <1>8, <2>2 DEF FieldClasses
<1>15. AllOf(J, n) = FieldsAt(u, at)
  <2>1. AllOf(J, n) = {<<at + offset[u][k], t(k)>> : k \in 1 .. n}
    BY DEF AllOf
  <2> QED
    BY <1>1, <2>1 DEF FieldsAt, t
<1>18. n = Len(fields[u])
  BY DEF n
<1>19. \A k \in 1 .. n : sub[k] = ClassifyBase(t(k), (o + offset[u][k]) % 8)
  OBVIOUS
<1> HIDE DEF sub, J
<1>10. \E g : P(g)
  <2>1. PICK g : Classed(g, u, n, o, sub)
    BY <1>1, <1>2, <1>7, <1>9, <1>18, ClassedExists
  <2>2. \A k \in 1 .. n :
          g[k] = LET p == Align(g[k - 1].offset, FlatType(fields[u][k]).alignment)
                 IN AddClasses(g[k - 1], p, FlatType(fields[u][k]).size,
                               ClassifyBase(fields[u][k], p % 8))
    BY <1>5, <1>19, <2>1 DEF Classed, t
  <2>3. g = [k \in 0 .. n |-> g[k]] /\ g[0] = NoClasses(o)
    BY <2>1 DEF Classed
  <2>4. \A k \in 0 .. n : k = 0 \/ k \in 1 .. n
    BY <1>1
  <2>5. \A k \in 0 .. n : g[k] = IF k = 0 THEN NoClasses(o)
                     ELSE LET p == Align(g[k - 1].offset, FlatType(fields[u][k]).alignment)
                          IN AddClasses(g[k - 1], p, FlatType(fields[u][k]).size,
                                        ClassifyBase(fields[u][k], p % 8))
    BY <2>2, <2>3, <2>4
  <2>6. P(g)
    BY <2>3, <2>5
  <2> QED
    BY <2>6
<1> HIDE DEF P
<1>11. P(f)
  BY <1>10
<1> HIDE DEF f
<1>12. /\ f = [k \in 0 .. n |-> f[k]]
       /\ f[0] = NoClasses(o)
       /\ \A k \in 1 .. n :
            LET p == Align(f[k - 1].offset, AlignmentOf(t(k)))
            IN f[k] = AddClasses(f[k - 1], p, SizeOf(t(k)), ClassifyBase(t(k), p % 8))
  <2>1. 0 \in 0 .. n /\ \A k \in 1 .. n : k \in 0 .. n /\ k # 0
    BY <1>1
  <2>2. f = [k \in 0 .. n |->
                     IF k = 0 THEN NoClasses(o)
                     ELSE LET p == Align(f[k - 1].offset, FlatType(fields[u][k]).alignment)
                          IN AddClasses(f[k - 1], p, FlatType(fields[u][k]).size,
                                        ClassifyBase(fields[u][k], p % 8))]
    BY <1>11, Zenon DEF P
  <2> QED
    BY <1>5, <2>1, <2>2, Zenon DEF t
<1>13. Running(f, u, n, o)
  <2>1. f[0].offset = o
    BY <1>12 DEF NoClasses
  <2>2. \A k \in 1 .. n :
          f[k].offset = Align(f[k - 1].offset, AlignmentOf(t(k))) + SizeOf(t(k))
    <3> SUFFICES ASSUME NEW k \in 1 .. n
                 PROVE  f[k].offset = Align(f[k - 1].offset, AlignmentOf(t(k))) + SizeOf(t(k))
      OBVIOUS
    <3> DEFINE p == Align(f[k - 1].offset, AlignmentOf(t(k)))
               c == ClassifyBase(t(k), p % 8)
    <3>1. f[k] = AddClasses(f[k - 1], p, SizeOf(t(k)), c)
      BY <1>12
    <3> HIDE DEF p, c
    <3>2. f[k].offset = p + SizeOf(t(k))
      BY <3>1 DEF AddClasses
    <3> QED
      BY <3>2 DEF p
  <2> QED
    BY <2>1, <2>2 DEF Running, t
<1>14. Classed(f, u, n, o, sub)
  <2>1. n \in 0 .. Len(fields[u]) /\ o \in Nat
    <3>1. Len(fields[u]) \in Nat
      BY <1>1, <1>18
    <3> QED
      BY <1>2, <1>18, <3>1
  <2>2. \A k \in 1 .. n : Align(f[k - 1].offset, AlignmentOf(t(k))) = o + offset[u][k]
    BY <1>7, <1>13, <2>1, RunningOffsets DEF t
  <2>3. \A k \in 1 .. n :
          f[k] = AddClasses(f[k - 1], o + offset[u][k], SizeOf(t(k)), sub[k])
    <3> SUFFICES ASSUME NEW k \in 1 .. n
                 PROVE  f[k] = AddClasses(f[k - 1], o + offset[u][k], SizeOf(t(k)), sub[k])
      OBVIOUS
    <3> DEFINE p == Align(f[k - 1].offset, AlignmentOf(t(k)))
    <3>1. f[k] = AddClasses(f[k - 1], p, SizeOf(t(k)), ClassifyBase(t(k), p % 8))
      BY <1>12, Zenon
    <3>2. p = o + offset[u][k]
      BY <2>2, Zenon
    <3>3. sub[k] = ClassifyBase(t(k), (o + offset[u][k]) % 8)
      BY <1>19, Zenon
    <3> HIDE DEF p
    <3> QED
      BY <3>1, <3>2, <3>3, Zenon
  <2> QED
    BY <1>12, <2>2, <2>3, Zenon DEF Classed, t
<1>16. CASE size[u] > 32 \/ words > 2 \/ f[n].memory
  <2>1. ClassifyFlat(u, o) = <<>>
    BY <1>3, <1>4, <1>16
  <2>2. <<>> \in Seq(WordClass)
    OBVIOUS
  <2> QED
    BY <2>1, <2>2 DEF Covers, o
<1>17. CASE ~ (size[u] > 32 \/ words > 2 \/ f[n].memory)
  <2> DEFINE c == FirstWords(f[n], words)
  <2>1. ClassifyFlat(u, o) = c
    BY <1>3, <1>4, <1>17 DEF FirstWords
  <2>2. words = (size[u] + 7) \div 8 /\ size[u] \in Nat
    BY <1>4 DEF TypeOK
  <2>3. words <= 2
    BY <1>17, <2>2
  <2>5. o = 0 \/ o + size[u] <= 8
    BY DEF o
  <2> HIDE DEF words
  <2>4. Covers(c, 8 * q + o, AllOf(J, n))
    BY <1>1, <1>2, <1>7, <1>9, <1>14, <1>17, <1>18, <2>2, <2>3, <2>5, ClassedWords
  <2> HIDE DEF c
  <2> QED
    BY <1>2, <1>15, <2>1, <2>4 DEF o
<1> QED
  BY <1>16, <1>17

\* What is passed for field k of s.
FieldScalars(s, k) ==
  IF fields[s][k] \in Structs THEN FieldsAt(fields[s][k], offset[s][k])
  ELSE {<<offset[s][k], fields[s][k]>>}

\* The fields of a callable structure.
LEMMA CallableFields ==
  ASSUME IInv, Between, NEW s \in Structs, Callable(s)
  PROVE  /\ TypeOK /\ Finished(s) /\ FieldsOK(s) /\ fields[s] # <<>>
         /\ Len(fields[s]) \in Nat \ {0} /\ DOMAIN fields[s] = 1 .. Len(fields[s])
         /\ \A k \in 1 .. Len(fields[s]) :
              /\ FFIType(fields[s][k]) = BaseType(fields[s][k])
              /\ offset[s][k] \in Nat
              /\ fields[s][k] \notin Structs => fields[s][k] \in BaseTypes
              /\ fields[s][k] \in Structs =>
                   /\ Finished(fields[s][k]) /\ FieldsOK(fields[s][k])
                   /\ fields[fields[s][k]] # <<>> /\ StructFields(fields[s][k]) = {}
<1>1. TypeOK /\ Finished(s) /\ FieldsOK(s) /\ fields[s] # <<>>
  BY AllFieldsOK DEF IInv, AllFinished, Callable
<1>2. Len(fields[s]) \in Nat \ {0} /\ DOMAIN fields[s] = 1 .. Len(fields[s])
  BY <1>1 DEF TypeOK
<1>3. ASSUME NEW k \in 1 .. Len(fields[s])
      PROVE  /\ FFIType(fields[s][k]) = BaseType(fields[s][k])
             /\ offset[s][k] \in Nat
             /\ fields[s][k] \notin Structs => fields[s][k] \in BaseTypes
             /\ fields[s][k] \in Structs =>
                  /\ Finished(fields[s][k]) /\ FieldsOK(fields[s][k])
                  /\ fields[fields[s][k]] # <<>> /\ StructFields(fields[s][k]) = {}
  <2>1. offset[s][k] \in Nat /\ fields[s][k] \in Types
    BY <1>1 DEF TypeOK
  <2>2. CASE fields[s][k] \notin Structs
    BY <2>1, <2>2 DEF FFIType, Types
  <2>3. CASE fields[s][k] \in Structs
    <3>1. PICK u \in Structs : u = fields[s][k]
      BY <2>3
    <3>2. Complete(u) /\ fields[u] # <<>> /\ StructFields(u) = {}
      BY <1>2, <2>3, <3>1 DEF Callable, StructFields, IInv, FieldTypes
    <3>3. Callable(u)
      BY <3>2 DEF Callable
    <3>4. FFIType(u) = BaseType(u)
      BY <3>3, CallableLayout
    <3>5. Finished(u) /\ FieldsOK(u)
      BY <3>2, AllFieldsOK DEF IInv, AllFinished
    <3> QED
      BY <2>1, <3>1, <3>2, <3>4, <3>5
  <2> QED
    BY <2>2, <2>3
<1> QED
  BY <1>1, <1>2, <1>3

\* The scalars of a structure, field by field.
LEMMA ScalarsByField ==
  ASSUME NEW s \in Structs, DOMAIN fields[s] = 1 .. Len(fields[s])
  PROVE  Scalars(s) = UNION {FieldScalars(s, k) : k \in 1 .. Len(fields[s])}
<1> DEFINE n == Len(fields[s])
           A == {<<offset[s][k], fields[s][k]>> : k \in DOMAIN fields[s] \ StructFields(s)}
           B == UNION {FieldsAt(fields[s][k], offset[s][k]) : k \in StructFields(s)}
<1>1. Scalars(s) = A \cup B
  BY DEF Scalars, FieldsAt
<1>2. \A k \in 1 .. n : k \in StructFields(s) <=> fields[s][k] \in Structs
  BY DEF StructFields
<1>3. StructFields(s) \subseteq 1 .. n
  BY DEF StructFields
<1>4. A \subseteq UNION {FieldScalars(s, k) : k \in 1 .. n}
  BY <1>2 DEF FieldScalars
<1>5. B \subseteq UNION {FieldScalars(s, k) : k \in 1 .. n}
  BY <1>2, <1>3 DEF FieldScalars
<1>6. \A k \in 1 .. n : FieldScalars(s, k) \subseteq A \cup B
  BY <1>2 DEF FieldScalars
<1> QED
  BY <1>1, <1>4, <1>5, <1>6

\* The offsets of the fields of a structure inside.
LEMMA FieldsWithin ==
  ASSUME TypeOK, NEW u \in Structs, Finished(u), FieldsOK(u), NEW at \in Nat
  PROVE  \A p \in FieldsAt(u, at) : /\ p[1] \in Nat /\ at <= p[1] /\ p[1] < at + size[u]
<1> SUFFICES ASSUME NEW j \in DOMAIN fields[u]
             PROVE  LET x == at + offset[u][j] IN x \in Nat /\ at <= x /\ x < at + size[u]
  BY DEF FieldsAt
<1>1. offset[u][j] \in Nat /\ size[u] \in Nat /\ j \in 1 .. Len(fields[u])
  BY DEF TypeOK
<1>2. End(u, j) <= size[u]
  BY <1>1 DEF Finished, Placed
<1>3. SizeOf(fields[u][j]) \in Nat \ {0}
  BY DEF FieldsOK
<1>4. End(u, j) = offset[u][j] + SizeOf(fields[u][j])
  BY DEF End
<1>5. offset[u][j] < size[u]
  <2> DEFINE x == offset[u][j]
             y == SizeOf(fields[u][j])
             z == size[u]
  <2>1. x + y <= z /\ x \in Nat /\ y \in Nat \ {0} /\ z \in Nat
    BY <1>1, <1>2, <1>3, <1>4
  <2> HIDE DEF x, y, z
  <2>2. x < z
    BY <2>1
  <2> QED
    BY <2>2 DEF x, z
<1> QED
  BY <1>1, <1>5

\* The classes of one field.
LEMMA FieldClass ==
  ASSUME IInv, Between, NEW s \in Structs, Callable(s), ~Straddles(s),
         NEW k \in 1 .. Len(fields[s])
  PROVE  /\ Covers(ClassifyFlat(fields[s][k], offset[s][k] % 8), offset[s][k], FieldScalars(s, k))
         /\ \A p \in FieldScalars(s, k) :
              p[1] \in Nat /\ offset[s][k] <= p[1] /\ p[1] < End(s, k)
         /\ ClassifyFlat(fields[s][k], offset[s][k] % 8) \in Seq(WordClass)
<1> DEFINE t == fields[s][k]
           at == offset[s][k]
<1>1. /\ TypeOK /\ at \in Nat /\ at % AlignmentOf(t) = 0 /\ SizeOf(t) \in Nat \ {0}
      /\ End(s, k) = at + SizeOf(t)
  BY CallableFields DEF Finished, Placed, FieldsOK, End
<1>2. CASE t \notin Structs
  <2>1. t \in BaseTypes
    BY <1>2, CallableFields
  <2>2. at % SizeOf(t) = 0
    BY <1>1, <2>1, BaseIsNatural
  <2>3. ClassifyFlat(t, at % 8) = ClassifyBase(t, at % 8) /\ FieldScalars(s, k) = {<<at, t>>}
    BY <1>2 DEF ClassifyFlat, FieldScalars
  <2> HIDE DEF t, at
  <2>4. Covers(ClassifyBase(t, at % 8), at, {<<at, t>>})
    BY <1>1, <2>1, <2>2, BaseClass
  <2>5. at < at + SizeOf(t)
    BY <1>1
  <2>6. \A p \in {<<at, t>>} : p[1] = at
    OBVIOUS
  <2>7. \A p \in FieldScalars(s, k) : p[1] \in Nat /\ at <= p[1] /\ p[1] < End(s, k)
    BY <1>1, <2>3, <2>5, <2>6
  <2>8. /\ Covers(ClassifyFlat(t, at % 8), at, FieldScalars(s, k))
        /\ ClassifyFlat(t, at % 8) \in Seq(WordClass)
    BY <2>3, <2>4 DEF Covers
  <2> QED
    BY <2>7, <2>8 DEF t, at
<1>3. CASE t \in Structs
  <2>1. PICK u \in Structs : u = t
    BY <1>3
  <2>2. /\ Finished(u) /\ FieldsOK(u) /\ fields[u] # <<>> /\ StructFields(u) = {}
        /\ AlignmentOf(t) = alignment[u] /\ SizeOf(t) = size[u]
    BY <2>1, CallableFields DEF AlignmentOf, SizeOf
  <2>3. at % 8 = 0 \/ (at % 8) + size[u] <= 8
    <3>1. k \in StructFields(s)
      BY <1>3, CallableFields DEF StructFields
    <3>2. size[u] \in Nat
      BY <1>1 DEF TypeOK
    <3> QED
      <4>1. ~ (at % 8 # 0 /\ (at % 8) + SizeOf(t) > 8)
        BY <3>1 DEF Straddles
      <4>2. at % 8 \in Nat
        BY <1>1
      <4> HIDE DEF at, t
      <4> QED
        BY <2>2, <3>2, <4>1, <4>2
  <2>4. FieldScalars(s, k) = FieldsAt(u, at)
    BY <1>3, <2>1 DEF FieldScalars
  <2>5. at % alignment[u] = 0
    BY <1>1, <2>2
  <2> HIDE DEF t, at
  <2>6. Covers(ClassifyFlat(u, at % 8), at, FieldsAt(u, at))
    BY <1>1, <2>2, <2>3, <2>5, FlatClass
  <2>7. \A p \in FieldsAt(u, at) : p[1] \in Nat /\ at <= p[1] /\ p[1] < at + size[u]
    BY <1>1, <2>2, FieldsWithin
  <2> QED
    BY <1>1, <2>1, <2>2, <2>4, <2>6, <2>7 DEF Covers, t, at
<1> QED
  BY <1>2, <1>3

\* The eightbytes of a structure are those of its scalars.
LEMMA StructClass ==
  ASSUME IInv, Between, NEW s \in Structs, Callable(s), ~Straddles(s)
  PROVE  /\ Covers(Classify(s, 0), 0, Scalars(s))
         /\ Classify(s, 0) # <<>> => /\ Len(Classify(s, 0)) = (size[s] + 7) \div 8
                                     /\ Len(Classify(s, 0)) <= 2
<1> DEFINE n == Len(fields[s])
           t(k) == fields[s][k]
           P(g) == g = [k \in 0 .. n |->
                     IF k = 0 THEN NoClasses(0)
                     ELSE LET p == Align(g[k - 1].offset, FFIType(fields[s][k]).alignment)
                          IN AddClasses(g[k - 1], p, FFIType(fields[s][k]).size,
                                        ClassifyFlat(fields[s][k], p % 8))]
           f == CHOOSE g : P(g)
           words == (FFIType(s).size + 7) \div 8
           sub == [k \in 1 .. n |-> ClassifyFlat(t(k), offset[s][k] % 8)]
           J == [k \in 1 .. n |-> FieldScalars(s, k)]
<1>1. /\ TypeOK /\ Finished(s) /\ FieldsOK(s) /\ fields[s] # <<>>
      /\ n \in Nat \ {0} /\ DOMAIN fields[s] = 1 .. n
      /\ \A k \in 1 .. n : /\ FFIType(t(k)) = BaseType(t(k)) /\ offset[s][k] \in Nat
                           /\ AlignmentOf(t(k)) \in Alignments
  BY CallableFields DEF FieldsOK
<1>2. Classify(s, 0) =
        IF FFIType(s).size > 32 \/ words > 2 \/ f[n].memory THEN <<>>
        ELSE [w \in 1 .. words |-> f[n].classes[w - 1]]
  BY Zenon DEF Classify, ClassifyStruct
<1>3. words = (size[s] + 7) \div 8 /\ size[s] \in Nat
  BY <1>1, CallableLayout DEF BaseType, SizeOf, TypeOK
<1>4. \A k \in 1 .. n : /\ FFIType(t(k)).size = SizeOf(t(k))
                        /\ FFIType(t(k)).alignment = AlignmentOf(t(k))
  <2> SUFFICES ASSUME NEW k \in 1 .. n
               PROVE  /\ FFIType(t(k)).size = SizeOf(t(k))
                      /\ FFIType(t(k)).alignment = AlignmentOf(t(k))
    OBVIOUS
  <2>1. FFIType(t(k)) = BaseType(t(k))
    BY <1>1
  <2> HIDE DEF t
  <2> QED
    BY <2>1 DEF BaseType
<1>5. n = Len(fields[s])
  OBVIOUS
<1>6. \A k \in 1 .. n : /\ Covers(sub[k], offset[s][k], J[k]) /\ sub[k] \in Seq(WordClass)
                        /\ \A p \in J[k] : /\ p[1] \in Nat /\ offset[s][k] <= p[1]
                                           /\ p[1] < End(s, k)
  BY FieldClass
<1>7. Scalars(s) = AllOf(J, n)
  <2>1. UNION {FieldScalars(s, k) : k \in 1 .. n} = UNION {J[k] : k \in 1 .. n}
    OBVIOUS
  <2> QED
    BY <1>1, <2>1, ScalarsByField DEF AllOf
<1>8. \A k \in 1 .. n : sub[k] = ClassifyFlat(t(k), offset[s][k] % 8)
  OBVIOUS
<1>9. sub = [k \in 1 .. n |-> sub[k]]
  OBVIOUS
<1> HIDE DEF sub, J, words, n
<1>10. Aligned(s, 0)
  <2>1. \A a \in Alignments : 0 % a = 0
    BY DEF Alignments
  <2> QED
    BY <1>1, <2>1 DEF Aligned, n
<1>11. \A k \in 1 .. n : End(s, k) \in Nat
  BY <1>1, <1>10, NextOffset DEF End, n
<1>12. FieldClasses(s, n, 0, 0, sub, J)
  <2>1. \A k \in 1 .. n : /\ 8 * 0 + (0 + offset[s][k]) = offset[s][k]
                          /\ 8 * 0 + (0 + End(s, k)) = End(s, k)
    BY <1>1, <1>11
  <2>2. sub \in [1 .. n -> Seq(WordClass)]
    BY <1>6, <1>9
  <2> QED
    BY <1>6, <2>1, <2>2 DEF FieldClasses
<1>13. \A k \in 1 .. n : 0 + offset[s][k] = offset[s][k]
  BY <1>1
<1>14. \E g : P(g)
  <2>1. PICK g : Classed(g, s, n, 0, sub)
    BY <1>1, <1>5, <1>10, <1>12, ClassedExists
  <2>2. \A k \in 1 .. n :
          g[k] = LET p == Align(g[k - 1].offset, FFIType(fields[s][k]).alignment)
                 IN AddClasses(g[k - 1], p, FFIType(fields[s][k]).size,
                               ClassifyFlat(fields[s][k], p % 8))
    BY <1>4, <1>8, <1>13, <2>1 DEF Classed, t
  <2>3. g = [k \in 0 .. n |-> g[k]] /\ g[0] = NoClasses(0)
    BY <2>1 DEF Classed
  <2>4. \A k \in 0 .. n : k = 0 \/ k \in 1 .. n
    BY <1>1
  <2>5. \A k \in 0 .. n : g[k] = IF k = 0 THEN NoClasses(0)
                     ELSE LET p == Align(g[k - 1].offset, FFIType(fields[s][k]).alignment)
                          IN AddClasses(g[k - 1], p, FFIType(fields[s][k]).size,
                                        ClassifyFlat(fields[s][k], p % 8))
    BY <2>2, <2>3, <2>4
  <2>6. P(g)
    BY <2>3, <2>5
  <2> QED
    BY <2>6
<1> HIDE DEF P
<1>15. P(f)
  BY <1>14
<1> HIDE DEF f
<1>16. /\ f = [k \in 0 .. n |-> f[k]]
       /\ f[0] = NoClasses(0)
       /\ \A k \in 1 .. n :
            LET p == Align(f[k - 1].offset, AlignmentOf(t(k)))
            IN f[k] = AddClasses(f[k - 1], p, SizeOf(t(k)), ClassifyFlat(t(k), p % 8))
  <2>1. 0 \in 0 .. n /\ \A k \in 1 .. n : k \in 0 .. n /\ k # 0
    BY <1>1
  <2>2. f = [k \in 0 .. n |->
                     IF k = 0 THEN NoClasses(0)
                     ELSE LET p == Align(f[k - 1].offset, FFIType(fields[s][k]).alignment)
                          IN AddClasses(f[k - 1], p, FFIType(fields[s][k]).size,
                                        ClassifyFlat(fields[s][k], p % 8))]
    BY <1>15, Zenon DEF P
  <2> QED
    BY <1>4, <2>1, <2>2, Zenon DEF t
<1> HIDE DEF t
<1>17. Running(f, s, n, 0)
  <2>1. f[0].offset = 0
    BY <1>16 DEF NoClasses
  <2>2. ASSUME NEW k \in 1 .. n
        PROVE  f[k].offset = Align(f[k - 1].offset, AlignmentOf(t(k))) + SizeOf(t(k))
    <3> DEFINE p == Align(f[k - 1].offset, AlignmentOf(t(k)))
               c == ClassifyFlat(t(k), p % 8)
    <3>1. f[k] = AddClasses(f[k - 1], p, SizeOf(t(k)), c)
      BY <1>16
    <3> HIDE DEF p, c
    <3>2. f[k].offset = p + SizeOf(t(k))
      BY <3>1 DEF AddClasses
    <3> QED
      BY <3>2 DEF p
  <2> QED
    BY <2>1, <2>2 DEF Running, t
<1>18. Classed(f, s, n, 0, sub)
  <2>1. n \in 0 .. Len(fields[s]) /\ 0 \in Nat
    BY <1>1, <1>5
  <2>2. \A k \in 1 .. n : Align(f[k - 1].offset, AlignmentOf(t(k))) = 0 + offset[s][k]
    BY <1>1, <1>10, <1>17, <2>1, RunningOffsets DEF t
  <2> QED
    <3>1. ASSUME NEW k \in 1 .. n
          PROVE  f[k] = AddClasses(f[k - 1], 0 + offset[s][k], SizeOf(t(k)), sub[k])
      <4>1. Align(f[k - 1].offset, AlignmentOf(t(k))) = 0 + offset[s][k]
        BY <2>2
      <4>2. sub[k] = ClassifyFlat(t(k), (0 + offset[s][k]) % 8)
        BY <1>8, <1>13 DEF t
      <4> QED
        BY <1>16, <4>1, <4>2
    <3> QED
      BY <1>16, <2>2, <3>1 DEF Classed, t
<1>19. CASE FFIType(s).size > 32 \/ words > 2 \/ f[n].memory
  <2>1. Classify(s, 0) = <<>>
    BY <1>2, <1>19
  <2>2. <<>> \in Seq(WordClass)
    OBVIOUS
  <2> QED
    BY <2>1, <2>2 DEF Covers
<1>20. CASE ~ (FFIType(s).size > 32 \/ words > 2 \/ f[n].memory)
  <2> DEFINE c == FirstWords(f[n], words)
  <2>1. Classify(s, 0) = c
    BY <1>2, <1>20 DEF FirstWords
  <2>2. words <= 2 /\ words \in Nat
    BY <1>3, <1>20
  <2>3. 0 \in 0 .. 7 /\ 0 \in Nat /\ 8 * 0 + 0 = 0
    OBVIOUS
  <2>4. Covers(c, 8 * 0 + 0, AllOf(J, n))
    BY <1>1, <1>3, <1>5, <1>10, <1>12, <1>18, <1>20, <2>2, <2>3, ClassedWords
  <2>5. Len(c) = words
    <3>1. c = [w \in 1 .. words |-> f[n].classes[w - 1]]
      BY DEF FirstWords
    <3> HIDE DEF c
    <3>2. c \in Seq(WordClass) /\ DOMAIN c = 1 .. words
      BY <2>4, <3>1 DEF Covers
    <3>3. DOMAIN c = 1 .. Len(c) /\ Len(c) \in Nat
      BY <3>2
    <3> QED
      BY <2>2, <3>2, <3>3
  <2> HIDE DEF c
  <2> QED
    BY <1>3, <1>7, <2>1, <2>2, <2>3, <2>4, <2>5
<1> QED
  BY <1>19, <1>20

-----------------------------------------------------------------------------
(***************************************************************************)
(* No eightbyte is empty, and every scalar is in one.                      *)
(***************************************************************************)

\* The fields of a structure that nests no further are base types.
LEMMA FlatFields ==
  ASSUME TypeOK, NEW u \in Structs, Finished(u), StructFields(u) = {}, fields[u] # <<>>
  PROVE  /\ Len(fields[u]) \in Nat \ {0} /\ DOMAIN fields[u] = 1 .. Len(fields[u])
         /\ \A j \in 1 .. Len(fields[u]) : fields[u][j] \in BaseTypes /\ offset[u][j] \in Nat
         /\ alignment[u] \in Eighth
<1>1. /\ Len(fields[u]) \in Nat \ {0} /\ DOMAIN fields[u] = 1 .. Len(fields[u])
      /\ \A j \in 1 .. Len(fields[u]) : fields[u][j] \in BaseTypes /\ offset[u][j] \in Nat
  BY DEF TypeOK, StructFields, Types
<1>2. PICK k \in 1 .. Len(fields[u]) : alignment[u] = AlignmentOf(fields[u][k])
  BY <1>1 DEF Finished, Covered
<1> QED
  BY <1>1, <1>2, BaseIsNatural

\* A multiple of its alignment that is more than 8 is so without its padding, too.
LEMMA PaddingIsInLastWord ==
  ASSUME NEW x \in Nat, NEW e \in Nat, NEW a \in Eighth, x > 8, x % a = 0, x - e < a
  PROVE  e > 8
<1> USE DEF Eighth
<1>1. CASE a = 1 BY <1>1
<1>2. CASE a = 2 BY <1>2
<1>3. CASE a = 4 BY <1>3
<1>4. CASE a = 8 BY <1>4
<1> QED BY <1>1, <1>2, <1>3, <1>4

\* What takes two eightbytes has more than eight bytes.
LEMMA TwoWords ==
  ASSUME NEW x \in Nat, (x + 7) \div 8 = 2
  PROVE  x > 8
OBVIOUS

\* Every scalar is a base type in one eightbyte.
LEMMA ScalarsPlaced ==
  ASSUME IInv, Between, NEW s \in Structs, Callable(s)
  PROVE  \A p \in Scalars(s) : /\ p[1] \in Nat /\ p[2] \in BaseTypes
                               /\ p[1] % SizeOf(p[2]) = 0
<1>1. ASSUME NEW k \in 1 .. Len(fields[s]), NEW p \in FieldScalars(s, k)
      PROVE  p[1] \in Nat /\ p[2] \in BaseTypes /\ p[1] % SizeOf(p[2]) = 0
  <2> DEFINE t == fields[s][k]
             at == offset[s][k]
  <2>1. /\ TypeOK /\ at \in Nat /\ at % AlignmentOf(t) = 0
    BY CallableFields DEF Finished, Placed
  <2>2. CASE t \notin Structs
    <3>1. t \in BaseTypes /\ p = <<at, t>>
      BY <2>2, CallableFields DEF FieldScalars
    <3> QED
      BY <2>1, <3>1, BaseIsNatural
  <2>3. CASE t \in Structs
    <3>1. PICK u \in Structs : u = t
      BY <2>3
    <3>2. /\ Finished(u) /\ FieldsOK(u) /\ fields[u] # <<>> /\ StructFields(u) = {}
          /\ AlignmentOf(t) = alignment[u]
      BY <3>1, CallableFields DEF AlignmentOf
    <3>3. FieldScalars(s, k) = FieldsAt(u, at)
      BY <2>3, <3>1 DEF FieldScalars
    <3>4. PICK j \in DOMAIN fields[u] : p = <<at + offset[u][j], fields[u][j]>>
      BY <3>3 DEF FieldsAt
    <3>5. /\ j \in 1 .. Len(fields[u]) /\ fields[u][j] \in BaseTypes /\ offset[u][j] \in Nat
          /\ alignment[u] \in Eighth
      BY <2>1, <3>2, FlatFields
    <3>6. /\ AlignmentOf(fields[u][j]) = SizeOf(fields[u][j])
          /\ SizeOf(fields[u][j]) \in Alignments /\ alignment[u] \in Alignments
      BY <3>5, BaseIsNatural DEF Eighth, Alignments
    <3>7. offset[u][j] % SizeOf(fields[u][j]) = 0 /\ SizeOf(fields[u][j]) <= alignment[u]
      BY <3>2, <3>5, <3>6 DEF Finished, Placed, Covered
    <3> HIDE DEF at
    <3>8. at % SizeOf(fields[u][j]) = 0
      BY <2>1, <3>2, <3>6, <3>7, MultipleOfLarger
    <3>9. (at + offset[u][j]) % SizeOf(fields[u][j]) = 0
      BY <2>1, <3>5, <3>6, <3>7, <3>8, MultiplesAdd
    <3> QED
      BY <2>1, <3>4, <3>5, <3>9
  <2> QED
    BY <2>2, <2>3
<1>2. Scalars(s) = UNION {FieldScalars(s, k) : k \in 1 .. Len(fields[s])}
  BY CallableFields, ScalarsByField
<1> QED
  BY <1>1, <1>2

\* So it has bytes in that eightbyte only.
LEMMA OneWord ==
  ASSUME NEW x \in Nat, NEW a \in Eighth, x % a = 0, NEW w \in Nat \ {0}
  PROVE  x < 8 * w /\ x + a > 8 * (w - 1) <=> x \div 8 = w - 1
<1>1. (x % 8) + a <= 8 /\ a \in Nat \ {0}
  BY MultipleInWord DEF Eighth
<1>2. PICK y \in Nat, r \in 0 .. 7 : y = x \div 8 /\ r = x % 8 /\ x = 8 * y + r
  BY Eighths
<1>3. r + a <= 8
  BY <1>1, <1>2
<1>4. 8 * y + r < 8 * w /\ 8 * y + r + a > 8 * (w - 1) <=> y = w - 1
  BY <1>1, <1>3
<1> QED
  BY <1>2, <1>4

\* The scalars with a byte in an eightbyte are those that begin in it.
LEMMA ScalarsOfWord ==
  ASSUME IInv, Between, NEW s \in Structs, Callable(s), NEW w \in Nat \ {0}
  PROVE  ScalarsOf(s, w) = InWord(Scalars(s), w - 1)
<1> SUFFICES ASSUME NEW p \in Scalars(s)
             PROVE  p[1] < 8 * w /\ p[1] + SizeOf(p[2]) > 8 * (w - 1) <=> p[1] \div 8 = w - 1
  BY DEF ScalarsOf, InWord
<1>1. p[1] \in Nat /\ p[2] \in BaseTypes /\ p[1] % SizeOf(p[2]) = 0
  BY ScalarsPlaced
<1>2. SizeOf(p[2]) \in Eighth
  BY <1>1, BaseIsNatural
<1> QED
  BY <1>1, <1>2, OneWord

\* There is a scalar in the first eightbyte, and one in the second of a structure of
\* more than eight bytes.
LEMMA NoEmptyWord ==
  ASSUME IInv, Between, NEW s \in Structs, Callable(s), ~Straddles(s)
  PROVE  /\ \E p \in Scalars(s) : p[1] \div 8 = 0
         /\ size[s] > 8 => \E p \in Scalars(s) : p[1] \div 8 >= 1
<1> DEFINE n == Len(fields[s])
<1>1. /\ TypeOK /\ n \in Nat \ {0} /\ DOMAIN fields[s] = 1 .. n /\ Finished(s) /\ FieldsOK(s)
      /\ offset[s][1] = 0
  BY CallableFields DEF Finished, Placed
<1>2. Scalars(s) = UNION {FieldScalars(s, k) : k \in 1 .. n}
  BY <1>1, ScalarsByField
<1>3. ASSUME NEW k \in 1 .. n
      PROVE  \E p \in FieldScalars(s, k) : p[1] = offset[s][k]
  <2>1. CASE fields[s][k] \notin Structs
    BY <2>1 DEF FieldScalars
  <2>2. CASE fields[s][k] \in Structs
    <3>1. PICK u \in Structs : u = fields[s][k]
      BY <2>2
    <3>2. Finished(u) /\ fields[u] # <<>> /\ StructFields(u) = {} /\ offset[s][k] \in Nat
      BY <3>1, CallableFields
    <3>3. 1 \in DOMAIN fields[u] /\ offset[u][1] = 0
      BY <1>1, <3>2, FlatFields DEF Finished, Placed
    <3>4. offset[s][k] + offset[u][1] = offset[s][k]
      BY <3>2, <3>3
    <3>5. <<offset[s][k] + offset[u][1], fields[u][1]>> \in FieldScalars(s, k)
      BY <2>2, <3>1, <3>3 DEF FieldScalars, FieldsAt
    <3> QED
      BY <3>4, <3>5
  <2> QED
    BY <2>1, <2>2
<1>4. \E p \in Scalars(s) : p[1] \div 8 = 0
  <2>1. 1 \in 1 .. n /\ 0 \div 8 = 0
    BY <1>1
  <2> QED
    BY <1>1, <1>2, <1>3, <2>1
<1>5. \A k \in 1 .. n : AlignmentOf(fields[s][k]) \in Eighth
  <2> SUFFICES ASSUME NEW k \in 1 .. n PROVE AlignmentOf(fields[s][k]) \in Eighth
    OBVIOUS
  <2>1. CASE fields[s][k] \notin Structs
    <3>1. fields[s][k] \in BaseTypes
      BY <2>1, CallableFields
    <3> QED
      BY <3>1, BaseIsNatural
  <2>2. CASE fields[s][k] \in Structs
    <3>1. PICK u \in Structs : u = fields[s][k]
      BY <2>2
    <3>2. Finished(u) /\ fields[u] # <<>> /\ StructFields(u) = {}
      BY <3>1, CallableFields
    <3> QED
      BY <1>1, <3>1, <3>2, FlatFields DEF AlignmentOf
  <2> QED
    BY <2>1, <2>2
<1>6. ASSUME size[s] > 8 PROVE \E p \in Scalars(s) : p[1] \div 8 >= 1
  <2> DEFINE at == offset[s][n]
             t == fields[s][n]
  <2>1. PICK k \in 1 .. n : alignment[s] = AlignmentOf(fields[s][k])
    BY <1>1 DEF Finished, Covered
  <2>2. alignment[s] \in Eighth /\ size[s] \in Nat /\ at \in Nat /\ SizeOf(t) \in Nat \ {0}
    <3>1. n \in 1 .. n /\ n \in DOMAIN fields[s]
      BY <1>1
    <3>2. size[s] \in Nat /\ at \in Nat
      BY <1>1, <3>1, CallableFields DEF TypeOK
    <3>3. SizeOf(t) \in Nat \ {0}
      BY <1>1, <3>1 DEF FieldsOK
    <3> QED
      BY <1>5, <2>1, <3>2, <3>3
  <2>3. size[s] % alignment[s] = 0 /\ size[s] - End(s, n) < alignment[s]
        /\ End(s, n) = at + SizeOf(t)
    BY <1>1 DEF Finished, End
  <2>4. at + SizeOf(t) > 8
    <3>1. at + SizeOf(t) \in Nat
      BY <2>2
    <3> HIDE DEF at, t
    <3> QED
      BY <1>6, <2>2, <2>3, <3>1, PaddingIsInLastWord
  <2>5. \E p \in FieldScalars(s, n) : p[1] \in Nat /\ p[1] \div 8 >= 1
    <3>1. CASE at >= 8
      <4>1. at \div 8 >= 1
        BY <2>2, <3>1
      <4>2. \E p \in FieldScalars(s, n) : p[1] = at
        BY <1>1, <1>3
      <4> HIDE DEF at
      <4> QED
        BY <2>2, <4>1, <4>2
    <3>2. CASE at < 8 /\ t \notin Structs
      <4>1. t \in BaseTypes /\ at % AlignmentOf(t) = 0
        <5>1. n \in 1 .. n
          BY <1>1
        <5>2. t \in BaseTypes
          BY <3>2, <5>1, CallableFields
        <5> QED
          BY <1>1, <5>1, <5>2 DEF Finished, Placed
      <4>2. SizeOf(t) \in Eighth /\ at % SizeOf(t) = 0
        BY <4>1, BaseIsNatural
      <4>3. at % 8 = at
        BY <2>2, <3>2
      <4> HIDE DEF at, t
      <4> QED
        BY <2>2, <2>4, <4>2, <4>3, MultipleInWord
    <3>3. CASE at < 8 /\ t \in Structs
      <4>1. PICK u \in Structs : u = t
        BY <3>3
      <4>2. /\ Finished(u) /\ FieldsOK(u) /\ fields[u] # <<>> /\ StructFields(u) = {}
            /\ SizeOf(t) = size[u] /\ n \in StructFields(s)
        <5>1. n \in 1 .. n /\ n \in DOMAIN fields[s]
          BY <1>1
        <5>2. n \in StructFields(s) /\ SizeOf(t) = size[u]
          BY <3>3, <4>1, <5>1 DEF SizeOf, StructFields
        <5> QED
          BY <4>1, <5>1, <5>2, CallableFields
      <4>3. at = 0
        <5>1. ~ (at % 8 # 0 /\ (at % 8) + SizeOf(t) > 8)
          BY <4>2 DEF Straddles
        <5>2. at % 8 = at
          BY <2>2, <3>3
        <5> HIDE DEF at, t
        <5> QED
          BY <2>2, <2>4, <5>1, <5>2
      <4>4. size[u] \in Nat /\ size[u] > 8
        BY <2>2, <2>4, <4>2, <4>3
      <4> DEFINE m == Len(fields[u])
                 x == offset[u][m]
                 v == fields[u][m]
      <4>5. /\ m \in Nat \ {0} /\ DOMAIN fields[u] = 1 .. m /\ alignment[u] \in Eighth
            /\ v \in BaseTypes /\ x \in Nat
        BY <1>1, <4>2, FlatFields
      <4>6. /\ size[u] % alignment[u] = 0 /\ size[u] - End(u, m) < alignment[u]
            /\ End(u, m) = x + SizeOf(v) /\ x % AlignmentOf(v) = 0
        BY <4>2, <4>5 DEF Finished, Placed, End
      <4>7. SizeOf(v) \in Eighth /\ x % SizeOf(v) = 0 /\ SizeOf(v) \in Nat
        BY <4>5, <4>6, BaseIsNatural DEF Eighth
      <4>8. <<at + x, v>> \in FieldScalars(s, n)
        BY <3>3, <4>1, <4>5 DEF FieldScalars, FieldsAt
      <4> HIDE DEF m, x, v, at, t
      <4>9. x + SizeOf(v) > 8
        <5>1. x + SizeOf(v) \in Nat /\ size[u] - (x + SizeOf(v)) < alignment[u]
          BY <4>5, <4>6, <4>7
        <5> QED
          BY <4>4, <4>5, <4>6, <5>1, PaddingIsInLastWord
      <4>10. (x % 8) + SizeOf(v) <= 8
        BY <4>5, <4>7, MultipleInWord
      <4>11. x \div 8 >= 1
        <5>1. x >= 8
          <6> SUFFICES ASSUME x < 8 PROVE FALSE
            BY <4>5
          <6>1. x % 8 = x
            BY <4>5
          <6> QED
            BY <4>5, <4>7, <4>9, <4>10, <6>1
        <5> QED
          BY <4>5, <5>1
      <4>12. at + x = x
        BY <4>3, <4>5
      <4> QED
        BY <4>5, <4>8, <4>11, <4>12
    <3> QED
      BY <2>2, <3>1, <3>2, <3>3
  <2> QED
    BY <1>1, <1>2, <2>5
<1> QED
  BY <1>4, <1>6

\* The classes of the eightbytes of a structure in registers.
LEMMA WordsInRegisters ==
  ASSUME IInv, Between, NEW s \in Structs, Callable(s), ~Straddles(s), Classify(s, 0) # <<>>
  PROVE  /\ Classify(s, 0) \in Seq(IntegerClasses \cup SseClasses) /\ Len(Classify(s, 0)) \in {1, 2}
         /\ \A w \in 1 .. Len(Classify(s, 0)) :
              /\ Good(Classify(s, 0)[w], InWord(Scalars(s), w - 1))
              /\ InWord(Scalars(s), w - 1) # {}
<1> DEFINE c == Classify(s, 0)
<1>1. /\ Covers(c, 0, Scalars(s)) /\ Len(c) = (size[s] + 7) \div 8 /\ Len(c) <= 2
      /\ c \in Seq(WordClass) /\ size[s] \in Nat
  BY StructClass DEF Covers, IInv, TypeOK
<1> HIDE DEF c
<1>2. Len(c) \in {1, 2}
  <2>1. Len(c) \in Nat /\ Len(c) # 0
    BY <1>1 DEF c
  <2> QED
    BY <1>1, <2>1
<1>3. /\ \A w \in 1 .. Len(c) : Good(c[w], InWord(Scalars(s), w - 1))
      /\ \A p \in Scalars(s) : (p[1] \div 8) + 1 \in 1 .. Len(c)
  <2>1. 0 \div 8 = 0 /\ \A w \in 1 .. Len(c) : 0 + w - 1 = w - 1
    OBVIOUS
  <2>2. \A p \in Scalars(s) : (p[1] \div 8) - 0 = p[1] \div 8 /\ p[1] \div 8 \in Nat
    BY ScalarsPlaced
  <2>3. c # <<>>
    BY DEF c
  <2> QED
    BY <1>1, <2>1, <2>2, <2>3 DEF Covers
<1>4. InWord(Scalars(s), 0) # {}
  BY NoEmptyWord DEF InWord
<1>5. Len(c) = 2 => InWord(Scalars(s), 1) # {}
  <2> SUFFICES ASSUME Len(c) = 2 PROVE InWord(Scalars(s), 1) # {}
    OBVIOUS
  <2>1. size[s] > 8
    BY <1>1, TwoWords
  <2>2. PICK p \in Scalars(s) : p[1] \div 8 >= 1
    BY <2>1, NoEmptyWord
  <2>3. p[1] \div 8 \in Nat /\ (p[1] \div 8) + 1 \in 1 .. 2
    BY <1>3, ScalarsPlaced
  <2>4. p[1] \div 8 = 1
    BY <2>2, <2>3
  <2> QED
    BY <2>4 DEF InWord
<1>6. \A w \in 1 .. Len(c) : InWord(Scalars(s), w - 1) # {}
  <2>1. \A w \in 1 .. Len(c) : w = 1 \/ (w = 2 /\ Len(c) = 2)
    <3>1. CASE Len(c) = 1
      BY <3>1
    <3>2. CASE Len(c) = 2
      BY <3>2
    <3> QED
      BY <1>2, <3>1, <3>2
  <2> QED
    BY <1>4, <1>5, <2>1
<1>7. c \in Seq(IntegerClasses \cup SseClasses)
  <2>1. \A w \in 1 .. Len(c) : c[w] \in IntegerClasses \cup SseClasses
    BY <1>3, <1>6 DEF Good
  <2> QED
    BY <1>1, <2>1
<1> QED
  BY <1>2, <1>3, <1>6, <1>7 DEF c

\* Every eightbyte has the class of the fields that struct.js has put there, in
\* every structure that WordsAreClassified speaks of: none with a nested
\* structure that crosses an eightbyte (Straddles), which libffi counts short.
THEOREM ClassesOfFields == Spec => []WordsAreClassified
<1>1. IInv => WordsAreClassified
  <2> SUFFICES ASSUME IInv, Between, NEW s \in Structs, Callable(s), ~Straddles(s),
                      NEW w \in DOMAIN Classify(s, 0)
               PROVE  LET c == Classify(s, 0)
                          here == ScalarsOf(s, w)
                      IN IF \E p \in here : Kind[p[2]] = "integer"
                         THEN c[w] \in IntegerClasses
                         ELSE c[w] \in SseClasses /\ (c[w] = "sseSF" => Cardinality(here) = 1)
    BY DEF WordsAreClassified
  <2> DEFINE c == Classify(s, 0)
             J == InWord(Scalars(s), w - 1)
  <2>1. c \in Seq(WordClass)
    BY StructClass DEF Covers
  <2>2. c # <<>> /\ w \in 1 .. Len(c)
    BY <2>1
  <2>3. Good(c[w], J) /\ J # {}
    BY <2>2, WordsInRegisters
  <2>4. w \in Nat \ {0}
    BY <2>1, <2>2
  <2>5. ScalarsOf(s, w) = J
    BY <2>4, ScalarsOfWord
  <2> HIDE DEF c, J
  <2>6. c[w] = "sseSF" => Cardinality(J) = 1
    <3> SUFFICES ASSUME c[w] = "sseSF" PROVE Cardinality(J) = 1
      OBVIOUS
    <3>1. PICK p : J = {p}
      BY <2>3 DEF Good
    <3> QED
      BY <3>1, FS_Singleton
  <2>7. IF \E p \in J : Kind[p[2]] = "integer" THEN c[w] \in IntegerClasses ELSE c[w] \in SseClasses
    BY <2>3 DEF Good, IsInteger
  <2> QED
    BY <2>5, <2>6, <2>7 DEF c
<1> QED
  BY <1>1, Invariant, PTL

-----------------------------------------------------------------------------
(***************************************************************************)
(* The arguments of a call: one that goes in registers.                    *)
(***************************************************************************)

\* What may be passed.
Passable(t) == t \in BaseTypes \/ (t \in Structs /\ Callable(t) /\ ~Straddles(t))

\* The classes that go in registers.
Registers == IntegerClasses \cup SseClasses

\* One eightbyte of a set of classes.
Count(c, w, set) == IF c[w] \in set THEN 1 ELSE 0

\* The eightbytes of what takes one or two.
LEMMA UpToTwo ==
  ASSUME NEW n \in {1, 2}
  PROVE  /\ 1 \in 1 .. n /\ (n = 2 => 2 \in 1 .. n)
         /\ \A w \in 1 .. n : w = 1 \/ (w = 2 /\ n = 2)
OBVIOUS

\* The registers that one eightbyte needs.
LEMMA NeedsOne ==
  ASSUME NEW c, DOMAIN c = 1 .. 1, NEW set
  PROVE  Needs(c, set) = Count(c, 1, set)
<1> DEFINE W == {w \in DOMAIN c : c[w] \in set}
<1>1. W = IF c[1] \in set THEN {1} ELSE {}
  <2>1. \A w \in DOMAIN c : w = 1
    OBVIOUS
  <2>2. 1 \in DOMAIN c
    OBVIOUS
  <2> QED
    BY <2>1, <2>2
<1>2. Cardinality({1}) = 1 /\ Cardinality({}) = 0
  BY FS_Singleton, FS_EmptySet
<1>3. Needs(c, set) = Cardinality(W)
  BY DEF Needs
<1> HIDE DEF W
<1> QED
  BY <1>1, <1>2, <1>3 DEF Count

\* The registers that two eightbytes need.
LEMMA NeedsTwo ==
  ASSUME NEW c, DOMAIN c = 1 .. 2, NEW set
  PROVE  Needs(c, set) = Count(c, 1, set) + Count(c, 2, set)
<1> DEFINE W == {w \in DOMAIN c : c[w] \in set}
<1>1. W = IF c[1] \in set THEN IF c[2] \in set THEN {1, 2} ELSE {1}
          ELSE IF c[2] \in set THEN {2} ELSE {}
  <2>1. \A w \in DOMAIN c : w = 1 \/ w = 2
    OBVIOUS
  <2>2. 1 \in DOMAIN c /\ 2 \in DOMAIN c
    OBVIOUS
  <2> QED
    BY <2>1, <2>2
<1>2. Cardinality({1}) = 1 /\ Cardinality({2}) = 1 /\ Cardinality({}) = 0 /\ IsFiniteSet({1})
  BY FS_Singleton, FS_EmptySet
<1>3. Cardinality({1, 2}) = 2
  <2>1. {1, 2} = {1} \cup {2} /\ 2 \notin {1}
    OBVIOUS
  <2>2. Cardinality({1} \cup {2}) = Cardinality({1}) + 1
    BY <1>2, <2>1, FS_AddElement
  <2> QED
    BY <1>2, <2>1, <2>2
<1>4. Needs(c, set) = Cardinality(W)
  BY DEF Needs
<1> HIDE DEF W
<1> QED
  BY <1>1, <1>2, <1>3, <1>4 DEF Count

\* Nothing needs no register.
LEMMA NeedsNone ==
  ASSUME NEW c, DOMAIN c = {}, NEW set
  PROVE  Needs(c, set) = 0
<1>1. {w \in DOMAIN c : c[w] \in set} = {}
  OBVIOUS
<1> QED
  BY <1>1, FS_EmptySet DEF Needs

\* The classes of what may be passed: memory, or one or two registers.
LEMMA PassableClass ==
  ASSUME IInv, Between, NEW t, Passable(t)
  PROVE  /\ \/ Classify(t, 0) = <<>>
            \/ /\ Classify(t, 0) \in Seq(Registers)
               /\ Len(Classify(t, 0)) \in {1, 2}
               /\ DOMAIN Classify(t, 0) = 1 .. Len(Classify(t, 0))
         /\ FFIType(t).size \in Nat \ {0} /\ MemoryAlignment(t) \in Alignments
<1>1. CASE t \in BaseTypes
  <2>1. t \notin Structs /\ SizeOf(t) \in Eighth /\ AlignmentOf(t) \in Alignments
    BY <1>1, BaseIsNatural
  <2>2. Classify(t, 0) = ClassifyBase(t, 0) /\ FFIType(t) = BaseType(t)
    BY <2>1 DEF Classify, FFIType
  <2>3. 0 % SizeOf(t) = 0 /\ 0 % 8 = 0 /\ 0 \div 8 = 0 /\ 0 + 1 - 1 = 0 /\ 0 \in Nat
    BY <2>1 DEF Eighth
  <2> DEFINE c == ClassifyBase(t, 0)
             J == {<<0, t>>}
  <2>4. Covers(c, 0, J) /\ Len(c) = 1
    BY <1>1, <2>3, BaseClass
  <2>5. InWord(J, 0) # {}
    <3> DEFINE p == <<0, t>>
    <3>1. p[1] = 0 /\ p \in J
      OBVIOUS
    <3> HIDE DEF p, J
    <3> QED
      BY <2>3, <3>1 DEF InWord
  <2> HIDE DEF c, J
  <2>6. c \in Seq(WordClass) /\ Good(c[1], InWord(J, 0))
    <3>1. c \in Seq(WordClass) /\ 1 \in 1 .. Len(c) /\ c # <<>>
      BY <2>4 DEF Covers
    <3> QED
      BY <2>3, <2>4, <3>1 DEF Covers
  <2>7. c[1] \in Registers
    BY <2>5, <2>6 DEF Good, Registers
  <2>8. c \in Seq(Registers) /\ DOMAIN c = 1 .. Len(c)
    <3>1. DOMAIN c = 1 .. 1 /\ c = [w \in 1 .. 1 |-> c[w]]
      BY <2>4, <2>6
    <3>2. c \in [1 .. 1 -> Registers]
      BY <2>7, <3>1
    <3> QED
      BY <2>4, <3>1, <3>2, FunctionIsSeq
  <2>9. FFIType(t).size = SizeOf(t) /\ FFIType(t).alignment = AlignmentOf(t)
    BY <2>2 DEF BaseType
  <2> QED
    BY <2>1, <2>2, <2>4, <2>8, <2>9 DEF c, MemoryAlignment, Alignments, Eighth
<1>2. CASE t \in Structs /\ Callable(t) /\ ~Straddles(t)
  <2>1. FFIType(t) = BaseType(t)
    BY <1>2, CallableLayout
  <2>2. FFIType(t).size = size[t] /\ FFIType(t).alignment = alignment[t]
    <3>1. FFIType(t).size = SizeOf(t) /\ FFIType(t).alignment = AlignmentOf(t)
      BY <2>1 DEF BaseType
    <3>2. SizeOf(t) = size[t] /\ AlignmentOf(t) = alignment[t]
      BY <1>2 DEF SizeOf, AlignmentOf
    <3> QED
      BY <3>1, <3>2
  <2>3. /\ TypeOK /\ Finished(t) /\ FieldsOK(t) /\ Len(fields[t]) \in Nat \ {0}
        /\ DOMAIN fields[t] = 1 .. Len(fields[t]) /\ offset[t][1] = 0
    BY <1>2, CallableFields DEF Finished, Placed
  <2>4. alignment[t] \in Alignments
    BY <2>3 DEF Finished, Covered
  <2>5. size[t] \in Nat \ {0}
    <3>1. 1 \in 1 .. Len(fields[t]) /\ 1 \in DOMAIN fields[t]
      BY <2>3
    <3>2. End(t, 1) <= size[t] /\ SizeOf(fields[t][1]) \in Nat \ {0}
      BY <2>3, <3>1 DEF Finished, Placed, FieldsOK
    <3>3. size[t] \in Nat
      BY <1>2, <2>3 DEF TypeOK
    <3> QED
      BY <2>3, <3>2, <3>3 DEF End
  <2>6. MemoryAlignment(t) \in Alignments
    BY <2>2, <2>4 DEF MemoryAlignment, Alignments
  <2>7. CASE Classify(t, 0) = <<>>
    BY <2>2, <2>5, <2>6, <2>7
  <2>8. CASE Classify(t, 0) # <<>>
    <3>1. Classify(t, 0) \in Seq(Registers) /\ Len(Classify(t, 0)) \in {1, 2}
      BY <1>2, <2>8, WordsInRegisters DEF Registers
    <3>2. DOMAIN Classify(t, 0) = 1 .. Len(Classify(t, 0))
      BY <3>1
    <3> QED
      BY <2>2, <2>5, <2>6, <3>1, <3>2
  <2> QED
    BY <2>7, <2>8
<1> QED
  BY <1>1, <1>2 DEF Passable

\* Where a word of an argument may be put.
Place == ({"gpr", "sse", "memory"} \X Nat) \cup {<<"abort">>}

\* The states of the loop of ffi_call.
Calls == [gpr : Nat, sse : Nat, argp : Nat, places : Seq(Seq(Place))]

\* The places of one or two words, after g and x registers.
RegisterPlaces(c, g, x) ==
  [w \in 1 .. Len(c) |->
     IF c[w] \in IntegerClasses
     THEN <<"gpr", IF w = 1 THEN g ELSE g + Count(c, 1, IntegerClasses)>>
     ELSE <<"sse", IF w = 1 THEN x ELSE x + Count(c, 1, SseClasses)>>]

\* How the words of a register argument go.
LEMMA RegisterWords ==
  ASSUME NEW c \in Seq(Registers), Len(c) \in {1, 2}, NEW g \in Nat, NEW x \in Nat
  PROVE  /\ DOMAIN c = 1 .. Len(c)
         /\ \A w \in 1 .. Len(c) : c[w] \in IntegerClasses <=> c[w] \notin SseClasses
         /\ Len(c) = 1 =>
              /\ Needs(c, IntegerClasses) = Count(c, 1, IntegerClasses)
              /\ Needs(c, {"none"} \cup IntegerClasses) = Count(c, 1, IntegerClasses)
              /\ Needs(c, SseClasses) = Count(c, 1, SseClasses)
         /\ Len(c) = 2 =>
              /\ Needs(c, IntegerClasses) = Count(c, 1, IntegerClasses) + Count(c, 2, IntegerClasses)
              /\ Needs(c, {"none"} \cup IntegerClasses)
                   = Count(c, 1, IntegerClasses) + Count(c, 2, IntegerClasses)
              /\ Needs(c, SseClasses) = Count(c, 1, SseClasses) + Count(c, 2, SseClasses)
         /\ WordByWord(c, g, x) = RegisterPlaces(c, g, x)
<1>1. DOMAIN c = 1 .. Len(c) /\ \A w \in 1 .. Len(c) : c[w] \in Registers
  OBVIOUS
<1>2. \A w \in 1 .. Len(c) : /\ c[w] \in IntegerClasses <=> c[w] \notin SseClasses
                             /\ c[w] # "none"
  BY <1>1 DEF Registers, IntegerClasses, SseClasses
<1>3. \A w \in 1 .. Len(c) :
        Count(c, w, {"none"} \cup IntegerClasses) = Count(c, w, IntegerClasses)
  BY <1>2 DEF Count
<1>4. ASSUME Len(c) = 1
      PROVE  \A set : Needs(c, set) = Count(c, 1, set)
  BY <1>1, <1>4, NeedsOne
<1>5. ASSUME Len(c) = 2
      PROVE  \A set : Needs(c, set) = Count(c, 1, set) + Count(c, 2, set)
  BY <1>1, <1>5, NeedsTwo
<1>6. ASSUME NEW w \in 1 .. Len(c), NEW set
      PROVE  Needs(SubSeq(c, 1, w - 1), set) = IF w = 1 THEN 0 ELSE Count(c, 1, set)
  <2> DEFINE d == SubSeq(c, 1, w - 1)
  <2>1. CASE w = 1
    <3>1. DOMAIN d = {}
      BY <2>1
    <3> QED
      BY <2>1, <3>1, NeedsNone
  <2>2. CASE w = 2
    <3>1. DOMAIN d = 1 .. 1 /\ d[1] = c[1]
      BY <2>2
    <3>2. Needs(d, set) = Count(d, 1, set)
      BY <3>1, NeedsOne
    <3> HIDE DEF d
    <3>3. Count(d, 1, set) = Count(c, 1, set)
      BY <3>1 DEF Count
    <3> QED
      BY <2>2, <3>2, <3>3 DEF d
  <2>3. w = 1 \/ w = 2
    <3>1. CASE Len(c) = 1
      BY <3>1
    <3>2. CASE Len(c) = 2
      BY <3>2
    <3> QED
      BY <3>1, <3>2
  <2> QED
    BY <2>1, <2>2, <2>3
<1>7. ASSUME NEW w \in 1 .. Len(c)
      PROVE  WordByWord(c, g, x)[w] =
               IF c[w] \in IntegerClasses
               THEN <<"gpr", IF w = 1 THEN g ELSE g + Count(c, 1, IntegerClasses)>>
               ELSE <<"sse", IF w = 1 THEN x ELSE x + Count(c, 1, SseClasses)>>
  <2> DEFINE before == SubSeq(c, 1, w - 1)
  <2>1. WordByWord(c, g, x)[w] =
          CASE c[w] \in IntegerClasses -> <<"gpr", g + Needs(before, IntegerClasses)>>
            [] c[w] \in SseClasses -> <<"sse", x + Needs(before, SseClasses)>>
            [] OTHER -> <<"abort">>
    BY <1>1 DEF WordByWord
  <2>2. /\ Needs(before, IntegerClasses) = IF w = 1 THEN 0 ELSE Count(c, 1, IntegerClasses)
        /\ Needs(before, SseClasses) = IF w = 1 THEN 0 ELSE Count(c, 1, SseClasses)
    BY <1>6
  <2>3. g + 0 = g /\ x + 0 = x
    OBVIOUS
  <2> HIDE DEF before
  <2>6. /\ g + Needs(before, IntegerClasses) = IF w = 1 THEN g ELSE g + Count(c, 1, IntegerClasses)
        /\ x + Needs(before, SseClasses) = IF w = 1 THEN x ELSE x + Count(c, 1, SseClasses)
    BY <2>2, <2>3
  <2>4. CASE c[w] \in IntegerClasses
    <3>1. c[w] \notin SseClasses
      BY <1>2, <2>4
    <3> QED
      BY <2>1, <2>4, <2>6, <3>1
  <2>5. CASE c[w] \notin IntegerClasses
    <3>1. c[w] \in SseClasses
      BY <1>2, <2>5
    <3> QED
      BY <2>1, <2>5, <2>6, <3>1
  <2> QED
    BY <2>4, <2>5
<1>8. WordByWord(c, g, x) = [w \in 1 .. Len(c) |-> WordByWord(c, g, x)[w]]
  BY <1>1 DEF WordByWord
<1> QED
  <2>1. Len(c) = 1 =>
              /\ Needs(c, IntegerClasses) = Count(c, 1, IntegerClasses)
              /\ Needs(c, {"none"} \cup IntegerClasses) = Count(c, 1, IntegerClasses)
              /\ Needs(c, SseClasses) = Count(c, 1, SseClasses)
    BY <1>3, <1>4
  <2>2. Len(c) = 2 =>
              /\ Needs(c, IntegerClasses) = Count(c, 1, IntegerClasses) + Count(c, 2, IntegerClasses)
              /\ Needs(c, {"none"} \cup IntegerClasses)
                   = Count(c, 1, IntegerClasses) + Count(c, 2, IntegerClasses)
              /\ Needs(c, SseClasses) = Count(c, 1, SseClasses) + Count(c, 2, SseClasses)
    BY <1>3, <1>5
  <2>3. WordByWord(c, g, x) = RegisterPlaces(c, g, x)
    BY <1>7, <1>8 DEF RegisterPlaces
  <2> QED
    BY <1>1, <1>2, <2>1, <2>2, <2>3

\* What one argument adds: b is before it, d after it, ps its places.
Fresh(p, b, d) ==
  \/ \E x \in b.gpr .. d.gpr - 1 : p = <<"gpr", x>>
  \/ \E x \in b.sse .. d.sse - 1 : p = <<"sse", x>>
  \/ \E x \in b.argp .. d.argp - 1 : p = <<"memory", x>>

\* d goes at most as far as b in registers.
Adds(b, d, ps) ==
  /\ d.places = Append(b.places, ps)
  /\ b.gpr <= d.gpr /\ d.gpr <= MaxGpr
  /\ b.sse <= d.sse /\ d.sse <= MaxSse
  /\ b.argp <= d.argp
  /\ ps \in Seq(Place)
  /\ \A w \in DOMAIN ps : Fresh(ps[w], b, d)
  /\ \A v, w \in DOMAIN ps : ps[v] = ps[w] => v = w

\* No more registers than there are.
Within(b) == b \in Calls /\ b.gpr <= MaxGpr /\ b.sse <= MaxSse

\* What replaces the registers and places of b.
Updated(b, G, X, p) == [b EXCEPT !.gpr = G, !.sse = X, !.places = p]
\* What replaces the integer registers and places of b.
UpdatedGpr(b, G, p) == [b EXCEPT !.gpr = G, !.places = p]
\* What replaces the vector registers and places of b.
UpdatedSse(b, X, p) == [b EXCEPT !.sse = X, !.places = p]

\* The parts of a state after b.
HasParts(d, b, G, X, p) ==
  d \in Calls /\ d.gpr = G /\ d.sse = X /\ d.argp = b.argp /\ d.places = p

\* What is replaced is what it is replaced by, and the rest stays.
LEMMA Updates ==
  ASSUME NEW b \in Calls, NEW G \in Nat, NEW X \in Nat, NEW p \in Seq(Seq(Place))
  PROVE  HasParts(Updated(b, G, X, p), b, G, X, p)
BY DEF Calls, Updated, HasParts

\* The same, for integer registers.
LEMMA UpdatesGpr ==
  ASSUME NEW b \in Calls, NEW G \in Nat, NEW p \in Seq(Seq(Place))
  PROVE  /\ UpdatedGpr(b, G, p) \in Calls /\ UpdatedGpr(b, G, p).gpr = G
         /\ UpdatedGpr(b, G, p).sse = b.sse /\ UpdatedGpr(b, G, p).argp = b.argp
         /\ UpdatedGpr(b, G, p).places = p
BY DEF Calls, UpdatedGpr

\* The same, for vector registers.
LEMMA UpdatesSse ==
  ASSUME NEW b \in Calls, NEW X \in Nat, NEW p \in Seq(Seq(Place))
  PROVE  /\ UpdatedSse(b, X, p) \in Calls /\ UpdatedSse(b, X, p).gpr = b.gpr
         /\ UpdatedSse(b, X, p).sse = X /\ UpdatedSse(b, X, p).argp = b.argp
         /\ UpdatedSse(b, X, p).places = p
BY DEF Calls, UpdatedSse

\* States with the same components are the same.
LEMMA SameCall ==
  ASSUME NEW a \in Calls, NEW b \in Calls,
         a.gpr = b.gpr, a.sse = b.sse, a.argp = b.argp, a.places = b.places
  PROVE  a = b
BY DEF Calls

\* An argument t with the classes c goes in registers after b.
GoesInRegisters(b, t, c) ==
  /\ Within(b) /\ ~GoesInMemory(c, b.gpr, b.sse)
  /\ c \in Seq(Registers) /\ Len(c) \in {1, 2} /\ c = Classify(t, 0)

\* An argument in registers: where a call puts it and a closure finds it.
LEMMA InRegisters ==
  ASSUME NEW b, NEW t, NEW c, GoesInRegisters(b, t, c)
  PROVE  /\ FindArgument(b, t) = PutArgument(b, t)
         /\ PutArgument(b, t) \in Calls
         /\ \E ps : Adds(b, PutArgument(b, t), ps)
<1>0. PICK g \in Nat, x \in Nat : g = b.gpr /\ x = b.sse
  BY DEF GoesInRegisters, Within, Calls
<1>10. c \in Seq(Registers) /\ Len(c) \in {1, 2} /\ c = Classify(t, 0)
  BY DEF GoesInRegisters
<1> DEFINE ints(w) == Count(c, w, IntegerClasses)
           sses(w) == Count(c, w, SseClasses)
           ps == WordByWord(c, g, x)
           N == Needs(c, IntegerClasses)
           E == Needs(c, SseClasses)
           d == [b EXCEPT !.gpr = g + N, !.sse = x + E, !.places = Append(b.places, ps)]
<1>1. /\ g \in Nat /\ x \in Nat /\ b.argp \in Nat /\ b.places \in Seq(Seq(Place))
      /\ g <= MaxGpr /\ x <= MaxSse /\ b \in Calls
  BY <1>0 DEF GoesInRegisters, Within, Calls
<1>2. /\ DOMAIN c = 1 .. Len(c)
      /\ \A w \in 1 .. Len(c) : c[w] \in IntegerClasses <=> c[w] \notin SseClasses
      /\ Len(c) = 1 => N = ints(1) /\ E = sses(1) /\ Needs(c, {"none"} \cup IntegerClasses) = ints(1)
      /\ Len(c) = 2 => /\ N = ints(1) + ints(2) /\ E = sses(1) + sses(2)
                       /\ Needs(c, {"none"} \cup IntegerClasses) = ints(1) + ints(2)
      /\ ps = [w \in 1 .. Len(c) |->
              IF c[w] \in IntegerClasses
              THEN <<"gpr", IF w = 1 THEN g ELSE g + ints(1)>>
              ELSE <<"sse", IF w = 1 THEN x ELSE x + sses(1)>>]
  <2>1. ps = RegisterPlaces(c, g, x)
    BY <1>1, <1>10, RegisterWords
  <2> QED
    BY <1>1, <1>10, <2>1, RegisterWords DEF RegisterPlaces
<1>9. /\ 1 \in 1 .. Len(c) /\ (Len(c) = 2 => 2 \in 1 .. Len(c))
      /\ \A w \in 1 .. Len(c) : w = 1 \/ (w = 2 /\ Len(c) = 2)
  BY <1>10, UpToTwo
<1>3. \A w \in 1 .. Len(c) : /\ ints(w) = IF c[w] \in IntegerClasses THEN 1 ELSE 0
                             /\ sses(w) = IF c[w] \in IntegerClasses THEN 0 ELSE 1
  BY <1>2 DEF Count
<1>4. g + N <= MaxGpr /\ x + E <= MaxSse /\ c # <<>>
  <2>1. N \in Nat /\ E \in Nat
    <3>1. CASE Len(c) = 1
      BY <1>2, <1>3, <1>9, <3>1
    <3>2. CASE Len(c) = 2
      <4>1. N = ints(1) + ints(2) /\ E = sses(1) + sses(2)
        BY <1>2, <3>2
      <4>2. 1 \in 1 .. Len(c) /\ 2 \in 1 .. Len(c)
        BY <1>9, <3>2
      <4>3. ints(1) \in Nat /\ sses(1) \in Nat /\ ints(2) \in Nat /\ sses(2) \in Nat
        BY <1>3, <4>2
      <4> HIDE DEF ints, sses, N, E
      <4> QED
        BY <4>1, <4>3
    <3> QED
      BY <1>10, <3>1, <3>2
  <2>2. ~ (g + N > MaxGpr) /\ ~ (x + E > MaxSse) /\ c # <<>>
    BY <1>0, Zenon DEF GoesInRegisters, GoesInMemory
  <2> HIDE DEF N, E
  <2>3. g + N \in Nat /\ x + E \in Nat
    BY <1>1, <2>1
  <2> QED
    BY <2>2, <2>3, CallAssumption
<1>5. PutArgument(b, t) = d
  BY <1>0, <1>10 DEF GoesInRegisters, PutArgument
<1> HIDE DEF ints, sses, ps, N, E
<1>6. /\ N \in Nat /\ E \in Nat
      /\ ps \in Seq(Place) /\ DOMAIN ps = 1 .. Len(c)
      /\ \A w \in 1 .. Len(c) : \/ \E y \in g .. g + N - 1 : ps[w] = <<"gpr", y>>
                                \/ \E y \in x .. x + E - 1 : ps[w] = <<"sse", y>>
      /\ \A v, w \in 1 .. Len(c) : ps[v] = ps[w] => v = w
  <2>1. CASE Len(c) = 1
    <3>1. 1 \in 1 .. Len(c) /\ \A w \in 1 .. Len(c) : w = 1
      BY <1>9, <2>1
    <3>2. /\ N = IF c[1] \in IntegerClasses THEN 1 ELSE 0
          /\ E = IF c[1] \in IntegerClasses THEN 0 ELSE 1
          /\ ps[1] = IF c[1] \in IntegerClasses THEN <<"gpr", g>> ELSE <<"sse", x>>
      BY <1>2, <1>3, <2>1, <3>1
    <3>3. DOMAIN ps = 1 .. Len(c) /\ ps = [w \in 1 .. Len(c) |-> ps[w]]
      BY <1>2
    <3>4. ps[1] \in Place
      BY <1>1, <3>2 DEF Place
    <3>5. ps \in [1 .. Len(c) -> Place]
      BY <3>1, <3>3, <3>4
    <3>6. ps \in Seq(Place)
      BY <2>1, <3>5, FunctionIsSeq
    <3>7. g \in g .. g + 1 - 1 /\ x \in x .. x + 1 - 1
      BY <1>1
    <3>8. \/ \E y \in g .. g + N - 1 : ps[1] = <<"gpr", y>>
          \/ \E y \in x .. x + E - 1 : ps[1] = <<"sse", y>>
      <4>1. CASE c[1] \in IntegerClasses
        BY <3>2, <3>7, <4>1
      <4>2. CASE c[1] \notin IntegerClasses
        BY <3>2, <3>7, <4>2
      <4> QED
        BY <4>1, <4>2
    <3> QED
      BY <3>1, <3>2, <3>3, <3>6, <3>8
  <2>2. CASE Len(c) = 2
    <3>1. 1 \in 1 .. Len(c) /\ 2 \in 1 .. Len(c) /\ \A w \in 1 .. Len(c) : w = 1 \/ w = 2
      BY <1>9, <2>2
    <3>2. /\ ints(1) = IF c[1] \in IntegerClasses THEN 1 ELSE 0
          /\ sses(1) = IF c[1] \in IntegerClasses THEN 0 ELSE 1
          /\ ints(2) = IF c[2] \in IntegerClasses THEN 1 ELSE 0
          /\ sses(2) = IF c[2] \in IntegerClasses THEN 0 ELSE 1
          /\ N = ints(1) + ints(2) /\ E = sses(1) + sses(2)
      BY <1>2, <1>3, <2>2, <3>1
    <3>3. /\ ps[1] = IF c[1] \in IntegerClasses THEN <<"gpr", g>> ELSE <<"sse", x>>
          /\ ps[2] = IF c[2] \in IntegerClasses THEN <<"gpr", g + ints(1)>> ELSE <<"sse", x + sses(1)>>
      BY <1>2, <3>1
    <3>4. DOMAIN ps = 1 .. Len(c) /\ ps = [w \in 1 .. Len(c) |-> ps[w]]
      BY <1>2
    <3>5. ps[1] \in Place /\ ps[2] \in Place
      <4>1. g + ints(1) \in Nat /\ x + sses(1) \in Nat
        BY <1>1, <3>2
      <4> HIDE DEF ints, sses
      <4> QED
        BY <1>1, <3>3, <4>1 DEF Place
    <3>6. ps \in [1 .. Len(c) -> Place]
      BY <3>1, <3>4, <3>5
    <3>7. ps \in Seq(Place)
      BY <2>2, <3>6, FunctionIsSeq
    <3>8. CASE c[1] \in IntegerClasses /\ c[2] \in IntegerClasses
      <4>1. N = 2 /\ E = 0 /\ ps[1] = <<"gpr", g>> /\ ps[2] = <<"gpr", g + 1>>
        BY <3>2, <3>3, <3>8
      <4>2. g \in g .. g + 2 - 1 /\ g + 1 \in g .. g + 2 - 1 /\ g # g + 1
        BY <1>1
      <4> QED
        BY <3>1, <3>4, <3>7, <4>1, <4>2
    <3>9. CASE c[1] \in IntegerClasses /\ c[2] \notin IntegerClasses
      <4>1. N = 1 /\ E = 1 /\ ps[1] = <<"gpr", g>> /\ ps[2] = <<"sse", x>>
        BY <1>1, <3>2, <3>3, <3>9
      <4>2. g \in g .. g + 1 - 1 /\ x \in x .. x + 1 - 1
        BY <1>1
      <4> QED
        BY <3>1, <3>4, <3>7, <4>1, <4>2
    <3>10. CASE c[1] \notin IntegerClasses /\ c[2] \in IntegerClasses
      <4>1. N = 1 /\ E = 1 /\ ps[1] = <<"sse", x>> /\ ps[2] = <<"gpr", g>>
        BY <1>1, <3>2, <3>3, <3>10
      <4>2. g \in g .. g + 1 - 1 /\ x \in x .. x + 1 - 1
        BY <1>1
      <4> QED
        BY <3>1, <3>4, <3>7, <4>1, <4>2
    <3>11. CASE c[1] \notin IntegerClasses /\ c[2] \notin IntegerClasses
      <4>1. N = 0 /\ E = 2 /\ ps[1] = <<"sse", x>> /\ ps[2] = <<"sse", x + 1>>
        BY <3>2, <3>3, <3>11
      <4>2. x \in x .. x + 2 - 1 /\ x + 1 \in x .. x + 2 - 1 /\ x # x + 1
        BY <1>1
      <4> QED
        BY <3>1, <3>4, <3>7, <4>1, <4>2
    <3> QED
      BY <3>8, <3>9, <3>10, <3>11
  <2> QED
    BY <1>10, <2>1, <2>2
<1>7. d \in Calls /\ Adds(b, d, ps)
  <2> DEFINE places == Append(b.places, ps)
             G == g + N
             X == x + E
  <2>1. places \in Seq(Seq(Place)) /\ G \in Nat /\ X \in Nat /\ g <= G /\ x <= X
    BY <1>1, <1>6
  <2>2. d = Updated(b, G, X, places)
    BY DEF Updated
  <2> HIDE DEF places, G, X, d
  <2>3. d \in Calls /\ d.gpr = G /\ d.sse = X /\ d.argp = b.argp /\ d.places = places
    <3>1. b \in Calls
      BY <1>1
    <3>2. G \in Nat /\ X \in Nat /\ places \in Seq(Seq(Place))
      BY <2>1
    <3>3. HasParts(Updated(b, G, X, places), b, G, X, places)
      BY <3>1, <3>2, Updates, Zenon
    <3> QED
      BY <2>2, <3>3, Zenon DEF HasParts
  <2>4. \A w \in DOMAIN ps : Fresh(ps[w], b, d)
    <3> SUFFICES ASSUME NEW w \in 1 .. Len(c) PROVE Fresh(ps[w], b, d)
      BY <1>6
    <3>1. b.gpr = g /\ b.sse = x /\ d.gpr = g + N /\ d.sse = x + E
      BY <1>0, <2>3 DEF G, X
    <3>2. \/ \E y \in g .. g + N - 1 : ps[w] = <<"gpr", y>>
          \/ \E y \in x .. x + E - 1 : ps[w] = <<"sse", y>>
      BY <1>6
    <3>3. CASE \E y \in g .. g + N - 1 : ps[w] = <<"gpr", y>>
      <4>1. PICK y \in g .. g + N - 1 : ps[w] = <<"gpr", y>>
        BY <3>3
      <4>3. N \in Nat
        BY <1>6
      <4>2. y \in b.gpr .. d.gpr - 1
        BY <3>1, <4>3
      <4> QED
        BY <4>1, <4>2 DEF Fresh
    <3>4. CASE \E y \in x .. x + E - 1 : ps[w] = <<"sse", y>>
      <4>1. PICK y \in x .. x + E - 1 : ps[w] = <<"sse", y>>
        BY <3>4
      <4>3. E \in Nat
        BY <1>6
      <4>2. y \in b.sse .. d.sse - 1
        BY <3>1, <4>3
      <4> QED
        BY <4>1, <4>2 DEF Fresh
    <3> QED
      BY <3>2, <3>3, <3>4
  <2> QED
    <3>1. G <= MaxGpr /\ X <= MaxSse
      BY <1>4 DEF G, X
    <3>2. /\ b.gpr <= d.gpr /\ d.gpr <= MaxGpr /\ b.sse <= d.sse /\ d.sse <= MaxSse
          /\ b.argp <= d.argp
      BY <1>0, <1>1, <2>1, <2>3, <3>1
    <3>3. d.places = Append(b.places, ps)
      BY <2>3 DEF places
    <3> QED
      BY <1>6, <2>3, <2>4, <3>2, <3>3 DEF Adds
<1>8. FindArgument(b, t) = d
  <2> DEFINE n == Needs(c, {"none"} \cup IntegerClasses)
             sseOnly == [b EXCEPT !.sse = b.sse + Len(c),
                           !.places = Append(b.places, [w \in DOMAIN c |-> <<"sse", b.sse + w - 1>>])]
             gprOnly == [b EXCEPT !.gpr = b.gpr + Len(c),
                           !.places = Append(b.places, [w \in DOMAIN c |-> <<"gpr", b.gpr + w - 1>>])]
             both == [b EXCEPT !.gpr = b.gpr + n, !.sse = b.sse + E,
                               !.places = Append(b.places, ps)]
  <2>1. FindArgument(b, t) = IF InPlace(c) THEN IF c[1] \in SseClasses THEN sseOnly ELSE gprOnly
                             ELSE both
    BY <1>0, <1>10 DEF GoesInRegisters, FindArgument, ps, E
  <2>2. InPlace(c) <=> Len(c) = 1 \/ E = 0
    BY DEF InPlace, E
  <2>3. /\ d \in Calls /\ d.gpr = g + N /\ d.sse = x + E /\ d.argp = b.argp
        /\ d.places = Append(b.places, ps) /\ d.places \in Seq(Seq(Place))
    <3> DEFINE G == g + N
               X == x + E
               places == Append(b.places, ps)
    <3>1. G \in Nat /\ X \in Nat /\ places \in Seq(Seq(Place)) /\ b \in Calls
      BY <1>1, <1>6
    <3>2. d = Updated(b, G, X, places)
      BY DEF Updated
    <3> HIDE DEF d, G, X, places
    <3>3. HasParts(Updated(b, G, X, places), b, G, X, places)
      BY <3>1, Updates, Zenon
    <3>4. d \in Calls /\ d.gpr = G /\ d.sse = X /\ d.argp = b.argp /\ d.places = places
      BY <3>2, <3>3, Zenon DEF HasParts
    <3> QED
      BY <3>1, <3>4 DEF G, X, places
  <2>4. Len(c) \in Nat /\ g + Len(c) \in Nat /\ x + Len(c) \in Nat
    BY <1>10
  <2>5. n = N => both = d
    BY <1>0
  <2> HIDE DEF d
  <2>6. CASE Len(c) = 1
    <3>1. CASE c[1] \in IntegerClasses
      <4>1. N = 1 /\ E = 0 /\ c[1] \notin SseClasses
        BY <1>2, <1>3, <1>9, <2>6, <3>1
      <4>2. [w \in DOMAIN c |-> <<"gpr", b.gpr + w - 1>>] = ps
        <5>1. \A w \in 1 .. Len(c) : w = 1
          BY <1>9, <2>6
        <5>3. b.gpr + 1 - 1 = g
          BY <1>0
        <5>4. \A w \in 1 .. Len(c) : <<"gpr", b.gpr + w - 1>> = ps[w]
          BY <1>2, <3>1, <5>1, <5>3
        <5> QED
          BY <1>2, <5>4
      <4>3. x + E = x /\ g + N = b.gpr + Len(c)
        <5>1. x + E = x
          BY <4>1
        <5>2. g + N = g + 1
          BY <4>1
        <5>3. g + 1 = b.gpr + Len(c)
          BY <1>0, <2>6
        <5> QED
          BY <5>1, <5>2, <5>3
      <4>5. gprOnly = d
        <5>1. /\ gprOnly = UpdatedGpr(b, g + Len(c), d.places)
              /\ d.gpr = g + Len(c) /\ d.sse = b.sse
          BY <1>0, <2>3, <4>2, <4>3 DEF UpdatedGpr, UpdatedSse
        <5> HIDE DEF gprOnly
        <5>2. /\ gprOnly \in Calls /\ gprOnly.gpr = g + Len(c) /\ gprOnly.sse = b.sse
              /\ gprOnly.argp = b.argp /\ gprOnly.places = d.places
          <6>1. b \in Calls /\ g + Len(c) \in Nat /\ d.places \in Seq(Seq(Place))
            BY <1>1, <2>3, <2>4
          <6> QED
            BY <5>1, <6>1, UpdatesGpr
        <5> QED
          BY <2>3, <5>1, <5>2, SameCall
      <4> HIDE DEF gprOnly, sseOnly, both
      <4>4. FindArgument(b, t) = gprOnly
        BY <2>1, <2>2, <2>6, <4>1
      <4> QED
        BY <4>4, <4>5
    <3>2. CASE c[1] \notin IntegerClasses
      <4>1. N = 0 /\ E = 1 /\ c[1] \in SseClasses
        BY <1>2, <1>3, <1>9, <2>6, <3>2
      <4>2. [w \in DOMAIN c |-> <<"sse", b.sse + w - 1>>] = ps
        <5>1. \A w \in 1 .. Len(c) : w = 1
          BY <1>9, <2>6
        <5>3. b.sse + 1 - 1 = x
          BY <1>0
        <5>4. \A w \in 1 .. Len(c) : <<"sse", b.sse + w - 1>> = ps[w]
          BY <1>2, <3>2, <5>1, <5>3
        <5> QED
          BY <1>2, <5>4
      <4>3. g + N = g /\ x + E = b.sse + Len(c)
        <5>1. g + N = g
          BY <4>1
        <5>2. x + E = x + 1
          BY <4>1
        <5>3. x + 1 = b.sse + Len(c)
          BY <1>0, <2>6
        <5> QED
          BY <5>1, <5>2, <5>3
      <4>5. sseOnly = d
        <5>1. /\ sseOnly = UpdatedSse(b, x + Len(c), d.places)
              /\ d.sse = x + Len(c) /\ d.gpr = b.gpr
          BY <1>0, <2>3, <4>2, <4>3 DEF UpdatedGpr, UpdatedSse
        <5> HIDE DEF sseOnly
        <5>2. /\ sseOnly \in Calls /\ sseOnly.sse = x + Len(c) /\ sseOnly.gpr = b.gpr
              /\ sseOnly.argp = b.argp /\ sseOnly.places = d.places
          <6>1. b \in Calls /\ x + Len(c) \in Nat /\ d.places \in Seq(Seq(Place))
            BY <1>1, <2>3, <2>4
          <6> QED
            BY <5>1, <6>1, UpdatesSse
        <5> QED
          BY <2>3, <5>1, <5>2, SameCall
      <4> HIDE DEF gprOnly, sseOnly, both
      <4>4. FindArgument(b, t) = sseOnly
        BY <2>1, <2>2, <2>6, <4>1
      <4> QED
        BY <4>4, <4>5
    <3> QED
      BY <3>1, <3>2
  <2>7. CASE Len(c) = 2
    <3>1. CASE E = 0
      <4>1. N = 2 /\ c[1] \in IntegerClasses /\ c[2] \in IntegerClasses /\ c[1] \notin SseClasses
            /\ ints(1) = 1
        BY <1>2, <1>3, <1>9, <2>7, <3>1
      <4>2. [w \in DOMAIN c |-> <<"gpr", b.gpr + w - 1>>] = ps
        <5>1. \A w \in 1 .. Len(c) :
                b.gpr + w - 1 = (IF w = 1 THEN g ELSE g + ints(1)) /\ c[w] \in IntegerClasses
          BY <1>0, <1>1, <1>9, <4>1
        <5> QED
          BY <1>2, <5>1
      <4>3. x + E = x /\ g + N = b.gpr + Len(c)
        <5>1. x + E = x
          BY <3>1
        <5>2. g + N = g + 2
          BY <4>1
        <5>3. g + 2 = b.gpr + Len(c)
          BY <1>0, <2>7
        <5> QED
          BY <5>1, <5>2, <5>3
      <4>5. gprOnly = d
        <5>1. /\ gprOnly = UpdatedGpr(b, g + Len(c), d.places)
              /\ d.gpr = g + Len(c) /\ d.sse = b.sse
          BY <1>0, <2>3, <4>2, <4>3 DEF UpdatedGpr, UpdatedSse
        <5> HIDE DEF gprOnly
        <5>2. /\ gprOnly \in Calls /\ gprOnly.gpr = g + Len(c) /\ gprOnly.sse = b.sse
              /\ gprOnly.argp = b.argp /\ gprOnly.places = d.places
          <6>1. b \in Calls /\ g + Len(c) \in Nat /\ d.places \in Seq(Seq(Place))
            BY <1>1, <2>3, <2>4
          <6> QED
            BY <5>1, <6>1, UpdatesGpr
        <5> QED
          BY <2>3, <5>1, <5>2, SameCall
      <4> HIDE DEF gprOnly, sseOnly, both
      <4>4. FindArgument(b, t) = gprOnly
        BY <2>1, <2>2, <3>1, <4>1
      <4> QED
        BY <4>4, <4>5
    <3>2. CASE E # 0
      <4>1. n = N
        BY <1>2, <2>7
      <4>2. FindArgument(b, t) = both
        <5>1. Len(c) # 1
          BY <2>7
        <5>2. ~InPlace(c)
          BY <2>2, <3>2, <5>1
        <5> HIDE DEF gprOnly, sseOnly, both
        <5> QED
          BY <2>1, <5>2
      <4> QED
        BY <2>5, <4>1, <4>2
    <3> QED
      BY <3>1, <3>2
  <2> QED
    BY <1>10, <2>6, <2>7
<1> QED
  BY <1>5, <1>7, <1>8

-----------------------------------------------------------------------------
(***************************************************************************)
(* The arguments of a call: one that goes on the stack, and all of them.   *)
(***************************************************************************)

\* Padding up to the next multiple.
LEMMA AlignIsLater ==
  ASSUME NEW v \in Nat, NEW a \in Alignments
  PROVE  Align(v, a) \in Nat /\ v <= Align(v, a)
BY PaddingAligns DEF Align

\* What replaces the stack and places of b.
UpdatedArgp(b, a, p) == [b EXCEPT !.argp = a, !.places = p]

\* The parts of a state after b, on the stack.
OnlyArgp(d, b, a, p) ==
  d \in Calls /\ d.gpr = b.gpr /\ d.sse = b.sse /\ d.argp = a /\ d.places = p

\* The same, for the stack.
LEMMA UpdatesArgp ==
  ASSUME NEW b \in Calls, NEW a \in Nat, NEW p \in Seq(Seq(Place))
  PROVE  OnlyArgp(UpdatedArgp(b, a, p), b, a, p)
BY DEF Calls, UpdatedArgp, OnlyArgp

\* An argument on the stack.
LEMMA OnStack ==
  ASSUME NEW b, Within(b), NEW t, FFIType(t).size \in Nat \ {0}, MemoryAlignment(t) \in Alignments
  PROVE  /\ InMemory(b, t) \in Calls
         /\ \E ps : Adds(b, InMemory(b, t), ps)
         /\ InMemory(b, t).gpr = b.gpr /\ InMemory(b, t).sse = b.sse
         /\ InMemory(b, t).argp = StackAfter(b.argp, t)
<1> DEFINE room == FFIType(t).size
           at == Align(b.argp, MemoryAlignment(t))
           d == InMemory(b, t)
           ps == <<<<"memory", at>>>>
           places == Append(b.places, ps)
           next == at + room
<1>1. /\ b \in Calls /\ b.argp \in Nat /\ b.places \in Seq(Seq(Place))
      /\ b.gpr \in Nat /\ b.sse \in Nat /\ b.gpr <= MaxGpr /\ b.sse <= MaxSse
  BY DEF Within, Calls
<1>2. at \in Nat /\ b.argp <= at
  BY <1>1, AlignIsLater
<1>3. next \in Nat /\ at < next /\ room \in Nat
  <2> HIDE DEF at
  <2> QED
    BY <1>2
<1>4. d = UpdatedArgp(b, next, places)
  BY DEF InMemory, UpdatedArgp
<1>5. next = StackAfter(b.argp, t)
  BY DEF StackAfter
<1> HIDE DEF at, d, next, room
<1>6. ps \in Seq(Place) /\ DOMAIN ps = {1} /\ ps[1] = <<"memory", at>>
  <2>1. <<"memory", at>> \in Place
    BY <1>2 DEF Place
  <2> QED
    BY <2>1
<1> HIDE DEF ps
<1>7. places \in Seq(Seq(Place))
  BY <1>1, <1>6
<1> HIDE DEF places
<1>8. d \in Calls /\ d.gpr = b.gpr /\ d.sse = b.sse /\ d.argp = next /\ d.places = places
  <2>1. OnlyArgp(UpdatedArgp(b, next, places), b, next, places)
    BY <1>1, <1>3, <1>7, UpdatesArgp, Zenon
  <2> QED
    BY <1>4, <2>1, Zenon DEF OnlyArgp
<1>9. at \in b.argp .. d.argp - 1
  BY <1>1, <1>2, <1>3, <1>8
<1>10. Fresh(ps[1], b, d)
  BY <1>6, <1>9 DEF Fresh
<1>11. b.argp <= d.argp /\ b.gpr <= d.gpr /\ b.sse <= d.sse /\ d.gpr <= MaxGpr /\ d.sse <= MaxSse
  BY <1>1, <1>2, <1>3, <1>8
<1>12. Adds(b, d, ps)
  BY <1>6, <1>8, <1>10, <1>11 DEF Adds, places
<1> QED
  BY <1>5, <1>8, <1>12 DEF d

\* What is measured beforehand is what the call has.
Measures == [gpr : Nat, sse : Nat, bytes : Nat]

\* The loop of ffi_prep_cif_machdep has counted what that of ffi_call has used.
Same(m, b) == m \in Measures /\ m.gpr = b.gpr /\ m.sse = b.sse /\ m.bytes = b.argp

\* What one argument does.
OneArgument(b, t) ==
  /\ FindArgument(b, t) = PutArgument(b, t)
  /\ PutArgument(b, t) \in Calls
  /\ \E ps : Adds(b, PutArgument(b, t), ps)
  /\ \A m : Same(m, b) => Same(MeasureArgument(m, t), PutArgument(b, t))

\* What ffi_call counts for an argument in registers.
LEMMA PutInRegisters ==
  ASSUME NEW b, Within(b), NEW t, NEW c, c = Classify(t, 0), ~GoesInMemory(c, b.gpr, b.sse)
  PROVE  /\ PutArgument(b, t).gpr = b.gpr + Needs(c, IntegerClasses)
         /\ PutArgument(b, t).sse = b.sse + Needs(c, SseClasses)
         /\ PutArgument(b, t).argp = b.argp
<1>1. PutArgument(b, t) = [b EXCEPT !.gpr = @ + Needs(c, IntegerClasses),
                    !.sse = @ + Needs(c, SseClasses),
                    !.places = Append(@, WordByWord(c, b.gpr, b.sse))]
  BY DEF PutArgument
<1>2. b \in Calls
  BY DEF Within
<1> DEFINE G == b.gpr + Needs(c, IntegerClasses)
           X == b.sse + Needs(c, SseClasses)
           p == Append(b.places, WordByWord(c, b.gpr, b.sse))
<1>3. PutArgument(b, t) = [b EXCEPT !.gpr = G, !.sse = X, !.places = p]
  BY <1>1
<1> HIDE DEF G, X, p
<1>4. PutArgument(b, t).gpr = G /\ PutArgument(b, t).sse = X /\ PutArgument(b, t).argp = b.argp
  BY <1>2, <1>3 DEF Calls
<1> QED
  BY <1>4 DEF G, X

\* What one argument does, in registers or on the stack.
LEMMA ArgumentStep ==
  ASSUME IInv, Between, NEW b, Within(b), NEW t, Passable(t)
  PROVE  OneArgument(b, t)
<1> DEFINE c == Classify(t, 0)
<1>1. FFIType(t).size \in Nat \ {0} /\ MemoryAlignment(t) \in Alignments
  BY PassableClass
<1>2. c = <<>> \/ (c \in Seq(Registers) /\ Len(c) \in {1, 2})
  BY PassableClass
<1>3. CASE GoesInMemory(c, b.gpr, b.sse)
  <2>1. PutArgument(b, t) = InMemory(b, t)
    BY <1>3 DEF PutArgument
  <2>2. FindArgument(b, t) = InMemory(b, t)
    BY <1>3 DEF FindArgument
  <2>3. /\ InMemory(b, t) \in Calls
        /\ \E ps : Adds(b, InMemory(b, t), ps)
        /\ InMemory(b, t).gpr = b.gpr /\ InMemory(b, t).sse = b.sse
        /\ InMemory(b, t).argp = StackAfter(b.argp, t)
    BY <1>1, OnStack
  <2>4. ASSUME NEW m, Same(m, b)
        PROVE  Same(MeasureArgument(m, t), InMemory(b, t))
    <3>1. m \in Measures /\ m.gpr = b.gpr /\ m.sse = b.sse /\ m.bytes = b.argp
      BY <2>4 DEF Same
    <3>2. MeasureArgument(m, t) = [m EXCEPT !.bytes = StackAfter(m.bytes, t)]
      BY <1>3, <3>1 DEF MeasureArgument
    <3>3. StackAfter(m.bytes, t) \in Nat
      <4>1. InMemory(b, t).argp \in Nat
        BY <2>3 DEF Calls
      <4> QED
        BY <2>3, <3>1, <4>1
    <3> DEFINE a == StackAfter(m.bytes, t)
    <3>4. a = InMemory(b, t).argp
      BY <2>3, <3>1
    <3> HIDE DEF a
    <3>5. [m EXCEPT !.bytes = a] \in Measures /\ [m EXCEPT !.bytes = a].gpr = m.gpr
          /\ [m EXCEPT !.bytes = a].sse = m.sse /\ [m EXCEPT !.bytes = a].bytes = a
      BY <3>1, <3>3 DEF Measures, a
    <3> QED
      BY <2>3, <3>1, <3>2, <3>4, <3>5 DEF Same, a
  <2> QED
    BY <2>1, <2>2, <2>3, <2>4 DEF OneArgument
<1>4. CASE ~GoesInMemory(c, b.gpr, b.sse)
  <2>1. GoesInRegisters(b, t, c)
    BY <1>2, <1>4 DEF GoesInRegisters, GoesInMemory
  <2>2. /\ FindArgument(b, t) = PutArgument(b, t)
        /\ PutArgument(b, t) \in Calls
        /\ \E ps : Adds(b, PutArgument(b, t), ps)
    BY <2>1, InRegisters
  <2> DEFINE d == PutArgument(b, t)
             G == b.gpr + Needs(c, IntegerClasses)
             X == b.sse + Needs(c, SseClasses)
  <2>3. d.gpr = G /\ d.sse = X /\ d.argp = b.argp
    BY <1>4, PutInRegisters
  <2>4. ASSUME NEW m, Same(m, b)
        PROVE  Same(MeasureArgument(m, t), d)
    <3>1. m \in Measures /\ m.gpr = b.gpr /\ m.sse = b.sse /\ m.bytes = b.argp
      BY <2>4 DEF Same
    <3>2. MeasureArgument(m, t) = [m EXCEPT !.gpr = G, !.sse = X]
      BY <1>4, <3>1 DEF MeasureArgument
    <3> HIDE DEF d, G, X
    <3>3. G \in Nat /\ X \in Nat
      BY <2>2, <2>3 DEF Calls, d
    <3>4. [m EXCEPT !.gpr = G, !.sse = X] \in Measures /\ [m EXCEPT !.gpr = G, !.sse = X].gpr = G
          /\ [m EXCEPT !.gpr = G, !.sse = X].sse = X /\ [m EXCEPT !.gpr = G, !.sse = X].bytes = m.bytes
      BY <3>1, <3>3 DEF Measures
    <3> QED
      BY <2>3, <3>1, <3>2, <3>4 DEF Same
  <2> QED
    BY <2>2, <2>4 DEF OneArgument
<1> QED
  BY <1>3, <1>4

\* Arguments that a call takes, and its result.
Legal(args, r) ==
  /\ Len(args) \in Nat
  /\ \A k \in 1 .. Len(args) : Passable(args[k])
  /\ r \in Results

\* The states within the registers.
Withins == {b \in Calls : Within(b)}

\* The loops of ffi_call, ffi_closure_unix64_inner and ffi_prep_cif_machdep.
Puts(f, args, r) ==
  /\ f[0] = NoPlaces(r)
  /\ \A k \in 1 .. Len(args) : f[k] = PutArgument(f[k - 1], args[k])

\* The loop of ffi_closure_unix64_inner.
Finds(f, args, r) ==
  /\ f[0] = NoPlaces(r)
  /\ \A k \in 1 .. Len(args) : f[k] = FindArgument(f[k - 1], args[k])

\* The loop of ffi_prep_cif_machdep.
MeasuresAll(f, args, r) ==
  /\ f[0] = NoBytes(r)
  /\ \A k \in 1 .. Len(args) : f[k] = MeasureArgument(f[k - 1], args[k])

\* A call goes through states within the registers, and so does a closure.
AllWithin(f, n) == f = [k \in 0 .. n |-> f[k]] /\ \A k \in 0 .. n : f[k] \in Withins

\* Before the first argument.
LEMMA NothingYet ==
  ASSUME NEW r
  PROVE  NoPlaces(r) \in Withins
<1>1. First(r) \in {0, 1}
  BY DEF First
<1>2. <<>> \in Seq(Seq(Place))
  OBVIOUS
<1>3. NoPlaces(r) \in Calls /\ NoPlaces(r).gpr = First(r) /\ NoPlaces(r).sse = 0
  BY <1>1, <1>2 DEF NoPlaces, Calls
<1>4. First(r) <= MaxGpr /\ 0 <= MaxSse
  BY <1>1, CallAssumption
<1> QED
  BY <1>3, <1>4 DEF Withins, Within

\* One argument stays within the registers.
LEMMA WithinStep ==
  ASSUME IInv, Between, NEW b \in Withins, NEW t, Passable(t)
  PROVE  PutArgument(b, t) \in Withins /\ FindArgument(b, t) = PutArgument(b, t)
<1>1. Within(b)
  BY DEF Withins
<1>2. OneArgument(b, t)
  BY <1>1, ArgumentStep
<1> DEFINE d == PutArgument(b, t)
<1>3. d \in Calls /\ FindArgument(b, t) = d /\ \E ps : Adds(b, d, ps)
  BY <1>2 DEF OneArgument
<1> HIDE DEF d
<1>4. d.gpr <= MaxGpr /\ d.sse <= MaxSse
  BY <1>3 DEF Adds
<1> QED
  BY <1>3, <1>4 DEF Withins, Within, d

\* The loop of ffi_call computes something.
LEMMA PutsExist ==
  ASSUME IInv, Between, NEW args, NEW r, Legal(args, r)
  PROVE  \E f : Puts(f, args, r) /\ AllWithin(f, Len(args))
<1> DEFINE n == Len(args)
           Put(k, v) == PutArgument(v, args[k])
           F == [k \in 1 .. n |-> [v \in Withins |-> Put(k, v)]]
<1>1. n \in Nat /\ \A k \in 1 .. n : Passable(args[k])
  BY DEF Legal
<1>2. \A k \in 1 .. n : \A v \in Withins : Put(k, v) \in Withins
  BY <1>1, WithinStep
<1> HIDE DEF Put, n
<1>3. \A k \in 1 .. n : \A v \in Withins : F[k][v] = Put(k, v)
  OBVIOUS
<1>4. F \in [1 .. n -> [Withins -> Withins]]
  BY <1>2
<1> HIDE DEF F
<1>5. PICK f : Steps(f, n, Withins, NoPlaces(r), F)
  BY <1>1, <1>4, NothingYet, Recursion
<1>6. /\ f \in [0 .. n -> Withins] /\ f[0] = NoPlaces(r)
      /\ \A k \in 1 .. n : f[k] = F[k][f[k - 1]]
  BY <1>5 DEF Steps
<1>7. \A k \in 1 .. n : f[k - 1] \in Withins
  BY <1>1, <1>6
<1>8. \A k \in 1 .. n : f[k] = Put(k, f[k - 1])
  BY <1>3, <1>6, <1>7
<1>9. AllWithin(f, n)
  BY <1>6 DEF AllWithin
<1>10. Puts(f, args, r)
  BY <1>6, <1>8 DEF Puts, Put, n
<1> QED
  BY <1>9, <1>10 DEF n

\* Two loops that do the same from the same start come to the same.
LEMMA PutsOnce ==
  ASSUME NEW args, NEW r, Len(args) \in Nat, NEW f, NEW h, Puts(f, args, r), Puts(h, args, r)
  PROVE  \A k \in 0 .. Len(args) : f[k] = h[k]
<1> DEFINE S == {k \in 0 .. Len(args) : f[k] = h[k]}
<1>1. 0 \in S
  BY DEF Puts
<1>2. \A k \in 1 .. Len(args) : k - 1 \in S => k \in S
  BY DEF Puts
<1> HIDE DEF S
<1>3. \A k \in 0 .. Len(args) : k \in S
  BY <1>1, <1>2, UpTo
<1> QED
  BY <1>3 DEF S

\* The loop of the closure comes to what that of the call comes to.
LEMMA FindsThem ==
  ASSUME IInv, Between, NEW args, NEW r, Legal(args, r), NEW f, NEW h,
         Finds(f, args, r), Puts(h, args, r), AllWithin(h, Len(args))
  PROVE  \A k \in 0 .. Len(args) : f[k] = h[k]
<1> DEFINE S == {k \in 0 .. Len(args) : f[k] = h[k]}
<1>1. 0 \in S
  BY DEF Puts, Finds, Legal
<1>2. ASSUME NEW k \in 1 .. Len(args), k - 1 \in S
      PROVE  k \in S
  <2>1. Passable(args[k]) /\ k - 1 \in 0 .. Len(args) /\ k \in 0 .. Len(args)
    BY DEF Legal
  <2>2. h[k - 1] \in Withins
    BY <2>1 DEF AllWithin
  <2>3. f[k] = FindArgument(f[k - 1], args[k]) /\ h[k] = PutArgument(h[k - 1], args[k])
    BY DEF Finds, Puts
  <2>4. f[k - 1] = h[k - 1]
    BY <1>2
  <2>5. FindArgument(h[k - 1], args[k]) = PutArgument(h[k - 1], args[k])
    BY <2>1, <2>2, WithinStep
  <2> QED
    BY <2>1, <2>3, <2>4, <2>5
<1>3. \A k \in 1 .. Len(args) : k - 1 \in S => k \in S
  BY <1>2
<1>4. Len(args) \in Nat
  BY DEF Legal
<1> HIDE DEF S
<1>5. \A k \in 0 .. Len(args) : k \in S
  BY <1>1, <1>3, <1>4, UpTo
<1> QED
  BY <1>5 DEF S

\* ffi_call goes through the loop.
LEMMA CallIsRun ==
  ASSUME IInv, Between, NEW args, NEW r, Legal(args, r), NEW h, Puts(h, args, r),
         AllWithin(h, Len(args))
  PROVE  CallPlaces(args, r) = h[Len(args)]
<1> DEFINE P(g) == g = [n \in 0 .. Len(args) |->
                     IF n = 0 THEN NoPlaces(r) ELSE PutArgument(g[n - 1], args[n])]
           f == CHOOSE g : P(g)
<1>1. CallPlaces(args, r) = f[Len(args)]
  BY Zenon DEF CallPlaces
<1>2. Len(args) \in Nat
  BY DEF Legal
<1>3. P(h)
  <2>1. h = [k \in 0 .. Len(args) |-> h[k]]
    BY DEF AllWithin
  <2>2. \A k \in 0 .. Len(args) :
          h[k] = IF k = 0 THEN NoPlaces(r) ELSE PutArgument(h[k - 1], args[k])
    <3>1. \A k \in 0 .. Len(args) : k = 0 \/ k \in 1 .. Len(args)
      BY <1>2
    <3> QED
      BY <3>1 DEF Puts
  <2> QED
    BY <2>1, <2>2
<1> HIDE DEF P
<1>4. P(f)
  BY <1>3
<1> HIDE DEF f
<1>5. Puts(f, args, r)
  <2>1. 0 \in 0 .. Len(args) /\ \A k \in 1 .. Len(args) : k \in 0 .. Len(args) /\ k # 0
    BY <1>2
  <2> QED
    BY <1>4, <2>1 DEF P, Puts
<1>6. Len(args) \in 0 .. Len(args)
  BY <1>2
<1> QED
  BY <1>1, <1>2, <1>5, <1>6, PutsOnce

\* ffi_closure_unix64_inner comes to the same places.
LEMMA ClosureIsRun ==
  ASSUME IInv, Between, NEW args, NEW r, Legal(args, r), NEW h, Puts(h, args, r),
         AllWithin(h, Len(args))
  PROVE  ClosurePlaces(args, r) = h[Len(args)]
<1> DEFINE P(g) == g = [n \in 0 .. Len(args) |->
                     IF n = 0 THEN NoPlaces(r) ELSE FindArgument(g[n - 1], args[n])]
           f == CHOOSE g : P(g)
<1>1. ClosurePlaces(args, r) = f[Len(args)]
  BY Zenon DEF ClosurePlaces
<1>2. Len(args) \in Nat
  BY DEF Legal
<1>3. P(h)
  <2>1. h = [k \in 0 .. Len(args) |-> h[k]]
    BY DEF AllWithin
  <2>2. \A k \in 0 .. Len(args) :
          h[k] = IF k = 0 THEN NoPlaces(r) ELSE FindArgument(h[k - 1], args[k])
    <3>1. \A k \in 0 .. Len(args) : k = 0 \/ k \in 1 .. Len(args)
      BY <1>2
    <3>2. ASSUME NEW k \in 1 .. Len(args) PROVE h[k] = FindArgument(h[k - 1], args[k])
      <4>1. Passable(args[k]) /\ k - 1 \in 0 .. Len(args)
        BY DEF Legal
      <4>2. h[k - 1] \in Withins
        BY <4>1 DEF AllWithin
      <4>3. h[k] = PutArgument(h[k - 1], args[k])
        BY DEF Puts
      <4> QED
        BY <4>1, <4>2, <4>3, WithinStep
    <3> QED
      BY <3>1, <3>2 DEF Puts
  <2> QED
    BY <2>1, <2>2
<1> HIDE DEF P
<1>4. P(f)
  BY <1>3
<1> HIDE DEF f
<1>5. Finds(f, args, r)
  <2>1. 0 \in 0 .. Len(args) /\ \A k \in 1 .. Len(args) : k \in 0 .. Len(args) /\ k # 0
    BY <1>2
  <2> QED
    BY <1>4, <2>1 DEF P, Finds
<1>6. Len(args) \in 0 .. Len(args)
  BY <1>2
<1> QED
  BY <1>1, <1>5, <1>6, FindsThem

\* The signatures of the properties.
LEMMA SignaturesAreLegal ==
  ASSUME IInv, Between, NEW args \in Signatures, NEW r \in Results,
         \A n \in DOMAIN args : args[n] \in Structs => ~Straddles(args[n])
  PROVE  Legal(args, r) /\ DOMAIN args = 1 .. Len(args)
<1>1. PICK s \in Structs : Callable(s) /\ (args = fields[s] \/ args = <<s>> \o fields[s])
  BY DEF Signatures
<1>2. /\ Len(fields[s]) \in Nat \ {0} /\ DOMAIN fields[s] = 1 .. Len(fields[s])
      /\ fields[s] \in Seq(Types)
      /\ \A k \in 1 .. Len(fields[s]) :
           /\ fields[s][k] \notin Structs => fields[s][k] \in BaseTypes
           /\ fields[s][k] \in Structs => Callable(fields[s][k])
  <2>1. ASSUME NEW k \in 1 .. Len(fields[s]), fields[s][k] \in Structs
        PROVE  Callable(fields[s][k])
    <3>1. /\ fields[fields[s][k]] # <<>> /\ StructFields(fields[s][k]) = {}
      BY <1>1, <2>1, CallableFields
    <3>2. k \in StructFields(s)
      BY <1>1, <2>1, CallableFields DEF StructFields
    <3>3. Complete(fields[s][k])
      BY <1>1, <3>2 DEF Callable
    <3> QED
      BY <3>1, <3>3 DEF Callable
  <2> QED
    BY <1>1, <2>1, CallableFields DEF TypeOK
<1>3. \A k \in 1 .. Len(fields[s]) :
        fields[s][k] \in BaseTypes \/ (fields[s][k] \in Structs /\ Callable(fields[s][k]))
  BY <1>2
<1>4. CASE args = fields[s]
  BY <1>2, <1>3, <1>4 DEF Legal, Passable
<1>5. CASE args = <<s>> \o fields[s]
  <2>1. /\ Len(args) = Len(fields[s]) + 1 /\ DOMAIN args = 1 .. Len(args) /\ args[1] = s
        /\ \A k \in 2 .. Len(args) : args[k] = fields[s][k - 1] /\ k - 1 \in 1 .. Len(fields[s])
    BY <1>2, <1>5
  <2>2. ASSUME NEW k \in 1 .. Len(args) PROVE Passable(args[k])
    <3>1. CASE k = 1
      BY <1>1, <2>1, <3>1 DEF Passable
    <3>2. CASE k # 1
      <4>1. k \in 2 .. Len(args)
        BY <3>2
      <4> QED
        BY <1>3, <2>1, <4>1 DEF Passable
    <3> QED
      BY <3>1, <3>2
  <2> QED
    BY <1>2, <2>1, <2>2 DEF Legal
<1> QED
  BY <1>1, <1>4, <1>5

\* A closure finds every argument where a call puts it.
THEOREM ArgumentsAreFound == Spec => []ClosureFindsArguments
<1>1. IInv => ClosureFindsArguments
  <2> SUFFICES ASSUME IInv, Between, NEW args \in Signatures, NEW r \in Results,
                      \A n \in DOMAIN args : args[n] \in Structs => ~Straddles(args[n])
               PROVE  ClosurePlaces(args, r) = CallPlaces(args, r)
    BY DEF ClosureFindsArguments
  <2>1. Legal(args, r)
    BY SignaturesAreLegal
  <2>2. PICK h : Puts(h, args, r) /\ AllWithin(h, Len(args))
    BY <2>1, PutsExist
  <2> QED
    BY <2>1, <2>2, CallIsRun, ClosureIsRun
<1> QED
  BY <1>1, Invariant, PTL

\* Where the first k arguments have been put, and that no two are in the same place.
Located(b, r, k) ==
  /\ Within(b) /\ b.places \in Seq(Seq(Place)) /\ Len(b.places) = k
  /\ First(r) <= b.gpr
  /\ \A n \in 1 .. k : \A w \in DOMAIN b.places[n] : Fresh(b.places[n][w], NoPlaces(r), b)
  /\ \A n, m \in 1 .. k : \A w \in DOMAIN b.places[n] : \A v \in DOMAIN b.places[m] :
       b.places[n][w] = b.places[m][v] => n = m /\ w = v

\* What was put before is not what is put next.
LEMMA FreshIsNew ==
  ASSUME NEW a \in Calls, NEW b \in Calls, NEW d \in Calls, NEW p, NEW q,
         Fresh(p, a, b), Fresh(q, b, d)
  PROVE  p # q
<1>1. /\ a.gpr \in Nat /\ b.gpr \in Nat /\ d.gpr \in Nat /\ a.sse \in Nat /\ b.sse \in Nat
      /\ d.sse \in Nat /\ a.argp \in Nat /\ b.argp \in Nat /\ d.argp \in Nat
  BY DEF Calls
<1>2. CASE \E x \in a.gpr .. b.gpr - 1 : p = <<"gpr", x>>
  <2>1. PICK x \in a.gpr .. b.gpr - 1 : p = <<"gpr", x>>
    BY <1>2
  <2>2. \A y \in b.gpr .. d.gpr - 1 : x # y
    BY <1>1
  <2> QED
    BY <2>1, <2>2 DEF Fresh
<1>3. CASE \E x \in a.sse .. b.sse - 1 : p = <<"sse", x>>
  <2>1. PICK x \in a.sse .. b.sse - 1 : p = <<"sse", x>>
    BY <1>3
  <2>2. \A y \in b.sse .. d.sse - 1 : x # y
    BY <1>1
  <2> QED
    BY <2>1, <2>2 DEF Fresh
<1>4. CASE \E x \in a.argp .. b.argp - 1 : p = <<"memory", x>>
  <2>1. PICK x \in a.argp .. b.argp - 1 : p = <<"memory", x>>
    BY <1>4
  <2>2. \A y \in b.argp .. d.argp - 1 : x # y
    BY <1>1
  <2> QED
    BY <2>1, <2>2 DEF Fresh
<1> QED
  BY <1>2, <1>3, <1>4 DEF Fresh

\* Places that have been used stay used.
LEMMA FreshGrows ==
  ASSUME NEW a \in Calls, NEW b \in Calls, NEW d \in Calls, NEW p,
         a.gpr <= b.gpr, a.sse <= b.sse, a.argp <= b.argp,
         b.gpr <= d.gpr, b.sse <= d.sse, b.argp <= d.argp
  PROVE  /\ Fresh(p, a, b) => Fresh(p, a, d)
         /\ Fresh(p, b, d) => Fresh(p, a, d)
<1>1. /\ a.gpr \in Nat /\ b.gpr \in Nat /\ d.gpr \in Nat /\ a.sse \in Nat /\ b.sse \in Nat
      /\ d.sse \in Nat /\ a.argp \in Nat /\ b.argp \in Nat /\ d.argp \in Nat
  BY DEF Calls
<1>2. /\ a.gpr .. b.gpr - 1 \subseteq a.gpr .. d.gpr - 1
      /\ a.sse .. b.sse - 1 \subseteq a.sse .. d.sse - 1
      /\ a.argp .. b.argp - 1 \subseteq a.argp .. d.argp - 1
      /\ b.gpr .. d.gpr - 1 \subseteq a.gpr .. d.gpr - 1
      /\ b.sse .. d.sse - 1 \subseteq a.sse .. d.sse - 1
      /\ b.argp .. d.argp - 1 \subseteq a.argp .. d.argp - 1
  BY <1>1
<1> QED
  BY <1>2, Zenon DEF Fresh

\* One more argument.
LEMMA LocatedStep ==
  ASSUME NEW r, NEW k \in Nat, NEW b, Located(b, r, k), NEW d \in Calls, NEW ps, Adds(b, d, ps)
  PROVE  Located(d, r, k + 1)
<1> DEFINE a == NoPlaces(r)
<1>1. /\ b \in Calls /\ b.places \in Seq(Seq(Place)) /\ Len(b.places) = k /\ ps \in Seq(Place)
      /\ d.places = Append(b.places, ps) /\ First(r) <= b.gpr
  BY DEF Located, Within, Adds
<1>2. /\ d.places \in Seq(Seq(Place)) /\ Len(d.places) = k + 1 /\ d.places[k + 1] = ps
      /\ \A n \in 1 .. k : d.places[n] = b.places[n]
  <2> DEFINE places == b.places
  <2>1. places \in Seq(Seq(Place)) /\ Len(places) = k
    BY <1>1
  <2> HIDE DEF places
  <2>2. /\ Append(places, ps) \in Seq(Seq(Place)) /\ Len(Append(places, ps)) = k + 1
        /\ Append(places, ps)[k + 1] = ps
        /\ \A n \in 1 .. k : Append(places, ps)[n] = places[n]
    BY <1>1, <2>1
  <2> QED
    BY <1>1, <2>2 DEF places
<1>3. a \in Calls /\ a.gpr = First(r) /\ a.sse = 0 /\ a.argp = 0 /\ First(r) \in Nat
  <2>1. a.gpr = First(r) /\ a.sse = 0 /\ a.argp = 0
    BY DEF NoPlaces
  <2>2. First(r) \in Nat
    BY DEF First
  <2> QED
    BY <2>1, <2>2, NothingYet DEF Withins, Within
<1>4. b.gpr \in Nat /\ b.sse \in Nat /\ b.argp \in Nat /\ d.gpr \in Nat
  BY <1>1 DEF Calls
<1>5. /\ b.gpr <= d.gpr /\ b.sse <= d.sse /\ b.argp <= d.argp /\ Within(d)
      /\ First(r) <= d.gpr
  <2>1. b.gpr <= d.gpr /\ b.sse <= d.sse /\ b.argp <= d.argp /\ Within(d)
    BY DEF Adds, Within
  <2> QED
    BY <1>1, <1>3, <1>4, <2>1
<1> HIDE DEF a
<1>6. \A p : (Fresh(p, a, b) => Fresh(p, a, d)) /\ (Fresh(p, b, d) => Fresh(p, a, d))
  <2>1. a.gpr <= b.gpr /\ a.sse <= b.sse /\ a.argp <= b.argp
    BY <1>1, <1>3, <1>4
  <2> QED
    BY <1>1, <1>3, <1>5, <2>1, FreshGrows
<1>7. /\ \A n \in 1 .. k : \A w \in DOMAIN b.places[n] : Fresh(b.places[n][w], a, b)
      /\ \A w \in DOMAIN ps : Fresh(ps[w], b, d)
  BY DEF Located, Adds, a
<1>8. \A n \in 1 .. k + 1 : n \in 1 .. k \/ n = k + 1
  OBVIOUS
<1>9. ASSUME NEW n \in 1 .. k + 1, NEW w \in DOMAIN d.places[n]
      PROVE  Fresh(d.places[n][w], a, d)
  BY <1>2, <1>6, <1>7, <1>8
<1>10. \A n \in 1 .. k : \A w \in DOMAIN b.places[n] : \A v \in DOMAIN ps : b.places[n][w] # ps[v]
  BY <1>1, <1>3, <1>7, FreshIsNew
<1>11. ASSUME NEW n \in 1 .. k + 1, NEW m \in 1 .. k + 1, NEW w \in DOMAIN d.places[n],
              NEW v \in DOMAIN d.places[m], d.places[n][w] = d.places[m][v]
       PROVE  n = m /\ w = v
  <2>1. CASE n = k + 1 /\ m = k + 1
    BY <1>2, <1>11, <2>1 DEF Adds
  <2>2. CASE n = k + 1 /\ m \in 1 .. k
    <3>1. d.places[n] = ps /\ d.places[m] = b.places[m]
      BY <1>2, <2>2
    <3> QED
      BY <1>10, <1>11, <2>2, <3>1, Zenon
  <2>3. CASE n \in 1 .. k /\ m = k + 1
    <3>1. d.places[n] = b.places[n] /\ d.places[m] = ps
      BY <1>2, <2>3
    <3> QED
      BY <1>10, <1>11, <2>3, <3>1, Zenon
  <2>4. CASE n \in 1 .. k /\ m \in 1 .. k
    <3>1. d.places[n] = b.places[n] /\ d.places[m] = b.places[m]
      BY <1>2, <2>4
    <3>2. /\ w \in DOMAIN b.places[n] /\ v \in DOMAIN b.places[m]
          /\ b.places[n][w] = b.places[m][v]
      BY <1>11, <3>1
    <3>3. \A i1, j1 \in 1 .. k : \A x \in DOMAIN b.places[i1] : \A y \in DOMAIN b.places[j1] :
            b.places[i1][x] = b.places[j1][y] => i1 = j1 /\ x = y
      BY DEF Located
    <3> QED
      BY <2>4, <3>2, <3>3
  <2> QED
    BY <1>8, <2>1, <2>2, <2>3, <2>4
<1> QED
  BY <1>2, <1>5, <1>9, <1>11 DEF Located, a

\* After every argument.
LEMMA AllLocated ==
  ASSUME IInv, Between, NEW args, NEW r, Legal(args, r), NEW h, Puts(h, args, r)
  PROVE  \A k \in 0 .. Len(args) : Located(h[k], r, k)
<1> DEFINE S == {k \in 0 .. Len(args) : Located(h[k], r, k)}
<1>1. Len(args) \in Nat /\ h[0] = NoPlaces(r)
  BY DEF Legal, Puts
<1>2. 0 \in S
  <2>1. Within(NoPlaces(r))
    BY NothingYet DEF Withins
  <2>2. NoPlaces(r).places = <<>> /\ NoPlaces(r).gpr = First(r) /\ First(r) \in Nat
    BY DEF NoPlaces, First
  <2>3. <<>> \in Seq(Seq(Place)) /\ Len(<<>>) = 0
    OBVIOUS
  <2>4. \A n \in 1 .. 0 : FALSE
    OBVIOUS
  <2>5. First(r) <= First(r)
    BY <2>2
  <2>6. Located(NoPlaces(r), r, 0)
    BY <2>1, <2>2, <2>3, <2>4, <2>5 DEF Located
  <2> QED
    BY <1>1, <2>6
<1>3. ASSUME NEW k \in 1 .. Len(args), k - 1 \in S
      PROVE  k \in S
  <2> DEFINE b == h[k - 1]
             d == PutArgument(b, args[k])
  <2>1. Passable(args[k]) /\ k - 1 \in Nat /\ (k - 1) + 1 = k /\ k \in 0 .. Len(args)
    BY <1>1 DEF Legal
  <2>2. h[k] = d
    BY DEF Puts
  <2>3. Located(b, r, k - 1)
    BY <1>3
  <2> HIDE DEF b, d
  <2>4. OneArgument(b, args[k])
    BY <2>1, <2>3, ArgumentStep DEF Located
  <2>5. PICK ps : Adds(b, d, ps)
    BY <2>4 DEF OneArgument, d
  <2>6. d \in Calls
    BY <2>4 DEF OneArgument, d
  <2>7. Located(d, r, (k - 1) + 1)
    BY <2>1, <2>3, <2>5, <2>6, LocatedStep
  <2> QED
    BY <2>1, <2>2, <2>7
<1>4. \A k \in 1 .. Len(args) : k - 1 \in S => k \in S
  BY <1>3
<1> HIDE DEF S
<1>5. \A k \in 0 .. Len(args) : k \in S
  BY <1>1, <1>2, <1>4, UpTo
<1> QED
  BY <1>5 DEF S

\* After every argument, what was measured is what is used.
LEMMA MeasuresOnce ==
  ASSUME IInv, Between, NEW args, NEW r, Legal(args, r), NEW h, Puts(h, args, r),
         AllWithin(h, Len(args)), NEW m, MeasuresAll(m, args, r)
  PROVE  \A k \in 0 .. Len(args) : Same(m[k], h[k])
<1> DEFINE S == {k \in 0 .. Len(args) : Same(m[k], h[k])}
<1>1. Len(args) \in Nat /\ h[0] = NoPlaces(r) /\ m[0] = NoBytes(r)
  BY DEF Legal, Puts, MeasuresAll
<1>2. 0 \in S
  <2>1. Same(NoBytes(r), NoPlaces(r))
    <3>1. First(r) \in Nat
      BY DEF First
    <3> QED
      BY <3>1 DEF Same, NoBytes, NoPlaces, Measures
  <2> QED
    BY <1>1, <2>1
<1>3. ASSUME NEW k \in 1 .. Len(args), k - 1 \in S
      PROVE  k \in S
  <2>1. Passable(args[k]) /\ k - 1 \in 0 .. Len(args) /\ k \in 0 .. Len(args)
    BY <1>1 DEF Legal
  <2>2. Within(h[k - 1])
    BY <2>1 DEF AllWithin, Withins
  <2>3. h[k] = PutArgument(h[k - 1], args[k]) /\ m[k] = MeasureArgument(m[k - 1], args[k])
    BY DEF Puts, MeasuresAll
  <2>4. Same(m[k - 1], h[k - 1])
    BY <1>3
  <2>5. OneArgument(h[k - 1], args[k])
    BY <2>1, <2>2, ArgumentStep
  <2>6. Same(MeasureArgument(m[k - 1], args[k]), PutArgument(h[k - 1], args[k]))
    BY <2>4, <2>5 DEF OneArgument
  <2> QED
    BY <2>1, <2>3, <2>6
<1>4. \A k \in 1 .. Len(args) : k - 1 \in S => k \in S
  BY <1>3
<1> HIDE DEF S
<1>5. \A k \in 0 .. Len(args) : k \in S
  BY <1>1, <1>2, <1>4, UpTo
<1> QED
  BY <1>5 DEF S

\* The loop of ffi_prep_cif_machdep computes something.
LEMMA MeasuresExist ==
  ASSUME IInv, Between, NEW args, NEW r, Legal(args, r), NEW h, Puts(h, args, r),
         AllWithin(h, Len(args))
  PROVE  \E m : m = [k \in 0 .. Len(args) |-> m[k]] /\ MeasuresAll(m, args, r)
<1> DEFINE m == [k \in 0 .. Len(args) |->
                   [gpr |-> h[k].gpr, sse |-> h[k].sse, bytes |-> h[k].argp]]
<1>1. Len(args) \in Nat /\ h[0] = NoPlaces(r)
  BY DEF Legal, Puts
<1>2. \A k \in 0 .. Len(args) : m[k] \in Measures /\ Same(m[k], h[k])
  <2> SUFFICES ASSUME NEW k \in 0 .. Len(args) PROVE m[k] \in Measures /\ Same(m[k], h[k])
    OBVIOUS
  <2>1. h[k] \in Calls
    BY DEF AllWithin, Withins
  <2> QED
    BY <2>1 DEF Same, Measures, Calls
<1>3. \A k \in 0 .. Len(args) : \A x : Same(x, h[k]) => x = m[k]
  BY DEF Same, Measures
<1>4. m = [k \in 0 .. Len(args) |-> m[k]]
  OBVIOUS
<1> HIDE DEF m
<1>5. m[0] = NoBytes(r)
  <2>1. Same(NoBytes(r), NoPlaces(r))
    <3>1. First(r) \in Nat
      BY DEF First
    <3> QED
      BY <3>1 DEF Same, NoBytes, NoPlaces, Measures
  <2>2. 0 \in 0 .. Len(args)
    BY <1>1
  <2> QED
    BY <1>1, <1>3, <2>1, <2>2
<1>6. ASSUME NEW k \in 1 .. Len(args)
      PROVE  m[k] = MeasureArgument(m[k - 1], args[k])
  <2>1. Passable(args[k]) /\ k - 1 \in 0 .. Len(args) /\ k \in 0 .. Len(args)
    BY <1>1 DEF Legal
  <2>2. Within(h[k - 1])
    BY <2>1 DEF AllWithin, Withins
  <2>3. OneArgument(h[k - 1], args[k])
    BY <2>1, <2>2, ArgumentStep
  <2>4. Same(MeasureArgument(m[k - 1], args[k]), PutArgument(h[k - 1], args[k]))
    BY <1>2, <2>1, <2>3 DEF OneArgument
  <2>5. h[k] = PutArgument(h[k - 1], args[k])
    BY DEF Puts
  <2> QED
    BY <1>3, <2>1, <2>4, <2>5
<1> QED
  BY <1>4, <1>5, <1>6 DEF MeasuresAll

\* The bytes measured beforehand are those that the call takes.
LEMMA BytesOfCall ==
  ASSUME IInv, Between, NEW args, NEW r, Legal(args, r), NEW h, Puts(h, args, r),
         AllWithin(h, Len(args))
  PROVE  MachdepBytes(args, r) = Align(h[Len(args)].argp, 8)
<1> DEFINE P(g) == g = [n \in 0 .. Len(args) |->
                     IF n = 0 THEN NoBytes(r) ELSE MeasureArgument(g[n - 1], args[n])]
           f == CHOOSE g : P(g)
<1>1. MachdepBytes(args, r) = Align(f[Len(args)].bytes, 8)
  BY Zenon DEF MachdepBytes
<1>2. Len(args) \in Nat
  BY DEF Legal
<1>3. PICK m : m = [k \in 0 .. Len(args) |-> m[k]] /\ MeasuresAll(m, args, r)
  BY MeasuresExist
<1>4. P(m)
  <2>1. \A k \in 0 .. Len(args) : k = 0 \/ k \in 1 .. Len(args)
    BY <1>2
  <2>2. \A k \in 0 .. Len(args) :
          m[k] = IF k = 0 THEN NoBytes(r) ELSE MeasureArgument(m[k - 1], args[k])
    BY <1>3, <2>1 DEF MeasuresAll
  <2> QED
    BY <1>3, <2>2
<1> HIDE DEF P
<1>5. P(f)
  BY <1>4
<1> HIDE DEF f
<1>6. MeasuresAll(f, args, r)
  <2>1. 0 \in 0 .. Len(args) /\ \A k \in 1 .. Len(args) : k \in 0 .. Len(args) /\ k # 0
    BY <1>2
  <2> QED
    BY <1>5, <2>1 DEF P, MeasuresAll
<1>7. Len(args) \in 0 .. Len(args)
  BY <1>2
<1>8. Same(f[Len(args)], h[Len(args)])
  BY <1>6, <1>7, MeasuresOnce
<1> QED
  BY <1>1, <1>8 DEF Same

\* Every word of an argument has a place of its own, and there is room for it.
THEOREM PlacesAreApart == Spec => []ArgumentsHaveRoom
<1>1. IInv => ArgumentsHaveRoom
  <2> SUFFICES ASSUME IInv, Between, NEW args \in Signatures, NEW r \in Results,
                      \A n \in DOMAIN args : args[n] \in Structs => ~Straddles(args[n])
               PROVE  LET call == CallPlaces(args, r)
                          Words(n) == {<<n, w>> : w \in DOMAIN call.places[n]}
                          all == UNION {Words(n) : n \in DOMAIN args}
                          At(p) == call.places[p[1]][p[2]]
                      IN /\ \A p, q \in all : At(p) = At(q) => p = q
                         /\ \A p \in all :
                              /\ At(p)[1] # "abort"
                              /\ At(p)[1] = "gpr" => At(p)[2] \in First(r) .. MaxGpr - 1
                              /\ At(p)[1] = "sse" => At(p)[2] \in 0 .. MaxSse - 1
                         /\ call.argp <= MachdepBytes(args, r)
    BY DEF ArgumentsHaveRoom
  <2> DEFINE call == CallPlaces(args, r)
             Words(n) == {<<n, w>> : w \in DOMAIN call.places[n]}
             all == UNION {Words(n) : n \in DOMAIN args}
             At(p) == call.places[p[1]][p[2]]
             len == Len(args)
  <2>1. Legal(args, r) /\ DOMAIN args = 1 .. len /\ len \in Nat /\ len \in 0 .. len
    BY SignaturesAreLegal DEF Legal
  <2>2. PICK h : Puts(h, args, r) /\ AllWithin(h, len)
    BY <2>1, PutsExist
  <2>3. call = h[len] /\ MachdepBytes(args, r) = Align(h[len].argp, 8)
    BY <2>1, <2>2, CallIsRun, BytesOfCall
  <2> HIDE DEF len
  <2>4. Located(h[len], r, len)
    BY <2>1, <2>2, AllLocated DEF len
  <2>5. Located(call, r, len) /\ MachdepBytes(args, r) = Align(call.argp, 8)
    BY <2>3, <2>4
  <2> HIDE DEF call
  <2>6. \A p \in all : p[1] \in 1 .. len /\ p[2] \in DOMAIN call.places[p[1]] /\ p = <<p[1], p[2]>>
    BY <2>1
  <2>7. ASSUME NEW p \in all, NEW q \in all, At(p) = At(q)
        PROVE  p = q
    <3>1. p[1] = q[1] /\ p[2] = q[2]
      BY <2>5, <2>6, <2>7 DEF Located
    <3> QED
      BY <2>6, <3>1
  <2>8. ASSUME NEW p \in all
        PROVE  /\ At(p)[1] # "abort"
               /\ At(p)[1] = "gpr" => At(p)[2] \in First(r) .. MaxGpr - 1
               /\ At(p)[1] = "sse" => At(p)[2] \in 0 .. MaxSse - 1
    <3> DEFINE x == At(p)
    <3>1. Fresh(x, NoPlaces(r), call)
      BY <2>5, <2>6 DEF Located
    <3>2. /\ NoPlaces(r).gpr = First(r) /\ NoPlaces(r).sse = 0 /\ First(r) \in Nat
          /\ call.gpr \in Nat /\ call.sse \in Nat /\ call.gpr <= MaxGpr /\ call.sse <= MaxSse
          /\ MaxGpr \in Nat /\ MaxSse \in Nat
      BY <2>5, CallAssumption DEF NoPlaces, Located, Within, Calls, First
    <3>3. First(r) .. call.gpr - 1 \subseteq First(r) .. MaxGpr - 1
      BY <3>2
    <3>4. 0 .. call.sse - 1 \subseteq 0 .. MaxSse - 1
      BY <3>2
    <3> HIDE DEF x
    <3>5. \/ \E y \in First(r) .. call.gpr - 1 : x = <<"gpr", y>>
          \/ \E y \in 0 .. call.sse - 1 : x = <<"sse", y>>
          \/ \E y \in NoPlaces(r).argp .. call.argp - 1 : x = <<"memory", y>>
      BY <3>1, <3>2 DEF Fresh
    <3>6. /\ x[1] # "abort"
          /\ x[1] = "gpr" => x[2] \in First(r) .. MaxGpr - 1
          /\ x[1] = "sse" => x[2] \in 0 .. MaxSse - 1
      BY <3>3, <3>4, <3>5
    <3> QED
      BY <3>6 DEF x
  <2>9. call.argp <= MachdepBytes(args, r)
    <3>1. call.argp \in Nat /\ 8 \in Alignments
      BY <2>5 DEF Located, Within, Calls, Alignments
    <3> QED
      BY <2>5, <3>1, AlignIsLater
  <2> QED
    BY <2>7, <2>8, <2>9 DEF call
<1> QED
  BY <1>1, Invariant, PTL
=============================================================================
