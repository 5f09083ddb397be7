----------------------------- MODULE StructCall -----------------------------
(***************************************************************************)
(* Structures as arguments and results of C functions: the ffi_type that   *)
(* libffi lays out for them (libraries/libffi/src/prep_cif.c) and where    *)
(* the calls and the closures of x86-64 put arguments (x86/ffi64.c).       *)
(*                                                                         *)
(* Functions of the types of StructType, and no state of their own: they   *)
(* are evaluated in the states between two operations, over structures     *)
(* that nest at most twice.  The long doubles of libffi and its vectors    *)
(* are left out: tint has neither.  An argument is abstracted to its       *)
(* eightbytes, memory to the offset from the first argument on the stack.  *)
(***************************************************************************)
EXTENDS StructType, FiniteSets

CONSTANTS
  Kind,      \* "integer", "float" or "double": the ffi_type of a base type
  MaxGpr,    \* MAX_GPR_REGS
  MaxSse,    \* MAX_SSE_REGS
  Void       \* the result of a function that has none

\* x86-64: what is passed in registers is aligned to its size.
ASSUME CallAssumption ==
  /\ Kind \in [BaseTypes -> {"integer", "float", "double"}]
  /\ \A t \in BaseTypes :
       /\ BaseSize[t] \in {1, 2, 4, 8} /\ BaseAlignment[t] = BaseSize[t]
       /\ Kind[t] = "float" => BaseSize[t] = 4
       /\ Kind[t] = "double" => BaseSize[t] = 8
       /\ IsPointer(t) => Kind[t] = "integer"
  /\ Pointer = 8
  /\ MaxGpr \in Nat \ {0} /\ MaxSse \in Nat
  /\ Void \notin Types

Align(v, a) == v + Padding(v, a)

-----------------------------------------------------------------------------
(***************************************************************************)
(* prep_cif.c: size and alignment                                          *)
(***************************************************************************)

\* Without the padding at the end.
TailUnpadded(a) == a

\* A structure is a multiple of its alignment.
TailPadded(a) == [a EXCEPT !.size = Align(@, a.alignment)]

NoElements == [size |-> 0, alignment |-> 0]

\* One more element e.
AddElement(a, e) ==
  [size |-> Align(a.size, e.alignment) + e.size,
   alignment |-> IF a.alignment > e.alignment THEN a.alignment ELSE e.alignment]

\* initialize_aggregate, given the types of the elements.
Aggregate(s, Element(_)) ==
  LET f == fields[s]
      after[k \in 0 .. Len(f)] ==
        IF k = 0 THEN NoElements ELSE AddElement(after[k - 1], Element(f[k]))
  IN TailPadded(after[Len(f)])

BaseType(t) == [size |-> SizeOf(t), alignment |-> AlignmentOf(t)]

FlatType(t) == IF t \in Structs THEN Aggregate(t, BaseType) ELSE BaseType(t)

FFIType(t) == IF t \in Structs THEN Aggregate(t, FlatType) ELSE BaseType(t)

-----------------------------------------------------------------------------
(***************************************************************************)
(* ffi64.c: classes of eightbytes                                          *)
(***************************************************************************)

IntegerClasses == {"integer", "integerSI"}
SseClasses == {"sse", "sseSF", "sseDF"}

\* The class of the last field.
MergeLast(c, d) == IF c = "none" THEN d ELSE c

MergeClasses(c, d) ==
  IF c = d \/ d = "none" THEN c
  ELSE IF c = "none" THEN d
  ELSE IF {c, d} = {"integerSI", "sseSF"} THEN "integerSI"
  ELSE IF {c, d} \cap IntegerClasses # {} THEN "integer"
  ELSE "sse"

\* classify_argument of a base type at offset o of an eightbyte.
ClassifyBase(t, o) ==
  CASE Kind[t] = "integer" \/ IsPointer(t) ->
         LET end == o + SizeOf(t)
         IN IF end <= 4 THEN <<"integerSI">>
            ELSE IF end <= 8 THEN <<"integer">>
            ELSE IF end <= 12 THEN <<"integer", "integerSI">>
            ELSE <<"integerSI", "integerSI">>
    [] Kind[t] = "float" /\ ~IsPointer(t) -> <<IF o % 8 = 0 THEN "sseSF" ELSE "sse">>
    [] Kind[t] = "double" /\ ~IsPointer(t) -> <<"sseDF">>

NoClasses(o) == [offset |-> o, memory |-> FALSE, classes |-> [w \in 0 .. 4 |-> "none"]]

\* One more element, at offset at, with the classes sub.
AddClasses(b, at, room, sub) ==
  LET Word(w) == w - (at \div 8) + 1
  IN [offset |-> at + room,
      memory |-> b.memory \/ sub = <<>>,
      classes |-> [w \in 0 .. 4 |->
        IF Word(w) \in DOMAIN sub
        THEN MergeClasses(sub[Word(w)], b.classes[w])
        ELSE b.classes[w]]]

\* classify_argument of a structure at offset o of an eightbyte, given the types
\* and classes of its elements; <<>> when it goes in memory.  More than two
\* words do, for want of vectors.  What is merged past its own words is lost.
ClassifyStruct(s, o, Type(_), Classify(_, _)) ==
  LET f == fields[s]
      words == (Type(s).size + 7) \div 8
      after[k \in 0 .. Len(f)] ==
        IF k = 0 THEN NoClasses(o)
        ELSE LET at == Align(after[k - 1].offset, Type(f[k]).alignment)
             IN AddClasses(after[k - 1], at, Type(f[k]).size, Classify(f[k], at % 8))
      all == after[Len(f)]
  IN IF Type(s).size > 32 \/ words > 2 \/ all.memory THEN <<>>
     ELSE [w \in 1 .. words |-> all.classes[w - 1]]

ClassifyFlat(t, o) ==
  IF t \in Structs THEN ClassifyStruct(t, o, FlatType, ClassifyBase) ELSE ClassifyBase(t, o)

Classify(t, o) ==
  IF t \in Structs THEN ClassifyStruct(t, o, FFIType, ClassifyFlat) ELSE ClassifyBase(t, o)

\* examine_argument: how many registers of a set of classes.
Needs(classes, set) == Cardinality({w \in DOMAIN classes : classes[w] \in set})

\* A place for an argument of these classes after g and x registers.
GoesInMemory(classes, g, x) ==
  \/ classes = <<>>
  \/ g + Needs(classes, IntegerClasses) > MaxGpr
  \/ x + Needs(classes, SseClasses) > MaxSse

ReturnsInMemory(r) == r # Void /\ Classify(r, 0) = <<>>

\* Registers taken by the address of the result.
First(r) == IF ReturnsInMemory(r) THEN 1 ELSE 0

MemoryAlignment(t) == IF FFIType(t).alignment < 8 THEN 8 ELSE FFIType(t).alignment

-----------------------------------------------------------------------------
(***************************************************************************)
(* ffi64.c: arguments                                                      *)
(***************************************************************************)

\* Arguments in memory follow one another unaligned.
StackAfterUnaligned(room, t) == room + FFIType(t).size

\* The bytes of stack with one more argument.
StackAfter(room, t) == Align(room, MemoryAlignment(t)) + FFIType(t).size

NoBytes(r) == [gpr |-> First(r), sse |-> 0, bytes |-> 0]

\* The loop of ffi_prep_cif_machdep.
MeasureArgument(b, t) ==
  LET c == Classify(t, 0)
  IN IF GoesInMemory(c, b.gpr, b.sse)
     THEN [b EXCEPT !.bytes = StackAfter(@, t)]
     ELSE [b EXCEPT !.gpr = @ + Needs(c, IntegerClasses), !.sse = @ + Needs(c, SseClasses)]

\* The bytes of stack that the call will take.
MachdepBytes(args, r) ==
  LET after[n \in 0 .. Len(args)] ==
        IF n = 0 THEN NoBytes(r) ELSE MeasureArgument(after[n - 1], args[n])
  IN Align(after[Len(args)].bytes, 8)

\* The places of the eightbytes of an argument that is copied word by word,
\* after g and x registers.  A word of no class aborts the call.
WordByWord(c, g, x) ==
  [w \in DOMAIN c |->
     LET before == SubSeq(c, 1, w - 1)
     IN CASE c[w] \in IntegerClasses -> <<"gpr", g + Needs(before, IntegerClasses)>>
          [] c[w] \in SseClasses -> <<"sse", x + Needs(before, SseClasses)>>
          [] OTHER -> <<"abort">>]

NoPlaces(r) == [gpr |-> First(r), sse |-> 0, argp |-> 0, places |-> <<>>]

\* An argument in memory is the next on the stack.
InMemory(b, t) ==
  LET at == Align(b.argp, MemoryAlignment(t))
  IN [b EXCEPT !.argp = at + FFIType(t).size, !.places = Append(@, <<<<"memory", at>>>>)]

\* ffi_call: where it puts an argument.
PutArgument(b, t) ==
  LET c == Classify(t, 0)
  IN IF GoesInMemory(c, b.gpr, b.sse) THEN InMemory(b, t)
     ELSE [b EXCEPT !.gpr = @ + Needs(c, IntegerClasses),
                    !.sse = @ + Needs(c, SseClasses),
                    !.places = Append(@, WordByWord(c, b.gpr, b.sse))]

CallPlaces(args, r) ==
  LET after[n \in 0 .. Len(args)] ==
        IF n = 0 THEN NoPlaces(r) ELSE PutArgument(after[n - 1], args[n])
  IN after[Len(args)]

\* Takes two vector registers as they lie, too.
OneAfterTheOther(c) == c[1] \in SseClasses \/ Needs(c, SseClasses) = 0

\* A single register, or two integer registers, are used where they lie.
InPlace(c) == Len(c) = 1 \/ Needs(c, SseClasses) = 0

\* ffi_closure_unix64_inner: where it looks for an argument.
FindArgument(b, t) ==
  LET c == Classify(t, 0)
      inMemory == GoesInMemory(c, b.gpr, b.sse)
  IN CASE inMemory -> InMemory(b, t)
       [] ~inMemory /\ InPlace(c) /\ c[1] \in SseClasses ->
            [b EXCEPT !.sse = @ + Len(c),
                      !.places = Append(@, [w \in DOMAIN c |-> <<"sse", b.sse + w - 1>>])]
       [] ~inMemory /\ InPlace(c) /\ c[1] \notin SseClasses ->
            [b EXCEPT !.gpr = @ + Len(c),
                      !.places = Append(@, [w \in DOMAIN c |-> <<"gpr", b.gpr + w - 1>>])]
       [] ~inMemory /\ ~InPlace(c) ->
            [b EXCEPT !.gpr = @ + Needs(c, {"none"} \cup IntegerClasses),
                      !.sse = @ + Needs(c, SseClasses),
                      !.places = Append(@, WordByWord(c, b.gpr, b.sse))]

ClosurePlaces(args, r) ==
  LET after[n \in 0 .. Len(args)] ==
        IF n = 0 THEN NoPlaces(r) ELSE FindArgument(after[n - 1], args[n])
  IN after[Len(args)]

-----------------------------------------------------------------------------
(***************************************************************************)
(* Properties                                                              *)
(***************************************************************************)

Between == loop = "none" /\ instance = NoStruct

StructFields(s) == {k \in DOMAIN fields[s] : fields[s][k] \in Structs}

\* Structures whose layout is up to date and whose fields nest no further.
Callable(s) ==
  /\ fields[s] # <<>> /\ Complete(s)
  /\ \A k \in StructFields(s) : StructFields(fields[s][k]) = {} /\ Complete(fields[s][k])

\* The base types of s with their offsets, as struct.js has laid them out.
Scalars(s) ==
  {<<offset[s][k], fields[s][k]>> : k \in DOMAIN fields[s] \ StructFields(s)}
  \cup UNION {LET u == fields[s][k]
              IN {<<offset[s][k] + offset[u][j], fields[u][j]>> : j \in DOMAIN fields[u]} :
                k \in StructFields(s)}

\* Those that have a byte in eightbyte w.
ScalarsOf(s, w) ==
  {p \in Scalars(s) : p[1] < 8 * w /\ p[1] + SizeOf(p[2]) > 8 * (w - 1)}

\* A structure inside, with a part in one eightbyte and a part in the next.
Straddles(s) ==
  \E k \in StructFields(s) :
    /\ offset[s][k] % 8 # 0
    /\ (offset[s][k] % 8) + SizeOf(fields[s][k]) > 8

\* Lists of arguments: the fields of a structure, alone or after the structure.
Signatures == UNION {{fields[s], <<s>> \o fields[s]} : s \in {u \in Structs : Callable(u)}}

Results == {Void} \cup {s \in Structs : Callable(s)}

\* libffi and struct.js, which lay the same structure out by different code,
\* agree on its size and alignment: the bytes that JavaScript has written are
\* those that the call passes.
LayoutsAgree ==
  Between => \A s \in Structs : Callable(s) =>
    FFIType(s) = [size |-> size[s], alignment |-> alignment[s]]

\* The class of every eightbyte is that of the fields struct.js has put there:
\* integer if one of them is, vector otherwise, and the register takes only the
\* lower half where there is nothing in the upper.  Except for Straddles.
WordsAreClassified ==
  Between => \A s \in Structs : Callable(s) /\ ~Straddles(s) =>
    LET c == Classify(s, 0)
    IN \A w \in DOMAIN c :
         LET here == ScalarsOf(s, w)
         IN IF \E p \in here : Kind[p[2]] = "integer"
            THEN c[w] \in IntegerClasses
            ELSE c[w] \in SseClasses /\ (c[w] = "sseSF" => Cardinality(here) = 1)

\* A closure finds every argument where a call puts it, if none of them Straddles.
ClosureFindsArguments ==
  Between => \A args \in Signatures, r \in Results :
    (\A n \in DOMAIN args : args[n] \in Structs => ~Straddles(args[n])) =>
      ClosurePlaces(args, r) = CallPlaces(args, r)

\* No two eightbytes are put in the same place, no register is used that does
\* not exist or has the address of the result, and the stack that was measured
\* beforehand has room, if none of the arguments Straddles.
ArgumentsHaveRoom ==
  Between => \A args \in Signatures, r \in Results :
    LET call == CallPlaces(args, r)
        Words(n) == {<<n, w>> : w \in DOMAIN call.places[n]}
        all == UNION {Words(n) : n \in DOMAIN args}
        Place(p) == call.places[p[1]][p[2]]
    IN (\A n \in DOMAIN args : args[n] \in Structs => ~Straddles(args[n])) =>
         /\ \A p, q \in all : Place(p) = Place(q) => p = q
         /\ \A p \in all :
              /\ Place(p)[1] # "abort"
              /\ Place(p)[1] = "gpr" => Place(p)[2] \in First(r) .. MaxGpr - 1
              /\ Place(p)[1] = "sse" => Place(p)[2] \in 0 .. MaxSse - 1
         /\ call.argp <= MachdepBytes(args, r)
=============================================================================
